----------------------------- MODULE Pipe_proofs -----------------------------
(***************************************************************************)
(* _pipe_is_closed is right for any number of processes and descriptors,   *)
(* as long as nobody forks while the pipe is in use (Inv); and the buffer, *)
(* of any size and with forks, is a queue wherever a reader and a writer   *)
(* preempt each other, until two readers or two writers overlap or a       *)
(* reader sees an index ahead of its byte (RingInv).                       *)
(***************************************************************************)
EXTENDS Pipe, FiniteSetTheorems, TLAPS

(* Types, as far as the argument needs them. *)
Record == [pc : Pcs, op : {"none", "read", "write", "ask"}, slot : Slot, to : Slot,
           child : Proc, n : Nat, i : Nat, pos : Nat, fd_ref : Nat, pipe_ref : Nat]

Types ==
    /\ fd \in [Proc -> [Slot -> End \cup {"none"}]]
    /\ data \in [Proc -> [Slot -> BOOLEAN]]
    /\ p_rpos \in Nat /\ p_wpos \in Nat
    /\ st \in [Proc -> Record]

(* Nobody is being forked. *)
AllBorn == alive = Proc /\ \A p \in Proc : st[p].pc \notin {"f_fd", "f_data"}

(* An open descriptor has the page of the buffer: close unmaps the end     *)
(* first, dup maps it last.                                                *)
FdHasData == \A p \in Proc, s \in Slot : fd[p][s] # "none" => data[p][s]

Using == Pcs \ {"idle", "x_data", "f_fd", "f_data"}

(* What a call relies on: its descriptor stays open while it works, and    *)
(* the one that is closed or made is not open yet.                         *)
CallIsSound(p) ==
    /\ st[p].pc \in Using => fd[p][st[p].slot] # "none"
    /\ st[p].pc = "x_data" => fd[p][st[p].slot] = "none"
    /\ st[p].pc \in {"d_close", "d_data", "d_fd"} => fd[p][st[p].to] = "none"
    /\ st[p].pc = "d_fd" => data[p][st[p].to]

(* The counts read since env_runs was read are still true if it has not    *)
(* moved.                                                                  *)
CountsAreFresh(p) ==
    ~moved[p] =>
        /\ st[p].pc \in {"c_pipe", "c_cmp"} =>
               st[p].fd_ref = Cardinality(FdSlots(fd[p][st[p].slot]))
        /\ st[p].pc = "c_cmp" => st[p].pipe_ref = Cardinality(DataSlots)

Inv ==
    /\ Types
    /\ AllBorn
    /\ FdHasData
    /\ \A p \in Proc : CallIsSound(p)
    /\ \A p \in Proc : CountsAreFresh(p)
    /\ ClosedIsClosed

-----------------------------------------------------------------------------
(* The descriptors that pipe() returns are descriptors. *)
LEMMA SlotFacts == 0 \in Slot /\ 1 \in Slot /\ Slot \subseteq Nat /\ IsFiniteSet(Slot)
<1>1. 0 \in Slot /\ 1 \in Slot /\ Slot \subseteq Nat
  BY SlotAssumption DEF Slot
<1>2. IsFiniteSet(Slot)
  BY SlotAssumption, FS_Interval, 0 \in Int, NSlot - 1 \in Int DEF Slot
<1> QED BY <1>1, <1>2

(* There are finitely many places where a page may be mapped. *)
LEMMA Places == IsFiniteSet(DataSlots) /\ \A e : IsFiniteSet(FdSlots(e)) /\ Cardinality(FdSlots(e)) \in Nat
<1>1. IsFiniteSet(Proc \X Slot)
  BY ProcAssumption, SlotFacts, FS_Product
<1>2. IsFiniteSet(DataSlots)
  BY <1>1, FS_Subset DEF DataSlots
<1>3. \A e : IsFiniteSet(FdSlots(e))
  BY <1>1, FS_Subset DEF FdSlots
<1> QED BY <1>2, <1>3, FS_CardinalityType

(* An end that is mapped nowhere is mapped at no descriptor. *)
LEMMA NobodyHas ==
  ASSUME NEW e, FdSlots(e) = {}, NEW p \in Proc, NEW s \in Slot
  PROVE  fd[p][s] # e
<1>1. <<p, s>> \in Proc \X Slot /\ <<p, s>>[1] = p /\ <<p, s>>[2] = s
  OBVIOUS
<1>2. <<p, s>> \notin FdSlots(e)
  OBVIOUS
<1> QED BY <1>1, <1>2 DEF FdSlots

(* Equal counts mean that the other end is not open: every descriptor of   *)
(* this end has the buffer, so the others have none.                       *)
LEMMA EqualCounts ==
  ASSUME Types, FdHasData, NEW e \in End,
         Cardinality(FdSlots(e)) = Cardinality(DataSlots)
  PROVE  FdSlots(Other(e)) = {}
<1>1. FdSlots(e) \subseteq DataSlots /\ FdSlots(Other(e)) \subseteq DataSlots
  BY DEF FdSlots, DataSlots, FdHasData, End, Other
<1>2. FdSlots(e) = DataSlots
  BY <1>1, Places, FS_Subset
<1>3. FdSlots(e) \cap FdSlots(Other(e)) = {}
  BY DEF FdSlots, End, Other
<1> QED BY <1>1, <1>2, <1>3

-----------------------------------------------------------------------------
(* What every step of p has in common.  It changes the state and the       *)
(* descriptors of p only, whoever else is comparing counts will see that   *)
(* env_runs has moved, and an end that nobody has open is not opened.      *)
LEMMA OneProcess ==
  ASSUME Inv, NEW p \in Proc, NEW pc, Step(p, pc),
         alive' = alive, p_rpos' \in Nat, p_wpos' \in Nat,
         st' = [st EXCEPT ![p] = st'[p]], st'[p] \in Record, st'[p].pc \notin {"f_fd", "f_data"},
         fd' = [fd EXCEPT ![p] = fd'[p]], fd'[p] \in [Slot -> End \cup {"none"}],
         data' = [data EXCEPT ![p] = data'[p]], data'[p] \in [Slot -> BOOLEAN],
         \A s \in Slot : fd'[p][s] # "none" =>
             data'[p][s] /\ \E t \in Slot : fd[p][t] = fd'[p][s],
         CallIsSound(p)', CountsAreFresh(p)',
         st'[p].pc = "closed" => FdSlots(Other(fd'[p][st'[p].slot])) = {}
  PROVE  Inv'
<1>1. Types'
  BY DEF Inv, Types
<1>2. AllBorn'
  BY DEF Inv, Types, AllBorn
<1>3. FdHasData'
  BY DEF Inv, Types, FdHasData
<1>4. ASSUME NEW q \in Proc PROVE CallIsSound(q)'
  <2>1. CASE q = p
    BY <2>1
  <2>2. CASE q # p
    <3>1. st'[q] = st[q] /\ fd'[q] = fd[q] /\ data'[q] = data[q]
      BY <2>2 DEF Inv, Types
    <3>2. CallIsSound(q)
      BY DEF Inv
    <3> QED BY <3>1, <3>2 DEF CallIsSound
  <2> QED BY <2>1, <2>2
<1>5. ASSUME NEW q \in Proc PROVE CountsAreFresh(q)'
  <2>1. CASE q = p
    BY <2>1
  <2>2. CASE q # p
    <3>1. st'[q] = st[q] /\ moved'[q] = (st[q].pc \in Check)
      BY <2>2 DEF Inv, Types, Step
    <3> QED BY <3>1 DEF CountsAreFresh, Check
  <2> QED BY <2>1, <2>2
<1>6. ASSUME NEW e, e # "none", FdSlots(e) = {} PROVE FdSlots(e)' = {}
  <2> SUFFICES ASSUME NEW x \in Proc \X Slot, fd'[x[1]][x[2]] = e PROVE FALSE
    BY DEF FdSlots
  <2> DEFINE q == x[1]
             s == x[2]
  <2>0. q \in Proc /\ s \in Slot
    OBVIOUS
  <2>1. \A t \in Slot : fd[p][t] # e /\ fd[q][t] # e
    BY <1>6, <2>0, NobodyHas
  <2>2. fd'[q] = IF q = p THEN fd'[p] ELSE fd[q]
    BY <2>0 DEF Inv, Types
  <2> QED BY <1>6, <2>0, <2>1, <2>2
<1>7. ClosedIsClosed'
  <2> SUFFICES ASSUME NEW q \in Proc, st'[q].pc = "closed",
                      NEW e, e = Other(fd'[q][st'[q].slot])
               PROVE  FdSlots(e)' = {}
    BY DEF ClosedIsClosed, FdSlots
  <2>1. FdSlots(e) = {}
    <3>1. CASE q = p
      BY <3>1 DEF Inv, Types
    <3>2. CASE q # p
      BY <3>2 DEF Inv, Types, ClosedIsClosed
    <3> QED BY <3>1, <3>2
  <2>2. e # "none"
    BY DEF Other
  <2> QED BY <2>1, <2>2, <1>6
<1> QED BY <1>1, <1>2, <1>3, <1>4, <1>5, <1>7 DEF Inv

(* A step that maps nothing, reads no count and does not find the pipe     *)
(* closed.                                                                 *)
LEMMA NoMapping ==
  ASSUME Inv, NEW p \in Proc, NEW pc, Step(p, pc),
         UNCHANGED <<maps, alive>>, p_rpos' \in Nat, p_wpos' \in Nat,
         st' = [st EXCEPT ![p] = st'[p]], st'[p] \in Record,
         st'[p].pc \in Reading \cup Writing \cup {"idle", "r_test", "w_test", "c_runs", "c_fd"},
         st'[p].pc # "idle" => fd[p][st'[p].slot] # "none"
  PROVE  Inv'
<1>1. fd'[p] \in [Slot -> End \cup {"none"}] /\ fd' = [fd EXCEPT ![p] = fd'[p]]
  BY DEF Inv, Types, maps
<1>2. data'[p] \in [Slot -> BOOLEAN] /\ data' = [data EXCEPT ![p] = data'[p]]
  BY DEF Inv, Types, maps
<1>3. \A s \in Slot : fd'[p][s] # "none" =>
          data'[p][s] /\ \E t \in Slot : fd[p][t] = fd'[p][s]
  BY DEF Inv, FdHasData, maps
<1>4. st'[p].pc \notin {"c_pipe", "c_cmp", "closed", "x_data", "d_close", "d_data", "d_fd",
                       "f_fd", "f_data"}
  BY DEF Reading, Writing
<1>5. CallIsSound(p)'
  BY <1>4 DEF CallIsSound, Using, maps
<1>6. CountsAreFresh(p)'
  BY <1>4 DEF CountsAreFresh
<1>7. alive' = alive
  BY DEF maps
<1> QED BY <1>1, <1>2, <1>3, <1>4, <1>5, <1>6, <1>7, OneProcess

(* Which points of the code are inside a call that uses its descriptor. *)
LEMMA PcFacts ==
  /\ {"idle", "r_test", "w_test", "c_runs", "closed", "x_data", "d_close", "d_data", "d_fd",
      "f_fd", "f_data"} \subseteq Pcs
  /\ Reading \subseteq Pcs /\ Writing \subseteq Pcs /\ Check \subseteq Pcs
  /\ Reading \subseteq Using /\ Writing \subseteq Using /\ Check \subseteq Using
  /\ {"r_test", "w_test", "c_runs", "closed", "d_close", "d_data", "d_fd"} \subseteq Using
BY DEF Pcs, Using, Reading, Writing, Check

(* A process outside of a call. *)
LEMMA IdleFacts == ASSUME NEW p \in Proc PROVE Idle(p) \in Record /\ Idle(p).pc = "idle"
BY SlotFacts, PcFacts DEF Idle, Record

(* The state of a process and the descriptor it works on. *)
LEMMA OwnState ==
  ASSUME Inv, NEW p \in Proc
  PROVE  /\ st[p] \in Record /\ st \in [Proc -> Record]
         /\ st[p].pc \in Using => fd[p][st[p].slot] # "none"
         /\ p_rpos \in Nat /\ p_wpos \in Nat
BY DEF Inv, Types, CallIsSound

(* What a step to another point of the code does to the locals. *)
LEMMA GotoFacts ==
  ASSUME st \in [Proc -> Record], NEW p \in Proc, NEW v \in Pcs, Goto(p, v)
  PROVE  /\ st' = [st EXCEPT ![p] = st'[p]] /\ st'[p] \in Record
         /\ st'[p].pc = v /\ st'[p].pos = st[p].pos
         /\ st'[p].slot = st[p].slot /\ st'[p].op = st[p].op
         /\ st'[p].n = st[p].n /\ st'[p].i = st[p].i
<1>0. st[p] \in Record
  OBVIOUS
<1>1. st' = [st EXCEPT ![p] = st'[p]] /\ st'[p] = [st[p] EXCEPT !.pc = v]
  BY DEF Goto
<1>2. [st[p] EXCEPT !.pc = v] \in Record
  BY <1>0 DEF Record
<1>3. /\ st'[p].pc = v /\ st'[p].pos = st[p].pos
      /\ st'[p].slot = st[p].slot /\ st'[p].op = st[p].op
      /\ st'[p].n = st[p].n /\ st'[p].i = st[p].i
  BY <1>0, <1>1 DEF Record
<1> QED BY <1>1, <1>2, <1>3

LEMMA LoadFacts ==
  ASSUME st \in [Proc -> Record], NEW p \in Proc, NEW v \in Pcs, NEW k \in Nat, Load(p, v, k)
  PROVE  /\ st' = [st EXCEPT ![p] = st'[p]] /\ st'[p] \in Record
         /\ st'[p].pc = v /\ st'[p].pos = k
         /\ st'[p].slot = st[p].slot /\ st'[p].op = st[p].op
         /\ st'[p].n = st[p].n /\ st'[p].i = st[p].i
<1>0. st[p] \in Record
  OBVIOUS
<1>1. st' = [st EXCEPT ![p] = st'[p]] /\ st'[p] = [st[p] EXCEPT !.pc = v, !.pos = k]
  BY DEF Load
<1>2. [st[p] EXCEPT !.pc = v, !.pos = k] \in Record
  BY <1>0 DEF Record
<1>3. /\ st'[p].pc = v /\ st'[p].pos = k
      /\ st'[p].slot = st[p].slot /\ st'[p].op = st[p].op
      /\ st'[p].n = st[p].n /\ st'[p].i = st[p].i
  BY <1>0, <1>1 DEF Record
<1> QED BY <1>1, <1>2, <1>3

LEMMA NextByteFacts ==
  ASSUME st \in [Proc -> Record], NEW p \in Proc, NEW v \in Pcs, NextByte(p, v)
  PROVE  /\ st' = [st EXCEPT ![p] = st'[p]] /\ st'[p] \in Record
         /\ \/ st'[p] = Idle(p)
            \/ /\ st'[p].pc = v
               /\ st'[p].slot = st[p].slot /\ st'[p].op = st[p].op
               /\ st'[p].n = st[p].n /\ st'[p].i = st[p].i + 1 /\ st[p].i + 1 # st[p].n
<1> DEFINE next == [st[p] EXCEPT !.i = st[p].i + 1, !.pc = v]
           new  == IF st[p].i + 1 = st[p].n THEN Idle(p) ELSE next
<1>0. st[p] \in Record
  OBVIOUS
<1>1. st' = [st EXCEPT ![p] = st'[p]] /\ st'[p] = new
  <2>1. st' = [st EXCEPT ![p] = new]
    BY Zenon DEF NextByte
  <2> HIDE DEF new
  <2> QED BY <2>1
<1>2. next \in Record
  <2>1. st[p].i + 1 \in Nat
    BY <1>0 DEF Record
  <2> QED BY <1>0, <2>1 DEF Record
<1>3. /\ next.pc = v /\ next.slot = st[p].slot /\ next.op = st[p].op
      /\ next.n = st[p].n /\ next.i = st[p].i + 1
  BY <1>0 DEF Record
<1> HIDE DEF next
<1> QED BY <1>1, <1>2, <1>3, IdleFacts

(* The transfer of a byte: all but what it does to the buffer.             *)
Moves(p) ==
    \/ r_test(p) \/ r_cmp(p) \/ r_take(p) \/ r_inc(p) \/ r_load(p) \/ r_wrap(p) \/ r_zero(p)
    \/ w_test(p) \/ w_cmp(p) \/ w_edge(p) \/ w_low(p)
    \/ w_take(p) \/ w_inc(p) \/ w_store(p) \/ w_wrap(p) \/ w_zero(p)

InRead  == Reading \cup {"r_test"}
InWrite == Writing \cup {"w_test"}

MoveShape(p, pc) ==
    /\ Step(p, pc) /\ UNCHANGED <<fd, data, alive, calls>> /\ p_rpos' \in Nat /\ p_wpos' \in Nat
    /\ st' = [st EXCEPT ![p] = st'[p]] /\ st'[p] \in Record
    /\ \/ st'[p] = Idle(p)
       \/ /\ st'[p].slot = st[p].slot /\ st'[p].op = st[p].op /\ st'[p].n = st[p].n
          /\ \/ st'[p].i = st[p].i
             \/ st'[p].i = st[p].i + 1 /\ st[p].i + 1 # st[p].n
          /\ \/ pc \in InRead /\ st'[p].pc \in InRead \cup {"c_runs"}
             \/ pc \in InWrite /\ st'[p].pc \in InWrite \cup {"c_runs"}

LEMMA MoveFacts ==
  ASSUME st \in [Proc -> Record], p_rpos \in Nat, p_wpos \in Nat, NEW p \in Proc, Moves(p)
  PROVE  \E pc \in InRead \cup InWrite : MoveShape(p, pc)
<1>0. st[p].pos \in Nat
  BY DEF Record
<1>a. InRead \subseteq Pcs /\ InWrite \subseteq Pcs /\ "c_runs" \in Pcs
  BY PcFacts DEF InRead, InWrite
<1>1. CASE r_test(p)
  <2>1. /\ Step(p, "r_test") /\ UNCHANGED <<fd, data, alive, calls>>
        /\ p_rpos' \in Nat /\ p_wpos' \in Nat /\ "r_test" \in InRead
    BY <1>0, <1>1 DEF r_test, maps, pipe, InRead, Reading
  <2> DEFINE v == "r_cmp"
  <2>2. Load(p, v, p_wpos) /\ v \in InRead \cup {"c_runs"}
    BY <1>1 DEF r_test, InRead, Reading
  <2> HIDE DEF v
  <2> QED BY <1>a, <2>1, <2>2, LoadFacts DEF MoveShape
<1>2. CASE r_cmp(p)
  <2>1. /\ Step(p, "r_cmp") /\ UNCHANGED <<fd, data, alive, calls>>
        /\ p_rpos' \in Nat /\ p_wpos' \in Nat /\ "r_cmp" \in InRead
    BY <1>0, <1>2 DEF r_cmp, maps, pipe, InRead, Reading
  <2> DEFINE v == IF st[p].pos = p_rpos THEN "c_runs" ELSE "r_take"
  <2>2. Load(p, v, 0) /\ v \in InRead \cup {"c_runs"}
    BY <1>2 DEF r_cmp, InRead, Reading
  <2> HIDE DEF v
  <2> QED BY <1>a, <2>1, <2>2, LoadFacts DEF MoveShape
<1>3. CASE r_take(p)
  <2>1. /\ Step(p, "r_take") /\ UNCHANGED <<fd, data, alive, calls>>
        /\ p_rpos' \in Nat /\ p_wpos' \in Nat /\ "r_take" \in InRead
    BY <1>0, <1>3 DEF r_take, maps, pipe, InRead, Reading
  <2> DEFINE v == "r_inc"
  <2>2. Load(p, v, p_rpos) /\ v \in InRead \cup {"c_runs"}
    BY <1>3 DEF r_take, InRead, Reading
  <2> HIDE DEF v
  <2> QED BY <1>a, <2>1, <2>2, LoadFacts DEF MoveShape
<1>4. CASE r_inc(p)
  <2>1. /\ Step(p, "r_inc") /\ UNCHANGED <<fd, data, alive, calls>>
        /\ p_rpos' \in Nat /\ p_wpos' \in Nat /\ "r_inc" \in InRead
    BY <1>0, <1>4 DEF r_inc, maps, pipe, InRead, Reading
  <2> DEFINE v == "r_load"
  <2>2. Goto(p, v) /\ v \in InRead \cup {"c_runs"}
    BY <1>4 DEF r_inc, InRead, Reading
  <2> HIDE DEF v
  <2> QED BY <1>a, <2>1, <2>2, GotoFacts DEF MoveShape
<1>5. CASE r_load(p)
  <2>1. /\ Step(p, "r_load") /\ UNCHANGED <<fd, data, alive, calls>>
        /\ p_rpos' \in Nat /\ p_wpos' \in Nat /\ "r_load" \in InRead
    BY <1>0, <1>5 DEF r_load, maps, pipe, InRead, Reading
  <2> DEFINE v == "r_wrap"
  <2>2. Load(p, v, 0) /\ v \in InRead \cup {"c_runs"}
    BY <1>5 DEF r_load, InRead, Reading
  <2> HIDE DEF v
  <2> QED BY <1>a, <2>1, <2>2, LoadFacts DEF MoveShape
<1>6. CASE r_wrap(p)
  <2>1. /\ Step(p, "r_wrap") /\ UNCHANGED <<fd, data, alive, calls>>
        /\ p_rpos' \in Nat /\ p_wpos' \in Nat /\ "r_wrap" \in InRead
    BY <1>0, <1>6 DEF r_wrap, maps, pipe, InRead, Reading
  <2>2. "r_test" \in InRead /\ "r_zero" \in InRead
    BY DEF InRead, Reading
  <2>3. Goto(p, "r_zero") \/ NextByte(p, "r_test")
    BY <1>6 DEF r_wrap
  <2>4. CASE Goto(p, "r_zero")
    BY <1>a, <2>1, <2>2, <2>4, GotoFacts DEF MoveShape
  <2>5. CASE NextByte(p, "r_test")
    BY <1>a, <2>1, <2>2, <2>5, NextByteFacts DEF MoveShape
  <2> QED BY <2>3, <2>4, <2>5
<1>7. CASE r_zero(p)
  <2>1. /\ Step(p, "r_zero") /\ UNCHANGED <<fd, data, alive, calls>>
        /\ p_rpos' \in Nat /\ p_wpos' \in Nat /\ "r_zero" \in InRead
    BY <1>0, <1>7 DEF r_zero, maps, pipe, InRead, Reading
  <2>2. "r_test" \in InRead /\ NextByte(p, "r_test")
    BY <1>7 DEF r_zero, InRead
  <2> QED BY <1>a, <2>1, <2>2, NextByteFacts DEF MoveShape
<1>8. CASE w_test(p)
  <2>1. /\ Step(p, "w_test") /\ UNCHANGED <<fd, data, alive, calls>>
        /\ p_rpos' \in Nat /\ p_wpos' \in Nat /\ "w_test" \in InWrite
    BY <1>0, <1>8 DEF w_test, maps, pipe, InWrite, Writing
  <2> DEFINE v == "w_cmp"
  <2>2. Load(p, v, p_wpos) /\ v \in InWrite \cup {"c_runs"}
    BY <1>8 DEF w_test, InWrite, Writing
  <2> HIDE DEF v
  <2> QED BY <1>a, <2>1, <2>2, LoadFacts DEF MoveShape
<1>9. CASE w_cmp(p)
  <2>1. /\ Step(p, "w_cmp") /\ UNCHANGED <<fd, data, alive, calls>>
        /\ p_rpos' \in Nat /\ p_wpos' \in Nat /\ "w_cmp" \in InWrite
    BY <1>0, <1>9 DEF w_cmp, maps, pipe, InWrite, Writing
  <2> DEFINE v == IF st[p].pos + 1 = p_rpos THEN "c_runs" ELSE "w_edge"
  <2>2. Load(p, v, 0) /\ v \in InWrite \cup {"c_runs"}
    BY <1>9 DEF w_cmp, InWrite, Writing
  <2> HIDE DEF v
  <2> QED BY <1>a, <2>1, <2>2, LoadFacts DEF MoveShape
<1>10. CASE w_edge(p)
  <2>1. /\ Step(p, "w_edge") /\ UNCHANGED <<fd, data, alive, calls>>
        /\ p_rpos' \in Nat /\ p_wpos' \in Nat /\ "w_edge" \in InWrite
    BY <1>0, <1>10 DEF w_edge, maps, pipe, InWrite, Writing
  <2> DEFINE v == IF p_wpos = BY2PIPE - 1 THEN "w_low" ELSE "w_take"
  <2>2. Goto(p, v) /\ v \in InWrite \cup {"c_runs"}
    BY <1>10 DEF w_edge, InWrite, Writing
  <2> HIDE DEF v
  <2> QED BY <1>a, <2>1, <2>2, GotoFacts DEF MoveShape
<1>11. CASE w_low(p)
  <2>1. /\ Step(p, "w_low") /\ UNCHANGED <<fd, data, alive, calls>>
        /\ p_rpos' \in Nat /\ p_wpos' \in Nat /\ "w_low" \in InWrite
    BY <1>0, <1>11 DEF w_low, maps, pipe, InWrite, Writing
  <2> DEFINE v == IF p_rpos = 0 THEN "c_runs" ELSE "w_take"
  <2>2. Goto(p, v) /\ v \in InWrite \cup {"c_runs"}
    BY <1>11 DEF w_low, InWrite, Writing
  <2> HIDE DEF v
  <2> QED BY <1>a, <2>1, <2>2, GotoFacts DEF MoveShape
<1>12. CASE w_take(p)
  <2>1. /\ Step(p, "w_take") /\ UNCHANGED <<fd, data, alive, calls>>
        /\ p_rpos' \in Nat /\ p_wpos' \in Nat /\ "w_take" \in InWrite
    BY <1>0, <1>12 DEF w_take, maps, pipe, InWrite, Writing
  <2> DEFINE v == "w_inc"
  <2>2. Load(p, v, p_wpos) /\ v \in InWrite \cup {"c_runs"}
    BY <1>12 DEF w_take, InWrite, Writing
  <2> HIDE DEF v
  <2> QED BY <1>a, <2>1, <2>2, LoadFacts DEF MoveShape
<1>13. CASE w_inc(p)
  <2>1. /\ Step(p, "w_inc") /\ UNCHANGED <<fd, data, alive, calls>>
        /\ p_rpos' \in Nat /\ p_wpos' \in Nat /\ "w_inc" \in InWrite
    BY <1>0, <1>13 DEF w_inc, maps, pipe, InWrite, Writing
  <2> DEFINE v == "w_store"
  <2>2. Goto(p, v) /\ v \in InWrite \cup {"c_runs"}
    BY <1>13 DEF w_inc, InWrite, Writing
  <2> HIDE DEF v
  <2> QED BY <1>a, <2>1, <2>2, GotoFacts DEF MoveShape
<1>14. CASE w_store(p)
  <2>1. /\ Step(p, "w_store") /\ UNCHANGED <<fd, data, alive, calls>>
        /\ p_rpos' \in Nat /\ p_wpos' \in Nat /\ "w_store" \in InWrite
    BY <1>0, <1>14 DEF w_store, maps, pipe, InWrite, Writing
  <2> DEFINE v == "w_wrap"
  <2>2. Load(p, v, 0) /\ v \in InWrite \cup {"c_runs"}
    BY <1>14 DEF w_store, InWrite, Writing
  <2> HIDE DEF v
  <2> QED BY <1>a, <2>1, <2>2, LoadFacts DEF MoveShape
<1>15. CASE w_wrap(p)
  <2>1. /\ Step(p, "w_wrap") /\ UNCHANGED <<fd, data, alive, calls>>
        /\ p_rpos' \in Nat /\ p_wpos' \in Nat /\ "w_wrap" \in InWrite
    BY <1>0, <1>15 DEF w_wrap, maps, pipe, InWrite, Writing
  <2>2. "w_test" \in InWrite /\ "w_zero" \in InWrite
    BY DEF InWrite, Writing
  <2>3. Goto(p, "w_zero") \/ NextByte(p, "w_test")
    BY <1>15 DEF w_wrap
  <2>4. CASE Goto(p, "w_zero")
    BY <1>a, <2>1, <2>2, <2>4, GotoFacts DEF MoveShape
  <2>5. CASE NextByte(p, "w_test")
    BY <1>a, <2>1, <2>2, <2>5, NextByteFacts DEF MoveShape
  <2> QED BY <2>3, <2>4, <2>5
<1>16. CASE w_zero(p)
  <2>1. /\ Step(p, "w_zero") /\ UNCHANGED <<fd, data, alive, calls>>
        /\ p_rpos' \in Nat /\ p_wpos' \in Nat /\ "w_zero" \in InWrite
    BY <1>0, <1>16 DEF w_zero, maps, pipe, InWrite, Writing
  <2>2. "w_test" \in InWrite /\ NextByte(p, "w_test")
    BY <1>16 DEF w_zero, InWrite
  <2> QED BY <1>a, <2>1, <2>2, NextByteFacts DEF MoveShape
<1> QED BY <1>1, <1>2, <1>3, <1>4, <1>5, <1>6, <1>7, <1>8, <1>9, <1>10, <1>11, <1>12, <1>13, <1>14, <1>15, <1>16 DEF Moves

(* The calls read, write and pipe_is_closed, and the transfer of a byte. *)
LEMMA TransferSteps ==
  ASSUME Inv, NEW p \in Proc,
         \/ \E s \in Slot, n \in 1..MaxN : read(p, s, n) \/ write(p, s, n)
         \/ \E s \in Slot : pipe_is_closed(p, s)
         \/ Moves(p)
         \/ c_runs(p) \/ closed(p)
  PROVE  Inv'
<1>0. /\ st[p] \in Record /\ st \in [Proc -> Record]
      /\ st[p].pc \in Using => fd[p][st[p].slot] # "none"
      /\ p_rpos \in Nat /\ p_wpos \in Nat
  BY OwnState
<1>a. st[p] \in Record
  BY <1>0
<1>1. ASSUME NEW s \in Slot, NEW n \in 1..MaxN, read(p, s, n) PROVE Inv'
  <2>1. /\ st' = [st EXCEPT ![p] = st'[p]]
        /\ st'[p] = [st[p] EXCEPT !.pc = "r_test", !.op = "read", !.slot = s, !.n = n, !.i = 0]
    BY <1>0, <1>1 DEF read
  <2>2. st'[p] \in Record
    <3>1. n \in Nat /\ "r_test" \in Pcs
      BY PcFacts, BoundAssumption
    <3>2. [st[p] EXCEPT !.pc = "r_test", !.op = "read", !.slot = s, !.n = n, !.i = 0] \in Record
      BY <1>a, <3>1 DEF Record
    <3> QED BY <2>1, <3>2
  <2>3. st'[p].pc = "r_test" /\ st'[p].slot = s
    BY <1>0, <2>1 DEF Record
  <2>4. Step(p, "idle") /\ UNCHANGED <<maps, alive>> /\ fd[p][s] # "none"
    BY <1>1 DEF read, Call
  <2>5. p_rpos' \in Nat /\ p_wpos' \in Nat
    BY <1>0, <1>1 DEF read, pipe
  <2> QED BY <2>1, <2>2, <2>3, <2>4, <2>5, NoMapping
<1>2. ASSUME NEW s \in Slot, NEW n \in 1..MaxN, write(p, s, n) PROVE Inv'
  <2>1. /\ st' = [st EXCEPT ![p] = st'[p]]
        /\ st'[p] = [st[p] EXCEPT !.pc = "w_test", !.op = "write", !.slot = s, !.n = n, !.i = 0]
    BY <1>0, <1>2 DEF write
  <2>2. st'[p] \in Record
    <3>1. n \in Nat /\ "w_test" \in Pcs
      BY PcFacts, BoundAssumption
    <3>2. [st[p] EXCEPT !.pc = "w_test", !.op = "write", !.slot = s, !.n = n, !.i = 0] \in Record
      BY <1>a, <3>1 DEF Record
    <3> QED BY <2>1, <3>2
  <2>3. st'[p].pc = "w_test" /\ st'[p].slot = s
    BY <1>0, <2>1 DEF Record
  <2>4. Step(p, "idle") /\ UNCHANGED <<maps, alive>> /\ fd[p][s] # "none"
    BY <1>2 DEF write, Call
  <2>5. p_rpos' \in Nat /\ p_wpos' \in Nat
    BY <1>0, <1>2 DEF write, pipe
  <2> QED BY <2>1, <2>2, <2>3, <2>4, <2>5, NoMapping
<1>3. ASSUME NEW s \in Slot, pipe_is_closed(p, s) PROVE Inv'
  <2>1. /\ st' = [st EXCEPT ![p] = st'[p]]
        /\ st'[p] = [st[p] EXCEPT !.pc = "c_runs", !.op = "ask", !.slot = s]
    BY <1>0, <1>3 DEF pipe_is_closed
  <2>2. st'[p] \in Record
    BY <1>0, <2>1, PcFacts DEF Record
  <2>3. st'[p].pc = "c_runs" /\ st'[p].slot = s
    BY <1>0, <2>1 DEF Record
  <2>4. Step(p, "idle") /\ UNCHANGED <<maps, alive>> /\ fd[p][s] # "none"
    BY <1>3 DEF pipe_is_closed, Call
  <2>5. p_rpos' \in Nat /\ p_wpos' \in Nat
    BY <1>0, <1>3 DEF pipe_is_closed, pipe
  <2> QED BY <2>1, <2>2, <2>3, <2>4, <2>5, NoMapping
<1>4. CASE Moves(p)
  <2>1. PICK pc \in InRead \cup InWrite : MoveShape(p, pc)
    BY <1>0, <1>4, MoveFacts
  <2>2. st[p].pc \in Using
    BY <2>1, PcFacts DEF MoveShape, Step, InRead, InWrite
  <2>3. /\ Step(p, pc) /\ UNCHANGED <<maps, alive>> /\ p_rpos' \in Nat /\ p_wpos' \in Nat
        /\ st' = [st EXCEPT ![p] = st'[p]] /\ st'[p] \in Record
    BY <2>1 DEF MoveShape, maps
  <2>4. \/ st'[p].pc = "idle"
        \/ st'[p].slot = st[p].slot /\ st'[p].pc \in InRead \cup InWrite \cup {"c_runs"}
    BY <2>1, IdleFacts DEF MoveShape
  <2> QED BY <1>0, <2>2, <2>3, <2>4, NoMapping DEF InRead, InWrite
<1>5. CASE c_runs(p)
  <2>1. Step(p, "c_runs") /\ UNCHANGED <<maps, alive>> /\ Goto(p, "c_fd")
    BY <1>5 DEF c_runs
  <2>2. "c_fd" \in Pcs /\ st[p].pc \in Using
    BY <2>1, PcFacts DEF Check, Step
  <2>3. p_rpos' \in Nat /\ p_wpos' \in Nat
    BY <1>0, <1>5 DEF c_runs, pipe
  <2> QED BY <1>0, <2>1, <2>2, <2>3, GotoFacts, NoMapping
<1>6. CASE closed(p)
  <2>1. st' = [st EXCEPT ![p] = st'[p]] /\ st'[p] = Idle(p)
    BY <1>0, <1>6 DEF closed, Return
  <2>2. Step(p, "closed") /\ UNCHANGED <<maps, alive>>
    BY <1>6 DEF closed
  <2>3. p_rpos' \in Nat /\ p_wpos' \in Nat
    BY <1>0, <1>6 DEF closed, pipe
  <2> QED BY <2>1, <2>2, <2>3, IdleFacts, NoMapping
<1> QED BY <1>1, <1>2, <1>3, <1>4, <1>5, <1>6

(* The comparison of the counts. *)
LEMMA CompareSteps ==
  ASSUME Inv, NEW p \in Proc, c_fd(p) \/ c_pipe(p) \/ c_cmp(p)
  PROVE  Inv'
<1>0. /\ st[p] \in Record /\ st \in [Proc -> Record]
      /\ st[p].pc \in Using => fd[p][st[p].slot] # "none"
      /\ p_rpos \in Nat /\ p_wpos \in Nat
  BY OwnState
<1>a. st[p] \in Record
  BY <1>0
<1>1. UNCHANGED <<fd, data, alive, p_rpos, p_wpos>>
  BY DEF c_fd, c_pipe, c_cmp, maps, pipe
<1>2. /\ fd'[p] \in [Slot -> End \cup {"none"}] /\ fd' = [fd EXCEPT ![p] = fd'[p]]
      /\ data'[p] \in [Slot -> BOOLEAN] /\ data' = [data EXCEPT ![p] = data'[p]]
  BY <1>1 DEF Inv, Types
<1>3. \A s \in Slot : fd'[p][s] # "none" =>
          data'[p][s] /\ \E t \in Slot : fd[p][t] = fd'[p][s]
  BY <1>1 DEF Inv, FdHasData
<1>4. CASE c_fd(p)
  <2> DEFINE k == Cardinality(FdSlots(fd[p][st[p].slot]))
  <2>1. k \in Nat
    BY Places
  <2> HIDE DEF k
  <2>2. st' = [st EXCEPT ![p] = st'[p]] /\ st'[p] = [st[p] EXCEPT !.pc = "c_pipe", !.fd_ref = k]
    BY <1>0, <1>4 DEF c_fd, k
  <2>3. st'[p] \in Record
    <3>1. "c_pipe" \in Pcs
      BY PcFacts DEF Check
    <3>2. [st[p] EXCEPT !.pc = "c_pipe", !.fd_ref = k] \in Record
      BY <1>a, <2>1, <3>1 DEF Record
    <3> QED BY <2>2, <3>2
  <2>4. st'[p].pc = "c_pipe" /\ st'[p].slot = st[p].slot /\ st'[p].fd_ref = k
    BY <1>a, <2>2 DEF Record
  <2>5. Step(p, "c_fd") /\ st[p].pc = "c_fd"
    BY <1>4 DEF c_fd, Step
  <2>6. CallIsSound(p)'
    BY <1>0, <1>1, <2>4, <2>5, PcFacts DEF CallIsSound, Check
  <2>7. CountsAreFresh(p)'
    BY <1>1, <2>4 DEF CountsAreFresh, FdSlots, k
  <2> QED BY <1>0, <1>1, <1>2, <1>3, <2>2, <2>3, <2>4, <2>5, <2>6, <2>7, OneProcess
<1>5. CASE c_pipe(p)
  <2> DEFINE k == Cardinality(DataSlots)
  <2>1. k \in Nat
    BY Places, FS_CardinalityType
  <2> HIDE DEF k
  <2>2. st' = [st EXCEPT ![p] = st'[p]] /\ st'[p] = [st[p] EXCEPT !.pc = "c_cmp", !.pipe_ref = k]
    BY <1>0, <1>5 DEF c_pipe, k
  <2>3. st'[p] \in Record
    <3>1. "c_cmp" \in Pcs
      BY PcFacts DEF Check
    <3>2. [st[p] EXCEPT !.pc = "c_cmp", !.pipe_ref = k] \in Record
      BY <1>a, <2>1, <3>1 DEF Record
    <3> QED BY <2>2, <3>2
  <2>4. /\ st'[p].pc = "c_cmp" /\ st'[p].slot = st[p].slot
        /\ st'[p].fd_ref = st[p].fd_ref /\ st'[p].pipe_ref = k
    BY <1>a, <2>2 DEF Record
  <2>5. Step(p, "c_pipe") /\ st[p].pc = "c_pipe"
    BY <1>5 DEF c_pipe, Step
  <2>6. CallIsSound(p)'
    BY <1>0, <1>1, <2>4, <2>5, PcFacts DEF CallIsSound, Check
  <2>7. CountsAreFresh(p)'
    <3>1. ~moved'[p] => ~moved[p]
      BY <2>5 DEF Step
    <3>2. ~moved[p] => st[p].fd_ref = Cardinality(FdSlots(fd[p][st[p].slot]))
      BY <2>5 DEF Inv, CountsAreFresh
    <3> QED BY <1>1, <2>4, <3>1, <3>2 DEF CountsAreFresh, FdSlots, DataSlots, k
  <2> QED BY <1>0, <1>1, <1>2, <1>3, <2>2, <2>3, <2>4, <2>5, <2>6, <2>7, OneProcess
<1>6. CASE c_cmp(p)
  <2> DEFINE v == Verdict(p)
  <2>0. v \in {"c_runs", "closed", "r_test", "w_test", "idle"}
    BY DEF Verdict
  <2>1. v = "closed" => ~moved[p] /\ st[p].fd_ref = st[p].pipe_ref
    BY DEF Verdict
  <2> HIDE DEF v
  <2>2. /\ st' = [st EXCEPT ![p] = st'[p]]
        /\ st'[p] = IF v = "idle" THEN Idle(p)
                    ELSE [st[p] EXCEPT !.pc = v, !.fd_ref = 0, !.pipe_ref = 0]
    BY <1>0, <1>6 DEF c_cmp, v
  <2>3. st'[p] \in Record
    <3>1. v \in Pcs
      BY <2>0, PcFacts
    <3>2. [st[p] EXCEPT !.pc = v, !.fd_ref = 0, !.pipe_ref = 0] \in Record
      BY <1>a, <3>1 DEF Record
    <3> QED BY <2>2, <3>2, IdleFacts
  <2>4. st'[p].pc = v /\ (v # "idle" => st'[p].slot = st[p].slot)
    <3>1. CASE v = "idle"
      BY <2>2, <3>1, IdleFacts
    <3>2. CASE v # "idle"
      BY <1>a, <2>2, <3>2 DEF Record
    <3> QED BY <3>1, <3>2
  <2>5. Step(p, "c_cmp") /\ st[p].pc = "c_cmp"
    BY <1>6 DEF c_cmp, Step
  <2>6. CallIsSound(p)'
    BY <1>0, <1>1, <2>0, <2>4, <2>5, PcFacts DEF CallIsSound, Check, Using
  <2>7. CountsAreFresh(p)'
    BY <2>0, <2>4 DEF CountsAreFresh
  <2>8. ASSUME v = "closed" PROVE FdSlots(Other(fd'[p][st'[p].slot])) = {}
    <3> DEFINE e == fd[p][st[p].slot]
    <3>1. e \in End
      BY <1>0, <2>5, PcFacts DEF Inv, Types, Record, Check
    <3>2. Cardinality(FdSlots(e)) = Cardinality(DataSlots)
      BY <2>1, <2>5, <2>8 DEF Inv, CountsAreFresh
    <3>3. FdSlots(Other(e)) = {}
      BY <3>1, <3>2, EqualCounts DEF Inv
    <3> QED BY <1>1, <2>4, <2>8, <3>3
  <2> QED BY <1>0, <1>1, <1>2, <1>3, <2>0, <2>2, <2>3, <2>4, <2>5, <2>6, <2>7, <2>8, OneProcess
<1> QED BY <1>4, <1>5, <1>6
(* close and dup. *)
LEMMA MapSteps ==
  ASSUME Inv, NEW p \in Proc,
         \/ \E s \in Slot : close(p, s)
         \/ \E s, t \in Slot : dup(p, s, t)
         \/ pipe_close(p) \/ d_close(p) \/ d_data(p) \/ d_fd(p)
  PROVE  Inv'
<1>0. /\ st[p] \in Record /\ st \in [Proc -> Record] /\ st[p].slot \in Slot /\ st[p].to \in Slot
      /\ fd \in [Proc -> [Slot -> End \cup {"none"}]] /\ data \in [Proc -> [Slot -> BOOLEAN]]
  BY DEF Inv, Types, Record
<1>a. st[p] \in Record
  BY <1>0
<1>b. CallIsSound(p) /\ (\A s \in Slot : fd[p][s] # "none" => data[p][s])
  BY DEF Inv, FdHasData
<1>c. UNCHANGED <<alive, p_rpos, p_wpos>> /\ p_rpos' \in Nat /\ p_wpos' \in Nat
  BY DEF close, dup, pipe_close, d_close, d_data, d_fd, pipe, maps, Inv, Types
<1>1. ASSUME NEW s \in Slot, close(p, s) PROVE Inv'
  <2>1. Step(p, "idle") /\ st[p].pc = "idle"
    BY <1>1 DEF close, Step, Call
  <2>2. fd' = [fd EXCEPT ![p][s] = "none"] /\ data' = data
    BY <1>0, <1>1 DEF close, maps
  <2>3. st' = [st EXCEPT ![p] = st'[p]] /\ st'[p] = [st[p] EXCEPT !.pc = "x_data", !.slot = s]
    BY <1>0, <1>1 DEF close, Goto
  <2>4. st'[p] \in Record /\ st'[p].pc = "x_data" /\ st'[p].slot = s
    <3>1. {"x_data", "d_close", "d_data", "d_fd"} \subseteq Pcs
      BY PcFacts
    <3>2. [st[p] EXCEPT !.pc = "x_data", !.slot = s] \in Record
      BY <1>a, <1>1, <3>1 DEF Record
    <3>3. st'[p].pc = "x_data" /\ st'[p].slot = s
      BY <1>a, <2>3 DEF Record
    <3> QED BY <2>3, <3>2, <3>3
  <2>5. /\ fd'[p] \in [Slot -> End \cup {"none"}] /\ fd' = [fd EXCEPT ![p] = fd'[p]]
        /\ data'[p] \in [Slot -> BOOLEAN] /\ data' = [data EXCEPT ![p] = data'[p]]
    BY <1>0, <2>2
  <2>6. \A k \in Slot : fd'[p][k] # "none" =>
            data'[p][k] /\ \E j \in Slot : fd[p][j] = fd'[p][k]
    BY <1>0, <1>b, <1>1, <2>1, <2>2 DEF CallIsSound
  <2>7. CallIsSound(p)'
    BY <1>0, <1>b, <1>1, <2>1, <2>2, <2>4, PcFacts DEF CallIsSound, Using, Pcs, Check, Reading, Writing
  <2>8. CountsAreFresh(p)'
    BY <2>4 DEF CountsAreFresh
  <2> QED BY <1>c, <2>1, <2>3, <2>4, <2>5, <2>6, <2>7, <2>8, OneProcess
<1>2. ASSUME NEW s \in Slot, NEW t \in Slot, dup(p, s, t) PROVE Inv'
  <2>1. Step(p, "idle") /\ st[p].pc = "idle"
    BY <1>2 DEF dup, Step, Call
  <2>2. fd' = [fd EXCEPT ![p][t] = "none"] /\ data' = data
    BY <1>0, <1>2 DEF dup, maps
  <2>3. st' = [st EXCEPT ![p] = st'[p]] /\ st'[p] = [st[p] EXCEPT !.slot = s, !.to = t, !.pc = IF fd[p][t] # "none" THEN "d_close" ELSE "d_data"]
    BY <1>0, <1>2 DEF dup, Goto
  <2>4. st'[p] \in Record /\ st'[p].pc \in {"d_close", "d_data"} /\ st'[p].slot = s /\ st'[p].to = t
    <3>1. {"x_data", "d_close", "d_data", "d_fd"} \subseteq Pcs
      BY PcFacts
    <3>2. [st[p] EXCEPT !.slot = s, !.to = t, !.pc = IF fd[p][t] # "none" THEN "d_close" ELSE "d_data"] \in Record
      BY <1>a, <1>2, <3>1 DEF Record
    <3>3. st'[p].pc \in {"d_close", "d_data"} /\ st'[p].slot = s /\ st'[p].to = t
      BY <1>a, <2>3 DEF Record
    <3> QED BY <2>3, <3>2, <3>3
  <2>5. /\ fd'[p] \in [Slot -> End \cup {"none"}] /\ fd' = [fd EXCEPT ![p] = fd'[p]]
        /\ data'[p] \in [Slot -> BOOLEAN] /\ data' = [data EXCEPT ![p] = data'[p]]
    BY <1>0, <2>2
  <2>6. \A k \in Slot : fd'[p][k] # "none" =>
            data'[p][k] /\ \E j \in Slot : fd[p][j] = fd'[p][k]
    BY <1>0, <1>b, <1>2, <2>1, <2>2 DEF CallIsSound
  <2>7. CallIsSound(p)'
    <3>1. s # t /\ fd[p][s] # "none"
      BY <1>2 DEF dup
    <3>2. fd'[p][s] # "none" /\ fd'[p][t] = "none"
      BY <1>0, <2>2, <3>1
    <3> QED BY <2>4, <3>2 DEF CallIsSound
  <2>8. CountsAreFresh(p)'
    BY <2>4 DEF CountsAreFresh
  <2> QED BY <1>c, <2>1, <2>3, <2>4, <2>5, <2>6, <2>7, <2>8, OneProcess
<1>3. CASE pipe_close(p)
  <2>1. Step(p, "x_data") /\ st[p].pc = "x_data"
    BY <1>3 DEF pipe_close, Step
  <2>2. fd' = fd /\ data' = [data EXCEPT ![p][st[p].slot] = FALSE]
    BY <1>0, <1>3 DEF pipe_close, maps
  <2>3. st' = [st EXCEPT ![p] = st'[p]] /\ st'[p] = Idle(p)
    BY <1>0, <1>3 DEF pipe_close, Return
  <2>4. st'[p] \in Record /\ st'[p].pc = "idle"
    BY <2>3, IdleFacts
  <2>5. /\ fd'[p] \in [Slot -> End \cup {"none"}] /\ fd' = [fd EXCEPT ![p] = fd'[p]]
        /\ data'[p] \in [Slot -> BOOLEAN] /\ data' = [data EXCEPT ![p] = data'[p]]
    BY <1>0, <2>2
  <2>6. \A k \in Slot : fd'[p][k] # "none" =>
            data'[p][k] /\ \E j \in Slot : fd[p][j] = fd'[p][k]
    BY <1>0, <1>b, <1>3, <2>1, <2>2 DEF CallIsSound
  <2>7. CallIsSound(p)'
    BY <1>0, <1>b, <1>3, <2>1, <2>2, <2>4, PcFacts DEF CallIsSound, Using, Pcs, Check, Reading, Writing
  <2>8. CountsAreFresh(p)'
    BY <2>4 DEF CountsAreFresh
  <2> QED BY <1>c, <2>1, <2>3, <2>4, <2>5, <2>6, <2>7, <2>8, OneProcess
<1>4. CASE d_close(p)
  <2>1. Step(p, "d_close") /\ st[p].pc = "d_close"
    BY <1>4 DEF d_close, Step
  <2>2. fd' = fd /\ data' = [data EXCEPT ![p][st[p].to] = FALSE]
    BY <1>0, <1>4 DEF d_close, maps
  <2>3. st' = [st EXCEPT ![p] = st'[p]] /\ st'[p] = [st[p] EXCEPT !.pc = "d_data"]
    BY <1>0, <1>4 DEF d_close, Goto
  <2>4. st'[p] \in Record /\ st'[p].pc = "d_data" /\ st'[p].slot = st[p].slot /\ st'[p].to = st[p].to
    <3>1. {"x_data", "d_close", "d_data", "d_fd"} \subseteq Pcs
      BY PcFacts
    <3>2. [st[p] EXCEPT !.pc = "d_data"] \in Record
      BY <1>a, <1>4, <3>1 DEF Record
    <3>3. st'[p].pc = "d_data" /\ st'[p].slot = st[p].slot /\ st'[p].to = st[p].to
      BY <1>a, <2>3 DEF Record
    <3> QED BY <2>3, <3>2, <3>3
  <2>5. /\ fd'[p] \in [Slot -> End \cup {"none"}] /\ fd' = [fd EXCEPT ![p] = fd'[p]]
        /\ data'[p] \in [Slot -> BOOLEAN] /\ data' = [data EXCEPT ![p] = data'[p]]
    BY <1>0, <2>2
  <2>6. \A k \in Slot : fd'[p][k] # "none" =>
            data'[p][k] /\ \E j \in Slot : fd[p][j] = fd'[p][k]
    BY <1>0, <1>b, <1>4, <2>1, <2>2 DEF CallIsSound
  <2>7. CallIsSound(p)'
    BY <1>0, <1>b, <1>4, <2>1, <2>2, <2>4, PcFacts DEF CallIsSound, Using, Pcs, Check, Reading, Writing
  <2>8. CountsAreFresh(p)'
    BY <2>4 DEF CountsAreFresh
  <2> QED BY <1>c, <2>1, <2>3, <2>4, <2>5, <2>6, <2>7, <2>8, OneProcess
<1>5. CASE d_data(p)
  <2>1. Step(p, "d_data") /\ st[p].pc = "d_data"
    BY <1>5 DEF d_data, Step
  <2>2. fd' = fd /\ data' = [data EXCEPT ![p][st[p].to] = data[p][st[p].slot]]
    BY <1>0, <1>5 DEF d_data, maps
  <2>3. st' = [st EXCEPT ![p] = st'[p]] /\ st'[p] = [st[p] EXCEPT !.pc = "d_fd"]
    BY <1>0, <1>5 DEF d_data, Goto
  <2>4. st'[p] \in Record /\ st'[p].pc = "d_fd" /\ st'[p].slot = st[p].slot /\ st'[p].to = st[p].to
    <3>1. {"x_data", "d_close", "d_data", "d_fd"} \subseteq Pcs
      BY PcFacts
    <3>2. [st[p] EXCEPT !.pc = "d_fd"] \in Record
      BY <1>a, <1>5, <3>1 DEF Record
    <3>3. st'[p].pc = "d_fd" /\ st'[p].slot = st[p].slot /\ st'[p].to = st[p].to
      BY <1>a, <2>3 DEF Record
    <3> QED BY <2>3, <3>2, <3>3
  <2>5. /\ fd'[p] \in [Slot -> End \cup {"none"}] /\ fd' = [fd EXCEPT ![p] = fd'[p]]
        /\ data'[p] \in [Slot -> BOOLEAN] /\ data' = [data EXCEPT ![p] = data'[p]]
    BY <1>0, <2>2
  <2>6. \A k \in Slot : fd'[p][k] # "none" =>
            data'[p][k] /\ \E j \in Slot : fd[p][j] = fd'[p][k]
    BY <1>0, <1>b, <1>5, <2>1, <2>2 DEF CallIsSound
  <2>7. CallIsSound(p)'
    BY <1>0, <1>b, <1>5, <2>1, <2>2, <2>4, PcFacts DEF CallIsSound, Using, Pcs, Check, Reading, Writing
  <2>8. CountsAreFresh(p)'
    BY <2>4 DEF CountsAreFresh
  <2> QED BY <1>c, <2>1, <2>3, <2>4, <2>5, <2>6, <2>7, <2>8, OneProcess
<1>6. CASE d_fd(p)
  <2>1. Step(p, "d_fd") /\ st[p].pc = "d_fd"
    BY <1>6 DEF d_fd, Step
  <2>2. fd' = [fd EXCEPT ![p][st[p].to] = fd[p][st[p].slot]] /\ data' = data
    BY <1>0, <1>6 DEF d_fd, maps
  <2>3. st' = [st EXCEPT ![p] = st'[p]] /\ st'[p] = Idle(p)
    BY <1>0, <1>6 DEF d_fd, Return
  <2>4. st'[p] \in Record /\ st'[p].pc = "idle"
    BY <2>3, IdleFacts
  <2>5. /\ fd'[p] \in [Slot -> End \cup {"none"}] /\ fd' = [fd EXCEPT ![p] = fd'[p]]
        /\ data'[p] \in [Slot -> BOOLEAN] /\ data' = [data EXCEPT ![p] = data'[p]]
    BY <1>0, <2>2
  <2>6. \A k \in Slot : fd'[p][k] # "none" =>
            data'[p][k] /\ \E j \in Slot : fd[p][j] = fd'[p][k]
    BY <1>0, <1>b, <1>6, <2>1, <2>2, PcFacts DEF CallIsSound
  <2>7. CallIsSound(p)'
    BY <1>0, <1>b, <1>6, <2>1, <2>2, <2>4, PcFacts DEF CallIsSound, Using, Pcs, Check, Reading, Writing
  <2>8. CountsAreFresh(p)'
    BY <2>4 DEF CountsAreFresh
  <2> QED BY <1>c, <2>1, <2>3, <2>4, <2>5, <2>6, <2>7, <2>8, OneProcess
<1> QED BY <1>1, <1>2, <1>3, <1>4, <1>5, <1>6

-----------------------------------------------------------------------------
(* Processes that shared the pipe before its first use. *)
LEMMA InitInv == ASSUME Born = {Proc}, Init PROVE Inv
<1>1. alive = Proc
  BY DEF Init
<1>2. Types
  <2>1. \A p \in Proc : Idle(p) \in Record
    BY IdleFacts
  <2> QED BY <2>1, SlotFacts DEF Init, Types, End
<1>3. \A p \in Proc : st[p].pc = "idle"
  BY IdleFacts DEF Init
<1>4. AllBorn
  BY <1>1, <1>3 DEF AllBorn
<1>5. FdHasData
  <2> SUFFICES ASSUME NEW p \in Proc, NEW s \in Slot, fd[p][s] # "none" PROVE data[p][s]
    BY DEF FdHasData
  <2>1. fd[p][s] = IF s > 1 THEN "none" ELSE IF s = 0 THEN "r" ELSE "w"
    BY <1>1 DEF Init
  <2>2. s <= 1
    BY <2>1, SlotFacts
  <2>3. data[p][s] = (p \in alive /\ s <= 1)
    BY DEF Init
  <2> QED BY <1>1, <2>2, <2>3, Zenon
<1>6. \A p \in Proc : CallIsSound(p) /\ CountsAreFresh(p)
  BY <1>3 DEF CallIsSound, CountsAreFresh, Using
<1>7. ClosedIsClosed
  BY <1>3 DEF ClosedIsClosed
<1> QED BY <1>2, <1>4, <1>5, <1>6, <1>7 DEF Inv

(* Every step keeps the invariant. *)
LEMMA NextInv == Inv /\ [Next]_vars => Inv'
<1> SUFFICES ASSUME Inv, [Next]_vars PROVE Inv'
  OBVIOUS
<1>1. CASE UNCHANGED vars
  <2>1. UNCHANGED <<fd, data, p_rpos, p_wpos, alive, st, moved>>
    BY <1>1 DEF vars, pipe, maps
  <2>2. (Types /\ AllBorn /\ FdHasData)'
    BY <2>1 DEF Inv, Types, AllBorn, FdHasData
  <2>3. ASSUME NEW p \in Proc PROVE CallIsSound(p)' /\ CountsAreFresh(p)'
    <3>1. CallIsSound(p) /\ CountsAreFresh(p)
      BY DEF Inv
    <3> QED BY <2>1, <3>1 DEF CallIsSound, CountsAreFresh, FdSlots, DataSlots
  <2>4. ClosedIsClosed'
    BY <2>1 DEF Inv, ClosedIsClosed, FdSlots
  <2> QED BY <2>2, <2>3, <2>4 DEF Inv
<1>2. CASE Next
  <2> PICK p \in Proc : Continue(p) \/ Start(p)
    BY <1>2 DEF Next
  <2>1. ~f_fd(p) /\ ~f_data(p) /\ \A c \in Proc : ~fork(p, c)
    BY DEF f_fd, f_data, fork, Step, Inv, AllBorn
  <2>2. CASE Continue(p)
    BY <2>1, <2>2, TransferSteps, CompareSteps, MapSteps DEF Continue, Moves
  <2>3. CASE Start(p)
    BY <2>1, <2>3, TransferSteps, MapSteps DEF Start
  <2> QED BY <2>2, <2>3
<1> QED BY <1>1, <1>2

(* _pipe_is_closed (user/lib/pipe.c): if the processes that share a pipe   *)
(* do not fork while they use it, then whenever one of them finds the pipe *)
(* closed nobody has the other end open, whatever the others close and dup *)
(* in between, for any number of processes and descriptors.                *)
THEOREM ClosedCorrect == Born = {Proc} => (Spec => []ClosedIsClosed)
<1> SUFFICES ASSUME Born = {Proc} PROVE Spec => []ClosedIsClosed
  OBVIOUS
<1>1. Init => Inv
  BY InitInv
<1>2. Inv => ClosedIsClosed
  BY DEF Inv
<1> QED BY <1>1, <1>2, NextInv, PTL DEF Spec

-----------------------------------------------------------------------------
(***************************************************************************)
(* The buffer, with forks and with preemption between any two accesses.    *)
(***************************************************************************)
(* The arguments of a call in progress. *)
CallArgs(p) ==
    /\ st[p].op \in {"read", "write"} => st[p].i < st[p].n
    /\ st[p].pc \in Reading \cup {"r_test"} => st[p].op = "read"
    /\ st[p].pc \in Writing \cup {"w_test"} => st[p].op = "write"

TypeInv == TypeOK /\ \A p \in Proc : CallArgs(p)

(* Nobody overtakes a reader or a writer at work. *)
Solo ==
    ~crossed => \A p, q \in Proc :
        \A S \in {Reading, Writing} : st[p].pc \in S /\ st[q].pc \in S => p = q

(* An index is at the end of the buffer only between its increment and the *)
(* store that sets it back, and what a process has loaded is still true.   *)
ReadIndex ==
    ~crossed =>
        /\ p_rpos \in 0..BY2PIPE
        /\ p_rpos = BY2PIPE => \E p \in Proc : st[p].pc \in {"r_load", "r_wrap", "r_zero"}
        /\ \A p \in Proc : /\ st[p].pc = "r_inc" => st[p].pos = p_rpos
                           /\ st[p].pc = "r_load" => st[p].pos + 1 = p_rpos
                           /\ st[p].pc = "r_zero" => p_rpos = BY2PIPE

WriteIndex ==
    ~crossed =>
        /\ p_wpos \in 0..BY2PIPE
        /\ p_wpos = BY2PIPE => \E p \in Proc : st[p].pc \in {"w_store", "w_wrap", "w_zero"}
        /\ \A p \in Proc : /\ st[p].pc \in {"w_cmp", "w_inc"} => st[p].pos = p_wpos
                           /\ st[p].pc = "w_store" => st[p].pos + 1 = p_wpos
                           /\ st[p].pc = "w_zero" => p_wpos = BY2PIPE

(* The bytes whose index was advanced: Taken by the reader, Placed by the  *)
(* writer.                                                                 *)
Taken  == Len(got) + (IF \E p \in Proc : st[p].pc = "r_load" THEN 1 ELSE 0)
Placed == sent + (IF \E p \in Proc : st[p].pc = "w_store" THEN 1 ELSE 0)

Wrap(k) == IF k = BY2PIPE THEN 0 ELSE k

(* The cell k places after cell r. *)
Cell(r, k) == IF r + k < BY2PIPE THEN r + k ELSE r + k - BY2PIPE

(* With t bytes taken, pl placed and s sent: the bytes that were sent and  *)
(* not taken lie in order from cell r on, the next one is for cell w, and  *)
(* one cell is left free.                                                  *)
RingAt(t, pl, r, w, s, buf) ==
    /\ t <= s
    /\ pl - t < BY2PIPE
    /\ w = Cell(r, pl - t)
    /\ \A k \in 0..(s - t - 1) : buf[Cell(r, k)] = t + 1 + k

Ring == RingAt(Taken, Placed, Wrap(p_rpos), Wrap(p_wpos), sent, p_buf)

(* What a reader and a writer rely on since they looked at the indices. *)
Reader(p) ==
    /\ st[p].pc = "r_cmp" /\ st[p].pos # p_rpos => Taken < sent
    /\ st[p].pc \in {"r_take", "r_inc"} => Taken < sent
    /\ st[p].pc = "r_load" => p_buf[st[p].pos] = Taken

Writer(p) ==
    /\ st[p].pc \in {"w_edge", "w_low"} =>
           Placed - Taken < BY2PIPE - 1 \/ (p_wpos = BY2PIPE - 1 /\ p_rpos # BY2PIPE)
    /\ st[p].pc \in {"w_take", "w_inc"} => Placed - Taken < BY2PIPE - 1

InOrder ==
    ~crossed /\ ~early =>
        /\ \A k \in DOMAIN got : got[k] = k
        /\ Ring
        /\ \A p \in Proc : Reader(p) /\ Writer(p)

RingInv == TypeInv /\ Solo /\ ReadIndex /\ WriteIndex /\ InOrder

-----------------------------------------------------------------------------
(* The two sets of locals differ in the bounds of n and i. *)
LEMMA LocalsFacts ==
  /\ [Proc -> Locals] \subseteq [Proc -> Record]
  /\ \A x \in Locals : x \in Record
  /\ \A x \in Record : x.n \in 0..MaxN /\ x.i \in 0..MaxN => x \in Locals
<1>1. \A x \in Locals : x \in Record
  <2> SUFFICES ASSUME NEW x \in Locals PROVE x \in Record
    OBVIOUS
  <2>1. x.n \in Nat /\ x.i \in Nat
    BY BoundAssumption DEF Locals
  <2> QED BY <2>1 DEF Locals, Record
<1>2. [Proc -> Locals] \subseteq [Proc -> Record]
  BY <1>1
<1>3. \A x \in Record : x.n \in 0..MaxN /\ x.i \in 0..MaxN => x \in Locals
  BY DEF Locals, Record
<1> QED BY <1>1, <1>2, <1>3

(* How a step changes the types. *)
LEMMA KeepsTypes ==
  ASSUME TypeInv, NEW p \in Proc, NEW pc, Step(p, pc),
         fd' \in [Proc -> [Slot -> End \cup {"none"}]], data' \in [Proc -> [Slot -> BOOLEAN]],
         p_rpos' \in Nat, p_wpos' \in Nat,
         p_buf' \in [DOMAIN p_buf' -> Nat], 0..BY2PIPE - 1 \subseteq DOMAIN p_buf',
         alive' \subseteq Proc, sent' \in Nat, got' \in Seq(Nat), calls' \in 0..MaxCalls,
         st' = [st EXCEPT ![p] = st'[p]], st'[p] \in Locals, CallArgs(p)'
  PROVE  TypeInv' /\ \A q \in Proc \ {p} : st'[q] = st[q]
<1>1. st' \in [Proc -> Locals] /\ \A q \in Proc \ {p} : st'[q] = st[q]
  BY DEF TypeInv, TypeOK
<1>2. moved' \in [Proc -> BOOLEAN]
  <2>1. moved \in [Proc -> BOOLEAN]
    BY DEF TypeInv, TypeOK
  <2>2. moved' = [q \in Proc |-> IF q = p THEN moved[p] /\ pc # "c_runs"
                                ELSE st[q].pc \in Check]
    BY DEF Step
  <2>a. ASSUME NEW q \in Proc PROVE (moved[p] /\ pc # "c_runs") \in BOOLEAN /\ (st[q].pc \in Check) \in BOOLEAN
    OBVIOUS
  <2>3. \A q \in Proc : moved'[q] \in BOOLEAN
    BY <2>a, <2>2
  <2> QED BY <2>2, <2>3
<1>3. crossed' \in BOOLEAN /\ early' \in BOOLEAN
  BY Zenon DEF Step
<1>4. TypeOK'
  BY <1>1, <1>2, <1>3 DEF TypeOK
<1>5. ASSUME NEW q \in Proc PROVE CallArgs(q)'
  <2>1. CASE q # p
    BY <1>1, <2>1 DEF TypeInv, CallArgs
  <2> QED BY <2>1
<1> QED BY <1>1, <1>4, <1>5 DEF TypeInv

(* The histories are never forgotten, and only a look at the indices adds  *)
(* to them.                                                                *)
LEMMA Histories ==
  ASSUME NEW p \in Proc, NEW pc, Step(p, pc)
  PROVE  /\ ~crossed' => ~crossed
         /\ ~early' => ~early
         /\ ~crossed' /\ pc = "r_test" => \A q \in Proc \ {p} : st[q].pc \notin Reading
         /\ ~crossed' /\ pc = "w_test" => \A q \in Proc \ {p} : st[q].pc \notin Writing
         /\ ~early' /\ pc = "r_test" =>
                p_wpos # BY2PIPE /\ \A q \in Proc : st[q].pc # "w_store"
BY Zenon DEF Step

(* A step outside of the transfers that leaves the pipe alone. *)
LEMMA QuietStep ==
  ASSUME RingInv, NEW p \in Proc, NEW pc, Step(p, pc), pc \notin InRead \cup InWrite, UNCHANGED pipe,
         fd' \in [Proc -> [Slot -> End \cup {"none"}]], data' \in [Proc -> [Slot -> BOOLEAN]],
         alive' \subseteq Proc, calls' \in 0..MaxCalls,
         st' = [st EXCEPT ![p] = st'[p]], st'[p] \in Locals, st'[p].pc \notin Reading \cup Writing,
         CallArgs(p)'
  PROVE  RingInv'
<1>0. TypeInv /\ UNCHANGED <<p_rpos, p_wpos, p_buf, sent, got>>
  BY DEF RingInv, pipe
<1>1. TypeInv' /\ \A q \in Proc \ {p} : st'[q] = st[q]
  <2>1. /\ p_rpos' \in Nat /\ p_wpos' \in Nat /\ sent' \in Nat /\ got' \in Seq(Nat)
        /\ p_buf' \in [DOMAIN p_buf' -> Nat] /\ 0..BY2PIPE - 1 \subseteq DOMAIN p_buf'
    BY <1>0 DEF TypeInv, TypeOK
  <2> QED BY <1>0, <2>1, KeepsTypes
<1>2. (~crossed' => ~crossed) /\ (~early' => ~early)
  BY Histories
<1>3. st[p].pc \notin Reading \cup Writing
  BY DEF Step, InRead, InWrite
<1>4. \A q \in Proc : st'[q].pc \in Reading \cup Writing \/ st[q].pc \in Reading \cup Writing
                        => st'[q] = st[q]
  BY <1>1, <1>3
<1>5. \A q \in Proc, v \in Reading \cup Writing : st'[q].pc = v <=> st[q].pc = v
  BY <1>4
<1>6. Solo'
  BY <1>2, <1>4 DEF RingInv, Solo
<1>7. ReadIndex'
  <2>1. {"r_inc", "r_load", "r_wrap", "r_zero"} \subseteq Reading
    BY DEF Reading
  <2> QED BY <1>0, <1>2, <1>4, <1>5, <2>1 DEF RingInv, ReadIndex
<1>8. WriteIndex'
  <2>1. {"w_cmp", "w_inc", "w_store", "w_wrap", "w_zero"} \subseteq Writing
    BY DEF Writing
  <2> QED BY <1>0, <1>2, <1>4, <1>5, <2>1 DEF RingInv, WriteIndex
<1>9. InOrder'
  <2> SUFFICES ASSUME ~crossed', ~early' PROVE InOrder'
    BY DEF InOrder
  <2>1. Ring /\ (\A k \in DOMAIN got : got[k] = k) /\ \A q \in Proc : Reader(q) /\ Writer(q)
    BY <1>2 DEF RingInv, InOrder
  <2>2. Taken' = Taken
    <3>1. "r_load" \in Reading
      BY DEF Reading
    <3>2. (\E q \in Proc : st'[q].pc = "r_load") <=> (\E q \in Proc : st[q].pc = "r_load")
      BY <1>5, <3>1
    <3> QED BY <1>0, <3>2 DEF Taken
  <2>3. Placed' = Placed
    <3>1. "w_store" \in Writing
      BY DEF Writing
    <3>2. (\E q \in Proc : st'[q].pc = "w_store") <=> (\E q \in Proc : st[q].pc = "w_store")
      BY <1>5, <3>1
    <3> QED BY <1>0, <3>2 DEF Placed
  <2>4. Ring' /\ \A k \in DOMAIN got' : got'[k] = k
    BY <1>0, <2>1, <2>2, <2>3 DEF Ring, RingAt, Wrap, Cell
  <2>5. ASSUME NEW q \in Proc PROVE Reader(q)' /\ Writer(q)'
    <3>1. CASE st'[q].pc \in Reading \cup Writing
      BY <1>0, <1>4, <2>1, <2>2, <2>3, <3>1 DEF Reader, Writer
    <3>2. CASE st'[q].pc \notin Reading \cup Writing
      BY <3>2 DEF Reader, Writer, Reading, Writing
    <3> QED BY <3>1, <3>2
  <2> QED BY <2>4, <2>5 DEF InOrder
<1> QED BY <1>1, <1>6, <1>7, <1>8, <1>9 DEF RingInv

(* A process outside of a call, and the points of the code. *)
LEMMA IdleLocals ==
  ASSUME NEW p \in Proc
  PROVE  Idle(p) \in Locals /\ Idle(p).pc = "idle" /\ Idle(p).op = "none"
BY SlotFacts, PcFacts, BoundAssumption DEF Idle, Locals

LEMMA OtherPcs ==
  /\ {"f_fd", "f_data", "c_runs", "c_fd", "c_pipe", "c_cmp", "r_test", "w_test"} \subseteq Pcs
  /\ \A v \in {"idle", "r_test", "w_test", "c_runs", "c_fd", "c_pipe", "c_cmp", "closed", "x_data",
               "d_close", "d_data", "d_fd", "f_fd", "f_data"} : v \notin Reading \cup Writing
  /\ \A v \in {"idle", "c_runs", "c_fd", "c_pipe", "c_cmp", "closed", "x_data",
               "d_close", "d_data", "d_fd", "f_fd", "f_data"} : v \notin InRead \cup InWrite
BY DEF Pcs, Reading, Writing, InRead, InWrite, Check

(* A quiet step that keeps the arguments of the call, if any. *)
LEMMA QuietGoto ==
  ASSUME RingInv, NEW p \in Proc, NEW pc, Step(p, pc), pc \notin InRead \cup InWrite, UNCHANGED pipe,
         fd' \in [Proc -> [Slot -> End \cup {"none"}]], data' \in [Proc -> [Slot -> BOOLEAN]],
         alive' \subseteq Proc, calls' \in 0..MaxCalls,
         st' = [st EXCEPT ![p] = st'[p]], st'[p] \in Locals,
         \/ st'[p].op \notin {"read", "write"}
         \/ st'[p].op = st[p].op /\ st'[p].i = st[p].i /\ st'[p].n = st[p].n,
         st'[p].pc \notin Reading \cup Writing,
         st'[p].pc = "r_test" => st'[p].op = "read",
         st'[p].pc = "w_test" => st'[p].op = "write"
  PROVE  RingInv'
<1>1. CallArgs(p)
  BY DEF RingInv, TypeInv
<1>2. CallArgs(p)'
  BY <1>1 DEF CallArgs
<1> QED BY <1>2, QuietStep

(* What every step may rely on. *)
LEMMA RingTypes ==
  ASSUME RingInv, NEW p \in Proc
  PROVE  /\ st \in [Proc -> Locals] /\ st[p] \in Locals
         /\ fd \in [Proc -> [Slot -> End \cup {"none"}]] /\ data \in [Proc -> [Slot -> BOOLEAN]]
         /\ alive \subseteq Proc /\ calls \in 0..MaxCalls /\ MaxCalls \in Nat /\ MaxN \in Nat
         /\ CallArgs(p)
BY BoundAssumption DEF RingInv, TypeInv, TypeOK

(* Calls start with their arguments. *)
LEMMA StartQuiet ==
  ASSUME RingInv, NEW p \in Proc, Start(p)
  PROVE  RingInv'
<1>0. /\ st \in [Proc -> Locals] /\ st[p] \in Locals
      /\ fd \in [Proc -> [Slot -> End \cup {"none"}]] /\ data \in [Proc -> [Slot -> BOOLEAN]]
      /\ alive \subseteq Proc /\ calls \in 0..MaxCalls /\ MaxCalls \in Nat /\ MaxN \in Nat
      /\ CallArgs(p)
  BY RingTypes
<1>a. st[p] \in Locals
  BY <1>0
<1>b. ASSUME Call(p) PROVE Step(p, "idle") /\ calls' \in 0..MaxCalls
  BY <1>0, <1>b DEF Call
<1>c. "idle" \notin InRead \cup InWrite
  BY OtherPcs
<1>1. ASSUME NEW s \in Slot, NEW n \in 1..MaxN, read(p, s, n) PROVE RingInv'
  <2>1. /\ st' = [st EXCEPT ![p] = st'[p]]
        /\ st'[p] = [st[p] EXCEPT !.pc = "r_test", !.op = "read", !.slot = s, !.n = n, !.i = 0]
    BY <1>0, <1>1 DEF read
  <2>2. n \in 0..MaxN /\ 0 \in 0..MaxN /\ 0 < n /\ "r_test" \in Pcs
    BY <1>0, OtherPcs
  <2>3. st'[p] \in Locals
    <3>1. [st[p] EXCEPT !.pc = "r_test", !.op = "read", !.slot = s, !.n = n, !.i = 0] \in Locals
      BY <1>a, <2>2 DEF Locals
    <3> QED BY <2>1, <3>1
  <2>4. st'[p].pc = "r_test" /\ st'[p].op = "read" /\ st'[p].n = n /\ st'[p].i = 0
    BY <1>a, <2>1 DEF Locals
  <2>5. Call(p) /\ UNCHANGED <<pipe, fd, data, alive>>
    BY <1>1 DEF read, maps
  <2>7. CallArgs(p)'
    BY <2>2, <2>4 DEF CallArgs, Writing
  <2> QED BY <1>0, <1>b, <1>c, <2>1, <2>3, <2>4, <2>5, <2>7, OtherPcs, QuietStep
<1>2. ASSUME NEW s \in Slot, NEW n \in 1..MaxN, write(p, s, n) PROVE RingInv'
  <2>1. /\ st' = [st EXCEPT ![p] = st'[p]]
        /\ st'[p] = [st[p] EXCEPT !.pc = "w_test", !.op = "write", !.slot = s, !.n = n, !.i = 0]
    BY <1>0, <1>2 DEF write
  <2>2. n \in 0..MaxN /\ 0 \in 0..MaxN /\ 0 < n /\ "w_test" \in Pcs
    BY <1>0, OtherPcs
  <2>3. st'[p] \in Locals
    <3>1. [st[p] EXCEPT !.pc = "w_test", !.op = "write", !.slot = s, !.n = n, !.i = 0] \in Locals
      BY <1>a, <2>2 DEF Locals
    <3> QED BY <2>1, <3>1
  <2>4. st'[p].pc = "w_test" /\ st'[p].op = "write" /\ st'[p].n = n /\ st'[p].i = 0
    BY <1>a, <2>1 DEF Locals
  <2>5. Call(p) /\ UNCHANGED <<pipe, fd, data, alive>>
    BY <1>2 DEF write, maps
  <2>7. CallArgs(p)'
    BY <2>2, <2>4 DEF CallArgs, Reading
  <2> QED BY <1>0, <1>b, <1>c, <2>1, <2>3, <2>4, <2>5, <2>7, OtherPcs, QuietStep
<1>3. ASSUME NEW s \in Slot, pipe_is_closed(p, s) PROVE RingInv'
  <2>1. /\ st' = [st EXCEPT ![p] = st'[p]]
        /\ st'[p] = [st[p] EXCEPT !.pc = "c_runs", !.op = "ask", !.slot = s]
    BY <1>0, <1>3 DEF pipe_is_closed
  <2>2. st'[p] \in Locals /\ st'[p].pc = "c_runs" /\ st'[p].op = "ask"
    BY <1>a, <2>1, OtherPcs DEF Locals
  <2>3. Call(p) /\ UNCHANGED <<pipe, fd, data, alive>>
    BY <1>3 DEF pipe_is_closed, maps
  <2> QED BY <1>0, <1>b, <1>c, <2>1, <2>2, <2>3, OtherPcs, QuietGoto
<1>4. ASSUME NEW s \in Slot, close(p, s) PROVE RingInv'
  <2>1. /\ st' = [st EXCEPT ![p] = st'[p]]
        /\ st'[p] = [st[p] EXCEPT !.pc = "x_data", !.slot = s]
    BY <1>0, <1>4 DEF close
  <2>2. /\ st'[p] \in Locals /\ st'[p].pc = "x_data"
        /\ st'[p].op = st[p].op /\ st'[p].i = st[p].i /\ st'[p].n = st[p].n
    BY <1>a, <2>1, PcFacts DEF Locals
  <2>3. Call(p) /\ UNCHANGED <<pipe, data, alive>> /\ fd' \in [Proc -> [Slot -> End \cup {"none"}]]
    BY <1>0, <1>4 DEF close
  <2> QED BY <1>0, <1>b, <1>c, <2>1, <2>2, <2>3, OtherPcs, QuietGoto
<1>5. ASSUME NEW s \in Slot, NEW t \in Slot, dup(p, s, t) PROVE RingInv'
  <2>1. /\ st' = [st EXCEPT ![p] = st'[p]]
        /\ \E v \in {"d_close", "d_data"} :
               st'[p] = [st[p] EXCEPT !.slot = s, !.to = t, !.pc = v]
    BY <1>0, <1>5 DEF dup
  <2>2. /\ st'[p] \in Locals /\ st'[p].pc \in {"d_close", "d_data"}
        /\ st'[p].op = st[p].op /\ st'[p].i = st[p].i /\ st'[p].n = st[p].n
    <3>1. PICK v \in {"d_close", "d_data"} : st'[p] = [st[p] EXCEPT !.slot = s, !.to = t, !.pc = v]
      BY <2>1
    <3>2. v \in Pcs
      BY PcFacts
    <3>3. [st[p] EXCEPT !.slot = s, !.to = t, !.pc = v] \in Locals
      BY <1>a, <3>2 DEF Locals
    <3>4. st'[p].pc = v /\ st'[p].op = st[p].op /\ st'[p].i = st[p].i /\ st'[p].n = st[p].n
      BY <1>a, <3>1 DEF Locals
    <3> QED BY <3>1, <3>3, <3>4
  <2>3. Call(p) /\ UNCHANGED <<pipe, data, alive>> /\ fd' \in [Proc -> [Slot -> End \cup {"none"}]]
    BY <1>0, <1>5 DEF dup
  <2> QED BY <1>0, <1>b, <1>c, <2>1, <2>2, <2>3, OtherPcs, QuietGoto
<1>6. ASSUME NEW c \in Proc, fork(p, c) PROVE RingInv'
  <2>1. /\ st' = [st EXCEPT ![p] = st'[p]]
        /\ st'[p] = [st[p] EXCEPT !.pc = "f_fd", !.child = c, !.slot = 0]
    BY <1>0, <1>6 DEF fork
  <2>2. /\ st'[p] \in Locals /\ st'[p].pc = "f_fd"
        /\ st'[p].op = st[p].op /\ st'[p].i = st[p].i /\ st'[p].n = st[p].n
    BY <1>a, <2>1, OtherPcs, SlotFacts DEF Locals
  <2>3. Call(p) /\ UNCHANGED <<pipe, fd, data, alive>>
    BY <1>6 DEF fork, maps
  <2> QED BY <1>0, <1>b, <1>c, <2>1, <2>2, <2>3, OtherPcs, QuietGoto
<1> QED BY <1>1, <1>2, <1>3, <1>4, <1>5, <1>6 DEF Start

(* Asking whether the pipe is closed, and the system calls of close, dup   *)
(* and fork.                                                               *)
LEMMA CallQuiet ==
  ASSUME RingInv, NEW p \in Proc,
         \/ c_runs(p) \/ c_fd(p) \/ c_pipe(p) \/ c_cmp(p) \/ closed(p)
         \/ pipe_close(p) \/ d_close(p) \/ d_data(p) \/ d_fd(p) \/ f_fd(p) \/ f_data(p)
  PROVE  RingInv'
<1>0. /\ st \in [Proc -> Locals] /\ st[p] \in Locals
      /\ fd \in [Proc -> [Slot -> End \cup {"none"}]] /\ data \in [Proc -> [Slot -> BOOLEAN]]
      /\ alive \subseteq Proc /\ calls \in 0..MaxCalls /\ MaxCalls \in Nat /\ MaxN \in Nat
      /\ CallArgs(p)
  BY RingTypes
<1>a. st[p] \in Locals /\ st[p].slot \in Slot /\ st[p].to \in Slot /\ st[p].child \in Proc
  BY <1>0 DEF Locals
<1>i. Idle(p) \in Locals /\ Idle(p).pc = "idle" /\ Idle(p).op = "none"
  BY IdleLocals
<1>1. CASE c_runs(p)
  <2>1. st' = [st EXCEPT ![p] = st'[p]] /\ st'[p] = [st[p] EXCEPT !.pc = "c_fd"]
    BY <1>0, <1>1 DEF c_runs, Goto
  <2>2. /\ st'[p] \in Locals /\ st'[p].pc = "c_fd"
        /\ st'[p].op = st[p].op /\ st'[p].i = st[p].i /\ st'[p].n = st[p].n
    BY <1>a, <2>1, OtherPcs DEF Locals
  <2>3. Step(p, "c_runs") /\ UNCHANGED <<pipe, fd, data, alive, calls>>
    BY <1>1 DEF c_runs, maps
  <2> QED BY <1>0, <2>1, <2>2, <2>3, OtherPcs, QuietGoto
<1>2. CASE c_fd(p)
  <2>0. PICK k \in Nat : k = Cardinality(FdSlots(fd[p][st[p].slot]))
    BY Places
  <2>1. st' = [st EXCEPT ![p] = st'[p]] /\ st'[p] = [st[p] EXCEPT !.pc = "c_pipe", !.fd_ref = k]
    BY <1>0, <1>2, <2>0 DEF c_fd
  <2>2. /\ st'[p] \in Locals /\ st'[p].pc = "c_pipe"
        /\ st'[p].op = st[p].op /\ st'[p].i = st[p].i /\ st'[p].n = st[p].n
    BY <1>a, <2>1, OtherPcs DEF Locals
  <2>3. Step(p, "c_fd") /\ UNCHANGED <<pipe, fd, data, alive, calls>>
    BY <1>2 DEF c_fd, maps
  <2> QED BY <1>0, <2>1, <2>2, <2>3, OtherPcs, QuietGoto
<1>3. CASE c_pipe(p)
  <2>0. PICK k \in Nat : k = Cardinality(DataSlots)
    BY Places, FS_CardinalityType
  <2>1. st' = [st EXCEPT ![p] = st'[p]] /\ st'[p] = [st[p] EXCEPT !.pc = "c_cmp", !.pipe_ref = k]
    BY <1>0, <1>3, <2>0 DEF c_pipe
  <2>2. /\ st'[p] \in Locals /\ st'[p].pc = "c_cmp"
        /\ st'[p].op = st[p].op /\ st'[p].i = st[p].i /\ st'[p].n = st[p].n
    BY <1>a, <2>1, OtherPcs DEF Locals
  <2>3. Step(p, "c_pipe") /\ UNCHANGED <<pipe, fd, data, alive, calls>>
    BY <1>3 DEF c_pipe, maps
  <2> QED BY <1>0, <2>1, <2>2, <2>3, OtherPcs, QuietGoto
<1>4. CASE c_cmp(p)
  <2> DEFINE v == Verdict(p)
             back == [st[p] EXCEPT !.pc = v, !.fd_ref = 0, !.pipe_ref = 0]
  <2>1. st' = [st EXCEPT ![p] = st'[p]] /\ st'[p] = IF v = "idle" THEN Idle(p) ELSE back
    BY <1>0, <1>4 DEF c_cmp
  <2>2. /\ v \in {"c_runs", "closed", "r_test", "w_test", "idle"}
        /\ v = "r_test" => st[p].op = "read"
        /\ v = "w_test" => st[p].op = "write"
    BY DEF Verdict
  <2> HIDE DEF v
  <2>3. /\ back \in Locals /\ back.pc = v
        /\ back.op = st[p].op /\ back.i = st[p].i /\ back.n = st[p].n
    BY <1>a, <2>2, OtherPcs, PcFacts DEF Locals
  <2>4. Step(p, "c_cmp") /\ UNCHANGED <<pipe, fd, data, alive, calls>>
    BY <1>4 DEF c_cmp, maps
  <2> HIDE DEF back
  <2>5. CASE v = "idle"
    BY <1>0, <1>i, <2>1, <2>4, <2>5, OtherPcs, QuietGoto
  <2>6. CASE v # "idle"
    <3>1. v \notin Reading \cup Writing
      BY <2>2, OtherPcs
    <3>2. st'[p] = back
      BY <2>1, <2>6
    <3> QED BY <1>0, <2>1, <2>2, <2>3, <2>4, <3>1, <3>2, OtherPcs, QuietGoto
  <2> QED BY <2>5, <2>6
<1>5. CASE closed(p)
  <2>1. st' = [st EXCEPT ![p] = st'[p]] /\ st'[p] = Idle(p)
    BY <1>0, <1>5 DEF closed, Return
  <2>2. Step(p, "closed") /\ UNCHANGED <<pipe, fd, data, alive, calls>>
    BY <1>5 DEF closed, maps
  <2> QED BY <1>0, <1>i, <2>1, <2>2, OtherPcs, QuietGoto
<1>6. CASE pipe_close(p)
  <2>1. st' = [st EXCEPT ![p] = st'[p]] /\ st'[p] = Idle(p)
    BY <1>0, <1>6 DEF pipe_close, Return
  <2>2. Step(p, "x_data") /\ UNCHANGED <<pipe, fd, alive, calls>> /\ data' \in [Proc -> [Slot -> BOOLEAN]]
    BY <1>0, <1>a, <1>6 DEF pipe_close
  <2> QED BY <1>0, <1>i, <2>1, <2>2, OtherPcs, QuietGoto
<1>7. CASE d_close(p)
  <2>1. st' = [st EXCEPT ![p] = st'[p]] /\ st'[p] = [st[p] EXCEPT !.pc = "d_data"]
    BY <1>0, <1>7 DEF d_close, Goto
  <2>2. /\ st'[p] \in Locals /\ st'[p].pc = "d_data"
        /\ st'[p].op = st[p].op /\ st'[p].i = st[p].i /\ st'[p].n = st[p].n
    BY <1>a, <2>1, PcFacts DEF Locals
  <2>3. Step(p, "d_close") /\ UNCHANGED <<pipe, fd, alive, calls>> /\ data' \in [Proc -> [Slot -> BOOLEAN]]
    BY <1>0, <1>a, <1>7 DEF d_close
  <2> QED BY <1>0, <2>1, <2>2, <2>3, OtherPcs, QuietGoto
<1>8. CASE d_data(p)
  <2>1. st' = [st EXCEPT ![p] = st'[p]] /\ st'[p] = [st[p] EXCEPT !.pc = "d_fd"]
    BY <1>0, <1>8 DEF d_data, Goto
  <2>2. /\ st'[p] \in Locals /\ st'[p].pc = "d_fd"
        /\ st'[p].op = st[p].op /\ st'[p].i = st[p].i /\ st'[p].n = st[p].n
    BY <1>a, <2>1, PcFacts DEF Locals
  <2>3. Step(p, "d_data") /\ UNCHANGED <<pipe, fd, alive, calls>> /\ data' \in [Proc -> [Slot -> BOOLEAN]]
    BY <1>0, <1>a, <1>8 DEF d_data
  <2> QED BY <1>0, <2>1, <2>2, <2>3, OtherPcs, QuietGoto
<1>9. CASE d_fd(p)
  <2>1. st' = [st EXCEPT ![p] = st'[p]] /\ st'[p] = Idle(p)
    BY <1>0, <1>9 DEF d_fd, Return
  <2>2. Step(p, "d_fd") /\ UNCHANGED <<pipe, data, alive, calls>>
        /\ fd' \in [Proc -> [Slot -> End \cup {"none"}]]
    BY <1>0, <1>a, <1>9 DEF d_fd
  <2> QED BY <1>0, <1>i, <2>1, <2>2, OtherPcs, QuietGoto
<1>n. ASSUME NEW done \in {"idle", "f_data"}, NextSlot(p, done), st[p].pc \in {"f_fd", "f_data"}
      PROVE  /\ st' = [st EXCEPT ![p] = st'[p]] /\ st'[p] \in Locals
             /\ st'[p].pc \in {"idle", "f_fd", "f_data"}
             /\ \/ st'[p].op \notin {"read", "write"}
                \/ st'[p].op = st[p].op /\ st'[p].i = st[p].i /\ st'[p].n = st[p].n
  <2> DEFINE on == [st[p] EXCEPT !.slot = st[p].slot + 1]
             to == [st[p] EXCEPT !.slot = 0, !.pc = done]
  <2>1. st' = [st EXCEPT ![p] = st'[p]]
        /\ st'[p] = IF st[p].slot + 1 \in Slot THEN on ELSE IF done = "idle" THEN Idle(p) ELSE to
    <3> DEFINE new == IF st[p].slot + 1 \in Slot THEN on ELSE IF done = "idle" THEN Idle(p) ELSE to
    <3>1. st' = [st EXCEPT ![p] = new]
      BY <1>n DEF NextSlot
    <3> HIDE DEF new
    <3>2. st' = [st EXCEPT ![p] = st'[p]] /\ st'[p] = new
      BY <1>0, <3>1
    <3> QED BY <3>2 DEF new
  <2>2. st[p].slot + 1 \in Slot =>
          on \in Locals /\ on.pc = st[p].pc /\ on.op = st[p].op /\ on.i = st[p].i /\ on.n = st[p].n
    BY <1>a DEF Locals
  <2>3. to \in Locals /\ to.pc = done /\ to.op = st[p].op /\ to.i = st[p].i /\ to.n = st[p].n
    BY <1>a, OtherPcs, PcFacts, SlotFacts DEF Locals
  <2> HIDE DEF on, to
  <2> QED BY <1>i, <1>n, <2>1, <2>2, <2>3
<1>10. CASE f_fd(p)
  <2>1. Step(p, "f_fd") /\ st[p].pc = "f_fd" /\ NextSlot(p, "f_data") /\ UNCHANGED <<pipe, data, alive, calls>>
    BY <1>10 DEF f_fd, Step
  <2>2. fd' \in [Proc -> [Slot -> End \cup {"none"}]]
    <3>1. fd' = [fd EXCEPT ![st[p].child][st[p].slot] = fd[p][st[p].slot]]
      BY <1>10 DEF f_fd
    <3>2. fd[p][st[p].slot] \in End \cup {"none"}
      BY <1>0, <1>a
    <3> QED BY <1>0, <1>a, <3>1, <3>2
  <2> QED BY <1>0, <1>n, <2>1, <2>2, OtherPcs, QuietGoto
<1>11. CASE f_data(p)
  <2>1. Step(p, "f_data") /\ st[p].pc = "f_data" /\ NextSlot(p, "idle") /\ UNCHANGED <<pipe, fd, calls>>
    BY <1>11 DEF f_data, Step
  <2>2. data' \in [Proc -> [Slot -> BOOLEAN]]
    BY <1>0, <1>a, <1>11 DEF f_data
  <2>3. alive' \subseteq Proc
    BY <1>0, <1>a, <1>11 DEF f_data
  <2> QED BY <1>0, <1>n, <2>1, <2>2, <2>3, OtherPcs, QuietGoto
<1> QED BY <1>1, <1>2, <1>3, <1>4, <1>5, <1>6, <1>7, <1>8, <1>9, <1>10, <1>11

-----------------------------------------------------------------------------
(* Counting cells around the buffer. *)
LEMMA CellFacts ==
  ASSUME NEW r \in 0..BY2PIPE - 1
  PROVE  /\ Cell(r, 0) = r
         /\ Wrap(r + 1) \in 0..BY2PIPE - 1 /\ Wrap(r) = r
         /\ \A k \in 0..BY2PIPE - 1 : Cell(r, k) \in 0..BY2PIPE - 1
         /\ \A k \in 1..BY2PIPE - 1 : Cell(r, k) = Cell(Wrap(r + 1), k - 1)
         /\ \A k \in 0..BY2PIPE - 2 : Cell(r, k + 1) = Wrap(Cell(r, k) + 1)
         /\ \A j, k \in 0..BY2PIPE - 1 : Cell(r, j) = Cell(r, k) => j = k
         /\ Cell(Wrap(r + 1), BY2PIPE - 1) = r
BY BoundAssumption DEF Cell, Wrap

(* Two cells with the same successor are the same. *)
LEMMA WrapIsOneToOne ==
  ASSUME NEW x \in 0..BY2PIPE - 1, NEW y \in 0..BY2PIPE - 1, Wrap(x + 1) = Wrap(y + 1)
  PROVE  x = y
BY BoundAssumption DEF Wrap

(* p->p_rpos++ takes the oldest byte. *)
LEMMA RingTake ==
  ASSUME NEW t \in Nat, NEW pl \in Nat, NEW r \in 0..BY2PIPE - 1, NEW w, NEW s \in Nat, NEW buf,
         RingAt(t, pl, r, w, s, buf), t < s, s <= pl
  PROVE  /\ RingAt(t + 1, pl, Wrap(r + 1), w, s, buf)
         /\ buf[r] = t + 1
         /\ w # r
<1>0. BY2PIPE \in Nat /\ BY2PIPE > 1 /\ pl - t \in 1..BY2PIPE - 1 /\ pl - (t + 1) = pl - t - 1
  BY BoundAssumption DEF RingAt
<1>1. buf[r] = t + 1
  <2>1. 0 \in 0..(s - t - 1) /\ Cell(r, 0) = r
    BY CellFacts
  <2> QED BY <2>1 DEF RingAt
<1>2. w = Cell(Wrap(r + 1), pl - (t + 1))
  <2>1. Cell(r, pl - t) = Cell(Wrap(r + 1), pl - t - 1)
    BY <1>0, CellFacts
  <2> QED BY <1>0, <2>1 DEF RingAt
<1>3. ASSUME NEW k \in 0..(s - (t + 1) - 1) PROVE buf[Cell(Wrap(r + 1), k)] = (t + 1) + 1 + k
  <2>1. k + 1 \in 0..(s - t - 1) /\ k + 1 \in 1..BY2PIPE - 1 /\ k + 1 - 1 = k
    BY <1>0 DEF RingAt
  <2>2. Cell(r, k + 1) = Cell(Wrap(r + 1), k)
    BY <2>1, CellFacts
  <2>3. buf[Cell(r, k + 1)] = t + 1 + (k + 1)
    BY <2>1 DEF RingAt
  <2> QED BY <2>2, <2>3
<1>4. w # r
  <2>1. Cell(r, 0) = r /\ 0 \in 0..BY2PIPE - 1 /\ pl - t \in 0..BY2PIPE - 1 /\ pl - t # 0
    BY <1>0, CellFacts
  <2>2. Cell(r, pl - t) # Cell(r, 0)
    BY <2>1, CellFacts
  <2> QED BY <2>1, <2>2 DEF RingAt
<1> QED BY <1>0, <1>1, <1>2, <1>3, <1>4 DEF RingAt

(* p->p_wpos++ claims the next cell. *)
LEMMA RingPlace ==
  ASSUME NEW t \in Nat, NEW pl \in Nat, NEW r \in 0..BY2PIPE - 1, NEW w, NEW s \in Nat, NEW buf,
         RingAt(t, pl, r, w, s, buf), t <= pl, pl - t < BY2PIPE - 1
  PROVE  RingAt(t, pl + 1, r, Wrap(w + 1), s, buf)
<1>0. BY2PIPE \in Nat /\ pl - t \in 0..BY2PIPE - 2 /\ (pl + 1) - t = (pl - t) + 1
  BY BoundAssumption
<1>1. Cell(r, (pl - t) + 1) = Wrap(Cell(r, pl - t) + 1)
  BY <1>0, CellFacts
<1> QED BY <1>0, <1>1 DEF RingAt

(* p->p_buf[k] = v, in the buffer itself.                                  *)
StoredAt(new, buf, w, v) ==
    \A k \in 0..BY2PIPE - 1 : new[k] = IF k = w THEN v ELSE buf[k]

(* The store fills the claimed cell, and neither one that is still to be   *)
(* read nor the one before the reader's.                                   *)
LEMMA RingStore ==
  ASSUME NEW t \in Nat, NEW r \in 0..BY2PIPE - 1, NEW w \in 0..BY2PIPE - 1, NEW s \in Nat,
         NEW buf, NEW new,
         RingAt(t, s + 1, r, Wrap(w + 1), s, buf),
         StoredAt(new, buf, w, s + 1)
  PROVE  /\ RingAt(t, s + 1, r, Wrap(w + 1), s + 1, new)
         /\ \A x \in 0..BY2PIPE - 1 : r = Wrap(x + 1) => x # w
<1> DEFINE d == s - t
<1>0. BY2PIPE \in Nat /\ BY2PIPE > 1 /\ d \in 0..BY2PIPE - 2 /\ (s + 1) - t = d + 1 /\ t + 1 + d = s + 1
  BY BoundAssumption DEF RingAt
<1> HIDE DEF d
<1>1. w = Cell(r, d)
  <2>1. Wrap(w + 1) = Cell(r, d + 1)
    BY <1>0 DEF RingAt
  <2>2. Cell(r, d + 1) = Wrap(Cell(r, d) + 1)
    BY <1>0, CellFacts
  <2>3. d \in 0..BY2PIPE - 1
    BY <1>0
  <2>4. Cell(r, d) \in 0..BY2PIPE - 1
    BY <2>3, CellFacts
  <2> QED BY <2>1, <2>2, <2>4, WrapIsOneToOne
<1>2. ASSUME NEW k \in 0..d PROVE new[Cell(r, k)] = t + 1 + k
  <2>0. k \in 0..BY2PIPE - 1 /\ d \in 0..BY2PIPE - 1
    BY <1>0
  <2>1. Cell(r, k) \in 0..BY2PIPE - 1 /\ (Cell(r, k) = w => k = d)
    BY <1>1, <2>0, CellFacts
  <2>2. CASE k = d
    BY <1>0, <1>1, <2>1, <2>2 DEF StoredAt
  <2>3. CASE k # d
    <3>1. k \in 0..(s - t - 1)
      BY <1>0, <2>3 DEF d
    <3>2. buf[Cell(r, k)] = t + 1 + k
      BY <3>1 DEF RingAt
    <3> QED BY <2>1, <2>3, <3>2 DEF StoredAt
  <2> QED BY <2>2, <2>3
<1>3. RingAt(t, s + 1, r, Wrap(w + 1), s + 1, new)
  <2>1. (s + 1) - t - 1 = d
    BY <1>0
  <2> QED BY <1>0, <1>2, <2>1 DEF RingAt
<1>4. ASSUME NEW x \in 0..BY2PIPE - 1, r = Wrap(x + 1) PROVE x # w
  <2>1. Cell(r, BY2PIPE - 1) = x
    BY <1>4, CellFacts
  <2>2. d \in 0..BY2PIPE - 1 /\ BY2PIPE - 1 \in 0..BY2PIPE - 1 /\ d # BY2PIPE - 1
    BY <1>0
  <2>3. Cell(r, d) # Cell(r, BY2PIPE - 1)
    BY <2>2, CellFacts
  <2> QED BY <1>1, <2>1, <2>3
<1> QED BY <1>3, <1>4

(* while ((p->p_wpos + 1 == p->p_rpos) || ...): the two halves of the test *)
(* for a full buffer.                                                      *)
LEMMA NotFull ==
  ASSUME NEW t \in Nat, NEW pl \in Nat, NEW s, NEW buf, t <= pl,
         NEW rpos \in 0..BY2PIPE, NEW wpos \in 0..BY2PIPE - 1,
         RingAt(t, pl, Wrap(rpos), wpos, s, buf)
  PROVE  /\ wpos + 1 # rpos =>
                pl - t < BY2PIPE - 1 \/ (wpos = BY2PIPE - 1 /\ rpos # BY2PIPE)
         /\ wpos = BY2PIPE - 1 /\ rpos # BY2PIPE /\ rpos # 0 => pl - t < BY2PIPE - 1
<1> DEFINE d == pl - t
<1>1. d \in Nat /\ d < BY2PIPE /\ wpos = Cell(Wrap(rpos), d)
  BY DEF RingAt
<1> HIDE DEF d
<1>2. /\ wpos + 1 # rpos => d < BY2PIPE - 1 \/ (wpos = BY2PIPE - 1 /\ rpos # BY2PIPE)
      /\ wpos = BY2PIPE - 1 /\ rpos # BY2PIPE /\ rpos # 0 => d < BY2PIPE - 1
  BY <1>1, BoundAssumption DEF Cell, Wrap
<1> QED BY <1>2 DEF d

-----------------------------------------------------------------------------
(* The types and the arguments of a call while it moves a byte. *)
LEMMA MoveTypes ==
  ASSUME TypeInv, NEW p \in Proc, Moves(p)
  PROVE  /\ TypeInv' /\ \A q \in Proc \ {p} : st'[q] = st[q]
         /\ \E pc \in InRead \cup InWrite : MoveShape(p, pc)
<1>0. /\ st \in [Proc -> Locals] /\ st \in [Proc -> Record] /\ st[p] \in Locals
      /\ p_rpos \in Nat /\ p_wpos \in Nat /\ sent \in Nat /\ got \in Seq(Nat)
      /\ p_buf \in [DOMAIN p_buf -> Nat] /\ 0..BY2PIPE - 1 \subseteq DOMAIN p_buf /\ CallArgs(p)
  BY LocalsFacts DEF TypeInv, TypeOK
<1>1. PICK pc \in InRead \cup InWrite : MoveShape(p, pc)
  BY <1>0, MoveFacts
<1>2. st'[p] \in Locals /\ CallArgs(p)'
  <2>1. CASE st'[p] = Idle(p)
    BY <2>1, IdleLocals DEF CallArgs, Reading, Writing
  <2>2. CASE st'[p] # Idle(p)
    <3>1. /\ st'[p] \in Record
          /\ st'[p].op = st[p].op /\ st'[p].n = st[p].n
          /\ st'[p].i = st[p].i \/ (st'[p].i = st[p].i + 1 /\ st[p].i + 1 # st[p].n)
          /\ \/ pc \in InRead /\ st'[p].pc \in InRead \cup {"c_runs"}
             \/ pc \in InWrite /\ st'[p].pc \in InWrite \cup {"c_runs"}
      BY <1>1, <2>2 DEF MoveShape
    <3>2. st[p].pc = pc
      BY <1>1 DEF MoveShape, Step
    <3>3. /\ pc \in InRead => st[p].op = "read"
          /\ pc \in InWrite => st[p].op = "write"
          /\ st[p].op \in {"read", "write"} => st[p].i < st[p].n
      BY <1>0, <3>2 DEF CallArgs, InRead, InWrite
    <3>4. st[p].n \in 0..MaxN /\ st[p].i \in 0..MaxN /\ MaxN \in Nat
      BY <1>0, BoundAssumption DEF Locals
    <3>5. st'[p].n \in 0..MaxN /\ st'[p].i \in 0..MaxN /\ st'[p].i < st'[p].n
      BY <3>1, <3>3, <3>4
    <3>6. st'[p] \in Locals
      BY <3>1, <3>5, LocalsFacts
    <3>7. InRead \cap (InWrite \cup {"c_runs"}) = {} /\ InWrite \cap (InRead \cup {"c_runs"}) = {}
      BY DEF InRead, InWrite, Reading, Writing
    <3>8. CallArgs(p)'
      BY <3>1, <3>3, <3>5, <3>7 DEF CallArgs, InRead, InWrite
    <3> QED BY <3>6, <3>8
  <2> QED BY <2>1, <2>2
<1>3. got' \in Seq(Nat)
  <2>1. CASE r_load(p)
    <3>1. Byte(st[p].pos) \in Nat
      BY <1>0 DEF Byte
    <3> QED BY <1>0, <2>1, <3>1 DEF r_load
  <2>2. CASE ~r_load(p)
    <3>1. got' = got
      BY <2>2 DEF Moves, r_test, r_cmp, r_take, r_inc, r_wrap, r_zero, w_test, w_cmp, w_edge,
                  w_low, w_take, w_inc, w_store, w_wrap, w_zero, pipe
    <3> QED BY <1>0, <3>1
  <2> QED BY <2>1, <2>2
<1>4. sent' \in Nat /\ p_buf' \in [DOMAIN p_buf' -> Nat] /\ 0..BY2PIPE - 1 \subseteq DOMAIN p_buf'
  <2>1. CASE w_store(p)
    BY <1>0, <2>1 DEF w_store
  <2>2. CASE ~w_store(p)
    <3>1. sent' = sent /\ p_buf' = p_buf
      BY <2>2 DEF Moves, r_test, r_cmp, r_take, r_inc, r_load, r_wrap, r_zero, w_test, w_cmp,
                  w_edge, w_low, w_take, w_inc, w_wrap, w_zero, pipe
    <3> QED BY <1>0, <3>1
  <2> QED BY <2>1, <2>2
<1>5. /\ fd' \in [Proc -> [Slot -> End \cup {"none"}]] /\ data' \in [Proc -> [Slot -> BOOLEAN]]
      /\ alive' \subseteq Proc /\ calls' \in 0..MaxCalls
      /\ Step(p, pc) /\ p_rpos' \in Nat /\ p_wpos' \in Nat /\ st' = [st EXCEPT ![p] = st'[p]]
  BY <1>1 DEF MoveShape, TypeInv, TypeOK
<1> QED BY <1>1, <1>2, <1>3, <1>4, <1>5, KeepsTypes

(* What a step in pipe_read leaves to others, and what it has to show. *)
LEMMA ReaderStep ==
  ASSUME RingInv, NEW p \in Proc, Moves(p), NEW pc \in InRead, Step(p, pc),
         st'[p].pc \notin Writing, UNCHANGED <<p_wpos, p_buf, sent>>,
         st'[p].pc \in Reading => pc \in InRead
  PROVE  /\ TypeInv /\ TypeInv' /\ WriteIndex' /\ Solo'
         /\ Placed' = Placed
         /\ ~crossed' =>
              /\ ~crossed
              /\ \A q \in Proc \ {p} : st'[q] = st[q] /\ st[q].pc \notin Reading
              /\ Taken = Len(got) + (IF pc = "r_load" THEN 1 ELSE 0)
              /\ Taken' = Len(got') + (IF st'[p].pc = "r_load" THEN 1 ELSE 0)
              /\ \A q \in Proc \ {p} : Reader(q)'
              /\ Writer(p)'
<1>1. TypeInv /\ TypeInv' /\ \A q \in Proc \ {p} : st'[q] = st[q]
  BY MoveTypes DEF RingInv
<1>2. (~crossed' => ~crossed) /\ st[p].pc = pc
  BY Histories DEF Step
<1>3. pc \notin Writing /\ pc # "w_store"
  BY DEF InRead, Reading, Writing
<1>4. ASSUME ~crossed', NEW q \in Proc \ {p} PROVE st[q].pc \notin Reading
  <2>1. CASE pc = "r_test"
    BY <1>4, <2>1, Histories
  <2>2. CASE pc # "r_test"
    <3>1. pc \in Reading
      BY <2>2 DEF InRead
    <3> QED BY <1>2, <1>4, <3>1 DEF RingInv, Solo
  <2> QED BY <2>1, <2>2
<1>5. Solo'
  <2> SUFFICES ASSUME ~crossed', NEW q \in Proc, NEW o \in Proc, NEW S \in {Reading, Writing},
                      st'[q].pc \in S, st'[o].pc \in S, q # o
               PROVE  FALSE
    BY DEF Solo
  <2>1. CASE S = Reading
    BY <1>1, <1>4, <2>1
  <2>2. CASE S = Writing
    <3>1. q # p /\ o # p
      BY <2>2
    <3> QED BY <1>1, <1>2, <3>1 DEF RingInv, Solo
  <2> QED BY <2>1, <2>2
<1>6. \A q \in Proc, v \in Writing : st'[q].pc = v <=> st[q].pc = v
  BY <1>1, <1>2, <1>3
<1>7. WriteIndex'
  <2>1. {"w_cmp", "w_inc", "w_store", "w_wrap", "w_zero"} \subseteq Writing
    BY DEF Writing
  <2>2. \A q \in Proc : st'[q].pc \in Writing => st'[q] = st[q]
    BY <1>1
  <2> QED BY <1>2, <1>6, <2>1, <2>2 DEF RingInv, WriteIndex
<1>8. Placed' = Placed
  <2>1. "w_store" \in Writing
    BY DEF Writing
  <2>2. (\E q \in Proc : st'[q].pc = "w_store") <=> (\E q \in Proc : st[q].pc = "w_store")
    BY <1>6, <2>1
  <2> QED BY <2>2 DEF Placed
<1>9. ASSUME ~crossed'
      PROVE  /\ Taken = Len(got) + (IF pc = "r_load" THEN 1 ELSE 0)
             /\ Taken' = Len(got') + (IF st'[p].pc = "r_load" THEN 1 ELSE 0)
             /\ \A q \in Proc \ {p} : Reader(q)'
             /\ Writer(p)'
  <2>1. \A q \in Proc \ {p} : st[q].pc # "r_load" /\ st'[q].pc # "r_load"
    BY <1>1, <1>4, <1>9 DEF Reading
  <2>2. /\ (\E q \in Proc : st[q].pc = "r_load") <=> pc = "r_load"
        /\ (\E q \in Proc : st'[q].pc = "r_load") <=> st'[p].pc = "r_load"
    BY <1>2, <2>1
  <2>3. \A q \in Proc \ {p} : st'[q].pc \notin Reading
    BY <1>1, <1>4, <1>9
  <2>4. \A q \in Proc \ {p} : Reader(q)'
    BY <2>3 DEF Reader, Reading
  <2>5. Writer(p)'
    BY DEF Writer, Writing
  <2> QED BY <2>2, <2>4, <2>5 DEF Taken
<1> QED BY <1>1, <1>2, <1>4, <1>5, <1>7, <1>8, <1>9

(* The same for a step in pipe_write. *)
LEMMA WriterStep ==
  ASSUME RingInv, NEW p \in Proc, Moves(p), NEW pc \in InWrite, Step(p, pc),
         st'[p].pc \notin Reading, UNCHANGED <<p_rpos, got>>,
         st'[p].pc \in Writing => pc \in InWrite
  PROVE  /\ TypeInv /\ TypeInv' /\ ReadIndex' /\ Solo'
         /\ Taken' = Taken
         /\ ~crossed' =>
              /\ ~crossed
              /\ \A q \in Proc \ {p} : st'[q] = st[q] /\ st[q].pc \notin Writing
              /\ Placed = sent + (IF pc = "w_store" THEN 1 ELSE 0)
              /\ Placed' = sent' + (IF st'[p].pc = "w_store" THEN 1 ELSE 0)
              /\ \A q \in Proc \ {p} : Writer(q)'
              /\ Reader(p)'
<1>1. TypeInv /\ TypeInv' /\ \A q \in Proc \ {p} : st'[q] = st[q]
  BY MoveTypes DEF RingInv
<1>2. (~crossed' => ~crossed) /\ st[p].pc = pc
  BY Histories DEF Step
<1>3. pc \notin Reading /\ pc # "r_load"
  BY DEF InWrite, Reading, Writing
<1>4. ASSUME ~crossed', NEW q \in Proc \ {p} PROVE st[q].pc \notin Writing
  <2>1. CASE pc = "w_test"
    BY <1>4, <2>1, Histories
  <2>2. CASE pc # "w_test"
    <3>1. pc \in Writing
      BY <2>2 DEF InWrite
    <3> QED BY <1>2, <1>4, <3>1 DEF RingInv, Solo
  <2> QED BY <2>1, <2>2
<1>5. Solo'
  <2> SUFFICES ASSUME ~crossed', NEW q \in Proc, NEW o \in Proc, NEW S \in {Reading, Writing},
                      st'[q].pc \in S, st'[o].pc \in S, q # o
               PROVE  FALSE
    BY DEF Solo
  <2>1. CASE S = Writing
    BY <1>1, <1>4, <2>1
  <2>2. CASE S = Reading
    <3>1. q # p /\ o # p
      BY <2>2
    <3> QED BY <1>1, <1>2, <3>1 DEF RingInv, Solo
  <2> QED BY <2>1, <2>2
<1>6. \A q \in Proc, v \in Reading : st'[q].pc = v <=> st[q].pc = v
  BY <1>1, <1>2, <1>3
<1>7. ReadIndex'
  <2>1. {"r_inc", "r_load", "r_wrap", "r_zero"} \subseteq Reading
    BY DEF Reading
  <2>2. \A q \in Proc : st'[q].pc \in Reading => st'[q] = st[q]
    BY <1>1
  <2> QED BY <1>2, <1>6, <2>1, <2>2 DEF RingInv, ReadIndex
<1>8. Taken' = Taken
  <2>1. "r_load" \in Reading
    BY DEF Reading
  <2>2. (\E q \in Proc : st'[q].pc = "r_load") <=> (\E q \in Proc : st[q].pc = "r_load")
    BY <1>6, <2>1
  <2> QED BY <2>2 DEF Taken
<1>9. ASSUME ~crossed'
      PROVE  /\ Placed = sent + (IF pc = "w_store" THEN 1 ELSE 0)
             /\ Placed' = sent' + (IF st'[p].pc = "w_store" THEN 1 ELSE 0)
             /\ \A q \in Proc \ {p} : Writer(q)'
             /\ Reader(p)'
  <2>1. \A q \in Proc \ {p} : st[q].pc # "w_store" /\ st'[q].pc # "w_store"
    BY <1>1, <1>4, <1>9 DEF Writing
  <2>2. /\ (\E q \in Proc : st[q].pc = "w_store") <=> pc = "w_store"
        /\ (\E q \in Proc : st'[q].pc = "w_store") <=> st'[p].pc = "w_store"
    BY <1>2, <2>1
  <2>3. \A q \in Proc \ {p} : st'[q].pc \notin Writing
    BY <1>1, <1>4, <1>9
  <2>4. \A q \in Proc \ {p} : Writer(q)'
    BY <2>3 DEF Writer, Writing
  <2>5. Reader(p)'
    BY DEF Reader, Reading
  <2> QED BY <2>2, <2>4, <2>5 DEF Placed
<1> QED BY <1>1, <1>2, <1>4, <1>5, <1>7, <1>8, <1>9

(* What a transfer may rely on. *)
LEMMA MoveBase ==
  ASSUME RingInv, NEW p \in Proc
  PROVE  /\ st \in [Proc -> Record] /\ st[p].pos \in Nat /\ st[p].i \in Nat
         /\ p_rpos \in Nat /\ p_wpos \in Nat /\ sent \in Nat /\ got \in Seq(Nat) /\ Len(got) \in Nat
         /\ Taken \in Nat /\ Placed \in Nat /\ sent <= Placed
         /\ BY2PIPE \in Nat /\ BY2PIPE > 1
<1>1. /\ st \in [Proc -> Record] /\ p_rpos \in Nat /\ p_wpos \in Nat
      /\ sent \in Nat /\ got \in Seq(Nat) /\ Len(got) \in Nat
  BY LocalsFacts DEF RingInv, TypeInv, TypeOK
<1>2. st[p].pos \in Nat /\ st[p].i \in Nat
  BY <1>1 DEF Record
<1>3. Taken \in Nat /\ Placed \in Nat /\ sent <= Placed
  BY <1>1 DEF Taken, Placed
<1> QED BY <1>1, <1>2, <1>3, BoundAssumption

(* A step of a reader that moves no index. *)
LEMMA ReaderLooks ==
  ASSUME RingInv, NEW p \in Proc, Moves(p), NEW pc \in InRead, Step(p, pc),
         UNCHANGED <<p_rpos, p_wpos, p_buf, sent>>, pc # "r_load", got' = got,
         st'[p].pc \notin Writing \cup {"r_load"},
         ~crossed' /\ p_rpos = BY2PIPE => st'[p].pc \in {"r_wrap", "r_zero"},
         ~crossed' => /\ st'[p].pc = "r_inc" => st'[p].pos = p_rpos
                      /\ st'[p].pc = "r_zero" => p_rpos = BY2PIPE,
         ~crossed' /\ ~early' =>
              /\ st'[p].pc = "r_cmp" /\ st'[p].pos # p_rpos => Taken < sent
              /\ st'[p].pc \in {"r_take", "r_inc"} => Taken < sent
  PROVE  RingInv'
<1>1. /\ TypeInv' /\ WriteIndex' /\ Solo' /\ Placed' = Placed
      /\ ~crossed' =>
              /\ ~crossed
              /\ \A q \in Proc \ {p} : st'[q] = st[q] /\ st[q].pc \notin Reading
              /\ Taken = Len(got) + (IF pc = "r_load" THEN 1 ELSE 0)
              /\ Taken' = Len(got') + (IF st'[p].pc = "r_load" THEN 1 ELSE 0)
              /\ \A q \in Proc \ {p} : Reader(q)'
              /\ Writer(p)'
  BY ReaderStep
<1>2. ReadIndex'
  <2> SUFFICES ASSUME ~crossed' PROVE ReadIndex'
    BY DEF ReadIndex
  <2>1. \A q \in Proc \ {p} : st'[q].pc \notin Reading
    BY <1>1
  <2>2. p_rpos \in 0..BY2PIPE
    BY <1>1 DEF RingInv, ReadIndex
  <2> QED BY <2>1, <2>2 DEF ReadIndex, Reading
<1>3. InOrder'
  <2> SUFFICES ASSUME ~crossed', ~early' PROVE InOrder'
    BY DEF InOrder
  <2>0. ~early /\ ~crossed
    BY <1>1, Histories
  <2>1. Ring /\ (\A k \in DOMAIN got : got[k] = k) /\ \A q \in Proc : Writer(q)
    BY <2>0 DEF RingInv, InOrder
  <2>2. Taken' = Taken
    BY <1>1
  <2>3. Ring' /\ \A k \in DOMAIN got' : got'[k] = k
    BY <1>1, <2>1, <2>2 DEF Ring, RingAt, Wrap, Cell
  <2>4. \A q \in Proc \ {p} : Writer(q)'
    BY <1>1, <2>1, <2>2 DEF Writer
  <2>5. Reader(p)'
    BY <2>2 DEF Reader
  <2> QED BY <1>1, <2>3, <2>4, <2>5 DEF InOrder
<1> QED BY <1>1, <1>2, <1>3 DEF RingInv

(* A reader that has seen no other, at an index in the buffer. *)
LEMMA ReaderInside ==
  ASSUME RingInv, NEW p \in Proc, NEW pc \in InRead, Step(p, pc), ~crossed',
         pc \notin {"r_load", "r_wrap", "r_zero"},
         \A q \in Proc \ {p} : st[q].pc \notin Reading
  PROVE  p_rpos \in 0..BY2PIPE - 1 /\ Wrap(p_rpos) = p_rpos
<1>1. ~crossed /\ st[p].pc = pc
  BY Histories DEF Step
<1>2. \A q \in Proc : st[q].pc \notin {"r_load", "r_wrap", "r_zero"}
  BY <1>1 DEF Reading
<1>3. p_rpos \in 0..BY2PIPE /\ p_rpos # BY2PIPE
  BY <1>1, <1>2 DEF RingInv, ReadIndex
<1> QED BY <1>3, BoundAssumption DEF Wrap

(* pipe_read *)
LEMMA ReadSteps ==
  ASSUME RingInv, NEW p \in Proc,
         r_test(p) \/ r_cmp(p) \/ r_take(p) \/ r_inc(p) \/ r_load(p) \/ r_wrap(p) \/ r_zero(p)
  PROVE  RingInv'
<1>0. /\ st \in [Proc -> Record] /\ st[p].pos \in Nat /\ st[p].i \in Nat
      /\ p_rpos \in Nat /\ p_wpos \in Nat /\ sent \in Nat /\ got \in Seq(Nat) /\ Len(got) \in Nat
      /\ Taken \in Nat /\ Placed \in Nat /\ sent <= Placed
      /\ BY2PIPE \in Nat /\ BY2PIPE > 1
  BY MoveBase
<1>m. Moves(p)
  BY DEF Moves
<1>p. \A v \in InRead : v \in Pcs /\ v \notin Writing
  BY PcFacts DEF InRead, Reading, Writing
<1>s. {"r_test", "r_cmp", "r_take", "r_inc", "r_load", "r_wrap", "r_zero"} \subseteq InRead
  BY DEF InRead, Reading
<1>c. "c_runs" \in Pcs /\ "c_runs" \notin Writing /\ "idle" \notin Writing
  BY PcFacts DEF Writing
<1>w. ASSUME NEW pc \in InRead, Step(p, pc), st'[p].pc \notin Writing, UNCHANGED <<p_wpos, p_buf, sent>>
      PROVE  /\ TypeInv' /\ WriteIndex' /\ Solo' /\ Placed' = Placed
             /\ ~crossed' =>
                  /\ ~crossed
                  /\ \A q \in Proc \ {p} : st'[q] = st[q] /\ st[q].pc \notin Reading
                  /\ Taken = Len(got) + (IF pc = "r_load" THEN 1 ELSE 0)
                  /\ Taken' = Len(got') + (IF st'[p].pc = "r_load" THEN 1 ELSE 0)
                  /\ \A q \in Proc \ {p} : Reader(q)'
                  /\ Writer(p)'
  BY <1>m, <1>w, ReaderStep
<1>1. CASE r_test(p)
  <2>1. /\ Step(p, "r_test") /\ st[p].pc = "r_test" /\ Load(p, "r_cmp", p_wpos)
        /\ UNCHANGED <<p_rpos, p_wpos, p_buf, sent, got>>
    BY <1>1 DEF r_test, Step, pipe
  <2>2. st'[p].pc = "r_cmp" /\ st'[p].pos = p_wpos
    BY <1>0, <1>p, <1>s, <2>1, LoadFacts
  <2>3. ASSUME ~crossed' PROVE p_rpos \in 0..BY2PIPE - 1 /\ Wrap(p_rpos) = p_rpos /\ ~crossed
    <3>1. ~crossed /\ \A q \in Proc \ {p} : st[q].pc \notin Reading
      BY <1>s, <1>p, <1>w, <2>1, <2>2, <2>3
    <3> QED BY <1>s, <2>1, <2>3, <3>1, ReaderInside
  <2>4. ASSUME ~crossed', ~early', p_wpos # p_rpos PROVE Taken < sent
    <3>1. ~crossed /\ ~early /\ p_wpos # BY2PIPE /\ \A q \in Proc : st[q].pc # "w_store"
      BY <2>1, <2>4, Histories
    <3>2. Ring
      BY <3>1 DEF RingInv, InOrder
    <3>3. Placed = sent /\ Wrap(p_wpos) = p_wpos
      BY <1>0, <3>1 DEF Placed, Wrap
    <3>4. Taken <= sent /\ p_wpos = Cell(p_rpos, sent - Taken)
      BY <2>3, <2>4, <3>2, <3>3 DEF Ring, RingAt
    <3>5. Cell(p_rpos, 0) = p_rpos
      BY <2>3, <2>4, CellFacts
    <3>6. sent - Taken # 0
      BY <2>4, <3>4, <3>5
    <3> QED BY <1>0, <3>4, <3>6
  <2>5. ~crossed' => p_rpos # BY2PIPE
    BY <1>0, <2>3
  <2> QED BY <1>m, <1>s, <1>p, <2>1, <2>2, <2>4, <2>5, ReaderLooks
<1>2. CASE r_cmp(p)
  <2> DEFINE v == IF st[p].pos = p_rpos THEN "c_runs" ELSE "r_take"
  <2>1. /\ Step(p, "r_cmp") /\ st[p].pc = "r_cmp" /\ Load(p, v, 0)
        /\ UNCHANGED <<p_rpos, p_wpos, p_buf, sent, got>>
    BY <1>2 DEF r_cmp, Step, pipe
  <2>v. v \in Pcs /\ v \notin Writing
    BY <1>p, <1>s, <1>c
  <2>2. st'[p].pc = v
    <3> HIDE DEF v
    <3> QED BY <1>0, <2>v, <2>1, LoadFacts
  <2>3. ~crossed' => p_rpos # BY2PIPE
    <3>1. ASSUME ~crossed' PROVE \A q \in Proc \ {p} : st[q].pc \notin Reading
      BY <1>s, <2>v, <1>w, <2>1, <2>2, <3>1
    <3> QED BY <1>0, <1>s, <2>1, <3>1, ReaderInside
  <2>4. ASSUME ~crossed', ~early', v = "r_take" PROVE Taken < sent
    <3>1. ~crossed /\ ~early
      BY <2>1, <2>4, Histories
    <3>2. Reader(p)
      BY <3>1 DEF RingInv, InOrder
    <3> QED BY <2>1, <2>4, <3>2 DEF Reader
  <2>5. v \in {"c_runs", "r_take"}
    OBVIOUS
  <2> HIDE DEF v
  <2> QED BY <1>m, <1>s, <2>v, <2>1, <2>2, <2>3, <2>4, <2>5, ReaderLooks
<1>3. CASE r_take(p)
  <2>1. /\ Step(p, "r_take") /\ st[p].pc = "r_take" /\ Load(p, "r_inc", p_rpos)
        /\ UNCHANGED <<p_rpos, p_wpos, p_buf, sent, got>>
    BY <1>3 DEF r_take, Step, pipe
  <2>2. st'[p].pc = "r_inc" /\ st'[p].pos = p_rpos
    BY <1>0, <1>p, <1>s, <2>1, LoadFacts
  <2>3. ~crossed' => p_rpos # BY2PIPE
    <3>1. ASSUME ~crossed' PROVE \A q \in Proc \ {p} : st[q].pc \notin Reading
      BY <1>s, <1>p, <1>w, <2>1, <2>2, <3>1
    <3> QED BY <1>0, <1>s, <2>1, <3>1, ReaderInside
  <2>4. ASSUME ~crossed', ~early' PROVE Taken < sent
    <3>1. ~crossed /\ ~early
      BY <2>1, <2>4, Histories
    <3>2. Reader(p)
      BY <3>1 DEF RingInv, InOrder
    <3> QED BY <2>1, <3>2 DEF Reader
  <2> QED BY <1>m, <1>s, <1>p, <2>1, <2>2, <2>3, <2>4, ReaderLooks
<1>4. CASE r_inc(p)
  <2>1. /\ Step(p, "r_inc") /\ st[p].pc = "r_inc" /\ Goto(p, "r_load") /\ p_rpos' = st[p].pos + 1
        /\ UNCHANGED <<p_wpos, p_buf, sent, got>>
    BY <1>4 DEF r_inc, Step
  <2>2. st'[p].pc = "r_load" /\ st'[p].pos = st[p].pos
    BY <1>0, <1>p, <1>s, <2>1, GotoFacts
  <2>3. /\ TypeInv' /\ WriteIndex' /\ Solo' /\ Placed' = Placed
        /\ ~crossed' =>
             /\ ~crossed
             /\ \A q \in Proc \ {p} : st'[q] = st[q] /\ st[q].pc \notin Reading
             /\ Taken = Len(got) /\ Taken' = Len(got) + 1
             /\ \A q \in Proc \ {p} : Reader(q)'
             /\ Writer(p)'
    BY <1>0, <1>p, <1>s, <1>w, <2>1, <2>2
  <2>4. ASSUME ~crossed'
        PROVE  st[p].pos = p_rpos /\ p_rpos \in 0..BY2PIPE - 1 /\ Wrap(p_rpos) = p_rpos
    <3>1. p_rpos \in 0..BY2PIPE - 1 /\ Wrap(p_rpos) = p_rpos
      BY <1>s, <2>1, <2>3, <2>4, ReaderInside
    <3> QED BY <2>1, <2>3, <2>4, <3>1 DEF RingInv, ReadIndex
  <2>5. ReadIndex'
    <3> SUFFICES ASSUME ~crossed' PROVE ReadIndex'
      BY DEF ReadIndex
    <3>1. \A q \in Proc \ {p} : st'[q].pc \notin Reading
      BY <2>3
    <3>2. p_rpos' \in 0..BY2PIPE
      BY <1>0, <2>1, <2>4
    <3> QED BY <2>1, <2>2, <3>1, <3>2 DEF ReadIndex, Reading
  <2>6. InOrder'
    <3> SUFFICES ASSUME ~crossed', ~early' PROVE InOrder'
      BY DEF InOrder
    <3>0. ~early /\ ~crossed
      BY <2>1, <2>3, Histories
    <3>1. Ring /\ (\A k \in DOMAIN got : got[k] = k) /\ (\A q \in Proc : Writer(q)) /\ Reader(p)
      BY <3>0 DEF RingInv, InOrder
    <3>2. Taken < sent
      BY <2>1, <3>1 DEF Reader
    <3>3. RingAt(Taken, Placed, p_rpos, Wrap(p_wpos), sent, p_buf)
      BY <2>4, <3>1 DEF Ring
    <3> DEFINE w == Wrap(p_wpos)
    <3>4. /\ RingAt(Taken + 1, Placed, Wrap(p_rpos + 1), w, sent, p_buf)
          /\ p_buf[p_rpos] = Taken + 1 /\ w # p_rpos
      <4> HIDE DEF w
      <4>1. RingAt(Taken, Placed, p_rpos, w, sent, p_buf)
        BY <3>3 DEF w
      <4> QED BY <1>0, <2>4, <3>2, <4>1, RingTake
    <3>5. Taken' = Taken + 1 /\ p_rpos' = p_rpos + 1
      BY <2>1, <2>3, <2>4
    <3>6. Ring'
      BY <2>1, <2>3, <3>4, <3>5 DEF Ring, RingAt, Wrap, Cell
    <3>7. Reader(p)'
      BY <2>1, <2>2, <2>4, <3>4, <3>5 DEF Reader
    <3>8. ASSUME NEW q \in Proc \ {p} PROVE Writer(q)'
      <4>1. Writer(q) /\ st'[q] = st[q]
        BY <2>3, <3>1
      <4>2. Placed' - Taken' < Placed - Taken
        BY <1>0, <2>3, <3>5
      <4>3. p_wpos = BY2PIPE - 1 => p_rpos' # BY2PIPE
        BY <1>0, <2>4, <3>4, <3>5 DEF Wrap
      <4>4. Placed' \in Int /\ Taken' \in Int
        BY <1>0, <2>3, <3>5
      <4> QED BY <1>0, <2>1, <4>1, <4>2, <4>3, <4>4 DEF Writer
    <3> QED BY <2>1, <2>3, <3>1, <3>6, <3>7, <3>8 DEF InOrder
  <2> QED BY <2>3, <2>5, <2>6 DEF RingInv
<1>5. CASE r_load(p)
  <2>1. /\ Step(p, "r_load") /\ st[p].pc = "r_load" /\ Load(p, "r_wrap", 0)
        /\ got' = Append(got, Byte(st[p].pos))
        /\ UNCHANGED <<p_rpos, p_wpos, p_buf, sent>>
    BY <1>5 DEF r_load, Step
  <2>2. st'[p].pc = "r_wrap"
    BY <1>0, <1>p, <1>s, <2>1, LoadFacts
  <2>b. Byte(st[p].pos) \in Nat /\ Len(got') = Len(got) + 1
    <3>1. Byte(st[p].pos) \in Nat
      BY DEF Byte, RingInv, TypeInv, TypeOK
    <3> QED BY <1>0, <2>1, <3>1
  <2>3. /\ TypeInv' /\ WriteIndex' /\ Solo' /\ Placed' = Placed
        /\ ~crossed' =>
             /\ ~crossed
             /\ \A q \in Proc \ {p} : st'[q] = st[q] /\ st[q].pc \notin Reading
             /\ Taken = Len(got) + 1 /\ Taken' = Len(got')
             /\ \A q \in Proc \ {p} : Reader(q)'
             /\ Writer(p)'
    BY <1>0, <1>p, <1>s, <1>w, <2>1, <2>2, <2>b
  <2>4. ReadIndex'
    <3> SUFFICES ASSUME ~crossed' PROVE ReadIndex'
      BY DEF ReadIndex
    <3>1. \A q \in Proc \ {p} : st'[q].pc \notin Reading
      BY <2>3
    <3>2. p_rpos \in 0..BY2PIPE
      BY <2>3 DEF RingInv, ReadIndex
    <3> QED BY <2>1, <2>2, <3>1, <3>2 DEF ReadIndex, Reading
  <2>5. InOrder'
    <3> SUFFICES ASSUME ~crossed', ~early' PROVE InOrder'
      BY DEF InOrder
    <3>0. ~early /\ ~crossed
      BY <2>1, <2>3, Histories
    <3>1. Ring /\ (\A k \in DOMAIN got : got[k] = k) /\ (\A q \in Proc : Writer(q)) /\ Reader(p)
      BY <3>0 DEF RingInv, InOrder
    <3>2. Taken' = Taken /\ Taken = Len(got) + 1
      BY <2>3, <2>b
    <3>3. st[p].pos \in 0..BY2PIPE - 1
      <4>1. p_rpos \in 0..BY2PIPE /\ st[p].pos + 1 = p_rpos
        BY <2>1, <3>0 DEF RingInv, ReadIndex
      <4> QED BY <1>0, <4>1
    <3>4. Byte(st[p].pos) = Len(got) + 1
      <4>1. st[p].pos \in DOMAIN p_buf
        BY <3>3 DEF RingInv, TypeInv, TypeOK
      <4> QED BY <2>1, <3>1, <3>2, <4>1 DEF Byte, Reader
    <3>5. \A k \in DOMAIN got' : got'[k] = k
      BY <1>0, <2>1, <2>b, <3>1, <3>4
    <3>6. Ring'
      BY <2>1, <2>3, <3>1, <3>2 DEF Ring, RingAt, Wrap, Cell
    <3>7. Reader(p)'
      BY <2>2 DEF Reader
    <3>8. \A q \in Proc \ {p} : Writer(q)'
      BY <2>1, <2>3, <3>1, <3>2 DEF Writer
    <3> QED BY <2>3, <3>5, <3>6, <3>7, <3>8 DEF InOrder
  <2> QED BY <2>3, <2>4, <2>5 DEF RingInv
<1>6. CASE r_wrap(p)
  <2>1. /\ Step(p, "r_wrap") /\ st[p].pc = "r_wrap"
        /\ IF AtEnd(p_rpos) THEN Goto(p, "r_zero") ELSE NextByte(p, "r_test")
        /\ UNCHANGED <<p_rpos, p_wpos, p_buf, sent, got>>
    BY <1>6 DEF r_wrap, Step, pipe
  <2>2. CASE p_rpos = BY2PIPE
    <3>1. st'[p].pc = "r_zero"
      BY <1>0, <1>p, <1>s, <2>1, <2>2, GotoFacts DEF AtEnd
    <3> QED BY <1>m, <1>s, <1>p, <2>1, <2>2, <3>1, ReaderLooks
  <2>3. CASE p_rpos # BY2PIPE
    <3>1. st'[p].pc \in {"idle", "r_test"}
      BY <1>0, <1>p, <1>s, <2>1, <2>3, NextByteFacts, IdleFacts DEF AtEnd
    <3> QED BY <1>m, <1>s, <1>p, <1>c, <2>1, <2>3, <3>1, ReaderLooks
  <2> QED BY <2>2, <2>3
<1>7. CASE r_zero(p)
  <2>1. /\ Step(p, "r_zero") /\ st[p].pc = "r_zero" /\ NextByte(p, "r_test") /\ p_rpos' = 0
        /\ UNCHANGED <<p_wpos, p_buf, sent, got>>
    BY <1>7 DEF r_zero, Step
  <2>2. st'[p].pc \in {"idle", "r_test"}
    BY <1>0, <1>p, <1>s, <2>1, NextByteFacts, IdleFacts
  <2>3. /\ TypeInv' /\ WriteIndex' /\ Solo' /\ Placed' = Placed
        /\ ~crossed' =>
             /\ ~crossed
             /\ \A q \in Proc \ {p} : st'[q] = st[q] /\ st[q].pc \notin Reading
             /\ Taken = Len(got) /\ Taken' = Len(got)
             /\ \A q \in Proc \ {p} : Reader(q)'
             /\ Writer(p)'
    BY <1>0, <1>p, <1>s, <1>c, <1>w, <2>1, <2>2
  <2>4. ReadIndex'
    <3> SUFFICES ASSUME ~crossed' PROVE ReadIndex'
      BY DEF ReadIndex
    <3>1. \A q \in Proc \ {p} : st'[q].pc \notin Reading
      BY <2>3
    <3> QED BY <1>0, <2>1, <2>2, <3>1 DEF ReadIndex, Reading
  <2>5. InOrder'
    <3> SUFFICES ASSUME ~crossed', ~early' PROVE InOrder'
      BY DEF InOrder
    <3>0. ~early /\ ~crossed
      BY <2>1, <2>3, Histories
    <3>1. Ring /\ (\A k \in DOMAIN got : got[k] = k) /\ (\A q \in Proc : Writer(q))
      BY <3>0 DEF RingInv, InOrder
    <3>2. p_rpos = BY2PIPE
      BY <2>1, <3>0 DEF RingInv, ReadIndex
    <3>3. Wrap(p_rpos) = 0 /\ Wrap(p_rpos') = 0 /\ p_rpos' # BY2PIPE
      BY <1>0, <2>1, <3>2 DEF Wrap
    <3>4. Ring'
      <4>1. RingAt(Taken, Placed, 0, Wrap(p_wpos), sent, p_buf)
        BY <3>1, <3>3 DEF Ring
      <4>2. RingAt(Taken', Placed', Wrap(p_rpos'), Wrap(p_wpos'), sent', p_buf')
        BY <2>1, <2>3, <3>3, <4>1
      <4> QED BY <4>2 DEF Ring, RingAt, Wrap, Cell
    <3>5. Reader(p)'
      BY <2>2 DEF Reader
    <3>6. \A q \in Proc \ {p} : Writer(q)'
      BY <2>1, <2>3, <3>1, <3>3 DEF Writer
    <3> QED BY <2>1, <2>3, <3>1, <3>4, <3>5, <3>6 DEF InOrder
  <2> QED BY <2>3, <2>4, <2>5 DEF RingInv
<1> QED BY <1>1, <1>2, <1>3, <1>4, <1>5, <1>6, <1>7

(* A step of a writer that moves no index. *)
LEMMA WriterLooks ==
  ASSUME RingInv, NEW p \in Proc, Moves(p), NEW pc \in InWrite, Step(p, pc),
         UNCHANGED <<p_rpos, p_wpos, p_buf, sent>>, pc # "w_store", got' = got,
         st'[p].pc \notin Reading \cup {"w_store"},
         ~crossed' /\ p_wpos = BY2PIPE => st'[p].pc \in {"w_wrap", "w_zero"},
         ~crossed' => /\ st'[p].pc \in {"w_cmp", "w_inc"} => st'[p].pos = p_wpos
                      /\ st'[p].pc = "w_zero" => p_wpos = BY2PIPE,
         ~crossed' /\ ~early' =>
              /\ st'[p].pc \in {"w_edge", "w_low"} =>
                     Placed - Taken < BY2PIPE - 1 \/ (p_wpos = BY2PIPE - 1 /\ p_rpos # BY2PIPE)
              /\ st'[p].pc \in {"w_take", "w_inc"} => Placed - Taken < BY2PIPE - 1
  PROVE  RingInv'
<1>1. /\ TypeInv' /\ ReadIndex' /\ Solo' /\ Taken' = Taken
      /\ ~crossed' =>
              /\ ~crossed
              /\ \A q \in Proc \ {p} : st'[q] = st[q] /\ st[q].pc \notin Writing
              /\ Placed = sent + (IF pc = "w_store" THEN 1 ELSE 0)
              /\ Placed' = sent' + (IF st'[p].pc = "w_store" THEN 1 ELSE 0)
              /\ \A q \in Proc \ {p} : Writer(q)'
              /\ Reader(p)'
  BY WriterStep
<1>2. WriteIndex'
  <2> SUFFICES ASSUME ~crossed' PROVE WriteIndex'
    BY DEF WriteIndex
  <2>1. \A q \in Proc \ {p} : st'[q].pc \notin Writing
    BY <1>1
  <2>2. p_wpos \in 0..BY2PIPE
    BY <1>1 DEF RingInv, WriteIndex
  <2> QED BY <2>1, <2>2 DEF WriteIndex, Writing
<1>3. InOrder'
  <2> SUFFICES ASSUME ~crossed', ~early' PROVE InOrder'
    BY DEF InOrder
  <2>0. ~early /\ ~crossed
    BY <1>1, Histories
  <2>1. Ring /\ (\A k \in DOMAIN got : got[k] = k) /\ \A q \in Proc : Reader(q)
    BY <2>0 DEF RingInv, InOrder
  <2>2. Placed' = Placed
    BY <1>1
  <2>3. Ring' /\ \A k \in DOMAIN got' : got'[k] = k
    BY <1>1, <2>1, <2>2 DEF Ring, RingAt, Wrap, Cell
  <2>4. \A q \in Proc \ {p} : Reader(q)'
    BY <1>1, <2>1, <2>2 DEF Reader
  <2>5. Writer(p)'
    BY <1>1, <2>2 DEF Writer
  <2> QED BY <1>1, <2>3, <2>4, <2>5 DEF InOrder
<1> QED BY <1>1, <1>2, <1>3 DEF RingInv

(* A writer that has seen no other, at an index in the buffer. *)
LEMMA WriterInside ==
  ASSUME RingInv, NEW p \in Proc, NEW pc \in InWrite, Step(p, pc), ~crossed',
         pc \notin {"w_store", "w_wrap", "w_zero"},
         \A q \in Proc \ {p} : st[q].pc \notin Writing
  PROVE  p_wpos \in 0..BY2PIPE - 1 /\ Wrap(p_wpos) = p_wpos
<1>1. ~crossed /\ st[p].pc = pc
  BY Histories DEF Step
<1>2. \A q \in Proc : st[q].pc \notin {"w_store", "w_wrap", "w_zero"}
  BY <1>1 DEF Writing
<1>3. p_wpos \in 0..BY2PIPE /\ p_wpos # BY2PIPE
  BY <1>1, <1>2 DEF RingInv, WriteIndex
<1> QED BY <1>3, BoundAssumption DEF Wrap

(* pipe_write *)
LEMMA WriteSteps ==
  ASSUME RingInv, NEW p \in Proc,
         \/ w_test(p) \/ w_cmp(p) \/ w_edge(p) \/ w_low(p)
         \/ w_take(p) \/ w_inc(p) \/ w_store(p) \/ w_wrap(p) \/ w_zero(p)
  PROVE  RingInv'
<1>0. /\ st \in [Proc -> Record] /\ st[p].pos \in Nat /\ st[p].i \in Nat
      /\ p_rpos \in Nat /\ p_wpos \in Nat /\ sent \in Nat /\ got \in Seq(Nat) /\ Len(got) \in Nat
      /\ Taken \in Nat /\ Placed \in Nat /\ sent <= Placed
      /\ BY2PIPE \in Nat /\ BY2PIPE > 1
  BY MoveBase
<1>m. Moves(p)
  BY DEF Moves
<1>p. \A v \in InWrite : v \in Pcs /\ v \notin Reading
  BY PcFacts DEF InWrite, Reading, Writing
<1>s. {"w_test", "w_cmp", "w_edge", "w_low", "w_take", "w_inc", "w_store", "w_wrap", "w_zero"}
        \subseteq InWrite
  BY DEF InWrite, Writing
<1>c. "c_runs" \in Pcs /\ "c_runs" \notin Reading /\ "idle" \notin Reading
  BY PcFacts DEF Reading
<1>w. ASSUME NEW pc \in InWrite, Step(p, pc), st'[p].pc \notin Reading, UNCHANGED <<p_rpos, got>>
      PROVE  /\ TypeInv' /\ ReadIndex' /\ Solo' /\ Taken' = Taken
             /\ ~crossed' =>
                  /\ ~crossed
                  /\ \A q \in Proc \ {p} : st'[q] = st[q] /\ st[q].pc \notin Writing
                  /\ Placed = sent + (IF pc = "w_store" THEN 1 ELSE 0)
                  /\ Placed' = sent' + (IF st'[p].pc = "w_store" THEN 1 ELSE 0)
                  /\ \A q \in Proc \ {p} : Writer(q)'
                  /\ Reader(p)'
  BY <1>m, <1>w, WriterStep
<1>i. ASSUME NEW pc \in InWrite, Step(p, pc), st'[p].pc \notin Reading, UNCHANGED <<p_rpos, got>>,
             pc \notin {"w_store", "w_wrap", "w_zero"}, ~crossed'
      PROVE  p_wpos \in 0..BY2PIPE - 1 /\ Wrap(p_wpos) = p_wpos /\ p_wpos # BY2PIPE /\ ~crossed
  <2>1. ~crossed /\ \A q \in Proc \ {p} : st[q].pc \notin Writing
    BY <1>i, <1>w
  <2>2. p_wpos \in 0..BY2PIPE - 1 /\ Wrap(p_wpos) = p_wpos
    BY <1>i, <2>1, WriterInside
  <2> QED BY <1>0, <2>1, <2>2
<1>h. ASSUME NEW pc, Step(p, pc), ~crossed', ~early'
      PROVE  Ring /\ Writer(p) /\ Taken <= Placed /\ p_rpos \in 0..BY2PIPE
  <2>1. ~crossed /\ ~early
    BY <1>h, Histories
  <2>2. Ring /\ Writer(p) /\ p_rpos \in 0..BY2PIPE
    BY <2>1 DEF RingInv, InOrder, ReadIndex
  <2> QED BY <1>0, <2>2 DEF Ring, RingAt
<1>1. CASE w_test(p)
  <2>1. /\ Step(p, "w_test") /\ st[p].pc = "w_test" /\ Load(p, "w_cmp", p_wpos)
        /\ UNCHANGED <<p_rpos, p_wpos, p_buf, sent, got>>
    BY <1>1 DEF w_test, Step, pipe
  <2>2. st'[p].pc = "w_cmp" /\ st'[p].pos = p_wpos
    BY <1>0, <1>p, <1>s, <2>1, LoadFacts
  <2>3. ~crossed' => p_wpos # BY2PIPE
    BY <1>i, <1>p, <1>s, <2>1, <2>2
  <2> QED BY <1>m, <1>s, <1>p, <2>1, <2>2, <2>3, WriterLooks
<1>2. CASE w_cmp(p)
  <2> DEFINE v == IF st[p].pos + 1 = p_rpos THEN "c_runs" ELSE "w_edge"
  <2>1. /\ Step(p, "w_cmp") /\ st[p].pc = "w_cmp" /\ Load(p, v, 0)
        /\ UNCHANGED <<p_rpos, p_wpos, p_buf, sent, got>>
    BY <1>2 DEF w_cmp, Step, pipe
  <2>v. v \in Pcs /\ v \notin Reading /\ v \in {"c_runs", "w_edge"}
    BY <1>p, <1>s, <1>c
  <2>2. st'[p].pc = v
    <3> HIDE DEF v
    <3> QED BY <1>0, <2>v, <2>1, LoadFacts
  <2>3. ~crossed' => p_wpos # BY2PIPE
    BY <1>i, <1>s, <2>v, <2>1, <2>2
  <2>4. ASSUME ~crossed', ~early', v = "w_edge"
        PROVE  Placed - Taken < BY2PIPE - 1 \/ (p_wpos = BY2PIPE - 1 /\ p_rpos # BY2PIPE)
    <3>1. p_wpos \in 0..BY2PIPE - 1 /\ Wrap(p_wpos) = p_wpos /\ ~crossed
      BY <1>i, <1>s, <2>v, <2>1, <2>2, <2>4
    <3>2. Ring /\ Taken <= Placed /\ p_rpos \in 0..BY2PIPE
      BY <1>h, <2>1, <2>4
    <3>3. st[p].pos = p_wpos /\ p_wpos + 1 # p_rpos
      BY <2>1, <2>4, <3>1 DEF RingInv, WriteIndex
    <3>4. RingAt(Taken, Placed, Wrap(p_rpos), p_wpos, sent, p_buf)
      BY <3>1, <3>2 DEF Ring
    <3> QED BY <1>0, <3>1, <3>2, <3>3, <3>4, NotFull
  <2> HIDE DEF v
  <2> QED BY <1>m, <1>s, <2>v, <2>1, <2>2, <2>3, <2>4, WriterLooks
<1>3. CASE w_edge(p)
  <2> DEFINE v == IF p_wpos = BY2PIPE - 1 THEN "w_low" ELSE "w_take"
  <2>1. /\ Step(p, "w_edge") /\ st[p].pc = "w_edge" /\ Goto(p, v)
        /\ UNCHANGED <<p_rpos, p_wpos, p_buf, sent, got>>
    BY <1>3 DEF w_edge, Step, pipe
  <2>v. v \in Pcs /\ v \notin Reading /\ v \in {"w_low", "w_take"}
    BY <1>p, <1>s
  <2>2. st'[p].pc = v
    <3> HIDE DEF v
    <3> QED BY <1>0, <2>v, <2>1, GotoFacts
  <2>3. ~crossed' => p_wpos # BY2PIPE
    BY <1>i, <1>s, <2>v, <2>1, <2>2
  <2>4. ASSUME ~crossed', ~early'
        PROVE  /\ Placed - Taken < BY2PIPE - 1 \/ (p_wpos = BY2PIPE - 1 /\ p_rpos # BY2PIPE)
               /\ v = "w_take" => Placed - Taken < BY2PIPE - 1
    <3>1. Writer(p)
      BY <1>h, <2>1, <2>4
    <3> QED BY <2>1, <3>1 DEF Writer
  <2> HIDE DEF v
  <2> QED BY <1>m, <1>s, <2>v, <2>1, <2>2, <2>3, <2>4, WriterLooks
<1>4. CASE w_low(p)
  <2> DEFINE v == IF p_rpos = 0 THEN "c_runs" ELSE "w_take"
  <2>1. /\ Step(p, "w_low") /\ st[p].pc = "w_low" /\ Goto(p, v)
        /\ UNCHANGED <<p_rpos, p_wpos, p_buf, sent, got>>
    BY <1>4 DEF w_low, Step, pipe
  <2>v. v \in Pcs /\ v \notin Reading /\ v \in {"c_runs", "w_take"}
    BY <1>p, <1>s, <1>c
  <2>2. st'[p].pc = v
    <3> HIDE DEF v
    <3> QED BY <1>0, <2>v, <2>1, GotoFacts
  <2>3. ~crossed' => p_wpos # BY2PIPE
    BY <1>i, <1>s, <2>v, <2>1, <2>2
  <2>4. ASSUME ~crossed', ~early', v = "w_take" PROVE Placed - Taken < BY2PIPE - 1
    <3>1. p_wpos \in 0..BY2PIPE - 1 /\ Wrap(p_wpos) = p_wpos /\ ~crossed
      BY <1>i, <1>s, <2>v, <2>1, <2>2, <2>4
    <3>2. Ring /\ Writer(p) /\ Taken <= Placed /\ p_rpos \in 0..BY2PIPE
      BY <1>h, <2>1, <2>4
    <3>3. RingAt(Taken, Placed, Wrap(p_rpos), p_wpos, sent, p_buf)
      BY <3>1, <3>2 DEF Ring
    <3>4. p_wpos = BY2PIPE - 1 /\ p_rpos # BY2PIPE /\ p_rpos # 0 => Placed - Taken < BY2PIPE - 1
      BY <1>0, <3>1, <3>2, <3>3, NotFull
    <3> QED BY <2>1, <2>4, <3>2, <3>4 DEF Writer
  <2> HIDE DEF v
  <2> QED BY <1>m, <1>s, <2>v, <2>1, <2>2, <2>3, <2>4, WriterLooks
<1>5. CASE w_take(p)
  <2>1. /\ Step(p, "w_take") /\ st[p].pc = "w_take" /\ Load(p, "w_inc", p_wpos)
        /\ UNCHANGED <<p_rpos, p_wpos, p_buf, sent, got>>
    BY <1>5 DEF w_take, Step, pipe
  <2>2. st'[p].pc = "w_inc" /\ st'[p].pos = p_wpos
    BY <1>0, <1>p, <1>s, <2>1, LoadFacts
  <2>3. ~crossed' => p_wpos # BY2PIPE
    BY <1>i, <1>p, <1>s, <2>1, <2>2
  <2>4. ASSUME ~crossed', ~early' PROVE Placed - Taken < BY2PIPE - 1
    <3>1. Writer(p)
      BY <1>h, <2>1, <2>4
    <3> QED BY <2>1, <3>1 DEF Writer
  <2> QED BY <1>m, <1>s, <1>p, <2>1, <2>2, <2>3, <2>4, WriterLooks
<1>6. CASE w_inc(p)
  <2>1. /\ Step(p, "w_inc") /\ st[p].pc = "w_inc" /\ Goto(p, "w_store") /\ p_wpos' = st[p].pos + 1
        /\ UNCHANGED <<p_rpos, p_buf, sent, got>>
    BY <1>6 DEF w_inc, Step
  <2>2. st'[p].pc = "w_store" /\ st'[p].pos = st[p].pos
    BY <1>0, <1>p, <1>s, <2>1, GotoFacts
  <2>3. /\ TypeInv' /\ ReadIndex' /\ Solo' /\ Taken' = Taken
        /\ ~crossed' =>
             /\ ~crossed
             /\ \A q \in Proc \ {p} : st'[q] = st[q] /\ st[q].pc \notin Writing
             /\ Placed = sent /\ Placed' = sent + 1
             /\ \A q \in Proc \ {p} : Writer(q)'
             /\ Reader(p)'
    BY <1>0, <1>p, <1>s, <1>w, <2>1, <2>2
  <2>4. ASSUME ~crossed'
        PROVE  st[p].pos = p_wpos /\ p_wpos \in 0..BY2PIPE - 1 /\ Wrap(p_wpos) = p_wpos
    <3>1. p_wpos \in 0..BY2PIPE - 1 /\ Wrap(p_wpos) = p_wpos /\ ~crossed
      BY <1>i, <1>p, <1>s, <2>1, <2>2, <2>4
    <3> QED BY <2>1, <3>1 DEF RingInv, WriteIndex
  <2>5. WriteIndex'
    <3> SUFFICES ASSUME ~crossed' PROVE WriteIndex'
      BY DEF WriteIndex
    <3>1. \A q \in Proc \ {p} : st'[q].pc \notin Writing
      BY <2>3
    <3>2. p_wpos' \in 0..BY2PIPE
      BY <1>0, <2>1, <2>4
    <3> QED BY <2>1, <2>2, <3>1, <3>2 DEF WriteIndex, Writing
  <2>6. InOrder'
    <3> SUFFICES ASSUME ~crossed', ~early' PROVE InOrder'
      BY DEF InOrder
    <3>0. ~early /\ ~crossed
      BY <2>1, <2>3, Histories
    <3>1. (\A k \in DOMAIN got : got[k] = k) /\ (\A q \in Proc : Reader(q))
      BY <3>0 DEF RingInv, InOrder
    <3>2. Ring /\ Writer(p) /\ Taken <= Placed /\ p_rpos \in 0..BY2PIPE
      BY <1>h, <2>1
    <3>3. Placed - Taken < BY2PIPE - 1
      BY <2>1, <3>2 DEF Writer
    <3> DEFINE r == Wrap(p_rpos)
    <3>4. RingAt(Taken, Placed, r, p_wpos, sent, p_buf)
      BY <2>4, <3>2 DEF Ring
    <3>5. r \in 0..BY2PIPE - 1
      BY <1>0, <3>2 DEF Wrap
    <3> HIDE DEF r
    <3>6. RingAt(Taken, Placed + 1, r, Wrap(p_wpos + 1), sent, p_buf)
      BY <1>0, <3>2, <3>3, <3>4, <3>5, RingPlace
    <3>7. Ring'
      <4>1. RingAt(Taken', Placed', Wrap(p_rpos'), Wrap(p_wpos'), sent', p_buf')
        BY <2>1, <2>3, <2>4, <3>6 DEF r
      <4> QED BY <4>1 DEF Ring, RingAt, Wrap, Cell
    <3>8. Writer(p)'
      BY <2>2 DEF Writer
    <3>9. \A q \in Proc \ {p} : Reader(q)'
      BY <2>1, <2>3, <3>1 DEF Reader
    <3> QED BY <2>1, <2>3, <3>1, <3>7, <3>8, <3>9 DEF InOrder
  <2> QED BY <2>3, <2>5, <2>6 DEF RingInv
<1>7. CASE w_store(p)
  <2>1. /\ Step(p, "w_store") /\ st[p].pc = "w_store" /\ Load(p, "w_wrap", 0)
        /\ p_buf' = [k \in DOMAIN p_buf \cup {st[p].pos} |->
                        IF k = st[p].pos THEN sent + 1 ELSE p_buf[k]]
        /\ sent' = sent + 1
        /\ UNCHANGED <<p_rpos, p_wpos, got>>
    BY <1>7 DEF w_store, Step
  <2>2. st'[p].pc = "w_wrap"
    BY <1>0, <1>p, <1>s, <2>1, LoadFacts
  <2>3. /\ TypeInv' /\ ReadIndex' /\ Solo' /\ Taken' = Taken
        /\ ~crossed' =>
             /\ ~crossed
             /\ \A q \in Proc \ {p} : st'[q] = st[q] /\ st[q].pc \notin Writing
             /\ Placed = sent + 1 /\ Placed' = sent + 1
             /\ \A q \in Proc \ {p} : Writer(q)'
             /\ Reader(p)'
    BY <1>0, <1>p, <1>s, <1>w, <2>1, <2>2
  <2>4. WriteIndex'
    <3> SUFFICES ASSUME ~crossed' PROVE WriteIndex'
      BY DEF WriteIndex
    <3>1. \A q \in Proc \ {p} : st'[q].pc \notin Writing
      BY <2>3
    <3>2. p_wpos \in 0..BY2PIPE
      BY <2>3 DEF RingInv, WriteIndex
    <3> QED BY <2>1, <2>2, <3>1, <3>2 DEF WriteIndex, Writing
  <2>5. InOrder'
    <3> SUFFICES ASSUME ~crossed', ~early' PROVE InOrder'
      BY DEF InOrder
    <3>0. ~early /\ ~crossed
      BY <2>1, <2>3, Histories
    <3>1. (\A k \in DOMAIN got : got[k] = k) /\ (\A q \in Proc : Reader(q))
      BY <3>0 DEF RingInv, InOrder
    <3>2. Ring /\ p_rpos \in 0..BY2PIPE
      BY <1>h, <2>1
    <3> DEFINE r == Wrap(p_rpos)
               w == st[p].pos
    <3>3. r \in 0..BY2PIPE - 1
      BY <1>0, <3>2 DEF Wrap
    <3>4. w \in 0..BY2PIPE - 1 /\ p_wpos = w + 1
      <4>1. p_wpos \in 0..BY2PIPE /\ st[p].pos + 1 = p_wpos
        BY <2>1, <3>0 DEF RingInv, WriteIndex
      <4> QED BY <1>0, <4>1
    <3>5. RingAt(Taken, sent + 1, r, Wrap(w + 1), sent, p_buf)
      BY <2>3, <3>2, <3>4 DEF Ring
    <3>6. \A k \in 0..BY2PIPE - 1 : p_buf'[k] = IF k = w THEN sent + 1 ELSE p_buf[k]
      <4>1. 0..BY2PIPE - 1 \subseteq DOMAIN p_buf
        BY DEF RingInv, TypeInv, TypeOK
      <4> QED BY <2>1, <4>1
    <3> HIDE DEF r, w
    <3>7. /\ RingAt(Taken, sent + 1, r, Wrap(w + 1), sent + 1, p_buf')
          /\ \A x \in 0..BY2PIPE - 1 : r = Wrap(x + 1) => x # w
      <4>1. PICK b : b = p_buf'
        OBVIOUS
      <4>2. StoredAt(b, p_buf, w, sent + 1)
        BY <3>6, <4>1 DEF StoredAt
      <4>3. /\ RingAt(Taken, sent + 1, r, Wrap(w + 1), sent + 1, b)
            /\ \A x \in 0..BY2PIPE - 1 : r = Wrap(x + 1) => x # w
        BY <1>0, <3>3, <3>4, <3>5, <4>2, RingStore
      <4> QED BY <4>1, <4>3
    <3>8. Ring'
      <4>1. RingAt(Taken', Placed', Wrap(p_rpos'), Wrap(p_wpos'), sent', p_buf')
        BY <2>1, <2>3, <3>4, <3>7 DEF r
      <4> QED BY <4>1 DEF Ring, RingAt, Wrap, Cell
    <3>9. Writer(p)'
      BY <2>2 DEF Writer
    <3>10. ASSUME NEW q \in Proc \ {p} PROVE Reader(q)'
      <4>1. Reader(q) /\ st'[q] = st[q]
        BY <2>3, <3>1
      <4>2. ASSUME st[q].pc = "r_load" PROVE p_buf'[st[q].pos] = p_buf[st[q].pos]
        <5>1. p_rpos = st[q].pos + 1
          BY <3>0, <4>2 DEF RingInv, ReadIndex
        <5>2. st[q].pos \in Nat
          BY MoveBase
        <5>3. st[q].pos \in 0..BY2PIPE - 1
          BY <1>0, <3>2, <5>1, <5>2
        <5>4. st[q].pos # w
          BY <3>7, <5>1, <5>3 DEF r
        <5> QED BY <3>6, <5>3, <5>4
      <4> QED BY <1>0, <2>1, <2>3, <4>1, <4>2 DEF Reader
    <3> QED BY <2>1, <2>3, <3>1, <3>8, <3>9, <3>10 DEF InOrder
  <2> QED BY <2>3, <2>4, <2>5 DEF RingInv
<1>8. CASE w_wrap(p)
  <2>1. /\ Step(p, "w_wrap") /\ st[p].pc = "w_wrap"
        /\ IF AtEnd(p_wpos) THEN Goto(p, "w_zero") ELSE NextByte(p, "w_test")
        /\ UNCHANGED <<p_rpos, p_wpos, p_buf, sent, got>>
    BY <1>8 DEF w_wrap, Step, pipe
  <2>2. CASE p_wpos = BY2PIPE
    <3>1. st'[p].pc = "w_zero"
      BY <1>0, <1>p, <1>s, <2>1, <2>2, GotoFacts DEF AtEnd
    <3> QED BY <1>m, <1>s, <1>p, <2>1, <2>2, <3>1, WriterLooks
  <2>3. CASE p_wpos # BY2PIPE
    <3>1. st'[p].pc \in {"idle", "w_test"}
      BY <1>0, <1>p, <1>s, <2>1, <2>3, NextByteFacts, IdleFacts DEF AtEnd
    <3> QED BY <1>m, <1>s, <1>p, <1>c, <2>1, <2>3, <3>1, WriterLooks
  <2> QED BY <2>2, <2>3
<1>9. CASE w_zero(p)
  <2>1. /\ Step(p, "w_zero") /\ st[p].pc = "w_zero" /\ NextByte(p, "w_test") /\ p_wpos' = 0
        /\ UNCHANGED <<p_rpos, p_buf, sent, got>>
    BY <1>9 DEF w_zero, Step
  <2>2. st'[p].pc \in {"idle", "w_test"}
    BY <1>0, <1>p, <1>s, <2>1, NextByteFacts, IdleFacts
  <2>3. /\ TypeInv' /\ ReadIndex' /\ Solo' /\ Taken' = Taken
        /\ ~crossed' =>
             /\ ~crossed
             /\ \A q \in Proc \ {p} : st'[q] = st[q] /\ st[q].pc \notin Writing
             /\ Placed = sent /\ Placed' = sent
             /\ \A q \in Proc \ {p} : Writer(q)'
             /\ Reader(p)'
    BY <1>0, <1>p, <1>s, <1>c, <1>w, <2>1, <2>2
  <2>4. WriteIndex'
    <3> SUFFICES ASSUME ~crossed' PROVE WriteIndex'
      BY DEF WriteIndex
    <3>1. \A q \in Proc \ {p} : st'[q].pc \notin Writing
      BY <2>3
    <3> QED BY <1>0, <2>1, <2>2, <3>1 DEF WriteIndex, Writing
  <2>5. InOrder'
    <3> SUFFICES ASSUME ~crossed', ~early' PROVE InOrder'
      BY DEF InOrder
    <3>0. ~early /\ ~crossed
      BY <2>1, <2>3, Histories
    <3>1. Ring /\ (\A k \in DOMAIN got : got[k] = k) /\ (\A q \in Proc : Reader(q))
      BY <3>0 DEF RingInv, InOrder
    <3>2. p_wpos = BY2PIPE
      BY <2>1, <3>0 DEF RingInv, WriteIndex
    <3>3. Wrap(p_wpos) = 0 /\ Wrap(p_wpos') = 0
      BY <1>0, <2>1, <3>2 DEF Wrap
    <3>4. Ring'
      <4>1. RingAt(Taken, Placed, Wrap(p_rpos), 0, sent, p_buf)
        BY <3>1, <3>3 DEF Ring
      <4>2. RingAt(Taken', Placed', Wrap(p_rpos'), Wrap(p_wpos'), sent', p_buf')
        BY <2>1, <2>3, <3>3, <4>1
      <4> QED BY <4>2 DEF Ring, RingAt, Wrap, Cell
    <3>5. Writer(p)'
      BY <2>2 DEF Writer
    <3>6. \A q \in Proc \ {p} : Reader(q)'
      BY <2>1, <2>3, <3>1 DEF Reader
    <3> QED BY <2>1, <2>3, <3>1, <3>4, <3>5, <3>6 DEF InOrder
  <2> QED BY <2>3, <2>4, <2>5 DEF RingInv
<1> QED BY <1>1, <1>2, <1>3, <1>4, <1>5, <1>6, <1>7, <1>8, <1>9

-----------------------------------------------------------------------------
(* An empty pipe. *)
LEMMA InitRing == Init => RingInv
<1> SUFFICES ASSUME Init PROVE RingInv
  OBVIOUS
<1>0. BY2PIPE \in Nat /\ BY2PIPE > 1 /\ MaxCalls \in Nat
  BY BoundAssumption
<1>1. \A p \in Proc : st[p] = Idle(p) /\ st[p].pc = "idle" /\ st[p].op = "none"
  BY IdleLocals DEF Init
<1>2. TypeOK
  <2>1. st \in [Proc -> Locals]
    BY IdleLocals DEF Init
  <2>2. alive \subseteq Proc /\ crossed \in BOOLEAN /\ early \in BOOLEAN
    BY ProcAssumption DEF Init
  <2>3. fd \in [Proc -> [Slot -> End \cup {"none"}]]
    BY DEF Init, End
  <2>4. data \in [Proc -> [Slot -> BOOLEAN]]
    <3>1. \A p \in Proc, s \in Slot : (p \in alive /\ s <= 1) \in BOOLEAN
      OBVIOUS
    <3> QED BY <3>1 DEF Init
  <2>5. moved \in [Proc -> BOOLEAN]
    BY DEF Init
  <2>6. /\ p_rpos \in Nat /\ p_wpos \in Nat
        /\ p_buf \in [DOMAIN p_buf -> Nat] /\ 0..BY2PIPE - 1 \subseteq DOMAIN p_buf
        /\ sent \in Nat /\ got \in Seq(Nat) /\ calls \in 0..MaxCalls
    BY <1>0 DEF Init
  <2> QED BY <2>1, <2>2, <2>3, <2>4, <2>5, <2>6 DEF TypeOK
<1>3. \A p \in Proc : CallArgs(p) /\ Reader(p) /\ Writer(p) /\ st[p].pc \notin Reading \cup Writing
  BY <1>1 DEF CallArgs, Reader, Writer, Reading, Writing
<1>4. Solo /\ ReadIndex /\ WriteIndex
  BY <1>0, <1>1, <1>3 DEF Solo, ReadIndex, WriteIndex, Init
<1>5. Ring /\ \A k \in DOMAIN got : got[k] = k
  <2>0. sent = 0 /\ got = <<>> /\ p_rpos = 0 /\ p_wpos = 0
    BY DEF Init
  <2>a. Len(got) = 0 /\ DOMAIN got = 1..0
    BY <2>0
  <2>1. Taken = 0 /\ Placed = 0
    BY <1>1, <2>0, <2>a DEF Taken, Placed
  <2>2. Wrap(0) = 0 /\ Cell(0, 0) = 0 /\ 0..(0 - 0 - 1) = {}
    BY <1>0 DEF Wrap, Cell
  <2>3. RingAt(0, 0, 0, 0, 0, p_buf)
    BY <1>0, <2>2 DEF RingAt
  <2> QED BY <2>0, <2>a, <2>1, <2>2, <2>3 DEF Ring
<1> QED BY <1>2, <1>3, <1>4, <1>5 DEF RingInv, TypeInv, InOrder

(* Every step keeps the ring. *)
LEMMA NextRing == RingInv /\ [Next]_vars => RingInv'
<1> SUFFICES ASSUME RingInv, [Next]_vars PROVE RingInv'
  OBVIOUS
<1>1. CASE UNCHANGED vars
  <2>1. UNCHANGED <<fd, data, p_rpos, p_wpos, p_buf, alive, st, moved, sent, got, calls, crossed, early>>
    BY <1>1 DEF vars, pipe, maps
  <2>2. TypeOK'
    BY <2>1 DEF RingInv, TypeInv, TypeOK
  <2>3. (\A p \in Proc : CallArgs(p)') /\ Solo' /\ ReadIndex' /\ WriteIndex'
    BY <2>1 DEF RingInv, TypeInv, CallArgs, Solo, ReadIndex, WriteIndex
  <2>4. Taken' = Taken /\ Placed' = Placed
    BY <2>1 DEF Taken, Placed
  <2>5. InOrder'
    BY <2>1, <2>4 DEF RingInv, InOrder, Ring, RingAt, Reader, Writer, Wrap, Cell
  <2> QED BY <2>2, <2>3, <2>5 DEF RingInv, TypeInv
<1>2. CASE Next
  <2> PICK p \in Proc : Continue(p) \/ Start(p)
    BY <1>2 DEF Next
  <2> QED BY ReadSteps, WriteSteps, CallQuiet, StartQuiet DEF Continue
<1> QED BY <1>1, <1>2

(* What RingInv is good for. *)
LEMMA RingGives == RingInv => TypeOK /\ InBuffer /\ Fifo
<1> SUFFICES ASSUME RingInv PROVE TypeOK /\ InBuffer /\ Fifo
  OBVIOUS
<1>1. TypeOK
  BY DEF RingInv, TypeInv
<1>2. InBuffer
  <2> SUFFICES ASSUME ~crossed, NEW p \in Proc, st[p].pc \in {"r_load", "w_store"}
               PROVE  st[p].pos < BY2PIPE
    BY DEF InBuffer
  <2>1. \/ p_rpos \in 0..BY2PIPE /\ st[p].pos + 1 = p_rpos
        \/ p_wpos \in 0..BY2PIPE /\ st[p].pos + 1 = p_wpos
    BY DEF RingInv, ReadIndex, WriteIndex
  <2>2. st[p].pos \in Nat
    BY MoveBase
  <2> QED BY <2>1, <2>2, BoundAssumption
<1>3. ASSUME ~crossed, ~early, \A p \in Proc : st[p].pc \notin Reading \cup Writing
      PROVE  (p_wpos - p_rpos) % BY2PIPE = sent - Len(got)
  <2> DEFINE n == sent - Len(got)
  <2>0. sent \in Nat /\ Len(got) \in Nat /\ BY2PIPE \in Nat /\ BY2PIPE > 1
    BY <1>1, BoundAssumption DEF TypeOK
  <2>1. Taken = Len(got) /\ Placed = sent
    BY <1>3, <2>0 DEF Taken, Placed, Reading, Writing
  <2>2. p_rpos \in 0..BY2PIPE - 1 /\ p_wpos \in 0..BY2PIPE - 1
    <3>1. \A p \in Proc : st[p].pc \notin {"r_load", "r_wrap", "r_zero", "w_store", "w_wrap", "w_zero"}
      BY <1>3 DEF Reading, Writing
    <3> QED BY <1>3, <2>0, <3>1 DEF RingInv, ReadIndex, WriteIndex
  <2>3. Wrap(p_rpos) = p_rpos /\ Wrap(p_wpos) = p_wpos
    BY <2>0, <2>2 DEF Wrap
  <2>4. RingAt(Len(got), sent, p_rpos, p_wpos, sent, p_buf)
    BY <1>3, <2>1, <2>3 DEF RingInv, InOrder, Ring
  <2>5. n \in 0..BY2PIPE - 1 /\ p_wpos = Cell(p_rpos, n)
    BY <2>0, <2>4 DEF RingAt
  <2> HIDE DEF n
  <2>6. p_wpos - p_rpos = n \/ p_wpos - p_rpos = n - BY2PIPE
    BY <2>0, <2>2, <2>5 DEF Cell
  <2>7. n % BY2PIPE = n /\ (n - BY2PIPE) % BY2PIPE = n
    BY <2>0, <2>5
  <2> QED BY <2>6, <2>7 DEF n
<1> QED BY <1>1, <1>2, <1>3 DEF Fifo, RingInv, InOrder

(* A pipe (user/lib/pipe.c) with any number of processes that read, write, *)
(* close, dup and fork, preempted anywhere, keeps the types of its page    *)
(* and of their locals; a call never moves more bytes than it was asked to. *)
THEOREM PipeTypes == Spec => []TypeOK
<1> QED BY InitRing, NextRing, RingGives, PTL DEF Spec

(* pipe_read and pipe_write: for a buffer of any size and any number of    *)
(* processes, with the timer between any two accesses, no byte is loaded   *)
(* from or stored to what lies behind p_buf, although each index is        *)
(* BY2PIPE for a moment, unless two of them have been reading, or writing, *)
(* a byte at the same time.                                                *)
THEOREM PipeInBuffer == Spec => []InBuffer
<1> QED BY InitRing, NextRing, RingGives, PTL DEF Spec

(* pipe_read and pipe_write: for a buffer of any size, with the timer      *)
(* between any two accesses and whoever closes, dups or forks, the bytes   *)
(* are read in the order in which they were written, none twice and none   *)
(* lost, and the two indices say how many are left, until two processes    *)
(* read, or write, a byte at the same time, or a reader reads p_wpos       *)
(* between its increment and the store of the byte or the wrap.            *)
THEOREM PipeFifo == Spec => []Fifo
<1> QED BY InitRing, NextRing, RingGives, PTL DEF Spec
=============================================================================
