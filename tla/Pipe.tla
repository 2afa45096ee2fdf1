-------------------------------- MODULE Pipe --------------------------------
(***************************************************************************)
(* A pipe (user/lib/pipe.c) shared by processes that read, write, close,   *)
(* dup (user/lib/fd.c) and fork (user/lib/fork.c).                         *)
(*                                                                         *)
(* There is no lock and no kernel object: a pipe is a page of memory, and  *)
(* whether its other end is closed is read off the reference counts of two *)
(* pages.  A file descriptor is the mapping of the page of its end (fd)    *)
(* and, at another address, of the page with the buffer (data); every      *)
(* system call maps or unmaps one of them.  A process may be preempted     *)
(* between any two accesses of shared memory (user programs are compiled   *)
(* without optimisation: every use of an index loads it anew); it can tell *)
(* only by env->env_runs, which _pipe_is_closed reads before and after the *)
(* counts.                                                                 *)
(*                                                                         *)
(* A byte is modelled by its position in the order of writing.  Nothing    *)
(* orders the accesses of two readers, of two writers, or of a reader and  *)
(* a writer that has advanced its index ahead of its byte: crossed and     *)
(* early record whether that has happened, for the properties to say what  *)
(* holds as long as it has not.                                            *)
(***************************************************************************)
EXTENDS Integers, Sequences, FiniteSets

CONSTANTS Proc,
          Born,      \* which processes may share the pipe at the start; the others are forked
          NSlot,     \* number of file descriptors
          BY2PIPE,   \* size of the buffer (32)
          MaxN,      \* BOUND: bytes of one call
          MaxBytes,  \* BOUND: bytes written
          MaxCalls   \* BOUND: calls made

ASSUME ProcAssumption == IsFiniteSet(Proc) /\ Born \subseteq SUBSET Proc
ASSUME SlotAssumption == NSlot \in Nat /\ NSlot > 1
ASSUME BoundAssumption == /\ BY2PIPE \in Nat /\ BY2PIPE > 1
                          /\ {MaxN, MaxBytes, MaxCalls} \subseteq Nat

VARIABLES
    fd, data,                \* what is mapped at INDEX2FD, at INDEX2DATA
    p_rpos, p_wpos, p_buf,   \* struct Pipe
    alive,                   \* processes that run
    st,                      \* where a process is, and its locals
    moved,                   \* has env_runs changed since it was read?
    sent, got,               \* bytes written; the bytes read, in order
    calls,
    crossed,                 \* two processes have been reading, or writing, a byte at once
    early                    \* p_wpos was read ahead of its byte, or before it was wrapped

pipe == <<p_rpos, p_wpos, p_buf, sent, got>>
maps == <<fd, data>>
vars == <<pipe, maps, alive, st, moved, calls, crossed, early>>

Slot == 0..NSlot - 1
End == {"r", "w"}
Other(e) == IF e = "r" THEN "w" ELSE "r"

(* Where a process is between its look at the indices and the end of the   *)
(* byte's transfer.                                                        *)
Reading == {"r_cmp", "r_take", "r_inc", "r_load", "r_wrap", "r_zero"}
Writing == {"w_cmp", "w_edge", "w_low", "w_take", "w_inc", "w_store", "w_wrap", "w_zero"}
Check == {"c_fd", "c_pipe", "c_cmp"}
Pcs == Reading \cup Writing \cup Check \cup {"idle", "r_test", "w_test", "c_runs", "closed",
                       "x_data", "d_close", "d_data", "d_fd", "f_fd", "f_data"}

Locals == [pc : Pcs, op : {"none", "read", "write", "ask"}, slot : Slot, to : Slot,
           child : Proc, n : 0..MaxN, i : 0..MaxN, pos : Nat,
           fd_ref : Nat, pipe_ref : Nat]

Idle(p) == [pc |-> "idle", op |-> "none", slot |-> 0, to |-> 0, child |-> p,
            n |-> 0, i |-> 0, pos |-> 0, fd_ref |-> 0, pipe_ref |-> 0]

TypeOK ==
    /\ fd \in [Proc -> [Slot -> End \cup {"none"}]]
    /\ data \in [Proc -> [Slot -> BOOLEAN]]
    /\ p_rpos \in Nat /\ p_wpos \in Nat
    /\ p_buf \in [DOMAIN p_buf -> Nat] /\ 0..BY2PIPE - 1 \subseteq DOMAIN p_buf
    /\ alive \subseteq Proc
    /\ st \in [Proc -> Locals]
    /\ moved \in [Proc -> BOOLEAN]
    /\ sent \in Nat /\ got \in Seq(Nat)
    /\ calls \in 0..MaxCalls
    /\ crossed \in BOOLEAN /\ early \in BOOLEAN

(* After pipe() and, if alive has more members, forks before any transfer:  *)
(* descriptor 0 is the read end, 1 the write end.                          *)
Init ==
    /\ alive \in Born
    /\ fd = [p \in Proc |-> [s \in Slot |->
                IF p \notin alive \/ s > 1 THEN "none" ELSE IF s = 0 THEN "r" ELSE "w"]]
    /\ data = [p \in Proc |-> [s \in Slot |-> p \in alive /\ s <= 1]]
    /\ p_rpos = 0 /\ p_wpos = 0 /\ p_buf = [k \in 0..BY2PIPE - 1 |-> 0]
    /\ st = [p \in Proc |-> Idle(p)]
    /\ moved = [p \in Proc |-> FALSE]
    /\ sent = 0 /\ got = <<>> /\ calls = 0
    /\ crossed = FALSE /\ early = FALSE

-----------------------------------------------------------------------------
(* pageref: how often a page is mapped. *)
FdSlots(e) == {x \in Proc \X Slot : fd[x[1]][x[2]] = e}
DataSlots  == {x \in Proc \X Slot : data[x[1]][x[2]]}

(* A step of p.  Every other process will be scheduled again before it     *)
(* goes on, and env_run increments its env_runs: one that is comparing     *)
(* will find it moved.  c_runs reads env_runs.  The two histories change   *)
(* where a process looks at the indices.                                   *)
Step(p, pc) ==
    /\ p \in alive
    /\ st[p].pc = pc
    /\ moved' = [q \in Proc |-> IF q = p THEN moved[p] /\ pc # "c_runs"
                                ELSE st[q].pc \in Check]
    /\ crossed' = (\/ crossed
                   \/ pc = "r_test" /\ \E q \in Proc \ {p} : st[q].pc \in Reading
                   \/ pc = "w_test" /\ \E q \in Proc \ {p} : st[q].pc \in Writing)
    /\ early' = (\/ early
                 \/ pc = "r_test" /\ (p_wpos = BY2PIPE \/ \E q \in Proc : st[q].pc = "w_store"))

Call(p) == Step(p, "idle") /\ calls < MaxCalls /\ calls' = calls + 1

Goto(p, pc) == st' = [st EXCEPT ![p].pc = pc]

(* A shared index is loaded; or, with 0, the loaded one has been used. *)
Load(p, pc, index) == st' = [st EXCEPT ![p] = [@ EXCEPT !.pc = pc, !.pos = index]]

Return(p) == st' = [st EXCEPT ![p] = Idle(p)]

-----------------------------------------------------------------------------
(* pipe_read *)

read(p, s, n) ==
    /\ Call(p)
    /\ fd[p][s] = "r"
    /\ st' = [st EXCEPT ![p] = [@ EXCEPT !.pc = "r_test", !.op = "read", !.slot = s,
                                         !.n = n, !.i = 0]]
    /\ UNCHANGED <<pipe, maps, alive>>

(* while (p->p_wpos == p->p_rpos): two loads *)
r_test(p) ==
    /\ Step(p, "r_test")
    /\ Load(p, "r_cmp", p_wpos)
    /\ UNCHANGED <<pipe, maps, alive, calls>>

r_cmp(p) ==
    /\ Step(p, "r_cmp")
    /\ Load(p, IF st[p].pos = p_rpos THEN "c_runs" ELSE "r_take", 0)
    /\ UNCHANGED <<pipe, maps, alive, calls>>

(* p->p_buf[p->p_rpos++]: the index is loaded, its successor is stored, and *)
(* only then is the byte loaded.                                           *)
r_take(p) ==
    /\ Step(p, "r_take")
    /\ Load(p, "r_inc", p_rpos)
    /\ UNCHANGED <<pipe, maps, alive, calls>>

r_inc(p) ==
    /\ Step(p, "r_inc")
    /\ p_rpos' = st[p].pos + 1
    /\ Goto(p, "r_load")
    /\ UNCHANGED <<p_wpos, p_buf, sent, got, maps, alive, calls>>

(* What lies behind p_buf in the page is 0 until it is stored to. *)
Byte(k) == IF k \in DOMAIN p_buf THEN p_buf[k] ELSE 0

r_load(p) ==
    /\ Step(p, "r_load")
    /\ got' = Append(got, Byte(st[p].pos))
    /\ Load(p, "r_wrap", 0)
    /\ UNCHANGED <<p_rpos, p_wpos, p_buf, sent, maps, alive, calls>>

(* Mutant: an index equal to BY2PIPE is left as it is. *)
AtEnd_Late(k) == k > BY2PIPE

AtEnd(k) == k = BY2PIPE

(* The next byte, or the end of the loop. *)
NextByte(p, test) ==
    LET i == st[p].i + 1
    IN  st' = [st EXCEPT ![p] = IF i = st[p].n THEN Idle(p)
                                ELSE [@ EXCEPT !.i = i, !.pc = test]]

r_wrap(p) ==
    /\ Step(p, "r_wrap")
    /\ IF AtEnd(p_rpos) THEN Goto(p, "r_zero") ELSE NextByte(p, "r_test")
    /\ UNCHANGED <<pipe, maps, alive, calls>>

r_zero(p) ==
    /\ Step(p, "r_zero")
    /\ p_rpos' = 0
    /\ NextByte(p, "r_test")
    /\ UNCHANGED <<p_wpos, p_buf, sent, got, maps, alive, calls>>

-----------------------------------------------------------------------------
(* pipe_write *)

write(p, s, n) ==
    /\ Call(p)
    /\ fd[p][s] = "w"
    /\ sent + n <= MaxBytes
    /\ st' = [st EXCEPT ![p] = [@ EXCEPT !.pc = "w_test", !.op = "write", !.slot = s,
                                         !.n = n, !.i = 0]]
    /\ UNCHANGED <<pipe, maps, alive>>

(* while ((p->p_wpos + 1 == p->p_rpos) || (p->p_wpos == BY2PIPE - 1 &&     *)
(* p->p_rpos == 0)): up to four loads                                      *)
w_test(p) ==
    /\ Step(p, "w_test")
    /\ Load(p, "w_cmp", p_wpos)
    /\ UNCHANGED <<pipe, maps, alive, calls>>

w_cmp(p) ==
    /\ Step(p, "w_cmp")
    /\ Load(p, IF st[p].pos + 1 = p_rpos THEN "c_runs" ELSE "w_edge", 0)
    /\ UNCHANGED <<pipe, maps, alive, calls>>

(* Mutant: the case of an index at the end of the buffer is left out. *)
w_edge_NoEnd(p) ==
    /\ Step(p, "w_edge")
    /\ Goto(p, "w_take")
    /\ UNCHANGED <<pipe, maps, alive, calls>>

w_edge(p) ==
    /\ Step(p, "w_edge")
    /\ Goto(p, IF p_wpos = BY2PIPE - 1 THEN "w_low" ELSE "w_take")
    /\ UNCHANGED <<pipe, maps, alive, calls>>

w_low(p) ==
    /\ Step(p, "w_low")
    /\ Goto(p, IF p_rpos = 0 THEN "c_runs" ELSE "w_take")
    /\ UNCHANGED <<pipe, maps, alive, calls>>

(* p->p_buf[p->p_wpos++] = *wbuf++ *)
w_take(p) ==
    /\ Step(p, "w_take")
    /\ Load(p, "w_inc", p_wpos)
    /\ UNCHANGED <<pipe, maps, alive, calls>>

w_inc(p) ==
    /\ Step(p, "w_inc")
    /\ p_wpos' = st[p].pos + 1
    /\ Goto(p, "w_store")
    /\ UNCHANGED <<p_rpos, p_buf, sent, got, maps, alive, calls>>

w_store(p) ==
    /\ Step(p, "w_store")
    /\ p_buf' = [k \in DOMAIN p_buf \cup {st[p].pos} |->
                    IF k = st[p].pos THEN sent + 1 ELSE p_buf[k]]
    /\ sent' = sent + 1
    /\ Load(p, "w_wrap", 0)
    /\ UNCHANGED <<p_rpos, p_wpos, got, maps, alive, calls>>

w_wrap(p) ==
    /\ Step(p, "w_wrap")
    /\ IF AtEnd(p_wpos) THEN Goto(p, "w_zero") ELSE NextByte(p, "w_test")
    /\ UNCHANGED <<pipe, maps, alive, calls>>

w_zero(p) ==
    /\ Step(p, "w_zero")
    /\ p_wpos' = 0
    /\ NextByte(p, "w_test")
    /\ UNCHANGED <<p_rpos, p_buf, sent, got, maps, alive, calls>>

-----------------------------------------------------------------------------
(* _pipe_is_closed *)

pipe_is_closed(p, s) ==
    /\ Call(p)
    /\ fd[p][s] # "none"
    /\ st' = [st EXCEPT ![p] = [@ EXCEPT !.pc = "c_runs", !.op = "ask", !.slot = s]]
    /\ UNCHANGED <<pipe, maps, alive>>

(* runs = env->env_runs *)
c_runs(p) ==
    /\ Step(p, "c_runs")
    /\ Goto(p, "c_fd")
    /\ UNCHANGED <<pipe, maps, alive, calls>>

c_fd(p) ==
    /\ Step(p, "c_fd")
    /\ st' = [st EXCEPT ![p] = [@ EXCEPT !.pc = "c_pipe",
                   !.fd_ref = Cardinality(FdSlots(fd[p][st[p].slot]))]]
    /\ UNCHANGED <<pipe, maps, alive, calls>>

c_pipe(p) ==
    /\ Step(p, "c_pipe")
    /\ st' = [st EXCEPT ![p] = [@ EXCEPT !.pc = "c_cmp",
                   !.pipe_ref = Cardinality(DataSlots)]]
    /\ UNCHANGED <<pipe, maps, alive, calls>>

(* Mutant: the counts are believed whatever happened between them. *)
Verdict_NoRetry(p) ==
    IF st[p].fd_ref = st[p].pipe_ref THEN "closed"
    ELSE CASE st[p].op = "read" -> "r_test" [] st[p].op = "write" -> "w_test"
           [] OTHER -> "idle"

(* Read again if the process was scheduled in between; not closed: yield   *)
(* and look at the buffer again, or return 0.                              *)
Verdict(p) ==
    IF moved[p] THEN "c_runs"
    ELSE IF st[p].fd_ref = st[p].pipe_ref THEN "closed"
    ELSE CASE st[p].op = "read" -> "r_test" [] st[p].op = "write" -> "w_test"
           [] OTHER -> "idle"

c_cmp(p) ==
    /\ Step(p, "c_cmp")
    /\ LET v == Verdict(p)
       IN  st' = [st EXCEPT ![p] = IF v = "idle" THEN Idle(p)
                                   ELSE [@ EXCEPT !.pc = v, !.fd_ref = 0, !.pipe_ref = 0]]
    /\ UNCHANGED <<pipe, maps, alive, calls>>

(* The call returns: i bytes, or "closed". *)
closed(p) ==
    /\ Step(p, "closed")
    /\ Return(p)
    /\ UNCHANGED <<pipe, maps, alive, calls>>

-----------------------------------------------------------------------------
(* close, dup and fork: one system call per step *)

close(p, s) ==
    /\ Call(p)
    /\ fd[p][s] # "none"
    /\ fd' = [fd EXCEPT ![p][s] = "none"]
    /\ st' = [st EXCEPT ![p] = [@ EXCEPT !.pc = "x_data", !.slot = s]]
    /\ UNCHANGED <<pipe, data, alive>>

(* Mutant: the page of the buffer stays mapped. *)
pipe_close_FdOnly(p) ==
    /\ Step(p, "x_data")
    /\ Return(p)
    /\ UNCHANGED <<pipe, maps, alive, calls>>

(* The second half of pipe_close; the fd_close that follows finds nothing  *)
(* to unmap.                                                               *)
pipe_close(p) ==
    /\ Step(p, "x_data")
    /\ data' = [data EXCEPT ![p][st[p].slot] = FALSE]
    /\ Return(p)
    /\ UNCHANGED <<pipe, fd, alive, calls>>

(* dup(s, t): t is closed, then the buffer and then the end is mapped. *)
dup(p, s, t) ==
    /\ Call(p)
    /\ s # t /\ fd[p][s] # "none"
    /\ fd' = [fd EXCEPT ![p][t] = "none"]
    /\ st' = [st EXCEPT ![p] = [@ EXCEPT !.slot = s, !.to = t,
                   !.pc = IF fd[p][t] # "none" THEN "d_close" ELSE "d_data"]]
    /\ UNCHANGED <<pipe, data, alive>>

d_close(p) ==
    /\ Step(p, "d_close")
    /\ data' = [data EXCEPT ![p][st[p].to] = FALSE]
    /\ Goto(p, "d_data")
    /\ UNCHANGED <<pipe, fd, alive, calls>>

d_data(p) ==
    /\ Step(p, "d_data")
    /\ data' = [data EXCEPT ![p][st[p].to] = data[p][st[p].slot]]
    /\ Goto(p, "d_fd")
    /\ UNCHANGED <<pipe, fd, alive, calls>>

d_fd(p) ==
    /\ Step(p, "d_fd")
    /\ fd' = [fd EXCEPT ![p][st[p].to] = fd[p][st[p].slot]]
    /\ Return(p)
    /\ UNCHANGED <<pipe, data, alive, calls>>

(* fork maps the child's pages in the order of their addresses: all of     *)
(* FDTABLE before the buffers above FILEBASE.                              *)
fork(p, c) ==
    /\ Call(p)
    /\ c \notin alive /\ \A q \in Proc : st[q].pc \in {"f_fd", "f_data"} => st[q].child # c
    /\ st' = [st EXCEPT ![p] = [@ EXCEPT !.pc = "f_fd", !.child = c, !.slot = 0]]
    /\ UNCHANGED <<pipe, maps, alive>>

(* Mutant: fork's loop goes one descriptor too far. *)
NextSlot_Past(p, done) ==
    st' = [st EXCEPT ![p] = IF @.slot < NSlot THEN [@ EXCEPT !.slot = st[p].slot + 1]
                            ELSE IF done = "idle" THEN Idle(p)
                            ELSE [@ EXCEPT !.slot = 0, !.pc = done]]

NextSlot(p, done) ==
    st' = [st EXCEPT ![p] = IF @.slot + 1 \in Slot THEN [@ EXCEPT !.slot = st[p].slot + 1]
                            ELSE IF done = "idle" THEN Idle(p)
                            ELSE [@ EXCEPT !.slot = 0, !.pc = done]]

f_fd(p) ==
    LET s == st[p].slot
    IN  /\ Step(p, "f_fd")
        /\ fd' = [fd EXCEPT ![st[p].child][s] = fd[p][s]]
        /\ NextSlot(p, "f_data")
        /\ UNCHANGED <<pipe, data, alive, calls>>

f_data(p) ==
    LET s == st[p].slot
    IN  /\ Step(p, "f_data")
        /\ data' = [data EXCEPT ![st[p].child][s] = data[p][s]]
        /\ NextSlot(p, "idle")
        /\ alive' = IF s + 1 \in Slot THEN alive ELSE alive \cup {st[p].child}
        /\ UNCHANGED <<pipe, fd, calls>>

-----------------------------------------------------------------------------
(* What a process does once it is in a call. *)
Continue(p) ==
    \/ r_test(p) \/ r_cmp(p) \/ r_take(p) \/ r_inc(p) \/ r_load(p) \/ r_wrap(p) \/ r_zero(p)
    \/ w_test(p) \/ w_cmp(p) \/ w_edge(p) \/ w_low(p)
    \/ w_take(p) \/ w_inc(p) \/ w_store(p) \/ w_wrap(p) \/ w_zero(p)
    \/ c_runs(p) \/ c_fd(p) \/ c_pipe(p) \/ c_cmp(p) \/ closed(p)
    \/ pipe_close(p) \/ d_close(p) \/ d_data(p) \/ d_fd(p)
    \/ f_fd(p) \/ f_data(p)

Start(p) ==
    \/ \E s \in Slot, n \in 1..MaxN : read(p, s, n) \/ write(p, s, n)
    \/ \E s \in Slot : pipe_is_closed(p, s) \/ close(p, s)
    \/ \E s, t \in Slot : dup(p, s, t)
    \/ \E c \in Proc : fork(p, c)

Next == \E p \in Proc : Continue(p) \/ Start(p)

Spec == Init /\ [][Next]_vars

(* Round robin gives every process the CPU again and again (EveryoneRuns   *)
(* of EnvLib); whether it then makes another call is its own choice.  A    *)
(* time slice is longer than a comparison, so not every one of them is     *)
(* interrupted.                                                            *)
FairSpec ==
    /\ Spec
    /\ \A p \in Proc :
         /\ WF_vars(Continue(p))
         /\ SF_vars(~moved[p] /\ c_fd(p))
         /\ SF_vars(~moved[p] /\ c_pipe(p))
         /\ SF_vars(~moved[p] /\ c_cmp(p))

-----------------------------------------------------------------------------
(* _pipe_is_closed, "If they're the same, the pipe is closed": nobody has  *)
(* the other end open any more.                                            *)
ClosedIsClosed ==
    \A p \in Proc : st[p].pc = "closed" =>
        FdSlots(Other(fd[p][st[p].slot])) = {}

(* pipe_read and pipe_write: what is read is what was written, in order,   *)
(* and what was written and not read is in the buffer, wherever a reader   *)
(* and a writer preempt each other (the cell that is never filled keeps a  *)
(* byte whose index has moved on from being overwritten), as long as two   *)
(* readers or two writers do not overlap and no reader has read an index   *)
(* that is ahead of its byte.                                              *)
Fifo ==
    ~crossed /\ ~early =>
        /\ \A k \in DOMAIN got : got[k] = k
        /\ (\A p \in Proc : st[p].pc \notin Reading \cup Writing) =>
               (p_wpos - p_rpos) % BY2PIPE = sent - Len(got)

(* pipe_read and pipe_write: no byte is loaded from or stored to what lies *)
(* behind p_buf, although an index is BY2PIPE for a moment and the other   *)
(* end may run then, as long as two readers or two writers do not overlap. *)
InBuffer ==
    ~crossed => \A p \in Proc : st[p].pc \in {"r_load", "w_store"} => st[p].pos < BY2PIPE

(* A reader of a pipe without writers and a writer of a pipe without       *)
(* readers do not wait for ever.                                           *)
CallsReturn ==
    \A p \in Proc :
        (st[p].pc # "idle" /\ \E e \in End : fd[p][st[p].slot] = e /\ FdSlots(Other(e)) = {})
            ~> st[p].pc = "idle"

(* pipe_read, "The return value must be greater than 0, unless the pipe is *)
(* closed and nothing has been written since the last read".               *)
NothingLeftBehind ==
    \A p \in Proc :
        ~crossed /\ ~early /\ st[p].pc = "closed" /\ st[p].op = "read" /\ st[p].i = 0
            => Len(got) = sent
=============================================================================
