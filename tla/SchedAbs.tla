------------------------------ MODULE SchedAbs ------------------------------
(***************************************************************************)
(* What the scheduler promises, without pointers, tables or statuses: a    *)
(* queue of the runnable environments whose first one has the CPU for as   *)
(* many ticks as its priority says, then goes to the end.  Who becomes     *)
(* runnable joins at the end; who blocks or exits leaves from the front.   *)
(* The machine stops when nobody is left.  (kern/sched.c:5, "a round-robin *)
(* scheduling to select a runnable env").                                  *)
(***************************************************************************)
EXTENDS Integers, Sequences

CONSTANTS Env, Pri

VARIABLES runq,   \* the runnable environments; the first one runs
          pri,    \* [Env -> slices per turn]
          left,   \* slices left of the running environment's turn
          phase   \* "boot", "run" or "stop"

vars == <<runq, pri, left, phase>>

In(q) == { q[i] : i \in DOMAIN q }

Init == /\ runq = <<>>
        /\ pri = [e \in Env |-> 0]
        /\ left = 0
        /\ phase = "boot"

(* The turn of the first environment of q begins, if there is one. *)
Turn(q) ==
    /\ runq' = q
    /\ left' = IF q = <<>> THEN 0 ELSE pri[Head(q)]
    /\ phase' = IF q = <<>> THEN "stop" ELSE "run"
    /\ UNCHANGED pri

Create(e, p) ==
    /\ phase = "boot" /\ e \notin In(runq)
    /\ runq' = <<e>> \o runq
    /\ pri' = [pri EXCEPT ![e] = p]
    /\ UNCHANGED <<left, phase>>

Start == phase = "boot" /\ Turn(runq)

Tick ==
    /\ phase = "run"
    /\ IF left > 1
       THEN left' = left - 1 /\ UNCHANGED <<runq, pri, phase>>
       ELSE Turn(Append(Tail(runq), Head(runq)))

Yield == phase = "run" /\ Turn(Append(Tail(runq), Head(runq)))

Leave == phase = "run" /\ Turn(Tail(runq))

(* A new environment inherits the priority of the one that makes it. *)
Inherit(e) ==
    /\ phase = "run" /\ e \notin In(runq)
    /\ pri' = [pri EXCEPT ![e] = pri[Head(runq)]]
    /\ UNCHANGED <<runq, left, phase>>

Join(e) ==
    /\ phase = "run" /\ e \notin In(runq)
    /\ runq' = Append(runq, e)
    /\ UNCHANGED <<pri, left, phase>>

Next == \/ Start \/ Tick \/ Yield \/ Leave
        \/ \E e \in Env : Inherit(e) \/ Join(e)
        \/ \E e \in Env, p \in Pri : Create(e, p)

SafeSpec == Init /\ [][Next]_vars

Spec == SafeSpec /\ WF_vars(Start \/ Tick)
=============================================================================
