------------------------------- MODULE EnvLib -------------------------------
(***************************************************************************)
(* The kernel of EnvSched as the user library drives it (user/lib).        *)
(*                                                                         *)
(* User programs reach the process system calls through fork and spawn,    *)
(* ipc_send and ipc_recv, syscall_yield (from ipc_send, wait and the       *)
(* pipes) and exit, which user_panic calls as well.  A program runs these  *)
(* in any order, but fork and spawn make their system calls in a fixed     *)
(* one, on a child whose id only they know:                                *)
(*     child = syscall_exofork(); ... map pages, set the trap frame ...;   *)
(*     syscall_set_env_status(child, ENV_RUNNABLE)                         *)
(* and a timer interrupt may come between any two of them.                 *)
(***************************************************************************)
EXTENDS EnvSched

CONSTANT MayFail    \* do calls inside fork and spawn fail after exofork?

ASSUME MayFailAssumption == MayFail \in BOOLEAN

VARIABLE child      \* [Env -> the child under construction, or Zero]

libVars == <<vars, child>>

LibTypeOK == TypeOK /\ child \in [Env -> Id]

LibInit == Init /\ child = [e \in Env |-> Zero]

(* The caller is not in the middle of fork or spawn. *)
Idle == curenv # Null /\ child[curenv] = Zero

(* fork, spawn: syscall_exofork.  The child starts, when it does, with     *)
(* exofork returning 0 and so outside of fork's construction of a child.   *)
fork_exofork ==
    /\ Idle
    /\ sys_exofork
    /\ child' = IF retval' = "OK"
                THEN LET e == Head(env_free_list)
                     IN  [child EXCEPT ![curenv] = env_id'[e], ![e] = Zero]
                ELSE child

(* fork, spawn: the last call, which starts the child. *)
fork_start ==
    /\ curenv # Null /\ child[curenv] # Zero
    /\ sys_set_env_status(child[curenv], "ENV_RUNNABLE")
    /\ child' = [child EXCEPT ![curenv] = Zero]

(* spawn, err1 and err2: give the child up. *)
spawn_err ==
    /\ MayFail
    /\ curenv # Null /\ child[curenv] # Zero
    /\ sys_env_destroy(child[curenv])
    /\ child' = [child EXCEPT ![curenv] = Zero]

(* exit, at the end of main or from user_panic, even inside fork or spawn. *)
exit ==
    /\ MayFail \/ Idle
    /\ sys_env_destroy(Zero)
    /\ child' = [child EXCEPT ![curenv] = Zero]

yield == sys_yield /\ UNCHANGED child

ipc_recv == Idle /\ sys_ipc_recv(TRUE) /\ UNCHANGED child

(* One turn of ipc_send's loop.  fsipc and the file server send no page or *)
(* one they have mapped.                                                   *)
ipc_send(id, page) == Idle /\ sys_ipc_try_send(id, page) /\ UNCHANGED child

LibPages == {"none", "mapped"} \cup (IF MayFail THEN {"nomem"} ELSE {})

tick == handle_interrupt /\ UNCHANGED child

LibNext ==
    \/ \E p \in Pri : env_create(p) /\ UNCHANGED child
    \/ tick
    \/ yield
    \/ fork_exofork
    \/ fork_start
    \/ spawn_err
    \/ exit
    \/ ipc_recv
    \/ \E id \in Id, page \in LibPages : ipc_send(id, page)

LibSpec == LibInit /\ [][LibNext]_libVars

(* The timer is armed again on every return to user mode (env_run), so the *)
(* interrupt always comes; a program need not do anything.                 *)
FairLibSpec == LibSpec /\ WF_libVars(tick)

-----------------------------------------------------------------------------
(* No environment is lost: one that is live and not runnable waits for a   *)
(* message, which makes it runnable (sys_ipc_try_send), or is being built  *)
(* by a live parent that knows its id.                                     *)
NobodyLost ==
    \A e \in Live \ Runnable :
        \/ env_ipc_recving[e]
        \/ \E p \in Live : child[p] = env_id[e] /\ env_parent_id[e] = env_id[p]

(* kern/sched.c:9, "If 'yield' is set (non-zero), 'curenv' should not be   *)
(* scheduled again unless it is the only runnable env": also after         *)
(* ipc_recv and exit, where the caller must not come back at all.          *)
YieldGivesWay ==
    [][yield \/ ipc_recv \/ exit =>
         \/ halted'
         \/ curenv' # curenv
         \/ yield /\ Runnable = {curenv}]_libVars

(* Round robin: who is runnable gets the CPU. *)
EveryoneRuns ==
    \A e \in Env : e \in Runnable /\ ~halted ~> curenv = e \/ halted

(* Why SchedListIsRunnable is kept: the parts of an inductive invariant.   *)
(* An id below <<1, 0>> is never given (the counter starts at 1).          *)
Named ==
    /\ gen <= MaxGen
    /\ \A e \in Live : env_id[e][1] >= 1
    /\ \A e \in Env : env_parent_id[e] = Zero \/ env_parent_id[e][1] >= 1

FreeSlots == Injective(env_free_list) /\ Elements(env_free_list) = Env \ Live

(* Who waits for a message is not runnable, so a send inserts it once. *)
Waiting == \A e \in Env : env_ipc_recving[e] => env_status[e] = "ENV_NOT_RUNNABLE"

(* A child under construction is in the queue of nobody and has one maker. *)
Built ==
    /\ \A p \in Env : child[p] # Zero =>
         /\ env_status[ENVX(child[p])] = "ENV_NOT_RUNNABLE"
         /\ ~env_ipc_recving[ENVX(child[p])]
         /\ env_id[ENVX(child[p])] = child[p]
    /\ \A p, r \in Env : child[p] # Zero /\ child[p] = child[r] => p = r

Slices ==
    /\ \A e \in Live : env_pri[e] >= 1
    /\ curenv # Null /\ ~halted => count \in 1..env_pri[curenv]

(* s is the order in which the queue holds the runnable environments, and  *)
(* the first of them runs.                                                 *)
Order(s) ==
    /\ Represents(env_sched_list, s)
    /\ Elements(s) = Runnable
    /\ curenv # Null /\ ~halted => s # <<>> /\ curenv = s[1]
    /\ halted => s = <<>>

IInv ==
    /\ LibTypeOK
    /\ Named /\ FreeSlots /\ Waiting /\ Built /\ Slices
    /\ \E s \in SeqsUpTo(Env, Cardinality(Env)) : Order(s)

(* The scheduler with its pointers implements the round robin of SchedAbs. *)
Contents(q) == CHOOSE s \in SeqsUpTo(Env, Cardinality(Env)) : Represents(q, s)

Abs == INSTANCE SchedAbs WITH
         runq  <- Contents(env_sched_list),
         pri   <- env_pri,
         left  <- IF halted \/ curenv = Null THEN 0 ELSE count,
         phase <- IF halted THEN "stop" ELSE IF curenv = Null THEN "boot" ELSE "run"

ImplementsRoundRobin == Abs!Spec
=============================================================================
