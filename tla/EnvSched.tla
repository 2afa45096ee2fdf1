------------------------------ MODULE EnvSched ------------------------------
(***************************************************************************)
(* The process core of the kernel: the table of environments and its free  *)
(* list, ASIDs and environment ids (kern/env.c), the round-robin scheduler *)
(* (kern/sched.c), and the system calls that create, start, stop, destroy  *)
(* and connect environments (kern/syscall_all.c).                          *)
(*                                                                         *)
(* The machine has one hart and the kernel runs with interrupts disabled,  *)
(* so a trap (a system call or a timer interrupt) is one atomic step of    *)
(* the model, from the trap to the return to user mode.  Between two traps *)
(* the current environment computes in user mode, which changes nothing    *)
(* here.  A panic (and a failed assert) halts the machine.                 *)
(*                                                                         *)
(* Left out: the saved registers, the address spaces (the page a message   *)
(* carries included) and env_runs, which no action here reads.             *)
(***************************************************************************)
EXTENDS Tailq, FiniteSets

CONSTANTS NENV,     \* slots of envs[] (1024 in include/env.h)
          NASID,    \* address space identifiers (64 in kern/env.c)
          GenMod,   \* values of an envid's generation part: 2^21 in the code
          Pri,      \* the priorities given to ENV_CREATE_PRIORITY
          MaxGen    \* BOUND: calls of mkenvid in a behaviour

ASSUME SizeAssumption == /\ NENV \in Nat \ {0}
                         /\ NASID \in Nat \ {0}
                         /\ GenMod \in Nat \ {0}
                         /\ MaxGen \in Nat
ASSUME PriAssumption  == Pri \subseteq Nat \ {0}

Env == 0..NENV - 1

ASSUME PtrAssumption  == QHead \notin Env /\ Null \notin Env

(* An envid is (++i << 11) | (e - envs): the low bits are the slot, the     *)
(* rest is the counter, cut to the 21 bits that are left of a u_int.        *)
Id   == (0..GenMod - 1) \X Env
Zero == <<0, 0>>                     \* the envid 0: "the caller"
ENVX(id) == id[2]

VARIABLES
    env_status,       \* [Env -> status]
    env_id,           \* [Env -> Id]
    env_parent_id,    \* [Env -> Id]
    env_asid,         \* [Env -> 0..NASID-1]
    env_pri,          \* [Env -> Nat]
    env_ipc_recving,  \* [Env -> BOOLEAN]
    env_ipc_from,     \* [Env -> Id], for the value and perm written with it
    env_free_list,    \* a LIST used as a stack: its elements, first one first
    env_sched_list,   \* the TAILQ of runnable environments
    asid_bitmap,      \* the set of ASIDs in use
    gen,              \* mkenvid's static counter
    curenv,           \* the running environment, or Null
    count,            \* schedule's static counter of remaining slices
    halted,           \* the kernel has panicked
    retval            \* what the last system call returned in regs[10]

allocVars == <<env_id, env_parent_id, env_asid, env_pri, env_free_list,
               asid_bitmap, gen>>
ipcVars   == <<env_ipc_recving, env_ipc_from>>
cpuVars   == <<env_sched_list, curenv, count, halted>>
vars      == <<allocVars, ipcVars, cpuVars, env_status, retval>>

Status  == {"ENV_FREE", "ENV_RUNNABLE", "ENV_NOT_RUNNABLE"}
RetVals == {"none", "OK", "E_BAD_ENV", "E_INVAL", "E_IPC_NOT_RECV",
            "E_NO_FREE_ENV", "E_NO_MEM"}

TypeOK ==
    /\ env_status \in [Env -> Status]
    /\ env_id \in [Env -> Id]
    /\ env_parent_id \in [Env -> Id]
    /\ env_asid \in [Env -> 0..NASID - 1]
    /\ env_pri \in [Env -> Nat]
    /\ env_ipc_recving \in [Env -> BOOLEAN]
    /\ env_ipc_from \in [Env -> Id]
    /\ env_free_list \in Seq(Env)
    /\ env_sched_list \in Tailqs(Env)
    /\ asid_bitmap \subseteq 0..NASID - 1
    /\ gen \in Nat
    /\ curenv \in Env \cup {Null}
    /\ count \in Int
    /\ halted \in BOOLEAN
    /\ retval \in RetVals

-----------------------------------------------------------------------------
(* kern/env.c: identifiers.                                                *)

(* Mutant: i++ for ++i. *)
mkenvid_PostIncrement(e) == <<gen % GenMod, e>>

mkenvid(e) == <<(gen + 1) % GenMod, e>>

(* Mutant: the bit is not tested. *)
FreeAsids_Untested == 0..NASID - 1

FreeAsids == (0..NASID - 1) \ asid_bitmap

(* The first clear bit. *)
asid_alloc == CHOOSE a \in FreeAsids : \A b \in FreeAsids : a <= b

(* Mutants: no permission check; the check of sys_env_destroy everywhere.  *)
envid2env_Unchecked(id, checkperm) ==
    IF id = Zero THEN {curenv}
    ELSE { e \in {ENVX(id)} : env_status[e] # "ENV_FREE" /\ env_id[e] = id }
envid2env_LiteralOne(id, checkperm) ==
    IF id = Zero THEN {curenv}
    ELSE { e \in {ENVX(id)} :
             /\ env_status[e] # "ENV_FREE"
             /\ env_id[e] = id
             /\ checkperm # Zero => e = curenv \/ env_parent_id[e] = <<0, 1>> }

(* The environments that envid2env accepts for an id: one, or none when    *)
(* it returns -E_BAD_ENV.  checkperm is Zero when unset; its other use is  *)
(* to hold the id that the target's env_parent_id must have.               *)
envid2env(id, checkperm) ==
    IF id = Zero THEN {curenv}
    ELSE { e \in {ENVX(id)} :
             /\ env_status[e] # "ENV_FREE"
             /\ env_id[e] = id
             /\ checkperm # Zero => e = curenv \/ env_parent_id[e] = checkperm }

(* kern/env.c: env_alloc.  It takes the first free slot.  Without a free   *)
(* ASID it fails after it has given that slot, which stays on the free     *)
(* list, a new id.  It resets neither env_ipc_recving nor env_sched_link.  *)
(* (alloc_pgdir's error is dropped by env_setup_vm, which returns 0.)      *)
env_alloc_fails ==
    \/ /\ env_free_list = <<>>
       /\ UNCHANGED <<env_id, gen>>
    \/ /\ env_free_list # <<>>
       /\ FreeAsids = {}
       /\ gen < MaxGen
       /\ LET e == Head(env_free_list)
          IN  env_id' = [env_id EXCEPT ![e] = mkenvid(e)]
       /\ gen' = gen + 1

env_alloc(e, parent_id) ==
    /\ env_free_list # <<>>
    /\ e = Head(env_free_list)
    /\ FreeAsids # {}
    /\ gen < MaxGen
    /\ gen' = gen + 1
    /\ env_id' = [env_id EXCEPT ![e] = mkenvid(e)]
    /\ env_asid' = [env_asid EXCEPT ![e] = asid_alloc]
    /\ asid_bitmap' = asid_bitmap \cup {asid_alloc}
    /\ env_parent_id' = [env_parent_id EXCEPT ![e] = parent_id]
    /\ env_free_list' = Tail(env_free_list)

-----------------------------------------------------------------------------
(* kern/sched.c and kern/env.c: the scheduler.                             *)

(* Mutants: the old environment goes back even when it blocks; it goes     *)
(* back to the front.                                                      *)
Requeue_Always(q, e, status) == TAILQ_INSERT_TAIL(TAILQ_REMOVE(q, e), e)
Requeue_ToHead(q, e, status) ==
    LET r == TAILQ_REMOVE(q, e)
    IN  IF status[e] = "ENV_RUNNABLE" THEN TAILQ_INSERT_HEAD(r, e) ELSE r

(* Take e out of the queue and, if it is runnable, put it back at the end. *)
Requeue(q, e, status) ==
    LET r == TAILQ_REMOVE(q, e)
    IN  IF status[e] = "ENV_RUNNABLE" THEN TAILQ_INSERT_TAIL(r, e) ELSE r

(* env_run(next), or the panic of its assert or, without a next, of        *)
(* schedule; e is curenv at the call.                                      *)
env_run(next, status, e) ==
    IF next # Null /\ status[next] = "ENV_RUNNABLE"
    THEN curenv' = next /\ UNCHANGED halted
    ELSE curenv' = e /\ halted' = TRUE

(* schedule(yield), called with queue q and statuses status, and with e as *)
(* curenv: what the handler that calls it has left there.                  *)
schedule(yield, q, e, status) ==
    LET pick == \/ yield
                \/ count - 1 = 0
                \/ e = Null
                \/ status[e] # "ENV_RUNNABLE"
        r    == IF pick /\ e # Null THEN Requeue(q, e, status) ELSE q
        next == IF pick THEN TAILQ_FIRST(r) ELSE e
    IN  /\ env_sched_list' = r
        /\ count' = IF pick /\ next # Null THEN env_pri[next] ELSE count - 1
        /\ env_run(next, status, e)

(* kern/exception.c: a timer interrupt; the first one starts the first     *)
(* environment.                                                            *)
handle_interrupt ==
    /\ ~halted
    /\ schedule(FALSE, env_sched_list, curenv, env_status)
    /\ retval' = "none"
    /\ UNCHANGED <<allocVars, ipcVars, env_status>>

(* kern/env.c: an environment made by mips_init, before the first tick.    *)
(* init.c creates a handful: env_alloc's return value is not looked at.    *)
env_create(pri) ==
    /\ ~halted
    /\ curenv = Null
    /\ \E e \in Env :
         /\ env_alloc(e, Zero)
         /\ env_pri' = [env_pri EXCEPT ![e] = pri]
         /\ env_status' = [env_status EXCEPT ![e] = "ENV_RUNNABLE"]
         /\ env_sched_list' = TAILQ_INSERT_HEAD(env_sched_list, e)
    /\ UNCHANGED <<ipcVars, curenv, count, halted, retval>>

-----------------------------------------------------------------------------
(* kern/syscall_all.c: the system calls, made by curenv.                   *)

InSyscall == ~halted /\ curenv # Null

(* A system call that returns r to its caller and switches to no other.    *)
Return(r) == InSyscall /\ retval' = r /\ UNCHANGED cpuVars

sys_yield ==
    /\ InSyscall
    /\ schedule(TRUE, env_sched_list, curenv, env_status)
    /\ retval' = "none"
    /\ UNCHANGED <<allocVars, ipcVars, env_status>>

(* The literal 1 that sys_env_destroy passes for checkperm, as an id.      *)
One == <<0, 1>>

(* env_destroy(e): env_free, then schedule when e was running. *)
env_destroy(e) ==
    LET status == [env_status EXCEPT ![e] = "ENV_FREE"]
        q      == TAILQ_REMOVE(env_sched_list, e)
    IN  /\ env_status' = status
        /\ asid_bitmap' = asid_bitmap \ {env_asid[e]}
        /\ env_free_list' = <<e>> \o env_free_list
        /\ IF e = curenv
           THEN schedule(TRUE, q, Null, status) /\ retval' = "none"
           ELSE /\ env_sched_list' = q
                /\ retval' = "OK"
                /\ UNCHANGED <<curenv, count, halted>>
        /\ UNCHANGED <<env_id, env_parent_id, env_asid, env_pri, gen>>

sys_env_destroy(id) ==
    /\ InSyscall
    /\ \/ \E e \in envid2env(id, One) : env_destroy(e)
       \/ /\ envid2env(id, One) = {}
          /\ Return("E_BAD_ENV")
          /\ UNCHANGED <<allocVars, env_status>>
    /\ UNCHANGED ipcVars

sys_exofork ==
    /\ InSyscall
    /\ \/ \E e \in Env :
            /\ env_alloc(e, env_id[curenv])
            /\ env_status' = [env_status EXCEPT ![e] = "ENV_NOT_RUNNABLE"]
            /\ env_pri' = [env_pri EXCEPT ![e] = env_pri[curenv]]
            /\ Return("OK")
       \/ /\ env_alloc_fails
          /\ Return("E_NO_FREE_ENV")
          /\ UNCHANGED <<env_parent_id, env_asid, env_pri, env_free_list,
                         asid_bitmap, env_status>>
    /\ UNCHANGED ipcVars

(* The status argument is checked first: any other value is -E_INVAL.      *)
sys_set_env_status(id, status) ==
    /\ InSyscall
    /\ \/ \E e \in envid2env(id, env_id[curenv]) :
            /\ status \in {"ENV_RUNNABLE", "ENV_NOT_RUNNABLE"}
            /\ env_sched_list' =
                 IF env_status[e] = "ENV_RUNNABLE" /\ status # "ENV_RUNNABLE"
                 THEN TAILQ_REMOVE(env_sched_list, e)
                 ELSE IF env_status[e] # "ENV_RUNNABLE" /\ status = "ENV_RUNNABLE"
                 THEN TAILQ_INSERT_TAIL(env_sched_list, e)
                 ELSE env_sched_list
            /\ env_status' = [env_status EXCEPT ![e] = status]
            /\ retval' = "OK"
            /\ UNCHANGED <<curenv, count, halted>>
       \/ /\ status \in {"ENV_RUNNABLE", "ENV_NOT_RUNNABLE"}
          /\ envid2env(id, env_id[curenv]) = {}
          /\ Return("E_BAD_ENV")
          /\ UNCHANGED env_status
       \/ /\ status \notin {"ENV_RUNNABLE", "ENV_NOT_RUNNABLE"}
          /\ Return("E_INVAL")
          /\ UNCHANGED env_status
    /\ UNCHANGED <<allocVars, ipcVars>>

(* legal: dstva is 0 or an address below UTOP. *)
sys_ipc_recv(legal) ==
    LET status == [env_status EXCEPT ![curenv] = "ENV_NOT_RUNNABLE"]
    IN  /\ InSyscall
        /\ \/ /\ legal
              /\ env_ipc_recving' = [env_ipc_recving EXCEPT ![curenv] = TRUE]
              /\ env_status' = status
              /\ schedule(TRUE, TAILQ_REMOVE(env_sched_list, curenv), curenv, status)
              /\ retval' = "none"
           \/ /\ ~legal
              /\ Return("E_INVAL")
              /\ UNCHANGED <<env_ipc_recving, env_status>>
        /\ UNCHANGED <<allocVars, env_ipc_from>>

(* page tells what srcva is: "none" (0), "illegal", "mapped", "unmapped"   *)
(* in the sender, or "nomem" (mapped, but map_page_user has no page left   *)
(* for the receiver's tables).  The receiver is updated and woken before   *)
(* the mapping is looked at.                                               *)
Pages == {"none", "illegal", "mapped", "unmapped", "nomem"}

SendResult(page) == CASE page \in {"none", "mapped"} -> "OK"
                      [] page = "unmapped"           -> "E_INVAL"
                      [] page = "nomem"              -> "E_NO_MEM"

sys_ipc_try_send(id, page) ==
    /\ InSyscall
    /\ \/ \E e \in envid2env(id, Zero) :
            /\ page # "illegal"
            /\ env_ipc_recving[e]
            /\ env_ipc_recving' = [env_ipc_recving EXCEPT ![e] = FALSE]
            /\ env_ipc_from' = [env_ipc_from EXCEPT ![e] = env_id[curenv]]
            /\ env_status' = [env_status EXCEPT ![e] = "ENV_RUNNABLE"]
            /\ env_sched_list' = TAILQ_INSERT_TAIL(env_sched_list, e)
            /\ retval' = SendResult(page)
            /\ UNCHANGED <<curenv, count, halted>>
       \/ /\ page = "illegal"
          /\ Return("E_INVAL")
          /\ UNCHANGED <<ipcVars, env_status>>
       \/ /\ page # "illegal"
          /\ \E e \in envid2env(id, Zero) : ~env_ipc_recving[e]
          /\ Return("E_IPC_NOT_RECV")
          /\ UNCHANGED <<ipcVars, env_status>>
       \/ /\ page # "illegal"
          /\ envid2env(id, Zero) = {}
          /\ Return("E_BAD_ENV")
          /\ UNCHANGED <<ipcVars, env_status>>
    /\ UNCHANGED allocVars

-----------------------------------------------------------------------------
(* After env_init: every slot free, in order; ASID 0 taken; nothing runs.  *)
Init ==
    /\ env_status = [e \in Env |-> "ENV_FREE"]
    /\ env_id = [e \in Env |-> Zero]
    /\ env_parent_id = [e \in Env |-> Zero]
    /\ env_asid = [e \in Env |-> 0]
    /\ env_pri = [e \in Env |-> 0]
    /\ env_ipc_recving = [e \in Env |-> FALSE]
    /\ env_ipc_from = [e \in Env |-> Zero]
    /\ env_free_list = [i \in 1..NENV |-> i - 1]
    /\ env_sched_list = TAILQ_INIT(Env)
    /\ asid_bitmap = {0}
    /\ gen = 0
    /\ curenv = Null
    /\ count = 0
    /\ halted = FALSE
    /\ retval = "none"

(* Any program: the system calls come in any order, with any argument.     *)
Next ==
    \/ handle_interrupt
    \/ \E p \in Pri : env_create(p)
    \/ sys_yield
    \/ \E id \in Id : sys_env_destroy(id)
    \/ sys_exofork
    \/ \E id \in Id, status \in Status : sys_set_env_status(id, status)
    \/ \E legal \in BOOLEAN : sys_ipc_recv(legal)
    \/ \E id \in Id, page \in Pages : sys_ipc_try_send(id, page)

Spec == Init /\ [][Next]_vars

-----------------------------------------------------------------------------
Runnable == { e \in Env : env_status[e] = "ENV_RUNNABLE" }
Live     == { e \in Env : env_status[e] # "ENV_FREE" }

(* kern/env.c:18, "Invariant: 'env' in 'env_sched_list' iff.               *)
(* 'env->env_status' is 'RUNNABLE'": the queue is well formed, link by     *)
(* link, and holds each runnable environment once and no other.            *)
SchedListIsRunnable ==
    \E s \in SeqsUpTo(Env, Cardinality(Env)) :
        Represents(env_sched_list, s) /\ Elements(s) = Runnable

(* kern/env.c, env_run's assert: whoever has the CPU is runnable, first in *)
(* the queue (so that only insertions at the tail can happen behind it),   *)
(* has slices left, and waits for no message.                              *)
RunningIsFirst ==
    curenv # Null /\ ~halted =>
        /\ curenv = TAILQ_FIRST(env_sched_list)
        /\ env_status[curenv] = "ENV_RUNNABLE"
        /\ count \in 1..env_pri[curenv]
        /\ ~env_ipc_recving[curenv]

(* kern/env.c, env_alloc and env_free: the free list holds the free slots, *)
(* each once, and the bitmap holds the ASIDs of the live environments, no  *)
(* two of which share one, and ASID 0.                                     *)
SlotsAndAsids ==
    /\ Injective(env_free_list)
    /\ Elements(env_free_list) = Env \ Live
    /\ asid_bitmap = {0} \cup { env_asid[e] : e \in Live }
    /\ \A e, f \in Live : env_asid[e] = env_asid[f] => e = f
    /\ \A e \in Live : env_asid[e] # 0

(* kern/env.c, mkenvid and envid2env: the id of a live environment names   *)
(* that environment, whoever asks.                                         *)
IdNamesEnv == curenv # Null => \A e \in Live : envid2env(env_id[e], Zero) = {e}

(* The kernel stops with "no runnable envs" only when that is the truth:   *)
(* everyone who is still there waits for a message or is under             *)
(* construction.                                                           *)
PanicOnlyWhenIdle == halted => Runnable = {}

(* Who stops runs itself or is a child of the caller. *)
StoppedByParent ==
    \A e \in Runnable \ Runnable' :
        \/ e = curenv
        \/ env_parent_id[e] = env_id[curenv]

(* kern/env.c:80, "the requested env must be either 'curenv' or its        *)
(* immediate child": nobody but itself and its parent makes a runnable     *)
(* environment not runnable, or frees it.                                  *)
OnlyParentStops == [][StoppedByParent]_vars
=============================================================================
