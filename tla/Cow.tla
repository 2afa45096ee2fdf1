-------------------------------- MODULE Cow --------------------------------
(***************************************************************************)
(* How a process gets its memory: a program is loaded by the kernel        *)
(* (load_icode of kern/env.c) or by spawn (user/lib/spawn.c), both with    *)
(* lib/elfloader.c, or copied on write by fork (user/lib/fork.c) with the  *)
(* page fault handler of kern/exception.c.                                 *)
(*                                                                         *)
(* An entry has the page and the bits PTE_W, PTE_COW and PTE_LIBRARY; all  *)
(* pages here have PTE_R and PTE_U.  Every system call and every memory    *)
(* access is a step of its own, so processes interleave inside fork and    *)
(* inside cow_entry.  Reference counts, tables and running out of memory   *)
(* are the subject of Pmap: here there are pages enough.                   *)
(***************************************************************************)
EXTENDS Naturals, Sequences, SequencesExt, FiniteSets

CONSTANTS
    Env, Root,
    PAGE_SIZE,
    Image,       \* the pages of a program, from 0
    StackVpn,    \* the page below USTACKTOP
    LibVpn,      \* a page marked PTE_LIBRARY, such as a descriptor
    Programs,    \* sets of segments as the linker makes them
    RunPrograms, \* BOUND: the programs that run after they are loaded
    StoreAddr,   \* BOUND: the addresses programs store to
    NPage,       \* BOUND: physical pages
    MaxNew,      \* BOUND: calls of fork and spawn
    MaxStore     \* BOUND: stores

Vpn == Image \cup {StackVpn, LibVpn}
Addr == {v * PAGE_SIZE + o : v \in Vpn, o \in 0..(PAGE_SIZE - 1)}
Page == 1..NPage
LibPage == 1     \* the page that is mapped at LibVpn
Stored == 9      \* the value that programs store
PageOf(a) == a \div PAGE_SIZE
Off(a) == a % PAGE_SIZE

ASSUME CowAssumption ==
    /\ IsFiniteSet(Env) /\ Root \in Env /\ PAGE_SIZE \in Nat \ {0} /\ NPage \in Nat
    /\ IsFiniteSet(Image) /\ Image \subseteq Nat
    /\ StackVpn \in Nat \ Image /\ LibVpn \in Nat \ (Image \cup {StackVpn})
    /\ RunPrograms \subseteq Programs /\ StoreAddr \subseteq Addr
    /\ NPage > Cardinality(Env) * (Cardinality(Vpn) + 1)

VARIABLES
    prog,     \* the program, a sequence of segments
    data,     \* [Page -> the bytes of the page]
    pte,      \* [Env -> [Vpn -> entry]]
    ucow,     \* [Env -> the page mapped at UCOW, or 0]
    status,   \* [Env -> "none", "new" (exofork) or "run"]
    st,       \* [Env -> the store that is under way]
    fk,       \* [Env -> the fork that is under way]
    left      \* the forks, spawns and stores that the bounds leave

vars == <<prog, data, pte, ucow, status, st, fk, left>>

ZeroPage == [o \in 0..(PAGE_SIZE - 1) |-> 0]
NoPte == [pg |-> 0, w |-> FALSE, cow |-> FALSE, lib |-> FALSE]
NoStore == [pc |-> "none", a |-> 0]
NoFork == [child |-> Root, vpn |-> 0, half |-> FALSE, on |-> FALSE]

Init ==
    /\ prog \in Programs
    /\ data = [p \in Page |-> ZeroPage]
    /\ pte = [e \in Env |-> [v \in Vpn |-> NoPte]]
    /\ ucow = [e \in Env |-> 0]
    /\ status = [e \in Env |-> "none"]
    /\ st = [e \in Env |-> NoStore]
    /\ fk = [e \in Env |-> NoFork]
    /\ left = [new |-> MaxNew, stores |-> MaxStore]

Free == Page \ ({LibPage} \cup {pte[e][v].pg : e \in Env, v \in Vpn} \cup {ucow[e] : e \in Env})
page_alloc == CHOOSE p \in Free : TRUE

\* The bytes of a page that is not mapped are never read (page_alloc clears
\* it): the model forgets them.
Forget(p) == data' = [q \in Page |-> IF q \in p \ {LibPage} THEN ZeroPage ELSE data[q]]
Mappers(p) == {x \in Env \X Vpn : pte[x[1]][x[2]].pg = p}

Spend(what) == left[what] > 0 /\ left' = [left EXCEPT ![what] = @ - 1]

----------------------------------------------------------------------------
(***************************************************************************)
(* The loader.  A segment ph has the address va, the bytes bin in the file *)
(* and the size sg in memory; w is PF_W.  A memory that is being loaded is *)
(* a function from pages to contents, NoPage where nothing is mapped.      *)
(***************************************************************************)
NoPage == [w |-> FALSE, bytes |-> <<>>]
MinOf(a, b) == IF a < b THEN a ELSE b
Steps(from, to) == IF to > from THEN (to - from + PAGE_SIZE - 1) \div PAGE_SIZE ELSE 0

\* The calls of the mapper: where, from which byte of the segment (the size of
\* the file part stands for src = NULL) and how many bytes.
elf_load_seg(ph) ==
    LET offset == Off(ph.va)
        size == Len(ph.bin)
        head == MinOf(size, PAGE_SIZE - offset)
        first == IF offset # 0 THEN head ELSE 0
        n == Steps(first, size)
        rest == first + n * PAGE_SIZE
        call(i, len) == [at |-> ph.va + i, src |-> i, len |-> len, ph |-> ph]
    IN  (IF offset # 0 THEN <<call(0, head)>> ELSE <<>>)
        \o [k \in 1..n |-> LET i == first + (k - 1) * PAGE_SIZE IN call(i, MinOf(size - i, PAGE_SIZE))]
        \o [k \in 1..Steps(rest, ph.sg) |-> call(rest + (k - 1) * PAGE_SIZE, 0)]

\* memcpy of the call's bytes to its place in a page.
Filled(bytes, c) ==
    [o \in 0..(PAGE_SIZE - 1) |->
        IF o \in Off(c.at)..(Off(c.at) + c.len - 1) THEN c.ph.bin[c.src + o - Off(c.at) + 1] ELSE bytes[o]]

\* The kernel keeps a page that is mapped, with its permissions.
load_icode_mapper(m, c) ==
    LET v == PageOf(c.at)
        old == IF m[v] # NoPage THEN m[v] ELSE [w |-> c.ph.w, bytes |-> ZeroPage]
    IN  [m EXCEPT ![v] = [old EXCEPT !.bytes = Filled(@, c)]]

\* spawn maps a new page each time, over the one that may be there.
spawn_mapper(m, c) ==
    [m EXCEPT ![PageOf(c.at)] = [w |-> c.ph.w, bytes |-> Filled(ZeroPage, c)]]

Pieces(p) == FlattenSeq([i \in 1..Len(p) |-> elf_load_seg(p[i])])
NoMemory == [v \in Image |-> NoPage]
load_icode(p) == FoldLeft(load_icode_mapper, NoMemory, Pieces(p))
load_spawn(p) == FoldLeft(spawn_mapper, NoMemory, Pieces(p))

\* What the file describes: the reference for both.
Described(p) ==
    [a \in Addr |->
        LET in == {i \in 1..Len(p) : a \in p[i].va..(p[i].va + Len(p[i].bin) - 1)}
        IN  IF in = {} THEN 0 ELSE LET i == CHOOSE i \in in : TRUE IN p[i].bin[a - p[i].va + 1]]

\* user.lds starts every segment at a page boundary.
Aligned(p) == \A i \in 1..Len(p) : Off(p[i].va) = 0

\* A loaded memory m is what the file describes, and 0 elsewhere.
Loads(p, m) ==
    /\ m \in [Image -> [w : BOOLEAN, bytes : [0..(PAGE_SIZE - 1) -> Nat]] \cup {NoPage}]
    /\ \A a \in Addr : PageOf(a) # LibVpn =>
          Described(p)[a] = IF PageOf(a) \in Image /\ m[PageOf(a)] # NoPage
                            THEN m[PageOf(a)].bytes[Off(a)] ELSE 0

\* What the refinement below asks of the loaders.
LoadsRight == \A p \in Programs : Loads(p, load_icode(p)) /\ (Aligned(p) => Loads(p, load_spawn(p)))

\* Physical pages for the pages that are used; the stack is not of the Image.
Homes(used) == CHOOSE f \in [used -> Free] : \A u, v \in used : f[u] = f[v] => u = v

Row(m, used, pg) ==
    [v \in Vpn |->
        IF v = LibVpn THEN [pg |-> LibPage, w |-> TRUE, cow |-> FALSE, lib |-> TRUE]
        ELSE IF v \in used THEN [pg |-> pg[v], w |-> v \notin Image \/ m[v].w, cow |-> FALSE, lib |-> FALSE]
        ELSE NoPte]

PlaceAt(e, m, used, pg) ==
    /\ data' = [p \in Page |->
                   IF \E v \in used : pg[v] = p
                   THEN LET v == CHOOSE v \in used : pg[v] = p
                        IN  IF v \in Image THEN m[v].bytes ELSE ZeroPage
                   ELSE data[p]]
    /\ pte' = [pte EXCEPT ![e] = Row(m, used, pg)]

\* A loaded memory m is mapped, with a stack and the library page.
Placed(e, m, stack) ==
    LET used == {v \in Image : m[v] # NoPage} \cup stack
    IN  PlaceAt(e, m, used, Homes(used))

\* env_create: the kernel loads the first process.
env_create ==
    /\ status = [e \in Env |-> "none"]
    /\ Placed(Root, load_icode(prog), {})
    /\ status' = [status EXCEPT ![Root] = "run"]
    /\ UNCHANGED <<prog, ucow, st, fk, left>>

Quiet(e) == status[e] = "run" /\ st[e].pc = "none" /\ ~fk[e].on

\* spawn works on a child that does not run and on its own UTEMP: nobody sees
\* its steps.  init_stack gives the child a page; PTE_LIBRARY pages are shared.
spawn(e, c) ==
    /\ Quiet(e) /\ status[c] = "none" /\ Aligned(prog)
    /\ Placed(c, load_spawn(prog), {StackVpn})
    /\ status' = [status EXCEPT ![c] = "run"]
    /\ Spend("new")
    /\ UNCHANGED <<prog, ucow, st, fk>>

----------------------------------------------------------------------------
(***************************************************************************)
(* fork.                                                                   *)
(***************************************************************************)
Order(v) == Cardinality({u \in Vpn : u < v})
VpnAt(i) == CHOOSE v \in Vpn : Order(v) = i

\* syscall_exofork: the child has an empty memory and does not run.
fork(e, c) ==
    /\ prog \in RunPrograms
    /\ Quiet(e) /\ status[c] = "none"
    /\ status' = [status EXCEPT ![c] = "new"]
    /\ fk' = [fk EXCEPT ![e] = [child |-> c, vpn |-> 0, half |-> FALSE, on |-> TRUE]]
    /\ Spend("new")
    /\ UNCHANGED <<prog, data, pte, ucow, st>>

CowOf(x) == [x EXCEPT !.w = FALSE, !.cow = TRUE]

\* Mutant of duppage: the parent's entry is changed before the child's.
duppage_ParentFirst(e) ==
    /\ fk[e].on /\ st[e].pc = "none" /\ fk[e].vpn < Cardinality(Vpn)
    /\ LET v == VpnAt(fk[e].vpn)
           x == pte[e][v]
           c == fk[e].child
       IN  \/ /\ x.w /\ ~x.lib /\ ~fk[e].half
              /\ pte' = [pte EXCEPT ![e][v] = CowOf(x)]
              /\ fk' = [fk EXCEPT ![e].half = TRUE]
           \/ /\ fk[e].half
              /\ pte' = [pte EXCEPT ![c][v] = CowOf(x)]
              /\ fk' = [fk EXCEPT ![e].half = FALSE, ![e].vpn = @ + 1]
           \/ /\ (~x.w \/ x.lib) /\ ~fk[e].half
              /\ pte' = [pte EXCEPT ![c][v] = x]
              /\ fk' = [fk EXCEPT ![e].vpn = @ + 1]
    /\ UNCHANGED <<prog, data, ucow, status, st, left>>

\* duppage on the next page.  A writable page that is not PTE_LIBRARY is mapped
\* copy on write in the child, then in the parent; any other as it is (a page
\* that is not mapped is passed over).
duppage(e) ==
    /\ fk[e].on /\ st[e].pc = "none" /\ fk[e].vpn < Cardinality(Vpn)
    /\ LET v == VpnAt(fk[e].vpn)
           x == pte[e][v]
           c == fk[e].child
       IN  \/ /\ x.w /\ ~x.lib /\ ~fk[e].half
              /\ pte' = [pte EXCEPT ![c][v] = CowOf(x)]
              /\ fk' = [fk EXCEPT ![e].half = TRUE]
           \/ /\ fk[e].half
              /\ pte' = [pte EXCEPT ![e][v] = CowOf(x)]
              /\ fk' = [fk EXCEPT ![e].half = FALSE, ![e].vpn = @ + 1]
           \/ /\ (~x.w \/ x.lib) /\ ~fk[e].half
              /\ pte' = [pte EXCEPT ![c][v] = x]
              /\ fk' = [fk EXCEPT ![e].vpn = @ + 1]
    /\ UNCHANGED <<prog, data, ucow, status, st, left>>

\* syscall_set_env_status(child, ENV_RUNNABLE).
fork_end(e) ==
    /\ fk[e].on /\ st[e].pc = "none" /\ fk[e].vpn = Cardinality(Vpn)
    /\ status' = [status EXCEPT ![fk[e].child] = "run"]
    /\ fk' = [fk EXCEPT ![e] = NoFork]
    /\ UNCHANGED <<prog, data, pte, ucow, st, left>>

----------------------------------------------------------------------------
(***************************************************************************)
(* A store, with the faults it meets.  Inside fork it is one to the stack. *)
(***************************************************************************)
\* A store to a read-only page makes it writable (fault_write): in a page that
\* fork left shared both processes would see it.  Programs do not do that.
WouldShow(e, v) ==
    LET x == pte[e][v]
    IN  x.pg # 0 /\ ~x.w /\ ~x.cow /\ Cardinality(Mappers(x.pg)) > 1

BeginStore(e, a) ==
    /\ prog \in RunPrograms
    /\ status[e] = "run" /\ st[e].pc = "none"
    /\ fk[e].on => PageOf(a) = StackVpn
    /\ ~WouldShow(e, PageOf(a))
    /\ data[LibPage] = ZeroPage \/ PageOf(a) # LibVpn
    /\ st' = [st EXCEPT ![e] = [pc |-> "try", a |-> a]]
    /\ Spend("stores")
    /\ UNCHANGED <<prog, data, pte, ucow, status, fk>>

Target(e) == pte[e][PageOf(st[e].a)]
At(e, stage) == st[e].pc = stage
Goto(e, stage) == st' = [st EXCEPT ![e].pc = stage]

Store(e) ==
    /\ At(e, "try") /\ Target(e).pg # 0 /\ Target(e).w
    /\ data' = [data EXCEPT ![Target(e).pg][Off(st[e].a)] = Stored]
    /\ st' = [st EXCEPT ![e] = NoStore]
    /\ UNCHANGED <<prog, pte, ucow, status, fk, left>>

\* handle_exception: nothing is mapped there.
fault_alloc(e) ==
    /\ At(e, "try") /\ Target(e).pg = 0
    /\ pte' = [pte EXCEPT ![e][PageOf(st[e].a)] = [NoPte EXCEPT !.pg = page_alloc, !.w = TRUE]]
    /\ data' = [data EXCEPT ![page_alloc] = ZeroPage]
    /\ UNCHANGED <<prog, ucow, status, st, fk, left>>

\* handle_exception: an entry that is only not writable is made so.
fault_write(e) ==
    /\ At(e, "try") /\ Target(e).pg # 0 /\ ~Target(e).w /\ ~Target(e).cow
    /\ pte' = [pte EXCEPT ![e][PageOf(st[e].a)].w = TRUE]
    /\ UNCHANGED <<prog, data, ucow, status, st, fk, left>>

\* Mutant of fault_cow: the process goes back to the store.
fault_cow_Again(e) ==
    /\ At(e, "try") /\ Target(e).pg # 0 /\ ~Target(e).w /\ Target(e).cow
    /\ Goto(e, "try")
    /\ UNCHANGED <<prog, data, pte, ucow, status, fk, left>>

\* handle_exception: a copy-on-write page; the process goes on in cow_entry.
fault_cow(e) ==
    /\ At(e, "try") /\ Target(e).pg # 0 /\ ~Target(e).w /\ Target(e).cow
    /\ Goto(e, "alloc")
    /\ UNCHANGED <<prog, data, pte, ucow, status, fk, left>>

\* cow_entry: a page at UCOW, a copy, the copy mapped, UCOW unmapped.
cow_alloc(e) ==
    /\ At(e, "alloc") /\ Goto(e, "copy")
    /\ ucow' = [ucow EXCEPT ![e] = page_alloc]
    /\ data' = [data EXCEPT ![page_alloc] = ZeroPage]
    /\ UNCHANGED <<prog, pte, status, fk, left>>

cow_copy(e) ==
    /\ At(e, "copy") /\ Goto(e, "map")
    /\ data' = [data EXCEPT ![ucow[e]] = data[Target(e).pg]]
    /\ UNCHANGED <<prog, pte, ucow, status, fk, left>>

cow_map(e) ==
    /\ At(e, "map") /\ Goto(e, "unmap")
    /\ pte' = [pte EXCEPT ![e][PageOf(st[e].a)] = [pg |-> ucow[e], w |-> TRUE, cow |-> FALSE, lib |-> @.lib]]
    /\ Forget({p \in Page : Mappers(p) = {<<e, PageOf(st[e].a)>>}})
    /\ UNCHANGED <<prog, ucow, status, fk, left>>

cow_unmap(e) ==
    /\ At(e, "unmap") /\ Goto(e, "try")
    /\ ucow' = [ucow EXCEPT ![e] = 0]
    /\ UNCHANGED <<prog, data, pte, status, fk, left>>

\* env_free.
exit(e) ==
    /\ prog \in RunPrograms /\ Quiet(e)
    /\ status' = [status EXCEPT ![e] = "none"]
    /\ pte' = [pte EXCEPT ![e] = [v \in Vpn |-> NoPte]]
    /\ Forget({p \in Page : Mappers(p) # {} /\ Mappers(p) \subseteq {e} \X Vpn})
    /\ UNCHANGED <<prog, ucow, st, fk, left>>

----------------------------------------------------------------------------
Fault(e) == fault_alloc(e) \/ fault_write(e) \/ fault_cow(e)
cow_entry(e) == cow_alloc(e) \/ cow_copy(e) \/ cow_map(e) \/ cow_unmap(e)
Running(e) == Store(e) \/ Fault(e) \/ cow_entry(e)

Next ==
    \/ env_create
    \/ \E e \in Env : Running(e) \/ duppage(e) \/ fork_end(e) \/ exit(e)
    \/ \E e, c \in Env : fork(e, c) \/ spawn(e, c)
    \/ \E e \in Env, a \in StoreAddr : BeginStore(e, a)

\* A process that can run is scheduled again.
Spec == Init /\ [][Next]_vars /\ \A e \in Env : WF_vars(Running(e))

----------------------------------------------------------------------------
\* A load: what is not mapped reads as 0, once the fault handler is done.
Load(e, a) == IF pte[e][PageOf(a)].pg = 0 THEN 0 ELSE data[pte[e][PageOf(a)].pg][Off(a)]

Parents(c) == {e \in Env : fk[e].on /\ fk[e].child = c}

\* The pages of a child that fork has not finished with do not count yet.
Seen(e, a) ==
    IF PageOf(a) = LibVpn /\ pte[e][LibVpn].pg = 0 THEN data[LibPage][Off(a)]
    ELSE IF \E p \in Parents(e) : Order(PageOf(a)) >= fk[p].vpn
         THEN IF PageOf(a) = LibVpn THEN data[LibPage][Off(a)] ELSE 0
    ELSE Load(e, a)

Abstract == INSTANCE Copies WITH
    Pages <- Vpn,
    Val <- {Stored},
    Lib <- {a \in Addr : PageOf(a) = LibVpn},
    Stack <- {a \in Addr : PageOf(a) = StackVpn},
    live <- {e \in Env : status[e] = "run"},
    view <- [e \in Env |-> [a \in Addr |-> Seen(e, a)]],
    image <- Described(prog)

\* Process e has mapped page v in its child c and not yet changed its own entry.
Half(e, c, v) == fk[e].on /\ fk[e].half /\ fk[e].child = c /\ Order(v) = fk[e].vpn

\* A page that two entries map, the library page apart, is at the same place of
\* two processes and nobody can write to it, but for a parent between the two
\* mappings of duppage, whose child does not run: a store never has to look
\* who else has the page (duppage, cow_entry, handle_exception).
SharedReadOnly ==
    \A e, f \in Env, u, v \in Vpn :
        /\ pte[e][v].pg \notin {0, LibPage} /\ pte[f][u].pg = pte[e][v].pg
        /\ e # f \/ u # v
        => u = v /\ (pte[e][v].w => Half(e, f, v))

\* Processes have memories of their own (module Copies): whatever is shared
\* behind them, and however fork, the copies on write, spawn and exit of
\* several processes interleave, a store changes one process's memory, or the
\* shared page of all; a child starts with its parent's memory, and a loaded
\* program is what its file describes (duppage, cow_entry, elf_load_seg).
ImplementsCopies == Abstract!Spec

\* A store that meets faults is done in the end: cow_entry returns to it with
\* a page that can be written.
StoresComplete == \A e \in Env : (st[e].pc # "none") ~> (st[e].pc = "none")
=============================================================================
