-------------------------------- MODULE Pmap --------------------------------
(***************************************************************************)
(* Physical pages and page tables: kern/pmap.c (the Sv39 half) with the    *)
(* code that calls it: env_setup_vm and env_free of kern/env.c, the memory *)
(* system calls of kern/syscall_all.c and the page faults of               *)
(* kern/exception.c.                                                       *)
(*                                                                         *)
(* A page directory is a tree of three levels of tables.  The functions    *)
(* named ..._user also map every table they make, read only, into the      *)
(* window at PAGE_TABLE: the table that holds the entries of <<a, b, _>>   *)
(* is mapped at <<PPT, a, b>>, the one of <<a, _, _>> at <<PPT, PPT, a>>.  *)
(*                                                                         *)
(* Left out: permission bits (no function here but the fault handler       *)
(* branches on them, and its branches are all taken), the order of         *)
(* page_free_list, the TLB, and the entries 2 and PENVS that every         *)
(* directory shares with base_pgdir and that destroy_pgdir skips.          *)
(***************************************************************************)
EXTENDS PhysMem

CONSTANTS WindowVa,   \* BOUND: the addresses in the window that fault
          UXSTACK     \* the page below UXSTACKTOP

ASSUME IndexAssumption == /\ UserVa \subseteq (Vpn \ {PPT}) \X Vpn \X Vpn
                          /\ WindowVa \subseteq {PPT} \X Vpn \X Vpn
                          /\ UXSTACK \in UserVa

-----------------------------------------------------------------------------
(* Single steps on a memory m. *)

L1(m, root, va) == Entry(m, root, va[1])
L0(m, root, va) == Entry(m, L1(m, root, va), va[2])

(* get_pa and is_mapped_page: NoPage if there is no valid entry. *)
get_pa(m, root, va) == Entry(m, L0(m, root, va), va[3])

(* A page table that is found or made, level by level; a failure stops. *)
Tables(m, root, va) ==
    LET m1 == IF L1(m, root, va) # NoPage THEN m ELSE Create(m, root, va[1])
        m2 == IF L0(m1, root, va) # NoPage THEN m1
              ELSE Create(m1, L1(m1, root, va), va[2])
    IN  Then(m1, m2)

(* Mutant: what was mapped is dropped even if it is mapped again. *)
map_page_NoSame(m, root, va, p) ==
    LET q  == get_pa(m, root, va)
        m1 == IF q # NoPage THEN Drop(m, q) ELSE Tables(m, root, va)
    IN  IF q = p THEN Drop(m, q)
        ELSE Then(m1, SetPte(m1, L0(m1, root, va), va[3], p))

map_page(m, root, va, p) ==
    LET q  == get_pa(m, root, va)
        m1 == IF q # NoPage THEN Drop(m, q) ELSE Tables(m, root, va)
    IN  IF q = p THEN m
        ELSE Then(m1, SetPte(m1, L0(m1, root, va), va[3], p))

(* Mutant: a table is not mapped into the window. *)
SelfMap_Never(m, root, va, t) == m

(* The result of the call that maps table t into the window is not looked  *)
(* at.                                                                     *)
SelfMap(m, root, va, t) == Then(m, [map_page(m, root, va, t) EXCEPT !.ok = TRUE])

(* A call that makes the middle table makes the lower one too, without     *)
(* looking whether the window's own mapping has just made it.              *)
TablesUser(m, root, va) ==
    LET m1 == IF L1(m, root, va) # NoPage THEN m
              ELSE LET n == Create(m, root, va[1])
                   IN  SelfMap(n, root, <<PPT, PPT, va[1]>>, L1(n, root, va))
        m2 == IF L0(m, root, va) # NoPage THEN m1
              ELSE LET n == Create(m1, L1(m1, root, va), va[2])
                   IN  SelfMap(n, root, <<PPT, va[1], va[2]>>, L0(n, root, va))
    IN  Then(m1, m2)

map_page_user(m, root, va, p) ==
    LET q  == get_pa(m, root, va)
        m1 == IF q # NoPage THEN Drop(m, q) ELSE TablesUser(m, root, va)
    IN  IF q = p THEN m
        ELSE Then(m1, SetPte(m1, L0(m1, root, va), va[3], p))

(* The page that was mapped goes before the new one is asked for. *)
alloc_page_user(m, root, va) ==
    LET q  == get_pa(m, root, va)
        m1 == IF q # NoPage THEN Drop(m, q) ELSE TablesUser(m, root, va)
    IN  Then(m1, Create(m1, L0(m1, root, va), va[3]))

(* Its callers see to it that nothing is mapped at va. *)
alloc_page(m, root, va) ==
    LET m1 == Tables(m, root, va)
    IN  Then(m1, Create(m1, L0(m1, root, va), va[3]))

unmap_page(m, root, va) ==
    LET q == get_pa(m, root, va)
    IN  IF q = NoPage THEN m
        ELSE [Drop(m, q) EXCEPT !.pt[L0(m, root, va)][va[3]] = NoPage]

(* The tables of a directory. *)
TreeTables(m, root) ==
    LET l1 == {m.pt[root][i] : i \in Vpn} \ {NoPage}
        l0 == {m.pt[t][i] : t \in l1, i \in Vpn} \ {NoPage}
    IN  {root} \cup l1 \cup l0

(* Mutant: the window is passed over like the shared entries 2 and PENVS. *)
destroy_pgdir_NotWindow(m, root) ==
    LET trees == TreeTables([m EXCEPT !.pt[root][PPT] = NoPage], root)
        into(p) == Cardinality({x \in trees \X Vpn :
                                   m.pt[x[1]][x[2]] = p /\ x # <<root, PPT>>})
                   + (IF p = root THEN 1 ELSE 0)
    IN  [m EXCEPT !.ref = [p \in Page |-> (m.ref[p] - into(p)) % RefMod],
                  !.free = @ \cup {p \in Page : m.ref[p] > 0 /\ m.ref[p] <= into(p)},
                  !.pt = [t \in Page |-> IF t \in trees THEN Blank ELSE m.pt[t]]]

(* Every valid entry of the tree, level by level, and then the directory   *)
(* itself: one reference less and the entry cleared.                       *)
destroy_pgdir(m, root) ==
    LET trees == TreeTables(m, root)
        into(p) == Cardinality({x \in trees \X Vpn : m.pt[x[1]][x[2]] = p})
                   + (IF p = root THEN 1 ELSE 0)
    IN  [m EXCEPT !.ref = [p \in Page |-> (m.ref[p] - into(p)) % RefMod],
                  !.free = @ \cup {p \in Page : m.ref[p] > 0 /\ m.ref[p] <= into(p)},
                  !.pt = [t \in Page |-> IF t \in trees THEN Blank ELSE m.pt[t]]]

-----------------------------------------------------------------------------
(* The callers.  Any environment that is alive may be the one they work    *)
(* on: envid2env's choice is the subject of EnvSched.                      *)

mapped(e, va) == get_pa(mem, pgdir[e], va) # NoPage

(* alloc_page_user over a page that others share gives up the entry's      *)
(* reference; when then no page is free, the entry is left without it.     *)
Room(e, va) == LET q == get_pa(mem, pgdir[e], va)
               IN  (q # NoPage /\ mem.free = {}) => mem.ref[q] = 1

(* A fault where the window would show the window's own tables, if         *)
(* env_setup_vm ran out of memory before it made them, makes a table that  *)
(* the mapping of another one has just made.                               *)
OwnTables(e, va) == va[2] = PPT => L0(mem, pgdir[e], va) # NoPage

(* env_setup_vm: the result of alloc_pgdir is not looked at; without a     *)
(* page, map_page is called for the physical address 0 and panics.         *)
env_setup_vm(e) ==
    /\ ~halted /\ e \notin Alive
    /\ \/ /\ mem.free = {}
          /\ halted' = TRUE /\ UNCHANGED <<mem, pgdir, gap>>
       \/ /\ mem.free # {}
          /\ LET p == page_alloc(mem)
             IN  /\ Leaves(SelfMap(alloc_pgdir(Fresh), p, <<PPT, PPT, PPT>>, p))
                 /\ pgdir' = [pgdir EXCEPT ![e] = p]
          /\ UNCHANGED halted
    /\ UNCHANGED loose

env_free(e) ==
    /\ ~halted /\ e \in Alive
    /\ Leaves(destroy_pgdir(Fresh, pgdir[e]))
    /\ pgdir' = [pgdir EXCEPT ![e] = NoPage]
    /\ UNCHANGED <<halted, loose>>

sys_mem_alloc(e, va) ==
    /\ ~halted /\ e \in Alive
    /\ Becomes(alloc_page_user(Fresh, pgdir[e], va))
    /\ loose' = (loose \/ ~Room(e, va))

(* sys_mem_map, and the end of sys_ipc_try_send. *)
sys_mem_map(src, srcva, dst, dstva) ==
    /\ ~halted /\ {src, dst} \subseteq Alive
    /\ mapped(src, srcva)
    /\ Becomes(map_page_user(Fresh, pgdir[dst], dstva, get_pa(mem, pgdir[src], srcva)))
    /\ UNCHANGED loose

sys_mem_unmap(e, va) ==
    /\ ~halted /\ e \in Alive
    /\ Becomes(unmap_page(Fresh, pgdir[e], va))
    /\ UNCHANGED loose

(* sys_read_sector and sys_write_sector make the page they work on (or two *)
(* of them, one after the other), and tables that the window does not      *)
(* show; if that fails they copy to or from the address -1.                *)
sys_sector(e, va) ==
    /\ ~halted /\ e \in Alive /\ ~mapped(e, va)
    /\ LET m == alloc_page(Fresh, pgdir[e], va) IN
          /\ mem' = m /\ halted' = ~m.ok
          /\ gap' = (gap \/ m.free = {} \/ L0(mem, pgdir[e], va) = NoPage)
    /\ UNCHANGED <<pgdir, loose>>

(* A page fault: nothing is mapped at va, or the entry does not allow a    *)
(* load (those of the window do).  An error is not looked at: the access   *)
(* faults again.  At an address below UTOP it does what sys_mem_alloc does *)
(* there, so Next has it for the window only.                              *)
fault_alloc(e, va) ==
    /\ ~halted /\ e \in Alive /\ ~mapped(e, va)
    /\ Becomes(alloc_page_user(Fresh, pgdir[e], va))
    /\ loose' = (loose \/ ~OwnTables(e, va))

(* A page fault on a copy-on-write page: the handler's stack is made and   *)
(* written to; without it the kernel writes to the address -1.             *)
fault_cow(e, va) ==
    /\ ~halted /\ e \in Alive /\ mapped(e, va)
    /\ LET m == IF mapped(e, UXSTACK) THEN Fresh
                ELSE alloc_page_user(Fresh, pgdir[e], UXSTACK)
       IN  Leaves(m) /\ halted' = ~m.ok
    /\ UNCHANGED <<pgdir, loose>>

(* A page fault that adds PTE_X or PTE_W to the entry. *)
fault_perm(e, va) ==
    /\ ~halted /\ e \in Alive /\ mapped(e, va)
    /\ Becomes(map_page(Fresh, pgdir[e], va, get_pa(mem, pgdir[e], va)))
    /\ UNCHANGED loose

Next ==
    \/ \E e \in Env : env_setup_vm(e) \/ env_free(e)
    \/ \E e \in Env, va \in UserVa : sys_mem_alloc(e, va)
    \/ \E src, dst \in Env, srcva, dstva \in UserVa : sys_mem_map(src, srcva, dst, dstva)
    \/ \E e \in Env, va \in UserVa : sys_mem_unmap(e, va)
    \/ \E e \in Env, va \in UserVa : sys_sector(e, va)
    \/ \E e \in Env, va \in WindowVa : fault_alloc(e, va)
    \/ \E e \in Env, va \in UserVa : fault_cow(e, va)
    \/ \E e \in Env, va \in UserVa : fault_perm(e, va)

Spec == Init /\ [][Next]_vars

-----------------------------------------------------------------------------
Trees == UNION {TreeTables(mem, pgdir[e]) : e \in Alive}

(* kern/env.c, env_free ("Free env e and all memory it uses"): a page that *)
(* is not free can be reached from the directory of a live environment.    *)
NoLeak == loose \/ \A p \in Page \ mem.free :
             \/ p \in Trees
             \/ \E t \in Trees, i \in Vpn : mem.pt[t][i] = p

(* A table belongs to one directory and to one place in it, and no program *)
(* has it in its own part of the address space.                            *)
TablesArePrivate ==
    \/ loose
    \/ /\ \A e, f \in Alive : e # f =>
             TreeTables(mem, pgdir[e]) \cap TreeTables(mem, pgdir[f]) = {}
       /\ \A e \in Alive, va \in UserVa : get_pa(mem, pgdir[e], va) \notin Trees
       /\ mem.free \cap Trees = {}

(* What fork and the file server read at PAGE_TABLE: the window shows the  *)
(* very table that translates the address, until memory runs out or a      *)
(* sector is read to where there was no table.                             *)
WindowShowsTables ==
    loose \/ gap \/ \A e \in Alive, va \in UserVa :
        LET t == L0(mem, pgdir[e], va)
        IN  t # NoPage => get_pa(mem, pgdir[e], <<PPT, va[1], va[2]>>) = t
=============================================================================
