------------------------------- MODULE Pmap32 -------------------------------
(***************************************************************************)
(* The Sv32 half of kern/pmap.c (RISCV32): page tables of two levels on    *)
(* the pages of module PhysMem, and the calls that use them.               *)
(*                                                                         *)
(* The window at PAGE_TABLE shows the table of <<a, _>> at <<PPT, a>> and  *)
(* the directory at <<PPT, PPT>>.  Left out: the TLB, and the entries      *)
(* 0x1fd and 0x1fe that every directory shares with base_pgdir and that    *)
(* destroy_pgdir passes over, with the upper half of the directory.        *)
(***************************************************************************)
EXTENDS PhysMem

ASSUME Index32Assumption == UserVa \subseteq (Vpn \ {PPT}) \X Vpn

-----------------------------------------------------------------------------
L0(m, root, va) == Entry(m, root, va[1])

(* get_pa and is_mapped_page: NoPage if there is no valid entry. *)
get_pa(m, root, va) == Entry(m, L0(m, root, va), va[2])

is_mapped_page(e, va) == get_pa(mem, pgdir[e], va) # NoPage

(* The page mapped at va is given up, or the table of va is made. *)
ClearOrTable(m, root, va) ==
    LET q == get_pa(m, root, va)
    IN  IF q # NoPage THEN Drop(m, q)
        ELSE IF L0(m, root, va) # NoPage THEN m ELSE Create(m, root, va[1])

map_page(m, root, va, p) ==
    LET m1 == ClearOrTable(m, root, va)
    IN  IF get_pa(m, root, va) = p THEN m
        ELSE Then(m1, SetPte(m1, L0(m1, root, va), va[2], p))

alloc_page(m, root, va) ==
    LET m1 == ClearOrTable(m, root, va)
    IN  Then(m1, Create(m1, L0(m1, root, va), va[2]))

(* Mutant: the table is shown one entry too far. *)
SelfMap_Off(m, root, a) ==
    Then(m, [map_page(m, root, <<PPT, a + 1>>, Entry(m, root, a)) EXCEPT !.ok = TRUE])

(* A new table is also mapped into the window; whether that worked is not  *)
(* looked at.                                                              *)
SelfMap(m, root, a) == Then(m, [map_page(m, root, <<PPT, a>>, Entry(m, root, a)) EXCEPT !.ok = TRUE])

ClearOrTableUser(m, root, va) ==
    LET m1 == ClearOrTable(m, root, va)
    IN  IF L0(m, root, va) # NoPage THEN m1 ELSE SelfMap(m1, root, va[1])

map_page_user(m, root, va, p) ==
    LET m1 == ClearOrTableUser(m, root, va)
    IN  IF get_pa(m, root, va) = p THEN m
        ELSE Then(m1, SetPte(m1, L0(m1, root, va), va[2], p))

(* The page that was mapped goes before the new one is asked for. *)
alloc_page_user(m, root, va) ==
    LET m1 == ClearOrTableUser(m, root, va)
    IN  Then(m1, Create(m1, L0(m1, root, va), va[2]))

unmap_page(m, root, va) ==
    LET q == get_pa(m, root, va)
    IN  IF q = NoPage THEN m
        ELSE [Drop(m, q) EXCEPT !.pt[L0(m, root, va)][va[2]] = NoPage]

Tables(m, root) == {root} \cup ({m.pt[root][i] : i \in Vpn} \ {NoPage})

(* Mutant: the window is passed over like the shared entries below it. *)
destroy_pgdir_NotWindow(m, root) ==
    LET ts == Tables(m, root) \ {m.pt[root][PPT]}
        into(p) == Cardinality({x \in ts \X Vpn : m.pt[x[1]][x[2]] = p /\ x # <<root, PPT>>})
                   + (IF p = root THEN 1 ELSE 0)
    IN  [m EXCEPT !.ref = [p \in Page |-> (m.ref[p] - into(p)) % RefMod],
                  !.free = @ \cup {p \in Page : m.ref[p] > 0 /\ m.ref[p] <= into(p)},
                  !.pt = [t \in Page |-> IF t \in ts THEN Blank ELSE m.pt[t]]]

(* Every valid entry of every table, then the tables, then the directory:  *)
(* one reference less and the entry cleared.                               *)
destroy_pgdir(m, root) ==
    LET ts == Tables(m, root)
        into(p) == Cardinality({x \in ts \X Vpn : m.pt[x[1]][x[2]] = p})
                   + (IF p = root THEN 1 ELSE 0)
    IN  [m EXCEPT !.ref = [p \in Page |-> (m.ref[p] - into(p)) % RefMod],
                  !.free = @ \cup {p \in Page : m.ref[p] > 0 /\ m.ref[p] <= into(p)},
                  !.pt = [t \in Page |-> IF t \in ts THEN Blank ELSE m.pt[t]]]

-----------------------------------------------------------------------------
(* The callers, as in Pmap; the faults that only change permissions or     *)
(* make a page do what sys_mem_map and sys_mem_alloc do.                   *)

(* alloc_page_user over a page that others share gives up the entry's      *)
(* reference; when then no page is free, the entry is left without it.     *)
Room(e, va) == LET q == get_pa(mem, pgdir[e], va)
               IN  (q # NoPage /\ mem.free = {}) => mem.ref[q] = 1

env_setup_vm(e) ==
    /\ ~halted /\ e \notin Alive
    /\ \/ /\ mem.free = {}
          /\ halted' = TRUE /\ UNCHANGED <<mem, pgdir, gap>>
       \/ /\ mem.free # {}
          /\ LET p == page_alloc(mem)
             IN  /\ Leaves([map_page(alloc_pgdir(Fresh), p, <<PPT, PPT>>, p) EXCEPT !.ok = TRUE])
                 /\ pgdir' = [pgdir EXCEPT ![e] = p]
          /\ UNCHANGED halted
    /\ UNCHANGED loose

env_free(e) ==
    /\ ~halted /\ e \in Alive
    /\ Leaves(destroy_pgdir(Fresh, pgdir[e]))
    /\ pgdir' = [pgdir EXCEPT ![e] = NoPage]
    /\ UNCHANGED <<halted, loose>>

(* sys_mem_alloc and the page fault that finds nothing mapped. *)
sys_mem_alloc(e, va) ==
    /\ ~halted /\ e \in Alive
    /\ Becomes(alloc_page_user(Fresh, pgdir[e], va))
    /\ loose' = (loose \/ ~Room(e, va))

sys_mem_map(src, srcva, dst, dstva) ==
    /\ ~halted /\ {src, dst} \subseteq Alive /\ is_mapped_page(src, srcva)
    /\ Becomes(map_page_user(Fresh, pgdir[dst], dstva, get_pa(mem, pgdir[src], srcva)))
    /\ UNCHANGED loose

sys_mem_unmap(e, va) ==
    /\ ~halted /\ e \in Alive
    /\ Becomes(unmap_page(Fresh, pgdir[e], va))
    /\ UNCHANGED loose

(* sys_read_sector and sys_write_sector, which use alloc_page. *)
sys_sector(e, va) ==
    /\ ~halted /\ e \in Alive /\ ~is_mapped_page(e, va)
    /\ LET m == alloc_page(Fresh, pgdir[e], va) IN
          /\ mem' = m /\ halted' = ~m.ok
          /\ gap' = (gap \/ m.free = {} \/ L0(mem, pgdir[e], va) = NoPage)
    /\ UNCHANGED <<pgdir, loose>>

Next ==
    \/ \E e \in Env : env_setup_vm(e) \/ env_free(e)
    \/ \E e \in Env, va \in UserVa : sys_mem_alloc(e, va)
    \/ \E src, dst \in Env, srcva, dstva \in UserVa : sys_mem_map(src, srcva, dst, dstva)
    \/ \E e \in Env, va \in UserVa : sys_mem_unmap(e, va)
    \/ \E e \in Env, va \in UserVa : sys_sector(e, va)

Spec == Init /\ [][Next]_vars

-----------------------------------------------------------------------------
(* Every page that is not free is a table of a live environment or mapped  *)
(* by one, and counts as often as it is pointed to: nothing is lost or     *)
(* freed early when a directory that is mapped into itself is destroyed.   *)
CountedAndReached ==
    LET trees == UNION {Tables(mem, pgdir[e]) : e \in Alive}
    IN  /\ RefCountsPointers
        /\ loose \/ \A p \in Page \ mem.free : p \in trees \/ \E t \in trees, i \in Vpn : mem.pt[t][i] = p

(* What user code reads at PAGE_TABLE is the table in use and the          *)
(* directory, until memory runs out or a sector is read to where there was *)
(* no table.                                                               *)
WindowShowsTables ==
    loose \/ gap \/ \A e \in Alive, va \in UserVa :
        LET t == L0(mem, pgdir[e], va)
        IN  /\ t # NoPage => get_pa(mem, pgdir[e], <<PPT, va[1]>>) = t
            /\ get_pa(mem, pgdir[e], <<PPT, PPT>>) = pgdir[e]

Mapping == [x \in Env \X UserVa |-> get_pa(mem, pgdir[x[1]], x[2])]

(* A call changes the mapping of one address of one environment, or        *)
(* destroys an environment, whichever tables it makes on the way and       *)
(* whether it fails or not: no table serves two places.  (An entry without *)
(* its reference may lose its page to another call.)                       *)
OneEntryChanges ==
    [][LET changed == {x \in Env \X UserVa : Mapping[x] # Mapping'[x]}
       IN  \/ loose'
           \/ Cardinality(changed) <= 1
           \/ \E e \in Alive \ Alive' : changed \subseteq {e} \X UserVa]_vars
=============================================================================
