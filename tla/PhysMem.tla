------------------------------ MODULE PhysMem ------------------------------
(***************************************************************************)
(* The physical pages of kern/pmap.c, which both page table formats use:   *)
(* the reference counts, page_free_list and the entries of the pages that  *)
(* are tables.  Modules Pmap (Sv39) and Pmap32 (Sv32) build the walks and  *)
(* the calls on them.                                                      *)
(*                                                                         *)
(* Every pointer to a page, from an entry or from env_pgdir, counts in     *)
(* pp_ref; a page goes back to page_free_list when pp_ref gets to 0.  The  *)
(* kernel runs with interrupts off, so every call is one step.  What a     *)
(* step does to memory is a function of the memory, put together from      *)
(* page_alloc and the writes of single entries.                            *)
(***************************************************************************)
EXTENDS Integers, FiniteSets

CONSTANTS Env, Page, NoPage,
          Vpn,        \* the indices of a table that are used
          PPT,        \* the top level index of the window
          UserVa,     \* BOUND: the addresses below UTOP that are used
          RefMod      \* values of a u_short (2^16)

ASSUME PageAssumption == IsFiniteSet(Page) /\ NoPage \notin Page /\ PPT \in Vpn
ASSUME FiniteAssumption == IsFiniteSet(Env) /\ IsFiniteSet(Vpn)
ASSUME RefAssumption == RefMod \in Nat /\ RefMod > 2

VARIABLES mem,     \* [ref: pp_ref; free: page_free_list; pt: tables; ok: last result]
          pgdir,   \* env_pgdir, NoPage for 0
          halted,  \* has the kernel panicked?
          gap,     \* may the window lack a table? (a history variable)
          loose    \* has a call left an entry without its reference, or overwritten
                   \* one with it? (a history variable)

vars == <<mem, pgdir, halted, gap, loose>>

Blank == [i \in Vpn |-> NoPage]

(* page_init: the pages that the kernel image does not occupy. *)
Init ==
    /\ mem = [ref |-> [p \in Page |-> 0], free |-> Page,
              pt |-> [p \in Page |-> Blank], ok |-> TRUE]
    /\ pgdir = [e \in Env |-> NoPage]
    /\ halted = FALSE /\ gap = FALSE /\ loose = FALSE

-----------------------------------------------------------------------------
(* Single steps on a memory m. *)

Entry(m, t, i) == IF t = NoPage THEN NoPage ELSE m.pt[t][i]

(* *pte = PA2PTE(p); pp_ref++ *)
SetPte(m, t, i, p) ==
    [m EXCEPT !.pt[t][i] = p, !.ref[p] = (@ + 1) % RefMod]

page_alloc(m) == CHOOSE p \in m.free : TRUE

(* Mutant: the page stays on page_free_list. *)
Create_NotRemoved(m, t, i) ==
    IF m.free = {} THEN [m EXCEPT !.ok = FALSE]
    ELSE LET p == page_alloc(m) IN SetPte([m EXCEPT !.pt[p] = Blank], t, i, p)

(* try(page_alloc(&pp)); *pte = PA2PTE(page2pa(pp)); pp->pp_ref++ *)
Create(m, t, i) ==
    IF m.free = {} THEN [m EXCEPT !.ok = FALSE]
    ELSE LET p == page_alloc(m)
         IN  SetPte([m EXCEPT !.free = @ \ {p}, !.pt[p] = Blank], t, i, p)

(* Mutant: a page whose last reference goes stays allocated. *)
Drop_NoFree(m, p) == [m EXCEPT !.ref[p] = (@ - 1) % RefMod]

(* if (--pp_ref == 0) page_free(...) *)
Drop(m, p) ==
    LET r == (m.ref[p] - 1) % RefMod
    IN  [m EXCEPT !.ref[p] = r, !.free = IF r = 0 THEN @ \cup {p} ELSE @]

(* try: a failure stops the call. *)
Then(m, n) == IF m.ok THEN n ELSE m

alloc_pgdir(m) ==
    LET p == page_alloc(m)
    IN  [m EXCEPT !.free = @ \ {p}, !.pt[p] = Blank, !.ref[p] = (@ + 1) % RefMod]

-----------------------------------------------------------------------------
Alive == {e \in Env : pgdir[e] # NoPage}

Fresh == [mem EXCEPT !.ok = TRUE]

(* A step that leaves memory m behind.  A full memory may have kept a      *)
(* table out of the window: that failure is not reported.                  *)
Leaves(m) == mem' = m /\ gap' = (gap \/ m.free = {})
Becomes(m) == Leaves(m) /\ UNCHANGED <<pgdir, halted>>

(* The pointers to a page: entries of tables, and env_pgdir. *)
Pointers(p) ==
    Cardinality({x \in Page \X Vpn : mem.pt[x[1]][x[2]] = p})
        + Cardinality({e \in Env : pgdir[e] = p})

(* include/pmap.h, struct Page: "Ref is the count of pointers (usually in  *)
(* page table entries) to this page", until a call fails in one of the two *)
(* ways that leave it wrong.                                               *)
RefCountsPointers == loose \/ \A p \in Page : mem.ref[p] = Pointers(p)

(* kern/pmap.c, page_free: a page on page_free_list is in nobody's tables, *)
(* and every page that is in nobody's tables is there to be allocated.     *)
FreeIsUnused == loose \/ mem.free = {p \in Page : Pointers(p) = 0}
=============================================================================
