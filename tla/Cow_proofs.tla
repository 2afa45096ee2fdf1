----------------------------- MODULE Cow_proofs -----------------------------
(***************************************************************************)
(* fork, copy on write and exit give every process a memory of its own:    *)
(* Cow implements Copies for any number of processes and pages, given      *)
(* loaders that load what the file describes.                              *)
(***************************************************************************)
EXTENDS Cow, FiniteSetTheorems, FunctionTheorems, TLAPS

Offsets == 0..(PAGE_SIZE - 1)
Pte == [pg : 0..NPage, w : BOOLEAN, cow : BOOLEAN, lib : BOOLEAN]
LibPte == [pg |-> LibPage, w |-> TRUE, cow |-> FALSE, lib |-> TRUE]
Stage == {"none", "try", "alloc", "copy", "map", "unmap"}

Types ==
    /\ prog \in Programs
    /\ data \in [Page -> [Offsets -> Nat]]
    /\ pte \in [Env -> [Vpn -> Pte]]
    /\ ucow \in [Env -> 0..NPage]
    /\ status \in [Env -> {"none", "new", "run"}]
    /\ st \in [Env -> [pc : Stage, a : Addr \cup {0}]]
    /\ fk \in [Env -> [child : Env, vpn : 0..Cardinality(Vpn), half : BOOLEAN, on : BOOLEAN]]

(* One page is shared by all, at LibVpn; a process that runs has it. *)
Entries ==
    \A e \in Env, v \in Vpn :
        /\ pte[e][v].pg = 0 => pte[e][v] = NoPte
        /\ v # LibVpn => pte[e][v].pg # LibPage /\ ~pte[e][v].lib
        /\ v = LibVpn => pte[e][v] \in {NoPte, LibPte}
        /\ status[e] = "none" => pte[e][v] = NoPte
        /\ status[e] = "run" /\ v = LibVpn => pte[e][v] = LibPte

Idle == \A e \in Env : status[e] # "run" => st[e].pc = "none" /\ ucow[e] = 0 /\ ~fk[e].on

(* A child has one parent, the parent's pages up to where fork is, and the *)
(* parent stores to its stack only.                                        *)
ForkOk(e) ==
    fk[e].on =>
        /\ status[fk[e].child] = "new"
        /\ \A f \in Env : fk[f].on /\ fk[f].child = fk[e].child => f = e
        /\ \A v \in Vpn : v # StackVpn /\ Order(v) < fk[e].vpn =>
              pte[fk[e].child][v].pg = pte[e][v].pg
        /\ fk[e].half => fk[e].vpn < Cardinality(Vpn)
        /\ \A v \in Vpn : fk[e].half /\ Order(v) = fk[e].vpn =>
              /\ v # LibVpn /\ pte[e][v].w
              /\ pte[fk[e].child][v] = CowOf(pte[e][v])
        /\ st[e].pc # "none" => PageOf(st[e].a) = StackVpn
Forks == \A e \in Env : ForkOk(e)

(* Nobody else maps this page. *)
Alone(e, v) == \A f \in Env, u \in Vpn : pte[f][u].pg = pte[e][v].pg => f = e /\ u = v

(* The stages of a store, and the page at UCOW. *)
StageOk(e) ==
    /\ st[e].pc # "none" => st[e].a \in Addr
    /\ st[e].pc = "try" /\ Target(e).pg # 0 /\ ~Target(e).w /\ ~Target(e).cow =>
          Alone(e, PageOf(st[e].a))
    /\ st[e].pc \in {"alloc", "copy", "map"} => Target(e).pg # 0 /\ ~Target(e).w /\ Target(e).cow
    /\ st[e].pc \in {"none", "try", "alloc"} => ucow[e] = 0
    /\ st[e].pc \in {"copy", "map"} =>
          /\ ucow[e] \notin {0, LibPage}
          /\ \A f \in Env, v \in Vpn : pte[f][v].pg # ucow[e]
    /\ st[e].pc = "map" => data[ucow[e]] = data[Target(e).pg]
    /\ st[e].pc = "unmap" => Target(e).w
Stages == \A e \in Env : StageOk(e)

Ucows == \A e, f \in Env : ucow[e] # 0 /\ ucow[f] = ucow[e] => f = e

CowInv == Types /\ Entries /\ Idle /\ Forks /\ SharedReadOnly /\ Stages /\ Ucows
-----------------------------------------------------------------------------
(* Addresses and the order of pages. *)

LEMMA VpnIs ==
    /\ Vpn \subseteq Nat /\ IsFiniteSet(Vpn) /\ Cardinality(Vpn) \in Nat
    /\ StackVpn \in Vpn /\ LibVpn \in Vpn /\ StackVpn # LibVpn
    /\ LibVpn \notin Image /\ StackVpn \notin Image
<1>1. IsFiniteSet({StackVpn, LibVpn})
  <2>1. IsFiniteSet({StackVpn})
      BY FS_Singleton
  <2>2. IsFiniteSet({StackVpn} \cup {LibVpn})
      BY <2>1, FS_AddElement
  <2>3. {StackVpn, LibVpn} = {StackVpn} \cup {LibVpn}
      OBVIOUS
  <2> QED BY <2>2, <2>3
<1>2. IsFiniteSet(Vpn)
    BY <1>1, CowAssumption, FS_Union DEF Vpn
<1>3. Cardinality(Vpn) \in Nat
    BY <1>2, FS_CardinalityType
<1> QED BY <1>2, <1>3, CowAssumption DEF Vpn

LEMMA SizeIs ==
    /\ PAGE_SIZE \in Nat /\ PAGE_SIZE > 0 /\ NPage \in Nat /\ NPage > 0
    /\ LibPage \in Page /\ 0 \notin Page /\ Page \subseteq 0..NPage /\ 0 \in 0..NPage
    /\ \A p \in 0..NPage : p # 0 => p \in Page
    /\ IsFiniteSet(Env) /\ Cardinality(Env) \in Nat
<1>1. IsFiniteSet(Env) /\ Cardinality(Env) \in Nat /\ Cardinality(Vpn) \in Nat
    BY CowAssumption, VpnIs, FS_CardinalityType
<1>2. Cardinality(Env) * (Cardinality(Vpn) + 1) \in Nat
    BY <1>1
<1>3. NPage > 0
    BY <1>2, CowAssumption
<1> QED BY <1>1, <1>3, CowAssumption DEF Page, LibPage

LEMMA AddrIs ==
    ASSUME NEW a \in Addr
    PROVE  PageOf(a) \in Vpn /\ Off(a) \in Offsets /\ a = PageOf(a) * PAGE_SIZE + Off(a)
<1>1. PICK v \in Vpn, o \in 0..(PAGE_SIZE - 1) : a = v * PAGE_SIZE + o
    BY DEF Addr
<1>2. v \in Nat /\ PAGE_SIZE \in Nat /\ PAGE_SIZE > 0
    BY VpnIs, SizeIs
<1>3. PageOf(a) = v /\ Off(a) = o
    BY <1>1, <1>2 DEF PageOf, Off
<1> QED BY <1>1, <1>3 DEF Offsets

(* Order numbers the pages. *)
LEMMA OrderRises ==
    ASSUME NEW u \in Vpn, NEW v \in Vpn, u < v
    PROVE  Order(u) \in Nat /\ Order(v) \in Nat /\ Order(u) < Order(v)
<1> DEFINE U == {w \in Vpn : w < u}
           W == {w \in Vpn : w < v}
<1>1. u \in Nat /\ v \in Nat /\ IsFiniteSet(Vpn) /\ Vpn \subseteq Nat
    BY VpnIs
<1>2. IsFiniteSet(U) /\ IsFiniteSet(W)
    BY <1>1, FS_Subset
<1>3. Cardinality(U) \in Nat /\ Cardinality(W) \in Nat
    BY <1>2, FS_CardinalityType
<1>4. U \cup {u} \subseteq W /\ u \notin U
  <2>1. \A w \in Vpn : w < u => w < v
      BY <1>1
  <2>2. ~(u < u)
      BY <1>1
  <2> QED BY <2>1, <2>2
<1>5. IsFiniteSet(U \cup {u}) /\ Cardinality(U \cup {u}) = Cardinality(U) + 1
    BY <1>2, <1>4, FS_AddElement
<1>6. Cardinality(U \cup {u}) <= Cardinality(W)
    BY <1>2, <1>4, FS_Subset
<1> QED BY <1>3, <1>5, <1>6 DEF Order

LEMMA OrderIs ==
    ASSUME NEW v \in Vpn
    PROVE  Order(v) \in 0..(Cardinality(Vpn) - 1)
<1> DEFINE W == {w \in Vpn : w < v}
<1>1. v \in Nat /\ IsFiniteSet(Vpn) /\ Vpn \subseteq Nat /\ Cardinality(Vpn) \in Nat
    BY VpnIs
<1>2. IsFiniteSet(W) /\ W \subseteq Vpn /\ v \notin W
    BY <1>1, FS_Subset
<1>3. Cardinality(W) \in Nat
    BY <1>2, FS_CardinalityType
<1>4. IsFiniteSet(W \cup {v}) /\ Cardinality(W \cup {v}) = Cardinality(W) + 1
    BY <1>2, FS_AddElement
<1>5. Cardinality(W \cup {v}) <= Cardinality(Vpn)
    BY <1>1, <1>2, FS_Subset
<1> QED BY <1>1, <1>3, <1>4, <1>5 DEF Order

LEMMA OrderInj ==
    ASSUME NEW u \in Vpn, NEW v \in Vpn, Order(u) = Order(v)
    PROVE  u = v
<1>1. u \in Nat /\ v \in Nat
    BY VpnIs
<1>2. ~(u < v)
    BY OrderRises
<1>3. ~(v < u)
    BY OrderRises
<1> QED BY <1>1, <1>2, <1>3

(* Every number below the number of pages is the order of one. *)
LEMMA VpnAtIs ==
    ASSUME NEW i \in 0..Cardinality(Vpn), i < Cardinality(Vpn)
    PROVE  VpnAt(i) \in Vpn /\ Order(VpnAt(i)) = i
<1> DEFINE n == Cardinality(Vpn)
           T == 0..(n - 1)
           F == [v \in Vpn |-> Order(v)]
<1>1. n \in Nat /\ IsFiniteSet(Vpn)
    BY VpnIs
<1>2. IsFiniteSet(T) /\ Cardinality(T) = n
  <2>1. 0 \in Int /\ n - 1 \in Int
      BY <1>1
  <2>2. /\ IsFiniteSet(0..(n - 1))
        /\ Cardinality(0..(n - 1)) = IF 0 > n - 1 THEN 0 ELSE (n - 1) - 0 + 1
      BY <2>1, FS_Interval
  <2> QED BY <1>1, <2>2
<1>3. F \in Injection(Vpn, T)
  <2>1. F \in [Vpn -> T]
      BY OrderIs
  <2>2. \A u, v \in Vpn : F[u] = F[v] => u = v
      BY OrderInj
  <2> QED BY <2>1, <2>2 DEF Injection, IsInjective
<1>4. F \in Surjection(Vpn, T)
    BY <1>1, <1>2, <1>3, FS_Injection
<1>5. i \in T
    BY <1>1
<1>6. PICK v \in Vpn : F[v] = i
    BY <1>4, <1>5 DEF Surjection
<1> QED BY <1>6 DEF VpnAt
-----------------------------------------------------------------------------
(* There are pages enough. *)

LEMMA RangeSmall ==
    ASSUME NEW S, IsFiniteSet(S), NEW T, NEW f \in [S -> T]
    PROVE  /\ IsFiniteSet({f[x] : x \in S}) /\ Cardinality({f[x] : x \in S}) <= Cardinality(S)
           /\ Cardinality({f[x] : x \in S}) \in Nat
<1> DEFINE R == {f[x] : x \in S}
<1>1. f \in Surjection(S, R)
    BY DEF Surjection
<1>2. IsFiniteSet(R) /\ Cardinality(R) <= Cardinality(S)
    BY <1>1, FS_Surjection
<1> QED BY <1>2, FS_CardinalityType

Held(D) == {pte[x[1]][x[2]].pg : x \in D \X Vpn} \cup {ucow[e] : e \in D}

LEMMA HeldCard ==
    ASSUME Types, NEW D \in SUBSET Env
    PROVE  /\ IsFiniteSet(Held(D)) /\ Cardinality(Held(D)) \in Nat
           /\ IsFiniteSet(D) /\ Cardinality(D) \in Nat
           /\ Cardinality(Held(D)) <= Cardinality(D) * Cardinality(Vpn) + Cardinality(D)
<1>1. IsFiniteSet(D) /\ Cardinality(D) \in Nat
    BY SizeIs, FS_Subset, FS_CardinalityType
<1>2. IsFiniteSet(D \X Vpn) /\ Cardinality(D \X Vpn) = Cardinality(D) * Cardinality(Vpn)
    BY <1>1, VpnIs, FS_Product
<1>3. PICK F : F = [x \in D \X Vpn |-> pte[x[1]][x[2]].pg]
    OBVIOUS
<1>4. PICK G : G = [e \in D |-> ucow[e]]
    OBVIOUS
<1> DEFINE A == {F[x] : x \in D \X Vpn}
           B == {G[e] : e \in D}
<1>a. F \in [D \X Vpn -> 0..NPage]
    BY <1>3 DEF Types, Pte
<1>b. G \in [D -> 0..NPage]
    BY <1>4 DEF Types
<1>5. IsFiniteSet(A) /\ Cardinality(A) \in Nat /\ Cardinality(A) <= Cardinality(D \X Vpn)
  <2>1. PICK S : S = D \X Vpn
      OBVIOUS
  <2>2. IsFiniteSet(S) /\ F \in [S -> 0..NPage]
      BY <1>2, <1>a, <2>1
  <2>3. /\ IsFiniteSet({F[x] : x \in S}) /\ Cardinality({F[x] : x \in S}) <= Cardinality(S)
        /\ Cardinality({F[x] : x \in S}) \in Nat
      BY <2>2, RangeSmall
  <2> QED BY <2>1, <2>3
<1>6. IsFiniteSet(B) /\ Cardinality(B) \in Nat /\ Cardinality(B) <= Cardinality(D)
    BY <1>1, <1>b, RangeSmall
<1>7. A = {pte[x[1]][x[2]].pg : x \in D \X Vpn} /\ B = {ucow[e] : e \in D}
    BY <1>3, <1>4
<1> HIDE DEF A, B
<1>8. /\ IsFiniteSet(A \cup B)
      /\ Cardinality(A \cup B) = Cardinality(A) + Cardinality(B) - Cardinality(A \cap B)
    BY <1>5, <1>6, FS_Union
<1>9. Cardinality(A \cap B) \in Nat /\ Cardinality(A \cup B) \in Nat
    BY <1>5, <1>8, FS_Intersection, FS_CardinalityType
<1>10. Held(D) = A \cup B
    BY <1>7 DEF Held
<1>11. Cardinality(Vpn) \in Nat /\ Cardinality(D) * Cardinality(Vpn) \in Nat
    BY <1>1, VpnIs
<1> QED BY <1>1, <1>2, <1>5, <1>6, <1>8, <1>9, <1>10, <1>11

LEMMA FreePages ==
    /\ Free \subseteq Page /\ LibPage \notin Free
    /\ \A p \in Free, e \in Env, v \in Vpn : pte[e][v].pg # p
    /\ \A p \in Free, e \in Env : ucow[e] # p
    /\ \A p \in Page : p # LibPage /\ p \notin Held(Env) => p \in Free
<1>1. \A e \in Env, v \in Vpn : <<e, v>> \in Env \X Vpn /\ <<e, v>>[1] = e /\ <<e, v>>[2] = v
    OBVIOUS
<1>2. Free \subseteq Page /\ LibPage \notin Free
    BY DEF Free
<1>3. \A p \in Free, e \in Env, v \in Vpn : pte[e][v].pg # p
    BY DEF Free
<1>4. \A p \in Free, e \in Env : ucow[e] # p
    BY DEF Free
<1>5. \A e \in Env, v \in Vpn : pte[e][v].pg \in Held(Env)
  <2>1. SUFFICES ASSUME NEW e \in Env, NEW v \in Vpn
                 PROVE  \E x \in Env \X Vpn : pte[e][v].pg = pte[x[1]][x[2]].pg
      BY DEF Held
  <2> WITNESS <<e, v>> \in Env \X Vpn
  <2> QED OBVIOUS
<1>6. \A e \in Env : ucow[e] \in Held(Env)
    BY DEF Held
<1>7. \A p \in Page : p # LibPage /\ p \notin Held(Env) => p \in Free
    BY <1>5, <1>6 DEF Free
<1> QED BY <1>2, <1>3, <1>4, <1>7

LEMMA PageCard == IsFiniteSet(Page) /\ Cardinality(Page) = NPage
<1>1. 1 \in Int /\ NPage \in Int /\ NPage > 0
    BY SizeIs
<1>2. IsFiniteSet(1..NPage) /\ Cardinality(1..NPage) = IF 1 > NPage THEN 0 ELSE NPage - 1 + 1
    BY <1>1, FS_Interval
<1> QED BY <1>1, <1>2 DEF Page

(* The page of the library counts as one that a running process maps. *)
LEMMA FreeOne ==
    ASSUME Types, Entries, NEW e \in Env, status[e] = "run"
    PROVE  page_alloc \in Free
<1>1. LibPage \in Held(Env)
  <2>1. <<e, LibVpn>> \in Env \X Vpn /\ pte[e][LibVpn].pg = LibPage
      BY VpnIs DEF Entries, LibPte
  <2> QED BY <2>1 DEF Held
<1>2. /\ IsFiniteSet(Held(Env)) /\ Cardinality(Held(Env)) \in Nat
      /\ Cardinality(Held(Env)) <= Cardinality(Env) * Cardinality(Vpn) + Cardinality(Env)
    BY HeldCard
<1>3. Cardinality(Env) * (Cardinality(Vpn) + 1) = Cardinality(Env) * Cardinality(Vpn) + Cardinality(Env)
    BY SizeIs, VpnIs
<1>4. NPage > Cardinality(Held(Env))
  <2>1. Cardinality(Env) * Cardinality(Vpn) + Cardinality(Env) \in Nat /\ NPage \in Nat
      BY SizeIs, VpnIs
  <2>2. NPage > Cardinality(Env) * (Cardinality(Vpn) + 1)
      BY CowAssumption
  <2> QED BY <1>2, <1>3, <2>1, <2>2
<1>5. ~(Page \subseteq Held(Env))
  <2>1. SUFFICES ASSUME Page \subseteq Held(Env) PROVE FALSE
      OBVIOUS
  <2>2. Cardinality(Page) <= Cardinality(Held(Env))
      BY <1>2, <2>1, FS_Subset
  <2> QED BY <1>2, <1>4, <2>2, PageCard, SizeIs
<1>6. PICK p \in Page : p \notin Held(Env)
    BY <1>5
<1>7. p \in Free
    BY <1>1, <1>6, FreePages
<1> QED BY <1>7 DEF page_alloc
LEMMA Smaller ==
    ASSUME NEW S, NEW T, IsFiniteSet(S), IsFiniteSet(T), Cardinality(S) <= Cardinality(T)
    PROVE  \E f \in [S -> T] : \A u, v \in S : f[u] = f[v] => u = v
<1>1. PICK n \in Nat, m \in Nat : n = Cardinality(S) /\ m = Cardinality(T)
    BY FS_CardinalityType
<1>2. ExistsBijection(1..n, S) /\ ExistsBijection(1..m, T)
    BY <1>1, FS_CardinalityType
<1>3. ExistsInjection(S, 1..n)
    BY <1>2, Fun_ExistsBijEquiv
<1>4. ExistsInjection(1..n, 1..m)
    BY <1>1, Fun_NatInjLeq
<1>5. ExistsInjection(1..m, T)
    BY <1>2, Fun_ExistsBijEquiv
<1>6. ExistsInjection(S, 1..m)
    BY <1>3, <1>4, Fun_ExistsInjTransitive
<1>7. ExistsInjection(S, T)
    BY <1>5, <1>6, Fun_ExistsInjTransitive
<1>8. PICK f : f \in Injection(S, T)
    BY <1>7, Fun_ExistsInj
<1> QED BY <1>8 DEF Injection, IsInjective

(* A process that is not there holds nothing, so there is room for it. *)
LEMMA FreeMany ==
    ASSUME Types, Entries, Idle, NEW c \in Env, status[c] = "none", NEW used \in SUBSET Vpn
    PROVE  \E f \in [used -> Free] : \A u, v \in used : f[u] = f[v] => u = v
<1> DEFINE D == Env \ {c}
           H == Held(D)
           n == Cardinality(D)
           k == Cardinality(Vpn)
           L == {LibPage}
           R == Page \ (H \cup L)
<1>1. /\ IsFiniteSet(H) /\ Cardinality(H) \in Nat /\ n \in Nat
      /\ Cardinality(H) <= n * k + n
    BY HeldCard
<1>2. Cardinality(Env) = n + 1
  <2>1. Cardinality(Env \ {c}) = Cardinality(Env) - 1
      BY SizeIs, FS_RemoveElement
  <2>2. PICK a \in Nat : a = Cardinality(Env)
      BY SizeIs
  <2>3. PICK b \in Nat : b = Cardinality(Env \ {c})
      BY <1>1
  <2> QED BY <2>1, <2>2, <2>3
<1>3. k \in Nat /\ NPage \in Nat
    BY VpnIs, SizeIs
<1>4. NPage > (n + 1) * (k + 1)
    BY <1>2, CowAssumption
<1>5. (n + 1) * (k + 1) = n * k + n + k + 1 /\ n * k \in Nat
    BY <1>1, <1>3
<1>6. NPage > Cardinality(H) + k + 1
  <2> HIDE DEF H, n, k
  <2> QED BY <1>1, <1>3, <1>4, <1>5
<1>7. IsFiniteSet(H \cup L) /\ Cardinality(H \cup L) \in Nat /\ Cardinality(H \cup L) <= Cardinality(H) + 1
  <2> HIDE DEF H
  <2>1. CASE LibPage \in H
    <3>1. H \cup L = H
        BY <2>1
    <3> HIDE DEF L
    <3> QED BY <1>1, <3>1
  <2>2. CASE LibPage \notin H
    <3>1. IsFiniteSet(H \cup L) /\ Cardinality(H \cup L) = Cardinality(H) + 1
        BY <1>1, <2>2, FS_AddElement
    <3> QED BY <1>1, <3>1
  <2> QED BY <2>1, <2>2
<1>8. IsFiniteSet(R) /\ Cardinality(R) \in Nat /\ Cardinality(R) > k
  <2>1. PICK M : M = H \cup L
      OBVIOUS
  <2>2. IsFiniteSet(Page \ M) /\ Cardinality(Page \ M) = Cardinality(Page) - Cardinality(Page \cap M)
      BY PageCard, FS_Difference
  <2>3. Cardinality(Page \cap M) \in Nat /\ Cardinality(Page \cap M) <= Cardinality(M)
    <3>1. Page \cap M \subseteq M /\ IsFiniteSet(M)
        BY <1>7, <2>1
    <3> QED BY <3>1, FS_Subset, FS_CardinalityType
  <2>4. Cardinality(Page \ M) \in Nat
      BY <2>2, FS_CardinalityType
  <2>5. Cardinality(M) \in Nat /\ Cardinality(M) <= Cardinality(H) + 1
      BY <1>7, <2>1
  <2>6. R = Page \ M
      BY <2>1
  <2> HIDE DEF R, H, k
  <2> QED BY <1>1, <1>3, <1>6, <2>2, <2>3, <2>4, <2>5, <2>6, PageCard
<1>9. R \subseteq Free
  <2> SUFFICES ASSUME NEW p \in R PROVE p \in Free
      OBVIOUS
  <2>1. p \in Page /\ p # LibPage /\ p \notin H
      OBVIOUS
  <2>2. p # 0
      BY <2>1, SizeIs
  <2>3. \A v \in Vpn : pte[c][v].pg = 0
      BY DEF Entries, NoPte
  <2>4. ucow[c] = 0
      BY DEF Idle
  <2>5. p \notin Held(Env)
    <3>1. SUFFICES ASSUME p \in Held(Env) PROVE FALSE
        OBVIOUS
    <3>2. CASE \E x \in Env \X Vpn : p = pte[x[1]][x[2]].pg
      <4>1. PICK x \in Env \X Vpn : p = pte[x[1]][x[2]].pg
          BY <3>2
      <4>2. x[1] # c
          BY <2>2, <2>3, <4>1
      <4>3. x \in D \X Vpn
          BY <4>1, <4>2
      <4> QED BY <2>1, <4>1, <4>3 DEF Held
    <3>3. CASE \E e \in Env : p = ucow[e]
      <4>1. PICK e \in Env : p = ucow[e]
          BY <3>3
      <4>2. e \in D
          BY <2>2, <2>4, <4>1
      <4> QED BY <2>1, <4>1, <4>2 DEF Held
    <3> QED BY <3>1, <3>2, <3>3 DEF Held
  <2> HIDE DEF H, R
  <2> QED BY <2>1, <2>5, FreePages
<1>10. IsFiniteSet(used) /\ Cardinality(used) \in Nat /\ Cardinality(used) <= k
    BY VpnIs, FS_Subset, FS_CardinalityType
<1>11. IsFiniteSet(R) /\ Cardinality(used) <= Cardinality(R)
  <2> HIDE DEF R, k
  <2> QED BY <1>3, <1>8, <1>10
<1>12. PICK f \in [used -> R] : \A u, v \in used : f[u] = f[v] => u = v
  <2> HIDE DEF R
  <2> QED BY <1>10, <1>11, Smaller
<1>13. f \in [used -> Free]
    BY <1>9, <1>12
<1> QED BY <1>12, <1>13-----------------------------------------------------------------------------
(* The invariant, action by action. *)

LEMMA CowInit == Init => CowInv
<1> SUFFICES ASSUME Init PROVE CowInv
    OBVIOUS
<1> USE DEF Init
<1>1. NoPte \in Pte /\ NoStore \in [pc : Stage, a : Addr \cup {0}] /\ ZeroPage \in [Offsets -> Nat]
    BY SizeIs DEF NoPte, Pte, NoStore, Stage, ZeroPage, Offsets
<1>2. NoFork \in [child : Env, vpn : 0..Cardinality(Vpn), half : BOOLEAN, on : BOOLEAN] /\ ~NoFork.on
    BY VpnIs, CowAssumption DEF NoFork
<1>3. Types
    BY <1>1, <1>2, SizeIs DEF Types
<1>4. \A e \in Env : /\ st[e].pc = "none" /\ ucow[e] = 0 /\ fk[e].on = FALSE
                     /\ \A v \in Vpn : pte[e][v] = NoPte
    BY DEF NoStore, NoFork
<1>5. NoPte.pg = 0 /\ NoPte.lib = FALSE
    BY DEF NoPte
<1>6. Entries
    BY <1>4, <1>5 DEF Entries, LibPage
<1>7. Idle /\ Forks
    BY <1>4 DEF Idle, Forks, ForkOk
<1>8. SharedReadOnly
    BY <1>4, <1>5 DEF SharedReadOnly
<1>9. Stages /\ Ucows
    BY <1>4 DEF Stages, StageOk, Ucows
<1> QED BY <1>3, <1>6, <1>7, <1>8, <1>9 DEF CowInv

LEMMA Fork ==
    ASSUME CowInv, NEW e \in Env, NEW c \in Env, fork(e, c)
    PROVE  CowInv'
<1> USE DEF CowInv
<1>1. PICK k : k = [child |-> c, vpn |-> 0, half |-> FALSE, on |-> TRUE]
    OBVIOUS
<1>2. fk' = [fk EXCEPT ![e] = k] /\ k.child = c /\ k.vpn = 0 /\ k.half = FALSE /\ k.on = TRUE
    BY <1>1 DEF fork
<1>3. k \in [child : Env, vpn : 0..Cardinality(Vpn), half : BOOLEAN, on : BOOLEAN]
    BY <1>1, VpnIs
<1>4. Types'
    BY <1>2, <1>3 DEF Types, fork
<1>5. e # c /\ status[c] = "none" /\ status[e] = "run" /\ ~fk[e].on /\ st[e].pc = "none"
    BY DEF fork, Quiet
<1>6. \A f \in Env : /\ f # c => status'[f] = status[f]
                     /\ f # e => fk'[f] = fk[f]
    BY <1>2 DEF Types, fork
<1>7. status'[c] = "new" /\ fk'[e] = k
    BY <1>2 DEF Types, fork
<1>8. UNCHANGED <<prog, data, pte, ucow, st>>
    BY DEF fork
<1>9. Entries'
    BY <1>5, <1>6, <1>7, <1>8 DEF Entries
<1>10. Idle'
    BY <1>5, <1>6, <1>7, <1>8 DEF Idle
<1>11. Forks'
  <2> SUFFICES ASSUME NEW f \in Env, fk'[f].on
               PROVE  ForkOk(f)'
      BY DEF Forks, ForkOk
  <2>1. \A g \in Env : fk[g].on => fk[g].child # c
      BY <1>5 DEF Forks, ForkOk
  <2>2. \A v \in Vpn : ~(Order(v) < 0)
      BY OrderIs, VpnIs
  <2>3. CASE f = e
      BY <1>2, <1>5, <1>6, <1>7, <1>8, <2>1, <2>2, <2>3 DEF ForkOk
  <2>4. CASE f # e
    <3>1. fk'[f] = fk[f] /\ fk[f].on /\ fk[f].child # c /\ fk[f].child \in Env
        BY <1>6, <2>1, <2>4 DEF Types
    <3>2. \A g \in Env : fk'[g].on /\ fk'[g].child = fk'[f].child => g = f
        BY <1>2, <1>6, <1>7, <3>1 DEF Forks, ForkOk
    <3> QED BY <1>6, <1>8, <3>1, <3>2 DEF Forks, ForkOk
  <2> QED BY <2>3, <2>4
<1>12. SharedReadOnly'
  <2>1. \A f, g \in Env, v \in Vpn : Half(f, g, v) => Half(f, g, v)'
      BY <1>5, <1>6 DEF Half
  <2> QED BY <1>8, <2>1 DEF SharedReadOnly
<1>13. Stages' /\ Ucows'
    BY <1>8 DEF Stages, StageOk, Target, Alone, Ucows
<1> QED BY <1>4, <1>9, <1>10, <1>11, <1>12, <1>13

LEMMA Begin ==
    ASSUME CowInv, NEW e \in Env, NEW a \in StoreAddr, BeginStore(e, a)
    PROVE  CowInv'
<1> USE DEF CowInv
<1>1. PICK s : s = [pc |-> "try", a |-> a]
    OBVIOUS
<1>2. st' = [st EXCEPT ![e] = s] /\ s.pc = "try" /\ s.a = a
    BY <1>1 DEF BeginStore
<1>3. a \in Addr /\ PageOf(a) \in Vpn
    BY CowAssumption, AddrIs
<1>4. s \in [pc : Stage, a : Addr \cup {0}]
    BY <1>1, <1>3 DEF Stage
<1>5. UNCHANGED <<prog, data, pte, ucow, status, fk>>
    BY DEF BeginStore
<1>6. Types'
    BY <1>2, <1>4, <1>5 DEF Types
<1>7. status[e] = "run" /\ st[e].pc = "none" /\ (fk[e].on => PageOf(a) = StackVpn)
    BY DEF BeginStore
<1>8. \A f \in Env : st'[f] = IF f = e THEN s ELSE st[f]
    BY <1>2 DEF Types
<1>9. Entries'
    BY <1>5 DEF Entries
<1>10. Idle'
    BY <1>5, <1>7, <1>8 DEF Idle
<1>11. Forks'
  <2>1. \A f \in Env : fk[f].on /\ st'[f].pc # "none" => PageOf(st'[f].a) = StackVpn
      BY <1>2, <1>7, <1>8 DEF Forks, ForkOk
  <2> QED BY <1>5, <2>1 DEF Forks, ForkOk
<1>12. SharedReadOnly'
  <2>1. \A f, g \in Env, v \in Vpn : Half(f, g, v)' = Half(f, g, v)
      BY <1>5 DEF Half
  <2> QED BY <1>5, <2>1 DEF SharedReadOnly
<1>13. ASSUME NEW v \in Vpn, v = PageOf(a), pte[e][v].pg # 0, ~pte[e][v].w, ~pte[e][v].cow
       PROVE  Alone(e, v)
  <2> DEFINE p == pte[e][v].pg
             M == Mappers(p)
  <2>1. ~(Cardinality(M) > 1)
      BY <1>13 DEF BeginStore, WouldShow
  <2>2. IsFiniteSet(Env \X Vpn)
      BY SizeIs, VpnIs, FS_Product
  <2>3. IsFiniteSet(M) /\ Cardinality(M) \in Nat
    <3>1. M \subseteq Env \X Vpn
        BY DEF Mappers
    <3> QED BY <2>2, <3>1, FS_Subset, FS_CardinalityType
  <2>4. SUFFICES ASSUME NEW f \in Env, NEW u \in Vpn, pte[f][u].pg = p, ~(f = e /\ u = v)
                 PROVE  FALSE
      BY DEF Alone
  <2>5. PICK x, y : x = <<e, v>> /\ y = <<f, u>>
      OBVIOUS
  <2>6. x \in M /\ y \in M /\ x # y
      BY <2>4, <2>5 DEF Mappers
  <2>7. IsFiniteSet({x}) /\ Cardinality({x}) = 1
      BY FS_Singleton
  <2>8. IsFiniteSet({x} \cup {y}) /\ Cardinality({x} \cup {y}) = 2
    <3> HIDE DEF M
    <3>1. y \notin {x}
        BY <2>6
    <3>2. Cardinality({x} \cup {y}) = Cardinality({x}) + 1 /\ IsFiniteSet({x} \cup {y})
        BY <2>7, <3>1, FS_AddElement
    <3> QED BY <2>7, <3>2
  <2>9. Cardinality({x} \cup {y}) <= Cardinality(M)
    <3> HIDE DEF M
    <3>1. {x} \cup {y} \subseteq M
        BY <2>6
    <3> QED BY <2>3, <3>1, FS_Subset
  <2> HIDE DEF M
  <2> QED BY <2>1, <2>3, <2>8, <2>9
<1>14. Stages'
  <2>1. \A f \in Env, v \in Vpn : Alone(f, v)' = Alone(f, v)
      BY <1>5 DEF Alone
  <2> SUFFICES ASSUME NEW f \in Env
               PROVE  StageOk(f)'
      BY DEF Stages
  <2>2. CASE f = e
    <3>1. Target(f)' = pte[e][PageOf(a)]
        BY <1>2, <1>5, <1>8, <2>2 DEF Target
    <3>2. ucow[f] = 0
        BY <1>7, <2>2 DEF Stages, StageOk
    <3> QED BY <1>2, <1>3, <1>5, <1>8, <1>13, <2>1, <2>2, <3>1, <3>2 DEF StageOk
  <2>3. CASE f # e
    <3>1. Target(f)' = Target(f) /\ st'[f] = st[f]
        BY <1>5, <1>8, <2>3 DEF Target
    <3>2. st[f].pc # "none" => PageOf(st[f].a) \in Vpn
        BY AddrIs DEF Stages, StageOk
    <3> QED BY <1>5, <2>1, <3>1, <3>2 DEF Stages, StageOk
  <2> QED BY <2>2, <2>3
<1>15. Ucows'
    BY <1>5 DEF Ucows
<1> QED BY <1>6, <1>9, <1>10, <1>11, <1>12, <1>14, <1>15
(* What a stage says of a process that a step leaves alone. *)
LEMMA StageKept ==
    ASSUME CowInv, NEW f \in Env, UNCHANGED <<st[f], ucow[f]>>,
           st[f].pc # "none" => UNCHANGED pte[f],
           st[f].pc = "try" => \A v \in Vpn :
              Alone(f, v) /\ pte[f][v].pg # 0 /\ ~pte[f][v].w => Alone(f, v)',
           st[f].pc \in {"copy", "map"} => \A g \in Env, v \in Vpn : pte'[g][v].pg # ucow[f],
           st[f].pc = "map" => data'[ucow[f]] = data[ucow[f]] /\ data'[Target(f).pg] = data[Target(f).pg]
    PROVE  StageOk(f)'
<1>1. StageOk(f)
    BY DEF CowInv, Stages
<1>2. st[f].pc # "none" => Target(f)' = Target(f)
    BY DEF Target
<1>3. st[f].pc # "none" => PageOf(st[f].a) \in Vpn
    BY <1>1, AddrIs DEF StageOk
<1>4. st[f].pc # "none" => Target(f) = pte[f][PageOf(st[f].a)]
    BY DEF Target
<1> QED BY <1>1, <1>2, <1>3, <1>4 DEF StageOk

(* A step that leaves entries and forks alone. *)
LEMMA EntriesKept ==
    ASSUME CowInv, UNCHANGED <<pte, status, fk>>
    PROVE  /\ Entries' /\ SharedReadOnly'
           /\ \A f \in Env, v \in Vpn : Alone(f, v)' = Alone(f, v)
<1>1. Entries'
    BY DEF CowInv, Entries
<1>2. \A f, g \in Env, v \in Vpn : Half(f, g, v)' = Half(f, g, v)
    BY DEF Half
<1>3. SharedReadOnly'
    BY <1>2 DEF CowInv, SharedReadOnly
<1>4. \A f \in Env, v \in Vpn : Alone(f, v)' = Alone(f, v)
    BY DEF Alone
<1> QED BY <1>1, <1>3, <1>4

LEMMA FaultCow ==
    ASSUME CowInv, NEW e \in Env, fault_cow(e)
    PROVE  CowInv'
<1> USE DEF CowInv
<1>1. PICK s : s = [st[e] EXCEPT !.pc = "alloc"]
    OBVIOUS
<1>2. st' = [st EXCEPT ![e] = s]
    BY <1>1 DEF fault_cow, Goto
<1>3. s.pc = "alloc" /\ s.a = st[e].a /\ s \in [pc : Stage, a : Addr \cup {0}]
    BY <1>1 DEF Types, Stage
<1>4. UNCHANGED <<prog, data, pte, ucow, status, fk>>
    BY DEF fault_cow
<1>5. Types'
    BY <1>2, <1>3, <1>4 DEF Types
<1>6. \A f \in Env : st'[f] = IF f = e THEN s ELSE st[f]
    BY <1>2 DEF Types
<1>7. st[e].pc = "try" /\ Target(e).pg # 0 /\ ~Target(e).w /\ Target(e).cow
    BY DEF fault_cow, At
<1>8. Entries' /\ SharedReadOnly' /\ \A f \in Env, v \in Vpn : Alone(f, v)' = Alone(f, v)
    BY <1>4, EntriesKept
<1>9. Idle'
    BY <1>4, <1>6, <1>7 DEF Idle
<1>10. Forks'
    BY <1>3, <1>4, <1>6, <1>7 DEF Forks, ForkOk
<1>11. Stages'
  <2> SUFFICES ASSUME NEW f \in Env PROVE StageOk(f)'
      BY DEF Stages
  <2>1. StageOk(f)
      BY DEF Stages
  <2>2. CASE f = e
    <3>1. Target(f)' = Target(e)
        BY <1>3, <1>4, <1>6, <2>2 DEF Target
    <3> QED BY <1>3, <1>4, <1>6, <1>7, <2>1, <2>2, <3>1 DEF StageOk
  <2>3. CASE f # e
    <3>1. UNCHANGED <<st[f], pte[f], ucow[f]>>
        BY <1>4, <1>6, <2>3
    <3> QED BY <1>4, <1>8, <2>1, <3>1, StageKept DEF StageOk
  <2> QED BY <2>2, <2>3
<1>12. Ucows'
    BY <1>4 DEF Ucows
<1> QED BY <1>5, <1>8, <1>9, <1>10, <1>11, <1>12

LEMMA CowUnmap ==
    ASSUME CowInv, NEW e \in Env, cow_unmap(e)
    PROVE  CowInv'
<1> USE DEF CowInv
<1>1. PICK s : s = [st[e] EXCEPT !.pc = "try"]
    OBVIOUS
<1>2. st' = [st EXCEPT ![e] = s]
    BY <1>1 DEF cow_unmap, Goto
<1>3. s.pc = "try" /\ s.a = st[e].a /\ s \in [pc : Stage, a : Addr \cup {0}]
    BY <1>1 DEF Types, Stage
<1>4. UNCHANGED <<prog, data, pte, status, fk>> /\ ucow' = [ucow EXCEPT ![e] = 0]
    BY DEF cow_unmap
<1>5. Types'
    BY <1>2, <1>3, <1>4, SizeIs DEF Types
<1>6. \A f \in Env : /\ st'[f] = IF f = e THEN s ELSE st[f]
                     /\ ucow'[f] = IF f = e THEN 0 ELSE ucow[f]
    BY <1>2, <1>4 DEF Types
<1>7. st[e].pc = "unmap" /\ Target(e).w
    BY DEF cow_unmap, At, Stages, StageOk
<1>8. Entries' /\ SharedReadOnly' /\ \A f \in Env, v \in Vpn : Alone(f, v)' = Alone(f, v)
    BY <1>4, EntriesKept
<1>9. Idle'
    BY <1>4, <1>6, <1>7 DEF Idle
<1>10. Forks'
    BY <1>3, <1>4, <1>6, <1>7 DEF Forks, ForkOk
<1>11. Stages'
  <2> SUFFICES ASSUME NEW f \in Env PROVE StageOk(f)'
      BY DEF Stages
  <2>1. StageOk(f)
      BY DEF Stages
  <2>2. CASE f = e
    <3>1. Target(f)' = Target(e)
        BY <1>3, <1>4, <1>6, <2>2 DEF Target
    <3> QED BY <1>3, <1>4, <1>6, <1>7, <2>1, <2>2, <3>1 DEF StageOk
  <2>3. CASE f # e
    <3>1. UNCHANGED <<st[f], pte[f], ucow[f]>>
        BY <1>4, <1>6, <2>3
    <3> QED BY <1>4, <1>8, <2>1, <3>1, StageKept DEF StageOk
  <2> QED BY <2>2, <2>3
<1>12. Ucows'
    BY <1>6 DEF Ucows
<1> QED BY <1>5, <1>8, <1>9, <1>10, <1>11, <1>12

LEMMA CowAlloc ==
    ASSUME CowInv, NEW e \in Env, cow_alloc(e)
    PROVE  CowInv' /\ page_alloc \in Free
<1> USE DEF CowInv
<1>1. PICK s : s = [st[e] EXCEPT !.pc = "copy"]
    OBVIOUS
<1>2. st' = [st EXCEPT ![e] = s]
    BY <1>1 DEF cow_alloc, Goto
<1>3. s.pc = "copy" /\ s.a = st[e].a /\ s \in [pc : Stage, a : Addr \cup {0}]
    BY <1>1 DEF Types, Stage
<1>4. st[e].pc = "alloc" /\ status[e] = "run"
    BY DEF cow_alloc, At, Idle
<1>5. PICK p : p = page_alloc
    OBVIOUS
<1>6. /\ p \in Page /\ p \in Free /\ p # LibPage /\ p # 0 /\ p \in 0..NPage
      /\ \A f \in Env, v \in Vpn : pte[f][v].pg # p
      /\ \A f \in Env : ucow[f] # p
    BY <1>4, <1>5, FreeOne, FreePages, SizeIs
<1>7. UNCHANGED <<prog, pte, status, fk>> /\ ucow' = [ucow EXCEPT ![e] = p] /\ data' = [data EXCEPT ![p] = ZeroPage]
    BY <1>5 DEF cow_alloc
<1>8. Types'
  <2>1. ZeroPage \in [Offsets -> Nat]
      BY DEF ZeroPage, Offsets
  <2> QED BY <1>2, <1>3, <1>6, <1>7, <2>1 DEF Types
<1>9. \A f \in Env : /\ st'[f] = IF f = e THEN s ELSE st[f]
                     /\ ucow'[f] = IF f = e THEN p ELSE ucow[f]
    BY <1>2, <1>7 DEF Types
<1>10. \A q \in Page : q # p => data'[q] = data[q]
    BY <1>7 DEF Types
<1>11. Entries' /\ SharedReadOnly' /\ \A f \in Env, v \in Vpn : Alone(f, v)' = Alone(f, v)
    BY <1>7, EntriesKept
<1>12. Idle'
    BY <1>4, <1>7, <1>9 DEF Idle
<1>13. Forks'
    BY <1>3, <1>4, <1>7, <1>9 DEF Forks, ForkOk
<1>14. Stages'
  <2> SUFFICES ASSUME NEW f \in Env PROVE StageOk(f)'
      BY DEF Stages
  <2>1. StageOk(f)
      BY DEF Stages
  <2>2. CASE f = e
    <3>1. Target(f)' = Target(e)
        BY <1>3, <1>7, <1>9, <2>2 DEF Target
    <3> QED BY <1>3, <1>4, <1>6, <1>7, <1>9, <2>1, <2>2, <3>1 DEF StageOk
  <2>3. CASE f # e
    <3>1. UNCHANGED <<st[f], pte[f], ucow[f]>>
        BY <1>7, <1>9, <2>3
    <3>2. st[f].pc = "map" => PageOf(st[f].a) \in Vpn /\ Target(f).pg \in Page /\ ucow[f] \in Page
        BY <2>1, AddrIs, SizeIs DEF StageOk, Target, Types, Pte
    <3>3. st[f].pc = "map" => Target(f).pg # p /\ ucow[f] # p
        BY <1>6, <3>2 DEF Target
    <3>4. st[f].pc = "map" => data'[ucow[f]] = data[ucow[f]] /\ data'[Target(f).pg] = data[Target(f).pg]
        BY <1>10, <3>2, <3>3
    <3> QED BY <1>7, <1>11, <2>1, <3>1, <3>4, StageKept DEF StageOk
  <2> QED BY <2>2, <2>3
<1>15. Ucows'
    BY <1>6, <1>9 DEF Ucows
<1> QED BY <1>5, <1>6, <1>8, <1>11, <1>12, <1>13, <1>14, <1>15
(* The pages of a copy that is being made. *)
LEMMA CopyPages ==
    ASSUME CowInv, NEW f \in Env, st[f].pc \in {"copy", "map"}
    PROVE  /\ PageOf(st[f].a) \in Vpn /\ Target(f) = pte[f][PageOf(st[f].a)]
           /\ Target(f).pg \in Page /\ Target(f).pg # LibPage /\ ucow[f] \in Page
           /\ ucow[f] # LibPage /\ ucow[f] # Target(f).pg
           /\ PageOf(st[f].a) # LibVpn /\ status[f] = "run"
<1> USE DEF CowInv
<1>1. StageOk(f)
    BY DEF Stages
<1>2. PageOf(st[f].a) \in Vpn
    BY <1>1, AddrIs DEF StageOk
<1>3. Target(f) = pte[f][PageOf(st[f].a)]
    BY DEF Target
<1>4. Target(f).pg \in Page /\ ucow[f] \in Page
    BY <1>1, <1>2, <1>3, SizeIs DEF StageOk, Types, Pte
<1>5. PageOf(st[f].a) # LibVpn /\ Target(f).pg # LibPage
    BY <1>1, <1>2, <1>3 DEF StageOk, Entries, NoPte, LibPte
<1> QED BY <1>1, <1>2, <1>3, <1>4, <1>5 DEF StageOk, Idle

LEMMA CowCopy ==
    ASSUME CowInv, NEW e \in Env, cow_copy(e)
    PROVE  CowInv'
<1> USE DEF CowInv
<1>1. PICK s : s = [st[e] EXCEPT !.pc = "map"]
    OBVIOUS
<1>2. st' = [st EXCEPT ![e] = s]
    BY <1>1 DEF cow_copy, Goto
<1>3. s.pc = "map" /\ s.a = st[e].a /\ s \in [pc : Stage, a : Addr \cup {0}]
    BY <1>1 DEF Types, Stage
<1>4. st[e].pc = "copy"
    BY DEF cow_copy, At
<1>5. UNCHANGED <<prog, pte, ucow, status, fk>> /\ data' = [data EXCEPT ![ucow[e]] = data[Target(e).pg]]
    BY DEF cow_copy
<1>6. Target(e).pg \in Page /\ ucow[e] \in Page /\ ucow[e] # Target(e).pg
    BY <1>4, CopyPages
<1>7. Types'
    BY <1>2, <1>3, <1>5, <1>6 DEF Types
<1>8. \A f \in Env : st'[f] = IF f = e THEN s ELSE st[f]
    BY <1>2 DEF Types
<1>9. data'[ucow[e]] = data[Target(e).pg] /\ \A q \in Page : q # ucow[e] => data'[q] = data[q]
    BY <1>5, <1>6 DEF Types
<1>10. Entries' /\ SharedReadOnly' /\ \A f \in Env, v \in Vpn : Alone(f, v)' = Alone(f, v)
    BY <1>5, EntriesKept
<1>11. Idle'
    BY <1>4, <1>5, <1>8 DEF Idle
<1>12. Forks'
    BY <1>3, <1>4, <1>5, <1>8 DEF Forks, ForkOk
<1>13. Stages'
  <2> SUFFICES ASSUME NEW f \in Env PROVE StageOk(f)'
      BY DEF Stages
  <2>1. StageOk(f)
      BY DEF Stages
  <2>2. CASE f = e
    <3>1. Target(f)' = Target(e)
        BY <1>3, <1>5, <1>8, <2>2 DEF Target
    <3>2. data'[ucow[e]] = data'[Target(e).pg]
        BY <1>6, <1>9
    <3> QED BY <1>3, <1>4, <1>5, <1>8, <2>1, <2>2, <3>1, <3>2 DEF StageOk
  <2>3. CASE f # e
    <3>1. UNCHANGED <<st[f], pte[f], ucow[f]>>
        BY <1>5, <1>8, <2>3
    <3>2. ASSUME st[f].pc = "map"
          PROVE  data'[ucow[f]] = data[ucow[f]] /\ data'[Target(f).pg] = data[Target(f).pg]
      <4>1. /\ PageOf(st[f].a) \in Vpn /\ Target(f) = pte[f][PageOf(st[f].a)]
            /\ Target(f).pg \in Page /\ ucow[f] \in Page
          BY <3>2, CopyPages
      <4>2. Target(f).pg # ucow[e]
          BY <1>4, <4>1 DEF Stages, StageOk
      <4>3. ucow[f] # ucow[e]
          BY <1>6, <2>3, SizeIs DEF Ucows
      <4> QED BY <1>9, <4>1, <4>2, <4>3
    <3> QED BY <1>5, <1>10, <2>1, <3>1, <3>2, StageKept DEF StageOk
  <2> QED BY <2>2, <2>3
<1>14. Ucows'
    BY <1>5 DEF Ucows
<1> QED BY <1>7, <1>10, <1>11, <1>12, <1>13, <1>14

(* A page that is being copied is one that nobody can write to. *)
LEMMA NotWritten ==
    ASSUME CowInv, NEW e \in Env, NEW v \in Vpn, pte[e][v].w, NEW f \in Env, f # e,
           st[f].pc \in {"copy", "map"}
    PROVE  pte[e][v].pg # Target(f).pg /\ pte[e][v].pg # ucow[f]
<1> USE DEF CowInv
<1>1. /\ PageOf(st[f].a) \in Vpn /\ Target(f) = pte[f][PageOf(st[f].a)]
      /\ Target(f).pg \in Page /\ Target(f).pg # LibPage
    BY CopyPages
<1>2. pte[e][v].pg # ucow[f]
    BY DEF Stages, StageOk
<1>3. SUFFICES ASSUME pte[e][v].pg = Target(f).pg PROVE FALSE
    BY <1>2
<1>4. pte[e][v].pg \notin {0, LibPage}
    BY <1>1, <1>3, SizeIs
<1>5. \E u \in Vpn : Half(e, f, u)
    BY <1>1, <1>3, <1>4 DEF SharedReadOnly
<1>6. status[f] = "new"
    BY <1>5 DEF Half, Forks, ForkOk
<1> QED BY <1>6 DEF Idle

LEMMA Stores ==
    ASSUME CowInv, NEW e \in Env, Store(e)
    PROVE  CowInv'
<1> USE DEF CowInv
<1>1. UNCHANGED <<prog, pte, ucow, status, fk>> /\ st' = [st EXCEPT ![e] = NoStore]
    BY DEF Store
<1>2. st[e].pc = "try" /\ Target(e).pg # 0 /\ Target(e).w /\ StageOk(e)
    BY DEF Store, At, Stages
<1>3. PICK v \in Vpn, o \in Offsets : v = PageOf(st[e].a) /\ o = Off(st[e].a)
    BY <1>2, AddrIs DEF StageOk
<1>4. PICK p \in Page : p = pte[e][v].pg
    BY <1>2, <1>3, SizeIs DEF Target, Types, Pte
<1>5. data' = [data EXCEPT ![p][o] = Stored]
    BY <1>3, <1>4 DEF Store, Target
<1>6. NoStore \in [pc : Stage, a : Addr \cup {0}] /\ NoStore.pc = "none"
    BY DEF NoStore, Stage
<1>7. Types'
  <2>1. data' \in [Page -> [Offsets -> Nat]]
      BY <1>5 DEF Types, Stored
  <2> QED BY <1>1, <1>6, <2>1 DEF Types
<1>8. \A f \in Env : st'[f] = IF f = e THEN NoStore ELSE st[f]
    BY <1>1 DEF Types
<1>9. \A q \in Page : q # p => data'[q] = data[q]
    BY <1>5 DEF Types
<1>10. Entries' /\ SharedReadOnly' /\ \A f \in Env, u \in Vpn : Alone(f, u)' = Alone(f, u)
    BY <1>1, EntriesKept
<1>11. Idle'
    BY <1>1, <1>2, <1>6, <1>8 DEF Idle
<1>12. Forks'
    BY <1>1, <1>2, <1>6, <1>8 DEF Forks, ForkOk
<1>13. Stages'
  <2> SUFFICES ASSUME NEW f \in Env PROVE StageOk(f)'
      BY DEF Stages
  <2>1. StageOk(f)
      BY DEF Stages
  <2>2. CASE f = e
      BY <1>1, <1>2, <1>6, <1>8, <2>2 DEF StageOk
  <2>3. CASE f # e
    <3>1. UNCHANGED <<st[f], pte[f], ucow[f]>>
        BY <1>1, <1>8, <2>3
    <3>2. ASSUME st[f].pc = "map"
          PROVE  data'[ucow[f]] = data[ucow[f]] /\ data'[Target(f).pg] = data[Target(f).pg]
      <4>1. Target(f).pg \in Page /\ ucow[f] \in Page
          BY <3>2, CopyPages
      <4>2. Target(f).pg # p /\ ucow[f] # p
          BY <1>2, <1>3, <1>4, <2>3, <3>2, NotWritten DEF Target
      <4> QED BY <1>9, <4>1, <4>2
    <3> QED BY <1>1, <1>10, <2>1, <3>1, <3>2, StageKept DEF StageOk
  <2> QED BY <2>2, <2>3
<1>14. Ucows'
    BY <1>1 DEF Ucows
<1> QED BY <1>7, <1>10, <1>11, <1>12, <1>13, <1>14

LEMMA ForkEnd ==
    ASSUME CowInv, NEW e \in Env, fork_end(e)
    PROVE  CowInv' /\ fk[e].child # e
<1> USE DEF CowInv
<1>1. PICK c \in Env : c = fk[e].child
    BY DEF Types
<1>2. /\ UNCHANGED <<prog, data, pte, ucow, st>>
      /\ status' = [status EXCEPT ![c] = "run"] /\ fk' = [fk EXCEPT ![e] = NoFork]
    BY <1>1 DEF fork_end
<1>3. fk[e].on /\ st[e].pc = "none" /\ fk[e].vpn = Cardinality(Vpn) /\ ForkOk(e)
    BY DEF fork_end, Forks
<1>4. NoFork \in [child : Env, vpn : 0..Cardinality(Vpn), half : BOOLEAN, on : BOOLEAN] /\ ~NoFork.on
    BY VpnIs, CowAssumption DEF NoFork
<1>5. Types'
    BY <1>2, <1>4 DEF Types
<1>6. \A f \in Env : /\ status'[f] = IF f = c THEN "run" ELSE status[f]
                     /\ fk'[f] = IF f = e THEN NoFork ELSE fk[f]
    BY <1>2 DEF Types
<1>7. status[c] = "new" /\ status[e] = "run" /\ c # e
    BY <1>1, <1>3 DEF ForkOk, Idle
<1>8. pte[c][LibVpn] = LibPte
  <2>1. Order(LibVpn) < Cardinality(Vpn)
      BY OrderIs, VpnIs
  <2>2. pte[c][LibVpn].pg = pte[e][LibVpn].pg
      BY <1>1, <1>3, <2>1, VpnIs DEF ForkOk
  <2>3. pte[e][LibVpn] = LibPte /\ pte[c][LibVpn] \in {NoPte, LibPte}
      BY <1>7, VpnIs DEF Entries
  <2>4. NoPte.pg = 0 /\ LibPte.pg = 1
      BY DEF NoPte, LibPte, LibPage
  <2> QED BY <2>2, <2>3, <2>4
<1>9. Entries'
    BY <1>2, <1>6, <1>8 DEF Entries
<1>10. Idle'
    BY <1>2, <1>4, <1>6 DEF Idle
<1>11. Forks'
  <2> SUFFICES ASSUME NEW f \in Env, fk'[f].on PROVE ForkOk(f)'
      BY DEF Forks, ForkOk
  <2>1. f # e /\ fk'[f] = fk[f] /\ fk[f].on
      BY <1>4, <1>6
  <2>2. ForkOk(f) /\ fk[f].child # c /\ fk[f].child \in Env
      BY <1>1, <1>3, <2>1 DEF Forks, ForkOk, Types
  <2>3. \A g \in Env : fk'[g].on /\ fk'[g].child = fk'[f].child => g = f
      BY <1>4, <1>6, <2>1, <2>2 DEF ForkOk
  <2> QED BY <1>2, <1>6, <2>1, <2>2, <2>3 DEF ForkOk
<1>12. SharedReadOnly'
  <2>1. \A g \in Env, v \in Vpn : ~Half(e, g, v)
      BY <1>3, VpnIs DEF Half, ForkOk
  <2>2. \A f, g \in Env, v \in Vpn : Half(f, g, v) => Half(f, g, v)'
      BY <1>6, <2>1 DEF Half
  <2> QED BY <1>2, <2>2 DEF SharedReadOnly
<1>13. Stages' /\ Ucows'
    BY <1>2 DEF Stages, StageOk, Target, Alone, Ucows
<1> QED BY <1>1, <1>5, <1>7, <1>9, <1>10, <1>11, <1>12, <1>13
LEMMA FaultWrite ==
    ASSUME CowInv, NEW e \in Env, fault_write(e)
    PROVE  CowInv'
<1> USE DEF CowInv
<1>1. st[e].pc = "try" /\ Target(e).pg # 0 /\ ~Target(e).w /\ ~Target(e).cow /\ StageOk(e)
    BY DEF fault_write, At, Stages
<1>2. PICK v \in Vpn : v = PageOf(st[e].a)
    BY <1>1, AddrIs DEF StageOk
<1>3. PICK x : x = [pte[e][v] EXCEPT !.w = TRUE]
    OBVIOUS
<1>4. /\ UNCHANGED <<prog, data, ucow, status, st, fk>>
      /\ pte' = [pte EXCEPT ![e][v] = x]
    BY <1>2, <1>3 DEF fault_write
<1>5. Target(e) = pte[e][v] /\ pte[e][v] \in Pte
    BY <1>2 DEF Target, Types
<1>6. /\ x \in Pte /\ x.pg = pte[e][v].pg /\ x.w = TRUE
      /\ x.cow = pte[e][v].cow /\ x.lib = pte[e][v].lib
    BY <1>3, <1>5 DEF Pte
<1>7. Types'
    BY <1>4, <1>6 DEF Types
<1>8. \A f \in Env, u \in Vpn : pte'[f][u] = IF f = e /\ u = v THEN x ELSE pte[f][u]
    BY <1>4 DEF Types
<1>9. \A f \in Env, u \in Vpn : pte'[f][u].pg = pte[f][u].pg
    BY <1>6, <1>8
<1>10. v # LibVpn /\ status[e] = "run"
    BY <1>1, <1>5 DEF Entries, Idle, LibPte, NoPte
<1>11. Entries'
    BY <1>1, <1>4, <1>5, <1>6, <1>8, <1>10 DEF Entries
<1>12. Idle'
    BY <1>4 DEF Idle
<1>13. Forks'
  <2> SUFFICES ASSUME NEW f \in Env, fk[f].on PROVE ForkOk(f)'
      BY <1>4 DEF Forks, ForkOk
  <2>1. ForkOk(f) /\ fk[f].child # e /\ fk[f].child \in Env
      BY <1>10 DEF Forks, ForkOk, Types
  <2>2. \A u \in Vpn : fk[f].half /\ Order(u) = fk[f].vpn =>
            pte'[f][u] = pte[f][u] /\ pte'[fk[f].child][u] = pte[fk[f].child][u]
      BY <1>1, <1>5, <1>8, <2>1 DEF ForkOk
  <2> QED BY <1>4, <1>9, <2>1, <2>2 DEF ForkOk
<1>14. Alone(e, v)
    BY <1>1, <1>2 DEF StageOk
<1>15. SharedReadOnly'
  <2>1. \A f, g \in Env, u \in Vpn : Half(f, g, u)' = Half(f, g, u)
      BY <1>4 DEF Half
  <2> SUFFICES ASSUME NEW f \in Env, NEW g \in Env, NEW t \in Vpn, NEW u \in Vpn,
                      pte'[f][t].pg \notin {0, LibPage}, pte'[g][u].pg = pte'[f][t].pg,
                      f # g \/ u # t
               PROVE  u = t /\ (pte'[f][t].w => Half(f, g, t))
      BY <2>1 DEF SharedReadOnly
  <2>2. pte[f][t].pg \notin {0, LibPage} /\ pte[g][u].pg = pte[f][t].pg
      BY <1>9
  <2>3. ~(f = e /\ t = v)
      BY <1>14, <2>2 DEF Alone
  <2>4. pte'[f][t] = pte[f][t]
      BY <1>8, <2>3
  <2> QED BY <2>2, <2>4 DEF SharedReadOnly
<1>16. Stages'
  <2> SUFFICES ASSUME NEW f \in Env PROVE StageOk(f)'
      BY DEF Stages
  <2>1. StageOk(f)
      BY DEF Stages
  <2>2. CASE f = e
    <3>1. Target(f)' = x
        BY <1>2, <1>4, <1>8, <2>2 DEF Target
    <3> QED BY <1>1, <1>4, <1>6, <2>1, <2>2, <3>1 DEF StageOk
  <2>3. CASE f # e
    <3>1. UNCHANGED <<st[f], pte[f], ucow[f]>>
        BY <1>4, <2>3 DEF Types
    <3>2. \A u \in Vpn : Alone(f, u) => Alone(f, u)'
        BY <1>9 DEF Alone
    <3> QED BY <1>4, <1>9, <2>1, <3>1, <3>2, StageKept DEF StageOk
  <2> QED BY <2>2, <2>3
<1>17. Ucows'
    BY <1>4 DEF Ucows
<1> QED BY <1>7, <1>11, <1>12, <1>13, <1>15, <1>16, <1>17

(* An entry that could not be written gets a page that nobody maps. *)
LEMMA FreshEntry ==
    ASSUME CowInv, NEW e \in Env, status[e] = "run", NEW v \in Vpn, v # LibVpn,
           fk[e].on => v = StackVpn, ~pte[e][v].w,
           NEW p \in Page, p # LibPage, \A f \in Env, u \in Vpn : pte[f][u].pg # p,
           NEW x, x = [pg |-> p, w |-> TRUE, cow |-> FALSE, lib |-> FALSE],
           pte' = [pte EXCEPT ![e][v] = x],
           UNCHANGED <<status, fk>>,
           \A f \in Env : st'[f].pc # "none" => st[f].pc # "none" /\ st'[f].a = st[f].a
    PROVE  /\ pte' \in [Env -> [Vpn -> Pte]] /\ Entries' /\ Forks' /\ SharedReadOnly'
           /\ \A f \in Env, u \in Vpn : f # e \/ u # v => pte'[f][u] = pte[f][u]
           /\ \A f \in Env, u \in Vpn : f # e /\ Alone(f, u) => Alone(f, u)'
           /\ pte'[e][v].pg = p /\ pte'[e][v].w
<1> USE DEF CowInv
<1>2. x.pg = p /\ x.w = TRUE /\ x.cow = FALSE /\ x.lib = FALSE /\ x \in Pte /\ p # 0
    BY SizeIs DEF Pte
<1>3. pte' = [pte EXCEPT ![e][v] = x]
    OBVIOUS
<1>4. pte' \in [Env -> [Vpn -> Pte]]
    BY <1>2, <1>3 DEF Types
<1>5. \A f \in Env, u \in Vpn : pte'[f][u] = IF f = e /\ u = v THEN x ELSE pte[f][u]
    BY <1>3 DEF Types
<1>6. Entries'
    BY <1>2, <1>5 DEF Entries
<1>7. Forks'
  <2> SUFFICES ASSUME NEW f \in Env, fk[f].on PROVE ForkOk(f)'
      BY DEF Forks, ForkOk
  <2>1. ForkOk(f) /\ fk[f].child # e /\ fk[f].child \in Env
      BY DEF Forks, ForkOk, Types
  <2>2. \A u \in Vpn : fk[f].half /\ Order(u) = fk[f].vpn =>
            pte'[f][u] = pte[f][u] /\ pte'[fk[f].child][u] = pte[fk[f].child][u]
      BY <1>5, <2>1 DEF ForkOk
  <2>3. \A u \in Vpn : u # StackVpn =>
            pte'[f][u] = pte[f][u] /\ pte'[fk[f].child][u] = pte[fk[f].child][u]
      BY <1>5, <2>1
  <2>4. st'[f].pc # "none" => PageOf(st'[f].a) = StackVpn
      BY <2>1 DEF ForkOk
  <2> QED BY <2>1, <2>2, <2>3, <2>4 DEF ForkOk
<1>8. SharedReadOnly'
  <2>1. \A f, g \in Env, u \in Vpn : Half(f, g, u)' = Half(f, g, u)
      BY DEF Half
  <2> SUFFICES ASSUME NEW f \in Env, NEW g \in Env, NEW t \in Vpn, NEW u \in Vpn,
                      pte'[f][t].pg \notin {0, LibPage}, pte'[g][u].pg = pte'[f][t].pg,
                      f # g \/ u # t
               PROVE  u = t /\ (pte'[f][t].w => Half(f, g, t))
      BY <2>1 DEF SharedReadOnly
  <2>2. ~(f = e /\ t = v)
      BY <1>2, <1>5
  <2>3. ~(g = e /\ u = v)
      BY <1>2, <1>5
  <2>4. pte'[f][t] = pte[f][t] /\ pte'[g][u] = pte[g][u]
      BY <1>5, <2>2, <2>3
  <2> QED BY <2>4 DEF SharedReadOnly
<1>9. \A f \in Env, u \in Vpn : f # e /\ Alone(f, u) => Alone(f, u)'
    BY <1>2, <1>5 DEF Alone
<1> QED BY <1>2, <1>4, <1>5, <1>6, <1>7, <1>8, <1>9

LEMMA FaultAlloc ==
    ASSUME CowInv, NEW e \in Env, fault_alloc(e)
    PROVE  CowInv' /\ page_alloc \in Free
<1> USE DEF CowInv
<1>1. st[e].pc = "try" /\ Target(e).pg = 0 /\ StageOk(e) /\ status[e] = "run"
    BY DEF fault_alloc, At, Stages, Idle
<1>2. PICK v \in Vpn : v = PageOf(st[e].a)
    BY <1>1, AddrIs DEF StageOk
<1>3. pte[e][v].pg = 0 /\ pte[e][v] = NoPte
    BY <1>1, <1>2 DEF Target, Entries
<1>4. v # LibVpn /\ ~pte[e][v].w
    BY <1>1, <1>3 DEF Entries, LibPte, LibPage, NoPte
<1>5. PICK p : p = page_alloc
    OBVIOUS
<1>6. /\ p \in Page /\ p \in Free /\ p # LibPage /\ p # 0
      /\ \A f \in Env, u \in Vpn : pte[f][u].pg # p
      /\ \A f \in Env : ucow[f] # p
    BY <1>1, <1>5, FreeOne, FreePages, SizeIs
<1>x. PICK x : x = [NoPte EXCEPT !.pg = p, !.w = TRUE]
    OBVIOUS
<1>y. x = [pg |-> p, w |-> TRUE, cow |-> FALSE, lib |-> FALSE]
    BY <1>x DEF NoPte
<1>7. /\ UNCHANGED <<prog, ucow, status, st, fk>> /\ data' = [data EXCEPT ![p] = ZeroPage]
      /\ pte' = [pte EXCEPT ![e][v] = x]
    BY <1>2, <1>5, <1>x DEF fault_alloc
<1>8. fk[e].on => v = StackVpn
    BY <1>1, <1>2 DEF Forks, ForkOk
<1>9. /\ pte' \in [Env -> [Vpn -> Pte]] /\ Entries' /\ Forks' /\ SharedReadOnly'
      /\ \A f \in Env, u \in Vpn : f # e \/ u # v => pte'[f][u] = pte[f][u]
      /\ \A f \in Env, u \in Vpn : f # e /\ Alone(f, u) => Alone(f, u)'
      /\ pte'[e][v].pg = p /\ pte'[e][v].w
  <2>1. \A f \in Env : st'[f].pc # "none" => st[f].pc # "none" /\ st'[f].a = st[f].a
      BY <1>7
  <2>2. UNCHANGED <<status, fk>>
      BY <1>7
  <2> QED BY <1>1, <1>4, <1>6, <1>7, <1>8, <1>y, <2>1, <2>2, FreshEntry
<1>10. Types'
  <2>1. ZeroPage \in [Offsets -> Nat]
      BY DEF ZeroPage, Offsets
  <2> QED BY <1>6, <1>7, <1>9, <2>1 DEF Types
<1>11. Idle' /\ Ucows'
    BY <1>7 DEF Idle, Ucows
<1>12. \A q \in Page : q # p => data'[q] = data[q]
    BY <1>7 DEF Types
<1>13. Stages'
  <2> SUFFICES ASSUME NEW f \in Env PROVE StageOk(f)'
      BY DEF Stages
  <2>1. StageOk(f)
      BY DEF Stages
  <2>2. CASE f = e
    <3>1. Target(f)'.w
        BY <1>2, <1>7, <1>9, <2>2 DEF Target
    <3> QED BY <1>1, <1>7, <2>1, <2>2, <3>1 DEF StageOk
  <2>3. CASE f # e
    <3>1. UNCHANGED <<st[f], pte[f], ucow[f]>>
        BY <1>7, <2>3 DEF Types
    <3>2. ASSUME st[f].pc = "map"
          PROVE  data'[ucow[f]] = data[ucow[f]] /\ data'[Target(f).pg] = data[Target(f).pg]
      <4>1. /\ Target(f).pg \in Page /\ ucow[f] \in Page
            /\ PageOf(st[f].a) \in Vpn /\ Target(f) = pte[f][PageOf(st[f].a)]
          BY <3>2, CopyPages
      <4> QED BY <1>6, <1>12, <4>1
    <3>3. st[f].pc \in {"copy", "map"} => \A g \in Env, u \in Vpn : pte'[g][u].pg # ucow[f]
        BY <1>6, <1>9, <2>1 DEF StageOk
    <3> QED BY <1>9, <2>3, <3>1, <3>2, <3>3, StageKept
  <2> QED BY <2>2, <2>3
<1> QED BY <1>5, <1>6, <1>9, <1>10, <1>11, <1>13
(* What the model forgets are pages whose last mapping goes. *)
LEMMA Forgotten ==
    ASSUME Types, NEW S, Forget(S)
    PROVE  /\ data' \in [Page -> [Offsets -> Nat]]
           /\ \A q \in Page : q \notin S => data'[q] = data[q]
           /\ data'[LibPage] = data[LibPage]
<1>1. ZeroPage \in [Offsets -> Nat]
    BY DEF ZeroPage, Offsets
<1> QED BY <1>1, SizeIs DEF Forget, Types

LEMMA MapperIs ==
    ASSUME NEW f \in Env, NEW u \in Vpn
    PROVE  <<f, u>> \in Mappers(pte[f][u].pg)
<1>1. <<f, u>> \in Env \X Vpn /\ <<f, u>>[1] = f /\ <<f, u>>[2] = u
    OBVIOUS
<1> QED BY <1>1 DEF Mappers

LEMMA CowMap ==
    ASSUME CowInv, NEW e \in Env, cow_map(e)
    PROVE  /\ CowInv'
           /\ \A f \in Env, u \in Vpn : (f # e \/ u # PageOf(st[e].a)) /\ pte[f][u].pg # 0 =>
                 data'[pte[f][u].pg] = data[pte[f][u].pg]
           /\ data'[ucow[e]] = data[ucow[e]]
<1> USE DEF CowInv
<1>1. st[e].pc = "map" /\ StageOk(e)
    BY DEF cow_map, At, Stages
<1>2. PICK v \in Vpn : v = PageOf(st[e].a)
    BY <1>1, CopyPages
<1>3. /\ Target(e) = pte[e][v] /\ ucow[e] \in Page /\ ucow[e] # LibPage
      /\ v # LibVpn /\ status[e] = "run" /\ ~pte[e][v].w
    BY <1>1, <1>2, CopyPages DEF StageOk
<1>4. PICK p \in Page : p = ucow[e]
    BY <1>3
<1>5. PICK x : x = [pg |-> p, w |-> TRUE, cow |-> FALSE, lib |-> FALSE]
    OBVIOUS
<1>6. pte[e][v].lib = FALSE
    BY <1>3 DEF Entries, Types, Pte
<1>7. pte' = [pte EXCEPT ![e][v] = x]
    BY <1>2, <1>4, <1>5, <1>6 DEF cow_map
<1>8. PICK s : s = [st[e] EXCEPT !.pc = "unmap"]
    OBVIOUS
<1>9. st' = [st EXCEPT ![e] = s] /\ UNCHANGED <<prog, ucow, status, fk>>
    BY <1>8 DEF cow_map, Goto
<1>10. s.pc = "unmap" /\ s.a = st[e].a /\ s \in [pc : Stage, a : Addr \cup {0}]
  <2>1. st[e] \in [pc : Stage, a : Addr \cup {0}]
      BY DEF Types
  <2> QED BY <1>8, <2>1 DEF Stage
<1>11. \A f \in Env : st'[f] = IF f = e THEN s ELSE st[f]
    BY <1>9 DEF Types
<1>12. \A f \in Env, u \in Vpn : pte[f][u].pg # p
    BY <1>1, <1>4 DEF StageOk
<1>13. fk[e].on => v = StackVpn
    BY <1>1, <1>2 DEF Forks, ForkOk
<1>14. /\ pte' \in [Env -> [Vpn -> Pte]] /\ Entries' /\ Forks' /\ SharedReadOnly'
       /\ \A f \in Env, u \in Vpn : f # e \/ u # v => pte'[f][u] = pte[f][u]
       /\ \A f \in Env, u \in Vpn : f # e /\ Alone(f, u) => Alone(f, u)'
       /\ pte'[e][v].pg = p /\ pte'[e][v].w
  <2>1. \A f \in Env : st'[f].pc # "none" => st[f].pc # "none" /\ st'[f].a = st[f].a
      BY <1>1, <1>10, <1>11
  <2>2. UNCHANGED <<status, fk>>
      BY <1>9
  <2>3. p # LibPage
      BY <1>3, <1>4
  <2> QED BY <1>3, <1>5, <1>7, <1>12, <1>13, <2>1, <2>2, <2>3, FreshEntry
<1>15. PICK S : S = {q \in Page : Mappers(q) = {<<e, v>>}}
    OBVIOUS
<1>16. Forget(S)
    BY <1>2, <1>15 DEF cow_map
<1>17. data' \in [Page -> [Offsets -> Nat]] /\ \A q \in Page : q \notin S => data'[q] = data[q]
    BY <1>16, Forgotten
<1>18. ASSUME NEW f \in Env, NEW u \in Vpn, f # e \/ u # v, pte[f][u].pg # 0
       PROVE  data'[pte[f][u].pg] = data[pte[f][u].pg]
  <2>1. pte[f][u].pg \in Page
      BY <1>18, SizeIs DEF Types, Pte
  <2>2. <<f, u>> # <<e, v>>
      BY <1>18
  <2>3. pte[f][u].pg \notin S
      BY <1>15, <2>2, MapperIs
  <2> QED BY <1>17, <2>1, <2>3
<1>19. ASSUME NEW q \in Page, \A f \in Env, u \in Vpn : pte[f][u].pg # q
       PROVE  data'[q] = data[q]
  <2>1. <<e, v>> \notin Mappers(q)
      BY <1>19 DEF Mappers
  <2>2. q \notin S
      BY <1>15, <2>1
  <2> QED BY <1>17, <2>2
<1>20. Types'
    BY <1>9, <1>10, <1>14, <1>17 DEF Types
<1>21. Idle' /\ Ucows'
    BY <1>3, <1>9, <1>11 DEF Idle, Ucows
<1>22. Stages'
  <2> SUFFICES ASSUME NEW f \in Env PROVE StageOk(f)'
      BY DEF Stages
  <2>1. StageOk(f)
      BY DEF Stages
  <2>2. CASE f = e
    <3>1. Target(f)'.w
        BY <1>2, <1>10, <1>11, <1>14, <2>2 DEF Target
    <3> QED BY <1>1, <1>9, <1>10, <1>11, <2>1, <2>2, <3>1 DEF StageOk
  <2>3. CASE f # e
    <3>1. UNCHANGED <<st[f], pte[f], ucow[f]>>
        BY <1>7, <1>9, <1>11, <2>3 DEF Types
    <3>2. ASSUME st[f].pc = "map"
          PROVE  data'[ucow[f]] = data[ucow[f]] /\ data'[Target(f).pg] = data[Target(f).pg]
      <4>1. /\ Target(f).pg \in Page /\ ucow[f] \in Page
            /\ PageOf(st[f].a) \in Vpn /\ Target(f) = pte[f][PageOf(st[f].a)]
          BY <3>2, CopyPages
      <4>2. data'[Target(f).pg] = data[Target(f).pg]
          BY <1>18, <2>3, <4>1, SizeIs
      <4>3. data'[ucow[f]] = data[ucow[f]]
          BY <1>19, <2>1, <3>2, <4>1 DEF StageOk
      <4> QED BY <4>2, <4>3
    <3>3. st[f].pc \in {"copy", "map"} => \A g \in Env, u \in Vpn : pte'[g][u].pg # ucow[f]
      <4>1. p # ucow[f]
          BY <1>4, <2>3, SizeIs DEF Ucows
      <4> QED BY <1>14, <2>1, <4>1 DEF StageOk
    <3> QED BY <1>14, <2>3, <3>1, <3>2, <3>3, StageKept
  <2> QED BY <2>2, <2>3
<1>23. data'[ucow[e]] = data[ucow[e]]
    BY <1>4, <1>12, <1>19
<1> QED BY <1>2, <1>14, <1>18, <1>20, <1>21, <1>22, <1>23

LEMMA Exit ==
    ASSUME CowInv, NEW e \in Env, exit(e)
    PROVE  /\ CowInv'
           /\ \A f \in Env, u \in Vpn : f # e /\ pte[f][u].pg # 0 =>
                 data'[pte[f][u].pg] = data[pte[f][u].pg]
<1> USE DEF CowInv
<1>1. status[e] = "run" /\ st[e].pc = "none" /\ ~fk[e].on /\ StageOk(e)
    BY DEF exit, Quiet, Stages
<1>2. /\ UNCHANGED <<prog, ucow, st, fk>> /\ status' = [status EXCEPT ![e] = "none"]
      /\ pte' = [pte EXCEPT ![e] = [v \in Vpn |-> NoPte]]
    BY DEF exit
<1>3. NoPte \in Pte /\ NoPte.pg = 0 /\ ~NoPte.lib
    BY SizeIs DEF NoPte, Pte
<1>4. \A f \in Env : /\ status'[f] = IF f = e THEN "none" ELSE status[f]
                     /\ f # e => pte'[f] = pte[f]
                     /\ \A v \in Vpn : pte'[f][v] = IF f = e THEN NoPte ELSE pte[f][v]
    BY <1>2 DEF Types
<1>5. PICK S : S = {q \in Page : Mappers(q) # {} /\ Mappers(q) \subseteq {e} \X Vpn}
    OBVIOUS
<1>6. Forget(S)
    BY <1>5 DEF exit
<1>7. data' \in [Page -> [Offsets -> Nat]] /\ \A q \in Page : q \notin S => data'[q] = data[q]
    BY <1>6, Forgotten
<1>8. ASSUME NEW f \in Env, NEW u \in Vpn, f # e, pte[f][u].pg # 0
      PROVE  data'[pte[f][u].pg] = data[pte[f][u].pg]
  <2>1. pte[f][u].pg \in Page
      BY <1>8, SizeIs DEF Types, Pte
  <2>2. <<f, u>> \notin {e} \X Vpn
      BY <1>8
  <2>3. pte[f][u].pg \notin S
      BY <1>5, <2>2, MapperIs
  <2> QED BY <1>7, <2>1, <2>3
<1>9. ASSUME NEW q \in Page, \A f \in Env, u \in Vpn : pte[f][u].pg # q
      PROVE  data'[q] = data[q]
  <2>1. Mappers(q) = {}
      BY <1>9 DEF Mappers
  <2>2. q \notin S
      BY <1>5, <2>1
  <2> QED BY <1>7, <2>2
<1>10. Types'
    BY <1>2, <1>3, <1>7 DEF Types
<1>11. Entries'
    BY <1>3, <1>4 DEF Entries, LibPage
<1>12. Idle' /\ Ucows'
    BY <1>1, <1>2, <1>4 DEF Idle, Ucows, StageOk
<1>13. Forks'
  <2> SUFFICES ASSUME NEW f \in Env, fk[f].on PROVE ForkOk(f)'
      BY <1>2 DEF Forks, ForkOk
  <2>1. ForkOk(f) /\ f # e /\ fk[f].child # e /\ fk[f].child \in Env
      BY <1>1 DEF Forks, ForkOk, Types
  <2> QED BY <1>2, <1>4, <2>1 DEF ForkOk
<1>14. SharedReadOnly'
  <2>1. \A f, g \in Env, u \in Vpn : Half(f, g, u)' = Half(f, g, u)
      BY <1>2 DEF Half
  <2> SUFFICES ASSUME NEW f \in Env, NEW g \in Env, NEW t \in Vpn, NEW u \in Vpn,
                      pte'[f][t].pg \notin {0, LibPage}, pte'[g][u].pg = pte'[f][t].pg,
                      f # g \/ u # t
               PROVE  u = t /\ (pte'[f][t].w => Half(f, g, t))
      BY <2>1 DEF SharedReadOnly
  <2>2. f # e /\ g # e
      BY <1>3, <1>4
  <2>3. pte'[f][t] = pte[f][t] /\ pte'[g][u] = pte[g][u]
      BY <1>4, <2>2
  <2> QED BY <2>3 DEF SharedReadOnly
<1>15. Stages'
  <2> SUFFICES ASSUME NEW f \in Env PROVE StageOk(f)'
      BY DEF Stages
  <2>1. StageOk(f)
      BY DEF Stages
  <2>2. CASE f = e
      BY <1>1, <1>2, <2>2 DEF StageOk
  <2>3. CASE f # e
    <3>1. UNCHANGED <<st[f], pte[f], ucow[f]>>
        BY <1>2, <1>4, <2>3
    <3>2. ASSUME st[f].pc = "map"
          PROVE  data'[ucow[f]] = data[ucow[f]] /\ data'[Target(f).pg] = data[Target(f).pg]
      <4>1. /\ Target(f).pg \in Page /\ ucow[f] \in Page
            /\ PageOf(st[f].a) \in Vpn /\ Target(f) = pte[f][PageOf(st[f].a)]
          BY <3>2, CopyPages
      <4>2. data'[Target(f).pg] = data[Target(f).pg]
          BY <1>8, <2>3, <4>1, SizeIs
      <4>3. data'[ucow[f]] = data[ucow[f]]
          BY <1>9, <2>1, <3>2, <4>1 DEF StageOk
      <4> QED BY <4>2, <4>3
    <3>3. st[f].pc \in {"copy", "map"} => \A g \in Env, u \in Vpn : pte'[g][u].pg # ucow[f]
        BY <1>3, <1>4, <2>1 DEF StageOk
    <3>4. \A u \in Vpn : Alone(f, u) /\ pte[f][u].pg # 0 => Alone(f, u)'
        BY <1>3, <1>4, <2>3 DEF Alone
    <3> QED BY <3>1, <3>2, <3>3, <3>4, StageKept
  <2> QED BY <2>2, <2>3
<1> QED BY <1>8, <1>10, <1>11, <1>12, <1>13, <1>14, <1>15
(* Process e is about to copy page v to its child c. *)
Copying(e, c, v) ==
    /\ c = fk[e].child /\ v = VpnAt(fk[e].vpn) /\ Order(v) = fk[e].vpn
    /\ fk[e].vpn < Cardinality(Vpn) /\ fk[e].on /\ st[e].pc = "none" /\ st[c].pc = "none"
    /\ c # e /\ status[e] = "run" /\ status[c] = "new" /\ ~fk[c].on /\ ucow[c] = 0
    /\ \A f \in Env : fk[f].on => fk[f].child # e /\ (f # e => fk[f].child # c)

LEMMA Duppage ==
    ASSUME CowInv, NEW e \in Env, duppage(e)
    PROVE  \E c \in Env, v \in Vpn : Copying(e, c, v)
<1> USE DEF CowInv
<1>1. PICK c \in Env : c = fk[e].child
    BY DEF Types
<1>2. fk[e].on /\ st[e].pc = "none" /\ fk[e].vpn < Cardinality(Vpn) /\ ForkOk(e)
    BY DEF duppage, Forks
<1>3. fk[e].vpn \in 0..Cardinality(Vpn)
    BY DEF Types
<1>4. PICK v \in Vpn : v = VpnAt(fk[e].vpn) /\ Order(v) = fk[e].vpn
    BY <1>2, <1>3, VpnAtIs
<1>5. status[e] = "run" /\ status[c] = "new"
    BY <1>1, <1>2 DEF ForkOk, Idle
<1>6. st[c].pc = "none" /\ ~fk[c].on /\ ucow[c] = 0
    BY <1>5 DEF Idle
<1>7. \A f \in Env : fk[f].on => fk[f].child # e /\ (f # e => fk[f].child # c)
    BY <1>1, <1>2, <1>5 DEF Forks, ForkOk
<1>8. Copying(e, c, v)
    BY <1>1, <1>2, <1>4, <1>5, <1>6, <1>7 DEF Copying
<1> QED BY <1>8

(* An entry x of the parent, or its copy on write, is mapped in the child. *)
LEMMA ChildEntry ==
    ASSUME CowInv, NEW e \in Env, NEW c \in Env, NEW v \in Vpn, NEW k, NEW y \in Pte,
           Copying(e, c, v), ~fk[e].half,
           UNCHANGED <<prog, data, ucow, status, st>>,
           pte' = [pte EXCEPT ![c][v] = y], fk' = [fk EXCEPT ![e] = k],
           k \in [child : Env, vpn : 0..Cardinality(Vpn), half : BOOLEAN, on : BOOLEAN],
           k.child = c, k.on = TRUE,
           y.pg = pte[e][v].pg, y.lib = pte[e][v].lib, y.pg = 0 => y = NoPte, v = LibVpn => y = LibPte,
           \/ k.half = TRUE /\ k.vpn = fk[e].vpn /\ v # LibVpn /\ pte[e][v].w /\ y = CowOf(pte[e][v])
           \/ k.half = FALSE /\ k.vpn = fk[e].vpn + 1 /\ (v # LibVpn => ~pte[e][v].w),
           v # LibVpn => ~y.w
    PROVE  CowInv'
<1> USE DEF CowInv, Copying
<1>1. Types'
    BY DEF Types
<1>2. \A f \in Env, u \in Vpn : pte'[f][u] = IF f = c /\ u = v THEN y ELSE pte[f][u]
    BY DEF Types
<1>3. \A f \in Env : fk'[f] = IF f = e THEN k ELSE fk[f]
    BY DEF Types
<1>4. Entries'
  <2> SUFFICES ASSUME NEW f \in Env, NEW u \in Vpn
               PROVE  /\ pte'[f][u].pg = 0 => pte'[f][u] = NoPte
                      /\ u # LibVpn => pte'[f][u].pg # LibPage /\ ~pte'[f][u].lib
                      /\ u = LibVpn => pte'[f][u] \in {NoPte, LibPte}
                      /\ status[f] = "none" => pte'[f][u] = NoPte
                      /\ status[f] = "run" /\ u = LibVpn => pte'[f][u] = LibPte
      BY DEF Entries
  <2>1. CASE f = c /\ u = v
    <3>1. pte'[f][u] = y
        BY <1>2, <2>1
    <3>2. v # LibVpn => y.pg # LibPage /\ ~y.lib
        BY DEF Entries
    <3> QED BY <2>1, <3>1, <3>2
  <2>2. CASE ~(f = c /\ u = v)
    <3>1. pte'[f][u] = pte[f][u]
        BY <1>2, <2>2
    <3> QED BY <3>1 DEF Entries
  <2> QED BY <2>1, <2>2
<1>5. Idle'
    BY <1>3 DEF Idle
<1>6. Forks'
  <2> SUFFICES ASSUME NEW f \in Env, fk'[f].on PROVE ForkOk(f)'
      BY DEF Forks, ForkOk
  <2>1. \A g \in Env : fk'[g].on = fk[g].on /\ fk'[g].child = fk[g].child
      BY <1>3
  <2>2. ForkOk(f) /\ fk[f].on /\ fk[f].child \in Env /\ f # c
      BY <2>1 DEF Forks, Types
  <2>3. CASE f = e
    <3>1. \A u \in Vpn : pte'[e][u] = pte[e][u] /\ (u # v => pte'[c][u] = pte[c][u])
        BY <1>2
    <3>2. pte'[c][v] = y
        BY <1>2
    <3>3. \A u \in Vpn : Order(u) = fk[e].vpn => u = v
        BY OrderInj
    <3>4. fk'[e] = k
        BY <1>3
    <3>5. \A u \in Vpn : u # StackVpn /\ Order(u) < k.vpn => pte'[c][u].pg = pte'[e][u].pg
      <4> SUFFICES ASSUME NEW u \in Vpn, u # StackVpn, Order(u) < k.vpn
                   PROVE  pte'[c][u].pg = pte'[e][u].pg
          OBVIOUS
      <4>1. CASE u = v
          BY <3>1, <3>2, <4>1
      <4>2. CASE u # v
        <5>1. Order(u) \in Nat /\ fk[e].vpn \in Nat
            BY OrderIs, VpnIs DEF Types
        <5>2. Order(u) # fk[e].vpn
            BY <3>3, <4>2
        <5>3. k.vpn = fk[e].vpn \/ k.vpn = fk[e].vpn + 1
            OBVIOUS
        <5>4. Order(u) < fk[e].vpn
            BY <5>1, <5>2, <5>3
        <5> QED BY <2>2, <2>3, <3>1, <4>2, <5>4 DEF ForkOk
      <4> QED BY <4>1, <4>2
    <3>6. \A u \in Vpn : k.half /\ Order(u) = k.vpn =>
              u # LibVpn /\ pte'[e][u].w /\ pte'[c][u] = CowOf(pte'[e][u])
        BY <3>1, <3>2, <3>3
    <3>7. k.half => k.vpn < Cardinality(Vpn)
        OBVIOUS
    <3>8. status'[k.child] = "new" /\ (st'[e].pc = "none")
        OBVIOUS
    <3>9. \A g \in Env : fk'[g].on /\ fk'[g].child = c => g = e
        BY <2>1
    <3>10. k.child = c
        OBVIOUS
    <3> HIDE DEF CowInv, Copying
    <3> QED BY <2>3, <3>4, <3>5, <3>6, <3>7, <3>8, <3>9, <3>10 DEF ForkOk
  <2>4. CASE f # e
    <3>1. fk'[f] = fk[f] /\ fk[f].child # c
        BY <1>3, <2>2, <2>4
    <3>2. \A u \in Vpn : pte'[f][u] = pte[f][u] /\ pte'[fk[f].child][u] = pte[fk[f].child][u]
        BY <1>2, <2>2, <3>1
    <3>3. \A g \in Env : fk'[g].on /\ fk'[g].child = fk'[f].child => g = f
        BY <2>1, <2>2, <3>1 DEF ForkOk
    <3> QED BY <2>2, <3>1, <3>2, <3>3 DEF ForkOk
  <2> QED BY <2>3, <2>4
<1>7. SharedReadOnly'
  <2>1. \A f, g \in Env, u \in Vpn : Half(f, g, u) => Half(f, g, u)'
      BY <1>3 DEF Half
  <2>2. \A g \in Env, u \in Vpn : ~Half(e, g, u) /\ ~Half(g, e, u)
      BY DEF Half
  <2> HIDE DEF CowInv, Copying
  <2> SUFFICES ASSUME NEW f \in Env, NEW g \in Env, NEW t \in Vpn, NEW u \in Vpn,
                      pte'[f][t].pg \notin {0, LibPage}, pte'[g][u].pg = pte'[f][t].pg,
                      f # g \/ u # t
               PROVE  u = t /\ (pte'[f][t].w => Half(f, g, t)')
      BY DEF SharedReadOnly
  <2> USE DEF CowInv, Copying
  <2>3. CASE ~(f = c /\ t = v) /\ ~(g = c /\ u = v)
    <3>1. pte'[f][t] = pte[f][t] /\ pte'[g][u] = pte[g][u]
        BY <1>2, <2>3
    <3> QED BY <2>1, <3>1 DEF SharedReadOnly
  <2>4. CASE f = c /\ t = v
    <3>1. pte'[f][t] = y /\ pte'[g][u] = pte[g][u] /\ pte[g][u].pg = pte[e][v].pg
        BY <1>2, <2>4
    <3>2. pte[e][v].pg \notin {0, LibPage}
        BY <3>1
    <3>3. u = v
        BY <3>1, <3>2 DEF SharedReadOnly
    <3>4. v # LibVpn
        BY <3>2 DEF Entries, LibPte, NoPte
    <3> QED BY <2>4, <3>1, <3>3, <3>4
  <2>5. CASE g = c /\ u = v /\ ~(f = c /\ t = v)
    <3>1. pte'[g][u] = y /\ pte'[f][t] = pte[f][t] /\ pte[f][t].pg = pte[e][v].pg
        BY <1>2, <2>5
    <3>2. pte[e][v].pg \notin {0, LibPage}
        BY <3>1
    <3>3. v # LibVpn
        BY <3>2 DEF Entries, LibPte, NoPte
    <3>4. CASE f = e /\ t = v
      <4>1. pte[e][v].w => Half(e, c, v)'
          BY <1>3, <3>3 DEF Half
      <4> QED BY <2>5, <3>1, <3>4, <4>1
    <3>5. CASE ~(f = e /\ t = v)
      <4>1. t = v /\ (pte[f][t].w => Half(f, e, t))
          BY <3>1, <3>2, <3>5 DEF SharedReadOnly
      <4> QED BY <2>2, <2>5, <3>1, <4>1
    <3> QED BY <3>4, <3>5
  <2> QED BY <2>3, <2>4, <2>5
<1>8. Stages'
  <2> SUFFICES ASSUME NEW f \in Env PROVE StageOk(f)'
      BY DEF Stages
  <2>1. StageOk(f)
      BY DEF Stages
  <2>2. st[f].pc # "none" => f # c /\ f # e
      OBVIOUS
  <2>3. f # c => UNCHANGED pte[f]
      BY DEF Types
  <2>4. st[f].pc \in {"copy", "map"} => \A g \in Env, u \in Vpn : pte'[g][u].pg # ucow[f]
      BY <1>2, <2>1 DEF StageOk
  <2>5. ASSUME st[f].pc = "try", NEW u \in Vpn, Alone(f, u), pte[f][u].pg # 0
        PROVE  Alone(f, u)'
    <3>1. f # e /\ f # c
        BY <2>2, <2>5
    <3>2. pte[e][v].pg # pte[f][u].pg
        BY <2>5, <3>1 DEF Alone
    <3>3. pte'[f][u] = pte[f][u]
        BY <1>2, <3>1
    <3> QED BY <1>2, <2>5, <3>2, <3>3 DEF Alone
  <2>6. UNCHANGED <<st[f], ucow[f]>>
      OBVIOUS
  <2> QED BY <2>2, <2>3, <2>4, <2>5, <2>6, StageKept
<1>9. Ucows'
    BY DEF Ucows
<1> QED BY <1>1, <1>4, <1>5, <1>6, <1>7, <1>8, <1>9
(* The three cases of duppage: the first entry of two, the second, and the *)
(* page that is mapped as it is.                                           *)
DupChild(e, c, v) ==
    /\ pte[e][v].w /\ ~pte[e][v].lib /\ ~fk[e].half
    /\ pte' = [pte EXCEPT ![c][v] = CowOf(pte[e][v])]
    /\ fk' = [fk EXCEPT ![e].half = TRUE]
DupParent(e, c, v) ==
    /\ fk[e].half
    /\ pte' = [pte EXCEPT ![e][v] = CowOf(pte[e][v])]
    /\ fk' = [fk EXCEPT ![e].half = FALSE, ![e].vpn = @ + 1]
DupAsIs(e, c, v) ==
    /\ (~pte[e][v].w \/ pte[e][v].lib) /\ ~fk[e].half
    /\ pte' = [pte EXCEPT ![c][v] = pte[e][v]]
    /\ fk' = [fk EXCEPT ![e].vpn = @ + 1]

LEMMA DupCases ==
    ASSUME NEW e \in Env, NEW c \in Env, NEW v \in Vpn, Copying(e, c, v), duppage(e)
    PROVE  /\ DupChild(e, c, v) \/ DupParent(e, c, v) \/ DupAsIs(e, c, v)
           /\ UNCHANGED <<prog, data, ucow, status, st, left>>
<1>1. v = VpnAt(fk[e].vpn) /\ c = fk[e].child
    BY DEF Copying
<1> QED BY <1>1 DEF duppage, DupChild, DupParent, DupAsIs

LEMMA DupChildInv ==
    ASSUME CowInv, NEW e \in Env, NEW c \in Env, NEW v \in Vpn, Copying(e, c, v),
           DupChild(e, c, v), UNCHANGED <<prog, data, ucow, status, st, left>>
    PROVE  CowInv'
<1> USE DEF CowInv
<1>1. PICK x : x = pte[e][v]
    OBVIOUS
<1>2. x \in Pte
    BY <1>1 DEF Types
<1>3. PICK y : y = CowOf(x)
    OBVIOUS
<1>4. y \in Pte /\ y.pg = x.pg /\ y.lib = x.lib /\ ~y.w
    BY <1>2, <1>3 DEF CowOf, Pte
<1>5. PICK k : k = [fk[e] EXCEPT !.half = TRUE]
    OBVIOUS
<1>6. /\ k \in [child : Env, vpn : 0..Cardinality(Vpn), half : BOOLEAN, on : BOOLEAN]
      /\ k.child = fk[e].child /\ k.on = fk[e].on /\ k.half = TRUE /\ k.vpn = fk[e].vpn
  <2>1. fk[e] \in [child : Env, vpn : 0..Cardinality(Vpn), half : BOOLEAN, on : BOOLEAN]
      BY DEF Types
  <2> QED BY <1>5, <2>1
<1>7. x.w /\ ~x.lib /\ ~fk[e].half /\ pte' = [pte EXCEPT ![c][v] = y] /\ fk' = [fk EXCEPT ![e] = k]
    BY <1>1, <1>3, <1>5 DEF DupChild
<1>8. status[e] = "run" /\ c = fk[e].child /\ fk[e].on
    BY DEF Copying
<1>9. v # LibVpn
    BY <1>1, <1>7, <1>8 DEF Entries, LibPte
<1>10. x.pg # 0
    BY <1>1, <1>7 DEF Entries, NoPte
<1>11. k.on = TRUE
    BY <1>6, <1>8 DEF Types
<1> QED BY <1>1, <1>3, <1>4, <1>6, <1>7, <1>8, <1>9, <1>10, <1>11, ChildEntry

LEMMA DupAsIsInv ==
    ASSUME CowInv, NEW e \in Env, NEW c \in Env, NEW v \in Vpn, Copying(e, c, v),
           DupAsIs(e, c, v), UNCHANGED <<prog, data, ucow, status, st, left>>
    PROVE  CowInv'
<1> USE DEF CowInv
<1>1. PICK x : x = pte[e][v]
    OBVIOUS
<1>2. x \in Pte
    BY <1>1 DEF Types
<1>3. status[e] = "run" /\ c = fk[e].child /\ fk[e].on /\ fk[e].vpn < Cardinality(Vpn)
    BY DEF Copying
<1>4. PICK k : k = [fk[e] EXCEPT !.vpn = @ + 1]
    OBVIOUS
<1>5. /\ k \in [child : Env, vpn : 0..Cardinality(Vpn), half : BOOLEAN, on : BOOLEAN]
      /\ k.child = fk[e].child /\ k.on = fk[e].on /\ k.half = fk[e].half /\ k.vpn = fk[e].vpn + 1
  <2>1. fk[e] \in [child : Env, vpn : 0..Cardinality(Vpn), half : BOOLEAN, on : BOOLEAN]
      BY DEF Types
  <2>2. fk[e].vpn + 1 \in 0..Cardinality(Vpn)
      BY <1>3, <2>1, VpnIs
  <2> QED BY <1>4, <2>1, <2>2
<1>6. (~x.w \/ x.lib) /\ ~fk[e].half /\ pte' = [pte EXCEPT ![c][v] = x] /\ fk' = [fk EXCEPT ![e] = k]
    BY <1>1, <1>4 DEF DupAsIs
<1>7. v # LibVpn => ~x.w
    BY <1>1, <1>6 DEF Entries
<1>8. v = LibVpn => x = LibPte
    BY <1>1, <1>3 DEF Entries
<1>9. x.pg = 0 => x = NoPte
    BY <1>1 DEF Entries
<1>10. k.on = TRUE /\ k.half = FALSE
    BY <1>3, <1>5, <1>6 DEF Types
<1>11. k.half = FALSE /\ k.vpn = fk[e].vpn + 1 /\ (v # LibVpn => ~pte[e][v].w)
    BY <1>1, <1>5, <1>7, <1>10
<1>12. x.pg = pte[e][v].pg /\ x.lib = pte[e][v].lib /\ k.child = c
    BY <1>1, <1>3, <1>5
<1> HIDE DEF CowInv
<1>13. UNCHANGED <<prog, data, ucow, status, st>>
    OBVIOUS
<1> QED BY <1>2, <1>5, <1>6, <1>7, <1>8, <1>9, <1>10, <1>11, <1>12, <1>13, ChildEntry

LEMMA DupParentInv ==
    ASSUME CowInv, NEW e \in Env, NEW c \in Env, NEW v \in Vpn, Copying(e, c, v),
           DupParent(e, c, v), UNCHANGED <<prog, data, ucow, status, st, left>>
    PROVE  CowInv'
<1> USE DEF CowInv
<1>1. PICK y : y = CowOf(pte[e][v])
    OBVIOUS
<1>2. y \in Pte /\ y.pg = pte[e][v].pg /\ y.lib = pte[e][v].lib /\ y.w = FALSE
  <2>1. pte[e][v] \in Pte
      BY DEF Types
  <2> QED BY <1>1, <2>1 DEF CowOf, Pte
<1>3. /\ status[e] = "run" /\ c = fk[e].child /\ fk[e].on /\ fk[e].vpn < Cardinality(Vpn)
      /\ Order(v) = fk[e].vpn /\ c # e /\ st[e].pc = "none"
      /\ \A f \in Env : fk[f].on => fk[f].child # e
    BY DEF Copying
<1>4. PICK k : k = [fk[e] EXCEPT !.half = FALSE, !.vpn = @ + 1]
    OBVIOUS
<1>5. /\ k \in [child : Env, vpn : 0..Cardinality(Vpn), half : BOOLEAN, on : BOOLEAN]
      /\ k.child = fk[e].child /\ k.on = fk[e].on /\ k.half = FALSE /\ k.vpn = fk[e].vpn + 1
  <2>1. fk[e] \in [child : Env, vpn : 0..Cardinality(Vpn), half : BOOLEAN, on : BOOLEAN]
      BY DEF Types
  <2>2. fk[e].vpn + 1 \in 0..Cardinality(Vpn)
      BY <1>3, <2>1, VpnIs
  <2> QED BY <1>4, <2>1, <2>2
<1>6. fk[e].half /\ pte' = [pte EXCEPT ![e][v] = y]
    BY <1>1 DEF DupParent
<1>7. fk' = [fk EXCEPT ![e] = k]
  <2>1. fk' = [fk EXCEPT ![e].half = FALSE, ![e].vpn = @ + 1]
      BY DEF DupParent
  <2> QED BY <1>4, <2>1 DEF Types
<1>8. ForkOk(e)
    BY DEF Forks
<1>9. v # LibVpn /\ pte[e][v].w /\ pte[c][v] = y
    BY <1>1, <1>3, <1>6, <1>8 DEF ForkOk
<1>10. pte[e][v].pg # 0
    BY <1>9 DEF Entries, NoPte
<1>11. Types'
    BY <1>2, <1>5, <1>6, <1>7 DEF Types
<1>12. \A f \in Env, u \in Vpn : pte'[f][u] = IF f = e /\ u = v THEN y ELSE pte[f][u]
    BY <1>6 DEF Types
<1>13. \A f \in Env, u \in Vpn : pte'[f][u].pg = pte[f][u].pg
    BY <1>2, <1>12
<1>14. \A f \in Env : fk'[f] = IF f = e THEN k ELSE fk[f]
    BY <1>7 DEF Types
<1>15. Entries'
    BY <1>2, <1>3, <1>9, <1>10, <1>12 DEF Entries
<1>16. Idle' /\ Ucows'
    BY <1>3, <1>14 DEF Idle, Ucows
<1>17. Forks'
  <2> SUFFICES ASSUME NEW f \in Env, fk'[f].on PROVE ForkOk(f)'
      BY DEF Forks, ForkOk
  <2>1. \A g \in Env : fk'[g].on = fk[g].on /\ fk'[g].child = fk[g].child
      BY <1>5, <1>14
  <2>2. ForkOk(f) /\ fk[f].on /\ fk[f].child \in Env /\ fk[f].child # e
      BY <1>3, <2>1 DEF Forks, Types
  <2>3. \A g \in Env : fk'[g].on /\ fk'[g].child = fk'[f].child => g = f
      BY <2>1, <2>2 DEF ForkOk
  <2>4. CASE f = e
    <3>1. \A u \in Vpn : u # StackVpn /\ Order(u) < k.vpn => pte'[c][u].pg = pte'[e][u].pg
      <4> SUFFICES ASSUME NEW u \in Vpn, u # StackVpn, Order(u) < k.vpn
                   PROVE  pte[c][u].pg = pte[e][u].pg
          BY <1>13
      <4>1. CASE u = v
          BY <1>2, <1>9, <4>1
      <4>2. CASE u # v
        <5>1. Order(u) \in Nat /\ fk[e].vpn \in Nat
            BY OrderIs, VpnIs DEF Types
        <5>2. Order(u) # fk[e].vpn
            BY <1>3, <4>2, OrderInj
        <5>3. Order(u) < fk[e].vpn
            BY <1>5, <5>1, <5>2
        <5> QED BY <1>3, <1>8, <5>3 DEF ForkOk
      <4> QED BY <4>1, <4>2
    <3> QED BY <1>3, <1>5, <1>14, <2>2, <2>3, <2>4, <3>1 DEF ForkOk
  <2>5. CASE f # e
    <3>1. \A u \in Vpn : pte'[f][u] = pte[f][u] /\ pte'[fk[f].child][u] = pte[fk[f].child][u]
        BY <1>12, <2>2, <2>5
    <3>2. fk'[f] = fk[f]
        BY <1>14, <2>5
    <3> QED BY <2>2, <2>3, <3>1, <3>2 DEF ForkOk
  <2> QED BY <2>4, <2>5
<1>18. SharedReadOnly'
  <2> SUFFICES ASSUME NEW f \in Env, NEW g \in Env, NEW t \in Vpn, NEW u \in Vpn,
                      pte'[f][t].pg \notin {0, LibPage}, pte'[g][u].pg = pte'[f][t].pg,
                      f # g \/ u # t
               PROVE  u = t /\ (pte'[f][t].w => Half(f, g, t)')
      BY DEF SharedReadOnly
  <2>1. u = t /\ (pte[f][t].w => Half(f, g, t))
      BY <1>13 DEF SharedReadOnly
  <2>2. CASE f = e
    <3>1. Half(f, g, t) => t = v
        BY <1>3, <2>2, OrderInj DEF Half
    <3> QED BY <1>2, <1>12, <2>1, <2>2, <3>1
  <2>3. CASE f # e
      BY <1>12, <1>14, <2>1, <2>3 DEF Half
  <2> QED BY <2>2, <2>3
<1>19. Stages'
  <2> SUFFICES ASSUME NEW f \in Env PROVE StageOk(f)'
      BY DEF Stages
  <2>1. StageOk(f)
      BY DEF Stages
  <2>2. st[f].pc # "none" => UNCHANGED pte[f]
      BY <1>3, <1>6 DEF Types
  <2>3. \A u \in Vpn : Alone(f, u) => Alone(f, u)'
      BY <1>13 DEF Alone
  <2>4. UNCHANGED <<st[f], ucow[f]>>
      OBVIOUS
  <2>5. st[f].pc \in {"copy", "map"} => \A g \in Env, u \in Vpn : pte'[g][u].pg # ucow[f]
      BY <1>13, <2>1 DEF StageOk
  <2> QED BY <2>2, <2>3, <2>4, <2>5, StageKept
<1> QED BY <1>11, <1>15, <1>16, <1>17, <1>18, <1>19
(* The pages that a loaded memory gets. *)
AreHomes(c, m, stack, used, pg) ==
    /\ used = {v \in Image : m[v] # NoPage} \cup stack
    /\ \A u, v \in used : pg[u] = pg[v] => u = v
    /\ data' \in [Page -> [Offsets -> Nat]]
    /\ \A q \in Page : q \notin Free => data'[q] = data[q]
    /\ \A v \in used : data'[pg[v]] = IF v \in Image THEN m[v].bytes ELSE ZeroPage
    /\ pte' = [pte EXCEPT ![c] = Row(m, used, pg)]
    /\ Row(m, used, pg) \in [Vpn -> Pte]

LEMMA PlacedIs ==
    ASSUME CowInv, NEW c \in Env, status[c] = "none", NEW m, Loads(prog, m),
           NEW stack, stack = {} \/ stack = {StackVpn}, Placed(c, m, stack)
    PROVE  \E used \in SUBSET Vpn : \E pg \in [used -> Free] : AreHomes(c, m, stack, used, pg)
<1> USE DEF CowInv
<1>1. PICK used : used = {v \in Image : m[v] # NoPage} \cup stack
    OBVIOUS
<1>2. used \in SUBSET Vpn /\ LibVpn \notin used
    BY <1>1, VpnIs DEF Vpn
<1>3. PICK pg : pg = Homes(used)
    OBVIOUS
<1>4. pg \in [used -> Free] /\ \A u, v \in used : pg[u] = pg[v] => u = v
  <2>1. \E f \in [used -> Free] : \A u, v \in used : f[u] = f[v] => u = v
      BY <1>2, FreeMany
  <2> QED BY <1>3, <2>1 DEF Homes
<1>a. PlaceAt(c, m, used, pg)
    BY <1>1, <1>3 DEF Placed
<1>5. \A v \in used : pg[v] \in Page
    BY <1>4, FreePages
<1>6. \A v \in Image : m[v] # NoPage => m[v].bytes \in [Offsets -> Nat] /\ m[v].w \in BOOLEAN
    BY DEF Loads, Offsets
<1>7. data' = [q \in Page |->
                 IF \E v \in used : pg[v] = q
                 THEN LET v == CHOOSE v \in used : pg[v] = q
                      IN  IF v \in Image THEN m[v].bytes ELSE ZeroPage
                 ELSE data[q]]
    BY <1>a DEF PlaceAt
<1>8. \A q \in Page : q \notin Free => data'[q] = data[q]
    BY <1>4, <1>7
<1>9. \A v \in used : data'[pg[v]] = IF v \in Image THEN m[v].bytes ELSE ZeroPage
  <2> SUFFICES ASSUME NEW v \in used
               PROVE  data'[pg[v]] = IF v \in Image THEN m[v].bytes ELSE ZeroPage
      OBVIOUS
  <2>1. PICK u : u = CHOOSE w \in used : pg[w] = pg[v]
      OBVIOUS
  <2>2. u \in used /\ pg[u] = pg[v]
      BY <2>1
  <2>3. u = v
      BY <1>4, <2>2
  <2>4. data'[pg[v]] = IF u \in Image THEN m[u].bytes ELSE ZeroPage
      BY <1>5, <1>7, <2>1
  <2> QED BY <2>3, <2>4
<1>10. \A v \in used : (IF v \in Image THEN m[v].bytes ELSE ZeroPage) \in [Offsets -> Nat]
  <2>1. ZeroPage \in [Offsets -> Nat]
      BY DEF ZeroPage, Offsets
  <2>2. \A v \in used : v \in Image => m[v] # NoPage
      BY <1>1, VpnIs
  <2> QED BY <1>6, <2>1, <2>2
<1>11. data' \in [Page -> [Offsets -> Nat]]
  <2>1. \A q \in Page : data'[q] \in [Offsets -> Nat]
    <3> SUFFICES ASSUME NEW q \in Page PROVE data'[q] \in [Offsets -> Nat]
        OBVIOUS
    <3>1. CASE \E v \in used : pg[v] = q
        BY <1>9, <1>10, <3>1
    <3>2. CASE ~\E v \in used : pg[v] = q
        BY <1>7, <3>2 DEF Types
    <3> QED BY <3>1, <3>2
  <2> QED BY <1>7, <2>1
<1>13. pte' = [pte EXCEPT ![c] = Row(m, used, pg)]
    BY <1>a DEF PlaceAt
<1>14. Row(m, used, pg) \in [Vpn -> Pte]
  <2>1. LibPte \in Pte /\ NoPte \in Pte
      BY SizeIs DEF LibPte, NoPte, Pte
  <2>2. ASSUME NEW v \in used
        PROVE  [pg |-> pg[v], w |-> v \notin Image \/ m[v].w, cow |-> FALSE, lib |-> FALSE] \in Pte
    <3>1. pg[v] \in 0..NPage
        BY <1>5, SizeIs
    <3>2. PICK b \in BOOLEAN : b = (v \notin Image \/ m[v].w)
        OBVIOUS
    <3>3. [pg |-> pg[v], w |-> b, cow |-> FALSE, lib |-> FALSE] \in Pte
        BY <3>1 DEF Pte
    <3> QED BY <3>2, <3>3
  <2> QED BY <2>1, <2>2 DEF Row, LibPte
<1>15. AreHomes(c, m, stack, used, pg)
    BY <1>1, <1>4, <1>8, <1>9, <1>11, <1>13, <1>14 DEF AreHomes
<1> QED BY <1>2, <1>4, <1>15

LEMMA LoadInv ==
    ASSUME CowInv, NEW c \in Env, status[c] = "none", NEW m, NEW stack,
           NEW used \in SUBSET Vpn, NEW pg \in [used -> Free], AreHomes(c, m, stack, used, pg),
           status' = [status EXCEPT ![c] = "run"], UNCHANGED <<prog, ucow, st, fk>>
    PROVE  CowInv'
<1>0. /\ \A u, v \in used : pg[u] = pg[v] => u = v
      /\ data' \in [Page -> [Offsets -> Nat]]
      /\ \A q \in Page : q \notin Free => data'[q] = data[q]
      /\ pte' = [pte EXCEPT ![c] = Row(m, used, pg)]
      /\ Row(m, used, pg) \in [Vpn -> Pte]
    BY DEF AreHomes
<1> USE <1>0
<1> USE DEF CowInv
<1>1. PICK r : r = Row(m, used, pg)
    OBVIOUS
<1>2. /\ r[LibVpn] = LibPte
      /\ \A v \in used : v # LibVpn => r[v].pg = pg[v] /\ r[v].lib = FALSE
      /\ \A v \in Vpn : v \notin used /\ v # LibVpn => r[v] = NoPte
    BY <1>1, VpnIs DEF Row, LibPte
<1>3. \A f \in Env : /\ f # c => pte'[f] = pte[f]
                     /\ status'[f] = IF f = c THEN "run" ELSE status[f]
    BY DEF Types
<1>4. pte'[c] = r /\ r \in [Vpn -> Pte]
    BY <1>1 DEF Types
<1>5. Types'
    BY <1>1, <1>4 DEF Types
<1>6. \A v \in Vpn : pte[c][v].pg = 0
    BY DEF Entries, NoPte
<1>7. \A v \in used : /\ pg[v] \in Page /\ pg[v] # 0 /\ pg[v] # LibPage
                      /\ \A f \in Env, u \in Vpn : pte[f][u].pg # pg[v]
                      /\ \A f \in Env : ucow[f] # pg[v]
  <2>1. \A v \in used : pg[v] \in Free
      OBVIOUS
  <2> HIDE DEF CowInv
  <2> QED BY <2>1, FreePages, SizeIs
<1>8. NoPte.pg = 0 /\ NoPte.lib = FALSE /\ LibPte.pg = LibPage /\ LibPage # 0
    BY DEF NoPte, LibPte, LibPage
<1>9. Entries'
  <2> SUFFICES ASSUME NEW f \in Env, NEW u \in Vpn
               PROVE  /\ pte'[f][u].pg = 0 => pte'[f][u] = NoPte
                      /\ u # LibVpn => pte'[f][u].pg # LibPage /\ ~pte'[f][u].lib
                      /\ u = LibVpn => pte'[f][u] \in {NoPte, LibPte}
                      /\ status'[f] = "none" => pte'[f][u] = NoPte
                      /\ status'[f] = "run" /\ u = LibVpn => pte'[f][u] = LibPte
      BY DEF Entries
  <2>1. CASE f = c
    <3>1. pte'[f][u] = r[u] /\ status'[f] = "run"
        BY <1>3, <1>4, <2>1
    <3>2. CASE u = LibVpn
        BY <1>2, <1>8, <3>1, <3>2
    <3>3. CASE u # LibVpn /\ u \in used
        BY <1>2, <1>7, <3>1, <3>3
    <3>4. CASE u # LibVpn /\ u \notin used
        BY <1>2, <1>8, <3>1, <3>4
    <3> QED BY <3>2, <3>3, <3>4
  <2>2. CASE f # c
      BY <1>3, <2>2 DEF Entries
  <2> QED BY <2>1, <2>2
<1>10. Idle' /\ Ucows'
    BY <1>3 DEF Idle, Ucows
<1>11. Forks'
  <2> SUFFICES ASSUME NEW f \in Env, fk[f].on PROVE ForkOk(f)'
      BY DEF Forks, ForkOk
  <2>1. ForkOk(f) /\ f # c /\ fk[f].child # c /\ fk[f].child \in Env
      BY DEF Forks, ForkOk, Types, Idle
  <2> QED BY <1>3, <2>1 DEF ForkOk
<1>12. SharedReadOnly'
  <2>1. \A f, g \in Env, u \in Vpn : Half(f, g, u)' = Half(f, g, u)
      BY DEF Half
  <2> SUFFICES ASSUME NEW f \in Env, NEW g \in Env, NEW t \in Vpn, NEW u \in Vpn,
                      pte'[f][t].pg \notin {0, LibPage}, pte'[g][u].pg = pte'[f][t].pg,
                      f # g \/ u # t
               PROVE  u = t /\ (pte'[f][t].w => Half(f, g, t))
      BY <2>1 DEF SharedReadOnly
  <2>2. \A v \in Vpn : pte'[c][v].pg \notin {0, LibPage} => v \in used /\ pte'[c][v].pg = pg[v]
      BY <1>2, <1>4, <1>8
  <2>3. f # c \/ g # c
      BY <2>2
  <2>4. f # c /\ g # c
    <3>1. CASE f = c
        BY <1>3, <1>7, <2>2, <2>3, <3>1
    <3>2. CASE g = c
        BY <1>3, <1>7, <2>2, <2>3, <3>2
    <3> QED BY <3>1, <3>2
  <2> QED BY <1>3, <2>4 DEF SharedReadOnly
<1>13. \A v \in Vpn : pte'[c][v].pg = 0 \/ pte'[c][v].pg = LibPage \/ \E u \in used : pte'[c][v].pg = pg[u]
    BY <1>2, <1>4, <1>8
<1>14. Stages'
  <2> SUFFICES ASSUME NEW f \in Env PROVE StageOk(f)'
      BY DEF Stages
  <2>1. StageOk(f)
      BY DEF Stages
  <2>2. st[f].pc # "none" => f # c /\ UNCHANGED pte[f] /\ status[f] = "run"
      BY <1>3 DEF Idle
  <2>3. UNCHANGED <<st[f], ucow[f]>>
      OBVIOUS
  <2>4. st[f].pc \in {"copy", "map"} => \A g \in Env, u \in Vpn : pte'[g][u].pg # ucow[f]
      BY <1>3, <1>7, <1>13, <2>1 DEF StageOk
  <2>5. ASSUME st[f].pc = "try", NEW u \in Vpn, Alone(f, u), pte[f][u].pg # 0, ~pte[f][u].w
        PROVE  Alone(f, u)'
    <3>1. f # c /\ pte'[f][u] = pte[f][u] /\ status[f] = "run"
        BY <2>2, <2>5
    <3>2. u # LibVpn
        BY <2>5, <3>1 DEF Entries, LibPte
    <3>3. pte[f][u].pg # LibPage
        BY <3>2 DEF Entries
    <3>4. \A v \in Vpn : pte'[c][v].pg # pte[f][u].pg
        BY <1>7, <1>13, <2>5, <3>3
    <3> QED BY <1>3, <2>5, <3>1, <3>4 DEF Alone
  <2>6. ASSUME st[f].pc = "map"
        PROVE  data'[ucow[f]] = data[ucow[f]] /\ data'[Target(f).pg] = data[Target(f).pg]
    <3>1. /\ Target(f).pg \in Page /\ ucow[f] \in Page
          /\ PageOf(st[f].a) \in Vpn /\ Target(f) = pte[f][PageOf(st[f].a)]
        BY <2>6, CopyPages
    <3>2. ucow[f] \notin Free /\ Target(f).pg \notin Free
        BY <3>1, FreePages
    <3> QED BY <3>1, <3>2
  <2> QED BY <2>2, <2>3, <2>4, <2>5, <2>6, StageKept
<1> QED BY <1>5, <1>9, <1>10, <1>11, <1>12, <1>14-----------------------------------------------------------------------------
(* What every process sees, under the invariant. *)

View == [e \in Env |-> [a \in Addr |-> Seen(e, a)]]
Live == {e \in Env : status[e] = "run"}
AbsVars == <<Live, View, Described(prog)>>

Hidden(e, v) == \E p \in Env : fk[p].on /\ fk[p].child = e /\ Order(v) >= fk[p].vpn

Byte(e, a) ==
    IF PageOf(a) = LibVpn THEN data[LibPage][Off(a)]
    ELSE IF Hidden(e, PageOf(a)) \/ pte[e][PageOf(a)].pg = 0 THEN 0
    ELSE data[pte[e][PageOf(a)].pg][Off(a)]

SeenIs == \A e \in Env, a \in Addr : Seen(e, a) = Byte(e, a)

LEMMA SeenByte == CowInv => SeenIs
<1> SUFFICES ASSUME CowInv, NEW e \in Env, NEW a \in Addr PROVE Seen(e, a) = Byte(e, a)
    BY DEF SeenIs
<1>1. PageOf(a) \in Vpn
    BY AddrIs
<1>2. Hidden(e, PageOf(a)) <=> \E p \in Parents(e) : Order(PageOf(a)) >= fk[p].vpn
    BY DEF Hidden, Parents
<1>3. PageOf(a) = LibVpn => pte[e][LibVpn] \in {NoPte, LibPte}
    BY <1>1 DEF CowInv, Entries
<1>4. NoPte.pg = 0 /\ LibPte.pg = LibPage
    BY DEF NoPte, LibPte
<1> QED BY <1>2, <1>3, <1>4 DEF Seen, Byte, Load

LEMMA ViewIs ==
    /\ CowInv => View = [e \in Env |-> [a \in Addr |-> Byte(e, a)]]
    /\ CowInv' => View' = [e \in Env |-> [a \in Addr |-> Byte(e, a)']]
<1>1. CowInv => SeenIs
    BY SeenByte
<1>2. CowInv' => SeenIs'
    BY <1>1, PTL
<1>3. SeenIs => View = [e \in Env |-> [a \in Addr |-> Byte(e, a)]]
    BY DEF SeenIs, View
<1>4. SeenIs' => View' = [e \in Env |-> [a \in Addr |-> Byte(e, a)']]
    BY DEF SeenIs, View
<1> QED BY <1>1, <1>2, <1>3, <1>4

LEMMA Stutter ==
    ASSUME CowInv, CowInv', prog' = prog,
           \A f \in Env : (status'[f] = "run") <=> (status[f] = "run"),
           \A f \in Env, a \in Addr : Byte(f, a)' = Byte(f, a)
    PROVE  UNCHANGED AbsVars
<1>1. View' = View
    BY ViewIs
<1>2. Live' = Live
    BY DEF Live
<1>3. Described(prog)' = Described(prog)
    BY DEF Described
<1> QED BY <1>1, <1>2, <1>3 DEF AbsVars

(* A step that shows in one process only. *)
LEMMA ViewOf ==
    ASSUME CowInv, CowInv', NEW c \in Env,
           \A f \in Env, a \in Addr : f # c => Byte(f, a)' = Byte(f, a)
    PROVE  /\ View' = [View EXCEPT ![c] = [a \in Addr |-> Byte(c, a)']]
           /\ \A f \in Env, a \in Addr : View[f][a] = Byte(f, a)
<1>1. View = [e \in Env |-> [a \in Addr |-> Byte(e, a)]]
    BY ViewIs
<1>2. View' = [e \in Env |-> [a \in Addr |-> Byte(e, a)']]
    BY ViewIs
<1> QED BY <1>1, <1>2

LEMMA SameBytes ==
    ASSUME CowInv, UNCHANGED fk,
           data'[LibPage] = data[LibPage],
           \A f \in Env, u \in Vpn : u # LibVpn =>
              \/ pte'[f][u].pg = 0 /\ pte[f][u].pg = 0
              \/ /\ pte'[f][u].pg # 0 /\ pte[f][u].pg # 0
                 /\ data'[pte'[f][u].pg] = data[pte[f][u].pg]
    PROVE  \A f \in Env, a \in Addr : Byte(f, a)' = Byte(f, a)
<1> SUFFICES ASSUME NEW f \in Env, NEW a \in Addr PROVE Byte(f, a)' = Byte(f, a)
    OBVIOUS
<1>1. PageOf(a) \in Vpn
    BY AddrIs
<1>2. Hidden(f, PageOf(a))' = Hidden(f, PageOf(a))
    BY DEF Hidden
<1> QED BY <1>1, <1>2 DEF Byte

(* The steps that nobody sees. *)
LEMMA Unseen ==
    ASSUME CowInv, CowInv', NEW e \in Env,
           \/ \E a \in StoreAddr : BeginStore(e, a)
           \/ fault_cow(e) \/ fault_write(e) \/ cow_alloc(e) \/ cow_copy(e) \/ cow_map(e) \/ cow_unmap(e)
    PROVE  UNCHANGED AbsVars
<1> DEFINE Same == /\ UNCHANGED <<prog, status, fk>>
                   /\ data'[LibPage] = data[LibPage]
                   /\ \A f \in Env, u \in Vpn : u # LibVpn =>
                         \/ pte'[f][u].pg = 0 /\ pte[f][u].pg = 0
                         \/ /\ pte'[f][u].pg # 0 /\ pte[f][u].pg # 0
                            /\ data'[pte'[f][u].pg] = data[pte[f][u].pg]
<1>1. ASSUME UNCHANGED <<prog, status, fk, data, pte>> PROVE Same
    BY <1>1
<1>2. ASSUME \E a \in StoreAddr : BeginStore(e, a) PROVE Same
    BY <1>1, <1>2 DEF BeginStore
<1>3. ASSUME fault_cow(e) PROVE Same
    BY <1>1, <1>3 DEF fault_cow
<1>4. ASSUME cow_unmap(e) PROVE Same
    BY <1>1, <1>4 DEF cow_unmap
<1>5. ASSUME fault_write(e) PROVE Same
  <2>1. UNCHANGED <<prog, status, fk, data>> /\ pte' = [pte EXCEPT ![e][PageOf(st[e].a)].w = TRUE]
      BY <1>5 DEF fault_write
  <2>2. \A f \in Env, u \in Vpn : pte'[f][u].pg = pte[f][u].pg
      BY <2>1 DEF CowInv, Types, Pte
  <2> QED BY <2>1, <2>2
<1>6. ASSUME cow_alloc(e) PROVE Same
  <2>1. page_alloc \in Free /\ page_alloc \in Page /\ page_alloc # LibPage
      BY <1>6, CowAlloc, FreePages
  <2>2. UNCHANGED <<prog, status, fk, pte>> /\ data' = [data EXCEPT ![page_alloc] = ZeroPage]
      BY <1>6 DEF cow_alloc
  <2>3. \A q \in Page : q # page_alloc => data'[q] = data[q]
      BY <2>2 DEF CowInv, Types
  <2>4. \A f \in Env, u \in Vpn : pte[f][u].pg # 0 => pte[f][u].pg \in Page /\ pte[f][u].pg # page_alloc
      BY <2>1, FreePages, SizeIs DEF CowInv, Types, Pte
  <2> QED BY <2>1, <2>2, <2>3, <2>4, SizeIs
<1>7. ASSUME cow_copy(e) PROVE Same
  <2>1. At(e, "copy") /\ UNCHANGED <<prog, status, fk, pte>> /\ data' = [data EXCEPT ![ucow[e]] = data[Target(e).pg]]
      BY <1>7 DEF cow_copy
  <2>2. ucow[e] # LibPage /\ \A f \in Env, u \in Vpn : pte[f][u].pg # ucow[e]
      BY <2>1 DEF At, CowInv, Stages, StageOk
  <2>3. \A q \in Page : q # ucow[e] => data'[q] = data[q]
      BY <2>1 DEF CowInv, Types
  <2>4. \A f \in Env, u \in Vpn : pte[f][u].pg # 0 => pte[f][u].pg \in Page
      BY SizeIs DEF CowInv, Types, Pte
  <2> QED BY <2>1, <2>2, <2>3, <2>4, SizeIs
<1>8. ASSUME cow_map(e) PROVE Same
  <2>1. UNCHANGED <<prog, status, fk>> /\ At(e, "map")
      BY <1>8 DEF cow_map
  <2>2. PICK v \in Vpn : v = PageOf(st[e].a) /\ Target(e) = pte[e][v] /\ ucow[e] \in Page
      BY <2>1, CopyPages DEF At
  <2>3. data[ucow[e]] = data[pte[e][v].pg] /\ pte[e][v].pg # 0
      BY <2>1, <2>2 DEF At, CowInv, Stages, StageOk
  <2>4. /\ \A f \in Env, u \in Vpn : (f # e \/ u # v) /\ pte[f][u].pg # 0 =>
               data'[pte[f][u].pg] = data[pte[f][u].pg]
        /\ data'[ucow[e]] = data[ucow[e]]
      BY <1>8, <2>2, CowMap
  <2>5. PICK S : Forget(S)
      BY <1>8 DEF cow_map
  <2>6. data'[LibPage] = data[LibPage]
      BY <2>5, Forgotten DEF CowInv
  <2>7. PICK x : x = [pg |-> ucow[e], w |-> TRUE, cow |-> FALSE, lib |-> pte[e][v].lib]
      OBVIOUS
  <2>8. pte' = [pte EXCEPT ![e][v] = x] /\ x.pg = ucow[e]
      BY <1>8, <2>2, <2>7 DEF cow_map
  <2>9. /\ \A f \in Env, u \in Vpn : f # e \/ u # v => pte'[f][u] = pte[f][u]
        /\ pte'[e][v].pg = ucow[e]
      BY <2>8 DEF CowInv, Types
  <2>10. ucow[e] # 0
      BY <2>2, SizeIs
  <2> HIDE DEF CowInv
  <2>11. ASSUME NEW f \in Env, NEW u \in Vpn
         PROVE  \/ pte'[f][u].pg = 0 /\ pte[f][u].pg = 0
                \/ /\ pte'[f][u].pg # 0 /\ pte[f][u].pg # 0
                   /\ data'[pte'[f][u].pg] = data[pte[f][u].pg]
    <3>1. CASE f = e /\ u = v
        BY <2>3, <2>4, <2>9, <2>10, <3>1
    <3>2. CASE f # e \/ u # v
        BY <2>4, <2>9, <3>2
    <3> QED BY <3>1, <3>2
  <2> QED BY <2>1, <2>6, <2>11
<1>9. Same
    BY <1>2, <1>3, <1>4, <1>5, <1>6, <1>7, <1>8
<1>10. \A f \in Env, a \in Addr : Byte(f, a)' = Byte(f, a)
    BY <1>9, SameBytes
<1> QED BY <1>9, <1>10, Stutter
LEMMA AllocUnseen ==
    ASSUME CowInv, CowInv', NEW e \in Env, fault_alloc(e)
    PROVE  UNCHANGED AbsVars
<1> USE DEF CowInv
<1>1. PICK p : p = page_alloc
    OBVIOUS
<1>2. p \in Page /\ p # LibPage /\ p # 0 /\ \A f \in Env, u \in Vpn : pte[f][u].pg # p
    BY <1>1, FaultAlloc, FreePages, SizeIs
<1>3. PICK x : x = [NoPte EXCEPT !.pg = p, !.w = TRUE]
    OBVIOUS
<1>4. x.pg = p
    BY <1>3 DEF NoPte
<1>5. PICK v \in Vpn : v = PageOf(st[e].a) /\ pte[e][v].pg = 0
  <2>1. st[e].pc = "try" /\ Target(e).pg = 0 /\ StageOk(e)
      BY DEF fault_alloc, At, Stages
  <2> QED BY <2>1, AddrIs DEF StageOk, Target
<1>6. UNCHANGED <<prog, status, fk>> /\ data' = [data EXCEPT ![p] = ZeroPage] /\ pte' = [pte EXCEPT ![e][v] = x]
    BY <1>1, <1>3, <1>5 DEF fault_alloc
<1>7. /\ \A q \in Page : q # p => data'[q] = data[q]
      /\ data'[p] = ZeroPage
      /\ \A f \in Env, u \in Vpn : f # e \/ u # v => pte'[f][u] = pte[f][u]
      /\ pte'[e][v] = x
    BY <1>2, <1>6 DEF Types
<1>8. \A f \in Env, u \in Vpn : pte[f][u].pg # 0 => pte[f][u].pg \in Page
    BY SizeIs DEF Types, Pte
<1>9. ASSUME NEW f \in Env, NEW a \in Addr PROVE Byte(f, a)' = Byte(f, a)
  <2>1. PageOf(a) \in Vpn /\ Off(a) \in Offsets /\ ZeroPage[Off(a)] = 0
      BY AddrIs DEF ZeroPage, Offsets
  <2>2. Hidden(f, PageOf(a))' = Hidden(f, PageOf(a))
      BY <1>6 DEF Hidden
  <2>3. CASE f = e /\ PageOf(a) = v
      BY <1>2, <1>4, <1>5, <1>7, <2>1, <2>2, <2>3, SizeIs DEF Byte
  <2>4. CASE f # e \/ PageOf(a) # v
      BY <1>2, <1>7, <1>8, <2>1, <2>2, <2>4, SizeIs DEF Byte
  <2> QED BY <2>3, <2>4
<1>10. \A f \in Env : (status'[f] = "run") <=> (status[f] = "run")
    BY <1>6
<1>11. prog' = prog
    BY <1>6
<1> HIDE DEF CowInv
<1> QED BY <1>9, <1>10, <1>11, Stutter

LEMMA ForkUnseen ==
    ASSUME CowInv, CowInv', NEW e \in Env, NEW c \in Env, fork(e, c)
    PROVE  UNCHANGED AbsVars
<1> USE DEF CowInv
<1>1. UNCHANGED <<prog, data, pte>> /\ status[c] = "none" /\ ~fk[e].on
    BY DEF fork, Quiet
<1>2. PICK k : k = [child |-> c, vpn |-> 0, half |-> FALSE, on |-> TRUE]
    OBVIOUS
<1>3. fk' = [fk EXCEPT ![e] = k] /\ k.child = c
    BY <1>2 DEF fork
<1>4. \A f \in Env : f # e => fk'[f] = fk[f]
    BY <1>3 DEF Types
<1>5. fk'[e] = k
    BY <1>3 DEF Types
<1>6. ASSUME NEW f \in Env, NEW a \in Addr PROVE Byte(f, a)' = Byte(f, a)
  <2>1. PageOf(a) \in Vpn
      BY AddrIs
  <2>2. CASE f = c
    <3>1. pte[c][PageOf(a)].pg = 0
        BY <1>1, <2>1 DEF Entries, NoPte
    <3> QED BY <1>1, <2>2, <3>1 DEF Byte
  <2>3. CASE f # c
    <3>1. Hidden(f, PageOf(a))' <=> Hidden(f, PageOf(a))
        BY <1>1, <1>3, <1>4, <1>5, <2>3 DEF Hidden
    <3> QED BY <1>1, <3>1 DEF Byte
  <2> QED BY <2>2, <2>3
<1>7. \A f \in Env : (status'[f] = "run") <=> (status[f] = "run")
    BY DEF fork, Types
<1> HIDE DEF CowInv
<1> QED BY <1>1, <1>6, <1>7, Stutter

LEMMA DupChildUnseen ==
    ASSUME CowInv, CowInv', NEW e \in Env, NEW c \in Env, NEW v \in Vpn, Copying(e, c, v),
           DupChild(e, c, v), UNCHANGED <<prog, data, ucow, status, st, left>>
    PROVE  UNCHANGED AbsVars
<1> USE DEF CowInv
<1>1. /\ fk[e].on /\ fk[e].child = c /\ Order(v) = fk[e].vpn
    BY DEF Copying
<1>2. \A f \in Env : fk'[f].on = fk[f].on /\ fk'[f].child = fk[f].child /\ fk'[f].vpn = fk[f].vpn
    BY DEF DupChild, Types
<1>3. \A f \in Env, u \in Vpn : f # c \/ u # v => pte'[f][u] = pte[f][u]
    BY DEF DupChild, Types
<1>4. Hidden(c, v)
  <2>1. Order(v) >= fk[e].vpn
      BY <1>1, OrderIs, VpnIs
  <2> QED BY <1>1, <2>1 DEF Hidden
<1>5. ASSUME NEW f \in Env, NEW a \in Addr PROVE Byte(f, a)' = Byte(f, a)
  <2>1. PageOf(a) \in Vpn
      BY AddrIs
  <2>2. Hidden(f, PageOf(a))' <=> Hidden(f, PageOf(a))
      BY <1>2 DEF Hidden
  <2>3. CASE f = c /\ PageOf(a) = v
      BY <1>4, <2>2, <2>3 DEF Byte
  <2>4. CASE f # c \/ PageOf(a) # v
      BY <1>3, <2>1, <2>2, <2>4 DEF Byte
  <2> QED BY <2>3, <2>4
<1> HIDE DEF CowInv
<1> QED BY <1>5, Stutter

(* A page is copied when duppage is done with it. *)
LEMMA DupCopies ==
    ASSUME CowInv, CowInv', NEW e \in Env, NEW c \in Env, NEW v \in Vpn, Copying(e, c, v),
           DupParent(e, c, v) \/ DupAsIs(e, c, v), UNCHANGED <<prog, data, ucow, status, st, left>>
    PROVE  Abstract!Next
<1> USE DEF CowInv
<1>1. /\ fk[e].on /\ fk[e].child = c /\ Order(v) = fk[e].vpn /\ c # e
      /\ status[e] = "run" /\ status[c] = "new"
      /\ \A f \in Env : fk[f].on => fk[f].child # e /\ (f # e => fk[f].child # c)
    BY DEF Copying
<1>2. fk'[e].on = fk[e].on /\ fk'[e].child = c /\ fk'[e].vpn = fk[e].vpn + 1
  <2>1. fk[e] \in [child : Env, vpn : 0..Cardinality(Vpn), half : BOOLEAN, on : BOOLEAN]
      BY DEF Types
  <2>2. CASE DupParent(e, c, v)
    <3>1. PICK k : k = [fk[e] EXCEPT !.half = FALSE, !.vpn = @ + 1]
        OBVIOUS
    <3>2. fk'[e] = k
        BY <2>2, <3>1 DEF DupParent, Types
    <3> QED BY <1>1, <2>1, <3>1, <3>2
  <2>3. CASE DupAsIs(e, c, v)
    <3>1. PICK k : k = [fk[e] EXCEPT !.vpn = @ + 1]
        OBVIOUS
    <3>2. fk'[e] = k
        BY <2>3, <3>1 DEF DupAsIs, Types
    <3> QED BY <1>1, <2>1, <3>1, <3>2
  <2> QED BY <2>2, <2>3
<1>3. \A f \in Env : f # e => fk'[f] = fk[f]
    BY DEF DupParent, DupAsIs, Types
<1>4. /\ \A f \in Env, u \in Vpn : f # c \/ u # v => pte'[f][u].pg = pte[f][u].pg
      /\ pte'[c][v].pg = pte[e][v].pg
  <2>1. CASE DupParent(e, c, v)
    <3>1. PICK y : y = CowOf(pte[e][v])
        OBVIOUS
    <3>2. y.pg = pte[e][v].pg
      <4>1. pte[e][v] \in Pte
          BY DEF Types
      <4> QED BY <3>1, <4>1 DEF CowOf, Pte
    <3>3. pte' = [pte EXCEPT ![e][v] = y] /\ fk[e].half
        BY <2>1, <3>1 DEF DupParent
    <3>4. pte[c][v] = y
        BY <1>1, <3>1, <3>3 DEF Forks, ForkOk
    <3>5. \A f \in Env, u \in Vpn : pte'[f][u] = IF f = e /\ u = v THEN y ELSE pte[f][u]
        BY <3>3 DEF Types
    <3> QED BY <1>1, <3>2, <3>4, <3>5
  <2>2. CASE DupAsIs(e, c, v)
      BY <1>1, <2>2 DEF DupAsIs, Types
  <2> QED BY <2>1, <2>2
<1>5. \A f \in Env, a \in Addr : f # c => Byte(f, a)' = Byte(f, a)
  <2> SUFFICES ASSUME NEW f \in Env, NEW a \in Addr, f # c PROVE Byte(f, a)' = Byte(f, a)
      OBVIOUS
  <2>1. PageOf(a) \in Vpn
      BY AddrIs
  <2>2. Hidden(f, PageOf(a))' <=> Hidden(f, PageOf(a))
      BY <1>1, <1>2, <1>3 DEF Hidden
  <2> QED BY <1>4, <2>1, <2>2 DEF Byte
<1>6. \A u \in Vpn : ~Hidden(e, u)
    BY <1>1 DEF Hidden
<1>7. \A u \in Vpn : /\ Hidden(c, u) <=> Order(u) >= fk[e].vpn
                     /\ Hidden(c, u)' <=> Order(u) >= fk[e].vpn + 1
  <2>1. \A f \in Env : fk[f].on /\ fk[f].child = c => f = e
      BY <1>1
  <2>2. \A f \in Env : fk'[f].on /\ fk'[f].child = c => f = e
      BY <1>1, <1>3
  <2> QED BY <1>1, <1>2, <2>1, <2>2 DEF Hidden
<1>8. ASSUME NEW a \in Addr
      PROVE  Byte(c, a)' = IF PageOf(a) = v THEN Byte(e, a) ELSE Byte(c, a)
  <2>1. PageOf(a) \in Vpn /\ Order(PageOf(a)) \in Nat /\ fk[e].vpn \in Nat
    <3>1. PageOf(a) \in Vpn
        BY AddrIs
    <3>2. Order(PageOf(a)) \in Nat
      <4>1. Order(PageOf(a)) \in 0..(Cardinality(Vpn) - 1)
          BY <3>1, OrderIs
      <4> HIDE DEF CowInv
      <4> QED BY <4>1, VpnIs
    <3>3. fk[e].vpn \in Nat
        BY VpnIs DEF Types
    <3> QED BY <3>1, <3>2, <3>3
  <2>2. CASE PageOf(a) = v
    <3>1. ~Hidden(c, v)'
        BY <1>1, <1>7, <2>1, <2>2
    <3> QED BY <1>4, <1>6, <2>1, <2>2, <3>1 DEF Byte
  <2>3. CASE PageOf(a) # v
    <3>1. Order(PageOf(a)) # fk[e].vpn
        BY <1>1, <2>1, <2>3, OrderInj
    <3>2. Hidden(c, PageOf(a))' <=> Hidden(c, PageOf(a))
        BY <1>7, <2>1, <3>1
    <3> QED BY <1>4, <2>1, <2>3, <3>2 DEF Byte
  <2> QED BY <2>2, <2>3
<1> HIDE DEF CowInv
<1>9. /\ View' = [View EXCEPT ![c] = [a \in Addr |-> Byte(c, a)']]
      /\ \A f \in Env, a \in Addr : View[f][a] = Byte(f, a)
    BY <1>5, ViewOf
<1>10. View' = [View EXCEPT ![c] = [a \in Addr |-> IF PageOf(a) = v THEN View[e][a] ELSE @[a]]]
    BY <1>8, <1>9
<1>11. e \in Live /\ c \notin Live /\ Live' = Live
    BY <1>1 DEF Live
<1>12. Abstract!CopyPage(e, c, v)
    BY <1>10, <1>11 DEF Abstract!CopyPage, Abstract!PageOf, PageOf, View, Live
<1>13. Described(prog)' = Described(prog)
    BY DEF Described
<1> QED BY <1>12, <1>13 DEF Abstract!Next
LEMMA EndStarts ==
    ASSUME CowInv, CowInv', NEW e \in Env, fork_end(e)
    PROVE  Abstract!Next
<1> USE DEF CowInv
<1>1. PICK c \in Env : c = fk[e].child
    BY DEF Types
<1>2. /\ UNCHANGED <<prog, data, pte>> /\ fk[e].on /\ fk[e].vpn = Cardinality(Vpn)
      /\ status' = [status EXCEPT ![c] = "run"] /\ fk' = [fk EXCEPT ![e] = NoFork]
    BY <1>1 DEF fork_end
<1>3. ForkOk(e) /\ status[e] = "run" /\ status[c] = "new"
    BY <1>1, <1>2 DEF Forks, ForkOk, Idle
<1>4. /\ \A f \in Env : f # e => fk'[f] = fk[f]
      /\ ~fk'[e].on
    BY <1>2 DEF Types, NoFork
<1>5. \A u \in Vpn : Order(u) < fk[e].vpn /\ ~(Order(u) >= fk[e].vpn)
    BY <1>2, OrderIs, VpnIs
<1>6. ASSUME NEW f \in Env, NEW a \in Addr PROVE Byte(f, a)' = Byte(f, a)
  <2>1. PageOf(a) \in Vpn
      BY AddrIs
  <2>2. Hidden(f, PageOf(a))' <=> Hidden(f, PageOf(a))
      BY <1>4, <1>5, <2>1 DEF Hidden
  <2> QED BY <1>2, <2>2 DEF Byte
<1>7. \A u \in Vpn : ~Hidden(c, u) /\ ~Hidden(e, u)
  <2>1. \A f \in Env : fk[f].on => fk[f].child # e /\ (fk[f].child = c => f = e)
      BY <1>1, <1>2, <1>3 DEF Forks, ForkOk
  <2> QED BY <1>5, <2>1 DEF Hidden
<1>8. ASSUME NEW a \in Addr, PageOf(a) # StackVpn PROVE Byte(c, a) = Byte(e, a)
  <2>1. PageOf(a) \in Vpn
      BY AddrIs
  <2>2. pte[c][PageOf(a)].pg = pte[e][PageOf(a)].pg
      BY <1>1, <1>2, <1>3, <1>5, <1>8, <2>1 DEF ForkOk
  <2> QED BY <1>7, <2>1, <2>2 DEF Byte
<1>9. e \in Live /\ c \notin Live /\ Live' = Live \cup {c}
    BY <1>2, <1>3 DEF Live, Types
<1> HIDE DEF CowInv
<1>10. View' = View /\ \A f \in Env, a \in Addr : View[f][a] = Byte(f, a)
    BY <1>6, ViewIs
<1>11. \A a \in Addr : PageOf(a) # StackVpn => View[c][a] = View[e][a]
    BY <1>8, <1>10
<1>12. Abstract!Start(e, c)
    BY <1>9, <1>10, <1>11 DEF Abstract!Start, View, Live
<1>13. Described(prog)' = Described(prog)
    BY <1>2 DEF Described
<1> QED BY <1>12, <1>13 DEF Abstract!Next

LEMMA ExitExits ==
    ASSUME CowInv, CowInv', NEW e \in Env, exit(e)
    PROVE  Abstract!Next
<1> USE DEF CowInv
<1>1. /\ UNCHANGED <<prog, fk>> /\ status[e] = "run" /\ status' = [status EXCEPT ![e] = "none"]
      /\ pte' = [pte EXCEPT ![e] = [v \in Vpn |-> NoPte]]
    BY DEF exit, Quiet
<1>2. /\ \A f \in Env : f # e => pte'[f] = pte[f]
      /\ \A u \in Vpn : pte'[e][u].pg = 0
    BY <1>1 DEF Types, NoPte
<1>3. PICK S : Forget(S)
    BY DEF exit
<1>4. data'[LibPage] = data[LibPage]
    BY <1>3, Forgotten
<1>5. \A f \in Env, u \in Vpn : f # e /\ pte[f][u].pg # 0 => data'[pte[f][u].pg] = data[pte[f][u].pg]
    BY Exit
<1>6. \A f \in Env, a \in Addr : f # e => Byte(f, a)' = Byte(f, a)
  <2> SUFFICES ASSUME NEW f \in Env, NEW a \in Addr, f # e PROVE Byte(f, a)' = Byte(f, a)
      OBVIOUS
  <2>1. PageOf(a) \in Vpn
      BY AddrIs
  <2>2. Hidden(f, PageOf(a))' <=> Hidden(f, PageOf(a))
      BY <1>1 DEF Hidden
  <2> QED BY <1>2, <1>4, <1>5, <2>1, <2>2 DEF Byte
<1>7. ASSUME NEW a \in Addr PROVE Byte(e, a)' = IF PageOf(a) = LibVpn THEN Byte(e, a) ELSE 0
  <2>1. PageOf(a) \in Vpn
      BY AddrIs
  <2> QED BY <1>2, <1>4, <2>1 DEF Byte
<1>8. e \in Live /\ Live' = Live \ {e}
    BY <1>1 DEF Live, Types
<1> HIDE DEF CowInv
<1>9. /\ View' = [View EXCEPT ![e] = [a \in Addr |-> Byte(e, a)']]
      /\ \A f \in Env, a \in Addr : View[f][a] = Byte(f, a)
    BY <1>6, ViewOf
<1>10. View' = [View EXCEPT ![e] = [a \in Addr |-> IF a \in {b \in Addr : PageOf(b) = LibVpn} THEN @[a] ELSE 0]]
    BY <1>7, <1>9
<1>11. Abstract!Exit(e)
    BY <1>8, <1>10 DEF Abstract!Exit, View, Live
<1>12. Described(prog)' = Described(prog)
    BY <1>1 DEF Described
<1> QED BY <1>11, <1>12 DEF Abstract!Next

LEMMA StoreStores ==
    ASSUME CowInv, CowInv', NEW e \in Env, Store(e)
    PROVE  Abstract!Next
<1> USE DEF CowInv
<1>1. UNCHANGED <<prog, pte, status, fk>> /\ st[e].pc = "try" /\ Target(e).pg # 0 /\ Target(e).w /\ StageOk(e)
    BY DEF Store, At, Stages
<1>2. PICK b \in Addr : b = st[e].a
    BY <1>1 DEF StageOk
<1>3. PICK v \in Vpn, o \in Offsets : v = PageOf(b) /\ o = Off(b)
    BY AddrIs
<1>4. PICK p \in Page : p = pte[e][v].pg /\ p # 0
  <2>1. pte[e][v].pg \in 0..NPage
      BY DEF Types, Pte
  <2>2. Target(e) = pte[e][v]
      BY <1>2, <1>3 DEF Target
  <2> QED BY <1>1, <2>1, <2>2, SizeIs
<1>5. pte[e][v].w /\ status[e] = "run"
    BY <1>1, <1>2, <1>3 DEF Target, Idle
<1>6. data' = [data EXCEPT ![p][o] = Stored]
    BY <1>2, <1>3, <1>4 DEF Store, Target
<1>7. /\ \A q \in Page : q # p => data'[q] = data[q]
      /\ \A n \in Offsets : data'[p][n] = IF n = o THEN Stored ELSE data[p][n]
    BY <1>6 DEF Types
<1>8. \A f \in Env, u \in Vpn : pte[f][u].pg # 0 => pte[f][u].pg \in Page
    BY SizeIs DEF Types, Pte
<1>9. \A f \in Env, u \in Vpn : Hidden(f, u)' <=> Hidden(f, u)
    BY <1>1 DEF Hidden
<1>10. \A u \in Vpn : ~Hidden(e, u)
    BY <1>5 DEF Hidden, Forks, ForkOk
<1>11. v = LibVpn <=> p = LibPage
    BY <1>4, <1>5 DEF Entries, LibPte
<1>12. ASSUME NEW f \in Env, NEW a \in Addr
       PROVE  Byte(f, a)' = IF a = b /\ (f = e \/ v = LibVpn) THEN Stored ELSE Byte(f, a)
  <2>1. /\ PageOf(a) \in Vpn /\ Off(a) \in Offsets
        /\ (PageOf(a) = v /\ Off(a) = o => a = b)
    <3>1. a = PageOf(a) * PAGE_SIZE + Off(a) /\ b = PageOf(b) * PAGE_SIZE + Off(b)
        BY AddrIs
    <3>2. PageOf(a) \in Vpn /\ Off(a) \in Offsets
        BY AddrIs
    <3> HIDE DEF CowInv
    <3> QED BY <1>3, <3>1, <3>2
  <2>2. CASE PageOf(a) = LibVpn
    <3>1. Byte(f, a)' = data'[LibPage][Off(a)] /\ Byte(f, a) = data[LibPage][Off(a)]
        BY <2>2 DEF Byte
    <3>2. CASE v = LibVpn
        BY <1>3, <1>7, <1>11, <2>1, <2>2, <3>1, <3>2
    <3>3. CASE v # LibVpn
        BY <1>3, <1>7, <1>11, <2>2, <3>1, <3>3, SizeIs
    <3> QED BY <3>2, <3>3
  <2>3. CASE PageOf(a) # LibVpn
    <3> DEFINE u == PageOf(a)
    <3>1. CASE f = e /\ u = v
        BY <1>1, <1>3, <1>4, <1>7, <1>9, <1>10, <2>1, <2>3, <3>1 DEF Byte
    <3>2. CASE f # e \/ u # v
      <4>1. ~(a = b /\ (f = e \/ v = LibVpn))
          BY <1>3, <2>3, <3>2
      <4>2. CASE pte[f][u].pg = p
        <5>1. p # LibPage
            BY <2>1, <2>3, <4>2 DEF Entries
        <5>2. u = v /\ Half(e, f, v)
            BY <1>4, <1>5, <2>1, <3>2, <4>2, <5>1 DEF SharedReadOnly
        <5>3. Hidden(f, u)
          <6>1. Order(v) >= fk[e].vpn
              BY <5>2, OrderIs, VpnIs DEF Half
          <6> QED BY <5>2, <6>1 DEF Half, Hidden
        <5> QED BY <1>9, <2>1, <2>3, <4>1, <5>3 DEF Byte
      <4>3. CASE pte[f][u].pg # p
          BY <1>1, <1>7, <1>8, <1>9, <2>1, <2>3, <4>1, <4>3 DEF Byte
      <4> QED BY <4>2, <4>3
    <3> QED BY <3>1, <3>2
  <2> QED BY <2>2, <2>3
<1> HIDE DEF CowInv
<1>13. e \in Live /\ Live' = Live
    BY <1>1, <1>5 DEF Live
<1>14. View = [f \in Env |-> [a \in Addr |-> Byte(f, a)]] /\ View' = [f \in Env |-> [a \in Addr |-> Byte(f, a)']]
    BY ViewIs
<1>15. View'[e][b] = Stored
    BY <1>12, <1>14
<1>16. View' = [f \in Env |-> IF f = e \/ b \in {a \in Addr : PageOf(a) = LibVpn}
                              THEN [View[f] EXCEPT ![b] = Stored] ELSE View[f]]
    BY <1>3, <1>12, <1>14
<1>17. Abstract!Store(e, b, Stored)
    BY <1>13, <1>15, <1>16 DEF Abstract!Store, View, Live
<1>18. Described(prog)' = Described(prog)
    BY <1>1 DEF Described
<1> QED BY <1>17, <1>18 DEF Abstract!Next
(* A loaded program is what its file describes. *)
LEMMA LoadLoads ==
    ASSUME CowInv, NEW c \in Env, status[c] = "none", NEW m, Loads(prog, m),
           NEW stack, stack = {} \/ stack = {StackVpn}, Placed(c, m, stack),
           status' = [status EXCEPT ![c] = "run"], UNCHANGED <<prog, ucow, st, fk>>
    PROVE  CowInv' /\ Abstract!Next
<1>a. PICK used \in SUBSET Vpn : \E pg \in [used -> Free] : AreHomes(c, m, stack, used, pg)
    BY PlacedIs
<1>b. PICK pg \in [used -> Free] : AreHomes(c, m, stack, used, pg)
    BY <1>a
<1>1. /\ used = {v \in Image : m[v] # NoPage} \cup stack
      /\ \A u, v \in used : pg[u] = pg[v] => u = v
      /\ data' \in [Page -> [Offsets -> Nat]]
      /\ \A q \in Page : q \notin Free => data'[q] = data[q]
      /\ \A v \in used : data'[pg[v]] = IF v \in Image THEN m[v].bytes ELSE ZeroPage
      /\ pte' = [pte EXCEPT ![c] = Row(m, used, pg)]
      /\ Row(m, used, pg) \in [Vpn -> Pte]
    BY <1>b DEF AreHomes
<1>2. CowInv'
    BY <1>b, LoadInv
<1> USE DEF CowInv
<1>3. PICK r : r = Row(m, used, pg)
    OBVIOUS
<1>4. /\ \A v \in used : v # LibVpn => r[v].pg = pg[v]
      /\ \A v \in Vpn : v \notin used /\ v # LibVpn => r[v].pg = 0
    BY <1>3 DEF Row, NoPte
<1>5. pte'[c] = r /\ \A f \in Env : f # c => pte'[f] = pte[f]
    BY <1>1, <1>3 DEF Types
<1>6. data'[LibPage] = data[LibPage]
    BY <1>1, FreePages, SizeIs
<1>7. \A f \in Env, u \in Vpn : pte[f][u].pg # 0 => data'[pte[f][u].pg] = data[pte[f][u].pg]
  <2> SUFFICES ASSUME NEW f \in Env, NEW u \in Vpn, pte[f][u].pg # 0
               PROVE  data'[pte[f][u].pg] = data[pte[f][u].pg]
      OBVIOUS
  <2>1. pte[f][u].pg \in Page
      BY SizeIs DEF Types, Pte
  <2>2. pte[f][u].pg \notin Free
      BY FreePages
  <2> QED BY <1>1, <2>1, <2>2
<1>8. \A f \in Env, u \in Vpn : Hidden(f, u)' <=> Hidden(f, u)
    BY DEF Hidden
<1>9. \A u \in Vpn : ~Hidden(c, u)
    BY DEF Hidden, Forks, ForkOk
<1>10. \A f \in Env, a \in Addr : f # c => Byte(f, a)' = Byte(f, a)
  <2> SUFFICES ASSUME NEW f \in Env, NEW a \in Addr, f # c PROVE Byte(f, a)' = Byte(f, a)
      OBVIOUS
  <2>1. PageOf(a) \in Vpn
      BY AddrIs
  <2> QED BY <1>5, <1>6, <1>7, <1>8, <2>1 DEF Byte
<1>11. ASSUME NEW a \in Addr
       PROVE  Byte(c, a)' = IF PageOf(a) = LibVpn THEN Byte(c, a) ELSE Described(prog)[a]
  <2>1. PageOf(a) \in Vpn /\ Off(a) \in Offsets /\ ZeroPage[Off(a)] = 0
      BY AddrIs DEF ZeroPage, Offsets
  <2>2. CASE PageOf(a) = LibVpn
      BY <1>6, <2>2 DEF Byte
  <2>3. CASE PageOf(a) # LibVpn
    <3>1. PICK v \in Vpn : v = PageOf(a)
        BY <2>1
    <3>2. Described(prog)[a] = IF v \in Image /\ m[v] # NoPage THEN m[v].bytes[Off(a)] ELSE 0
        BY <2>3, <3>1 DEF Loads
    <3>3. CASE v \in used
      <4>1. pte'[c][v].pg = pg[v] /\ pg[v] # 0
          BY <1>4, <1>5, <2>3, <3>1, <3>3, FreePages, SizeIs
      <4>2. Byte(c, a)' = data'[pg[v]][Off(a)]
          BY <1>8, <1>9, <2>3, <3>1, <4>1 DEF Byte
      <4>3. v \in Image => m[v] # NoPage
          BY <1>1, <3>3, VpnIs
      <4> QED BY <1>1, <2>1, <2>3, <3>1, <3>2, <3>3, <4>2, <4>3
    <3>4. CASE v \notin used
      <4>1. pte'[c][v].pg = 0
          BY <1>4, <1>5, <2>3, <3>1, <3>4
      <4>2. ~(v \in Image /\ m[v] # NoPage)
          BY <1>1, <3>4
      <4> QED BY <2>3, <3>1, <3>2, <4>1, <4>2 DEF Byte
    <3> QED BY <3>3, <3>4
  <2> QED BY <2>2, <2>3
<1>12. c \notin Live /\ Live' = Live \cup {c}
    BY DEF Live, Types
<1> HIDE DEF CowInv
<1>13. /\ View' = [View EXCEPT ![c] = [a \in Addr |-> Byte(c, a)']]
       /\ \A f \in Env, a \in Addr : View[f][a] = Byte(f, a)
    BY <1>2, <1>10, ViewOf
<1>14. View' = [View EXCEPT ![c] = [a \in Addr |->
                   IF a \in {b \in Addr : PageOf(b) = LibVpn} THEN @[a] ELSE Described(prog)[a]]]
    BY <1>11, <1>13
<1>15. Abstract!Load(c)
    BY <1>12, <1>14 DEF Abstract!Load, View, Live
<1>16. Described(prog)' = Described(prog)
    BY DEF Described
<1>17. Abstract!Next
    BY <1>15, <1>16 DEF Abstract!Next
<1> QED BY <1>2, <1>17

(* A step keeps the invariant, and is a step of Copies or is not seen. *)
LEMMA CowStep ==
    ASSUME LoadsRight, CowInv, [Next]_vars
    PROVE  CowInv' /\ (Abstract!Next \/ UNCHANGED AbsVars)
<1>1. CASE env_create
  <2>1. status[Root] = "none" /\ Root \in Env
      BY <1>1, CowAssumption DEF env_create
  <2>2. Loads(prog, load_icode(prog))
      BY DEF LoadsRight, CowInv, Types
  <2>3. /\ Placed(Root, load_icode(prog), {}) /\ status' = [status EXCEPT ![Root] = "run"]
        /\ UNCHANGED <<prog, ucow, st, fk>>
      BY <1>1 DEF env_create
  <2> QED BY <2>1, <2>2, <2>3, LoadLoads
<1>2. ASSUME NEW e \in Env, NEW c \in Env, spawn(e, c)
      PROVE  CowInv' /\ Abstract!Next
  <2>1. status[c] = "none" /\ Aligned(prog)
      BY <1>2 DEF spawn
  <2>2. Loads(prog, load_spawn(prog))
      BY <2>1 DEF LoadsRight, CowInv, Types
  <2>3. /\ Placed(c, load_spawn(prog), {StackVpn}) /\ status' = [status EXCEPT ![c] = "run"]
        /\ UNCHANGED <<prog, ucow, st, fk>>
      BY <1>2 DEF spawn
  <2> QED BY <2>1, <2>2, <2>3, LoadLoads
<1>3. ASSUME NEW e \in Env, duppage(e)
      PROVE  CowInv' /\ (Abstract!Next \/ UNCHANGED AbsVars)
  <2>1. PICK c \in Env, v \in Vpn : Copying(e, c, v)
      BY <1>3, Duppage
  <2>2. /\ DupChild(e, c, v) \/ DupParent(e, c, v) \/ DupAsIs(e, c, v)
        /\ UNCHANGED <<prog, data, ucow, status, st, left>>
      BY <1>3, <2>1, DupCases
  <2>3. CowInv'
      BY <2>1, <2>2, DupChildInv, DupParentInv, DupAsIsInv
  <2> QED BY <2>1, <2>2, <2>3, DupChildUnseen, DupCopies
<1>4. ASSUME NEW e \in Env, fork_end(e) PROVE CowInv' /\ Abstract!Next
    BY <1>4, ForkEnd, EndStarts
<1>5. ASSUME NEW e \in Env, exit(e) PROVE CowInv' /\ Abstract!Next
    BY <1>5, Exit, ExitExits
<1>6. ASSUME NEW e \in Env, Store(e) PROVE CowInv' /\ Abstract!Next
    BY <1>6, Stores, StoreStores
<1>7. ASSUME NEW e \in Env, fault_alloc(e) PROVE CowInv' /\ UNCHANGED AbsVars
    BY <1>7, FaultAlloc, AllocUnseen
<1>8. ASSUME NEW e \in Env, NEW c \in Env, fork(e, c) PROVE CowInv' /\ UNCHANGED AbsVars
    BY <1>8, Fork, ForkUnseen
<1>9. ASSUME NEW e \in Env, NEW a \in StoreAddr, BeginStore(e, a) PROVE CowInv' /\ UNCHANGED AbsVars
    BY <1>9, Begin, Unseen
<1>10. ASSUME NEW e \in Env, fault_cow(e) PROVE CowInv' /\ UNCHANGED AbsVars
    BY <1>10, FaultCow, Unseen
<1>11. ASSUME NEW e \in Env, fault_write(e) PROVE CowInv' /\ UNCHANGED AbsVars
    BY <1>11, FaultWrite, Unseen
<1>12. ASSUME NEW e \in Env, cow_entry(e) PROVE CowInv' /\ UNCHANGED AbsVars
  <2>1. cow_alloc(e) \/ cow_copy(e) \/ cow_map(e) \/ cow_unmap(e)
      BY <1>12 DEF cow_entry
  <2>2. CowInv'
      BY <2>1, CowAlloc, CowCopy, CowMap, CowUnmap
  <2> QED BY <2>1, <2>2, Unseen
<1>13. CASE UNCHANGED vars
  <2>1. UNCHANGED <<prog, data, pte, ucow, status, st, fk>>
      BY <1>13 DEF vars
  <2>2. CowInv'
      BY <2>1 DEF CowInv, Types, Entries, Idle, Forks, ForkOk, SharedReadOnly, Half, Stages, StageOk, Target, Alone, Ucows
  <2>3. \A f \in Env, a \in Addr : Byte(f, a)' = Byte(f, a)
      BY <2>1 DEF Byte, Hidden
  <2> QED BY <2>1, <2>2, <2>3, Stutter
<1> QED BY <1>1, <1>2, <1>3, <1>4, <1>5, <1>6, <1>7, <1>8, <1>9, <1>10, <1>11, <1>12, <1>13
    DEF Next, Running, Fault

LEMMA CowStart ==
    ASSUME Init, CowInv
    PROVE  Abstract!Init
<1>1. Live = {}
    BY DEF Init, Live
<1>2. \A e \in Env, a \in Addr : Byte(e, a) = 0
  <2> SUFFICES ASSUME NEW e \in Env, NEW a \in Addr PROVE Byte(e, a) = 0
      OBVIOUS
  <2>1. PageOf(a) \in Vpn /\ Off(a) \in Offsets /\ ZeroPage[Off(a)] = 0
      BY AddrIs DEF ZeroPage, Offsets
  <2>2. data[LibPage] = ZeroPage /\ pte[e][PageOf(a)].pg = 0
      BY <2>1, SizeIs DEF Init, NoPte
  <2> QED BY <2>1, <2>2 DEF Byte
<1>3. View = [e \in Env |-> [a \in Addr |-> 0]]
    BY <1>2, ViewIs
<1> QED BY <1>1, <1>3 DEF Abstract!Init, Abstract!Zero, View, Live

(* The invariant holds throughout, for any number of processes and pages   *)
(* and any interleaving, where the loaders load what the file describes.   *)
THEOREM CowInvariant == LoadsRight => (Spec => []CowInv)
<1> SUFFICES ASSUME LoadsRight PROVE Spec => []CowInv
    OBVIOUS
<1>1. Init => CowInv
    BY CowInit
<1>2. CowInv /\ [Next]_vars => CowInv'
    BY CowStep
<1> QED BY <1>1, <1>2, PTL DEF Spec

(* A page that is mapped twice cannot be written by anybody, but for a     *)
(* parent inside duppage.                                                  *)
THEOREM CowShared == LoadsRight => (Spec => []SharedReadOnly)
<1> SUFFICES ASSUME LoadsRight PROVE Spec => []SharedReadOnly
    OBVIOUS
<1>1. Spec => []CowInv
    BY CowInvariant
<1>2. CowInv => SharedReadOnly
    BY DEF CowInv
<1> QED BY <1>1, <1>2, PTL

(* Processes have memories of their own (module Copies), however the calls *)
(* of fork, the copies on write, the stores, spawn and exit interleave,    *)
(* for any number of processes and pages, where the loaders load what the  *)
(* file describes.                                                         *)
THEOREM CowImplements == LoadsRight => (Spec => ImplementsCopies)
<1> SUFFICES ASSUME LoadsRight PROVE Spec => ImplementsCopies
    OBVIOUS
<1>1. Spec => []CowInv
    BY CowInvariant
<1>2. Init => Abstract!Init
    BY CowInit, CowStart
<1>3. CowInv /\ [Next]_vars => [Abstract!Next]_(Abstract!vars)
  <2>1. AbsVars = Abstract!vars /\ AbsVars' = (Abstract!vars)'
      BY DEF AbsVars, Abstract!vars, View, Live
  <2> QED BY <2>1, CowStep
<1> QED BY <1>1, <1>2, <1>3, PTL DEF Spec, ImplementsCopies, Abstract!Spec
=============================================================================
