--------------------------- MODULE PhysMem_proofs ---------------------------
(***************************************************************************)
(* What the single steps of PhysMem do to the reference counts and to the  *)
(* trees of tables, for tables of any number of levels.  Pmap_proofs and   *)
(* Pmap32_proofs put the calls together from these steps.                  *)
(***************************************************************************)
EXTENDS PhysMem, FiniteSetTheorems, TLAPS

Ptr == Page \cup {NoPage}

Mem == [ref : [Page -> 0 .. RefMod - 1], free : SUBSET Page,
        pt : [Page -> [Vpn -> Ptr]], ok : BOOLEAN]

(* The entries and the directories that point to page x. *)
Into(pt, x) == {y \in Page \X Vpn : pt[y[1]][y[2]] = x}
Own(R, x) == {e \in Env : R[e] = x}
Cnt(pt, R, x) == Cardinality(Into(pt, x)) + Cardinality(Own(R, x))

(* The counts are right and the free list is what they say. *)
Counted(m, R) ==
    /\ m \in Mem /\ R \in [Env -> Ptr]
    /\ \A x \in Page : m.ref[x] = Cnt(m.pt, R, x)
    /\ m.free = {x \in Page : Cnt(m.pt, R, x) = 0}

-----------------------------------------------------------------------------
LEMMA IntoFinite ==
    ASSUME NEW pt, NEW x
    PROVE  IsFiniteSet(Into(pt, x)) /\ Cardinality(Into(pt, x)) \in Nat
<1>1. IsFiniteSet(Page \X Vpn)
    BY FS_Product, PageAssumption, FiniteAssumption
<1>2. Into(pt, x) \subseteq Page \X Vpn
    BY DEF Into
<1>3. IsFiniteSet(Into(pt, x))
    BY <1>1, <1>2, FS_Subset
<1> QED BY <1>3, FS_CardinalityType

LEMMA OwnFinite ==
    ASSUME NEW R, NEW x
    PROVE  IsFiniteSet(Own(R, x)) /\ Cardinality(Own(R, x)) \in Nat
<1>1. Own(R, x) \subseteq Env
    BY DEF Own
<1>2. IsFiniteSet(Own(R, x))
    BY <1>1, FS_Subset, FiniteAssumption
<1> QED BY <1>2, FS_CardinalityType

LEMMA CntNat ==
    ASSUME NEW pt, NEW R, NEW x
    PROVE  Cnt(pt, R, x) \in Nat
BY IntoFinite, OwnFinite DEF Cnt

(* A page that nothing points to, and only such a page, counts 0. *)
LEMMA CntZero ==
    ASSUME NEW pt, NEW R, NEW x
    PROVE  Cnt(pt, R, x) = 0 <=> /\ \A t \in Page, i \in Vpn : pt[t][i] # x
                                 /\ \A e \in Env : R[e] # x
<1>1. Cnt(pt, R, x) = 0 <=> Cardinality(Into(pt, x)) = 0 /\ Cardinality(Own(R, x)) = 0
    BY IntoFinite, OwnFinite DEF Cnt
<1>2. Cardinality(Into(pt, x)) = 0 <=> Into(pt, x) = {}
    BY IntoFinite, FS_EmptySet
<1>3. Cardinality(Own(R, x)) = 0 <=> Own(R, x) = {}
    BY OwnFinite, FS_EmptySet
<1>4. Own(R, x) = {} <=> \A e \in Env : R[e] # x
    BY DEF Own
<1>5. Into(pt, x) = {} <=> \A t \in Page, i \in Vpn : pt[t][i] # x
  <2>1. ASSUME NEW t \in Page, NEW i \in Vpn, pt[t][i] = x
        PROVE  Into(pt, x) # {}
    <3>1. <<t, i>> \in Into(pt, x)
        BY <2>1 DEF Into
    <3> QED BY <3>1
  <2>2. ASSUME Into(pt, x) # {}
        PROVE  \E t \in Page, i \in Vpn : pt[t][i] = x
    <3>1. PICK y : y \in Into(pt, x)
        BY <2>2
    <3> QED BY <3>1 DEF Into
  <2> QED BY <2>1, <2>2
<1> QED BY <1>1, <1>2, <1>3, <1>4, <1>5

(* Tables with one entry written. *)
Upd(pt, t, i, p) == [pt EXCEPT ![t][i] = p]

LEMMA UpdType ==
    ASSUME NEW pt \in [Page -> [Vpn -> Ptr]], NEW t \in Page, NEW i \in Vpn, NEW p \in Ptr
    PROVE  Upd(pt, t, i, p) \in [Page -> [Vpn -> Ptr]]
BY DEF Upd

LEMMA UpdAt ==
    ASSUME NEW pt \in [Page -> [Vpn -> Ptr]], NEW t \in Page, NEW i \in Vpn, NEW p \in Ptr,
           NEW u \in Page, NEW j \in Vpn
    PROVE  Upd(pt, t, i, p)[u][j] = IF u = t /\ j = i THEN p ELSE pt[u][j]
BY DEF Upd

(* Writing one entry moves one pointer. *)
LEMMA OneSlot ==
    ASSUME NEW pt \in [Page -> [Vpn -> Ptr]], NEW R, NEW t \in Page, NEW i \in Vpn,
           NEW p \in Ptr, pt[t][i] # p, NEW x \in Page
    PROVE  Cnt(Upd(pt, t, i, p), R, x)
              = IF x = p THEN Cnt(pt, R, x) + 1
                ELSE IF x = pt[t][i] THEN Cnt(pt, R, x) - 1 ELSE Cnt(pt, R, x)
<1>a. PICK pu : pu = Upd(pt, t, i, p)
    OBVIOUS
<1>b. ASSUME NEW u \in Page, NEW j \in Vpn
      PROVE  Upd(pt, t, i, p)[u][j] = IF u = t /\ j = i THEN p ELSE pt[u][j]
    BY DEF Upd
<1>0. \A u \in Page, j \in Vpn : pu[u][j] = IF u = t /\ j = i THEN p ELSE pt[u][j]
    BY <1>a, <1>b
<1>1. CASE x = p
  <2>1. Into(pu, x) = Into(pt, x) \cup {<<t, i>>}
      BY <1>0, <1>1 DEF Into
  <2>2. <<t, i>> \notin Into(pt, x)
      BY <1>1 DEF Into
  <2>3. Cardinality(Into(pu, x)) = Cardinality(Into(pt, x)) + 1
      BY <2>1, <2>2, IntoFinite, FS_AddElement
  <2> QED BY <1>a, <2>3, <1>1, IntoFinite, OwnFinite DEF Cnt
<1>2. CASE x # p /\ x = pt[t][i]
  <2>1. Into(pu, x) = Into(pt, x) \ {<<t, i>>}
      BY <1>0, <1>2 DEF Into
  <2>2. <<t, i>> \in Into(pt, x)
      BY <1>2 DEF Into
  <2>3. Cardinality(Into(pu, x)) = Cardinality(Into(pt, x)) - 1
      BY <2>1, <2>2, IntoFinite, FS_RemoveElement
  <2> QED BY <1>a, <2>3, <1>2, IntoFinite, OwnFinite DEF Cnt
<1>3. CASE x # p /\ x # pt[t][i]
  <2>1. Into(pu, x) = Into(pt, x)
      BY <1>0, <1>3 DEF Into
  <2> QED BY <1>a, <2>1, <1>3 DEF Cnt
<1> QED BY <1>1, <1>2, <1>3

(* The directories with the one of e replaced. *)
Dir(R, e, p) == [R EXCEPT ![e] = p]

(* A new directory is one pointer. *)
LEMMA OneOwner ==
    ASSUME NEW pt, NEW R \in [Env -> Ptr], NEW e \in Env, R[e] = NoPage, NEW p \in Page,
           NEW x \in Page
    PROVE  Cnt(pt, Dir(R, e, p), x) = IF x = p THEN Cnt(pt, R, x) + 1 ELSE Cnt(pt, R, x)
<1> DEFINE S == Dir(R, e, p)
<1>0. \A f \in Env : S[f] = IF f = e THEN p ELSE R[f]
    BY DEF Dir
<1> HIDE DEF S
<1>1. CASE x = p
  <2>1. Own(S, x) = Own(R, x) \cup {e}
      BY <1>0, <1>1 DEF Own
  <2>2. e \notin Own(R, x)
      BY PageAssumption DEF Own
  <2>3. Cardinality(Own(S, x)) = Cardinality(Own(R, x)) + 1
      BY <2>1, <2>2, OwnFinite, FS_AddElement
  <2> QED BY <2>3, <1>1, IntoFinite, OwnFinite DEF Cnt, S
<1>2. CASE x # p
  <2>1. Own(S, x) = Own(R, x)
      BY <1>0, <1>2, PageAssumption DEF Own
  <2> QED BY <2>1, <1>2 DEF Cnt, S
<1> QED BY <1>1, <1>2

-----------------------------------------------------------------------------
(* The fields that the single steps leave behind. *)

LEMMA SetPteType ==
    ASSUME NEW m \in Mem, NEW t \in Page, NEW i \in Vpn, NEW p \in Page
    PROVE  SetPte(m, t, i, p) \in Mem
<1>1. (m.ref[p] + 1) % RefMod \in 0 .. RefMod - 1
    BY RefAssumption DEF Mem
<1> QED BY <1>1 DEF SetPte, Mem, Ptr

LEMMA SetPteFields ==
    ASSUME NEW m \in Mem, NEW t \in Page, NEW i \in Vpn, NEW p \in Page
    PROVE  /\ SetPte(m, t, i, p).pt = Upd(m.pt, t, i, p)
           /\ SetPte(m, t, i, p).ref = [m.ref EXCEPT ![p] = (m.ref[p] + 1) % RefMod]
           /\ SetPte(m, t, i, p).free = m.free
           /\ SetPte(m, t, i, p).ok = m.ok
<1>1. (m.ref[p] + 1) % RefMod \in 0 .. RefMod - 1
    BY RefAssumption DEF Mem
<1> QED BY <1>1 DEF SetPte, Mem, Ptr, Upd

LEMMA SetPtePt ==
    ASSUME NEW m \in Mem, NEW t \in Page, NEW i \in Vpn, NEW p \in Page
    PROVE  SetPte(m, t, i, p).pt = Upd(m.pt, t, i, p)
BY DEF SetPte, Mem, Upd

LEMMA DropType ==
    ASSUME NEW m \in Mem, NEW q \in Page
    PROVE  Drop(m, q) \in Mem
<1>1. (m.ref[q] - 1) % RefMod \in 0 .. RefMod - 1
    BY RefAssumption DEF Mem
<1> QED BY <1>1 DEF Drop, Mem

LEMMA DropFields ==
    ASSUME NEW m \in Mem, NEW q \in Page
    PROVE  /\ Drop(m, q).pt = m.pt
           /\ Drop(m, q).ref = [m.ref EXCEPT ![q] = (m.ref[q] - 1) % RefMod]
           /\ Drop(m, q).free = IF (m.ref[q] - 1) % RefMod = 0 THEN m.free \cup {q} ELSE m.free
           /\ Drop(m, q).ok = m.ok
<1>1. (m.ref[q] - 1) % RefMod \in 0 .. RefMod - 1
    BY RefAssumption DEF Mem
<1> QED BY <1>1 DEF Drop, Mem

LEMMA PageAlloc ==
    ASSUME NEW m, m.free # {}
    PROVE  page_alloc(m) \in m.free
BY DEF page_alloc

LEMMA CreateFields ==
    ASSUME NEW m \in Mem, m.free # {}, NEW t \in Page, NEW i \in Vpn,
           m.pt[page_alloc(m)] = Blank
    PROVE  /\ page_alloc(m) \in m.free /\ page_alloc(m) \in Page
           /\ Create(m, t, i) \in Mem
           /\ Create(m, t, i).pt = Upd(m.pt, t, i, page_alloc(m))
           /\ Create(m, t, i).ref = [m.ref EXCEPT ![page_alloc(m)] = (m.ref[page_alloc(m)] + 1) % RefMod]
           /\ Create(m, t, i).free = m.free \ {page_alloc(m)}
           /\ Create(m, t, i).ok = m.ok
<1>1. PICK p : p = page_alloc(m)
    OBVIOUS
<1>2. p \in Page
    BY <1>1, PageAlloc DEF Mem
<1>3. PICK m1 : m1 = [m EXCEPT !.free = @ \ {p}, !.pt[p] = Blank]
    OBVIOUS
<1>4. Blank \in [Vpn -> Ptr]
    BY DEF Blank, Ptr
<1>5. m1 \in Mem /\ m1.ref = m.ref /\ m1.free = m.free \ {p} /\ m1.ok = m.ok
    BY <1>2, <1>3, <1>4 DEF Mem
<1>6. m1.pt = [m.pt EXCEPT ![p] = Blank]
    BY <1>2, <1>3, <1>4 DEF Mem
<1>7. m.pt \in [Page -> [Vpn -> Ptr]]
    BY DEF Mem
<1>8. m1.pt = m.pt
    BY <1>1, <1>6, <1>7
<1>9. Create(m, t, i) = SetPte(m1, t, i, p)
    BY <1>1, <1>3 DEF Create
<1>10. p \in m.free
    BY <1>1, PageAlloc
<1> DEFINE n == SetPte(m1, t, i, p)
<1>11. n \in Mem
    BY <1>2, <1>5, SetPteType
<1>12. /\ n.pt = Upd(m1.pt, t, i, p)
       /\ n.ref = [m1.ref EXCEPT ![p] = (m1.ref[p] + 1) % RefMod]
       /\ n.free = m1.free /\ n.ok = m1.ok
    BY <1>2, <1>5, SetPteFields
<1> HIDE DEF n
<1> QED BY <1>1, <1>2, <1>5, <1>8, <1>9, <1>10, <1>11, <1>12 DEF n

(* An entry is cleared: its page has one reference less. *)
Clear(m, t, i) == [Drop(m, m.pt[t][i]) EXCEPT !.pt[t][i] = NoPage]

LEMMA ClearFields ==
    ASSUME NEW m \in Mem, NEW t \in Page, NEW i \in Vpn, m.pt[t][i] \in Page
    PROVE  /\ Clear(m, t, i) \in Mem
           /\ Clear(m, t, i).pt = Upd(m.pt, t, i, NoPage)
           /\ Clear(m, t, i).ref = Drop(m, m.pt[t][i]).ref
           /\ Clear(m, t, i).free = Drop(m, m.pt[t][i]).free
           /\ Clear(m, t, i).ok = m.ok
<1>1. PICK d : d = Drop(m, m.pt[t][i])
    OBVIOUS
<1>2. d \in Mem /\ d.pt = m.pt /\ d.ok = m.ok
    BY <1>1, DropFields, DropType
<1>3. PICK c : c = [d EXCEPT !.pt[t][i] = NoPage]
    OBVIOUS
<1>4. c.pt = Upd(d.pt, t, i, NoPage) /\ c.ref = d.ref /\ c.free = d.free /\ c.ok = d.ok
    BY <1>2, <1>3 DEF Mem, Upd
<1>5. c \in Mem
    BY <1>2, <1>3 DEF Mem, Ptr
<1>6. Clear(m, t, i) = c
    BY <1>1, <1>3 DEF Clear
<1> QED BY <1>1, <1>2, <1>4, <1>5, <1>6

-----------------------------------------------------------------------------
(* The counts stay right. *)

LEMMA CountedTypes ==
    ASSUME NEW m, NEW R, Counted(m, R)
    PROVE  /\ m.pt \in [Page -> [Vpn -> Ptr]] /\ R \in [Env -> Ptr]
           /\ m.free \subseteq Page /\ m.ref \in [Page -> 0 .. RefMod - 1]
           /\ \A x \in Page : m.ref[x] \in Nat /\ m.ref[x] < RefMod
           /\ \A x \in Page : x \in m.free <=> m.ref[x] = 0
BY RefAssumption DEF Counted, Mem

LEMMA PutCounted ==
    ASSUME NEW m, NEW R, Counted(m, R), NEW t \in Page, NEW i \in Vpn, m.pt[t][i] = NoPage,
           NEW p \in Page, p \notin m.free, m.ref[p] + 1 < RefMod
    PROVE  Counted(SetPte(m, t, i, p), R)
<1>0. /\ m.pt \in [Page -> [Vpn -> Ptr]] /\ R \in [Env -> Ptr]
      /\ m.free \subseteq Page /\ m.ref \in [Page -> 0 .. RefMod - 1]
      /\ \A x \in Page : m.ref[x] \in Nat /\ m.ref[x] < RefMod
      /\ \A x \in Page : x \in m.free <=> m.ref[x] = 0
    BY CountedTypes
<1>1. m \in Mem /\ R \in [Env -> Ptr] /\ p \in Ptr
    BY DEF Counted, Ptr
<1> DEFINE n == SetPte(m, t, i, p)
<1>3. /\ n \in Mem /\ n.pt = Upd(m.pt, t, i, p)
      /\ n.ref = [m.ref EXCEPT ![p] = (m.ref[p] + 1) % RefMod] /\ n.free = m.free
    BY <1>1, SetPteFields, SetPteType
<1> HIDE DEF n
<1>4. ASSUME NEW x \in Page
      PROVE  Cnt(n.pt, R, x) = IF x = p THEN Cnt(m.pt, R, x) + 1 ELSE Cnt(m.pt, R, x)
  <2>1. m.pt[t][i] # p /\ m.pt[t][i] # x
      BY PageAssumption
  <2>2. Cnt(n.pt, R, x)
           = IF x = p THEN Cnt(m.pt, R, x) + 1
             ELSE IF x = m.pt[t][i] THEN Cnt(m.pt, R, x) - 1 ELSE Cnt(m.pt, R, x)
      BY <1>0, <1>1, <1>3, <2>1, OneSlot
  <2> QED BY <1>3, <2>1, <2>2
<1>5. (m.ref[p] + 1) % RefMod = m.ref[p] + 1
  <2>1. PICK r \in Nat : r = m.ref[p]
      BY <1>0
  <2>2. (r + 1) % RefMod = r + 1
      BY <2>1, RefAssumption
  <2> QED BY <2>1, <2>2
<1>6. \A x \in Page : n.ref[x] = IF x = p THEN m.ref[x] + 1 ELSE m.ref[x]
    BY <1>3, <1>5, <1>0
<1>7. \A x \in Page : n.ref[x] = Cnt(n.pt, R, x)
    BY <1>4, <1>6 DEF Counted
<1>8. ASSUME NEW x \in Page PROVE x \in n.free <=> Cnt(n.pt, R, x) = 0
  <2>1. m.ref[x] \in Nat /\ (x \in m.free <=> m.ref[x] = 0)
      BY <1>0
  <2>2. CASE x = p
      BY <1>3, <1>6, <1>7, <2>1, <2>2
  <2>3. CASE x # p
      BY <1>3, <1>6, <1>7, <2>1, <2>3
  <2> QED BY <2>2, <2>3
<1>9. n.free \subseteq Page
    BY <1>3, <1>0
<1> QED BY <1>1, <1>3, <1>7, <1>8, <1>9 DEF Counted, n

LEMMA CreateCounted ==
    ASSUME NEW m, NEW R, Counted(m, R), NEW t \in Page, NEW i \in Vpn, m.pt[t][i] = NoPage,
           m.free # {}, m.pt[page_alloc(m)] = Blank
    PROVE  Counted(Create(m, t, i), R)
<1>0. /\ m.pt \in [Page -> [Vpn -> Ptr]] /\ R \in [Env -> Ptr]
      /\ m.free \subseteq Page /\ m.ref \in [Page -> 0 .. RefMod - 1]
      /\ \A x \in Page : m.ref[x] \in Nat /\ m.ref[x] < RefMod
      /\ \A x \in Page : x \in m.free <=> m.ref[x] = 0
    BY CountedTypes
<1>1. PICK p : p = page_alloc(m)
    OBVIOUS
<1>2. p \in m.free /\ p \in Page /\ m.ref[p] = 0
    BY <1>1, PageAlloc, <1>0
<1>3. m \in Mem /\ R \in [Env -> Ptr] /\ p \in Ptr
    BY <1>2 DEF Counted, Ptr
<1> DEFINE n == Create(m, t, i)
<1>4. /\ n \in Mem /\ n.pt = Upd(m.pt, t, i, page_alloc(m))
      /\ n.ref = [m.ref EXCEPT ![page_alloc(m)] = (m.ref[page_alloc(m)] + 1) % RefMod]
      /\ n.free = m.free \ {page_alloc(m)}
    BY <1>3, CreateFields
<1> HIDE DEF n
<1>5. /\ n \in Mem /\ n.pt = Upd(m.pt, t, i, p)
      /\ n.ref = [m.ref EXCEPT ![p] = (m.ref[p] + 1) % RefMod] /\ n.free = m.free \ {p}
    BY <1>1, <1>4
<1>6. ASSUME NEW x \in Page
      PROVE  Cnt(n.pt, R, x) = IF x = p THEN Cnt(m.pt, R, x) + 1 ELSE Cnt(m.pt, R, x)
  <2>1. m.pt[t][i] # p /\ m.pt[t][i] # x
      BY <1>2, PageAssumption
  <2>2. Cnt(n.pt, R, x)
           = IF x = p THEN Cnt(m.pt, R, x) + 1
             ELSE IF x = m.pt[t][i] THEN Cnt(m.pt, R, x) - 1 ELSE Cnt(m.pt, R, x)
      BY <1>0, <1>3, <1>5, <2>1, OneSlot
  <2> QED BY <1>5, <2>1, <2>2
<1>7. (m.ref[p] + 1) % RefMod = 1
    BY <1>2, RefAssumption
<1>8. \A x \in Page : n.ref[x] = IF x = p THEN m.ref[x] + 1 ELSE m.ref[x]
    BY <1>2, <1>5, <1>7, <1>0
<1>9. \A x \in Page : n.ref[x] = Cnt(n.pt, R, x)
    BY <1>6, <1>8 DEF Counted
<1>10. ASSUME NEW x \in Page PROVE x \in n.free <=> Cnt(n.pt, R, x) = 0
  <2>1. m.ref[x] \in Nat /\ (x \in m.free <=> m.ref[x] = 0)
      BY <1>0
  <2>2. CASE x = p
      BY <1>5, <1>8, <1>9, <2>1, <2>2
  <2>3. CASE x # p
      BY <1>5, <1>8, <1>9, <2>1, <2>3
  <2> QED BY <2>2, <2>3
<1>11. n.free \subseteq Page
    BY <1>5, <1>0
<1> QED BY <1>3, <1>5, <1>9, <1>10, <1>11 DEF Counted, n

LEMMA ClearCounted ==
    ASSUME NEW m, NEW R, Counted(m, R), NEW t \in Page, NEW i \in Vpn, m.pt[t][i] \in Page
    PROVE  Counted(Clear(m, t, i), R)
<1>0. /\ m.pt \in [Page -> [Vpn -> Ptr]] /\ R \in [Env -> Ptr]
      /\ m.free \subseteq Page /\ m.ref \in [Page -> 0 .. RefMod - 1]
      /\ \A x \in Page : m.ref[x] \in Nat /\ m.ref[x] < RefMod
      /\ \A x \in Page : x \in m.free <=> m.ref[x] = 0
    BY CountedTypes
<1>1. PICK q \in Page : q = m.pt[t][i]
    OBVIOUS
<1>2. m \in Mem /\ R \in [Env -> Ptr]
    BY DEF Counted
<1> DEFINE n == Clear(m, t, i)
<1>3. /\ n \in Mem /\ n.pt = Upd(m.pt, t, i, NoPage)
      /\ n.ref = Drop(m, m.pt[t][i]).ref /\ n.free = Drop(m, m.pt[t][i]).free
    BY <1>2, ClearFields
<1> HIDE DEF n
<1>4. /\ n.ref = [m.ref EXCEPT ![q] = (m.ref[q] - 1) % RefMod]
      /\ n.free = IF (m.ref[q] - 1) % RefMod = 0 THEN m.free \cup {q} ELSE m.free
  <2>1. /\ Drop(m, q).ref = [m.ref EXCEPT ![q] = (m.ref[q] - 1) % RefMod]
        /\ Drop(m, q).free = IF (m.ref[q] - 1) % RefMod = 0 THEN m.free \cup {q} ELSE m.free
      BY <1>2, DropFields
  <2> QED BY <1>1, <1>3, <2>1
<1>5. NoPage \in Ptr /\ NoPage # q
    BY PageAssumption DEF Ptr
<1>6. ASSUME NEW x \in Page
      PROVE  Cnt(n.pt, R, x) = IF x = q THEN Cnt(m.pt, R, x) - 1 ELSE Cnt(m.pt, R, x)
  <2>1. m.pt[t][i] # NoPage /\ x # NoPage
      BY PageAssumption
  <2>2. Cnt(n.pt, R, x)
           = IF x = NoPage THEN Cnt(m.pt, R, x) + 1
             ELSE IF x = m.pt[t][i] THEN Cnt(m.pt, R, x) - 1 ELSE Cnt(m.pt, R, x)
      BY <1>0, <1>3, <1>5, <2>1, OneSlot
  <2> QED BY <1>1, <2>1, <2>2
<1>7. Cnt(m.pt, R, q) # 0
    BY <1>1, CntZero
<1>8. m.ref[q] \in Nat /\ m.ref[q] > 0 /\ m.ref[q] < RefMod
    BY <1>7, <1>0 DEF Counted
<1>9. (m.ref[q] - 1) % RefMod = m.ref[q] - 1
    BY <1>8, RefAssumption
<1>10. \A x \in Page : n.ref[x] = IF x = q THEN m.ref[x] - 1 ELSE m.ref[x]
    BY <1>4, <1>9, <1>0
<1>11. \A x \in Page : n.ref[x] = Cnt(n.pt, R, x)
    BY <1>6, <1>10 DEF Counted
<1>12. \A x \in Page : x \in n.free <=> n.ref[x] = 0
    BY <1>4, <1>8, <1>9, <1>10, <1>0
<1>13. n.free \subseteq Page
    BY <1>4, <1>0
<1> QED BY <1>2, <1>3, <1>11, <1>12, <1>13 DEF Counted, n
-----------------------------------------------------------------------------
(* The trees.  A labelling gives every page its level: n for a directory,  *)
(* less by one for every level of tables below it, 0 for a page that is no *)
(* table.  A table below a directory has one parent and one place in it;   *)
(* it is in win if it translates the window.                               *)
Label == [lev : [Page -> Nat], par : [Page -> Page], idx : [Page -> Vpn], win : SUBSET Page]

(* The directories are the tables of level n, one for an environment. *)
ShRoots(n, R, L) ==
    /\ \A e \in Env : R[e] \in Page => L.lev[R[e]] = n
    /\ \A e, f \in Env : R[e] \in Page /\ R[e] = R[f] => e = f
    /\ \A x \in Page : L.lev[x] <= n
    /\ \A x \in Page : L.lev[x] = n => \E e \in Env : R[e] = x

(* A table below is where its label says. *)
ShParent(n, pt, L) ==
    \A x \in Page : 0 < L.lev[x] /\ L.lev[x] < n =>
        L.lev[L.par[x]] = L.lev[x] + 1 /\ pt[L.par[x]][L.idx[x]] = x

ShWindow(n, L) ==
    \A x \in Page :
        /\ L.lev[x] = n - 1 => (x \in L.win <=> L.idx[x] = PPT)
        /\ 0 < L.lev[x] /\ L.lev[x] < n - 1 => (x \in L.win <=> L.par[x] \in L.win)

(* What a table above the last level points to is a table of the next      *)
(* level, and is nowhere else.                                             *)
ShChild(pt, L) ==
    \A t \in Page, i \in Vpn : L.lev[t] >= 2 /\ pt[t][i] \in Page =>
        /\ L.lev[pt[t][i]] = L.lev[t] - 1
        /\ L.par[pt[t][i]] = t /\ L.idx[pt[t][i]] = i

(* Outside the window the last level points to no table. *)
ShLeaf(pt, L) ==
    \A t \in Page, i \in Vpn :
        L.lev[t] = 1 /\ t \notin L.win /\ pt[t][i] \in Page => L.lev[pt[t][i]] = 0

(* A page that is no table has no entries. *)
ShData(pt, L) == \A t \in Page, i \in Vpn : L.lev[t] = 0 => pt[t][i] = NoPage

Shape(n, pt, R, L) ==
    /\ L \in Label
    /\ ShRoots(n, R, L) /\ ShParent(n, pt, L) /\ ShWindow(n, L)
    /\ ShChild(pt, L) /\ ShLeaf(pt, L) /\ ShData(pt, L)

(* The invariant of a memory: m can be labelled. *)
Good(n, m, R, L) == Counted(m, R) /\ Shape(n, m.pt, R, L)

LEMMA LabelTypes ==
    ASSUME NEW L \in Label
    PROVE  /\ L.lev \in [Page -> Nat] /\ L.par \in [Page -> Page]
           /\ L.idx \in [Page -> Vpn] /\ L.win \subseteq Page
BY DEF Label

(* The new table p at entry i of table t. *)
NewLabel(n, L, t, i, p) ==
    [lev |-> [L.lev EXCEPT ![p] = L.lev[t] - 1],
     par |-> [L.par EXCEPT ![p] = t],
     idx |-> [L.idx EXCEPT ![p] = i],
     win |-> IF (L.lev[t] = n /\ i = PPT) \/ (L.lev[t] < n /\ t \in L.win)
             THEN L.win \cup {p} ELSE L.win \ {p}]

LEMMA NewLabelFacts ==
    ASSUME NEW n \in Nat, NEW L \in Label, NEW t \in Page, NEW i \in Vpn, NEW p \in Page,
           L.lev[t] >= 2
    PROVE  /\ NewLabel(n, L, t, i, p) \in Label
           /\ \A x \in Page :
                 /\ NewLabel(n, L, t, i, p).lev[x] = IF x = p THEN L.lev[t] - 1 ELSE L.lev[x]
                 /\ NewLabel(n, L, t, i, p).par[x] = IF x = p THEN t ELSE L.par[x]
                 /\ NewLabel(n, L, t, i, p).idx[x] = IF x = p THEN i ELSE L.idx[x]
                 /\ x # p => (x \in NewLabel(n, L, t, i, p).win <=> x \in L.win)
           /\ p \in NewLabel(n, L, t, i, p).win
                <=> (L.lev[t] = n /\ i = PPT) \/ (L.lev[t] < n /\ t \in L.win)
<1> DEFINE K == NewLabel(n, L, t, i, p)
<1>1. /\ L.lev \in [Page -> Nat] /\ L.par \in [Page -> Page]
      /\ L.idx \in [Page -> Vpn] /\ L.win \subseteq Page
    BY LabelTypes
<1>2. L.lev[t] - 1 \in Nat
    BY <1>1
<1>3. /\ K.lev = [L.lev EXCEPT ![p] = L.lev[t] - 1] /\ K.par = [L.par EXCEPT ![p] = t]
      /\ K.idx = [L.idx EXCEPT ![p] = i]
      /\ K.win = IF (L.lev[t] = n /\ i = PPT) \/ (L.lev[t] < n /\ t \in L.win)
                 THEN L.win \cup {p} ELSE L.win \ {p}
    BY DEF NewLabel
<1>4. K.win \subseteq Page
    BY <1>1, <1>3
<1>5. K \in Label
    BY <1>1, <1>2, <1>4 DEF Label, NewLabel
<1> HIDE DEF K
<1>6. \A x \in Page :
                 /\ K.lev[x] = IF x = p THEN L.lev[t] - 1 ELSE L.lev[x]
                 /\ K.par[x] = IF x = p THEN t ELSE L.par[x]
                 /\ K.idx[x] = IF x = p THEN i ELSE L.idx[x]
    BY <1>1, <1>2, <1>3
<1>7. \A x \in Page : x # p => (x \in K.win <=> x \in L.win)
    BY <1>3
<1>8. p \in K.win <=> (L.lev[t] = n /\ i = PPT) \/ (L.lev[t] < n /\ t \in L.win)
    BY <1>3
<1> QED BY <1>5, <1>6, <1>7, <1>8 DEF K
(* A free page is no table. *)
LEMMA FreeBlank ==
    ASSUME NEW n \in Nat, n >= 2, NEW m, NEW R, NEW L, Good(n, m, R, L), NEW x \in m.free
    PROVE  /\ x \in Page /\ L.lev[x] = 0 /\ m.pt[x] = Blank
           /\ \A t \in Page, i \in Vpn : m.pt[t][i] # x
           /\ \A e \in Env : R[e] # x
<1>1. /\ m.pt \in [Page -> [Vpn -> Ptr]] /\ m.free \subseteq Page
    BY CountedTypes DEF Good
<1>2. x \in Page /\ Cnt(m.pt, R, x) = 0
    BY DEF Good, Counted
<1>3. (\A t \in Page, i \in Vpn : m.pt[t][i] # x) /\ (\A e \in Env : R[e] # x)
    BY <1>2, CntZero
<1>4. L \in Label
    BY DEF Good, Shape
<1>5. L.lev[x] \in Nat /\ L.par[x] \in Page /\ L.idx[x] \in Vpn
    BY <1>2, <1>4, LabelTypes
<1>6. ~(0 < L.lev[x] /\ L.lev[x] < n)
    BY <1>2, <1>3, <1>5 DEF Good, Shape, ShParent
<1>7. L.lev[x] # n /\ L.lev[x] <= n
    BY <1>2, <1>3 DEF Good, Shape, ShRoots
<1>8. L.lev[x] = 0
    BY <1>5, <1>6, <1>7
<1>9. \A i \in Vpn : m.pt[x][i] = NoPage
    BY <1>2, <1>8 DEF Good, Shape, ShData
<1>10. m.pt[x] = Blank
    BY <1>1, <1>2, <1>9 DEF Blank
<1> QED BY <1>2, <1>3, <1>8, <1>10

(* A table that is put into a free place of a table above the last level. *)
LEMMA ShapeTable ==
    ASSUME NEW n \in Nat, n >= 2, NEW pt \in [Page -> [Vpn -> Ptr]], NEW R, NEW L,
           Shape(n, pt, R, L),
           NEW t \in Page, L.lev[t] >= 2, NEW i \in Vpn, pt[t][i] = NoPage,
           NEW p \in Page, L.lev[p] = 0,
           \A u \in Page, j \in Vpn : pt[u][j] # p,
           \A e \in Env : R[e] # p
    PROVE  Shape(n, Upd(pt, t, i, p), R, NewLabel(n, L, t, i, p))
<1>0. L \in Label /\ p \in Ptr
    BY DEF Shape, Ptr
<1>1. PICK K : K = NewLabel(n, L, t, i, p)
    OBVIOUS
<1>2. /\ K \in Label
      /\ \A x \in Page :
            /\ K.lev[x] = IF x = p THEN L.lev[t] - 1 ELSE L.lev[x]
            /\ K.par[x] = IF x = p THEN t ELSE L.par[x]
            /\ K.idx[x] = IF x = p THEN i ELSE L.idx[x]
            /\ x # p => (x \in K.win <=> x \in L.win)
      /\ p \in K.win <=> (L.lev[t] = n /\ i = PPT) \/ (L.lev[t] < n /\ t \in L.win)
    BY <1>0, <1>1, NewLabelFacts
<1>3. PICK pu : pu = Upd(pt, t, i, p)
    OBVIOUS
<1>4. \A u \in Page, j \in Vpn : pu[u][j] = IF u = t /\ j = i THEN p ELSE pt[u][j]
    BY <1>0, <1>3 DEF Upd
<1>5. /\ \A x \in Page : L.lev[x] \in Nat /\ L.par[x] \in Page /\ L.idx[x] \in Vpn
      /\ \A x \in Page, j \in Vpn : pt[x][j] \in Ptr
    BY <1>0, LabelTypes
<1>6. t # p /\ L.lev[t] \in Nat /\ L.lev[t] <= n
    BY <1>5 DEF Shape, ShRoots
<1>7. ShRoots(n, R, K)
  <2>1. ASSUME NEW x \in Page PROVE K.lev[x] <= n
      BY <1>2, <1>5, <1>6 DEF Shape, ShRoots
  <2>2. ASSUME NEW x \in Page, K.lev[x] = n PROVE \E e \in Env : R[e] = x
    <3>1. x # p
        BY <1>2, <1>6, <2>2
    <3> QED BY <1>2, <2>2, <3>1 DEF Shape, ShRoots
  <2>3. ASSUME NEW e \in Env, R[e] \in Page PROVE K.lev[R[e]] = n
      BY <1>2, <2>3 DEF Shape, ShRoots
  <2> QED BY <2>1, <2>2, <2>3 DEF Shape, ShRoots
<1>8. ShParent(n, pu, K)
  <2> SUFFICES ASSUME NEW x \in Page, 0 < K.lev[x], K.lev[x] < n
               PROVE  K.lev[K.par[x]] = K.lev[x] + 1 /\ pu[K.par[x]][K.idx[x]] = x
      BY DEF ShParent
  <2>1. CASE x = p
    <3>1. K.par[x] = t /\ K.idx[x] = i /\ K.lev[x] = L.lev[t] - 1 /\ K.lev[t] = L.lev[t]
        BY <1>2, <1>6, <2>1
    <3> QED BY <1>4, <1>6, <2>1, <3>1
  <2>2. CASE x # p
    <3>1. K.par[x] = L.par[x] /\ K.idx[x] = L.idx[x] /\ K.lev[x] = L.lev[x]
        BY <1>2, <2>2
    <3>2. L.lev[L.par[x]] = L.lev[x] + 1 /\ pt[L.par[x]][L.idx[x]] = x
        BY <3>1 DEF Shape, ShParent
    <3>3. L.par[x] \in Page /\ L.idx[x] \in Vpn /\ L.lev[x] \in Nat
        BY <1>5
    <3>4. L.par[x] # p
        BY <3>2, <3>3
    <3>5. ~(L.par[x] = t /\ L.idx[x] = i)
        BY <3>2, PageAssumption
    <3> QED BY <1>2, <1>4, <3>1, <3>2, <3>3, <3>4, <3>5
  <2> QED BY <2>1, <2>2
<1>9. ShWindow(n, K)
  <2> SUFFICES ASSUME NEW x \in Page
               PROVE  /\ K.lev[x] = n - 1 => (x \in K.win <=> K.idx[x] = PPT)
                      /\ 0 < K.lev[x] /\ K.lev[x] < n - 1 => (x \in K.win <=> K.par[x] \in K.win)
      BY DEF ShWindow
  <2>1. CASE x = p
    <3>1. K.lev[x] = L.lev[t] - 1 /\ K.par[x] = t /\ K.idx[x] = i /\ (t \in K.win <=> t \in L.win)
        BY <1>2, <1>6, <2>1
    <3>2. K.lev[x] = n - 1 => L.lev[t] = n
        BY <1>6, <3>1
    <3>3. K.lev[x] < n - 1 => L.lev[t] < n
        BY <1>6, <3>1
    <3>4. ~(L.lev[t] = n /\ L.lev[t] < n)
        BY <1>6
    <3>5. p \in K.win <=> (L.lev[t] = n /\ i = PPT) \/ (L.lev[t] < n /\ t \in L.win)
        BY <1>2
    <3> QED BY <2>1, <3>1, <3>2, <3>3, <3>4, <3>5
  <2>2. CASE x # p
    <3>1. K.par[x] = L.par[x] /\ K.idx[x] = L.idx[x] /\ K.lev[x] = L.lev[x] /\ (x \in K.win <=> x \in L.win)
        BY <1>2, <2>2
    <3>2. /\ L.lev[x] = n - 1 => (x \in L.win <=> L.idx[x] = PPT)
          /\ 0 < L.lev[x] /\ L.lev[x] < n - 1 => (x \in L.win <=> L.par[x] \in L.win)
        BY DEF Shape, ShWindow
    <3>3. 0 < L.lev[x] /\ L.lev[x] < n - 1 => L.lev[L.par[x]] = L.lev[x] + 1
        BY <1>5 DEF Shape, ShParent
    <3>4. 0 < L.lev[x] /\ L.lev[x] < n - 1 => L.par[x] # p
        BY <1>5, <3>3
    <3>5. L.par[x] # p => (L.par[x] \in K.win <=> L.par[x] \in L.win)
        BY <1>2, <1>5
    <3> QED BY <3>1, <3>2, <3>4, <3>5
  <2> QED BY <2>1, <2>2
<1>10. ShChild(pu, K)
  <2> SUFFICES ASSUME NEW u \in Page, NEW j \in Vpn, K.lev[u] >= 2, pu[u][j] \in Page
               PROVE  /\ K.lev[pu[u][j]] = K.lev[u] - 1
                      /\ K.par[pu[u][j]] = u /\ K.idx[pu[u][j]] = j
      BY DEF ShChild
  <2>1. CASE u = t /\ j = i
      BY <1>2, <1>4, <1>6, <2>1
  <2>2. CASE ~(u = t /\ j = i)
    <3>1. pu[u][j] = pt[u][j] /\ pt[u][j] # p
        BY <1>4, <2>2
    <3>2. CASE u = p
      <4>1. pt[u][j] = NoPage
          BY <3>2 DEF Shape, ShData
      <4> QED BY <3>1, <4>1, PageAssumption
    <3>3. CASE u # p
      <4>1. K.lev[u] = L.lev[u]
          BY <1>2, <3>3
      <4>2. /\ L.lev[pt[u][j]] = L.lev[u] - 1
            /\ L.par[pt[u][j]] = u /\ L.idx[pt[u][j]] = j
          BY <3>1, <4>1 DEF Shape, ShChild
      <4> QED BY <1>2, <3>1, <4>1, <4>2
    <3> QED BY <3>2, <3>3
  <2> QED BY <2>1, <2>2
<1>11. ShLeaf(pu, K)
  <2> SUFFICES ASSUME NEW u \in Page, NEW j \in Vpn, K.lev[u] = 1, u \notin K.win, pu[u][j] \in Page
               PROVE  K.lev[pu[u][j]] = 0
      BY DEF ShLeaf
  <2>1. u # t
      BY <1>2, <1>6
  <2>2. pu[u][j] = pt[u][j] /\ pt[u][j] # p
      BY <1>4, <2>1
  <2>3. CASE u = p
    <3>1. pt[u][j] = NoPage
        BY <2>3 DEF Shape, ShData
    <3> QED BY <2>2, <3>1, PageAssumption
  <2>4. CASE u # p
    <3>1. K.lev[u] = L.lev[u] /\ u \notin L.win
        BY <1>2, <2>4
    <3>2. L.lev[pt[u][j]] = 0
        BY <2>2, <3>1 DEF Shape, ShLeaf
    <3> QED BY <1>2, <2>2, <3>2
  <2> QED BY <2>3, <2>4
<1>12. ShData(pu, K)
  <2> SUFFICES ASSUME NEW u \in Page, NEW j \in Vpn, K.lev[u] = 0
               PROVE  pu[u][j] = NoPage
      BY DEF ShData
  <2>1. u # p
      BY <1>2, <1>6
  <2>2. L.lev[u] = 0 /\ u # t
      BY <1>2, <2>1
  <2> QED BY <1>4, <2>2 DEF Shape, ShData
<1> QED BY <1>1, <1>2, <1>3, <1>7, <1>8, <1>9, <1>10, <1>11, <1>12 DEF Shape

(* An entry of the last level is written. *)
LEMMA ShapeLeaf ==
    ASSUME NEW n \in Nat, n >= 2, NEW pt \in [Page -> [Vpn -> Ptr]], NEW R, NEW L,
           Shape(n, pt, R, L),
           NEW t \in Page, L.lev[t] = 1, NEW i \in Vpn,
           NEW p \in Ptr, p \in Page /\ t \notin L.win => L.lev[p] = 0
    PROVE  Shape(n, Upd(pt, t, i, p), R, L)
<1>3. PICK pu : pu = Upd(pt, t, i, p)
    OBVIOUS
<1>4. \A u \in Page, j \in Vpn : pu[u][j] = IF u = t /\ j = i THEN p ELSE pt[u][j]
    BY <1>3 DEF Upd
<1>5. /\ \A x \in Page : L.lev[x] \in Nat /\ L.par[x] \in Page /\ L.idx[x] \in Vpn
    BY LabelTypes DEF Shape
<1>8. ShParent(n, pu, L)
  <2> SUFFICES ASSUME NEW x \in Page, 0 < L.lev[x], L.lev[x] < n
               PROVE  L.lev[L.par[x]] = L.lev[x] + 1 /\ pu[L.par[x]][L.idx[x]] = x
      BY DEF ShParent
  <2>1. L.lev[L.par[x]] = L.lev[x] + 1 /\ pt[L.par[x]][L.idx[x]] = x
      BY DEF Shape, ShParent
  <2>2. L.par[x] # t
      BY <1>5, <2>1
  <2> QED BY <1>4, <1>5, <2>1, <2>2
<1>10. ShChild(pu, L)
  <2> SUFFICES ASSUME NEW u \in Page, NEW j \in Vpn, L.lev[u] >= 2, pu[u][j] \in Page
               PROVE  /\ L.lev[pu[u][j]] = L.lev[u] - 1
                      /\ L.par[pu[u][j]] = u /\ L.idx[pu[u][j]] = j
      BY DEF ShChild
  <2>1. u # t
      BY <1>5
  <2>2. pu[u][j] = pt[u][j]
      BY <1>4, <2>1
  <2> QED BY <2>2 DEF Shape, ShChild
<1>11. ShLeaf(pu, L)
    BY <1>4 DEF Shape, ShLeaf
<1>12. ShData(pu, L)
    BY <1>4 DEF Shape, ShData
<1> QED BY <1>3, <1>8, <1>10, <1>11, <1>12 DEF Shape
-----------------------------------------------------------------------------
(* The single steps on a good memory. *)

LEMMA GoodTypes ==
    ASSUME NEW n \in Nat, NEW m, NEW R, NEW L, Good(n, m, R, L)
    PROVE  /\ m \in Mem /\ m.pt \in [Page -> [Vpn -> Ptr]] /\ R \in [Env -> Ptr]
           /\ m.free \subseteq Page /\ L \in Label
           /\ \A x \in Page : m.ref[x] \in Nat /\ m.ref[x] < RefMod
           /\ \A x \in Page : x \in m.free <=> m.ref[x] = 0
           /\ \A x \in Page : L.lev[x] \in Nat /\ L.par[x] \in Page /\ L.idx[x] \in Vpn
           /\ \A x \in Page : L.lev[x] <= n
<1>1. Counted(m, R) /\ L \in Label /\ ShRoots(n, R, L)
    BY DEF Good, Shape
<1>2. m \in Mem
    BY <1>1 DEF Counted
<1> QED BY <1>1, <1>2, CountedTypes, LabelTypes DEF ShRoots

(* Only the tables, the counts and the free list matter. *)
LEMMA SameGood ==
    ASSUME NEW n \in Nat, NEW m, NEW k \in Mem, NEW R, NEW L, Good(n, m, R, L),
           k.pt = m.pt, k.ref = m.ref, k.free = m.free
    PROVE  Good(n, k, R, L)
BY DEF Good, Counted

LEMMA MakeTable ==
    ASSUME NEW n \in Nat, n >= 2, NEW m, NEW R, NEW L, Good(n, m, R, L), m.free # {},
           NEW t \in Page, L.lev[t] >= 2, NEW i \in Vpn, m.pt[t][i] = NoPage
    PROVE  Good(n, Create(m, t, i), R, NewLabel(n, L, t, i, page_alloc(m)))
<1>1. PICK p : p = page_alloc(m)
    OBVIOUS
<1>2. p \in m.free
    BY <1>1, PageAlloc
<1>3. /\ p \in Page /\ L.lev[p] = 0 /\ m.pt[p] = Blank
      /\ \A u \in Page, j \in Vpn : m.pt[u][j] # p
      /\ \A e \in Env : R[e] # p
    BY <1>2, FreeBlank
<1>4. m \in Mem /\ m.pt \in [Page -> [Vpn -> Ptr]]
    BY GoodTypes
<1>5. Counted(Create(m, t, i), R)
    BY <1>1, <1>3, CreateCounted DEF Good
<1>6. Create(m, t, i).pt = Upd(m.pt, t, i, p)
    BY <1>1, <1>3, <1>4, CreateFields
<1>7. Shape(n, Upd(m.pt, t, i, p), R, NewLabel(n, L, t, i, p))
  <2>1. Shape(n, m.pt, R, L)
      BY DEF Good
  <2> QED BY <1>3, <1>4, <2>1, ShapeTable
<1> QED BY <1>1, <1>5, <1>6, <1>7 DEF Good

LEMMA MakeLeaf ==
    ASSUME NEW n \in Nat, n >= 2, NEW m, NEW R, NEW L, Good(n, m, R, L), m.free # {},
           NEW t \in Page, L.lev[t] = 1, NEW i \in Vpn, m.pt[t][i] = NoPage
    PROVE  Good(n, Create(m, t, i), R, L)
<1>1. PICK p : p = page_alloc(m)
    OBVIOUS
<1>2. p \in m.free
    BY <1>1, PageAlloc
<1>3. p \in Page /\ p \in Ptr /\ L.lev[p] = 0 /\ m.pt[p] = Blank
    BY <1>2, FreeBlank DEF Ptr
<1>4. m \in Mem /\ m.pt \in [Page -> [Vpn -> Ptr]]
    BY GoodTypes
<1>5. Counted(Create(m, t, i), R)
    BY <1>1, <1>3, CreateCounted DEF Good
<1>6. Create(m, t, i).pt = Upd(m.pt, t, i, p)
    BY <1>1, <1>3, <1>4, CreateFields
<1>7. Shape(n, Upd(m.pt, t, i, p), R, L)
  <2>1. Shape(n, m.pt, R, L)
      BY DEF Good
  <2> QED BY <1>3, <1>4, <2>1, ShapeLeaf
<1> QED BY <1>5, <1>6, <1>7 DEF Good

(* What a new page changes, whatever it is for. *)
LEMMA CreateStep ==
    ASSUME NEW n \in Nat, n >= 2, NEW m, NEW R, NEW L, Good(n, m, R, L), m.free # {},
           NEW t \in Page, NEW i \in Vpn
    PROVE  /\ page_alloc(m) \in m.free /\ page_alloc(m) \in Page /\ L.lev[page_alloc(m)] = 0
           /\ Create(m, t, i).pt = Upd(m.pt, t, i, page_alloc(m))
           /\ Create(m, t, i).free = m.free \ {page_alloc(m)}
           /\ Create(m, t, i).ok = m.ok
           /\ \A x \in Page : x # page_alloc(m) => Create(m, t, i).ref[x] = m.ref[x]
           /\ Create(m, t, i).ref[page_alloc(m)] = 1
<1>1. PICK p : p = page_alloc(m)
    OBVIOUS
<1>2. p \in m.free
    BY <1>1, PageAlloc
<1>3. p \in Page /\ L.lev[p] = 0 /\ m.pt[p] = Blank
    BY <1>2, FreeBlank
<1>4. m \in Mem /\ m.ref[p] = 0
    BY <1>2, <1>3, GoodTypes
<1> DEFINE c == Create(m, t, i)
<1>5. /\ c.pt = Upd(m.pt, t, i, page_alloc(m)) /\ c.free = m.free \ {page_alloc(m)} /\ c.ok = m.ok
      /\ c.ref = [m.ref EXCEPT ![page_alloc(m)] = (m.ref[page_alloc(m)] + 1) % RefMod]
    BY <1>1, <1>3, <1>4, CreateFields
<1> HIDE DEF c
<1>6. (0 + 1) % RefMod = 1
    BY RefAssumption
<1>7. m.ref \in [Page -> 0 .. RefMod - 1]
    BY <1>4 DEF Mem
<1>8. c.ref[p] = 1 /\ \A x \in Page : x # p => c.ref[x] = m.ref[x]
    BY <1>1, <1>3, <1>4, <1>5, <1>6, <1>7
<1> QED BY <1>1, <1>2, <1>3, <1>5, <1>8 DEF c

LEMMA PutLeaf ==
    ASSUME NEW n \in Nat, n >= 2, NEW m, NEW R, NEW L, Good(n, m, R, L),
           NEW t \in Page, L.lev[t] = 1, NEW i \in Vpn, m.pt[t][i] = NoPage,
           NEW p \in Page, p \notin m.free, m.ref[p] + 1 < RefMod,
           t \notin L.win => L.lev[p] = 0
    PROVE  Good(n, SetPte(m, t, i, p), R, L)
<1>1. p \in Ptr /\ m \in Mem /\ m.pt \in [Page -> [Vpn -> Ptr]]
    BY GoodTypes DEF Ptr
<1>2. Counted(SetPte(m, t, i, p), R)
    BY PutCounted DEF Good
<1>3. SetPte(m, t, i, p).pt = Upd(m.pt, t, i, p)
    BY <1>1, SetPtePt
<1>4. Shape(n, Upd(m.pt, t, i, p), R, L)
  <2>1. Shape(n, m.pt, R, L)
      BY DEF Good
  <2> QED BY <1>1, <2>1, ShapeLeaf
<1> QED BY <1>2, <1>3, <1>4 DEF Good

LEMMA ClearLeaf ==
    ASSUME NEW n \in Nat, n >= 2, NEW m, NEW R, NEW L, Good(n, m, R, L),
           NEW t \in Page, L.lev[t] = 1, NEW i \in Vpn, m.pt[t][i] \in Page
    PROVE  Good(n, Clear(m, t, i), R, L)
<1>1. NoPage \in Ptr /\ NoPage \notin Page /\ m \in Mem /\ m.pt \in [Page -> [Vpn -> Ptr]]
    BY GoodTypes, PageAssumption DEF Ptr
<1>2. Counted(Clear(m, t, i), R)
    BY ClearCounted DEF Good
<1>3. Clear(m, t, i).pt = Upd(m.pt, t, i, NoPage)
    BY <1>1, ClearFields
<1>4. Shape(n, Upd(m.pt, t, i, NoPage), R, L)
  <2>1. Shape(n, m.pt, R, L)
      BY DEF Good
  <2> QED BY <1>1, <2>1, ShapeLeaf
<1> QED BY <1>2, <1>3, <1>4 DEF Good
LEMMA UpdTwice ==
    ASSUME NEW pt \in [Page -> [Vpn -> Ptr]], NEW t \in Page, NEW i \in Vpn,
           NEW p \in Ptr, NEW q \in Ptr
    PROVE  Upd(Upd(pt, t, i, q), t, i, p) = Upd(pt, t, i, p)
BY DEF Upd

(* A page takes the place of another one: the reference of the first is    *)
(* given up before the entry is written.                                   *)
LEMMA ReplaceLeaf ==
    ASSUME NEW n \in Nat, n >= 2, NEW m, NEW R, NEW L, Good(n, m, R, L),
           NEW t \in Page, L.lev[t] = 1, NEW i \in Vpn, m.pt[t][i] \in Page,
           NEW p \in Page, p \notin m.free, p # m.pt[t][i], m.ref[p] + 1 < RefMod,
           t \notin L.win => L.lev[p] = 0
    PROVE  Good(n, SetPte(Drop(m, m.pt[t][i]), t, i, p), R, L)
<1>1. PICK q \in Page : q = m.pt[t][i]
    OBVIOUS
<1>2. m \in Mem /\ m.pt \in [Page -> [Vpn -> Ptr]] /\ m.ref \in [Page -> 0 .. RefMod - 1]
    BY GoodTypes DEF Mem
<1>3. PICK c : c = Clear(m, t, i)
    OBVIOUS
<1>4. PICK d : d = Drop(m, q)
    OBVIOUS
<1>5. /\ c \in Mem /\ c.pt = Upd(m.pt, t, i, NoPage) /\ c.ref = d.ref /\ c.free = d.free
    BY <1>1, <1>2, <1>3, <1>4, ClearFields
<1>6. /\ d.pt = m.pt
      /\ d.ref = [m.ref EXCEPT ![q] = (m.ref[q] - 1) % RefMod]
      /\ d.free = IF (m.ref[q] - 1) % RefMod = 0 THEN m.free \cup {q} ELSE m.free
    BY <1>2, <1>4, DropFields
<1>7. d \in Mem
    BY <1>2, <1>4, DropType
<1>8. Good(n, c, R, L)
    BY <1>1, <1>3, ClearLeaf
<1>9. p \notin c.free /\ c.ref[p] = m.ref[p]
    BY <1>1, <1>2, <1>5, <1>6
<1>10. c.pt[t][i] = NoPage
    BY <1>2, <1>5, PageAssumption DEF Upd, Ptr
<1>11. Good(n, SetPte(c, t, i, p), R, L)
    BY <1>8, <1>9, <1>10, PutLeaf
<1>12. SetPte(d, t, i, p).pt = Upd(d.pt, t, i, p) /\ SetPte(c, t, i, p).pt = Upd(c.pt, t, i, p)
    BY <1>5, <1>7, SetPtePt
<1>13. SetPte(d, t, i, p).pt = SetPte(c, t, i, p).pt
  <2>1. Upd(c.pt, t, i, p) = Upd(m.pt, t, i, p)
    <3>1. p \in Ptr /\ NoPage \in Ptr
        BY DEF Ptr
    <3>2. Upd(Upd(m.pt, t, i, NoPage), t, i, p) = Upd(m.pt, t, i, p)
        BY <1>2, <3>1, UpdTwice
    <3> QED BY <1>5, <3>2
  <2> QED BY <1>6, <1>12, <2>1
<1>14. /\ SetPte(d, t, i, p).ref = [d.ref EXCEPT ![p] = (d.ref[p] + 1) % RefMod]
       /\ SetPte(d, t, i, p).free = d.free
    BY <1>7, SetPteFields
<1>15. /\ SetPte(c, t, i, p).ref = [c.ref EXCEPT ![p] = (c.ref[p] + 1) % RefMod]
       /\ SetPte(c, t, i, p).free = c.free
    BY <1>5, SetPteFields
<1>16. SetPte(d, t, i, p) \in Mem
    BY <1>7, SetPteType
<1> QED BY <1>1, <1>4, <1>5, <1>11, <1>13, <1>14, <1>15, <1>16, SameGood

(* The same with a new page, when there is one after all. *)
LEMMA RenewLeaf ==
    ASSUME NEW n \in Nat, n >= 2, NEW m, NEW R, NEW L, Good(n, m, R, L),
           NEW t \in Page, L.lev[t] = 1, NEW i \in Vpn, m.pt[t][i] \in Page,
           Drop(m, m.pt[t][i]).free # {}
    PROVE  /\ Good(n, Create(Drop(m, m.pt[t][i]), t, i), R, L)
           /\ \E p \in Page : Create(Drop(m, m.pt[t][i]), t, i).pt = Upd(m.pt, t, i, p)
<1>1. PICK q \in Page : q = m.pt[t][i]
    OBVIOUS
<1>2. m \in Mem /\ m.pt \in [Page -> [Vpn -> Ptr]]
    BY GoodTypes
<1>3. PICK c : c = Clear(m, t, i)
    OBVIOUS
<1>4. PICK d : d = Drop(m, q)
    OBVIOUS
<1>5. /\ c \in Mem /\ c.pt = Upd(m.pt, t, i, NoPage) /\ c.ref = d.ref /\ c.free = d.free
    BY <1>1, <1>2, <1>3, <1>4, ClearFields
<1>6. d.pt = m.pt
    BY <1>2, <1>4, DropFields
<1>7. d \in Mem
    BY <1>2, <1>4, DropType
<1>8. Good(n, c, R, L)
    BY <1>1, <1>3, ClearLeaf
<1>9. PICK p : p = page_alloc(c)
    OBVIOUS
<1>10. p = page_alloc(d) /\ c.free # {} /\ d.free # {}
    BY <1>1, <1>4, <1>5, <1>9 DEF page_alloc
<1>11. p \in Page /\ p \in Ptr /\ L.lev[p] = 0 /\ c.pt[p] = Blank
  <2>1. p \in c.free
      BY <1>9, <1>10, PageAlloc
  <2> QED BY <1>8, <2>1, FreeBlank DEF Ptr
<1>12. d.pt[p] = Blank
  <2>1. p # t
      BY <1>11
  <2> QED BY <1>2, <1>5, <1>6, <1>11, <2>1 DEF Upd
<1>13. c.pt[t][i] = NoPage
    BY <1>2, <1>5 DEF Upd, Ptr
<1>14. Good(n, Create(c, t, i), R, L)
    BY <1>8, <1>10, <1>13, MakeLeaf
<1>15. /\ Create(c, t, i).pt = Upd(c.pt, t, i, p)
       /\ Create(c, t, i).ref = [c.ref EXCEPT ![p] = (c.ref[p] + 1) % RefMod]
       /\ Create(c, t, i).free = c.free \ {p}
  <2>1. c \in Mem /\ c.free # {} /\ page_alloc(c) = p /\ c.pt[page_alloc(c)] = Blank
      BY <1>5, <1>9, <1>10, <1>11
  <2> QED BY <2>1, CreateFields
<1>16. /\ Create(d, t, i).pt = Upd(d.pt, t, i, p)
       /\ Create(d, t, i).ref = [d.ref EXCEPT ![p] = (d.ref[p] + 1) % RefMod]
       /\ Create(d, t, i).free = d.free \ {p}
       /\ Create(d, t, i) \in Mem
    BY <1>7, <1>10, <1>12, CreateFields
<1>17. Upd(c.pt, t, i, p) = Upd(m.pt, t, i, p)
    BY <1>2, <1>5, <1>11, UpdTwice DEF Ptr
<1>18. /\ Create(d, t, i).pt = Create(c, t, i).pt /\ Create(d, t, i).ref = Create(c, t, i).ref
       /\ Create(d, t, i).free = Create(c, t, i).free
    BY <1>5, <1>6, <1>15, <1>16, <1>17
<1>19. Good(n, Create(d, t, i), R, L)
    BY <1>14, <1>16, <1>18, SameGood
<1>20. Create(d, t, i).pt = Upd(m.pt, t, i, p)
    BY <1>6, <1>16
<1> QED BY <1>1, <1>4, <1>11, <1>19, <1>20
-----------------------------------------------------------------------------
(* A directory for environment e. *)

RootLabel(n, L, p) == [lev |-> [L.lev EXCEPT ![p] = n], par |-> L.par, idx |-> L.idx, win |-> L.win]

LEMMA AllocFields ==
    ASSUME NEW m \in Mem, m.free # {}, m.pt[page_alloc(m)] = Blank
    PROVE  /\ alloc_pgdir(m) \in Mem
           /\ alloc_pgdir(m).pt = m.pt
           /\ alloc_pgdir(m).ref = [m.ref EXCEPT ![page_alloc(m)] = (m.ref[page_alloc(m)] + 1) % RefMod]
           /\ alloc_pgdir(m).free = m.free \ {page_alloc(m)}
           /\ alloc_pgdir(m).ok = m.ok
<1>1. PICK p : p = page_alloc(m)
    OBVIOUS
<1>2. p \in Page
    BY <1>1, PageAlloc DEF Mem
<1>3. PICK a : a = [m EXCEPT !.free = @ \ {p}, !.pt[p] = Blank, !.ref[p] = (@ + 1) % RefMod]
    OBVIOUS
<1>4. Blank \in [Vpn -> Ptr]
    BY DEF Blank, Ptr
<1>5. (m.ref[p] + 1) % RefMod \in 0 .. RefMod - 1
    BY <1>2, RefAssumption DEF Mem
<1>6. a.ref = [m.ref EXCEPT ![p] = (m.ref[p] + 1) % RefMod] /\ a.free = m.free \ {p} /\ a.ok = m.ok
    BY <1>2, <1>3 DEF Mem
<1>7. a \in Mem
    BY <1>2, <1>3, <1>4, <1>5 DEF Mem
<1>8. a.pt = [m.pt EXCEPT ![p] = Blank]
    BY <1>2, <1>3 DEF Mem
<1>9. m.pt \in [Page -> [Vpn -> Ptr]]
    BY DEF Mem
<1>10. a.pt = m.pt
    BY <1>1, <1>8, <1>9
<1>11. alloc_pgdir(m) = a
    BY <1>1, <1>3 DEF alloc_pgdir
<1> QED BY <1>1, <1>6, <1>7, <1>10, <1>11

LEMMA RootLabelFacts ==
    ASSUME NEW n \in Nat, NEW L \in Label, NEW p \in Page
    PROVE  /\ RootLabel(n, L, p) \in Label
           /\ RootLabel(n, L, p).par = L.par /\ RootLabel(n, L, p).idx = L.idx
           /\ RootLabel(n, L, p).win = L.win
           /\ \A x \in Page : RootLabel(n, L, p).lev[x] = IF x = p THEN n ELSE L.lev[x]
<1>1. L.lev \in [Page -> Nat]
    BY LabelTypes
<1> QED BY <1>1 DEF RootLabel, Label

LEMMA NewRoot ==
    ASSUME NEW n \in Nat, n >= 2, NEW m, NEW R, NEW L, Good(n, m, R, L), m.free # {},
           NEW e \in Env, R[e] = NoPage
    PROVE  Good(n, alloc_pgdir(m), Dir(R, e, page_alloc(m)), RootLabel(n, L, page_alloc(m)))
<1>1. PICK p : p = page_alloc(m)
    OBVIOUS
<1>2. p \in m.free
    BY <1>1, PageAlloc
<1>3. /\ p \in Page /\ L.lev[p] = 0 /\ m.pt[p] = Blank
      /\ \A u \in Page, j \in Vpn : m.pt[u][j] # p
      /\ \A f \in Env : R[f] # p
  <2>1. p \in Page /\ L.lev[p] = 0 /\ m.pt[p] = Blank
      BY <1>2, FreeBlank
  <2>2. \A u \in Page, j \in Vpn : m.pt[u][j] # p
      BY <1>2, FreeBlank
  <2>3. \A f \in Env : R[f] # p
      BY <1>2, FreeBlank
  <2> QED BY <2>1, <2>2, <2>3
<1>4. /\ m \in Mem /\ m.pt \in [Page -> [Vpn -> Ptr]] /\ m.ref[p] = 0 /\ R \in [Env -> Ptr] /\ L \in Label
      /\ \A x \in Page : m.ref[x] \in Nat /\ (x \in m.free <=> m.ref[x] = 0)
      /\ \A x \in Page : L.lev[x] \in Nat /\ L.par[x] \in Page /\ L.idx[x] \in Vpn
    BY <1>2, <1>3, GoodTypes
<1>5. PICK S : S = Dir(R, e, p)
    OBVIOUS
<1>6. S \in [Env -> Ptr] /\ \A f \in Env : S[f] = IF f = e THEN p ELSE R[f]
    BY <1>3, <1>4, <1>5 DEF Ptr, Dir
<1> DEFINE a == alloc_pgdir(m)
<1>7. /\ a \in Mem /\ a.pt = m.pt /\ a.free = m.free \ {page_alloc(m)}
      /\ a.ref = [m.ref EXCEPT ![page_alloc(m)] = (m.ref[page_alloc(m)] + 1) % RefMod]
    BY <1>1, <1>3, <1>4, AllocFields
<1> HIDE DEF a
<1>8. (0 + 1) % RefMod = 1
    BY RefAssumption
<1>9. \A x \in Page : a.ref[x] = IF x = p THEN m.ref[x] + 1 ELSE m.ref[x]
  <2>1. m.ref \in [Page -> 0 .. RefMod - 1]
      BY <1>4 DEF Mem
  <2> QED BY <1>1, <1>3, <1>4, <1>7, <1>8, <2>1
<1>10. ASSUME NEW x \in Page
       PROVE  Cnt(a.pt, S, x) = IF x = p THEN Cnt(m.pt, R, x) + 1 ELSE Cnt(m.pt, R, x)
  <2>1. Cnt(m.pt, S, x) = IF x = p THEN Cnt(m.pt, R, x) + 1 ELSE Cnt(m.pt, R, x)
      BY <1>3, <1>4, <1>5, OneOwner
  <2> QED BY <1>7, <2>1
<1>11. \A x \in Page : a.ref[x] = Cnt(a.pt, S, x)
    BY <1>9, <1>10 DEF Good, Counted
<1>12. ASSUME NEW x \in Page PROVE x \in a.free <=> Cnt(a.pt, S, x) = 0
  <2>1. m.ref[x] \in Nat /\ (x \in m.free <=> m.ref[x] = 0)
      BY <1>4
  <2>2. CASE x = p
      BY <1>1, <1>7, <1>9, <1>11, <2>1, <2>2
  <2>3. CASE x # p
      BY <1>1, <1>7, <1>9, <1>11, <2>1, <2>3
  <2> QED BY <2>2, <2>3
<1>13. a.free \subseteq Page
    BY <1>7 DEF Mem
<1>14. Counted(a, S)
    BY <1>6, <1>7, <1>11, <1>12, <1>13 DEF Counted
<1> DEFINE K == RootLabel(n, L, p)
<1>15. p \in Page /\ L \in Label
    BY <1>3, <1>4
<1>16. /\ K \in Label /\ K.par = L.par /\ K.idx = L.idx /\ K.win = L.win
       /\ \A x \in Page : K.lev[x] = IF x = p THEN n ELSE L.lev[x]
    BY <1>15, RootLabelFacts
<1> HIDE DEF K
<1>17. ShRoots(n, S, K)
  <2>1. ASSUME NEW x \in Page PROVE K.lev[x] <= n
      BY <1>16 DEF Good, Shape, ShRoots
  <2>2. ASSUME NEW x \in Page, K.lev[x] = n PROVE \E f \in Env : S[f] = x
    <3>1. CASE x = p
        BY <1>6, <3>1
    <3>2. CASE x # p
      <4>1. L.lev[x] = n
          BY <1>16, <2>2, <3>2
      <4>2. PICK f \in Env : R[f] = x
          BY <4>1 DEF Good, Shape, ShRoots
      <4>3. f # e
          BY <4>2, PageAssumption
      <4> QED BY <1>6, <4>2, <4>3
    <3> QED BY <3>1, <3>2
  <2>3. ASSUME NEW f \in Env, S[f] \in Page PROVE K.lev[S[f]] = n
      BY <1>3, <1>6, <1>16, <2>3 DEF Good, Shape, ShRoots
  <2>4. ASSUME NEW f \in Env, NEW g \in Env, S[f] \in Page, S[f] = S[g] PROVE f = g
      BY <1>3, <1>6, <2>4 DEF Good, Shape, ShRoots
  <2> QED BY <2>1, <2>2, <2>3, <2>4 DEF ShRoots
<1>18. ShParent(n, m.pt, K)
  <2> SUFFICES ASSUME NEW x \in Page, 0 < K.lev[x], K.lev[x] < n
               PROVE  K.lev[K.par[x]] = K.lev[x] + 1 /\ m.pt[K.par[x]][K.idx[x]] = x
      BY DEF ShParent
  <2>1. x # p
      BY <1>16
  <2>2. L.lev[L.par[x]] = L.lev[x] + 1 /\ m.pt[L.par[x]][L.idx[x]] = x
      BY <1>16, <2>1 DEF Good, Shape, ShParent
  <2>3. L.par[x] # p
      BY <1>3, <1>4, <2>2
  <2> QED BY <1>4, <1>16, <2>1, <2>2, <2>3
<1>19. ShWindow(n, K)
  <2> SUFFICES ASSUME NEW x \in Page
               PROVE  /\ K.lev[x] = n - 1 => (x \in K.win <=> K.idx[x] = PPT)
                      /\ 0 < K.lev[x] /\ K.lev[x] < n - 1 => (x \in K.win <=> K.par[x] \in K.win)
      BY DEF ShWindow
  <2>1. CASE x = p
      BY <1>16, <2>1
  <2>2. CASE x # p
      BY <1>16, <2>2 DEF Good, Shape, ShWindow
  <2> QED BY <2>1, <2>2
<1>20. ShChild(m.pt, K)
  <2> SUFFICES ASSUME NEW u \in Page, NEW j \in Vpn, K.lev[u] >= 2, m.pt[u][j] \in Page
               PROVE  /\ K.lev[m.pt[u][j]] = K.lev[u] - 1
                      /\ K.par[m.pt[u][j]] = u /\ K.idx[m.pt[u][j]] = j
      BY DEF ShChild
  <2>1. u # p
    <3>1. \A i \in Vpn : m.pt[p][i] = NoPage
        BY <1>3 DEF Blank
    <3> QED BY <3>1, PageAssumption
  <2>2. m.pt[u][j] # p
      BY <1>3
  <2> QED BY <1>16, <2>1, <2>2 DEF Good, Shape, ShChild
<1>21. ShLeaf(m.pt, K)
  <2> SUFFICES ASSUME NEW u \in Page, NEW j \in Vpn, K.lev[u] = 1, u \notin K.win, m.pt[u][j] \in Page
               PROVE  K.lev[m.pt[u][j]] = 0
      BY DEF ShLeaf
  <2>1. u # p
      BY <1>16
  <2>2. m.pt[u][j] # p
      BY <1>3
  <2> QED BY <1>16, <2>1, <2>2 DEF Good, Shape, ShLeaf
<1>22. ShData(m.pt, K)
  <2> SUFFICES ASSUME NEW u \in Page, NEW j \in Vpn, K.lev[u] = 0
               PROVE  m.pt[u][j] = NoPage
      BY DEF ShData
  <2>1. u # p
      BY <1>16
  <2> QED BY <1>16, <2>1 DEF Good, Shape, ShData
<1>23. Shape(n, m.pt, S, K)
    BY <1>16, <1>17, <1>18, <1>19, <1>20, <1>21, <1>22 DEF Shape
<1>24. Good(n, a, S, K)
    BY <1>7, <1>14, <1>23 DEF Good
<1> QED BY <1>1, <1>5, <1>24 DEF a, K
-----------------------------------------------------------------------------
(* A directory is destroyed: T are its tables. *)

Within(pt, T, p) == {x \in T \X Vpn : pt[x[1]][x[2]] = p}
Gone(m, root, T, p) == Cardinality(Within(m.pt, T, p)) + (IF p = root THEN 1 ELSE 0)

Destroy(m, root, T) ==
    [m EXCEPT !.ref = [p \in Page |-> (m.ref[p] - Gone(m, root, T, p)) % RefMod],
              !.free = @ \cup {p \in Page : m.ref[p] > 0 /\ m.ref[p] <= Gone(m, root, T, p)},
              !.pt = [t \in Page |-> IF t \in T THEN Blank ELSE m.pt[t]]]

(* T is the directory root with all the tables below it. *)
IsTree(n, L, root, T) ==
    /\ root \in T /\ T \subseteq Page
    /\ \A x \in T : 0 < L.lev[x] /\ (L.lev[x] = n => x = root)
    /\ \A x \in Page : 0 < L.lev[x] /\ L.lev[x] < n => (x \in T <=> L.par[x] \in T)

BareLabel(L, T) ==
    [lev |-> [x \in Page |-> IF x \in T THEN 0 ELSE L.lev[x]],
     par |-> L.par, idx |-> L.idx, win |-> L.win]

LEMMA BareLabelFacts ==
    ASSUME NEW L \in Label, NEW T
    PROVE  /\ BareLabel(L, T) \in Label
           /\ BareLabel(L, T).par = L.par /\ BareLabel(L, T).idx = L.idx
           /\ BareLabel(L, T).win = L.win
           /\ \A x \in Page : BareLabel(L, T).lev[x] = IF x \in T THEN 0 ELSE L.lev[x]
<1>1. L.lev \in [Page -> Nat]
    BY LabelTypes
<1> QED BY <1>1 DEF BareLabel, Label

LEMMA DestroyFields ==
    ASSUME NEW m \in Mem, NEW root, NEW T,
           \A p \in Page : Gone(m, root, T, p) \in Nat
    PROVE  /\ Destroy(m, root, T) \in Mem
           /\ \A p \in Page : Destroy(m, root, T).ref[p] = (m.ref[p] - Gone(m, root, T, p)) % RefMod
           /\ Destroy(m, root, T).free =
                 m.free \cup {p \in Page : m.ref[p] > 0 /\ m.ref[p] <= Gone(m, root, T, p)}
           /\ Destroy(m, root, T).pt = [t \in Page |-> IF t \in T THEN Blank ELSE m.pt[t]]
<1> DEFINE F == [p \in Page |-> (m.ref[p] - Gone(m, root, T, p)) % RefMod]
           A == {p \in Page : m.ref[p] > 0 /\ m.ref[p] <= Gone(m, root, T, p)}
           P == [t \in Page |-> IF t \in T THEN Blank ELSE m.pt[t]]
<1>1. \A p \in Page : (m.ref[p] - Gone(m, root, T, p)) % RefMod \in 0 .. RefMod - 1
  <2> TAKE p \in Page
  <2>1. PICK g \in Nat : g = Gone(m, root, T, p)
      OBVIOUS
  <2>2. PICK r \in Nat : r = m.ref[p]
      BY DEF Mem
  <2>3. (r - g) % RefMod \in 0 .. RefMod - 1
      BY RefAssumption
  <2> QED BY <2>1, <2>2, <2>3
<1>2. F \in [Page -> 0 .. RefMod - 1]
    BY <1>1
<1>3. A \subseteq Page
    OBVIOUS
<1>4. P \in [Page -> [Vpn -> Ptr]]
    BY DEF Mem, Blank, Ptr
<1>5. \A p \in Page : F[p] = (m.ref[p] - Gone(m, root, T, p)) % RefMod
    OBVIOUS
<1>6. Destroy(m, root, T) = [m EXCEPT !.ref = F, !.free = @ \cup A, !.pt = P]
    BY DEF Destroy
<1> HIDE DEF F, A, P
<1>7. PICK d : d = [m EXCEPT !.ref = F, !.free = @ \cup A, !.pt = P]
    OBVIOUS
<1>8. d.ref = F /\ d.free = m.free \cup A /\ d.pt = P
    BY <1>7 DEF Mem
<1>9. d \in Mem
    BY <1>2, <1>3, <1>4, <1>7 DEF Mem
<1> QED BY <1>5, <1>6, <1>7, <1>8, <1>9 DEF A, P

LEMMA DestroyCounted ==
    ASSUME NEW m, NEW R, Counted(m, R), NEW e \in Env, NEW root \in Page, R[e] = root,
           \A f \in Env : R[f] = root => f = e,
           NEW T, T \subseteq Page
    PROVE  /\ Counted(Destroy(m, root, T), Dir(R, e, NoPage))
           /\ Destroy(m, root, T).pt = [t \in Page |-> IF t \in T THEN Blank ELSE m.pt[t]]
<1>1. /\ m \in Mem /\ m.pt \in [Page -> [Vpn -> Ptr]] /\ R \in [Env -> Ptr]
      /\ m.free \subseteq Page
      /\ \A x \in Page : m.ref[x] \in Nat /\ m.ref[x] < RefMod
      /\ \A x \in Page : x \in m.free <=> m.ref[x] = 0
    BY CountedTypes DEF Counted
<1>2. PICK S : S = Dir(R, e, NoPage)
    OBVIOUS
<1>3. S \in [Env -> Ptr] /\ \A f \in Env : S[f] = IF f = e THEN NoPage ELSE R[f]
    BY <1>1, <1>2 DEF Ptr, Dir
<1>4. PICK pu : pu = [t \in Page |-> IF t \in T THEN Blank ELSE m.pt[t]]
    OBVIOUS
<1>5. \A t \in Page, i \in Vpn : pu[t][i] = IF t \in T THEN NoPage ELSE m.pt[t][i]
    BY <1>4 DEF Blank
<1>6. ASSUME NEW x \in Page
      PROVE  /\ Gone(m, root, T, x) \in Nat /\ Gone(m, root, T, x) <= Cnt(m.pt, R, x)
             /\ Cnt(pu, S, x) = Cnt(m.pt, R, x) - Gone(m, root, T, x)
  <2>1. Within(m.pt, T, x) \subseteq Into(m.pt, x)
      BY DEF Within, Into
  <2>2. Into(pu, x) = Into(m.pt, x) \ Within(m.pt, T, x)
      BY <1>5, PageAssumption DEF Within, Into
  <2>3. Into(m.pt, x) \cap Within(m.pt, T, x) = Within(m.pt, T, x)
      BY <2>1
  <2>4. Cardinality(Into(pu, x)) = Cardinality(Into(m.pt, x)) - Cardinality(Within(m.pt, T, x))
      BY <2>2, <2>3, IntoFinite, FS_Difference
  <2>5. IsFiniteSet(Within(m.pt, T, x)) /\ Cardinality(Within(m.pt, T, x)) <= Cardinality(Into(m.pt, x))
      BY <2>1, IntoFinite, FS_Subset
  <2>6. Cardinality(Within(m.pt, T, x)) \in Nat
      BY <2>5, FS_CardinalityType
  <2>7. CASE x = root
    <3>1. Own(S, x) = Own(R, x) \ {e} /\ e \in Own(R, x)
        BY <1>3, <2>7, PageAssumption DEF Own
    <3>2. Cardinality(Own(S, x)) = Cardinality(Own(R, x)) - 1
        BY <3>1, OwnFinite, FS_RemoveElement
    <3>3. Cardinality(Own(S, x)) \in Nat /\ Cardinality(Own(R, x)) \in Nat
          /\ Cardinality(Into(m.pt, x)) \in Nat
        BY OwnFinite, IntoFinite
    <3> QED BY <2>4, <2>5, <2>6, <2>7, <3>2, <3>3 DEF Cnt, Gone
  <2>8. CASE x # root
    <3>1. Own(S, x) = Own(R, x)
        BY <1>3, <2>8, PageAssumption DEF Own
    <3>2. Cardinality(Own(R, x)) \in Nat /\ Cardinality(Into(m.pt, x)) \in Nat
        BY OwnFinite, IntoFinite
    <3> QED BY <2>4, <2>5, <2>6, <2>8, <3>1, <3>2 DEF Cnt, Gone
  <2> QED BY <2>7, <2>8
<1> DEFINE d == Destroy(m, root, T)
<1>7. \A p \in Page : Gone(m, root, T, p) \in Nat
    BY <1>6
<1>8. /\ d \in Mem
      /\ \A p \in Page : d.ref[p] = (m.ref[p] - Gone(m, root, T, p)) % RefMod
      /\ d.free = m.free \cup {p \in Page : m.ref[p] > 0 /\ m.ref[p] <= Gone(m, root, T, p)}
      /\ d.pt = [t \in Page |-> IF t \in T THEN Blank ELSE m.pt[t]]
    BY <1>1, <1>7, DestroyFields
<1> HIDE DEF d
<1>9. ASSUME NEW x \in Page
      PROVE  d.ref[x] = Cnt(d.pt, S, x) /\ (x \in d.free <=> Cnt(d.pt, S, x) = 0)
  <2>1. PICK g \in Nat : g = Gone(m, root, T, x)
      BY <1>7
  <2>2. PICK r \in Nat : r = m.ref[x] /\ r = Cnt(m.pt, R, x) /\ r < RefMod
      BY <1>1 DEF Counted
  <2>3. g <= r /\ Cnt(d.pt, S, x) = r - g
      BY <1>4, <1>6, <1>8, <2>1, <2>2
  <2>4. (r - g) % RefMod = r - g
      BY <2>2, <2>3, RefAssumption
  <2>5. d.ref[x] = (r - g) % RefMod
      BY <1>8, <2>1, <2>2
  <2>6. x \in m.free <=> r = 0
      BY <1>1, <2>2
  <2>7. x \in d.free <=> (x \in m.free \/ (r > 0 /\ r <= g))
      BY <1>8, <2>1, <2>2
  <2>8. x \in d.free <=> r - g = 0
      BY <2>3, <2>6, <2>7
  <2> QED BY <2>3, <2>4, <2>5, <2>8
<1>10. d.free \subseteq Page
    BY <1>8 DEF Mem
<1>11. Counted(d, S)
    BY <1>3, <1>8, <1>9, <1>10 DEF Counted
<1> QED BY <1>2, <1>8, <1>11 DEF d

LEMMA DestroyGood ==
    ASSUME NEW n \in Nat, n >= 2, NEW m, NEW R, NEW L, Good(n, m, R, L),
           NEW e \in Env, NEW root \in Page, R[e] = root,
           NEW T, IsTree(n, L, root, T)
    PROVE  /\ Good(n, Destroy(m, root, T), Dir(R, e, NoPage), BareLabel(L, T))
           /\ Destroy(m, root, T).pt = [t \in Page |-> IF t \in T THEN Blank ELSE m.pt[t]]
<1>1. /\ m.pt \in [Page -> [Vpn -> Ptr]] /\ R \in [Env -> Ptr] /\ L \in Label
      /\ \A x \in Page : L.lev[x] \in Nat /\ L.par[x] \in Page /\ L.idx[x] \in Vpn
      /\ \A x \in Page : L.lev[x] <= n
    BY GoodTypes
<1>2. Counted(m, R) /\ T \subseteq Page /\ \A f \in Env : R[f] = root => f = e
    BY DEF Good, Shape, ShRoots, IsTree
<1>3. PICK S : S = Dir(R, e, NoPage)
    OBVIOUS
<1>4. \A f \in Env : S[f] = IF f = e THEN NoPage ELSE R[f]
    BY <1>1, <1>3 DEF Dir
<1> DEFINE d == Destroy(m, root, T)
<1>5. Counted(d, S) /\ d.pt = [t \in Page |-> IF t \in T THEN Blank ELSE m.pt[t]]
    BY <1>2, <1>3, DestroyCounted
<1> HIDE DEF d
<1>6. \A t \in Page, i \in Vpn : d.pt[t][i] = IF t \in T THEN NoPage ELSE m.pt[t][i]
    BY <1>5 DEF Blank
<1> DEFINE K == BareLabel(L, T)
<1>7. /\ K \in Label /\ K.par = L.par /\ K.idx = L.idx /\ K.win = L.win
      /\ \A x \in Page : K.lev[x] = IF x \in T THEN 0 ELSE L.lev[x]
    BY <1>1, BareLabelFacts
<1> HIDE DEF K
<1>8. \A x \in Page : 0 < K.lev[x] => x \notin T /\ K.lev[x] = L.lev[x]
    BY <1>7
<1>9. ShRoots(n, S, K)
  <2>1. ASSUME NEW x \in Page PROVE K.lev[x] <= n
      BY <1>1, <1>7
  <2>2. ASSUME NEW x \in Page, K.lev[x] = n PROVE \E f \in Env : S[f] = x
    <3>1. x \notin T /\ L.lev[x] = n
        BY <1>8, <2>2
    <3>2. PICK f \in Env : R[f] = x
        BY <3>1 DEF Good, Shape, ShRoots
    <3>3. f # e
        BY <3>1, <3>2 DEF IsTree
    <3> QED BY <1>4, <3>2, <3>3
  <2>3. ASSUME NEW f \in Env, S[f] \in Page PROVE K.lev[S[f]] = n
    <3>1. f # e /\ S[f] = R[f]
        BY <1>4, <2>3, PageAssumption
    <3>2. L.lev[R[f]] = n
        BY <2>3, <3>1 DEF Good, Shape, ShRoots
    <3>3. R[f] \notin T
        BY <1>2, <3>1, <3>2 DEF IsTree
    <3> QED BY <1>7, <2>3, <3>1, <3>2, <3>3
  <2>4. ASSUME NEW f \in Env, NEW g \in Env, S[f] \in Page, S[f] = S[g] PROVE f = g
      BY <1>4, <2>4, PageAssumption DEF Good, Shape, ShRoots
  <2> QED BY <2>1, <2>2, <2>3, <2>4 DEF ShRoots
<1>10. ShParent(n, d.pt, K)
  <2> SUFFICES ASSUME NEW x \in Page, 0 < K.lev[x], K.lev[x] < n
               PROVE  K.lev[K.par[x]] = K.lev[x] + 1 /\ d.pt[K.par[x]][K.idx[x]] = x
      BY DEF ShParent
  <2>1. x \notin T /\ K.lev[x] = L.lev[x]
      BY <1>8
  <2>2. L.lev[L.par[x]] = L.lev[x] + 1 /\ m.pt[L.par[x]][L.idx[x]] = x
      BY <2>1 DEF Good, Shape, ShParent
  <2>3. L.par[x] \notin T
      BY <2>1 DEF IsTree
  <2> QED BY <1>1, <1>6, <1>7, <2>1, <2>2, <2>3
<1>11. ShWindow(n, K)
  <2> SUFFICES ASSUME NEW x \in Page
               PROVE  /\ K.lev[x] = n - 1 => (x \in K.win <=> K.idx[x] = PPT)
                      /\ 0 < K.lev[x] /\ K.lev[x] < n - 1 => (x \in K.win <=> K.par[x] \in K.win)
      BY DEF ShWindow
  <2>1. CASE x \in T
      BY <1>7, <2>1
  <2>2. CASE x \notin T
      BY <1>7, <2>2 DEF Good, Shape, ShWindow
  <2> QED BY <2>1, <2>2
<1>12. ShChild(d.pt, K)
  <2> SUFFICES ASSUME NEW u \in Page, NEW j \in Vpn, K.lev[u] >= 2, d.pt[u][j] \in Page
               PROVE  /\ K.lev[d.pt[u][j]] = K.lev[u] - 1
                      /\ K.par[d.pt[u][j]] = u /\ K.idx[d.pt[u][j]] = j
      BY DEF ShChild
  <2>1. u \notin T /\ K.lev[u] = L.lev[u] /\ d.pt[u][j] = m.pt[u][j]
      BY <1>6, <1>7
  <2>2. PICK x \in Page : x = m.pt[u][j]
      BY <2>1
  <2>3. L.lev[x] = L.lev[u] - 1 /\ L.par[x] = u /\ L.idx[x] = j
      BY <2>1, <2>2 DEF Good, Shape, ShChild
  <2>4. 0 < L.lev[x] /\ L.lev[x] < n
      BY <1>1, <2>1, <2>3
  <2>5. x \notin T
      BY <2>1, <2>3, <2>4 DEF IsTree
  <2> QED BY <1>7, <2>1, <2>2, <2>3, <2>5
<1>13. ShLeaf(d.pt, K)
  <2> SUFFICES ASSUME NEW u \in Page, NEW j \in Vpn, K.lev[u] = 1, u \notin K.win, d.pt[u][j] \in Page
               PROVE  K.lev[d.pt[u][j]] = 0
      BY DEF ShLeaf
  <2>1. u \notin T /\ K.lev[u] = L.lev[u] /\ d.pt[u][j] = m.pt[u][j]
      BY <1>6, <1>7
  <2>2. L.lev[m.pt[u][j]] = 0
      BY <1>7, <2>1 DEF Good, Shape, ShLeaf
  <2> QED BY <1>7, <2>1, <2>2
<1>14. ShData(d.pt, K)
    BY <1>6, <1>7 DEF Good, Shape, ShData
<1>15. Good(n, d, S, K)
    BY <1>5, <1>7, <1>9, <1>10, <1>11, <1>12, <1>13, <1>14 DEF Good, Shape
<1> QED BY <1>3, <1>5, <1>15 DEF d, K
-----------------------------------------------------------------------------
(* Tables keep their labels. *)
Same(L, K) ==
    \A x \in Page : L.lev[x] > 0 =>
        /\ K.lev[x] = L.lev[x] /\ K.par[x] = L.par[x] /\ K.idx[x] = L.idx[x]
        /\ x \in K.win <=> x \in L.win

(* Pages are taken from the free list and the others keep their counts. *)
Grown(m, L, k, K) ==
    /\ k.free \subseteq m.free
    /\ \A x \in Page : x \notin m.free => k.ref[x] = m.ref[x] /\ K.lev[x] = L.lev[x]

(* Memory k is m with a new table at entry i of table t. *)
Made(n, m, R, L, k, K, t, i) ==
    /\ Good(n, k, R, K) /\ Same(L, K) /\ Grown(m, L, k, K)
    /\ k.pt[t][i] \in Page
    /\ K.lev[k.pt[t][i]] = L.lev[t] - 1
    /\ \A u \in Page, j \in Vpn : k.pt[u][j] # m.pt[u][j] => u = t /\ j = i
    /\ \A j \in Vpn : k.pt[k.pt[t][i]][j] = NoPage
    /\ k.pt[t][i] \notin k.free /\ k.ref[k.pt[t][i]] = 1 /\ k.ok = m.ok

LEMMA SameRefl == ASSUME NEW L PROVE Same(L, L)
BY DEF Same

LEMMA SameTrans ==
    ASSUME NEW L, NEW K, NEW J, Same(L, K), Same(K, J)
    PROVE  Same(L, J)
BY DEF Same

LEMMA MadeTable ==
    ASSUME NEW n \in Nat, n >= 2, NEW m, NEW R, NEW L, Good(n, m, R, L), m.free # {},
           NEW t \in Page, L.lev[t] >= 2, NEW i \in Vpn, m.pt[t][i] = NoPage
    PROVE  \E K : Made(n, m, R, L, Create(m, t, i), K, t, i)
<1>1. PICK p : p = page_alloc(m)
    OBVIOUS
<1>2. PICK K : K = NewLabel(n, L, t, i, p)
    OBVIOUS
<1>3. PICK k : k = Create(m, t, i)
    OBVIOUS
<1>4. Good(n, k, R, K)
    BY <1>1, <1>2, <1>3, MakeTable
<1>5. /\ p \in m.free /\ p \in Page /\ L.lev[p] = 0
      /\ k.pt = Upd(m.pt, t, i, p) /\ k.free = m.free \ {p} /\ k.ok = m.ok
      /\ (\A x \in Page : x # p => k.ref[x] = m.ref[x]) /\ k.ref[p] = 1
    BY <1>1, <1>3, CreateStep
<1>6. /\ m.pt \in [Page -> [Vpn -> Ptr]] /\ L \in Label
      /\ \A x \in Page : L.lev[x] \in Nat
    BY GoodTypes
<1>7. /\ \A x \in Page :
            /\ K.lev[x] = IF x = p THEN L.lev[t] - 1 ELSE L.lev[x]
            /\ K.par[x] = IF x = p THEN t ELSE L.par[x]
            /\ K.idx[x] = IF x = p THEN i ELSE L.idx[x]
            /\ x # p => (x \in K.win <=> x \in L.win)
    BY <1>2, <1>5, <1>6, NewLabelFacts
<1>8. p \in Ptr
    BY <1>5 DEF Ptr
<1>9. \A u \in Page, j \in Vpn : k.pt[u][j] = IF u = t /\ j = i THEN p ELSE m.pt[u][j]
    BY <1>5, <1>6, <1>8 DEF Upd
<1>10. Same(L, K)
    BY <1>5, <1>7 DEF Same
<1>11. Grown(m, L, k, K)
    BY <1>5, <1>7 DEF Grown
<1>12. \A j \in Vpn : k.pt[p][j] = NoPage
  <2>1. \A j \in Vpn : m.pt[p][j] = NoPage
      BY <1>5 DEF Good, Shape, ShData
  <2>2. p # t
      BY <1>5
  <2> QED BY <1>5, <1>9, <2>1, <2>2
<1>13. k.pt[t][i] = p
    BY <1>9
<1>14. Made(n, m, R, L, k, K, t, i)
    BY <1>4, <1>5, <1>7, <1>9, <1>10, <1>11, <1>12, <1>13 DEF Made
<1> QED BY <1>3, <1>14

(* A page that is not free is a directory or has its entry in a table. *)
LEMMA Reached ==
    ASSUME NEW n \in Nat, n >= 2, NEW m, NEW R, NEW L, Good(n, m, R, L),
           NEW p \in Page, p \notin m.free
    PROVE  \/ \E e \in Env : R[e] = p
           \/ \E t \in Page, i \in Vpn : L.lev[t] > 0 /\ m.pt[t][i] = p
<1>1. Cnt(m.pt, R, p) # 0
    BY DEF Good, Counted
<1>2. (\E e \in Env : R[e] = p) \/ \E t \in Page, i \in Vpn : m.pt[t][i] = p
    BY <1>1, CntZero
<1>3. ASSUME NEW t \in Page, NEW i \in Vpn, m.pt[t][i] = p PROVE L.lev[t] > 0
  <2>1. L.lev[t] # 0
      BY <1>3, PageAssumption DEF Good, Shape, ShData
  <2> QED BY <2>1, GoodTypes
<1> QED BY <1>2, <1>3

(* A table is not free. *)
LEMMA TableInUse ==
    ASSUME NEW n \in Nat, n >= 2, NEW m, NEW R, NEW L, Good(n, m, R, L),
           NEW p \in Page, L.lev[p] > 0
    PROVE  p \notin m.free
BY FreeBlank
=============================================================================
