---------------------------- MODULE Pmap_proofs ----------------------------
(***************************************************************************)
(* What Pmap promises, for any number of pages, environments and entries.  *)
(***************************************************************************)
EXTENDS Pmap, PhysMem_proofs

Va == Vpn \X Vpn \X Vpn

(* Entry i of table x is one that the walk of address w may look at. *)
OnPath(L, root, w, x, i) ==
    \/ x = root /\ i = w[1]
    \/ L.lev[x] = 2 /\ L.par[x] = root /\ L.idx[x] = w[1] /\ i = w[2]
    \/ /\ L.lev[x] = 1 /\ L.idx[x] = w[2] /\ i = w[3]
       /\ L.par[L.par[x]] = root /\ L.idx[L.par[x]] = w[1]

(* From memory m to memory k tables stay tables, tables above the last     *)
(* level lose no entry, and only the walks of the addresses in W change.   *)
Ext(L, m, K, k, root, W) ==
    /\ Same(L, K)
    /\ \A x \in Page, i \in Vpn :
          L.lev[x] >= 2 /\ m.pt[x][i] \in Page => k.pt[x][i] = m.pt[x][i]
    /\ \A x \in Page, i \in Vpn :
          k.pt[x][i] # m.pt[x][i] => \E w \in W : OnPath(K, root, w, x, i)

-----------------------------------------------------------------------------
(* The walk from a directory. *)
LEMMA Walk ==
    ASSUME NEW m, NEW R, NEW L, Good(3, m, R, L), NEW root \in Page, L.lev[root] = 3,
           NEW va \in Va
    PROVE  /\ L1(m, root, va) = m.pt[root][va[1]] /\ L1(m, root, va) \in Ptr
           /\ L1(m, root, va) \in Page =>
                 /\ L.lev[L1(m, root, va)] = 2 /\ L.par[L1(m, root, va)] = root
                 /\ L.idx[L1(m, root, va)] = va[1]
                 /\ L1(m, root, va) \in L.win <=> va[1] = PPT
                 /\ L0(m, root, va) = m.pt[L1(m, root, va)][va[2]]
           /\ L0(m, root, va) \in Ptr
           /\ L0(m, root, va) \in Page =>
                 /\ L1(m, root, va) \in Page
                 /\ L.lev[L0(m, root, va)] = 1 /\ L.par[L0(m, root, va)] = L1(m, root, va)
                 /\ L.idx[L0(m, root, va)] = va[2]
                 /\ L0(m, root, va) \in L.win <=> va[1] = PPT
                 /\ get_pa(m, root, va) = m.pt[L0(m, root, va)][va[3]]
           /\ get_pa(m, root, va) \in Ptr
           /\ get_pa(m, root, va) \in Page => L0(m, root, va) \in Page
<1>1. /\ m.pt \in [Page -> [Vpn -> Ptr]] /\ L \in Label
      /\ \A x \in Page : L.lev[x] \in Nat
    BY GoodTypes
<1>2. va[1] \in Vpn /\ va[2] \in Vpn /\ va[3] \in Vpn /\ NoPage \in Ptr
      /\ root # NoPage /\ NoPage \notin Page
    BY PageAssumption DEF Va, Ptr
<1>3. \A x \in Ptr : x # NoPage => x \in Page
    BY DEF Ptr
<1>4. \A x \in Page, i \in Vpn : m.pt[x][i] \in Ptr
    BY <1>1
<1>5. \A t \in Page, i \in Vpn : L.lev[t] >= 2 /\ m.pt[t][i] \in Page =>
        L.lev[m.pt[t][i]] = L.lev[t] - 1 /\ L.par[m.pt[t][i]] = t /\ L.idx[m.pt[t][i]] = i
    BY DEF Good, Shape, ShChild
<1>6. \A x \in Page : /\ L.lev[x] = 2 => (x \in L.win <=> L.idx[x] = PPT)
                      /\ L.lev[x] = 1 => (x \in L.win <=> L.par[x] \in L.win)
    BY DEF Good, Shape, ShWindow
<1>7. PICK a : a = L1(m, root, va)
    OBVIOUS
<1>8. a = m.pt[root][va[1]] /\ a \in Ptr
    BY <1>2, <1>4, <1>7 DEF L1, Entry
<1>9. a \in Page => L.lev[a] = 2 /\ L.par[a] = root /\ L.idx[a] = va[1] /\ (a \in L.win <=> va[1] = PPT)
    BY <1>2, <1>5, <1>6, <1>8
<1>10. PICK b : b = L0(m, root, va)
    OBVIOUS
<1>11. b = IF a = NoPage THEN NoPage ELSE m.pt[a][va[2]]
    BY <1>7, <1>10 DEF L0, Entry
<1>12. b \in Ptr /\ (b \in Page => a \in Page) /\ (a \in Page => b = m.pt[a][va[2]])
    BY <1>2, <1>3, <1>4, <1>8, <1>11
<1>13. b \in Page => L.lev[b] = 1 /\ L.par[b] = a /\ L.idx[b] = va[2] /\ (b \in L.win <=> va[1] = PPT)
    BY <1>2, <1>5, <1>6, <1>9, <1>12
<1>14. PICK c : c = get_pa(m, root, va)
    OBVIOUS
<1>15. c = IF b = NoPage THEN NoPage ELSE m.pt[b][va[3]]
    BY <1>10, <1>14 DEF get_pa, Entry
<1>16. c \in Ptr /\ (c \in Page => b \in Page) /\ (b \in Page => c = m.pt[b][va[3]])
    BY <1>2, <1>3, <1>4, <1>12, <1>15
<1> QED BY <1>7, <1>8, <1>9, <1>10, <1>12, <1>13, <1>14, <1>16

LEMMA PathSame ==
    ASSUME NEW m, NEW R, NEW L, Good(3, m, R, L), NEW K, Same(L, K),
           NEW x \in Page, L.lev[x] > 0, NEW root, NEW w, NEW i
    PROVE  OnPath(L, root, w, x, i) <=> OnPath(K, root, w, x, i)
<1>1. K.lev[x] = L.lev[x] /\ K.par[x] = L.par[x] /\ K.idx[x] = L.idx[x]
    BY DEF Same
<1>2. L.lev[x] = 1 => K.par[L.par[x]] = L.par[L.par[x]] /\ K.idx[L.par[x]] = L.idx[L.par[x]]
  <2> SUFFICES ASSUME L.lev[x] = 1
               PROVE  K.par[L.par[x]] = L.par[L.par[x]] /\ K.idx[L.par[x]] = L.idx[L.par[x]]
      OBVIOUS
  <2>1. L.lev[L.par[x]] = 2 /\ L.par[x] \in Page
      BY GoodTypes DEF Good, Shape, ShParent
  <2> QED BY <2>1 DEF Same
<1> QED BY <1>1, <1>2 DEF OnPath

LEMMA ExtRefl ==
    ASSUME NEW L, NEW m, NEW k, k.pt = m.pt, NEW root, NEW W
    PROVE  Ext(L, m, L, k, root, W)
BY SameRefl DEF Ext

LEMMA ExtTrans ==
    ASSUME NEW m, NEW R, NEW L, Good(3, m, R, L), NEW root \in Page, L.lev[root] = 3,
           NEW k, NEW K, Good(3, k, R, K), NEW j, NEW J,
           NEW V, NEW W, NEW U, V \subseteq U, W \subseteq U,
           Ext(L, m, K, k, root, V), Ext(K, k, J, j, root, W)
    PROVE  Ext(L, m, J, j, root, U)
<1>1. Same(L, J)
    BY SameTrans DEF Ext
<1>2. ASSUME NEW x \in Page, NEW i \in Vpn, L.lev[x] >= 2, m.pt[x][i] \in Page
      PROVE  j.pt[x][i] = m.pt[x][i]
  <2>1. L.lev[x] > 0
    <3>1. L.lev[x] \in Nat
        BY GoodTypes
    <3> QED BY <1>2, <3>1
  <2>2. k.pt[x][i] = m.pt[x][i] /\ K.lev[x] = L.lev[x]
      BY <1>2, <2>1 DEF Ext, Same
  <2> QED BY <1>2, <2>2 DEF Ext
<1>3. ASSUME NEW x \in Page, NEW i \in Vpn, j.pt[x][i] # m.pt[x][i]
      PROVE  \E w \in U : OnPath(J, root, w, x, i)
  <2>1. CASE k.pt[x][i] # m.pt[x][i]
    <3>1. PICK w \in V : OnPath(K, root, w, x, i)
        BY <2>1 DEF Ext
    <3>2. K.lev[root] = 3
        BY DEF Ext, Same
    <3>3. K.lev[x] > 0
        BY <3>1, <3>2 DEF OnPath
    <3>4. Same(K, J)
        BY DEF Ext
    <3>5. OnPath(J, root, w, x, i)
        BY <3>1, <3>3, <3>4, PathSame
    <3> QED BY <3>5
  <2>2. CASE k.pt[x][i] = m.pt[x][i]
      BY <1>3, <2>2 DEF Ext
  <2> QED BY <2>1, <2>2
<1> QED BY <1>1, <1>2, <1>3 DEF Ext

(* A table that is made at an entry on the walk of w. *)
LEMMA MadeExt ==
    ASSUME NEW m, NEW R, NEW L, Good(3, m, R, L), NEW root, NEW w, NEW k, NEW K,
           NEW t \in Page, L.lev[t] > 0, NEW i \in Vpn, m.pt[t][i] = NoPage,
           OnPath(L, root, w, t, i), Made(3, m, R, L, k, K, t, i)
    PROVE  Ext(L, m, K, k, root, {w})
<1>1. \A u \in Page, j \in Vpn : k.pt[u][j] # m.pt[u][j] => u = t /\ j = i
    BY DEF Made
<1>2. Same(L, K)
    BY DEF Made
<1>3. OnPath(K, root, w, t, i)
    BY <1>2, PathSame
<1> QED BY <1>1, <1>2, <1>3, PageAssumption DEF Ext

(* An entry of the last level that is written. *)
LEMMA LeafExt ==
    ASSUME NEW m, NEW R, NEW L, Good(3, m, R, L), NEW root, NEW w, NEW k,
           NEW t \in Page, L.lev[t] = 1, NEW i \in Vpn, OnPath(L, root, w, t, i),
           NEW p \in Ptr, k.pt = Upd(m.pt, t, i, p)
    PROVE  Ext(L, m, L, k, root, {w})
<1>1. m.pt \in [Page -> [Vpn -> Ptr]]
    BY GoodTypes
<1>2. \A u \in Page, j \in Vpn : k.pt[u][j] # m.pt[u][j] => u = t /\ j = i
    BY <1>1 DEF Upd
<1>3. \A u \in Page, j \in Vpn : L.lev[u] >= 2 => k.pt[u][j] = m.pt[u][j]
    BY <1>2
<1>4. Same(L, L)
    BY SameRefl
<1> QED BY <1>2, <1>3, <1>4 DEF Ext

-----------------------------------------------------------------------------
(* What the functions of kern/pmap.c leave behind. *)

TablesDone(m, R, L, k, K, root, va) ==
    /\ Good(3, k, R, K) /\ Ext(L, m, K, k, root, {va}) /\ Grown(m, L, k, K)
    /\ k.ok => /\ L0(k, root, va) \in Page
               /\ get_pa(k, root, va) = get_pa(m, root, va)
    /\ ~k.ok => k.free = {}
    /\ k.ok \in BOOLEAN

LEMMA FailedGood ==
    ASSUME NEW n \in Nat, NEW m, NEW R, NEW L, Good(n, m, R, L), NEW b \in BOOLEAN
    PROVE  /\ Good(n, [m EXCEPT !.ok = b], R, L)
           /\ [m EXCEPT !.ok = b].pt = m.pt /\ [m EXCEPT !.ok = b].ref = m.ref
           /\ [m EXCEPT !.ok = b].free = m.free /\ [m EXCEPT !.ok = b].ok = b
<1>1. m \in Mem
    BY GoodTypes
<1>2. PICK k : k = [m EXCEPT !.ok = b]
    OBVIOUS
<1>3. k \in Mem /\ k.pt = m.pt /\ k.ref = m.ref /\ k.free = m.free /\ k.ok = b
    BY <1>1, <1>2 DEF Mem
<1>4. Good(n, k, R, L)
    BY <1>3, SameGood
<1> QED BY <1>2, <1>3, <1>4

LEMMA GrownRefl == ASSUME NEW m, NEW L, NEW k, k.free = m.free, k.ref = m.ref
                   PROVE  Grown(m, L, k, L)
BY DEF Grown

LEMMA GrownTrans ==
    ASSUME NEW m, NEW L, NEW k, NEW K, NEW j, NEW J, Grown(m, L, k, K), Grown(k, K, j, J)
    PROVE  Grown(m, L, j, J)
BY DEF Grown

(* One level of a walk: the entry is there, or a table is made for it. *)
LevelDone(m, R, L, k, K, root, va, t, i) ==
    /\ Good(3, k, R, K) /\ Ext(L, m, K, k, root, {va}) /\ Grown(m, L, k, K)
    /\ k.ok \in BOOLEAN
    /\ k.ok => k.pt[t][i] \in Page
    /\ k.ok /\ m.pt[t][i] = NoPage => \A j \in Vpn : k.pt[k.pt[t][i]][j] = NoPage
    /\ k.ok /\ m.pt[t][i] = NoPage => k.ref[k.pt[t][i]] = 1 /\ k.pt[t][i] \notin k.free
    /\ m.pt[t][i] # NoPage => k = m /\ K = L
    /\ ~k.ok => k.free = {}

LEMMA Level ==
    ASSUME NEW m, NEW R, NEW L, Good(3, m, R, L), m.ok = TRUE, NEW root, NEW va,
           NEW t \in Page, L.lev[t] >= 2, NEW i \in Vpn, OnPath(L, root, va, t, i),
           NEW k, k = IF m.pt[t][i] # NoPage THEN m ELSE Create(m, t, i)
    PROVE  \E K : LevelDone(m, R, L, k, K, root, va, t, i)
<1>1. m.pt[t][i] \in Ptr
    BY GoodTypes
<1>2. CASE m.pt[t][i] # NoPage
  <2>1. m.pt[t][i] \in Page
      BY <1>1, <1>2 DEF Ptr
  <2>2. LevelDone(m, R, L, m, L, root, va, t, i)
      BY <1>2, <2>1, ExtRefl, GrownRefl DEF LevelDone
  <2> QED BY <1>2, <2>2
<1>3. CASE m.pt[t][i] = NoPage /\ m.free = {}
  <2>1. PICK c : c = [m EXCEPT !.ok = FALSE]
      OBVIOUS
  <2>2. Good(3, c, R, L) /\ c.pt = m.pt /\ c.free = m.free /\ c.ref = m.ref /\ c.ok = FALSE
      BY <2>1, FailedGood
  <2>3. LevelDone(m, R, L, c, L, root, va, t, i)
      BY <1>3, <2>2, ExtRefl, GrownRefl DEF LevelDone
  <2>4. k = c
      BY <1>3, <2>1 DEF Create
  <2> QED BY <2>3, <2>4
<1>4. CASE m.pt[t][i] = NoPage /\ m.free # {}
  <2>1. k = Create(m, t, i)
      BY <1>4
  <2>2. PICK K : Made(3, m, R, L, k, K, t, i)
      BY <1>4, <2>1, MadeTable
  <2>3. Ext(L, m, K, k, root, {va})
    <3>1. L.lev[t] \in Nat
        BY GoodTypes
    <3>2. L.lev[t] > 0
        BY <3>1
    <3> QED BY <1>4, <2>2, <3>2, MadeExt
  <2>4. LevelDone(m, R, L, k, K, root, va, t, i)
      BY <1>4, <2>2, <2>3 DEF LevelDone, Made
  <2> QED BY <1>4, <2>1, <2>4
<1> QED BY <1>2, <1>3, <1>4
LEMMA TablesLemma ==
    ASSUME NEW m, NEW R, NEW L, Good(3, m, R, L), m.ok = TRUE,
           NEW root \in Page, L.lev[root] = 3, NEW va \in Va
    PROVE  \E K : TablesDone(m, R, L, Tables(m, root, va), K, root, va)
<1>1. va[1] \in Vpn /\ va[2] \in Vpn /\ va[3] \in Vpn /\ NoPage \notin Page
    BY PageAssumption DEF Va
<1>2. L1(m, root, va) = m.pt[root][va[1]] /\ L1(m, root, va) \in Ptr
    BY Walk
<1>3. PICK m1 : m1 = IF m.pt[root][va[1]] # NoPage THEN m ELSE Create(m, root, va[1])
    OBVIOUS
<1>4. OnPath(L, root, va, root, va[1])
    BY DEF OnPath
<1>5. PICK K1 : LevelDone(m, R, L, m1, K1, root, va, root, va[1])
  <2>1. L.lev[root] >= 2
      OBVIOUS
  <2> QED BY <1>1, <1>3, <1>4, <2>1, Level
<1>6. Tables(m, root, va) =
         Then(m1, IF L0(m1, root, va) # NoPage THEN m1 ELSE Create(m1, L1(m1, root, va), va[2]))
    BY <1>2, <1>3 DEF Tables
<1>7. /\ Good(3, m1, R, K1) /\ Ext(L, m, K1, m1, root, {va}) /\ Grown(m, L, m1, K1)
      /\ m1.ok \in BOOLEAN
    BY <1>5 DEF LevelDone
<1>8. CASE m1.ok = FALSE
  <2>1. Tables(m, root, va) = m1
      BY <1>6, <1>8 DEF Then
  <2>2. TablesDone(m, R, L, m1, K1, root, va)
      BY <1>5, <1>7, <1>8 DEF TablesDone, LevelDone
  <2> QED BY <2>1, <2>2
<1>9. CASE m1.ok = TRUE
  <2>1. K1.lev[root] = 3
      BY <1>7 DEF Ext, Same
  <2>2. PICK t \in Page : t = m1.pt[root][va[1]]
      BY <1>5, <1>9 DEF LevelDone
  <2>3. /\ L1(m1, root, va) = t /\ K1.lev[t] = 2 /\ K1.par[t] = root /\ K1.idx[t] = va[1]
        /\ L0(m1, root, va) = m1.pt[t][va[2]]
      BY <1>7, <2>1, <2>2, Walk
  <2>4. OnPath(K1, root, va, t, va[2])
      BY <2>3 DEF OnPath
  <2>5. PICK m2 : m2 = IF m1.pt[t][va[2]] # NoPage THEN m1 ELSE Create(m1, t, va[2])
      OBVIOUS
  <2>6. PICK K2 : LevelDone(m1, R, K1, m2, K2, root, va, t, va[2])
    <3>1. K1.lev[t] >= 2
        BY <2>3
    <3> QED BY <1>1, <1>7, <1>9, <2>4, <2>5, <3>1, Level
  <2>7. Tables(m, root, va) = m2
      BY <1>6, <1>9, <2>3, <2>5 DEF Then
  <2>8. /\ Good(3, m2, R, K2) /\ Ext(K1, m1, K2, m2, root, {va}) /\ Grown(m1, K1, m2, K2)
        /\ m2.ok \in BOOLEAN /\ (~m2.ok => m2.free = {})
      BY <2>6 DEF LevelDone
  <2>9. Ext(L, m, K2, m2, root, {va})
      BY <1>7, <2>8, ExtTrans
  <2>10. Grown(m, L, m2, K2)
      BY <1>7, <2>8, GrownTrans
  <2>11. ASSUME m2.ok
         PROVE  L0(m2, root, va) \in Page /\ get_pa(m2, root, va) = get_pa(m, root, va)
    <3>1. K2.lev[root] = 3
        BY <2>9 DEF Ext, Same
    <3>2. m2.pt[root][va[1]] = t
        BY <1>1, <2>1, <2>2, <2>8 DEF Ext
    <3>3. L1(m2, root, va) = t
        BY <2>8, <3>1, <3>2, Walk
    <3>4. m2.pt[t][va[2]] \in Page
        BY <2>6, <2>11 DEF LevelDone
    <3>5. PICK z \in Page : z = m2.pt[t][va[2]]
        BY <3>4
    <3>6. L0(m2, root, va) = z /\ get_pa(m2, root, va) = m2.pt[z][va[3]]
        BY <2>8, <3>1, <3>3, <3>5, Walk
    <3>7. CASE m1.pt[t][va[2]] = NoPage
      <4>1. m2.pt[z][va[3]] = NoPage
          BY <1>1, <2>6, <2>11, <3>5, <3>7 DEF LevelDone
      <4>2. CASE m.pt[root][va[1]] = NoPage
          BY <1>2, <3>6, <4>1, <4>2 DEF get_pa, L0, Entry
      <4>3. CASE m.pt[root][va[1]] # NoPage
        <5>1. m1 = m
            BY <1>5, <4>3 DEF LevelDone
        <5>2. L0(m, root, va) = NoPage
            BY <2>3, <3>7, <5>1
        <5> QED BY <3>6, <4>1, <5>2 DEF get_pa, Entry
      <4> QED BY <4>2, <4>3
    <3>8. CASE m1.pt[t][va[2]] # NoPage
      <4>1. m2 = m1
          BY <2>6, <3>8 DEF LevelDone
      <4>2. m.pt[root][va[1]] # NoPage
          BY <1>1, <1>5, <1>9, <2>2, <3>8 DEF LevelDone
      <4>3. m1 = m
          BY <1>5, <4>2 DEF LevelDone
      <4> QED BY <3>6, <4>1, <4>3
    <3> QED BY <3>6, <3>7, <3>8
  <2>12. TablesDone(m, R, L, m2, K2, root, va)
      BY <2>8, <2>9, <2>10, <2>11 DEF TablesDone
  <2> QED BY <2>7, <2>12
<1> QED BY <1>7, <1>8, <1>9

-----------------------------------------------------------------------------
(* A page is mapped into the window. *)
WindowDone(m, R, L, k, K, root, va, p) ==
    /\ Good(3, k, R, K) /\ Ext(L, m, K, k, root, {va})
    /\ k.ok \in BOOLEAN
    /\ k.ok => get_pa(k, root, va) = p
    /\ ~k.ok => k.free = {}

LeafDone(L, m, k, root, va, p) ==
    /\ Ext(L, m, L, k, root, {va})
    /\ L0(k, root, va) = L0(m, root, va) /\ get_pa(k, root, va) = p

(* Writing an entry of the last level sets what the walk finds. *)
LEMMA LeafSet ==
    ASSUME NEW m, NEW R, NEW L, Good(3, m, R, L), NEW k, Good(3, k, R, L),
           NEW root \in Page, L.lev[root] = 3, NEW va \in Va,
           NEW t \in Page, t = L0(m, root, va), NEW p \in Ptr, k.pt = Upd(m.pt, t, va[3], p)
    PROVE  LeafDone(L, m, k, root, va, p)
<1>1. va[1] \in Vpn /\ va[2] \in Vpn /\ va[3] \in Vpn /\ NoPage \notin Page
    BY PageAssumption DEF Va
<1>2. m.pt \in [Page -> [Vpn -> Ptr]]
    BY GoodTypes
<1>3. PICK s \in Page : s = L1(m, root, va)
    BY Walk
<1>4. /\ s = m.pt[root][va[1]] /\ t = m.pt[s][va[2]]
      /\ L.lev[s] = 2 /\ L.par[s] = root /\ L.idx[s] = va[1]
      /\ L.lev[t] = 1 /\ L.par[t] = s /\ L.idx[t] = va[2]
    BY <1>3, Walk
<1>5. OnPath(L, root, va, t, va[3])
    BY <1>4 DEF OnPath
<1>6. Ext(L, m, L, k, root, {va})
    BY <1>1, <1>4, <1>5, LeafExt
<1>7. k.pt[root][va[1]] = s /\ k.pt[s][va[2]] = t
  <2>1. \A x \in Page, i \in Vpn :
           L.lev[x] >= 2 /\ m.pt[x][i] \in Page => k.pt[x][i] = m.pt[x][i]
      BY <1>6 DEF Ext
  <2>2. L.lev[root] >= 2 /\ L.lev[s] >= 2
      BY <1>4
  <2> QED BY <1>1, <1>3, <1>4, <2>1, <2>2
<1>8. k.pt[t][va[3]] = p
    BY <1>1, <1>2 DEF Upd
<1>9. L1(k, root, va) = s
    BY <1>7, Walk
<1>10. L0(k, root, va) = t
    BY <1>7, <1>9, Walk
<1>11. get_pa(k, root, va) = p
    BY <1>8, <1>10, Walk
<1> QED BY <1>6, <1>10, <1>11 DEF LeafDone

LEMMA MapWindow ==
    ASSUME NEW m, NEW R, NEW L, Good(3, m, R, L), m.ok = TRUE,
           NEW root \in Page, L.lev[root] = 3, NEW va \in Va, va[1] = PPT,
           NEW p \in Page, p \notin m.free, m.ref[p] + 1 < RefMod
    PROVE  \E K : WindowDone(m, R, L, map_page(m, root, va, p), K, root, va, p)
<1>1. va[1] \in Vpn /\ va[2] \in Vpn /\ va[3] \in Vpn /\ NoPage \notin Page /\ p \in Ptr
    BY PageAssumption DEF Va, Ptr
<1>2. PICK q \in Ptr : q = get_pa(m, root, va)
    BY Walk
<1>3. CASE q = p
  <2>1. map_page(m, root, va, p) = m
      BY <1>2, <1>3 DEF map_page
  <2>2. WindowDone(m, R, L, m, L, root, va, p)
      BY <1>2, <1>3, ExtRefl DEF WindowDone
  <2> QED BY <2>1, <2>2
<1>4. CASE q # p /\ q # NoPage
  <2>1. q \in Page
      BY <1>4 DEF Ptr
  <2>2. PICK t \in Page : t = L0(m, root, va)
      BY <1>2, <2>1, Walk
  <2>3. L.lev[t] = 1 /\ t \in L.win /\ q = m.pt[t][va[3]]
      BY <1>2, <2>2, Walk
  <2>4. PICK d : d = Drop(m, q)
      OBVIOUS
  <2>5. m \in Mem
      BY GoodTypes
  <2>6. d.pt = m.pt /\ d.ok = m.ok
      BY <2>1, <2>4, <2>5, DropFields
  <2>7. d \in Mem
      BY <2>1, <2>4, <2>5, DropType
  <2>8. L0(d, root, va) = t
      BY <2>2, <2>6 DEF L0, L1, Entry
  <2>9. PICK k : k = SetPte(d, t, va[3], p)
      OBVIOUS
  <2>10. map_page(m, root, va, p) = k
      BY <1>2, <1>4, <2>4, <2>6, <2>8, <2>9 DEF map_page, Then
  <2>11. Good(3, k, R, L)
      BY <1>1, <1>4, <2>1, <2>3, <2>4, <2>9, ReplaceLeaf
  <2>12. k.pt = Upd(m.pt, t, va[3], p)
      BY <1>1, <2>6, <2>7, <2>9, SetPtePt
  <2>13. k.ok = TRUE
      BY <1>1, <2>6, <2>7, <2>9, SetPteFields
  <2>14. LeafDone(L, m, k, root, va, p)
      BY <1>1, <2>2, <2>11, <2>12, LeafSet
  <2>15. WindowDone(m, R, L, k, L, root, va, p)
      BY <2>11, <2>13, <2>14 DEF WindowDone, LeafDone
  <2> QED BY <2>10, <2>15
<1>5. CASE q = NoPage
  <2>1. PICK m1 : m1 = Tables(m, root, va)
      OBVIOUS
  <2>2. PICK K : TablesDone(m, R, L, m1, K, root, va)
      BY <2>1, TablesLemma
  <2>3. /\ Good(3, m1, R, K) /\ Ext(L, m, K, m1, root, {va}) /\ Grown(m, L, m1, K)
        /\ m1.ok \in BOOLEAN /\ (~m1.ok => m1.free = {})
        /\ m1.ok => L0(m1, root, va) \in Page /\ get_pa(m1, root, va) = NoPage
      BY <1>2, <1>5, <2>2 DEF TablesDone
  <2>4. map_page(m, root, va, p) = Then(m1, SetPte(m1, L0(m1, root, va), va[3], p))
      BY <1>1, <1>2, <1>5, <2>1 DEF map_page
  <2>5. CASE m1.ok = FALSE
    <3>1. map_page(m, root, va, p) = m1
        BY <2>4, <2>5 DEF Then
    <3>2. WindowDone(m, R, L, m1, K, root, va, p)
        BY <2>3, <2>5 DEF WindowDone
    <3> QED BY <3>1, <3>2
  <2>6. CASE m1.ok = TRUE
    <3>1. PICK t \in Page : t = L0(m1, root, va)
        BY <2>3, <2>6
    <3>2. K.lev[root] = 3
        BY <2>3 DEF Ext, Same
    <3>3. K.lev[t] = 1 /\ t \in K.win /\ m1.pt[t][va[3]] = NoPage
        BY <2>3, <2>6, <3>1, <3>2, Walk
    <3>4. p \notin m1.free /\ m1.ref[p] = m.ref[p]
        BY <2>3 DEF Grown
    <3>5. PICK k : k = SetPte(m1, t, va[3], p)
        OBVIOUS
    <3>6. map_page(m, root, va, p) = k
        BY <2>4, <2>6, <3>1, <3>5 DEF Then
    <3>7. Good(3, k, R, K)
        BY <1>1, <2>3, <3>3, <3>4, <3>5, PutLeaf
    <3>8. m1 \in Mem
        BY <2>3, GoodTypes
    <3>9. k.pt = Upd(m1.pt, t, va[3], p)
        BY <1>1, <3>5, <3>8, SetPtePt
    <3>10. k.ok = TRUE
        BY <1>1, <2>6, <3>5, <3>8, SetPteFields
    <3>11. LeafDone(K, m1, k, root, va, p)
        BY <1>1, <2>3, <3>1, <3>2, <3>7, <3>9, LeafSet
    <3>12. Ext(L, m, K, k, root, {va})
        BY <2>3, <3>11, ExtTrans DEF LeafDone
    <3>13. WindowDone(m, R, L, k, K, root, va, p)
        BY <3>7, <3>10, <3>11, <3>12 DEF WindowDone, LeafDone
    <3> QED BY <3>6, <3>13
  <2> QED BY <2>3, <2>5, <2>6
<1> QED BY <1>3, <1>4, <1>5
-----------------------------------------------------------------------------
(* The functions named ..._user. *)

LEMMA PaOfPt ==
    ASSUME NEW m, NEW k, k.pt = m.pt, NEW root, NEW va
    PROVE  /\ L1(k, root, va) = L1(m, root, va) /\ L0(k, root, va) = L0(m, root, va)
           /\ get_pa(k, root, va) = get_pa(m, root, va)
BY DEF get_pa, L0, L1, Entry

SelfDone(m, R, L, k, K, root, w, t) ==
    /\ Good(3, k, R, K) /\ Ext(L, m, K, k, root, {w}) /\ k.ok = TRUE
    /\ get_pa(k, root, w) = t \/ k.free = {}

LEMMA SelfMapLemma ==
    ASSUME NEW m, NEW R, NEW L, Good(3, m, R, L), m.ok = TRUE,
           NEW root \in Page, L.lev[root] = 3, NEW w \in Va, w[1] = PPT,
           NEW t \in Page, t \notin m.free, m.ref[t] + 1 < RefMod
    PROVE  \E K : SelfDone(m, R, L, SelfMap(m, root, w, t), K, root, w, t)
<1>1. PICK j : j = map_page(m, root, w, t)
    OBVIOUS
<1>2. PICK K : WindowDone(m, R, L, j, K, root, w, t)
    BY <1>1, MapWindow
<1>3. /\ Good(3, j, R, K) /\ Ext(L, m, K, j, root, {w})
      /\ get_pa(j, root, w) = t \/ j.free = {}
    BY <1>2 DEF WindowDone
<1>4. PICK k : k = [j EXCEPT !.ok = TRUE]
    OBVIOUS
<1>5. Good(3, k, R, K) /\ k.pt = j.pt /\ k.free = j.free /\ k.ok = TRUE
    BY <1>3, <1>4, FailedGood
<1>6. get_pa(k, root, w) = get_pa(j, root, w)
    BY <1>5, PaOfPt
<1>7. Ext(L, m, K, k, root, {w})
    BY <1>3, <1>5 DEF Ext
<1>8. SelfDone(m, R, L, k, K, root, w, t)
    BY <1>3, <1>5, <1>6, <1>7 DEF SelfDone
<1>9. SelfMap(m, root, w, t) = k
    BY <1>1, <1>4 DEF SelfMap, Then
<1> QED BY <1>8, <1>9

(* A table at entry i of table t, and that table in the window at w. *)
UserLevelDone(m, R, L, k, K, root, va, w, t, i) ==
    /\ Good(3, k, R, K) /\ Ext(L, m, K, k, root, {va, w})
    /\ k.ok \in BOOLEAN /\ (~k.ok => k.free = {})
    /\ k.ok => /\ k.pt[t][i] \in Page
               /\ \A j \in Vpn : k.pt[k.pt[t][i]][j] # NoPage => OnPath(K, root, w, k.pt[t][i], j)
               /\ get_pa(k, root, w) = k.pt[t][i] \/ k.free = {}

LEMMA UserLevel ==
    ASSUME NEW m, NEW R, NEW L, Good(3, m, R, L), m.ok = TRUE,
           NEW root \in Page, L.lev[root] = 3, NEW va, NEW w \in Va, w[1] = PPT,
           NEW t \in Page, L.lev[t] >= 2, NEW i \in Vpn, OnPath(L, root, va, t, i),
           m.pt[t][i] = NoPage,
           NEW n, n = Create(m, t, i), NEW z, n.ok => z = n.pt[t][i],
           NEW k, k = SelfMap(n, root, w, z)
    PROVE  \E K : UserLevelDone(m, R, L, k, K, root, va, w, t, i)
<1>1. n = IF m.pt[t][i] # NoPage THEN m ELSE Create(m, t, i)
    OBVIOUS
<1>2. PICK N : LevelDone(m, R, L, n, N, root, va, t, i)
    BY <1>1, Level
<1>3. /\ Good(3, n, R, N) /\ Ext(L, m, N, n, root, {va}) /\ n.ok \in BOOLEAN
      /\ n.ok => n.pt[t][i] \in Page /\ \A j \in Vpn : n.pt[n.pt[t][i]][j] = NoPage
      /\ n.ok => n.ref[n.pt[t][i]] = 1 /\ n.pt[t][i] \notin n.free
      /\ ~n.ok => n.free = {}
    BY <1>2 DEF LevelDone
<1>4. N.lev[root] = 3 /\ N.lev[t] = L.lev[t]
  <2>1. L.lev[t] \in Nat
      BY GoodTypes
  <2>2. L.lev[t] > 0
      BY <2>1
  <2> QED BY <1>3, <2>2 DEF Ext, Same
<1>5. CASE n.ok = FALSE
  <2>1. SelfMap(n, root, w, z) = n
      BY <1>5 DEF SelfMap, Then
  <2>2. Ext(N, n, N, n, root, {w})
      BY ExtRefl
  <2>3. Ext(L, m, N, n, root, {va, w})
      BY <1>3, <2>2, ExtTrans
  <2>4. UserLevelDone(m, R, L, n, N, root, va, w, t, i)
      BY <1>3, <1>5, <2>3 DEF UserLevelDone
  <2> QED BY <2>1, <2>4
<1>6. CASE n.ok = TRUE
  <2>1. z \in Page /\ z = n.pt[t][i] /\ z \notin n.free /\ n.ref[z] + 1 < RefMod
      BY <1>3, <1>6, RefAssumption
  <2>3. PICK K : SelfDone(n, R, N, k, K, root, w, z)
      BY <1>3, <1>4, <1>6, <2>1, SelfMapLemma
  <2>4. /\ Good(3, k, R, K) /\ Ext(N, n, K, k, root, {w}) /\ k.ok = TRUE
        /\ get_pa(k, root, w) = z \/ k.free = {}
      BY <2>3 DEF SelfDone
  <2>5. Ext(L, m, K, k, root, {va, w})
      BY <1>3, <2>4, ExtTrans
  <2>6. k.pt[t][i] = z
    <3>1. N.lev[t] >= 2 /\ n.pt[t][i] \in Page
        BY <1>4, <2>1
    <3> QED BY <2>1, <2>4, <3>1 DEF Ext
  <2>7. N.lev[z] > 0
    <3>1. N.lev[z] = N.lev[t] - 1
        BY <1>3, <1>4, <2>1 DEF Good, Shape, ShChild
    <3>2. N.lev[t] \in Nat
        BY <1>3, GoodTypes
    <3> QED BY <1>4, <3>1, <3>2
  <2>8. ASSUME NEW j \in Vpn, k.pt[z][j] # NoPage
        PROVE  OnPath(K, root, w, z, j)
    <3>1. n.pt[z][j] = NoPage
        BY <1>3, <1>6, <2>1
    <3> QED BY <2>1, <2>4, <2>8, <3>1 DEF Ext
  <2>9. UserLevelDone(m, R, L, k, K, root, va, w, t, i)
      BY <2>1, <2>4, <2>5, <2>6, <2>8 DEF UserLevelDone
  <2> QED BY <2>9
<1> QED BY <1>3, <1>5, <1>6
(* The addresses whose walks a call for va may change. *)
Paths(va) == {va, <<PPT, PPT, va[1]>>, <<PPT, va[1], va[2]>>}

UserDone(m, R, L, k, K, root, va) ==
    /\ Good(3, k, R, K) /\ Ext(L, m, K, k, root, Paths(va))
    /\ k.ok \in BOOLEAN /\ (~k.ok => k.free = {})
    /\ k.ok => /\ L0(k, root, va) \in Page
               /\ get_pa(k, root, va) = get_pa(m, root, va)
    /\ L0(m, root, va) # NoPage => k = m /\ K = L
    /\ k.ok /\ L0(m, root, va) = NoPage =>
          get_pa(k, root, <<PPT, va[1], va[2]>>) = L0(k, root, va) \/ k.free = {}

(* The second level of TablesUser. *)
LEMMA UserLower ==
    ASSUME NEW m, NEW R, NEW L, Good(3, m, R, L), m.ok = TRUE,
           NEW root \in Page, L.lev[root] = 3, NEW va \in Va, ~(va[1] = PPT /\ va[2] = PPT),
           L1(m, root, va) \in Page, L0(m, root, va) = NoPage,
           NEW n, n = Create(m, L1(m, root, va), va[2]),
           NEW k, k = SelfMap(n, root, <<PPT, va[1], va[2]>>, L0(n, root, va))
    PROVE  \E K : UserDone(m, R, L, k, K, root, va)
<1>1. /\ va[1] \in Vpn /\ va[2] \in Vpn /\ va[3] \in Vpn /\ NoPage \notin Page /\ PPT \in Vpn
    BY PageAssumption DEF Va
<1>2. PICK t \in Page : t = L1(m, root, va)
    OBVIOUS
<1>3. /\ t = m.pt[root][va[1]] /\ L.lev[t] = 2 /\ L.par[t] = root /\ L.idx[t] = va[1]
      /\ m.pt[t][va[2]] = NoPage
    BY <1>2, Walk
<1>4. OnPath(L, root, va, t, va[2]) /\ L.lev[t] >= 2
    BY <1>3 DEF OnPath
<1>5. PICK w \in Va : w = <<PPT, va[1], va[2]>>
    BY <1>1 DEF Va
<1>6. w[1] = PPT /\ w[2] = va[1] /\ w[3] = va[2]
    BY <1>5
<1>7. n.ok => L0(n, root, va) = n.pt[t][va[2]]
  <2>1. n = IF m.pt[t][va[2]] # NoPage THEN m ELSE Create(m, t, va[2])
      BY <1>2, <1>3
  <2>2. PICK N : LevelDone(m, R, L, n, N, root, va, t, va[2])
      BY <1>1, <1>4, <2>1, Level
  <2>3. Good(3, n, R, N) /\ Ext(L, m, N, n, root, {va})
      BY <2>2 DEF LevelDone
  <2>4. N.lev[root] = 3 /\ n.pt[root][va[1]] = t
      BY <1>1, <1>3, <2>3 DEF Ext, Same
  <2> QED BY <2>3, <2>4, Walk
<1>8. PICK z : z = L0(n, root, va)
    OBVIOUS
<1>9. n = Create(m, t, va[2]) /\ k = SelfMap(n, root, w, z)
    BY <1>2, <1>5, <1>8
<1>10. n.ok => z = n.pt[t][va[2]]
    BY <1>7, <1>8, <1>9
<1>11. PICK K : UserLevelDone(m, R, L, k, K, root, va, w, t, va[2])
  <2>1. PICK i \in Vpn : i = va[2]
      BY <1>1
  <2>2. n = Create(m, t, i) /\ (n.ok => z = n.pt[t][i]) /\ OnPath(L, root, va, t, i) /\ m.pt[t][i] = NoPage
      BY <1>3, <1>4, <1>9, <1>10, <2>1
  <2>3. w[1] = PPT /\ k = SelfMap(n, root, w, z) /\ L.lev[t] >= 2
      BY <1>4, <1>6, <1>9
  <2>4. \E K : UserLevelDone(m, R, L, k, K, root, va, w, t, i)
      BY <2>2, <2>3, UserLevel
  <2> QED BY <2>1, <2>4
<1>12. /\ Good(3, k, R, K) /\ Ext(L, m, K, k, root, {va, w})
       /\ k.ok \in BOOLEAN /\ (~k.ok => k.free = {})
    BY <1>11 DEF UserLevelDone
<1>13. Ext(L, m, K, k, root, Paths(va))
  <2>1. {va, w} \subseteq Paths(va)
      BY <1>5 DEF Paths
  <2> QED BY <1>12, <2>1 DEF Ext
<1>14. ASSUME k.ok
       PROVE  /\ L0(k, root, va) \in Page /\ get_pa(k, root, va) = NoPage
              /\ get_pa(k, root, w) = L0(k, root, va) \/ k.free = {}
  <2>1. /\ k.pt[t][va[2]] \in Page
        /\ \A j \in Vpn : k.pt[k.pt[t][va[2]]][j] # NoPage => OnPath(K, root, w, k.pt[t][va[2]], j)
        /\ get_pa(k, root, w) = k.pt[t][va[2]] \/ k.free = {}
      BY <1>11, <1>14 DEF UserLevelDone
  <2>2. K.lev[root] = 3 /\ k.pt[root][va[1]] = t
      BY <1>1, <1>3, <1>12 DEF Ext, Same
  <2>3. L1(k, root, va) = t
      BY <1>12, <2>2, Walk
  <2>4. PICK y \in Page : y = k.pt[t][va[2]]
      BY <2>1
  <2>5. L0(k, root, va) = y
      BY <1>12, <2>2, <2>3, <2>4, Walk
  <2>6. /\ K.lev[y] = 1 /\ K.par[y] = t /\ K.idx[y] = va[2] /\ K.idx[t] = va[1]
        /\ get_pa(k, root, va) = k.pt[y][va[3]]
      BY <1>12, <2>2, <2>3, <2>5, Walk
  <2>7. y # root /\ K.lev[y] # 2
      BY <2>2, <2>6
  <2>8. ~OnPath(K, root, w, y, va[3])
      BY <1>6, <2>6, <2>7 DEF OnPath
  <2>9. k.pt[y][va[3]] = NoPage
      BY <1>1, <2>1, <2>4, <2>8
  <2>10. get_pa(k, root, va) = NoPage
      BY <2>6, <2>9
  <2>11. get_pa(k, root, w) = y \/ k.free = {}
      BY <2>1, <2>4
  <2> QED BY <2>5, <2>10, <2>11
<1>15. get_pa(m, root, va) = NoPage
    BY DEF get_pa, Entry
<1>16. UserDone(m, R, L, k, K, root, va)
    BY <1>5, <1>12, <1>13, <1>14, <1>15 DEF UserDone
<1> QED BY <1>16

LEMMA TablesUserLemma ==
    ASSUME NEW m, NEW R, NEW L, Good(3, m, R, L), m.ok = TRUE,
           NEW root \in Page, L.lev[root] = 3, NEW va \in Va,
           va[1] = PPT /\ va[2] = PPT => L0(m, root, va) # NoPage
    PROVE  \E K : UserDone(m, R, L, TablesUser(m, root, va), K, root, va)
<1>1. /\ va[1] \in Vpn /\ va[2] \in Vpn /\ va[3] \in Vpn /\ NoPage \notin Page /\ PPT \in Vpn
    BY PageAssumption DEF Va
<1>2. L1(m, root, va) \in Ptr /\ L1(m, root, va) = m.pt[root][va[1]] /\ L0(m, root, va) \in Ptr
    BY Walk
<1>3. CASE L0(m, root, va) # NoPage
  <2>1. L0(m, root, va) \in Page /\ L1(m, root, va) \in Page
      BY <1>2, <1>3, Walk DEF Ptr
  <2>2. TablesUser(m, root, va) = m
      BY <1>1, <1>3, <2>1 DEF TablesUser, Then
  <2>3. UserDone(m, R, L, m, L, root, va)
      BY <1>3, <2>1, ExtRefl DEF UserDone
  <2> QED BY <2>2, <2>3
<1>4. CASE L0(m, root, va) = NoPage /\ L1(m, root, va) # NoPage
  <2>1. L1(m, root, va) \in Page
      BY <1>2, <1>4 DEF Ptr
  <2>2. PICK n : n = Create(m, L1(m, root, va), va[2])
      OBVIOUS
  <2>3. PICK k : k = SelfMap(n, root, <<PPT, va[1], va[2]>>, L0(n, root, va))
      OBVIOUS
  <2>4. TablesUser(m, root, va) = k
      BY <1>4, <2>2, <2>3 DEF TablesUser, Then
  <2>5. \E K : UserDone(m, R, L, k, K, root, va)
      BY <1>4, <2>1, <2>2, <2>3, UserLower
  <2> QED BY <2>4, <2>5
<1>5. CASE L0(m, root, va) = NoPage /\ L1(m, root, va) = NoPage
  <2>1. PICK n : n = Create(m, root, va[1])
      OBVIOUS
  <2>2. PICK w \in Va : w = <<PPT, PPT, va[1]>>
      BY <1>1 DEF Va
  <2>3. w[1] = PPT /\ w[2] = PPT /\ w[3] = va[1]
      BY <2>2
  <2>4. PICK z : z = L1(n, root, va)
      OBVIOUS
  <2>5. z = n.pt[root][va[1]]
      BY <1>1, <2>4 DEF L1, Entry
  <2>6. PICK m1 : m1 = SelfMap(n, root, w, z)
      OBVIOUS
  <2>7. OnPath(L, root, va, root, va[1]) /\ L.lev[root] >= 2 /\ m.pt[root][va[1]] = NoPage
      BY <1>2, <1>5 DEF OnPath
  <2>9. PICK K1 : UserLevelDone(m, R, L, m1, K1, root, va, w, root, va[1])
      BY <1>1, <2>1, <2>3, <2>5, <2>6, <2>7, UserLevel
  <2>10. /\ Good(3, m1, R, K1) /\ Ext(L, m, K1, m1, root, {va, w})
         /\ m1.ok \in BOOLEAN /\ (~m1.ok => m1.free = {})
      BY <2>9 DEF UserLevelDone
  <2>11. PICK n2 : n2 = Create(m1, L1(m1, root, va), va[2])
      OBVIOUS
  <2>12. PICK k : k = SelfMap(n2, root, <<PPT, va[1], va[2]>>, L0(n2, root, va))
      OBVIOUS
  <2>13. TablesUser(m, root, va) = Then(m1, k)
      BY <1>5, <2>1, <2>2, <2>4, <2>6, <2>11, <2>12 DEF TablesUser
  <2>14. {va, w} \subseteq Paths(va)
      BY <2>2 DEF Paths
  <2>15. CASE m1.ok = FALSE
    <3>1. Ext(L, m, K1, m1, root, Paths(va))
        BY <2>10, <2>14 DEF Ext
    <3>2. UserDone(m, R, L, m1, K1, root, va)
        BY <1>5, <2>10, <2>15, <3>1 DEF UserDone
    <3> QED BY <2>13, <2>15, <3>2 DEF Then
  <2>16. CASE m1.ok = TRUE
    <3>1. K1.lev[root] = 3
        BY <2>10 DEF Ext, Same
    <3>2. /\ m1.pt[root][va[1]] \in Page
          /\ \A j \in Vpn : m1.pt[m1.pt[root][va[1]]][j] # NoPage => OnPath(K1, root, w, m1.pt[root][va[1]], j)
        BY <2>9, <2>16 DEF UserLevelDone
    <3>3. PICK t \in Page : t = m1.pt[root][va[1]]
        BY <3>2
    <3>4. /\ L1(m1, root, va) = t /\ K1.lev[t] = 2 /\ K1.idx[t] = va[1]
          /\ L0(m1, root, va) = m1.pt[t][va[2]]
        BY <2>10, <3>1, <3>3, Walk
    <3>5. ~(va[1] = PPT /\ va[2] = PPT)
        BY <1>5
    <3>6. t # root /\ K1.lev[t] # 1
        BY <3>1, <3>4
    <3>7. ~OnPath(K1, root, w, t, va[2])
        BY <2>3, <3>4, <3>5, <3>6 DEF OnPath
    <3>8. L0(m1, root, va) = NoPage
        BY <1>1, <3>2, <3>3, <3>4, <3>7
    <3>9. L1(m1, root, va) \in Page
        BY <3>4
    <3>10. PICK K : UserDone(m1, R, K1, k, K, root, va)
        BY <2>10, <2>11, <2>12, <2>16, <3>1, <3>5, <3>8, <3>9, UserLower
    <3>11. Ext(L, m, K, k, root, Paths(va))
      <4>1. Ext(K1, m1, K, k, root, Paths(va))
          BY <3>10 DEF UserDone
      <4> QED BY <2>10, <2>14, <4>1, ExtTrans
    <3>12. get_pa(m1, root, va) = NoPage /\ get_pa(m, root, va) = NoPage
        BY <1>5, <3>8 DEF get_pa, Entry
    <3>13. UserDone(m, R, L, k, K, root, va)
        BY <1>5, <3>8, <3>10, <3>11, <3>12 DEF UserDone
    <3>14. TablesUser(m, root, va) = k
        BY <2>13, <2>16 DEF Then
    <3> QED BY <3>13, <3>14
  <2> QED BY <2>10, <2>15, <2>16
<1> QED BY <1>3, <1>4, <1>5
-----------------------------------------------------------------------------
(* What a call does not change. *)

(* Up the labels: where a table is found by a walk. *)
LEMMA WalkUp ==
    ASSUME NEW m, NEW R, NEW L, Good(3, m, R, L), NEW root \in Page, L.lev[root] = 3,
           NEW va \in Va, NEW a \in Page, L.lev[a] = 2, L.par[a] = root, L.idx[a] = va[1]
    PROVE  /\ L1(m, root, va) = a /\ L0(m, root, va) = m.pt[a][va[2]]
           /\ m.pt[a][va[2]] \in Page => get_pa(m, root, va) = m.pt[m.pt[a][va[2]]][va[3]]
<1>1. m.pt[root][va[1]] = a
    BY DEF Good, Shape, ShParent
<1>2. L1(m, root, va) = a
    BY <1>1, Walk
<1> QED BY <1>2, Walk

(* The address whose walk looks at an entry of the last level. *)
LEMMA PathLeaf ==
    ASSUME NEW K, NEW root \in Page, K.lev[root] = 3, NEW w, NEW x \in Page, NEW i,
           OnPath(K, root, w, x, i), K.lev[x] = 1
    PROVE  /\ K.par[K.par[x]] = root /\ K.idx[K.par[x]] = w[1]
           /\ K.idx[x] = w[2] /\ i = w[3]
<1>1. x # root /\ K.lev[x] # 2
    OBVIOUS
<1> QED BY <1>1 DEF OnPath

LEMMA L0Kept ==
    ASSUME NEW m, NEW R, NEW L, Good(3, m, R, L), NEW k, NEW S, NEW K, Good(3, k, S, K),
           NEW root \in Page, L.lev[root] = 3, NEW W, Ext(L, m, K, k, root, W),
           NEW other \in Page, L.lev[other] = 3, NEW va \in Va,
           other # root \/ \A w \in W : ~(w[1] = va[1] /\ w[2] = va[2])
    PROVE  L0(k, other, va) = L0(m, other, va)
<1>1. /\ va[1] \in Vpn /\ va[2] \in Vpn /\ va[3] \in Vpn /\ NoPage \notin Page
    BY PageAssumption DEF Va
<1>2. K.lev[root] = 3 /\ K.lev[other] = 3
    BY DEF Ext, Same
<1>3. PICK b \in Ptr : b = L0(m, other, va)
    BY Walk
<1>4. PICK c \in Ptr : c = L0(k, other, va)
    BY <1>2, Walk
<1>5. ASSUME c \in Page PROVE b = c
  <2>1. PICK a \in Page : a = L1(k, other, va)
      BY <1>2, <1>4, <1>5, Walk
  <2>2. K.lev[a] = 2 /\ K.par[a] = other /\ K.idx[a] = va[1] /\ c = k.pt[a][va[2]]
      BY <1>2, <1>4, <2>1, Walk
  <2>3. m.pt[a][va[2]] = c
    <3>1. SUFFICES ASSUME m.pt[a][va[2]] # k.pt[a][va[2]] PROVE FALSE
        BY <2>2
    <3>2. PICK w \in W : OnPath(K, root, w, a, va[2])
        BY <1>1, <3>1 DEF Ext
    <3>3. other = root /\ w[1] = va[1] /\ w[2] = va[2]
      <4>1. PICK i : i = va[2]
          OBVIOUS
      <4>2. OnPath(K, root, w, a, i)
          BY <3>2, <4>1
      <4>3. K.lev[a] = 2 /\ K.lev[root] = 3
          BY <1>2, <2>2
      <4>4. a # root /\ K.lev[a] # 1
          BY <4>3
      <4>5. K.par[a] = root /\ K.idx[a] = w[1] /\ i = w[2]
          BY <4>2, <4>4 DEF OnPath
      <4> QED BY <2>2, <4>1, <4>5
    <3> QED BY <3>3
  <2>4. L.lev[a] > 0
    <3>1. L.lev[a] # 0
        BY <1>1, <1>5, <2>3 DEF Good, Shape, ShData
    <3>2. L.lev[a] \in Nat
        BY GoodTypes
    <3> QED BY <3>1, <3>2
  <2>5. L.lev[a] = 2 /\ L.par[a] = other /\ L.idx[a] = va[1]
      BY <2>2, <2>4 DEF Ext, Same
  <2> QED BY <1>3, <2>3, <2>5, WalkUp
<1>6. ASSUME b \in Page PROVE c = b
  <2>1. PICK a \in Page : a = L1(m, other, va)
      BY <1>3, <1>6, Walk
  <2>2. a = m.pt[other][va[1]] /\ L.lev[a] = 2 /\ b = m.pt[a][va[2]]
      BY <1>3, <2>1, Walk
  <2>3. k.pt[other][va[1]] = a /\ k.pt[a][va[2]] = b
    <3>1. \A x \in Page, i \in Vpn :
             L.lev[x] >= 2 /\ m.pt[x][i] \in Page => k.pt[x][i] = m.pt[x][i]
        BY DEF Ext
    <3>2. L.lev[other] >= 2 /\ L.lev[a] >= 2
        BY <2>2
    <3> QED BY <1>1, <1>6, <2>2, <3>1, <3>2
  <2>4. L1(k, other, va) = a
      BY <1>2, <2>3, Walk
  <2> QED BY <1>2, <1>4, <2>3, <2>4, Walk
<1> QED BY <1>3, <1>4, <1>5, <1>6 DEF Ptr

LEMMA PaKept ==
    ASSUME NEW m, NEW R, NEW L, Good(3, m, R, L), NEW k, NEW S, NEW K, Good(3, k, S, K),
           NEW root \in Page, L.lev[root] = 3, NEW W, W \subseteq Va, Ext(L, m, K, k, root, W),
           NEW other \in Page, L.lev[other] = 3, NEW va \in Va,
           other # root \/ va \notin W
    PROVE  get_pa(k, other, va) = get_pa(m, other, va)
<1>1. /\ va[1] \in Vpn /\ va[2] \in Vpn /\ va[3] \in Vpn /\ NoPage \notin Page
    BY PageAssumption DEF Va
<1>2. K.lev[root] = 3 /\ K.lev[other] = 3
    BY DEF Ext, Same
<1>3. PICK b \in Ptr : b = get_pa(m, other, va)
    BY Walk
<1>4. PICK c \in Ptr : c = get_pa(k, other, va)
    BY <1>2, Walk
<1>5. ASSUME NEW x \in Page, K.lev[x] = 1, K.idx[x] = va[2],
             K.par[K.par[x]] = other, K.idx[K.par[x]] = va[1]
      PROVE  k.pt[x][va[3]] = m.pt[x][va[3]]
  <2>1. SUFFICES ASSUME k.pt[x][va[3]] # m.pt[x][va[3]] PROVE FALSE
      OBVIOUS
  <2>2. PICK w \in W : OnPath(K, root, w, x, va[3])
      BY <1>1, <2>1 DEF Ext
  <2>3. other = root /\ w[1] = va[1] /\ w[2] = va[2] /\ w[3] = va[3]
    <3>1. PICK i : i = va[3]
        OBVIOUS
    <3>2. OnPath(K, root, w, x, i)
        BY <2>2, <3>1
    <3>3. K.par[K.par[x]] = root /\ K.idx[K.par[x]] = w[1] /\ K.idx[x] = w[2] /\ i = w[3]
        BY <1>2, <1>5, <3>2, PathLeaf
    <3> QED BY <1>5, <3>1, <3>3
  <2>4. w = va
      BY <2>3 DEF Va
  <2> QED BY <2>3, <2>4
<1>6. ASSUME c \in Page PROVE b = c
  <2>1. PICK y \in Page : y = L0(k, other, va)
      BY <1>2, <1>4, <1>6, Walk
  <2>2. PICK a \in Page : a = L1(k, other, va)
      BY <1>2, <2>1, Walk
  <2>3. /\ K.lev[a] = 2 /\ K.par[a] = other /\ K.idx[a] = va[1]
        /\ K.lev[y] = 1 /\ K.par[y] = a /\ K.idx[y] = va[2] /\ c = k.pt[y][va[3]]
      BY <1>2, <1>4, <2>1, <2>2, Walk
  <2>4. m.pt[y][va[3]] = c
      BY <1>5, <2>3
  <2>5. L.lev[y] > 0
    <3>1. L.lev[y] # 0
        BY <1>1, <1>6, <2>4 DEF Good, Shape, ShData
    <3>2. L.lev[y] \in Nat
        BY GoodTypes
    <3> QED BY <3>1, <3>2
  <2>6. L.lev[y] = 1 /\ L.par[y] = a /\ L.idx[y] = va[2]
      BY <2>3, <2>5 DEF Ext, Same
  <2>7. L.lev[a] = 2 /\ m.pt[a][va[2]] = y
      BY <2>6 DEF Good, Shape, ShParent
  <2>8. L.par[a] = other /\ L.idx[a] = va[1]
      BY <2>3, <2>7 DEF Ext, Same
  <2> QED BY <1>3, <2>4, <2>7, <2>8, WalkUp
<1>7. ASSUME b \in Page PROVE c = b
  <2>1. PICK y \in Page : y = L0(m, other, va)
      BY <1>3, <1>7, Walk
  <2>2. PICK a \in Page : a = L1(m, other, va)
      BY <2>1, Walk
  <2>3. a = m.pt[other][va[1]] /\ y = m.pt[a][va[2]] /\ b = m.pt[y][va[3]]
      BY <1>3, <2>1, <2>2, Walk
  <2>7. /\ L.lev[a] = 2 /\ L.par[a] = other /\ L.idx[a] = va[1]
        /\ L.lev[y] = 1 /\ L.par[y] = a /\ L.idx[y] = va[2]
      BY <2>1, <2>2, Walk
  <2>4. k.pt[other][va[1]] = a /\ k.pt[a][va[2]] = y
    <3>1. \A x \in Page, i \in Vpn :
             L.lev[x] >= 2 /\ m.pt[x][i] \in Page => k.pt[x][i] = m.pt[x][i]
        BY DEF Ext
    <3>2. L.lev[other] >= 2 /\ L.lev[a] >= 2
        BY <2>7
    <3> QED BY <1>1, <2>3, <3>1, <3>2
  <2>5. /\ K.lev[a] = 2 /\ K.par[a] = other /\ K.idx[a] = va[1]
        /\ K.lev[y] = 1 /\ K.par[y] = a /\ K.idx[y] = va[2]
    <3>1. Same(L, K)
        BY DEF Ext
    <3>2. L.lev[a] > 0 /\ L.lev[y] > 0
        BY <2>7
    <3> QED BY <2>7, <3>1, <3>2 DEF Same
  <2>6. k.pt[y][va[3]] = b
      BY <1>5, <2>3, <2>5
  <2> QED BY <1>2, <1>4, <2>4, <2>5, <2>6, WalkUp
<1> QED BY <1>3, <1>4, <1>6, <1>7 DEF Ptr
(* A table that was found stays the one that is found. *)
LEMMA L0Stays ==
    ASSUME NEW m, NEW R, NEW L, Good(3, m, R, L), NEW k, NEW S, NEW K, Good(3, k, S, K),
           NEW root \in Page, L.lev[root] = 3, NEW W, Ext(L, m, K, k, root, W),
           NEW other \in Page, L.lev[other] = 3, NEW va \in Va, L0(m, other, va) # NoPage
    PROVE  L0(k, other, va) = L0(m, other, va)
<1>1. /\ va[1] \in Vpn /\ va[2] \in Vpn /\ va[3] \in Vpn /\ NoPage \notin Page
    BY PageAssumption DEF Va
<1>2. K.lev[other] = 3
    BY DEF Ext, Same
<1>3. PICK b \in Page : b = L0(m, other, va)
    BY Walk DEF Ptr
<1>4. PICK a \in Page : a = L1(m, other, va)
    BY <1>3, Walk
<1>5. a = m.pt[other][va[1]] /\ L.lev[a] = 2 /\ b = m.pt[a][va[2]]
    BY <1>3, <1>4, Walk
<1>6. k.pt[other][va[1]] = a /\ k.pt[a][va[2]] = b
  <2>1. \A x \in Page, i \in Vpn :
           L.lev[x] >= 2 /\ m.pt[x][i] \in Page => k.pt[x][i] = m.pt[x][i]
      BY DEF Ext
  <2>2. L.lev[other] >= 2 /\ L.lev[a] >= 2
      BY <1>5
  <2> QED BY <1>1, <1>5, <2>1, <2>2
<1>7. L1(k, other, va) = a
    BY <1>2, <1>6, Walk
<1> QED BY <1>2, <1>3, <1>6, <1>7, Walk

(* The window shows the table that translates va. *)
Shown(m, root, va) ==
    L0(m, root, va) # NoPage => get_pa(m, root, <<PPT, va[1], va[2]>>) = L0(m, root, va)

LEMMA ShownKept ==
    ASSUME NEW m, NEW R, NEW L, Good(3, m, R, L), NEW k, NEW S, NEW K, Good(3, k, S, K),
           NEW root \in Page, L.lev[root] = 3, NEW W, W \subseteq Va, Ext(L, m, K, k, root, W),
           NEW other \in Page, L.lev[other] = 3, NEW va \in Va, Shown(m, other, va),
           other # root \/ /\ L0(k, other, va) = L0(m, other, va)
                           /\ L0(m, other, va) # NoPage => <<PPT, va[1], va[2]>> \notin W
    PROVE  Shown(k, other, va)
<1>1. PICK w \in Va : w = <<PPT, va[1], va[2]>>
    BY PageAssumption DEF Va
<1>2. L0(k, other, va) = L0(m, other, va)
  <2>1. CASE other # root
      BY <2>1, L0Kept
  <2> QED BY <2>1
<1>3. L0(m, other, va) # NoPage => get_pa(k, other, w) = get_pa(m, other, w)
  <2>1. SUFFICES ASSUME L0(m, other, va) # NoPage PROVE get_pa(k, other, w) = get_pa(m, other, w)
      OBVIOUS
  <2>2. other # root \/ w \notin W
      BY <1>1, <2>1
  <2> QED BY <2>2, PaKept
<1> QED BY <1>1, <1>2, <1>3 DEF Shown

-----------------------------------------------------------------------------
(* The calls on the directory of one environment. *)

UserCall(m, R, L, k, K, root, va) ==
    /\ Good(3, k, R, K) /\ Ext(L, m, K, k, root, Paths(va))
    /\ va[1] # PPT /\ Shown(m, root, va) => Shown(k, root, va) \/ k.free = {}

LEMMA PathsVa ==
    ASSUME NEW va \in Va
    PROVE  Paths(va) \subseteq Va /\ va \in Paths(va) /\ <<PPT, va[1], va[2]>> \in Va
BY PageAssumption DEF Paths, Va

(* Writing the entry of va leaves the table in the window. *)
LEMMA ShownLeaf ==
    ASSUME NEW m, NEW R, NEW L, Good(3, m, R, L), NEW k, Good(3, k, R, L),
           NEW root \in Page, L.lev[root] = 3, NEW va \in Va, va[1] # PPT,
           NEW p, LeafDone(L, m, k, root, va, p), Shown(m, root, va)
    PROVE  Shown(k, root, va)
<1>1. {va} \subseteq Va /\ Ext(L, m, L, k, root, {va}) /\ L0(k, root, va) = L0(m, root, va)
    BY DEF LeafDone
<1>2. <<PPT, va[1], va[2]>> \notin {va}
    BY DEF Va
<1> QED BY <1>1, <1>2, ShownKept

(* The state after the tables are there, and then the entry is written. *)
LEMMA UserThenLeaf ==
    ASSUME NEW m, NEW R, NEW L, Good(3, m, R, L),
           NEW root \in Page, L.lev[root] = 3, NEW va \in Va,
           NEW j, NEW K, UserDone(m, R, L, j, K, root, va), NEW k, Good(3, k, R, K),
           NEW p, LeafDone(K, j, k, root, va, p), j.free = {} => k.free = {}
    PROVE  UserCall(m, R, L, k, K, root, va)
<1>1. Good(3, j, R, K) /\ Ext(L, m, K, j, root, Paths(va))
    BY DEF UserDone
<1>2. K.lev[root] = 3
    BY <1>1 DEF Ext, Same
<1>3. Ext(K, j, K, k, root, {va})
    BY DEF LeafDone
<1>4. Ext(L, m, K, k, root, Paths(va))
  <2>1. {va} \subseteq Paths(va)
      BY DEF Paths
  <2> QED BY <1>1, <1>3, <2>1, ExtTrans
<1>5. ASSUME va[1] # PPT, Shown(m, root, va), k.free # {} PROVE Shown(k, root, va)
  <2>1. j.free # {}
      BY <1>5
  <2>2. L0(j, root, va) \in Ptr
      BY <1>1, <1>2, Walk
  <2>3. Shown(j, root, va)
    <3>1. CASE L0(m, root, va) # NoPage
        BY <1>5, <3>1 DEF UserDone
    <3>2. CASE L0(m, root, va) = NoPage /\ j.ok
        BY <2>1, <3>2 DEF UserDone, Shown
    <3>3. CASE ~j.ok
        BY <2>1, <3>3 DEF UserDone
    <3> QED BY <3>1, <3>2, <3>3
  <2> QED BY <1>1, <1>2, <1>5, <2>3, ShownLeaf
<1> QED BY <1>4, <1>5 DEF UserCall
(* An entry that is in place is written over: its page goes first. *)
LEMMA UserOver ==
    ASSUME NEW m, NEW R, NEW L, Good(3, m, R, L),
           NEW root \in Page, L.lev[root] = 3, NEW va \in Va,
           NEW t \in Page, t = L0(m, root, va), NEW k, Good(3, k, R, L),
           NEW p \in Ptr, k.pt = Upd(m.pt, t, va[3], p)
    PROVE  UserCall(m, R, L, k, L, root, va)
<1>1. LeafDone(L, m, k, root, va, p)
    BY LeafSet
<1>2. Ext(L, m, L, k, root, {va})
    BY <1>1 DEF LeafDone
<1>3. Ext(L, m, L, k, root, Paths(va))
  <2>1. {va} \subseteq Paths(va)
      BY DEF Paths
  <2> QED BY <1>2, <2>1 DEF Ext
<1>4. va[1] # PPT /\ Shown(m, root, va) => Shown(k, root, va)
    BY <1>1, ShownLeaf
<1> QED BY <1>3, <1>4 DEF UserCall

LEMMA UserSame ==
    ASSUME NEW m, NEW R, NEW L, Good(3, m, R, L), NEW root, NEW va
    PROVE  UserCall(m, R, L, m, L, root, va)
BY ExtRefl DEF UserCall

(* The tables could not all be made: the call stops. *)
LEMMA UserStops ==
    ASSUME NEW m, NEW R, NEW L, NEW root, NEW va,
           NEW j, NEW K, UserDone(m, R, L, j, K, root, va), NEW k, Good(3, k, R, K),
           k.pt = j.pt, k.free = {}
    PROVE  UserCall(m, R, L, k, K, root, va)
<1>1. Ext(L, m, K, j, root, Paths(va))
    BY DEF UserDone
<1>2. Ext(L, m, K, k, root, Paths(va))
    BY <1>1 DEF Ext
<1> QED BY <1>2 DEF UserCall

LEMMA AllocUser ==
    ASSUME NEW m, NEW R, NEW L, Good(3, m, R, L), m.ok = TRUE,
           NEW root \in Page, L.lev[root] = 3, NEW va \in Va,
           va[1] = PPT /\ va[2] = PPT => L0(m, root, va) # NoPage,
           get_pa(m, root, va) # NoPage => Drop(m, get_pa(m, root, va)).free # {}
    PROVE  \E K : UserCall(m, R, L, alloc_page_user(m, root, va), K, root, va)
<1>1. va[1] \in Vpn /\ va[2] \in Vpn /\ va[3] \in Vpn /\ NoPage \notin Page
    BY PageAssumption DEF Va
<1>2. PICK q \in Ptr : q = get_pa(m, root, va)
    BY Walk
<1>3. PICK i \in Vpn : i = va[3]
    BY <1>1
<1>4. m \in Mem
    BY GoodTypes
<1>5. CASE q # NoPage
  <2>1. q \in Page
      BY <1>5 DEF Ptr
  <2>2. PICK t \in Page : t = L0(m, root, va)
      BY <1>2, <2>1, Walk
  <2>3. L.lev[t] = 1 /\ q = m.pt[t][i]
      BY <1>2, <1>3, <2>2, Walk
  <2>4. PICK d : d = Drop(m, q)
      OBVIOUS
  <2>5. d.pt = m.pt /\ d.ok = m.ok
      BY <1>4, <2>1, <2>4, DropFields
  <2>6. L0(d, root, va) = t
      BY <2>2, <2>5, PaOfPt
  <2>7. PICK k : k = Create(d, t, i)
      OBVIOUS
  <2>8. alloc_page_user(m, root, va) = k
      BY <1>2, <1>3, <1>5, <2>4, <2>5, <2>6, <2>7 DEF alloc_page_user, Then
  <2>9. Drop(m, m.pt[t][i]).free # {} /\ m.pt[t][i] \in Page
      BY <1>2, <1>5, <2>1, <2>3
  <2>10. /\ Good(3, Create(Drop(m, m.pt[t][i]), t, i), R, L)
         /\ \E p \in Page : Create(Drop(m, m.pt[t][i]), t, i).pt = Upd(m.pt, t, i, p)
      BY <2>3, <2>9, RenewLeaf
  <2>11. Create(Drop(m, m.pt[t][i]), t, i) = k
      BY <2>3, <2>4, <2>7
  <2>12. Good(3, k, R, L)
      BY <2>10, <2>11
  <2>13. PICK p \in Page : k.pt = Upd(m.pt, t, i, p)
      BY <2>10, <2>11
  <2>14. p \in Ptr /\ k.pt = Upd(m.pt, t, va[3], p)
      BY <1>3, <2>13 DEF Ptr
  <2>15. UserCall(m, R, L, k, L, root, va)
      BY <2>2, <2>12, <2>14, UserOver
  <2> QED BY <2>8, <2>15
<1>6. CASE q = NoPage
  <2>1. PICK j : j = TablesUser(m, root, va)
      OBVIOUS
  <2>2. PICK K : UserDone(m, R, L, j, K, root, va)
      BY <2>1, TablesUserLemma
  <2>3. /\ Good(3, j, R, K) /\ Ext(L, m, K, j, root, Paths(va))
        /\ j.ok \in BOOLEAN /\ (~j.ok => j.free = {})
        /\ j.ok => L0(j, root, va) \in Page /\ get_pa(j, root, va) = NoPage
      BY <1>2, <1>6, <2>2 DEF UserDone
  <2>4. K.lev[root] = 3
      BY <2>3 DEF Ext, Same
  <2>5. alloc_page_user(m, root, va) = Then(j, Create(j, L0(j, root, va), i))
      BY <1>2, <1>3, <1>6, <2>1 DEF alloc_page_user
  <2>6. CASE j.ok = FALSE
    <3>1. alloc_page_user(m, root, va) = j
        BY <2>5, <2>6 DEF Then
    <3>2. UserCall(m, R, L, j, K, root, va)
        BY <2>2, <2>3, <2>6, UserStops
    <3> QED BY <3>1, <3>2
  <2>7. CASE j.ok = TRUE /\ j.free = {}
    <3>1. PICK k : k = [j EXCEPT !.ok = FALSE]
        OBVIOUS
    <3>2. alloc_page_user(m, root, va) = k
        BY <2>5, <2>7, <3>1 DEF Then, Create
    <3>3. Good(3, k, R, K) /\ k.pt = j.pt /\ k.free = {}
        BY <2>3, <2>7, <3>1, FailedGood
    <3>4. UserCall(m, R, L, k, K, root, va)
        BY <2>2, <3>3, UserStops
    <3> QED BY <3>2, <3>4
  <2>8. CASE j.ok = TRUE /\ j.free # {}
    <3>1. PICK t \in Page : t = L0(j, root, va)
        BY <2>3, <2>8
    <3>2. K.lev[t] = 1 /\ j.pt[t][i] = NoPage
        BY <1>3, <2>3, <2>4, <2>8, <3>1, Walk
    <3>3. PICK k : k = Create(j, t, i)
        OBVIOUS
    <3>4. alloc_page_user(m, root, va) = k
        BY <2>5, <2>8, <3>1, <3>3 DEF Then
    <3>5. Good(3, k, R, K)
        BY <2>3, <2>8, <3>2, <3>3, MakeLeaf
    <3>6. page_alloc(j) \in Page /\ k.pt = Upd(j.pt, t, i, page_alloc(j))
        BY <2>3, <2>8, <3>3, CreateStep
    <3>7. PICK p \in Ptr : p = page_alloc(j)
        BY <3>6 DEF Ptr
    <3>8. k.pt = Upd(j.pt, t, va[3], p)
        BY <1>3, <3>6, <3>7
    <3>9. LeafDone(K, j, k, root, va, p)
        BY <2>3, <2>4, <3>1, <3>5, <3>8, LeafSet
    <3>10. UserCall(m, R, L, k, K, root, va)
        BY <2>2, <2>8, <3>5, <3>9, UserThenLeaf
    <3> QED BY <3>4, <3>10
  <2> QED BY <2>3, <2>6, <2>7, <2>8
<1> QED BY <1>5, <1>6

(* The page p is one that a walk of an address outside the window found,   *)
(* and the entry it gets is not the one with which its count wraps.        *)
LEMMA MapUser ==
    ASSUME NEW m, NEW R, NEW L, Good(3, m, R, L), m.ok = TRUE,
           NEW root \in Page, L.lev[root] = 3, NEW va \in Va, va[1] # PPT,
           NEW src \in Page, L.lev[src] = 3, NEW sva \in Va, sva[1] # PPT,
           NEW p \in Page, p = get_pa(m, src, sva),
           NEW k, k = map_page_user(m, root, va, p), Cnt(k.pt, R, p) < RefMod
    PROVE  \E K : UserCall(m, R, L, k, K, root, va)
<1>1. /\ va[1] \in Vpn /\ va[2] \in Vpn /\ va[3] \in Vpn /\ NoPage \notin Page
      /\ p \in Ptr
    BY PageAssumption DEF Va, Ptr
<1>2. PICK q \in Ptr : q = get_pa(m, root, va)
    BY Walk
<1>3. PICK i \in Vpn : i = va[3]
    BY <1>1
<1>4. m \in Mem /\ m.pt \in [Page -> [Vpn -> Ptr]]
    BY GoodTypes
<1>5. ASSUME NEW j, NEW K, Good(3, j, R, K), K.lev[src] = 3, get_pa(j, src, sva) = p
      PROVE  p \notin j.free /\ K.lev[p] = 0 /\ j.ref[p] = Cnt(j.pt, R, p)
             /\ j.ref[p] \in Nat
  <2>1. PICK s \in Page : s = L0(j, src, sva)
      BY <1>5, Walk
  <2>2. K.lev[s] = 1 /\ s \notin K.win /\ j.pt[s][sva[3]] = p
      BY <1>5, <2>1, Walk
  <2>3. sva[3] \in Vpn
      BY DEF Va
  <2>4. K.lev[p] = 0
      BY <1>5, <2>2, <2>3 DEF Good, Shape, ShLeaf
  <2>5. p \notin j.free
      BY <1>5, <2>2, <2>3, FreeBlank
  <2>6. j.ref[p] = Cnt(j.pt, R, p)
      BY <1>5 DEF Good, Counted
  <2>7. j.ref[p] \in Nat
      BY <1>5, GoodTypes
  <2> QED BY <2>4, <2>5, <2>6, <2>7
<1>6. CASE q = p
  <2>1. k = m
      BY <1>2, <1>6 DEF map_page_user
  <2> QED BY <2>1, UserSame
<1>7. CASE q # p /\ q # NoPage
  <2>1. q \in Page
      BY <1>7 DEF Ptr
  <2>2. PICK t \in Page : t = L0(m, root, va)
      BY <1>2, <2>1, Walk
  <2>3. L.lev[t] = 1 /\ q = m.pt[t][i]
      BY <1>2, <1>3, <2>2, Walk
  <2>4. PICK d : d = Drop(m, q)
      OBVIOUS
  <2>5. d.pt = m.pt /\ d.ok = m.ok
      BY <1>4, <2>1, <2>4, DropFields
  <2>6. d \in Mem
      BY <1>4, <2>1, <2>4, DropType
  <2>7. L0(d, root, va) = t
      BY <2>2, <2>5, PaOfPt
  <2>8. k = SetPte(d, t, i, p)
      BY <1>2, <1>3, <1>7, <2>4, <2>5, <2>7 DEF map_page_user, Then
  <2>9. k.pt = Upd(m.pt, t, i, p)
      BY <2>5, <2>6, <2>8, SetPtePt
  <2>10. p \notin m.free /\ L.lev[p] = 0 /\ m.ref[p] = Cnt(m.pt, R, p) /\ m.ref[p] \in Nat
      BY <1>5
  <2>11. Cnt(k.pt, R, p) = Cnt(m.pt, R, p) + 1
      BY <1>1, <1>4, <1>7, <2>3, <2>9, OneSlot
  <2>12. m.ref[p] + 1 < RefMod
      BY <2>10, <2>11
  <2>13. Good(3, k, R, L)
      BY <1>7, <2>1, <2>3, <2>4, <2>8, <2>10, <2>12, ReplaceLeaf
  <2>14. UserCall(m, R, L, k, L, root, va)
      BY <1>1, <1>3, <2>2, <2>9, <2>13, UserOver
  <2> QED BY <2>14
<1>8. CASE q = NoPage
  <2>1. PICK j : j = TablesUser(m, root, va)
      OBVIOUS
  <2>2. PICK K : UserDone(m, R, L, j, K, root, va)
      BY <2>1, TablesUserLemma
  <2>3. /\ Good(3, j, R, K) /\ Ext(L, m, K, j, root, Paths(va))
        /\ j.ok \in BOOLEAN /\ (~j.ok => j.free = {})
        /\ j.ok => L0(j, root, va) \in Page /\ get_pa(j, root, va) = NoPage
      BY <1>2, <1>8, <2>2 DEF UserDone
  <2>4. K.lev[root] = 3 /\ K.lev[src] = 3
      BY <2>3 DEF Ext, Same
  <2>5. k = Then(j, SetPte(j, L0(j, root, va), i, p))
      BY <1>1, <1>2, <1>3, <1>8, <2>1 DEF map_page_user
  <2>6. CASE j.ok = FALSE
    <3>1. k = j
        BY <2>5, <2>6 DEF Then
    <3>2. UserCall(m, R, L, j, K, root, va)
        BY <2>2, <2>3, <2>6, UserStops
    <3> QED BY <3>1, <3>2
  <2>7. CASE j.ok = TRUE
    <3>1. PICK t \in Page : t = L0(j, root, va)
        BY <2>3, <2>7
    <3>2. K.lev[t] = 1 /\ j.pt[t][i] = NoPage
        BY <1>3, <2>3, <2>4, <2>7, <3>1, Walk
    <3>3. k = SetPte(j, t, i, p)
        BY <2>5, <2>7, <3>1 DEF Then
    <3>4. get_pa(j, src, sva) = p
      <4>1. Paths(va) \subseteq Va
          BY PathsVa
      <4>2. src # root \/ sva \notin Paths(va)
        <5>1. ASSUME sva = va, src = root PROVE FALSE
            BY <1>1, <1>2, <1>8, <5>1
        <5>2. sva # <<PPT, PPT, va[1]>> /\ sva # <<PPT, va[1], va[2]>>
            OBVIOUS
        <5> QED BY <5>1, <5>2 DEF Paths
      <4> QED BY <2>3, <4>1, <4>2, PaKept
    <3>5. p \notin j.free /\ K.lev[p] = 0 /\ j.ref[p] = Cnt(j.pt, R, p) /\ j.ref[p] \in Nat
        BY <1>5, <2>3, <2>4, <3>4
    <3>6. j \in Mem /\ j.pt \in [Page -> [Vpn -> Ptr]]
        BY <2>3, GoodTypes
    <3>7. k.pt = Upd(j.pt, t, i, p)
        BY <3>3, <3>6, SetPtePt
    <3>8. k.free = j.free
        BY <3>3, <3>6 DEF SetPte, Mem
    <3>9. Cnt(k.pt, R, p) = Cnt(j.pt, R, p) + 1
        BY <1>1, <3>2, <3>6, <3>7, OneSlot
    <3>10. j.ref[p] + 1 < RefMod
        BY <3>5, <3>9
    <3>11. Good(3, k, R, K)
        BY <2>3, <3>2, <3>3, <3>5, <3>10, PutLeaf
    <3>12. LeafDone(K, j, k, root, va, p)
        BY <1>1, <1>3, <2>3, <2>4, <3>1, <3>7, <3>11, LeafSet
    <3>13. UserCall(m, R, L, k, K, root, va)
        BY <2>2, <3>8, <3>11, <3>12, UserThenLeaf
    <3> QED BY <3>13
  <2> QED BY <2>3, <2>6, <2>7
<1> QED BY <1>6, <1>7, <1>8
(* The calls that do not show their tables in the window. *)
PlainCall(m, R, L, k, K, root, va) == Good(3, k, R, K) /\ Ext(L, m, K, k, root, {va})

LEMMA AllocPlain ==
    ASSUME NEW m, NEW R, NEW L, Good(3, m, R, L), m.ok = TRUE,
           NEW root \in Page, L.lev[root] = 3, NEW va \in Va, get_pa(m, root, va) = NoPage
    PROVE  \E K : PlainCall(m, R, L, alloc_page(m, root, va), K, root, va)
<1>1. va[1] \in Vpn /\ va[2] \in Vpn /\ va[3] \in Vpn /\ NoPage \notin Page
    BY PageAssumption DEF Va
<1>2. PICK i \in Vpn : i = va[3]
    BY <1>1
<1>3. PICK j : j = Tables(m, root, va)
    OBVIOUS
<1>4. PICK K : TablesDone(m, R, L, j, K, root, va)
    BY <1>3, TablesLemma
<1>5. /\ Good(3, j, R, K) /\ Ext(L, m, K, j, root, {va})
      /\ j.ok \in BOOLEAN /\ (~j.ok => j.free = {})
      /\ j.ok => L0(j, root, va) \in Page /\ get_pa(j, root, va) = NoPage
    BY <1>4 DEF TablesDone
<1>6. K.lev[root] = 3
    BY <1>5 DEF Ext, Same
<1>7. alloc_page(m, root, va) = Then(j, Create(j, L0(j, root, va), i))
    BY <1>2, <1>3 DEF alloc_page
<1>8. CASE j.ok = FALSE
  <2>1. alloc_page(m, root, va) = j
      BY <1>7, <1>8 DEF Then
  <2>2. PlainCall(m, R, L, j, K, root, va)
      BY <1>5 DEF PlainCall
  <2> QED BY <2>1, <2>2
<1>9. CASE j.ok = TRUE /\ j.free = {}
  <2>1. PICK k : k = [j EXCEPT !.ok = FALSE]
      OBVIOUS
  <2>2. alloc_page(m, root, va) = k
      BY <1>7, <1>9, <2>1 DEF Then, Create
  <2>3. Good(3, k, R, K) /\ k.pt = j.pt
      BY <1>5, <2>1, FailedGood
  <2>4. PlainCall(m, R, L, k, K, root, va)
      BY <1>5, <2>3 DEF PlainCall, Ext
  <2> QED BY <2>2, <2>4
<1>10. CASE j.ok = TRUE /\ j.free # {}
  <2>1. PICK t \in Page : t = L0(j, root, va)
      BY <1>5, <1>10
  <2>2. K.lev[t] = 1 /\ j.pt[t][i] = NoPage
      BY <1>2, <1>5, <1>6, <1>10, <2>1, Walk
  <2>3. PICK k : k = Create(j, t, i)
      OBVIOUS
  <2>4. alloc_page(m, root, va) = k
      BY <1>7, <1>10, <2>1, <2>3 DEF Then
  <2>5. Good(3, k, R, K)
      BY <1>5, <1>10, <2>2, <2>3, MakeLeaf
  <2>6. page_alloc(j) \in Page /\ k.pt = Upd(j.pt, t, i, page_alloc(j))
      BY <1>5, <1>10, <2>3, CreateStep
  <2>7. PICK p \in Ptr : p = page_alloc(j)
      BY <2>6 DEF Ptr
  <2>8. k.pt = Upd(j.pt, t, va[3], p)
      BY <1>2, <2>6, <2>7
  <2>9. LeafDone(K, j, k, root, va, p)
      BY <1>5, <1>6, <2>1, <2>5, <2>8, LeafSet
  <2>10. Ext(K, j, K, k, root, {va})
      BY <2>9 DEF LeafDone
  <2>11. Ext(L, m, K, k, root, {va})
      BY <1>5, <2>10, ExtTrans
  <2>12. PlainCall(m, R, L, k, K, root, va)
      BY <2>5, <2>11 DEF PlainCall
  <2> QED BY <2>4, <2>12
<1> QED BY <1>5, <1>8, <1>9, <1>10

LEMMA Unmap ==
    ASSUME NEW m, NEW R, NEW L, Good(3, m, R, L),
           NEW root \in Page, L.lev[root] = 3, NEW va \in Va
    PROVE  PlainCall(m, R, L, unmap_page(m, root, va), L, root, va)
<1>1. va[1] \in Vpn /\ va[2] \in Vpn /\ va[3] \in Vpn /\ NoPage \notin Page /\ NoPage \in Ptr
    BY PageAssumption DEF Va, Ptr
<1>2. PICK q \in Ptr : q = get_pa(m, root, va)
    BY Walk
<1>3. CASE q = NoPage
  <2>1. unmap_page(m, root, va) = m
      BY <1>2, <1>3 DEF unmap_page
  <2> QED BY <2>1, ExtRefl DEF PlainCall
<1>4. CASE q # NoPage
  <2>1. q \in Page
      BY <1>4 DEF Ptr
  <2>2. PICK t \in Page : t = L0(m, root, va)
      BY <1>2, <2>1, Walk
  <2>3. PICK i \in Vpn : i = va[3]
      BY <1>1
  <2>4. L.lev[t] = 1 /\ q = m.pt[t][i]
      BY <1>2, <2>2, <2>3, Walk
  <2>5. PICK k : k = Clear(m, t, i)
      OBVIOUS
  <2>6. unmap_page(m, root, va) = k
      BY <1>2, <1>4, <2>2, <2>3, <2>4, <2>5 DEF unmap_page, Clear
  <2>7. Good(3, k, R, L)
      BY <2>1, <2>4, <2>5, ClearLeaf
  <2>8. m \in Mem
      BY GoodTypes
  <2>9. k.pt = Upd(m.pt, t, i, NoPage)
      BY <2>1, <2>4, <2>5, <2>8, ClearFields
  <2>10. LeafDone(L, m, k, root, va, NoPage)
      BY <1>1, <2>2, <2>3, <2>7, <2>9, LeafSet
  <2> QED BY <2>6, <2>7, <2>10 DEF PlainCall, LeafDone
<1> QED BY <1>3, <1>4

-----------------------------------------------------------------------------
(* Directories come and go. *)

InTree(L, root, x) ==
    \/ x = root
    \/ L.lev[x] = 2 /\ L.par[x] = root
    \/ L.lev[x] = 1 /\ L.par[L.par[x]] = root

LEMMA TreeIs ==
    ASSUME NEW m, NEW R, NEW L, Good(3, m, R, L), NEW root \in Page, L.lev[root] = 3
    PROVE  /\ TreeTables(m, root) \subseteq Page
           /\ \A x \in Page : x \in TreeTables(m, root) <=> InTree(L, root, x)
<1>1. /\ m.pt \in [Page -> [Vpn -> Ptr]] /\ NoPage \notin Page
      /\ \A x \in Page : L.lev[x] \in Nat /\ L.par[x] \in Page /\ L.idx[x] \in Vpn
    BY GoodTypes, PageAssumption
<1>2. \A x \in Page, i \in Vpn : m.pt[x][i] \in Ptr /\ (m.pt[x][i] # NoPage => m.pt[x][i] \in Page)
    BY <1>1 DEF Ptr
<1>3. PICK A : A = {m.pt[root][i] : i \in Vpn} \ {NoPage}
    OBVIOUS
<1> DEFINE B == {m.pt[t][i] : t \in A, i \in Vpn} \ {NoPage}
<1>4. B = {m.pt[t][i] : t \in A, i \in Vpn} \ {NoPage}
    OBVIOUS
<1>5. TreeTables(m, root) = {root} \cup A \cup B
    BY <1>3 DEF TreeTables
<1> HIDE DEF B
<1>6. A \subseteq Page /\ \A x \in Page : x \in A <=> L.lev[x] = 2 /\ L.par[x] = root
  <2>1. ASSUME NEW x \in A PROVE x \in Page /\ L.lev[x] = 2 /\ L.par[x] = root
    <3>1. PICK i \in Vpn : x = m.pt[root][i] /\ x # NoPage
        BY <1>3
    <3>2. x \in Page
        BY <1>2, <3>1
    <3> QED BY <3>1, <3>2 DEF Good, Shape, ShChild
  <2>2. ASSUME NEW x \in Page, L.lev[x] = 2, L.par[x] = root PROVE x \in A
    <3>1. m.pt[root][L.idx[x]] = x
        BY <2>2 DEF Good, Shape, ShParent
    <3> QED BY <1>1, <1>3, <3>1
  <2> QED BY <2>1, <2>2
<1>7. B \subseteq Page /\ \A x \in Page : x \in B <=> L.lev[x] = 1 /\ L.par[L.par[x]] = root
  <2>1. ASSUME NEW x \in B PROVE x \in Page /\ L.lev[x] = 1 /\ L.par[L.par[x]] = root
    <3>1. PICK t \in A, i \in Vpn : x = m.pt[t][i] /\ x # NoPage
        BY <1>4
    <3>2. t \in Page /\ L.lev[t] = 2 /\ L.par[t] = root
        BY <1>6
    <3>3. x \in Page
        BY <1>2, <3>1, <3>2
    <3>4. L.lev[x] = 1 /\ L.par[x] = t
        BY <3>1, <3>2, <3>3 DEF Good, Shape, ShChild
    <3> QED BY <3>2, <3>3, <3>4
  <2>2. ASSUME NEW x \in Page, L.lev[x] = 1, L.par[L.par[x]] = root PROVE x \in B
    <3>1. PICK t \in Page : t = L.par[x]
        BY <1>1
    <3>2. L.lev[t] = 2 /\ m.pt[t][L.idx[x]] = x
        BY <2>2, <3>1 DEF Good, Shape, ShParent
    <3>3. t \in A
        BY <1>6, <2>2, <3>1, <3>2
    <3> QED BY <1>1, <1>4, <3>2, <3>3
  <2> QED BY <2>1, <2>2
<1> QED BY <1>5, <1>6, <1>7 DEF InTree

LEMMA TreeIsTree ==
    ASSUME NEW m, NEW R, NEW L, Good(3, m, R, L), NEW root \in Page, L.lev[root] = 3,
           NEW T, T = TreeTables(m, root)
    PROVE  IsTree(3, L, root, T)
<1>1. \A x \in Page : L.lev[x] \in Nat /\ L.par[x] \in Page /\ L.lev[x] <= 3
    BY GoodTypes
<1>2. T \subseteq Page /\ \A x \in Page : x \in T <=> InTree(L, root, x)
    BY TreeIs
<1>3. root \in T
    BY <1>2 DEF InTree
<1>4. \A x \in T : 0 < L.lev[x] /\ (L.lev[x] = 3 => x = root)
    BY <1>1, <1>2 DEF InTree
<1>5. ASSUME NEW x \in Page, 0 < L.lev[x], L.lev[x] < 3
      PROVE  x \in T <=> L.par[x] \in T
  <2>1. L.lev[L.par[x]] = L.lev[x] + 1 /\ L.par[x] \in Page
      BY <1>1, <1>5 DEF Good, Shape, ShParent
  <2>2. x # root
      BY <1>5
  <2>3. CASE L.lev[x] = 2
    <3>1. L.lev[L.par[x]] = 3
        BY <2>1, <2>3
    <3>2. L.par[x] \in T <=> L.par[x] = root
        BY <1>2, <1>3, <1>4, <2>1, <3>1
    <3> QED BY <1>2, <2>2, <2>3, <3>2 DEF InTree
  <2>4. CASE L.lev[x] = 1
    <3>1. L.lev[L.par[x]] = 2 /\ L.par[x] # root
        BY <2>1, <2>4
    <3> QED BY <1>2, <2>1, <2>2, <2>4, <3>1 DEF InTree
  <2>5. L.lev[x] = 1 \/ L.lev[x] = 2
      BY <1>1, <1>5
  <2> QED BY <2>3, <2>4, <2>5
<1> QED BY <1>2, <1>3, <1>4, <1>5 DEF IsTree
LEMMA DestroyIs ==
    ASSUME NEW m, NEW root
    PROVE  destroy_pgdir(m, root) = Destroy(m, root, TreeTables(m, root))
BY DEF destroy_pgdir, Destroy, Gone, Within

SetupDone(m, R, L, k, K, e, p) ==
    /\ p \in m.free /\ p \in Page
    /\ alloc_pgdir(m).pt = m.pt
    /\ Good(3, alloc_pgdir(m), Dir(R, e, p), RootLabel(3, L, p))
    /\ Good(3, k, Dir(R, e, p), K)
    /\ Ext(RootLabel(3, L, p), alloc_pgdir(m), K, k, p, {<<PPT, PPT, PPT>>})

LEMMA Setup ==
    ASSUME NEW m, NEW R, NEW L, Good(3, m, R, L), m.ok = TRUE, m.free # {},
           NEW e \in Env, R[e] = NoPage, NEW p, p = page_alloc(m)
    PROVE  \E K : SetupDone(m, R, L, SelfMap(alloc_pgdir(m), p, <<PPT, PPT, PPT>>, p), K, e, p)
<1>1. p \in m.free
    BY PageAlloc
<1>2. p \in Page /\ m.pt[p] = Blank /\ m \in Mem /\ m.ref[p] = 0
    BY <1>1, FreeBlank, GoodTypes
<1>3. PICK j : j = alloc_pgdir(m)
    OBVIOUS
<1>4. PICK J : J = RootLabel(3, L, p)
    OBVIOUS
<1>5. PICK S : S = Dir(R, e, p)
    OBVIOUS
<1>6. Good(3, j, S, J)
    BY <1>3, <1>4, <1>5, NewRoot
<1>7. /\ j.pt = m.pt /\ j.ref = [m.ref EXCEPT ![p] = (m.ref[p] + 1) % RefMod]
      /\ j.free = m.free \ {p} /\ j.ok = TRUE
    BY <1>2, <1>3, AllocFields
<1>8. J.lev[p] = 3
  <2>1. L \in Label
      BY GoodTypes
  <2> QED BY <1>2, <1>4, <2>1, RootLabelFacts
<1>9. j.ref[p] + 1 < RefMod
  <2>1. m.ref \in [Page -> 0 .. RefMod - 1]
      BY <1>2 DEF Mem
  <2>2. j.ref[p] = (0 + 1) % RefMod
      BY <1>2, <1>7, <2>1
  <2> QED BY <2>2, RefAssumption
<1>10. p \notin j.free
    BY <1>7
<1>11. PICK w \in Va : w = <<PPT, PPT, PPT>>
    BY PageAssumption DEF Va
<1>12. w[1] = PPT
    BY <1>11
<1>13. PICK K : SelfDone(j, S, J, SelfMap(j, p, w, p), K, p, w, p)
    BY <1>2, <1>6, <1>7, <1>8, <1>9, <1>10, <1>12, SelfMapLemma
<1>14. SetupDone(m, R, L, SelfMap(j, p, w, p), K, e, p)
    BY <1>1, <1>2, <1>3, <1>4, <1>5, <1>6, <1>7, <1>11, <1>13 DEF SetupDone, SelfDone
<1> QED BY <1>3, <1>11, <1>14

FreeDone(m, R, L, k, K, e) ==
    /\ Good(3, k, Dir(R, e, NoPage), K)
    /\ \A f \in Env, va \in Va : f # e /\ R[f] \in Page =>
          /\ L0(k, R[f], va) = L0(m, R[f], va)
          /\ get_pa(k, R[f], va) = get_pa(m, R[f], va)

LEMMA Free ==
    ASSUME NEW m, NEW R, NEW L, Good(3, m, R, L), NEW e \in Env, R[e] \in Page
    PROVE  \E K : FreeDone(m, R, L, destroy_pgdir(m, R[e]), K, e)
<1>1. PICK root \in Page : root = R[e]
    OBVIOUS
<1>2. L.lev[root] = 3
    BY <1>1 DEF Good, Shape, ShRoots
<1>3. PICK T : T = TreeTables(m, root)
    OBVIOUS
<1>4. IsTree(3, L, root, T)
    BY <1>2, <1>3, TreeIsTree
<1>5. PICK k : k = destroy_pgdir(m, root)
    OBVIOUS
<1>6. k = Destroy(m, root, T)
    BY <1>3, <1>5, DestroyIs
<1>7. /\ Good(3, k, Dir(R, e, NoPage), BareLabel(L, T))
      /\ k.pt = [t \in Page |-> IF t \in T THEN Blank ELSE m.pt[t]]
    BY <1>1, <1>4, <1>6, DestroyGood
<1>8. \A t \in Page : t \notin T => k.pt[t] = m.pt[t]
    BY <1>7
<1>9. ASSUME NEW f \in Env, NEW va \in Va, f # e, R[f] \in Page
      PROVE  /\ L0(k, R[f], va) = L0(m, R[f], va)
             /\ get_pa(k, R[f], va) = get_pa(m, R[f], va)
  <2>1. PICK r \in Page : r = R[f]
      BY <1>9
  <2>2. L.lev[r] = 3 /\ r # root
      BY <1>1, <1>9, <2>1 DEF Good, Shape, ShRoots
  <2>3. r \notin T
      BY <1>4, <2>2 DEF IsTree
  <2>4. NoPage \notin Page
      BY PageAssumption
  <2>5. PICK a \in Ptr : a = L1(m, r, va)
      BY <2>2, Walk
  <2>6. L1(k, r, va) = a
      BY <1>8, <2>3, <2>5 DEF L1, Entry
  <2>7. a \in Page => a \notin T
    <3>1. a \in Page => L.lev[a] = 2 /\ L.par[a] = r
        BY <2>2, <2>5, Walk
    <3> QED BY <1>4, <2>3, <3>1 DEF IsTree
  <2>8. PICK b \in Ptr : b = L0(m, r, va)
      BY <2>2, Walk
  <2>9. L0(k, r, va) = b
    <3>1. b = IF a = NoPage THEN NoPage ELSE m.pt[a][va[2]]
        BY <2>5, <2>8 DEF L0, Entry
    <3>2. L0(k, r, va) = IF a = NoPage THEN NoPage ELSE k.pt[a][va[2]]
        BY <2>6 DEF L0, Entry
    <3> QED BY <1>8, <2>7, <3>1, <3>2 DEF Ptr
  <2>10. b \in Page => b \notin T
    <3>1. b \in Page => a \in Page /\ L.lev[b] = 1 /\ L.par[b] = a
        BY <2>2, <2>5, <2>8, Walk
    <3> QED BY <1>4, <2>7, <3>1 DEF IsTree
  <2>11. get_pa(k, r, va) = get_pa(m, r, va)
    <3>1. get_pa(m, r, va) = IF b = NoPage THEN NoPage ELSE m.pt[b][va[3]]
        BY <2>8 DEF get_pa, Entry
    <3>2. get_pa(k, r, va) = IF b = NoPage THEN NoPage ELSE k.pt[b][va[3]]
        BY <2>9 DEF get_pa, Entry
    <3> QED BY <1>8, <2>10, <3>1, <3>2 DEF Ptr
  <2> QED BY <2>1, <2>8, <2>9, <2>11
<1>10. FreeDone(m, R, L, k, BareLabel(L, T), e)
    BY <1>7, <1>9 DEF FreeDone
<1> QED BY <1>1, <1>5, <1>10

-----------------------------------------------------------------------------
(* The window over the steps. *)

WindowOk(m, R) == \A e \in Env, va \in UserVa : R[e] \in Page => Shown(m, R[e], va)

LEMMA UserVaIs == ASSUME NEW va \in UserVa PROVE va \in Va /\ va[1] # PPT
BY IndexAssumption DEF Va

LEMMA WindowVaIs == ASSUME NEW va \in WindowVa PROVE va \in Va /\ va[1] = PPT
BY IndexAssumption, PageAssumption DEF Va

LEMMA RootLev ==
    ASSUME NEW m, NEW R, NEW L, Good(3, m, R, L), NEW e \in Env, R[e] \in Page
    PROVE  L.lev[R[e]] = 3
BY DEF Good, Shape, ShRoots

(* L0 is the same for two addresses of one table. *)
LEMMA ShownAlike ==
    ASSUME NEW m, NEW root, NEW va, NEW vb, va[1] = vb[1], va[2] = vb[2]
    PROVE  Shown(m, root, va) <=> Shown(m, root, vb)
BY DEF Shown, L0, L1, Entry

LEMMA WindowUser ==
    ASSUME NEW m, NEW R, NEW L, Good(3, m, R, L), NEW e \in Env, R[e] \in Page,
           NEW va \in UserVa, NEW k, NEW K, UserCall(m, R, L, k, K, R[e], va),
           WindowOk(m, R), k.free # {}
    PROVE  WindowOk(k, R)
<1>1. PICK root \in Page : root = R[e]
    OBVIOUS
<1>2. L.lev[root] = 3 /\ va \in Va /\ va[1] # PPT
    BY <1>1, RootLev, UserVaIs
<1>3. Good(3, k, R, K) /\ Ext(L, m, K, k, root, Paths(va))
    BY <1>1 DEF UserCall
<1>4. ASSUME NEW f \in Env, NEW vb \in UserVa, R[f] \in Page
      PROVE  Shown(k, R[f], vb)
  <2>1. PICK other \in Page : other = R[f]
      BY <1>4
  <2>2. L.lev[other] = 3 /\ vb \in Va /\ vb[1] # PPT
      BY <2>1, RootLev, UserVaIs
  <2>3. Shown(m, other, vb)
      BY <1>4, <2>1 DEF WindowOk
  <2>4. Paths(va) \subseteq Va
      BY <1>2, PathsVa
  <2>5. CASE other # root
    <3>1. other # root \/ /\ L0(k, other, vb) = L0(m, other, vb)
                          /\ L0(m, other, vb) # NoPage => <<PPT, vb[1], vb[2]>> \notin Paths(va)
        BY <2>5
    <3>2. Shown(k, other, vb)
        BY <1>2, <1>3, <2>2, <2>3, <2>4, <3>1, ShownKept
    <3> QED BY <2>1, <3>2
  <2>6. CASE other = root /\ ~(va[1] = vb[1] /\ va[2] = vb[2])
    <3>1. \A w \in Paths(va) : ~(w[1] = vb[1] /\ w[2] = vb[2])
        BY <2>2, <2>6 DEF Paths
    <3>2. L0(k, other, vb) = L0(m, other, vb)
        BY <1>2, <1>3, <2>2, <3>1, L0Kept
    <3>3. <<PPT, vb[1], vb[2]>> \notin Paths(va)
      <4>1. <<PPT, vb[1], vb[2]>> # va
          BY <1>2
      <4>2. <<PPT, vb[1], vb[2]>> # <<PPT, PPT, va[1]>>
          BY <2>2
      <4>3. <<PPT, vb[1], vb[2]>> # <<PPT, va[1], va[2]>>
          BY <2>6
      <4> QED BY <4>1, <4>2, <4>3 DEF Paths
    <3>4. other # root \/ /\ L0(k, other, vb) = L0(m, other, vb)
                          /\ L0(m, other, vb) # NoPage => <<PPT, vb[1], vb[2]>> \notin Paths(va)
        BY <3>2, <3>3
    <3> QED BY <1>2, <1>3, <2>1, <2>2, <2>3, <2>4, <3>4, ShownKept
  <2>7. CASE other = root /\ va[1] = vb[1] /\ va[2] = vb[2]
    <3>1. Shown(m, root, va)
        BY <2>3, <2>7, ShownAlike
    <3>2. Shown(k, root, va)
        BY <1>1, <1>2, <3>1 DEF UserCall
    <3>3. Shown(k, root, vb)
        BY <2>7, <3>2, ShownAlike
    <3> QED BY <2>1, <2>7, <3>3
  <2> QED BY <2>1, <2>5, <2>6, <2>7
<1> QED BY <1>4 DEF WindowOk

LEMMA WindowFault ==
    ASSUME NEW m, NEW R, NEW L, Good(3, m, R, L), NEW e \in Env, R[e] \in Page,
           NEW va \in WindowVa, get_pa(m, R[e], va) = NoPage,
           NEW k, NEW K, UserCall(m, R, L, k, K, R[e], va), WindowOk(m, R)
    PROVE  WindowOk(k, R)
<1>1. PICK root \in Page : root = R[e]
    OBVIOUS
<1>2. L.lev[root] = 3 /\ va \in Va /\ va[1] = PPT
    BY <1>1, RootLev, WindowVaIs
<1>3. Good(3, k, R, K) /\ Ext(L, m, K, k, root, Paths(va))
    BY <1>1 DEF UserCall
<1>4. ASSUME NEW f \in Env, NEW vb \in UserVa, R[f] \in Page
      PROVE  Shown(k, R[f], vb)
  <2>1. PICK other \in Page : other = R[f]
      BY <1>4
  <2>2. L.lev[other] = 3 /\ vb \in Va /\ vb[1] # PPT
      BY <2>1, RootLev, UserVaIs
  <2>3. Shown(m, other, vb)
      BY <1>4, <2>1 DEF WindowOk
  <2>4. Paths(va) \subseteq Va
      BY <1>2, PathsVa
  <2>5. \A w \in Paths(va) : ~(w[1] = vb[1] /\ w[2] = vb[2])
      BY <1>2, <2>2 DEF Paths
  <2>6. L0(k, other, vb) = L0(m, other, vb)
      BY <1>2, <1>3, <2>2, <2>5, L0Kept
  <2>7. other # root \/ (L0(m, other, vb) # NoPage => <<PPT, vb[1], vb[2]>> \notin Paths(va))
    <3>1. SUFFICES ASSUME other = root, L0(m, other, vb) # NoPage
                   PROVE  <<PPT, vb[1], vb[2]>> \notin Paths(va)
        OBVIOUS
    <3>2. get_pa(m, root, <<PPT, vb[1], vb[2]>>) # NoPage
        BY <2>3, <3>1 DEF Shown
    <3>3. <<PPT, vb[1], vb[2]>> # va
        BY <1>1, <3>2
    <3>4. /\ <<PPT, vb[1], vb[2]>> # <<PPT, PPT, va[1]>>
          /\ <<PPT, vb[1], vb[2]>> # <<PPT, va[1], va[2]>>
        BY <1>2, <2>2
    <3> QED BY <3>3, <3>4 DEF Paths
  <2>8. Shown(k, other, vb)
      BY <1>2, <1>3, <2>2, <2>3, <2>4, <2>6, <2>7, ShownKept
  <2> QED BY <2>1, <2>8
<1> QED BY <1>4 DEF WindowOk

LEMMA WindowPlain ==
    ASSUME NEW m, NEW R, NEW L, Good(3, m, R, L), NEW e \in Env, R[e] \in Page,
           NEW va \in UserVa, L0(m, R[e], va) # NoPage,
           NEW k, NEW K, PlainCall(m, R, L, k, K, R[e], va), WindowOk(m, R)
    PROVE  WindowOk(k, R)
<1>1. PICK root \in Page : root = R[e]
    OBVIOUS
<1>2. L.lev[root] = 3 /\ va \in Va /\ va[1] # PPT
    BY <1>1, RootLev, UserVaIs
<1>3. Good(3, k, R, K) /\ Ext(L, m, K, k, root, {va})
    BY <1>1 DEF PlainCall
<1>4. ASSUME NEW f \in Env, NEW vb \in UserVa, R[f] \in Page
      PROVE  Shown(k, R[f], vb)
  <2>1. PICK other \in Page : other = R[f]
      BY <1>4
  <2>2. L.lev[other] = 3 /\ vb \in Va /\ vb[1] # PPT
      BY <2>1, RootLev, UserVaIs
  <2>3. Shown(m, other, vb)
      BY <1>4, <2>1 DEF WindowOk
  <2>4. {va} \subseteq Va /\ <<PPT, vb[1], vb[2]>> \notin {va}
      BY <1>2
  <2>5. L0(k, other, vb) = L0(m, other, vb) \/ other # root
    <3>1. CASE L0(m, other, vb) # NoPage
        BY <1>2, <1>3, <2>2, <3>1, L0Stays
    <3>2. CASE L0(m, other, vb) = NoPage /\ other = root
      <4>1. ~(va[1] = vb[1] /\ va[2] = vb[2])
          BY <1>1, <3>2 DEF L0, L1, Entry
      <4>2. \A w \in {va} : ~(w[1] = vb[1] /\ w[2] = vb[2])
          BY <4>1
      <4> QED BY <1>2, <1>3, <2>2, <4>2, L0Kept
    <3> QED BY <3>1, <3>2
  <2>6. PICK W : W = {va}
      OBVIOUS
  <2>7. Ext(L, m, K, k, root, W) /\ W \subseteq Va
      BY <1>3, <2>4, <2>6
  <2>8. other # root \/ /\ L0(k, other, vb) = L0(m, other, vb)
                        /\ L0(m, other, vb) # NoPage => <<PPT, vb[1], vb[2]>> \notin W
      BY <2>4, <2>5, <2>6
  <2>9. Shown(k, other, vb)
      BY <1>2, <1>3, <2>2, <2>3, <2>7, <2>8, ShownKept
  <2> QED BY <2>1, <2>9
<1> QED BY <1>4 DEF WindowOk
LEMMA WindowSetup ==
    ASSUME NEW m, NEW R, NEW L, Good(3, m, R, L), NEW e \in Env, R[e] = NoPage,
           NEW p, NEW k, NEW K, SetupDone(m, R, L, k, K, e, p), WindowOk(m, R)
    PROVE  WindowOk(k, Dir(R, e, p))
<1>1. p \in Page /\ p \in m.free
    BY DEF SetupDone
<1>2. PICK j : j = alloc_pgdir(m)
    OBVIOUS
<1>3. PICK J : J = RootLabel(3, L, p)
    OBVIOUS
<1>4. PICK S : S = Dir(R, e, p)
    OBVIOUS
<1>5. PICK w \in Va : w = <<PPT, PPT, PPT>>
    BY PageAssumption DEF Va
<1>6. PICK W : W = {w}
    OBVIOUS
<1>7. j.pt = m.pt /\ Good(3, j, S, J) /\ Good(3, k, S, K) /\ Ext(J, j, K, k, p, W)
    BY <1>2, <1>3, <1>4, <1>5, <1>6 DEF SetupDone
<1>8. R \in [Env -> Ptr]
    BY GoodTypes
<1>9. S[e] = p /\ \A f \in Env : f # e => S[f] = R[f]
    BY <1>4, <1>8 DEF Dir
<1>10. J.lev[p] = 3
    BY <1>1, <1>7, <1>9 DEF Good, Shape, ShRoots
<1>11. ASSUME NEW f \in Env, NEW va \in UserVa, S[f] \in Page
       PROVE  Shown(k, S[f], va)
  <2>1. va \in Va /\ va[1] # PPT
      BY UserVaIs
  <2>2. \A x \in W : ~(x[1] = va[1] /\ x[2] = va[2])
      BY <1>5, <1>6, <2>1
  <2>3. CASE f = e
    <3>1. m.pt[p] = Blank
        BY <1>1, FreeBlank
    <3>2. L0(j, p, va) = NoPage
      <4>1. j.pt[p][va[1]] = NoPage
          BY <1>7, <2>1, <3>1 DEF Blank, Va
      <4> QED BY <4>1 DEF L0, L1, Entry
    <3>3. L0(k, p, va) = NoPage
        BY <1>1, <1>7, <1>10, <2>1, <2>2, <3>2, L0Kept
    <3> QED BY <1>9, <2>3, <3>3 DEF Shown
  <2>4. CASE f # e
    <3>1. PICK other \in Page : other = R[f]
        BY <1>9, <1>11, <2>4
    <3>2. other # p
        BY <1>1, <3>1, FreeBlank
    <3>3. J.lev[other] = 3
        BY <1>7, <1>9, <2>4, <3>1 DEF Good, Shape, ShRoots
    <3>4. Shown(m, other, va)
        BY <3>1 DEF WindowOk
    <3>5. Shown(j, other, va)
        BY <1>7, <3>4 DEF Shown, get_pa, L0, L1, Entry
    <3>6. W \subseteq Va
        BY <1>6
    <3>7. other # p \/ /\ L0(k, other, va) = L0(j, other, va)
                       /\ L0(j, other, va) # NoPage => <<PPT, va[1], va[2]>> \notin W
        BY <3>2
    <3>8. Shown(k, other, va)
        BY <1>1, <1>7, <1>10, <2>1, <3>3, <3>5, <3>6, <3>7, ShownKept
    <3> QED BY <1>9, <2>4, <3>1, <3>8
  <2> QED BY <2>3, <2>4
<1> QED BY <1>4, <1>11 DEF WindowOk

LEMMA WindowFree ==
    ASSUME NEW m, NEW R, NEW L, Good(3, m, R, L), NEW e \in Env, R[e] \in Page,
           NEW k, NEW K, FreeDone(m, R, L, k, K, e), WindowOk(m, R)
    PROVE  WindowOk(k, Dir(R, e, NoPage))
<1>1. PICK S : S = Dir(R, e, NoPage)
    OBVIOUS
<1>2. R \in [Env -> Ptr] /\ NoPage \notin Page
    BY GoodTypes, PageAssumption
<1>3. S[e] = NoPage /\ \A f \in Env : f # e => S[f] = R[f]
    BY <1>1, <1>2 DEF Dir
<1>4. ASSUME NEW f \in Env, NEW va \in UserVa, S[f] \in Page
      PROVE  Shown(k, S[f], va)
  <2>1. f # e /\ S[f] = R[f] /\ R[f] \in Page
      BY <1>2, <1>3, <1>4
  <2>2. PICK w \in Va : w = <<PPT, va[1], va[2]>>
      BY UserVaIs, PathsVa
  <2>3. va \in Va
      BY UserVaIs
  <2>4. /\ L0(k, R[f], va) = L0(m, R[f], va)
        /\ get_pa(k, R[f], w) = get_pa(m, R[f], w)
      BY <2>1, <2>3 DEF FreeDone
  <2>5. Shown(m, R[f], va)
      BY <2>1 DEF WindowOk
  <2> QED BY <2>1, <2>2, <2>4, <2>5 DEF Shown
<1> QED BY <1>1, <1>4 DEF WindowOk

-----------------------------------------------------------------------------
(* The inductive invariant, for a memory m, directories R and the history  *)
(* variable g.                                                             *)
PInv(m, R, g) ==
    /\ g \in BOOLEAN
    /\ \E L : Good(3, m, R, L)
    /\ g \/ WindowOk(m, R)

(* No page has as many pointers as a u_short has values. *)
NoWrap == \A p \in Page : Pointers(p) < RefMod

LEMMA AfterUser ==
    ASSUME NEW m, NEW R, NEW L, Good(3, m, R, L), NEW g \in BOOLEAN, g \/ WindowOk(m, R),
           NEW e \in Env, R[e] \in Page, NEW va \in UserVa,
           NEW k, \E K : UserCall(m, R, L, k, K, R[e], va), NEW h, h = (g \/ k.free = {})
    PROVE  PInv(k, R, h)
<1>1. PICK K : UserCall(m, R, L, k, K, R[e], va)
    OBVIOUS
<1>2. \E J : Good(3, k, R, J)
    BY <1>1 DEF UserCall
<1>3. h \in BOOLEAN
    OBVIOUS
<1>4. h \/ WindowOk(k, R)
    BY <1>1, WindowUser
<1> QED BY <1>2, <1>3, <1>4 DEF PInv

LEMMA AfterFault ==
    ASSUME NEW m, NEW R, NEW L, Good(3, m, R, L), NEW g \in BOOLEAN, g \/ WindowOk(m, R),
           NEW e \in Env, R[e] \in Page, NEW va \in WindowVa, get_pa(m, R[e], va) = NoPage,
           NEW k, \E K : UserCall(m, R, L, k, K, R[e], va), NEW h, h = (g \/ k.free = {})
    PROVE  PInv(k, R, h)
<1>1. PICK K : UserCall(m, R, L, k, K, R[e], va)
    OBVIOUS
<1>2. \E J : Good(3, k, R, J)
    BY <1>1 DEF UserCall
<1>3. h \in BOOLEAN
    OBVIOUS
<1>4. h \/ WindowOk(k, R)
    BY <1>1, WindowFault
<1> QED BY <1>2, <1>3, <1>4 DEF PInv

(* The memory that a call starts from. *)
LEMMA FreshIs ==
    ASSUME NEW L, Good(3, mem, pgdir, L)
    PROVE  /\ Good(3, Fresh, pgdir, L)
           /\ Fresh.pt = mem.pt /\ Fresh.ref = mem.ref /\ Fresh.free = mem.free /\ Fresh.ok = TRUE
BY FailedGood DEF Fresh

LEMMA WindowPt ==
    ASSUME NEW m, NEW k, k.pt = m.pt, NEW R, WindowOk(m, R)
    PROVE  WindowOk(k, R)
<1>1. ASSUME NEW root, NEW va, Shown(m, root, va) PROVE Shown(k, root, va)
    BY <1>1, PaOfPt DEF Shown
<1> QED BY <1>1 DEF WindowOk
(* What every action on the directory of a live environment starts from. *)
Live(L, e) ==
    /\ Good(3, Fresh, pgdir, L) /\ Fresh.ok = TRUE
    /\ Fresh.pt = mem.pt /\ Fresh.ref = mem.ref /\ Fresh.free = mem.free
    /\ gap \in BOOLEAN /\ (gap \/ WindowOk(Fresh, pgdir))
    /\ pgdir[e] \in Page /\ L.lev[pgdir[e]] = 3

LEMMA LiveIs ==
    ASSUME PInv(mem, pgdir, gap), NEW e \in Alive
    PROVE  e \in Env /\ \E L : Live(L, e)
<1>1. PICK L : Good(3, mem, pgdir, L)
    BY DEF PInv
<1>2. /\ Good(3, Fresh, pgdir, L)
      /\ Fresh.pt = mem.pt /\ Fresh.ref = mem.ref /\ Fresh.free = mem.free /\ Fresh.ok = TRUE
    BY <1>1, FreshIs
<1>3. gap \in BOOLEAN /\ (gap \/ WindowOk(Fresh, pgdir))
    BY <1>2, WindowPt DEF PInv
<1>4. e \in Env /\ pgdir[e] \in Page
    BY <1>1, GoodTypes DEF Alive, Ptr
<1>5. L.lev[pgdir[e]] = 3
    BY <1>2, <1>4, RootLev
<1> QED BY <1>2, <1>3, <1>4, <1>5 DEF Live

LEMMA DoSetup ==
    ASSUME PInv(mem, pgdir, gap), NEW e \in Env, env_setup_vm(e)
    PROVE  PInv(mem', pgdir', gap')
<1>1. CASE mem.free = {}
    BY <1>1 DEF env_setup_vm
<1>2. CASE mem.free # {}
  <2>1. PICK L : Good(3, mem, pgdir, L)
      BY DEF PInv
  <2>2. PICK m : m = Fresh
      OBVIOUS
  <2>3. /\ Good(3, m, pgdir, L)
        /\ m.pt = mem.pt /\ m.free = mem.free /\ m.ok = TRUE
      BY <2>1, <2>2, FreshIs
  <2>4. PICK p : p = page_alloc(m)
      OBVIOUS
  <2>5. p = page_alloc(mem)
      BY <2>3, <2>4 DEF page_alloc
  <2>6. PICK k : k = SelfMap(alloc_pgdir(m), p, <<PPT, PPT, PPT>>, p)
      OBVIOUS
  <2>7. mem' = k /\ gap' = (gap \/ k.free = {}) /\ pgdir' = Dir(pgdir, e, p)
      BY <1>2, <2>2, <2>5, <2>6 DEF env_setup_vm, Leaves, Dir
  <2>8. pgdir[e] = NoPage
      BY DEF env_setup_vm, Alive
  <2>9. PICK K : SetupDone(m, pgdir, L, k, K, e, p)
      BY <1>2, <2>3, <2>4, <2>6, <2>8, Setup
  <2>10. \E J : Good(3, mem', pgdir', J)
      BY <2>7, <2>9 DEF SetupDone
  <2>11. gap \in BOOLEAN /\ (gap \/ WindowOk(m, pgdir))
      BY <2>3, WindowPt DEF PInv
  <2>12. gap \/ WindowOk(k, Dir(pgdir, e, p))
      BY <2>3, <2>8, <2>9, <2>11, WindowSetup
  <2> QED BY <2>7, <2>10, <2>11, <2>12 DEF PInv
<1> QED BY <1>1, <1>2

LEMMA DoFree ==
    ASSUME PInv(mem, pgdir, gap), NEW e \in Env, env_free(e)
    PROVE  PInv(mem', pgdir', gap')
<1>1. PICK L : Live(L, e)
    BY LiveIs DEF env_free
<1>2. PICK k : k = destroy_pgdir(Fresh, pgdir[e])
    OBVIOUS
<1>3. mem' = k /\ gap' = (gap \/ k.free = {}) /\ pgdir' = Dir(pgdir, e, NoPage)
    BY <1>2 DEF env_free, Leaves, Dir
<1>4. PICK K : FreeDone(Fresh, pgdir, L, k, K, e)
    BY <1>1, <1>2, Free DEF Live
<1>5. \E J : Good(3, mem', pgdir', J)
    BY <1>3, <1>4 DEF FreeDone
<1>6. gap \/ WindowOk(k, Dir(pgdir, e, NoPage))
    BY <1>1, <1>4, WindowFree DEF Live
<1>7. gap \in BOOLEAN
    BY DEF PInv
<1> QED BY <1>3, <1>5, <1>6, <1>7 DEF PInv

LEMMA DoAlloc ==
    ASSUME PInv(mem, pgdir, gap), NEW e \in Env, NEW va \in UserVa, sys_mem_alloc(e, va), ~loose'
    PROVE  PInv(mem', pgdir', gap')
<1>1. PICK L : Live(L, e)
    BY LiveIs DEF sys_mem_alloc
<1>2. PICK m : m = Fresh
    OBVIOUS
<1>3. PICK root \in Page : root = pgdir[e]
    BY <1>1 DEF Live
<1>4. PICK k : k = alloc_page_user(m, root, va)
    OBVIOUS
<1>5. mem' = k /\ gap' = (gap \/ k.free = {}) /\ pgdir' = pgdir
    BY <1>2, <1>3, <1>4 DEF sys_mem_alloc, Becomes, Leaves
<1>6. /\ Good(3, m, pgdir, L) /\ m.ok = TRUE /\ L.lev[root] = 3
      /\ m.pt = mem.pt /\ m.ref = mem.ref /\ m.free = mem.free
    BY <1>1, <1>2, <1>3 DEF Live
<1>7. va \in Va /\ va[1] # PPT
    BY UserVaIs
<1>8. get_pa(m, root, va) # NoPage => Drop(m, get_pa(m, root, va)).free # {}
  <2>1. SUFFICES ASSUME get_pa(m, root, va) # NoPage
                 PROVE  Drop(m, get_pa(m, root, va)).free # {}
      OBVIOUS
  <2>2. PICK q \in Page : q = get_pa(m, root, va)
      BY <1>6, <1>7, <2>1, Walk DEF Ptr
  <2>3. m \in Mem
      BY <1>6, GoodTypes
  <2>4. Drop(m, q).free = IF (m.ref[q] - 1) % RefMod = 0 THEN m.free \cup {q} ELSE m.free
      BY <2>3, DropFields
  <2>5. q = get_pa(mem, pgdir[e], va)
      BY <1>3, <1>6, <2>2, PaOfPt
  <2>6. m.free = {} => m.ref[q] = 1
    <3>1. Room(e, va)
        BY DEF sys_mem_alloc
    <3> QED BY <1>6, <2>5, <3>1, PageAssumption DEF Room
  <2>7. (1 - 1) % RefMod = 0
      BY RefAssumption
  <2>8. Drop(m, q).free # {}
      BY <2>4, <2>6, <2>7
  <2> QED BY <2>2, <2>8
<1>9. \E K : UserCall(m, pgdir, L, k, K, pgdir[e], va)
    BY <1>3, <1>4, <1>6, <1>7, <1>8, AllocUser
<1>10. PInv(k, pgdir, gap')
    BY <1>1, <1>2, <1>3, <1>5, <1>6, <1>9, AfterUser DEF Live
<1> QED BY <1>5, <1>10

LEMMA PointersIs == ASSUME NEW p PROVE Pointers(p) = Cnt(mem.pt, pgdir, p)
BY DEF Pointers, Cnt, Into, Own

LEMMA DoMap ==
    ASSUME PInv(mem, pgdir, gap), NEW src \in Env, NEW dst \in Env,
           NEW srcva \in UserVa, NEW dstva \in UserVa,
           sys_mem_map(src, srcva, dst, dstva), NoWrap'
    PROVE  PInv(mem', pgdir', gap')
<1>1. src \in Alive /\ dst \in Alive
    BY DEF sys_mem_map
<1>2. PICK L : Live(L, dst)
    BY <1>1, LiveIs
<1>3. PICK m : m = Fresh
    OBVIOUS
<1>4. /\ Good(3, m, pgdir, L) /\ m.ok = TRUE /\ m.pt = mem.pt
    BY <1>2, <1>3 DEF Live
<1>5. pgdir[src] \in Page /\ pgdir[dst] \in Page
    BY <1>1, <1>4, GoodTypes DEF Alive, Ptr
<1>6. PICK root \in Page : root = pgdir[dst]
    BY <1>5
<1>7. PICK from \in Page : from = pgdir[src]
    BY <1>5
<1>8. L.lev[root] = 3 /\ L.lev[from] = 3
    BY <1>4, <1>6, <1>7, RootLev
<1>9. srcva \in Va /\ srcva[1] # PPT /\ dstva \in Va /\ dstva[1] # PPT
    BY UserVaIs
<1>10. PICK p \in Page : p = get_pa(m, from, srcva)
  <2>1. get_pa(m, from, srcva) = get_pa(mem, pgdir[src], srcva)
      BY <1>4, <1>7, PaOfPt
  <2>2. get_pa(m, from, srcva) # NoPage
      BY <2>1 DEF sys_mem_map, mapped
  <2> QED BY <1>4, <1>8, <1>9, <2>2, Walk DEF Ptr
<1>11. PICK k : k = map_page_user(m, root, dstva, p)
    OBVIOUS
<1>12. mem' = k /\ gap' = (gap \/ k.free = {}) /\ pgdir' = pgdir
  <2>1. p = get_pa(mem, pgdir[src], srcva)
      BY <1>4, <1>7, <1>10, PaOfPt
  <2> QED BY <1>3, <1>6, <1>11, <2>1 DEF sys_mem_map, Becomes, Leaves
<1>13. Cnt(k.pt, pgdir, p) < RefMod
  <2>1. Pointers(p)' < RefMod
      BY DEF NoWrap
  <2>2. Pointers(p)' = Cnt(mem'.pt, pgdir', p)
      BY DEF Pointers, Cnt, Into, Own
  <2> QED BY <1>12, <2>1, <2>2
<1>14. \E K : UserCall(m, pgdir, L, k, K, pgdir[dst], dstva)
    BY <1>4, <1>6, <1>8, <1>9, <1>10, <1>11, <1>13, MapUser
<1>15. PInv(k, pgdir, gap')
    BY <1>2, <1>3, <1>4, <1>5, <1>12, <1>14, AfterUser DEF Live
<1> QED BY <1>12, <1>15
LEMMA DoUnmap ==
    ASSUME PInv(mem, pgdir, gap), NEW e \in Env, NEW va \in UserVa, sys_mem_unmap(e, va)
    PROVE  PInv(mem', pgdir', gap')
<1>1. PICK L : Live(L, e)
    BY LiveIs DEF sys_mem_unmap
<1>2. PICK m : m = Fresh
    OBVIOUS
<1>3. PICK k : k = unmap_page(m, pgdir[e], va)
    OBVIOUS
<1>4. mem' = k /\ gap' = (gap \/ k.free = {}) /\ pgdir' = pgdir
    BY <1>2, <1>3 DEF sys_mem_unmap, Becomes, Leaves
<1>5. /\ Good(3, m, pgdir, L) /\ pgdir[e] \in Page /\ L.lev[pgdir[e]] = 3
      /\ gap \in BOOLEAN /\ (gap \/ WindowOk(m, pgdir)) /\ va \in Va
    BY <1>1, <1>2, UserVaIs DEF Live
<1>6. PlainCall(m, pgdir, L, k, L, pgdir[e], va)
    BY <1>3, <1>5, Unmap
<1>7. gap \/ WindowOk(k, pgdir)
  <2>1. CASE L0(m, pgdir[e], va) = NoPage
    <3>1. k = m
        BY <1>3, <2>1 DEF unmap_page, get_pa, Entry
    <3> QED BY <1>5, <3>1
  <2>2. CASE L0(m, pgdir[e], va) # NoPage
      BY <1>5, <1>6, <2>2, WindowPlain
  <2> QED BY <2>1, <2>2
<1> QED BY <1>4, <1>5, <1>6, <1>7 DEF PInv, PlainCall

LEMMA DoSector ==
    ASSUME PInv(mem, pgdir, gap), NEW e \in Env, NEW va \in UserVa, sys_sector(e, va)
    PROVE  PInv(mem', pgdir', gap')
<1>1. PICK L : Live(L, e)
    BY LiveIs DEF sys_sector
<1>2. PICK m : m = Fresh
    OBVIOUS
<1>3. PICK k : k = alloc_page(m, pgdir[e], va)
    OBVIOUS
<1>4. /\ mem' = k /\ pgdir' = pgdir
      /\ gap' = (gap \/ k.free = {} \/ L0(mem, pgdir[e], va) = NoPage)
    BY <1>2, <1>3 DEF sys_sector
<1>5. /\ Good(3, m, pgdir, L) /\ m.ok = TRUE /\ pgdir[e] \in Page /\ L.lev[pgdir[e]] = 3
      /\ gap \in BOOLEAN /\ (gap \/ WindowOk(m, pgdir)) /\ va \in Va /\ m.pt = mem.pt
    BY <1>1, <1>2, UserVaIs DEF Live
<1>6. get_pa(m, pgdir[e], va) = NoPage /\ L0(m, pgdir[e], va) = L0(mem, pgdir[e], va)
    BY <1>5, PaOfPt DEF sys_sector, mapped
<1>7. PICK K : PlainCall(m, pgdir, L, k, K, pgdir[e], va)
    BY <1>3, <1>5, <1>6, AllocPlain
<1>8. gap \/ L0(mem, pgdir[e], va) = NoPage \/ WindowOk(k, pgdir)
    BY <1>5, <1>6, <1>7, WindowPlain
<1> QED BY <1>4, <1>5, <1>7, <1>8 DEF PInv, PlainCall

LEMMA DoFault ==
    ASSUME PInv(mem, pgdir, gap), NEW e \in Env, NEW va \in WindowVa, fault_alloc(e, va), ~loose'
    PROVE  PInv(mem', pgdir', gap')
<1>1. PICK L : Live(L, e)
    BY LiveIs DEF fault_alloc
<1>2. PICK m : m = Fresh
    OBVIOUS
<1>3. PICK k : k = alloc_page_user(m, pgdir[e], va)
    OBVIOUS
<1>4. mem' = k /\ gap' = (gap \/ k.free = {}) /\ pgdir' = pgdir
    BY <1>2, <1>3 DEF fault_alloc, Becomes, Leaves
<1>5. /\ Good(3, m, pgdir, L) /\ m.ok = TRUE /\ pgdir[e] \in Page /\ L.lev[pgdir[e]] = 3
      /\ gap \in BOOLEAN /\ (gap \/ WindowOk(m, pgdir)) /\ va \in Va /\ m.pt = mem.pt
    BY <1>1, <1>2, WindowVaIs DEF Live
<1>6. get_pa(m, pgdir[e], va) = NoPage /\ L0(m, pgdir[e], va) = L0(mem, pgdir[e], va)
    BY <1>5, PaOfPt DEF fault_alloc, mapped
<1>7. va[1] = PPT /\ va[2] = PPT => L0(m, pgdir[e], va) # NoPage
    BY <1>6 DEF fault_alloc, OwnTables
<1>8. \E K : UserCall(m, pgdir, L, k, K, pgdir[e], va)
    BY <1>3, <1>5, <1>6, <1>7, AllocUser
<1>9. PInv(k, pgdir, gap')
    BY <1>4, <1>5, <1>6, <1>8, AfterFault
<1> QED BY <1>4, <1>9

LEMMA DoCow ==
    ASSUME PInv(mem, pgdir, gap), NEW e \in Env, NEW va \in UserVa, fault_cow(e, va)
    PROVE  PInv(mem', pgdir', gap')
<1>1. PICK L : Live(L, e)
    BY LiveIs DEF fault_cow
<1>2. PICK m : m = Fresh
    OBVIOUS
<1>3. PICK k : k = IF mapped(e, UXSTACK) THEN m ELSE alloc_page_user(m, pgdir[e], UXSTACK)
    OBVIOUS
<1>4. mem' = k /\ gap' = (gap \/ k.free = {}) /\ pgdir' = pgdir
    BY <1>2, <1>3 DEF fault_cow, Leaves
<1>5. UXSTACK \in UserVa /\ UXSTACK \in Va /\ UXSTACK[1] # PPT
    BY IndexAssumption, UserVaIs
<1>6. /\ Good(3, m, pgdir, L) /\ m.ok = TRUE /\ pgdir[e] \in Page /\ L.lev[pgdir[e]] = 3
      /\ gap \in BOOLEAN /\ (gap \/ WindowOk(m, pgdir)) /\ m.pt = mem.pt
    BY <1>1, <1>2 DEF Live
<1>7. \E K : UserCall(m, pgdir, L, k, K, pgdir[e], UXSTACK)
  <2>1. CASE mapped(e, UXSTACK)
      BY <1>3, <1>6, <2>1, UserSame
  <2>2. CASE ~mapped(e, UXSTACK)
    <3>1. get_pa(m, pgdir[e], UXSTACK) = NoPage
        BY <1>6, <2>2, PaOfPt DEF mapped
    <3>2. k = alloc_page_user(m, pgdir[e], UXSTACK)
        BY <1>3, <2>2
    <3> QED BY <1>5, <1>6, <3>1, <3>2, AllocUser
  <2> QED BY <2>1, <2>2
<1>8. PInv(k, pgdir, gap')
    BY <1>4, <1>5, <1>6, <1>7, AfterUser
<1> QED BY <1>4, <1>8

LEMMA DoPerm ==
    ASSUME PInv(mem, pgdir, gap), NEW e \in Env, NEW va \in UserVa, fault_perm(e, va)
    PROVE  PInv(mem', pgdir', gap')
<1>1. PICK L : Live(L, e)
    BY LiveIs DEF fault_perm
<1>2. PICK m : m = Fresh
    OBVIOUS
<1>3. /\ Good(3, m, pgdir, L) /\ m.pt = mem.pt
      /\ gap \in BOOLEAN /\ (gap \/ WindowOk(m, pgdir))
    BY <1>1, <1>2 DEF Live
<1>4. map_page(m, pgdir[e], va, get_pa(mem, pgdir[e], va)) = m
    BY <1>3, PaOfPt DEF map_page
<1>5. mem' = m /\ gap' = (gap \/ m.free = {}) /\ pgdir' = pgdir
    BY <1>2, <1>4 DEF fault_perm, Becomes, Leaves
<1> QED BY <1>3, <1>5 DEF PInv

-----------------------------------------------------------------------------
LEMMA InitInv == Init => PInv(mem, pgdir, gap)
<1> SUFFICES ASSUME Init PROVE PInv(mem, pgdir, gap)
    OBVIOUS
<1>1. /\ mem = [ref |-> [p \in Page |-> 0], free |-> Page,
                pt |-> [p \in Page |-> Blank], ok |-> TRUE]
      /\ pgdir = [e \in Env |-> NoPage] /\ gap = FALSE /\ NoPage \notin Page
    BY PageAssumption DEF Init
<1>2. /\ mem.ref = [p \in Page |-> 0] /\ mem.free = Page
      /\ mem.pt = [p \in Page |-> Blank] /\ mem.ok = TRUE
    BY <1>1
<1>3. Blank \in [Vpn -> Ptr] /\ 0 \in 0 .. RefMod - 1
    BY RefAssumption DEF Blank, Ptr
<1>4. mem \in Mem
  <2>1. /\ [p \in Page |-> 0] \in [Page -> 0 .. RefMod - 1]
        /\ [p \in Page |-> Blank] \in [Page -> [Vpn -> Ptr]]
      BY <1>3
  <2> QED BY <1>1, <2>1 DEF Mem
<1>5. pgdir \in [Env -> Ptr]
    BY <1>1 DEF Ptr
<1>6. \A x \in Page, i \in Vpn : mem.pt[x][i] = NoPage
    BY <1>2 DEF Blank
<1>7. \A x \in Page : Cnt(mem.pt, pgdir, x) = 0
  <2> TAKE x \in Page
  <2>1. /\ \A t \in Page, i \in Vpn : mem.pt[t][i] # x
        /\ \A e \in Env : pgdir[e] # x
      BY <1>1, <1>6
  <2> QED BY <2>1, CntZero
<1>8. Counted(mem, pgdir)
    BY <1>2, <1>4, <1>5, <1>7 DEF Counted
<1>9. PICK v \in Vpn : v = PPT
    BY PageAssumption
<1>10. PICK L : L = [lev |-> [x \in Page |-> 0], par |-> [x \in Page |-> x],
                     idx |-> [x \in Page |-> v], win |-> {}]
    OBVIOUS
<1>11. L \in Label /\ \A x \in Page : L.lev[x] = 0
    BY <1>10 DEF Label
<1>12. \A e \in Env : pgdir[e] \notin Page
    BY <1>1
<1>13. Shape(3, mem.pt, pgdir, L)
  <2>1. ShRoots(3, pgdir, L)
      BY <1>11, <1>12 DEF ShRoots
  <2>2. ShParent(3, mem.pt, L) /\ ShWindow(3, L)
      BY <1>11 DEF ShParent, ShWindow
  <2>3. ShChild(mem.pt, L) /\ ShLeaf(mem.pt, L) /\ ShData(mem.pt, L)
      BY <1>6, <1>11 DEF ShChild, ShLeaf, ShData
  <2> QED BY <1>11, <2>1, <2>2, <2>3 DEF Shape
<1>14. Good(3, mem, pgdir, L)
    BY <1>8, <1>13 DEF Good
<1>15. WindowOk(mem, pgdir)
    BY <1>12 DEF WindowOk
<1> QED BY <1>1, <1>14, <1>15 DEF PInv

PmapInv == loose \in BOOLEAN /\ (loose \/ PInv(mem, pgdir, gap))

(* An entry that is loose once stays so. *)
LEMMA LooseStays ==
    ASSUME loose \in BOOLEAN, [Next]_vars
    PROVE  loose' \in BOOLEAN /\ (loose => loose')
<1>1. ASSUME NEW e \in Env, env_setup_vm(e) \/ env_free(e) PROVE loose' = loose
    BY <1>1 DEF env_setup_vm, env_free
<1>2. ASSUME NEW e \in Env, NEW va \in UserVa, sys_mem_alloc(e, va)
      PROVE  loose' = (loose \/ ~Room(e, va))
    BY <1>2 DEF sys_mem_alloc
<1>3. ASSUME NEW src \in Env, NEW dst \in Env, NEW srcva \in UserVa, NEW dstva \in UserVa,
             sys_mem_map(src, srcva, dst, dstva)
      PROVE  loose' = loose
    BY <1>3 DEF sys_mem_map
<1>4. ASSUME NEW e \in Env, NEW va \in UserVa,
             \/ sys_mem_unmap(e, va) \/ sys_sector(e, va)
             \/ fault_cow(e, va) \/ fault_perm(e, va)
      PROVE  loose' = loose
    BY <1>4 DEF sys_mem_unmap, sys_sector, fault_cow, fault_perm
<1>5. ASSUME NEW e \in Env, NEW va \in WindowVa, fault_alloc(e, va)
      PROVE  loose' = (loose \/ ~OwnTables(e, va))
    BY <1>5 DEF fault_alloc
<1>6. ASSUME UNCHANGED vars PROVE loose' = loose
    BY <1>6 DEF vars
<1> QED BY <1>1, <1>2, <1>3, <1>4, <1>5, <1>6 DEF Next

LEMMA NextInv == PmapInv /\ NoWrap' /\ [Next]_vars => PmapInv'
<1>a. SUFFICES ASSUME PmapInv, NoWrap', [Next]_vars PROVE PmapInv'
    OBVIOUS
<1>b. loose \in BOOLEAN /\ loose' \in BOOLEAN /\ (loose => loose')
    BY <1>a, LooseStays DEF PmapInv
<1>c. SUFFICES ASSUME PInv(mem, pgdir, gap), ~loose' PROVE PInv(mem', pgdir', gap')
    BY <1>a, <1>b DEF PmapInv
<1>1. ASSUME NEW e \in Env, env_setup_vm(e) PROVE PInv(mem', pgdir', gap')
    BY <1>a, <1>c, <1>1, DoSetup
<1>2. ASSUME NEW e \in Env, env_free(e) PROVE PInv(mem', pgdir', gap')
    BY <1>a, <1>c, <1>2, DoFree
<1>3. ASSUME NEW e \in Env, NEW va \in UserVa, sys_mem_alloc(e, va)
      PROVE  PInv(mem', pgdir', gap')
    BY <1>a, <1>c, <1>3, DoAlloc
<1>4. ASSUME NEW src \in Env, NEW dst \in Env, NEW srcva \in UserVa, NEW dstva \in UserVa,
             sys_mem_map(src, srcva, dst, dstva)
      PROVE  PInv(mem', pgdir', gap')
    BY <1>a, <1>c, <1>4, DoMap
<1>5. ASSUME NEW e \in Env, NEW va \in UserVa, sys_mem_unmap(e, va)
      PROVE  PInv(mem', pgdir', gap')
    BY <1>a, <1>c, <1>5, DoUnmap
<1>6. ASSUME NEW e \in Env, NEW va \in UserVa, sys_sector(e, va)
      PROVE  PInv(mem', pgdir', gap')
    BY <1>a, <1>c, <1>6, DoSector
<1>7. ASSUME NEW e \in Env, NEW va \in WindowVa, fault_alloc(e, va)
      PROVE  PInv(mem', pgdir', gap')
    BY <1>a, <1>c, <1>7, DoFault
<1>8. ASSUME NEW e \in Env, NEW va \in UserVa, fault_cow(e, va)
      PROVE  PInv(mem', pgdir', gap')
    BY <1>a, <1>c, <1>8, DoCow
<1>9. ASSUME NEW e \in Env, NEW va \in UserVa, fault_perm(e, va)
      PROVE  PInv(mem', pgdir', gap')
    BY <1>a, <1>c, <1>9, DoPerm
<1>10. ASSUME UNCHANGED vars PROVE PInv(mem', pgdir', gap')
    BY <1>c, <1>10 DEF vars
<1> QED BY <1>1, <1>2, <1>3, <1>4, <1>5, <1>6, <1>7, <1>8, <1>9, <1>10, <1>a DEF Next

(* Every step of Pmap keeps the reference counts, the trees and the window *)
(* right, until a call leaves an entry without its reference (sys_mem_alloc*)
(* without Room, a fault without OwnTables), and as long as no page gets   *)
(* 2^16 pointers: pp_ref is a u_short and nothing in kern/pmap.c looks     *)
(* whether it wraps.                                                       *)
THEOREM PmapInvariant == Spec /\ []NoWrap => []PmapInv
<1>1. Init => PmapInv
  <2>1. Init => loose = FALSE
      BY DEF Init
  <2> QED BY <2>1, InitInv DEF PmapInv
<1>2. PmapInv /\ NoWrap' /\ [Next]_vars => PmapInv'
    BY NextInv
<1> QED BY <1>1, <1>2, PTL DEF Spec
-----------------------------------------------------------------------------
(* What the invariant says of the trees. *)

LEMMA AliveRoot ==
    ASSUME NEW L, Good(3, mem, pgdir, L), NEW e \in Alive
    PROVE  e \in Env /\ pgdir[e] \in Page /\ L.lev[pgdir[e]] = 3
<1>1. e \in Env /\ pgdir[e] \in Page
    BY GoodTypes DEF Alive, Ptr
<1> QED BY <1>1, RootLev

LEMMA TreesAre ==
    ASSUME NEW L, Good(3, mem, pgdir, L)
    PROVE  Trees = {x \in Page : L.lev[x] > 0}
<1>1. \A x \in Page : L.lev[x] \in Nat /\ L.par[x] \in Page /\ L.lev[x] <= 3
    BY GoodTypes
<1>2. ASSUME NEW x \in Trees PROVE x \in Page /\ L.lev[x] > 0
  <2>1. PICK e \in Alive : x \in TreeTables(mem, pgdir[e])
      BY DEF Trees
  <2>2. PICK root \in Page : root = pgdir[e] /\ L.lev[root] = 3
      BY AliveRoot
  <2>3. x \in Page /\ InTree(L, root, x)
      BY <2>1, <2>2, TreeIs
  <2> QED BY <2>2, <2>3 DEF InTree
<1>3. ASSUME NEW x \in Page, L.lev[x] > 0 PROVE x \in Trees
  <2>1. ASSUME NEW r \in Page, L.lev[r] = 3, InTree(L, r, x) PROVE x \in Trees
    <3>1. PICK e \in Env : pgdir[e] = r
        BY <2>1 DEF Good, Shape, ShRoots
    <3>2. e \in Alive
        BY <3>1, PageAssumption DEF Alive
    <3>3. x \in TreeTables(mem, pgdir[e])
        BY <2>1, <3>1, TreeIs
    <3> QED BY <3>2, <3>3 DEF Trees
  <2>2. CASE L.lev[x] = 3
      BY <2>1, <2>2 DEF InTree
  <2>3. CASE L.lev[x] = 2
    <3>1. L.lev[L.par[x]] = 3 /\ L.par[x] \in Page
        BY <1>1, <2>3 DEF Good, Shape, ShParent
    <3>2. InTree(L, L.par[x], x)
        BY <2>3 DEF InTree
    <3> QED BY <2>1, <3>1, <3>2
  <2>4. CASE L.lev[x] = 1
    <3>1. PICK y \in Page : y = L.par[x]
        BY <1>1
    <3>2. L.lev[y] = 2
        BY <2>4, <3>1 DEF Good, Shape, ShParent
    <3>3. L.lev[L.par[y]] = 3 /\ L.par[y] \in Page
        BY <1>1, <3>2 DEF Good, Shape, ShParent
    <3>4. InTree(L, L.par[y], x)
        BY <2>4, <3>1 DEF InTree
    <3> QED BY <2>1, <3>3, <3>4
  <2>5. L.lev[x] = 1 \/ L.lev[x] = 2 \/ L.lev[x] = 3
      BY <1>1, <1>3
  <2> QED BY <2>2, <2>3, <2>4, <2>5
<1> QED BY <1>2, <1>3

(* pp_ref is the number of pointers to the page: through every map, unmap, *)
(* allocation, page fault and env_free of kern/pmap.c and its callers.     *)
THEOREM PmapCounts == Spec /\ []NoWrap => []RefCountsPointers
<1>1. PmapInv => RefCountsPointers
  <2>1. PmapInv => loose \/ \A x \in Page : mem.ref[x] = Cnt(mem.pt, pgdir, x)
      BY DEF PmapInv, PInv, Good, Counted
  <2>2. \A x \in Page : Pointers(x) = Cnt(mem.pt, pgdir, x)
      BY PointersIs
  <2> QED BY <2>1, <2>2 DEF RefCountsPointers
<1> QED BY <1>1, PmapInvariant, PTL

(* page_free_list holds exactly the pages that nothing points to: nobody   *)
(* is given a page in use, and none is lost.                               *)
THEOREM PmapFree == Spec /\ []NoWrap => []FreeIsUnused
<1>1. PmapInv => FreeIsUnused
  <2>1. PmapInv => loose \/ mem.free = {x \in Page : Cnt(mem.pt, pgdir, x) = 0}
      BY DEF PmapInv, PInv, Good, Counted
  <2>2. \A x \in Page : Pointers(x) = Cnt(mem.pt, pgdir, x)
      BY PointersIs
  <2> QED BY <2>1, <2>2 DEF FreeIsUnused
<1> QED BY <1>1, PmapInvariant, PTL

(* A page that is not free can be reached from a live directory: env_free  *)
(* and the failures half way through a call leak nothing.                  *)
THEOREM PmapNoLeak == Spec /\ []NoWrap => []NoLeak
<1>1. PmapInv => NoLeak
  <2> SUFFICES ASSUME PmapInv, ~loose, NEW p \in Page \ mem.free
               PROVE  p \in Trees \/ \E t \in Trees, i \in Vpn : mem.pt[t][i] = p
      BY DEF NoLeak
  <2>1. PICK L : Good(3, mem, pgdir, L)
      BY DEF PmapInv, PInv
  <2>2. Trees = {x \in Page : L.lev[x] > 0}
      BY <2>1, TreesAre
  <2>3. \/ \E e \in Env : pgdir[e] = p
        \/ \E t \in Page, i \in Vpn : L.lev[t] > 0 /\ mem.pt[t][i] = p
      BY <2>1, Reached
  <2>4. CASE \E e \in Env : pgdir[e] = p
    <3>1. L.lev[p] = 3
        BY <2>1, <2>4 DEF Good, Shape, ShRoots
    <3> QED BY <2>2, <3>1
  <2>5. CASE \E t \in Page, i \in Vpn : L.lev[t] > 0 /\ mem.pt[t][i] = p
      BY <2>2, <2>5
  <2> QED BY <2>3, <2>4, <2>5
<1> QED BY <1>1, PmapInvariant, PTL

(* No table is in two directories, at an address below UTOP or on the free *)
(* list.                                                                   *)
THEOREM PmapPrivate == Spec /\ []NoWrap => []TablesArePrivate
<1>1. PmapInv => TablesArePrivate
  <2> SUFFICES ASSUME PmapInv, ~loose PROVE TablesArePrivate
      BY DEF TablesArePrivate
  <2>1. PICK L : Good(3, mem, pgdir, L)
      BY DEF PmapInv, PInv
  <2>2. Trees = {x \in Page : L.lev[x] > 0}
      BY <2>1, TreesAre
  <2>3. ASSUME NEW e \in Alive, NEW f \in Alive, e # f
        PROVE  TreeTables(mem, pgdir[e]) \cap TreeTables(mem, pgdir[f]) = {}
    <3>1. SUFFICES ASSUME NEW x \in TreeTables(mem, pgdir[e]), x \in TreeTables(mem, pgdir[f])
                   PROVE  FALSE
        OBVIOUS
    <3>2. PICK r \in Page : r = pgdir[e] /\ L.lev[r] = 3
        BY <2>1, AliveRoot
    <3>3. PICK s \in Page : s = pgdir[f] /\ L.lev[s] = 3
        BY <2>1, AliveRoot
    <3>4. r # s
        BY <2>1, <2>3, <3>2, <3>3, AliveRoot DEF Good, Shape, ShRoots
    <3>5. x \in Page /\ InTree(L, r, x) /\ InTree(L, s, x)
        BY <2>1, <3>1, <3>2, <3>3, TreeIs
    <3> QED BY <3>2, <3>3, <3>4, <3>5 DEF InTree
  <2>4. ASSUME NEW e \in Alive, NEW va \in UserVa
        PROVE  get_pa(mem, pgdir[e], va) \notin Trees
    <3>1. PICK r \in Page : r = pgdir[e] /\ L.lev[r] = 3
        BY <2>1, AliveRoot
    <3>2. va \in Va /\ va[1] # PPT /\ va[3] \in Vpn
        BY UserVaIs DEF Va
    <3>3. SUFFICES ASSUME get_pa(mem, r, va) \in Page
                   PROVE  ~(L.lev[get_pa(mem, r, va)] > 0)
        BY <2>2, <3>1
    <3>4. PICK t \in Page : t = L0(mem, r, va)
        BY <2>1, <3>1, <3>2, <3>3, Walk
    <3>5. L.lev[t] = 1 /\ t \notin L.win /\ get_pa(mem, r, va) = mem.pt[t][va[3]]
        BY <2>1, <3>1, <3>2, <3>4, Walk
    <3>6. L.lev[get_pa(mem, r, va)] = 0
        BY <2>1, <3>2, <3>3, <3>5 DEF Good, Shape, ShLeaf
    <3> QED BY <3>6
  <2>5. mem.free \cap Trees = {}
    <3>1. ASSUME NEW x \in Trees PROVE x \notin mem.free
      <4>1. x \in Page /\ L.lev[x] > 0
          BY <2>2
      <4> QED BY <2>1, <4>1, TableInUse
    <3> QED BY <3>1
  <2> QED BY <2>3, <2>4, <2>5 DEF TablesArePrivate
<1> QED BY <1>1, PmapInvariant, PTL

(* What a process reads at PAGE_TABLE is the table that translates the     *)
(* address, until memory has run out or a sector was read to where there   *)
(* was no table.                                                           *)
THEOREM PmapWindow == Spec /\ []NoWrap => []WindowShowsTables
<1>1. PmapInv => WindowShowsTables
  <2> SUFFICES ASSUME PmapInv, ~loose, ~gap, NEW e \in Alive, NEW va \in UserVa,
                      L0(mem, pgdir[e], va) # NoPage
               PROVE  get_pa(mem, pgdir[e], <<PPT, va[1], va[2]>>) = L0(mem, pgdir[e], va)
      BY DEF WindowShowsTables
  <2>1. PICK L : Good(3, mem, pgdir, L)
      BY DEF PmapInv, PInv
  <2>2. e \in Env /\ pgdir[e] \in Page
      BY <2>1, AliveRoot
  <2>3. Shown(mem, pgdir[e], va)
      BY <2>2 DEF PmapInv, PInv, WindowOk
  <2> QED BY <2>3 DEF Shown
<1> QED BY <1>1, PmapInvariant, PTL
=============================================================================
