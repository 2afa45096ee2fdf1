--------------------------- MODULE Pmap32_proofs ---------------------------
(***************************************************************************)
(* What Pmap32 promises, for any number of pages, environments and         *)
(* entries: the lemmas of PhysMem_proofs for trees of two levels.          *)
(***************************************************************************)
EXTENDS Pmap32, PhysMem_proofs

Va == Vpn \X Vpn

(* Entry i of table x is one that the walk of address w may look at. *)
OnPath(L, root, w, x, i) ==
    \/ x = root /\ i = w[1]
    \/ L.lev[x] = 1 /\ L.par[x] = root /\ L.idx[x] = w[1] /\ i = w[2]

(* From memory m to memory k tables stay tables, directories lose no entry *)
(* and only the walks of the addresses in W change.                        *)
Ext(L, m, K, k, root, W) ==
    /\ Same(L, K)
    /\ \A x \in Page, i \in Vpn :
          L.lev[x] = 2 /\ m.pt[x][i] \in Page => k.pt[x][i] = m.pt[x][i]
    /\ \A x \in Page, i \in Vpn :
          k.pt[x][i] # m.pt[x][i] => \E w \in W : OnPath(K, root, w, x, i)

-----------------------------------------------------------------------------
(* The walk from a directory. *)
LEMMA Walk ==
    ASSUME NEW m, NEW R, NEW L, Good(2, m, R, L), NEW root \in Page, L.lev[root] = 2,
           NEW va \in Va
    PROVE  /\ L0(m, root, va) = m.pt[root][va[1]] /\ L0(m, root, va) \in Ptr
           /\ L0(m, root, va) \in Page =>
                 /\ L.lev[L0(m, root, va)] = 1 /\ L.par[L0(m, root, va)] = root
                 /\ L.idx[L0(m, root, va)] = va[1]
                 /\ L0(m, root, va) \in L.win <=> va[1] = PPT
                 /\ get_pa(m, root, va) = m.pt[L0(m, root, va)][va[2]]
           /\ get_pa(m, root, va) \in Ptr
           /\ get_pa(m, root, va) \in Page => L0(m, root, va) \in Page
<1>1. m.pt \in [Page -> [Vpn -> Ptr]]
    BY GoodTypes
<1>2. va[1] \in Vpn /\ va[2] \in Vpn /\ NoPage \in Ptr /\ root # NoPage /\ NoPage \notin Page
    BY PageAssumption DEF Va, Ptr
<1>3. \A x \in Ptr : x # NoPage => x \in Page
    BY DEF Ptr
<1>4. \A x \in Page, i \in Vpn : m.pt[x][i] \in Ptr
    BY <1>1
<1>5. \A t \in Page, i \in Vpn : L.lev[t] >= 2 /\ m.pt[t][i] \in Page =>
        L.lev[m.pt[t][i]] = L.lev[t] - 1 /\ L.par[m.pt[t][i]] = t /\ L.idx[m.pt[t][i]] = i
    BY DEF Good, Shape, ShChild
<1>6. \A x \in Page : L.lev[x] = 1 => (x \in L.win <=> L.idx[x] = PPT)
    BY DEF Good, Shape, ShWindow
<1>7. PICK b : b = L0(m, root, va)
    OBVIOUS
<1>8. b = m.pt[root][va[1]] /\ b \in Ptr
    BY <1>2, <1>4, <1>7 DEF L0, Entry
<1>9. b \in Page => L.lev[b] = 1 /\ L.par[b] = root /\ L.idx[b] = va[1] /\ (b \in L.win <=> va[1] = PPT)
    BY <1>2, <1>5, <1>6, <1>8
<1>10. PICK c : c = get_pa(m, root, va)
    OBVIOUS
<1>11. c = IF b = NoPage THEN NoPage ELSE m.pt[b][va[2]]
    BY <1>7, <1>10 DEF get_pa, Entry
<1>12. c \in Ptr /\ (c \in Page => b \in Page) /\ (b \in Page => c = m.pt[b][va[2]])
    BY <1>2, <1>3, <1>4, <1>8, <1>11
<1> QED BY <1>7, <1>8, <1>9, <1>10, <1>12

LEMMA PaOfPt ==
    ASSUME NEW m, NEW k, k.pt = m.pt, NEW root, NEW va
    PROVE  L0(k, root, va) = L0(m, root, va) /\ get_pa(k, root, va) = get_pa(m, root, va)
BY DEF get_pa, L0, Entry

LEMMA ExtRefl ==
    ASSUME NEW L, NEW m, NEW k, k.pt = m.pt, NEW root, NEW W
    PROVE  Ext(L, m, L, k, root, W)
BY SameRefl DEF Ext

LEMMA ExtTrans ==
    ASSUME NEW m, NEW R, NEW L, Good(2, m, R, L), NEW root \in Page, L.lev[root] = 2,
           NEW k, NEW K, NEW j, NEW J,
           NEW V, NEW W, NEW U, V \subseteq U, W \subseteq U,
           Ext(L, m, K, k, root, V), Ext(K, k, J, j, root, W)
    PROVE  Ext(L, m, J, j, root, U)
<1>1. Same(L, J)
    BY SameTrans DEF Ext
<1>2. ASSUME NEW x \in Page, NEW i \in Vpn, L.lev[x] = 2, m.pt[x][i] \in Page
      PROVE  j.pt[x][i] = m.pt[x][i]
  <2>1. k.pt[x][i] = m.pt[x][i] /\ K.lev[x] = 2
      BY <1>2 DEF Ext, Same
  <2> QED BY <1>2, <2>1 DEF Ext
<1>3. ASSUME NEW x \in Page, NEW i \in Vpn, j.pt[x][i] # m.pt[x][i]
      PROVE  \E w \in U : OnPath(J, root, w, x, i)
  <2>1. CASE k.pt[x][i] # m.pt[x][i]
    <3>1. PICK w \in V : OnPath(K, root, w, x, i)
        BY <2>1 DEF Ext
    <3>2. OnPath(J, root, w, x, i)
      <4>1. CASE x = root /\ i = w[1]
          BY <4>1 DEF OnPath
      <4>2. CASE K.lev[x] = 1
        <5>1. J.lev[x] = 1 /\ J.par[x] = K.par[x] /\ J.idx[x] = K.idx[x]
            BY <4>2 DEF Ext, Same
        <5> QED BY <3>1, <4>2, <5>1 DEF OnPath
      <4> QED BY <3>1, <4>1, <4>2 DEF OnPath
    <3> QED BY <3>2
  <2>2. CASE k.pt[x][i] = m.pt[x][i]
      BY <1>3, <2>2 DEF Ext
  <2> QED BY <2>1, <2>2
<1> QED BY <1>1, <1>2, <1>3 DEF Ext

LEMMA FailedGood ==
    ASSUME NEW m, NEW R, NEW L, Good(2, m, R, L), NEW b \in BOOLEAN
    PROVE  /\ Good(2, [m EXCEPT !.ok = b], R, L)
           /\ [m EXCEPT !.ok = b].pt = m.pt /\ [m EXCEPT !.ok = b].ref = m.ref
           /\ [m EXCEPT !.ok = b].free = m.free /\ [m EXCEPT !.ok = b].ok = b
<1>1. m \in Mem
    BY GoodTypes
<1>2. PICK k : k = [m EXCEPT !.ok = b]
    OBVIOUS
<1>3. k \in Mem /\ k.pt = m.pt /\ k.ref = m.ref /\ k.free = m.free /\ k.ok = b
    BY <1>1, <1>2 DEF Mem
<1>4. Good(2, k, R, L)
    BY <1>3, SameGood
<1> QED BY <1>2, <1>3, <1>4

LeafDone(L, m, k, root, va, p) ==
    /\ Ext(L, m, L, k, root, {va})
    /\ L0(k, root, va) = L0(m, root, va) /\ get_pa(k, root, va) = p

(* Writing an entry of the last level sets what the walk finds. *)
LEMMA LeafSet ==
    ASSUME NEW m, NEW R, NEW L, Good(2, m, R, L), NEW k, Good(2, k, R, L),
           NEW root \in Page, L.lev[root] = 2, NEW va \in Va,
           NEW t \in Page, t = L0(m, root, va), NEW p \in Ptr, k.pt = Upd(m.pt, t, va[2], p)
    PROVE  LeafDone(L, m, k, root, va, p)
<1>1. va[1] \in Vpn /\ va[2] \in Vpn /\ NoPage \notin Page
    BY PageAssumption DEF Va
<1>2. m.pt \in [Page -> [Vpn -> Ptr]]
    BY GoodTypes
<1>3. t = m.pt[root][va[1]] /\ L.lev[t] = 1 /\ L.par[t] = root /\ L.idx[t] = va[1]
    BY Walk
<1>4. \A u \in Page, j \in Vpn : k.pt[u][j] # m.pt[u][j] => u = t /\ j = va[2]
    BY <1>1, <1>2 DEF Upd
<1>5. OnPath(L, root, va, t, va[2])
    BY <1>3 DEF OnPath
<1>6. \A u \in Page, j \in Vpn : L.lev[u] = 2 => k.pt[u][j] = m.pt[u][j]
    BY <1>3, <1>4
<1>7. Ext(L, m, L, k, root, {va})
    BY <1>4, <1>5, <1>6, SameRefl DEF Ext
<1>8. k.pt[t][va[2]] = p /\ k.pt[root][va[1]] = t
    BY <1>1, <1>2, <1>3, <1>6 DEF Upd
<1>9. L0(k, root, va) = t
    BY <1>8, Walk
<1>10. get_pa(k, root, va) = p
    BY <1>8, <1>9, Walk
<1> QED BY <1>7, <1>9, <1>10 DEF LeafDone

-----------------------------------------------------------------------------
(* Where nothing is mapped at va: the table of va, found or made. *)
Table(m, root, va) == IF L0(m, root, va) # NoPage THEN m ELSE Create(m, root, va[1])

TableDone(m, R, L, k, K, root, va) ==
    /\ Good(2, k, R, K) /\ Ext(L, m, K, k, root, {va}) /\ Grown(m, L, k, K)
    /\ k.ok \in BOOLEAN
    /\ k.ok => L0(k, root, va) \in Page
    /\ k.ok => get_pa(k, root, va) = get_pa(m, root, va)
    /\ ~k.ok => k.free = {}
    /\ L0(m, root, va) # NoPage => k = m /\ K = L
    /\ k.ok /\ L0(m, root, va) = NoPage =>
          k.ref[L0(k, root, va)] = 1 /\ L0(k, root, va) \notin k.free

LEMMA TableLemma ==
    ASSUME NEW m, NEW R, NEW L, Good(2, m, R, L), m.ok = TRUE,
           NEW root \in Page, L.lev[root] = 2, NEW va \in Va,
           NEW k, k = Table(m, root, va)
    PROVE  \E K : TableDone(m, R, L, k, K, root, va)
<1>1. va[1] \in Vpn /\ va[2] \in Vpn /\ NoPage \notin Page
    BY PageAssumption DEF Va
<1>2. PICK b \in Ptr : b = L0(m, root, va) /\ b = m.pt[root][va[1]]
    BY Walk
<1>3. CASE b # NoPage
  <2>1. b \in Page
      BY <1>3 DEF Ptr
  <2>2. k = m
      BY <1>2, <1>3 DEF Table
  <2>3. Ext(L, m, L, m, root, {va}) /\ Grown(m, L, m, L)
      BY ExtRefl DEF Grown
  <2>4. TableDone(m, R, L, m, L, root, va)
      BY <1>2, <1>3, <2>1, <2>3 DEF TableDone
  <2> QED BY <2>2, <2>4
<1>4. CASE b = NoPage /\ m.free = {}
  <2>1. k = [m EXCEPT !.ok = FALSE]
      BY <1>2, <1>4 DEF Table, Create
  <2>6. PICK f \in BOOLEAN : f = FALSE
      OBVIOUS
  <2>7. k = [m EXCEPT !.ok = f]
      BY <2>1, <2>6
  <2>2. Good(2, k, R, L) /\ k.pt = m.pt /\ k.free = m.free /\ k.ref = m.ref /\ k.ok = FALSE
      BY <2>6, <2>7, FailedGood
  <2>3. Ext(L, m, L, k, root, {va}) /\ Grown(m, L, k, L)
      BY <2>2, ExtRefl DEF Grown
  <2>4. TableDone(m, R, L, k, L, root, va)
      BY <1>2, <1>4, <2>2, <2>3 DEF TableDone
  <2> QED BY <2>4
<1>5. CASE b = NoPage /\ m.free # {}
  <2>1. PICK i \in Vpn : i = va[1]
      BY <1>1
  <2>2. k = Create(m, root, i)
      BY <1>2, <1>5, <2>1 DEF Table
  <2>14. L.lev[root] >= 2
      OBVIOUS
  <2>3. m.pt[root][i] = NoPage
      BY <1>2, <1>5, <2>1
  <2>4. PICK K : Made(2, m, R, L, k, K, root, i)
      BY <1>5, <2>2, <2>3, <2>14, MadeTable
  <2>5. /\ Good(2, k, R, K) /\ Same(L, K) /\ Grown(m, L, k, K) /\ k.pt[root][i] \in Page
        /\ k.ok = TRUE
      BY <2>4 DEF Made
  <2>6. /\ \A u \in Page, j \in Vpn : k.pt[u][j] # m.pt[u][j] => u = root /\ j = i
        /\ \A j \in Vpn : k.pt[k.pt[root][i]][j] = NoPage
        /\ k.pt[root][i] \notin k.free /\ k.ref[k.pt[root][i]] = 1
      BY <2>4 DEF Made
  <2>7. Ext(L, m, K, k, root, {va})
      BY <1>1, <2>1, <2>3, <2>5, <2>6 DEF Ext, OnPath
  <2>8. K.lev[root] = 2
      BY <2>5 DEF Same
  <2>9. PICK z \in Page : z = k.pt[root][i]
      BY <2>5
  <2>10. L0(k, root, va) = z
      BY <2>1, <2>5, <2>8, <2>9, Walk
  <2>11. get_pa(k, root, va) = NoPage
      BY <1>1, <2>5, <2>6, <2>8, <2>9, <2>10, Walk
  <2>12. get_pa(m, root, va) = NoPage
      BY <1>2, <1>5 DEF get_pa, Entry
  <2>13. TableDone(m, R, L, k, K, root, va)
      BY <1>2, <1>5, <2>5, <2>6, <2>7, <2>9, <2>10, <2>11, <2>12 DEF TableDone
  <2> QED BY <2>13
<1> QED BY <1>3, <1>4, <1>5
LEMMA ClearOrTableIs ==
    ASSUME NEW m, NEW root, NEW va
    PROVE  /\ get_pa(m, root, va) # NoPage => ClearOrTable(m, root, va) = Drop(m, get_pa(m, root, va))
           /\ get_pa(m, root, va) = NoPage => ClearOrTable(m, root, va) = Table(m, root, va)
BY DEF ClearOrTable, Table

(* A page is mapped into the window, and a failure is forgotten. *)
WindowDone(m, R, L, k, K, root, va, p) ==
    /\ Good(2, k, R, K) /\ Ext(L, m, K, k, root, {va}) /\ k.ok = TRUE
    /\ get_pa(k, root, va) = p \/ k.free = {}

LEMMA MapWindow ==
    ASSUME NEW m, NEW R, NEW L, Good(2, m, R, L), m.ok = TRUE,
           NEW root \in Page, L.lev[root] = 2, NEW va \in Va, va[1] = PPT,
           NEW p \in Page, p \notin m.free, m.ref[p] + 1 < RefMod
    PROVE  \E K : WindowDone(m, R, L, [map_page(m, root, va, p) EXCEPT !.ok = TRUE], K, root, va, p)
<1>1. va[1] \in Vpn /\ va[2] \in Vpn /\ NoPage \notin Page /\ p \in Ptr
    BY PageAssumption DEF Va, Ptr
<1>2. PICK q \in Ptr : q = get_pa(m, root, va)
    BY Walk
<1>3. PICK i \in Vpn : i = va[2]
    BY <1>1
<1>4. PICK k : k = map_page(m, root, va, p)
    OBVIOUS
<1>5. SUFFICES \E K : /\ Good(2, k, R, K) /\ Ext(L, m, K, k, root, {va})
                      /\ get_pa(k, root, va) = p \/ k.free = {}
  <2>1. PICK K : /\ Good(2, k, R, K) /\ Ext(L, m, K, k, root, {va})
                 /\ get_pa(k, root, va) = p \/ k.free = {}
      BY <1>5
  <2>2. PICK b \in BOOLEAN : b = TRUE
      OBVIOUS
  <2>3. PICK c : c = [k EXCEPT !.ok = b]
      OBVIOUS
  <2>4. Good(2, c, R, K) /\ c.pt = k.pt /\ c.free = k.free /\ c.ok = TRUE
      BY <2>1, <2>2, <2>3, FailedGood
  <2>5. get_pa(c, root, va) = get_pa(k, root, va)
      BY <2>4, PaOfPt
  <2>6. Ext(L, m, K, c, root, {va})
      BY <2>1, <2>4 DEF Ext
  <2>7. WindowDone(m, R, L, c, K, root, va, p)
      BY <2>1, <2>4, <2>5, <2>6 DEF WindowDone
  <2> QED BY <1>4, <2>2, <2>3, <2>7
<1>6. CASE q = p
  <2>1. k = m
      BY <1>2, <1>4, <1>6 DEF map_page
  <2> QED BY <1>2, <1>6, <2>1, ExtRefl
<1>7. CASE q # p /\ q # NoPage
  <2>1. q \in Page
      BY <1>7 DEF Ptr
  <2>2. PICK t \in Page : t = L0(m, root, va)
      BY <1>2, <2>1, Walk
  <2>3. L.lev[t] = 1 /\ t \in L.win /\ q = m.pt[t][i]
      BY <1>2, <1>3, <2>2, Walk
  <2>4. PICK d : d = Drop(m, q)
      OBVIOUS
  <2>5. m \in Mem
      BY GoodTypes
  <2>6. d.pt = m.pt /\ d.ok = m.ok
      BY <2>1, <2>4, <2>5, DropFields
  <2>7. d \in Mem
      BY <2>1, <2>4, <2>5, DropType
  <2>8. L0(d, root, va) = t
      BY <2>2, <2>6, PaOfPt
  <2>9. ClearOrTable(m, root, va) = d
      BY <1>2, <1>7, <2>4, ClearOrTableIs
  <2>10. k = SetPte(d, t, i, p)
      BY <1>2, <1>3, <1>4, <1>7, <2>6, <2>8, <2>9 DEF map_page, Then
  <2>11. Good(2, k, R, L)
      BY <1>7, <2>1, <2>3, <2>4, <2>10, ReplaceLeaf
  <2>12. k.pt = Upd(m.pt, t, i, p)
      BY <2>6, <2>7, <2>10, SetPtePt
  <2>13. LeafDone(L, m, k, root, va, p)
      BY <1>1, <1>3, <2>2, <2>11, <2>12, LeafSet
  <2> QED BY <2>11, <2>13 DEF LeafDone
<1>8. CASE q = NoPage
  <2>1. PICK j : j = Table(m, root, va)
      OBVIOUS
  <2>2. PICK K : TableDone(m, R, L, j, K, root, va)
      BY <2>1, TableLemma
  <2>3. /\ Good(2, j, R, K) /\ Ext(L, m, K, j, root, {va}) /\ Grown(m, L, j, K)
        /\ j.ok \in BOOLEAN /\ (~j.ok => j.free = {})
        /\ j.ok => L0(j, root, va) \in Page /\ get_pa(j, root, va) = NoPage
      BY <1>2, <1>8, <2>2 DEF TableDone
  <2>4. ClearOrTable(m, root, va) = j
      BY <1>2, <1>8, <2>1, ClearOrTableIs
  <2>5. k = Then(j, SetPte(j, L0(j, root, va), i, p))
      BY <1>1, <1>2, <1>3, <1>4, <1>8, <2>4 DEF map_page
  <2>6. CASE j.ok = FALSE
    <3>1. k = j
        BY <2>5, <2>6 DEF Then
    <3> QED BY <2>3, <2>6, <3>1
  <2>7. CASE j.ok = TRUE
    <3>1. PICK t \in Page : t = L0(j, root, va)
        BY <2>3, <2>7
    <3>2. K.lev[root] = 2
        BY <2>3 DEF Ext, Same
    <3>3. K.lev[t] = 1 /\ t \in K.win /\ j.pt[t][i] = NoPage
        BY <1>3, <2>3, <2>7, <3>1, <3>2, Walk
    <3>4. p \notin j.free /\ j.ref[p] = m.ref[p]
        BY <2>3 DEF Grown
    <3>5. k = SetPte(j, t, i, p)
        BY <2>5, <2>7, <3>1 DEF Then
    <3>6. Good(2, k, R, K)
        BY <2>3, <3>3, <3>4, <3>5, PutLeaf
    <3>7. j \in Mem
        BY <2>3, GoodTypes
    <3>8. k.pt = Upd(j.pt, t, i, p)
        BY <3>5, <3>7, SetPtePt
    <3>9. LeafDone(K, j, k, root, va, p)
        BY <1>1, <1>3, <2>3, <3>1, <3>2, <3>6, <3>8, LeafSet
    <3>10. Ext(L, m, K, k, root, {va})
        BY <2>3, <3>9, ExtTrans DEF LeafDone
    <3> QED BY <3>6, <3>9, <3>10 DEF LeafDone
  <2> QED BY <2>3, <2>6, <2>7
<1> QED BY <1>6, <1>7, <1>8

-----------------------------------------------------------------------------
(* What a call does not change. *)

LEMMA L0Kept ==
    ASSUME NEW m, NEW R, NEW L, Good(2, m, R, L), NEW k, NEW S, NEW K, Good(2, k, S, K),
           NEW root \in Page, L.lev[root] = 2, NEW W, Ext(L, m, K, k, root, W),
           NEW other \in Page, L.lev[other] = 2, NEW va \in Va,
           \/ other # root
           \/ L0(m, other, va) # NoPage
           \/ \A w \in W : w[1] # va[1]
    PROVE  L0(k, other, va) = L0(m, other, va)
<1>1. va[1] \in Vpn /\ NoPage \notin Page
    BY PageAssumption DEF Va
<1>2. K.lev[other] = 2
    BY DEF Ext, Same
<1>3. L0(m, other, va) = m.pt[other][va[1]] /\ L0(m, other, va) \in Ptr
    BY Walk
<1>4. L0(k, other, va) = k.pt[other][va[1]]
    BY <1>2, Walk
<1>5. CASE L0(m, other, va) # NoPage
    BY <1>1, <1>3, <1>4, <1>5 DEF Ext, Ptr
<1>6. CASE other # root \/ \A w \in W : w[1] # va[1]
  <2>1. SUFFICES ASSUME k.pt[other][va[1]] # m.pt[other][va[1]] PROVE FALSE
      BY <1>3, <1>4
  <2>2. PICK w \in W : OnPath(K, root, w, other, va[1])
      BY <1>1, <2>1 DEF Ext
  <2>3. other = root /\ va[1] = w[1]
      BY <1>2, <2>2 DEF OnPath
  <2> QED BY <1>6, <2>3
<1> QED BY <1>5, <1>6

LEMMA PaKept ==
    ASSUME NEW m, NEW R, NEW L, Good(2, m, R, L), NEW k, NEW S, NEW K, Good(2, k, S, K),
           NEW root \in Page, L.lev[root] = 2, NEW W, W \subseteq Va, Ext(L, m, K, k, root, W),
           NEW other \in Page, L.lev[other] = 2, NEW va \in Va,
           other # root \/ va \notin W
    PROVE  get_pa(k, other, va) = get_pa(m, other, va)
<1>1. va[1] \in Vpn /\ va[2] \in Vpn /\ NoPage \notin Page
    BY PageAssumption DEF Va
<1>2. K.lev[root] = 2 /\ K.lev[other] = 2
    BY DEF Ext, Same
<1>3. PICK b \in Ptr : b = get_pa(m, other, va)
    BY Walk
<1>4. PICK c \in Ptr : c = get_pa(k, other, va)
    BY <1>2, Walk
<1>5. ASSUME NEW x \in Page, K.lev[x] = 1, K.idx[x] = va[1], K.par[x] = other
      PROVE  k.pt[x][va[2]] = m.pt[x][va[2]]
  <2>1. SUFFICES ASSUME k.pt[x][va[2]] # m.pt[x][va[2]] PROVE FALSE
      OBVIOUS
  <2>2. PICK w \in W : OnPath(K, root, w, x, va[2])
      BY <1>1, <2>1 DEF Ext
  <2>3. x # root
      BY <1>2, <1>5
  <2>4. other = root /\ w[1] = va[1] /\ w[2] = va[2]
      BY <1>5, <2>2, <2>3 DEF OnPath
  <2>5. w = va
      BY <2>4 DEF Va
  <2> QED BY <2>4, <2>5
<1>6. ASSUME c \in Page PROVE b = c
  <2>1. PICK y \in Page : y = L0(k, other, va)
      BY <1>2, <1>4, <1>6, Walk
  <2>2. K.lev[y] = 1 /\ K.par[y] = other /\ K.idx[y] = va[1] /\ c = k.pt[y][va[2]]
      BY <1>2, <1>4, <2>1, Walk
  <2>3. m.pt[y][va[2]] = c
      BY <1>5, <2>2
  <2>4. L.lev[y] > 0
    <3>1. L.lev[y] # 0
        BY <1>1, <1>6, <2>3 DEF Good, Shape, ShData
    <3>2. L.lev[y] \in Nat
        BY GoodTypes
    <3> QED BY <3>1, <3>2
  <2>5. L.lev[y] = 1 /\ L.par[y] = other /\ L.idx[y] = va[1]
      BY <2>2, <2>4 DEF Ext, Same
  <2>6. m.pt[other][va[1]] = y
      BY <2>5 DEF Good, Shape, ShParent
  <2>7. L0(m, other, va) = y
      BY <2>6, Walk
  <2> QED BY <1>3, <2>3, <2>7, Walk
<1>7. ASSUME b \in Page PROVE c = b
  <2>1. PICK y \in Page : y = L0(m, other, va)
      BY <1>3, <1>7, Walk
  <2>2. y = m.pt[other][va[1]] /\ b = m.pt[y][va[2]]
      BY <1>3, <2>1, Walk
  <2>3. L.lev[y] = 1 /\ L.par[y] = other /\ L.idx[y] = va[1]
      BY <2>1, Walk
  <2>4. k.pt[other][va[1]] = y
      BY <1>1, <2>2 DEF Ext
  <2>5. K.lev[y] = 1 /\ K.par[y] = other /\ K.idx[y] = va[1]
      BY <2>3 DEF Ext, Same
  <2>6. k.pt[y][va[2]] = b
      BY <1>5, <2>2, <2>5
  <2>7. L0(k, other, va) = y
      BY <1>2, <2>4, Walk
  <2> QED BY <1>2, <1>4, <2>6, <2>7, Walk
<1> QED BY <1>3, <1>4, <1>6, <1>7 DEF Ptr
(* The window shows the table that translates va. *)
Shown(m, root, va) ==
    L0(m, root, va) # NoPage => get_pa(m, root, <<PPT, va[1]>>) = L0(m, root, va)

LEMMA ShownKept ==
    ASSUME NEW m, NEW R, NEW L, Good(2, m, R, L), NEW k, NEW S, NEW K, Good(2, k, S, K),
           NEW root \in Page, L.lev[root] = 2, NEW W, W \subseteq Va, Ext(L, m, K, k, root, W),
           NEW other \in Page, L.lev[other] = 2, NEW va \in Va, Shown(m, other, va),
           L0(k, other, va) = L0(m, other, va),
           other # root \/ <<PPT, va[1]>> \notin W
    PROVE  Shown(k, other, va)
<1>1. PICK w \in Va : w = <<PPT, va[1]>>
    BY PageAssumption DEF Va
<1>2. get_pa(k, other, w) = get_pa(m, other, w)
  <2>1. other # root \/ w \notin W
      BY <1>1
  <2> QED BY <2>1, PaKept
<1> QED BY <1>1, <1>2 DEF Shown

-----------------------------------------------------------------------------
(* The functions named ..._user. *)

Paths(va) == {va, <<PPT, va[1]>>}

LEMMA PathsVa ==
    ASSUME NEW va \in Va
    PROVE  Paths(va) \subseteq Va /\ va \in Paths(va) /\ <<PPT, va[1]>> \in Va
BY PageAssumption DEF Paths, Va

UserDone(m, R, L, k, K, root, va) ==
    /\ Good(2, k, R, K) /\ Ext(L, m, K, k, root, Paths(va))
    /\ k.ok \in BOOLEAN /\ (~k.ok => k.free = {})
    /\ k.ok => L0(k, root, va) \in Page /\ get_pa(k, root, va) = NoPage
    /\ k.ok /\ Shown(m, root, va) => Shown(k, root, va) \/ k.free = {}

LEMMA TableUser ==
    ASSUME NEW m, NEW R, NEW L, Good(2, m, R, L), m.ok = TRUE,
           NEW root \in Page, L.lev[root] = 2, NEW va \in Va, va[1] # PPT,
           get_pa(m, root, va) = NoPage
    PROVE  \E K : UserDone(m, R, L, ClearOrTableUser(m, root, va), K, root, va)
<1>1. va[1] \in Vpn /\ va[2] \in Vpn /\ NoPage \notin Page
    BY PageAssumption DEF Va
<1>2. PICK n : n = Table(m, root, va)
    OBVIOUS
<1>3. PICK N : TableDone(m, R, L, n, N, root, va)
    BY <1>2, TableLemma
<1>4. ClearOrTable(m, root, va) = n
    BY <1>2, ClearOrTableIs
<1>5. /\ Good(2, n, R, N) /\ Ext(L, m, N, n, root, {va})
      /\ n.ok \in BOOLEAN /\ (~n.ok => n.free = {})
      /\ n.ok => L0(n, root, va) \in Page /\ get_pa(n, root, va) = NoPage
    BY <1>3 DEF TableDone
<1>6. Ext(L, m, N, n, root, Paths(va))
  <2>1. {va} \subseteq Paths(va)
      BY DEF Paths
  <2> QED BY <1>5, <2>1 DEF Ext
<1>7. CASE L0(m, root, va) # NoPage
  <2>1. ClearOrTableUser(m, root, va) = n
      BY <1>4, <1>7 DEF ClearOrTableUser
  <2>2. n = m
      BY <1>3, <1>7 DEF TableDone
  <2>3. UserDone(m, R, L, n, N, root, va)
      BY <1>5, <1>6, <2>2 DEF UserDone
  <2> QED BY <2>1, <2>3
<1>8. CASE L0(m, root, va) = NoPage /\ n.ok = FALSE
  <2>1. ClearOrTableUser(m, root, va) = n
      BY <1>4, <1>8 DEF ClearOrTableUser, SelfMap, Then
  <2>2. UserDone(m, R, L, n, N, root, va)
      BY <1>5, <1>6, <1>8 DEF UserDone
  <2> QED BY <2>1, <2>2
<1>9. CASE L0(m, root, va) = NoPage /\ n.ok = TRUE
  <2>1. PICK w \in Va : w = <<PPT, va[1]>>
      BY <1>1, PageAssumption DEF Va
  <2>2. PICK z \in Page : z = L0(n, root, va)
      BY <1>5, <1>9
  <2>3. Entry(n, root, va[1]) = z
      BY <2>2 DEF L0
  <2>4. PICK k : k = [map_page(n, root, w, z) EXCEPT !.ok = TRUE]
      OBVIOUS
  <2>5. ClearOrTableUser(m, root, va) = k
      BY <1>4, <1>9, <2>1, <2>3, <2>4 DEF ClearOrTableUser, SelfMap, Then
  <2>6. z \notin n.free /\ n.ref[z] + 1 < RefMod
    <3>1. z \notin n.free /\ n.ref[z] = 1
        BY <1>3, <1>9, <2>2 DEF TableDone
    <3> QED BY <3>1, RefAssumption
  <2>7. N.lev[root] = 2
      BY <1>5 DEF Ext, Same
  <2>8. w[1] = PPT
      BY <2>1
  <2>9. PICK K : WindowDone(n, R, N, k, K, root, w, z)
      BY <1>5, <1>9, <2>4, <2>6, <2>7, <2>8, MapWindow
  <2>10. PICK W : W = {w}
      OBVIOUS
  <2>11. /\ Good(2, k, R, K) /\ Ext(N, n, K, k, root, W) /\ k.ok = TRUE
         /\ get_pa(k, root, w) = z \/ k.free = {}
      BY <2>9, <2>10 DEF WindowDone
  <2>12. Ext(L, m, K, k, root, Paths(va))
    <3>1. {va} \subseteq Paths(va) /\ W \subseteq Paths(va)
        BY <2>1, <2>10 DEF Paths
    <3> QED BY <1>5, <2>11, <3>1, ExtTrans
  <2>13. L0(k, root, va) = z
      BY <1>1, <1>5, <2>2, <2>7, <2>11, L0Kept
  <2>14. get_pa(k, root, va) = NoPage
    <3>1. va \notin W /\ W \subseteq Va
        BY <2>8, <2>10
    <3>2. get_pa(k, root, va) = get_pa(n, root, va)
        BY <1>5, <2>7, <2>11, <3>1, PaKept
    <3> QED BY <1>5, <1>9, <3>2
  <2>15. Shown(k, root, va) \/ k.free = {}
      BY <2>1, <2>11, <2>13 DEF Shown
  <2>16. UserDone(m, R, L, k, K, root, va)
      BY <2>11, <2>12, <2>13, <2>14, <2>15 DEF UserDone
  <2> QED BY <2>5, <2>16
<1> QED BY <1>5, <1>7, <1>8, <1>9

UserCall(m, R, L, k, K, root, va) ==
    /\ Good(2, k, R, K) /\ Ext(L, m, K, k, root, Paths(va))
    /\ Shown(m, root, va) => Shown(k, root, va) \/ k.free = {}

LEMMA ShownLeaf ==
    ASSUME NEW m, NEW R, NEW L, Good(2, m, R, L), NEW k, Good(2, k, R, L),
           NEW root \in Page, L.lev[root] = 2, NEW va \in Va, va[1] # PPT,
           NEW p, LeafDone(L, m, k, root, va, p), Shown(m, root, va)
    PROVE  Shown(k, root, va)
<1>1. PICK W : W = {va}
    OBVIOUS
<1>2. W \subseteq Va /\ Ext(L, m, L, k, root, W) /\ L0(k, root, va) = L0(m, root, va)
    BY <1>1 DEF LeafDone
<1>3. <<PPT, va[1]>> \notin W
    BY <1>1
<1> QED BY <1>2, <1>3, ShownKept

(* The entry of va is written, in memory j that the tables left. *)
LEMMA UserThenLeaf ==
    ASSUME NEW m, NEW R, NEW L, Good(2, m, R, L),
           NEW root \in Page, L.lev[root] = 2, NEW va \in Va, va[1] # PPT,
           NEW j, NEW K, UserDone(m, R, L, j, K, root, va), j.ok,
           NEW k, Good(2, k, R, K),
           NEW p, LeafDone(K, j, k, root, va, p), j.free = {} => k.free = {}
    PROVE  UserCall(m, R, L, k, K, root, va)
<1>1. Good(2, j, R, K) /\ Ext(L, m, K, j, root, Paths(va))
    BY DEF UserDone
<1>2. K.lev[root] = 2
    BY <1>1 DEF Ext, Same
<1>3. Ext(K, j, K, k, root, {va})
    BY DEF LeafDone
<1>4. Ext(L, m, K, k, root, Paths(va))
  <2>1. {va} \subseteq Paths(va)
      BY DEF Paths
  <2> QED BY <1>1, <1>3, <2>1, ExtTrans
<1>5. ASSUME Shown(m, root, va), k.free # {} PROVE Shown(k, root, va)
  <2>1. Shown(j, root, va)
      BY <1>5 DEF UserDone
  <2> QED BY <1>1, <1>2, <2>1, ShownLeaf
<1> QED BY <1>4, <1>5 DEF UserCall

LEMMA UserOver ==
    ASSUME NEW m, NEW R, NEW L, Good(2, m, R, L),
           NEW root \in Page, L.lev[root] = 2, NEW va \in Va, va[1] # PPT,
           NEW t \in Page, t = L0(m, root, va), NEW k, Good(2, k, R, L),
           NEW p \in Ptr, k.pt = Upd(m.pt, t, va[2], p)
    PROVE  UserCall(m, R, L, k, L, root, va)
<1>1. LeafDone(L, m, k, root, va, p)
    BY LeafSet
<1>2. Ext(L, m, L, k, root, {va})
    BY <1>1 DEF LeafDone
<1>3. Ext(L, m, L, k, root, Paths(va))
  <2>1. {va} \subseteq Paths(va)
      BY DEF Paths
  <2> QED BY <1>2, <2>1 DEF Ext
<1>4. Shown(m, root, va) => Shown(k, root, va)
    BY <1>1, ShownLeaf
<1> QED BY <1>3, <1>4 DEF UserCall

LEMMA UserSame ==
    ASSUME NEW m, NEW R, NEW L, Good(2, m, R, L), NEW root, NEW va
    PROVE  UserCall(m, R, L, m, L, root, va)
BY ExtRefl DEF UserCall

LEMMA UserStops ==
    ASSUME NEW m, NEW R, NEW L, NEW root, NEW va,
           NEW j, NEW K, UserDone(m, R, L, j, K, root, va), NEW k, Good(2, k, R, K),
           k.pt = j.pt, k.free = {}
    PROVE  UserCall(m, R, L, k, K, root, va)
<1>1. Ext(L, m, K, j, root, Paths(va))
    BY DEF UserDone
<1>2. Ext(L, m, K, k, root, Paths(va))
    BY <1>1 DEF Ext
<1> QED BY <1>2 DEF UserCall

LEMMA AllocUser ==
    ASSUME NEW m, NEW R, NEW L, Good(2, m, R, L), m.ok = TRUE,
           NEW root \in Page, L.lev[root] = 2, NEW va \in Va, va[1] # PPT,
           get_pa(m, root, va) # NoPage => Drop(m, get_pa(m, root, va)).free # {}
    PROVE  \E K : UserCall(m, R, L, alloc_page_user(m, root, va), K, root, va)
<1>1. va[1] \in Vpn /\ va[2] \in Vpn /\ NoPage \notin Page
    BY PageAssumption DEF Va
<1>2. PICK q \in Ptr : q = get_pa(m, root, va)
    BY Walk
<1>3. PICK i \in Vpn : i = va[2]
    BY <1>1
<1>4. m \in Mem
    BY GoodTypes
<1>5. CASE q # NoPage
  <2>1. q \in Page
      BY <1>5 DEF Ptr
  <2>2. PICK t \in Page : t = L0(m, root, va)
      BY <1>2, <2>1, Walk
  <2>3. L.lev[t] = 1 /\ q = m.pt[t][i]
      BY <1>2, <1>3, <2>2, Walk
  <2>4. PICK d : d = Drop(m, q)
      OBVIOUS
  <2>5. d.pt = m.pt /\ d.ok = m.ok
      BY <1>4, <2>1, <2>4, DropFields
  <2>6. L0(d, root, va) = t
      BY <2>2, <2>5, PaOfPt
  <2>7. ClearOrTableUser(m, root, va) = d
      BY <1>1, <1>2, <1>5, <2>2, <2>4, ClearOrTableIs DEF ClearOrTableUser
  <2>8. PICK k : k = Create(d, t, i)
      OBVIOUS
  <2>9. alloc_page_user(m, root, va) = k
      BY <1>3, <2>5, <2>6, <2>7, <2>8 DEF alloc_page_user, Then
  <2>10. Drop(m, m.pt[t][i]).free # {} /\ m.pt[t][i] \in Page
      BY <1>2, <1>5, <2>1, <2>3
  <2>11. /\ Good(2, Create(Drop(m, m.pt[t][i]), t, i), R, L)
         /\ \E p \in Page : Create(Drop(m, m.pt[t][i]), t, i).pt = Upd(m.pt, t, i, p)
      BY <2>3, <2>10, RenewLeaf
  <2>12. Create(Drop(m, m.pt[t][i]), t, i) = k
      BY <2>3, <2>4, <2>8
  <2>13. PICK p \in Page : k.pt = Upd(m.pt, t, i, p)
      BY <2>11, <2>12
  <2>14. p \in Ptr /\ k.pt = Upd(m.pt, t, va[2], p) /\ Good(2, k, R, L)
      BY <1>3, <2>11, <2>12, <2>13 DEF Ptr
  <2>15. UserCall(m, R, L, k, L, root, va)
      BY <2>2, <2>14, UserOver
  <2> QED BY <2>9, <2>15
<1>6. CASE q = NoPage
  <2>1. PICK j : j = ClearOrTableUser(m, root, va)
      OBVIOUS
  <2>2. PICK K : UserDone(m, R, L, j, K, root, va)
      BY <1>2, <1>6, <2>1, TableUser
  <2>3. /\ Good(2, j, R, K) /\ Ext(L, m, K, j, root, Paths(va))
        /\ j.ok \in BOOLEAN /\ (~j.ok => j.free = {})
        /\ j.ok => L0(j, root, va) \in Page /\ get_pa(j, root, va) = NoPage
      BY <2>2 DEF UserDone
  <2>4. K.lev[root] = 2
      BY <2>3 DEF Ext, Same
  <2>5. alloc_page_user(m, root, va) = Then(j, Create(j, L0(j, root, va), i))
      BY <1>3, <2>1 DEF alloc_page_user
  <2>6. CASE j.ok = FALSE
    <3>1. alloc_page_user(m, root, va) = j
        BY <2>5, <2>6 DEF Then
    <3>2. UserCall(m, R, L, j, K, root, va)
        BY <2>2, <2>3, <2>6, UserStops
    <3> QED BY <3>1, <3>2
  <2>7. CASE j.ok = TRUE /\ j.free = {}
    <3>1. PICK b \in BOOLEAN : b = FALSE
        OBVIOUS
    <3>2. PICK k : k = [j EXCEPT !.ok = b]
        OBVIOUS
    <3>3. alloc_page_user(m, root, va) = k
        BY <2>5, <2>7, <3>1, <3>2 DEF Then, Create
    <3>4. Good(2, k, R, K) /\ k.pt = j.pt /\ k.free = {}
        BY <2>3, <2>7, <3>2, FailedGood
    <3>5. UserCall(m, R, L, k, K, root, va)
        BY <2>2, <3>4, UserStops
    <3> QED BY <3>3, <3>5
  <2>8. CASE j.ok = TRUE /\ j.free # {}
    <3>1. PICK t \in Page : t = L0(j, root, va)
        BY <2>3, <2>8
    <3>2. K.lev[t] = 1 /\ j.pt[t][i] = NoPage
        BY <1>3, <2>3, <2>4, <2>8, <3>1, Walk
    <3>3. PICK k : k = Create(j, t, i)
        OBVIOUS
    <3>4. alloc_page_user(m, root, va) = k
        BY <2>5, <2>8, <3>1, <3>3 DEF Then
    <3>5. Good(2, k, R, K)
        BY <2>3, <2>8, <3>2, <3>3, MakeLeaf
    <3>6. page_alloc(j) \in Page /\ k.pt = Upd(j.pt, t, i, page_alloc(j))
        BY <2>3, <2>8, <3>3, CreateStep
    <3>7. PICK p \in Ptr : p = page_alloc(j)
        BY <3>6 DEF Ptr
    <3>8. k.pt = Upd(j.pt, t, va[2], p)
        BY <1>3, <3>6, <3>7
    <3>9. LeafDone(K, j, k, root, va, p)
        BY <2>3, <2>4, <3>1, <3>5, <3>8, LeafSet
    <3>10. UserCall(m, R, L, k, K, root, va)
        BY <2>2, <2>8, <3>5, <3>9, UserThenLeaf
    <3> QED BY <3>4, <3>10
  <2> QED BY <2>3, <2>6, <2>7, <2>8
<1> QED BY <1>5, <1>6
(* The page p is one that the walk of an address outside the window found, *)
(* and the entry it gets is not the one with which its count wraps.        *)
LEMMA MapUser ==
    ASSUME NEW m, NEW R, NEW L, Good(2, m, R, L), m.ok = TRUE,
           NEW root \in Page, L.lev[root] = 2, NEW va \in Va, va[1] # PPT,
           NEW src \in Page, L.lev[src] = 2, NEW sva \in Va, sva[1] # PPT,
           NEW p \in Page, p = get_pa(m, src, sva),
           NEW k, k = map_page_user(m, root, va, p), Cnt(k.pt, R, p) < RefMod
    PROVE  \E K : UserCall(m, R, L, k, K, root, va)
<1>1. va[1] \in Vpn /\ va[2] \in Vpn /\ NoPage \notin Page /\ p \in Ptr
    BY PageAssumption DEF Va, Ptr
<1>2. PICK q \in Ptr : q = get_pa(m, root, va)
    BY Walk
<1>3. PICK i \in Vpn : i = va[2]
    BY <1>1
<1>4. m \in Mem /\ m.pt \in [Page -> [Vpn -> Ptr]]
    BY GoodTypes
<1>5. ASSUME NEW j, NEW K, Good(2, j, R, K), K.lev[src] = 2, get_pa(j, src, sva) = p
      PROVE  p \notin j.free /\ K.lev[p] = 0 /\ j.ref[p] = Cnt(j.pt, R, p)
             /\ j.ref[p] \in Nat
  <2>1. PICK s \in Page : s = L0(j, src, sva)
      BY <1>5, Walk
  <2>2. K.lev[s] = 1 /\ s \notin K.win /\ j.pt[s][sva[2]] = p
      BY <1>5, <2>1, Walk
  <2>3. sva[2] \in Vpn
      BY DEF Va
  <2>4. K.lev[p] = 0
      BY <1>5, <2>2, <2>3 DEF Good, Shape, ShLeaf
  <2>5. p \notin j.free
      BY <1>5, <2>2, <2>3, FreeBlank
  <2>6. j.ref[p] = Cnt(j.pt, R, p)
      BY <1>5 DEF Good, Counted
  <2>7. j.ref[p] \in Nat
      BY <1>5, GoodTypes
  <2> QED BY <2>4, <2>5, <2>6, <2>7
<1>6. CASE q = p
  <2>1. k = m
      BY <1>2, <1>6 DEF map_page_user
  <2> QED BY <2>1, UserSame
<1>7. CASE q # p /\ q # NoPage
  <2>1. q \in Page
      BY <1>7 DEF Ptr
  <2>2. PICK t \in Page : t = L0(m, root, va)
      BY <1>2, <2>1, Walk
  <2>3. L.lev[t] = 1 /\ q = m.pt[t][i]
      BY <1>2, <1>3, <2>2, Walk
  <2>4. PICK d : d = Drop(m, q)
      OBVIOUS
  <2>5. d.pt = m.pt /\ d.ok = m.ok
      BY <1>4, <2>1, <2>4, DropFields
  <2>6. d \in Mem
      BY <1>4, <2>1, <2>4, DropType
  <2>7. L0(d, root, va) = t
      BY <2>2, <2>5, PaOfPt
  <2>8. ClearOrTableUser(m, root, va) = d
      BY <1>1, <1>2, <1>7, <2>2, <2>4, ClearOrTableIs DEF ClearOrTableUser
  <2>9. k = SetPte(d, t, i, p)
      BY <1>2, <1>3, <1>7, <2>5, <2>7, <2>8 DEF map_page_user, Then
  <2>10. k.pt = Upd(m.pt, t, i, p)
      BY <2>5, <2>6, <2>9, SetPtePt
  <2>11. p \notin m.free /\ L.lev[p] = 0 /\ m.ref[p] = Cnt(m.pt, R, p) /\ m.ref[p] \in Nat
      BY <1>5
  <2>12. Cnt(k.pt, R, p) = Cnt(m.pt, R, p) + 1
      BY <1>1, <1>4, <1>7, <2>3, <2>10, OneSlot
  <2>13. m.ref[p] + 1 < RefMod
      BY <2>11, <2>12
  <2>14. Good(2, k, R, L)
      BY <1>7, <2>1, <2>3, <2>4, <2>9, <2>11, <2>13, ReplaceLeaf
  <2>15. UserCall(m, R, L, k, L, root, va)
      BY <1>1, <1>3, <2>2, <2>10, <2>14, UserOver
  <2> QED BY <2>15
<1>8. CASE q = NoPage
  <2>1. PICK j : j = ClearOrTableUser(m, root, va)
      OBVIOUS
  <2>2. PICK K : UserDone(m, R, L, j, K, root, va)
      BY <1>2, <1>8, <2>1, TableUser
  <2>3. /\ Good(2, j, R, K) /\ Ext(L, m, K, j, root, Paths(va))
        /\ j.ok \in BOOLEAN /\ (~j.ok => j.free = {})
        /\ j.ok => L0(j, root, va) \in Page /\ get_pa(j, root, va) = NoPage
      BY <2>2 DEF UserDone
  <2>4. K.lev[root] = 2 /\ K.lev[src] = 2
      BY <2>3 DEF Ext, Same
  <2>5. k = Then(j, SetPte(j, L0(j, root, va), i, p))
      BY <1>1, <1>2, <1>3, <1>8, <2>1 DEF map_page_user
  <2>6. CASE j.ok = FALSE
    <3>1. k = j
        BY <2>5, <2>6 DEF Then
    <3>2. UserCall(m, R, L, j, K, root, va)
        BY <2>2, <2>3, <2>6, UserStops
    <3> QED BY <3>1, <3>2
  <2>7. CASE j.ok = TRUE
    <3>1. PICK t \in Page : t = L0(j, root, va)
        BY <2>3, <2>7
    <3>2. K.lev[t] = 1 /\ j.pt[t][i] = NoPage
        BY <1>3, <2>3, <2>4, <2>7, <3>1, Walk
    <3>3. k = SetPte(j, t, i, p)
        BY <2>5, <2>7, <3>1 DEF Then
    <3>4. get_pa(j, src, sva) = p
      <4>1. Paths(va) \subseteq Va
          BY PathsVa
      <4>2. src # root \/ sva \notin Paths(va)
        <5>1. ASSUME sva = va, src = root PROVE FALSE
            BY <1>1, <1>2, <1>8, <5>1
        <5>2. sva # <<PPT, va[1]>>
            OBVIOUS
        <5> QED BY <5>1, <5>2 DEF Paths
      <4> QED BY <2>3, <4>1, <4>2, PaKept
    <3>5. p \notin j.free /\ K.lev[p] = 0 /\ j.ref[p] = Cnt(j.pt, R, p) /\ j.ref[p] \in Nat
        BY <1>5, <2>3, <2>4, <3>4
    <3>6. j \in Mem /\ j.pt \in [Page -> [Vpn -> Ptr]]
        BY <2>3, GoodTypes
    <3>7. k.pt = Upd(j.pt, t, i, p)
        BY <3>3, <3>6, SetPtePt
    <3>8. k.free = j.free
        BY <3>3, <3>6 DEF SetPte, Mem
    <3>9. Cnt(k.pt, R, p) = Cnt(j.pt, R, p) + 1
        BY <1>1, <3>2, <3>6, <3>7, OneSlot
    <3>10. j.ref[p] + 1 < RefMod
        BY <3>5, <3>9
    <3>11. Good(2, k, R, K)
        BY <2>3, <3>2, <3>3, <3>5, <3>10, PutLeaf
    <3>12. LeafDone(K, j, k, root, va, p)
        BY <1>1, <1>3, <2>3, <2>4, <3>1, <3>7, <3>11, LeafSet
    <3>13. UserCall(m, R, L, k, K, root, va)
        BY <2>2, <2>7, <3>8, <3>11, <3>12, UserThenLeaf
    <3> QED BY <3>13
  <2> QED BY <2>3, <2>6, <2>7
<1> QED BY <1>6, <1>7, <1>8

-----------------------------------------------------------------------------
(* The calls that do not show their tables in the window. *)
PlainCall(m, R, L, k, K, root, va) == Good(2, k, R, K) /\ Ext(L, m, K, k, root, {va})

LEMMA AllocPlain ==
    ASSUME NEW m, NEW R, NEW L, Good(2, m, R, L), m.ok = TRUE,
           NEW root \in Page, L.lev[root] = 2, NEW va \in Va, get_pa(m, root, va) = NoPage
    PROVE  \E K : PlainCall(m, R, L, alloc_page(m, root, va), K, root, va)
<1>1. va[1] \in Vpn /\ va[2] \in Vpn /\ NoPage \notin Page
    BY PageAssumption DEF Va
<1>2. PICK i \in Vpn : i = va[2]
    BY <1>1
<1>3. PICK j : j = Table(m, root, va)
    OBVIOUS
<1>4. PICK K : TableDone(m, R, L, j, K, root, va)
    BY <1>3, TableLemma
<1>5. /\ Good(2, j, R, K) /\ Ext(L, m, K, j, root, {va})
      /\ j.ok \in BOOLEAN /\ (~j.ok => j.free = {})
      /\ j.ok => L0(j, root, va) \in Page /\ get_pa(j, root, va) = NoPage
    BY <1>4 DEF TableDone
<1>6. K.lev[root] = 2
    BY <1>5 DEF Ext, Same
<1>7. alloc_page(m, root, va) = Then(j, Create(j, L0(j, root, va), i))
  <2>1. ClearOrTable(m, root, va) = j
      BY <1>3, ClearOrTableIs
  <2> QED BY <1>2, <2>1 DEF alloc_page
<1>8. CASE j.ok = FALSE
  <2>1. alloc_page(m, root, va) = j
      BY <1>7, <1>8 DEF Then
  <2>2. PlainCall(m, R, L, j, K, root, va)
      BY <1>5 DEF PlainCall
  <2> QED BY <2>1, <2>2
<1>9. CASE j.ok = TRUE /\ j.free = {}
  <2>1. PICK b \in BOOLEAN : b = FALSE
      OBVIOUS
  <2>2. PICK k : k = [j EXCEPT !.ok = b]
      OBVIOUS
  <2>3. alloc_page(m, root, va) = k
      BY <1>7, <1>9, <2>1, <2>2 DEF Then, Create
  <2>4. Good(2, k, R, K) /\ k.pt = j.pt
      BY <1>5, <2>2, FailedGood
  <2>5. PlainCall(m, R, L, k, K, root, va)
      BY <1>5, <2>4 DEF PlainCall, Ext
  <2> QED BY <2>3, <2>5
<1>10. CASE j.ok = TRUE /\ j.free # {}
  <2>1. PICK t \in Page : t = L0(j, root, va)
      BY <1>5, <1>10
  <2>2. K.lev[t] = 1 /\ j.pt[t][i] = NoPage
      BY <1>2, <1>5, <1>6, <1>10, <2>1, Walk
  <2>3. PICK k : k = Create(j, t, i)
      OBVIOUS
  <2>4. alloc_page(m, root, va) = k
      BY <1>7, <1>10, <2>1, <2>3 DEF Then
  <2>5. Good(2, k, R, K)
      BY <1>5, <1>10, <2>2, <2>3, MakeLeaf
  <2>6. page_alloc(j) \in Page /\ k.pt = Upd(j.pt, t, i, page_alloc(j))
      BY <1>5, <1>10, <2>3, CreateStep
  <2>7. PICK p \in Ptr : p = page_alloc(j)
      BY <2>6 DEF Ptr
  <2>8. k.pt = Upd(j.pt, t, va[2], p)
      BY <1>2, <2>6, <2>7
  <2>9. LeafDone(K, j, k, root, va, p)
      BY <1>5, <1>6, <2>1, <2>5, <2>8, LeafSet
  <2>10. Ext(K, j, K, k, root, {va})
      BY <2>9 DEF LeafDone
  <2>11. Ext(L, m, K, k, root, {va})
      BY <1>5, <2>10, ExtTrans
  <2>12. PlainCall(m, R, L, k, K, root, va)
      BY <2>5, <2>11 DEF PlainCall
  <2> QED BY <2>4, <2>12
<1> QED BY <1>5, <1>8, <1>9, <1>10

LEMMA Unmap ==
    ASSUME NEW m, NEW R, NEW L, Good(2, m, R, L),
           NEW root \in Page, L.lev[root] = 2, NEW va \in Va
    PROVE  PlainCall(m, R, L, unmap_page(m, root, va), L, root, va)
<1>1. va[1] \in Vpn /\ va[2] \in Vpn /\ NoPage \notin Page /\ NoPage \in Ptr
    BY PageAssumption DEF Va, Ptr
<1>2. PICK q \in Ptr : q = get_pa(m, root, va)
    BY Walk
<1>3. CASE q = NoPage
  <2>1. unmap_page(m, root, va) = m
      BY <1>2, <1>3 DEF unmap_page
  <2> QED BY <2>1, ExtRefl DEF PlainCall
<1>4. CASE q # NoPage
  <2>1. q \in Page
      BY <1>4 DEF Ptr
  <2>2. PICK t \in Page : t = L0(m, root, va)
      BY <1>2, <2>1, Walk
  <2>3. PICK i \in Vpn : i = va[2]
      BY <1>1
  <2>4. L.lev[t] = 1 /\ q = m.pt[t][i]
      BY <1>2, <2>2, <2>3, Walk
  <2>5. PICK k : k = Clear(m, t, i)
      OBVIOUS
  <2>6. unmap_page(m, root, va) = k
      BY <1>2, <1>4, <2>2, <2>3, <2>4, <2>5 DEF unmap_page, Clear
  <2>7. Good(2, k, R, L)
      BY <2>1, <2>4, <2>5, ClearLeaf
  <2>8. m \in Mem
      BY GoodTypes
  <2>9. k.pt = Upd(m.pt, t, i, NoPage)
      BY <2>1, <2>4, <2>5, <2>8, ClearFields
  <2>10. LeafDone(L, m, k, root, va, NoPage)
      BY <1>1, <2>2, <2>3, <2>7, <2>9, LeafSet
  <2> QED BY <2>6, <2>7, <2>10 DEF PlainCall, LeafDone
<1> QED BY <1>3, <1>4

-----------------------------------------------------------------------------
(* Directories come and go. *)

LEMMA TablesAre ==
    ASSUME NEW m, NEW R, NEW L, Good(2, m, R, L), NEW root \in Page, L.lev[root] = 2
    PROVE  /\ Tables(m, root) \subseteq Page
           /\ \A x \in Page : x \in Tables(m, root) <=>
                 x = root \/ (L.lev[x] = 1 /\ L.par[x] = root)
<1>1. /\ m.pt \in [Page -> [Vpn -> Ptr]] /\ NoPage \notin Page
      /\ \A x \in Page : L.lev[x] \in Nat /\ L.par[x] \in Page /\ L.idx[x] \in Vpn
    BY GoodTypes, PageAssumption
<1>2. \A i \in Vpn : m.pt[root][i] # NoPage => m.pt[root][i] \in Page
    BY <1>1 DEF Ptr
<1>3. ASSUME NEW x \in Tables(m, root), x # root
      PROVE  x \in Page /\ L.lev[x] = 1 /\ L.par[x] = root
  <2>1. PICK i \in Vpn : x = m.pt[root][i] /\ x # NoPage
      BY <1>3 DEF Tables
  <2>2. x \in Page
      BY <1>2, <2>1
  <2> QED BY <2>1, <2>2 DEF Good, Shape, ShChild
<1>4. ASSUME NEW x \in Page, L.lev[x] = 1, L.par[x] = root PROVE x \in Tables(m, root)
  <2>1. m.pt[root][L.idx[x]] = x
      BY <1>4 DEF Good, Shape, ShParent
  <2> QED BY <1>1, <2>1 DEF Tables
<1>5. root \in Tables(m, root)
    BY DEF Tables
<1> QED BY <1>3, <1>4, <1>5

LEMMA TablesTree ==
    ASSUME NEW m, NEW R, NEW L, Good(2, m, R, L), NEW root \in Page, L.lev[root] = 2,
           NEW T, T = Tables(m, root)
    PROVE  IsTree(2, L, root, T)
<1>1. \A x \in Page : L.lev[x] \in Nat /\ L.par[x] \in Page /\ L.lev[x] <= 2
    BY GoodTypes
<1>2. T \subseteq Page /\ \A x \in Page : x \in T <=> x = root \/ (L.lev[x] = 1 /\ L.par[x] = root)
    BY TablesAre
<1>3. root \in T
    BY <1>2
<1>4. \A x \in T : 0 < L.lev[x] /\ (L.lev[x] = 2 => x = root)
    BY <1>1, <1>2
<1>5. ASSUME NEW x \in Page, 0 < L.lev[x], L.lev[x] < 2
      PROVE  x \in T <=> L.par[x] \in T
  <2>1. L.lev[x] = 1
      BY <1>1, <1>5
  <2>2. L.lev[L.par[x]] = 2 /\ L.par[x] \in Page
      BY <1>1, <2>1 DEF Good, Shape, ShParent
  <2>3. x # root
      BY <2>1
  <2>4. L.par[x] \in T <=> L.par[x] = root
      BY <1>3, <1>4, <2>2
  <2> QED BY <1>2, <2>1, <2>3, <2>4
<1> QED BY <1>2, <1>3, <1>4, <1>5 DEF IsTree

LEMMA DestroyIs ==
    ASSUME NEW m, NEW root
    PROVE  destroy_pgdir(m, root) = Destroy(m, root, Tables(m, root))
BY DEF destroy_pgdir, Destroy, Gone, Within
SetupDone(m, R, L, k, K, e, p) ==
    /\ p \in m.free /\ p \in Page
    /\ alloc_pgdir(m).pt = m.pt
    /\ Good(2, alloc_pgdir(m), Dir(R, e, p), RootLabel(2, L, p))
    /\ Good(2, k, Dir(R, e, p), K)
    /\ Ext(RootLabel(2, L, p), alloc_pgdir(m), K, k, p, {<<PPT, PPT>>})
    /\ get_pa(k, p, <<PPT, PPT>>) = p \/ k.free = {}

(* env_setup_vm maps the new directory into its own window. *)
SelfMapped(m, p) == [map_page(alloc_pgdir(m), p, <<PPT, PPT>>, p) EXCEPT !.ok = TRUE]

LEMMA Setup ==
    ASSUME NEW m, NEW R, NEW L, Good(2, m, R, L), m.ok = TRUE, m.free # {},
           NEW e \in Env, R[e] = NoPage, NEW p, p = page_alloc(m)
    PROVE  \E K : SetupDone(m, R, L, SelfMapped(m, p), K, e, p)
<1>1. p \in m.free
    BY PageAlloc
<1>2. p \in Page /\ m.pt[p] = Blank /\ m \in Mem /\ m.ref[p] = 0
    BY <1>1, FreeBlank, GoodTypes
<1>3. PICK j : j = alloc_pgdir(m)
    OBVIOUS
<1>4. PICK J : J = RootLabel(2, L, p)
    OBVIOUS
<1>5. PICK S : S = Dir(R, e, p)
    OBVIOUS
<1>6. Good(2, j, S, J)
    BY <1>3, <1>4, <1>5, NewRoot
<1>7. /\ j.pt = m.pt /\ j.ref = [m.ref EXCEPT ![p] = (m.ref[p] + 1) % RefMod]
      /\ j.free = m.free \ {p} /\ j.ok = TRUE
    BY <1>2, <1>3, AllocFields
<1>8. J.lev[p] = 2
  <2>1. L \in Label
      BY GoodTypes
  <2> QED BY <1>2, <1>4, <2>1, RootLabelFacts
<1>9. j.ref[p] + 1 < RefMod
  <2>1. m.ref \in [Page -> 0 .. RefMod - 1]
      BY <1>2 DEF Mem
  <2>2. j.ref[p] = (0 + 1) % RefMod
      BY <1>2, <1>7, <2>1
  <2> QED BY <2>2, RefAssumption
<1>10. p \notin j.free
    BY <1>7
<1>11. PICK w \in Va : w = <<PPT, PPT>>
    BY PageAssumption DEF Va
<1>12. w[1] = PPT
    BY <1>11
<1>13. PICK k : k = [map_page(j, p, w, p) EXCEPT !.ok = TRUE]
    OBVIOUS
<1>14. PICK K : WindowDone(j, S, J, k, K, p, w, p)
    BY <1>2, <1>6, <1>7, <1>8, <1>9, <1>10, <1>12, <1>13, MapWindow
<1>15. SetupDone(m, R, L, k, K, e, p)
    BY <1>1, <1>2, <1>3, <1>4, <1>5, <1>6, <1>7, <1>11, <1>14 DEF SetupDone, WindowDone
<1> QED BY <1>3, <1>11, <1>13, <1>15 DEF SelfMapped

FreeDone(m, R, k, K, e) ==
    /\ Good(2, k, Dir(R, e, NoPage), K)
    /\ \A f \in Env, va \in Va : f # e /\ R[f] \in Page =>
          /\ L0(k, R[f], va) = L0(m, R[f], va)
          /\ get_pa(k, R[f], va) = get_pa(m, R[f], va)

LEMMA Free ==
    ASSUME NEW m, NEW R, NEW L, Good(2, m, R, L), NEW e \in Env, R[e] \in Page
    PROVE  \E K : FreeDone(m, R, destroy_pgdir(m, R[e]), K, e)
<1>1. PICK root \in Page : root = R[e]
    OBVIOUS
<1>2. L.lev[root] = 2
    BY <1>1 DEF Good, Shape, ShRoots
<1>3. PICK T : T = Tables(m, root)
    OBVIOUS
<1>4. IsTree(2, L, root, T)
    BY <1>2, <1>3, TablesTree
<1>5. PICK k : k = destroy_pgdir(m, root)
    OBVIOUS
<1>6. k = Destroy(m, root, T)
    BY <1>3, <1>5, DestroyIs
<1>7. /\ Good(2, k, Dir(R, e, NoPage), BareLabel(L, T))
      /\ k.pt = [t \in Page |-> IF t \in T THEN Blank ELSE m.pt[t]]
    BY <1>1, <1>4, <1>6, DestroyGood
<1>8. \A t \in Page : t \notin T => k.pt[t] = m.pt[t]
    BY <1>7
<1>9. ASSUME NEW f \in Env, NEW va \in Va, f # e, R[f] \in Page
      PROVE  /\ L0(k, R[f], va) = L0(m, R[f], va)
             /\ get_pa(k, R[f], va) = get_pa(m, R[f], va)
  <2>1. PICK r \in Page : r = R[f]
      BY <1>9
  <2>2. L.lev[r] = 2 /\ r # root
      BY <1>1, <1>9, <2>1 DEF Good, Shape, ShRoots
  <2>3. r \notin T
      BY <1>4, <2>2 DEF IsTree
  <2>4. PICK b \in Ptr : b = L0(m, r, va)
      BY <2>2, Walk
  <2>5. L0(k, r, va) = b
      BY <1>8, <2>3, <2>4 DEF L0, Entry
  <2>6. b \in Page => b \notin T
    <3>1. b \in Page => L.lev[b] = 1 /\ L.par[b] = r
        BY <2>2, <2>4, Walk
    <3> QED BY <1>4, <2>3, <3>1 DEF IsTree
  <2>7. get_pa(k, r, va) = get_pa(m, r, va)
    <3>1. get_pa(m, r, va) = IF b = NoPage THEN NoPage ELSE m.pt[b][va[2]]
        BY <2>4 DEF get_pa, Entry
    <3>2. get_pa(k, r, va) = IF b = NoPage THEN NoPage ELSE k.pt[b][va[2]]
        BY <2>5 DEF get_pa, Entry
    <3> QED BY <1>8, <2>6, <3>1, <3>2 DEF Ptr
  <2> QED BY <2>1, <2>4, <2>5, <2>7
<1>10. FreeDone(m, R, k, BareLabel(L, T), e)
    BY <1>7, <1>9 DEF FreeDone
<1> QED BY <1>1, <1>5, <1>10

-----------------------------------------------------------------------------
(* The window over the steps. *)

DirShown(m, root) == get_pa(m, root, <<PPT, PPT>>) = root

WindowOk(m, R) ==
    \A e \in Env : R[e] \in Page =>
        DirShown(m, R[e]) /\ \A va \in UserVa : Shown(m, R[e], va)

LEMMA UserVaIs == ASSUME NEW va \in UserVa PROVE va \in Va /\ va[1] # PPT
BY Index32Assumption DEF Va

LEMMA RootLev ==
    ASSUME NEW m, NEW R, NEW L, Good(2, m, R, L), NEW e \in Env, R[e] \in Page
    PROVE  L.lev[R[e]] = 2
BY DEF Good, Shape, ShRoots

(* L0 is the same for two addresses of one table. *)
LEMMA ShownAlike ==
    ASSUME NEW m, NEW root, NEW va, NEW vb, va[1] = vb[1]
    PROVE  Shown(m, root, va) <=> Shown(m, root, vb)
BY DEF Shown, L0, Entry

(* A call that does not write <<PPT, PPT>> of a directory keeps it shown. *)
LEMMA DirKept ==
    ASSUME NEW m, NEW R, NEW L, Good(2, m, R, L), NEW k, NEW S, NEW K, Good(2, k, S, K),
           NEW root \in Page, L.lev[root] = 2, NEW W, W \subseteq Va, Ext(L, m, K, k, root, W),
           NEW other \in Page, L.lev[other] = 2, DirShown(m, other),
           other # root \/ <<PPT, PPT>> \notin W
    PROVE  DirShown(k, other)
<1>1. PICK w \in Va : w = <<PPT, PPT>>
    BY PageAssumption DEF Va
<1>2. get_pa(k, other, w) = get_pa(m, other, w)
  <2>1. other # root \/ w \notin W
      BY <1>1
  <2> QED BY <2>1, PaKept
<1> QED BY <1>1, <1>2 DEF DirShown
LEMMA WindowUser ==
    ASSUME NEW m, NEW R, NEW L, Good(2, m, R, L), NEW e \in Env, R[e] \in Page,
           NEW va \in UserVa, NEW k, NEW K, UserCall(m, R, L, k, K, R[e], va),
           WindowOk(m, R), k.free # {}
    PROVE  WindowOk(k, R)
<1>1. PICK root \in Page : root = R[e]
    OBVIOUS
<1>2. L.lev[root] = 2 /\ va \in Va /\ va[1] # PPT
    BY <1>1, RootLev, UserVaIs
<1>3. Good(2, k, R, K) /\ Ext(L, m, K, k, root, Paths(va)) /\ Paths(va) \subseteq Va
    BY <1>1, <1>2, PathsVa DEF UserCall
<1>4. ASSUME NEW f \in Env, NEW vb \in UserVa, R[f] \in Page
      PROVE  Shown(k, R[f], vb)
  <2>1. PICK other \in Page : other = R[f]
      BY <1>4
  <2>2. L.lev[other] = 2 /\ vb \in Va /\ vb[1] # PPT
      BY <2>1, RootLev, UserVaIs
  <2>3. Shown(m, other, vb)
      BY <1>4, <2>1 DEF WindowOk
  <2>4. CASE other # root
    <3>1. L0(k, other, vb) = L0(m, other, vb)
        BY <1>2, <1>3, <2>2, <2>4, L0Kept
    <3>2. Shown(k, other, vb)
        BY <1>2, <1>3, <2>2, <2>3, <2>4, <3>1, ShownKept
    <3> QED BY <2>1, <3>2
  <2>5. CASE other = root /\ va[1] # vb[1]
    <3>1. \A w \in Paths(va) : w[1] # vb[1]
        BY <2>2, <2>5 DEF Paths
    <3>2. L0(k, other, vb) = L0(m, other, vb)
        BY <1>2, <1>3, <2>2, <3>1, L0Kept
    <3>3. <<PPT, vb[1]>> \notin Paths(va)
      <4>1. <<PPT, vb[1]>> # va
          BY <1>2
      <4>2. <<PPT, vb[1]>> # <<PPT, va[1]>>
          BY <2>5
      <4> QED BY <4>1, <4>2 DEF Paths
    <3>4. Shown(k, other, vb)
        BY <1>2, <1>3, <2>2, <2>3, <3>2, <3>3, ShownKept
    <3> QED BY <2>1, <3>4
  <2>6. CASE other = root /\ va[1] = vb[1]
    <3>1. Shown(m, root, va)
        BY <2>3, <2>6, ShownAlike
    <3>2. Shown(k, root, va)
        BY <1>1, <3>1 DEF UserCall
    <3>3. Shown(k, root, vb)
        BY <2>6, <3>2, ShownAlike
    <3> QED BY <2>1, <2>6, <3>3
  <2> QED BY <2>1, <2>4, <2>5, <2>6
<1>5. ASSUME NEW f \in Env, R[f] \in Page PROVE DirShown(k, R[f])
  <2>1. PICK other \in Page : other = R[f]
      BY <1>5
  <2>2. L.lev[other] = 2 /\ DirShown(m, other)
      BY <1>5, <2>1, RootLev DEF WindowOk
  <2>3. <<PPT, PPT>> \notin Paths(va)
      BY <1>2 DEF Paths
  <2>4. DirShown(k, other)
      BY <1>2, <1>3, <2>2, <2>3, DirKept
  <2> QED BY <2>1, <2>4
<1> QED BY <1>4, <1>5 DEF WindowOk

LEMMA WindowPlain ==
    ASSUME NEW m, NEW R, NEW L, Good(2, m, R, L), NEW e \in Env, R[e] \in Page,
           NEW va \in UserVa, L0(m, R[e], va) # NoPage,
           NEW k, NEW K, PlainCall(m, R, L, k, K, R[e], va), WindowOk(m, R)
    PROVE  WindowOk(k, R)
<1>1. PICK root \in Page : root = R[e]
    OBVIOUS
<1>2. L.lev[root] = 2 /\ va \in Va /\ va[1] # PPT
    BY <1>1, RootLev, UserVaIs
<1>3. PICK W : W = {va}
    OBVIOUS
<1>4. Good(2, k, R, K) /\ Ext(L, m, K, k, root, W) /\ W \subseteq Va
    BY <1>1, <1>2, <1>3 DEF PlainCall
<1>5. ASSUME NEW f \in Env, NEW vb \in UserVa, R[f] \in Page
      PROVE  Shown(k, R[f], vb)
  <2>1. PICK other \in Page : other = R[f]
      BY <1>5
  <2>2. L.lev[other] = 2 /\ vb \in Va /\ vb[1] # PPT
      BY <2>1, RootLev, UserVaIs
  <2>3. Shown(m, other, vb)
      BY <1>5, <2>1 DEF WindowOk
  <2>4. <<PPT, vb[1]>> \notin W
      BY <1>2, <1>3
  <2>5. \/ other # root
        \/ L0(m, other, vb) # NoPage
        \/ \A w \in W : w[1] # vb[1]
    <3>1. CASE other = root /\ va[1] = vb[1]
        BY <1>1, <3>1 DEF L0
    <3> QED BY <1>3, <3>1
  <2>6. L0(k, other, vb) = L0(m, other, vb)
      BY <1>2, <1>4, <2>2, <2>5, L0Kept
  <2>7. Shown(k, other, vb)
      BY <1>2, <1>4, <2>2, <2>3, <2>4, <2>6, ShownKept
  <2> QED BY <2>1, <2>7
<1>6. ASSUME NEW f \in Env, R[f] \in Page PROVE DirShown(k, R[f])
  <2>1. PICK other \in Page : other = R[f]
      BY <1>6
  <2>2. L.lev[other] = 2 /\ DirShown(m, other)
      BY <1>6, <2>1, RootLev DEF WindowOk
  <2>3. <<PPT, PPT>> \notin W
      BY <1>2, <1>3
  <2>4. DirShown(k, other)
      BY <1>2, <1>4, <2>2, <2>3, DirKept
  <2> QED BY <2>1, <2>4
<1> QED BY <1>5, <1>6 DEF WindowOk
LEMMA WindowSetup ==
    ASSUME NEW m, NEW R, NEW L, Good(2, m, R, L), NEW e \in Env, R[e] = NoPage,
           NEW p, NEW k, NEW K, SetupDone(m, R, L, k, K, e, p), WindowOk(m, R), k.free # {}
    PROVE  WindowOk(k, Dir(R, e, p))
<1>1. p \in Page /\ p \in m.free
    BY DEF SetupDone
<1>2. PICK j : j = alloc_pgdir(m)
    OBVIOUS
<1>3. PICK J : J = RootLabel(2, L, p)
    OBVIOUS
<1>4. PICK S : S = Dir(R, e, p)
    OBVIOUS
<1>5. PICK w \in Va : w = <<PPT, PPT>>
    BY PageAssumption DEF Va
<1>6. PICK W : W = {w}
    OBVIOUS
<1>7. /\ j.pt = m.pt /\ Good(2, j, S, J) /\ Good(2, k, S, K) /\ Ext(J, j, K, k, p, W)
      /\ W \subseteq Va
    BY <1>2, <1>3, <1>4, <1>5, <1>6 DEF SetupDone
<1>8. R \in [Env -> Ptr]
    BY GoodTypes
<1>9. S[e] = p /\ \A f \in Env : f # e => S[f] = R[f]
    BY <1>4, <1>8 DEF Dir
<1>10. J.lev[p] = 2
    BY <1>1, <1>7, <1>9 DEF Good, Shape, ShRoots
<1>11. DirShown(k, p)
    BY DEF SetupDone, DirShown
<1>12. ASSUME NEW va \in UserVa PROVE Shown(k, p, va)
  <2>1. va \in Va /\ va[1] # PPT
      BY UserVaIs
  <2>2. \A x \in W : x[1] # va[1]
      BY <1>5, <1>6, <2>1
  <2>3. m.pt[p] = Blank
      BY <1>1, FreeBlank
  <2>4. L0(j, p, va) = NoPage
    <3>1. j.pt[p][va[1]] = NoPage
        BY <1>7, <2>1, <2>3 DEF Blank, Va
    <3> QED BY <3>1 DEF L0, Entry
  <2>5. L0(k, p, va) = NoPage
      BY <1>1, <1>7, <1>10, <2>1, <2>2, <2>4, L0Kept
  <2> QED BY <2>5 DEF Shown
<1>13. ASSUME NEW f \in Env, f # e, R[f] \in Page
       PROVE  DirShown(k, R[f]) /\ \A va \in UserVa : Shown(k, R[f], va)
  <2>1. PICK other \in Page : other = R[f]
      BY <1>13
  <2>2. other # p
      BY <1>1, <2>1, FreeBlank
  <2>3. J.lev[other] = 2
      BY <1>7, <1>9, <1>13, <2>1 DEF Good, Shape, ShRoots
  <2>4. DirShown(m, other) /\ \A va \in UserVa : Shown(m, other, va)
      BY <1>13, <2>1 DEF WindowOk
  <2>5. DirShown(j, other)
      BY <1>7, <2>4 DEF DirShown, get_pa, L0, Entry
  <2>6. DirShown(k, other)
      BY <1>1, <1>7, <1>10, <2>2, <2>3, <2>5, DirKept
  <2>7. ASSUME NEW va \in UserVa PROVE Shown(k, other, va)
    <3>1. va \in Va
        BY UserVaIs
    <3>2. Shown(j, other, va)
        BY <1>7, <2>4 DEF Shown, get_pa, L0, Entry
    <3>3. L0(k, other, va) = L0(j, other, va)
        BY <1>1, <1>7, <1>10, <2>2, <2>3, <3>1, L0Kept
    <3>4. other # p \/ <<PPT, va[1]>> \notin W
        BY <2>2
    <3>5. W \subseteq Va /\ Ext(J, j, K, k, p, W) /\ Good(2, j, S, J) /\ Good(2, k, S, K)
        BY <1>7
    <3> QED BY <1>1, <1>10, <2>3, <3>1, <3>2, <3>3, <3>4, <3>5, ShownKept
  <2> QED BY <2>1, <2>6, <2>7
<1>14. WindowOk(k, S)
    BY <1>9, <1>11, <1>12, <1>13 DEF WindowOk
<1> QED BY <1>4, <1>14

LEMMA WindowFree ==
    ASSUME NEW m, NEW R, NEW L, Good(2, m, R, L), NEW e \in Env, R[e] \in Page,
           NEW k, NEW K, FreeDone(m, R, k, K, e), WindowOk(m, R)
    PROVE  WindowOk(k, Dir(R, e, NoPage))
<1>1. PICK S : S = Dir(R, e, NoPage)
    OBVIOUS
<1>2. R \in [Env -> Ptr] /\ NoPage \notin Page
    BY GoodTypes, PageAssumption
<1>3. S[e] = NoPage /\ \A f \in Env : f # e => S[f] = R[f]
    BY <1>1, <1>2 DEF Dir
<1>4. ASSUME NEW f \in Env, S[f] \in Page
      PROVE  DirShown(k, S[f]) /\ \A va \in UserVa : Shown(k, S[f], va)
  <2>1. f # e /\ S[f] = R[f] /\ R[f] \in Page
      BY <1>2, <1>3, <1>4
  <2>2. \A va \in Va : /\ L0(k, R[f], va) = L0(m, R[f], va)
                       /\ get_pa(k, R[f], va) = get_pa(m, R[f], va)
      BY <2>1 DEF FreeDone
  <2>3. DirShown(m, R[f]) /\ \A va \in UserVa : Shown(m, R[f], va)
      BY <2>1 DEF WindowOk
  <2>4. PICK d \in Va : d = <<PPT, PPT>>
      BY PageAssumption DEF Va
  <2>5. DirShown(k, R[f])
      BY <2>2, <2>3, <2>4 DEF DirShown
  <2>6. ASSUME NEW va \in UserVa PROVE Shown(k, R[f], va)
    <3>1. va \in Va
        BY UserVaIs
    <3>2. PICK w \in Va : w = <<PPT, va[1]>>
        BY <3>1, PathsVa
    <3> QED BY <2>2, <2>3, <3>1, <3>2 DEF Shown
  <2> QED BY <2>1, <2>5, <2>6
<1> QED BY <1>1, <1>4 DEF WindowOk

-----------------------------------------------------------------------------
(* The mappings that a step changes. *)
Moved(m, R, k, S) ==
    {x \in Env \X UserVa : get_pa(m, R[x[1]], x[2]) # get_pa(k, S[x[1]], x[2])}

OneMove(m, R, k, S) ==
    \/ \E x \in Env \X UserVa : Moved(m, R, k, S) \subseteq {x}
    \/ Moved(m, R, k, S) = {}
    \/ \E e \in Env : /\ R[e] # NoPage /\ S[e] = NoPage
                      /\ Moved(m, R, k, S) \subseteq {e} \X UserVa

LEMMA NoDirectory == ASSUME NEW m, NEW va PROVE get_pa(m, NoPage, va) = NoPage
BY DEF get_pa, L0, Entry

(* A call for an address of one directory. *)
LEMMA CallMoves ==
    ASSUME NEW m, NEW R, NEW L, Good(2, m, R, L), NEW k, NEW K, Good(2, k, R, K),
           NEW e \in Env, R[e] \in Page, NEW va \in UserVa,
           Ext(L, m, K, k, R[e], Paths(va))
    PROVE  OneMove(m, R, k, R)
<1>1. PICK root \in Page : root = R[e]
    OBVIOUS
<1>2. L.lev[root] = 2 /\ va \in Va /\ va[1] # PPT /\ R \in [Env -> Ptr]
    BY <1>1, RootLev, UserVaIs, GoodTypes
<1>3. Paths(va) \subseteq Va /\ Ext(L, m, K, k, root, Paths(va))
    BY <1>1, <1>2, PathsVa
<1>4. ASSUME NEW f \in Env, NEW vb \in UserVa, get_pa(m, R[f], vb) # get_pa(k, R[f], vb)
      PROVE  f = e /\ vb = va
  <2>1. R[f] # NoPage
      BY <1>4, NoDirectory
  <2>2. PICK other \in Page : other = R[f]
      BY <1>2, <2>1 DEF Ptr
  <2>3. L.lev[other] = 2 /\ vb \in Va /\ vb[1] # PPT
      BY <2>2, RootLev, UserVaIs
  <2>4. other = root /\ vb \in Paths(va)
      BY <1>2, <1>3, <1>4, <2>2, <2>3, PaKept
  <2>5. vb = va
      BY <2>3, <2>4 DEF Paths
  <2>6. f = e
      BY <1>1, <2>2, <2>4 DEF Good, Shape, ShRoots
  <2> QED BY <2>5, <2>6
<1>5. ASSUME NEW x \in Moved(m, R, k, R) PROVE x = <<e, va>>
  <2>1. /\ x \in Env \X UserVa /\ x = <<x[1], x[2]>>
        /\ get_pa(m, R[x[1]], x[2]) # get_pa(k, R[x[1]], x[2])
      BY DEF Moved
  <2>2. PICK f \in Env, vb \in UserVa : x = <<f, vb>>
      BY <2>1
  <2>3. x[1] = f /\ x[2] = vb
      BY <2>2
  <2> QED BY <1>4, <2>1, <2>2, <2>3
<1>6. <<e, va>> \in Env \X UserVa
    OBVIOUS
<1> QED BY <1>5, <1>6 DEF OneMove

LEMMA PlainMoves ==
    ASSUME NEW m, NEW R, NEW L, Good(2, m, R, L), NEW k, NEW K,
           NEW e \in Env, R[e] \in Page, NEW va \in UserVa,
           PlainCall(m, R, L, k, K, R[e], va)
    PROVE  OneMove(m, R, k, R)
<1>1. Good(2, k, R, K) /\ Ext(L, m, K, k, R[e], {va}) /\ {va} \subseteq Paths(va)
    BY DEF PlainCall, Paths
<1>2. Ext(L, m, K, k, R[e], Paths(va))
    BY <1>1 DEF Ext
<1> QED BY <1>1, <1>2, CallMoves
(* A new directory maps nothing that user code can name. *)
LEMMA SetupMoves ==
    ASSUME NEW m, NEW R, NEW L, Good(2, m, R, L), NEW e \in Env, R[e] = NoPage,
           NEW p, NEW k, NEW K, SetupDone(m, R, L, k, K, e, p)
    PROVE  OneMove(m, R, k, Dir(R, e, p))
<1>1. p \in Page /\ p \in m.free
    BY DEF SetupDone
<1>2. PICK j : j = alloc_pgdir(m)
    OBVIOUS
<1>3. PICK J : J = RootLabel(2, L, p)
    OBVIOUS
<1>4. PICK S : S = Dir(R, e, p)
    OBVIOUS
<1>5. PICK w \in Va : w = <<PPT, PPT>>
    BY PageAssumption DEF Va
<1>6. PICK W : W = {w}
    OBVIOUS
<1>7. /\ j.pt = m.pt /\ Good(2, j, S, J) /\ Good(2, k, S, K) /\ Ext(J, j, K, k, p, W)
      /\ W \subseteq Va
    BY <1>2, <1>3, <1>4, <1>5, <1>6 DEF SetupDone
<1>8. R \in [Env -> Ptr]
    BY GoodTypes
<1>9. S[e] = p /\ \A f \in Env : f # e => S[f] = R[f]
    BY <1>4, <1>8 DEF Dir
<1>10. J.lev[p] = 2
    BY <1>1, <1>7, <1>9 DEF Good, Shape, ShRoots
<1>11. ASSUME NEW f \in Env, NEW va \in UserVa
       PROVE  get_pa(m, R[f], va) = get_pa(k, S[f], va)
  <2>1. va \in Va /\ va[1] # PPT
      BY UserVaIs
  <2>2. va \notin W
      BY <1>5, <1>6, <2>1
  <2>3. CASE f = e
    <3>1. get_pa(m, R[f], va) = NoPage
        BY <2>3, NoDirectory
    <3>2. m.pt[p] = Blank
        BY <1>1, FreeBlank
    <3>3. j.pt[p][va[1]] = NoPage
        BY <1>7, <2>1, <3>2 DEF Blank, Va
    <3>4. get_pa(j, p, va) = NoPage
        BY <3>3 DEF get_pa, L0, Entry
    <3>5. get_pa(k, p, va) = NoPage
        BY <1>1, <1>7, <1>10, <2>1, <2>2, <3>4, PaKept
    <3> QED BY <1>9, <2>3, <3>1, <3>5
  <2>4. CASE f # e /\ R[f] = NoPage
      BY <1>9, <2>4, NoDirectory
  <2>5. CASE f # e /\ R[f] # NoPage
    <3>1. PICK other \in Page : other = R[f]
        BY <1>8, <2>5 DEF Ptr
    <3>2. J.lev[other] = 2 /\ S[f] = other
        BY <1>7, <1>9, <2>5, <3>1 DEF Good, Shape, ShRoots
    <3>3. get_pa(k, other, va) = get_pa(j, other, va)
        BY <1>1, <1>7, <1>10, <2>1, <2>2, <3>2, PaKept
    <3>4. get_pa(j, other, va) = get_pa(m, other, va)
        BY <1>7, PaOfPt
    <3> QED BY <3>1, <3>2, <3>3, <3>4
  <2> QED BY <2>3, <2>4, <2>5
<1>12. ASSUME NEW x \in Moved(m, R, k, S) PROVE FALSE
  <2>1. /\ x \in Env \X UserVa
        /\ get_pa(m, R[x[1]], x[2]) # get_pa(k, S[x[1]], x[2])
      BY DEF Moved
  <2>2. x[1] \in Env /\ x[2] \in UserVa
      BY <2>1
  <2> QED BY <1>11, <2>1, <2>2
<1>13. Moved(m, R, k, S) = {}
    BY <1>12
<1> QED BY <1>4, <1>13 DEF OneMove

LEMMA FreeMoves ==
    ASSUME NEW m, NEW R, NEW L, Good(2, m, R, L), NEW e \in Env, R[e] \in Page,
           NEW k, NEW K, FreeDone(m, R, k, K, e)
    PROVE  OneMove(m, R, k, Dir(R, e, NoPage))
<1>1. PICK S : S = Dir(R, e, NoPage)
    OBVIOUS
<1>2. R \in [Env -> Ptr] /\ NoPage \notin Page
    BY GoodTypes, PageAssumption
<1>3. S[e] = NoPage /\ \A f \in Env : f # e => S[f] = R[f]
    BY <1>1, <1>2 DEF Dir
<1>4. ASSUME NEW f \in Env, NEW va \in UserVa, f # e
      PROVE  get_pa(m, R[f], va) = get_pa(k, S[f], va)
  <2>1. va \in Va /\ S[f] = R[f]
      BY <1>3, <1>4, UserVaIs
  <2>2. CASE R[f] = NoPage
      BY <2>1, <2>2, NoDirectory
  <2>3. CASE R[f] # NoPage
    <3>1. R[f] \in Page
        BY <1>2, <2>3 DEF Ptr
    <3> QED BY <1>4, <2>1, <3>1 DEF FreeDone
  <2> QED BY <2>2, <2>3
<1>5. ASSUME NEW x \in Moved(m, R, k, S) PROVE x \in {e} \X UserVa
  <2>1. /\ x \in Env \X UserVa
        /\ get_pa(m, R[x[1]], x[2]) # get_pa(k, S[x[1]], x[2])
      BY DEF Moved
  <2>2. PICK f \in Env, vb \in UserVa : x = <<f, vb>>
      BY <2>1
  <2>3. x[1] = f /\ x[2] = vb
      BY <2>2
  <2>4. f = e
      BY <1>4, <2>1, <2>3
  <2> QED BY <2>2, <2>4
<1>6. R[e] # NoPage
    BY <1>2
<1> QED BY <1>1, <1>3, <1>5, <1>6 DEF OneMove

-----------------------------------------------------------------------------
(* The inductive invariant, for a memory m, directories R and the history  *)
(* variable g.                                                             *)
PInv(m, R, g) ==
    /\ g \in BOOLEAN
    /\ \E L : Good(2, m, R, L)
    /\ g \/ WindowOk(m, R)

(* No page has as many pointers as a u_short has values. *)
NoWrap == \A p \in Page : Pointers(p) < RefMod

(* What every step does: it keeps the invariant and changes one mapping. *)
Step == PInv(mem', pgdir', gap') /\ OneMove(mem, pgdir, mem', pgdir')

LEMMA AfterUser ==
    ASSUME NEW m, NEW R, NEW L, Good(2, m, R, L), NEW g \in BOOLEAN, g \/ WindowOk(m, R),
           NEW e \in Env, R[e] \in Page, NEW va \in UserVa,
           NEW k, \E K : UserCall(m, R, L, k, K, R[e], va), NEW h, h = (g \/ k.free = {})
    PROVE  PInv(k, R, h) /\ OneMove(m, R, k, R)
<1>1. PICK K : UserCall(m, R, L, k, K, R[e], va)
    OBVIOUS
<1>2. Good(2, k, R, K) /\ Ext(L, m, K, k, R[e], Paths(va))
    BY <1>1 DEF UserCall
<1>3. h \in BOOLEAN
    OBVIOUS
<1>4. h \/ WindowOk(k, R)
    BY <1>1, WindowUser
<1>5. OneMove(m, R, k, R)
    BY <1>2, CallMoves
<1> QED BY <1>2, <1>3, <1>4, <1>5 DEF PInv

(* The memory that a call starts from. *)
LEMMA FreshIs ==
    ASSUME NEW L, Good(2, mem, pgdir, L)
    PROVE  /\ Good(2, Fresh, pgdir, L)
           /\ Fresh.pt = mem.pt /\ Fresh.ref = mem.ref /\ Fresh.free = mem.free /\ Fresh.ok = TRUE
BY FailedGood DEF Fresh

LEMMA MovedPt ==
    ASSUME NEW m, NEW n, n.pt = m.pt, NEW R, NEW k, NEW S, OneMove(n, R, k, S)
    PROVE  OneMove(m, R, k, S)
<1>1. \A root, va : get_pa(n, root, va) = get_pa(m, root, va)
    BY PaOfPt
<1>2. Moved(n, R, k, S) = Moved(m, R, k, S)
    BY <1>1 DEF Moved
<1> QED BY <1>2 DEF OneMove

LEMMA WindowPt ==
    ASSUME NEW m, NEW k, k.pt = m.pt, NEW R, WindowOk(m, R)
    PROVE  WindowOk(k, R)
<1>1. ASSUME NEW root, NEW va, Shown(m, root, va) PROVE Shown(k, root, va)
    BY <1>1, PaOfPt DEF Shown
<1>2. ASSUME NEW root, DirShown(m, root) PROVE DirShown(k, root)
    BY <1>2, PaOfPt DEF DirShown
<1> QED BY <1>1, <1>2 DEF WindowOk
(* What every action on the directory of a live environment starts from. *)
Live(L, e) ==
    /\ Good(2, Fresh, pgdir, L) /\ Fresh.ok = TRUE
    /\ Fresh.pt = mem.pt /\ Fresh.ref = mem.ref /\ Fresh.free = mem.free
    /\ gap \in BOOLEAN /\ (gap \/ WindowOk(Fresh, pgdir))
    /\ pgdir[e] \in Page /\ L.lev[pgdir[e]] = 2

LEMMA LiveIs ==
    ASSUME PInv(mem, pgdir, gap), NEW e \in Alive
    PROVE  e \in Env /\ \E L : Live(L, e)
<1>1. PICK L : Good(2, mem, pgdir, L)
    BY DEF PInv
<1>2. /\ Good(2, Fresh, pgdir, L)
      /\ Fresh.pt = mem.pt /\ Fresh.ref = mem.ref /\ Fresh.free = mem.free /\ Fresh.ok = TRUE
    BY <1>1, FreshIs
<1>3. gap \in BOOLEAN /\ (gap \/ WindowOk(Fresh, pgdir))
    BY <1>2, WindowPt DEF PInv
<1>4. e \in Env /\ pgdir[e] \in Page
    BY <1>1, GoodTypes DEF Alive, Ptr
<1>5. L.lev[pgdir[e]] = 2
    BY <1>2, <1>4, RootLev
<1> QED BY <1>2, <1>3, <1>4, <1>5 DEF Live

LEMMA Nothing == ASSUME NEW m, NEW R PROVE OneMove(m, R, m, R)
BY DEF OneMove, Moved

LEMMA DoSetup ==
    ASSUME PInv(mem, pgdir, gap), NEW e \in Env, env_setup_vm(e)
    PROVE  Step
<1>1. CASE mem.free = {}
  <2>1. mem' = mem /\ pgdir' = pgdir /\ gap' = gap
      BY <1>1 DEF env_setup_vm
  <2> QED BY <2>1, Nothing DEF Step
<1>2. CASE mem.free # {}
  <2>1. PICK L : Good(2, mem, pgdir, L)
      BY DEF PInv
  <2>2. PICK m : m = Fresh
      OBVIOUS
  <2>3. /\ Good(2, m, pgdir, L)
        /\ m.pt = mem.pt /\ m.free = mem.free /\ m.ok = TRUE
      BY <2>1, <2>2, FreshIs
  <2>4. PICK p : p = page_alloc(m)
      OBVIOUS
  <2>5. p = page_alloc(mem)
      BY <2>3, <2>4 DEF page_alloc
  <2>6. PICK k : k = SelfMapped(m, p)
      OBVIOUS
  <2>7. mem' = k /\ gap' = (gap \/ k.free = {}) /\ pgdir' = Dir(pgdir, e, p)
      BY <1>2, <2>2, <2>5, <2>6 DEF env_setup_vm, Leaves, Dir, SelfMapped
  <2>8. pgdir[e] = NoPage
      BY DEF env_setup_vm, Alive
  <2>9. PICK K : SetupDone(m, pgdir, L, k, K, e, p)
      BY <1>2, <2>3, <2>4, <2>6, <2>8, Setup
  <2>10. \E J : Good(2, mem', pgdir', J)
      BY <2>7, <2>9 DEF SetupDone
  <2>11. gap \in BOOLEAN /\ (gap \/ WindowOk(m, pgdir))
      BY <2>3, WindowPt DEF PInv
  <2>12. gap \/ k.free = {} \/ WindowOk(k, Dir(pgdir, e, p))
      BY <2>3, <2>8, <2>9, <2>11, WindowSetup
  <2>13. PInv(mem', pgdir', gap')
      BY <2>7, <2>10, <2>11, <2>12 DEF PInv
  <2>14. OneMove(m, pgdir, k, Dir(pgdir, e, p))
      BY <2>3, <2>8, <2>9, SetupMoves
  <2>15. OneMove(mem, pgdir, mem', pgdir')
      BY <2>3, <2>7, <2>14, MovedPt
  <2> QED BY <2>13, <2>15 DEF Step
<1> QED BY <1>1, <1>2

LEMMA DoFree ==
    ASSUME PInv(mem, pgdir, gap), NEW e \in Env, env_free(e)
    PROVE  Step
<1>1. PICK L : Live(L, e)
    BY LiveIs DEF env_free
<1>2. PICK m : m = Fresh
    OBVIOUS
<1>3. PICK k : k = destroy_pgdir(m, pgdir[e])
    OBVIOUS
<1>4. mem' = k /\ gap' = (gap \/ k.free = {}) /\ pgdir' = Dir(pgdir, e, NoPage)
    BY <1>2, <1>3 DEF env_free, Leaves, Dir
<1>5. /\ Good(2, m, pgdir, L) /\ pgdir[e] \in Page /\ m.pt = mem.pt
      /\ gap \in BOOLEAN /\ (gap \/ WindowOk(m, pgdir))
    BY <1>1, <1>2 DEF Live
<1>6. PICK K : FreeDone(m, pgdir, k, K, e)
    BY <1>3, <1>5, Free
<1>7. \E J : Good(2, mem', pgdir', J)
    BY <1>4, <1>6 DEF FreeDone
<1>8. gap \/ WindowOk(k, Dir(pgdir, e, NoPage))
    BY <1>5, <1>6, WindowFree
<1>9. PInv(mem', pgdir', gap')
    BY <1>4, <1>5, <1>7, <1>8 DEF PInv
<1>10. OneMove(m, pgdir, k, Dir(pgdir, e, NoPage))
    BY <1>5, <1>6, FreeMoves
<1>11. OneMove(mem, pgdir, mem', pgdir')
    BY <1>4, <1>5, <1>10, MovedPt
<1> QED BY <1>9, <1>11 DEF Step

LEMMA DoAlloc ==
    ASSUME PInv(mem, pgdir, gap), NEW e \in Env, NEW va \in UserVa, sys_mem_alloc(e, va), ~loose'
    PROVE  Step
<1>1. PICK L : Live(L, e)
    BY LiveIs DEF sys_mem_alloc
<1>2. PICK m : m = Fresh
    OBVIOUS
<1>3. PICK root \in Page : root = pgdir[e]
    BY <1>1 DEF Live
<1>4. PICK k : k = alloc_page_user(m, root, va)
    OBVIOUS
<1>5. mem' = k /\ gap' = (gap \/ k.free = {}) /\ pgdir' = pgdir
    BY <1>2, <1>3, <1>4 DEF sys_mem_alloc, Becomes, Leaves
<1>6. /\ Good(2, m, pgdir, L) /\ m.ok = TRUE /\ L.lev[root] = 2
      /\ m.pt = mem.pt /\ m.ref = mem.ref /\ m.free = mem.free
    BY <1>1, <1>2, <1>3 DEF Live
<1>7. va \in Va /\ va[1] # PPT
    BY UserVaIs
<1>8. get_pa(m, root, va) # NoPage => Drop(m, get_pa(m, root, va)).free # {}
  <2>1. SUFFICES ASSUME get_pa(m, root, va) # NoPage
                 PROVE  Drop(m, get_pa(m, root, va)).free # {}
      OBVIOUS
  <2>2. PICK q \in Page : q = get_pa(m, root, va)
      BY <1>6, <1>7, <2>1, Walk DEF Ptr
  <2>3. m \in Mem
      BY <1>6, GoodTypes
  <2>4. Drop(m, q).free = IF (m.ref[q] - 1) % RefMod = 0 THEN m.free \cup {q} ELSE m.free
      BY <2>3, DropFields
  <2>5. q = get_pa(mem, pgdir[e], va)
      BY <1>3, <1>6, <2>2, PaOfPt
  <2>6. m.free = {} => m.ref[q] = 1
    <3>1. Room(e, va)
        BY DEF sys_mem_alloc
    <3> QED BY <1>6, <2>5, <3>1, PageAssumption DEF Room
  <2>7. (1 - 1) % RefMod = 0
      BY RefAssumption
  <2>8. Drop(m, q).free # {}
      BY <2>4, <2>6, <2>7
  <2> QED BY <2>2, <2>8
<1>9. \E K : UserCall(m, pgdir, L, k, K, pgdir[e], va)
    BY <1>3, <1>4, <1>6, <1>7, <1>8, AllocUser
<1>10. PInv(k, pgdir, gap') /\ OneMove(m, pgdir, k, pgdir)
    BY <1>1, <1>2, <1>3, <1>5, <1>6, <1>9, AfterUser DEF Live
<1>11. OneMove(mem, pgdir, k, pgdir)
    BY <1>6, <1>10, MovedPt
<1> QED BY <1>5, <1>10, <1>11 DEF Step

LEMMA DoMap ==
    ASSUME PInv(mem, pgdir, gap), NEW src \in Env, NEW dst \in Env,
           NEW srcva \in UserVa, NEW dstva \in UserVa,
           sys_mem_map(src, srcva, dst, dstva), NoWrap'
    PROVE  Step
<1>1. src \in Alive /\ dst \in Alive
    BY DEF sys_mem_map
<1>2. PICK L : Live(L, dst)
    BY <1>1, LiveIs
<1>3. PICK m : m = Fresh
    OBVIOUS
<1>4. /\ Good(2, m, pgdir, L) /\ m.ok = TRUE /\ m.pt = mem.pt
    BY <1>2, <1>3 DEF Live
<1>5. pgdir[src] \in Page /\ pgdir[dst] \in Page
    BY <1>1, <1>4, GoodTypes DEF Alive, Ptr
<1>6. PICK root \in Page : root = pgdir[dst]
    BY <1>5
<1>7. PICK from \in Page : from = pgdir[src]
    BY <1>5
<1>8. L.lev[root] = 2 /\ L.lev[from] = 2
    BY <1>4, <1>6, <1>7, RootLev
<1>9. srcva \in Va /\ srcva[1] # PPT /\ dstva \in Va /\ dstva[1] # PPT
    BY UserVaIs
<1>10. PICK p \in Page : p = get_pa(m, from, srcva)
  <2>1. get_pa(m, from, srcva) = get_pa(mem, pgdir[src], srcva)
      BY <1>4, <1>7, PaOfPt
  <2>2. get_pa(m, from, srcva) # NoPage
      BY <2>1 DEF sys_mem_map, is_mapped_page
  <2> QED BY <1>4, <1>8, <1>9, <2>2, Walk DEF Ptr
<1>11. PICK k : k = map_page_user(m, root, dstva, p)
    OBVIOUS
<1>12. mem' = k /\ gap' = (gap \/ k.free = {}) /\ pgdir' = pgdir
  <2>1. p = get_pa(mem, pgdir[src], srcva)
      BY <1>4, <1>7, <1>10, PaOfPt
  <2> QED BY <1>3, <1>6, <1>11, <2>1 DEF sys_mem_map, Becomes, Leaves
<1>13. Cnt(k.pt, pgdir, p) < RefMod
  <2>1. Pointers(p)' < RefMod
      BY DEF NoWrap
  <2>2. Pointers(p)' = Cnt(mem'.pt, pgdir', p)
      BY DEF Pointers, Cnt, Into, Own
  <2> QED BY <1>12, <2>1, <2>2
<1>14. \E K : UserCall(m, pgdir, L, k, K, pgdir[dst], dstva)
    BY <1>4, <1>6, <1>8, <1>9, <1>10, <1>11, <1>13, MapUser
<1>15. PInv(k, pgdir, gap') /\ OneMove(m, pgdir, k, pgdir)
    BY <1>2, <1>3, <1>4, <1>5, <1>12, <1>14, AfterUser DEF Live
<1>16. OneMove(mem, pgdir, k, pgdir)
    BY <1>4, <1>15, MovedPt
<1> QED BY <1>12, <1>15, <1>16 DEF Step

LEMMA DoUnmap ==
    ASSUME PInv(mem, pgdir, gap), NEW e \in Env, NEW va \in UserVa, sys_mem_unmap(e, va)
    PROVE  Step
<1>1. PICK L : Live(L, e)
    BY LiveIs DEF sys_mem_unmap
<1>2. PICK m : m = Fresh
    OBVIOUS
<1>3. PICK k : k = unmap_page(m, pgdir[e], va)
    OBVIOUS
<1>4. mem' = k /\ gap' = (gap \/ k.free = {}) /\ pgdir' = pgdir
    BY <1>2, <1>3 DEF sys_mem_unmap, Becomes, Leaves
<1>5. /\ Good(2, m, pgdir, L) /\ pgdir[e] \in Page /\ L.lev[pgdir[e]] = 2 /\ m.pt = mem.pt
      /\ gap \in BOOLEAN /\ (gap \/ WindowOk(m, pgdir)) /\ va \in Va
    BY <1>1, <1>2, UserVaIs DEF Live
<1>6. PlainCall(m, pgdir, L, k, L, pgdir[e], va)
    BY <1>3, <1>5, Unmap
<1>7. gap \/ WindowOk(k, pgdir)
  <2>1. CASE L0(m, pgdir[e], va) = NoPage
    <3>1. k = m
        BY <1>3, <2>1 DEF unmap_page, get_pa, Entry
    <3> QED BY <1>5, <3>1
  <2>2. CASE L0(m, pgdir[e], va) # NoPage
      BY <1>5, <1>6, <2>2, WindowPlain
  <2> QED BY <2>1, <2>2
<1>8. OneMove(mem, pgdir, k, pgdir)
    BY <1>5, <1>6, PlainMoves, MovedPt
<1> QED BY <1>4, <1>5, <1>6, <1>7, <1>8 DEF Step, PInv, PlainCall

LEMMA DoSector ==
    ASSUME PInv(mem, pgdir, gap), NEW e \in Env, NEW va \in UserVa, sys_sector(e, va)
    PROVE  Step
<1>1. PICK L : Live(L, e)
    BY LiveIs DEF sys_sector
<1>2. PICK m : m = Fresh
    OBVIOUS
<1>3. PICK k : k = alloc_page(m, pgdir[e], va)
    OBVIOUS
<1>4. /\ mem' = k /\ pgdir' = pgdir
      /\ gap' = (gap \/ k.free = {} \/ L0(mem, pgdir[e], va) = NoPage)
    BY <1>2, <1>3 DEF sys_sector
<1>5. /\ Good(2, m, pgdir, L) /\ m.ok = TRUE /\ pgdir[e] \in Page /\ L.lev[pgdir[e]] = 2
      /\ gap \in BOOLEAN /\ (gap \/ WindowOk(m, pgdir)) /\ va \in Va /\ m.pt = mem.pt
    BY <1>1, <1>2, UserVaIs DEF Live
<1>6. get_pa(m, pgdir[e], va) = NoPage /\ L0(m, pgdir[e], va) = L0(mem, pgdir[e], va)
    BY <1>5, PaOfPt DEF sys_sector, is_mapped_page
<1>7. PICK K : PlainCall(m, pgdir, L, k, K, pgdir[e], va)
    BY <1>3, <1>5, <1>6, AllocPlain
<1>8. gap \/ L0(mem, pgdir[e], va) = NoPage \/ WindowOk(k, pgdir)
    BY <1>5, <1>6, <1>7, WindowPlain
<1>9. OneMove(mem, pgdir, k, pgdir)
    BY <1>5, <1>7, PlainMoves, MovedPt
<1> QED BY <1>4, <1>5, <1>7, <1>8, <1>9 DEF Step, PInv, PlainCall
-----------------------------------------------------------------------------
LEMMA InitInv == Init => PInv(mem, pgdir, gap)
<1> SUFFICES ASSUME Init PROVE PInv(mem, pgdir, gap)
    OBVIOUS
<1>1. /\ mem = [ref |-> [p \in Page |-> 0], free |-> Page,
                pt |-> [p \in Page |-> Blank], ok |-> TRUE]
      /\ pgdir = [e \in Env |-> NoPage] /\ gap = FALSE /\ NoPage \notin Page
    BY PageAssumption DEF Init
<1>2. /\ mem.ref = [p \in Page |-> 0] /\ mem.free = Page
      /\ mem.pt = [p \in Page |-> Blank] /\ mem.ok = TRUE
    BY <1>1
<1>3. Blank \in [Vpn -> Ptr] /\ 0 \in 0 .. RefMod - 1
    BY RefAssumption DEF Blank, Ptr
<1>4. mem \in Mem
  <2>1. /\ [p \in Page |-> 0] \in [Page -> 0 .. RefMod - 1]
        /\ [p \in Page |-> Blank] \in [Page -> [Vpn -> Ptr]]
      BY <1>3
  <2> QED BY <1>1, <2>1 DEF Mem
<1>5. pgdir \in [Env -> Ptr]
    BY <1>1 DEF Ptr
<1>6. \A x \in Page, i \in Vpn : mem.pt[x][i] = NoPage
    BY <1>2 DEF Blank
<1>7. \A x \in Page : Cnt(mem.pt, pgdir, x) = 0
  <2> TAKE x \in Page
  <2>1. /\ \A t \in Page, i \in Vpn : mem.pt[t][i] # x
        /\ \A e \in Env : pgdir[e] # x
      BY <1>1, <1>6
  <2> QED BY <2>1, CntZero
<1>8. Counted(mem, pgdir)
    BY <1>2, <1>4, <1>5, <1>7 DEF Counted
<1>9. PICK v \in Vpn : v = PPT
    BY PageAssumption
<1>10. PICK L : L = [lev |-> [x \in Page |-> 0], par |-> [x \in Page |-> x],
                     idx |-> [x \in Page |-> v], win |-> {}]
    OBVIOUS
<1>11. L \in Label /\ \A x \in Page : L.lev[x] = 0
    BY <1>10 DEF Label
<1>12. \A e \in Env : pgdir[e] \notin Page
    BY <1>1
<1>13. Shape(2, mem.pt, pgdir, L)
  <2>1. ShRoots(2, pgdir, L)
      BY <1>11, <1>12 DEF ShRoots
  <2>2. ShParent(2, mem.pt, L) /\ ShWindow(2, L)
      BY <1>11 DEF ShParent, ShWindow
  <2>3. ShChild(mem.pt, L) /\ ShLeaf(mem.pt, L) /\ ShData(mem.pt, L)
      BY <1>6, <1>11 DEF ShChild, ShLeaf, ShData
  <2> QED BY <1>11, <2>1, <2>2, <2>3 DEF Shape
<1>14. Good(2, mem, pgdir, L)
    BY <1>8, <1>13 DEF Good
<1>15. WindowOk(mem, pgdir)
    BY <1>12 DEF WindowOk
<1> QED BY <1>1, <1>14, <1>15 DEF PInv

Pmap32Inv == loose \in BOOLEAN /\ (loose \/ PInv(mem, pgdir, gap))

(* An entry that is loose once stays so. *)
LEMMA LooseStays ==
    ASSUME loose \in BOOLEAN, [Next]_vars
    PROVE  loose' \in BOOLEAN /\ (loose => loose')
<1>1. ASSUME NEW e \in Env, env_setup_vm(e) \/ env_free(e) PROVE loose' = loose
    BY <1>1 DEF env_setup_vm, env_free
<1>2. ASSUME NEW e \in Env, NEW va \in UserVa, sys_mem_alloc(e, va)
      PROVE  loose' = (loose \/ ~Room(e, va))
    BY <1>2 DEF sys_mem_alloc
<1>3. ASSUME NEW src \in Env, NEW dst \in Env, NEW srcva \in UserVa, NEW dstva \in UserVa,
             sys_mem_map(src, srcva, dst, dstva)
      PROVE  loose' = loose
    BY <1>3 DEF sys_mem_map
<1>4. ASSUME NEW e \in Env, NEW va \in UserVa, sys_mem_unmap(e, va) \/ sys_sector(e, va)
      PROVE  loose' = loose
    BY <1>4 DEF sys_mem_unmap, sys_sector
<1>5. ASSUME UNCHANGED vars PROVE loose' = loose
    BY <1>5 DEF vars
<1> QED BY <1>1, <1>2, <1>3, <1>4, <1>5 DEF Next

LEMMA NextStep == Pmap32Inv /\ NoWrap' /\ [Next]_vars => loose' \/ Step
<1>a. SUFFICES ASSUME Pmap32Inv, NoWrap', [Next]_vars, ~loose' PROVE Step
    OBVIOUS
<1>b. PInv(mem, pgdir, gap)
    BY <1>a, LooseStays DEF Pmap32Inv
<1>1. ASSUME NEW e \in Env, env_setup_vm(e) PROVE Step
    BY <1>a, <1>b, <1>1, DoSetup
<1>2. ASSUME NEW e \in Env, env_free(e) PROVE Step
    BY <1>a, <1>b, <1>2, DoFree
<1>3. ASSUME NEW e \in Env, NEW va \in UserVa, sys_mem_alloc(e, va) PROVE Step
    BY <1>a, <1>b, <1>3, DoAlloc
<1>4. ASSUME NEW src \in Env, NEW dst \in Env, NEW srcva \in UserVa, NEW dstva \in UserVa,
             sys_mem_map(src, srcva, dst, dstva)
      PROVE  Step
    BY <1>a, <1>b, <1>4, DoMap
<1>5. ASSUME NEW e \in Env, NEW va \in UserVa, sys_mem_unmap(e, va) PROVE Step
    BY <1>a, <1>b, <1>5, DoUnmap
<1>6. ASSUME NEW e \in Env, NEW va \in UserVa, sys_sector(e, va) PROVE Step
    BY <1>a, <1>b, <1>6, DoSector
<1>7. ASSUME UNCHANGED vars PROVE Step
  <2>1. mem' = mem /\ pgdir' = pgdir /\ gap' = gap
      BY <1>7 DEF vars
  <2> QED BY <1>b, <2>1, Nothing DEF Step
<1> QED BY <1>1, <1>2, <1>3, <1>4, <1>5, <1>6, <1>7, <1>a DEF Next

(* Every step of the Sv32 half of kern/pmap.c keeps the counts, the trees  *)
(* and the window right, until sys_mem_alloc leaves an entry without its   *)
(* reference, and as long as no page gets 2^16 pointers.                   *)
THEOREM Pmap32Invariant == Spec /\ []NoWrap => []Pmap32Inv
<1>1. Init => Pmap32Inv
  <2>1. Init => loose = FALSE
      BY DEF Init
  <2> QED BY <2>1, InitInv DEF Pmap32Inv
<1>2. Pmap32Inv /\ NoWrap' /\ [Next]_vars => Pmap32Inv'
  <2> SUFFICES ASSUME Pmap32Inv, NoWrap', [Next]_vars PROVE Pmap32Inv'
      OBVIOUS
  <2>1. loose' \in BOOLEAN
      BY LooseStays DEF Pmap32Inv
  <2>2. loose' \/ PInv(mem', pgdir', gap')
      BY NextStep DEF Step
  <2> QED BY <2>1, <2>2 DEF Pmap32Inv
<1> QED BY <1>1, <1>2, PTL DEF Spec

LEMMA AliveRoot ==
    ASSUME NEW L, Good(2, mem, pgdir, L), NEW e \in Alive
    PROVE  e \in Env /\ pgdir[e] \in Page /\ L.lev[pgdir[e]] = 2
<1>1. e \in Env /\ pgdir[e] \in Page
    BY GoodTypes DEF Alive, Ptr
<1> QED BY <1>1, RootLev

(* Every table is in the tree of a live environment. *)
LEMMA LabelledReached ==
    ASSUME NEW L, Good(2, mem, pgdir, L), NEW x \in Page, L.lev[x] > 0
    PROVE  \E e \in Alive : x \in Tables(mem, pgdir[e])
<1>1. /\ \A y \in Page : L.lev[y] \in Nat /\ L.par[y] \in Page /\ L.lev[y] <= 2
      /\ NoPage \notin Page
    BY GoodTypes, PageAssumption
<1>2. ASSUME NEW r \in Page, L.lev[r] = 2 PROVE \E e \in Alive : pgdir[e] = r
    BY <1>1, <1>2 DEF Good, Shape, ShRoots, Alive
<1>3. CASE L.lev[x] = 2
  <2>1. PICK e \in Alive : pgdir[e] = x
      BY <1>2, <1>3
  <2>2. x \in Tables(mem, pgdir[e])
      BY <2>1 DEF Tables
  <2> QED BY <2>2
<1>4. CASE L.lev[x] = 1
  <2>1. PICK r \in Page : r = L.par[x]
      BY <1>1
  <2>2. L.lev[r] = 2
      BY <1>4, <2>1 DEF Good, Shape, ShParent
  <2>3. PICK e \in Alive : pgdir[e] = r
      BY <1>2, <2>2
  <2>4. x \in Tables(mem, r)
      BY <1>4, <2>1, <2>2, TablesAre
  <2> QED BY <2>3, <2>4
<1> QED BY <1>1, <1>3, <1>4

(* pp_ref counts the pointers to a page, and a page that is not free can   *)
(* be reached from a live directory: destroy_pgdir, which takes the window *)
(* for one of the tables it destroys, neither leaks nor frees early.       *)
THEOREM Pmap32Counts == Spec /\ []NoWrap => []CountedAndReached
<1>1. Pmap32Inv => CountedAndReached
  <2> SUFFICES ASSUME Pmap32Inv, ~loose PROVE CountedAndReached
      BY DEF CountedAndReached, RefCountsPointers
  <2> DEFINE trees == UNION {Tables(mem, pgdir[e]) : e \in Alive}
  <2>1. PICK L : Good(2, mem, pgdir, L)
      BY DEF Pmap32Inv, PInv
  <2>2. RefCountsPointers
    <3>1. \A x \in Page : mem.ref[x] = Cnt(mem.pt, pgdir, x)
        BY <2>1 DEF Good, Counted
    <3>2. \A x \in Page : Pointers(x) = Cnt(mem.pt, pgdir, x)
        BY DEF Pointers, Cnt, Into, Own
    <3> QED BY <3>1, <3>2 DEF RefCountsPointers
  <2>3. ASSUME NEW x \in Page, L.lev[x] > 0 PROVE x \in trees
    <3>1. PICK e \in Alive : x \in Tables(mem, pgdir[e])
        BY <2>1, <2>3, LabelledReached
    <3> QED BY <3>1
  <2>4. ASSUME NEW p \in Page \ mem.free
        PROVE  p \in trees \/ \E t \in trees, i \in Vpn : mem.pt[t][i] = p
    <3> HIDE DEF trees
    <3>1. \/ \E e \in Env : pgdir[e] = p
          \/ \E t \in Page, i \in Vpn : L.lev[t] > 0 /\ mem.pt[t][i] = p
        BY <2>1, Reached
    <3>2. CASE \E e \in Env : pgdir[e] = p
      <4>1. L.lev[p] = 2
          BY <2>1, <3>2 DEF Good, Shape, ShRoots
      <4> QED BY <2>3, <4>1
    <3>3. CASE \E t \in Page, i \in Vpn : L.lev[t] > 0 /\ mem.pt[t][i] = p
        BY <2>3, <3>3
    <3> QED BY <3>1, <3>2, <3>3
  <2> QED BY <2>2, <2>4 DEF CountedAndReached
<1> QED BY <1>1, Pmap32Invariant, PTL

(* What a process reads at PAGE_TABLE is the table that translates the     *)
(* address, and the directory is where UPGDIR says, until memory has run   *)
(* out or a sector was read to where there was no table.                   *)
THEOREM Pmap32Window == Spec /\ []NoWrap => []WindowShowsTables
<1>1. Pmap32Inv => WindowShowsTables
  <2> SUFFICES ASSUME Pmap32Inv, ~loose, ~gap, NEW e \in Alive, NEW va \in UserVa
               PROVE  /\ L0(mem, pgdir[e], va) # NoPage =>
                            get_pa(mem, pgdir[e], <<PPT, va[1]>>) = L0(mem, pgdir[e], va)
                      /\ get_pa(mem, pgdir[e], <<PPT, PPT>>) = pgdir[e]
      BY DEF WindowShowsTables
  <2>1. PICK L : Good(2, mem, pgdir, L)
      BY DEF Pmap32Inv, PInv
  <2>2. e \in Env /\ pgdir[e] \in Page
      BY <2>1, AliveRoot
  <2>3. DirShown(mem, pgdir[e]) /\ Shown(mem, pgdir[e], va)
      BY <2>2 DEF Pmap32Inv, PInv, WindowOk
  <2> QED BY <2>3 DEF Shown, DirShown
<1> QED BY <1>1, Pmap32Invariant, PTL

(* The mappings that OneEntryChanges counts are those of Moved. *)
LEMMA MappingIs ==
    {x \in Env \X UserVa : Mapping[x] # Mapping'[x]} = Moved(mem, pgdir, mem', pgdir')
<1>1. ASSUME NEW x \in Env \X UserVa
      PROVE  /\ Mapping[x] = get_pa(mem, pgdir[x[1]], x[2])
             /\ Mapping'[x] = get_pa(mem', pgdir'[x[1]], x[2])
    BY DEF Mapping, get_pa, L0, Entry
<1> QED BY <1>1 DEF Moved

LEMMA AtMostOne ==
    ASSUME NEW S, NEW x, S \subseteq {x}
    PROVE  Cardinality(S) <= 1
<1>1. CASE S = {}
    BY <1>1, FS_EmptySet
<1>2. CASE S = {x}
    BY <1>2, FS_Singleton
<1> QED BY <1>1, <1>2

(* A call changes the mapping of one address of one environment, or it     *)
(* destroys an environment: whichever tables it makes or shares in the     *)
(* window on the way, and whether it fails or not.                         *)
THEOREM Pmap32OneEntry == Spec /\ []NoWrap => OneEntryChanges
<1> DEFINE changed == {x \in Env \X UserVa : Mapping[x] # Mapping'[x]}
           Once == \/ loose'
                   \/ Cardinality(changed) <= 1
                   \/ \E e \in Alive \ Alive' : changed \subseteq {e} \X UserVa
<1>1. Pmap32Inv /\ NoWrap' /\ [Next]_vars => [Once]_vars
  <2> SUFFICES ASSUME Pmap32Inv, NoWrap', [Next]_vars, ~loose' PROVE Once
      OBVIOUS
  <2>1. OneMove(mem, pgdir, mem', pgdir')
      BY NextStep DEF Step
  <2>2. changed = Moved(mem, pgdir, mem', pgdir')
      BY MappingIs
  <2> HIDE DEF changed
  <2>3. CASE \E x \in Env \X UserVa : changed \subseteq {x}
      BY <2>3, AtMostOne
  <2>4. CASE changed = {}
      BY <2>4, FS_EmptySet
  <2>5. CASE \E e \in Env : /\ pgdir[e] # NoPage /\ pgdir'[e] = NoPage
                            /\ changed \subseteq {e} \X UserVa
      BY <2>5 DEF Alive
  <2> QED BY <2>1, <2>2, <2>3, <2>4, <2>5 DEF OneMove
<1> QED BY <1>1, Pmap32Invariant, PTL DEF Spec, OneEntryChanges
=============================================================================
