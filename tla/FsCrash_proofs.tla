--------------------------- MODULE FsCrash_proofs ---------------------------
(***************************************************************************)
(* The disk side of the system: the file system of fs/fs.c under the       *)
(* requests of fs/serv.c with crashes (FsCrash), and at the end the driver *)
(* of kern/virtio.c below it (Virtio).                                     *)
(*                                                                         *)
(* The file system's part goes from the bottom to the top: loops, writes   *)
(* under way, views of blocks; then one lemma per function of fs.c, in the *)
(* order in which they call each other, that says what the function keeps  *)
(* (Reads: memory stays what it was; Works: it may change, but only in the *)
(* frame); then one lemma per action of FsCrash, and the theorems.         *)
(***************************************************************************)
EXTENDS FsInv, Virtio, FiniteSetTheorems, WellFoundedInduction, SequenceTheorems, TLAPS

(* What is assumed of the sizes in include/fs.h, as facts.                 *)
LEMMA Sizes ==
    /\ NBLOCK \in Nat /\ NBLOCK > 3
    /\ BY2BLK \in Nat /\ BY2BLK > 0
    /\ FILE2BLK \in Nat /\ FILE2BLK > 0
    /\ NDIRECT \in Nat /\ NDIRECT > 0
    /\ NINDIRECT \in Nat /\ NDIRECT < NINDIRECT
    /\ MaxPages \in Nat /\ MaxPages > 2
  BY SizeAssumption

(* Induction up to n. *)
LEMMA CountUp ==
    ASSUME NEW n \in Nat, NEW T, 0 \in T, \A k \in 1..n : k - 1 \in T => k \in T
    PROVE  \A k \in 0..n : k \in T
<1> DEFINE Bad == {k \in 0..n : k \notin T}
           R == OpToRel(<, Nat)
<1>1. Bad = {}
  <2> SUFFICES ASSUME Bad # {} PROVE FALSE
    OBVIOUS
  <2>1. Bad \subseteq Nat
    OBVIOUS
  <2>2. PICK m \in Bad : \A j \in Bad : ~(<<j, m>> \in R)
    <3> HIDE DEF Bad
    <3> QED BY <2>1, NatLessThanWellFounded, WFMin
  <2>3. \A j \in Bad : ~(j < m)
    <3> HIDE DEF Bad
    <3> QED BY <2>1, <2>2 DEF OpToRel
  <2>4. m \in 1..n /\ m \notin T
    OBVIOUS
  <2>5. m - 1 \notin Bad
    BY <2>3, <2>4
  <2>6. m - 1 \in T
    BY <2>4, <2>5
  <2> QED BY <2>4, <2>6
<1> QED BY <1>1

(* A loop whose passes stay in S has a run. *)
Steps(S, n, step, s) == n \in Nat /\ step \in [S \X (1..n) -> S] /\ s \in S
IsRun(f, S, n, step, s) ==
    f \in [0..n -> S] /\ f[0] = s /\ \A k \in 1..n : f[k] = step[<<f[k - 1], k>>]

(* Such a run exists: it is built with a recursive function by choosing,   *)
(* for every k, the run of the first k passes.                             *)
LEMMA Loop ==
    ASSUME NEW S, NEW n, NEW step, NEW s, Steps(S, n, step, s)
    PROVE  \E f : IsRun(f, S, n, step, s)
<1> USE DEF Steps
<1> DEFINE Ok(f, m) == f \in [0..m -> S] /\ f[0] = s
                       /\ \A k \in 1..m : f[k] = step[<<f[k - 1], k>>]
           T == {m \in 0..n : \E f : Ok(f, m)}
<1>1. 0 \in T
  <2> DEFINE h == [k \in 0..0 |-> s]
  <2>1. Ok(h, 0)
    OBVIOUS
  <2> HIDE DEF Ok, h
  <2> QED BY <2>1
<1>2. ASSUME NEW m \in 1..n, m - 1 \in T PROVE m \in T
  <2>1. PICK f : Ok(f, m - 1)
      BY <1>2
  <2> DEFINE g == [k \in 0..m |-> IF k = m THEN step[<<f[m - 1], m>>] ELSE f[k]]
  <2>2. g \in [0..m -> S]
    <3>1. ASSUME NEW k \in 0..m PROVE g[k] \in S
      <4>1. m - 1 \in 0..m - 1 /\ f[m - 1] \in S
        BY <2>1
      <4>2. CASE k = m
        BY <4>1, <4>2
      <4>3. CASE k # m
        <5>1. k \in 0..m - 1
          BY <4>3
        <5> QED BY <2>1, <4>3, <5>1
      <4> QED BY <4>2, <4>3
    <3> QED BY <3>1
  <2>3. g[0] = s
      BY <2>1
  <2>4. ASSUME NEW k \in 1..m PROVE g[k] = step[<<g[k - 1], k>>]
    <3>1. k - 1 \in 0..m /\ k - 1 # m /\ k \in 0..m
      OBVIOUS
    <3>2. g[k - 1] = f[k - 1]
      BY <3>1
    <3>3. CASE k = m
      BY <3>1, <3>2, <3>3
    <3>4. CASE k # m
      <4>1. k \in 1..m - 1
        BY <3>4
      <4> QED BY <2>1, <3>1, <3>2, <3>4, <4>1
    <3> QED BY <3>3, <3>4
  <2>5. Ok(g, m)
    BY <2>2, <2>3, <2>4
  <2>6. \E h : Ok(h, m)
    <3> HIDE DEF Ok, g
    <3> QED BY <2>5
  <2> QED BY <2>6
<1>3. n \in T
  <2> HIDE DEF T
  <2> QED BY <1>1, <1>2, CountUp
<1>4. PICK f : Ok(f, n)
  BY <1>3
<1> QED BY <1>4 DEF IsRun


-----------------------------------------------------------------------------
(* The writes that are under way. *)

(* The largest element of a set is its maximum.                            *)
LEMMA MaxIs ==
    ASSUME NEW S, S \subseteq Int, NEW x \in S, \A y \in S : y <= x
    PROVE  Max(S) = x
<1>1. ASSUME NEW z \in S, \A y \in S : z >= y PROVE z = x
  BY <1>1
<1>2. Max(S) \in S /\ \A y \in S : Max(S) >= y
  BY DEF Max
<1> QED BY <1>1, <1>2

(* A set of positions that is not empty has a maximum.                     *)
LEMMA HasMax ==
    ASSUME NEW n \in Nat, NEW S, S \subseteq 1..n, S # {}
    PROVE  Max(S) \in S /\ \A y \in S : y <= Max(S)
<1> DEFINE T == {k \in 0..n : (\E x \in S : x <= k) => \E x \in S : x <= k /\ \A y \in S : y <= k => y <= x}
<1>1. 0 \in T
  OBVIOUS
<1>2. ASSUME NEW k \in 1..n, k - 1 \in T PROVE k \in T
  <2>1. CASE k \in S
    BY <2>1
  <2>2. CASE k \notin S
    BY <1>2, <2>2
  <2> QED BY <2>1, <2>2
<1>3. n \in T
  <2> HIDE DEF T
  <2> QED BY <1>1, <1>2, CountUp
<1>4. \A y \in S : y <= n /\ y \in Int
  OBVIOUS
<1>5. PICK x \in S : \A y \in S : y <= x
  BY <1>3, <1>4
<1>6. Max(S) = x
  BY <1>4, <1>5, MaxIs
<1> QED BY <1>5, <1>6

(* None of the writes got there: the disk is as it was.                    *)
LEMMA AfterNone ==
    ASSUME NEW d, NEW w, d \in [Bno -> Blk]
    PROVE  After(d, w, 0) = d
<1>1. ASSUME NEW b \in Bno PROVE {j \in 1..0 : w[j][1] = b} = {}
  OBVIOUS
<1> QED BY <1>1 DEF After

(* Writes that are under way.                                              *)
Writes == Seq(Bno \X Blk)

(* One write more at the end changes nothing of what the first k do.       *)
LEMMA AfterPrefix ==
    ASSUME NEW d, NEW w \in Writes, NEW e \in Bno \X Blk, NEW k \in 0..Len(w)
    PROVE  After(d, Append(w, e), k) = After(d, w, k)
<1>1. \A j \in 1..k : Append(w, e)[j] = w[j]
  BY DEF Writes
<1>2. ASSUME NEW b \in Bno PROVE After(d, Append(w, e), k)[b] = After(d, w, k)[b]
  <2> DEFINE on == {j \in 1..k : w[j][1] = b}
  <2>1. {j \in 1..k : Append(w, e)[j][1] = b} = on
    BY <1>1
  <2>2. After(d, w, k)[b] = IF on = {} THEN d[b] ELSE w[Max(on)][2]
    BY DEF After
  <2>3. After(d, Append(w, e), k)[b] = IF on = {} THEN d[b] ELSE Append(w, e)[Max(on)][2]
    BY <2>1 DEF After
  <2>4. on # {} => Max(on) \in 1..k
    <3>1. k \in Nat /\ on \subseteq 1..k
      BY DEF Writes
    <3> QED BY <3>1, HasMax
  <2> QED BY <1>1, <2>2, <2>3, <2>4
<1> QED BY <1>2 DEF After

(* The last write changes its block and no other.                          *)
LEMMA AfterLast ==
    ASSUME NEW d, NEW w \in Writes, NEW b \in Bno, NEW c \in Blk
    PROVE  After(d, Append(w, <<b, c>>), Len(w) + 1) = [After(d, w, Len(w)) EXCEPT ![b] = c]
<1> DEFINE u == Append(w, <<b, c>>)
           n == Len(w) + 1
<1>1. n \in Nat /\ u[n] = <<b, c>> /\ \A j \in 1..Len(w) : u[j] = w[j]
  BY DEF Writes
<1>2. ASSUME NEW a \in Bno PROVE After(d, u, n)[a] = [After(d, w, Len(w)) EXCEPT ![b] = c][a]
  <2> DEFINE on == {j \in 1..n : u[j][1] = a}
             old == {j \in 1..Len(w) : w[j][1] = a}
  <2>1. After(d, u, n)[a] = IF on = {} THEN d[a] ELSE u[Max(on)][2]
    BY DEF After
  <2>2. After(d, w, Len(w))[a] = IF old = {} THEN d[a] ELSE w[Max(old)][2]
    BY DEF After
  <2>3. CASE a = b
    <3>1. n \in on /\ on \subseteq Int /\ \A y \in on : y <= n
      BY <1>1, <2>3
    <3>2. Max(on) = n
      BY <3>1, MaxIs
    <3>3. After(d, u, n)[a] = c
      <4>1. u[n][2] = c
        BY <1>1
      <4> HIDE DEF on, u, n
      <4> QED BY <2>1, <3>1, <3>2, <4>1
    <3>4. a \in DOMAIN After(d, w, Len(w))
      BY DEF After
    <3> QED BY <2>3, <3>3, <3>4
  <2>4. CASE a # b
    <3>1. on = old
      <4>1. \A j \in 1..n : j \in on <=> j \in old
        BY <1>1, <2>4 DEF Writes
      <4> QED BY <1>1, <4>1 DEF Writes
    <3>2. old # {} => Max(old) \in 1..Len(w)
      <4>1. Len(w) \in Nat /\ old \subseteq 1..Len(w)
        BY DEF Writes
      <4> QED BY <4>1, HasMax
    <3>3. After(d, u, n)[a] = After(d, w, Len(w))[a]
      BY <1>1, <2>1, <2>2, <3>1, <3>2
    <3> QED BY <2>4, <3>3 DEF After
  <2> QED BY <2>3, <2>4
<1> QED BY <1>2 DEF After

(* The first write gets to the disk: what the others will do to it is the  *)
(* same.                                                                   *)
LEMMA AfterTail ==
    ASSUME NEW d, d \in [Bno -> Blk], NEW w \in Writes, w # <<>>, NEW k \in 0..Len(w) - 1
    PROVE  After([d EXCEPT ![Head(w)[1]] = Head(w)[2]], Tail(w), k) = After(d, w, k + 1)
<1> DEFINE e == [d EXCEPT ![Head(w)[1]] = Head(w)[2]]
<1>1. /\ Len(w) \in Nat /\ Len(w) >= 1 /\ k \in Nat /\ k + 1 <= Len(w) /\ k <= Len(w) - 1
      /\ w[1] = Head(w) /\ \A j \in 1..k : Tail(w)[j] = w[j + 1]
      /\ Head(w) \in Bno \X Blk
  BY DEF Writes
<1>2. ASSUME NEW a \in Bno PROVE After(e, Tail(w), k)[a] = After(d, w, k + 1)[a]
  <2> DEFINE on == {j \in 1..k : Tail(w)[j][1] = a}
             all == {j \in 1..k + 1 : w[j][1] = a}
  <2>1. After(e, Tail(w), k)[a] = IF on = {} THEN e[a] ELSE Tail(w)[Max(on)][2]
    BY DEF After
  <2>2. After(d, w, k + 1)[a] = IF all = {} THEN d[a] ELSE w[Max(all)][2]
    BY DEF After
  <2>3. \A j \in 1..k : j \in on <=> j + 1 \in all
    BY <1>1
  <2>4. \A j \in all : j = 1 \/ (j - 1 \in 1..k /\ j - 1 \in on)
    BY <1>1, <2>3
  <2>5. CASE on # {}
    <3>1. Max(on) \in on /\ \A y \in on : y <= Max(on)
      <4>1. on \subseteq 1..k
        OBVIOUS
      <4> HIDE DEF on
      <4> QED BY <1>1, <2>5, <4>1, HasMax
    <3> DEFINE x == Max(on)
    <3> HIDE DEF x
    <3>2. x \in 1..k /\ x \in on /\ \A y \in on : y <= x
      BY <3>1 DEF x
    <3>3. x + 1 \in all /\ \A y \in all : y <= x + 1
      BY <2>3, <2>4, <3>2
    <3>4. Max(all) = x + 1
      <4>1. all \subseteq Int
        OBVIOUS
      <4> HIDE DEF all
      <4> QED BY <3>3, <4>1, MaxIs
    <3> QED BY <1>1, <2>1, <2>2, <2>5, <3>2, <3>3, <3>4 DEF x
  <2>6. CASE on = {}
    <3>1. CASE w[1][1] = a
      <4>0. 1 \in all
        BY <1>1, <3>1
      <4>1. 1 \in all /\ \A j \in all : j = 1
        <5> HIDE DEF all, on
        <5> QED BY <2>4, <2>6, <4>0
      <4>2. Max(all) = 1
        <5>1. all \subseteq Int /\ \A j \in all : j <= 1
          BY <4>1
        <5> HIDE DEF all
        <5> QED BY <4>1, <5>1, MaxIs
      <4> QED BY <1>1, <2>1, <2>2, <2>6, <3>1, <4>1, <4>2
    <3>2. CASE w[1][1] # a
      <4>1. all = {}
        BY <1>1, <2>4, <2>6, <3>2
      <4> QED BY <1>1, <2>1, <2>2, <2>6, <3>2, <4>1
    <3> QED BY <3>1, <3>2
  <2> QED BY <2>5, <2>6
<1> QED BY <1>2 DEF After

(* A read finds what the disk will hold. *)
LEMMA ReadIsV ==
    ASSUME NEW s \in St, NEW b \in Bno
    PROVE  ide_read(s, b) = V(s)[b]
  BY DEF ide_read, V, After

(* What is known of a tree: its blocks are beyond the bitmap, its          *)
(* locations are entries in them or the root.                              *)
LEMMA TreeFacts ==
    ASSUME NEW Z, TreeOk(Z)
    PROVE  /\ Z.d \subseteq Bno /\ Z.p \subseteq Bno /\ Z.d \subseteq Z.p
           /\ \A b \in Z.p : b > 2 /\ b \in Int /\ b \in Real
           /\ Root \in Z.dirs /\ Root \in Locs(Z) /\ Z.dirs \subseteq Locs(Z)
           /\ \A f \in Locs(Z) : /\ f \in Loc /\ f[1] \in Bno /\ f[2] \in Slot
                                 /\ f # NoLoc /\ f[1] # 0 /\ f[1] # 2
                                 /\ f = <<f[1], f[2]>>
                                 /\ f = Root \/ f[1] \in Z.d
                                 /\ f[1] = 1 <=> f = Root
           /\ \A b \in Z.d, j \in Slot : <<b, j>> \in Locs(Z)
           /\ 0 \in Slot /\ {0, 1, 2} \subseteq Bno
<1> USE Sizes
<1>1. /\ Z.d \subseteq Bno /\ Z.p \subseteq Bno /\ Z.d \subseteq Z.p
      /\ \A b \in Z.p : b > 2 /\ b \in Int /\ b \in Real
      /\ Root \in Z.dirs /\ Z.dirs \subseteq Locs(Z)
  BY DEF TreeOk, Trees, Bno, Real
<1>2. Root \in Locs(Z) /\ 0 \in Slot /\ {0, 1, 2} \subseteq Bno /\ Root = <<1, 0>>
      /\ NoLoc = <<0, 0>>
  BY DEF Locs, Slot, Bno, Root, NoLoc
<1>3. \A b \in Z.d, j \in Slot : <<b, j>> \in Locs(Z)
  BY DEF Locs
<1>4. ASSUME NEW f \in Locs(Z)
      PROVE  /\ f \in Loc /\ f[1] \in Bno /\ f[2] \in Slot
             /\ f # NoLoc /\ f[1] # 0 /\ f[1] # 2
             /\ f = <<f[1], f[2]>>
             /\ f = Root \/ f[1] \in Z.d
             /\ f[1] = 1 <=> f = Root
  <2>1. CASE f = Root
    BY <1>2, <2>1 DEF Loc
  <2>2. CASE f \in Z.d \X Slot
    <3>1. f[1] \in Z.d /\ f[2] \in Slot /\ f = <<f[1], f[2]>>
      BY <2>2
    <3>2. f[1] \in Bno /\ f[1] > 2 /\ f[1] \in Int
      BY <1>1, <3>1
    <3> QED BY <1>2, <2>2, <3>1, <3>2 DEF Loc
  <2> QED BY <2>1, <2>2 DEF Locs
<1> QED BY <1>1, <1>2, <1>3, <1>4

(* The error codes are negative, that of a search that goes on is not.     *)
LEMMA Codes ==
    /\ PANIC \in Int /\ PANIC < 0 /\ PANIC # E_NOT_FOUND
    /\ E_INVAL \in Int /\ E_INVAL < 0 /\ E_NO_MEM \in Int /\ E_NO_MEM < 0
    /\ E_NO_DISK \in Int /\ E_NO_DISK < 0 /\ E_NOT_FOUND \in Int /\ E_NOT_FOUND < 0
    /\ E_BAD_PATH \in Int /\ E_BAD_PATH < 0 /\ E_FILE_EXISTS \in Int /\ E_FILE_EXISTS < 0
    /\ GoOn \in Int /\ GoOn > 0
  BY DEF PANIC, E_INVAL, E_NO_MEM, E_NO_DISK, E_NOT_FOUND, E_BAD_PATH, E_FILE_EXISTS, GoOn

(* An entry that is not in use is a File.                                  *)
LEMMA NoFileType ==
    /\ NoFile \in FileRec /\ NoFile \in RootRec
    /\ [NoFile EXCEPT !.name = "junk"] \in FileRec
    /\ NoFile.dir = NoLoc /\ NoFile.indirect = 0
<1>1. NoLoc \in Loc
  BY Sizes DEF NoLoc, Loc, Bno, Slot
<1>2. [i \in 0..NDIRECT - 1 |-> 0] \in [Direct -> Nat]
  BY Sizes DEF Direct
<1>3. NoFile \in FileRec
  BY <1>1, <1>2 DEF NoFile, FileRec, FTYPE_REG, FTYPE_DIR, Name
<1>4. NoFile.dir = NoLoc /\ NoFile.indirect = 0
  BY DEF NoFile
<1>5. [NoFile EXCEPT !.name = "junk"] \in FileRec
  BY <1>3 DEF FileRec, Name
<1> QED BY <1>3, <1>4, <1>5 DEF RootRec

(* The kinds of a block tell the sets apart. *)
LEMMA Kinds ==
    /\ Zero.kind = "zero" /\ Stored.kind = "data" /\ Smashed.kind = "oops" /\ Unmapped.kind = "unmapped"
    /\ \A c \in FilesBlk : c.kind = "files" /\ c.f \in [Slot -> FileRec]
    /\ \A c \in SuperBlk : c.kind = "super" /\ c.f \in [{0} -> RootRec]
    /\ \A c \in WordsBlk : c.kind = "words" /\ c.w \in [Word -> Nat]
    /\ \A c \in BitmapBlk : c.kind = "bitmap" /\ c.free \subseteq Bno
    /\ \A c \in OtherBlk : c.kind \in {"zero", "data", "words"} /\ (c.kind = "words" => c \in WordsBlk)
                           /\ (c.kind = "zero" => c = Zero) /\ (c.kind = "data" => c = Stored)
    /\ \A c \in Blk : c.kind # "unmapped" /\ c # Unmapped
  BY DEF Zero, Stored, Smashed, Unmapped, FilesBlk, SuperBlk, WordsBlk, BitmapBlk, OtherBlk, Blk

(* What a view of the right shape holds in each block.                     *)
LEMMA ShapeFacts ==
    ASSUME NEW Z, TreeOk(Z), NEW m, Shape(m, Z)
    PROVE  /\ m \in [Bno -> Blk]
           /\ m[2].kind = "bitmap" /\ m[2].free \subseteq Bno /\ m[2] \in BitmapBlk
           /\ \A b \in m[2].free : b > 2 /\ b \notin Z.p /\ b \in Real
           /\ m[1].kind \in {"oops", "super"} /\ (m[1] # Smashed => m[1] \in SuperBlk)
           /\ m[0].kind \in {"zero", "super"}
           /\ \A b \in Z.d : m[b] \in FilesBlk /\ m[b].kind = "files"
           /\ \A b \in Bno : m[b].kind = "files" <=> b \in Z.d
           /\ \A b \in Bno : m[b].kind = "words" => m[b] \in WordsBlk /\ b > 2 /\ b \notin Z.d
           /\ \A b \in Bno : b > 2 /\ b \notin Z.d => m[b] \in OtherBlk
<1> USE TreeFacts
<1>1. /\ m \in [Bno -> Blk] /\ m[0] \in {Zero} \cup SuperBlk /\ m[1] \in {Smashed} \cup SuperBlk
      /\ m[2] \in BitmapBlk
      /\ \A b \in Bno : b > 2 => m[b] \in IF b \in Z.d THEN FilesBlk ELSE OtherBlk
      /\ \A b \in m[2].free : b > 2 /\ b \notin Z.p
  BY DEF Shape
<1>2. m[2].kind = "bitmap" /\ m[2].free \subseteq Bno
  BY <1>1, Kinds
<1>3. m[1].kind \in {"oops", "super"} /\ (m[1] # Smashed => m[1] \in SuperBlk) /\ m[0].kind \in {"zero", "super"}
  BY <1>1, Kinds
<1>4. \A b \in Bno : b > 2 /\ b \in Z.d => m[b] \in FilesBlk /\ m[b].kind = "files"
  BY <1>1, Kinds
<1>5. \A b \in Bno : b > 2 /\ b \notin Z.d => m[b] \in OtherBlk /\ m[b].kind # "files" /\ (m[b].kind = "words" => m[b] \in WordsBlk)
  BY <1>1, Kinds
<1>6. \A b \in Bno : b > 2 \/ b = 0 \/ b = 1 \/ b = 2
  BY DEF Bno
<1>7. \A b \in Z.d : b \in Bno /\ b > 2
  OBVIOUS
<1>8. \A b \in m[2].free : b \in Real
  BY <1>1, <1>2 DEF Real
<1>9. \A b \in Z.d : m[b] \in FilesBlk /\ m[b].kind = "files"
  BY <1>4, <1>7
<1>10. ASSUME NEW b \in Bno PROVE m[b].kind = "files" <=> b \in Z.d
  BY <1>2, <1>3, <1>5, <1>6, <1>9
<1>11. ASSUME NEW b \in Bno, m[b].kind = "words" PROVE m[b] \in WordsBlk /\ b > 2 /\ b \notin Z.d
  BY <1>2, <1>3, <1>5, <1>6, <1>9, <1>11
<1> QED BY <1>1, <1>2, <1>3, <1>5, <1>8, <1>9, <1>10, <1>11

(* The files that the properties look at are those of the tree.            *)
LEMMA AllFilesAre ==
    ASSUME NEW Z, TreeOk(Z), NEW m, Shape(m, Z)
    PROVE  AllFiles(m) = Locs(Z)
<1>1. \A f \in Bno \X Slot : m[f[1]].kind = "files" <=> f[1] \in Z.d
  BY ShapeFacts
<1>2. Z.d \subseteq Bno
  BY TreeFacts
<1> QED BY <1>1, <1>2 DEF AllFiles, Locs

(* A location of the tree holds a File.                                    *)
LEMMA FileInType ==
    ASSUME NEW Z, TreeOk(Z), NEW m, Shape(m, Z), NEW f \in Locs(Z)
    PROVE  /\ FileIn(m, f) \in FileRec
           /\ f = Root => FileIn(m, f) \in RootRec
           /\ f # Root => m[f[1]] \in FilesBlk /\ FileIn(m, f) = m[f[1]].f[f[2]]
           /\ (f = Root /\ m[1] # Smashed) => FileIn(m, f) = m[1].f[0]
<1>1. CASE f # Root
  <2>1. f[1] \in Z.d /\ f[2] \in Slot
    BY <1>1, TreeFacts
  <2>2. m[f[1]] \in FilesBlk /\ m[f[1]].kind = "files"
    BY <2>1, ShapeFacts
  <2>3. FileIn(m, f) = m[f[1]].f[f[2]]
    BY <2>2 DEF FileIn, Files
  <2> QED BY <1>1, <2>1, <2>2, <2>3, Kinds
<1>2. CASE f = Root /\ m[1] # Smashed
  <2>1. m[1] \in SuperBlk /\ m[1].kind = "super" /\ m[1].f \in [{0} -> RootRec]
    BY <1>2, ShapeFacts, Kinds
  <2>2. FileIn(m, f) = m[1].f[0]
    BY <1>2, <2>1 DEF FileIn, Files, Root
  <2> QED BY <1>2, <2>1, <2>2 DEF RootRec
<1>3. CASE f = Root /\ m[1] = Smashed
  <2>1. FileIn(m, f) = [NoFile EXCEPT !.name = "junk"]
    <3>1. Smashed.kind = "oops" /\ Smashed # Zero
      BY Kinds
    <3>2. 0 \in Slot
      BY TreeFacts
    <3> QED BY <1>3, <3>1, <3>2 DEF FileIn, Files, Root
  <2>2. [NoFile EXCEPT !.name = "junk"].dir = NoLoc
    BY DEF NoFile
  <2> QED BY <1>3, <2>1, <2>2, NoFileType DEF RootRec
<1> QED BY <1>1, <1>2, <1>3

(* A place is in a File or in a block of words.                            *)
LEMMA PlaceFacts ==
    ASSUME NEW Z, TreeOk(Z), NEW x \in Places(Z)
    PROVE  \/ x \in FilePlaces(Z) /\ x[1] = 1 /\ x[2] \in Locs(Z) /\ x[3] \in SafePlaces /\ x = <<1, x[2], x[3]>>
              /\ (x[3] = NINDIRECT \/ x[3] \in Direct)
           \/ x \in WordPlaces /\ x[1] = 2 /\ x[2] \in Bno /\ x[3] \in Word /\ x = <<2, x[2], x[3]>>
<1>1. CASE x \in FilePlaces(Z)
  <2>1. x[1] = 1 /\ x[2] \in Locs(Z) /\ x[3] \in SafePlaces /\ x = <<1, x[2], x[3]>>
    BY <1>1 DEF FilePlaces
  <2> QED BY <1>1, <2>1 DEF SafePlaces, Direct
<1>2. CASE x \in WordPlaces
  BY <1>2 DEF WordPlaces
<1> QED BY <1>1, <1>2 DEF Places

(* The places of a File and of a block of words are places.                *)
LEMMA PlaceMade ==
    ASSUME NEW Z, TreeOk(Z)
    PROVE  /\ \A f \in Locs(Z), i \in SafePlaces : <<1, f, i>> \in FilePlaces(Z) /\ <<1, f, i>> \in Places(Z)
           /\ \A b \in Bno, i \in Word : <<2, b, i>> \in WordPlaces /\ <<2, b, i>> \in Places(Z)
           /\ NINDIRECT \in SafePlaces /\ Direct \subseteq SafePlaces /\ Direct \subseteq Word
           /\ NINDIRECT \notin Direct /\ NINDIRECT \notin Word
  BY Sizes DEF FilePlaces, WordPlaces, Places, SafePlaces, Direct, Word

(* A place holds a number.                                                 *)
LEMMA AtNat ==
    ASSUME NEW Z, TreeOk(Z), NEW m, Shape(m, Z), NEW x \in Places(Z)
    PROVE  At(m, x) \in Nat
<1>1. CASE x \in FilePlaces(Z) /\ x[1] = 1 /\ x[2] \in Locs(Z) /\ (x[3] = NINDIRECT \/ x[3] \in Direct)
  <2>1. FileIn(m, x[2]) \in FileRec
    BY <1>1, FileInType
  <2>2. FileIn(m, x[2]).indirect \in Nat /\ FileIn(m, x[2]).direct \in [Direct -> Nat]
    BY <2>1 DEF FileRec
  <2> QED BY <1>1, <2>2 DEF At
<1>2. CASE x[1] = 2 /\ x[2] \in Bno /\ x[3] \in Word
  <2>1. m[x[2]].kind = "words" => m[x[2]].w \in [Word -> Nat]
    BY <1>2, ShapeFacts, Kinds
  <2> QED BY <1>2, <2>1 DEF At
<1> QED BY <1>1, <1>2, PlaceFacts

(* The block of f when f is x. *)
FileBlk(m, f, x) == [kind |-> IF f = Root THEN "super" ELSE "files",
                     f |-> [Files(m[f[1]]) EXCEPT ![f[2]] = x]]

(* The view m with c in block b.                                           *)
Put(m, b, c) == [m EXCEPT ![b] = c]

(* What is in the blocks then.                                             *)
LEMMA PutAt ==
    ASSUME NEW m, m \in [Bno -> Blk], NEW b \in Bno, NEW c \in Blk
    PROVE  /\ Put(m, b, c) \in [Bno -> Blk] /\ Put(m, b, c)[b] = c
           /\ \A a \in Bno : a # b => Put(m, b, c)[a] = m[a]
  BY DEF Put

(* What stays the same when a block that holds no Files changes. *)
LEMMA FilesSame ==
    ASSUME NEW Z, TreeOk(Z), NEW m, Shape(m, Z), Types(m, Z), NEW n, Shape(n, Z),
           \A a \in Z.d \cup {1} : n[a] = m[a]
    PROVE  /\ Types(n, Z)
           /\ \A g \in Locs(Z) : FileIn(n, g) = FileIn(m, g)
           /\ \A y \in FilePlaces(Z) : At(n, y) = At(m, y)
<1>1. \A g \in Locs(Z) : FileIn(n, g) = FileIn(m, g)
  <2>1. \A g \in Locs(Z) : g[1] \in Z.d \cup {1}
    BY TreeFacts
  <2> QED BY <2>1 DEF FileIn
<1>2. Types(n, Z)
  BY <1>1 DEF Types
<1>3. ASSUME NEW y \in FilePlaces(Z) PROVE At(n, y) = At(m, y)
  <2>1. y[1] = 1 /\ y[2] \in Locs(Z)
    BY DEF FilePlaces
  <2> QED BY <1>1, <2>1 DEF At
<1> QED BY <1>1, <1>2, <1>3

(* A File is stored: shape and types stay if its type does, and no other   *)
(* File and no word changes.                                               *)
LEMMA FilePut ==
    ASSUME NEW Z, TreeOk(Z), NEW m, Shape(m, Z), Types(m, Z), m[1] # Smashed,
           NEW f \in Locs(Z), NEW x \in FileRec, f = Root => x \in RootRec,
           x.type = FileIn(m, f).type,
           NEW n, n = Put(m, f[1], FileBlk(m, f, x))
    PROVE  /\ FileBlk(m, f, x) \in Blk
           /\ Shape(n, Z) /\ Types(n, Z) /\ n[1] # Smashed /\ n[2] = m[2]
           /\ FileIn(n, f) = x
           /\ \A g \in Locs(Z) : g # f => FileIn(n, g) = FileIn(m, g)
           /\ \A y \in WordPlaces : At(n, y) = At(m, y)
           /\ \A y \in FilePlaces(Z) : y[2] # f => At(n, y) = At(m, y)
<1> DEFINE c == FileBlk(m, f, x)
           Mid == /\ c \in Blk /\ Shape(n, Z) /\ n[1] # Smashed /\ n[2] = m[2]
                  /\ FileIn(n, f) = x
                  /\ \A g \in Locs(Z) : g # f => FileIn(n, g) = FileIn(m, g)
                  /\ \A b \in Bno : n[b].kind = m[b].kind /\ (n[b].kind = "words" => n[b] = m[b])
<1>0. f \in Loc /\ f[1] \in Bno /\ f[2] \in Slot /\ f = <<f[1], f[2]>> /\ Root = <<1, 0>>
  BY TreeFacts DEF Root
<1>1. ASSUME f # Root PROVE Mid
  <2>1. f[1] \in Z.d /\ f[1] # 1 /\ f[1] > 2
    BY <1>1, TreeFacts
  <2>2. m[f[1]] \in FilesBlk /\ Files(m[f[1]]) = m[f[1]].f /\ m[f[1]].f \in [Slot -> FileRec]
    BY <2>1, ShapeFacts, Kinds DEF Files
  <2>3. c = [kind |-> "files", f |-> [m[f[1]].f EXCEPT ![f[2]] = x]]
    BY <1>1, <2>2 DEF FileBlk
  <2>4. c \in FilesBlk /\ c.kind = "files" /\ c.f = [m[f[1]].f EXCEPT ![f[2]] = x]
    BY <1>0, <2>2, <2>3 DEF FilesBlk
  <2>5. c \in Blk
    BY <2>4 DEF Blk
  <2>6. n \in [Bno -> Blk] /\ n[f[1]] = c /\ \A a \in Bno : a # f[1] => n[a] = m[a]
    BY <1>0, <2>5, ShapeFacts, PutAt
  <2>7. n[0] = m[0] /\ n[1] = m[1] /\ n[2] = m[2]
    BY <2>1, <2>6, TreeFacts
  <2>8. Shape(n, Z)
    <3>1. \A b \in Bno : b > 2 => n[b] \in IF b \in Z.d THEN FilesBlk ELSE OtherBlk
      <4>1. \A b \in Bno : b > 2 => m[b] \in IF b \in Z.d THEN FilesBlk ELSE OtherBlk
        BY DEF Shape
      <4> QED BY <2>1, <2>4, <2>6, <4>1
    <3> QED BY <2>6, <2>7, <3>1 DEF Shape
  <2>9. FileIn(n, f) = x
    BY <1>0, <2>2, <2>4, <2>6 DEF FileIn, Files
  <2>10. ASSUME NEW g \in Locs(Z), g # f PROVE FileIn(n, g) = FileIn(m, g)
    <3>1. g \in Loc /\ g[1] \in Bno /\ g[2] \in Slot /\ g = <<g[1], g[2]>>
      BY TreeFacts
    <3>2. CASE g[1] # f[1]
      BY <2>6, <3>1, <3>2 DEF FileIn
    <3>3. CASE g[1] = f[1]
      <4>1. g[2] # f[2]
        BY <1>0, <2>10, <3>1, <3>3
      <4>2. FileIn(n, g) = c.f[g[2]] /\ FileIn(m, g) = m[f[1]].f[g[2]]
        BY <2>2, <2>4, <2>6, <3>3 DEF FileIn, Files
      <4> QED BY <2>2, <2>4, <3>1, <4>1, <4>2
    <3> QED BY <3>2, <3>3
  <2>11. \A b \in Bno : n[b].kind = m[b].kind /\ (n[b].kind = "words" => n[b] = m[b])
    BY <2>2, <2>4, <2>6, Kinds
  <2> QED BY <2>5, <2>6, <2>7, <2>8, <2>9, <2>10, <2>11
<1>2. ASSUME f = Root PROVE Mid
  <2>1. f[1] = 1 /\ f[2] = 0 /\ x \in RootRec
    BY <1>0, <1>2
  <2>2. m[1] \in SuperBlk /\ Files(m[1]) = m[1].f /\ m[1].f \in [{0} -> RootRec]
    BY ShapeFacts, Kinds DEF Files
  <2>3. c = [kind |-> "super", f |-> [m[1].f EXCEPT ![0] = x]]
    BY <1>2, <2>1, <2>2 DEF FileBlk
  <2>4. c \in SuperBlk /\ c.kind = "super" /\ c.f = [m[1].f EXCEPT ![0] = x]
    BY <2>1, <2>2, <2>3 DEF SuperBlk
  <2>5. c \in Blk /\ c # Smashed
    BY <2>4, Kinds DEF Blk
  <2>6. n \in [Bno -> Blk] /\ n[1] = c /\ \A a \in Bno : a # 1 => n[a] = m[a]
    BY <1>0, <2>1, <2>5, ShapeFacts, PutAt
  <2>7. n[0] = m[0] /\ n[2] = m[2]
    BY <2>6, TreeFacts
  <2>8. Shape(n, Z)
    <3>1. \A b \in Bno : b > 2 => n[b] \in IF b \in Z.d THEN FilesBlk ELSE OtherBlk
      <4>1. \A b \in Bno : b > 2 => m[b] \in IF b \in Z.d THEN FilesBlk ELSE OtherBlk
        BY DEF Shape
      <4> QED BY <2>6, <4>1
    <3> QED BY <2>4, <2>6, <2>7, <3>1 DEF Shape
  <2>9. FileIn(n, f) = x
    BY <2>1, <2>2, <2>4, <2>6 DEF FileIn, Files
  <2>10. ASSUME NEW g \in Locs(Z), g # f PROVE FileIn(n, g) = FileIn(m, g)
    <3>1. g[1] \in Bno /\ g[1] # 1
      BY <1>2, <2>10, TreeFacts
    <3> QED BY <2>6, <3>1 DEF FileIn
  <2>11. \A b \in Bno : n[b].kind = m[b].kind /\ (n[b].kind = "words" => n[b] = m[b])
    BY <2>2, <2>4, <2>6, Kinds
  <2>12. f[1] \in Bno /\ n[f[1]] = c /\ n[1] # Smashed
    BY <1>0, <2>1, <2>5, <2>6
  <2> QED BY <2>1, <2>5, <2>6, <2>7, <2>8, <2>9, <2>10, <2>11, <2>12
<1>3. Mid
  BY <1>1, <1>2
<1> HIDE DEF c
<1>4. Types(n, Z)
  BY <1>3 DEF Types
<1>5. ASSUME NEW y \in WordPlaces PROVE At(n, y) = At(m, y)
  <2>1. y[1] = 2 /\ y[2] \in Bno
    BY DEF WordPlaces
  <2> QED BY <1>3, <2>1 DEF At
<1>6. ASSUME NEW y \in FilePlaces(Z), y[2] # f PROVE At(n, y) = At(m, y)
  <2>1. y[1] = 1 /\ y[2] \in Locs(Z)
    BY DEF FilePlaces
  <2> QED BY <1>3, <1>6, <2>1 DEF At
<1> QED BY <1>3, <1>4, <1>5, <1>6 DEF c

(* A block of no entries is stored: no File changes, and only the words of *)
(* that block.                                                             *)
LEMMA OtherPut ==
    ASSUME NEW Z, TreeOk(Z), NEW m, Shape(m, Z), Types(m, Z),
           NEW b \in Bno, b > 2, b \notin Z.d, NEW c \in OtherBlk,
           NEW n, n = Put(m, b, c)
    PROVE  /\ c \in Blk /\ Shape(n, Z) /\ Types(n, Z) /\ n[1] = m[1] /\ n[2] = m[2] /\ n[b] = c
           /\ \A g \in Locs(Z) : FileIn(n, g) = FileIn(m, g)
           /\ \A y \in FilePlaces(Z) : At(n, y) = At(m, y)
           /\ \A y \in WordPlaces : y[2] # b => At(n, y) = At(m, y)
<1>1. c \in Blk
  BY DEF Blk
<1>2. n \in [Bno -> Blk] /\ n[b] = c /\ \A a \in Bno : a # b => n[a] = m[a]
  BY <1>1, ShapeFacts, PutAt
<1>3. n[0] = m[0] /\ n[1] = m[1] /\ n[2] = m[2]
  BY <1>2, TreeFacts
<1>4. Shape(n, Z)
  <2>1. \A a \in Bno : a > 2 => n[a] \in IF a \in Z.d THEN FilesBlk ELSE OtherBlk
    <3>1. \A a \in Bno : a > 2 => m[a] \in IF a \in Z.d THEN FilesBlk ELSE OtherBlk
      BY DEF Shape
    <3> QED BY <1>2, <3>1
  <2> QED BY <1>2, <1>3, <2>1 DEF Shape
<1>5. \A a \in Z.d \cup {1} : n[a] = m[a]
  BY <1>2, <1>3, TreeFacts
<1>6. ASSUME NEW y \in WordPlaces, y[2] # b PROVE At(n, y) = At(m, y)
  <2>1. y[1] = 2 /\ y[2] \in Bno
    BY DEF WordPlaces
  <2> QED BY <1>2, <1>6, <2>1 DEF At
<1>7. /\ Types(n, Z)
      /\ \A g \in Locs(Z) : FileIn(n, g) = FileIn(m, g)
      /\ \A y \in FilePlaces(Z) : At(n, y) = At(m, y)
  BY <1>4, <1>5, FilesSame
<1> QED BY <1>1, <1>2, <1>3, <1>4, <1>6, <1>7

(* The words of a block as the code reads them. *)
LEMMA WordsAt ==
    ASSUME NEW Z, TreeOk(Z), NEW m, Shape(m, Z), NEW b \in Bno
    PROVE  /\ Words(m[b]) \in [Word -> Nat]
           /\ \A i \in Word : \/ Words(m[b])[i] = At(m, <<2, b, i>>)
                              \/ Words(m[b])[i] = NBLOCK /\ At(m, <<2, b, i>>) = 0
           /\ b \in Z.d => \A i \in Word : Words(m[b])[i] = NBLOCK
<1>1. \A i \in Word : At(m, <<2, b, i>>) = IF m[b].kind = "words" THEN m[b].w[i] ELSE 0
  BY DEF At
<1>2. CASE m[b].kind = "words"
  <2>1. m[b].w \in [Word -> Nat] /\ m[b] # Zero /\ b \notin Z.d
    BY <1>2, ShapeFacts, Kinds
  <2>2. Words(m[b]) = m[b].w
    BY <1>2, <2>1 DEF Words
  <2> QED BY <1>1, <1>2, <2>1, <2>2
<1>3. CASE m[b] = Zero
  <2>1. Words(m[b]) = NoWords /\ Zero.kind = "zero" /\ b \notin Z.d
    BY <1>3, Kinds, ShapeFacts DEF Words
  <2>2. NoWords = [i \in Word |-> 0]
    BY DEF NoWords, Word
  <2> QED BY <1>1, <1>3, <2>1, <2>2
<1>4. CASE m[b].kind # "words" /\ m[b] # Zero
  <2>1. Words(m[b]) = [i \in Word |-> NBLOCK]
    BY <1>4 DEF Words, Word
  <2>2. NBLOCK \in Nat
    BY Sizes
  <2> QED BY <1>1, <1>4, <2>1, <2>2
<1> QED BY <1>2, <1>3, <1>4

(* A word is stored: the others stay, or were 0 and are out of range now   *)
(* (the block held no words before).                                       *)
LEMMA WordPut ==
    ASSUME NEW Z, TreeOk(Z), NEW m, Shape(m, Z), Types(m, Z),
           NEW b \in Bno, b > 2, b \notin Z.d, NEW i \in Word, NEW v \in Nat,
           NEW c, c = WordsOf([Words(m[b]) EXCEPT ![i] = v]), NEW n, n = Put(m, b, c)
    PROVE  /\ c \in OtherBlk /\ c \in Blk
           /\ At(n, <<2, b, i>>) = v
           /\ \A y \in WordPlaces : y # <<2, b, i>> =>
                 At(n, y) = At(m, y) \/ (At(n, y) = NBLOCK /\ At(m, y) = 0)
           /\ Shape(n, Z) /\ Types(n, Z) /\ n[1] = m[1] /\ n[2] = m[2] /\ n[b] = c
           /\ \A g \in Locs(Z) : FileIn(n, g) = FileIn(m, g)
           /\ \A y \in FilePlaces(Z) : At(n, y) = At(m, y)
<1> DEFINE w == [Words(m[b]) EXCEPT ![i] = v]
<1>1. w \in [Word -> Nat] /\ w[i] = v /\ \A j \in Word : j # i => w[j] = Words(m[b])[j]
  BY WordsAt
<1>2. c \in OtherBlk /\ \A j \in Word : (IF c.kind = "words" THEN c.w[j] ELSE 0) = w[j]
  <2>1. CASE w = NoWords
    <3>1. c = Zero /\ c.kind = "zero"
      BY <2>1, Kinds DEF WordsOf
    <3>2. \A j \in Word : w[j] = 0
      BY <2>1 DEF NoWords, Word
    <3> QED BY <3>1, <3>2 DEF OtherBlk
  <2>2. CASE w # NoWords
    <3>1. c = [kind |-> "words", w |-> w]
      BY <2>2 DEF WordsOf
    <3> HIDE DEF w
    <3>2. c \in WordsBlk /\ c.kind = "words" /\ c.w = w
      BY <1>1, <3>1 DEF WordsBlk
    <3> QED BY <3>2 DEF OtherBlk
  <2> QED BY <2>1, <2>2
<1>3. /\ c \in Blk /\ Shape(n, Z) /\ Types(n, Z) /\ n[1] = m[1] /\ n[2] = m[2] /\ n[b] = c
      /\ \A g \in Locs(Z) : FileIn(n, g) = FileIn(m, g)
      /\ \A y \in FilePlaces(Z) : At(n, y) = At(m, y)
      /\ \A y \in WordPlaces : y[2] # b => At(n, y) = At(m, y)
  BY <1>2, OtherPut
<1>4. \A j \in Word : At(n, <<2, b, j>>) = w[j]
  <2> HIDE DEF w
  <2> QED BY <1>2, <1>3 DEF At
<1>5. ASSUME NEW y \in WordPlaces, y # <<2, b, i>>
      PROVE  At(n, y) = At(m, y) \/ (At(n, y) = NBLOCK /\ At(m, y) = 0)
  <2>1. y[2] \in Bno /\ y[3] \in Word /\ y = <<2, y[2], y[3]>>
    BY DEF WordPlaces
  <2>2. CASE y[2] # b
    BY <1>3, <2>2
  <2>3. CASE y[2] = b
    <3>1. y[3] # i /\ y = <<2, b, y[3]>>
      BY <1>5, <2>1, <2>3
    <3>2. At(n, y) = Words(m[b])[y[3]]
      <4> HIDE DEF w
      <4> QED BY <1>1, <1>4, <2>1, <3>1
    <3>3. \/ Words(m[b])[y[3]] = At(m, <<2, b, y[3]>>)
          \/ Words(m[b])[y[3]] = NBLOCK /\ At(m, <<2, b, y[3]>>) = 0
      BY <2>1, WordsAt
    <3> QED BY <3>1, <3>2, <3>3
  <2> QED BY <2>2, <2>3
<1> HIDE DEF w
<1> QED BY <1>1, <1>2, <1>3, <1>4, <1>5

(* The bitmap is stored: no File and no word changes.                      *)
LEMMA BitmapPut ==
    ASSUME NEW Z, TreeOk(Z), NEW m, Shape(m, Z), Types(m, Z),
           NEW S, S \subseteq Bno, \A b \in S : b > 2 /\ b \notin Z.p,
           NEW n, n = Put(m, 2, BitmapOf(S))
    PROVE  /\ BitmapOf(S) \in Blk
           /\ Shape(n, Z) /\ Types(n, Z) /\ n[1] = m[1] /\ n[2] = BitmapOf(S) /\ n[2].free = S
           /\ \A a \in Bno : a # 2 => n[a] = m[a]
           /\ \A g \in Locs(Z) : FileIn(n, g) = FileIn(m, g)
           /\ \A y \in Places(Z) : At(n, y) = At(m, y)
<1>1. BitmapOf(S) \in BitmapBlk /\ BitmapOf(S).free = S /\ BitmapOf(S).kind = "bitmap"
  BY DEF BitmapOf, BitmapBlk
<1>2. BitmapOf(S) \in Blk
  BY <1>1 DEF Blk
<1>3. n \in [Bno -> Blk] /\ n[2] = BitmapOf(S) /\ \A a \in Bno : a # 2 => n[a] = m[a]
  BY <1>2, ShapeFacts, PutAt, TreeFacts
<1>4. n[0] = m[0] /\ n[1] = m[1]
  BY <1>3, TreeFacts
<1>5. Shape(n, Z)
  <2>1. \A a \in Bno : a > 2 => n[a] \in IF a \in Z.d THEN FilesBlk ELSE OtherBlk
    <3>1. \A a \in Bno : a > 2 => m[a] \in IF a \in Z.d THEN FilesBlk ELSE OtherBlk
      BY DEF Shape
    <3> QED BY <1>3, <3>1
  <2> QED BY <1>1, <1>3, <1>4, <2>1 DEF Shape
<1>6. \A a \in Z.d \cup {1} : n[a] = m[a]
  BY <1>3, <1>4, TreeFacts
<1>7. /\ Types(n, Z)
      /\ \A g \in Locs(Z) : FileIn(n, g) = FileIn(m, g)
      /\ \A y \in FilePlaces(Z) : At(n, y) = At(m, y)
  BY <1>5, <1>6, FilesSame
<1>8. ASSUME NEW y \in WordPlaces PROVE At(n, y) = At(m, y)
  <2>1. y[1] = 2 /\ y[2] \in Bno
    BY DEF WordPlaces
  <2>2. m[2].kind = "bitmap"
    BY ShapeFacts
  <2>3. CASE y[2] # 2
    BY <1>3, <2>1, <2>3 DEF At
  <2>4. CASE y[2] = 2
    BY <1>1, <1>3, <2>1, <2>2, <2>4 DEF At
  <2> QED BY <2>3, <2>4
<1> QED BY <1>1, <1>2, <1>3, <1>4, <1>5, <1>7, <1>8 DEF Places

(* Memory m becomes n: places keep what they hold or are cleared, except x0, *)
(* which gets block b that was in no place.                                *)
Fresh(m, b, Z) == b \in Real /\ b > 2 /\ b \notin m[2].free /\ b \notin Z.p
                  /\ \A y \in Places(Z) : At(m, y) # b

(* Memory stays right if every place keeps its number or drops it, but for *)
(* one that may get a number nobody had.                                   *)
LEMMA MemKept ==
    ASSUME NEW Z, TreeOk(Z), NEW m, MemOk(m, Z),
           NEW n, Shape(n, Z), Types(n, Z), n[1] # Smashed,
           NEW x0 \in Places(Z), NEW b, b \notin Z.p,
           \A y \in Places(Z) : At(m, y) # b,
           \A y \in Places(Z) : \/ At(n, y) = At(m, y) /\ (At(n, y) \in Real => At(n, y) \notin n[2].free)
                                \/ At(n, y) \notin Real
                                \/ y = x0 /\ At(n, y) = b /\ b > 2 /\ b \notin n[2].free
    PROVE  MemOk(n, Z)
<1>1. Sole(m, Places(Z)) /\ Guarded(m, Z)
  BY DEF MemOk, DiskOk
<1>2. Z.p \subseteq Real
  BY TreeFacts
<1>3. Sole(n, Places(Z))
  <2> SUFFICES ASSUME NEW x \in Places(Z), At(n, x) \in Real
               PROVE  /\ At(n, x) > 2 /\ At(n, x) \notin n[2].free
                      /\ \A y \in Places(Z) : At(n, y) = At(n, x) => x = y
    BY DEF Sole
  <2>1. CASE At(n, x) = At(m, x) /\ At(n, x) \notin n[2].free
    <3>1. At(m, x) > 2 /\ \A y \in Places(Z) : At(m, y) = At(m, x) => x = y
      BY <1>1, <2>1 DEF Sole
    <3>2. At(m, x) # b
      OBVIOUS
    <3> QED BY <2>1, <3>1, <3>2
  <2>2. CASE x = x0 /\ At(n, x) = b /\ b > 2 /\ b \notin n[2].free
    BY <2>2
  <2> QED BY <2>1, <2>2
<1>4. Guarded(n, Z)
  <2> SUFFICES ASSUME NEW x \in Places(Z), At(n, x) \in Z.p PROVE Holder(x, Z)
    BY DEF Guarded
  <2>1. At(n, x) = At(m, x)
    BY <1>2
  <2> QED BY <1>1, <2>1 DEF Guarded
<1>5. Sole(n, FilePlaces(Z))
  BY <1>3 DEF Sole, Places
<1> QED BY <1>3, <1>4, <1>5 DEF MemOk, DiskOk

(* A directory leads to the same blocks of entries if the places that hold *)
(* those numbers keep them.                                                *)
LEMMA LeadsKept ==
    ASSUME NEW Z, TreeOk(Z), NEW m, MemOk(m, Z), NEW n,
           \A y \in Places(Z) : At(m, y) \in Z.p => At(n, y) = At(m, y),
           NEW g \in Locs(Z), NEW i \in Word, NEW b \in Z.d, Leads(m, g, i, b)
    PROVE  Leads(n, g, i, b)
<1>0. b \in Z.p
  BY TreeFacts
<1>1. CASE i < NDIRECT
  <2>1. i \in SafePlaces
    BY <1>1, Sizes DEF Word, SafePlaces
  <2>2. At(m, <<1, g, i>>) = b /\ <<1, g, i>> \in Places(Z)
    BY <1>1, <2>1, PlaceMade DEF Leads
  <2> QED BY <1>0, <1>1, <2>2 DEF Leads
<1>2. CASE ~(i < NDIRECT)
  <2> DEFINE q == At(m, <<1, g, NINDIRECT>>)
  <2>1. q \in Real /\ At(m, <<2, q, i>>) = b
    BY <1>2 DEF Leads
  <2>2. <<1, g, NINDIRECT>> \in Places(Z) /\ <<2, q, i>> \in Places(Z)
    <3>1. q \in Bno
      BY <2>1 DEF Real
    <3> QED BY <3>1, PlaceMade
  <2>3. q \in Z.p
    <3>1. Holder(<<2, q, i>>, Z)
      BY <1>0, <2>1, <2>2 DEF MemOk, DiskOk, Guarded
    <3> QED BY <3>1 DEF Holder
  <2>4. At(n, <<1, g, NINDIRECT>>) = q
    BY <2>2, <2>3
  <2>5. At(n, <<2, q, i>>) = b
    BY <1>0, <2>1, <2>2
  <2> QED BY <1>2, <2>1, <2>4, <2>5 DEF Leads
<1> QED BY <1>1, <1>2

(* So an open file stays in its directory.                                 *)
LEMMA OpenKept ==
    ASSUME NEW Z, TreeOk(Z), NEW m, MemOk(m, Z), NEW n,
           \A y \in Places(Z) : At(m, y) \in Z.p => At(n, y) = At(m, y),
           NEW f, NEW D, NEW E, OpenOk(m, D, f, Z), D \subseteq E,
           f \in Locs(Z) => FileIn(n, f).dir = FileIn(m, f).dir,
           \A g \in Z.dirs : FileIn(n, g).size = FileIn(m, g).size
    PROVE  OpenOk(n, E, f, Z)
<1>1. CASE f = Root
  BY <1>1 DEF OpenOk
<1>2. CASE f # Root
  <2> DEFINE g == FileIn(m, f).dir
  <2>1. /\ f \in Z.d \X Slot /\ f[1] \in D
        /\ g \in Z.dirs /\ (g = Root \/ g[1] \in D)
        /\ \E i \in Word : i < FileIn(m, g).size \div BY2BLK /\ Leads(m, g, i, f[1])
    BY <1>2 DEF OpenOk
  <2>2. PICK i \in Word : i < FileIn(m, g).size \div BY2BLK /\ Leads(m, g, i, f[1])
    BY <2>1
  <2>3. g \in Locs(Z) /\ f[1] \in Z.d /\ f \in Locs(Z)
    BY <2>1, TreeFacts DEF Locs
  <2>4. Leads(n, g, i, f[1])
    BY <2>2, <2>3, LeadsKept
  <2>5. FileIn(n, f).dir = g /\ FileIn(n, g).size = FileIn(m, g).size
    BY <2>1, <2>3
  <2>6. i < FileIn(n, g).size \div BY2BLK
    BY <2>2, <2>5
  <2> HIDE DEF g
  <2> QED BY <2>1, <2>4, <2>5, <2>6 DEF OpenOk
<1> QED BY <1>1, <1>2

(* What the disk says stays related to memory if Files keep their numbers, *)
(* or belong to a file that is being cut and drop them.                    *)
LEMMA RelKept ==
    ASSUME NEW Z, TreeOk(Z), NEW v, NEW m, NEW n, NEW F, NEW E, Rel(v, m, F, Z), F \subseteq E,
           F # {} => \A y \in FilePlaces(Z) : At(n, y) = At(m, y) \/ At(n, y) \notin Real,
           \A y \in FilePlaces(Z) : At(m, y) \in Real =>
               At(n, y) = At(m, y) \/ (y[2] \in E /\ \A z \in FilePlaces(Z) : At(n, z) # At(m, y))
    PROVE  Rel(v, n, E, Z)
<1> SUFFICES ASSUME NEW x \in FilePlaces(Z), At(v, x) \in Real
             PROVE  At(v, x) = At(n, x) \/ (x[2] \in E /\ \A y \in FilePlaces(Z) : At(n, y) # At(v, x))
  BY DEF Rel
<1>1. At(v, x) = At(m, x) \/ (x[2] \in F /\ \A y \in FilePlaces(Z) : At(m, y) # At(v, x))
  BY DEF Rel
<1> QED BY <1>1

(* Block b of memory is written: the disk stays in order.  The bitmap is   *)
(* written only when no file is being cut.                                 *)
LEMMA WriteKept ==
    ASSUME NEW Z, TreeOk(Z), NEW v, DiskOk(v, Z), NEW m, MemOk(m, Z), NEW F,
           Rel(v, m, F, Z), NEW b \in Bno, b = 2 => F = {},
           b # 2 => v[2].free \subseteq m[2].free, NEW n, n = Put(v, b, m[b])
    PROVE  /\ DiskOk(n, Z) /\ n[2].free \subseteq m[2].free /\ Rel(n, m, F, Z)
           /\ \A a \in Bno : a # b => n[a] = v[a]
           /\ n[b] = m[b]
<1>0. Shape(v, Z) /\ Shape(m, Z) /\ v \in [Bno -> Blk] /\ m \in [Bno -> Blk]
  BY ShapeFacts DEF MemOk, DiskOk
<1>1. n \in [Bno -> Blk] /\ n[b] = m[b] /\ \A a \in Bno : a # b => n[a] = v[a]
  BY <1>0, PutAt
<1>2. \A a \in Bno : n[a] = m[a] \/ (a # b /\ n[a] = v[a])
  BY <1>1
<1>3. n[2].free \subseteq m[2].free
  BY <1>2, TreeFacts
<1>4. Shape(n, Z)
  <2>1. n[0] \in {Zero} \cup SuperBlk /\ n[1] \in {Smashed} \cup SuperBlk /\ n[2] \in BitmapBlk
    BY <1>0, <1>2, TreeFacts DEF Shape
  <2>2. \A a \in Bno : a > 2 => n[a] \in IF a \in Z.d THEN FilesBlk ELSE OtherBlk
    BY <1>0, <1>2 DEF Shape
  <2>3. \A a \in n[2].free : a > 2 /\ a \notin Z.p
    BY <1>0, <1>3 DEF Shape
  <2> QED BY <1>1, <2>1, <2>2, <2>3 DEF Shape
<1>5. \A f \in Locs(Z) : (f[1] = b /\ FileIn(n, f) = FileIn(m, f)) \/ (f[1] # b /\ FileIn(n, f) = FileIn(v, f))
  BY <1>1, TreeFacts DEF FileIn
<1>6. Types(n, Z)
  <2>1. Types(v, Z) /\ Types(m, Z) /\ m[1] # Smashed
    BY DEF MemOk, DiskOk
  <2>2. n[1] # Smashed /\ b # 1 => v[1] # Smashed
    BY <1>1, TreeFacts
  <2>3. \A f \in Locs(Z) : f = Root <=> f[1] = 1
    BY TreeFacts
  <2> QED BY <1>5, <2>1, <2>2, <2>3 DEF Types
<1>7. ASSUME NEW x \in Places(Z)
      PROVE  \/ At(n, x) = At(m, x)
             \/ At(n, x) = At(v, x)
  <2>1. CASE x[1] = 1 /\ x[2] \in Locs(Z)
    BY <1>5, <2>1 DEF At
  <2>2. CASE x[1] = 2 /\ x[2] \in Bno
    BY <1>2, <2>2 DEF At
  <2> QED BY <2>1, <2>2, PlaceFacts
<1>8. Guarded(n, Z)
  <2>1. Guarded(m, Z) /\ Guarded(v, Z)
    BY DEF MemOk, DiskOk
  <2> QED BY <1>7, <2>1 DEF Guarded
<1>9. ASSUME NEW x \in FilePlaces(Z)
      PROVE  \/ x[2][1] = b /\ At(n, x) = At(m, x)
             \/ x[2][1] # b /\ At(n, x) = At(v, x)
  <2>1. x[1] = 1 /\ x[2] \in Locs(Z)
    BY DEF FilePlaces
  <2> QED BY <1>5, <2>1 DEF At
<1>10. Rel(n, m, F, Z)
  <2> SUFFICES ASSUME NEW x \in FilePlaces(Z), At(n, x) \in Real
               PROVE  At(n, x) = At(m, x) \/ (x[2] \in F /\ \A y \in FilePlaces(Z) : At(m, y) # At(n, x))
    BY DEF Rel
  <2> QED BY <1>9 DEF Rel
<1>11. Sole(n, FilePlaces(Z))
  <2> SUFFICES ASSUME NEW x \in FilePlaces(Z), At(n, x) \in Real
               PROVE  /\ At(n, x) > 2 /\ At(n, x) \notin n[2].free
                      /\ \A y \in FilePlaces(Z) : At(n, y) = At(n, x) => x = y
    BY DEF Sole
  <2>1. Sole(m, FilePlaces(Z)) /\ Sole(v, FilePlaces(Z))
    BY DEF MemOk, DiskOk
  <2>2. CASE x[2][1] = b /\ At(n, x) = At(m, x)
    <3>1. At(m, x) > 2 /\ At(m, x) \notin m[2].free /\ \A y \in FilePlaces(Z) : At(m, y) = At(m, x) => x = y
      BY <2>1, <2>2 DEF Sole
    <3>2. ASSUME NEW y \in FilePlaces(Z), At(n, y) = At(n, x) PROVE x = y
      <4>1. CASE At(n, y) = At(m, y)
        BY <2>2, <3>1, <3>2, <4>1
      <4>2. CASE At(n, y) = At(v, y)
        <5>1. At(v, y) = At(m, y) \/ \A z \in FilePlaces(Z) : At(m, z) # At(v, y)
          BY <3>2, <4>2 DEF Rel
        <5> QED BY <2>2, <3>1, <3>2, <4>2, <5>1
      <4> QED BY <1>9, <4>1, <4>2
    <3> QED BY <1>3, <2>2, <3>1, <3>2
  <2>3. CASE x[2][1] # b /\ At(n, x) = At(v, x)
    <3>1. At(v, x) > 2 /\ At(v, x) \notin v[2].free /\ \A y \in FilePlaces(Z) : At(v, y) = At(v, x) => x = y
      BY <2>1, <2>3 DEF Sole
    <3>2. At(n, x) \notin n[2].free
      <4>1. CASE b = 2
        <5>1. At(v, x) = At(m, x)
          BY <2>3, <4>1 DEF Rel
        <5>2. At(m, x) \notin m[2].free
          BY <2>1, <2>3, <5>1 DEF Sole
        <5> QED BY <1>1, <2>3, <4>1, <5>1, <5>2
      <4>2. CASE b # 2
        BY <1>1, <2>3, <3>1, <4>2, TreeFacts
      <4> QED BY <4>1, <4>2
    <3>3. ASSUME NEW y \in FilePlaces(Z), At(n, y) = At(n, x) PROVE x = y
      <4>1. CASE At(n, y) = At(v, y)
        BY <2>3, <3>1, <3>3, <4>1
      <4>2. CASE At(n, y) = At(m, y)
        <5>1. At(m, y) \notin m[2].free /\ \A z \in FilePlaces(Z) : At(m, z) = At(m, y) => y = z
          BY <2>1, <3>3, <4>2 DEF Sole
        <5>2. At(v, x) = At(m, x) \/ \A z \in FilePlaces(Z) : At(m, z) # At(v, x)
          BY <2>3 DEF Rel
        <5> QED BY <2>3, <3>3, <4>2, <5>1, <5>2
      <4> QED BY <1>9, <4>1, <4>2
    <3> QED BY <2>3, <3>1, <3>2, <3>3
  <2> QED BY <1>9, <2>2, <2>3
<1> QED BY <1>1, <1>3, <1>4, <1>6, <1>8, <1>10, <1>11 DEF DiskOk

(* Ret changes the result and nothing else.                                *)
LEMMA RetIs ==
    ASSUME NEW s \in St, NEW r \in Int, NEW t, t = Ret(s, r)
    PROVE  /\ t \in St /\ t.r = r /\ t.out = s.out
           /\ t.cache = s.cache /\ t.dirty = s.dirty /\ t.wq = s.wq /\ t.panic = s.panic
<1>1. t \in St
  BY DEF Ret, St
<1>2. /\ t.r = r /\ t.out = s.out
      /\ t.cache = s.cache /\ t.dirty = s.dirty /\ t.wq = s.wq /\ t.panic = s.panic
  BY DEF Ret, St
<1> QED BY <1>1, <1>2

(* RetOut changes what is returned and nothing else.                       *)
LEMMA RetOutIs ==
    ASSUME NEW s \in St, NEW o \in Out, NEW t, t = RetOut(s, o)
    PROVE  /\ t \in St /\ t.r = 0 /\ t.out = o
           /\ t.cache = s.cache /\ t.dirty = s.dirty /\ t.wq = s.wq /\ t.panic = s.panic
<1>3. t \in St
  <2>1. PICK z \in Int : z = 0
    OBVIOUS
  <2>2. t = [s EXCEPT !.r = z, !.out = o]
    BY <2>1 DEF RetOut
  <2>3. [s EXCEPT !.r = z, !.out = o] \in St
    BY DEF St
  <2> QED BY <2>2, <2>3
<1>4. /\ t.r = 0 /\ t.out = o
      /\ t.cache = s.cache /\ t.dirty = s.dirty /\ t.wq = s.wq /\ t.panic = s.panic
  BY DEF RetOut, St
<1> QED BY <1>3, <1>4

(* Good does not look at what is returned. *)
LEMMA SameGood ==
    ASSUME NEW Z, NEW O, NEW F, NEW s, Good(s, Z, O, F),
           NEW t \in St, t.cache = s.cache, t.dirty = s.dirty, t.wq = s.wq, t.panic = s.panic
    PROVE  Good(t, Z, O, F) /\ Mem(t) = Mem(s) /\ V(t) = V(s)
<1>1. V(t) = V(s)
  BY DEF V
<1>2. Free(t) = Free(s)
  BY DEF Free
<1>3. Mem(t) = Mem(s)
  BY <1>1, <1>2 DEF Mem
<1> QED BY <1>1, <1>2, <1>3 DEF Good, Core

(* So Ret keeps what a call knows.                                         *)
LEMMA RetGood ==
    ASSUME NEW Z, NEW O, NEW F, NEW s, Good(s, Z, O, F), NEW r \in Int,
           NEW t, t = Ret(s, r)
    PROVE  /\ Good(t, Z, O, F) /\ Mem(t) = Mem(s) /\ V(t) = V(s) /\ t.r = r /\ t.out = s.out
           /\ t.cache = s.cache /\ t.dirty = s.dirty /\ t.wq = s.wq /\ t.panic = s.panic
<1>1. s \in St
  BY DEF Good
<1>2. /\ t \in St /\ t.r = r /\ t.out = s.out
      /\ t.cache = s.cache /\ t.dirty = s.dirty /\ t.wq = s.wq /\ t.panic = s.panic
  BY <1>1, RetIs
<1> QED BY <1>2, SameGood

(* So does RetOut.                                                         *)
LEMMA RetOutGood ==
    ASSUME NEW Z, NEW O, NEW F, NEW s, Good(s, Z, O, F), NEW o \in Out,
           NEW t, t = RetOut(s, o)
    PROVE  /\ Good(t, Z, O, F) /\ Mem(t) = Mem(s) /\ V(t) = V(s) /\ t.r = 0 /\ t.out = o
           /\ t.cache = s.cache /\ t.dirty = s.dirty /\ t.wq = s.wq /\ t.panic = s.panic
<1>1. s \in St
  BY DEF Good
<1>2. /\ t \in St /\ t.r = 0 /\ t.out = o
      /\ t.cache = s.cache /\ t.dirty = s.dirty /\ t.wq = s.wq /\ t.panic = s.panic
  BY <1>1, RetOutIs
<1> QED BY <1>2, SameGood

(* A panic of a message that may come keeps it, too: memory is gone with   *)
(* the server, the writes are not.                                         *)
LEMMA PanicGood ==
    ASSUME NEW Z, NEW O, NEW F, NEW s, Good(s, Z, O, F), NEW why \in Panics, why # NoPanic,
           NEW t, t = user_panic(s, why)
    PROVE  /\ Good(t, Z, O, F) /\ t.r < 0 /\ t.r # E_NOT_FOUND /\ t.panic # NoPanic /\ t.r = PANIC
           /\ t.cache = s.cache /\ t.dirty = s.dirty /\ t.wq = s.wq /\ t.out = s.out
           /\ Mem(t) = Mem(s) /\ V(t) = V(s)
<1>1. s \in St
  BY DEF Good
<1>2. /\ t \in St /\ t.cache = s.cache /\ t.dirty = s.dirty /\ t.wq = s.wq /\ t.out = s.out
      /\ t.panic # NoPanic /\ t.r = PANIC
  <2>1. t = [s EXCEPT !.panic = IF s.panic = NoPanic THEN why ELSE s.panic, !.r = PANIC]
    BY <1>1 DEF user_panic, St
  <2>2. /\ t.cache = s.cache /\ t.dirty = s.dirty /\ t.wq = s.wq /\ t.out = s.out
        /\ t.panic = (IF s.panic = NoPanic THEN why ELSE s.panic) /\ t.r = PANIC
    BY <1>1, <2>1 DEF St
  <2>3. PANIC \in Int
    BY DEF PANIC
  <2>4. t \in St
    BY <1>1, <2>1, <2>3 DEF St
  <2> QED BY <2>2, <2>4
<1>3. V(t) = V(s)
  BY <1>2 DEF V
<1>4. Free(t) = Free(s)
  BY <1>2 DEF Free
<1>5. Mem(t) = Mem(s)
  BY <1>2, <1>3, <1>4 DEF Mem
<1>6. Good(t, Z, O, F)
  BY <1>2, <1>3, <1>4, <1>5 DEF Good, Core
<1>7. PANIC < 0 /\ PANIC # E_NOT_FOUND
  BY DEF PANIC, E_NOT_FOUND
<1> QED BY <1>2, <1>3, <1>5, <1>6, <1>7

(* What memory holds, in terms of the cache. *)
LEMMA MemFacts ==
    ASSUME NEW Z, TreeOk(Z), NEW O, NEW F, NEW s, Good(s, Z, O, F)
    PROVE  /\ s \in St /\ s.cache \in [Bno -> Blk \cup {Unmapped}] /\ s.dirty \subseteq Bno
           /\ s.wq \in Writes
           /\ MemOk(Mem(s), Z) /\ Shape(Mem(s), Z) /\ Types(Mem(s), Z) /\ Mem(s)[1] # Smashed
           /\ Mem(s) \in [Bno -> Blk]
           /\ \A b \in Bno : s.cache[b] # Unmapped => Mem(s)[b] = s.cache[b]
           /\ s.cache[0] # Unmapped /\ s.cache[1] # Unmapped /\ s.cache[2] # Unmapped
           /\ Mem(s)[2] = s.cache[2] /\ Free(s) = Mem(s)[2].free
           /\ Free(s) \subseteq Bno /\ s.cache[2] = BitmapOf(Free(s))
           /\ \A b \in Free(s) : b > 2 /\ b \notin Z.p /\ b \in Real
           /\ \A f \in Locs(Z) : s.cache[f[1]] # Unmapped => File(s, f) = FileIn(Mem(s), f)
           /\ \A b \in s.dirty : s.cache[b] # Unmapped
           /\ DiskOk(V(s), Z)
           /\ s.super /\ s.bitmap /\ s.panic \in Panics
<1>1. /\ s \in St /\ s.cache \in [Bno -> Blk \cup {Unmapped}] /\ s.dirty \subseteq Bno
      /\ s.wq \in Writes /\ s.super /\ s.bitmap /\ s.panic \in Panics
  <2>1. s.super \in On /\ s.bitmap \in On
    BY DEF Good, St
  <2>2. s.super /\ s.bitmap
    BY <2>1 DEF On
  <2> QED BY <2>2 DEF Good, St, Writes
<1>2. /\ MemOk(Mem(s), Z) /\ Shape(Mem(s), Z) /\ Types(Mem(s), Z) /\ Mem(s)[1] # Smashed
  BY DEF Good, Core, MemOk, DiskOk
<1>3. /\ s.cache[0] # Unmapped /\ s.cache[1] # Unmapped /\ s.cache[2] # Unmapped
      /\ \A b \in s.dirty : s.cache[b] # Unmapped
  BY DEF Good, Core
<1>4. \A b \in Bno : s.cache[b] # Unmapped => Mem(s)[b] = s.cache[b]
  BY DEF Mem
<1>5. Mem(s)[2] = s.cache[2] /\ Free(s) = Mem(s)[2].free
  BY <1>3, <1>4, TreeFacts DEF Free
<1>6. Mem(s) \in [Bno -> Blk] /\ Free(s) \subseteq Bno /\ \A b \in Free(s) : b > 2 /\ b \notin Z.p /\ b \in Real
  BY <1>2, <1>5, ShapeFacts
<1>7. s.cache[2] = BitmapOf(Free(s))
  <2>1. s.cache[2] \in BitmapBlk
    BY <1>2, <1>5, ShapeFacts
  <2> QED BY <2>1 DEF BitmapBlk, BitmapOf, Free
<1>8. \A f \in Locs(Z) : s.cache[f[1]] # Unmapped => File(s, f) = FileIn(Mem(s), f)
  BY <1>4, TreeFacts DEF File, FileIn
<1>9. DiskOk(V(s), Z)
  <2>1. Len(s.wq) \in 0..Len(s.wq)
    BY <1>1 DEF Writes
  <2> QED BY <2>1 DEF Good, Core, Crashable, V
<1> QED BY <1>1, <1>2, <1>3, <1>4, <1>5, <1>6, <1>7, <1>8, <1>9

(* What a store of the server changes.                                     *)
LEMMA StoreIs ==
    ASSUME NEW s \in St, NEW b \in Bno, NEW c \in Blk, NEW t, t = StoreBlock(s, b, c)
    PROVE  /\ t \in St /\ t.cache = [s.cache EXCEPT ![b] = c] /\ t.dirty = s.dirty \cup {b}
           /\ t.wq = s.wq /\ t.panic = s.panic /\ t.r = s.r /\ t.out = s.out
           /\ V(t) = V(s)
<1>1. /\ t \in St /\ t.cache = [s.cache EXCEPT ![b] = c] /\ t.dirty = s.dirty \cup {b}
      /\ t.wq = s.wq /\ t.panic = s.panic /\ t.r = s.r /\ t.out = s.out
  BY DEF StoreBlock, St
<1> QED BY <1>1 DEF V

(* A store to a cached block other than the bitmap. *)
LEMMA StoreMem ==
    ASSUME NEW Z, TreeOk(Z), NEW O, NEW F, NEW s, Good(s, Z, O, F),
           NEW b \in Bno, b # 2, s.cache[b] # Unmapped, NEW c \in Blk,
           NEW t, t = StoreBlock(s, b, c)
    PROVE  Mem(t) = Put(Mem(s), b, c)
<1>1. s \in St /\ s.cache \in [Bno -> Blk \cup {Unmapped}]
  BY MemFacts
<1>2. t.cache = [s.cache EXCEPT ![b] = c] /\ V(t) = V(s)
  BY <1>1, StoreIs
<1>3. Free(t) = Free(s) /\ c # Unmapped
  BY <1>1, <1>2, TreeFacts, Kinds DEF Free
<1>4. t.cache[b] = c /\ \A a \in Bno : a # b => t.cache[a] = s.cache[a]
  BY <1>1, <1>2
<1>5. Mem(t)[b] = c /\ \A a \in Bno : a # b => Mem(t)[a] = Mem(s)[a]
  BY <1>2, <1>3, <1>4 DEF Mem
<1>6. Mem(t) = [a \in Bno |-> Mem(t)[a]] /\ Mem(s) = [a \in Bno |-> Mem(s)[a]]
  BY DEF Mem
<1> QED BY <1>5, <1>6 DEF Put

(* A store keeps what a call knows if memory is right after it.            *)
LEMMA StoreGood ==
    ASSUME NEW Z, TreeOk(Z), NEW O, NEW F, NEW s, Good(s, Z, O, F), NEW E,
           NEW b \in Bno, b # 2, s.cache[b] # Unmapped, NEW c \in Blk,
           NEW t, t = StoreBlock(s, b, c),
           MemOk(Mem(t), Z),
           s.panic = NoPanic => Rel(V(s), Mem(t), E, Z),
           \A f \in O : OpenOk(Mem(t), t.dirty, f, Z)
    PROVE  Good(t, Z, O, E)
<1>1. s \in St /\ s.cache \in [Bno -> Blk \cup {Unmapped}]
  BY MemFacts
<1>2. /\ t \in St /\ t.cache = [s.cache EXCEPT ![b] = c] /\ t.dirty = s.dirty \cup {b}
      /\ t.wq = s.wq /\ t.panic = s.panic /\ V(t) = V(s)
  BY <1>1, StoreIs
<1>3. Free(t) = Free(s) /\ c # Unmapped
  BY <1>1, <1>2, TreeFacts, Kinds DEF Free
<1>4. \A a : s.cache[a] # Unmapped => t.cache[a] # Unmapped
  BY <1>1, <1>2, <1>3
<1>5. \A a \in {0, 1, 2} \cup t.dirty : t.cache[a] # Unmapped
  BY <1>1, <1>2, <1>3, <1>4 DEF Good, Core
<1>6. \A k \in 1..Len(t.wq) : t.cache[t.wq[k][1]] # Unmapped
  BY <1>2, <1>4 DEF Good, Core
<1>7. t.panic = NoPanic => V(t)[2].free \subseteq Free(t) /\ Rel(V(t), Mem(t), E, Z)
  BY <1>2, <1>3 DEF Good, Core
<1>8. Crashable(disk, t.wq, Z)
  BY <1>2 DEF Good, Core
<1> QED BY <1>2, <1>5, <1>6, <1>7, <1>8 DEF Good, Core

(* write_block of a cached block: what the disk will hold is one block     *)
(* nearer to memory, and every disk on the way is right.                   *)
LEMMA WriteGood ==
    ASSUME NEW Z, TreeOk(Z), NEW O, NEW F, NEW s, Good(s, Z, O, F),
           NEW b \in Bno, s.cache[b] # Unmapped, b = 2 => F = {}, NEW t, t = write_block(s, b)
    PROVE  /\ Good(t, Z, O, F) /\ Mem(t) = Mem(s)
           /\ t.cache = s.cache /\ t.dirty = s.dirty /\ t.panic = s.panic /\ t.r = s.r /\ t.out = s.out
           /\ t.panic = NoPanic => /\ V(t)[b] = t.cache[b]
                              /\ \A a \in Bno : a # b => V(t)[a] = V(s)[a]
<1>0. block_is_mapped(s, b)
  BY DEF block_is_mapped
<1>1. CASE s.panic # NoPanic
  BY <1>0, <1>1 DEF write_block
<1>2. CASE s.panic = NoPanic
  <2>0. s \in St /\ s.cache \in [Bno -> Blk \cup {Unmapped}] /\ s.wq \in Writes
        /\ MemOk(Mem(s), Z) /\ Mem(s)[b] = s.cache[b] /\ DiskOk(V(s), Z)
        /\ Free(s) = Mem(s)[2].free
    BY MemFacts
  <2>1. s \in St /\ s.cache \in [Bno -> Blk \cup {Unmapped}] /\ s.wq \in Writes
        /\ MemOk(Mem(s), Z) /\ Mem(s)[b] = s.cache[b] /\ DiskOk(V(s), Z) /\ s.cache[b] \in Blk
        /\ Free(s) = Mem(s)[2].free
    BY <2>0
  <2>2. t = [s EXCEPT !.wq = Append(@, <<b, s.cache[b]>>)]
    BY <1>0, <1>2 DEF write_block
  <2>3. /\ t \in St /\ t.cache = s.cache /\ t.dirty = s.dirty /\ t.panic = s.panic /\ t.r = s.r /\ t.out = s.out
        /\ t.wq = Append(s.wq, <<b, s.cache[b]>>)
    <3>1. /\ t.cache = s.cache /\ t.dirty = s.dirty /\ t.panic = s.panic /\ t.r = s.r /\ t.out = s.out
          /\ t.wq = Append(s.wq, <<b, s.cache[b]>>)
      BY <2>1, <2>2 DEF St
    <3>2. Append(s.wq, <<b, s.cache[b]>>) \in Writes
      BY <2>1 DEF Writes
    <3>3. t \in St
      BY <2>1, <2>2, <3>2 DEF St, Writes
    <3> QED BY <3>1, <3>3
  <2>4. Len(t.wq) = Len(s.wq) + 1 /\ Len(s.wq) \in Nat
    BY <2>1, <2>3 DEF Writes
  <2>5. V(t) = Put(V(s), b, Mem(s)[b])
    BY <2>1, <2>3, <2>4, AfterLast DEF V, Put
  <2>6. V(s)[2].free \subseteq Mem(s)[2].free /\ Rel(V(s), Mem(s), F, Z)
    BY <1>2, <2>1 DEF Good, Core
  <2>7. /\ DiskOk(V(t), Z) /\ V(t)[2].free \subseteq Mem(s)[2].free /\ Rel(V(t), Mem(s), F, Z)
        /\ \A a \in Bno : a # b => V(t)[a] = V(s)[a]
        /\ V(t)[b] = Mem(s)[b]
    BY <2>1, <2>5, <2>6, WriteKept
  <2>8. Free(t) = Free(s)
    BY <2>3 DEF Free
  <2>9. Mem(t) = Mem(s)
    <3>1. \A a \in Bno : Mem(t)[a] = Mem(s)[a]
      BY <2>3, <2>7, <2>8 DEF Mem
    <3> QED BY <3>1 DEF Mem
  <2>10. Crashable(disk, t.wq, Z)
    <3> SUFFICES ASSUME NEW k \in 0..Len(t.wq) PROVE DiskOk(After(disk, t.wq, k), Z)
      BY DEF Crashable
    <3>1. CASE k = Len(t.wq)
      BY <2>7, <3>1 DEF V
    <3>2. CASE k # Len(t.wq)
      <4>1. k \in 0..Len(s.wq)
        BY <2>4, <3>2
      <4>2. After(disk, t.wq, k) = After(disk, s.wq, k)
        <5>1. <<b, s.cache[b]>> \in Bno \X Blk
          BY <2>1
        <5> QED BY <2>1, <2>3, <4>1, <5>1, AfterPrefix
      <4> QED BY <4>1, <4>2 DEF Good, Core, Crashable
    <3> QED BY <3>1, <3>2
  <2>11. \A k \in 1..Len(t.wq) : t.cache[t.wq[k][1]] # Unmapped
    <3>1. \A k \in 1..Len(s.wq) : s.cache[s.wq[k][1]] # Unmapped
      BY DEF Good, Core
    <3>2. \A k \in 1..Len(s.wq) : t.wq[k] = s.wq[k]
      BY <2>1, <2>3 DEF Writes
    <3>3. t.wq[Len(s.wq) + 1] = <<b, s.cache[b]>>
      BY <2>1, <2>3 DEF Writes
    <3> QED BY <2>3, <2>4, <3>1, <3>2, <3>3
  <2>12. \A a \in {0, 1, 2} \cup t.dirty : t.cache[a] # Unmapped
    BY <2>3 DEF Good, Core
  <2>13. \A f \in O : OpenOk(Mem(t), t.dirty, f, Z)
    BY <2>3, <2>9 DEF Good, Core
  <2>14. Good(t, Z, O, F)
    BY <2>1, <2>3, <2>7, <2>8, <2>9, <2>10, <2>11, <2>12, <2>13 DEF Good, Core
  <2> QED BY <2>1, <2>3, <2>7, <2>9, <2>14
<1> QED BY <1>1, <1>2

(* What a call knows of the open files may be exchanged for what holds of  *)
(* others.                                                                 *)
LEMMA Regood ==
    ASSUME NEW Z, NEW O, NEW F, NEW s, Good(s, Z, O, F), NEW P,
           \A f \in P : f \in O \/ OpenOk(Mem(s), s.dirty, f, Z)
    PROVE  Good(s, Z, P, F)
<1>1. \A b \in {0, 1, 2} \cup s.dirty : s.cache[b] # Unmapped
  BY DEF Good, Core
<1>2. \A f \in P : OpenOk(Mem(s), s.dirty, f, Z)
  BY DEF Good, Core
<1> QED BY <1>1, <1>2 DEF Good, Core

(* Nothing but reads happened. *)
Calm(s, t) == /\ Mem(t) = Mem(s) /\ V(t) = V(s) /\ t.dirty = s.dirty /\ t.wq = s.wq
              /\ \A a \in Bno : s.cache[a] # Unmapped => t.cache[a] = s.cache[a]

(* Two calls that only read are one.                                       *)
LEMMA CalmTrans ==
    ASSUME NEW s, NEW t, NEW u, Calm(s, t), Calm(t, u)
    PROVE  Calm(s, u)
  BY DEF Calm

(* A call that changes no block only reads.                                *)
LEMMA CalmSame ==
    ASSUME NEW s, NEW t, Mem(t) = Mem(s), V(t) = V(s), t.cache = s.cache, t.dirty = s.dirty, t.wq = s.wq
    PROVE  Calm(s, t)
  BY DEF Calm

(* read_block of a block that is not free: memory stays what it was, and   *)
(* the block is cached unless the call panics.                             *)
LEMMA ReadGood ==
    ASSUME NEW Z, TreeOk(Z), NEW O, NEW F, NEW s, Good(s, Z, O, F),
           NEW b \in Nat, b \notin Free(s), NEW t, t = read_block(s, b)
    PROVE  /\ Good(t, Z, O, F) /\ Calm(s, t)
           /\ \/ t.r = PANIC /\ t.panic # NoPanic /\ t.out = s.out
              \/ t.r = 0 /\ t.out = b /\ b \in Bno /\ t.cache[b] # Unmapped /\ t.panic = s.panic
<1>0. /\ s \in St /\ s.cache \in [Bno -> Blk \cup {Unmapped}] /\ s.super /\ s.bitmap
      /\ s.dirty \subseteq Bno /\ s.cache[2] # Unmapped /\ \A a \in s.dirty : s.cache[a] # Unmapped
  BY MemFacts
<1>p. ASSUME NEW why \in Panics, why # NoPanic, t = user_panic(s, why)
      PROVE  /\ Good(t, Z, O, F) /\ Calm(s, t)
             /\ t.r = PANIC /\ t.panic # NoPanic /\ t.out = s.out
  BY <1>p, PanicGood, CalmSame
<1>q. "kernel" \in Panics /\ "reading non-existent block" \in Panics
      /\ "kernel" # NoPanic /\ "reading non-existent block" # NoPanic
  BY DEF Panics, NoPanic
<1>1. CASE b >= NBLOCK
  <2>1. t = user_panic(s, "reading non-existent block")
    BY <1>0, <1>1 DEF read_block
  <2> QED BY <1>p, <1>q, <2>1
<1>2. CASE b < NBLOCK
  <2>1. b \in Bno /\ ~(b >= NBLOCK) /\ ~block_is_free(s, b)
    BY <1>2, Sizes DEF Bno, block_is_free
  <2>2. CASE s.cache[b] # Unmapped
    <3>1. t = RetOut(s, b)
      BY <1>0, <2>1, <2>2 DEF read_block, block_is_mapped
    <3>2. b \in Out
      BY DEF Out
    <3>3. t.r = 0 /\ t.out = b /\ t.cache = s.cache /\ t.panic = s.panic /\ t.dirty = s.dirty /\ t.wq = s.wq
      BY <3>1, <3>2, RetOutGood
    <3>4. Good(t, Z, O, F) /\ Mem(t) = Mem(s) /\ V(t) = V(s)
      BY <3>1, <3>2, RetOutGood
    <3> QED BY <2>1, <2>2, <3>3, <3>4, CalmSame
  <2>3. CASE s.cache[b] = Unmapped /\ Pages(s) >= MaxPages
    <3>1. t = user_panic(s, "kernel")
      BY <1>0, <2>1, <2>3 DEF read_block, block_is_mapped
    <3> QED BY <1>p, <1>q, <3>1
  <2>4. CASE s.cache[b] = Unmapped /\ ~(Pages(s) >= MaxPages)
    <3> DEFINE u == [s EXCEPT !.cache[b] = ide_read(s, b), !.dirty = @ \ {b}]
    <3>1. t = RetOut(u, b)
      BY <1>0, <2>1, <2>4 DEF read_block, block_is_mapped
    <3>2. ide_read(s, b) = V(s)[b] /\ V(s)[b] \in Blk
      <4>1. DiskOk(V(s), Z)
        BY MemFacts
      <4>2. V(s) \in [Bno -> Blk]
        BY <4>1, ShapeFacts DEF DiskOk
      <4> QED BY <1>0, <2>1, <4>2, ReadIsV
    <3>3. s.dirty \ {b} = s.dirty
      BY <1>0, <2>4
    <3>4. /\ u.cache = [s.cache EXCEPT ![b] = V(s)[b]] /\ u.dirty = s.dirty /\ u.wq = s.wq
          /\ u.panic = s.panic /\ u.r = s.r /\ u.out = s.out
      BY <1>0, <3>2, <3>3 DEF St
    <3>5. u \in St
      BY <1>0, <2>1, <3>2, <3>3 DEF St
    <3>6. V(u) = V(s)
      BY <3>4 DEF V
    <3>7. u.cache[b] = V(s)[b] /\ V(s)[b] # Unmapped /\ \A a \in Bno : a # b => u.cache[a] = s.cache[a]
      BY <1>0, <2>1, <3>2, <3>4, Kinds
    <3>8. Free(u) = Free(s)
      BY <1>0, <2>4, <3>7, TreeFacts DEF Free
    <3>9. Mem(u) = Mem(s)
      <4>1. \A a \in Bno : Mem(u)[a] = Mem(s)[a]
        BY <2>4, <3>6, <3>7, <3>8 DEF Mem
      <4> QED BY <4>1 DEF Mem
    <3>10. \A a : s.cache[a] # Unmapped => u.cache[a] # Unmapped
      BY <1>0, <3>4, <3>7
    <3>11. Good(u, Z, O, F)
      <4>1. \A a \in {0, 1, 2} \cup u.dirty : u.cache[a] # Unmapped
        BY <3>4, <3>10 DEF Good, Core
      <4>2. \A k \in 1..Len(u.wq) : u.cache[u.wq[k][1]] # Unmapped
        BY <3>4, <3>10 DEF Good, Core
      <4>3. Crashable(disk, u.wq, Z) /\ MemOk(Mem(u), Z)
        BY <3>4, <3>9 DEF Good, Core
      <4>4. u.panic = NoPanic => V(u)[2].free \subseteq Free(u) /\ Rel(V(u), Mem(u), F, Z)
        BY <3>4, <3>6, <3>8, <3>9 DEF Good, Core
      <4>5. \A f \in O : OpenOk(Mem(u), u.dirty, f, Z)
        BY <3>4, <3>9 DEF Good, Core
      <4> HIDE DEF u
      <4> QED BY <3>5, <4>1, <4>2, <4>3, <4>4, <4>5 DEF Good, Core
    <3>12. Calm(s, u)
      <4> HIDE DEF u
      <4> QED BY <2>4, <3>4, <3>6, <3>7, <3>9 DEF Calm
    <3> HIDE DEF u
    <3>13. b \in Out
      BY DEF Out
    <3>14. t.r = 0 /\ t.out = b /\ t.cache = u.cache /\ t.panic = u.panic /\ t.dirty = u.dirty /\ t.wq = u.wq
      BY <3>1, <3>11, <3>13, RetOutGood
    <3>15. Good(t, Z, O, F) /\ Mem(t) = Mem(u) /\ V(t) = V(u)
      BY <3>1, <3>11, <3>13, RetOutGood
    <3>16. Calm(s, t)
      BY <3>12, <3>14, <3>15, CalmSame, CalmTrans
    <3> QED BY <2>1, <3>4, <3>7, <3>14, <3>15, <3>16
  <2> QED BY <2>2, <2>3, <2>4
<1> QED BY <1>1, <1>2, Sizes

(* A write of a block that leaves a right disk is added at the end.        *)
LEMMA CrashableAppend ==
    ASSUME NEW Z, NEW w \in Writes, Crashable(disk, w, Z), NEW b \in Bno, NEW c \in Blk,
           NEW v, v = After(disk, w, Len(w)), DiskOk(Put(v, b, c), Z),
           NEW u, u = Append(w, <<b, c>>)
    PROVE  /\ u \in Writes /\ Crashable(disk, u, Z) /\ After(disk, u, Len(u)) = Put(v, b, c)
           /\ \A k \in 1..Len(u) : u[k][1] = b \/ (k \in 1..Len(w) /\ u[k] = w[k])
<1>1. Len(w) \in Nat /\ Len(u) = Len(w) + 1 /\ <<b, c>> \in Bno \X Blk
  BY DEF Writes
<1>2. After(disk, u, Len(u)) = Put(v, b, c)
  BY <1>1, AfterLast DEF Put
<1>3. Crashable(disk, u, Z)
  <2> SUFFICES ASSUME NEW k \in 0..Len(u) PROVE DiskOk(After(disk, u, k), Z)
    BY DEF Crashable
  <2>1. CASE k = Len(u)
    BY <1>2, <2>1
  <2>2. CASE k # Len(u)
    <3>1. k \in 0..Len(w)
      BY <1>1, <2>2
    <3>2. After(disk, u, k) = After(disk, w, k)
      BY <1>1, <3>1, AfterPrefix
    <3> QED BY <3>1, <3>2 DEF Crashable
  <2> QED BY <2>1, <2>2
<1>4. \A k \in 1..Len(u) : u[k][1] = b \/ (k \in 1..Len(w) /\ u[k] = w[k])
  BY <1>1 DEF Writes
<1>5. u \in Writes
  BY DEF Writes
<1> QED BY <1>2, <1>3, <1>4, <1>5

(* Memory when b is taken from the free blocks. *)
Taken(m, b) == Put(m, 2, BitmapOf(m[2].free \ {b}))

(* Memory without one of the free blocks is right, and that block is       *)
(* fresh.                                                                  *)
LEMMA TakenOk ==
    ASSUME NEW Z, TreeOk(Z), NEW m, MemOk(m, Z), NEW b \in m[2].free, NEW n, n = Taken(m, b)
    PROVE  /\ MemOk(n, Z) /\ Fresh(n, b, Z) /\ n[2] = BitmapOf(m[2].free \ {b})
           /\ n[2].free = m[2].free \ {b} /\ n[2] \in Blk
           /\ \A a \in Bno : a # 2 => n[a] = m[a]
           /\ \A g \in Locs(Z) : FileIn(n, g) = FileIn(m, g)
           /\ \A y \in Places(Z) : At(n, y) = At(m, y)
<1>1. Shape(m, Z) /\ Types(m, Z) /\ m[1] # Smashed /\ Sole(m, Places(Z))
  BY DEF MemOk, DiskOk
<1>2. m[2].free \subseteq Bno /\ \A a \in m[2].free : a > 2 /\ a \notin Z.p /\ a \in Real
  BY <1>1, ShapeFacts
<1>3. m[2].free \ {b} \subseteq Bno /\ \A a \in m[2].free \ {b} : a > 2 /\ a \notin Z.p
  BY <1>2
<1>4. /\ Shape(n, Z) /\ Types(n, Z) /\ n[1] = m[1] /\ n[2] = BitmapOf(m[2].free \ {b})
      /\ n[2].free = m[2].free \ {b} /\ n[2] \in Blk
      /\ \A a \in Bno : a # 2 => n[a] = m[a]
      /\ \A g \in Locs(Z) : FileIn(n, g) = FileIn(m, g)
      /\ \A y \in Places(Z) : At(n, y) = At(m, y)
  BY <1>1, <1>3, BitmapPut DEF Taken
<1>5. \A y \in Places(Z) : At(m, y) # b
  BY <1>1, <1>2 DEF Sole
<1>6. \A y \in Places(Z) : At(n, y) = At(m, y) /\ (At(n, y) \in Real => At(n, y) \notin n[2].free)
  BY <1>1, <1>4 DEF Sole
<1>7. MemOk(n, Z)
  <2>1. <<1, Root, NINDIRECT>> \in Places(Z)
    BY TreeFacts, PlaceMade
  <2>2. Shape(n, Z) /\ Types(n, Z) /\ n[1] # Smashed /\ b \notin Z.p
    BY <1>1, <1>2, <1>4
  <2> QED BY <1>5, <1>6, <2>1, <2>2, MemKept
<1>8. Fresh(n, b, Z)
  BY <1>2, <1>4, <1>5 DEF Fresh
<1> QED BY <1>4, <1>7, <1>8

(* A block is taken from the bitmap and the bitmap is written: what the    *)
(* call knows stays.                                                       *)
LEMMA TakeGood ==
    ASSUME NEW Z, TreeOk(Z), NEW O, NEW s, Good(s, Z, O, {}),
           NEW b \in Free(s), NEW m, m = Taken(Mem(s), b), NEW t \in St,
           t.panic = s.panic, s.dirty \subseteq t.dirty,
           t.wq = IF s.panic = NoPanic THEN Append(s.wq, <<2, BitmapOf(Free(s) \ {b})>>) ELSE s.wq,
           \A a \in t.dirty : t.cache[a] # Unmapped,
           \A a \in Bno : s.cache[a] # Unmapped => t.cache[a] # Unmapped,
           NEW n, n = Mem(t), n = m \/ n = Mem(s)
    PROVE  Good(t, Z, O, {})
<1>1. /\ s \in St /\ s.wq \in Writes /\ MemOk(Mem(s), Z) /\ Free(s) = Mem(s)[2].free /\ DiskOk(V(s), Z)
      /\ \A a \in {0, 1, 2} : s.cache[a] # Unmapped
  BY MemFacts
<1>2. /\ MemOk(m, Z) /\ m[2] = BitmapOf(Free(s) \ {b}) /\ m[2] \in Blk /\ m[2].free = Free(s) \ {b}
      /\ \A g \in Locs(Z) : FileIn(m, g) = FileIn(Mem(s), g)
      /\ \A y \in Places(Z) : At(m, y) = At(Mem(s), y)
  BY <1>1, TakenOk
<1>3. {0, 1, 2} \subseteq Bno
  BY TreeFacts
<1>4. MemOk(n, Z) /\ m[2].free \subseteq n[2].free
  BY <1>1, <1>2
<1>5. \A f \in O : OpenOk(n, t.dirty, f, Z)
  <2>1. CASE n = m
    <3>1. /\ \A y \in Places(Z) : At(Mem(s), y) \in Z.p => At(m, y) = At(Mem(s), y)
          /\ \A g \in Z.dirs : FileIn(m, g).size = FileIn(Mem(s), g).size
      BY <1>2, TreeFacts
    <3>2. ASSUME NEW f \in O PROVE OpenOk(m, t.dirty, f, Z)
      <4>1. f \in Locs(Z) => FileIn(m, f).dir = FileIn(Mem(s), f).dir
        BY <1>2
      <4>2. OpenOk(Mem(s), s.dirty, f, Z)
        BY DEF Good, Core
      <4> QED BY <1>1, <3>1, <4>1, <4>2, OpenKept
    <3> QED BY <2>1, <3>2
  <2>2. CASE n = Mem(s)
    <3>1. ASSUME NEW f \in O PROVE OpenOk(Mem(s), t.dirty, f, Z)
      <4>2. OpenOk(Mem(s), s.dirty, f, Z)
        BY DEF Good, Core
      <4> QED BY <1>1, <4>2, OpenKept
    <3> QED BY <2>2, <3>1
  <2> QED BY <2>1, <2>2
<1>6. Free(t) = n[2].free
  <2>1. t.cache[2] # Unmapped
    BY <1>1, <1>3
  <2> QED BY <1>3, <2>1 DEF Mem, Free
<1>7. /\ Crashable(disk, t.wq, Z)
      /\ \A k \in 1..Len(t.wq) : t.cache[t.wq[k][1]] # Unmapped
      /\ t.panic = NoPanic => V(t)[2].free \subseteq Free(t) /\ Rel(V(t), n, {}, Z)
  <2>0. /\ Crashable(disk, s.wq, Z) /\ \A k \in 1..Len(s.wq) : s.cache[s.wq[k][1]] # Unmapped
        /\ \A k \in 1..Len(s.wq) : s.wq[k][1] \in Bno
    BY <1>1 DEF Good, Core, Writes
  <2>1. CASE s.panic # NoPanic
    BY <2>0, <2>1
  <2>2. CASE s.panic = NoPanic
    <3>1. Rel(V(s), Mem(s), {}, Z)
      BY <2>2 DEF Good, Core
    <3>2. Rel(V(s), m, {}, Z)
      <4>1. \A y \in FilePlaces(Z) : At(m, y) = At(Mem(s), y)
        BY <1>2 DEF Places
      <4> QED BY <3>1, <4>1 DEF Rel
    <3> DEFINE v == Put(V(s), 2, m[2])
    <3>0. v = Put(V(s), 2, m[2]) /\ 2 \in Bno
      BY <1>3
    <3> HIDE DEF v
    <3>3. DiskOk(v, Z) /\ v[2].free \subseteq m[2].free /\ Rel(v, m, {}, Z)
      <4>1. PICK b2 \in Bno : b2 = 2
        BY <3>0
      <4>2. v = Put(V(s), b2, m[b2]) /\ (b2 # 2 => V(s)[2].free \subseteq m[2].free)
        BY <3>0, <4>1
      <4>3. DiskOk(V(s), Z) /\ MemOk(m, Z)
        BY <1>1, <1>2
      <4> QED BY <3>2, <4>2, <4>3, WriteKept
    <3>4. /\ Crashable(disk, t.wq, Z) /\ V(t) = v
          /\ \A k \in 1..Len(t.wq) : t.wq[k][1] = 2 \/ (k \in 1..Len(s.wq) /\ t.wq[k] = s.wq[k])
      <4>1. t.wq = Append(s.wq, <<2, m[2]>>) /\ 2 \in Bno
        BY <1>2, <1>3, <2>2
      <4>2. V(s) = After(disk, s.wq, Len(s.wq)) /\ V(t) = After(disk, t.wq, Len(t.wq))
        BY DEF V
      <4> QED BY <1>1, <1>2, <2>0, <3>0, <3>3, <4>1, <4>2, CrashableAppend
    <3>5. \A k \in 1..Len(t.wq) : t.cache[t.wq[k][1]] # Unmapped
      BY <1>1, <1>3, <2>0, <3>4
    <3>6. Rel(v, n, {}, Z)
      <4>1. \A y \in FilePlaces(Z) : At(m, y) = At(n, y)
        BY <1>2 DEF Places
      <4> QED BY <3>3, <4>1 DEF Rel
    <3>7. v[2].free \subseteq Free(t)
      BY <1>4, <1>6, <3>3
    <3> QED BY <3>4, <3>5, <3>6, <3>7
  <2> QED BY <2>1, <2>2
<1>8. \A a \in {0, 1, 2} \cup t.dirty : t.cache[a] # Unmapped
  BY <1>1, <1>3
<1> QED BY <1>4, <1>5, <1>7, <1>8 DEF Good, Core

(* A set of numbers that is not empty has a minimum.                       *)
LEMMA HasMin ==
    ASSUME NEW S, S \subseteq Nat, S # {}
    PROVE  Min(S) \in S
<1> DEFINE R == OpToRel(<, Nat)
<1>1. PICK m \in S : \A j \in S : ~(<<j, m>> \in R)
  BY NatLessThanWellFounded, WFMin
<1>2. \A j \in S : ~(j < m)
  BY <1>1 DEF OpToRel
<1>3. \A j \in S : m <= j
  BY <1>2
<1> QED BY <1>3 DEF Min

(* alloc_block: it fails and memory is as it was, or a block that was free *)
(* is fresh and cached.                                                    *)
LEMMA AllocGood ==
    ASSUME NEW Z, TreeOk(Z), NEW O, NEW s, Good(s, Z, O, {}),
           NEW t, t = alloc_block(s)
    PROVE  /\ Good(t, Z, O, {}) /\ t.panic = s.panic /\ t.out = s.out /\ s.dirty \subseteq t.dirty
           /\ \A a \in Bno : a # 2 /\ s.cache[a] # Unmapped => t.cache[a] = s.cache[a]
           /\ t.r \in Int
           /\ \/ t.r < 0 /\ Mem(t) = Mem(s)
              \/ t.r \in Free(s) /\ t.cache[t.r] # Unmapped /\ Mem(t) = Taken(Mem(s), t.r)
<1> DEFINE S == {b \in Free(s) : b >= 3}
<1>0. /\ s \in St /\ s.cache \in [Bno -> Blk \cup {Unmapped}] /\ s.wq \in Writes
      /\ Free(s) \subseteq Bno /\ MemOk(Mem(s), Z) /\ Mem(s)[2] = s.cache[2] /\ Free(s) = Mem(s)[2].free
      /\ s.cache[2] # Unmapped /\ s.cache[2] = BitmapOf(Free(s))
      /\ s.dirty \subseteq Bno /\ (\A a \in s.dirty : s.cache[a] # Unmapped)
      /\ \A a \in Bno : s.cache[a] # Unmapped => Mem(s)[a] = s.cache[a]
  BY MemFacts
<1>00. 2 \in Bno /\ 0 \in Int
  BY TreeFacts
<1>1. CASE S = {}
  <2>1. alloc_block_num(s) = Ret(s, E_NO_DISK)
    BY <1>1 DEF alloc_block_num
  <2>2. Ret(s, E_NO_DISK).r = E_NO_DISK
    BY <1>0, Codes, RetIs
  <2>3. t = Ret(s, E_NO_DISK)
    BY <2>1, <2>2, Codes DEF alloc_block, Try
  <2> QED BY <2>3, Codes, RetGood
<1>2. CASE S # {}
  <2> DEFINE b == Min(S)
             new == BitmapOf(Free(s) \ {b})
             t1 == StoreBlock(s, 2, new)
             t2 == write_block(t1, 2)
             t3 == Ret(t2, b)
             u == map_block(t3, b)
             n == Taken(Mem(s), b)
  <2>1. b \in S
    <3>1. S \subseteq Nat
      BY <1>0, Sizes DEF Bno
    <3> HIDE DEF S
    <3> QED BY <1>2, <3>1, HasMin
  <2>2. b \in Free(s) /\ b \in Bno /\ b >= 3 /\ b \in Int /\ b # 2 /\ b # 0
    BY <1>0, <2>1, Sizes DEF Bno
  <2>3. alloc_block_num(s) = t3
    BY <1>2 DEF alloc_block_num
  <2> HIDE DEF b, S
  <2>4. /\ MemOk(n, Z) /\ n[2] = new /\ new \in Blk
        /\ \A a \in Bno : a # 2 => n[a] = Mem(s)[a]
    BY <1>0, <2>2, TakenOk
  <2> HIDE DEF new
  <2>5. /\ t1 \in St /\ t1.cache = [s.cache EXCEPT ![2] = new] /\ t1.dirty = s.dirty \cup {2}
        /\ t1.wq = s.wq /\ t1.panic = s.panic /\ t1.out = s.out
    BY <1>0, <1>00, <2>4, StoreIs
  <2> HIDE DEF t1
  <2>6. t1.cache[2] = new /\ new # Unmapped /\ block_is_mapped(t1, 2)
        /\ \A a \in Bno : a # 2 => t1.cache[a] = s.cache[a]
    BY <1>0, <1>00, <2>4, <2>5, Kinds DEF block_is_mapped
  <2>7. /\ t2 \in St /\ t2.cache = t1.cache /\ t2.dirty = t1.dirty /\ t2.panic = s.panic /\ t2.out = s.out
        /\ t2.wq = IF s.panic = NoPanic THEN Append(s.wq, <<2, new>>) ELSE s.wq
    <3>1. CASE s.panic # NoPanic
      <4>1. t2 = t1
        BY <2>5, <2>6, <3>1 DEF write_block
      <4> QED BY <2>5, <3>1, <4>1
    <3>2. CASE s.panic = NoPanic
      <4>1. t2 = [t1 EXCEPT !.wq = Append(s.wq, <<2, new>>)]
        BY <2>5, <2>6, <3>2 DEF write_block
      <4>2. /\ t2.cache = t1.cache /\ t2.dirty = t1.dirty /\ t2.panic = s.panic /\ t2.out = s.out
            /\ t2.wq = Append(s.wq, <<2, new>>)
        BY <2>5, <4>1 DEF St
      <4>3. Append(s.wq, <<2, new>>) \in Writes
        BY <1>0, <1>00, <2>4 DEF Writes
      <4>4. t2 \in St
        BY <2>5, <4>1, <4>3 DEF St, Writes
      <4> QED BY <3>2, <4>2, <4>4
    <3> QED BY <3>1, <3>2
  <2> HIDE DEF t2
  <2>8. /\ t3 \in St /\ t3.r = b /\ t3.cache = t1.cache /\ t3.dirty = s.dirty \cup {2} /\ t3.panic = s.panic
        /\ t3.wq = t2.wq /\ t3.out = s.out
    BY <2>2, <2>5, <2>7, RetIs, SMTT(30)
  <2> HIDE DEF t3
  <2>9. t = IF u.r < 0 THEN Ret(free_block(u, b), u.r) ELSE Ret(u, b)
    BY <2>2, <2>3, <2>8 DEF alloc_block, Try, Then
  <2>c. /\ \A a \in Bno : a # 2 /\ a # b => t1.cache[a] = s.cache[a]
        /\ t1.cache[b] = s.cache[b]
    BY <2>2, <2>6
  <2>a. ASSUME NEW e \in St, e.panic = s.panic, e.wq = t2.wq, e.out = s.out,
               e.dirty = (s.dirty \cup {2}) \ {b} \/ (e.dirty = s.dirty \cup {2}),
               s.cache[b] = Unmapped \/ e.dirty = s.dirty \cup {2},
               \A a \in Bno : a # 2 /\ a # b => e.cache[a] = s.cache[a],
               e.cache[2] = new, e.cache[b] = Mem(s)[b]
        PROVE  Good(e, Z, O, {}) /\ Mem(e) = n /\ s.dirty \subseteq e.dirty
    <3>1. e.cache[b] # Unmapped
      <4>1. Mem(s) \in [Bno -> Blk]
        BY MemFacts
      <4> QED BY <2>2, <2>a, <4>1, Kinds
    <3>2. \A a \in Bno : s.cache[a] # Unmapped => e.cache[a] # Unmapped
      BY <2>a, <2>6, <3>1
    <3>3. s.dirty \subseteq e.dirty
      BY <1>0, <2>a
    <3>4. \A a \in e.dirty : e.cache[a] # Unmapped
      BY <1>0, <1>00, <2>6, <2>a, <3>2
    <3>5. Free(e) = Free(s) \ {b}
      BY <2>a DEF Free, new, BitmapOf
    <3>6. \A a \in Bno : a # 2 => V(e)[a] = V(s)[a]
      <4>1. CASE s.panic # NoPanic
        BY <2>a, <2>7, <4>1 DEF V
      <4>2. CASE s.panic = NoPanic
        <5>1. e.wq = Append(s.wq, <<2, new>>) /\ Len(e.wq) = Len(s.wq) + 1
          BY <1>0, <2>a, <2>7, <4>2 DEF Writes
        <5>2. V(e) = [V(s) EXCEPT ![2] = new]
          BY <1>0, <1>00, <2>4, <5>1, AfterLast DEF V
        <5> QED BY <5>2 DEF V, After
      <4> QED BY <4>1, <4>2
    <3>7. \A a \in Bno : Mem(e)[a] = n[a]
      <4>1. Mem(e)[2] = n[2]
        BY <1>00, <2>4, <2>6, <2>a DEF Mem
      <4>2. Mem(e)[b] = n[b]
        BY <2>2, <2>4, <2>a, <3>1 DEF Mem
      <4>3. ASSUME NEW a \in Bno, a # 2, a # b PROVE Mem(e)[a] = n[a]
        <5>1. e.cache[a] = s.cache[a] /\ V(e)[a] = V(s)[a] /\ (a \in Free(e) <=> a \in Free(s))
          BY <2>a, <3>5, <3>6, <4>3
        <5>2. Mem(e)[a] = Mem(s)[a]
          BY <5>1 DEF Mem
        <5> QED BY <2>4, <4>3, <5>2
      <4> QED BY <4>1, <4>2, <4>3
    <3>8. Mem(e) = n
      BY <3>7 DEF Mem, Taken, Put
    <3>9. e.wq = IF s.panic = NoPanic THEN Append(s.wq, <<2, BitmapOf(Free(s) \ {b})>>) ELSE s.wq
      BY <2>7, <2>a DEF new
    <3>10. Good(e, Z, O, {})
      <4> HIDE DEF n
      <4>1. n = Taken(Mem(s), b)
        BY DEF n
      <4>2. e.panic = s.panic /\ b \in Free(s)
        BY <2>2, <2>a
      <4> QED BY <3>2, <3>3, <3>4, <3>8, <3>9, <4>1, <4>2, TakeGood
    <3> QED BY <3>3, <3>8, <3>10
  <2>10. CASE s.cache[b] # Unmapped
    <3>1. u = Ret(t3, 0)
      BY <2>2, <2>8, <2>10, <2>c DEF map_block, block_is_mapped
    <3>2. /\ u \in St /\ u.r = 0 /\ u.cache = t1.cache /\ u.dirty = s.dirty \cup {2}
          /\ u.panic = s.panic /\ u.wq = t2.wq /\ u.out = s.out
      BY <1>00, <2>8, <3>1, RetIs
    <3> HIDE DEF u
    <3>3. Good(u, Z, O, {}) /\ Mem(u) = n /\ s.dirty \subseteq u.dirty
      <4>1. u.cache[b] = Mem(s)[b] /\ u.cache[2] = new
        BY <1>0, <2>2, <2>6, <2>10, <2>c, <3>2
      <4> QED BY <2>a, <2>c, <3>2, <4>1
    <3>4. t = Ret(u, b)
      BY <2>9, <3>2
    <3>5. Good(t, Z, O, {}) /\ Mem(t) = Mem(u) /\ t.r = b /\ t.out = u.out
          /\ t.cache = u.cache /\ t.dirty = u.dirty /\ t.panic = u.panic
      BY <2>2, <3>3, <3>4, RetGood
    <3> QED BY <2>2, <2>6, <2>10, <2>c, <3>2, <3>3, <3>5
  <2>11. CASE s.cache[b] = Unmapped /\ Pages(t3) < MaxPages
    <3>0. Pages(t3) >= MaxPages <=> FALSE
      <4>1. Pages(t3) \in Nat
        <5>1. IsFiniteSet(Bno)
          BY Sizes, FS_Interval DEF Bno
        <5>2. IsFiniteSet({a \in Bno : t3.cache[a] # Unmapped})
          BY <5>1, FS_Subset
        <5> QED BY <5>2, FS_CardinalityType DEF Pages
      <4> QED BY <2>11, <4>1, Sizes
    <3> DEFINE z == [t3 EXCEPT !.cache[b] = Zero, !.dirty = @ \ {b}]
    <3>1. u = Ret(z, 0)
      BY <2>2, <2>8, <2>11, <2>c, <3>0 DEF map_block, block_is_mapped
    <3>2. Zero \in Blk
      BY DEF Blk, OtherBlk
    <3>3. /\ z.cache = [t3.cache EXCEPT ![b] = Zero] /\ z.dirty = (s.dirty \cup {2}) \ {b}
          /\ z.panic = s.panic /\ z.wq = t2.wq /\ z.out = s.out
      BY <2>8 DEF St
    <3>4. z \in St
      BY <2>2, <2>8, <3>2 DEF St
    <3> HIDE DEF z
    <3>5. /\ u \in St /\ u.r = 0 /\ u.cache = [t1.cache EXCEPT ![b] = Zero] /\ u.dirty = (s.dirty \cup {2}) \ {b}
          /\ u.panic = s.panic /\ u.wq = t2.wq /\ u.out = s.out
      BY <1>00, <2>8, <3>1, <3>3, <3>4, RetIs
    <3> HIDE DEF u
    <3>6. /\ \A a \in Bno : a # 2 /\ a # b => u.cache[a] = s.cache[a]
          /\ u.cache[2] = new /\ u.cache[b] = Zero /\ Zero # Unmapped
      <4>1. t1.cache \in [Bno -> Blk \cup {Unmapped}]
        BY <2>5 DEF St
      <4> QED BY <1>00, <2>2, <2>6, <2>c, <3>2, <3>5, <4>1, Kinds
    <3>7. Mem(s)[b] = Zero
      BY <2>2, <2>11 DEF Mem
    <3>8. Good(u, Z, O, {}) /\ Mem(u) = n /\ s.dirty \subseteq u.dirty
      BY <2>a, <2>11, <3>5, <3>6, <3>7
    <3>9. t = Ret(u, b)
      BY <2>9, <3>5
    <3>10. Good(t, Z, O, {}) /\ Mem(t) = Mem(u) /\ t.r = b /\ t.out = u.out
          /\ t.cache = u.cache /\ t.dirty = u.dirty /\ t.panic = u.panic
      BY <2>2, <3>8, <3>9, RetGood
    <3> QED BY <2>2, <2>11, <3>5, <3>6, <3>8, <3>10
  <2>12. CASE s.cache[b] = Unmapped /\ ~(Pages(t3) < MaxPages)
    <3>0. Pages(t3) >= MaxPages
      <4>1. Pages(t3) \in Nat
        <5>1. IsFiniteSet(Bno)
          BY Sizes, FS_Interval DEF Bno
        <5>2. IsFiniteSet({a \in Bno : t3.cache[a] # Unmapped})
          BY <5>1, FS_Subset
        <5> QED BY <5>2, FS_CardinalityType DEF Pages
      <4> QED BY <2>12, <4>1, Sizes
    <3>1. u = Ret(t3, E_NO_MEM)
      BY <2>2, <2>8, <2>12, <2>c, <3>0 DEF map_block, block_is_mapped
    <3>2. /\ u \in St /\ u.r = E_NO_MEM /\ u.cache = t1.cache /\ u.dirty = s.dirty \cup {2}
          /\ u.panic = s.panic /\ u.wq = t2.wq /\ u.out = s.out
      <4>1. E_NO_MEM \in Int
        BY Codes
      <4> QED BY <2>8, <3>1, <4>1, RetIs
    <3> HIDE DEF u
    <3> DEFINE w == free_block(u, b)
    <3>3. w = StoreBlock(u, 2, BitmapOf(Free(s)))
      <4>1. Free(u) \cup {b} = Free(s)
        BY <2>2, <2>6, <3>2 DEF Free, new, BitmapOf
      <4>2. ~(b = 0 \/ b >= NBLOCK)
        BY <2>2, Sizes DEF Bno
      <4> QED BY <4>1, <4>2 DEF free_block
    <3>4. /\ w \in St /\ w.cache = [u.cache EXCEPT ![2] = s.cache[2]] /\ w.dirty = u.dirty \cup {2}
          /\ w.wq = u.wq /\ w.panic = u.panic /\ w.r = u.r /\ w.out = u.out
      <4>1. s.cache[2] \in Blk
        BY <1>0, <1>00
      <4> QED BY <1>0, <1>00, <3>2, <3>3, <4>1, StoreIs
    <3> HIDE DEF w
    <3>5. \A a \in Bno : w.cache[a] = s.cache[a]
      <4>1. w.cache = [t1.cache EXCEPT ![2] = s.cache[2]]
        BY <3>2, <3>4
      <4>2. t1.cache \in [Bno -> Blk \cup {Unmapped}]
        BY <2>5 DEF St
      <4>3. w.cache[2] = s.cache[2]
        BY <1>00, <4>1, <4>2
      <4>4. \A a \in Bno : a # 2 => w.cache[a] = t1.cache[a]
        BY <4>1, <4>2
      <4> QED BY <2>6, <4>3, <4>4
    <3>6. Free(w) = Free(s)
      BY <1>00, <3>5 DEF Free
    <3>7. \A a \in Bno : a # 2 => V(w)[a] = V(s)[a]
      <4>1. CASE s.panic # NoPanic
        BY <2>7, <3>2, <3>4, <4>1 DEF V
      <4>2. CASE s.panic = NoPanic
        <5>1. w.wq = Append(s.wq, <<2, new>>) /\ Len(w.wq) = Len(s.wq) + 1
          BY <1>0, <2>7, <3>2, <3>4, <4>2 DEF Writes
        <5>2. V(w) = [V(s) EXCEPT ![2] = new]
          BY <1>0, <1>00, <2>4, <5>1, AfterLast DEF V
        <5> QED BY <5>2 DEF V, After
      <4> QED BY <4>1, <4>2
    <3>8. Mem(w) = Mem(s)
      <4>1. \A a \in Bno : Mem(w)[a] = Mem(s)[a]
        BY <1>0, <1>00, <3>5, <3>6, <3>7 DEF Mem
      <4> QED BY <4>1 DEF Mem
    <3>9. w.wq = IF s.panic = NoPanic THEN Append(s.wq, <<2, BitmapOf(Free(s) \ {b})>>) ELSE s.wq
      BY <2>7, <3>2, <3>4 DEF new
    <3>10. Good(w, Z, O, {})
      <4>1. \A a \in Bno : s.cache[a] # Unmapped => w.cache[a] # Unmapped
        BY <3>5
      <4>2. s.dirty \subseteq w.dirty /\ w.panic = s.panic
        BY <3>2, <3>4
      <4>3. \A a \in w.dirty : w.cache[a] # Unmapped
        BY <1>0, <1>00, <3>2, <3>4, <3>5
      <4>4. n = Taken(Mem(s), b)
        OBVIOUS
      <4> HIDE DEF n
      <4> QED BY <2>2, <3>4, <3>8, <3>9, <4>1, <4>2, <4>3, <4>4, TakeGood
    <3>11. t = Ret(w, E_NO_MEM)
      BY <2>9, <3>2, Codes DEF w
    <3>12. Good(t, Z, O, {}) /\ Mem(t) = Mem(w) /\ t.r = E_NO_MEM /\ t.out = w.out
          /\ t.cache = w.cache /\ t.dirty = w.dirty /\ t.panic = w.panic
      BY <3>10, <3>11, Codes, RetGood
    <3> QED BY <3>2, <3>4, <3>5, <3>8, <3>12, Codes
  <2> QED BY <2>10, <2>11, <2>12
<1> QED BY <1>1, <1>2

(* What every call keeps: blocks stay cached and dirty, the blocks of      *)
(* entries stay where they are, directories keep their size.               *)
Frame(s, t, Z) ==
    /\ \A a \in Bno : s.cache[a] # Unmapped => t.cache[a] # Unmapped
    /\ s.dirty \subseteq t.dirty
    /\ \A y \in Places(Z) : At(Mem(s), y) \in Z.p => At(Mem(t), y) = At(Mem(s), y)
    /\ \A g \in Z.dirs : FileIn(Mem(t), g).size = FileIn(Mem(s), g).size
    /\ s.panic # NoPanic => t.panic # NoPanic

(* The frame of two calls after each other.                                *)
LEMMA FrameTrans ==
    ASSUME NEW Z, NEW s, NEW t, NEW u, Frame(s, t, Z), Frame(t, u, Z)
    PROVE  Frame(s, u, Z)
  BY DEF Frame

(* A call that only reads is in the frame.                                 *)
LEMMA FrameCalm ==
    ASSUME NEW Z, NEW s, NEW t, Calm(s, t), s.panic # NoPanic => t.panic # NoPanic
    PROVE  Frame(s, t, Z)
  BY DEF Frame, Calm

(* So is one that does nothing.                                            *)
LEMMA FrameSame ==
    ASSUME NEW Z, NEW s
    PROVE  Frame(s, s, Z)
  BY DEF Frame

(* Open files stay open over a frame that keeps f_dir.                     *)
LEMMA FrameOpen ==
    ASSUME NEW Z, TreeOk(Z), NEW O, NEW F, NEW s, Good(s, Z, O, F),
           NEW t, Frame(s, t, Z), NEW f \in O, f \in Locs(Z) => FileIn(Mem(t), f).dir = FileIn(Mem(s), f).dir
    PROVE  OpenOk(Mem(t), t.dirty, f, Z)
<1>1. OpenOk(Mem(s), s.dirty, f, Z) /\ MemOk(Mem(s), Z)
  BY DEF Good, Core
<1> QED BY <1>1, OpenKept DEF Frame

(* The number in place i of a File.                                        *)
Ptr(x, i) == IF i = NINDIRECT THEN x.indirect ELSE x.direct[i]

(* At is Ptr in the places of Files.                                       *)
LEMMA AtPtr ==
    ASSUME NEW Z, TreeOk(Z), NEW m, NEW f \in Locs(Z), NEW i \in SafePlaces
    PROVE  At(m, <<1, f, i>>) = Ptr(FileIn(m, f), i)
  BY DEF At, Ptr

(* What storing a File changes.                                            *)
LEMMA SetFileIs ==
    ASSUME NEW Z, TreeOk(Z), NEW O, NEW F, NEW s, Good(s, Z, O, F),
           NEW f \in Locs(Z), s.cache[f[1]] # Unmapped,
           NEW x \in FileRec, f = Root => x \in RootRec, x.type = FileIn(Mem(s), f).type,
           NEW t, t = SetFile(s, f, x), NEW n, n = Mem(t)
    PROVE  /\ t \in St /\ t.dirty = s.dirty \cup {f[1]} /\ t.wq = s.wq /\ t.panic = s.panic
           /\ t.r = s.r /\ t.out = s.out /\ V(t) = V(s)
           /\ t = StoreBlock(s, f[1], FileBlk(Mem(s), f, x)) /\ FileBlk(Mem(s), f, x) \in Blk
           /\ t.cache[f[1]] # Unmapped /\ \A a \in Bno : a # f[1] => t.cache[a] = s.cache[a]
           /\ Shape(n, Z) /\ Types(n, Z) /\ n[1] # Smashed /\ n[2] = Mem(s)[2]
           /\ FileIn(n, f) = x
           /\ \A g \in Locs(Z) : g # f => FileIn(n, g) = FileIn(Mem(s), g)
           /\ \A y \in WordPlaces : At(n, y) = At(Mem(s), y)
           /\ \A y \in FilePlaces(Z) : y[2] # f => At(n, y) = At(Mem(s), y)
           /\ \A a \in Bno : a # f[1] => n[a] = Mem(s)[a]
<1> DEFINE m == Mem(s)
           c == FileBlk(m, f, x)
<1>1. /\ s \in St /\ s.cache \in [Bno -> Blk \cup {Unmapped}] /\ Shape(m, Z) /\ Types(m, Z) /\ m[1] # Smashed
      /\ m \in [Bno -> Blk]
      /\ \A b \in Bno : s.cache[b] # Unmapped => m[b] = s.cache[b]
  BY MemFacts
<1>2. f[1] \in Bno /\ f[1] # 2
  BY TreeFacts
<1>3. t = StoreBlock(s, f[1], c)
  BY <1>1, <1>2 DEF SetFile, FileBlk
<1> HIDE DEF m
<1>4. \A q : q = Put(m, f[1], c) =>
      /\ c \in Blk
      /\ Shape(q, Z) /\ Types(q, Z) /\ q[1] # Smashed /\ q[2] = m[2]
      /\ FileIn(q, f) = x
      /\ \A g \in Locs(Z) : g # f => FileIn(q, g) = FileIn(m, g)
      /\ \A y \in WordPlaces : At(q, y) = At(m, y)
      /\ \A y \in FilePlaces(Z) : y[2] # f => At(q, y) = At(m, y)
  BY <1>1, FilePut DEF m
<1>5. c \in Blk
  BY <1>4
<1> HIDE DEF c
<1>6. /\ t \in St /\ t.cache = [s.cache EXCEPT ![f[1]] = c] /\ t.dirty = s.dirty \cup {f[1]} /\ t.wq = s.wq /\ t.panic = s.panic
      /\ t.r = s.r /\ t.out = s.out /\ V(t) = V(s)
  BY <1>1, <1>2, <1>3, <1>5, StoreIs
<1>7. n = Put(m, f[1], c)
  BY <1>2, <1>3, <1>5, StoreMem DEF m
<1>8. t.cache[f[1]] # Unmapped /\ \A a \in Bno : a # f[1] => t.cache[a] = s.cache[a]
  BY <1>1, <1>2, <1>5, <1>6, Kinds
<1>9. \A a \in Bno : a # f[1] => n[a] = m[a]
  BY <1>1, <1>2, <1>5, <1>7, PutAt
<1> QED BY <1>3, <1>4, <1>5, <1>6, <1>7, <1>8, <1>9 DEF m, c

(* A File is stored that drops numbers, or gets a fresh one in one place:  *)
(* what the call knows stays.                                              *)
LEMMA SetFileGood ==
    ASSUME NEW Z, TreeOk(Z), NEW O, NEW F, NEW s, Good(s, Z, O, F),
           NEW f \in Locs(Z), s.cache[f[1]] # Unmapped,
           NEW x \in FileRec, f = Root => x \in RootRec, x.type = FileIn(Mem(s), f).type,
           f \in Z.dirs => x.size = FileIn(Mem(s), f).size,
           f \in O => x.dir = FileIn(Mem(s), f).dir,
           NEW E, F \subseteq E,
           NEW i0 \in SafePlaces, NEW b \in Int, b \notin Z.p, \A y \in Places(Z) : At(Mem(s), y) # b,
           \A i \in SafePlaces :
              \/ Ptr(x, i) = Ptr(FileIn(Mem(s), f), i)
              \/ Ptr(x, i) = 0 /\ f \in E /\ f \notin Z.dirs
              \/ i = i0 /\ Ptr(x, i) = b /\ Ptr(FileIn(Mem(s), f), i) = 0 /\ b > 2 /\ b \notin Free(s) /\ F = {},
           NEW t, t = SetFile(s, f, x)
    PROVE  /\ Good(t, Z, O, E) /\ Frame(s, t, Z)
<1> DEFINE m == Mem(s)
           n == Mem(t)
           x0 == <<1, f, i0>>
<1>1. /\ s \in St /\ MemOk(m, Z) /\ m[2].free = Free(s) /\ Shape(m, Z) /\ Sole(m, Places(Z)) /\ Guarded(m, Z)
  BY MemFacts DEF MemOk, DiskOk
<1>2. /\ t \in St /\ t.dirty = s.dirty \cup {f[1]} /\ t.wq = s.wq /\ t.panic = s.panic
      /\ V(t) = V(s)
      /\ t = StoreBlock(s, f[1], FileBlk(Mem(s), f, x)) /\ FileBlk(Mem(s), f, x) \in Blk
      /\ t.cache[f[1]] # Unmapped /\ \A a \in Bno : a # f[1] => t.cache[a] = s.cache[a]
      /\ Shape(n, Z) /\ Types(n, Z) /\ n[1] # Smashed /\ n[2] = m[2]
      /\ FileIn(n, f) = x
      /\ \A g \in Locs(Z) : g # f => FileIn(n, g) = FileIn(m, g)
      /\ \A y \in WordPlaces : At(n, y) = At(m, y)
      /\ \A y \in FilePlaces(Z) : y[2] # f => At(n, y) = At(m, y)
  BY SetFileIs
<1>3. f[1] \in Bno /\ f[1] # 2
  BY TreeFacts
<1> HIDE DEF m, n
<1>4. ASSUME NEW y \in Places(Z)
      PROVE  \/ At(n, y) = At(m, y)
             \/ y \in FilePlaces(Z) /\ y[2] = f /\ At(n, y) = 0 /\ f \in E /\ f \notin Z.dirs
             \/ y = x0 /\ At(n, y) = b /\ At(m, y) = 0 /\ b > 2 /\ b \notin Free(s) /\ F = {}
  <2>1. CASE y \in WordPlaces
    BY <1>2, <2>1
  <2>2. CASE y \in FilePlaces(Z) /\ y[2] # f
    BY <1>2, <2>2
  <2>3. CASE y \in FilePlaces(Z) /\ y[2] = f
    <3>1. y[3] \in SafePlaces /\ y = <<1, f, y[3]>>
      BY <2>3 DEF FilePlaces
    <3>2. At(n, y) = Ptr(x, y[3]) /\ At(m, y) = Ptr(FileIn(m, f), y[3])
      BY <1>2, <3>1, AtPtr
    <3> QED BY <2>3, <3>1, <3>2 DEF m
  <2> QED BY <2>1, <2>2, <2>3 DEF Places
<1>5. 0 \notin Real
  BY DEF Real
<1>6. MemOk(n, Z)
  <2>1. x0 \in Places(Z)
    BY PlaceMade
  <2>2. \A y \in Places(Z) : \/ At(n, y) = At(m, y) /\ (At(n, y) \in Real => At(n, y) \notin n[2].free)
                             \/ At(n, y) \notin Real
                             \/ y = x0 /\ At(n, y) = b /\ b > 2 /\ b \notin n[2].free
    BY <1>1, <1>2, <1>4, <1>5 DEF Sole
  <2>3. \A y \in Places(Z) : At(m, y) # b
    BY DEF m
  <2> HIDE DEF x0
  <2> QED BY <1>1, <1>2, <2>1, <2>2, <2>3, MemKept
<1>7. s.panic = NoPanic => Rel(V(s), n, E, Z)
  <2> SUFFICES ASSUME s.panic = NoPanic PROVE Rel(V(s), n, E, Z)
    OBVIOUS
  <2>1. Rel(V(s), m, F, Z)
    BY DEF Good, Core, m
  <2>2. F # {} => \A y \in FilePlaces(Z) : At(n, y) = At(m, y) \/ At(n, y) \notin Real
    BY <1>4, <1>5 DEF Places
  <2>3. ASSUME NEW y \in FilePlaces(Z), At(m, y) \in Real
        PROVE  At(n, y) = At(m, y) \/ (y[2] \in E /\ \A z \in FilePlaces(Z) : At(n, z) # At(m, y))
    <3>1. CASE At(n, y) = At(m, y)
      BY <3>1
    <3>2. CASE At(n, y) # At(m, y)
      <4>1. y[2] \in E /\ At(n, y) = 0 /\ y \in Places(Z)
        BY <1>4, <1>5, <2>3, <3>2 DEF Places
      <4>2. ASSUME NEW z \in FilePlaces(Z), At(n, z) = At(m, y) PROVE FALSE
        <5>1. z \in Places(Z)
          BY DEF Places
        <5>2. At(m, y) # b
          BY <4>1 DEF m
        <5>3. At(n, z) = At(m, z)
          BY <1>4, <1>5, <2>3, <4>2, <5>1, <5>2
        <5>4. z = y
          BY <1>1, <2>3, <4>1, <4>2, <5>1, <5>3 DEF Sole
        <5> QED BY <1>5, <2>3, <4>1, <4>2, <5>4
      <4> QED BY <4>1, <4>2
    <3> QED BY <3>1, <3>2
  <2> QED BY <2>1, <2>2, <2>3, RelKept
<1>8. Frame(s, t, Z)
  <2>1. \A a \in Bno : s.cache[a] # Unmapped => t.cache[a] # Unmapped
    BY <1>2
  <2>2. \A y \in Places(Z) : At(m, y) \in Z.p => At(n, y) = At(m, y)
    <3> SUFFICES ASSUME NEW y \in Places(Z), At(m, y) \in Z.p PROVE At(n, y) = At(m, y)
      OBVIOUS
    <3>1. At(m, y) \in Real /\ Holder(y, Z)
      BY <1>1, TreeFacts DEF Guarded
    <3>2. ~(y \in FilePlaces(Z) /\ y[2] = f /\ f \notin Z.dirs)
      BY <3>1 DEF Holder, FilePlaces
    <3> QED BY <1>4, <1>5, <3>1, <3>2
  <2>3. \A g \in Z.dirs : FileIn(n, g).size = FileIn(m, g).size
    BY <1>2, TreeFacts DEF m
  <2> QED BY <1>2, <2>1, <2>2, <2>3 DEF Frame, m, n
<1>9. \A g \in O : OpenOk(n, t.dirty, g, Z)
  <2> SUFFICES ASSUME NEW g \in O PROVE OpenOk(n, t.dirty, g, Z)
    OBVIOUS
  <2>1. g \in Locs(Z) => FileIn(n, g).dir = FileIn(m, g).dir
    BY <1>2 DEF m
  <2> QED BY <1>8, <2>1, FrameOpen DEF m, n
<1>10. Good(t, Z, O, E)
  <2>1. t = StoreBlock(s, f[1], FileBlk(Mem(s), f, x)) /\ FileBlk(Mem(s), f, x) \in Blk
    BY <1>2
  <2>2. s.panic = NoPanic => Rel(V(s), Mem(t), E, Z)
    BY <1>7 DEF n
  <2>3. MemOk(Mem(t), Z) /\ \A g \in O : OpenOk(Mem(t), t.dirty, g, Z)
    BY <1>6, <1>9 DEF n
  <2> QED BY <1>3, <2>1, <2>2, <2>3, StoreGood
<1> QED BY <1>8, <1>10

(* A number that no place holds. *)
LEMMA NoBlock ==
    ASSUME NEW Z, TreeOk(Z), NEW m, Shape(m, Z)
    PROVE  \E b \in Int : b \notin Z.p /\ \A y \in Places(Z) : At(m, y) # b
<1>1. PICK b \in Int : b < 0
  <2>1. -1 \in Int /\ -1 < 0
    OBVIOUS
  <2> QED BY <2>1
<1>2. \A y \in Places(Z) : At(m, y) \in Nat
  BY AtNat
<1>3. \A a \in Z.p : a > 2
  BY TreeFacts
<1> QED BY <1>1, <1>2, <1>3

(* Files with the same fields have the same numbers.                       *)
LEMMA PtrSame ==
    ASSUME NEW x, NEW y, x.direct = y.direct, x.indirect = y.indirect
    PROVE  \A i \in SafePlaces : Ptr(x, i) = Ptr(y, i)
  BY DEF Ptr

(* A File is stored that keeps its numbers.                                *)
LEMMA EditGood ==
    ASSUME NEW Z, TreeOk(Z), NEW O, NEW F, NEW s, Good(s, Z, O, F),
           NEW f \in Locs(Z), s.cache[f[1]] # Unmapped,
           NEW x \in FileRec, f = Root => x \in RootRec, x.type = FileIn(Mem(s), f).type,
           f \in Z.dirs => x.size = FileIn(Mem(s), f).size,
           f \in O => x.dir = FileIn(Mem(s), f).dir,
           x.direct = FileIn(Mem(s), f).direct, x.indirect = FileIn(Mem(s), f).indirect,
           NEW t, t = SetFile(s, f, x)
    PROVE  /\ Good(t, Z, O, F) /\ Frame(s, t, Z)
<1>1. Shape(Mem(s), Z)
  BY MemFacts
<1>2. PICK b \in Int : b \notin Z.p /\ \A y \in Places(Z) : At(Mem(s), y) # b
  BY <1>1, NoBlock
<1>3. \A i \in SafePlaces : Ptr(x, i) = Ptr(FileIn(Mem(s), f), i)
  BY PtrSame
<1>4. PICK i0 \in SafePlaces : TRUE
  BY PlaceMade
<1>5. F \subseteq F
  OBVIOUS
<1> QED BY <1>2, <1>3, <1>4, <1>5, SetFileGood

(* A File with one field changed is a File, and the other fields stay.     *)
LEMMA RecFacts ==
    ASSUME NEW x \in FileRec
    PROVE  /\ \A y \in Name : [x EXCEPT !.name = y] \in FileRec
           /\ \A y \in Nat : [x EXCEPT !.size = y] \in FileRec
           /\ \A y \in Loc : [x EXCEPT !.dir = y] \in FileRec
           /\ \A y \in Nat : [x EXCEPT !.indirect = y] \in FileRec
           /\ \A i \in Direct, y \in Nat : [x EXCEPT !.direct[i] = y] \in FileRec
           /\ \A y : LET z == [x EXCEPT !.name = y]
                     IN  z.size = x.size /\ z.type = x.type /\ z.dir = x.dir
                         /\ z.direct = x.direct /\ z.indirect = x.indirect /\ z.name = y
           /\ \A y : LET z == [x EXCEPT !.size = y]
                     IN  z.name = x.name /\ z.type = x.type /\ z.dir = x.dir
                         /\ z.direct = x.direct /\ z.indirect = x.indirect /\ z.size = y
           /\ \A y : LET z == [x EXCEPT !.dir = y]
                     IN  z.name = x.name /\ z.type = x.type /\ z.size = x.size
                         /\ z.direct = x.direct /\ z.indirect = x.indirect /\ z.dir = y
           /\ \A y : LET z == [x EXCEPT !.indirect = y]
                     IN  z.name = x.name /\ z.type = x.type /\ z.size = x.size
                         /\ z.direct = x.direct /\ z.dir = x.dir /\ z.indirect = y
           /\ \A i, y : LET z == [x EXCEPT !.direct[i] = y]
                     IN  z.name = x.name /\ z.type = x.type /\ z.size = x.size
                         /\ z.direct = [x.direct EXCEPT ![i] = y] /\ z.dir = x.dir /\ z.indirect = x.indirect
<1>1. \A y \in Name : [x EXCEPT !.name = y] \in FileRec
  BY DEF FileRec
<1>2. \A y \in Nat : [x EXCEPT !.size = y] \in FileRec
  BY DEF FileRec
<1>3. \A y \in Loc : [x EXCEPT !.dir = y] \in FileRec
  BY DEF FileRec
<1>4. \A y \in Nat : [x EXCEPT !.indirect = y] \in FileRec
  BY DEF FileRec
<1>5. \A i \in Direct, y \in Nat : [x EXCEPT !.direct[i] = y] \in FileRec
  BY DEF FileRec
<1> QED BY <1>1, <1>2, <1>3, <1>4, <1>5 DEF FileRec

(* What is known of a cached File: it is the one in memory, and a          *)
(* directory exactly if the tree says so.                                  *)
LEMMA RootKeeps ==
    ASSUME NEW Z, TreeOk(Z), NEW O, NEW F, NEW s, Good(s, Z, O, F),
           NEW f \in Locs(Z), s.cache[f[1]] # Unmapped
    PROVE  /\ File(s, f) = FileIn(Mem(s), f) /\ File(s, f) \in FileRec
           /\ \A x \in FileRec : x.dir = File(s, f).dir => (f = Root => x \in RootRec)
           /\ File(s, f).type = FTYPE_DIR <=> f \in Z.dirs
           /\ File(s, f).type \in {FTYPE_REG, FTYPE_DIR}
           /\ File(s, f).size \in Nat /\ File(s, f).indirect \in Nat
           /\ File(s, f).direct \in [Direct -> Nat] /\ File(s, f).dir \in Loc
           /\ f = Root => File(s, f).dir = NoLoc
<1>1. File(s, f) = FileIn(Mem(s), f) /\ Shape(Mem(s), Z) /\ Types(Mem(s), Z) /\ Mem(s)[1] # Smashed
  BY MemFacts
<1>2. File(s, f) \in FileRec /\ (f = Root => File(s, f) \in RootRec)
  BY <1>1, FileInType
<1>3. f = Root => File(s, f).dir = NoLoc
  BY <1>2 DEF RootRec
<1>4. File(s, f).type = FTYPE_DIR <=> f \in Z.dirs
  BY <1>1 DEF Types
<1>5. /\ File(s, f).type \in {FTYPE_REG, FTYPE_DIR}
      /\ File(s, f).size \in Nat /\ File(s, f).indirect \in Nat
      /\ File(s, f).direct \in [Direct -> Nat] /\ File(s, f).dir \in Loc
  BY <1>2 DEF FileRec
<1>6. \A x \in FileRec : x.dir = File(s, f).dir => (f = Root => x \in RootRec)
  BY <1>3 DEF RootRec
<1> QED BY <1>1, <1>2, <1>3, <1>4, <1>5, <1>6

(* A name is stored.                                                       *)
LEMMA SetNameGood ==
    ASSUME NEW Z, TreeOk(Z), NEW O, NEW F, NEW s, Good(s, Z, O, F),
           NEW f \in Locs(Z), s.cache[f[1]] # Unmapped, NEW x \in Name,
           NEW t, t = SetName(s, f, x)
    PROVE  Good(t, Z, O, F) /\ Frame(s, t, Z)
<1> DEFINE y == [File(s, f) EXCEPT !.name = x]
<1>1. /\ File(s, f) = FileIn(Mem(s), f) /\ File(s, f) \in FileRec
      /\ \A z \in FileRec : z.dir = File(s, f).dir => (f = Root => z \in RootRec)
  BY RootKeeps
<1>2. /\ y \in FileRec /\ y.dir = File(s, f).dir /\ y.type = File(s, f).type /\ y.size = File(s, f).size
      /\ y.direct = File(s, f).direct /\ y.indirect = File(s, f).indirect
  BY <1>1, RecFacts
<1>3. t = SetFile(s, f, y)
  BY DEF SetName
<1> HIDE DEF y
<1> QED BY <1>1, <1>2, <1>3, EditGood

(* The size of a regular file is stored.                                   *)
LEMMA SetSizeGood ==
    ASSUME NEW Z, TreeOk(Z), NEW O, NEW F, NEW s, Good(s, Z, O, F),
           NEW f \in Locs(Z), f \notin Z.dirs, s.cache[f[1]] # Unmapped, NEW x \in Nat,
           NEW t, t = SetSize(s, f, x)
    PROVE  Good(t, Z, O, F) /\ Frame(s, t, Z)
<1> DEFINE y == [File(s, f) EXCEPT !.size = x]
<1>1. /\ File(s, f) = FileIn(Mem(s), f) /\ File(s, f) \in FileRec
      /\ \A z \in FileRec : z.dir = File(s, f).dir => (f = Root => z \in RootRec)
  BY RootKeeps
<1>2. /\ y \in FileRec /\ y.dir = File(s, f).dir /\ y.type = File(s, f).type
      /\ y.direct = File(s, f).direct /\ y.indirect = File(s, f).indirect
  BY <1>1, RecFacts
<1>3. t = SetFile(s, f, y)
  BY DEF SetSize
<1> HIDE DEF y
<1> QED BY <1>1, <1>2, <1>3, EditGood

(* A lookup found f in block i of directory g. *)
LEMMA SetDirGood ==
    ASSUME NEW Z, TreeOk(Z), NEW O, NEW F, NEW s, Good(s, Z, O, F),
           NEW f \in Locs(Z), f # Root, s.cache[f[1]] # Unmapped, NEW g \in Z.dirs,
           g = Root \/ g[1] \in s.dirty, NEW i \in Word,
           i < FileIn(Mem(s), g).size \div BY2BLK, Leads(Mem(s), g, i, f[1]),
           NEW t, t = SetDir(s, f, g)
    PROVE  /\ Good(t, Z, O \cup {f}, F) /\ Frame(s, t, Z)
           /\ t.cache[f[1]] # Unmapped /\ t.panic = s.panic /\ f[1] \in t.dirty
<1> DEFINE y == [File(s, f) EXCEPT !.dir = g]
<1>1. /\ File(s, f) = FileIn(Mem(s), f) /\ File(s, f) \in FileRec
  BY RootKeeps
<1>2. g \in Loc /\ g \in Locs(Z) /\ f[1] \in Bno /\ f[1] \in Z.d /\ f \in Z.d \X Slot
  BY TreeFacts
<1>3. /\ y \in FileRec /\ y.type = File(s, f).type /\ y.size = File(s, f).size
      /\ y.direct = File(s, f).direct /\ y.indirect = File(s, f).indirect /\ y.dir = g
  BY <1>1, <1>2, RecFacts
<1>4. t = SetFile(s, f, y)
  BY DEF SetDir
<1> HIDE DEF y
<1>5. Good(s, Z, O \ {f}, F)
  <2>1. \A h \in O \ {f} : h \in O \/ OpenOk(Mem(s), s.dirty, h, Z)
    OBVIOUS
  <2> QED BY <2>1, Regood
<1>6. Good(t, Z, O \ {f}, F) /\ Frame(s, t, Z)
  BY <1>1, <1>3, <1>4, <1>5, EditGood
<1>7. t.dirty = s.dirty \cup {f[1]} /\ t.panic = s.panic /\ t.cache[f[1]] # Unmapped /\ FileIn(Mem(t), f) = y
  BY <1>1, <1>3, <1>4, SetFileIs
<1>8. Leads(Mem(t), g, i, f[1])
  BY <1>2, <1>6, LeadsKept, MemFacts DEF Frame
<1>9. FileIn(Mem(t), g).size = FileIn(Mem(s), g).size
  BY <1>6 DEF Frame
<1>10. OpenOk(Mem(t), t.dirty, f, Z)
  BY <1>2, <1>3, <1>7, <1>8, <1>9 DEF OpenOk
<1>11. Good(t, Z, O \cup {f}, F)
  <2>1. \A h \in O \cup {f} : h \in O \ {f} \/ OpenOk(Mem(t), t.dirty, h, Z)
    BY <1>10
  <2> QED BY <1>6, <2>1, Regood
<1> QED BY <1>6, <1>7, <1>11

(* A block that was just allocated is entered into a file. *)
LEMMA FileFresh ==
    ASSUME NEW Z, TreeOk(Z), NEW O, NEW s, Good(s, Z, O, {}),
           NEW f \in Locs(Z), s.cache[f[1]] # Unmapped,
           NEW b \in Nat, Fresh(Mem(s), b, Z), NEW i0 \in SafePlaces,
           NEW x \in FileRec, x.dir = FileIn(Mem(s), f).dir, x.type = FileIn(Mem(s), f).type,
           x.size = FileIn(Mem(s), f).size,
           Ptr(FileIn(Mem(s), f), i0) = 0, Ptr(x, i0) = b,
           \A i \in SafePlaces : i # i0 => Ptr(x, i) = Ptr(FileIn(Mem(s), f), i),
           NEW t, t = SetFile(s, f, x)
    PROVE  Good(t, Z, O, {}) /\ Frame(s, t, Z)
<1>1. /\ File(s, f) = FileIn(Mem(s), f)
      /\ \A z \in FileRec : z.dir = File(s, f).dir => (f = Root => z \in RootRec)
  BY RootKeeps
<1>2. /\ b \in Int /\ b \notin Z.p /\ (\A y \in Places(Z) : At(Mem(s), y) # b) /\ b > 2 /\ b \notin Free(s)
  BY MemFacts DEF Fresh
<1>3. \A i \in SafePlaces :
              \/ Ptr(x, i) = Ptr(FileIn(Mem(s), f), i)
              \/ i = i0 /\ Ptr(x, i) = b /\ Ptr(FileIn(Mem(s), f), i) = 0 /\ b > 2 /\ b \notin Free(s)
  BY <1>2
<1>4. {} \subseteq {}
  OBVIOUS
<1> QED BY <1>1, <1>2, <1>3, <1>4, SetFileGood

(* Stores to two blocks may be exchanged.                                  *)
LEMMA StoreSwap ==
    ASSUME NEW s \in St, NEW a \in Bno, NEW b \in Bno, a # b, NEW c \in Blk, NEW d \in Blk,
           NEW t, t = StoreBlock(StoreBlock(s, a, c), b, d),
           NEW u, u = StoreBlock(StoreBlock(s, b, d), a, c)
    PROVE  /\ t \in St /\ t.cache = u.cache /\ t.dirty = u.dirty /\ t.wq = u.wq /\ t.panic = u.panic
<1> DEFINE t1 == StoreBlock(s, a, c)
           u1 == StoreBlock(s, b, d)
<1>1. /\ t1 \in St /\ t1.cache = [s.cache EXCEPT ![a] = c] /\ t1.dirty = s.dirty \cup {a}
      /\ t1.wq = s.wq /\ t1.panic = s.panic
  BY StoreIs
<1>2. /\ u1 \in St /\ u1.cache = [s.cache EXCEPT ![b] = d] /\ u1.dirty = s.dirty \cup {b}
      /\ u1.wq = s.wq /\ u1.panic = s.panic
  BY StoreIs
<1>0. t = StoreBlock(t1, b, d) /\ u = StoreBlock(u1, a, c)
  OBVIOUS
<1> HIDE DEF t1, u1
<1>3. /\ t \in St /\ t.cache = [t1.cache EXCEPT ![b] = d] /\ t.dirty = t1.dirty \cup {b}
      /\ t.wq = t1.wq /\ t.panic = t1.panic
  BY <1>0, <1>1, StoreIs
<1>4. /\ u.cache = [u1.cache EXCEPT ![a] = c] /\ u.dirty = u1.dirty \cup {a}
      /\ u.wq = u1.wq /\ u.panic = u1.panic
  BY <1>0, <1>2, StoreIs
<1>5. s.cache \in [Bno -> Blk \cup {Unmapped}]
  BY DEF St
<1>6. t.cache = u.cache
  BY <1>1, <1>2, <1>3, <1>4, <1>5
<1>7. t.dirty = u.dirty
  BY <1>1, <1>2, <1>3, <1>4
<1> QED BY <1>1, <1>2, <1>3, <1>4, <1>6, <1>7

(* free_block of a block that nobody holds.                                *)
LEMMA FreeGood ==
    ASSUME NEW Z, TreeOk(Z), NEW O, NEW F, NEW s, Good(s, Z, O, F), NEW b \in Nat,
           b \in Real => b > 2 /\ b \notin Z.p /\ \A y \in Places(Z) : At(Mem(s), y) # b,
           NEW t, t = free_block(s, b)
    PROVE  /\ Good(t, Z, O, F) /\ Frame(s, t, Z)
<1>1. CASE b \notin Real
  <2>1. b = 0 \/ b >= NBLOCK
    BY <1>1, Sizes DEF Real, Bno
  <2>2. t = s
    BY <2>1 DEF free_block
  <2> QED BY <2>2, FrameSame
<1>2. CASE b \in Real
  <2> DEFINE m == Mem(s)
             S == Free(s) \cup {b}
             m1 == Put(m, 2, BitmapOf(S))
             n == Mem(t)
  <2>1. /\ s \in St /\ s.cache \in [Bno -> Blk \cup {Unmapped}] /\ Free(s) \subseteq Bno
        /\ Shape(m, Z) /\ Types(m, Z) /\ m[1] # Smashed /\ m[2].free = Free(s) /\ MemOk(m, Z)
        /\ s.cache[2] # Unmapped /\ m[2] = s.cache[2] /\ m \in [Bno -> Blk]
        /\ \A a \in Free(s) : a > 2 /\ a \notin Z.p
    BY MemFacts
  <2>1a. Sole(m, Places(Z)) /\ Guarded(m, Z)
    BY <2>1 DEF MemOk, DiskOk
  <2>2. 2 \in Bno /\ b \in Bno /\ b > 2 /\ b \notin Z.p /\ b \notin Z.d /\ \A y \in Places(Z) : At(Mem(s), y) # b
    BY <1>2, TreeFacts DEF Real
  <2>3. S \subseteq Bno /\ \A a \in S : a > 2 /\ a \notin Z.p
    BY <2>1, <2>2
  <2>4. t = StoreBlock(s, 2, BitmapOf(S))
    <3>1. ~(b = 0 \/ b >= NBLOCK)
      BY <1>2, Sizes DEF Real, Bno
    <3> QED BY <3>1 DEF free_block
  <2>5. /\ BitmapOf(S) \in Blk
        /\ Shape(m1, Z) /\ Types(m1, Z) /\ m1[1] = m[1] /\ m1[2] = BitmapOf(S) /\ m1[2].free = S
        /\ \A a \in Bno : a # 2 => m1[a] = m[a]
        /\ \A g \in Locs(Z) : FileIn(m1, g) = FileIn(m, g)
        /\ \A y \in Places(Z) : At(m1, y) = At(m, y)
    BY <2>1, <2>3, BitmapPut
  <2> HIDE DEF S, m1, m, n
  <2>6. /\ t \in St /\ t.cache = [s.cache EXCEPT ![2] = BitmapOf(S)] /\ t.dirty = s.dirty \cup {2}
        /\ t.wq = s.wq /\ t.panic = s.panic /\ V(t) = V(s)
    BY <2>1, <2>2, <2>4, <2>5, StoreIs
  <2>7. /\ t.cache[2] = BitmapOf(S) /\ t.cache[2] # Unmapped
        /\ \A a \in Bno : a # 2 => t.cache[a] = s.cache[a]
    BY <2>1, <2>2, <2>5, <2>6, Kinds
  <2>8. Free(t) = S
    BY <2>7 DEF Free, BitmapOf
  <2>9. /\ n[2] = BitmapOf(S)
        /\ \A a \in Bno : a # 2 /\ a # b => n[a] = m[a]
        /\ n[b] = m[b] \/ n[b] = Zero
    BY <2>2, <2>6, <2>7, <2>8 DEF Mem, m, n, S
  <2>10. n = m1 \/ n = Put(m1, b, Zero)
    <3>1. n = [a \in Bno |-> n[a]]
      BY DEF n, Mem
    <3>2. m1 = [a \in Bno |-> m1[a]]
      BY <2>1 DEF m1, Put
    <3>3. m1[2] = n[2] /\ \A a \in Bno : a # b => n[a] = m1[a]
      BY <2>5, <2>9
    <3>4. m1[b] = m[b]
      BY <2>2, <2>5
    <3>5. CASE n[b] = m[b]
      <4>1. \A a \in Bno : n[a] = m1[a]
        BY <3>3, <3>4, <3>5
      <4> QED BY <3>1, <3>2, <4>1
    <3>6. CASE n[b] = Zero
      <4>1. Put(m1, b, Zero) = [a \in Bno |-> IF a = b THEN Zero ELSE m1[a]]
        BY <3>2 DEF Put
      <4> QED BY <3>1, <3>3, <3>6, <4>1
    <3> QED BY <2>9, <3>5, <3>6
  <2>11. /\ Shape(n, Z) /\ Types(n, Z) /\ n[1] = m[1] /\ n[2].free = S
         /\ \A g \in Locs(Z) : FileIn(n, g) = FileIn(m, g)
         /\ \A y \in FilePlaces(Z) : At(n, y) = At(m, y)
         /\ \A y \in WordPlaces : At(n, y) = At(m, y) \/ (y[2] = b /\ At(n, y) = 0)
    <3>1. CASE n = m1
      BY <2>5, <3>1 DEF Places
    <3>2. CASE n = Put(m1, b, Zero)
      <4>1. Zero \in OtherBlk
        BY DEF OtherBlk
      <4>2. /\ Shape(n, Z) /\ Types(n, Z) /\ n[1] = m1[1] /\ n[2] = m1[2] /\ n[b] = Zero
            /\ \A g \in Locs(Z) : FileIn(n, g) = FileIn(m1, g)
            /\ \A y \in FilePlaces(Z) : At(n, y) = At(m1, y)
            /\ \A y \in WordPlaces : y[2] # b => At(n, y) = At(m1, y)
        BY <2>2, <2>5, <3>2, <4>1, OtherPut
      <4>3. \A y \in WordPlaces : y[2] = b => At(n, y) = 0
        BY <4>2, Kinds DEF At, WordPlaces
      <4> QED BY <2>5, <4>2, <4>3 DEF Places
    <3> QED BY <2>10, <3>1, <3>2
  <2>12. 0 \notin Real
    BY DEF Real
  <2>13. MemOk(n, Z)
    <3>1. PICK x0 \in Places(Z) : TRUE
      BY TreeFacts, PlaceMade
    <3>2. \A y \in Places(Z) : At(m, y) # b
      BY <2>2 DEF m
    <3>3. \A y \in Places(Z) : \/ At(n, y) = At(m, y) /\ (At(n, y) \in Real => At(n, y) \notin n[2].free)
                               \/ At(n, y) \notin Real
      <4> SUFFICES ASSUME NEW y \in Places(Z), At(n, y) = At(m, y), At(n, y) \in Real
                   PROVE  At(n, y) \notin n[2].free
        BY <2>11, <2>12 DEF Places
      <4>1. At(m, y) \notin Free(s)
        BY <2>1, <2>1a DEF Sole
      <4> QED BY <2>11, <3>2, <4>1 DEF S
    <3>4. n[1] # Smashed
      BY <2>1, <2>11
    <3> QED BY <2>1, <2>2, <2>11, <3>1, <3>2, <3>3, <3>4, MemKept
  <2>14. Frame(s, t, Z)
    <3>1. \A a \in Bno : s.cache[a] # Unmapped => t.cache[a] # Unmapped
      BY <2>7
    <3>2. \A y \in Places(Z) : At(m, y) \in Z.p => At(n, y) = At(m, y)
      <4> SUFFICES ASSUME NEW y \in Places(Z), At(m, y) \in Z.p PROVE At(n, y) = At(m, y)
        OBVIOUS
      <4>1. Holder(y, Z)
        BY <2>1a DEF Guarded
      <4>2. ~(y \in WordPlaces /\ y[2] = b)
        BY <2>2, <4>1 DEF Holder, WordPlaces
      <4> QED BY <2>11, <4>2 DEF Places
    <3>3. \A g \in Z.dirs : FileIn(n, g).size = FileIn(m, g).size
      BY <2>11, TreeFacts
    <3> QED BY <2>6, <3>1, <3>2, <3>3 DEF Frame, m, n
  <2>15. \A g \in O : OpenOk(n, t.dirty, g, Z)
    <3> SUFFICES ASSUME NEW g \in O PROVE OpenOk(n, t.dirty, g, Z)
      OBVIOUS
    <3>1. g \in Locs(Z) => FileIn(n, g).dir = FileIn(m, g).dir
      BY <2>11
    <3> QED BY <2>14, <3>1, FrameOpen DEF m, n
  <2>16. /\ Crashable(disk, t.wq, Z) /\ \A k \in 1..Len(t.wq) : t.cache[t.wq[k][1]] # Unmapped
    <3>1. \A k \in 1..Len(s.wq) : s.wq[k][1] \in Bno /\ s.cache[s.wq[k][1]] # Unmapped
      BY <2>1 DEF Good, Core, St
    <3> QED BY <2>6, <2>7, <3>1 DEF Good, Core
  <2>17. \A a \in {0, 1, 2} \cup t.dirty : t.cache[a] # Unmapped
    BY <2>6, <2>7, <2>1 DEF Good, Core
  <2>18. t.panic = NoPanic => V(t)[2].free \subseteq Free(t) /\ Rel(V(t), n, F, Z)
    <3> SUFFICES ASSUME t.panic = NoPanic PROVE V(t)[2].free \subseteq Free(t) /\ Rel(V(t), n, F, Z)
      OBVIOUS
    <3>1. V(s)[2].free \subseteq Free(s) /\ Rel(V(s), m, F, Z)
      BY <2>6 DEF Good, Core, m
    <3>2. V(t)[2].free \subseteq Free(t)
      BY <2>6, <2>8, <3>1 DEF S
    <3>3. Rel(V(t), n, F, Z)
      BY <2>6, <2>11, <3>1 DEF Rel
    <3> QED BY <3>2, <3>3
  <2> QED BY <2>6, <2>13, <2>14, <2>15, <2>16, <2>17, <2>18 DEF Good, Core, n
<1> QED BY <1>1, <1>2

(* The store of a bitmap may come before or after another one. *)
LEMMA FreeIs ==
    ASSUME NEW Z, TreeOk(Z), NEW O, NEW F, NEW s, Good(s, Z, O, F), NEW b \in Nat,
           NEW t, t = free_block(s, b)
    PROVE  /\ t \in St /\ \A a \in Bno : a # 2 => t.cache[a] = s.cache[a]
           /\ \/ t = s
              \/ b \in Real /\ BitmapOf(Free(s) \cup {b}) \in Blk
                 /\ t = StoreBlock(s, 2, BitmapOf(Free(s) \cup {b}))
<1>1. /\ s \in St /\ s.cache \in [Bno -> Blk \cup {Unmapped}] /\ Free(s) \subseteq Bno
  BY MemFacts
<1>2. CASE b = 0 \/ b >= NBLOCK
  BY <1>1, <1>2 DEF free_block
<1>3. CASE ~(b = 0 \/ b >= NBLOCK)
  <2>1. b \in Real /\ 2 \in Bno /\ b \in Bno
    BY <1>3, TreeFacts, Sizes DEF Real, Bno
  <2>2. BitmapOf(Free(s) \cup {b}) \in Blk
    <3>1. Free(s) \cup {b} \subseteq Bno
      BY <1>1, <2>1
    <3> QED BY <3>1 DEF Blk, BitmapBlk, BitmapOf
  <2>3. t = StoreBlock(s, 2, BitmapOf(Free(s) \cup {b}))
    BY <1>3 DEF free_block
  <2>4. t \in St /\ t.cache = [s.cache EXCEPT ![2] = BitmapOf(Free(s) \cup {b})]
    <3> DEFINE d == BitmapOf(Free(s) \cup {b})
    <3>1. t = StoreBlock(s, 2, d) /\ d \in Blk
      BY <2>2, <2>3
    <3> HIDE DEF d
    <3>2. PICK two \in Bno : two = 2
      BY <2>1
    <3>3. t \in St /\ t.cache = [s.cache EXCEPT ![two] = d]
      BY <1>1, <3>1, <3>2, StoreIs
    <3> QED BY <3>2, <3>3 DEF d
  <2> QED BY <1>1, <2>1, <2>2, <2>3, <2>4
<1> QED BY <1>2, <1>3

(* free_block stores to the bitmap only.                                   *)
LEMMA FreeCache ==
    ASSUME NEW Z, TreeOk(Z), NEW O, NEW F, NEW s, Good(s, Z, O, F), NEW b \in Nat,
           NEW a \in Bno, a # 2
    PROVE  free_block(s, b).cache[a] = s.cache[a]
<1>1. s \in St /\ s.cache \in [Bno -> Blk \cup {Unmapped}]
  BY MemFacts
<1>2. CASE b = 0 \/ b >= NBLOCK
  BY <1>2 DEF free_block
<1>3. CASE ~(b = 0 \/ b >= NBLOCK)
  <2>1. free_block(s, b) = StoreBlock(s, 2, BitmapOf(Free(s) \cup {b}))
    BY <1>3 DEF free_block
  <2>2. free_block(s, b).cache = [s.cache EXCEPT ![2] = BitmapOf(Free(s) \cup {b})]
    BY <1>1, <2>1 DEF StoreBlock, St
  <2> QED BY <1>1, <2>2
<1> QED BY <1>2, <1>3

(* It may be exchanged with a store to another block.                      *)
LEMMA FreeSwap ==
    ASSUME NEW Z, TreeOk(Z), NEW O, NEW F, NEW s, Good(s, Z, O, F), NEW b \in Nat,
           NEW a \in Bno, a # 2, NEW c \in Blk,
           NEW t, t = StoreBlock(free_block(s, b), a, c),
           NEW u, u = free_block(StoreBlock(s, a, c), b)
    PROVE  t \in St /\ t.cache = u.cache /\ t.dirty = u.dirty /\ t.wq = u.wq /\ t.panic = u.panic
<1> DEFINE s1 == StoreBlock(s, a, c)
           s2 == free_block(s, b)
<1>1. s \in St /\ s.cache \in [Bno -> Blk \cup {Unmapped}] /\ 2 \in Bno
  BY MemFacts, TreeFacts
<1>2. s1 \in St /\ s1.cache = [s.cache EXCEPT ![a] = c]
  BY <1>1, StoreIs
<1>3. Free(s1) = Free(s)
  BY <1>1, <1>2 DEF Free
<1>4. /\ s2 \in St
      /\ \/ s2 = s
         \/ b \in Real /\ BitmapOf(Free(s) \cup {b}) \in Blk
                 /\ s2 = StoreBlock(s, 2, BitmapOf(Free(s) \cup {b}))
  <2>1. s2 = free_block(s, b)
    OBVIOUS
  <2> HIDE DEF s2
  <2> QED BY <2>1, FreeIs
<1>5. CASE b \in Real
  <2>1. ~(b = 0 \/ b >= NBLOCK)
    BY <1>5, Sizes DEF Real, Bno
  <2>2. u = StoreBlock(s1, 2, BitmapOf(Free(s) \cup {b}))
    BY <1>3, <2>1 DEF free_block
  <2>3. s2 = StoreBlock(s, 2, BitmapOf(Free(s) \cup {b}))
    BY <2>1 DEF free_block
  <2>4. BitmapOf(Free(s) \cup {b}) \in Blk
    <3>1. Free(s) \cup {b} \subseteq Bno
      BY <1>5, MemFacts DEF Real
    <3> QED BY <3>1 DEF Blk, BitmapBlk, BitmapOf
  <2> DEFINE d == BitmapOf(Free(s) \cup {b})
  <2>5. t = StoreBlock(StoreBlock(s, 2, d), a, c) /\ u = StoreBlock(StoreBlock(s, a, c), 2, d) /\ d \in Blk
    BY <2>2, <2>3, <2>4
  <2> HIDE DEF d
  <2>6. PICK two \in Bno : two = 2
    BY <1>1
  <2> QED BY <1>1, <2>5, <2>6, StoreSwap
<1>6. CASE b \notin Real
  <2>1. b = 0 \/ b >= NBLOCK
    BY <1>6, Sizes DEF Real, Bno
  <2>2. u = s1 /\ s2 = s
    BY <2>1 DEF free_block
  <2> QED BY <1>2, <2>2
<1> QED BY <1>5, <1>6

(* A block of a file is freed and its number cleared. *)
LEMMA FileDrop ==
    ASSUME NEW Z, TreeOk(Z), NEW O, NEW F, NEW s, Good(s, Z, O, F),
           NEW f \in Locs(Z), f \notin Z.dirs, s.cache[f[1]] # Unmapped,
           NEW i0 \in SafePlaces, NEW b, b = Ptr(FileIn(Mem(s), f), i0),
           NEW x \in FileRec, x.dir = FileIn(Mem(s), f).dir, x.type = FileIn(Mem(s), f).type,
           Ptr(x, i0) = 0, \A i \in SafePlaces : i # i0 => Ptr(x, i) = Ptr(FileIn(Mem(s), f), i),
           NEW E, F \subseteq E, f \in E,
           NEW t, t = SetFile(free_block(s, b), f, x)
    PROVE  Good(t, Z, O, E) /\ Frame(s, t, Z)
<1> DEFINE u == SetFile(s, f, x)
           e == free_block(u, b)
           y0 == <<1, f, i0>>
<1>1. /\ MemOk(Mem(s), Z) /\ Shape(Mem(s), Z) /\ Sole(Mem(s), Places(Z)) /\ Guarded(Mem(s), Z)
      /\ s.cache \in [Bno -> Blk \cup {Unmapped}]
  BY MemFacts DEF MemOk, DiskOk
<1>2. y0 \in Places(Z) /\ At(Mem(s), y0) = b /\ b \in Nat
  BY <1>1, AtPtr, AtNat, PlaceMade
<1>3. /\ File(s, f) = FileIn(Mem(s), f)
      /\ \A z \in FileRec : z.dir = File(s, f).dir => (f = Root => z \in RootRec)
  BY RootKeeps
<1>4. Good(u, Z, O, E) /\ Frame(s, u, Z)
  <2>1. PICK a \in Int : a \notin Z.p /\ \A y \in Places(Z) : At(Mem(s), y) # a
    BY <1>1, NoBlock
  <2>2. \A i \in SafePlaces :
              \/ Ptr(x, i) = Ptr(FileIn(Mem(s), f), i)
              \/ Ptr(x, i) = 0 /\ f \in E /\ f \notin Z.dirs
    OBVIOUS
  <2>3. f = Root => x \in RootRec
    BY <1>3
  <2> QED BY <2>1, <2>2, <2>3, SetFileGood
<1>5. /\ u = StoreBlock(s, f[1], FileBlk(Mem(s), f, x)) /\ FileBlk(Mem(s), f, x) \in Blk
      /\ FileIn(Mem(u), f) = x
      /\ \A y \in WordPlaces : At(Mem(u), y) = At(Mem(s), y)
      /\ \A y \in FilePlaces(Z) : y[2] # f => At(Mem(u), y) = At(Mem(s), y)
  BY <1>3, SetFileIs
<1> HIDE DEF u
<1>6. b \in Real => b > 2 /\ b \notin Z.p /\ \A y \in Places(Z) : At(Mem(u), y) # b
  <2> SUFFICES ASSUME b \in Real PROVE b > 2 /\ b \notin Z.p /\ \A y \in Places(Z) : At(Mem(u), y) # b
    OBVIOUS
  <2>1. b > 2 /\ \A y \in Places(Z) : At(Mem(s), y) = b => y = y0
    BY <1>1, <1>2 DEF Sole
  <2>2. b \notin Z.p
    <3>1. ~Holder(y0, Z)
      BY DEF Holder
    <3> HIDE DEF y0
    <3> QED BY <1>1, <1>2, <3>1 DEF Guarded
  <2>3. ASSUME NEW y \in Places(Z), At(Mem(u), y) = b PROVE FALSE
    <3>1. CASE y \in WordPlaces
      <4>1. y = y0
        BY <1>5, <2>1, <2>3, <3>1
      <4> QED BY <3>1, <4>1 DEF WordPlaces
    <3>2. CASE y \in FilePlaces(Z) /\ y[2] # f
      BY <1>5, <2>1, <2>3, <3>2
    <3>3. CASE y \in FilePlaces(Z) /\ y[2] = f
      <4>1. y[3] \in SafePlaces /\ y = <<1, f, y[3]>>
        BY <3>3 DEF FilePlaces
      <4>2. At(Mem(u), y) = Ptr(x, y[3]) /\ At(Mem(s), y) = Ptr(FileIn(Mem(s), f), y[3])
        BY <1>5, <4>1, AtPtr
      <4>3. y[3] # i0
        BY <2>3, <4>2 DEF Real
      <4>4. y = y0
        BY <2>1, <2>3, <4>1, <4>2, <4>3
      <4> QED BY <4>1, <4>3, <4>4
    <3> QED BY <3>1, <3>2, <3>3 DEF Places
  <2> QED BY <2>1, <2>2, <2>3
<1>7. Good(e, Z, O, E) /\ Frame(u, e, Z)
  BY <1>2, <1>4, <1>6, FreeGood
<1>8. t \in St /\ t.cache = e.cache /\ t.dirty = e.dirty /\ t.wq = e.wq /\ t.panic = e.panic
  <2>0. f[1] \in Bno /\ f[1] # 2
    BY TreeFacts
  <2>1. t = StoreBlock(free_block(s, b), f[1], FileBlk(Mem(s), f, x))
    <3>1. free_block(s, b).cache[f[1]] = s.cache[f[1]]
      <4>1. b \in Nat
        BY <1>2
      <4> QED BY <2>0, <4>1, FreeCache
    <3>2. s.cache[f[1]] = Mem(s)[f[1]]
      BY <2>0, MemFacts
    <3> QED BY <3>1, <3>2 DEF SetFile, FileBlk
  <2>2. e = free_block(StoreBlock(s, f[1], FileBlk(Mem(s), f, x)), b)
    BY <1>5
  <2> HIDE DEF e
  <2> QED BY <1>2, <1>5, <2>0, <2>1, <2>2, FreeSwap
<1> HIDE DEF e
<1>9. Good(t, Z, O, E) /\ Mem(t) = Mem(e)
  BY <1>7, <1>8, SameGood
<1>10. Frame(e, t, Z)
  BY <1>8, <1>9 DEF Frame
<1> QED BY <1>4, <1>7, <1>9, <1>10, FrameTrans

(* A word of an indirect block is set. *)
LEMMA WordGood ==
    ASSUME NEW Z, TreeOk(Z), NEW O, NEW F, NEW s, Good(s, Z, O, F),
           NEW q \in Bno, q > 2, q \notin Z.d, s.cache[q] # Unmapped, NEW i \in Word, NEW v \in Nat,
           v = 0 \/ Fresh(Mem(s), v, Z), At(Mem(s), <<2, q, i>>) \notin Z.p,
           NEW c, c = WordsOf([Words(s.cache[q]) EXCEPT ![i] = v]),
           NEW t, t = StoreBlock(s, q, c)
    PROVE  /\ Good(t, Z, O, F) /\ Frame(s, t, Z) /\ c \in Blk
           /\ At(Mem(t), <<2, q, i>>) = v
           /\ \A y \in Places(Z) : y # <<2, q, i>> =>
                 At(Mem(t), y) = At(Mem(s), y) \/ At(Mem(t), y) = NBLOCK
<1> DEFINE m == Mem(s)
           n == Mem(t)
           y0 == <<2, q, i>>
<1>1. /\ MemOk(m, Z) /\ Shape(m, Z) /\ Types(m, Z) /\ m[1] # Smashed /\ m[2].free = Free(s)
      /\ Sole(m, Places(Z)) /\ Guarded(m, Z) /\ m[q] = s.cache[q]
  BY MemFacts DEF MemOk, DiskOk
<1>2. \A p : p = Put(m, q, c) =>
           /\ c \in OtherBlk /\ c \in Blk
           /\ At(p, <<2, q, i>>) = v
           /\ \A y \in WordPlaces : y # <<2, q, i>> =>
                 At(p, y) = At(m, y) \/ (At(p, y) = NBLOCK /\ At(m, y) = 0)
           /\ Shape(p, Z) /\ Types(p, Z) /\ p[1] = m[1] /\ p[2] = m[2] /\ p[q] = c
           /\ \A g \in Locs(Z) : FileIn(p, g) = FileIn(m, g)
           /\ \A y \in FilePlaces(Z) : At(p, y) = At(m, y)
  <2>1. c = WordsOf([Words(m[q]) EXCEPT ![i] = v])
    BY <1>1
  <2> HIDE DEF m
  <2> QED BY <1>1, <2>1, WordPut
<1>3. c \in Blk
  BY <1>2
<1>4. n = Put(m, q, c)
  BY <1>3, StoreMem
<1>5. /\ At(n, y0) = v
      /\ \A y \in WordPlaces : y # y0 =>
             At(n, y) = At(m, y) \/ (At(n, y) = NBLOCK /\ At(m, y) = 0)
      /\ Shape(n, Z) /\ Types(n, Z) /\ n[1] = m[1] /\ n[2] = m[2]
      /\ \A g \in Locs(Z) : FileIn(n, g) = FileIn(m, g)
      /\ \A y \in FilePlaces(Z) : At(n, y) = At(m, y)
  BY <1>2, <1>4
<1>6. 0 \notin Real /\ NBLOCK \notin Real /\ 0 \notin Z.p
  BY TreeFacts, Sizes DEF Real, Bno
<1>7. y0 \in Places(Z)
  BY PlaceMade
<1>8. /\ t.dirty = s.dirty \cup {q} /\ t.panic = s.panic /\ t.cache = [s.cache EXCEPT ![q] = c]
      /\ s.cache \in [Bno -> Blk \cup {Unmapped}]
  <2>1. s \in St /\ s.cache \in [Bno -> Blk \cup {Unmapped}]
    BY MemFacts
  <2> QED BY <1>3, <2>1, StoreIs
<1> HIDE DEF m, n, y0
<1>9. MemOk(n, Z)
  <2>1. PICK b \in Int : /\ b \notin Z.p /\ \A y \in Places(Z) : At(m, y) # b
                         /\ v \in Real => v = b /\ b > 2 /\ b \notin n[2].free
    <3>1. CASE v = 0
      BY <1>1, <1>6, <3>1, NoBlock
    <3>2. CASE Fresh(m, v, Z)
      BY <1>5, <3>2 DEF Fresh
    <3> QED BY <3>1, <3>2 DEF m
  <2>2. \A y \in Places(Z) : \/ At(n, y) = At(m, y) /\ (At(n, y) \in Real => At(n, y) \notin n[2].free)
                             \/ At(n, y) \notin Real
                             \/ y = y0 /\ At(n, y) = b /\ b > 2 /\ b \notin n[2].free
    BY <1>1, <1>5, <1>6, <2>1 DEF Sole, Places
  <2>3. n[1] # Smashed
    BY <1>1, <1>5
  <2> QED BY <1>1, <1>5, <1>7, <2>1, <2>2, <2>3, MemKept
<1>10. Frame(s, t, Z)
  <2>1. \A a \in Bno : s.cache[a] # Unmapped => t.cache[a] # Unmapped
    BY <1>3, <1>8, Kinds
  <2>2. \A y \in Places(Z) : At(m, y) \in Z.p => At(n, y) = At(m, y)
    BY <1>5, <1>6 DEF Places, m, y0
  <2>3. \A g \in Z.dirs : FileIn(n, g).size = FileIn(m, g).size
    BY <1>5, TreeFacts
  <2> QED BY <1>8, <2>1, <2>2, <2>3 DEF Frame, m, n
<1>11. \A g \in O : OpenOk(n, t.dirty, g, Z)
  <2> SUFFICES ASSUME NEW g \in O PROVE OpenOk(n, t.dirty, g, Z)
    OBVIOUS
  <2>1. g \in Locs(Z) => FileIn(n, g).dir = FileIn(m, g).dir
    BY <1>5
  <2> QED BY <1>10, <2>1, FrameOpen DEF m, n
<1>12. s.panic = NoPanic => Rel(V(s), n, F, Z)
  <2>1. s.panic = NoPanic => Rel(V(s), m, F, Z)
    BY DEF Good, Core, m
  <2> QED BY <1>5, <2>1 DEF Rel
<1>13. Good(t, Z, O, F)
  <2>1. q # 2
    OBVIOUS
  <2> QED BY <1>3, <1>9, <1>11, <1>12, <2>1, StoreGood DEF n
<1>14. \A y \in Places(Z) : y # y0 => At(n, y) = At(m, y) \/ At(n, y) = NBLOCK
  BY <1>5 DEF Places
<1> QED BY <1>3, <1>5, <1>10, <1>13, <1>14 DEF m, n, y0

(* The number of a data block is freed and then dropped from the indirect  *)
(* block: as if it was dropped first.                                      *)
LEMMA WordDrop ==
    ASSUME NEW Z, TreeOk(Z), NEW O, NEW F, NEW s, Good(s, Z, O, F),
           NEW q \in Bno, q > 2, q \notin Z.p, s.cache[q] # Unmapped, NEW i \in Word,
           NEW b, b = Words(s.cache[q])[i],
           NEW c, c = WordsOf([Words(s.cache[q]) EXCEPT ![i] = 0]),
           NEW t, t = StoreBlock(free_block(s, b), q, c)
    PROVE  Good(t, Z, O, F) /\ Frame(s, t, Z)
<1> DEFINE u == StoreBlock(s, q, c)
           e == free_block(u, b)
           y0 == <<2, q, i>>
<1>1. /\ MemOk(Mem(s), Z) /\ Shape(Mem(s), Z) /\ Sole(Mem(s), Places(Z)) /\ Guarded(Mem(s), Z)
      /\ Mem(s)[q] = s.cache[q]
  BY MemFacts DEF MemOk, DiskOk
<1>2. y0 \in Places(Z) /\ b \in Nat /\ (b = At(Mem(s), y0) \/ b = NBLOCK)
  BY <1>1, WordsAt, PlaceMade
<1>3. NBLOCK \notin Real /\ 0 \notin Real /\ 0 \in Nat
  BY Sizes DEF Real, Bno
<1>4. ~Holder(y0, Z) /\ q \notin Z.d
  BY TreeFacts DEF Holder
<1>5. At(Mem(s), y0) \notin Z.p
  <2> HIDE DEF y0
  <2> QED BY <1>1, <1>2, <1>4 DEF Guarded
<1>6. /\ Good(u, Z, O, F) /\ Frame(s, u, Z) /\ c \in Blk
      /\ At(Mem(u), y0) = 0
      /\ \A y \in Places(Z) : y # y0 => At(Mem(u), y) = At(Mem(s), y) \/ At(Mem(u), y) = NBLOCK
  <2>1. PICK v \in Nat : v = 0
    BY <1>3
  <2>2. /\ Good(u, Z, O, F) /\ Frame(s, u, Z) /\ c \in Blk
        /\ At(Mem(u), <<2, q, i>>) = v
        /\ \A y \in Places(Z) : y # <<2, q, i>> => At(Mem(u), y) = At(Mem(s), y) \/ At(Mem(u), y) = NBLOCK
    BY <1>4, <1>5, <2>1, WordGood
  <2> QED BY <2>1, <2>2
<1>7. b \in Real => b > 2 /\ b \notin Z.p /\ \A y \in Places(Z) : At(Mem(u), y) # b
  <2> HIDE DEF y0, u
  <2> SUFFICES ASSUME b \in Real PROVE b > 2 /\ b \notin Z.p /\ \A y \in Places(Z) : At(Mem(u), y) # b
    OBVIOUS
  <2>1. b = At(Mem(s), y0)
    BY <1>2, <1>3
  <2>2. b > 2 /\ \A y \in Places(Z) : At(Mem(s), y) = b => y = y0
    BY <1>1, <1>2, <2>1 DEF Sole
  <2> QED BY <1>3, <1>5, <1>6, <2>1, <2>2
<1>8. Good(e, Z, O, F) /\ Frame(u, e, Z)
  <2> HIDE DEF u
  <2> QED BY <1>2, <1>6, <1>7, FreeGood
<1>9. t \in St /\ t.cache = e.cache /\ t.dirty = e.dirty /\ t.wq = e.wq /\ t.panic = e.panic
  <2>1. e = free_block(StoreBlock(s, q, c), b)
    OBVIOUS
  <2>2. q # 2 /\ c \in Blk
    BY <1>6
  <2> HIDE DEF e, u
  <2> QED BY <1>2, <2>1, <2>2, FreeSwap
<1> HIDE DEF e, u
<1>10. Good(t, Z, O, F) /\ Mem(t) = Mem(e)
  BY <1>8, <1>9, SameGood
<1>11. Frame(e, t, Z)
  BY <1>9, <1>10 DEF Frame
<1> QED BY <1>6, <1>8, <1>10, <1>11, FrameTrans

(* From s a call that only reads, and one that may change memory, gets to t. *)
Reads(s, t, Z, O, F) == Good(t, Z, O, F) /\ Calm(s, t) /\ (s.panic # NoPanic => t.panic # NoPanic)
(* A call works: it keeps the invariant and the frame.                     *)
Works(s, t, Z, O, F) == Good(t, Z, O, F) /\ Frame(s, t, Z)

(* Reading is working.                                                     *)
LEMMA ReadsWorks ==
    ASSUME NEW Z, NEW O, NEW F, NEW s, NEW t, Reads(s, t, Z, O, F)
    PROVE  Works(s, t, Z, O, F)
  BY FrameCalm DEF Reads, Works

(* Two calls that read are one.                                            *)
LEMMA ReadsTrans ==
    ASSUME NEW Z, NEW O, NEW F, NEW s, NEW t, NEW u, Reads(s, t, Z, O, F), Reads(t, u, Z, O, F)
    PROVE  Reads(s, u, Z, O, F)
  BY CalmTrans DEF Reads

(* Two calls that work are one.                                            *)
LEMMA WorksTrans ==
    ASSUME NEW Z, NEW O, NEW P, NEW F, NEW E, NEW s, NEW t, NEW u, Works(s, t, Z, O, F), Works(t, u, Z, P, E)
    PROVE  Works(s, u, Z, P, E)
  BY FrameTrans DEF Works

(* A call that changes no field reads.                                     *)
LEMMA SameReads ==
    ASSUME NEW Z, NEW O, NEW F, NEW s, Good(s, Z, O, F), NEW t, Good(t, Z, O, F), Mem(t) = Mem(s), V(t) = V(s),
           t.cache = s.cache, t.dirty = s.dirty, t.wq = s.wq, t.panic = s.panic
    PROVE  Reads(s, t, Z, O, F)
  BY CalmSame DEF Reads

(* Ret reads.                                                              *)
LEMMA RetReads ==
    ASSUME NEW Z, NEW O, NEW F, NEW s, Good(s, Z, O, F), NEW r \in Int, NEW t, t = Ret(s, r)
    PROVE  /\ Reads(s, t, Z, O, F) /\ t.r = r /\ t.out = s.out /\ t.panic = s.panic /\ Mem(t) = Mem(s)
           /\ t.cache = s.cache
  BY RetGood, SameReads

(* RetOut reads.                                                           *)
LEMMA RetOutReads ==
    ASSUME NEW Z, NEW O, NEW F, NEW s, Good(s, Z, O, F), NEW o \in Out, NEW t, t = RetOut(s, o)
    PROVE  /\ Reads(s, t, Z, O, F) /\ t.r = 0 /\ t.out = o /\ t.panic = s.panic /\ Mem(t) = Mem(s)
           /\ t.cache = s.cache
  BY RetOutGood, SameReads

(* read_block of a block that is not free reads.                           *)
LEMMA ReadsRead ==
    ASSUME NEW Z, TreeOk(Z), NEW O, NEW F, NEW s, Good(s, Z, O, F), NEW b \in Nat, b \notin Free(s),
           NEW t, t = read_block(s, b)
    PROVE  /\ Reads(s, t, Z, O, F)
           /\ \/ t.r < 0 /\ t.panic # NoPanic
              \/ t.r = 0 /\ t.out = b /\ b \in Bno /\ t.cache[b] # Unmapped
<1>1. /\ Good(t, Z, O, F) /\ Calm(s, t)
      /\ \/ t.r = PANIC /\ t.panic # NoPanic /\ t.out = s.out
         \/ t.r = 0 /\ t.out = b /\ b \in Bno /\ t.cache[b] # Unmapped /\ t.panic = s.panic
  BY ReadGood
<1>2. PANIC < 0
  BY Codes
<1> QED BY <1>1, <1>2 DEF Reads

(* A number in a place is one of a block in use, or of none. *)
LEMMA HeldFacts ==
    ASSUME NEW Z, TreeOk(Z), NEW O, NEW F, NEW s, Good(s, Z, O, F), NEW y \in Places(Z),
           NEW b, b = At(Mem(s), y)
    PROVE  /\ b \in Nat
           /\ b # 0 => b \notin Free(s)
           /\ b # 0 /\ b \in Bno => b > 2 /\ b \in Real
<1>1. Sole(Mem(s), Places(Z)) /\ Shape(Mem(s), Z) /\ Free(s) = Mem(s)[2].free /\ \A a \in Free(s) : a \in Real
  BY MemFacts DEF MemOk
<1>2. b \in Nat
  BY <1>1, AtNat
<1>3. b \in Real => b > 2 /\ b \notin Free(s)
  BY <1>1 DEF Sole
<1> QED BY <1>1, <1>2, <1>3 DEF Real

(* Place i of f, as file_block_walk finds it. *)
PlaceIn(t, f, i, p) ==
    \/ i \in Direct /\ p = DirectAt(f, i)
    \/ /\ i \in Word /\ i \notin Direct
       /\ \E q \in Real : /\ q > 2 /\ p = WordAt(q, i) /\ q = FileIn(Mem(t), f).indirect
                          /\ t.cache[q] # Unmapped

(* A place can be returned.                                                *)
LEMMA PlaceOut ==
    /\ \A f \in Loc, i \in Direct : DirectAt(f, i) \in Out
    /\ \A q \in Bno, i \in Word : WordAt(q, i) \in Out
  BY DEF DirectAt, WordAt, Out

(* Follow the indirect block of f. *)
LEMMA InGood ==
    ASSUME NEW Z, TreeOk(Z), NEW O, NEW F, NEW s, Good(s, Z, O, F),
           NEW f \in Locs(Z), s.cache[f[1]] # Unmapped, NEW i \in Word, i \notin Direct,
           NEW q, q = File(s, f).indirect, q # 0,
           NEW u, u = read_block(s, q), NEW t, t = IF u.r < 0 THEN u ELSE RetOut(u, WordAt(q, i))
    PROVE  /\ Reads(s, t, Z, O, F)
           /\ \/ t.r < 0 /\ t.panic # NoPanic
              \/ t.r = 0 /\ PlaceIn(t, f, i, t.out)
<1>1. File(s, f) = FileIn(Mem(s), f) /\ q \in Nat
  BY RootKeeps
<1> DEFINE y == <<1, f, NINDIRECT>>
<1>2. y \in Places(Z)
  BY PlaceMade
<1>3. q = At(Mem(s), y)
  BY <1>1, AtPtr, PlaceMade DEF Ptr
<1> HIDE DEF y
<1>4. q \notin Free(s) /\ (q \in Bno => q > 2 /\ q \in Real)
  BY <1>2, <1>3, HeldFacts
<1>5. /\ Reads(s, u, Z, O, F)
      /\ \/ u.r < 0 /\ u.panic # NoPanic
         \/ u.r = 0 /\ u.out = q /\ q \in Bno /\ u.cache[q] # Unmapped
  BY <1>1, <1>4, ReadsRead
<1>6. CASE u.r < 0
  BY <1>5, <1>6
<1>7. CASE ~(u.r < 0)
  <2>1. t = RetOut(u, WordAt(q, i)) /\ q \in Bno /\ u.cache[q] # Unmapped /\ Good(u, Z, O, F) /\ WordAt(q, i) \in Out
    BY <1>5, <1>7, PlaceOut DEF Reads
  <2>2. /\ Reads(u, t, Z, O, F) /\ t.r = 0 /\ t.out = WordAt(q, i) /\ Mem(t) = Mem(u) /\ t.cache = u.cache
    BY <2>1, RetOutReads
  <2>3. Reads(s, t, Z, O, F)
    BY <1>5, <2>2, ReadsTrans
  <2>4. q = FileIn(Mem(t), f).indirect
    BY <1>1, <2>3, SMTT(30) DEF Reads, Calm
  <2>5. PlaceIn(t, f, i, t.out)
    BY <1>4, <2>1, <2>2, <2>4 DEF PlaceIn
  <2> QED BY <2>2, <2>3, <2>5
<1> QED BY <1>6, <1>7

(* What file_block_walk comes back with. *)
Walked(s, t, f, i) ==
    \/ t.r = 0 /\ PlaceIn(t, f, i, t.out)
    \/ t.r < 0 /\ t.panic # NoPanic
    \/ t.r < 0 /\ i \notin Word
    \/ t.r < 0 /\ i \notin Direct /\ FileIn(Mem(s), f).indirect = 0

(* file_block_walk without allocation reads and finds the place of block   *)
(* i.                                                                      *)
LEMMA WalkFalse ==
    ASSUME NEW Z, TreeOk(Z), NEW O, NEW F, NEW s, Good(s, Z, O, F),
           NEW f \in Locs(Z), s.cache[f[1]] # Unmapped, NEW i \in Nat
    PROVE  /\ Reads(s, file_block_walk(s, f, i, FALSE), Z, O, F)
           /\ Walked(s, file_block_walk(s, f, i, FALSE), f, i)
<1> DEFINE t == file_block_walk(s, f, i, FALSE)
<1> SUFFICES Reads(s, t, Z, O, F) /\ Walked(s, t, f, i)
  OBVIOUS
<1> HIDE DEF t
<1>0. f \in Loc /\ File(s, f) = FileIn(Mem(s), f)
  BY TreeFacts, RootKeeps
<1>1. CASE i < NDIRECT
  <2>1. t = RetOut(s, DirectAt(f, i))
    BY <1>1 DEF file_block_walk, t
  <2>2. i \in Direct /\ DirectAt(f, i) \in Out
    BY <1>0, <1>1, PlaceOut, Sizes DEF Direct
  <2>3. Reads(s, t, Z, O, F) /\ t.r = 0 /\ t.out = DirectAt(f, i)
    BY <2>1, <2>2, RetOutReads
  <2> QED BY <2>2, <2>3 DEF PlaceIn, Walked
<1>2. CASE ~(i < NDIRECT) /\ i >= NINDIRECT
  <2>1. t = Ret(s, E_INVAL)
    BY <1>2 DEF file_block_walk, t
  <2>2. i \notin Word /\ E_INVAL \in Int /\ E_INVAL < 0
    BY <1>2, Codes, Sizes DEF Word
  <2>3. Reads(s, t, Z, O, F) /\ t.r = E_INVAL
    BY <2>1, <2>2, RetReads
  <2> QED BY <2>2, <2>3 DEF Walked
<1>3. CASE ~(i < NDIRECT) /\ ~(i >= NINDIRECT) /\ File(s, f).indirect # 0
  <2> DEFINE q == File(s, f).indirect
             u == read_block(s, q)
  <2>1. t = IF u.r < 0 THEN u ELSE RetOut(u, WordAt(q, i))
    BY <1>3 DEF file_block_walk, Try, t
  <2>2. i \in Word /\ i \notin Direct /\ q # 0
    BY <1>3, Sizes DEF Word, Direct
  <2>3. u = read_block(s, q) /\ q = File(s, f).indirect
    OBVIOUS
  <2> HIDE DEF u, q
  <2> QED BY <2>1, <2>2, <2>3, InGood DEF Walked
<1>4. CASE ~(i < NDIRECT) /\ ~(i >= NINDIRECT) /\ File(s, f).indirect = 0
  <2>1. t = Ret(s, E_NOT_FOUND)
    BY <1>4 DEF file_block_walk, t
  <2>2. i \notin Direct /\ E_NOT_FOUND \in Int /\ E_NOT_FOUND < 0
    BY <1>4, Codes, Sizes DEF Direct
  <2>3. Reads(s, t, Z, O, F) /\ t.r = E_NOT_FOUND
    BY <2>1, <2>2, RetReads
  <2> QED BY <1>0, <1>4, <2>2, <2>3 DEF Walked
<1> QED BY <1>1, <1>2, <1>3, <1>4, Sizes

(* What alloc_block comes back with. *)
Alloced(s, t, Z) ==
    \/ t.r < 0
    \/ /\ t.r \in Nat /\ t.r \in Bno /\ Fresh(Mem(t), t.r, Z) /\ t.cache[t.r] # Unmapped
       /\ ~(t.r < 0)
       /\ \A g \in Locs(Z) : FileIn(Mem(t), g) = FileIn(Mem(s), g)

(* alloc_block works.                                                      *)
LEMMA AllocWorks ==
    ASSUME NEW Z, TreeOk(Z), NEW O, NEW s, Good(s, Z, O, {})
    PROVE  /\ Works(s, alloc_block(s), Z, O, {}) /\ Alloced(s, alloc_block(s), Z)
           /\ \A a \in Bno : a # 2 /\ s.cache[a] # Unmapped => alloc_block(s).cache[a] = s.cache[a]
<1> DEFINE t == alloc_block(s)
<1>1. /\ Good(t, Z, O, {}) /\ t.panic = s.panic /\ t.out = s.out /\ s.dirty \subseteq t.dirty
      /\ \A a \in Bno : a # 2 /\ s.cache[a] # Unmapped => t.cache[a] = s.cache[a]
      /\ t.r \in Int
      /\ \/ t.r < 0 /\ Mem(t) = Mem(s)
         \/ t.r \in Free(s) /\ t.cache[t.r] # Unmapped /\ Mem(t) = Taken(Mem(s), t.r)
  BY AllocGood
<1> HIDE DEF t
<1>2. MemOk(Mem(s), Z) /\ Mem(s)[2].free = Free(s) /\ Free(s) \subseteq Bno
  BY MemFacts
<1>3. t.cache[2] # Unmapped
  BY <1>1, MemFacts
<1>4. CASE t.r < 0 /\ Mem(t) = Mem(s)
  <2>1. Frame(s, t, Z)
    BY <1>1, <1>3, <1>4 DEF Frame
  <2> QED BY <1>1, <1>4, <2>1 DEF t, Works, Alloced
<1>5. CASE t.r \in Free(s) /\ t.cache[t.r] # Unmapped /\ Mem(t) = Taken(Mem(s), t.r)
  <2>1. /\ Fresh(Mem(t), t.r, Z)
        /\ \A g \in Locs(Z) : FileIn(Mem(t), g) = FileIn(Mem(s), g)
        /\ \A y \in Places(Z) : At(Mem(t), y) = At(Mem(s), y)
    <3> DEFINE m == Mem(s)
               n == Mem(t)
               b == t.r
    <3>1. b \in m[2].free
      BY <1>2, <1>5
    <3>2. MemOk(m, Z)
      BY <1>2
    <3>3. n = Taken(m, b)
      BY <1>5
    <3> HIDE DEF m, n, b
    <3>4. /\ MemOk(n, Z) /\ n[2] = BitmapOf(m[2].free \ {b}) /\ Fresh(n, b, Z)
          /\ \A g \in Locs(Z) : FileIn(n, g) = FileIn(m, g)
          /\ \A y \in Places(Z) : At(n, y) = At(m, y)
      BY ONLY TreeOk(Z), <3>1, <3>2, <3>3, TakenOk, SMTT(60)
    <3> QED BY <3>4 DEF m, n, b
  <2>2. Frame(s, t, Z)
    <3>1. \A g \in Z.dirs : FileIn(Mem(t), g).size = FileIn(Mem(s), g).size
      BY <2>1, TreeFacts
    <3> QED BY <1>1, <1>3, <2>1, <3>1 DEF Frame
  <2>3. t.r \in Bno /\ t.r \in Nat /\ ~(t.r < 0)
    BY <1>2, <1>5, Sizes DEF Bno
  <2> QED BY <1>1, <1>5, <2>1, <2>2, <2>3 DEF t, Works, Alloced
<1> QED BY <1>1, <1>4, <1>5

(* A fresh block becomes the indirect block of a file that has none.       *)
LEMMA SetIndirectFresh ==
    ASSUME NEW Z, TreeOk(Z), NEW O, NEW s, Good(s, Z, O, {}),
           NEW f \in Locs(Z), s.cache[f[1]] # Unmapped,
           NEW b \in Nat, Fresh(Mem(s), b, Z), File(s, f).indirect = 0
    PROVE  /\ Works(s, SetIndirect(s, f, b), Z, O, {})
           /\ File(SetIndirect(s, f, b), f).indirect = b
           /\ SetIndirect(s, f, b).cache[f[1]] # Unmapped
<1> DEFINE t == SetIndirect(s, f, b)
           x == [File(s, f) EXCEPT !.indirect = b]
<1>1. File(s, f) = FileIn(Mem(s), f) /\ File(s, f) \in FileRec
      /\ \A z \in FileRec : z.dir = File(s, f).dir => (f = Root => z \in RootRec)
  BY RootKeeps
<1>2. /\ x \in FileRec /\ x.dir = FileIn(Mem(s), f).dir /\ x.type = FileIn(Mem(s), f).type
      /\ x.size = FileIn(Mem(s), f).size /\ x.direct = FileIn(Mem(s), f).direct /\ x.indirect = b
  BY <1>1, RecFacts
<1>3. t = SetFile(s, f, x)
  BY DEF SetIndirect
<1> HIDE DEF x, t
<1>4. NINDIRECT \in SafePlaces /\ Ptr(x, NINDIRECT) = b /\ Ptr(FileIn(Mem(s), f), NINDIRECT) = 0
      /\ \A i \in SafePlaces : i # NINDIRECT => Ptr(x, i) = Ptr(FileIn(Mem(s), f), i)
  BY <1>1, <1>2, PlaceMade DEF Ptr
<1>5. Good(t, Z, O, {}) /\ Frame(s, t, Z)
  BY <1>2, <1>3, <1>4, FileFresh
<1>6. FileIn(Mem(t), f) = x /\ t.cache[f[1]] # Unmapped
  BY <1>1, <1>2, <1>3, SetFileIs
<1>7. File(t, f) = x
  BY <1>5, <1>6, MemFacts
<1> QED BY <1>2, <1>5, <1>6, <1>7 DEF Works, t

(* The walk failed or found the place of block i.                          *)
WalkedTo(t, f, i) == t.r < 0 \/ (t.r = 0 /\ PlaceIn(t, f, i, t.out))

(* file_block_walk with allocation works and finds the place of block i.   *)
LEMMA WalkTrue ==
    ASSUME NEW Z, TreeOk(Z), NEW O, NEW s, Good(s, Z, O, {}),
           NEW f \in Locs(Z), s.cache[f[1]] # Unmapped, NEW i \in Nat
    PROVE  /\ Works(s, file_block_walk(s, f, i, TRUE), Z, O, {})
           /\ WalkedTo(file_block_walk(s, f, i, TRUE), f, i)
<1>1. CASE i < NDIRECT \/ i >= NINDIRECT \/ File(s, f).indirect # 0
  <2> DEFINE t == file_block_walk(s, f, i, FALSE)
  <2>1. file_block_walk(s, f, i, TRUE) = t
    BY <1>1 DEF file_block_walk
  <2>2. Reads(s, t, Z, O, {}) /\ Walked(s, t, f, i)
    BY WalkFalse
  <2> HIDE DEF t
  <2>3. Works(s, t, Z, O, {}) /\ WalkedTo(t, f, i)
    BY <2>2, ReadsWorks DEF Walked, WalkedTo
  <2> QED BY <2>1, <2>3
<1>2. CASE ~(i < NDIRECT) /\ ~(i >= NINDIRECT) /\ File(s, f).indirect = 0
  <2> DEFINE a == alloc_block(s)
             u == SetIndirect(a, f, a.r)
             w == read_block(u, a.r)
             t == file_block_walk(s, f, i, TRUE)
  <2>1. t = IF a.r < 0 THEN a ELSE IF w.r < 0 THEN w ELSE RetOut(w, WordAt(a.r, i))
    BY <1>2 DEF file_block_walk, Try
  <2>2. Works(s, a, Z, O, {}) /\ Alloced(s, a, Z)
    BY AllocWorks
  <2> HIDE DEF t, a
  <2>3. CASE a.r < 0
    <3>1. t = a
      BY <2>1, <2>3
    <3>2. WalkedTo(a, f, i)
      BY <2>3 DEF WalkedTo
    <3> QED BY <2>2, <3>1, <3>2 DEF t
  <2>4. CASE ~(a.r < 0)
    <3>1. /\ a.r \in Nat /\ Fresh(Mem(a), a.r, Z) /\ Good(a, Z, O, {}) /\ a.cache[f[1]] # Unmapped
          /\ FileIn(Mem(a), f) = FileIn(Mem(s), f) /\ f[1] \in Bno
      BY <2>2, <2>4, TreeFacts DEF Works, Alloced, Frame
    <3>2. File(a, f).indirect = 0
      <4>1. File(a, f) = FileIn(Mem(a), f) /\ File(s, f) = FileIn(Mem(s), f)
        BY <3>1, RootKeeps
      <4> QED BY <1>2, <3>1, <4>1
    <3>3. /\ Works(a, u, Z, O, {}) /\ File(u, f).indirect = a.r /\ u.cache[f[1]] # Unmapped
      BY <3>1, <3>2, SetIndirectFresh
    <3> HIDE DEF u
    <3>4. i \in Word /\ i \notin Direct /\ a.r # 0
      BY <1>2, <3>1, Sizes DEF Word, Direct, Fresh, Real
    <3>5. Good(u, Z, O, {}) /\ a.r = File(u, f).indirect
      BY <3>3 DEF Works
    <3>6. t = IF w.r < 0 THEN w ELSE RetOut(w, WordAt(a.r, i))
      BY <2>1, <2>4
    <3> DEFINE q == a.r
    <3>61. q = File(u, f).indirect /\ q # 0 /\ t = (IF w.r < 0 THEN w ELSE RetOut(w, WordAt(q, i))) /\ w = read_block(u, q)
      BY <3>4, <3>5, <3>6
    <3> HIDE DEF w, q
    <3>7. /\ Reads(u, t, Z, O, {})
          /\ \/ t.r < 0 /\ t.panic # NoPanic
             \/ t.r = 0 /\ PlaceIn(t, f, i, t.out)
      BY <3>3, <3>4, <3>5, <3>61, InGood
    <3>8. Works(s, t, Z, O, {})
      BY <2>2, <3>3, <3>7, ReadsWorks, WorksTrans
    <3>9. WalkedTo(t, f, i)
      BY <3>7 DEF WalkedTo
    <3> QED BY <3>8, <3>9 DEF t
  <2> QED BY <2>3, <2>4
<1> QED BY <1>1, <1>2

(* The number in the place. *)
LEMMA LoadFacts ==
    ASSUME NEW Z, TreeOk(Z), NEW O, NEW F, NEW t, Good(t, Z, O, F),
           NEW f \in Locs(Z), t.cache[f[1]] # Unmapped, NEW i, NEW p, PlaceIn(t, f, i, p),
           NEW v, v = Load(t, p)
    PROVE  /\ v \in Nat /\ i \in Word
           /\ v # 0 => v \notin Free(t)
           /\ v # 0 /\ v \in Bno => v > 2 /\ v \in Real /\ Leads(Mem(t), f, i, v)
           /\ \A b \in Real : Leads(Mem(t), f, i, b) => v = b
<1>1. /\ File(t, f) = FileIn(Mem(t), f) /\ File(t, f).direct \in [Direct -> Nat]
  BY RootKeeps
<1>2. CASE i \in Direct /\ p = DirectAt(f, i)
  <2> DEFINE y == <<1, f, i>>
  <2>0. i \in SafePlaces /\ i # NINDIRECT /\ i \in Word /\ y \in Places(Z) /\ i < NDIRECT
    BY <1>2, PlaceMade, Sizes DEF Direct
  <2>1. v = FileIn(Mem(t), f).direct[i]
    BY <1>1, <1>2 DEF Load, DirectAt
  <2>2. v = At(Mem(t), y)
    BY <2>0, <2>1, AtPtr DEF Ptr
  <2>3. Leads(Mem(t), f, i, v) /\ \A b \in Real : Leads(Mem(t), f, i, b) => v = b
    BY <2>0, <2>2 DEF Leads
  <2> HIDE DEF y
  <2> QED BY <2>0, <2>2, <2>3, HeldFacts
<1>3. ASSUME i \in Word, i \notin Direct,
             NEW q \in Real, q > 2, p = WordAt(q, i), q = FileIn(Mem(t), f).indirect, t.cache[q] # Unmapped
      PROVE  /\ v \in Nat /\ i \in Word
             /\ v # 0 => v \notin Free(t)
             /\ v # 0 /\ v \in Bno => v > 2 /\ v \in Real /\ Leads(Mem(t), f, i, v)
             /\ \A b \in Real : Leads(Mem(t), f, i, b) => v = b
  <2> DEFINE y == <<2, q, i>>
             z == <<1, f, NINDIRECT>>
  <2>0. q \in Bno /\ y \in Places(Z) /\ ~(i < NDIRECT)
    BY <1>3, PlaceMade, Sizes DEF Real, Direct, Word
  <2>1. v = Words(t.cache[q])[i]
    BY <1>3 DEF Load, WordAt
  <2>2. Mem(t)[q] = t.cache[q] /\ Shape(Mem(t), Z)
    BY <1>3, <2>0, MemFacts
  <2>3. v \in Nat /\ (v = At(Mem(t), y) \/ (v = NBLOCK /\ At(Mem(t), y) = 0))
    BY <1>3, <2>0, <2>1, <2>2, WordsAt
  <2>4. At(Mem(t), z) = q
    BY <1>3, AtPtr, PlaceMade DEF Ptr
  <2>5. \A b : Leads(Mem(t), f, i, b) <=> At(Mem(t), y) = b
    BY <1>3, <2>0, <2>4 DEF Leads
  <2>6. NBLOCK \notin Bno /\ NBLOCK \in Nat /\ 0 \notin Real /\ Free(t) \subseteq Bno
    BY Sizes, MemFacts DEF Bno, Real
  <2> HIDE DEF y, z
  <2>7. CASE v = At(Mem(t), y)
    BY <1>3, <2>0, <2>3, <2>5, <2>7, HeldFacts
  <2>8. CASE v = NBLOCK /\ At(Mem(t), y) = 0
    BY <1>3, <2>3, <2>5, <2>6, <2>8
  <2> QED BY <2>3, <2>7, <2>8
<1> QED BY <1>2, <1>3 DEF PlaceIn

(* What file_map_block comes back with. *)
Mapped(t, Z, f, i) ==
    \/ t.r < 0
    \/ /\ t.r = 0 /\ t.out \in Nat /\ t.out # 0 /\ t.out \notin Free(t)
       /\ t.out \in Bno => t.out > 2
       /\ t.out \in Z.d => i \in Word /\ Leads(Mem(t), f, i, t.out)

(* Numbers and locations can be returned.                                  *)
LEMMA NatOut == Nat \subseteq Out /\ Loc \subseteq Out
  BY DEF Out

(* file_map_block without allocation reads, and finds a block that the     *)
(* directory leads to.                                                     *)
LEMMA MapFalse ==
    ASSUME NEW Z, TreeOk(Z), NEW O, NEW F, NEW s, Good(s, Z, O, F),
           NEW f \in Locs(Z), s.cache[f[1]] # Unmapped, NEW i \in Nat
    PROVE  /\ Reads(s, file_map_block(s, f, i, FALSE), Z, O, F)
           /\ Mapped(file_map_block(s, f, i, FALSE), Z, f, i)
           /\ \A b \in Real : i \in Word /\ Leads(Mem(s), f, i, b) =>
                 \/ file_map_block(s, f, i, FALSE).panic # NoPanic
                 \/ file_map_block(s, f, i, FALSE).r = 0 /\ file_map_block(s, f, i, FALSE).out = b
<1> DEFINE w == file_block_walk(s, f, i, FALSE)
           t == file_map_block(s, f, i, FALSE)
           v == Load(w, w.out)
<1>1. Reads(s, w, Z, O, F) /\ Walked(s, w, f, i)
  BY WalkFalse
<1>2. t = IF w.r < 0 THEN w ELSE IF v # 0 THEN RetOut(w, v) ELSE Ret(w, E_NOT_FOUND)
  BY DEF file_map_block, Try
<1> SUFFICES /\ Reads(s, t, Z, O, F) /\ Mapped(t, Z, f, i)
             /\ \A b \in Real : i \in Word /\ Leads(Mem(s), f, i, b) => t.panic # NoPanic \/ (t.r = 0 /\ t.out = b)
  OBVIOUS
<1> HIDE DEF w, t
<1>3. Mem(w) = Mem(s) /\ Good(w, Z, O, F) /\ w.cache[f[1]] # Unmapped
  BY <1>1, TreeFacts DEF Reads, Calm
<1>4. CASE w.r < 0
  <2>1. t = w
    BY <1>2, <1>4
  <2>2. ASSUME NEW b \in Real, i \in Word, Leads(Mem(s), f, i, b) PROVE w.panic # NoPanic
    <3> SUFFICES ASSUME i \notin Direct, FileIn(Mem(s), f).indirect = 0 PROVE FALSE
      BY <1>1, <1>4, <2>2 DEF Walked
    <3>1. ~(i < NDIRECT)
      BY <2>2, Sizes DEF Word, Direct
    <3>2. At(Mem(s), <<1, f, NINDIRECT>>) \in Real
      BY <2>2, <3>1 DEF Leads
    <3>3. At(Mem(s), <<1, f, NINDIRECT>>) = 0
      BY AtPtr, PlaceMade DEF Ptr
    <3> QED BY <3>2, <3>3 DEF Real
  <2>3. Mapped(w, Z, f, i)
    BY <1>4 DEF Mapped
  <2> QED BY <1>1, <2>1, <2>2, <2>3
<1>5. CASE ~(w.r < 0)
  <2>1. w.r = 0 /\ PlaceIn(w, f, i, w.out)
    BY <1>1, <1>5 DEF Walked
  <2>2. /\ v \in Nat /\ i \in Word
        /\ v # 0 => v \notin Free(w)
        /\ v # 0 /\ v \in Bno => v > 2 /\ v \in Real /\ Leads(Mem(w), f, i, v)
        /\ \A b \in Real : Leads(Mem(w), f, i, b) => v = b
    BY <1>3, <2>1, LoadFacts
  <2> HIDE DEF v
  <2>3. CASE v # 0
    <3>1. t = RetOut(w, v) /\ v \in Out
      BY <1>2, <1>5, <2>2, <2>3, NatOut
    <3>2. Reads(w, t, Z, O, F) /\ t.r = 0 /\ t.out = v /\ Mem(t) = Mem(w) /\ t.cache = w.cache
      BY <1>3, <3>1, RetOutReads
    <3>3. Reads(s, t, Z, O, F)
      BY <1>1, <3>2, ReadsTrans
    <3>4. Free(t) = Free(w)
      BY <3>2 DEF Free
    <3>5. Mapped(t, Z, f, i)
      BY <2>2, <2>3, <3>2, <3>4, TreeFacts DEF Mapped
    <3> QED BY <1>3, <2>2, <3>2, <3>3, <3>5
  <2>4. CASE v = 0
    <3>1. t = Ret(w, E_NOT_FOUND) /\ E_NOT_FOUND \in Int
      BY <1>2, <1>5, <2>4, Codes
    <3>2. Reads(w, t, Z, O, F) /\ t.r = E_NOT_FOUND
      BY <1>3, <3>1, RetReads
    <3>3. Reads(s, t, Z, O, F)
      BY <1>1, <3>2, ReadsTrans
    <3>4. Mapped(t, Z, f, i)
      BY <3>2, Codes DEF Mapped
    <3>5. \A b \in Real : ~Leads(Mem(s), f, i, b)
      BY <1>3, <2>2, <2>4 DEF Real
    <3> QED BY <3>3, <3>4, <3>5
  <2> QED BY <2>3, <2>4
<1> QED BY <1>4, <1>5

(* A block that was just allocated is entered into the place. *)
LEMMA SaveFresh ==
    ASSUME NEW Z, TreeOk(Z), NEW O, NEW s, Good(s, Z, O, {}),
           NEW f \in Locs(Z), s.cache[f[1]] # Unmapped, NEW i, NEW p, PlaceIn(s, f, i, p),
           Load(s, p) = 0, NEW b \in Nat, Fresh(Mem(s), b, Z)
    PROVE  Works(s, Save(s, p, b), Z, O, {}) /\ Save(s, p, b).cache[2] = s.cache[2]
<1>0. /\ File(s, f) = FileIn(Mem(s), f) /\ File(s, f) \in FileRec /\ File(s, f).direct \in [Direct -> Nat]
      /\ f[1] \in Bno /\ f[1] # 2 /\ 2 \in Bno /\ s \in St
  BY RootKeeps, TreeFacts, MemFacts
<1>1. CASE i \in Direct /\ p = DirectAt(f, i)
  <2> DEFINE t == Save(s, p, b)
             x == [File(s, f) EXCEPT !.direct[i] = b]
  <2>1. t = SetFile(s, f, x)
    BY <1>1 DEF Save, DirectAt
  <2>2. /\ x \in FileRec /\ x.dir = FileIn(Mem(s), f).dir /\ x.type = FileIn(Mem(s), f).type
        /\ x.size = FileIn(Mem(s), f).size /\ x.direct = [FileIn(Mem(s), f).direct EXCEPT ![i] = b]
        /\ x.indirect = FileIn(Mem(s), f).indirect
    BY <1>0, <1>1, RecFacts
  <2>3. FileIn(Mem(s), f).direct[i] = 0
    BY <1>0, <1>1 DEF Load, DirectAt
  <2>30. t.cache[2] = s.cache[2]
    BY <1>0, <2>1 DEF SetFile, StoreBlock, St
  <2> HIDE DEF x, t
  <2>4. i \in SafePlaces /\ i # NINDIRECT /\ \A j \in SafePlaces : j # NINDIRECT => j \in Direct
    BY <1>1, PlaceMade DEF SafePlaces, Direct
  <2>5. /\ Ptr(x, i) = b /\ Ptr(FileIn(Mem(s), f), i) = 0
        /\ \A j \in SafePlaces : j # i => Ptr(x, j) = Ptr(FileIn(Mem(s), f), j)
    BY <1>0, <1>1, <2>2, <2>3, <2>4 DEF Ptr
  <2>6. Good(t, Z, O, {}) /\ Frame(s, t, Z)
    BY <2>1, <2>2, <2>4, <2>5, FileFresh
  <2> QED BY <2>6, <2>30 DEF t, Works
<1>2. ASSUME i \in Word, i \notin Direct,
             NEW q \in Real, q > 2, p = WordAt(q, i), q = FileIn(Mem(s), f).indirect, s.cache[q] # Unmapped
      PROVE  Works(s, Save(s, p, b), Z, O, {}) /\ Save(s, p, b).cache[2] = s.cache[2]
  <2> DEFINE t == Save(s, p, b)
             c == WordsOf([Words(s.cache[q]) EXCEPT ![i] = b])
  <2>1. t = StoreBlock(s, q, c)
    BY <1>2 DEF Save, WordAt
  <2>2. Words(s.cache[q])[i] = 0
    BY <1>2 DEF Load, WordAt
  <2>3. q \in Bno /\ Mem(s)[q] = s.cache[q] /\ Shape(Mem(s), Z) /\ q # 2
    BY <1>2, MemFacts DEF Real
  <2>4. /\ Words(s.cache[q])[i] = At(Mem(s), <<2, q, i>>)
             \/ (Words(s.cache[q])[i] = NBLOCK /\ At(Mem(s), <<2, q, i>>) = 0)
        /\ q \in Z.d => Words(s.cache[q])[i] = NBLOCK
    BY <1>2, <2>3, WordsAt
  <2>5. q \notin Z.d /\ At(Mem(s), <<2, q, i>>) = 0 /\ 0 \notin Z.p
    BY <2>2, <2>4, Sizes, TreeFacts
  <2>6. t.cache[2] = s.cache[2]
    BY <1>0, <2>1, <2>3 DEF StoreBlock, St
  <2> HIDE DEF t
  <2>7. c = WordsOf([Words(s.cache[q]) EXCEPT ![i] = b]) /\ At(Mem(s), <<2, q, i>>) \notin Z.p
    BY <2>5
  <2> HIDE DEF c
  <2>8. Good(t, Z, O, {}) /\ Frame(s, t, Z)
    BY <1>2, <2>1, <2>3, <2>5, <2>7, WordGood
  <2> QED BY <2>6, <2>8 DEF t, Works
<1> QED BY <1>1, <1>2 DEF PlaceIn

(* file_map_block with allocation works: the number it returns is not one  *)
(* of a free block.                                                        *)
LEMMA MapTrue ==
    ASSUME NEW Z, TreeOk(Z), NEW O, NEW s, Good(s, Z, O, {}),
           NEW f \in Locs(Z), s.cache[f[1]] # Unmapped, NEW i \in Nat
    PROVE  /\ Works(s, file_map_block(s, f, i, TRUE), Z, O, {})
           /\ Mapped(file_map_block(s, f, i, TRUE), Z, f, i)
<1> DEFINE w == file_block_walk(s, f, i, TRUE)
           t == file_map_block(s, f, i, TRUE)
           p == w.out
           v == Load(w, p)
           a == alloc_block(w)
           u == Save(a, p, a.r)
<1>1. Works(s, w, Z, O, {}) /\ WalkedTo(w, f, i)
  BY WalkTrue
<1>2. t = IF w.r < 0 THEN w ELSE IF v # 0 THEN RetOut(w, v)
          ELSE IF a.r < 0 THEN a ELSE RetOut(u, a.r)
  BY DEF file_map_block, Try
<1> SUFFICES Works(s, t, Z, O, {}) /\ Mapped(t, Z, f, i)
  OBVIOUS
<1> HIDE DEF w, t
<1>3. Good(w, Z, O, {}) /\ w.cache[f[1]] # Unmapped /\ f[1] \in Bno
  BY <1>1, TreeFacts DEF Works, Frame
<1>4. CASE w.r < 0
  <2>1. t = w
    BY <1>2, <1>4
  <2>2. Mapped(w, Z, f, i)
    BY <1>4 DEF Mapped
  <2> QED BY <1>1, <2>1, <2>2
<1>5. CASE ~(w.r < 0)
  <2>1. w.r = 0 /\ PlaceIn(w, f, i, p)
    BY <1>1, <1>5 DEF WalkedTo
  <2>2. /\ v \in Nat /\ i \in Word
        /\ v # 0 => v \notin Free(w)
        /\ v # 0 /\ v \in Bno => v > 2 /\ v \in Real /\ Leads(Mem(w), f, i, v)
    BY <1>3, <2>1, LoadFacts
  <2>3. CASE v # 0
    <3> HIDE DEF v
    <3>1. t = RetOut(w, v) /\ v \in Out
      BY <1>2, <1>5, <2>2, <2>3, NatOut
    <3>2. Reads(w, t, Z, O, {}) /\ t.r = 0 /\ t.out = v /\ Mem(t) = Mem(w) /\ t.cache = w.cache
      BY <1>3, <3>1, RetOutReads
    <3>3. Works(s, t, Z, O, {})
      BY <1>1, <3>2, ReadsWorks, WorksTrans
    <3>4. Free(t) = Free(w)
      BY <3>2 DEF Free
    <3>5. Mapped(t, Z, f, i)
      BY <2>2, <2>3, <3>2, <3>4, TreeFacts DEF Mapped
    <3> QED BY <3>3, <3>5
  <2>4. CASE v = 0
    <3>1. /\ Works(w, a, Z, O, {}) /\ Alloced(w, a, Z)
          /\ \A b \in Bno : b # 2 /\ w.cache[b] # Unmapped => a.cache[b] = w.cache[b]
      BY <1>3, AllocWorks
    <3>2. Works(s, a, Z, O, {})
      BY <1>1, <3>1, WorksTrans
    <3> HIDE DEF a
    <3>3. CASE a.r < 0
      <4>1. t = a
        BY <1>2, <1>5, <2>4, <3>3
      <4>2. Mapped(a, Z, f, i)
        BY <3>3 DEF Mapped
      <4> QED BY <3>2, <4>1, <4>2
    <3>4. CASE ~(a.r < 0)
      <4>1. t = RetOut(u, a.r)
        BY <1>2, <1>5, <2>4, <3>4
      <4>2. /\ a.r \in Nat /\ Fresh(Mem(a), a.r, Z) /\ Good(a, Z, O, {}) /\ a.cache[f[1]] # Unmapped
            /\ FileIn(Mem(a), f) = FileIn(Mem(w), f)
        BY <1>3, <3>1, <3>4 DEF Works, Alloced, Frame
      <4>3. File(a, f) = File(w, f)
        BY <1>3, <4>2, RootKeeps
      <4>4. PlaceIn(a, f, i, p) /\ Load(a, p) = 0
        <5>1. CASE i \in Direct /\ p = DirectAt(f, i)
          BY <2>4, <4>3, <5>1 DEF PlaceIn, Load, DirectAt
        <5>2. ASSUME i \in Word, i \notin Direct,
                     NEW q \in Real, q > 2, p = WordAt(q, i), q = FileIn(Mem(w), f).indirect, w.cache[q] # Unmapped
              PROVE  PlaceIn(a, f, i, p) /\ Load(a, p) = 0
          <6>1. a.cache[q] = w.cache[q] /\ q = FileIn(Mem(a), f).indirect
            BY <3>1, <4>2, <5>2 DEF Real
          <6>2. Load(a, p) = Words(a.cache[q])[i] /\ Load(w, p) = Words(w.cache[q])[i]
            BY <5>2 DEF Load, WordAt
          <6>3. Load(a, p) = 0
            BY <2>4, <6>1, <6>2
          <6> QED BY <5>2, <6>1, <6>3 DEF PlaceIn
        <5> QED BY <2>1, <5>1, <5>2 DEF PlaceIn
      <4> HIDE DEF p
      <4>5. Works(a, u, Z, O, {}) /\ u.cache[2] = a.cache[2]
        BY <1>3, <4>2, <4>4, SaveFresh
      <4> HIDE DEF u
      <4>6. Good(u, Z, O, {}) /\ a.r \in Out
        BY <4>2, <4>5, NatOut DEF Works
      <4>7. Reads(u, t, Z, O, {}) /\ t.r = 0 /\ t.out = a.r /\ t.cache = u.cache
        BY <4>1, <4>6, RetOutReads
      <4>8. Works(s, t, Z, O, {})
        BY <3>2, <4>5, <4>7, ReadsWorks, WorksTrans
      <4>9. /\ a.r \notin Z.d /\ a.r # 0 /\ a.r > 2 /\ a.r \notin Free(a)
        BY <4>2, TreeFacts, MemFacts DEF Fresh, Real
      <4>10. Free(t) = Free(a)
        BY <4>5, <4>7 DEF Free
      <4>11. Mapped(t, Z, f, i)
        BY <4>2, <4>7, <4>9, <4>10 DEF Mapped
      <4> QED BY <4>8, <4>11
    <3> QED BY <3>3, <3>4
  <2> QED BY <2>3, <2>4
<1> QED BY <1>4, <1>5

(* file_get_block reads the block. *)
Got(t, Z, f, i) ==
    \/ t.r < 0
    \/ /\ t.r = 0 /\ t.out \in Bno /\ t.out > 2 /\ t.cache[t.out] # Unmapped
       /\ t.out \in Z.d => i \in Word /\ Leads(Mem(t), f, i, t.out)

(* Reading the block that was mapped.                                      *)
LEMMA GetGood ==
    ASSUME NEW Z, TreeOk(Z), NEW O, NEW F, NEW s, Good(s, Z, O, F), NEW f, NEW i, Mapped(s, Z, f, i), s.r = 0
    PROVE  Reads(s, read_block(s, s.out), Z, O, F) /\ Got(read_block(s, s.out), Z, f, i)
<1> DEFINE b == s.out
           t == read_block(s, b)
<1>1. /\ b \in Nat /\ b # 0 /\ b \notin Free(s)
      /\ b \in Bno => b > 2
      /\ b \in Z.d => i \in Word /\ Leads(Mem(s), f, i, b)
  BY DEF Mapped
<1> HIDE DEF b
<1>2. /\ Reads(s, t, Z, O, F)
      /\ \/ t.r < 0 /\ t.panic # NoPanic
         \/ t.r = 0 /\ t.out = b /\ b \in Bno /\ t.cache[b] # Unmapped
  BY <1>1, ReadsRead
<1> HIDE DEF t
<1>3. Mem(t) = Mem(s)
  BY <1>2 DEF Reads, Calm
<1>4. Got(t, Z, f, i)
  BY <1>1, <1>2, <1>3 DEF Got
<1> QED BY <1>2, <1>4 DEF t, b

(* file_get_block works: it never reads a free block.                      *)
LEMMA GetBlock ==
    ASSUME NEW Z, TreeOk(Z), NEW O, NEW s, Good(s, Z, O, {}),
           NEW f \in Locs(Z), s.cache[f[1]] # Unmapped, NEW i \in Nat
    PROVE  /\ Works(s, file_get_block(s, f, i), Z, O, {})
           /\ Got(file_get_block(s, f, i), Z, f, i)
<1> DEFINE w == file_map_block(s, f, i, TRUE)
           t == file_get_block(s, f, i)
           u == read_block(w, w.out)
<1>1. Works(s, w, Z, O, {}) /\ Mapped(w, Z, f, i)
  BY MapTrue
<1>2. t = IF w.r < 0 THEN w ELSE u
  BY DEF file_get_block, Try
<1> SUFFICES Works(s, t, Z, O, {}) /\ Got(t, Z, f, i)
  OBVIOUS
<1> HIDE DEF w, t
<1>3. CASE w.r < 0
  <2>1. t = w
    BY <1>2, <1>3
  <2>2. Got(w, Z, f, i)
    BY <1>3 DEF Got
  <2> QED BY <1>1, <2>1, <2>2
<1>4. CASE ~(w.r < 0)
  <2>1. t = u /\ w.r = 0 /\ Good(w, Z, O, {})
    BY <1>1, <1>2, <1>4 DEF Mapped, Works
  <2>2. Reads(w, u, Z, O, {}) /\ Got(u, Z, f, i)
    BY <1>1, <2>1, GetGood
  <2> HIDE DEF u
  <2>3. Works(s, u, Z, O, {})
    BY <1>1, <2>2, ReadsWorks, WorksTrans
  <2> QED BY <2>1, <2>2, <2>3
<1> QED BY <1>3, <1>4

(* A block number from an offset.                                          *)
LEMMA DivNat == \A a \in Nat : a \div BY2BLK \in Nat
  BY Sizes

(* More files may be being cut. *)
LEMMA WiderGood ==
    ASSUME NEW Z, TreeOk(Z), NEW O, NEW F, NEW s, Good(s, Z, O, F), NEW E, F \subseteq E
    PROVE  Good(s, Z, O, E)
<1>1. Rel(V(s), Mem(s), F, Z) => Rel(V(s), Mem(s), E, Z)
  BY DEF Rel
<1> QED BY <1>1 DEF Good, Core

(* The number in a place of a file that is no directory is cleared. *)
LEMMA DropGood ==
    ASSUME NEW Z, TreeOk(Z), NEW O, NEW F, NEW s, Good(s, Z, O, F),
           NEW f \in Locs(Z), f \notin Z.dirs, f \in F, s.cache[f[1]] # Unmapped,
           NEW i, NEW p, PlaceIn(s, f, i, p)
    PROVE  Works(s, Save(free_block(s, Load(s, p)), p, 0), Z, O, F)
<1> DEFINE b == Load(s, p)
           w == free_block(s, b)
           t == Save(w, p, 0)
<1> SUFFICES Works(s, t, Z, O, F)
  OBVIOUS
<1>0. /\ File(s, f) = FileIn(Mem(s), f) /\ File(s, f) \in FileRec /\ File(s, f).direct \in [Direct -> Nat]
      /\ f[1] \in Bno /\ f[1] # 2
  BY RootKeeps, TreeFacts
<1>1. b \in Nat
  BY LoadFacts
<1>2. \A a \in Bno : a # 2 => w.cache[a] = s.cache[a]
  <2> HIDE DEF b
  <2> QED BY <1>1, FreeCache
<1>3. File(w, f) = File(s, f)
  BY <1>0, <1>2 DEF File
<1>4. CASE i \in Direct /\ p = DirectAt(f, i)
  <2> DEFINE x == [File(s, f) EXCEPT !.direct[i] = 0]
  <2>1. t = SetFile(w, f, x)
    BY <1>3, <1>4 DEF Save, DirectAt
  <2>2. /\ x \in FileRec /\ x.dir = FileIn(Mem(s), f).dir /\ x.type = FileIn(Mem(s), f).type
        /\ x.direct = [FileIn(Mem(s), f).direct EXCEPT ![i] = 0]
        /\ x.indirect = FileIn(Mem(s), f).indirect
    BY <1>0, <1>4, RecFacts
  <2>3. b = FileIn(Mem(s), f).direct[i]
    BY <1>0, <1>4 DEF Load, DirectAt
  <2> HIDE DEF x, t, b
  <2>4. i \in SafePlaces /\ i # NINDIRECT /\ \A j \in SafePlaces : j # NINDIRECT => j \in Direct
    BY <1>4, PlaceMade DEF SafePlaces, Direct
  <2>5. /\ Ptr(x, i) = 0 /\ b = Ptr(FileIn(Mem(s), f), i)
        /\ \A j \in SafePlaces : j # i => Ptr(x, j) = Ptr(FileIn(Mem(s), f), j)
    BY <1>0, <1>4, <2>2, <2>3, <2>4 DEF Ptr
  <2>6. Good(t, Z, O, F) /\ Frame(s, t, Z)
    BY <2>1, <2>2, <2>4, <2>5, FileDrop
  <2> QED BY <2>6 DEF Works
<1>5. ASSUME i \in Word, i \notin Direct,
             NEW q \in Real, q > 2, p = WordAt(q, i), q = FileIn(Mem(s), f).indirect, s.cache[q] # Unmapped
      PROVE  Works(s, t, Z, O, F)
  <2> DEFINE c == WordsOf([Words(s.cache[q]) EXCEPT ![i] = 0])
  <2>1. q \in Bno /\ q # 2
    BY <1>5 DEF Real
  <2>2. t = StoreBlock(w, q, c)
    <3>1. w.cache[q] = s.cache[q]
      BY <1>2, <2>1
    <3> QED BY <1>5, <3>1 DEF Save, WordAt
  <2>3. b = Words(s.cache[q])[i]
    BY <1>5 DEF Load, WordAt
  <2>4. q \notin Z.p
    <3>1. <<1, f, NINDIRECT>> \in Places(Z) /\ At(Mem(s), <<1, f, NINDIRECT>>) = q
      BY <1>5, AtPtr, PlaceMade DEF Ptr
    <3>2. Guarded(Mem(s), Z)
      BY MemFacts DEF MemOk, DiskOk
    <3> QED BY <3>1, <3>2 DEF Guarded, Holder
  <2>5. c = WordsOf([Words(s.cache[q]) EXCEPT ![i] = 0])
    OBVIOUS
  <2> HIDE DEF b, t, c
  <2>6. Good(t, Z, O, F) /\ Frame(s, t, Z)
    BY <1>5, <2>1, <2>2, <2>3, <2>4, <2>5, WordDrop
  <2> QED BY <2>6 DEF Works
<1> QED BY <1>4, <1>5 DEF PlaceIn

(* file_clear_block of a regular file that is being cut works.             *)
LEMMA ClearGood ==
    ASSUME NEW Z, TreeOk(Z), NEW O, NEW F, NEW s, Good(s, Z, O, F),
           NEW f \in Locs(Z), f \notin Z.dirs, f \in F, s.cache[f[1]] # Unmapped, NEW i \in Nat
    PROVE  Works(s, file_clear_block(s, f, i), Z, O, F)
<1> DEFINE w == file_block_walk(s, f, i, FALSE)
           p == w.out
           u == Save(free_block(w, Load(w, p)), p, 0)
           t == file_clear_block(s, f, i)
<1>1. Reads(s, w, Z, O, F) /\ Walked(s, w, f, i)
  BY WalkFalse
<1>2. t = IF w.r < 0 THEN w ELSE IF Load(w, p) = 0 THEN Ret(w, 0) ELSE Ret(u, 0)
  BY DEF file_clear_block, Try
<1> SUFFICES Works(s, t, Z, O, F)
  OBVIOUS
<1> HIDE DEF w, t
<1>3. Works(s, w, Z, O, F) /\ Good(w, Z, O, F) /\ w.cache[f[1]] # Unmapped
  BY <1>1, ReadsWorks, TreeFacts DEF Reads, Calm
<1>4. CASE w.r < 0
  BY <1>2, <1>3, <1>4
<1>5. CASE ~(w.r < 0) /\ Load(w, p) = 0
  <2> PICK o \in Int : o = 0
    OBVIOUS
  <2>1. t = Ret(w, o)
    BY <1>2, <1>5
  <2>2. Reads(w, t, Z, O, F)
    BY <1>3, <2>1, RetReads
  <2> QED BY <1>3, <2>2, ReadsWorks, WorksTrans
<1>6. CASE ~(w.r < 0) /\ ~(Load(w, p) = 0)
  <2> PICK o \in Int : o = 0
    OBVIOUS
  <2>1. t = Ret(u, o)
    BY <1>2, <1>6
  <2>2. PlaceIn(w, f, i, p)
    BY <1>1, <1>6 DEF Walked
  <2> HIDE DEF p
  <2>3. Works(w, u, Z, O, F)
    BY <1>3, <2>2, DropGood
  <2> HIDE DEF u
  <2>4. Reads(u, t, Z, O, F)
    BY <2>1, <2>3, RetReads DEF Works
  <2> QED BY <1>3, <2>3, <2>4, ReadsWorks, WorksTrans
<1> QED BY <1>4, <1>5, <1>6

(* A loop whose pass k leads from S[k - 1] to S[k]: step[<<t, k>>] is what *)
(* the pass makes of t.                                                    *)
Passes(S, n, step) == \A k \in 1..n : \A t \in S[k - 1] : step[<<t, k>>] \in S[k]
(* f is the run of n passes, the k-th of which stays in S[k].              *)
IsRunK(f, S, n, step, s) ==
    /\ f = [k \in 0..n |-> f[k]] /\ f[0] = s
    /\ \A k \in 0..n : f[k] \in S[k]
    /\ \A k \in 1..n : f[k] = step[<<f[k - 1], k>>]
All(S, n) == UNION {S[k] : k \in 0..n}

(* Such a run exists.                                                      *)
LEMMA LoopK ==
    ASSUME NEW n \in Nat, NEW S, NEW step, NEW s, s \in S[0], Passes(S, n, step)
    PROVE  \E f : IsRunK(f, S, n, step, s)
<1> DEFINE B == All(S, n)
           g == [x \in B \X (1..n) |-> IF x[1] \in S[x[2] - 1] THEN step[x] ELSE x[1]]
<1>1. \A k \in 0..n : \A t \in S[k] : t \in B
  BY DEF All
<1>2. Steps(B, n, g, s)
  <2>1. s \in B
    BY <1>1
  <2>2. ASSUME NEW t \in B, NEW k \in 1..n PROVE g[<<t, k>>] \in B
    <3>1. k \in 0..n
      OBVIOUS
    <3>2. g[<<t, k>>] = IF t \in S[k - 1] THEN step[<<t, k>>] ELSE t
      BY DEF All
    <3> HIDE DEF g, B
    <3> QED BY <1>1, <3>1, <3>2 DEF Passes
  <2>3. g \in [B \X (1..n) -> B]
    <3> HIDE DEF B
    <3>1. ASSUME NEW x \in B \X (1..n) PROVE g[x] \in B
      <4>1. x = <<x[1], x[2]>> /\ x[1] \in B /\ x[2] \in 1..n
        OBVIOUS
      <4> HIDE DEF g
      <4> QED BY <2>2, <4>1
    <3> QED BY <3>1
  <2> HIDE DEF g, B
  <2> QED BY <2>1, <2>3 DEF Steps
<1>3. \A t \in B, k \in 1..n : t \in S[k - 1] => g[<<t, k>>] = step[<<t, k>>]
  OBVIOUS
<1> HIDE DEF g, B
<1>4. PICK f : IsRun(f, B, n, g, s)
  BY <1>2, Loop
<1> DEFINE T == {k \in 0..n : f[k] \in S[k]}
<1>5. \A k \in 0..n : k \in T
  <2>1. 0 \in T
    BY <1>4 DEF IsRun
  <2>2. ASSUME NEW k \in 1..n, k - 1 \in T PROVE k \in T
    <3>1. f[k - 1] \in S[k - 1] /\ f[k - 1] \in B /\ f[k] = g[<<f[k - 1], k>>]
      BY <1>4, <2>2 DEF IsRun
    <3>2. f[k] = step[<<f[k - 1], k>>]
      BY <1>3, <3>1
    <3> QED BY <3>1, <3>2 DEF Passes
  <2> HIDE DEF T
  <2> QED BY <2>1, <2>2, CountUp
<1>6. ASSUME NEW k \in 1..n PROVE f[k] = step[<<f[k - 1], k>>]
  <2>1. f[k - 1] \in S[k - 1] /\ f[k - 1] \in B /\ f[k] = g[<<f[k - 1], k>>]
    BY <1>4, <1>5 DEF IsRun
  <2> QED BY <1>3, <2>1
<1>7. f = [k \in 0..n |-> f[k]] /\ f[0] = s
  BY <1>4 DEF IsRun
<1> QED BY <1>5, <1>6, <1>7 DEF IsRunK

(* The first loop of file_truncate. *)
CutTo(newsize) == IF newsize = 0 THEN 0 ELSE newsize \div BY2BLK + 1
(* How many passes a loop from lo to hi has; the loop of file_truncate.    *)
Count(lo, hi) == IF lo < hi THEN hi - lo ELSE 0
CutLoop(s, f, lo, hi) ==
    LET Clear(t, b) == file_clear_block(t, f, b) IN For(Clear, s, lo, hi)

(* What every pass keeps, the loop does.                                   *)
LEMMA CutLoopIn ==
    ASSUME NEW s, NEW f, NEW lo \in Nat, NEW hi \in Nat, NEW n, n = Count(lo, hi), NEW S, s \in S[0],
           \A k \in 1..n : \A t \in S[k - 1] : file_clear_block(t, f, lo + k - 1) \in S[k]
    PROVE  CutLoop(s, f, lo, hi) \in S[n]
<1> DEFINE Body(t, i) == file_clear_block(t, f, i)
           step == [x \in All(S, n) \X (1..n) |-> Body(x[1], lo + x[2] - 1)]
           Runs(g) == g = [k \in 0..n |-> IF k = 0 THEN s ELSE Body(g[k - 1], lo + k - 1)]
<1>0. n \in Nat
  BY DEF Count
<1>1. CutLoop(s, f, lo, hi) = (CHOOSE g : Runs(g))[n]
  BY DEF CutLoop, For, Count
<1>2. \A k \in 1..n : \A t \in S[k - 1] : Body(t, lo + k - 1) \in S[k]
  OBVIOUS
<1> HIDE DEF Body
<1>3. ASSUME NEW k \in 1..n, NEW t \in S[k - 1] PROVE step[<<t, k>>] = Body(t, lo + k - 1)
  BY <1>0 DEF All
<1> HIDE DEF step
<1>4. Passes(S, n, step)
  BY <1>2, <1>3 DEF Passes
<1>5. PICK g : IsRunK(g, S, n, step, s)
  BY <1>0, <1>4, LoopK
<1>6. Runs(g)
  <2>1. \A k \in 0..n : g[k] = IF k = 0 THEN s ELSE Body(g[k - 1], lo + k - 1)
    <3>1. g[0] = s /\ \A k \in 0..n : k = 0 \/ (k \in 1..n /\ k - 1 \in 0..n)
      BY <1>0, <1>5 DEF IsRunK
    <3>2. ASSUME NEW k \in 1..n PROVE g[k] = Body(g[k - 1], lo + k - 1)
      <4>0. k - 1 \in 0..n
        BY <1>0
      <4>1. g[k - 1] \in S[k - 1] /\ g[k] = step[<<g[k - 1], k>>]
        BY <1>5, <4>0 DEF IsRunK
      <4> QED BY <1>3, <4>1
    <3> QED BY <3>1, <3>2
  <2>2. g = [k \in 0..n |-> g[k]]
    BY <1>5 DEF IsRunK
  <2> QED BY <2>1, <2>2
<1> DEFINE at == CHOOSE h : Runs(h)
<1>7. Runs(at)
  <2> HIDE DEF Runs
  <2> QED BY <1>6
<1> HIDE DEF at
<1> DEFINE T == {k \in 0..n : at[k] \in S[k]}
<1>8. \A k \in 0..n : k \in T
  <2>1. 0 \in T
    BY <1>0, <1>7
  <2>2. \A k \in 1..n : k - 1 \in T => k \in T
    BY <1>0, <1>2, <1>7
  <2> HIDE DEF T
  <2> QED BY <1>0, <2>1, <2>2, CountUp
<1> QED BY <1>0, <1>1, <1>8 DEF at

(* So cutting a regular file works.                                        *)
LEMMA CutLoopGood ==
    ASSUME NEW Z, TreeOk(Z), NEW O, NEW F, NEW s, Good(s, Z, O, F),
           NEW f \in Locs(Z), f \notin Z.dirs, f \in F, s.cache[f[1]] # Unmapped,
           NEW lo \in Nat, NEW hi \in Nat
    PROVE  Works(s, CutLoop(s, f, lo, hi), Z, O, F)
<1> DEFINE n == Count(lo, hi)
           B == {t \in St : Works(s, t, Z, O, F)}
           S == [k \in 0..n |-> B]
<1>1. n \in Nat
  BY DEF Count
<1> HIDE DEF n
<1>2. s \in S[0]
  BY <1>1, FrameSame DEF Works, Good
<1>3. ASSUME NEW k \in 1..n, NEW t \in S[k - 1] PROVE file_clear_block(t, f, lo + k - 1) \in S[k]
  <2>1. k - 1 \in 0..n /\ k \in 0..n /\ lo + k - 1 \in Nat
    BY <1>1
  <2>2. Works(s, t, Z, O, F)
    BY <1>3, <2>1
  <2>3. Good(t, Z, O, F) /\ t.cache[f[1]] # Unmapped
    BY <2>2, TreeFacts DEF Works, Frame
  <2> DEFINE i == lo + k - 1
             u == file_clear_block(t, f, i)
  <2>4. i \in Nat
    BY <2>1
  <2> HIDE DEF i
  <2>5. Works(t, u, Z, O, F)
    BY <2>3, <2>4, ClearGood
  <2> HIDE DEF u
  <2>6. Works(s, u, Z, O, F) /\ u \in St
    BY <2>2, <2>5, WorksTrans DEF Works, Good
  <2>7. u \in S[k]
    BY <2>1, <2>6
  <2> QED BY <2>7 DEF u, i
<1>4. n = Count(lo, hi)
  BY DEF n
<1> HIDE DEF S
<1>5. CutLoop(s, f, lo, hi) \in S[n]
  BY <1>2, <1>3, <1>4, CutLoopIn
<1> QED BY <1>1, <1>5 DEF S

(* file_truncate of a regular file works.                                  *)
LEMMA TruncGood ==
    ASSUME NEW Z, TreeOk(Z), NEW O, NEW F, NEW s, Good(s, Z, O, F),
           NEW f \in Locs(Z), f \notin Z.dirs, f \in F, s.cache[f[1]] # Unmapped,
           NEW newsize \in Nat
    PROVE  Works(s, file_truncate(s, f, newsize), Z, O, F)
<1> DEFINE lo == CutTo(newsize)
           hi == File(s, f).size \div BY2BLK + 1
           t == CutLoop(s, f, lo, hi)
           b == File(t, f).indirect
           u == free_block(t, b)
           w == SetIndirect(u, f, 0)
           v == IF lo <= NDIRECT /\ b # 0 THEN w ELSE t
<1>1. file_truncate(s, f, newsize) = SetSize(v, f, newsize)
  BY DEF file_truncate, CutLoop, Then, CutTo
<1>2. lo \in Nat /\ hi \in Nat
  BY RootKeeps, DivNat DEF CutTo
<1> HIDE DEF lo, hi
<1>3. Works(s, t, Z, O, F)
  BY <1>2, CutLoopGood
<1> HIDE DEF t
<1>4. Good(t, Z, O, F) /\ t.cache[f[1]] # Unmapped /\ f[1] \in Bno /\ f[1] # 2
  BY <1>3, TreeFacts DEF Works, Frame
<1>5. /\ File(t, f) = FileIn(Mem(t), f) /\ File(t, f) \in FileRec /\ b \in Nat
      /\ File(t, f).direct \in [Direct -> Nat]
  BY <1>4, RootKeeps
<1>6. Works(t, w, Z, O, F)
  <2> DEFINE x == [File(t, f) EXCEPT !.indirect = 0]
  <2>1. File(u, f) = File(t, f)
    <3> HIDE DEF b
    <3>1. u.cache[f[1]] = t.cache[f[1]]
      BY <1>4, <1>5, FreeCache
    <3> QED BY <3>1 DEF File
  <2>2. w = SetFile(u, f, x)
    BY <2>1 DEF SetIndirect
  <2>3. /\ x \in FileRec /\ x.dir = FileIn(Mem(t), f).dir /\ x.type = FileIn(Mem(t), f).type
        /\ x.direct = FileIn(Mem(t), f).direct /\ x.indirect = 0
    BY <1>5, RecFacts
  <2>4. b = FileIn(Mem(t), f).indirect
    BY <1>5
  <2> HIDE DEF x, w, b
  <2>5. NINDIRECT \in SafePlaces /\ Ptr(x, NINDIRECT) = 0 /\ b = Ptr(FileIn(Mem(t), f), NINDIRECT)
        /\ \A j \in SafePlaces : j # NINDIRECT => Ptr(x, j) = Ptr(FileIn(Mem(t), f), j)
    BY <2>3, <2>4, PlaceMade DEF Ptr
  <2>6. Good(w, Z, O, F) /\ Frame(t, w, Z)
    BY <1>4, <2>2, <2>3, <2>5, FileDrop
  <2> QED BY <2>6 DEF Works
<1> HIDE DEF w, b
<1>7. Works(s, v, Z, O, F)
  BY <1>3, <1>6, WorksTrans
<1> HIDE DEF v
<1>8. Good(v, Z, O, F) /\ v.cache[f[1]] # Unmapped
  BY <1>4, <1>7 DEF Works, Frame
<1> DEFINE z == SetSize(v, f, newsize)
<1>9. Works(v, z, Z, O, F)
  BY <1>8, SetSizeGood DEF Works
<1> HIDE DEF z
<1>10. Works(s, z, Z, O, F)
  BY <1>7, <1>9, WorksTrans
<1> QED BY <1>1, <1>10 DEF z

(* From s a call that writes blocks back gets to t. *)
Wrote(s, t, Z, O, F) ==
    /\ Good(t, Z, O, F) /\ Mem(t) = Mem(s) /\ t.dirty = s.dirty
    /\ \A a \in Bno : s.cache[a] # Unmapped => t.cache[a] = s.cache[a]
    /\ s.panic # NoPanic => t.panic # NoPanic
    /\ \A a \in Bno : s.cache[a] # Unmapped /\ t.panic = NoPanic =>
          V(t)[a] = V(s)[a] \/ V(t)[a] = t.cache[a]

(* Block a is written, unless the server panicked. *)
Saved(t, a) == t.panic = NoPanic => V(t)[a] = t.cache[a]

(* Two calls that write back are one.                                      *)
LEMMA WroteTrans ==
    ASSUME NEW Z, NEW O, NEW F, NEW s, NEW t, NEW u, Wrote(s, t, Z, O, F), Wrote(t, u, Z, O, F)
    PROVE  Wrote(s, u, Z, O, F)
  BY DEF Wrote

(* A block that is on the disk as it is in memory stays so while blocks    *)
(* are written back.                                                       *)
LEMMA SavedKept ==
    ASSUME NEW Z, NEW O, NEW F, NEW s, NEW t, Wrote(s, t, Z, O, F), NEW a \in Bno,
           s.cache[a] # Unmapped, Saved(s, a)
    PROVE  Saved(t, a)
  BY DEF Wrote, Saved

(* Reading changes nothing of it.                                          *)
LEMMA ReadsWrote ==
    ASSUME NEW Z, NEW O, NEW F, NEW s, NEW t, Reads(s, t, Z, O, F)
    PROVE  Wrote(s, t, Z, O, F)
  BY DEF Reads, Calm, Wrote

(* write_block writes back, and its block is on the disk then.             *)
LEMMA WriteWrote ==
    ASSUME NEW Z, TreeOk(Z), NEW O, NEW F, NEW s, Good(s, Z, O, F),
           NEW b \in Bno, s.cache[b] # Unmapped, b = 2 => F = {}
    PROVE  Wrote(s, write_block(s, b), Z, O, F) /\ Saved(write_block(s, b), b)
<1> DEFINE t == write_block(s, b)
<1>1. /\ Good(t, Z, O, F) /\ Mem(t) = Mem(s)
      /\ t.cache = s.cache /\ t.dirty = s.dirty /\ t.panic = s.panic /\ t.r = s.r /\ t.out = s.out
      /\ t.panic = NoPanic => /\ V(t)[b] = t.cache[b]
                              /\ \A a \in Bno : a # b => V(t)[a] = V(s)[a]
  BY WriteGood
<1> HIDE DEF t
<1>2. Wrote(s, t, Z, O, F) /\ Saved(t, b)
  BY <1>1 DEF Wrote, Saved
<1> QED BY <1>2 DEF t

(* Nothing is written back.                                                *)
LEMMA WroteSame ==
    ASSUME NEW Z, NEW O, NEW F, NEW s, Good(s, Z, O, F)
    PROVE  Wrote(s, s, Z, O, F)
  BY DEF Wrote

(* A pass of file_flush. *)
FlushPass(t, f, b) ==
    LET u == file_map_block(t, f, b, FALSE)
    IN  IF u.r >= 0 /\ block_is_dirty(u, u.out) THEN write_block(u, u.out) ELSE u

(* A pass of file_flush writes the dirty block it is about.                *)
LEMMA FlushPassGood ==
    ASSUME NEW Z, TreeOk(Z), NEW O, NEW F, NEW s, Good(s, Z, O, F),
           NEW f \in Locs(Z), s.cache[f[1]] # Unmapped, NEW i \in Nat
    PROVE  /\ Wrote(s, FlushPass(s, f, i), Z, O, F)
           /\ \A b \in Real : i \in Word /\ b \in s.dirty /\ Leads(Mem(s), f, i, b) => Saved(FlushPass(s, f, i), b)
<1> DEFINE u == file_map_block(s, f, i, FALSE)
           w == write_block(u, u.out)
           t == FlushPass(s, f, i)
<1>1. /\ Reads(s, u, Z, O, F) /\ Mapped(u, Z, f, i)
      /\ \A b \in Real : i \in Word /\ Leads(Mem(s), f, i, b) => u.panic # NoPanic \/ (u.r = 0 /\ u.out = b)
  BY MapFalse
<1>2. t = IF u.r >= 0 /\ block_is_dirty(u, u.out) THEN w ELSE u
  BY DEF FlushPass
<1> SUFFICES /\ Wrote(s, t, Z, O, F)
             /\ \A b \in Real : i \in Word /\ b \in s.dirty /\ Leads(Mem(s), f, i, b) => Saved(t, b)
  OBVIOUS
<1> HIDE DEF u, t
<1>3. Wrote(s, u, Z, O, F) /\ Good(u, Z, O, F) /\ u.dirty = s.dirty
  BY <1>1, ReadsWrote DEF Reads, Calm
<1>4. CASE u.r >= 0 /\ block_is_dirty(u, u.out)
  <2>0. u.r \in Int
    BY <1>3 DEF Good, St
  <2>00. ~(u.r < 0)
    BY <2>0, <1>4
  <2>1. u.out \in Bno /\ u.cache[u.out] # Unmapped /\ u.out > 2
    BY <1>1, <1>4, <2>00 DEF block_is_dirty, block_is_mapped, Mapped
  <2> DEFINE c == u.out
  <2>2. c \in Bno /\ u.cache[c] # Unmapped /\ c # 2 /\ w = write_block(u, c)
    BY <2>1
  <2>3. Wrote(u, w, Z, O, F) /\ Saved(w, c)
    <3> HIDE DEF c
    <3>1. Wrote(u, write_block(u, c), Z, O, F) /\ Saved(write_block(u, c), c)
      BY <1>3, <2>2, WriteWrote
    <3> QED BY <2>2, <3>1
  <2>4. t = w
    BY <1>2, <1>4
  <2>5. (u.panic # NoPanic => w.panic # NoPanic)
    BY <2>3 DEF Wrote
  <2> HIDE DEF w
  <2>6. Wrote(s, w, Z, O, F)
    BY <1>3, <2>3, WroteTrans
  <2>7. \A b \in Real : i \in Word /\ b \in s.dirty /\ Leads(Mem(s), f, i, b) => Saved(w, b)
    BY <1>1, <2>3, <2>5 DEF Saved
  <2> QED BY <2>4, <2>6, <2>7
<1>5. CASE ~(u.r >= 0 /\ block_is_dirty(u, u.out))
  <2>1. t = u
    BY <1>2, <1>5
  <2>2. ASSUME NEW b \in Real, i \in Word, b \in s.dirty, Leads(Mem(s), f, i, b) PROVE Saved(u, b)
    <3>1. b \in u.dirty /\ b \in Bno /\ u.cache[b] # Unmapped
      BY <1>3, <2>2, MemFacts DEF Real
    <3>2. CASE u.panic # NoPanic
      BY <3>2 DEF Saved
    <3>3. CASE u.r = 0 /\ u.out = b
      BY <1>5, <3>1, <3>3 DEF block_is_dirty, block_is_mapped
    <3> QED BY <1>1, <2>2, <3>2, <3>3
  <2> QED BY <1>3, <2>1, <2>2
<1> QED BY <1>4, <1>5

(* The loop of file_flush.                                                 *)
FlushLoop(s, f, lo, hi) == LET Flush(t, b) == FlushPass(t, f, b) IN For(Flush, s, lo, hi)

(* What every pass keeps, the loop does.                                   *)
LEMMA FlushLoopIn ==
    ASSUME NEW s, NEW f, NEW lo \in Nat, NEW hi \in Nat, NEW n, n = Count(lo, hi), NEW S, s \in S[0],
           \A k \in 1..n : \A t \in S[k - 1] : FlushPass(t, f, lo + k - 1) \in S[k]
    PROVE  FlushLoop(s, f, lo, hi) \in S[n]
<1> DEFINE Body(t, i) == FlushPass(t, f, i)
           step == [x \in All(S, n) \X (1..n) |-> Body(x[1], lo + x[2] - 1)]
           Runs(g) == g = [k \in 0..n |-> IF k = 0 THEN s ELSE Body(g[k - 1], lo + k - 1)]
<1>0. n \in Nat
  BY DEF Count
<1>1. FlushLoop(s, f, lo, hi) = (CHOOSE g : Runs(g))[n]
  BY DEF FlushLoop, For, Count
<1>2. \A k \in 1..n : \A t \in S[k - 1] : Body(t, lo + k - 1) \in S[k]
  OBVIOUS
<1> HIDE DEF Body
<1>3. ASSUME NEW k \in 1..n, NEW t \in S[k - 1] PROVE step[<<t, k>>] = Body(t, lo + k - 1)
  BY <1>0 DEF All
<1> HIDE DEF step
<1>4. Passes(S, n, step)
  BY <1>2, <1>3 DEF Passes
<1>5. PICK g : IsRunK(g, S, n, step, s)
  BY <1>0, <1>4, LoopK
<1>6. Runs(g)
  <2>1. \A k \in 0..n : g[k] = IF k = 0 THEN s ELSE Body(g[k - 1], lo + k - 1)
    <3>1. g[0] = s /\ \A k \in 0..n : k = 0 \/ (k \in 1..n /\ k - 1 \in 0..n)
      BY <1>0, <1>5 DEF IsRunK
    <3>2. ASSUME NEW k \in 1..n PROVE g[k] = Body(g[k - 1], lo + k - 1)
      <4>0. k - 1 \in 0..n
        BY <1>0
      <4>1. g[k - 1] \in S[k - 1] /\ g[k] = step[<<g[k - 1], k>>]
        BY <1>5, <4>0 DEF IsRunK
      <4> QED BY <1>3, <4>1
    <3> QED BY <3>1, <3>2
  <2>2. g = [k \in 0..n |-> g[k]]
    BY <1>5 DEF IsRunK
  <2> QED BY <2>1, <2>2
<1> DEFINE at == CHOOSE h : Runs(h)
<1>7. Runs(at)
  <2> HIDE DEF Runs
  <2> QED BY <1>6
<1> HIDE DEF at
<1> DEFINE T == {k \in 0..n : at[k] \in S[k]}
<1>8. \A k \in 0..n : k \in T
  <2>1. 0 \in T
    BY <1>0, <1>7
  <2>2. \A k \in 1..n : k - 1 \in T => k \in T
    BY <1>0, <1>2, <1>7
  <2> HIDE DEF T
  <2> QED BY <1>0, <2>1, <2>2, CountUp
<1> QED BY <1>0, <1>1, <1>8 DEF at

(* file_flush writes every dirty block that the file leads to below its    *)
(* size.                                                                   *)
LEMMA FlushGood ==
    ASSUME NEW Z, TreeOk(Z), NEW O, NEW F, NEW s, Good(s, Z, O, F),
           NEW f \in Locs(Z), s.cache[f[1]] # Unmapped
    PROVE  /\ Wrote(s, file_flush(s, f), Z, O, F)
           /\ \A b \in Real, i \in Word :
                 i < File(s, f).size \div BY2BLK + 1 /\ b \in s.dirty /\ Leads(Mem(s), f, i, b)
                 => Saved(file_flush(s, f), b)
<1> DEFINE hi == File(s, f).size \div BY2BLK + 1
           lo == 0
           n == Count(lo, hi)
           Upto(t, k) == \A b \in Real, i \in Word :
                            i < k /\ b \in s.dirty /\ Leads(Mem(s), f, i, b) => Saved(t, b)
           S == [k \in 0..n |-> {t \in St : Wrote(s, t, Z, O, F) /\ Upto(t, k)}]
           e == FlushLoop(s, f, lo, hi)
<1>1. hi \in Nat /\ lo \in Nat
  BY RootKeeps, DivNat
<1>2. n = hi /\ n \in Nat
  BY <1>1 DEF Count
<1>3. file_flush(s, f) = e
  BY DEF file_flush, FlushLoop, FlushPass
<1>30. hi = File(s, f).size \div BY2BLK + 1 /\ n = Count(lo, hi) /\ \A k \in Int : lo + k - 1 = k - 1
  OBVIOUS
<1> HIDE DEF e, hi, lo, n
<1>4. s \in S[0]
  <2>1. s \in St /\ Wrote(s, s, Z, O, F)
    BY WroteSame DEF Good
  <2>2. Upto(s, 0)
    BY Sizes DEF Word
  <2> HIDE DEF Upto
  <2> QED BY <1>2, <2>1, <2>2
<1>5. ASSUME NEW k \in 1..n, NEW t \in S[k - 1] PROVE FlushPass(t, f, lo + k - 1) \in S[k]
  <2>1. k - 1 \in 0..n /\ k \in 0..n /\ k - 1 \in Nat /\ lo + k - 1 = k - 1
    BY <1>2, <1>30
  <2>2. t \in St /\ Wrote(s, t, Z, O, F) /\ Upto(t, k - 1)
    BY <1>5, <2>1
  <2> DEFINE j == k - 1
             u == FlushPass(t, f, j)
  <2>3. Good(t, Z, O, F) /\ t.cache[f[1]] # Unmapped /\ Mem(t) = Mem(s) /\ t.dirty = s.dirty
        /\ \A b \in Bno : s.cache[b] # Unmapped => t.cache[b] # Unmapped
    BY <2>2, TreeFacts DEF Wrote
  <2>4. j \in Nat
    BY <2>1
  <2>5. /\ Wrote(t, u, Z, O, F)
        /\ \A b \in Real : j \in Word /\ b \in t.dirty /\ Leads(Mem(t), f, j, b) => Saved(u, b)
    <3> HIDE DEF j
    <3> QED BY <2>3, <2>4, FlushPassGood
  <2> HIDE DEF u
  <2>6. Wrote(s, u, Z, O, F) /\ u \in St
    BY <2>2, <2>5, WroteTrans DEF Wrote, Good
  <2>7. Upto(u, k)
    <3> SUFFICES ASSUME NEW b \in Real, NEW i \in Word, i < k, b \in s.dirty, Leads(Mem(s), f, i, b)
                 PROVE  Saved(u, b)
      OBVIOUS
    <3>1. CASE i = j
      BY <2>3, <2>5, <3>1
    <3>2. CASE i < j
      <4>1. b \in Bno /\ t.cache[b] # Unmapped
        BY <2>3, MemFacts DEF Real
      <4>2. Saved(t, b)
        BY <2>2, <3>2
      <4> QED BY <2>5, <4>1, <4>2, SavedKept
    <3> QED BY <2>1, <3>1, <3>2 DEF Word
  <2>8. u \in S[k]
    <3> HIDE DEF Upto
    <3> QED BY <2>1, <2>6, <2>7
  <2> QED BY <2>1, <2>8 DEF u
<1> DEFINE Q == S
<1>6. e \in Q[n]
  <2> HIDE DEF S
  <2> QED BY <1>1, <1>30, <1>4, <1>5, FlushLoopIn DEF e
<1>7. Wrote(s, e, Z, O, F) /\ Upto(e, n)
  <2>1. n \in 0..n
    BY <1>2
  <2> HIDE DEF Upto
  <2> QED BY <1>6, <2>1
<1> QED BY <1>2, <1>3, <1>30, <1>7

(* An open file is a location of the tree, and its File is cached.         *)
LEMMA OpenFacts ==
    ASSUME NEW Z, TreeOk(Z), NEW O, NEW F, NEW s, Good(s, Z, O, F), NEW f \in O
    PROVE  /\ OpenOk(Mem(s), s.dirty, f, Z) /\ f \in Locs(Z) /\ s.cache[f[1]] # Unmapped
<1>1. OpenOk(Mem(s), s.dirty, f, Z)
  BY DEF Good, Core
<1>2. CASE f = Root
  BY <1>1, <1>2, TreeFacts, MemFacts DEF Root
<1>3. CASE f # Root
  <2>1. f \in Z.d \X Slot /\ f[1] \in s.dirty
    BY <1>1, <1>3 DEF OpenOk
  <2> QED BY <1>1, <2>1, MemFacts DEF Locs
<1> QED BY <1>2, <1>3

(* Flushing the directory of an open file writes the block its File is in. *)
LEMMA FlushDirGood ==
    ASSUME NEW Z, TreeOk(Z), NEW O, NEW F, NEW s, Good(s, Z, O, F), NEW f \in O
    PROVE  /\ Wrote(s, FlushDir(s, f), Z, O, F)
           /\ f # Root => Saved(FlushDir(s, f), f[1])
<1> DEFINE g == File(s, f).dir
<1>0. OpenOk(Mem(s), s.dirty, f, Z) /\ f \in Locs(Z) /\ s.cache[f[1]] # Unmapped
  BY OpenFacts
<1>1. FlushDir(s, f) = IF g = NoLoc THEN s ELSE file_flush(s, g)
  BY DEF FlushDir
<1>2. /\ File(s, f) = FileIn(Mem(s), f) /\ (f = Root => g = NoLoc)
  BY <1>0, RootKeeps
<1>3. g = FileIn(Mem(s), f).dir
  BY <1>2
<1> HIDE DEF g
<1>4. CASE f = Root
  <2>1. FlushDir(s, f) = s
    BY <1>1, <1>2, <1>4
  <2>2. Wrote(s, s, Z, O, F)
    BY WroteSame
  <2> QED BY <1>4, <2>1, <2>2
<1>5. CASE f # Root
  <2>1. /\ f \in Z.d \X Slot /\ f[1] \in s.dirty
        /\ g \in Z.dirs /\ (g = Root \/ g[1] \in s.dirty)
        /\ \E i \in Word : i < FileIn(Mem(s), g).size \div BY2BLK /\ Leads(Mem(s), g, i, f[1])
    BY <1>0, <1>3, <1>5 DEF OpenOk
  <2>2. PICK i \in Word : i < FileIn(Mem(s), g).size \div BY2BLK /\ Leads(Mem(s), g, i, f[1])
    BY <2>1
  <2>3. g \in Locs(Z) /\ g # NoLoc /\ f[1] \in Real
    BY <2>1, TreeFacts
  <2>4. s.cache[g[1]] # Unmapped
    BY <2>1, MemFacts DEF Root
  <2>5. File(s, g) = FileIn(Mem(s), g) /\ File(s, g).size \in Nat
    BY <2>3, <2>4, RootKeeps
  <2>6. i < File(s, g).size \div BY2BLK + 1
    <3>1. FileIn(Mem(s), g).size \div BY2BLK \in Nat
      BY <2>5, DivNat
    <3>2. i < FileIn(Mem(s), g).size \div BY2BLK + 1
      BY <2>2, <3>1, Sizes DEF Word
    <3> QED BY <2>5, <3>2
  <2> DEFINE e == file_flush(s, g)
  <2>7. /\ Wrote(s, e, Z, O, F)
        /\ \A b \in Real, j \in Word :
              j < File(s, g).size \div BY2BLK + 1 /\ b \in s.dirty /\ Leads(Mem(s), g, j, b) => Saved(e, b)
    BY <2>3, <2>4, FlushGood
  <2>8. FlushDir(s, f) = e
    BY <1>1, <2>3
  <2> HIDE DEF e
  <2>9. Saved(e, f[1])
    BY <2>1, <2>2, <2>3, <2>6, <2>7
  <2> QED BY <2>7, <2>8, <2>9
<1> QED BY <1>4, <1>5

(* The File that was cut is on the disk. *)
LEMMA CutDone ==
    ASSUME NEW Z, TreeOk(Z), NEW O, NEW f \in Locs(Z), NEW s, Good(s, Z, O, {f}),
           s.cache[f[1]] # Unmapped, Saved(s, f[1])
    PROVE  Good(s, Z, O, {})
<1>1. f[1] \in Bno /\ Mem(s)[f[1]] = s.cache[f[1]]
  BY TreeFacts, MemFacts
<1>2. ASSUME s.panic = NoPanic, Rel(V(s), Mem(s), {f}, Z) PROVE Rel(V(s), Mem(s), {}, Z)
  <2>1. FileIn(V(s), f) = FileIn(Mem(s), f)
    BY <1>1, <1>2 DEF Saved, FileIn
  <2>2. ASSUME NEW x \in FilePlaces(Z), x[2] = f PROVE At(V(s), x) = At(Mem(s), x)
    <3>1. x[1] = 1
      BY DEF FilePlaces
    <3> QED BY <2>1, <2>2, <3>1 DEF At
  <2> QED BY <1>2, <2>2 DEF Rel
<1> QED BY <1>2 DEF Good, Core

(* What set_size, close and remove leave behind. *)
Answered(t, Z, O, f) ==
    Good(t, Z, O, {}) /\ f \in Locs(Z) /\ t.cache[f[1]] # Unmapped /\ (f # Root => Saved(t, f[1]))

(* The result of a request does not matter for that.                       *)
LEMMA AnsweredRet ==
    ASSUME NEW Z, NEW O, NEW f, NEW s, Answered(s, Z, O, f), NEW t, Good(t, Z, O, {}),
           V(t) = V(s), t.cache = s.cache, t.panic = s.panic
    PROVE  Answered(t, Z, O, f)
  BY DEF Answered, Saved

(* When the directory was flushed, the file that was cut is no longer      *)
(* apart.                                                                  *)
LEMMA FlushedDir ==
    ASSUME NEW Z, TreeOk(Z), NEW O, NEW f \in O, NEW s, Good(s, Z, O, {f}), f # Root
    PROVE  Answered(FlushDir(s, f), Z, O, f)
<1> DEFINE e == FlushDir(s, f)
<1>1. Wrote(s, e, Z, O, {f}) /\ Saved(e, f[1])
  BY FlushDirGood
<1> HIDE DEF e
<1>2. Good(e, Z, O, {f})
  BY <1>1 DEF Wrote
<1>3. f \in Locs(Z) /\ e.cache[f[1]] # Unmapped
  BY <1>2, OpenFacts
<1>4. Good(e, Z, O, {})
  BY <1>1, <1>2, <1>3, CutDone
<1>5. Answered(e, Z, O, f)
  BY <1>1, <1>3, <1>4 DEF Answered
<1> QED BY <1>5 DEF e

(* file_set_size of a regular file.                                        *)
LEMMA SetSizeAnswered ==
    ASSUME NEW Z, TreeOk(Z), NEW O, NEW f \in O, NEW s, Good(s, Z, O, {}), f \notin Z.dirs,
           NEW newsize \in Nat
    PROVE  Answered(file_set_size(s, f, newsize), Z, O, f)
<1> DEFINE t == IF File(s, f).size > newsize THEN file_truncate(s, f, newsize) ELSE s
           u == SetSize(t, f, newsize)
           e == FlushDir(u, f)
           x == file_set_size(s, f, newsize)
<1> PICK o \in Int : o = 0
  OBVIOUS
<1>1. x = Ret(e, o)
  BY DEF file_set_size
<1>2. f \in Locs(Z) /\ s.cache[f[1]] # Unmapped /\ f # Root /\ Good(s, Z, O, {f}) /\ f[1] \in Bno
  BY OpenFacts, TreeFacts, WiderGood
<1>3. Works(s, t, Z, O, {f})
  <2>1. Works(s, s, Z, O, {f})
    BY <1>2, FrameSame DEF Works
  <2>2. Works(s, file_truncate(s, f, newsize), Z, O, {f})
    BY <1>2, TruncGood
  <2> QED BY <2>1, <2>2
<1> HIDE DEF t
<1>4. Good(t, Z, O, {f}) /\ t.cache[f[1]] # Unmapped
  BY <1>2, <1>3 DEF Works, Frame
<1>5. Good(u, Z, O, {f})
  BY <1>2, <1>4, SetSizeGood
<1> HIDE DEF u
<1>6. Answered(e, Z, O, f)
  BY <1>2, <1>5, FlushedDir
<1> HIDE DEF e, x
<1>7. Good(x, Z, O, {}) /\ V(x) = V(e) /\ x.cache = e.cache /\ x.panic = e.panic
  BY <1>1, <1>6, RetGood DEF Answered
<1>8. Answered(x, Z, O, f)
  BY <1>6, <1>7, AnsweredRet
<1> QED BY <1>8 DEF x

(* file_close.                                                             *)
LEMMA CloseAnswered ==
    ASSUME NEW Z, TreeOk(Z), NEW O, NEW f \in O, NEW s, Good(s, Z, O, {})
    PROVE  Answered(file_close(s, f), Z, O, f)
<1> DEFINE t == file_flush(s, f)
           e == FlushDir(t, f)
<1>1. file_close(s, f) = e
  BY DEF file_close
<1>2. f \in Locs(Z) /\ s.cache[f[1]] # Unmapped
  BY OpenFacts
<1>3. Wrote(s, t, Z, O, {})
  BY <1>2, FlushGood
<1> HIDE DEF t
<1>4. Good(t, Z, O, {})
  BY <1>3 DEF Wrote
<1>5. Wrote(t, e, Z, O, {}) /\ (f # Root => Saved(e, f[1]))
  BY <1>4, FlushDirGood
<1> HIDE DEF e
<1>6. Good(e, Z, O, {})
  BY <1>5 DEF Wrote
<1>7. Answered(e, Z, O, f)
  BY <1>2, <1>5, <1>6, OpenFacts DEF Answered
<1> QED BY <1>1, <1>7

(* What file_remove does with the file it found.                           *)
LEMMA RemoveAnswered ==
    ASSUME NEW Z, TreeOk(Z), NEW O, NEW f \in O, NEW s, Good(s, Z, O, {}), f \notin Z.dirs,
           NEW newsize \in Nat
    PROVE  Answered(RetOut(FlushDir(file_flush(SetName(file_truncate(s, f, newsize), f, NoName), f), f), f), Z, O, f)
<1> DEFINE t == file_truncate(s, f, newsize)
           u == SetName(t, f, NoName)
           w == file_flush(u, f)
           e == FlushDir(w, f)
           x == RetOut(e, f)
<1> SUFFICES Answered(x, Z, O, f)
  OBVIOUS
<1>2. f \in Locs(Z) /\ s.cache[f[1]] # Unmapped /\ f # Root /\ Good(s, Z, O, {f}) /\ f[1] \in Bno /\ f \in Out
  BY OpenFacts, TreeFacts, WiderGood, NatOut
<1>3. Works(s, t, Z, O, {f})
  BY <1>2, TruncGood
<1> HIDE DEF t
<1>4. Good(t, Z, O, {f}) /\ t.cache[f[1]] # Unmapped /\ NoName \in Name
  BY <1>2, <1>3 DEF Works, Frame, Name
<1>5. Good(u, Z, O, {f}) /\ Frame(t, u, Z)
  <2> HIDE DEF u
  <2> QED BY <1>2, <1>4, SetNameGood DEF u
<1> HIDE DEF u
<1>6. u.cache[f[1]] # Unmapped
  BY <1>2, <1>4, <1>5 DEF Frame
<1>7. Wrote(u, w, Z, O, {f})
  BY <1>2, <1>5, <1>6, FlushGood
<1> HIDE DEF w
<1>8. Good(w, Z, O, {f})
  BY <1>7 DEF Wrote
<1>9. Answered(e, Z, O, f)
  BY <1>2, <1>8, FlushedDir
<1>10. x = RetOut(e, f)
  OBVIOUS
<1> HIDE DEF e, x
<1>11. Good(x, Z, O, {}) /\ V(x) = V(e) /\ x.cache = e.cache /\ x.panic = e.panic
  BY <1>2, <1>9, <1>10, RetOutGood DEF Answered
<1> QED BY <1>9, <1>11, AnsweredRet

(* The loop of fs_sync.                                                    *)
SyncPass(t, b) == IF block_is_dirty(t, b) THEN write_block(t, b) ELSE t
SyncLoop(s, lo, hi) == LET Sync(t, b) == SyncPass(t, b) IN For(Sync, s, lo, hi)

(* What every pass keeps, the loop does.                                   *)
LEMMA SyncLoopIn ==
    ASSUME NEW s, NEW lo \in Nat, NEW hi \in Nat, NEW n, n = Count(lo, hi), NEW S, s \in S[0],
           \A k \in 1..n : \A t \in S[k - 1] : SyncPass(t, lo + k - 1) \in S[k]
    PROVE  SyncLoop(s, lo, hi) \in S[n]
<1> DEFINE Body(t, i) == SyncPass(t, i)
           step == [x \in All(S, n) \X (1..n) |-> Body(x[1], lo + x[2] - 1)]
           Runs(g) == g = [k \in 0..n |-> IF k = 0 THEN s ELSE Body(g[k - 1], lo + k - 1)]
<1>0. n \in Nat
  BY DEF Count
<1>1. SyncLoop(s, lo, hi) = (CHOOSE g : Runs(g))[n]
  BY DEF SyncLoop, For, Count
<1>2. \A k \in 1..n : \A t \in S[k - 1] : Body(t, lo + k - 1) \in S[k]
  OBVIOUS
<1> HIDE DEF Body
<1>3. ASSUME NEW k \in 1..n, NEW t \in S[k - 1] PROVE step[<<t, k>>] = Body(t, lo + k - 1)
  BY <1>0 DEF All
<1> HIDE DEF step
<1>4. Passes(S, n, step)
  BY <1>2, <1>3 DEF Passes
<1>5. PICK g : IsRunK(g, S, n, step, s)
  BY <1>0, <1>4, LoopK
<1>6. Runs(g)
  <2>1. \A k \in 0..n : g[k] = IF k = 0 THEN s ELSE Body(g[k - 1], lo + k - 1)
    <3>1. g[0] = s /\ \A k \in 0..n : k = 0 \/ (k \in 1..n /\ k - 1 \in 0..n)
      BY <1>0, <1>5 DEF IsRunK
    <3>2. ASSUME NEW k \in 1..n PROVE g[k] = Body(g[k - 1], lo + k - 1)
      <4>0. k - 1 \in 0..n
        BY <1>0
      <4>1. g[k - 1] \in S[k - 1] /\ g[k] = step[<<g[k - 1], k>>]
        BY <1>5, <4>0 DEF IsRunK
      <4> QED BY <1>3, <4>1
    <3> QED BY <3>1, <3>2
  <2>2. g = [k \in 0..n |-> g[k]]
    BY <1>5 DEF IsRunK
  <2> QED BY <2>1, <2>2
<1> DEFINE at == CHOOSE h : Runs(h)
<1>7. Runs(at)
  <2> HIDE DEF Runs
  <2> QED BY <1>6
<1> HIDE DEF at
<1> DEFINE T == {k \in 0..n : at[k] \in S[k]}
<1>8. \A k \in 0..n : k \in T
  <2>1. 0 \in T
    BY <1>0, <1>7
  <2>2. \A k \in 1..n : k - 1 \in T => k \in T
    BY <1>0, <1>2, <1>7
  <2> HIDE DEF T
  <2> QED BY <1>0, <2>1, <2>2, CountUp
<1> QED BY <1>0, <1>1, <1>8 DEF at

(* fs_sync: blocks are written in the order of their numbers, the bitmap   *)
(* among the first, and every disk on the way is right, since no file is   *)
(* being cut.                                                              *)
LEMMA SyncGood ==
    ASSUME NEW Z, TreeOk(Z), NEW O, NEW s, Good(s, Z, O, {})
    PROVE  Good(fs_sync(s), Z, O, {})
<1> DEFINE hi == NBLOCK
           lo == 0
           n == Count(lo, hi)
           B == {t \in St : Wrote(s, t, Z, O, {})}
           S == [k \in 0..n |-> B]
           e == SyncLoop(s, lo, hi)
<1>1. hi \in Nat /\ lo \in Nat
  BY Sizes
<1>2. n = hi /\ n \in Nat
  BY <1>1 DEF Count
<1>3. fs_sync(s) = e
  BY DEF fs_sync, SyncLoop, SyncPass
<1>30. n = Count(lo, hi) /\ \A k \in 1..n : lo + k - 1 \in Bno
  BY <1>2, Sizes DEF Bno
<1> HIDE DEF e, hi, lo, n
<1>4. s \in S[0]
  BY <1>2, WroteSame DEF Good
<1>5. ASSUME NEW k \in 1..n, NEW t \in S[k - 1] PROVE SyncPass(t, lo + k - 1) \in S[k]
  <2>1. k - 1 \in 0..n /\ k \in 0..n
    BY <1>2
  <2>2. t \in St /\ Wrote(s, t, Z, O, {}) /\ Good(t, Z, O, {})
    BY <1>5, <2>1 DEF Wrote
  <2> DEFINE b == lo + k - 1
             u == SyncPass(t, b)
  <2>3. b \in Bno
    BY <1>30
  <2>4. Wrote(t, u, Z, O, {})
    <3> HIDE DEF b
    <3>1. CASE block_is_dirty(t, b)
      <4>1. t.cache[b] # Unmapped /\ u = write_block(t, b)
        BY <3>1 DEF block_is_dirty, block_is_mapped, SyncPass
      <4>2. Wrote(t, write_block(t, b), Z, O, {})
        BY <2>2, <2>3, <4>1, WriteWrote
      <4> QED BY <4>1, <4>2
    <3>2. CASE ~block_is_dirty(t, b)
      BY <2>2, <3>2, WroteSame DEF SyncPass
    <3> QED BY <3>1, <3>2
  <2> HIDE DEF u
  <2>5. Wrote(s, u, Z, O, {}) /\ u \in St
    BY <2>2, <2>4, WroteTrans DEF Wrote, Good
  <2>6. u \in S[k]
    BY <2>1, <2>5
  <2> QED BY <2>6 DEF u, b
<1> HIDE DEF S
<1>6. e \in S[n]
  BY <1>1, <1>30, <1>4, <1>5, SyncLoopIn DEF e
<1>7. Wrote(s, e, Z, O, {})
  BY <1>2, <1>6 DEF S
<1> QED BY <1>3, <1>7 DEF Wrote

(* file_dirty of an open file.                                             *)
LEMMA DirtyGood ==
    ASSUME NEW Z, TreeOk(Z), NEW O, NEW s, Good(s, Z, O, {}), NEW f \in O, NEW offset \in Nat
    PROVE  Good(file_dirty(s, f, offset), Z, O, {})
<1> DEFINE i == offset \div BY2BLK
           t == file_map_block(s, f, i, FALSE)
           c == IF block_is_mapped(t, t.out) THEN 0 ELSE E_NOT_FOUND
<1>1. file_dirty(s, f, offset) = IF t.r < 0 THEN t ELSE Ret(t, c)
  BY DEF file_dirty, dirty_block, Try
<1>2. f \in Locs(Z) /\ s.cache[f[1]] # Unmapped
  BY OpenFacts
<1>3. i \in Nat
  BY DivNat
<1> HIDE DEF i
<1>4. Reads(s, t, Z, O, {})
  BY <1>2, <1>3, MapFalse
<1>5. c \in Int
  BY Codes
<1> HIDE DEF t, c
<1>6. Good(t, Z, O, {})
  BY <1>4 DEF Reads
<1>7. Good(Ret(t, c), Z, O, {})
  BY <1>5, <1>6, RetGood
<1> QED BY <1>1, <1>6, <1>7

-----------------------------------------------------------------------------
(* Lookups. *)

(* File f is in block i of directory g, before its end. *)
Hit(t, Z, g, f) ==
    /\ f \in Locs(Z) /\ f # Root /\ t.cache[f[1]] # Unmapped
    /\ \E i \in Word : i < FileIn(Mem(t), g).size \div BY2BLK /\ Leads(Mem(t), g, i, f[1])

(* The names in paths.                                                     *)
Proper == STRING \ {NoName, "junk"}

(* Only a block of entries has an entry with a proper name. *)
LEMMA EntryIn ==
    ASSUME NEW Z, TreeOk(Z), NEW O, NEW F, NEW s, Good(s, Z, O, F),
           NEW b \in Bno, b > 2, s.cache[b] # Unmapped, NEW name \in Proper,
           NEW j \in Entries(s, b, name)
    PROVE  b \in Z.d /\ j \in Slot /\ <<b, j>> \in Locs(Z) /\ <<b, j>> # Root
<1>1. j \in Slot /\ Files(s.cache[b])[j].name = name
  BY DEF Entries
<1>2. Shape(Mem(s), Z) /\ Mem(s)[b] = s.cache[b]
  BY MemFacts
<1>3. b \in Z.d
  <2> SUFFICES ASSUME b \notin Z.d PROVE FALSE
    OBVIOUS
  <2>1. s.cache[b] \in OtherBlk
    BY <1>2, ShapeFacts
  <2>2. ~(s.cache[b].kind \in {"super", "files"})
    BY <2>1, Kinds
  <2>3. Files(s.cache[b])[j] = IF s.cache[b] = Zero THEN NoFile ELSE [NoFile EXCEPT !.name = "junk"]
    BY <1>1, <2>2 DEF Files
  <2>4. NoFile.name = NoName /\ [NoFile EXCEPT !.name = "junk"].name = "junk"
    BY DEF NoFile
  <2> QED BY <1>1, <2>3, <2>4 DEF Proper
<1>4. <<b, j>> \in Locs(Z) /\ <<b, j>> # Root
  BY <1>1, <1>3, TreeFacts DEF Root
<1> QED BY <1>1, <1>3, <1>4

(* A pass of dir_lookup over the entries of a block.                       *)
LookIn(u, name) ==
    IF u.r < 0 THEN u
    ELSE IF Entries(u, u.out, name) = {} THEN Ret(u, GoOn)
    ELSE RetOut(u, <<u.out, Min(Entries(u, u.out, name))>>)

(* What a pass over block i of directory g comes back with. *)
Looking(t, Z, g) == t.r = GoOn \/ t.r < 0 \/ (t.r = 0 /\ Hit(t, Z, g, t.out))

(* It reads, and what it finds is an entry of the directory.               *)
LEMMA LookGood ==
    ASSUME NEW Z, TreeOk(Z), NEW O, NEW F, NEW u, Good(u, Z, O, F), NEW g, NEW i \in Nat, Got(u, Z, g, i),
           i < FileIn(Mem(u), g).size \div BY2BLK, NEW name \in Proper
    PROVE  Reads(u, LookIn(u, name), Z, O, F) /\ Looking(LookIn(u, name), Z, g)
<1> DEFINE t == LookIn(u, name)
           b == u.out
           N == Entries(u, b, name)
           f == <<b, Min(N)>>
<1>1. t = IF u.r < 0 THEN u ELSE IF N = {} THEN Ret(u, GoOn) ELSE RetOut(u, f)
  BY DEF LookIn
<1> SUFFICES Reads(u, t, Z, O, F) /\ Looking(t, Z, g)
  OBVIOUS
<1> HIDE DEF t
<1>2. CASE u.r < 0
  <2>1. Reads(u, u, Z, O, F) /\ Looking(u, Z, g) /\ t = u
    BY <1>1, <1>2, SameReads DEF Looking
  <2> QED BY <2>1
<1>3. CASE ~(u.r < 0) /\ N = {}
  <2>1. t = Ret(u, GoOn) /\ GoOn \in Int
    BY <1>1, <1>3, Codes
  <2>2. Reads(u, t, Z, O, F) /\ t.r = GoOn
    BY <2>1, RetReads
  <2> QED BY <2>2 DEF Looking
<1>4. CASE ~(u.r < 0) /\ N # {}
  <2>1. /\ b \in Bno /\ b > 2 /\ u.cache[b] # Unmapped
        /\ b \in Z.d => i \in Word /\ Leads(Mem(u), g, i, b)
    BY <1>4 DEF Got
  <2>2. Min(N) \in N
    <3>1. N \subseteq Nat
      BY Sizes DEF Entries, Slot
    <3> HIDE DEF N
    <3> QED BY <1>4, <3>1, HasMin
  <2> DEFINE j == Min(N)
  <2>3. j \in Entries(u, b, name)
    BY <2>2
  <2>4. t = RetOut(u, f)
    BY <1>1, <1>4
  <2>5. f = <<b, j>>
    OBVIOUS
  <2> HIDE DEF b, j, N, f
  <2>6. b \in Z.d /\ j \in Slot /\ <<b, j>> \in Locs(Z) /\ <<b, j>> # Root
    BY <2>1, <2>3, EntryIn
  <2>7. f \in Locs(Z) /\ f # Root /\ f[1] = b
    BY <2>5, <2>6
  <2>8. f \in Out
    BY <2>7, TreeFacts, NatOut
  <2>9. /\ Reads(u, t, Z, O, F) /\ t.r = 0 /\ t.out = f /\ Mem(t) = Mem(u) /\ t.cache = u.cache
    BY <2>4, <2>8, RetOutReads
  <2>10. Hit(t, Z, g, f)
    BY <2>1, <2>6, <2>7, <2>9 DEF Hit
  <2> QED BY <2>9, <2>10 DEF Looking
<1> QED BY <1>2, <1>3, <1>4

(* The last RetOut counts.                                                 *)
LEMMA RetOutTwice ==
    ASSUME NEW u, NEW x, NEW y
    PROVE  RetOut(RetOut(u, x), y) = RetOut(u, y)
  BY DEF RetOut

(* The fields of a state of the server.                                    *)
LEMMA StDomain ==
    ASSUME NEW w \in St
    PROVE  DOMAIN w = {"cache", "dirty", "wq", "super", "bitmap", "panic", "r", "out"}
  BY DEF St

(* What RetOut left unchanged.                                             *)
LEMMA RetOutBack ==
    ASSUME NEW u, NEW x, RetOut(u, x) \in St
    PROVE  RetOut(u, x).out = x /\ RetOut(u, x).cache = u.cache /\ RetOut(u, x).r = 0
<1> DEFINE w == RetOut(u, x)
<1>1. DOMAIN w = DOMAIN u
  BY DEF RetOut
<1>2. DOMAIN w = {"cache", "dirty", "wq", "super", "bitmap", "panic", "r", "out"}
  BY StDomain
<1>3. "out" \in DOMAIN u /\ "cache" \in DOMAIN u /\ "r" \in DOMAIN u
  BY <1>1, <1>2
<1> QED BY <1>3 DEF RetOut

(* What Ret returns.                                                       *)
LEMMA RetBack ==
    ASSUME NEW u, NEW x, Ret(u, x) \in St
    PROVE  Ret(u, x).r = x
<1> DEFINE w == Ret(u, x)
<1>1. DOMAIN w = DOMAIN u
  BY DEF Ret
<1>2. DOMAIN w = {"cache", "dirty", "wq", "super", "bitmap", "panic", "r", "out"}
  BY StDomain
<1>3. "r" \in DOMAIN u
  BY <1>1, <1>2
<1> QED BY <1>3 DEF Ret

(* The number in the place that file_block_walk finds. *)
Loaded(w) == IF w.r < 0 THEN w ELSE RetOut(w, Load(w, w.out))

(* The word in a place of an indirect block.                               *)
LEMMA LoadedWord ==
    ASSUME NEW u, NEW q, NEW i, (IF u.r < 0 THEN u ELSE RetOut(u, WordAt(q, i))) \in St
    PROVE  (IF u.r < 0 THEN u ELSE RetOut(u, Words(u.cache[q])[i])) = Loaded(IF u.r < 0 THEN u ELSE RetOut(u, WordAt(q, i)))
<1>1. CASE u.r < 0
  BY <1>1 DEF Loaded
<1>2. CASE ~(u.r < 0)
  <2> DEFINE w == RetOut(u, WordAt(q, i))
  <2>1. w.out = WordAt(q, i) /\ w.cache = u.cache /\ ~(w.r < 0)
    BY <1>2, RetOutBack
  <2>2. \A y : RetOut(w, y) = RetOut(u, y)
    BY RetOutTwice
  <2> HIDE DEF w
  <2>3. Load(w, w.out) = Words(u.cache[q])[i]
    BY <2>1 DEF Load, WordAt
  <2>4. Loaded(w) = RetOut(u, Words(u.cache[q])[i])
    BY <2>1, <2>2, <2>3 DEF Loaded
  <2> QED BY <1>2, <2>4 DEF w
<1> QED BY <1>1, <1>2

(* The number that the replacements of fs/serv.h look for is the one in    *)
(* the place that file_block_walk finds.                                   *)
LEMMA DiskIs ==
    ASSUME NEW s, NEW f, NEW i \in Nat, NEW alloc \in BOOLEAN, file_block_walk(s, f, i, alloc) \in St
    PROVE  Diskbno(s, f, i, alloc) = Loaded(file_block_walk(s, f, i, alloc))
<1> DEFINE w == file_block_walk(s, f, i, alloc)
           d == Diskbno(s, f, i, alloc)
<1>1. CASE i < NDIRECT
  <2>1. w = RetOut(s, DirectAt(f, i)) /\ d = RetOut(s, File(s, f).direct[i])
    BY <1>1 DEF file_block_walk, Diskbno
  <2>2. RetOut(s, DirectAt(f, i)) \in St
    BY <2>1
  <2> DEFINE v == RetOut(s, DirectAt(f, i))
  <2>3. v.out = DirectAt(f, i) /\ v.cache = s.cache /\ ~(v.r < 0)
    BY <2>2, RetOutBack
  <2>4. \A y : RetOut(v, y) = RetOut(s, y)
    BY RetOutTwice
  <2> HIDE DEF v
  <2>5. Load(v, v.out) = File(s, f).direct[i]
    BY <2>3 DEF Load, DirectAt, File
  <2>6. Loaded(v) = RetOut(s, File(s, f).direct[i])
    BY <2>3, <2>4, <2>5 DEF Loaded
  <2> QED BY <2>1, <2>6 DEF v
<1>2. CASE ~(i < NDIRECT) /\ i >= NINDIRECT
  <2>1. w = Ret(s, E_INVAL) /\ d = Ret(s, E_INVAL)
    BY <1>2 DEF file_block_walk, Diskbno
  <2>2. Ret(s, E_INVAL).r = E_INVAL
    BY <2>1, RetBack
  <2>3. Loaded(Ret(s, E_INVAL)) = Ret(s, E_INVAL)
    BY <2>2, Codes DEF Loaded
  <2> QED BY <2>1, <2>3
<1>3. CASE ~(i < NDIRECT) /\ ~(i >= NINDIRECT) /\ File(s, f).indirect # 0
  <2> DEFINE q == File(s, f).indirect
             u == read_block(s, q)
  <2>1. /\ w = IF u.r < 0 THEN u ELSE RetOut(u, WordAt(q, i))
        /\ d = IF u.r < 0 THEN u ELSE RetOut(u, Words(u.cache[q])[i])
    BY <1>3 DEF file_block_walk, Diskbno, Try
  <2>2. (IF u.r < 0 THEN u ELSE RetOut(u, WordAt(q, i))) \in St
    BY <2>1
  <2> HIDE DEF u, q
  <2>3. (IF u.r < 0 THEN u ELSE RetOut(u, Words(u.cache[q])[i])) = Loaded(IF u.r < 0 THEN u ELSE RetOut(u, WordAt(q, i)))
    BY <2>2, LoadedWord
  <2> HIDE DEF w, d
  <2>4. d = Loaded(w)
    BY <2>1, <2>3
  <2> QED BY <2>4 DEF d, w
<1>4. CASE ~(i < NDIRECT) /\ ~(i >= NINDIRECT) /\ File(s, f).indirect = 0 /\ ~alloc
  <2>1. w = Ret(s, E_NOT_FOUND) /\ d = Ret(s, E_NOT_FOUND)
    BY <1>4 DEF file_block_walk, Diskbno
  <2>2. Ret(s, E_NOT_FOUND).r = E_NOT_FOUND
    BY <2>1, RetBack
  <2>3. Loaded(Ret(s, E_NOT_FOUND)) = Ret(s, E_NOT_FOUND)
    BY <2>2, Codes DEF Loaded
  <2> QED BY <2>1, <2>3
<1>5. CASE ~(i < NDIRECT) /\ ~(i >= NINDIRECT) /\ File(s, f).indirect = 0 /\ alloc
  <2> DEFINE a == alloc_block(s)
             q == a.r
             u == read_block(SetIndirect(a, f, q), q)
  <2>1. /\ w = IF a.r < 0 THEN a ELSE IF u.r < 0 THEN u ELSE RetOut(u, WordAt(q, i))
        /\ d = IF a.r < 0 THEN a ELSE IF u.r < 0 THEN u ELSE RetOut(u, Words(u.cache[q])[i])
    BY <1>5 DEF file_block_walk, Diskbno, Try
  <2> HIDE DEF a
  <2>2. CASE a.r < 0
    BY <2>1, <2>2 DEF Loaded
  <2>3. CASE ~(a.r < 0)
    <3>1. (IF u.r < 0 THEN u ELSE RetOut(u, WordAt(q, i))) \in St
      BY <2>1, <2>3
    <3> HIDE DEF u, q
    <3>3. (IF u.r < 0 THEN u ELSE RetOut(u, Words(u.cache[q])[i])) = Loaded(IF u.r < 0 THEN u ELSE RetOut(u, WordAt(q, i)))
      BY <3>1, LoadedWord
    <3> HIDE DEF w, d
    <3>4. d = Loaded(w)
      BY <2>1, <2>3, <3>3
    <3> QED BY <3>4 DEF d, w
  <2> QED BY <2>2, <2>3
<1> QED BY <1>1, <1>2, <1>3, <1>4, <1>5

(* What Diskbno comes back with: a number, 0 if the block is not there. *)
Number(t, Z, f, i) ==
    \/ t.r < 0
    \/ /\ t.r = 0 /\ t.out \in Nat
       /\ t.out # 0 => t.out \notin Free(t)
       /\ t.out # 0 /\ t.out \in Bno => t.out > 2
       /\ t.out \in Z.d => i \in Word /\ Leads(Mem(t), f, i, t.out)

(* That number is not one of a free block.                                 *)
LEMMA LoadedGood ==
    ASSUME NEW Z, TreeOk(Z), NEW O, NEW F, NEW w, Good(w, Z, O, F),
           NEW f \in Locs(Z), w.cache[f[1]] # Unmapped, NEW i \in Nat, WalkedTo(w, f, i)
    PROVE  Reads(w, Loaded(w), Z, O, F) /\ Number(Loaded(w), Z, f, i)
<1>1. CASE w.r < 0
  <2>1. Loaded(w) = w
    BY <1>1 DEF Loaded
  <2>2. Reads(w, w, Z, O, F) /\ Number(w, Z, f, i)
    BY <1>1, SameReads DEF Number
  <2> QED BY <2>1, <2>2
<1>2. CASE ~(w.r < 0)
  <2> DEFINE p == w.out
             v == Load(w, p)
             t == Loaded(w)
  <2>1. PlaceIn(w, f, i, p)
    BY <1>2 DEF WalkedTo
  <2>2. /\ v \in Nat /\ i \in Word
        /\ v # 0 => v \notin Free(w)
        /\ v # 0 /\ v \in Bno => v > 2 /\ v \in Real /\ Leads(Mem(w), f, i, v)
    BY <2>1, LoadFacts
  <2>3. t = RetOut(w, v) /\ v \in Out
    BY <1>2, <2>2, NatOut DEF Loaded
  <2> HIDE DEF v, t
  <2>4. Reads(w, t, Z, O, F) /\ t.r = 0 /\ t.out = v /\ Mem(t) = Mem(w) /\ t.cache = w.cache
    BY <2>3, RetOutReads
  <2>5. Free(t) = Free(w)
    BY <2>4 DEF Free
  <2>6. v \in Z.d => v # 0 /\ v \in Bno
    BY TreeFacts
  <2>7. Number(t, Z, f, i)
    BY <2>2, <2>4, <2>5, <2>6 DEF Number
  <2> QED BY <2>4, <2>7 DEF t
<1> QED BY <1>1, <1>2

(* Looking for it without allocation reads.                                *)
LEMMA NumberFalse ==
    ASSUME NEW Z, TreeOk(Z), NEW O, NEW F, NEW s, Good(s, Z, O, F),
           NEW f \in Locs(Z), s.cache[f[1]] # Unmapped, NEW i \in Nat
    PROVE  Reads(s, Diskbno(s, f, i, FALSE), Z, O, F) /\ Number(Diskbno(s, f, i, FALSE), Z, f, i)
<1> DEFINE w == file_block_walk(s, f, i, FALSE)
<1>1. Reads(s, w, Z, O, F) /\ Walked(s, w, f, i)
  BY WalkFalse
<1>2. w \in St
  BY <1>1 DEF Reads, Good
<1>3. Diskbno(s, f, i, FALSE) = Loaded(w)
  BY <1>2, DiskIs
<1> HIDE DEF w
<1>4. Good(w, Z, O, F) /\ w.cache[f[1]] # Unmapped /\ WalkedTo(w, f, i)
  BY <1>1, TreeFacts DEF Reads, Calm, Walked, WalkedTo
<1>5. Reads(w, Loaded(w), Z, O, F) /\ Number(Loaded(w), Z, f, i)
  BY <1>4, LoadedGood
<1> DEFINE t == Loaded(w)
<1> HIDE DEF t
<1>6. Reads(s, t, Z, O, F)
  BY <1>1, <1>5, ReadsTrans DEF t
<1> QED BY <1>3, <1>5, <1>6 DEF t

(* Looking for it with allocation works.                                   *)
LEMMA NumberTrue ==
    ASSUME NEW Z, TreeOk(Z), NEW O, NEW s, Good(s, Z, O, {}),
           NEW f \in Locs(Z), s.cache[f[1]] # Unmapped, NEW i \in Nat
    PROVE  Works(s, Diskbno(s, f, i, TRUE), Z, O, {}) /\ Number(Diskbno(s, f, i, TRUE), Z, f, i)
<1> DEFINE w == file_block_walk(s, f, i, TRUE)
<1>1. Works(s, w, Z, O, {}) /\ WalkedTo(w, f, i)
  BY WalkTrue
<1>2. w \in St
  BY <1>1 DEF Works, Good
<1>3. Diskbno(s, f, i, TRUE) = Loaded(w)
  BY <1>2, DiskIs
<1> HIDE DEF w
<1>4. Good(w, Z, O, {}) /\ w.cache[f[1]] # Unmapped
  BY <1>1, TreeFacts DEF Works, Frame
<1>5. Reads(w, Loaded(w), Z, O, {}) /\ Number(Loaded(w), Z, f, i)
  BY <1>1, <1>4, LoadedGood
<1> DEFINE t == Loaded(w)
<1> HIDE DEF t
<1>6. Works(s, t, Z, O, {})
  BY <1>1, <1>5, ReadsWorks, WorksTrans DEF t
<1> QED BY <1>3, <1>5, <1>6 DEF t

(* The replacement of file_get_block works: it never reads a free block.   *)
LEMMA NewBlock ==
    ASSUME NEW Z, TreeOk(Z), NEW O, NEW s, Good(s, Z, O, {}),
           NEW f \in Locs(Z), s.cache[f[1]] # Unmapped, NEW i \in Nat
    PROVE  Works(s, BlockOrNew(s, f, i), Z, O, {}) /\ Got(BlockOrNew(s, f, i), Z, f, i)
<1> DEFINE d == Diskbno(s, f, i, TRUE)
           u == read_block(d, d.out)
           a == alloc_block(d)
           w == read_block(a, a.r)
           t == BlockOrNew(s, f, i)
<1>1. t = IF d.r < 0 THEN d ELSE IF d.out # 0 THEN u ELSE IF a.r < 0 THEN a ELSE w
  BY DEF BlockOrNew, Try
<1>2. Works(s, d, Z, O, {}) /\ Number(d, Z, f, i)
  BY NumberTrue
<1> SUFFICES Works(s, t, Z, O, {}) /\ Got(t, Z, f, i)
  OBVIOUS
<1> HIDE DEF d, t
<1>3. Good(d, Z, O, {})
  BY <1>2 DEF Works
<1>4. CASE d.r < 0
  <2>1. t = d /\ Got(d, Z, f, i)
    BY <1>1, <1>4 DEF Got
  <2> QED BY <1>2, <2>1
<1>5. CASE ~(d.r < 0) /\ d.out # 0
  <2>1. Mapped(d, Z, f, i) /\ d.r = 0 /\ t = u
    BY <1>1, <1>2, <1>5 DEF Number, Mapped
  <2>2. Reads(d, u, Z, O, {}) /\ Got(u, Z, f, i)
    BY <1>3, <2>1, GetGood
  <2> HIDE DEF u
  <2>3. Works(s, u, Z, O, {})
    BY <1>2, <2>2, ReadsWorks, WorksTrans
  <2> QED BY <2>1, <2>2, <2>3
<1>6. CASE ~(d.r < 0) /\ d.out = 0
  <2>1. Works(d, a, Z, O, {}) /\ Alloced(d, a, Z)
    BY <1>3, AllocWorks
  <2> HIDE DEF a
  <2>2. Works(s, a, Z, O, {}) /\ Good(a, Z, O, {})
    BY <1>2, <2>1, WorksTrans DEF Works
  <2>3. CASE a.r < 0
    <3>1. t = a /\ Got(a, Z, f, i)
      BY <1>1, <1>6, <2>3 DEF Got
    <3> QED BY <2>2, <3>1
  <2>4. CASE ~(a.r < 0)
    <3>1. t = w
      BY <1>1, <1>6, <2>4
    <3> DEFINE b == a.r
    <3>2. b \in Nat /\ Fresh(Mem(a), b, Z)
      BY <2>1, <2>4 DEF Alloced
    <3>3. b \notin Free(a) /\ b > 2 /\ b \notin Z.d
      BY <2>2, <3>2, MemFacts, TreeFacts DEF Fresh
    <3>31. w = read_block(a, b)
      OBVIOUS
    <3> HIDE DEF b, w
    <3>4. /\ Reads(a, w, Z, O, {})
          /\ \/ w.r < 0 /\ w.panic # NoPanic
             \/ w.r = 0 /\ w.out = b /\ b \in Bno /\ w.cache[b] # Unmapped
      BY <2>2, <3>2, <3>3, <3>31, ReadsRead
    <3>5. Works(s, w, Z, O, {})
      BY <2>2, <3>4, ReadsWorks, WorksTrans
    <3>6. Got(w, Z, f, i)
      BY <3>3, <3>4 DEF Got
    <3> QED BY <3>1, <3>5, <3>6
  <2> QED BY <2>3, <2>4
<1> QED BY <1>4, <1>5, <1>6

(* What a lookup in a directory comes back with: an error, or a file that  *)
(* is now open in the sense of OpenOk.                                     *)
Looked(s, t, Z, O) ==
    /\ Frame(s, t, Z)
    /\ \/ t.r < 0 /\ Good(t, Z, O, {})
       \/ /\ t.r = 0 /\ t.out \in Locs(Z) /\ Good(t, Z, O \cup {t.out}, {})

(* An entry that was found gets its f_dir and is open from then on.        *)
LEMMA FoundGood ==
    ASSUME NEW Z, TreeOk(Z), NEW O, NEW s, NEW g \in Z.dirs, g = Root \/ g[1] \in s.dirty,
           NEW t, Works(s, t, Z, O, {}), Looking(t, Z, g)
    PROVE  Looked(s, Found(t, g), Z, O)
<1> DEFINE e == Found(t, g)
           f == t.out
           u == SetDir(t, f, g)
<1>1. e = IF t.r = GoOn THEN Ret(t, E_NOT_FOUND) ELSE IF t.r < 0 THEN t ELSE RetOut(u, f)
  BY DEF Found
<1> SUFFICES Looked(s, e, Z, O)
  OBVIOUS
<1> HIDE DEF e
<1>2. Good(t, Z, O, {}) /\ Frame(s, t, Z) /\ (g = Root \/ g[1] \in t.dirty)
  BY DEF Works, Frame
<1>3. CASE t.r = GoOn
  <2>1. e = Ret(t, E_NOT_FOUND) /\ E_NOT_FOUND \in Int
    BY <1>1, <1>3, Codes
  <2>2. Reads(t, e, Z, O, {}) /\ e.r = E_NOT_FOUND
    BY <1>2, <2>1, RetReads
  <2>3. Works(s, e, Z, O, {})
    BY <2>2, ReadsWorks, WorksTrans
  <2> QED BY <2>2, <2>3, Codes DEF Looked, Works
<1>4. CASE t.r # GoOn /\ t.r < 0
  BY <1>1, <1>2, <1>4 DEF Looked
<1>5. CASE t.r # GoOn /\ ~(t.r < 0)
  <2>1. e = RetOut(u, f) /\ Hit(t, Z, g, f)
    BY <1>1, <1>5 DEF Looking
  <2>2. PICK i \in Word : i < FileIn(Mem(t), g).size \div BY2BLK /\ Leads(Mem(t), g, i, f[1])
    BY <2>1 DEF Hit
  <2>3. f \in Locs(Z) /\ f # Root /\ t.cache[f[1]] # Unmapped
    BY <2>1 DEF Hit
  <2>31. u = SetDir(t, f, g)
    OBVIOUS
  <2> HIDE DEF u, f
  <2>4. Good(u, Z, O \cup {f}, {}) /\ Frame(t, u, Z)
    BY <1>2, <2>2, <2>3, <2>31, SetDirGood
  <2>5. f \in Out
    BY <2>3, TreeFacts, NatOut
  <2> DEFINE P == O \cup {f}
  <2>6. Good(u, Z, P, {})
    BY <2>4
  <2> HIDE DEF P
  <2>7. Reads(u, e, Z, P, {}) /\ e.r = 0 /\ e.out = f
    BY <2>1, <2>5, <2>6, RetOutReads
  <2>8. Frame(s, e, Z)
    <3>1. Frame(u, e, Z)
      BY <2>7, ReadsWorks DEF Works
    <3> QED BY <1>2, <2>4, <3>1, FrameTrans
  <2> QED BY <2>3, <2>7, <2>8 DEF Looked, Reads, P
<1> QED BY <1>3, <1>4, <1>5

(* The loop of dir_lookup.                                                 *)
Pass(t, dir, name, i) == IF t.r = GoOn THEN LookIn(file_get_block(t, dir, i), name) ELSE t
Scan(s, dir, name, lo, hi) == LET Body(t, i) == Pass(t, dir, name, i) IN For(Body, s, lo, hi)

(* What every pass keeps, the loop does.                                   *)
LEMMA ScanIn ==
    ASSUME NEW s, NEW dir, NEW name, NEW lo \in Nat, NEW hi \in Nat, NEW n, n = Count(lo, hi), NEW S, s \in S[0],
           \A k \in 1..n : \A t \in S[k - 1] : Pass(t, dir, name, lo + k - 1) \in S[k]
    PROVE  Scan(s, dir, name, lo, hi) \in S[n]
<1> DEFINE Body(t, i) == Pass(t, dir, name, i)
           step == [x \in All(S, n) \X (1..n) |-> Body(x[1], lo + x[2] - 1)]
           Runs(g) == g = [k \in 0..n |-> IF k = 0 THEN s ELSE Body(g[k - 1], lo + k - 1)]
<1>0. n \in Nat
  BY DEF Count
<1>1. Scan(s, dir, name, lo, hi) = (CHOOSE g : Runs(g))[n]
  BY DEF Scan, For, Count
<1>2. \A k \in 1..n : \A t \in S[k - 1] : Body(t, lo + k - 1) \in S[k]
  OBVIOUS
<1> HIDE DEF Body
<1>3. ASSUME NEW k \in 1..n, NEW t \in S[k - 1] PROVE step[<<t, k>>] = Body(t, lo + k - 1)
  BY <1>0 DEF All
<1> HIDE DEF step
<1>4. Passes(S, n, step)
  BY <1>2, <1>3 DEF Passes
<1>5. PICK g : IsRunK(g, S, n, step, s)
  BY <1>0, <1>4, LoopK
<1>6. Runs(g)
  <2>1. \A k \in 0..n : g[k] = IF k = 0 THEN s ELSE Body(g[k - 1], lo + k - 1)
    <3>1. g[0] = s /\ \A k \in 0..n : k = 0 \/ (k \in 1..n /\ k - 1 \in 0..n)
      BY <1>0, <1>5 DEF IsRunK
    <3>2. ASSUME NEW k \in 1..n PROVE g[k] = Body(g[k - 1], lo + k - 1)
      <4>0. k - 1 \in 0..n
        BY <1>0
      <4>1. g[k - 1] \in S[k - 1] /\ g[k] = step[<<g[k - 1], k>>]
        BY <1>5, <4>0 DEF IsRunK
      <4> QED BY <1>3, <4>1
    <3> QED BY <3>1, <3>2
  <2>2. g = [k \in 0..n |-> g[k]]
    BY <1>5 DEF IsRunK
  <2> QED BY <2>1, <2>2
<1> DEFINE at == CHOOSE h : Runs(h)
<1>7. Runs(at)
  <2> HIDE DEF Runs
  <2> QED BY <1>6
<1> HIDE DEF at
<1> DEFINE T == {k \in 0..n : at[k] \in S[k]}
<1>8. \A k \in 0..n : k \in T
  <2>1. 0 \in T
    BY <1>0, <1>7
  <2>2. \A k \in 1..n : k - 1 \in T => k \in T
    BY <1>0, <1>2, <1>7
  <2> HIDE DEF T
  <2> QED BY <1>0, <2>1, <2>2, CountUp
<1> QED BY <1>0, <1>1, <1>8 DEF at

(* A pass works and finds only entries of the directory.                   *)
LEMMA PassGood ==
    ASSUME NEW Z, TreeOk(Z), NEW O, NEW s, Good(s, Z, O, {}), NEW g \in Z.dirs, s.cache[g[1]] # Unmapped,
           NEW name \in Proper, NEW i \in Nat, i < FileIn(Mem(s), g).size \div BY2BLK, Looking(s, Z, g)
    PROVE  Works(s, Pass(s, g, name, i), Z, O, {}) /\ Looking(Pass(s, g, name, i), Z, g)
<1> DEFINE u == file_get_block(s, g, i)
           w == LookIn(u, name)
           t == Pass(s, g, name, i)
<1>1. t = IF s.r = GoOn THEN w ELSE s
  BY DEF Pass
<1>2. g \in Locs(Z)
  BY TreeFacts
<1>3. Works(s, u, Z, O, {}) /\ Got(u, Z, g, i)
  BY <1>2, GetBlock
<1> HIDE DEF u
<1>4. Good(u, Z, O, {}) /\ i < FileIn(Mem(u), g).size \div BY2BLK
  BY <1>3 DEF Works, Frame
<1>5. Reads(u, w, Z, O, {}) /\ Looking(w, Z, g)
  BY <1>3, <1>4, LookGood
<1> HIDE DEF w
<1>6. Works(s, w, Z, O, {})
  BY <1>3, <1>5, ReadsWorks, WorksTrans
<1>7. Works(s, s, Z, O, {})
  BY FrameSame DEF Works
<1> QED BY <1>1, <1>5, <1>6, <1>7

(* So does the loop.                                                       *)
LEMMA ScanGood ==
    ASSUME NEW Z, TreeOk(Z), NEW O, NEW s, Good(s, Z, O, {}), NEW g \in Z.dirs, s.cache[g[1]] # Unmapped,
           NEW name \in Proper, NEW hi, hi = FileIn(Mem(s), g).size \div BY2BLK, hi \in Nat, s.r = GoOn
    PROVE  Works(s, Scan(s, g, name, 0, hi), Z, O, {}) /\ Looking(Scan(s, g, name, 0, hi), Z, g)
<1> DEFINE lo == 0
           n == Count(lo, hi)
           B == {t \in St : Works(s, t, Z, O, {}) /\ Looking(t, Z, g)}
           S == [k \in 0..n |-> B]
           e == Scan(s, g, name, lo, hi)
<1>1. lo \in Nat
  OBVIOUS
<1>2. n = hi /\ n \in Nat
  BY <1>1 DEF Count
<1>3. n = Count(lo, hi) /\ \A k \in 1..n : lo + k - 1 \in Nat /\ lo + k - 1 < hi
  BY <1>2
<1> SUFFICES Works(s, e, Z, O, {}) /\ Looking(e, Z, g)
  OBVIOUS
<1> HIDE DEF e, lo, n
<1>4. s \in S[0]
  BY <1>2, FrameSame DEF Good, Works, Looking
<1>5. ASSUME NEW k \in 1..n, NEW t \in S[k - 1] PROVE Pass(t, g, name, lo + k - 1) \in S[k]
  <2>1. k - 1 \in 0..n /\ k \in 0..n
    BY <1>2
  <2>2. t \in St /\ Works(s, t, Z, O, {}) /\ Looking(t, Z, g)
    BY <1>5, <2>1
  <2>3. Good(t, Z, O, {}) /\ t.cache[g[1]] # Unmapped /\ FileIn(Mem(t), g).size = FileIn(Mem(s), g).size
    BY <2>2, TreeFacts DEF Works, Frame
  <2> DEFINE i == lo + k - 1
             u == Pass(t, g, name, i)
  <2>4. i \in Nat /\ i < FileIn(Mem(t), g).size \div BY2BLK
    BY <1>3, <2>3
  <2> HIDE DEF i
  <2>5. Works(t, u, Z, O, {}) /\ Looking(u, Z, g)
    BY <2>2, <2>3, <2>4, PassGood
  <2> HIDE DEF u
  <2>6. Works(s, u, Z, O, {}) /\ u \in St
    BY <2>2, <2>5, WorksTrans DEF Works, Good
  <2>7. u \in S[k]
    BY <2>1, <2>5, <2>6
  <2> QED BY <2>7 DEF u, i
<1> HIDE DEF S
<1>6. e \in S[n]
  BY <1>1, <1>3, <1>4, <1>5, ScanIn DEF e
<1> QED BY <1>2, <1>6 DEF S

(* dir_lookup in a directory whose own File is in a dirty block.           *)
LEMMA DirLookupGood ==
    ASSUME NEW Z, TreeOk(Z), NEW O, NEW s, Good(s, Z, O, {}), NEW g \in Z.dirs,
           g = Root \/ g[1] \in s.dirty, NEW name \in Proper
    PROVE  Looked(s, dir_lookup(s, g, name), Z, O)
<1> DEFINE s0 == Ret(s, GoOn)
           hi == File(s, g).size \div BY2BLK
           e == Scan(s0, g, name, 0, hi)
           t == IF e.r = GoOn THEN Ret(e, GoOn) ELSE e
<1>1. dir_lookup(s, g, name) = Found(t, g)
  BY DEF dir_lookup, Search, ForRet, Then, Scan, Pass, LookIn, Try
<1>2. g \in Locs(Z) /\ g[1] \in Bno
  BY TreeFacts
<1>3. s.cache[g[1]] # Unmapped
  BY MemFacts DEF Root
<1>4. hi = FileIn(Mem(s), g).size \div BY2BLK /\ hi \in Nat
  BY <1>2, <1>3, RootKeeps, DivNat
<1>41. s0 = Ret(s, GoOn) /\ GoOn \in Int /\ ~(GoOn < 0) /\ GoOn # 0
  BY Codes
<1> HIDE DEF s0, hi
<1>5. Reads(s, s0, Z, O, {}) /\ s0.r = GoOn /\ Mem(s0) = Mem(s) /\ s0.cache = s.cache
  BY <1>41, RetReads
<1>6. Good(s0, Z, O, {}) /\ s0.cache[g[1]] # Unmapped /\ hi = FileIn(Mem(s0), g).size \div BY2BLK
  BY <1>3, <1>4, <1>5 DEF Reads
<1>7. Works(s0, e, Z, O, {}) /\ Looking(e, Z, g)
  BY <1>4, <1>5, <1>6, ScanGood
<1> HIDE DEF e
<1>8. Works(s, e, Z, O, {}) /\ Good(e, Z, O, {})
  BY <1>5, <1>7, ReadsWorks, WorksTrans DEF Works
<1>9. Works(s, t, Z, O, {}) /\ Looking(t, Z, g)
  <2>1. CASE e.r = GoOn
    <3>1. t = Ret(e, GoOn)
      BY <2>1
    <3> HIDE DEF t
    <3>2. Reads(e, t, Z, O, {}) /\ t.r = GoOn
      BY <1>41, <1>8, <3>1, RetReads
    <3>3. Works(s, t, Z, O, {})
      BY <1>8, <3>2, ReadsWorks, WorksTrans
    <3> QED BY <3>2, <3>3 DEF Looking
  <2>2. CASE e.r # GoOn
    BY <1>7, <1>8, <2>2
  <2> QED BY <2>1, <2>2
<1> HIDE DEF t
<1>10. Looked(s, Found(t, g), Z, O)
  BY <1>9, FoundGood
<1> QED BY <1>1, <1>10

(* The loop of dir_lookup1.                                                *)
Pass1(t, dir, name, i) == IF t.r = GoOn THEN LookIn(BlockOrNew(t, dir, i), name) ELSE t
Scan1(s, dir, name, lo, hi) == LET Body(t, i) == Pass1(t, dir, name, i) IN For(Body, s, lo, hi)

(* What every pass keeps, the loop does.                                   *)
LEMMA Scan1In ==
    ASSUME NEW s, NEW dir, NEW name, NEW lo \in Nat, NEW hi \in Nat, NEW n, n = Count(lo, hi), NEW S, s \in S[0],
           \A k \in 1..n : \A t \in S[k - 1] : Pass1(t, dir, name, lo + k - 1) \in S[k]
    PROVE  Scan1(s, dir, name, lo, hi) \in S[n]
<1> DEFINE Body(t, i) == Pass1(t, dir, name, i)
           step == [x \in All(S, n) \X (1..n) |-> Body(x[1], lo + x[2] - 1)]
           Runs(g) == g = [k \in 0..n |-> IF k = 0 THEN s ELSE Body(g[k - 1], lo + k - 1)]
<1>0. n \in Nat
  BY DEF Count
<1>1. Scan1(s, dir, name, lo, hi) = (CHOOSE g : Runs(g))[n]
  BY DEF Scan1, For, Count
<1>2. \A k \in 1..n : \A t \in S[k - 1] : Body(t, lo + k - 1) \in S[k]
  OBVIOUS
<1> HIDE DEF Body
<1>3. ASSUME NEW k \in 1..n, NEW t \in S[k - 1] PROVE step[<<t, k>>] = Body(t, lo + k - 1)
  BY <1>0 DEF All
<1> HIDE DEF step
<1>4. Passes(S, n, step)
  BY <1>2, <1>3 DEF Passes
<1>5. PICK g : IsRunK(g, S, n, step, s)
  BY <1>0, <1>4, LoopK
<1>6. Runs(g)
  <2>1. \A k \in 0..n : g[k] = IF k = 0 THEN s ELSE Body(g[k - 1], lo + k - 1)
    <3>1. g[0] = s /\ \A k \in 0..n : k = 0 \/ (k \in 1..n /\ k - 1 \in 0..n)
      BY <1>0, <1>5 DEF IsRunK
    <3>2. ASSUME NEW k \in 1..n PROVE g[k] = Body(g[k - 1], lo + k - 1)
      <4>0. k - 1 \in 0..n
        BY <1>0
      <4>1. g[k - 1] \in S[k - 1] /\ g[k] = step[<<g[k - 1], k>>]
        BY <1>5, <4>0 DEF IsRunK
      <4> QED BY <1>3, <4>1
    <3> QED BY <3>1, <3>2
  <2>2. g = [k \in 0..n |-> g[k]]
    BY <1>5 DEF IsRunK
  <2> QED BY <2>1, <2>2
<1> DEFINE at == CHOOSE h : Runs(h)
<1>7. Runs(at)
  <2> HIDE DEF Runs
  <2> QED BY <1>6
<1> HIDE DEF at
<1> DEFINE T == {k \in 0..n : at[k] \in S[k]}
<1>8. \A k \in 0..n : k \in T
  <2>1. 0 \in T
    BY <1>0, <1>7
  <2>2. \A k \in 1..n : k - 1 \in T => k \in T
    BY <1>0, <1>2, <1>7
  <2> HIDE DEF T
  <2> QED BY <1>0, <2>1, <2>2, CountUp
<1> QED BY <1>0, <1>1, <1>8 DEF at

(* A pass works and finds only entries of the directory.                   *)
LEMMA Pass1Good ==
    ASSUME NEW Z, TreeOk(Z), NEW O, NEW s, Good(s, Z, O, {}), NEW g \in Z.dirs, s.cache[g[1]] # Unmapped,
           NEW name \in Proper, NEW i \in Nat, i < FileIn(Mem(s), g).size \div BY2BLK, Looking(s, Z, g)
    PROVE  Works(s, Pass1(s, g, name, i), Z, O, {}) /\ Looking(Pass1(s, g, name, i), Z, g)
<1> DEFINE u == BlockOrNew(s, g, i)
           w == LookIn(u, name)
           t == Pass1(s, g, name, i)
<1>1. t = IF s.r = GoOn THEN w ELSE s
  BY DEF Pass1
<1>2. g \in Locs(Z)
  BY TreeFacts
<1>3. Works(s, u, Z, O, {}) /\ Got(u, Z, g, i)
  BY <1>2, NewBlock
<1> HIDE DEF u
<1>4. Good(u, Z, O, {}) /\ i < FileIn(Mem(u), g).size \div BY2BLK
  BY <1>3 DEF Works, Frame
<1>5. Reads(u, w, Z, O, {}) /\ Looking(w, Z, g)
  BY <1>3, <1>4, LookGood
<1> HIDE DEF w
<1>6. Works(s, w, Z, O, {})
  BY <1>3, <1>5, ReadsWorks, WorksTrans
<1>7. Works(s, s, Z, O, {})
  BY FrameSame DEF Works
<1> QED BY <1>1, <1>5, <1>6, <1>7

(* So does the loop.                                                       *)
LEMMA Scan1Good ==
    ASSUME NEW Z, TreeOk(Z), NEW O, NEW s, Good(s, Z, O, {}), NEW g \in Z.dirs, s.cache[g[1]] # Unmapped,
           NEW name \in Proper, NEW hi, hi = FileIn(Mem(s), g).size \div BY2BLK, hi \in Nat, s.r = GoOn
    PROVE  Works(s, Scan1(s, g, name, 0, hi), Z, O, {}) /\ Looking(Scan1(s, g, name, 0, hi), Z, g)
<1> DEFINE lo == 0
           n == Count(lo, hi)
           B == {t \in St : Works(s, t, Z, O, {}) /\ Looking(t, Z, g)}
           S == [k \in 0..n |-> B]
           e == Scan1(s, g, name, lo, hi)
<1>1. lo \in Nat
  OBVIOUS
<1>2. n = hi /\ n \in Nat
  BY <1>1 DEF Count
<1>3. n = Count(lo, hi) /\ \A k \in 1..n : lo + k - 1 \in Nat /\ lo + k - 1 < hi
  BY <1>2
<1> SUFFICES Works(s, e, Z, O, {}) /\ Looking(e, Z, g)
  OBVIOUS
<1> HIDE DEF e, lo, n
<1>4. s \in S[0]
  BY <1>2, FrameSame DEF Good, Works, Looking
<1>5. ASSUME NEW k \in 1..n, NEW t \in S[k - 1] PROVE Pass1(t, g, name, lo + k - 1) \in S[k]
  <2>1. k - 1 \in 0..n /\ k \in 0..n
    BY <1>2
  <2>2. t \in St /\ Works(s, t, Z, O, {}) /\ Looking(t, Z, g)
    BY <1>5, <2>1
  <2>3. Good(t, Z, O, {}) /\ t.cache[g[1]] # Unmapped /\ FileIn(Mem(t), g).size = FileIn(Mem(s), g).size
    BY <2>2, TreeFacts DEF Works, Frame
  <2> DEFINE i == lo + k - 1
             u == Pass1(t, g, name, i)
  <2>4. i \in Nat /\ i < FileIn(Mem(t), g).size \div BY2BLK
    BY <1>3, <2>3
  <2> HIDE DEF i
  <2>5. Works(t, u, Z, O, {}) /\ Looking(u, Z, g)
    BY <2>2, <2>3, <2>4, Pass1Good
  <2> HIDE DEF u
  <2>6. Works(s, u, Z, O, {}) /\ u \in St
    BY <2>2, <2>5, WorksTrans DEF Works, Good
  <2>7. u \in S[k]
    BY <2>1, <2>5, <2>6
  <2> QED BY <2>7 DEF u, i
<1> HIDE DEF S
<1>6. e \in S[n]
  BY <1>1, <1>3, <1>4, <1>5, Scan1In DEF e
<1> QED BY <1>2, <1>6 DEF S

(* dir_lookup1, the replacement.                                           *)
LEMMA DirLookup1Good ==
    ASSUME NEW Z, TreeOk(Z), NEW O, NEW s, Good(s, Z, O, {}), NEW g \in Z.dirs,
           g = Root \/ g[1] \in s.dirty, NEW name \in Proper
    PROVE  Looked(s, dir_lookup1(s, g, name), Z, O)
<1> DEFINE s0 == Ret(s, GoOn)
           hi == File(s, g).size \div BY2BLK
           e == Scan1(s0, g, name, 0, hi)
           t == IF e.r = GoOn THEN Ret(e, GoOn) ELSE e
<1>1. dir_lookup1(s, g, name) = Found(t, g)
  BY DEF dir_lookup1, Search, ForRet, Then, Scan1, Pass1, LookIn, Try
<1>2. g \in Locs(Z) /\ g[1] \in Bno
  BY TreeFacts
<1>3. s.cache[g[1]] # Unmapped
  BY MemFacts DEF Root
<1>4. hi = FileIn(Mem(s), g).size \div BY2BLK /\ hi \in Nat
  BY <1>2, <1>3, RootKeeps, DivNat
<1>41. s0 = Ret(s, GoOn) /\ GoOn \in Int /\ ~(GoOn < 0) /\ GoOn # 0
  BY Codes
<1> HIDE DEF s0, hi
<1>5. Reads(s, s0, Z, O, {}) /\ s0.r = GoOn /\ Mem(s0) = Mem(s) /\ s0.cache = s.cache
  BY <1>41, RetReads
<1>6. Good(s0, Z, O, {}) /\ s0.cache[g[1]] # Unmapped /\ hi = FileIn(Mem(s0), g).size \div BY2BLK
  BY <1>3, <1>4, <1>5 DEF Reads
<1>7. Works(s0, e, Z, O, {}) /\ Looking(e, Z, g)
  BY <1>4, <1>5, <1>6, Scan1Good
<1> HIDE DEF e
<1>8. Works(s, e, Z, O, {}) /\ Good(e, Z, O, {})
  BY <1>5, <1>7, ReadsWorks, WorksTrans DEF Works
<1>9. Works(s, t, Z, O, {}) /\ Looking(t, Z, g)
  <2>1. CASE e.r = GoOn
    <3>1. t = Ret(e, GoOn)
      BY <2>1
    <3> HIDE DEF t
    <3>2. Reads(e, t, Z, O, {}) /\ t.r = GoOn
      BY <1>41, <1>8, <3>1, RetReads
    <3>3. Works(s, t, Z, O, {})
      BY <1>8, <3>2, ReadsWorks, WorksTrans
    <3> QED BY <3>2, <3>3 DEF Looking
  <2>2. CASE e.r # GoOn
    BY <1>7, <1>8, <2>2
  <2> QED BY <2>1, <2>2
<1> HIDE DEF t
<1>10. Looked(s, Found(t, g), Z, O)
  BY <1>9, FoundGood
<1> QED BY <1>1, <1>10

(* Only what is returned changes.                                          *)
LEMMA OutGood ==
    ASSUME NEW Z, NEW O, NEW F, NEW s, Good(s, Z, O, F), NEW o \in Out,
           NEW t, t = [s EXCEPT !.out = o]
    PROVE  Reads(s, t, Z, O, F) /\ t.out = o /\ t.r = s.r /\ t.panic = s.panic /\ t.cache = s.cache /\ Mem(t) = Mem(s)
<1>0. s \in St
  BY DEF Good
<1>1. t \in St
  BY <1>0 DEF St
<1>2. t.cache = s.cache /\ t.dirty = s.dirty /\ t.wq = s.wq /\ t.panic = s.panic /\ t.out = o /\ t.r = s.r
  BY <1>0 DEF St
<1>3. Good(t, Z, O, F) /\ Mem(t) = Mem(s) /\ V(t) = V(s)
  BY ONLY Good(s, Z, O, F), <1>1, <1>2, SameGood
<1>4. Reads(s, t, Z, O, F)
  BY ONLY Good(s, Z, O, F), <1>2, <1>3, SameReads
<1> QED BY ONLY <1>2, <1>3, <1>4

(* What walk_path returns.                                                 *)
WalkOut == [file : Loc, dir : Loc, last : Name]

(* Its fields may be changed one by one.                                   *)
LEMMA WalkOutIs ==
    /\ WalkOut \subseteq Out
    /\ \A o \in WalkOut, d \in Loc :
          [o EXCEPT !.dir = d] \in WalkOut /\ [o EXCEPT !.dir = d].file = o.file
    /\ \A o \in WalkOut, d \in Loc, f \in Loc :
          [o EXCEPT !.dir = d, !.file = f] \in WalkOut /\ [o EXCEPT !.dir = d, !.file = f].file = f
    /\ \A o \in WalkOut, d \in Loc, x \in Name :
          [o EXCEPT !.last = x, !.dir = d] \in WalkOut /\ [o EXCEPT !.last = x, !.dir = d].file = o.file
    /\ \A o \in WalkOut : o.file \in Loc
  BY DEF WalkOut, Out

(* The loop of walk_path.                                                  *)
LeaveWalk(t, r) == [Ret(t, r) EXCEPT !.out.dir = NoLoc]
WalkOn(t, o, names, k) ==
    IF t.r < 0
    THEN [t EXCEPT !.out = [o EXCEPT !.last = names[k],
                                     !.dir = IF t.r = E_NOT_FOUND /\ k = Len(names)
                                             THEN o.file ELSE NoLoc]]
    ELSE [Ret(t, GoOn) EXCEPT !.out = [o EXCEPT !.dir = o.file, !.file = t.out]]
WalkPass(t, names, k) ==
    IF t.r = GoOn
    THEN IF names[k] \in Long THEN LeaveWalk(t, E_BAD_PATH)
         ELSE IF File(t, t.out.file).type # FTYPE_DIR THEN LeaveWalk(t, E_NOT_FOUND)
         ELSE WalkOn(dir_lookup(t, t.out.file, names[k]), t.out, names, k)
    ELSE t
WalkLoop(s, names, lo, hi) == LET Step(t, k) == WalkPass(t, names, k) IN For(Step, s, lo, hi)

(* What every pass keeps, the loop does.                                   *)
LEMMA WalkLoopIn ==
    ASSUME NEW s, NEW names, NEW lo \in Nat, NEW hi \in Nat, NEW n, n = Count(lo, hi), NEW S, s \in S[0],
           \A k \in 1..n : \A t \in S[k - 1] : WalkPass(t, names, lo + k - 1) \in S[k]
    PROVE  WalkLoop(s, names, lo, hi) \in S[n]
<1> DEFINE Body(t, i) == WalkPass(t, names, i)
           step == [x \in All(S, n) \X (1..n) |-> Body(x[1], lo + x[2] - 1)]
           Runs(g) == g = [k \in 0..n |-> IF k = 0 THEN s ELSE Body(g[k - 1], lo + k - 1)]
<1>0. n \in Nat
  BY DEF Count
<1>1. WalkLoop(s, names, lo, hi) = (CHOOSE g : Runs(g))[n]
  BY DEF WalkLoop, For, Count
<1>2. \A k \in 1..n : \A t \in S[k - 1] : Body(t, lo + k - 1) \in S[k]
  OBVIOUS
<1> HIDE DEF Body
<1>3. ASSUME NEW k \in 1..n, NEW t \in S[k - 1] PROVE step[<<t, k>>] = Body(t, lo + k - 1)
  BY <1>0 DEF All
<1> HIDE DEF step
<1>4. Passes(S, n, step)
  BY <1>2, <1>3 DEF Passes
<1>5. PICK g : IsRunK(g, S, n, step, s)
  BY <1>0, <1>4, LoopK
<1>6. Runs(g)
  <2>1. \A k \in 0..n : g[k] = IF k = 0 THEN s ELSE Body(g[k - 1], lo + k - 1)
    <3>1. g[0] = s /\ \A k \in 0..n : k = 0 \/ (k \in 1..n /\ k - 1 \in 0..n)
      BY <1>0, <1>5 DEF IsRunK
    <3>2. ASSUME NEW k \in 1..n PROVE g[k] = Body(g[k - 1], lo + k - 1)
      <4>0. k - 1 \in 0..n
        BY <1>0
      <4>1. g[k - 1] \in S[k - 1] /\ g[k] = step[<<g[k - 1], k>>]
        BY <1>5, <4>0 DEF IsRunK
      <4> QED BY <1>3, <4>1
    <3> QED BY <3>1, <3>2
  <2>2. g = [k \in 0..n |-> g[k]]
    BY <1>5 DEF IsRunK
  <2> QED BY <2>1, <2>2
<1> DEFINE at == CHOOSE h : Runs(h)
<1>7. Runs(at)
  <2> HIDE DEF Runs
  <2> QED BY <1>6
<1> HIDE DEF at
<1> DEFINE T == {k \in 0..n : at[k] \in S[k]}
<1>8. \A k \in 0..n : k \in T
  <2>1. 0 \in T
    BY <1>0, <1>7
  <2>2. \A k \in 1..n : k - 1 \in T => k \in T
    BY <1>0, <1>2, <1>7
  <2> HIDE DEF T
  <2> QED BY <1>0, <2>1, <2>2, CountUp
<1> QED BY <1>0, <1>1, <1>8 DEF at

(* On its way walk_path is at a file that is open in the sense of OpenOk.  *)
Walking(s, t, Z, O) ==
    /\ Frame(s, t, Z) /\ t.out \in WalkOut /\ t.out.file \in Locs(Z)
    /\ Good(t, Z, O \cup {t.out.file}, {})

(* walk_path gives up.                                                     *)
LEMMA LeaveGood ==
    ASSUME NEW Z, NEW O, NEW s, NEW t, Walking(s, t, Z, O), NEW r \in Int
    PROVE  Walking(s, LeaveWalk(t, r), Z, O) /\ LeaveWalk(t, r).r = r
<1> DEFINE u == Ret(t, r)
           o == [t.out EXCEPT !.dir = NoLoc]
           w == LeaveWalk(t, r)
           P == O \cup {t.out.file}
<1>1. t.out \in WalkOut /\ Good(t, Z, P, {}) /\ NoLoc \in Loc /\ Frame(s, t, Z)
  <2>1. NoLoc \in Loc
    BY Sizes DEF NoLoc, Loc, Bno, Slot
  <2> QED BY <2>1 DEF Walking
<1>2. o \in WalkOut /\ o \in Out /\ o.file = t.out.file
  BY <1>1, WalkOutIs
<1>3. Reads(t, u, Z, P, {}) /\ u.r = r /\ u.out = t.out
  <2> HIDE DEF P
  <2> QED BY <1>1, RetReads
<1>4. w = [u EXCEPT !.out = o]
  <2>1. u \in St
    BY <1>3 DEF Reads, Good
  <2>2. w = [u EXCEPT !.out = [u.out EXCEPT !.dir = NoLoc]]
    BY <2>1 DEF LeaveWalk, St
  <2> HIDE DEF u
  <2> QED BY <1>3, <2>2
<1> HIDE DEF u, o, w
<1>5. Reads(u, w, Z, P, {}) /\ w.out = o /\ w.r = r
  <2> HIDE DEF P
  <2>1. Good(u, Z, P, {})
    BY <1>3 DEF Reads
  <2>2. Reads(u, w, Z, P, {}) /\ w.out = o /\ w.r = u.r
    BY <1>2, <1>4, <2>1, OutGood
  <2> QED BY <1>3, <2>2
<1>6. Frame(s, w, Z) /\ Good(w, Z, P, {})
  BY <1>1, <1>3, <1>5, ReadsWorks, FrameTrans DEF Works
<1>7. Walking(s, w, Z, O)
  BY <1>2, <1>5, <1>6 DEF Walking
<1> QED BY <1>5, <1>7 DEF w

(* walk_path goes on to what dir_lookup found.                             *)
LEMMA WalkOnGood ==
    ASSUME NEW Z, TreeOk(Z), NEW O, NEW s, NEW o \in WalkOut, NEW names \in Seq(Proper), NEW k \in 1..Len(names),
           o.file \in Locs(Z), NEW t, Looked(s, t, Z, O \cup {o.file})
    PROVE  Walking(s, WalkOn(t, o, names, k), Z, O)
           /\ (WalkOn(t, o, names, k).r = GoOn \/ WalkOn(t, o, names, k).r < 0)
<1> DEFINE w == WalkOn(t, o, names, k)
           P == O \cup {o.file}
<1> SUFFICES Walking(s, w, Z, O) /\ (w.r = GoOn \/ w.r < 0)
  OBVIOUS
<1>0. o.file \in Loc /\ Frame(s, t, Z) /\ NoLoc \in Loc
  <2>1. NoLoc \in Loc
    BY Sizes DEF NoLoc, Loc, Bno, Slot
  <2> QED BY <2>1, WalkOutIs DEF Looked
<1>1. CASE t.r < 0
  <2> DEFINE d == IF t.r = E_NOT_FOUND /\ k = Len(names) THEN o.file ELSE NoLoc
             p == [o EXCEPT !.last = names[k], !.dir = d]
  <2>1. w = [t EXCEPT !.out = p]
    BY <1>1 DEF WalkOn
  <2>2. names[k] \in Name
    BY DEF Proper, Name
  <2>3. d \in Loc
    BY <1>0
  <2> HIDE DEF d
  <2>4. p \in WalkOut /\ p \in Out /\ p.file = o.file
    BY <2>2, <2>3, WalkOutIs
  <2>5. Good(t, Z, P, {})
    <3>1. ~(t.r = 0)
      BY <1>1
    <3> QED BY <3>1 DEF Looked
  <2> HIDE DEF p, w
  <2>6. Reads(t, w, Z, P, {}) /\ w.out = p /\ w.r = t.r
    <3> HIDE DEF P
    <3> QED BY <2>1, <2>4, <2>5, OutGood
  <2>7. Frame(s, w, Z) /\ Good(w, Z, P, {})
    BY <1>0, <2>6, ReadsWorks, FrameTrans DEF Works
  <2>8. Walking(s, w, Z, O)
    BY <2>4, <2>6, <2>7 DEF Walking
  <2> QED BY <1>1, <2>6, <2>8
<1>2. CASE ~(t.r < 0)
  <2> DEFINE u == Ret(t, GoOn)
             f == t.out
             p == [o EXCEPT !.dir = o.file, !.file = f]
             Q == P \cup {f}
  <2>1. w = [u EXCEPT !.out = p] /\ GoOn \in Int
    BY <1>2, Codes DEF WalkOn
  <2>2. f \in Locs(Z) /\ f \in Loc /\ Good(t, Z, Q, {})
    BY <1>2, TreeFacts DEF Looked
  <2>3. p \in WalkOut /\ p \in Out /\ p.file = f
    <3> DEFINE d == o.file
    <3>1. d \in Loc /\ f \in Loc /\ p = [o EXCEPT !.dir = d, !.file = f]
      BY <1>0, <2>2
    <3> HIDE DEF d, f, p
    <3>2. p \in WalkOut /\ p.file = f
      BY <3>1 DEF WalkOut
    <3> QED BY <3>2, WalkOutIs
  <2> HIDE DEF Q
  <2>4. Reads(t, u, Z, Q, {}) /\ u.r = GoOn
    BY <2>1, <2>2, RetReads
  <2> HIDE DEF p, w, u, f
  <2>5. Good(u, Z, Q, {})
    BY <2>4 DEF Reads
  <2>6. Reads(u, w, Z, Q, {}) /\ w.out = p /\ w.r = u.r
    BY <2>1, <2>3, <2>5, OutGood
  <2>7. Frame(s, w, Z) /\ Good(w, Z, Q, {})
    BY <1>0, <2>4, <2>6, ReadsWorks, FrameTrans DEF Works
  <2>8. Good(w, Z, O \cup {f}, {})
    <3>1. \A x \in O \cup {f} : x \in Q
      BY DEF Q
    <3> QED BY <2>7, <3>1, Regood
  <2>9. Walking(s, w, Z, O)
    BY <2>2, <2>3, <2>6, <2>7, <2>8 DEF Walking
  <2> QED BY <2>4, <2>6, <2>9
<1> QED BY <1>1, <1>2

(* A pass of walk_path.                                                    *)
LEMMA WalkPassGood ==
    ASSUME NEW Z, TreeOk(Z), NEW O, NEW s, NEW t, Walking(s, t, Z, O), t.r = GoOn \/ t.r < 0,
           NEW names \in Seq(Proper), NEW k \in 1..Len(names)
    PROVE  Walking(s, WalkPass(t, names, k), Z, O)
           /\ (WalkPass(t, names, k).r = GoOn \/ WalkPass(t, names, k).r < 0)
<1> DEFINE w == WalkPass(t, names, k)
           o == t.out
           f == o.file
           P == O \cup {f}
           a == LeaveWalk(t, E_BAD_PATH)
           b == LeaveWalk(t, E_NOT_FOUND)
           u == dir_lookup(t, f, names[k])
           c == WalkOn(u, o, names, k)
<1> SUFFICES Walking(s, w, Z, O) /\ (w.r = GoOn \/ w.r < 0)
  OBVIOUS
<1>1. w = IF t.r = GoOn
          THEN IF names[k] \in Long THEN a ELSE IF File(t, f).type # FTYPE_DIR THEN b ELSE c
          ELSE t
  BY DEF WalkPass
<1>2. Walking(s, a, Z, O) /\ a.r = E_BAD_PATH
  <2>1. E_BAD_PATH \in Int
    BY Codes
  <2> QED BY <2>1, LeaveGood
<1>3. Walking(s, b, Z, O) /\ b.r = E_NOT_FOUND
  <2>1. E_NOT_FOUND \in Int
    BY Codes
  <2> QED BY <2>1, LeaveGood
<1>4. ASSUME File(t, f).type = FTYPE_DIR PROVE Walking(s, c, Z, O) /\ (c.r = GoOn \/ c.r < 0)
  <2>1. Good(t, Z, P, {}) /\ f \in Locs(Z) /\ f \in P /\ o \in WalkOut /\ Frame(s, t, Z)
    BY DEF Walking
  <2> HIDE DEF P
  <2>2. t.cache[f[1]] # Unmapped /\ OpenOk(Mem(t), t.dirty, f, Z)
    BY <2>1, OpenFacts
  <2>3. f \in Z.dirs
    BY <1>4, <2>1, <2>2, RootKeeps
  <2>4. f = Root \/ f[1] \in t.dirty
    BY <2>2 DEF OpenOk
  <2> DEFINE name == names[k]
  <2>5. name \in Proper
    OBVIOUS
  <2>6. Looked(t, u, Z, P)
    <3> HIDE DEF name, f
    <3>1. Looked(t, dir_lookup(t, f, name), Z, P)
      BY <2>1, <2>3, <2>4, <2>5, DirLookupGood
    <3> QED BY <3>1 DEF name
  <2> HIDE DEF u
  <2>7. Looked(s, u, Z, O \cup {o.file})
    BY <2>1, <2>6, FrameTrans DEF Looked, P
  <2>8. o.file \in Locs(Z) /\ o \in WalkOut
    BY <2>1
  <2> HIDE DEF o
  <2> QED BY <2>7, <2>8, WalkOnGood
<1> HIDE DEF a, b, c, w
<1> QED BY <1>1, <1>2, <1>3, <1>4, Codes

(* walk_path on a path without empty elements.                             *)
LEMMA WalkGood ==
    ASSUME NEW Z, TreeOk(Z), NEW O, NEW s, Good(s, Z, O, {}), NEW path, skip_slash(path) \in Seq(Proper)
    PROVE  Walking(s, walk_path(s, path), Z, O)
           /\ (walk_path(s, path).r = 0 \/ walk_path(s, path).r < 0)
<1> DEFINE names == skip_slash(path)
           o == [file |-> Root, dir |-> NoLoc, last |-> NoName]
           r == RetOut(s, o)
           s0 == Ret(r, GoOn)
           lo == 1
           hi == Len(names) + 1
           n == Count(lo, hi)
           B == {t \in St : Walking(s, t, Z, O) /\ (t.r = GoOn \/ t.r < 0)}
           S == [k \in 0..n |-> B]
           e == WalkLoop(s0, names, lo, hi)
           w == walk_path(s, path)
<1>1. w = IF e.r = GoOn THEN Ret(e, 0) ELSE e
  BY DEF walk_path, ForRet, Then, WalkLoop, WalkPass, WalkOn, LeaveWalk
<1> SUFFICES Walking(s, w, Z, O) /\ (w.r = 0 \/ w.r < 0)
  OBVIOUS
<1>2. lo \in Nat /\ hi \in Nat /\ n = Len(names) /\ n \in Nat /\ n = Count(lo, hi)
      /\ \A k \in 1..n : lo + k - 1 = k
  BY DEF Count
<1>3. Walking(s, s0, Z, O) /\ s0.r = GoOn /\ s0 \in St
  <2>1. NoLoc \in Loc /\ Root \in Loc /\ NoName \in Name /\ Root \in Locs(Z) /\ GoOn \in Int
    BY TreeFacts, Codes, Sizes DEF NoLoc, Loc, Bno, Slot, Name
  <2>2. o \in WalkOut /\ o.file = Root
    BY <2>1 DEF WalkOut
  <2>3. o \in Out
    BY <2>2, WalkOutIs
  <2> DEFINE P == O \cup {Root}
  <2>4. Good(s, Z, P, {})
    <3>1. OpenOk(Mem(s), s.dirty, Root, Z)
      BY DEF OpenOk
    <3> QED BY <3>1, Regood
  <2>41. r = RetOut(s, o) /\ s0 = Ret(r, GoOn)
    OBVIOUS
  <2> HIDE DEF P, o, r, s0
  <2>5. Reads(s, r, Z, P, {}) /\ r.out = o
    BY <2>3, <2>4, <2>41, RetOutReads
  <2>6. Good(r, Z, P, {})
    BY <2>5 DEF Reads
  <2>7. Reads(r, s0, Z, P, {}) /\ s0.out = r.out /\ s0.r = GoOn
    BY <2>1, <2>41, <2>6, RetReads
  <2>8. Frame(s, s0, Z) /\ Good(s0, Z, P, {}) /\ s0 \in St
    BY <2>5, <2>7, ReadsWorks, FrameTrans DEF Works, Good
  <2>9. s0.out = o
    BY <2>5, <2>7
  <2> QED BY <2>1, <2>2, <2>7, <2>8, <2>9 DEF Walking, P
<1> HIDE DEF w, e, s0, names, lo, hi, n
<1>4. s0 \in S[0]
  BY <1>2, <1>3
<1>40. names \in Seq(Proper)
  BY DEF names
<1>5. ASSUME NEW k \in 1..n, NEW t \in S[k - 1] PROVE WalkPass(t, names, lo + k - 1) \in S[k]
  <2>1. k - 1 \in 0..n /\ k \in 0..n /\ k \in 1..Len(names) /\ lo + k - 1 = k
    BY <1>2
  <2>2. t \in St /\ Walking(s, t, Z, O) /\ (t.r = GoOn \/ t.r < 0)
    BY <1>5, <2>1
  <2> DEFINE u == WalkPass(t, names, k)
  <2>3. Walking(s, u, Z, O) /\ (u.r = GoOn \/ u.r < 0)
    BY <1>40, <2>1, <2>2, WalkPassGood
  <2> HIDE DEF u
  <2>4. u \in St
    BY <2>3 DEF Walking, Good
  <2>5. u \in S[k]
    BY <2>1, <2>3, <2>4
  <2> QED BY <2>1, <2>5 DEF u
<1> HIDE DEF S
<1>6. e \in S[n]
  BY <1>2, <1>4, <1>5, WalkLoopIn DEF e
<1>7. Walking(s, e, Z, O) /\ (e.r = GoOn \/ e.r < 0)
  BY <1>2, <1>6 DEF S
<1>8. CASE e.r = GoOn
  <2> PICK z \in Int : z = 0
    OBVIOUS
  <2>1. w = Ret(e, z)
    BY <1>1, <1>8
  <2> DEFINE P == O \cup {e.out.file}
  <2>2. Good(e, Z, P, {}) /\ Frame(s, e, Z) /\ e.out \in WalkOut /\ e.out.file \in Locs(Z)
    BY <1>7 DEF Walking
  <2> HIDE DEF P
  <2>3. Reads(e, w, Z, P, {}) /\ w.out = e.out /\ w.r = z
    BY <2>1, <2>2, RetReads
  <2>4. Frame(s, w, Z) /\ Good(w, Z, P, {})
    BY <2>2, <2>3, ReadsWorks, FrameTrans DEF Works
  <2>5. Walking(s, w, Z, O)
    BY <2>2, <2>3, <2>4 DEF Walking, P
  <2> QED BY <2>3, <2>5
<1>9. CASE e.r # GoOn
  BY <1>1, <1>7, <1>9
<1> QED BY <1>8, <1>9

(* file_open: the file it returns is open in the sense of OpenOk.          *)
LEMMA OpenGood ==
    ASSUME NEW Z, TreeOk(Z), NEW O, NEW s, Good(s, Z, O, {}), NEW path, skip_slash(path) \in Seq(Proper)
    PROVE  Looked(s, file_open(s, path), Z, O)
<1> DEFINE t == walk_path(s, path)
           f == t.out.file
           P == O \cup {f}
           e == file_open(s, path)
<1>1. e = IF t.r < 0 THEN t ELSE RetOut(t, f)
  BY DEF file_open, Try
<1>2. Walking(s, t, Z, O) /\ (t.r = 0 \/ t.r < 0)
  BY WalkGood
<1> SUFFICES Looked(s, e, Z, O)
  OBVIOUS
<1> HIDE DEF t, e
<1>3. Good(t, Z, P, {}) /\ f \in Locs(Z) /\ f \in Out /\ Frame(s, t, Z)
  BY <1>2, TreeFacts, NatOut DEF Walking
<1>4. CASE t.r < 0
  <2>1. Good(t, Z, O, {})
    BY <1>3, Regood
  <2> QED BY <1>1, <1>3, <1>4, <2>1 DEF Looked
<1>5. CASE ~(t.r < 0)
  <2>1. e = RetOut(t, f)
    BY <1>1, <1>5
  <2> HIDE DEF P, f
  <2>2. Reads(t, e, Z, P, {}) /\ e.r = 0 /\ e.out = f
    BY <1>3, <2>1, RetOutReads
  <2>3. Frame(s, e, Z) /\ Good(e, Z, P, {})
    BY <1>3, <2>2, ReadsWorks, FrameTrans DEF Works
  <2> QED BY <1>3, <2>2, <2>3 DEF Looked, P
<1> QED BY <1>4, <1>5

(* file_remove of a regular file.                                          *)
LEMMA RemoveGood ==
    ASSUME NEW Z, TreeOk(Z), NEW O, NEW s, Good(s, Z, O, {}), NEW path, skip_slash(path) \in Seq(Proper),
           walk_path(s, path).r = 0 => File(walk_path(s, path), walk_path(s, path).out.file).type = FTYPE_REG
    PROVE  /\ Good(file_remove(s, path), Z, O, {})
           /\ \/ file_remove(s, path).r < 0
              \/ Answered(file_remove(s, path), Z, O, file_remove(s, path).out)
<1> DEFINE t == walk_path(s, path)
           f == t.out.file
           P == O \cup {f}
           x == RetOut(FlushDir(file_flush(SetName(file_truncate(t, f, 0), f, NoName), f), f), f)
           e == file_remove(s, path)
<1>1. e = IF t.r < 0 THEN t ELSE x
  BY DEF file_remove, Try
<1>2. Walking(s, t, Z, O) /\ (t.r = 0 \/ t.r < 0)
  BY WalkGood
<1>3. t.r = 0 => File(t, f).type = FTYPE_REG
  OBVIOUS
<1> SUFFICES Good(e, Z, O, {}) /\ (e.r < 0 \/ Answered(e, Z, O, e.out))
  OBVIOUS
<1> HIDE DEF t, e
<1>4. Good(t, Z, P, {}) /\ f \in Locs(Z) /\ f \in P
  BY <1>2 DEF Walking
<1>5. CASE t.r < 0
  <2>1. Good(t, Z, O, {})
    BY <1>4, Regood
  <2> QED BY <1>1, <1>5, <2>1
<1>6. CASE ~(t.r < 0)
  <2>1. e = x /\ File(t, f).type = FTYPE_REG
    BY <1>1, <1>2, <1>3, <1>6
  <2>10. FTYPE_REG # FTYPE_DIR
    BY DEF FTYPE_REG, FTYPE_DIR
  <2> PICK z \in Nat : z = 0
    OBVIOUS
  <2>11. x = RetOut(FlushDir(file_flush(SetName(file_truncate(t, f, z), f, NoName), f), f), f)
    OBVIOUS
  <2> HIDE DEF P
  <2>2. t.cache[f[1]] # Unmapped
    BY <1>4, OpenFacts
  <2>3. f \notin Z.dirs
    BY <1>4, <2>1, <2>10, <2>2, RootKeeps
  <2> HIDE DEF f
  <2>4. Answered(RetOut(FlushDir(file_flush(SetName(file_truncate(t, f, z), f, NoName), f), f), f), Z, P, f)
    BY <1>4, <2>3, RemoveAnswered
  <2>5. Answered(x, Z, P, f)
    BY <2>11, <2>4
  <2> DEFINE y == FlushDir(file_flush(SetName(file_truncate(t, f, 0), f, NoName), f), f)
  <2>6. x = RetOut(y, f)
    OBVIOUS
  <2>61. x \in St
    BY <2>5 DEF Answered, Good
  <2>7. x.out = f
    <3> HIDE DEF y, x
    <3>1. RetOut(y, f) \in St
      BY <2>6, <2>61
    <3>2. RetOut(y, f).out = f
      BY <3>1, RetOutBack
    <3> QED BY <2>6, <3>2
  <2> HIDE DEF x
  <2>8. Good(x, Z, O, {})
    <3>1. Good(x, Z, P, {}) /\ \A g \in O : g \in P
      BY <2>5 DEF Answered, P
    <3> QED BY <3>1, Regood
  <2>9. Answered(x, Z, O, x.out)
    BY <2>5, <2>7, <2>8 DEF Answered
  <2> QED BY <2>1, <2>8, <2>9
<1> QED BY <1>5, <1>6

-----------------------------------------------------------------------------
(* The functions that print. *)

(* The first loop of debug_file, over the block numbers.                   *)
NumbersPass(t, f, i) ==
    IF t.r = GoOn
    THEN LET u == Diskbno(t, f, i, FALSE)
         IN  IF u.r < 0 /\ u.r # E_NOT_FOUND THEN u ELSE Ret(u, GoOn)
    ELSE t

(* A pass of it works.                                                     *)
LEMMA NumbersPassGood ==
    ASSUME NEW Z, TreeOk(Z), NEW O, NEW s, Good(s, Z, O, {}), NEW f \in Locs(Z), s.cache[f[1]] # Unmapped,
           NEW i \in Nat
    PROVE  Works(s, NumbersPass(s, f, i), Z, O, {})
<1> DEFINE u == Diskbno(s, f, i, FALSE)
           w == Ret(u, GoOn)
<1>1. \/ NumbersPass(s, f, i) = s \/ NumbersPass(s, f, i) = u \/ NumbersPass(s, f, i) = w
  BY DEF NumbersPass
<1>2. Reads(s, u, Z, O, {})
  BY NumberFalse
<1>3. w = Ret(u, GoOn) /\ GoOn \in Int
  BY Codes
<1> HIDE DEF u, w
<1>4. Reads(u, w, Z, O, {})
  BY <1>2, <1>3, RetReads DEF Reads
<1>5. Works(s, u, Z, O, {}) /\ Works(s, w, Z, O, {}) /\ Works(s, s, Z, O, {})
  BY <1>2, <1>4, ReadsTrans, ReadsWorks, FrameSame DEF Works
<1> QED BY <1>1, <1>5

(* The loop.                                                               *)
NumbersLoop(s, f, lo, hi) == LET Body(t, i) == NumbersPass(t, f, i) IN For(Body, s, lo, hi)

(* What every pass keeps, the loop does.                                   *)
LEMMA NumbersLoopIn ==
    ASSUME NEW s, NEW f, NEW lo \in Nat, NEW hi \in Nat, NEW n, n = Count(lo, hi), NEW S, s \in S[0],
           \A k \in 1..n : \A t \in S[k - 1] : NumbersPass(t, f, lo + k - 1) \in S[k]
    PROVE  NumbersLoop(s, f, lo, hi) \in S[n]
<1> DEFINE Body(t, i) == NumbersPass(t, f, i)
           step == [x \in All(S, n) \X (1..n) |-> Body(x[1], lo + x[2] - 1)]
           Runs(g) == g = [k \in 0..n |-> IF k = 0 THEN s ELSE Body(g[k - 1], lo + k - 1)]
<1>0. n \in Nat
  BY DEF Count
<1>1. NumbersLoop(s, f, lo, hi) = (CHOOSE g : Runs(g))[n]
  BY DEF NumbersLoop, For, Count
<1>2. \A k \in 1..n : \A t \in S[k - 1] : Body(t, lo + k - 1) \in S[k]
  OBVIOUS
<1> HIDE DEF Body
<1>3. ASSUME NEW k \in 1..n, NEW t \in S[k - 1] PROVE step[<<t, k>>] = Body(t, lo + k - 1)
  BY <1>0 DEF All
<1> HIDE DEF step
<1>4. Passes(S, n, step)
  BY <1>2, <1>3 DEF Passes
<1>5. PICK g : IsRunK(g, S, n, step, s)
  BY <1>0, <1>4, LoopK
<1>6. Runs(g)
  <2>1. \A k \in 0..n : g[k] = IF k = 0 THEN s ELSE Body(g[k - 1], lo + k - 1)
    <3>1. g[0] = s /\ \A k \in 0..n : k = 0 \/ (k \in 1..n /\ k - 1 \in 0..n)
      BY <1>0, <1>5 DEF IsRunK
    <3>2. ASSUME NEW k \in 1..n PROVE g[k] = Body(g[k - 1], lo + k - 1)
      <4>0. k - 1 \in 0..n
        BY <1>0
      <4>1. g[k - 1] \in S[k - 1] /\ g[k] = step[<<g[k - 1], k>>]
        BY <1>5, <4>0 DEF IsRunK
      <4> QED BY <1>3, <4>1
    <3> QED BY <3>1, <3>2
  <2>2. g = [k \in 0..n |-> g[k]]
    BY <1>5 DEF IsRunK
  <2> QED BY <2>1, <2>2
<1> DEFINE at == CHOOSE h : Runs(h)
<1>7. Runs(at)
  <2> HIDE DEF Runs
  <2> QED BY <1>6
<1> HIDE DEF at
<1> DEFINE T == {k \in 0..n : at[k] \in S[k]}
<1>8. \A k \in 0..n : k \in T
  <2>1. 0 \in T
    BY <1>0, <1>7
  <2>2. \A k \in 1..n : k - 1 \in T => k \in T
    BY <1>0, <1>2, <1>7
  <2> HIDE DEF T
  <2> QED BY <1>0, <2>1, <2>2, CountUp
<1> QED BY <1>0, <1>1, <1>8 DEF at

(* So the loop works.                                                      *)
LEMMA NumbersLoopGood ==
    ASSUME NEW Z, TreeOk(Z), NEW O, NEW s, Good(s, Z, O, {}), NEW f \in Locs(Z), s.cache[f[1]] # Unmapped,
           NEW lo \in Nat, NEW hi \in Nat
    PROVE  Works(s, NumbersLoop(s, f, lo, hi), Z, O, {})
<1> DEFINE n == Count(lo, hi)
           B == {t \in St : Works(s, t, Z, O, {})}
           S == [k \in 0..n |-> B]
<1>1. n \in Nat /\ n = Count(lo, hi)
  BY DEF Count
<1> HIDE DEF n
<1>2. s \in S[0]
  BY <1>1, FrameSame DEF Works, Good
<1>3. ASSUME NEW k \in 1..n, NEW t \in S[k - 1] PROVE NumbersPass(t, f, lo + k - 1) \in S[k]
  <2>1. k - 1 \in 0..n /\ k \in 0..n
    BY <1>1
  <2>2. Works(s, t, Z, O, {})
    BY <1>3, <2>1
  <2>3. Good(t, Z, O, {}) /\ t.cache[f[1]] # Unmapped
    BY <2>2, TreeFacts DEF Works, Frame
  <2> DEFINE i == lo + k - 1
             u == NumbersPass(t, f, i)
  <2>4. i \in Nat
    BY <1>1
  <2> HIDE DEF i
  <2>5. Works(t, u, Z, O, {})
    BY <2>3, <2>4, NumbersPassGood
  <2> HIDE DEF u
  <2>6. Works(s, u, Z, O, {}) /\ u \in St
    BY <2>2, <2>5, WorksTrans DEF Works, Good
  <2>7. u \in S[k]
    BY <2>1, <2>6
  <2> QED BY <2>7 DEF u, i
<1> HIDE DEF S
<1>4. NumbersLoop(s, f, lo, hi) \in S[n]
  BY <1>1, <1>2, <1>3, NumbersLoopIn
<1> QED BY <1>1, <1>4 DEF S

(* The loop as ForRet runs it, when it returns 0 at its end. *)
LEMMA NumbersForGood ==
    ASSUME NEW Z, TreeOk(Z), NEW O, NEW s, Good(s, Z, O, {}), NEW f \in Locs(Z), s.cache[f[1]] # Unmapped,
           NEW lo \in Nat, NEW hi \in Nat,
           NEW e, e = NumbersLoop(Ret(s, GoOn), f, lo, hi)
    PROVE  Works(s, IF e.r = GoOn THEN Ret(e, 0) ELSE e, Z, O, {})
<1> DEFINE s0 == Ret(s, GoOn)
<1>1. e = NumbersLoop(s0, f, lo, hi) /\ GoOn \in Int /\ s0 = Ret(s, GoOn)
  BY Codes
<1> HIDE DEF s0
<1>2. Reads(s, s0, Z, O, {}) /\ s0.cache = s.cache
  BY <1>1, RetReads
<1>3. Good(s0, Z, O, {}) /\ s0.cache[f[1]] # Unmapped
  BY <1>2 DEF Reads
<1>4. Works(s0, e, Z, O, {})
  <2>1. Works(s0, NumbersLoop(s0, f, lo, hi), Z, O, {})
    BY <1>3, NumbersLoopGood
  <2> QED BY <1>1, <2>1
<1>5. Works(s, e, Z, O, {}) /\ Good(e, Z, O, {})
  BY <1>2, <1>4, ReadsWorks, WorksTrans DEF Works
<1> PICK z \in Int : z = 0
  OBVIOUS
<1> DEFINE w == Ret(e, z)
<1>6. w = Ret(e, z)
  OBVIOUS
<1> HIDE DEF w
<1>7. Reads(e, w, Z, O, {})
  BY ONLY <1>5, <1>6, RetReads, z \in Int
<1>8. Works(s, w, Z, O, {})
  BY ONLY <1>5, <1>7, ReadsWorks, WorksTrans
<1>9. Ret(e, 0) = w
  BY <1>6
<1> QED BY ONLY <1>5, <1>8, <1>9

(* The second loop of debug_file, over the contents.                       *)
ContentsPass(t, f, i) ==
    IF t.r = GoOn
    THEN LET u == BlockOrNew(t, f, i) IN IF u.r < 0 THEN u ELSE Ret(u, GoOn)
    ELSE t

(* A pass of it works.                                                     *)
LEMMA ContentsPassGood ==
    ASSUME NEW Z, TreeOk(Z), NEW O, NEW s, Good(s, Z, O, {}), NEW f \in Locs(Z), s.cache[f[1]] # Unmapped,
           NEW i \in Nat
    PROVE  Works(s, ContentsPass(s, f, i), Z, O, {})
<1> DEFINE u == BlockOrNew(s, f, i)
           w == Ret(u, GoOn)
<1>1. \/ ContentsPass(s, f, i) = s \/ ContentsPass(s, f, i) = u \/ ContentsPass(s, f, i) = w
  BY DEF ContentsPass
<1>2. Works(s, u, Z, O, {})
  BY NewBlock
<1>3. w = Ret(u, GoOn) /\ GoOn \in Int
  BY Codes
<1> HIDE DEF u, w
<1>4. Reads(u, w, Z, O, {})
  BY <1>2, <1>3, RetReads DEF Works
<1>5. Works(s, w, Z, O, {})
  BY <1>2, <1>4, ReadsWorks, WorksTrans
<1>6. Works(s, s, Z, O, {})
  BY FrameSame DEF Works
<1> QED BY <1>1, <1>2, <1>5, <1>6

(* The loop.                                                               *)
ContentsLoop(s, f, lo, hi) == LET Body(t, i) == ContentsPass(t, f, i) IN For(Body, s, lo, hi)

(* What every pass keeps, the loop does.                                   *)
LEMMA ContentsLoopIn ==
    ASSUME NEW s, NEW f, NEW lo \in Nat, NEW hi \in Nat, NEW n, n = Count(lo, hi), NEW S, s \in S[0],
           \A k \in 1..n : \A t \in S[k - 1] : ContentsPass(t, f, lo + k - 1) \in S[k]
    PROVE  ContentsLoop(s, f, lo, hi) \in S[n]
<1> DEFINE Body(t, i) == ContentsPass(t, f, i)
           step == [x \in All(S, n) \X (1..n) |-> Body(x[1], lo + x[2] - 1)]
           Runs(g) == g = [k \in 0..n |-> IF k = 0 THEN s ELSE Body(g[k - 1], lo + k - 1)]
<1>0. n \in Nat
  BY DEF Count
<1>1. ContentsLoop(s, f, lo, hi) = (CHOOSE g : Runs(g))[n]
  BY DEF ContentsLoop, For, Count
<1>2. \A k \in 1..n : \A t \in S[k - 1] : Body(t, lo + k - 1) \in S[k]
  OBVIOUS
<1> HIDE DEF Body
<1>3. ASSUME NEW k \in 1..n, NEW t \in S[k - 1] PROVE step[<<t, k>>] = Body(t, lo + k - 1)
  BY <1>0 DEF All
<1> HIDE DEF step
<1>4. Passes(S, n, step)
  BY <1>2, <1>3 DEF Passes
<1>5. PICK g : IsRunK(g, S, n, step, s)
  BY <1>0, <1>4, LoopK
<1>6. Runs(g)
  <2>1. \A k \in 0..n : g[k] = IF k = 0 THEN s ELSE Body(g[k - 1], lo + k - 1)
    <3>1. g[0] = s /\ \A k \in 0..n : k = 0 \/ (k \in 1..n /\ k - 1 \in 0..n)
      BY <1>0, <1>5 DEF IsRunK
    <3>2. ASSUME NEW k \in 1..n PROVE g[k] = Body(g[k - 1], lo + k - 1)
      <4>0. k - 1 \in 0..n
        BY <1>0
      <4>1. g[k - 1] \in S[k - 1] /\ g[k] = step[<<g[k - 1], k>>]
        BY <1>5, <4>0 DEF IsRunK
      <4> QED BY <1>3, <4>1
    <3> QED BY <3>1, <3>2
  <2>2. g = [k \in 0..n |-> g[k]]
    BY <1>5 DEF IsRunK
  <2> QED BY <2>1, <2>2
<1> DEFINE at == CHOOSE h : Runs(h)
<1>7. Runs(at)
  <2> HIDE DEF Runs
  <2> QED BY <1>6
<1> HIDE DEF at
<1> DEFINE T == {k \in 0..n : at[k] \in S[k]}
<1>8. \A k \in 0..n : k \in T
  <2>1. 0 \in T
    BY <1>0, <1>7
  <2>2. \A k \in 1..n : k - 1 \in T => k \in T
    BY <1>0, <1>2, <1>7
  <2> HIDE DEF T
  <2> QED BY <1>0, <2>1, <2>2, CountUp
<1> QED BY <1>0, <1>1, <1>8 DEF at

(* So the loop works.                                                      *)
LEMMA ContentsLoopGood ==
    ASSUME NEW Z, TreeOk(Z), NEW O, NEW s, Good(s, Z, O, {}), NEW f \in Locs(Z), s.cache[f[1]] # Unmapped,
           NEW lo \in Nat, NEW hi \in Nat
    PROVE  Works(s, ContentsLoop(s, f, lo, hi), Z, O, {})
<1> DEFINE n == Count(lo, hi)
           B == {t \in St : Works(s, t, Z, O, {})}
           S == [k \in 0..n |-> B]
<1>1. n \in Nat /\ n = Count(lo, hi)
  BY DEF Count
<1> HIDE DEF n
<1>2. s \in S[0]
  BY <1>1, FrameSame DEF Works, Good
<1>3. ASSUME NEW k \in 1..n, NEW t \in S[k - 1] PROVE ContentsPass(t, f, lo + k - 1) \in S[k]
  <2>1. k - 1 \in 0..n /\ k \in 0..n
    BY <1>1
  <2>2. Works(s, t, Z, O, {})
    BY <1>3, <2>1
  <2>3. Good(t, Z, O, {}) /\ t.cache[f[1]] # Unmapped
    BY <2>2, TreeFacts DEF Works, Frame
  <2> DEFINE i == lo + k - 1
             u == ContentsPass(t, f, i)
  <2>4. i \in Nat
    BY <1>1
  <2> HIDE DEF i
  <2>5. Works(t, u, Z, O, {})
    BY <2>3, <2>4, ContentsPassGood
  <2> HIDE DEF u
  <2>6. Works(s, u, Z, O, {}) /\ u \in St
    BY <2>2, <2>5, WorksTrans DEF Works, Good
  <2>7. u \in S[k]
    BY <2>1, <2>6
  <2> QED BY <2>7 DEF u, i
<1> HIDE DEF S
<1>4. ContentsLoop(s, f, lo, hi) \in S[n]
  BY <1>1, <1>2, <1>3, ContentsLoopIn
<1> QED BY <1>1, <1>4 DEF S

(* The loop as ForRet runs it, when it returns 0 at its end. *)
LEMMA ContentsForGood ==
    ASSUME NEW Z, TreeOk(Z), NEW O, NEW s, Good(s, Z, O, {}), NEW f \in Locs(Z), s.cache[f[1]] # Unmapped,
           NEW lo \in Nat, NEW hi \in Nat,
           NEW e, e = ContentsLoop(Ret(s, GoOn), f, lo, hi)
    PROVE  Works(s, IF e.r = GoOn THEN Ret(e, 0) ELSE e, Z, O, {})
<1> DEFINE s0 == Ret(s, GoOn)
<1>1. e = ContentsLoop(s0, f, lo, hi) /\ GoOn \in Int /\ s0 = Ret(s, GoOn)
  BY Codes
<1> HIDE DEF s0
<1>2. Reads(s, s0, Z, O, {}) /\ s0.cache = s.cache
  BY <1>1, RetReads
<1>3. Good(s0, Z, O, {}) /\ s0.cache[f[1]] # Unmapped
  BY <1>2 DEF Reads
<1>4. Works(s0, e, Z, O, {})
  <2>1. Works(s0, ContentsLoop(s0, f, lo, hi), Z, O, {})
    BY <1>3, ContentsLoopGood
  <2> QED BY <1>1, <2>1
<1>5. Works(s, e, Z, O, {}) /\ Good(e, Z, O, {})
  BY <1>2, <1>4, ReadsWorks, WorksTrans DEF Works
<1> PICK z \in Int : z = 0
  OBVIOUS
<1> DEFINE w == Ret(e, z)
<1>6. w = Ret(e, z)
  OBVIOUS
<1> HIDE DEF w
<1>7. Reads(e, w, Z, O, {})
  BY ONLY <1>5, <1>6, RetReads, z \in Int
<1>8. Works(s, w, Z, O, {})
  BY ONLY <1>5, <1>7, ReadsWorks, WorksTrans
<1>9. Ret(e, 0) = w
  BY <1>6
<1> QED BY ONLY <1>5, <1>8, <1>9

(* The loop of debug_dir.                                                  *)
ListPass(t, f, i) ==
    IF t.r = GoOn
    THEN LET u == Diskbno(t, f, i, FALSE)
             v == read_block(u, u.out)
         IN  IF u.r = E_NOT_FOUND \/ (u.r = 0 /\ u.out = 0) THEN Ret(u, GoOn)
             ELSE IF u.r < 0 THEN u ELSE IF v.r < 0 THEN v ELSE Ret(v, GoOn)
    ELSE t

(* A pass of it works.                                                     *)
LEMMA ListPassGood ==
    ASSUME NEW Z, TreeOk(Z), NEW O, NEW s, Good(s, Z, O, {}), NEW f \in Locs(Z), s.cache[f[1]] # Unmapped,
           NEW i \in Nat
    PROVE  Works(s, ListPass(s, f, i), Z, O, {})
<1> DEFINE u == Diskbno(s, f, i, FALSE)
           v == read_block(u, u.out)
           w == Ret(u, GoOn)
           x == Ret(v, GoOn)
           e == ListPass(s, f, i)
<1>1. e = IF s.r = GoOn
          THEN IF u.r = E_NOT_FOUND \/ (u.r = 0 /\ u.out = 0) THEN w
               ELSE IF u.r < 0 THEN u ELSE IF v.r < 0 THEN v ELSE x
          ELSE s
  BY DEF ListPass
<1>2. Reads(s, u, Z, O, {}) /\ Number(u, Z, f, i)
  BY NumberFalse
<1>3. w = Ret(u, GoOn) /\ x = Ret(v, GoOn) /\ GoOn \in Int
  BY Codes
<1> HIDE DEF u, w, x, e
<1>30. Good(u, Z, O, {})
  BY <1>2 DEF Reads
<1>4. Reads(u, w, Z, O, {})
  BY <1>3, <1>30, RetReads
<1>5. Works(s, u, Z, O, {}) /\ Works(s, w, Z, O, {}) /\ Works(s, s, Z, O, {})
  BY <1>2, <1>4, ReadsTrans, ReadsWorks, FrameSame DEF Works
<1>6. ASSUME ~(u.r < 0), ~(u.r = 0 /\ u.out = 0) PROVE Works(s, v, Z, O, {}) /\ Works(s, x, Z, O, {})
  <2>1. Mapped(u, Z, f, i) /\ u.r = 0
    BY <1>2, <1>6 DEF Number, Mapped
  <2>2. Reads(u, v, Z, O, {})
    BY <1>30, <2>1, GetGood
  <2> HIDE DEF v
  <2>3. Reads(v, x, Z, O, {})
    BY <1>3, <2>2, RetReads DEF Reads
  <2> QED BY <1>2, <2>2, <2>3, ReadsTrans, ReadsWorks
<1> HIDE DEF v
<1> QED BY <1>1, <1>5, <1>6 DEF e

(* The loop.                                                               *)
ListLoop(s, f, lo, hi) == LET Body(t, i) == ListPass(t, f, i) IN For(Body, s, lo, hi)

(* What every pass keeps, the loop does.                                   *)
LEMMA ListLoopIn ==
    ASSUME NEW s, NEW f, NEW lo \in Nat, NEW hi \in Nat, NEW n, n = Count(lo, hi), NEW S, s \in S[0],
           \A k \in 1..n : \A t \in S[k - 1] : ListPass(t, f, lo + k - 1) \in S[k]
    PROVE  ListLoop(s, f, lo, hi) \in S[n]
<1> DEFINE Body(t, i) == ListPass(t, f, i)
           step == [x \in All(S, n) \X (1..n) |-> Body(x[1], lo + x[2] - 1)]
           Runs(g) == g = [k \in 0..n |-> IF k = 0 THEN s ELSE Body(g[k - 1], lo + k - 1)]
<1>0. n \in Nat
  BY DEF Count
<1>1. ListLoop(s, f, lo, hi) = (CHOOSE g : Runs(g))[n]
  BY DEF ListLoop, For, Count
<1>2. \A k \in 1..n : \A t \in S[k - 1] : Body(t, lo + k - 1) \in S[k]
  OBVIOUS
<1> HIDE DEF Body
<1>3. ASSUME NEW k \in 1..n, NEW t \in S[k - 1] PROVE step[<<t, k>>] = Body(t, lo + k - 1)
  BY <1>0 DEF All
<1> HIDE DEF step
<1>4. Passes(S, n, step)
  BY <1>2, <1>3 DEF Passes
<1>5. PICK g : IsRunK(g, S, n, step, s)
  BY <1>0, <1>4, LoopK
<1>6. Runs(g)
  <2>1. \A k \in 0..n : g[k] = IF k = 0 THEN s ELSE Body(g[k - 1], lo + k - 1)
    <3>1. g[0] = s /\ \A k \in 0..n : k = 0 \/ (k \in 1..n /\ k - 1 \in 0..n)
      BY <1>0, <1>5 DEF IsRunK
    <3>2. ASSUME NEW k \in 1..n PROVE g[k] = Body(g[k - 1], lo + k - 1)
      <4>0. k - 1 \in 0..n
        BY <1>0
      <4>1. g[k - 1] \in S[k - 1] /\ g[k] = step[<<g[k - 1], k>>]
        BY <1>5, <4>0 DEF IsRunK
      <4> QED BY <1>3, <4>1
    <3> QED BY <3>1, <3>2
  <2>2. g = [k \in 0..n |-> g[k]]
    BY <1>5 DEF IsRunK
  <2> QED BY <2>1, <2>2
<1> DEFINE at == CHOOSE h : Runs(h)
<1>7. Runs(at)
  <2> HIDE DEF Runs
  <2> QED BY <1>6
<1> HIDE DEF at
<1> DEFINE T == {k \in 0..n : at[k] \in S[k]}
<1>8. \A k \in 0..n : k \in T
  <2>1. 0 \in T
    BY <1>0, <1>7
  <2>2. \A k \in 1..n : k - 1 \in T => k \in T
    BY <1>0, <1>2, <1>7
  <2> HIDE DEF T
  <2> QED BY <1>0, <2>1, <2>2, CountUp
<1> QED BY <1>0, <1>1, <1>8 DEF at

(* So the loop works.                                                      *)
LEMMA ListLoopGood ==
    ASSUME NEW Z, TreeOk(Z), NEW O, NEW s, Good(s, Z, O, {}), NEW f \in Locs(Z), s.cache[f[1]] # Unmapped,
           NEW lo \in Nat, NEW hi \in Nat
    PROVE  Works(s, ListLoop(s, f, lo, hi), Z, O, {})
<1> DEFINE n == Count(lo, hi)
           B == {t \in St : Works(s, t, Z, O, {})}
           S == [k \in 0..n |-> B]
<1>1. n \in Nat /\ n = Count(lo, hi)
  BY DEF Count
<1> HIDE DEF n
<1>2. s \in S[0]
  BY <1>1, FrameSame DEF Works, Good
<1>3. ASSUME NEW k \in 1..n, NEW t \in S[k - 1] PROVE ListPass(t, f, lo + k - 1) \in S[k]
  <2>1. k - 1 \in 0..n /\ k \in 0..n
    BY <1>1
  <2>2. Works(s, t, Z, O, {})
    BY <1>3, <2>1
  <2>3. Good(t, Z, O, {}) /\ t.cache[f[1]] # Unmapped
    BY <2>2, TreeFacts DEF Works, Frame
  <2> DEFINE i == lo + k - 1
             u == ListPass(t, f, i)
  <2>4. i \in Nat
    BY <1>1
  <2> HIDE DEF i
  <2>5. Works(t, u, Z, O, {})
    BY <2>3, <2>4, ListPassGood
  <2> HIDE DEF u
  <2>6. Works(s, u, Z, O, {}) /\ u \in St
    BY <2>2, <2>5, WorksTrans DEF Works, Good
  <2>7. u \in S[k]
    BY <2>1, <2>6
  <2> QED BY <2>7 DEF u, i
<1> HIDE DEF S
<1>4. ListLoop(s, f, lo, hi) \in S[n]
  BY <1>1, <1>2, <1>3, ListLoopIn
<1> QED BY <1>1, <1>4 DEF S

(* The loop as ForRet runs it, when it returns 0 at its end. *)
LEMMA ListForGood ==
    ASSUME NEW Z, TreeOk(Z), NEW O, NEW s, Good(s, Z, O, {}), NEW f \in Locs(Z), s.cache[f[1]] # Unmapped,
           NEW lo \in Nat, NEW hi \in Nat,
           NEW e, e = ListLoop(Ret(s, GoOn), f, lo, hi)
    PROVE  Works(s, IF e.r = GoOn THEN Ret(e, 0) ELSE e, Z, O, {})
<1> DEFINE s0 == Ret(s, GoOn)
<1>1. e = ListLoop(s0, f, lo, hi) /\ GoOn \in Int /\ s0 = Ret(s, GoOn)
  BY Codes
<1> HIDE DEF s0
<1>2. Reads(s, s0, Z, O, {}) /\ s0.cache = s.cache
  BY <1>1, RetReads
<1>3. Good(s0, Z, O, {}) /\ s0.cache[f[1]] # Unmapped
  BY <1>2 DEF Reads
<1>4. Works(s0, e, Z, O, {})
  <2>1. Works(s0, ListLoop(s0, f, lo, hi), Z, O, {})
    BY <1>3, ListLoopGood
  <2> QED BY <1>1, <2>1
<1>5. Works(s, e, Z, O, {}) /\ Good(e, Z, O, {})
  BY <1>2, <1>4, ReadsWorks, WorksTrans DEF Works
<1> PICK z \in Int : z = 0
  OBVIOUS
<1> DEFINE w == Ret(e, z)
<1>6. w = Ret(e, z)
  OBVIOUS
<1> HIDE DEF w
<1>7. Reads(e, w, Z, O, {})
  BY ONLY <1>5, <1>6, RetReads, z \in Int
<1>8. Works(s, w, Z, O, {})
  BY ONLY <1>5, <1>7, ReadsWorks, WorksTrans
<1>9. Ret(e, 0) = w
  BY <1>6
<1> QED BY ONLY <1>5, <1>8, <1>9

(* debug_file.                                                             *)
LEMMA DebugFileGood ==
    ASSUME NEW Z, TreeOk(Z), NEW O, NEW s, Good(s, Z, O, {}), NEW f \in Locs(Z), s.cache[f[1]] # Unmapped
    PROVE  Good(debug_file(s, f), Z, O, {})
<1> DEFINE n == File(s, f).size \div BY2BLK + 1
           lo == 0
           a == NumbersLoop(Ret(s, GoOn), f, lo, n)
           t == IF a.r = GoOn THEN Ret(a, 0) ELSE a
           b == ContentsLoop(Ret(t, GoOn), f, lo, n)
           u == IF b.r = GoOn THEN Ret(b, 0) ELSE b
<1>1. debug_file(s, f) = IF File(s, f).name = NoName THEN s ELSE IF t.r < 0 THEN t ELSE u
  BY DEF debug_file, ForRet, Try, Then, NumbersLoop, NumbersPass, ContentsLoop, ContentsPass
<1>2. n \in Nat /\ lo \in Nat
  BY RootKeeps, DivNat
<1>20. a = NumbersLoop(Ret(s, GoOn), f, lo, n)
  OBVIOUS
<1> HIDE DEF n, lo, a
<1>3. Works(s, t, Z, O, {})
  BY <1>2, <1>20, NumbersForGood
<1> HIDE DEF t
<1>4. Good(t, Z, O, {}) /\ t.cache[f[1]] # Unmapped
  BY <1>3, TreeFacts DEF Works, Frame
<1>40. b = ContentsLoop(Ret(t, GoOn), f, lo, n)
  OBVIOUS
<1> HIDE DEF b
<1>5. Works(t, u, Z, O, {})
  BY <1>2, <1>4, <1>40, ContentsForGood
<1> HIDE DEF u
<1> QED BY <1>1, <1>4, <1>5 DEF Works

(* debug_dir.                                                              *)
LEMMA DebugDirGood ==
    ASSUME NEW Z, TreeOk(Z), NEW O, NEW s, Good(s, Z, O, {}), NEW f \in Locs(Z), s.cache[f[1]] # Unmapped
    PROVE  Good(debug_dir(s, f), Z, O, {})
<1> DEFINE n == File(s, f).size \div BY2BLK
           lo == 0
           a == ListLoop(Ret(s, GoOn), f, lo, n)
           t == IF a.r = GoOn THEN Ret(a, 0) ELSE a
<1>1. debug_dir(s, f) = IF File(s, f).name = NoName THEN s ELSE t
  BY DEF debug_dir, ForRet, Try, Then, ListLoop, ListPass
<1>2. n \in Nat /\ lo \in Nat
  BY RootKeeps, DivNat
<1>20. a = ListLoop(Ret(s, GoOn), f, lo, n)
  OBVIOUS
<1> HIDE DEF n, lo, a
<1>3. Works(s, t, Z, O, {})
  BY <1>2, <1>20, ListForGood
<1> HIDE DEF t
<1> QED BY <1>1, <1>3 DEF Works

(* The loop of get_file_absolute.                                          *)
TwinPass(t, e, k) ==
    IF t.r = GoOn
    THEN IF e[k] \in Long THEN Ret(t, E_BAD_PATH)
         ELSE IF File(t, t.out).type # FTYPE_DIR THEN Ret(t, E_NOT_FOUND)
         ELSE LET u == dir_lookup1(t, t.out, e[k]) IN IF u.r < 0 THEN u ELSE Ret(u, GoOn)
    ELSE t
TwinLoop(s, e, lo, hi) == LET Step(t, k) == TwinPass(t, e, k) IN For(Step, s, lo, hi)


(* What every pass keeps, the loop does.                                   *)
LEMMA TwinLoopIn ==
    ASSUME NEW s, NEW e, NEW lo \in Nat, NEW hi \in Nat, NEW n, n = Count(lo, hi), NEW S, s \in S[0],
           \A k \in 1..n : \A t \in S[k - 1] : TwinPass(t, e, lo + k - 1) \in S[k]
    PROVE  TwinLoop(s, e, lo, hi) \in S[n]
<1> DEFINE Body(t, i) == TwinPass(t, e, i)
           step == [x \in All(S, n) \X (1..n) |-> Body(x[1], lo + x[2] - 1)]
           Runs(g) == g = [k \in 0..n |-> IF k = 0 THEN s ELSE Body(g[k - 1], lo + k - 1)]
<1>0. n \in Nat
  BY DEF Count
<1>1. TwinLoop(s, e, lo, hi) = (CHOOSE g : Runs(g))[n]
  BY DEF TwinLoop, For, Count
<1>2. \A k \in 1..n : \A t \in S[k - 1] : Body(t, lo + k - 1) \in S[k]
  OBVIOUS
<1> HIDE DEF Body
<1>3. ASSUME NEW k \in 1..n, NEW t \in S[k - 1] PROVE step[<<t, k>>] = Body(t, lo + k - 1)
  BY <1>0 DEF All
<1> HIDE DEF step
<1>4. Passes(S, n, step)
  BY <1>2, <1>3 DEF Passes
<1>5. PICK g : IsRunK(g, S, n, step, s)
  BY <1>0, <1>4, LoopK
<1>6. Runs(g)
  <2>1. \A k \in 0..n : g[k] = IF k = 0 THEN s ELSE Body(g[k - 1], lo + k - 1)
    <3>1. g[0] = s /\ \A k \in 0..n : k = 0 \/ (k \in 1..n /\ k - 1 \in 0..n)
      BY <1>0, <1>5 DEF IsRunK
    <3>2. ASSUME NEW k \in 1..n PROVE g[k] = Body(g[k - 1], lo + k - 1)
      <4>0. k - 1 \in 0..n
        BY <1>0
      <4>1. g[k - 1] \in S[k - 1] /\ g[k] = step[<<g[k - 1], k>>]
        BY <1>5, <4>0 DEF IsRunK
      <4> QED BY <1>3, <4>1
    <3> QED BY <3>1, <3>2
  <2>2. g = [k \in 0..n |-> g[k]]
    BY <1>5 DEF IsRunK
  <2> QED BY <2>1, <2>2
<1> DEFINE at == CHOOSE h : Runs(h)
<1>7. Runs(at)
  <2> HIDE DEF Runs
  <2> QED BY <1>6
<1> HIDE DEF at
<1> DEFINE T == {k \in 0..n : at[k] \in S[k]}
<1>8. \A k \in 0..n : k \in T
  <2>1. 0 \in T
    BY <1>0, <1>7
  <2>2. \A k \in 1..n : k - 1 \in T => k \in T
    BY <1>0, <1>2, <1>7
  <2> HIDE DEF T
  <2> QED BY <1>0, <2>1, <2>2, CountUp
<1> QED BY <1>0, <1>1, <1>8 DEF at

(* On its way it is at a file that is open in the sense of OpenOk.         *)
Twinning(s, t, Z, O) ==
    /\ Frame(s, t, Z)
    /\ \/ t.r = GoOn /\ t.out \in Locs(Z) /\ Good(t, Z, O \cup {t.out}, {})
       \/ t.r < 0 /\ Good(t, Z, O, {})

(* A pass of it.                                                           *)
LEMMA TwinPassGood ==
    ASSUME NEW Z, TreeOk(Z), NEW O, NEW s, NEW t, Twinning(s, t, Z, O),
           NEW e \in Seq(Proper), NEW k \in 1..Len(e)
    PROVE  Twinning(s, TwinPass(t, e, k), Z, O)
<1> DEFINE w == TwinPass(t, e, k)
           f == t.out
           P == O \cup {f}
           a == Ret(t, E_BAD_PATH)
           b == Ret(t, E_NOT_FOUND)
           name == e[k]
           u == dir_lookup1(t, f, name)
           c == Ret(u, GoOn)
<1> SUFFICES Twinning(s, w, Z, O)
  OBVIOUS
<1>1. w = IF t.r = GoOn
          THEN IF name \in Long THEN a ELSE IF File(t, f).type # FTYPE_DIR THEN b ELSE IF u.r < 0 THEN u ELSE c
          ELSE t
  BY DEF TwinPass
<1>2. name \in Proper
  OBVIOUS
<1>3. CASE t.r = GoOn
  <2>1. Good(t, Z, P, {}) /\ f \in Locs(Z) /\ f \in P /\ Frame(s, t, Z)
    BY <1>3, Codes DEF Twinning
  <2>2. \A x \in O : x \in P
    OBVIOUS
  <2> HIDE DEF P
  <2>3. Twinning(s, a, Z, O)
    <3>1. E_BAD_PATH \in Int /\ E_BAD_PATH < 0
      BY Codes
    <3>2. Reads(t, a, Z, P, {}) /\ a.r = E_BAD_PATH
      BY <2>1, <3>1, RetReads
    <3> HIDE DEF a
    <3>3. Good(a, Z, O, {}) /\ Frame(s, a, Z)
      BY <2>1, <2>2, <3>2, Regood, ReadsWorks, FrameTrans DEF Works
    <3> QED BY <3>1, <3>2, <3>3 DEF Twinning
  <2>4. Twinning(s, b, Z, O)
    <3>1. E_NOT_FOUND \in Int /\ E_NOT_FOUND < 0
      BY Codes
    <3>2. Reads(t, b, Z, P, {}) /\ b.r = E_NOT_FOUND
      BY <2>1, <3>1, RetReads
    <3> HIDE DEF b
    <3>3. Good(b, Z, O, {}) /\ Frame(s, b, Z)
      BY <2>1, <2>2, <3>2, Regood, ReadsWorks, FrameTrans DEF Works
    <3> QED BY <3>1, <3>2, <3>3 DEF Twinning
  <2>5. ASSUME File(t, f).type = FTYPE_DIR
        PROVE  Twinning(s, IF u.r < 0 THEN u ELSE c, Z, O)
    <3>1. t.cache[f[1]] # Unmapped /\ OpenOk(Mem(t), t.dirty, f, Z)
      BY <2>1, OpenFacts
    <3>2. f \in Z.dirs
      BY <2>1, <2>5, <3>1, RootKeeps
    <3>3. f = Root \/ f[1] \in t.dirty
      BY <3>1 DEF OpenOk
    <3>4. Looked(t, u, Z, P)
      <4> HIDE DEF name, f
      <4> QED BY <1>2, <2>1, <3>2, <3>3, DirLookup1Good
    <3>5. c = Ret(u, GoOn) /\ GoOn \in Int
      BY Codes
    <3> HIDE DEF u, c
    <3>6. CASE u.r < 0
      <4>0. ~(u.r = 0)
        BY <3>6
      <4>1. Good(u, Z, P, {}) /\ Frame(t, u, Z)
        BY <3>4, <4>0 DEF Looked
      <4>2. Good(u, Z, O, {}) /\ Frame(s, u, Z)
        BY <2>1, <2>2, <4>1, Regood, FrameTrans
      <4> QED BY <3>6, <4>2 DEF Twinning
    <3>7. CASE ~(u.r < 0)
      <4> DEFINE g == u.out
                 Q == P \cup {g}
      <4>1. g \in Locs(Z) /\ Good(u, Z, Q, {}) /\ Frame(t, u, Z)
        BY <3>4, <3>7 DEF Looked
      <4>2. \A x \in O \cup {g} : x \in Q
        BY <2>2
      <4> HIDE DEF Q
      <4>3. Reads(u, c, Z, Q, {}) /\ c.r = GoOn /\ c.out = g
        BY <3>5, <4>1, RetReads
      <4>4. Good(c, Z, Q, {}) /\ Frame(s, c, Z)
        BY <2>1, <4>1, <4>3, ReadsWorks, FrameTrans DEF Works
      <4>5. Good(c, Z, O \cup {g}, {})
        BY <4>2, <4>4, Regood
      <4> HIDE DEF g
      <4> QED BY <3>7, <4>1, <4>3, <4>4, <4>5 DEF Twinning
    <3> QED BY <3>6, <3>7
  <2> HIDE DEF a, b, c, u, w
  <2> QED BY <1>1, <1>3, <2>3, <2>4, <2>5
<1> HIDE DEF w
<1> QED BY <1>1, <1>3

(* get_file_absolute on a path without empty elements.                     *)
LEMMA TwinGood ==
    ASSUME NEW Z, TreeOk(Z), NEW O, NEW s, Good(s, Z, O, {}), NEW path, Elements(path) \in Seq(Proper)
    PROVE  Looked(s, get_file_absolute(s, path), Z, O)
<1> DEFINE names == Elements(path)
           r == RetOut(s, Root)
           s0 == Ret(r, GoOn)
           lo == 1
           hi == Len(names) + 1
           n == Count(lo, hi)
           B == {t \in St : Twinning(s, t, Z, O)}
           S == [k \in 0..n |-> B]
           e == TwinLoop(s0, names, lo, hi)
           w == get_file_absolute(s, path)
<1>1. w = IF e.r = GoOn THEN Ret(e, 0) ELSE e
  BY DEF get_file_absolute, get_file_relative, WalkWith, ForRet, Then, Try, TwinLoop, TwinPass
<1> SUFFICES Looked(s, w, Z, O)
  OBVIOUS
<1>2. lo \in Nat /\ hi \in Nat /\ n = Len(names) /\ n \in Nat /\ n = Count(lo, hi)
      /\ \A k \in 1..n : lo + k - 1 = k
  BY DEF Count
<1>3. Twinning(s, s0, Z, O) /\ s0 \in St
  <2>1. Root \in Locs(Z) /\ GoOn \in Int /\ Root \in Out
    BY TreeFacts, Codes, NatOut
  <2> DEFINE P == O \cup {Root}
  <2>4. Good(s, Z, P, {})
    <3>1. OpenOk(Mem(s), s.dirty, Root, Z)
      BY DEF OpenOk
    <3> QED BY <3>1, Regood
  <2>41. r = RetOut(s, Root) /\ s0 = Ret(r, GoOn)
    OBVIOUS
  <2> HIDE DEF P, r, s0
  <2>5. Reads(s, r, Z, P, {}) /\ r.out = Root
    BY <2>1, <2>4, <2>41, RetOutReads
  <2>6. Good(r, Z, P, {})
    BY <2>5 DEF Reads
  <2>7. Reads(r, s0, Z, P, {}) /\ s0.out = r.out /\ s0.r = GoOn
    BY <2>1, <2>41, <2>6, RetReads
  <2>8. Frame(s, s0, Z) /\ Good(s0, Z, P, {}) /\ s0 \in St
    BY <2>5, <2>7, ReadsWorks, FrameTrans DEF Works, Good
  <2>9. s0.out = Root
    BY <2>5, <2>7
  <2> QED BY <2>1, <2>7, <2>8, <2>9 DEF Twinning, P
<1> HIDE DEF w, e, s0, names, lo, hi, n
<1>4. s0 \in S[0]
  BY <1>2, <1>3
<1>40. names \in Seq(Proper)
  BY DEF names
<1>5. ASSUME NEW k \in 1..n, NEW t \in S[k - 1] PROVE TwinPass(t, names, lo + k - 1) \in S[k]
  <2>1. k - 1 \in 0..n /\ k \in 0..n /\ k \in 1..Len(names) /\ lo + k - 1 = k
    BY <1>2
  <2>2. t \in St /\ Twinning(s, t, Z, O)
    BY <1>5, <2>1
  <2> DEFINE u == TwinPass(t, names, k)
  <2>3. Twinning(s, u, Z, O)
    BY <1>40, <2>1, <2>2, TwinPassGood
  <2> HIDE DEF u
  <2>4. u \in St
    BY <2>3 DEF Twinning, Good
  <2>5. u \in S[k]
    BY <2>1, <2>3, <2>4
  <2> QED BY <2>1, <2>5 DEF u
<1> HIDE DEF S
<1>6. e \in S[n]
  BY <1>2, <1>4, <1>5, TwinLoopIn DEF e
<1>7. Twinning(s, e, Z, O)
  BY <1>2, <1>6 DEF S
<1>8. CASE e.r = GoOn
  <2> PICK z \in Int : z = 0
    OBVIOUS
  <2>1. w = Ret(e, z)
    BY <1>1, <1>8
  <2> DEFINE P == O \cup {e.out}
  <2>2. Good(e, Z, P, {}) /\ Frame(s, e, Z) /\ e.out \in Locs(Z)
    BY <1>7, <1>8, Codes DEF Twinning
  <2> HIDE DEF P
  <2>3. Reads(e, w, Z, P, {}) /\ w.out = e.out /\ w.r = z
    BY <2>1, <2>2, RetReads
  <2>4. Frame(s, w, Z) /\ Good(w, Z, P, {})
    BY <2>2, <2>3, ReadsWorks, FrameTrans DEF Works
  <2> QED BY <2>2, <2>3, <2>4 DEF Looked, P
<1>9. CASE e.r # GoOn
  BY <1>1, <1>7, <1>9 DEF Twinning, Looked
<1> QED BY <1>8, <1>9

(* What to_tree_dir has still to visit: the blocks of a directory and the  *)
(* entries of a block, all cached.                                         *)
DirItem(S) == [dir : S, bno : Nat, end : Nat]
FileItem(S) == [file : S]
Items(t, Z) ==
    DirItem({f \in Locs(Z) : t.cache[f[1]] # Unmapped})
    \cup FileItem({f \in Loc : f[1] > 2 /\ t.cache[f[1]] # Unmapped})
AllItems == DirItem(Loc) \cup FileItem(Loc)

(* A sequence over a set is one over a larger set.                         *)
LEMMA SeqSub ==
    ASSUME NEW A, NEW B, A \subseteq B, NEW q \in Seq(A)
    PROVE  q \in Seq(B)
<1>1. Len(q) \in Nat /\ q \in [1..Len(q) -> A]
  BY LenProperties
<1>2. q \in [1..Len(q) -> B]
  BY <1>1
<1> QED BY <1>1, <1>2

(* What there is to visit stays cached over a frame.                       *)
LEMMA ItemsKept ==
    ASSUME NEW Z, TreeOk(Z), NEW s, NEW t, Frame(s, t, Z)
    PROVE  Items(s, Z) \subseteq Items(t, Z) /\ Items(t, Z) \subseteq AllItems
<1>1. \A f \in Loc : f[1] \in Bno
  BY DEF Loc
<1>2. \A f \in Locs(Z) : f \in Loc
  BY TreeFacts
<1>3. \A a \in Bno : s.cache[a] # Unmapped => t.cache[a] # Unmapped
  BY DEF Frame
<1>4. {f \in Locs(Z) : s.cache[f[1]] # Unmapped} \subseteq {f \in Locs(Z) : t.cache[f[1]] # Unmapped}
  BY <1>1, <1>2, <1>3
<1>5. {f \in Loc : f[1] > 2 /\ s.cache[f[1]] # Unmapped} \subseteq {f \in Loc : f[1] > 2 /\ t.cache[f[1]] # Unmapped}
  BY <1>1, <1>3
<1>6. ASSUME NEW A, NEW B, A \subseteq B PROVE DirItem(A) \subseteq DirItem(B) /\ FileItem(A) \subseteq FileItem(B)
  BY <1>6 DEF DirItem, FileItem
<1>7. {f \in Locs(Z) : t.cache[f[1]] # Unmapped} \subseteq Loc /\ {f \in Loc : f[1] > 2 /\ t.cache[f[1]] # Unmapped} \subseteq Loc
  BY <1>2
<1> DEFINE A == {f \in Locs(Z) : s.cache[f[1]] # Unmapped}
           B == {f \in Locs(Z) : t.cache[f[1]] # Unmapped}
           C == {f \in Loc : f[1] > 2 /\ s.cache[f[1]] # Unmapped}
           D == {f \in Loc : f[1] > 2 /\ t.cache[f[1]] # Unmapped}
<1>8. A \subseteq B /\ B \subseteq Loc /\ C \subseteq D /\ D \subseteq Loc
  BY <1>4, <1>5, <1>7
<1>9. Items(s, Z) = DirItem(A) \cup FileItem(C) /\ Items(t, Z) = DirItem(B) \cup FileItem(D)
  BY DEF Items
<1> HIDE DEF A, B, C, D
<1>10. DirItem(A) \subseteq DirItem(B) /\ DirItem(B) \subseteq DirItem(Loc)
       /\ FileItem(C) \subseteq FileItem(D) /\ FileItem(D) \subseteq FileItem(Loc)
  BY <1>6, <1>8
<1> QED BY <1>9, <1>10 DEF AllItems

(* The steps of to_tree_dir.                                               *)
TreeBlocks(d, b, n) == IF b < n THEN <<[dir |-> d, bno |-> b, end |-> n]>> ELSE <<>>
TreeSlots(b) == [k \in 1..FILE2BLK |-> [file |-> <<b, k - 1>>]]
TreeBlock(t, top, rest) ==
    [s |-> t, todo |-> IF t.r < 0 THEN rest
                       ELSE TreeSlots(t.out) \o (TreeBlocks(top.dir, top.bno + 1, top.end) \o rest)]
TreeDir(t, d) == TreeBlocks(d, 0, File(t, d).size \div BY2BLK)
TreeEntry(t, f, rest) ==
    [s |-> t, todo |-> IF File(t, f).name # NoName /\ File(t, f).type # FTYPE_REG
                       THEN TreeDir(t, f) \o rest ELSE rest]
TreeVisit(x) ==
    IF x.todo = <<>> THEN x
    ELSE LET top == Head(x.todo)
         IN  IF "bno" \in DOMAIN top
             THEN TreeBlock(BlockOrNew(x.s, top.dir, top.bno), top, Tail(x.todo))
             ELSE TreeEntry(x.s, top.file, Tail(x.todo))
TreeLoop(s, lo, hi) == LET Visit(x, n) == TreeVisit(x) IN For(Visit, s, lo, hi)


(* What every step keeps, the walk does.                                   *)
LEMMA TreeLoopIn ==
    ASSUME NEW s, NEW lo \in Nat, NEW hi \in Nat, NEW n, n = Count(lo, hi), NEW S, s \in S[0],
           \A k \in 1..n : \A t \in S[k - 1] : TreeVisit(t) \in S[k]
    PROVE  TreeLoop(s, lo, hi) \in S[n]
<1> DEFINE Body(t, i) == TreeVisit(t)
           step == [x \in All(S, n) \X (1..n) |-> Body(x[1], lo + x[2] - 1)]
           Runs(g) == g = [k \in 0..n |-> IF k = 0 THEN s ELSE Body(g[k - 1], lo + k - 1)]
<1>0. n \in Nat
  BY DEF Count
<1>1. TreeLoop(s, lo, hi) = (CHOOSE g : Runs(g))[n]
  BY DEF TreeLoop, For, Count
<1>2. \A k \in 1..n : \A t \in S[k - 1] : Body(t, lo + k - 1) \in S[k]
  OBVIOUS
<1> HIDE DEF Body
<1>3. ASSUME NEW k \in 1..n, NEW t \in S[k - 1] PROVE step[<<t, k>>] = Body(t, lo + k - 1)
  BY <1>0 DEF All
<1> HIDE DEF step
<1>4. Passes(S, n, step)
  BY <1>2, <1>3 DEF Passes
<1>5. PICK g : IsRunK(g, S, n, step, s)
  BY <1>0, <1>4, LoopK
<1>6. Runs(g)
  <2>1. \A k \in 0..n : g[k] = IF k = 0 THEN s ELSE Body(g[k - 1], lo + k - 1)
    <3>1. g[0] = s /\ \A k \in 0..n : k = 0 \/ (k \in 1..n /\ k - 1 \in 0..n)
      BY <1>0, <1>5 DEF IsRunK
    <3>2. ASSUME NEW k \in 1..n PROVE g[k] = Body(g[k - 1], lo + k - 1)
      <4>0. k - 1 \in 0..n
        BY <1>0
      <4>1. g[k - 1] \in S[k - 1] /\ g[k] = step[<<g[k - 1], k>>]
        BY <1>5, <4>0 DEF IsRunK
      <4> QED BY <1>3, <4>1
    <3> QED BY <3>1, <3>2
  <2>2. g = [k \in 0..n |-> g[k]]
    BY <1>5 DEF IsRunK
  <2> QED BY <2>1, <2>2
<1> DEFINE at == CHOOSE h : Runs(h)
<1>7. Runs(at)
  <2> HIDE DEF Runs
  <2> QED BY <1>6
<1> HIDE DEF at
<1> DEFINE T == {k \in 0..n : at[k] \in S[k]}
<1>8. \A k \in 0..n : k \in T
  <2>1. 0 \in T
    BY <1>0, <1>7
  <2>2. \A k \in 1..n : k - 1 \in T => k \in T
    BY <1>0, <1>2, <1>7
  <2> HIDE DEF T
  <2> QED BY <1>0, <2>1, <2>2, CountUp
<1> QED BY <1>0, <1>1, <1>8 DEF at

(* The walk so far worked, and what is left to visit is cached.            *)
Visiting(s, x, Z, O) == Works(s, x.s, Z, O, {}) /\ x.todo \in Seq(Items(x.s, Z))

(* The blocks of a directory can be visited.                               *)
LEMMA BlocksSeq ==
    ASSUME NEW Z, NEW t, NEW d \in Locs(Z), t.cache[d[1]] # Unmapped, NEW b \in Nat, NEW n \in Nat
    PROVE  TreeBlocks(d, b, n) \in Seq(Items(t, Z))
<1> DEFINE y == [dir |-> d, bno |-> b, end |-> n]
<1>1. y \in Items(t, Z)
  BY DEF Items, DirItem
<1> HIDE DEF y
<1>2. <<y>> \in Seq(Items(t, Z)) /\ <<>> \in Seq(Items(t, Z))
  BY <1>1
<1> QED BY <1>2 DEF TreeBlocks, y

(* So can the entries of a block.                                          *)
LEMMA SlotsSeq ==
    ASSUME NEW Z, NEW t, NEW b \in Bno, b > 2, t.cache[b] # Unmapped
    PROVE  TreeSlots(b) \in Seq(Items(t, Z))
<1> DEFINE I == Items(t, Z)
<1>1. FILE2BLK \in Nat
  BY Sizes
<1>2. ASSUME NEW k \in 1..FILE2BLK PROVE [file |-> <<b, k - 1>>] \in I
  <2>1. k - 1 \in Slot
    BY <1>1 DEF Slot
  <2>2. <<b, k - 1>> \in Loc /\ <<b, k - 1>>[1] = b
    BY <2>1 DEF Loc
  <2> DEFINE f == <<b, k - 1>>
  <2>3. f \in Loc /\ f[1] > 2 /\ t.cache[f[1]] # Unmapped
    BY <2>2
  <2> HIDE DEF f
  <2>4. [file |-> f] \in I
    BY <2>3 DEF Items, FileItem
  <2> QED BY <2>4 DEF f
<1> HIDE DEF I
<1> DEFINE q == [k \in 1..FILE2BLK |-> [file |-> <<b, k - 1>>]]
<1>3. q \in [1..FILE2BLK -> I]
  BY <1>2
<1>4. TreeSlots(b) = q
  BY DEF TreeSlots
<1> HIDE DEF q
<1>5. q \in Seq(I)
  BY <1>1, <1>3
<1> QED BY <1>4, <1>5 DEF I

(* A step of the walk.                                                     *)
LEMMA VisitGood ==
    ASSUME NEW Z, TreeOk(Z), NEW O, NEW s, NEW x, Visiting(s, x, Z, O)
    PROVE  Visiting(s, TreeVisit(x), Z, O)
           /\ (x \in [s : St, todo : Seq(AllItems)] => TreeVisit(x) \in [s : St, todo : Seq(AllItems)])
<1> DEFINE top == Head(x.todo)
           rest == Tail(x.todo)
           y == TreeVisit(x)
           t == BlockOrNew(x.s, top.dir, top.bno)
           a == TreeBlock(t, top, rest)
           b == TreeEntry(x.s, top.file, rest)
<1>0. y = IF x.todo = <<>> THEN x ELSE IF "bno" \in DOMAIN top THEN a ELSE b
  BY DEF TreeVisit
<1> SUFFICES Visiting(s, y, Z, O) /\ (x \in [s : St, todo : Seq(AllItems)] => y \in [s : St, todo : Seq(AllItems)])
  OBVIOUS
<1>1. CASE x.todo = <<>>
  BY <1>0, <1>1
<1>2. CASE x.todo # <<>>
  <2>1. top \in Items(x.s, Z) /\ rest \in Seq(Items(x.s, Z))
    <3>1. x.todo \in Seq(Items(x.s, Z))
      BY DEF Visiting
    <3> DEFINE q == x.todo
               I == Items(x.s, Z)
    <3>2. q \in Seq(I) /\ q # <<>>
      BY <1>2, <3>1
    <3> HIDE DEF q, I
    <3>3. Head(q) \in I /\ Tail(q) \in Seq(I)
      BY <3>2, HeadTailProperties
    <3> QED BY <3>3 DEF q, I
  <2>2. Works(s, x.s, Z, O, {}) /\ Good(x.s, Z, O, {}) /\ x.s \in St
    BY DEF Visiting, Works, Good
  <2> HIDE DEF rest
  <2>3. CASE top \in DirItem({f \in Locs(Z) : x.s.cache[f[1]] # Unmapped})
    <3> DEFINE d == top.dir
               i == top.bno
               n == top.end
    <3>1. "bno" \in DOMAIN top /\ d \in Locs(Z) /\ x.s.cache[d[1]] # Unmapped /\ i \in Nat /\ n \in Nat
      BY <2>3 DEF DirItem
    <3>2. y = a
      BY <1>0, <1>2, <3>1
    <3>3. Works(x.s, t, Z, O, {}) /\ Got(t, Z, d, i)
      <4> HIDE DEF d, i
      <4>1. Works(x.s, BlockOrNew(x.s, d, i), Z, O, {}) /\ Got(BlockOrNew(x.s, d, i), Z, d, i)
        BY <2>2, <3>1, NewBlock
      <4> QED BY <4>1 DEF d, i
    <3> DEFINE c == IF t.r < 0 THEN rest ELSE TreeSlots(t.out) \o (TreeBlocks(d, i + 1, n) \o rest)
    <3>4. a = [s |-> t, todo |-> c]
      BY DEF TreeBlock
    <3> HIDE DEF t, d, i, n, y, a
    <3>5. Works(s, t, Z, O, {}) /\ t \in St /\ Frame(x.s, t, Z) /\ t.cache[d[1]] # Unmapped
      BY <2>2, <3>1, <3>3, WorksTrans, TreeFacts DEF Works, Good, Frame
    <3>6. Items(x.s, Z) \subseteq Items(t, Z) /\ Items(t, Z) \subseteq AllItems
      BY <3>5, ItemsKept
    <3>7. rest \in Seq(Items(t, Z))
      BY <2>1, <3>6, SeqSub
    <3>8. c \in Seq(Items(t, Z))
      <4>1. CASE t.r < 0
        BY <3>7, <4>1
      <4>2. CASE ~(t.r < 0)
        <5> DEFINE I == Items(t, Z)
                   g == TreeBlocks(d, i + 1, n)
                   h == TreeSlots(t.out)
        <5>1. g \in Seq(I)
          <6> DEFINE j == i + 1
          <6>1. j \in Nat
            BY <3>1
          <6> HIDE DEF j
          <6>2. TreeBlocks(d, j, n) \in Seq(I)
            BY <3>1, <3>5, <6>1, BlocksSeq
          <6> QED BY <6>2 DEF j
        <5>2. h \in Seq(I)
          <6> DEFINE o == t.out
          <6>1. o \in Bno /\ o > 2 /\ t.cache[o] # Unmapped
            BY <3>3, <4>2 DEF Got
          <6> HIDE DEF o
          <6>2. TreeSlots(o) \in Seq(I)
            BY <6>1, SlotsSeq
          <6> QED BY <6>2 DEF o
        <5> HIDE DEF I, g, h
        <5>3. g \o rest \in Seq(I)
          BY <3>7, <5>1, ConcatProperties DEF I
        <5> DEFINE gr == g \o rest
        <5>4. gr \in Seq(I)
          BY <5>3
        <5> HIDE DEF gr
        <5>5. h \o gr \in Seq(I)
          BY <5>2, <5>4, ConcatProperties
        <5> QED BY <4>2, <5>5 DEF I, g, h, gr
      <4> QED BY <4>1, <4>2
    <3>9. c \in Seq(AllItems)
      BY <3>6, <3>8, SeqSub
    <3> HIDE DEF c
    <3>10. y.s = t /\ y.todo = c /\ y \in [s : St, todo : Seq(AllItems)]
      BY <3>2, <3>4, <3>5, <3>9
    <3> QED BY <3>5, <3>8, <3>10 DEF Visiting
  <2>4. CASE top \in FileItem({f \in Loc : f[1] > 2 /\ x.s.cache[f[1]] # Unmapped})
    <3> DEFINE f == top.file
               u == x.s
    <3>1. "bno" \notin DOMAIN top /\ f \in Loc /\ f[1] > 2 /\ u.cache[f[1]] # Unmapped
      BY <2>4 DEF FileItem
    <3>2. y = b
      BY <1>0, <1>2, <3>1
    <3> DEFINE c == IF File(u, f).name # NoName /\ File(u, f).type # FTYPE_REG THEN TreeDir(u, f) \o rest ELSE rest
    <3>3. b = [s |-> u, todo |-> c]
      BY DEF TreeEntry
    <3> HIDE DEF f, u, y, b, top
    <3>4. Works(s, u, Z, O, {}) /\ Good(u, Z, O, {}) /\ u \in St /\ rest \in Seq(Items(u, Z))
      BY <2>1, <2>2 DEF u
    <3>5. c \in Seq(Items(u, Z))
      <4>1. ASSUME File(u, f).type # FTYPE_REG PROVE TreeDir(u, f) \in Seq(Items(u, Z))
        <5>1. f \in Locs(Z)
          <6>0. f[1] \in Bno /\ f[2] \in Slot /\ f = <<f[1], f[2]>>
            BY <3>1 DEF Loc
          <6>1. CASE f[1] \in Z.d
            BY <6>0, <6>1 DEF Locs
          <6>2. CASE f[1] \notin Z.d
            <7>1. u.cache[f[1]] \in OtherBlk
              <8>1. Shape(Mem(u), Z) /\ Mem(u)[f[1]] = u.cache[f[1]]
                BY <3>1, <3>4, <6>0 DEF Good, Core, MemOk, DiskOk, Mem
              <8> QED BY <3>1, <6>0, <6>2, <8>1 DEF Shape
            <7> DEFINE z == u.cache[f[1]]
            <7>2. z.kind \in {"zero", "data", "words"}
              BY <7>1, Kinds
            <7>3. File(u, f) = Files(z)[f[2]]
              BY DEF File
            <7> HIDE DEF z
            <7>4. Files(z)[f[2]] \in {NoFile, [NoFile EXCEPT !.name = "junk"]}
              BY <6>0, <7>2 DEF Files
            <7>5. Files(z)[f[2]].type = FTYPE_REG
              BY <7>4 DEF NoFile
            <7> QED BY <4>1, <7>3, <7>5
          <6> QED BY <6>1, <6>2
        <5>2. File(u, f).size \in Nat
          BY <3>1, <3>4, <5>1, RootKeeps
        <5> DEFINE n == File(u, f).size \div BY2BLK
        <5>3. n \in Nat
          BY <5>2, DivNat
        <5> PICK z \in Nat : z = 0
          OBVIOUS
        <5>4. TreeDir(u, f) = TreeBlocks(f, z, n)
          BY DEF TreeDir
        <5> HIDE DEF n
        <5>5. TreeBlocks(f, z, n) \in Seq(Items(u, Z))
          BY <3>1, <5>1, <5>3, BlocksSeq
        <5> QED BY <5>4, <5>5
      <4>2. ASSUME File(u, f).type # FTYPE_REG PROVE TreeDir(u, f) \o rest \in Seq(Items(u, Z))
        <5> DEFINE I == Items(u, Z)
                   g == TreeDir(u, f)
        <5>1. g \in Seq(I) /\ rest \in Seq(I)
          BY <3>4, <4>1, <4>2
        <5> HIDE DEF I, g
        <5>2. g \o rest \in Seq(I)
          BY <5>1, ConcatProperties
        <5> QED BY <5>2 DEF I, g
      <4> QED BY <3>4, <4>2
    <3>6. Items(u, Z) \subseteq AllItems
      BY ItemsKept, FrameSame
    <3>7. c \in Seq(AllItems)
      BY <3>5, <3>6, SeqSub
    <3> HIDE DEF c
    <3>8. y.s = u /\ y.todo = c /\ y \in [s : St, todo : Seq(AllItems)]
      BY <3>2, <3>3, <3>4, <3>7
    <3> QED BY <3>4, <3>5, <3>8 DEF Visiting
  <2> QED BY <2>1, <2>3, <2>4 DEF Items
<1> QED BY <1>1, <1>2

(* tree_root.                                                              *)
LEMMA TreeGood ==
    ASSUME NEW Z, TreeOk(Z), NEW O, NEW s, Good(s, Z, O, {})
    PROVE  Good(tree_root(s), Z, O, {})
<1> DEFINE c == TreeDir(s, Root)
           s0 == [s |-> s, todo |-> c]
           lo == 0
           hi == NBLOCK * (FILE2BLK + 1)
           n == Count(lo, hi)
           B == {x \in [s : St, todo : Seq(AllItems)] : Visiting(s, x, Z, O)}
           S == [k \in 0..n |-> B]
           e == TreeLoop(s0, lo, hi)
<1>1. tree_root(s) = e.s
  BY DEF tree_root, to_tree_dir, TreeLoop, TreeVisit, TreeBlock, TreeEntry, TreeDir, TreeBlocks, TreeSlots
<1>2. lo \in Nat /\ hi \in Nat /\ n \in Nat /\ n = Count(lo, hi)
  <2>1. NBLOCK \in Nat /\ FILE2BLK + 1 \in Nat
    BY Sizes
  <2> DEFINE q == FILE2BLK + 1
  <2>2. NBLOCK \in Nat /\ q \in Nat
    BY <2>1
  <2> HIDE DEF q
  <2>3. NBLOCK * q \in Nat
    BY <2>2
  <2>4. hi \in Nat
    BY <2>3 DEF q
  <2> HIDE DEF hi
  <2> QED BY <2>4 DEF Count
<1>3. s0 \in B
  <2>1. Root \in Locs(Z) /\ s.cache[Root[1]] # Unmapped /\ s \in St
    <3>1. Root[1] = 1
      BY DEF Root
    <3> QED BY <3>1, TreeFacts DEF Good, Core
  <2>2. File(s, Root).size \in Nat
    BY <2>1, RootKeeps
  <2> DEFINE k == File(s, Root).size \div BY2BLK
  <2>3. k \in Nat
    BY <2>2, DivNat
  <2> PICK z \in Nat : z = 0
    OBVIOUS
  <2>4. c = TreeBlocks(Root, z, k)
    BY DEF TreeDir
  <2> HIDE DEF k, c
  <2>5. c \in Seq(Items(s, Z))
    BY <2>1, <2>3, <2>4, BlocksSeq
  <2>6. Items(s, Z) \subseteq AllItems
    BY ItemsKept, FrameSame
  <2>7. c \in Seq(AllItems)
    BY <2>5, <2>6, SeqSub
  <2>8. Works(s, s, Z, O, {})
    BY FrameSame DEF Works
  <2>9. s0 \in [s : St, todo : Seq(AllItems)] /\ s0.s = s /\ s0.todo = c
    BY <2>1, <2>7
  <2> HIDE DEF s0
  <2> QED BY <2>5, <2>8, <2>9 DEF Visiting
<1> HIDE DEF e, s0, lo, hi, n, c
<1>4. s0 \in S[0]
  BY <1>2, <1>3
<1>5. ASSUME NEW k \in 1..n, NEW t \in S[k - 1] PROVE TreeVisit(t) \in S[k]
  <2>1. k - 1 \in 0..n /\ k \in 0..n
    BY <1>2
  <2>2. t \in [s : St, todo : Seq(AllItems)] /\ Visiting(s, t, Z, O)
    BY <1>5, <2>1
  <2> DEFINE u == TreeVisit(t)
  <2>3. Visiting(s, u, Z, O) /\ u \in [s : St, todo : Seq(AllItems)]
    BY <2>2, VisitGood
  <2> HIDE DEF u
  <2>5. u \in S[k]
    BY <2>1, <2>3
  <2> QED BY <2>5 DEF u
<1> HIDE DEF S
<1>6. e \in S[n]
  BY <1>2, <1>4, <1>5, TreeLoopIn DEF e
<1>7. Visiting(s, e, Z, O)
  BY <1>2, <1>6 DEF S
<1> QED BY <1>1, <1>7 DEF Visiting, Works

(* States of the server while it starts.                                   *)
Caches == [Bno -> Blk \cup {Unmapped}]
Boot == [cache : Caches, dirty : SUBSET Bno, wq : Seq(Bno \X Blk), super : {TRUE, FALSE}, bitmap : {TRUE, FALSE},
         panic : Starts, r : Int, out : Out]

(* Two pages are not too many.                                             *)
LEMMA FewPages ==
    ASSUME NEW s, NEW x, NEW y, \A a \in Bno : s.cache[a] # Unmapped => a \in {x, y}
    PROVE  Pages(s) < MaxPages /\ Pages(s) \in Nat
<1> DEFINE S == {a \in Bno : s.cache[a] # Unmapped}
           T == {x, y}
<1>1. IsFiniteSet({x}) /\ Cardinality({x}) = 1
  BY FS_Singleton
<1>2. {x} \cup {y} = T
  OBVIOUS
<1>3. IsFiniteSet({x} \cup {y}) /\ Cardinality({x} \cup {y}) = IF y \in {x} THEN Cardinality({x}) ELSE Cardinality({x}) + 1
  BY <1>1, FS_AddElement
<1>4. IsFiniteSet(T) /\ Cardinality(T) <= 2
  BY <1>1, <1>2, <1>3
<1>5. S \subseteq T /\ Pages(s) = Cardinality(S)
  BY DEF Pages
<1> HIDE DEF S, T
<1>6. Cardinality(S) <= Cardinality(T) /\ Cardinality(S) \in Nat /\ Cardinality(T) \in Nat
  BY <1>4, <1>5, FS_Subset, FS_CardinalityType
<1>7. Cardinality(S) < MaxPages
  BY <1>4, <1>6, Sizes
<1> QED BY <1>5, <1>6, <1>7

(* read_block before the bitmap is there.                                  *)
LEMMA BootRead ==
    ASSUME NEW s \in Boot, ~s.bitmap, NEW b \in Bno, s.cache[b] = Unmapped,
           NEW x, NEW y, \A a \in Bno : s.cache[a] # Unmapped => a \in {x, y}, ide_read(s, b) \in Blk
    PROVE  /\ read_block(s, b) \in Boot
           /\ read_block(s, b).cache = [s.cache EXCEPT ![b] = ide_read(s, b)]
           /\ read_block(s, b).dirty = s.dirty \ {b}
           /\ read_block(s, b).wq = s.wq /\ read_block(s, b).panic = s.panic
           /\ read_block(s, b).super = s.super /\ ~read_block(s, b).bitmap
           /\ read_block(s, b).r = 0
<1> DEFINE v == ide_read(s, b)
           t == [s EXCEPT !.cache[b] = v, !.dirty = @ \ {b}]
           u == RetOut(t, b)
<1>1. Pages(s) < MaxPages /\ Pages(s) \in Nat
  BY FewPages
<1>2. ~(b >= NBLOCK) /\ ~(Pages(s) >= MaxPages)
  BY <1>1, Sizes DEF Bno
<1>3. ~block_is_mapped(s, b)
  BY DEF block_is_mapped
<1>4. read_block(s, b) = u
  BY <1>2, <1>3 DEF read_block
<1>5. v \in Blk
  OBVIOUS
<1> HIDE DEF v
<1>6. t \in Boot
  BY <1>5 DEF Boot, Caches
<1>7. t.cache = [s.cache EXCEPT ![b] = v] /\ t.dirty = s.dirty \ {b} /\ t.wq = s.wq /\ t.panic = s.panic
      /\ t.super = s.super /\ t.bitmap = s.bitmap
  BY <1>5 DEF Boot, Caches
<1>8. u = RetOut(t, b) /\ b \in Out
  BY DEF Out, Bno
<1> HIDE DEF t, u
<1>9. u \in Boot
  <2>1. PICK z \in Int : z = 0
    OBVIOUS
  <2>2. u = [t EXCEPT !.r = z, !.out = b]
    BY <1>8, <2>1 DEF RetOut
  <2>3. [t EXCEPT !.r = z, !.out = b] \in Boot
    BY <1>6, <1>8 DEF Boot
  <2> QED BY <2>2, <2>3
<1>10. u.cache = t.cache /\ u.dirty = t.dirty /\ u.wq = t.wq /\ u.panic = t.panic /\ u.super = t.super
       /\ u.bitmap = t.bitmap /\ u.r = 0
  BY <1>6, <1>8 DEF Boot, RetOut
<1> QED BY <1>4, <1>7, <1>9, <1>10 DEF v

(* A store while the server starts.                                        *)
LEMMA BootStore ==
    ASSUME NEW s \in Boot, NEW b \in Bno, NEW c \in Blk
    PROVE  /\ StoreBlock(s, b, c) \in Boot /\ StoreBlock(s, b, c).cache = [s.cache EXCEPT ![b] = c]
           /\ StoreBlock(s, b, c).dirty = s.dirty \cup {b}
           /\ StoreBlock(s, b, c).wq = s.wq /\ StoreBlock(s, b, c).panic = s.panic
           /\ (StoreBlock(s, b, c).bitmap <=> s.bitmap)
<1> DEFINE t == StoreBlock(s, b, c)
<1>1. t \in Boot
  BY DEF StoreBlock, Boot, Caches
<1>2. t.cache = [s.cache EXCEPT ![b] = c] /\ t.dirty = s.dirty \cup {b}
  BY DEF StoreBlock, Boot, Caches
<1>3. t.wq = s.wq /\ t.panic = s.panic /\ (t.bitmap <=> s.bitmap)
  BY DEF StoreBlock, Boot, Caches
<1> QED BY <1>1, <1>2, <1>3

(* write_block while the server starts.                                    *)
LEMMA BootWrite ==
    ASSUME NEW s \in Boot, s.panic = NoPanic, NEW b \in Bno, s.cache[b] # Unmapped
    PROVE  /\ write_block(s, b) \in Boot /\ write_block(s, b).cache = s.cache /\ write_block(s, b).dirty = s.dirty
           /\ write_block(s, b).wq = Append(s.wq, <<b, s.cache[b]>>)
           /\ write_block(s, b).panic = s.panic /\ (write_block(s, b).bitmap <=> s.bitmap)
<1> DEFINE x == <<b, s.cache[b]>>
           q == Append(s.wq, x)
           t == write_block(s, b)
<1>1. block_is_mapped(s, b)
  BY DEF block_is_mapped
<1>2. t = [s EXCEPT !.wq = q]
  BY <1>1 DEF write_block
<1>3. x \in Bno \X Blk /\ s.wq \in Seq(Bno \X Blk)
  BY DEF Boot, Caches
<1> HIDE DEF x
<1>4. q \in Seq(Bno \X Blk)
  BY <1>3
<1>5. q = Append(s.wq, <<b, s.cache[b]>>)
  BY DEF x
<1> HIDE DEF q, t
<1>6. t \in Boot
  BY <1>2, <1>4 DEF Boot
<1>7. t.cache = s.cache /\ t.dirty = s.dirty /\ t.wq = q
      /\ t.panic = s.panic /\ (t.bitmap <=> s.bitmap)
  BY <1>2 DEF Boot
<1> QED BY <1>5, <1>6, <1>7 DEF t

(* A second write.                                                         *)
LEMMA AppendTwo ==
    ASSUME NEW x, NEW y
    PROVE  Append(<<x>>, y) = <<x, y>>
<1> DEFINE S == {x, y}
<1>1. <<x>> \in Seq(S) /\ y \in S /\ x \in S
  OBVIOUS
<1>2. Append(<<x>>, y) = [i \in 1..2 |-> IF i = 2 THEN y ELSE x]
  OBVIOUS
<1>3. <<x, y>> = [i \in 1..2 |-> IF i = 2 THEN y ELSE x]
  OBVIOUS
<1> QED BY <1>2, <1>3

(* Only super and bitmap differ.                                           *)
Flags(t, s) ==
    /\ t \in Boot /\ t.cache = s.cache /\ t.dirty = s.dirty /\ t.wq = s.wq /\ t.panic = s.panic /\ t.r = s.r

(* super and bitmap are set.                                               *)
LEMMA BootFlags ==
    ASSUME NEW s \in Boot
    PROVE  /\ Flags([s EXCEPT !.super = TRUE], s) /\ [s EXCEPT !.super = TRUE].super
           /\ ([s EXCEPT !.super = TRUE].bitmap <=> s.bitmap)
           /\ Flags([s EXCEPT !.super = FALSE], s) /\ ~[s EXCEPT !.super = FALSE].super
           /\ ([s EXCEPT !.super = FALSE].bitmap <=> s.bitmap)
           /\ Flags([s EXCEPT !.bitmap = TRUE], s) /\ [s EXCEPT !.bitmap = TRUE].bitmap
           /\ ([s EXCEPT !.bitmap = TRUE].super <=> s.super)
<1>1. [s EXCEPT !.super = TRUE] \in Boot /\ [s EXCEPT !.super = FALSE] \in Boot /\ [s EXCEPT !.bitmap = TRUE] \in Boot
  BY DEF Boot
<1> QED BY <1>1 DEF Boot, Flags

(* ide_read with no write under way.                                       *)
LEMMA FirstRead ==
    ASSUME NEW s, s.wq = <<>>, NEW b
    PROVE  ide_read(s, b) = disk[b]
<1>1. Len(s.wq) = 0
  OBVIOUS
<1>2. {k \in 1..Len(s.wq) : s.wq[k][1] = b} = {}
  BY <1>1
<1> QED BY <1>2 DEF ide_read

(* ide_read behind one write.                                              *)
LEMMA SecondRead ==
    ASSUME NEW s, NEW a, NEW c, s.wq = <<<<a, c>>>>, NEW b
    PROVE  ide_read(s, b) = IF a = b THEN c ELSE disk[b]
<1> DEFINE w == {k \in 1..Len(s.wq) : s.wq[k][1] = b}
<1>1. Len(s.wq) = 1 /\ s.wq[1][1] = a /\ s.wq[1][2] = c
  OBVIOUS
<1>2. ide_read(s, b) = IF w = {} THEN disk[b] ELSE s.wq[Max(w)][2]
  BY DEF ide_read
<1>3. w = IF a = b THEN {1} ELSE {}
  BY <1>1
<1> HIDE DEF w
<1>4. Max({1}) = 1
  BY MaxIs
<1> QED BY <1>1, <1>2, <1>3, <1>4

(* ide_read behind two writes to another block.                            *)
LEMMA LastRead ==
    ASSUME NEW s, NEW a, NEW c, NEW d, s.wq = <<<<a, c>>, <<a, d>>>>, NEW b, a # b
    PROVE  ide_read(s, b) = disk[b]
<1> DEFINE w == {k \in 1..Len(s.wq) : s.wq[k][1] = b}
<1>1. Len(s.wq) = 2 /\ s.wq[1][1] = a /\ s.wq[2][1] = a
  OBVIOUS
<1>2. w = {}
  <2>1. \A k \in 1..Len(s.wq) : k = 1 \/ k = 2
    BY <1>1
  <2> QED BY <1>1, <2>1
<1> QED BY <1>2 DEF ide_read

(* read_super with check_write_block: without the magic number it panics;  *)
(* otherwise block 1 was overwritten and written back as it was.           *)
LEMMA ReadSuper ==
    ASSUME disk \in [Bno -> Blk],
           NEW s \in Boot, ~s.bitmap, s.cache = NothingCached, s.wq = <<>>, s.dirty = {}, s.panic = NoPanic
    PROVE  /\ disk[1].kind # "super" =>
                /\ read_super(s).r = PANIC /\ read_super(s).wq = <<>>
                /\ read_super(s).panic = "bad file system magic number"
           /\ disk[1].kind = "super" =>
                /\ read_super(s) \in Boot /\ read_super(s).r = 0 /\ read_super(s).panic = NoPanic
                /\ read_super(s).wq = <<>> /\ read_super(s).dirty = {}
                /\ read_super(s).super /\ ~read_super(s).bitmap
                /\ read_super(s).cache = [NothingCached EXCEPT ![1] = disk[1]]
<1> DEFINE one == 1
           t == read_block(s, one)
           e == user_panic(t, "bad file system magic number")
           w == [t EXCEPT !.super = TRUE]
           u == read_super(s)
<1>1. u = IF t.r < 0 THEN t ELSE IF t.cache[one].kind # "super" THEN e ELSE w
  BY DEF read_super, Try
<1>2. \A a \in Bno : s.cache[a] = Unmapped
  BY DEF NothingCached
<1>3. ide_read(s, one) = disk[one] /\ disk[one] \in Blk /\ one \in Bno
  BY FirstRead, Sizes DEF Bno
<1>30. one = 1
  OBVIOUS
<1> HIDE DEF one
<1>4. /\ t \in Boot /\ t.cache = [s.cache EXCEPT ![one] = disk[one]] /\ t.dirty = s.dirty \ {one} /\ t.wq = s.wq
      /\ t.panic = s.panic /\ ~t.bitmap /\ t.r = 0
  <2>1. \A a \in Bno : s.cache[a] # Unmapped => a \in {one, one}
    BY <1>2
  <2>2. s.cache[one] = Unmapped /\ ide_read(s, one) \in Blk
    BY <1>2, <1>3
  <2>3. /\ t \in Boot /\ t.cache = [s.cache EXCEPT ![one] = ide_read(s, one)] /\ t.dirty = s.dirty \ {one} /\ t.wq = s.wq
        /\ t.panic = s.panic /\ ~t.bitmap /\ t.r = 0
    BY ONLY s \in Boot, ~s.bitmap, <1>3, <2>1, <2>2, BootRead
  <2> QED BY ONLY <1>3, <2>3
<1>5. t.cache[one] = disk[one] /\ t.cache = [NothingCached EXCEPT ![1] = disk[1]]
  <2> HIDE DEF t
  <2>1. s.cache \in Caches
    BY DEF Boot
  <2>2. t.cache[one] = disk[one]
    BY ONLY <2>1, <1>3, <1>4 DEF Caches
  <2>3. t.cache = [NothingCached EXCEPT ![1] = disk[1]]
    BY <1>4, <1>30
  <2> QED BY <2>2, <2>3
<1>50. t.panic = NoPanic /\ t.wq = <<>> /\ t.dirty = {}
  BY <1>4
<1> SUFFICES /\ disk[one].kind # "super" =>
                   u.r = PANIC /\ u.wq = <<>> /\ u.panic = "bad file system magic number"
             /\ disk[one].kind = "super" =>
                   /\ u \in Boot /\ u.r = 0 /\ u.panic = NoPanic /\ u.wq = <<>> /\ u.dirty = {}
                   /\ u.super /\ ~u.bitmap
                   /\ u.cache = [NothingCached EXCEPT ![1] = disk[1]]
  BY <1>30
<1>51. ~(t.r < 0) /\ t.cache[one] = disk[one]
  BY ONLY <1>4, <1>5
<1>52. disk[one].kind # "super" => u = e
  <2> HIDE DEF t, u, e, w
  <2> QED BY ONLY <1>1, <1>51
<1>53. disk[one].kind = "super" => u = w
  <2> HIDE DEF t, u, e, w
  <2> QED BY ONLY <1>1, <1>51
<1> HIDE DEF t, u
<1>6. CASE disk[one].kind # "super"
  <2>1. u = e
    BY ONLY <1>52, <1>6
  <2>2. e = [t EXCEPT !.panic = "bad file system magic number", !.r = PANIC]
    BY ONLY <1>50 DEF user_panic
  <2>3. e.r = PANIC /\ e.wq = t.wq /\ e.panic = "bad file system magic number"
    BY ONLY <1>4, <2>2 DEF Boot
  <2> HIDE DEF e
  <2> QED BY ONLY <1>50, <1>6, <2>1, <2>3
<1>7. CASE disk[one].kind = "super"
  <2>1. u = w
    BY ONLY <1>53, <1>7
  <2>2. Flags(w, t) /\ w.super /\ (w.bitmap <=> t.bitmap)
    BY ONLY <1>4, BootFlags
  <2> HIDE DEF w
  <2>3. Flags(u, t) /\ u.super /\ ~u.bitmap
    BY ONLY <2>1, <2>2, <1>4
  <2> QED BY ONLY <1>4, <1>5, <1>50, <1>7, <2>3 DEF Flags
<1> QED BY ONLY <1>6, <1>7

(* The server has read the super block, and has checked that it can be written. *)
LEMMA CheckWrite ==
    ASSUME disk \in [Bno -> Blk],
           NEW s \in Boot, ~s.bitmap, s.cache = [NothingCached EXCEPT ![1] = disk[1]], s.wq = <<>>, s.dirty = {},
           s.panic = NoPanic
    PROVE  /\ check_write_block(s) \in Boot /\ check_write_block(s).panic = NoPanic
           /\ check_write_block(s).super /\ ~check_write_block(s).bitmap
           /\ check_write_block(s).dirty = {0, 1}
           /\ check_write_block(s).wq = <<<<1, Smashed>>, <<1, disk[1]>>>>
           /\ check_write_block(s).cache
              = [b \in Bno |-> IF b = 0 \/ b = 1 THEN disk[1] ELSE Unmapped]
<1> DEFINE zero == 0
           one == 1
           d1 == disk[one]
           a == [s EXCEPT !.super = FALSE]
           t == read_block(a, zero)
           f1 == StoreBlock(t, zero, t.cache[one])
           f2 == StoreBlock(f1, one, Smashed)
           f3 == write_block(f2, one)
           g == [f3 EXCEPT !.cache[one] = Unmapped, !.dirty = @ \ {one}]
           h == read_block(g, one)
           j == IF h.cache[one] # Smashed THEN user_panic(h, "assertion failed") ELSE h
           k == StoreBlock(j, one, j.cache[zero])
           l == write_block(k, one)
           e == [l EXCEPT !.super = TRUE]
           u == check_write_block(s)
<1>1. u = IF t.r < 0 THEN t ELSE e
  BY DEF check_write_block, Try
<1>2. /\ zero \in Bno /\ one \in Bno /\ zero # one /\ d1 \in Blk /\ Smashed \in Blk /\ d1 # Unmapped /\ Smashed # Unmapped
      /\ disk[zero] \in Blk /\ disk[zero] # Unmapped
  <2>1. zero \in Bno /\ one \in Bno /\ zero # one
    BY Sizes DEF Bno
  <2>2. Smashed \in Blk
    BY DEF Blk
  <2> HIDE DEF zero, one
  <2> QED BY <2>1, <2>2, Kinds
<1>3. zero = 0 /\ one = 1 /\ d1 = disk[1]
  OBVIOUS
<1>4. /\ s.cache \in Caches /\ s.cache[one] = d1
      /\ \A b \in Bno : b # one => s.cache[b] = Unmapped
  <2>1. s.cache \in Caches
    BY DEF Boot
  <2> QED BY <1>2, <2>1 DEF NothingCached
<1>40. /\ {0, 1} = {zero, one} /\ <<<<1, Smashed>>, <<1, disk[1]>>>> = <<<<one, Smashed>>, <<one, d1>>>>
       /\ [b \in Bno |-> IF b = 0 \/ b = 1 THEN disk[1] ELSE Unmapped]
          = [b \in Bno |-> IF b = zero \/ b = one THEN d1 ELSE Unmapped]
  OBVIOUS
<1> SUFFICES /\ u \in Boot /\ u.panic = NoPanic /\ u.super /\ ~u.bitmap /\ u.dirty = {zero, one}
             /\ u.wq = <<<<one, Smashed>>, <<one, d1>>>>
             /\ u.cache = [b \in Bno |-> IF b = zero \/ b = one THEN d1 ELSE Unmapped]
  BY <1>40
<1>50. d1 = disk[one]
  OBVIOUS
<1> HIDE DEF zero, one, d1
<1>5. Flags(a, s) /\ ~a.bitmap
  BY ONLY s \in Boot, ~s.bitmap, BootFlags
<1>51. /\ a \in Boot /\ ~a.bitmap /\ a.cache = s.cache /\ a.dirty = {} /\ a.wq = <<>> /\ a.panic = NoPanic
  BY <1>5 DEF Flags
<1> HIDE DEF a
<1>6. /\ t \in Boot /\ ~t.bitmap /\ t.cache = [s.cache EXCEPT ![zero] = disk[zero]] /\ t.dirty = {} /\ t.wq = <<>>
      /\ t.panic = NoPanic /\ t.r = 0
  <2>1. \A b \in Bno : a.cache[b] # Unmapped => b \in {zero, one}
    BY ONLY <1>4, <1>51
  <2>2. a.cache[zero] = Unmapped
    BY ONLY <1>2, <1>4, <1>51
  <2>3. ide_read(a, zero) = disk[zero]
    BY ONLY <1>51, FirstRead
  <2>4. ide_read(a, zero) \in Blk
    BY ONLY <1>2, <2>3
  <2>5. /\ t \in Boot /\ ~t.bitmap /\ t.cache = [a.cache EXCEPT ![zero] = ide_read(a, zero)] /\ t.dirty = a.dirty \ {zero}
        /\ t.wq = a.wq /\ t.panic = a.panic /\ t.r = 0
    BY ONLY <1>2, <1>51, <2>1, <2>2, <2>4, BootRead
  <2> HIDE DEF t
  <2> QED BY ONLY <1>51, <2>3, <2>5
<1> HIDE DEF t
<1>61. /\ t.cache \in Caches /\ t.cache[one] = d1
       /\ \A b \in Bno : b # one /\ b # zero => t.cache[b] = Unmapped
  BY ONLY <1>2, <1>4, <1>6 DEF Caches
<1>7. /\ f1 \in Boot /\ ~f1.bitmap /\ f1.cache = [t.cache EXCEPT ![zero] = d1] /\ f1.dirty = {zero} /\ f1.wq = <<>>
      /\ f1.panic = NoPanic
  <2> DEFINE v == t.cache[one]
  <2>1. v \in Blk /\ v = d1 /\ f1 = StoreBlock(t, zero, v)
    BY ONLY <1>2, <1>61
  <2> HIDE DEF v
  <2>11. t \in Boot /\ zero \in Bno /\ v \in Blk
    BY ONLY <1>2, <1>6, <2>1
  <2>2. /\ StoreBlock(t, zero, v) \in Boot /\ StoreBlock(t, zero, v).cache = [t.cache EXCEPT ![zero] = v]
        /\ StoreBlock(t, zero, v).dirty = t.dirty \cup {zero}
        /\ StoreBlock(t, zero, v).wq = t.wq /\ StoreBlock(t, zero, v).panic = t.panic /\ (StoreBlock(t, zero, v).bitmap <=> t.bitmap)
    BY ONLY <2>11, BootStore
  <2> HIDE DEF f1
  <2>20. /\ f1 \in Boot /\ f1.cache = [t.cache EXCEPT ![zero] = v] /\ f1.dirty = t.dirty \cup {zero}
        /\ f1.wq = t.wq /\ f1.panic = t.panic /\ (f1.bitmap <=> t.bitmap)
    BY ONLY <2>1, <2>2
  <2> QED BY ONLY <1>6, <2>1, <2>20
<1> HIDE DEF f1
<1>8. /\ f2 \in Boot /\ ~f2.bitmap /\ f2.cache = [f1.cache EXCEPT ![one] = Smashed] /\ f2.dirty = {zero} \cup {one}
      /\ f2.wq = <<>> /\ f2.panic = NoPanic
  <2> DEFINE v == Smashed
  <2>1. v \in Blk /\ v = Smashed /\ f2 = StoreBlock(f1, one, v)
    BY ONLY <1>2
  <2> HIDE DEF v
  <2>11. f1 \in Boot /\ one \in Bno /\ v \in Blk
    BY ONLY <1>2, <1>7, <2>1
  <2>2. /\ StoreBlock(f1, one, v) \in Boot /\ StoreBlock(f1, one, v).cache = [f1.cache EXCEPT ![one] = v]
        /\ StoreBlock(f1, one, v).dirty = f1.dirty \cup {one}
        /\ StoreBlock(f1, one, v).wq = f1.wq /\ StoreBlock(f1, one, v).panic = f1.panic /\ (StoreBlock(f1, one, v).bitmap <=> f1.bitmap)
    BY ONLY <2>11, BootStore
  <2> HIDE DEF f2
  <2>20. /\ f2 \in Boot /\ f2.cache = [f1.cache EXCEPT ![one] = v] /\ f2.dirty = f1.dirty \cup {one}
        /\ f2.wq = f1.wq /\ f2.panic = f1.panic /\ (f2.bitmap <=> f1.bitmap)
    BY ONLY <2>1, <2>2
  <2> QED BY ONLY <1>7, <2>1, <2>20
<1> HIDE DEF f2
<1>81. /\ f2.cache \in Caches /\ f2.cache[one] = Smashed /\ f2.cache[zero] = d1
       /\ \A b \in Bno : b # one /\ b # zero => f2.cache[b] = Unmapped
  BY ONLY <1>2, <1>61, <1>7, <1>8 DEF Caches
<1>9. /\ f3 \in Boot /\ ~f3.bitmap /\ f3.cache = f2.cache /\ f3.dirty = {zero} \cup {one}
      /\ f3.wq = <<<<one, Smashed>>>> /\ f3.panic = NoPanic
  <2>1. f3 = write_block(f2, one) /\ f2.cache[one] # Unmapped
    BY ONLY <1>2, <1>81
  <2>11. f2 \in Boot /\ one \in Bno /\ f2.panic = NoPanic /\ f2.cache[one] # Unmapped
    BY ONLY <1>2, <1>8, <2>1
  <2>2. /\ f3 \in Boot /\ f3.cache = f2.cache /\ f3.dirty = f2.dirty
        /\ f3.wq = Append(f2.wq, <<one, f2.cache[one]>>) /\ f3.panic = f2.panic /\ (f3.bitmap <=> f2.bitmap)
    BY ONLY <2>11, BootWrite
  <2> HIDE DEF f3
  <2>3. Append(<<>>, <<one, Smashed>>) = <<<<one, Smashed>>>>
    OBVIOUS
  <2> QED BY ONLY <1>8, <1>81, <2>2, <2>3
<1> HIDE DEF f3
<1>10. /\ g \in Boot /\ ~g.bitmap /\ g.cache = [f3.cache EXCEPT ![one] = Unmapped] /\ g.dirty = {zero}
       /\ g.wq = f3.wq /\ g.panic = NoPanic
  <2>1. g \in Boot
    BY ONLY <1>2, <1>9 DEF Boot, Caches
  <2>2. g.cache = [f3.cache EXCEPT ![one] = Unmapped] /\ g.dirty = f3.dirty \ {one} /\ (g.bitmap <=> f3.bitmap)
        /\ g.wq = f3.wq /\ g.panic = f3.panic
    BY ONLY <1>2, <1>9 DEF Boot, Caches
  <2>3. ({zero} \cup {one}) \ {one} = {zero}
    BY ONLY <1>2
  <2> HIDE DEF g
  <2> QED BY ONLY <1>9, <2>1, <2>2, <2>3
<1> HIDE DEF g
<1>101. /\ g.cache \in Caches /\ g.cache[one] = Unmapped /\ g.cache[zero] = d1
        /\ \A b \in Bno : b # zero => g.cache[b] = Unmapped
  <2>1. g.cache = [f2.cache EXCEPT ![one] = Unmapped]
    BY ONLY <1>9, <1>10
  <2> QED BY ONLY <1>2, <1>81, <2>1 DEF Caches
<1>11. /\ h \in Boot /\ ~h.bitmap /\ h.cache = [g.cache EXCEPT ![one] = Smashed] /\ h.dirty = {zero}
       /\ h.wq = <<<<one, Smashed>>>> /\ h.panic = NoPanic
  <2>1. \A b \in Bno : g.cache[b] # Unmapped => b \in {zero, one}
    BY ONLY <1>101
  <2>3. ide_read(g, one) = Smashed
    <3>1. g.wq = <<<<one, Smashed>>>>
      BY ONLY <1>9, <1>10
    <3> QED BY ONLY <3>1, SecondRead
  <2>4. ide_read(g, one) \in Blk
    BY ONLY <1>2, <2>3
  <2>5. /\ h \in Boot /\ ~h.bitmap /\ h.cache = [g.cache EXCEPT ![one] = ide_read(g, one)] /\ h.dirty = g.dirty \ {one}
        /\ h.wq = g.wq /\ h.panic = g.panic
    BY ONLY <1>2, <1>10, <1>101, <2>1, <2>4, BootRead
  <2>6. {zero} \ {one} = {zero} /\ g.wq = <<<<one, Smashed>>>>
    BY ONLY <1>2, <1>9, <1>10
  <2> HIDE DEF h
  <2> QED BY ONLY <1>10, <2>3, <2>5, <2>6
<1> HIDE DEF h
<1>111. h.cache[one] = Smashed /\ h.cache[zero] = d1 /\ h.cache \in Caches
        /\ \A b \in Bno : b # one /\ b # zero => h.cache[b] = Unmapped
  BY ONLY <1>2, <1>101, <1>11 DEF Caches
<1>12. j = h
  BY ONLY <1>111
<1> HIDE DEF j
<1>13. /\ k \in Boot /\ ~k.bitmap /\ k.cache = [h.cache EXCEPT ![one] = d1] /\ k.dirty = {zero} \cup {one}
       /\ k.wq = <<<<one, Smashed>>>> /\ k.panic = NoPanic
  <2> DEFINE v == h.cache[zero]
  <2>1. v \in Blk /\ v = d1 /\ k = StoreBlock(h, one, v)
    BY ONLY <1>2, <1>111, <1>12
  <2> HIDE DEF v
  <2>11. h \in Boot /\ one \in Bno /\ v \in Blk
    BY ONLY <1>2, <1>11, <2>1
  <2>2. /\ StoreBlock(h, one, v) \in Boot /\ StoreBlock(h, one, v).cache = [h.cache EXCEPT ![one] = v]
        /\ StoreBlock(h, one, v).dirty = h.dirty \cup {one}
        /\ StoreBlock(h, one, v).wq = h.wq /\ StoreBlock(h, one, v).panic = h.panic /\ (StoreBlock(h, one, v).bitmap <=> h.bitmap)
    BY ONLY <2>11, BootStore
  <2> HIDE DEF k
  <2>20. /\ k \in Boot /\ k.cache = [h.cache EXCEPT ![one] = v] /\ k.dirty = h.dirty \cup {one}
        /\ k.wq = h.wq /\ k.panic = h.panic /\ (k.bitmap <=> h.bitmap)
    BY ONLY <2>1, <2>2
  <2> QED BY ONLY <1>11, <2>1, <2>20
<1> HIDE DEF k
<1>131. /\ k.cache \in Caches /\ k.cache[one] = d1 /\ k.cache[zero] = d1
        /\ \A b \in Bno : b # one /\ b # zero => k.cache[b] = Unmapped
  BY ONLY <1>2, <1>111, <1>13 DEF Caches
<1>14. /\ l \in Boot /\ ~l.bitmap /\ l.cache = k.cache /\ l.dirty = {zero} \cup {one}
       /\ l.wq = <<<<one, Smashed>>, <<one, d1>>>> /\ l.panic = NoPanic
  <2>1. l = write_block(k, one) /\ k.cache[one] # Unmapped
    BY ONLY <1>2, <1>131
  <2>11. k \in Boot /\ one \in Bno /\ k.panic = NoPanic /\ k.cache[one] # Unmapped
    BY ONLY <1>2, <1>13, <2>1
  <2>2. /\ l \in Boot /\ l.cache = k.cache /\ l.dirty = k.dirty
        /\ l.wq = Append(k.wq, <<one, k.cache[one]>>) /\ l.panic = k.panic /\ (l.bitmap <=> k.bitmap)
    BY ONLY <2>11, BootWrite
  <2> HIDE DEF l
  <2>3. Append(<<<<one, Smashed>>>>, <<one, d1>>) = <<<<one, Smashed>>, <<one, d1>>>>
    BY ONLY AppendTwo
  <2> QED BY ONLY <1>13, <1>131, <2>2, <2>3
<1> HIDE DEF l
<1>15. Flags(e, l) /\ e.super /\ ~e.bitmap
  BY ONLY <1>14, BootFlags
<1> HIDE DEF e
<1>16. u = e
  <2>1. ~(t.r < 0)
    BY ONLY <1>6
  <2> HIDE DEF u
  <2> QED BY ONLY <1>1, <2>1
<1> HIDE DEF u
<1>17. u \in Boot /\ u.cache = k.cache /\ u.dirty = {zero} \cup {one} /\ u.wq = <<<<one, Smashed>>, <<one, d1>>>>
       /\ u.panic = NoPanic /\ u.super /\ ~u.bitmap
  BY ONLY <1>14, <1>15, <1>16 DEF Flags
<1>18. {zero} \cup {one} = {zero, one}
  OBVIOUS
<1>19. k.cache = [b \in Bno |-> IF b = zero \/ b = one THEN d1 ELSE Unmapped]
  BY ONLY <1>131 DEF Caches
<1> QED BY ONLY <1>17, <1>18, <1>19

(* The state of a server that has just started. *)
Started(s) ==
    /\ s \in Boot /\ s.panic = NoPanic /\ s.super /\ s.bitmap
    /\ s.dirty = {0, 1} /\ s.wq = <<<<1, Smashed>>, <<1, disk[1]>>>>
    /\ s.cache = [b \in Bno |-> IF b = 0 \/ b = 1 THEN disk[1] ELSE IF b = 2 THEN disk[2] ELSE Unmapped]

(* read_bitmap.                                                            *)
LEMMA ReadBitmap ==
    ASSUME disk \in [Bno -> Blk], \A b \in disk[2].free : b > 2,
           NEW s \in Boot, ~s.bitmap, s.super, s.panic = NoPanic,
           s.dirty = {0, 1}, s.wq = <<<<1, Smashed>>, <<1, disk[1]>>>>,
           s.cache = [b \in Bno |-> IF b = 0 \/ b = 1 THEN disk[1] ELSE Unmapped]
    PROVE  Started(read_bitmap(s))
<1> DEFINE two == 2
           t == read_block(s, two)
           u == [t EXCEPT !.bitmap = TRUE]
           e == user_panic(u, "assertion failed")
           w == read_bitmap(s)
<1>1. w = IF u.r < 0 THEN u ELSE IF \E b \in {0, 1, 2} : block_is_free(u, b) THEN e ELSE u
  BY DEF read_bitmap, Try
<1>2. two \in Bno /\ {0, 1, 2} \subseteq Bno /\ disk[two] \in Blk /\ disk[1] \in Blk /\ disk[two] # Unmapped
  <2>1. two \in Bno /\ {0, 1, 2} \subseteq Bno
    BY Sizes DEF Bno
  <2> QED BY <2>1, Kinds
<1>3. two = 2
  OBVIOUS
<1> HIDE DEF two
<1>4. s.cache[two] = Unmapped /\ \A b \in Bno : s.cache[b] # Unmapped => b \in {0, 1}
  BY <1>2, <1>3
<1>5. ide_read(s, two) = disk[two] /\ ide_read(s, two) \in Blk
  <2> PICK one : one = 1
    OBVIOUS
  <2>1. s.wq = <<<<one, Smashed>>, <<one, disk[1]>>>> /\ one # two
    BY <1>3
  <2>2. ide_read(s, two) = disk[two]
    BY ONLY <2>1, LastRead
  <2> QED BY ONLY <1>2, <2>2
<1>6. /\ t \in Boot /\ t.cache = [s.cache EXCEPT ![two] = ide_read(s, two)] /\ t.dirty = s.dirty \ {two}
      /\ t.wq = s.wq /\ t.panic = s.panic /\ (t.super <=> s.super) /\ t.r = 0
  BY ONLY s \in Boot, ~s.bitmap, <1>2, <1>4, <1>5, BootRead
<1> HIDE DEF t
<1>7. Flags(u, t) /\ u.bitmap /\ (u.super <=> t.super)
  BY ONLY <1>6, BootFlags
<1> HIDE DEF u
<1>8. u \in Boot /\ u.bitmap /\ u.super /\ u.r = 0 /\ u.panic = NoPanic /\ u.wq = s.wq /\ u.dirty = s.dirty \ {two}
      /\ u.cache = [s.cache EXCEPT ![two] = disk[two]]
  BY <1>5, <1>6, <1>7 DEF Flags
<1>9. u.cache = [b \in Bno |-> IF b = 0 \/ b = 1 THEN disk[1] ELSE IF b = 2 THEN disk[2] ELSE Unmapped]
  BY <1>3, <1>8
<1>10. u.dirty = {0, 1}
  BY <1>3, <1>8
<1>11. Started(u)
  BY <1>8, <1>9, <1>10 DEF Started
<1>12. ~\E b \in {0, 1, 2} : block_is_free(u, b)
  <2>1. u.cache[2] = disk[2]
    BY <1>2, <1>9
  <2> QED BY <2>1 DEF block_is_free, Free
<1>13. w = u
  <2> HIDE DEF w, e
  <2>1. ~(u.r < 0)
    BY ONLY <1>8
  <2> QED BY ONLY <1>1, <1>12, <2>1
<1> QED BY ONLY <1>11, <1>13

(* fs_init on a disk that nothing of is cached.                            *)
LEMMA InitIs ==
    ASSUME disk \in [Bno -> Blk], \A b \in disk[2].free : b > 2,
           cache = NothingCached, dirty = {}, wq = <<>>
    PROVE  /\ disk[1].kind # "super" =>
                /\ fs_init(S0).wq = <<>> /\ fs_init(S0).panic = "bad file system magic number"
           /\ disk[1].kind = "super" => Started(fs_init(S0))
<1> DEFINE a == [S0 EXCEPT !.super = FALSE, !.bitmap = FALSE]
           t == read_super(a)
           u == check_write_block(t)
           v == read_bitmap(u)
           w == fs_init(S0)
<1>1. w = IF t.r < 0 THEN t ELSE IF u.panic # NoPanic THEN u ELSE v
  BY DEF fs_init, Try, Then
<1>2. a \in Boot /\ ~a.bitmap /\ a.cache = NothingCached /\ a.wq = <<>> /\ a.dirty = {} /\ a.panic = NoPanic
  <2>1. NothingCached \in Caches /\ <<>> \in Seq(Bno \X Blk) /\ NoPanic \in Starts
    BY DEF NothingCached, Caches, Starts, Panics
  <2>2. NoLoc \in Out
    <3>1. NoLoc \in Loc
      BY Sizes DEF NoLoc, Loc, Bno, Slot
    <3> QED BY <3>1 DEF Out
  <2>3. S0 \in Boot /\ S0.cache = NothingCached /\ S0.wq = <<>> /\ S0.dirty = {} /\ S0.panic = NoPanic
    <3>1. cache \in Caches /\ dirty \in SUBSET Bno /\ wq \in Seq(Bno \X Blk)
      BY <2>1
    <3>2. S0 \in Boot
      BY ONLY <2>1, <2>2, <3>1 DEF Boot, S0
    <3>3. S0.cache = cache /\ S0.wq = wq /\ S0.dirty = dirty /\ S0.panic = NoPanic
      BY ONLY TRUE DEF S0
    <3> QED BY <3>2, <3>3
  <2>4. a \in Boot
    BY ONLY <2>3 DEF Boot
  <2>5. ~a.bitmap /\ a.cache = S0.cache /\ a.wq = S0.wq /\ a.dirty = S0.dirty /\ a.panic = S0.panic
    BY ONLY <2>3 DEF Boot
  <2> HIDE DEF a
  <2> QED BY ONLY <2>3, <2>4, <2>5
<1> HIDE DEF a
<1>3. /\ disk[1].kind # "super" =>
                /\ t.r = PANIC /\ t.wq = <<>>
                /\ t.panic = "bad file system magic number"
      /\ disk[1].kind = "super" =>
                /\ t \in Boot /\ t.r = 0 /\ t.panic = NoPanic
                /\ t.wq = <<>> /\ t.dirty = {}
                /\ t.super /\ ~t.bitmap
                /\ t.cache = [NothingCached EXCEPT ![1] = disk[1]]
  BY ONLY disk \in [Bno -> Blk], <1>2, ReadSuper
<1> HIDE DEF t
<1>4. CASE disk[1].kind # "super"
  <2>1. t.r < 0
    BY <1>3, <1>4, Codes
  <2>2. w = t
    <3> HIDE DEF u, v, w
    <3> QED BY ONLY <1>1, <2>1
  <2> HIDE DEF w
  <2>3. w.wq = <<>> /\ w.panic = "bad file system magic number"
    BY ONLY <1>3, <1>4, <2>2
  <2> QED BY <1>4, <2>3 DEF w
<1>5. CASE disk[1].kind = "super"
  <2>1. /\ t \in Boot /\ t.r = 0 /\ t.panic = NoPanic /\ t.wq = <<>> /\ t.dirty = {} /\ ~t.bitmap
        /\ t.cache = [NothingCached EXCEPT ![1] = disk[1]]
    BY ONLY <1>3, <1>5
  <2>2. /\ u \in Boot /\ u.panic = NoPanic /\ u.super /\ ~u.bitmap /\ u.dirty = {0, 1}
        /\ u.wq = <<<<1, Smashed>>, <<1, disk[1]>>>>
        /\ u.cache = [b \in Bno |-> IF b = 0 \/ b = 1 THEN disk[1] ELSE Unmapped]
    BY ONLY disk \in [Bno -> Blk], <2>1, CheckWrite
  <2> HIDE DEF u
  <2>3. Started(v)
    BY ONLY disk \in [Bno -> Blk], \A b \in disk[2].free : b > 2, <2>2, ReadBitmap
  <2>4. w = v
    <3>1. ~(t.r < 0) /\ u.panic = NoPanic
      BY ONLY <2>1, <2>2
    <3> HIDE DEF v, w
    <3> QED BY ONLY <1>1, <3>1
  <2> HIDE DEF v, w
  <2>5. Started(w)
    BY ONLY <2>3, <2>4
  <2> QED BY <1>5, <2>5 DEF w
<1> QED BY <1>4, <1>5

(* A disk stays right when places drop their numbers.                      *)
LEMMA FewerOk ==
    ASSUME NEW Z, TreeOk(Z), NEW m, DiskOk(m, Z), NEW n, Shape(n, Z), Types(n, Z), n[2].free = m[2].free,
           \A x \in Places(Z) : At(n, x) \in {0, At(m, x)}
    PROVE  DiskOk(n, Z)
<1>1. Guarded(n, Z)
  <2>1. \A b \in Z.p : b # 0
    BY TreeFacts
  <2> QED BY <2>1 DEF Guarded, DiskOk
<1>2. Sole(n, FilePlaces(Z))
  <2>1. \A x \in FilePlaces(Z) : x \in Places(Z)
    BY DEF Places
  <2>2. \A x \in FilePlaces(Z) : At(n, x) \in Real => At(n, x) = At(m, x)
    BY <2>1 DEF Real
  <2>3. Sole(m, FilePlaces(Z))
    BY DEF DiskOk
  <2> SUFFICES ASSUME NEW x \in FilePlaces(Z), At(n, x) \in Real
               PROVE  /\ At(n, x) > 2 /\ At(n, x) \notin n[2].free
                      /\ \A y \in FilePlaces(Z) : At(n, y) = At(n, x) => x = y
    BY DEF Sole
  <2>4. At(m, x) = At(n, x) /\ At(m, x) > 2 /\ At(m, x) \notin m[2].free
        /\ \A y \in FilePlaces(Z) : At(m, y) = At(m, x) => x = y
    BY <2>2, <2>3 DEF Sole
  <2>5. ASSUME NEW y \in FilePlaces(Z), At(n, y) = At(n, x) PROVE x = y
    <3>1. At(n, y) \in Real
      BY <2>5
    <3>2. At(m, y) = At(n, y)
      BY <2>2, <3>1
    <3> QED BY <2>4, <2>5, <3>2
  <2> QED BY <2>4, <2>5
<1> QED BY <1>1, <1>2 DEF DiskOk

(* The two writes of check_write_block: between them the super block is    *)
(* smashed.                                                                *)
LEMMA AfterStart ==
    ASSUME disk \in [Bno -> Blk], NEW w, w = <<<<1, Smashed>>, <<1, disk[1]>>>>
    PROVE  /\ Len(w) = 2 /\ w \in Seq(Bno \X Blk) /\ \A k \in 1..2 : w[k][1] = 1
           /\ After(disk, w, 0) = disk /\ After(disk, w, 2) = disk
           /\ After(disk, w, 1) = [disk EXCEPT ![1] = Smashed]
<1>0. 1 \in Bno /\ Smashed \in Blk /\ disk[1] \in Blk
  BY Sizes DEF Bno, Blk
<1>1. Len(w) = 2 /\ w[1] = <<1, Smashed>> /\ w[2] = <<1, disk[1]>>
  OBVIOUS
<1>2. w \in Seq(Bno \X Blk)
  BY <1>0
<1>3. \A k \in 1..2 : w[k][1] = 1
  <2>1. \A k \in 1..2 : k = 1 \/ k = 2
    OBVIOUS
  <2> QED BY <1>1, <2>1
<1>4. After(disk, w, 0) = disk
  BY AfterNone
<1>5. Max({1}) = 1 /\ Max({1, 2}) = 2
  <2>1. Max({1}) = 1
    BY MaxIs
  <2>2. Max({1, 2}) = 2
    BY MaxIs
  <2> QED BY <2>1, <2>2
<1> HIDE DEF After
<1>6. ASSUME NEW b \in Bno PROVE After(disk, w, 2)[b] = disk[b]
  <2> DEFINE on == {j \in 1..2 : w[j][1] = b}
  <2>1. After(disk, w, 2)[b] = IF on = {} THEN disk[b] ELSE w[Max(on)][2]
    BY DEF After
  <2>2. on = IF b = 1 THEN {1, 2} ELSE {}
    BY <1>3
  <2> HIDE DEF on
  <2> QED BY <1>1, <1>5, <2>1, <2>2
<1>7. ASSUME NEW b \in Bno PROVE After(disk, w, 1)[b] = IF b = 1 THEN Smashed ELSE disk[b]
  <2> DEFINE on == {j \in 1..1 : w[j][1] = b}
  <2>1. After(disk, w, 1)[b] = IF on = {} THEN disk[b] ELSE w[Max(on)][2]
    BY DEF After
  <2>2. on = IF b = 1 THEN {1} ELSE {}
    BY <1>3
  <2> HIDE DEF on
  <2> QED BY <1>1, <1>5, <2>1, <2>2
<1>8. After(disk, w, 2) = [b \in Bno |-> After(disk, w, 2)[b]] /\ After(disk, w, 1) = [b \in Bno |-> After(disk, w, 1)[b]]
  BY DEF After
<1>9. After(disk, w, 2) = disk
  BY <1>6, <1>8
<1>10. After(disk, w, 1) = [disk EXCEPT ![1] = Smashed]
  BY <1>7, <1>8
<1> QED BY <1>1, <1>2, <1>3, <1>4, <1>9, <1>10

(* The moment when the super block on the disk is not one. *)
LEMMA SmashedOk ==
    ASSUME NEW Z, TreeOk(Z), NEW m, DiskOk(m, Z), m[1].kind = "super", NEW n, n = [m EXCEPT ![1] = Smashed]
    PROVE  DiskOk(n, Z)
<1>1. Shape(m, Z) /\ Types(m, Z) /\ m \in [Bno -> Blk]
  BY DEF DiskOk, Shape
<1>2. 1 \in Bno /\ Smashed \in Blk
  BY Sizes DEF Bno, Blk
<1>3. n \in [Bno -> Blk] /\ n[1] = Smashed /\ \A b \in Bno : b # 1 => n[b] = m[b]
  BY <1>1, <1>2
<1>4. n[2] = m[2] /\ n[0] = m[0]
  BY <1>3, TreeFacts
<1>5. Shape(n, Z)
  <2>1. \A b \in Bno : b > 2 => n[b] = m[b]
    BY <1>3
  <2> QED BY <1>1, <1>3, <1>4, <2>1 DEF Shape
<1>6. ASSUME NEW f \in Locs(Z), f # Root PROVE FileIn(n, f) = FileIn(m, f)
  <2>1. f[1] \in Bno /\ f[1] # 1
    BY <1>6, TreeFacts
  <2> QED BY <1>3, <2>1 DEF FileIn
<1>7. Types(n, Z)
  BY <1>1, <1>3, <1>6 DEF Types
<1>8. ASSUME NEW x \in Places(Z) PROVE At(n, x) \in {0, At(m, x)}
  <2>1. CASE x[1] = 1 /\ x[2] \in Locs(Z) /\ x[2] # Root
    BY <1>6, <2>1 DEF At
  <2>2. CASE x[1] = 1 /\ x[2] = Root /\ (x[3] = NINDIRECT \/ x[3] \in Direct)
    <3>1. FileIn(n, Root) = [NoFile EXCEPT !.name = "junk"]
      <4>1. Smashed.kind = "oops" /\ Smashed # Zero
        BY Kinds
      <4>2. Root[1] = 1 /\ Root[2] = 0 /\ 0 \in Slot
        BY TreeFacts DEF Root
      <4> QED BY <1>3, <4>1, <4>2 DEF FileIn, Files
    <3>2. FileIn(n, Root).indirect = 0 /\ \A i \in Direct : FileIn(n, Root).direct[i] = 0
      <4>1. [NoFile EXCEPT !.name = "junk"].indirect = 0
        BY DEF NoFile
      <4>2. [NoFile EXCEPT !.name = "junk"].direct = [i \in Direct |-> 0]
        BY DEF NoFile, Direct
      <4> QED BY <3>1, <4>1, <4>2
    <3> QED BY <2>2, <3>2 DEF At
  <2>3. CASE x[1] = 2 /\ x[2] \in Bno
    <3>1. x[2] = 1 => n[x[2]].kind # "words"
      BY <1>3, Kinds
    <3> QED BY <1>3, <2>3, <3>1 DEF At
  <2> QED BY <2>1, <2>2, <2>3, PlaceFacts
<1>9. n[2].free = m[2].free
  BY <1>4
<1> QED BY ONLY TreeOk(Z), DiskOk(m, Z), <1>5, <1>7, <1>8, <1>9, FewerOk

(* Memory when nothing but the super block and the bitmap was read. *)
LEMMA StartMem ==
    ASSUME NEW Z, TreeOk(Z), NEW d, DiskOk(d, Z), d[1].kind = "super", WordsSound(d), NEW m, m \in [Bno -> Blk],
           m[0] = d[1], m[1] = d[1], m[2] = d[2],
           \A b \in Bno : b > 2 => m[b] = IF b \in d[2].free THEN Zero ELSE d[b]
    PROVE  MemOk(m, Z) /\ Rel(d, m, {}, Z)
<1>1. Shape(d, Z) /\ Types(d, Z) /\ Sole(d, FilePlaces(Z))
  BY DEF DiskOk
<1>2. d[1] \in SuperBlk /\ d[1] # Smashed
  BY <1>1, ShapeFacts, Kinds
<1>3. \A b \in d[2].free : b \in Bno /\ b > 2 /\ b \notin Z.p /\ b \notin Z.d
  BY <1>1, ShapeFacts, TreeFacts DEF Real
<1>4. \A b \in Z.d : m[b] = d[b]
  BY <1>3, TreeFacts
<1>5. Shape(m, Z)
  <2>1. \A b \in Bno : b > 2 => m[b] \in IF b \in Z.d THEN FilesBlk ELSE OtherBlk
    <3>1. Zero \in OtherBlk
      BY DEF OtherBlk
    <3>2. \A b \in Bno : b > 2 => d[b] \in IF b \in Z.d THEN FilesBlk ELSE OtherBlk
      BY <1>1 DEF Shape
    <3> QED BY <1>3, <3>1, <3>2
  <2>2. m[2] \in BitmapBlk
    BY <1>1 DEF Shape
  <2> QED BY <1>2, <1>3, <2>1, <2>2 DEF Shape
<1>6. \A f \in Locs(Z) : FileIn(m, f) = FileIn(d, f)
  BY <1>4, TreeFacts DEF FileIn
<1>7. Types(m, Z)
  BY <1>1, <1>2, <1>6 DEF Types
<1>8. \A x \in FilePlaces(Z) : At(m, x) = At(d, x)
  BY <1>6 DEF At, FilePlaces
<1>9. ASSUME NEW x \in WordPlaces
      PROVE  At(m, x) = IF x[2] \in WordBlocks(d) THEN At(d, x) ELSE 0
  <2>1. x[1] = 2 /\ x[2] \in Bno /\ x[3] \in Word
    BY DEF WordPlaces
  <2>2. CASE x[2] > 2
    <3>1. Zero.kind # "words"
      BY Kinds
    <3> QED BY <2>1, <2>2, <3>1 DEF At, WordBlocks
  <2>3. CASE ~(x[2] > 2)
    <3>1. x[2] \in {0, 1, 2}
      BY <2>1, <2>3, Sizes DEF Bno
    <3>2. m[x[2]].kind # "words" /\ d[x[2]].kind # "words"
      BY <1>1, <1>5, <2>1, <2>3, ShapeFacts
    <3> QED BY <2>1, <3>2 DEF At, WordBlocks
  <2> QED BY <2>2, <2>3
<1>10. \A x \in Places(Z) : At(m, x) \in {0, At(d, x)}
  BY <1>8, <1>9 DEF Places
<1>11. DiskOk(m, Z)
  <2>1. m[2].free = d[2].free
    OBVIOUS
  <2> QED BY ONLY TreeOk(Z), DiskOk(d, Z), <1>5, <1>7, <1>10, <2>1, FewerOk
<1>12. AllFiles(d) = Locs(Z)
  BY <1>1, AllFilesAre
<1>13. \A x \in FilePlaces(Z) : x[2] \in AllFiles(d) /\ x[3] \in SafePlaces /\ BlockAt(d, x[2], x[3]) = At(d, x)
  <2> SUFFICES ASSUME NEW x \in FilePlaces(Z)
               PROVE  x[2] \in AllFiles(d) /\ x[3] \in SafePlaces /\ BlockAt(d, x[2], x[3]) = At(d, x)
    OBVIOUS
  <2>1. x[1] = 1 /\ x[2] \in Locs(Z) /\ x[3] \in SafePlaces
    BY DEF FilePlaces
  <2>2. x[3] \in 0..NDIRECT - 1 \/ x[3] = NINDIRECT
    BY <2>1 DEF SafePlaces
  <2>3. (x[3] < NDIRECT <=> x[3] # NINDIRECT)
    BY <2>2, Sizes
  <2>4. BlockAt(d, x[2], x[3]) = At(d, x)
    BY <2>1, <2>2, <2>3 DEF BlockAt, At, FileIn
  <2> QED BY <1>12, <2>1, <2>4
<1>14. ASSUME NEW x \in WordPlaces, At(m, x) \in Real
       PROVE  /\ At(m, x) > 2 /\ At(m, x) \notin d[2].free
              /\ \A y \in FilePlaces(Z) : At(d, y) # At(m, x)
              /\ \A y \in WordPlaces : At(m, y) = At(m, x) => x = y
  <2> DEFINE v == At(m, x)
             b == x[2]
             i == x[3]
  <2>1. b \in WordBlocks(d) /\ i \in 0..NINDIRECT - 1 /\ v = d[b].w[i] /\ v \in Bno \ {0} /\ x = <<2, b, i>>
    <3>1. x[1] = 2 /\ i \in Word /\ x = <<2, b, i>>
      BY DEF WordPlaces
    <3>2. b \in WordBlocks(d) /\ v = At(d, x) /\ v \in Bno \ {0}
      BY <1>9, <1>14 DEF Real
    <3>3. d[b].kind = "words"
      BY <3>2 DEF WordBlocks
    <3> QED BY <3>1, <3>2, <3>3 DEF At, Word
  <2>2. /\ v > 2 /\ v \notin d[2].free
        /\ \A f \in AllFiles(d), j \in SafePlaces : BlockAt(d, f, j) # v
        /\ \A c \in WordBlocks(d), j \in 0..NINDIRECT - 1 : d[c].w[j] = v => c = b /\ j = i
    <3> HIDE DEF v, b, i
    <3> QED BY <2>1 DEF WordsSound
  <2>3. \A y \in FilePlaces(Z) : At(d, y) # v
    BY <1>13, <2>2
  <2>4. ASSUME NEW y \in WordPlaces, At(m, y) = v PROVE x = y
    <3>1. y[1] = 2 /\ y[3] \in Word /\ y = <<2, y[2], y[3]>>
      BY DEF WordPlaces
    <3>2. y[2] \in WordBlocks(d) /\ v = At(d, y)
      BY <1>9, <2>1, <2>4
    <3>3. d[y[2]].kind = "words"
      BY <3>2 DEF WordBlocks
    <3>4. d[y[2]].w[y[3]] = v /\ y[3] \in 0..NINDIRECT - 1
      BY <3>1, <3>2, <3>3 DEF At, Word
    <3>5. y[2] = b /\ y[3] = i
      BY <2>2, <3>2, <3>4
    <3> QED BY <2>1, <3>1, <3>5
  <2> QED BY <2>2, <2>3, <2>4
<1>15. Sole(m, Places(Z))
  <2>1. ASSUME NEW x \in FilePlaces(Z), At(m, x) \in Real
        PROVE  /\ At(m, x) > 2 /\ At(m, x) \notin m[2].free
               /\ \A y \in Places(Z) : At(m, y) = At(m, x) => x = y
    <3>1. At(d, x) > 2 /\ At(d, x) \notin d[2].free /\ At(m, x) = At(d, x)
          /\ \A y \in FilePlaces(Z) : At(d, y) = At(d, x) => x = y
      BY <1>1, <1>8, <2>1 DEF Sole
    <3>2. ASSUME NEW y \in WordPlaces PROVE At(m, y) # At(m, x)
      BY <1>14, <2>1, <3>1
    <3> QED BY <1>8, <3>1, <3>2 DEF Places
  <2>2. ASSUME NEW x \in WordPlaces, At(m, x) \in Real
        PROVE  /\ At(m, x) > 2 /\ At(m, x) \notin m[2].free
               /\ \A y \in Places(Z) : At(m, y) = At(m, x) => x = y
    BY <1>8, <1>14, <2>2 DEF Places
  <2> QED BY <2>1, <2>2 DEF Sole, Places
<1>16. Rel(d, m, {}, Z)
  BY <1>8 DEF Rel
<1> QED BY <1>2, <1>11, <1>15, <1>16 DEF MemOk

(* A server that started on a right disk whose words are sound knows what  *)
(* every call needs.                                                       *)
LEMMA StartGood ==
    ASSUME NEW Z, TreeOk(Z), DiskOk(disk, Z), disk[1].kind = "super", WordsSound(disk), NEW s, Started(s)
    PROVE  Good(s, Z, {}, {})
<1>1. /\ s \in Boot /\ s.panic = NoPanic /\ s.super /\ s.bitmap /\ s.dirty = {0, 1}
      /\ s.wq = <<<<1, Smashed>>, <<1, disk[1]>>>>
      /\ s.cache = [b \in Bno |-> IF b = 0 \/ b = 1 THEN disk[1] ELSE IF b = 2 THEN disk[2] ELSE Unmapped]
  BY DEF Started
<1>2. Shape(disk, Z) /\ disk \in [Bno -> Blk] /\ 0 \in Bno /\ 1 \in Bno /\ 2 \in Bno
  BY TreeFacts DEF DiskOk, Shape
<1>3. /\ Len(s.wq) = 2 /\ s.wq \in Seq(Bno \X Blk) /\ \A k \in 1..2 : s.wq[k][1] = 1
      /\ After(disk, s.wq, 0) = disk /\ After(disk, s.wq, 2) = disk
      /\ After(disk, s.wq, 1) = [disk EXCEPT ![1] = Smashed]
  <2> DEFINE w == s.wq
  <2>1. w = <<<<1, Smashed>>, <<1, disk[1]>>>>
    BY <1>1
  <2> HIDE DEF w
  <2>2. /\ Len(w) = 2 /\ w \in Seq(Bno \X Blk) /\ \A k \in 1..2 : w[k][1] = 1
        /\ After(disk, w, 0) = disk /\ After(disk, w, 2) = disk
        /\ After(disk, w, 1) = [disk EXCEPT ![1] = Smashed]
    BY ONLY <1>2, <2>1, AfterStart
  <2> QED BY ONLY <2>2 DEF w
<1>4. V(s) = disk
  BY ONLY <1>3 DEF V
<1>5. s.cache[0] = disk[1] /\ s.cache[1] = disk[1] /\ s.cache[2] = disk[2] /\ \A b \in Bno : b > 2 => s.cache[b] = Unmapped
  BY <1>1, <1>2
<1>6. \A b \in Bno : disk[b] \in Blk /\ disk[b] # Unmapped
  BY <1>2, Kinds
<1>7. Free(s) = disk[2].free
  BY <1>5 DEF Free
<1>8. s \in St
  <2>1. s.cache \in [Bno -> Blk \cup {Unmapped}] /\ s.dirty \in SUBSET Bno /\ s.r \in Int /\ s.out \in Out
    BY ONLY <1>1 DEF Boot, Caches
  <2>2. s.super \in On /\ s.bitmap \in On
    <3>1. s.super \in {TRUE, FALSE} /\ s.bitmap \in {TRUE, FALSE}
      BY ONLY <1>1 DEF Boot
    <3> QED BY ONLY <1>1, <3>1 DEF On
  <2>3. s.panic \in Panics
    BY <1>1 DEF Panics
  <2>4. s = [cache |-> s.cache, dirty |-> s.dirty, wq |-> s.wq, super |-> s.super, bitmap |-> s.bitmap,
             panic |-> s.panic, r |-> s.r, out |-> s.out]
    BY ONLY <1>1 DEF Boot
  <2> QED BY ONLY <1>3, <2>1, <2>2, <2>3, <2>4 DEF St
<1> DEFINE m == Mem(s)
<1>9. /\ m \in [Bno -> Blk] /\ m[0] = disk[1] /\ m[1] = disk[1] /\ m[2] = disk[2]
      /\ \A b \in Bno : b > 2 => m[b] = IF b \in disk[2].free THEN Zero ELSE disk[b]
  <2>1. m = [b \in Bno |-> IF s.cache[b] # Unmapped THEN s.cache[b] ELSE IF b \in disk[2].free THEN Zero ELSE disk[b]]
    BY ONLY <1>4, <1>7 DEF Mem
  <2>2. \A b \in Bno : s.cache[b] \in Blk \cup {Unmapped}
    BY ONLY <1>8 DEF St
  <2>3. Zero \in Blk
    BY DEF Blk, OtherBlk
  <2> HIDE DEF m
  <2>4. m \in [Bno -> Blk]
    BY ONLY <1>6, <2>1, <2>2, <2>3
  <2> QED BY ONLY <1>2, <1>5, <1>6, <2>1, <2>4
<1> HIDE DEF m
<1>10. MemOk(m, Z) /\ Rel(disk, m, {}, Z)
  BY ONLY TreeOk(Z), DiskOk(disk, Z), disk[1].kind = "super", WordsSound(disk), <1>9, StartMem
<1>11. Crashable(disk, s.wq, Z)
  <2> DEFINE n == [disk EXCEPT ![1] = Smashed]
  <2>1. DiskOk(n, Z)
    BY ONLY TreeOk(Z), DiskOk(disk, Z), disk[1].kind = "super", SmashedOk
  <2> HIDE DEF n
  <2>2. ASSUME NEW k \in 0..2 PROVE DiskOk(After(disk, s.wq, k), Z)
    <3>1. k = 0 \/ k = 1 \/ k = 2
      OBVIOUS
    <3>2. After(disk, s.wq, 1) = n
      BY ONLY <1>3 DEF n
    <3>3. DiskOk(disk, Z)
      OBVIOUS
    <3> QED BY ONLY <1>3, <2>1, <3>1, <3>2, <3>3
  <2> QED BY ONLY <1>3, <2>2 DEF Crashable
<1>12. \A b \in {0, 1, 2} \cup s.dirty : s.cache[b] # Unmapped
  BY ONLY <1>1, <1>2, <1>5, <1>6
<1>13. \A k \in 1..Len(s.wq) : s.cache[s.wq[k][1]] # Unmapped
  BY ONLY <1>2, <1>3, <1>5, <1>6
<1>14. V(s)[2].free \subseteq Free(s) /\ Rel(V(s), Mem(s), {}, Z)
  BY ONLY <1>4, <1>7, <1>10 DEF m
<1>15. Core(s, Z, {}, {})
  BY ONLY <1>10, <1>11, <1>12, <1>13, <1>14 DEF Core, m
<1> QED BY <1>8, <1>15 DEF Good

(* A call that does not panic leaves the server up. *)
LEMMA UpGood ==
    ASSUME NEW Z, NEW O, NEW u, Good(u, Z, O, {}), u.panic = NoPanic,
           cache' = u.cache, dirty' = u.dirty, wq' = u.wq, disk' = disk, opens' = O
    PROVE  Good(S0, Z, opens, {})' /\ V(S0)' = V(u)
<1>1. S0' = [cache |-> u.cache, dirty |-> u.dirty, wq |-> u.wq, super |-> TRUE, bitmap |-> TRUE,
             panic |-> NoPanic, r |-> 0, out |-> NoLoc]
  BY DEF S0
<1>2. S0'.cache = u.cache /\ S0'.dirty = u.dirty /\ S0'.wq = u.wq /\ S0'.panic = u.panic
  BY <1>1
<1>3. S0' \in St
  <2>1. u \in St
    BY DEF Good
  <2>2. u.cache \in [Bno -> Blk \cup {Unmapped}] /\ u.dirty \in SUBSET Bno /\ u.wq \in Seq(Bno \X Blk)
    BY <2>1 DEF St
  <2>3. NoLoc \in Out /\ NoPanic \in Panics
    <3>1. NoLoc \in Loc
      BY Sizes DEF NoLoc, Loc, Bno, Slot
    <3> QED BY <3>1 DEF Out, Panics
  <2> QED BY ONLY <1>1, <2>2, <2>3 DEF St, On
<1>4. V(S0)' = V(u)
  BY <1>2 DEF V
<1>5. Free(S0)' = Free(u)
  BY <1>2 DEF Free
<1>6. Mem(S0)' = Mem(u)
  BY <1>2, <1>4, <1>5 DEF Mem
<1>7. Core(u, Z, O, {})
  BY DEF Good
<1>8. Core(S0, Z, opens, {})'
  BY <1>2, <1>4, <1>5, <1>6, <1>7 DEF Core
<1> QED BY <1>3, <1>4, <1>8 DEF Good

(* What the properties call memory, beside what the invariant says of it. *)
LEMMA MemoryIs ==
    ASSUME NEW Z, TreeOk(Z), NEW O, Good(S0, Z, O, {}), disk \in [Bno -> Blk]
    PROVE  /\ Memory \in [Bno -> Blk] /\ Memory[2] = Mem(S0)[2]
           /\ \A b \in Bno : b \notin Mem(S0)[2].free => Memory[b] = Mem(S0)[b]
           /\ AllFiles(Memory) = Locs(Z)
           /\ \A f \in Locs(Z) : Files(Memory[f[1]])[f[2]] = FileIn(Mem(S0), f)
<1> DEFINE m == Mem(S0)
<1>0. S0.cache = cache /\ S0.wq = wq
  BY DEF S0
<1>1. /\ S0.cache \in [Bno -> Blk \cup {Unmapped}] /\ S0.wq \in Writes /\ Shape(m, Z) /\ DiskOk(V(S0), Z)
      /\ S0.cache[2] # Unmapped /\ Free(S0) = m[2].free /\ S0.cache[1] # Unmapped
      /\ \A b \in Free(S0) : b > 2 /\ b \notin Z.p
  BY MemFacts
<1>2. Crashable(disk, wq, Z) /\ \A k \in 1..Len(wq) : cache[wq[k][1]] # Unmapped
  BY <1>0 DEF Good, Core
<1>3. DiskOk(disk, Z) /\ disk \in [Bno -> Blk]
  <2>1. Len(wq) \in Nat
    BY <1>0, <1>1 DEF Writes
  <2>2. DiskOk(After(disk, wq, 0), Z)
    BY <1>2, <2>1 DEF Crashable
  <2> QED BY <2>2, AfterNone
<1>4. ASSUME NEW b \in Bno, cache[b] = Unmapped PROVE V(S0)[b] = disk[b]
  <2>1. {j \in 1..Len(wq) : wq[j][1] = b} = {}
    BY <1>2, <1>4
  <2> QED BY <1>0, <2>1 DEF V, After
<1>5. Memory \in [Bno -> Blk]
  BY <1>0, <1>1, <1>3 DEF Memory
<1>6. \A b \in Bno : b \notin m[2].free => Memory[b] = m[b]
  BY <1>0, <1>1, <1>4 DEF Memory, Mem
<1>7. Memory[2] = m[2]
  BY <1>1, <1>6, TreeFacts
<1>8. \A f \in Locs(Z) : Files(Memory[f[1]])[f[2]] = FileIn(m, f)
  <2> SUFFICES ASSUME NEW f \in Locs(Z) PROVE Memory[f[1]] = m[f[1]]
    BY DEF FileIn
  <2>1. f[1] \in Bno /\ (f = Root \/ f[1] \in Z.d)
    BY TreeFacts
  <2>2. f[1] \notin m[2].free
    <3>1. f = Root => f[1] = 1
      BY DEF Root
    <3> QED BY <1>1, <2>1, <3>1, TreeFacts
  <2> QED BY <1>6, <2>1, <2>2
<1>9. AllFiles(Memory) = Locs(Z)
  <2>1. ASSUME NEW b \in Bno PROVE Memory[b].kind = "files" <=> b \in Z.d
    <3>1. CASE b \in m[2].free
      <4>1. b > 2 /\ b \notin Z.d
        BY <1>1, <3>1, TreeFacts
      <4>2. Memory[b] = (IF cache[b] = Unmapped THEN disk[b] ELSE m[b])
        BY <1>0, <1>1 DEF Memory, Mem
      <4>3. disk[b].kind # "files" /\ m[b].kind # "files"
        <5>1. Shape(disk, Z)
          BY <1>3 DEF DiskOk
        <5> QED BY <1>1, <4>1, <5>1, ShapeFacts
      <4> QED BY <4>1, <4>2, <4>3
    <3>2. CASE b \notin m[2].free
      BY <1>1, <1>6, <3>2, ShapeFacts
    <3> QED BY <3>1, <3>2
  <2>2. \A f \in Bno \X Slot : Memory[f[1]].kind = "files" <=> f[1] \in Z.d
    BY <2>1
  <2>3. Z.d \subseteq Bno
    BY TreeFacts
  <2> QED BY <2>2, <2>3 DEF AllFiles, Locs
<1> QED BY <1>5, <1>6, <1>7, <1>8, <1>9

(* The place that holds the number of block i of f. *)
Spot(m, f, i) == IF i < NDIRECT \/ i = NINDIRECT THEN <<1, f, i>> ELSE <<2, FileIn(m, f).indirect, i>>

(* What is in that place is the number the properties look at.             *)
LEMMA SpotIs ==
    ASSUME NEW Z, TreeOk(Z), NEW O, Good(S0, Z, O, {}), disk \in [Bno -> Blk], NEW f \in Locs(Z), NEW i \in AllPlaces,
           BlockAt(Memory, f, i) \in Real
    PROVE  /\ Spot(Mem(S0), f, i) \in Places(Z) /\ At(Mem(S0), Spot(Mem(S0), f, i)) = BlockAt(Memory, f, i)
           /\ <<1, f, NINDIRECT>> \in Places(Z)
           /\ At(Mem(S0), <<1, f, NINDIRECT>>) = FileIn(Mem(S0), f).indirect
           /\ ~(i < NDIRECT \/ i = NINDIRECT) => FileIn(Mem(S0), f).indirect \in Real
<1> DEFINE m == Mem(S0)
           x == FileIn(m, f)
           q == <<1, f, NINDIRECT>>
           v == BlockAt(Memory, f, i)
<1>1. /\ Memory[2] = m[2] /\ Files(Memory[f[1]])[f[2]] = x
      /\ \A b \in Bno : b \notin m[2].free => Memory[b] = m[b]
  BY MemoryIs
<1>2. Shape(m, Z) /\ Sole(m, Places(Z))
  BY MemFacts DEF MemOk
<1>3. i \in Int /\ NDIRECT \in Nat /\ NINDIRECT \in Nat /\ NDIRECT < NINDIRECT /\ i >= 0 /\ i <= NINDIRECT
  BY Sizes DEF AllPlaces
<1>4. q \in Places(Z) /\ At(m, q) = x.indirect
  <2>1. q \in Places(Z)
    BY PlaceMade
  <2> QED BY <2>1 DEF At
<1>5. v = IF i < NDIRECT THEN x.direct[i]
          ELSE IF i = NINDIRECT THEN x.indirect
          ELSE IF x.indirect \in 1..NBLOCK - 1 THEN Words(Memory[x.indirect])[i] ELSE 0
  BY <1>1 DEF BlockAt
<1>6. CASE i < NDIRECT \/ i = NINDIRECT
  <2>1. Spot(m, f, i) = <<1, f, i>> /\ i \in SafePlaces
    BY <1>3, <1>6 DEF Spot, SafePlaces
  <2>2. <<1, f, i>> \in Places(Z)
    BY <2>1, PlaceMade
  <2>3. At(m, <<1, f, i>>) = IF i = NINDIRECT THEN x.indirect ELSE x.direct[i]
    BY DEF At
  <2>4. At(m, <<1, f, i>>) = v
    BY <1>3, <1>5, <1>6, <2>3
  <2> QED BY <1>4, <1>6, <2>1, <2>2, <2>4
<1>7. CASE ~(i < NDIRECT \/ i = NINDIRECT)
  <2> DEFINE b == x.indirect
  <2>1. Spot(m, f, i) = <<2, b, i>> /\ i \in Word
    BY <1>3, <1>7 DEF Spot, Word
  <2>2. b \in Real /\ v = Words(Memory[b])[i] /\ v # NBLOCK
    <3>1. v \in Real /\ v # 0 /\ v # NBLOCK
      BY Sizes DEF Real, Bno
    <3>2. b \in 1..NBLOCK - 1
      BY <1>5, <1>7, <3>1
    <3> QED BY <1>5, <1>7, <3>1, <3>2, Sizes DEF Real, Bno
  <2>3. b \notin m[2].free
    BY <1>2, <1>4, <2>2 DEF Sole
  <2>4. b \in Bno /\ v = Words(m[b])[i] /\ v \in Real
    BY <1>1, <2>2, <2>3 DEF Real
  <2>5. <<2, b, i>> \in Places(Z)
    BY <2>1, <2>4, PlaceMade
  <2>6. At(m, <<2, b, i>>) = v
    <3>1. At(m, <<2, b, i>>) = IF m[b].kind = "words" THEN m[b].w[i] ELSE 0
      BY DEF At
    <3>2. m[b].kind = "words"
      <4>1. v # 0 /\ v # NBLOCK
        BY <2>2, <2>4 DEF Real
      <4>2. m[b] = Zero => Words(m[b])[i] = 0
        <5>1. NoWords[i] = 0
          BY <2>1 DEF NoWords, Word
        <5>2. m[b] = Zero => Words(m[b]) = NoWords
          <6> DEFINE c == m[b]
          <6>1. Zero.kind # "words"
            BY DEF Zero
          <6> HIDE DEF c
          <6>2. c = Zero => Words(c) = NoWords
            BY ONLY <6>1 DEF Words
          <6> QED BY ONLY <6>2 DEF c
        <5> QED BY ONLY <5>1, <5>2
      <4>3. m[b] # Zero /\ m[b].kind # "words" => Words(m[b])[i] = NBLOCK
        BY <2>1 DEF Words, Word
      <4> QED BY <2>4, <4>1, <4>2, <4>3
    <3>3. m[b] # Zero
      BY <3>2, Kinds
    <3>4. Words(m[b]) = m[b].w
      BY <3>2, <3>3 DEF Words
    <3> QED BY <2>4, <3>1, <3>2, <3>4
  <2> QED BY <1>4, <2>1, <2>2, <2>5, <2>6
<1> QED BY <1>6, <1>7

(* NoBlockTwice follows from the invariant. *)
LEMMA GoodSound ==
    ASSUME NEW Z, TreeOk(Z), NEW O, Good(S0, Z, O, {}), disk \in [Bno -> Blk]
    PROVE  Sound(Memory, AllPlaces)
<1> DEFINE m == Mem(S0)
<1>1. Memory[2] = m[2] /\ AllFiles(Memory) = Locs(Z)
  BY MemoryIs
<1>2. Sole(m, Places(Z))
  BY MemFacts DEF MemOk
<1> SUFFICES ASSUME NEW x \in Locs(Z) \X AllPlaces, NEW y \in Locs(Z) \X AllPlaces,
                    BlockAt(Memory, x[1], x[2]) \in Bno \ {0}
             PROVE  /\ BlockAt(Memory, x[1], x[2]) > 2 /\ BlockAt(Memory, x[1], x[2]) \notin Memory[2].free
                    /\ BlockAt(Memory, y[1], y[2]) = BlockAt(Memory, x[1], x[2]) => x = y
  BY <1>1 DEF Sound
<1> DEFINE b == BlockAt(Memory, x[1], x[2])
           f == x[1]
           i == x[2]
           g == y[1]
           j == y[2]
           p == Spot(m, f, i)
           q == Spot(m, g, j)
<1>3. f \in Locs(Z) /\ i \in AllPlaces /\ g \in Locs(Z) /\ j \in AllPlaces /\ x = <<f, i>> /\ y = <<g, j>>
      /\ b \in Real
  BY DEF Real
<1>4. /\ p \in Places(Z) /\ At(m, p) = b /\ <<1, f, NINDIRECT>> \in Places(Z)
      /\ At(m, <<1, f, NINDIRECT>>) = FileIn(m, f).indirect
      /\ ~(i < NDIRECT \/ i = NINDIRECT) => FileIn(m, f).indirect \in Real
  <2> HIDE DEF f, i
  <2>1. BlockAt(Memory, f, i) \in Real /\ b = BlockAt(Memory, f, i)
    BY <1>3 DEF f, i
  <2> HIDE DEF b
  <2> QED BY <1>3, <2>1, SpotIs
<1>5. b > 2 /\ b \notin m[2].free
  BY <1>2, <1>3, <1>4 DEF Sole
<1>6. ASSUME BlockAt(Memory, g, j) = b PROVE x = y
  <2>1. /\ q \in Places(Z) /\ At(m, q) = b /\ <<1, g, NINDIRECT>> \in Places(Z)
        /\ At(m, <<1, g, NINDIRECT>>) = FileIn(m, g).indirect
        /\ ~(j < NDIRECT \/ j = NINDIRECT) => FileIn(m, g).indirect \in Real
    <3> HIDE DEF g, j
    <3>1. BlockAt(Memory, g, j) \in Real /\ b = BlockAt(Memory, g, j)
      BY <1>3, <1>6
    <3> HIDE DEF b
    <3> QED BY <1>3, <3>1, SpotIs
  <2>2. p = q
    BY <1>2, <1>3, <1>4, <2>1 DEF Sole
  <2>3. CASE i < NDIRECT \/ i = NINDIRECT
    <3>1. p = <<1, f, i>>
      BY <2>3 DEF Spot
    <3>2. q = <<1, g, j>>
      BY <2>2, <3>1 DEF Spot
    <3>3. <<1, f, i>> = <<1, g, j>>
      BY ONLY <2>2, <3>1, <3>2
    <3> HIDE DEF f, i, g, j
    <3>4. f = g /\ i = j
      BY ONLY <3>3
    <3> QED BY <1>3, <3>4
  <2>4. CASE ~(i < NDIRECT \/ i = NINDIRECT)
    <3>1. p = <<2, FileIn(m, f).indirect, i>>
      BY <2>4 DEF Spot
    <3>2. q = <<2, FileIn(m, g).indirect, j>> /\ ~(j < NDIRECT \/ j = NINDIRECT)
      BY <2>2, <3>1 DEF Spot
    <3>3. i = j /\ FileIn(m, f).indirect = FileIn(m, g).indirect
      <4> DEFINE a == FileIn(m, f).indirect
                 c == FileIn(m, g).indirect
      <4>1. <<2, a, i>> = <<2, c, j>>
        BY ONLY <2>2, <3>1, <3>2
      <4> HIDE DEF a, c, i, j
      <4>2. a = c /\ i = j
        BY ONLY <4>1
      <4> QED BY ONLY <4>2 DEF a, c
    <3>4. <<1, f, NINDIRECT>> = <<1, g, NINDIRECT>>
      BY <1>2, <1>4, <2>1, <2>4, <3>3 DEF Sole
    <3> QED BY <1>3, <3>3, <3>4
  <2> QED BY <2>3, <2>4
<1> QED BY <1>1, <1>5, <1>6

(* DiskPointersSafe follows from the invariant. *)
LEMMA DiskSound ==
    ASSUME NEW Z, TreeOk(Z), DiskOk(disk, Z)
    PROVE  Sound(disk, SafePlaces)
<1>1. Shape(disk, Z) /\ Sole(disk, FilePlaces(Z))
  BY DEF DiskOk
<1>2. AllFiles(disk) = Locs(Z)
  BY <1>1, AllFilesAre
<1>3. ASSUME NEW f \in Locs(Z), NEW i \in SafePlaces
      PROVE  <<1, f, i>> \in FilePlaces(Z) /\ BlockAt(disk, f, i) = At(disk, <<1, f, i>>)
  <2>1. i \in 0..NDIRECT - 1 \/ i = NINDIRECT
    BY DEF SafePlaces
  <2>2. (i < NDIRECT <=> i # NINDIRECT)
    BY <2>1, Sizes
  <2>3. BlockAt(disk, f, i) = At(disk, <<1, f, i>>)
    BY <2>1, <2>2 DEF BlockAt, At, FileIn
  <2> QED BY <2>3 DEF FilePlaces
<1> SUFFICES ASSUME NEW x \in Locs(Z) \X SafePlaces, NEW y \in Locs(Z) \X SafePlaces,
                    BlockAt(disk, x[1], x[2]) \in Bno \ {0}
             PROVE  /\ BlockAt(disk, x[1], x[2]) > 2 /\ BlockAt(disk, x[1], x[2]) \notin disk[2].free
                    /\ BlockAt(disk, y[1], y[2]) = BlockAt(disk, x[1], x[2]) => x = y
  BY <1>2 DEF Sound
<1> DEFINE p == <<1, x[1], x[2]>>
           q == <<1, y[1], y[2]>>
<1>4. p \in FilePlaces(Z) /\ BlockAt(disk, x[1], x[2]) = At(disk, p) /\ At(disk, p) \in Real
  BY <1>3 DEF Real
<1>5. q \in FilePlaces(Z) /\ BlockAt(disk, y[1], y[2]) = At(disk, q)
  BY <1>3
<1>6. p = q => x = y
  OBVIOUS
<1> HIDE DEF p, q
<1> QED BY <1>1, <1>4, <1>5, <1>6 DEF Sole

(* A block of a regular file is neither free nor part of the tree. *)
LEMMA DataIs ==
    ASSUME NEW Z, TreeOk(Z), NEW O, Good(S0, Z, O, {}), disk \in [Bno -> Blk],
           NEW b \in DataBlocks(Memory), b \in Real
    PROVE  b \in Bno /\ b > 2 /\ b \notin Free(S0) /\ b \notin Z.p
<1> DEFINE m == Mem(S0)
<1>1. PICK w \in Regular(Memory) \X (0..NINDIRECT - 1) : b = BlockAt(Memory, w[1], w[2])
  BY DEF DataBlocks
<1> DEFINE f == w[1]
           i == w[2]
<1>2. f \in Regular(Memory) /\ i \in 0..NINDIRECT - 1 /\ b = BlockAt(Memory, f, i)
  BY <1>1
<1> HIDE DEF f, i
<1>3. AllFiles(Memory) = Locs(Z) /\ \A g \in Locs(Z) : Files(Memory[g[1]])[g[2]] = FileIn(m, g)
  BY MemoryIs
<1>4. f \in Locs(Z) /\ FileIn(m, f).type = FTYPE_REG
  BY <1>2, <1>3 DEF Regular
<1>5. /\ MemOk(m, Z) /\ Types(m, Z) /\ m[1] # Smashed /\ Free(S0) = m[2].free
  BY MemFacts
<1>6. Sole(m, Places(Z)) /\ Guarded(m, Z)
  BY <1>5 DEF MemOk, DiskOk
<1>7. f \notin Z.dirs
  BY <1>4, <1>5 DEF Types, FTYPE_REG, FTYPE_DIR
<1>8. i \in AllPlaces /\ i # NINDIRECT
  BY <1>2, Sizes DEF AllPlaces
<1> DEFINE p == Spot(m, f, i)
           q == <<1, f, NINDIRECT>>
<1>9. /\ p \in Places(Z) /\ At(m, p) = b /\ q \in Places(Z) /\ At(m, q) = FileIn(m, f).indirect
      /\ ~(i < NDIRECT \/ i = NINDIRECT) => FileIn(m, f).indirect \in Real
  BY <1>2, <1>4, <1>8, SpotIs
<1>10. b > 2 /\ b \notin m[2].free
  BY <1>6, <1>9 DEF Sole
<1>11. ASSUME b \in Z.p PROVE FALSE
  <2>1. Holder(p, Z)
    BY <1>6, <1>9, <1>11 DEF Guarded
  <2>2. CASE i < NDIRECT \/ i = NINDIRECT
    <3>1. p = <<1, f, i>>
      BY <2>2 DEF Spot
    <3> HIDE DEF p
    <3>2. p[1] = 1 /\ p[2] = f
      BY ONLY <3>1
    <3> QED BY <1>7, <2>1, <3>2 DEF Holder
  <2>3. CASE ~(i < NDIRECT \/ i = NINDIRECT)
    <3>1. p = <<2, FileIn(m, f).indirect, i>>
      BY <2>3 DEF Spot
    <3> HIDE DEF p
    <3>2. p[1] = 2 /\ p[2] = FileIn(m, f).indirect
      BY ONLY <3>1
    <3>3. At(m, q) \in Z.p
      BY <1>9, <2>1, <3>2 DEF Holder
    <3>4. Holder(q, Z)
      BY <1>6, <1>9, <3>3 DEF Guarded
    <3>5. q[1] = 1 /\ q[2] = f
      BY ONLY TRUE
    <3> QED BY <1>7, <3>4, <3>5 DEF Holder
  <2> QED BY <2>2, <2>3
<1> QED BY <1>5, <1>10, <1>11 DEF Real

(* A program's store to such a block, which does not make it dirty. *)
LEMMA DataGood ==
    ASSUME NEW Z, TreeOk(Z), NEW O, NEW s, Good(s, Z, O, {}),
           NEW b \in Bno, b > 2, b \notin Free(s), b \notin Z.p, s.cache[b] # Unmapped,
           NEW u \in St, u.cache = [s.cache EXCEPT ![b] = Stored], u.dirty = s.dirty, u.wq = s.wq,
           u.panic = s.panic
    PROVE  Good(u, Z, O, {}) /\ V(u) = V(s)
<1> DEFINE m == Mem(s)
           n == Mem(u)
<1>1. /\ s.cache \in [Bno -> Blk \cup {Unmapped}] /\ MemOk(m, Z) /\ Shape(m, Z) /\ Types(m, Z)
      /\ m[1] # Smashed /\ m \in [Bno -> Blk] /\ Free(s) = m[2].free
  BY MemFacts
<1>2. V(u) = V(s)
  BY DEF V
<1>3. Stored \in OtherBlk /\ Stored # Unmapped /\ 2 \in Bno /\ b # 2
  BY TreeFacts, Kinds DEF OtherBlk
<1>4. Free(u) = Free(s)
  BY <1>1, <1>3 DEF Free
<1>5. n = Put(m, b, Stored)
  <2>1. ASSUME NEW a \in Bno PROVE n[a] = Put(m, b, Stored)[a]
    <3>1. CASE a = b
      <4>1. n[a] = Stored
        BY <1>1, <1>3, <3>1 DEF Mem
      <4> QED BY <1>1, <3>1, <4>1 DEF Put
    <3>2. CASE a # b
      <4>1. n[a] = m[a]
        BY <1>1, <1>2, <1>4, <3>2 DEF Mem
      <4> QED BY <1>1, <3>2, <4>1 DEF Put
    <3> QED BY <3>1, <3>2
  <2>2. n = [a \in Bno |-> n[a]]
    BY DEF Mem
  <2>3. Put(m, b, Stored) = [a \in Bno |-> Put(m, b, Stored)[a]]
    BY <1>1 DEF Put
  <2> QED BY <2>1, <2>2, <2>3
<1>6. b \notin Z.d
  BY TreeFacts
<1> HIDE DEF m, n
<1>7. /\ Shape(n, Z) /\ Types(n, Z) /\ n[1] = m[1] /\ n[2] = m[2] /\ n[b] = Stored
      /\ \A g \in Locs(Z) : FileIn(n, g) = FileIn(m, g)
      /\ \A y \in FilePlaces(Z) : At(n, y) = At(m, y)
      /\ \A y \in WordPlaces : y[2] # b => At(n, y) = At(m, y)
  BY <1>1, <1>3, <1>5, <1>6, OtherPut
<1>8. ASSUME NEW y \in WordPlaces, y[2] = b PROVE At(n, y) = 0
  <2>1. y[1] = 2
    BY DEF WordPlaces
  <2> QED BY <1>7, <1>8, <2>1, Kinds DEF At
<1>9. Sole(m, Places(Z)) /\ Guarded(m, Z)
  BY <1>1 DEF MemOk, DiskOk
<1>10. ASSUME NEW y \in Places(Z) PROVE At(n, y) = At(m, y) \/ (y \in WordPlaces /\ y[2] = b /\ At(n, y) = 0)
  BY <1>7, <1>8 DEF Places
<1>11. MemOk(n, Z)
  <2>1. <<1, Root, NINDIRECT>> \in Places(Z)
    BY PlaceMade, TreeFacts
  <2> DEFINE none == -1
  <2>2. none \notin Z.p /\ \A y \in Places(Z) : At(m, y) # none
    <3>1. \A y \in Places(Z) : At(m, y) \in Nat
      BY <1>1, AtNat
    <3>2. \A a \in Z.p : a > 2
      BY TreeFacts
    <3> QED BY <3>1, <3>2
  <2> HIDE DEF none
  <2>3. \A y \in Places(Z) : \/ At(n, y) = At(m, y) /\ (At(n, y) \in Real => At(n, y) \notin n[2].free)
                             \/ At(n, y) \notin Real
    <3>1. 0 \notin Real
      BY DEF Real
    <3>2. \A y \in Places(Z) : At(m, y) \in Real => At(m, y) \notin m[2].free
      BY <1>9 DEF Sole
    <3> QED BY <1>7, <1>10, <3>1, <3>2
  <2>4. n[1] # Smashed
    BY <1>1, <1>7
  <2> QED BY <1>1, <1>7, <2>1, <2>2, <2>3, <2>4, MemKept
<1>12. \A f \in O : OpenOk(n, u.dirty, f, Z)
  <2> SUFFICES ASSUME NEW f \in O PROVE OpenOk(n, u.dirty, f, Z)
    OBVIOUS
  <2>1. OpenOk(m, s.dirty, f, Z)
    BY DEF Good, Core, m
  <2>2. \A y \in Places(Z) : At(m, y) \in Z.p => At(n, y) = At(m, y)
    <3> SUFFICES ASSUME NEW y \in Places(Z), At(m, y) \in Z.p, y \in WordPlaces, y[2] = b PROVE FALSE
      BY <1>10
    <3>1. Holder(y, Z)
      BY <1>9 DEF Guarded
    <3>2. y[1] = 2
      BY DEF WordPlaces
    <3> QED BY <3>1, <3>2 DEF Holder
  <2>3. \A g \in Z.dirs : FileIn(n, g).size = FileIn(m, g).size
    BY <1>7, TreeFacts
  <2>4. f \in Locs(Z) => FileIn(n, f).dir = FileIn(m, f).dir
    BY <1>7
  <2>5. u.dirty = s.dirty /\ s.dirty \subseteq s.dirty
    OBVIOUS
  <2> QED BY <1>1, <2>1, <2>2, <2>3, <2>4, <2>5, OpenKept
<1>13. s.panic = NoPanic => V(s)[2].free \subseteq Free(s) /\ Rel(V(s), n, {}, Z)
  <2> SUFFICES ASSUME s.panic = NoPanic PROVE V(s)[2].free \subseteq Free(s) /\ Rel(V(s), n, {}, Z)
    OBVIOUS
  <2>1. V(s)[2].free \subseteq Free(s) /\ Rel(V(s), m, {}, Z)
    BY DEF Good, Core, m
  <2> DEFINE v == V(s)
  <2> HIDE DEF v
  <2>2. Rel(v, m, {}, Z)
    BY <2>1 DEF v
  <2>3. Rel(v, n, {}, Z)
    BY <1>7, <2>2 DEF Rel
  <2> QED BY <2>1, <2>3 DEF v
<1>14. \A a \in {0, 1, 2} \cup u.dirty : u.cache[a] # Unmapped
  <2>1. \A a \in {0, 1, 2} \cup s.dirty : s.cache[a] # Unmapped
    BY DEF Good, Core
  <2>2. \A a \in Bno : s.cache[a] # Unmapped => u.cache[a] # Unmapped
    BY <1>1, <1>3
  <2>3. {0, 1, 2} \cup s.dirty \subseteq Bno
    BY MemFacts, TreeFacts
  <2> QED BY <2>1, <2>2, <2>3
<1>15. \A k \in 1..Len(u.wq) : u.cache[u.wq[k][1]] # Unmapped
  BY <1>1, <1>3 DEF Good, Core
<1>16. Crashable(disk, u.wq, Z)
  BY DEF Good, Core
<1> QED BY <1>2, <1>4, <1>11, <1>12, <1>13, <1>14, <1>15, <1>16 DEF Good, Core, n

(* What the last request may leave for EntryOnDisk. *)
Told(u, d, Z) ==
    (d[1] \in {"set_size", "close", "remove"} /\ d[2] # Root) =>
        d[2] \in Locs(Z) /\ u.cache[d[2][1]] # Unmapped /\ Saved(u, d[2][1])

(* The server is what the call left, or it panicked: the invariant holds   *)
(* of it.                                                                  *)
LEMMA Became ==
    ASSUME NEW Z, InvFor(Z), NEW O, O \subseteq Loc, NEW u, Good(u, Z, O, {}), Becomes(u),
           opens' = O, Told(u, done', Z)
    PROVE  InvFor(Z)'
<1>1. TreeOk(Z) /\ disk \in [Bno -> Blk]
  BY DEF InvFor
<1>2. u \in St /\ Crashable(disk, u.wq, Z)
  BY DEF Good, Core
<1>3. u.wq \in Seq(Bno \X Blk) /\ u.panic \in Panics
  BY <1>2 DEF St
<1>4. wq' = u.wq /\ disk' = disk
  BY DEF Becomes
<1>5. TreeOk(Z)' /\ (disk \in [Bno -> Blk] /\ wq \in Seq(Bno \X Blk) /\ Crashable(disk, wq, Z) /\ opens \subseteq Loc)'
  BY <1>1, <1>2, <1>3, <1>4
<1>6. CASE u.panic = NoPanic
  <2>1. cache' = u.cache /\ dirty' = u.dirty /\ status' = "up"
    BY <1>6 DEF Becomes
  <2>2. Good(S0, Z, opens, {})' /\ V(S0)' = V(u)
    BY <1>4, <1>6, <2>1, UpGood
  <2>3. (done'[1] \in {"set_size", "close", "remove"} /\ done'[2] # Root) =>
            /\ done'[2] \in Locs(Z) /\ cache'[done'[2][1]] # Unmapped
            /\ V(S0)'[done'[2][1]] = cache'[done'[2][1]]
    BY <1>6, <2>1, <2>2 DEF Told, Saved
  <2>4. status' \in (Starts \ {NoPanic}) \cup {"up", "down"} /\ status' # "down"
    BY <2>1
  <2> QED BY <1>5, <2>2, <2>3, <2>4 DEF InvFor
<1>7. CASE u.panic # NoPanic
  <2>1. status' = u.panic
    BY <1>7 DEF Becomes
  <2>2. u.panic # "up" /\ u.panic # "down"
    BY <1>3 DEF Panics, NoPanic
  <2>3. status' \in (Starts \ {NoPanic}) \cup {"up", "down"} /\ status' # "down" /\ status' # "up"
    BY <1>3, <1>7, <2>1, <2>2 DEF Starts
  <2> QED BY <1>5, <2>3 DEF InvFor
<1> QED BY <1>6, <1>7

(* The server is waiting for requests. *)
LEMMA ReadyIs ==
    ASSUME NEW Z, InvFor(Z), Ready
    PROVE  TreeOk(Z) /\ Good(S0, Z, opens, {}) /\ opens \subseteq Loc
  BY DEF InvFor, Ready

(* Other requests leave nothing to say.                                    *)
LEMMA ToldNothing ==
    ASSUME NEW u, NEW Z, NEW b, NEW f PROVE Told(u, Nothing, Z) /\ Told(u, <<"dirty", f, b>>, Z)
  BY DEF Told, Nothing

(* set_size, close and remove left the File on the disk.                   *)
LEMMA ToldAnswered ==
    ASSUME NEW u, NEW Z, NEW O, NEW f, Answered(u, Z, O, f), NEW what, NEW b
    PROVE  Told(u, <<what, f, b>>, Z)
  BY DEF Told, Answered

(* serve_open keeps the invariant.                                         *)
LEMMA OpenStep ==
    ASSUME NEW Z, InvFor(Z), NEW p \in OpenPath, serve_open(p) PROVE InvFor(Z)'
<1>1. TreeOk(Z) /\ Good(S0, Z, opens, {}) /\ opens \subseteq Loc
  BY ReadyIs DEF serve_open
<1>2. skip_slash(p) \in Seq(Proper)
  BY RequestAssumption DEF Proper
<1>3. Looked(S0, file_open(S0, p), Z, opens)
  BY <1>1, <1>2, OpenGood
<1> DEFINE u == file_open(S0, p)
           O == IF u.r < 0 THEN opens ELSE opens \cup {u.out}
<1>4. Becomes(u) /\ opens' = O /\ done' = Nothing
  BY DEF serve_open
<1> HIDE DEF u
<1>5. Good(u, Z, O, {}) /\ O \subseteq Loc
  BY <1>1, <1>3, TreeFacts DEF Looked, u
<1>6. Told(u, done', Z)
  BY <1>4, ToldNothing
<1> HIDE DEF O
<1> QED BY <1>4, <1>5, <1>6, Became

(* serve_map keeps it.                                                     *)
LEMMA MapStep ==
    ASSUME NEW Z, InvFor(Z), NEW f \in opens, NEW o \in Offset, serve_map(f, o) PROVE InvFor(Z)'
<1>1. TreeOk(Z) /\ Good(S0, Z, opens, {}) /\ opens \subseteq Loc
  BY ReadyIs DEF serve_map
<1>2. o \div BY2BLK \in Nat
  BY RequestAssumption, Sizes
<1>3. f \in Locs(Z) /\ S0.cache[f[1]] # Unmapped
  BY <1>1, OpenFacts
<1> DEFINE u == file_get_block(S0, f, o \div BY2BLK)
<1>4. Works(S0, u, Z, opens, {})
  <2> DEFINE i == o \div BY2BLK
  <2>1. i \in Nat
    BY <1>2
  <2> HIDE DEF i
  <2>2. Works(S0, file_get_block(S0, f, i), Z, opens, {})
    BY <1>1, <1>3, <2>1, GetBlock
  <2> QED BY <2>2 DEF i
<1>5. Becomes(u) /\ opens' = opens /\ done' = Nothing
  BY DEF serve_map
<1> HIDE DEF u
<1>6. Good(u, Z, opens, {}) /\ Told(u, done', Z)
  BY <1>4, <1>5, ToldNothing DEF Works
<1> QED BY <1>1, <1>5, <1>6, Became

(* serve_dirty keeps it.                                                   *)
LEMMA DirtyStep ==
    ASSUME NEW Z, InvFor(Z), NEW f \in opens, NEW o \in Offset, serve_dirty(f, o) PROVE InvFor(Z)'
<1>1. TreeOk(Z) /\ Good(S0, Z, opens, {}) /\ opens \subseteq Loc
  BY ReadyIs DEF serve_dirty
<1>2. o \in Nat
  BY RequestAssumption
<1> DEFINE u == file_dirty(S0, f, o)
           b == file_map_block(S0, f, o \div BY2BLK, FALSE).out
<1>3. Good(u, Z, opens, {})
  BY <1>1, <1>2, DirtyGood
<1>4. Becomes(u) /\ opens' = opens /\ done' = IF u.r < 0 THEN Nothing ELSE <<"dirty", f, b>>
  BY DEF serve_dirty
<1> HIDE DEF u, b
<1>5. Told(u, done', Z)
  BY <1>4, ToldNothing
<1> QED BY <1>1, <1>3, <1>4, <1>5, Became

(* serve_set_size keeps it.                                                *)
LEMMA SetSizeStep ==
    ASSUME NEW Z, InvFor(Z), NEW f \in opens, NEW n \in NewSize, serve_set_size(f, n) PROVE InvFor(Z)'
<1>1. TreeOk(Z) /\ Good(S0, Z, opens, {}) /\ opens \subseteq Loc
  BY ReadyIs DEF serve_set_size
<1>2. f \in Locs(Z) /\ S0.cache[f[1]] # Unmapped
  BY <1>1, OpenFacts
<1>3. f \notin Z.dirs
  <2>1. File(S0, f).type = FTYPE_DIR <=> f \in Z.dirs
    BY <1>1, <1>2, RootKeeps
  <2>2. File(S0, f).type = FTYPE_REG
    BY DEF serve_set_size
  <2> QED BY <2>1, <2>2 DEF FTYPE_REG, FTYPE_DIR
<1>4. n \in Nat
  BY RequestAssumption
<1> DEFINE u == file_set_size(S0, f, n)
<1>5. Answered(u, Z, opens, f)
  BY <1>1, <1>3, <1>4, SetSizeAnswered
<1>6. Becomes(u) /\ opens' = opens /\ done' = <<"set_size", f, 0>>
  BY DEF serve_set_size
<1> HIDE DEF u
<1>7. Told(u, done', Z)
  BY <1>5, <1>6, ToldAnswered
<1>8. Good(u, Z, opens, {})
  BY <1>5 DEF Answered
<1> QED BY <1>1, <1>6, <1>7, <1>8, Became

(* serve_close keeps it.                                                   *)
LEMMA CloseStep ==
    ASSUME NEW Z, InvFor(Z), NEW f \in opens, serve_close(f) PROVE InvFor(Z)'
<1>1. TreeOk(Z) /\ Good(S0, Z, opens, {}) /\ opens \subseteq Loc
  BY ReadyIs DEF serve_close
<1> DEFINE u == file_close(S0, f)
           b == IF done[1] = "dirty" /\ done[2] = f THEN done[3] ELSE 0
<1>5. Answered(u, Z, opens, f)
  BY <1>1, CloseAnswered
<1>6. Becomes(u) /\ opens' = opens /\ done' = <<"close", f, b>>
  BY DEF serve_close
<1> HIDE DEF u, b
<1>7. Told(u, done', Z)
  BY <1>5, <1>6, ToldAnswered
<1>8. Good(u, Z, opens, {})
  BY <1>5 DEF Answered
<1> QED BY <1>1, <1>6, <1>7, <1>8, Became

(* serve_remove keeps it.                                                  *)
LEMMA RemoveStep ==
    ASSUME NEW Z, InvFor(Z), NEW p \in RemovePath, serve_remove(p) PROVE InvFor(Z)'
<1>1. TreeOk(Z) /\ Good(S0, Z, opens, {}) /\ opens \subseteq Loc
  BY ReadyIs DEF serve_remove
<1>2. skip_slash(p) \in Seq(Proper)
  BY RequestAssumption DEF Proper
<1>3. walk_path(S0, p).r = 0 => File(walk_path(S0, p), walk_path(S0, p).out.file).type = FTYPE_REG
  BY DEF serve_remove
<1> DEFINE u == file_remove(S0, p)
<1>4. Good(u, Z, opens, {}) /\ (u.r < 0 \/ Answered(u, Z, opens, u.out))
  BY <1>1, <1>2, <1>3, RemoveGood
<1>5. Becomes(u) /\ opens' = opens /\ done' = IF u.r < 0 THEN Nothing ELSE <<"remove", u.out, 0>>
  BY DEF serve_remove
<1> HIDE DEF u
<1>6. Told(u, done', Z)
  <2>1. u.r < 0 => Told(u, done', Z)
    BY <1>5, ToldNothing
  <2>2. ~(u.r < 0) => Told(u, done', Z)
    <3> DEFINE f == u.out
    <3>1. ~(u.r < 0) => Answered(u, Z, opens, f) /\ done' = <<"remove", f, 0>>
      BY <1>4, <1>5
    <3> HIDE DEF f
    <3> QED BY <3>1, ToldAnswered
  <2> QED BY <2>1, <2>2
<1> QED BY <1>1, <1>4, <1>5, <1>6, Became

(* serve_debug keeps it.                                                   *)
LEMMA DebugStep ==
    ASSUME NEW Z, InvFor(Z), NEW p \in DebugPath, serve_debug(p) PROVE InvFor(Z)'
<1>1. TreeOk(Z) /\ Good(S0, Z, opens, {}) /\ opens \subseteq Loc
  BY ReadyIs DEF serve_debug
<1>2. Elements(p) \in Seq(Proper)
  BY RequestAssumption DEF Proper
<1> DEFINE s == get_file_absolute(S0, p)
           f == s.out
           u == IF s.r < 0 THEN user_panic(s, "null pointer")
                ELSE IF File(s, f).type = FTYPE_DIR THEN debug_dir(s, f)
                ELSE debug_file(s, f)
<1>3. Looked(S0, s, Z, opens)
  BY <1>1, <1>2, TwinGood
<1>4. Becomes(u) /\ opens' = opens /\ done' = Nothing
  BY DEF serve_debug
<1> HIDE DEF s
<1>5. Good(u, Z, opens, {})
  <2>1. CASE s.r < 0
    <3>1. Good(s, Z, opens, {})
      <4>1. ~(s.r = 0)
        BY <2>1
      <4> QED BY <1>3, <4>1 DEF Looked
    <3> DEFINE why == "null pointer"
    <3>2. why \in Panics /\ why # NoPanic
      BY DEF Panics, NoPanic
    <3> HIDE DEF why
    <3>3. Good(user_panic(s, why), Z, opens, {})
      BY <3>1, <3>2, PanicGood
    <3> QED BY <2>1, <3>3 DEF why
  <2>2. CASE ~(s.r < 0)
    <3>1. f \in Locs(Z) /\ Good(s, Z, opens \cup {f}, {})
      BY <1>3, <2>2 DEF Looked
    <3>2. Good(s, Z, opens, {})
      BY <3>1, Regood
    <3>3. s.cache[f[1]] # Unmapped
      <4> HIDE DEF f
      <4>1. f \in opens \cup {f}
        OBVIOUS
      <4> DEFINE O == opens \cup {f}
      <4>2. Good(s, Z, O, {}) /\ f \in O
        BY <3>1, <4>1
      <4> HIDE DEF O
      <4> QED BY <1>1, <4>2, OpenFacts
    <3> HIDE DEF f
    <3>4. Good(debug_dir(s, f), Z, opens, {}) /\ Good(debug_file(s, f), Z, opens, {})
      BY <1>1, <3>1, <3>2, <3>3, DebugDirGood, DebugFileGood
    <3> QED BY <2>2, <3>4
  <2> QED BY <2>1, <2>2
<1> HIDE DEF u
<1>6. Told(u, done', Z)
  BY <1>4, ToldNothing
<1> QED BY <1>1, <1>4, <1>5, <1>6, Became

(* serve_sync keeps it.                                                    *)
LEMMA SyncStep ==
    ASSUME NEW Z, InvFor(Z), serve_sync PROVE InvFor(Z)'
<1>1. TreeOk(Z) /\ Good(S0, Z, opens, {}) /\ opens \subseteq Loc
  BY ReadyIs DEF serve_sync
<1> DEFINE u == fs_sync(S0)
<1>2. Good(u, Z, opens, {})
  BY <1>1, SyncGood
<1>3. Becomes(u) /\ opens' = opens /\ done' = Nothing
  BY DEF serve_sync
<1> HIDE DEF u
<1>4. Told(u, done', Z)
  BY <1>3, ToldNothing
<1> QED BY <1>1, <1>2, <1>3, <1>4, Became

(* serve_tree keeps it.                                                    *)
LEMMA TreeStep ==
    ASSUME NEW Z, InvFor(Z), serve_tree PROVE InvFor(Z)'
<1>1. TreeOk(Z) /\ Good(S0, Z, opens, {}) /\ opens \subseteq Loc
  BY ReadyIs DEF serve_tree
<1> DEFINE u == tree_root(S0)
<1>2. Good(u, Z, opens, {})
  BY <1>1, TreeGood
<1>3. Becomes(u) /\ opens' = opens /\ done' = Nothing
  BY DEF serve_tree
<1> HIDE DEF u
<1>4. Told(u, done', Z)
  BY <1>3, ToldNothing
<1> QED BY <1>1, <1>2, <1>3, <1>4, Became

(* A store of a program keeps it.                                          *)
LEMMA StoreStep ==
    ASSUME NEW Z, InvFor(Z), NEW b \in Bno, Store(b) PROVE InvFor(Z)'
<1>1. TreeOk(Z) /\ Good(S0, Z, opens, {}) /\ opens \subseteq Loc /\ disk \in [Bno -> Blk]
  BY ReadyIs DEF Store, InvFor
<1>2. b \in DataBlocks(Memory) /\ b \in Real /\ S0.cache[b] # Unmapped
  BY DEF Store, Real, S0
<1>3. b > 2 /\ b \notin Free(S0) /\ b \notin Z.p
  BY <1>1, <1>2, DataIs
<1> DEFINE u == [S0 EXCEPT !.cache = [S0.cache EXCEPT ![b] = Stored]]
<1>4. S0 \in St /\ S0.cache \in [Bno -> Blk \cup {Unmapped}] /\ S0.panic = NoPanic
  BY <1>1, MemFacts DEF S0
<1>5. [S0.cache EXCEPT ![b] = Stored] \in [Bno -> Blk \cup {Unmapped}]
  <2>1. Stored \in Blk
    BY DEF Blk, OtherBlk
  <2> QED BY <1>4, <2>1
<1>6. u \in St
  BY <1>4, <1>5 DEF St
<1>7. /\ u.cache = [S0.cache EXCEPT ![b] = Stored] /\ u.dirty = S0.dirty /\ u.wq = S0.wq
      /\ u.panic = S0.panic
  BY <1>4 DEF St
<1>8. /\ cache' = [S0.cache EXCEPT ![b] = Stored] /\ dirty' = S0.dirty /\ wq' = S0.wq /\ disk' = disk
      /\ status' = "up" /\ opens' = opens /\ done' = Nothing
  BY DEF Store, Ready, S0
<1> HIDE DEF u
<1>9. Good(u, Z, opens, {})
  BY <1>1, <1>2, <1>3, <1>6, <1>7, DataGood
<1>10. Becomes(u)
  BY <1>4, <1>7, <1>8 DEF Becomes
<1>11. Told(u, done', Z)
  BY <1>8, ToldNothing
<1> QED BY <1>1, <1>8, <1>9, <1>10, <1>11, Became

(* The disk as it is: none of the writes got there. *)
LEMMA DiskNow ==
    ASSUME NEW Z, InvFor(Z)
    PROVE  TreeOk(Z) /\ disk \in [Bno -> Blk] /\ wq \in Writes /\ Len(wq) \in Nat /\ DiskOk(disk, Z)
<1>1. TreeOk(Z) /\ disk \in [Bno -> Blk] /\ wq \in Writes /\ Crashable(disk, wq, Z)
  BY DEF InvFor, Writes
<1>2. Len(wq) \in Nat
  BY <1>1 DEF Writes
<1>3. DiskOk(After(disk, wq, 0), Z)
  BY <1>1, <1>2 DEF Crashable
<1> QED BY <1>1, <1>2, <1>3, AfterNone

(* A write gets to the disk: what the disk will hold stays as it was. *)
LEMMA WriteBackStep ==
    ASSUME NEW Z, InvFor(Z), WriteBack PROVE InvFor(Z)'
<1>1. TreeOk(Z) /\ disk \in [Bno -> Blk] /\ wq \in Writes /\ Len(wq) \in Nat /\ wq # <<>>
  BY DiskNow DEF WriteBack
<1>2. Crashable(disk, wq, Z)
  BY DEF InvFor
<1>3. /\ Head(wq) \in Bno \X Blk /\ Tail(wq) \in Writes /\ Len(Tail(wq)) = Len(wq) - 1 /\ Len(wq) >= 1
      /\ \A k \in 1..Len(wq) - 1 : Tail(wq)[k] = wq[k + 1]
  BY <1>1 DEF Writes
<1> DEFINE e == [disk EXCEPT ![Head(wq)[1]] = Head(wq)[2]]
<1>4. /\ disk' = e /\ wq' = Tail(wq) /\ cache' = cache /\ dirty' = dirty /\ status' = status
      /\ opens' = opens /\ done' = done
  BY DEF WriteBack
<1>5. e \in [Bno -> Blk]
  <2>1. Head(wq)[1] \in Bno /\ Head(wq)[2] \in Blk
    BY <1>3
  <2> QED BY <1>1, <2>1
<1>6. \A k \in 0..Len(wq) - 1 : After(e, Tail(wq), k) = After(disk, wq, k + 1)
  BY <1>1, AfterTail
<1> HIDE DEF e
<1>7. Crashable(e, Tail(wq), Z)
  <2> SUFFICES ASSUME NEW k \in 0..Len(Tail(wq)) PROVE DiskOk(After(e, Tail(wq), k), Z)
    BY DEF Crashable
  <2>1. k \in 0..Len(wq) - 1 /\ k + 1 \in 0..Len(wq)
    BY <1>1, <1>3
  <2>2. DiskOk(After(disk, wq, k + 1), Z)
    BY <1>2, <2>1 DEF Crashable
  <2> QED BY <1>6, <2>1, <2>2
<1>8. V(S0)' = V(S0)
  <2>1. V(S0)' = After(e, Tail(wq), Len(Tail(wq)))
    BY <1>4 DEF V, S0
  <2>2. After(e, Tail(wq), Len(wq) - 1) = After(disk, wq, Len(wq) - 1 + 1)
    <3>1. Len(wq) - 1 \in 0..Len(wq) - 1
      BY <1>1, <1>3
    <3> QED BY <1>6, <3>1
  <2>3. Len(wq) - 1 + 1 = Len(wq)
    BY <1>1
  <2>4. V(S0) = After(disk, wq, Len(wq))
    BY DEF V, S0
  <2> QED BY <1>3, <2>1, <2>2, <2>3, <2>4
<1>9. S0'.cache = S0.cache /\ S0'.dirty = S0.dirty /\ S0'.wq = Tail(wq) /\ S0'.panic = S0.panic /\ S0.wq = wq
  BY <1>4 DEF S0
<1>10. ASSUME status = "up" PROVE Good(S0, Z, opens, {})'
  <2>1. Good(S0, Z, opens, {})
    BY <1>10 DEF InvFor
  <2>2. Core(S0, Z, opens, {}) /\ S0 \in St
    BY <2>1 DEF Good
  <2>3. Free(S0)' = Free(S0)
    BY <1>4 DEF Free, S0
  <2>4. Mem(S0)' = Mem(S0)
    BY <1>4, <1>8, <2>3 DEF Mem, S0
  <2>5. \A k \in 1..Len(Tail(wq)) : S0.cache[Tail(wq)[k][1]] # Unmapped
    <3> SUFFICES ASSUME NEW k \in 1..Len(Tail(wq)) PROVE S0.cache[Tail(wq)[k][1]] # Unmapped
      OBVIOUS
    <3>1. k \in 1..Len(wq) - 1 /\ k + 1 \in 1..Len(wq)
      BY <1>1, <1>3
    <3>2. \A j \in 1..Len(wq) : S0.cache[wq[j][1]] # Unmapped
      BY <1>9, <2>2 DEF Core
    <3> QED BY <1>3, <3>1, <3>2
  <2>6. S0' \in St
    <3>1. S0.cache \in [Bno -> Blk \cup {Unmapped}] /\ S0.dirty \in SUBSET Bno /\ S0.panic \in Panics
      BY <2>2 DEF St
    <3>2. Tail(wq) \in Seq(Bno \X Blk)
      BY <1>3 DEF Writes
    <3>3. NoLoc \in Out /\ NoPanic \in Panics
      <4>1. NoLoc \in Loc
        BY Sizes DEF NoLoc, Loc, Bno, Slot
      <4> QED BY <4>1 DEF Out, Panics
    <3>4. S0' = [cache |-> S0.cache, dirty |-> S0.dirty, wq |-> Tail(wq), super |-> TRUE, bitmap |-> TRUE,
                 panic |-> NoPanic, r |-> 0, out |-> NoLoc]
      BY <1>4 DEF S0
    <3> QED BY ONLY <3>1, <3>2, <3>3, <3>4 DEF St, On
  <2>7. Crashable(disk', S0'.wq, Z)
    BY <1>4, <1>7, <1>9
  <2>8. Core(S0, Z, opens, {})'
    BY <1>4, <1>8, <1>9, <2>2, <2>3, <2>4, <2>5, <2>7 DEF Core
  <2> QED BY <2>6, <2>8 DEF Good
<1>11. (disk \in [Bno -> Blk] /\ wq \in Seq(Bno \X Blk) /\ Crashable(disk, wq, Z) /\ TreeOk(Z))'
  BY <1>1, <1>3, <1>4, <1>5, <1>7 DEF Writes
<1>12. /\ status = "down" => opens = {} /\ done = Nothing /\ cache = NothingCached /\ dirty = {}
       /\ opens \subseteq Loc
       /\ status \in (Starts \ {NoPanic}) \cup {"up", "down"}
       /\ (status = "up" /\ done[1] \in {"set_size", "close", "remove"} /\ done[2] # Root) =>
            /\ done[2] \in Locs(Z) /\ cache[done[2][1]] # Unmapped
            /\ V(S0)[done[2][1]] = cache[done[2][1]]
  BY DEF InvFor
<1> QED BY <1>4, <1>8, <1>10, <1>11, <1>12 DEF InvFor

(* Power is lost: the disk is as good as any it was about to be. *)
LEMMA CrashStep ==
    ASSUME NEW Z, InvFor(Z), Crash PROVE InvFor(Z)'
<1>1. TreeOk(Z) /\ disk \in [Bno -> Blk] /\ DiskOk(disk, Z)
  BY DiskNow
<1>2. /\ disk' = disk /\ wq' = <<>> /\ cache' = NothingCached /\ dirty' = {} /\ status' = "down"
      /\ opens' = {} /\ done' = Nothing
  BY DEF Crash
<1>3. <<>> \in Seq(Bno \X Blk) /\ Len(<<>>) = 0
  OBVIOUS
<1>4. Crashable(disk, <<>>, Z)
  BY <1>1, <1>3, AfterNone DEF Crashable
<1> QED BY <1>1, <1>2, <1>3, <1>4 DEF InvFor

(* The server starts on what a crash, or fsformat, left. *)
LEMMA RestartStep ==
    ASSUME NEW Z, InvFor(Z), Restart PROVE InvFor(Z)'
<1>1. TreeOk(Z) /\ disk \in [Bno -> Blk] /\ DiskOk(disk, Z)
  BY DiskNow
<1>2. cache = NothingCached /\ dirty = {} /\ wq = <<>> /\ opens = {} /\ done = Nothing
  BY DEF InvFor, Restart
<1>3. \A b \in disk[2].free : b > 2
  BY <1>1 DEF DiskOk, Shape
<1> DEFINE u == fs_init(S0)
<1>4. /\ disk[1].kind # "super" => u.wq = <<>> /\ u.panic = "bad file system magic number"
      /\ disk[1].kind = "super" => Started(u)
  BY <1>1, <1>2, <1>3, InitIs
<1>5. Becomes(u) /\ opens' = opens /\ done' = done /\ (disk[1].kind = "super" => WordsSound(disk))
  BY DEF Restart
<1> HIDE DEF u
<1>6. CASE disk[1].kind = "super"
  <2>1. Good(u, Z, {}, {})
    BY <1>1, <1>4, <1>5, <1>6, StartGood
  <2>2. opens' = {} /\ Told(u, done', Z)
    BY <1>2, <1>5, ToldNothing
  <2> DEFINE O == {}
  <2>3. O \subseteq Loc /\ Good(u, Z, O, {}) /\ opens' = O
    BY <2>1, <2>2
  <2> HIDE DEF O
  <2> QED BY <1>5, <2>2, <2>3, Became
<1>7. CASE disk[1].kind # "super"
  <2>1. u.panic # NoPanic /\ u.panic = "bad file system magic number"
    BY <1>4, <1>7 DEF NoPanic
  <2>2. /\ status' = u.panic /\ wq' = <<>> /\ disk' = disk
    BY <1>4, <1>5, <1>7, <2>1 DEF Becomes
  <2>3. status' \in (Starts \ {NoPanic}) \cup {"up", "down"} /\ status' # "up" /\ status' # "down"
    BY <2>1, <2>2 DEF Starts
  <2>4. <<>> \in Seq(Bno \X Blk) /\ Len(<<>>) = 0
    OBVIOUS
  <2>5. Crashable(disk, <<>>, Z)
    BY <1>1, <2>4, AfterNone DEF Crashable
  <2>6. opens' \subseteq Loc
    BY <1>2, <1>5
  <2> QED BY <1>1, <2>2, <2>3, <2>4, <2>5, <2>6 DEF InvFor
<1> QED BY <1>6, <1>7

(* The server may do nothing. *)
LEMMA StutterStep ==
    ASSUME NEW Z, InvFor(Z), UNCHANGED vars PROVE InvFor(Z)'
<1>1. /\ disk' = disk /\ cache' = cache /\ dirty' = dirty /\ wq' = wq /\ status' = status /\ opens' = opens
      /\ done' = done
  BY DEF vars
<1>2. S0' = S0
  BY <1>1 DEF S0
<1>3. V(S0)' = V(S0)
  BY <1>1, <1>2 DEF V
<1>4. Mem(S0)' = Mem(S0) /\ Free(S0)' = Free(S0)
  BY <1>1, <1>2, <1>3 DEF Mem, Free
<1>5. Good(S0, Z, opens, {})' <=> Good(S0, Z, opens, {})
  BY <1>1, <1>2, <1>3, <1>4 DEF Good, Core
<1> QED BY <1>1, <1>3, <1>5 DEF InvFor

(* The inductive invariant: some tree of directories fits memory and every *)
(* disk that a crash can leave behind. The tree is the one that fsformat   *)
(* made; it stays the same.                                                *)
FsInvariant == \E Z : InvFor(Z)

(* It holds of every image that fsformat makes.                            *)
LEMMA FsInitially == Init => FsInvariant
<1> SUFFICES ASSUME Init PROVE FsInvariant
  OBVIOUS
<1>1. PICK h \in Hosts : disk = Image(h)
  BY DEF Init
<1> DEFINE Z == TreeOf(disk)
<1>2. TreeOk(Z) /\ DiskOk(disk, Z)
  BY <1>1, ImagesRight
<1> HIDE DEF Z
<1>3. disk \in [Bno -> Blk]
  BY <1>2 DEF DiskOk, Shape
<1>4. <<>> \in Seq(Bno \X Blk) /\ Len(<<>>) = 0
  OBVIOUS
<1>5. Crashable(disk, <<>>, Z)
  BY <1>2, <1>3, <1>4, AfterNone DEF Crashable
<1>6. /\ cache = NothingCached /\ dirty = {} /\ wq = <<>> /\ status = "down" /\ opens = {} /\ done = Nothing
  BY DEF Init
<1>7. InvFor(Z)
  BY <1>2, <1>3, <1>4, <1>5, <1>6 DEF InvFor
<1> QED BY <1>7 DEF FsInvariant

(* Every step keeps it.                                                    *)
LEMMA FsStep == FsInvariant /\ [Next]_vars => FsInvariant'
<1> SUFFICES ASSUME FsInvariant, [Next]_vars PROVE FsInvariant'
  OBVIOUS
<1>1. PICK Z : InvFor(Z)
  BY DEF FsInvariant
<1>2. CASE \E p \in OpenPath : serve_open(p)
  BY <1>1, <1>2, OpenStep DEF FsInvariant
<1>3. CASE \E f \in opens, o \in Offset : serve_map(f, o)
  BY <1>1, <1>3, MapStep DEF FsInvariant
<1>4. CASE \E f \in opens, o \in Offset : serve_dirty(f, o)
  BY <1>1, <1>4, DirtyStep DEF FsInvariant
<1>5. CASE \E f \in opens, n \in NewSize : serve_set_size(f, n)
  BY <1>1, <1>5, SetSizeStep DEF FsInvariant
<1>6. CASE \E f \in opens : serve_close(f)
  BY <1>1, <1>6, CloseStep DEF FsInvariant
<1>7. CASE \E p \in RemovePath : serve_remove(p)
  BY <1>1, <1>7, RemoveStep DEF FsInvariant
<1>8. CASE \E p \in DebugPath : serve_debug(p)
  BY <1>1, <1>8, DebugStep DEF FsInvariant
<1>9. CASE serve_sync \/ serve_tree
  BY <1>1, <1>9, SyncStep, TreeStep DEF FsInvariant
<1>10. CASE \E b \in Bno : Store(b)
  BY <1>1, <1>10, StoreStep DEF FsInvariant
<1>11. CASE WriteBack
  BY <1>1, <1>11, WriteBackStep DEF FsInvariant
<1>12. CASE Crash
  BY <1>1, <1>12, CrashStep DEF FsInvariant
<1>13. CASE Restart
  BY <1>1, <1>13, RestartStep DEF FsInvariant
<1>14. CASE UNCHANGED vars
  BY <1>1, <1>14, StutterStep DEF FsInvariant
<1> QED BY <1>2, <1>3, <1>4, <1>5, <1>6, <1>7, <1>8, <1>9, <1>10, <1>11, <1>12, <1>13, <1>14 DEF Next

(* The server of fs/serv.c on the file system of fs/fs.c, with programs,   *)
(* crashes and restarts, keeps the invariant, for every size of disk,      *)
(* blocks and Files, all images and paths, and however many requests are   *)
(* made.                                                                   *)
THEOREM FsKept == Spec => []FsInvariant
<1>1. Init => FsInvariant
  BY FsInitially
<1>2. FsInvariant /\ [Next]_vars => FsInvariant'
  BY FsStep
<1> QED BY <1>1, <1>2, PTL DEF Spec

(* fs.c, alloc_block and free_block: while the server runs, no block       *)
(* belongs to two places of files in memory, and none that belongs to one  *)
(* is free, after any sequence of requests, crashes and restarts.          *)
THEOREM FsBlocksSole == Spec => []NoBlockTwice
<1>1. FsInvariant => NoBlockTwice
  <2> SUFFICES ASSUME NEW Z, InvFor(Z), status = "up" PROVE Sound(Memory, AllPlaces)
    BY DEF FsInvariant, NoBlockTwice
  <2>1. TreeOk(Z) /\ disk \in [Bno -> Blk] /\ Good(S0, Z, opens, {})
    BY DEF InvFor
  <2> QED BY <2>1, GoodSound
<1> QED BY <1>1, FsKept, PTL

(* fs.c, the order of write_block in file_set_size, file_remove and        *)
(* alloc_block_num: at every moment a crash could come, no two Files on    *)
(* the disk name the same block, and none that they name is free in the    *)
(* bitmap on the disk.                                                     *)
THEOREM FsDiskSafe == Spec => []DiskPointersSafe
<1>1. FsInvariant => DiskPointersSafe
  <2> SUFFICES ASSUME NEW Z, InvFor(Z) PROVE Sound(disk, SafePlaces)
    BY DEF FsInvariant, DiskPointersSafe
  <2>1. TreeOk(Z) /\ DiskOk(disk, Z)
    BY DiskNow
  <2> QED BY <2>1, DiskSound
<1> QED BY <1>1, FsKept, PTL

(* fs.c, file_close, file_set_size and file_remove: when the request is    *)
(* done, the File on the disk is the one in memory.                        *)
THEOREM FsEntryWritten == Spec => []EntryOnDisk
<1>1. FsInvariant => EntryOnDisk
  <2> SUFFICES ASSUME NEW Z, InvFor(Z), Ready, done[1] \in {"set_size", "close", "remove"}, done[2] # Root
               PROVE  disk[done[2][1]] = cache[done[2][1]]
    BY DEF FsInvariant, EntryOnDisk
  <2>1. disk \in [Bno -> Blk] /\ wq = <<>> /\ status = "up"
    BY DEF InvFor, Ready
  <2>2. V(S0)[done[2][1]] = cache[done[2][1]]
    BY <2>1 DEF InvFor
  <2>3. V(S0) = disk
    <3>1. V(S0) = After(disk, wq, Len(wq)) /\ Len(wq) = 0
      BY <2>1 DEF V, S0
    <3> QED BY <2>1, <3>1, AfterNone
  <2> QED BY <2>2, <2>3
<1> QED BY <1>1, FsKept, PTL

(* fs.c, the user_panic calls of read_block and write_block: a free block  *)
(* is never read, a block that is not cached never written.                *)
THEOREM FsNeverReadsFree == Spec => []NoFreeBlockRead
<1>1. FsInvariant => NoFreeBlockRead
  <2> SUFFICES ASSUME NEW Z, InvFor(Z) PROVE NoFreeBlockRead
    BY DEF FsInvariant
  <2>1. status \in Starts \cup {"up", "down"}
    BY DEF InvFor
  <2> QED BY <2>1 DEF NoFreeBlockRead, Starts, Panics, NoPanic
<1> QED BY <1>1, FsKept, PTL

-----------------------------------------------------------------------------
(* The driver: kern/virtio.c. *)

(* Fewer calls are made than an le16 counts. *)
NoWrap == MaxCalls < IdxMod

(* An index that is advanced before it wraps. *)
LEMMA Advance ==
    ASSUME NoWrap, NEW i \in Nat, i < MaxCalls
    PROVE  (i + 1) % IdxMod = i + 1 /\ i + 1 \in 0..IdxMod - 1
BY RingAssumption DEF NoWrap

(* An index names an entry of the ring. *)
LEMMA RingIndex ==
    ASSUME NEW i \in Nat
    PROVE  i % QUEUE_SIZE \in 0..QUEUE_SIZE - 1
BY RingAssumption

(* Both sides start level. *)
LEMMA InitHandshake == DriverInit => Handshake
<1> SUFFICES ASSUME DriverInit PROVE Handshake
  OBVIOUS
<1> USE DEF DriverInit
<1>1. TypeOK
  BY RingAssumption DEF TypeOK, Op, Buffers, Stat
<1>2. Settled /\ CompletedCall /\ PanicOnlyOnError
  BY DEF Settled, CompletedCall, PanicOnlyOnError
<1> QED BY <1>1, <1>2 DEF Handshake

(* A call is handed over: it has not been fetched yet. *)
LEMMA CallHandshake ==
    ASSUME NoWrap, Handshake, NEW o \in Op,
           NEW s \in Sector \cup {NoSector}, NEW d \in Data \cup {NoData},
           NEW b \in Buffers, b.sector = s,
           o # "flush" => s \in Sector,
           o = "write" => d \in Data /\ b.data = d,
           Call(o, s, d), submit(o, b)
    PROVE  Handshake'
<1>0. TypeOK /\ avail_idx = req.n /\ Settled /\ req.n \in Nat /\ req.n < MaxCalls
  BY DEF Handshake, Call, TypeOK
<1>1. avail_idx' = avail_idx + 1 /\ avail_idx' \in 0..IdxMod - 1 /\ avail_idx \in Nat
  BY <1>0, Advance DEF submit
<1>2. /\ pc' = "poll" /\ UNCHANGED <<devVars, page>>
      /\ req' = [n |-> req.n + 1, op |-> o, sector |-> s, data |-> d]
      /\ req'.n = req.n + 1 /\ req'.op = o /\ req'.sector = s /\ req'.data = d
  BY DEF Call
<1>3. /\ buffer' = [buffer EXCEPT ![o] = b] /\ buffer' \in [Op -> Buffers]
      /\ buffer'[o] = b
  BY <1>0 DEF submit, TypeOK
<1>4. avail_idx % QUEUE_SIZE \in 0..QUEUE_SIZE - 1
  BY <1>1, RingIndex
<1>5. /\ avail_ring' \in [0..QUEUE_SIZE - 1 -> {0, 3, 6}]
      /\ avail_ring'[avail_idx % QUEUE_SIZE] = Chain[o]
  <2>1. Chain[o] \in {0, 3, 6}
    BY DEF Op, Chain
  <2> QED BY <1>0, <1>4, <2>1 DEF submit, TypeOK
<1>6. TypeOK'
  <2>1. req' \in [n : 0..MaxCalls, op : Op, sector : Sector \cup {NoSector},
                  data : Data \cup {NoData}]
    BY <1>0, <1>2, RingAssumption
  <2> QED BY <1>0, <1>1, <1>2, <1>3, <1>5, <2>1 DEF TypeOK, devVars
<1>7. Polling'
  <2>1. Asked'
    <3>1. avail_idx' - 1 = avail_idx
      BY <1>1
    <3> QED BY <1>2, <1>3, <1>5, <3>1 DEF Asked
  <2>2. (job.stage = "idle" /\ last_avail = avail_idx - 1 /\ Behind)'
    BY <1>0, <1>1, <1>2 DEF Settled, Behind, devVars
  <2> QED BY <1>1, <2>1, <2>2 DEF Polling
<1> QED BY <1>0, <1>1, <1>2, <1>6, <1>7 DEF Handshake, CompletedCall, PanicOnlyOnError

(* Every step of the driver and of the device keeps them in step. *)
LEMMA NextHandshake == NoWrap /\ Handshake /\ [DriverNext]_driverVars => Handshake'
<1> SUFFICES ASSUME NoWrap, Handshake, [DriverNext]_driverVars PROVE Handshake'
  OBVIOUS
<1>0. TypeOK /\ avail_idx = req.n /\ avail_idx \in Nat /\ req.n \in 0..MaxCalls
  BY DEF Handshake, TypeOK
<1>1. ASSUME NEW s \in Sector, read_sector(s) PROVE Handshake'
  <2> DEFINE b == [sector |-> s, data |-> buffer["read"].data, status |-> "none"]
  <2>1. b \in Buffers /\ b.sector = s
    BY <1>0 DEF TypeOK, Op, Buffers, Stat
  <2>2. Call("read", s, NoData) /\ submit("read", b)
    BY <1>1 DEF read_sector
  <2>3. "read" \in Op /\ NoData \in Data \cup {NoData} /\ s \in Sector \cup {NoSector}
    BY DEF Op
  <2> QED BY <2>1, <2>2, <2>3, CallHandshake
<1>2. ASSUME NEW s \in Sector, NEW d \in Data, write_sector(s, d) PROVE Handshake'
  <2> DEFINE b == [sector |-> s, data |-> d, status |-> "none"]
  <2>1. b \in Buffers /\ b.sector = s /\ b.data = d
    BY DEF Buffers, Stat
  <2>2. Call("write", s, d) /\ submit("write", b)
    BY <1>2 DEF write_sector
  <2>3. "write" \in Op /\ d \in Data \cup {NoData} /\ s \in Sector \cup {NoSector}
    BY DEF Op
  <2> QED BY <2>1, <2>2, <2>3, CallHandshake
<1>3. CASE flush
  <2> DEFINE b == [sector |-> NoSector, data |-> NoData, status |-> "none"]
  <2>1. b \in Buffers /\ b.sector = NoSector
    BY DEF Buffers, Stat
  <2>2. Call("flush", NoSector, NoData) /\ submit("flush", b)
    BY <1>3 DEF flush
  <2>3. /\ "flush" \in Op /\ NoData \in Data \cup {NoData}
        /\ NoSector \in Sector \cup {NoSector}
    BY DEF Op
  <2> QED BY <2>1, <2>2, <2>3, CallHandshake
<1>4. CASE poll
  <2>1. /\ pc = "poll" /\ ~(used_idx < avail_idx)
        /\ pc' = IF req.op = "read" THEN "copy" ELSE "check"
        /\ UNCHANGED <<devVars, avail_idx, avail_ring, buffer, req, page>>
    BY <1>4 DEF poll, CaughtUp
  <2>2. Settled /\ Served
    BY <1>0, <2>1 DEF Handshake, Polling, Behind
  <2>3. TypeOK'
    BY <1>0, <2>1 DEF TypeOK, devVars
  <2>4. Settled' /\ Served'
    BY <2>1, <2>2 DEF Settled, Served, devVars
  <2> QED BY <1>0, <2>1, <2>3, <2>4
          DEF Handshake, CompletedCall, PanicOnlyOnError
<1>5. CASE copy
  <2>1. /\ pc = "copy" /\ page' = buffer["read"].data /\ pc' = "check"
        /\ UNCHANGED <<devVars, avail_idx, avail_ring, buffer, req>>
    BY <1>5 DEF copy
  <2>2. Settled /\ Served /\ req.op = "read"
    BY <2>1 DEF Handshake
  <2>3. TypeOK'
    BY <1>0, <2>1 DEF TypeOK, devVars, Op, Buffers
  <2>4. Settled' /\ Served'
    BY <2>1, <2>2 DEF Settled, Served, devVars
  <2>5. buffer'[req'.op].status = "OK" => page' = sectors'[req'.sector]
    BY <2>1, <2>2 DEF Served, devVars
  <2> QED BY <1>0, <2>1, <2>3, <2>4, <2>5
          DEF Handshake, CompletedCall, PanicOnlyOnError
<1>6. CASE check
  <2>1. /\ pc = "check"
        /\ pc' = IF buffer[req.op].status = "OK" THEN "idle" ELSE "panic"
        /\ UNCHANGED <<devVars, avail_idx, avail_ring, buffer, req, page>>
    BY <1>6 DEF check
  <2>2. Settled /\ Served
    BY <2>1 DEF Handshake
  <2>3. TypeOK'
    BY <1>0, <2>1 DEF TypeOK, devVars
  <2>4. Settled' /\ Served'
    BY <2>1, <2>2 DEF Settled, Served, devVars
  <2>5. CompletedCall' /\ PanicOnlyOnError'
    BY <2>1, <2>2 DEF Handshake, CompletedCall, PanicOnlyOnError, Served, devVars
  <2> QED BY <1>0, <2>1, <2>3, <2>4, <2>5 DEF Handshake
<1>7. CASE dev_fetch
  <2>1. /\ job.stage = "idle" /\ last_avail # avail_idx
        /\ job' = [stage |-> "fetched",
                   op |-> CHOOSE o \in Op : Chain[o] = avail_ring[last_avail % QUEUE_SIZE]]
        /\ last_avail' = (last_avail + 1) % IdxMod
        /\ UNCHANGED <<used_idx, sectors, avail_idx, avail_ring, buffer, pc, req, page>>
    BY <1>7 DEF dev_fetch
  <2>2. pc = "poll" /\ Asked /\ last_avail = avail_idx - 1 /\ Behind /\ avail_idx >= 1
    BY <2>1 DEF Handshake, Settled, Polling
  <2>3. last_avail' = avail_idx
    <3>1. last_avail \in Nat /\ last_avail < MaxCalls /\ last_avail + 1 = avail_idx
      BY <1>0, <2>2, RingAssumption
    <3> QED BY <2>1, <3>1, Advance
  <2>4. job'.op = req.op /\ job'.stage = "fetched"
    <3>1. /\ Chain[req.op] = avail_ring[last_avail % QUEUE_SIZE] /\ req.op \in Op
      BY <1>0, <2>2 DEF Asked, TypeOK
    <3>2. \A o \in Op : Chain[o] = Chain[req.op] => o = req.op
      BY <3>1 DEF Op, Chain
    <3> QED BY <2>1, <3>1, <3>2
  <2>5. TypeOK'
    <3>1. job' \in [stage : {"idle", "fetched", "done"}, op : Op]
      BY <1>0, <2>1, <2>4 DEF TypeOK
    <3> QED BY <1>0, <2>1, <2>3, <3>1 DEF TypeOK
  <2>6. Polling'
    BY <2>1, <2>2, <2>3, <2>4 DEF Polling, Asked, Behind
  <2> QED BY <1>0, <2>1, <2>2, <2>5, <2>6 DEF Handshake, CompletedCall, PanicOnlyOnError
<1>8. ASSUME NEW st \in {"OK", "IOERR"}, dev_transfer(st) PROVE Handshake'
  <2> DEFINE o == job.op
             b == buffer[o]
             c == [b EXCEPT !.status = st,
                            !.data = IF o = "read" /\ st = "OK"
                                     THEN sectors[b.sector] ELSE @]
  <2>1. /\ job.stage = "fetched"
        /\ sectors' = IF o = "write" /\ st = "OK"
                   THEN [sectors EXCEPT ![b.sector] = b.data] ELSE sectors
        /\ buffer' = [buffer EXCEPT ![o] = c]
        /\ job' = [job EXCEPT !.stage = "done"]
        /\ UNCHANGED <<used_idx, last_avail, avail_idx, avail_ring, pc, req, page>>
    BY <1>8 DEF dev_transfer
  <2>2. /\ pc = "poll" /\ Asked /\ last_avail = avail_idx /\ Behind
        /\ avail_idx >= 1 /\ o = req.op
    BY <2>1 DEF Handshake, Settled, Polling
  <2>3. /\ o \in Op /\ b \in Buffers /\ b.sector = req.sector
        /\ o # "flush" => b.sector \in Sector
        /\ o = "write" => b.data \in Data /\ b.data = req.data
        /\ sectors \in [Sector -> Data]
    BY <1>0, <2>2 DEF TypeOK, Asked
  <2>4. /\ c \in Buffers /\ c.sector = b.sector /\ c.status = st
        /\ o = "read" /\ st = "OK" => c.data = sectors[b.sector]
        /\ o = "write" => c.data = b.data
    BY <2>3 DEF Buffers, Stat
  <2> HIDE DEF c
  <2>5. /\ sectors' \in [Sector -> Data]
        /\ o # "write" => sectors' = sectors
        /\ o = "write" /\ st = "OK" => sectors'[b.sector] = b.data
    BY <2>1, <2>3
  <2>6. buffer' \in [Op -> Buffers] /\ buffer'[o] = c
    BY <1>0, <2>1, <2>3, <2>4 DEF TypeOK
  <2>7. job' \in [stage : {"idle", "fetched", "done"}, op : Op] /\ job'.stage = "done"
    BY <1>0, <2>1 DEF TypeOK
  <2>8. TypeOK'
    BY <1>0, <2>1, <2>5, <2>6, <2>7 DEF TypeOK
  <2>9. Asked' /\ Behind' /\ last_avail' = avail_idx' /\ avail_idx' >= 1
    BY <2>1, <2>2, <2>3, <2>4, <2>6 DEF Asked, Behind
  <2>10. Served'
    BY <2>1, <2>2, <2>3, <2>4, <2>5, <2>6 DEF Served, Op
  <2> QED BY <1>0, <2>1, <2>2, <2>7, <2>8, <2>9, <2>10
          DEF Handshake, Polling, CompletedCall, PanicOnlyOnError
<1>9. CASE dev_publish
  <2>1. /\ job.stage = "done" /\ used_idx' = (used_idx + 1) % IdxMod
        /\ job' = [job EXCEPT !.stage = "idle"]
        /\ UNCHANGED <<last_avail, sectors, avail_idx, avail_ring, buffer, pc, req, page>>
    BY <1>9 DEF dev_publish
  <2>2. /\ pc = "poll" /\ Asked /\ last_avail = avail_idx /\ Behind
        /\ avail_idx >= 1 /\ Served
    BY <2>1 DEF Handshake, Settled, Polling
  <2>3. used_idx' = avail_idx
    <3>1. used_idx \in Nat /\ used_idx < MaxCalls /\ used_idx + 1 = avail_idx
      BY <1>0, <2>2, RingAssumption DEF Behind
    <3> QED BY <2>1, <3>1, Advance
  <2>4. job' \in [stage : {"idle", "fetched", "done"}, op : Op] /\ job'.stage = "idle"
    BY <1>0, <2>1 DEF TypeOK
  <2>5. TypeOK'
    BY <1>0, <2>1, <2>3, <2>4 DEF TypeOK
  <2>6. Asked' /\ Served' /\ Settled'
    BY <2>1, <2>2, <2>3, <2>4 DEF Asked, Served, Settled
  <2> QED BY <1>0, <2>1, <2>2, <2>5, <2>6
          DEF Handshake, Polling, CompletedCall, PanicOnlyOnError
<1>10. CASE UNCHANGED driverVars
  BY <1>10 DEF driverVars, devVars, Handshake, TypeOK, Polling, Asked, Served, Behind, Settled,
               CompletedCall, PanicOnlyOnError
<1> QED BY <1>1, <1>2, <1>3, <1>4, <1>5, <1>6, <1>7, <1>8, <1>9, <1>10 DEF DriverNext

(* The driver and the device are in step in every reachable state. *)
THEOREM HandshakeHolds == NoWrap => (DriverSpec => []Handshake)
<1> SUFFICES ASSUME NoWrap PROVE DriverSpec => []Handshake
  OBVIOUS
<1>1. DriverInit => Handshake
  BY InitHandshake
<1>2. Handshake /\ [DriverNext]_driverVars => Handshake'
  BY NextHandshake
<1> QED BY <1>1, <1>2, PTL DEF DriverSpec

(* sys_read_sector returns what the disk holds, and what sys_write_sector  *)
(* was given is on the disk when it returns.                               *)
THEOREM CallsAreComplete == NoWrap => (DriverSpec => []CompletedCall)
<1>1. Handshake => CompletedCall
  BY DEF Handshake
<1> QED BY <1>1, HandshakeHolds, PTL

(* The kernel never copies from, judges or refills a request buffer that   *)
(* the device still works on.                                              *)
THEOREM BuffersHaveOneOwner == NoWrap => (DriverSpec => []OneOwner)
<1>1. Handshake => OneOwner
  BY DEF Handshake, OneOwner, Settled
<1> QED BY <1>1, HandshakeHolds, PTL

(* The kernel panics in a disk call only if the device reported an error:  *)
(* the status byte it judges is the answer to this call, never the one the *)
(* driver or an earlier call left there.                                   *)
THEOREM PanicsAreErrors == NoWrap => (DriverSpec => []PanicOnlyOnError)
<1>1. Handshake => PanicOnlyOnError
  BY DEF Handshake
<1> QED BY <1>1, HandshakeHolds, PTL
=============================================================================
