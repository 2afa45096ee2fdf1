-------------------------------- MODULE FsInv --------------------------------
(***************************************************************************)
(* The inductive invariant behind the properties of FsCrash: what memory   *)
(* and every disk a crash may leave behind have in common.                 *)
(***************************************************************************)
EXTENDS FsCrash

(* What the fields and the blocks hold.  A superblock has the root, whose  *)
(* f_dir is never set; OtherBlk is what a block outside the tree of        *)
(* directories may hold.                                                   *)
Direct == 0..NDIRECT - 1
Word == 0..NINDIRECT - 1
Loc == Bno \X Slot
Real == Bno \ {0}

Name == STRING \cup {NoName, "junk"}
FileRec == [name : Name, size : Nat, type : {FTYPE_REG, FTYPE_DIR}, dir : Loc,
            direct : [Direct -> Nat], indirect : Nat]
RootRec == {x \in FileRec : x.dir = NoLoc}
FilesBlk == [kind : {"files"}, f : [Slot -> FileRec]]
SuperBlk == [kind : {"super"}, f : [{0} -> RootRec]]
WordsBlk == [kind : {"words"}, w : [Word -> Nat]]
BitmapBlk == [kind : {"bitmap"}, free : SUBSET Bno]
OtherBlk == {Zero, Stored} \cup WordsBlk
Blk == {Smashed} \cup OtherBlk \cup FilesBlk \cup SuperBlk \cup BitmapBlk

(* What requests never change: the blocks of directory entries (d), with   *)
(* the indirect blocks that lead to some of them (p), and which entries    *)
(* are directories.                                                        *)
Trees == [d : SUBSET Bno, p : SUBSET Bno, dirs : SUBSET Loc]
Locs(Z) == (Z.d \X Slot) \cup {Root}
TreeOk(Z) ==
    /\ Z \in Trees /\ Z.d \subseteq Z.p /\ \A b \in Z.p : b > 2
    /\ Root \in Z.dirs /\ Z.dirs \subseteq Locs(Z)

(* A view says what each block holds: a disk, or memory. *)
Shape(m, Z) ==
    /\ m \in [Bno -> Blk]
    /\ m[0] \in {Zero} \cup SuperBlk
    /\ m[1] \in {Smashed} \cup SuperBlk
    /\ m[2] \in BitmapBlk
    /\ \A b \in Bno : b > 2 => m[b] \in IF b \in Z.d THEN FilesBlk ELSE OtherBlk
    /\ \A b \in m[2].free : b > 2 /\ b \notin Z.p

FileIn(m, f) == Files(m[f[1]])[f[2]]

(* The entries that are directories are those of the tree. *)
Types(m, Z) ==
    \A f \in Locs(Z) : (f # Root \/ m[1] # Smashed) =>
        (FileIn(m, f).type = FTYPE_DIR <=> f \in Z.dirs)

(* The places block numbers are kept in: in a File, and in the blocks of   *)
(* words.                                                                  *)
FilePlaces(Z) == {1} \X Locs(Z) \X SafePlaces
WordPlaces == {2} \X Bno \X Word
Places(Z) == FilePlaces(Z) \cup WordPlaces
At(m, x) ==
    IF x[1] = 1
    THEN IF x[3] = NINDIRECT THEN FileIn(m, x[2]).indirect ELSE FileIn(m, x[2]).direct[x[3]]
    ELSE IF m[x[2]].kind = "words" THEN m[x[2]].w[x[3]] ELSE 0

(* No block is in two places, and none that is in one is free. *)
Sole(m, Q) ==
    \A x \in Q : At(m, x) \in Real =>
        /\ At(m, x) > 2 /\ At(m, x) \notin m[2].free
        /\ \A y \in Q : At(m, y) = At(m, x) => x = y

(* Only a directory leads to the blocks of entries. *)
Holder(x, Z) == IF x[1] = 1 THEN x[2] \in Z.dirs ELSE x[2] \in Z.p
Guarded(m, Z) == \A x \in Places(Z) : At(m, x) \in Z.p => Holder(x, Z)

(* The numbers in blocks of words need not be right on a disk: file_flush  *)
(* does not write them back.                                               *)
DiskOk(m, Z) == Shape(m, Z) /\ Types(m, Z) /\ Guarded(m, Z) /\ Sole(m, FilePlaces(Z))
MemOk(m, Z) == DiskOk(m, Z) /\ m[1] # Smashed /\ Sole(m, Places(Z))

(* Disk d when the first k of the writes w got there. *)
After(d, w, k) ==
    [b \in Bno |->
        LET on == {j \in 1..k : w[j][1] = b}
        IN  IF on = {} THEN d[b] ELSE w[Max(on)][2]]
Crashable(d, w, Z) == \A k \in 0..Len(w) : DiskOk(After(d, w, k), Z)

(* What the disk will hold, and what the server's memory stands for: a     *)
(* free block that is not cached is zero when it is mapped again.          *)
V(s) == After(disk, s.wq, Len(s.wq))
Mem(s) == [b \in Bno |-> IF s.cache[b] # Unmapped THEN s.cache[b]
                         ELSE IF b \in Free(s) THEN Zero ELSE V(s)[b]]

(* A block number in a File on the disk is also the one in memory, except  *)
(* in a file of F, which is being cut: there it may be in none in memory.  *)
Rel(v, m, F, Z) ==
    \A x \in FilePlaces(Z) : At(v, x) \in Real =>
        At(v, x) = At(m, x) \/ (x[2] \in F /\ \A y \in FilePlaces(Z) : At(m, y) # At(v, x))

(* Place i of directory g holds block b. *)
Leads(m, g, i, b) ==
    IF i < NDIRECT THEN At(m, <<1, g, i>>) = b
    ELSE At(m, <<1, g, NINDIRECT>>) \in Real /\ At(m, <<2, At(m, <<1, g, NINDIRECT>>), i>>) = b

(* f_dir of a file that was opened is its directory: file_flush on it      *)
(* reaches the block that the File is in, which is dirty.                  *)
OpenOk(m, D, f, Z) ==
    f = Root \/
    LET g == FileIn(m, f).dir
    IN  /\ f \in Z.d \X Slot /\ f[1] \in D
        /\ g \in Z.dirs /\ (g = Root \/ g[1] \in D)
        /\ \E i \in Word : i < FileIn(m, g).size \div BY2BLK /\ Leads(m, g, i, f[1])

(* The messages a call may end with; those of NoFreeBlockRead are not      *)
(* among them.                                                             *)
Panics == {NoPanic, "kernel", "null pointer", "reading non-existent block"}
Starts == Panics \cup {"bad file system magic number"}

(* A call is working: the files of O were opened, those of F are being     *)
(* cut.                                                                    *)
Core(s, Z, O, F) ==
    /\ Crashable(disk, s.wq, Z)
    /\ \A b \in {0, 1, 2} \cup s.dirty : s.cache[b] # Unmapped
    /\ \A k \in 1..Len(s.wq) : s.cache[s.wq[k][1]] # Unmapped
    /\ MemOk(Mem(s), Z)
    /\ s.panic = NoPanic => V(s)[2].free \subseteq Free(s) /\ Rel(V(s), Mem(s), F, Z)
    /\ \A f \in O : OpenOk(Mem(s), s.dirty, f, Z)

(* The types of a state of fs.c, and of what its functions hand back. *)
On == {TRUE}
Out == Loc \cup Nat
       \cup [in : {"file"}, f : Loc, i : Direct] \cup [in : {"block"}, b : Bno, i : Word]
       \cup [file : Loc, dir : Loc, last : Name]
St == [cache : [Bno -> Blk \cup {Unmapped}], dirty : SUBSET Bno, wq : Seq(Bno \X Blk),
       super : On, bitmap : On, panic : Panics, r : Int, out : Out]

Good(s, Z, O, F) == s \in St /\ Core(s, Z, O, F)

(* The inductive invariant, for the tree Z of the image that was mounted   *)
(* first.  The last conjunct is EntryOnDisk for the writes under way.      *)
InvFor(Z) ==
    /\ TreeOk(Z)
    /\ disk \in [Bno -> Blk] /\ wq \in Seq(Bno \X Blk)
    /\ Crashable(disk, wq, Z)
    /\ status = "up" => Good(S0, Z, opens, {})
    /\ status = "down" => opens = {} /\ done = Nothing /\ cache = NothingCached /\ dirty = {}
    /\ opens \subseteq Loc
    /\ status \in (Starts \ {NoPanic}) \cup {"up", "down"}
    /\ (status = "up" /\ done[1] \in {"set_size", "close", "remove"} /\ done[2] # Root) =>
          /\ done[2] \in Locs(Z) /\ cache[done[2][1]] # Unmapped
          /\ V(S0)[done[2][1]] = cache[done[2][1]]

(* The tree on a disk. *)
TreeOf(m) ==
    LET d == {b \in Bno : b > 2 /\ m[b].kind = "files"}
        p == {b \in Bno : b > 2 /\ m[b].kind = "words" /\ \E i \in Word : m[b].w[i] \in d}
    IN  [d |-> d, p |-> d \cup p,
         dirs |-> {Root} \cup {f \in d \X Slot : FileIn(m, f).type = FTYPE_DIR}]

(* The invariant in a form that TLC evaluates. *)
CrashInv == InvFor(TreeOf(disk))

(* The images that fsformat writes have the form that the invariant needs. *)
ASSUME ImagesRight ==
    \A h \in Hosts : TreeOk(TreeOf(Image(h))) /\ DiskOk(Image(h), TreeOf(Image(h)))
=============================================================================
