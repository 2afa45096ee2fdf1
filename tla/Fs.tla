--------------------------------- MODULE Fs ---------------------------------
(***************************************************************************)
(* The file system inside its server: fs/fs.c and fs/ide.c.                *)
(*                                                                         *)
(* A block of the disk that is in use by the server is mapped at a fixed   *)
(* address of its own ("cache").  A struct File lives in a cached block, so *)
(* a File pointer is a block and a slot in it.  A block is written back by *)
(* write_block if the server's page table entry has PTE_D, which the hart  *)
(* sets when the server (not a client that shares the page) stores to it.  *)
(*                                                                         *)
(* The server runs one request at a time.  What a call does in memory is a *)
(* function of a record s: the cache, the dirty pages, the disk writes that *)
(* were issued (wq), the last return value (r) with what it stores through *)
(* its pointer argument (out), and the message of user_panic.  The writes  *)
(* reach the disk one by one, in order, and a crash may come before any of *)
(* them.  A write of a block is atomic here (it is eight sectors).         *)
(*                                                                         *)
(* Data: a block is zero, super, bitmap, files (of a directory), words (an *)
(* indirect block) or data that a program stored; what is stored there     *)
(* reads as a block number past the end of the disk.  A path is a sequence *)
(* of names and slashes.  BIT2BLK is larger than NBLOCK: one bitmap block. *)
(***************************************************************************)
EXTENDS Integers, Sequences, SequencesExt, FiniteSetsExt

CONSTANTS NBLOCK, BY2BLK, FILE2BLK, NDIRECT, NINDIRECT,
          Long,        \* the names of MAXNAMELEN characters or more
          MaxPages     \* the pages the kernel can give to the cache

ASSUME SizeAssumption ==
    /\ {NBLOCK, BY2BLK, FILE2BLK, NDIRECT, NINDIRECT, MaxPages} \subseteq Nat \ {0}
    /\ NBLOCK > 3 /\ NDIRECT < NINDIRECT /\ MaxPages > 2

VARIABLES disk,    \* what the disk holds
          cache,   \* the server's memory: its mapped blocks
          dirty,   \* the blocks whose entry has PTE_D
          wq,      \* writes that were issued and are not on the disk yet
          status   \* "up", "down", or the message of user_panic

fsvars == <<disk, cache, dirty, wq, status>>

E_INVAL == -3
E_NO_MEM == -4
E_NO_DISK == -8
E_NOT_FOUND == -10
E_BAD_PATH == -11
E_FILE_EXISTS == -12
PANIC == -99           \* user_panic does not return
GoOn == 1              \* no return yet: the loop goes on

FTYPE_REG == 0
FTYPE_DIR == 1

Bno == 0..NBLOCK - 1
Slot == 0..FILE2BLK - 1

NoName == ""           \* the name of a File that is not used
NoPanic == ""          \* no message: user_panic was not called
NoLoc == <<0, 0>>      \* the null File pointer
Root == <<1, 0>>       \* &super->s_root

-----------------------------------------------------------------------------
(* Blocks. *)

NoFile == [name |-> NoName, size |-> 0, type |-> FTYPE_REG, dir |-> NoLoc,
           direct |-> [i \in 0..NDIRECT - 1 |-> 0], indirect |-> 0]

Unmapped == [kind |-> "unmapped"]
Zero == [kind |-> "zero"]
Stored == [kind |-> "data"]
Smashed == [kind |-> "oops"]
BitmapOf(S) == [kind |-> "bitmap", free |-> S]
SuperOf(f) == [kind |-> "super", f |-> [j \in {0} |-> f]]
FilesOf(fs) == [kind |-> "files", f |-> fs]

NoWords == [i \in 0..NINDIRECT - 1 |-> 0]
WordsOf(w) == IF w = NoWords THEN Zero ELSE [kind |-> "words", w |-> w]

(* The block as the code that follows a pointer to it sees it. *)
Files(c) == IF c.kind \in {"super", "files"} THEN c.f
            ELSE [j \in Slot |-> IF c = Zero THEN NoFile ELSE [NoFile EXCEPT !.name = "junk"]]
Words(c) == CASE c = Zero -> NoWords
              [] c.kind = "words" -> c.w
              [] OTHER -> [i \in 0..NINDIRECT - 1 |-> NBLOCK]

-----------------------------------------------------------------------------
(* The state a call works on. *)

S0 == [cache |-> cache, dirty |-> dirty, wq |-> wq, super |-> TRUE, bitmap |-> TRUE,
       panic |-> NoPanic, r |-> 0, out |-> NoLoc]

Ret(s, r) == [s EXCEPT !.r = r]
RetOut(s, x) == [s EXCEPT !.r = 0, !.out = x]
user_panic(s, why) ==
    IF s.panic = NoPanic THEN [s EXCEPT !.panic = why, !.r = PANIC] ELSE [s EXCEPT !.r = PANIC]

(* A store of the server to a page of the cache: the hart sets PTE_D. *)
StoreBlock(s, b, c) == [s EXCEPT !.cache[b] = c, !.dirty = @ \cup {b}]

File(s, f) == Files(s.cache[f[1]])[f[2]]
SetFile(s, f, x) ==
    StoreBlock(s, f[1], [kind |-> IF f = Root THEN "super" ELSE "files",
                         f |-> [Files(s.cache[f[1]]) EXCEPT ![f[2]] = x]])

SetName(s, f, x) == SetFile(s, f, [File(s, f) EXCEPT !.name = x])
SetSize(s, f, x) == SetFile(s, f, [File(s, f) EXCEPT !.size = x])
SetDir(s, f, x) == SetFile(s, f, [File(s, f) EXCEPT !.dir = x])
SetIndirect(s, f, x) == SetFile(s, f, [File(s, f) EXCEPT !.indirect = x])

(* A call and what follows it; Try: if ((r = call) < 0) return r; *)
Then(t, Rest(_)) == Rest(t)
Try(t, Rest(_)) == IF t.r < 0 THEN t ELSE Rest(t)

(* for (i = lo; i < hi; i++): at[k] is the state when k passes are done. *)
For(Body(_, _), s, lo, hi) ==
    LET n == IF lo < hi THEN hi - lo ELSE 0
        at[k \in 0..n] == IF k = 0 THEN s ELSE Body(at[k - 1], lo + k - 1)
    IN  at[n]

(* A loop that may return; r0 is what follows it. *)
ForRet(Body(_, _), s, lo, hi, r0) ==
    LET Until(t, i) == IF t.r = GoOn THEN Body(t, i) ELSE t
    IN  Then(For(Until, Ret(s, GoOn), lo, hi),
             LAMBDA e : IF e.r = GoOn THEN Ret(e, r0) ELSE e)

-----------------------------------------------------------------------------
(* The cache. *)

block_is_mapped(s, b) == b \in Bno /\ s.cache[b] # Unmapped

block_is_dirty(s, b) == block_is_mapped(s, b) /\ b \in s.dirty

(* The entry of a clean page is written anew with PTE_DIRTY, which is the  *)
(* bit of PTE_R: PTE_D stays clear.                                        *)
dirty_block(s, b) == Ret(s, IF block_is_mapped(s, b) THEN 0 ELSE E_NOT_FOUND)

write_block(s, b) ==
    IF ~block_is_mapped(s, b) THEN user_panic(s, "write unmapped block")
    ELSE IF s.panic # NoPanic THEN s
    ELSE [s EXCEPT !.wq = Append(@, <<b, s.cache[b]>>)]

Free(s) == s.cache[2].free

block_is_free(s, b) == s.super /\ b \in Bno /\ b \in Free(s)

(* What ide_read finds: the writes before it are done. *)
ide_read(s, b) ==
    LET w == {k \in 1..Len(s.wq) : s.wq[k][1] = b}
    IN  IF w = {} THEN disk[b] ELSE s.wq[Max(w)][2]

Pages(s) == Cardinality({b \in Bno : s.cache[b] # Unmapped})

(* The result of syscall_mem_alloc is not looked at; ide_read then makes   *)
(* the kernel write to a page that is not there.                           *)
read_block(s, b) ==
    IF s.super /\ b >= NBLOCK THEN user_panic(s, "reading non-existent block")
    ELSE IF s.bitmap /\ block_is_free(s, b) THEN user_panic(s, "reading free block")
    ELSE IF block_is_mapped(s, b) THEN RetOut(s, b)
    ELSE IF Pages(s) >= MaxPages THEN user_panic(s, "kernel")
    ELSE RetOut([s EXCEPT !.cache[b] = ide_read(s, b), !.dirty = @ \ {b}], b)

map_block(s, b) ==
    IF block_is_mapped(s, b) THEN Ret(s, 0)
    ELSE IF Pages(s) >= MaxPages THEN Ret(s, E_NO_MEM)
    ELSE Ret([s EXCEPT !.cache[b] = Zero, !.dirty = @ \ {b}], 0)

free_block(s, b) ==
    IF b = 0 \/ b >= NBLOCK THEN s
    ELSE StoreBlock(s, 2, BitmapOf(Free(s) \cup {b}))

(* Mutant: the bitmap is not written. *)
alloc_block_num_NoWrite(s) ==
    LET S == {b \in Free(s) : b >= 3}
    IN  IF S = {} THEN Ret(s, E_NO_DISK)
        ELSE Ret(StoreBlock(s, 2, BitmapOf(Free(s) \ {Min(S)})), Min(S))

alloc_block_num(s) ==
    LET S == {b \in Free(s) : b >= 3}
    IN  IF S = {} THEN Ret(s, E_NO_DISK)
        ELSE Ret(write_block(StoreBlock(s, 2, BitmapOf(Free(s) \ {Min(S)})), 2), Min(S))

alloc_block(s) ==
    Try(alloc_block_num(s), LAMBDA t :
        Then(map_block(t, t.r), LAMBDA u :
             IF u.r < 0 THEN Ret(free_block(u, t.r), u.r) ELSE Ret(u, t.r)))

-----------------------------------------------------------------------------
(* Start. *)

read_super(s) ==
    Try(read_block(s, 1), LAMBDA t :
        IF t.cache[1].kind # "super" THEN user_panic(t, "bad file system magic number")
        ELSE [t EXCEPT !.super = TRUE])

check_write_block(s) ==
    LET Smash(t) == write_block(StoreBlock(StoreBlock(t, 0, t.cache[1]), 1, Smashed), 1)
        Reread(t) == read_block([t EXCEPT !.cache[1] = Unmapped, !.dirty = @ \ {1}], 1)
        Compare(t) == IF t.cache[1] # Smashed THEN user_panic(t, "assertion failed") ELSE t
        Repair(t) == write_block(StoreBlock(t, 1, t.cache[0]), 1)
    IN  Try(read_block([s EXCEPT !.super = FALSE], 0), LAMBDA t :
            [Repair(Compare(Reread(Smash(t)))) EXCEPT !.super = TRUE])

read_bitmap(s) ==
    Try([read_block(s, 2) EXCEPT !.bitmap = TRUE], LAMBDA t :
        IF \E b \in {0, 1, 2} : block_is_free(t, b) THEN user_panic(t, "assertion failed")
        ELSE t)

fs_init(s) ==
    Try(read_super([s EXCEPT !.super = FALSE, !.bitmap = FALSE]), LAMBDA t :
        Then(check_write_block(t), LAMBDA u : IF u.panic # NoPanic THEN u ELSE read_bitmap(u)))

-----------------------------------------------------------------------------
(* Blocks of a file.  A pointer to a block number is a place: a direct     *)
(* entry of a File or a word of an indirect block.                         *)

Load(s, p) == IF p.in = "file" THEN File(s, p.f).direct[p.i] ELSE Words(s.cache[p.b])[p.i]
Save(s, p, v) ==
    IF p.in = "file" THEN SetFile(s, p.f, [File(s, p.f) EXCEPT !.direct[p.i] = v])
    ELSE StoreBlock(s, p.b, WordsOf([Words(s.cache[p.b]) EXCEPT ![p.i] = v]))
DirectAt(f, i) == [in |-> "file", f |-> f, i |-> i]
WordAt(b, i) == [in |-> "block", b |-> b, i |-> i]

file_block_walk(s, f, filebno, alloc) ==
    LET In(t, b) == Try(read_block(t, b), LAMBDA u : RetOut(u, WordAt(b, filebno)))
    IN  IF filebno < NDIRECT THEN RetOut(s, DirectAt(f, filebno))
        ELSE IF filebno >= NINDIRECT THEN Ret(s, E_INVAL)
        ELSE IF File(s, f).indirect # 0 THEN In(s, File(s, f).indirect)
        ELSE IF ~alloc THEN Ret(s, E_NOT_FOUND)
        ELSE Try(alloc_block(s), LAMBDA t : In(SetIndirect(t, f, t.r), t.r))

file_map_block(s, f, filebno, alloc) ==
    Try(file_block_walk(s, f, filebno, alloc), LAMBDA t :
        IF Load(t, t.out) # 0 THEN RetOut(t, Load(t, t.out))
        ELSE IF ~alloc THEN Ret(t, E_NOT_FOUND)
        ELSE Try(alloc_block(t), LAMBDA a : RetOut(Save(a, t.out, a.r), a.r)))

(* Mutant: the block number stays in the file. *)
file_clear_block_Keeps(s, f, filebno) ==
    Try(file_block_walk(s, f, filebno, FALSE), LAMBDA t :
        IF Load(t, t.out) = 0 THEN Ret(t, 0)
        ELSE Ret(free_block(t, Load(t, t.out)), 0))

file_clear_block(s, f, filebno) ==
    Try(file_block_walk(s, f, filebno, FALSE), LAMBDA t :
        IF Load(t, t.out) = 0 THEN Ret(t, 0)
        ELSE Ret(Save(free_block(t, Load(t, t.out)), t.out, 0), 0))

file_get_block(s, f, filebno) ==
    Try(file_map_block(s, f, filebno, TRUE), LAMBDA t : read_block(t, t.out))

file_dirty(s, f, offset) ==
    Try(file_map_block(s, f, offset \div BY2BLK, FALSE), LAMBDA t : dirty_block(t, t.out))

-----------------------------------------------------------------------------
(* Directories and paths. *)

(* The entries of block b with this name; the first one counts. *)
Entries(s, b, name) == {j \in Slot : Files(s.cache[b])[j].name = name}

(* The loops over the blocks of a directory, which differ in how they get  *)
(* a block.                                                                *)
Search(Get(_, _, _), s, dir, name) ==
    LET In(t) == IF Entries(t, t.out, name) = {} THEN Ret(t, GoOn)
                 ELSE RetOut(t, <<t.out, Min(Entries(t, t.out, name))>>)
        Look(t, i) == Try(Get(t, dir, i), In)
    IN  ForRet(Look, s, 0, File(s, dir).size \div BY2BLK, GoOn)

Found(s, dir) ==
    IF s.r = GoOn THEN Ret(s, E_NOT_FOUND)
    ELSE IF s.r < 0 THEN s ELSE RetOut(SetDir(s, s.out, dir), s.out)

dir_lookup(s, dir, name) == Found(Search(file_get_block, s, dir, name), dir)

dir_alloc_file(s, dir) ==
    LET Grow(t, nblock) ==
            Try(file_get_block(SetSize(t, dir, File(t, dir).size + BY2BLK), dir, nblock),
                LAMBDA u : RetOut(u, <<u.out, 0>>))
    IN  Then(Search(file_get_block, s, dir, NoName), LAMBDA t :
             IF t.r # GoOn THEN t ELSE Grow(t, File(t, dir).size \div BY2BLK))

(* skip_slash passes over any number of slashes, so what walk_path sees is *)
(* the sequence of the names.                                              *)
skip_slash(path) == SelectSeq(path, LAMBDA x : x # "/")

(* out is the file, its directory and, if only the last element is not     *)
(* there, that element.                                                    *)
walk_path(s, path) ==
    LET names == skip_slash(path)
        Leave(t, r) == [Ret(t, r) EXCEPT !.out.dir = NoLoc]
        Go(t, o, k) ==
            IF t.r < 0
            THEN [t EXCEPT !.out = [o EXCEPT !.last = names[k],
                                             !.dir = IF t.r = E_NOT_FOUND /\ k = Len(names)
                                                     THEN o.file ELSE NoLoc]]
            ELSE [Ret(t, GoOn) EXCEPT !.out = [o EXCEPT !.dir = o.file, !.file = t.out]]
        Step(t, k) ==
            IF names[k] \in Long THEN Leave(t, E_BAD_PATH)
            ELSE IF File(t, t.out.file).type # FTYPE_DIR THEN Leave(t, E_NOT_FOUND)
            ELSE Go(dir_lookup(t, t.out.file, names[k]), t.out, k)
    IN  ForRet(Step, RetOut(s, [file |-> Root, dir |-> NoLoc, last |-> NoName]),
               1, Len(names) + 1, 0)

file_open(s, path) == Try(walk_path(s, path), LAMBDA t : RetOut(t, t.out.file))

(* If dir_alloc_file fails, what is returned is the result of walk_path. *)
file_create(s, path) ==
    Then(walk_path(s, path), LAMBDA t :
         IF t.r = 0 THEN Ret(t, E_FILE_EXISTS)
         ELSE IF t.r # E_NOT_FOUND \/ t.out.dir = NoLoc THEN t
         ELSE Then(dir_alloc_file(t, t.out.dir), LAMBDA u :
                   IF u.r < 0 THEN Ret(u, t.r) ELSE SetName(u, u.out, t.out.last)))

-----------------------------------------------------------------------------
(* Sizes, write back, removal. *)

(* Mutant: the indirect block is freed and f_indirect keeps it. *)
file_truncate_Keeps(s, f, newsize) ==
    LET new == IF newsize = 0 THEN 0 ELSE newsize \div BY2BLK + 1
        Clear(t, b) == file_clear_block(t, f, b)
        Indirect(t, i) == IF new <= NDIRECT /\ i # 0 THEN free_block(t, i) ELSE t
    IN  Then(For(Clear, s, new, File(s, f).size \div BY2BLK + 1), LAMBDA t :
             SetSize(Indirect(t, File(t, f).indirect), f, newsize))

file_truncate(s, f, newsize) ==
    LET new == IF newsize = 0 THEN 0 ELSE newsize \div BY2BLK + 1
        Clear(t, b) == file_clear_block(t, f, b)
        Indirect(t, i) ==
            IF new <= NDIRECT /\ i # 0 THEN SetIndirect(free_block(t, i), f, 0) ELSE t
    IN  Then(For(Clear, s, new, File(s, f).size \div BY2BLK + 1), LAMBDA t :
             SetSize(Indirect(t, File(t, f).indirect), f, newsize))

file_flush(s, f) ==
    LET Write(t) == IF t.r >= 0 /\ block_is_dirty(t, t.out) THEN write_block(t, t.out) ELSE t
        Flush(t, b) == Write(file_map_block(t, f, b, FALSE))
    IN  For(Flush, s, 0, File(s, f).size \div BY2BLK + 1)

(* if (f->f_dir) file_flush(f->f_dir) *)
FlushDir(s, f) ==
    LET d == File(s, f).dir IN IF d = NoLoc THEN s ELSE file_flush(s, d)

file_set_size(s, f, newsize) ==
    LET t == IF File(s, f).size > newsize THEN file_truncate(s, f, newsize) ELSE s
    IN  Ret(FlushDir(SetSize(t, f, newsize), f), 0)

fs_sync(s) ==
    LET Sync(t, b) == IF block_is_dirty(t, b) THEN write_block(t, b) ELSE t
    IN  For(Sync, s, 0, NBLOCK)

(* Mutant: only the file itself is written back. *)
file_close_NoDir(s, f) == file_flush(s, f)

file_close(s, f) == FlushDir(file_flush(s, f), f)

file_remove(s, path) ==
    LET Gone(t, f) ==
            RetOut(FlushDir(file_flush(SetName(file_truncate(t, f, 0), f, NoName), f), f), f)
    IN  Try(walk_path(s, path), LAMBDA t : Gone(t, t.out.file))
=============================================================================
