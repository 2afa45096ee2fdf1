------------------------------- MODULE FsTwin -------------------------------
(***************************************************************************)
(* The second half of fs/fs.c: functions that go over a file on their own  *)
(* instead of through file_map_block.  Some print (debug_file, debug_dir,  *)
(* to_tree_dir; the text is left out, what they do to the blocks is not),  *)
(* the others are meant to replace functions of the first half, as the     *)
(* comments of fs/serv.h name them.                                        *)
(***************************************************************************)
EXTENDS Fs

(* The lines that each of these functions repeats: the number of block bno *)
(* of f, 0 if it has none.                                                 *)
Diskbno(s, f, bno, alloc) ==
    LET In(t, b) == Try(read_block(t, b), LAMBDA u : RetOut(u, Words(u.cache[b])[bno]))
    IN  IF bno < NDIRECT THEN RetOut(s, File(s, f).direct[bno])
        ELSE IF bno >= NINDIRECT THEN Ret(s, E_INVAL)
        ELSE IF File(s, f).indirect # 0 THEN In(s, File(s, f).indirect)
        ELSE IF ~alloc THEN Ret(s, E_NOT_FOUND)
        ELSE Try(alloc_block(s), LAMBDA t : In(SetIndirect(t, f, t.r), t.r))

alloc_block1(s) ==
    LET S == {b \in Free(s) : b >= 3}
        Map(t, b) ==
            IF block_is_mapped(t, b) THEN Ret(t, b)
            ELSE IF Pages(t) >= MaxPages
                 THEN Ret(StoreBlock(t, 2, BitmapOf(Free(t) \cup {b})), E_NO_MEM)
            ELSE Ret([t EXCEPT !.cache[b] = Zero, !.dirty = @ \ {b}], b)
    IN  IF S = {} THEN Ret(s, E_NO_DISK)
        ELSE Map(write_block(StoreBlock(s, 2, BitmapOf(Free(s) \ {Min(S)})), 2), Min(S))

(* A block that is not there is allocated and not entered into the file. *)
BlockOrNew(s, f, bno) ==
    Try(Diskbno(s, f, bno, TRUE), LAMBDA d :
        IF d.out # 0 THEN read_block(d, d.out)
        ELSE Try(alloc_block(d), LAMBDA a : read_block(a, a.r)))

dir_lookup1(s, dir, name) == Found(Search(BlockOrNew, s, dir, name), dir)

(* One slash is passed over before each element, so a second slash or one  *)
(* at the end is followed by an empty element.                             *)
Elements(path) ==
    LET from == SelectSeq([k \in 1..Len(path) + 1 |-> k - 1],
                          LAMBDA i : IF i = 0 THEN path # <<>> /\ Head(path) # "/"
                                     ELSE path[i] = "/")
    IN  [k \in DOMAIN from |->
            IF from[k] < Len(path) /\ path[from[k] + 1] # "/" THEN path[from[k] + 1] ELSE NoName]

(* The loop over the elements that file_open1, get_file, alloc_file,       *)
(* free_file and get_file_relative share.                                  *)
WalkWith(Lookup(_, _, _), s, from, path) ==
    LET e == Elements(path)
        Step(t, k) ==
            IF e[k] \in Long THEN Ret(t, E_BAD_PATH)
            ELSE IF File(t, t.out).type # FTYPE_DIR THEN Ret(t, E_NOT_FOUND)
            ELSE Try(Lookup(t, t.out, e[k]), LAMBDA u : Ret(u, GoOn))
    IN  ForRet(Step, RetOut(s, from), 1, Len(e) + 1, 0)

file_open1(s, path) == WalkWith(dir_lookup1, s, Root, path)

get_file_relative(s, relative, path) == WalkWith(dir_lookup1, s, relative, path)

get_file_absolute(s, path) == get_file_relative(s, Root, path)

file_flush1(s, f) ==
    LET Write(t) == IF t.r >= 0 /\ t.out # 0 /\ block_is_dirty(t, t.out)
                    THEN write_block(t, t.out) ELSE t
        Flush(t, bno) == Write(Diskbno(t, f, bno, FALSE))
    IN  For(Flush, s, 0, File(s, f).size \div BY2BLK + 1)

-----------------------------------------------------------------------------
(* What is printed. *)

(* The numbers of the blocks, then their contents up to f_size. *)
debug_file(s, f) ==
    LET n == File(s, f).size \div BY2BLK + 1
        Number(t, bno) ==
            Then(Diskbno(t, f, bno, FALSE), LAMBDA u :
                 IF u.r < 0 /\ u.r # E_NOT_FOUND THEN u ELSE Ret(u, GoOn))
        Content(t, bno) == Try(BlockOrNew(t, f, bno), LAMBDA u : Ret(u, GoOn))
    IN  IF File(s, f).name = NoName THEN s
        ELSE Try(ForRet(Number, s, 0, n, 0), LAMBDA t : ForRet(Content, t, 0, n, 0))

debug_dir(s, dir) ==
    LET Block(t, bno) ==
            Then(Diskbno(t, dir, bno, FALSE), LAMBDA u :
                 IF u.r = E_NOT_FOUND \/ (u.r = 0 /\ u.out = 0) THEN Ret(u, GoOn)
                 ELSE Try(u, LAMBDA v : Try(read_block(v, v.out), LAMBDA w : Ret(w, GoOn))))
    IN  IF File(s, dir).name = NoName THEN s
        ELSE ForRet(Block, s, 0, File(s, dir).size \div BY2BLK, 0)

(* The recursion as a stack of what is left to do: the blocks of a         *)
(* directory from bno to its end, and entries of a block.  An error ends   *)
(* the directory it is met in.                                             *)
to_tree_dir(s, dir) ==
    LET Blocks(d, b, n) == IF b < n THEN <<[dir |-> d, bno |-> b, end |-> n]>> ELSE <<>>
        Dir(t, d) == Blocks(d, 0, File(t, d).size \div BY2BLK)
        Block(t, top, rest) ==
            [s |-> t, todo |-> IF t.r < 0 THEN rest
                               ELSE [k \in 1..FILE2BLK |-> [file |-> <<t.out, k - 1>>]]
                                    \o (Blocks(top.dir, top.bno + 1, top.end) \o rest)]
        Entry(t, f, rest) ==
            [s |-> t, todo |-> IF File(t, f).name # NoName /\ File(t, f).type # FTYPE_REG
                               THEN Dir(t, f) \o rest ELSE rest]
        Visit(x, n) ==
            IF x.todo = <<>> THEN x
            ELSE LET top == Head(x.todo)
                 IN  IF "bno" \in DOMAIN top
                     THEN Block(BlockOrNew(x.s, top.dir, top.bno), top, Tail(x.todo))
                     ELSE Entry(x.s, top.file, Tail(x.todo))
    IN  For(Visit, [s |-> s, todo |-> Dir(s, dir)], 0, NBLOCK * (FILE2BLK + 1)).s

tree_root(s) == to_tree_dir(s, Root)

-----------------------------------------------------------------------------
(* The replacements. *)

get_block_file(s, f, filebno) ==
    Then(Diskbno(s, f, filebno, FALSE), LAMBDA d :
         IF d.r = 0 /\ d.out = 0 THEN Ret(d, E_NOT_FOUND) ELSE d)

PlaceOf(s, f, filebno) ==
    IF filebno < NDIRECT THEN DirectAt(f, filebno) ELSE WordAt(File(s, f).indirect, filebno)

(* *pdiskbno is set only if it was not zero before the call: old. *)
alloc_block_file(s, f, filebno, old) ==
    LET Answer(t) ==
            RetOut(t, IF old # 0 THEN Load(t, PlaceOf(t, f, filebno)) ELSE old)
    IN  Try(Diskbno(s, f, filebno, TRUE), LAMBDA d :
            IF d.out # 0 THEN Answer(d)
            ELSE Try(alloc_block(d), LAMBDA a : Answer(Save(a, PlaceOf(d, f, filebno), a.r))))


free_block_file(s, f, filebno) ==
    Try(Diskbno(s, f, filebno, FALSE), LAMBDA d :
        IF d.out = 0 THEN Ret(d, 0)
        ELSE Ret(Save(free_block(d, d.out), PlaceOf(d, f, filebno), 0), 0))

(* The search of get_file_dir and alloc_file_dir. *)
EntryOf(s, dir, name) ==
    LET Get(t, d, bno) ==
            Try(get_block_file(t, d, bno), LAMBDA u : read_block(u, u.out))
    IN  Search(Get, s, dir, name)

get_file_dir(s, dir, name) ==
    Then(Found(EntryOf(s, dir, name), dir), LAMBDA t :
         IF t.r < 0 THEN [t EXCEPT !.out = dir] ELSE t)

alloc_file_dir(s, dir, name, old) ==
    LET Named(t, f) == RetOut(SetDir(SetName(t, f, name), f, dir), f)
        Grow(t, nblock) ==
            Try(alloc_block_file(SetSize(t, dir, File(t, dir).size + BY2BLK), dir, nblock, old),
                LAMBDA a : Try(read_block(a, a.out), LAMBDA b : Named(b, <<b.out, 0>>)))
    IN  Try(EntryOf(s, dir, NoName), LAMBDA e :
            IF e.r # GoOn THEN Named(e, e.out)
            ELSE Grow(e, File(e, dir).size \div BY2BLK))

get_file(s, path) == WalkWith(get_file_dir, s, Root, path)

(* An element that is not there and is not the last one is passed over:    *)
(* the next one is looked up in the same directory.                        *)
alloc_file(s, path, old) ==
    LET e == Elements(path)
        Add(t, r) == IF t.r < 0 THEN Ret(t, r) ELSE t
        Go(t, dir, k) ==
            IF t.r = E_NOT_FOUND /\ k = Len(e)
            THEN Add(alloc_file_dir(t, dir, e[k], old), t.r)
            ELSE Ret(t, IF t.panic # NoPanic THEN PANIC ELSE GoOn)
        Step(t, k) ==
            IF e[k] \in Long THEN Ret(t, E_BAD_PATH)
            ELSE IF File(t, t.out).type # FTYPE_DIR THEN Ret(t, E_NOT_FOUND)
            ELSE Go(get_file_dir(t, t.out, e[k]), t.out, k)
    IN  ForRet(Step, RetOut(s, Root), 1, Len(e) + 1, E_FILE_EXISTS)

FreeIndirect(s, f) ==
    LET i == File(s, f).indirect
    IN  IF i = 0 THEN s ELSE SetIndirect(free_block(s, i), f, 0)

free_file(s, path) ==
    LET Clear(t, f) == LET One(u, bno) == free_block_file(u, f, bno)
                       IN  FreeIndirect(For(One, t, 0, File(t, f).size \div BY2BLK + 1), f)
        Gone(t, f) == RetOut(FlushDir(file_flush(SetName(SetSize(Clear(t, f), f, 0), f, NoName), f), f), f)
    IN  Try(get_file(s, path), LAMBDA t : Gone(t, t.out))

flush_file(s, f) ==
    LET Write(t) == IF t.r < 0 \/ ~block_is_dirty(t, t.out) THEN t ELSE write_block(t, t.out)
        Flush(t, bno) == Write(file_map_block(t, f, bno, FALSE))
    IN  For(Flush, s, 0, File(s, f).size \div BY2BLK + 1)

size_file(s, f, newsize) ==
    LET new == IF newsize = 0 THEN 0 ELSE newsize \div BY2BLK + 1
        One(t, bno) == free_block_file(t, f, bno)
        Indirect(t) == IF new <= NDIRECT THEN FreeIndirect(t, f) ELSE t
        Cut(old) == IF old <= newsize THEN s
                    ELSE Indirect(For(One, s, new, old \div BY2BLK + 1))
    IN  Ret(FlushDir(SetSize(Cut(File(s, f).size), f, newsize), f), 0)

sync_fs(s) ==
    LET Sync(t, b) == IF block_is_dirty(t, b) THEN write_block(t, b) ELSE t
    IN  For(Sync, s, 0, NBLOCK)

close_file(s, f) == FlushDir(file_flush(s, f), f)
=============================================================================
