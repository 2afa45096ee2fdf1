------------------------------ MODULE FsCrash -------------------------------
(***************************************************************************)
(* The file system under the requests of fs/serv.c, with crashes.  Which   *)
(* descriptor names which file, and the messages, are the subject of       *)
(* FsServ; here a request is a call on a path or on a File that was opened *)
(* since the server started (o_file keeps the pointer when the file is     *)
(* removed).                                                               *)
(*                                                                         *)
(* Bounds.  Programs resize and remove files, not directories (the server  *)
(* lets them; fs.c then frees the blocks of a directory and not those of   *)
(* its files).  They store only into blocks that their file still has.     *)
(* After a crash they go on only if the words on the disk are sound        *)
(* (file_flush does not write indirect blocks back, and a block that was   *)
(* one may be in use as another before it is written).  No element of a    *)
(* path is empty.                                                          *)
(***************************************************************************)
EXTENDS Fsformat, FsTwin

CONSTANTS OpenPath, RemovePath, DebugPath,  \* BOUND: the paths programs use
          TwinPath,                         \* BOUND: the paths of TwinsAgree
          NewSize,                          \* BOUND: the sizes they ask for
          Offset,                           \* BOUND: the offsets they ask for
          MaxReq                            \* BOUND: how much they ask for

(* "junk" is what a block that holds no entries shows for a name. *)
ASSUME RequestAssumption ==
    /\ \A p \in OpenPath \cup RemovePath : skip_slash(p) \in Seq(STRING \ {NoName, "junk"})
    /\ \A p \in DebugPath : Elements(p) \in Seq(STRING \ {NoName, "junk"})
    /\ NewSize \subseteq Nat /\ Offset \subseteq Nat /\ MaxReq \in Nat

VARIABLES opens,   \* o_file of the open files
          done,    \* the last request, if it was a dirty, set_size, close or
                   \* remove: its file and the block that was dirtied last
          reqs     \* how many requests that change something were made

vars == <<disk, cache, dirty, wq, status, opens, done, reqs>>

Nothing == <<"none", NoLoc, 0>>
NothingCached == [b \in Bno |-> Unmapped]

(* The server was just started on a new image. *)
Init ==
    /\ disk \in {Image(h) : h \in Hosts}
    /\ cache = NothingCached /\ dirty = {} /\ wq = <<>>
    /\ status = "down"
    /\ opens = {} /\ done = Nothing /\ reqs = 0

Ready == status = "up" /\ wq = <<>>

Counted == reqs < MaxReq /\ reqs' = reqs + 1

(* The call leaves s behind; a server that panics is gone. *)
Becomes(s) ==
    /\ cache' = IF s.panic = NoPanic THEN s.cache ELSE NothingCached
    /\ dirty' = IF s.panic = NoPanic THEN s.dirty ELSE {}
    /\ status' = IF s.panic = NoPanic THEN "up" ELSE s.panic
    /\ wq' = s.wq
    /\ UNCHANGED disk

serve_open(path) ==
    /\ Ready
    /\ LET s == file_open(S0, path)
       IN  Becomes(s) /\ opens' = IF s.r < 0 THEN opens ELSE opens \cup {s.out}
    /\ done' = Nothing /\ UNCHANGED reqs

serve_map(f, offset) ==
    /\ Ready /\ Counted /\ f \in opens
    /\ Becomes(file_get_block(S0, f, offset \div BY2BLK))
    /\ done' = Nothing /\ UNCHANGED opens

serve_set_size(f, size) ==
    /\ Ready /\ Counted /\ f \in opens
    /\ File(S0, f).type = FTYPE_REG                         \* BOUND
    /\ Becomes(file_set_size(S0, f, size))
    /\ done' = <<"set_size", f, 0>> /\ UNCHANGED opens

(* Whether it was the last descriptor of the file is not known here. *)
serve_close(f) ==
    /\ Ready /\ Counted /\ f \in opens
    /\ Becomes(file_close(S0, f))
    /\ done' = <<"close", f, IF done[1] = "dirty" /\ done[2] = f THEN done[3] ELSE 0>> /\ UNCHANGED opens

serve_dirty(f, offset) ==
    /\ Ready /\ Counted /\ f \in opens
    /\ LET s == file_dirty(S0, f, offset)
           b == file_map_block(S0, f, offset \div BY2BLK, FALSE).out
       IN  Becomes(s) /\ done' = IF s.r < 0 THEN Nothing ELSE <<"dirty", f, b>>
    /\ UNCHANGED opens

serve_remove(path) ==
    /\ Ready /\ Counted
    /\ LET t == walk_path(S0, path)
       IN  t.r = 0 => File(t, t.out.file).type = FTYPE_REG  \* BOUND
    /\ LET s == file_remove(S0, path)
       IN  Becomes(s) /\ done' = IF s.r < 0 THEN Nothing ELSE <<"remove", s.out, 0>>
    /\ UNCHANGED opens

serve_sync ==
    /\ Ready /\ Counted
    /\ Becomes(fs_sync(S0))
    /\ done' = Nothing /\ UNCHANGED opens

(* A path that is not there gives the null pointer, which is followed. *)
serve_debug(path) ==
    /\ Ready /\ Counted
    /\ LET s == get_file_absolute(S0, path)
       IN  Becomes(IF s.r < 0 THEN user_panic(s, "null pointer")
                   ELSE IF File(s, s.out).type = FTYPE_DIR THEN debug_dir(s, s.out)
                   ELSE debug_file(s, s.out))
    /\ done' = Nothing /\ UNCHANGED opens

serve_tree ==
    /\ Ready /\ Counted
    /\ Becomes(tree_root(S0))
    /\ done' = Nothing /\ UNCHANGED opens

(* The blocks that belong to the files: view is a disk, or memory. *)
AllFiles(view) == {f \in Bno \X Slot : view[f[1]].kind = "files"} \cup {Root}

Regular(view) == {f \in AllFiles(view) : Files(view[f[1]])[f[2]].type = FTYPE_REG}

(* The block number in place i of file f: a direct one, one of the         *)
(* indirect block, or (the last place) the indirect block itself.          *)
BlockAt(view, f, i) ==
    LET x == Files(view[f[1]])[f[2]]
    IN  IF i < NDIRECT THEN x.direct[i]
        ELSE IF i = NINDIRECT THEN x.indirect
        ELSE IF x.indirect \in 1..NBLOCK - 1 THEN Words(view[x.indirect])[i] ELSE 0

Memory == [b \in Bno |-> IF cache[b] = Unmapped THEN disk[b] ELSE cache[b]]

DataBlocks(view) == {BlockAt(view, x[1], x[2]) : x \in Regular(view) \X (0..NINDIRECT - 1)}

(* A program that has the page of a block of a file stores to it: the      *)
(* server's entry for the page does not get PTE_D.                         *)
Store(b) ==
    /\ Ready /\ Counted
    /\ b \in DataBlocks(Memory) /\ b \in Bno \ {0} /\ cache[b] # Unmapped
    /\ cache' = [cache EXCEPT ![b] = Stored]
    /\ done' = Nothing
    /\ UNCHANGED <<disk, dirty, wq, status, opens>>

(* The oldest write that is under way gets to the disk. *)
WriteBack ==
    /\ wq # <<>>
    /\ disk' = [disk EXCEPT ![Head(wq)[1]] = Head(wq)[2]]
    /\ wq' = Tail(wq)
    /\ UNCHANGED <<cache, dirty, status, opens, done, reqs>>

(* Power is lost; the writes that did not get to the disk are, too. *)
Crash ==
    /\ status # "down" /\ Counted
    /\ status' = "down" /\ cache' = NothingCached /\ dirty' = {} /\ wq' = <<>>
    /\ opens' = {} /\ done' = Nothing
    /\ UNCHANGED disk

(* No block has two places, and none that has one is free. *)
Sound(view, Place) ==
    \A x, y \in AllFiles(view) \X Place :
        LET b == BlockAt(view, x[1], x[2])
        IN  b \in Bno \ {0} =>
                /\ b > 2 /\ b \notin view[2].free
                /\ BlockAt(view, y[1], y[2]) = b => x = y

AllPlaces == 0..NINDIRECT
SafePlaces == (0..NDIRECT - 1) \cup {NINDIRECT}

(* The same for the words of every block in use that looks like an         *)
(* indirect block, whether it is one or was one before.                    *)
WordBlocks(view) == {b \in Bno : view[b].kind = "words" /\ b \notin view[2].free}
WordsSound(view) ==
    \A b \in WordBlocks(view), i \in 0..NINDIRECT - 1 :
        LET v == view[b].w[i]
        IN  v \in Bno \ {0} =>
                /\ v > 2 /\ v \notin view[2].free
                /\ \A f \in AllFiles(view), j \in SafePlaces : BlockAt(view, f, j) # v
                /\ \A c \in WordBlocks(view), j \in 0..NINDIRECT - 1 :
                      view[c].w[j] = v => c = b /\ j = i

Restart ==
    /\ status = "down" /\ wq = <<>>
    /\ disk[1].kind = "super" => WordsSound(disk)           \* BOUND
    /\ Becomes(fs_init(S0))
    /\ UNCHANGED <<opens, done, reqs>>

Next ==
    \/ \E p \in OpenPath : serve_open(p)
    \/ \E f \in opens, o \in Offset : serve_map(f, o)
    \/ \E f \in opens, o \in Offset : serve_dirty(f, o)
    \/ \E f \in opens, n \in NewSize : serve_set_size(f, n)
    \/ \E f \in opens : serve_close(f)
    \/ \E p \in RemovePath : serve_remove(p)
    \/ \E p \in DebugPath : serve_debug(p)
    \/ serve_sync \/ serve_tree
    \/ \E b \in Bno : Store(b)
    \/ WriteBack \/ Crash \/ Restart

Spec == Init /\ [][Next]_vars

-----------------------------------------------------------------------------
(* fs.c, free_block and alloc_block: in memory no block belongs to two     *)
(* places of files, and none that belongs to one can be allocated, through *)
(* every sequence of requests: sizes that grow and shrink over the end of  *)
(* the direct blocks, blocks mapped beyond the end of a file that someone  *)
(* else has cut, files that are removed while they are open.               *)
NoBlockTwice == status = "up" => Sound(Memory, AllPlaces)

(* fs.c, file_set_size and file_remove write the directory back before     *)
(* alloc_block_num can write the bitmap: at every moment a crash could     *)
(* come, the block numbers in the File structures on the disk are in use   *)
(* in the bitmap on the disk, and no two of them are the same.             *)
DiskPointersSafe == Sound(disk, SafePlaces)

(* fs.c, file_close and file_set_size: when the request is done, the File  *)
(* structure (name, type, size, block numbers) on the disk is the one in   *)
(* memory, but for that of the root, which is in no directory.             *)
EntryOnDisk ==
    (Ready /\ done[1] \in {"set_size", "close", "remove"} /\ done[2] # Root) =>
        LET f == done[2]
            OnDisk == Files(disk[f[1]])[f[2]]
        IN  [OnDisk EXCEPT !.dir = NoLoc] = [Files(cache[f[1]])[f[2]] EXCEPT !.dir = NoLoc]

(* fs.c:759, file_flush, which file_close calls: "Flush the contents of    *)
(* file f out to disk."  When a file was closed, the block below its size  *)
(* that a program stored to and marked dirty just before is on the disk.   *)
FlushedIsOnDisk ==
    LET f == done[2]
        b == done[3]
        Below == {i \in 0..NINDIRECT - 1 : i * BY2BLK < File(S0, f).size}
    IN  /\ Ready /\ done[1] = "close" /\ b # 0
        /\ Memory[b] = Stored /\ (\E i \in Below : BlockAt(Memory, f, i) = b)
        => disk[b] = Stored

Same(s, t) == <<s.cache, s.dirty, s.wq, s.r, s.panic>> = <<t.cache, t.dirty, t.wq, t.r, t.panic>>
SameOut(s, t) == Same(s, t) /\ (s.r >= 0 => s.out = t.out)


(* The user_panic of read_block and write_block: a block number that the   *)
(* file system itself put into a file or an indirect block is never one of *)
(* a free block, nor is a block written that is not in memory.             *)
NoFreeBlockRead == status \notin {"reading free block", "write unmapped block",
                                  "assertion failed"}
=============================================================================
