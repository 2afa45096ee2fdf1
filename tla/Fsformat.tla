------------------------------ MODULE Fsformat ------------------------------
(***************************************************************************)
(* tools/fsformat.c: the program that makes the disk image from files and  *)
(* directories of the host.  main and write_directory walk the host's tree *)
(* in order; Host is what they meet, as a sequence: a directory comes      *)
(* before what is in it, and parent is the position of the directory an    *)
(* entry is in (0 for the root).  The image is big enough (the program     *)
(* does not check), the names are short enough (it stops otherwise) and    *)
(* the byte order is the machine's.                                        *)
(***************************************************************************)
EXTENDS Fs

CONSTANT Hosts    \* the trees of the host: sets of sequences of
                  \* [parent : Nat, name : STRING, type : {0, 1}, size : Nat]

(* disk[0] is the boot block; super is copied to disk[1] at the end. *)
init_disk ==
    [disk |-> [b \in Bno |-> IF b = 1 THEN SuperOf([NoFile EXCEPT !.name = "/", !.type = FTYPE_DIR])
                             ELSE IF b = 2 THEN BitmapOf(Bno) ELSE Zero],
     nextbno |-> 3, made |-> <<>>]

(* What next_block returns is nextbno before it. *)
next_block(g) == [g EXCEPT !.nextbno = @ + 1]

FileOn(g, f) == Files(g.disk[f[1]])[f[2]]
PutFile(g, f, x) ==
    [g EXCEPT !.disk[f[1]] = [kind |-> IF f = Root THEN "super" ELSE "files",
                              f |-> [Files(@) EXCEPT ![f[2]] = x]]]

save_block_link(g, f, nblk, bno) ==
    LET In(h, b) == [h EXCEPT !.disk[b] = WordsOf([Words(@) EXCEPT ![nblk] = bno])]
        x == FileOn(g, f)
    IN  IF nblk < NDIRECT THEN PutFile(g, f, [x EXCEPT !.direct[nblk] = bno])
        ELSE IF x.indirect # 0 THEN In(g, x.indirect)
        ELSE In(PutFile(next_block(g), f, [x EXCEPT !.indirect = g.nextbno]), g.nextbno)

make_link_block(g, dir, nblk) ==
    Then(save_block_link(next_block(g), dir, nblk, g.nextbno), LAMBDA h :
         PutFile(h, dir, [FileOn(h, dir) EXCEPT !.size = @ + BY2BLK]))

(* made grows by the place of the new File: the first unused one, or the   *)
(* first of a new block.                                                   *)
create_file(g, dir) ==
    LET x == FileOn(g, dir)
        nblk == x.size \div BY2BLK
        bno(i) == IF i < NDIRECT THEN x.direct[i] ELSE Words(g.disk[x.indirect])[i]
        unused == {i \in 0..nblk - 1 : \E j \in Slot : Files(g.disk[bno(i)])[j].name = NoName}
        b == bno(Min(unused))
        j == Min({k \in Slot : Files(g.disk[b])[k].name = NoName})
    IN  IF unused # {} THEN [g EXCEPT !.made = Append(@, <<b, j>>)]
        ELSE [make_link_block(g, dir, nblk) EXCEPT !.made = Append(@, <<g.nextbno, 0>>)]

write_file(g, dir, e) ==
    LET Fill(h, f) == PutFile(h, f, [FileOn(h, f) EXCEPT !.name = e.name, !.size = e.size,
                                                         !.type = FTYPE_REG])
        Blocks(h, f) ==
            LET Block(t, i) == save_block_link(next_block([t EXCEPT !.disk[t.nextbno] = Stored]),
                                               f, i, t.nextbno)
            IN  For(Block, h, 0, (e.size + BY2BLK - 1) \div BY2BLK)
    IN  Then(create_file(g, dir), LAMBDA h : Blocks(Fill(h, Last(h.made)), Last(h.made)))

write_directory(g, dir, e) ==
    Then(create_file(g, dir), LAMBDA h :
         PutFile(h, Last(h.made), [FileOn(h, Last(h.made)) EXCEPT !.name = e.name,
                                                                  !.type = FTYPE_DIR]))

flush_bitmap(g) == [g EXCEPT !.disk[2] = BitmapOf(@.free \ (0..g.nextbno - 1))]

Image(host) ==
    LET Write(g, e) ==
            LET dir == IF e.parent = 0 THEN Root ELSE g.made[e.parent]
            IN  IF e.type = FTYPE_DIR THEN write_directory(g, dir, e) ELSE write_file(g, dir, e)
    IN  flush_bitmap(FoldLeft(Write, init_disk, host)).disk
=============================================================================
