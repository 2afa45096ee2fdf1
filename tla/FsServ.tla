------------------------------- MODULE FsServ -------------------------------
(***************************************************************************)
(* The file system server and its clients: the server loop and the table   *)
(* of open files (fs/serv.c), the client's stubs (user/lib/fsipc.c), files *)
(* (user/lib/file.c) and descriptors (user/lib/fd.c), with fork sharing    *)
(* descriptors and exit closing them.  Files are those of module Fs seen   *)
(* from the server: a name, a size in pages and a block for each page.     *)
(*                                                                         *)
(* A page that is mapped in several address spaces has one identity: the   *)
(* descriptor page of slot s is s, the cache page of a disk block is that  *)
(* block.  A client's own call runs between two of its messages in one     *)
(* step; nobody else can see what it does there but through the pages.     *)
(*                                                                         *)
(* The server goes down in three ways: open_alloc fails (full), a send of  *)
(* its fails and ipc_send's assertion ends it (dead), or it follows NULL   *)
(* and the kernel panics (halt).                                           *)
(***************************************************************************)
EXTENDS Naturals, Integers, FiniteSets, FiniteSetsExt

CONSTANTS
    Client,     \* environments that use the library
    Root,       \* the client there is at the start; fork makes the others
    File,       \* names of files, all in one directory
    Initially,  \* [File -> 0..MaxSize]: the sizes of the files on the disk
    NSlot,      \* MAXOPEN
    MAXFD,
    MaxSize,    \* MAXFILESIZE in pages
    NBlock,     \* blocks of the disk that files may have
    MemFails,   \* whether the kernel may run out of memory
    MaxCall     \* bound: library calls made by all clients together

ASSUME ServAssumption ==
    /\ Root \in Client /\ IsFiniteSet(Client)
    /\ Initially \in [File -> 0..MaxSize]
    /\ {NSlot, MAXFD, MaxSize, NBlock, MaxCall} \subseteq Nat \ {0}
    /\ MemFails \in BOOLEAN

VARIABLES
    opentab,   \* [Slot -> [file, id, alloc]]: alloc is whether o_ff is mapped
    page,      \* [Slot -> [id, size]]: the Filefd page at o_ff
    file,      \* [File -> [live, size, block]]: what fs.c keeps of a file
    fds,       \* [Client -> [Fd -> slot, 0 or Private]]: page mapped at INDEX2FD
    win,       \* [Client -> [Fd -> [page -> block, 0 or Private]]]: INDEX2DATA
    cli,       \* [Client -> what the client is doing]
    srv,       \* what the server is doing
    opened,    \* [Client -> [Fd -> File]]: the file the program asked for
    full,      \* whether open_alloc has failed
    cut,       \* whether anyone ever asked for less of a file than there was
    calls      \* library calls so far

vars == <<opentab, page, file, fds, win, cli, srv, opened, full, cut, calls>>

Slot == 1..NSlot
Fd == 0..(MAXFD - 1)
Page == 0..(MaxSize - 1)
Private == -1    \* a page of the client's own, from the page fault handler
NoFile == "none"

(***************************************************************************)
(* A call has the locals of open, file_close and ftruncate; `then' is what *)
(* its caller does next.                                                   *)
(***************************************************************************)
NoCall == [op |-> "none", fd |-> 0, id |-> 0, i |-> 0, size |-> 0, old |-> 0,
           then |-> "return", from |-> 0, name |-> NoFile]
NoReq == [op |-> "none", id |-> 0, i |-> 0, name |-> NoFile]
Idle == [pc |-> "idle", call |-> NoCall, req |-> NoReq, r |-> 0]
NoWindow == [n \in Fd |-> [i \in Page |-> 0]]

serve_init ==
    /\ opentab = [s \in Slot |-> [file |-> NoFile, id |-> s, alloc |-> FALSE]]
    /\ page = [s \in Slot |-> [id |-> 0, size |-> 0]]
    /\ srv = [pc |-> "recv", whom |-> Root, req |-> NoReq, r |-> 0, map |-> 0]

\* fsformat gives every page of a file a block of its own.
OwnBlocks(b) ==
    /\ \A f \in File, i \in Page : b[f][i] # 0 <=> i < Initially[f]
    /\ \A f, g \in File, i, j \in Page : b[f][i] # 0 /\ b[f][i] = b[g][j] => f = g /\ i = j

Init ==
    /\ serve_init
    /\ \E b \in [File -> [Page -> 0..NBlock]] :
          /\ OwnBlocks(b)
          /\ file = [f \in File |-> [live |-> TRUE, size |-> Initially[f], block |-> b[f]]]
    /\ fds = [c \in Client |-> [n \in Fd |-> 0]]
    /\ win = [c \in Client |-> NoWindow]
    /\ cli = [c \in Client |-> [Idle EXCEPT !.pc = IF c = Root THEN "idle" ELSE "none"]]
    /\ opened = [c \in Client |-> [n \in Fd |-> NoFile]]
    /\ full = FALSE /\ cut = FALSE /\ calls = 0

----------------------------------------------------------------------------
(***************************************************************************)
(* The server.                                                             *)
(***************************************************************************)
Holders(s) == {h \in Client \X Fd : fds[h[1]][h[2]] = s}

\* The reference count of a page the server maps: its own mapping and theirs.
pageref(s) == IF opentab[s].alloc THEN 1 + Cardinality(Holders(s)) ELSE 0

Luck == IF MemFails THEN BOOLEAN ELSE {TRUE}

\* Mutant of open_alloc: takes a slot that one process still has open.
open_alloc_Shared(s) == pageref(s) <= 2

\* Whether the scan stops at slot s.
open_alloc(s) == pageref(s) <= 1

\* The slot an id names.
Of(id) == ((id - 1) % NSlot) + 1

\* Whether a request may use the slot its id names.
open_lookup(id) == pageref(Of(id)) # 1 /\ opentab[Of(id)].id = id

Used == UNION {{file[f].block[i] : i \in Page} : f \in File}
FreeBlocks == (1..NBlock) \ Used

\* file_get_block: the block of a page, allocated when the file has none.
file_get_block(f, i, b) == IF file[f].block[i] # 0 THEN b = file[f].block[i] ELSE b \in FreeBlocks

\* The blocks from the new count to the old one are freed.  Both are counts
\* of blocks plus one, whether or not the last is begun, but for size 0.
file_truncate(f, size) ==
    LET new == IF size = 0 THEN 0 ELSE size + 1
        kept(i) == IF i \in new..file[f].size THEN 0 ELSE file[f].block[i]
    IN  [file EXCEPT ![f] = [live |-> file[f].live, size |-> size, block |-> [i \in Page |-> kept(i)]]]

file_set_size(f, size) ==
    IF size < file[f].size THEN file_truncate(f, size) ELSE [file EXCEPT ![f].size = size]

Answer(r, map) == srv' = [srv EXCEPT !.pc = "reply", !.r = r, !.map = map]

\* The first free slot, renamed and cleared; then the file is looked up.
serve_open ==
    /\ srv.pc = "serve" /\ srv.req.op = "open"
    /\ \E s \in Slot, ok \in Luck :
          /\ open_alloc(s) /\ \A q \in 1..(s - 1) : ~open_alloc(q)
          /\ opentab[s].alloc \/ ok
          /\ LET id == opentab[s].id + NSlot
                 f == srv.req.name
             IN  IF file[f].live
                 THEN /\ opentab' = [opentab EXCEPT ![s] = [file |-> f, id |-> id, alloc |-> TRUE]]
                      /\ page' = [page EXCEPT ![s] = [id |-> id, size |-> file[f].size]]
                      /\ Answer(0, s)
                 ELSE /\ opentab' = [opentab EXCEPT ![s] =
                                      [file |-> opentab[s].file, id |-> id, alloc |-> TRUE]]
                      /\ page' = [page EXCEPT ![s] = [id |-> 0, size |-> 0]]
                      /\ Answer(-1, 0)
    /\ UNCHANGED <<file, fds, win, cli, opened, full, cut, calls>>

\* open_alloc fails: the error is sent, and serve_open does not return.
serve_open_full ==
    /\ srv.pc = "serve" /\ srv.req.op = "open"
    /\ \/ \A s \in Slot : ~open_alloc(s)
       \/ MemFails /\ \E s \in Slot : /\ pageref(s) = 0
                                      /\ \A q \in 1..(s - 1) : ~open_alloc(q)
    /\ full' = TRUE
    /\ srv' = [srv EXCEPT !.pc = "refuse", !.r = -1, !.map = 0]
    /\ UNCHANGED <<opentab, page, file, fds, win, cli, opened, cut, calls>>

\* It goes on with a pointer it never set: the slot that an earlier call left
\* on the stack, whose page is given to the client, or an address where
\* nothing is, at which the kernel panics.
serve_open_rest ==
    /\ srv.pc = "reopen"
    /\ LET f == srv.req.name IN
          \/ ~file[f].live /\ Answer(-1, 0) /\ UNCHANGED <<opentab, page>>
          \/ /\ file[f].live
             /\ \E s \in Slot :
                   /\ opentab' = [opentab EXCEPT ![s] = [@ EXCEPT !.file = f, !.alloc = TRUE]]
                   /\ page' = [page EXCEPT ![s] = [id |-> opentab[s].id, size |-> file[f].size]]
                   /\ Answer(0, s)
          \/ file[f].live /\ srv' = [srv EXCEPT !.pc = "halt"] /\ UNCHANGED <<opentab, page>>
    /\ UNCHANGED <<file, fds, win, cli, opened, full, cut, calls>>

\* The requests that name an open file and are refused: its slot is another's,
\* serve_map has no block or no memory for a new one, or serve_dirty finds
\* none; whether one that is there is in the cache is not modelled.
serve_refuse ==
    /\ srv.pc = "serve"
    /\ \/ srv.req.op \in {"map", "set_size", "close", "dirty"} /\ ~open_lookup(srv.req.id)
       \/ /\ srv.req.op = "map" /\ open_lookup(srv.req.id)
          /\ file[opentab[Of(srv.req.id)].file].block[srv.req.i] = 0
          /\ FreeBlocks = {} \/ MemFails
       \/ srv.req.op = "dirty" /\ open_lookup(srv.req.id)
    /\ Answer(-1, 0)
    /\ UNCHANGED <<opentab, page, file, fds, win, cli, opened, full, cut, calls>>

\* The page of the block, which is allocated when the file has none.
serve_map ==
    /\ srv.pc = "serve" /\ srv.req.op = "map" /\ open_lookup(srv.req.id)
    /\ LET f == opentab[Of(srv.req.id)].file IN
          \E b \in 1..NBlock :
             /\ file_get_block(f, srv.req.i, b)
             /\ file' = [file EXCEPT ![f].block[srv.req.i] = b]
             /\ Answer(0, b)
    /\ UNCHANGED <<opentab, page, fds, win, cli, opened, full, cut, calls>>

\* file_dirty marks a block that is there and allocates none.
serve_dirty ==
    /\ srv.pc = "serve" /\ srv.req.op = "dirty" /\ open_lookup(srv.req.id)
    /\ file[opentab[Of(srv.req.id)].file].block[srv.req.i] # 0
    /\ Answer(0, 0)
    /\ UNCHANGED <<opentab, page, file, fds, win, cli, opened, full, cut, calls>>

\* file_set_size truncates when the file gets shorter.
serve_set_size ==
    /\ srv.pc = "serve" /\ srv.req.op = "set_size" /\ open_lookup(srv.req.id)
    /\ LET f == opentab[Of(srv.req.id)].file IN
          /\ file' = file_set_size(f, srv.req.i)
          /\ cut' = (cut \/ srv.req.i < file[f].size)
    /\ Answer(0, 0)
    /\ UNCHANGED <<opentab, page, fds, win, cli, opened, full, calls>>

\* file_close only flushes; the slot is freed by the client's unmapping.
serve_close ==
    /\ srv.pc = "serve" /\ srv.req.op = "close" /\ open_lookup(srv.req.id)
    /\ Answer(0, 0)
    /\ UNCHANGED <<opentab, page, file, fds, win, cli, opened, full, cut, calls>>

serve_remove ==
    /\ srv.pc = "serve" /\ srv.req.op = "remove"
    /\ LET f == srv.req.name IN
          IF file[f].live
          THEN /\ file' = [file_truncate(f, 0) EXCEPT ![f].live = FALSE]
               /\ cut' = TRUE
               /\ Answer(0, 0)
          ELSE UNCHANGED <<file, cut>> /\ Answer(-1, 0)
    /\ UNCHANGED <<opentab, page, fds, win, cli, opened, full, calls>>

\* serve_sync answers; so does serve_debug, which follows NULL when there is
\* no such file; FSREQ_TREE and codes nobody knows are only printed.
serve_other ==
    /\ srv.pc = "serve"
    /\ \/ srv.req.op = "sync" /\ Answer(0, 0)
       \/ srv.req.op = "debug" /\ file[srv.req.name].live /\ Answer(0, 0)
       \/ /\ srv.req.op = "debug" /\ ~file[srv.req.name].live
          /\ srv' = [srv EXCEPT !.pc = "halt"]
       \/ srv.req.op \in {"tree", "unknown"} /\ srv' = [srv EXCEPT !.pc = "recv"]
    /\ UNCHANGED <<opentab, page, file, fds, win, cli, opened, full, cut, calls>>

----------------------------------------------------------------------------
(***************************************************************************)
(* Messages.                                                               *)
(***************************************************************************)
\* A client goes on unless the kernel has panicked.
At(c, pc) == cli[c].pc = pc /\ srv.pc # "halt"

\* The first half of fsipc: the send is retried until the server receives.
fsipc_send(c) ==
    /\ At(c, "send") /\ srv.pc = "recv"
    /\ srv' = [pc |-> "serve", whom |-> c, req |-> cli[c].req, r |-> 0, map |-> 0]
    /\ cli' = [cli EXCEPT ![c].pc = "recv"]
    /\ UNCHANGED <<opentab, page, file, fds, win, opened, full, cut, calls>>

\* Mutant of reply: the answer is tried once, whether or not it is received.
reply_Once ==
    /\ srv.pc \in {"reply", "refuse"}
    /\ srv' = [srv EXCEPT !.pc = "recv"]
    /\ UNCHANGED <<opentab, page, file, fds, win, cli, opened, full, cut, calls>>

\* The value reaches a client that is receiving.
Deliver ==
    LET c == srv.whom IN
    /\ cli[c].pc = "recv"
    /\ cli' = [cli EXCEPT ![c] = [pc |-> "got", call |-> cli[c].call, req |-> cli[c].req, r |-> srv.r]]

\* ipc_send in the server: the value and the page, if any, which is mapped
\* where the client asked for it.
reply ==
    /\ srv.pc \in {"reply", "refuse"}
    /\ Deliver
    /\ LET c == srv.whom
           n == cli[c].call.fd IN
          /\ IF srv.map # 0 /\ srv.req.op = "open"
             THEN /\ fds' = [fds EXCEPT ![c][n] = srv.map]
                  /\ opened' = [opened EXCEPT ![c][n] = srv.req.name]
             ELSE UNCHANGED <<fds, opened>>
          /\ win' = IF srv.map # 0 /\ srv.req.op = "map"
                    THEN [win EXCEPT ![c][n][srv.req.i] = srv.map] ELSE win
    /\ srv' = [srv EXCEPT !.pc = IF @ = "reply" THEN "recv" ELSE "reopen"]
    /\ UNCHANGED <<opentab, page, file, full, cut, calls>>

\* sys_ipc_try_send wakes the receiver and only then maps the page; without
\* memory it returns an error, as it does when the client is gone, and the
\* assertion in ipc_send ends the server.
reply_fails ==
    /\ srv.pc \in {"reply", "refuse"}
    /\ \/ MemFails /\ srv.map # 0 /\ Deliver
       \/ cli[srv.whom].pc = "none" /\ UNCHANGED cli
    /\ srv' = [srv EXCEPT !.pc = "dead"]
    /\ UNCHANGED <<opentab, page, file, fds, win, opened, full, cut, calls>>

----------------------------------------------------------------------------
(***************************************************************************)
(* The library.                                                            *)
(***************************************************************************)
Ask(c, call, op, i) ==
    cli' = [cli EXCEPT ![c] = [pc |-> "send", call |-> call, r |-> 0,
                               req |-> [op |-> op, id |-> call.id, i |-> i, name |-> call.name]]]

Begin(c) == /\ At(c, "idle") /\ calls < MaxCall /\ calls' = calls + 1
Return(c) == cli' = [cli EXCEPT ![c] = Idle]
Resume(c, op) == /\ At(c, "got") /\ cli[c].call.op = op

\* fd_lookup and dev_lookup find an open file; a page of the client's own,
\* which is zero, names no device.
IsFile(c, n) == fds[c][n] \in Slot

\* fd_alloc never gives out the last descriptor.
fd_alloc(c) == {n \in 0..(MAXFD - 2) : fds[c][n] = 0}

open(c, f) ==
    /\ Begin(c) /\ fd_alloc(c) # {}
    /\ Ask(c, [NoCall EXCEPT !.op = "open", !.fd = Min(fd_alloc(c)), !.name = f], "open", 0)
    /\ UNCHANGED <<opentab, page, file, fds, win, srv, opened, full, cut>>

\* The next page of the file is mapped; an error leaves the descriptor open.
open_map(c) ==
    /\ Resume(c, "open")
    /\ LET k == cli[c].call
           first == cli[c].req.op = "open"
           s == fds[c][k.fd]
           l == IF first /\ cli[c].r = 0 /\ s # 0
                THEN [k EXCEPT !.id = page[s].id, !.size = page[s].size] ELSE k
       IN  /\ IF cli[c].r = 0 /\ l.i < l.size
              THEN Ask(c, [l EXCEPT !.i = @ + 1], "map", l.i)
              ELSE Return(c)
           /\ fds' = IF first /\ cli[c].r = 0 /\ s = 0
                     THEN [fds EXCEPT ![c][k.fd] = Private] ELSE fds
    /\ UNCHANGED <<opentab, page, file, win, srv, opened, full, cut, calls>>

\* file_close tells the server every page, then that the file is closed.
CloseCall(c, n, then, from) ==
    LET s == fds[c][n]
        k == [NoCall EXCEPT !.op = "close", !.fd = n, !.id = page[s].id, !.size = page[s].size,
                            !.then = then, !.from = from]
    IN  IF k.size > 0 THEN Ask(c, [k EXCEPT !.i = 1], "dirty", 0) ELSE Ask(c, k, "close", 0)

close(c, n) ==
    /\ Begin(c) /\ IsFile(c, n)
    /\ CloseCall(c, n, "return", 0)
    /\ UNCHANGED <<opentab, page, file, fds, win, srv, opened, full, cut>>

close_dirty(c) ==
    /\ Resume(c, "close") /\ cli[c].req.op = "dirty"
    /\ LET k == cli[c].call IN
          IF k.i < k.size THEN Ask(c, [k EXCEPT !.i = @ + 1], "dirty", k.i) ELSE Ask(c, k, "close", 0)
    /\ UNCHANGED <<opentab, page, file, fds, win, srv, opened, full, cut, calls>>

\* dup, once the new descriptor is closed: every mapped page of the old
\* window, then the old descriptor; a failure unmaps the new one.
Dup(c, o, n, fd1, win1) ==
    \E ok \in Luck :
       IF ok /\ fd1[o] # 0
       THEN /\ fds' = [fds EXCEPT ![c] = [fd1 EXCEPT ![n] = fd1[o]]]
            /\ win' = [win EXCEPT ![c] = [win1 EXCEPT ![n] =
                          [i \in Page |-> IF win1[o][i] # 0 THEN win1[o][i] ELSE win1[n][i]]]]
            /\ opened' = [opened EXCEPT ![c][n] = opened[c][o]]
       ELSE /\ fds' = [fds EXCEPT ![c] = [fd1 EXCEPT ![n] = 0]]
            /\ win' = [win EXCEPT ![c] = [win1 EXCEPT ![n] = [i \in Page |-> 0]]]
            /\ UNCHANGED opened

\* exit goes on with the next open descriptor; when there is none the
\* environment is destroyed with all its mappings.
ExitNext(c, fd1, win1) ==
    LET left == {n \in Fd : fd1[n] \in Slot} IN
    IF left = {}
    THEN /\ cli' = [cli EXCEPT ![c] = [Idle EXCEPT !.pc = "none"]]
         /\ fds' = [fds EXCEPT ![c] = [n \in Fd |-> 0]]
         /\ win' = [win EXCEPT ![c] = NoWindow]
    ELSE /\ CloseCall(c, Min(left), "exit", 0)
         /\ fds' = [fds EXCEPT ![c] = fd1]
         /\ win' = [win EXCEPT ![c] = win1]

\* Mutant of Unmapped: the last page stays mapped.
Unmapped_Short(w, size) == [i \in Page |-> IF i + 1 < size THEN 0 ELSE w[i]]

\* The window once file_close has unmapped the pages below the size.
Unmapped(w, size) == [i \in Page |-> IF i < size THEN 0 ELSE w[i]]

\* The end of file_close and fd_close: the window is unmapped unless the
\* server refused, the descriptor in any case.
close_end(c) ==
    /\ Resume(c, "close") /\ cli[c].req.op = "close"
    /\ LET k == cli[c].call
           fd1 == [fds[c] EXCEPT ![k.fd] = 0]
           win1 == IF cli[c].r = 0
                   THEN [win[c] EXCEPT ![k.fd] = Unmapped(@, k.size)]
                   ELSE win[c]
       IN  \/ /\ k.then = "return" /\ Return(c)
              /\ fds' = [fds EXCEPT ![c] = fd1] /\ win' = [win EXCEPT ![c] = win1]
              /\ UNCHANGED opened
           \/ k.then = "dup" /\ Return(c) /\ Dup(c, k.from, k.fd, fd1, win1)
           \/ k.then = "exit" /\ ExitNext(c, fd1, win1) /\ UNCHANGED opened
    /\ UNCHANGED <<opentab, page, file, srv, full, cut, calls>>

dup(c, o, n) ==
    /\ Begin(c) /\ fds[c][o] # 0
    /\ \/ /\ IsFile(c, n) /\ CloseCall(c, n, "dup", o)
          /\ UNCHANGED <<fds, win, opened>>
       \/ ~IsFile(c, n) /\ Dup(c, o, n, fds[c], win[c]) /\ UNCHANGED cli
    /\ UNCHANGED <<opentab, page, file, srv, full, cut>>

exit(c) ==
    /\ Begin(c) /\ ExitNext(c, fds[c], win[c])
    /\ UNCHANGED <<opentab, page, file, srv, opened, full, cut>>

\* A client that sends to a server that is gone fails the same assertion and
\* exits: closing its files it sends again, and exits again.
server_gone(c) ==
    /\ At(c, "send") /\ srv.pc = "dead"
    /\ ExitNext(c, fds[c], win[c])
    /\ UNCHANGED <<opentab, page, file, srv, opened, full, cut, calls>>

\* The size is set in the shared descriptor page before the server is asked.
Truncate(c, n, size, then) ==
    LET s == fds[c][n] IN
    /\ page' = [page EXCEPT ![s].size = size]
    /\ cut' = (cut \/ size < page[s].size)
    /\ Ask(c, [NoCall EXCEPT !.op = "ftruncate", !.fd = n, !.id = page[s].id, !.i = page[s].size,
                             !.size = size, !.old = page[s].size, !.then = then],
           "set_size", size)

ftruncate(c, n, size) ==
    /\ Begin(c) /\ IsFile(c, n) /\ Truncate(c, n, size, "return")
    /\ UNCHANGED <<opentab, file, fds, win, srv, opened, full>>

\* memcpy to or from page i of the window: one that is not mapped is given a
\* page of the client's own by the page fault handler.
Touch(w, n, i) == [w EXCEPT ![n][i] = IF @ = 0 THEN Private ELSE @]

\* After each answer ftruncate maps the next new page; when that fails it asks
\* for the old size again, and when all is mapped it unmaps what was cut off.
ftruncate_map(c) ==
    /\ Resume(c, "ftruncate")
    /\ LET k == cli[c].call
           op == cli[c].req.op
           w == [win[c] EXCEPT ![k.fd] = [i \in Page |-> IF i \in k.size..(k.old - 1) THEN 0 ELSE @[i]]]
       IN  \/ /\ cli[c].r = 0 /\ k.i < k.size
              /\ Ask(c, [k EXCEPT !.i = @ + 1], "map", k.i) /\ UNCHANGED win
           \/ /\ cli[c].r # 0 /\ op = "map"
              /\ Ask(c, [k EXCEPT !.op = "undo"], "set_size", k.old) /\ UNCHANGED win
           \/ cli[c].r # 0 /\ op = "set_size" /\ Return(c) /\ UNCHANGED win
           \/ /\ cli[c].r = 0 /\ k.i >= k.size /\ Return(c)
              /\ win' = [win EXCEPT ![c] = IF k.then = "write" THEN Touch(w, k.fd, k.size - 1) ELSE w]
    /\ UNCHANGED <<opentab, page, file, fds, srv, opened, full, cut, calls>>

\* file_write at page i extends the file when it has to.
write(c, n, i) ==
    /\ Begin(c) /\ IsFile(c, n)
    /\ IF i + 1 > page[fds[c][n]].size
       THEN Truncate(c, n, i + 1, "write") /\ UNCHANGED win
       ELSE win' = [win EXCEPT ![c] = Touch(@, n, i)] /\ UNCHANGED <<cli, page, cut>>
    /\ UNCHANGED <<opentab, file, fds, srv, opened, full>>

\* file_read never goes past the size in the descriptor.
read(c, n, i) ==
    /\ Begin(c) /\ IsFile(c, n) /\ i < page[fds[c][n]].size
    /\ win' = [win EXCEPT ![c] = Touch(@, n, i)]
    /\ UNCHANGED <<opentab, page, file, fds, cli, srv, opened, full, cut>>

\* remove, sync, debug and tree are one message each, as is a request with a
\* code of the program's own.
simple(c, op, f) ==
    /\ Begin(c)
    /\ Ask(c, [NoCall EXCEPT !.op = "simple", !.name = f], op, 0)
    /\ UNCHANGED <<opentab, page, file, fds, win, srv, opened, full, cut>>

simple_end(c) ==
    /\ At(c, "got") /\ cli[c].call.op \in {"simple", "undo"} /\ Return(c)
    /\ UNCHANGED <<opentab, page, file, fds, win, srv, opened, full, cut, calls>>

\* fork shares every PTE_LIBRARY page, the descriptors and windows among them.
\* The child's id is new: the server owes it no answer.
fork(c, d) ==
    /\ Begin(c) /\ cli[d].pc = "none" /\ (srv.pc = "recv" \/ srv.whom # d)
    /\ cli' = [cli EXCEPT ![d] = Idle]
    /\ fds' = [fds EXCEPT ![d] = fds[c]]
    /\ win' = [win EXCEPT ![d] = win[c]]
    /\ opened' = [opened EXCEPT ![d] = opened[c]]
    /\ UNCHANGED <<opentab, page, file, srv, full, cut>>

----------------------------------------------------------------------------
Server ==
    \/ serve_open \/ serve_open_full \/ serve_open_rest \/ serve_refuse
    \/ serve_map \/ serve_dirty \/ serve_set_size \/ serve_close
    \/ serve_remove \/ serve_other \/ reply \/ reply_fails

Library(c) ==
    \/ fsipc_send(c) \/ open_map(c) \/ close_dirty(c) \/ close_end(c)
    \/ ftruncate_map(c) \/ simple_end(c) \/ server_gone(c)

Program(c) ==
    \/ \E f \in File : open(c, f) \/ simple(c, "remove", f) \/ simple(c, "debug", f)
    \/ \E op \in {"sync", "tree", "unknown"} : simple(c, op, NoFile)
    \/ \E n \in Fd : close(c, n) \/ \E o \in Fd : dup(c, o, n)
    \/ \E n \in Fd, i \in Page : read(c, n, i) \/ write(c, n, i)
    \/ \E n \in Fd, size \in 0..MaxSize : ftruncate(c, n, size)
    \/ exit(c)
    \/ \E d \in Client : fork(c, d)

Next == Server \/ \E c \in Client : Library(c) \/ Program(c)

\* The scheduler runs the server and every client again and again.
Spec == Init /\ [][Next]_vars /\ WF_vars(Server) /\ \A c \in Client : WF_vars(Library(c))

----------------------------------------------------------------------------
\* From here on the server's table means nothing.
Down == full \/ srv.pc \in {"dead", "halt"}

\* A descriptor a process holds, by open, dup or fork, names the file the
\* program opened for as long as it is held, whoever closes or opens others
\* meanwhile: its slot is not given out again, and its id stays the slot's
\* (open_alloc and open_lookup trust the page's reference count).
HeldSlotIsBound ==
    Down \/ \A c \in Client, n \in Fd : IsFile(c, n) =>
        LET s == fds[c][n] IN opentab[s].file = opened[c][n] /\ opentab[s].id = page[s].id

\* As long as nobody asked for a shorter file, what a descriptor shows of the
\* file below its size is the file's own blocks: neither the pages of a file
\* that had the descriptor before nor those of another page of it (open,
\* file_close, ftruncate and dup keep the window by hand).  file_close unmaps
\* the pages below the size it finds in the shared descriptor page: after an
\* ftruncate of another process it leaves those that were cut off.
WindowIsFile ==
    Down \/ cut \/ \A c \in Client, n \in Fd : IsFile(c, n) =>
        \A i \in 0..(page[fds[c][n]].size - 1) :
            win[c][n][i] > 0 => file[opened[c][n]].block[i] = win[c][n][i]

\* A request the server has received is answered, whatever the others do,
\* unless the server goes down; only FSREQ_TREE and unknown codes are not
\* (serve, serve_open, ipc_send).
RequestIsAnswered ==
    \A c \in Client :
        (cli[c].pc = "recv" /\ cli[c].req.op \notin {"tree", "unknown"})
            ~> (cli[c].pc # "recv" \/ Down)
=============================================================================
