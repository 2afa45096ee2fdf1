---------------------------- MODULE FsServ_proofs ---------------------------
(***************************************************************************)
(* Descriptors keep naming their files, and their windows show no other    *)
(* file's blocks, for any number of clients, files, slots and descriptors, *)
(* as long as the server is not down.                                      *)
(*                                                                         *)
(* The invariant ties four things together that the code keeps apart: the  *)
(* slot's record in the server, the descriptor page that clients share,    *)
(* the locals of a client's call that is under way, and the answer on its  *)
(* way to it.                                                              *)
(***************************************************************************)
EXTENDS FsServ, FiniteSetTheorems, WellFoundedInduction, TLAPS

Names == File \cup {NoFile}
Sizes == 0..MaxSize

CallSet == [op : {"none", "open", "close", "ftruncate", "undo", "simple"},
            fd : Fd, id : Nat, i : Nat, size : Sizes, old : Sizes,
            then : {"return", "dup", "exit", "write"}, from : Fd, name : Names]
Ops == {"open", "remove", "sync", "debug", "tree", "unknown", "map", "dirty", "close", "set_size"}

ReqSet == [op : {"none"} \cup Ops, id : Nat, i : Nat, name : Names]
CliSet == [pc : {"none", "idle", "send", "recv", "got"}, call : CallSet, req : ReqSet, r : Int]
SrvSet == [pc : {"recv", "serve", "reply"}, whom : Client, req : ReqSet, r : Int, map : Nat]

ServerTypes ==
    /\ opentab \in [Slot -> [file : Names, id : Nat \ {0}, alloc : BOOLEAN]]
    /\ page \in [Slot -> [id : Nat, size : Sizes]]
    /\ file \in [File -> [live : BOOLEAN, size : Sizes, block : [Page -> Nat]]]
    /\ srv \in SrvSet

ClientTypes ==
    /\ fds \in [Client -> [Fd -> 0..NSlot]]
    /\ win \in [Client -> [Fd -> [Page -> Int]]]
    /\ opened \in [Client -> [Fd -> Names]]
    /\ cli \in [Client -> CliSet]

(* The id in a slot names that slot (serve_init, open_alloc). *)
IdsNameSlots == \A s \in Slot : Of(opentab[s].id) = s

(* Slot s is open on file f, and its descriptor page says so. *)
Bound(s, f) ==
    opentab[s].alloc /\ opentab[s].file = f /\ f \in File /\ opentab[s].id = page[s].id

Held == \A c \in Client, n \in Fd : fds[c][n] # 0 => Bound(fds[c][n], opened[c][n])

(* What is mapped in a window is of the file, and below its size. *)
Shown ==
    cut \/ \A c \in Client, n \in Fd, i \in Page : win[c][n][i] > 0 =>
             /\ fds[c][n] # 0
             /\ i < page[fds[c][n]].size
             /\ file[opened[c][n]].block[i] = win[c][n][i]

(* The requests each call makes. *)
Calls == {<<"open", "open">>, <<"open", "map">>, <<"close", "dirty">>, <<"close", "close">>,
          <<"ftruncate", "set_size">>, <<"ftruncate", "map">>, <<"undo", "set_size">>,
          <<"simple", "remove">>, <<"simple", "sync">>, <<"simple", "debug">>, <<"simple", "tree">>,
          <<"simple", "unknown">>}

ByName == {"open", "remove", "debug"}
ById == {"map", "dirty", "close", "set_size"}

(* The locals of a call are true of the descriptor it works on: while it   *)
(* is open nobody else gets its slot, and its size only grows.  x is the   *)
(* client, F its descriptors, W its windows, pg the descriptor pages, and  *)
(* less says whether somebody asked for less of a file.                    *)
Asks(x, F, W, pg, less) ==
    LET k == x.call
        q == x.req
        s == F[k.fd]
    IN  /\ <<k.op, q.op>> \in Calls
        /\ q.op \in ByName => q.name \in File
        /\ q.op = "set_size" => q.i \in Sizes
        /\ q.op = "open" /\ x.pc # "got" => s = 0
        /\ q.op = "open" /\ x.pc = "got" /\ x.r = 0 => s # 0
        /\ q.op \in ById => s # 0 /\ k.id = pg[s].id /\ q.id = k.id
        /\ q.op = "close" /\ x.pc = "got" => x.r = 0
        /\ ~less /\ q.op = "map" => q.i < k.size
        /\ ~less /\ q.op \in {"map", "set_size"} => k.size <= pg[s].size
        /\ ~less /\ q.op \in {"dirty", "close"} =>
             \A i \in Page : W[k.fd][i] > 0 => i < k.size

InCall == {"send", "recv", "got"}

Asked == \A c \in Client : cli[c].pc \in InCall => Asks(cli[c], fds[c], win[c], page, cut)

(* A client waits for the answer the server is working on. *)
Serving ==
    srv.pc # "recv" => cli[srv.whom].pc = "recv" /\ cli[srv.whom].req = srv.req

(* What an answer says is still true when it arrives. *)
Answering ==
    srv.pc = "reply" =>
        /\ srv.req.op = "open" => (srv.r = 0) = (srv.map # 0)
        /\ srv.req.op = "open" /\ srv.map # 0 => srv.map \in Slot /\ Bound(srv.map, srv.req.name)
        /\ srv.req.op = "close" => srv.r = 0
        /\ ~cut /\ srv.req.op = "map" /\ srv.map # 0 /\ srv.req.i \in Page =>
             file[opened[srv.whom][cli[srv.whom].call.fd]].block[srv.req.i] = srv.map

ServInv ==
    Down \/ /\ ServerTypes /\ ClientTypes
            /\ IdsNameSlots /\ Held /\ Shown /\ Asked /\ Serving /\ Answering

-----------------------------------------------------------------------------
(* Ids, reference counts and descriptors. *)

LEMMA ModIs ==
    ASSUME NEW x \in Nat, NEW n \in Nat \ {0}, NEW k \in Nat, NEW r \in Nat,
           r < n, x = n * k + r
    PROVE  x % n = r
OBVIOUS

LEMMA ModNext ==
    ASSUME NEW x \in Nat, NEW n \in Nat \ {0}
    PROVE  (x + n) % n = x % n
<1> DEFINE k == x \div n
           r == x % n
<1>1. x = n * k + r /\ r \in Nat /\ r < n /\ k \in Nat
  OBVIOUS
<1> HIDE DEF k, r
<1>2. x + n = n * (k + 1) + r /\ k + 1 \in Nat /\ x + n \in Nat
  BY <1>1
<1>3. (x + n) % n = r
  BY <1>1, <1>2, ModIs
<1> QED BY <1>3 DEF r

(* serve_init's ids, and the next id of a slot, name the slot. *)
LEMMA OfSlot ==
    ASSUME NEW s \in Slot
    PROVE  s \in Nat \ {0} /\ Of(s) = s
BY ServAssumption DEF Slot, Of

LEMMA OfNext ==
    ASSUME NEW id \in Nat \ {0}
    PROVE  id + NSlot \in Nat \ {0} /\ Of(id + NSlot) = Of(id)
<1>1. NSlot \in Nat \ {0}
  BY ServAssumption
<1> DEFINE x == id - 1
<1>2. x \in Nat /\ id + NSlot - 1 = x + NSlot
  BY <1>1
<1> HIDE DEF x
<1>3. (x + NSlot) % NSlot = x % NSlot
  BY <1>1, <1>2, ModNext
<1> QED BY <1>1, <1>2, <1>3 DEF Of, x

(* A slot that some descriptor names has at least two references. *)
LEMMA HeldIsTwo ==
    ASSUME fds \in [Client -> [Fd -> 0..NSlot]], NEW c \in Client, NEW n \in Fd,
           NEW s, s = fds[c][n], opentab[s].alloc
    PROVE  pageref(s) \in Nat /\ pageref(s) >= 2
<1>1. IsFiniteSet(Client) /\ IsFiniteSet(Fd)
  <2>1. MAXFD \in Nat /\ 0 \in Int /\ MAXFD - 1 \in Int
    BY ServAssumption
  <2> QED BY <2>1, ServAssumption, FS_Interval DEF Fd
<1>2. IsFiniteSet(Client \X Fd)
  BY <1>1, FS_Product
<1>3. Holders(s) \subseteq Client \X Fd /\ <<c, n>> \in Holders(s)
  BY DEF Holders
<1>4. IsFiniteSet(Holders(s))
  BY <1>2, <1>3, FS_Subset
<1>5. Cardinality(Holders(s)) \in Nat /\ Cardinality(Holders(s)) # 0
  BY <1>3, <1>4, FS_CardinalityType, FS_EmptySet
<1> QED BY <1>5 DEF pageref

LEMMA MinIsIn ==
    ASSUME NEW S, S \subseteq Nat, S # {}
    PROVE  Min(S) \in S
<1>1. \E x \in S : \A y \in S : x <= y
  <2> DEFINE R == OpToRel(<, Nat)
  <2>1. IsWellFoundedOn(R, Nat)
    BY NatLessThanWellFounded
  <2> HIDE DEF R
  <2>2. PICK x \in S : \A y \in S : <<y, x>> \notin R
    BY <2>1, WFMin
  <2>3. \A y \in S : ~(y < x)
    BY <2>2 DEF R, OpToRel
  <2>4. \A y \in S : x \in Nat /\ y \in Nat
    OBVIOUS
  <2>5. \A y \in S : x <= y
    BY <2>3, <2>4
  <2> QED BY <2>5
<1> QED BY <1>1 DEF Min

(* A call is not disturbed when the descriptors it works on keep their id  *)
(* and do not get shorter.                                                 *)
LEMMA SameAsks ==
    ASSUME NEW x \in CliSet, NEW F \in [Fd -> 0..NSlot], NEW W,
           page \in [Slot -> [id : Nat, size : Sizes]],
           page' \in [Slot -> [id : Nat, size : Sizes]],
           Asks(x, F, W, page, cut), cut => cut',
           \A n \in Fd : F[n] # 0 => /\ page'[F[n]].id = page[F[n]].id
                                     /\ ~cut' => page[F[n]].size <= page'[F[n]].size
    PROVE  Asks(x, F, W, page', cut')
<1>1. x.call \in CallSet /\ x.call.fd \in Fd /\ x.call.size \in Sizes
  BY DEF CliSet, CallSet
<1> DEFINE s == F[x.call.fd]
<1>2. s # 0 => /\ s \in Slot /\ page'[s].id = page[s].id
               /\ ~cut' => page[s].size <= page'[s].size
               /\ page[s].size \in Int /\ page'[s].size \in Int
  BY <1>1, ServAssumption DEF Slot, Sizes
<1>3. x.call.size \in Int
  BY <1>1, ServAssumption DEF Sizes
<1> HIDE DEF s
<1>4. x.req.op \in ById => s # 0
  BY DEF Asks, s
<1>5. ~cut' /\ x.req.op \in {"map", "set_size"} => x.call.size <= page'[s].size
  <2> SUFFICES ASSUME ~cut', x.req.op \in {"map", "set_size"} PROVE x.call.size <= page'[s].size
    OBVIOUS
  <2>1. x.call.size <= page[s].size /\ s # 0
    BY <1>4 DEF Asks, s, ById
  <2> QED BY <1>2, <1>3, <2>1
<1> QED BY <1>2, <1>4, <1>5 DEF Asks, s

(* While the server is up every descriptor page is one the server gave. *)
LEMMA OpenIsFile ==
    ASSUME ServInv, ~Down, NEW c \in Client, NEW n \in Fd
    PROVE  IsFile(c, n) <=> fds[c][n] # 0
BY ServAssumption DEF ServInv, ClientTypes, IsFile, Slot

-----------------------------------------------------------------------------
(* The two kinds of steps: what one client does to its own memory and to   *)
(* the shared descriptor pages, and what the server does for a request.    *)

LEMMA OneClient ==
    ASSUME ServInv, ~Down, NEW c \in Client,
           NEW x \in CliSet, NEW F \in [Fd -> 0..NSlot],
           NEW W \in [Fd -> [Page -> Int]], NEW O \in [Fd -> Names],
           cli' = [cli EXCEPT ![c] = x], fds' = [fds EXCEPT ![c] = F],
           win' = [win EXCEPT ![c] = W], opened' = [opened EXCEPT ![c] = O],
           UNCHANGED <<opentab, file>>, srv' \in SrvSet,
           page' \in [Slot -> [id : Nat, size : Sizes]],
           \A s \in Slot : page'[s].id = page[s].id /\ (~cut' => page[s].size <= page'[s].size),
           cut => cut',
           x.pc \in InCall => Asks(x, F, W, page', cut'),
           \A n \in Fd : F[n] # 0 => Bound(F[n], O[n]),
           cut' \/ \A n \in Fd, i \in Page : W[n][i] > 0 =>
                     /\ F[n] # 0
                     /\ i < page'[F[n]].size
                     /\ file[O[n]].block[i] = W[n][i]
    PROVE  ServerTypes' /\ ClientTypes' /\ IdsNameSlots' /\ Held' /\ Shown' /\ Asked'
<1>0. /\ ServerTypes /\ ClientTypes
      /\ IdsNameSlots /\ Held /\ Shown /\ Asked /\ Serving /\ Answering
  BY DEF ServInv
<1>1. /\ cli'[c] = x /\ fds'[c] = F /\ win'[c] = W /\ opened'[c] = O
      /\ \A d \in Client : d # c => /\ cli'[d] = cli[d] /\ fds'[d] = fds[d]
                                    /\ win'[d] = win[d] /\ opened'[d] = opened[d]
  BY <1>0 DEF ClientTypes
<1>2. ServerTypes' /\ IdsNameSlots'
  BY <1>0 DEF ServerTypes, IdsNameSlots
<1>3. ClientTypes'
  BY <1>0 DEF ClientTypes
<1>4. \A s \in Slot, f \in File : Bound(s, f) => Bound(s, f)'
  BY DEF Bound
<1>5. \A d \in Client, n \in Fd : fds[d][n] # 0 => fds[d][n] \in Slot
  BY <1>0, ServAssumption DEF ClientTypes, Slot
<1>6. \A n \in Fd : F[n] # 0 => F[n] \in Slot
  BY ServAssumption DEF Slot
<1>7. Held'
  <2>1. \A n \in Fd : F[n] # 0 => O[n] \in File
    BY DEF Bound
  <2>2. \A d \in Client, n \in Fd : fds[d][n] # 0 => opened[d][n] \in File
    BY <1>0 DEF Held, Bound
  <2> QED BY <1>0, <1>1, <1>4, <1>5, <1>6, <2>1, <2>2 DEF Held
<1>8. Shown'
  <2> SUFFICES ASSUME ~cut', NEW d \in Client, NEW n \in Fd, NEW i \in Page, win'[d][n][i] > 0
               PROVE  /\ fds'[d][n] # 0
                      /\ i < page'[fds'[d][n]].size
                      /\ file'[opened'[d][n]].block[i] = win'[d][n][i]
    BY DEF Shown
  <2>1. CASE d = c
    BY <1>1, <2>1
  <2>2. CASE d # c
    <3>1. /\ fds[d][n] # 0 /\ i < page[fds[d][n]].size
          /\ file[opened[d][n]].block[i] = win[d][n][i]
      BY <1>0, <1>1, <2>2 DEF Shown
    <3>2. i \in Int /\ page[fds[d][n]].size \in Int /\ page'[fds[d][n]].size \in Int
      BY <1>0, <1>5, <3>1, ServAssumption DEF ServerTypes, Page, Sizes
    <3>3. page[fds[d][n]].size <= page'[fds[d][n]].size
      BY <1>5, <3>1
    <3> QED BY <1>1, <2>2, <3>1, <3>2, <3>3
  <2> QED BY <2>1, <2>2
<1>9. Asked'
  <2> SUFFICES ASSUME NEW d \in Client, cli'[d].pc \in InCall
               PROVE  Asks(cli'[d], fds'[d], win'[d], page', cut')
    BY DEF Asked
  <2>1. CASE d = c
    BY <1>1, <2>1
  <2>2. CASE d # c
    <3>1. Asks(cli[d], fds[d], win[d], page, cut)
      BY <1>0, <1>1, <2>2 DEF Asked
    <3>2. cli[d] \in CliSet /\ fds[d] \in [Fd -> 0..NSlot]
      BY <1>0 DEF ClientTypes
    <3>3. Asks(cli[d], fds[d], win[d], page', cut')
      <4>1. page \in [Slot -> [id : Nat, size : Sizes]]
        BY <1>0 DEF ServerTypes
      <4> QED BY <1>5, <3>1, <3>2, <4>1, SameAsks
    <3> QED BY <1>1, <2>2, <3>3
  <2> QED BY <2>1, <2>2
<1> QED BY <1>2, <1>3, <1>7, <1>8, <1>9

LEMMA ClientStep ==
    ASSUME ServInv, ~Down,
           NEW c \in Client, cli[c].pc # "recv",
           NEW x \in CliSet, NEW F \in [Fd -> 0..NSlot],
           NEW W \in [Fd -> [Page -> Int]], NEW O \in [Fd -> Names],
           cli' = [cli EXCEPT ![c] = x], fds' = [fds EXCEPT ![c] = F],
           win' = [win EXCEPT ![c] = W], opened' = [opened EXCEPT ![c] = O],
           UNCHANGED <<opentab, file, srv, full>>,
           page' \in [Slot -> [id : Nat, size : Sizes]],
           \A s \in Slot : page'[s].id = page[s].id /\ (~cut' => page[s].size <= page'[s].size),
           cut => cut',
           x.pc \in InCall => Asks(x, F, W, page', cut'),
           \A n \in Fd : F[n] # 0 => Bound(F[n], O[n]),
           cut' \/ \A n \in Fd, i \in Page : W[n][i] > 0 =>
                     /\ F[n] # 0
                     /\ i < page'[F[n]].size
                     /\ file[O[n]].block[i] = W[n][i]
    PROVE  ServInv'
<1>0. ServerTypes /\ ClientTypes /\ Serving /\ Answering
  BY DEF ServInv
<1>1. srv' \in SrvSet
  BY <1>0 DEF ServerTypes
<1>2. ServerTypes' /\ ClientTypes' /\ IdsNameSlots' /\ Held' /\ Shown' /\ Asked'
  BY <1>1, OneClient
<1>3. \A d \in Client : d # c => cli'[d] = cli[d] /\ opened'[d] = opened[d]
  BY <1>0 DEF ClientTypes
<1>4. Serving' /\ (srv.pc # "recv" => srv.whom # c /\ srv.whom \in Client)
  BY <1>0, <1>3 DEF Serving, ServerTypes, SrvSet
<1>5. Answering'
  <2> SUFFICES ASSUME srv.pc = "reply" PROVE Answering'
    BY DEF Answering
  <2>1. /\ cli'[srv.whom] = cli[srv.whom] /\ opened'[srv.whom] = opened[srv.whom]
    BY <1>3, <1>4
  <2>2. srv.map \in Slot /\ Bound(srv.map, srv.req.name) => Bound(srv.map, srv.req.name)'
    BY DEF Bound
  <2> QED BY <1>0, <2>1, <2>2 DEF Answering
<1> QED BY <1>2, <1>4, <1>5 DEF ServInv

LEMMA ServerStep ==
    ASSUME ServInv, ~Down, srv.pc = "serve",
           UNCHANGED <<fds, win, cli, opened, full>>,
           opentab' \in [Slot -> [file : Names, id : Nat \ {0}, alloc : BOOLEAN]],
           page' \in [Slot -> [id : Nat, size : Sizes]],
           file' \in [File -> [live : BOOLEAN, size : Sizes, block : [Page -> Nat]]],
           NEW pc \in {"reply", "recv"}, NEW r \in Int, NEW map \in Nat,
           srv' = [srv EXCEPT !.pc = pc, !.r = r, !.map = map],
           IdsNameSlots',
           \A c \in Client, n \in Fd : fds[c][n] # 0 =>
               opentab'[fds[c][n]] = opentab[fds[c][n]] /\ page'[fds[c][n]] = page[fds[c][n]],
           cut => cut',
           cut' \/ \A f \in File, i \in Page :
                     file[f].block[i] > 0 => file'[f].block[i] = file[f].block[i],
           Answering'
    PROVE  ServInv'
<1>0. /\ ServerTypes /\ ClientTypes
      /\ IdsNameSlots /\ Held /\ Shown /\ Asked /\ Serving /\ Answering
  BY DEF ServInv
<1>1. ClientTypes'
  BY <1>0 DEF ClientTypes
<1>2. ServerTypes'
  <2>1. srv' \in SrvSet
    <3>1. srv' = [pc |-> pc, whom |-> srv.whom, req |-> srv.req, r |-> r, map |-> map]
      BY <1>0 DEF ServerTypes, SrvSet
    <3> QED BY <1>0, <3>1 DEF ServerTypes, SrvSet
  <2> QED BY <2>1 DEF ServerTypes
<1>3. /\ srv'.pc \in {"reply", "recv"} /\ srv'.whom = srv.whom /\ srv'.req = srv.req
  BY <1>0 DEF ServerTypes, SrvSet
<1>4. \A d \in Client, n \in Fd : fds[d][n] # 0 => fds[d][n] \in Slot
  BY <1>0, ServAssumption DEF ClientTypes, Slot
<1>5. Held'
  BY <1>0 DEF Held, Bound
<1>6. Shown'
  <2> SUFFICES ASSUME ~cut', NEW d \in Client, NEW n \in Fd, NEW i \in Page, win[d][n][i] > 0
               PROVE  /\ fds[d][n] # 0
                      /\ i < page'[fds[d][n]].size
                      /\ file'[opened[d][n]].block[i] = win[d][n][i]
    BY DEF Shown
  <2>1. /\ fds[d][n] # 0 /\ i < page[fds[d][n]].size
        /\ file[opened[d][n]].block[i] = win[d][n][i]
    BY <1>0 DEF Shown
  <2>2. opened[d][n] \in File
    BY <1>0, <2>1 DEF Held, Bound
  <2>3. file'[opened[d][n]].block[i] = file[opened[d][n]].block[i]
    BY <2>1, <2>2
  <2> QED BY <2>1, <2>3
<1>7. Asked'
  <2> SUFFICES ASSUME NEW d \in Client, cli[d].pc \in InCall
               PROVE  Asks(cli[d], fds[d], win[d], page', cut')
    BY DEF Asked
  <2>1. Asks(cli[d], fds[d], win[d], page, cut)
    BY <1>0 DEF Asked
  <2>2. cli[d] \in CliSet /\ fds[d] \in [Fd -> 0..NSlot]
    BY <1>0 DEF ClientTypes
  <2>3. \A n \in Fd : fds[d][n] # 0 => /\ page'[fds[d][n]].id = page[fds[d][n]].id
                                       /\ page[fds[d][n]].size <= page'[fds[d][n]].size
    BY <1>0, <1>4, ServAssumption DEF ServerTypes, Sizes
  <2>4. page \in [Slot -> [id : Nat, size : Sizes]]
    BY <1>0 DEF ServerTypes
  <2> QED BY <2>1, <2>2, <2>3, <2>4, SameAsks
<1>8. Serving'
  BY <1>0, <1>3 DEF Serving
<1> QED BY <1>1, <1>2, <1>5, <1>6, <1>7, <1>8 DEF ServInv

-----------------------------------------------------------------------------
(* The server's requests. *)

(* The client that is being served waits, and its locals are right. *)
LEMMA ServedFacts ==
    ASSUME ServInv, ~Down, srv.pc = "serve", NEW w, w = srv.whom
    PROVE  /\ w \in Client /\ cli[w] \in CliSet /\ cli[w].call \in CallSet
           /\ cli[w].pc = "recv" /\ cli[w].req = srv.req /\ srv.req \in ReqSet
           /\ Asks(cli[w], fds[w], win[w], page, cut)
           /\ srv.req.op \in ByName => srv.req.name \in File
<1>1. ServerTypes /\ ClientTypes /\ Asked /\ Serving
  BY DEF ServInv
<1>2. w \in Client /\ srv.req \in ReqSet
  BY <1>1 DEF ServerTypes, SrvSet
<1>3. cli[w] \in CliSet
  BY <1>1, <1>2 DEF ClientTypes
<1>4. cli[w].call \in CallSet
  BY <1>3 DEF CliSet
<1>5. cli[w].pc = "recv" /\ cli[w].req = srv.req
  BY <1>1 DEF Serving
<1>6. Asks(cli[w], fds[w], win[w], page, cut)
  BY <1>1, <1>2, <1>5 DEF Asked, InCall
<1>7. srv.req.op \in ByName => srv.req.name \in File
  BY <1>5, <1>6 DEF Asks
<1> QED BY <1>2, <1>3, <1>4, <1>5, <1>6, <1>7

(* open_lookup finds the slot of the descriptor that the call works on. *)
LEMMA LookupFinds ==
    ASSUME ServInv, ~Down, srv.pc = "serve", srv.req.op \in ById,
           NEW f, f = opened[srv.whom][cli[srv.whom].call.fd]
    PROVE  /\ open_lookup(srv.req.id)
           /\ opentab[Of(srv.req.id)].file = f /\ f \in File
<1> DEFINE w == srv.whom
           n == cli[w].call.fd
           s == fds[w][n]
<1>1. ServerTypes /\ ClientTypes /\ Held /\ IdsNameSlots
  BY DEF ServInv
<1>2. /\ w \in Client /\ cli[w].call \in CallSet
      /\ cli[w].req = srv.req /\ Asks(cli[w], fds[w], win[w], page, cut)
  BY ServedFacts
<1>3. n \in Fd
  BY <1>2 DEF CallSet
<1>4. s # 0 /\ srv.req.id = page[s].id
  BY <1>2 DEF Asks
<1>5. s \in Slot
  BY <1>1, <1>2, <1>3, <1>4, ServAssumption DEF ClientTypes, Slot
<1>6. Bound(s, f)
  BY <1>1, <1>2, <1>3, <1>4 DEF Held
<1>7. Of(srv.req.id) = s /\ opentab[s].id = srv.req.id
  BY <1>1, <1>4, <1>5, <1>6 DEF Bound, IdsNameSlots
<1>8. fds \in [Client -> [Fd -> 0..NSlot]] /\ opentab[s].alloc
  BY <1>1, <1>6 DEF ClientTypes, Bound
<1> HIDE DEF s, n, w
<1>9. pageref(s) \in Nat /\ pageref(s) >= 2
  BY <1>2, <1>3, <1>8, HeldIsTwo DEF s
<1> QED BY <1>6, <1>7, <1>9 DEF open_lookup, Bound

(* A slot that open_alloc takes is nobody's. *)
LEMMA AllocTakesFree ==
    ASSUME ServInv, ~Down, NEW s \in Slot, open_alloc(s)
    PROVE  \A c \in Client, n \in Fd : fds[c][n] # s
<1> SUFFICES ASSUME NEW c \in Client, NEW n \in Fd, fds[c][n] = s PROVE FALSE
  OBVIOUS
<1>1. ClientTypes /\ Held /\ s # 0
  BY ServAssumption DEF ServInv, Slot
<1>2. opentab[s].alloc
  BY <1>1 DEF Held, Bound
<1>3. pageref(s) \in Nat /\ pageref(s) >= 2
  BY <1>1, <1>2, HeldIsTwo DEF ClientTypes
<1> QED BY <1>3 DEF open_alloc

(* Requests that change neither the table nor a file. *)
LEMMA QuietServe ==
    ASSUME ServInv, ~Down, srv.pc = "serve",
           UNCHANGED <<opentab, page, file, fds, win, cli, opened, full, cut>>,
           NEW pc \in {"reply", "recv"}, NEW r \in Int,
           srv' = [srv EXCEPT !.pc = pc, !.r = r, !.map = 0],
           srv.req.op = "open" => r # 0,
           srv.req.op = "close" => r = 0
    PROVE  ServInv'
<1>1. ServerTypes /\ IdsNameSlots
  BY DEF ServInv
<1>2. /\ opentab' \in [Slot -> [file : Names, id : Nat \ {0}, alloc : BOOLEAN]]
      /\ page' \in [Slot -> [id : Nat, size : Sizes]]
      /\ file' \in [File -> [live : BOOLEAN, size : Sizes, block : [Page -> Nat]]]
      /\ IdsNameSlots' /\ 0 \in Nat
  BY <1>1 DEF ServerTypes, IdsNameSlots
<1>3. srv'.r = r /\ srv'.map = 0 /\ srv'.req = srv.req
  BY <1>1 DEF ServerTypes, SrvSet
<1>4. Answering'
  BY <1>3 DEF Answering
<1> QED BY <1>2, <1>4, ServerStep

LEMMA ServeOpenInv ==
    ASSUME ServInv, ~Down, serve_open
    PROVE  ServInv'
<1>1. ServerTypes /\ ClientTypes /\ IdsNameSlots /\ srv.pc = "serve" /\ srv.req.op = "open"
  BY DEF ServInv, serve_open
<1>2. PICK f \in File : f = srv.req.name /\ f \in Names
  BY <1>1, ServedFacts DEF ByName, Names
<1>3. PICK s \in Slot :
        /\ open_alloc(s)
        /\ LET id == opentab[s].id + NSlot
           IN  IF file[f].live
               THEN /\ opentab' = [opentab EXCEPT ![s] = [file |-> f, id |-> id, alloc |-> TRUE]]
                    /\ page' = [page EXCEPT ![s] = [id |-> id, size |-> file[f].size]]
                    /\ Answer(0, s)
               ELSE /\ opentab' = [opentab EXCEPT ![s] = [file |-> opentab[s].file, id |-> id, alloc |-> TRUE]]
                    /\ page' = [page EXCEPT ![s] = [id |-> 0, size |-> 0]]
                    /\ Answer(-1, 0)
  BY <1>2 DEF serve_open
<1> DEFINE id == opentab[s].id + NSlot
<1>4. \A c \in Client, n \in Fd : fds[c][n] # s
  BY <1>3, AllocTakesFree
<1>5. opentab[s].id \in Nat \ {0} /\ opentab[s].file \in Names /\ file[f].size \in Sizes /\ 0 \in Sizes
  BY <1>1, <1>2, ServAssumption DEF ServerTypes, Sizes
<1>6. id \in Nat \ {0} /\ Of(id) = s
  BY <1>1, <1>5, OfNext DEF IdsNameSlots
<1> HIDE DEF id
<1>7. PICK y \in [file : Names, id : Nat \ {0}, alloc : BOOLEAN], z \in [id : Nat, size : Sizes] :
        /\ opentab' = [opentab EXCEPT ![s] = y]
        /\ page' = [page EXCEPT ![s] = z]
        /\ y.id = id
        /\ \/ /\ y.file = f /\ y.alloc /\ z.id = id
              /\ Answer(0, s)
           \/ Answer(-1, 0)
  <2>1. CASE file[f].live
    <3> DEFINE y == [file |-> f, id |-> id, alloc |-> TRUE]
               z == [id |-> id, size |-> file[f].size]
    <3>1. /\ y \in [file : Names, id : Nat \ {0}, alloc : BOOLEAN]
          /\ z \in [id : Nat, size : Sizes]
          /\ y.id = id /\ y.file = f /\ y.alloc /\ z.id = id
      BY <1>2, <1>5, <1>6
    <3>2. opentab' = [opentab EXCEPT ![s] = y] /\ page' = [page EXCEPT ![s] = z] /\ Answer(0, s)
      BY <1>3, <2>1 DEF id
    <3> HIDE DEF y, z
    <3> QED BY <3>1, <3>2
  <2>2. CASE ~file[f].live
    <3> DEFINE y == [file |-> opentab[s].file, id |-> id, alloc |-> TRUE]
               z == [id |-> 0, size |-> 0]
    <3>1. /\ y \in [file : Names, id : Nat \ {0}, alloc : BOOLEAN]
          /\ z \in [id : Nat, size : Sizes] /\ y.id = id
      BY <1>5, <1>6
    <3>2. /\ opentab' = [opentab EXCEPT ![s] = y]
          /\ page' = [page EXCEPT ![s] = z] /\ Answer(-1, 0)
      BY <1>3, <2>2 DEF id
    <3> HIDE DEF y, z
    <3> QED BY <3>1, <3>2
  <2> QED BY <2>1, <2>2
<1>8. /\ opentab' \in [Slot -> [file : Names, id : Nat \ {0}, alloc : BOOLEAN]]
      /\ page' \in [Slot -> [id : Nat, size : Sizes]]
      /\ opentab'[s] = y /\ page'[s] = z
      /\ \A t \in Slot : t # s => opentab'[t] = opentab[t] /\ page'[t] = page[t]
  BY <1>1, <1>7 DEF ServerTypes
<1>9. IdsNameSlots'
  <2>1. \A t \in Slot : Of(opentab'[t].id) = t
    BY <1>1, <1>6, <1>7, <1>8 DEF IdsNameSlots
  <2> QED BY <2>1 DEF IdsNameSlots, Of
<1>10. \A c \in Client, n \in Fd : fds[c][n] # 0 =>
               opentab'[fds[c][n]] = opentab[fds[c][n]] /\ page'[fds[c][n]] = page[fds[c][n]]
  BY <1>1, <1>4, <1>8, ServAssumption DEF ClientTypes, Slot
<1>11. UNCHANGED <<file, fds, win, cli, opened, full, cut>>
  BY DEF serve_open
<1>12. file' \in [File -> [live : BOOLEAN, size : Sizes, block : [Page -> Nat]]]
  BY <1>1, <1>11 DEF ServerTypes
<1>13. CASE /\ y.file = f /\ y.alloc /\ z.id = id
            /\ Answer(0, s)
  <2>1. srv' = [srv EXCEPT !.pc = "reply", !.r = 0, !.map = s]
        /\ s \in Nat /\ s # 0 /\ 0 \in Int /\ "reply" \in {"reply", "recv"}
    BY <1>13, OfSlot DEF Answer
  <2>2. srv'.r = 0 /\ srv'.map = s /\ srv'.req = srv.req
    BY <1>1, <2>1 DEF ServerTypes, SrvSet
  <2>3. Bound(s, f)'
    BY <1>2, <1>7, <1>8, <1>13 DEF Bound
  <2>4. Answering'
    BY <1>1, <1>2, <2>1, <2>2, <2>3 DEF Answering
  <2> QED BY <1>1, <1>8, <1>9, <1>10, <1>11, <1>12, <2>1, <2>4, ServerStep
<1>14. CASE Answer(-1, 0)
  <2>1. srv' = [srv EXCEPT !.pc = "reply", !.r = -1, !.map = 0] /\ -1 \in Int
    BY <1>14 DEF Answer
  <2>2. srv'.r = -1 /\ srv'.map = 0 /\ srv'.req = srv.req
    BY <1>1, <2>1 DEF ServerTypes, SrvSet
  <2>3. Answering'
    BY <1>1, <2>2 DEF Answering
  <2> QED BY <1>1, <1>8, <1>9, <1>10, <1>11, <1>12, <2>1, <2>3, ServerStep
<1> QED BY <1>7, <1>13, <1>14

LEMMA ServeRefuseInv ==
    ASSUME ServInv, ~Down, serve_refuse
    PROVE  ServInv'
<1>1. srv.pc = "serve" /\ srv.req.op \in {"map", "set_size", "dirty"}
  BY LookupFinds DEF serve_refuse, ById
<1>2. srv' = [srv EXCEPT !.pc = "reply", !.r = -1, !.map = 0] /\ -1 \in Int
      /\ UNCHANGED <<opentab, page, file, fds, win, cli, opened, full, cut>>
  BY DEF serve_refuse, Answer
<1> QED BY <1>1, <1>2, QuietServe

LEMMA ServeCloseInv ==
    ASSUME ServInv, ~Down, serve_close
    PROVE  ServInv'
<1>1. srv.pc = "serve" /\ srv.req.op = "close"
  BY DEF serve_close
<1>2. srv' = [srv EXCEPT !.pc = "reply", !.r = 0, !.map = 0] /\ 0 \in Int
      /\ UNCHANGED <<opentab, page, file, fds, win, cli, opened, full, cut>>
  BY DEF serve_close, Answer
<1> QED BY <1>1, <1>2, QuietServe

(* A server that follows NULL is down. *)
LEMMA HaltIsDown ==
    ASSUME srv' = [srv EXCEPT !.pc = "halt"] \/ srv' = [srv EXCEPT !.pc = "dead"], srv \in SrvSet
    PROVE  ServInv'
<1>1. srv'.pc \in {"dead", "halt"}
  BY DEF SrvSet
<1> QED BY <1>1 DEF ServInv, Down

LEMMA ServeOtherInv ==
    ASSUME ServInv, ~Down, serve_other
    PROVE  ServInv'
<1>1. /\ srv.pc = "serve" /\ srv.req.op \in {"sync", "debug", "tree", "unknown"}
      /\ UNCHANGED <<opentab, page, file, fds, win, cli, opened, full, cut>>
  BY DEF serve_other
<1>2. ServerTypes /\ IdsNameSlots /\ srv \in SrvSet
  BY DEF ServInv, ServerTypes
<1>3. CASE Answer(0, 0)
  <2>1. srv' = [srv EXCEPT !.pc = "reply", !.r = 0, !.map = 0] /\ 0 \in Int
    BY <1>3 DEF Answer
  <2> QED BY <1>1, <2>1, QuietServe
<1>4. CASE srv' = [srv EXCEPT !.pc = "recv"]
  <2>1. srv.r \in Int /\ srv.map \in Nat
    BY <1>2 DEF SrvSet
  <2>2. srv' = [srv EXCEPT !.pc = "recv", !.r = srv.r, !.map = srv.map] /\ srv'.pc = "recv"
    BY <1>2, <1>4 DEF SrvSet
  <2>3. Answering'
    BY <2>2 DEF Answering
  <2>4. /\ opentab' \in [Slot -> [file : Names, id : Nat \ {0}, alloc : BOOLEAN]]
        /\ page' \in [Slot -> [id : Nat, size : Sizes]]
        /\ file' \in [File -> [live : BOOLEAN, size : Sizes, block : [Page -> Nat]]]
        /\ IdsNameSlots'
    BY <1>1, <1>2 DEF ServerTypes, IdsNameSlots
  <2> QED BY <1>1, <2>1, <2>2, <2>3, <2>4, ServerStep
<1>5. CASE srv' = [srv EXCEPT !.pc = "halt"]
  BY <1>2, <1>5, HaltIsDown
<1> QED BY <1>3, <1>4, <1>5 DEF serve_other

LEMMA ServeDirtyInv ==
    ASSUME ServInv, ~Down, serve_dirty
    PROVE  ServInv'
<1>1. srv.pc = "serve" /\ srv.req.op = "dirty"
  BY DEF serve_dirty
<1>2. srv' = [srv EXCEPT !.pc = "reply", !.r = 0, !.map = 0] /\ 0 \in Int
      /\ UNCHANGED <<opentab, page, file, fds, win, cli, opened, full, cut>>
  BY DEF serve_dirty, Answer
<1> QED BY <1>1, <1>2, QuietServe

(* Requests that change one file. *)
LEMMA FileServe ==
    ASSUME ServInv, ~Down, srv.pc = "serve", srv.req.op \notin {"open", "close"},
           UNCHANGED <<opentab, page, fds, win, cli, opened, full>>,
           NEW f \in File, NEW y \in [live : BOOLEAN, size : Sizes, block : [Page -> Nat]],
           file' = [file EXCEPT ![f] = y],
           NEW map \in Nat, Answer(0, map),
           cut => cut',
           cut' \/ \A i \in Page : file[f].block[i] > 0 => y.block[i] = file[f].block[i],
           srv.req.op = "map" /\ srv.req.i \in Page =>
               /\ f = opened[srv.whom][cli[srv.whom].call.fd]
               /\ y.block[srv.req.i] = map
    PROVE  ServInv'
<1>1. ServerTypes /\ IdsNameSlots
  BY DEF ServInv
<1>2. srv' = [srv EXCEPT !.pc = "reply", !.r = 0, !.map = map] /\ 0 \in Int
  BY DEF Answer
<1>3. srv'.map = map /\ srv'.req = srv.req /\ srv'.whom = srv.whom
  BY <1>1, <1>2 DEF ServerTypes, SrvSet
<1>4. /\ file' \in [File -> [live : BOOLEAN, size : Sizes, block : [Page -> Nat]]]
      /\ file'[f] = y /\ \A g \in File : g # f => file'[g] = file[g]
  BY <1>1 DEF ServerTypes
<1>5. cut' \/ \A g \in File, i \in Page :
                 file[g].block[i] > 0 => file'[g].block[i] = file[g].block[i]
  BY <1>4
<1>6. /\ opentab' \in [Slot -> [file : Names, id : Nat \ {0}, alloc : BOOLEAN]]
      /\ page' \in [Slot -> [id : Nat, size : Sizes]]
      /\ IdsNameSlots'
  BY <1>1 DEF ServerTypes, IdsNameSlots
<1>7. Answering'
  <2>1. srv.req.op = "map" /\ srv.req.i \in Page =>
           file'[opened[srv.whom][cli[srv.whom].call.fd]].block[srv.req.i] = map
    BY <1>4
  <2> QED BY <1>3, <2>1 DEF Answering
<1> QED BY <1>2, <1>4, <1>5, <1>6, <1>7, ServerStep

LEMMA ServeMapInv ==
    ASSUME ServInv, ~Down, serve_map
    PROVE  ServInv'
<1>1. /\ ServerTypes /\ srv.pc = "serve" /\ srv.req.op = "map"
      /\ UNCHANGED <<opentab, page, fds, win, cli, opened, full, cut>>
  BY DEF ServInv, serve_map
<1>2. PICK f \in File : f = opened[srv.whom][cli[srv.whom].call.fd] /\ f = opentab[Of(srv.req.id)].file
  BY <1>1, LookupFinds DEF ById
<1>3. PICK i \in Nat : i = srv.req.i
  BY <1>1 DEF ServerTypes, SrvSet, ReqSet
<1>4. PICK b \in 1..NBlock :
        /\ file_get_block(f, i, b)
        /\ file' = [file EXCEPT ![f].block[i] = b]
        /\ Answer(0, b)
  BY <1>2, <1>3 DEF serve_map
<1>5. PICK map \in Nat : Answer(0, map) /\ (srv.req.op = "map" => map = b)
  BY <1>4, ServAssumption
<1>6. file[f] \in [live : BOOLEAN, size : Sizes, block : [Page -> Nat]] /\ b \in Nat
  BY <1>1, <1>4, ServAssumption DEF ServerTypes
<1> DEFINE y == [file[f] EXCEPT !.block[i] = b]
<1>7. file' = [file EXCEPT ![f] = y]
  BY <1>4
<1>8. /\ y \in [live : BOOLEAN, size : Sizes, block : [Page -> Nat]]
      /\ \A j \in Page : y.block[j] = IF j = i THEN b ELSE file[f].block[j]
  BY <1>6
<1>9. \A j \in Page : file[f].block[j] > 0 => y.block[j] = file[f].block[j]
  BY <1>4, <1>6, <1>8 DEF file_get_block
<1>10. srv.req.op = "map" /\ srv.req.i \in Page => y.block[srv.req.i] = map
  BY <1>3, <1>5, <1>8
<1>11. y \in [live : BOOLEAN, size : Sizes, block : [Page -> Nat]]
  BY <1>8
<1> HIDE DEF y
<1>12. srv.req.op \notin {"open", "close"} /\ (cut => cut')
  BY <1>1
<1>13. srv.req.op = "map" /\ srv.req.i \in Page =>
         f = opened[srv.whom][cli[srv.whom].call.fd] /\ y.block[srv.req.i] = map
  BY <1>2, <1>10
<1>14. cut' \/ \A j \in Page : file[f].block[j] > 0 => y.block[j] = file[f].block[j]
  BY <1>9
<1> QED BY <1>1, <1>5, <1>7, <1>11, <1>12, <1>13, <1>14, FileServe

(* What file_truncate and file_set_size leave of a file. *)
LEMMA TruncateIs ==
    ASSUME ServerTypes, NEW f \in File, NEW size \in Sizes
    PROVE  \E b \in [Page -> Nat] :
              file_truncate(f, size) =
                [file EXCEPT ![f] = [live |-> file[f].live, size |-> size, block |-> b]]
<1> DEFINE new == IF size = 0 THEN 0 ELSE size + 1
           b == [i \in Page |-> IF i \in new..file[f].size THEN 0 ELSE file[f].block[i]]
<1>1. file[f].block \in [Page -> Nat]
  BY DEF ServerTypes
<1>2. file_truncate(f, size) =
        [file EXCEPT ![f] = [live |-> file[f].live, size |-> size, block |-> b]]
  BY DEF file_truncate
<1> HIDE DEF new
<1>3. b \in [Page -> Nat]
  BY <1>1
<1> QED BY <1>2, <1>3

LEMMA SetSizeIs ==
    ASSUME ServerTypes, NEW f \in File, NEW size \in Sizes
    PROVE  \E b \in [Page -> Nat] :
              /\ file_set_size(f, size) =
                   [file EXCEPT ![f] = [live |-> file[f].live, size |-> size, block |-> b]]
              /\ ~(size < file[f].size) => b = file[f].block
<1>1. CASE size < file[f].size
  BY <1>1, TruncateIs DEF file_set_size
<1>2. CASE ~(size < file[f].size)
  <2>1. PICK y \in [live : BOOLEAN, size : Sizes, block : [Page -> Nat]] : y = file[f]
    BY DEF ServerTypes
  <2>2. [y EXCEPT !.size = size] = [live |-> y.live, size |-> size, block |-> y.block]
    OBVIOUS
  <2>3. file_set_size(f, size) = [file EXCEPT ![f] = [y EXCEPT !.size = size]]
    BY <1>2, <2>1 DEF file_set_size
  <2> QED BY <2>1, <2>2, <2>3
<1> QED BY <1>1, <1>2

LEMMA ServeSetSizeInv ==
    ASSUME ServInv, ~Down, serve_set_size
    PROVE  ServInv'
<1>1. /\ ServerTypes /\ srv.pc = "serve" /\ srv.req.op = "set_size"
      /\ UNCHANGED <<opentab, page, fds, win, cli, opened, full>> /\ Answer(0, 0)
  BY DEF ServInv, serve_set_size
<1>2. PICK f \in File : f = opentab[Of(srv.req.id)].file
  BY <1>1, LookupFinds DEF ById
<1>3. PICK n \in Sizes : n = srv.req.i
  BY <1>1, ServedFacts DEF Asks
<1>4. file' = file_set_size(f, n) /\ cut' = (cut \/ n < file[f].size)
  BY <1>2, <1>3 DEF serve_set_size
<1>5. PICK b \in [Page -> Nat] :
        /\ file_set_size(f, n) = [file EXCEPT ![f] = [live |-> file[f].live, size |-> n, block |-> b]]
        /\ ~(n < file[f].size) => b = file[f].block
  BY <1>1, SetSizeIs
<1>7. (cut => cut') /\ (cut' \/ ~(n < file[f].size))
  BY <1>4, Zenon
<1> DEFINE y == [live |-> file[f].live, size |-> n, block |-> b]
<1>8. file' = [file EXCEPT ![f] = y]
  BY <1>4, <1>5
<1>9. file[f].live \in BOOLEAN
  BY <1>1 DEF ServerTypes
<1>10. y \in [live : BOOLEAN, size : Sizes, block : [Page -> Nat]] /\ y.block = b
  BY <1>9
<1> HIDE DEF y
<1>11. cut' \/ \A i \in Page : file[f].block[i] > 0 => y.block[i] = file[f].block[i]
  BY <1>5, <1>7, <1>10
<1>12. srv.req.op \notin {"open", "close", "map"} /\ 0 \in Nat
  BY <1>1
<1> QED BY <1>1, <1>7, <1>8, <1>10, <1>11, <1>12, FileServe

LEMMA SetLive ==
    ASSUME NEW v, NEW a, NEW b, NEW w
    PROVE  [[live |-> v, size |-> a, block |-> b] EXCEPT !.live = w] =
           [live |-> w, size |-> a, block |-> b]
OBVIOUS

LEMMA ServeRemoveInv ==
    ASSUME ServInv, ~Down, serve_remove
    PROVE  ServInv'
<1>1. /\ ServerTypes /\ srv.pc = "serve" /\ srv.req.op = "remove"
      /\ UNCHANGED <<opentab, page, fds, win, cli, opened, full>>
  BY DEF ServInv, serve_remove
<1>2. PICK f \in File : f = srv.req.name
  BY <1>1, ServedFacts DEF ByName
<1>3. CASE file[f].live
  <2>1. /\ file' = [file_truncate(f, 0) EXCEPT ![f].live = FALSE] /\ cut' = TRUE
        /\ Answer(0, 0) /\ 0 \in Nat /\ 0 \in Sizes
    BY <1>2, <1>3, ServAssumption DEF serve_remove, Sizes
  <2>2. PICK b \in [Page -> Nat] :
          file_truncate(f, 0) = [file EXCEPT ![f] = [live |-> file[f].live, size |-> 0, block |-> b]]
    BY <1>1, <2>1, TruncateIs
  <2> DEFINE y == [live |-> file[f].live, size |-> 0, block |-> b]
             z == [live |-> FALSE, size |-> 0, block |-> b]
  <2>3. z \in [live : BOOLEAN, size : Sizes, block : [Page -> Nat]]
    BY <2>1
  <2>4. [y EXCEPT !.live = FALSE] = z
    BY SetLive
  <2>5. file' = [[file EXCEPT ![f] = y] EXCEPT ![f].live = FALSE]
    BY <2>1, <2>2
  <2> HIDE DEF y, z
  <2>6. file' = [file EXCEPT ![f] = z]
    BY <1>1, <2>4, <2>5 DEF ServerTypes
  <2>7. srv.req.op \notin {"open", "close", "map"} /\ cut'
    BY <1>1, <2>1
  <2> QED BY <1>1, <2>1, <2>3, <2>6, <2>7, FileServe
<1>4. CASE ~file[f].live
  <2>1. /\ UNCHANGED <<file, cut>>
        /\ srv' = [srv EXCEPT !.pc = "reply", !.r = -1, !.map = 0] /\ -1 \in Int
    BY <1>2, <1>4 DEF serve_remove, Answer
  <2> QED BY <1>1, <2>1, QuietServe
<1> QED BY <1>3, <1>4

-----------------------------------------------------------------------------
(* Messages. *)

LEMMA SendInv ==
    ASSUME ServInv, ~Down, NEW c \in Client, fsipc_send(c)
    PROVE  ServInv'
<1>1. ServerTypes /\ ClientTypes /\ Held /\ Shown /\ Asked
  BY DEF ServInv
<1>2. /\ cli[c].pc = "send" /\ srv.pc = "recv"
      /\ srv' = [pc |-> "serve", whom |-> c, req |-> cli[c].req, r |-> 0, map |-> 0]
      /\ cli' = [cli EXCEPT ![c].pc = "recv"]
      /\ UNCHANGED <<opentab, page, file, fds, win, opened, full, cut>>
  BY DEF fsipc_send, At
<1>3. cli[c] \in CliSet /\ Asks(cli[c], fds[c], win[c], page, cut)
  BY <1>1, <1>2 DEF ClientTypes, Asked, InCall
<1> DEFINE x == [cli[c] EXCEPT !.pc = "recv"]
<1>4. x = [pc |-> "recv", call |-> cli[c].call, req |-> cli[c].req, r |-> cli[c].r]
  BY <1>3 DEF CliSet
<1>5. /\ x \in CliSet /\ x.pc = "recv" /\ x.call = cli[c].call /\ x.req = cli[c].req /\ x.r = cli[c].r
  BY <1>3, <1>4 DEF CliSet
<1>6. cli' = [cli EXCEPT ![c] = x]
  BY <1>2
<1> HIDE DEF x
<1>7. Asks(x, fds[c], win[c], page', cut')
  BY <1>2, <1>3, <1>5 DEF Asks
<1>8. srv' \in SrvSet
  <2>1. cli[c].req \in ReqSet
    BY <1>3 DEF CliSet
  <2> QED BY <1>2, <2>1 DEF SrvSet
<1>9. PICK F \in [Fd -> 0..NSlot], W \in [Fd -> [Page -> Int]], O \in [Fd -> Names] :
        F = fds[c] /\ W = win[c] /\ O = opened[c]
  BY <1>1 DEF ClientTypes
<1>10. /\ fds' = [fds EXCEPT ![c] = F] /\ win' = [win EXCEPT ![c] = W]
       /\ opened' = [opened EXCEPT ![c] = O]
       /\ page' \in [Slot -> [id : Nat, size : Sizes]]
       /\ \A s \in Slot : page'[s].id = page[s].id /\ page[s].size <= page'[s].size
  BY <1>1, <1>2, <1>9, ServAssumption DEF ClientTypes, ServerTypes, Sizes
<1>11. /\ \A n \in Fd : F[n] # 0 => Bound(F[n], O[n])
       /\ cut' \/ \A n \in Fd, i \in Page : W[n][i] > 0 =>
                     /\ F[n] # 0
                     /\ i < page'[F[n]].size
                     /\ file[O[n]].block[i] = W[n][i]
  BY <1>1, <1>2, <1>9 DEF Held, Shown
<1>12. ServerTypes' /\ ClientTypes' /\ IdsNameSlots' /\ Held' /\ Shown' /\ Asked'
  <2>1. Asks(x, F, W, page', cut') /\ UNCHANGED <<opentab, file>> /\ (cut => cut')
    BY <1>2, <1>7, <1>9
  <2> QED BY <1>5, <1>6, <1>8, <1>10, <1>11, <2>1, OneClient
<1>13. Serving' /\ Answering'
  BY <1>1, <1>2, <1>5, <1>6 DEF Serving, Answering, ClientTypes
<1> QED BY <1>12, <1>13 DEF ServInv

LEMMA ReplyInv ==
    ASSUME ServInv, ~Down, reply
    PROVE  ServInv'
<1>1. ServerTypes /\ ClientTypes /\ Held /\ Shown /\ Asked /\ Serving /\ Answering
  BY DEF ServInv
<1>2. PICK c \in Client : c = srv.whom
  BY <1>1 DEF ServerTypes, SrvSet
<1>3. PICK n \in Fd : n = cli[c].call.fd
  BY <1>1 DEF ClientTypes, CliSet, CallSet
<1>4. srv.pc = "reply" /\ cli[c].pc = "recv" /\ cli[c].req = srv.req
  <2>1. srv.pc = "reply"
    BY <1>1 DEF reply, ServerTypes, SrvSet
  <2> QED BY <1>1, <1>2, <2>1 DEF Serving
<1>5. srv.req \in ReqSet /\ srv.r \in Int /\ srv.map \in Nat
  BY <1>1 DEF ServerTypes, SrvSet
<1> DEFINE x == [pc |-> "got", call |-> cli[c].call, req |-> cli[c].req, r |-> srv.r]
           toFd == srv.map # 0 /\ srv.req.op = "open"
           toWin == srv.map # 0 /\ srv.req.op = "map"
           F == IF toFd THEN [fds[c] EXCEPT ![n] = srv.map] ELSE fds[c]
           O == IF toFd THEN [opened[c] EXCEPT ![n] = srv.req.name] ELSE opened[c]
           W == IF toWin THEN [win[c] EXCEPT ![n][srv.req.i] = srv.map] ELSE win[c]
<1>6. cli[c] \in CliSet /\ Asks(cli[c], fds[c], win[c], page, cut)
  BY <1>1, <1>4 DEF ClientTypes, Asked, InCall
<1>7. /\ x \in CliSet /\ x.pc = "got" /\ x.call = cli[c].call /\ x.req = srv.req /\ x.r = srv.r
  BY <1>4, <1>5, <1>6 DEF CliSet
<1>8. /\ cli' = [cli EXCEPT ![c] = x]
      /\ UNCHANGED <<opentab, page, file, full, cut>>
      /\ srv' = [srv EXCEPT !.pc = "recv"]
  <2>1. cli' = [cli EXCEPT ![c] = x]
    BY <1>2 DEF reply, Deliver
  <2>2. srv' = [srv EXCEPT !.pc = "recv"]
    BY <1>4 DEF reply
  <2> QED BY <2>1, <2>2 DEF reply
<1>9. /\ fds' = [fds EXCEPT ![c] = F] /\ opened' = [opened EXCEPT ![c] = O]
  <2>1. CASE toFd
    BY <1>2, <1>3, <2>1 DEF reply
  <2>2. CASE ~toFd
    BY <1>1, <2>2 DEF reply, ClientTypes
  <2> QED BY <2>1, <2>2
<1>10. win' = [win EXCEPT ![c] = W]
  <2>1. CASE toWin
    BY <1>2, <1>3, <2>1 DEF reply
  <2>2. CASE ~toWin
    BY <1>1, <2>2 DEF reply, ClientTypes
  <2> QED BY <2>1, <2>2
<1>11. toFd => srv.map \in Slot /\ Bound(srv.map, srv.req.name) /\ srv.req.name \in File
  BY <1>1, <1>4 DEF Answering, Bound
<1>12. F \in [Fd -> 0..NSlot] /\ O \in [Fd -> Names]
  <2>1. fds[c] \in [Fd -> 0..NSlot] /\ opened[c] \in [Fd -> Names]
    BY <1>1 DEF ClientTypes
  <2>2. toFd => srv.map \in 0..NSlot /\ srv.req.name \in Names
    BY <1>11, ServAssumption DEF Slot, Names
  <2> QED BY <2>1, <2>2
<1>13. W \in [Fd -> [Page -> Int]]
  <2>1. PICK w \in [Fd -> [Page -> Int]] : w = win[c]
    BY <1>1 DEF ClientTypes
  <2>2. PICK i \in Nat : i = srv.req.i
    BY <1>5 DEF ReqSet
  <2>3. [w[n] EXCEPT ![i] = srv.map] \in [Page -> Int]
    <3>1. w[n] \in [Page -> Int] /\ srv.map \in Int
      BY <1>5
    <3> QED BY <3>1
  <2>4. [w EXCEPT ![n][i] = srv.map] \in [Fd -> [Page -> Int]]
    BY <2>3
  <2> QED BY <2>1, <2>2, <2>4
<1>14. srv' \in SrvSet /\ srv'.pc = "recv"
  <2>1. srv' = [pc |-> "recv", whom |-> srv.whom, req |-> srv.req, r |-> srv.r, map |-> srv.map]
    BY <1>1, <1>8 DEF ServerTypes, SrvSet
  <2> QED BY <1>1, <2>1 DEF ServerTypes, SrvSet
<1>15. /\ page' \in [Slot -> [id : Nat, size : Sizes]]
       /\ \A s \in Slot : page'[s].id = page[s].id /\ page[s].size <= page'[s].size
  BY <1>1, <1>8, ServAssumption DEF ServerTypes, Sizes
<1>16. fds[c][n] = 0 \/ ~toFd
  BY <1>3, <1>4, <1>6 DEF Asks
<1>17. \A m \in Fd : F[m] # 0 => Bound(F[m], O[m])
  BY <1>1, <1>11 DEF Held, ClientTypes
<1>18. cut' \/ \A m \in Fd, i \in Page : W[m][i] > 0 =>
                 /\ F[m] # 0
                 /\ i < page'[F[m]].size
                 /\ file[O[m]].block[i] = W[m][i]
  <2> SUFFICES ASSUME ~cut, NEW m \in Fd, NEW i \in Page, W[m][i] > 0
               PROVE  F[m] # 0 /\ i < page[F[m]].size /\ file[O[m]].block[i] = W[m][i]
    BY <1>8
  <2>1. CASE win[c][m][i] > 0 /\ win[c][m][i] = W[m][i]
    <3>1. fds[c][m] # 0 /\ i < page[fds[c][m]].size /\ file[opened[c][m]].block[i] = win[c][m][i]
      BY <1>1, <2>1 DEF Shown
    <3>2. F[m] = fds[c][m] /\ O[m] = opened[c][m]
      BY <1>1, <1>16, <3>1 DEF ClientTypes
    <3> HIDE DEF F, O, W
    <3> QED BY <2>1, <3>1, <3>2
  <2>2. CASE toWin /\ m = n /\ i = srv.req.i
    <3>1. F = fds[c] /\ O = opened[c] /\ W[m][i] = srv.map
      BY <1>1, <2>2 DEF ClientTypes
    <3>2. file[opened[c][m]].block[i] = srv.map
      BY <1>1, <1>2, <1>3, <1>4, <2>2 DEF Answering
    <3>3. fds[c][m] # 0 /\ i < cli[c].call.size /\ cli[c].call.size <= page[fds[c][m]].size
      BY <1>3, <1>4, <1>6, <2>2 DEF Asks, ById
    <3>4. fds[c][m] \in Slot /\ cli[c].call \in CallSet
      BY <1>1, <1>6, <3>3, ServAssumption DEF ClientTypes, Slot, CliSet
    <3>5. i \in Int /\ cli[c].call.size \in Int /\ page[fds[c][m]].size \in Int
      BY <1>1, <3>4, ServAssumption DEF ServerTypes, CallSet, Sizes, Page
    <3>6. i < page[fds[c][m]].size
      BY <3>3, <3>5
    <3> HIDE DEF F, O, W
    <3> QED BY <3>1, <3>2, <3>3, <3>6
  <2> QED BY <1>1, <2>1, <2>2 DEF ClientTypes
<1>19. Asks(x, F, W, page', cut')
  <2>1. CASE toFd
    <3>1. F[n] # 0 /\ srv.req.op = "open"
      BY <1>1, <2>1 DEF ClientTypes
    <3> HIDE DEF F, W, x
    <3> QED BY <1>3, <1>4, <1>6, <1>7, <3>1 DEF Asks, ById, Calls
  <2>2. CASE ~toFd
    <3>1. F = fds[c]
      BY <2>2
    <3>2. srv.req.op = "open" => srv.r # 0
      BY <1>1, <1>4, <2>2 DEF Answering
    <3>3. srv.req.op = "close" => srv.r = 0
      BY <1>1, <1>4 DEF Answering
    <3>4. srv.req.op \in {"dirty", "close"} => W = win[c]
      OBVIOUS
    <3> HIDE DEF F, W, x
    <3> QED BY <1>4, <1>6, <1>7, <1>8, <3>1, <3>2, <3>3, <3>4 DEF Asks
  <2> QED BY <2>1, <2>2
<1> HIDE DEF F, O, W, x
<1>20. ServerTypes' /\ ClientTypes' /\ IdsNameSlots' /\ Held' /\ Shown' /\ Asked'
  BY <1>7, <1>8, <1>9, <1>10, <1>12, <1>13, <1>14, <1>15, <1>17, <1>18, <1>19, OneClient
<1>21. Serving' /\ Answering'
  BY <1>14 DEF Serving, Answering
<1> QED BY <1>20, <1>21 DEF ServInv

-----------------------------------------------------------------------------
(* The library: steps of one client between two of its messages. *)

(* What a client's descriptors F, windows W and ghosts O must satisfy. *)
Fits(F, W, O) ==
    /\ \A n \in Fd : F[n] # 0 => Bound(F[n], O[n])
    /\ cut \/ \A n \in Fd, i \in Page : W[n][i] > 0 =>
                /\ F[n] # 0
                /\ i < page[F[n]].size
                /\ file[O[n]].block[i] = W[n][i]

LEMMA FitsNow ==
    ASSUME ServInv, ~Down, NEW c \in Client
    PROVE  /\ fds[c] \in [Fd -> 0..NSlot] /\ win[c] \in [Fd -> [Page -> Int]]
           /\ opened[c] \in [Fd -> Names] /\ cli[c] \in CliSet /\ cli[c].call \in CallSet
           /\ Fits(fds[c], win[c], opened[c])
           /\ \A n \in Fd : fds[c][n] # 0 =>
                /\ fds[c][n] \in Slot
                /\ page[fds[c][n]] \in [id : Nat, size : Sizes]
<1>1. ServerTypes /\ ClientTypes /\ Held /\ Shown
  BY DEF ServInv
<1>2. \A n \in Fd : fds[c][n] # 0 => fds[c][n] \in Slot
  BY <1>1, ServAssumption DEF ClientTypes, Slot
<1>3. cli[c].call \in CallSet
  BY <1>1 DEF ClientTypes, CliSet
<1>4. Fits(fds[c], win[c], opened[c])
  BY <1>1 DEF Fits, Held, Shown
<1> QED BY <1>1, <1>2, <1>3, <1>4 DEF ClientTypes, ServerTypes

LEMMA OwnStep ==
    ASSUME ServInv, ~Down, NEW c \in Client, cli[c].pc # "recv",
           NEW x \in CliSet, NEW F \in [Fd -> 0..NSlot],
           NEW W \in [Fd -> [Page -> Int]], NEW O \in [Fd -> Names],
           cli' = [cli EXCEPT ![c] = x], fds' = [fds EXCEPT ![c] = F],
           win' = [win EXCEPT ![c] = W], opened' = [opened EXCEPT ![c] = O],
           UNCHANGED <<opentab, page, file, srv, full, cut>>,
           x.pc \in InCall => Asks(x, F, W, page, cut),
           Fits(F, W, O)
    PROVE  ServInv'
<1>1. ServerTypes
  BY DEF ServInv
<1>2. /\ page' \in [Slot -> [id : Nat, size : Sizes]]
      /\ \A s \in Slot : page'[s].id = page[s].id /\ page[s].size <= page'[s].size
  BY <1>1, ServAssumption DEF ServerTypes, Sizes
<1>3. /\ x.pc \in InCall => Asks(x, F, W, page', cut')
      /\ UNCHANGED <<opentab, file, srv, full>> /\ (cut => cut')
  OBVIOUS
<1>4. /\ \A n \in Fd : F[n] # 0 => Bound(F[n], O[n])
      /\ cut' \/ \A n \in Fd, i \in Page : W[n][i] > 0 =>
                   /\ F[n] # 0
                   /\ i < page'[F[n]].size
                   /\ file[O[n]].block[i] = W[n][i]
  BY DEF Fits
<1> QED BY <1>2, <1>3, <1>4, ClientStep

(* The same when only the call changes. *)
LEMMA CallStep ==
    ASSUME ServInv, ~Down, NEW c \in Client, cli[c].pc # "recv",
           NEW x \in CliSet, cli' = [cli EXCEPT ![c] = x],
           UNCHANGED <<opentab, page, file, fds, win, srv, opened, full, cut>>,
           x.pc \in InCall => Asks(x, fds[c], win[c], page, cut)
    PROVE  ServInv'
<1>1. PICK F \in [Fd -> 0..NSlot], W \in [Fd -> [Page -> Int]], O \in [Fd -> Names] :
        F = fds[c] /\ W = win[c] /\ O = opened[c] /\ Fits(F, W, O)
  BY FitsNow
<1>2. ClientTypes
  BY DEF ServInv
<1>3. fds' = [fds EXCEPT ![c] = F] /\ win' = [win EXCEPT ![c] = W] /\ opened' = [opened EXCEPT ![c] = O]
  BY <1>1, <1>2 DEF ClientTypes
<1>4. x.pc \in InCall => Asks(x, F, W, page, cut)
  BY <1>1
<1> QED BY <1>1, <1>3, <1>4, OwnStep

LEMMA Zeros == 0 \in Sizes /\ 0 \in Fd /\ 0 \in Nat /\ NoFile \in Names
BY ServAssumption DEF Sizes, Fd, Names

LEMMA IdleIs == Idle \in CliSet /\ Idle.pc = "idle"
<1>1. NoCall \in CallSet
  BY Zeros DEF NoCall, CallSet
<1>2. NoReq \in ReqSet
  BY Zeros DEF NoReq, ReqSet
<1> QED BY <1>1, <1>2 DEF Idle, CliSet

Sent(x, k, op, i) ==
    /\ x.pc = "send" /\ x.call = k /\ x.req.op = op /\ x.req.id = k.id
    /\ x.req.i = i /\ x.req.name = k.name

LEMMA AskIs ==
    ASSUME NEW c, NEW k \in CallSet, NEW i \in Nat,
           NEW op \in Ops,
           Ask(c, k, op, i)
    PROVE  \E x \in CliSet : cli' = [cli EXCEPT ![c] = x] /\ Sent(x, k, op, i)
<1> DEFINE q == [op |-> op, id |-> k.id, i |-> i, name |-> k.name]
           x == [pc |-> "send", call |-> k, r |-> 0, req |-> q]
<1>1. q \in ReqSet /\ q.op = op /\ q.id = k.id /\ q.i = i /\ q.name = k.name
  BY DEF CallSet, ReqSet, Ops
<1>2. cli' = [cli EXCEPT ![c] = x]
  BY DEF Ask
<1> HIDE DEF q
<1>3. x \in CliSet /\ x.pc = "send" /\ x.call = k /\ x.req = q
  BY <1>1 DEF CliSet
<1> QED BY <1>1, <1>2, <1>3 DEF Sent

LEMMA ReturnInv ==
    ASSUME ServInv, ~Down, NEW c \in Client, cli[c].pc # "recv", Return(c),
           UNCHANGED <<opentab, page, file, fds, win, srv, opened, full, cut>>
    PROVE  ServInv'
<1>1. cli' = [cli EXCEPT ![c] = Idle] /\ Idle.pc \notin InCall
  BY IdleIs DEF Return, InCall
<1> QED BY <1>1, IdleIs, CallStep

(* A request without a descriptor. *)
LEMMA SimpleInv ==
    ASSUME ServInv, ~Down, NEW c \in Client, NEW op \in {"remove", "sync", "debug", "tree", "unknown"},
           NEW f \in Names, op \in {"remove", "debug"} => f \in File,
           simple(c, op, f)
    PROVE  ServInv'
<1> DEFINE k == [NoCall EXCEPT !.op = "simple", !.name = f]
<1>2. k \in CallSet /\ k.op = "simple" /\ k.name = f
  BY Zeros DEF NoCall, CallSet
<1>3. Ask(c, k, op, 0) /\ cli[c].pc = "idle"
      /\ UNCHANGED <<opentab, page, file, fds, win, srv, opened, full, cut>>
  BY DEF simple, Begin, At
<1> HIDE DEF k
<1>4. PICK x \in CliSet : cli' = [cli EXCEPT ![c] = x] /\ Sent(x, k, op, 0)
  <2>1. op \in Ops
    BY DEF Ops
  <2> QED BY <1>2, <1>3, <2>1, AskIs, Zeros
<1>5. Asks(x, fds[c], win[c], page, cut)
  BY <1>2, <1>4 DEF Sent, Asks, Calls, ByName, ById
<1> QED BY <1>3, <1>4, <1>5, CallStep

LEMMA OpenInv ==
    ASSUME ServInv, ~Down, NEW c \in Client, NEW f \in File, open(c, f)
    PROVE  ServInv'
<1>1. PICK n \in Fd : n = Min(fd_alloc(c)) /\ fds[c][n] = 0
  <2>1. fd_alloc(c) # {} /\ fd_alloc(c) \subseteq Nat
    BY ServAssumption DEF open, fd_alloc
  <2>2. Min(fd_alloc(c)) \in fd_alloc(c)
    BY <2>1, MinIsIn
  <2>3. 0..(MAXFD - 2) \subseteq Fd
    BY ServAssumption DEF Fd
  <2> QED BY <2>2, <2>3 DEF fd_alloc
<1> DEFINE k == [NoCall EXCEPT !.op = "open", !.fd = n, !.name = f]
<1>2. k \in CallSet /\ k.op = "open" /\ k.fd = n /\ k.name = f
  BY Zeros DEF NoCall, CallSet, Names
<1>3. Ask(c, k, "open", 0) /\ cli[c].pc = "idle"
      /\ UNCHANGED <<opentab, page, file, fds, win, srv, opened, full, cut>>
  BY <1>1 DEF open, Begin, At
<1> HIDE DEF k
<1>4. PICK x \in CliSet : cli' = [cli EXCEPT ![c] = x] /\ Sent(x, k, "open", 0)
  <2>1. "open" \in Ops
    BY DEF Ops
  <2> QED BY <1>2, <1>3, <2>1, AskIs, Zeros
<1>5. Asks(x, fds[c], win[c], page, cut)
  BY <1>1, <1>2, <1>4 DEF Sent, Asks, Calls, ByName, ById
<1> QED BY <1>3, <1>4, <1>5, CallStep

(* A client that got its answer: its locals are still right. *)
LEMMA ResumeFacts ==
    ASSUME ServInv, ~Down, NEW c \in Client, cli[c].pc = "got"
    PROVE  Asks(cli[c], fds[c], win[c], page, cut)
BY DEF ServInv, Asked, InCall

LEMMA NextPage ==
    ASSUME NEW k \in CallSet
    PROVE  LET l == [k EXCEPT !.i = @ + 1]
           IN  /\ l \in CallSet /\ l.op = k.op /\ l.fd = k.fd /\ l.id = k.id
               /\ l.size = k.size /\ l.name = k.name
BY DEF CallSet

(* A request for a page of the file that descriptor call.fd names. *)
LEMMA MapAsks ==
    ASSUME ServInv, ~Down, NEW c \in Client, cli[c].pc # "recv",
           NEW k \in CallSet, k.op \in {"open", "ftruncate"},
           fds[c][k.fd] # 0, k.id = page[fds[c][k.fd]].id, k.i < k.size,
           cut \/ k.size <= page[fds[c][k.fd]].size,
           Ask(c, [k EXCEPT !.i = @ + 1], "map", k.i),
           UNCHANGED <<opentab, page, file, fds, win, srv, opened, full, cut>>
    PROVE  ServInv'
<1> DEFINE l == [k EXCEPT !.i = @ + 1]
<1>1. /\ l \in CallSet /\ l.op = k.op /\ l.fd = k.fd /\ l.id = k.id /\ l.size = k.size
  BY NextPage
<1>2. PICK i \in Nat, op \in Ops : i = k.i /\ op = "map" /\ Ask(c, l, op, i)
  BY DEF CallSet, Ops
<1> HIDE DEF l
<1>3. PICK x \in CliSet : cli' = [cli EXCEPT ![c] = x] /\ Sent(x, l, op, i)
  BY <1>1, <1>2, AskIs
<1>4. Asks(x, fds[c], win[c], page, cut)
  BY <1>1, <1>2, <1>3 DEF Sent, Asks, Calls, ByName, ById
<1> QED BY <1>3, <1>4, CallStep

LEMMA OpenMapInv ==
    ASSUME ServInv, ~Down, NEW c \in Client, open_map(c)
    PROVE  ServInv'
<1>1. cli[c].pc = "got" /\ cli[c].call.op = "open"
  BY DEF open_map, Resume, At
<1>2. PICK k \in CallSet : k = cli[c].call
  BY FitsNow
<1>3. k.fd \in Fd
  BY DEF CallSet
<1>4. Asks(cli[c], fds[c], win[c], page, cut)
  BY <1>1, ResumeFacts
<1>5. cli[c].r = 0 => fds[c][k.fd] # 0
  BY <1>1, <1>2, <1>4 DEF Asks, Calls, ById
<1>6. UNCHANGED <<opentab, page, file, fds, win, srv, opened, full, cut>>
  BY <1>2, <1>5 DEF open_map
<1> DEFINE first == cli[c].req.op = "open"
           s == fds[c][k.fd]
           l == IF first /\ cli[c].r = 0 /\ s # 0
                THEN [k EXCEPT !.id = page[s].id, !.size = page[s].size] ELSE k
<1>7. IF cli[c].r = 0 /\ l.i < l.size
      THEN Ask(c, [l EXCEPT !.i = @ + 1], "map", l.i) ELSE Return(c)
  BY <1>2 DEF open_map
<1>8. CASE ~(cli[c].r = 0 /\ l.i < l.size)
  <2>1. Return(c)
    BY <1>7, <1>8
  <2> QED BY <1>1, <1>6, <2>1, ReturnInv
<1>9. CASE cli[c].r = 0 /\ l.i < l.size
  <2>1. Ask(c, [l EXCEPT !.i = @ + 1], "map", l.i)
    BY <1>7, <1>9
  <2>3. s # 0
    BY <1>5, <1>9
  <2>4. page[s] \in [id : Nat, size : Sizes]
    BY <1>3, <2>3, FitsNow
  <2>5. /\ l \in CallSet /\ l.op = "open" /\ l.fd = k.fd /\ l.id = page[s].id
        /\ cut \/ l.size <= page[s].size
    <3>1. CASE first
      <4>1. l = [k EXCEPT !.id = page[s].id, !.size = page[s].size]
        BY <1>9, <2>3, <3>1
      <4>2. /\ l \in CallSet /\ l.op = k.op /\ l.fd = k.fd /\ l.id = page[s].id
            /\ l.size = page[s].size
        BY <2>4, <4>1 DEF CallSet
      <4>3. page[s].size <= page[s].size
        BY <2>4, ServAssumption DEF Sizes
      <4> QED BY <1>1, <1>2, <4>2, <4>3
    <3>2. CASE ~first
      <4>1. l = k /\ cli[c].req.op = "map"
        BY <1>1, <1>4, <3>2 DEF Asks, Calls
      <4> QED BY <1>1, <1>2, <1>4, <4>1 DEF Asks, ById
    <3> QED BY <3>1, <3>2
  <2>6. fds[c][l.fd] = s
    BY <2>5
  <2>7. l.i < l.size
    BY <1>9
  <2> HIDE DEF l, s
  <2> QED BY <1>1, <1>6, <2>1, <2>3, <2>5, <2>6, <2>7, MapAsks
<1> QED BY <1>8, <1>9

(* The first request of file_close on descriptor n; F and W are what the   *)
(* client has once the step is done.                                       *)
LEMMA CloseAsks ==
    ASSUME ServInv, ~Down, NEW c \in Client, NEW n \in Fd,
           NEW then \in {"return", "dup", "exit"}, NEW from \in Fd,
           fds[c][n] # 0, CloseCall(c, n, then, from),
           NEW F, NEW W, F[n] = fds[c][n],
           cut \/ \A i \in Page : W[n][i] > 0 => i < page[fds[c][n]].size
    PROVE  \E x \in CliSet : cli' = [cli EXCEPT ![c] = x] /\ Asks(x, F, W, page, cut)
<1>1. PICK p \in [id : Nat, size : Sizes] : p = page[fds[c][n]]
  BY FitsNow
<1> DEFINE k == [NoCall EXCEPT !.op = "close", !.fd = n, !.id = p.id, !.size = p.size,
                               !.then = then, !.from = from]
           l == [k EXCEPT !.i = 1]
<1>2. /\ k \in CallSet /\ k.op = "close" /\ k.fd = n /\ k.id = p.id /\ k.size = p.size
  BY Zeros DEF NoCall, CallSet
<1>3. Ask(c, l, "dirty", 0) \/ Ask(c, k, "close", 0)
  BY <1>1 DEF CloseCall
<1> HIDE DEF k
<1>4. /\ l \in CallSet /\ l.op = "close" /\ l.fd = n /\ l.id = p.id /\ l.size = p.size
  BY <1>2 DEF CallSet
<1> HIDE DEF l
<1>5. PICK x \in CliSet, m \in {k, l} :
        /\ cli' = [cli EXCEPT ![c] = x]
        /\ \E i \in Nat, op \in {"dirty", "close"} : Sent(x, m, op, i)
  <2>1. "dirty" \in Ops /\ "close" \in Ops /\ 0 \in Nat
    BY DEF Ops
  <2>2. CASE Ask(c, l, "dirty", 0)
    <3>1. PICK x \in CliSet : cli' = [cli EXCEPT ![c] = x] /\ Sent(x, l, "dirty", 0)
      BY <1>4, <2>1, <2>2, AskIs
    <3> QED BY <2>1, <3>1
  <2>3. CASE Ask(c, k, "close", 0)
    <3>1. PICK x \in CliSet : cli' = [cli EXCEPT ![c] = x] /\ Sent(x, k, "close", 0)
      BY <1>2, <2>1, <2>3, AskIs
    <3> QED BY <2>1, <3>1
  <2> QED BY <1>3, <2>2, <2>3
<1>6. m.op = "close" /\ m.fd = n /\ m.id = p.id /\ m.size = p.size
  BY <1>2, <1>4
<1>7. Asks(x, F, W, page, cut)
  BY <1>1, <1>5, <1>6 DEF Sent, Asks, Calls, ByName, ById
<1> QED BY <1>5, <1>7

LEMMA CloseInv ==
    ASSUME ServInv, ~Down, NEW c \in Client, NEW n \in Fd, close(c, n)
    PROVE  ServInv'
<1>1. /\ cli[c].pc = "idle" /\ fds[c][n] # 0 /\ CloseCall(c, n, "return", 0)
      /\ UNCHANGED <<opentab, page, file, fds, win, srv, opened, full, cut>>
  BY OpenIsFile DEF close, Begin, At
<1>2. cut \/ \A i \in Page : win[c][n][i] > 0 => i < page[fds[c][n]].size
  BY FitsNow DEF Fits
<1>3. PICK x \in CliSet : cli' = [cli EXCEPT ![c] = x] /\ Asks(x, fds[c], win[c], page, cut)
  BY <1>1, <1>2, Zeros, CloseAsks
<1> QED BY <1>1, <1>3, CallStep

LEMMA CloseDirtyInv ==
    ASSUME ServInv, ~Down, NEW c \in Client, close_dirty(c)
    PROVE  ServInv'
<1>1. /\ cli[c].pc = "got" /\ cli[c].call.op = "close" /\ cli[c].req.op = "dirty"
      /\ UNCHANGED <<opentab, page, file, fds, win, srv, opened, full, cut>>
  BY DEF close_dirty, Resume, At
<1>2. PICK k \in CallSet : k = cli[c].call
  BY FitsNow
<1>3. Asks(cli[c], fds[c], win[c], page, cut)
  BY <1>1, ResumeFacts
<1> DEFINE l == [k EXCEPT !.i = @ + 1]
<1>4. Ask(c, l, "dirty", k.i) \/ Ask(c, k, "close", 0)
  BY <1>2 DEF close_dirty
<1>5. l \in CallSet /\ l.op = k.op /\ l.fd = k.fd /\ l.id = k.id /\ l.size = k.size /\ k.i \in Nat
  BY NextPage DEF CallSet
<1> HIDE DEF l
<1>6. PICK x \in CliSet, m \in {k, l} :
        /\ cli' = [cli EXCEPT ![c] = x]
        /\ \E i \in Nat, op \in {"dirty", "close"} : Sent(x, m, op, i)
  <2>1. "dirty" \in Ops /\ "close" \in Ops /\ 0 \in Nat
    BY DEF Ops
  <2>2. CASE Ask(c, l, "dirty", k.i)
    <3>1. PICK x \in CliSet : cli' = [cli EXCEPT ![c] = x] /\ Sent(x, l, "dirty", k.i)
      BY <1>5, <2>1, <2>2, AskIs
    <3> QED BY <1>5, <3>1
  <2>3. CASE Ask(c, k, "close", 0)
    <3>1. PICK x \in CliSet : cli' = [cli EXCEPT ![c] = x] /\ Sent(x, k, "close", 0)
      BY <2>1, <2>3, AskIs
    <3> QED BY <2>1, <3>1
  <2> QED BY <1>4, <2>2, <2>3
<1>7. m.op = k.op /\ m.fd = k.fd /\ m.id = k.id /\ m.size = k.size
  BY <1>5
<1>8. Asks(x, fds[c], win[c], page, cut)
  BY <1>1, <1>2, <1>3, <1>6, <1>7 DEF Sent, Asks, Calls, ByName, ById
<1> QED BY <1>1, <1>6, <1>8, CallStep

LEMMA DupInv ==
    ASSUME ServInv, ~Down, NEW c \in Client, cli[c].pc # "recv", NEW o \in Fd, NEW n \in Fd,
           NEW F \in [Fd -> 0..NSlot], NEW W \in [Fd -> [Page -> Int]],
           Fits(F, W, opened[c]), F[n] = 0,
           Dup(c, o, n, F, W),
           NEW x \in CliSet, cli' = [cli EXCEPT ![c] = x], x.pc \notin InCall,
           UNCHANGED <<opentab, page, file, srv, full, cut>>
    PROVE  ServInv'
<1>1. ClientTypes
  BY DEF ServInv
<1>2. PICK O \in [Fd -> Names] : O = opened[c]
  BY <1>1 DEF ClientTypes
<1> DEFINE v == [i \in Page |-> IF W[o][i] # 0 THEN W[o][i] ELSE W[n][i]]
           F1 == [F EXCEPT ![n] = F[o]]
           W1 == [W EXCEPT ![n] = v]
           O1 == [O EXCEPT ![n] = O[o]]
           F2 == [F EXCEPT ![n] = 0]
           W2 == [W EXCEPT ![n] = [i \in Page |-> 0]]
<1>3. CASE /\ F[o] # 0 /\ fds' = [fds EXCEPT ![c] = F1]
           /\ win' = [win EXCEPT ![c] = W1]
           /\ opened' = [opened EXCEPT ![c][n] = opened[c][o]]
  <2>1. v \in [Page -> Int]
    OBVIOUS
  <2>2. F1 \in [Fd -> 0..NSlot] /\ W1 \in [Fd -> [Page -> Int]] /\ O1 \in [Fd -> Names]
    BY <2>1
  <2>3. opened' = [opened EXCEPT ![c] = O1]
    BY <1>2, <1>3
  <2>4. Fits(F1, W1, O1)
    <3>1. \A m \in Fd : F1[m] # 0 => Bound(F1[m], O1[m])
      BY <1>2, <1>3 DEF Fits
    <3>2. ASSUME ~cut, NEW m \in Fd, NEW i \in Page, W1[m][i] > 0
          PROVE  F1[m] # 0 /\ i < page[F1[m]].size /\ file[O1[m]].block[i] = W1[m][i]
      <4>1. CASE m # n
        <5>1. F1[m] = F[m] /\ W1[m] = W[m] /\ O1[m] = O[m]
          BY <4>1
        <5> HIDE DEF F1, W1, O1
        <5> QED BY <1>2, <3>2, <5>1 DEF Fits
      <4>2. CASE m = n
        <5>1. F1[m] = F[o] /\ W1[m] = v /\ O1[m] = O[o]
          BY <4>2
        <5>2. ~(W[n][i] > 0)
          BY <3>2 DEF Fits
        <5>3. v[i] = W[o][i] /\ W[o][i] > 0
          BY <3>2, <5>1, <5>2
        <5> HIDE DEF F1, W1, O1, v
        <5> QED BY <1>2, <3>2, <5>1, <5>3 DEF Fits
      <4> QED BY <4>1, <4>2
    <3> HIDE DEF F1, W1, O1
    <3> QED BY <3>1, <3>2 DEF Fits
  <2> HIDE DEF F1, W1, O1
  <2> QED BY <1>3, <2>2, <2>3, <2>4, OwnStep
<1>4. CASE /\ fds' = [fds EXCEPT ![c] = F2]
           /\ win' = [win EXCEPT ![c] = W2]
           /\ UNCHANGED opened
  <2>1. F2 = F
    OBVIOUS
  <2>2. W2 \in [Fd -> [Page -> Int]]
    OBVIOUS
  <2>3. opened' = [opened EXCEPT ![c] = O]
    BY <1>1, <1>2, <1>4 DEF ClientTypes
  <2>4. Fits(F, W2, O)
    <3>1. ASSUME ~cut, NEW m \in Fd, NEW i \in Page, W2[m][i] > 0
          PROVE  F[m] # 0 /\ i < page[F[m]].size /\ file[O[m]].block[i] = W2[m][i]
      <4>1. W2[m][i] = W[m][i]
        BY <3>1
      <4> HIDE DEF W2
      <4> QED BY <1>2, <3>1, <4>1 DEF Fits
    <3> HIDE DEF W2
    <3> QED BY <1>2, <3>1 DEF Fits
  <2> HIDE DEF F2, W2
  <2> QED BY <1>4, <2>1, <2>2, <2>3, <2>4, OwnStep
<1> QED BY <1>2, <1>3, <1>4 DEF Dup

LEMMA ExitNextInv ==
    ASSUME ServInv, ~Down, NEW c \in Client, cli[c].pc # "recv",
           NEW F \in [Fd -> 0..NSlot], NEW W \in [Fd -> [Page -> Int]],
           Fits(F, W, opened[c]), \A n \in Fd : F[n] # 0 => F[n] = fds[c][n],
           ExitNext(c, F, W),
           UNCHANGED <<opentab, page, file, srv, opened, full, cut>>
    PROVE  ServInv'
<1>1. ClientTypes
  BY DEF ServInv
<1>2. PICK O \in [Fd -> Names] : O = opened[c] /\ opened' = [opened EXCEPT ![c] = O]
  BY <1>1 DEF ClientTypes
<1> DEFINE left == {n \in Fd : F[n] \in Slot}
<1>3. CASE left = {}
  <2> DEFINE x == [Idle EXCEPT !.pc = "none"]
  <2>1. x \in CliSet /\ x.pc \notin InCall
    BY IdleIs DEF CliSet, InCall
  <2>2. /\ cli' = [cli EXCEPT ![c] = x] /\ fds' = [fds EXCEPT ![c] = F]
        /\ win' = [win EXCEPT ![c] = NoWindow]
    <3>1. F = [n \in Fd |-> 0]
      BY <1>3, ServAssumption DEF Slot
    <3> QED BY <1>3, <3>1 DEF ExitNext
  <2>3. NoWindow \in [Fd -> [Page -> Int]] /\ \A n \in Fd, i \in Page : NoWindow[n][i] = 0
    BY DEF NoWindow
  <2>4. Fits(F, NoWindow, O)
    BY <1>2, <2>3 DEF Fits
  <2> HIDE DEF x
  <2> QED BY <1>2, <2>1, <2>2, <2>3, <2>4, OwnStep
<1>4. CASE left # {}
  <2>1. PICK n \in Fd : n = Min(left) /\ F[n] # 0
    <3>1. left \subseteq Nat
      BY ServAssumption DEF Fd
    <3>2. Min(left) \in left
      BY <1>4, <3>1, MinIsIn
    <3>3. 0 \notin Slot
      BY ServAssumption DEF Slot
    <3> QED BY <3>2, <3>3
  <2>2. /\ CloseCall(c, n, "exit", 0)
        /\ fds' = [fds EXCEPT ![c] = F] /\ win' = [win EXCEPT ![c] = W]
    BY <1>4, <2>1 DEF ExitNext
  <2>3. cut \/ \A i \in Page : W[n][i] > 0 => i < page[fds[c][n]].size
    BY <2>1 DEF Fits
  <2>4. PICK x \in CliSet : cli' = [cli EXCEPT ![c] = x] /\ Asks(x, F, W, page, cut)
    BY <2>1, <2>2, <2>3, Zeros, CloseAsks
  <2> QED BY <1>2, <2>2, <2>4, OwnStep
<1> QED BY <1>3, <1>4

LEMMA ExitInv ==
    ASSUME ServInv, ~Down, NEW c \in Client, exit(c)
    PROVE  ServInv'
<1>1. /\ cli[c].pc = "idle" /\ ExitNext(c, fds[c], win[c])
      /\ UNCHANGED <<opentab, page, file, srv, opened, full, cut>>
  BY DEF exit, Begin, At
<1>2. PICK F \in [Fd -> 0..NSlot], W \in [Fd -> [Page -> Int]] :
        F = fds[c] /\ W = win[c] /\ Fits(F, W, opened[c])
  BY FitsNow
<1> QED BY <1>1, <1>2, ExitNextInv

LEMMA DupCallInv ==
    ASSUME ServInv, ~Down, NEW c \in Client, NEW o \in Fd, NEW n \in Fd, dup(c, o, n)
    PROVE  ServInv'
<1>1. cli[c].pc = "idle" /\ UNCHANGED <<opentab, page, file, srv, full, cut>>
  BY DEF dup, Begin, At
<1>2. CASE fds[c][n] # 0 /\ CloseCall(c, n, "dup", o) /\ UNCHANGED <<fds, win, opened>>
  <2>1. cut \/ \A i \in Page : win[c][n][i] > 0 => i < page[fds[c][n]].size
    BY <1>2, FitsNow DEF Fits
  <2>2. PICK x \in CliSet : cli' = [cli EXCEPT ![c] = x] /\ Asks(x, fds[c], win[c], page, cut)
    BY <1>2, <2>1, CloseAsks
  <2> QED BY <1>1, <1>2, <2>2, CallStep
<1>3. CASE fds[c][n] = 0 /\ Dup(c, o, n, fds[c], win[c]) /\ UNCHANGED cli
  <2>1. PICK F \in [Fd -> 0..NSlot], W \in [Fd -> [Page -> Int]] :
          F = fds[c] /\ W = win[c] /\ Fits(F, W, opened[c])
    BY FitsNow
  <2>2. PICK x \in CliSet : x = cli[c] /\ cli' = [cli EXCEPT ![c] = x] /\ x.pc \notin InCall
    BY <1>1, <1>3, FitsNow DEF InCall, ServInv, ClientTypes
  <2> QED BY <1>1, <1>3, <2>1, <2>2, DupInv
<1> QED BY <1>2, <1>3, OpenIsFile DEF dup

LEMMA CloseEndInv ==
    ASSUME ServInv, ~Down, NEW c \in Client, close_end(c)
    PROVE  ServInv'
<1>1. /\ cli[c].pc = "got" /\ cli[c].call.op = "close" /\ cli[c].req.op = "close"
      /\ UNCHANGED <<opentab, page, file, srv, full, cut>>
  BY DEF close_end, Resume, At
<1>2. PICK k \in CallSet : k = cli[c].call
  BY FitsNow
<1>3. k.fd \in Fd /\ k.from \in Fd /\ k.size \in Sizes
  BY DEF CallSet
<1>4. Asks(cli[c], fds[c], win[c], page, cut)
  BY <1>1, ResumeFacts
<1>5. /\ cli[c].r = 0
      /\ cut \/ \A i \in Page : win[c][k.fd][i] > 0 => i < k.size
  BY <1>1, <1>2, <1>4 DEF Asks
<1> DEFINE v == Unmapped(win[c][k.fd], k.size)
           F == [fds[c] EXCEPT ![k.fd] = 0]
           W == [win[c] EXCEPT ![k.fd] = v]
<1>6. /\ fds[c] \in [Fd -> 0..NSlot] /\ win[c] \in [Fd -> [Page -> Int]]
      /\ opened[c] \in [Fd -> Names] /\ Fits(fds[c], win[c], opened[c])
  BY FitsNow
<1>7. v \in [Page -> Int] /\ \A i \in Page : v[i] = IF i < k.size THEN 0 ELSE win[c][k.fd][i]
  BY <1>3, <1>6 DEF Unmapped
<1>8. F \in [Fd -> 0..NSlot] /\ \A n \in Fd : F[n] = IF n = k.fd THEN 0 ELSE fds[c][n]
  BY <1>3, <1>6, ServAssumption
<1> HIDE DEF v
<1>9. W \in [Fd -> [Page -> Int]] /\ \A n \in Fd : W[n] = IF n = k.fd THEN v ELSE win[c][n]
  BY <1>3, <1>6, <1>7
<1>10. \/ /\ k.then = "return" /\ Return(c)
          /\ fds' = [fds EXCEPT ![c] = F] /\ win' = [win EXCEPT ![c] = W] /\ UNCHANGED opened
       \/ k.then = "dup" /\ Return(c) /\ Dup(c, k.from, k.fd, F, W)
       \/ k.then = "exit" /\ ExitNext(c, F, W) /\ UNCHANGED opened
  BY <1>2, <1>5 DEF close_end, v
<1> HIDE DEF F, W
<1>11. Fits(F, W, opened[c])
  <2>1. \A n \in Fd : F[n] # 0 => Bound(F[n], opened[c][n])
    BY <1>6, <1>8 DEF Fits
  <2>2. ASSUME ~cut, NEW n \in Fd, NEW i \in Page, W[n][i] > 0
        PROVE  F[n] # 0 /\ i < page[F[n]].size /\ file[opened[c][n]].block[i] = W[n][i]
    <3>1. n # k.fd
      BY <1>3, <1>5, <1>7, <1>9, <2>2
    <3>2. F[n] = fds[c][n] /\ W[n] = win[c][n]
      BY <1>8, <1>9, <3>1
    <3> QED BY <1>6, <2>2, <3>2 DEF Fits
  <2> QED BY <2>1, <2>2 DEF Fits
<1>12. Return(c) => cli' = [cli EXCEPT ![c] = Idle] /\ Idle \in CliSet /\ Idle.pc \notin InCall
  BY IdleIs DEF Return, InCall
<1>13. CASE /\ Return(c)
            /\ fds' = [fds EXCEPT ![c] = F] /\ win' = [win EXCEPT ![c] = W] /\ UNCHANGED opened
  <2>1. PICK O \in [Fd -> Names] : O = opened[c] /\ opened' = [opened EXCEPT ![c] = O]
    BY <1>6, <1>13 DEF ServInv, ClientTypes
  <2>2. Fits(F, W, O)
    BY <1>11, <2>1
  <2> QED BY <1>1, <1>8, <1>9, <1>12, <1>13, <2>1, <2>2, OwnStep
<1>14. CASE Return(c) /\ Dup(c, k.from, k.fd, F, W)
  <2>1. F[k.fd] = 0
    BY <1>3, <1>8
  <2>2. PICK o \in Fd, n \in Fd : o = k.from /\ n = k.fd
    BY <1>3
  <2>3. Dup(c, o, n, F, W) /\ F[n] = 0
    BY <1>14, <2>1, <2>2
  <2> QED BY <1>1, <1>8, <1>9, <1>11, <1>12, <1>14, <2>3, DupInv
<1>15. CASE ExitNext(c, F, W) /\ UNCHANGED opened
  <2>1. \A n \in Fd : F[n] # 0 => F[n] = fds[c][n]
    BY <1>8
  <2> QED BY <1>1, <1>8, <1>9, <1>11, <1>15, <2>1, ExitNextInv
<1> QED BY <1>10, <1>13, <1>14, <1>15

(* A page that is touched is either as it was or the client's own. *)
LEMMA TouchIs ==
    ASSUME NEW W \in [Fd -> [Page -> Int]], NEW n \in Fd, NEW i \in Int
    PROVE  /\ Touch(W, n, i) \in [Fd -> [Page -> Int]]
           /\ \A m \in Fd, j \in Page : Touch(W, n, i)[m][j] > 0 => Touch(W, n, i)[m][j] = W[m][j]
<1> DEFINE v == [W[n] EXCEPT ![i] = IF W[n][i] = 0 THEN Private ELSE W[n][i]]
           T == [W EXCEPT ![n] = v]
<1>1. Touch(W, n, i) = T
  BY DEF Touch
<1>2. W[n] \in [Page -> Int] /\ Private \in Int /\ ~(Private > 0)
  BY DEF Private
<1>3. v \in [Page -> Int] /\ \A j \in Page : v[j] > 0 => v[j] = W[n][j]
  BY <1>2
<1> HIDE DEF v
<1>4. T \in [Fd -> [Page -> Int]] /\ \A m \in Fd : T[m] = IF m = n THEN v ELSE W[m]
  BY <1>3
<1>5. \A m \in Fd, j \in Page : T[m][j] > 0 => T[m][j] = W[m][j]
  BY <1>3, <1>4
<1> HIDE DEF T
<1> QED BY <1>1, <1>4, <1>5

(* Unmapping pages and touching them keeps a window right. *)
LEMMA FewerFit ==
    ASSUME NEW F, NEW W, NEW V, NEW O, Fits(F, W, O),
           \A n \in Fd, i \in Page : V[n][i] > 0 => V[n][i] = W[n][i]
    PROVE  Fits(F, V, O)
<1>1. ASSUME ~cut, NEW n \in Fd, NEW i \in Page, V[n][i] > 0
      PROVE  F[n] # 0 /\ i < page[F[n]].size /\ file[O[n]].block[i] = V[n][i]
  BY <1>1 DEF Fits
<1> QED BY <1>1 DEF Fits

(* A step that only takes pages out of the windows of one client. *)
LEMMA WindowStep ==
    ASSUME ServInv, ~Down, NEW c \in Client, cli[c].pc # "recv",
           NEW x \in CliSet, cli' = [cli EXCEPT ![c] = x], x.pc \notin InCall,
           NEW V \in [Fd -> [Page -> Int]], win' = [win EXCEPT ![c] = V],
           \A n \in Fd, i \in Page : V[n][i] > 0 => V[n][i] = win[c][n][i],
           UNCHANGED <<opentab, page, file, fds, srv, opened, full, cut>>
    PROVE  ServInv'
<1>1. PICK F \in [Fd -> 0..NSlot], O \in [Fd -> Names] :
        F = fds[c] /\ O = opened[c] /\ Fits(F, win[c], O)
  BY FitsNow
<1>2. Fits(F, V, O)
  BY <1>1, FewerFit
<1>3. fds' = [fds EXCEPT ![c] = F] /\ opened' = [opened EXCEPT ![c] = O]
  BY <1>1 DEF ServInv, ClientTypes
<1> QED BY <1>1, <1>2, <1>3, OwnStep

Touches(c, n, i) ==
    /\ win' = [win EXCEPT ![c] = Touch(@, n, i)]
    /\ UNCHANGED <<opentab, page, file, fds, cli, srv, opened, full, cut>>

LEMMA TouchInv ==
    ASSUME ServInv, ~Down, NEW c \in Client, cli[c].pc = "idle", NEW n \in Fd, NEW i \in Page,
           Touches(c, n, i)
    PROVE  ServInv'
<1>1. PICK W \in [Fd -> [Page -> Int]], x \in CliSet : W = win[c] /\ x = cli[c]
  BY FitsNow
<1>2. i \in Int
  BY ServAssumption DEF Page
<1> DEFINE V == Touch(W, n, i)
<1>3. V \in [Fd -> [Page -> Int]] /\ \A m \in Fd, j \in Page : V[m][j] > 0 => V[m][j] = W[m][j]
  BY <1>2, TouchIs
<1>4. win' = [win EXCEPT ![c] = V]
  BY <1>1 DEF Touches
<1>5. cli' = [cli EXCEPT ![c] = x] /\ x.pc \notin InCall
  BY <1>1 DEF Touches, ServInv, ClientTypes, InCall
<1> HIDE DEF V
<1>6. \A m \in Fd, j \in Page : V[m][j] > 0 => V[m][j] = win[c][m][j]
  BY <1>1, <1>3
<1>7. /\ cli[c].pc # "recv" /\ V \in [Fd -> [Page -> Int]]
      /\ UNCHANGED <<opentab, page, file, fds, srv, opened, full, cut>>
  BY <1>3 DEF Touches
<1> QED BY <1>4, <1>5, <1>6, <1>7, WindowStep

LEMMA ReadInv ==
    ASSUME ServInv, ~Down, NEW c \in Client, NEW n \in Fd, NEW i \in Page, read(c, n, i)
    PROVE  ServInv'
<1>1. cli[c].pc = "idle" /\ Touches(c, n, i)
  BY DEF read, Begin, At, Touches
<1> QED BY <1>1, TouchInv

LEMMA TruncateInv ==
    ASSUME ServInv, ~Down, NEW c \in Client, cli[c].pc = "idle", NEW n \in Fd,
           NEW size \in Sizes, NEW then \in {"return", "write"}, fds[c][n] # 0,
           Truncate(c, n, size, then),
           UNCHANGED <<opentab, file, fds, win, srv, opened, full>>
    PROVE  ServInv'
<1>1. PICK s \in Slot : s = fds[c][n] /\ s # 0
  BY FitsNow
<1>2. PICK p \in [id : Nat, size : Sizes] : p = page[s]
  BY <1>1, FitsNow
<1>3. page \in [Slot -> [id : Nat, size : Sizes]]
  BY DEF ServInv, ServerTypes
<1>4. p.size \in Nat /\ size \in Nat
  BY ServAssumption DEF Sizes
<1> DEFINE k == [NoCall EXCEPT !.op = "ftruncate", !.fd = n, !.id = p.id, !.i = p.size,
                               !.size = size, !.old = p.size, !.then = then]
<1>5. k \in CallSet /\ k.op = "ftruncate" /\ k.fd = n /\ k.id = p.id /\ k.size = size
  BY <1>4, Zeros DEF NoCall, CallSet
<1>6. /\ page' = [page EXCEPT ![s].size = size]
      /\ cut' = (cut \/ size < p.size)
      /\ Ask(c, k, "set_size", size)
  BY <1>1, <1>2 DEF Truncate
<1> HIDE DEF k
<1>7. PICK x \in CliSet : cli' = [cli EXCEPT ![c] = x] /\ Sent(x, k, "set_size", size)
  <2>1. "set_size" \in Ops
    BY DEF Ops
  <2> QED BY <1>4, <1>5, <1>6, <2>1, AskIs
<1>8. /\ page' \in [Slot -> [id : Nat, size : Sizes]]
      /\ page'[s].id = p.id /\ page'[s].size = size
      /\ \A t \in Slot : t # s => page'[t] = page[t]
  BY <1>2, <1>3, <1>6
<1>9. (cut => cut') /\ (~cut' => p.size <= size /\ ~cut)
  <2>1. size < p.size \/ p.size <= size
    BY <1>4
  <2> QED BY <1>6, <2>1, Zenon
<1>10. \A t \in Slot : page'[t].id = page[t].id /\ (~cut' => page[t].size <= page'[t].size)
  <2>1. \A t \in Slot : page[t].size <= page[t].size
    BY <1>3, ServAssumption DEF Sizes
  <2> QED BY <1>2, <1>8, <1>9, <2>1
<1>11. PICK F \in [Fd -> 0..NSlot], W \in [Fd -> [Page -> Int]], O \in [Fd -> Names] :
        F = fds[c] /\ W = win[c] /\ O = opened[c] /\ Fits(F, W, O)
  BY FitsNow
<1>12. fds' = [fds EXCEPT ![c] = F] /\ win' = [win EXCEPT ![c] = W] /\ opened' = [opened EXCEPT ![c] = O]
  BY <1>11 DEF ServInv, ClientTypes
<1>13. Asks(x, F, W, page', cut')
  <2>1. size <= size
    BY <1>4
  <2> QED BY <1>1, <1>5, <1>7, <1>8, <1>11, <2>1 DEF Sent, Asks, Calls, ByName, ById
<1>14. \A m \in Fd : F[m] # 0 => Bound(F[m], O[m])
  BY <1>11 DEF Fits
<1>15. cut' \/ \A m \in Fd, i \in Page : W[m][i] > 0 =>
                 /\ F[m] # 0
                 /\ i < page'[F[m]].size
                 /\ file[O[m]].block[i] = W[m][i]
  <2> SUFFICES ASSUME ~cut', NEW m \in Fd, NEW i \in Page, W[m][i] > 0
               PROVE  F[m] # 0 /\ i < page'[F[m]].size /\ file[O[m]].block[i] = W[m][i]
    OBVIOUS
  <2>1. F[m] # 0 /\ i < page[F[m]].size /\ file[O[m]].block[i] = W[m][i]
    BY <1>9, <1>11 DEF Fits
  <2>2. F[m] \in Slot
    BY <1>11, <2>1, FitsNow
  <2>3. i \in Int /\ page[F[m]].size \in Int /\ page'[F[m]].size \in Int
    <3>1. page[F[m]].size \in Sizes /\ page'[F[m]].size \in Sizes
      BY <1>3, <1>8, <2>2
    <3> QED BY <3>1, ServAssumption DEF Sizes, Page
  <2>4. page[F[m]].size <= page'[F[m]].size
    BY <1>10, <2>2
  <2>5. i < page'[F[m]].size
    BY <2>1, <2>3, <2>4
  <2> QED BY <2>1, <2>5
<1>16. cli[c].pc # "recv" /\ UNCHANGED <<opentab, file, srv, full>>
  OBVIOUS
<1> QED BY <1>7, <1>8, <1>9, <1>10, <1>12, <1>13, <1>14, <1>15, <1>16, ClientStep

LEMMA FtruncateInv ==
    ASSUME ServInv, ~Down, NEW c \in Client, NEW n \in Fd, NEW size \in Sizes, ftruncate(c, n, size)
    PROVE  ServInv'
<1>1. /\ cli[c].pc = "idle" /\ fds[c][n] # 0 /\ Truncate(c, n, size, "return")
      /\ UNCHANGED <<opentab, file, fds, win, srv, opened, full>>
  BY OpenIsFile DEF ftruncate, Begin, At
<1> QED BY <1>1, TruncateInv

LEMMA WriteInv ==
    ASSUME ServInv, ~Down, NEW c \in Client, NEW n \in Fd, NEW i \in Page, write(c, n, i)
    PROVE  ServInv'
<1>1. /\ cli[c].pc = "idle" /\ fds[c][n] # 0
      /\ UNCHANGED <<opentab, file, fds, srv, opened, full>>
  BY OpenIsFile DEF write, Begin, At
<1>2. CASE Truncate(c, n, i + 1, "write") /\ UNCHANGED win
  <2>1. i + 1 \in Sizes
    BY ServAssumption DEF Page, Sizes
  <2> QED BY <1>1, <1>2, <2>1, TruncateInv
<1>3. CASE win' = [win EXCEPT ![c] = Touch(@, n, i)] /\ UNCHANGED <<cli, page, cut>>
  BY <1>1, <1>3, TouchInv DEF Touches
<1> QED BY <1>2, <1>3 DEF write

LEMMA FtruncateMapInv ==
    ASSUME ServInv, ~Down, NEW c \in Client, ftruncate_map(c)
    PROVE  ServInv'
<1>1. /\ cli[c].pc = "got" /\ cli[c].call.op = "ftruncate"
      /\ UNCHANGED <<opentab, page, file, fds, srv, opened, full, cut>>
  BY DEF ftruncate_map, Resume, At
<1>2. PICK k \in CallSet : k = cli[c].call
  BY FitsNow
<1>3. k.fd \in Fd /\ k.size \in Sizes /\ k.old \in Sizes /\ k.size - 1 \in Int
  BY ServAssumption DEF CallSet, Sizes
<1>4. Asks(cli[c], fds[c], win[c], page, cut)
  BY <1>1, ResumeFacts
<1>5. /\ fds[c][k.fd] # 0 /\ k.id = page[fds[c][k.fd]].id
      /\ cut \/ k.size <= page[fds[c][k.fd]].size
  BY <1>1, <1>2, <1>4 DEF Asks, Calls, ById
<1> DEFINE v == [i \in Page |-> IF i \in k.size..(k.old - 1) THEN 0 ELSE win[c][k.fd][i]]
           w == [win[c] EXCEPT ![k.fd] = v]
<1>6. \/ /\ k.i < k.size
         /\ Ask(c, [k EXCEPT !.i = @ + 1], "map", k.i) /\ UNCHANGED win
      \/ Ask(c, [k EXCEPT !.op = "undo"], "set_size", k.old) /\ UNCHANGED win
      \/ Return(c) /\ UNCHANGED win
      \/ /\ Return(c)
         /\ win' = [win EXCEPT ![c] = IF k.then = "write" THEN Touch(w, k.fd, k.size - 1) ELSE w]
  BY <1>2 DEF ftruncate_map
<1>7. CASE /\ k.i < k.size
           /\ Ask(c, [k EXCEPT !.i = @ + 1], "map", k.i) /\ UNCHANGED win
  BY <1>1, <1>2, <1>5, <1>7, MapAsks
<1>8. CASE Ask(c, [k EXCEPT !.op = "undo"], "set_size", k.old) /\ UNCHANGED win
  <2> DEFINE l == [k EXCEPT !.op = "undo"]
  <2>1. l \in CallSet /\ l.op = "undo" /\ l.fd = k.fd /\ l.id = k.id /\ l.size = k.size
    BY DEF CallSet
  <2>2. PICK i \in Nat, op \in Ops : i = k.old /\ op = "set_size" /\ Ask(c, l, op, i)
    BY <1>3, <1>8, ServAssumption DEF Ops, Sizes
  <2> HIDE DEF l
  <2>3. PICK x \in CliSet : cli' = [cli EXCEPT ![c] = x] /\ Sent(x, l, op, i)
    BY <2>1, <2>2, AskIs
  <2>4. Asks(x, fds[c], win[c], page, cut)
    BY <1>3, <1>5, <2>1, <2>2, <2>3 DEF Sent, Asks, Calls, ByName, ById
  <2> QED BY <1>1, <1>8, <2>3, <2>4, CallStep
<1>9. CASE Return(c) /\ UNCHANGED win
  BY <1>1, <1>9, ReturnInv
<1>10. CASE /\ Return(c)
            /\ win' = [win EXCEPT ![c] = IF k.then = "write" THEN Touch(w, k.fd, k.size - 1) ELSE w]
  <2>1. win[c] \in [Fd -> [Page -> Int]]
    BY FitsNow
  <2>2. v \in [Page -> Int] /\ \A i \in Page : v[i] > 0 => v[i] = win[c][k.fd][i]
    BY <1>3, <2>1
  <2> HIDE DEF v
  <2>3. w \in [Fd -> [Page -> Int]] /\ \A n \in Fd, i \in Page : w[n][i] > 0 => w[n][i] = win[c][n][i]
    BY <1>3, <2>1, <2>2
  <2> HIDE DEF w
  <2> DEFINE V == IF k.then = "write" THEN Touch(w, k.fd, k.size - 1) ELSE w
  <2>4. /\ V \in [Fd -> [Page -> Int]]
        /\ \A n \in Fd, i \in Page : V[n][i] > 0 => V[n][i] = win[c][n][i]
    <3>1. CASE k.then = "write"
      <4> DEFINE T == Touch(w, k.fd, k.size - 1)
      <4>1. T \in [Fd -> [Page -> Int]] /\ \A n \in Fd, i \in Page : T[n][i] > 0 => T[n][i] = w[n][i]
        BY <1>3, <2>3, TouchIs
      <4>2. V = T
        BY <3>1
      <4> HIDE DEF T, V
      <4> QED BY <2>3, <4>1, <4>2
    <3>2. CASE k.then # "write"
      BY <2>3, <3>2
    <3> QED BY <3>1, <3>2
  <2>5. cli' = [cli EXCEPT ![c] = Idle] /\ Idle \in CliSet /\ Idle.pc \notin InCall
    BY <1>10, IdleIs DEF Return, InCall
  <2>6. win' = [win EXCEPT ![c] = V]
    BY <1>10
  <2> HIDE DEF V
  <2> QED BY <1>1, <2>4, <2>5, <2>6, WindowStep
<1> QED BY <1>6, <1>7, <1>8, <1>9, <1>10

LEMMA ForkInv ==
    ASSUME ServInv, ~Down, NEW c \in Client, NEW d \in Client, fork(c, d)
    PROVE  ServInv'
<1>1. PICK F \in [Fd -> 0..NSlot], W \in [Fd -> [Page -> Int]], O \in [Fd -> Names] :
        F = fds[c] /\ W = win[c] /\ O = opened[c] /\ Fits(F, W, O)
  BY FitsNow
<1>2. /\ cli[d].pc # "recv" /\ cli' = [cli EXCEPT ![d] = Idle]
      /\ fds' = [fds EXCEPT ![d] = F] /\ win' = [win EXCEPT ![d] = W]
      /\ opened' = [opened EXCEPT ![d] = O]
      /\ UNCHANGED <<opentab, page, file, srv, full, cut>>
  BY <1>1 DEF fork
<1>3. Idle \in CliSet /\ Idle.pc \notin InCall
  BY IdleIs DEF InCall
<1> QED BY <1>1, <1>2, <1>3, OwnStep

-----------------------------------------------------------------------------
LEMMA InitInv == Init => ServInv
<1> SUFFICES ASSUME Init PROVE ServInv
  OBVIOUS
<1>1. /\ opentab = [s \in Slot |-> [file |-> NoFile, id |-> s, alloc |-> FALSE]]
      /\ page = [s \in Slot |-> [id |-> 0, size |-> 0]]
      /\ srv = [pc |-> "recv", whom |-> Root, req |-> NoReq, r |-> 0, map |-> 0]
  BY DEF Init, serve_init
<1>2. \A s \in Slot : s \in Nat \ {0} /\ Of(s) = s
  BY OfSlot
<1>3. NoReq \in ReqSet
  BY Zeros DEF NoReq, ReqSet
<1>4. ServerTypes
  <2>1. opentab \in [Slot -> [file : Names, id : Nat \ {0}, alloc : BOOLEAN]]
    BY <1>1, <1>2, Zeros
  <2>2. page \in [Slot -> [id : Nat, size : Sizes]]
    BY <1>1, Zeros
  <2>3. file \in [File -> [live : BOOLEAN, size : Sizes, block : [Page -> Nat]]]
    <3>1. \A f \in File : Initially[f] \in Sizes
      BY ServAssumption DEF Sizes
    <3>2. PICK b \in [File -> [Page -> 0..NBlock]] :
            file = [f \in File |-> [live |-> TRUE, size |-> Initially[f], block |-> b[f]]]
      BY DEF Init
    <3>3. \A f \in File : b[f] \in [Page -> Nat]
      BY ServAssumption
    <3> QED BY <3>1, <3>2, <3>3
  <2>4. srv \in SrvSet
    BY <1>1, <1>3, ServAssumption DEF SrvSet
  <2> QED BY <2>1, <2>2, <2>3, <2>4 DEF ServerTypes
<1>5. ClientTypes /\ \A c \in Client : cli[c].pc \notin InCall
  <2>1. fds \in [Client -> [Fd -> 0..NSlot]]
    BY ServAssumption DEF Init
  <2>2. win \in [Client -> [Fd -> [Page -> Int]]]
    BY DEF Init, NoWindow
  <2>3. opened \in [Client -> [Fd -> Names]]
    BY Zeros DEF Init
  <2>4. \A p \in {"idle", "none"} : [Idle EXCEPT !.pc = p] \in CliSet /\ [Idle EXCEPT !.pc = p].pc = p
    BY IdleIs DEF CliSet
  <2> DEFINE p(c) == IF c = Root THEN "idle" ELSE "none"
  <2>5. \A c \in Client : p(c) \in {"idle", "none"}
    OBVIOUS
  <2>6. cli = [c \in Client |-> [Idle EXCEPT !.pc = p(c)]]
    BY DEF Init
  <2> HIDE DEF p
  <2>7. cli \in [Client -> CliSet]
    BY <2>4, <2>5, <2>6
  <2>8. \A c \in Client : cli[c].pc \notin InCall
    BY <2>4, <2>5, <2>6 DEF InCall
  <2> QED BY <2>1, <2>2, <2>3, <2>7, <2>8 DEF ClientTypes
<1>6. IdsNameSlots
  BY <1>1, <1>2 DEF IdsNameSlots
<1>7. Held
  BY DEF Init, Held
<1>8. Shown
  BY DEF Init, NoWindow, Shown
<1>9. Asked
  BY <1>5 DEF Asked
<1>10. Serving /\ Answering
  BY <1>1 DEF Serving, Answering
<1> QED BY <1>4, <1>5, <1>6, <1>7, <1>8, <1>9, <1>10 DEF ServInv

(* A server that is down stays down. *)
LEMMA DownStays ==
    ASSUME Down
    PROVE  /\ Server => Down'
           /\ \A c \in Client : (Library(c) => Down') /\ (Program(c) => Down')
<1>1. full => full' \/ ~(Server \/ \E c \in Client : Library(c) \/ Program(c))
  <2>1. full /\ Server => full'
    BY DEF Server, serve_open, serve_open_full, serve_open_rest, serve_refuse, serve_map, serve_dirty,
       serve_set_size, serve_close, serve_remove, serve_other, reply, reply_fails
  <2>2. ASSUME NEW c \in Client, full, Library(c) PROVE full'
    BY <2>2 DEF Library, fsipc_send, open_map, close_dirty, close_end, ftruncate_map, simple_end,
       server_gone
  <2>3. ASSUME NEW c \in Client, full, Program(c) PROVE full'
    BY <2>3 DEF Program, open, simple, close, dup, read, write, ftruncate, exit, fork
  <2> QED BY <2>1, <2>2, <2>3
<1>2. ASSUME srv.pc \in {"dead", "halt"}, Server PROVE FALSE
  BY <1>2 DEF Server, serve_open, serve_open_full, serve_open_rest, serve_refuse, serve_map, serve_dirty,
     serve_set_size, serve_close, serve_remove, serve_other, reply, reply_fails
<1>3. ASSUME srv.pc \in {"dead", "halt"}, NEW c \in Client, Library(c) PROVE srv' = srv
  BY <1>3 DEF Library, fsipc_send, open_map, close_dirty, close_end, ftruncate_map, simple_end, server_gone
<1>4. ASSUME NEW c \in Client, Program(c) PROVE srv' = srv
  BY <1>4 DEF Program, open, simple, close, dup, read, write, ftruncate, exit, fork
<1> QED BY <1>1, <1>2, <1>3, <1>4 DEF Down

LEMMA NextInv == ServInv /\ [Next]_vars => ServInv'
<1> SUFFICES ASSUME ServInv, [Next]_vars PROVE ServInv'
  OBVIOUS
<1>1. CASE Down
  <2>1. Server => Down'
    BY <1>1, DownStays
  <2>2. ASSUME NEW c \in Client, Library(c) PROVE Down'
    BY <1>1, <2>2, DownStays
  <2>3. ASSUME NEW c \in Client, Program(c) PROVE Down'
    BY <1>1, <2>3, DownStays
  <2>4. UNCHANGED vars => Down'
    BY <1>1 DEF Down, vars
  <2> QED BY <2>1, <2>2, <2>3, <2>4 DEF Next, ServInv
<1>2. CASE ~Down
  <2>1. CASE UNCHANGED vars
    <3>1. ServerTypes' /\ IdsNameSlots'
      BY <1>2, <2>1 DEF vars, ServInv, ServerTypes, IdsNameSlots
    <3>2. ClientTypes' /\ Held' /\ Shown'
      BY <1>2, <2>1 DEF vars, ServInv, ClientTypes, Held, Bound, Shown
    <3>3. Asked' /\ Serving'
      BY <1>2, <2>1 DEF vars, ServInv, Asked, Serving
    <3>4. Answering'
      BY <1>2, <2>1 DEF vars, ServInv, Answering, Bound
    <3> QED BY <3>1, <3>2, <3>3, <3>4 DEF ServInv
  <2>2. srv \in SrvSet /\ srv.pc \notin {"reopen", "dead"}
    BY <1>2 DEF ServInv, ServerTypes, SrvSet
  <2>3. CASE Server
    <3>1. CASE serve_open_full
      BY <3>1 DEF serve_open_full, ServInv, Down
    <3>2. CASE reply_fails
      BY <2>2, <3>2, HaltIsDown DEF reply_fails
    <3>3. ~serve_open_rest
      BY <2>2 DEF serve_open_rest
    <3> QED BY <1>2, <2>3, <3>1, <3>2, <3>3, ServeOpenInv, ServeRefuseInv, ServeMapInv, ServeDirtyInv,
          ServeSetSizeInv, ServeCloseInv, ServeRemoveInv, ServeOtherInv, ReplyInv DEF Server
  <2>4. ASSUME NEW c \in Client, Library(c) PROVE ServInv'
    <3>1. CASE simple_end(c)
      <4>1. /\ cli[c].pc = "got" /\ Return(c)
            /\ UNCHANGED <<opentab, page, file, fds, win, srv, opened, full, cut>>
        BY <3>1 DEF simple_end, At
      <4> QED BY <1>2, <4>1, ReturnInv
    <3>2. ~server_gone(c)
      BY <2>2 DEF server_gone
    <3> QED BY <1>2, <2>4, <3>1, <3>2, SendInv, OpenMapInv, CloseDirtyInv, CloseEndInv, FtruncateMapInv
          DEF Library
  <2>5. ASSUME NEW c \in Client, Program(c) PROVE ServInv'
    <3>1. CASE \E f \in File : open(c, f) \/ simple(c, "remove", f) \/ simple(c, "debug", f)
      <4>1. PICK f \in File : open(c, f) \/ simple(c, "remove", f) \/ simple(c, "debug", f)
        BY <3>1
      <4>2. CASE simple(c, "remove", f) \/ simple(c, "debug", f)
        BY <1>2, <4>2, SimpleInv DEF Names
      <4> QED BY <1>2, <4>1, <4>2, OpenInv
    <3>2. CASE \E op \in {"sync", "tree", "unknown"} : simple(c, op, NoFile)
      BY <1>2, <3>2, Zeros, SimpleInv
    <3>3. CASE \E n \in Fd : close(c, n) \/ \E o \in Fd : dup(c, o, n)
      BY <1>2, <3>3, CloseInv, DupCallInv
    <3>4. CASE \E n \in Fd, i \in Page : read(c, n, i) \/ write(c, n, i)
      BY <1>2, <3>4, ReadInv, WriteInv
    <3>5. CASE \E n \in Fd, size \in 0..MaxSize : ftruncate(c, n, size)
      BY <1>2, <3>5, FtruncateInv DEF Sizes
    <3>6. CASE exit(c)
      BY <1>2, <3>6, ExitInv
    <3>7. CASE \E d \in Client : fork(c, d)
      BY <1>2, <3>7, ForkInv
    <3> QED BY <2>5, <3>1, <3>2, <3>3, <3>4, <3>5, <3>6, <3>7 DEF Program
  <2> QED BY <2>1, <2>3, <2>4, <2>5 DEF Next
<1> QED BY <1>1, <1>2

(* For any number of clients, files, slots and descriptors, a descriptor   *)
(* that is held names the file the program opened, until the server goes   *)
(* down: open_alloc fails, a send of its fails or it follows NULL.         *)
(* serve_open gives out no slot whose page somebody maps, and open_lookup  *)
(* finds every slot that is held.                                          *)
THEOREM BoundCorrect == Spec => []HeldSlotIsBound
<1>1. ServInv => HeldSlotIsBound
  <2> SUFFICES ASSUME ServInv, ~Down, NEW c \in Client, NEW n \in Fd, IsFile(c, n)
               PROVE  LET s == fds[c][n] IN opentab[s].file = opened[c][n] /\ opentab[s].id = page[s].id
    BY DEF HeldSlotIsBound
  <2> QED BY OpenIsFile DEF ServInv, Held, Bound
<1> QED BY <1>1, InitInv, NextInv, PTL DEF Spec

(* Under the same conditions, and as long as nobody asked for a shorter    *)
(* file, what a window shows below the size of its file are the file's own *)
(* blocks: open, file_close, ftruncate, dup and fork keep it right by hand. *)
THEOREM WindowCorrect == Spec => []WindowIsFile
<1>1. ServInv => WindowIsFile
  <2> SUFFICES ASSUME ServInv, ~Down, ~cut, NEW c \in Client, NEW n \in Fd, IsFile(c, n),
                      NEW i \in 0..(page[fds[c][n]].size - 1), win[c][n][i] > 0
               PROVE  file[opened[c][n]].block[i] = win[c][n][i]
    BY DEF WindowIsFile
  <2>1. page[fds[c][n]].size \in Sizes
    BY OpenIsFile, FitsNow
  <2>2. i \in Page
    BY <2>1, ServAssumption DEF Sizes, Page
  <2> QED BY <2>2, FitsNow DEF Fits
<1> QED BY <1>1, InitInv, NextInv, PTL DEF Spec
=============================================================================
