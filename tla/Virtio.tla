------------------------------- MODULE Virtio -------------------------------
(***************************************************************************)
(* The disk driver (kern/virtio.c with sys_read_sector, sys_write_sector   *)
(* and sys_flush of kern/syscall_all.c) and the device it talks to.        *)
(*                                                                         *)
(* A call fills the request buffer of its kind, puts the head of that      *)
(* buffer's descriptor chain into the available ring, advances avail->idx  *)
(* and busy-waits, with interrupts off, until used->idx has caught up.     *)
(* The device runs beside it: it fetches the ring entry, moves the data,   *)
(* writes the status byte and advances used->idx.  Both indices are le16.  *)
(***************************************************************************)
EXTENDS Naturals

CONSTANTS Sector, Data,
          QUEUE_SIZE,  \* entries of the available ring (1024)
          IdxMod,      \* values of an le16 (2^16)
          MaxCalls,    \* BOUND: calls in a behaviour
          MayErr,      \* may the device report an error?
          NoSector, NoData

ASSUME RingAssumption == /\ QUEUE_SIZE \in Nat \ {0}
                         /\ IdxMod \in Nat \ {0}
                         /\ MaxCalls \in Nat
                         /\ MayErr \in BOOLEAN
ASSUME BlankAssumption == NoSector \notin Sector /\ NoData \notin Data

VARIABLES
    avail_idx, avail_ring,   \* avail->idx, avail->ring
    used_idx,                \* used->idx
    buffer,                  \* read_buffer, write_buffer, flush_buffer
    last_avail, job,         \* the device: next entry to fetch, what it does
    sectors,                 \* what the disk holds
    pc, req, page            \* the caller: where it is, its call, its memory

devVars    == <<used_idx, last_avail, job, sectors>>
driverVars == <<devVars, avail_idx, avail_ring, buffer, pc, req, page>>

Op == {"read", "write", "flush"}

(* The first descriptors of the chains that virtio_init builds. *)
Chain == [read |-> 0, write |-> 3, flush |-> 6]

Stat == {"none", "OK", "IOERR"}     \* -1, VIRTIO_BLK_S_OK, VIRTIO_BLK_S_IOERR

Buffers == [sector : Sector \cup {NoSector}, data : Data \cup {NoData}, status : Stat]

TypeOK ==
    /\ avail_idx \in 0..IdxMod - 1
    /\ used_idx \in 0..IdxMod - 1
    /\ last_avail \in 0..IdxMod - 1
    /\ avail_ring \in [0..QUEUE_SIZE - 1 -> {0, 3, 6}]
    /\ buffer \in [Op -> Buffers]
    /\ job \in [stage : {"idle", "fetched", "done"}, op : Op]
    /\ sectors \in [Sector -> Data]
    /\ pc \in {"idle", "poll", "copy", "check", "panic"}
    /\ req \in [n : 0..MaxCalls, op : Op, sector : Sector \cup {NoSector},
                data : Data \cup {NoData}]
    /\ page \in Data \cup {NoData}

DriverInit ==
    /\ avail_idx = 0 /\ used_idx = 0 /\ last_avail = 0
    /\ avail_ring = [i \in 0..QUEUE_SIZE - 1 |-> 0]
    /\ buffer = [o \in Op |-> [sector |-> NoSector, data |-> NoData, status |-> "OK"]]
    /\ job = [stage |-> "idle", op |-> "read"]
    /\ sectors \in [Sector -> Data]
    /\ pc = "idle"
    /\ req = [n |-> 0, op |-> "flush", sector |-> NoSector, data |-> NoData]
    /\ page = NoData

-----------------------------------------------------------------------------
(* The driver. *)

(* Mutant: avail->idx is not advanced. *)
submit_NoIndex(o, b) ==
    /\ buffer' = [buffer EXCEPT ![o] = b]
    /\ avail_ring' = [avail_ring EXCEPT ![avail_idx % QUEUE_SIZE] = Chain[o]]
    /\ UNCHANGED avail_idx

(* What the three calls share: buffer b of kind o is handed to the device. *)
submit(o, b) ==
    /\ buffer' = [buffer EXCEPT ![o] = b]
    /\ avail_ring' = [avail_ring EXCEPT ![avail_idx % QUEUE_SIZE] = Chain[o]]
    /\ avail_idx' = (avail_idx + 1) % IdxMod

Call(o, s, d) ==
    /\ pc = "idle" /\ req.n < MaxCalls
    /\ req' = [n |-> req.n + 1, op |-> o, sector |-> s, data |-> d]
    /\ pc' = "poll"
    /\ UNCHANGED <<devVars, page>>

(* read_buffer.data keeps the last sector that was read. *)
read_sector(s) ==
    /\ Call("read", s, NoData)
    /\ submit("read", [sector |-> s, data |-> buffer["read"].data, status |-> "none"])

write_sector(s, d) ==
    /\ Call("write", s, d)
    /\ submit("write", [sector |-> s, data |-> d, status |-> "none"])

flush ==
    /\ Call("flush", NoSector, NoData)
    /\ submit("flush", [sector |-> NoSector, data |-> NoData, status |-> "none"])

(* Mutants: the wait is left out; it waits for one entry more. *)
CaughtUp_Always == TRUE
CaughtUp_Strict == used_idx > avail_idx

(* The exit condition of "while (used->idx < avail->idx)". *)
CaughtUp == ~(used_idx < avail_idx)

poll ==
    /\ pc = "poll"
    /\ CaughtUp
    /\ pc' = IF req.op = "read" THEN "copy" ELSE "check"
    /\ UNCHANGED <<devVars, avail_idx, avail_ring, buffer, req, page>>

(* sys_read_sector: memcpy out of read_buffer, one or two pieces. *)
copy ==
    /\ pc = "copy"
    /\ page' = buffer["read"].data
    /\ pc' = "check"
    /\ UNCHANGED <<devVars, avail_idx, avail_ring, buffer, req>>

(* The status byte is looked at after the copy; panic if it is not 0. *)
check ==
    /\ pc = "check"
    /\ pc' = IF buffer[req.op].status = "OK" THEN "idle" ELSE "panic"
    /\ UNCHANGED <<devVars, avail_idx, avail_ring, buffer, req, page>>

-----------------------------------------------------------------------------
(* The device (not part of the repository). *)

dev_fetch ==
    /\ job.stage = "idle"
    /\ last_avail # avail_idx
    /\ job' = [stage |-> "fetched",
               op |-> CHOOSE o \in Op : Chain[o] = avail_ring[last_avail % QUEUE_SIZE]]
    /\ last_avail' = (last_avail + 1) % IdxMod
    /\ UNCHANGED <<used_idx, sectors, avail_idx, avail_ring, buffer, pc, req, page>>

dev_transfer(status) ==
    LET o == job.op
        b == buffer[o]
    IN  /\ job.stage = "fetched"
        /\ status = "OK" \/ MayErr
        /\ sectors' = IF o = "write" /\ status = "OK"
                      THEN [sectors EXCEPT ![b.sector] = b.data]
                      ELSE sectors
        /\ buffer' = [buffer EXCEPT ![o] =
                        [b EXCEPT !.status = status,
                                  !.data = IF o = "read" /\ status = "OK"
                                           THEN sectors[b.sector] ELSE @]]
        /\ job' = [job EXCEPT !.stage = "done"]
        /\ UNCHANGED <<used_idx, last_avail, avail_idx, avail_ring, pc, req, page>>

dev_publish ==
    /\ job.stage = "done"
    /\ used_idx' = (used_idx + 1) % IdxMod
    /\ job' = [job EXCEPT !.stage = "idle"]
    /\ UNCHANGED <<last_avail, sectors, avail_idx, avail_ring, buffer, pc, req, page>>

-----------------------------------------------------------------------------
Driver == poll \/ copy \/ check

Device == dev_fetch \/ (\E st \in {"OK", "IOERR"} : dev_transfer(st)) \/ dev_publish

DriverNext ==
    \/ \E s \in Sector : read_sector(s)
    \/ \E s \in Sector, d \in Data : write_sector(s, d)
    \/ flush
    \/ poll \/ copy \/ check
    \/ dev_fetch
    \/ \E st \in {"OK", "IOERR"} : dev_transfer(st)
    \/ dev_publish

DriverSpec == DriverInit /\ [][DriverNext]_driverVars

(* The kernel runs its loop and its code after it without being preempted, *)
(* and the device answers what it was asked.                               *)
FairSpec == DriverSpec /\ WF_driverVars(Driver) /\ WF_driverVars(Device)

-----------------------------------------------------------------------------
(* fs/ide.c, ide_read and ide_write: a call that has returned has done its *)
(* work: what was read is what the disk holds, what was written is on the  *)
(* disk.                                                                   *)
CompletedCall ==
    pc = "idle" =>
        /\ req.op = "read" => page = sectors[req.sector]
        /\ req.op = "write" => sectors[req.sector] = req.data

(* The buffers belong to one side at a time: the device has nothing left   *)
(* to do with them when the driver copies from them, judges them or fills  *)
(* them for the next call.                                                 *)
OneOwner == pc \notin {"poll", "panic"} => job.stage = "idle" /\ last_avail = avail_idx

(* fs/ide.c:22, "Panic if any error occurs", and only then. *)
PanicOnlyOnError == pc = "panic" => buffer[req.op].status = "IOERR"

(* The busy wait ends: every call returns or panics. *)
CallsReturn == pc = "poll" ~> pc \in {"idle", "panic"}

(* The parts of the inductive invariant behind these: what the device was  *)
(* asked, and that it has done it.                                         *)
Asked ==
    LET b == buffer[req.op]
    IN  /\ avail_ring[(avail_idx - 1) % QUEUE_SIZE] = Chain[req.op]
        /\ b.sector = req.sector
        /\ req.op # "flush" => req.sector \in Sector
        /\ req.op = "write" => b.data = req.data /\ req.data \in Data

Served ==
    LET b == buffer[req.op]
    IN  /\ b.status \in {"OK", "IOERR"}
        /\ b.status = "OK" /\ req.op = "read" => b.data = sectors[req.sector]
        /\ b.status = "OK" /\ req.op = "write" => sectors[req.sector] = req.data

Behind  == used_idx = avail_idx - 1
Settled == job.stage = "idle" /\ last_avail = avail_idx /\ used_idx = avail_idx

(* A call goes through four phases while the driver polls: not fetched,    *)
(* fetched, served, published.                                             *)
Polling ==
    /\ avail_idx >= 1
    /\ Asked
    /\ \/ job.stage = "idle" /\ last_avail = avail_idx - 1 /\ Behind
       \/ job.stage = "fetched" /\ job.op = req.op /\ last_avail = avail_idx /\ Behind
       \/ job.stage = "done" /\ last_avail = avail_idx /\ Behind /\ Served
       \/ Settled /\ Served

(* kern/virtio.c, the two indices as a handshake: outside of the busy wait *)
(* both sides are level and the last answer is in its buffer.              *)
Handshake ==
    /\ TypeOK
    /\ avail_idx = req.n
    /\ pc = "poll" => Polling
    /\ pc # "poll" => Settled
    /\ pc \in {"copy", "check", "panic"} => Served
    /\ pc = "copy" => req.op = "read"
    /\ pc = "check" /\ buffer[req.op].status = "OK" /\ req.op = "read" =>
          page = sectors[req.sector]
    /\ CompletedCall /\ PanicOnlyOnError
=============================================================================
