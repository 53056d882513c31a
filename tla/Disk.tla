-------------------------------- MODULE Disk --------------------------------
(***************************************************************************)
(* Block devices below the ext4 library: the byte-addressed view a Disk     *)
(* gives of a device of blocks (drivers/disk.rs), and the memory a VirtIO   *)
(* device is given (drivers/virtio/mod.rs): the buffer itself when its      *)
(* pages are adjacent in physical memory, else a bounce buffer from a       *)
(* cache that the block and the network driver share, each under its own    *)
(* lock.                                                                   *)
(*                                                                         *)
(* A disk call is one task's, under the lock of the file system; every      *)
(* device request in it is a step and may fail.  Memory is a function from  *)
(* physical addresses to bytes; virtual addresses below PHYS_END are the    *)
(* direct map, the ones above go through the page table of the scenario.    *)
(***************************************************************************)
EXTENDS Integers, FiniteSets, Sequences, SequencesExt

CONSTANTS
    BIO_BLOCK,          \* BLOCK_SIZE
    DISK_BLOCKS,        \* blocks of the device
    BioUsers,           \* drivers that share buffers with a device
    BIO_PAGE,           \* PAGE_SIZE
    PHYS_END,           \* physical memory; virtual page n >= PHYS_END / BIO_PAGE is mapped
    BioHeap,            \* physical addresses of the kernel heap
    MAX_CACHED,         \* bounce buffers kept for reuse
    MAX_CACHED_BYTES,   \* and bytes of them
    BioScenarios

VARIABLES bioSc, disk, mem, bounces, jobs
bioVars == <<bioSc, disk, mem, bounces, jobs>>

DiskBytes == 0 .. BIO_BLOCK * DISK_BLOCKS - 1
NoCall == [op |-> "none", n |-> 0, start |-> 0, was |-> <<>>, buf |-> <<>>, failed |-> FALSE]
NoBioJob == [pc |-> "idle", k |-> 1, paddr |-> 0, bounce |-> 0, given |-> <<>>, got |-> <<>>]
BioInit ==
    /\ bioSc \in BioScenarios
    /\ disk = [bytes |-> [a \in DiskBytes |-> -a], block_id |-> 0, offset |-> 0, call |-> NoCall, k |-> 1, faults |-> bioSc.faults]
    /\ mem = [p \in 0 .. PHYS_END - 1 |-> -p]
    /\ bounces = [active |-> <<>>, free |-> <<>>, cached_bytes |-> 0, size |-> [p \in BioHeap |-> 0]]
    /\ jobs = [u \in BioUsers |-> NoBioJob]

-----------------------------------------------------------------------------
(* Disk.                                                                   *)

position == disk.block_id * BIO_BLOCK + disk.offset
Base == bioSc.base * BIO_BLOCK
DeviceSize == (DISK_BLOCKS - bioSc.base) * BIO_BLOCK
DiskOp == bioSc.prog[disk.k]
Left == disk.call.n - (position - disk.call.start)
Going == Left > 0 /\ ~disk.call.failed
DiskCall(op) == disk.call.op = op

disk_seek ==
    /\ DiskCall("none") /\ disk.k <= Len(bioSc.prog) /\ DiskOp.op = "seek"
    /\ LET off == DiskOp.n
           new_pos == CASE DiskOp.whence = "SET" -> off [] DiskOp.whence = "CUR" -> position + off
                        [] OTHER -> DeviceSize + off IN
       disk' = IF new_pos < 0 THEN [disk EXCEPT !.k = @ + 1]
               ELSE [disk EXCEPT !.k = @ + 1, !.block_id = new_pos \div BIO_BLOCK, !.offset = new_pos % BIO_BLOCK]
    /\ UNCHANGED <<bioSc, mem, bounces, jobs>>

BeginCall ==
    /\ DiskCall("none") /\ disk.k <= Len(bioSc.prog) /\ DiskOp.op # "seek"
    /\ disk' = [disk EXCEPT !.call = [op |-> DiskOp.op, n |-> DiskOp.n, start |-> position, was |-> disk.bytes, buf |-> <<>>, failed |-> FALSE]]
    /\ UNCHANGED <<bioSc, mem, bounces, jobs>>

\* The whole blocks of what is left, in one request.
whole_blocks_len(n) == (n \div BIO_BLOCK) * BIO_BLOCK
Batched == disk.offset = 0 /\ whole_blocks_len(Left) # 0
LeastCell(a, b) == IF a < b THEN a ELSE b
PartCount == LeastCell(Left, BIO_BLOCK - disk.offset)

advance(d, n) ==
    IF d.offset + n = BIO_BLOCK THEN [d EXCEPT !.offset = 0, !.block_id = @ + 1] ELSE [d EXCEPT !.offset = @ + n]
Byte(a) == disk.bytes[Base + a]
\* A request reads the blocks of the buffer, or of the one block around it.
ReadPart ==
    /\ DiskCall("read") /\ Going
    /\ LET n == IF Batched THEN whole_blocks_len(Left) ELSE PartCount
           got == [i \in 1 .. n |-> Byte(position + i - 1)]
           d == [disk EXCEPT !.call.buf = @ \o got] IN
       disk' = IF Batched THEN [d EXCEPT !.block_id = @ + n \div BIO_BLOCK] ELSE advance(d, n)
    /\ UNCHANGED <<bioSc, mem, bounces, jobs>>
\* The byte that the call writes at address a is <<the call, a>>, as a number.
NewByte(a) == 100 * disk.k + a
read_around(b) == [i \in 0 .. BIO_BLOCK - 1 |-> disk.bytes[b + i]]
\* The disk with n bytes of the call written at the position; write_partial()
\* reads the block, changes it and writes it back.
Stored(n) ==
    LET b == Base + disk.block_id * BIO_BLOCK
        at == Base + position IN
    [a \in DiskBytes |->
        IF a \in at .. at + n - 1 THEN NewByte(a - Base)
        ELSE IF ~ Batched /\ a \in b .. b + BIO_BLOCK - 1 THEN read_around(b)[a - b] ELSE disk.bytes[a]]
WritePart ==
    /\ DiskCall("write") /\ Going
    /\ LET n == IF Batched THEN whole_blocks_len(Left) ELSE PartCount
           d == [disk EXCEPT !.bytes = Stored(n)] IN
       disk' = IF Batched THEN [d EXCEPT !.block_id = @ + n \div BIO_BLOCK] ELSE advance(d, n)
    /\ UNCHANGED <<bioSc, mem, bounces, jobs>>
\* A request fails and the call returns -1, with the parts before it done and,
\* in a request of several blocks, any number of the blocks before the one
\* the driver failed at.
RequestFails ==
    /\ disk.call.op # "none" /\ Going /\ disk.faults > 0
    /\ \E m \in 0 .. (IF Batched THEN Left \div BIO_BLOCK - 1 ELSE 0) :
          disk' = [disk EXCEPT !.faults = @ - 1, !.call.failed = TRUE,
                               !.bytes = IF DiskCall("write") /\ m > 0 THEN Stored(m * BIO_BLOCK) ELSE @]
    /\ UNCHANGED <<bioSc, mem, bounces, jobs>>
EndCall ==
    /\ disk.call.op # "none" /\ ~Going
    /\ disk' = [disk EXCEPT !.call = NoCall, !.k = @ + 1]
    /\ UNCHANGED <<bioSc, mem, bounces, jobs>>

-----------------------------------------------------------------------------
(* Memory for a device.                                                    *)

UserOp(u) == bioSc.shares[u][jobs[u].k]
virt_to_phys(va) ==
    IF va < PHYS_END THEN va ELSE (bioSc.pt[va \div BIO_PAGE] * BIO_PAGE) + (va % BIO_PAGE)
Cells(p, n) == p .. p + n - 1
\* Every page of the range is where the first one says it must be.
contiguous_phys(va, n) ==
    \/ va + n - 1 < PHYS_END
    \/ \A a \in Cells(va, n) : a % BIO_PAGE = 0 => virt_to_phys(a) = virt_to_phys(va) + a - va
Copied(from, to, n) == [p \in DOMAIN mem |-> IF p \in Cells(to, n) THEN mem[from[p - to]] ELSE mem[p]]
BufferCells(va, n) == [i \in 0 .. n - 1 |-> virt_to_phys(va + i)]
Contents(va, n) == [i \in 0 .. n - 1 |-> mem[virt_to_phys(va + i)]]

\* Heap space for a new bounce buffer.
FreeHeap(p, n) ==
    /\ Cells(p, n) \subseteq BioHeap
    /\ \A q \in BioHeap : bounces.size[q] > 0 => Cells(p, n) \cap Cells(q, bounces.size[q]) = {}
Without(s, b) == SelectSeq(s, LAMBDA x : x # b)

\* share(): a contiguous buffer is given as it is, else a buffer of its
\* length is taken from the cache or allocated.
share_begin(u) ==
    /\ jobs[u].pc = "idle" /\ jobs[u].k <= Len(bioSc.shares[u])
    /\ LET o == UserOp(u)
           hits == {i \in DOMAIN bounces.free : bounces.size[bounces.free[i]] = o.n}
           j == [jobs[u] EXCEPT !.given = Contents(o.va, o.n)] IN
       IF contiguous_phys(o.va, o.n)
       THEN /\ jobs' = [jobs EXCEPT ![u] = [j EXCEPT !.pc = "shared", !.paddr = virt_to_phys(o.va)]]
            /\ UNCHANGED bounces
       ELSE IF hits # {}
       THEN LET b == bounces.free[CHOOSE i \in hits : \A k \in hits : i <= k] IN
            /\ jobs' = [jobs EXCEPT ![u] = [j EXCEPT !.pc = "copy", !.bounce = b]]
            /\ bounces' = [bounces EXCEPT !.free = Without(@, b), !.cached_bytes = @ - bounces.size[b]]
       ELSE LET b == CHOOSE p \in BioHeap : FreeHeap(p, o.n) IN
            /\ jobs' = [jobs EXCEPT ![u] = [j EXCEPT !.pc = "copy", !.bounce = b]]
            /\ bounces' = [bounces EXCEPT !.size[b] = o.n]
    /\ UNCHANGED <<bioSc, disk, mem>>
\* The data is copied for the device, and the buffer is active.
share_end(u) ==
    /\ jobs[u].pc = "copy"
    /\ LET o == UserOp(u)
           b == jobs[u].bounce IN
       /\ mem' = IF o.dir # "from" THEN Copied(BufferCells(o.va, o.n), b, o.n) ELSE mem
       /\ bounces' = [bounces EXCEPT !.active = Append(@, b)]
       /\ jobs' = [jobs EXCEPT ![u].pc = "shared", ![u].paddr = b]
    /\ UNCHANGED <<bioSc, disk>>

\* The device reads the memory it was given, or writes it, or both.
Device(u) ==
    /\ jobs[u].pc = "shared"
    /\ LET o == UserOp(u)
           cells == Cells(jobs[u].paddr, o.n)
           written == [p \in cells |-> 1000 * jobs[u].k + 100 * u + p - jobs[u].paddr] IN
       /\ jobs' = [jobs EXCEPT ![u].pc = "served", ![u].got = [i \in 0 .. o.n - 1 |-> mem[jobs[u].paddr + i]]]
       /\ mem' = IF o.dir = "to" THEN mem ELSE written @@ mem
    /\ UNCHANGED <<bioSc, disk, bounces>>

active_at(p) == p
unshare_begin(u) ==
    /\ jobs[u].pc = "served"
    /\ IF \E i \in DOMAIN bounces.active : bounces.active[i] = jobs[u].paddr
       THEN LET b == active_at(jobs[u].paddr) IN
            /\ bounces' = [bounces EXCEPT !.active = Without(@, b)]
            /\ jobs' = [jobs EXCEPT ![u].pc = "return", ![u].bounce = b]
       ELSE /\ jobs' = [jobs EXCEPT ![u].pc = "done"]
            /\ UNCHANGED bounces
    /\ UNCHANGED <<bioSc, disk, mem>>
\* mutant: only the number of buffers is limited.
count_has_room(n) == Len(bounces.free) < MAX_CACHED
cache_has_room(n) == Len(bounces.free) < MAX_CACHED /\ bounces.cached_bytes + n <= MAX_CACHED_BYTES
\* unshare(): the data is copied back, the buffer cached or freed (recycle()).
unshare_end(u) ==
    /\ jobs[u].pc = "return"
    /\ LET o == UserOp(u)
           b == jobs[u].bounce
           n == bounces.size[b]
           back == [i \in 0 .. o.n - 1 |-> virt_to_phys(o.va + i)] IN
       /\ mem' = IF o.dir = "to" THEN mem
                 ELSE [p \in DOMAIN mem |-> IF \E i \in DOMAIN back : back[i] = p
                                            THEN mem[b + (CHOOSE i \in DOMAIN back : back[i] = p)] ELSE mem[p]]
       /\ bounces' = IF cache_has_room(n)
                     THEN [bounces EXCEPT !.free = Append(@, b), !.cached_bytes = @ + n]
                     ELSE [bounces EXCEPT !.size[b] = 0]
       /\ jobs' = [jobs EXCEPT ![u].pc = "done", ![u].bounce = 0]
    /\ UNCHANGED <<bioSc, disk>>
\* The caller uses its buffer for the next request.
Reuse(u) ==
    /\ jobs[u].pc = "done"
    /\ jobs' = [jobs EXCEPT ![u] = [NoBioJob EXCEPT !.k = jobs[u].k + 1]]
    /\ UNCHANGED <<bioSc, disk, mem, bounces>>

BioNext ==
    \/ disk_seek \/ BeginCall \/ ReadPart \/ WritePart \/ RequestFails \/ EndCall
    \/ \E u \in BioUsers :
          share_begin(u) \/ share_end(u) \/ Device(u) \/ unshare_begin(u) \/ unshare_end(u) \/ Reuse(u)
BioSpec == BioInit /\ [][BioNext]_bioVars
-----------------------------------------------------------------------------
(* Type invariant: the offset of a Disk is inside its block, and the bytes  *)
(* the bounce cache counts are those of its free buffers.                   *)
BioTypeOK ==
    /\ disk.offset \in 0 .. BIO_BLOCK - 1 /\ disk.block_id \in Nat
    /\ bounces.cached_bytes = FoldSeq(LAMBDA b, n : n + bounces.size[b], 0, bounces.free)
    /\ \A u \in BioUsers : jobs[u].pc \in {"idle", "copy", "shared", "served", "return", "done"}

(* A Disk is a row of bytes: at every moment of a read or write exactly the *)
(* bytes between the start and the position have been transferred, and      *)
(* their neighbours in the same blocks are as they were.  A write that      *)
(* fails leaves each block behind the position old or new, in order, and    *)
(* writes nothing outside its range.                                        *)
DiskIsBytes ==
    LET c == disk.call
        From == Base + c.start
        Upto(m) == Base + position + m * BIO_BLOCK - 1 IN
    /\ DiskCall("read") => c.buf = [i \in 1 .. position - c.start |-> c.was[From + i - 1]] /\ disk.bytes = c.was
    /\ DiskCall("write") => \E m \in 0 .. (IF c.failed THEN Left \div BIO_BLOCK ELSE 0) :
          disk.bytes = [a \in DiskBytes |-> IF a \in From .. Upto(m) THEN NewByte(a - Base) ELSE c.was[a]]

(* The memory given to a device is that of its request alone: what it reads *)
(* is what the caller had put in the buffer, and when unshare() is over the *)
(* caller's buffer has what the device wrote, whatever the other driver     *)
(* shares at the same time.                                                 *)
DeviceUsesBuffer ==
    \A u \in BioUsers : LET o == UserOp(u) IN
        /\ jobs[u].pc \in {"served", "return", "done"} /\ o.dir # "from" => jobs[u].got = jobs[u].given
        /\ jobs[u].pc = "done" /\ o.dir # "to" =>
              Contents(o.va, o.n) = [i \in 0 .. o.n - 1 |-> 1000 * jobs[u].k + 100 * u + i]

(* Every bounce buffer has one owner: the free list, the active list or the *)
(* driver that is copying; and the cache stays within both its limits.      *)
BounceOneOwner ==
    /\ IsInjective(bounces.free) /\ IsInjective(bounces.active)
    /\ Range(bounces.free) \cap Range(bounces.active) = {}
    /\ \A u \in BioUsers : jobs[u].pc \in {"copy", "return"} =>
          /\ jobs[u].bounce \notin Range(bounces.free) \cup Range(bounces.active)
          /\ \A v \in BioUsers \ {u} : jobs[v].pc \in {"copy", "return"} => jobs[v].bounce # jobs[u].bounce
    /\ Len(bounces.free) <= MAX_CACHED /\ bounces.cached_bytes <= MAX_CACHED_BYTES

-----------------------------------------------------------------------------
(***************************************************************************)
(* The SD card of the VisionFive 2 board (drivers/jh7110_sd.rs): bringing   *)
(* the card up and choosing its clock, and reading and writing blocks by    *)
(* polling the controller, without interrupts or DMA.                       *)
(*                                                                         *)
(* The controller moves the words of a block through a FIFO, raises RXDR    *)
(* or TXDR when the FIFO is above or below its watermark, DTO when the      *)
(* last word has moved and ERR when a transfer breaks off; it is external   *)
(* and runs at any speed.  A loop that polls with a deadline gives up only  *)
(* when the controller has nothing left to do: the deadlines, 100 ms and    *)
(* 2 s, are far longer than a transfer.                                     *)
(***************************************************************************)

CONSTANTS
    SD_WORDS,       \* words of a block (512 bytes)
    FIFO_DEPTH,     \* words the FIFO holds
    SdBlocks,       \* block numbers
    SdScenarios

VARIABLES sdSc, ctl, card, drv, boot
sdVars == <<sdSc, ctl, card, drv, boot>>

RX_WMark == FIFO_DEPTH \div 2 - 1
TX_WMark == FIFO_DEPTH \div 2
NoXfer == [dir |-> "none", b |-> 0, moved |-> 0, staged |-> <<>>]
IdleDriver == [pc |-> "idle", k |-> 1, i |-> 0, buf |-> <<>>, res |-> <<>>]

\* A block is written whole, as the number of the write, or is its own
\* number from the start; a word is <<contents, position>>.
Data(v) == [w \in 1 .. SD_WORDS |-> <<v, w>>]
SdInit ==
    /\ sdSc \in SdScenarios
    /\ ctl = [fifo |-> <<>>, rint |-> {}, xfer |-> NoXfer, faults |-> sdSc.faults]
    /\ card = [b \in SdBlocks |-> Data(-b)]
    /\ drv = IdleDriver
    /\ boot = [at |-> "reset", sdhc |-> FALSE, div |-> 0, clock |-> 0, misses |-> sdSc.misses]

-----------------------------------------------------------------------------
(* Bringing the card up.                                                   *)

\* SdCard::new(): the commands of controller_init(), enable_clock() and
\* card_init() in turn; each one may fail with an error or a timeout.
AfterCommand ==
    [reset |-> "clock", clock |-> "CMD0", CMD0 |-> "CMD8", CMD8 |-> "CMD55", CMD55 |-> "ACMD41", ACMD41 |-> "CMD2",
     CMD2 |-> "CMD3", CMD3 |-> "CMD7", CMD7 |-> "CMD9", CMD9 |-> "APP6", APP6 |-> "ACMD6", ACMD6 |-> "CMD16", CMD16 |-> "trial"]
Dividers == <<4, 8, 16, 32, 63>>
Booting == boot.at \in DOMAIN AfterCommand

send_cmd ==
    /\ Booting
    /\ boot' = [boot EXCEPT !.at = AfterCommand[boot.at], !.sdhc = @ \/ boot.at = "CMD8",
                            !.div = IF boot.at = "clock" THEN 63 ELSE @]
    /\ UNCHANGED <<sdSc, ctl, card, drv>>
\* No answer: CMD8 tells a card of version 1, anything else ends it, also
\* enable_clock() with a divider that is tried.
wait_cmd_done ==
    /\ Booting \/ boot.at = "trial"
    /\ boot.misses > 0
    /\ boot' = [boot EXCEPT !.misses = @ - 1, !.at = IF @ = "CMD8" THEN AfterCommand[@] ELSE "failed"]
    /\ UNCHANGED <<sdSc, ctl, card, drv>>
\* ACMD41 says that the card is not ready yet.
NotReady ==
    /\ boot.at = "ACMD41" /\ boot.misses > 0
    /\ boot' = [boot EXCEPT !.at = "CMD55", !.misses = @ - 1]
    /\ UNCHANGED <<sdSc, ctl, card, drv>>

\* The superblock was read with its magic number and its checksum.
accept_superblock(d) == d \in sdSc.readable /\ d \in sdSc.reliable
\* The dividers are tried from the fastest on; the first that reads the
\* superblock right is kept, else the slowest.
TryClock ==
    /\ boot.at = "trial"
    /\ LET n == boot.clock + 1
           d == Dividers[n]
           ok == accept_superblock(d) IN
       boot' = [boot EXCEPT !.div = d, !.clock = n,
                            !.at = IF ok \/ n = Len(Dividers) THEN "ready" ELSE "trial"]
    /\ UNCHANGED <<sdSc, ctl, card, drv>>

-----------------------------------------------------------------------------
(* The controller.                                                         *)

WordsMoved(x, n) == [x EXCEPT !.moved = n]
CardSends ==
    /\ ctl.xfer.dir = "read" /\ Len(ctl.fifo) < FIFO_DEPTH
    /\ LET n == ctl.xfer.moved + 1
           over == n = SD_WORDS IN
       ctl' = [ctl EXCEPT !.fifo = Append(@, card[ctl.xfer.b][n]),
                          !.xfer = IF over THEN NoXfer ELSE WordsMoved(@, n),
                          !.rint = @ \cup (IF Len(ctl.fifo) + 1 > RX_WMark THEN {"RXDR"} ELSE {})
                                     \cup (IF over THEN {"DTO"} ELSE {})]
    /\ UNCHANGED <<sdSc, card, drv, boot>>
CardTakes ==
    /\ ctl.xfer.dir = "write" /\ ctl.fifo # <<>>
    /\ LET n == ctl.xfer.moved + 1
           over == n = SD_WORDS
           words == Append(ctl.xfer.staged, Head(ctl.fifo)) IN
       /\ ctl' = [ctl EXCEPT !.fifo = Tail(@), !.xfer = IF over THEN NoXfer ELSE [WordsMoved(@, n) EXCEPT !.staged = words],
                             !.rint = @ \cup (IF over THEN {"DTO"} ELSE {})]
       /\ card' = IF over THEN [card EXCEPT ![ctl.xfer.b] = words] ELSE card
    /\ UNCHANGED <<sdSc, drv, boot>>
RaiseTXDR ==
    /\ ctl.xfer.dir = "write" /\ Len(ctl.fifo) <= TX_WMark /\ "TXDR" \notin ctl.rint
    /\ ctl' = [ctl EXCEPT !.rint = @ \cup {"TXDR"}]
    /\ UNCHANGED <<sdSc, card, drv, boot>>
\* A transfer breaks off; what is in the FIFO stays there.
CardFails ==
    /\ ctl.xfer.dir # "none" /\ ctl.faults > 0
    /\ ctl' = [ctl EXCEPT !.xfer = NoXfer, !.rint = @ \cup {"ERR"}, !.faults = @ - 1]
    /\ UNCHANGED <<sdSc, card, drv, boot>>

-----------------------------------------------------------------------------
(* The driver.                                                             *)

Call == sdSc.prog[drv.k]
AtPc(l) == drv.pc = l
Finish(res) ==
    drv' = [drv EXCEPT !.pc = "idle", !.k = @ + 1, !.i = 0, !.buf = <<>>,
                       !.res = Append(@, [op |-> Call, res |-> res, i |-> drv.i, buf |-> drv.buf,
                                          was |-> card[Call.b + drv.i]])]
\* read_block(), write_block(): one block after the other, up to the first
\* error.
BlockDone ==
    IF drv.i + 1 = Call.n THEN Finish("Ok")
    ELSE drv' = [drv EXCEPT !.pc = "start", !.i = @ + 1, !.buf = IF Call.op = "read" THEN <<>> ELSE @]

SdBegin ==
    /\ AtPc("idle") /\ drv.k <= Len(sdSc.prog) /\ boot.at = "ready"
    /\ drv' = [drv EXCEPT !.pc = "start"]
    /\ UNCHANGED <<sdSc, ctl, card, boot>>

fifo_reset(c) == <<>>
\* The first half of read_single() and write_single(): wait until the
\* controller is idle, clear the interrupts and the FIFO, give the command.
Command ==
    /\ AtPc("start") /\ ctl.xfer.dir = "none"
    /\ ctl' = [ctl EXCEPT !.rint = {}, !.fifo = fifo_reset(ctl),
                          !.xfer = [NoXfer EXCEPT !.dir = Call.op, !.b = Call.b + drv.i]]
    /\ drv' = [drv EXCEPT !.pc = IF Call.op = "read" THEN "read" ELSE "write", !.buf = <<>>]
    /\ UNCHANGED <<sdSc, card, boot>>

\* An error bit ends the block, with Io.
PollError ==
    /\ drv.pc \in {"read", "write", "over"} /\ "ERR" \in ctl.rint
    /\ ctl' = [ctl EXCEPT !.rint = @ \ {"ERR"}]
    /\ Finish("Io")
    /\ UNCHANGED <<sdSc, card, boot>>
\* read_single(): RXDR and DTO are acknowledged together, then the FIFO is
\* read as far as STATUS says it is filled.
PollRead ==
    /\ AtPc("read") /\ "ERR" \notin ctl.rint /\ ctl.rint \cap {"RXDR", "DTO"} # {}
    /\ ctl' = [ctl EXCEPT !.rint = @ \ {"RXDR", "DTO"}]
    /\ drv' = [drv EXCEPT !.pc = "drain"]
    /\ UNCHANGED <<sdSc, card, boot>>
DrainFifo ==
    /\ AtPc("drain")
    /\ LET left == SD_WORDS - Len(drv.buf)
           n == IF left < Len(ctl.fifo) THEN left ELSE Len(ctl.fifo) IN
       /\ drv' = [drv EXCEPT !.buf = @ \o SubSeq(ctl.fifo, 1, n), !.pc = IF n = left THEN "over" ELSE "read"]
       /\ ctl' = [ctl EXCEPT !.fifo = SubSeq(@, n + 1, Len(@))]
    /\ UNCHANGED <<sdSc, card, boot>>
tx_ready == "TXDR" \in ctl.rint
\* write_single(): a word for every TXDR.
PollWrite ==
    /\ AtPc("write") /\ "ERR" \notin ctl.rint /\ tx_ready
    /\ LET w == Data(drv.k)[Len(drv.buf) + 1] IN
       /\ ctl' = [ctl EXCEPT !.rint = @ \ {"TXDR"}, !.fifo = Append(@, w)]
       /\ drv' = [drv EXCEPT !.buf = Append(@, w), !.pc = IF Len(drv.buf) + 1 = SD_WORDS THEN "over" ELSE "write"]
    /\ UNCHANGED <<sdSc, card, boot>>
transfer_over == "DTO" \in ctl.rint
DataTransferOver ==
    /\ AtPc("over") /\ "ERR" \notin ctl.rint /\ transfer_over
    /\ ctl' = [ctl EXCEPT !.rint = @ \ {"DTO"}]
    /\ BlockDone
    /\ UNCHANGED <<sdSc, card, boot>>
\* The deadline passes: nothing the loop waits for can come any more.
Timeout ==
    /\ ctl.xfer.dir = "none" /\ "ERR" \notin ctl.rint
    /\ \/ AtPc("read") /\ ctl.rint \cap {"RXDR", "DTO"} = {}
       \/ AtPc("write") /\ ~ tx_ready
       \/ AtPc("over") /\ ~ transfer_over
    /\ Finish("Again")
    /\ UNCHANGED <<sdSc, ctl, card, boot>>

SdNext ==
    \/ send_cmd \/ wait_cmd_done \/ NotReady \/ TryClock
    \/ CardSends \/ CardTakes \/ RaiseTXDR \/ CardFails
    \/ SdBegin \/ Command \/ PollError \/ PollRead \/ DrainFifo \/ PollWrite \/ DataTransferOver \/ Timeout
SdSpec == SdInit /\ [][SdNext]_sdVars
-----------------------------------------------------------------------------
(* Type invariant: the FIFO never holds more than its depth, and a block in *)
(* the buffer of read_single() or write_single() is never longer than one.  *)
SdTypeOK ==
    /\ Len(ctl.fifo) <= FIFO_DEPTH /\ Len(drv.buf) <= SD_WORDS
    /\ ctl.rint \subseteq {"RXDR", "TXDR", "DTO", "ERR"}
    /\ \A b \in SdBlocks : Len(card[b]) = SD_WORDS
    /\ boot.at \in DOMAIN AfterCommand \cup {"trial", "ready", "failed"}

(* A read that succeeds gives the words the card has in the block, in order *)
(* and of this transfer, also after one that broke off with words in the    *)
(* FIFO.                                                                    *)
SdReadExact ==
    \A r \in {drv.res[j] : j \in DOMAIN drv.res} :
        r.op.op = "read" /\ r.res = "Ok" => r.buf = r.was

(* A write that was reported as done is on the card: every block of it has  *)
(* the data until a later write; a write that failed leaves each block      *)
(* whole, old or new.                                                       *)
SdWriteOnCard ==
    /\ \A b \in SdBlocks : \E v \in -3 .. Len(sdSc.prog) : card[b] = Data(v)
    /\ \A j \in DOMAIN drv.res : LET r == drv.res[j] IN
          r.op.op = "write" /\ r.res = "Ok" =>
              \A b \in r.op.b .. r.op.b + r.op.n - 1 : \E v \in j .. Len(sdSc.prog) : card[b] = Data(v)

=============================================================================
