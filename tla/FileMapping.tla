----------------------------- MODULE FileMapping -----------------------------
(* One file mapped into several address spaces while it is read, written,     *)
(* truncated, punched and flushed through its descriptors:                    *)
(* os/src/mm/memory_set.rs (the frames of a shared mapping, page_mkwrite, the *)
(* sweep over the live address spaces, the writeback of a mapping) with       *)
(* os/src/fs/file.rs and os/src/fs/page_cache.rs.                             *)
(*                                                                            *)
(* A call is the list of steps it still has to take.  A step is what the code *)
(* does under one lock.  The locks that matter here are the state lock of an  *)
(* open file (FileInner) and the lock of an address space (MemorySet); both   *)
(* are held across steps and are therefore part of the state.  A page has     *)
(* FM_PAGE units, a file system block is one unit.  "cached" is a file with a *)
(* PageCache, "plain" one without, which uses the table SHARED_FILE_PAGES.    *)
(* A file is mapped from its beginning, with one mapping per address space.   *)
EXTENDS Integers, Sequences, FiniteSets, TLC

CONSTANTS FmTasks, FmSpaces, FmFds,
          FmNPages,      \* pages of the mapped window
          FM_PAGE,       \* PAGE_SIZE in units
          FmFrames,      \* physical frames, enough for every holder
          FmScenarios    \* [kind, size, full, space: task -> space, prog: task -> calls,
                         \*  left: the others start when task 1 has so many calls left]

VARIABLES fmSc,
          fmFile,   \* the file: size, lower size, disk, blocks, cache, dirty, reserved, table
          fmFrame,  \* the bytes of each frame
          fmArea,   \* the mapping of each address space
          fmLock,   \* the holders of the two kinds of lock
          fmOp,     \* the call of each task
          fmProg,   \* the calls a task still has to make
          fmStored  \* ghost: units whose last write was a store through a mapping
fmVars == <<fmSc, fmFile, fmFrame, fmArea, fmLock, fmOp, fmProg, fmStored>>

FmPages == 0..FmNPages - 1
FmUnits == 0..FmNPages * FM_PAGE - 1
InPage == 0..FM_PAGE - 1
Zeros == [i \in InPage |-> 0]
NoFrames == [p \in FmPages |-> 0]
Cached == fmSc.kind = "cached"
FmMin(a, b) == IF a < b THEN a ELSE b
FmMax(a, b) == IF a > b THEN a ELSE b
Least(S) == CHOOSE x \in S : \A y \in S : x <= y
UnitsOf(p) == {p * FM_PAGE + i : i \in InPage}

FmIdle == [todo |-> <<>>, call |-> [op |-> "none"], old |-> 0, size |-> 0,
           frames |-> NoFrames, wbs |-> <<>>, match |-> {}, ret |-> 0]
NoMapping == [on |-> FALSE, fd |-> 0, shared |-> FALSE, write |-> FALSE,
           data |-> NoFrames, w |-> {}, cow |-> {}]

FmInit ==
    /\ fmSc \in FmScenarios
    /\ fmFile = [size |-> fmSc.size, lower |-> fmSc.size,
                 disk |-> [u \in FmUnits |-> IF u < fmSc.size THEN 1 ELSE 0],
                 blocks |-> 0..fmSc.size - 1, cache |-> NoFrames, dirty |-> {},
                 reserved |-> NoFrames, table |-> NoFrames]
    /\ fmFrame = [f \in FmFrames |-> Zeros]
    /\ fmArea = [a \in FmSpaces |-> NoMapping]
    /\ fmLock = [file |-> [d \in FmFds |-> 0], space |-> [a \in FmSpaces |-> 0]]
    /\ fmOp = [t \in FmTasks |-> FmIdle]
    /\ fmProg = fmSc.prog
    /\ fmStored = {}

------------------------------------------------------------------------------
(* The steps of a call.                                                       *)

FmAt(t, s) == fmOp[t].todo # <<>> /\ Head(fmOp[t].todo)[1] = s
FmArg(t) == Head(fmOp[t].todo)[2]
FmCall(t) == fmOp[t].call
Space(t) == fmSc.space[t]
Steps(names) == [i \in DOMAIN names |-> <<names[i], 0>>]
(* The call of t goes on with the steps "more" before the ones it had left.   *)
FmThen(t, more, r) ==
    fmOp' = [fmOp EXCEPT ![t] = r @@ [@ EXCEPT !.todo = more \o Tail(@)]]
FmDo(t, r) == FmThen(t, <<>>, r)
FmNil == [old |-> 0]
FmKeep(t) == FmDo(t, [old |-> fmOp[t].old])
FmOver(t, ret) == fmOp' = [fmOp EXCEPT ![t] = [FmIdle EXCEPT !.ret = ret]]

FileFree(d) == fmLock.file[d] = 0
SpaceFree(a) == fmLock.space[a] = 0
Unlocked(t) == [file |-> [d \in FmFds |-> IF fmLock.file[d] = t THEN 0 ELSE fmLock.file[d]],
                space |-> [a \in FmSpaces |-> IF fmLock.space[a] = t THEN 0 ELSE fmLock.space[a]]]

(* Frames something holds: a frame with no holder is free (Arc<FrameTracker>). *)
Holders(f) ==
    {<<"cache", p>> : p \in {q \in FmPages : fmFile.cache[q] = f}}
    \cup {<<"map", a>> : a \in {b \in FmSpaces : \E p \in FmPages : fmArea[b].data[p] = f}}
    \cup {<<"call", t>> : t \in {s \in FmTasks : \E p \in FmPages : fmOp[s].frames[p] = f}}
FreeFrame == Least({f \in FmFrames : Holders(f) = {} /\ \A p \in FmPages : fmFile.table[p] # f})
(* A Weak entry of SHARED_FILE_PAGES upgrades while a mapping or a call holds it. *)
Upgraded(p) == IF fmFile.table[p] # 0 /\ Holders(fmFile.table[p]) # {} THEN fmFile.table[p] ELSE 0

------------------------------------------------------------------------------
(* The page cache.                                                            *)

(* What the lower file gives for page p when the cache believes in "size".    *)
LowerPage(p) ==
    [i \in InPage |-> LET u == p * FM_PAGE + i
                      IN IF u < fmFile.size /\ u < fmFile.lower THEN fmFile.disk[u] ELSE 0]
(* PageCache::shared_frame_at: the cached frame, or a fresh one filled from below. *)
shared_frame_at(p) == IF fmFile.cache[p] # 0 THEN fmFile.cache[p] ELSE FreeFrame
FilledAt(p) == IF fmFile.cache[p] # 0 THEN fmFrame
               ELSE [fmFrame EXCEPT ![FreeFrame] = LowerPage(p)]

(* PageCache::write_at of the values "new" (unit -> value) within one page.   *)
needs_old_data(p, new) ==
    /\ p * FM_PAGE < fmFile.size
    /\ DOMAIN new # UnitsOf(p)
    /\ \E u \in UnitsOf(p) \ DOMAIN new : u < fmFile.size
cache_write_at(p, new) ==
    LET f == shared_frame_at(p)
        before == IF fmFile.cache[p] # 0 THEN fmFrame[f]
                  ELSE IF needs_old_data(p, new) THEN LowerPage(p) ELSE Zeros
        end == 1 + CHOOSE u \in DOMAIN new : \A v \in DOMAIN new : v <= u
    IN /\ fmFile' = [fmFile EXCEPT !.cache[p] = f, !.dirty = @ \cup {p},
                                   !.size = FmMax(@, end)]
       /\ fmFrame' = [fmFrame EXCEPT ![f] =
             [i \in InPage |-> LET u == p * FM_PAGE + i
                               IN IF u \in DOMAIN new THEN new[u] ELSE before[i]]]

(* The dirty pages of S reach the lower file, up to the size of the file.     *)
Synced(file, S) ==
    LET out == {u \in FmUnits : /\ u < file.size
                                /\ u \div FM_PAGE \in S \cap file.dirty
                                /\ file.cache[u \div FM_PAGE] # 0}
    IN [file EXCEPT
          !.disk = [u \in FmUnits |->
                      IF u \in out THEN fmFrame[file.cache[u \div FM_PAGE]][u % FM_PAGE] ELSE @[u]],
          !.blocks = @ \cup out,
          !.lower = FmMax(@, IF out = {} THEN 0 ELSE 1 + CHOOSE u \in out : \A v \in out : v <= u),
          !.dirty = @ \ S]

(* PageCache::resize: pages past the end leave the cache, their bytes and the *)
(* tail of the last page are cleared, reservations are cut to the new size.   *)
trimmed(prefix, p, n) == FmMin(prefix, FmMax(0, n - p * FM_PAGE))
reserved_after(prefix, p, n) == trimmed(prefix, p, n)
resize(n) ==
    LET gone == {p \in FmPages : p * FM_PAGE >= n}
    IN IF n >= fmFile.size
       THEN fmFile' = [fmFile EXCEPT !.size = n] /\ UNCHANGED fmFrame
       ELSE /\ fmFile' = [fmFile EXCEPT !.size = n, !.dirty = @ \ gone,
                 !.cache = [p \in FmPages |-> IF p \in gone THEN 0 ELSE @[p]],
                 !.reserved = [p \in FmPages |-> reserved_after(@[p], p, n)]]
            /\ fmFrame' = [f \in FmFrames |->
                 IF \E p \in FmPages : fmFile.cache[p] = f
                 THEN LET p == CHOOSE q \in FmPages : fmFile.cache[q] = f
                      IN [i \in InPage |-> IF p * FM_PAGE + i >= n THEN 0 ELSE fmFrame[f][i]]
                 ELSE fmFrame[f]]

(* PageCache::punch_hole: a page wholly inside leaves the cache, the bytes of *)
(* the range are cleared.  Reservations stay as they are.                     *)
cache_punch(S) ==
    LET whole == {p \in FmPages : UnitsOf(p) \subseteq S}
    IN /\ fmFile' = [fmFile EXCEPT !.dirty = @ \ whole,
             !.cache = [p \in FmPages |-> IF p \in whole THEN 0 ELSE @[p]]]
       /\ fmFrame' = [f \in FmFrames |->
             IF \E p \in FmPages : fmFile.cache[p] = f
             THEN LET p == CHOOSE q \in FmPages : fmFile.cache[q] = f
                  IN [i \in InPage |-> IF p * FM_PAGE + i \in S THEN 0 ELSE fmFrame[f][i]]
             ELSE fmFrame[f]]

(* The compatibility frames: the bytes of the live frame of a page of S.      *)
(* update_shared_file_pages mirrors a write, truncate_shared_file_pages and   *)
(* punch_shared_file_pages clear.                                             *)
mirrored(new) ==
    [f \in FmFrames |->
       IF \E p \in FmPages : Upgraded(p) = f
       THEN LET p == CHOOSE q \in FmPages : Upgraded(q) = f
            IN [i \in InPage |-> IF p * FM_PAGE + i \in DOMAIN new
                                 THEN new[p * FM_PAGE + i] ELSE fmFrame[f][i]]
       ELSE fmFrame[f]]
update_shared_file_pages(new) == fmFrame' = mirrored(new)
truncate_shared_file_pages(n) == fmFrame' = mirrored([u \in {v \in FmUnits : v >= n} |-> 0])
punch_shared_file_pages(S) == fmFrame' = mirrored([u \in S |-> 0])
(* overlay_shared_file_pages: a live frame hides what the lower file holds.   *)
overlay_shared_file_pages(u, val) ==
    LET f == Upgraded(u \div FM_PAGE) IN IF f = 0 THEN val ELSE fmFrame[f][u % FM_PAGE]

------------------------------------------------------------------------------
(* The calls.                                                                 *)

Sweep(s) == [i \in 1..3 * Cardinality(FmSpaces) |->
               <<(<<"handles", "stat_match", s>>)[((i - 1) % 3) + 1], ((i - 1) \div 3) + 1>>]
PerPage(s) == [i \in 1..FmNPages |-> <<s, i - 1>>]

(* The order in which truncate gives its lock back and visits the mappings.   *)
unlock_then(sweep) == <<<<"unlock", 0>>>> \o sweep
release_and(sweep) == unlock_then(sweep)

CallSteps(c) ==
    CASE c.op \in {"load", "store"} -> Steps(<<"access">>)
      [] c.op = "mmap" -> IF c.shared
                          THEN Steps(<<"mmap_stat">>) \o PerPage("mmap_frame") \o Steps(<<"install">>)
                          ELSE Steps(<<"mmap_stat", "install">>)
      [] c.op = "msync" -> Steps(<<"snapshot", "sync_range">>)
      [] c.op = "munmap" -> Steps(<<"snapshot", "unmap">>)
      [] c.op = "read" -> Steps(<<"read">>)
      [] c.op = "write" -> Steps(<<"write">>)
      [] c.op = "truncate" -> Steps(<<"truncate", "resize">>)
      [] c.op = "punch" -> Steps(<<"punch_sync", "punch_lower", "punch_cache">>)
                           \o release_and(Sweep("sweep_punch"))
      [] c.op = "fadvise" -> Steps(<<"advise_sync", "advise_evict">>)

FmBegin(t) ==
    /\ fmOp[t].todo = <<>> /\ fmProg[t] # <<>>
    /\ t = 1 \/ Len(fmProg[1]) < fmSc.left \/ (Len(fmProg[1]) = fmSc.left /\ fmOp[1].todo = <<>>)
    /\ fmOp' = [fmOp EXCEPT ![t] = [FmIdle EXCEPT !.call = Head(fmProg[t]),
                                                  !.todo = CallSteps(Head(fmProg[t]))]]
    /\ fmProg' = [fmProg EXCEPT ![t] = Tail(@)]
    /\ UNCHANGED <<fmSc, fmFile, fmFrame, fmArea, fmLock, fmStored>>

(* shared_file_frame of page p for call t.  A cached file gives the frame of  *)
(* its PageCache.  A plain one looks into the table, else reads a fresh frame *)
(* outside every lock and publishes it unless another call was first.         *)
shared_file_frame(t, p) ==
    \/ /\ Cached
       /\ FmDo(t, [frames |-> [fmOp[t].frames EXCEPT ![p] = shared_frame_at(p)]])
       /\ fmFrame' = FilledAt(p)
       /\ fmFile' = [fmFile EXCEPT !.cache[p] = shared_frame_at(p)]
    \/ /\ ~Cached /\ Upgraded(p) # 0
       /\ FmDo(t, [frames |-> [fmOp[t].frames EXCEPT ![p] = Upgraded(p)]])
       /\ UNCHANGED <<fmFile, fmFrame>>
    \/ /\ ~Cached /\ Upgraded(p) = 0
       /\ FmThen(t, <<<<"publish", p>>>>, [frames |-> [fmOp[t].frames EXCEPT ![p] = FreeFrame]])
       /\ fmFrame' = [fmFrame EXCEPT ![FreeFrame] = LowerPage(p)]
       /\ UNCHANGED fmFile
publish_frame(t) ==
    LET p == FmArg(t)
    IN /\ FmAt(t, "publish")
       /\ IF Upgraded(p) # 0
          THEN /\ FmDo(t, [frames |-> [fmOp[t].frames EXCEPT ![p] = Upgraded(p)]])
               /\ UNCHANGED fmFile
          ELSE /\ FmKeep(t)
               /\ fmFile' = [fmFile EXCEPT !.table =
                     [q \in FmPages |-> IF q = p THEN fmOp[t].frames[p] ELSE Upgraded(q)]]
       /\ UNCHANGED <<fmSc, fmFrame, fmArea, fmLock, fmProg, fmStored>>

(* mmap_file_backing and mmap_area: the frames are collected before the lock  *)
(* of the address space is taken.                                             *)
mmap_file_backing(t) ==
    /\ FmAt(t, "mmap_stat") /\ FileFree(FmCall(t).fd)
    /\ FmDo(t, [size |-> fmFile.size])
    /\ UNCHANGED <<fmSc, fmFile, fmFrame, fmArea, fmLock, fmProg, fmStored>>
mmap_shared_file_frames(t) ==
    /\ FmAt(t, "mmap_frame") /\ FileFree(FmCall(t).fd)
    /\ shared_file_frame(t, FmArg(t))
    /\ UNCHANGED <<fmSc, fmArea, fmLock, fmProg, fmStored>>
(* Writable shared pages start read-only, pages past the end start absent.    *)
mmap_area(t) ==
    LET c == FmCall(t)
    IN /\ FmAt(t, "install") /\ SpaceFree(Space(t))
       /\ fmArea' = [fmArea EXCEPT ![Space(t)] =
             [on |-> TRUE, fd |-> c.fd, shared |-> c.shared, write |-> c.write, w |-> {}, cow |-> {},
              data |-> [p \in FmPages |-> IF c.shared /\ p * FM_PAGE < fmOp[t].size
                                          THEN fmOp[t].frames[p] ELSE 0]]]
       /\ FmOver(t, 0)
       /\ UNCHANGED <<fmSc, fmFile, fmFrame, fmLock, fmProg, fmStored>>

(* A load or a store of the user program, and the fault it takes.             *)
Access(t) ==
    LET c == FmCall(t)
        a == Space(t)
        area == fmArea[a]
        f == area.data[c.page]
        trap(more) == /\ fmLock' = [fmLock EXCEPT !.space[a] = t]
                      /\ FmThen(t, Steps(more), FmNil)
                      /\ UNCHANGED <<fmArea, fmFrame, fmStored>>
    IN /\ FmAt(t, "access")
       /\ \/ /\ f # 0 /\ c.op = "load"
             /\ FmOver(t, fmFrame[f][c.unit])
             /\ UNCHANGED <<fmArea, fmFrame, fmLock, fmStored>>
          \/ /\ f # 0 /\ c.op = "store" /\ c.page \in area.w
             /\ fmFrame' = [fmFrame EXCEPT ![f][c.unit] = c.val]
             /\ fmStored' = IF area.shared THEN fmStored \cup {c.page * FM_PAGE + c.unit} ELSE fmStored
             /\ FmOver(t, 0)
             /\ UNCHANGED <<fmArea, fmLock>>
          \/ /\ ~area.on \/ (c.op = "store" /\ ~area.write)
             /\ SpaceFree(a) /\ FmOver(t, -1)
             /\ UNCHANGED <<fmArea, fmFrame, fmLock, fmStored>>
          \/ /\ f # 0 /\ c.op = "store" /\ c.page \in area.cow
             /\ SpaceFree(a)
             /\ fmArea' = [fmArea EXCEPT ![a].data[c.page] = FreeFrame,
                                         ![a].w = @ \cup {c.page}, ![a].cow = @ \ {c.page}]
             /\ fmFrame' = [fmFrame EXCEPT ![FreeFrame] = fmFrame[f]]
             /\ UNCHANGED <<fmOp, fmLock, fmStored>>
          \/ /\ f # 0 /\ c.op = "store" /\ area.write /\ area.shared /\ c.page \notin area.w
             /\ SpaceFree(a) /\ trap(<<"mkwrite_stat", "reserve", "make_writable", "access">>)
          \/ /\ f = 0 /\ area.on /\ (c.op = "store" => area.write)
             /\ SpaceFree(a) /\ trap(<<"map_stat", "map_frame", "map_one", "access">>)
       /\ UNCHANGED <<fmSc, fmFile, fmProg>>

(* The sizes the fault looks at; past the end the task gets SIGBUS.           *)
FaultStat(t) ==
    LET off == FmCall(t).page * FM_PAGE
    IN /\ FmAt(t, "mkwrite_stat") \/ FmAt(t, "map_stat")
       /\ FileFree(fmArea[Space(t)].fd)
       /\ IF off >= fmFile.size
          THEN FmOver(t, -1) /\ fmLock' = Unlocked(t)
          ELSE FmDo(t, [size |-> fmFile.size]) /\ UNCHANGED fmLock
       /\ UNCHANGED <<fmSc, fmFile, fmFrame, fmArea, fmProg, fmStored>>

(* File::reserve_shared_mmap_write with PageCache::reserve_mmap_prefix: the   *)
(* bytes past the prefix already reserved are written below, or the fault     *)
(* fails when the file system has no room for their blocks.                   *)
already_reserved(p) == fmFile.reserved[p]
reserve_shared_mmap_write(t) ==
    LET a == Space(t)
        p == FmCall(t).page
        off == p * FM_PAGE
        prefix == FmMin(FmMin(fmOp[t].size - off, FM_PAGE), fmFile.size - off)
        more == {u \in UnitsOf(p) : u >= off + already_reserved(p) /\ u < off + prefix}
        bad == off >= fmFile.size \/ (fmSc.full /\ more # {} /\ ~(more \subseteq fmFile.blocks))
    IN /\ FmAt(t, "reserve") /\ FileFree(fmArea[a].fd)
       /\ IF ~Cached THEN FmKeep(t) /\ UNCHANGED <<fmFile, fmLock>>
          ELSE IF bad THEN FmOver(t, -1) /\ fmLock' = Unlocked(t) /\ UNCHANGED fmFile
          ELSE /\ FmKeep(t)
               /\ fmFile' = IF more = {} THEN fmFile
                     ELSE [fmFile EXCEPT !.reserved[p] = prefix, !.blocks = @ \cup more,
                             !.lower = FmMax(@, off + prefix),
                             !.disk = [u \in FmUnits |-> IF u \in more
                                         THEN fmFrame[fmArea[a].data[p]][u - off] ELSE @[u]]]
               /\ UNCHANGED fmLock
       /\ UNCHANGED <<fmSc, fmFrame, fmArea, fmProg, fmStored>>
MakeWritable(t) ==
    /\ FmAt(t, "make_writable")
    /\ fmArea' = [fmArea EXCEPT ![Space(t)].w = @ \cup {FmCall(t).page}]
    /\ fmLock' = Unlocked(t)
    /\ FmKeep(t)
    /\ UNCHANGED <<fmSc, fmFile, fmFrame, fmProg, fmStored>>

(* MapArea::map_one for a page of a file.                                     *)
MapFrame(t) ==
    /\ FmAt(t, "map_frame") /\ FileFree(fmArea[Space(t)].fd)
    /\ shared_file_frame(t, FmCall(t).page)
    /\ UNCHANGED <<fmSc, fmArea, fmLock, fmProg, fmStored>>
map_one_file(t) ==
    LET a == Space(t)
        p == FmCall(t).page
    IN /\ FmAt(t, "map_one")
       /\ fmArea' = [fmArea EXCEPT ![a].data[p] = fmOp[t].frames[p],
             ![a].cow = IF fmArea[a].write /\ ~fmArea[a].shared THEN @ \cup {p} ELSE @]
       /\ fmLock' = Unlocked(t)
       /\ FmDo(t, [frames |-> NoFrames])
       /\ UNCHANGED <<fmSc, fmFile, fmFrame, fmProg, fmStored>>

(* File::read and File::write of one unit, under the lock of the open file.   *)
(* A plain file is read and written below first, its frames follow.           *)
FileRead(t) ==
    LET c == FmCall(t)
        p == c.off \div FM_PAGE
        low == IF c.off < fmFile.size THEN fmFile.disk[c.off] ELSE 0
    IN /\ \/ /\ FmAt(t, "read") /\ FileFree(c.fd) /\ (Cached \/ c.off >= fmFile.size)
             /\ IF c.off >= fmFile.size THEN FmOver(t, -1) /\ UNCHANGED <<fmFile, fmFrame>>
                ELSE /\ FmOver(t, FilledAt(p)[shared_frame_at(p)][c.off % FM_PAGE])
                     /\ fmFrame' = FilledAt(p)
                     /\ fmFile' = [fmFile EXCEPT !.cache[p] = shared_frame_at(p)]
             /\ UNCHANGED fmLock
          \/ /\ FmAt(t, "read") /\ FileFree(c.fd) /\ ~Cached /\ c.off < fmFile.size
             /\ fmLock' = [fmLock EXCEPT !.file[c.fd] = t]
             /\ FmThen(t, Steps(<<"overlay">>), [size |-> low])
             /\ UNCHANGED <<fmFile, fmFrame>>
          \/ /\ FmAt(t, "overlay")
             /\ FmOver(t, overlay_shared_file_pages(c.off, fmOp[t].size))
             /\ fmLock' = Unlocked(t)
             /\ UNCHANGED <<fmFile, fmFrame>>
       /\ UNCHANGED <<fmSc, fmArea, fmProg, fmStored>>

lower_write(new) ==
    fmFile' = [fmFile EXCEPT !.disk = new @@ @, !.blocks = @ \cup DOMAIN new,
                 !.size = FmMax(@, 1 + CHOOSE u \in DOMAIN new : \A v \in DOMAIN new : v <= u),
                 !.lower = FmMax(@, 1 + CHOOSE u \in DOMAIN new : \A v \in DOMAIN new : v <= u)]
write_locked(t) ==
    LET c == FmCall(t)
        new == c.off :> c.val
    IN /\ \/ /\ FmAt(t, "write") /\ FileFree(c.fd) /\ Cached
             /\ cache_write_at(c.off \div FM_PAGE, new)
             /\ FmOver(t, 0) /\ UNCHANGED fmLock
             /\ fmStored' = fmStored \ {c.off}
          \/ /\ FmAt(t, "write") /\ FileFree(c.fd) /\ ~Cached
             /\ lower_write(new)
             /\ fmLock' = [fmLock EXCEPT !.file[c.fd] = t]
             /\ FmThen(t, Steps(<<"mirror">>), FmNil)
             /\ UNCHANGED <<fmFrame, fmStored>>
          \/ /\ FmAt(t, "mirror")
             /\ update_shared_file_pages(new)
             /\ fmLock' = Unlocked(t)
             /\ FmOver(t, 0)
             /\ fmStored' = fmStored \ {c.off}
             /\ UNCHANGED fmFile
       /\ UNCHANGED <<fmSc, fmArea, fmProg>>

(* File::truncate: below, in the cache, a flush when it shrinks, and after    *)
(* the lock is given back a visit to every address space.                     *)
needs_protect(old, n) == old < n /\ FM_PAGE > 1 /\ old % FM_PAGE # 0
protect_extended_file_mappings(old, n) == needs_protect(old, n)
truncate(t) ==
    LET c == FmCall(t)
        old == fmFile.size
        cut == {u \in FmUnits : u >= c.size}
    IN /\ FmAt(t, "truncate") /\ FileFree(c.fd)
       /\ fmLock' = [fmLock EXCEPT !.file[c.fd] = t]
       /\ FmDo(t, [old |-> old])
       /\ fmFile' = IF c.size = old THEN fmFile
                    ELSE [fmFile EXCEPT !.lower = c.size, !.blocks = @ \ cut,
                            !.disk = [u \in FmUnits |-> IF u \in cut THEN 0 ELSE @[u]],
                            !.size = IF Cached THEN @ ELSE c.size]
       /\ UNCHANGED <<fmSc, fmFrame, fmArea, fmProg, fmStored>>
truncate_resize(t) ==
    LET c == FmCall(t)
        old == fmOp[t].old
        sweep == IF c.size < old THEN Sweep("sweep_truncate")
                 ELSE IF protect_extended_file_mappings(old, c.size) THEN Sweep("sweep_protect")
                 ELSE <<>>
    IN /\ FmAt(t, "resize")
       /\ IF Cached THEN resize(c.size)
          ELSE IF c.size < old THEN truncate_shared_file_pages(c.size) /\ UNCHANGED fmFile
          ELSE UNCHANGED <<fmFile, fmFrame>>
       /\ FmThen(t, (IF Cached /\ c.size < old THEN Steps(<<"flush">>) ELSE <<>>) \o release_and(sweep),
                 [old |-> old])
       /\ fmStored' = {u \in fmStored : u < c.size}
       /\ UNCHANGED <<fmSc, fmArea, fmLock, fmProg>>
flush_page_cache(t) ==
    /\ FmAt(t, "flush")
    /\ fmFile' = Synced(fmFile, FmPages)
    /\ FmKeep(t)
    /\ UNCHANGED <<fmSc, fmFrame, fmArea, fmLock, fmProg, fmStored>>
unlock_file(t) ==
    /\ FmAt(t, "unlock")
    /\ fmLock' = Unlocked(t)
    /\ FmKeep(t)
    /\ UNCHANGED <<fmSc, fmFile, fmFrame, fmArea, fmProg, fmStored>>

(* File::punch_hole of the units of the call, clipped to the file.            *)
Hole(t) == {u \in FmUnits : u >= FmCall(t).off /\ u < fmOp[t].size}
punch_hole(t) ==
    LET c == FmCall(t)
        end == FmMin(c.off + c.len, fmFile.size)
    IN /\ \/ /\ FmAt(t, "punch_sync") /\ FileFree(c.fd)
             /\ IF c.off >= end THEN FmOver(t, 0) /\ UNCHANGED <<fmFile, fmLock>>
                ELSE /\ fmFile' = IF Cached THEN Synced(fmFile, (c.off \div FM_PAGE)..((end - 1) \div FM_PAGE))
                                  ELSE fmFile
                     /\ fmLock' = [fmLock EXCEPT !.file[c.fd] = t]
                     /\ FmDo(t, [size |-> end])
             /\ UNCHANGED <<fmFrame, fmStored>>
          \/ /\ FmAt(t, "punch_lower")
             /\ fmFile' = [fmFile EXCEPT !.blocks = @ \ Hole(t),
                             !.disk = [u \in FmUnits |-> IF u \in Hole(t) THEN 0 ELSE @[u]]]
             /\ FmKeep(t)
             /\ UNCHANGED <<fmFrame, fmLock, fmStored>>
          \/ /\ FmAt(t, "punch_cache")
             /\ IF Cached THEN cache_punch(Hole(t)) ELSE punch_shared_file_pages(Hole(t)) /\ UNCHANGED fmFile
             /\ FmKeep(t)
             /\ fmStored' = fmStored \ Hole(t)
             /\ UNCHANGED fmLock
       /\ UNCHANGED <<fmSc, fmArea, fmProg>>

(* The visit of one address space: the files it maps, which of them is this   *)
(* file, and what the change does to the pages of those mappings.             *)
mapped_file_handles(t) ==
    LET a == FmArg(t)
    IN /\ FmAt(t, "handles") /\ SpaceFree(a)
       /\ FmDo(t, [match |-> IF fmArea[a].on THEN {fmArea[a].fd} ELSE {}])
       /\ UNCHANGED <<fmSc, fmFile, fmFrame, fmArea, fmLock, fmProg, fmStored>>
StatMatch(t) ==
    /\ FmAt(t, "stat_match") /\ \A d \in fmOp[t].match : FileFree(d)
    /\ FmKeep(t)
    /\ UNCHANGED <<fmSc, fmFile, fmFrame, fmArea, fmLock, fmProg, fmStored>>
Unmapped(area, S) ==
    [area EXCEPT !.data = [p \in FmPages |-> IF p \in S THEN 0 ELSE @[p]],
                 !.w = @ \ S, !.cow = @ \ S]
past_end(n) == {p \in FmPages : p * FM_PAGE >= n}
truncate_victims(n) == past_end(n)
invalidate_truncated_file(area, n) == Unmapped(area, truncate_victims(n))
invalidate_punched_file(area, S) ==
    Unmapped(area, {p \in FmPages : UnitsOf(p) \subseteq S /\ (area.shared \/ ~area.write \/ p \in area.cow)})
write_protect_file_page(area, p) ==
    IF area.shared /\ area.write THEN [area EXCEPT !.w = @ \ {p}] ELSE area
SweepSpace(t) ==
    LET a == FmArg(t)
        hit == fmArea[a].on /\ fmArea[a].fd \in fmOp[t].match
    IN /\ FmAt(t, "sweep_truncate") \/ FmAt(t, "sweep_protect") \/ FmAt(t, "sweep_punch")
       /\ SpaceFree(a)
       /\ fmArea' = [fmArea EXCEPT ![a] =
             IF ~hit THEN @
             ELSE IF FmAt(t, "sweep_truncate") THEN invalidate_truncated_file(@, FmCall(t).size)
             ELSE IF FmAt(t, "sweep_protect") THEN write_protect_file_page(@, fmOp[t].old \div FM_PAGE)
             ELSE invalidate_punched_file(@, Hole(t))]
       /\ FmDo(t, [match |-> {}])
       /\ UNCHANGED <<fmSc, fmFile, fmFrame, fmLock, fmProg, fmStored>>

(* prepare_file_writeback copies the resident pages of a writable shared      *)
(* mapping under the lock of the address space; writeback_file_pages writes   *)
(* each copy later, cut to the size the file has when it looks.               *)
shared_pages(area) == IF area.on /\ area.shared /\ area.write
                      THEN {p \in FmPages : area.data[p] # 0} ELSE {}
writeback_pages(area) == shared_pages(area)
prepare_file_writeback(t) ==
    LET area == fmArea[Space(t)]
        S == writeback_pages(area)
        seq == SelectSeq([i \in 1..FmNPages |-> i - 1], LAMBDA p : p \in S)
        step(i) == IF i % 2 = 1 THEN "wb_stat" ELSE "wb_write"
    IN /\ FmAt(t, "snapshot") /\ SpaceFree(Space(t))
       /\ FmThen(t, [i \in 1..2 * Len(seq) |-> <<step(i), 0>>],
                 [wbs |-> [i \in 1..Len(seq) |-> [page |-> seq[i], fd |-> area.fd,
                                                  bytes |-> fmFrame[area.data[seq[i]]]]]])
       /\ UNCHANGED <<fmSc, fmFile, fmFrame, fmArea, fmLock, fmProg, fmStored>>
writeback_file_pages(t) ==
    LET wb == Head(fmOp[t].wbs)
        off == wb.page * FM_PAGE
        len == FmMin(FmMax(0, fmOp[t].size - off), FM_PAGE)
        new == [u \in off..off + len - 1 |-> wb.bytes[u - off]]
    IN /\ fmOp[t].wbs # <<>> /\ FileFree(wb.fd)
       /\ \/ /\ FmAt(t, "wb_stat")
             /\ FmDo(t, [size |-> fmFile.size])
             /\ UNCHANGED <<fmFile, fmFrame, fmStored>>
          \/ /\ FmAt(t, "wb_write") /\ len = 0
             /\ FmDo(t, [wbs |-> Tail(fmOp[t].wbs)])
             /\ UNCHANGED <<fmFile, fmFrame, fmStored>>
          \/ /\ FmAt(t, "wb_write") /\ len > 0 /\ Cached
             /\ cache_write_at(wb.page, new)
             /\ FmDo(t, [wbs |-> Tail(fmOp[t].wbs)])
             /\ UNCHANGED fmStored
          \/ /\ FmAt(t, "wb_write") /\ len > 0 /\ ~Cached
             /\ lower_write(new)
             /\ FmThen(t, Steps(<<"wb_mirror">>), [old |-> 0])
             /\ UNCHANGED <<fmFrame, fmStored>>
          \/ /\ FmAt(t, "wb_mirror")
             /\ update_shared_file_pages(new)
             /\ FmDo(t, [wbs |-> Tail(fmOp[t].wbs)])
             /\ fmStored' = fmStored \ DOMAIN new
             /\ UNCHANGED fmFile
       /\ UNCHANGED <<fmSc, fmArea, fmLock, fmProg>>
(* MS_SYNC waits for the range; munmap removes the mapping.                   *)
MsyncRange(t) ==
    /\ FmAt(t, "sync_range")
    /\ fmFile' = IF Cached THEN Synced(fmFile, FmPages) ELSE fmFile
    /\ FmOver(t, 0)
    /\ UNCHANGED <<fmSc, fmFrame, fmArea, fmLock, fmProg, fmStored>>
munmap(t) ==
    /\ FmAt(t, "unmap") /\ SpaceFree(Space(t))
    /\ fmArea' = [fmArea EXCEPT ![Space(t)] = NoMapping]
    /\ FmOver(t, 0)
    /\ UNCHANGED <<fmSc, fmFile, fmFrame, fmLock, fmProg, fmStored>>

(* POSIX_FADV_DONTNEED: a flush, then clean pages nothing else holds go.      *)
sole_holder(p) == Cardinality(Holders(fmFile.cache[p])) = 1
any_holder(p) == TRUE                                              \* mutant
removable(p) == sole_holder(p)
fadvise(t) ==
    /\ \/ /\ FmAt(t, "advise_sync") /\ FileFree(FmCall(t).fd)
          /\ fmFile' = IF Cached THEN Synced(fmFile, FmPages) ELSE fmFile
          /\ FmKeep(t)
       \/ /\ FmAt(t, "advise_evict")
          /\ fmFile' = [fmFile EXCEPT !.cache = [p \in FmPages |->
                IF @[p] # 0 /\ p \notin fmFile.dirty /\ removable(p) THEN 0 ELSE @[p]]]
          /\ FmOver(t, 0)
    /\ UNCHANGED <<fmSc, fmFrame, fmArea, fmLock, fmProg, fmStored>>

FmNext ==
    \E t \in FmTasks :
        \/ FmBegin(t) \/ publish_frame(t) \/ mmap_file_backing(t) \/ mmap_shared_file_frames(t)
        \/ mmap_area(t) \/ Access(t) \/ FaultStat(t) \/ reserve_shared_mmap_write(t)
        \/ MakeWritable(t) \/ MapFrame(t) \/ map_one_file(t) \/ FileRead(t) \/ write_locked(t)
        \/ truncate(t) \/ truncate_resize(t) \/ flush_page_cache(t) \/ unlock_file(t)
        \/ punch_hole(t) \/ mapped_file_handles(t) \/ StatMatch(t) \/ SweepSpace(t)
        \/ prepare_file_writeback(t) \/ writeback_file_pages(t) \/ MsyncRange(t) \/ munmap(t)
        \/ fadvise(t)
FmSpec == FmInit /\ [][FmNext]_fmVars

------------------------------------------------------------------------------
(* Properties.                                                                *)

InCall(t, ops) == fmOp[t].todo # <<>> /\ FmCall(t).op \in ops
(* No change of the file's extent is between its cache and its mappings.      *)
Settled == \A t \in FmTasks : ~InCall(t, {"truncate", "punch"})

(* Types; and a page is reserved for stores only as far as the file reaches   *)
(* (PageCache::resize cuts mmap_reserved_prefixes).                           *)
FmTypeOK ==
    /\ fmFile.size \in 0..FmNPages * FM_PAGE /\ fmFile.lower \in 0..FmNPages * FM_PAGE
    /\ \A p \in FmPages : /\ fmFile.cache[p] \in {0} \cup FmFrames
                          /\ fmFile.reserved[p] \in 0..FmMax(0, FmMin(FM_PAGE, fmFile.size - p * FM_PAGE))
    /\ fmFile.dirty \subseteq {p \in FmPages : fmFile.cache[p] # 0}
    /\ \A a \in FmSpaces : fmArea[a].w \cap fmArea[a].cow = {}

(* Buffered I/O and every mapping use one frame per page: with no truncate or *)
(* punch under way, a resident page of a shared mapping, or a clean page of a *)
(* private one, is the frame the file has for it now (shared_file_frame,      *)
(* evict_clean_range, truncate_file_mappings, punch_file_mappings).           *)
MappedIsCached ==
    Settled => \A a \in FmSpaces, p \in FmPages :
        LET area == fmArea[a]
        IN area.data[p] # 0 /\ (area.shared \/ p \in area.cow)
           => area.data[p] = IF Cached THEN fmFile.cache[p] ELSE fmFile.table[p]

(* Once a truncate has returned no page past the new end stays mapped, so an  *)
(* access there faults (truncate_file_mappings against faults in flight).     *)
NothingPastEnd ==
    Settled => \A a \in FmSpaces, p \in FmPages :
        fmArea[a].data[p] # 0 => p * FM_PAGE < fmFile.size

(* A store can reach a page of the file only when every block of the page     *)
(* exists below, so that a full file system is reported at the store          *)
(* (reserve_shared_mmap_write, protect_extended_file_mappings).               *)
WritableIsReserved ==
    Settled /\ Cached => \A a \in FmSpaces, p \in FmPages :
        fmArea[a].shared /\ p \in fmArea[a].w
        => {u \in UnitsOf(p) : u < fmFile.size} \subseteq fmFile.blocks

(* Bytes the disk does not have are in a dirty page, or in a page a writable  *)
(* shared mapping still holds and will write back (prepare_file_writeback     *)
(* before munmap, evict_clean_range): an eviction loses nothing.              *)
UnsavedIsHeld ==
    Settled /\ Cached => \A p \in FmPages :
        \/ fmFile.cache[p] = 0 \/ p \in fmFile.dirty
        \/ \E a \in FmSpaces : p \in shared_pages(fmArea[a]) /\ fmArea[a].data[p] = fmFile.cache[p]
        \/ \E t \in FmTasks : \E i \in DOMAIN fmOp[t].wbs : fmOp[t].wbs[i].page = p
        \/ \A u \in UnitsOf(p) : u < fmFile.size
                                 => fmFrame[fmFile.cache[p]][u % FM_PAGE] = fmFile.disk[u]

(* A task that waits for an open file while it holds an address space never   *)
(* meets one that waits for that address space while it holds the file        *)
(* (truncate gives its lock back before it visits the mappings).              *)
WaitsForFile(t, d) ==
    \/ (\E s \in {"mkwrite_stat", "map_stat", "reserve", "map_frame"} : FmAt(t, s)) /\ fmArea[Space(t)].fd = d
    \/ FmAt(t, "stat_match") /\ d \in fmOp[t].match
WaitsForSpace(t, a) ==
    \/ (\E s \in {"handles", "sweep_truncate", "sweep_protect", "sweep_punch"} : FmAt(t, s)) /\ FmArg(t) = a
    \/ (\E s \in {"install", "snapshot", "unmap"} : FmAt(t, s)) /\ Space(t) = a
NoLockCycle ==
    \A t, u \in FmTasks, d \in FmFds, a \in FmSpaces :
        ~ /\ fmLock.space[a] = t /\ WaitsForFile(t, d)
          /\ fmLock.file[d] = u /\ WaitsForSpace(u, a)

(* At rest the frame of a file without a PageCache shows the file, except     *)
(* where a store went through a mapping (update_shared_file_pages "mirrors    *)
(* the write to every live frame").                                           *)
FrameShowsFile ==
    ~Cached /\ (\A t \in FmTasks : fmOp[t].todo = <<>>) =>
        \A a \in FmSpaces, p \in FmPages, i \in InPage :
            LET u == p * FM_PAGE + i
            IN fmArea[a].shared /\ fmArea[a].data[p] # 0 /\ u < fmFile.size /\ u \notin fmStored
               => fmFrame[fmArea[a].data[p]][i] = fmFile.disk[u]

==============================================================================
