------------------------------ MODULE PageCache ------------------------------
(***************************************************************************)
(* The page cache of one regular file (fs/page_cache.rs) under the file    *)
(* operations of fs/file.rs and the lower inode of fs/ext4/inode.rs.       *)
(*                                                                         *)
(* Every process has its own open file description, so the description's   *)
(* lock orders nothing between them: a step is one critical section of the *)
(* size lock, the page-map lock, a page lock, the writeback lock or the    *)
(* ext4 lock.  Offsets are in units, PAGE_SIZE units to a page.  The value *)
(* of a unit is the stamp of the copy that wrote it, 0 for a zero byte.    *)
(***************************************************************************)
EXTENDS Integers, Sequences, SequencesExt, FiniteSets, FiniteSetsExt, TLC

CONSTANTS
    Files,                   \* open file descriptions, one process each
    PAGE_SIZE,
    NUnits,                  \* the largest file
    NPages,                  \* page objects of the machine
    WRITEBACK_BATCH_PAGES,
    PcScenarios              \* does: the calls of each file; size: the lower file;
                             \* fail, pressure: whether writes may fail and pages be
                             \* reclaimed; ahead: pages read in one go

ASSUME PcAssumption ==
    /\ {PAGE_SIZE, NUnits, NPages, WRITEBACK_BATCH_PAGES} \subseteq Nat \ {0}
    /\ NUnits % PAGE_SIZE = 0
    /\ \A s \in PcScenarios : DOMAIN s.does = Files /\ s.size \in 0 .. NUnits

VARIABLES
    pcSc,        \* the scenario
    pcache,      \* PageCache: size, size_version, dirty_pages, error sequence, the
                 \* page map, the holders of the writeback and of the size lock
    pcPage,      \* the page objects
    lowerFile,   \* the inode as lwext4 sees it, through its block cache
    diskFile,    \* the inode on the medium: what a power failure leaves
    dirtyOwner,  \* the entry of DIRTY_OWNERS
    pcFile,      \* the process of each file and where it is in its call
    pcHist       \* history: see PcHistory

pcVars == <<pcSc, pcache, pcPage, lowerFile, diskFile, dirtyOwner, pcFile, pcHist>>

Units == 0 .. NUnits - 1
PageIdx == 0 .. (NUnits - 1) \div PAGE_SIZE
PageIds == 1 .. NPages
InPage == 0 .. PAGE_SIZE - 1
UnitsOf(i) == {u \in Units : u \div PAGE_SIZE = i}
Nobody == "nobody"
NewPage == [data |-> [i \in InPage |-> 0], dirty |-> FALSE, ver |-> 0, wb |-> Nobody]
Resting == [pc |-> "idle", off |-> 0, old |-> 0, pos |-> 0, end |-> 0, held |-> 0, lv |-> 0,
            cand |-> <<>>, list |-> <<>>, batch |-> <<>>, size |-> 0, res |-> "ok", gen |-> 0,
            second |-> FALSE, mine |-> {}, seen |-> [u \in Units |-> 0],
            gone |-> [u \in Units |-> 0], cuts |-> 0]

\* PcHistory: stamp, the copies made; floor, per unit the newest copy of a write
\* that has returned; dead, the copies a returned truncate or punch removed; cuts,
\* the truncates and punches begun and ended, odd while one runs; synced, the copies an fsync that
\* returned success covers; owed, the failures a file has not been told of; and
\* the verdicts on the calls that have returned.
PcInit ==
    /\ pcSc \in PcScenarios
    /\ pcache = [size |-> pcSc.size, sver |-> 0, dirty |-> 0, err |-> 0,
                 map |-> [i \in PageIdx |-> 0], wlock |-> Nobody, slock |-> Nobody]
    /\ pcPage = [p \in PageIds |-> NewPage]
    /\ lowerFile = [size |-> pcSc.size, data |-> [u \in Units |-> IF u < pcSc.size THEN 1 ELSE 0]]
    /\ diskFile = lowerFile
    /\ dirtyOwner = [reg |-> FALSE, failed |-> FALSE, gen |-> 0]
    /\ pcFile = [f \in Files |-> [k |-> 1, cursor |-> 0] @@ Resting]
    /\ pcHist = [stamp |-> 1, floor |-> lowerFile.data, dead |-> [u \in Units |-> 0],
                 cuts |-> 0, synced |-> [u \in Units |-> 0], owed |-> {},
                 stale |-> FALSE, zeroes |-> FALSE, hidden |-> FALSE, twice |-> FALSE, fails |-> 0]

Op(f) == pcSc.does[f][pcFile[f].k]
PcAt(f, l) == pcFile[f].pc = l
PcStart(f, ops) == PcAt(f, "idle") /\ pcFile[f].k <= Len(pcSc.does[f]) /\ Op(f).op \in ops
PcPut(f, r) == pcFile' = [pcFile EXCEPT ![f] = r @@ @] /\ UNCHANGED pcSc
PcReturn(f) ==
    /\ pcFile' = [pcFile EXCEPT ![f] = [k |-> @.k + 1, cursor |-> @.cursor] @@ Resting]
    /\ UNCHANGED pcSc
SizeFree == pcache.slock = Nobody
Held == UNION {{pcFile[f].held} \cup {e[2] : e \in ToSet(pcFile[f].list)} : f \in Files}
FreePages == PageIds \ (Range(pcache.map) \cup Held)
UnitAt(p, u) == pcPage[p].data[u % PAGE_SIZE]

-----------------------------------------------------------------------------
(* Reading and writing through the cache.                                  *)

\* File::write() with O_APPEND takes the position from the cached length.
append_offset(f) ==
    /\ PcStart(f, {"append"}) /\ SizeFree
    /\ PcPut(f, [pc |-> "wsize", off |-> pcache.size, end |-> pcache.size + Op(f).len])
    /\ UNCHANGED <<pcache, pcPage, lowerFile, diskFile, dirtyOwner, pcHist>>

write_position(f) ==
    /\ PcStart(f, {"write"})
    /\ PcPut(f, [pc |-> "wsize", off |-> Op(f).off, end |-> Op(f).off + Op(f).len])
    /\ UNCHANGED <<pcache, pcPage, lowerFile, diskFile, dirtyOwner, pcHist>>

\* PageCache::write_at(): the old length and the new length, in two sections.
write_old_size(f) ==
    /\ PcAt(f, "wsize") /\ SizeFree
    /\ PcPut(f, [pc |-> "extend", old |-> pcache.size, cuts |-> pcHist.cuts])
    /\ UNCHANGED <<pcache, pcPage, lowerFile, diskFile, dirtyOwner, pcHist>>

extend(c, end) ==
    IF end > c.size THEN [c EXCEPT !.size = end, !.sver = @ + 1] ELSE c
write_extend(f) ==
    /\ PcAt(f, "extend") /\ SizeFree
    /\ pcache' = extend(pcache, pcFile[f].end)
    /\ PcPut(f, [pc |-> "page", pos |-> pcFile[f].off])
    /\ UNCHANGED <<pcPage, lowerFile, diskFile, dirtyOwner, pcHist>>

\* read_at_advised(): the range is cut at the length seen once.
read_begin(f) ==
    /\ PcStart(f, {"read"}) /\ SizeFree
    /\ LET end == Min({pcache.size, Op(f).off + Op(f).len})
       IN  PcPut(f, [pc |-> "page", pos |-> Op(f).off, end |-> end,
                     seen |-> pcHist.floor, gone |-> pcHist.dead])
    /\ UNCHANGED <<pcache, pcPage, lowerFile, diskFile, dirtyOwner, pcHist>>

Writing(f) == Op(f).op \in {"write", "append"}
ChunkEnd(f) == Min({pcFile[f].end, (pcFile[f].pos \div PAGE_SIZE + 1) * PAGE_SIZE})
needs_old_data(f) ==
    LET pos == pcFile[f].pos
        page_start == (pos \div PAGE_SIZE) * PAGE_SIZE
    IN  /\ page_start < pcFile[f].old
        /\ ~(pos = page_start /\ ChunkEnd(f) = page_start + PAGE_SIZE)
        /\ \/ pos > page_start
           \/ ChunkEnd(f) < Min({pcFile[f].old, page_start + PAGE_SIZE})

\* The page of the next chunk: lookup_page(), or a zeroed page when the write
\* covers all that the page held.
find_page(f) ==
    /\ PcAt(f, "page") /\ pcFile[f].pos < pcFile[f].end
    /\ LET i == pcFile[f].pos \div PAGE_SIZE
           p == pcache.map[i]
       IN  \/ /\ p # 0
              /\ PcPut(f, [pc |-> "copy", held |-> p])
              /\ UNCHANGED <<pcache, pcPage>>
           \/ /\ p = 0 /\ Writing(f) /\ ~needs_old_data(f) /\ FreePages # {}
              /\ LET n == Min(FreePages)
                 IN  /\ pcache' = [pcache EXCEPT !.map[i] = n]
                     /\ pcPage' = [pcPage EXCEPT ![n] = NewPage]
                     /\ PcPut(f, [pc |-> "copy", held |-> n])
           \/ /\ p = 0 /\ (Writing(f) => needs_old_data(f))
              /\ PcPut(f, [pc |-> "load"])
              /\ UNCHANGED <<pcache, pcPage>>
    /\ UNCHANGED <<lowerFile, diskFile, dirtyOwner, pcHist>>

\* get_or_load_with_status(): the generation, the length and the lower contents
\* of a run of pages that stops at the first cached one.  (Reading them apart
\* adds only runs in which the publication below starts over.)
RunOf(i) ==
    {j \in PageIdx : i <= j /\ j < i + (IF i * PAGE_SIZE < pcache.size THEN pcSc.ahead ELSE 1)
                       /\ (j > i => j * PAGE_SIZE < pcache.size)
                       /\ \A k \in i + 1 .. j : pcache.map[k] = 0}
LowerUnit(u) == IF u < pcache.size /\ u < lowerFile.size THEN lowerFile.data[u] ELSE 0
load_pages(f) ==
    /\ PcAt(f, "load") /\ SizeFree
    /\ LET i == pcFile[f].pos \div PAGE_SIZE
       IN  PcPut(f, [pc |-> "publish", lv |-> pcache.sver,
                     cand |-> [j \in RunOf(i) |-> [k \in InPage |->
                                                      LowerUnit(j * PAGE_SIZE + k)]]])
    /\ UNCHANGED <<pcache, pcPage, lowerFile, diskFile, dirtyOwner, pcHist>>

\* Publication under the page-map lock: a changed generation starts over, a
\* page that is there already wins.
load_raced(f) == pcache.sver # pcFile[f].lv
publish_pages(f) ==
    /\ PcAt(f, "publish")
    /\ LET i == pcFile[f].pos \div PAGE_SIZE
           new == {j \in DOMAIN pcFile[f].cand : pcache.map[j] = 0}
           id(j) == SetToSortSeq(FreePages, <)[Cardinality({k \in new : k <= j})]
       IN  IF load_raced(f)
           THEN /\ PcPut(f, [pc |-> "page", cand |-> <<>>])
                /\ UNCHANGED <<pcache, pcPage>>
           ELSE /\ Cardinality(new) <= Cardinality(FreePages)
                /\ pcache' = [pcache EXCEPT !.map = [j \in PageIdx |->
                                IF j \in new THEN id(j) ELSE @[j]]]
                /\ pcPage' = [p \in PageIds |->
                                IF \E j \in new : id(j) = p
                                THEN [NewPage EXCEPT !.data =
                                        pcFile[f].cand[CHOOSE j \in new : id(j) = p]]
                                ELSE pcPage[p]]
                /\ PcPut(f, [pc |-> "copy", cand |-> <<>>, held |-> pcache'.map[i]])
    /\ UNCHANGED <<lowerFile, diskFile, dirtyOwner, pcHist>>

\* What a read may return for unit u: nothing older than a write that had
\* returned when the read began, unless it has been truncated away meanwhile,
\* and nothing that a truncate or punch had removed before the read began.
Overdue(f, u) == Min({pcFile[f].seen[u], pcHist.floor[u]})
ReadStale(f, u, v) == v # 0 /\ (v < Overdue(f, u) \/ v <= pcFile[f].gone[u])

\* The copy under the page lock.
copy_read(f) ==
    /\ PcAt(f, "copy") /\ ~Writing(f)
    /\ PcPut(f, [pc |-> "page", held |-> 0, pos |-> ChunkEnd(f)])
    /\ pcHist' = [pcHist EXCEPT !.stale = @ \/
                    \E u \in pcFile[f].pos .. ChunkEnd(f) - 1 :
                       ReadStale(f, u, UnitAt(pcFile[f].held, u)),
                             !.zeroes = @ \/
                    \E u \in pcFile[f].pos .. ChunkEnd(f) - 1 :
                       UnitAt(pcFile[f].held, u) = 0 /\ Overdue(f, u) > 0]
    /\ UNCHANGED <<pcache, pcPage, lowerFile, diskFile, dirtyOwner>>

count_dirty(c, p) == [c EXCEPT !.dirty = @ + (IF pcPage[p].dirty THEN 0 ELSE 1)]
rewrite_same_version(p, s, lo, hi) ==       \* mutant: the write version is not moved
    [pcPage[p] EXCEPT !.dirty = TRUE,
       !.data = [k \in InPage |-> IF lo <= k /\ k <= hi THEN s ELSE @[k]]]
written_page(p, s, lo, hi) ==
    [pcPage[p] EXCEPT !.dirty = TRUE, !.ver = @ + 1,
       !.data = [k \in InPage |-> IF lo <= k /\ k <= hi THEN s ELSE @[k]]]
copy_write(f) ==
    /\ PcAt(f, "copy") /\ Writing(f)
    /\ LET p == pcFile[f].held
           lo == pcFile[f].pos
           s == pcHist.stamp + 1
       IN  /\ pcPage' = [pcPage EXCEPT ![p] =
                           written_page(p, s, lo % PAGE_SIZE, (ChunkEnd(f) - 1) % PAGE_SIZE)]
           /\ pcache' = count_dirty(pcache, p)
           /\ pcHist' = [pcHist EXCEPT !.stamp = s]
           /\ PcPut(f, [pc |-> "page", held |-> 0, pos |-> ChunkEnd(f),
                        mine |-> pcFile[f].mine \cup {<<u, s>> : u \in lo .. ChunkEnd(f) - 1}])
    /\ UNCHANGED <<lowerFile, diskFile, dirtyOwner>>

read_end(f) ==
    /\ PcAt(f, "page") /\ ~Writing(f) /\ pcFile[f].pos >= pcFile[f].end
    /\ PcReturn(f)
    /\ UNCHANGED <<pcache, pcPage, lowerFile, diskFile, dirtyOwner, pcHist>>

\* write_locked() after the copy: a truncate may have cut the length below the
\* end of the write, so it is set again.
write_resize(f) ==
    /\ PcAt(f, "page") /\ Writing(f) /\ pcFile[f].pos >= pcFile[f].end /\ SizeFree
    /\ pcache' = extend(pcache, pcFile[f].end)
    /\ PcPut(f, [pc |-> "register"])
    /\ UNCHANGED <<pcPage, lowerFile, diskFile, dirtyOwner, pcHist>>

\* register_dirty_owner(); an O_SYNC write goes on to write back.
registered(o) == [reg |-> TRUE, failed |-> FALSE, gen |-> o.gen + 1]
register_dirty_owner(f) ==
    /\ PcAt(f, "register")
    /\ dirtyOwner' = registered(dirtyOwner)
    /\ pcHist' = IF pcFile[f].cuts # pcHist.cuts \/ pcHist.cuts % 2 = 1 THEN pcHist
                 ELSE [pcHist EXCEPT !.floor = [u \in Units |->
                         Max({@[u]} \cup {e[2] : e \in {x \in pcFile[f].mine : x[1] = u}})]]
    /\ IF "sync" \in DOMAIN Op(f) THEN PcPut(f, [pc |-> "owner"]) ELSE PcReturn(f)
    /\ UNCHANGED <<pcache, pcPage, lowerFile, diskFile>>

-----------------------------------------------------------------------------
(* Writeback.                                                              *)

\* sync_page_cache_owner(), sync_page_cache_range() and a background pass copy
\* the owner; without one there is nothing to do.
sync_lookup(f) ==
    /\ \/ PcStart(f, {"fsync", "range", "background"})
       \/ PcAt(f, "owner")
    /\ PcPut(f, [pc |-> IF dirtyOwner.reg /\ (Op(f).op = "background" => ~dirtyOwner.failed)
                        THEN "wlock" ELSE "synced",
                 gen |-> dirtyOwner.gen,
                 seen |-> pcHist.floor])
    /\ UNCHANGED <<pcache, pcPage, lowerFile, diskFile, dirtyOwner, pcHist>>

\* fadvise(DONTNEED) and punch_hole() write a range back without the owner.
sync_direct(f) ==
    /\ PcStart(f, {"dontneed", "punch"})
    /\ PcPut(f, [pc |-> "wlock"])
    /\ UNCHANGED <<pcache, pcPage, lowerFile, diskFile, dirtyOwner, pcHist>>

\* sync_inner(): the writeback lock and the length, then the generation and the
\* pages.
sync_size(f) ==
    /\ PcAt(f, "wlock") /\ pcache.wlock = Nobody /\ SizeFree
    /\ pcache' = [pcache EXCEPT !.wlock = f]
    /\ PcPut(f, [pc |-> "snap", size |-> pcache.size])
    /\ UNCHANGED <<pcPage, lowerFile, diskFile, dirtyOwner, pcHist>>

SyncRange(f) ==
    IF Op(f).op \in {"range", "dontneed", "punch"}
    THEN {i \in PageIdx : i * PAGE_SIZE < Op(f).off + Op(f).len /\ (i + 1) * PAGE_SIZE > Op(f).off}
    ELSE PageIdx
sync_snapshot(f) ==
    /\ PcAt(f, "snap")
    /\ LET cached == {i \in SyncRange(f) : pcache.map[i] # 0}
       IN  PcPut(f, [pc |-> "gather", lv |-> pcache.sver,
                     list |-> [n \in 1 .. Cardinality(cached) |->
                                 LET i == SetToSortSeq(cached, <)[n] IN <<i, pcache.map[i]>>]])
    /\ UNCHANGED <<pcache, pcPage, lowerFile, diskFile, dirtyOwner, pcHist>>

\* The next batch: dirty pages of the list, neighbours, inside the length.
Dirty(e) == pcPage[e[2]].dirty
BatchLen(f, list) ==
    Max({n \in 0 .. Min({Len(list), WRITEBACK_BATCH_PAGES}) :
           \A m \in 1 .. n : /\ Dirty(list[m])
                             /\ list[m][1] = list[1][1] + m - 1
                             /\ list[m][1] * PAGE_SIZE < pcFile[f].size})
sync_gather(f) ==
    /\ PcAt(f, "gather")
    /\ LET first == SelectInSeq(pcFile[f].list, Dirty)
           list == IF first = 0 THEN <<>> ELSE SubSeq(pcFile[f].list, first, Len(pcFile[f].list))
           n == BatchLen(f, list)
           batch == SubSeq(list, 1, n)
       IN  IF list = <<>> \/ n = 0
           THEN /\ PcPut(f, [pc |-> "clean", list |-> <<>>])
                /\ UNCHANGED pcPage
           ELSE /\ pcPage' = [p \in PageIds |->
                                IF \E e \in ToSet(batch) : e[2] = p
                                THEN [pcPage[p] EXCEPT !.wb = f] ELSE pcPage[p]]
                /\ PcPut(f, [pc |-> "lower",
                             batch |-> [m \in 1 .. n |-> [idx |-> batch[m][1], id |-> batch[m][2],
                                          ver |-> pcPage[batch[m][2]].ver,
                                          data |-> pcPage[batch[m][2]].data]]])
    /\ UNCHANGED <<pcache, lowerFile, diskFile, dirtyOwner, pcHist>>

BatchStart(f) == pcFile[f].batch[1].idx * PAGE_SIZE
BatchEnd(f) == Min({pcFile[f].size, (Last(pcFile[f].batch).idx + 1) * PAGE_SIZE})
Unmarked(f) == [p \in PageIds |->
                  IF pcPage[p].wb = f THEN [pcPage[p] EXCEPT !.wb = Nobody] ELSE pcPage[p]]

\* Ext4Inode::write_at() of the batch: the lower file grows with it, and the
\* cached length follows if a truncate has cut it meanwhile.
lower_write(f) ==
    /\ PcAt(f, "lower") /\ SizeFree
    /\ lowerFile' = [size |-> Max({lowerFile.size, BatchEnd(f)}),
                     data |-> [u \in Units |->
                       IF BatchStart(f) <= u /\ u < BatchEnd(f)
                       THEN pcFile[f].batch[u \div PAGE_SIZE - pcFile[f].batch[1].idx + 1].data[u % PAGE_SIZE]
                       ELSE lowerFile.data[u]]]
    /\ pcache' = extend(pcache, BatchEnd(f))
    /\ PcPut(f, [pc |-> "check"])
    /\ UNCHANGED <<pcPage, diskFile, dirtyOwner, pcHist>>

\* A failed or short write: the pages stay dirty and the error is recorded for
\* every open description.
record_writeback_error(c) == [c EXCEPT !.err = @ + 1]
lower_fail(f) ==
    /\ PcAt(f, "lower") /\ pcHist.fails < pcSc.fail
    /\ pcache' = [record_writeback_error(pcache) EXCEPT !.wlock = Nobody]
    /\ pcPage' = Unmarked(f)
    /\ pcHist' = [pcHist EXCEPT !.fails = @ + 1, !.owed = Files]
    /\ PcPut(f, [pc |-> "synced", res |-> "EIO", batch |-> <<>>, list |-> <<>>])
    /\ UNCHANGED <<lowerFile, diskFile, dirtyOwner>>

\* After the lower write.  A moved generation keeps everything dirty; a batch
\* past the new end would first cut the lower file, which takes the writeback
\* lock the caller holds.  Otherwise the pages not written since are clean.
can_clean(e) == pcPage[e.id].dirty /\ pcPage[e.id].ver = e.ver
writeback_check(f) ==
    /\ PcAt(f, "check") /\ SizeFree
    /\ LET moved == pcache.sver # pcFile[f].lv
           rest == SelectSeq(pcFile[f].list, LAMBDA e : e[1] > Last(pcFile[f].batch).idx)
           done == IF moved THEN {} ELSE {e.id : e \in {x \in ToSet(pcFile[f].batch) :
                                                          pcPage[x.id].wb = f /\ can_clean(x)}}
       IN  IF moved /\ BatchEnd(f) > pcache.size
           THEN PcPut(f, [pc |-> "relock"]) /\ UNCHANGED <<pcPage, pcache>>
           ELSE /\ pcPage' = [p \in PageIds |->
                                IF p \in done THEN [Unmarked(f)[p] EXCEPT !.dirty = FALSE]
                                ELSE Unmarked(f)[p]]
                /\ pcache' = [pcache EXCEPT !.dirty = @ - Cardinality(done)]
                /\ PcPut(f, [pc |-> "gather", list |-> rest, batch |-> <<>>])
    /\ UNCHANGED <<lowerFile, diskFile, dirtyOwner, pcHist>>

\* The end of sync_inner() and, in sync_owner(), the release of a clean owner.
released(o) == IF pcache.dirty = 0 THEN [o EXCEPT !.reg = FALSE] ELSE o
sync_unlock(f) ==
    /\ PcAt(f, "clean")
    /\ pcache' = [pcache EXCEPT !.wlock = Nobody]
    /\ PcPut(f, [pc |-> IF Op(f).op \in {"dontneed", "punch"} THEN "synced" ELSE "release"])
    /\ UNCHANGED <<pcPage, lowerFile, diskFile, dirtyOwner, pcHist>>
sync_owner_release(f) ==
    /\ PcAt(f, "release")
    /\ dirtyOwner' = released(dirtyOwner)
    /\ PcPut(f, [pc |-> "synced"])
    /\ UNCHANGED <<pcache, pcPage, lowerFile, diskFile, pcHist>>

-----------------------------------------------------------------------------
(* The ends of the calls that write back.                                  *)

\* check_writeback_error(): an error recorded since the cursor, told once.
Told(f) == pcache.err # pcFile[f].cursor
PcReturnWith(f, err, seq) ==
    /\ pcFile' = [pcFile EXCEPT ![f] = [k |-> @.k + 1, cursor |-> seq] @@ Resting]
    /\ UNCHANGED pcSc
    /\ pcHist' = [pcHist EXCEPT
         !.owed = IF err THEN @ \ {f} ELSE @,
         !.hidden = @ \/ (~err /\ f \in pcHist.owed /\ Op(f).op = "fsync"),
         !.twice = @ \/ (err /\ f \notin pcHist.owed),
         !.synced = IF err \/ Op(f).op # "fsync" THEN @
                    ELSE [u \in Units |-> Max({@[u], Min({pcFile[f].seen[u], pcHist.floor[u]})})]]

\* fsync(): the error of this attempt and of earlier ones are consumed together;
\* on success the times are written (flush_data_metadata()) and the superblock
\* flushes lwext4's block cache, and either may fail.
FlushFails(f) == pcFile[f].res = "ok" /\ ~Told(f) /\ pcHist.fails < pcSc.fail
fsync_flush_fails(f) ==
    /\ PcAt(f, "synced") /\ Op(f).op = "fsync" /\ FlushFails(f)
    /\ pcFile' = [pcFile EXCEPT ![f] = [k |-> @.k + 1, cursor |-> pcache.err] @@ Resting]
    /\ pcHist' = [pcHist EXCEPT !.fails = @ + 1]
    /\ UNCHANGED <<pcSc, pcache, pcPage, lowerFile, diskFile, dirtyOwner>>
fsync(f) ==
    /\ PcAt(f, "synced") /\ Op(f).op = "fsync"
    /\ LET err == pcFile[f].res # "ok" \/ Told(f)
       IN  /\ PcReturnWith(f, err, pcache.err)
           /\ diskFile' = IF err THEN diskFile ELSE lowerFile
    /\ UNCHANGED <<pcache, pcPage, lowerFile, dirtyOwner>>

\* sync_file_range(), an O_SYNC write and the writeback at the end of a shrinking
\* truncate return the error of their own attempt and leave the cursor.
sync_file_range(f) ==
    /\ PcAt(f, "synced") /\ Op(f).op = "range"
    /\ LET failed == pcFile[f].res # "ok"
       IN  PcReturnWith(f, failed \/ Told(f), IF failed THEN pcFile[f].cursor ELSE pcache.err)
    /\ UNCHANGED <<pcache, pcPage, lowerFile, diskFile, dirtyOwner>>
sync_write(f) ==
    /\ PcAt(f, "synced") /\ Op(f).op \in {"write", "append", "truncate"}
    /\ LET failed == pcFile[f].res # "ok"
       IN  /\ PcReturnWith(f, failed, pcFile[f].cursor)
           /\ diskFile' = IF failed \/ Op(f).op = "truncate" THEN diskFile ELSE lowerFile
    /\ UNCHANGED <<pcache, pcPage, lowerFile, dirtyOwner>>

\* writeback_dirty_owners_if_needed(): a failure is kept out of the result and
\* marks the owner it was seen on.
background(f) ==
    /\ PcAt(f, "synced") /\ Op(f).op = "background"
    /\ dirtyOwner' = IF pcFile[f].res # "ok" /\ dirtyOwner.gen = pcFile[f].gen
                     THEN [dirtyOwner EXCEPT !.failed = TRUE] ELSE dirtyOwner
    /\ PcReturn(f)
    /\ UNCHANGED <<pcache, pcPage, lowerFile, diskFile, pcHist>>

\* evict_clean_range() after the writeback of DONTNEED, and the reclaim of one
\* page when all caches together are over the limit: clean, unpinned pages go.
evictable(p) == p \notin Held /\ ~pcPage[p].dirty
evict_clean_range(f) ==
    /\ PcAt(f, "synced") /\ Op(f).op = "dontneed" /\ SizeFree
    /\ LET end == Op(f).off + Op(f).len
           last == (IF end >= pcache.size THEN pcache.size + PAGE_SIZE - 1 ELSE end) \div PAGE_SIZE
       IN  pcache' = [pcache EXCEPT !.map = [i \in PageIdx |->
                        IF /\ @[i] # 0 /\ evictable(@[i])
                           /\ Op(f).off <= i * PAGE_SIZE /\ i < last
                        THEN 0 ELSE @[i]]]
    /\ PcReturn(f)
    /\ UNCHANGED <<pcPage, lowerFile, diskFile, dirtyOwner, pcHist>>
reclaim_lru_entry ==
    /\ pcSc.pressure
    /\ \E i \in PageIdx : /\ pcache.map[i] # 0 /\ evictable(pcache.map[i])
                          /\ pcache' = [pcache EXCEPT !.map[i] = 0]
    /\ UNCHANGED <<pcSc, pcPage, lowerFile, diskFile, dirtyOwner, pcFile, pcHist>>

-----------------------------------------------------------------------------
(* Truncate and hole punch.                                                *)

Cut(f) == IF Op(f).op = "truncate" THEN {u \in Units : u >= Op(f).size}
          ELSE {u \in Units : Op(f).off <= u /\ u < Min({pcFile[f].old, Op(f).off + Op(f).len})}
CutBegun(f) == [pcHist EXCEPT !.cuts = @ + 1,
                 !.floor = [u \in Units |-> IF u \in Cut(f) THEN 0 ELSE @[u]],
                 !.synced = [u \in Units |-> IF u \in Cut(f) THEN 0 ELSE @[u]]]
CutEnded(f, h) == [h EXCEPT !.cuts = @ + 1,
                     !.dead = [u \in Units |-> IF u \in Cut(f) THEN Max({@[u], pcFile[f].lv}) ELSE @[u]]]
Zeroed(p, S) == [pcPage[p] EXCEPT !.data = [k \in InPage |-> IF k \in S THEN 0 ELSE @[k]]]

\* File::truncate(): the old length; an unchanged length leaves the lower file.
truncate_begin(f) ==
    /\ PcStart(f, {"truncate"}) /\ SizeFree
    /\ PcPut(f, [pc |-> IF Op(f).size = pcache.size THEN "resize" ELSE "tlow",
                 second |-> Op(f).size = pcache.size, old |-> pcache.size, lv |-> pcHist.stamp])
    /\ pcHist' = CutBegun(f)
    /\ UNCHANGED <<pcache, pcPage, lowerFile, diskFile, dirtyOwner>>

\* Ext4Inode::truncate(): under the writeback lock the lower file, then the cache.
with_writeback_exclusion(f) == pcache.wlock = Nobody
truncate_lower(f) ==
    /\ PcAt(f, "tlow") /\ with_writeback_exclusion(f)
    /\ pcache' = [pcache EXCEPT !.wlock = f]
    /\ lowerFile' = [size |-> Op(f).size,
                     data |-> [u \in Units |-> IF u < Op(f).size /\ u < lowerFile.size
                                               THEN lowerFile.data[u] ELSE 0]]
    /\ PcPut(f, [pc |-> "resize"])
    /\ UNCHANGED <<pcPage, diskFile, dirtyOwner, pcHist>>

\* PageCache::resize(): pages past the end leave the map and are zeroed, the last
\* page loses its tail; the length and the generation follow once the page-map
\* lock is released.
zero_tail(c, i, size) == IF i = size \div PAGE_SIZE THEN {k \in InPage : k >= size % PAGE_SIZE} ELSE {}
dropped_dirty(S) == Cardinality({i \in S : pcPage[pcache.map[i]].dirty})
resize_drop(f) ==
    /\ PcAt(f, "resize") /\ SizeFree
    /\ LET size == Op(f).size
           gone == {i \in PageIdx : pcache.map[i] # 0 /\ i * PAGE_SIZE >= size}
           tail(p) == {i \in PageIdx \ gone : pcache.map[i] = p /\ zero_tail(pcache, i, size) # {}}
       IN  IF size < pcache.size
           THEN /\ pcPage' = [p \in PageIds |->
                     IF \E i \in gone : pcache.map[i] = p THEN Zeroed(p, InPage)
                     ELSE IF tail(p) # {}
                     THEN [Zeroed(p, UNION {zero_tail(pcache, i, size) : i \in tail(p)})
                             EXCEPT !.ver = @ + 1]
                     ELSE pcPage[p]]
                /\ pcache' = [pcache EXCEPT !.slock = f,
                     !.map = [i \in PageIdx |-> IF i \in gone THEN 0 ELSE @[i]],
                     !.dirty = @ - dropped_dirty(gone)]
                /\ PcPut(f, [pc |-> "bump"])
           ELSE /\ pcache' = extend(pcache, size)
                /\ PcPut(f, [pc |-> "resized"])
                /\ UNCHANGED pcPage
    /\ UNCHANGED <<lowerFile, diskFile, dirtyOwner, pcHist>>
resize_bump(f) ==
    /\ PcAt(f, "bump")
    /\ pcache' = [pcache EXCEPT !.slock = Nobody, !.size = Op(f).size, !.sver = @ + 1]
    /\ PcPut(f, [pc |-> "resized"])
    /\ UNCHANGED <<pcPage, lowerFile, diskFile, dirtyOwner, pcHist>>

\* The end of Ext4Inode::truncate() with release_clean_owner(); then File::truncate()
\* resizes again and writes a shrunk file back.
truncate_unlock(f) ==
    /\ PcAt(f, "resized") /\ ~pcFile[f].second
    /\ pcache' = [pcache EXCEPT !.wlock = Nobody]
    /\ dirtyOwner' = released(dirtyOwner)
    /\ PcPut(f, [pc |-> "resize", second |-> TRUE])
    /\ UNCHANGED <<pcPage, lowerFile, diskFile, pcHist>>
truncate_end(f) ==
    /\ PcAt(f, "resized") /\ pcFile[f].second
    /\ pcHist' = CutEnded(f, pcHist)
    /\ IF Op(f).size < pcFile[f].old THEN PcPut(f, [pc |-> "owner"]) ELSE PcReturn(f)
    /\ UNCHANGED <<pcache, pcPage, lowerFile, diskFile, dirtyOwner>>

\* File::punch_hole() after the writeback of the range: the lower hole, then the
\* cached pages, then the generation.
punch_lower(f) ==
    /\ PcAt(f, "synced") /\ Op(f).op = "punch" /\ SizeFree /\ pcFile[f].res = "ok"
    /\ with_writeback_exclusion(f)
    /\ LET end == Min({pcache.size, Op(f).off + Op(f).len})
       IN  /\ lowerFile' = [lowerFile EXCEPT !.data = [u \in Units |->
                              IF Op(f).off <= u /\ u < end THEN 0 ELSE @[u]]]
           /\ PcPut(f, [pc |-> "pdrop", old |-> pcache.size, lv |-> pcHist.stamp])
           /\ pcache' = [pcache EXCEPT !.wlock = f]
           /\ pcHist' = [pcHist EXCEPT !.cuts = @ + 1,
                !.floor = [u \in Units |-> IF Op(f).off <= u /\ u < end THEN 0 ELSE @[u]],
                !.synced = [u \in Units |-> IF Op(f).off <= u /\ u < end THEN 0 ELSE @[u]]]
    /\ UNCHANGED <<pcPage, diskFile, dirtyOwner>>
punch_cache(f) ==
    /\ PcAt(f, "pdrop")
    /\ LET hole(i) == {u % PAGE_SIZE : u \in Cut(f) \cap UnitsOf(i)}
           full == {i \in PageIdx : pcache.map[i] # 0 /\ hole(i) = InPage}
           idx(p) == CHOOSE i \in PageIdx : pcache.map[i] = p
       IN  /\ pcPage' = [p \in PageIds |->
                IF p \notin Range(pcache.map) \/ hole(idx(p)) = {} THEN pcPage[p]
                ELSE [Zeroed(p, hole(idx(p))) EXCEPT !.ver = @ + 1,
                        !.dirty = @ /\ idx(p) \notin full]]
           /\ pcache' = [pcache EXCEPT
                !.map = [i \in PageIdx |-> IF i \in full THEN 0 ELSE @[i]],
                !.dirty = @ - dropped_dirty(full)]
    /\ PcPut(f, [pc |-> "pbump"])
    /\ UNCHANGED <<lowerFile, diskFile, dirtyOwner, pcHist>>
punch_end(f) ==
    /\ PcAt(f, "pbump")
    /\ pcache' = [pcache EXCEPT !.sver = @ + 1, !.wlock = Nobody]
    /\ pcHist' = CutEnded(f, pcHist)
    /\ PcReturn(f)
    /\ UNCHANGED <<pcPage, lowerFile, diskFile, dirtyOwner>>
punch_fail(f) ==
    /\ PcAt(f, "synced") /\ Op(f).op = "punch" /\ pcFile[f].res # "ok"
    /\ PcReturnWith(f, TRUE, pcFile[f].cursor)
    /\ UNCHANGED <<pcache, pcPage, lowerFile, diskFile, dirtyOwner>>

PcAccess(f) ==
    \/ append_offset(f) \/ write_position(f) \/ write_old_size(f) \/ write_extend(f)
    \/ read_begin(f) \/ find_page(f) \/ load_pages(f) \/ publish_pages(f) \/ copy_read(f)
    \/ copy_write(f) \/ read_end(f) \/ write_resize(f) \/ register_dirty_owner(f)
PcWriteback(f) ==
    \/ sync_lookup(f) \/ sync_direct(f) \/ sync_size(f) \/ sync_snapshot(f) \/ sync_gather(f)
    \/ lower_write(f) \/ lower_fail(f) \/ writeback_check(f) \/ sync_unlock(f)
    \/ sync_owner_release(f) \/ fsync(f) \/ fsync_flush_fails(f) \/ sync_file_range(f) \/ sync_write(f)
    \/ background(f) \/ evict_clean_range(f)
PcCut(f) ==
    \/ truncate_begin(f) \/ truncate_lower(f) \/ resize_drop(f) \/ resize_bump(f)
    \/ truncate_unlock(f) \/ truncate_end(f) \/ punch_lower(f) \/ punch_cache(f)
    \/ punch_end(f) \/ punch_fail(f)

PcNext ==
    \/ \E f \in Files : PcAccess(f) \/ PcWriteback(f) \/ PcCut(f)
    \/ reclaim_lru_entry

PcSpec == PcInit /\ [][PcNext]_pcVars

-----------------------------------------------------------------------------
(* Properties.                                                             *)

\* The map names distinct page objects, and the counters stay in range.
PcTypeOK ==
    /\ pcache.size \in 0 .. NUnits /\ lowerFile.size \in 0 .. NUnits
    /\ pcache.dirty \in 0 .. NPages /\ pcache.map \in [PageIdx -> 0 .. NPages]
    /\ \A i, j \in PageIdx : i # j /\ pcache.map[i] # 0 => pcache.map[i] # pcache.map[j]
    /\ pcache.wlock \in Files \cup {Nobody} /\ pcache.slock \in Files \cup {Nobody}
    /\ \A f \in Files : pcFile[f].held \in 0 .. NPages

\* What fsync() promised survives a power failure: every unit of a write that
\* had returned before an fsync that then returned success is on the medium,
\* unless a later truncate or punch removed it.
FsyncDurable ==
    \A u \in Units : pcHist.synced[u] > 0 =>
       u < diskFile.size /\ diskFile.data[u] >= pcHist.synced[u]

\* read() is coherent with the writes, truncates and punches that returned
\* before it began, whatever was loaded, written back or evicted meanwhile:
\* it returns nothing that was replaced or removed, and no zeros instead of
\* what was written.
ReadsCoherent == ~pcHist.stale /\ ~pcHist.zeroes

\* A failed writeback is told to every description once: fsync() does not
\* return success before, and no call returns an error again for a failure
\* that has been told ("避免同一打开文件描述把一次失败报告两遍", file.rs:1189).
ErrorToldOnce == ~pcHist.hidden /\ ~pcHist.twice

\* Writeback does not wait for the lock it holds: no batch has to be cut back by
\* Ext4Inode::truncate(), which takes writeback_lock again.
NoSelfLock == \A f \in Files : ~PcAt(f, "relock")

\* A dirty page outside a running write has a registered owner, so that it is
\* written back after the last close (register_dirty_owner()).
DirtyIsOwned ==
    (\E i \in PageIdx : pcache.map[i] # 0 /\ pcPage[pcache.map[i]].dirty)
       => dirtyOwner.reg \/ \E f \in Files : ~PcAt(f, "idle") /\ Writing(f)

===============================================================================
