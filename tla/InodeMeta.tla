------------------------------ MODULE InodeMeta ------------------------------
(***************************************************************************)
(* The metadata of an ext4 inode: owner, mode, times, one extended         *)
(* attribute.  Three copies exist: the lower inode (fs/ext4, through       *)
(* lwext4), the cached raw record stat() reads, and the times in memory    *)
(* with the updates not written yet (fs/ext4/inode.rs).  Above them are    *)
(* the calls that stat first, decide, and then set (syscall/fs.rs,         *)
(* fs/file.rs); beside them the lazytime registry, whose inodes an idle    *)
(* hart, sync() and eviction write out.                                    *)
(*                                                                         *)
(* A call is a list of steps, one for each stretch the code runs under one *)
(* lock; a step that fails ends the call.  A time is a reading of the      *)
(* clock, which every call advances by one.                                *)
(***************************************************************************)
EXTENDS Integers, Sequences, SequencesExt

CONSTANTS
    ImTasks,
    ImInodes,
    LAZYTIME_BACKGROUND_BATCH,
    LAZYTIME_RETRY,
    ATIME_STALE,     \* an access time this old is renewed: 24 hours
    ImMaxNow,        \* bound on the clock
    ImScenarios      \* records: lower inodes, who the tasks are, their programs, lower failures

VARIABLES
    imSc,
    imDisk,    \* the lower inodes
    imMeta,    \* Ext4Inode.metadata: raw, times, pending_atime, pending_data_times
    imReg,     \* LAZYTIME_INODES
    imScan,    \* NEXT_LAZYTIME_SCAN_US, LAZYTIME_SCAN_RUNNING, DIRTYTIME_EXPIRE_SECONDS
    imNow,     \* the clock
    imFails,   \* lower calls that may still fail
    imOp       \* the call of each task

imVars == <<imSc, imDisk, imMeta, imReg, imScan, imNow, imFails, imOp>>
NEVER == 99
ERR == -1
NoAtime == [gen |-> 0, a |-> 0, at |-> 0]
NoData == [gen |-> 0, m |-> 0]
ImIdle == [todo |-> <<>>, k |-> 0, i |-> 0, now |-> 0, miss |-> FALSE, raw |-> <<>>, times |-> <<>>, set |-> <<>>,
           pa |-> NoAtime, pd |-> NoData, list |-> {}, flushed |-> 0, failed |-> FALSE, period |-> 0, found |-> FALSE,
           ret |-> 0, want |-> [i \in ImInodes |-> 0]]
TimesOf(d) == [a |-> d.a, m |-> d.m, c |-> d.c]

ImInit ==
    /\ imSc \in ImScenarios
    /\ imDisk = imSc.disk
    /\ imMeta = [i \in ImInodes |-> [raw |-> <<>>, times |-> <<>>, pa |-> NoAtime, pd |-> NoData]]
    /\ imReg = {}
    /\ imScan = [next |-> NEVER, running |-> FALSE, expire |-> imSc.expire]
    /\ imNow = imSc.now
    /\ imFails = imSc.fails
    /\ imOp = [t \in ImTasks |-> ImIdle]

-----------------------------------------------------------------------------
(* Calls as lists of steps.                                                *)

Raw == <<"load_raw", "fill_raw", "keep_raw">>
Flush == <<"snap", "commit_pending", "clear">>
FlushAtime == <<"snap_atime", "commit_pending", "clear">>
SetTimes == Flush \o Raw \o <<"times", "stamp", "commit", "publish">>
SetAttr == Flush \o <<"times">> \o Raw \o <<"stamp", "commit", "invalidate", "publish">>
Touch == Raw \o <<"times", "relatime">>
DeferAtime == Raw \o <<"times", "defer", "register", "schedule">>
Steps(op) ==
    CASE op = "stat" -> Raw \o <<"times">>
      [] op = "read" -> Touch \o (IF imSc.lazy THEN DeferAtime ELSE SetTimes)
      [] op = "write" -> Raw \o <<"times", "note">>
      [] op = "utimens" -> Raw \o <<"times", "check_utimens">> \o SetTimes
      [] op = "chmod" -> Raw \o <<"chmod_mode">> \o SetAttr
      [] op = "chown" -> Raw \o <<"chown">> \o SetAttr
      [] op = "fsync" -> <<"want">> \o Flush
      [] op = "sync" -> <<"want", "collect", "sync_next">>
      [] op = "evict" -> <<"evict_check">> \o FlushAtime \o <<"unregister">>
      [] op = "scan" -> <<"scan_start", "scan_claim", "scan_period", "scan_collect", "scan_next", "scan_end">>
      [] op = "sysctl" -> <<"expire", "rescan">>
      [] op \in {"set_xattr", "create_xattr", "replace_xattr"} -> <<"xattr_exists", "xattr_set">>
      [] op = "remove_xattr" -> <<"xattr_remove">>

ImCall(t) == imSc.prog[t][imOp[t].k]
ImAt(t, s) == imOp[t].todo # <<>> /\ Head(imOp[t].todo) = s
ImPut(t, r) == imOp' = [imOp EXCEPT ![t] = r @@ @]
\* The step is done; the call goes on with `more' and the rest, or is over.
ImDo(t, r) == ImPut(t, [todo |-> Tail(imOp[t].todo)] @@ r)
ImThen(t, more, r) == ImPut(t, [todo |-> more \o Tail(imOp[t].todo)] @@ r)
ImOver(t, ret) == ImPut(t, [todo |-> <<>>, ret |-> ret])
ImIno(t) == imOp[t].i
Meta(t) == imMeta[ImIno(t)]
ImLocal == UNCHANGED <<imSc, imDisk, imMeta, imReg, imScan, imNow, imFails>>
ImMetaOnly == UNCHANGED <<imSc, imDisk, imReg, imScan, imNow, imFails>>
ImDiskOnly == UNCHANGED <<imSc, imMeta, imReg, imScan, imNow>>
ImScanOnly == UNCHANGED <<imSc, imDisk, imMeta, imReg, imNow, imFails>>
ImRegOnly == UNCHANGED <<imSc, imDisk, imMeta, imScan, imNow, imFails>>

im_begin(t) ==
    /\ imOp[t].todo = <<>> /\ imOp[t].k < Len(imSc.prog[t]) /\ imNow < ImMaxNow
    /\ LET call == imSc.prog[t][imOp[t].k + 1]
       IN  ImPut(t, [todo |-> Steps(call.op), k |-> imOp[t].k + 1, i |-> call.i, now |-> imNow + 1, raw |-> <<>>,
                     times |-> <<>>, set |-> <<>>, ret |-> 0])
    /\ imNow' = imNow + 1
    /\ UNCHANGED <<imSc, imDisk, imMeta, imReg, imScan, imFails>>

-----------------------------------------------------------------------------
(* Reading.                                                                *)

\* raw_metadata(): the cached record, or the lower inode, which is then kept.
load_raw(t) ==
    /\ ImAt(t, "load_raw")
    /\ ImDo(t, [raw |-> Meta(t).raw, miss |-> Meta(t).raw = <<>>]) /\ ImLocal
fill_raw(t) ==
    /\ ImAt(t, "fill_raw")
    /\ ImDo(t, [raw |-> IF imOp[t].miss THEN imDisk[ImIno(t)] ELSE imOp[t].raw]) /\ ImLocal
keep_raw(t) ==
    /\ ImAt(t, "keep_raw")
    /\ imMeta' = [imMeta EXCEPT ![ImIno(t)].raw = IF imOp[t].miss THEN imOp[t].raw ELSE @]
    /\ ImDo(t, <<>>) /\ ImMetaOnly
\* current_times(), cached_times(): the times in memory go before the raw ones.
current_times(t) == IF Meta(t).times # <<>> THEN Meta(t).times ELSE TimesOf(imOp[t].raw)
take_times(t) == ImAt(t, "times") /\ ImDo(t, [times |-> current_times(t)]) /\ ImLocal

-----------------------------------------------------------------------------
(* Decisions of the callers.                                               *)

\* touch_atime_if_needed(): relatime.
relatime(t) ==
    /\ ImAt(t, "relatime")
    /\ LET o == imOp[t]
       IN  IF imSc.strict \/ o.times.a <= o.times.m \/ o.times.a <= o.times.c \/ o.now - o.times.a >= ATIME_STALE
           THEN ImDo(t, [set |-> [a |-> o.now]]) ELSE ImOver(t, 0)
    /\ ImLocal
IsOwner(t) == imSc.ids[t].uid \in {0, imOp[t].raw.uid}
\* resolve_utimens_times(), check_utimens_permission(): "omit" keeps a time,
\* "now" is the clock; another's file takes only the present, and a writer.
utimens_times(t) ==
    LET call == ImCall(t)
    IN  [f \in {g \in {"a", "m"} : call[g] # "omit"} |-> IF call[f] = "now" THEN imOp[t].now ELSE call.value]
check_utimens(t) ==
    /\ ImAt(t, "check_utimens")
    /\ LET call == ImCall(t)
       IN  CASE call.a = "omit" /\ call.m = "omit" -> ImOver(t, 0)
             [] IsOwner(t) \/ (call.a = "now" /\ call.m = "now" /\ "w" \in imOp[t].raw.mode) ->
                   ImDo(t, [set |-> utimens_times(t)])
             [] OTHER -> ImOver(t, ERR)
    /\ ImLocal
\* chmod_effective_mode(): set-group-id is for members of the group.
chmod_effective_mode(t) ==
    ImCall(t).mode \ (IF imSc.ids[t].uid # 0 /\ ~imSc.ids[t].member THEN {"sgid"} ELSE {})
chmod_mode(t) ==
    /\ ImAt(t, "chmod_mode")
    /\ IF IsOwner(t) THEN ImDo(t, [set |-> [mode |-> chmod_effective_mode(t)]]) ELSE ImOver(t, ERR)
    /\ ImLocal
\* do_chown_inode(): -1 leaves an id alone; the mode is set only if it changes.
check_chown_permission(t, uid, gid) ==
    imSc.ids[t].uid = 0 \/ (uid = -1 /\ IsOwner(t) /\ (gid = -1 \/ imSc.ids[t].member))
resolve_chown_id(id, current) == IF id = -1 THEN current ELSE id
chown_cleared_mode(d, uid, gid) ==
    d.mode \ (IF uid = -1 /\ gid = -1 THEN {} ELSE {"suid"} \cup IF "gexec" \in d.mode THEN {"sgid"} ELSE {})
do_chown_inode(t) ==
    /\ ImAt(t, "chown")
    /\ LET call == ImCall(t)
           d == imOp[t].raw
           ids == [uid |-> resolve_chown_id(call.uid, d.uid), gid |-> resolve_chown_id(call.gid, d.gid)]
           mode == chown_cleared_mode(d, call.uid, call.gid)
       IN  CASE ~check_chown_permission(t, call.uid, call.gid) -> ImOver(t, ERR)
             [] ids = [uid |-> d.uid, gid |-> d.gid] /\ mode = d.mode -> ImOver(t, 0)
             [] OTHER -> ImDo(t, [set |-> ids @@ IF mode = d.mode THEN <<>> ELSE [mode |-> mode]])
    /\ ImLocal

-----------------------------------------------------------------------------
(* Writing.                                                                *)

\* truncate_lower_time(): what the inode can hold.
truncate_lower_time(s) == Min({s, imSc.maxTime})
stamp(t) ==
    /\ ImAt(t, "stamp")
    /\ LET o == imOp[t]
           c == IF ImCall(t).op = "read" THEN <<>> ELSE [c |-> o.now]
           new == [f \in DOMAIN (o.set @@ c) |->
                     IF f \in {"a", "m", "c"} THEN truncate_lower_time((o.set @@ c)[f]) ELSE o.set[f]]
           old == o.times
       IN  ImDo(t, [set |-> new, times |-> [f \in {"a", "m", "c"} |-> IF f \in DOMAIN new THEN new[f] ELSE old[f]]])
    /\ ImLocal
\* A lower call may fail; the call then ends with its error.
LowerFails(t) == imFails > 0 /\ imFails' = imFails - 1
commit_lower_setattr(t) ==
    /\ ImAt(t, "commit")
    /\ \/ /\ imDisk' = [imDisk EXCEPT ![ImIno(t)] = imOp[t].set @@ @]
          /\ ImDo(t, <<>>) /\ UNCHANGED imFails
       \/ LowerFails(t) /\ ImOver(t, ERR) /\ UNCHANGED imDisk
    /\ ImDiskOnly
invalidate_raw_metadata(t) ==
    /\ ImAt(t, "invalidate")
    /\ imMeta' = [imMeta EXCEPT ![ImIno(t)].raw = <<>>]
    /\ ImDo(t, <<>>) /\ ImMetaOnly
set_cached_times(t) ==
    /\ ImAt(t, "publish")
    /\ imMeta' = [imMeta EXCEPT ![ImIno(t)].times = imOp[t].times]
    /\ ImDo(t, <<>>) /\ ImMetaOnly

\* defer_atime(), note_data_write(): the update waits in memory; every batch
\* has a number, and the first of it its time.
next_generation(p) == p.gen + 1
defer_atime(t) ==
    /\ ImAt(t, "defer")
    /\ LET a == truncate_lower_time(imOp[t].now)
           p == Meta(t).pa
       IN  imMeta' = [imMeta EXCEPT ![ImIno(t)].times = [imOp[t].times EXCEPT !.a = a],
                                    ![ImIno(t)].pa = [gen |-> IF p.gen = 0 THEN 1 ELSE next_generation(p), a |-> a,
                                                    at |-> IF p.gen = 0 THEN imNow ELSE p.at]]
    /\ ImDo(t, <<>>) /\ ImMetaOnly
note_data_write(t) ==
    /\ ImAt(t, "note")
    /\ LET m == truncate_lower_time(imOp[t].now)
       IN  imMeta' = [imMeta EXCEPT ![ImIno(t)].times = [imOp[t].times EXCEPT !.m = m, !.c = m],
                                    ![ImIno(t)].pd = [gen |-> @.gen + 1, m |-> m]]
    /\ ImDo(t, <<>>) /\ ImMetaOnly

\* flush_pending_times(), flush_pending_atime(): what is pending is written,
\* and forgotten if it is still that batch.
snap(t) ==
    /\ ImAt(t, "snap") \/ ImAt(t, "snap_atime")
    /\ LET pd == IF ImAt(t, "snap") THEN Meta(t).pd ELSE NoData
           pa == Meta(t).pa
       IN  IF pa.gen = 0 /\ pd.gen = 0
           THEN ImPut(t, [todo |-> SubSeq(imOp[t].todo, 4, Len(imOp[t].todo)), failed |-> FALSE])
           ELSE ImDo(t, [pa |-> pa, pd |-> pd, failed |-> FALSE])
    /\ ImLocal
Pending(o) == (IF o.pa.gen # 0 THEN [a |-> o.pa.a] ELSE <<>>) @@ (IF o.pd.gen # 0 THEN [m |-> o.pd.m, c |-> o.pd.m] ELSE <<>>)
\* A scan and sync() go on with the next inode.
GoesOn(t) == ImCall(t).op \in {"scan", "sync"}
flush_error(t) == ERR
commit_pending(t) ==
    /\ ImAt(t, "commit_pending")
    /\ \/ /\ imDisk' = [imDisk EXCEPT ![ImIno(t)] = Pending(imOp[t]) @@ @]
          /\ ImDo(t, <<>>) /\ UNCHANGED <<imFails, imScan>>
       \/ /\ LowerFails(t) /\ UNCHANGED imDisk
          /\ imScan' = [imScan EXCEPT !.next = IF ImCall(t).op \in {"scan", "evict"} THEN Min({@, imNow + LAZYTIME_RETRY}) ELSE @]
          /\ IF GoesOn(t)
             THEN ImPut(t, [todo |-> SubSeq(imOp[t].todo, 3, Len(imOp[t].todo)), failed |-> TRUE, ret |-> flush_error(t)])
             ELSE ImOver(t, flush_error(t))
    /\ UNCHANGED <<imSc, imMeta, imReg, imNow>>
clears_any(p, q) == p.gen # 0                                          \* mutant
clears(p, q) == p.gen # 0 /\ q.gen = p.gen
clear_pending(t) ==
    /\ ImAt(t, "clear")
    /\ LET o == imOp[t]
       IN  imMeta' = [imMeta EXCEPT ![ImIno(t)].pa = IF clears(o.pa, @) THEN NoAtime ELSE @,
                                    ![ImIno(t)].pd = IF clears(o.pd, @) THEN NoData ELSE @]
    /\ ImDo(t, [pa |-> NoAtime, pd |-> NoData]) /\ ImMetaOnly

-----------------------------------------------------------------------------
(* The lazytime registry.                                                  *)

register_lazytime_inode(t) ==
    /\ ImAt(t, "register")
    /\ imReg' = imReg \cup {ImIno(t)}
    /\ ImDo(t, [pa |-> Meta(t).pa]) /\ ImRegOnly
schedule_lazytime_scan(d) == Min({imScan.next, d})
schedule(t) ==
    /\ ImAt(t, "schedule")
    /\ imScan' = [imScan EXCEPT !.next = IF imScan.expire # 0 /\ imOp[t].pa.gen # 0
                                         THEN schedule_lazytime_scan(imOp[t].pa.at + imScan.expire) ELSE @]
    /\ ImDo(t, [pa |-> NoAtime]) /\ ImScanOnly
\* An entry goes when its inode has nothing pending, looked at under the
\* registry lock.
unregister_idle(t) == IF Meta(t).pa.gen = 0 THEN imReg \ {ImIno(t)} ELSE imReg
unregister(t) ==
    /\ ImAt(t, "unregister")
    /\ imReg' = IF imOp[t].failed THEN imReg ELSE unregister_idle(t)
    /\ ImDo(t, <<>>) /\ ImRegOnly

\* sync(): flush_lazytime_inodes().
wants(t) ==
    /\ ImAt(t, "want")
    /\ ImDo(t, [want |-> [i \in ImInodes |-> IF (ImCall(t).op = "sync" \/ i = ImIno(t)) /\ imMeta[i].pa.gen # 0 /\ (ImCall(t).op # "sync" \/ i \in imReg)
                                             THEN imMeta[i].pa.a ELSE 0]])
    /\ ImLocal
collect(t) == ImAt(t, "collect") /\ ImDo(t, [list |-> imReg]) /\ ImLocal
sync_next(t) ==
    /\ ImAt(t, "sync_next")
    /\ IF imOp[t].list = {} THEN ImDo(t, <<>>)
       ELSE \E i \in imOp[t].list :
               ImThen(t, FlushAtime \o <<"unregister", "sync_next">>, [i |-> i, list |-> imOp[t].list \ {i}])
    /\ ImLocal
\* flush_lazytime_inode_on_evict(): nobody else may be using the inode.
evict_check(t) ==
    /\ ImAt(t, "evict_check")
    /\ IF ImIno(t) \notin imReg \/ \E u \in ImTasks \ {t} : imOp[u].todo # <<>> /\ imOp[u].i = ImIno(t)
       THEN ImOver(t, 0) ELSE ImDo(t, <<>>)
    /\ ImLocal

\* flush_expired_lazytime_inodes_if_needed(), on an idle hart.
scan_start(t) ==
    /\ ImAt(t, "scan_start")
    /\ IF imNow < imScan.next \/ imScan.running THEN ImOver(t, 0) /\ UNCHANGED imScan
       ELSE ImDo(t, [flushed |-> 0]) /\ imScan' = [imScan EXCEPT !.running = TRUE]
    /\ ImScanOnly
scan_claim(t) == ImAt(t, "scan_claim") /\ imScan' = [imScan EXCEPT !.next = NEVER] /\ ImDo(t, [now |-> imNow]) /\ ImScanOnly
scan_period(t) ==
    /\ ImAt(t, "scan_period")
    /\ IF imScan.expire = 0 THEN ImPut(t, [todo |-> <<"scan_end">>]) ELSE ImDo(t, [period |-> imScan.expire])
    /\ ImLocal
scan_collect(t) == ImAt(t, "scan_collect") /\ ImDo(t, [list |-> imReg]) /\ ImLocal
scan_next(t) ==
    /\ ImAt(t, "scan_next")
    /\ IF imOp[t].list = {} \/ imScan.expire = 0 THEN ImDo(t, <<>>)
       ELSE \E i \in imOp[t].list :
              LET p == imMeta[i].pa
                  o == imOp[t]
                  flush == o.now >= p.at + o.period /\ o.flushed < LAZYTIME_BACKGROUND_BATCH
              IN  ImThen(t, IF p.gen = 0 THEN <<"scan_next">>
                            ELSE (IF flush THEN FlushAtime ELSE <<>>) \o <<"scan_after", "scan_next">>,
                         [i |-> i, list |-> o.list \ {i}, failed |-> FALSE,
                          flushed |-> o.flushed + IF p.gen # 0 /\ flush THEN 1 ELSE 0])
    /\ ImLocal
rescan_at(t, d) == Max({d, imOp[t].now})
scan_after(t) ==
    /\ ImAt(t, "scan_after")
    /\ LET p == Meta(t).pa
           o == imOp[t]
       IN  IF p.gen # 0
           THEN /\ imScan' = [imScan EXCEPT !.next = IF o.failed THEN @ ELSE schedule_lazytime_scan(rescan_at(t, p.at + o.period))]
                /\ ImDo(t, <<>>)
           ELSE ImThen(t, <<"unregister">>, <<>>) /\ UNCHANGED imScan
    /\ ImScanOnly
scan_end(t) == ImAt(t, "scan_end") /\ imScan' = [imScan EXCEPT !.running = FALSE] /\ ImDo(t, <<>>) /\ ImScanOnly
\* set_dirtytime_expire_seconds(): 0 waits for a scan in progress.
set_expire(t) == ImAt(t, "expire") /\ imScan' = [imScan EXCEPT !.expire = ImCall(t).value] /\ ImDo(t, <<>>) /\ ImScanOnly
rescan(t) ==
    /\ ImAt(t, "rescan")
    /\ IF ImCall(t).value = 0
       THEN \/ imScan.next # NEVER /\ imScan' = [imScan EXCEPT !.next = NEVER] /\ UNCHANGED imOp
            \/ imScan.next = NEVER /\ ~imScan.running /\ ImDo(t, <<>>) /\ UNCHANGED imScan
       ELSE imScan' = [imScan EXCEPT !.next = imNow] /\ ImDo(t, <<>>)
    /\ ImScanOnly

-----------------------------------------------------------------------------
(* Extended attributes: whether there is one is asked under one lock, and  *)
(* the value set under another.                                            *)

xattr_exists(t) ==
    /\ ImAt(t, "xattr_exists")
    /\ LET there == imDisk[ImIno(t)].x # 0
           op == ImCall(t).op
       IN  IF (op = "create_xattr" /\ there) \/ (op = "replace_xattr" /\ ~there) THEN ImOver(t, ERR) ELSE ImDo(t, <<>>)
    /\ ImLocal
set_xattr(t) ==
    /\ ImAt(t, "xattr_set")
    /\ \/ imDisk' = [imDisk EXCEPT ![ImIno(t)].x = ImCall(t).value] /\ ImDo(t, <<>>) /\ UNCHANGED imFails
       \/ LowerFails(t) /\ ImOver(t, ERR) /\ UNCHANGED imDisk
    /\ ImDiskOnly
remove_xattr(t) ==
    /\ ImAt(t, "xattr_remove")
    /\ IF imDisk[ImIno(t)].x = 0 THEN ImOver(t, ERR) /\ UNCHANGED imDisk
       ELSE imDisk' = [imDisk EXCEPT ![ImIno(t)].x = 0] /\ ImDo(t, <<>>)
    /\ UNCHANGED imFails /\ ImDiskOnly

ImNext ==
    \E t \in ImTasks :
       \/ im_begin(t) \/ load_raw(t) \/ fill_raw(t) \/ keep_raw(t) \/ take_times(t) \/ relatime(t) \/ check_utimens(t)
       \/ chmod_mode(t) \/ do_chown_inode(t) \/ stamp(t) \/ commit_lower_setattr(t) \/ invalidate_raw_metadata(t)
       \/ set_cached_times(t) \/ defer_atime(t) \/ note_data_write(t) \/ snap(t) \/ commit_pending(t) \/ clear_pending(t)
       \/ register_lazytime_inode(t) \/ schedule(t) \/ unregister(t) \/ wants(t) \/ collect(t) \/ sync_next(t)
       \/ evict_check(t) \/ scan_start(t) \/ scan_claim(t) \/ scan_period(t) \/ scan_collect(t) \/ scan_next(t)
       \/ scan_after(t) \/ scan_end(t) \/ set_expire(t) \/ rescan(t) \/ xattr_exists(t) \/ set_xattr(t) \/ remove_xattr(t)
ImSpec == ImInit /\ [][ImNext]_imVars

-----------------------------------------------------------------------------
(* Properties.                                                             *)

ImBusy(t) == imOp[t].todo # <<>>
ImDoing(t, steps) == ImBusy(t) /\ Head(imOp[t].todo) \in steps
ImAllDone == \A t \in ImTasks : ~ImBusy(t)

\* Types; and no lower time is beyond what the inode can hold.
ImTypeOK ==
    /\ \A i \in ImInodes : imDisk[i].a <= imSc.maxTime /\ imDisk[i].m <= imSc.maxTime /\ imMeta[i].pa.gen \in Nat
    /\ imReg \subseteq ImInodes /\ imScan.next \in Nat

\* When no call is in progress the times in memory are those of the lower
\* inode, or wait to be written: an update is neither forgotten nor undone
\* ("刷写成功时只能清除自己观察到的版本，不能覆盖期间产生的更新", inode.rs:739).
TimesReachDisk ==
    ImAllDone => \A i \in ImInodes :
       LET m == imMeta[i]
       IN  m.times # <<>> =>
             /\ m.times.a = IF m.pa.gen # 0 THEN m.pa.a ELSE imDisk[i].a
             /\ m.times.m = IF m.pd.gen # 0 THEN m.pd.m ELSE imDisk[i].m

\* A deferred access time has an owner that keeps the inode alive until it is
\* written: it is in the registry, or its reader is about to put it there.
PendingRegistered ==
    \A i \in ImInodes : imMeta[i].pa.gen # 0 =>
       i \in imReg \/ \E t \in ImTasks : ImDoing(t, {"register"}) /\ ImIno(t) = i

\* An inode in the registry with something pending is scanned in time: a scan
\* is due no later than its deadline (or the retry of a failure), is going
\* on, or is about to be asked for.
ScanArmed ==
    (ImAllDone /\ imScan.expire # 0) => \A i \in imReg : imMeta[i].pa.gen # 0 =>
       imScan.next <= Max({imMeta[i].pa.at + imScan.expire, imNow + LAZYTIME_RETRY})

\* fsync() and sync() return success only after the access times that were
\* deferred when they began are in the lower inode.
SyncWrites ==
    \A t \in ImTasks : (~ImBusy(t) /\ imOp[t].k > 0 /\ imOp[t].ret = 0) =>
       \A i \in ImInodes : imDisk[i].a >= imOp[t].want[i]

=============================================================================
