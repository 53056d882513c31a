---------------------------- MODULE SharedMemory ----------------------------
(***************************************************************************)
(* Anonymous memory files (memfd_create; os/src/fs/special.rs): one file   *)
(* with its bytes, seals and count of writable shared pages, the opens of  *)
(* it, and the processes that map it.  Page faults and write-back of the   *)
(* mappings go through read_file_at() and write_file_at() of               *)
(* mm/memory_set.rs, which move the cursor of the open file and put it     *)
(* back.                                                                   *)
(*                                                                         *)
(* A call is a list of steps; each lock the code takes and drops ends one. *)
(***************************************************************************)
EXTENDS Integers, FiniteSets, Sequences, SequencesExt, FiniteSetsExt, Functions, TLC

CONSTANTS
    MfTasks, MfFds, MfProcs,
    MfMax,            \* no file grows past this many bytes
    MfScenarios       \* [prog: [task -> calls], opens: [fd -> open], seals]

SEAL == {"SEAL", "SHRINK", "GROW", "WRITE"}    \* F_SEAL_MASK

VARIABLES
    mfProg,    \* the calls each task still makes
    mfData,    \* the bytes; each is the number of the task that wrote it
    mfSeals,
    mfCount,   \* writable_shared_mappings, in pages
    mfLock,    \* the task that holds the lock of the bytes, 0 if none
    mfOpen,    \* [pos, append, rw, own]: own is where the owner's calls left pos
    mfMaps,    \* [w, r]: pages each process maps shared, writable and read-only
    mfOp       \* the call of each task

mfVars == <<mfProg, mfData, mfSeals, mfCount, mfLock, mfOpen, mfMaps, mfOp>>

MfNoCall == [call |-> "none", todo |-> <<>>, fd |-> 0, proc |-> 0, off |-> 0, n |-> 0, seals |-> {}, to |-> 0, began |-> {}, kept |-> 0, ok |-> TRUE]

MfStart(s) ==
    /\ mfProg = s.prog
    /\ mfOpen = [f \in MfFds |-> [pos |-> 0, append |-> s.append[f], rw |-> s.rw[f], own |-> 0]]
    /\ mfSeals = s.seals              \* new_memfd(): {"SEAL"} unless MFD_ALLOW_SEALING
    /\ mfData = s.data
    /\ mfMaps = s.maps
    /\ mfCount = FoldFunction(+, 0, [p \in MfProcs |-> s.maps[p].w])
    /\ mfLock = 0
    /\ mfOp = [t \in MfTasks |-> MfNoCall]
MfInit == \E s \in MfScenarios : MfStart(s)

MfAt(t, s) == mfOp[t].todo # <<>> /\ Head(mfOp[t].todo) = s
MfStep(t) == mfOp' = [mfOp EXCEPT ![t].todo = Tail(@)]
MfEnd(t, ok) == mfOp' = [mfOp EXCEPT ![t].todo = <<>>, ![t].ok = ok]

(* Whoever holds the bytes also holds the cursor of its open file.         *)
MfFree(t) == mfLock \in {0, t}
CursorFree(t, f) == ~MfFree(t) => mfOp[mfLock].fd # f

WritableOpen(f) == mfOpen[f].rw

(***************************************************************************)
(* The steps of each call.                                                 *)
(***************************************************************************)
at_offset(calls) == <<"get", "seek", calls, "restore">>

MfSteps(q) ==
    CASE q.call = "read" -> <<"read">>
      [] q.call = "write" -> <<"sealed", "enter", "put">>
      [] q.call = "pwrite" -> <<"sealed", "enter", "put">>
      [] q.call = "truncate" -> <<"enter_size", "resize">>
      [] q.call = "allocate" -> <<"enter", "extend">>
      [] q.call = "punch" -> <<"sealed", "punch">>
      [] q.call = "add_seals" -> <<"add_seals">>
      [] q.call = "mmap" -> <<"allowed", "map">>
      [] q.call = "munmap" -> <<"unmap">>
      [] q.call = "mprotect" -> <<"allowed", "protect">>
      [] q.call = "fork" -> <<"fork">>
      [] q.call = "exit" -> <<"unmap">>
      [] q.call = "fault" -> at_offset("read")
      [] q.call = "writeback" -> <<"get", "seek", "sealed", "enter", "put", "restore">>

MfBegin(t) ==
    /\ mfOp[t].todo = <<>> /\ mfProg[t] # <<>>
    /\ LET q == Head(mfProg[t]) IN
       mfOp' = [mfOp EXCEPT ![t] = [q @@ MfNoCall EXCEPT !.todo = MfSteps(q), !.began = mfSeals]]
    /\ mfProg' = [mfProg EXCEPT ![t] = Tail(@)]
    /\ UNCHANGED <<mfData, mfSeals, mfCount, mfLock, mfOpen, mfMaps>>

(***************************************************************************)
(* Reading and writing.                                                    *)
(***************************************************************************)
Owns(t) == mfOp[t].call \in {"read", "write"}    \* a call of the open file's owner
Moved(t, to) == [mfOpen EXCEPT ![mfOp[t].fd].pos = to, ![mfOp[t].fd].own = IF Owns(t) THEN @ + to - mfOpen[mfOp[t].fd].pos ELSE @]

MfRead(t) ==
    /\ MfAt(t, "read") /\ MfFree(t)
    /\ LET pos == mfOpen[mfOp[t].fd].pos
           n == IF pos >= Len(mfData) THEN 0 ELSE IF mfOp[t].n < Len(mfData) - pos THEN mfOp[t].n ELSE Len(mfData) - pos
       IN mfOpen' = Moved(t, pos + n)
    /\ MfStep(t)
    /\ UNCHANGED <<mfProg, mfData, mfSeals, mfCount, mfLock, mfMaps>>

(* The first look at the seals is before the lock of the bytes.            *)
no_look(t) == FALSE    \* mutant
write_sealed(t) == "WRITE" \in mfSeals

(* An error ends the call; write_file_at() still puts the cursor back.     *)
Fails(t) == mfOp' = [mfOp EXCEPT ![t].todo = SelectSeq(@, LAMBDA s : s = "restore"), ![t].ok = FALSE]

MfSealed(t) ==
    /\ MfAt(t, "sealed")
    /\ IF write_sealed(t) THEN Fails(t) ELSE MfStep(t)
    /\ UNCHANGED <<mfProg, mfData, mfSeals, mfCount, mfLock, mfOpen, mfMaps>>

(* Where the bytes of the call go: O_APPEND moves the cursor first, also   *)
(* when the call then fails.                                               *)
UsesCursor(t) == mfOp[t].call \in {"write", "writeback"}
StartOf(t) ==
    IF ~UsesCursor(t) THEN mfOp[t].off
    ELSE IF mfOpen[mfOp[t].fd].append THEN Len(mfData) ELSE mfOpen[mfOp[t].fd].pos
EndOf(t) == StartOf(t) + mfOp[t].n

grow_sealed(t) == EndOf(t) > Len(mfData) /\ "GROW" \in mfSeals

MfEnter(t) ==
    /\ MfAt(t, "enter") /\ mfLock = 0
    /\ IF grow_sealed(t) THEN Fails(t) /\ UNCHANGED mfLock ELSE MfStep(t) /\ mfLock' = t
    /\ mfOpen' = IF grow_sealed(t) /\ UsesCursor(t) THEN Moved(t, StartOf(t)) ELSE mfOpen
    /\ UNCHANGED <<mfProg, mfData, mfSeals, mfCount, mfMaps>>

Resized(n) == [i \in 1 .. n |-> IF i <= Len(mfData) THEN mfData[i] ELSE 0]
Written(t) ==
    LET long == Resized(IF EndOf(t) > Len(mfData) THEN EndOf(t) ELSE Len(mfData))
    IN [i \in DOMAIN long |-> IF i > StartOf(t) /\ i <= EndOf(t) THEN t ELSE long[i]]

MfPut(t) ==
    /\ MfAt(t, "put") /\ mfLock = t
    /\ EndOf(t) <= MfMax
    /\ mfData' = Written(t)
    /\ mfOpen' = IF UsesCursor(t) THEN Moved(t, EndOf(t)) ELSE mfOpen
    /\ mfLock' = 0
    /\ MfStep(t)
    /\ UNCHANGED <<mfProg, mfSeals, mfCount, mfMaps>>

(* allocate_range() only extends; punch_hole() clears within the file.     *)
MfExtend(t) ==
    /\ MfAt(t, "extend") /\ mfLock = t
    /\ mfData' = IF EndOf(t) > Len(mfData) THEN Resized(EndOf(t)) ELSE mfData
    /\ mfLock' = 0
    /\ MfStep(t)
    /\ UNCHANGED <<mfProg, mfSeals, mfCount, mfOpen, mfMaps>>

MfPunch(t) ==
    /\ MfAt(t, "punch") /\ MfFree(t)
    /\ mfData' = [i \in DOMAIN mfData |-> IF i > mfOp[t].off /\ i <= mfOp[t].off + mfOp[t].n THEN 0 ELSE mfData[i]]
    /\ MfStep(t)
    /\ UNCHANGED <<mfProg, mfSeals, mfCount, mfLock, mfOpen, mfMaps>>

(* truncate(): here the seals are read under the lock of the bytes.        *)
resize_sealed(n) == (n < Len(mfData) /\ "SHRINK" \in mfSeals) \/ (n > Len(mfData) /\ "GROW" \in mfSeals)

MfEnterSize(t) ==
    /\ MfAt(t, "enter_size") /\ mfLock = 0
    /\ IF resize_sealed(mfOp[t].n) THEN Fails(t) /\ UNCHANGED mfLock
       ELSE MfStep(t) /\ mfLock' = t
    /\ UNCHANGED <<mfProg, mfData, mfSeals, mfCount, mfOpen, mfMaps>>

MfResize(t) ==
    /\ MfAt(t, "resize") /\ mfLock = t
    /\ mfData' = Resized(mfOp[t].n)
    /\ mfLock' = 0
    /\ MfStep(t)
    /\ UNCHANGED <<mfProg, mfSeals, mfCount, mfOpen, mfMaps>>

(***************************************************************************)
(* Seals and mappings.                                                     *)
(***************************************************************************)
add_seals(t) ==
    /\ MfAt(t, "add_seals")
    /\ IF ~WritableOpen(mfOp[t].fd) \/ "SEAL" \in mfSeals \/ ("WRITE" \in mfOp[t].seals /\ mfCount > 0)
       THEN MfEnd(t, FALSE) /\ UNCHANGED mfSeals
       ELSE MfEnd(t, TRUE) /\ mfSeals' = mfSeals \cup mfOp[t].seals
    /\ UNCHANGED <<mfProg, mfData, mfCount, mfLock, mfOpen, mfMaps>>

(* mmap() and mprotect() ask before they have the count.                   *)
Asks(t) == mfOp[t].call = "mmap" \/ mfOp[t].to > 0
mmap_allowed(t) ==
    /\ MfAt(t, "allowed")
    /\ IF Asks(t) /\ mfOp[t].to # 0 /\ (~WritableOpen(mfOp[t].fd) \/ "WRITE" \in mfSeals) THEN MfEnd(t, FALSE) ELSE MfStep(t)
    /\ UNCHANGED <<mfProg, mfData, mfSeals, mfCount, mfLock, mfOpen, mfMaps>>

(* Pages of one process that become writable, and stop being so: split     *)
(* areas count their own pages.                                            *)
mmap_open(n) == mfCount + n
mmap_close(n) == IF n > mfCount THEN 0 ELSE mfCount - n

MfMap(t) ==
    /\ MfAt(t, "map")
    /\ mfMaps' = [mfMaps EXCEPT ![mfOp[t].proc] = IF mfOp[t].to = 1 THEN [@ EXCEPT !.w = @ + mfOp[t].n] ELSE [@ EXCEPT !.r = @ + mfOp[t].n]]
    /\ mfCount' = IF mfOp[t].to = 1 THEN mmap_open(mfOp[t].n) ELSE mfCount
    /\ MfStep(t)
    /\ UNCHANGED <<mfProg, mfData, mfSeals, mfLock, mfOpen>>

MfProtect(t) ==
    /\ MfAt(t, "protect")
    /\ LET m == mfMaps[mfOp[t].proc] n == mfOp[t].n IN
       IF mfOp[t].to = 1
       THEN /\ m.r >= n
            /\ mfMaps' = [mfMaps EXCEPT ![mfOp[t].proc] = [w |-> m.w + n, r |-> m.r - n]]
            /\ mfCount' = mmap_open(n)
       ELSE /\ m.w >= n
            /\ mfMaps' = [mfMaps EXCEPT ![mfOp[t].proc] = [w |-> m.w - n, r |-> m.r + n]]
            /\ mfCount' = mmap_close(n)
    /\ MfStep(t)
    /\ UNCHANGED <<mfProg, mfData, mfSeals, mfLock, mfOpen>>

(* munmap() of part of the writable pages, or exit with all of them.       *)
MfUnmap(t) ==
    /\ MfAt(t, "unmap")
    /\ LET m == mfMaps[mfOp[t].proc]
           n == IF mfOp[t].call = "exit" THEN m.w ELSE mfOp[t].n
       IN /\ m.w >= n
          /\ mfCount' = mmap_close(n)
          /\ mfMaps' = [mfMaps EXCEPT ![mfOp[t].proc] = [w |-> m.w - n, r |-> IF mfOp[t].call = "exit" THEN 0 ELSE m.r]]
    /\ MfStep(t)
    /\ UNCHANGED <<mfProg, mfData, mfSeals, mfLock, mfOpen>>

(* The child's areas are opened as they are copied.                        *)
fork_opens(m) == m.w

MfFork(t) ==
    /\ MfAt(t, "fork")
    /\ mfMaps' = [mfMaps EXCEPT ![mfOp[t].to] = mfMaps[mfOp[t].proc]]
    /\ mfCount' = mmap_open(fork_opens(mfMaps[mfOp[t].proc]))
    /\ MfStep(t)
    /\ UNCHANGED <<mfProg, mfData, mfSeals, mfLock, mfOpen>>

(***************************************************************************)
(* read_file_at() and write_file_at().                                     *)
(***************************************************************************)
MfGet(t) ==
    /\ MfAt(t, "get") /\ CursorFree(t, mfOp[t].fd)
    /\ mfOp' = [mfOp EXCEPT ![t].todo = Tail(@), ![t].kept = mfOpen[mfOp[t].fd].pos]
    /\ UNCHANGED <<mfProg, mfData, mfSeals, mfCount, mfLock, mfOpen, mfMaps>>

MfSeek(t) ==
    /\ MfAt(t, "seek") \/ MfAt(t, "restore")
    /\ CursorFree(t, mfOp[t].fd)
    /\ mfOpen' = [mfOpen EXCEPT ![mfOp[t].fd].pos = IF MfAt(t, "seek") THEN mfOp[t].off ELSE mfOp[t].kept]
    /\ MfStep(t)
    /\ UNCHANGED <<mfProg, mfData, mfSeals, mfCount, mfLock, mfMaps>>

MfNext ==
    \E t \in MfTasks :
        \/ MfBegin(t) \/ MfRead(t) \/ MfSealed(t) \/ MfEnter(t) \/ MfPut(t) \/ MfExtend(t) \/ MfPunch(t) \/ MfEnterSize(t) \/ MfResize(t)
        \/ add_seals(t) \/ mmap_allowed(t) \/ MfMap(t) \/ MfProtect(t) \/ MfUnmap(t) \/ MfFork(t)
        \/ MfGet(t) \/ MfSeek(t)

MfSpec == MfInit /\ [][MfNext]_mfVars

(***************************************************************************)
(* Properties.                                                             *)
(***************************************************************************)
MfTypeOK ==
    /\ mfSeals \subseteq SEAL
    /\ mfCount \in Nat
    /\ mfLock \in MfTasks \cup {0}
    /\ Len(mfData) <= MfMax
    /\ \A f \in MfFds : mfOpen[f].pos \in Nat

(* The count add_seals() relies on is the number of pages any process can  *)
(* write through a shared mapping: forks, splits, changes of protection,   *)
(* unmaps and exits keep it.                                               *)
CountIsPages == mfCount = FoldFunction(+, 0, [p \in MfProcs |-> mfMaps[p].w])

(* What a seal forbids: F_SEAL_GROW a longer file, F_SEAL_SHRINK a shorter *)
(* one, F_SEAL_WRITE other bytes.                                          *)
Obeyed(seals) ==
    /\ "GROW" \in seals => Len(mfData') <= Len(mfData)
    /\ "SHRINK" \in seals => Len(mfData') >= Len(mfData)
    /\ "WRITE" \in seals => \A i \in DOMAIN mfData \cap DOMAIN mfData' : mfData'[i] = mfData[i]

(* A call that began after a seal was set never does what it forbids,      *)
(* whichever of write, pwrite, fallocate, ftruncate or the write-back of a *)
(* mapping it is.                                                          *)
SealsRefuse == [][\A t \in MfTasks : mfOp'[t] # mfOp[t] => Obeyed(mfOp[t].began)]_mfVars

(* A page fault on a mapping, or the write-back of one, does not disturb   *)
(* the reads and writes made through the open file: when none is under way *)
(* the cursor is where those calls left it.                                *)
CursorUndisturbed ==
    \A f \in MfFds :
        (\A t \in MfTasks : mfOp[t].todo # <<>> => mfOp[t].fd # f) => mfOpen[f].pos = mfOpen[f].own

-----------------------------------------------------------------------------
(***************************************************************************)
(* System V shared memory: the table of syscall/ipc.rs and the attachments *)
(* that fork, exec, exit, shmat() and shmdt() make and drop.  The table is *)
(* changed under its lock, the address spaces under theirs; shmat(), the   *)
(* release of an attachment, fork and exit take them one after the other,  *)
(* and other tasks run in between.                                         *)
(*                                                                         *)
(* A segment is its key, owner, mode and size in pages; an address space   *)
(* is the set of its attachments.  A task is seen by the scans of          *)
(* TASK_MANAGER while it is `live`.                                        *)
(***************************************************************************)

CONSTANTS
    ShTasks,
    shmmni,        \* segments
    shmall,        \* pages of all segments
    ShFrames,      \* frames of the machine
    ShScenarios

VARIABLES
    shSc,          \* the tasks' programs, users and processes
    segs,          \* SHM_TABLE.segments: sequence, `on` while in the table
    owners,        \* SHM_TABLE.attach_owners: attach id -> segment
    aids,          \* attach ids given out
    shSpaces,        \* address space -> set of [aid, seg]
    sht            \* the tasks

shVars == <<shSc, segs, owners, aids, shSpaces, sht>>

ShTask(t) == [pc |-> "idle", k |-> 1, live |-> t \in shSc.first, ms |-> shSc.ms[t], ids |-> {}, free |-> {}, seg |-> 0, aid |-> 0, owned |-> FALSE, ret |-> "ok"]
ShInit ==
    /\ shSc \in ShScenarios
    /\ segs = <<>> /\ owners = <<>> /\ aids = 0
    /\ shSpaces = [m \in shSc.shSpaces |-> {}]
    /\ sht = [t \in ShTasks |-> ShTask(t)]

ShSet(t, r) == sht' = [sht EXCEPT ![t] = r @@ @]
ShAt(t, l) == sht[t].live /\ sht[t].pc = l
ShOp(t) == shSc.prog[t][sht[t].k]
ShCalls(t, op) == ShAt(t, "idle") /\ sht[t].k <= Len(shSc.prog[t]) /\ ShOp(t).op = op
ShDone(t, r) == [pc |-> "idle", k |-> sht[t].k + 1, ret |-> r, ids |-> {}, free |-> {}, seg |-> 0, aid |-> 0]
ShOnlyTask == UNCHANGED <<shSc, segs, owners, aids, shSpaces>>

Segs == {s \in DOMAIN segs : segs[s].on}
UsedPages == MapThenSumSet(LAMBDA s : segs[s].pages, Segs)
UsedFrames == MapThenSumSet(LAMBDA s : IF segs[s].on \/ \E m \in DOMAIN shSpaces : \E a \in shSpaces[m] : a.seg = s THEN segs[s].pages ELSE 0, DOMAIN segs)

-----------------------------------------------------------------------------
(* The table.                                                              *)

find_by_key(key) == {s \in Segs : segs[s].key = key /\ ~ segs[s].dest}
shm_access_allowed(t, s, mask) == shSc.uid[t] \in {0, segs[s].uid} \/ mask \in segs[s].oth
\* Owner or root, for IPC_SET, IPC_RMID, SHM_LOCK.
ShOwns(t, s) == shSc.uid[t] \in {0, segs[s].uid}
\* shm_attach_count(): the address spaces of the tasks that are listed.
Attached(s) == \E t \in ShTasks : sht[t].live /\ \E a \in shSpaces[sht[t].ms] : a.seg = s
shm_attach_id_in_use(a) == \E t \in ShTasks : sht[t].live /\ \E x \in shSpaces[sht[t].ms] : x.aid = a

\* mutant: an attach that is on its way does not count.
unused_now(sg, s) == sg[s].dest /\ ~ Attached(s)
Unused(sg, s) == sg[s].dest /\ sg[s].pending = 0 /\ ~ Attached(s)
\* The segments that are marked removed and no longer used leave the table.
Reaped(sg) == [s \in DOMAIN sg |-> IF sg[s].on /\ Unused(sg, s) THEN [sg[s] EXCEPT !.on = FALSE] ELSE sg[s]]
OwnersOf(sg, ow) == Restrict(ow, {a \in DOMAIN ow : sg[ow[a]].on})

over_quota(n) == UsedPages + n > shmall
sys_shmget(t) ==
    /\ ShCalls(t, "get")
    /\ LET o == ShOp(t)
           S == IF o.key = 0 THEN {} ELSE find_by_key(o.key)
           s == CHOOSE x \in S : TRUE
           e == IF S # {} THEN (IF o.excl THEN "EEXIST" ELSE IF o.pages > segs[s].pages THEN "EINVAL" ELSE IF ~ shm_access_allowed(t, s, "w") THEN "EACCES" ELSE "found")
                ELSE IF o.key # 0 /\ ~ o.creat THEN "ENOENT"
                ELSE IF o.pages = 0 THEN "EINVAL"
                ELSE IF over_quota(o.pages) THEN "ENOSPC"
                ELSE IF UsedFrames + o.pages > ShFrames THEN "ENOMEM"
                ELSE IF Cardinality(Segs) >= shmmni THEN "ENOSPC" ELSE "ok"
       IN  /\ segs' = IF e # "ok" THEN segs
                      ELSE Append(segs, [key |-> o.key, pages |-> o.pages, uid |-> shSc.uid[t], oth |-> o.oth, dest |-> FALSE, pending |-> 0, locked |-> FALSE, on |-> TRUE])
           /\ ShSet(t, ShDone(t, e))
    /\ UNCHANGED <<shSc, owners, aids, shSpaces>>

-----------------------------------------------------------------------------
(* shmat(): the table, the address space, the table.                       *)

sys_shmat(t) ==
    /\ ShCalls(t, "at")
    /\ LET s == ShOp(t).seg
           e == IF s \notin Segs THEN "EINVAL" ELSE IF ~ shm_access_allowed(t, s, IF ShOp(t).ro THEN "r" ELSE "w") THEN "EACCES" ELSE "ok"
       IN  IF e # "ok" THEN ShSet(t, ShDone(t, e)) /\ ShOnlyTask
           ELSE /\ aids' = aids + 1
                /\ segs' = [segs EXCEPT ![s].pending = @ + 1]
                /\ owners' = (aids' :> s) @@ owners
                /\ ShSet(t, [pc |-> "map", seg |-> s, aid |-> aids'])
                /\ UNCHANGED <<shSc, shSpaces>>
shmat_map(t) ==
    /\ ShAt(t, "map")
    /\ shSpaces' = IF ShOp(t).fault THEN shSpaces ELSE [shSpaces EXCEPT ![sht[t].ms] = @ \cup {[aid |-> sht[t].aid, seg |-> sht[t].seg]}]
    /\ ShSet(t, [pc |-> "attached"]) /\ UNCHANGED <<shSc, segs, owners, aids>>
owners_after(t) == IF ShOp(t).fault THEN Restrict(owners, DOMAIN owners \ {sht[t].aid}) ELSE owners
shmat_done(t) ==
    /\ ShAt(t, "attached")
    /\ segs' = Reaped([segs EXCEPT ![sht[t].seg].pending = @ - 1])
    /\ owners' = OwnersOf(segs', owners_after(t))
    /\ ShSet(t, ShDone(t, IF ShOp(t).fault THEN "ENOMEM" ELSE "ok"))
    /\ UNCHANGED <<shSc, aids, shSpaces>>

-----------------------------------------------------------------------------
(* shmctl().                                                               *)

\* The user's structure is read before, or written after, the table is locked.
sys_shmctl(t) ==
    /\ ShCalls(t, "ctl")
    /\ LET s == ShOp(t).seg
           cmd == ShOp(t).cmd
       IN  IF s \notin Segs THEN ShSet(t, ShDone(t, "EINVAL")) /\ UNCHANGED <<segs, owners>>
           ELSE IF cmd = "stat" THEN ShSet(t, IF ~ shm_access_allowed(t, s, "r") THEN ShDone(t, "EACCES") ELSE [pc |-> "count", seg |-> s]) /\ UNCHANGED <<segs, owners>>
           ELSE IF ~ ShOwns(t, s) THEN ShSet(t, ShDone(t, "EPERM")) /\ UNCHANGED <<segs, owners>>
           ELSE /\ segs' = CASE cmd = "set" -> [segs EXCEPT ![s].uid = ShOp(t).uid]
                             [] cmd = "lock" -> [segs EXCEPT ![s].locked = ~ @]
                             [] cmd = "rmid" -> [segs EXCEPT ![s].dest = TRUE, ![s].on = ~ Unused([segs EXCEPT ![s].dest = TRUE], s)]
                /\ owners' = OwnersOf(segs', owners)
                /\ ShSet(t, ShDone(t, "ok"))
    /\ UNCHANGED <<shSc, aids, shSpaces>>
\* The attachments are counted after the lock is released.
shmctl_count(t) ==
    /\ ShAt(t, "count")
    /\ ShSet(t, ShDone(t, IF Attached(sht[t].seg) THEN "ok" ELSE "none")) /\ ShOnlyTask

-----------------------------------------------------------------------------
(* Detaching.                                                              *)

sys_shmdt(t) ==
    /\ ShCalls(t, "dt")
    /\ LET A == {a \in shSpaces[sht[t].ms] : a.seg = ShOp(t).seg}
           a == CHOOSE x \in A : TRUE
       IN  IF A = {} THEN ShSet(t, ShDone(t, "EINVAL")) /\ UNCHANGED shSpaces
           ELSE shSpaces' = [shSpaces EXCEPT ![sht[t].ms] = @ \ {a}] /\ ShSet(t, [pc |-> "scan", ids |-> {a.aid}])
    /\ UNCHANGED <<shSc, segs, owners, aids>>
\* munmap() of the whole attachment: nothing but the address space changes.
shm_munmap(t) ==
    /\ ShCalls(t, "munmap")
    /\ shSpaces' = [shSpaces EXCEPT ![sht[t].ms] = {a \in @ : a.seg # ShOp(t).seg}]
    /\ ShSet(t, ShDone(t, "ok")) /\ UNCHANGED <<shSc, segs, owners, aids>>
\* release_shm_attachments(): which attach ids nobody has, then the table.
release_scan(t) ==
    /\ ShAt(t, "scan")
    /\ ShSet(t, [pc |-> "release", free |-> {a \in sht[t].ids : ~ shm_attach_id_in_use(a)}]) /\ ShOnlyTask
release_reap(sg) == Reaped(sg)
release_shm_attachments(t) ==
    /\ ShAt(t, "release")
    /\ segs' = IF sht[t].ids = {} THEN segs ELSE release_reap(segs)
    /\ owners' = OwnersOf(segs', Restrict(owners, DOMAIN owners \ sht[t].free))
    /\ ShSet(t, IF ShOp(t).op = "exit" THEN [pc |-> "remove"] ELSE ShDone(t, "ok"))
    /\ UNCHANGED <<shSc, aids, shSpaces>>

-----------------------------------------------------------------------------
(* fork, exec and exit.                                                    *)

sh_fork(t) ==
    /\ ShCalls(t, "fork")
    /\ LET c == ShOp(t).child IN
       /\ shSpaces' = IF ShOp(t).vm THEN shSpaces ELSE [shSpaces EXCEPT ![shSc.ms[c]] = shSpaces[sht[t].ms]]
       /\ sht' = [sht EXCEPT ![t].pc = "publish", ![c].ms = IF ShOp(t).vm THEN sht[t].ms ELSE shSc.ms[c]]
    /\ UNCHANGED <<shSc, segs, owners, aids>>
sh_publish(t) ==
    /\ ShAt(t, "publish")
    /\ sht' = [sht EXCEPT ![t] = (IF ShOp(t).vm THEN [pc |-> "vfork"] ELSE ShDone(t, "ok")) @@ @, ![ShOp(t).child].live = TRUE]
    /\ ShOnlyTask
\* CLONE_VFORK: the parent goes on after the child's exec or exit.
vfork_resumed(t) ==
    /\ ShAt(t, "vfork")
    /\ LET c == sht[ShOp(t).child] IN (c.ms # sht[t].ms /\ c.pc \notin {"scan", "release"}) \/ c.pc = "remove" \/ ~ c.live
    /\ ShSet(t, ShDone(t, "ok")) /\ ShOnlyTask
\* The new image is an address space that nobody else has.
sh_exec(t) ==
    /\ ShCalls(t, "exec")
    /\ ShSet(t, [pc |-> "scan", ms |-> ShOp(t).ms, ids |-> {a.aid : a \in shSpaces[sht[t].ms]}])
    /\ shSpaces' = [shSpaces EXCEPT ![sht[t].ms] = IF \E u \in ShTasks \ {t} : sht[u].ms = sht[t].ms /\ (sht[u].live \/ sht[u].pc # "idle") THEN @ ELSE {}]
    /\ UNCHANGED <<shSc, segs, owners, aids>>
\* exit_process_group(): who shares the address space is looked at first.
sh_exit(t) ==
    /\ ShCalls(t, "exit")
    /\ ShSet(t, [pc |-> "exit", owned |-> ~ \E u \in ShTasks \ {t} : sht[u].live /\ sht[u].ms = sht[t].ms]) /\ ShOnlyTask
exit_recycle(t) ==
    /\ ShAt(t, "exit")
    /\ ShSet(t, [pc |-> "scan", ids |-> IF sht[t].owned THEN {a.aid : a \in shSpaces[sht[t].ms]} ELSE {}])
    /\ shSpaces' = [shSpaces EXCEPT ![sht[t].ms] = IF sht[t].owned THEN {} ELSE @]
    /\ UNCHANGED <<shSc, segs, owners, aids>>
exit_remove(t) ==
    /\ ShAt(t, "remove")
    /\ ShSet(t, ShDone(t, "ok") @@ [live |-> FALSE]) /\ ShOnlyTask

ShNext == \E t \in ShTasks :
    \/ sys_shmget(t) \/ sys_shmat(t) \/ shmat_map(t) \/ shmat_done(t) \/ sys_shmctl(t) \/ shmctl_count(t)
    \/ sys_shmdt(t) \/ shm_munmap(t) \/ release_scan(t) \/ release_shm_attachments(t)
    \/ sh_fork(t) \/ sh_publish(t) \/ vfork_resumed(t) \/ sh_exec(t) \/ sh_exit(t) \/ exit_recycle(t) \/ exit_remove(t)
ShSpec == ShInit /\ [][ShNext]_shVars
-----------------------------------------------------------------------------
(* Properties.                                                             *)

\* Type correctness; the segments stay within SHMMNI and SHMALL.
ShTypeOK ==
    /\ Cardinality(Segs) <= shmmni /\ UsedPages <= shmall
    /\ \A s \in DOMAIN segs : segs[s].pending \in 0 .. Cardinality(ShTasks)
    /\ \A a \in DOMAIN owners : owners[a] \in Segs /\ a \in 1 .. aids
    /\ \A t \in ShTasks : sht[t].ms \in DOMAIN shSpaces

\* A segment that IPC_RMID removes lives until its last attachment goes: what
\* a listed task has attached, or is attaching, is in the table.
SegmentOutlivesAttachments == \A t \in ShTasks : sht[t].live =>
    /\ \A a \in shSpaces[sht[t].ms] : segs[a.seg].on
    /\ sht[t].pc \in {"map", "attached"} => segs[sht[t].seg].on

Releasing == \E t \in ShTasks : sht[t].live /\ sht[t].pc \in {"map", "attached", "scan", "release", "publish", "exit"}
\* A removed segment that nobody has attached is gone once the tasks that
\* attach, detach, fork or exit are through: its id, key and frames are free.
RemovedSegmentReclaimed == ~ Releasing => \A s \in Segs : segs[s].dest => Attached(s)

\* attach_owners is exact once nobody attaches or detaches: an entry for each
\* attachment that some task has, and no other.
OwnersExact == ~ Releasing => DOMAIN owners = {a.aid : a \in UNION {shSpaces[sht[t].ms] : t \in {u \in ShTasks : sht[u].live}}}

=============================================================================
