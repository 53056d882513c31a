---- MODULE DevNodes ----
(***************************************************************************)
(* The nodes of /dev that keep state (os/src/fs/dev): the directory tree   *)
(* of /dev/shm, the loop device with its one backing file, and the virtual *)
(* disks vda and vda2, of which only the header that mkfs wrote and the    *)
(* geometry of the no-op mkfs are kept for mount().                        *)
(*                                                                         *)
(* A call is a list of steps; the steps are what a lock makes atomic.      *)
(* Sizes are in KiB.                                                       *)
(***************************************************************************)
EXTENDS Integers, FiniteSets, Sequences, SequencesExt, TLC

CONSTANTS
    DnTasks, DnNames, DnFiles,
    DnInodes,           \* numbers of /dev/shm inodes; 0 is the directory itself
    VDA_SIZE, VDA2_SIZE, VDA2_DEFAULT_FILESYSTEM_SIZE,
    DN_PAGE,            \* config::PAGE_SIZE
    DnScenarios         \* [prog: [task -> calls], files: [file -> file]]

Slots == {0, 1}         \* vda, vda2
NoGeometry == [blocks |-> 0, size |-> 0]
Blank == [magic |-> FALSE, blocks |-> 0, log |-> 0]

VARIABLES
    dnProg, dnOp,
    dnShm,     \* [entries, owner, mode, data, kind] of each /dev/shm inode
    dnNext,    \* NEXT_SHM_INO
    dnHeld,    \* the task that holds the entries of each directory, 0 if none
    dnLoop,    \* LOOP0_BACKEND, 0 if none
    dnFile,    \* [pos, size, header] of each open file that can back the loop
    dnHeader,  \* VIRT_BLK_FORMAT_HEADERS
    dnGeom,    \* VIRT_BLK_FORMAT_GEOMETRIES
    dnMounts   \* the mounts made: [of, cap, bs]

dnVars == <<dnProg, dnOp, dnShm, dnNext, dnHeld, dnLoop, dnFile, dnHeader, dnGeom, dnMounts>>

DnNone == [call |-> "none", todo |-> <<>>, ino |-> 0, name |-> 0, kind |-> "file", arg |-> 0, file |-> 0, slot |-> 0, header |-> Blank,
           cap |-> 0, bs |-> 0, got |-> 0, on |-> {}, told |-> FALSE]

NewInode(kind) == [kind |-> kind, entries |-> [n \in DnNames |-> -1], owner |-> 0, mode |-> 0, data |-> 0]

DnStart(s) ==
    /\ dnProg = s.prog
    /\ dnFile = s.files
    /\ dnOp = [t \in DnTasks |-> DnNone]
    /\ dnShm = [i \in DnInodes |-> NewInode(IF i = 0 THEN "dir" ELSE "none")]
    /\ dnNext = 1
    /\ dnHeld = [i \in DnInodes |-> 0]
    /\ dnLoop = 0
    /\ dnHeader = [k \in Slots |-> Blank]
    /\ dnGeom = [k \in Slots |-> NoGeometry]
    /\ dnMounts = {}
DnInit == \E s \in DnScenarios : DnStart(s)

DnAt(t, s) == dnOp[t].todo # <<>> /\ Head(dnOp[t].todo) = s
DnStep(t) == dnOp' = [dnOp EXCEPT ![t].todo = Tail(@)]
DnReturn(t) == dnOp' = [dnOp EXCEPT ![t].todo = <<>>]

shmVars == <<dnShm, dnNext, dnHeld>>
loopVars == <<dnLoop, dnFile>>
diskVars == <<dnHeader, dnGeom, dnMounts>>

(***************************************************************************)
(* The steps of each call.                                                 *)
(***************************************************************************)
set_owner_and_mode == <<"set_mode", "set_owner">>

loop_at(act) == <<"backend", "seek", act>>

DnSteps(q) ==
    CASE q.call = "chown" -> set_owner_and_mode
      [] q.call = "stat" -> <<"get_owner", "get_mode">>
      [] q.call = "unlink" -> <<"check_empty", "remove">>
      [] q.call \in {"loop_read", "loop_write"} -> loop_at(q.call)
      [] q.call = "mount" -> <<"capacity", "block_size", "attach">>
      [] q.call = "loop_mount" -> <<"backend", "header", "backing_size", "attach">>
      [] OTHER -> <<q.call>>

DnBegin(t) ==
    /\ dnOp[t].todo = <<>> /\ dnProg[t] # <<>>
    /\ LET q == Head(dnProg[t]) IN dnOp' = [dnOp EXCEPT ![t] = [q @@ DnNone EXCEPT !.todo = DnSteps(q)]]
    /\ dnProg' = [dnProg EXCEPT ![t] = Tail(@)]
    /\ UNCHANGED <<shmVars, loopVars, diskVars>>

(***************************************************************************)
(* /dev/shm.                                                               *)
(***************************************************************************)
Entry(i, n) == dnShm[i].entries[n]

(* create(): a name in use is EEXIST; numbers are never used again.        *)
create(t) ==
    /\ DnAt(t, "create") /\ dnHeld[dnOp[t].ino] = 0
    /\ IF Entry(dnOp[t].ino, dnOp[t].name) # -1 \/ dnNext \notin DnInodes
       THEN UNCHANGED <<dnShm, dnNext>>
       ELSE /\ dnShm' = [dnShm EXCEPT ![dnOp[t].ino].entries[dnOp[t].name] = dnNext, ![dnNext] = NewInode(dnOp[t].kind)]
            /\ dnNext' = dnNext + 1
    /\ DnStep(t)
    /\ UNCHANGED <<dnProg, dnHeld, loopVars, diskVars>>

(* unlink(): the entries of the parent are held; those of a child          *)
(* directory only while they are looked at.                                *)
not_empty(i) == dnShm[i].kind = "dir" /\ \E n \in DnNames : Entry(i, n) # -1

check_empty(t) ==
    /\ DnAt(t, "check_empty") /\ dnHeld[dnOp[t].ino] = 0
    /\ LET i == Entry(dnOp[t].ino, dnOp[t].name) IN
       /\ i # -1 => dnHeld[i] = 0
       /\ IF i = -1 THEN DnReturn(t) /\ UNCHANGED dnHeld
          ELSE IF not_empty(i) THEN DnReturn(t) /\ UNCHANGED dnHeld
          ELSE DnStep(t) /\ dnHeld' = [dnHeld EXCEPT ![dnOp[t].ino] = t]
    /\ UNCHANGED <<dnProg, dnShm, dnNext, loopVars, diskVars>>

unlink(t) ==
    /\ DnAt(t, "remove") /\ dnHeld[dnOp[t].ino] = t
    /\ dnShm' = [dnShm EXCEPT ![dnOp[t].ino].entries[dnOp[t].name] = -1]
    /\ dnHeld' = [dnHeld EXCEPT ![dnOp[t].ino] = 0]
    /\ DnStep(t)
    /\ UNCHANGED <<dnProg, dnNext, loopVars, diskVars>>

(* chown() of a program also clears its set-id bits: mode 1 is with them,  *)
(* mode 0 without.                                                         *)
set_mode(t) ==
    /\ DnAt(t, "set_mode") \/ DnAt(t, "chmod")
    /\ dnShm' = [dnShm EXCEPT ![dnOp[t].ino].mode = IF DnAt(t, "chmod") THEN 1 ELSE 0]
    /\ DnStep(t)
    /\ UNCHANGED <<dnProg, dnNext, dnHeld, loopVars, diskVars>>

set_owner(t) ==
    /\ DnAt(t, "set_owner")
    /\ dnShm' = [dnShm EXCEPT ![dnOp[t].ino].owner = dnOp[t].arg]
    /\ DnStep(t)
    /\ UNCHANGED <<dnProg, dnNext, dnHeld, loopVars, diskVars>>

(* stat() takes the lock of the owner, then that of the mode.              *)
stat_owner(t) ==
    /\ DnAt(t, "get_owner")
    /\ dnOp' = [dnOp EXCEPT ![t].todo = Tail(@), ![t].got = dnShm[dnOp[t].ino].owner]
    /\ UNCHANGED <<dnProg, shmVars, loopVars, diskVars>>

stat_mode(t) ==
    /\ DnAt(t, "get_mode")
    /\ dnOp' = [dnOp EXCEPT ![t].todo = Tail(@), ![t].arg = dnShm[dnOp[t].ino].mode, ![t].told = TRUE]
    /\ UNCHANGED <<dnProg, shmVars, loopVars, diskVars>>

(* A file's bytes: write_at() only lengthens, truncate() sets the length.  *)
write_at(t) ==
    /\ DnAt(t, "write") \/ DnAt(t, "truncate")
    /\ dnShm' = [dnShm EXCEPT ![dnOp[t].ino].data = IF DnAt(t, "write") /\ @ > dnOp[t].arg THEN @ ELSE dnOp[t].arg]
    /\ DnStep(t)
    /\ UNCHANGED <<dnProg, dnNext, dnHeld, loopVars, diskVars>>

(***************************************************************************)
(* The loop device.                                                        *)
(***************************************************************************)
LOOP_SET_FD(t) ==
    /\ DnAt(t, "set_fd")
    /\ dnLoop' = dnOp[t].file
    /\ DnStep(t)
    /\ UNCHANGED <<dnProg, shmVars, dnFile, diskVars>>

LOOP_CLR_FD(t) ==
    /\ DnAt(t, "clr_fd")
    /\ dnLoop' = 0
    /\ DnStep(t)
    /\ UNCHANGED <<dnProg, shmVars, dnFile, diskVars>>

(* loop_backend(): ENODEV without a backing file.                          *)
loop_backend(t) ==
    /\ DnAt(t, "backend")
    /\ IF dnLoop = 0 THEN DnReturn(t)
       ELSE dnOp' = [dnOp EXCEPT ![t].todo = Tail(@), ![t].file = dnLoop]
    /\ UNCHANGED <<dnProg, shmVars, loopVars, diskVars>>

loop_seek(t) ==
    /\ DnAt(t, "seek")
    /\ dnFile' = [dnFile EXCEPT ![dnOp[t].file].pos = dnOp[t].arg]
    /\ dnOp' = [dnOp EXCEPT ![t].todo = Tail(@), ![t].on = {dnOp[t].file}]
    /\ UNCHANGED <<dnProg, shmVars, dnLoop, diskVars>>

(* read() and write() of one unit go to where the cursor is now.           *)
loop_io(t) ==
    /\ DnAt(t, "loop_read") \/ DnAt(t, "loop_write")
    /\ LET f == dnOp[t].file IN
       /\ dnOp' = [dnOp EXCEPT ![t].todo = Tail(@), ![t].got = dnFile[f].pos, ![t].on = @ \cup {f}, ![t].told = TRUE]
       /\ dnFile' = [dnFile EXCEPT ![f].pos = @ + 1]
    /\ UNCHANGED <<dnProg, shmVars, dnLoop, diskVars>>

(***************************************************************************)
(* The virtual disks and mount().                                          *)
(***************************************************************************)
DiskSize(k) == IF k = 1 THEN VDA2_SIZE ELSE VDA_SIZE

(* What a header says, NoGeometry if it is no ext header, names no blocks, *)
(* or names more than the device has.                                      *)
formatted_geometry_from_header(h, maximum) ==
    IF ~h.magic \/ h.blocks = 0 \/ h.log > 6 \/ h.blocks * 2 ^ h.log > maximum
    THEN NoGeometry
    ELSE [blocks |-> h.blocks, size |-> 2 ^ h.log]

Capacity(g) == g.blocks * g.size

mount_capacity(k) ==
    LET h == formatted_geometry_from_header(dnHeader[k], DiskSize(k))
    IN IF dnGeom[k] # NoGeometry THEN Capacity(dnGeom[k])
       ELSE IF h # NoGeometry THEN Capacity(h)
       ELSE IF k = 1 THEN VDA2_DEFAULT_FILESYSTEM_SIZE ELSE VDA_SIZE

mount_block_size(k) ==
    LET h == formatted_geometry_from_header(dnHeader[k], DiskSize(k))
    IN IF dnGeom[k] # NoGeometry THEN dnGeom[k].size
       ELSE IF h # NoGeometry THEN h.size
       ELSE IF k = 1 THEN 1 ELSE 4

(* record_noop_mkfs(): -b and the number of blocks, either of which may be *)
(* absent (0); what does not fit means the whole device.                   *)
record_noop_mkfs(t) ==
    /\ DnAt(t, "mkfs")
    /\ LET k == dnOp[t].slot
           bs == IF dnOp[t].bs \in {1, 2, 4} THEN dnOp[t].bs ELSE 4
           fits == dnOp[t].arg # 0 /\ dnOp[t].arg * bs <= DiskSize(k)
       IN dnGeom' = [dnGeom EXCEPT ![k] = [blocks |-> IF fits THEN dnOp[t].arg ELSE DiskSize(k) \div bs, size |-> bs]]
    /\ DnStep(t)
    /\ UNCHANGED <<dnProg, shmVars, loopVars, dnHeader, dnMounts>>

(* write_at() of a disk: only the first 4096 bytes are kept.               *)
disk_write(t) ==
    /\ DnAt(t, "disk_write")
    /\ dnHeader' = IF dnOp[t].arg = 0 THEN [dnHeader EXCEPT ![dnOp[t].slot] = dnOp[t].header] ELSE dnHeader
    /\ DnStep(t)
    /\ UNCHANGED <<dnProg, shmVars, loopVars, dnGeom, dnMounts>>

(* mount() asks for the capacity and for the block size one after the      *)
(* other; a loop device has blocks of a page, whatever its header says.    *)
ask_capacity(t) ==
    /\ DnAt(t, "capacity")
    /\ dnOp' = [dnOp EXCEPT ![t].todo = Tail(@), ![t].cap = mount_capacity(dnOp[t].slot)]
    /\ UNCHANGED <<dnProg, shmVars, loopVars, diskVars>>

ask_block_size(t) ==
    /\ DnAt(t, "block_size")
    /\ dnOp' = [dnOp EXCEPT ![t].todo = Tail(@), ![t].bs = mount_block_size(dnOp[t].slot)]
    /\ UNCHANGED <<dnProg, shmVars, loopVars, diskVars>>

(* formatted_capacity(): the header of the backing file.                   *)
loop_header(t) ==
    /\ DnAt(t, "header")
    /\ dnOp' = [dnOp EXCEPT ![t].todo = Tail(@), ![t].header = dnFile[dnOp[t].file].header]
    /\ UNCHANGED <<dnProg, shmVars, loopVars, diskVars>>

(* ... and its size, for which the backing file is looked up again.        *)
backing_size(t) ==
    /\ DnAt(t, "backing_size")
    /\ LET size == IF dnLoop = 0 THEN 0 ELSE dnFile[dnLoop].size
           g == formatted_geometry_from_header(dnOp[t].header, size)
       IN dnOp' = [dnOp EXCEPT ![t].todo = Tail(@), ![t].bs = DN_PAGE, ![t].slot = 2,
                               ![t].cap = IF g # NoGeometry THEN Capacity(g) ELSE size]
    /\ UNCHANGED <<dnProg, shmVars, loopVars, diskVars>>

attach(t) ==
    /\ DnAt(t, "attach")
    /\ dnMounts' = dnMounts \cup {[of |-> dnOp[t].slot, cap |-> dnOp[t].cap, bs |-> dnOp[t].bs]}
    /\ DnStep(t)
    /\ UNCHANGED <<dnProg, shmVars, loopVars, dnHeader, dnGeom>>

DnNext ==
    \E t \in DnTasks :
        \/ DnBegin(t) \/ create(t) \/ check_empty(t) \/ unlink(t) \/ set_mode(t) \/ set_owner(t) \/ stat_owner(t) \/ stat_mode(t) \/ write_at(t)
        \/ LOOP_SET_FD(t) \/ LOOP_CLR_FD(t) \/ loop_backend(t) \/ loop_seek(t) \/ loop_io(t)
        \/ record_noop_mkfs(t) \/ disk_write(t) \/ ask_capacity(t) \/ ask_block_size(t) \/ loop_header(t) \/ backing_size(t) \/ attach(t)

DnSpec == DnInit /\ [][DnNext]_dnVars

(***************************************************************************)
(* Properties.                                                             *)
(***************************************************************************)
DnTypeOK ==
    /\ dnNext \in 1 .. Cardinality(DnInodes)
    /\ \A i \in DnInodes : \A n \in DnNames : Entry(i, n) \in -1 .. dnNext - 1 \ {0}
    /\ dnLoop \in DnFiles \cup {0}
    /\ \A m \in dnMounts : m.of \in Slots => m.cap <= DiskSize(m.of)

(* unlink() refuses a directory with entries: every file that was created  *)
(* and not removed is in a directory that is itself in the tree.           *)
Listed(i) == i = 0 \/ \E d \in DnInodes : \E n \in DnNames : Entry(d, n) = i
ShmReachable == \A d \in DnInodes : (\E n \in DnNames : Entry(d, n) # -1) => Listed(d)

(* chown() clears the set-id bits before it changes the owner, and stat()  *)
(* reads the owner before the mode: a program is never shown with its new  *)
(* owner and the set-id bits of the old one.                               *)
OwnerWithItsMode == \A t \in DnTasks : dnOp[t].call = "stat" /\ dnOp[t].told => ~(dnOp[t].got # 0 /\ dnOp[t].arg = 1)

(* A read or write of the loop device goes to the place it was given, as   *)
(* long as one task at a time uses it: the cursor of the backing file is   *)
(* moved by one step and used by the next.                                 *)
LoopInPlace ==
    \A t \in DnTasks : dnOp[t].call \in {"loop_read", "loop_write"} /\ dnOp[t].told => dnOp[t].got = dnOp[t].arg

====
