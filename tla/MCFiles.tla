------------------------------ MODULE MCFiles -------------------------------
(* One run for files, from descriptors down to the disk: every behaviour is *)
(* about one of the components, with a scenario of that component.         *)
EXTENDS FdTable, Namei, Transfer, InodeMeta, DevNodes, PageCache, Disk, TLC

-----------------------------------------------------------------------------
(* FdTable *)
Open(key) == [op |-> "open", key |-> key, cx |-> FALSE]
OpenCx(key) == [op |-> "open", key |-> key, cx |-> TRUE]
Dup(fd) == [op |-> "dup", fd |-> fd, cx |-> FALSE]
Dupfd(fd, min) == [op |-> "dupfd", fd |-> fd, min |-> min, cx |-> FALSE]
Dup3(fd, to) == [op |-> "dup3", fd |-> fd, to |-> to, cx |-> FALSE]
Setfd(fd) == [op |-> "setfd", fd |-> fd, cx |-> TRUE]
Close(fd) == [op |-> "close", fd |-> fd]
CloseRange(a, b, cx) == [op |-> "close_range", first |-> a, last |-> b, cloexec |-> cx, unshare |-> ~ cx]
Pair(op, fault) == [op |-> op, key |-> 9, fault |-> fault]
Limit(n) == [op |-> "limit", n |-> n]
Clone(c, share) == [op |-> "clone", child |-> c, share |-> share]
Exec == [op |-> "exec"]
ExitP == [op |-> "exit"]
EndT == [op |-> "thread_end"]
Flock(fd, ex, nb) == [op |-> "flock", fd |-> fd, ex |-> ex, nb |-> nb, un |-> FALSE]
Unflock(fd) == [op |-> "flock", fd |-> fd, ex |-> FALSE, nb |-> TRUE, un |-> TRUE]
Lock(fd, start, len, ex, nb) == [op |-> "setlk", fd |-> fd, start |-> start, len |-> len, ex |-> ex, nb |-> nb, un |-> FALSE]
Unlock(fd, start, len) == [op |-> "setlk", fd |-> fd, start |-> start, len |-> len, ex |-> FALSE, nb |-> TRUE, un |-> TRUE]

FdSc(proc, p1, p2, p3) == [proc |-> proc, prog |-> <<p1, p2, p3>>]
\* Threads that share a table.
Shared == FdSc(<<1, 1, 1>>, <<Open(1), Clone(2, TRUE), Clone(3, TRUE), Dup(0), Close(1), Open(2)>>,
               <<Dupfd(0, 2), Close(0), Setfd(2)>>, <<Dup3(0, 1), CloseRange(0, 1, FALSE)>>)
\* Pairs at the limit of the table.
Pairs == FdSc(<<1, 1, 1>>, <<Clone(2, TRUE), Pair("pipe2", FALSE), Limit(2), Pair("socketpair", FALSE), Limit(4), Pair("pipe2", TRUE)>>,
              <<Open(1), Pair("accept4", TRUE), Open(1), Open(1), Open(1)>>, <<>>)
\* fork, exec and exit with shared tables.
Execs == FdSc(<<1, 1, 3>>, <<OpenCx(1), Open(2), Clone(2, TRUE), Clone(3, TRUE), Exec, Close(1), ExitP>>, <<EndT>>, <<Open(3), Exec, ExitP>>)
Forks == FdSc(<<1, 2, 2>>, <<OpenCx(1), Clone(2, FALSE), Exec, ExitP>>, <<Open(2), Clone(3, TRUE), CloseRange(0, 1, TRUE), Exec, ExitP>>, <<Dup(0), EndT>>)
\* fcntl() locks of two processes, with upgrades, waits and negative ranges.
Posix == FdSc(<<1, 2, 3>>, <<Open(1), Clone(2, FALSE), Clone(3, FALSE), Lock(0, 0, 2, FALSE, TRUE), Lock(0, 0, 0, TRUE, FALSE), Close(0), ExitP>>,
              <<Lock(0, 3, -2, FALSE, TRUE), Lock(0, 1, 1, TRUE, TRUE), Unlock(0, 0, 0), Lock(0, 1, 9, TRUE, TRUE)>>,
              <<Lock(0, 2, 1, TRUE, TRUE), ExitP>>)
\* flock() on duplicated and on separately opened descriptors.
Flocks == FdSc(<<1, 2, 3>>, <<Open(1), Clone(2, FALSE), Open(1), Flock(0, TRUE, TRUE), Flock(1, FALSE, TRUE), Close(0), Flock(1, TRUE, FALSE)>>,
               <<Flock(0, FALSE, FALSE), Unflock(0), Flock(0, FALSE, TRUE), Close(0), Flock(0, FALSE, TRUE)>>, <<>>)
FdMain == {Shared, Pairs, Execs, Forks, Posix, Flocks}

\* Outside the run, FdNoOrphanTable fails: the two sharers of a descriptor table exit together.
FdTwoExits == {FdSc(<<1, 2, 3>>, <<Open(1), Clone(2, TRUE), ExitP>>, <<ExitP>>, <<>>)}
\* Outside the run, PairAllOrNothing fails: a descriptor pipe2() is about to take back was closed.
FdUndoRace == {FdSc(<<1, 1, 1>>, <<Clone(2, TRUE), Pair("pipe2", TRUE)>>, <<Close(0)>>, <<>>)}
\* Outside the run, FdTouchesOwn fails: a descriptor is closed between the two halves of F_SETFD or
\* of close_range(), or is closed and opened again before the undo of accept4().
FdFlagRace == {FdSc(<<1, 1, 1>>, <<Open(1), Clone(2, TRUE), op>>, <<Close(0)>>, <<>>) : op \in {Setfd(0), CloseRange(0, 0, TRUE)}}
FdAcceptRace == {FdSc(<<1, 1, 1>>, <<Clone(2, TRUE), Pair("accept4", TRUE)>>, <<Close(0), Open(1)>>, <<>>)}

-----------------------------------------------------------------------------
(* Namei *)
P(segs) == [abs |-> TRUE, segs |-> segs]
R(segs) == [abs |-> FALSE, segs |-> segs]
O(op, path) == [op |-> op, path |-> path, path2 |-> path, ty |-> "file", abs |-> FALSE, to |-> <<>>, oth |-> {"r"}, w |-> FALSE, dir |-> FALSE,
                excl |-> FALSE, nofollow |-> FALSE, noreplace |-> FALSE, fault |-> FALSE, remount |-> FALSE, ro |-> FALSE, nosym |-> FALSE,
                detach |-> FALSE, expire |-> FALSE]
Two(op, path, path2) == [O(op, path) EXCEPT !.path2 = path2]
Fault(o) == [o EXCEPT !.fault = TRUE]
Dir(o) == [o EXCEPT !.dir = TRUE, !.ty = "dir"]
Sym(path, to) == [O("symlink", path) EXCEPT !.ty = "lnk", !.to = to]

AF == P(<<"a", "f">>)
BF == P(<<"b", "f">>)
A == P(<<"a">>)
B == P(<<"b">>)
BA == P(<<"b", "a">>)

\* / holds the directories a and b, a holds the file f.
AllOf == {"r", "w", "x"}
NmNames == (<<>> :> 1) @@ (<<"a">> :> 2) @@ (<<"b">> :> 3) @@ (<<"a", "f">> :> 4)
NmInodes == <<Inode("dir", 0, AllOf), Inode("dir", 1, AllOf), Inode("dir", 1, AllOf), Inode("file", 1, {"r"})>>
NmSc(u, p1, p2) == [uid |-> u, prog |-> <<p1, p2>>, names |-> NmNames, inodes |-> NmInodes]

\* Renames of files and directories, also below themselves and with failures.
Renames == NmSc(<<0, 0>>, <<Two("rename", A, P(<<"a", "c">>)), Two("rename", A, BA), O("stat", P(<<"b", "a", "f">>)), O("stat", AF)>>,
                <<Two("rename", B, P(<<"a", "f", "b">>)), Two("rename", B, P(<<"a", "b">>))>>)
Replaces == NmSc(<<1, 1>>, <<O("create", BF), Fault(Two("rename", AF, BF)), Two("rename", AF, BF), O("stat", BF)>>,
                 <<Two("rename", BF, AF), [Two("rename", AF, BF) EXCEPT !.noreplace = TRUE]>>)
\* Two tasks create the same file, and one of them fails to create another.
Creates == NmSc(<<1, 2>>, <<O("opencreat", BF), O("close", BF), O("opencreat", P(<<"g">>)), O("stat", BF)>>,
                <<O("opencreat", BF), [O("opencreat", BF) EXCEPT !.excl = TRUE], Fault(O("link_tmpfile", P(<<"h">>))), O("unlink", AF), O("opencreat", AF)>>)
\* Symbolic and hard links, a sticky directory.
Links == NmSc(<<1, 1>>, <<Sym(P(<<"l">>), <<"a", "f">>), O("open", P(<<"l">>)), O("lstat", P(<<"l">>))>>, <<O("opencreat", P(<<"l">>))>>)
HardLinks == NmSc(<<1, 1>>, <<O("link_tmpfile", P(<<"g">>)), Two("link", AF, BF), O("unlink", AF)>>,
                  <<Sym(P(<<"b", "l">>), <<"..", "b", "l">>), O("stat", P(<<"b", "l">>))>>)
Stickies == [NmSc(<<1, 2>>, <<O("create", BF), Two("link", AF, P(<<"b", "g">>)), Two("link", A, BF)>>,
                  <<O("create", P(<<"b", "h">>)), Two("rename", P(<<"b", "h">>), BF), Two("rename", P(<<"b", "g">>), P(<<"h">>)), O("unlink", BF), O("unlink", P(<<"b", "h">>))>>)
             EXCEPT !.inodes[3].sticky = TRUE]
\* Directories made and removed, a working directory that goes away.
Dirs == NmSc(<<1, 0>>, <<Dir(O("create", BA)), O("chdir", BA), Dir(O("create", R(<<"c">>))), O("stat", R(<<"..", "a">>))>>,
             <<Dir(O("unlink", BA)), O("unlink", A), Dir(O("unlink", A)), Dir(O("unlink", AF)), O("unlink", P(<<".">>)), O("opencreat", P(<<"..">>))>>)
\* A root below /, and ".." in it.
Roots == NmSc(<<0, 0>>, <<O("chroot", A), O("chdir", P(<<>>)), O("stat", R(<<"..", "f">>)), Sym(P(<<"l">>), <<"..", "..", "b">>), O("stat", P(<<"l">>))>>,
              <<O("mount", P(<<"a", "m">>)), Dir(O("create", P(<<"a", "m">>))), O("mount", P(<<"a", "m">>)), O("chroot", P(<<"a", "m">>)), O("chdir", P(<<"..">>)), O("stat", R(<<"..", "f">>))>>)
\* Mounts: over a directory, below a mount, bound, moved, with a small cache.
Mounts == NmSc(<<0, 0>>, <<O("mount", A), O("create", P(<<"a", "x">>)), Dir(O("create", P(<<"a", "s">>))), O("stat", P(<<"b">>)), O("mount", P(<<"a", "s">>)), O("umount", A), [O("umount", A) EXCEPT !.detach = TRUE], O("stat", AF), O("stat", P(<<"a", "s">>)), O("mount", P(<<"a", "s">>))>>, <<>>)
Moves == NmSc(<<0, 0>>, <<O("mount", A), Two("bind", B, A), Two("bind", B, A), O("create", P(<<"b", "x">>)), [O("umount", B) EXCEPT !.expire = TRUE], [O("umount", B) EXCEPT !.detach = TRUE], Two("move", B, A), O("stat", P(<<"b", "x">>)), O("umount", P(<<>>)), Two("move", B, AF)>>, <<>>)
Remounts == NmSc(<<0, 1>>, <<Two("bind", A, B), Sym(P(<<"a", "l">>), <<"..", "b">>), [O("mount", A) EXCEPT !.remount = TRUE, !.nosym = TRUE], O("stat", P(<<"a", "l", "f">>)), [O("mount", A) EXCEPT !.remount = TRUE, !.ro = TRUE], [O("mount", B) EXCEPT !.remount = TRUE],
                             [O("umount", A) EXCEPT !.expire = TRUE], [O("umount", A) EXCEPT !.expire = TRUE], [O("umount", A) EXCEPT !.expire = TRUE]>>, <<>>)

\* A mount in a mount that is taken away, at the second try, beside another mount; a mount
\* that is read-only.
Unmounts == NmSc(<<0, 0>>, <<O("mount", A), Dir(O("create", P(<<"a", "s">>))), O("mount", P(<<"a", "s">>)), O("umount", A), O("umount", P(<<"a", "s">>)), O("opencreat", P(<<"a", "x">>)), O("close", A),
                             Fault(O("umount", A)), O("umount", A)>>, <<[O("mount", B) EXCEPT !.ro = TRUE], O("umount", B)>>)
ReadOnly == NmSc(<<0, 0>>, <<[Two("bind", B, A) EXCEPT !.ro = TRUE], O("opencreat", P(<<"b", "x">>)), [O("open", BF) EXCEPT !.w = TRUE], O("unlink", BF), Two("rename", BF, AF), Two("rename", AF, BF), O("open", BF)>>, <<>>)

NmMain == {Renames, Replaces, Creates, Links, HardLinks, Stickies, Dirs, Roots, Mounts, Moves, Remounts, Unmounts, ReadOnly}
\* Outside the run, CacheTrue fails: a look-up that has asked the file system adds its entry
\* after an unlink of the same name, or after the creation it found was taken back; then
\* OpenedStays fails, too.
NmUnlinkRace == {NmSc(<<1, 1>>, <<O("stat", AF)>>, <<O("unlink", AF)>>)}
NmFaultRace == {NmSc(<<1, 2>>, <<O("opencreat", BF)>>, <<Fault(O("opencreat", BF))>>)}
\* Outside the run, MountSeen fails: two look-ups add a dentry each for the mount point.
NmLookupRace == {NmSc(<<0, 0>>, <<O("mount", A)>>, <<O("stat", A)>>)}
\* Outside the run, UmountIdle fails: a file is open on the mount, or another task mounts
\* below it after the check.
NmBusy == {NmSc(<<0, 0>>, <<O("mount", A), O("opencreat", P(<<"a", "x">>)), O("umount", A)>>, <<>>)}
NmBusyRace == {NmSc(<<0, 0>>, <<O("mount", A), Dir(O("create", P(<<"a", "s">>))), O("mount", P(<<"a", "s">>))>>, <<O("umount", A)>>)}
\* Outside the run, OpenedIsMade fails: the file is opened before it has its owner.
NmHalf == {NmSc(<<1, 2>>, <<O("opencreat", BF)>>, <<O("open", BF)>>)}

-----------------------------------------------------------------------------
(* Transfer *)
TrFile(d, off, cap, app) == [kind |-> "file", nb |-> FALSE, data |-> d, off |-> off, cap |-> cap, append |-> app, open |-> TRUE]
TrPipe(d, cap, nb) == [kind |-> "pipe", data |-> d, off |-> 0, cap |-> cap, append |-> FALSE, open |-> TRUE, nb |-> nb]
TrCall(op, src, dst, items, at, to, nb, fault, bytes) ==
    [op |-> op, src |-> src, dst |-> dst, items |-> items, at |-> at, to |-> to, nb |-> nb, fault |-> fault, bytes |-> bytes]
TrRead(e, items) == TrCall("read", e, USER, items, CURSOR, CURSOR, FALSE, 0, <<>>)
TrVmRead(e, items, nb) == TrCall("vmread", e, USER, items, CURSOR, CURSOR, nb, 0, <<>>)
TrPread(e, at, items, fault) == TrCall("read", e, USER, items, at, CURSOR, FALSE, fault, <<>>)
TrWrite(e, b) == TrCall("write", USER, e, <<Len(b)>>, CURSOR, CURSOR, FALSE, 0, b)
TrWritev(e, b, items) == TrCall("write", USER, e, items, CURSOR, CURSOR, FALSE, 0, b)
TrPwrite(e, to, b, fault) == TrCall("write", USER, e, <<Len(b)>>, CURSOR, to, FALSE, fault, b)
TrSend(i, o, at, n) == TrCall("sendfile", i, o, <<n>>, at, CURSOR, FALSE, 0, <<>>)
TrCopy(i, o, at, to, n) == TrCall("copy_file_range", i, o, <<n>>, at, to, FALSE, 0, <<>>)
TrSplice(i, o, at, to, n, nb) == TrCall("splice", i, o, <<n>>, at, to, nb, 0, <<>>)
TrTee(i, o, n, nb) == TrCall("tee", i, o, <<n>>, CURSOR, CURSOR, nb, 0, <<>>)
TrVm(e, b, items, nb) == TrCall("vmsplice", USER, e, items, CURSOR, CURSOR, nb, 0, b)
TrFault(c, n) == [c EXCEPT !.fault = n]
TrClose(e) == [op |-> "close", src |-> e]
TrSeek(e, w, n) == [op |-> "lseek", src |-> e, at |-> n, whence |-> w]
TrAlloc(e, at, n, punch) == [op |-> "fallocate", src |-> e, at |-> at, n |-> n, punch |-> punch]
TrTrunc(e, n) == [op |-> "ftruncate", src |-> e, at |-> n]
TrS(f, g, p, q, limit, p1, p2, p3) ==
    [ends |-> [e \in TrEnds |-> CASE e = "f" -> f [] e = "g" -> g [] e = "p" -> p [] OTHER -> q],
     limit |-> limit, prog |-> [t \in TrTasks |-> CASE t = 1 -> p1 [] t = 2 -> p2 [] OTHER -> p3]]
F5 == TrFile(<<1, 2, 3, 4, 5>>, 0, 9, FALSE)
F0 == TrFile(<<>>, 0, 9, FALSE)
P3 == TrPipe(<<11, 12, 13>>, 4, TRUE)
P0(nb) == TrPipe(<<>>, 3, nb)
\* one description read, and read and written with offsets
TrCursors == TrS(F5, F0, P3, P0(TRUE), -1, <<TrRead("f", <<4, 1>>), TrPread("f", 1, <<4>>, 4)>>,
                 <<TrPread("f", 2, <<2, 1>>, 0), TrRead("f", <<1>>), TrSeek("f", "cur", 1)>>,
                 <<TrPwrite("g", 1, <<21, 22, 23, 24>>, 4), TrWrite("g", <<31>>), TrSeek("g", "end", -1), TrSeek("g", "set", -1), TrAlloc("g", 2, 4, FALSE), TrAlloc("g", 1, 1, TRUE), TrAlloc("g", 8, 4, FALSE)>>)
\* file to pipe to user, and a pipe whose writer leaves to a file
TrPipes == TrS(F5, F0, P3, P0(FALSE), -1, <<TrSplice("f", "q", 1, CURSOR, 4, FALSE), TrClose("q")>>,
               <<TrRead("q", <<3, 2>>), TrVmRead("q", <<1>>, TRUE)>>,
               <<TrSplice("p", "g", CURSOR, 1, 4, TRUE), TrClose("p"), TrSplice("p", "g", CURSOR, 4, 3, FALSE)>>)
\* sendfile() into a pipe that is drained, copy_file_range() to a full file
TrSends == TrS(F5, TrFile(<<>>, 0, 3, FALSE), P3, P0(TRUE), -1, <<TrSend("f", "q", CURSOR, 4), TrSend("f", "q", 3, 2)>>,
               <<TrRead("q", <<3>>), TrRead("q", <<3, 2>>)>>, <<TrCopy("p", "g", CURSOR, CURSOR, 3), TrSend("p", "g", 1, 1), TrSend("p", "g", CURSOR, 3), TrTrunc("g", 1), TrPwrite("g", 3, <<21>>, 0)>>)
\* user memory that goes away: before the first byte, and with the second buffer of a vector
TrFaults == TrS(F5, F0, P3, P0(FALSE), -1, <<TrFault(TrWrite("g", <<21, 22, 23>>), 1), TrFault(TrWritev("g", <<24, 25, 26>>, <<1, 2>>), 3)>>,
                <<TrFault(TrWritev("q", <<31, 32, 33, 34, 35>>, <<3, 2>>), 4), TrCopy("f", "g", 1, CURSOR, 2)>>, <<TrRead("q", <<3>>)>>)
\* appends and truncations under a limit; writers of a slow pipe
TrWrites == TrS(TrFile(<<1, 2>>, 0, 9, TRUE), F0, P3, P0(FALSE), 3,
                <<TrWrite("f", <<21, 22, 23>>), TrTrunc("f", 4), TrTrunc("f", 1), TrPwrite("f", 0, <<24, 25, 26>>, 0)>>,
                <<TrWritev("q", <<31, 32, 33, 34, 35>>, <<3, 2>>), TrVm("q", <<36, 37, 38>>, <<1, 2>>, TRUE), TrVm("p", <<41, 42>>, <<2>>, FALSE)>>,
                <<TrVmRead("q", <<2, 1>>, TRUE), TrRead("q", <<1, 1>>), TrVmRead("q", <<1>>, TRUE)>>)
TrTees == TrS(F5, F0, P3, P0(TRUE), -1, <<TrTee("p", "q", 3, TRUE), TrTee("p", "q", 1, FALSE)>>,
              <<TrRead("q", <<1>>), TrRead("p", <<1>>)>>, <<TrRead("q", <<2>>)>>)
\* room taken by another writer between the look and the put
TrRoom == TrS(F5, F0, P3, P0(FALSE), -1, <<TrSplice("f", "q", CURSOR, CURSOR, 4, FALSE)>>, <<TrWrite("q", <<31>>)>>,
              <<TrVmRead("q", <<3>>, TRUE), TrVmRead("q", <<3>>, TRUE)>>)
TrAppends == {TrS(TrFile(<<1, 2>>, 0, 8, TRUE), F0, P3, P0(TRUE), 3, <<TrWrite("f", <<21>>)>>, <<TrWrite("f", <<22>>)>>, <<>>)}
TrMain == {TrRoom, TrCursors, TrPipes, TrSends, TrWrites, TrTees, TrFaults} \cup TrAppends
\* Outside the run, TrReported fails: a pipe with little room; a full file.
TrGone == {TrS(F5, F0, P3, TrPipe(<<9>>, 3, FALSE), -1, <<TrSend("f", "q", CURSOR, 3)>>, <<>>, <<>>),
           TrS(F5, TrFile(<<>>, 0, 1, FALSE), P3, P0(TRUE), -1, <<TrSplice("p", "g", CURSOR, 0, 2, FALSE)>>, <<>>, <<>>)}
\* Outside the run, TrReported fails: the buffer goes away after the first chunk.
TrFaultsLate == {TrS(F5, F0, P3, P0(TRUE), -1, <<TrFault(c, 4)>>, <<>>, <<>>) : c \in {TrWrite("g", <<21, 22, 23, 24>>), TrRead("f", <<4>>)}}
\* Outside the run, TrCursorKept fails: a read moves the shared cursor during a copy that uses it.
TrShared == {TrS(F5, F0, P3, P0(TRUE), -1, <<TrCopy("f", "g", 3, CURSOR, 1)>>, <<TrRead("f", <<2>>)>>, <<>>)}
\* Outside the run, TrInOrder fails: a tee of more than fits, and a reader.
TrLongTee == {TrS(F5, F0, P3, TrPipe(<<>>, 2, FALSE), -1, <<TrTee("p", "q", 3, FALSE)>>, <<TrRead("q", <<1>>)>>, <<>>)}

-----------------------------------------------------------------------------
(* InodeMeta *)
ImFile(a, m) == [mode |-> {"w", "gexec", "suid"}, uid |-> 1, gid |-> 1, a |-> a, m |-> m, c |-> m, x |-> 0]
Do(op, i) == [op |-> op, i |-> i]
ImUtimens(i, a, m, v) == [op |-> "utimens", i |-> i, a |-> a, m |-> m, value |-> v]
ImChmod(i, mode) == [op |-> "chmod", i |-> i, mode |-> mode]
ImChown(i, uid, gid) == [op |-> "chown", i |-> i, uid |-> uid, gid |-> gid]
ImX(op, i, v) == [op |-> op, i |-> i, value |-> v]
ImSysctl(v) == [op |-> "sysctl", i |-> 1, value |-> v]
ImS(lazy, strict, fails, expire, maxTime, p1, p2, p3) ==
    [disk |-> [i \in ImInodes |-> ImFile(1, 2)], lazy |-> lazy, strict |-> strict, fails |-> fails, expire |-> expire, maxTime |-> maxTime,
     now |-> 3, ids |-> [t \in ImTasks |-> IF t = 1 THEN [uid |-> 1, member |-> FALSE] ELSE IF t = 2 THEN [uid |-> 0, member |-> TRUE] ELSE [uid |-> 2, member |-> FALSE]],
     prog |-> [t \in ImTasks |-> CASE t = 1 -> p1 [] t = 2 -> p2 [] OTHER -> p3]]
ImScans == ImS(TRUE, TRUE, 1, 1, 20, <<Do("read", 1), Do("read", 2)>>, <<Do("scan", 1), Do("scan", 1), Do("scan", 1)>>, <<>>)
ImSyncs == ImS(TRUE, FALSE, 1, 2, 20, <<Do("read", 1), Do("write", 1), Do("read", 1)>>, <<Do("sync", 1), Do("fsync", 1)>>, <<>>)
ImEvicts == ImS(TRUE, TRUE, 0, 1, 20, <<Do("read", 1), Do("read", 1)>>, <<Do("evict", 1)>>, <<ImSysctl(0), ImSysctl(1)>>)
ImExpires == ImS(TRUE, TRUE, 0, 1, 20, <<Do("read", 1)>>, <<Do("scan", 1), Do("scan", 1)>>, <<ImSysctl(0), ImSysctl(2)>>)
ImSets == ImS(FALSE, FALSE, 1, 1, 5, <<Do("read", 1), Do("write", 1), ImUtimens(1, "now", "omit", 0), ImUtimens(1, "set", "now", 1), ImChmod(1, {"w", "sgid"}), ImChown(1, -1, 1)>>,
              <<>>, <<ImX("create_xattr", 1, 3), ImX("remove_xattr", 1, 0)>>)
ImOthers == ImS(FALSE, TRUE, 0, 1, 20, <<>>, <<ImChown(1, 2, -1), ImChmod(1, {"sgid"}), ImUtimens(1, "omit", "omit", 0)>>,
                <<ImX("set_xattr", 2, 0), ImX("replace_xattr", 2, 1), ImChmod(2, {}), ImChown(2, 2, -1), ImUtimens(2, "set", "now", 1), ImUtimens(2, "now", "now", 0), Do("stat", 2)>>)
ImChmodStat == {ImS(FALSE, TRUE, 0, 9, 20, <<ImChmod(1, {})>>, <<Do("stat", 1)>>, <<>>)}
ImCreates == {ImS(FALSE, TRUE, 0, 9, 20, <<ImX("create_xattr", 1, 3)>>, <<ImX("create_xattr", 1, 4)>>, <<>>)}
ImMain == {ImScans, ImSyncs, ImEvicts, ImExpires, ImSets, ImOthers} \cup ImChmodStat
          \cup ImCreates
\* Outside the run, TimesReachDisk fails: two calls take the times in memory, and the second
\* to store them undoes the first.
ImTwoSetters == {ImS(lazy, TRUE, 0, 9, 20, <<Do("read", 1)>>, <<c>>, <<>>) : lazy \in BOOLEAN, c \in {Do("write", 1), ImUtimens(1, "set", "now", 1), ImChmod(1, {})}}
\* Outside the run, SyncWrites and TimesReachDisk fail: two that write out, and a reader
\* whose batch has the number of one that is gone.
ImTwoFlush == {ImS(TRUE, TRUE, 0, 9, 20, <<Do("read", 1), Do("read", 1)>>, <<Do("fsync", 1)>>, <<Do("fsync", 1)>>)}

-----------------------------------------------------------------------------
(* DevNodes *)
DnF == [f \in DnFiles |-> [pos |-> 0, size |-> 40, header |-> IF f = 1 THEN [magic |-> TRUE, blocks |-> 10, log |-> 0] ELSE Blank]]
DnTwo(p, q) == [prog |-> (1 :> p @@ 2 :> q), files |-> DnF]

Mk(d, n, k) == [call |-> "create", ino |-> d, name |-> n, kind |-> k]
Rm(d, n) == [call |-> "unlink", ino |-> d, name |-> n]
DnCall(c, a) == [call |-> c, ino |-> 1, arg |-> a]
SetFd(f) == [call |-> "set_fd", file |-> f]
Mkfs(k, n, b) == [call |-> "mkfs", slot |-> k, arg |-> n, bs |-> b]
WrHeader(k, n, l) == [call |-> "disk_write", slot |-> k, arg |-> 0, header |-> [magic |-> TRUE, blocks |-> n, log |-> l]]
MountDisk(k) == [call |-> "mount", slot |-> k]

DnMkfsRace == {DnTwo(<<Mkfs(1, 10239, 1), MountDisk(1)>>, <<Mkfs(1, 100, 4)>>)}
DnMain == {
    DnTwo(<<Mk(0, 1, "dir"), Mk(0, 2, "file"), Rm(0, 1)>>, <<Mk(0, 1, "file"), Rm(0, 2), Rm(0, 1)>>),
    DnTwo(<<Mk(0, 1, "dir"), Mk(1, 1, "file"), Rm(0, 1), Rm(1, 1), Rm(0, 1)>>, <<Rm(1, 1), Rm(1, 1)>>),
    DnTwo(<<Mk(0, 1, "file"), DnCall("chmod", 0), DnCall("write", 2), DnCall("chown", 1)>>, <<DnCall("stat", 0), DnCall("truncate", 1), DnCall("stat", 0)>>),
    DnTwo(<<SetFd(1), DnCall("loop_write", 3), DnCall("loop_read", 2)>>, <<SetFd(2), DnCall("clr_fd", 0), SetFd(2), [call |-> "loop_mount"]>>),
    DnTwo(<<Mkfs(1, 10239, 1), MountDisk(1), Mkfs(1, 0, 0), MountDisk(1)>>, <<MountDisk(0), WrHeader(0, 3, 3), [call |-> "disk_write", slot |-> 0, arg |-> 8], MountDisk(0)>>),
    DnTwo(<<WrHeader(1, 20, 2), MountDisk(1), WrHeader(1, 300000, 2), MountDisk(1), WrHeader(1, 1, 7)>>, <<SetFd(1), [call |-> "loop_mount"]>>)}
          \cup DnMkfsRace

(* create() in a directory that unlink() has found empty.                  *)
\* Outside the run, ShmReachable fails: a directory of /dev/shm is removed while a file is
\* created in it.
DnLateCreate == {DnTwo(<<Mk(0, 1, "dir"), Rm(0, 1)>>, <<Mk(1, 1, "file")>>)}
(* Two users of the loop device share the cursor of its file.              *)
\* Outside the run, LoopInPlace fails: two users of the loop device move the cursor of its
\* file.
DnLoopRace == {DnTwo(<<SetFd(1), DnCall("loop_write", 3)>>, <<DnCall("loop_read", 2)>>)}
(* mkfs between the two questions of mount().                              *)

-----------------------------------------------------------------------------
(* PageCache *)
CONSTANTS f1, f2

PcWrite(off, len) == [op |-> "write", off |-> off, len |-> len]
PcSyncWrite(off, len) == [op |-> "write", off |-> off, len |-> len, sync |-> TRUE]
PcAppend(len) == [op |-> "append", len |-> len]
PcRead(off, len) == [op |-> "read", off |-> off, len |-> len]
PcTruncate(size) == [op |-> "truncate", size |-> size]
PcPunch(off, len) == [op |-> "punch", off |-> off, len |-> len]
PcDontNeed(off, len) == [op |-> "dontneed", off |-> off, len |-> len]
PcRange(off, len) == [op |-> "range", off |-> off, len |-> len]
PcFsync == [op |-> "fsync"]
PcBackground == [op |-> "background"]

Pc(a, b, size, fail, pressure, ahead) ==
    [does |-> (f1 :> a @@ f2 :> b), size |-> size, fail |-> fail, pressure |-> pressure,
     ahead |-> ahead, total |-> 0]
PcMain == {
    Pc(<<PcWrite(0, 2), PcFsync>>, <<PcWrite(1, 2), PcFsync>>, 0, 0, FALSE, 1),
    Pc(<<PcWrite(1, 2), PcFsync, PcRead(0, 4)>>, <<PcBackground, PcBackground>>, 4, 1, TRUE, 2),
    Pc(<<PcTruncate(1), PcTruncate(4)>>, <<PcRead(0, 4)>>, 4, 0, FALSE, 1),
    Pc(<<PcSyncWrite(0, 1), PcFsync>>, <<PcWrite(2, 1), PcFsync>>, 4, 0, FALSE, 1),
    Pc(<<PcSyncWrite(0, 1), PcTruncate(0), PcFsync>>, <<PcFsync>>, 4, 0, FALSE, 1),
    Pc(<<PcWrite(0, 1), PcBackground, PcFsync>>, <<PcFsync, PcRange(0, 2)>>, 2, 2, FALSE, 1),
    Pc(<<PcWrite(0, 3), PcTruncate(1), PcTruncate(3), PcRead(0, 3)>>, <<PcFsync, PcFsync>>, 3, 1, FALSE, 1),
    Pc(<<PcWrite(0, 2), PcDontNeed(0, 2), PcRead(0, 4)>>, <<PcWrite(2, 1), PcFsync>>, 4, 0, FALSE, 2),
    Pc(<<PcWrite(0, 3), PcPunch(0, 3), PcRead(0, 4)>>, <<PcFsync>>, 3, 1, FALSE, 1),
    Pc(<<PcWrite(0, 2), PcAppend(1), PcFsync>>, <<PcBackground, PcFsync>>, 2, 1, FALSE, 1)}

\* Outside the run, NoSelfLock fails: the file is cut after the batch was gathered, and
\* sync_inner() cuts the lower file with the writeback lock held.
PcSelfLock == {Pc(<<PcTruncate(0)>>, <<PcSyncWrite(0, 1)>>, 4, 0, FALSE, 1)}
\* Outside the run, ReadsCoherent fails: a page that is about to be written over is in the map,
\* zeroed, before the copy.
PcZeroPage == {Pc(<<PcWrite(0, 3)>>, <<PcRead(0, 3)>>, 3, 0, FALSE, 1)}
\* Outside the run, ErrorToldOnce fails: sync_file_range(), an O_SYNC write or a punch returns
\* its own error and leaves the cursor behind, and fsync() returns it again.
PcToldTwice == {Pc(<<PcWrite(0, 2), c, PcFsync>>, <<>>, 2, 1, FALSE, 1) : c \in {PcRange(0, 2), PcSyncWrite(0, 2), PcPunch(0, 2)}}

-----------------------------------------------------------------------------
(* BlockIo *)
DiskSeek(n, w) == [op |-> "seek", n |-> n, whence |-> w]
DiskDo(op, n) == [op |-> op, n |-> n, whence |-> "SET"]
BioShare(va, n, dir) == [va |-> va, n |-> n, dir |-> dir]
NoShares == [u \in BioUsers |-> <<>>]
\* Eight virtual pages, of two bytes each, after the direct map.
BioPages ==
    [v \in PHYS_END \div BIO_PAGE .. PHYS_END \div BIO_PAGE + 7 |-> <<0, 1, 4, 2, 3, 7, 5, 6>>[v - PHYS_END \div BIO_PAGE + 1]]
DiskCases ==
    {[base |-> b, faults |-> f, shares |-> NoShares, pt |-> BioPages, prog |-> <<DiskSeek(s, w)>> \o p] :
        b \in 0 .. 1, f \in 0 .. 1, s \in {0, 1, 2}, w \in {"SET", "CUR"},
        p \in {<<DiskDo("write", n), DiskSeek(-n, "CUR"), DiskDo("read", 5)>> : n \in {1, 2, 4, 5, 7}}}
    \cup {[base |-> 1, faults |-> 0, shares |-> NoShares, pt |-> BioPages, prog |-> <<DiskSeek(-n, "END"), DiskDo("read", 2)>>] : n \in {2, 9, 10}}
BounceCases ==
    {[base |-> 0, faults |-> 0, prog |-> <<>>, pt |-> BioPages, shares |-> [u \in BioUsers |-> IF u = 1 THEN p ELSE q]] :
        p \in {<<BioShare(PHYS_END + 4, 3, d), BioShare(PHYS_END + 5, 3, "from"), BioShare(PHYS_END + 4, 4, "from")>> : d \in {"to", "from", "both"}}
              \cup {<<BioShare(PHYS_END + 0, 4, "both"), BioShare(PHYS_END + 4, 2, "from"), BioShare(2, 2, "to")>>},
        q \in {<<BioShare(PHYS_END + 8, 3, d), BioShare(PHYS_END + 8, 4, "to"), BioShare(PHYS_END + 9, 3, "both")>> : d \in {"to", "from"}}
              \cup {<<BioShare(PHYS_END + 9, 6, "both"), BioShare(PHYS_END + 8, 3, "from")>>}}
BioMain == DiskCases \cup BounceCases

-----------------------------------------------------------------------------
(* SdCard *)
SdCall(op, b, n) == [op |-> op, b |-> b, n |-> n]
SdCase(prog, faults, misses, readable, reliable) ==
    [prog |-> prog, faults |-> faults, misses |-> misses, readable |-> readable, reliable |-> reliable]
SdMain ==
    {SdCase(p, f, 0, {4, 8, 16, 32, 63}, {16, 32, 63}) :
        f \in 0 .. 1, p \in {<<SdCall("read", 1, 2), SdCall("read", 1, 1)>>, <<SdCall("write", 1, 2), SdCall("read", 2, 1)>>,
                             <<SdCall("read", 1, 1), SdCall("write", 1, 1), SdCall("read", 1, 1)>>}}
    \cup {SdCase(<<>>, 0, m, r, r \cap {16, 63}) : m \in 0 .. 2, r \in {{}, {4, 8, 16}, {8, 63}}}

-----------------------------------------------------------------------------
CONSTANT FilesParts     \* the components this run is about
VARIABLE part       \* the one this behaviour is about
filesVars == <<part, fdVars, nmVars, trVars, imVars, dnVars, pcVars, bioVars, sdVars>>

FdFirst == CHOOSE s \in FdScenarios : TRUE
NmFirst == CHOOSE s \in NmScenarios : TRUE
TrFirst == CHOOSE s \in TrScenarios : TRUE
ImFirst == CHOOSE s \in ImScenarios : TRUE
DnFirst == CHOOSE s \in DnScenarios : TRUE
PcFirst == CHOOSE s \in PcScenarios : TRUE
BioFirst == CHOOSE s \in BioScenarios : TRUE
SdFirst == CHOOSE s \in SdScenarios : TRUE
FilesInit ==
    /\ part \in FilesParts
    /\ FdInit /\ (part # "fds" => fdSc = FdFirst)
    /\ NmInit /\ (part # "names" => nmSc = NmFirst)
    /\ TrInit /\ (part # "transfer" => trSc = TrFirst)
    /\ ImInit /\ (part # "inodes" => imSc = ImFirst)
    /\ IF part = "devices" THEN DnInit ELSE DnStart(DnFirst)
    /\ PcInit /\ (part # "cache" => pcSc = PcFirst)
    /\ BioInit /\ (part # "disk" => bioSc = BioFirst)
    /\ SdInit /\ (part # "card" => sdSc = SdFirst)
FilesNext ==
    \/ part = "fds" /\ FdNext /\ UNCHANGED <<part, nmVars, trVars, imVars, dnVars, pcVars, bioVars, sdVars>>
    \/ part = "names" /\ NmNext /\ UNCHANGED <<part, fdVars, trVars, imVars, dnVars, pcVars, bioVars, sdVars>>
    \/ part = "transfer" /\ TrNext /\ UNCHANGED <<part, fdVars, nmVars, imVars, dnVars, pcVars, bioVars, sdVars>>
    \/ part = "inodes" /\ ImNext /\ UNCHANGED <<part, fdVars, nmVars, trVars, dnVars, pcVars, bioVars, sdVars>>
    \/ part = "devices" /\ DnNext /\ UNCHANGED <<part, fdVars, nmVars, trVars, imVars, pcVars, bioVars, sdVars>>
    \/ part = "cache" /\ PcNext /\ UNCHANGED <<part, fdVars, nmVars, trVars, imVars, dnVars, bioVars, sdVars>>
    \/ part = "disk" /\ BioNext /\ UNCHANGED <<part, fdVars, nmVars, trVars, imVars, dnVars, pcVars, sdVars>>
    \/ part = "card" /\ SdNext /\ UNCHANGED <<part, fdVars, nmVars, trVars, imVars, dnVars, pcVars, bioVars>>
FilesSpec == FilesInit /\ [][FilesNext]_filesVars

-----------------------------------------------------------------------------
(* What the run checks: the properties of each component in the behaviours that are about
   it. In the others it stays in a state that some behaviour about it starts from. *)

\* Descriptor tables hold what their users opened and nothing else, a call that fails takes back
\* what it had added, and two locks that exclude each other are never both held. Left out: a
\* descriptor closed by another thread in the middle of pipe2(), accept4(), F_SETFD or
\* close_range(), and two sharers of a table that exit together.
DescriptorsExact ==
    /\ part = "fds" =>
           /\ FdTypeOK /\ FdNextFree /\ PosixExclusive /\ FlockExclusive
           /\ FdNoOrphanTable /\ PairAllOrNothing /\ FdTouchesOwn

\* The name space is a tree, the dentry cache and the mounts say the same as the file
\* system, a mount with mounts on it stays, and a walk does not leave the root of its task.
\* Left out: a look-up that misses the cache while another task looks up, removes or fails to
\* create the same name, a mount in use by a file or mounted upon during umount(), and
\* the owner of a file that is opened while it is created (OpenedIsMade).
NamesHold ==
    /\ part = "names" =>
           /\ NmTypeOK /\ NamesAreTree /\ MountSeen /\ CacheTrue /\ RootHolds
           /\ UmountIdle /\ OpenedStays

\* A transfer reports what it moved, loses and repeats nothing, keeps the order and
\* moves only the cursors it should. Left out: an output that takes a part of a chunk and then
\* no more, a buffer that goes away after the first chunk of read() or write(), a cursor that
\* two calls use at once, and a tee() longer than the room there is.
TransfersExact ==
    /\ part = "transfer" =>
           /\ TrTypeOK /\ TrReported /\ TrNothingLost /\ TrInOrder /\ TrCursorKept

\* Deferred times are not forgotten while one task uses the inode and one writes out: an
\* update that comes during the write stays pending, is registered, scanned in time, and on the
\* disk when a sync says so. Left out: two tasks that write out the same inode beside a reader
\* (the numbers of the batches start again), and two that set its times at once.
MetadataReachesDisk ==
    /\ part = "inodes" =>
           /\ ImTypeOK /\ TimesReachDisk /\ PendingRegistered /\ ScanArmed /\ SyncWrites

\* The page cache is coherent and durable: reads see what was written, what fsync()
\* promised survives a power failure, a failed writeback is told once, and writeback does not
\* wait for itself. Left out: a reader of a page that is being written over for the first time
\* (it may see zeros), a truncate that cuts away a batch being written, and a failure
\* told by sync_file_range(), an O_SYNC write or a punch, which fsync() tells again.
CacheDurable ==
    /\ part = "cache" =>
           /\ PcTypeOK /\ FsyncDurable /\ ReadsCoherent /\ ErrorToldOnce /\ NoSelfLock
           /\ DirtyIsOwned

\* What goes through a device file or a block driver arrives where it should:
\* /dev/shm and loop devices (DevNodes), block layer and SD card (Disk).
DevicesExact ==
    /\ part = "devices" =>
           /\ DnTypeOK /\ ShmReachable /\ OwnerWithItsMode /\ LoopInPlace
    /\ part = "disk" =>
           /\ BioTypeOK /\ DiskIsBytes /\ BounceOneOwner /\ DeviceUsesBuffer
    /\ part = "card" =>
           /\ SdTypeOK /\ SdReadExact /\ SdWriteOnCard

=============================================================================
