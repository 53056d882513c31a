------------------------------ MODULE FdTable -------------------------------
(***************************************************************************)
(* Descriptor tables (fs/fdtable.rs), the calls that change them (open,    *)
(* dup, dup3, fcntl, close, close_range, pipe2, socketpair, accept4), what *)
(* clone, exec and exit do with them (task/task.rs), and the two lock      *)
(* tables of syscall/fs.rs: flock() locks, owned by an open file, and      *)
(* fcntl() locks, owned by a process.                                      *)
(*                                                                         *)
(* An open file is a number; its file (the key of its locks) is given by   *)
(* the operation that opened it.  A slot of a table holds [f, cx]: the     *)
(* open file, 0 for none, and the O_CLOEXEC flag.                          *)
(***************************************************************************)
EXTENDS Integers, Sequences, SequencesExt, FiniteSets, FiniteSetsExt, Functions, TLC

CONSTANTS
    FdTasks,       \* numbers 1, 2, ...; task 1 runs first
    FdTables,      \* numbers 1, 2, ...; table 1 is the first task's
    FTB_RLIMIT,    \* slots of a table
    MAXOFF,        \* the largest file offset
    FdScenarios

VARIABLES fdSc, tabs, files, fl, pl, ft
fdVars == <<fdSc, tabs, files, fl, pl, ft>>

NoEntry == [f |-> 0, cx |-> FALSE]
\* The first task has closed its standard descriptors.
FdNew == [slots |-> <<NoEntry>>, next_fd |-> 0, limit |-> FTB_RLIMIT]
FdTask(p) == [pc |-> "idle", k |-> 1, proc |-> p, tab |-> 0, got |-> NoEntry, fds |-> <<>>, left |-> {}, own |-> {}, other |-> FALSE, ret |-> "ok"]

FdInit ==
    /\ fdSc \in FdScenarios
    /\ tabs = [i \in FdTables |-> IF i = 1 THEN FdNew ELSE [FdNew EXCEPT !.slots = <<>>]]
    /\ files = <<>>
    /\ fl = {} /\ pl = {}
    /\ ft = [t \in FdTasks |-> [FdTask(fdSc.proc[t]) EXCEPT !.tab = IF t = 1 THEN 1 ELSE 0, !.pc = IF t = 1 THEN "idle" ELSE "absent"]]

FSet(t, r) == ft' = [ft EXCEPT ![t] = r @@ @]
FAt(t, l) == ft[t].pc = l
FOp(t) == fdSc.prog[t][ft[t].k]
FCalls(t, op) == FAt(t, "idle") /\ ft[t].k <= Len(fdSc.prog[t]) /\ FOp(t).op = op
FRet(t, r) == [pc |-> "idle", k |-> ft[t].k + 1, got |-> NoEntry, fds |-> <<>>, left |-> {}, own |-> {}, ret |-> r]
Tab(t) == tabs[ft[t].tab]
SetTab(t, tb) == tabs' = [tabs EXCEPT ![ft[t].tab] = tb]
OnlyTab == UNCHANGED <<fdSc, files, fl, pl>>
\* A task is in TASK_MANAGER from clone() to the end of its exit.
Live == {t \in FdTasks : ft[t].pc \notin {"absent", "gone"}}

-----------------------------------------------------------------------------
(* The table.                                                              *)

Slot(tb, fd) == IF fd + 1 \in DOMAIN tb.slots THEN tb.slots[fd + 1] ELSE NoEntry
TableResized(s, n) == s \o [i \in 1 .. (IF n > Len(s) THEN n - Len(s) ELSE 0) |-> NoEntry]
FreeFrom(s, n) == {i \in n .. Len(s) - 1 : s[i + 1].f = 0}
update_next_fd(s, n) == IF FreeFrom(s, n) = {} THEN Max({n, Len(s)}) ELSE Min(FreeFrom(s, n))

\* The first free slot from min_fd on, else a new one; -1 for EMFILE.
alloc_fd_locked(tb, e, min_fd) ==
    LET s == TableResized(tb.slots, min_fd + 1)
        free == {i \in FreeFrom(s, min_fd) : i < tb.limit}
    IN  IF free # {}
        THEN LET fd == Min(free)
                 s2 == [s EXCEPT ![fd + 1] = e]
             IN  [fd |-> fd, tb |-> [tb EXCEPT !.slots = s2, !.next_fd = update_next_fd(s2, fd + 1)]]
        ELSE IF Len(s) >= tb.limit THEN [fd |-> -1, tb |-> [tb EXCEPT !.slots = s]]
        ELSE [fd |-> Len(s), tb |-> [tb EXCEPT !.slots = Append(s, e), !.next_fd = Len(s) + 1]]
alloc_fd(tb, e) == IF tb.next_fd >= tb.limit THEN [fd |-> -1, tb |-> tb] ELSE alloc_fd_locked(tb, e, tb.next_fd)
alloc_fd_from(tb, e, min_fd) == IF min_fd >= tb.limit THEN [fd |-> -1, tb |-> tb] ELSE alloc_fd_locked(tb, e, min_fd)

set_fd(tb, fd, e) ==
    LET s == [TableResized(tb.slots, fd + 1) EXCEPT ![fd + 1] = e]
    IN  [tb EXCEPT !.slots = s, !.next_fd = IF fd = @ THEN update_next_fd(s, fd + 1) ELSE @]

close_fd(tb, fd) == [tb EXCEPT !.slots[fd + 1] = NoEntry, !.next_fd = Min({@, fd})]

close_on_exec(tb) ==
    LET s == [i \in DOMAIN tb.slots |-> IF tb.slots[i].cx THEN NoEntry ELSE tb.slots[i]]
    IN  [tb EXCEPT !.slots = s, !.next_fd = update_next_fd(s, 0)]
Cleared(tb) == [tb EXCEPT !.slots = <<>>, !.next_fd = 0]
OpenFiles(tb) == {tb.slots[i].f : i \in DOMAIN tb.slots} \ {0}

-----------------------------------------------------------------------------
(* Locks.  A flock() lock: [key, owner, ex]; a fcntl() lock: [key, pid,    *)
(* from, to, ex], a range of offsets up to MAXOFF.                         *)

\* lock_range(): the bytes [start, start + len), the ones before start for a
\* negative len, all from start for 0; <<>> for EINVAL.
lock_range(start, len) ==
    IF len = 0 THEN <<start, MAXOFF>>
    ELSE IF len > 0 THEN (IF start + len - 1 > MAXOFF THEN <<>> ELSE <<start, start + len - 1>>)
    ELSE IF -len > start THEN <<>> ELSE <<start + len, start - 1>>
ranges_overlap(a, b) == a[1] <= b[2] /\ b[1] <= a[2]
Span(e) == <<e.from, e.to>>
posix_conflict(e, pid, r, ex) == e.pid # pid /\ ranges_overlap(Span(e), r) /\ (e.ex \/ ex)

\* Dead owners are forgotten when the table is next used.
OpenSomewhere(f) == \/ \E i \in FdTables : f \in OpenFiles(tabs[i]) /\ \E t \in FdTasks : ft[t].tab = i
                    \/ \E t \in FdTasks : ft[t].got.f = f
flock_conflicts(e, f, ex) == e.owner # f /\ (e.ex \/ ex)

EntryAt(t) == Slot(Tab(t), FOp(t).fd)
KeyOf(f) == files[f]
\* A call that waits for a lock keeps the entry it began with.
LockEntry(t) == IF ft[t].got.f # 0 THEN ft[t].got ELSE EntryAt(t)
release_posix_locks_for_file(p, f) == {e \in pl : ~ (e.key = KeyOf(f) /\ e.pid = p)}

sys_flock(t) ==
    /\ FCalls(t, "flock") /\ LockEntry(t).f # 0
    /\ LET f == LockEntry(t).f
           same == {e \in fl : e.key = KeyOf(f)}
           alive == {e \in same : OpenSomewhere(e.owner)}
           busy == \E e \in alive : flock_conflicts(e, f, FOp(t).ex)
           new == [key |-> KeyOf(f), owner |-> f, ex |-> FOp(t).ex]
       IN  \/ /\ FOp(t).un
              /\ fl' = {e \in fl : ~ (e.key = KeyOf(f) /\ e.owner = f)} /\ FSet(t, FRet(t, "ok"))
           \/ /\ ~ FOp(t).un /\ busy
              /\ fl' = (fl \ same) \cup alive
              /\ (IF FOp(t).nb THEN FSet(t, FRet(t, "EAGAIN")) ELSE FSet(t, [got |-> LockEntry(t)]) \/ FSet(t, FRet(t, "EINTR")))
           \/ /\ ~ FOp(t).un /\ ~ busy
              /\ fl' = (fl \ same) \cup {e \in alive : e.owner # f} \cup {new} /\ FSet(t, FRet(t, "ok"))
    /\ UNCHANGED <<fdSc, tabs, files, pl>>

\* set_posix_lock(): the caller's locks in the range go first.
set_posix_lock(t) ==
    /\ FCalls(t, "setlk") /\ LockEntry(t).f # 0
    /\ LET key == KeyOf(LockEntry(t).f)
           p == ft[t].proc
           r == lock_range(FOp(t).start, FOp(t).len)
           rest == {e \in pl : ~ (e.key = key /\ e.pid = p /\ ranges_overlap(Span(e), r))}
           busy == \E e \in rest : e.key = key /\ posix_conflict(e, p, r, FOp(t).ex)
       IN  IF r = <<>> THEN FSet(t, FRet(t, "EINVAL")) /\ UNCHANGED pl
           ELSE \/ /\ FOp(t).un /\ pl' = rest /\ FSet(t, FRet(t, "ok"))
                \/ /\ ~ FOp(t).un /\ busy /\ pl' = rest
                   /\ (IF FOp(t).nb THEN FSet(t, FRet(t, "EAGAIN")) ELSE FSet(t, [got |-> LockEntry(t)]) \/ FSet(t, FRet(t, "EINTR")))
                \/ /\ ~ FOp(t).un /\ ~ busy
                   /\ pl' = rest \cup {[key |-> key, pid |-> p, from |-> r[1], to |-> r[2], ex |-> FOp(t).ex]}
                   /\ FSet(t, FRet(t, "ok"))
    /\ UNCHANGED <<fdSc, tabs, files, fl>>

\* A lock call on a closed descriptor.
lock_badf(t) ==
    /\ (FCalls(t, "flock") \/ FCalls(t, "setlk")) /\ LockEntry(t).f = 0
    /\ FSet(t, FRet(t, "EBADF"))
    /\ UNCHANGED <<fdSc, tabs, files, fl, pl>>

-----------------------------------------------------------------------------
(* The calls.  What get_fd_entry() returned is held in `got` while the     *)
(* table is unlocked.                                                      *)

sys_open(t) ==
    /\ FCalls(t, "open")
    /\ LET a == alloc_fd(Tab(t), [f |-> Len(files) + 1, cx |-> FOp(t).cx]) IN
       /\ SetTab(t, a.tb) /\ files' = Append(files, FOp(t).key)
       /\ FSet(t, FRet(t, IF a.fd < 0 THEN "EMFILE" ELSE "ok"))
    /\ UNCHANGED <<fdSc, fl, pl>>

\* dup, dup3, F_DUPFD and F_SETFD begin by reading the entry.
get_fd_entry(t) ==
    /\ \E op \in {"dup", "dup3", "dupfd", "setfd"} : FCalls(t, op)
    /\ FSet(t, IF FOp(t).op = "dup3" /\ FOp(t).fd = FOp(t).to THEN FRet(t, "EINVAL")
               ELSE IF EntryAt(t).f = 0 THEN FRet(t, "EBADF") ELSE [pc |-> FOp(t).op, got |-> [EntryAt(t) EXCEPT !.cx = FOp(t).cx]])
    /\ UNCHANGED tabs /\ OnlyTab

sys_dup(t) ==
    /\ ft[t].pc \in {"dup", "dupfd"}
    /\ LET a == IF FAt(t, "dup") THEN alloc_fd(Tab(t), ft[t].got) ELSE alloc_fd_from(Tab(t), ft[t].got, FOp(t).min) IN
       SetTab(t, a.tb) /\ FSet(t, FRet(t, IF a.fd >= 0 THEN "ok" ELSE IF FAt(t, "dupfd") /\ FOp(t).min >= Tab(t).limit THEN "EINVAL" ELSE "EMFILE"))
    /\ OnlyTab

\* The descriptor no longer names the file whose entry the call read.
FdStale(t, fd) == Slot(Tab(t), fd).f # ft[t].got.f
sys_dup3(t) ==
    /\ ft[t].pc \in {"dup3", "setfd"}
    /\ LET fd == IF FAt(t, "dup3") THEN FOp(t).to ELSE FOp(t).fd IN
       IF fd >= Tab(t).limit THEN FSet(t, FRet(t, "EBADF")) /\ UNCHANGED tabs
       ELSE SetTab(t, set_fd(Tab(t), fd, ft[t].got)) /\ FSet(t, FRet(t, "ok") @@ [other |-> FAt(t, "setfd") /\ FdStale(t, fd)])
    /\ OnlyTab

\* close() gives up the process's locks on the file, then the descriptor.
sys_close(t) ==
    /\ FCalls(t, "close")
    /\ pl' = IF EntryAt(t).f = 0 THEN pl ELSE release_posix_locks_for_file(ft[t].proc, EntryAt(t).f)
    /\ FSet(t, [pc |-> "close"])
    /\ UNCHANGED <<fdSc, tabs, files, fl>>
close_entry(t) ==
    /\ FAt(t, "close")
    /\ (IF EntryAt(t).f = 0 THEN UNCHANGED tabs ELSE SetTab(t, close_fd(Tab(t), FOp(t).fd)))
    /\ FSet(t, FRet(t, IF EntryAt(t).f = 0 THEN "EBADF" ELSE "ok"))
    /\ OnlyTab

FreeTable == Min({i \in FdTables : \A t \in FdTasks : ft[t].tab # i})
SharedTable(t) == \E u \in FdTasks \ {t} : ft[u].tab = ft[t].tab
sys_close_range(t) ==
    /\ FCalls(t, "close_range")
    /\ LET tab == IF FOp(t).unshare /\ SharedTable(t) THEN FreeTable ELSE ft[t].tab IN
       /\ tabs' = [tabs EXCEPT ![tab] = Tab(t)]
       /\ FSet(t, [pc |-> "range", tab |-> tab, left |-> {i \in FOp(t).first .. FOp(t).last : Slot(Tab(t), i).f # 0}])
    /\ OnlyTab
\* One descriptor: its entry is read, or its locks are given up; then it is
\* set or closed, in a second section of the table's lock.
close_range_next(t) ==
    /\ FAt(t, "range")
    /\ IF ft[t].left = {} THEN FSet(t, FRet(t, "ok")) /\ UNCHANGED pl
       ELSE LET e == Slot(Tab(t), Min(ft[t].left))
            IN  IF FOp(t).cloexec
                THEN /\ FSet(t, IF e.f = 0 THEN FRet(t, "EBADF") ELSE [pc |-> "range_fd", got |-> [e EXCEPT !.cx = TRUE]])
                     /\ UNCHANGED pl
                ELSE /\ pl' = IF e.f = 0 THEN pl ELSE release_posix_locks_for_file(ft[t].proc, e.f)
                     /\ FSet(t, [pc |-> "range_fd"])
    /\ UNCHANGED <<fdSc, tabs, files, fl>>
close_range_fd(t) ==
    /\ FAt(t, "range_fd")
    /\ LET fd == Min(ft[t].left)
           next == [pc |-> "range", left |-> ft[t].left \ {fd}, got |-> NoEntry]
       IN  IF FOp(t).cloexec
           THEN IF fd >= Tab(t).limit THEN FSet(t, FRet(t, "EBADF")) /\ UNCHANGED tabs
                ELSE SetTab(t, set_fd(Tab(t), fd, ft[t].got)) /\ FSet(t, next @@ [other |-> FdStale(t, fd)])
           ELSE (IF Slot(Tab(t), fd).f = 0 THEN UNCHANGED tabs ELSE SetTab(t, close_fd(Tab(t), fd))) /\ FSet(t, next)
    /\ OnlyTab

\* pipe2 and socketpair take two descriptors, accept4 one; then comes a copy
\* to the user, which may fail.
pair_first(t, n) ==
    /\ LET a == alloc_fd(Tab(t), [f |-> Len(files) + 1, cx |-> FALSE]) IN
       /\ SetTab(t, a.tb) /\ files' = files \o [i \in 1 .. n |-> FOp(t).key]
       /\ FSet(t, IF a.fd < 0 THEN FRet(t, "EMFILE")
                  ELSE [pc |-> IF n = 2 THEN "pair2" ELSE "copy", fds |-> <<a.fd>>, own |-> Len(files) + 1 .. Len(files) + n])
    /\ UNCHANGED <<fdSc, fl, pl>>
sys_pipe2(t) == FCalls(t, "pipe2") /\ pair_first(t, 2)
sys_socketpair(t) == FCalls(t, "socketpair") /\ pair_first(t, 2)
sys_accept4(t) == FCalls(t, "accept4") /\ pair_first(t, 1)
\* mutant: the first descriptor stays when there is no room for the second.
second_leaks(t) == [pc |-> "undone", ret |-> "EMFILE"]
second_failed(t) == [pc |-> "undo", ret |-> "EMFILE"]
pair_second(t) ==
    /\ FAt(t, "pair2")
    /\ LET a == alloc_fd(Tab(t), [f |-> Max(ft[t].own), cx |-> FALSE]) IN
       /\ SetTab(t, a.tb)
       /\ FSet(t, IF a.fd < 0 THEN second_failed(t) ELSE [pc |-> "copy", fds |-> Append(ft[t].fds, a.fd)])
    /\ OnlyTab
pair_copy(t) ==
    /\ FAt(t, "copy")
    /\ FSet(t, IF FOp(t).fault THEN [pc |-> "undo", ret |-> "EFAULT"] ELSE FRet(t, "ok"))
    /\ UNCHANGED tabs /\ OnlyTab
\* The descriptors are closed by number; pipe2 stops at one that is gone.
pair_undo(t) ==
    /\ FAt(t, "undo")
    /\ LET fd == Head(ft[t].fds) IN
       /\ (IF Slot(Tab(t), fd).f = 0 THEN UNCHANGED tabs ELSE SetTab(t, close_fd(Tab(t), fd)))
       /\ FSet(t, [other |-> Slot(Tab(t), fd).f \notin ft[t].own \cup {0}] @@
                  IF FOp(t).op = "pipe2" /\ Slot(Tab(t), fd).f = 0 THEN [pc |-> "undone", ret |-> "EBADF"]
                  ELSE IF Len(ft[t].fds) = 1 THEN [pc |-> "undone"] ELSE [fds |-> Tail(ft[t].fds)])
    /\ OnlyTab
pair_failed(t) ==
    /\ FAt(t, "undone")
    /\ FSet(t, FRet(t, ft[t].ret))
    /\ UNCHANGED tabs /\ OnlyTab

set_nofile_limit(t) ==
    /\ FCalls(t, "limit")
    /\ SetTab(t, [Tab(t) EXCEPT !.limit = FOp(t).n]) /\ FSet(t, FRet(t, "ok"))
    /\ OnlyTab

-----------------------------------------------------------------------------
(* clone, exec, exit.                                                      *)

sys_clone(t) ==
    /\ FCalls(t, "clone") /\ ft[FOp(t).child].pc = "absent"
    /\ LET c == FOp(t).child
           tab == IF FOp(t).share THEN ft[t].tab ELSE FreeTable
       IN  /\ tabs' = [tabs EXCEPT ![tab] = Tab(t)]
           /\ ft' = [ft EXCEPT ![t] = FRet(t, "ok") @@ @, ![c].pc = "idle", ![c].tab = tab]
    /\ OnlyTab

\* unshare_fd_table_for_exec(): a copy of its own; then the old table is
\* emptied if no live task has it; then the O_CLOEXEC descriptors go.
\* The other threads of the group have been retired by then (ThreadGroup);
\* a retired thread may still be referred to and keep its table.
Others(t) == {u \in FdTasks \ {t} : ft[u].proc = ft[t].proc}
Retired(t, r) ==
    /\ \A u \in Others(t) : ft[u].pc \in {"idle", "absent", "gone"}
    /\ ft' = [u \in FdTasks |-> IF u = t THEN r @@ ft[t] ELSE IF u \in Others(t) THEN [ft[u] EXCEPT !.pc = "gone"] ELSE ft[u]]
exec_unshare(t) ==
    /\ FCalls(t, "exec")
    /\ IF SharedTable(t)
       THEN /\ tabs' = [tabs EXCEPT ![FreeTable] = Tab(t)]
            /\ Retired(t, [pc |-> "exec_old", tab |-> FreeTable, fds |-> <<ft[t].tab>>])
       ELSE UNCHANGED tabs /\ Retired(t, [pc |-> "exec_close"])
    /\ OnlyTab
exec_old_used(t, old) == \E u \in Live \ {t} : ft[u].tab = old
exec_old(t) ==
    /\ FAt(t, "exec_old")
    /\ LET old == Head(ft[t].fds) IN
       tabs' = IF exec_old_used(t, old) THEN tabs ELSE [tabs EXCEPT ![old] = Cleared(@)]
    /\ FSet(t, [pc |-> "exec_close", fds |-> <<>>])
    /\ OnlyTab
exec_close(t) ==
    /\ FAt(t, "exec_close")
    /\ SetTab(t, close_on_exec(Tab(t))) /\ FSet(t, FRet(t, "ok"))
    /\ OnlyTab

\* exit_process_group(): whether another process uses the table is decided
\* first; the task leaves TASK_MANAGER last.
exit_decide(t) ==
    /\ FCalls(t, "exit")
    /\ Retired(t, [pc |-> IF \E u \in Live : ft[u].proc # ft[t].proc /\ ft[u].tab = ft[t].tab THEN "exit_locks" ELSE "exit_clear"])
    /\ UNCHANGED tabs /\ OnlyTab
exit_clear(t) ==
    /\ FAt(t, "exit_clear")
    /\ SetTab(t, Cleared(Tab(t))) /\ FSet(t, [pc |-> "exit_locks"])
    /\ OnlyTab
release_posix_locks_for_process(t) == {e \in pl : e.pid # ft[t].proc}
exit_locks(t) ==
    /\ FAt(t, "exit_locks")
    /\ pl' = release_posix_locks_for_process(t) /\ FSet(t, [pc |-> "gone"])
    /\ UNCHANGED <<fdSc, tabs, files, fl>>
\* A thread that ends alone leaves the table to its group.
thread_end(t) ==
    /\ FCalls(t, "thread_end") /\ FSet(t, [pc |-> "gone"])
    /\ UNCHANGED tabs /\ OnlyTab

FdNext == \E t \in FdTasks :
    \/ sys_flock(t) \/ set_posix_lock(t) \/ lock_badf(t) \/ sys_open(t) \/ get_fd_entry(t) \/ sys_dup(t) \/ sys_dup3(t)
    \/ sys_close(t) \/ close_entry(t) \/ sys_close_range(t) \/ close_range_next(t) \/ close_range_fd(t)
    \/ sys_pipe2(t) \/ sys_socketpair(t) \/ sys_accept4(t) \/ pair_second(t) \/ pair_copy(t) \/ pair_undo(t) \/ pair_failed(t) \/ set_nofile_limit(t)
    \/ sys_clone(t) \/ exec_unshare(t) \/ exec_old(t) \/ exec_close(t)
    \/ exit_decide(t) \/ exit_clear(t) \/ exit_locks(t) \/ thread_end(t)
FdSpec == FdInit /\ [][FdNext]_fdVars
-----------------------------------------------------------------------------
(* Properties.                                                             *)

\* Type correctness; no table outgrows the limit of the system.
FdTypeOK ==
    /\ \A i \in FdTables : Len(tabs[i].slots) <= FTB_RLIMIT /\ tabs[i].next_fd \in 0 .. FTB_RLIMIT
                           /\ \A j \in DOMAIN tabs[i].slots : tabs[i].slots[j].f \in 0 .. Len(files)
    /\ \A e \in pl : e.from \in 0 .. MAXOFF /\ e.to \in -1 .. MAXOFF
    /\ \A t \in FdTasks : ft[t].tab \in FdTables \cup {0}

\* The hint next_fd is a free slot: alloc_fd() never replaces a descriptor in
\* use and never says EMFILE because of a slot that is taken.
FdNextFree == \A i \in FdTables : Slot(tabs[i], tabs[i].next_fd).f = 0

\* fcntl() locks of two processes on one byte of a file are both shared,
\* through any sequence of upgrades, waits and closes.
PosixExclusive == \A a, b \in pl : (a.key = b.key /\ a.pid # b.pid /\ ranges_overlap(Span(a), Span(b))) => ~ (a.ex \/ b.ex)

\* flock() locks of two open files on one file are both shared.
FlockExclusive == \A a, b \in fl : (a.key = b.key /\ a.owner # b.owner /\ OpenSomewhere(a.owner) /\ OpenSomewhere(b.owner)) => ~ (a.ex \/ b.ex)

\* Nobody holds descriptors for the dead: a table that no live task uses is
\* empty, so that pipe ends in it are closed (what exec and exit clear).
FdNoOrphanTable == \A i \in FdTables : OpenFiles(tabs[i]) # {} =>
    \E t \in FdTasks : (ft[t].tab = i /\ ft[t].pc # "gone") \/ (FAt(t, "exec_old") /\ ft[t].fds = <<i>>)

\* pipe2(), socketpair() and accept4() that fail leave no descriptor behind.
PairAllOrNothing == \A t \in FdTasks : FAt(t, "undone") => ft[t].own \cap OpenFiles(Tab(t)) = {}

\* A call that read an entry and later sets or closes the descriptor by its
\* number meets the same file: F_SETFD and CLOSE_RANGE_CLOEXEC bring back no
\* file that was closed, and the undo of a pair closes no file of another.
FdTouchesOwn == \A t \in FdTasks : ~ ft[t].other

=============================================================================
