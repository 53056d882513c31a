------------------------------ MODULE EventFds ------------------------------
(***************************************************************************)
(* eventfd, timerfd and epoll (syscall/special_fd.rs) with the waiter      *)
(* lists of fs/poll.rs.                                                    *)
(*                                                                         *)
(* A file is an eventfd or a timerfd; descriptor tables map descriptors to *)
(* files, and an interest of the one epoll object is keyed by descriptor   *)
(* and file.  A blocked reader or writer registers, looks once more and    *)
(* only then marks itself Blocked; epoll_wait marks itself Blocked and     *)
(* then scans again.  A notification takes its tasks off the list in one   *)
(* step and wakes them in the next: wakeup_task() does nothing to a task   *)
(* that is still Running.  The kernel is not preempted: on one hart a call *)
(* runs until it sleeps, yields or returns, and the timer service between. *)
(***************************************************************************)
EXTENDS Integers, Sequences, FiniteSets, TLC

CONSTANTS EfTasks,      \* threads
          EfScenarios,  \* programs, tables, files, harts, and where the clock stops
          CounterMax    \* u64::MAX - 1

VARIABLES efSc,       \* the scenario
          efnow,      \* clock_time_ms()
          fdtabs,     \* descriptor tables
          efiles,     \* open files
          interests,  \* EpollFd.interests
          efsvc,      \* the timer service inside check_timerfd_expirations()
          eftask,     \* the threads
          eflog       \* what was written, taken, reported, and is still wanted

efVars == <<efSc, efnow, fdtabs, efiles, interests, efsvc, eftask, eflog>>

\* Nobody but t is in the middle of a call, or there is a hart for each.
EfOutside == {"user", "scan", "asleep", "epasleep"}
EfTurn(t) == efSc.harts = 1 => /\ \A u \in EfTasks \ {t} : eftask[u].pc \in EfOutside
                               /\ efsvc = [file |-> 0, wake |-> {}]

EfRun(t) == efSc.prog[t][eftask[t].i]
EfCalls(t, op) == EfTurn(t) /\ eftask[t].pc = "user" /\ eftask[t].i <= Len(efSc.prog[t]) /\ EfRun(t).op = op
EfAt(t, pc) == eftask[t].pc = pc
EfSet(t, r) == eftask' = [eftask EXCEPT ![t] = r @@ @]
\* Return to user mode, where a signal that is not masked is handled.
EfBack(t, ret) == [pc |-> "user", i |-> eftask[t].i + 1, ret |-> ret, interruptible |-> FALSE,
                   sig |-> eftask[t].sig /\ eftask[t].saved,
                   masked |-> eftask[t].saved, ready |-> <<>>, dl |-> -1, file |-> 0,
                   interrupted |-> eftask[t].interrupted /\ ret # "eintr"]
EfTable(t) == fdtabs[efSc.tab[t]]
EfHas(t) == EfRun(t).fd \in DOMAIN EfTable(t)
EfFile(t) == EfTable(t)[EfRun(t).fd]
EfWoken(f, W) == [u \in EfTasks |-> IF u \in W /\ f[u].status = "Blocked"
                                    THEN [f[u] EXCEPT !.status = "Ready"] ELSE f[u]]
EfSignalled(t) == (eftask[t].interruptible /\ eftask[t].sig /\ ~eftask[t].masked) \/ eftask[t].interrupted

EventFd(count, sema, nb) == [kind |-> "event", count |-> count, sema |-> sema, nb |-> nb,
                             deadline |-> 0, every |-> 0, consumed |-> 0,
                             waiters |-> [t \in EfTasks |-> {}]]
TimerFd(nb) == [EventFd(0, FALSE, nb) EXCEPT !.kind = "timer"]

EfInit ==
    /\ efSc \in EfScenarios
    /\ efnow = 1 /\ fdtabs = efSc.fds /\ efiles = efSc.files
    /\ interests = <<>> /\ efsvc = [file |-> 0, wake |-> {}]
    /\ eftask = [t \in EfTasks |-> [pc |-> "user", i |-> 1, ret |-> "none", status |-> "Running",
                    sig |-> FALSE, masked |-> efSc.mask[t], saved |-> efSc.mask[t], interruptible |-> FALSE,
                    interrupted |-> FALSE, file |-> 0, wants |-> "none", wake |-> {}, open |-> {},
                    ready |-> <<>>, regs |-> {}, dl |-> -1]]
    /\ eflog = [written |-> [f \in DOMAIN efSc.files |-> efSc.files[f].count],
                taken |-> [f \in DOMAIN efSc.files |-> 0], told |-> [k \in {} |-> 0],
                wanted |-> {}, inc |-> 0]
-----------------------------------------------------------------------------
(* Readiness, and the waiter lists of fs/poll.rs. *)

expirations_locked(f, now) ==
    IF f.deadline = 0 \/ now < f.deadline THEN 0
    ELSE IF f.every = 0 THEN 1
    ELSE 1 + (now - f.deadline) \div f.every

pending(f) == LET n == expirations_locked(f, efnow) - f.consumed IN IF n > 0 THEN n ELSE 0

read_ready(f) == IF f.kind = "timer" THEN pending(f) > 0 ELSE f.count # 0
write_ready(f) == f.kind = "event" /\ f.count < CounterMax
ReadyFor(f) == (IF read_ready(f) THEN {"in"} ELSE {}) \cup (IF write_ready(f) THEN {"out"} ELSE {})

register_poll_waiter(fs, F, t, events) ==
    [f \in DOMAIN fs |-> IF f \in F THEN [fs[f] EXCEPT !.waiters[t] = @ \cup events] ELSE fs[f]]
unregister_poll_waiter(fs, F, t) ==
    [f \in DOMAIN fs |-> IF f \in F THEN [fs[f] EXCEPT !.waiters[t] = {}] ELSE fs[f]]

\* The tasks a notification takes off the list, and the list without them.
Notified(f, event) == {u \in EfTasks : event \in efiles[f].waiters[u]}
notify(f, event) ==
    efiles' = [efiles EXCEPT ![f].waiters = [u \in EfTasks |-> IF event \in @[u] THEN {} ELSE @[u]]]
-----------------------------------------------------------------------------
(* eventfd and timerfd reads and writes. *)

sys_read(t) ==
    /\ EfCalls(t, "read")
    /\ EfSet(t, IF EfHas(t) THEN [pc |-> "try", file |-> EfFile(t), wants |-> "in"]
                ELSE EfBack(t, "ebadf"))
    /\ UNCHANGED <<efSc, efnow, fdtabs, efiles, interests, efsvc, eflog>>

sys_write(t) ==
    /\ EfCalls(t, "write")
    /\ EfSet(t, IF ~EfHas(t) THEN EfBack(t, "ebadf")
                ELSE IF efiles[EfFile(t)].kind = "timer" \/ EfRun(t).v > CounterMax
                THEN EfBack(t, "einval")
                ELSE [pc |-> "try", file |-> EfFile(t), wants |-> "out"])
    /\ UNCHANGED <<efSc, efnow, fdtabs, efiles, interests, efsvc, eflog>>

\* Nothing to be had: EAGAIN, or wait.
Unable(t) == IF efiles[eftask[t].file].nb THEN EfBack(t, "eagain") ELSE [pc |-> "register"]

EventFd_read(t) ==
    /\ EfAt(t, "try") /\ eftask[t].wants = "in" /\ efiles[eftask[t].file].kind = "event"
    /\ LET f == eftask[t].file
           value == IF efiles[f].sema THEN 1 ELSE efiles[f].count IN
       IF efiles[f].count # 0
       THEN /\ efiles' = [efiles EXCEPT ![f].count = @ - value]
            /\ eflog' = [eflog EXCEPT !.taken[f] = @ + value]
            /\ EfSet(t, [pc |-> "notify"])
       ELSE EfSet(t, Unable(t)) /\ UNCHANGED <<efiles, eflog>>
    /\ UNCHANGED <<efSc, efnow, fdtabs, interests, efsvc>>

write_fits(f, v) == v <= CounterMax - f.count

EventFd_write(t) ==
    /\ EfAt(t, "try") /\ eftask[t].wants = "out"
    /\ LET f == eftask[t].file IN
       IF write_fits(efiles[f], EfRun(t).v)
       THEN /\ efiles' = [efiles EXCEPT ![f].count = @ + EfRun(t).v]
            /\ eflog' = [eflog EXCEPT !.written[f] = @ + EfRun(t).v]
            /\ EfSet(t, [pc |-> "notify"])
       ELSE EfSet(t, Unable(t)) /\ UNCHANGED <<efiles, eflog>>
    /\ UNCHANGED <<efSc, efnow, fdtabs, interests, efsvc>>

\* Expirations not yet told of; from here on they have been.
consume(f, expired) == expired

TimerFd_read(t) ==
    /\ EfAt(t, "try") /\ efiles[eftask[t].file].kind = "timer"
    /\ LET f == eftask[t].file
           expired == expirations_locked(efiles[f], efnow) IN
       IF pending(efiles[f]) # 0
       THEN /\ efiles' = [efiles EXCEPT ![f].consumed = consume(efiles[f], expired)]
            /\ eflog' = [eflog EXCEPT !.taken[f] = @ + pending(efiles[f])]
            /\ EfSet(t, EfBack(t, "ok"))
       ELSE EfSet(t, Unable(t)) /\ UNCHANGED <<efiles, eflog>>
    /\ UNCHANGED <<efSc, efnow, fdtabs, interests, efsvc>>

\* The other side is told: off the list, then awake.
other_side(t) == IF eftask[t].wants = "in" THEN "out" ELSE "in"

event_notify(t) ==
    /\ \/ /\ EfAt(t, "notify")
          /\ notify(eftask[t].file, other_side(t))
          /\ EfSet(t, [pc |-> "wake", wake |-> Notified(eftask[t].file, other_side(t))])
       \/ /\ EfAt(t, "wake")
          /\ LET f == EfWoken(eftask, eftask[t].wake) IN
             eftask' = [f EXCEPT ![t] = [wake |-> {}] @@ EfBack(t, "ok") @@ @]
          /\ UNCHANGED efiles
    /\ UNCHANGED <<efSc, efnow, fdtabs, interests, efsvc, eflog>>

\* What the waiting read or write waits for.
WaitOver(t) == LET f == efiles[eftask[t].file] IN
               IF eftask[t].wants = "in" THEN read_ready(f) ELSE write_fits(f, EfRun(t).v)

\* Registered; one look, a signal; Blocked without another look.
wait_for_file_event(t) ==
    /\ LET f == eftask[t].file IN
       \/ /\ EfAt(t, "register")
          /\ efiles' = register_poll_waiter(efiles, {f}, t, {eftask[t].wants})
          /\ EfSet(t, [pc |-> "look", interruptible |-> TRUE])
       \/ /\ EfAt(t, "look")
          /\ IF WaitOver(t)
             THEN /\ efiles' = unregister_poll_waiter(efiles, {f}, t)
                  /\ EfSet(t, [pc |-> "try", interruptible |-> FALSE])
             ELSE EfSet(t, [pc |-> "signals"]) /\ UNCHANGED efiles
       \/ /\ EfAt(t, "signals")
          /\ IF EfSignalled(t)
             THEN /\ efiles' = unregister_poll_waiter(efiles, {f}, t)
                  /\ EfSet(t, EfBack(t, "eintr"))
             ELSE EfSet(t, [pc |-> "block"]) /\ UNCHANGED efiles
       \/ /\ EfAt(t, "block") /\ EfSet(t, [pc |-> "asleep", status |-> "Blocked"]) /\ UNCHANGED efiles
       \/ /\ EfAt(t, "asleep") /\ eftask[t].status = "Ready" /\ EfTurn(t)
          /\ efiles' = unregister_poll_waiter(efiles, {f}, t)
          /\ EfSet(t, [status |-> "Running"] @@
                      IF eftask[t].interrupted THEN EfBack(t, "eintr")
                      ELSE [pc |-> "try", interruptible |-> FALSE])
    /\ UNCHANGED <<efSc, efnow, fdtabs, interests, efsvc, eflog>>
-----------------------------------------------------------------------------
(* Setting a timerfd, and the service that looks after them. *)

EfNumber == CHOOSE f \in 1..10 : f \notin DOMAIN efiles /\ \A g \in DOMAIN efiles : g < f
EfFresh(t) == CHOOSE fd \in 1..10 : fd \notin DOMAIN EfTable(t)
                                    /\ \A d \in 1..(fd - 1) : d \in DOMAIN EfTable(t)
\* A new file at the lowest descriptor.
EfOpened(t, f) ==
    /\ efiles' = efiles @@ (EfNumber :> f)
    /\ fdtabs' = [fdtabs EXCEPT ![efSc.tab[t]] = @ @@ (EfFresh(t) :> EfNumber)]
    /\ eflog' = [eflog EXCEPT !.written = @ @@ (EfNumber :> f.count), !.taken = @ @@ (EfNumber :> 0)]
    /\ EfSet(t, EfBack(t, "ok"))
    /\ UNCHANGED <<efSc, efnow, interests, efsvc>>

sys_eventfd2(t) ==
    EfCalls(t, "eventfd") /\ EfOpened(t, EventFd(EfRun(t).v, EfRun(t).sema, EfRun(t).nb))
sys_timerfd_create(t) == EfCalls(t, "timerfd") /\ EfOpened(t, TimerFd(EfRun(t).nb))

\* Nothing is changed before the old value has been copied out.
sys_timerfd_settime(t) ==
    /\ \/ /\ EfCalls(t, "settime")
          /\ EfSet(t, IF ~EfHas(t) THEN EfBack(t, "ebadf")
                      ELSE IF efiles[EfFile(t)].kind # "timer" THEN EfBack(t, "einval")
                      ELSE IF EfRun(t).fault THEN EfBack(t, "efault")
                      ELSE [pc |-> "settime", file |-> EfFile(t), wants |-> "out"])
          /\ UNCHANGED <<efiles, eflog>>
       \/ /\ EfAt(t, "settime")
          /\ efiles' = [efiles EXCEPT ![eftask[t].file] =
                 [@ EXCEPT !.every = EfRun(t).every, !.consumed = 0,
                           !.deadline = IF EfRun(t).ms = 0 THEN 0
                                        ELSE IF EfRun(t).abs THEN EfRun(t).ms ELSE efnow + EfRun(t).ms]]
          /\ eflog' = [eflog EXCEPT !.taken[eftask[t].file] = 0]
          /\ EfSet(t, [pc |-> "settled"])
       \/ /\ EfAt(t, "settled")
          /\ EfSet(t, IF read_ready(efiles[eftask[t].file]) THEN [pc |-> "notify"] ELSE EfBack(t, "ok"))
          /\ UNCHANGED <<efiles, eflog>>
    /\ UNCHANGED <<efSc, efnow, fdtabs, interests, efsvc>>

ef_tick ==
    /\ efnow < efSc.end /\ efnow' = efnow + 1
    /\ UNCHANGED <<efSc, fdtabs, efiles, interests, efsvc, eftask, eflog>>

EfLive == {f \in DOMAIN efiles : \E b \in DOMAIN fdtabs : \E fd \in DOMAIN fdtabs[b] : fdtabs[b][fd] = f}

check_timerfd_expirations ==
    /\ \/ /\ efsvc.file = 0 /\ efsvc.wake = {}
          /\ efSc.harts = 1 => \A u \in EfTasks : eftask[u].pc \in EfOutside
          /\ \E f \in EfLive : /\ efiles[f].kind = "timer" /\ read_ready(efiles[f])
                               /\ Notified(f, "in") # {} /\ efsvc' = [efsvc EXCEPT !.file = f]
          /\ UNCHANGED <<efiles, eftask>>
       \/ /\ efsvc.file # 0
          /\ notify(efsvc.file, "in") /\ efsvc' = [file |-> 0, wake |-> Notified(efsvc.file, "in")]
          /\ UNCHANGED eftask
       \/ /\ efsvc.wake # {}
          /\ eftask' = EfWoken(eftask, efsvc.wake) /\ efsvc' = [efsvc EXCEPT !.wake = {}]
          /\ UNCHANGED efiles
    /\ UNCHANGED <<efSc, efnow, fdtabs, interests, eflog>>
-----------------------------------------------------------------------------
(* epoll. *)

Without(g, K) == [k \in DOMAIN g \ K |-> g[k]]

ctl(t, how, key) ==
    LET fresh == [events |-> EfRun(t).events, et |-> EfRun(t).et, once |-> EfRun(t).once,
                  last |-> {}, disabled |-> FALSE, gen |-> 0, inc |-> eflog.inc] IN
    \/ /\ how = "add" /\ key \notin DOMAIN interests
       /\ interests' = interests @@ (key :> fresh)
       /\ eflog' = [eflog EXCEPT !.wanted = @ \cup {key}, !.inc = @ + 1]
       /\ EfSet(t, EfBack(t, "ok"))
    \/ /\ how = "del" /\ key \in DOMAIN interests
       /\ interests' = Without(interests, {key})
       /\ eflog' = [eflog EXCEPT !.wanted = @ \ {key}]
       /\ EfSet(t, EfBack(t, "ok"))
    \/ /\ how = "mod" /\ key \in DOMAIN interests
       /\ interests' = [interests EXCEPT ![key] =
              [fresh EXCEPT !.gen = interests[key].gen + 1, !.inc = interests[key].inc]]
       /\ EfSet(t, EfBack(t, "ok")) /\ UNCHANGED eflog
    \/ /\ (how = "add") = (key \in DOMAIN interests)
       /\ EfSet(t, EfBack(t, IF how = "add" THEN "eexist" ELSE "enoent"))
       /\ UNCHANGED <<interests, eflog>>

\* The target is looked up and the event copied in; then the table changes.
sys_epoll_ctl(t) ==
    /\ \/ /\ EfCalls(t, "ctl")
          /\ EfSet(t, IF ~EfHas(t) THEN EfBack(t, "ebadf")
                      ELSE IF EfRun(t).fault /\ EfRun(t).how # "del" THEN EfBack(t, "efault")
                      ELSE [pc |-> "ctl", file |-> EfFile(t)])
          /\ UNCHANGED <<interests, eflog>>
       \/ EfAt(t, "ctl") /\ ctl(t, EfRun(t).how, <<EfRun(t).fd, eftask[t].file>>)
    /\ UNCHANGED <<efSc, efnow, fdtabs, efiles, efsvc>>

sys_epoll_pwait(t) ==
    /\ EfCalls(t, "wait")
    /\ EfSet(t, IF EfRun(t).max = 0 THEN EfBack(t, "einval")
                ELSE [pc |-> "scan", dl |-> IF EfRun(t).ms < 0 THEN -1 ELSE efnow + EfRun(t).ms,
                      masked |-> IF EfRun(t).swap THEN EfRun(t).mask ELSE eftask[t].masked])
    /\ UNCHANGED <<efSc, efnow, fdtabs, efiles, interests, efsvc, eflog>>

DeadlinePassed(t) == eftask[t].dl >= 0 /\ efnow >= eftask[t].dl

\* The caller's open files, read before the interests are locked.
epoll_open_files(t) ==
    /\ eftask[t].pc \in {"scan", "rescan"} /\ EfTurn(t)
    /\ EfSet(t, [open |-> {EfTable(t)[fd] : fd \in DOMAIN EfTable(t)},
                 pc |-> IF EfAt(t, "scan") THEN "locked" ELSE "relocked"])
    /\ UNCHANGED <<efSc, efnow, fdtabs, efiles, interests, efsvc, eflog>>

retained(t) == Without(interests, {k \in DOMAIN interests : k[2] \notin eftask[t].open})

\* The conditions of an interest, and the ones it reports.
Conditions(k, x) == ReadyFor(efiles[k[2]]) \cap x.events
Report(k, x) == Conditions(k, x) \ (IF x.et THEN x.last ELSE {})

\* The reports of a scan, lowest descriptor first.
Reports(I, max) ==
    LET R == {k \in DOMAIN I : ~I[k].disabled /\ Report(k, I[k]) # {}}
        Rank(k) == Cardinality({j \in R : j[1] < k[1]}) IN
    [n \in 1..(IF Cardinality(R) < max THEN Cardinality(R) ELSE max) |->
        LET k == CHOOSE j \in R : Rank(j) = n - 1 IN
        [key |-> k, gen |-> I[k].gen, inc |-> I[k].inc, seen |-> Conditions(k, I[k])]]

\* An edge-triggered interest that is not ready may report again.
EdgesReset(I) == [k \in DOMAIN I |-> IF I[k].et /\ ~I[k].disabled /\ Conditions(k, I[k]) = {}
                                     THEN [I[k] EXCEPT !.last = {}] ELSE I[k]]

\* What the scan after Blocked makes of its findings.
blind_rescan(t, ready) == DeadlinePassed(t) \/ EfSignalled(t)  \* mutant: the second scan is not used
rescan_found(t, ready) == ready # <<>> \/ DeadlinePassed(t) \/ EfSignalled(t) \/ eftask[t].status = "Ready"

scan_ready(t) ==
    /\ eftask[t].pc \in {"locked", "relocked"}
    /\ LET ready == Reports(retained(t), EfRun(t).max) IN
       /\ interests' = EdgesReset(retained(t))
       /\ IF EfAt(t, "locked")
          THEN EfSet(t, IF ready # <<>> THEN [pc |-> "copy", ready |-> ready]
                        ELSE IF DeadlinePassed(t) THEN EfBack(t, "timeout")
                        ELSE [pc |-> "declare", interruptible |-> TRUE])
          ELSE EfSet(t, IF rescan_found(t, ready) THEN [pc |-> "awake", status |-> "Running"]
                        ELSE [pc |-> "epasleep"])
    /\ UNCHANGED <<efSc, efnow, fdtabs, efiles, efsvc, eflog>>

Arming(r) == <<r.key, r.inc, r.gen>>
CountTold(told, ready) ==
    [a \in DOMAIN told \cup {Arming(ready[n]) : n \in DOMAIN ready} |->
        (IF a \in DOMAIN told THEN told[a] ELSE 0) + Cardinality({n \in DOMAIN ready : Arming(ready[n]) = a})]

write_epoll_events(t) ==
    /\ EfAt(t, "copy")
    /\ IF EfRun(t).fault THEN EfSet(t, EfBack(t, "efault")) /\ UNCHANGED eflog
       ELSE /\ EfSet(t, [pc |-> "commit"])
            /\ eflog' = [eflog EXCEPT !.told = CountTold(@, eftask[t].ready)]
    /\ UNCHANGED <<efSc, efnow, fdtabs, efiles, interests, efsvc>>

\* The reports of an interest as it still is.
same_generation(t, k) == {n \in DOMAIN eftask[t].ready :
                            eftask[t].ready[n].key = k /\ eftask[t].ready[n].gen = interests[k].gen}

consumed(x, seen) == [x EXCEPT !.last = IF x.et THEN seen ELSE @, !.disabled = @ \/ x.once]

commit_ready(t) ==
    /\ EfAt(t, "commit")
    /\ interests' = [k \in DOMAIN interests |->
          IF same_generation(t, k) = {} THEN interests[k]
          ELSE consumed(interests[k], eftask[t].ready[CHOOSE n \in same_generation(t, k) : TRUE].seen)]
    /\ EfSet(t, EfBack(t, "ok"))
    /\ UNCHANGED <<efSc, efnow, fdtabs, efiles, efsvc, eflog>>

\* The files of the enabled interests; with none the caller yields and scans again.
register_waiters(t) ==
    /\ \/ /\ EfAt(t, "declare")
          /\ EfSet(t, IF EfSignalled(t) THEN EfBack(t, "eintr") ELSE [pc |-> "enlist"])
          /\ UNCHANGED efiles
       \/ /\ EfAt(t, "enlist")
          /\ LET K == {k \in DOMAIN interests : ~interests[k].disabled}
                 F == {k[2] : k \in K} IN
             /\ efiles' = [f \in DOMAIN efiles |-> IF f \notin F THEN efiles[f] ELSE
                    [efiles[f] EXCEPT !.waiters[t] =
                        @ \cup {"hup"} \cup UNION {interests[k].events : k \in {j \in K : j[2] = f}}]]
             /\ EfSet(t, IF F = {} THEN [pc |-> "scan", interruptible |-> FALSE]
                         ELSE [pc |-> "block_poll", regs |-> F])
    /\ UNCHANGED <<efSc, efnow, fdtabs, interests, efsvc, eflog>>

epoll_blocked(t) ==
    /\ EfAt(t, "block_poll") /\ EfSet(t, [pc |-> "rescan", status |-> "Blocked"])
    /\ UNCHANGED <<efSc, efnow, fdtabs, efiles, interests, efsvc, eflog>>

\* The timer service wakes a wait whose deadline has passed.
epoll_timeout(t) ==
    /\ eftask[t].pc \in {"rescan", "relocked", "epasleep"} /\ eftask[t].status = "Blocked"
    /\ DeadlinePassed(t) /\ eftask' = EfWoken(eftask, {t})
    /\ UNCHANGED <<efSc, efnow, fdtabs, efiles, interests, efsvc, eflog>>

unregistered(t) == unregister_poll_waiter(efiles, eftask[t].regs, t)

epoll_awake(t) ==
    /\ \/ EfAt(t, "awake")
       \/ EfAt(t, "epasleep") /\ eftask[t].status = "Ready" /\ EfTurn(t)
    /\ efiles' = unregistered(t)
    /\ EfSet(t, [status |-> "Running", regs |-> {}] @@
                IF eftask[t].interrupted THEN EfBack(t, "eintr")
                ELSE IF DeadlinePassed(t) THEN EfBack(t, "timeout")
                ELSE [pc |-> "scan", interruptible |-> FALSE])
    /\ UNCHANGED <<efSc, efnow, fdtabs, interests, efsvc, eflog>>
-----------------------------------------------------------------------------
(* Descriptors and signals, as the other modules model them in full. *)

ef_close(t) ==
    /\ EfCalls(t, "close")
    /\ fdtabs' = [fdtabs EXCEPT ![efSc.tab[t]] = Without(@, {EfRun(t).fd})]
    /\ EfSet(t, EfBack(t, IF EfHas(t) THEN "ok" ELSE "ebadf"))
    /\ UNCHANGED <<efSc, efnow, efiles, interests, efsvc, eflog>>

ef_dup(t) ==
    /\ EfCalls(t, "dup") /\ EfHas(t)
    /\ fdtabs' = [fdtabs EXCEPT ![efSc.tab[t]] = @ @@ (EfFresh(t) :> EfFile(t))]
    /\ EfSet(t, EfBack(t, "ok"))
    /\ UNCHANGED <<efSc, efnow, efiles, interests, efsvc, eflog>>

ef_kill(t) ==
    /\ EfCalls(t, "kill")
    /\ LET to == EfRun(t).to
           f == [eftask EXCEPT ![t] = EfBack(t, "ok") @@ @, ![to].sig = TRUE] IN
       eftask' = IF f[to].interruptible /\ ~f[to].masked
                 THEN EfWoken([f EXCEPT ![to].interrupted = TRUE], {to}) ELSE f
    /\ UNCHANGED <<efSc, efnow, fdtabs, efiles, interests, efsvc, eflog>>

EfNext ==
    \/ \E t \in EfTasks : sys_read(t)
    \/ \E t \in EfTasks : sys_write(t)
    \/ \E t \in EfTasks : EventFd_read(t)
    \/ \E t \in EfTasks : EventFd_write(t)
    \/ \E t \in EfTasks : TimerFd_read(t)
    \/ \E t \in EfTasks : event_notify(t)
    \/ \E t \in EfTasks : wait_for_file_event(t)
    \/ \E t \in EfTasks : sys_eventfd2(t)
    \/ \E t \in EfTasks : sys_timerfd_create(t)
    \/ \E t \in EfTasks : sys_timerfd_settime(t)
    \/ ef_tick
    \/ check_timerfd_expirations
    \/ \E t \in EfTasks : sys_epoll_ctl(t)
    \/ \E t \in EfTasks : sys_epoll_pwait(t)
    \/ \E t \in EfTasks : epoll_open_files(t)
    \/ \E t \in EfTasks : scan_ready(t)
    \/ \E t \in EfTasks : write_epoll_events(t)
    \/ \E t \in EfTasks : commit_ready(t)
    \/ \E t \in EfTasks : register_waiters(t)
    \/ \E t \in EfTasks : epoll_blocked(t)
    \/ \E t \in EfTasks : epoll_timeout(t)
    \/ \E t \in EfTasks : epoll_awake(t)
    \/ \E t \in EfTasks : ef_close(t)
    \/ \E t \in EfTasks : ef_dup(t)
    \/ \E t \in EfTasks : ef_kill(t)

EfSpec == EfInit /\ [][EfNext]_efVars
-----------------------------------------------------------------------------
(* Properties. *)

\* Counters stay within a u64 less one, and a task is on a waiter list only
\* while it is inside the wait that put it there.
EfTypeOK ==
    /\ \A f \in DOMAIN efiles : efiles[f].count \in 0..CounterMax
    /\ \A f \in DOMAIN efiles : \A t \in EfTasks : efiles[f].waiters[t] # {} =>
          \/ eftask[t].file = f /\ eftask[t].pc \in {"look", "signals", "block", "asleep"}
          \/ f \in eftask[t].regs
    /\ \A t \in EfTasks : eftask[t].status # "Running" =>
          eftask[t].pc \in {"asleep", "rescan", "relocked", "epasleep"}

\* EventFd::read() and write() lose and invent nothing: what was put into a
\* counter is what was taken out and what is in it, and the expirations of a
\* timerfd are each told once after timerfd_settime().
EfCountsExact ==
    \A f \in DOMAIN efiles :
        IF efiles[f].kind = "event" THEN eflog.written[f] = efiles[f].count + eflog.taken[f]
        ELSE eflog.taken[f] + pending(efiles[f]) = expirations_locked(efiles[f], efnow)

\* Somebody is about to tell the readers or the writers of file f.
Telling(f, event) == \E u \in EfTasks : /\ eftask[u].file = f /\ other_side(u) = event
                                        /\ eftask[u].pc \in {"notify", "settled"}
WakeComing(t) == (\E u \in EfTasks : t \in eftask[u].wake) \/ t \in efsvc.wake
Sleeps(t) == eftask[t].pc \in {"asleep", "epasleep"} /\ eftask[t].status = "Blocked"

\* The timer service looks at the list of a timerfd on every tick.
ServiceComing(t, f) == efiles[f].kind = "timer" /\ (efsvc.file = f \/ "in" \in efiles[f].waiters[t])

\* wait_for_file_event(): a reader or writer does not sleep for what has
\* happened already: whoever made it happen, or the timer service, has yet
\* to wake the sleeper.
EfSleeperServed ==
    \A t \in EfTasks : LET f == eftask[t].file IN
        Sleeps(t) /\ EfAt(t, "asleep") /\ WaitOver(t)
        => Telling(f, eftask[t].wants) \/ WakeComing(t) \/ ServiceComing(t, f)

\* wait_for_file_event() and sys_epoll_pwait(): nobody sleeps on a signal
\* that is not masked; the call comes back with EINTR.
EfSignalEndsWait ==
    \A t \in EfTasks : Sleeps(t) => ~(eftask[t].sig /\ ~eftask[t].masked)

\* sys_epoll_pwait(): a thread in epoll_wait() does not sleep while a file it
\* has an interest in has something to report.
EpSleeperServed ==
    \A t \in EfTasks : Sleeps(t) /\ EfAt(t, "epasleep") =>
        \A k \in DOMAIN interests :
            ~interests[k].disabled =>
            \A e \in Report(k, interests[k]) :
                Telling(k[2], e) \/ WakeComing(t) \/ ServiceComing(t, k[2])

\* scan_ready() drops an interest only when its file is open nowhere any more.
EpInterestKept ==
    \A k \in eflog.wanted : k[2] \in EfLive => k \in DOMAIN interests

\* commit_ready() comes after the copy to the user and looks at the
\* generation: a one-shot interest is disabled only by an event reported since
\* it was last armed, and no arming is reported twice.
EpOneShot ==
    /\ \A k \in DOMAIN interests :
          interests[k].disabled => <<k, interests[k].inc, interests[k].gen>> \in DOMAIN eflog.told
    /\ \A k \in DOMAIN interests : interests[k].once /\ <<k, interests[k].inc, interests[k].gen>> \in DOMAIN eflog.told
          => eflog.told[<<k, interests[k].inc, interests[k].gen>>] <= 1

=============================================================================
