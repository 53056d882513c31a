------------------------------- MODULE Clocks -------------------------------
(***************************************************************************)
(* Sleeps, interval timers, POSIX timers and the one hart that serves      *)
(* them (syscall/time.rs, arch/*/timer.rs, the timer traps, task.rs).      *)
(*                                                                         *)
(* Time is counted in microseconds; a millisecond is UsPerMs of them, so   *)
(* the rounding of the millisecond timers is visible.  The boot hart is    *)
(* the timer-service hart: its tick scans the timers only when it comes    *)
(* from user mode or from idle, and it only rearms the hardware otherwise. *)
(* Every task is a process of its own; a task that exits and then takes    *)
(* another step is the next process to be given the same number.           *)
(***************************************************************************)
EXTENDS Integers, FiniteSets, Sequences, FiniteSetsExt, TLC

CONSTANTS TmTasks,      \* process numbers
          TmScenarios,  \* programs, homes, the clock at the start, and where it stops
          UsPerMs,      \* microseconds in a millisecond
          TICK_US,      \* distance of two scheduler ticks
          TASK_TIMER_ADVANCE_US

VARIABLES tmSc,     \* the scenario
          clk,      \* now, realtime offset, REQUESTED, PROGRAMMED, comparator, IPI
          waits,    \* NANOSLEEP_WAITS.waits
          deadlines,\* NANOSLEEP_WAITS.deadlines
          ptimers,  \* POSIX_TIMERS
          itimers,  \* per process: TaskTimers; and ACTIVE_ITIMER_TASKS
          svc,      \* the timer-service hart
          tmtask,   \* the tasks
          tmlog     \* signals delivered, deadlines renewed

tmVars == <<tmSc, clk, waits, deadlines, ptimers, itimers, svc, tmtask, tmlog>>

MAX == 1000
Max2(a, b) == IF a > b THEN a ELSE b
CeilMs(us) == (us + UsPerMs - 1) \div UsPerMs
get_timeout_ms == clk.now \div UsPerMs

\* The clocks a sleep or a timer may name.
clock_time_us(c) == IF c = "real" THEN Max2(0, clk.now + clk.off) ELSE clk.now
clock_time_ms(c) == clock_time_us(c) \div UsPerMs

TmRun(t) == tmSc.prog[t][tmtask[t].i]
TmCalls(t, op) ==
    /\ tmtask[t].pc = "user" /\ tmtask[t].i <= Len(tmSc.prog[t]) /\ TmRun(t).op = op
    /\ tmSc.home[t] = "boot" => svc.pc = "idle"
TmAt(t, pc) == tmtask[t].pc = pc /\ (tmSc.home[t] = "boot" => svc.pc = "idle")
TmSet(t, r) == tmtask' = [tmtask EXCEPT ![t] = r @@ @]
\* Back to user mode: pending signals are handled there.
TmBack(t, ret) == [pc |-> "user", i |-> tmtask[t].i + 1, ret |-> ret, sig |-> FALSE,
                   interruptible |-> FALSE,
                   interrupted |-> tmtask[t].interrupted /\ ret # "eintr"]
TmInterrupted(t) == (tmtask[t].interruptible /\ tmtask[t].sig) \/ tmtask[t].interrupted
WakeT(f, t) == [f EXCEPT ![t].status = IF @ = "Blocked" THEN "Ready" ELSE @]
Receive(f, t) == LET g == [f EXCEPT ![t].sig = TRUE] IN
                 IF g[t].interruptible THEN WakeT([g EXCEPT ![t].interrupted = TRUE], t) ELSE g

NoTimer == [deadline |-> 0, interval |-> 0]
TmInit ==
    /\ tmSc \in TmScenarios
    /\ clk = [now |-> tmSc.now, off |-> 0, req |-> MAX, prog |-> tmSc.now + TICK_US,
              hw |-> tmSc.now + TICK_US, ipi |-> FALSE]
    /\ waits = <<>> /\ deadlines = {} /\ ptimers = [next |-> 1, tab |-> <<>>]
    /\ itimers = [t \in TmTasks |-> [deadline |-> 0, interval |-> 0, active |-> FALSE, old |-> NoTimer]]
    /\ svc = [pc |-> "idle", work |-> {}, next |-> {}, on |-> 0, inc |-> 0, seen |-> 0, renew |-> 0, late |-> FALSE]
    /\ tmtask = [t \in TmTasks |-> [pc |-> "user", i |-> 1, inc |-> 0, status |-> "Running",
                    sig |-> FALSE, interruptible |-> FALSE, interrupted |-> FALSE,
                    clock |-> "timeout", at |-> 0, ret |-> "none", known |-> {}, periodic |-> FALSE]]
    /\ tmlog = [sent |-> {}, drift |-> FALSE]
-----------------------------------------------------------------------------
(* The hardware timer of the service hart. *)

tm_tick == /\ clk.now < tmSc.end /\ clk' = [clk EXCEPT !.now = @ + 1]
           /\ UNCHANGED <<tmSc, waits, deadlines, ptimers, itimers, svc, tmtask, tmlog>>

\* The clock record with the service timer shortened to the request.
rearm_task_timer_request(c) ==
    LET trigger == Max2(0, c.req - TASK_TIMER_ADVANCE_US) IN
    IF trigger < c.prog THEN [c EXCEPT !.prog = trigger, !.hw = Max2(trigger, c.now + 1)] ELSE c

\* A deadline is published; the service hart is told when it is the earliest.
request_task_timer_after_us(c, home, delay) ==
    LET deadline == c.now + Max2(1, delay) IN
    IF deadline >= c.req THEN c
    ELSE IF home = "boot" THEN rearm_task_timer_request([c EXCEPT !.req = deadline])
    ELSE [c EXCEPT !.req = deadline, !.ipi = TRUE]

acknowledge_ipi ==
    /\ svc.pc = "idle" /\ clk.ipi
    /\ clk' = rearm_task_timer_request([clk EXCEPT !.ipi = FALSE])
    /\ UNCHANGED <<tmSc, waits, deadlines, ptimers, itimers, svc, tmtask, tmlog>>

\* A task of the boot hart is inside the kernel.
BootBusy == \E t \in TmTasks : tmSc.home[t] = "boot" /\ tmtask[t].pc \notin {"user", "asleep"}

\* The tick: the next one is programmed; from kernel mode nothing else is done.
timer_trap ==
    /\ svc.pc = "idle" /\ (clk.now >= clk.hw \/ clk.now = tmSc.end)
    /\ clk' = [clk EXCEPT !.prog = clk.now + TICK_US, !.hw = clk.now + TICK_US]
    /\ svc' = IF BootBusy THEN [svc EXCEPT !.late = TRUE] ELSE [svc EXCEPT !.pc = "await"]
    /\ UNCHANGED <<tmSc, waits, deadlines, ptimers, itimers, tmtask, tmlog>>

\* The hart spins through the last microseconds before a requested deadline
\* and then forgets the request: the scan below makes it anew.
await_task_timer_deadline ==
    /\ svc.pc = "await"
    /\ clk.now >= clk.req \/ clk.req - clk.now > TASK_TIMER_ADVANCE_US \/ clk.now = tmSc.end
    /\ clk' = [clk EXCEPT !.req = MAX]
    /\ svc' = [svc EXCEPT !.pc = "sleepers"]
    /\ UNCHANGED <<tmSc, waits, deadlines, ptimers, itimers, tmtask, tmlog>>
-----------------------------------------------------------------------------
(* Sleeping. *)

sys_nanosleep(t) ==
    /\ TmCalls(t, "nanosleep")
    /\ TmSet(t, [pc |-> "look", clock |-> "timeout", at |-> clk.now + TmRun(t).us, ret |-> "none"])
    /\ UNCHANGED <<tmSc, clk, waits, deadlines, ptimers, itimers, svc, tmlog>>

sys_clock_nanosleep(t) ==
    /\ TmCalls(t, "clock_nanosleep")
    /\ TmSet(t, [pc |-> "look", clock |-> TmRun(t).clock, at |-> TmRun(t).us, ret |-> "none"])
    /\ UNCHANGED <<tmSc, clk, waits, deadlines, ptimers, itimers, svc, tmlog>>

\* The authoritative clock is read, then the signals, before and after the
\* sleep is declared interruptible.
sleep_until_us(t) ==
    /\ \/ /\ TmAt(t, "look")
          /\ IF clock_time_us(tmtask[t].clock) >= tmtask[t].at THEN TmSet(t, TmBack(t, "slept"))
             ELSE IF TmInterrupted(t) THEN TmSet(t, TmBack(t, "eintr"))
             ELSE TmSet(t, [pc |-> "declared", interruptible |-> TRUE])
       \/ /\ TmAt(t, "declared")
          /\ TmSet(t, IF TmInterrupted(t) THEN TmBack(t, "eintr") ELSE [pc |-> "block"])
       \/ /\ TmAt(t, "block") /\ TmSet(t, [pc |-> "register", status |-> "Blocked"])
    /\ UNCHANGED <<tmSc, clk, waits, deadlines, ptimers, itimers, svc, tmlog>>

register_nanosleep_wait(t) ==
    \/ /\ TmAt(t, "register")
       /\ waits' = (t :> [clock |-> tmtask[t].clock, at |-> tmtask[t].at, out |-> FALSE]) @@ waits
       /\ deadlines' = deadlines \cup {[clock |-> tmtask[t].clock, at |-> tmtask[t].at, tid |-> t]}
       /\ TmSet(t, [pc |-> "request"])
       /\ UNCHANGED <<tmSc, clk, ptimers, itimers, svc, tmlog>>
    \/ /\ TmAt(t, "request")
       /\ clk' = request_task_timer_after_us(clk, tmSc.home[t],
                     Max2(0, tmtask[t].at - clock_time_us(tmtask[t].clock)))
       /\ TmSet(t, [pc |-> "asleep"])
       /\ UNCHANGED <<tmSc, waits, deadlines, ptimers, itimers, svc, tmlog>>

\* Whether the timeout won the wait.
timed_out(t) == t \in DOMAIN waits /\ waits[t].out

\* The wait leaves the deadline index with the table entry.
finish_index(t) == {w \in deadlines : w.tid # t}

\* Awake again: signal, timeout, or one more round.
sleep_resumed(t) ==
    /\ TmAt(t, "asleep") /\ tmtask[t].status = "Ready"
    /\ deadlines' = finish_index(t)
    /\ waits' = [u \in DOMAIN waits \ {t} |-> waits[u]]
    /\ TmSet(t, [status |-> "Running"] @@
                IF tmtask[t].interrupted THEN TmBack(t, "eintr")
                ELSE IF timed_out(t) THEN TmBack(t, "slept")
                ELSE [pc |-> "look", interruptible |-> FALSE])
    /\ UNCHANGED <<tmSc, clk, ptimers, itimers, svc, tmlog>>

Due == {w \in deadlines : w.at <= clock_time_us(w.clock)}
claim_due == [t \in DOMAIN waits |->
                 IF \E w \in Due : w.tid = t /\ w.clock = waits[t].clock /\ w.at = waits[t].at
                 THEN [waits[t] EXCEPT !.out = TRUE] ELSE waits[t]]

\* Who is to be woken.
first_claimed == {t \in DOMAIN waits : claim_due[t].out /\ \A u \in DOMAIN waits : claim_due[u].out => t <= u}  \* mutant
claimed == {t \in DOMAIN waits : claim_due[t].out /\ ~waits[t].out}

\* The earliest deadline of every clock, the expired ones left out.
FirstLeft == LET left == deadlines \ Due IN
             {w \in left : \A v \in left : v.clock = w.clock => w.at <= v.at}

\* Expired waits are claimed under the table's lock; the wake-ups follow.
check_nanosleep_timeouts ==
    /\ svc.pc = "sleepers"
    /\ waits' = claim_due
    /\ deadlines' = deadlines \ Due
    /\ svc' = [svc EXCEPT !.pc = "wake", !.next = FirstLeft, !.work = claimed]
    /\ UNCHANGED <<tmSc, clk, ptimers, itimers, tmtask, tmlog>>

wake_expired ==
    /\ svc.pc = "wake"
    /\ \E t \in svc.work : tmtask' = WakeT(tmtask, t) /\ svc' = [svc EXCEPT !.work = @ \ {t}]
    /\ UNCHANGED <<tmSc, clk, waits, deadlines, ptimers, itimers, tmlog>>

\* The earliest deadline left on each clock is requested again.
request_next(c) ==
    LET On(d, k) == IF \E w \in svc.next : w.clock = k
                    THEN LET w == CHOOSE x \in svc.next : x.clock = k IN
                         request_task_timer_after_us(d, "boot", Max2(0, w.at - clock_time_us(k)))
                    ELSE d
    IN  On(On(c, "timeout"), "real")

sleepers_done ==
    /\ svc.pc = "wake" /\ svc.work = {}
    /\ clk' = request_next(clk)
    /\ svc' = [svc EXCEPT !.next = {}, !.work = {t \in TmTasks : itimers[t].active},
                          !.pc = IF \E t \in TmTasks : itimers[t].active THEN "itimers" ELSE "posix"]
    /\ UNCHANGED <<tmSc, waits, deadlines, ptimers, itimers, tmtask, tmlog>>
-----------------------------------------------------------------------------
(* Interval timers: two relaxed words per timer and a set of processes. *)

\* The timer the service hart holds: of the process that has the number, or
\* of the one that had it.
Held == IF svc.inc = tmtask[svc.on].inc THEN itimers[svc.on] ELSE itimers[svc.on].old

\* One process of the snapshot is taken; its deadline, then its interval, are
\* read.  A number that is no longer in TASK_MANAGER leaves the set.
check_active_itimers ==
    /\ svc.pc = "itimers"
    /\ IF svc.work = {} THEN svc' = [svc EXCEPT !.pc = "posix"]
       ELSE \E t \in svc.work :
              LET d == itimers[t].deadline
                  due == d # 0 /\ get_timeout_ms >= d
              IN  svc' = [svc EXCEPT !.work = @ \ {t}, !.on = t, !.inc = tmtask[t].inc, !.seen = d,
                                     !.pc = IF tmtask[t].pc = "reaped" THEN "unlist"
                                            ELSE IF due THEN "interval" ELSE "any"]
    /\ UNCHANGED <<tmSc, clk, waits, deadlines, ptimers, itimers, tmtask, tmlog>>

check_itimer ==
    /\ \/ /\ svc.pc = "interval"
          /\ LET every == Held.interval IN
             svc' = [svc EXCEPT !.pc = "exchange", !.renew = IF every = 0 THEN 0 ELSE get_timeout_ms + every]
          /\ UNCHANGED <<itimers, tmtask>>
       \/ /\ svc.pc = "exchange"
          /\ svc' = [svc EXCEPT !.pc = "any"]
          /\ IF Held.deadline # svc.seen THEN UNCHANGED <<itimers, tmtask>>
             ELSE IF svc.inc = tmtask[svc.on].inc
             THEN /\ itimers' = [itimers EXCEPT ![svc.on].deadline = svc.renew]
                  /\ tmtask' = Receive(tmtask, svc.on)
             ELSE itimers' = [itimers EXCEPT ![svc.on].old.deadline = svc.renew] /\ UNCHANGED tmtask
    /\ UNCHANGED <<tmSc, clk, waits, deadlines, ptimers, tmlog>>

\* A process without an armed timer leaves the set: looked at, then done.
check_real_timer ==
    /\ \/ /\ svc.pc = "any"
          /\ svc' = [svc EXCEPT !.pc = IF Held.deadline = 0 THEN "unlist" ELSE "itimers"]
          /\ UNCHANGED itimers
       \/ /\ svc.pc = "unlist"
          /\ itimers' = [itimers EXCEPT ![svc.on].active = FALSE]
          /\ svc' = [svc EXCEPT !.pc = "itimers"]
    /\ UNCHANGED <<tmSc, clk, waits, deadlines, ptimers, tmtask, tmlog>>

list_timer(t, a) == IF TmRun(t).us # 0 THEN TRUE ELSE a /\ itimers[t].deadline # 0

\* The new value is copied in, and then takes three stores: the deadline,
\* the interval, the set.
sys_setitimer(t) ==
    /\ TmCalls(t, "setitimer")
    /\ TmSet(t, IF TmRun(t).fault THEN TmBack(t, "efault") ELSE [pc |-> "deadline"])
    /\ UNCHANGED <<tmSc, clk, waits, deadlines, ptimers, itimers, svc, tmlog>>

set_itimer_ms(t) ==
    /\ \/ /\ TmAt(t, "deadline")
          /\ itimers' = [itimers EXCEPT ![t].deadline =
                            IF TmRun(t).us = 0 THEN 0 ELSE get_timeout_ms + CeilMs(TmRun(t).us)]
          /\ TmSet(t, [pc |-> "every", periodic |-> FALSE])
       \/ /\ TmAt(t, "every")
          /\ itimers' = [itimers EXCEPT ![t].interval = CeilMs(TmRun(t).every)]
          /\ TmSet(t, [pc |-> "list"])
       \/ /\ TmAt(t, "list")
          /\ itimers' = [itimers EXCEPT ![t].active = list_timer(t, @)]
          /\ TmSet(t, TmBack(t, "ok") @@ [periodic |-> TmRun(t).us # 0 /\ TmRun(t).every # 0])
    /\ UNCHANGED <<tmSc, clk, waits, deadlines, ptimers, svc, tmlog>>
-----------------------------------------------------------------------------
(* POSIX timers: one table for all processes, keyed by timer number. *)

posix_timer(t) == [owner |-> t, inc |-> tmtask[t].inc, clock |-> TmRun(t).clock,
                   notify |-> TmRun(t).notify, deadline |-> 0, interval |-> 0]

\* The number is copied out before the timer is put in the table.
create_copied(t, id) == IF TmRun(t).fault THEN <<>> ELSE id :> posix_timer(t)

sys_timer_create(t) ==
    /\ TmCalls(t, "timer_create")
    /\ LET id == ptimers.next IN
       /\ ptimers' = [next |-> id + 1, tab |-> create_copied(t, id) @@ ptimers.tab]
       /\ TmSet(t, TmBack(t, IF TmRun(t).fault THEN "efault" ELSE "ok") @@
                   [known |-> tmtask[t].known \cup (IF TmRun(t).fault THEN {} ELSE {id})])
    /\ UNCHANGED <<tmSc, clk, waits, deadlines, itimers, svc, tmlog>>

\* The timer of that number, if the calling process owns it.
OwnTimer(t, id) == id \in DOMAIN ptimers.tab /\ ptimers.tab[id].owner = t

sys_timer_delete(t) ==
    /\ TmCalls(t, "timer_delete")
    /\ LET id == TmRun(t).id IN
       IF OwnTimer(t, id)
       THEN /\ ptimers' = [ptimers EXCEPT !.tab = [j \in DOMAIN @ \ {id} |-> @[j]]]
            /\ TmSet(t, TmBack(t, "ok"))
       ELSE TmSet(t, TmBack(t, "einval")) /\ UNCHANGED ptimers
    /\ UNCHANGED <<tmSc, clk, waits, deadlines, itimers, svc, tmlog>>

\* The deadline is worked out from a copy of the timer; then, with the old
\* setting copied out, it is stored in the timer if that is still there.
timer_deadline_ms(t, c) ==
    LET v == CeilMs(TmRun(t).us) IN
    IF v = 0 THEN 0
    ELSE IF TmRun(t).abs THEN Max2(v, clock_time_ms(c))
    ELSE clock_time_ms(c) + v

sys_timer_settime(t) ==
    /\ \/ /\ TmCalls(t, "timer_settime")
          /\ TmSet(t, IF ~OwnTimer(t, TmRun(t).id) THEN TmBack(t, "einval")
                      ELSE IF TmRun(t).fault THEN TmBack(t, "efault")
                      ELSE [pc |-> "commit", ret |-> "none", at |-> timer_deadline_ms(t, ptimers.tab[TmRun(t).id].clock)])
          /\ UNCHANGED ptimers
       \/ /\ TmAt(t, "commit")
          /\ ptimers' = IF ~OwnTimer(t, TmRun(t).id) THEN ptimers
                        ELSE [ptimers EXCEPT !.tab[TmRun(t).id].deadline = tmtask[t].at,
                                             !.tab[TmRun(t).id].interval = CeilMs(TmRun(t).every)]
          /\ TmSet(t, TmBack(t, IF OwnTimer(t, TmRun(t).id) THEN "ok" ELSE "einval"))
    /\ UNCHANGED <<tmSc, clk, waits, deadlines, itimers, svc, tmlog>>

Expired == {id \in DOMAIN ptimers.tab :
              LET p == ptimers.tab[id] IN p.deadline # 0 /\ clock_time_ms(p.clock) >= p.deadline}
renew_deadline(p) == IF p.interval = 0 THEN 0 ELSE clock_time_ms(p.clock) + p.interval

\* Under the table's lock the expired timers are renewed and noted.
check_posix_timers ==
    /\ svc.pc = "posix"
    /\ svc' = [svc EXCEPT !.pc = "deliver", !.work = {ptimers.tab[id] : id \in Expired}]
    /\ ptimers' = [ptimers EXCEPT !.tab = [id \in DOMAIN @ |-> LET p == @[id] IN
                     IF id \in Expired THEN [p EXCEPT !.deadline = renew_deadline(p)] ELSE p]]
    /\ tmlog' = [tmlog EXCEPT !.drift = @ \/ \E id \in Expired :
                     LET p == ptimers.tab[id] IN
                     p.interval # 0 /\ (renew_deadline(p) - p.deadline) % p.interval # 0]
    /\ UNCHANGED <<tmSc, clk, waits, deadlines, itimers, tmtask>>

\* The signal goes to the process that made the timer, if it is still there.
owner_alive(p) == tmtask[p.owner].pc \notin {"zombie", "reaped"} /\ tmtask[p.owner].inc = p.inc

deliver_expired ==
    /\ svc.pc = "deliver"
    /\ \E p \in svc.work :
         /\ svc' = [svc EXCEPT !.work = @ \ {p}]
         /\ IF p.notify /\ owner_alive(p)
            THEN /\ tmtask' = Receive(tmtask, p.owner)
                 /\ tmlog' = [tmlog EXCEPT !.sent = @ \cup {<<p.owner, p.inc, tmtask[p.owner].inc>>}]
            ELSE UNCHANGED <<tmtask, tmlog>>
    /\ UNCHANGED <<tmSc, clk, waits, deadlines, ptimers, itimers>>

\* The scan is over: the hardware timer is set for the requests made since.
check_all_task_timers ==
    /\ svc.pc = "deliver" /\ svc.work = {}
    /\ clk' = rearm_task_timer_request(clk)
    /\ svc' = [svc EXCEPT !.pc = "idle", !.late = FALSE, !.on = 0, !.inc = 0, !.seen = 0, !.renew = 0]
    /\ UNCHANGED <<tmSc, waits, deadlines, ptimers, itimers, tmtask, tmlog>>
-----------------------------------------------------------------------------
(* The other callers. *)

sys_clock_settime(t) ==
    /\ TmCalls(t, "clock_settime")
    /\ clk' = [clk EXCEPT !.off = TmRun(t).us - clk.now]
    /\ TmSet(t, TmBack(t, "ok"))
    /\ UNCHANGED <<tmSc, waits, deadlines, ptimers, itimers, svc, tmlog>>

tm_kill(t) ==
    /\ TmCalls(t, "kill")
    /\ LET f == [tmtask EXCEPT ![t] = TmBack(t, "ok") @@ @] IN
       tmtask' = IF tmtask[TmRun(t).to].pc \in {"zombie", "reaped"} THEN f ELSE Receive(f, TmRun(t).to)
    /\ UNCHANGED <<tmSc, clk, waits, deadlines, ptimers, itimers, svc, tmlog>>

remove_posix_timers_for_owner(t) ==
    [id \in {j \in DOMAIN ptimers.tab : ptimers.tab[j].owner # t} |-> ptimers.tab[id]]

tm_exit(t) ==
    /\ TmCalls(t, "exit")
    /\ ptimers' = [ptimers EXCEPT !.tab = remove_posix_timers_for_owner(t)]
    /\ TmSet(t, [pc |-> "zombie"])
    /\ UNCHANGED <<tmSc, clk, waits, deadlines, itimers, svc, tmlog>>

\* The end of exit: the process leaves TASK_MANAGER.
tm_leave(t) ==
    /\ tmtask[t].pc = "zombie"
    /\ TmSet(t, [pc |-> "reaped"])
    /\ UNCHANGED <<tmSc, clk, waits, deadlines, ptimers, itimers, svc, tmlog>>

\* Waited for, its number is given to a new process, which has timers of its own.
tm_reborn(t) ==
    /\ tmtask[t].pc = "reaped"
    /\ TmSet(t, TmBack(t, "none") @@ [inc |-> tmtask[t].inc + 1, known |-> {}, periodic |-> FALSE])
    /\ itimers' = [itimers EXCEPT ![t] = NoTimer @@ [@ EXCEPT !.old = [deadline |-> itimers[t].deadline, interval |-> itimers[t].interval]]]
    /\ UNCHANGED <<tmSc, clk, waits, deadlines, ptimers, svc, tmlog>>

TmNext ==
    \/ tm_tick
    \/ acknowledge_ipi
    \/ timer_trap
    \/ await_task_timer_deadline
    \/ check_nanosleep_timeouts
    \/ wake_expired
    \/ sleepers_done
    \/ check_active_itimers
    \/ check_itimer
    \/ check_real_timer
    \/ check_posix_timers
    \/ deliver_expired
    \/ check_all_task_timers
    \/ \E t \in TmTasks : sys_nanosleep(t)
    \/ \E t \in TmTasks : sys_clock_nanosleep(t)
    \/ \E t \in TmTasks : sleep_until_us(t)
    \/ \E t \in TmTasks : register_nanosleep_wait(t)
    \/ \E t \in TmTasks : sleep_resumed(t)
    \/ \E t \in TmTasks : sys_setitimer(t)
    \/ \E t \in TmTasks : set_itimer_ms(t)
    \/ \E t \in TmTasks : sys_timer_create(t)
    \/ \E t \in TmTasks : sys_timer_delete(t)
    \/ \E t \in TmTasks : sys_timer_settime(t)
    \/ \E t \in TmTasks : sys_clock_settime(t)
    \/ \E t \in TmTasks : tm_kill(t)
    \/ \E t \in TmTasks : tm_exit(t)
    \/ \E t \in TmTasks : tm_leave(t)
    \/ \E t \in TmTasks : tm_reborn(t)

TmSpec == TmInit /\ [][TmNext]_tmVars
-----------------------------------------------------------------------------
(* Properties. *)

\* Types; a deadline is indexed only for a task that has a wait, and under
\* the clock and the time of that wait.
TmTypeOK ==
    /\ clk.now \in tmSc.now..tmSc.end /\ clk.off \in Int /\ clk.ipi \in BOOLEAN
    /\ {clk.req, clk.prog, clk.hw} \subseteq 0..MAX
    /\ DOMAIN waits \subseteq TmTasks
    /\ \A w \in deadlines : w.tid \in DOMAIN waits /\ waits[w.tid] = [clock |-> w.clock, at |-> w.at, out |-> FALSE]
    /\ svc.pc \in {"idle", "await", "sleepers", "wake", "itimers", "interval", "exchange",
                   "any", "unlist", "posix", "deliver"}
    /\ \A t \in TmTasks :
         /\ tmtask[t].pc \in {"user", "look", "declared", "block", "register", "request",
                              "asleep", "deadline", "every", "list", "commit", "zombie", "reaped"}
         /\ tmtask[t].status \in {"Running", "Blocked", "Ready"}

\* nanosleep() never reports success before its time has passed, whatever
\* wake-up reaches the task: a late one meant for its last sleep included
\* (finish() tells a timeout from any other wake-up).
TmSleepNotEarly ==
    \A t \in TmTasks : tmtask[t].ret = "slept" /\ tmtask[t].clock = "timeout" => clk.now >= tmtask[t].at

\* A sleeping task is always going to be woken: its deadline is in the index
\* the service hart scans, or that hart has claimed it and has the wake-up
\* still to do.
TmSleeperReachable ==
    \A t \in TmTasks : tmtask[t].pc = "asleep" /\ tmtask[t].status = "Blocked" =>
        \/ [clock |-> tmtask[t].clock, at |-> tmtask[t].at, tid |-> t] \in deadlines
        \/ svc.pc = "wake" /\ t \in svc.work

\* A published deadline is never forgotten: with no interrupt on the way, no
\* scan going on and no tick lost to kernel mode, the service hart's timer
\* is set no later than the earliest deadline anybody sleeps for.
TmArmed ==
    svc.pc = "idle" /\ ~clk.ipi /\ ~svc.late =>
        \A w \in deadlines : w.clock = "timeout" /\ tmtask[w.tid].pc = "asleep" =>
            clk.hw <= Max2(w.at, clk.now + 1)

\* The signal of a POSIX timer reaches only the process that made the timer,
\* although the table knows processes by numbers that are used again.
TmTimerOwner == \A s \in tmlog.sent : s[2] = s[3]

\* Every timer in the table belongs to a process that is alive and was told
\* the timer's number.
TmTimerKnown ==
    \A id \in DOMAIN ptimers.tab : LET p == ptimers.tab[id] IN
        tmtask[p.owner].inc = p.inc /\ tmtask[p.owner].pc \notin {"zombie", "reaped"} /\ id \in tmtask[p.owner].known

\* A signal ends a sleep ("关闭丢失唤醒窗口", syscall/time.rs:989): nobody is
\* asleep beside a signal that has come.
TmSignalEndsSleep ==
    \A t \in TmTasks : tmtask[t].pc = "asleep" /\ tmtask[t].status = "Blocked" => ~ tmtask[t].sig

\* A periodic POSIX timer keeps its phase, however late it is looked at
\* ("防止处理延迟造成永久漂移", syscall/time.rs:828).
TmNoDrift == ~ tmlog.drift

\* A periodic interval timer goes on until it is set again: it stays armed
\* and its process stays in the set the service hart looks through.
TmPeriodicRuns ==
    \A t \in TmTasks : tmtask[t].periodic /\ tmtask[t].pc \notin {"zombie", "reaped"} => itimers[t].active /\ itimers[t].deadline # 0

-----------------------------------------------------------------------------
(***************************************************************************)
(* CPU time of threads and of their process (ThreadCpuClock,               *)
(* ProcessCpuClock and CpuClockHandle of task/task.rs, driven by the idle  *)
(* loop of task/processor.rs and by the trap entry and exit).              *)
(*                                                                         *)
(* A thread's clock is locked before its process's, and the time is        *)
(* sampled before either; the process clock has one slot per hart.  Ticks  *)
(* are usize: differences wrap and sums saturate.                          *)
(***************************************************************************)

CONSTANTS CkThreads,   \* threads of the process
          CkHarts,
          CkHorizon,   \* where the clock stops
          CkRuns,      \* how often each thread is put on a hart
          USIZE        \* 2^64

VARIABLES cknow,    \* get_time()
          thclk,    \* thread clocks
          prclk,    \* the process clock
          ckth,     \* what each thread is doing
          cktrue    \* the ticks each thread has really run, by mode

ckVars == <<cknow, thclk, prclk, ckth, cktrue>>

STOPPED == -1
wrapping_sub(a, b) == (a - b) % USIZE
saturating_add(a, b) == IF a + b >= USIZE THEN USIZE - 1 ELSE a + b
Credit(acc, mode, elapsed) == [acc EXCEPT ![mode] = saturating_add(@, elapsed)]
NoTicks == [user |-> 0, system |-> 0]

CkInit ==
    /\ cknow = 0
    /\ thclk = [t \in CkThreads |-> [acc |-> NoTicks, since |-> STOPPED, mode |-> "user"]]
    /\ prclk = [acc |-> NoTicks, since |-> [h \in CkHarts |-> STOPPED], mode |-> [h \in CkHarts |-> "user"]]
    /\ ckth = [t \in CkThreads |-> [pc |-> "off", hart |-> 0, at |-> 0, in |-> "user", left |-> CkRuns[t]]]
    /\ cktrue = [t \in CkThreads |-> NoTicks]

CkSet(t, r) == ckth' = [ckth EXCEPT ![t] = r @@ @]
\* On a hart, from the sample that starts the run to the one that ends it.
OnHart(t) == ckth[t].pc \notin {"off", "ending", "ended"}

ck_tick ==
    /\ cknow < CkHorizon /\ cknow' = cknow + 1
    /\ cktrue' = [t \in CkThreads |-> IF OnHart(t) THEN [cktrue[t] EXCEPT ![ckth[t].in] = @ + 1] ELSE cktrue[t]]
    /\ UNCHANGED <<thclk, prclk, ckth>>

\* The idle loop has claimed a thread for a hart and samples the clock.
running_started(t, h) ==
    /\ ckth[t].pc = "off" /\ ckth[t].left > 0 /\ \A u \in CkThreads : ckth[u].pc # "off" => ckth[u].hart # h
    /\ CkSet(t, [pc |-> "beginning", hart |-> h, at |-> cknow, left |-> ckth[t].left - 1])
    /\ UNCHANGED <<cknow, thclk, prclk, cktrue>>

begin_cpu_run(t) ==
    /\ LET h == ckth[t].hart IN
       \/ /\ ckth[t].pc = "beginning"
          /\ thclk' = [thclk EXCEPT ![t].since = ckth[t].at, ![t].mode = ckth[t].in]
          /\ CkSet(t, [pc |-> "begun"]) /\ UNCHANGED prclk
       \/ /\ ckth[t].pc = "begun"
          /\ prclk' = [prclk EXCEPT !.since[h] = ckth[t].at, !.mode[h] = ckth[t].in]
          /\ CkSet(t, [pc |-> "runs"]) /\ UNCHANGED thclk
    /\ UNCHANGED <<cknow, cktrue>>

running_finished(t) ==
    /\ ckth[t].pc = "runs" /\ CkSet(t, [pc |-> "ending", at |-> cknow])
    /\ UNCHANGED <<cknow, thclk, prclk, cktrue>>

\* The elapsed time is credited and the run is over.
thread_end_run(c, now) ==
    [c EXCEPT !.acc = Credit(@, c.mode, wrapping_sub(now, c.since)), !.since = STOPPED]
process_end_run(c, h, now) ==
    [c EXCEPT !.acc = Credit(@, c.mode[h], wrapping_sub(now, c.since[h])), !.since[h] = STOPPED]

end_cpu_run(t) ==
    /\ \/ /\ ckth[t].pc = "ending"
          /\ thclk' = [thclk EXCEPT ![t] = thread_end_run(@, ckth[t].at)]
          /\ CkSet(t, [pc |-> "ended"]) /\ UNCHANGED prclk
       \/ /\ ckth[t].pc = "ended"
          /\ prclk' = process_end_run(prclk, ckth[t].hart, ckth[t].at)
          /\ CkSet(t, [pc |-> "off"]) /\ UNCHANGED thclk
    /\ UNCHANGED <<cknow, cktrue>>

\* A mode change closes one interval and opens the next, unless nothing changes.
thread_transition(c, now, mode) ==
    IF c.since = STOPPED \/ c.mode = mode THEN c
    ELSE [c EXCEPT !.acc = Credit(@, c.mode, wrapping_sub(now, c.since)), !.since = now, !.mode = mode]
process_transition(c, h, now, mode) ==
    IF c.since[h] = STOPPED \/ c.mode[h] = mode THEN c
    ELSE [c EXCEPT !.acc = Credit(@, c.mode[h], wrapping_sub(now, c.since[h])),
                   !.since[h] = now, !.mode[h] = mode]

\* Trap entry: cpu_in_user is cleared and the time sampled; then the clocks.
enter_kernel_accounting(t) ==
    /\ \/ /\ ckth[t].pc = "runs" /\ ckth[t].in = "user"
          /\ CkSet(t, [pc |-> "enter", in |-> "system", at |-> cknow]) /\ UNCHANGED <<thclk, prclk>>
       \/ /\ ckth[t].pc = "enter"
          /\ thclk' = [thclk EXCEPT ![t] = thread_transition(@, ckth[t].at, "system")]
          /\ CkSet(t, [pc |-> "entered"]) /\ UNCHANGED prclk
       \/ /\ ckth[t].pc = "entered"
          /\ prclk' = process_transition(prclk, ckth[t].hart, ckth[t].at, "system")
          /\ CkSet(t, [pc |-> "runs"]) /\ UNCHANGED thclk
    /\ UNCHANGED <<cknow, cktrue>>

\* Trap exit: cpu_in_user is set last.
leave_kernel_accounting(t) ==
    /\ \/ /\ ckth[t].pc = "runs" /\ ckth[t].in = "system"
          /\ CkSet(t, [pc |-> "leave", in |-> "user", at |-> cknow]) /\ UNCHANGED <<thclk, prclk>>
       \/ /\ ckth[t].pc = "leave"
          /\ thclk' = [thclk EXCEPT ![t] = thread_transition(@, ckth[t].at, "user")]
          /\ CkSet(t, [pc |-> "left"]) /\ UNCHANGED prclk
       \/ /\ ckth[t].pc = "left"
          /\ prclk' = process_transition(prclk, ckth[t].hart, ckth[t].at, "user")
          /\ CkSet(t, [pc |-> "runs"]) /\ UNCHANGED thclk
    /\ UNCHANGED <<cknow, cktrue>>

thread_ticks_at(c, now) ==
    IF c.since = STOPPED THEN c.acc ELSE Credit(c.acc, c.mode, wrapping_sub(now, c.since))

\* Both modes of the process clock: what is accumulated and what still runs.
process_ticks_at(now) ==
    LET Running(m) == {h \in CkHarts : prclk.since[h] # STOPPED /\ prclk.mode[h] = m}
        Sum(m) == MapThenSumSet(LAMBDA h : wrapping_sub(now, prclk.since[h]), Running(m)) IN
    [m \in {"user", "system"} |-> saturating_add(prclk.acc[m], Sum(m))]

CkNext ==
    \/ ck_tick
    \/ \E t \in CkThreads : \E h \in CkHarts : running_started(t, h)
    \/ \E t \in CkThreads : begin_cpu_run(t)
    \/ \E t \in CkThreads : running_finished(t)
    \/ \E t \in CkThreads : end_cpu_run(t)
    \/ \E t \in CkThreads : enter_kernel_accounting(t)
    \/ \E t \in CkThreads : leave_kernel_accounting(t)

CkSpec == CkInit /\ [][CkNext]_ckVars
-----------------------------------------------------------------------------
(* Properties. *)

\* Ticks are usize, and a thread's clock runs only while the thread is on a
\* hart: begin_run() never meets a run that has not ended.
CkTypeOK ==
    /\ \A t \in CkThreads : thclk[t].acc \in [{"user", "system"} -> 0..(USIZE - 1)]
    /\ \A t \in CkThreads : ckth[t].pc \in {"off", "beginning"} => thclk[t].since = STOPPED
    /\ \A t \in CkThreads : ckth[t].pc \in {"beginning", "begun"} => prclk.since[ckth[t].hart] = STOPPED

\* No thread is between its two locks.
Settled == \A t \in CkThreads : ckth[t].pc \in {"off", "runs"}

\* begin_run(), end_run() and transition(): whenever both clocks of every
\* thread are up to date, the process clock is the sum of its threads' clocks
\* mode by mode, and both are the time the threads have really run.
CkConserved ==
    Settled => \A m \in {"user", "system"} :
        /\ \A t \in CkThreads : thread_ticks_at(thclk[t], cknow)[m] = cktrue[t][m]
        /\ process_ticks_at(cknow)[m] = MapThenSumSet(LAMBDA t : cktrue[t][m], CkThreads)

=============================================================================
