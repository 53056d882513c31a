------------------------------ MODULE Handoff ------------------------------
(***************************************************************************)
(* The scheduler core of RespOS: the per-CPU scheduling loop run_tasks()   *)
(* (task/processor.rs), the operations of the global scheduler             *)
(* (task/scheduler.rs) and the parts of the task control block they share  *)
(* (status, cpu_owner and terminate_requested, task/task.rs).              *)
(*                                                                         *)
(* A CPU is always somewhere in the loop of its idle context ("publish" to *)
(* "dispatch") or inside the kernel code of the task it is running.  Every *)
(* lock section and every atomic access is one step, so the steps of two   *)
(* CPUs interleave exactly where the code lets them.  The scheduler lock is *)
(* a variable because fetch_task() holds it across two accesses that a     *)
(* termination request, which does not take that lock, can separate.       *)
(***************************************************************************)
EXTENDS Integers, Sequences

CONSTANTS
    CPUs,      \* hart numbers
    Tasks,     \* task control blocks
    InitProc,  \* the first task, queued before the CPUs start
    Affinity,  \* cpu_affinity_mask() of every task
    Ops,       \* kinds of operation that running tasks perform
    NoCpu,     \* NO_CPU_OWNER
    NoTask     \* None

ASSUME CpuAssumption == CPUs \subseteq Nat /\ NoCpu \notin CPUs
ASSUME TaskAssumption ==
    /\ InitProc \in Tasks
    /\ NoTask \notin Tasks
    /\ Affinity \in [Tasks -> SUBSET CPUs]

VARIABLES
    status,     \* task_status
    owner,      \* cpu_owner: the CPU that may touch the saved context
    terminate,  \* terminate_requested
    resume,     \* where the saved context of a task continues
    ready,      \* the ready queue of one priority class, oldest first
    blocked,    \* blocked_tasks
    lock,       \* holder of the scheduler lock between two steps
    pc,         \* what a CPU does next
    cur,        \* Processor.current
    hand,       \* Processor.handoff, until its owner is released
    nxt,        \* next_task of run_tasks(): candidate, then claimed
    tgt,        \* the task an operation on another task is about
    ret,        \* where a CPU continues after an IPI kick
    idle,       \* IDLE_HART_MASK
    ipi         \* harts with a software interrupt pending

taskVars == <<status, owner, terminate, resume>>
queueVars == <<ready, blocked>>
cpuVars == <<cur, hand, nxt>>
vars == <<taskVars, queueVars, lock, pc, cpuVars, tgt, ret, idle, ipi>>

Status == {"Ready", "Running", "Blocked", "Stopped", "Exited"}

\* Where a task continues when its saved context is restored.
Resume == {"unborn", "task", "switch", "exit"}

\* The steps of the idle context, in the order of run_tasks(), then the
\* steps of kernel code that runs on behalf of the current task.
IdlePC == {"publish", "set_ready", "add", "release", "fetch", "claim",
           "enter_idle", "arm", "wfi", "tick", "leave_idle", "dispatch", "kick"}
TaskPC == {"task", "recheck", "unblock", "switch", "stopped", "exit",
           "add_new", "requeue", "cont", "cont_add", "exited", "remove",
           "unreachable"}

Queued == {ready[i] : i \in DOMAIN ready}

-----------------------------------------------------------------------------
(* Scheduler: the ready queue and the index of blocked tasks.              *)

\* Scheduler::remove_from_ready_queue.  A task is queued at most once.
RemoveTid(q, t) ==
    IF \E i \in 1..Len(q) : q[i] = t
    THEN LET k == CHOOSE i \in 1..Len(q) : q[i] = t
         IN  [i \in 1..(Len(q) - 1) |-> IF i < k THEN q[i] ELSE q[i + 1]]
    ELSE q

\* Mutant of Add: the queue is last in, first out.
AddInFront(q, t) == <<t>> \o RemoveTid(q, t)

\* Scheduler::add: an old entry of the same task is replaced.
Add(q, t) == Append(RemoveTid(q, t), t)

can_be_claimed_on_cpu(t, c) ==
    c \in Affinity[t] /\ ~terminate[t] /\ owner[t] = NoCpu

\* The positions fetch_for_cpu() may return; it takes the first of them.
Claimable(c) == {i \in 1..Len(ready) : can_be_claimed_on_cpu(ready[i], c)}

Goto(c, l) == pc' = [pc EXCEPT ![c] = l]

\* Continue with kick_one_idle_hart_in(affinity of t), then at l.
KickFor(c, t, l) ==
    /\ Goto(c, "kick")
    /\ tgt' = [tgt EXCEPT ![c] = t]
    /\ ret' = [ret EXCEPT ![c] = l]

\* Mutant: an empty mask is not caught, its trailing_zeros() is 64.
kick_without_test(c) ==
    /\ pc[c] = "kick"
    /\ Goto(c, ret[c])
    /\ LET mask == idle \cap Affinity[tgt[c]]
       IN  \/ mask = {} /\ ipi' = ipi \cup {64}
           \/ \E h \in mask : /\ \A k \in mask : h <= k
                              /\ ipi' = ipi \cup {h}
    /\ tgt' = [tgt EXCEPT ![c] = NoTask]
    /\ ret' = [ret EXCEPT ![c] = "fetch"]
    /\ UNCHANGED <<taskVars, queueVars, lock, cpuVars, idle>>

\* The IPI goes to the lowest idle hart in the mask of the task.
kick_one_idle_hart_in(c) ==
    /\ pc[c] = "kick"
    /\ Goto(c, ret[c])
    /\ LET mask == idle \cap Affinity[tgt[c]]
       IN  \/ mask = {} /\ ipi' = ipi
           \/ \E h \in mask : /\ \A k \in mask : h <= k
                              /\ ipi' = ipi \cup {h}
    /\ tgt' = [tgt EXCEPT ![c] = NoTask]
    /\ ret' = [ret EXCEPT ![c] = "fetch"]
    /\ UNCHANGED <<taskVars, queueVars, lock, cpuVars, idle>>

-----------------------------------------------------------------------------
(* run_tasks(): the scheduling loop of a CPU, on its idle stack.           *)

\* publish_saved_handoff(): take the handoff and decide whether the task
\* that was switched out goes back to the ready queue.
take_handoff(c) ==
    /\ pc[c] = "publish"
    /\ Goto(c, IF hand[c] = NoTask THEN "fetch"
               ELSE IF status[hand[c]] = "Running" /\ ~terminate[hand[c]]
               THEN "set_ready" ELSE "release")
    /\ UNCHANGED <<taskVars, queueVars, lock, cpuVars, tgt, ret, idle, ipi>>

publish_set_ready(c) ==
    /\ pc[c] = "set_ready"
    /\ status' = [status EXCEPT ![hand[c]] = "Ready"]
    /\ Goto(c, "add")
    /\ UNCHANGED <<owner, terminate, resume, queueVars, lock, cpuVars, tgt,
                   ret, idle, ipi>>

\* The assertion that the task is still Ready stops the kernel if it fails.
add_task_before_owner_release(c) ==
    /\ pc[c] = "add"
    /\ status[hand[c]] = "Ready"
    /\ lock = NoCpu
    /\ ready' = Add(ready, hand[c])
    /\ Goto(c, "release")
    /\ UNCHANGED <<taskVars, blocked, lock, cpuVars, tgt, ret, idle, ipi>>

release_cpu_owner(c) ==
    /\ pc[c] = "release"
    /\ owner' = [owner EXCEPT ![hand[c]] = NoCpu]
    /\ hand' = [hand EXCEPT ![c] = NoTask]
    /\ KickFor(c, hand[c], "fetch")
    /\ UNCHANGED <<status, terminate, resume, queueVars, lock, cur, nxt, idle,
                   ipi>>

\* fetch_task(), first half: take the lock and the first claimable entry.
\* Without one the CPU publishes that it is idle and looks once more.
fetch_task(c) ==
    /\ pc[c] = "fetch"
    /\ lock = NoCpu
    /\ \/ /\ Claimable(c) = {}
          /\ Goto(c, IF c \in idle THEN "arm" ELSE "enter_idle")
          /\ UNCHANGED <<ready, lock, nxt>>
       \/ \E i \in Claimable(c) :
             /\ \A j \in Claimable(c) : i <= j
             /\ nxt' = [nxt EXCEPT ![c] = ready[i]]
             /\ ready' = RemoveTid(ready, ready[i])
             /\ lock' = c
             /\ Goto(c, "claim")
    /\ UNCHANGED <<taskVars, blocked, cur, hand, tgt, ret, idle, ipi>>

\* Mutant: the termination request is not looked at again under the claim.
try_claim_ignoring_termination(c) ==
    /\ pc[c] = "claim"
    /\ lock' = NoCpu
    /\ status' = [status EXCEPT ![nxt[c]] = "Running"]
    /\ owner' = [owner EXCEPT ![nxt[c]] = c]
    /\ Goto(c, IF c \in idle THEN "leave_idle" ELSE "dispatch")
    /\ UNCHANGED <<ready, nxt, terminate, resume, blocked, cur, hand, tgt, ret,
                   idle, ipi>>

\* fetch_task(), second half: claim the context or put the entry back.
try_claim_running_on_cpu(c) ==
    /\ pc[c] = "claim"
    /\ lock' = NoCpu
    /\ LET t == nxt[c]
       IN  IF status[t] = "Ready" /\ ~terminate[t] /\ owner[t] = NoCpu
           THEN /\ status' = [status EXCEPT ![t] = "Running"]
                /\ owner' = [owner EXCEPT ![t] = c]
                /\ Goto(c, IF c \in idle THEN "leave_idle" ELSE "dispatch")
                /\ UNCHANGED <<ready, nxt>>
           ELSE /\ ready' = Add(ready, t)
                /\ nxt' = [nxt EXCEPT ![c] = NoTask]
                /\ Goto(c, IF c \in idle THEN "arm" ELSE "enter_idle")
                /\ UNCHANGED <<status, owner>>
    /\ UNCHANGED <<terminate, resume, blocked, cur, hand, tgt, ret, idle, ipi>>

enter_idle(c) ==
    /\ pc[c] = "enter_idle"
    /\ idle' = idle \cup {c}
    /\ Goto(c, "fetch")
    /\ UNCHANGED <<taskVars, queueVars, lock, cpuVars, tgt, ret, ipi>>

\* Interrupts are on and the CPU is about to execute WFI: an interrupt that
\* is pending now is taken and acknowledged first.
ipi_before_wfi(c) ==
    /\ pc[c] = "arm"
    /\ c \in ipi
    /\ ipi' = ipi \ {c}
    /\ UNCHANGED <<taskVars, queueVars, lock, pc, cpuVars, tgt, ret, idle>>

wait_for_interrupt(c) ==
    /\ pc[c] = "arm"
    /\ c \notin ipi
    /\ Goto(c, "wfi")
    /\ UNCHANGED <<taskVars, queueVars, lock, cpuVars, tgt, ret, idle, ipi>>

\* An IPI ends WFI; its handler only acknowledges it.
ipi_wakes(c) ==
    /\ pc[c] = "wfi"
    /\ c \in ipi
    /\ ipi' = ipi \ {c}
    /\ Goto(c, "leave_idle")
    /\ UNCHANGED <<taskVars, queueVars, lock, cpuVars, tgt, ret, idle>>

\* The periodic timer ends WFI; its handler may wake tasks that timed out.
timer_wakes(c) ==
    /\ pc[c] = "wfi"
    /\ Goto(c, "tick")
    /\ UNCHANGED <<taskVars, queueVars, lock, cpuVars, tgt, ret, idle, ipi>>

timer_returns(c) ==
    /\ pc[c] = "tick"
    /\ Goto(c, "leave_idle")
    /\ UNCHANGED <<taskVars, queueVars, lock, cpuVars, tgt, ret, idle, ipi>>

leave_idle(c) ==
    /\ pc[c] = "leave_idle"
    /\ idle' = idle \ {c}
    /\ Goto(c, IF nxt[c] = NoTask THEN "publish" ELSE "dispatch")
    /\ UNCHANGED <<taskVars, queueVars, lock, cpuVars, tgt, ret, ipi>>

\* Processor::switch_to and __switch: the context of the task continues.
switch_to(c) ==
    /\ pc[c] = "dispatch"
    /\ cur' = [cur EXCEPT ![c] = nxt[c]]
    /\ nxt' = [nxt EXCEPT ![c] = NoTask]
    /\ Goto(c, CASE resume[nxt[c]] = "switch" -> "switch"
                 [] resume[nxt[c]] = "exit" -> "unreachable"
                 [] OTHER -> "task")
    /\ resume' = [resume EXCEPT ![nxt[c]] = "task"]
    /\ UNCHANGED <<status, owner, terminate, queueVars, lock, hand, tgt, ret,
                   idle, ipi>>

-----------------------------------------------------------------------------
(* What the current task of a CPU does.                                    *)

\* Mutant: the owner is released before the context is saved.
HandoffReleasing(c, r) ==
    /\ hand' = [hand EXCEPT ![c] = cur[c]]
    /\ cur' = [cur EXCEPT ![c] = NoTask]
    /\ owner' = [owner EXCEPT ![cur[c]] = NoCpu]
    /\ resume' = [resume EXCEPT ![cur[c]] = r]
    /\ Goto(c, "publish")
    /\ UNCHANGED <<status, terminate, queueVars, lock, nxt, tgt, ret, idle, ipi>>

\* handoff_current_to_idle(): the CPU continues in its idle context.
HandoffTo(c, r) ==
    /\ hand' = [hand EXCEPT ![c] = cur[c]]
    /\ cur' = [cur EXCEPT ![c] = NoTask]
    /\ resume' = [resume EXCEPT ![cur[c]] = r]
    /\ Goto(c, "publish")
    /\ UNCHANGED <<status, owner, terminate, queueVars, lock, nxt, tgt, ret,
                   idle, ipi>>

\* yield_current_task(), and preempt_current_task() from the timer trap.
yield_current_task(c) == pc[c] = "task" /\ HandoffTo(c, "task")

\* An IPI that reaches a CPU that is running a task is acknowledged.
acknowledge_ipi(c) ==
    /\ pc[c] = "task"
    /\ c \in ipi
    /\ ipi' = ipi \ {c}
    /\ UNCHANGED <<taskVars, queueVars, lock, pc, cpuVars, tgt, ret, idle>>

\* Under the scheduler lock; the wait primitive re-checks its condition next.
prepare_current_task_blocked(c) ==
    /\ pc[c] = "task"
    /\ lock = NoCpu
    /\ status' = [status EXCEPT ![cur[c]] = "Blocked"]
    /\ blocked' = blocked \cup {cur[c]}
    /\ Goto(c, "recheck")
    /\ UNCHANGED <<owner, terminate, resume, ready, lock, cpuVars, tgt, ret,
                   idle, ipi>>

\* The re-check finds nothing: the caller goes to sleep.
recheck_sleeps(c) ==
    /\ pc[c] = "recheck"
    /\ Goto(c, "switch")
    /\ UNCHANGED <<taskVars, queueVars, lock, cpuVars, tgt, ret, idle, ipi>>

\* The event is there already: remove_task(self), then set_running().
recheck_cancels(c) ==
    /\ pc[c] = "recheck"
    /\ lock = NoCpu
    /\ ready' = RemoveTid(ready, cur[c])
    /\ blocked' = blocked \ {cur[c]}
    /\ Goto(c, "unblock")
    /\ UNCHANGED <<taskVars, lock, cpuVars, tgt, ret, idle, ipi>>

cancel_set_running(c) ==
    /\ pc[c] = "unblock"
    /\ status' = [status EXCEPT ![cur[c]] = "Running"]
    /\ Goto(c, "task")
    /\ UNCHANGED <<owner, terminate, resume, queueVars, lock, cpuVars, tgt,
                   ret, idle, ipi>>

\* The loop of switch_to_next_task().
switch_to_next_task(c) ==
    /\ pc[c] = "switch"
    /\ \/ /\ status[cur[c]] = "Running"
          /\ Goto(c, "task")
          /\ UNCHANGED <<taskVars, queueVars, lock, cpuVars, tgt, ret, idle, ipi>>
       \/ status[cur[c]] # "Running" /\ HandoffTo(c, "switch")

\* The default action of a stop signal publishes Stopped, then switches away.
set_stopped(c) ==
    /\ "stop" \in Ops
    /\ pc[c] = "task"
    /\ status' = [status EXCEPT ![cur[c]] = "Stopped"]
    /\ Goto(c, "stopped")
    /\ UNCHANGED <<owner, terminate, resume, queueVars, lock, cpuVars, tgt,
                   ret, idle, ipi>>

stop_current_and_run_next(c) == pc[c] = "stopped" /\ HandoffTo(c, "task")

\* The end of task_exit(), then switch_to_next_task_after_exit().
set_exited(c) ==
    /\ "exit" \in Ops
    /\ pc[c] = "task"
    /\ status' = [status EXCEPT ![cur[c]] = "Exited"]
    /\ Goto(c, "exit")
    /\ UNCHANGED <<owner, terminate, resume, queueVars, lock, cpuVars, tgt,
                   ret, idle, ipi>>

switch_to_next_task_after_exit(c) == pc[c] = "exit" /\ HandoffTo(c, "exit")

-----------------------------------------------------------------------------
(* What the kernel code on a CPU does to another task u.                   *)

\* clone_(): the new thread is visible in its thread group from here on.
clone_(c, u) ==
    /\ pc[c] = "task"
    /\ resume[u] = "unborn"
    /\ resume' = [resume EXCEPT ![u] = "task"]
    /\ tgt' = [tgt EXCEPT ![c] = u]
    /\ Goto(c, "add_new")
    /\ UNCHANGED <<status, owner, terminate, queueVars, lock, cpuVars, ret,
                   idle, ipi>>

\* add_task(), which asserts that the new task is Ready.
add_task(c) ==
    /\ pc[c] = "add_new"
    /\ status[tgt[c]] = "Ready"
    /\ lock = NoCpu
    /\ ready' = Add(ready, tgt[c])
    /\ KickFor(c, tgt[c], "task")
    /\ UNCHANGED <<taskVars, blocked, lock, cpuVars, idle, ipi>>

\* Mutant: a task whose context is still owned is left to its CPU to queue.
wakeup_task_unless_owned(c, u) ==
    /\ pc[c] \in {"task", "tick"}
    /\ lock = NoCpu
    /\ u \in blocked
    /\ blocked' = blocked \ {u}
    /\ status' = [status EXCEPT ![u] = "Ready"]
    /\ ready' = IF owner[u] = NoCpu THEN Add(ready, u) ELSE ready
    /\ KickFor(c, u, pc[c])
    /\ UNCHANGED <<owner, terminate, resume, lock, cpuVars, idle, ipi>>

\* wakeup_task(): from a task, or from the timer interrupt of an idle CPU.
wakeup_task(c, u) ==
    /\ pc[c] \in {"task", "tick"}
    /\ lock = NoCpu
    /\ u \in blocked
    /\ blocked' = blocked \ {u}
    /\ status' = [status EXCEPT ![u] = "Ready"]
    /\ ready' = Add(ready, u)
    /\ KickFor(c, u, pc[c])
    /\ UNCHANGED <<owner, terminate, resume, lock, cpuVars, idle, ipi>>

\* requeue_ready_task(): is_ready() is read before the lock is taken.
requeue_ready_task(c, u) ==
    /\ "requeue" \in Ops
    /\ pc[c] = "task" /\ u # cur[c]
    /\ resume[u] # "unborn" /\ status[u] = "Ready"
    /\ tgt' = [tgt EXCEPT ![c] = u]
    /\ Goto(c, "requeue")
    /\ UNCHANGED <<taskVars, queueVars, lock, cpuVars, ret, idle, ipi>>

requeue_locked(c) ==
    /\ pc[c] = "requeue"
    /\ lock = NoCpu
    /\ ready' = Add(ready, tgt[c])
    /\ blocked' = blocked \ {tgt[c]}
    /\ KickFor(c, tgt[c], "task")
    /\ UNCHANGED <<taskVars, lock, cpuVars, idle, ipi>>

\* wakeup_stopped_task(): the test, set_ready() and the queueing are three
\* separate accesses.
wakeup_stopped_task(c, u) ==
    /\ "stop" \in Ops
    /\ pc[c] = "task" /\ u # cur[c]
    /\ status[u] = "Stopped"
    /\ tgt' = [tgt EXCEPT ![c] = u]
    /\ Goto(c, "cont")
    /\ UNCHANGED <<taskVars, queueVars, lock, cpuVars, ret, idle, ipi>>

cont_set_ready(c) ==
    /\ pc[c] = "cont"
    /\ status' = [status EXCEPT ![tgt[c]] = "Ready"]
    /\ Goto(c, "cont_add")
    /\ UNCHANGED <<owner, terminate, resume, queueVars, lock, cpuVars, tgt,
                   ret, idle, ipi>>

cont_add(c) ==
    /\ pc[c] = "cont_add"
    /\ lock = NoCpu
    /\ ready' = Add(ready, tgt[c])
    /\ KickFor(c, tgt[c], "task")
    /\ UNCHANGED <<taskVars, blocked, lock, cpuVars, idle, ipi>>

\* request_termination(): the flag, then the status; the caller (group exit
\* or exec) goes on with remove_task().
request_termination(c, u) ==
    /\ "terminate" \in Ops
    /\ pc[c] = "task" /\ u # cur[c]
    /\ resume[u] # "unborn" /\ ~terminate[u]
    /\ terminate' = [terminate EXCEPT ![u] = TRUE]
    /\ tgt' = [tgt EXCEPT ![c] = u]
    /\ Goto(c, "exited")
    /\ UNCHANGED <<status, owner, resume, queueVars, lock, cpuVars, ret, idle,
                   ipi>>

terminate_set_exited(c) ==
    /\ pc[c] = "exited"
    /\ status' = [status EXCEPT ![tgt[c]] = "Exited"]
    /\ Goto(c, "remove")
    /\ UNCHANGED <<owner, terminate, resume, queueVars, lock, cpuVars, tgt,
                   ret, idle, ipi>>

remove_task(c) ==
    /\ pc[c] = "remove"
    /\ lock = NoCpu
    /\ ready' = RemoveTid(ready, tgt[c])
    /\ blocked' = blocked \ {tgt[c]}
    /\ tgt' = [tgt EXCEPT ![c] = NoTask]
    /\ Goto(c, "task")
    /\ UNCHANGED <<taskVars, lock, cpuVars, ret, idle, ipi>>

-----------------------------------------------------------------------------

Init ==
    /\ status = [t \in Tasks |-> "Ready"]
    /\ owner = [t \in Tasks |-> NoCpu]
    /\ terminate = [t \in Tasks |-> FALSE]
    /\ resume = [t \in Tasks |-> IF t = InitProc THEN "task" ELSE "unborn"]
    /\ ready = <<InitProc>>
    /\ blocked = {}
    /\ lock = NoCpu
    /\ pc = [c \in CPUs |-> "publish"]
    /\ cur = [c \in CPUs |-> NoTask]
    /\ hand = [c \in CPUs |-> NoTask]
    /\ nxt = [c \in CPUs |-> NoTask]
    /\ tgt = [c \in CPUs |-> NoTask]
    /\ ret = [c \in CPUs |-> "fetch"]
    /\ idle = {}
    /\ ipi = {}

\* The steps of the scheduling loop.
Loop(c) ==
    \/ take_handoff(c) \/ publish_set_ready(c)
    \/ add_task_before_owner_release(c) \/ release_cpu_owner(c)
    \/ kick_one_idle_hart_in(c) \/ fetch_task(c)
    \/ try_claim_running_on_cpu(c) \/ enter_idle(c) \/ ipi_before_wfi(c)
    \/ wait_for_interrupt(c) \/ ipi_wakes(c) \/ timer_returns(c) \/ leave_idle(c) \/ switch_to(c)

\* The steps that finish what the current task has begun.
Finish(c) ==
    \/ recheck_sleeps(c) \/ recheck_cancels(c) \/ cancel_set_running(c)
    \/ switch_to_next_task(c) \/ stop_current_and_run_next(c)
    \/ switch_to_next_task_after_exit(c) \/ add_task(c) \/ requeue_locked(c)
    \/ cont_set_ready(c) \/ cont_add(c) \/ terminate_set_exited(c)
    \/ remove_task(c)

\* The operations the current task may begin.
Begin(c) ==
    \/ acknowledge_ipi(c) \/ prepare_current_task_blocked(c)
    \/ set_stopped(c) \/ set_exited(c)
    \/ \E u \in Tasks : \/ clone_(c, u) \/ wakeup_task(c, u)
                         \/ requeue_ready_task(c, u)
                         \/ wakeup_stopped_task(c, u)
                         \/ request_termination(c, u)

\* yield_current_task() is also what a timer trap does to the current task.
Timer(c) == yield_current_task(c) \/ timer_wakes(c)

Next == \E c \in CPUs : Loop(c) \/ Finish(c) \/ Begin(c) \/ Timer(c)

Spec == Init /\ [][Next]_vars

\* A CPU that is in the middle of something goes on, and gets the scheduler
\* lock, whose sections are short, if it keeps trying.  Interrupts do not hit
\* the two instructions before WFI every time, and the timer handler of an
\* idle CPU wakes finitely many tasks.  A timer interrupt that arrives
\* in the kernel stays pending until the task returns to user mode, so a task
\* is preempted however often it enters the kernel in between.
Fairness ==
    \A c \in CPUs : /\ SF_vars(Loop(c)) /\ SF_vars(Finish(c))
                    /\ SF_vars(wait_for_interrupt(c)) /\ WF_vars(timer_wakes(c))
                    /\ SF_vars(timer_returns(c)) /\ SF_vars(yield_current_task(c))

FairSpec == Spec /\ Fairness

-----------------------------------------------------------------------------
(* Properties.                                                             *)

\* The variables keep the types of the fields they stand for; in particular
\* an IPI is only ever sent to a hart that exists (smp.rs).
TypeOK ==
    /\ status \in [Tasks -> Status]
    /\ owner \in [Tasks -> CPUs \cup {NoCpu}]
    /\ terminate \in [Tasks -> BOOLEAN]
    /\ resume \in [Tasks -> Resume]
    /\ ready \in Seq(Tasks)
    /\ blocked \subseteq Tasks
    /\ lock \in CPUs \cup {NoCpu}
    /\ pc \in [CPUs -> IdlePC \cup TaskPC]
    /\ cur \in [CPUs -> Tasks \cup {NoTask}]
    /\ hand \in [CPUs -> Tasks \cup {NoTask}]
    /\ nxt \in [CPUs -> Tasks \cup {NoTask}]
    /\ tgt \in [CPUs -> Tasks \cup {NoTask}]
    /\ ret \in [CPUs -> {"fetch", "task", "tick"}]
    /\ idle \subseteq CPUs
    /\ ipi \subseteq CPUs

\* The saved or live context of t is in the hands of CPU c.
Holds(c, t) ==
    \/ cur[c] = t
    \/ hand[c] = t
    \/ nxt[c] = t /\ pc[c] \in {"leave_idle", "dispatch"}

\* cpu_owner is exact: a CPU that runs, saves or is about to restore a
\* context is its recorded owner, and a recorded owner really holds it, in
\* one slot only.  So no two CPUs are ever on the same kernel stack, the
\* assertions in release_cpu_owner() and assert_cpu_owner() never fail, and
\* no ownership is leaked that would keep a task from ever being claimed.
SoleContext ==
    /\ \A c \in CPUs, t \in Tasks : owner[t] = c <=> Holds(c, t)
    /\ \A c \in CPUs : \/ cur[c] = NoTask /\ hand[c] = NoTask
                       \/ cur[c] = NoTask /\ nxt[c] = NoTask
                       \/ hand[c] = NoTask /\ nxt[c] = NoTask

\* What group exit and exec rely on when they free what sibling threads
\* share: once a termination request is published and the sibling has no
\* owner, no CPU ever holds its context again.
QuiescentForever ==
    [][\A t \in Tasks : terminate[t] /\ owner[t] = NoCpu
          => \A c \in CPUs : ~Holds(c, t)']_vars

\* The cross-check of assert_invariants(): outside the scheduler lock every
\* queued task is Ready and not blocked, and every task in blocked_tasks is
\* Blocked.
QueueAgrees ==
    lock = NoCpu =>
       /\ \A t \in Queued : status[t] = "Ready" /\ t \notin blocked
       /\ \A t \in blocked : status[t] = "Blocked"

\* Some CPU is in the middle of queueing t, or of giving up its wait.
InFlight(t) ==
    \E c \in CPUs :
       \/ hand[c] = t /\ pc[c] = "add"
       \/ nxt[c] = t /\ pc[c] = "claim"
       \/ cur[c] = t /\ pc[c] = "unblock"
       \/ tgt[c] = t /\ pc[c] \in {"add_new", "cont_add"}

\* No task falls out of the scheduler: a Ready task is queued, a Blocked one
\* is in blocked_tasks where wakeup_task() finds it, unless some CPU is about
\* to put it right or the task was told to terminate.
NoneStranded ==
    \A t \in Tasks : resume[t] # "unborn" /\ ~terminate[t] /\ ~InFlight(t) =>
       /\ status[t] = "Ready" => t \in Queued
       /\ status[t] = "Blocked" => t \in blocked

\* switch_to_next_task_after_exit() never returns: the context of a task
\* that exited is not restored.
ExitIsFinal == \A c \in CPUs : pc[c] # "unreachable"

\* Every queued task gets a CPU: neither the handoff protocol, nor an entry
\* that is skipped or put back by fetch_task(), nor a sleeping hart that
\* missed its IPI keeps a task of this priority class waiting for ever.
QueuedTaskRuns == \A t \in Tasks : t \in Queued ~> status[t] = "Running"

\* The ready queue, blocked_tasks and the status of every task agree outside the
\* scheduler lock, no task falls out of both, and nobody returns from exit.
SchedulerAgrees ==
    /\ QueueAgrees /\ NoneStranded /\ ExitIsFinal

=============================================================================
