------------------------------- MODULE Futex -------------------------------
(***************************************************************************)
(* FUTEX_WAIT, WAKE and REQUEUE (task/futex/wait.rs, queue.rs) with the    *)
(* paths that race to complete a wait: a wake, the timeout service, and a  *)
(* signal sent to the waiter (try_receive_siginfo, task/task.rs).          *)
(*                                                                         *)
(* FUTEX_QUEUES is the outer lock.  WAIT holds it from the comparison of   *)
(* the futex word to the moment it goes to sleep, but a signal sender and  *)
(* a late wakeup_task() do not take it, so they can come between.  Every   *)
(* path that completes a wait calls wakeup_task() after it has released    *)
(* the lock: such calls are on their way in `inflight`.                    *)
(***************************************************************************)
EXTENDS Integers, FiniteSets, Sequences

CONSTANTS
    Waiters,      \* tasks that call FUTEX_WAIT
    Keys,         \* futex keys
    Requeues,     \* pairs <<source, target>> that FUTEX_REQUEUE is used with
    Scenarios,    \* where a run may start: records of the tasks that exist,
                  \* the keys in use, and which of "signal", "timeout" and
                  \* "exit" happen
    MaxInflight,  \* bound on wakeup_task() calls under way for one task
    NoTask, NoKey

ASSUME FutexAssumption ==
    /\ Requeues \subseteq Keys \X Keys
    /\ Scenarios \subseteq [tasks : SUBSET Waiters, keys : SUBSET Keys,
                            events : SUBSET {"signal", "timeout", "exit"}]
    /\ IsFiniteSet(Waiters)
    /\ MaxInflight \in Nat
    /\ NoTask \notin Waiters /\ NoKey \notin Keys

VARIABLES
    scenario,       \* the scenario of this run
    val,            \* the futex words: 0 is the value waiters expect
    wakeDue,        \* words that were changed and whose wake is still due
    queue,          \* FUTEX_QUEUES, entries [key, tid], oldest first
    waits,          \* FUTEX_WAITS: the completion of each registered wait
    deadline,       \* the registered wait has a deadline
    qlock,          \* holder of FUTEX_QUEUES between two steps
    pc,             \* where a waiter is in futex_wait_common()
    key,            \* the key a waiter waits on
    sched,          \* scheduler state of a waiter
    inflight,       \* number of wakeup_task(t) calls on their way
    interruptible,  \* flags of the TCB
    interrupted,
    pending,        \* a deliverable signal is pending
    sender,         \* where a sender is in try_receive_siginfo()
    credited,       \* some wake counted this waiter
    result          \* what the last wait returned

futexVars == <<queue, waits, deadline, qlock>>
wordVars == <<scenario, val, wakeDue>>
taskVars == <<pc, key, sched, inflight>>
sigVars == <<interruptible, interrupted, pending, sender>>
vars == <<futexVars, wordVars, taskVars, sigVars, credited, result>>

Completion == {"None", "Pending", "Woken", "TimedOut", "Interrupted"}

Goto(t, l) == pc' = [pc EXCEPT ![t] = l]
Return(t, r) == Goto(t, "return") /\ result' = [result EXCEPT ![t] = r]

\* The entries of q at the positions in I, in their order.
Keep(q, I) ==
    [n \in 1..Cardinality(I) |-> q[CHOOSE i \in I : Cardinality({j \in I : j <= i}) = n]]

\* Queue entries of a task, and of a task under one key, are dropped.
remove_tid(q, t) == Keep(q, {i \in DOMAIN q : q[i].tid # t})
Unqueue(q, t, k) == Keep(q, {i \in DOMAIN q : ~(q[i].tid = t /\ q[i].key = k)})

\* check_signal_interrupt()
check_signal_interrupt(t) == interruptible[t] /\ pending[t]

-----------------------------------------------------------------------------
(* FUTEX_WAIT.                                                             *)

\* Mutant: set_interruptible(true) is forgotten.
futex_wait_uninterruptible(t, k, timed) ==
    /\ pc[t] = "user"
    /\ qlock = NoTask
    /\ val[k] = 0
    /\ qlock' = t
    /\ key' = [key EXCEPT ![t] = k]
    /\ queue' = Append(queue, [key |-> k, tid |-> t])
    /\ waits' = [waits EXCEPT ![t] = "Pending"]
    /\ deadline' = [deadline EXCEPT ![t] = timed]
    /\ Goto(t, "check")
    /\ UNCHANGED <<wordVars, sched, inflight, interruptible, interrupted,
                   pending, sender, credited, result>>

\* Up to the registration: the word is compared under the lock.  A timed
\* wait returns early if its deadline has passed or an interruption is
\* already marked.
futex_wait_enqueue(t, k, timed) ==
    /\ pc[t] = "user"
    /\ qlock = NoTask
    /\ \/ /\ val[k] # 0
          /\ Return(t, "EAGAIN")
          /\ UNCHANGED <<futexVars, wordVars, key, sched, inflight, sigVars,
                         credited>>
       \/ /\ val[k] = 0 /\ timed
          /\ Return(t, "ETIMEDOUT")
          /\ UNCHANGED <<futexVars, wordVars, key, sched, inflight, sigVars,
                         credited>>
       \/ /\ val[k] = 0
          /\ ~(timed /\ interrupted[t])
          /\ qlock' = t
          /\ key' = [key EXCEPT ![t] = k]
          /\ interruptible' = [interruptible EXCEPT ![t] = TRUE]
          /\ queue' = Append(queue, [key |-> k, tid |-> t])
          /\ waits' = [waits EXCEPT ![t] = "Pending"]
          /\ deadline' = [deadline EXCEPT ![t] = timed]
          /\ Goto(t, "check")
          /\ UNCHANGED <<wordVars, sched, inflight, interrupted, pending,
                         sender, credited, result>>
       \/ /\ val[k] = 0
          /\ timed /\ interrupted[t]
          /\ interrupted' = [interrupted EXCEPT ![t] = FALSE]
          /\ Return(t, "EINTR")
          /\ UNCHANGED <<futexVars, wordVars, key, sched, inflight,
                         interruptible, pending, sender, credited>>

\* Undo the registration and return EINTR: complete, unqueue, finish, and
\* (after the task was marked Blocked) wakeup_task, remove_task, set_running.
GiveUp(t) ==
    /\ interrupted' = [interrupted EXCEPT ![t] = FALSE]
    /\ interruptible' = [interruptible EXCEPT ![t] = FALSE]
    /\ queue' = Unqueue(queue, t, key[t])
    /\ waits' = [waits EXCEPT ![t] = "None"]
    /\ deadline' = [deadline EXCEPT ![t] = FALSE]
    /\ qlock' = NoTask
    /\ sched' = [sched EXCEPT ![t] = "Running"]
    /\ Return(t, "EINTR")
    /\ UNCHANGED <<wordVars, key, inflight, pending, sender, credited>>

futex_wait_check(t) ==
    /\ pc[t] = "check"
    /\ \/ check_signal_interrupt(t) /\ GiveUp(t)
       \/ /\ ~check_signal_interrupt(t)
          /\ Goto(t, "prepare")
          /\ UNCHANGED <<futexVars, wordVars, key, sched, inflight, sigVars,
                         credited, result>>

\* prepare_current_task_blocked()
futex_wait_prepare(t) ==
    /\ pc[t] = "prepare"
    /\ sched' = [sched EXCEPT ![t] = "Blocked"]
    /\ Goto(t, "recheck")
    /\ UNCHANGED <<futexVars, wordVars, key, inflight, sigVars, credited, result>>

futex_wait_recheck(t) ==
    /\ pc[t] = "recheck"
    /\ \/ (interrupted[t] \/ check_signal_interrupt(t)) /\ GiveUp(t)
       \/ /\ ~(interrupted[t] \/ check_signal_interrupt(t))
          /\ qlock' = NoTask
          /\ Goto(t, "switch")
          /\ UNCHANGED <<queue, waits, deadline, wordVars, key, sched, inflight,
                         sigVars, credited, result>>

\* switch_to_next_task() returns once the task was made Ready and claimed.
futex_wait_resume(t) ==
    /\ pc[t] = "switch"
    /\ sched[t] = "Ready"
    /\ sched' = [sched EXCEPT ![t] = "Running"]
    /\ interruptible' = [interruptible EXCEPT ![t] = FALSE]
    /\ Goto(t, "finish")
    /\ UNCHANGED <<futexVars, wordVars, key, inflight, interrupted, pending,
                   sender, credited, result>>

\* finish_futex_wait(), which needs only FUTEX_WAITS, and clear_interrupted().
futex_wait_finish(t) ==
    /\ pc[t] = "finish"
    /\ result' = [result EXCEPT ![t] =
                     CASE waits[t] = "Interrupted" -> "EINTR"
                       [] waits[t] = "TimedOut" -> "ETIMEDOUT"
                       [] OTHER -> "Ok"]
    /\ waits' = [waits EXCEPT ![t] = "None"]
    /\ deadline' = [deadline EXCEPT ![t] = FALSE]
    /\ interrupted' = [interrupted EXCEPT ![t] = FALSE]
    /\ Goto(t, "cleanup")
    /\ UNCHANGED <<queue, qlock, wordVars, key, sched, inflight, interruptible,
                   pending, sender, credited>>

\* A queue entry left by a spurious wakeup is removed before returning.
futex_wait_cleanup(t) ==
    /\ pc[t] = "cleanup"
    /\ qlock = NoTask
    /\ queue' = Unqueue(queue, t, key[t])
    /\ Goto(t, "return")
    /\ UNCHANGED <<waits, deadline, qlock, wordVars, key, sched, inflight,
                   sigVars, credited, result>>

\* Back in user mode the call's locals are gone.
futex_wait_return(t) ==
    /\ pc[t] = "return"
    /\ Goto(t, "user")
    /\ key' = [key EXCEPT ![t] = NoKey]
    /\ result' = [result EXCEPT ![t] = "none"]
    /\ credited' = [credited EXCEPT ![t] = FALSE]
    /\ UNCHANGED <<futexVars, wordVars, sched, inflight, interruptible,
                   interrupted, pending, sender>>

-----------------------------------------------------------------------------
(* The paths that complete a wait.                                         *)

\* Positions of the entries of key k, and those among them whose task is
\* still waiting: complete() succeeds for these.
Matching(k) == {i \in DOMAIN queue : queue[i].key = k}
Wins(k) == {i \in Matching(k) :
               /\ waits[queue[i].tid] = "Pending"
               /\ \A j \in Matching(k) : j < i => queue[j].tid # queue[i].tid}

\* The loop stops after n successes; entries it passes are popped, whether
\* or not complete() succeeds for them.
Popped(k, n) == {i \in Matching(k) : Cardinality({j \in Wins(k) : j < i}) < n}
WokenTids(k, n) == {queue[i].tid : i \in Popped(k, n) \cap Wins(k)}

Room(T) == \A t \in T : inflight[t] < MaxInflight

\* complete(tid, Woken) for the tasks of T and wakeup_task() on its way.
CompleteWoken(T) ==
    /\ Room(T)
    /\ waits' = [t \in Waiters |-> IF t \in T THEN "Woken" ELSE waits[t]]
    /\ deadline' = [t \in Waiters |-> t \notin T /\ deadline[t]]
    /\ credited' = [t \in Waiters |-> t \in T \/ credited[t]]
    /\ inflight' = [t \in Waiters |-> IF t \in T THEN inflight[t] + 1 ELSE inflight[t]]

\* Mutant: the loop stops one waiter too early.
futex_wake_one_less(k, n) ==
    /\ qlock = NoTask
    /\ CompleteWoken(WokenTids(k, n - 1))
    /\ queue' = Keep(queue, DOMAIN queue \ Popped(k, n - 1))
    /\ wakeDue' = IF n >= Cardinality(Waiters) THEN wakeDue \ {k} ELSE wakeDue
    /\ UNCHANGED <<qlock, scenario, val, pc, key, sched, sigVars, result>>

futex_wake_common(k, n) ==
    /\ qlock = NoTask
    /\ CompleteWoken(WokenTids(k, n))
    /\ queue' = Keep(queue, DOMAIN queue \ Popped(k, n))
    /\ wakeDue' = IF n >= Cardinality(Waiters) THEN wakeDue \ {k} ELSE wakeDue
    /\ UNCHANGED <<qlock, scenario, val, pc, key, sched, sigVars, result>>

\* Mutant: entries beyond the wake count are removed but not moved.
futex_requeue_dropping(k, k2, n, m) ==
    /\ qlock = NoTask
    /\ Matching(k) # {}
    /\ CompleteWoken(WokenTids(k, n))
    /\ queue' = Keep(queue, DOMAIN queue \ Matching(k))
    /\ UNCHANGED <<qlock, wordVars, pc, key, sched, sigVars, result>>

\* FUTEX_REQUEUE wakes n waiters of the source key and moves m others behind
\* the waiters of the target key.
futex_requeue_common(k, k2, n, m) ==
    /\ qlock = NoTask
    /\ Matching(k) # {}
    /\ CompleteWoken(WokenTids(k, n))
    /\ LET rest == Matching(k) \ Popped(k, n)
           moved == {i \in rest : Cardinality({j \in rest : j < i}) < m}
           as2(q) == [i \in DOMAIN q |-> [q[i] EXCEPT !.key = k2]]
       IN  queue' = IF k = k2 THEN Keep(queue, DOMAIN queue \ Popped(k, n))
                    ELSE Keep(queue, DOMAIN queue \ (Popped(k, n) \cup moved))
                         \o as2(Keep(queue, moved))
    /\ UNCHANGED <<qlock, wordVars, pc, key, sched, sigVars, result>>

\* check_futex_timeouts(): the deadlines of the tasks of T have passed.
check_futex_timeouts(T) ==
    /\ qlock = NoTask
    /\ T # {} /\ \A t \in T : deadline[t] /\ waits[t] = "Pending"
    /\ Room(T)
    /\ waits' = [t \in Waiters |-> IF t \in T THEN "TimedOut" ELSE waits[t]]
    /\ deadline' = [t \in Waiters |-> t \notin T /\ deadline[t]]
    /\ queue' = Keep(queue, {i \in DOMAIN queue : queue[i].tid \notin T})
    /\ inflight' = [t \in Waiters |-> IF t \in T THEN inflight[t] + 1 ELSE inflight[t]]
    /\ UNCHANGED <<qlock, wordVars, pc, key, sched, sigVars, credited, result>>

\* wakeup_task(): effective only if the task is in blocked_tasks.
wakeup_task(t) ==
    /\ inflight[t] > 0
    /\ inflight' = [inflight EXCEPT ![t] = @ - 1]
    /\ sched' = [sched EXCEPT ![t] = IF @ = "Blocked" THEN "Ready" ELSE @]
    /\ UNCHANGED <<futexVars, wordVars, pc, key, sigVars, credited, result>>

-----------------------------------------------------------------------------
(* try_receive_siginfo(): a thread-directed signal with a handler.         *)

SenderGoto(t, l) == sender' = [sender EXCEPT ![t] = l]

add_signal(t) ==
    /\ "signal" \in scenario.events
    /\ sender[t] = "none" /\ pc[t] # "exited"
    /\ pending' = [pending EXCEPT ![t] = TRUE]
    /\ SenderGoto(t, "check")
    /\ UNCHANGED <<futexVars, wordVars, taskVars, interruptible, interrupted,
                   credited, result>>

sender_check(t) ==
    /\ sender[t] = "check"
    /\ SenderGoto(t, IF check_signal_interrupt(t) THEN "mark" ELSE "none")
    /\ UNCHANGED <<futexVars, wordVars, taskVars, interruptible, interrupted,
                   pending, credited, result>>

\* mark_signal_interrupted(): store the flag, then verify again.
sender_mark(t) ==
    /\ sender[t] = "mark"
    /\ interrupted' = [interrupted EXCEPT ![t] = TRUE]
    /\ SenderGoto(t, "verify")
    /\ UNCHANGED <<futexVars, wordVars, taskVars, interruptible, pending, credited, result>>

sender_verify(t) ==
    /\ sender[t] = "verify"
    /\ \/ check_signal_interrupt(t) /\ SenderGoto(t, "futex") /\ UNCHANGED interrupted
       \/ /\ ~check_signal_interrupt(t)
          /\ SenderGoto(t, "none")
          /\ interrupted' = [interrupted EXCEPT ![t] = FALSE]
    /\ UNCHANGED <<futexVars, wordVars, taskVars, interruptible, pending, credited, result>>

\* Mutant: complete() overwrites a completion that was already claimed.
interrupt_futex_wait_always(t) ==
    /\ sender[t] = "futex"
    /\ qlock = NoTask
    /\ SenderGoto(t, "wake")
    /\ waits' = [waits EXCEPT ![t] = IF @ = "None" THEN @ ELSE "Interrupted"]
    /\ deadline' = [deadline EXCEPT ![t] = FALSE]
    /\ queue' = remove_tid(queue, t)
    /\ UNCHANGED <<qlock, wordVars, taskVars, interruptible, interrupted,
                   pending, credited, result>>

interrupt_futex_wait(t) ==
    /\ sender[t] = "futex"
    /\ qlock = NoTask
    /\ SenderGoto(t, "wake")
    /\ \/ /\ waits[t] = "Pending"
          /\ waits' = [waits EXCEPT ![t] = "Interrupted"]
          /\ deadline' = [deadline EXCEPT ![t] = FALSE]
          /\ queue' = remove_tid(queue, t)
       \/ waits[t] # "Pending" /\ UNCHANGED <<waits, deadline, queue>>
    /\ UNCHANGED <<qlock, wordVars, taskVars, interruptible, interrupted,
                   pending, credited, result>>

\* The sender wakes the task if it finds it blocked.
sender_wake(t) ==
    /\ sender[t] = "wake"
    /\ Room({t})
    /\ SenderGoto(t, "none")
    /\ inflight' = [inflight EXCEPT ![t] = IF sched[t] = "Blocked" THEN @ + 1 ELSE @]
    /\ UNCHANGED <<futexVars, wordVars, pc, key, sched, interruptible,
                   interrupted, pending, credited, result>>

-----------------------------------------------------------------------------
(* User mode and exit.                                                     *)

\* A signal is delivered on the way back to user mode.
handle_signal(t) ==
    /\ pc[t] = "user" /\ pending[t]
    /\ pending' = [pending EXCEPT ![t] = FALSE]
    /\ UNCHANGED <<futexVars, wordVars, taskVars, interruptible, interrupted,
                   sender, credited, result>>

\* User code changes a futex word and owes a FUTEX_WAKE, or resets it.
store(k) ==
    /\ val' = [val EXCEPT ![k] = 1 - @]
    /\ wakeDue' = IF val[k] = 0 THEN wakeDue \cup {k} ELSE wakeDue
    /\ UNCHANGED <<scenario, futexVars, taskVars, sigVars, credited, result>>

\* cleanup_exiting_thread() of a task that runs user code, or that group exit
\* removed from the scheduler while it slept: remove_futex_waiter().
remove_futex_waiter(t) ==
    /\ "exit" \in scenario.events
    /\ pc[t] \in {"user", "switch"}
    /\ qlock = NoTask
    /\ Goto(t, "exited")
    /\ queue' = remove_tid(queue, t)
    /\ waits' = [waits EXCEPT ![t] = "None"]
    /\ deadline' = [deadline EXCEPT ![t] = FALSE]
    /\ sched' = [sched EXCEPT ![t] = "Exited"]
    /\ UNCHANGED <<qlock, wordVars, key, inflight, sigVars, credited, result>>

-----------------------------------------------------------------------------

Init ==
    /\ scenario \in Scenarios
    /\ val = [k \in Keys |-> 0]
    /\ wakeDue = {}
    /\ queue = <<>>
    /\ waits = [t \in Waiters |-> "None"]
    /\ deadline = [t \in Waiters |-> FALSE]
    /\ qlock = NoTask
    /\ pc = [t \in Waiters |-> IF t \in scenario.tasks THEN "user" ELSE "exited"]
    /\ key = [t \in Waiters |-> NoKey]
    /\ sched = [t \in Waiters |-> IF t \in scenario.tasks THEN "Running" ELSE "Exited"]
    /\ inflight = [t \in Waiters |-> 0]
    /\ interruptible = [t \in Waiters |-> FALSE]
    /\ interrupted = [t \in Waiters |-> FALSE]
    /\ pending = [t \in Waiters |-> FALSE]
    /\ sender = [t \in Waiters |-> "none"]
    /\ credited = [t \in Waiters |-> FALSE]
    /\ result = [t \in Waiters |-> "none"]

Wait(t) ==
    \/ futex_wait_check(t) \/ futex_wait_prepare(t) \/ futex_wait_recheck(t)
    \/ futex_wait_resume(t) \/ futex_wait_finish(t) \/ futex_wait_cleanup(t)
    \/ futex_wait_return(t)

Signal(t) ==
    \/ sender_check(t) \/ sender_mark(t) \/ sender_verify(t)
    \/ interrupt_futex_wait(t) \/ sender_wake(t)

Next ==
    \/ \E t \in Waiters :
          \/ Wait(t) \/ Signal(t) \/ wakeup_task(t) \/ add_signal(t)
          \/ handle_signal(t) \/ remove_futex_waiter(t)
          \/ \E k \in scenario.keys, timed \in BOOLEAN :
                /\ timed => "timeout" \in scenario.events
                /\ futex_wait_enqueue(t, k, timed)
    \/ \E k \in scenario.keys :
          \/ store(k)
          \/ \E n \in {1, Cardinality(Waiters)} : futex_wake_common(k, n)
    \/ \E r \in Requeues, n \in {0, 1} :
          /\ r[2] \in scenario.keys
          /\ futex_requeue_common(r[1], r[2], n, Cardinality(Waiters))
    \/ \E T \in SUBSET Waiters : check_futex_timeouts(T)

Spec == Init /\ [][Next]_vars

-----------------------------------------------------------------------------

\* The variables keep the types of the Rust fields they stand for, and the
\* wakeups under way stay within the bound.
TypeOK ==
    /\ scenario \in Scenarios
    /\ val \in [Keys -> {0, 1}]
    /\ wakeDue \subseteq Keys
    /\ queue \in Seq([key : Keys, tid : Waiters])
    /\ waits \in [Waiters -> Completion]
    /\ deadline \in [Waiters -> BOOLEAN]
    /\ qlock \in Waiters \cup {NoTask}
    /\ pc \in [Waiters -> {"user", "check", "prepare", "recheck", "switch",
                          "finish", "cleanup", "return", "exited"}]
    /\ key \in [Waiters -> Keys \cup {NoKey}]
    /\ sched \in [Waiters -> {"Running", "Blocked", "Ready", "Exited"}]
    /\ inflight \in [Waiters -> 0..MaxInflight]
    /\ interruptible \in [Waiters -> BOOLEAN]
    /\ interrupted \in [Waiters -> BOOLEAN]
    /\ pending \in [Waiters -> BOOLEAN]
    /\ sender \in [Waiters -> {"none", "check", "mark", "verify", "futex", "wake"}]
    /\ credited \in [Waiters -> BOOLEAN]
    /\ result \in [Waiters -> {"none", "Ok", "EAGAIN", "EINTR", "ETIMEDOUT"}]

Asleep(t) == pc[t] = "switch" /\ sched[t] = "Blocked"
QueuedUnder(t, k) == \E i \in DOMAIN queue : queue[i] = [key |-> k, tid |-> t]

\* A sleeping waiter can always be reached: either its wait is still open and
\* an entry for it is in the queues, or some path has won its completion and
\* that path's wakeup_task() is still to come (wait.rs: entries are removed
\* and the completion claimed before the scheduler wakeup).
SleeperReachable ==
    \A t \in Waiters : Asleep(t) =>
        \/ waits[t] = "Pending" /\ \E k \in Keys : QueuedUnder(t, k)
        \/ waits[t] \in {"Woken", "TimedOut", "Interrupted"}
             /\ (inflight[t] > 0 \/ sender[t] = "wake")

\* A signal never sleeps with its target: when a waiter sleeps while a
\* deliverable signal is pending, the sender or a wakeup is still on its way
\* (the check between Blocked and the context switch, wait.rs).
SignalReachesSleeper ==
    \A t \in Waiters : Asleep(t) /\ pending[t] =>
        sender[t] # "none" \/ inflight[t] > 0

\* A waiter that some FUTEX_WAKE counted as woken returns 0 from that wait:
\* neither a timeout nor a signal takes the wake away (one winner among
\* wake, signal and timeout, wait.rs).
CountedWakeSucceeds ==
    \A t \in Waiters :
        credited[t] /\ result[t] # "Ok" => pc[t] \notin {"return", "cleanup"}

\* No wake is lost: once a word was changed and its waiters were all woken,
\* no open wait that compared the old value is left in the queue under that
\* word's key (comparison and enqueueing are one step with respect to wake).
\* Keys that are the target of a requeue are exempt: the move does not look at
\* the target word.
NoLostWake ==
    \A k \in Keys \ {r[2] : r \in Requeues} :
        val[k] = 1 /\ k \notin wakeDue =>
            \A t \in Waiters : waits[t] = "Pending" => ~QueuedUnder(t, k)

=============================================================================
