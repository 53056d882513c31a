----------------------------- MODULE WaitChild -----------------------------
(***************************************************************************)
(* wait4() and waitid() (syscall/process.rs) against everything that       *)
(* reports to a parent: children that exit, stop and continue, a parent    *)
(* that exits and hands its children to init, SIGCHLD and other signals,   *)
(* and other threads of the same parent that wait as well                  *)
(* (task/task.rs, task/process.rs).                                        *)
(*                                                                         *)
(* A report runs on the CPU of whoever makes it (an "actor"): the child    *)
(* itself, or the exiting parent on behalf of a child it hands over.       *)
(* Signals are deliverable ones with a handler; they are pending on the    *)
(* process.  The child-event generation only matters by comparison with    *)
(* the value a waiter has observed, so it is kept as one flag per waiter.  *)
(***************************************************************************)
EXTENDS Integers

CONSTANTS
    Children,
    Waiters,    \* threads that call wait4 and waitid
    Parent,     \* a process that may exit
    InitProc,
    Kill,       \* the sender of other signals
    Selections, \* sets of children a call may select
    Scenarios   \* where a run may start: records of the process of each
                \* waiter, the children of each process, the dispositions of
                \* SIGCHLD, and which of "stop", "kill", "reparent" and
                \* "fault" happen

None == "none"
Procs == {Parent, InitProc}
Actors == Children \cup {Parent, Kill}

ASSUME WaitAssumption ==
    /\ Selections \subseteq SUBSET Children
    /\ Scenarios \subseteq
          [home : [Waiters -> Procs \cup {None}],
           children : [Procs -> SUBSET Children],
           sigact : [Procs -> {"default", "handler", "nocldstop", "ignore", "nocldwait"}],
           events : SUBSET {"stop", "kill", "reparent", "fault"}]
    /\ \A s \in Scenarios : s.children[Parent] \cap s.children[InitProc] = {}
    /\ Parent # InitProc /\ Kill # Parent /\ None \notin Procs
    /\ Children \cap {Parent, Kill, None} = {}

VARIABLES
    lifecycle,        \* of each child: "Running", "Zombie", "Reaped"
    stopped,          \* the child is in TaskStatus::Stopped
    parent,           \* ProcessState.parent of each child
    children,         \* ProcessState.children of each process
    exited_children,  \* ProcessState.exited_children
    wait_event,       \* "none", "stopped" or "continued"
    home,             \* the process of each waiter, None if there is no such thread
    sigact,           \* disposition of SIGCHLD of each process
    pending,          \* a deliverable signal is pending on the process
    events,           \* what happens in this scenario
    alive,            \* the process has members
    step, subj, to, wakes,  \* the report an actor is making
    rest, seen,       \* reparenting: children still to do, is_exited() as read
    pc, call, want, found,  \* a waiter in its system call
    stale,            \* the generation is not the one the waiter observed
    waiting, interruptible, interrupted,   \* flags of the TCB
    sched,            \* "Running", "Blocked", "Ready"
    accounted,        \* times the child was added to the parent's accounting
    raced             \* children that became zombies while being handed over

childVars == <<lifecycle, stopped, parent, children, exited_children, wait_event>>
procVars == <<home, sigact, events, pending, alive>>
actorVars == <<step, subj, to, wakes, rest, seen>>
callVars == <<pc, call, want, found, stale>>
flagVars == <<waiting, interruptible, interrupted, sched>>
ghosts == <<accounted, raced>>
vars == <<childVars, procVars, actorVars, callVars, flagVars, ghosts>>

\* A child a scan or the reparenting has come to, and whether it has exited.
Findings == [child : Children \cup {None}, exited : BOOLEAN]
Nothing == [child |-> None, exited |-> FALSE]
Goto(w, l) == pc' = [pc EXCEPT ![w] = l]
StepTo(a, l) == step' = [step EXCEPT ![a] = l]

Members(p) == {w \in Waiters : home[w] = p /\ alive[p]}

\* A pending signal interrupts a task only while it is interruptible.
check_signal_interrupt(w) == interruptible[w] /\ pending[home[w]]

\* wakeup_task(): a Blocked task becomes Ready, any other is left alone.
wakeup_task(w) ==
    sched' = [sched EXCEPT ![w] = IF @ = "Blocked" THEN "Ready" ELSE @]

-----------------------------------------------------------------------------
(* A child reports: it exits, stops or continues.                          *)

\* exit_process_group(): publish_zombie(), then notify_parent_exit().
publish_zombie(c) ==
    /\ step[c] = "idle" /\ lifecycle[c] = "Running" /\ ~stopped[c]
    /\ lifecycle' = [lifecycle EXCEPT ![c] = "Zombie"]
    /\ raced' = IF seen.child = c /\ ~seen.exited /\ step[Parent] \in {"adopt", "insert"}
                THEN raced \cup {c} ELSE raced
    /\ StepTo(c, "exit_target")
    /\ UNCHANGED <<stopped, parent, children, exited_children, wait_event, procVars,
                   subj, to, wakes, rest, seen, callVars, flagVars, accounted>>

\* handle_signal() with a stop signal, and SIGCONT: the event is stored, then
\* the parent is told.
set_wait_event(c) ==
    /\ "stop" \in events
    /\ step[c] = "idle" /\ lifecycle[c] = "Running"
    /\ stopped' = [stopped EXCEPT ![c] = ~@]
    /\ wait_event' = [wait_event EXCEPT ![c] = IF stopped[c] THEN "continued" ELSE "stopped"]
    /\ StepTo(c, "stop_target")
    /\ UNCHANGED <<lifecycle, parent, children, exited_children, procVars, subj, to,
                   wakes, rest, seen, callVars, flagVars, ghosts>>

-----------------------------------------------------------------------------
(* notify_process_parent_exit(), notify_parent_sigchld() and               *)
(* wake_process_child_waiters(), step by step.                             *)

\* process.parent() and signal_target(): a parent without members is not told.
notify_target(a) ==
    /\ step[a] \in {"exit_target", "stop_target"}
    /\ LET p == parent[subj[a]]
       IN  \/ ~alive[p] /\ StepTo(a, "done") /\ UNCHANGED to
           \/ /\ alive[p]
              /\ to' = [to EXCEPT ![a] = p]
              /\ StepTo(a, IF step[a] = "exit_target" THEN "mark" ELSE "stop_signal")
    /\ UNCHANGED <<childVars, procVars, subj, wakes, rest, seen, callVars, flagVars,
                   ghosts>>

\* SIG_IGN and SA_NOCLDWAIT reap at once; otherwise the child is indexed.
mark_child_exited(a) ==
    /\ step[a] = "mark"
    /\ LET p == to[a]
           c == subj[a]
       IN  IF sigact[p] \in {"ignore", "nocldwait"}
           THEN /\ children' = [children EXCEPT ![p] = @ \ {c}]
                /\ exited_children' = [exited_children EXCEPT ![p] = @ \ {c}]
                /\ lifecycle' = IF c \in children[p]
                                THEN [lifecycle EXCEPT ![c] = "Reaped"] ELSE lifecycle
           ELSE /\ exited_children' = [exited_children EXCEPT ![p] = @ \cup {c}]
                /\ UNCHANGED <<children, lifecycle>>
    /\ StepTo(a, "exit_signal")
    /\ UNCHANGED <<stopped, parent, wait_event, procVars, subj, to, wakes, rest, seen,
                   callVars, flagVars, ghosts>>

\* SIGCHLD becomes pending where the parent has a handler for it.  (Signals of
\* a process without waiters are of no consequence here and are left out.)
receive_sigchld(a) ==
    /\ step[a] \in {"exit_signal", "stop_signal"}
    /\ LET caught == \/ sigact[to[a]] = "handler"
                     \/ sigact[to[a]] = "nocldstop" /\ step[a] = "exit_signal"
       IN  /\ pending' = [pending EXCEPT ![to[a]] = @ \/ (caught /\ Members(to[a]) # {})]
           /\ StepTo(a, IF caught THEN "interrupt" ELSE "publish")
    /\ UNCHANGED <<childVars, home, sigact, events, alive, subj, to, wakes, rest, seen, callVars,
                   flagVars, ghosts>>

\* Any other signal sent to the process.
kill(p) ==
    /\ "kill" \in events
    /\ step[Kill] = "idle" /\ Members(p) # {} /\ ~pending[p]
    /\ pending' = [pending EXCEPT ![p] = TRUE]
    /\ to' = [to EXCEPT ![Kill] = p]
    /\ StepTo(Kill, "interrupt")
    /\ UNCHANGED <<childVars, home, sigact, events, alive, subj, wakes, rest, seen, callVars,
                   flagVars, ghosts>>

\* try_receive_siginfo() picks one thread; it is marked and woken only if the
\* signal interrupts it now.
mark_signal_interrupted(a) ==
    /\ step[a] = "interrupt"
    /\ \/ \E w \in Members(to[a]) :
             IF check_signal_interrupt(w)
             THEN /\ interrupted' = [interrupted EXCEPT ![w] = TRUE]
                  /\ wakeup_task(w)
             ELSE UNCHANGED <<interrupted, sched>>
       \/ Members(to[a]) = {} /\ UNCHANGED <<interrupted, sched>>
    /\ StepTo(a, IF a = Kill THEN "idle" ELSE "publish")
    /\ to' = IF a = Kill THEN [to EXCEPT ![a] = None] ELSE to
    /\ UNCHANGED <<childVars, procVars, subj, wakes, rest, seen, callVars, waiting,
                   interruptible, ghosts>>

\* The generation changes before the waiter flags are read.  (A waiter that
\* has yet to observe it cannot hold an old one.)
publish_child_event(a) ==
    \/ /\ step[a] = "publish"
       /\ stale' = [w \in Waiters |-> \/ stale[w]
                              \/ /\ home[w] = to[a]
                                 /\ pc[w] \notin {"user", "observe", "exited"}]
       /\ StepTo(a, "collect")
       /\ UNCHANGED <<childVars, procVars, subj, to, wakes, rest, seen, pc, call, want,
                      found, flagVars, ghosts>>
    \/ /\ step[a] = "collect"
       /\ wakes' = [wakes EXCEPT ![a] = {w \in Members(to[a]) : waiting[w]}]
       /\ StepTo(a, "wake")
       /\ UNCHANGED <<childVars, procVars, subj, to, rest, seen, callVars, flagVars, ghosts>>

wake_process_child_waiters(a) ==
    /\ step[a] = "wake"
    /\ \/ \E w \in wakes[a] :
             /\ wakes' = [wakes EXCEPT ![a] = @ \ {w}]
             /\ wakeup_task(w)
             /\ UNCHANGED step
       \/ wakes[a] = {} /\ StepTo(a, "done") /\ UNCHANGED <<wakes, sched>>
    /\ UNCHANGED <<childVars, procVars, subj, to, rest, seen, callVars, waiting,
                   interruptible, interrupted, ghosts>>

\* A child that only stopped or continued goes on.
notified(c) ==
    /\ step[c] = "done"
    /\ StepTo(c, IF lifecycle[c] = "Running" THEN "idle" ELSE "gone")
    /\ to' = [to EXCEPT ![c] = None]
    /\ UNCHANGED <<childVars, procVars, subj, wakes, rest, seen, callVars, flagVars, ghosts>>

Report(a) ==
    \/ notify_target(a) \/ mark_child_exited(a) \/ receive_sigchld(a)
    \/ mark_signal_interrupted(a) \/ publish_child_event(a)
    \/ wake_process_child_waiters(a)

-----------------------------------------------------------------------------
(* The parent exits: reparent_children_to_init().                          *)

\* exit_process_group() has retired all threads before it reparents: they
\* were in user mode or asleep when they left their CPUs.
reparent_start ==
    /\ "reparent" \in events
    /\ alive[Parent]
    /\ \A w \in Members(Parent) : pc[w] \in {"user", "sleep"}
    /\ alive' = [alive EXCEPT ![Parent] = FALSE]
    /\ pc' = [w \in Waiters |-> IF home[w] = Parent THEN "exited" ELSE pc[w]]
    /\ waiting' = [w \in Waiters |-> waiting[w] /\ home[w] # Parent]
    /\ interruptible' = [w \in Waiters |-> interruptible[w] /\ home[w] # Parent]
    /\ interrupted' = [w \in Waiters |-> interrupted[w] /\ home[w] # Parent]
    /\ sched' = [w \in Waiters |-> IF home[w] = Parent THEN "Running" ELSE sched[w]]
    /\ pending' = [pending EXCEPT ![Parent] = FALSE]
    /\ StepTo(Parent, "take")
    /\ UNCHANGED <<childVars, home, sigact, events, subj, to, wakes, rest, seen, call, want, found,
                   stale, ghosts>>

take_children ==
    /\ step[Parent] = "take"
    /\ rest' = children[Parent]
    /\ children' = [children EXCEPT ![Parent] = {}]
    /\ exited_children' = [exited_children EXCEPT ![Parent] = {}]
    /\ StepTo(Parent, IF children[Parent] = {} THEN "gone" ELSE "next")
    /\ UNCHANGED <<lifecycle, stopped, parent, wait_event, procVars, subj, to, wakes, seen,
                   callVars, flagVars, ghosts>>

\* is_exited() is read before init becomes the parent.
read_exited ==
    /\ step[Parent] = "next"
    /\ \E c \in rest :
          /\ rest' = rest \ {c}
          /\ seen' = [child |-> c, exited |-> lifecycle[c] = "Zombie"]
    /\ StepTo(Parent, "adopt")
    /\ UNCHANGED <<childVars, procVars, subj, to, wakes, callVars, flagVars, ghosts>>

\* INITPROC.process.add_child(): the parent is set, then the child inserted.
add_child ==
    \/ /\ step[Parent] = "adopt"
       /\ parent' = [parent EXCEPT ![seen.child] = InitProc]
       /\ StepTo(Parent, "insert")
       /\ UNCHANGED <<lifecycle, stopped, children, exited_children, wait_event, procVars,
                      subj, to, wakes, rest, seen, callVars, flagVars, ghosts>>
    \/ /\ step[Parent] = "insert"
       /\ children' = [children EXCEPT ![InitProc] = @ \cup {seen.child}]
       /\ subj' = [subj EXCEPT ![Parent] = seen.child]
       /\ StepTo(Parent, IF seen.exited THEN "exit_target" ELSE "done")
       /\ UNCHANGED <<lifecycle, stopped, parent, exited_children, wait_event, procVars, to,
                      wakes, rest, seen, callVars, flagVars, ghosts>>

reparent_next ==
    /\ step[Parent] = "done"
    /\ seen' = Nothing
    /\ subj' = [subj EXCEPT ![Parent] = None]
    /\ to' = [to EXCEPT ![Parent] = None]
    /\ StepTo(Parent, IF rest = {} THEN "gone" ELSE "next")
    /\ UNCHANGED <<childVars, procVars, wakes, rest, callVars, flagVars, ghosts>>

Reparent ==
    \/ take_children \/ read_exited \/ add_child \/ reparent_next \/ Report(Parent)

-----------------------------------------------------------------------------
(* sys_wait4() and sys_waitid().                                           *)

Matching(w) == children[home[w]] \cap want[w]
Zombies(w) == {c \in Matching(w) : lifecycle[c] = "Zombie"}
Events(w) == {c \in Matching(w) : wait_event[c] # "none"}

Return(w) ==
    /\ Goto(w, "user")
    /\ call' = [call EXCEPT ![w] = None]
    /\ want' = [want EXCEPT ![w] = {}]
    /\ found' = [found EXCEPT ![w] = Nothing]
    /\ stale' = [stale EXCEPT ![w] = FALSE]

\* `want` is what pid or idtype/id select; "nohang" is wait4 with WNOHANG.
sys_wait(w, c, S) ==
    /\ pc[w] = "user" /\ alive[home[w]]
    /\ call' = [call EXCEPT ![w] = c]
    /\ want' = [want EXCEPT ![w] = S]
    /\ Goto(w, "observe")
    /\ UNCHANGED <<childVars, procVars, actorVars, found, stale, flagVars, ghosts>>

\* child_event_generation() is read before the scan.
observe_generation(w) ==
    /\ pc[w] = "observe"
    /\ stale' = [stale EXCEPT ![w] = FALSE]
    /\ Goto(w, "scan")
    /\ UNCHANGED <<childVars, procVars, actorVars, call, want, found, flagVars, ghosts>>

\* One scan under the lock of the children: ECHILD, a stop or continue event
\* (if the options ask for them), a zombie, or nothing.
scan_children(w) ==
    /\ pc[w] = "scan"
    /\ \/ /\ Matching(w) = {}
          /\ interrupted' = IF call[w] # "waitid" THEN [interrupted EXCEPT ![w] = FALSE]
                                                   ELSE interrupted
          /\ Return(w)
       \/ \E c \in Events(w) :
             /\ found' = [found EXCEPT ![w] = [child |-> c, exited |-> FALSE]]
             /\ Goto(w, "consume") /\ UNCHANGED <<call, want, stale, interrupted>>
       \/ \E c \in Zombies(w) :
             /\ found' = [found EXCEPT ![w] = [child |-> c, exited |-> TRUE]]
             /\ Goto(w, "consume") /\ UNCHANGED <<call, want, stale, interrupted>>
       \/ /\ Matching(w) # {} /\ Zombies(w) = {}
          /\ Goto(w, "check") /\ UNCHANGED <<call, want, found, stale, interrupted>>
    /\ UNCHANGED <<childVars, procVars, actorVars, waiting, interruptible, sched, ghosts>>

\* copy_to_user() fails with EFAULT: nothing is consumed.
copy_fault(w) ==
    /\ "fault" \in events
    /\ pc[w] = "consume"
    /\ Return(w)
    /\ UNCHANGED <<childVars, procVars, actorVars, flagVars, ghosts>>

take_wait_event(w) ==
    /\ pc[w] = "consume" /\ ~found[w].exited
    /\ LET c == found[w].child
       IN  wait_event' = IF c \in children[home[w]]
                         THEN [wait_event EXCEPT ![c] = "none"] ELSE wait_event
    /\ interrupted' = IF call[w] # "waitid" THEN [interrupted EXCEPT ![w] = FALSE]
                                             ELSE interrupted
    /\ Return(w)
    /\ UNCHANGED <<lifecycle, stopped, parent, children, exited_children, procVars,
                   actorVars, waiting, interruptible, sched, ghosts>>

\* Mutant: the child is accounted for whether or not it was still there.
mark_reaped_blindly(w) ==
    /\ pc[w] = "consume" /\ found[w].exited
    /\ LET c == found[w].child
       IN  /\ children' = [children EXCEPT ![home[w]] = @ \ {c}]
           /\ lifecycle' = [lifecycle EXCEPT ![c] = "Reaped"]
    /\ Goto(w, "account")
    /\ UNCHANGED <<stopped, parent, exited_children, wait_event, procVars, actorVars, call,
                   want, found, stale, flagVars, ghosts>>

\* The zombie is removed under the lock; a waiter that comes second gets ECHILD.
mark_reaped(w) ==
    /\ pc[w] = "consume" /\ found[w].exited
    /\ LET c == found[w].child
       IN  \/ /\ c \in children[home[w]]
              /\ children' = [children EXCEPT ![home[w]] = @ \ {c}]
              /\ lifecycle' = [lifecycle EXCEPT ![c] = "Reaped"]
              /\ Goto(w, "account") /\ UNCHANGED <<call, want, found, stale>>
           \/ /\ c \notin children[home[w]]
              /\ Return(w) /\ UNCHANGED <<children, lifecycle>>
    /\ UNCHANGED <<stopped, parent, exited_children, wait_event, procVars, actorVars,
                   flagVars, ghosts>>

\* add_child_ticks(), add_child_resource_usage(), remove_exited_child().
account_child(w) ==
    /\ pc[w] = "account"
    /\ LET c == found[w].child
       IN  /\ accounted' = [accounted EXCEPT ![c] = @ + 1]
           /\ exited_children' = [exited_children EXCEPT ![home[w]] = @ \ {c}]
    /\ interrupted' = IF call[w] # "waitid" THEN [interrupted EXCEPT ![w] = FALSE]
                                             ELSE interrupted
    /\ Return(w)
    /\ UNCHANGED <<lifecycle, stopped, parent, children, wait_event, procVars, actorVars,
                   waiting, interruptible, sched, raced>>

\* Nothing to report: WNOHANG returns 0, an interrupted wait EINTR, any other
\* goes to sleep in wait_block_current().
check_interrupted(w) ==
    /\ pc[w] = "check"
    /\ \/ call[w] = "nohang" /\ Return(w) /\ UNCHANGED interrupted
       \/ /\ call[w] # "nohang" /\ interrupted[w]
          /\ interrupted' = [interrupted EXCEPT ![w] = FALSE]
          /\ Return(w)
       \/ /\ call[w] # "nohang" /\ ~interrupted[w]
          /\ Goto(w, "register") /\ UNCHANGED <<call, want, found, stale, interrupted>>
    /\ UNCHANGED <<childVars, procVars, actorVars, waiting, interruptible, sched, ghosts>>

wait_register(w) ==
    /\ pc[w] = "register"
    /\ interruptible' = [interruptible EXCEPT ![w] = TRUE]
    /\ waiting' = [waiting EXCEPT ![w] = TRUE]
    /\ Goto(w, "precheck")
    /\ UNCHANGED <<childVars, procVars, actorVars, call, want, found, stale, interrupted,
                   sched, ghosts>>

\* The task publishes Blocked unless a signal is there already.
wait_prepare(w) ==
    /\ pc[w] = "precheck"
    /\ \/ /\ check_signal_interrupt(w) \/ interrupted[w]
          /\ Goto(w, "signalled") /\ UNCHANGED sched
       \/ /\ ~(check_signal_interrupt(w) \/ interrupted[w])
          /\ sched' = [sched EXCEPT ![w] = "Blocked"]
          /\ Goto(w, "recheck")
    /\ UNCHANGED <<childVars, procVars, actorVars, call, want, found, stale, waiting,
                   interruptible, interrupted, ghosts>>

\* Mutant: the generation is not compared before the task sleeps.
wait_recheck_signals_only(w) ==
    /\ pc[w] = "recheck"
    /\ \/ /\ sched[w] = "Ready" \/ interrupted[w] \/ check_signal_interrupt(w)
          /\ sched' = [sched EXCEPT ![w] = "Running"]
          /\ Goto(w, "resumed")
       \/ /\ ~(sched[w] = "Ready" \/ interrupted[w] \/ check_signal_interrupt(w))
          /\ Goto(w, "sleep") /\ UNCHANGED sched
    /\ UNCHANGED <<childVars, procVars, actorVars, call, want, found, stale, waiting,
                   interruptible, interrupted, ghosts>>

wait_recheck(w) ==
    /\ pc[w] = "recheck"
    /\ \/ /\ sched[w] = "Ready" \/ stale[w] \/ interrupted[w] \/ check_signal_interrupt(w)
          /\ sched' = [sched EXCEPT ![w] = "Running"]
          /\ Goto(w, "resumed")
       \/ /\ ~(sched[w] = "Ready" \/ stale[w] \/ interrupted[w] \/ check_signal_interrupt(w))
          /\ Goto(w, "sleep") /\ UNCHANGED sched
    /\ UNCHANGED <<childVars, procVars, actorVars, call, want, found, stale, waiting,
                   interruptible, interrupted, ghosts>>

\* The task runs again after wakeup_task().
wait_resume(w) ==
    /\ pc[w] = "sleep" /\ sched[w] = "Ready"
    /\ sched' = [sched EXCEPT ![w] = "Running"]
    /\ Goto(w, "resumed")
    /\ UNCHANGED <<childVars, procVars, actorVars, call, want, found, stale, waiting,
                   interruptible, interrupted, ghosts>>

\* wait4 always scans again.  waitid does so when it was not interrupted or
\* some child is indexed as exited; otherwise it returns EINTR.
wait_finish(w) ==
    /\ pc[w] \in {"resumed", "signalled"}
    /\ waiting' = [waiting EXCEPT ![w] = FALSE]
    /\ interruptible' = [interruptible EXCEPT ![w] = FALSE]
    /\ LET hit == pc[w] = "signalled" \/ interrupted[w] \/ check_signal_interrupt(w)
           again == Goto(w, "observe") /\ UNCHANGED <<call, want, found, stale>>
       IN  \/ (call[w] = "wait4" \/ ~hit) /\ again /\ UNCHANGED interrupted
           \/ /\ call[w] = "waitid" /\ hit
              /\ interrupted' = [interrupted EXCEPT ![w] = FALSE]
              /\ IF exited_children[home[w]] # {} THEN again ELSE Return(w)
    /\ UNCHANGED <<childVars, procVars, actorVars, sched, ghosts>>

\* Signals are delivered on the way to user mode.
handle_signal(w) ==
    /\ pc[w] = "user" /\ alive[home[w]] /\ pending[home[w]]
    /\ pending' = [pending EXCEPT ![home[w]] = FALSE]
    /\ UNCHANGED <<childVars, home, sigact, events, alive, actorVars, callVars, flagVars, ghosts>>

Wait(w) ==
    \/ observe_generation(w) \/ scan_children(w) \/ take_wait_event(w) \/ mark_reaped(w)
    \/ account_child(w) \/ check_interrupted(w) \/ wait_register(w) \/ wait_prepare(w)
    \/ wait_recheck(w) \/ wait_resume(w) \/ wait_finish(w)

-----------------------------------------------------------------------------

Init ==
    /\ \E s \in Scenarios :
          /\ home = s.home /\ sigact = s.sigact /\ events = s.events
          /\ children = s.children
          /\ parent = [c \in Children |-> IF c \in s.children[InitProc] THEN InitProc ELSE Parent]
          /\ lifecycle = [c \in Children |->
                             IF c \in UNION {s.children[p] : p \in Procs} THEN "Running"
                                                                         ELSE "Reaped"]
    /\ stopped = [c \in Children |-> FALSE]
    /\ exited_children = [p \in Procs |-> {}]
    /\ wait_event = [c \in Children |-> "none"]
    /\ pending = [p \in Procs |-> FALSE]
    /\ alive = [p \in Procs |-> TRUE]
    /\ step = [a \in Actors |-> "idle"]
    /\ subj = [a \in Actors |-> IF a \in Children THEN a ELSE None]
    /\ to = [a \in Actors |-> None]
    /\ wakes = [a \in Actors |-> {}]
    /\ rest = {} /\ seen = Nothing
    /\ pc = [w \in Waiters |-> IF home[w] = None THEN "exited" ELSE "user"]
    /\ call = [w \in Waiters |-> None]
    /\ want = [w \in Waiters |-> {}]
    /\ found = [w \in Waiters |-> Nothing]
    /\ stale = [w \in Waiters |-> FALSE]
    /\ waiting = [w \in Waiters |-> FALSE]
    /\ interruptible = [w \in Waiters |-> FALSE]
    /\ interrupted = [w \in Waiters |-> FALSE]
    /\ sched = [w \in Waiters |-> "Running"]
    /\ accounted = [c \in Children |-> 0]
    /\ raced = {}

Next ==
    \/ \E c \in Children : publish_zombie(c) \/ set_wait_event(c) \/ notified(c) \/ Report(c)
    \/ \E p \in Procs : kill(p)
    \/ mark_signal_interrupted(Kill)
    \/ reparent_start \/ Reparent
    \/ \E w \in Waiters :
          \/ Wait(w) \/ copy_fault(w) \/ handle_signal(w)
          \/ \E c \in {"wait4", "waitid", "nohang"}, S \in Selections : sys_wait(w, c, S)

Spec == Init /\ [][Next]_vars

-----------------------------------------------------------------------------
(* Properties.                                                             *)

\* Where an actor may be in a report, and where it knows whom it reports to;
\* where a waiter may be in its call.
Sending == {"mark", "exit_signal", "stop_signal", "interrupt", "publish", "collect", "wake"}
Steps == Sending \cup {"idle", "exit_target", "stop_target", "done", "gone", "take", "next",
                       "adopt", "insert"}
Labels == {"user", "observe", "scan", "consume", "account", "check", "register", "precheck",
           "recheck", "sleep", "resumed", "signalled", "exited"}

\* The variables keep the types of the Rust fields and locals they stand for;
\* a report has a child to report and, once found, a parent to report it to
\* (notify_process_parent_exit() unwraps both).
TypeOK ==
    /\ lifecycle \in [Children -> {"Running", "Zombie", "Reaped"}]
    /\ stopped \in [Children -> BOOLEAN]
    /\ parent \in [Children -> Procs]
    /\ children \in [Procs -> SUBSET Children]
    /\ exited_children \in [Procs -> SUBSET Children]
    /\ wait_event \in [Children -> {"none", "stopped", "continued"}]
    /\ home \in [Waiters -> Procs \cup {None}]
    /\ sigact \in [Procs -> {"default", "handler", "nocldstop", "ignore", "nocldwait"}]
    /\ pending \in [Procs -> BOOLEAN]
    /\ alive \in [Procs -> BOOLEAN]
    /\ step \in [Actors -> Steps]
    /\ subj \in [Actors -> Children \cup {None}]
    /\ to \in [Actors -> Procs \cup {None}]
    /\ wakes \in [Actors -> SUBSET Waiters]
    /\ \A a \in Actors :
          step[a] \in Sending => to[a] \in Procs
    /\ rest \subseteq Children
    /\ seen \in Findings
    /\ pc \in [Waiters -> Labels]
    /\ call \in [Waiters -> {None, "wait4", "waitid", "nohang"}]
    /\ want \in [Waiters -> SUBSET Children]
    /\ found \in [Waiters -> Findings]
    /\ stale \in [Waiters -> BOOLEAN]
    /\ waiting \in [Waiters -> BOOLEAN]
    /\ interruptible \in [Waiters -> BOOLEAN]
    /\ interrupted \in [Waiters -> BOOLEAN]
    /\ sched \in [Waiters -> {"Running", "Blocked", "Ready"}]
    /\ accounted \in [Children -> Nat]
    /\ raced \subseteq Children

Reporting == {"exit_target", "mark", "exit_signal", "interrupt", "publish", "collect"}

\* A report about c is on its way to the waiter w: the generation has not
\* changed yet, the waiters have not been collected, or w is still to be woken.
Coming(c, w) ==
    \E a \in Actors :
        /\ subj[a] = c
        /\ \/ step[a] = "exit_target" /\ parent[c] = home[w]
           \/ step[a] \in Reporting \ {"exit_target"} /\ to[a] = home[w]
           \/ step[a] = "wake" /\ w \in wakes[a]

Asleep(w) == pc[w] = "sleep" /\ sched[w] = "Blocked"

\* No parent sleeps through the exit of a child it waits for: a report that
\* will wake it is on its way.  Left out are children that became zombies
\* between the is_exited() and the add_child() of reparent_children_to_init().
NoMissedZombie ==
    \A w \in Waiters :
        Asleep(w) => \A c \in Zombies(w) \ raced : Coming(c, w)

\* A child is reaped once, by one waiter or by the automatic reaping, and
\* only one waiter adds it to the accounting; until then exactly one process
\* has it as a child, or it is on its way to init.
ReapedOnce ==
    /\ \A w \in Waiters : pc[w] = "account" =>
          /\ accounted[found[w].child] = 0
          /\ \A v \in Waiters \ {w} : pc[v] = "account" => found[v].child # found[w].child
    /\ \A c \in Children :
          /\ accounted[c] <= 1
          /\ lifecycle[c] = "Reaped" <=>
                /\ \A p \in Procs : c \notin children[p]
                /\ c \notin rest
                /\ ~(seen.child = c /\ step[Parent] \in {"adopt", "insert"})

=============================================================================
