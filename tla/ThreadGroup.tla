---------------------------- MODULE ThreadGroup ----------------------------
(***************************************************************************)
(* The threads of one process and the three ways they end (task/task.rs):  *)
(* a thread exits by itself (task_exit), one thread takes the whole group  *)
(* down (exit_process_group), or one thread replaces the image of the      *)
(* process and retires its siblings (install_exec_image).  New threads     *)
(* join with clone_().  ProcessState.lifecycle (task/process.rs) decides   *)
(* by compare-and-exchange who owns the transition.                        *)
(*                                                                         *)
(* A thread takes steps only while some CPU owns its context.  It leaves   *)
(* the CPU at user-mode preemption, in a yield loop or at the end of its   *)
(* exit; the scheduler never gives a CPU to a terminated thread again      *)
(* (QuiescentForever of module Handoff).                                   *)
(***************************************************************************)
EXTENDS Integers, FiniteSets

CONSTANTS
    Threads,
    Leader,    \* the thread whose tid is the tgid at the start
    Starters   \* threads that exist at the start

ASSUME ThreadAssumption == Leader \in Starters /\ Starters \subseteq Threads

VARIABLES
    lifecycle,      \* ProcessState.lifecycle
    group_exiting,
    group,          \* ThreadGroup.member
    status,         \* "unborn", "live" (any runnable or blocked state), "Exited"
    terminate,      \* terminate_requested
    onCpu,          \* has_cpu_owner()
    pc,             \* where a thread is in the kernel
    snap,           \* the snapshot of the group a teardown works on
    child,          \* the thread a clone is creating
    leader,         \* the thread whose tid is the tgid
    mem,            \* the address space of the group: "live" or "recycled"
    late            \* threads that joined while a teardown was under way

vars == <<lifecycle, group_exiting, group, status, terminate, onCpu, pc, snap,
          child, leader, mem, late>>

None == "none"

\* Points in the kernel code between which other threads can act.
PC == {"user", "clone", "thread_exit", "group_exit", "lose", "exited", "gone",
       "exiting", "snapshot", "terminate", "await", "cleanup", "recycle", "publish",
       "exec_snapshot", "exec_terminate", "exec_await", "exec_cleanup", "adopt",
       "adopt_join", "install"}

Goto(t, l) == pc' = [pc EXCEPT ![t] = l]

-----------------------------------------------------------------------------
(* Scheduling.                                                             *)

\* fetch_task() and __switch: a thread that is not terminated gets a CPU.
dispatch(t) ==
    /\ ~onCpu[t] /\ status[t] = "live" /\ ~terminate[t]
    /\ \A u \in Threads : ~(pc[u] = "clone" /\ child[u] = t)
    /\ onCpu' = [onCpu EXCEPT ![t] = TRUE]
    /\ UNCHANGED <<lifecycle, group_exiting, group, status, terminate, pc, snap,
                   child, leader, mem, late>>

\* yield_current_task() in a wait loop, or preemption in user mode.
yield_current_task(t) ==
    /\ onCpu[t] /\ pc[t] \in {"user", "lose", "await", "exec_await"}
    /\ onCpu' = [onCpu EXCEPT ![t] = FALSE]
    /\ UNCHANGED <<lifecycle, group_exiting, group, status, terminate, pc, snap,
                   child, leader, mem, late>>

\* switch_to_next_task_after_exit(): a thread that is still Running at this
\* point would be queued again.
switch_to_next_task_after_exit(t) ==
    /\ onCpu[t] /\ pc[t] = "exited"
    /\ onCpu' = [onCpu EXCEPT ![t] = FALSE]
    /\ Goto(t, "gone")
    /\ UNCHANGED <<lifecycle, group_exiting, group, status, terminate, snap,
                   child, leader, mem, late>>

-----------------------------------------------------------------------------
(* clone_(CLONE_THREAD) and the add_task() of sys_clone().                 *)

clone_(t, u) ==
    /\ onCpu[t] /\ pc[t] = "user"
    /\ status[u] = "unborn"
    /\ status' = [status EXCEPT ![u] = "live"]
    /\ group' = group \cup {u}
    /\ child' = [child EXCEPT ![t] = u]
    /\ late' = IF lifecycle \in {"Exec", "Exiting", "Zombie"} THEN late \cup {u} ELSE late
    /\ Goto(t, "clone")
    /\ UNCHANGED <<lifecycle, group_exiting, terminate, onCpu, snap, leader, mem>>

\* add_task() asserts that the new thread is Ready: the kernel stops if a
\* teardown has terminated it in the meantime.
add_task(t) ==
    /\ onCpu[t] /\ pc[t] = "clone"
    /\ status[child[t]] = "live"
    /\ child' = [child EXCEPT ![t] = None]
    /\ Goto(t, "user")
    /\ UNCHANGED <<lifecycle, group_exiting, group, status, terminate, onCpu,
                   snap, leader, mem, late>>

-----------------------------------------------------------------------------
(* task_exit(): the decision is made under the lock of the thread group.   *)

\* The owner of the process exit goes on, everybody else waits to be retired.
begin_exit(t) ==
    /\ \/ lifecycle = "Running" /\ lifecycle' = "Exiting" /\ Goto(t, "exiting")
       \/ lifecycle # "Running" /\ UNCHANGED lifecycle /\ Goto(t, "lose")
    /\ UNCHANGED <<group_exiting, status, terminate, onCpu, snap, child,
                   leader, mem, late>>

task_exit(t) ==
    /\ onCpu[t] /\ pc[t] = "user"
    /\ \/ /\ group_exiting \/ lifecycle # "Running" \/ Cardinality(group) = 1
          /\ Goto(t, "group_exit") /\ UNCHANGED group
       \/ /\ ~(group_exiting \/ lifecycle # "Running" \/ Cardinality(group) = 1)
          /\ group' = group \ {t} /\ Goto(t, "thread_exit")
    /\ UNCHANGED <<lifecycle, group_exiting, status, terminate, onCpu, snap,
                   child, leader, mem, late>>

\* exit_thread_inner(): robust list, clear_child_tid and futex cleanup, which
\* still use the address space, then Exited.
exit_thread_inner(t) ==
    /\ onCpu[t] /\ pc[t] = "thread_exit"
    /\ status' = [status EXCEPT ![t] = "Exited"]
    /\ Goto(t, "exited")
    /\ UNCHANGED <<lifecycle, group_exiting, group, terminate, onCpu, snap,
                   child, leader, mem, late>>

-----------------------------------------------------------------------------
(* exit_process_group().                                                   *)

\* exit_group(2) or a fatal signal.
task_group_exit(t) ==
    /\ onCpu[t] /\ pc[t] = "user"
    /\ Goto(t, "group_exit")
    /\ UNCHANGED <<lifecycle, group_exiting, group, status, terminate, onCpu,
                   snap, child, leader, mem, late>>

exit_process_group(t) ==
    /\ onCpu[t] /\ pc[t] = "group_exit"
    /\ begin_exit(t)
    /\ UNCHANGED group

\* A thread that lost the race yields until the owner has retired it.
lose_returns(t) ==
    /\ onCpu[t] /\ pc[t] = "lose"
    /\ status[t] = "Exited" \/ lifecycle = "Zombie"
    /\ Goto(t, "exited")
    /\ UNCHANGED <<lifecycle, group_exiting, group, status, terminate, onCpu,
                   snap, child, leader, mem, late>>

set_group_exiting(t) ==
    /\ onCpu[t] /\ pc[t] = "exiting"
    /\ group_exiting' = TRUE
    /\ Goto(t, "snapshot")
    /\ UNCHANGED <<lifecycle, group, status, terminate, onCpu, snap, child,
                   leader, mem, late>>

\* The siblings to retire: for exit and for exec.
take_snapshot(t) ==
    /\ onCpu[t] /\ pc[t] \in {"snapshot", "exec_snapshot"}
    /\ snap' = [snap EXCEPT ![t] = group \ {t}]
    /\ Goto(t, IF pc[t] = "snapshot" THEN "terminate" ELSE "exec_terminate")
    /\ UNCHANGED <<lifecycle, group_exiting, group, status, terminate, onCpu,
                   child, leader, mem, late>>

Unasked(t) == {u \in snap[t] : ~terminate[u]}

\* request_termination() and remove_task(), sibling by sibling.
request_termination(t) ==
    /\ onCpu[t] /\ pc[t] \in {"terminate", "exec_terminate"}
    /\ \/ \E u \in Unasked(t) :
             /\ terminate' = [terminate EXCEPT ![u] = TRUE]
             /\ status' = [status EXCEPT ![u] = "Exited"]
             /\ UNCHANGED pc
       \/ /\ Unasked(t) = {}
          /\ Goto(t, IF pc[t] = "terminate" THEN "await" ELSE "exec_await")
          /\ UNCHANGED <<terminate, status>>
    /\ UNCHANGED <<lifecycle, group_exiting, group, onCpu, snap, child, leader,
                   mem, late>>

\* Mutant: the owner does not wait for the CPUs of its siblings.
no_wait_for_siblings(t) ==
    /\ onCpu[t] /\ pc[t] \in {"await", "exec_await"}
    /\ Goto(t, IF pc[t] = "await" THEN "cleanup" ELSE "exec_cleanup")
    /\ UNCHANGED <<lifecycle, group_exiting, group, status, terminate, onCpu,
                   snap, child, leader, mem, late>>

\* Mutant: the owner waits for its own CPU as well.
wait_for_self_too(t) ==
    /\ onCpu[t] /\ pc[t] \in {"await", "exec_await"}
    /\ \A u \in snap[t] \cup {t} : ~onCpu[u]
    /\ Goto(t, IF pc[t] = "await" THEN "cleanup" ELSE "exec_cleanup")
    /\ UNCHANGED <<lifecycle, group_exiting, group, status, terminate, onCpu,
                   snap, child, leader, mem, late>>

\* has_cpu_owner() is false for every sibling of the snapshot.
siblings_quiescent(t) ==
    /\ onCpu[t] /\ pc[t] \in {"await", "exec_await"}
    /\ \A u \in snap[t] : ~onCpu[u]
    /\ Goto(t, IF pc[t] = "await" THEN "cleanup" ELSE "exec_cleanup")
    /\ UNCHANGED <<lifecycle, group_exiting, group, status, terminate, onCpu,
                   snap, child, leader, mem, late>>

\* Thread-private state of everybody in the snapshot and of the owner; only
\* the leader is not marked Exited yet.
cleanup_group(t) ==
    /\ onCpu[t] /\ pc[t] = "cleanup"
    /\ LET head == IF leader \in snap[t] \cup {t} THEN leader ELSE t
       IN  status' = [u \in Threads |->
                        IF u \in (snap[t] \cup {t}) \ {head} THEN "Exited" ELSE status[u]]
    /\ group' = {}
    /\ Goto(t, "recycle")
    /\ UNCHANGED <<lifecycle, group_exiting, terminate, onCpu, snap, child,
                   leader, mem, late>>

\* recycle_data_pages(), retire_asid(), and the descriptor table.
recycle_memory(t) ==
    /\ onCpu[t] /\ pc[t] = "recycle"
    /\ mem' = "recycled"
    /\ Goto(t, "publish")
    /\ UNCHANGED <<lifecycle, group_exiting, group, status, terminate, onCpu,
                   snap, child, leader, late>>

publish_zombie(t) ==
    /\ onCpu[t] /\ pc[t] = "publish"
    /\ lifecycle' = "Zombie"
    /\ LET head == IF leader \in snap[t] \cup {t} THEN leader ELSE t
       IN  status' = [status EXCEPT ![head] = "Exited"]
    /\ Goto(t, "exited")
    /\ UNCHANGED <<group_exiting, group, terminate, onCpu, snap, child, leader,
                   mem, late>>

-----------------------------------------------------------------------------
(* install_exec_image(), from begin_exec() on.                             *)

\* If another exec or exit owns the process, the caller gets EAGAIN.
begin_exec(t) ==
    /\ onCpu[t] /\ pc[t] = "user"
    /\ \/ lifecycle = "Running" /\ lifecycle' = "Exec" /\ Goto(t, "exec_snapshot")
       \/ lifecycle # "Running" /\ UNCHANGED <<lifecycle, pc>>
    /\ UNCHANGED <<group_exiting, group, status, terminate, onCpu, snap, child,
                   leader, mem, late>>

\* The rest of close_other_threads_for_exec(), sibling by sibling.
close_other_thread(t) ==
    /\ onCpu[t] /\ pc[t] = "exec_cleanup"
    /\ \/ \E u \in snap[t] :
             /\ status' = [status EXCEPT ![u] = "Exited"]
             /\ group' = group \ {u}
             /\ snap' = [snap EXCEPT ![t] = @ \ {u}]
             /\ UNCHANGED pc
       \/ snap[t] = {} /\ Goto(t, "adopt") /\ UNCHANGED <<status, group, snap>>
    /\ UNCHANGED <<lifecycle, group_exiting, terminate, onCpu, child, leader,
                   mem, late>>

\* The caller leaves the group under its old tid and joins as the leader.
adopt_process_tgid_for_exec(t) ==
    /\ onCpu[t]
    /\ \/ pc[t] = "adopt" /\ leader = t /\ Goto(t, "install") /\ UNCHANGED <<group, leader>>
       \/ /\ pc[t] = "adopt" /\ leader # t
          /\ group' = group \ {t} /\ Goto(t, "adopt_join") /\ UNCHANGED leader
       \/ /\ pc[t] = "adopt_join"
          /\ group' = group \cup {t} /\ leader' = t /\ Goto(t, "install")
    /\ UNCHANGED <<lifecycle, group_exiting, status, terminate, onCpu, snap,
                   child, mem, late>>

\* The new image is installed; finish_exec() expects to own the transition.
finish_exec(t) ==
    /\ onCpu[t] /\ pc[t] = "install"
    /\ lifecycle = "Exec"
    /\ lifecycle' = "Running"
    /\ Goto(t, "user")
    /\ UNCHANGED <<group_exiting, group, status, terminate, onCpu, snap, child,
                   leader, mem, late>>

-----------------------------------------------------------------------------

Init ==
    /\ lifecycle = "Running"
    /\ group_exiting = FALSE
    /\ group = Starters
    /\ status = [t \in Threads |-> IF t \in Starters THEN "live" ELSE "unborn"]
    /\ terminate = [t \in Threads |-> FALSE]
    /\ onCpu = [t \in Threads |-> FALSE]
    /\ pc = [t \in Threads |-> "user"]
    /\ snap = [t \in Threads |-> {}]
    /\ child = [t \in Threads |-> None]
    /\ leader = Leader
    /\ mem = "live"
    /\ late = {}

\* What a thread does once it is in the kernel.
Step(t) ==
    \/ add_task(t) \/ exit_thread_inner(t) \/ exit_process_group(t)
    \/ lose_returns(t) \/ set_group_exiting(t) \/ take_snapshot(t)
    \/ request_termination(t) \/ siblings_quiescent(t) \/ cleanup_group(t)
    \/ recycle_memory(t) \/ publish_zombie(t) \/ close_other_thread(t)
    \/ adopt_process_tgid_for_exec(t) \/ finish_exec(t)
    \/ switch_to_next_task_after_exit(t)

Next ==
    \E t \in Threads :
       \/ Step(t) \/ dispatch(t) \/ yield_current_task(t)
       \/ task_exit(t) \/ task_group_exit(t) \/ begin_exec(t)
       \/ \E u \in Threads : clone_(t, u)

Spec == Init /\ [][Next]_vars

\* A thread in the kernel goes on, a runnable one gets a CPU, and one in a
\* wait loop or in user mode leaves it again, as often as it takes.
Fairness ==
    \A t \in Threads :
        SF_vars(Step(t)) /\ SF_vars(dispatch(t)) /\ SF_vars(yield_current_task(t))

FairSpec == Spec /\ Fairness

-----------------------------------------------------------------------------
(* Properties.                                                             *)

\* The variables keep the types of the fields they stand for.  A snapshot
\* holds other threads, and a thread that is creating one has a new task.
TypeOK ==
    /\ lifecycle \in {"Running", "Exec", "Exiting", "Zombie"}
    /\ group_exiting \in BOOLEAN
    /\ group \subseteq Threads
    /\ status \in [Threads -> {"unborn", "live", "Exited"}]
    /\ terminate \in [Threads -> BOOLEAN]
    /\ onCpu \in [Threads -> BOOLEAN]
    /\ pc \in [Threads -> PC]
    /\ snap \in [Threads -> SUBSET Threads] /\ \A t \in Threads : t \notin snap[t]
    /\ child \in [Threads -> Threads \cup {None}]
    /\ \A t \in Threads : pc[t] = "clone" => child[t] \in Threads
    /\ leader \in Threads
    /\ mem \in {"live", "recycled"}
    /\ late \subseteq Threads

Owner(t) == pc[t] \in {"exiting", "snapshot", "terminate", "await", "cleanup",
                       "recycle", "publish"}
Execing(t) == pc[t] \in {"exec_snapshot", "exec_terminate", "exec_await",
                         "exec_cleanup", "adopt", "adopt_join", "install"}

\* The compare-and-exchange on the lifecycle gives the process to one thread:
\* whoever is inside a teardown is alone there, the lifecycle says so, and it
\* is not itself retired by another (so the expect() of finish_exec() holds).
OneTeardown ==
    /\ \A t \in Threads : Owner(t) => lifecycle = "Exiting" /\ ~terminate[t]
    /\ \A t \in Threads : Execing(t) => lifecycle = "Exec" /\ ~terminate[t]
    /\ Cardinality({t \in Threads : Owner(t) \/ Execing(t)}) <= 1

\* A running process always has a thread in its group: the last one to leave
\* takes the process exit instead (the size is read under the group's lock).
LastThreadEndsProcess ==
    lifecycle = "Running" => group # {}

\* When the address space is recycled, the only other threads on a CPU are
\* those the snapshot could not contain: threads that joined after the
\* teardown began, and threads that had left the group in task_exit().
RecycledUnderStragglersOnly ==
    \A t, u \in Threads :
        pc[t] = "recycle" /\ u # t /\ onCpu[u] =>
            u \in late \/ pc[u] \in {"thread_exit", "exited"}

\* An exec leaves nobody in the group but its caller and threads that joined
\* behind its back.
ExecLeavesCaller ==
    \A t \in Threads : pc[t] = "install" => group \subseteq {t} \cup late

\* Nobody returns from exit: a thread that was in the group when the teardown
\* began, and went through an exit path, never gets a CPU again
\* (unreachable!() in switch_to_next_task_after_exit).
ExitNeverReturns ==
    \A t \in Threads \ late : pc[t] = "gone" => ~onCpu[t]

\* A teardown ends, if no thread is being created while it runs: the siblings
\* leave their CPUs and those that lost the race for it give way.
TeardownEnds ==
    [](lifecycle = "Running" \/ \A t \in Threads : pc[t] # "clone") =>
        (lifecycle \in {"Exec", "Exiting"} ~> lifecycle \in {"Running", "Zombie"})

\* Exit and exec of a thread group: one owner at a time, no running process without
\* threads, nothing recycled under a thread that the owner knew of, and no thread back
\* from its exit.
TeardownSafe ==
    /\ TypeOK /\ OneTeardown /\ LastThreadEndsProcess /\ RecycledUnderStragglersOnly
    /\ ExecLeavesCaller /\ ExitNeverReturns

=============================================================================
