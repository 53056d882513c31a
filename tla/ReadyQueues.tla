---------------------------- MODULE ReadyQueues ----------------------------
(***************************************************************************)
(* struct Scheduler (task/scheduler.rs): the real-time, normal and idle    *)
(* ready queues, the bitmaps of non-empty queues, task_index and           *)
(* blocked_tasks.  Every method runs under the scheduler lock and is one   *)
(* action.  What a method reads from the task itself is an input: the      *)
(* queue that ready_queue_for() computes from the scheduling attributes,   *)
(* which other CPUs may change at any time, and for a fetch the set of     *)
(* tasks for which can_be_claimed_on_cpu() answers yes.                    *)
(***************************************************************************)
EXTENDS Integers, FiniteSets, Sequences, SequencesExt

CONSTANTS
    RqTasks,
    Tgid,       \* thread group of every task
    RtMax,      \* highest real-time priority (99)
    NormalMax,  \* highest index of a normal queue (39)
    NoReady,
    NoQueue

ASSUME QueueAssumption == RtMax \in Nat \ {0} /\ NormalMax \in Nat

VARIABLES
    rt_queues,      \* index 0 is never used
    normal_queues,
    idle_queue,
    rt_bitmap,      \* bits that are set: queue i has bit i - 1
    normal_bitmap,
    task_index,
    blocked_tasks,
    result,         \* what the last method returned
    among           \* what the last method was a fetch for: the claimable tasks

rqVars == <<rt_queues, normal_queues, idle_queue, rt_bitmap, normal_bitmap,
          task_index, blocked_tasks, result, among>>

Rt(i) == [class |-> "Rt", idx |-> i]
Normal(i) == [class |-> "Normal", idx |-> i]
Idle == [class |-> "Idle", idx |-> 0]

\* ready_queue_for(): FIFO and RR by priority, OTHER and BATCH by nice value.
ReadyQueue == {Rt(i) : i \in 1..RtMax} \cup {Normal(i) : i \in 0..NormalMax}
              \cup {Idle}

Retain(q, S) == SelectSeq(q, LAMBDA t : t \in S)
Drop(q, t) == Retain(q, RqTasks \ {t})

\* The first claimable task of a queue, if there is one.
HasClaimable(q, claimable) == ToSet(q) \cap claimable # {}
FirstClaimable(q, claimable) == Head(Retain(q, claimable))

\* remove_from_ready_queue(tid, queue) as an update of queues and bitmaps.
\* Queues are passed as a record so that add() can go on from the result.
Queues == [rt |-> rt_queues, normal |-> normal_queues, idle |-> idle_queue,
           rtb |-> rt_bitmap, nb |-> normal_bitmap]

remove_from_ready_queue(Q, t, queue) ==
    LET i == queue.idx IN
    CASE queue.class = "Rt" ->
           [Q EXCEPT !.rt[i] = Drop(@, t),
                     !.rtb = IF Drop(Q.rt[i], t) = <<>> THEN @ \ {i - 1} ELSE @]
      [] queue.class = "Normal" ->
           [Q EXCEPT !.normal[i] = Drop(@, t),
                     !.nb = IF Drop(Q.normal[i], t) = <<>> THEN @ \ {i} ELSE @]
      [] OTHER -> [Q EXCEPT !.idle = Drop(@, t)]

push_back(Q, t, queue) ==
    LET i == queue.idx IN
    CASE queue.class = "Rt" ->
           [Q EXCEPT !.rt[i] = Append(@, t), !.rtb = @ \cup {i - 1}]
      [] queue.class = "Normal" ->
           [Q EXCEPT !.normal[i] = Append(@, t), !.nb = @ \cup {i}]
      [] OTHER -> [Q EXCEPT !.idle = Append(@, t)]

SetQueues(Q) ==
    /\ rt_queues' = Q.rt
    /\ normal_queues' = Q.normal
    /\ idle_queue' = Q.idle
    /\ rt_bitmap' = Q.rtb
    /\ normal_bitmap' = Q.nb

\* A method other than fetch_for_cpu() returns r.
Returns(r) == result' = r /\ among' = {}

-----------------------------------------------------------------------------

RqInit ==
    /\ rt_queues = [i \in 0..RtMax |-> <<>>]
    /\ normal_queues = [i \in 0..NormalMax |-> <<>>]
    /\ idle_queue = <<>>
    /\ rt_bitmap = {}
    /\ normal_bitmap = {}
    /\ task_index = [t \in RqTasks |-> NoQueue]
    /\ blocked_tasks = {}
    /\ among = {}
    /\ result = NoReady

\* Scheduler::add: a task that is queued already leaves its old queue first.
add(t, queue) ==
    LET old == task_index[t]
        Q == IF old = NoQueue THEN Queues
             ELSE remove_from_ready_queue(Queues, t, old)
    IN  /\ SetQueues(push_back(Q, t, queue))
        /\ task_index' = [task_index EXCEPT ![t] = queue]
        /\ Returns(NoReady)
        /\ UNCHANGED blocked_tasks

\* Scheduler::fetch_for_cpu: real-time queues from the highest bit down, then
\* normal queues from the lowest bit up, then the idle queue.
rt_eligible(claimable) ==
    {b \in rt_bitmap : HasClaimable(rt_queues[b + 1], claimable)}
normal_eligible(claimable) ==
    {b \in normal_bitmap : HasClaimable(normal_queues[b], claimable)}

take(t, queue) ==
    /\ result' = t
    /\ SetQueues(remove_from_ready_queue(Queues, t, queue))
    /\ task_index' = [task_index EXCEPT ![t] = NoQueue]

\* Mutant: the real-time bitmap is scanned from the lowest bit.
fetch_rt_lowest(claimable) ==
    \E b \in rt_eligible(claimable) :
       /\ \A d \in rt_eligible(claimable) : b <= d
       /\ take(FirstClaimable(rt_queues[b + 1], claimable), Rt(b + 1))

fetch_rt(claimable) ==
    \E b \in rt_eligible(claimable) :
       /\ \A d \in rt_eligible(claimable) : d <= b
       /\ take(FirstClaimable(rt_queues[b + 1], claimable), Rt(b + 1))

fetch_normal(claimable) ==
    /\ rt_eligible(claimable) = {}
    /\ \E b \in normal_eligible(claimable) :
          /\ \A d \in normal_eligible(claimable) : b <= d
          /\ take(FirstClaimable(normal_queues[b], claimable), Normal(b))

fetch_idle(claimable) ==
    /\ rt_eligible(claimable) = {} /\ normal_eligible(claimable) = {}
    /\ IF HasClaimable(idle_queue, claimable)
       THEN take(FirstClaimable(idle_queue, claimable), Idle)
       ELSE /\ result' = NoReady
            /\ SetQueues(Queues)
            /\ UNCHANGED task_index

fetch_for_cpu(claimable) ==
    /\ fetch_rt(claimable) \/ fetch_normal(claimable) \/ fetch_idle(claimable)
    /\ among' = claimable
    /\ UNCHANGED blocked_tasks

\* Scheduler::remove: from the ready queues and from blocked_tasks.
remove(t) ==
    /\ SetQueues(IF task_index[t] = NoQueue THEN Queues
                 ELSE remove_from_ready_queue(Queues, t, task_index[t]))
    /\ task_index' = [task_index EXCEPT ![t] = NoQueue]
    /\ blocked_tasks' = blocked_tasks \ {t}
    /\ Returns(NoReady)

\* Scheduler::remove_thread_group: every queue is filtered, and the bit of a
\* queue that is empty afterwards is cleared.
remove_thread_group(g) ==
    LET keep == {t \in RqTasks : Tgid[t] # g}
        rt == [i \in 0..RtMax |-> Retain(rt_queues[i], keep)]
        normal == [i \in 0..NormalMax |-> Retain(normal_queues[i], keep)]
    IN  /\ rt_queues' = rt
        /\ normal_queues' = normal
        /\ idle_queue' = Retain(idle_queue, keep)
        /\ rt_bitmap' = {b \in rt_bitmap : rt[b + 1] # <<>>}
        /\ normal_bitmap' = {b \in normal_bitmap : normal[b] # <<>>}
        /\ task_index' = [t \in RqTasks |-> IF t \in keep THEN task_index[t]
                                          ELSE NoQueue]
        /\ blocked_tasks' = blocked_tasks \cap keep
        /\ Returns(NoReady)

block(t) ==
    /\ blocked_tasks' = blocked_tasks \cup {t}
    /\ Returns(NoReady)
    /\ SetQueues(Queues)
    /\ UNCHANGED task_index

wake(t) ==
    /\ Returns(IF t \in blocked_tasks THEN t ELSE NoReady)
    /\ blocked_tasks' = blocked_tasks \ {t}
    /\ SetQueues(Queues)
    /\ UNCHANGED task_index

RqNext ==
    \/ \E t \in RqTasks, queue \in ReadyQueue : add(t, queue)
    \/ \E claimable \in SUBSET RqTasks : fetch_for_cpu(claimable)
    \/ \E t \in RqTasks : \/ remove(t) \/ block(t) \/ wake(t)
                        \/ remove_thread_group(Tgid[t])

RqSpec == RqInit /\ [][RqNext]_rqVars

-----------------------------------------------------------------------------
(* Properties.                                                             *)

\* Rank 0 is real-time priority RtMax; the idle queue comes last.
Fifo(r) == IF r < RtMax THEN rt_queues[RtMax - r]
           ELSE IF r <= RtMax + NormalMax THEN normal_queues[r - RtMax]
           ELSE idle_queue

P == INSTANCE PriorityQueues
     WITH Tasks <- RqTasks, NoTask <- NoReady, Ranks <- 0..(RtMax + NormalMax + 1),
          fifo <- [r \in 0..(RtMax + NormalMax + 1) |-> Fifo(r)],
          asleep <- blocked_tasks

\* The bitmaps and the index never mislead an operation: every method returns
\* and leaves behind what plain priority queues without them would.
RefinesPriorityQueues == P!Spec

=============================================================================
