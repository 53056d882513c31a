-------------------------- MODULE PriorityQueues --------------------------
(***************************************************************************)
(* What the ready queues of the scheduler promise, without the bitmaps and *)
(* the per-task index that make them fast: one FIFO per priority rank, a   *)
(* task in at most one of them, and fetch takes the oldest claimable task  *)
(* of the best rank that has one.                                          *)
(***************************************************************************)
EXTENDS Integers, Sequences, SequencesExt

CONSTANTS
    Tasks,
    Tgid,     \* thread group of every task
    Ranks,    \* priority ranks, 0 first
    NoTask

VARIABLES
    fifo,     \* fifo[r]: the queue of rank r, oldest first
    asleep,   \* tasks waiting for wake()
    result,   \* what the last operation returned
    among     \* and, if it was a fetch, the tasks it could claim

pvars == <<fifo, asleep, result, among>>

Without(q, S) == SelectSeq(q, LAMBDA t : t \notin S)

Init ==
    /\ fifo = [r \in Ranks |-> <<>>]
    /\ asleep = {}
    /\ result = NoTask
    /\ among = {}

Returns(r) == result' = r /\ among' = {}

Add(t, r) ==
    /\ Returns(NoTask)
    /\ UNCHANGED asleep
    /\ fifo' = [s \in Ranks |-> IF s = r THEN Append(Without(fifo[s], {t}), t)
                                ELSE Without(fifo[s], {t})]

\* The ranks that hold a task the calling CPU can claim.
Eligible(claimable) == {r \in Ranks : ToSet(fifo[r]) \cap claimable # {}}

Fetch(claimable) ==
    /\ among' = claimable
    /\ UNCHANGED asleep
    /\ \/ Eligible(claimable) = {} /\ result' = NoTask /\ UNCHANGED fifo
       \/ \E r \in Eligible(claimable) :
             /\ \A s \in Eligible(claimable) : r <= s
             /\ LET t == Head(Without(fifo[r], Tasks \ claimable))
                IN  /\ result' = t
                    /\ fifo' = [fifo EXCEPT ![r] = Without(@, {t})]

\* Tasks leave both the queues and the set of sleepers.
Discard(S) ==
    /\ Returns(NoTask)
    /\ asleep' = asleep \ S
    /\ fifo' = [r \in Ranks |-> Without(fifo[r], S)]

Block(t) == Returns(NoTask) /\ asleep' = asleep \cup {t} /\ UNCHANGED fifo

Wake(t) ==
    /\ Returns(IF t \in asleep THEN t ELSE NoTask)
    /\ asleep' = asleep \ {t}
    /\ UNCHANGED fifo

Next ==
    \/ \E t \in Tasks : \/ Wake(t) \/ Block(t) \/ Discard({t})
                        \/ Discard({u \in Tasks : Tgid[u] = Tgid[t]})
                        \/ \E r \in Ranks : Add(t, r)
    \/ \E claimable \in SUBSET Tasks : Fetch(claimable)

Spec == Init /\ [][Next]_pvars

=============================================================================
