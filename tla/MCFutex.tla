------------------------------ MODULE MCFutex ------------------------------
EXTENDS Futex, TLC

CONSTANTS w1, w2, w3, A, B

\* FUTEX_REQUEUE is used from A to B, as a condition variable does.
AtoB == {<<A, B>>}

\* Two tasks on one word with every kind of event, or three tasks with a
\* requeue between two words and timeouts.
MainScenarios ==
    {[tasks |-> W, keys |-> {A}, events |-> {"signal", "timeout", "exit"}] :
        W \in {V \in SUBSET Waiters : Cardinality(V) = 2}}
    \cup {[tasks |-> Waiters, keys |-> Keys, events |-> {"timeout"}]}

WaiterSymmetry == Permutations(Waiters)
=============================================================================
