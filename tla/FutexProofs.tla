---------------------------- MODULE FutexProofs ----------------------------
(***************************************************************************)
(* Proofs about FUTEX_WAIT, WAKE and REQUEUE for any number of tasks and   *)
(* futex words.                                                            *)
(*                                                                         *)
(* The properties are not inductive: that a completed wait still has its   *)
(* wakeup ahead of it depends on who holds FUTEX_QUEUES, on the flags of   *)
(* the task, and on which entries a wait may have in the queues.  WaitInv  *)
(* records that, task by task.                                             *)
(***************************************************************************)
EXTENDS Futex, SequenceTheorems, FiniteSetTheorems, FunctionTheorems, WellFoundedInduction, TLAPS
USE ZenonT(40)

\* In futex_wait_common(): with FUTEX_QUEUES held, and with a registered wait.
LockPC == {"check", "prepare", "recheck"}
WaitPC == LockPC \cup {"switch", "finish"}

\* Words that no FUTEX_REQUEUE moves waiters to.
PlainKeys == Keys \ {r[2] : r \in Requeues}

WaitInv(t) ==
    /\ pc[t] \in LockPC <=> qlock = t
    /\ pc[t] \in LockPC => waits[t] = "Pending"
    /\ waits[t] # "None" <=> pc[t] \in WaitPC
    /\ waits[t] = "Pending" => \E k \in Keys : QueuedUnder(t, k)
    /\ pc[t] \in LockPC \cup {"switch"} => interruptible[t]
    /\ Asleep(t) /\ waits[t] # "Pending" => inflight[t] > 0 \/ sender[t] = "wake"
    /\ Asleep(t) /\ pending[t] => sender[t] # "none" \/ inflight[t] > 0
    /\ credited[t] => \/ pc[t] \in {"switch", "finish"} /\ waits[t] = "Woken"
                      \/ pc[t] \in {"cleanup", "return"} /\ result[t] = "Ok"
                      \/ pc[t] = "exited"
    /\ \A k \in PlainKeys : QueuedUnder(t, k) => key[t] = k /\ pc[t] \in WaitPC \cup {"cleanup"}

FutexInv ==
    /\ TypeOK
    /\ \A t \in Waiters : WaitInv(t)
    /\ NoLostWake

-----------------------------------------------------------------------------
(* What Keep() leaves.                                                     *)

\* A non-empty set of positions has a first one.
LEMMA FirstPosition ==
    ASSUME NEW I \in SUBSET Nat, I # {}
    PROVE  \E i \in I : \A j \in I : i <= j
<1>1. IsWellFoundedOn(OpToRel(<, Nat), Nat)
  BY NatLessThanWellFounded
<1>2. PICK i \in I : \A j \in I : ~ (<<j, i>> \in OpToRel(<, Nat))
  BY <1>1, WFMin
<1>3. \A j \in I : ~ (j < i)
  BY <1>2 DEF OpToRel
<1> QED
  BY <1>3, SMTT(60)

\* Keep() puts out exactly the entries at the given positions: numbering the
\* positions by rank is an injection between sets of the same size.
LEMMA KeepEntries ==
    ASSUME NEW S, NEW q \in Seq(S), NEW I \in SUBSET DOMAIN q
    PROVE  /\ Keep(q, I) \in Seq(S)
           /\ \A i \in I : \E n \in DOMAIN Keep(q, I) : Keep(q, I)[n] = q[i]
           /\ \A n \in DOMAIN Keep(q, I) : \E i \in I : Keep(q, I)[n] = q[i]
<1> DEFINE upto(i) == {j \in I : j <= i}
           rank == [i \in I |-> Cardinality(upto(i))]
           N == Cardinality(I)
<1>1. DOMAIN q = 1..Len(q) /\ Len(q) \in Nat /\ I \subseteq 1..Len(q)
  BY SMTT(60)
<1>2. IsFiniteSet(I)
  <2>1. IsFiniteSet(1..Len(q))
    BY <1>1, FS_Interval, SMTT(60)
  <2> QED
    BY <1>1, <2>1, FS_Subset
<1>3. N \in Nat
  BY <1>2, FS_CardinalityType
<1>4. ASSUME NEW i \in I PROVE IsFiniteSet(upto(i)) /\ rank[i] \in 1..N
  <2>1. upto(i) \subseteq I /\ i \in upto(i)
    BY <1>1, SMTT(60)
  <2>2. IsFiniteSet(upto(i)) /\ Cardinality(upto(i)) <= N
    BY <1>2, <2>1, FS_Subset
  <2>3. Cardinality(upto(i)) \in Nat /\ Cardinality(upto(i)) # 0
    BY <2>1, <2>2, FS_CardinalityType, FS_EmptySet
  <2> QED
    BY <1>3, <2>2, <2>3, SMTT(60)
<1>5. ASSUME NEW i \in I, NEW j \in I, i < j PROVE rank[i] # rank[j]
  <2>1. upto(i) \subseteq upto(j) /\ j \in upto(j) /\ j \notin upto(i)
    BY <1>1, <1>5, SMTT(60)
  <2>2. IsFiniteSet(upto(j)) /\ IsFiniteSet(upto(i))
    BY <1>4
  <2>3. Cardinality(upto(i)) # Cardinality(upto(j))
    BY <2>1, <2>2, FS_Subset
  <2> QED
    BY <2>3
<1>6. rank \in Injection(I, 1..N)
  <2>1. rank \in [I -> 1..N]
    BY <1>4
  <2>2. \A i, j \in I : rank[i] = rank[j] => i = j
    <3> HIDE DEF rank
    <3>1. \A i, j \in I : i < j \/ j < i \/ i = j
      BY <1>1, SMTT(60)
    <3> QED
      BY <1>5, <3>1
  <2> QED
    BY <2>1, <2>2 DEF Injection, IsInjective
<1>7. IsFiniteSet(1..N) /\ Cardinality(1..N) = N
  BY <1>3, FS_Interval, SMTT(60)
<1>8. rank \in Surjection(I, 1..N)
  BY <1>2, <1>6, <1>7, FS_Injection
<1>9. \A n \in 1..N : \E i \in I : rank[i] = n
  BY <1>8 DEF Surjection
<1> DEFINE at(n) == CHOOSE i \in I : Cardinality(upto(i)) = n
<1>10. \A n \in 1..N : at(n) \in I /\ rank[at(n)] = n
  BY <1>9
<1>11. \A i \in I : at(rank[i]) = i
  BY <1>4, <1>6, <1>10 DEF Injection, IsInjective
<1>12. Keep(q, I) = [n \in 1..N |-> q[at(n)]]
  BY DEF Keep
<1>13. \A n \in 1..N : q[at(n)] \in S
  <2> HIDE DEF at, rank, N
  <2> QED BY <1>1, <1>10, ElementOfSeq
<1>14. Keep(q, I) \in Seq(S)
  <2> HIDE DEF at, N
  <2> QED BY <1>3, <1>12, <1>13, SeqDef, SMTT(60)
<1>15. ASSUME NEW i \in I PROVE \E n \in DOMAIN Keep(q, I) : Keep(q, I)[n] = q[i]
  <2> HIDE DEF at, rank, N
  <2> QED BY <1>4, <1>11, <1>12
<1>16. ASSUME NEW n \in DOMAIN Keep(q, I) PROVE \E i \in I : Keep(q, I)[n] = q[i]
  <2> HIDE DEF at, rank, N
  <2> QED BY <1>10, <1>12
<1> QED
  BY <1>14, <1>15, <1>16

-----------------------------------------------------------------------------
(* What the operations do to the entries in FUTEX_QUEUES.                  *)

Entry(t, k) == [key |-> k, tid |-> t]

LEMMA QueueEntries ==
    ASSUME TypeOK
    PROVE  /\ DOMAIN queue = 1..Len(queue) /\ Len(queue) \in Nat
           /\ \A i \in DOMAIN queue : /\ queue[i].tid \in Waiters /\ queue[i].key \in Keys
                                     /\ queue[i] = Entry(queue[i].tid, queue[i].key)
<1>1. queue \in Seq([key : Keys, tid : Waiters])
  BY DEF TypeOK
<1>2. \A i \in 1..Len(queue) : queue[i] \in [key : Keys, tid : Waiters]
  BY <1>1, ElementOfSeq
<1> QED
  BY <1>1, <1>2, SMTT(60) DEF Entry

\* Keeping the positions that satisfy a condition keeps the entries that do.
LEMMA KeepQueued ==
    ASSUME TypeOK, NEW I \in SUBSET DOMAIN queue, queue' = Keep(queue, I)
    PROVE  /\ queue' \in Seq([key : Keys, tid : Waiters])
           /\ \A u, l : QueuedUnder(u, l)' <=> \E i \in I : queue[i] = Entry(u, l)
<1>1. queue \in Seq([key : Keys, tid : Waiters])
  BY DEF TypeOK
<1>2. /\ queue' \in Seq([key : Keys, tid : Waiters])
      /\ \A i \in I : \E n \in DOMAIN queue' : queue'[n] = queue[i]
      /\ \A n \in DOMAIN queue' : \E i \in I : queue'[n] = queue[i]
  BY <1>1, KeepEntries
<1> QED
  BY <1>2, SMTT(60) DEF QueuedUnder, Entry

LEMMA AppendQueued ==
    ASSUME TypeOK, NEW t \in Waiters, NEW k \in Keys,
           queue' = Append(queue, [key |-> k, tid |-> t])
    PROVE  /\ queue' \in Seq([key : Keys, tid : Waiters])
           /\ \A u \in Waiters, l \in Keys :
                 QueuedUnder(u, l)' <=> QueuedUnder(u, l) \/ (u = t /\ l = k)
<1> DEFINE e == [key |-> k, tid |-> t]
           n == Len(queue)
<1>1. queue \in Seq([key : Keys, tid : Waiters]) /\ e \in [key : Keys, tid : Waiters]
  BY DEF TypeOK
<1>2. /\ queue' \in Seq([key : Keys, tid : Waiters])
      /\ n \in Nat /\ DOMAIN queue = 1..n /\ DOMAIN queue' = 1..(n + 1)
      /\ \A i \in 1..n : queue'[i] = queue[i]
      /\ queue'[n + 1] = e
  BY <1>1, SMTT(60)
<1>3. \A i : i \in 1..(n + 1) <=> i \in 1..n \/ i = n + 1
  BY <1>2, SMTT(60)
<1>4. ASSUME NEW u \in Waiters, NEW l \in Keys
      PROVE  QueuedUnder(u, l)' <=> QueuedUnder(u, l) \/ (u = t /\ l = k)
  <2> HIDE DEF n
  <2>1. QueuedUnder(u, l)' <=> \E i \in 1..(n + 1) : queue'[i] = [key |-> l, tid |-> u]
    BY <1>2 DEF QueuedUnder
  <2>2. QueuedUnder(u, l) <=> \E i \in 1..n : queue[i] = [key |-> l, tid |-> u]
    BY <1>2 DEF QueuedUnder
  <2>3. queue'[n + 1] = [key |-> l, tid |-> u] <=> u = t /\ l = k
    BY <1>2, SMTT(60)
  <2> QED
    BY <1>2, <1>3, <2>1, <2>2, <2>3
<1> QED
  BY <1>2, <1>4

LEMMA UnqueueQueued ==
    ASSUME TypeOK, NEW t \in Waiters, NEW k, queue' = Unqueue(queue, t, k)
    PROVE  /\ queue' \in Seq([key : Keys, tid : Waiters])
           /\ \A u \in Waiters, l \in Keys :
                 QueuedUnder(u, l)' <=> QueuedUnder(u, l) /\ ~ (u = t /\ l = k)
<1> DEFINE I == {i \in DOMAIN queue : ~ (queue[i].tid = t /\ queue[i].key = k)}
<1>1. /\ queue' \in Seq([key : Keys, tid : Waiters])
      /\ \A u, l : QueuedUnder(u, l)' <=> \E i \in I : queue[i] = Entry(u, l)
  BY KeepQueued DEF Unqueue
<1>2. \A i, u, l : queue[i] = Entry(u, l) => queue[i].tid = u /\ queue[i].key = l
  BY SMTT(60) DEF Entry
<1>3. \A u, l : QueuedUnder(u, l) <=> \E i \in DOMAIN queue : queue[i] = Entry(u, l)
  BY DEF QueuedUnder, Entry
<1> QED
  BY <1>1, <1>2, <1>3, SMTT(60)

LEMMA RemoveQueued ==
    ASSUME TypeOK, NEW T \in SUBSET Waiters,
           queue' = Keep(queue, {i \in DOMAIN queue : queue[i].tid \notin T})
    PROVE  /\ queue' \in Seq([key : Keys, tid : Waiters])
           /\ \A u \in Waiters, l \in Keys :
                 QueuedUnder(u, l)' <=> QueuedUnder(u, l) /\ u \notin T
<1> DEFINE I == {i \in DOMAIN queue : queue[i].tid \notin T}
<1>1. /\ queue' \in Seq([key : Keys, tid : Waiters])
      /\ \A u, l : QueuedUnder(u, l)' <=> \E i \in I : queue[i] = Entry(u, l)
  BY KeepQueued
<1>2. \A i, u, l : queue[i] = Entry(u, l) => queue[i].tid = u /\ queue[i].key = l
  BY SMTT(60) DEF Entry
<1>3. \A u, l : QueuedUnder(u, l) <=> \E i \in DOMAIN queue : queue[i] = Entry(u, l)
  BY DEF QueuedUnder, Entry
<1> QED
  BY <1>1, <1>2, <1>3, SMTT(60)

LEMMA RemoveTidQueued ==
    ASSUME TypeOK, NEW t \in Waiters, queue' = remove_tid(queue, t)
    PROVE  /\ queue' \in Seq([key : Keys, tid : Waiters])
           /\ \A u \in Waiters, l \in Keys :
                 QueuedUnder(u, l)' <=> QueuedUnder(u, l) /\ u # t
<1>1. {i \in DOMAIN queue : queue[i].tid # t} = {i \in DOMAIN queue : queue[i].tid \notin {t}}
  OBVIOUS
<1>2. queue' = Keep(queue, {i \in DOMAIN queue : queue[i].tid \notin {t}})
  BY <1>1 DEF remove_tid
<1> QED
  BY <1>2, RemoveQueued
\* The first entry of an open wait under k is one that complete() succeeds
\* for, so a wake passes no entry of a wait that it does not complete.
LEMMA FirstWins ==
    ASSUME TypeOK, NEW k \in Keys, NEW n \in Nat, NEW u \in Waiters,
           waits[u] = "Pending", NEW i \in Matching(k), queue[i].tid = u
    PROVE  \E m \in Wins(k) : queue[m].tid = u /\ (i \in Popped(k, n) => m \in Popped(k, n))
<1> DEFINE M == {j \in Matching(k) : queue[j].tid = u}
<1>1. DOMAIN queue = 1..Len(queue) /\ Len(queue) \in Nat
  BY QueueEntries
<1>2. M \in SUBSET Nat /\ i \in M
  BY <1>1, SMTT(60) DEF Matching
<1>3. PICK m \in M : \A j \in M : m <= j
  BY <1>2, FirstPosition
<1>4. m \in Matching(k) /\ queue[m].tid = u /\ m \in Nat /\ i \in Nat /\ m <= i
  BY <1>2, <1>3
<1>5. m \in Wins(k)
  <2>1. \A j \in Matching(k) : j < m => queue[j].tid # u
    BY <1>1, <1>3, <1>4, SMTT(60) DEF Matching
  <2> QED
    BY <1>4, <2>1 DEF Wins
<1>6. ASSUME i \in Popped(k, n) PROVE m \in Popped(k, n)
  <2> DEFINE A == {j \in Wins(k) : j < m}
             B == {j \in Wins(k) : j < i}
  <2>1. Wins(k) \subseteq 1..Len(queue)
    BY <1>1 DEF Wins, Matching
  <2>2. IsFiniteSet(Wins(k))
    <3>1. IsFiniteSet(1..Len(queue))
      BY <1>1, FS_Interval, SMTT(60)
    <3> QED
      BY <2>1, <3>1, FS_Subset
  <2>3. A \subseteq B /\ B \subseteq Wins(k)
    BY <1>1, <1>4, <2>1, SMTT(60)
  <2>4. IsFiniteSet(B)
    BY <2>2, <2>3, FS_Subset
  <2>5. Cardinality(A) <= Cardinality(B) /\ IsFiniteSet(A)
    BY <2>3, <2>4, FS_Subset
  <2>6. Cardinality(A) \in Nat /\ Cardinality(B) \in Nat
    BY <2>4, <2>5, FS_CardinalityType
  <2>7. Cardinality(B) < n
    BY <1>6 DEF Popped
  <2>8. Cardinality(A) < n
    <3> HIDE DEF A, B
    <3> QED BY <2>5, <2>6, <2>7, SMTT(60)
  <2> QED
    BY <1>4, <2>8 DEF Popped
<1> QED
  BY <1>4, <1>5, <1>6

\* As many wakes as there are tasks complete every open wait under the key.
LEMMA WakeAll ==
    ASSUME TypeOK, NEW k \in Keys, NEW n \in Nat, n >= Cardinality(Waiters),
           NEW m \in Wins(k)
    PROVE  m \in Popped(k, n)
<1> DEFINE A == {j \in Wins(k) : j < m}
           tidOf == [j \in Wins(k) |-> queue[j].tid]
<1>1. /\ DOMAIN queue = 1..Len(queue) /\ Len(queue) \in Nat
      /\ \A j \in DOMAIN queue : queue[j].tid \in Waiters
  BY QueueEntries
<1>2. Wins(k) \subseteq Matching(k) /\ Matching(k) \subseteq 1..Len(queue)
  BY <1>1 DEF Wins, Matching
<1>3. IsFiniteSet(Wins(k))
  <2>1. IsFiniteSet(1..Len(queue))
    BY <1>1, FS_Interval, SMTT(60)
  <2> QED
    BY <1>2, <2>1, FS_Subset
<1>4. IsFiniteSet(Waiters) /\ Cardinality(Waiters) \in Nat
  BY FutexAssumption, FS_CardinalityType
<1>5. tidOf \in Injection(Wins(k), Waiters)
  <2>1. tidOf \in [Wins(k) -> Waiters]
    BY <1>1, <1>2
  <2>2. \A i, j \in Wins(k) : i < j => tidOf[i] # tidOf[j]
    BY <1>2 DEF Wins
  <2>3. \A i, j \in Wins(k) : i < j \/ j < i \/ i = j
    BY <1>1, <1>2, SMTT(60)
  <2>4. \A i, j \in Wins(k) : tidOf[i] = tidOf[j] => i = j
    <3> HIDE DEF tidOf
    <3> QED BY <2>2, <2>3
  <2> QED
    BY <2>1, <2>4 DEF Injection, IsInjective
<1>6. Cardinality(Wins(k)) <= Cardinality(Waiters)
  BY <1>4, <1>5, FS_Injection
<1>7. A \subseteq Wins(k) /\ m \notin A
  BY <1>1, <1>2, SMTT(60)
<1>8. /\ IsFiniteSet(A) /\ Cardinality(A) <= Cardinality(Wins(k))
      /\ Cardinality(A) # Cardinality(Wins(k))
  BY <1>3, <1>7, FS_Subset
<1>9. Cardinality(A) \in Nat /\ Cardinality(Wins(k)) \in Nat
  BY <1>3, <1>8, FS_CardinalityType
<1>10. Cardinality(A) < n
  <2> HIDE DEF A
  <2> QED BY <1>4, <1>6, <1>8, <1>9, SMTT(60)
<1> QED
  BY <1>2, <1>10 DEF Popped

LEMMA WokenPending ==
    ASSUME TypeOK, NEW k \in Keys, NEW n \in Nat
    PROVE  \A u \in WokenTids(k, n) : /\ u \in Waiters
                                      /\ waits[u] = "Pending"
                                      /\ QueuedUnder(u, k)
<1>1. \A i \in DOMAIN queue : /\ queue[i].tid \in Waiters
                              /\ queue[i] = Entry(queue[i].tid, queue[i].key)
  BY QueueEntries
<1>2. \A i \in Wins(k) : i \in DOMAIN queue /\ queue[i].key = k /\ waits[queue[i].tid] = "Pending"
  BY DEF Wins, Matching
<1> QED
  BY <1>1, <1>2 DEF WokenTids, QueuedUnder, Entry

\* What FUTEX_WAKE leaves in the queues.
LEMMA WakeQueued ==
    ASSUME TypeOK, NEW k \in Keys, NEW n \in Nat,
           queue' = Keep(queue, DOMAIN queue \ Popped(k, n))
    PROVE  /\ queue' \in Seq([key : Keys, tid : Waiters])
           /\ \A u \in Waiters, l \in Keys : QueuedUnder(u, l)' => QueuedUnder(u, l)
           /\ \A u \in Waiters, l \in Keys :
                 waits[u] = "Pending" /\ u \notin WokenTids(k, n) /\ QueuedUnder(u, l)
                     => QueuedUnder(u, l)'
           /\ n >= Cardinality(Waiters) =>
                 \A u \in Waiters : waits[u] = "Pending" /\ QueuedUnder(u, k)
                                        => u \in WokenTids(k, n)
<1> DEFINE I == DOMAIN queue \ Popped(k, n)
<1>1. /\ queue' \in Seq([key : Keys, tid : Waiters])
      /\ \A u, l : QueuedUnder(u, l)' <=> \E i \in I : queue[i] = Entry(u, l)
  BY KeepQueued
<1>2. \A i, u, l : queue[i] = Entry(u, l) => queue[i].tid = u /\ queue[i].key = l
  BY SMTT(60) DEF Entry
<1>3. \A u, l : QueuedUnder(u, l) <=> \E i \in DOMAIN queue : queue[i] = Entry(u, l)
  BY DEF QueuedUnder, Entry
<1>4. ASSUME NEW u \in Waiters, NEW l \in Keys,
             waits[u] = "Pending", u \notin WokenTids(k, n), QueuedUnder(u, l)
      PROVE  QueuedUnder(u, l)'
  <2>1. PICK i \in DOMAIN queue : queue[i] = Entry(u, l)
    BY <1>3, <1>4
  <2>2. queue[i].tid = u /\ queue[i].key = l
    BY <1>2, <2>1
  <2>3. i \notin Popped(k, n)
    <3>1. CASE l = k
      <4>1. i \in Matching(k)
        BY <2>2, <3>1 DEF Matching
      <4>2. PICK m \in Wins(k) : queue[m].tid = u /\ (i \in Popped(k, n) => m \in Popped(k, n))
        BY <1>4, <2>2, <4>1, FirstWins
      <4> QED
        BY <1>4, <4>2 DEF WokenTids
    <3>2. CASE l # k
      BY <2>2, <3>2 DEF Popped, Matching
    <3> QED
      BY <3>1, <3>2
  <2> QED
    BY <1>1, <2>1, <2>3
<1>5. ASSUME n >= Cardinality(Waiters), NEW u \in Waiters, waits[u] = "Pending", QueuedUnder(u, k)
      PROVE  u \in WokenTids(k, n)
  <2>1. PICK i \in DOMAIN queue : queue[i] = Entry(u, k)
    BY <1>3, <1>5
  <2>2. i \in Matching(k) /\ queue[i].tid = u
    BY <1>2, <2>1, SMTT(60) DEF Matching
  <2>3. PICK m \in Wins(k) : queue[m].tid = u
    BY <1>5, <2>2, FirstWins, SMTT(60)
  <2>4. m \in Popped(k, n)
    BY <1>5, <2>3, WakeAll
  <2> QED
    BY <2>3, <2>4 DEF WokenTids
<1> QED
  BY <1>1, <1>3, <1>4, <1>5
\* What FUTEX_REQUEUE leaves in the queues: an open wait that it does not
\* complete keeps its entry, perhaps under the target key.
LEMMA RequeueQueued ==
    ASSUME TypeOK, NEW k \in Keys, NEW k2 \in Keys, NEW n \in Nat, NEW m \in Nat,
           futex_requeue_common(k, k2, n, m)
    PROVE  /\ queue' \in Seq([key : Keys, tid : Waiters])
           /\ \A u \in Waiters, l \in Keys : QueuedUnder(u, l)' => QueuedUnder(u, l) \/ l = k2
           /\ \A u \in Waiters, l \in Keys :
                 waits[u] = "Pending" /\ u \notin WokenTids(k, n) /\ QueuedUnder(u, l)
                     => \E l2 \in Keys : QueuedUnder(u, l2)'
<1> DEFINE E == [key : Keys, tid : Waiters]
           P == Popped(k, n)
           rest == Matching(k) \ P
           moved == {i \in rest : Cardinality({j \in rest : j < i}) < m}
           as2(q) == [i \in DOMAIN q |-> [q[i] EXCEPT !.key = k2]]
           q1 == Keep(queue, DOMAIN queue \ (P \cup moved))
           q0 == Keep(queue, moved)
           q2 == as2(q0)
<1>1. CASE k = k2
  <2>1. queue' = Keep(queue, DOMAIN queue \ P)
    BY <1>1 DEF futex_requeue_common
  <2> QED
    BY <2>1, WakeQueued
<1>2. CASE k # k2
  <2>1. queue' = q1 \o q2
    BY <1>2 DEF futex_requeue_common
  <2>2. queue \in Seq(E) /\ DOMAIN queue \ (P \cup moved) \in SUBSET DOMAIN queue
    BY DEF TypeOK
  <2>3. moved \in SUBSET DOMAIN queue
    BY DEF Matching
  <2>4. /\ q1 \in Seq(E)
        /\ \A i \in DOMAIN queue \ (P \cup moved) : \E j \in DOMAIN q1 : q1[j] = queue[i]
        /\ \A j \in DOMAIN q1 : \E i \in DOMAIN queue \ (P \cup moved) : q1[j] = queue[i]
    <3> HIDE DEF P, moved, E
    <3> QED BY <2>2, KeepEntries
  <2>5. /\ q0 \in Seq(E)
        /\ \A i \in moved : \E j \in DOMAIN q0 : q0[j] = queue[i]
        /\ \A j \in DOMAIN q0 : \E i \in moved : q0[j] = queue[i]
    <3> HIDE DEF P, moved, E
    <3> QED BY <2>2, <2>3, KeepEntries
  <2> HIDE DEF P, moved, rest, q1, q0
  <2>6. q0 \in [1..Len(q0) -> E] /\ Len(q0) \in Nat /\ DOMAIN q0 = 1..Len(q0)
    <3> HIDE DEF E
    <3> QED BY <2>5, SMTT(60)
  <2>7. /\ q2 \in Seq(E) /\ Len(q2) = Len(q0) /\ DOMAIN q2 = DOMAIN q0
        /\ \A j \in DOMAIN q0 : q2[j] = Entry(q0[j].tid, k2)
    <3>1. \A j \in DOMAIN q0 : q0[j] \in E /\ q2[j] = [q0[j] EXCEPT !.key = k2]
      BY <2>6
    <3>2. \A j \in DOMAIN q0 : q2[j] = Entry(q0[j].tid, k2) /\ q2[j] \in E
      BY <3>1 DEF Entry
    <3>3. q2 \in [1..Len(q0) -> E]
      BY <2>6, <3>2
    <3> HIDE DEF q2, E
    <3> QED
      BY <2>6, <3>2, <3>3, SMTT(60)
  <2> HIDE DEF q2, E
  <2>8. /\ queue' \in Seq(E)
        /\ \A i \in DOMAIN q1 : i \in DOMAIN queue' /\ queue'[i] = q1[i]
        /\ \A i \in DOMAIN q2 : Len(q1) + i \in DOMAIN queue' /\ queue'[Len(q1) + i] = q2[i]
        /\ \A i \in DOMAIN queue' : i \in DOMAIN q1 \/ (i - Len(q1) \in DOMAIN q2 /\ queue'[i] = q2[i - Len(q1)])
    BY <2>1, <2>4, <2>7, SMTT(60)
  <2>9. \A i, u, l : queue[i] = Entry(u, l) => queue[i].tid = u /\ queue[i].key = l
    BY SMTT(60) DEF Entry
  <2>10. ASSUME NEW u \in Waiters, NEW l \in Keys, QueuedUnder(u, l)'
         PROVE  QueuedUnder(u, l) \/ l = k2
    <3>1. PICK i \in DOMAIN queue' : queue'[i] = Entry(u, l)
      BY <2>10 DEF QueuedUnder, Entry
    <3>2. CASE i \in DOMAIN q1
      BY <2>4, <2>8, <3>1, <3>2 DEF QueuedUnder, Entry
    <3>3. CASE i - Len(q1) \in DOMAIN q2 /\ queue'[i] = q2[i - Len(q1)]
      BY <2>7, <3>1, <3>3, SMTT(60) DEF Entry
    <3> QED
      BY <2>8, <3>2, <3>3
  <2>11. ASSUME NEW u \in Waiters, NEW l \in Keys,
                waits[u] = "Pending", u \notin WokenTids(k, n), QueuedUnder(u, l)
         PROVE  \E l2 \in Keys : QueuedUnder(u, l2)'
    <3>1. PICK i \in DOMAIN queue : queue[i] = Entry(u, l)
      BY <2>11 DEF QueuedUnder, Entry
    <3>2. i \notin P
      <4>1. CASE i \in Matching(k)
        <5>1. PICK w \in Wins(k) : queue[w].tid = u /\ (i \in Popped(k, n) => w \in Popped(k, n))
          BY <2>9, <2>11, <3>1, <4>1, FirstWins, SMTT(60)
        <5> QED
          BY <2>11, <5>1 DEF WokenTids, P
      <4>2. CASE i \notin Matching(k)
        BY <4>2 DEF P, Popped
      <4> QED
        BY <4>1, <4>2
    <3>3. CASE i \in moved
      <4>1. PICK j \in DOMAIN q0 : q0[j] = queue[i]
        BY <2>5, <3>3
      <4>2. q2[j] = Entry(u, k2) /\ j \in DOMAIN q2
        BY <2>7, <2>9, <3>1, <4>1, SMTT(60)
      <4>3. Len(q1) + j \in DOMAIN queue' /\ queue'[Len(q1) + j] = Entry(u, k2)
        BY <2>8, <4>2
      <4> QED
        BY <4>3 DEF QueuedUnder, Entry
    <3>4. CASE i \notin moved
      <4>1. PICK j \in DOMAIN q1 : q1[j] = queue[i]
        BY <2>4, <3>2, <3>4
      <4>2. j \in DOMAIN queue' /\ queue'[j] = Entry(u, l)
        BY <2>8, <3>1, <4>1
      <4> QED
        BY <4>2 DEF QueuedUnder, Entry
    <3> QED
      BY <3>3, <3>4
  <2> QED
    BY <2>8, <2>10, <2>11 DEF E
<1> QED
  BY <1>1, <1>2
-----------------------------------------------------------------------------
(* The inductive invariant is preserved, action by action.                 *)

LEMMA InitInv == Init => FutexInv
<1> SUFFICES ASSUME Init PROVE FutexInv
  OBVIOUS
<1>1. TypeOK
  BY FutexAssumption, SMTT(60) DEF Init, TypeOK, Completion
<1>2. ASSUME NEW u \in Waiters, NEW l PROVE ~ QueuedUnder(u, l)
  BY SMTT(60) DEF Init, QueuedUnder
<1>3. ASSUME NEW u \in Waiters PROVE WaitInv(u)
  BY <1>2, FutexAssumption DEF Init, WaitInv, LockPC, WaitPC, Asleep
<1>4. NoLostWake
  BY <1>2 DEF NoLostWake
<1> QED
  BY <1>1, <1>3, <1>4 DEF FutexInv


LEMMA FutexWaitPrepareInv ==
    ASSUME FutexInv, NEW t \in Waiters, futex_wait_prepare(t)
    PROVE  FutexInv'
<1> USE DEF FutexInv
<1>1. queue' = queue /\ waits' = waits /\ val' = val /\ wakeDue' = wakeDue
  BY DEF futex_wait_prepare, Goto, futexVars, wordVars
<1>2. \A u, l : QueuedUnder(u, l)' <=> QueuedUnder(u, l)
  BY <1>1 DEF QueuedUnder
<1>3. TypeOK'
  BY FutexAssumption DEF futex_wait_prepare, Goto, futexVars, wordVars, taskVars, sigVars, TypeOK
<1>4. ASSUME NEW u \in Waiters PROVE WaitInv(u)'
  BY <1>2, FutexAssumption, SMTT(60) DEF futex_wait_prepare, Goto, futexVars, wordVars, taskVars, sigVars, TypeOK, WaitInv, LockPC, WaitPC, PlainKeys, Asleep
<1>5. NoLostWake'
  BY <1>1, <1>2 DEF NoLostWake
<1> QED
  BY <1>3, <1>4, <1>5

LEMMA FutexWaitResumeInv ==
    ASSUME FutexInv, NEW t \in Waiters, futex_wait_resume(t)
    PROVE  FutexInv'
<1> USE DEF FutexInv
<1>1. queue' = queue /\ waits' = waits /\ val' = val /\ wakeDue' = wakeDue
  BY DEF futex_wait_resume, Goto, futexVars, wordVars
<1>2. \A u, l : QueuedUnder(u, l)' <=> QueuedUnder(u, l)
  BY <1>1 DEF QueuedUnder
<1>3. TypeOK'
  BY FutexAssumption DEF futex_wait_resume, Goto, futexVars, wordVars, taskVars, sigVars, TypeOK
<1>4. ASSUME NEW u \in Waiters PROVE WaitInv(u)'
  BY <1>2, FutexAssumption, SMTT(60) DEF futex_wait_resume, Goto, futexVars, wordVars, taskVars, sigVars, TypeOK, WaitInv, LockPC, WaitPC, PlainKeys, Asleep
<1>5. NoLostWake'
  BY <1>1, <1>2 DEF NoLostWake
<1> QED
  BY <1>3, <1>4, <1>5

LEMMA FutexWaitReturnInv ==
    ASSUME FutexInv, NEW t \in Waiters, futex_wait_return(t)
    PROVE  FutexInv'
<1> USE DEF FutexInv
<1>1. queue' = queue /\ waits' = waits /\ val' = val /\ wakeDue' = wakeDue
  BY DEF futex_wait_return, Goto, futexVars, wordVars
<1>2. \A u, l : QueuedUnder(u, l)' <=> QueuedUnder(u, l)
  BY <1>1 DEF QueuedUnder
<1>3. TypeOK'
  BY FutexAssumption DEF futex_wait_return, Goto, futexVars, wordVars, taskVars, sigVars, TypeOK
<1>4. ASSUME NEW u \in Waiters PROVE WaitInv(u)'
  BY <1>2, FutexAssumption, SMTT(60) DEF futex_wait_return, Goto, futexVars, wordVars, taskVars, sigVars, TypeOK, WaitInv, LockPC, WaitPC, PlainKeys, Asleep
<1>5. NoLostWake'
  BY <1>1, <1>2 DEF NoLostWake
<1> QED
  BY <1>3, <1>4, <1>5

LEMMA WakeupTaskInv ==
    ASSUME FutexInv, NEW t \in Waiters, wakeup_task(t)
    PROVE  FutexInv'
<1> USE DEF FutexInv
<1>1. queue' = queue /\ waits' = waits /\ val' = val /\ wakeDue' = wakeDue
  BY DEF wakeup_task, futexVars, wordVars
<1>2. \A u, l : QueuedUnder(u, l)' <=> QueuedUnder(u, l)
  BY <1>1 DEF QueuedUnder
<1>3. TypeOK'
  BY FutexAssumption, SMTT(60) DEF wakeup_task, futexVars, wordVars, taskVars, sigVars, TypeOK
<1>4. ASSUME NEW u \in Waiters PROVE WaitInv(u)'
  BY <1>2, FutexAssumption DEF wakeup_task, futexVars, wordVars, taskVars, sigVars, TypeOK, WaitInv, LockPC, WaitPC, PlainKeys, Asleep
<1>5. NoLostWake'
  BY <1>1, <1>2 DEF NoLostWake
<1> QED
  BY <1>3, <1>4, <1>5

LEMMA AddSignalInv ==
    ASSUME FutexInv, NEW t \in Waiters, add_signal(t)
    PROVE  FutexInv'
<1> USE DEF FutexInv
<1>1. queue' = queue /\ waits' = waits /\ val' = val /\ wakeDue' = wakeDue
  BY DEF add_signal, SenderGoto, futexVars, wordVars
<1>2. \A u, l : QueuedUnder(u, l)' <=> QueuedUnder(u, l)
  BY <1>1 DEF QueuedUnder
<1>3. TypeOK'
  BY FutexAssumption DEF add_signal, SenderGoto, futexVars, wordVars, taskVars, sigVars, TypeOK
<1>4. ASSUME NEW u \in Waiters PROVE WaitInv(u)'
  BY <1>2, FutexAssumption DEF add_signal, SenderGoto, futexVars, wordVars, taskVars, sigVars, TypeOK, WaitInv, LockPC, WaitPC, PlainKeys, Asleep
<1>5. NoLostWake'
  BY <1>1, <1>2 DEF NoLostWake
<1> QED
  BY <1>3, <1>4, <1>5

LEMMA SenderCheckInv ==
    ASSUME FutexInv, NEW t \in Waiters, sender_check(t)
    PROVE  FutexInv'
<1> USE DEF FutexInv
<1>1. queue' = queue /\ waits' = waits /\ val' = val /\ wakeDue' = wakeDue
  BY DEF sender_check, SenderGoto, check_signal_interrupt, futexVars, wordVars
<1>2. \A u, l : QueuedUnder(u, l)' <=> QueuedUnder(u, l)
  BY <1>1 DEF QueuedUnder
<1>3. TypeOK'
  BY FutexAssumption DEF sender_check, SenderGoto, check_signal_interrupt, futexVars, wordVars, taskVars, sigVars, TypeOK
<1>4. ASSUME NEW u \in Waiters PROVE WaitInv(u)'
  BY <1>2, FutexAssumption, SMTT(60) DEF sender_check, SenderGoto, check_signal_interrupt, futexVars, wordVars, taskVars, sigVars, TypeOK, WaitInv, LockPC, WaitPC, PlainKeys, Asleep
<1>5. NoLostWake'
  BY <1>1, <1>2 DEF NoLostWake
<1> QED
  BY <1>3, <1>4, <1>5

LEMMA SenderMarkInv ==
    ASSUME FutexInv, NEW t \in Waiters, sender_mark(t)
    PROVE  FutexInv'
<1> USE DEF FutexInv
<1>1. queue' = queue /\ waits' = waits /\ val' = val /\ wakeDue' = wakeDue
  BY DEF sender_mark, SenderGoto, futexVars, wordVars
<1>2. \A u, l : QueuedUnder(u, l)' <=> QueuedUnder(u, l)
  BY <1>1 DEF QueuedUnder
<1>3. TypeOK'
  BY FutexAssumption DEF sender_mark, SenderGoto, futexVars, wordVars, taskVars, sigVars, TypeOK
<1>4. ASSUME NEW u \in Waiters PROVE WaitInv(u)'
  BY <1>2, FutexAssumption DEF sender_mark, SenderGoto, futexVars, wordVars, taskVars, sigVars, TypeOK, WaitInv, LockPC, WaitPC, PlainKeys, Asleep
<1>5. NoLostWake'
  BY <1>1, <1>2 DEF NoLostWake
<1> QED
  BY <1>3, <1>4, <1>5

LEMMA SenderVerifyInv ==
    ASSUME FutexInv, NEW t \in Waiters, sender_verify(t)
    PROVE  FutexInv'
<1> USE DEF FutexInv
<1>1. queue' = queue /\ waits' = waits /\ val' = val /\ wakeDue' = wakeDue
  BY DEF sender_verify, SenderGoto, check_signal_interrupt, futexVars, wordVars
<1>2. \A u, l : QueuedUnder(u, l)' <=> QueuedUnder(u, l)
  BY <1>1 DEF QueuedUnder
<1>3. TypeOK'
  <2>1. interrupted' \in [Waiters -> BOOLEAN]
    BY DEF sender_verify, TypeOK
  <2> QED
    BY <2>1 DEF sender_verify, SenderGoto, futexVars, wordVars, taskVars, TypeOK
<1>4. ASSUME NEW u \in Waiters PROVE WaitInv(u)'
  BY <1>2, FutexAssumption, SMTT(60) DEF sender_verify, SenderGoto, check_signal_interrupt, futexVars, wordVars, taskVars, sigVars, TypeOK, WaitInv, LockPC, WaitPC, PlainKeys, Asleep
<1>5. NoLostWake'
  BY <1>1, <1>2 DEF NoLostWake
<1> QED
  BY <1>3, <1>4, <1>5

LEMMA SenderWakeInv ==
    ASSUME FutexInv, NEW t \in Waiters, sender_wake(t)
    PROVE  FutexInv'
<1> USE DEF FutexInv
<1>1. queue' = queue /\ waits' = waits /\ val' = val /\ wakeDue' = wakeDue
  BY DEF sender_wake, SenderGoto, Room, futexVars, wordVars
<1>2. \A u, l : QueuedUnder(u, l)' <=> QueuedUnder(u, l)
  BY <1>1 DEF QueuedUnder
<1>3. TypeOK'
  BY FutexAssumption, SMTT(60) DEF sender_wake, SenderGoto, Room, futexVars, wordVars, taskVars, sigVars, TypeOK
<1>4. ASSUME NEW u \in Waiters PROVE WaitInv(u)'
  BY <1>2, FutexAssumption, SMTT(60) DEF sender_wake, SenderGoto, Room, futexVars, wordVars, taskVars, sigVars, TypeOK, WaitInv, LockPC, WaitPC, PlainKeys, Asleep
<1>5. NoLostWake'
  BY <1>1, <1>2 DEF NoLostWake
<1> QED
  BY <1>3, <1>4, <1>5

LEMMA HandleSignalInv ==
    ASSUME FutexInv, NEW t \in Waiters, handle_signal(t)
    PROVE  FutexInv'
<1> USE DEF FutexInv
<1>1. queue' = queue /\ waits' = waits /\ val' = val /\ wakeDue' = wakeDue
  BY DEF handle_signal, futexVars, wordVars
<1>2. \A u, l : QueuedUnder(u, l)' <=> QueuedUnder(u, l)
  BY <1>1 DEF QueuedUnder
<1>3. TypeOK'
  BY FutexAssumption DEF handle_signal, futexVars, wordVars, taskVars, sigVars, TypeOK
<1>4. ASSUME NEW u \in Waiters PROVE WaitInv(u)'
  BY <1>2, FutexAssumption DEF handle_signal, futexVars, wordVars, taskVars, sigVars, TypeOK, WaitInv, LockPC, WaitPC, PlainKeys, Asleep
<1>5. NoLostWake'
  BY <1>1, <1>2 DEF NoLostWake
<1> QED
  BY <1>3, <1>4, <1>5

LEMMA StoreInv ==
    ASSUME FutexInv, NEW k \in Keys, store(k)
    PROVE  FutexInv'
<1> USE DEF FutexInv
<1>1. \A u, l : QueuedUnder(u, l)' <=> QueuedUnder(u, l)
  BY DEF store, futexVars, QueuedUnder
<1>2. TypeOK'
  BY SMTT(60) DEF store, futexVars, taskVars, sigVars, TypeOK
<1>3. ASSUME NEW u \in Waiters PROVE WaitInv(u)'
  BY <1>1 DEF store, futexVars, taskVars, sigVars, WaitInv, PlainKeys, Asleep
<1>4. ASSUME NEW l \in PlainKeys, val'[l] = 1, l \notin wakeDue'
      PROVE  val[l] = 1 /\ l \notin wakeDue
  BY <1>4, SMTT(60) DEF store, TypeOK, PlainKeys
<1>5. NoLostWake'
  BY <1>1, <1>4 DEF store, futexVars, NoLostWake, PlainKeys
<1> QED
  BY <1>2, <1>3, <1>5

\* Registering: the word still has the expected value, so the new entry owes
\* nothing to an earlier wake.
LEMMA EnqueueInv ==
    ASSUME FutexInv, NEW t \in Waiters, NEW k \in Keys, NEW timed \in BOOLEAN,
           futex_wait_enqueue(t, k, timed)
    PROVE  FutexInv'
<1> USE DEF FutexInv
<1>1. CASE qlock' = t /\ queue' = Append(queue, [key |-> k, tid |-> t])
  <2> DEFINE Registered ==
        /\ pc[t] = "user" /\ qlock = NoTask /\ val[k] = 0
        /\ qlock' = t
        /\ key' = [key EXCEPT ![t] = k]
        /\ interruptible' = [interruptible EXCEPT ![t] = TRUE]
        /\ waits' = [waits EXCEPT ![t] = "Pending"]
        /\ deadline' = [deadline EXCEPT ![t] = timed]
        /\ pc' = [pc EXCEPT ![t] = "check"]
        /\ UNCHANGED <<wordVars, sched, inflight, interrupted, pending,
                       sender, credited, result>>
  <2>1. Registered
    BY <1>1, FutexAssumption DEF futex_wait_enqueue, futexVars, Goto
  <2>2. /\ queue' \in Seq([key : Keys, tid : Waiters])
        /\ \A u \in Waiters, l \in Keys :
              QueuedUnder(u, l)' <=> QueuedUnder(u, l) \/ (u = t /\ l = k)
    BY <1>1, AppendQueued
  <2>3. TypeOK'
    BY <2>1, <2>2 DEF TypeOK, Completion, wordVars
  <2>4. ASSUME NEW u \in Waiters PROVE WaitInv(u)'
    BY <2>1, <2>2, FutexAssumption, SMTT(60)
       DEF TypeOK, WaitInv, LockPC, WaitPC, PlainKeys, Asleep, wordVars
  <2>5. NoLostWake'
    <3> SUFFICES ASSUME NEW l \in PlainKeys, val[l] = 1, l \notin wakeDue,
                        NEW u \in Waiters, waits'[u] = "Pending"
                 PROVE  ~ QueuedUnder(u, l)'
      BY <2>1 DEF NoLostWake, PlainKeys, wordVars
    <3>1. l # k /\ l \in Keys
      BY <2>1, SMTT(60) DEF PlainKeys
    <3>2. CASE u = t
      <4>1. pc[t] \notin WaitPC \cup {"cleanup"}
        BY <2>1 DEF WaitPC, LockPC
      <4> QED
        BY <2>2, <3>1, <3>2, <4>1 DEF WaitInv
    <3>3. CASE u # t
      BY <2>1, <2>2, <3>1, <3>3 DEF NoLostWake, PlainKeys, TypeOK
    <3> QED
      BY <3>2, <3>3
  <2> QED
    BY <2>3, <2>4, <2>5
<1>2. CASE ~ (qlock' = t /\ queue' = Append(queue, [key |-> k, tid |-> t]))
  <2> DEFINE Refused ==
        /\ pc[t] = "user"
        /\ \E r \in {"EAGAIN", "ETIMEDOUT", "EINTR"} : Return(t, r)
        /\ interrupted' \in [Waiters -> BOOLEAN]
        /\ UNCHANGED <<futexVars, wordVars, key, sched, inflight, interruptible,
                       pending, sender, credited>>
  <2>1. Refused
    BY <1>2 DEF futex_wait_enqueue, futexVars, wordVars, sigVars, TypeOK
  <2>2. \A u, l : QueuedUnder(u, l)' <=> QueuedUnder(u, l)
    BY <2>1 DEF futexVars, QueuedUnder
  <2>3. TypeOK'
    <3>1. PICK r \in {"EAGAIN", "ETIMEDOUT", "EINTR"} : result' = [result EXCEPT ![t] = r]
      BY <2>1 DEF Return
    <3>2. result' \in [Waiters -> {"none", "Ok", "EAGAIN", "EINTR", "ETIMEDOUT"}]
      BY <3>1 DEF TypeOK
    <3> QED
      BY <2>1, <3>2 DEF TypeOK, futexVars, wordVars, Return, Goto
  <2>4. ASSUME NEW u \in Waiters PROVE WaitInv(u)'
    BY <2>1, <2>2, FutexAssumption, SMTT(60)
       DEF TypeOK, WaitInv, LockPC, WaitPC, PlainKeys, Asleep, futexVars, wordVars, Return, Goto
  <2>5. NoLostWake'
    BY <2>1, <2>2 DEF futexVars, wordVars, NoLostWake
  <2> QED
    BY <2>3, <2>4, <2>5
<1> QED
  BY <1>1, <1>2

\* Giving up with the lock held: the entry of the wait goes with it.
LEMMA GiveUpInv ==
    ASSUME FutexInv, NEW t \in Waiters, pc[t] \in LockPC, GiveUp(t)
    PROVE  FutexInv'
<1> USE DEF FutexInv
<1>1. /\ queue' \in Seq([key : Keys, tid : Waiters])
      /\ \A u \in Waiters, l \in Keys :
            QueuedUnder(u, l)' <=> QueuedUnder(u, l) /\ ~ (u = t /\ l = key[t])
  <2>1. queue' = Unqueue(queue, t, key[t])
    BY DEF GiveUp
  <2> QED
    BY <2>1, UnqueueQueued
<1>2. TypeOK'
  BY <1>1 DEF GiveUp, Return, Goto, TypeOK, Completion, wordVars
<1>3. ASSUME NEW u \in Waiters PROVE WaitInv(u)'
  BY <1>1, FutexAssumption, SMTT(60)
     DEF GiveUp, Return, Goto, TypeOK, Completion, wordVars, WaitInv, LockPC, WaitPC, PlainKeys, Asleep
<1>4. NoLostWake'
  BY <1>1 DEF GiveUp, TypeOK, NoLostWake, wordVars
<1> QED
  BY <1>2, <1>3, <1>4

LEMMA CheckInv ==
    ASSUME FutexInv, NEW t \in Waiters, futex_wait_check(t)
    PROVE  FutexInv'
<1> USE DEF FutexInv
<1>1. CASE GiveUp(t)
  BY <1>1, GiveUpInv DEF futex_wait_check, LockPC
<1>2. CASE /\ pc[t] = "check" /\ Goto(t, "prepare")
           /\ UNCHANGED <<futexVars, wordVars, key, sched, inflight, sigVars, credited, result>>
  <2>1. \A u, l : QueuedUnder(u, l)' <=> QueuedUnder(u, l)
    BY <1>2 DEF futexVars, QueuedUnder
  <2>2. TypeOK'
    BY <1>2 DEF TypeOK, futexVars, wordVars, sigVars, Goto
  <2>3. ASSUME NEW u \in Waiters PROVE WaitInv(u)'
    BY <1>2, <2>1, SMTT(60) DEF TypeOK, WaitInv, LockPC, WaitPC, PlainKeys, Asleep, futexVars, sigVars, Goto
  <2>4. NoLostWake'
    BY <1>2, <2>1 DEF futexVars, wordVars, NoLostWake
  <2> QED
    BY <2>2, <2>3, <2>4
<1> QED
  BY <1>1, <1>2 DEF futex_wait_check

\* Going to sleep: no deliverable signal is pending at that moment.
LEMMA RecheckInv ==
    ASSUME FutexInv, NEW t \in Waiters, futex_wait_recheck(t)
    PROVE  FutexInv'
<1> USE DEF FutexInv
<1>1. CASE GiveUp(t)
  BY <1>1, GiveUpInv DEF futex_wait_recheck, LockPC
<1>2. CASE /\ pc[t] = "recheck" /\ ~ check_signal_interrupt(t) /\ Goto(t, "switch") /\ qlock' = NoTask
           /\ UNCHANGED <<queue, waits, deadline, wordVars, key, sched, inflight,
                          sigVars, credited, result>>
  <2>1. \A u, l : QueuedUnder(u, l)' <=> QueuedUnder(u, l)
    BY <1>2 DEF QueuedUnder
  <2>2. TypeOK'
    BY <1>2 DEF TypeOK, wordVars, sigVars, Goto
  <2>3. ASSUME NEW u \in Waiters PROVE WaitInv(u)'
    BY <1>2, <2>1, FutexAssumption, SMTT(60)
       DEF TypeOK, WaitInv, LockPC, WaitPC, PlainKeys, Asleep, sigVars, Goto, check_signal_interrupt
  <2>4. NoLostWake'
    BY <1>2, <2>1 DEF wordVars, NoLostWake
  <2> QED
    BY <2>2, <2>3, <2>4
<1> QED
  BY <1>1, <1>2 DEF futex_wait_recheck

LEMMA FinishInv ==
    ASSUME FutexInv, NEW t \in Waiters, futex_wait_finish(t)
    PROVE  FutexInv'
<1> USE DEF FutexInv
<1> DEFINE r == CASE waits[t] = "Interrupted" -> "EINTR"
                  [] waits[t] = "TimedOut" -> "ETIMEDOUT"
                  [] OTHER -> "Ok"
<1>1. r \in {"Ok", "EINTR", "ETIMEDOUT"} /\ (waits[t] = "Woken" => r = "Ok")
  OBVIOUS
<1>2. /\ pc[t] = "finish"
      /\ result' = [result EXCEPT ![t] = r]
      /\ waits' = [waits EXCEPT ![t] = "None"]
      /\ deadline' = [deadline EXCEPT ![t] = FALSE]
      /\ interrupted' = [interrupted EXCEPT ![t] = FALSE]
      /\ pc' = [pc EXCEPT ![t] = "cleanup"]
      /\ UNCHANGED <<queue, qlock, wordVars, key, sched, inflight, interruptible,
                     pending, sender, credited>>
  BY DEF futex_wait_finish, Goto
<1> HIDE DEF r
<1>3. \A u, l : QueuedUnder(u, l)' <=> QueuedUnder(u, l)
  BY <1>2 DEF QueuedUnder
<1>4. TypeOK'
  BY <1>1, <1>2 DEF TypeOK, Completion, wordVars
<1>5. ASSUME NEW u \in Waiters PROVE WaitInv(u)'
  BY <1>1, <1>2, <1>3 DEF TypeOK, WaitInv, LockPC, WaitPC, PlainKeys, Asleep
<1>6. NoLostWake'
  BY <1>2, <1>3 DEF TypeOK, NoLostWake, wordVars
<1> QED
  BY <1>4, <1>5, <1>6

LEMMA CleanupInv ==
    ASSUME FutexInv, NEW t \in Waiters, futex_wait_cleanup(t)
    PROVE  FutexInv'
<1> USE DEF FutexInv
<1>1. /\ queue' \in Seq([key : Keys, tid : Waiters])
      /\ \A u \in Waiters, l \in Keys :
            QueuedUnder(u, l)' <=> QueuedUnder(u, l) /\ ~ (u = t /\ l = key[t])
  <2>1. queue' = Unqueue(queue, t, key[t])
    BY DEF futex_wait_cleanup
  <2> QED
    BY <2>1, UnqueueQueued
<1>2. TypeOK'
  BY <1>1 DEF futex_wait_cleanup, Goto, TypeOK, wordVars, sigVars
<1>3. ASSUME NEW u \in Waiters PROVE WaitInv(u)'
  BY <1>1, SMTT(60) DEF futex_wait_cleanup, Goto, TypeOK, wordVars, sigVars, WaitInv, LockPC, WaitPC, PlainKeys, Asleep
<1>4. NoLostWake'
  BY <1>1 DEF futex_wait_cleanup, NoLostWake, wordVars
<1> QED
  BY <1>2, <1>3, <1>4

\* Completing the open waits of some tasks while the lock is free: none of
\* them holds it, and each has a wakeup on its way.
LEMMA CompletedInv ==
    ASSUME FutexInv, NEW T \in SUBSET Waiters, NEW w \in {"Woken", "TimedOut"},
           \A u \in T : waits[u] = "Pending",
           qlock = NoTask, Room(T),
           waits' = [u \in Waiters |-> IF u \in T THEN w ELSE waits[u]],
           inflight' = [u \in Waiters |-> IF u \in T THEN inflight[u] + 1 ELSE inflight[u]],
           \A u \in Waiters : credited'[u] => credited[u] \/ (w = "Woken" /\ u \in T),
           UNCHANGED <<qlock, pc, key, sched, sigVars, result>>,
           \A u \in Waiters, l \in PlainKeys : QueuedUnder(u, l)' => QueuedUnder(u, l),
           \A u \in Waiters \ T, l \in Keys :
              waits[u] = "Pending" /\ QueuedUnder(u, l) => \E l2 \in Keys : QueuedUnder(u, l2)'
    PROVE  \A u \in Waiters : WaitInv(u)'
<1> USE DEF FutexInv
<1> SUFFICES ASSUME NEW u \in Waiters PROVE WaitInv(u)'
  OBVIOUS
<1>1. inflight[u] \in 0..MaxInflight /\ MaxInflight \in Nat
  BY FutexAssumption DEF TypeOK
<1>2. \A l \in PlainKeys : l \in Keys
  BY DEF PlainKeys
<1>3. WaitInv(u)
  OBVIOUS
<1>4. CASE u \in T
  <2>1. waits'[u] = w /\ inflight'[u] > 0 /\ pc[u] \in {"switch", "finish"}
    BY <1>1, <1>3, <1>4, FutexAssumption, SMTT(60) DEF WaitInv, WaitPC, LockPC
  <2> QED
    BY <1>2, <1>3, <1>4, <2>1, FutexAssumption DEF WaitInv, LockPC, WaitPC, Asleep, sigVars
<1>5. CASE u \notin T
  <2>1. waits'[u] = waits[u] /\ inflight'[u] = inflight[u] /\ (credited'[u] => credited[u])
    BY <1>5
  <2>2. waits[u] = "Pending" => \E l2 \in Keys : QueuedUnder(u, l2)'
    BY <1>3, <1>5 DEF WaitInv
  <2> QED
    BY <1>2, <1>3, <2>1, <2>2 DEF WaitInv, LockPC, WaitPC, Asleep, sigVars
<1> QED
  BY <1>4, <1>5

LEMMA WakeInv ==
    ASSUME FutexInv, NEW k \in Keys, NEW n \in Nat, futex_wake_common(k, n)
    PROVE  FutexInv'
<1> USE DEF FutexInv
<1> DEFINE T == WokenTids(k, n)
<1>1. \A u \in T : u \in Waiters /\ waits[u] = "Pending"
  BY WokenPending
<1>2. /\ queue' \in Seq([key : Keys, tid : Waiters])
      /\ \A u \in Waiters, l \in Keys : QueuedUnder(u, l)' => QueuedUnder(u, l)
      /\ \A u \in Waiters, l \in Keys :
            waits[u] = "Pending" /\ u \notin T /\ QueuedUnder(u, l) => QueuedUnder(u, l)'
      /\ n >= Cardinality(Waiters) =>
            \A u \in Waiters : waits[u] = "Pending" /\ QueuedUnder(u, k) => u \in T
  <2>1. queue' = Keep(queue, DOMAIN queue \ Popped(k, n))
    BY DEF futex_wake_common
  <2> QED
    BY <2>1, WakeQueued
<1>3. /\ qlock = NoTask /\ CompleteWoken(T)
      /\ wakeDue' = IF n >= Cardinality(Waiters) THEN wakeDue \ {k} ELSE wakeDue
      /\ UNCHANGED <<qlock, scenario, val, pc, key, sched, sigVars, result>>
  BY DEF futex_wake_common
<1> HIDE DEF T
<1>4. TypeOK'
  BY <1>1, <1>2, <1>3, FutexAssumption, SMTT(60) DEF TypeOK, Completion, CompleteWoken, Room, sigVars
<1>5. \A u \in Waiters : WaitInv(u)'
  <2>1. T \in SUBSET Waiters
    BY <1>1
  <2>2. \A l \in PlainKeys : l \in Keys
    BY DEF PlainKeys
  <2> QED
    BY <1>1, <1>2, <1>3, <2>1, <2>2, CompletedInv DEF CompleteWoken
<1>6. NoLostWake'
  <2> SUFFICES ASSUME NEW l \in PlainKeys, val[l] = 1, l \notin wakeDue',
                      NEW u \in Waiters, waits'[u] = "Pending"
               PROVE  ~ QueuedUnder(u, l)'
    BY <1>3 DEF NoLostWake, PlainKeys
  <2>1. l \in Keys /\ waits[u] = "Pending" /\ u \notin T
    BY <1>1, <1>3 DEF PlainKeys, CompleteWoken
  <2>2. CASE l \notin wakeDue
    BY <1>2, <2>1, <2>2 DEF NoLostWake, PlainKeys
  <2>3. CASE l = k /\ n >= Cardinality(Waiters)
    BY <1>2, <2>1, <2>3
  <2> QED
    BY <1>3, <2>2, <2>3
<1> QED
  BY <1>4, <1>5, <1>6

LEMMA RequeueInv ==
    ASSUME FutexInv, NEW k \in Keys, NEW k2 \in Keys, <<k, k2>> \in Requeues,
           NEW n \in Nat, NEW m \in Nat, futex_requeue_common(k, k2, n, m)
    PROVE  FutexInv'
<1> USE DEF FutexInv
<1> DEFINE T == WokenTids(k, n)
<1>1. \A u \in T : u \in Waiters /\ waits[u] = "Pending"
  BY WokenPending
<1>2. /\ queue' \in Seq([key : Keys, tid : Waiters])
      /\ \A u \in Waiters, l \in Keys : QueuedUnder(u, l)' => QueuedUnder(u, l) \/ l = k2
      /\ \A u \in Waiters, l \in Keys :
            waits[u] = "Pending" /\ u \notin T /\ QueuedUnder(u, l)
                => \E l2 \in Keys : QueuedUnder(u, l2)'
  BY RequeueQueued
<1>3. /\ qlock = NoTask /\ CompleteWoken(T)
      /\ UNCHANGED <<qlock, wordVars, pc, key, sched, sigVars, result>>
  BY DEF futex_requeue_common
<1> HIDE DEF T
<1>4. TypeOK'
  BY <1>1, <1>2, <1>3, FutexAssumption, SMTT(60) DEF TypeOK, Completion, CompleteWoken, Room, sigVars, wordVars
<1>5. \A l \in PlainKeys : l \in Keys /\ l # k2
  <2>1. <<k, k2>>[2] = k2
    OBVIOUS
  <2> QED
    BY <2>1 DEF PlainKeys
<1>6. \A u \in Waiters : WaitInv(u)'
  <2>1. T \in SUBSET Waiters
    BY <1>1
  <2> QED
    BY <1>1, <1>2, <1>3, <1>5, <2>1, CompletedInv DEF CompleteWoken
<1>7. NoLostWake'
  <2> SUFFICES ASSUME NEW l \in PlainKeys, val[l] = 1, l \notin wakeDue,
                      NEW u \in Waiters, waits'[u] = "Pending"
               PROVE  ~ QueuedUnder(u, l)'
    BY <1>3 DEF NoLostWake, PlainKeys, wordVars
  <2>1. waits[u] = "Pending"
    BY <1>3 DEF CompleteWoken
  <2> QED
    BY <1>2, <1>5, <2>1 DEF NoLostWake, PlainKeys
<1> QED
  BY <1>4, <1>6, <1>7

LEMMA TimeoutsInv ==
    ASSUME FutexInv, NEW T \in SUBSET Waiters, check_futex_timeouts(T)
    PROVE  FutexInv'
<1> USE DEF FutexInv
<1>1. /\ queue' \in Seq([key : Keys, tid : Waiters])
      /\ \A u \in Waiters, l \in Keys : QueuedUnder(u, l)' <=> QueuedUnder(u, l) /\ u \notin T
  <2>1. queue' = Keep(queue, {i \in DOMAIN queue : queue[i].tid \notin T})
    BY DEF check_futex_timeouts
  <2> QED
    BY <2>1, RemoveQueued
<1>2. TypeOK'
  BY <1>1, FutexAssumption, SMTT(60) DEF TypeOK, Completion, check_futex_timeouts, Room, sigVars, wordVars
<1>3. \A l \in PlainKeys : l \in Keys
  BY DEF PlainKeys
<1>4. \A u \in Waiters : WaitInv(u)'
  BY <1>1, <1>3, CompletedInv DEF check_futex_timeouts
<1>5. NoLostWake'
  BY <1>1, <1>3 DEF NoLostWake, PlainKeys, check_futex_timeouts, wordVars
<1> QED
  BY <1>2, <1>4, <1>5

\* A signal that wins an open wait takes its entries away; the sender's own
\* wakeup is still to come.
LEMMA InterruptInv ==
    ASSUME FutexInv, NEW t \in Waiters, interrupt_futex_wait(t)
    PROVE  FutexInv'
<1> USE DEF FutexInv
<1> DEFINE Rest == /\ sender[t] = "futex" /\ qlock = NoTask
                   /\ sender' = [sender EXCEPT ![t] = "wake"]
                   /\ UNCHANGED <<qlock, wordVars, taskVars, interruptible, interrupted,
                                  pending, credited, result>>
<1>1. Rest
  BY DEF interrupt_futex_wait, SenderGoto
<1>2. CASE /\ waits[t] = "Pending"
           /\ waits' = [waits EXCEPT ![t] = "Interrupted"]
           /\ deadline' = [deadline EXCEPT ![t] = FALSE]
           /\ queue' = remove_tid(queue, t)
  <2>1. /\ queue' \in Seq([key : Keys, tid : Waiters])
        /\ \A u \in Waiters, l \in Keys : QueuedUnder(u, l)' <=> QueuedUnder(u, l) /\ u # t
    BY <1>2, RemoveTidQueued
  <2>2. TypeOK'
    BY <1>1, <1>2, <2>1 DEF TypeOK, Completion, wordVars, taskVars
  <2>3. ASSUME NEW u \in Waiters PROVE WaitInv(u)'
    BY <1>1, <1>2, <2>1, FutexAssumption, SMTT(60)
       DEF TypeOK, WaitInv, LockPC, WaitPC, PlainKeys, Asleep, taskVars
  <2>4. NoLostWake'
    BY <1>1, <1>2, <2>1 DEF TypeOK, NoLostWake, wordVars
  <2> QED
    BY <2>2, <2>3, <2>4
<1>3. CASE waits[t] # "Pending" /\ UNCHANGED <<waits, deadline, queue>>
  <2>1. \A u, l : QueuedUnder(u, l)' <=> QueuedUnder(u, l)
    BY <1>3 DEF QueuedUnder
  <2>2. TypeOK'
    BY <1>1, <1>3 DEF TypeOK, wordVars, taskVars
  <2>3. ASSUME NEW u \in Waiters PROVE WaitInv(u)'
    BY <1>1, <1>3, <2>1 DEF TypeOK, WaitInv, LockPC, WaitPC, PlainKeys, Asleep, taskVars
  <2>4. NoLostWake'
    BY <1>1, <1>3, <2>1 DEF NoLostWake, wordVars
  <2> QED
    BY <2>2, <2>3, <2>4
<1> QED
  BY <1>2, <1>3 DEF interrupt_futex_wait

LEMMA ExitInv ==
    ASSUME FutexInv, NEW t \in Waiters, remove_futex_waiter(t)
    PROVE  FutexInv'
<1> USE DEF FutexInv
<1>1. /\ queue' \in Seq([key : Keys, tid : Waiters])
      /\ \A u \in Waiters, l \in Keys : QueuedUnder(u, l)' <=> QueuedUnder(u, l) /\ u # t
  <2>1. queue' = remove_tid(queue, t)
    BY DEF remove_futex_waiter
  <2> QED
    BY <2>1, RemoveTidQueued
<1>2. TypeOK'
  BY <1>1 DEF TypeOK, Completion, remove_futex_waiter, Goto, wordVars, sigVars
<1>3. ASSUME NEW u \in Waiters PROVE WaitInv(u)'
  BY <1>1, FutexAssumption, SMTT(60)
     DEF TypeOK, remove_futex_waiter, Goto, WaitInv, LockPC, WaitPC, PlainKeys, Asleep, sigVars
<1>4. NoLostWake'
  BY <1>1 DEF TypeOK, remove_futex_waiter, NoLostWake, wordVars
<1> QED
  BY <1>2, <1>3, <1>4

\* Every step, and stuttering, preserves the invariant.
LEMMA NextInv == FutexInv /\ [Next]_vars => FutexInv'
<1> SUFFICES ASSUME FutexInv, [Next]_vars PROVE FutexInv'
  OBVIOUS
<1>1. /\ scenario.keys \subseteq Keys
      /\ \A r \in Requeues : r[1] \in Keys /\ r[2] \in Keys /\ r = <<r[1], r[2]>>
      /\ Cardinality(Waiters) \in Nat
  BY FutexAssumption, FS_CardinalityType, SMTT(60) DEF FutexInv, TypeOK
<1>2. CASE UNCHANGED vars
  BY <1>2, SMTT(60) DEF FutexInv, vars, futexVars, wordVars, taskVars, sigVars, TypeOK, WaitInv,
              PlainKeys, Asleep, QueuedUnder, NoLostWake
<1>3. ASSUME NEW t \in Waiters, Wait(t) PROVE FutexInv'
  BY <1>3, CheckInv, FutexWaitPrepareInv, RecheckInv, FutexWaitResumeInv, FinishInv,
     CleanupInv, FutexWaitReturnInv DEF Wait
<1>4. ASSUME NEW t \in Waiters, Signal(t) PROVE FutexInv'
  BY <1>4, SenderCheckInv, SenderMarkInv, SenderVerifyInv, InterruptInv, SenderWakeInv DEF Signal
<1>5. ASSUME NEW t \in Waiters,
             wakeup_task(t) \/ add_signal(t) \/ handle_signal(t) \/ remove_futex_waiter(t)
      PROVE  FutexInv'
  BY <1>5, WakeupTaskInv, AddSignalInv, HandleSignalInv, ExitInv
<1>6. ASSUME NEW t \in Waiters, NEW k \in scenario.keys, NEW timed \in BOOLEAN,
             futex_wait_enqueue(t, k, timed)
      PROVE  FutexInv'
  BY <1>1, <1>6, EnqueueInv
<1>7. ASSUME NEW k \in scenario.keys, store(k) PROVE FutexInv'
  BY <1>1, <1>7, StoreInv
<1>8. ASSUME NEW k \in scenario.keys, NEW n \in {1, Cardinality(Waiters)}, futex_wake_common(k, n)
      PROVE  FutexInv'
  BY <1>1, <1>8, WakeInv
<1>9. ASSUME NEW r \in Requeues, NEW n \in {0, 1},
             futex_requeue_common(r[1], r[2], n, Cardinality(Waiters))
      PROVE  FutexInv'
  BY <1>1, <1>9, RequeueInv
<1>10. ASSUME NEW T \in SUBSET Waiters, check_futex_timeouts(T) PROVE FutexInv'
  BY <1>10, TimeoutsInv
<1> QED
  BY <1>2, <1>3, <1>4, <1>5, <1>6, <1>7, <1>8, <1>9, <1>10 DEF Next

\* FutexInv holds in every reachable state of FUTEX_WAIT, WAKE and REQUEUE.
THEOREM FutexInvariant == Spec => []FutexInv
  BY InitInv, NextInv, PTL DEF Spec

-----------------------------------------------------------------------------
(* What follows from it.                                                   *)

\* The queues, FUTEX_WAITS and the task flags keep their types.
THEOREM FutexTypes == Spec => []TypeOK
<1>1. FutexInv => TypeOK
  BY DEF FutexInv
<1> QED
  BY <1>1, FutexInvariant, PTL

\* A sleeping waiter can be reached by a wake, or its wakeup is under way,
\* whatever wakes, requeues, timeouts, signals and exits have raced before.
THEOREM FutexSleepersReachable == Spec => []SleeperReachable
<1>1. FutexInv => SleeperReachable
  <2> SUFFICES ASSUME FutexInv, NEW t \in Waiters, Asleep(t)
               PROVE  \/ waits[t] = "Pending" /\ \E k \in Keys : QueuedUnder(t, k)
                      \/ waits[t] \in {"Woken", "TimedOut", "Interrupted"}
                           /\ (inflight[t] > 0 \/ sender[t] = "wake")
    BY DEF SleeperReachable
  <2>1. WaitInv(t) /\ waits[t] \in Completion /\ pc[t] = "switch"
    BY DEF FutexInv, TypeOK, Asleep
  <2> QED
    BY <2>1 DEF WaitInv, WaitPC, LockPC, Completion
<1> QED
  BY <1>1, FutexInvariant, PTL

\* No waiter sleeps on a deliverable signal that nobody will wake it for.
THEOREM FutexSignalsReach == Spec => []SignalReachesSleeper
<1>1. FutexInv => SignalReachesSleeper
  BY DEF FutexInv, WaitInv, SignalReachesSleeper
<1> QED
  BY <1>1, FutexInvariant, PTL

\* A waiter that a FUTEX_WAKE counted returns success.
THEOREM FutexCountedWakes == Spec => []CountedWakeSucceeds
<1>1. FutexInv => CountedWakeSucceeds
  BY DEF FutexInv, WaitInv, CountedWakeSucceeds
<1> QED
  BY <1>1, FutexInvariant, PTL

\* A full wake after the word changed leaves no wait of the old value behind.
THEOREM FutexNoLostWake == Spec => []NoLostWake
<1>1. FutexInv => NoLostWake
  BY DEF FutexInv
<1> QED
  BY <1>1, FutexInvariant, PTL
=============================================================================
