------------------------- MODULE ThreadGroupProofs -------------------------
(***************************************************************************)
(* Proofs about the end of threads and processes, for any number of        *)
(* threads.  None of the properties is inductive.  What they rest on:      *)
(* terminated threads on a CPU are in the snapshot of a teardown that has  *)
(* yet to wait for them; threads that still act are in the group until it  *)
(* is cleared; and the group holds nobody but those in the snapshot and    *)
(* those that came late.                                                   *)
(***************************************************************************)
EXTENDS ThreadGroup, FiniteSetTheorems, TLAPS
USE ZenonT(40)

Teardown(t) == Owner(t) \/ Execing(t)

\* A thread that will take more steps than those that lead out of the kernel.
Active(u) == /\ status[u] # "unborn" /\ ~terminate[u]
             /\ pc[u] \notin {"thread_exit", "exited", "gone"}

\* The lifecycle names what a teardown is, and there is only one.
Exclusive ==
    /\ \A t \in Threads : Owner(t) => lifecycle = "Exiting" /\ ~terminate[t]
    /\ \A t \in Threads : Execing(t) => lifecycle = "Exec" /\ ~terminate[t]
    /\ \A t, u \in Threads : Teardown(t) /\ Teardown(u) => t = u

Born ==
    \A u \in Threads : /\ onCpu[u] \/ pc[u] # "user" => status[u] # "unborn"
                       /\ terminate[u] => status[u] = "Exited"

\* A terminated thread still has a CPU only while its teardown waits for it.
Awaited ==
    \A u \in Threads : terminate[u] /\ onCpu[u] =>
        \E t \in Threads : /\ pc[t] \in {"terminate", "await", "exec_terminate", "exec_await"}
                           /\ u \in snap[t]

Asked ==
    \A t \in Threads :
        pc[t] \in {"await", "cleanup", "recycle", "publish", "exec_await",
                  "exec_cleanup"} => \A u \in snap[t] : terminate[u]

Cleared == lifecycle = "Zombie" \/ \E t \in Threads : pc[t] \in {"recycle", "publish"}

Enrolled ==
    ~Cleared => \A u \in Threads : Active(u) /\ pc[u] # "adopt_join" => u \in group

Snapped ==
    \A t \in Threads :
        /\ pc[t] \in {"terminate", "await", "cleanup", "exec_terminate", "exec_await",
                      "exec_cleanup"} => group \subseteq {t} \cup snap[t] \cup late
        /\ pc[t] \in {"adopt", "adopt_join", "install"} => group \subseteq {t} \cup late

\* Once the group is cleared, only its owner and late-comers still act.
OnlyLate ==
    Cleared => \A u \in Threads : Active(u) /\ pc[u] \notin {"recycle", "publish"} => u \in late

\* The owner is marked Exited in cleanup_group() or, as head, with the zombie.
HeadLast ==
    \A t \in Threads : pc[t] \in {"recycle", "publish"} /\ status[t] # "Exited" =>
        leader = t \/ leader \notin snap[t] \cup {t}

Finished ==
    \A u \in Threads : /\ pc[u] \in {"exited", "gone"} => status[u] = "Exited" \/ u \in late
                       /\ pc[u] = "gone" /\ u \notin late => ~onCpu[u]

Inv ==
    /\ TypeOK /\ Exclusive /\ Born /\ Awaited /\ Asked /\ Enrolled /\ Snapped
    /\ OnlyLate /\ HeadLast /\ Finished /\ LastThreadEndsProcess

\* The initial state satisfies the invariant.
LEMMA InitInv == Init => Inv
<1> SUFFICES ASSUME Init PROVE Inv
  OBVIOUS
<1>1. /\ lifecycle = "Running" /\ group = Starters /\ late = {} /\ leader = Leader
      /\ \A t \in Threads : /\ pc[t] = "user" /\ ~terminate[t] /\ ~onCpu[t] /\ snap[t] = {}
                            /\ status[t] = IF t \in Starters THEN "live" ELSE "unborn"
  BY DEF Init
<1>2. TypeOK
  BY <1>1, ThreadAssumption DEF Init, TypeOK, PC, None
<1>3. Exclusive /\ Born /\ Awaited /\ Asked /\ Snapped /\ HeadLast /\ Finished
  BY <1>1 DEF Exclusive, Teardown, Owner, Execing, Born, Awaited, Asked, Snapped, HeadLast,
              Finished
<1>4. Enrolled /\ OnlyLate
  BY <1>1 DEF Enrolled, OnlyLate, Cleared, Active
<1>5. LastThreadEndsProcess
  BY <1>1, ThreadAssumption DEF LastThreadEndsProcess
<1> QED
  BY <1>2, <1>3, <1>4, <1>5 DEF Inv

\* Every step of a thread, and stuttering, preserves it.
LEMMA NextInv == Inv /\ [Next]_vars => Inv'
<1> SUFFICES ASSUME Inv, [Next]_vars PROVE Inv'
  OBVIOUS
<1> USE DEF Inv
<1>1. ASSUME NEW t \in Threads, dispatch(t) PROVE Inv'
  <2> USE <1>1 DEF dispatch, TypeOK
  <2>1. TypeOK'
    BY DEF PC
  <2>2. Born'
    BY DEF Born
  <2>3. Awaited'
    BY DEF Awaited
  <2>4. Finished'
    BY DEF Finished
  <2>5. /\ Exclusive'
        /\ Asked'
        /\ Enrolled'
        /\ Snapped'
        /\ OnlyLate'
        /\ HeadLast'
        /\ LastThreadEndsProcess'
    BY DEF Exclusive, Teardown, Owner, Execing, Asked, Enrolled, Cleared,
       Active, Snapped, OnlyLate, HeadLast, LastThreadEndsProcess
  <2> QED
    BY <2>1, <2>2, <2>3, <2>4, <2>5
<1>2. ASSUME NEW t \in Threads, yield_current_task(t) PROVE Inv'
  <2> USE <1>2 DEF yield_current_task, TypeOK
  <2>1. TypeOK'
    BY DEF PC
  <2>2. Born'
    BY DEF Born
  <2>3. Awaited'
    BY DEF Awaited
  <2>4. Finished'
    BY DEF Finished
  <2>5. /\ Exclusive'
        /\ Asked'
        /\ Enrolled'
        /\ Snapped'
        /\ OnlyLate'
        /\ HeadLast'
        /\ LastThreadEndsProcess'
    BY DEF Exclusive, Teardown, Owner, Execing, Asked, Enrolled, Cleared,
       Active, Snapped, OnlyLate, HeadLast, LastThreadEndsProcess
  <2> QED
    BY <2>1, <2>2, <2>3, <2>4, <2>5
<1>3. ASSUME NEW t \in Threads, switch_to_next_task_after_exit(t) PROVE Inv'
  <2> USE <1>3 DEF switch_to_next_task_after_exit, Goto, TypeOK
  <2>1. TypeOK'
    BY DEF PC
  <2>2. Exclusive'
    BY SMTT(60) DEF Exclusive, Teardown, Owner, Execing
  <2>3. Born'
    BY DEF Born
  <2>4. Awaited'
    BY DEF Awaited
  <2>5. Asked'
    BY DEF Asked
  <2>6. Enrolled'
    BY DEF Enrolled, Cleared, Active
  <2>7. Snapped'
    BY DEF Snapped
  <2>8. OnlyLate'
    BY DEF OnlyLate, Cleared, Active
  <2>9. HeadLast'
    BY DEF HeadLast
  <2>10. Finished'
    BY DEF Finished
  <2>11. LastThreadEndsProcess'
    BY DEF LastThreadEndsProcess
  <2> QED
    BY <2>1, <2>2, <2>3, <2>4, <2>5, <2>6, <2>7, <2>8, <2>9, <2>10, <2>11
<1>4. ASSUME NEW t \in Threads, NEW u \in Threads, clone_(t, u) PROVE Inv'
  <2> USE <1>4 DEF clone_, Goto, None, TypeOK
  <2>1. TypeOK'
    BY DEF PC
  <2>2. Exclusive'
    BY SMTT(60) DEF Exclusive, Teardown, Owner, Execing
  <2>3. Born'
    BY DEF Born
  <2>4. Awaited'
    BY DEF Awaited
  <2>5. Asked'
    BY DEF Asked
  <2>6. Enrolled'
    BY DEF Enrolled, Cleared, Active, Born
  <2>7. Snapped'
    BY SMTT(60) DEF Snapped, Exclusive, Teardown, Owner, Execing
  <2>8. OnlyLate'
    BY DEF OnlyLate, Cleared, Active, Exclusive, Teardown, Owner, Execing, Born
  <2>9. HeadLast'
    BY DEF HeadLast, Born
  <2>10. Finished'
    BY DEF Finished, Born
  <2>11. LastThreadEndsProcess'
    BY DEF LastThreadEndsProcess
  <2> QED
    BY <2>1, <2>2, <2>3, <2>4, <2>5, <2>6, <2>7, <2>8, <2>9, <2>10, <2>11
<1>5. ASSUME NEW t \in Threads, add_task(t) PROVE Inv'
  <2> USE <1>5 DEF add_task, Goto, None, TypeOK
  <2>1. TypeOK'
    BY DEF PC
  <2>2. Exclusive'
    BY SMTT(60) DEF Exclusive, Teardown, Owner, Execing
  <2>3. Born'
    BY DEF Born
  <2>4. Awaited'
    BY DEF Awaited
  <2>5. Asked'
    BY DEF Asked
  <2>6. Enrolled'
    BY DEF Enrolled, Cleared, Active
  <2>7. Snapped'
    BY SMTT(60) DEF Snapped
  <2>8. OnlyLate'
    BY DEF OnlyLate, Cleared, Active
  <2>9. HeadLast'
    BY DEF HeadLast
  <2>10. Finished'
    BY DEF Finished
  <2>11. LastThreadEndsProcess'
    BY DEF LastThreadEndsProcess
  <2> QED
    BY <2>1, <2>2, <2>3, <2>4, <2>5, <2>6, <2>7, <2>8, <2>9, <2>10, <2>11
<1>6. ASSUME NEW t \in Threads, task_exit(t) PROVE Inv'
  <2> USE <1>6 DEF task_exit, Goto, TypeOK
  <2>1. TypeOK'
    BY SMTT(60) DEF PC
  <2>2. Exclusive'
    BY SMTT(60) DEF Exclusive, Teardown, Owner, Execing
  <2>3. Born'
    BY DEF Born
  <2>4. Awaited'
    BY DEF Awaited
  <2>5. Asked'
    BY DEF Asked
  <2>6. Enrolled'
    BY SMTT(60) DEF Enrolled, Cleared, Active
  <2>7. Snapped'
    BY SMTT(60) DEF Snapped, Exclusive, Teardown, Owner, Execing
  <2>8. OnlyLate'
    BY DEF OnlyLate, Cleared, Active
  <2>9. HeadLast'
    BY DEF HeadLast
  <2>10. Finished'
    BY DEF Finished
  <2>11. LastThreadEndsProcess'
    <3>1. CASE group' = group
      BY <3>1 DEF LastThreadEndsProcess
    <3>2. CASE group' = group \ {t} /\ Cardinality(group) # 1
      <4>1. Cardinality({t}) = 1
        BY FS_Singleton
      <4>2. group # {t}
        BY <3>2, <4>1, Zenon
      <4>3. lifecycle' = "Running" => group # {}
        BY DEF LastThreadEndsProcess
      <4> QED
        BY <3>2, <4>2, <4>3, SMTT(60) DEF LastThreadEndsProcess
    <3> QED
      BY <3>1, <3>2
  <2> QED
    BY <2>1, <2>2, <2>3, <2>4, <2>5, <2>6, <2>7, <2>8, <2>9, <2>10, <2>11
<1>7. ASSUME NEW t \in Threads, exit_thread_inner(t) PROVE Inv'
  <2> USE <1>7 DEF exit_thread_inner, Goto, TypeOK
  <2>1. TypeOK'
    BY DEF PC
  <2>2. Exclusive'
    BY SMTT(60) DEF Exclusive, Teardown, Owner, Execing
  <2>3. Born'
    BY DEF Born
  <2>4. Awaited'
    BY DEF Awaited
  <2>5. Asked'
    BY DEF Asked
  <2>6. Enrolled'
    BY DEF Enrolled, Cleared, Active
  <2>7. Snapped'
    BY DEF Snapped
  <2>8. OnlyLate'
    BY DEF OnlyLate, Cleared, Active
  <2>9. HeadLast'
    BY DEF HeadLast
  <2>10. Finished'
    BY DEF Finished
  <2>11. LastThreadEndsProcess'
    BY DEF LastThreadEndsProcess
  <2> QED
    BY <2>1, <2>2, <2>3, <2>4, <2>5, <2>6, <2>7, <2>8, <2>9, <2>10, <2>11
<1>8. ASSUME NEW t \in Threads, task_group_exit(t) PROVE Inv'
  <2> USE <1>8 DEF task_group_exit, Goto, TypeOK
  <2>1. TypeOK'
    BY DEF PC
  <2>2. Exclusive'
    BY SMTT(60) DEF Exclusive, Teardown, Owner, Execing
  <2>3. Born'
    BY DEF Born
  <2>4. Awaited'
    BY DEF Awaited
  <2>5. Asked'
    BY DEF Asked
  <2>6. Enrolled'
    BY DEF Enrolled, Cleared, Active
  <2>7. Snapped'
    BY DEF Snapped
  <2>8. OnlyLate'
    BY DEF OnlyLate, Cleared, Active
  <2>9. HeadLast'
    BY DEF HeadLast
  <2>10. Finished'
    BY DEF Finished
  <2>11. LastThreadEndsProcess'
    BY DEF LastThreadEndsProcess
  <2> QED
    BY <2>1, <2>2, <2>3, <2>4, <2>5, <2>6, <2>7, <2>8, <2>9, <2>10, <2>11
<1>9. ASSUME NEW t \in Threads, exit_process_group(t) PROVE Inv'
  <2> USE <1>9 DEF exit_process_group, Goto, begin_exit, TypeOK
  <2>1. TypeOK'
    BY DEF PC
  <2>2. Exclusive'
    BY SMTT(60) DEF Exclusive, Teardown, Owner, Execing, Awaited
  <2>3. Born'
    BY DEF Born
  <2>4. Awaited'
    BY DEF Awaited
  <2>5. Asked'
    BY DEF Asked
  <2>6. Enrolled'
    BY DEF Enrolled, Cleared, Active
  <2>7. Snapped'
    BY SMTT(60) DEF Snapped
  <2>8. OnlyLate'
    BY DEF OnlyLate, Cleared, Active
  <2>9. HeadLast'
    BY DEF HeadLast
  <2>10. Finished'
    BY DEF Finished
  <2>11. LastThreadEndsProcess'
    BY DEF LastThreadEndsProcess
  <2> QED
    BY <2>1, <2>2, <2>3, <2>4, <2>5, <2>6, <2>7, <2>8, <2>9, <2>10, <2>11
<1>10. ASSUME NEW t \in Threads, lose_returns(t) PROVE Inv'
  <2> USE <1>10 DEF lose_returns, Goto, TypeOK
  <2>1. TypeOK'
    BY DEF PC
  <2>2. Exclusive'
    BY SMTT(60) DEF Exclusive, Teardown, Owner, Execing
  <2>3. Born'
    BY DEF Born
  <2>4. Awaited'
    BY DEF Awaited
  <2>5. Asked'
    BY DEF Asked
  <2>6. Enrolled'
    BY DEF Enrolled, Cleared, Active
  <2>7. Snapped'
    BY DEF Snapped
  <2>8. OnlyLate'
    BY DEF OnlyLate, Cleared, Active
  <2>9. HeadLast'
    BY DEF HeadLast
  <2>10. Finished'
    BY DEF Finished, OnlyLate, Cleared, Active, Born
  <2>11. LastThreadEndsProcess'
    BY DEF LastThreadEndsProcess
  <2> QED
    BY <2>1, <2>2, <2>3, <2>4, <2>5, <2>6, <2>7, <2>8, <2>9, <2>10, <2>11
<1>11. ASSUME NEW t \in Threads, set_group_exiting(t) PROVE Inv'
  <2> USE <1>11 DEF set_group_exiting, Goto, TypeOK
  <2>1. TypeOK'
    BY DEF PC
  <2>2. Exclusive'
    BY SMTT(60) DEF Exclusive, Teardown, Owner, Execing
  <2>3. Born'
    BY DEF Born
  <2>4. Awaited'
    BY DEF Awaited
  <2>5. Asked'
    BY DEF Asked
  <2>6. Enrolled'
    BY DEF Enrolled, Cleared, Active
  <2>7. Snapped'
    BY DEF Snapped
  <2>8. OnlyLate'
    BY DEF OnlyLate, Cleared, Active
  <2>9. HeadLast'
    BY DEF HeadLast
  <2>10. Finished'
    BY DEF Finished
  <2>11. LastThreadEndsProcess'
    BY DEF LastThreadEndsProcess
  <2> QED
    BY <2>1, <2>2, <2>3, <2>4, <2>5, <2>6, <2>7, <2>8, <2>9, <2>10, <2>11
<1>12. ASSUME NEW t \in Threads, take_snapshot(t) PROVE Inv'
  <2> USE <1>12 DEF take_snapshot, Goto, TypeOK
  <2>1. TypeOK'
    BY DEF PC
  <2>2. Exclusive'
    BY SMTT(60) DEF Exclusive, Teardown, Owner, Execing
  <2>3. Born'
    BY DEF Born
  <2>4. Awaited'
    BY DEF Awaited
  <2>5. Asked'
    BY DEF Asked
  <2>6. Enrolled'
    BY DEF Enrolled, Cleared, Active
  <2>7. Snapped'
    BY DEF Snapped
  <2>8. OnlyLate'
    BY DEF OnlyLate, Cleared, Active
  <2>9. HeadLast'
    BY DEF HeadLast
  <2>10. Finished'
    BY DEF Finished
  <2>11. LastThreadEndsProcess'
    BY DEF LastThreadEndsProcess
  <2> QED
    BY <2>1, <2>2, <2>3, <2>4, <2>5, <2>6, <2>7, <2>8, <2>9, <2>10, <2>11
<1>13. ASSUME NEW t \in Threads, request_termination(t) PROVE Inv'
  <2> USE <1>13 DEF request_termination, Goto, Unasked, TypeOK
  <2>1. TypeOK'
    BY DEF PC
  <2>2. Exclusive'
    BY SMTT(60) DEF Exclusive, Teardown, Owner, Execing
  <2>3. Born'
    BY DEF Born
  <2>4. Awaited'
    BY SMTT(60) DEF Awaited
  <2>5. Asked'
    BY DEF Asked
  <2>6. Enrolled'
    BY DEF Enrolled, Cleared, Active
  <2>7. Snapped'
    BY SMTT(60) DEF Snapped
  <2>8. OnlyLate'
    BY SMTT(60) DEF OnlyLate, Cleared, Active
  <2>9. HeadLast'
    BY SMTT(60) DEF HeadLast
  <2>10. Finished'
    BY DEF Finished
  <2>11. LastThreadEndsProcess'
    BY DEF LastThreadEndsProcess
  <2> QED
    BY <2>1, <2>2, <2>3, <2>4, <2>5, <2>6, <2>7, <2>8, <2>9, <2>10, <2>11
<1>14. ASSUME NEW t \in Threads, siblings_quiescent(t) PROVE Inv'
  <2> USE <1>14 DEF siblings_quiescent, Goto, TypeOK
  <2>1. TypeOK'
    BY DEF PC
  <2>2. Exclusive'
    BY SMTT(60) DEF Exclusive, Teardown, Owner, Execing
  <2>3. Born'
    BY DEF Born
  <2>4. Awaited'
    BY DEF Awaited, Exclusive, Teardown, Owner, Execing
  <2>5. Asked'
    BY DEF Asked
  <2>6. Enrolled'
    BY DEF Enrolled, Cleared, Active
  <2>7. Snapped'
    BY SMTT(60) DEF Snapped
  <2>8. OnlyLate'
    BY DEF OnlyLate, Cleared, Active
  <2>9. HeadLast'
    BY DEF HeadLast
  <2>10. Finished'
    BY DEF Finished
  <2>11. LastThreadEndsProcess'
    BY DEF LastThreadEndsProcess
  <2> QED
    BY <2>1, <2>2, <2>3, <2>4, <2>5, <2>6, <2>7, <2>8, <2>9, <2>10, <2>11
<1>15. ASSUME NEW t \in Threads, cleanup_group(t) PROVE Inv'
  <2> USE <1>15 DEF cleanup_group, Goto, TypeOK
  <2>1. TypeOK'
    BY DEF PC
  <2>2. Exclusive'
    BY SMTT(60) DEF Exclusive, Teardown, Owner, Execing
  <2>3. Born'
    BY DEF Born
  <2>4. Awaited'
    BY DEF Awaited
  <2>5. Asked'
    BY DEF Asked
  <2>6. Enrolled'
    BY DEF Enrolled, Cleared, Active
  <2>7. Snapped'
    BY DEF Snapped, Exclusive, Teardown, Owner, Execing
  <2>8. OnlyLate'
    BY DEF OnlyLate, Cleared, Active, Exclusive, Teardown, Owner, Execing,
       Asked, Enrolled, Snapped
  <2>9. HeadLast'
    BY DEF HeadLast
  <2>10. Finished'
    BY DEF Finished
  <2>11. LastThreadEndsProcess'
    BY DEF LastThreadEndsProcess, Exclusive, Teardown, Owner, Execing
  <2> QED
    BY <2>1, <2>2, <2>3, <2>4, <2>5, <2>6, <2>7, <2>8, <2>9, <2>10, <2>11
<1>16. ASSUME NEW t \in Threads, recycle_memory(t) PROVE Inv'
  <2> USE <1>16 DEF recycle_memory, Goto, TypeOK
  <2>1. TypeOK'
    BY DEF PC
  <2>2. Exclusive'
    BY SMTT(60) DEF Exclusive, Teardown, Owner, Execing
  <2>3. Born'
    BY DEF Born
  <2>4. Awaited'
    BY DEF Awaited
  <2>5. Asked'
    BY DEF Asked
  <2>6. Enrolled'
    BY DEF Enrolled, Cleared, Active
  <2>7. Snapped'
    BY DEF Snapped
  <2>8. OnlyLate'
    BY DEF OnlyLate, Cleared, Active
  <2>9. HeadLast'
    BY DEF HeadLast
  <2>10. Finished'
    BY DEF Finished
  <2>11. LastThreadEndsProcess'
    BY DEF LastThreadEndsProcess
  <2> QED
    BY <2>1, <2>2, <2>3, <2>4, <2>5, <2>6, <2>7, <2>8, <2>9, <2>10, <2>11
<1>17. ASSUME NEW t \in Threads, publish_zombie(t) PROVE Inv'
  <2> USE <1>17 DEF publish_zombie, Goto, TypeOK
  <2>1. TypeOK'
    BY DEF PC
  <2>2. Exclusive'
    BY DEF Exclusive, Teardown, Owner, Execing
  <2>3. Born'
    BY DEF Born
  <2>4. Awaited'
    BY DEF Awaited
  <2>5. Asked'
    BY DEF Asked
  <2>6. Enrolled'
    BY DEF Enrolled, Cleared, Active
  <2>7. Snapped'
    BY DEF Snapped
  <2>8. OnlyLate'
    BY DEF OnlyLate, Cleared, Active, Exclusive, Teardown, Owner, Execing,
       Asked
  <2>9. HeadLast'
    BY DEF HeadLast
  <2>10. Finished'
    BY DEF Finished, HeadLast
  <2>11. LastThreadEndsProcess'
    BY DEF LastThreadEndsProcess
  <2> QED
    BY <2>1, <2>2, <2>3, <2>4, <2>5, <2>6, <2>7, <2>8, <2>9, <2>10, <2>11
<1>18. ASSUME NEW t \in Threads, begin_exec(t) PROVE Inv'
  <2> USE <1>18 DEF begin_exec, Goto, TypeOK
  <2>1. TypeOK'
    BY DEF PC
  <2>2. Exclusive'
    BY SMTT(60) DEF Exclusive, Teardown, Owner, Execing, Awaited
  <2>3. Born'
    BY DEF Born
  <2>4. Awaited'
    BY DEF Awaited
  <2>5. Asked'
    BY DEF Asked
  <2>6. Enrolled'
    BY DEF Enrolled, Cleared, Active
  <2>7. Snapped'
    BY SMTT(60) DEF Snapped
  <2>8. OnlyLate'
    BY DEF OnlyLate, Cleared, Active
  <2>9. HeadLast'
    BY DEF HeadLast
  <2>10. Finished'
    BY DEF Finished
  <2>11. LastThreadEndsProcess'
    BY DEF LastThreadEndsProcess
  <2> QED
    BY <2>1, <2>2, <2>3, <2>4, <2>5, <2>6, <2>7, <2>8, <2>9, <2>10, <2>11
<1>19. ASSUME NEW t \in Threads, close_other_thread(t) PROVE Inv'
  <2> USE <1>19 DEF close_other_thread, Goto, TypeOK
  <2>1. TypeOK'
    BY SMTT(60) DEF PC
  <2>2. Exclusive'
    BY SMTT(60) DEF Exclusive, Teardown, Owner, Execing
  <2>3. Born'
    BY DEF Born
  <2>4. Awaited'
    BY DEF Awaited, Exclusive, Teardown, Owner, Execing
  <2>5. Asked'
    BY SMTT(60) DEF Asked
  <2>6. Enrolled'
    BY SMTT(60) DEF Enrolled, Cleared, Active, Exclusive, Teardown, Owner, Execing,
       Asked
  <2>7. Snapped'
    BY SMTT(60) DEF Snapped, Exclusive, Teardown, Owner, Execing
  <2>8. OnlyLate'
    BY DEF OnlyLate, Cleared, Active, Exclusive, Teardown, Owner, Execing
  <2>9. HeadLast'
    BY DEF HeadLast
  <2>10. Finished'
    BY DEF Finished
  <2>11. LastThreadEndsProcess'
    BY DEF LastThreadEndsProcess, Exclusive, Teardown, Owner, Execing
  <2> QED
    BY <2>1, <2>2, <2>3, <2>4, <2>5, <2>6, <2>7, <2>8, <2>9, <2>10, <2>11
<1>20. ASSUME NEW t \in Threads, adopt_process_tgid_for_exec(t) PROVE Inv'
  <2> USE <1>20 DEF adopt_process_tgid_for_exec, Goto, TypeOK
  <2>1. TypeOK'
    BY SMTT(60) DEF PC
  <2>2. Exclusive'
    BY SMTT(60) DEF Exclusive, Teardown, Owner, Execing
  <2>3. Born'
    BY DEF Born
  <2>4. Awaited'
    BY DEF Awaited
  <2>5. Asked'
    BY SMTT(60) DEF Asked
  <2>6. Enrolled'
    BY DEF Enrolled, Cleared, Active, Exclusive, Teardown, Owner, Execing
  <2>7. Snapped'
    BY SMTT(60) DEF Snapped, Exclusive, Teardown, Owner, Execing
  <2>8. OnlyLate'
    BY DEF OnlyLate, Cleared, Active
  <2>9. HeadLast'
    BY SMTT(60) DEF HeadLast, Exclusive, Teardown, Owner, Execing
  <2>10. Finished'
    BY DEF Finished
  <2>11. LastThreadEndsProcess'
    BY DEF LastThreadEndsProcess, Exclusive, Teardown, Owner, Execing
  <2> QED
    BY <2>1, <2>2, <2>3, <2>4, <2>5, <2>6, <2>7, <2>8, <2>9, <2>10, <2>11
<1>21. ASSUME NEW t \in Threads, finish_exec(t) PROVE Inv'
  <2> USE <1>21 DEF finish_exec, Goto, TypeOK
  <2>1. TypeOK'
    BY DEF PC
  <2>2. Exclusive'
    BY DEF Exclusive, Teardown, Owner, Execing
  <2>3. Born'
    BY DEF Born
  <2>4. Awaited'
    BY DEF Awaited
  <2>5. Asked'
    BY DEF Asked
  <2>6. Enrolled'
    BY DEF Enrolled, Cleared, Active, Exclusive, Teardown, Owner, Execing
  <2>7. Snapped'
    BY DEF Snapped
  <2>8. OnlyLate'
    BY DEF OnlyLate, Cleared, Active, Exclusive, Teardown, Owner, Execing
  <2>9. HeadLast'
    BY DEF HeadLast
  <2>10. Finished'
    BY DEF Finished
  <2>11. LastThreadEndsProcess'
    BY DEF LastThreadEndsProcess, Exclusive, Teardown, Owner, Execing,
       Enrolled, Active, Cleared, Born
  <2> QED
    BY <2>1, <2>2, <2>3, <2>4, <2>5, <2>6, <2>7, <2>8, <2>9, <2>10, <2>11
<1>22. CASE UNCHANGED vars
  BY <1>22 DEF vars, TypeOK, Exclusive, Teardown, Owner, Execing, Born, Awaited, Asked,
     Enrolled, Cleared, Active, Snapped, OnlyLate, HeadLast, Finished, LastThreadEndsProcess
<1> QED
  BY <1>1, <1>2, <1>3, <1>4, <1>5, <1>6, <1>7, <1>8, <1>9, <1>10, <1>11, <1>12, <1>13, <1>14, <1>15, <1>16, <1>17, <1>18, <1>19, <1>20, <1>21, <1>22 DEF Next, Step

\* Every variable of the thread-group model keeps its type, for any number of
\* threads (ThreadGroup!TypeOK).
THEOREM TypeCorrect == Spec => []TypeOK
<1>1. Inv => TypeOK
  BY DEF Inv
<1> QED
  BY InitInv, NextInv, <1>1, PTL DEF Spec

\* At most one thread is inside exit_process_group() or exec, the lifecycle says
\* which, and nobody terminates it (compare-and-exchange of begin_exit() and
\* begin_exec()).
THEOREM OneTeardownHolds == Spec => []OneTeardown
<1>1. Inv => OneTeardown
  <2> SUFFICES ASSUME Inv
               PROVE  Cardinality({t \in Threads : Owner(t) \/ Execing(t)}) <= 1
    BY DEF Inv, Exclusive, OneTeardown
  <2>1. CASE \A t \in Threads : ~(Owner(t) \/ Execing(t))
    <3>1. {t \in Threads : Owner(t) \/ Execing(t)} = {}
      BY <2>1
    <3> QED
      BY <3>1, FS_EmptySet, SMTT(60)
  <2>2. CASE \E t \in Threads : Owner(t) \/ Execing(t)
    <3>1. PICK o \in Threads : Owner(o) \/ Execing(o)
      BY <2>2
    <3>2. {t \in Threads : Owner(t) \/ Execing(t)} = {o}
      BY <3>1 DEF Inv, Exclusive, Teardown
    <3>3. Cardinality({o}) = 1
      BY FS_Singleton
    <3>4. Cardinality({t \in Threads : Owner(t) \/ Execing(t)}) = 1
      BY <3>2, <3>3, Zenon
    <3> QED
      BY <3>4, SMTT(60)
  <2> QED
    BY <2>1, <2>2
<1> QED
  BY InitInv, NextInv, <1>1, PTL DEF Spec

\* A running process always has a thread in its group (task_exit() reads the
\* size of the group under its lock).
THEOREM LastThreadEndsProcessHolds == Spec => []LastThreadEndsProcess
<1>1. Inv => LastThreadEndsProcess
  BY DEF Inv
<1> QED
  BY InitInv, NextInv, <1>1, PTL DEF Spec

\* A thread that finished an exit path and had not joined during a teardown is
\* never on a CPU again (unreachable!() in switch_to_next_task_after_exit()).
THEOREM ExitNeverReturnsHolds == Spec => []ExitNeverReturns
<1>1. Inv => ExitNeverReturns
  BY DEF Inv, Finished, ExitNeverReturns
<1> QED
  BY InitInv, NextInv, <1>1, PTL DEF Spec

\* An exec leaves its caller and late-comers in the group
\* (close_other_threads_for_exec()).
THEOREM ExecLeavesCallerHolds == Spec => []ExecLeavesCaller
<1>1. Inv => ExecLeavesCaller
  BY DEF Inv, Snapped, ExecLeavesCaller
<1> QED
  BY InitInv, NextInv, <1>1, PTL DEF Spec

\* Whoever is on a CPU when exit_process_group() recycles the address space
\* came late or had already left the group: the snapshot misses nobody else.
THEOREM RecycledUnderStragglersOnlyHolds == Spec => []RecycledUnderStragglersOnly
<1>1. Inv => RecycledUnderStragglersOnly
  <2> SUFFICES ASSUME Inv, NEW t \in Threads, NEW u \in Threads,
                      pc[t] = "recycle", u # t, onCpu[u]
               PROVE  u \in late \/ pc[u] \in {"thread_exit", "exited"}
    BY DEF RecycledUnderStragglersOnly
  <2>1. \A o \in Threads : Teardown(o) => o = t
    BY DEF Inv, Exclusive, Teardown, Owner
  <2>2. ~terminate[u] /\ status[u] # "unborn"
    BY <2>1 DEF Inv, Awaited, Born, Teardown, Owner, Execing
  <2>3. CASE pc[u] \in {"thread_exit", "exited", "gone"}
    BY <2>3 DEF Inv, Finished
  <2>4. CASE pc[u] \notin {"thread_exit", "exited", "gone"}
    BY <2>1, <2>2, <2>4 DEF Inv, OnlyLate, Cleared, Active, Teardown, Owner
  <2> QED
    BY <2>3, <2>4
<1> QED
  BY InitInv, NextInv, <1>1, PTL DEF Spec

\* Exit and exec of a thread group are safe as a whole, for any number of threads:
\* what begin_exit(), begin_exec() and siblings_quiescent() together promise.
THEOREM TeardownIsSafe == Spec => []TeardownSafe
<1>1. TypeOK /\ OneTeardown /\ LastThreadEndsProcess /\ RecycledUnderStragglersOnly
        /\ ExecLeavesCaller /\ ExitNeverReturns => TeardownSafe
  BY DEF TeardownSafe
<1> QED
  BY <1>1, TypeCorrect, OneTeardownHolds, LastThreadEndsProcessHolds, ExitNeverReturnsHolds,
     ExecLeavesCallerHolds, RecycledUnderStragglersOnlyHolds, PTL

=============================================================================
