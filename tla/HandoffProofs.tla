--------------------------- MODULE HandoffProofs ---------------------------
(***************************************************************************)
(* Proofs about the scheduler core for any number of CPUs and tasks, any   *)
(* affinity masks and any mix of operations.                               *)
(*                                                                         *)
(* SoleContext is not inductive: which slot of a CPU holds a context is    *)
(* known only from where the CPU is in its code.  PcInv records that.      *)
(***************************************************************************)
EXTENDS Handoff, SequenceTheorems, TLAPS
USE ZenonT(40)

Empty(c) == cur[c] = NoTask /\ hand[c] = NoTask /\ nxt[c] = NoTask
OnlyCur(c) == cur[c] \in Tasks /\ hand[c] = NoTask /\ nxt[c] = NoTask
OnlyHand(c) == hand[c] \in Tasks /\ cur[c] = NoTask /\ nxt[c] = NoTask
OnlyNxt(c) == nxt[c] \in Tasks /\ cur[c] = NoTask /\ hand[c] = NoTask

TargetPC == {"add_new", "requeue", "cont", "cont_add", "exited", "remove", "kick"}

\* Where the contexts of a CPU are, by what the CPU does next.
PcInv(c) ==
    /\ pc[c] = "publish" => Empty(c) \/ OnlyHand(c)
    /\ pc[c] \in {"set_ready", "add", "release"} => OnlyHand(c)
    /\ pc[c] \in {"fetch", "enter_idle", "arm", "wfi", "tick"} => Empty(c)
    /\ pc[c] \in {"claim", "dispatch"} => OnlyNxt(c)
    /\ pc[c] = "leave_idle" => Empty(c) \/ OnlyNxt(c)
    /\ pc[c] \in TaskPC => OnlyCur(c)
    /\ pc[c] = "kick" /\ ret[c] = "task" => OnlyCur(c)
    /\ pc[c] = "kick" /\ ret[c] # "task" => Empty(c)
    /\ pc[c] \in TargetPC => tgt[c] \in Tasks

Inv == TypeOK /\ SoleContext /\ \A c \in CPUs : PcInv(c)

\* Taking an entry out of a queue, or adding one, leaves a queue of tasks.
LEMMA RemoveTidType ==
    ASSUME NEW S, NEW q \in Seq(S), NEW t
    PROVE  RemoveTid(q, t) \in Seq(S)
<1>1. CASE \E i \in 1..Len(q) : q[i] = t
  <2> DEFINE k == CHOOSE i \in 1..Len(q) : q[i] = t
             f == [i \in 1..(Len(q) - 1) |-> IF i < k THEN q[i] ELSE q[i + 1]]
  <2>1. Len(q) \in Nat /\ Len(q) - 1 \in Nat
    BY <1>1, SMTT(60)
  <2>2. \A i \in 1..Len(q) : q[i] \in S
    BY SMTT(60)
  <2>3. \A i \in 1..(Len(q) - 1) : i \in 1..Len(q) /\ i + 1 \in 1..Len(q)
    BY <2>1, SMTT(60)
  <2>4. f \in [1..(Len(q) - 1) -> S]
    BY <2>2, <2>3
  <2>5. f \in Seq(S)
    BY <2>1, <2>4, SeqDef, SMTT(60)
  <2> QED
    BY <1>1, <2>5 DEF RemoveTid
<1>2. CASE ~ \E i \in 1..Len(q) : q[i] = t
  BY <1>2 DEF RemoveTid
<1> QED
  BY <1>1, <1>2

LEMMA AddType ==
    ASSUME NEW S, NEW q \in Seq(S), NEW t \in S
    PROVE  Add(q, t) \in Seq(S)
  BY RemoveTidType, SMTT(60) DEF Add

\* The initial state satisfies the invariant.
LEMMA InitInv == Init => Inv
<1> SUFFICES ASSUME Init PROVE Inv
  OBVIOUS
<1> USE CpuAssumption, TaskAssumption
<1>1. TypeOK
  BY SMTT(60) DEF Init, TypeOK, Status, Resume, IdlePC, TaskPC
<1>2. SoleContext
  BY DEF Init, SoleContext, Holds
<1>3. \A c \in CPUs : PcInv(c)
  BY DEF Init, PcInv, Empty, TargetPC, TaskPC
<1> QED
  BY <1>1, <1>2, <1>3 DEF Inv

\* Every step of a CPU keeps the invariant.
LEMMA NextInv == Inv /\ [Next]_vars => Inv'
<1> SUFFICES ASSUME Inv, [Next]_vars PROVE Inv'
  OBVIOUS
<1> USE CpuAssumption, TaskAssumption DEF Inv
<1>1. ASSUME NEW c \in CPUs, take_handoff(c) PROVE Inv'
  <2>1. TypeOK'
    BY <1>1
    DEF take_handoff, Goto, TypeOK, PcInv, Empty, OnlyCur, OnlyHand,
        OnlyNxt, TargetPC, TaskPC, IdlePC, Status, Resume, taskVars,
        queueVars, cpuVars
  <2>2. SoleContext'
    BY <1>1, SMTT(60)
    DEF take_handoff, Goto, TypeOK, SoleContext, Holds, PcInv, Empty,
        OnlyCur, OnlyHand, OnlyNxt, TargetPC, TaskPC, taskVars, cpuVars
  <2>3. \A d \in CPUs : PcInv(d)'
    BY <1>1, SMTT(60)
    DEF take_handoff, Goto, TypeOK, PcInv, Empty, OnlyCur, OnlyHand,
        OnlyNxt, TargetPC, TaskPC, Resume, cpuVars
  <2> QED
    BY <2>1, <2>2, <2>3
<1>2. ASSUME NEW c \in CPUs, publish_set_ready(c) PROVE Inv'
  <2>1. TypeOK'
    BY <1>2
    DEF publish_set_ready, Goto, TypeOK, PcInv, Empty, OnlyCur,
        OnlyHand, OnlyNxt, TargetPC, TaskPC, IdlePC, Status, Resume,
        taskVars, queueVars, cpuVars
  <2>2. SoleContext'
    BY <1>2, SMTT(60)
    DEF publish_set_ready, Goto, TypeOK, SoleContext, Holds, PcInv,
        Empty, OnlyCur, OnlyHand, OnlyNxt, TargetPC, TaskPC, taskVars,
        cpuVars
  <2>3. \A d \in CPUs : PcInv(d)'
    BY <1>2, SMTT(60)
    DEF publish_set_ready, Goto, TypeOK, PcInv, Empty, OnlyCur,
        OnlyHand, OnlyNxt, TargetPC, TaskPC, Resume, cpuVars
  <2> QED
    BY <2>1, <2>2, <2>3
<1>3. ASSUME NEW c \in CPUs, add_task_before_owner_release(c) PROVE Inv'
  <2>1. TypeOK'
    BY <1>3, AddType
    DEF add_task_before_owner_release, Goto, TypeOK, PcInv, Empty,
        OnlyCur, OnlyHand, OnlyNxt, TargetPC, TaskPC, IdlePC, Status,
        Resume, taskVars, queueVars, cpuVars
  <2>2. SoleContext'
    BY <1>3, SMTT(60)
    DEF add_task_before_owner_release, Goto, TypeOK, SoleContext, Holds,
        PcInv, Empty, OnlyCur, OnlyHand, OnlyNxt, TargetPC, TaskPC,
        taskVars, cpuVars
  <2>3. \A d \in CPUs : PcInv(d)'
    BY <1>3, SMTT(60)
    DEF add_task_before_owner_release, Goto, TypeOK, PcInv, Empty,
        OnlyCur, OnlyHand, OnlyNxt, TargetPC, TaskPC, Resume, cpuVars
  <2> QED
    BY <2>1, <2>2, <2>3
<1>4. ASSUME NEW c \in CPUs, release_cpu_owner(c) PROVE Inv'
  <2>1. TypeOK'
    BY <1>4
    DEF release_cpu_owner, KickFor, Goto, TypeOK, PcInv, Empty, OnlyCur,
        OnlyHand, OnlyNxt, TargetPC, TaskPC, IdlePC, Status, Resume,
        taskVars, queueVars, cpuVars
  <2>2. SoleContext'
    BY <1>4, SMTT(60)
    DEF release_cpu_owner, KickFor, Goto, TypeOK, SoleContext, Holds,
        PcInv, Empty, OnlyCur, OnlyHand, OnlyNxt, TargetPC, TaskPC,
        taskVars, cpuVars
  <2>3. \A d \in CPUs : PcInv(d)'
    BY <1>4, SMTT(60)
    DEF release_cpu_owner, KickFor, Goto, TypeOK, PcInv, Empty, OnlyCur,
        OnlyHand, OnlyNxt, TargetPC, TaskPC, Resume, cpuVars
  <2> QED
    BY <2>1, <2>2, <2>3
<1>5. ASSUME NEW c \in CPUs, kick_one_idle_hart_in(c) PROVE Inv'
  <2>1. TypeOK'
    BY <1>5
    DEF kick_one_idle_hart_in, Goto, TypeOK, PcInv, Empty, OnlyCur,
        OnlyHand, OnlyNxt, TargetPC, TaskPC, IdlePC, Status, Resume,
        taskVars, queueVars, cpuVars
  <2>2. SoleContext'
    BY <1>5, SMTT(60)
    DEF kick_one_idle_hart_in, Goto, TypeOK, SoleContext, Holds, PcInv,
        Empty, OnlyCur, OnlyHand, OnlyNxt, TargetPC, TaskPC, taskVars,
        cpuVars
  <2>3. \A d \in CPUs : PcInv(d)'
    BY <1>5, SMTT(60)
    DEF kick_one_idle_hart_in, Goto, TypeOK, PcInv, Empty, OnlyCur,
        OnlyHand, OnlyNxt, TargetPC, TaskPC, Resume, cpuVars
  <2> QED
    BY <2>1, <2>2, <2>3
<1>6. ASSUME NEW c \in CPUs, fetch_task(c) PROVE Inv'
  <2>1. TypeOK'
    <3>1. CASE UNCHANGED <<ready, lock, nxt>>
      BY <1>6, <3>1
      DEF fetch_task, Goto, TypeOK, IdlePC, TaskPC, taskVars
    <3>2. ASSUME NEW i \in Claimable(c),
                 nxt' = [nxt EXCEPT ![c] = ready[i]],
                 ready' = RemoveTid(ready, ready[i]),
                 lock' = c, Goto(c, "claim")
          PROVE  TypeOK'
      <4>1. ready[i] \in Tasks
        BY <3>2, SMTT(60) DEF Claimable, TypeOK
      <4>2. ready' \in Seq(Tasks)
        BY <3>2, RemoveTidType DEF TypeOK
      <4> QED
        BY <1>6, <3>2, <4>1, <4>2
        DEF fetch_task, Goto, TypeOK, IdlePC, TaskPC, taskVars
    <3> QED
      BY <1>6, <3>1, <3>2 DEF fetch_task
  <2>2. SoleContext'
    <3>1. /\ cur' = cur /\ hand' = hand /\ owner' = owner
          /\ pc[c] = "fetch" /\ cur[c] = NoTask /\ hand[c] = NoTask
      BY <1>6 DEF fetch_task, taskVars, PcInv, Empty
    <3>2. /\ pc'[c] \in {"arm", "enter_idle", "claim"}
          /\ \A d \in CPUs : d # c => pc'[d] = pc[d] /\ nxt'[d] = nxt[d]
      <4>1. pc \in [CPUs -> IdlePC \cup TaskPC] /\ nxt \in [CPUs -> Tasks \cup {NoTask}]
        BY DEF TypeOK
      <4>2. \/ Goto(c, "arm") /\ nxt' = nxt
            \/ Goto(c, "enter_idle") /\ nxt' = nxt
            \/ \E t : Goto(c, "claim") /\ nxt' = [nxt EXCEPT ![c] = t]
        BY <1>6 DEF fetch_task
      <4> QED
        BY <4>1, <4>2 DEF Goto
    <3>3. \A d \in CPUs, t \in Tasks : Holds(d, t)' <=> Holds(d, t)
      BY <3>1, <3>2 DEF Holds
    <3>4. \A d \in CPUs : \/ cur'[d] = NoTask /\ hand'[d] = NoTask
                          \/ cur'[d] = NoTask /\ nxt'[d] = NoTask
                          \/ hand'[d] = NoTask /\ nxt'[d] = NoTask
      BY <3>1, <3>2 DEF SoleContext
    <3> QED
      BY <3>1, <3>3, <3>4 DEF SoleContext
  <2>3. \A d \in CPUs : PcInv(d)'
    BY <1>6, SMTT(60)
    DEF fetch_task, Goto, Claimable, TypeOK, PcInv, Empty, OnlyCur,
        OnlyHand, OnlyNxt, TargetPC, TaskPC, Resume, cpuVars
  <2> QED
    BY <2>1, <2>2, <2>3
<1>7. ASSUME NEW c \in CPUs, try_claim_running_on_cpu(c) PROVE Inv'
  <2> DEFINE t == nxt[c]
  <2>0. t \in Tasks
    BY <1>7 DEF try_claim_running_on_cpu, PcInv, OnlyNxt
  <2>1. TypeOK'
    <3>1. CASE status[t] = "Ready" /\ ~terminate[t] /\ owner[t] = NoCpu
      <4>1. /\ status' = [status EXCEPT ![t] = "Running"]
            /\ owner' = [owner EXCEPT ![t] = c]
            /\ Goto(c, IF c \in idle THEN "leave_idle" ELSE "dispatch")
            /\ lock' = NoCpu
            /\ UNCHANGED <<ready, nxt, terminate, resume, blocked, cur, hand,
                           tgt, ret, idle, ipi>>
        BY <1>7, <3>1 DEF try_claim_running_on_cpu
      <4> QED
        BY <4>1 DEF Goto, TypeOK, IdlePC, TaskPC, Status
    <3>2. CASE ~(status[t] = "Ready" /\ ~terminate[t] /\ owner[t] = NoCpu)
      <4>1. ready' \in Seq(Tasks)
        BY <1>7, <2>0, <3>2, AddType, SMTT(60) DEF try_claim_running_on_cpu, TypeOK
      <4> QED
        BY <1>7, <2>0, <3>2, <4>1
        DEF try_claim_running_on_cpu, Goto, TypeOK, IdlePC, TaskPC
    <3> QED
      BY <3>1, <3>2
  <2>2. SoleContext'
    BY <1>7, SMTT(60)
    DEF try_claim_running_on_cpu, Goto, TypeOK, SoleContext, Holds,
        PcInv, Empty, OnlyCur, OnlyHand, OnlyNxt, TargetPC, TaskPC,
        taskVars, cpuVars
  <2>3. \A d \in CPUs : PcInv(d)'
    BY <1>7, SMTT(60)
    DEF try_claim_running_on_cpu, Goto, TypeOK, PcInv, Empty, OnlyCur,
        OnlyHand, OnlyNxt, TargetPC, TaskPC, Resume, cpuVars
  <2> QED
    BY <2>1, <2>2, <2>3
<1>8. ASSUME NEW c \in CPUs, enter_idle(c) PROVE Inv'
  <2>1. TypeOK'
    BY <1>8
    DEF enter_idle, Goto, TypeOK, PcInv, Empty, OnlyCur, OnlyHand,
        OnlyNxt, TargetPC, TaskPC, IdlePC, Status, Resume, taskVars,
        queueVars, cpuVars
  <2>2. SoleContext'
    BY <1>8, SMTT(60)
    DEF enter_idle, Goto, TypeOK, SoleContext, Holds, PcInv, Empty,
        OnlyCur, OnlyHand, OnlyNxt, TargetPC, TaskPC, taskVars, cpuVars
  <2>3. \A d \in CPUs : PcInv(d)'
    BY <1>8, SMTT(60)
    DEF enter_idle, Goto, TypeOK, PcInv, Empty, OnlyCur, OnlyHand,
        OnlyNxt, TargetPC, TaskPC, Resume, cpuVars
  <2> QED
    BY <2>1, <2>2, <2>3
<1>9. ASSUME NEW c \in CPUs, ipi_before_wfi(c) PROVE Inv'
  <2>1. TypeOK'
    BY <1>9
    DEF ipi_before_wfi, TypeOK, PcInv, Empty, OnlyCur, OnlyHand,
        OnlyNxt, TargetPC, TaskPC, IdlePC, Status, Resume, taskVars,
        queueVars, cpuVars
  <2>2. SoleContext'
    BY <1>9, SMTT(60)
    DEF ipi_before_wfi, TypeOK, SoleContext, Holds, PcInv, Empty,
        OnlyCur, OnlyHand, OnlyNxt, TargetPC, TaskPC, taskVars, cpuVars
  <2>3. \A d \in CPUs : PcInv(d)'
    BY <1>9
    DEF ipi_before_wfi, TypeOK, PcInv, Empty, OnlyCur, OnlyHand,
        OnlyNxt, TargetPC, TaskPC, Resume, cpuVars
  <2> QED
    BY <2>1, <2>2, <2>3
<1>10. ASSUME NEW c \in CPUs, wait_for_interrupt(c) PROVE Inv'
  <2>1. TypeOK'
    BY <1>10
    DEF wait_for_interrupt, Goto, TypeOK, PcInv, Empty, OnlyCur,
        OnlyHand, OnlyNxt, TargetPC, TaskPC, IdlePC, Status, Resume,
        taskVars, queueVars, cpuVars
  <2>2. SoleContext'
    BY <1>10, SMTT(60)
    DEF wait_for_interrupt, Goto, TypeOK, SoleContext, Holds, PcInv,
        Empty, OnlyCur, OnlyHand, OnlyNxt, TargetPC, TaskPC, taskVars,
        cpuVars
  <2>3. \A d \in CPUs : PcInv(d)'
    BY <1>10, SMTT(60)
    DEF wait_for_interrupt, Goto, TypeOK, PcInv, Empty, OnlyCur,
        OnlyHand, OnlyNxt, TargetPC, TaskPC, Resume, cpuVars
  <2> QED
    BY <2>1, <2>2, <2>3
<1>11. ASSUME NEW c \in CPUs, ipi_wakes(c) PROVE Inv'
  <2>1. TypeOK'
    BY <1>11
    DEF ipi_wakes, Goto, TypeOK, PcInv, Empty, OnlyCur, OnlyHand,
        OnlyNxt, TargetPC, TaskPC, IdlePC, Status, Resume, taskVars,
        queueVars, cpuVars
  <2>2. SoleContext'
    BY <1>11, SMTT(60)
    DEF ipi_wakes, Goto, TypeOK, SoleContext, Holds, PcInv, Empty,
        OnlyCur, OnlyHand, OnlyNxt, TargetPC, TaskPC, taskVars, cpuVars
  <2>3. \A d \in CPUs : PcInv(d)'
    BY <1>11, SMTT(60)
    DEF ipi_wakes, Goto, TypeOK, PcInv, Empty, OnlyCur, OnlyHand,
        OnlyNxt, TargetPC, TaskPC, Resume, cpuVars
  <2> QED
    BY <2>1, <2>2, <2>3
<1>12. ASSUME NEW c \in CPUs, timer_returns(c) PROVE Inv'
  <2>1. TypeOK'
    BY <1>12
    DEF timer_returns, Goto, TypeOK, PcInv, Empty, OnlyCur, OnlyHand,
        OnlyNxt, TargetPC, TaskPC, IdlePC, Status, Resume, taskVars,
        queueVars, cpuVars
  <2>2. SoleContext'
    BY <1>12, SMTT(60)
    DEF timer_returns, Goto, TypeOK, SoleContext, Holds, PcInv, Empty,
        OnlyCur, OnlyHand, OnlyNxt, TargetPC, TaskPC, taskVars, cpuVars
  <2>3. \A d \in CPUs : PcInv(d)'
    BY <1>12, SMTT(60)
    DEF timer_returns, Goto, TypeOK, PcInv, Empty, OnlyCur, OnlyHand,
        OnlyNxt, TargetPC, TaskPC, Resume, cpuVars
  <2> QED
    BY <2>1, <2>2, <2>3
<1>13. ASSUME NEW c \in CPUs, leave_idle(c) PROVE Inv'
  <2>1. TypeOK'
    BY <1>13
    DEF leave_idle, Goto, TypeOK, PcInv, Empty, OnlyCur, OnlyHand,
        OnlyNxt, TargetPC, TaskPC, IdlePC, Status, Resume, taskVars,
        queueVars, cpuVars
  <2>2. SoleContext'
    BY <1>13, SMTT(60)
    DEF leave_idle, Goto, TypeOK, SoleContext, Holds, PcInv, Empty,
        OnlyCur, OnlyHand, OnlyNxt, TargetPC, TaskPC, taskVars, cpuVars
  <2>3. \A d \in CPUs : PcInv(d)'
    BY <1>13, SMTT(60)
    DEF leave_idle, Goto, TypeOK, PcInv, Empty, OnlyCur, OnlyHand,
        OnlyNxt, TargetPC, TaskPC, Resume, cpuVars
  <2> QED
    BY <2>1, <2>2, <2>3
<1>14. ASSUME NEW c \in CPUs, switch_to(c) PROVE Inv'
  <2>1. TypeOK'
    BY <1>14
    DEF switch_to, Goto, TypeOK, PcInv, Empty, OnlyCur, OnlyHand,
        OnlyNxt, TargetPC, TaskPC, IdlePC, Status, Resume, taskVars,
        queueVars, cpuVars
  <2>2. SoleContext'
    BY <1>14, SMTT(60)
    DEF switch_to, Goto, TypeOK, SoleContext, Holds, PcInv, Empty,
        OnlyCur, OnlyHand, OnlyNxt, TargetPC, TaskPC, taskVars, cpuVars
  <2>3. \A d \in CPUs : PcInv(d)'
    BY <1>14, SMTT(60)
    DEF switch_to, Goto, TypeOK, PcInv, Empty, OnlyCur, OnlyHand,
        OnlyNxt, TargetPC, TaskPC, Resume, cpuVars
  <2> QED
    BY <2>1, <2>2, <2>3
<1>15. ASSUME NEW c \in CPUs, recheck_sleeps(c) PROVE Inv'
  <2>1. TypeOK'
    BY <1>15
    DEF recheck_sleeps, Goto, TypeOK, PcInv, Empty, OnlyCur, OnlyHand,
        OnlyNxt, TargetPC, TaskPC, IdlePC, Status, Resume, taskVars,
        queueVars, cpuVars
  <2>2. SoleContext'
    BY <1>15, SMTT(60)
    DEF recheck_sleeps, Goto, TypeOK, SoleContext, Holds, PcInv, Empty,
        OnlyCur, OnlyHand, OnlyNxt, TargetPC, TaskPC, taskVars, cpuVars
  <2>3. \A d \in CPUs : PcInv(d)'
    BY <1>15, SMTT(60)
    DEF recheck_sleeps, Goto, TypeOK, PcInv, Empty, OnlyCur, OnlyHand,
        OnlyNxt, TargetPC, TaskPC, Resume, cpuVars
  <2> QED
    BY <2>1, <2>2, <2>3
<1>16. ASSUME NEW c \in CPUs, recheck_cancels(c) PROVE Inv'
  <2>1. TypeOK'
    BY <1>16, RemoveTidType
    DEF recheck_cancels, Goto, TypeOK, PcInv, Empty, OnlyCur, OnlyHand,
        OnlyNxt, TargetPC, TaskPC, IdlePC, Status, Resume, taskVars,
        queueVars, cpuVars
  <2>2. SoleContext'
    BY <1>16, SMTT(60)
    DEF recheck_cancels, Goto, TypeOK, SoleContext, Holds, PcInv, Empty,
        OnlyCur, OnlyHand, OnlyNxt, TargetPC, TaskPC, taskVars, cpuVars
  <2>3. \A d \in CPUs : PcInv(d)'
    BY <1>16, SMTT(60)
    DEF recheck_cancels, Goto, TypeOK, PcInv, Empty, OnlyCur, OnlyHand,
        OnlyNxt, TargetPC, TaskPC, Resume, cpuVars
  <2> QED
    BY <2>1, <2>2, <2>3
<1>17. ASSUME NEW c \in CPUs, cancel_set_running(c) PROVE Inv'
  <2>1. TypeOK'
    BY <1>17
    DEF cancel_set_running, Goto, TypeOK, PcInv, Empty, OnlyCur,
        OnlyHand, OnlyNxt, TargetPC, TaskPC, IdlePC, Status, Resume,
        taskVars, queueVars, cpuVars
  <2>2. SoleContext'
    BY <1>17, SMTT(60)
    DEF cancel_set_running, Goto, TypeOK, SoleContext, Holds, PcInv,
        Empty, OnlyCur, OnlyHand, OnlyNxt, TargetPC, TaskPC, taskVars,
        cpuVars
  <2>3. \A d \in CPUs : PcInv(d)'
    BY <1>17, SMTT(60)
    DEF cancel_set_running, Goto, TypeOK, PcInv, Empty, OnlyCur,
        OnlyHand, OnlyNxt, TargetPC, TaskPC, Resume, cpuVars
  <2> QED
    BY <2>1, <2>2, <2>3
<1>18. ASSUME NEW c \in CPUs, switch_to_next_task(c) PROVE Inv'
  <2>1. TypeOK'
    <3>0. cur[c] \in Tasks
      BY <1>18 DEF switch_to_next_task, PcInv, OnlyCur, TaskPC
    <3>1. CASE HandoffTo(c, "switch")
      BY <1>18, <3>0, <3>1
      DEF HandoffTo, Goto, TypeOK, IdlePC, TaskPC, Resume, queueVars
    <3>2. CASE Goto(c, "task") /\ UNCHANGED <<taskVars, queueVars, lock,
                  cpuVars, tgt, ret, idle, ipi>>
      BY <3>2 DEF Goto, TypeOK, IdlePC, TaskPC, taskVars, queueVars, cpuVars
    <3> QED
      BY <1>18, <3>1, <3>2 DEF switch_to_next_task
  <2>2. SoleContext'
    BY <1>18, SMTT(60)
    DEF switch_to_next_task, Goto, HandoffTo, TypeOK, SoleContext,
        Holds, PcInv, Empty, OnlyCur, OnlyHand, OnlyNxt, TargetPC,
        TaskPC, taskVars, cpuVars
  <2>3. \A d \in CPUs : PcInv(d)'
    BY <1>18, SMTT(60)
    DEF switch_to_next_task, Goto, HandoffTo, TypeOK, PcInv, Empty,
        OnlyCur, OnlyHand, OnlyNxt, TargetPC, TaskPC, Resume, cpuVars
  <2> QED
    BY <2>1, <2>2, <2>3
<1>19. ASSUME NEW c \in CPUs, stop_current_and_run_next(c) PROVE Inv'
  <2>1. TypeOK'
    BY <1>19
    DEF stop_current_and_run_next, HandoffTo, Goto, TypeOK, PcInv,
        Empty, OnlyCur, OnlyHand, OnlyNxt, TargetPC, TaskPC, IdlePC,
        Status, Resume, taskVars, queueVars, cpuVars
  <2>2. SoleContext'
    BY <1>19, SMTT(60)
    DEF stop_current_and_run_next, HandoffTo, Goto, TypeOK, SoleContext,
        Holds, PcInv, Empty, OnlyCur, OnlyHand, OnlyNxt, TargetPC,
        TaskPC, taskVars, cpuVars
  <2>3. \A d \in CPUs : PcInv(d)'
    BY <1>19, SMTT(60)
    DEF stop_current_and_run_next, HandoffTo, Goto, TypeOK, PcInv,
        Empty, OnlyCur, OnlyHand, OnlyNxt, TargetPC, TaskPC, Resume,
        cpuVars
  <2> QED
    BY <2>1, <2>2, <2>3
<1>20. ASSUME NEW c \in CPUs, switch_to_next_task_after_exit(c) PROVE Inv'
  <2>1. TypeOK'
    BY <1>20
    DEF switch_to_next_task_after_exit, HandoffTo, Goto, TypeOK, PcInv,
        Empty, OnlyCur, OnlyHand, OnlyNxt, TargetPC, TaskPC, IdlePC,
        Status, Resume, taskVars, queueVars, cpuVars
  <2>2. SoleContext'
    BY <1>20, SMTT(60)
    DEF switch_to_next_task_after_exit, HandoffTo, Goto, TypeOK,
        SoleContext, Holds, PcInv, Empty, OnlyCur, OnlyHand, OnlyNxt,
        TargetPC, TaskPC, taskVars, cpuVars
  <2>3. \A d \in CPUs : PcInv(d)'
    BY <1>20, SMTT(60)
    DEF switch_to_next_task_after_exit, HandoffTo, Goto, TypeOK, PcInv,
        Empty, OnlyCur, OnlyHand, OnlyNxt, TargetPC, TaskPC, Resume,
        cpuVars
  <2> QED
    BY <2>1, <2>2, <2>3
<1>21. ASSUME NEW c \in CPUs, add_task(c) PROVE Inv'
  <2>1. TypeOK'
    BY <1>21, AddType
    DEF add_task, KickFor, Goto, TypeOK, PcInv, Empty, OnlyCur,
        OnlyHand, OnlyNxt, TargetPC, TaskPC, IdlePC, Status, Resume,
        taskVars, queueVars, cpuVars
  <2>2. SoleContext'
    BY <1>21, SMTT(60)
    DEF add_task, KickFor, Goto, TypeOK, SoleContext, Holds, PcInv,
        Empty, OnlyCur, OnlyHand, OnlyNxt, TargetPC, TaskPC, taskVars,
        cpuVars
  <2>3. \A d \in CPUs : PcInv(d)'
    BY <1>21, SMTT(60)
    DEF add_task, KickFor, Goto, TypeOK, PcInv, Empty, OnlyCur,
        OnlyHand, OnlyNxt, TargetPC, TaskPC, Resume, cpuVars
  <2> QED
    BY <2>1, <2>2, <2>3
<1>22. ASSUME NEW c \in CPUs, requeue_locked(c) PROVE Inv'
  <2>1. TypeOK'
    BY <1>22, AddType
    DEF requeue_locked, KickFor, Goto, TypeOK, PcInv, Empty, OnlyCur,
        OnlyHand, OnlyNxt, TargetPC, TaskPC, IdlePC, Status, Resume,
        taskVars, queueVars, cpuVars
  <2>2. SoleContext'
    BY <1>22, SMTT(60)
    DEF requeue_locked, KickFor, Goto, TypeOK, SoleContext, Holds,
        PcInv, Empty, OnlyCur, OnlyHand, OnlyNxt, TargetPC, TaskPC,
        taskVars, cpuVars
  <2>3. \A d \in CPUs : PcInv(d)'
    BY <1>22, SMTT(60)
    DEF requeue_locked, KickFor, Goto, TypeOK, PcInv, Empty, OnlyCur,
        OnlyHand, OnlyNxt, TargetPC, TaskPC, Resume, cpuVars
  <2> QED
    BY <2>1, <2>2, <2>3
<1>23. ASSUME NEW c \in CPUs, cont_set_ready(c) PROVE Inv'
  <2>1. TypeOK'
    BY <1>23
    DEF cont_set_ready, Goto, TypeOK, PcInv, Empty, OnlyCur, OnlyHand,
        OnlyNxt, TargetPC, TaskPC, IdlePC, Status, Resume, taskVars,
        queueVars, cpuVars
  <2>2. SoleContext'
    BY <1>23, SMTT(60)
    DEF cont_set_ready, Goto, TypeOK, SoleContext, Holds, PcInv, Empty,
        OnlyCur, OnlyHand, OnlyNxt, TargetPC, TaskPC, taskVars, cpuVars
  <2>3. \A d \in CPUs : PcInv(d)'
    BY <1>23, SMTT(60)
    DEF cont_set_ready, Goto, TypeOK, PcInv, Empty, OnlyCur, OnlyHand,
        OnlyNxt, TargetPC, TaskPC, Resume, cpuVars
  <2> QED
    BY <2>1, <2>2, <2>3
<1>24. ASSUME NEW c \in CPUs, cont_add(c) PROVE Inv'
  <2>1. TypeOK'
    BY <1>24, AddType
    DEF cont_add, KickFor, Goto, TypeOK, PcInv, Empty, OnlyCur,
        OnlyHand, OnlyNxt, TargetPC, TaskPC, IdlePC, Status, Resume,
        taskVars, queueVars, cpuVars
  <2>2. SoleContext'
    BY <1>24, SMTT(60)
    DEF cont_add, KickFor, Goto, TypeOK, SoleContext, Holds, PcInv,
        Empty, OnlyCur, OnlyHand, OnlyNxt, TargetPC, TaskPC, taskVars,
        cpuVars
  <2>3. \A d \in CPUs : PcInv(d)'
    BY <1>24, SMTT(60)
    DEF cont_add, KickFor, Goto, TypeOK, PcInv, Empty, OnlyCur,
        OnlyHand, OnlyNxt, TargetPC, TaskPC, Resume, cpuVars
  <2> QED
    BY <2>1, <2>2, <2>3
<1>25. ASSUME NEW c \in CPUs, terminate_set_exited(c) PROVE Inv'
  <2>1. TypeOK'
    BY <1>25
    DEF terminate_set_exited, Goto, TypeOK, PcInv, Empty, OnlyCur,
        OnlyHand, OnlyNxt, TargetPC, TaskPC, IdlePC, Status, Resume,
        taskVars, queueVars, cpuVars
  <2>2. SoleContext'
    BY <1>25, SMTT(60)
    DEF terminate_set_exited, Goto, TypeOK, SoleContext, Holds, PcInv,
        Empty, OnlyCur, OnlyHand, OnlyNxt, TargetPC, TaskPC, taskVars,
        cpuVars
  <2>3. \A d \in CPUs : PcInv(d)'
    BY <1>25, SMTT(60)
    DEF terminate_set_exited, Goto, TypeOK, PcInv, Empty, OnlyCur,
        OnlyHand, OnlyNxt, TargetPC, TaskPC, Resume, cpuVars
  <2> QED
    BY <2>1, <2>2, <2>3
<1>26. ASSUME NEW c \in CPUs, remove_task(c) PROVE Inv'
  <2>1. TypeOK'
    BY <1>26, RemoveTidType
    DEF remove_task, Goto, TypeOK, PcInv, Empty, OnlyCur, OnlyHand,
        OnlyNxt, TargetPC, TaskPC, IdlePC, Status, Resume, taskVars,
        queueVars, cpuVars
  <2>2. SoleContext'
    BY <1>26, SMTT(60)
    DEF remove_task, Goto, TypeOK, SoleContext, Holds, PcInv, Empty,
        OnlyCur, OnlyHand, OnlyNxt, TargetPC, TaskPC, taskVars, cpuVars
  <2>3. \A d \in CPUs : PcInv(d)'
    BY <1>26, SMTT(60)
    DEF remove_task, Goto, TypeOK, PcInv, Empty, OnlyCur, OnlyHand,
        OnlyNxt, TargetPC, TaskPC, Resume, cpuVars
  <2> QED
    BY <2>1, <2>2, <2>3
<1>27. ASSUME NEW c \in CPUs, acknowledge_ipi(c) PROVE Inv'
  <2>1. TypeOK'
    BY <1>27
    DEF acknowledge_ipi, TypeOK, PcInv, Empty, OnlyCur, OnlyHand,
        OnlyNxt, TargetPC, TaskPC, IdlePC, Status, Resume, taskVars,
        queueVars, cpuVars
  <2>2. SoleContext'
    BY <1>27, SMTT(60)
    DEF acknowledge_ipi, TypeOK, SoleContext, Holds, PcInv, Empty,
        OnlyCur, OnlyHand, OnlyNxt, TargetPC, TaskPC, taskVars, cpuVars
  <2>3. \A d \in CPUs : PcInv(d)'
    BY <1>27
    DEF acknowledge_ipi, TypeOK, PcInv, Empty, OnlyCur, OnlyHand,
        OnlyNxt, TargetPC, TaskPC, Resume, cpuVars
  <2> QED
    BY <2>1, <2>2, <2>3
<1>28. ASSUME NEW c \in CPUs, prepare_current_task_blocked(c) PROVE Inv'
  <2>1. TypeOK'
    BY <1>28
    DEF prepare_current_task_blocked, Goto, TypeOK, PcInv, Empty,
        OnlyCur, OnlyHand, OnlyNxt, TargetPC, TaskPC, IdlePC, Status,
        Resume, taskVars, queueVars, cpuVars
  <2>2. SoleContext'
    BY <1>28, SMTT(60)
    DEF prepare_current_task_blocked, Goto, TypeOK, SoleContext, Holds,
        PcInv, Empty, OnlyCur, OnlyHand, OnlyNxt, TargetPC, TaskPC,
        taskVars, cpuVars
  <2>3. \A d \in CPUs : PcInv(d)'
    BY <1>28, SMTT(60)
    DEF prepare_current_task_blocked, Goto, TypeOK, PcInv, Empty,
        OnlyCur, OnlyHand, OnlyNxt, TargetPC, TaskPC, Resume, cpuVars
  <2> QED
    BY <2>1, <2>2, <2>3
<1>29. ASSUME NEW c \in CPUs, set_stopped(c) PROVE Inv'
  <2>1. TypeOK'
    BY <1>29
    DEF set_stopped, Goto, TypeOK, PcInv, Empty, OnlyCur, OnlyHand,
        OnlyNxt, TargetPC, TaskPC, IdlePC, Status, Resume, taskVars,
        queueVars, cpuVars
  <2>2. SoleContext'
    BY <1>29, SMTT(60)
    DEF set_stopped, Goto, TypeOK, SoleContext, Holds, PcInv, Empty,
        OnlyCur, OnlyHand, OnlyNxt, TargetPC, TaskPC, taskVars, cpuVars
  <2>3. \A d \in CPUs : PcInv(d)'
    BY <1>29, SMTT(60)
    DEF set_stopped, Goto, TypeOK, PcInv, Empty, OnlyCur, OnlyHand,
        OnlyNxt, TargetPC, TaskPC, Resume, cpuVars
  <2> QED
    BY <2>1, <2>2, <2>3
<1>30. ASSUME NEW c \in CPUs, set_exited(c) PROVE Inv'
  <2>1. TypeOK'
    BY <1>30
    DEF set_exited, Goto, TypeOK, PcInv, Empty, OnlyCur, OnlyHand,
        OnlyNxt, TargetPC, TaskPC, IdlePC, Status, Resume, taskVars,
        queueVars, cpuVars
  <2>2. SoleContext'
    BY <1>30, SMTT(60)
    DEF set_exited, Goto, TypeOK, SoleContext, Holds, PcInv, Empty,
        OnlyCur, OnlyHand, OnlyNxt, TargetPC, TaskPC, taskVars, cpuVars
  <2>3. \A d \in CPUs : PcInv(d)'
    BY <1>30, SMTT(60)
    DEF set_exited, Goto, TypeOK, PcInv, Empty, OnlyCur, OnlyHand,
        OnlyNxt, TargetPC, TaskPC, Resume, cpuVars
  <2> QED
    BY <2>1, <2>2, <2>3
<1>31. ASSUME NEW c \in CPUs, NEW u \in Tasks, clone_(c, u) PROVE Inv'
  <2>1. TypeOK'
    BY <1>31
    DEF clone_, Goto, TypeOK, PcInv, Empty, OnlyCur, OnlyHand, OnlyNxt,
        TargetPC, TaskPC, IdlePC, Status, Resume, taskVars, queueVars,
        cpuVars
  <2>2. SoleContext'
    BY <1>31, SMTT(60)
    DEF clone_, Goto, TypeOK, SoleContext, Holds, PcInv, Empty, OnlyCur,
        OnlyHand, OnlyNxt, TargetPC, TaskPC, taskVars, cpuVars
  <2>3. \A d \in CPUs : PcInv(d)'
    BY <1>31, SMTT(60)
    DEF clone_, Goto, TypeOK, PcInv, Empty, OnlyCur, OnlyHand, OnlyNxt,
        TargetPC, TaskPC, Resume, cpuVars
  <2> QED
    BY <2>1, <2>2, <2>3
<1>32. ASSUME NEW c \in CPUs, NEW u \in Tasks, wakeup_task(c, u) PROVE Inv'
  <2>1. TypeOK'
    BY <1>32, AddType
    DEF wakeup_task, KickFor, Goto, TypeOK, PcInv, Empty, OnlyCur,
        OnlyHand, OnlyNxt, TargetPC, TaskPC, IdlePC, Status, Resume,
        taskVars, queueVars, cpuVars
  <2>2. SoleContext'
    BY <1>32, SMTT(60)
    DEF wakeup_task, KickFor, Goto, TypeOK, SoleContext, Holds, PcInv,
        Empty, OnlyCur, OnlyHand, OnlyNxt, TargetPC, TaskPC, taskVars,
        cpuVars
  <2>3. \A d \in CPUs : PcInv(d)'
    BY <1>32, SMTT(60)
    DEF wakeup_task, KickFor, Goto, TypeOK, PcInv, Empty, OnlyCur,
        OnlyHand, OnlyNxt, TargetPC, TaskPC, Resume, cpuVars
  <2> QED
    BY <2>1, <2>2, <2>3
<1>33. ASSUME NEW c \in CPUs, NEW u \in Tasks, requeue_ready_task(c, u) PROVE Inv'
  <2>1. TypeOK'
    BY <1>33
    DEF requeue_ready_task, Goto, TypeOK, PcInv, Empty, OnlyCur,
        OnlyHand, OnlyNxt, TargetPC, TaskPC, IdlePC, Status, Resume,
        taskVars, queueVars, cpuVars
  <2>2. SoleContext'
    BY <1>33, SMTT(60)
    DEF requeue_ready_task, Goto, TypeOK, SoleContext, Holds, PcInv,
        Empty, OnlyCur, OnlyHand, OnlyNxt, TargetPC, TaskPC, taskVars,
        cpuVars
  <2>3. \A d \in CPUs : PcInv(d)'
    BY <1>33, SMTT(60)
    DEF requeue_ready_task, Goto, TypeOK, PcInv, Empty, OnlyCur,
        OnlyHand, OnlyNxt, TargetPC, TaskPC, Resume, cpuVars
  <2> QED
    BY <2>1, <2>2, <2>3
<1>34. ASSUME NEW c \in CPUs, NEW u \in Tasks, wakeup_stopped_task(c, u) PROVE Inv'
  <2>1. TypeOK'
    BY <1>34
    DEF wakeup_stopped_task, Goto, TypeOK, PcInv, Empty, OnlyCur,
        OnlyHand, OnlyNxt, TargetPC, TaskPC, IdlePC, Status, Resume,
        taskVars, queueVars, cpuVars
  <2>2. SoleContext'
    BY <1>34, SMTT(60)
    DEF wakeup_stopped_task, Goto, TypeOK, SoleContext, Holds, PcInv,
        Empty, OnlyCur, OnlyHand, OnlyNxt, TargetPC, TaskPC, taskVars,
        cpuVars
  <2>3. \A d \in CPUs : PcInv(d)'
    BY <1>34, SMTT(60)
    DEF wakeup_stopped_task, Goto, TypeOK, PcInv, Empty, OnlyCur,
        OnlyHand, OnlyNxt, TargetPC, TaskPC, Resume, cpuVars
  <2> QED
    BY <2>1, <2>2, <2>3
<1>35. ASSUME NEW c \in CPUs, NEW u \in Tasks, request_termination(c, u) PROVE Inv'
  <2>1. TypeOK'
    BY <1>35
    DEF request_termination, Goto, TypeOK, PcInv, Empty, OnlyCur,
        OnlyHand, OnlyNxt, TargetPC, TaskPC, IdlePC, Status, Resume,
        taskVars, queueVars, cpuVars
  <2>2. SoleContext'
    BY <1>35, SMTT(60)
    DEF request_termination, Goto, TypeOK, SoleContext, Holds, PcInv,
        Empty, OnlyCur, OnlyHand, OnlyNxt, TargetPC, TaskPC, taskVars,
        cpuVars
  <2>3. \A d \in CPUs : PcInv(d)'
    BY <1>35
    DEF request_termination, Goto, TypeOK, PcInv, Empty, OnlyCur,
        OnlyHand, OnlyNxt, TargetPC, TaskPC, Resume, cpuVars
  <2> QED
    BY <2>1, <2>2, <2>3
<1>36. ASSUME NEW c \in CPUs, yield_current_task(c) PROVE Inv'
  <2>1. TypeOK'
    BY <1>36
    DEF yield_current_task, HandoffTo, Goto, TypeOK, PcInv, Empty,
        OnlyCur, OnlyHand, OnlyNxt, TargetPC, TaskPC, IdlePC, Status,
        Resume, taskVars, queueVars, cpuVars
  <2>2. SoleContext'
    BY <1>36, SMTT(60)
    DEF yield_current_task, HandoffTo, Goto, TypeOK, SoleContext, Holds,
        PcInv, Empty, OnlyCur, OnlyHand, OnlyNxt, TargetPC, TaskPC,
        taskVars, cpuVars
  <2>3. \A d \in CPUs : PcInv(d)'
    BY <1>36, SMTT(60)
    DEF yield_current_task, HandoffTo, Goto, TypeOK, PcInv, Empty,
        OnlyCur, OnlyHand, OnlyNxt, TargetPC, TaskPC, Resume, cpuVars
  <2> QED
    BY <2>1, <2>2, <2>3
<1>37. ASSUME NEW c \in CPUs, timer_wakes(c) PROVE Inv'
  <2>1. TypeOK'
    BY <1>37
    DEF timer_wakes, Goto, TypeOK, PcInv, Empty, OnlyCur, OnlyHand,
        OnlyNxt, TargetPC, TaskPC, IdlePC, Status, Resume, taskVars,
        queueVars, cpuVars
  <2>2. SoleContext'
    BY <1>37, SMTT(60)
    DEF timer_wakes, Goto, TypeOK, SoleContext, Holds, PcInv, Empty,
        OnlyCur, OnlyHand, OnlyNxt, TargetPC, TaskPC, taskVars, cpuVars
  <2>3. \A d \in CPUs : PcInv(d)'
    BY <1>37, SMTT(60)
    DEF timer_wakes, Goto, TypeOK, PcInv, Empty, OnlyCur, OnlyHand,
        OnlyNxt, TargetPC, TaskPC, Resume, cpuVars
  <2> QED
    BY <2>1, <2>2, <2>3
<1>38. CASE UNCHANGED vars
  <2>1. TypeOK'
    BY <1>38 DEF TypeOK, vars, taskVars, queueVars, cpuVars
  <2>2. SoleContext'
    BY <1>38 DEF SoleContext, Holds, vars, taskVars, cpuVars
  <2>3. \A d \in CPUs : PcInv(d)'
    BY <1>38 DEF PcInv, Empty, OnlyCur, OnlyHand, OnlyNxt, vars, cpuVars
  <2> QED
    BY <2>1, <2>2, <2>3
<1> QED
  BY <1>1, <1>2, <1>3, <1>4, <1>5, <1>6, <1>7, <1>8, <1>9, <1>10, <1>11,
     <1>12, <1>13, <1>14, <1>15, <1>16, <1>17, <1>18, <1>19, <1>20,
     <1>21, <1>22, <1>23, <1>24, <1>25, <1>26, <1>27, <1>28, <1>29,
     <1>30, <1>31, <1>32, <1>33, <1>34, <1>35, <1>36, <1>37, <1>38
  DEF Next, Loop, Finish, Begin, Timer

\* The scheduler core never loses the types of its variables.
THEOREM TypeCorrect == Spec => []TypeOK
<1>1. Inv => TypeOK
  BY DEF Inv
<1> QED
  BY InitInv, NextInv, <1>1, PTL DEF Spec

\* For every number of CPUs and tasks: cpu_owner is exact, so no two CPUs are
\* on the same kernel stack and no ownership is leaked.
THEOREM SoleContextHolds == Spec => []SoleContext
<1>1. Inv => SoleContext
  BY DEF Inv
<1> QED
  BY InitInv, NextInv, <1>1, PTL DEF Spec

\* A terminated task without an owner gets none: the claim re-reads the flag.
LEMMA NoClaimAfterTermination ==
    ASSUME Inv, [Next]_vars, NEW t \in Tasks, terminate[t], owner[t] = NoCpu
    PROVE  owner'[t] = NoCpu
<1>1. CASE UNCHANGED vars
  BY <1>1 DEF vars, taskVars
<1>2. ASSUME NEW c \in CPUs, Loop(c) PROVE owner'[t] = NoCpu
  BY <1>2 DEF Loop, Inv, TypeOK, take_handoff, publish_set_ready, add_task_before_owner_release, release_cpu_owner, kick_one_idle_hart_in, fetch_task, try_claim_running_on_cpu, enter_idle, ipi_before_wfi, wait_for_interrupt, ipi_wakes, timer_returns, leave_idle, switch_to, taskVars
<1>3. ASSUME NEW c \in CPUs, Finish(c) PROVE owner'[t] = NoCpu
  BY <1>3 DEF Finish, HandoffTo, recheck_sleeps, recheck_cancels, cancel_set_running, switch_to_next_task, stop_current_and_run_next, switch_to_next_task_after_exit, add_task, requeue_locked, cont_set_ready, cont_add, terminate_set_exited, remove_task, taskVars
<1>4. ASSUME NEW c \in CPUs, Begin(c) PROVE owner'[t] = NoCpu
  BY <1>4 DEF Begin, acknowledge_ipi, prepare_current_task_blocked, set_stopped, set_exited, clone_, wakeup_task, requeue_ready_task, wakeup_stopped_task, request_termination, taskVars
<1>5. ASSUME NEW c \in CPUs, Timer(c) PROVE owner'[t] = NoCpu
  BY <1>5 DEF Timer, yield_current_task, timer_wakes, HandoffTo, taskVars
<1> QED
  BY <1>1, <1>2, <1>3, <1>4, <1>5 DEF Next

\* What group exit and exec rely on: a sibling that was told to terminate and
\* that no CPU owns is never run, saved or restored by any CPU again.
THEOREM QuiescentForeverHolds == Spec => QuiescentForever
<1>1. Inv /\ Inv' /\ [Next]_vars =>
        \A t \in Tasks : terminate[t] /\ owner[t] = NoCpu
           => \A c \in CPUs : ~Holds(c, t)'
  <2> SUFFICES ASSUME Inv, Inv', [Next]_vars, NEW t \in Tasks, terminate[t], owner[t] = NoCpu,
                      NEW c \in CPUs
               PROVE  ~Holds(c, t)'
    OBVIOUS
  <2>1. owner'[t] = NoCpu /\ NoCpu # c
    BY NoClaimAfterTermination, CpuAssumption
  <2>2. owner'[t] = c <=> Holds(c, t)'
    BY DEF Inv, SoleContext
  <2> QED
    BY <2>1, <2>2
<1> QED
  BY InitInv, NextInv, <1>1, PTL DEF Spec, QuiescentForever

=============================================================================
