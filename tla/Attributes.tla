----------------------------- MODULE Attributes -----------------------------
(***************************************************************************)
(* What a task may do and how it is scheduled: user and group ids,         *)
(* capabilities, resource limits, nice value, policy and priority          *)
(* (syscall/process.rs, and SchedState, CapState, ResourceLimits in        *)
(* task.rs).  The uids belong to the process, the gids and capabilities to *)
(* the thread, limits are shared by the threads of a process.              *)
(*                                                                         *)
(* A call reads and checks, then writes its atomics one after the other:   *)
(* the decision is one step, and leaves the list of its stores, done one   *)
(* per step.  ready_queue_for() is the class a ready task is queued under. *)
(***************************************************************************)
EXTENDS Integers, Sequences, FiniteSets, SequencesExt

CONSTANTS
    AtThreads, AtProcs,   \* ids of threads and of processes
    AtScenarios           \* records: initial threads and processes, programs

VARIABLES
    atSc,    \* the scenario
    atProc,  \* uids, limits of each process
    atThr,   \* gids, capabilities and scheduling state of each thread
    atOp     \* program counter, result and stores to do of each thread

atVars == <<atSc, atProc, atThr, atOp>>

KEEP == -1                       \* the id (uid_t)-1
RLIMIT_MAX == 3                  \* FTB_RLIMIT
RtPolicies == {"FIFO", "RR"}
RegularPolicies == {"OTHER", "BATCH", "IDLE"}
MAX_RT_PRIO == 3
CAPS == {"NICE", "SETPCAP"}

AtInit ==
    /\ atSc \in AtScenarios
    /\ atProc = atSc.proc
    /\ atThr = atSc.thr
    /\ atOp = [t \in AtThreads |-> [i |-> 0, ret |-> "0", todo |-> <<>>, wrote |-> FALSE, raised |-> FALSE]]

-----------------------------------------------------------------------------
AtHas(t, op) == /\ atThr[t].alive /\ atOp[t].todo = <<>> /\ atOp[t].i < Len(atSc.prog[t])
                /\ atSc.prog[t][atOp[t].i + 1].op = op
AtArg(t) == atSc.prog[t][atOp[t].i + 1]
AtP(t) == atProc[atThr[t].proc]
Root(t) == AtP(t).euid = 0
Commit(t, todo) == atOp' = [atOp EXCEPT ![t] = [@ EXCEPT !.i = @ + 1, !.ret = "0", !.todo = todo, !.wrote = FALSE]]
Fail(t, e) == atOp' = [atOp EXCEPT ![t] = [@ EXCEPT !.i = @ + 1, !.ret = e, !.todo = <<>>, !.wrote = FALSE]]
Same == UNCHANGED <<atSc, atProc, atThr>>
InProc(p, f) == [on |-> "proc", id |-> p, f |-> f]
InThread(t, f) == [on |-> "thr", id |-> t, f |-> f]
InGroup(p, f) == [on |-> "group", id |-> p, f |-> f]
CopyOut(fault) == [on |-> "copyout", id |-> 0, f |-> fault]
Requeue(p) == [on |-> "requeue", id |-> p, f |-> <<>>]

ready_queue_for(r) ==
    CASE r.policy \in RtPolicies -> <<"Rt", Max({1, Min({r.priority, MAX_RT_PRIO})})>>
      [] r.policy = "IDLE" -> <<"Idle", 0>>
      [] OTHER -> <<"Normal", r.nice>>

\* One store; requeue_ready_task() files the task under its present class.
Stored(s) ==
    [t \in AtThreads |->
       CASE s.on = "thr" /\ s.id = t -> s.f @@ atThr[t]
         [] s.on = "group" /\ atThr[t].alive /\ atThr[t].proc = s.id -> s.f @@ atThr[t]
         [] s.on = "requeue" /\ s.id = t -> [atThr[t] EXCEPT !.queue = ready_queue_for(atThr[t])]
         [] OTHER -> atThr[t]]
raises(p, q) == q.limit[2] > p.limit[2] \/ q.nofile_max > p.nofile_max
store_step(t) ==
    /\ atOp[t].todo # <<>> /\ Head(atOp[t].todo).on # "copyout"
    /\ LET s == Head(atOp[t].todo)
       IN  /\ atThr' = Stored(s)
           /\ atProc' = IF s.on = "proc" THEN [atProc EXCEPT ![s.id] = s.f @@ @] ELSE atProc
    /\ atOp' = [atOp EXCEPT ![t].todo = Tail(@), ![t].wrote = TRUE,
                            ![t].raised = @ \/ (~ Root(t) /\ \E p \in AtProcs : atProc[p].alive /\ raises(atProc[p], atProc'[p]))]
    /\ UNCHANGED atSc

copy_to_user(t) ==
    /\ atOp[t].todo # <<>> /\ Head(atOp[t].todo).on = "copyout"
    /\ atOp' = IF Head(atOp[t].todo).f THEN [atOp EXCEPT ![t].todo = <<>>, ![t].ret = "EFAULT"]
               ELSE [atOp EXCEPT ![t].todo = Tail(@)]
    /\ Same

-----------------------------------------------------------------------------
(* User and group ids, capabilities.                                       *)

resolve_new_id(a, old) == IF a = KEEP THEN old ELSE a
can_set_id(ids, a) == a \in {ids[1], ids[2], ids[3]}
Uids(t) == <<AtP(t).uid, AtP(t).euid, AtP(t).suid>>
Gids(t) == <<atThr[t].gid, atThr[t].egid, atThr[t].sgid>>

\* TaskControlBlock::set_uid_triplet(): the process, then the fsuid and the
\* capabilities of the calling thread, by the euid there was before.
uid_capabilities(t, n) ==
    IF n[2] = 0 THEN [fsuid |-> 0, effective |-> atThr[t].permitted]
    ELSE IF Root(t) THEN [fsuid |-> n[2], effective |-> {},
                          permitted |-> IF n[1] # 0 /\ n[3] # 0 THEN {} ELSE atThr[t].permitted]
    ELSE [fsuid |-> n[2]]
set_uid_triplet(t, n) ==
    LET p == atThr[t].proc
    IN  <<InProc(p, [uid |-> n[1]]), InProc(p, [euid |-> n[2]]), InProc(p, [suid |-> n[3]]),
          InThread(t, uid_capabilities(t, n))>>
set_gid_triplet(t, n) ==
    <<InThread(t, [gid |-> n[1], egid |-> n[2], sgid |-> n[3], fsgid |-> n[2]])>>

\* The new triple of setuid()/setgid(), setre*id() and setres*id(); <<>> is
\* EPERM.  setre*id() checks the two ids it is asked for, the last all three.
setid(t, ids, a) ==
    IF Root(t) THEN <<a[1], a[1], a[1]>>
    ELSE IF can_set_id(ids, a[1]) THEN <<ids[1], a[1], ids[3]>> ELSE <<>>
setreid(t, ids, a) ==
    LET r == resolve_new_id(a[1], ids[1])
        e == resolve_new_id(a[2], ids[2])
    IN  IF Root(t) \/ (can_set_id(ids, r) /\ can_set_id(ids, e))
        THEN <<r, e, IF a[1] # KEEP \/ (a[2] # KEEP /\ e # ids[1]) THEN e ELSE ids[3]>> ELSE <<>>
setresid(t, ids, a) ==
    LET n == [k \in 1..3 |-> resolve_new_id(a[k], ids[k])]
    IN  IF Root(t) \/ \A k \in 1..3 : can_set_id(ids, n[k]) THEN n ELSE <<>>
SetUids(t, n) == IF n = <<>> THEN Fail(t, "EPERM") ELSE Commit(t, set_uid_triplet(t, n))
SetGids(t, n) == IF n = <<>> THEN Fail(t, "EPERM") ELSE Commit(t, set_gid_triplet(t, n))

sys_setuid(t) == AtHas(t, "setuid") /\ SetUids(t, setid(t, Uids(t), AtArg(t).ids)) /\ Same
sys_setreuid(t) == AtHas(t, "setreuid") /\ SetUids(t, setreid(t, Uids(t), AtArg(t).ids)) /\ Same
sys_setresuid(t) == AtHas(t, "setresuid") /\ SetUids(t, setresid(t, Uids(t), AtArg(t).ids)) /\ Same
sys_setgid(t) == AtHas(t, "setgid") /\ SetGids(t, setid(t, Gids(t), AtArg(t).ids)) /\ Same
sys_setregid(t) == AtHas(t, "setregid") /\ SetGids(t, setreid(t, Gids(t), AtArg(t).ids)) /\ Same
sys_setresgid(t) == AtHas(t, "setresgid") /\ SetGids(t, setresid(t, Gids(t), AtArg(t).ids)) /\ Same
\* These two report the old id and never fail.
sys_setfsuid(t) ==
    /\ AtHas(t, "setfsuid")
    /\ LET a == AtArg(t).ids[1]
       IN  Commit(t, IF a # KEEP /\ (Root(t) \/ can_set_id(Uids(t), a)) THEN <<InThread(t, [fsuid |-> a])>> ELSE <<>>)
    /\ Same
sys_setfsgid(t) ==
    /\ AtHas(t, "setfsgid")
    /\ LET a == AtArg(t).ids[1]
       IN  Commit(t, IF a # KEEP /\ (Root(t) \/ can_set_id(Gids(t), a)) THEN <<InThread(t, [fsgid |-> a])>> ELSE <<>>)
    /\ Same
\* The whole list is copied in before it is installed.
sys_setgroups(t) ==
    /\ AtHas(t, "setgroups")
    /\ CASE ~Root(t) -> Fail(t, "EPERM")
         [] AtArg(t).fault -> Fail(t, "EFAULT")
         [] OTHER -> Commit(t, <<InThread(t, [groups |-> AtArg(t).groups])>>)
    /\ Same
sys_capset(t) ==
    /\ AtHas(t, "capset")
    /\ LET a == AtArg(t)
           ok == /\ a.effective \subseteq a.permitted /\ a.permitted \subseteq atThr[t].permitted
                 /\ "SETPCAP" \in atThr[t].effective \/ a.inheritable \subseteq atThr[t].permitted
       IN  IF ok THEN Commit(t, <<InThread(t, [effective |-> a.effective, permitted |-> a.permitted,
                                              inheritable |-> a.inheritable])>>)
           ELSE Fail(t, "EPERM")
    /\ Same

-----------------------------------------------------------------------------
(* Limits.  NOFILE lives in the fd table as two atomics, the others are    *)
(* pairs under a lock.                                                     *)

set_rlimit(p, nofile, n) ==
    IF nofile THEN <<InProc(p, [nofile_cur |-> n[1]]), InProc(p, [nofile_max |-> n[2]])>>
    ELSE <<InProc(p, [limit |-> n])>>
limit_invalid(a) == a.new[1] > a.new[2] \/ (a.nofile /\ a.new[2] > RLIMIT_MAX)
report_then_set(fault, stores) == <<CopyOut(fault)>> \o stores
limit_allowed(t, n, old) == n[2] <= old[2] \/ Root(t)
sys_prlimit64(t) ==
    /\ AtHas(t, "prlimit")
    /\ LET a == AtArg(t)
           old == IF a.nofile THEN <<atProc[a.pid].nofile_cur, atProc[a.pid].nofile_max>> ELSE atProc[a.pid].limit
       IN  CASE limit_invalid(a) -> Fail(t, "EINVAL")
             [] ~limit_allowed(t, a.new, old) -> Fail(t, "EPERM")
             [] OTHER -> Commit(t, report_then_set(a.fault, set_rlimit(a.pid, a.nofile, a.new)))
    /\ Same

-----------------------------------------------------------------------------
(* Scheduling attributes.                                                  *)

check_sched_param(policy, priority) ==
    \/ policy \in RtPolicies /\ priority \in 1..MAX_RT_PRIO
    \/ policy \in RegularPolicies /\ priority = 0
AtOwner(t, u) == AtP(t).euid \in {AtP(u).uid, AtP(u).euid}
check_sched_permission(t, u, policy, priority) ==
    \/ "NICE" \in atThr[t].effective
    \/ AtOwner(t, u) /\ (policy \in RtPolicies => priority <= AtP(t).limit[1])
\* SchedState::set_sched(), then the queues.
requeue_first(u, policy, priority, reset) ==                           \* mutant
    <<InThread(u, [policy |-> policy]), Requeue(u), InThread(u, [priority |-> priority]), InThread(u, [reset |-> reset])>>
set_sched(u, policy, priority, reset) ==
    <<InThread(u, [policy |-> policy]), InThread(u, [priority |-> priority]), InThread(u, [reset |-> reset]), Requeue(u)>>
SetSched(t, u, policy, priority, stores) ==
    IF ~check_sched_param(policy, priority) THEN Fail(t, "EINVAL")
    ELSE IF ~check_sched_permission(t, u, policy, priority) THEN Fail(t, "EPERM")
    ELSE Commit(t, stores)
sys_sched_setscheduler(t) ==
    /\ AtHas(t, "setscheduler")
    /\ LET a == AtArg(t)
       IN  SetSched(t, a.tid, a.policy, a.priority, set_sched(a.tid, a.policy, a.priority, a.reset))
    /\ Same
\* The policy is read, checked against the priority and stored again.
sys_sched_setparam(t) ==
    /\ AtHas(t, "setparam")
    /\ LET a == AtArg(t)
           policy == atThr[a.tid].policy
       IN  SetSched(t, a.tid, policy, a.priority, set_sched(a.tid, policy, a.priority, atThr[a.tid].reset))
    /\ Same
sys_sched_setattr(t) ==
    /\ AtHas(t, "setattr")
    /\ LET a == AtArg(t)
       IN  SetSched(t, a.tid, a.policy, a.priority,
                    SubSeq(set_sched(a.tid, a.policy, a.priority, a.reset), 1, 3)
                    \o (IF a.policy \in RegularPolicies THEN <<InThread(a.tid, [nice |-> a.nice])>> ELSE <<>>)
                    \o <<Requeue(a.tid)>>)
    /\ Same
sys_sched_setaffinity(t) ==
    /\ AtHas(t, "setaffinity")
    /\ LET a == AtArg(t)
           effective == a.mask \cap atSc.online
       IN  CASE ~("NICE" \in atThr[t].effective \/ AtOwner(t, a.tid)) -> Fail(t, "EPERM")
             [] effective = {} -> Fail(t, "EINVAL")
             [] OTHER -> Commit(t, <<InThread(a.tid, [mask |-> effective])>>)
    /\ Same

\* All targets are checked before the first is changed; the threads of a
\* process change under its thread-group lock and are queued again.
NiceStores(ps, nice) ==
    LET one(p) == <<InGroup(p, [nice |-> nice])>> \o
                  SetToSeq({Requeue(u) : u \in {v \in AtThreads : atThr[v].alive /\ atThr[v].proc = p}})
        all == SetToSeq(ps)
    IN  FoldFunction(LAMBDA p, acc : one(p) \o acc, <<>>, all)
priority_targets(who) == {p \in AtProcs : atProc[p].alive /\ p \in who}
sys_setpriority(t) ==
    /\ AtHas(t, "setpriority")
    /\ LET a == AtArg(t)
           targets == priority_targets(a.who)
           mine(p) == AtP(t).euid \in {atProc[p].uid, atProc[p].euid}
           first(p) == CHOOSE u \in AtThreads : atThr[u].alive /\ atThr[u].proc = p
       IN  CASE targets = {} -> Fail(t, "ESRCH")
             [] ~Root(t) /\ (\E p \in targets : mine(p) /\ a.nice < atThr[first(p)].nice) -> Fail(t, "EACCES")
             [] ~Root(t) /\ (\E p \in targets : ~mine(p)) -> Fail(t, "EPERM")
             [] OTHER -> Commit(t, NiceStores(targets, a.nice))
    /\ Same

-----------------------------------------------------------------------------
(* clone(): SchedState and CapState from the parent; a new process has its *)
(* own copy of the limits.                                                 *)

from_parent(r) ==
    [r EXCEPT !.reset = FALSE,
              !.policy = IF r.reset /\ @ \in RtPolicies THEN "OTHER" ELSE @,
              !.priority = IF r.reset /\ r.policy \in RtPolicies THEN 0 ELSE @,
              !.nice = IF r.reset THEN Max({@, 0}) ELSE @]
clone(t) ==
    /\ AtHas(t, "clone") /\ ~atThr[AtArg(t).tid].alive
    /\ LET a == AtArg(t)
           child == [from_parent(atThr[t]) EXCEPT !.proc = a.pid]
       IN  Commit(t, (IF a.pid = atThr[t].proc THEN <<>> ELSE <<InProc(a.pid, AtP(t))>>)
                     \o <<InThread(a.tid, child), Requeue(a.tid)>>)
    /\ Same

AtNext ==
    \E t \in AtThreads :
       \/ store_step(t) \/ copy_to_user(t) \/ sys_setuid(t) \/ sys_setreuid(t) \/ sys_setresuid(t) \/ sys_setgid(t) \/ sys_setregid(t)
       \/ sys_setresgid(t) \/ sys_setfsuid(t) \/ sys_setfsgid(t) \/ sys_setgroups(t) \/ sys_capset(t)
       \/ sys_prlimit64(t) \/ sys_sched_setscheduler(t) \/ sys_sched_setparam(t) \/ sys_sched_setattr(t)
       \/ sys_sched_setaffinity(t) \/ sys_setpriority(t) \/ clone(t)
AtSpec == AtInit /\ [][AtNext]_atVars

-----------------------------------------------------------------------------
(* Properties.                                                             *)

AtQuiet == \A t \in AtThreads : atOp[t].todo = <<>>

\* Types; the capabilities a thread can use are among those it is permitted,
\* through every change of ids and capset().
AtTypeOK ==
    \A t \in AtThreads : atThr[t].alive =>
       /\ atThr[t].effective \subseteq atThr[t].permitted
       /\ atThr[t].policy \in RtPolicies \cup RegularPolicies
       /\ atThr[t].mask # {}

\* Processes without root among their ids gain no id they did not have,
\* raise no hard limit above its first value and no thread of theirs gains a
\* capability, whatever their threads do at the same time.
UnprivilegedKept ==
    \A t \in AtThreads : (atThr[t].alive /\ atSc.proc[atThr[t].proc].alive
                          /\ 0 \notin {atSc.proc[atThr[t].proc].uid, atSc.proc[atThr[t].proc].euid,
                                       atSc.proc[atThr[t].proc].suid}) =>
       LET p == atThr[t].proc
           q == atSc.proc[p]
       IN  /\ {Uids(t)[k] : k \in 1..3} \subseteq {q.uid, q.euid, q.suid}
           /\ atThr[t].permitted \subseteq atSc.thr[t].permitted \/ ~atSc.thr[t].alive
           /\ atProc[p].limit[2] <= q.limit[2] /\ atProc[p].nofile_max <= q.nofile_max

\* A hard limit goes up only at the hand of root: the limit that was compared is
\* still the limit when the new one is stored ("原子读取和可选更新",
\* syscall/process.rs:932).
HardLimitFalls == \A t \in AtThreads : ~ atOp[t].raised

\* The soft limit is at most the hard one, in every state a reader can meet.
LimitsOrdered ==
    \A p \in AtProcs : atProc[p].alive =>
       atProc[p].limit[1] <= atProc[p].limit[2] /\ atProc[p].nofile_cur <= atProc[p].nofile_max

\* Once no change is under way, the priority of a task is one of its policy.
PolicyHasPriority ==
    AtQuiet => \A t \in AtThreads : atThr[t].alive => check_sched_param(atThr[t].policy, atThr[t].priority)

\* A task that is queued is queued under the class of its policy, priority
\* and nice value once no change is under way, even when several callers
\* change one task together ("不能让索引与队列分类不一致", syscall/process.rs:607).
QueueClassAgrees ==
    AtQuiet => \A t \in AtThreads : atThr[t].alive => atThr[t].queue = ready_queue_for(atThr[t])

\* A call that fails has changed nothing: prlimit64() reports the old limit
\* before it installs the new one ("EFAULT 时不得提交新值", syscall/process.rs:935),
\* and setpriority() checks every target before the first change.
ErrorChangesNothing == \A t \in AtThreads : atOp[t].ret # "0" => ~atOp[t].wrote

=============================================================================
