-------------------------- MODULE WaitChildProofs --------------------------
(***************************************************************************)
(* Proofs about wait4(), waitid() and the reports they wait for, for any   *)
(* number of children and of waiting threads.                              *)
(*                                                                         *)
(* A waiter that has scanned its children without success either finds the *)
(* generation changed when it looks again, or every zombie that appeared   *)
(* since still has its report ahead of the generation change; once it      *)
(* sleeps, the report has not yet woken it.  NoneMissed says so, and needs *)
(* to know where every child is while a parent hands its children over.    *)
(***************************************************************************)
EXTENDS WaitChild, TLAPS
USE ZenonT(40)

Moving(c) == seen.child = c /\ step[Parent] \in {"adopt", "insert"}

\* Children report about themselves, the parent about one it hands over.
Reports ==
    /\ \A c \in Children : subj[c] = c
    /\ step[Parent] \in {"exit_target", "stop_target", "mark"} => subj[Parent] \in Children
    /\ step[Parent] \in {"adopt", "insert"} => seen.child \in Children
    /\ step[Kill] \in {"idle", "interrupt"} /\ subj[Kill] = None
    /\ alive[Parent] => step[Parent] = "idle"

\* A thread inside a call belongs to a process that lives, and one that is
\* about to sleep has said so.
Calls ==
    \A w \in Waiters :
        /\ pc[w] # "exited" => home[w] \in Procs /\ alive[home[w]]
        /\ pc[w] \in {"precheck", "recheck", "sleep"} => waiting[w]
        /\ pc[w] \in {"consume", "account"} => found[w].child \in Children

\* Every child that is not reaped is in one place, and its parent field names
\* the process that has it.
Placed(c) ==
    /\ \A p \in Procs : c \in children[p] => parent[c] = p
    /\ c \in rest => (\A p \in Procs : c \notin children[p]) /\ ~ Moving(c)
    /\ Moving(c) => \A p \in Procs : c \notin children[p]
    /\ lifecycle[c] = "Reaped" <=>
          (\A p \in Procs : c \notin children[p]) /\ c \notin rest /\ ~ Moving(c)

Places ==
    /\ step[Parent] \in {"idle", "take"} => rest = {}
    /\ step[Parent] = "insert" => parent[seen.child] = InitProc
    /\ \A c \in Children : Placed(c)

\* The accounting of a reaped child is done once.
Accounts ==
    /\ \A w \in Waiters : pc[w] = "account" =>
          lifecycle[found[w].child] = "Reaped" /\ accounted[found[w].child] = 0
    /\ \A v, w \in Waiters :
          pc[v] = "account" /\ pc[w] = "account" /\ found[v].child = found[w].child => v = w
    /\ \A c \in Children :
          accounted[c] \in {0, 1} /\ (accounted[c] = 1 => lifecycle[c] = "Reaped")

\* `raced` has the zombies that the handing over overlooks.
Races ==
    \A c \in Children :
        Moving(c) /\ ~ seen.exited /\ lifecycle[c] = "Zombie" => c \in raced

\* Actor a has yet to change the generation, or to wake w, on behalf of c.
Ahead(a, c, w) ==
    /\ subj[a] = c
    /\ \/ step[a] = "exit_target" /\ parent[c] = home[w]
       \/ step[a] \in {"mark", "exit_signal", "interrupt", "publish"} /\ to[a] = home[w]
Due(a, c, w) ==
    /\ subj[a] = c
    /\ \/ step[a] = "collect" /\ to[a] = home[w]
       \/ step[a] = "wake" /\ w \in wakes[a]

Scanned == {"check", "register", "precheck", "recheck"}

Covered(c, w) ==
    /\ pc[w] \in Scanned => stale[w] \/ \E a \in Actors : Ahead(a, c, w)
    /\ Asleep(w) => \E a \in Actors : Ahead(a, c, w) \/ Due(a, c, w)

NoneMissed ==
    \A w \in Waiters : pc[w] \in Scanned \cup {"sleep"} =>
        \A c \in Zombies(w) \ raced : Covered(c, w)

Inv == TypeOK /\ Reports /\ Calls /\ Places /\ Accounts /\ Races /\ NoneMissed


-----------------------------------------------------------------------------
(* Facts that the steps below share.                                       *)

LEMMA Distinct ==
    /\ Parent # InitProc /\ Kill # Parent /\ None \notin Procs
    /\ Children \cap {Parent, Kill, None} = {}
    /\ Procs = {Parent, InitProc} /\ Actors = Children \cup {Parent, Kill}
    /\ Selections \subseteq SUBSET Children
  BY WaitAssumption DEF Procs, Actors

LEMMA NothingFound == Nothing \in Findings /\ Nothing.child = None
  BY DEF Nothing, Findings

\* What the waiters other than w can see of its step: nothing.
Others(w) ==
    \A v \in Waiters : v # w =>
        /\ pc'[v] = pc[v] /\ want'[v] = want[v] /\ found'[v] = found[v]
        /\ stale'[v] = stale[v] /\ waiting'[v] = waiting[v] /\ sched'[v] = sched[v]

\* A waiter that goes on within its call, and one whose call returns.
LEMMA Moved ==
    ASSUME TypeOK, NEW w \in Waiters, NEW l \in Labels, Goto(w, l)
    PROVE  /\ pc' \in [Waiters -> Labels] /\ pc'[w] = l
           /\ \A v \in Waiters : v # w => pc'[v] = pc[v]
  BY DEF TypeOK, Goto

LEMMA Returned ==
    ASSUME TypeOK, NEW w \in Waiters, Return(w)
    PROVE  /\ pc' \in [Waiters -> Labels] /\ pc'[w] = "user"
           /\ call' \in [Waiters -> {None, "wait4", "waitid", "nohang"}]
           /\ want' \in [Waiters -> SUBSET Children]
           /\ found' \in [Waiters -> Findings] /\ stale' \in [Waiters -> BOOLEAN]
           /\ \A v \in Waiters : v # w =>
                 /\ pc'[v] = pc[v] /\ want'[v] = want[v]
                 /\ found'[v] = found[v] /\ stale'[v] = stale[v]
<1>1. /\ pc' = [pc EXCEPT ![w] = "user"] /\ call' = [call EXCEPT ![w] = None]
      /\ want' = [want EXCEPT ![w] = {}] /\ found' = [found EXCEPT ![w] = Nothing]
      /\ stale' = [stale EXCEPT ![w] = FALSE]
  BY DEF Return, Goto
<1>2. /\ pc \in [Waiters -> Labels] /\ call \in [Waiters -> {None, "wait4", "waitid", "nohang"}]
      /\ want \in [Waiters -> SUBSET Children] /\ found \in [Waiters -> Findings]
      /\ stale \in [Waiters -> BOOLEAN]
  BY DEF TypeOK
<1>3. found' \in [Waiters -> Findings] /\ "user" \in Labels
  BY <1>1, <1>2, NothingFound DEF Labels
<1> QED
  BY <1>1, <1>2, <1>3

\* Where the reports are depends on these variables only.
LEMMA ReportsStay ==
    ASSUME UNCHANGED <<parent, home, subj, step, to, wakes>>, NEW b, NEW d, NEW v
    PROVE  (Ahead(b, d, v)' <=> Ahead(b, d, v)) /\ (Due(b, d, v)' <=> Due(b, d, v))
  BY DEF Ahead, Due

\* A waiter changes nothing for the others, and makes itself responsible only
\* by a scan that finds no zombie, or by going to sleep with the generation it
\* has observed.
LEMMA WaiterMissesNone ==
    ASSUME NoneMissed, NEW w \in Waiters, Others(w),
           UNCHANGED <<parent, home, subj, step, to, wakes, raced>>,
           \A v \in Waiters : want'[v] = want[v] => Zombies(v)' \subseteq Zombies(v),
           pc'[w] \in Scanned => \/ Zombies(w)' = {}
                                 \/ pc[w] \in Scanned /\ stale'[w] = stale[w] /\ want'[w] = want[w],
           pc'[w] = "sleep" => pc[w] \in Scanned /\ ~stale[w] /\ want'[w] = want[w]
    PROVE  NoneMissed'
<1> SUFFICES ASSUME NEW v \in Waiters, pc'[v] \in Scanned \cup {"sleep"},
                    NEW d \in Zombies(v)', d \notin raced'
             PROVE  Covered(d, v)'
  BY DEF NoneMissed
<1>1. /\ pc[v] \in Scanned \cup {"sleep"} /\ want'[v] = want[v]
      /\ pc'[v] \in Scanned => pc[v] \in Scanned /\ stale'[v] = stale[v]
      /\ Asleep(v)' => Asleep(v) \/ (pc[v] \in Scanned /\ ~stale[v])
  BY DEF Others, Asleep, Scanned
<1>2. Covered(d, v)
  BY <1>1 DEF NoneMissed
<1> QED
  BY <1>1, <1>2, ReportsStay DEF Covered

\* A step of a waiter that leaves the shared state alone.
LEMMA LocalStep ==
    ASSUME Inv, TypeOK', NEW w \in Waiters, Others(w),
           UNCHANGED <<lifecycle, parent, children, home, alive, step, subj, to, wakes, rest,
                       seen, raced>>,
           (UNCHANGED accounted /\ pc'[w] # "account") \/ Accounts',
           pc[w] # "exited" /\ pc'[w] # "exited",
           pc'[w] \in {"precheck", "recheck", "sleep"} => waiting'[w],
           pc'[w] \in {"consume", "account"} => found'[w].child \in Children,
           pc'[w] \in Scanned => \/ Zombies(w)' = {}
                                 \/ pc[w] \in Scanned /\ stale'[w] = stale[w] /\ want'[w] = want[w],
           pc'[w] = "sleep" => pc[w] \in Scanned /\ ~stale[w] /\ want'[w] = want[w]
    PROVE  Inv'
<1>1. Reports' /\ Places' /\ Races'
  BY DEF Inv, Reports, Places, Placed, Races, Moving
<1>2. Calls'
  BY DEF Inv, Calls, Others
<1>3. Accounts'
  BY SMTT(60) DEF Inv, Accounts, Others
<1>4. \A v \in Waiters : want'[v] = want[v] => Zombies(v)' = Zombies(v)
  BY DEF Zombies, Matching
<1>5. NoneMissed'
  BY <1>4, WaiterMissesNone DEF Inv
<1> QED
  BY <1>1, <1>2, <1>3, <1>5 DEF Inv

\* Actor b does not lose sight of the waiter v: what is ahead of it stays so or
\* gets due, and what is due stays so until it has woken the waiter.
Forwards(b, d, v) ==
    /\ Ahead(b, d, v) => \/ Ahead(b, d, v)'
                         \/ Due(b, d, v)' /\ (pc[v] \in Scanned => stale'[v])
    /\ Due(b, d, v) => Due(b, d, v)' \/ ~Asleep(v)'

\* A thread inside a call, as Calls says.
Calling(v) == home[v] \in Procs /\ alive[home[v]] /\ (pc[v] = "sleep" => waiting[v])

\* An actor misses nobody: a zombie that a waiter can see is new, and its report
\* is ahead, or the reports of old are not lost.
LEMMA ActorMissesNone ==
    ASSUME Inv, TypeOK', UNCHANGED home,
           \A v \in Waiters : pc'[v] \in Scanned \cup {"sleep"} =>
              pc'[v] = pc[v] /\ (Asleep(v)' => Asleep(v)) /\ (stale[v] => stale'[v]),
           \A v \in Waiters, d \in Children :
              Calling(v) /\ pc'[v] = pc[v] /\ d \in Zombies(v)' \ raced' =>
                 \/ \E b \in Actors : Ahead(b, d, v)'
                 \/ d \in Zombies(v) \ raced /\ \A b \in Actors : Forwards(b, d, v)
    PROVE  NoneMissed'
<1> SUFFICES ASSUME NEW v \in Waiters, pc'[v] \in Scanned \cup {"sleep"},
                    NEW d \in Zombies(v)', d \notin raced'
             PROVE  Covered(d, v)'
  BY DEF NoneMissed
<1>1. Calling(v) /\ pc'[v] = pc[v]
  BY DEF Inv, Calls, Calling, Scanned
<1>2. d \in Children
  BY <1>1 DEF Zombies, Matching, TypeOK, Calling
<1>3. CASE \E b \in Actors : Ahead(b, d, v)'
  BY <1>3 DEF Covered
<1>4. CASE d \in Zombies(v) \ raced /\ \A b \in Actors : Forwards(b, d, v)
  <2>1. Covered(d, v)
    BY <1>1, <1>4 DEF Inv, NoneMissed
  <2> QED
    BY <1>1, <1>4, <2>1 DEF Covered, Forwards, Asleep, Scanned
<1> QED
  BY <1>1, <1>2, <1>3, <1>4

\* A step of actor a on behalf of the child it reports that leaves the children
\* where they are.
LEMMA ReportStep ==
    ASSUME Inv, TypeOK', Reports', NEW a \in Actors,
           UNCHANGED <<lifecycle, parent, children, home, alive, subj, rest, seen, pc, want,
                       found, waiting, accounted, raced>>,
           \A b \in Actors : b # a =>
              step'[b] = step[b] /\ to'[b] = to[b] /\ wakes'[b] = wakes[b],
           a = Parent => {step[a], step'[a]} \cap {"idle", "take", "adopt", "insert"} = {},
           \A v \in Waiters : (Asleep(v)' => Asleep(v)) /\ (stale[v] => stale'[v]),
           \A v \in Waiters, d \in Children : Calling(v) => Forwards(a, d, v)
    PROVE  Inv'
<1>1. step'[Parent] # step[Parent] =>
         {step[Parent], step'[Parent]} \cap {"idle", "take", "adopt", "insert"} = {}
  BY Distinct
<1>2. Places' /\ Races'
  BY <1>1 DEF Inv, Places, Placed, Races, Moving
<1>3. Calls' /\ Accounts'
  BY DEF Inv, Calls, Accounts
<1>4. \A v \in Waiters, d \in Children, b \in Actors : b # a => Forwards(b, d, v)
  BY SMTT(60) DEF Forwards, Ahead, Due
<1>5. \A v \in Waiters : Zombies(v)' = Zombies(v)
  BY DEF Zombies, Matching
<1>6. NoneMissed'
  BY <1>4, <1>5, ActorMissesNone
<1> QED
  BY <1>2, <1>3, <1>6 DEF Inv

LEMMA Stepped ==
    ASSUME TypeOK, NEW a \in Actors, NEW l \in Steps, StepTo(a, l)
    PROVE  /\ step' \in [Actors -> Steps] /\ step'[a] = l
           /\ \A b \in Actors : b # a => step'[b] = step[b]
  BY DEF TypeOK, StepTo

-----------------------------------------------------------------------------
(* Each step of a report keeps the invariant.                              *)

LEMMA SetWaitEventInv ==
    ASSUME Inv, NEW c \in Children, set_wait_event(c) PROVE Inv'
<1>0. /\ step[c] = "idle" /\ StepTo(c, "stop_target")
      /\ stopped' = [stopped EXCEPT ![c] = ~@]
      /\ wait_event' = [wait_event EXCEPT ![c] = IF stopped[c] THEN "continued" ELSE "stopped"]
      /\ UNCHANGED <<lifecycle, parent, children, exited_children, home, sigact, events, pending,
                     alive, subj, to, wakes, rest, seen, pc, call, want, found, stale, waiting,
                     interruptible, interrupted, sched, accounted, raced>>
  BY DEF set_wait_event, procVars, callVars, flagVars, ghosts
<1>1. /\ c \in Actors /\ c # Parent /\ c # Kill
      /\ step' \in [Actors -> Steps] /\ step'[c] = "stop_target"
      /\ \A b \in Actors : b # c => step'[b] = step[b]
  BY <1>0, Stepped, Distinct DEF Inv, Steps, Sending
<1>2. stopped' \in [Children -> BOOLEAN] /\ wait_event' \in [Children -> {"none", "stopped", "continued"}]
  BY <1>0 DEF Inv, TypeOK
<1>3. TypeOK'
  BY <1>0, <1>1, <1>2 DEF Inv, TypeOK, Sending
<1>4. Reports'
  BY <1>0, <1>1, Distinct DEF Inv, Reports
<1>5. \A v \in Waiters, d \in Children : ~Ahead(c, d, v) /\ ~Due(c, d, v)
  BY <1>0 DEF Ahead, Due
<1> QED
  BY <1>0, <1>1, <1>3, <1>4, <1>5, ReportStep DEF Asleep, Forwards, Calling

LEMMA NotifiedInv ==
    ASSUME Inv, NEW c \in Children, notified(c) PROVE Inv'
<1> DEFINE l == IF lifecycle[c] = "Running" THEN "idle" ELSE "gone"
<1>0. /\ step[c] = "done" /\ StepTo(c, l) /\ to' = [to EXCEPT ![c] = None]
      /\ UNCHANGED <<lifecycle, stopped, parent, children, exited_children, wait_event, home,
                     sigact, events, pending, alive, subj, wakes, rest, seen, pc, call, want,
                     found, stale, waiting, interruptible, interrupted, sched, accounted, raced>>
  BY DEF notified, childVars, procVars, callVars, flagVars, ghosts
<1>1. /\ c \in Actors /\ c # Parent /\ c # Kill
      /\ step' \in [Actors -> Steps] /\ step'[c] \in {"idle", "gone"}
      /\ \A b \in Actors : b # c => step'[b] = step[b]
  BY <1>0, Stepped, Distinct DEF Inv, Steps, Sending
<1>2. to' \in [Actors -> Procs \cup {None}] /\ \A b \in Actors : b # c => to'[b] = to[b]
  BY <1>0 DEF Inv, TypeOK
<1>3. TypeOK'
  BY <1>0, <1>1, <1>2 DEF Inv, TypeOK, Sending
<1>4. Reports'
  BY <1>0, <1>1, Distinct DEF Inv, Reports
<1>5. \A v \in Waiters, d \in Children : ~Ahead(c, d, v) /\ ~Due(c, d, v)
  BY <1>0 DEF Ahead, Due
<1> QED
  BY <1>0, <1>1, <1>2, <1>3, <1>4, <1>5, ReportStep DEF Asleep, Forwards, Calling

LEMMA KillInv ==
    ASSUME Inv, NEW p \in Procs, kill(p) PROVE Inv'
<1>0. /\ step[Kill] = "idle" /\ StepTo(Kill, "interrupt") /\ to' = [to EXCEPT ![Kill] = p]
      /\ pending' = [pending EXCEPT ![p] = TRUE]
      /\ UNCHANGED <<lifecycle, stopped, parent, children, exited_children, wait_event, home,
                     sigact, events, alive, subj, wakes, rest, seen, pc, call, want, found,
                     stale, waiting, interruptible, interrupted, sched, accounted, raced>>
  BY DEF kill, childVars, callVars, flagVars, ghosts
<1>1. /\ Kill \in Actors /\ Kill # Parent
      /\ step' \in [Actors -> Steps] /\ step'[Kill] = "interrupt"
      /\ \A b \in Actors : b # Kill => step'[b] = step[b]
  BY <1>0, Stepped, Distinct DEF Inv, Steps, Sending
<1>2. /\ to' \in [Actors -> Procs \cup {None}] /\ to'[Kill] \in Procs
      /\ \A b \in Actors : b # Kill => to'[b] = to[b]
      /\ pending' \in [Procs -> BOOLEAN]
  BY <1>0, <1>1 DEF Inv, TypeOK
<1>3. TypeOK'
  BY <1>0, <1>1, <1>2 DEF Inv, TypeOK
<1>4. Reports'
  BY <1>0, <1>1, Distinct DEF Inv, Reports
<1>5. \A v \in Waiters, d \in Children : ~Ahead(Kill, d, v) /\ ~Due(Kill, d, v)
  BY <1>0 DEF Ahead, Due
<1> QED
  BY <1>0, <1>1, <1>2, <1>3, <1>4, <1>5, ReportStep DEF Asleep, Forwards, Calling

LEMMA NotifyTargetInv ==
    ASSUME Inv, NEW a \in Actors, notify_target(a) PROVE Inv'
<1>0. /\ step[a] \in {"exit_target", "stop_target"}
      /\ UNCHANGED <<lifecycle, stopped, parent, children, exited_children, wait_event, home,
                     sigact, events, pending, alive, subj, wakes, rest, seen, pc, call, want,
                     found, stale, waiting, interruptible, interrupted, sched, accounted, raced>>
  BY DEF notify_target, childVars, procVars, callVars, flagVars, ghosts
<1>1. subj[a] \in Children /\ parent[subj[a]] \in Procs /\ a # Kill
  BY <1>0, Distinct, SMTT(60) DEF Inv, Reports, TypeOK
<1>2. CASE ~alive[parent[subj[a]]] /\ StepTo(a, "done") /\ UNCHANGED to
  <2>1. /\ step' \in [Actors -> Steps] /\ step'[a] = "done"
        /\ \A b \in Actors : b # a => step'[b] = step[b]
    BY <1>2, Stepped DEF Inv, Steps, Sending
  <2>2. TypeOK'
    BY <1>0, <1>2, <2>1 DEF Inv, TypeOK, Sending
  <2>3. Reports'
    BY <1>0, <1>1, <2>1, Distinct DEF Inv, Reports
  <2>4. \A v \in Waiters, d \in Children :
           alive[home[v]] => ~Ahead(a, d, v) /\ ~Due(a, d, v)
    BY <1>0, <1>2 DEF Ahead, Due
  <2> QED
    BY <1>0, <1>2, <2>1, <2>2, <2>3, <2>4, ReportStep DEF Asleep, Forwards, Calling
<1>3. CASE /\ alive[parent[subj[a]]] /\ to' = [to EXCEPT ![a] = parent[subj[a]]]
           /\ StepTo(a, IF step[a] = "exit_target" THEN "mark" ELSE "stop_signal")
  <2>1. /\ step' \in [Actors -> Steps] /\ step'[a] \in {"mark", "stop_signal"}
        /\ step[a] = "exit_target" => step'[a] = "mark"
        /\ \A b \in Actors : b # a => step'[b] = step[b]
    BY <1>3, Stepped DEF Inv, Steps, Sending
  <2>2. /\ to' \in [Actors -> Procs \cup {None}] /\ to'[a] = parent[subj[a]]
        /\ \A b \in Actors : b # a => to'[b] = to[b]
    BY <1>1, <1>3 DEF Inv, TypeOK
  <2>3. TypeOK'
    BY <1>0, <1>1, <2>1, <2>2 DEF Inv, TypeOK
  <2>4. Reports'
    BY <1>0, <1>1, <2>1, Distinct DEF Inv, Reports
  <2>5. \A v \in Waiters, d \in Children :
           (Ahead(a, d, v) => Ahead(a, d, v)') /\ ~Due(a, d, v)
    BY <1>0, <2>1, <2>2 DEF Ahead, Due
  <2> QED
    BY <1>0, <2>1, <2>2, <2>3, <2>4, <2>5, ReportStep DEF Asleep, Forwards, Calling
<1> QED
  BY <1>2, <1>3 DEF notify_target

LEMMA ReceiveSigchldInv ==
    ASSUME Inv, NEW a \in Actors, receive_sigchld(a) PROVE Inv'
<1>0. /\ step[a] \in {"exit_signal", "stop_signal"}
      /\ StepTo(a, "interrupt") \/ StepTo(a, "publish")
      /\ UNCHANGED <<lifecycle, stopped, parent, children, exited_children, wait_event, home,
                     sigact, events, alive, subj, to, wakes, rest, seen, pc, call, want, found,
                     stale, waiting, interruptible, interrupted, sched, accounted, raced>>
  BY DEF receive_sigchld, childVars, callVars, flagVars, ghosts
<1>1. /\ step' \in [Actors -> Steps] /\ step'[a] \in {"interrupt", "publish"}
      /\ \A b \in Actors : b # a => step'[b] = step[b]
  BY <1>0, Stepped DEF Inv, Steps, Sending
<1>2. pending' \in [Procs -> BOOLEAN]
  <2>1. pending \in [Procs -> BOOLEAN] /\ to[a] \in Procs
    BY <1>0 DEF Inv, TypeOK, Sending
  <2> QED
    BY <2>1 DEF receive_sigchld
<1>3. TypeOK'
  BY <1>0, <1>1, <1>2 DEF Inv, TypeOK, Sending
<1>4. Reports'
  BY <1>0, <1>1, Distinct DEF Inv, Reports
<1>5. \A v \in Waiters, d \in Children :
         (Ahead(a, d, v) => Ahead(a, d, v)') /\ ~Due(a, d, v)
  BY <1>0, <1>1 DEF Ahead, Due
<1> QED
  BY <1>0, <1>1, <1>3, <1>4, <1>5, ReportStep DEF Asleep, Forwards, Calling

LEMMA MarkSignalInterruptedInv ==
    ASSUME Inv, NEW a \in Actors, mark_signal_interrupted(a) PROVE Inv'
<1>0. /\ step[a] = "interrupt" /\ StepTo(a, IF a = Kill THEN "idle" ELSE "publish")
      /\ to' = IF a = Kill THEN [to EXCEPT ![a] = None] ELSE to
      /\ UNCHANGED <<lifecycle, stopped, parent, children, exited_children, wait_event, home,
                     sigact, events, pending, alive, subj, wakes, rest, seen, pc, call, want,
                     found, stale, waiting, interruptible, accounted, raced>>
  BY DEF mark_signal_interrupted, childVars, procVars, callVars, ghosts
<1>1. /\ step' \in [Actors -> Steps] /\ step'[a] = IF a = Kill THEN "idle" ELSE "publish"
      /\ \A b \in Actors : b # a => step'[b] = step[b]
  BY <1>0, Stepped DEF Inv, Steps, Sending
<1>2. /\ to' \in [Actors -> Procs \cup {None}] /\ (a # Kill => to' = to)
      /\ \A b \in Actors : b # a => to'[b] = to[b]
  BY <1>0 DEF Inv, TypeOK
<1>3. /\ interrupted' \in [Waiters -> BOOLEAN]
      /\ sched' \in [Waiters -> {"Running", "Blocked", "Ready"}]
      /\ \A v \in Waiters : sched'[v] = "Blocked" => sched[v] = "Blocked"
  <2>1. \/ \E w \in Waiters : /\ interrupted' = [interrupted EXCEPT ![w] = TRUE]
                              /\ sched' = [sched EXCEPT ![w] = IF @ = "Blocked" THEN "Ready" ELSE @]
        \/ UNCHANGED <<interrupted, sched>>
    BY DEF mark_signal_interrupted, wakeup_task, Members
  <2>2. interrupted \in [Waiters -> BOOLEAN] /\ sched \in [Waiters -> {"Running", "Blocked", "Ready"}]
    BY DEF Inv, TypeOK
  <2> QED
    BY <2>1, <2>2
<1>4. TypeOK'
  BY <1>0, <1>1, <1>2, <1>3 DEF Inv, TypeOK, Sending
<1>5. Reports'
  BY <1>0, <1>1, Distinct DEF Inv, Reports
<1>6. \A v \in Waiters, d \in Children :
         (Ahead(a, d, v) => Ahead(a, d, v)') /\ ~Due(a, d, v)
  BY <1>0, <1>1, <1>2, Distinct DEF Ahead, Due, Inv, Reports
<1>7. /\ a # Parent \/ {step[a], step'[a]} \cap {"idle", "take", "adopt", "insert"} = {}
      /\ \A v \in Waiters : (Asleep(v)' => Asleep(v)) /\ (stale[v] => stale'[v])
  BY <1>0, <1>1, <1>3, Distinct DEF Asleep
<1>8. /\ \A v \in Waiters, d \in Children : Calling(v) => Forwards(a, d, v)
      /\ \A b \in Actors : b # a => step'[b] = step[b] /\ to'[b] = to[b] /\ wakes'[b] = wakes[b]
  BY <1>0, <1>1, <1>2, <1>6 DEF Forwards
<1> QED
  BY <1>0, <1>4, <1>5, <1>7, <1>8, ReportStep

LEMMA PublishChildEventInv ==
    ASSUME Inv, NEW a \in Actors, publish_child_event(a) PROVE Inv'
<1>0. a # Kill
  BY DEF publish_child_event, Inv, Reports
<1>1. CASE /\ step[a] = "publish" /\ StepTo(a, "collect")
           /\ stale' = [w \in Waiters |-> \/ stale[w]
                                          \/ /\ home[w] = to[a]
                                             /\ pc[w] \notin {"user", "observe", "exited"}]
           /\ UNCHANGED <<lifecycle, stopped, parent, children, exited_children, wait_event,
                          home, sigact, events, pending, alive, subj, to, wakes, rest, seen, pc,
                          call, want, found, waiting, interruptible, interrupted, sched,
                          accounted, raced>>
  <2>1. /\ step' \in [Actors -> Steps] /\ step'[a] = "collect"
        /\ \A b \in Actors : b # a => step'[b] = step[b]
    BY <1>1, Stepped DEF Inv, Steps, Sending
  <2>2. stale' \in [Waiters -> BOOLEAN] /\ \A v \in Waiters : stale[v] => stale'[v]
    BY <1>1 DEF Inv, TypeOK
  <2>3. TypeOK'
    BY <1>1, <2>1, <2>2 DEF Inv, TypeOK, Sending
  <2>4. Reports'
    BY <1>0, <1>1, <2>1, Distinct DEF Inv, Reports
  <2>5. \A v \in Waiters, d \in Children :
           /\ Ahead(a, d, v) => Due(a, d, v)' /\ (pc[v] \in Scanned => stale'[v])
           /\ ~Due(a, d, v)
    BY <1>1, <2>1 DEF Ahead, Due, Scanned
  <2> QED
    BY <1>1, <2>1, <2>2, <2>3, <2>4, <2>5, ReportStep DEF Asleep, Forwards, Calling
<1>2. CASE /\ step[a] = "collect" /\ StepTo(a, "wake")
           /\ wakes' = [wakes EXCEPT ![a] = {w \in Members(to[a]) : waiting[w]}]
           /\ UNCHANGED <<lifecycle, stopped, parent, children, exited_children, wait_event,
                          home, sigact, events, pending, alive, subj, to, rest, seen, pc, call,
                          want, found, stale, waiting, interruptible, interrupted, sched,
                          accounted, raced>>
  <2>1. /\ step' \in [Actors -> Steps] /\ step'[a] = "wake"
        /\ \A b \in Actors : b # a => step'[b] = step[b]
    BY <1>2, Stepped DEF Inv, Steps, Sending
  <2>2. /\ wakes' \in [Actors -> SUBSET Waiters]
        /\ wakes'[a] = {w \in Members(to[a]) : waiting[w]}
        /\ \A b \in Actors : b # a => wakes'[b] = wakes[b]
    <3>1. wakes \in [Actors -> SUBSET Waiters] /\ Members(to[a]) \subseteq Waiters
      BY DEF Inv, TypeOK, Members
    <3> QED
      BY <1>2, <3>1
  <2>3. TypeOK'
    BY <1>2, <2>1, <2>2 DEF Inv, TypeOK, Sending
  <2>4. Reports'
    BY <1>0, <1>2, <2>1, Distinct DEF Inv, Reports
  <2>5. \A v \in Waiters, d \in Children :
           alive[home[v]] /\ (pc[v] = "sleep" => waiting[v]) =>
              ~Ahead(a, d, v) /\ (Due(a, d, v) => Due(a, d, v)' \/ ~Asleep(v)')
    BY <1>2, <2>1, <2>2 DEF Ahead, Due, Asleep, Members
  <2> QED
    BY <1>2, <2>1, <2>2, <2>3, <2>4, <2>5, ReportStep DEF Asleep, Forwards, Calling
<1> QED
  BY <1>1, <1>2 DEF publish_child_event, childVars, procVars, callVars, flagVars, ghosts

LEMMA WakeProcessChildWaitersInv ==
    ASSUME Inv, NEW a \in Actors, wake_process_child_waiters(a) PROVE Inv'
<1>0. /\ step[a] = "wake" /\ a # Kill
      /\ UNCHANGED <<lifecycle, stopped, parent, children, exited_children, wait_event, home,
                     sigact, events, pending, alive, subj, to, rest, seen, pc, call, want, found,
                     stale, waiting, interruptible, interrupted, accounted, raced>>
  BY DEF wake_process_child_waiters, childVars, procVars, callVars, ghosts, Inv, Reports
<1>1. ASSUME NEW u \in wakes[a], wakes' = [wakes EXCEPT ![a] = @ \ {u}], wakeup_task(u),
             UNCHANGED step
      PROVE  Inv'
  <2>1. /\ wakes' \in [Actors -> SUBSET Waiters] /\ wakes'[a] = wakes[a] \ {u}
        /\ \A b \in Actors : b # a => wakes'[b] = wakes[b]
    BY <1>1 DEF Inv, TypeOK
  <2>2. /\ sched' \in [Waiters -> {"Running", "Blocked", "Ready"}]
        /\ u \in Waiters /\ sched'[u] # "Blocked"
        /\ \A v \in Waiters : sched'[v] = "Blocked" => sched[v] = "Blocked"
    BY <1>1 DEF Inv, TypeOK, wakeup_task
  <2>3. TypeOK' /\ Reports'
    BY <1>0, <1>1, <2>1, <2>2 DEF Inv, TypeOK, Reports
  <2>4. \A v \in Waiters, d \in Children :
           ~Ahead(a, d, v) /\ (Due(a, d, v) => Due(a, d, v)' \/ ~Asleep(v)')
    BY <1>0, <1>1, <2>1, <2>2 DEF Ahead, Due, Asleep
  <2> QED
    BY <1>0, <1>1, <2>1, <2>2, <2>3, <2>4, ReportStep DEF Asleep, Forwards, Calling
<1>2. CASE wakes[a] = {} /\ StepTo(a, "done") /\ UNCHANGED <<wakes, sched>>
  <2>1. /\ step' \in [Actors -> Steps] /\ step'[a] = "done"
        /\ \A b \in Actors : b # a => step'[b] = step[b]
    BY <1>2, Stepped DEF Inv, Steps, Sending
  <2>2. TypeOK'
    BY <1>0, <1>2, <2>1 DEF Inv, TypeOK, Sending
  <2>3. Reports'
    BY <1>0, <2>1, Distinct DEF Inv, Reports
  <2>4. \A v \in Waiters, d \in Children : ~Ahead(a, d, v) /\ ~Due(a, d, v)
    BY <1>0, <1>2 DEF Ahead, Due
  <2> QED
    BY <1>0, <1>2, <2>1, <2>2, <2>3, <2>4, ReportStep DEF Asleep, Forwards, Calling
<1> QED
  BY <1>1, <1>2 DEF wake_process_child_waiters

LEMMA PublishZombieInv ==
    ASSUME Inv, NEW c \in Children, publish_zombie(c) PROVE Inv'
<1>0. /\ step[c] = "idle" /\ StepTo(c, "exit_target")
      /\ lifecycle[c] = "Running" /\ lifecycle' = [lifecycle EXCEPT ![c] = "Zombie"]
      /\ raced' = IF seen.child = c /\ ~seen.exited /\ step[Parent] \in {"adopt", "insert"}
                  THEN raced \cup {c} ELSE raced
      /\ UNCHANGED <<stopped, parent, children, exited_children, wait_event, home, sigact,
                     events, pending, alive, subj, to, wakes, rest, seen, pc, call, want, found,
                     stale, waiting, interruptible, interrupted, sched, accounted>>
  BY DEF publish_zombie, procVars, callVars, flagVars
<1>1. /\ c \in Actors /\ c # Parent /\ c # Kill /\ Parent \in Actors
      /\ step' \in [Actors -> Steps] /\ step'[c] = "exit_target"
      /\ \A b \in Actors : b # c => step'[b] = step[b]
  BY <1>0, Stepped, Distinct DEF Inv, Steps, Sending
<1>2. /\ lifecycle' \in [Children -> {"Running", "Zombie", "Reaped"}] /\ lifecycle'[c] = "Zombie"
      /\ \A d \in Children : d # c => lifecycle'[d] = lifecycle[d]
      /\ raced' \subseteq Children /\ raced \subseteq raced'
  BY <1>0 DEF Inv, TypeOK
<1>3. TypeOK'
  BY <1>0, <1>1, <1>2 DEF Inv, TypeOK, Sending
<1>4. Reports' /\ Calls'
  BY <1>0, <1>1, Distinct DEF Inv, Reports, Calls
<1>5. \A d \in Children : Moving(d)' <=> Moving(d)
  BY <1>0, <1>1 DEF Moving
<1>6. Places'
  BY <1>0, <1>1, <1>2, <1>5 DEF Inv, Places, Placed, Moving
<1>7. Races'
  BY <1>0, <1>1, <1>2 DEF Inv, Races, Moving
<1>8. Accounts'
  BY <1>0, <1>2, SMTT(60) DEF Inv, Accounts, Calls
<1>9. NoneMissed'
  <2>1. \A v \in Waiters, b \in Actors, d \in Children : d # c => Forwards(b, d, v)
    BY <1>0, <1>1, <1>4, SMTT(60) DEF Forwards, Ahead, Due, Reports
  <2>2. \A v \in Waiters, d \in Children :
           d # c /\ Calling(v) /\ d \in Zombies(v)' => d \in Zombies(v)
    BY <1>0, <1>2 DEF Zombies, Matching
  <2>3. \A v \in Waiters : Calling(v) /\ c \in Zombies(v)' => Ahead(c, c, v)'
    BY <1>0, <1>1 DEF Zombies, Matching, Calling, Ahead, Inv, Reports, Places, Placed
  <2> QED
    BY <1>0, <1>1, <1>2, <1>3, <2>1, <2>2, <2>3, ActorMissesNone DEF Asleep
<1> QED
  BY <1>3, <1>4, <1>6, <1>7, <1>8, <1>9 DEF Inv

LEMMA MarkChildExitedInv ==
    ASSUME Inv, NEW a \in Actors, mark_child_exited(a) PROVE Inv'
<1>0. /\ step[a] = "mark" /\ StepTo(a, "exit_signal")
      /\ UNCHANGED <<stopped, parent, wait_event, home, sigact, events, pending, alive, subj,
                     to, wakes, rest, seen, pc, call, want, found, stale, waiting,
                     interruptible, interrupted, sched, accounted, raced>>
  BY DEF mark_child_exited, procVars, callVars, flagVars, ghosts
<1>1. PICK c \in Children, p \in Procs : c = subj[a] /\ p = to[a]
  BY <1>0, Distinct DEF Inv, Reports, TypeOK, Sending
<1>2. /\ step' \in [Actors -> Steps] /\ step'[a] = "exit_signal" /\ a # Kill
      /\ \A b \in Actors : b # a => step'[b] = step[b]
  BY <1>0, Stepped, Distinct DEF Inv, Steps, Sending, Reports
<1>3. Reports'
  BY <1>0, <1>1, <1>2, Distinct DEF Inv, Reports
<1>4. \A v \in Waiters, d \in Children, b \in Actors : Forwards(b, d, v)
  BY <1>0, <1>2, SMTT(60) DEF Forwards, Ahead, Due
<1>5. CASE /\ children' = [children EXCEPT ![p] = @ \ {c}]
           /\ exited_children' = [exited_children EXCEPT ![p] = @ \ {c}]
           /\ lifecycle' = IF c \in children[p] THEN [lifecycle EXCEPT ![c] = "Reaped"]
                                                ELSE lifecycle
  <2>1. /\ children' \in [Procs -> SUBSET Children] /\ c \notin children'[p]
        /\ exited_children' \in [Procs -> SUBSET Children]
        /\ \A q \in Procs : /\ children'[q] \subseteq children[q]
                            /\ q # p => children'[q] = children[q]
                            /\ \A d \in Children : d # c => (d \in children'[q] <=> d \in children[q])
    BY <1>5 DEF Inv, TypeOK
  <2>2. /\ lifecycle' \in [Children -> {"Running", "Zombie", "Reaped"}]
        /\ \A d \in Children : d # c => lifecycle'[d] = lifecycle[d]
        /\ lifecycle'[c] = IF c \in children[p] THEN "Reaped" ELSE lifecycle[c]
    BY <1>5 DEF Inv, TypeOK
  <2>3. TypeOK'
    BY <1>0, <1>2, <2>1, <2>2 DEF Inv, TypeOK, Sending
  <2>4. Calls' /\ Accounts'
    BY <1>0, <2>2, SMTT(60) DEF Inv, Calls, Accounts
  <2>5. /\ \A d \in Children : Moving(d)' <=> Moving(d)
        /\ step'[Parent] \in {"idle", "take", "insert"} => step'[Parent] = step[Parent]
    BY <1>0, <1>2, Distinct DEF Moving
  <2>6. Races'
    BY <1>0, <2>2, <2>5 DEF Inv, Races, Moving
  <2>7. \A d \in Children \ {c} : Placed(d)'
    BY <1>0, <2>1, <2>2, <2>5 DEF Inv, Places, Placed, Moving
  <2>8. Placed(c)'
    <3>1. CASE c \in children[p]
      <4>1. /\ c \notin rest /\ ~Moving(c)
            /\ \A q \in Procs : c \notin children'[q]
        BY <2>1, <3>1 DEF Inv, Places, Placed
      <4> QED
        BY <1>0, <2>2, <2>5, <3>1, <4>1 DEF Placed, Moving
    <3>2. CASE c \notin children[p]
      <4>1. lifecycle'[c] = lifecycle[c] /\ \A q \in Procs : c \in children'[q] <=> c \in children[q]
        BY <2>1, <2>2, <3>2
      <4> QED
        BY <1>0, <2>5, <4>1 DEF Inv, Places, Placed, Moving
    <3> QED
      BY <3>1, <3>2
  <2>9. Places'
    BY <1>0, <2>5, <2>7, <2>8 DEF Inv, Places
  <2>10. \A v \in Waiters : Calling(v) => Zombies(v)' \subseteq Zombies(v)
    BY <1>0, <2>1, <2>2 DEF Zombies, Matching, Calling, Inv, TypeOK
  <2>11. NoneMissed'
    BY <1>0, <1>4, <2>3, <2>10, ActorMissesNone DEF Asleep
  <2> QED
    BY <1>3, <2>3, <2>4, <2>6, <2>9, <2>11 DEF Inv
<1>6. CASE /\ exited_children' = [exited_children EXCEPT ![p] = @ \cup {c}]
           /\ UNCHANGED <<children, lifecycle>>
  <2>1. exited_children' \in [Procs -> SUBSET Children]
    BY <1>6 DEF Inv, TypeOK
  <2>2. TypeOK'
    BY <1>0, <1>2, <1>6, <2>1 DEF Inv, TypeOK, Sending
  <2> QED
    BY <1>0, <1>2, <1>3, <1>4, <1>6, <2>2, ReportStep DEF Asleep
<1> QED
  BY <1>1, <1>5, <1>6 DEF mark_child_exited

-----------------------------------------------------------------------------
(* So does each step of the reparenting.                                   *)

LEMMA ReparentStartInv ==
    ASSUME Inv, reparent_start PROVE Inv'
<1>0. /\ alive[Parent] /\ alive' = [alive EXCEPT ![Parent] = FALSE]
      /\ pc' = [w \in Waiters |-> IF home[w] = Parent THEN "exited" ELSE pc[w]]
      /\ waiting' = [w \in Waiters |-> waiting[w] /\ home[w] # Parent]
      /\ interruptible' = [w \in Waiters |-> interruptible[w] /\ home[w] # Parent]
      /\ interrupted' = [w \in Waiters |-> interrupted[w] /\ home[w] # Parent]
      /\ sched' = [w \in Waiters |-> IF home[w] = Parent THEN "Running" ELSE sched[w]]
      /\ pending' = [pending EXCEPT ![Parent] = FALSE] /\ StepTo(Parent, "take")
      /\ UNCHANGED <<lifecycle, stopped, parent, children, exited_children, wait_event, home,
                     sigact, events, subj, to, wakes, rest, seen, call, want, found, stale,
                     accounted, raced>>
  BY DEF reparent_start, childVars, ghosts
<1>1. /\ step' \in [Actors -> Steps] /\ step[Parent] = "idle" /\ step'[Parent] = "take"
      /\ \A b \in Actors : b # Parent => step'[b] = step[b]
  <2>1. Parent \in Actors /\ "take" \in Steps
    BY Distinct DEF Steps, Sending
  <2>2. step[Parent] = "idle"
    BY <1>0 DEF Inv, Reports
  <2> QED
    BY <1>0, <2>1, <2>2, Stepped DEF Inv
<1>2. /\ alive' \in [Procs -> BOOLEAN] /\ ~alive'[Parent] /\ alive'[InitProc] = alive[InitProc]
      /\ pending' \in [Procs -> BOOLEAN] /\ interruptible' \in [Waiters -> BOOLEAN]
      /\ interrupted' \in [Waiters -> BOOLEAN]
  BY <1>0, Distinct DEF Inv, TypeOK
<1>3. /\ pc' \in [Waiters -> Labels] /\ waiting' \in [Waiters -> BOOLEAN]
      /\ sched' \in [Waiters -> {"Running", "Blocked", "Ready"}]
      /\ \A w \in Waiters : IF home[w] = Parent
                            THEN pc'[w] = "exited"
                            ELSE pc'[w] = pc[w] /\ waiting'[w] = waiting[w] /\ sched'[w] = sched[w]
  BY <1>0 DEF Inv, TypeOK, Labels
<1>4. TypeOK'
  BY <1>0, <1>1, <1>2, <1>3 DEF Inv, TypeOK, Sending
<1>5. Reports'
  BY <1>0, <1>1, <1>2, Distinct DEF Inv, Reports
<1>6. Calls'
  BY <1>0, <1>2, <1>3, Distinct DEF Inv, Calls
<1>7. Places' /\ Races'
  BY <1>0, <1>1 DEF Inv, Places, Placed, Races, Moving
<1>8. Accounts'
  BY <1>0, <1>3 DEF Inv, Accounts
<1>9. /\ \A v \in Waiters : Zombies(v)' = Zombies(v)
      /\ \A v \in Waiters, d \in Children, b \in Actors : pc'[v] = pc[v] => Forwards(b, d, v)
  <2>1. \A v \in Waiters : pc'[v] = pc[v] => (Asleep(v)' => Asleep(v))
    BY <1>3 DEF Asleep
  <2> QED
    BY <1>0, <1>1, <2>1, SMTT(60) DEF Forwards, Ahead, Due, Zombies, Matching
<1>10. \A v \in Waiters : pc'[v] \in Scanned \cup {"sleep"} =>
          pc'[v] = pc[v] /\ (Asleep(v)' => Asleep(v)) /\ (stale[v] => stale'[v])
  BY <1>0, <1>3 DEF Asleep, Scanned
<1>11. NoneMissed'
  BY <1>0, <1>4, <1>9, <1>10, ActorMissesNone
<1> QED
  BY <1>4, <1>5, <1>6, <1>7, <1>8, <1>11 DEF Inv

LEMMA TakeChildrenInv ==
    ASSUME Inv, take_children PROVE Inv'
<1>0. /\ step[Parent] = "take" /\ rest' = children[Parent]
      /\ children' = [children EXCEPT ![Parent] = {}]
      /\ exited_children' = [exited_children EXCEPT ![Parent] = {}]
      /\ StepTo(Parent, IF children[Parent] = {} THEN "gone" ELSE "next")
      /\ UNCHANGED <<lifecycle, stopped, parent, wait_event, home, sigact, events, pending,
                     alive, subj, to, wakes, seen, pc, call, want, found, stale, waiting,
                     interruptible, interrupted, sched, accounted, raced>>
  BY DEF take_children, procVars, callVars, flagVars, ghosts
<1>1. /\ step' \in [Actors -> Steps] /\ step'[Parent] \in {"gone", "next"}
      /\ \A b \in Actors : b # Parent => step'[b] = step[b]
  BY <1>0, Stepped, Distinct DEF Inv, Steps, Sending
<1>2. /\ children' \in [Procs -> SUBSET Children] /\ exited_children' \in [Procs -> SUBSET Children]
      /\ children'[Parent] = {} /\ children'[InitProc] = children[InitProc]
      /\ rest' \subseteq Children
  BY <1>0, Distinct DEF Inv, TypeOK
<1>3. TypeOK'
  BY <1>0, <1>1, <1>2 DEF Inv, TypeOK, Sending
<1>4. Reports' /\ Calls' /\ Accounts'
  BY <1>0, <1>1, Distinct, SMTT(60) DEF Inv, Reports, Calls, Accounts
<1>5. Places' /\ Races'
  <2>1. rest = {} /\ \A d \in Children : ~Moving(d) /\ ~Moving(d)'
    BY <1>0, <1>1 DEF Inv, Places, Moving
  <2> QED
    BY <1>0, <1>1, <1>2, <2>1, Distinct DEF Inv, Places, Placed, Races, Moving
<1>6. \A v \in Waiters : Calling(v) => Zombies(v)' \subseteq Zombies(v)
  BY <1>0, <1>2, Distinct DEF Zombies, Matching, Calling
<1>7. \A v \in Waiters, d \in Children, b \in Actors : Forwards(b, d, v)
  BY <1>0, <1>1, SMTT(60) DEF Forwards, Ahead, Due
<1>8. NoneMissed'
  BY <1>0, <1>3, <1>6, <1>7, ActorMissesNone DEF Asleep
<1> QED
  BY <1>3, <1>4, <1>5, <1>8 DEF Inv

LEMMA ReadExitedInv ==
    ASSUME Inv, read_exited PROVE Inv'
<1>0. /\ step[Parent] = "next" /\ StepTo(Parent, "adopt")
      /\ UNCHANGED <<lifecycle, stopped, parent, children, exited_children, wait_event, home,
                     sigact, events, pending, alive, subj, to, wakes, pc, call, want, found,
                     stale, waiting, interruptible, interrupted, sched, accounted, raced>>
  BY DEF read_exited, childVars, procVars, callVars, flagVars, ghosts
<1>1. PICK c \in rest : /\ rest' = rest \ {c}
                       /\ seen' = [child |-> c, exited |-> lifecycle[c] = "Zombie"]
  BY DEF read_exited
<1>2. /\ step' \in [Actors -> Steps] /\ step'[Parent] = "adopt"
      /\ \A b \in Actors : b # Parent => step'[b] = step[b]
  BY <1>0, Stepped, Distinct DEF Inv, Steps, Sending
<1>3. /\ c \in Children /\ rest' \subseteq Children /\ seen' \in Findings
      /\ seen'.child = c /\ (seen'.exited <=> lifecycle[c] = "Zombie")
  BY <1>1 DEF Inv, TypeOK, Findings
<1>4. TypeOK'
  BY <1>0, <1>2, <1>3 DEF Inv, TypeOK, Sending
<1>5. Reports' /\ Calls' /\ Accounts'
  BY <1>0, <1>2, <1>3, Distinct DEF Inv, Reports, Calls, Accounts
<1>6. \A d \in Children : ~Moving(d) /\ (Moving(d)' <=> d = c)
  BY <1>0, <1>2, <1>3 DEF Moving
<1>7. Places'
  BY <1>0, <1>1, <1>2, <1>3, <1>6 DEF Inv, Places, Placed, Moving
<1>8. Races'
  BY <1>0, <1>3, <1>6 DEF Races, Moving
<1>9. /\ \A v \in Waiters : Zombies(v)' = Zombies(v)
      /\ \A v \in Waiters, d \in Children, b \in Actors : Forwards(b, d, v)
  BY <1>0, <1>2, SMTT(60) DEF Forwards, Ahead, Due, Zombies, Matching
<1>10. NoneMissed'
  BY <1>0, <1>4, <1>9, ActorMissesNone DEF Asleep
<1> QED
  BY <1>4, <1>5, <1>7, <1>8, <1>10 DEF Inv

LEMMA AddChildInv ==
    ASSUME Inv, add_child PROVE Inv'
<1>0. /\ UNCHANGED <<lifecycle, stopped, exited_children, wait_event, home, sigact, events,
                     pending, alive, to, wakes, rest, seen, pc, call, want, found, stale,
                     waiting, interruptible, interrupted, sched, accounted, raced>>
      /\ step[Parent] \in {"adopt", "insert"}
  BY DEF add_child, procVars, callVars, flagVars, ghosts
<1>1. PICK c \in Children : c = seen.child /\ Moving(c)
  BY <1>0 DEF Inv, Reports, Moving
<1>2. \A p \in Procs : c \notin children[p]
  BY <1>1 DEF Inv, Places, Placed
<1>3. CASE /\ step[Parent] = "adopt" /\ StepTo(Parent, "insert")
           /\ parent' = [parent EXCEPT ![c] = InitProc]
           /\ UNCHANGED <<children, subj>>
  <2>1. /\ step' \in [Actors -> Steps] /\ step'[Parent] = "insert"
        /\ \A b \in Actors : b # Parent => step'[b] = step[b]
    BY <1>3, Stepped, Distinct DEF Inv, Steps, Sending
  <2>2. /\ parent' \in [Children -> Procs] /\ parent'[c] = InitProc
        /\ \A d \in Children : d # c => parent'[d] = parent[d]
    BY <1>3, Distinct DEF Inv, TypeOK
  <2>3. TypeOK'
    BY <1>0, <1>3, <2>1, <2>2 DEF Inv, TypeOK, Sending
  <2>4. Reports' /\ Calls' /\ Accounts'
    <3>1. Reports'
      BY <1>0, <1>1, <1>3, <2>1, Distinct DEF Inv, Reports
    <3> QED
      BY <1>0, <3>1 DEF Inv, Calls, Accounts
  <2>5. \A d \in Children : Moving(d)' <=> Moving(d)
    BY <1>0, <1>3, <2>1 DEF Moving
  <2>6. Places' /\ Races'
    BY <1>0, <1>1, <1>2, <1>3, <2>1, <2>2, <2>5 DEF Inv, Places, Placed, Races, Moving
  <2>7. \A v \in Waiters, d \in Children :
           Calling(v) /\ d \in Zombies(v)' => d \in Zombies(v) /\ d # c
    BY <1>0, <1>2, <1>3 DEF Zombies, Matching, Calling
  <2>8. \A v \in Waiters, d \in Children, b \in Actors : d # c => Forwards(b, d, v)
    BY <1>0, <1>3, <2>1, <2>2, SMTT(60) DEF Forwards, Ahead, Due
  <2>9. NoneMissed'
    BY <1>0, <2>3, <2>7, <2>8, ActorMissesNone DEF Asleep
  <2> QED
    BY <2>3, <2>4, <2>6, <2>9 DEF Inv
<1>4. CASE /\ step[Parent] = "insert" /\ StepTo(Parent, IF seen.exited THEN "exit_target" ELSE "done")
           /\ children' = [children EXCEPT ![InitProc] = @ \cup {c}]
           /\ subj' = [subj EXCEPT ![Parent] = c]
           /\ UNCHANGED parent
  <2> DEFINE l == IF seen.exited THEN "exit_target" ELSE "done"
  <2>0. step[Parent] = "insert" /\ UNCHANGED parent
    BY <1>4
  <2>1. /\ step' \in [Actors -> Steps] /\ step'[Parent] = l
        /\ \A b \in Actors : b # Parent => step'[b] = step[b]
    <3>1. l \in Steps
      BY DEF Steps
    <3> HIDE DEF l
    <3> QED
      BY <1>4, <3>1, Stepped, Distinct DEF Inv, l
  <2>2. /\ subj' \in [Actors -> Children \cup {None}] /\ subj'[Parent] = c
        /\ \A b \in Actors : b # Parent => subj'[b] = subj[b]
    BY <1>4, Distinct DEF Inv, TypeOK
  <2>3. /\ children' \in [Procs -> SUBSET Children] /\ c \in children'[InitProc]
        /\ \A p \in Procs, d \in Children : d # c => (d \in children'[p] <=> d \in children[p])
        /\ \A p \in Procs : p # InitProc => children'[p] = children[p]
    BY <1>4, Distinct, SMTT(60) DEF Inv, TypeOK
  <2>4. TypeOK'
    BY <1>0, <1>4, <2>1, <2>2, <2>3 DEF Inv, TypeOK, Sending
  <2>5. Reports' /\ Calls' /\ Accounts'
    <3>1. Reports'
      BY <1>0, <1>1, <2>0, <2>1, <2>2, Distinct DEF Inv, Reports
    <3> QED
      BY <1>0, <3>1 DEF Inv, Calls, Accounts
  <2>6. \A d \in Children : (Moving(d) <=> d = c) /\ ~Moving(d)'
    BY <1>0, <1>1, <2>1 DEF Moving
  <2>7. Races' /\ parent[c] = InitProc /\ lifecycle[c] # "Reaped" /\ c \notin rest
    BY <1>1, <2>0, <2>6 DEF Inv, Races, Places, Placed
  <2>8. Places'
    <3>1. Placed(c)'
      BY <1>0, <1>2, <2>0, <2>3, <2>6, <2>7, Distinct DEF Placed
    <3>2. \A d \in Children : d # c => Placed(d)'
      BY <1>0, <2>0, <2>3, <2>6 DEF Inv, Places, Placed
    <3> QED
      BY <1>0, <2>1, <3>1, <3>2 DEF Places
  <2>9. \A v \in Waiters, d \in Children :
           d # c /\ Calling(v) /\ d \in Zombies(v)' => d \in Zombies(v)
    BY <1>0, <2>3 DEF Zombies, Matching, Calling
  <2>10. \A v \in Waiters, d \in Children, b \in Actors : Forwards(b, d, v)
    <3>1. \A v \in Waiters, d \in Children : ~Ahead(Parent, d, v) /\ ~Due(Parent, d, v)
      BY <2>0 DEF Ahead, Due
    <3>2. \A v \in Waiters, d \in Children, b \in Actors : b # Parent =>
             (Ahead(b, d, v) => Ahead(b, d, v)') /\ (Due(b, d, v) => Due(b, d, v)')
      BY <1>0, <2>0, <2>1, <2>2 DEF Ahead, Due
    <3> QED
      BY <3>1, <3>2 DEF Forwards
  <2>11. \A v \in Waiters : Calling(v) /\ c \in Zombies(v)' \ raced' => Ahead(Parent, c, v)'
    <3> SUFFICES ASSUME NEW v \in Waiters, Calling(v), c \in Zombies(v)' \ raced'
                 PROVE  Ahead(Parent, c, v)'
      OBVIOUS
    <3>1. home[v] = InitProc /\ lifecycle[c] = "Zombie"
      BY <1>0, <1>2, <2>3 DEF Zombies, Matching, Calling
    <3>2. seen.exited
      BY <1>0, <1>1, <3>1 DEF Inv, Races
    <3> QED
      BY <1>0, <2>0, <2>1, <2>2, <2>7, <3>1, <3>2 DEF Ahead
  <2>12. NoneMissed'
    BY <1>0, <2>4, <2>9, <2>10, <2>11, Distinct, ActorMissesNone, SMTT(60) DEF Asleep
  <2> QED
    BY <2>4, <2>5, <2>7, <2>8, <2>12 DEF Inv
<1> QED
  BY <1>1, <1>3, <1>4 DEF add_child

LEMMA ReparentNextInv ==
    ASSUME Inv, reparent_next PROVE Inv'
<1>0. /\ step[Parent] = "done" /\ StepTo(Parent, IF rest = {} THEN "gone" ELSE "next")
      /\ seen' = Nothing /\ subj' = [subj EXCEPT ![Parent] = None]
      /\ to' = [to EXCEPT ![Parent] = None]
      /\ UNCHANGED <<lifecycle, stopped, parent, children, exited_children, wait_event, home,
                     sigact, events, pending, alive, wakes, rest, pc, call, want, found, stale,
                     waiting, interruptible, interrupted, sched, accounted, raced>>
  BY DEF reparent_next, childVars, procVars, callVars, flagVars, ghosts
<1>1. /\ step' \in [Actors -> Steps] /\ step'[Parent] \in {"gone", "next"}
      /\ \A b \in Actors : b # Parent => step'[b] = step[b]
  BY <1>0, Stepped, Distinct DEF Inv, Steps, Sending
<1>2. /\ subj' \in [Actors -> Children \cup {None}] /\ to' \in [Actors -> Procs \cup {None}]
      /\ \A b \in Actors : b # Parent => subj'[b] = subj[b] /\ to'[b] = to[b]
  BY <1>0 DEF Inv, TypeOK
<1>3. TypeOK'
  BY <1>0, <1>1, <1>2, NothingFound DEF Inv, TypeOK, Sending
<1>4. Reports' /\ Calls' /\ Accounts'
  BY <1>0, <1>1, <1>2, Distinct, SMTT(60) DEF Inv, Reports, Calls, Accounts
<1>5. \A d \in Children : ~Moving(d) /\ ~Moving(d)'
  BY <1>0, <1>1 DEF Moving
<1>6. Places' /\ Races'
  BY <1>0, <1>1, <1>5 DEF Inv, Places, Placed, Races, Moving
<1>7. /\ \A v \in Waiters : Zombies(v)' = Zombies(v)
      /\ \A v \in Waiters, d \in Children, b \in Actors : Forwards(b, d, v)
  BY <1>0, <1>1, <1>2, SMTT(60) DEF Forwards, Ahead, Due, Zombies, Matching
<1>8. NoneMissed'
  BY <1>0, <1>3, <1>7, ActorMissesNone DEF Asleep
<1> QED
  BY <1>3, <1>4, <1>6, <1>8 DEF Inv

-----------------------------------------------------------------------------
(* And each step of a waiter.                                              *)

LEMMA SysWaitInv ==
    ASSUME Inv, NEW w \in Waiters, NEW c \in {"wait4", "waitid", "nohang"},
           NEW S \in Selections, sys_wait(w, c, S)
    PROVE  Inv'
<1>0. /\ pc[w] = "user" /\ Goto(w, "observe")
      /\ call' = [call EXCEPT ![w] = c] /\ want' = [want EXCEPT ![w] = S]
      /\ UNCHANGED <<lifecycle, stopped, parent, children, exited_children, wait_event, home,
                     sigact, events, pending, alive, step, subj, to, wakes, rest, seen, found,
                     stale, waiting, interruptible, interrupted, sched, accounted, raced>>
  BY DEF sys_wait, childVars, procVars, actorVars, flagVars, ghosts
<1>1. /\ pc' \in [Waiters -> Labels] /\ pc'[w] = "observe"
      /\ \A v \in Waiters : v # w => pc'[v] = pc[v]
  BY <1>0, Moved DEF Inv, Labels
<1>2. /\ call' \in [Waiters -> {None, "wait4", "waitid", "nohang"}]
      /\ want' \in [Waiters -> SUBSET Children] /\ \A v \in Waiters : v # w => want'[v] = want[v]
  BY <1>0, Distinct, SMTT(60) DEF Inv, TypeOK
<1>3. TypeOK'
  BY <1>0, <1>1, <1>2 DEF Inv, TypeOK
<1> QED
  BY <1>0, <1>1, <1>2, <1>3, LocalStep DEF Others, Scanned

LEMMA ObserveGenerationInv ==
    ASSUME Inv, NEW w \in Waiters, observe_generation(w) PROVE Inv'
<1>0. /\ pc[w] = "observe" /\ Goto(w, "scan") /\ stale' = [stale EXCEPT ![w] = FALSE]
      /\ UNCHANGED <<lifecycle, stopped, parent, children, exited_children, wait_event, home,
                     sigact, events, pending, alive, step, subj, to, wakes, rest, seen, call,
                     want, found, waiting, interruptible, interrupted, sched, accounted, raced>>
  BY DEF observe_generation, childVars, procVars, actorVars, flagVars, ghosts
<1>1. /\ pc' \in [Waiters -> Labels] /\ pc'[w] = "scan"
      /\ \A v \in Waiters : v # w => pc'[v] = pc[v]
  BY <1>0, Moved DEF Inv, Labels
<1>2. stale' \in [Waiters -> BOOLEAN] /\ \A v \in Waiters : v # w => stale'[v] = stale[v]
  BY <1>0 DEF Inv, TypeOK
<1>3. TypeOK'
  BY <1>0, <1>1, <1>2 DEF Inv, TypeOK
<1> QED
  BY <1>0, <1>1, <1>2, <1>3, LocalStep DEF Others, Scanned

LEMMA ScanChildrenInv ==
    ASSUME Inv, NEW w \in Waiters, scan_children(w) PROVE Inv'
<1>0. /\ pc[w] = "scan"
      /\ UNCHANGED <<lifecycle, stopped, parent, children, exited_children, wait_event, home,
                     sigact, events, pending, alive, step, subj, to, wakes, rest, seen, waiting,
                     interruptible, sched, accounted, raced>>
  BY DEF scan_children, childVars, procVars, actorVars, ghosts
<1>1. interrupted' \in [Waiters -> BOOLEAN]
  <2>1. interrupted \in [Waiters -> BOOLEAN]
    BY DEF Inv, TypeOK
  <2> QED
    BY <2>1 DEF scan_children
<1>2. CASE Return(w)
  <2>1. TypeOK'
    BY <1>0, <1>1, <1>2, Returned DEF Inv, TypeOK
  <2> QED
    BY <1>0, <1>2, <2>1, Returned, LocalStep DEF Inv, Others, Scanned
<1>3. ASSUME NEW c \in Events(w) \cup Zombies(w), NEW x \in BOOLEAN, Goto(w, "consume"),
             found' = [found EXCEPT ![w] = [child |-> c, exited |-> x]],
             UNCHANGED <<call, want, stale>>
      PROVE  Inv'
  <2>1. c \in Children
    BY <1>0 DEF Events, Zombies, Matching, Inv, Calls, TypeOK
  <2>2. [child |-> c, exited |-> x] \in Findings
    BY <2>1 DEF Findings
  <2>3. /\ found' \in [Waiters -> Findings] /\ found'[w].child = c
        /\ \A v \in Waiters : v # w => found'[v] = found[v]
    BY <1>3, <2>2 DEF Inv, TypeOK
  <2>4. /\ pc' \in [Waiters -> Labels] /\ pc'[w] = "consume"
        /\ \A v \in Waiters : v # w => pc'[v] = pc[v]
    BY <1>3, Moved DEF Inv, Labels
  <2>5. TypeOK'
    BY <1>0, <1>1, <1>3, <2>3, <2>4 DEF Inv, TypeOK
  <2> QED
    BY <1>0, <1>3, <2>1, <2>3, <2>4, <2>5, LocalStep DEF Others, Scanned
<1>4. CASE Zombies(w) = {} /\ Goto(w, "check") /\ UNCHANGED <<call, want, found, stale>>
  <2>1. /\ pc' \in [Waiters -> Labels] /\ pc'[w] = "check"
        /\ \A v \in Waiters : v # w => pc'[v] = pc[v]
    BY <1>4, Moved DEF Inv, Labels
  <2>2. TypeOK'
    BY <1>0, <1>1, <1>4, <2>1 DEF Inv, TypeOK
  <2>3. Zombies(w)' = {}
    BY <1>0, <1>4 DEF Zombies, Matching
  <2> QED
    BY <1>0, <1>4, <2>1, <2>2, <2>3, LocalStep DEF Others, Scanned
<1> QED
  BY <1>2, <1>3, <1>4 DEF scan_children

LEMMA CopyFaultInv ==
    ASSUME Inv, NEW w \in Waiters, copy_fault(w) PROVE Inv'
<1>0. /\ pc[w] = "consume" /\ Return(w)
      /\ UNCHANGED <<lifecycle, stopped, parent, children, exited_children, wait_event, home,
                     sigact, events, pending, alive, step, subj, to, wakes, rest, seen, waiting,
                     interruptible, interrupted, sched, accounted, raced>>
  BY DEF copy_fault, childVars, procVars, actorVars, flagVars, ghosts
<1>1. TypeOK'
  BY <1>0, Returned DEF Inv, TypeOK
<1> QED
  BY <1>0, <1>1, Returned, LocalStep DEF Inv, Others, Scanned

LEMMA TakeWaitEventInv ==
    ASSUME Inv, NEW w \in Waiters, take_wait_event(w) PROVE Inv'
<1>0. /\ pc[w] = "consume" /\ Return(w)
      /\ UNCHANGED <<lifecycle, stopped, parent, children, exited_children, home, sigact,
                     events, pending, alive, step, subj, to, wakes, rest, seen, waiting,
                     interruptible, sched, accounted, raced>>
  BY DEF take_wait_event, procVars, actorVars, ghosts
<1>1. /\ interrupted' \in [Waiters -> BOOLEAN]
      /\ wait_event' \in [Children -> {"none", "stopped", "continued"}]
  <2>1. /\ interrupted \in [Waiters -> BOOLEAN]
        /\ wait_event \in [Children -> {"none", "stopped", "continued"}]
    BY DEF Inv, TypeOK
  <2> QED
    BY <2>1 DEF take_wait_event
<1>2. TypeOK'
  BY <1>0, <1>1, Returned DEF Inv, TypeOK
<1> QED
  BY <1>0, <1>2, Returned, LocalStep DEF Inv, Others, Scanned

LEMMA MarkReapedInv ==
    ASSUME Inv, NEW w \in Waiters, mark_reaped(w) PROVE Inv'
<1>0. /\ pc[w] = "consume"
      /\ UNCHANGED <<stopped, parent, exited_children, wait_event, home, sigact, events,
                     pending, alive, step, subj, to, wakes, rest, seen, waiting, interruptible,
                     interrupted, sched, accounted, raced>>
  BY DEF mark_reaped, procVars, actorVars, flagVars, ghosts
<1>1. PICK c \in Children, p \in Procs : c = found[w].child /\ p = home[w]
  BY <1>0 DEF Inv, Calls
<1>2. CASE /\ c \in children[p] /\ Goto(w, "account")
           /\ children' = [children EXCEPT ![p] = @ \ {c}]
           /\ lifecycle' = [lifecycle EXCEPT ![c] = "Reaped"]
           /\ UNCHANGED <<call, want, found, stale>>
  <2>1. /\ pc' \in [Waiters -> Labels] /\ pc'[w] = "account"
        /\ \A v \in Waiters : v # w => pc'[v] = pc[v]
    BY <1>2, Moved DEF Inv, Labels
  <2>2. /\ children' \in [Procs -> SUBSET Children] /\ c \notin children'[p]
        /\ \A q \in Procs : /\ children'[q] \subseteq children[q]
                            /\ \A d \in Children : d # c => (d \in children'[q] <=> d \in children[q])
    BY <1>2 DEF Inv, TypeOK
  <2>3. /\ lifecycle' \in [Children -> {"Running", "Zombie", "Reaped"}]
        /\ lifecycle'[c] = "Reaped" /\ \A d \in Children : d # c => lifecycle'[d] = lifecycle[d]
    BY <1>2 DEF Inv, TypeOK
  <2>4. /\ c \notin rest /\ ~Moving(c) /\ lifecycle[c] # "Reaped" /\ UNCHANGED found
        /\ \A q \in Procs : c \notin children'[q]
    BY <1>2, <2>2 DEF Inv, Places, Placed
  <2>5. TypeOK'
    BY <1>0, <1>2, <2>1, <2>2, <2>3 DEF Inv, TypeOK
  <2>6. Reports' /\ Calls' /\ Races'
    BY <1>0, <1>1, <2>1, <2>3, <2>4 DEF Inv, Reports, Calls, Races, Moving
  <2>7. Places'
    BY <1>0, <2>2, <2>3, <2>4, SMTT(60) DEF Inv, Places, Placed, Moving
  <2>8. Accounts'
    BY <1>0, <1>1, <2>1, <2>3, <2>4, SMTT(60) DEF Inv, Accounts, Calls
  <2>9. \A v \in Waiters : v # w /\ pc[v] \in Scanned \cup {"sleep"} => Zombies(v)' \subseteq Zombies(v)
    BY <1>0, <1>2, <2>2, <2>3 DEF Zombies, Matching, Inv, TypeOK, Calls, Scanned
  <2>10. NoneMissed'
    <3> SUFFICES ASSUME NEW v \in Waiters, pc'[v] \in Scanned \cup {"sleep"},
                        NEW d \in Zombies(v)', d \notin raced'
                 PROVE  Covered(d, v)'
      BY DEF NoneMissed
    <3>1. v # w /\ pc'[v] = pc[v]
      BY <2>1 DEF Scanned
    <3>2. Covered(d, v)
      BY <1>0, <2>9, <3>1 DEF Inv, NoneMissed
    <3> QED
      BY <1>0, <1>2, <3>1, <3>2, ReportsStay DEF Covered, Asleep
  <2> QED
    BY <2>5, <2>6, <2>7, <2>8, <2>10 DEF Inv
<1>3. CASE Return(w) /\ UNCHANGED <<children, lifecycle>>
  <2>1. TypeOK'
    BY <1>0, <1>3, Returned DEF Inv, TypeOK
  <2> QED
    BY <1>0, <1>3, <2>1, Returned, LocalStep DEF Inv, Others, Scanned
<1> QED
  BY <1>1, <1>2, <1>3 DEF mark_reaped

LEMMA AccountChildInv ==
    ASSUME Inv, NEW w \in Waiters, account_child(w) PROVE Inv'
<1>0. /\ pc[w] = "account" /\ Return(w)
      /\ UNCHANGED <<lifecycle, stopped, parent, children, wait_event, home, sigact, events,
                     pending, alive, step, subj, to, wakes, rest, seen, waiting, interruptible,
                     sched, raced>>
  BY DEF account_child, procVars, actorVars
<1>1. PICK c \in Children, p \in Procs : c = found[w].child /\ p = home[w]
  BY <1>0 DEF Inv, Calls
<1>2. /\ accounted' \in [Children -> Nat] /\ accounted'[c] = 1 /\ lifecycle[c] = "Reaped"
      /\ \A d \in Children : d # c => accounted'[d] = accounted[d]
  BY <1>0, <1>1, SMTT(60) DEF account_child, Inv, TypeOK, Accounts
<1>3. exited_children' \in [Procs -> SUBSET Children] /\ interrupted' \in [Waiters -> BOOLEAN]
  <2>1. exited_children \in [Procs -> SUBSET Children] /\ interrupted \in [Waiters -> BOOLEAN]
    BY DEF Inv, TypeOK
  <2> QED
    BY <1>1, <2>1 DEF account_child
<1>4. TypeOK'
  BY <1>0, <1>2, <1>3, Returned DEF Inv, TypeOK
<1>5. /\ pc'[w] = "user"
      /\ \A v \in Waiters : v # w => pc'[v] = pc[v] /\ found'[v] = found[v]
  BY <1>0, Returned DEF Inv
<1>6. Accounts'
  BY <1>0, <1>1, <1>2, <1>5, SMTT(60) DEF Inv, Accounts, Calls
<1> QED
  BY <1>0, <1>4, <1>6, Returned, LocalStep DEF Inv, Others, Scanned

LEMMA CheckInterruptedInv ==
    ASSUME Inv, NEW w \in Waiters, check_interrupted(w) PROVE Inv'
<1>0. /\ pc[w] = "check"
      /\ UNCHANGED <<lifecycle, stopped, parent, children, exited_children, wait_event, home,
                     sigact, events, pending, alive, step, subj, to, wakes, rest, seen, waiting,
                     interruptible, sched, accounted, raced>>
  BY DEF check_interrupted, childVars, procVars, actorVars, ghosts
<1>1. interrupted' \in [Waiters -> BOOLEAN]
  <2>1. interrupted \in [Waiters -> BOOLEAN]
    BY DEF Inv, TypeOK
  <2> QED
    BY <2>1 DEF check_interrupted
<1>2. CASE Return(w)
  <2>1. TypeOK'
    BY <1>0, <1>1, <1>2, Returned DEF Inv, TypeOK
  <2> QED
    BY <1>0, <1>2, <2>1, Returned, LocalStep DEF Inv, Others, Scanned
<1>3. CASE Goto(w, "register") /\ UNCHANGED <<call, want, found, stale>>
  <2>1. /\ pc' \in [Waiters -> Labels] /\ pc'[w] = "register"
        /\ \A v \in Waiters : v # w => pc'[v] = pc[v]
    BY <1>3, Moved DEF Inv, Labels
  <2>2. TypeOK'
    BY <1>0, <1>1, <1>3, <2>1 DEF Inv, TypeOK
  <2> QED
    BY <1>0, <1>3, <2>1, <2>2, LocalStep DEF Others, Scanned
<1> QED
  BY <1>2, <1>3 DEF check_interrupted

LEMMA WaitRegisterInv ==
    ASSUME Inv, NEW w \in Waiters, wait_register(w) PROVE Inv'
<1>0. /\ pc[w] = "register" /\ Goto(w, "precheck")
      /\ interruptible' = [interruptible EXCEPT ![w] = TRUE]
      /\ waiting' = [waiting EXCEPT ![w] = TRUE]
      /\ UNCHANGED <<lifecycle, stopped, parent, children, exited_children, wait_event, home,
                     sigact, events, pending, alive, step, subj, to, wakes, rest, seen, call,
                     want, found, stale, interrupted, sched, accounted, raced>>
  BY DEF wait_register, childVars, procVars, actorVars, ghosts
<1>1. /\ pc' \in [Waiters -> Labels] /\ pc'[w] = "precheck"
      /\ \A v \in Waiters : v # w => pc'[v] = pc[v]
  BY <1>0, Moved DEF Inv, Labels
<1>2. /\ interruptible' \in [Waiters -> BOOLEAN] /\ waiting' \in [Waiters -> BOOLEAN]
      /\ waiting'[w] /\ \A v \in Waiters : v # w => waiting'[v] = waiting[v]
  BY <1>0 DEF Inv, TypeOK
<1>3. TypeOK'
  BY <1>0, <1>1, <1>2 DEF Inv, TypeOK
<1> QED
  BY <1>0, <1>1, <1>2, <1>3, LocalStep DEF Others, Scanned

\* The steps around schedule() change the scheduler's word of the task only.
LEMMA BlockStep ==
    ASSUME Inv, NEW w \in Waiters, NEW l \in Labels \ {"exited", "consume", "account"},
           Goto(w, l), pc[w] # "exited",
           sched' = sched \/ \E x \in {"Running", "Blocked"} : sched' = [sched EXCEPT ![w] = x],
           UNCHANGED <<lifecycle, stopped, parent, children, exited_children, wait_event, home,
                       sigact, events, pending, alive, step, subj, to, wakes, rest, seen, call,
                       want, found, stale, waiting, interruptible, interrupted, accounted, raced>>,
           l \in {"precheck", "recheck", "sleep"} => waiting[w],
           l \in Scanned \cup {"sleep"} => pc[w] \in Scanned,
           l = "sleep" => ~stale[w]
    PROVE  Inv'
<1>1. /\ pc' \in [Waiters -> Labels] /\ pc'[w] = l
      /\ \A v \in Waiters : v # w => pc'[v] = pc[v]
  BY Moved DEF Inv
<1>2. /\ sched' \in [Waiters -> {"Running", "Blocked", "Ready"}]
      /\ \A v \in Waiters : v # w => sched'[v] = sched[v]
  BY SMTT(60) DEF Inv, TypeOK
<1>3. TypeOK'
  BY <1>1, <1>2 DEF Inv, TypeOK
<1> QED
  BY <1>1, <1>2, <1>3, LocalStep DEF Others

LEMMA WaitPrepareInv ==
    ASSUME Inv, NEW w \in Waiters, wait_prepare(w) PROVE Inv'
<1>1. /\ pc[w] = "precheck" /\ waiting[w]
      /\ \/ Goto(w, "signalled") /\ UNCHANGED sched
         \/ Goto(w, "recheck") /\ sched' = [sched EXCEPT ![w] = "Blocked"]
      /\ UNCHANGED <<lifecycle, stopped, parent, children, exited_children, wait_event, home,
                     sigact, events, pending, alive, step, subj, to, wakes, rest, seen, call,
                     want, found, stale, waiting, interruptible, interrupted, accounted, raced>>
  BY DEF wait_prepare, childVars, procVars, actorVars, ghosts, Inv, Calls
<1> QED
  BY <1>1, BlockStep DEF Labels, Scanned

LEMMA WaitRecheckInv ==
    ASSUME Inv, NEW w \in Waiters, wait_recheck(w) PROVE Inv'
<1>1. /\ pc[w] = "recheck" /\ waiting[w]
      /\ \/ Goto(w, "resumed") /\ sched' = [sched EXCEPT ![w] = "Running"]
         \/ Goto(w, "sleep") /\ ~stale[w] /\ UNCHANGED sched
      /\ UNCHANGED <<lifecycle, stopped, parent, children, exited_children, wait_event, home,
                     sigact, events, pending, alive, step, subj, to, wakes, rest, seen, call,
                     want, found, stale, waiting, interruptible, interrupted, accounted, raced>>
  BY DEF wait_recheck, childVars, procVars, actorVars, ghosts, Inv, Calls
<1> QED
  BY <1>1, BlockStep DEF Labels, Scanned

LEMMA WaitResumeInv ==
    ASSUME Inv, NEW w \in Waiters, wait_resume(w) PROVE Inv'
<1>1. /\ pc[w] = "sleep" /\ Goto(w, "resumed") /\ sched' = [sched EXCEPT ![w] = "Running"]
      /\ UNCHANGED <<lifecycle, stopped, parent, children, exited_children, wait_event, home,
                     sigact, events, pending, alive, step, subj, to, wakes, rest, seen, call,
                     want, found, stale, waiting, interruptible, interrupted, accounted, raced>>
  BY DEF wait_resume, childVars, procVars, actorVars, ghosts
<1> QED
  BY <1>1, BlockStep DEF Labels, Scanned

LEMMA WaitFinishInv ==
    ASSUME Inv, NEW w \in Waiters, wait_finish(w) PROVE Inv'
<1>0. /\ pc[w] \in {"resumed", "signalled"}
      /\ waiting' = [waiting EXCEPT ![w] = FALSE]
      /\ interruptible' = [interruptible EXCEPT ![w] = FALSE]
      /\ UNCHANGED <<lifecycle, stopped, parent, children, exited_children, wait_event, home,
                     sigact, events, pending, alive, step, subj, to, wakes, rest, seen, sched,
                     accounted, raced>>
  BY DEF wait_finish, childVars, procVars, actorVars, ghosts
<1>1. interrupted' \in [Waiters -> BOOLEAN]
  <2>1. interrupted \in [Waiters -> BOOLEAN]
    BY DEF Inv, TypeOK
  <2> QED
    BY <2>1 DEF wait_finish
<1>2. /\ waiting' \in [Waiters -> BOOLEAN] /\ interruptible' \in [Waiters -> BOOLEAN]
      /\ \A v \in Waiters : v # w => waiting'[v] = waiting[v]
  BY <1>0 DEF Inv, TypeOK
<1>3. CASE Return(w)
  <2>1. TypeOK'
    BY <1>0, <1>1, <1>2, <1>3, Returned DEF Inv, TypeOK
  <2>2. Others(w) /\ pc'[w] = "user" /\ pc[w] # "exited"
    BY <1>0, <1>2, <1>3, Returned DEF Inv, Others
  <2> QED
    BY <1>0, <2>1, <2>2, LocalStep DEF Scanned
<1>4. CASE Goto(w, "observe") /\ UNCHANGED <<call, want, found, stale>>
  <2>1. /\ pc' \in [Waiters -> Labels] /\ pc'[w] = "observe"
        /\ \A v \in Waiters : v # w => pc'[v] = pc[v]
    BY <1>4, Moved DEF Inv, Labels
  <2>2. TypeOK'
    BY <1>0, <1>1, <1>2, <1>4, <2>1 DEF Inv, TypeOK
  <2> QED
    BY <1>0, <1>2, <1>4, <2>1, <2>2, LocalStep DEF Others, Scanned
<1> QED
  BY <1>3, <1>4 DEF wait_finish

LEMMA HandleSignalInv ==
    ASSUME Inv, NEW w \in Waiters, handle_signal(w) PROVE Inv'
<1>0. /\ pc[w] = "user"
      /\ UNCHANGED <<lifecycle, stopped, parent, children, exited_children, wait_event, home,
                     sigact, events, alive, step, subj, to, wakes, rest, seen, pc, call, want,
                     found, stale, waiting, interruptible, interrupted, sched, accounted, raced>>
  BY DEF handle_signal, childVars, actorVars, callVars, flagVars, ghosts
<1>1. pending' \in [Procs -> BOOLEAN]
  <2>1. pending \in [Procs -> BOOLEAN]
    BY DEF Inv, TypeOK
  <2> QED
    BY <2>1 DEF handle_signal
<1>2. TypeOK'
  BY <1>0, <1>1 DEF Inv, TypeOK
<1> QED
  BY <1>0, <1>2, LocalStep DEF Others, Scanned

-----------------------------------------------------------------------------
(* The invariant holds.                                                    *)

LEMMA InitInv == Init => Inv
<1> SUFFICES ASSUME Init PROVE Inv
  OBVIOUS
<1> USE Distinct
<1>1. PICK s \in Scenarios :
         /\ home = s.home /\ sigact = s.sigact /\ events = s.events
         /\ children = s.children
         /\ parent = [c \in Children |-> IF c \in s.children[InitProc] THEN InitProc ELSE Parent]
         /\ lifecycle = [c \in Children |->
                            IF c \in UNION {s.children[p] : p \in Procs} THEN "Running"
                                                                        ELSE "Reaped"]
  BY DEF Init
<1>2. /\ s.home \in [Waiters -> Procs \cup {None}]
      /\ s.children \in [Procs -> SUBSET Children]
      /\ s.sigact \in [Procs -> {"default", "handler", "nocldstop", "ignore", "nocldwait"}]
      /\ s.children[Parent] \cap s.children[InitProc] = {}
  <2>1. s \in [home : [Waiters -> Procs \cup {None}],
               children : [Procs -> SUBSET Children],
               sigact : [Procs -> {"default", "handler", "nocldstop", "ignore", "nocldwait"}],
               events : SUBSET {"stop", "kill", "reparent", "fault"}]
    BY WaitAssumption, Zenon
  <2>2. s.children[Parent] \cap s.children[InitProc] = {}
    BY WaitAssumption
  <2> HIDE Distinct
  <2> QED
    BY <2>1, <2>2
<1>3. /\ stopped = [c \in Children |-> FALSE]
      /\ exited_children = [p \in Procs |-> {}]
      /\ wait_event = [c \in Children |-> "none"]
      /\ pending = [p \in Procs |-> FALSE]
      /\ alive = [p \in Procs |-> TRUE]
  BY DEF Init
<1>4. /\ step = [a \in Actors |-> "idle"]
      /\ subj = [a \in Actors |-> IF a \in Children THEN a ELSE None]
      /\ to = [a \in Actors |-> None]
      /\ wakes = [a \in Actors |-> {}]
      /\ rest = {} /\ seen = [child |-> None, exited |-> FALSE]
  BY DEF Init, Nothing
<1>5. /\ pc = [w \in Waiters |-> IF home[w] = None THEN "exited" ELSE "user"]
      /\ call = [w \in Waiters |-> None]
      /\ want = [w \in Waiters |-> {}]
      /\ found = [w \in Waiters |-> [child |-> None, exited |-> FALSE]]
      /\ stale = [w \in Waiters |-> FALSE]
  BY DEF Init, Nothing
<1>6. /\ waiting = [w \in Waiters |-> FALSE]
      /\ interruptible = [w \in Waiters |-> FALSE]
      /\ interrupted = [w \in Waiters |-> FALSE]
      /\ sched = [w \in Waiters |-> "Running"]
      /\ accounted = [c \in Children |-> 0]
      /\ raced = {}
  BY DEF Init
<1>7. TypeOK
  <2>1. /\ lifecycle \in [Children -> {"Running", "Zombie", "Reaped"}]
        /\ stopped \in [Children -> BOOLEAN]
        /\ parent \in [Children -> Procs]
        /\ children \in [Procs -> SUBSET Children]
        /\ exited_children \in [Procs -> SUBSET Children]
        /\ wait_event \in [Children -> {"none", "stopped", "continued"}]
    BY <1>1, <1>2, <1>3
  <2>2. /\ home \in [Waiters -> Procs \cup {None}]
        /\ sigact \in [Procs -> {"default", "handler", "nocldstop", "ignore", "nocldwait"}]
        /\ pending \in [Procs -> BOOLEAN]
        /\ alive \in [Procs -> BOOLEAN]
    BY <1>1, <1>2, <1>3
  <2>3. /\ step \in [Actors -> Steps]
        /\ subj \in [Actors -> Children \cup {None}]
        /\ to \in [Actors -> Procs \cup {None}]
        /\ wakes \in [Actors -> SUBSET Waiters]
        /\ rest \subseteq Children
        /\ seen \in Findings
    BY <1>4, NothingFound DEF Steps, Nothing
  <2>4. \A a \in Actors :
          step[a] \in Sending => to[a] \in Procs
    BY <1>4 DEF Sending
  <2>5. /\ pc \in [Waiters -> Labels]
        /\ call \in [Waiters -> {None, "wait4", "waitid", "nohang"}]
        /\ want \in [Waiters -> SUBSET Children]
        /\ found \in [Waiters -> Findings]
        /\ stale \in [Waiters -> BOOLEAN]
    BY <1>5, NothingFound DEF Labels, Nothing
  <2>6. /\ waiting \in [Waiters -> BOOLEAN]
        /\ interruptible \in [Waiters -> BOOLEAN]
        /\ interrupted \in [Waiters -> BOOLEAN]
        /\ sched \in [Waiters -> {"Running", "Blocked", "Ready"}]
        /\ accounted \in [Children -> Nat]
        /\ raced \subseteq Children
    BY <1>6
  <2> QED
    BY <2>1, <2>2, <2>3, <2>4, <2>5, <2>6 DEF TypeOK
<1>8. Reports
  BY <1>3, <1>4 DEF Reports
<1>9. Calls
  <2>1. \A w \in Waiters : pc[w] \in {"exited", "user"} /\ (pc[w] = "user" => home[w] \in Procs)
    BY <1>1, <1>2, <1>5
  <2> QED
    BY <2>1, <1>3 DEF Calls
<1>10. Places
  <2>1. \A c \in Children : ~ Moving(c)
    BY <1>4 DEF Moving
  <2>2. \A c \in Children, p \in Procs : c \in children[p] => parent[c] = p
    BY <1>1, <1>2
  <2>3. \A c \in Children :
           lifecycle[c] = "Reaped" <=> \A p \in Procs : c \notin children[p]
    <3>1. \A c \in Children : c \in UNION {s.children[p] : p \in Procs}
                               <=> \E p \in Procs : c \in s.children[p]
      BY SMTT(60)
    <3> QED
      BY <1>1, <3>1
  <2> QED
    BY <2>1, <2>2, <2>3, <1>4 DEF Places, Placed
<1>11. \A w \in Waiters : pc[w] \in {"exited", "user"}
  BY <1>5
<1>12. Accounts
  BY <1>6, <1>11, SMTT(60) DEF Accounts
<1>13. Races
  BY <1>4 DEF Races, Moving
<1>14. NoneMissed
  BY <1>11 DEF NoneMissed, Scanned
<1> QED
  BY <1>7, <1>8, <1>9, <1>10, <1>12, <1>13, <1>14 DEF Inv

LEMMA StutterInv == Inv /\ UNCHANGED vars => Inv'
<1> SUFFICES ASSUME Inv, UNCHANGED vars PROVE Inv'
  OBVIOUS
<1>1. /\ UNCHANGED <<lifecycle, stopped, parent, children, exited_children, wait_event>>
      /\ UNCHANGED <<home, sigact, events, pending, alive>>
      /\ UNCHANGED <<step, subj, to, wakes, rest, seen>>
      /\ UNCHANGED <<pc, call, want, found, stale>>
      /\ UNCHANGED <<waiting, interruptible, interrupted, sched, accounted, raced>>
  BY DEF vars, childVars, procVars, actorVars, callVars, flagVars, ghosts
<1>2. TypeOK'
  BY <1>1 DEF Inv, TypeOK
<1>3. Reports' /\ Calls' /\ Accounts'
  BY <1>1 DEF Inv, Reports, Calls, Accounts
<1>4. Places' /\ Races'
  BY <1>1 DEF Inv, Places, Placed, Races, Moving
<1>5. NoneMissed'
  BY <1>1, SMTT(60) DEF Inv, NoneMissed, Covered, Ahead, Due, Asleep, Zombies, Matching
<1> QED
  BY <1>2, <1>3, <1>4, <1>5 DEF Inv

LEMMA ReportInv == ASSUME Inv, NEW a \in Actors, Report(a) PROVE Inv'
BY NotifyTargetInv, MarkChildExitedInv, ReceiveSigchldInv, MarkSignalInterruptedInv,
   PublishChildEventInv, WakeProcessChildWaitersInv DEF Report

LEMMA ReparentInv == ASSUME Inv, Reparent PROVE Inv'
<1>1. Parent \in Actors
  BY DEF Actors
<1> QED
  BY <1>1, TakeChildrenInv, ReadExitedInv, AddChildInv, ReparentNextInv, ReportInv
  DEF Reparent

LEMMA WaitInv == ASSUME Inv, NEW w \in Waiters, Wait(w) PROVE Inv'
BY ObserveGenerationInv, ScanChildrenInv, TakeWaitEventInv, MarkReapedInv, AccountChildInv,
   CheckInterruptedInv, WaitRegisterInv, WaitPrepareInv, WaitRecheckInv, WaitResumeInv,
   WaitFinishInv DEF Wait

LEMMA NextInv == Inv /\ [Next]_vars => Inv'
<1> SUFFICES ASSUME Inv, [Next]_vars PROVE Inv'
  OBVIOUS
<1>0. Children \subseteq Actors /\ Kill \in Actors
  BY DEF Actors
<1>1. ASSUME NEW c \in Children,
             publish_zombie(c) \/ set_wait_event(c) \/ notified(c) \/ Report(c)
      PROVE  Inv'
  BY <1>0, <1>1, PublishZombieInv, SetWaitEventInv, NotifiedInv, ReportInv
<1>2. ASSUME NEW p \in Procs, kill(p) PROVE Inv'
  BY <1>2, KillInv
<1>3. CASE mark_signal_interrupted(Kill)
  BY <1>0, <1>3, MarkSignalInterruptedInv
<1>4. CASE reparent_start
  BY <1>4, ReparentStartInv
<1>5. CASE Reparent
  BY <1>5, ReparentInv
<1>6. ASSUME NEW w \in Waiters, Wait(w) \/ copy_fault(w) \/ handle_signal(w) PROVE Inv'
  BY <1>6, WaitInv, CopyFaultInv, HandleSignalInv
<1>7. ASSUME NEW w \in Waiters, NEW c \in {"wait4", "waitid", "nohang"},
             NEW S \in Selections, sys_wait(w, c, S)
      PROVE  Inv'
  BY <1>7, SysWaitInv
<1>8. CASE UNCHANGED vars
  BY <1>8, StutterInv
<1> QED
  BY <1>1, <1>2, <1>3, <1>4, <1>5, <1>6, <1>7, <1>8 DEF Next

-----------------------------------------------------------------------------

\* Inv is an invariant of wait4(), waitid() and the reports to them.
THEOREM WaitInvariant == Spec => []Inv
<1> QED
  BY InitInv, NextInv, PTL DEF Spec

\* Type correctness; a report that goes on has found a parent to report to
\* (notify_process_parent_exit()).
THEOREM WaitTypes == Spec => []TypeOK
<1>1. Inv => TypeOK
  BY DEF Inv
<1> QED
  BY <1>1, WaitInvariant, PTL

\* No parent sleeps in wait_block_current() while a zombie it waits for has no
\* report on its way, for any number of children and waiters.
THEOREM NoZombieMissed == Spec => []NoMissedZombie
<1>1. Inv => NoMissedZombie
  <2> SUFFICES ASSUME Inv, NEW w \in Waiters, Asleep(w), NEW c \in Zombies(w) \ raced
               PROVE  Coming(c, w)
    BY DEF NoMissedZombie
  <2>1. PICK a \in Actors : Ahead(a, c, w) \/ Due(a, c, w)
    BY DEF Inv, NoneMissed, Covered, Asleep
  <2> QED
    BY <2>1 DEF Coming, Ahead, Due, Reporting
<1> QED
  BY <1>1, WaitInvariant, PTL

\* A child is reaped once and accounted for once: of two waiters that found
\* the same zombie, mark_reaped() lets one through.
THEOREM EachReapedOnce == Spec => []ReapedOnce
<1>1. Inv => ReapedOnce
  BY SMTT(60) DEF Inv, Accounts, Places, Placed, Moving, ReapedOnce
<1> QED
  BY <1>1, WaitInvariant, PTL

=============================================================================
