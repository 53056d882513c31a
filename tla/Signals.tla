------------------------------ MODULE Signals -------------------------------
(***************************************************************************)
(* The signals of one process: the queues of its threads and of the       *)
(* process (signal/sig_struct.rs, task/process.rs), sending and waking     *)
(* (try_receive_siginfo() in task/task.rs), the calls that wait for a      *)
(* signal (rt_sigsuspend, rt_sigtimedwait in syscall/signal.rs), delivery  *)
(* on the way back to the user (signal/mod.rs) and sigreturn.              *)
(*                                                                         *)
(* Threads run the programs of a scenario and may trap at any time;        *)
(* senders are threads of other processes.  A siginfo is a number, given   *)
(* in the order of sending.  The stacks of a thread are two towers of      *)
(* frames, the main one and the alternate one, and live in user memory.    *)
(***************************************************************************)
EXTENDS Integers, Sequences, SequencesExt, FiniteSets, FiniteSetsExt, Functions, TLC

CONSTANTS
    SgThreads,     \* threads of the process, numbers; the least is the leader
    SgSenders,     \* threads of other processes, numbers
    SIGS,          \* the signal numbers in use
    SgScenarios

VARIABLES sgSc, sg, th, snd
sgVars == <<sgSc, sg, th, snd>>

SIGKILL == 9
SIGCHLD == 17
SIGCONT == 18
SIGSTOP == 19
SIGLEGACYMAX == 32
Realtime(s) == s > SIGLEGACYMAX
Unblockable == {SIGKILL, SIGSTOP}
\* ActionType::default()
ActionDefault(s) == CASE s = SIGSTOP -> "stop" [] s = SIGCHLD -> "ignore" [] s = SIGCONT -> "cont" [] OTHER -> "term"
SIG_DFL == [h |-> "dfl", nodefer |-> FALSE, restart |-> FALSE, onstack |-> FALSE, reset |-> FALSE, mask |-> {}]
SIG_IGN == [SIG_DFL EXCEPT !.h = "ign"]

Base == [alt |-> FALSE, d |-> 0]
\* want, acts: the mask the program set for itself and the handlers it is
\* in, what the kernel's frames should bring back.
SgThread == [pc |-> "user", k |-> 1, mask |-> {}, pend |-> [s \in SIGS |-> <<>>], saved |-> <<>>,
             interruptible |-> FALSE, interrupted |-> FALSE, twait |-> {}, st |-> "Running", late |-> FALSE,
             altstack |-> FALSE, sp |-> Base, mem |-> <<>>, cur |-> 0, seen |-> <<>>, ret |-> "ok",
             want |-> {}, acts |-> <<>>]
SgSender == [pc |-> "idle", k |-> 1, id |-> 0, to |-> 0]

\* rt: queued_rt_signals; done: the siginfos handed to a handler, a default
\* action or a waiter, as <<signal, scope, id>>.
SgInit ==
    /\ sgSc \in SgScenarios
    /\ sg = [pend |-> [s \in SIGS |-> <<>>], rt |-> 0, act |-> sgSc.act, ids |-> 0, done |-> <<>>,
             exited |-> 0, events |-> <<>>]
    /\ th = [t \in SgThreads |-> SgThread]
    /\ snd = [x \in SgSenders |-> SgSender]

ThSet(t, r) == th' = [th EXCEPT ![t] = r @@ @]
SndSet(x, r) == snd' = [snd EXCEPT ![x] = r @@ @]
At(t, l) == th[t].pc = l /\ sg.exited = 0
Op(t) == sgSc.prog[t][th[t].k]
Asleep(t) == th[t].pc \in {"su_asleep", "tw_asleep"} /\ th[t].st = "Blocked"
Leader == Min(SgThreads)
Alive == {t \in SgThreads : th[t].pc # "dead"}

-----------------------------------------------------------------------------
(* The queues.                                                             *)

\* SigPending::add_signal(): a standard signal that is pending absorbs the
\* next one, a realtime signal queues every instance.
add_signal(q, s, id) == IF Realtime(s) \/ q[s] = <<>> THEN [q EXCEPT ![s] = Append(@, id)] ELSE q
pop_signal_info(q, s) == [q EXCEPT ![s] = Tail(@)]

find_signal_with_mask(q, mask) == {s \in SIGS : q[s] # <<>> /\ (s \notin mask \/ s \in Unblockable)}
find_signal_in_set(q, set) == {s \in set : q[s] # <<>>}
\* The least of the deliverable signals of the thread and of its process.
find_pending_signal(t) == find_signal_with_mask(th[t].pend, th[t].mask) \cup find_signal_with_mask(sg.pend, th[t].mask)
Ignored(s) == sg.act[s].h = "ign" \/ (sg.act[s].h = "dfl" /\ ActionDefault(s) = "ignore")
check_signal_interrupt(t) ==
    LET c == find_pending_signal(t) IN th[t].interruptible /\ c # {} /\ ~ Ignored(Min(c))

fetch_releases(s) == IF Realtime(s) THEN 1 ELSE 0
TakeFrom(q, s, scope) == [sg EXCEPT !.rt = @ - fetch_releases(s), !.done = Append(@, <<s, scope, Head(q[s])>>)]

-----------------------------------------------------------------------------
(* Sending: kill, tkill/tgkill and rt_sigqueueinfo, and the steps of       *)
(* try_receive_siginfo().                                                  *)

SOp(x) == sgSc.send[x][snd[x].k]
SAt(x, l) == snd[x].pc = l /\ sg.exited = 0
SNext(x) == [pc |-> "idle", k |-> snd[x].k + 1, id |-> 0, to |-> 0]
Sends(x, op) == SAt(x, "idle") /\ snd[x].k <= Len(sgSc.send[x]) /\ SOp(x).op = op

\* The quota of realtime signals; EAGAIN when it is used up.
reserve_rt_signal(x, limit) ==
    /\ LET s == SOp(x).sig IN
       IF Realtime(s) /\ sg.rt >= limit
       THEN SndSet(x, SNext(x)) /\ UNCHANGED sg
       ELSE /\ SndSet(x, [pc |-> "add", id |-> sg.ids + 1])
            /\ sg' = [sg EXCEPT !.rt = IF Realtime(s) THEN @ + 1 ELSE @, !.ids = @ + 1]
    /\ UNCHANGED <<sgSc, th>>
SendNothing(x) == SndSet(x, SNext(x)) /\ UNCHANGED <<sgSc, sg, th>>

NoLimit == 100
sys_kill(x) == Sends(x, "kill") /\ IF Alive = {} THEN SendNothing(x) ELSE reserve_rt_signal(x, NoLimit)
\* ESRCH for a thread that is gone.
sys_tkill(x) == Sends(x, "tkill") /\ IF SOp(x).to \notin Alive THEN SendNothing(x) ELSE reserve_rt_signal(x, sgSc.limit)
sys_rt_sigqueueinfo(x) == Sends(x, "queue") /\ IF Alive = {} THEN SendNothing(x) ELSE reserve_rt_signal(x, sgSc.limit)

receive_add(x) ==
    /\ SAt(x, "add")
    /\ LET s == SOp(x).sig
           id == snd[x].id
       IN  IF SOp(x).op = "tkill"
           THEN /\ ThSet(SOp(x).to, [pend |-> add_signal(th[SOp(x).to].pend, s, id)])
                /\ SndSet(x, [pc |-> "look", to |-> SOp(x).to])
                /\ UNCHANGED sg
           ELSE /\ sg' = [sg EXCEPT !.pend = add_signal(@, s, id)]
                /\ SndSet(x, [pc |-> "target"])
                /\ UNCHANGED th
    /\ UNCHANGED sgSc

\* A process signal wakes one thread: a sigtimedwait() for it, or the first
\* that does not block it, or the leader.
Takers(s) == {t \in Alive : s \notin th[t].mask \/ s \in Unblockable}
WaitersFor(s) == {t \in Alive : s \in th[t].twait}
receive_target(x) ==
    /\ SAt(x, "target")
    /\ LET s == SOp(x).sig
           to == IF WaitersFor(s) # {} THEN Min(WaitersFor(s))
                 ELSE IF Takers(s) # {} THEN Min(Takers(s))
                 ELSE IF Leader \in Alive \/ Alive = {} THEN Leader ELSE Min(Alive)
       IN  SndSet(x, [pc |-> "look", to |-> to])
    /\ UNCHANGED <<sgSc, sg, th>>

\* wakeup_task()
Wake(t) == IF th[t].st = "Blocked" THEN [st |-> "Ready"] ELSE <<>>
receive_look(x) ==
    /\ SAt(x, "look")
    /\ LET s == SOp(x).sig
           t == snd[x].to
       IN  \/ /\ s \in th[t].twait /\ th[t].st = "Blocked"
              /\ ThSet(t, Wake(t)) /\ SndSet(x, [pc |-> "cont"])
           \/ /\ ~ (s \in th[t].twait /\ th[t].st = "Blocked") /\ check_signal_interrupt(t)
              /\ SndSet(x, [pc |-> "mark"]) /\ UNCHANGED th
           \/ /\ ~ (s \in th[t].twait /\ th[t].st = "Blocked") /\ ~ check_signal_interrupt(t)
              /\ IF s \in Unblockable /\ th[t].st = "Blocked"
                 THEN ThSet(t, [interrupted |-> TRUE] @@ Wake(t))
                 ELSE UNCHANGED th
              /\ SndSet(x, [pc |-> "cont"])
    /\ UNCHANGED <<sgSc, sg>>

mark_signal_interrupted(x) ==
    /\ SAt(x, "mark")
    /\ ThSet(snd[x].to, [interrupted |-> TRUE])
    /\ SndSet(x, [pc |-> "recheck"])
    /\ UNCHANGED <<sgSc, sg>>

receive_recheck(x) ==
    /\ SAt(x, "recheck")
    /\ IF check_signal_interrupt(snd[x].to)
       THEN SndSet(x, [pc |-> "wake"]) /\ UNCHANGED th
       ELSE SndSet(x, [pc |-> "cont"]) /\ ThSet(snd[x].to, [interrupted |-> FALSE])
    /\ UNCHANGED <<sgSc, sg>>

receive_wake(x) ==
    /\ SAt(x, "wake")
    /\ ThSet(snd[x].to, Wake(snd[x].to))
    /\ SndSet(x, [pc |-> "cont"])
    /\ UNCHANGED <<sgSc, sg>>

\* The end of sys_kill(): SIGCONT resumes the leader if it is stopped, or
\* the first thread of a process whose leader is gone.
kill_cont(x) ==
    /\ SAt(x, "cont")
    /\ LET t == IF Leader \in Alive \/ Alive = {} THEN Leader ELSE Min(Alive) IN
       IF SOp(x).op = "kill" /\ SOp(x).sig = SIGCONT /\ th[t].st = "Stopped"
       THEN ThSet(t, [st |-> "Ready"]) /\ sg' = [sg EXCEPT !.events = Append(@, "continued")]
       ELSE UNCHANGED <<th, sg>>
    /\ SndSet(x, SNext(x))
    /\ UNCHANGED sgSc

-----------------------------------------------------------------------------
(* The calls of a thread.  Every one ends in "ret", where the trap handler *)
(* looks for a signal before it goes back to the user.                     *)

Calls(t, ops) == At(t, "user") /\ th[t].st = "Running" /\ th[t].cur = 0 /\ th[t].k <= Len(sgSc.prog[t]) /\ Op(t).op \in ops
Ret(t, r) == [pc |-> "ret", ret |-> r]

sys_sigprocmask(t) ==
    /\ Calls(t, {"block", "unblock", "setmask"})
    /\ LET set == Op(t).set \ Unblockable
           new == CASE Op(t).op = "block" -> th[t].mask \cup set
                    [] Op(t).op = "unblock" -> th[t].mask \ set
                    [] OTHER -> set
       IN  ThSet(t, Ret(t, "ok") @@ [mask |-> new, want |-> new])
    /\ UNCHANGED <<sgSc, sg, snd>>

sys_sigaction(t) ==
    /\ Calls(t, {"action"}) /\ Op(t).sig \notin Unblockable
    /\ sg' = [sg EXCEPT !.act[Op(t).sig] = [Op(t).act EXCEPT !.mask = @ \ Unblockable]]
    /\ ThSet(t, Ret(t, "ok"))
    /\ UNCHANGED <<sgSc, snd>>

sys_sigaltstack(t) ==
    /\ Calls(t, {"altstack"})
    /\ ThSet(t, Ret(t, "ok") @@ [altstack |-> TRUE])
    /\ UNCHANGED <<sgSc, sg, snd>>

\* cleanup_exiting_thread(): what is queued for the thread goes with it.
discarded_rt(t) == FoldSet(LAMBDA s, n : n + Len(th[t].pend[s]), 0, {s \in SIGS : Realtime(s)})
sg_thread_exit(t) ==
    /\ Calls(t, {"exit"})
    /\ sg' = [sg EXCEPT !.rt = @ - discarded_rt(t)]
    /\ ThSet(t, [pc |-> "dead", st |-> "Exited", pend |-> [s \in SIGS |-> <<>>]])
    /\ UNCHANGED <<sgSc, snd>>

\* rt_sigsuspend(), and a restartable call that sleeps the same way ("read").
su_enter(t) ==
    /\ Calls(t, {"suspend", "read"})
    /\ IF Op(t).op = "suspend"
       THEN ThSet(t, [pc |-> "su_look", saved |-> <<th[t].mask>>, mask |-> Op(t).set \ Unblockable])
       ELSE ThSet(t, [pc |-> "su_look"])
    /\ UNCHANGED <<sgSc, sg, snd>>

Hint(t) == check_signal_interrupt(t) \/ th[t].interrupted
su_look(t) ==
    /\ At(t, "su_look")
    /\ IF th[t].interruptible THEN (IF Hint(t) THEN ThSet(t, [pc |-> "su_out", interrupted |-> FALSE])
                                              ELSE ThSet(t, [pc |-> "su_publish"]))
       ELSE ThSet(t, [interruptible |-> TRUE])
    /\ UNCHANGED <<sgSc, sg, snd>>

\* prepare_current_task_blocked()
sg_publish(t) ==
    /\ th[t].pc \in {"su_publish", "tw_publish"} /\ sg.exited = 0
    /\ ThSet(t, [pc |-> IF At(t, "su_publish") THEN "su_recheck" ELSE "tw_recheck", st |-> "Blocked"])
    /\ UNCHANGED <<sgSc, sg, snd>>

su_second_look(t) == th[t].st = "Ready" \/ Hint(t)
su_recheck(t) ==
    /\ At(t, "su_recheck")
    /\ ThSet(t, IF su_second_look(t) THEN [pc |-> "su_woken", st |-> "Running"] ELSE [pc |-> "su_asleep"])
    /\ UNCHANGED <<sgSc, sg, snd>>

su_resume(t) ==
    /\ At(t, "su_asleep") /\ th[t].st = "Ready"
    /\ ThSet(t, [pc |-> "su_woken", st |-> "Running"])
    /\ UNCHANGED <<sgSc, sg, snd>>

su_woken(t) ==
    /\ At(t, "su_woken")
    /\ ThSet(t, IF Hint(t) THEN [pc |-> "su_out", interrupted |-> FALSE] ELSE [pc |-> "su_look"])
    /\ UNCHANGED <<sgSc, sg, snd>>

su_out(t) ==
    /\ At(t, "su_out")
    /\ ThSet(t, Ret(t, IF Op(t).op = "read" THEN "EINTR_restart" ELSE "EINTR") @@ [interruptible |-> FALSE])
    /\ UNCHANGED <<sgSc, sg, snd>>

\* rt_sigtimedwait(): `timeout` is "none", "zero" or "timed"; `fault` says
\* that the siginfo cannot be copied out.
Wanted(t) == Op(t).set \ Unblockable
TwOut == [twait |-> {}, interruptible |-> FALSE]
tw_enter(t) ==
    /\ Calls(t, {"twait"})
    /\ ThSet(t, [pc |-> "tw_first", late |-> FALSE])
    /\ UNCHANGED <<sgSc, sg, snd>>

\* peek_pending_in_set() and the copy: the candidate and its queue.
peek_pending_in_set(t) ==
    LET own == find_signal_in_set(th[t].pend, Wanted(t))
        all == find_signal_in_set(sg.pend, Wanted(t))
        process == own = {} \/ (all # {} /\ Min(all) < Min(own))
        s == Min(IF process THEN all ELSE own)
    IN  IF own \cup all = {} THEN <<>>
        ELSE <<s, process, Head(IF process THEN sg.pend[s] ELSE th[t].pend[s])>>
tw_peek(t) ==
    /\ th[t].pc \in {"tw_first", "tw_loop"} /\ sg.exited = 0
    /\ LET c == peek_pending_in_set(t) IN
       ThSet(t, IF c = <<>> THEN [pc |-> IF th[t].pc = "tw_first" THEN "tw_arm" ELSE "tw_check"]
                ELSE IF Op(t).fault THEN Ret(t, "EFAULT") @@ TwOut
                ELSE [pc |-> IF th[t].pc = "tw_first" THEN "tw_take1" ELSE "tw_take", seen |-> c])
    /\ UNCHANGED <<sgSc, sg, snd>>

\* consume_pending_signal(): only the siginfo that was copied out.
consume_expected(q, c) == q[c[1]] # <<>> /\ Head(q[c[1]]) = c[3]
tw_take(t) ==
    /\ th[t].pc \in {"tw_take1", "tw_take"} /\ sg.exited = 0
    /\ LET c == th[t].seen
           q == IF c[2] THEN sg.pend ELSE th[t].pend
           out == Ret(t, "signal") @@ TwOut @@ [seen |-> <<>>, interrupted |-> FALSE]
       IN  IF consume_expected(q, c)
           THEN /\ sg' = [sg EXCEPT !.rt = @ - fetch_releases(c[1]), !.done = Append(@, c),
                                    !.pend = IF c[2] THEN pop_signal_info(@, c[1]) ELSE @]
                /\ ThSet(t, out @@ [pend |-> IF c[2] THEN th[t].pend ELSE pop_signal_info(th[t].pend, c[1])])
           ELSE /\ ThSet(t, [seen |-> <<>>, pc |-> IF th[t].pc = "tw_take1" THEN "tw_arm" ELSE "tw_check"])
                /\ UNCHANGED sg
    /\ UNCHANGED <<sgSc, snd>>

tw_arm(t) ==
    /\ At(t, "tw_arm")
    /\ ThSet(t, IF Op(t).timeout = "zero" THEN Ret(t, "EAGAIN") @@ TwOut
                ELSE [pc |-> "tw_loop", interruptible |-> TRUE, twait |-> Wanted(t)])
    /\ UNCHANGED <<sgSc, sg, snd>>

tw_check(t) ==
    /\ At(t, "tw_check")
    /\ ThSet(t, IF Hint(t) THEN Ret(t, "EINTR") @@ TwOut @@ [interrupted |-> FALSE]
                ELSE IF th[t].late THEN Ret(t, "EAGAIN") @@ TwOut
                ELSE [pc |-> "tw_publish"])
    /\ UNCHANGED <<sgSc, sg, snd>>

\* mutant: a wanted signal that came before Blocked was visible is missed.
tw_no_second_look(t) == Hint(t) \/ th[t].late
tw_second_look(t) ==
    find_signal_in_set(th[t].pend, Wanted(t)) \cup find_signal_in_set(sg.pend, Wanted(t)) # {} \/ Hint(t) \/ th[t].late
tw_recheck(t) ==
    /\ At(t, "tw_recheck")
    /\ ThSet(t, IF th[t].st = "Ready" \/ tw_second_look(t) THEN [pc |-> "tw_loop", st |-> "Running"] ELSE [pc |-> "tw_asleep"])
    /\ UNCHANGED <<sgSc, sg, snd>>

tw_resume(t) ==
    /\ At(t, "tw_asleep") /\ th[t].st = "Ready"
    /\ ThSet(t, [pc |-> "tw_loop", st |-> "Running"])
    /\ UNCHANGED <<sgSc, sg, snd>>

\* The deadline passes; the timer wakes a sleeper.
tw_deadline(t) ==
    /\ th[t].pc \in {"tw_loop", "tw_check", "tw_publish", "tw_recheck", "tw_asleep"} /\ sg.exited = 0
    /\ Op(t).timeout = "timed" /\ ~ th[t].late
    /\ ThSet(t, [late |-> TRUE] @@ (IF At(t, "tw_asleep") THEN Wake(t) ELSE <<>>))
    /\ UNCHANGED <<sgSc, sg, snd>>

-----------------------------------------------------------------------------
(* handle_signal(): at most one signal on each way back to the user.       *)

\* The process queue only if its signal has the smaller number.
FetchScope(t) ==
    LET own == find_signal_with_mask(th[t].pend, th[t].mask)
        all == find_signal_with_mask(sg.pend, th[t].mask)
    IN  own = {} \/ (all # {} /\ Min(all) < Min(own))

frame_mask(t) == IF th[t].saved # <<>> THEN th[t].saved[1] ELSE th[t].mask

\* SA_ONSTACK starts at the top of the alternate stack, else below sp.
frame_at(t, a) == IF a.onstack /\ th[t].altstack THEN [alt |-> TRUE, d |-> 1] ELSE [th[t].sp EXCEPT !.d = @ + 1]

\* The user code a frame brings back: the call is repeated if it was
\* interrupted and the handler has SA_RESTART.
Resume(t, a) == IF th[t].pc = "ret" /\ ~ (a.restart /\ th[t].ret = "EINTR_restart") THEN th[t].k + 1 ELSE th[t].k

deliver(t, s, id) ==
    LET a == sg.act[s]
        p == frame_at(t, a)
        frame == [mask |-> frame_mask(t), sp |-> th[t].sp, cur |-> th[t].cur, k |-> Resume(t, a)]
    IN  [pc |-> "user", saved |-> <<>>, sp |-> p, mem |-> (p :> frame) @@ th[t].mem, cur |-> id,
         mask |-> (IF a.nodefer THEN th[t].mask ELSE th[t].mask \cup {s}) \cup a.mask,
         k |-> Resume(t, a), acts |-> Append(th[t].acts, id)]

\* A trap may be a system call's return or any other (timer, fault).
handle_signal(t) ==
    /\ (At(t, "ret") \/ At(t, "user")) /\ th[t].st = "Running"
    /\ LET c == find_pending_signal(t)
           s == Min(c)
           process == FetchScope(t)
           q == IF process THEN sg.pend ELSE th[t].pend
           id == Head(q[s])
           own == [pend |-> IF process THEN th[t].pend ELSE pop_signal_info(th[t].pend, s)]
           took == [TakeFrom(q, s, process) EXCEPT !.pend = IF process THEN pop_signal_info(@, s) ELSE @]
           a == sg.act[s]
           after == own @@ [pc |-> "user", saved |-> <<>>, k |-> IF th[t].pc = "ret" THEN th[t].k + 1 ELSE th[t].k]
       IN  \/ /\ c = {} /\ th[t].pc = "ret"
              /\ ThSet(t, [pc |-> "user", k |-> th[t].k + 1])
              /\ UNCHANGED sg
           \/ /\ c # {} /\ a.h = "user" /\ ~ sgSc.badstack
              /\ ThSet(t, own @@ deliver(t, s, id))
              /\ sg' = [took EXCEPT !.act[s] = IF a.reset THEN SIG_DFL ELSE @]
           \/ /\ c # {} /\ (a.h = "ign" \/ (a.h = "dfl" /\ ActionDefault(s) = "ignore"))
              /\ ThSet(t, after) /\ sg' = took
           \/ /\ c # {} /\ ((a.h = "dfl" /\ ActionDefault(s) = "term") \/ (a.h = "user" /\ sgSc.badstack))
              /\ ThSet(t, after) /\ sg' = [took EXCEPT !.exited = s]
           \/ /\ c # {} /\ a.h = "dfl" /\ ActionDefault(s) = "stop"
              /\ ThSet(t, after @@ [st |-> "Stopped"]) /\ sg' = [took EXCEPT !.events = Append(@, "stopped")]
           \/ /\ c # {} /\ a.h = "dfl" /\ ActionDefault(s) = "cont"
              /\ ThSet(t, after) /\ sg' = [took EXCEPT !.events = Append(@, "continued")]
    /\ UNCHANGED <<sgSc, snd>>

\* A stopped thread that was made ready runs on.
sg_resumed(t) ==
    /\ At(t, "user") /\ th[t].st = "Ready"
    /\ ThSet(t, [st |-> "Running"])
    /\ UNCHANGED <<sgSc, sg, snd>>

\* The handler ends: sigreturn brings back what the frame at sp says, and
\* another look for signals follows.
sys_sigreturn(t) ==
    /\ At(t, "user") /\ th[t].st = "Running" /\ th[t].cur # 0
    /\ LET f == th[t].mem[th[t].sp] IN
       ThSet(t, [pc |-> "ret", ret |-> "ok", mask |-> f.mask, sp |-> f.sp, cur |-> f.cur, k |-> f.k - 1,
                 acts |-> IF th[t].acts = <<>> THEN <<>> ELSE Front(th[t].acts)])
    /\ UNCHANGED <<sgSc, sg, snd>>

SgNext ==
    \/ \E x \in SgSenders : \/ sys_kill(x) \/ sys_tkill(x) \/ sys_rt_sigqueueinfo(x) \/ receive_add(x) \/ receive_target(x) \/ receive_look(x)
                            \/ mark_signal_interrupted(x) \/ receive_recheck(x) \/ receive_wake(x) \/ kill_cont(x)
    \/ \E t \in SgThreads : \/ sys_sigprocmask(t) \/ sys_sigaction(t) \/ sys_sigaltstack(t) \/ sg_thread_exit(t)
                            \/ su_enter(t) \/ su_look(t) \/ sg_publish(t) \/ su_recheck(t) \/ su_resume(t) \/ su_woken(t) \/ su_out(t)
                            \/ tw_enter(t) \/ tw_peek(t) \/ tw_take(t) \/ tw_arm(t) \/ tw_check(t) \/ tw_recheck(t)
                            \/ tw_resume(t) \/ tw_deadline(t)
                            \/ handle_signal(t) \/ sg_resumed(t) \/ sys_sigreturn(t)
SgSpec == SgInit /\ [][SgNext]_sgVars
-----------------------------------------------------------------------------
(* Properties.                                                             *)

\* Type correctness: the fields have their types, and a standard signal is
\* pending at most once in a queue.
SgTypeOK ==
    /\ \A q \in {sg.pend} \cup {th[t].pend : t \in SgThreads} :
          q \in [SIGS -> Seq(1 .. sg.ids)] /\ \A s \in SIGS : Realtime(s) \/ Len(q[s]) <= 1
    /\ \A t \in SgThreads : th[t].mask \subseteq SIGS /\ th[t].st \in {"Running", "Ready", "Blocked", "Stopped", "Exited"}
    /\ sg.rt \in Nat /\ sg.exited \in SIGS \cup {0}

InFlight(s) == {x \in SgSenders : snd[x].pc = "add" /\ Realtime(SOp(x).sig)}
QueuedRt(q) == FoldSet(LAMBDA s, n : n + Len(q[s]), 0, {s \in SIGS : Realtime(s)})
\* The quota of realtime signals of a process (queued_rt_signals) is what is
\* really queued for it and its threads or is being queued: it neither leaks
\* when a signal is delivered, waited for or thrown away with its thread, nor
\* is given back twice.
SgQuotaExact ==
    sg.rt = QueuedRt(sg.pend) + FoldSet(LAMBDA t, n : n + QueuedRt(th[t].pend), 0, SgThreads) + Cardinality(InFlight(0))

\* A siginfo reaches one taker: handle_signal() and the waits of several
\* threads never hand out one siginfo twice, nor one that is still queued, and
\* instances of a realtime signal leave the process queue in their order.
SgTakenOnce ==
    /\ \A i, j \in DOMAIN sg.done : i # j => sg.done[i][3] # sg.done[j][3]
    /\ \A i \in DOMAIN sg.done : LET s == sg.done[i][1] IN
          sg.done[i][3] \notin UNION {Range(q[s]) : q \in {sg.pend} \cup {th[t].pend : t \in SgThreads}}
    /\ \A i, j \in DOMAIN sg.done :
          (i < j /\ sg.done[i][1] = sg.done[j][1] /\ sg.done[i][2] /\ sg.done[j][2]) => sg.done[i][3] < sg.done[j][3]

\* No sender is between queueing for thread t and waking it.
Delivering(t) == \E x \in SgSenders : snd[x].pc = "target" \/ (snd[x].to = t /\ snd[x].pc \in {"look", "mark", "recheck", "wake"})

\* A thread does not sleep through a signal ("避免 signal 已入队但任务永久睡眠",
\* syscall/signal.rs:9-10): once the senders are past waking it, no sleeper has a
\* signal pending that is neither blocked nor ignored, be it its own or one of the
\* process that no thread awake, or being woken, can take (the second look of the calls and the
\* two checks of try_receive_siginfo() leave no gap).  check_signal_interrupt()
\* looks at the least signal only, and an ignored one hides the others (Hidden);
\* a process signal wakes one thread, which may block it then (Left).
Takes(t, q) == {s \in find_signal_with_mask(q, th[t].mask) : ~ Ignored(s)}
SgNextSignalWakes ==
    sg.exited = 0 => \A t \in SgThreads : (Asleep(t) /\ ~ Delivering(t)) =>
        /\ Takes(t, th[t].pend) = {}
        /\ \A s \in Takes(t, sg.pend) : \E u \in Takers(s) : Delivering(u) \/ (~ Asleep(u) /\ th[u].st # "Stopped")

\* A signal somebody waits for in sigtimedwait() does not stay pending while
\* the waiter sleeps, unless another waiter for it is awake.
SgWaiterServed ==
    sg.exited = 0 => \A t \in SgThreads : (Asleep(t) /\ ~ \E x \in SgSenders : snd[x].pc \notin {"idle", "cont"}) =>
        \A s \in th[t].twait : th[t].pend[s] = <<>>
            /\ (sg.pend[s] = <<>> \/ \E r \in WaitersFor(s) : ~ Asleep(r))

\* Handlers nest: whatever interrupts a thread, sigreturn brings it back to
\* the activation that was interrupted, never to another one.
SgHandlersNest ==
    \A t \in SgThreads : th[t].cur = IF th[t].acts = <<>> THEN 0 ELSE Last(th[t].acts)

\* Outside handlers and calls a thread has the mask its program set:
\* sigsuspend() and handlers change it for a time only.
SgMaskRestored ==
    \A t \in SgThreads : (At(t, "user") /\ th[t].acts = <<>>) => th[t].mask = th[t].want

=============================================================================
