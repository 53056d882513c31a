------------------------------ MODULE Terminal ------------------------------
(***************************************************************************)
(* The line discipline of the console (fs/tty.rs): the pump that takes     *)
(* bytes from the firmware, the line being edited, the records of finished *)
(* lines, read() in canonical and in raw mode, and TCSETS.                 *)
(*                                                                         *)
(* A byte is known by what it does: "x" and "y" are ordinary, the others   *)
(* are the control characters of the terminal.  The firmware hands out a   *)
(* byte once; the pump lock is held from the first byte to the last, the   *)
(* input lock only for one byte, one look or one drain.  Echo and the      *)
(* other output is left out.  The readers are in the foreground.           *)
(***************************************************************************)
EXTENDS Integers, FiniteSets, Sequences, SequencesExt, TLC

CONSTANTS
    CnTasks,      \* readers; the timer service, which pumps too, is 0
    CnScenarios   \* records: keys typed, program of each task, the horizon of
                  \* the clock, and the termios at the start

CnNone == "none"
CnNobody == -1
CnKeys == {"x", "y", "nl", "cr", "erase", "kill", "eof", "intr"}
CnActors == CnTasks \cup {0}

VARIABLES
    cnSc,      \* the scenario
    cnFirm,    \* [typed, queue]: keys already typed and those not yet taken
    cnTermios, \* CONSOLE_TERMINAL.termios
    cnIn,      \* CONSOLE_INPUT: edit, ready, records
    cnLock,    \* holder of CONSOLE_PUMP, or CnNobody
    cnTask,    \* pc and locals of each actor
    cnNow,     \* clock of the timeouts
    cnLog      \* what was taken from the firmware, what reads returned, and
               \* the ends of file typed on an empty line and not yet read

cnVars == <<cnSc, cnFirm, cnTermios, cnIn, cnLock, cnTask, cnNow, cnLog>>

NoInput == [edit |-> <<>>, ready |-> <<>>, records |-> <<>>]
CnStart == [pc |-> "idle", i |-> 0, back |-> "idle", termios |-> CnNone, byte |-> CnNone,
            canonical |-> FALSE, n |-> 0, minimum |-> 0, vtime |-> 0, deadline |-> 0, last |-> 0,
            ret |-> <<>>, eof |-> FALSE, late |-> FALSE, sig |-> FALSE, missed |-> FALSE,
            interruptible |-> FALSE]

CnInit ==
    /\ cnSc \in CnScenarios
    /\ cnFirm = [typed |-> 0, queue |-> <<>>]
    /\ cnTermios = cnSc.termios
    /\ cnIn = NoInput
    /\ cnLock = CnNobody
    /\ cnTask = [t \in CnActors |-> CnStart]
    /\ cnNow = 0
    /\ cnLog = [seen |-> <<>>, got |-> <<>>, eofs |-> 0]

CnAt(t, l) == cnTask[t].pc = l
CnSet(t, r) == cnTask' = [cnTask EXCEPT ![t] = r @@ @]
CnOp(t) == cnSc.prog[t][cnTask[t].i + 1]
CnHas(t, op) == t # 0 /\ CnAt(t, "idle") /\ cnTask[t].i < Len(cnSc.prog[t]) /\ CnOp(t).op = op
CnDone(t, r) == CnSet(t, [pc |-> "done"] @@ r)

-----------------------------------------------------------------------------
(* The pump.                                                               *)

\* A key is typed; the firmware keeps it until somebody asks.
key_typed ==
    /\ cnFirm.typed < Len(cnSc.keys)
    /\ cnFirm' = [typed |-> cnFirm.typed + 1,
                  queue |-> Append(cnFirm.queue, cnSc.keys[cnFirm.typed + 1])]
    /\ UNCHANGED <<cnSc, cnTermios, cnIn, cnLock, cnTask, cnNow, cnLog>>

\* pump_console_input(): the lock, and the settings used for all its bytes.
pump_free == cnLock = CnNobody
pump_begin(t) ==
    /\ CnAt(t, "pump") /\ pump_free
    /\ cnLock' = t
    /\ CnSet(t, [pc |-> "pumping", termios |-> cnTermios])
    /\ UNCHANGED <<cnSc, cnFirm, cnTermios, cnIn, cnNow, cnLog>>

\* console_getchar() takes a byte, or finds none and the pump ends.
pump_getchar(t) ==
    /\ CnAt(t, "pumping")
    /\ IF cnFirm.queue = <<>>
       THEN /\ CnSet(t, [pc |-> cnTask[t].back, termios |-> CnNone])
            /\ cnLock' = IF cnLock = t THEN CnNobody ELSE cnLock
            /\ UNCHANGED <<cnFirm, cnLog>>
       ELSE /\ CnSet(t, [pc |-> "byte", byte |-> Head(cnFirm.queue)])
            /\ cnFirm' = [cnFirm EXCEPT !.queue = Tail(@)]
            /\ cnLog' = [cnLog EXCEPT !.seen = Append(@, Head(cnFirm.queue))]
            /\ UNCHANGED cnLock
    /\ UNCHANGED <<cnSc, cnTermios, cnIn, cnNow>>

\* IGNCR and ICRNL.
converted(b, tm) == IF b # "cr" THEN b
                    ELSE IF tm.igncr THEN CnNone ELSE IF tm.icrnl THEN "nl" ELSE b
terminal_signal(b, tm) == tm.isig /\ b = "intr"

commit_record(inp) == [edit |-> <<>>, ready |-> inp.ready \o inp.edit,
                       records |-> Append(inp.records, Len(inp.edit))]
is_delimiter(b) == b = "nl"
\* What the line discipline makes of a byte.
line_input(inp, b, tm) ==
    CASE ~tm.icanon -> [inp EXCEPT !.ready = Append(@, b)]
      [] tm.icanon /\ b = "erase" -> [inp EXCEPT !.edit = IF @ = <<>> THEN @ ELSE Front(@)]
      [] tm.icanon /\ b = "kill" -> [inp EXCEPT !.edit = <<>>]
      [] tm.icanon /\ b = "eof" -> commit_record(inp)
      [] OTHER -> LET more == [inp EXCEPT !.edit = Append(@, b)]
                  IN  IF is_delimiter(b) THEN commit_record(more) ELSE more

flush(inp) == NoInput
\* The byte is dropped, makes a signal of the foreground group, or is input.
pump_byte(t) ==
    /\ CnAt(t, "byte")
    /\ LET tm == cnTask[t].termios
           b == converted(cnTask[t].byte, tm)
           T == [cnTask EXCEPT ![t].pc = "pumping", ![t].byte = CnNone]
       IN  IF b = CnNone THEN cnTask' = T /\ UNCHANGED <<cnIn, cnLog>>
           ELSE IF terminal_signal(b, tm)
           THEN /\ cnIn' = IF tm.noflsh THEN cnIn ELSE flush(cnIn)
                /\ cnLog' = IF tm.noflsh THEN cnLog ELSE [cnLog EXCEPT !.seen = <<>>, !.got = <<>>]
                /\ cnTask' = [u \in CnActors |-> [T[u] EXCEPT !.sig = @ \/ u # 0]]
           ELSE /\ cnIn' = line_input(cnIn, b, tm)
                /\ cnTask' = T
                /\ cnLog' = [cnLog EXCEPT !.eofs = IF tm.icanon /\ b = "eof" /\ cnIn.edit = <<>>
                                                  THEN @ + 1 ELSE @]
    /\ UNCHANGED <<cnSc, cnFirm, cnTermios, cnLock, cnNow>>

\* poll_console_input(), from the timer service.
poll_console_input ==
    /\ CnAt(0, "idle") /\ cnFirm.queue # <<>> /\ cnSc.service
    /\ CnSet(0, [pc |-> "pump", back |-> "idle"])
    /\ UNCHANGED <<cnSc, cnFirm, cnTermios, cnIn, cnLock, cnNow, cnLog>>

-----------------------------------------------------------------------------
(* read_console() and TCSETS.                                              *)

\* The mode is the one at the call; VMIN is cut to the buffer.
read_console(t) ==
    /\ CnHas(t, "read")
    /\ LET n == CnOp(t).n
           min == Min({cnTermios.vmin, n})
       IN  CnSet(t, [pc |-> "pump", back |-> "check", canonical |-> cnTermios.icanon, n |-> n,
                     minimum |-> min, vtime |-> cnTermios.vtime, last |-> 0, ret |-> <<>>, eof |-> FALSE, late |-> FALSE,
                     deadline |-> IF min = 0 /\ cnTermios.vtime > 0 THEN cnNow + cnTermios.vtime ELSE 0])
    /\ UNCHANGED <<cnSc, cnFirm, cnTermios, cnIn, cnLock, cnNow, cnLog>>

\* check_signal_interrupt(): no console read is marked interruptible.
read_check(t) ==
    /\ CnAt(t, "check")
    /\ IF cnTask[t].interruptible /\ cnTask[t].sig THEN CnDone(t, [ret |-> <<"EINTR">>])
       ELSE CnSet(t, [pc |-> "look"])
    /\ UNCHANGED <<cnSc, cnFirm, cnTermios, cnIn, cnLock, cnNow, cnLog>>

enough(t, available) == IF cnTask[t].minimum = 0 THEN available > 0 \/ cnTask[t].vtime = 0
                        ELSE available >= cnTask[t].minimum
\* One look at the queue: take what there is, give up, or yield and pump.
\* Fresh input of a raw read restarts its VTIME.
read_look(t) ==
    /\ CnAt(t, "look")
    /\ LET available == Len(cnIn.ready)
           fresh == cnTask[t].minimum > 0 /\ cnTask[t].vtime > 0 /\ available \notin {0, cnTask[t].last}
           deadline == IF fresh THEN cnNow + cnTask[t].vtime ELSE cnTask[t].deadline
           due == deadline > 0 /\ cnNow >= deadline
           again == [pc |-> "pump", missed |-> cnTask[t].sig]
       IN  IF cnTask[t].canonical
           THEN CnSet(t, IF cnIn.records # <<>> THEN [pc |-> "drain"] ELSE again)
           ELSE IF enough(t, available) THEN CnSet(t, [pc |-> "drain"])
           ELSE CnSet(t, (IF due THEN [pc |-> "drain"] ELSE again)
                         @@ [late |-> due, deadline |-> deadline, last |-> available])
    /\ UNCHANGED <<cnSc, cnFirm, cnTermios, cnIn, cnLock, cnNow, cnLog>>

\* What is left of the record a read took k bytes of.
record_rest(rs, k) == (IF rs[1] = k THEN <<>> ELSE <<rs[1] - k>>) \o Tail(rs)
\* drain_ready(): of one record in canonical mode, of all bytes in raw mode.  A
\* record that promises more bytes than are ready is a panic of the kernel.
drain_ready(t) ==
    /\ CnAt(t, "drain")
    /\ LET rs == cnIn.records
           k == IF ~cnTask[t].canonical THEN Min({Len(cnIn.ready), cnTask[t].n})
                ELSE IF rs = <<>> THEN 0 ELSE Min({rs[1], cnTask[t].n})
           some == cnTask[t].canonical /\ rs # <<>>
           end == some /\ rs[1] = 0
       IN  IF k > Len(cnIn.ready)
           THEN CnSet(t, [pc |-> "panic"]) /\ UNCHANGED <<cnIn, cnLog>>
           ELSE /\ cnIn' = [cnIn EXCEPT !.ready = SubSeq(@, k + 1, Len(@)),
                                        !.records = IF some THEN record_rest(@, k) ELSE @]
                /\ cnLog' = [cnLog EXCEPT !.got = @ \o SubSeq(cnIn.ready, 1, k),
                                          !.eofs = IF end /\ @ > 0 THEN @ - 1 ELSE @]
                /\ CnDone(t, [ret |-> SubSeq(cnIn.ready, 1, k), eof |-> end /\ cnLog.eofs > 0])
    /\ UNCHANGED <<cnSc, cnFirm, cnTermios, cnLock, cnNow>>

read_return(t) ==
    /\ CnAt(t, "done")
    /\ CnSet(t, [CnStart EXCEPT !.i = cnTask[t].i + 1])
    /\ UNCHANGED <<cnSc, cnFirm, cnTermios, cnIn, cnLock, cnNow, cnLog>>

\* console_ioctl(TCSETS); TCSETSF then empties the queue, under its own lock.
console_set(t) ==
    /\ CnHas(t, "set")
    /\ cnTermios' = CnOp(t).to
    /\ cnLog' = [cnLog EXCEPT !.seen = <<>>, !.got = <<>>]
    /\ CnSet(t, IF CnOp(t).flush THEN [pc |-> "flush"] ELSE [i |-> cnTask[t].i + 1])
    /\ UNCHANGED <<cnSc, cnFirm, cnIn, cnLock, cnNow>>
console_flush(t) ==
    /\ CnAt(t, "flush")
    /\ cnIn' = flush(cnIn)
    /\ CnSet(t, [pc |-> "idle", i |-> cnTask[t].i + 1])
    /\ UNCHANGED <<cnSc, cnFirm, cnTermios, cnLock, cnNow, cnLog>>

cn_tick ==
    /\ cnNow < cnSc.horizon
    /\ cnNow' = cnNow + 1
    /\ UNCHANGED <<cnSc, cnFirm, cnTermios, cnIn, cnLock, cnTask, cnLog>>

CnNext == \/ key_typed
          \/ poll_console_input
          \/ cn_tick
          \/ \E t \in CnActors : pump_begin(t) \/ pump_getchar(t) \/ pump_byte(t)
          \/ \E t \in CnTasks : \/ read_console(t) \/ read_check(t) \/ read_look(t)
                                \/ drain_ready(t) \/ read_return(t) \/ console_set(t) \/ console_flush(t)
CnSpec == CnInit /\ [][CnNext]_cnVars

-----------------------------------------------------------------------------
(* Properties.                                                             *)

\* Types; the line being edited holds no delimiter: it ended with it.
CnTypeOK ==
    /\ cnIn.edit \in Seq(CnKeys) /\ cnIn.ready \in Seq(CnKeys) /\ cnIn.records \in Seq(Nat)
    /\ "nl" \notin ToSet(cnIn.edit)
    /\ cnLock \in CnActors \cup {CnNobody}
    /\ \A t \in CnActors : cnTask[t].byte \in CnKeys \cup {CnNone}

\* The keys that a reader of the canonical input s is to see, straight from
\* the meaning of the control characters: a key goes with a kill of its line,
\* and with the erase that balances the keys typed since.
Ordinary(b) == b \in {"x", "y"}
Ends(s, i, j) == \E k \in i .. j : s[k] \in {"nl", "cr", "eof"}
Count(s, i, j, P) == Cardinality({k \in i .. j : s[k] \in P})
Typed(s) ==
    LET gone(i) == \E j \in i + 1 .. Len(s) :
                      /\ ~Ends(s, i, j)
                      /\ \/ s[j] = "kill"
                         \/ /\ s[j] = "erase" /\ ~(\E k \in i .. j : s[k] = "kill")
                            /\ Count(s, i, j, {"erase"}) = Count(s, i, j, {"x", "y"})
        kept == {i \in DOMAIN s : s[i] \in {"nl", "cr"} \/ (Ordinary(s[i]) /\ ~gone(i))}
        at == SetToSortSeq(kept, LAMBDA a, b : a < b)
    IN  [k \in DOMAIN at |-> IF s[at[k]] = "cr" THEN "nl" ELSE s[at[k]]]
\* While the terminal is in canonical mode, what the reads returned, what is
\* ready and what is being edited is what was typed, edited, in its order,
\* however many pumps ran: CONSOLE_PUMP serialises the whole drain.
CnInOrder ==
    ((cnTermios.icanon /\ cnTermios.icrnl /\ ~cnTermios.igncr /\ ~cnTermios.noflsh
      /\ \A t \in CnTasks : \A i \in DOMAIN cnSc.prog[t] : cnSc.prog[t][i].op # "set")
     /\ \A t \in CnActors : cnTask[t].byte = CnNone) =>
       cnLog.got \o cnIn.ready \o cnIn.edit = Typed(cnLog.seen)

\* "canonical 模式只返回完整行、VEOF 记录或信号" (fs/tty.rs:345): a canonical
\* read() returns nothing only at the end of file that was typed.
CnZeroMeansEof ==
    \A t \in CnTasks : (CnAt(t, "done") /\ cnTask[t].canonical /\ cnTask[t].ret = <<>>) => cnTask[t].eof

\* A canonical read() returns bytes of one line, whatever the mode they came in.
CnOneLine ==
    \A t \in CnTasks : (CnAt(t, "done") /\ cnTask[t].canonical /\ cnTask[t].ret # <<>>) =>
        "nl" \notin ToSet(Front(cnTask[t].ret))

\* The records are of bytes that are ready, "每条规范模式记录尚未读取的字节数"
\* (fs/tty.rs:113), so that no read() pops from an empty queue and panics.
CnRecordsHold ==
    /\ FoldSeq(+, 0, cnIn.records) <= Len(cnIn.ready)
    /\ \A t \in CnTasks : ~ CnAt(t, "panic")

\* A signal ends a read() that has nothing to return (fs/tty.rs:345, 349-350).
CnSignalEndsRead == \A t \in CnTasks : ~ cnTask[t].missed

-----------------------------------------------------------------------------
(***************************************************************************)
(* Sessions, process groups and the controlling terminal: setpgid() and    *)
(* setsid() (syscall/process.rs), the terminal ioctls, the rules for       *)
(* background readers and the notification of orphaned groups (fs/tty.rs), *)
(* with the parts of fork and of process exit that touch them (task.rs).   *)
(*                                                                         *)
(* pgid, sid and the controlling-terminal flag are separate atomics, the   *)
(* terminal has a lock of its own, and PROCESS_MANAGER is walked without   *)
(* either: an operation is a sequence of steps.  A signal that stops is    *)
(* taken when its process is back in user mode.                            *)
(***************************************************************************)

CONSTANTS
    JcProcs,      \* process ids; 1 is init
    JcScenarios   \* records: table of processes, session and foreground group
                  \* of the terminal, and the program of each process

VARIABLES
    jcSc,     \* the scenario
    jcProc,   \* ProcessState of each process
    jcTty,    \* CONSOLE_TERMINAL: session_id, foreground_pgid
    jcOp,     \* pc and locals of the operation of each process
    jcOwed    \* groups orphaned with a stopped member, not yet told

jcVars == <<jcSc, jcProc, jcTty, jcOp, jcOwed>>

JcIdle == [pc |-> "idle", i |-> 0, target |-> 0, pgid |-> 0, was |-> {}, sid |-> 0, fg |-> 0,
           copy |-> <<>>, orphanStop |-> FALSE]

JcInit ==
    /\ jcSc \in JcScenarios
    /\ jcProc = jcSc.table
    /\ jcTty = jcSc.tty
    /\ jcOp = [p \in JcProcs |-> JcIdle]
    /\ jcOwed = {}

-----------------------------------------------------------------------------
live(P, p) == P[p].life = "Running"
Members(P, s, g) == {p \in JcProcs : P[p].sid = s /\ P[p].pgid = g /\ live(P, p)}
process_group_is_orphaned(P, s, g) ==
    \A p \in Members(P, s, g) :
       LET q == P[p].parent
       IN  ~(q # 0 /\ live(P, q) /\ P[q].sid = s /\ P[q].pgid # g)
HasStopped(P, s, g) == \E p \in Members(P, s, g) : P[p].stopped
JcGroups(P) == {<<P[p].sid, P[p].pgid>> : p \in {q \in JcProcs : live(P, q)}}

\* The table becomes P, and the groups of told have had SIGHUP and SIGCONT.
Relate(P, told) ==
    /\ jcProc' = P
    /\ jcOwed' = {g \in (jcOwed \cup {h \in JcGroups(P) :
                            /\ ~process_group_is_orphaned(jcProc, h[1], h[2])
                            /\ process_group_is_orphaned(P, h[1], h[2])}) \ told :
                    HasStopped(P, g[1], g[2])}

JcAt(p, l) == jcOp[p].pc = l
JcSet(p, r) == jcOp' = [jcOp EXCEPT ![p] = r @@ @]
JcDone(p) == JcSet(p, [pc |-> "idle", i |-> jcOp[p].i + 1, was |-> {}, copy |-> <<>>])
JcHas(p, op) == /\ JcAt(p, "idle") /\ live(jcProc, p) /\ ~jcProc[p].stopped
                /\ jcProc[p].sigs \cap {"stop"} = {}
                /\ jcOp[p].i < Len(jcSc.prog[p]) /\ jcSc.prog[p][jcOp[p].i + 1].op = op
JcArg(p) == jcSc.prog[p][jcOp[p].i + 1]

\* signal_process_group(): SIGCONT wakes those that stopped.
signal_process_group(P, s, g, sigs) ==
    [p \in JcProcs |->
       IF p \in Members(P, s, g) /\ s # 0 /\ g # 0
       THEN [P[p] EXCEPT !.sigs = (@ \cup sigs) \ (IF "cont" \in sigs THEN {"stop", "cont"} ELSE {}),
                         !.stopped = @ /\ "cont" \notin sigs]
       ELSE P[p]]
HupCont == {"hup", "cont"}

\* Back in user mode a stop signal is taken.
take_stop(p) ==
    /\ JcAt(p, "idle") /\ live(jcProc, p) /\ "stop" \in jcProc[p].sigs
    /\ Relate([jcProc EXCEPT ![p].stopped = TRUE, ![p].sigs = @ \ {"stop"}], {})
    /\ UNCHANGED <<jcSc, jcTty, jcOp>>

\* notify_orphaned_process_group_transition() for one group of op.was: those
\* that had a live parent in the session before the operation.
orphan_ignored(s, g) == FALSE              \* mutant
newly_orphaned(s, g) == process_group_is_orphaned(jcProc, s, g) /\ HasStopped(jcProc, s, g)
notify_orphaned(p) ==
    /\ JcAt(p, "notify")
    /\ IF jcOp[p].was = {} THEN JcSet(p, [pc |-> "told"]) /\ UNCHANGED <<jcProc, jcOwed>>
       ELSE \E g \in jcOp[p].was :
               /\ JcSet(p, [was |-> jcOp[p].was \ {g}])
               /\ IF newly_orphaned(g[1], g[2])
                  THEN Relate(signal_process_group(jcProc, g[1], g[2], HupCont), {g})
                  ELSE UNCHANGED <<jcProc, jcOwed>>
    /\ UNCHANGED <<jcSc, jcTty>>
NotOrphaned(G) == {g \in G : ~process_group_is_orphaned(jcProc, g[1], g[2])}

-----------------------------------------------------------------------------
(* setpgid() and setsid().                                                 *)

same_session(p, q) == jcProc[q].sid = jcProc[p].sid
\* The checks, and the orphan state of the group left and the group joined.
sys_setpgid(p) ==
    /\ JcHas(p, "setpgid")
    /\ LET q == JcArg(p).pid
           g == JcArg(p).pgid
           s == jcProc[q].sid
           ok == /\ jcProc[q].life # "none"
                 /\ q = p \/ (jcProc[q].parent = p /\ ~jcProc[q].exec)
                 /\ same_session(p, q) /\ s # q
                 /\ g = q \/ \E r \in JcProcs : /\ jcProc[r].life # "none"
                                               /\ jcProc[r].sid = jcProc[p].sid /\ jcProc[r].pgid = g
       IN  IF ok THEN JcSet(p, [pc |-> "setpgid", target |-> q, pgid |-> g,
                                was |-> NotOrphaned({<<s, jcProc[q].pgid>>, <<s, g>>})])
           ELSE JcDone(p)
    /\ UNCHANGED <<jcSc, jcProc, jcTty, jcOwed>>
set_process_pgid(p) ==
    /\ JcAt(p, "setpgid")
    /\ Relate([jcProc EXCEPT ![jcOp[p].target].pgid = jcOp[p].pgid], {})
    /\ JcSet(p, [pc |-> "notify"])
    /\ UNCHANGED <<jcSc, jcTty>>

Children(p) == {q \in JcProcs : jcProc[q].life # "none" /\ jcProc[q].parent = p}
\* The group of p and those of its children in the session.
Affected(p) == {<<jcProc[p].sid, jcProc[p].pgid>>} \cup
               {<<jcProc[p].sid, jcProc[q].pgid>> : q \in {c \in Children(p) : jcProc[c].sid = jcProc[p].sid}}
sys_setsid(p) ==
    /\ JcHas(p, "setsid")
    /\ IF jcProc[p].pgid = p THEN JcDone(p) /\ UNCHANGED <<jcProc, jcOwed>>
       ELSE /\ JcSet(p, [pc |-> "setsid", was |-> NotOrphaned(Affected(p))])
            /\ Relate([jcProc EXCEPT ![p].ctty = FALSE], {})
    /\ UNCHANGED <<jcSc, jcTty>>
set_process_sid(p) ==
    /\ JcAt(p, "setsid")
    /\ Relate([jcProc EXCEPT ![p].sid = p], {})
    /\ JcSet(p, [pc |-> "setsid2"])
    /\ UNCHANGED <<jcSc, jcTty>>
setsid_pgid(p) ==
    /\ JcAt(p, "setsid2")
    /\ Relate([jcProc EXCEPT ![p].pgid = p], {})
    /\ JcSet(p, [pc |-> "notify"])
    /\ UNCHANGED <<jcSc, jcTty>>

-----------------------------------------------------------------------------
(* Fork, exec and exit.                                                    *)

\* ProcessState::new() copies the parent; the child is published later.
fork_copy(p) ==
    /\ JcHas(p, "fork") /\ jcProc[JcArg(p).pid].life = "none"
    /\ JcSet(p, [pc |-> "fork", copy |-> [jcProc[p] EXCEPT !.parent = p, !.exec = FALSE, !.sigs = {},
                                                          !.stopped = FALSE]])
    /\ UNCHANGED <<jcSc, jcProc, jcTty, jcOwed>>
fork_publish(p) ==
    /\ JcAt(p, "fork")
    /\ Relate([jcProc EXCEPT ![JcArg(p).pid] = jcOp[p].copy], {})
    /\ JcDone(p)
    /\ UNCHANGED <<jcSc, jcTty>>
jc_exec(p) ==
    /\ JcHas(p, "exec")
    /\ Relate([jcProc EXCEPT ![p].exec = TRUE], {})
    /\ JcDone(p)
    /\ UNCHANGED <<jcSc, jcTty>>

\* exit_process_group(): the orphan states are taken before session_exit().
exit_snapshot(p) ==
    /\ JcHas(p, "exit")
    /\ JcSet(p, [pc |-> "begin_exit", was |-> NotOrphaned(Affected(p))])
    /\ UNCHANGED <<jcSc, jcProc, jcTty, jcOwed>>
session_exit(p) ==
    /\ JcAt(p, "begin_exit")
    /\ Relate([jcProc EXCEPT ![p].life = "Exiting"], {})
    /\ JcSet(p, [pc |-> "release"])
    /\ UNCHANGED <<jcSc, jcTty>>
\* release_console_on_session_exit().
releases_console(p) == jcProc[p].sid = p /\ jcProc[p].ctty /\ jcTty.session_id = p
release_console(p) ==
    /\ JcAt(p, "release")
    /\ IF releases_console(p)
       THEN /\ jcTty' = [session_id |-> 0, foreground_pgid |-> 0]
            /\ JcSet(p, [pc |-> "exit_sweep", sid |-> jcTty.session_id, fg |-> jcTty.foreground_pgid])
            /\ UNCHANGED <<jcProc, jcOwed>>
       ELSE /\ Relate([jcProc EXCEPT ![p].ctty = @ /\ jcProc[p].sid # p], {})
            /\ JcSet(p, [pc |-> "reparent"])
            /\ UNCHANGED jcTty
    /\ UNCHANGED jcSc
\* set_session_controlling_tty(old, false), then SIGHUP and SIGCONT.
set_session_controlling_tty(P, p, s) ==
    [q \in JcProcs |-> IF P[q].sid = s THEN [P[q] EXCEPT !.ctty = FALSE] ELSE P[q]]
sweep(p) ==
    /\ jcOp[p].pc \in {"exit_sweep", "notty_sweep"}
    /\ Relate(set_session_controlling_tty(jcProc, p, jcOp[p].sid), {})
    /\ JcSet(p, [pc |-> IF JcAt(p, "exit_sweep") THEN "exit_hup" ELSE "notty_hup"])
    /\ UNCHANGED <<jcSc, jcTty>>
signal_foreground_group(p) ==
    /\ jcOp[p].pc \in {"exit_hup", "notty_hup"}
    /\ Relate(signal_process_group(jcProc, jcOp[p].sid, jcOp[p].fg, HupCont), {<<jcOp[p].sid, jcOp[p].fg>>})
    /\ JcSet(p, IF JcAt(p, "exit_hup") THEN [pc |-> "reparent"] ELSE [pc |-> "told"])
    /\ UNCHANGED <<jcSc, jcTty>>
new_parent(p) == 1
reparent_children_to_init(p) ==
    /\ JcAt(p, "reparent")
    /\ Relate([q \in JcProcs |-> IF q \in Children(p) THEN [jcProc[q] EXCEPT !.parent = new_parent(p)] ELSE jcProc[q]], {})
    /\ JcSet(p, [pc |-> "notify"])
    /\ UNCHANGED <<jcSc, jcTty>>
\* An operation ends; that of an exiting process with publish_zombie().
operation_done(p) ==
    /\ JcAt(p, "told")
    /\ Relate([jcProc EXCEPT ![p].life = IF @ = "Exiting" THEN "Zombie" ELSE @], {})
    /\ JcDone(p)
    /\ UNCHANGED <<jcSc, jcTty>>

-----------------------------------------------------------------------------
(* console_ioctl() and the background rules.                               *)

controls_console(p) == jcProc[p].ctty /\ jcTty.session_id # 0 /\ jcProc[p].sid = jcTty.session_id
Background(p) == controls_console(p) /\ jcProc[p].pgid # jcTty.foreground_pgid

\* TIOCSCTTY: the terminal changes hands, then the flags follow.
tiocsctty(p) ==
    /\ JcHas(p, "sctty")
    /\ IF \/ jcProc[p].sid # p \/ controls_console(p)
          \/ (jcTty.session_id \notin {0, p} /\ ~JcArg(p).force)
       THEN JcDone(p) /\ UNCHANGED jcTty
       ELSE /\ jcTty' = [session_id |-> p, foreground_pgid |-> jcProc[p].pgid]
            /\ JcSet(p, [pc |-> "sctty", sid |-> jcTty.session_id])
    /\ UNCHANGED <<jcSc, jcProc, jcOwed>>
sctty_sweep(p) ==
    /\ JcAt(p, "sctty")
    /\ IF jcOp[p].sid \notin {0, p} THEN Relate(set_session_controlling_tty(jcProc, p, jcOp[p].sid), {})
       ELSE UNCHANGED <<jcProc, jcOwed>>
    /\ JcSet(p, [pc |-> "sctty2"])
    /\ UNCHANGED <<jcSc, jcTty>>
sctty_own(p) ==
    /\ JcAt(p, "sctty2")
    /\ Relate([jcProc EXCEPT ![p].ctty = TRUE], {})
    /\ JcDone(p)
    /\ UNCHANGED <<jcSc, jcTty>>

tiocnotty(p) ==
    /\ JcHas(p, "notty")
    /\ IF ~controls_console(p) THEN JcDone(p) /\ UNCHANGED <<jcProc, jcTty, jcOwed>>
       ELSE IF jcProc[p].sid = p
       THEN /\ jcTty' = [session_id |-> 0, foreground_pgid |-> 0]
            /\ JcSet(p, [pc |-> "notty_sweep", sid |-> jcTty.session_id, fg |-> jcTty.foreground_pgid])
            /\ UNCHANGED <<jcProc, jcOwed>>
       ELSE /\ Relate([jcProc EXCEPT ![p].ctty = FALSE], {})
            /\ JcDone(p) /\ UNCHANGED jcTty
    /\ UNCHANGED jcSc

\* check_background_read(): EIO for an orphaned group, else its group is to
\* be stopped.  check_background_terminal_change() lets those through that
\* ignore SIGTTOU.
check_background_read(p) ==
    /\ JcHas(p, "read")
    /\ IF Background(p) /\ ~process_group_is_orphaned(jcProc, jcProc[p].sid, jcProc[p].pgid)
       THEN JcSet(p, [pc |-> "stop", sid |-> jcProc[p].sid, pgid |-> jcProc[p].pgid])
       ELSE JcDone(p)
    /\ UNCHANGED <<jcSc, jcProc, jcTty, jcOwed>>
background_stop(p) ==
    /\ JcAt(p, "stop")
    /\ Relate(signal_process_group(jcProc, jcOp[p].sid, jcOp[p].pgid, {"stop"}), {})
    /\ JcSet(p, [pc |-> "idle", i |-> jcOp[p].i + 1,
                 orphanStop |-> process_group_is_orphaned(jcProc, jcOp[p].sid, jcOp[p].pgid)])
    /\ UNCHANGED <<jcSc, jcTty>>

\* TIOCSPGRP: checks, then the commit under the lock, which looks again.
tiocspgrp(p) ==
    /\ JcHas(p, "spgrp")
    /\ LET g == JcArg(p).pgid
           exists == \E q \in JcProcs : /\ jcProc[q].sid = jcTty.session_id /\ jcProc[q].pgid = g
                                        /\ jcProc[q].life \in {"Running", "Exiting"}
       IN  IF Background(p) /\ ~JcArg(p).ignores
           THEN IF process_group_is_orphaned(jcProc, jcProc[p].sid, jcProc[p].pgid) THEN JcDone(p)
                ELSE JcSet(p, [pc |-> "stop", sid |-> jcProc[p].sid, pgid |-> jcProc[p].pgid])
           ELSE IF controls_console(p) /\ exists
                THEN JcSet(p, [pc |-> "spgrp", pgid |-> g, sid |-> jcTty.session_id]) ELSE JcDone(p)
    /\ UNCHANGED <<jcSc, jcProc, jcTty, jcOwed>>
commit_foreground(p) ==
    /\ JcAt(p, "spgrp")
    /\ jcTty' = IF controls_console(p) /\ jcTty.session_id = jcOp[p].sid
                THEN [jcTty EXCEPT !.foreground_pgid = jcOp[p].pgid] ELSE jcTty
    /\ JcDone(p)
    /\ UNCHANGED <<jcSc, jcProc, jcOwed>>

\* Ctrl-Z: the pump stops the foreground group.
terminal_susp ==
    /\ jcSc.susp /\ jcTty.session_id # 0
    /\ Relate(signal_process_group(jcProc, jcTty.session_id, jcTty.foreground_pgid, {"stop"}), {})
    /\ UNCHANGED <<jcSc, jcTty, jcOp>>

JcNext ==
    \/ \E p \in JcProcs : \/ take_stop(p) \/ notify_orphaned(p) \/ sys_setpgid(p) \/ set_process_pgid(p)
                          \/ sys_setsid(p) \/ set_process_sid(p) \/ setsid_pgid(p)
    \/ \E p \in JcProcs : \/ fork_copy(p) \/ fork_publish(p) \/ jc_exec(p) \/ exit_snapshot(p)
                          \/ session_exit(p) \/ release_console(p) \/ sweep(p) \/ operation_done(p)
                          \/ signal_foreground_group(p) \/ reparent_children_to_init(p)
    \/ \E p \in JcProcs : \/ tiocsctty(p) \/ sctty_sweep(p) \/ sctty_own(p) \/ tiocnotty(p)
                          \/ check_background_read(p) \/ background_stop(p) \/ tiocspgrp(p)
                          \/ commit_foreground(p)
    \/ terminal_susp
JcSpec == JcInit /\ [][JcNext]_jcVars

-----------------------------------------------------------------------------
(* Properties.                                                             *)

JcQuiet == \A p \in JcProcs : JcAt(p, "idle")

\* Types; a process that exists has a group and a session, and a child that
\* is published has a parent.
JcTypeOK ==
    /\ jcTty \in [session_id : JcProcs \cup {0}, foreground_pgid : JcProcs \cup {0}]
    /\ \A p \in JcProcs : jcProc[p].life # "none" =>
          /\ jcProc[p].pgid \in JcProcs /\ jcProc[p].sid \in JcProcs
          /\ p # 1 => jcProc[p].parent \in JcProcs /\ jcProc[jcProc[p].parent].life \in {"Running", "Exiting"}

\* A process group that loses its last parent in the session while a member
\* is stopped gets SIGHUP and SIGCONT, whichever of setpgid(), setsid() and
\* exit did it and however they interleave: nobody else would continue it.
OrphansTold == JcQuiet => jcOwed = {}

\* A process group lies in one session, and a session leader leads its own
\* group: setpgid() checks the session before it stores the group.
GroupInOneSession ==
    JcQuiet => \A p, q \in JcProcs :
       (live(jcProc, p) /\ live(jcProc, q) /\ jcProc[p].pgid = jcProc[q].pgid) => jcProc[p].sid = jcProc[q].sid

\* The session that has the terminal has a leader that is alive: a leader
\* that exits gives the terminal back.
ConsoleOwnerLives ==
    (JcQuiet /\ jcTty.session_id # 0) => live(jcProc, jcTty.session_id)

=============================================================================
