----------------------------- MODULE MCProcess ------------------------------
(* One run for what a process is made of and is scheduled by: every behaviour *)
(* is about one of the components, with a scenario of that component.      *)
EXTENDS CloneExec, Traps, Signals, Terminal, Attributes, ReadyQueues, Clocks, TLC

-----------------------------------------------------------------------------
(* CloneExec *)
CxClone(c, flags, fail) == [op |-> "clone", child |-> c, flags |-> flags, fail |-> fail]
CxExec(fail) == [op |-> "exec", fail |-> fail, script |-> FALSE]
CxScript(fail) == [op |-> "exec", fail |-> fail, script |-> TRUE]
CxExit == [op |-> "exit"]
CxExitGroup == [op |-> "exit_group"]
CxLock(w) == [op |-> "lock", w |-> w]
CxUnlock(w) == [op |-> "unlock", w |-> w]
CxThread == {"THREAD", "SIGHAND", "VM", "FILES"}
CxVfork == {"VFORK", "VM"}
\* procs: the process of each task (0: not made yet); held: who has each lock; robust lists; programs
CxS(proc, held, robust, prog) == [proc |-> proc, held |-> held, robust |-> robust, prog |-> prog]
N0 == <<>>
NoLists == <<N0, N0, N0, N0>>
CxVforks == CxS(<<1, 0, 0, 4>>, <<0, 0>>, NoLists, <<<<CxClone(2, CxVfork, ""), CxClone(3, CxVfork \cup {"FILES"}, ""), CxExec("load")>>, <<CxScript("head"), CxExec("permission"), CxExec("user_stack"), CxExec("")>>, <<CxExit>>, <<CxClone(1, {"THREAD"}, ""), CxExit>>>>)
CxThreads == CxS(<<1, 1, 0, 0>>, <<0, 0>>, NoLists, <<<<CxClone(3, CxThread, ""), CxExec("user_stack")>>, <<CxClone(4, {"FILES"}, ""), CxExec("")>>, <<CxExit>>, N0>>)
CxGroup == CxS(<<1, 1, 1, 4>>, <<2, 1>>, <<<<2>>, <<1>>, N0, N0>>, <<<<CxExec("")>>, <<CxExit>>, <<CxExitGroup>>, <<CxLock(2), CxUnlock(2)>>>>)
CxOwners == CxS(<<1, 1, 3, 4>>, <<2, 2>>, <<<<2, 1>>, <<2, 1, 0>>, <<2>>, N0>>, <<<<CxExec("")>>, <<CxExit>>, <<CxLock(1), CxExit>>, N0>>)
CxFails == CxS(<<1, 0, 0, 0>>, <<0, 0>>, NoLists, <<<<CxClone(2, {"SIGHAND"}, ""), CxClone(2, {}, "clone"), CxClone(2, {"PIDFD"}, "")>>, <<CxExec("lookup"), CxExec("copy"), CxScript("")>>, N0, N0>>)
CxMain == {CxVforks, CxThreads, CxGroup, CxOwners, CxFails}
\* Outside the run, NoHalfChild fails: the address for the number of the child is bad.
CxBadAddress == {CxS(<<1, 0, 0, 0>>, <<0, 0>>, NoLists, <<<<CxClone(2, {}, f)>>, N0, N0, N0>>) : f \in {"parent_settid", "child_settid"}}
\* Outside the run, RobustReleased fails: a thread that is not the leader execs while it owns a
\* robust lock.
CxThreadExec == {CxS(<<1, 1, 3, 0>>, <<2, 0>>, <<N0, <<1>>, N0, N0>>, <<N0, <<CxExec("")>>, <<CxLock(1)>>, N0>>)}
\* Outside the run, VforkReleases fails: a vfork child creates a thread, and that thread execs.
CxVforkThread == {CxS(<<1, 0, 0, 0>>, <<0, 0>>, NoLists, <<<<CxClone(2, CxVfork, "")>>, <<CxClone(3, CxThread, "")>>, <<CxExec("")>>, N0>>)}

-----------------------------------------------------------------------------
(* ExecImage *)
ImgSeg(va, memsz, filesz, off) == [va |-> va, memsz |-> memsz, filesz |-> filesz, off |-> off]
ImgElf(loads, interps, pie, entry, size) ==
    [loads |-> loads, interps |-> interps, pie |-> pie, entry |-> entry, size |-> size, phoff |-> 64, phnum |-> Len(loads) + Len(interps)]
Texts == {<<ImgSeg(0, 700, 700, 0)>>, <<ImgSeg(4096, 5000, 4500, 0)>>, <<ImgSeg(8192, 9000, 9000, 0), ImgSeg(20000, 300, 40, 11808)>>,
          <<ImgSeg(4096, 500, 500, 0), ImgSeg(8200, 9000, 100, 5000)>>, <<ImgSeg(4096, 400, 500, 0)>>, <<ImgSeg(4200, 500, 500, 100)>>,
          <<ImgSeg(4096, 500, 500, 20000)>>, <<ImgSeg(4196, 500, 500, 8292)>>}
Interps == {<<>>, <<[off |-> 300, len |-> 20]>>, <<[off |-> 19000, len |-> 9]>>, <<[off |-> 19000, len |-> 9], [off |-> 400, len |-> 5]>>, <<[off |-> 19999, len |-> 9]>>, <<[off |-> 400, len |-> 0]>>}
Linkers == {<<>>, ImgElf(<<ImgSeg(0, 5000, 5000, 0), ImgSeg(12000, 5000, 100, 7904)>>, <<>>, TRUE, 4100, 9000)}
Toks == <<Str("a", 0), Str("b", 7), Str("c", 16), Str("d", 31)>>
Vecs == {<<>>, <<Toks[1]>>, <<Toks[2], Toks[1]>>, <<Toks[3], Toks[2]>>, <<Toks[4], Toks[3], Toks[1]>>}
ImgIn(file, linker, head, args, envs, exe) == [file |-> file, linker |-> linker, head |-> head, args |-> args, envs |-> envs, exe |-> exe]
Exe == Str("exe", 9)
Plain == ImgElf(<<ImgSeg(4096, 5000, 4500, 0)>>, <<>>, FALSE, 4200, 20000)
ImgMain ==
    {ImgIn(ImgElf(t, i, p, t[1].va + 200, 20000), l, "elf", <<Toks[2]>>, <<Toks[3]>>, Exe) : t \in Texts, i \in Interps, p \in BOOLEAN, l \in Linkers}
    \cup {ImgIn(Plain, <<>>, h, a, e, x) : h \in {"elf", "sh", "interp", "interp_arg", "other"}, a \in Vecs, e \in Vecs, x \in {Exe, Str("exe", 14)}}
    \cup {ImgIn([Plain EXCEPT !.size = s, !.phnum = n], <<>>, "elf", <<>>, <<>>, Exe) : s \in {40, 100, 20000}, n \in {0, 1, 400}}

-----------------------------------------------------------------------------
(* Traps *)
RW == {"r", "w"}
Pattern == [a \in 0 .. 47 |-> (a * 29 + 131) % 256]
Reg1 == <<200, 17, 130, 4, 255, 6, 129, 8>>
UserPerm(p1, p2, p3) == [p \in 0 .. 5 |-> CASE p = 0 -> {} [] p = 1 -> p1 [] p = 2 -> p2 [] p = 3 -> p3 [] OTHER -> RW]
Lazy == [p \in 0 .. 5 |-> IF p >= 4 THEN RW ELSE {}]
Dfl == [s \in {SIGILL, SIGBUS, SIGUSR, SIGSEGV} |-> "dfl"]
TpCase(arch, prog1, prog2) ==
    [arch |-> arch, prog |-> <<prog1, prog2>>, perm |-> UserPerm(RW, RW, RW), pte |-> Lazy, io |-> {}, mem |-> Pattern,
     x |-> Reg1, mask |-> <<{}, {}>>, act |-> Dfl, sends |-> <<{}, {}>>, sock |-> <<"none", "untimed", "timed">>]

\* The instructions of the manual: name order b h w d.
Insn(form, code, size, store, signed, sc) ==
    [form |-> form, code |-> code, size |-> size, store |-> store, signed |-> signed, sc |-> sc]
Plain2RI12 == {Insn("2RI12", 160, 1, FALSE, TRUE, FALSE), Insn("2RI12", 161, 2, FALSE, TRUE, FALSE),
               Insn("2RI12", 162, 4, FALSE, TRUE, FALSE), Insn("2RI12", 163, 8, FALSE, FALSE, FALSE),
               Insn("2RI12", 164, 1, TRUE, FALSE, FALSE), Insn("2RI12", 165, 2, TRUE, FALSE, FALSE),
               Insn("2RI12", 166, 4, TRUE, FALSE, FALSE), Insn("2RI12", 167, 8, TRUE, FALSE, FALSE),
               Insn("2RI12", 168, 1, FALSE, FALSE, FALSE), Insn("2RI12", 169, 2, FALSE, FALSE, FALSE),
               Insn("2RI12", 170, 4, FALSE, FALSE, FALSE)}
Indexed3R == {Insn("3R", 28672, 1, FALSE, TRUE, FALSE), Insn("3R", 28680, 2, FALSE, TRUE, FALSE),
              Insn("3R", 28688, 4, FALSE, TRUE, FALSE), Insn("3R", 28696, 8, FALSE, FALSE, FALSE),
              Insn("3R", 28704, 1, TRUE, FALSE, FALSE), Insn("3R", 28712, 2, TRUE, FALSE, FALSE),
              Insn("3R", 28720, 4, TRUE, FALSE, FALSE), Insn("3R", 28728, 8, TRUE, FALSE, FALSE),
              Insn("3R", 28736, 1, FALSE, FALSE, FALSE), Insn("3R", 28744, 2, FALSE, FALSE, FALSE),
              Insn("3R", 28752, 4, FALSE, FALSE, FALSE)}
Words2RI14 == {Insn("2RI14", 32, 4, FALSE, TRUE, FALSE), Insn("2RI14", 33, 4, TRUE, FALSE, TRUE),
               Insn("2RI14", 34, 8, FALSE, FALSE, FALSE), Insn("2RI14", 35, 8, TRUE, FALSE, TRUE),
               Insn("2RI14", 36, 4, FALSE, TRUE, FALSE), Insn("2RI14", 37, 4, TRUE, FALSE, FALSE),
               Insn("2RI14", 38, 8, FALSE, FALSE, FALSE), Insn("2RI14", 39, 8, TRUE, FALSE, FALSE)}
\* An encoding between those of stx and ldx.bu that no group has.
Unknown == Insn("3R", 28673, 4, FALSE, TRUE, FALSE)
MemIns(i, rd, base, imm, kernel) ==
    [op |-> "mem", ins |-> i, rd |-> rd, base |-> base, index |-> 2, imm |-> imm, kernel |-> kernel]
TpEmulated ==
    {TpCase("la", <<MemIns(i, rd, 17, imm, FALSE)>>, <<>>) :
        i \in Plain2RI12 \cup Indexed3R \cup Words2RI14, rd \in {0, 1}, imm \in {-4, 4}}
    \cup {TpCase("la", <<MemIns(i, 1, 39, -4, TRUE)>>, <<>>) : i \in Words2RI14}
    \cup {TpCase("la", <<MemIns(Unknown, 1, 17, 4, k)>>, <<>>) : k \in {FALSE}}
    \cup {[TpCase("la", <<MemIns(i, 1, 17, -4, FALSE)>>, <<>>) EXCEPT !.perm[2] = {"r"}] : i \in Plain2RI12}
    \cup {[TpCase("la", <<MemIns(i, 1, 17, -4, FALSE)>>, <<>>) EXCEPT !.io = {2}] : i \in Words2RI14}

\* Strings: 5 5 at 10, five bytes at 13 over the end of the page, one that
\* ends with the page at 21, none that ends from 24 on.
TrapTexts ==
    (8 :> 10) @@ (9 :> 13) @@ (10 :> 5) @@ (11 :> 5) @@ (12 :> 0) @@ (13 :> 6) @@ (14 :> 6) @@ (15 :> 6) @@ (16 :> 0)
    @@ (17 :> 10) @@ (18 :> 21) @@ (19 :> 0) @@ (20 :> 10) @@ (21 :> 7) @@ (22 :> 7) @@ (23 :> 0) @@ Pattern
CopyOp(o, a, n) == [op |-> o, a |-> a, n |-> n]
Places == {UserPerm(RW, RW, RW), UserPerm(RW, {}, RW), UserPerm(RW, {"r"}, RW), UserPerm(RW, RW, {}), UserPerm({"x"}, RW, RW)}
TpCopies ==
    {[TpCase("rv", <<CopyOp(o, a, n)>>, <<>>) EXCEPT !.perm = pl, !.mem = TrapTexts, !.io = io] :
        o \in {"copyin", "copyout"}, a \in {0, 12, 20, 28}, n \in {0, 3, 8}, pl \in Places, io \in {{}, {2}}}
    \cup {[TpCase("rv", <<CopyOp(o, a, 0)>>, <<>>) EXCEPT !.perm = pl, !.mem = TrapTexts, !.io = io] :
        o \in {"cstr", "argv"}, a \in {0, 8, 10, 13, 14, 17, 18, 20, 21, 24}, pl \in Places, io \in {{}, {2}}}

Touches(a, c) == [op |-> "touch", a |-> a, cause |-> c]
Arg(v) == [op |-> "arg", v |-> v]
SysCall(id, fd, timeout) == [op |-> "call", id |-> id, fd |-> fd, timeout |-> timeout, arg0 |-> 3]
Change(o, p) == [op |-> o, p |-> p, perm |-> {"r"}, fd |-> 2]
Handles == [s \in {SIGILL, SIGBUS, SIGUSR, SIGSEGV} |-> "handle"]
Illegal == [op |-> "illegal"]
Break == [op |-> "break"]
Word1(a) == [op |-> "word", a |-> a]
TpFaults ==
    {[TpCase(arch, <<Touches(17, c), Touches(25, "Store")>>, pr) EXCEPT !.perm[3] = {"r"}, !.io = io, !.act = act] :
        arch \in {"rv", "la"}, c \in {"Load", "Store"}, io \in {{}, {2}}, act \in {Dfl, Handles}, pr \in {<<>>, <<Change("fork", 1), Change("mprotect", 2)>>, <<Change("dontneed", 2)>>}}
    \cup {[TpCase("la", <<Touches(25, "Instruction")>>, <<>>) EXCEPT !.mask[1] = {SIGSEGV}, !.act = act] : act \in {Dfl, Handles}}
    \cup {[TpCase("rv", <<i>>, <<Touches(17, "Load")>>) EXCEPT !.act = act] : i \in {Illegal, Break}, act \in {Dfl, Handles}}
    \cup {TpCase("la", <<i>>, <<>>) : i \in {Illegal, Break}}
    \cup {TpCase("rv", <<Word1(17), Word1(25)>>, <<Change("munmap", 3)>>)}
TpCalls ==
    {[TpCase(arch, <<Arg(3), SysCall(id, fd, w)>>, <<>>) EXCEPT !.act[SIGUSR] = act, !.sends[1] = {SIGUSR}] :
        arch \in {"rv", "la"}, id \in {"futex", "read", "recv", "nanosleep"}, fd \in 1 .. 3, w \in BOOLEAN, act \in {"handle", "restart", "ign"}}
    \cup {[TpCase("rv", <<Arg(3), SysCall("read", 1, FALSE)>>, <<>>) EXCEPT !.act[SIGBUS] = "ign", !.act[SIGUSR] = "restart", !.sends[1] = {SIGBUS, SIGUSR}]}
    \cup {[TpCase("rv", <<Arg(3), SysCall("wait4", 1, FALSE)>>, <<Change("timeout", 1)>>) EXCEPT !.act[SIGUSR] = "restart", !.sends[1] = {SIGUSR}]}
TpMain == TpEmulated \cup TpCopies \cup TpFaults \cup TpCalls

\* Outside the run, FaultNotRepeated fails: the signal of a fault is ignored, or blocked on
\* RISC-V.
TpRepeats == {[TpCase("rv", <<Touches(25, "Store")>>, <<>>) EXCEPT !.perm[3] = {"r"}, !.mask[1] = {SIGSEGV}],
              [TpCase("la", <<Touches(25, "Store")>>, <<>>) EXCEPT !.perm[3] = {"r"}, !.act[SIGSEGV] = "ign"]}
\* Outside the run, TimedNotRestarted fails: a socket gets a timeout while a call on it begins.
TpTimeouts == {[TpCase("rv", <<Arg(3), SysCall("recv", 2, FALSE)>>, <<Change("timeout", 1)>>) EXCEPT !.act[SIGUSR] = "restart", !.sends[1] = {SIGUSR}]}
\* Outside the run, FutexWordRead fails: the page of a futex word is discarded during the call.
TpDontNeed == {TpCase("rv", <<Word1(17)>>, <<Change("dontneed", 2)>>)}
\* Outside the run, NoKernelPanic fails: a page goes away while its unaligned access is emulated.
TpUnmaps == {TpCase("la", <<MemIns(i, 1, 17, -4, FALSE)>>, <<Change(o, 2)>>) : i \in Plain2RI12, o \in {"munmap", "fork"}}
\* Outside the run, NoKernelPanic fails: user code raises an exception trap_handler() has no
\* arm for.
TpOther == {TpCase(arch, <<[op |-> "other"]>>, <<>>) : arch \in {"rv", "la"}}
\* Outside the run, FatalTrapEndsProcess fails: an illegal instruction on LoongArch beside a
\* running sibling.
TpLaIllegal == {TpCase("la", <<Illegal>>, <<Touches(17, "Load")>>)}

-----------------------------------------------------------------------------
(* Signals *)
User == [SIG_DFL EXCEPT !.h = "user"]
OnStack == [User EXCEPT !.onstack = TRUE]
Restart == [User EXCEPT !.restart = TRUE]
Once == [User EXCEPT !.reset = TRUE]
Setmask(set) == [op |-> "setmask", set |-> set]
Block(set) == [op |-> "block", set |-> set]
Unblock(set) == [op |-> "unblock", set |-> set]
Suspend(set) == [op |-> "suspend", set |-> set]
ReadCall == [op |-> "read"]
Wait(set, timeout) == [op |-> "twait", set |-> set, timeout |-> timeout, fault |-> FALSE]
WaitFault(set) == [op |-> "twait", set |-> set, timeout |-> "timed", fault |-> TRUE]
Action(s, a) == [op |-> "action", sig |-> s, act |-> a]
AltStack == [op |-> "altstack"]
Exit == [op |-> "exit"]
Kill(s) == [op |-> "kill", sig |-> s]
Tkill(t, s) == [op |-> "tkill", sig |-> s, to |-> t]
Queue(s) == [op |-> "queue", sig |-> s]

USR1 == 10
TERM == 15
RT == 34
Sc(a, p1, p2, s1, s2) == [act |-> [s \in SIGS |-> IF s \in DOMAIN a THEN a[s] ELSE SIG_DFL], prog |-> <<p1, p2>>,
                          send |-> (3 :> s1 @@ 4 :> s2), limit |-> 2, badstack |-> FALSE]

\* sigsuspend() against thread signals, handlers that interrupt handlers.
Suspended == Sc(USR1 :> User @@ TERM :> User, <<Block({USR1}), Suspend({}), Unblock({USR1})>>, <<>>, <<Tkill(1, USR1)>>, <<Tkill(1, TERM)>>)
Restarted == Sc(TERM :> Restart @@ USR1 :> User, <<>>, <<ReadCall>>, <<Tkill(2, TERM), Tkill(2, USR1)>>, <<>>)
\* Realtime signals, the quota, and two threads that take from one queue.
Queued == Sc(RT :> User, <<Block({RT}), Wait({RT}, "zero")>>, <<Block({RT}), Wait({RT}, "zero")>>,
             <<Queue(RT), Queue(RT), Tkill(2, RT)>>, <<>>)
\* A wait with a deadline against wanted and other signals.
Waited == Sc(USR1 :> Once, <<Block({USR1}), Wait({USR1}, "timed"), Unblock({USR1})>>, <<>>, <<Kill(USR1)>>, <<Tkill(1, USR1)>>)
Faulted == Sc(USR1 :> User, <<Block({USR1}), WaitFault({USR1})>>, <<>>, <<Kill(USR1), Kill(USR1)>>, <<>>)
\* Job control, default actions, the alternate stack.
SgStopped == Sc(TERM :> User, <<Wait({USR1}, "none")>>, <<>>, <<Tkill(1, SIGSTOP), Kill(SIGCONT)>>, <<Tkill(2, SIGCHLD)>>)
OnAlt == Sc(TERM :> OnStack, <<AltStack>>, <<Action(TERM, SIG_IGN), Exit>>, <<Tkill(1, TERM)>>, <<Tkill(2, TERM)>>)
Fatal == [Sc(USR1 :> User, <<Suspend({})>>, <<ReadCall>>, <<Kill(USR1)>>, <<Tkill(2, SIGKILL)>>) EXCEPT !.badstack = TRUE]
SgMain == {Suspended, Restarted, Queued, Waited, Faulted, SgStopped, OnAlt, Fatal}

\* Outside the run, SgNextSignalWakes fails: a signal that is ignored is pending before another.
Hidden == {Sc(USR1 :> SIG_IGN @@ TERM :> User, <<Suspend({})>>, <<>>, <<Tkill(1, USR1)>>, <<Tkill(1, TERM)>>)}
\* Outside the run, SgNextSignalWakes fails: the thread a process signal chose blocks it.
Left == {Sc(USR1 :> User, <<Block({}), Block({USR1})>>, <<Suspend({})>>, <<Kill(USR1)>>, <<>>)}

\* Outside the run, SgHandlersNest fails: two handlers on the alternate stack, one interrupting
\* the other.
Nested == {Sc(USR1 :> OnStack @@ TERM :> OnStack, <<AltStack, Block({}), Block({})>>, <<>>, <<Tkill(1, USR1)>>, <<Tkill(1, TERM)>>)}
\* Outside the run, SgMaskRestored fails: SIGCONT without a handler ends sigsuspend().
Resumed == {Sc(USR1 :> User, <<Setmask({USR1}), Suspend({}), Block({})>>, <<>>, <<Kill(SIGCONT)>>, <<>>)}
\* Outside the run, SgWaiterServed fails: two threads wait for the same queued signal.
TwoWaiters == {Sc(RT :> User, <<Block({RT}), Wait({RT}, "none")>>, <<Block({RT}), Wait({RT}, "none")>>, <<Queue(RT), Queue(RT)>>, <<>>)}

-----------------------------------------------------------------------------
(* Console *)
Cooked == [icanon |-> TRUE, isig |-> TRUE, noflsh |-> FALSE, icrnl |-> TRUE, igncr |-> FALSE,
           vmin |-> 1, vtime |-> 0]
RawMode(min, time) == [Cooked EXCEPT !.icanon = FALSE, !.isig = FALSE, !.vmin = min, !.vtime = time]
CnRead(n) == [op |-> "read", n |-> n]
CnTcset(tm, f) == [op |-> "set", to |-> tm, flush |-> f]
CnSc1(keys, p1, p2, tm, service, h) ==
    [keys |-> keys, prog |-> (1 :> p1 @@ 2 :> p2), termios |-> tm, service |-> service, horizon |-> h]
CnLines == CnSc1(<<"x", "erase", "y", "nl", "x", "kill", "y", "eof">>, <<CnRead(1), CnRead(2), CnRead(2)>>,
                 <<>>, Cooked, TRUE, 0)
CnShared == CnSc1(<<"x", "y", "cr", "y", "erase", "x", "nl">>, <<CnRead(2)>>, <<CnRead(3)>>, Cooked, TRUE, 0)
CnBreaks == CnSc1(<<"x", "y", "intr", "eof", "x", "nl">>, <<>>, <<>>, Cooked, TRUE, 0)
CnKeep == CnSc1(<<"x", "nl">>, <<CnRead(2)>>, <<>>, [Cooked EXCEPT !.noflsh = TRUE, !.igncr = TRUE], TRUE, 0)
CnIgn == CnSc1(<<"x", "cr", "nl">>, <<CnRead(2)>>, <<>>, [Cooked EXCEPT !.igncr = TRUE], FALSE, 0)
CnRaw == {CnSc1(<<"x", "nl", "y">>, <<CnRead(2), CnRead(2)>>, <<>>, RawMode(m, v), TRUE, 3) :
             m \in {0, 2, 3}, v \in {0, 1}}
CnFlush == CnSc1(<<"x", "nl", "y", "y", "nl">>, <<CnTcset(RawMode(1, 0), TRUE), CnTcset(Cooked, TRUE), CnRead(1)>>, <<>>, Cooked, TRUE, 0)
CnMain == {CnLines, CnBreaks, CnKeep, CnIgn, CnFlush} \cup CnRaw
\* Outside the run, CnZeroMeansEof fails: two readers of one terminal, or an interrupt key that
\* empties the line a reader has seen.
CnTwo == {CnShared, CnSc1(<<"x", "nl", "intr">>, <<CnRead(2)>>, <<>>, Cooked, TRUE, 0)}
\* Outside the run, CnRecordsHold fails: raw mode reads the bytes of a finished line.
CnSwitch == {CnSc1(<<"x", "nl", "y", "nl">>, <<CnTcset(RawMode(1, 0), FALSE), CnRead(2), CnTcset(Cooked, FALSE), CnRead(2)>>,
                   <<>>, Cooked, TRUE, 0)}
\* Outside the run, CnOneLine fails: bytes of raw mode are left before the first line.
CnLeftOver == {CnSc1(<<"y", "x", "nl", "x", "nl">>, <<CnTcset(Cooked, FALSE), CnRead(2), CnRead(2)>>, <<>>, RawMode(1, 0), TRUE, 0)}
\* Outside the run, CnSignalEndsRead fails: the interrupt key while a reader waits.
CnIntr == {CnSc1(<<"intr">>, <<CnRead(2)>>, <<>>, Cooked, TRUE, 0)}

-----------------------------------------------------------------------------
(* JobControl *)
JcP(life, parent, pgid, sid, ctty, stopped) ==
    [life |-> life, parent |-> parent, pgid |-> pgid, sid |-> sid, ctty |-> ctty,
     stopped |-> stopped, exec |-> FALSE, sigs |-> {}]
Unborn == JcP("none", 0, 0, 0, FALSE, FALSE)
JcInitProc == JcP("Running", 0, 1, 1, FALSE, FALSE)
JcPgid(p, g) == [op |-> "setpgid", pid |-> p, pgid |-> g]
JcDo(op) == [op |-> op]
JcFork(c) == [op |-> "fork", pid |-> c]
JcSctty(f) == [op |-> "sctty", force |-> f]
JcFg(g, ign) == [op |-> "spgrp", pgid |-> g, ignores |-> ign]
JcS(table, tty, prog, susp) ==
    [table |-> table, tty |-> [session_id |-> tty[1], foreground_pgid |-> tty[2]],
     prog |-> prog @@ [p \in JcProcs |-> <<>>], susp |-> susp]
Shell == JcP("Running", 1, 2, 2, TRUE, FALSE)
Job(g, stopped) == JcP("Running", 2, g, 2, TRUE, stopped)
\* a shell starts two jobs in a group of their own and exits
JcShell == JcS(1 :> JcInitProc @@ 2 :> Shell @@ 3 :> Unborn @@ 4 :> Unborn, <<2, 2>>,
    (2 :> <<JcFork(3), JcPgid(3, 3), JcFg(3, TRUE), JcFork(4), JcDo("exit")>> @@
     3 :> <<JcPgid(3, 3), JcDo("exec"), JcDo("read")>> @@ 4 :> <<JcPgid(4, 3), JcDo("exit")>>), TRUE)
\* stopped jobs; the shell, one member and a child of it leave together
JcLeave == JcS(1 :> JcInitProc @@ 2 :> Shell @@ 3 :> Job(3, TRUE) @@ 4 :> Job(3, FALSE), <<2, 2>>,
    (2 :> <<JcDo("exit")>> @@ 4 :> <<JcPgid(4, 4), JcDo("exit")>>), FALSE)
JcChain == JcS(1 :> JcInitProc @@ 2 :> Shell @@ 3 :> Job(3, FALSE) @@ 4 :> [Job(4, TRUE) EXCEPT !.parent = 3],
    <<2, 3>>, (3 :> <<JcPgid(3, 4), JcPgid(3, 2), JcDo("exit")>>), FALSE)
JcSids == JcS(1 :> JcInitProc @@ 2 :> Shell @@ 3 :> Job(2, FALSE) @@ 4 :> [Job(4, TRUE) EXCEPT !.parent = 3],
    <<2, 2>>, (3 :> <<JcDo("setsid"), JcSctty(TRUE)>> @@ 2 :> <<JcDo("notty"), JcDo("exit")>>), FALSE)
JcSteal == JcS(1 :> JcInitProc @@ 2 :> Shell @@ 3 :> JcP("Running", 1, 3, 3, FALSE, FALSE) @@ 4 :> Job(4, FALSE),
    <<2, 2>>, (3 :> <<JcSctty(FALSE), JcSctty(TRUE), JcDo("exit")>> @@ 2 :> <<JcFg(4, FALSE), JcDo("exit")>> @@ 4 :> <<JcFg(4, FALSE), JcDo("notty")>>), FALSE)
JcOther == JcS(1 :> JcInitProc @@ 2 :> Shell @@ 3 :> JcP("Running", 1, 3, 3, FALSE, FALSE) @@ 4 :> [Job(3, FALSE) EXCEPT !.sid = 3, !.ctty = FALSE],
    <<2, 2>>, (2 :> <<JcPgid(4, 2)>> @@ 3 :> <<JcSctty(TRUE), JcDo("notty")>>), FALSE)
JcReads == {JcS(1 :> JcInitProc @@ 2 :> Shell @@ 3 :> Job(3, FALSE) @@ 4 :> Unborn, <<2, 2>>,
    (2 :> <<JcDo("exit")>> @@ 3 :> <<JcDo("read")>>), FALSE),
    JcS(1 :> JcInitProc @@ 2 :> Shell @@ 3 :> Job(3, FALSE) @@ 4 :> Unborn, <<2, 2>>,
    (2 :> <<JcDo("notty")>> @@ 3 :> <<JcFork(4)>>), FALSE)}
JcMain == {JcOther, JcShell, JcLeave, JcChain, JcSids, JcSteal} \cup JcReads
\* Outside the run, GroupInOneSession fails: a child calls setsid() between the checks and the
\* store of setpgid().
JcMoves == {JcS(1 :> JcInitProc @@ 2 :> Shell @@ 3 :> Job(2, FALSE) @@ 4 :> Job(4, FALSE), <<2, 2>>,
    (2 :> <<JcPgid(3, 4)>> @@ 3 :> <<JcDo("setsid")>>), FALSE)}

-----------------------------------------------------------------------------
(* Attributes *)
AtProcRec(ids, lim, nf) == [alive |-> TRUE, uid |-> ids[1], euid |-> ids[2], suid |-> ids[3], limit |-> lim,
                            nofile_cur |-> nf[1], nofile_max |-> nf[2]]
AtNoProc == [AtProcRec(<<0, 0, 0>>, <<0, 0>>, <<0, 0>>) EXCEPT !.alive = FALSE]
AtThrRec(p, g, caps) ==
    [alive |-> TRUE, proc |-> p, gid |-> g, egid |-> g, sgid |-> g, fsuid |-> 0, fsgid |-> g, groups |-> {},
     effective |-> caps, permitted |-> caps, inheritable |-> {}, nice |-> 0, policy |-> "OTHER", priority |-> 0,
     reset |-> FALSE, mask |-> {0, 1}, queue |-> <<"Normal", 0>>]
AtNoThr == [AtThrRec(1, 0, {}) EXCEPT !.alive = FALSE]
Ids(op, ids) == [op |-> op, ids |-> ids]
AtLimit(p, nofile, new, fault) == [op |-> "prlimit", pid |-> p, nofile |-> nofile, new |-> new, fault |-> fault]
AtSched(t, pol, prio, reset) == [op |-> "setscheduler", tid |-> t, policy |-> pol, priority |-> prio, reset |-> reset]
AtParam(t, prio) == [op |-> "setparam", tid |-> t, priority |-> prio]
AtAttr(t, pol, prio, nice) == [op |-> "setattr", tid |-> t, policy |-> pol, priority |-> prio, nice |-> nice, reset |-> FALSE]
AtNice(who, nice) == [op |-> "setpriority", who |-> who, nice |-> nice]
AtClone(t, p) == [op |-> "clone", tid |-> t, pid |-> p]
AtCaps(e, p, i) == [op |-> "capset", effective |-> e, permitted |-> p, inheritable |-> i]
AtGroups(g, f) == [op |-> "setgroups", groups |-> g, fault |-> f]
AtMask(t, m) == [op |-> "setaffinity", tid |-> t, mask |-> m]
AtScene(proc, thr, reset, prog) ==
    [proc |-> proc @@ [p \in AtProcs |-> AtNoProc], thr |-> thr @@ [t \in AtThreads |-> AtNoThr],
     online |-> {0, 1}, reset |-> reset, prog |-> prog @@ [t \in AtThreads |-> <<>>]]
RootProc == AtProcRec(<<0, 0, 0>>, <<2, 3>>, <<2, 3>>)
UserProc == AtProcRec(<<1, 1, 2>>, <<1, 2>>, <<1, 2>>)
\* ids of two threads of a root process, and of an unprivileged one
AtRoot == AtScene(1 :> RootProc, 1 :> AtThrRec(1, 0, CAPS) @@ 2 :> AtThrRec(1, 0, CAPS), {},
    1 :> <<Ids("setresuid", <<1, 1, 0>>), Ids("setuid", <<0>>), AtGroups({1}, FALSE), Ids("setreuid", <<1, 1>>)>> @@
    2 :> <<AtGroups({1}, TRUE), AtCaps({"NICE"}, CAPS, {}), Ids("setgid", <<1>>), Ids("setregid", <<KEEP, 0>>), Ids("setfsgid", <<1>>)>>)
AtUser == AtScene(1 :> UserProc, 1 :> AtThrRec(1, 1, {}) @@ 2 :> AtThrRec(1, 1, {}), {},
    1 :> <<Ids("setreuid", <<2, KEEP>>), Ids("setuid", <<0>>), Ids("setresuid", <<2, KEEP, 1>>), AtLimit(1, TRUE, <<1, 3>>, FALSE)>> @@
    2 :> <<Ids("setresuid", <<KEEP, 2, 0>>), Ids("setuid", <<2>>), Ids("setfsuid", <<1>>), Ids("setresgid", <<1, 2, 1>>), AtCaps({}, {}, {"NICE"})>>)
AtLimits == AtScene(1 :> UserProc @@ 2 :> RootProc, 1 :> AtThrRec(1, 1, {}) @@ 2 :> AtThrRec(1, 1, {}) @@ 3 :> AtThrRec(2, 0, CAPS), {},
    1 :> <<AtLimit(1, FALSE, <<1, 1>>, FALSE), AtLimit(1, FALSE, <<2, 3>>, FALSE), AtSched(1, "RR", 2, FALSE)>> @@
    2 :> <<AtLimit(1, FALSE, <<2, 2>>, TRUE), AtLimit(1, FALSE, <<0, 1>>, FALSE), AtSched(1, "FIFO", 1, FALSE)>> @@
    3 :> <<AtLimit(2, TRUE, <<3, 2>>, FALSE), AtLimit(2, TRUE, <<1, 2>>, FALSE)>>)
\* two root threads change one task; clones of it
AtQueues == AtScene(1 :> RootProc, 1 :> AtThrRec(1, 0, CAPS) @@ 2 :> AtThrRec(1, 0, CAPS), {},
    1 :> <<AtSched(2, "RR", 2, FALSE), AtAttr(1, "BATCH", 0, 1), AtMask(2, {5})>> @@
    2 :> <<AtSched(2, "FIFO", 3, FALSE), AtNice({1}, -1), AtParam(2, 1), AtMask(1, {1, 5})>>)
AtForks == AtScene(1 :> RootProc @@ 3 :> UserProc, 1 :> AtThrRec(1, 0, CAPS) @@ 4 :> AtThrRec(3, 1, {}), {2, 3},
    1 :> <<AtSched(1, "RR", 2, TRUE), AtNice({1, 3}, -1), AtClone(2, 2), AtClone(3, 1)>> @@
    4 :> <<AtNice({1, 3}, 1), AtNice({3}, 1), AtNice({3}, -1), AtNice({2}, 1), AtSched(1, "OTHER", 0, FALSE)>>)
AtMain == {AtRoot, AtUser, AtLimits, AtQueues, AtForks}
\* Outside the run, LimitsOrdered fails: two changes of the limit of descriptors at once, or one
\* that raises it.
AtTwoLimits == {AtScene(1 :> RootProc, 1 :> AtThrRec(1, 0, CAPS) @@ 2 :> AtThrRec(1, 0, CAPS), {},
    1 :> <<AtLimit(1, TRUE, <<3, 3>>, FALSE)>> @@ 2 :> <<AtLimit(1, TRUE, <<1, 1>>, FALSE)>>)}
\* Outside the run, HardLimitFalls fails: two threads lower one limit at once.
AtTwoUsers == {AtScene(1 :> UserProc, 1 :> AtThrRec(1, 1, {}) @@ 2 :> AtThrRec(1, 1, {}), {},
    1 :> <<AtLimit(1, FALSE, <<1, 1>>, FALSE)>> @@ 2 :> <<AtLimit(1, FALSE, <<0, 2>>, FALSE)>>)}
\* Outside the run, PolicyHasPriority fails: setscheduler() and setparam() of one task at once.
AtTwoPolicies == {AtScene(1 :> RootProc, 1 :> AtThrRec(1, 0, CAPS) @@ 2 :> AtThrRec(1, 0, CAPS), {},
    1 :> <<AtSched(2, "RR", 2, FALSE)>> @@ 2 :> <<AtParam(2, 0)>>)}

-----------------------------------------------------------------------------
(* ReadyQueues *)
CONSTANTS q1, q2, q3

\* q1 and q2 are threads of one process.
MCTgid == [t \in RqTasks |-> IF t = q3 THEN 2 ELSE 1]

-----------------------------------------------------------------------------
(* Timers *)
TmSc(a, b, ha, hb, now, end) == [prog |-> <<a, b>>, home |-> <<ha, hb>>, now |-> now, end |-> end]
Nap(us) == [op |-> "nanosleep", us |-> us]
NapReal(us) == [op |-> "clock_nanosleep", clock |-> "real", us |-> us]
SetClock(us) == [op |-> "clock_settime", us |-> us]
TmKill(to) == [op |-> "kill", to |-> to]
Create(c, f) == [op |-> "timer_create", clock |-> c, notify |-> TRUE, fault |-> f]
Arm(id, us, every, abs, f) ==
    [op |-> "timer_settime", id |-> id, us |-> us, every |-> every, abs |-> abs, fault |-> f]
Delete(id) == [op |-> "timer_delete", id |-> id]
SetItimer(us, every) == [op |-> "setitimer", us |-> us, every |-> every, fault |-> us > 9]
TmExit == [op |-> "exit"]

\* Two sleepers on two harts; the second sleep may meet the first one's wake-up.
Sleepers == TmSc(<<Nap(1), Nap(2)>>, <<Nap(1)>>, "other", "boot", 0, 3)
\* The realtime clock is set while a task sleeps on it.
Stepped == TmSc(<<NapReal(4)>>, <<SetClock(6), SetClock(1)>>, "other", "other", 1, 6)
\* Timers of a process that exits while they expire.
Owners == TmSc(<<Create("mono", FALSE), Arm(1, 1, 2, FALSE, FALSE), TmExit, Arm(1, 1, 0, FALSE, FALSE),
                 Create("real", FALSE), Arm(2, 4, 0, TRUE, FALSE), Delete(2)>>, <<>>, "other", "boot", 0, 5)
Faults == TmSc(<<Create("mono", TRUE), Create("mono", FALSE), Arm(2, 1, 0, FALSE, TRUE),
                 Arm(2, 1, 0, FALSE, FALSE), TmExit, Create("mono", FALSE)>>, <<Nap(2), TmKill(1)>>, "other", "boot", 0, 4)
\* A process of the boot hart sets its interval timer and sets it again.
Intervals == TmSc(<<SetItimer(1, 2), SetItimer(10, 0), Nap(4), SetItimer(0, 0), SetItimer(3, 1)>>, <<>>,
                  "boot", "other", 1, 7)
\* A process exits with its interval timer armed; its number is given away.
Reborn == TmSc(<<SetItimer(1, 2), TmExit>>, <<Nap(1)>>, "other", "other", 0, 5)
TmMain == {Sleepers, Stepped, Owners, Faults, Intervals, Reborn}

\* Outside the run, TmSignalEndsSleep fails: the signal comes between the last look and Blocked.
TmSignalRace == {TmSc(<<Nap(4)>>, <<TmKill(1)>>, "other", "boot", 0, 5)}
\* Outside the run, TmNoDrift fails: a periodic timer is looked at late.
TmPeriodic == {TmSc(<<Create("mono", FALSE), Arm(1, 1, 3, FALSE, FALSE)>>, <<>>, "other", "boot", 0, 5)}
\* Outside the run, TmPeriodicRuns fails: setitimer() replaces a timer that the service hart is
\* firing, or a process arms one whose number the service hart found unused.
TmItimerRace == {TmSc(<<SetItimer(1, 0), SetItimer(2, 2)>>, <<>>, "other", "boot", 0, 5)}
TmReused == {TmSc(<<SetItimer(1, 2), TmExit, SetItimer(2, 2)>>, <<>>, "other", "boot", 0, 5)}

-----------------------------------------------------------------------------
(* CpuClock *)
OnceEach == <<1, 1>>

-----------------------------------------------------------------------------
CONSTANT ProcessParts     \* the components this run is about
VARIABLE part       \* the one this behaviour is about
processVars == <<part, cxVars, imgVars, tpVars, sgVars, cnVars, jcVars, atVars, rqVars, tmVars, ckVars>>

CxFirst == CHOOSE s \in CxScenarios : TRUE
ImgFirst == CHOOSE s \in ImgInputs : TRUE
TpFirst == CHOOSE s \in TpScenarios : TRUE
SgFirst == CHOOSE s \in SgScenarios : TRUE
CnFirst == CHOOSE s \in CnScenarios : TRUE
JcFirst == CHOOSE s \in JcScenarios : TRUE
AtFirst == CHOOSE s \in AtScenarios : TRUE
TmFirst == CHOOSE s \in TmScenarios : TRUE
ProcessInit ==
    /\ part \in ProcessParts
    /\ CxInit /\ (part # "clone" => cxSc = CxFirst)
    /\ IF part = "image" THEN ImgInit ELSE ImgStart(ImgFirst)
    /\ IF part = "traps" THEN TpInit ELSE TpStart(TpFirst)
    /\ SgInit /\ (part # "signals" => sgSc = SgFirst)
    /\ CnInit /\ (part # "console" => cnSc = CnFirst)
    /\ JcInit /\ (part # "jobs" => jcSc = JcFirst)
    /\ AtInit /\ (part # "attributes" => atSc = AtFirst)
    /\ RqInit
    /\ TmInit /\ (part # "timers" => tmSc = TmFirst)
    /\ CkInit
ProcessNext ==
    \/ part = "clone" /\ CxNext /\ UNCHANGED <<part, imgVars, tpVars, sgVars, cnVars, jcVars, atVars, rqVars, tmVars, ckVars>>
    \/ part = "image" /\ ImgNext /\ UNCHANGED <<part, cxVars, tpVars, sgVars, cnVars, jcVars, atVars, rqVars, tmVars, ckVars>>
    \/ part = "traps" /\ TpNext /\ UNCHANGED <<part, cxVars, imgVars, sgVars, cnVars, jcVars, atVars, rqVars, tmVars, ckVars>>
    \/ part = "signals" /\ SgNext /\ UNCHANGED <<part, cxVars, imgVars, tpVars, cnVars, jcVars, atVars, rqVars, tmVars, ckVars>>
    \/ part = "console" /\ CnNext /\ UNCHANGED <<part, cxVars, imgVars, tpVars, sgVars, jcVars, atVars, rqVars, tmVars, ckVars>>
    \/ part = "jobs" /\ JcNext /\ UNCHANGED <<part, cxVars, imgVars, tpVars, sgVars, cnVars, atVars, rqVars, tmVars, ckVars>>
    \/ part = "attributes" /\ AtNext /\ UNCHANGED <<part, cxVars, imgVars, tpVars, sgVars, cnVars, jcVars, rqVars, tmVars, ckVars>>
    \/ part = "queues" /\ RqNext /\ UNCHANGED <<part, cxVars, imgVars, tpVars, sgVars, cnVars, jcVars, atVars, tmVars, ckVars>>
    \/ part = "timers" /\ TmNext /\ UNCHANGED <<part, cxVars, imgVars, tpVars, sgVars, cnVars, jcVars, atVars, rqVars, ckVars>>
    \/ part = "clock" /\ CkNext /\ UNCHANGED <<part, cxVars, imgVars, tpVars, sgVars, cnVars, jcVars, atVars, rqVars, tmVars>>
ProcessSpec == ProcessInit /\ [][ProcessNext]_processVars

-----------------------------------------------------------------------------
(* What the run checks: the properties of each component in the behaviours that are about
   it. In the others it stays in a state that some behaviour about it starts from. *)

\* A program is started whole: an exec that fails leaves the old one whole, a clone that
\* fails before the child is entered leaves no trace of it, whoever waits for a vfork child or
\* for a robust lock is released, and the image is the one the ELF file describes. Left out:
\* bad addresses for the child's number, and threads other than the leader that exec with a
\* robust lock or in a vfork child.
ProgramsStart ==
    /\ part = "clone" =>
           /\ CxTypeOK /\ NoHalfChild /\ FailedExecKeepsImage /\ ExecLeavesOne /\ VforkHolds
           /\ VforkReleases /\ RobustReleased
    /\ part = "image" =>
           /\ ImgTypeOK /\ InterpFollowed /\ SegmentBytes /\ ImageApart /\ StackLayout

\* Faults, illegal instructions, unaligned accesses and interrupted calls of user code are
\* served as the hardware or the caller expects, or end the process; the copies are exact.
\* Left out: mappings that change under an emulated access or a futex word, causes the
\* dispatcher does not know, illegal instructions of LoongArch threads, faults whose signal is
\* blocked or ignored, and timeouts that are set while a call begins.
TrapsContained ==
    /\ part = "traps" =>
           /\ TpTypeOK /\ NoKernelPanic /\ EmulatedLikeHardware /\ UserCopyExact
           /\ RestartKeepsArgument /\ TimedNotRestarted /\ FutexWordRead
           /\ FaultNotRepeated /\ FatalTrapEndsProcess

\* Every signal is taken once by one taker, and leaves mask, stack and quota as they were; no
\* thread sleeps for ever beside one it can take. Left out: signals that are ignored before
\* others, process signals whose thread blocks them late, two sigtimedwait() for one signal,
\* nested handlers on the alternate stack, and SIGCONT during sigsuspend().
SignalsServed ==
    /\ part = "signals" =>
           /\ SgTypeOK /\ SgQuotaExact /\ SgTakenOnce /\ SgNextSignalWakes
           /\ SgWaiterServed /\ SgHandlersNest /\ SgMaskRestored

\* The terminal hands out lines whole and in order without a panic, and sessions, groups and
\* the terminal they own stay consistent while members come and go. Left out: two readers of
\* the console, the interrupt key during a read, and a change of mode that keeps the queue.
TerminalOrdered ==
    /\ part = "console" =>
           /\ CnTypeOK /\ CnInOrder /\ CnZeroMeansEof /\ CnOneLine
           /\ CnRecordsHold /\ CnSignalEndsRead
    /\ part = "jobs" =>
           /\ JcTypeOK /\ OrphansTold /\ GroupInOneSession /\ ConsoleOwnerLives

\* Credentials, limits and scheduling attributes change only as permitted and agree with each
\* other, a call that fails changes nothing, and a ready task is queued under the class it has.
\* Left out: two calls at once on one limit, or on one policy, and a raise of RLIMIT_NOFILE.
AttributesKept ==
    /\ part = "attributes" =>
           /\ AtTypeOK /\ UnprivilegedKept /\ HardLimitFalls /\ LimitsOrdered
           /\ PolicyHasPriority /\ QueueClassAgrees /\ ErrorChangesNothing

\* No sleep ends early or is forgotten, a signal ends it, timers belong to their process, go on
\* and keep their phase, and CPU time is conserved. Left out: a signal from another hart just
\* before the sleep, a periodic POSIX timer looked at late, and setitimer() of a timer that is
\* firing.
ClocksServe ==
    /\ part = "timers" =>
           /\ TmTypeOK /\ TmSleepNotEarly /\ TmSleeperReachable /\ TmArmed
           /\ TmTimerOwner /\ TmTimerKnown /\ TmPeriodicRuns
           /\ TmSignalEndsSleep /\ TmNoDrift
    /\ part = "clock" =>
           /\ CkTypeOK /\ CkConserved

=============================================================================
