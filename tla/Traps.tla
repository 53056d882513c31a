-------------------------------- MODULE Traps -------------------------------
(***************************************************************************)
(* How the kernel enters and leaves user code and touches user memory:     *)
(* the trap dispatchers of both architectures (arch/*/trap/mod.rs), the    *)
(* emulation of unaligned accesses on LoongArch, the choice of the calls   *)
(* that are restarted (syscall/mod.rs), and the copies between user and    *)
(* kernel memory (mm/mod.rs).                                              *)
(*                                                                         *)
(* The threads of one process run the programs of a scenario.  A step of a *)
(* program is an instruction that traps, or a call that copies.  Registers *)
(* hold eight bytes, memory is a function from addresses to bytes; pages   *)
(* from KERNEL_PAGE on belong to the kernel and are always mapped.  What   *)
(* the timers and the scheduler do in a trap is in Clocks and Handoff, the *)
(* clocks a trap switches are in Clocks.                                   *)
(***************************************************************************)
EXTENDS Integers, Sequences, SequencesExt, FiniteSets, FiniteSetsExt, TLC

CONSTANTS
    TpThreads,
    TP_PAGE, TpLastPage, KERNEL_PAGE,
    CSTR_CHUNK, USER_CSTR_MAX_LEN,
    USER_ARG_STR_MAX_LEN, USER_ARG_MAX_COUNT, USER_ARG_MAX_BYTES,
    TpScenarios

VARIABLES tpSc, tp, tt
tpVars == <<tpSc, tp, tt>>

TpPages == 0 .. TpLastPage
TRAMPOLINE == KERNEL_PAGE * TP_PAGE
PageOf(a) == a \div TP_PAGE
PagesOf(a, n) == IF n = 0 THEN {} ELSE PageOf(a) .. PageOf(a + n - 1)
Zero8 == <<0, 0, 0, 0, 0, 0, 0, 0>>
SIGILL == 4
SIGBUS == 7
SIGUSR == 10
SIGSEGV == 11
Synchronous == {SIGILL, SIGBUS, SIGSEGV}

NoJob == [kind |-> "none"]
NoEnd == [res |-> "none", x |-> Zero8, mem |-> <<>>, out |-> <<>>]
\* k, a0: the program counter and the first argument or result; frames: the
\* contexts saved on the user stack; after, ref: what the last access left
\* and what it had to leave; quiet: no one else changed the mappings since
\* it began; restarted: the calls that were put back and had a timeout.
TpThread(t) == [pc |-> "user", k |-> 1, a0 |-> 0, x |-> tpSc.x, mask |-> tpSc.mask[t], pend |-> {},
                frames |-> <<>>, faults |-> 0, job |-> NoJob, after |-> NoEnd, ref |-> NoEnd,
                quiet |-> TRUE, restarted |-> FALSE]

TpStart(s) ==
    /\ tpSc = s
    /\ tp = [perm |-> tpSc.perm, pte |-> tpSc.pte, cow |-> {}, io |-> tpSc.io, mem |-> tpSc.mem,
             sock |-> tpSc.sock, panic |-> FALSE, died |-> 0]
    /\ tt = [t \in TpThreads |-> TpThread(t)]
TpInit == \E s \in TpScenarios : TpStart(s)

Runs(t) == tt[t].pc = "user" /\ tt[t].k <= Len(tpSc.prog[t]) /\ tp.died = 0 /\ ~ tp.panic
Ins(t) == tpSc.prog[t][tt[t].k]
Doing(t, kind) == tt[t].pc = "kernel" /\ tt[t].job.kind = kind /\ tp.died = 0 /\ ~ tp.panic
La == tpSc.arch = "la"

-----------------------------------------------------------------------------
(* Signals on the way back to the user.                                    *)

Deliverable(r) == r.pend \ r.mask
Live(s) == tpSc.act[s] # "ign"
\* handle_signal(): the first signal is taken, and no other at this return.
\* An ignored one is only consumed; another ends the process or runs its
\* handler.  A call that may be restarted is put back first, with the
\* argument it was called with.
signal_frame(r, restart, arg0) ==
    LET s == Min(Deliverable(r))
        left == r.pend \ {s}
        again == restart /\ tpSc.act[s] = "restart" IN
    IF Deliverable(r) = {} THEN [r |-> [r EXCEPT !.pc = "user", !.job = NoJob], died |-> 0]
    ELSE IF ~ Live(s) THEN [r |-> [r EXCEPT !.pend = left, !.pc = "user", !.job = NoJob], died |-> 0]
    ELSE IF tpSc.act[s] = "dfl" THEN [r |-> [r EXCEPT !.pend = left, !.pc = "gone"], died |-> s]
    ELSE [r |-> [r EXCEPT !.pend = left, !.pc = "handler", !.mask = @ \cup {s}, !.faults = 0, !.job = NoJob,
                          !.restarted = @ \/ (again /\ r.job.timed),
                          !.frames = Append(@, [k |-> IF again THEN r.k - 1 ELSE r.k,
                                                a0 |-> IF again THEN arg0 ELSE r.a0, mask |-> r.mask, sig |-> s])],
          died |-> 0]

\* The end of trap_handler(): r is the thread as the trap left it, m the
\* memory; every trap that goes back to the user delivers signals.
TrapEnds(t, r, m, restart, arg0) ==
    LET d == signal_frame(r, restart, arg0) IN
    /\ tt' = [tt EXCEPT ![t] = d.r]
    /\ tp' = [m EXCEPT !.died = d.died]
    /\ UNCHANGED tpSc

\* exit_and_run_next(): the thread alone exits.
exit_and_run_next(t) ==
    /\ tt' = [tt EXCEPT ![t].pc = "gone"]
    /\ UNCHANGED <<tpSc, tp>>
\* exit_by_signal_and_run_next(): the process ends.
exit_by_signal(t, s) ==
    /\ tt' = [tt EXCEPT ![t].pc = "gone"]
    /\ tp' = [tp EXCEPT !.died = s]
    /\ UNCHANGED tpSc

\* Another process sends a signal to the thread.
Send(t) ==
    /\ \E s \in tpSc.sends[t] : s \notin tt[t].pend /\ tt' = [tt EXCEPT ![t].pend = @ \cup {s}]
    /\ tt[t].pc # "gone" /\ tp.died = 0 /\ ~ tp.panic
    /\ UNCHANGED <<tpSc, tp>>

-----------------------------------------------------------------------------
(* Page faults.                                                            *)

Need == [Instruction |-> "x", Load |-> "r", Store |-> "w"]
mapped_rights(m, p, cow) == IF p \in cow THEN m.perm[p] \ {"w"} ELSE m.perm[p]
\* handle_page_fault(): the mapping must allow the access; a page that is
\* not there is loaded, which may fail with EIO, a page shared by a fork is
\* copied before a store.
handle_page_fault(m, p, cause) ==
    IF Need[cause] \notin m.perm[p] THEN [err |-> "EFAULT", m |-> m]
    ELSE IF m.pte[p] = {} /\ p \in m.io THEN [err |-> "EIO", m |-> m]
    ELSE LET cow == IF cause = "Store" THEN m.cow \ {p} ELSE m.cow IN
         [err |-> "ok",
          m |-> [m EXCEPT !.cow = cow, !.pte[p] = mapped_rights(m, p, cow)]]
\* The same for the pages of a range in turn, up to the first that fails.
handle_page_faults(m, ps, cause) ==
    FoldLeft(LAMBDA r, p : IF r.err = "ok" THEN handle_page_fault(r.m, p, cause) ELSE r,
             [err |-> "ok", m |-> m], SetToSortSeq(ps, <))

FaultSignal(err) == IF err \in {"EIO", "ENOSPC"} THEN SIGBUS ELSE SIGSEGV
Failed(r, s) == [r EXCEPT !.pend = @ \cup {s}, !.faults = @ + 1]

forced(t, s) == s \in tt[t].mask
\* handle_user_page_fault() of LoongArch: a fault whose signal is blocked
\* ends the process at once.
handle_user_page_fault(t, f) ==
    LET s == FaultSignal(f.err) IN
    IF f.err # "ok" /\ forced(t, s) THEN exit_by_signal(t, s)
    ELSE TrapEnds(t, IF f.err = "ok" THEN tt[t] ELSE Failed(tt[t], s), f.m, FALSE, 0)
\* The page-fault arm of trap_handler() of RISC-V only queues the signal.
page_fault_arm(t, f) ==
    TrapEnds(t, IF f.err = "ok" THEN tt[t] ELSE Failed(tt[t], FaultSignal(f.err)), f.m, FALSE, 0)

\* An access of user code: the hardware does it, or it traps.
Touch(t) ==
    /\ Runs(t) /\ Ins(t).op = "touch" /\ tt[t].faults < 3
    /\ LET i == Ins(t)
           f == handle_page_fault(tp, PageOf(i.a), i.cause) IN
       IF Need[i.cause] \in tp.pte[PageOf(i.a)]
       THEN tt' = [tt EXCEPT ![t].k = @ + 1] /\ UNCHANGED <<tpSc, tp>>
       ELSE IF La THEN handle_user_page_fault(t, f) ELSE page_fault_arm(t, f)

\* An illegal instruction: RISC-V sends SIGILL, LoongArch ends the thread.
illegal_ends_thread(t) == La
IllegalInstruction(t) ==
    /\ Runs(t) /\ Ins(t).op = "illegal"
    /\ IF illegal_ends_thread(t) THEN exit_and_run_next(t)
       ELSE TrapEnds(t, Failed(tt[t], SIGILL), tp, FALSE, 0)
Breakpoint(t) ==
    /\ Runs(t) /\ Ins(t).op = "break"
    /\ exit_and_run_next(t)

\* trap_from_kernel(): an access that is not emulated and a page fault in
\* kernel mode stop the machine; so does a trap of user code that
\* trap_handler() has no arm for.
KernelFault == tp' = [tp EXCEPT !.panic = TRUE] /\ UNCHANGED <<tpSc, tt>>

\* What interrupts user code without a fault of its own: a timer tick or an
\* IPI, on LoongArch also an interrupt without a source.  Any other cause is
\* one the kernel does not serve.
Interrupted(t) ==
    /\ Runs(t) /\ (Ins(t).op = "other" \/ Deliverable(tt[t]) # {})
    /\ IF Ins(t).op = "other" THEN KernelFault ELSE TrapEnds(t, tt[t], tp, FALSE, 0)

-----------------------------------------------------------------------------
(* Unaligned accesses on LoongArch.                                        *)

Field(w, lo, n) == (w \div 2^lo) % 2^n
Signed(v, bits) == IF v >= 2^(bits - 1) THEN v - 2^bits ELSE v
NotEmulated == [ok |-> FALSE]
Accesses(a, size, store, signed, sc, rd) ==
    [ok |-> TRUE, a |-> a, size |-> size, store |-> store, signed |-> signed, sc |-> sc, rd |-> rd]
\* ld and st with a 12-bit displacement, and with an index register: eleven
\* opcodes in the same order, b h w d, stores, and the unsigned loads.
by_order(n, a, rd) == Accesses(a, 2^(n % 4), n \in 4 .. 7, n \in 0 .. 2, FALSE, rd)

emulate_2ri12(w, base) ==
    LET n == Field(w, 22, 10) - 160 IN by_order(n, base + Signed(Field(w, 10, 12), 12), w % 32)
emulate_3r(w, base, index) ==
    LET n == Field(w, 15, 17) - 28672 IN
    IF n % 8 # 0 THEN NotEmulated ELSE by_order(n \div 8, base + index, w % 32)
\* ll, sc, ldptr, stptr: the displacement counts words.
si14(w) == 4 * Signed(Field(w, 10, 14), 14)
emulate_2ri14(w, base) ==
    LET n == Field(w, 24, 8) - 32 IN
    Accesses(base + si14(w), IF n % 4 < 2 THEN 4 ELSE 8,
             n % 2 = 1, n % 4 < 2, n \in {1, 3}, w % 32)
\* emulate_unaligned_access(): the three groups it decodes.
decoded(w, base, index) ==
    IF Field(w, 22, 10) \in 160 .. 170 THEN emulate_2ri12(w, base)
    ELSE IF Field(w, 15, 17) \in 28672 .. 28752 THEN emulate_3r(w, base, index)
    ELSE IF Field(w, 24, 8) \in 32 .. 39 THEN emulate_2ri14(w, base)
    ELSE NotEmulated

\* fault_in_emulated_access(): every page of the access; kernel addresses
\* are always mapped.
fault_in_pages(m, a, n) == IF PageOf(a) >= KERNEL_PAGE THEN {} ELSE PagesOf(a, n)

Register(r, rd) == IF rd = 0 THEN Zero8 ELSE r.x
\* Loads put the bytes in a register, with the sign of the last one or with
\* zeros above them; register 0 stays zero.
Loaded(r, d, bytes) ==
    LET fill == IF d.signed /\ bytes[d.size] >= 128 THEN 255 ELSE 0 IN
    IF d.rd = 0 THEN r.x ELSE [i \in 1 .. 8 |-> IF i <= d.size THEN bytes[i] ELSE fill]

\* What the instruction does where the hardware can do it.
Hardware(i, r, m) ==
    LET a == IF i.ins.form = "3R" THEN i.base + i.index ELSE i.base + i.imm
        n == i.ins.size
        got == [j \in 1 .. n |-> m.mem[a + j - 1]]
        fill == IF i.ins.signed /\ got[n] >= 128 THEN 255 ELSE 0
        one == <<1, 0, 0, 0, 0, 0, 0, 0>>
        src == IF i.rd = 0 THEN Zero8 ELSE r.x IN
    [res |-> "ok", out |-> <<>>,
     x |-> IF i.rd = 0 \/ (i.ins.store /\ ~ i.ins.sc) THEN r.x
           ELSE IF i.ins.store THEN one
           ELSE [j \in 1 .. 8 |-> IF j <= n THEN got[j] ELSE fill],
     mem |-> IF i.ins.store THEN [b \in DOMAIN m.mem |-> IF b \in a .. a + n - 1 THEN src[b - a + 1] ELSE m.mem[b]]
             ELSE m.mem]

\* The word the assembler makes of an instruction: external.
Word(i) ==
    LET regs == 64 + i.rd IN
    CASE i.ins.form = "2RI12" -> i.ins.code * 2^22 + (i.imm % 4096) * 2^10 + regs
      [] i.ins.form = "3R" -> i.ins.code * 2^15 + 3 * 2^10 + regs
      [] i.ins.form = "2RI14" -> i.ins.code * 2^24 + ((i.imm \div 4) % 16384) * 2^10 + regs

\* Decoding and the faults, under the lock of the address space.  What is
\* not emulated ends a user process with SIGBUS and stops the kernel.
Unaligned(t) ==
    /\ Runs(t) /\ Ins(t).op = "mem"
    /\ LET i == Ins(t)
           d == decoded(Word(i), i.base, i.index)
           cause == IF d.store THEN "Store" ELSE "Load"
           f == IF d.ok THEN handle_page_faults(tp, fault_in_pages(tp, d.a, d.size), cause)
                ELSE [err |-> "EINVAL", m |-> tp] IN
       IF f.err # "ok"
       THEN IF i.kernel THEN KernelFault
            ELSE exit_by_signal(t, SIGBUS)
       ELSE /\ tp' = f.m
            /\ tt' = [tt EXCEPT ![t].pc = "kernel", ![t].ref = Hardware(i, tt[t], tp), ![t].quiet = TRUE,
                                ![t].job = [kind |-> "mem", d |-> d, bytes |-> <<>>]]
            /\ UNCHANGED tpSc

\* One byte, through the user's address and without the lock: a page that
\* went away or became read-only stops the kernel.
AccessByte(t) ==
    /\ Doing(t, "mem")
    /\ LET d == tt[t].job.d
           n == Len(tt[t].job.bytes)
           a == d.a + n
           b == IF d.store THEN Register(tt[t], d.rd)[n + 1] ELSE tp.mem[a] IN
       /\ n < d.size
       /\ IF (IF d.store THEN "w" ELSE "r") \in tp.pte[PageOf(a)]
          THEN /\ tt' = [tt EXCEPT ![t].job.bytes = Append(@, b)]
               /\ tp' = IF d.store THEN [tp EXCEPT !.mem[a] = b] ELSE tp
               /\ UNCHANGED tpSc
          ELSE KernelFault

Emulated(t) ==
    /\ Doing(t, "mem") /\ Len(tt[t].job.bytes) = tt[t].job.d.size
    /\ LET d == tt[t].job.d
           x == IF ~ d.store THEN Loaded(tt[t], d, tt[t].job.bytes)
                ELSE IF d.sc /\ d.rd # 0 THEN <<1, 0, 0, 0, 0, 0, 0, 0>> ELSE tt[t].x IN
       TrapEnds(t, [tt[t] EXCEPT !.x = x, !.k = @ + 1,
                                 !.after = [res |-> "ok", out |-> <<>>, x |-> x, mem |-> tp.mem]], tp, FALSE, 0)

-----------------------------------------------------------------------------
(* System calls that wait, and their restart.                              *)

TimedSocket(fd) == tp.sock[fd] = "timed"
NotSocket(fd) == tp.sock[fd] = "none"
futex_restarts(i) == ~ i.timeout
\* is_restartable_syscall(): asked before the call.
is_restartable_syscall(i) ==
    CASE i.id = "futex" -> futex_restarts(i)
      [] i.id \in {"read", "write"} -> NotSocket(i.fd) \/ ~ TimedSocket(i.fd)
      [] i.id \in {"recv", "send", "accept", "connect", "recvmmsg"} -> ~ NotSocket(i.fd) /\ ~ TimedSocket(i.fd)
      [] OTHER -> i.id = "wait4"
\* Whether the wait of the call has a limit, as the call finds it.
TimedWait(i) == IF i.id \in {"futex", "nanosleep", "wait4"} THEN i.timeout ELSE TimedSocket(i.fd)

\* The call is entered: the program counter is past it already.
Syscall(t) ==
    /\ Runs(t) /\ Ins(t).op = "call"
    /\ tt' = [tt EXCEPT ![t].pc = "kernel", ![t].k = @ + 1,
                        ![t].job = [kind |-> "call", ins |-> Ins(t), arg0 |-> tt[t].a0,
                                    restart |-> is_restartable_syscall(Ins(t)), waits |-> FALSE, timed |-> FALSE]]
    /\ UNCHANGED <<tpSc, tp>>
CallWaits(t) ==
    /\ Doing(t, "call") /\ ~ tt[t].job.waits
    /\ tt' = [tt EXCEPT ![t].job.waits = TRUE, ![t].job.timed = TimedWait(tt[t].job.ins)]
    /\ UNCHANGED <<tpSc, tp>>
\* It ends, or a signal interrupts it: a0 is the result.
CallEnds(t) ==
    /\ Doing(t, "call") /\ tt[t].job.waits
    /\ LET j == tt[t].job
           live == {s \in Deliverable(tt[t]) : Live(s)} IN
       \/ TrapEnds(t, [tt[t] EXCEPT !.a0 = 0], tp, FALSE, 0)
       \/ live # {} /\ TrapEnds(t, [tt[t] EXCEPT !.a0 = -4], tp, j.restart, j.arg0)
\* The program loads the argument of its next call.
LoadArgument(t) ==
    /\ Runs(t) /\ Ins(t).op = "arg"
    /\ tt' = [tt EXCEPT ![t].a0 = Ins(t).v, ![t].k = @ + 1]
    /\ UNCHANGED <<tpSc, tp>>

\* handle_user_syscall(): after sigreturn a0 is the saved one.
sigreturn_a0(f) == f.a0
\* The handler of a synchronous signal leaves the instruction behind, any
\* other returns to it.
HandlerReturns(t) ==
    /\ tt[t].pc = "handler" /\ tp.died = 0 /\ ~ tp.panic
    /\ LET f == Last(tt[t].frames) IN
       TrapEnds(t, [tt[t] EXCEPT !.k = IF f.sig \in Synchronous THEN f.k + 1 ELSE f.k,
                                 !.a0 = sigreturn_a0(f), !.mask = f.mask, !.frames = Front(@)], tp, FALSE, 0)

-----------------------------------------------------------------------------
(* Copies between user and kernel memory.                                  *)

\* checked_user_byte_range(), check_user_access_range() and
\* ensure_user_page_access(): what a copy of n bytes at a meets.
needs_fault(m, p, need) == need \notin m.pte[p]
user_range(m, a, n, cause) ==
    IF n = 0 THEN [err |-> "ok", m |-> m]
    ELSE IF a = 0 \/ a >= TRAMPOLINE \/ PageOf(a + n - 1) >= KERNEL_PAGE THEN [err |-> "EFAULT", m |-> m]
    ELSE IF \E p \in PagesOf(a, n) : Need[cause] \notin m.perm[p] THEN [err |-> "EFAULT", m |-> m]
    ELSE handle_page_faults(m, {p \in PagesOf(a, n) : needs_fault(m, p, Need[cause])}, cause)
Bytes(m, a, n) == [j \in 1 .. n |-> m.mem[a + j - 1]]
copy_from_user(m, a, n) ==
    LET f == user_range(m, a, n, "Load") IN
    [err |-> f.err, m |-> f.m, out |-> IF f.err = "ok" THEN Bytes(f.m, a, n) ELSE <<>>]

StoredAt(m, a, bytes) == [m EXCEPT !.mem = [b \in DOMAIN @ |-> IF b \in a .. a + Len(bytes) - 1 THEN bytes[b - a + 1] ELSE @[b]]]
\* mutant: the pages are made writable and written one after the other.
copy_page_by_page(m, a, bytes) ==
    LET n == Len(bytes)
        cut == (PageOf(a) + 1) * TP_PAGE - a
        f == user_range(m, a, IF cut < n THEN cut ELSE n, "Store") IN
    IF f.err # "ok" \/ cut >= n THEN [err |-> f.err, m |-> IF f.err = "ok" THEN StoredAt(f.m, a, bytes) ELSE f.m, out |-> <<>>]
    ELSE LET half == StoredAt(f.m, a, SubSeq(bytes, 1, cut))
             g == user_range(half, a + cut, n - cut, "Store") IN
         [err |-> g.err, m |-> IF g.err = "ok" THEN StoredAt(g.m, a, bytes) ELSE g.m, out |-> <<>>]
\* All of the range is made writable before the first byte is written.
user_copy_out(m, a, bytes) ==
    LET f == user_range(m, a, Len(bytes), "Store") IN
    [err |-> f.err, m |-> IF f.err = "ok" THEN StoredAt(f.m, a, bytes) ELSE f.m, out |-> <<>>]

\* Reference: byte by byte.
Forbidden(m, a, need) == a = 0 \/ PageOf(a) >= KERNEL_PAGE \/ need \notin m.perm[PageOf(a)]
Broken(m, a) == m.pte[PageOf(a)] = {} /\ PageOf(a) \in m.io
Unreadable(m, a) == IF Forbidden(m, a, "r") THEN "EFAULT" ELSE IF Broken(m, a) THEN "EIO" ELSE "ok"
RefString(m, a, max, long) ==
    LET ends == {i \in 0 .. max - 1 : Unreadable(m, a + i) # "ok" \/ m.mem[a + i] = 0} IN
    IF a = 0 THEN [err |-> "EFAULT", s |-> <<>>]
    ELSE IF ends = {} THEN [err |-> long, s |-> <<>>]
    ELSE LET e == Min(ends) IN
         IF Unreadable(m, a + e) # "ok" THEN [err |-> Unreadable(m, a + e), s |-> <<>>]
         ELSE [err |-> "ok", s |-> Bytes(m, a, e)]
RefStrings(m, slot) ==
    LET ptr(i) == m.mem[slot + i]
        str(i) == RefString(m, ptr(i), USER_ARG_STR_MAX_LEN, "E2BIG")
        stop(i) == CASE Unreadable(m, slot + i) # "ok" -> Unreadable(m, slot + i)
                     [] ptr(i) = 0 -> "ok"
                     [] i >= USER_ARG_MAX_COUNT -> "E2BIG"
                     [] str(i).err # "ok" -> str(i).err
                     [] FoldSet(LAMBDA j, n : n + Len(str(j).s) + 1, 0, 0 .. i) > USER_ARG_MAX_BYTES -> "E2BIG"
                     [] OTHER -> "next"
        n == Min({i \in 0 .. USER_ARG_MAX_COUNT : stop(i) # "next"}) IN
    [err |-> stop(n), s |-> IF stop(n) = "ok" THEN [i \in 1 .. n |-> str(i - 1).s] ELSE <<>>]

Finished(t, err, m, out) ==
    TrapEnds(t, [tt[t] EXCEPT !.a0 = 0, !.k = @ + 1,
                              !.after = [res |-> err, out |-> out, x |-> tt[t].x, mem |-> m.mem]], m, FALSE, 0)
Begins(t, job, err, out, mem) ==
    [tt EXCEPT ![t].pc = "kernel", ![t].job = job, ![t].quiet = TRUE,
               ![t].ref = [res |-> err, out |-> out, x |-> tt[t].x, mem |-> mem]]

\* A call that copies a value in or out.
CopyCall(t) ==
    /\ Runs(t) /\ Ins(t).op \in {"copyin", "copyout"}
    /\ LET i == Ins(t)
           out == i.op = "copyout"
           at == {i.a + j : j \in 0 .. i.n - 1}
           err == IF \E b \in at : Forbidden(tp, b, IF out THEN "w" ELSE "r") THEN "EFAULT"
                  ELSE IF \E b \in at : Broken(tp, b) THEN "EIO" ELSE "ok"
           new == [j \in 1 .. i.n |-> 9] IN
       /\ tt' = Begins(t, [kind |-> i.op, a |-> i.a, n |-> i.n, new |-> new], err,
                       IF err = "ok" /\ ~ out THEN Bytes(tp, i.a, i.n) ELSE <<>>,
                       IF err = "ok" /\ out THEN StoredAt(tp, i.a, new).mem ELSE tp.mem)
       /\ UNCHANGED <<tpSc, tp>>
CopyIn(t) ==
    /\ Doing(t, "copyin")
    /\ LET c == copy_from_user(tp, tt[t].job.a, tt[t].job.n) IN Finished(t, c.err, c.m, c.out)
CopyBack(t) ==
    /\ Doing(t, "copyout")
    /\ LET c == user_copy_out(tp, tt[t].job.a, tt[t].job.new) IN Finished(t, c.err, c.m, c.out)

\* copy_cstr_from_user() and extract_cstrings_from_user().
StringCall(t) ==
    /\ Runs(t) /\ Ins(t).op \in {"cstr", "argv"}
    /\ LET i == Ins(t)
           list == i.op = "argv"
           r == IF list THEN RefStrings(tp, i.a) ELSE RefString(tp, i.a, USER_CSTR_MAX_LEN, "ENAMETOOLONG") IN
       /\ tt' = Begins(t, [kind |-> "string", list |-> list, slot |-> i.a, cur |-> IF list THEN 0 ELSE i.a,
                           fetch |-> list, got |-> <<>>, strings |-> <<>>, total |-> 0], r.err, r.s, tp.mem)
       /\ UNCHANGED <<tpSc, tp>>

MaxLen(j) == IF j.list THEN USER_ARG_STR_MAX_LEN ELSE USER_CSTR_MAX_LEN
chunk_len(j) ==
    Min({TP_PAGE - ((j.cur + Len(j.got)) % TP_PAGE), MaxLen(j) - Len(j.got), CSTR_CHUNK})
count_reached(j) == Len(j.strings) >= USER_ARG_MAX_COUNT

\* The next pointer of the list: zero ends it.
FetchPointer(t) ==
    /\ Doing(t, "string") /\ tt[t].job.fetch
    /\ LET j == tt[t].job
           c == copy_from_user(tp, j.slot, 1) IN
       IF c.err # "ok" THEN Finished(t, c.err, c.m, <<>>)
       ELSE IF c.out[1] = 0 THEN Finished(t, "ok", c.m, j.strings)
       ELSE IF count_reached(j) THEN Finished(t, "E2BIG", c.m, <<>>)
       ELSE /\ tt' = [tt EXCEPT ![t].job = [@ EXCEPT !.fetch = FALSE, !.cur = c.out[1], !.got = <<>>]]
            /\ tp' = c.m /\ UNCHANGED tpSc
\* One chunk of a string; every chunk takes the lock again.
CopyChunk(t) ==
    /\ Doing(t, "string") /\ ~ tt[t].job.fetch
    /\ LET j == tt[t].job
           c == copy_from_user(tp, j.cur + Len(j.got), chunk_len(j))
           zeros == {i \in DOMAIN c.out : c.out[i] = 0}
           s == j.got \o (IF zeros = {} THEN c.out ELSE SubSeq(c.out, 1, Min(zeros) - 1))
           total == j.total + Len(s) + 1 IN
       IF j.cur = 0 THEN Finished(t, "EFAULT", tp, <<>>)
       ELSE IF c.err # "ok" THEN Finished(t, c.err, c.m, <<>>)
       ELSE IF zeros # {} /\ ~ j.list THEN Finished(t, "ok", c.m, s)
       ELSE IF zeros # {} /\ total > USER_ARG_MAX_BYTES THEN Finished(t, "E2BIG", c.m, <<>>)
       ELSE IF zeros = {} /\ Len(s) >= MaxLen(j) THEN Finished(t, IF j.list THEN "E2BIG" ELSE "ENAMETOOLONG", c.m, <<>>)
       ELSE /\ tt' = [tt EXCEPT ![t].job =
                        IF zeros = {} THEN [@ EXCEPT !.got = s]
                        ELSE [@ EXCEPT !.strings = Append(@, s), !.total = total, !.slot = @ + 1, !.fetch = TRUE]]
            /\ tp' = c.m /\ UNCHANGED tpSc

\* A futex wait reads its word twice: check_user_readable() brings the page
\* in, read_user_u32_nofault() reads it later with the queue locked.
FutexWord(t) ==
    /\ Runs(t) /\ Ins(t).op = "word"
    /\ LET c == user_range(tp, Ins(t).a, 1, "Load") IN
       IF c.err # "ok" THEN Finished(t, c.err, c.m, <<>>)
       ELSE /\ tt' = [tt EXCEPT ![t].pc = "kernel", ![t].job = [kind |-> "word", a |-> Ins(t).a]]
            /\ tp' = c.m /\ UNCHANGED tpSc
nofault_pte(m, p) == m.pte[p]
read_user_u32_nofault(t) ==
    /\ Doing(t, "word")
    /\ LET p == PageOf(tt[t].job.a)
           err == IF "r" \in tp.perm[p] /\ nofault_pte(tp, p) # {} THEN "ok"
                  ELSE IF "r" \in tp.perm[p] THEN "EFAULT_nonresident" ELSE "EFAULT" IN
       Finished(t, err, tp, <<>>)

-----------------------------------------------------------------------------
(* What other threads do to the mappings meanwhile, as AddressSpace has it. *)

Disturb(t, m) ==
    /\ tp' = m
    /\ tt' = [u \in TpThreads |-> IF u = t THEN [tt[t] EXCEPT !.k = @ + 1] ELSE [tt[u] EXCEPT !.quiet = FALSE]]
    /\ UNCHANGED tpSc
ChangeMappings(t) ==
    /\ Runs(t)
    /\ LET i == Ins(t) IN
       \/ i.op = "munmap" /\ Disturb(t, [tp EXCEPT !.perm[i.p] = {}, !.pte[i.p] = {}])
       \/ i.op = "mprotect" /\ Disturb(t, [tp EXCEPT !.perm[i.p] = i.perm, !.pte[i.p] = @ \cap i.perm])
       \/ i.op = "dontneed" /\ Disturb(t, [tp EXCEPT !.pte[i.p] = {}])
       \/ i.op = "fork" /\ Disturb(t, [tp EXCEPT !.cow = {p \in TpPages : "w" \in tp.pte[p] /\ p < KERNEL_PAGE},
                                                 !.pte = [p \in TpPages |-> IF p < KERNEL_PAGE THEN @[p] \ {"w"} ELSE @[p]]])
       \/ i.op = "timeout" /\ Disturb(t, [tp EXCEPT !.sock[i.fd] = "timed"])

TpNext ==
    \E t \in TpThreads :
        \/ Send(t) \/ Interrupted(t) \/ Touch(t) \/ IllegalInstruction(t) \/ Breakpoint(t)
        \/ Unaligned(t) \/ AccessByte(t) \/ Emulated(t)
        \/ LoadArgument(t) \/ Syscall(t) \/ CallWaits(t) \/ CallEnds(t) \/ HandlerReturns(t)
        \/ CopyCall(t) \/ CopyIn(t) \/ CopyBack(t)
        \/ StringCall(t) \/ FetchPointer(t) \/ CopyChunk(t)
        \/ FutexWord(t) \/ read_user_u32_nofault(t)
        \/ ChangeMappings(t)

TpSpec == TpInit /\ [][TpNext]_tpVars
-----------------------------------------------------------------------------
(* Type invariant: registers and memory hold bytes, a list of strings stays *)
(* within the number exec accepts while extract_cstrings_from_user() reads  *)
(* it, and no page table entry allows more than its mapping.                *)
TpTypeOK ==
    /\ \A a \in DOMAIN tp.mem : tp.mem[a] \in 0 .. 255
    /\ \A p \in TpPages : tp.pte[p] \subseteq tp.perm[p] /\ (p \in tp.cow => "w" \notin tp.pte[p])
    /\ \A t \in TpThreads :
          /\ tt[t].pc \in {"user", "kernel", "handler", "gone"}
          /\ tt[t].k \in 1 .. Len(tpSc.prog[t]) + 1
          /\ tt[t].x \in [1 .. 8 -> 0 .. 255]
          /\ tt[t].job.kind = "string" => Len(tt[t].job.strings) <= USER_ARG_MAX_COUNT

(* No access of emulate_unaligned_access() meets a page that is not mapped  *)
(* for it (a page fault in kernel mode stops the machine), and no trap of   *)
(* user code is one trap_handler() panics on.  The first fails when another *)
(* thread changes the mapping meanwhile (TpUnmaps), the second for every    *)
(* cause without an arm (TpOther).                                          *)
NoKernelPanic == ~ tp.panic

(* An emulated access does what the instruction does on hardware that       *)
(* allows it: the address from the displacement, the bytes in order, the    *)
(* sign or zeros above them, the result of sc, register 0 left alone.       *)
EmulatedLikeHardware ==
    \A t \in TpThreads :
        tt[t].pc = "user" /\ tt[t].k > 1 /\ tpSc.prog[t][tt[t].k - 1].op = "mem" => tt[t].after = tt[t].ref

(* A copy gives exactly what reading or writing the user's bytes one by one *)
(* would, or an error and nothing: user_copy_out() leaves no half-written    *)
(* object, a string that ends before an unmapped page is read, and the      *)
(* limits of exec are met to the byte.                                      *)
UserCopyExact ==
    \A t \in TpThreads :
        /\ tt[t].pc = "user" /\ tt[t].k > 1 /\ tt[t].quiet
        /\ tpSc.prog[t][tt[t].k - 1].op \in {"copyin", "copyout", "cstr", "argv"}
        => tt[t].after = tt[t].ref

(* A fault that cannot be served runs a handler or ends the process: the    *)
(* thread does not come back to the same instruction to fault again, for    *)
(* ever.  It does where the signal is ignored, and on RISC-V where it is    *)
(* blocked (TpRepeats).                                                     *)
FaultNotRepeated == \A t \in TpThreads : tt[t].pc = "user" => tt[t].faults = 0

(* A call whose wait has a limit is never put back ("带超时或已有 partial     *)
(* progress 的调用不得传入", signal/mod.rs:51-52).  is_restartable_syscall()  *)
(* asks before the call, so a limit another thread sets then is not seen    *)
(* (TpTimeouts).                                                            *)
TimedNotRestarted == \A t \in TpThreads : ~ tt[t].restarted

(* A futex word the process may read is read; the second look does not fail *)
(* because its page is not there.  It does when the page was discarded      *)
(* after check_user_readable() had brought it in (TpDontNeed).              *)
FutexWordRead == \A t \in TpThreads : tt[t].after.res # "EFAULT_nonresident"

(* A call is always made with the argument the program loaded, also when a  *)
(* signal interrupted it and its handler returned before it was restarted.  *)
RestartKeepsArgument ==
    \A t \in TpThreads :
        Runs(t) /\ Ins(t).op = "call" => tt[t].a0 = Ins(t).arg0

(* An illegal instruction no handler is installed for ends the process, not *)
(* only the thread: no other thread of it runs on.                          *)
FatalTrapEndsProcess ==
    \A t \in TpThreads :
        /\ tt[t].pc = "gone" /\ tp.died = 0
        /\ tt[t].k <= Len(tpSc.prog[t]) /\ tpSc.prog[t][tt[t].k].op = "illegal"
        => \A u \in TpThreads : tt[u].pc = "gone" \/ tpSc.prog[u] = <<>>

=============================================================================
