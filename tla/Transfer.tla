------------------------------ MODULE Transfer ------------------------------
(***************************************************************************)
(* The calls that move bytes between user memory, regular files and pipes  *)
(* (syscall/fs.rs): read, write and their positioned and vectored forms,   *)
(* sendfile, copy_file_range, splice, tee and vmsplice, with lseek and     *)
(* ftruncate.  Each is a loop over chunks of a kernel buffer, a chunk is   *)
(* fetched in one step and put in one or more: other callers run between.  *)
(*                                                                         *)
(* A byte is a number, and inputs hold increasing numbers.  An endpoint is *)
(* a file (its bytes, the cursor of its open description, the space there  *)
(* is) or a pipe (what it holds, its capacity, whether both ends are open, *)
(* O_NONBLOCK); "user" is the caller's memory.                             *)
(***************************************************************************)
EXTENDS Integers, Sequences, SequencesExt

CONSTANTS
    TrTasks,
    TrEnds,          \* files and pipes
    IO_CHUNK_SIZE,   \* bytes of the kernel buffer
    ATOMIC_WRITE,        \* a page: up to this many bytes enter a pipe whole
    TrScenarios      \* records: endpoints, RLIMIT_FSIZE, programs

VARIABLES
    trSc,     \* the scenario
    trEnd,    \* the endpoints
    trMoved,  \* where the calls that use the cursor of a file left it
    trOp      \* the call of each task

trVars == <<trSc, trEnd, trMoved, trOp>>
USER == "user"
CURSOR == -1          \* no explicit offset
FAILED == -1          \* the result of a call that fails

TrIdle == [pc |-> "idle", i |-> 0, total |-> 0, chunk |-> 0, got |-> <<>>, done |-> 0, in |-> CURSOR,
           to |-> CURSOR, keptIn |-> 0, keptOut |-> 0, ret |-> 0, taken |-> 0, given |-> <<>>]
TrInit ==
    /\ trSc \in TrScenarios
    /\ trEnd = trSc.ends
    /\ trMoved = [e \in TrEnds |-> trSc.ends[e].off]
    /\ trOp = [t \in TrTasks |-> TrIdle]

-----------------------------------------------------------------------------
Arg(t) == trSc.prog[t][trOp[t].i + 1]
TrAt(t, l) == trOp[t].pc = l
TrSet(t, r) == trOp' = [trOp EXCEPT ![t] = r @@ @]
TrEnds2(t, result) == TrSet(t, [pc |-> "end", ret |-> result])
IsPipe(e) == e # USER /\ trEnd[e].kind = "pipe"
Holds(e) == Len(trEnd[e].data)
writable_bytes(e) == trEnd[e].cap - Holds(e)
read_ready(e) == ~IsPipe(e) \/ Holds(e) > 0 \/ ~trEnd[e].open
write_ready(e) == ~IsPipe(e) \/ writable_bytes(e) >= Min({ATOMIC_WRITE, trEnd[e].cap})
Sending == {"sendfile", "copy_file_range"}
Progress(n) == IF n > 0 THEN n ELSE FAILED

\* The iovec item byte number n belongs to: where it starts and ends.  A
\* vector of at most ATOMIC_WRITE bytes for a pipe is one record.
Sums(a) == {FoldLeft(+, 0, SubSeq(a.items, 1, k)) : k \in 0..Len(a.items)}
WholeItem(a) == Max(Sums(a))
ItemEnd(a, n) ==
    IF a.op = "write" /\ IsPipe(a.dst) /\ WholeItem(a) <= ATOMIC_WRITE THEN WholeItem(a)
    ELSE Min({s \in Sums(a) : s > n})
ItemStart(a, n) == Max({s \in Sums(a) : s <= n})

WriteAt(d, off, b) ==
    [k \in 1..Max({Len(d), off + Len(b)}) |->
       IF k > off /\ k <= off + Len(b) THEN b[k - off] ELSE IF k <= Len(d) THEN d[k] ELSE 0]

-----------------------------------------------------------------------------
(* The start and the end of a call.                                        *)

TrHas(t, ops) == TrAt(t, "idle") /\ trOp[t].i < Len(trSc.prog[t]) /\ Arg(t).op \in ops
TrStart(t, pc) ==
    TrSet(t, [pc |-> pc, total |-> 0, in |-> Arg(t).at, to |-> Arg(t).to, taken |-> 0, given |-> <<>>,
              ret |-> IF pc = "end" THEN FAILED ELSE 0])
TrStepped(t, ret) == TrSet(t, [pc |-> "idle", i |-> trOp[t].i + 1, ret |-> ret, in |-> CURSOR, taken |-> 0, given |-> <<>>])
TrKeeps == UNCHANGED <<trSc, trEnd, trMoved>>
sys_read(t) == TrHas(t, {"read"}) /\ Arg(t).at = CURSOR /\ TrStart(t, "read") /\ TrKeeps
sys_preadv(t) == TrHas(t, {"read"}) /\ Arg(t).at # CURSOR /\ TrStart(t, "pread") /\ TrKeeps
sys_write(t) == TrHas(t, {"write"}) /\ Arg(t).to = CURSOR /\ TrStart(t, "write") /\ TrKeeps
sys_pwritev(t) == TrHas(t, {"write"}) /\ Arg(t).to # CURSOR /\ TrStart(t, "write") /\ TrKeeps
sys_vmsplice(t) == TrHas(t, {"vmsplice", "vmread"}) /\ TrStart(t, Arg(t).op) /\ TrKeeps
\* SPLICE_F_NONBLOCK: both ends have to be ready before anything is taken.
sys_splice(t) ==
    /\ TrHas(t, {"splice", "tee"})
    /\ TrStart(t, IF Arg(t).nb /\ ~(read_ready(Arg(t).src) /\ write_ready(Arg(t).dst)) THEN "end" ELSE "splice")
    /\ TrKeeps

\* sendfile() and copy_file_range() with an explicit offset seek the shared
\* cursor and put it back at the end.
seeks(a, off) == a.op \in Sending /\ off # CURSOR
can_seek(e) == ~IsPipe(e)
Unseekable(a) == IF a.op = "sendfile" THEN seeks(a, a.at) /\ ~can_seek(a.src) ELSE ~can_seek(a.src) \/ ~can_seek(a.dst)
sys_espipe(t) == TrHas(t, Sending) /\ Unseekable(Arg(t)) /\ TrStepped(t, FAILED) /\ TrKeeps
sys_sendfile(t) ==
    /\ TrHas(t, Sending) /\ ~Unseekable(Arg(t))
    /\ LET a == Arg(t)
       IN  /\ trOp' = [trOp EXCEPT ![t] = [pc |-> "copy", total |-> 0, in |-> a.at, to |-> a.to, taken |-> 0,
                                           given |-> <<>>, ret |-> 0, keptIn |-> trEnd[a.src].off,
                                           keptOut |-> trEnd[a.dst].off] @@ @]
           /\ trEnd' = [e \in TrEnds |->
                          CASE e = a.src /\ seeks(a, a.at) -> [trEnd[e] EXCEPT !.off = a.at]
                            [] e = a.dst /\ seeks(a, a.to) -> [trEnd[e] EXCEPT !.off = a.to]
                            [] OTHER -> trEnd[e]]
    /\ UNCHANGED <<trSc, trMoved>>
sys_return(t) ==
    /\ TrAt(t, "end")
    /\ LET a == Arg(t)
       IN  trEnd' = [e \in TrEnds |->
                       CASE e = a.src /\ seeks(a, a.at) -> [trEnd[e] EXCEPT !.off = trOp[t].keptIn]
                         [] e = a.dst /\ seeks(a, a.to) -> [trEnd[e] EXCEPT !.off = trOp[t].keptOut]
                         [] OTHER -> trEnd[e]]
    /\ TrSet(t, [pc |-> "idle", i |-> trOp[t].i + 1, got |-> <<>>, done |-> 0, chunk |-> 0, keptIn |-> 0, keptOut |-> 0])
    /\ UNCHANGED <<trSc, trMoved>>

-----------------------------------------------------------------------------
(* The loop.                                                               *)

\* limit_regular_file_write(): how much of n bytes at off RLIMIT_FSIZE
\* admits; FAILED is EFBIG.
limit_regular_file_write(e, off, n) ==
    IF IsPipe(e) \/ trSc.limit = -1 THEN n
    ELSE IF off >= trSc.limit /\ off >= Holds(e) THEN FAILED
    ELSE IF off + n <= trSc.limit \/ off + n <= Holds(e) THEN n
    ELSE Max({trSc.limit - off, 0})
WritePosition(t) ==
    LET e == Arg(t).dst
    IN  IF trEnd[e].append THEN Holds(e) ELSE IF trOp[t].to # CURSOR THEN trOp[t].to ELSE trEnd[e].off
\* Splice, tee and vmsplice take no more than the pipe has room for.
room(e, n) == IF IsPipe(e) THEN Min({n, Max({writable_bytes(e), 1})}) ELSE n
reads_ahead(e) == TRUE                                                 \* mutant
copy_ready(e) == write_ready(e)
TrEmpty(t) == ~read_ready(Arg(t).src)
TrRest(t) == Min({ItemEnd(Arg(t), trOp[t].total) - trOp[t].total, IO_CHUNK_SIZE})
TrItem(t) == trOp[t].total \in Sums(Arg(t))              \* before the first chunk of an item
TrLoop(t, l) == TrAt(t, l) /\ trOp[t].total < WholeItem(Arg(t)) /\ TrKeeps
TrFetch(t, n) == TrSet(t, [pc |-> "fetch", chunk |-> n])
TrStops(t) == TrEnds2(t, Progress(trOp[t].total))
loop_done(t) ==
    /\ trOp[t].pc \in {"read", "pread", "write", "copy", "splice", "vmsplice", "vmread"}
    /\ trOp[t].total = WholeItem(Arg(t)) /\ TrEnds2(t, trOp[t].total) /\ TrKeeps
\* read() and readv(): O_NONBLOCK, and a further item, want input to be there.
read_next(t) ==
    /\ TrLoop(t, "read")
    /\ IF TrEmpty(t) /\ ((TrItem(t) /\ trOp[t].total > 0) \/ trEnd[Arg(t).src].nb) THEN TrStops(t) ELSE TrFetch(t, TrRest(t))
pread_next(t) == TrLoop(t, "pread") /\ TrFetch(t, TrRest(t))
vmread_next(t) ==
    /\ TrLoop(t, "vmread")
    /\ IF TrEmpty(t) /\ ((TrItem(t) /\ Arg(t).nb) \/ trEnd[Arg(t).src].nb) THEN TrStops(t) ELSE TrFetch(t, TrRest(t))
write_next(t) ==
    /\ TrLoop(t, "write")
    /\ LET n == limit_regular_file_write(Arg(t).dst, WritePosition(t), TrRest(t))
       IN  CASE n = FAILED -> TrStops(t)
             [] n = 0 -> TrEnds2(t, trOp[t].total)
             [] OTHER -> TrFetch(t, n)
copy_next(t) == TrLoop(t, "copy") /\ IF copy_ready(Arg(t).dst) THEN TrFetch(t, TrRest(t)) ELSE TrStops(t)
splice_next(t) == TrLoop(t, "splice") /\ TrFetch(t, room(Arg(t).dst, TrRest(t)))
vmsplice_next(t) ==
    /\ TrLoop(t, "vmsplice")
    /\ IF Arg(t).nb /\ writable_bytes(Arg(t).dst) = 0 THEN TrStops(t) ELSE TrFetch(t, room(Arg(t).dst, TrRest(t)))

\* The chunk comes from user memory (which may fault), from a file at the
\* cursor or at the explicit offset, or from a pipe; an empty pipe is waited
\* for, and is the end of the input once its writers are gone.
cursor_step(e, in, n) == IF in = CURSOR THEN n ELSE 0
Faults(t, n) == Arg(t).fault \in (trOp[t].total + 1)..(trOp[t].total + n)
\* read() and write() fail at once, and a vector then counts the items before.
Faulted(t, positioned) ==
    TrEnds2(t, Progress(IF positioned THEN trOp[t].total ELSE ItemStart(Arg(t), trOp[t].total)))
Fetched(t, got, r) ==
    TrSet(t, [pc |-> IF Arg(t).op \in Sending THEN "ready" ELSE "put", done |-> 0, got |-> got] @@ r)
fetch_user(t) ==
    /\ TrAt(t, "fetch") /\ Arg(t).src = USER
    /\ LET o == trOp[t]
       IN  IF Faults(t, o.chunk) THEN Faulted(t, o.to # CURSOR)
           ELSE Fetched(t, SubSeq(Arg(t).bytes, o.total + 1, o.total + o.chunk), <<>>)
    /\ TrKeeps
fetch_file(t) ==
    /\ TrAt(t, "fetch") /\ Arg(t).src # USER /\ ~IsPipe(Arg(t).src)
    /\ LET o == trOp[t]
           e == Arg(t).src
           in == IF seeks(Arg(t), o.in) THEN CURSOR ELSE o.in
           from == IF in = CURSOR THEN trEnd[e].off ELSE in
           got == SubSeq(trEnd[e].data, from + 1, Min({from + o.chunk, Holds(e)}))
           n == Len(got)
       IN  IF n = 0 THEN TrEnds2(t, o.total) /\ UNCHANGED <<trEnd, trMoved>>
           ELSE /\ Fetched(t, got, [taken |-> o.taken + (IF o.in = CURSOR THEN n ELSE 0), in |-> IF o.in = CURSOR THEN CURSOR ELSE o.in + n])
                /\ trEnd' = [trEnd EXCEPT ![e].off = @ + cursor_step(e, in, n)]
                /\ trMoved' = [trMoved EXCEPT ![e] = @ + IF o.in = CURSOR THEN n ELSE 0]
    /\ UNCHANGED trSc
fetch_pipe(t) ==
    /\ TrAt(t, "fetch") /\ IsPipe(Arg(t).src)
    /\ LET o == trOp[t]
           e == Arg(t).src
           n == Min({o.chunk, Holds(e)})
           tee == Arg(t).op = "tee"
       IN  IF n > 0
           THEN /\ Fetched(t, SubSeq(trEnd[e].data, 1, n), [taken |-> o.taken + IF tee THEN 0 ELSE n])
                /\ trEnd' = IF tee THEN trEnd ELSE [trEnd EXCEPT ![e].data = SubSeq(@, n + 1, Len(@))]
           ELSE /\ \/ (tee \/ ~trEnd[e].open) /\ TrEnds2(t, o.total)
                   \/ ~tee /\ trEnd[e].open /\ trEnd[e].nb /\ Faulted(t, Arg(t).op \notin {"read", "vmread"})
                /\ UNCHANGED trEnd
    /\ UNCHANGED <<trSc, trMoved>>

\* k more bytes of the chunk went out.  The calls that copy between two
\* descriptors try again with the rest, the others stop at a short put, as
\* all do after a short fetch; vmsplice() stops when it did not do the item.
put_next(o, k) == SubSeq(o.got, o.done + 1, o.done + k)
count_put(o, k) == o.done + k
Put(t, k) ==
    LET o == trOp[t]
        a == Arg(t)
        rest == o.done + k < Len(o.got)
        item == a.op = "vmsplice" /\ o.chunk < ItemEnd(a, o.total) - o.total
        now == [given |-> o.given \o put_next(o, k), to |-> IF o.to = CURSOR THEN CURSOR ELSE o.to + k]
    IN  IF rest /\ a.op \in Sending \cup {"splice"}
        THEN TrSet(t, [pc |-> IF a.op = "splice" THEN "put" ELSE "ready", done |-> o.done + k] @@ now)
        ELSE TrSet(t, [total |-> o.total + count_put(o, k), got |-> <<>>, done |-> 0,
                       pc |-> CASE rest \/ item \/ Len(o.got) < o.chunk -> "short"
                                [] a.op \in Sending -> "copy"
                                [] a.op = "tee" -> "splice"
                                [] a.op = "read" /\ a.at # CURSOR -> "pread"
                                [] OTHER -> a.op] @@ now)
short_put(t) == TrAt(t, "short") /\ TrEnds2(t, trOp[t].total) /\ TrKeeps
\* The output fails, or is not ready for the rest: the calls report the
\* chunks before this one.
PutFails(t) == TrEnds2(t, Progress(trOp[t].total))
put_ready(t) ==
    /\ TrAt(t, "ready")
    /\ IF write_ready(Arg(t).dst) THEN TrSet(t, [pc |-> "put"]) ELSE PutFails(t)
    /\ TrKeeps

put_user(t) ==
    /\ TrAt(t, "put") /\ Arg(t).dst = USER
    /\ LET n == Len(trOp[t].got)
       IN  IF Faults(t, n) THEN Faulted(t, trOp[t].in # CURSOR) ELSE Put(t, n)
    /\ TrKeeps
put_file(t) ==
    /\ TrAt(t, "put") /\ Arg(t).dst # USER /\ ~IsPipe(Arg(t).dst)
    /\ LET o == trOp[t]
           e == Arg(t).dst
           to == IF seeks(Arg(t), o.to) THEN CURSOR ELSE o.to
           pos == IF trEnd[e].append THEN Holds(e) ELSE IF to = CURSOR THEN trEnd[e].off ELSE to
           k == Min({Len(o.got) - o.done, Max({trEnd[e].cap - pos, 0})})
       IN  IF k = 0 THEN PutFails(t) /\ UNCHANGED <<trEnd, trMoved>>
           ELSE /\ Put(t, k)
                /\ trEnd' = [trEnd EXCEPT ![e].data = WriteAt(@, pos, put_next(o, k)),
                                          ![e].off = IF to = CURSOR THEN pos + k ELSE @]
                /\ trMoved' = [trMoved EXCEPT ![e] = IF o.to = CURSOR THEN pos + k ELSE @]
    /\ UNCHANGED trSc
\* Pipe::write(): up to ATOMIC_WRITE bytes enter whole or wait (EAGAIN with
\* O_NONBLOCK), of a longer buffer what fits does.
put_pipe(t) ==
    /\ TrAt(t, "put") /\ IsPipe(Arg(t).dst)
    /\ LET o == trOp[t]
           e == Arg(t).dst
           n == Len(o.got) - o.done
           k == IF n > ATOMIC_WRITE \/ writable_bytes(e) >= n THEN Min({n, writable_bytes(e)}) ELSE 0
       IN  IF trEnd[e].open /\ k > 0
           THEN Put(t, k) /\ trEnd' = [trEnd EXCEPT ![e].data = @ \o put_next(o, k)]
           ELSE (~trEnd[e].open \/ trEnd[e].nb) /\ PutFails(t) /\ UNCHANGED trEnd
    /\ UNCHANGED <<trSc, trMoved>>

-----------------------------------------------------------------------------
(* lseek(), ftruncate(), fallocate(), and an end of a pipe closing.        *)

SeekBase(a) == CASE a.whence = "set" -> 0 [] a.whence = "cur" -> trEnd[a.src].off [] OTHER -> Holds(a.src)
sys_lseek(t) ==
    /\ TrHas(t, {"lseek"})
    /\ LET off == SeekBase(Arg(t)) + Arg(t).at
       IN  IF off < 0 THEN TrStepped(t, FAILED) ELSE TrSet(t, [pc |-> "seek", in |-> off])
    /\ TrKeeps
seek(t) ==
    /\ TrAt(t, "seek")
    /\ trEnd' = [trEnd EXCEPT ![Arg(t).src].off = trOp[t].in]
    /\ trMoved' = [trMoved EXCEPT ![Arg(t).src] = trOp[t].in]
    /\ TrStepped(t, 0) /\ UNCHANGED trSc
Resized(d, n) == [k \in 1..n |-> IF k <= Len(d) THEN d[k] ELSE 0]
sys_ftruncate(t) ==
    /\ TrHas(t, {"ftruncate"})
    /\ IF trSc.limit # -1 /\ Arg(t).at > trSc.limit THEN TrStepped(t, FAILED) /\ UNCHANGED trEnd
       ELSE TrStepped(t, 0) /\ trEnd' = [trEnd EXCEPT ![Arg(t).src].data = Resized(@, Arg(t).at)]
    /\ UNCHANGED <<trSc, trMoved>>
\* Mode 0 allocates and extends, PUNCH_HOLE | KEEP_SIZE clears.
sys_fallocate(t) ==
    /\ TrHas(t, {"fallocate"})
    /\ LET a == Arg(t)
           d == trEnd[a.src].data
       IN  IF ~a.punch /\ a.at + a.n > trEnd[a.src].cap THEN TrStepped(t, FAILED) /\ UNCHANGED trEnd
           ELSE /\ TrStepped(t, 0)
                /\ trEnd' = [trEnd EXCEPT ![a.src].data =
                                IF a.punch THEN [k \in 1..Len(d) |-> IF k \in (a.at + 1)..(a.at + a.n) THEN 0 ELSE d[k]]
                                ELSE Resized(d, Max({Len(d), a.at + a.n}))]
    /\ UNCHANGED <<trSc, trMoved>>
close_pipe(t) ==
    /\ TrHas(t, {"close"})
    /\ trEnd' = [trEnd EXCEPT ![Arg(t).src].open = FALSE]
    /\ TrStepped(t, 0) /\ UNCHANGED <<trSc, trMoved>>

TrNext ==
    \E t \in TrTasks :
       \/ sys_read(t) \/ sys_preadv(t) \/ sys_write(t) \/ sys_pwritev(t) \/ sys_vmsplice(t) \/ sys_splice(t)
       \/ sys_espipe(t) \/ sys_sendfile(t) \/ sys_return(t) \/ loop_done(t) \/ read_next(t) \/ pread_next(t) \/ vmread_next(t)
       \/ write_next(t) \/ copy_next(t) \/ splice_next(t) \/ vmsplice_next(t)
       \/ fetch_user(t) \/ fetch_file(t) \/ fetch_pipe(t) \/ short_put(t) \/ put_ready(t) \/ put_user(t) \/ put_file(t)
       \/ put_pipe(t) \/ sys_lseek(t) \/ seek(t) \/ sys_ftruncate(t) \/ sys_fallocate(t) \/ close_pipe(t)
TrSpec == TrInit /\ [][TrNext]_trVars

-----------------------------------------------------------------------------
(* Properties.                                                             *)

TrDone(t) == TrAt(t, "idle") /\ trOp[t].i > 0

\* Types; a pipe holds no more than its capacity.
TrTypeOK ==
    /\ \A e \in TrEnds : IsPipe(e) => Holds(e) <= trEnd[e].cap
    /\ \A t \in TrTasks : trOp[t].total \in Nat /\ trOp[t].ret \in Nat \cup {FAILED}

\* The count a call returns is the number of bytes that reached its output;
\* a call that fails has put nothing out ("已有进展后发生的错误返回累计长度，不能丢失已
\* 提交输出", copy_file_data(), fs.rs:565).
TrReported ==
    \A t \in TrTasks : TrDone(t) => Len(trOp[t].given) = IF trOp[t].ret = FAILED THEN 0 ELSE trOp[t].ret

\* Bytes taken out of a pipe, or passed by the cursor of a file, have reached
\* the output when the call is over ("避免读出后无法写回造成数据丢失", fs.rs:967).
TrNothingLost ==
    \A t \in TrTasks : TrDone(t) => trOp[t].taken <= Len(trOp[t].given)

\* What a call puts into a file or a pipe is in the order of its input, and
\* no byte goes out twice (the bytes of every input increase).
TrInOrder ==
    \A t \in TrTasks : \A k \in 1..(Len(trOp[t].given) - 1) :
        TrAt(t, "idle") \/ Arg(t).dst = USER \/ trOp[t].given[k] < trOp[t].given[k + 1]

\* The cursor of an open file is where the calls that use it left it: a call
\* with an explicit offset does not move it, though others use the same
\* description meanwhile ("不修改共享 open-file offset", sys_pread64()).
TrCursorKept ==
    (\A t \in TrTasks : TrAt(t, "idle")) => \A e \in TrEnds : ~IsPipe(e) => trEnd[e].off = trMoved[e]

=============================================================================
