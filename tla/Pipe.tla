-------------------------------- MODULE Pipe --------------------------------
(***************************************************************************)
(* Pipes and FIFOs (fs/pipe.rs) with the calls that sleep on them: read(), *)
(* write(), the open() of a FIFO, and ppoll()/pselect6() (syscall/fs.rs,   *)
(* fs/poll.rs).                                                            *)
(*                                                                         *)
(* The buffer lock covers the transfer, the waiter queues and the moment a *)
(* task marks itself Blocked; a signal sender does not take it.  Calls of  *)
(* wakeup_task() come after the lock is released and are steps of their    *)
(* own.  A byte is known by its writer.  A signal is a deliverable one;    *)
(* its sender is one step here and is taken apart in Futex.                *)
(***************************************************************************)
EXTENDS Integers, Sequences, SequencesExt, FiniteSets, TLC

CONSTANTS
    PiTasks,
    PIPE_BUF,      \* also PIPE_BUF
    Capacities,     \* sizes F_SETPIPE_SZ asks for, rounded up to pages
    PipeScenarios   \* records: kind "pipe" or "fifo", the ends each task has
                    \* open, what each task does, and the lengths asked for

ASSUME PipeAssumption ==
    /\ PIPE_BUF \in Nat \ {0} /\ Capacities \subseteq Nat
    /\ \A s \in PipeScenarios :
          /\ s.kind \in {"pipe", "fifo"} /\ s.lens \subseteq Nat \ {0}
          /\ s.ends \in [PiTasks -> SUBSET {"r", "w"}]
          /\ s.does \in [PiTasks -> SUBSET {"read", "write", "poll", "close", "resize", "open_r",
                                          "open_w", "signal", "nonblock", "timeout",
                                          "select", "interrupt", "once"}]

PiNobody == "nobody"

VARIABLES
    pipeSc,   \* the scenario
    buffer,   \* PipeRingBuffer: data, capacity, closed flags, waiter queues
    poll,     \* PollWaiters: the events each task is registered for
    fifo,     \* NamedFifo: counts of ends and the openers that wait
    plock,    \* holder of the buffer lock between two steps
    ends,     \* ends each task has open
    ptask,    \* pc and locals of the call, scheduler state, signal flags
    pcall     \* [op, len, ret] of the read or write under way

pipeVars == <<pipeSc, buffer, poll, fifo, plock, ends, ptask, pcall>>

PiIdle == [pc |-> "idle", nb |-> FALSE, due |-> FALSE, sched |-> "Running",
         interruptible |-> FALSE, interrupted |-> FALSE, pending |-> FALSE, wake |-> {},
         events |-> {}, met |-> FALSE, select |-> FALSE, calls |-> 0]
PiNoCall == [op |-> PiNobody, len |-> 0, ret |-> <<PiNobody>>]
NewBuffer == [data |-> <<>>, capacity |-> PIPE_BUF, read_closed |-> FALSE,
              write_closed |-> FALSE, read_waiters |-> <<>>, write_waiters |-> <<>>]

PipeInit ==
    /\ pipeSc \in PipeScenarios
    /\ ends = pipeSc.ends
    /\ buffer = NewBuffer
    /\ poll = [t \in PiTasks |-> {}]
    /\ fifo = [readers |-> 0, writers |-> 0, open_r |-> {}, open_w |-> {}]
    /\ plock = PiNobody
    /\ ptask = [t \in PiTasks |-> PiIdle]
    /\ pcall = [t \in PiTasks |-> PiNoCall]

PiDoes(t, what) == what \in pipeSc.does[t]
PiAt(t, l) == ptask[t].pc = l
PiPut(t, r) == ptask' = [ptask EXCEPT ![t] = r @@ @]
PiResult(t, r) == pcall' = [pcall EXCEPT ![t].ret = r] /\ PiPut(t, [pc |-> "return"])
PiFree == buffer.capacity - Len(buffer.data)

\* wakeup_task() for each task of W: a Blocked task becomes Ready.
PiWoken(W, T) == [u \in PiTasks |-> IF u \in W /\ T[u].sched = "Blocked"
                                THEN [T[u] EXCEPT !.sched = "Ready"] ELSE T[u]]

pipe_check_interrupt(t) == ptask[t].interruptible /\ ptask[t].pending

\* The waiter queues: push without duplicates, take the oldest, drop one.
push_waiter(q, t) == IF Contains(q, t) THEN q ELSE Append(q, t)
pop_waiter(q) == IF q = <<>> THEN [woken |-> {}, left |-> q]
                 ELSE [woken |-> {Head(q)}, left |-> Tail(q)]
remove_waiter(q, t) == SelectSeq(q, LAMBDA u : u # t)

-----------------------------------------------------------------------------
(* read() and write().                                                     *)

\* sys_read(), sys_write(), sys_writev() of a short vector: a call is made.
PipeCall(t, op, n, nonblock) ==
    /\ PiAt(t, "idle") /\ PiDoes(t, op) /\ n \in pipeSc.lens
    /\ nonblock => PiDoes(t, "nonblock")
    /\ (IF op = "read" THEN "r" ELSE "w") \in ends[t]
    /\ PiDoes(t, "once") => ptask[t].calls = 0
    /\ PiPut(t, [pc |-> op, nb |-> nonblock, calls |-> IF PiDoes(t, "once") THEN 1 ELSE 0])
    /\ pcall' = [pcall EXCEPT ![t] = [op |-> op, len |-> n, ret |-> <<PiNobody>>]]
    /\ UNCHANGED <<pipeSc, buffer, poll, fifo, plock, ends>>

\* The events an operation reports to PollWaiters.
notify_events(op) == CASE op = "read" -> {"w"}
                       [] op = "write" -> {"r"}
                       [] OTHER -> {"r", "w", "h"}

\* Pipe::read(), the locked part: take what there is and one waiting writer,
\* or report the end of file, or join the queue.
pipe_read(t) ==
    /\ PiAt(t, "read") /\ plock = PiNobody
    /\ LET n == Min({pcall[t].len, Len(buffer.data)})
           w == pop_waiter(buffer.write_waiters)
       IN  \/ /\ n > 0
              /\ buffer' = [buffer EXCEPT !.data = SubSeq(@, n + 1, Len(@)),
                                          !.write_waiters = w.left]
              /\ pcall' = [pcall EXCEPT ![t].ret = SubSeq(buffer.data, 1, n)]
              /\ PiPut(t, [pc |-> "wake", wake |-> w.woken, events |-> notify_events("read")])
              /\ UNCHANGED plock
           \/ /\ n = 0 /\ (buffer.write_closed \/ ptask[t].nb)
              /\ PiResult(t, IF buffer.write_closed THEN <<>> ELSE <<"EAGAIN">>)
              /\ UNCHANGED <<buffer, plock>>
           \/ /\ n = 0 /\ ~buffer.write_closed /\ ~ptask[t].nb
              /\ buffer' = [buffer EXCEPT !.read_waiters = push_waiter(@, t)]
              /\ plock' = t
              /\ PiPut(t, [pc |-> "prepare", interruptible |-> TRUE])
              /\ UNCHANGED pcall
    /\ UNCHANGED <<pipeSc, poll, fifo, ends>>

\* Bytes a write can place now: the whole of it or nothing up to PIPE_BUF,
\* and what fits of a longer one.
write_partial(n) == Min({n, PiFree})      \* mutant: a short write is split
write_size(n) == IF n > PIPE_BUF \/ PiFree >= n THEN Min({n, PiFree}) ELSE 0

\* Pipe::write(), the locked part.
pipe_write(t) ==
    /\ PiAt(t, "write") /\ plock = PiNobody
    /\ LET n == write_size(pcall[t].len)
           r == pop_waiter(buffer.read_waiters)
       IN  \/ /\ buffer.read_closed
              /\ PiResult(t, <<"EPIPE">>)
              /\ UNCHANGED <<buffer, plock>>
           \/ /\ ~buffer.read_closed /\ n > 0
              /\ buffer' = [buffer EXCEPT !.data = @ \o [i \in 1 .. n |-> t],
                                          !.read_waiters = r.left]
              /\ pcall' = [pcall EXCEPT ![t].ret = [i \in 1 .. n |-> t]]
              /\ PiPut(t, [pc |-> "wake", wake |-> r.woken, events |-> notify_events("write")])
              /\ UNCHANGED plock
           \/ /\ ~buffer.read_closed /\ n = 0 /\ ptask[t].nb
              /\ PiResult(t, <<"EAGAIN">>)
              /\ UNCHANGED <<buffer, plock>>
           \/ /\ ~buffer.read_closed /\ n = 0 /\ ~ptask[t].nb
              /\ buffer' = [buffer EXCEPT !.write_waiters = push_waiter(@, t)]
              /\ plock' = t
              /\ PiPut(t, [pc |-> "prepare", interruptible |-> TRUE])
              /\ UNCHANGED pcall
    /\ UNCHANGED <<pipeSc, poll, fifo, ends>>

\* prepare_current_task_blocked(), which does not decline, and the unlock.
pipe_prepare(t) ==
    /\ PiAt(t, "prepare")
    /\ plock' = PiNobody
    /\ PiPut(t, [pc |-> "asleep", sched |-> "Blocked"])
    /\ UNCHANGED <<pipeSc, buffer, poll, fifo, ends, pcall>>

\* Once Ready, with or without a switch: leave the queue, and return EINTR
\* or try again.  The task is not interruptible any more when it looks at its
\* pending signals, so only the flag counts.
pipe_resume(t) ==
    /\ PiAt(t, "asleep") /\ ptask[t].sched = "Ready" /\ plock = PiNobody
    /\ buffer' = [buffer EXCEPT
           !.read_waiters = IF pcall[t].op = "read" THEN remove_waiter(@, t) ELSE @,
           !.write_waiters = IF pcall[t].op = "write" THEN remove_waiter(@, t) ELSE @]
    /\ PiPut(t, [pc |-> IF ptask[t].interrupted THEN "return" ELSE pcall[t].op,
               sched |-> "Running", interruptible |-> FALSE, interrupted |-> FALSE])
    /\ pcall' = [pcall EXCEPT ![t].ret = IF ptask[t].interrupted THEN <<"EINTR">> ELSE @]
    /\ UNCHANGED <<pipeSc, poll, fifo, plock, ends>>

\* wakeup_task() of the waiter that was taken off the queue.
pipe_wake(t) ==
    /\ PiAt(t, "wake")
    /\ ptask' = PiWoken(ptask[t].wake, [ptask EXCEPT ![t].pc = "notify", ![t].wake = {}])
    /\ UNCHANGED <<pipeSc, buffer, poll, fifo, plock, ends, pcall>>

\* PollWaiters::notify(): the tasks registered for the events are taken out
\* of the table and woken after its lock is released.
poll_notify(t) ==
    /\ PiAt(t, "notify")
    /\ LET hit == {u \in PiTasks : poll[u] \cap ptask[t].events # {}}
       IN  /\ poll' = [u \in PiTasks |-> IF u \in hit THEN {} ELSE poll[u]]
           /\ PiPut(t, [pc |-> "kick", wake |-> ptask[t].wake \cup hit])
    /\ UNCHANGED <<pipeSc, buffer, fifo, plock, ends, pcall>>
notify_kick(t) ==
    /\ PiAt(t, "kick")
    /\ ptask' = PiWoken(ptask[t].wake, [ptask EXCEPT ![t].pc = "return", ![t].wake = {}, ![t].events = {}])
    /\ UNCHANGED <<pipeSc, buffer, poll, fifo, plock, ends, pcall>>

\* Back in user mode a pending signal is handled.
pipe_return(t) ==
    /\ PiAt(t, "return")
    /\ PiPut(t, [pc |-> "idle", nb |-> FALSE, due |-> FALSE, pending |-> FALSE, met |-> FALSE,
                 select |-> FALSE])
    /\ pcall' = [pcall EXCEPT ![t] = PiNoCall]
    /\ UNCHANGED <<pipeSc, buffer, poll, fifo, plock, ends>>

\* try_receive_siginfo() for a deliverable signal: at any time, or to a task
\* that is asleep or in the open() of a FIFO.
pipe_signal(t) ==
    /\ \/ PiDoes(t, "signal")
       \/ PiDoes(t, "interrupt") /\ ptask[t].interruptible /\ ~PiAt(t, "prepare")
    /\ ~ptask[t].pending
    /\ ptask' = IF ptask[t].interruptible
                THEN PiWoken({t}, [ptask EXCEPT ![t].pending = TRUE, ![t].interrupted = TRUE])
                ELSE [ptask EXCEPT ![t].pending = TRUE]
    /\ UNCHANGED <<pipeSc, buffer, poll, fifo, plock, ends, pcall>>

-----------------------------------------------------------------------------
(* F_SETPIPE_SZ and the release of an end.                                 *)

\* set_capacity(): poll waiters hear of a larger pipe, blocked writers do not.
set_capacity(t, c) ==
    /\ PiAt(t, "idle") /\ PiDoes(t, "resize") /\ ends[t] # {}
    /\ plock = PiNobody /\ c >= Len(buffer.data)
    /\ buffer' = [buffer EXCEPT !.capacity = c]
    /\ IF c > buffer.capacity THEN PiPut(t, [pc |-> "notify", events |-> {"w"}])
       ELSE UNCHANGED ptask
    /\ UNCHANGED <<pipeSc, poll, fifo, plock, ends, pcall>>

\* The buffer after the last end of side e is gone, and everyone who waits
\* for that side to do something.
side_closed(e) == IF e = "r" THEN [buffer EXCEPT !.read_closed = TRUE, !.write_waiters = <<>>]
             ELSE [buffer EXCEPT !.write_closed = TRUE, !.read_waiters = <<>>]
close_first_waiter(e) ==        \* mutant: only one of them is woken
    pop_waiter(IF e = "r" THEN buffer.write_waiters ELSE buffer.read_waiters).woken
close_waiters(e) == ToSet(IF e = "r" THEN buffer.write_waiters ELSE buffer.read_waiters)

\* close() drops the task's reference; the end goes with the last one.
drop_pipe(t, e) ==
    /\ PiAt(t, "idle") /\ PiDoes(t, "close") /\ pipeSc.kind = "pipe"
    /\ e \in ends[t] /\ plock = PiNobody
    /\ ends' = [ends EXCEPT ![t] = @ \ {e}]
    /\ IF \E u \in PiTasks \ {t} : e \in ends[u]
       THEN UNCHANGED <<buffer, ptask>>
       ELSE /\ buffer' = side_closed(e)
            /\ PiPut(t, [pc |-> "notify", events |-> notify_events("drop"), wake |-> close_waiters(e)])
    /\ UNCHANGED <<pipeSc, poll, fifo, plock, pcall>>

\* The counts of a FIFO without the ends E, and its buffer: the table forgets
\* the path with the last end.
LessEnds(f, E) == [f EXCEPT !.readers = IF "r" \in E /\ @ > 0 THEN @ - 1 ELSE @,
                        !.writers = IF "w" \in E /\ @ > 0 THEN @ - 1 ELSE @]
KeptBuffer(f, b) == IF f.readers = 0 /\ f.writers = 0 THEN NewBuffer ELSE b

\* NamedFifoEnd::drop(), of an end for reading, for writing or for both.
drop_fifo(t) ==
    /\ PiAt(t, "idle") /\ PiDoes(t, "close") /\ pipeSc.kind = "fifo"
    /\ ends[t] # {} /\ plock = PiNobody
    /\ ends' = [ends EXCEPT ![t] = {}]
    /\ fifo' = LessEnds(fifo, ends[t])
    /\ LET gone == {e \in ends[t] : IF e = "r" THEN fifo'.readers = 0 ELSE fifo'.writers = 0}
       IN  /\ buffer' = KeptBuffer(fifo', [buffer EXCEPT
                  !.read_closed = @ \/ "r" \in gone,
                  !.write_closed = @ \/ "w" \in gone,
                  !.write_waiters = IF "r" \in gone THEN <<>> ELSE @,
                  !.read_waiters = IF "w" \in gone THEN <<>> ELSE @])
           /\ PiPut(t, [pc |-> "notify", events |-> notify_events("drop"),
                      wake |-> UNION {close_waiters(e) : e \in gone}])
    /\ UNCHANGED <<pipeSc, poll, plock, pcall>>

-----------------------------------------------------------------------------
(* open_named_fifo().                                                      *)

Opens(t) == {e \in {"r", "w"} : PiDoes(t, IF e = "r" THEN "open_r" ELSE "open_w")}
\* The other side has an end, or an opener that was counted.
Counterpart(t) == \/ "r" \in Opens(t) /\ fifo.writers > 0
                  \/ "w" \in Opens(t) /\ fifo.readers > 0

open_fifo(t, nonblock) ==
    /\ PiAt(t, "idle") /\ pipeSc.kind = "fifo" /\ ends[t] = {} /\ Opens(t) # {}
    /\ nonblock => PiDoes(t, "nonblock")
    /\ ~(Opens(t) = {"w"} /\ nonblock /\ fifo.readers = 0)     \* ENXIO
    /\ plock = PiNobody
    /\ fifo' = [fifo EXCEPT !.readers = IF "r" \in Opens(t) THEN @ + 1 ELSE @,
                            !.writers = IF "w" \in Opens(t) THEN @ + 1 ELSE @]
    /\ buffer' = [buffer EXCEPT !.read_closed = @ /\ "r" \notin Opens(t),
                                !.write_closed = @ /\ "w" \notin Opens(t)]
    /\ ptask' = [u \in PiTasks |->
           IF u = t THEN [ptask[t] EXCEPT !.pc = "open", !.nb = nonblock]
           ELSE [ptask[u] EXCEPT !.met = @ \/ (u \in fifo.open_r /\ "w" \in Opens(t))
                                           \/ (u \in fifo.open_w /\ "r" \in Opens(t))]]
    /\ UNCHANGED <<pipeSc, poll, plock, ends, pcall>>

takes_openers(t, e) == \/ e = "w" /\ "r" \in Opens(t) /\ fifo.writers > 0
                       \/ e = "r" /\ "w" \in Opens(t) /\ fifo.readers > 0
\* Openers of the other side are taken; without one this task joins a queue.
open_check(t) ==
    /\ PiAt(t, "open")
    /\ LET wait_for_writer == Opens(t) = {"r"} /\ ~ptask[t].nb /\ fifo.writers = 0
           wait_for_reader == Opens(t) = {"w"} /\ fifo.readers = 0
           wakes_w == takes_openers(t, "w")
           wakes_r == takes_openers(t, "r")
       IN  /\ fifo' = [fifo EXCEPT
                  !.open_w = (IF wakes_w THEN {} ELSE @) \cup (IF wait_for_reader THEN {t} ELSE {}),
                  !.open_r = (IF wakes_r THEN {} ELSE @) \cup (IF wait_for_writer THEN {t} ELSE {})]
           /\ PiPut(t, [pc |-> IF wait_for_writer \/ wait_for_reader THEN "open_wait" ELSE "open_met",
                      interruptible |-> wait_for_writer \/ wait_for_reader,
                      met |-> Counterpart(t),
                      wake |-> (IF wakes_w THEN fifo.open_w ELSE {}) \cup
                               (IF wakes_r THEN fifo.open_r ELSE {})])
    /\ UNCHANGED <<pipeSc, buffer, poll, plock, ends, pcall>>

\* The openers are woken; a task that waits marks itself Blocked.
open_prepare(t) ==
    /\ \/ /\ PiAt(t, "open_wait")
          /\ ptask' = PiWoken(ptask[t].wake, [ptask EXCEPT ![t].pc = "open_recheck",
                                              ![t].sched = "Blocked", ![t].wake = {}])
       \/ /\ PiAt(t, "open_met")
          /\ ptask' = PiWoken(ptask[t].wake, [ptask EXCEPT ![t].pc = "opened", ![t].wake = {}])
    /\ UNCHANGED <<pipeSc, buffer, poll, fifo, plock, ends, pcall>>

\* Between the check and the sleep the other side, or a signal, may have come.
open_second_look(t) == Counterpart(t) \/ ptask[t].interrupted \/ pipe_check_interrupt(t)
fifo_recheck(t) ==
    /\ PiAt(t, "open_recheck")
    /\ ptask' = LET T == [ptask EXCEPT ![t].pc = "open_asleep"]
                IN  IF open_second_look(t) THEN PiWoken({t}, T) ELSE T
    /\ UNCHANGED <<pipeSc, buffer, poll, fifo, plock, ends, pcall>>

\* EINTR takes the counts back, but leaves the closed flags of the buffer.
open_resume(t) ==
    /\ PiAt(t, "open_asleep") /\ ptask[t].sched = "Ready" /\ plock = PiNobody
    /\ LET T == [pc |-> "opened", sched |-> "Running", interruptible |-> FALSE,
                 interrupted |-> FALSE]
       IN  IF ptask[t].interrupted
           THEN /\ fifo' = LessEnds([fifo EXCEPT !.open_r = @ \ {t}, !.open_w = @ \ {t}], Opens(t))
                /\ buffer' = KeptBuffer(fifo', buffer)
                /\ PiPut(t, [T EXCEPT !.pc = "return"])
           ELSE PiPut(t, T) /\ UNCHANGED <<fifo, buffer>>
    /\ UNCHANGED <<pipeSc, poll, plock, ends, pcall>>

open_done(t) ==
    /\ PiAt(t, "opened")
    /\ fifo' = [fifo EXCEPT !.open_r = @ \ {t}, !.open_w = @ \ {t}]
    /\ ends' = [ends EXCEPT ![t] = Opens(t)]
    /\ PiPut(t, [pc |-> "return"])
    /\ UNCHANGED <<pipeSc, buffer, poll, plock, pcall>>

-----------------------------------------------------------------------------
(* ppoll() and pselect6() on the ends of the task.                         *)

pipe_read_ready == buffer.data # <<>> \/ buffer.write_closed
pipe_write_ready == PiFree >= PIPE_BUF
\* ppoll_scan_ready(): POLLIN, POLLHUP, POLLOUT or POLLERR.  pselect6() does
\* not look at errors.
poll_ready(t) == \/ "r" \in ends[t] /\ pipe_read_ready
                 \/ "w" \in ends[t] /\ (pipe_write_ready \/ (buffer.read_closed /\ ~ptask[t].select))

ppoll(t) ==
    /\ PiAt(t, "idle") /\ PiDoes(t, "poll") /\ ends[t] # {}
    /\ PiPut(t, [pc |-> "poll_scan"])
    /\ UNCHANGED <<pipeSc, buffer, poll, fifo, plock, ends, pcall>>
pselect6(t) ==
    /\ PiAt(t, "idle") /\ PiDoes(t, "select") /\ ends[t] # {}
    /\ PiPut(t, [pc |-> "poll_scan", select |-> TRUE])
    /\ UNCHANGED <<pipeSc, buffer, poll, fifo, plock, ends, pcall>>

ppoll_scan(t) ==
    /\ PiAt(t, "poll_scan") /\ plock = PiNobody
    /\ IF poll_ready(t) \/ ptask[t].due THEN PiPut(t, [pc |-> "return", interruptible |-> FALSE])
       ELSE PiPut(t, [pc |-> "poll_register", interruptible |-> TRUE])
    /\ UNCHANGED <<pipeSc, buffer, poll, fifo, plock, ends, pcall>>

\* A signal that is already there ends the call before it registers.
ppoll_register(t) ==
    /\ PiAt(t, "poll_register")
    /\ IF pipe_check_interrupt(t) \/ ptask[t].interrupted
       THEN /\ PiPut(t, [pc |-> "return", interruptible |-> FALSE, interrupted |-> FALSE])
            /\ UNCHANGED poll
       ELSE /\ poll' = [poll EXCEPT ![t] = ends[t] \cup (IF ptask[t].select THEN {} ELSE {"h"})]
            /\ PiPut(t, [pc |-> "poll_prepare"])
    /\ UNCHANGED <<pipeSc, buffer, fifo, plock, ends, pcall>>

\* block_for_poll(): Blocked first, then a second look, then the switch.
block_for_poll(t) ==
    /\ PiAt(t, "poll_prepare")
    /\ PiPut(t, [pc |-> "poll_recheck", sched |-> "Blocked"])
    /\ UNCHANGED <<pipeSc, buffer, poll, fifo, plock, ends, pcall>>
poll_second_look(t) == poll_ready(t)
poll_recheck(t) ==
    /\ PiAt(t, "poll_recheck") /\ plock = PiNobody
    /\ IF \/ poll_second_look(t) \/ ptask[t].due \/ pipe_check_interrupt(t)
          \/ ptask[t].interrupted \/ ptask[t].sched = "Ready"
       THEN PiPut(t, [pc |-> "poll_done", sched |-> "Running"])
       ELSE PiPut(t, [pc |-> "poll_asleep"])
    /\ UNCHANGED <<pipeSc, buffer, poll, fifo, plock, ends, pcall>>
poll_resume(t) ==
    /\ PiAt(t, "poll_asleep") /\ ptask[t].sched = "Ready"
    /\ PiPut(t, [pc |-> "poll_done", sched |-> "Running"])
    /\ UNCHANGED <<pipeSc, buffer, poll, fifo, plock, ends, pcall>>

\* The registration goes; then EINTR, the timeout, or another scan.
poll_done(t) ==
    /\ PiAt(t, "poll_done")
    /\ poll' = [poll EXCEPT ![t] = {}]
    /\ PiPut(t, [pc |-> IF ptask[t].interrupted \/ ptask[t].due THEN "return" ELSE "poll_scan",
               interruptible |-> FALSE, interrupted |-> FALSE])
    /\ UNCHANGED <<pipeSc, buffer, fifo, plock, ends, pcall>>

\* The deadline passes; the timer service wakes the task.
poll_timeout(t) ==
    /\ PiDoes(t, "timeout") /\ ~ptask[t].due
    /\ ptask[t].pc \in {"poll_scan", "poll_register", "poll_prepare", "poll_recheck", "poll_asleep"}
    /\ ptask' = PiWoken({t}, [ptask EXCEPT ![t].due = TRUE])
    /\ UNCHANGED <<pipeSc, buffer, poll, fifo, plock, ends, pcall>>

-----------------------------------------------------------------------------
PipeOpen(t) == \/ \E nonblock \in BOOLEAN : open_fifo(t, nonblock)
               \/ open_check(t) \/ open_prepare(t) \/ fifo_recheck(t)
               \/ open_resume(t) \/ open_done(t)
PipePoll(t) == \/ ppoll(t) \/ pselect6(t) \/ ppoll_scan(t) \/ ppoll_register(t) \/ block_for_poll(t)
               \/ poll_recheck(t) \/ poll_resume(t) \/ poll_done(t) \/ poll_timeout(t)
PipeStep(t) ==
    \/ \E op \in {"read", "write"}, n \in pipeSc.lens, nonblock \in BOOLEAN :
          PipeCall(t, op, n, nonblock)
    \/ pipe_read(t) \/ pipe_write(t) \/ pipe_prepare(t) \/ pipe_resume(t) \/ pipe_wake(t)
    \/ poll_notify(t) \/ notify_kick(t) \/ pipe_return(t) \/ pipe_signal(t)
    \/ \E c \in Capacities : set_capacity(t, c)
    \/ \E e \in {"r", "w"} : drop_pipe(t, e)
    \/ drop_fifo(t)

PipeNext == \/ \E t \in PiTasks : PipeStep(t)
            \/ \E t \in PiTasks : PipeOpen(t)
            \/ \E t \in PiTasks : PipePoll(t)

PipeSpec == PipeInit /\ [][PipeNext]_pipeVars

-----------------------------------------------------------------------------
(* Properties.                                                             *)

\* Types; a task in a waiter queue is one that has queued itself up, and the
\* data never exceed the capacity (the assertion in write_byte()).
PipeTypeOK ==
    /\ buffer.data \in Seq(PiTasks) /\ Len(buffer.data) <= buffer.capacity
    /\ \A i \in DOMAIN buffer.read_waiters :
          ptask[buffer.read_waiters[i]].pc \in {"prepare", "asleep"}
    /\ \A i \in DOMAIN buffer.write_waiters :
          ptask[buffer.write_waiters[i]].pc \in {"prepare", "asleep"}
    /\ poll \in [PiTasks -> SUBSET {"r", "w", "h"}]
    /\ fifo.readers \in 0 .. Cardinality(PiTasks) /\ fifo.writers \in 0 .. Cardinality(PiTasks)
    /\ plock \in PiTasks \cup {PiNobody}

\* A task that nobody is about to wake.
PiStranded(t) == /\ ptask[t].sched = "Blocked"
               /\ \A u \in PiTasks : t \notin ptask[u].wake
ReportComing(t) == \E u \in PiTasks : /\ ptask[u].pc \in {"wake", "notify"}
                                    /\ ptask[u].events \cap poll[t] # {}

\* Somebody on the side of t is awake in the same call and will look.
OneAwake(t) == \E u \in PiTasks : /\ ptask[u].pc \in {pcall[t].op, "asleep"} /\ ~PiStranded(u)
                                  /\ pcall[u].op = pcall[t].op
\* Nobody stays asleep in read() with data or the end of file before it, nor
\* in write() when its bytes would fit or nobody can read them, unless one
\* like it has been woken for them: the wake handed over by the other side,
\* or by its close, is not lost.
SleeperHasCause ==
    \A t \in PiTasks : (PiAt(t, "asleep") /\ PiStranded(t) /\ ~OneAwake(t)) =>
       IF pcall[t].op = "read" THEN ~pipe_read_ready
       ELSE ~buffer.read_closed /\ write_size(pcall[t].len) = 0

\* No signal is slept through in read(), write() or open().
SignalEndsCall ==
    \A t \in PiTasks : (ptask[t].pc \in {"asleep", "open_asleep"} /\ PiStranded(t)) => ~ptask[t].pending

\* When the last end of one side closes, every task that sleeps on the other
\* side is woken, however many there are (Drop for Pipe, for NamedFifoEnd).
LastCloseWakesAll ==
    \A t \in PiTasks : (PiAt(t, "asleep") /\ PiStranded(t)) =>
       IF pcall[t].op = "read" THEN ~buffer.write_closed ELSE ~buffer.read_closed

\* A task asleep in ppoll() or pselect6() is about to be woken if its
\* descriptor is ready, whatever happened to its registration; and no deadline
\* or signal is slept through.
PollerWakes ==
    \A t \in PiTasks : (PiAt(t, "poll_asleep") /\ PiStranded(t)) =>
       /\ poll_ready(t) => ReportComing(t)
       /\ ~ptask[t].due /\ ~ptask[t].pending

\* Nobody sleeps on a FIFO whose other side is gone: its reader would have to
\* see the end of file, its writer EPIPE (the module comment of pipe.rs).
HangUpSeen ==
    pipeSc.kind = "fifo" =>
       \A t \in PiTasks : (PiAt(t, "asleep") /\ PiStranded(t)) =>
          IF pcall[t].op = "read" THEN fifo.writers > 0 ELSE fifo.readers > 0

\* The counts of a FIFO are its open ends and the openers under way, also
\* after interrupted opens: otherwise the end of file or EPIPE never comes.
FifoCounts ==
    pipeSc.kind = "fifo" =>
       LET using(e) == {t \in PiTasks : e \in ends[t] \/
                           (e \in Opens(t) /\ ptask[t].pc \in {"open", "open_wait", "open_met",
                                                   "open_recheck", "open_asleep", "opened"})}
       IN  fifo.readers = Cardinality(using("r")) /\ fifo.writers = Cardinality(using("w"))

\* The blocking open() of one side succeeds only when the other side has come
\* ("the matching opener has completed the rendezvous", open_named_fifo()).
OpenMeansMet ==
    \A t \in PiTasks :
       (PiAt(t, "opened") /\ ~ptask[t].nb /\ Cardinality(Opens(t)) = 1) => ptask[t].met

\* An opener that sleeps in its queue has nobody to meet, or the opener it is
\* to meet has yet to look at the queue.
QueuedOpenersMeet ==
    \A t \in fifo.open_r \cup fifo.open_w :
       (PiAt(t, "open_asleep") /\ PiStranded(t) /\ Counterpart(t)) =>
          \E u \in PiTasks : PiAt(u, "open") /\ Opens(u) # Opens(t)

\* A pipe does what a byte queue does: reads return prefixes in the order of
\* the writes, short writes are whole, and errors have their reasons.
BQ == INSTANCE ByteQueue WITH
         Callers <- PiTasks, PipeBuf <- PIPE_BUF, BqNone <- PiNobody,
         bytes <- IF pipeSc.kind = "pipe" THEN buffer.data ELSE <<>>,
         room <- IF pipeSc.kind = "pipe" THEN buffer.capacity ELSE PIPE_BUF,
         noReader <- pipeSc.kind = "pipe" /\ buffer.read_closed,
         noWriter <- pipeSc.kind = "pipe" /\ buffer.write_closed,
         call <- IF pipeSc.kind = "pipe" THEN pcall ELSE [t \in PiTasks |-> PiNoCall]
ImplementsByteQueue == BQ!BqSpec

=============================================================================
