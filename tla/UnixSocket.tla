----------------------------- MODULE UnixSocket -----------------------------
(***************************************************************************)
(* AF_UNIX stream sockets (net/socket.rs): the two byte buffers of a pair, *)
(* the listener with its backlog, half close, and the drop of the last     *)
(* reference to an endpoint.                                               *)
(*                                                                         *)
(* A buffer lock, and the listener's pending lock, cover the transfer, the *)
(* waiter queues and the moment a task marks itself Blocked, so each such  *)
(* section is one step.  The shutdown and closed flags are atomics outside *)
(* every lock.  wakeup_task() follows the unlock and is a step of its own. *)
(* Bytes of a stream are numbered from 1.  poll() on a socket uses the     *)
(* tables that Pipe models and is not repeated here.                       *)
(***************************************************************************)
EXTENDS Integers, Sequences, SequencesExt, FiniteSets, TLC

CONSTANTS
    UsTasks,                   \* tasks, as numbers 1, 2, ...
    UNIX_SOCKET_BUFFER_LIMIT,
    UNIX_LISTEN_QUEUE_LIMIT,
    UsScenarios   \* records: pair (are sockets 1 and 2 connected), the calls
                  \* each task makes, the tasks a signal may hit

ASSUME UsAssumption ==
    /\ UsTasks \subseteq 1 .. 9
    /\ UNIX_SOCKET_BUFFER_LIMIT \in Nat \ {0} /\ UNIX_LISTEN_QUEUE_LIMIT \in Nat \ {0}

\* Endpoints: 1 and 2 are sockets of the tasks, 3 is bound to a name, 10 + t
\* is the server side that connect_path() of task t creates.
UsListener == 3
UsServer(t) == 10 + t
UsIds == {1, 2, UsListener} \cup {UsServer(t) : t \in UsTasks}
NoSock == 0

VARIABLES
    usSc,    \* the scenario
    sock,    \* UnixSocket with its UnixBuffer, per endpoint
    lstn,    \* UnixListener with UnixPending
    utask    \* the call each task is in, and its scheduler and signal state

usVars == <<usSc, sock, lstn, utask>>

\* refs: some descriptor or backlog refers to it.  sent, got: the numbers of
\* the last byte put into data and of the last one a reader consumed.
UsNew == [peer |-> NoSock, data |-> <<>>, sent |-> 0, got |-> 0,
          read_waiters |-> <<>>, write_waiters |-> <<>>, read_shutdown |-> FALSE,
          write_shutdown |-> FALSE, closed |-> FALSE, refs |-> FALSE, drop |-> "no", wake |-> {}]
UsIdle == [pc |-> "idle", k |-> 1, peer |-> NoSock, acc |-> NoSock, late |-> FALSE,
           sched |-> "Running", interrupted |-> FALSE, signalled |-> FALSE, wake |-> {},
           ret |-> "none", lost |-> FALSE]

UsInit ==
    /\ usSc \in UsScenarios
    /\ sock = [x \in UsIds |->
          IF x \in {1, 2} THEN [UsNew EXCEPT !.refs = TRUE, !.peer = IF usSc.pair THEN 3 - x ELSE NoSock]
          ELSE [UsNew EXCEPT !.refs = (x = UsListener)]]
    /\ lstn = [state |-> "none", pending |-> <<>>, accept_waiters |-> <<>>,
               connect_waiters |-> <<>>, wake |-> {}]
    /\ utask = [t \in UsTasks |-> UsIdle]

UsOp(t) == usSc.prog[t][utask[t].k]
UsAt(t, l) == utask[t].pc = l
UsOn(t) == IF UsOp(t).s = NoSock THEN utask[t].acc ELSE UsOp(t).s
UsBusy(x) == {t \in UsTasks : utask[t].pc # "idle" /\ UsOn(t) = x}
Forget(q, t) == SelectSeq(q, LAMBDA u : u # t)
First(q) == IF q = <<>> THEN {} ELSE {Head(q)}
Rest(q) == IF q = <<>> THEN q ELSE Tail(q)

UsSet(t, r) == utask' = [utask EXCEPT ![t] = r @@ @]
\* The call ends: the next one of the program is due, and a signal that was
\* pending is handled on the way out.
UsEnd(t, r) == UsSet(t, [pc |-> "idle", k |-> utask[t].k + 1, ret |-> r, late |-> FALSE,
                         interrupted |-> FALSE])
\* wakeup_task() for the tasks of W.
UsWoken(W, T) == [u \in UsTasks |-> IF u \in W /\ T[u].sched = "Blocked"
                                    THEN [T[u] EXCEPT !.sched = "Ready"] ELSE T[u]]
\* push_back() on a waiter queue, the deadline, prepare_current_task_blocked(),
\* and a wake of oneself when a signal is already there.
UsSleep(t) == UsSet(t, [pc |-> "asleep",
                        sched |-> IF utask[t].interrupted THEN "Ready" ELSE "Blocked"])

-----------------------------------------------------------------------------
(* Calls, deadlines and signals.                                           *)

UsCall(t) ==
    /\ UsAt(t, "idle") /\ utask[t].k <= Len(usSc.prog[t])
    /\ LET x == UsOn(t)
       IN  IF x \in UsIds => ~sock[x].refs THEN UsEnd(t, "EBADF")
           ELSE UsSet(t, [pc |-> UsOp(t).op, peer |-> sock[x].peer, ret |-> "none"])
    /\ UNCHANGED <<usSc, sock, lstn>>

\* The deadline of a call with a timeout passes; the timer wakes a sleeper.
UsDeadline(t) ==
    /\ utask[t].pc # "idle" /\ UsOp(t).timed /\ ~utask[t].late
    /\ utask' = UsWoken({t}, [utask EXCEPT ![t].late = TRUE])
    /\ UNCHANGED <<usSc, sock, lstn>>

\* A deliverable signal arrives, once.
UsSignal(t) ==
    /\ t \in usSc.sig /\ ~utask[t].signalled /\ utask[t].pc # "idle"
    /\ utask' = UsWoken({t}, [utask EXCEPT ![t].signalled = TRUE, ![t].interrupted = TRUE])
    /\ UNCHANGED <<usSc, sock, lstn>>

\* The wake-ups a call owes, after its unlock.
UsWake(t) ==
    /\ UsAt(t, "wake")
    /\ utask' = UsWoken(utask[t].wake,
                   [utask EXCEPT ![t].pc = "idle", ![t].k = @ + 1, ![t].wake = {},
                                 ![t].late = FALSE, ![t].interrupted = FALSE])
    /\ UNCHANGED <<usSc, sock, lstn>>

-----------------------------------------------------------------------------
(* read() and write().                                                     *)

\* Nothing more can arrive at x, whose peer is p.
peer_eof(x, p) == sock[x].read_shutdown \/ sock[p].closed \/ sock[p].write_shutdown

read_len_taken(t, n) == IF UsOp(t).peek THEN 0 ELSE n
wake_writer(t, q) == IF UsOp(t).peek THEN {} ELSE First(q)

\* UnixSocket::read(), from the lock of rx to its release.  `again` is the
\* second, non-blocking look after a deadline or a signal.
read_locked(t, again) ==
    LET x == UsOn(t)
        s == sock[x]
        nb == UsOp(t).nb \/ again
        all == UsOp(t).all /\ ~nb
        eof == peer_eof(x, utask[t].peer)
        n == Min({UsOp(t).n, Len(s.data)})
        taken == read_len_taken(t, n)
    IN  \/ /\ n > 0 /\ (all => n = UsOp(t).n \/ eof \/ utask[t].late)
           /\ sock' = [sock EXCEPT ![x].data = SubSeq(@, taken + 1, Len(@)),
                  ![x].got = IF UsOp(t).peek THEN @ ELSE @ + n,
                  ![x].write_waiters = IF UsOp(t).peek THEN @ ELSE Rest(@)]
           /\ UsSet(t, [pc |-> "wake", ret |-> "ok",
                        wake |-> wake_writer(t, s.write_waiters)])
        \/ /\ ~(n > 0 /\ (all => n = UsOp(t).n \/ eof \/ utask[t].late))
           /\ \/ eof /\ UsEnd(t, "eof") /\ UNCHANGED sock
              \/ ~eof /\ (nb \/ utask[t].late)
                 /\ UsEnd(t, IF again THEN utask[t].ret ELSE "EAGAIN")
                 /\ UNCHANGED sock
              \/ ~eof /\ ~nb /\ ~utask[t].late /\ utask[t].interrupted
                 /\ (IF n > 0 THEN UsSet(t, [pc |-> "read_again", ret |-> "EAGAIN"])
                     ELSE UsEnd(t, "EINTR"))
                 /\ UNCHANGED sock
              \/ /\ ~eof /\ ~nb /\ ~utask[t].late /\ ~utask[t].interrupted
                 /\ sock' = [sock EXCEPT ![x].read_waiters = Append(@, t)]
                 /\ UsSleep(t)

us_read(t) ==
    /\ UsAt(t, "read")
    /\ IF utask[t].peer = NoSock THEN UsEnd(t, "ENOTCONN") /\ UNCHANGED sock
       ELSE read_locked(t, FALSE)
    /\ UNCHANGED <<usSc, lstn>>
us_read_again(t) ==
    /\ UsAt(t, "read_again")
    /\ read_locked(t, TRUE)
    /\ UNCHANGED <<usSc, lstn>>

\* UnixSocket::write() looks at the flags before it takes the buffer lock.
write_refused(t) == \/ sock[UsOn(t)].write_shutdown
                    \/ sock[utask[t].peer].closed
                    \/ sock[utask[t].peer].read_shutdown
us_write(t) ==
    /\ UsAt(t, "write")
    /\ IF utask[t].peer = NoSock THEN UsEnd(t, "ENOTCONN")
       ELSE IF write_refused(t) THEN UsEnd(t, "EPIPE")
       ELSE UsSet(t, [pc |-> "write_locked"])
    /\ UNCHANGED <<usSc, sock, lstn>>

wake_no_reader(q) == {}                            \* mutant: no reader is woken
wake_reader(q) == First(q)
us_write_locked(t) ==
    /\ UsAt(t, "write_locked")
    /\ LET p == utask[t].peer
           room == UNIX_SOCKET_BUFFER_LIMIT - Len(sock[p].data)
           n == Min({UsOp(t).n, room})
       IN  \/ /\ room > 0
              /\ sock' = [sock EXCEPT
                     ![p].data = @ \o [i \in 1 .. n |-> sock[p].sent + i],
                     ![p].sent = @ + n, ![p].read_waiters = Rest(@)]
              /\ UsSet(t, [pc |-> "wake", ret |-> "ok", wake |-> wake_reader(sock[p].read_waiters)])
           \/ /\ room <= 0 /\ (UsOp(t).nb \/ utask[t].late \/ utask[t].interrupted)
              /\ UsEnd(t, IF UsOp(t).nb \/ utask[t].late THEN "EAGAIN" ELSE "EINTR")
              /\ UNCHANGED sock
           \/ /\ room <= 0 /\ ~UsOp(t).nb /\ ~utask[t].late /\ ~utask[t].interrupted
              /\ sock' = [sock EXCEPT ![p].write_waiters = Append(@, t)]
              /\ UsSleep(t)
    /\ UNCHANGED <<usSc, lstn>>

\* finish_interruptible_wait() and the removal from the waiter queue: the
\* reader has a last look, the others report the deadline or the signal.
us_resume(t) ==
    /\ UsAt(t, "asleep") /\ utask[t].sched = "Ready"
    /\ LET x == UsOn(t)
           p == utask[t].peer
           gone == utask[t].late \/ utask[t].interrupted
           err == IF utask[t].interrupted THEN "EINTR" ELSE "EAGAIN"
       IN  /\ sock' = CASE UsOp(t).op = "read" -> [sock EXCEPT ![x].read_waiters = Forget(@, t)]
                        [] UsOp(t).op = "write" -> [sock EXCEPT ![p].write_waiters = Forget(@, t)]
                        [] OTHER -> sock
           /\ lstn' = [lstn EXCEPT !.accept_waiters = Forget(@, t), !.connect_waiters = Forget(@, t)]
           /\ UsSet(t, CASE ~gone -> [sched |-> "Running",
                                      pc |-> IF UsOp(t).op = "connect" THEN "connect_locked" ELSE UsOp(t).op]
                         [] gone /\ UsOp(t).op = "read" -> [pc |-> "read_again", sched |-> "Running", ret |-> err]
                         [] OTHER -> [pc |-> "idle", k |-> utask[t].k + 1, sched |-> "Running",
                                      ret |-> err, late |-> FALSE, interrupted |-> FALSE,
                                      lost |-> UsOp(t).op = "write" /\ ~write_refused(t)
                                                  /\ Len(sock[p].data) < UNIX_SOCKET_BUFFER_LIMIT])
    /\ UNCHANGED usSc

-----------------------------------------------------------------------------
(* Listener, connection and accept.                                        *)

us_listen(t) ==
    /\ UsAt(t, "listen")
    /\ IF lstn.state = "none" THEN lstn' = [lstn EXCEPT !.state = "open"] /\ UsEnd(t, "ok")
       ELSE UsEnd(t, "EADDRINUSE") /\ UNCHANGED lstn
    /\ UNCHANGED <<usSc, sock>>

\* connect_path(): the check that the socket is not connected, and the look-up
\* of the listener, which the task keeps a reference to from here.
us_connect(t) ==
    /\ UsAt(t, "connect")
    /\ CASE utask[t].peer # NoSock -> UsEnd(t, "EISCONN")
         [] utask[t].peer = NoSock /\ lstn.state # "open" -> UsEnd(t, "ECONNREFUSED")
         [] OTHER -> UsSet(t, [pc |-> "connect_locked"])
    /\ UNCHANGED <<usSc, sock, lstn>>

connect_room == Len(lstn.pending) < UNIX_LISTEN_QUEUE_LIMIT
connect_refused == lstn.state \notin {"none", "open"}

us_connect_locked(t) ==
    /\ UsAt(t, "connect_locked")
    /\ LET x == UsOn(t)
           s == UsServer(t)
       IN  \/ /\ connect_refused /\ UsEnd(t, "ECONNREFUSED") /\ UNCHANGED <<sock, lstn>>
           \/ /\ ~connect_refused /\ connect_room
              /\ sock' = [sock EXCEPT ![s] = [UsNew EXCEPT !.refs = TRUE, !.peer = x], ![x].peer = s]
              /\ lstn' = [lstn EXCEPT !.pending = Append(@, s), !.accept_waiters = Rest(@)]
              /\ UsSet(t, [pc |-> "wake", ret |-> "ok", wake |-> First(lstn.accept_waiters)])
           \/ /\ ~connect_refused /\ ~connect_room /\ (UsOp(t).nb \/ utask[t].interrupted)
              /\ UsEnd(t, IF UsOp(t).nb THEN "EAGAIN" ELSE "EINTR")
              /\ UNCHANGED <<sock, lstn>>
           \/ /\ ~connect_refused /\ ~connect_room /\ ~UsOp(t).nb /\ ~utask[t].interrupted
              /\ lstn' = [lstn EXCEPT !.connect_waiters = Append(@, t)]
              /\ UsSleep(t) /\ UNCHANGED sock
    /\ UNCHANGED usSc

us_accept(t) ==
    /\ UsAt(t, "accept")
    /\ \/ /\ lstn.state = "none" /\ UsEnd(t, "EINVAL") /\ UNCHANGED lstn
       \/ /\ lstn.state # "none" /\ lstn.pending # <<>>
          /\ lstn' = [lstn EXCEPT !.pending = Tail(@), !.connect_waiters = Rest(@)]
          /\ UsSet(t, [pc |-> "wake", ret |-> "ok", wake |-> First(lstn.connect_waiters), acc |-> Head(lstn.pending)])
       \/ /\ lstn.state # "none" /\ lstn.pending = <<>>
          /\ UsOp(t).nb \/ utask[t].late \/ utask[t].interrupted
          /\ UsEnd(t, IF UsOp(t).nb \/ utask[t].late THEN "EAGAIN" ELSE "EINTR")
          /\ UNCHANGED lstn
       \/ /\ lstn.state # "none" /\ lstn.pending = <<>>
          /\ ~UsOp(t).nb /\ ~utask[t].late /\ ~utask[t].interrupted
          /\ lstn' = [lstn EXCEPT !.accept_waiters = Append(@, t)]
          /\ UsSleep(t)
    /\ UNCHANGED <<usSc, sock>>

-----------------------------------------------------------------------------
(* Half close, and the drop of the last reference.                         *)

\* shutdown(): the flag, then the buffer section, for each half asked for.
us_shutdown(t) ==
    /\ UsAt(t, "shutdown")
    /\ LET x == UsOn(t)
       IN  IF utask[t].peer = NoSock THEN UsEnd(t, "ENOTCONN") /\ UNCHANGED sock
           ELSE IF "r" \in UsOp(t).how
           THEN /\ sock' = [sock EXCEPT ![x].read_shutdown = TRUE]
                /\ UsSet(t, [pc |-> "shut_r"])
           ELSE /\ sock' = [sock EXCEPT ![x].write_shutdown = TRUE]
                /\ UsSet(t, [pc |-> "shut_w"])
    /\ UNCHANGED <<usSc, lstn>>
us_shut_r(t) ==
    /\ UsAt(t, "shut_r")
    /\ LET x == UsOn(t)
       IN  /\ sock' = [sock EXCEPT ![x].data = <<>>, ![x].got = sock[x].sent,
                  ![x].read_waiters = <<>>, ![x].write_waiters = <<>>]
           /\ UsSet(t, [pc |-> IF "w" \in UsOp(t).how THEN "shut_next" ELSE "wake", ret |-> "ok",
                  wake |-> ToSet(sock[x].read_waiters) \cup ToSet(sock[x].write_waiters)])
    /\ UNCHANGED <<usSc, lstn>>
us_shut_next(t) ==
    /\ UsAt(t, "shut_next")
    /\ utask' = UsWoken(utask[t].wake, [utask EXCEPT ![t].pc = "shut_w", ![t].wake = {}])
    /\ sock' = [sock EXCEPT ![UsOn(t)].write_shutdown = TRUE]
    /\ UNCHANGED <<usSc, lstn>>
shut_w_readers(q) == ToSet(q)
us_shut_w(t) ==
    /\ UsAt(t, "shut_w")
    /\ LET p == utask[t].peer
       IN  /\ sock' = [sock EXCEPT ![p].read_waiters = <<>>, ![p].write_waiters = <<>>]
           /\ UsSet(t, [pc |-> "wake", ret |-> "ok",
                  wake |-> shut_w_readers(sock[p].read_waiters) \cup ToSet(sock[p].write_waiters)])
    /\ UNCHANGED <<usSc, lstn>>

\* close() of the last descriptor of an endpoint.
us_close(t) ==
    /\ UsAt(t, "close")
    /\ sock' = [sock EXCEPT ![UsOn(t)].refs = FALSE]
    /\ UsEnd(t, "ok")
    /\ UNCHANGED <<usSc, lstn>>

\* Drop for UnixSocket, once no call holds the endpoint: the flags, the
\* readers of the peer, the writers to this side, the wake-ups, the listener.
DropStep(x, from, to) == sock[x].drop = from /\ sock' = [sock EXCEPT ![x] = to @@ @]
us_drop_flags(x) ==
    /\ ~sock[x].refs /\ UsBusy(x) = {} /\ (sock[x].peer # NoSock \/ x = UsListener)
    /\ DropStep(x, "no", [closed |-> TRUE, read_shutdown |-> TRUE, write_shutdown |-> TRUE,
                          drop |-> "peer"])
    /\ UNCHANGED <<usSc, lstn, utask>>
us_drop_peer(x) ==
    /\ sock[x].drop = "peer"
    /\ LET p == sock[x].peer
           q == IF p = NoSock THEN <<>> ELSE sock[p].read_waiters
       IN  sock' = [y \in UsIds |->
               CASE y = x -> [sock[x] EXCEPT !.drop = "own", !.wake = ToSet(q)]
                 [] y = p -> [sock[y] EXCEPT !.read_waiters = <<>>]
                 [] OTHER -> sock[y]]
    /\ UNCHANGED <<usSc, lstn, utask>>
us_drop_own(x) ==
    /\ DropStep(x, "own", [drop |-> "wake", write_waiters |-> <<>>,
                           wake |-> sock[x].wake \cup ToSet(sock[x].write_waiters)])
    /\ UNCHANGED <<usSc, lstn, utask>>
us_drop_wake(x) ==
    /\ DropStep(x, "wake", [drop |-> "done", wake |-> {}])
    /\ utask' = UsWoken(sock[x].wake, utask)
    /\ lstn' = IF x = UsListener /\ lstn.state = "open" THEN [lstn EXCEPT !.state = "closing"] ELSE lstn
    /\ UNCHANGED usSc

\* UnixSocket::close() of the listener: its waiters are taken and woken.
us_close_listener ==
    /\ lstn.state = "closing" /\ lstn.wake = {}
    /\ lstn' = [lstn EXCEPT !.state = "closed", !.accept_waiters = <<>>, !.connect_waiters = <<>>]
    /\ utask' = UsWoken(ToSet(lstn.accept_waiters) \cup ToSet(lstn.connect_waiters), utask)
    /\ UNCHANGED <<usSc, sock>>

listener_held ==
    \E t \in UsTasks : utask[t].pc \in {"connect_locked", "asleep"} /\ UsOp(t).op = "connect"

\* The last reference to the listener goes, with the backlog it holds.
backlog_left == <<>>
us_free_listener ==
    /\ lstn.state = "closed"
    /\ ~listener_held
    /\ sock' = [x \in UsIds |-> IF Contains(lstn.pending, x) /\ ~Contains(backlog_left, x)
                                THEN [sock[x] EXCEPT !.refs = FALSE] ELSE sock[x]]
    /\ lstn' = [lstn EXCEPT !.state = "freed", !.pending = backlog_left]
    /\ UNCHANGED <<usSc, utask>>

UsNext ==
    \/ us_close_listener \/ us_free_listener
    \/ \E x \in UsIds : us_drop_flags(x) \/ us_drop_peer(x) \/ us_drop_own(x) \/ us_drop_wake(x)
    \/ \E t \in UsTasks :
          \/ UsCall(t) \/ UsDeadline(t) \/ UsSignal(t) \/ UsWake(t) \/ us_resume(t)
          \/ us_read(t) \/ us_read_again(t) \/ us_write(t) \/ us_write_locked(t)
          \/ us_listen(t) \/ us_connect(t) \/ us_connect_locked(t) \/ us_accept(t)
          \/ us_shutdown(t) \/ us_shut_r(t) \/ us_shut_next(t) \/ us_shut_w(t) \/ us_close(t)

UsSpec == UsInit /\ [][UsNext]_usVars

-----------------------------------------------------------------------------
(* Properties.                                                             *)

\* Every variable has its type; waiters are queued once and the backlog keeps
\* within its limit (connect_path() tests the length under the pending lock).
UsTypeOK ==
    /\ lstn.state \in {"none", "open", "closing", "closed", "freed"}
    /\ Len(lstn.pending) <= UNIX_LISTEN_QUEUE_LIMIT
    /\ IsInjective(lstn.accept_waiters) /\ IsInjective(lstn.connect_waiters)
    /\ \A x \in UsIds :
          /\ Len(sock[x].data) <= UNIX_SOCKET_BUFFER_LIMIT
          /\ sock[x].peer \in UsIds \cup {NoSock} /\ sock[x].wake \subseteq UsTasks
          /\ IsInjective(sock[x].read_waiters) /\ IsInjective(sock[x].write_waiters)
    /\ \A t \in UsTasks : utask[t].sched \in {"Running", "Blocked", "Ready"}

UsAsleep(t, op) == utask[t].sched = "Blocked" /\ UsOp(t).op = op
\* Somebody has taken t off its queue and not yet called wakeup_task().
UsOwed(t) == \/ \E u \in UsTasks : t \in utask[u].wake
             \/ \E x \in UsIds : t \in sock[x].wake
\* A half close or a drop has set its flag and not yet reached the queues.
UsClosing(x) == \/ sock[x].drop \in {"peer", "own"}
                \/ \E t \in UsTasks : utask[t].pc \in {"shut_r", "shut_next", "shut_w"} /\ UsOn(t) = x

\* The bytes in a buffer are those written and not yet read, in order and
\* without gaps, through PEEK, WAITALL, partial reads and the second look
\* after a signal (UnixSocket::read() pops exactly what it returns).
UsStreamIntact ==
    \A x \in UsIds : sock[x].data = [i \in 1 .. sock[x].sent - sock[x].got |-> sock[x].got + i]

\* No reader sleeps at the end of its stream: read() tests the flags under the
\* lock that the closing side takes after setting them, to wake the readers.
UsEofWakesReaders ==
    \A t \in UsTasks : UsAsleep(t, "read") /\ peer_eof(UsOn(t), utask[t].peer) =>
        UsOwed(t) \/ UsClosing(UsOn(t)) \/ UsClosing(utask[t].peer)

\* No writer sleeps towards a peer that is gone or reads no more, or after its
\* own half was closed (write() promises EPIPE).
UsHangUpWakesWriters ==
    \A t \in UsTasks : UsAsleep(t, "write") /\ write_refused(t) =>
        UsOwed(t) \/ UsClosing(UsOn(t)) \/ UsClosing(utask[t].peer)

\* Another task is awake in the same call on the same endpoint, and will look.
UsOneAwake(t) == \E u \in UsBusy(UsOn(t)) \ {t} :
    UsOp(u).op = UsOp(t).op /\ (utask[u].sched # "Blocked" \/ UsOwed(u))
UsHasCause(t) ==
    CASE UsOp(t).op = "read" -> Len(sock[UsOn(t)].data) < (IF UsOp(t).all THEN UsOp(t).n ELSE 1)
      [] UsOp(t).op = "write" -> Len(sock[utask[t].peer].data) = UNIX_SOCKET_BUFFER_LIMIT
      [] UsOp(t).op = "accept" -> lstn.pending = <<>>
      [] UsOp(t).op = "connect" -> lstn.state = "closing" \/ (lstn.state = "open" /\ ~connect_room)
\* A task sleeps for a reason: a reader has too few bytes, a writer a full
\* buffer, an acceptor no connection, a connector a full backlog of a listener
\* that is open (waiter and condition share a lock, and each side wakes the
\* oldest waiter of the other); or one like it has been woken in its place.
UsSleeperHasCause ==
    \A t \in UsTasks : utask[t].sched = "Blocked" /\ ~UsOwed(t) /\ ~UsOneAwake(t) => UsHasCause(t)

\* A write() that its deadline or a signal ends has found the buffer full to
\* the last ("first a non-blocking retry", the comment of write()).
UsLastLook == \A t \in UsTasks : ~utask[t].lost

\* The readers and the writers of one buffer never all sleep: whoever changes
\* it wakes the other side, so the two ends cannot wait for each other.
UsNotAllAsleep ==
    \A x \in UsIds :
        LET R == {t \in UsTasks : UsAsleep(t, "read") /\ UsOn(t) = x}
            W == {t \in UsTasks : UsAsleep(t, "write") /\ utask[t].peer = x}
        IN  R # {} /\ W # {} =>
                \/ \E t \in R \cup W : UsOwed(t)
                \/ \E t \in UsTasks \ (R \cup W) :
                      utask[t].pc # "idle" /\ (UsOn(t) = x \/ utask[t].peer = x)

\* A connection that was queued and never accepted is closed once the listener
\* is gone, so its client sees the end of the stream (the backlog is owned by
\* the listener, and connect_path() tests closed under the pending lock).
UsNoOrphan ==
    lstn.state = "freed" =>
        \A t \in UsTasks : sock[UsServer(t)].refs => \E u \in UsTasks : utask[u].acc = UsServer(t)

=============================================================================
