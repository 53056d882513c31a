-------------------------------- MODULE Inet --------------------------------
(***************************************************************************)
(* TCP sockets (net/tcp.rs), the listen table (net/listen.rs) and the      *)
(* polling of the interfaces (net/mod.rs) over the loopback device.        *)
(*                                                                         *)
(* The sockets of the vendored smoltcp are the records in `net`: a poll of *)
(* the interface carries everything that can be delivered, and a handle is *)
(* the first free slot of the socket set.  Retransmission, windows and     *)
(* sequence numbers are left out, since the loopback device loses nothing. *)
(* Bytes are counted, not named.  TcpSocket's atomics are read and written *)
(* outside the locks; SOCKET_SET and the interface are the two locks whose *)
(* order matters, and LISTEN_TABLE, which nests in neither, covers one     *)
(* step.                                                                   *)
(***************************************************************************)
EXTENDS Integers, FiniteSets, Sequences, SequencesExt, FiniteSetsExt, TLC

CONSTANTS
    TcpTasks,       \* numbers 1, 2, ...
    TcpSocks,       \* TcpSocket objects 1, 2, ...; task t accepts into 10 + t
    NHandles,       \* bound: slots of the socket set
    TCP_BUF,        \* TCP_RX_BUF_LEN and TCP_TX_BUF_LEN
    TcpScenarios    \* records: backlog of listen(), the calls of each task, and
                    \* whether harts meet inside the two nested critical sections

ASSUME TcpAssumption == NHandles \in Nat \ {0} /\ TCP_BUF \in Nat \ {0}

Handles == 1 .. NHandles
NoHandle == 0
Accepted(t) == 10 + t
TcpIds == TcpSocks \cup {Accepted(t) : t \in TcpTasks}

VARIABLES
    tcpSc,    \* the scenario
    tcp,      \* TcpSocket: coarse state, handle, half-close flags, pending error
    net,      \* the smoltcp sockets
    entry,    \* ListenTableEntry of the one port that is listened on
    nlock,    \* holders of SOCKET_SET and of the interface, between steps
    waiters,  \* TCP_WAITERS
    ttask     \* the call each task is in

tcpVars == <<tcpSc, tcp, net, entry, nlock, waiters, ttask>>

\* owed: bytes the other side's send() accepted and this side has not read.
\* met: the handshake was completed.
FreeSlot == [st |-> "free", peer |-> NoHandle, tx |-> 0, rx |-> 0, closing |-> FALSE,
             rfin |-> FALSE, owed |-> 0, met |-> FALSE]
TcpNew == [state |-> "CLOSED", handle |-> NoHandle, bound |-> FALSE, recv_shutdown |-> FALSE,
           send_shutdown |-> FALSE, err |-> FALSE, told |-> FALSE, refs |-> FALSE]
TcpIdle == [pc |-> "idle", k |-> 1, round |-> 1, ret |-> "none", wake |-> {}, got |-> 0,
            asleep |-> FALSE, stray |-> FALSE, cut |-> FALSE]

TcpInit ==
    /\ tcpSc \in TcpScenarios
    /\ tcp = [s \in TcpIds |-> [TcpNew EXCEPT !.refs = s \in TcpSocks]]
    /\ net = [h \in Handles |-> FreeSlot]
    /\ entry = [on |-> FALSE, listen |-> <<>>, accept |-> <<>>, refused |-> FALSE]
    /\ nlock = [set |-> 0, iface |-> 0]
    /\ waiters = {}
    /\ ttask = [t \in TcpTasks |-> TcpIdle]

TcpOp(t) == tcpSc.prog[t][ttask[t].k]
TcpOn(t) == IF TcpOp(t).s = 0 THEN Accepted(t) ELSE TcpOp(t).s
TcpAt(t, l) == ttask[t].pc = l
TcpSet(t, r) == ttask' = [ttask EXCEPT ![t] = r @@ @]
\* A MSG_WAITALL call that has got something ends with it, whatever happens.
TcpEnd(t, r) == TcpSet(t, [pc |-> "idle", k |-> ttask[t].k + 1, round |-> 1, got |-> 0, asleep |-> FALSE,
                           ret |-> IF ttask[t].got > 0 THEN "ok" ELSE r])
SetFree == nlock.set = 0
Slot(n) == CHOOSE h \in Handles : n[h].st = "free" /\ \A g \in 1 .. h - 1 : n[g].st # "free"

-----------------------------------------------------------------------------
(* smoltcp: the state of a socket, and Interface::poll() of the loopback.  *)

Established(n, h) == n[h].st = "Open" /\ ~n[h].closing /\ ~n[h].rfin
Pending(n, h) == n[h].st = "Listen"
Linked(n, h) == n[h].peer # NoHandle /\ n[n[h].peer].peer = h /\ n[n[h].peer].st = "Open"
Closes(n, h) == [n EXCEPT ![h] = IF @.st = "Open" THEN [@ EXCEPT !.closing = TRUE]
                                ELSE [@ EXCEPT !.st = "Closed"]]

\* A SYN meets the first socket in Listen, or is answered with a reset.
Syn(n, h) ==
    IF n[h].st # "SynSent" THEN n
    ELSE IF \E g \in Handles : Pending(n, g)
    THEN LET g == CHOOSE g \in Handles : Pending(n, g) /\ \A f \in 1 .. g - 1 : ~Pending(n, f)
         IN  [n EXCEPT ![h] = [@ EXCEPT !.st = "Open", !.peer = g, !.met = TRUE],
                       ![g] = [@ EXCEPT !.st = "Open", !.peer = h, !.met = TRUE]]
    ELSE [n EXCEPT ![h].st = "Closed"]
\* Data moves as far as the other buffer has room, then the FIN.  What is sent
\* to a socket that is gone (a window update included) comes back as a reset.
Answered(n, h) == n[h].tx > 0 \/ n[h].closing \/ n[h].rx < Min({n[h].owed, TCP_BUF})
Segments(n, h) ==
    IF n[h].st # "Open" THEN n
    ELSE IF ~Linked(n, h)
    THEN IF Answered(n, h) THEN [n EXCEPT ![h].st = "Closed", ![h].tx = 0] ELSE n
    ELSE LET p == n[h].peer
             m == Min({n[h].tx, TCP_BUF - n[p].rx})
         IN  [n EXCEPT ![h].tx = @ - m, ![p].rx = @ + m,
                       ![p].rfin = @ \/ (n[h].closing /\ n[h].tx = m)]
SmolPoll(n) == LET order == [h \in Handles |-> h]
               IN  FoldLeft(Segments, FoldLeft(Syn, n, order), order)
\* Connections that wait for accept(), in either queue.
Waiting(n) == {h \in ToSet(entry.listen) \cup ToSet(entry.accept) : n[h].st = "Open"}
\* Is a SYN refused although the backlog is not full of connections?
RefusedEarly(n, m) == entry.on /\ (\E h \in Handles : n[h].st = "SynSent" /\ m[h].st = "Closed")
                         /\ Cardinality(Waiting(m)) < tcpSc.backlog

-----------------------------------------------------------------------------
(* poll_interfaces(): SOCKET_SET, then the interface; then the listeners;  *)
(* then the waiters.                                                       *)

\* In a scenario without `overlap` no hart enters one of the nested sections
\* while another is inside one.
MayEnter == tcpSc.overlap \/ (nlock.set = 0 /\ nlock.iface = 0)
poll_lock_set(t) ==
    /\ TcpAt(t, "poll") /\ SetFree /\ MayEnter
    /\ nlock' = [nlock EXCEPT !.set = t]
    /\ TcpSet(t, [pc |-> "poll_iface"])
    /\ UNCHANGED <<tcpSc, tcp, net, entry, waiters>>
poll_iface(t) ==
    /\ TcpAt(t, "poll_iface") /\ nlock.iface = 0
    /\ net' = SmolPoll(net)
    /\ entry' = [entry EXCEPT !.refused = @ \/ RefusedEarly(net, SmolPoll(net))]
    /\ nlock' = [nlock EXCEPT !.set = 0]
    /\ TcpSet(t, [pc |-> IF TcpOp(t).op \in {"shutdown", "close"} THEN "tail" ELSE "promote"])
    /\ UNCHANGED <<tcpSc, tcp, waiters>>

\* replenish_listeners(): as many fresh sockets as the backlog lacks.
RECURSIVE Replenish(_, _)
Replenish(e, n) ==
    IF Len(e.listen) + Len(e.accept) < tcpSc.backlog
    THEN LET h == Slot(n) IN Replenish([e EXCEPT !.listen = Append(@, h)],
                                       [n EXCEPT ![h] = [FreeSlot EXCEPT !.st = "Listen"]])
    ELSE [e |-> e, n |-> n]
\* promote_listener(): established sockets join the accept queue, listening
\* ones stay, the others are removed.
promoted(e, n) ==
    LET ready == SelectSeq(e.listen, LAMBDA h : Established(n, h))
        dead == {h \in ToSet(e.listen) : ~Established(n, h) /\ ~Pending(n, h)}
    IN  Replenish([e EXCEPT !.listen = SelectSeq(@, LAMBDA h : Pending(n, h)), !.accept = @ \o ready],
                  [h \in Handles |-> IF h \in dead THEN FreeSlot ELSE n[h]])
promote_ready_listeners(t) ==
    /\ TcpAt(t, "promote") /\ SetFree
    /\ LET r == IF entry.on THEN promoted(entry, net) ELSE [e |-> entry, n |-> net]
       IN  entry' = r.e /\ net' = r.n
    /\ TcpSet(t, [pc |-> "wakers", wake |-> waiters])
    /\ UNCHANGED <<tcpSc, tcp, nlock, waiters>>
\* wake_tcp_waiters(): the tasks that were registered a moment ago.  One that
\* left block_on() since may sleep in some other call ("other").
wake_tcp_waiters(t) ==
    /\ TcpAt(t, "wakers")
    /\ ttask' = [u \in TcpTasks |->
           CASE u = t -> [ttask[t] EXCEPT !.pc = "try", !.wake = {}]
             [] u \in ttask[t].wake /\ u # t /\ ttask[u].asleep ->
                    [ttask[u] EXCEPT !.asleep = FALSE, !.stray = @ \/ ttask[u].pc = "other"]
             [] OTHER -> ttask[u]]
    /\ UNCHANGED <<tcpSc, tcp, net, entry, nlock, waiters>>

-----------------------------------------------------------------------------
(* block_on(): poll, try, register, poll, try, sleep.                      *)

\* The operation has a result: the waiter is withdrawn.
unregister_tcp_waiter(t) == waiters \ {t}
TcpDone(t, r) == TcpEnd(t, r) /\ waiters' = unregister_tcp_waiter(t)
\* EAGAIN: give up, or register and look again, or sleep.
TcpAgain(t) ==
    IF TcpOp(t).nb THEN TcpDone(t, "EAGAIN")
    ELSE IF ttask[t].round = 1
    THEN TcpSet(t, [pc |-> "poll", round |-> 2]) /\ waiters' = waiters \cup {t}
    ELSE TcpSet(t, [pc |-> "asleep", asleep |-> TRUE]) /\ UNCHANGED waiters
\* The fallback deadline of a millisecond makes every sleeper look again.
tcp_wakeup(t) ==
    /\ TcpAt(t, "asleep")
    /\ TcpSet(t, [pc |-> "poll", round |-> 1, asleep |-> FALSE])
    /\ waiters' = unregister_tcp_waiter(t)
    /\ UNCHANGED <<tcpSc, tcp, net, entry, nlock>>
\* SO_RCVTIMEO, SO_SNDTIMEO or a signal ends the call instead, a signal also
\* between the first poll and the first try.
tcp_give_up(t) ==
    /\ \/ TcpAt(t, "asleep")
       \/ TcpAt(t, "try") /\ ttask[t].round = 1 /\ ~TcpOp(t).nb
    /\ TcpOp(t).timed
    /\ TcpDone(t, "EINTR")
    /\ tcp' = IF TcpOp(t).op = "connect" THEN [tcp EXCEPT ![TcpOn(t)].err = FALSE] ELSE tcp
    /\ UNCHANGED <<tcpSc, net, entry, nlock>>

\* A call begins.  Non-blocking ones do not poll first, but connect() never
\* gets here before its SYN is queued.
TcpCall(t) ==
    /\ ttask[t].pc \in {"idle", "again"} /\ ttask[t].k <= Len(tcpSc.prog[t])
    /\ LET s == TcpOn(t)
           st == tcp[s].state
           op == TcpOp(t).op
       IN  CASE op = "other" -> TcpSet(t, [pc |-> "other", asleep |-> TRUE])
             [] op # "other" /\ ~tcp[s].refs -> TcpEnd(t, "EBADF")
             [] op # "other" /\ tcp[s].refs /\ op \in {"recv", "send"} ->
                  IF st = "CONNECTING" THEN TcpEnd(t, "EAGAIN")
                  ELSE IF st # "CONNECTED" THEN TcpEnd(t, "ENOTCONN")
                  ELSE IF op = "recv" /\ tcp[s].recv_shutdown THEN TcpEnd(t, "eof")
                  ELSE IF op = "send" /\ tcp[s].send_shutdown THEN TcpEnd(t, "EPIPE")
                  ELSE TcpSet(t, [pc |-> IF TcpOp(t).nb THEN "try" ELSE "poll"])
             [] op # "other" /\ tcp[s].refs /\ op = "accept" ->
                  IF st # "LISTENING" THEN TcpEnd(t, "EINVAL")
                  ELSE TcpSet(t, [pc |-> IF TcpOp(t).nb THEN "try" ELSE "poll"])
             [] OTHER -> TcpSet(t, [pc |-> IF op = "tpoll" THEN "poll" ELSE op])
    /\ UNCHANGED <<tcpSc, tcp, net, entry, nlock, waiters>>
\* A sleep in a call that has nothing to do with the network ends.
tcp_other_end(t) ==
    /\ TcpAt(t, "other")
    /\ ttask' = [ttask EXCEPT ![t].pc = "idle", ![t].k = @ + 1, ![t].asleep = FALSE]
    /\ UNCHANGED <<tcpSc, tcp, net, entry, nlock, waiters>>

-----------------------------------------------------------------------------
(* connect().                                                              *)

\* poll_connect(): what the smoltcp state means for the socket.
connect_failed(s) == [tcp EXCEPT ![s].state = "FAILED", ![s].err = TRUE, ![s].told = FALSE,
                                 ![s].bound = FALSE]
poll_connect(s) ==
    LET h == tcp[s].handle
    IN  CASE net[h].st = "SynSent" -> tcp
          [] Established(net, h) -> [tcp EXCEPT ![s].state = "CONNECTED", ![s].err = FALSE,
                                        ![s].recv_shutdown = FALSE, ![s].send_shutdown = FALSE]
          [] OTHER -> connect_failed(s)

\* The states a second connect() meets.
tcp_connect(t) ==
    /\ TcpAt(t, "connect") /\ SetFree
    /\ LET s == TcpOn(t)
           st == tcp[s].state
           h == tcp[s].handle
       IN  \/ /\ st = "CLOSED"
              /\ tcp' = [tcp EXCEPT ![s].state = "BUSY",
                     ![s].handle = IF h = NoHandle THEN Slot(net) ELSE h,
                     ![s].recv_shutdown = FALSE, ![s].send_shutdown = FALSE]
              /\ net' = IF h = NoHandle THEN [net EXCEPT ![Slot(net)] = [FreeSlot EXCEPT !.st = "Closed"]]
                        ELSE net
              /\ TcpSet(t, [pc |-> "connect_iface"])
           \/ /\ st = "CONNECTING"
              /\ TcpSet(t, [pc |-> "poll", round |-> 3]) /\ UNCHANGED <<tcp, net>>
           \/ /\ st \in {"CONNECTED", "LISTENING", "BUSY"}
              /\ TcpEnd(t, IF st = "BUSY" THEN "EALREADY" ELSE "EISCONN")
              /\ UNCHANGED <<tcp, net>>
           \/ /\ st = "FAILED" /\ tcp[s].err
              /\ TcpEnd(t, "ECONNREFUSED") /\ UNCHANGED <<tcp, net>>
           \/ /\ st = "FAILED" /\ ~tcp[s].err     \* reset_failed_connect()
              /\ net' = [net EXCEPT ![h] = [FreeSlot EXCEPT !.st = "Closed"]]
              /\ tcp' = [tcp EXCEPT ![s].state = "CLOSED", ![s].bound = FALSE]
              /\ TcpEnd(t, "ECONNABORTED")
    /\ UNCHANGED <<tcpSc, entry, nlock, waiters>>
\* connect_tcp_socket(): the interface, then SOCKET_SET.
connect_lock_iface(t) ==
    /\ TcpAt(t, "connect_iface") /\ nlock.iface = 0 /\ MayEnter
    /\ nlock' = [nlock EXCEPT !.iface = t]
    /\ TcpSet(t, [pc |-> "connect_set"])
    /\ UNCHANGED <<tcpSc, tcp, net, entry, waiters>>
connect_tcp_socket(t) ==
    /\ TcpAt(t, "connect_set") /\ SetFree
    /\ LET s == TcpOn(t)
           ok == net[tcp[s].handle].st = "Closed"
       IN  /\ net' = IF ok THEN [net EXCEPT ![tcp[s].handle].st = "SynSent"] ELSE net
           /\ tcp' = [tcp EXCEPT ![s].state = IF ok THEN "CONNECTING" ELSE "CLOSED", ![s].bound = ok]
           /\ IF ok /\ ~TcpOp(t).nb THEN TcpSet(t, [pc |-> "poll"])
              ELSE TcpEnd(t, IF ok THEN "EINPROGRESS" ELSE "ECONNREFUSED")
    /\ nlock' = [nlock EXCEPT !.iface = 0]
    /\ UNCHANGED <<tcpSc, entry, waiters>>
\* The operation of a blocking connect(): an error is not left for SO_ERROR.
try_connect(t) ==
    /\ TcpAt(t, "try") /\ TcpOp(t).op = "connect" /\ ttask[t].round # 3 /\ SetFree
    /\ LET s == TcpOn(t)
           after == poll_connect(s)
       IN  \/ after[s].state = "CONNECTED" /\ tcp' = after /\ TcpDone(t, "ok")
           \/ net[tcp[s].handle].st = "SynSent" /\ tcp' = after /\ TcpAgain(t)
           \/ /\ after[s].state = "FAILED"
              /\ tcp' = [after EXCEPT ![s].err = FALSE, ![s].told = TRUE]
              /\ TcpDone(t, "ECONNREFUSED")
    /\ UNCHANGED <<tcpSc, net, entry, nlock>>

\* The second connect() after its poll.
connect_again(t) ==
    /\ TcpAt(t, "try") /\ TcpOp(t).op = "connect" /\ ttask[t].round = 3 /\ SetFree
    /\ LET now == poll_connect(TcpOn(t))
       IN  /\ tcp' = now
           /\ TcpEnd(t, CASE now[TcpOn(t)].state = "CONNECTED" -> "EISCONN"
                          [] now[TcpOn(t)].state = "FAILED" -> "ECONNREFUSED"
                          [] OTHER -> "EALREADY")
    /\ UNCHANGED <<tcpSc, net, entry, nlock, waiters>>

\* take_error(), for SO_ERROR: is_connecting(), then a poll, then poll_connect().
tcp_so_error(t) ==
    /\ TcpAt(t, "so_error")
    /\ TcpSet(t, [pc |-> IF tcp[TcpOn(t)].state = "CONNECTING" THEN "poll" ELSE "take"])
    /\ UNCHANGED <<tcpSc, tcp, net, entry, nlock, waiters>>
take_error(t) ==
    /\ TcpAt(t, "take") \/ (TcpAt(t, "try") /\ TcpOp(t).op = "so_error" /\ SetFree)
    /\ LET s == TcpOn(t)
           now == IF TcpAt(t, "try") THEN poll_connect(s) ELSE tcp
       IN  /\ tcp' = [now EXCEPT ![s].err = FALSE, ![s].told = @ \/ now[s].err]
           /\ TcpEnd(t, IF now[s].err THEN "ECONNREFUSED" ELSE "ok")
    /\ UNCHANGED <<tcpSc, net, entry, nlock, waiters>>
\* The readiness queries: poll_interfaces(), then TcpSocket::poll().
tcp_poll(t) ==
    /\ TcpAt(t, "try") /\ TcpOp(t).op = "tpoll" /\ SetFree
    /\ LET st == tcp[TcpOn(t)].state
           r == IF st = "LISTENING" THEN promoted(entry, net) ELSE [e |-> entry, n |-> net]
       IN  /\ tcp' = IF st = "CONNECTING" THEN poll_connect(TcpOn(t)) ELSE tcp
           /\ entry' = r.e /\ net' = r.n
    /\ TcpEnd(t, "ok")
    /\ UNCHANGED <<tcpSc, nlock, waiters>>

-----------------------------------------------------------------------------
(* listen() and accept().                                                  *)

\* set_nagle_enabled() and its kin allocate the handle early.
tcp_nodelay(t) ==
    /\ TcpAt(t, "nodelay") /\ SetFree
    /\ LET s == TcpOn(t)
       IN  IF tcp[s].handle # NoHandle THEN UNCHANGED <<tcp, net>>
           ELSE /\ tcp' = [tcp EXCEPT ![s].handle = Slot(net)]
                /\ net' = [net EXCEPT ![Slot(net)] = [FreeSlot EXCEPT !.st = "Closed"]]
    /\ TcpEnd(t, "ok")
    /\ UNCHANGED <<tcpSc, entry, nlock, waiters>>
\* listen(): the smoltcp socket first, then the table, which may refuse.
tcp_listen(t) ==
    /\ TcpAt(t, "listen") /\ SetFree
    /\ LET s == TcpOn(t)
           h == tcp[s].handle
           g == IF h = NoHandle THEN Slot(net) ELSE h
           n == [net EXCEPT ![g] = [FreeSlot EXCEPT !.st = "Listen"]]
           r == Replenish([entry EXCEPT !.on = TRUE, !.listen = <<g>>, !.accept = <<>>], n)
       IN  \/ /\ tcp[s].state # "CLOSED"
              /\ TcpEnd(t, "EISCONN") /\ UNCHANGED <<tcp, net, entry>>
           \/ /\ tcp[s].state = "CLOSED" /\ ~entry.on
              /\ tcp' = [tcp EXCEPT ![s].state = "LISTENING", ![s].handle = NoHandle, ![s].bound = TRUE]
              /\ net' = r.n /\ entry' = r.e
              /\ TcpEnd(t, "ok")
           \/ /\ tcp[s].state = "CLOSED" /\ entry.on
              /\ net' = IF h = NoHandle THEN net ELSE n
              /\ tcp' = [tcp EXCEPT ![s].bound = TRUE]
              /\ TcpEnd(t, "EADDRINUSE") /\ UNCHANGED entry
    /\ UNCHANGED <<tcpSc, nlock, waiters>>

\* ListenTable::accept(): promote, then the first connection that is alive.
accept_rest(q) == Tail(q)
no_replenish(e, n) == [e |-> e, n |-> n]           \* mutant: left to the next poll
accept_replenish(e, n) == Replenish(e, n)
try_accept(t) ==
    /\ TcpAt(t, "try") /\ TcpOp(t).op = "accept" /\ SetFree
    /\ LET r == promoted(entry, net)
           first == SelectInSeq(r.e.accept, LAMBDA h : r.n[h].st # "Closed")
           skipped == IF first = 0 THEN Len(r.e.accept) ELSE first - 1
           gone == ToSet(SubSeq(r.e.accept, 1, skipped))
           q == SubSeq(r.e.accept, skipped + 1, Len(r.e.accept))
           n == [h \in Handles |-> IF h \in gone THEN FreeSlot ELSE r.n[h]]
       IN  IF first = 0
           THEN /\ net' = n /\ entry' = [r.e EXCEPT !.accept = q]
                /\ TcpAgain(t) /\ UNCHANGED tcp
           ELSE LET f == accept_replenish([r.e EXCEPT !.accept = accept_rest(q)], n)
                IN  /\ net' = f.n /\ entry' = f.e
                    /\ tcp' = [tcp EXCEPT ![Accepted(t)] =
                           [TcpNew EXCEPT !.state = "CONNECTED", !.handle = Head(q), !.refs = TRUE]]
                    /\ TcpDone(t, "ok")
    /\ UNCHANGED <<tcpSc, nlock>>

-----------------------------------------------------------------------------
(* recv(), send(), shutdown() and the drop.                                *)

recv_slice(h, m, peek) == IF peek THEN net ELSE [net EXCEPT ![h].rx = @ - m, ![h].owed = @ - m]
try_recv(t) ==
    /\ TcpAt(t, "try") /\ TcpOp(t).op = "recv" /\ SetFree
    /\ LET h == tcp[TcpOn(t)].handle
           m == Min({TcpOp(t).n - ttask[t].got, net[h].rx})
           more == TcpOp(t).all /\ ~TcpOp(t).nb /\ ttask[t].got + m < TcpOp(t).n
       IN  \/ /\ m > 0
              /\ net' = recv_slice(h, m, TcpOp(t).peek)
              /\ IF more THEN TcpSet(t, [pc |-> "again", round |-> 1, got |-> ttask[t].got + m])
                              /\ waiters' = unregister_tcp_waiter(t)
                 ELSE TcpDone(t, "ok")
           \/ /\ m = 0 /\ (net[h].rfin \/ net[h].st # "Open")
              /\ ttask' = [ttask EXCEPT ![t] = [pc |-> "idle", k |-> @.k + 1, round |-> 1, got |-> 0,
                     ret |-> IF @.got > 0 THEN "ok" ELSE "eof", cut |-> @.got = 0 /\ net[h].owed > 0] @@ @]
              /\ waiters' = unregister_tcp_waiter(t) /\ UNCHANGED net
           \/ /\ m = 0 /\ ~net[h].rfin /\ net[h].st = "Open"
              /\ TcpAgain(t) /\ UNCHANGED net
    /\ UNCHANGED <<tcpSc, tcp, entry, nlock>>
try_send(t) ==
    /\ TcpAt(t, "try") /\ TcpOp(t).op = "send" /\ SetFree
    /\ LET h == tcp[TcpOn(t)].handle
           p == net[h].peer
           m == Min({TcpOp(t).n, TCP_BUF - net[h].tx})
       IN  \/ /\ net[h].st # "Open" \/ net[h].closing
              /\ TcpDone(t, "EPIPE") /\ UNCHANGED net
           \/ /\ net[h].st = "Open" /\ ~net[h].closing /\ m > 0
              /\ net' = IF Linked(net, h) THEN [net EXCEPT ![h].tx = @ + m, ![p].owed = @ + m]
                        ELSE [net EXCEPT ![h].tx = @ + m]
              /\ TcpDone(t, "ok")
           \/ /\ net[h].st = "Open" /\ ~net[h].closing /\ m = 0
              /\ TcpAgain(t) /\ UNCHANGED net
    /\ UNCHANGED <<tcpSc, tcp, entry, nlock>>

\* shutdown(): SHUT_WR closes the smoltcp socket once and polls; the listeners
\* are not promoted after this poll.
tcp_shutdown(t) ==
    /\ TcpAt(t, "shutdown") /\ SetFree
    /\ LET s == TcpOn(t)
           w == "w" \in TcpOp(t).how /\ ~tcp[s].send_shutdown
       IN  IF tcp[s].state # "CONNECTED" THEN TcpEnd(t, "ENOTCONN") /\ UNCHANGED <<tcp, net>>
           ELSE /\ tcp' = [tcp EXCEPT ![s].recv_shutdown = @ \/ "r" \in TcpOp(t).how,
                                      ![s].send_shutdown = @ \/ w]
                /\ net' = IF w THEN Closes(net, tcp[s].handle) ELSE net
                /\ IF w THEN TcpSet(t, [pc |-> "poll"]) ELSE TcpEnd(t, "ok")
    /\ UNCHANGED <<tcpSc, entry, nlock, waiters>>

\* Drop for TcpSocket, once no call uses it: close_all(), one poll, remove().
unlisten_handles(s) == IF tcp[s].state = "LISTENING" THEN ToSet(entry.listen) \cup ToSet(entry.accept)
                       ELSE {}
close_all(t) ==
    /\ TcpAt(t, "close") /\ SetFree
    /\ \A u \in TcpTasks \ {t} : ttask[u].pc \notin {"idle", "other"} => TcpOn(u) # TcpOn(t)
    /\ LET s == TcpOn(t)
           listed == unlisten_handles(s)
       IN  /\ net' = IF tcp[s].state = "CONNECTED" THEN Closes(net, tcp[s].handle)
                     ELSE [g \in Handles |-> IF g \in listed THEN FreeSlot ELSE net[g]]
           /\ entry' = IF tcp[s].state # "LISTENING" THEN entry
                       ELSE [entry EXCEPT !.on = FALSE, !.listen = <<>>, !.accept = <<>>]
           /\ tcp' = [tcp EXCEPT ![s].refs = FALSE]
           /\ TcpSet(t, [pc |-> IF tcp[s].state \in {"CONNECTED", "LISTENING"} THEN "poll" ELSE "tail"])
    /\ UNCHANGED <<tcpSc, nlock, waiters>>
removed(n, h) == IF h = NoHandle THEN n ELSE [n EXCEPT ![h] = FreeSlot]
tcp_tail(t) ==
    /\ TcpAt(t, "tail") /\ SetFree
    /\ IF TcpOp(t).op = "shutdown" THEN UNCHANGED <<tcp, net>>
       ELSE /\ net' = removed(net, tcp[TcpOn(t)].handle)
            /\ tcp' = [tcp EXCEPT ![TcpOn(t)] = TcpNew]
    /\ TcpEnd(t, "ok")
    /\ UNCHANGED <<tcpSc, entry, nlock, waiters>>

TcpNext == \E t \in TcpTasks :
    \/ TcpCall(t) \/ tcp_other_end(t) \/ tcp_wakeup(t) \/ tcp_give_up(t)
    \/ poll_lock_set(t) \/ poll_iface(t) \/ promote_ready_listeners(t) \/ wake_tcp_waiters(t)
    \/ tcp_connect(t) \/ connect_lock_iface(t) \/ connect_tcp_socket(t) \/ try_connect(t)
    \/ connect_again(t) \/ tcp_so_error(t) \/ take_error(t) \/ tcp_poll(t) \/ tcp_nodelay(t) \/ tcp_listen(t)
    \/ try_accept(t) \/ try_recv(t) \/ try_send(t) \/ tcp_shutdown(t) \/ close_all(t) \/ tcp_tail(t)

TcpSpec == TcpInit /\ [][TcpNext]_tcpVars

-----------------------------------------------------------------------------
\* Every slot of the socket set has exactly one owner among the sockets and the
\* listen table, a connected or connecting socket has its slot, and the table
\* holds at most the backlog: no handle of SocketSetWrapper leaks, is freed
\* twice or is reached through a stale copy (add/remove in net/mod.rs).
TcpTypeOK ==
    /\ \A h \in Handles : net[h].tx \in 0 .. TCP_BUF /\ net[h].rx \in 0 .. TCP_BUF
    /\ Len(entry.listen) + Len(entry.accept) <= tcpSc.backlog
    /\ \A s \in TcpIds : tcp[s].state = "LISTENING" => entry.on \/ ~tcp[s].refs
    /\ \A s \in TcpIds : tcp[s].state \in {"CONNECTING", "CONNECTED", "FAILED"} => tcp[s].handle # NoHandle
    /\ LET q == entry.listen \o entry.accept
           owners(h) == {<<"q", i>> : i \in {i \in DOMAIN q : q[i] = h}}
                            \cup {<<"s", s>> : s \in {s \in TcpIds : tcp[s].handle = h}}
       IN  \A h \in Handles : Cardinality(owners(h)) = IF net[h].st = "free" THEN 0 ELSE 1

\* A SYN is refused only when the backlog is full of connections that wait for
\* accept(): promote_ready_listeners() replaces a listener at once, whatever
\* the pollers interleave.
TcpSynMeetsListener == ~entry.refused

\* TCP_WAITERS holds tasks that are inside block_on() only: every exit of the
\* loop withdraws the waiter.
TcpWaitersInside == \A t \in waiters : ttask[t].pc \in {"poll", "poll_iface", "promote", "wakers",
                                                        "try", "asleep"} /\ ttask[t].round = 2

\* Only what was sent can be read, and what send() accepted is somewhere
\* between the two buffers as long as both ends exist.
TcpBytesKept == \A h \in Handles : net[h].st = "Open" /\ Linked(net, h) =>
                    net[h].owed = net[h].rx + net[net[h].peer].tx

\* The end of a stream is told only after its bytes: when recv() returns 0, all
\* that the other side's send() accepted has been read.
TcpEofComplete == \A t \in TcpTasks : ~ttask[t].cut

\* A connection counts as refused only if it was never established.
TcpRefusalTrue == \A s \in TcpIds : tcp[s].state = "FAILED" => ~net[tcp[s].handle].met

\* A network event wakes nobody who has left block_on() and sleeps elsewhere.
TcpNoStrayWake == \A t \in TcpTasks : ~ttask[t].stray

\* The error of a connection that failed stays pending until a caller, connect()
\* or SO_ERROR, was told.
TcpErrorTold == \A s \in TcpIds : tcp[s].state = "FAILED" => tcp[s].err \/ tcp[s].told

\* The interface and SOCKET_SET are taken in one order: no hart holds one and
\* waits for the other while a second does the reverse.
TcpNoLockCycle == \A t, u \in TcpTasks : ~(TcpAt(t, "poll_iface") /\ TcpAt(u, "connect_set"))

-----------------------------------------------------------------------------
(***************************************************************************)
(* UDP sockets (net/udp.rs) and the message calls on them                  *)
(* (sendmsg/recvmsg/sendmmsg/recvmmsg in syscall/net.rs).                  *)
(*                                                                         *)
(* smoltcp keeps two queues of datagrams per socket; a poll of the         *)
(* loopback interface hands every queued datagram to the first socket      *)
(* that accepts it.  A blocked call yields and tries again.  The user's    *)
(* memory may refuse a copy: `fault` names the message of the vector, and  *)
(* whether its payload or its header cannot be written.                    *)
(***************************************************************************)

CONSTANTS
    UdTasks,       \* numbers 1, 2, ...
    UdSocks,       \* numbers 1, 2, ...
    UDP_QUEUE,     \* packets a smoltcp queue holds
    KERNEL_BUF,    \* the bounce buffer of recv_from()
    UdScenarios

VARIABLES udSc, ud, udtask
udVars == <<udSc, ud, udtask>>

UdNew == [port |-> 0, peer |-> 0, recv_shutdown |-> FALSE, send_shutdown |-> FALSE, open |-> TRUE,
          reuse |-> FALSE, locked |-> 0, rx |-> <<>>, tx |-> <<>>]
\* cnt: messages reported so far; taken: datagrams this call has consumed.
UdIdle == [pc |-> "idle", k |-> 1, cnt |-> 0, taken |-> 0, ret |-> "none", sigpipe |-> FALSE,
           got |-> <<>>]
Ephemeral(s) == 100 + s

UdInit ==
    /\ udSc \in UdScenarios
    /\ ud = [s \in UdSocks |-> UdNew]
    /\ udtask = [t \in UdTasks |-> UdIdle]

UdOp(t) == udSc[t][udtask[t].k]
UdAt(t, l) == udtask[t].pc = l
UdSet(t, r) == udtask' = [udtask EXCEPT ![t] = r @@ @]
UdEnd(t, r) == UdSet(t, [pc |-> "end", ret |-> r])
UnlockedBy(t, s) == ud[s].locked \in {0, t}

\* Interface::poll(): every queued datagram reaches the first socket that
\* accepts it, one with a peer before one without, or is dropped if that
\* socket has no room.
Accepts(u, s, d) == u[s].open /\ u[s].port = d.to /\ u[s].peer \in {0, d.from}
Deliver(u, d) ==
    LET c == {s \in UdSocks : Accepts(u, s, d)}
        p == {s \in c : u[s].peer # 0}
        s == Min(IF p # {} THEN p ELSE c)
    IN  IF c = {} \/ Len(u[s].rx) >= UDP_QUEUE THEN u ELSE [u EXCEPT ![s].rx = Append(@, d)]
\* Each round of the poll takes one datagram from every socket.
Round(u, i) == LET out == SelectSeq(SetToSortSeq(UdSocks, <), LAMBDA s : Len(u[s].tx) >= i)
               IN  [j \in DOMAIN out |-> u[out[j]].tx[i]]
UdPoll(u) == FoldLeft(Deliver, [s \in UdSocks |-> [u[s] EXCEPT !.tx = <<>>]],
                      FlattenSeq([i \in 1 .. UDP_QUEUE |-> Round(u, i)]))

-----------------------------------------------------------------------------
(* bind(): the check and the bind are two sections of the socket-set lock; *)
(* the lock on local_addr spans both.                                      *)

udp_bind_free(p) == \A r \in UdSocks : ud[r].open => ud[r].port # p
UdBindTo(t) == IF UdOp(t).op = "bind" THEN UdOp(t).port ELSE Ephemeral(UdOp(t).s)
udp_bind_check(t) ==
    /\ UdAt(t, "bind") /\ UnlockedBy(t, UdOp(t).s)
    /\ LET s == UdOp(t).s
       IN  IF ud[s].port # 0
           THEN UNCHANGED ud /\ UdEnd(t, "EINVAL")
           ELSE IF UdOp(t).reuse \/ udp_bind_free(UdBindTo(t))
           THEN ud' = [ud EXCEPT ![s].locked = t] /\ UdSet(t, [pc |-> "bind2"])
           ELSE UNCHANGED ud /\ UdEnd(t, "EADDRINUSE")
    /\ UNCHANGED udSc
\* connect() and an unbound send() go on after the implicit bind.
udp_bind(t) ==
    /\ UdAt(t, "bind2")
    /\ ud' = [ud EXCEPT ![UdOp(t).s] = [@ EXCEPT !.port = UdBindTo(t), !.locked = 0, !.peer = 0, !.reuse = UdOp(t).reuse]]
    /\ CASE UdOp(t).op = "bind" -> UdEnd(t, "ok")
         [] UdOp(t).op = "connect" -> UdSet(t, [pc |-> "connect2"])
         [] OTHER -> UdSet(t, [pc |-> "poll"])
    /\ UNCHANGED udSc
udp_connect(t) ==
    /\ UdAt(t, "connect2")
    /\ ud' = [ud EXCEPT ![UdOp(t).s].peer = UdOp(t).to]
    /\ UdEnd(t, "ok") /\ UNCHANGED udSc

\* EPIPE raises SIGPIPE unless MSG_NOSIGNAL was given.
finish_socket_send(t, r) == [pc |-> "end", ret |-> r, sigpipe |-> ~UdOp(t).nosig]
connect_first(s) == IF s.port = 0 THEN "bind" ELSE "connect2"
\* The entry of a call.  recv needs a bound socket, send binds one, send()
\* without an address needs a peer.
UdCall(t) ==
    /\ UdAt(t, "idle") /\ udtask[t].k <= Len(udSc[t])
    /\ LET o == UdOp(t)
           s == ud[o.s]
       IN  CASE ~s.open -> UdEnd(t, "EBADF")
             [] s.open /\ o.op \in {"bind", "connect"} ->
                  UdSet(t, [pc |-> IF o.op = "bind" THEN "bind" ELSE connect_first(s)])
             [] s.open /\ o.op = "send" ->
                  IF o.to = 0 /\ s.peer = 0 THEN UdEnd(t, "EDESTADDRREQ")
                  ELSE IF s.send_shutdown THEN UdSet(t, finish_socket_send(t, "EPIPE"))
                  ELSE UdSet(t, [pc |-> IF s.port = 0 THEN "bind" ELSE "poll"])
             [] s.open /\ o.op = "recv" ->
                  IF s.port = 0 THEN UdEnd(t, "ENOTCONN") ELSE UdSet(t, [pc |-> "poll"])
             [] OTHER -> UdSet(t, [pc |-> o.op])
    /\ UNCHANGED <<udSc, ud>>

-----------------------------------------------------------------------------
(* block_on(): poll, try, yield.  Without blocking there is no poll.       *)

recv_nonblocking(t) == UdOp(t).nb \/ (UdOp(t).one /\ udtask[t].cnt > 0)
ud_poll(t) ==
    /\ UdAt(t, "poll")
    /\ ud' = IF recv_nonblocking(t) THEN ud ELSE UdPoll(ud)
    /\ UdSet(t, [pc |-> "try"]) /\ UNCHANGED udSc
\* The last part of a call that cannot proceed: what was received counts.
mmsg_result(t, e) == IF udtask[t].cnt > 0 THEN "ok" ELSE e
ud_again(t, used) ==
    UdSet(t, (IF recv_nonblocking(t) THEN [pc |-> "end", ret |-> mmsg_result(t, "EAGAIN")]
              ELSE [pc |-> "yield"]) @@ [taken |-> udtask[t].taken + used])
ud_yield(t) ==
    /\ UdAt(t, "yield") /\ UdSet(t, [pc |-> "poll"]) /\ UNCHANGED <<udSc, ud>>
\* A signal or the deadline ends the wait.
ud_give_up(t) ==
    /\ UdAt(t, "yield") /\ UdOp(t).timed
    /\ UdEnd(t, mmsg_result(t, "EINTR")) /\ UNCHANGED <<udSc, ud>>

\* send_impl(): one datagram of the vector.
ud_send(t) ==
    /\ UdAt(t, "try") /\ UdOp(t).op = "send"
    /\ LET o == UdOp(t)
           s == o.s
           d == [id |-> <<t, udtask[t].k, udtask[t].cnt>>, from |-> ud[s].port, len |-> o.len,
                 to |-> IF o.to # 0 THEN o.to ELSE ud[s].peer]
       IN  IF Len(ud[s].tx) < UDP_QUEUE
           THEN /\ ud' = [ud EXCEPT ![s].tx = Append(@, d)]
                /\ UdSet(t, [pc |-> IF udtask[t].cnt + 1 < o.n THEN "next" ELSE "end",
                             cnt |-> udtask[t].cnt + 1, ret |-> "ok"])
           ELSE ud_again(t, 0) /\ UNCHANGED ud
    /\ UNCHANGED udSc
\* The next message of sendmmsg(): the checks are made again.
ud_send_next(t) ==
    /\ UdAt(t, "next") /\ UdOp(t).op = "send"
    /\ IF ud[UdOp(t).s].send_shutdown
       THEN UdSet(t, finish_socket_send(t, mmsg_result(t, "EPIPE")))
       ELSE UdSet(t, [pc |-> "poll"])
    /\ UNCHANGED <<udSc, ud>>

\* recv_from(): a datagram that does not fit the bounce buffer is consumed and
\* the call tries again; MSG_PEEK leaves the queue alone.
recv_keeps(t) == UdOp(t).peek
ud_recv(t) ==
    /\ UdAt(t, "try") /\ UdOp(t).op = "recv"
    /\ LET o == UdOp(t)
           s == o.s
           rest == IF recv_keeps(t) THEN ud[s].rx ELSE Tail(ud[s].rx)
           used == IF o.peek THEN 0 ELSE 1
       IN  CASE ud[s].rx # <<>> /\ Head(ud[s].rx).len > KERNEL_BUF ->
                  ud' = [ud EXCEPT ![s].rx = rest] /\ ud_again(t, used)
             [] ud[s].rx # <<>> /\ Head(ud[s].rx).len <= KERNEL_BUF ->
                  /\ ud' = [ud EXCEPT ![s].rx = rest]
                  /\ UdSet(t, [pc |-> "copyout", taken |-> udtask[t].taken + used,
                               got |-> Append(udtask[t].got, Head(ud[s].rx).id)])
             [] ud[s].rx = <<>> /\ ud[s].recv_shutdown ->
                  UNCHANGED ud /\ UdSet(t, [pc |-> "copyout"])
             [] OTHER -> UNCHANGED ud /\ ud_again(t, 0)
    /\ UNCHANGED udSc
\* recvmsg_into_hdr() scatters the payload, write_mmsghdr() the header.
ud_copyout(t) ==
    /\ UdAt(t, "copyout")
    /\ LET o == UdOp(t)
           i == udtask[t].cnt + 1
       IN  CASE o.fault = <<"payload", i>> -> UdEnd(t, mmsg_result(t, "EFAULT"))
             [] o.fault = <<"header", i>> -> UdEnd(t, "EFAULT")
             [] OTHER -> UdSet(t, [cnt |-> i, ret |-> "ok",
                                   pc |-> IF i < o.n /\ ~o.expired THEN "next" ELSE "end"])
    /\ UNCHANGED <<udSc, ud>>
ud_recv_next(t) ==
    /\ UdAt(t, "next") /\ UdOp(t).op = "recv"
    /\ UdSet(t, [pc |-> "poll"]) /\ UNCHANGED <<udSc, ud>>

udp_shutdown(t) ==
    /\ UdAt(t, "shutdown")
    /\ LET s == UdOp(t).s
       IN  IF ud[s].peer = 0 THEN UdEnd(t, "ENOTCONN") /\ UNCHANGED ud
           ELSE /\ ud' = [ud EXCEPT ![s].recv_shutdown = @ \/ "r" \in UdOp(t).how,
                                    ![s].send_shutdown = @ \/ "w" \in UdOp(t).how]
                /\ UdEnd(t, "ok")
    /\ UNCHANGED udSc
\* Drop: the queues go with the socket, once no other call uses it.
udp_drop(t) ==
    /\ UdAt(t, "close")
    /\ \A u \in UdTasks \ {t} : udtask[u].pc \notin {"idle", "end"} => UdOp(u).s # UdOp(t).s
    /\ ud' = [ud EXCEPT ![UdOp(t).s] = [UdNew EXCEPT !.open = FALSE]]
    /\ UdEnd(t, "ok") /\ UNCHANGED udSc
\* The call has returned to the user, who makes the next one.
UdReturn(t) ==
    /\ UdAt(t, "end")
    /\ UdSet(t, [pc |-> "idle", k |-> udtask[t].k + 1, cnt |-> 0, taken |-> 0, ret |-> "none"])
    /\ UNCHANGED <<udSc, ud>>

UdNext == \E t \in UdTasks :
    \/ UdCall(t) \/ udp_bind_check(t) \/ udp_bind(t) \/ udp_connect(t)
    \/ ud_poll(t) \/ ud_yield(t) \/ ud_give_up(t) \/ ud_send(t) \/ ud_send_next(t)
    \/ ud_recv(t) \/ ud_copyout(t) \/ ud_recv_next(t) \/ udp_shutdown(t) \/ udp_drop(t) \/ UdReturn(t)
UdSpec == UdInit /\ [][UdNext]_udVars

-----------------------------------------------------------------------------
\* The queues are bounded, a socket with a peer is bound, and the lock on
\* local_addr is held by a task inside bind() only.
UdTypeOK ==
    \A s \in UdSocks :
        /\ Len(ud[s].rx) <= UDP_QUEUE /\ Len(ud[s].tx) <= UDP_QUEUE
        /\ ud[s].peer # 0 => ud[s].port # 0
        /\ ud[s].locked # 0 => UdAt(ud[s].locked, "bind2")

\* A datagram is received at most once and each sender's datagrams in the order
\* they were sent, whatever the readers and their MSG_PEEKs interleave.
UdOnceInOrder ==
    LET once(t) == UdTasks \ {u \in UdTasks : \E o \in ToSet(udSc[u]) : o.peek}
        before(a, b) == a[2] < b[2] \/ (a[2] = b[2] /\ a[3] < b[3])
    IN  /\ \A t \in once(0), u \in once(0) : t # u => ToSet(udtask[t].got) \cap ToSet(udtask[u].got) = {}
        /\ \A t \in once(0) : \A i, j \in DOMAIN udtask[t].got : i < j /\ udtask[t].got[i][1] = udtask[t].got[j][1]
               => before(udtask[t].got[i], udtask[t].got[j])

\* What recvmmsg() consumed it reports: only a message whose copy the user's
\* memory refused may be gone without being counted.
UdConsumedReported ==
    \A t \in UdTasks : UdAt(t, "end") /\ UdOp(t).op = "recv" =>
        udtask[t].taken <= (IF udtask[t].ret = "ok" THEN udtask[t].cnt ELSE 0)
                               + (IF UdOp(t).fault[2] = udtask[t].cnt + 1 THEN 1 ELSE 0)

\* Two sockets share a port only if one of them was bound with SO_REUSEADDR.
UdPortOnce ==
    \A s, r \in UdSocks : s # r /\ ud[s].port # 0 /\ ud[s].port = ud[r].port =>
        ud[s].reuse \/ ud[r].reuse

=============================================================================
