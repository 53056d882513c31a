----------------------------- MODULE MCChannels -----------------------------
(* One run for channels: every behaviour is about one of the               *)
(* components, with a scenario of that component.                          *)
EXTENDS Pipe, UnixSocket, Inet, EventFds, TLC

-----------------------------------------------------------------------------
(* Pipe *)
PiSc(k, e, d, l) == [kind |-> k, ends |-> e, does |-> d, lens |-> l]
PiT1 == CHOOSE t \in PiTasks : TRUE
PiT2 == CHOOSE t \in PiTasks \ {PiT1} : TRUE
PiT3 == CHOOSE t \in PiTasks \ {PiT1, PiT2} : TRUE
PiTwoWriters ==
  PiSc("pipe", (PiT1 :> {"r"} @@ PiT2 :> {"w"} @@ PiT3 :> {"w"}),
     (PiT1 :> {"read","close"} @@ PiT2 :> {"write", "close"} @@ PiT3 :> {"write", "nonblock"}), {2})
PiTwoReaders ==
  PiSc("pipe", (PiT1 :> {"r"} @@ PiT2 :> {"w"} @@ PiT3 :> {"r"}),
     (PiT1 :> {"read","close"} @@ PiT2 :> {"write", "close"} @@ PiT3 :> {"read", "close"}), {3})
PiResizes ==
  PiSc("pipe", (PiT1 :> {"r"} @@ PiT2 :> {"w"} @@ PiT3 :> {}),
     (PiT1 :> {"read", "close", "interrupt"} @@ PiT2 :> {"write", "close", "interrupt", "resize"} @@ PiT3 :> {}), {3})
PiPollsOut ==
  PiSc("pipe", (PiT1 :> {"r"} @@ PiT2 :> {} @@ PiT3 :> {"w"}),
     (PiT1 :> {"read", "once"} @@ PiT2 :> {} @@ PiT3 :> {"write", "poll", "timeout"}), {2})
PiSelects ==
  PiSc("pipe", (PiT1 :> {"r"} @@ PiT2 :> {} @@ PiT3 :> {"w"}),
     (PiT1 :> {"read", "once"} @@ PiT2 :> {} @@ PiT3 :> {"write", "select"}), {2})
PiHangsUp ==
  PiSc("pipe", (PiT1 :> {"r"} @@ PiT2 :> {"r"} @@ PiT3 :> {"w"}),
     (PiT1 :> {"close"} @@ PiT2 :> {"close"} @@ PiT3 :> {"write", "poll", "timeout"}), {2})
PiPollsIn ==
  PiSc("pipe", (PiT1 :> {"w"} @@ PiT2 :> {"w"} @@ PiT3 :> {"r"}),
     (PiT1 :> {"write", "close"} @@ PiT2 :> {"write", "close"} @@ PiT3 :> {"poll", "signal"}), {1, 2})
PiOpens ==
  PiSc("fifo", [t \in PiTasks |-> {}],
     (PiT1 :> {"open_r", "close", "interrupt"} @@ PiT2 :> {"open_w", "close", "interrupt"} @@ PiT3 :> {"open_r", "open_w", "close"}), {1})
PiReopens ==
  PiSc("fifo", [t \in PiTasks |-> {}],
     (PiT1 :> {"open_r", "read"} @@ PiT2 :> {"open_w", "write", "close"} @@ PiT3 :> {}), {1})
PiLeaves ==
  PiSc("fifo", [t \in PiTasks |-> {}],
     (PiT1 :> {"open_r", "read", "close"} @@ PiT2 :> {"open_w", "write"} @@ PiT3 :> {"open_r", "nonblock", "close"}), {1})
PiMain == {PiTwoWriters, PiTwoReaders, PiResizes, PiPollsOut, PiSelects, PiHangsUp, PiPollsIn, PiOpens, PiReopens, PiLeaves}

\* Outside the run, SleeperHasCause fails: of two sleeping readers a write wakes one, which
\* takes a part of the bytes.
PiPartReads == {[PiTwoReaders EXCEPT !.lens = {1, 2}]}
\* Outside the run, SleeperHasCause fails: a larger pipe does not wake its sleeping writer.
PiGrows == {PiSc("pipe", (PiT1 :> {"r"} @@ PiT2 :> {"w"} @@ PiT3 :> {"r"}),
     (PiT1 :> {} @@ PiT2 :> {"write"} @@ PiT3 :> {"resize"}), {2})}
\* Outside the run, SignalEndsCall fails: a signal comes before read() or write() is Blocked,
\* and there is no second look.
PiEarlySignal == {[PiResizes EXCEPT !.does[PiT1] = {"read", "signal"}]}
\* Outside the run, PollerWakes fails: a notify on its way from an earlier read or write takes
\* the registration before the poller is Blocked.
PiLateNotify == {[PiPollsOut EXCEPT !.does[PiT1] = {"read", "close"}],
    PiSc("pipe", (PiT1 :> {"r"} @@ PiT2 :> {"w"} @@ PiT3 :> {"r"}),
     (PiT1 :> {"read"} @@ PiT2 :> {"write"} @@ PiT3 :> {"poll"}), {1, 2})}
\* Outside the run, OpenMeansMet fails: a signal was pending before the open, or a wake of an
\* earlier sleep comes late.
PiOpenAlone == {[PiOpens EXCEPT !.does[PiT1] = {"open_r", "signal"}],
    [PiLeaves EXCEPT !.does[PiT2] = {"open_w", "write", "close"}]}
\* Outside the run, HangUpSeen fails: an interrupted open takes its count back and leaves the
\* side open.
PiOpenGivesUp == {[PiReopens EXCEPT !.does[PiT1] = {"open_r", "interrupt"}]}

-----------------------------------------------------------------------------
(* UnixSocket *)
UsO(op, s, n) == [op |-> op, s |-> s, n |-> n, nb |-> FALSE, timed |-> FALSE, peek |-> FALSE,
                  all |-> FALSE, how |-> {}]
UsNb(o) == [o EXCEPT !.nb = TRUE]
UsTimed(o) == [o EXCEPT !.timed = TRUE]
UsShut(s, how) == [UsO("shutdown", s, 0) EXCEPT !.how = how]
UsRd(s, n) == UsO("read", s, n)
UsWr(s, n) == UsO("write", s, n)
UsSc(pair, a, b, c, sig) == [pair |-> pair, prog |-> <<a, b, c>>, sig |-> sig]
UsMain == {
    UsSc(TRUE, <<UsWr(1, 3), UsWr(1, 1)>>, <<[UsRd(2, 2) EXCEPT !.peek = TRUE],
         [UsRd(2, 2) EXCEPT !.all = TRUE], UsRd(2, 1)>>, <<UsNb(UsWr(1, 1))>>, {2}),
    UsSc(TRUE, <<UsWr(1, 1), UsShut(1, {"w"})>>, <<UsTimed(UsRd(2, 1)), UsRd(2, 1)>>, <<UsRd(2, 1)>>, {2}),
    UsSc(TRUE, <<UsWr(1, 1), UsO("close", 1, 0)>>, <<UsRd(2, 1), UsRd(2, 1)>>, <<UsRd(2, 1), UsWr(2, 1)>>, {2, 3}),
    UsSc(TRUE, <<UsWr(1, 2), UsWr(1, 1)>>, <<UsRd(2, 1), UsShut(2, {"r", "w"})>>, <<UsNb(UsWr(1, 1))>>, {}),
    UsSc(TRUE, <<UsWr(1, 2), UsTimed(UsWr(1, 1))>>, <<UsShut(2, {"r", "w"})>>, <<UsTimed(UsWr(2, 1))>>, {1}),
    UsSc(FALSE, <<UsO("connect", 1, 0), UsWr(1, 1), UsO("close", 1, 0)>>,
         <<UsO("connect", 2, 0), UsRd(2, 1)>>,
         <<UsO("listen", 3, 0), UsO("accept", 3, 0), UsRd(0, 1), UsO("close", 3, 0)>>, {2}),
    UsSc(FALSE, <<UsO("connect", 1, 0), UsRd(1, 1)>>, <<UsTimed(UsO("accept", 3, 0)), UsWr(0, 1)>>,
         <<UsO("listen", 3, 0), UsNb(UsO("accept", 3, 0)), UsShut(0, {"w"}), UsO("close", 3, 0)>>, {2})}
\* Outside the run, UsHangUpWakesWriters fails: the peer goes between the look at the flags
\* and the lock, and the writer queues up behind it.
UsCloseRace == {UsSc(TRUE, <<UsWr(1, 2), UsWr(1, 1)>>, <<UsO("close", 2, 0)>>, <<>>, {})}
\* Outside the run, UsSleeperHasCause fails: of two sleeping writers a read wakes one, which
\* leaves room.
UsTwoWriters == {UsSc(TRUE, <<UsWr(1, 2), UsWr(1, 1)>>, <<UsRd(2, 2)>>, <<UsWr(1, 1)>>, {})}
\* Outside the run, UsSleeperHasCause fails: the acceptor that is woken has timed out, and the
\* connection waits for another call.
UsTwoAcceptors == {UsSc(FALSE, <<UsO("connect", 1, 0)>>, <<UsTimed(UsO("accept", 3, 0))>>,
    <<UsO("listen", 3, 0), UsO("accept", 3, 0)>>, {})}
\* Outside the run, UsLastLook fails: write() reports the deadline or the signal without a
\* retry when room has come.
UsLateRoom == {UsSc(TRUE, <<UsWr(1, 2), UsTimed(UsWr(1, 1))>>, <<UsRd(2, 1)>>, <<>>, {1})}

-----------------------------------------------------------------------------
(* Tcp *)
TO(op, s) == [op |-> op, s |-> s, nb |-> FALSE, timed |-> FALSE, n |-> 1, all |-> FALSE, peek |-> FALSE,
              how |-> {"w"}]
NB(o) == [o EXCEPT !.nb = TRUE]
Timed(o) == [o EXCEPT !.timed = TRUE]
TcpSc(b, p1, p2, p3) == [backlog |-> b, prog |-> <<p1, p2, p3>>, overlap |-> FALSE]
\* 1: a server and two clients; the second is asynchronous.
Serve == TcpSc(1, <<TO("listen", 1), TO("accept", 1), TO("close", 1)>>,
                  <<Timed(TO("connect", 2))>>,
                  <<NB(TO("connect", 3)), TO("so_error", 3)>>)
\* 2: data, half-close and the final close.
Stream == TcpSc(1, <<TO("listen", 1), TO("accept", 1), [TO("recv", 0) EXCEPT !.n = 2, !.all = TRUE], TO("close", 0)>>,
                   <<TO("connect", 2), TO("send", 2), TO("send", 2), TO("shutdown", 2), TO("recv", 2)>>,
                   <<>>)
\* 3: a failed connect() and its retries.
Retry == TcpSc(2, <<NB(TO("connect", 2)), TO("so_error", 2), NB(TO("connect", 2))>>,
                  <<TO("connect", 2), TO("tpoll", 2)>>,
                  <<TO("listen", 1), NB(TO("accept", 1)), TO("close", 1)>>)
\* 4: options before listen(), peeking, non-blocking calls, a second listener.
Odd == TcpSc(1, <<TO("nodelay", 1), TO("listen", 1), TO("listen", 1), TO("accept", 1),
                  [TO("recv", 0) EXCEPT !.peek = TRUE], NB(TO("recv", 0)), NB(TO("recv", 0))>>,
                <<TO("connect", 2), [TO("send", 2) EXCEPT !.n = 2], NB(TO("send", 2)), [TO("shutdown", 2) EXCEPT !.how = {"r"}]>>,
                <<TO("listen", 3), TO("shutdown", 3), TO("other", 3)>>)
\* 5: the sender closes before its byte is read.
Bye == TcpSc(1, <<TO("listen", 1), TO("accept", 1), TO("recv", 0), TO("recv", 0)>>,
                <<TO("connect", 2), TO("send", 2), TO("close", 2)>>, <<>>)
\* 6: two harts read and write one connection.
Harts2 == [TcpSc(1, <<TO("listen", 1), NB(TO("connect", 2)), TO("so_error", 2), TO("accept", 1), TO("send", 2)>>,
                 <<TO("send", 2), TO("recv", 11)>>, <<TO("recv", 11), TO("send", 11)>>) EXCEPT !.overlap = TRUE]
TcpMain == {Serve, Stream, Retry, Odd, Bye, Harts2}
\* Outside the run, TcpNoLockCycle fails: connect() on one hart meets a poll on another.
TcpOverlap == {[Serve EXCEPT !.overlap = TRUE]}
\* Outside the run, TcpEofComplete fails: the sender closes while the receiver's buffer is full.
TcpLongBye == {TcpSc(1, <<TO("listen", 1), TO("accept", 1), TO("recv", 0), TO("recv", 0), TO("recv", 0)>>,
                        <<TO("connect", 2), TO("send", 2), TO("send", 2), TO("close", 2)>>, <<>>)}
\* Outside the run, TcpRefusalTrue fails: the server closes before connect() looks.
TcpShort == {TcpSc(1, <<TO("listen", 1), TO("accept", 1), TO("close", 0)>>, <<TO("connect", 2)>>, <<>>)}
\* Outside the run, TcpNoStrayWake fails: a task leaves its call while a poller is about to wake it.
TcpStray == {TcpSc(1, <<TO("listen", 1), TO("accept", 1), TO("other", 1)>>, <<TO("connect", 2)>>, <<>>)}
\* Outside the run, TcpErrorTold fails: a signal ends connect() after another thread saw the refusal.
TcpUntold == {TcpSc(1, <<Timed(TO("connect", 2))>>, <<TO("tpoll", 2)>>, <<>>)}

-----------------------------------------------------------------------------
(* Udp *)
UO(op, s) == [op |-> op, s |-> s, port |-> 0, to |-> 0, len |-> 1, n |-> 1, nb |-> FALSE, timed |-> FALSE,
              peek |-> FALSE, one |-> FALSE, nosig |-> FALSE, reuse |-> FALSE, expired |-> FALSE,
              fault |-> <<"none", 0>>, how |-> {"r", "w"}]
Bind(s, p) == [UO("bind", s) EXCEPT !.port = p]
Conn(s, p) == [UO("connect", s) EXCEPT !.to = p]
Send(s, p, n) == [UO("send", s) EXCEPT !.to = p, !.n = n]
Recv(s, n) == [UO("recv", s) EXCEPT !.n = n]
One(o) == [o EXCEPT !.one = TRUE]
Peek(o) == [o EXCEPT !.peek = TRUE]
UNb(o) == [o EXCEPT !.nb = TRUE]
\* A vector is received while another task reads the same socket.
Vector == <<<<Bind(1, 7), One(Recv(1, 2)), [Recv(1, 2) EXCEPT !.timed = TRUE, !.expired = TRUE]>>,
            <<Send(2, 7, 2), Send(2, 7, 1), [UO("shutdown", 2) EXCEPT !.how = {"w"}]>>,
            <<[Recv(1, 1) EXCEPT !.timed = TRUE], [Recv(1, 2) EXCEPT !.fault = <<"payload", 2>>]>>>>
\* Connected sockets, a port in use, half-close, peeking.
Peers == <<<<Bind(1, 7), Bind(3, 7), Peek(UNb(Recv(1, 1))), UNb(Recv(1, 1)), UNb([Recv(1, 1) EXCEPT !.fault = <<"payload", 1>>])>>,
           <<Conn(2, 7), Send(2, 0, 1), Send(2, 0, 1), UO("shutdown", 2), Send(2, 0, 1), Recv(2, 1)>>,
           <<UO("send", 3), Conn(3, 7), Send(3, 0, 1), UO("close", 3)>>>>
\* An oversized datagram is looked at.
Big == <<<<Bind(1, 7), Peek(UNb(Recv(1, 1))), Peek([Recv(1, 1) EXCEPT !.timed = TRUE])>>,
         <<[Send(2, 7, 2) EXCEPT !.len = 2]>>, <<>>>>
\* An implicit bind against an explicit one.
Implicit == <<<<Send(1, 7, 1), UNb(Recv(1, 1))>>, <<Bind(1, 7), [Bind(2, 7) EXCEPT !.reuse = TRUE], UNb(Recv(1, 1))>>,
              <<[Send(3, 7, 3) EXCEPT !.nosig = TRUE], UNb([Recv(2, 2) EXCEPT !.fault = <<"header", 1>>])>>>>
UdMain == {Vector, Peers, Big, Implicit}
\* Outside the run, UdPortOnce fails: two sockets are bound to a port at the same time.
UdBinds == {<<<<Bind(1, 7)>>, <<Bind(2, 7)>>, <<>>>>}
\* Outside the run, UdConsumedReported fails: the second message header of recvmmsg() cannot be
\* written.
UdFault == {<<<<Bind(1, 7), [Recv(1, 2) EXCEPT !.fault = <<"header", 2>>]>>, <<Send(2, 7, 2)>>, <<>>>>}
\* Outside the run, UdConsumedReported fails: a datagram is longer than the bounce buffer.
UdOversized == {<<<<Bind(1, 7), [Recv(1, 1) EXCEPT !.timed = TRUE]>>, <<[Send(2, 7, 1) EXCEPT !.len = 2]>>, <<>>>>}

-----------------------------------------------------------------------------
(* EventFds *)
EfSc3(a, b, c, fds, files, end) == [prog |-> <<a, b, c>>, tab |-> <<1, 1, 1>>, fds |-> <<fds>>,
                                   files |-> files, mask |-> <<FALSE, FALSE, FALSE>>, end |-> end,
                                   harts |-> 3]
EfOneHart(s) == [s EXCEPT !.harts = 1]
Rd(fd) == [op |-> "read", fd |-> fd]
Wr(fd, v) == [op |-> "write", fd |-> fd, v |-> v]
NewEvent == [op |-> "eventfd", v |-> 0, sema |-> FALSE, nb |-> FALSE]
NewTimer == [op |-> "timerfd", nb |-> TRUE]
SetTimer(fd, ms, every, abs, f) == [op |-> "settime", fd |-> fd, ms |-> ms, every |-> every, abs |-> abs, fault |-> f]
EpCtl(how, fd, events, et, once) ==
    [op |-> "ctl", how |-> how, fd |-> fd, events |-> events, et |-> et, once |-> once, fault |-> FALSE]
EpFaulty(fd) == [EpCtl("add", fd, {"in"}, FALSE, FALSE) EXCEPT !.fault = TRUE]
EpWait(max, ms, f) == [op |-> "wait", max |-> max, ms |-> ms, fault |-> f, swap |-> FALSE, mask |-> FALSE]
EpWaitMasked(ms, m) == [EpWait(1, ms, FALSE) EXCEPT !.swap = TRUE, !.mask = m]
EfClose(fd) == [op |-> "close", fd |-> fd]
EfDup(fd) == [op |-> "dup", fd |-> fd]
EfKill(to) == [op |-> "kill", to |-> to]
In == {"in"}
Ev(n) == EventFd(n, FALSE, FALSE)

\* Readers and writers of a semaphore and of a counter at its limit.
Counters == EfSc3(<<Rd(1), Wr(2, 2), Wr(2, 3)>>, <<Wr(1, 2), Rd(2)>>, <<Rd(1), EfKill(1), Wr(3, 1), NewEvent>>,
                  <<1, 2>>, <<EventFd(0, TRUE, FALSE), Ev(1)>>, 1)
\* A periodic timerfd, set again while it is read.
TimerReads == EfSc3(<<NewTimer, SetTimer(1, 1, 1, FALSE, FALSE), Rd(1), Rd(1)>>,
                    <<SetTimer(1, 2, 0, TRUE, FALSE), Rd(1)>>, <<SetTimer(1, 1, 1, FALSE, TRUE), Wr(1, 1)>>, <<>>, <<>>, 4)
TimerWaits == EfSc3(<<SetTimer(1, 1, 2, FALSE, FALSE), Rd(1), SetTimer(1, 0, 0, FALSE, FALSE)>>,
                    <<EpCtl("add", 1, In, FALSE, FALSE), EpWait(1, 2, FALSE)>>, <<>>,
                    <<1>>, <<TimerFd(FALSE)>>, 3)
\* One waiter, two event files, level-triggered; a signal and a deadline.
Levels == EfSc3(<<EpCtl("add", 1, In, FALSE, FALSE), EpCtl("add", 2, In, FALSE, FALSE), EpWait(1, -1, FALSE),
                  EpWait(2, 2, FALSE)>>,
                <<Wr(1, 1), EfKill(1)>>, <<Wr(2, 1), EfKill(1)>>, <<1, 2>>, <<Ev(0), Ev(0)>>, 3)
\* Edge-triggered and one-shot interests, a failing copy, rearming.
OneShots == EfSc3(<<EpCtl("add", 1, In, FALSE, TRUE), EpCtl("add", 1, In, FALSE, TRUE), EpWait(1, 0, TRUE),
                    EpWait(1, -1, FALSE), EpWait(1, 1, FALSE)>>,
                  <<EpCtl("mod", 1, In, FALSE, TRUE), EpCtl("mod", 1, In, TRUE, TRUE)>>, <<Wr(1, 1)>>, <<1>>, <<Ev(0)>>, 2)
Edges == EfSc3(<<EpCtl("add", 1, {"in", "out"}, TRUE, FALSE), EpFaulty(1), EpWait(0, 0, FALSE), EpWait(1, -1, FALSE),
                 EpWaitMasked(2, TRUE)>>, <<Wr(1, 1), EfKill(1)>>, <<EpCtl("del", 2, In, FALSE, FALSE)>>, <<1>>, <<Ev(0)>>, 3)
\* The descriptor is duplicated and the first one closed; later the file is gone.
Closes2 == EfSc3(<<EpCtl("add", 1, In, FALSE, FALSE), EfDup(1), EfClose(1), EpWait(1, 0, FALSE), Wr(2, 1),
                  EpWait(1, 0, FALSE), EfClose(2), EpWait(1, 1, FALSE)>>, <<Rd(2), EpCtl("del", 1, In, FALSE, FALSE)>>,
                 <<EpWait(1, 0, FALSE)>>, <<1>>, <<Ev(0)>>, 2)
\* The same counters without waiting.
Polled == [Counters EXCEPT !.files = <<EventFd(0, TRUE, TRUE), EventFd(1, FALSE, TRUE)>>]
\* A sleeping reader, a signal.
Signalled == EfSc3(<<Rd(1), Rd(1)>>, <<EfKill(1)>>, <<Wr(1, 1)>>, <<1>>, <<Ev(0)>>, 1)
\* The timerfd read without waiting while epoll_wait() waits.
TimerPolls == [TimerWaits EXCEPT !.files = <<TimerFd(TRUE)>>]
EfMain == {EfOneHart(Counters), Polled, EfOneHart(Signalled), TimerReads, EfOneHart(TimerWaits), TimerPolls,
           Levels, OneShots, Edges, EfOneHart(Closes2)}

\* Outside the run, EfSleeperServed fails: the event comes after a reader's look and before it is
\* Blocked.
EfRead == {EfSc3(<<Rd(1)>>, <<Wr(1, 1)>>, <<>>, <<1>>, <<Ev(0)>>, 1)}
\* Outside the run, EfSignalEndsWait fails: so does a signal.
EfSignal == {EfSc3(<<Rd(1)>>, <<EfKill(1)>>, <<>>, <<1>>, <<Ev(0)>>, 1)}
\* Outside the run, EpInterestKept fails: an interest is added while another thread scans.
EfAdds == {EfSc3(<<EpWait(1, 0, FALSE)>>, <<NewEvent, EpCtl("add", 1, In, FALSE, FALSE)>>, <<>>, <<>>, <<>>, 1)}
\* Outside the run, EpSleeperServed fails: an interest is added while another thread sleeps.
EfLate == {EfSc3(<<EpCtl("add", 1, In, FALSE, FALSE), EpWait(1, -1, FALSE)>>,
                 <<EpCtl("add", 2, In, FALSE, FALSE)>>, <<>>, <<1, 2>>, <<Ev(0), Ev(1)>>, 1)}
\* Outside the run, EpSleeperServed fails: an event is consumed and raised again between two
\* looks of a sleeper.
EfDrained == {EfSc3(<<EpCtl("add", 1, In, FALSE, FALSE), EpWait(1, -1, FALSE)>>,
                 <<Wr(1, 1), Rd(1), Wr(1, 1)>>, <<>>, <<1>>, <<Ev(0)>>, 1)}

-----------------------------------------------------------------------------
CONSTANT ChannelsParts     \* the components this run is about
VARIABLE part       \* the one this behaviour is about
channelsVars == <<part, pipeVars, usVars, tcpVars, udVars, efVars>>

PipeFirst == CHOOSE s \in PipeScenarios : TRUE
UsFirst == CHOOSE s \in UsScenarios : TRUE
TcpFirst == CHOOSE s \in TcpScenarios : TRUE
UdFirst == CHOOSE s \in UdScenarios : TRUE
EfFirst == CHOOSE s \in EfScenarios : TRUE
ChannelsInit ==
    /\ part \in ChannelsParts
    /\ PipeInit /\ (part # "pipe" => pipeSc = PipeFirst)
    /\ UsInit /\ (part # "unix" => usSc = UsFirst)
    /\ TcpInit /\ (part # "tcp" => tcpSc = TcpFirst)
    /\ UdInit /\ (part # "udp" => udSc = UdFirst)
    /\ EfInit /\ (part # "events" => efSc = EfFirst)
ChannelsNext ==
    \/ part = "pipe" /\ PipeNext /\ UNCHANGED <<part, usVars, tcpVars, udVars, efVars>>
    \/ part = "unix" /\ UsNext /\ UNCHANGED <<part, pipeVars, tcpVars, udVars, efVars>>
    \/ part = "tcp" /\ TcpNext /\ UNCHANGED <<part, pipeVars, usVars, udVars, efVars>>
    \/ part = "udp" /\ UdNext /\ UNCHANGED <<part, pipeVars, usVars, tcpVars, efVars>>
    \/ part = "events" /\ EfNext /\ UNCHANGED <<part, pipeVars, usVars, tcpVars, udVars>>
ChannelsSpec == ChannelsInit /\ [][ChannelsNext]_channelsVars

-----------------------------------------------------------------------------
(* What the run checks: the properties of each component in the behaviours that are about
   it. In the others it stays in a state that some behaviour about it starts from. *)

\* Nobody sleeps on a pipe or a FIFO without a cause: readers, writers, pollers and
\* openers are woken by data, room, a partner, a signal or the last close. Left out: several
\* sleepers where the one that is woken takes a part, a pipe that grows, a signal before a
\* reader or writer is Blocked, a notify of an earlier call that meets a new poll, and opens
\* that are interrupted or woken late.
PipesServe ==
    /\ part = "pipe" =>
           /\ PipeTypeOK /\ SleeperHasCause /\ SignalEndsCall /\ LastCloseWakesAll
           /\ PollerWakes /\ HangUpSeen /\ OpenMeansMet /\ FifoCounts /\ QueuedOpenersMeet

\* A stream socket delivers its bytes once and in order, nobody sleeps on it without a
\* cause, also when a half is shut down, and a write gives up only without room. Left out: a
\* close of the peer after a writer looked at its flags, several writers or acceptors asleep,
\* and room that comes together with the deadline or a signal.
UnixSocketsServe ==
    /\ part = "unix" =>
           /\ UsTypeOK /\ UsStreamIntact /\ UsEofWakesReaders /\ UsHangUpWakesWriters /\ UsSleeperHasCause
           /\ UsLastLook
           /\ UsNotAllAsleep /\ UsNoOrphan

\* TCP and UDP sockets lose no connection, byte or datagram that was accepted, tell every
\* failure to a caller, leave no waiter behind and take their locks in one order. Left out:
\* harts that meet inside connect() and a poll, a sender that closes on a full buffer, a
\* server that closes before connect() looks, a waker that comes late, a connect() that a
\* signal ends, binds of one port at the same time, and datagrams that do not fit the buffer
\* or whose header cannot be written.
InetServes ==
    /\ part = "tcp" =>
           /\ TcpTypeOK /\ TcpSynMeetsListener /\ TcpWaitersInside /\ TcpBytesKept /\ TcpEofComplete
           /\ TcpRefusalTrue /\ TcpNoStrayWake /\ TcpErrorTold /\ TcpNoLockCycle
    /\ part = "udp" =>
           /\ UdTypeOK /\ UdOnceInOrder /\ UdConsumedReported /\ UdPortOnce

\* Counters of eventfd and timerfd are exact, nobody sleeps for an event or a signal that has
\* come already, directly or through epoll, and a one-shot interest is told once.  Left out:
\* reads that wait while another hart writes or signals, interests added while another thread
\* waits, and an event taken and raised again between the two looks of epoll_wait().
EventsServed ==
    /\ part = "events" =>
           /\ EfTypeOK /\ EfCountsExact /\ EfSleeperServed /\ EfSignalEndsWait /\ EpSleeperServed
           /\ EpInterestKept /\ EpOneShot

=============================================================================
