----------------------------- MODULE ByteQueue -----------------------------
(***************************************************************************)
(* What a pipe promises to its readers and writers: one bounded queue of   *)
(* bytes whose operations take effect at once.  A byte is known by the     *)
(* task that wrote it.  A call is visible with its arguments from the      *)
(* moment it is made until its result has been taken.                      *)
(***************************************************************************)
EXTENDS Integers, Sequences

CONSTANTS Callers, PipeBuf, BqNone
VARIABLES
    bytes,      \* the queue, oldest byte first
    room,       \* its capacity
    noReader, noWriter,  \* the last end of that side is closed
    call        \* of each task: [op, len, ret]

bqVars == <<bytes, room, noReader, noWriter, call>>

NoRet == <<BqNone>>
Least(a, b) == IF a < b THEN a ELSE b
Answer(t, r) == call' = [call EXCEPT ![t].ret = r]
Asks(t, op) == call[t].op = op /\ call[t].ret = NoRet

BqInit == /\ bytes = <<>> /\ room \in Nat
          /\ ~noReader /\ ~noWriter
          /\ call \in [Callers -> {[op |-> BqNone, len |-> 0, ret |-> NoRet]}]

\* A task makes a call, or its result is taken.
BqCall(t) ==
    /\ \/ /\ call[t].op = BqNone
          /\ \E op \in {"read", "write"}, n \in 1 .. room + PipeBuf :
                call' = [call EXCEPT ![t] = [op |-> op, len |-> n, ret |-> NoRet]]
       \/ /\ call[t].op # BqNone
          /\ call' = [call EXCEPT ![t] = [op |-> BqNone, len |-> 0, ret |-> NoRet]]
    /\ UNCHANGED <<bytes, room, noReader, noWriter>>

\* As much as there is, up to what was asked for.
BqRead(t) ==
    /\ Asks(t, "read") /\ bytes # <<>>
    /\ LET n == Least(call[t].len, Len(bytes))
       IN  /\ Answer(t, SubSeq(bytes, 1, n))
           /\ bytes' = SubSeq(bytes, n + 1, Len(bytes))
    /\ UNCHANGED <<room, noReader, noWriter>>

BqEof(t) ==
    /\ Asks(t, "read") /\ bytes = <<>> /\ noWriter
    /\ Answer(t, <<>>)
    /\ UNCHANGED <<bytes, room, noReader, noWriter>>

\* A write of at most PipeBuf bytes is whole; a larger one may be partial.
BqWrite(t) ==
    /\ Asks(t, "write") /\ ~noReader
    /\ LET n == Least(call[t].len, room - Len(bytes))
       IN  /\ n > 0 /\ (call[t].len <= PipeBuf => n = call[t].len)
           /\ bytes' = bytes \o [i \in 1 .. n |-> t]
           /\ Answer(t, [i \in 1 .. n |-> t])
    /\ UNCHANGED <<room, noReader, noWriter>>

BqBroken(t) ==
    /\ Asks(t, "write") /\ noReader
    /\ Answer(t, <<"EPIPE">>)
    /\ UNCHANGED <<bytes, room, noReader, noWriter>>

\* EAGAIN only where the operation could not be done, EINTR at any time.
BqFails(t) ==
    /\ \/ Asks(t, "read") /\ bytes = <<>> /\ ~noWriter
       \/ /\ Asks(t, "write") /\ ~noReader
          /\ IF call[t].len <= PipeBuf THEN room - Len(bytes) < call[t].len
             ELSE Len(bytes) >= room
    /\ Answer(t, <<"EAGAIN">>)
    /\ UNCHANGED <<bytes, room, noReader, noWriter>>
BqInterrupted(t) ==
    /\ call[t].op # BqNone /\ call[t].ret = NoRet
    /\ Answer(t, <<"EINTR">>)
    /\ UNCHANGED <<bytes, room, noReader, noWriter>>

\* The last end of a side closes for good; the capacity never cuts off bytes.
BqClose ==
    /\ \/ noReader' = TRUE /\ UNCHANGED noWriter
       \/ noWriter' = TRUE /\ UNCHANGED noReader
    /\ UNCHANGED <<bytes, room, call>>
BqResize ==
    /\ room' \in Nat /\ room' >= Len(bytes)
    /\ UNCHANGED <<bytes, noReader, noWriter, call>>

BqNext ==
    \/ \E t \in Callers : \/ BqCall(t) \/ BqRead(t) \/ BqEof(t) \/ BqWrite(t)
                          \/ BqBroken(t) \/ BqFails(t) \/ BqInterrupted(t)
    \/ BqClose \/ BqResize

BqSpec == BqInit /\ [][BqNext]_bqVars
=============================================================================
