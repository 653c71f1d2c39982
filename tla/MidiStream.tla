----------------------------- MODULE MidiStream ----------------------------
(***************************************************************************)
(* What the buffered transmit modes promise an application: on each        *)
(* connection a stream of MIDI bytes.  What is accepted joins the stream   *)
(* whole, what is sent is taken from its front, and bytes are dropped only *)
(* when a new connection begins.                                           *)
(***************************************************************************)
EXTENDS Integers, Sequences

CONSTANT Units         \* what an application may send, as sequences of bytes

VARIABLES pending,     \* the bytes accepted and not sent
          connection   \* the number of the connection

streamState == <<pending, connection>>

StreamInit == pending = <<>> /\ connection = 0

Accept(u) ==
    /\ pending' = pending \o u
    /\ UNCHANGED connection

Send(n) ==
    /\ pending' = SubSeq(pending, n + 1, Len(pending))
    /\ UNCHANGED connection

Reconnect ==
    /\ connection' = connection + 1
    /\ pending' = <<>>

StreamNext ==
    \/ \E u \in Units : Accept(u)
    \/ \E n \in 1 .. Len(pending) : Send(n)
    \/ Reconnect

StreamSpec == StreamInit /\ [][StreamNext]_streamState
=============================================================================
