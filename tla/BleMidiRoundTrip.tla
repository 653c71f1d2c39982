------------------------- MODULE BleMidiRoundTrip --------------------------
(***************************************************************************)
(* The packet writer and the packet parser put together: a client writes   *)
(* messages to packets, and a peer that runs the same code parses them.    *)
(*                                                                         *)
(* The client keeps to the rules of ble_midi_packet.h: data, real time     *)
(* messages and an end only inside a sysex message, other messages only    *)
(* outside, timestamps that never go back, and less than 128 ms (what one  *)
(* wrap of the low part can tell) between two of them in a packet.         *)
(* Whatever the packet holds may be sent at any time.                      *)
(***************************************************************************)
EXTENDS BleMidiParser

CONSTANTS
    Messages,     \* the messages the client writes, three bytes each
    SysexData,    \* arguments of ble_midi_writer_add_sysex_data
    SysexMsgs,    \* arguments of ble_midi_writer_add_sysex_msg
    StartTimes,   \* the time when a packet is begun
    Delays,       \* how time may advance while a packet is written
    MaxSpan       \* bound: time that passes while a packet is written

ASSUME RoundTripConstants ==
    /\ \A m \in Messages : m \in Byte \X Byte \X Byte
    /\ \A d \in SysexData \cup SysexMsgs : d \in Seq(Byte) /\ d # <<>>
    /\ StartTimes \subseteq Timestamp
    /\ \A d \in Delays : d \in 1 .. 127
    /\ MaxSpan \in Nat

VARIABLES
    w,         \* the packet being written
    written,   \* history: what the calls that succeeded added to it
    now,       \* the 13 bit time
    span,      \* the time since the packet was begun
    cases      \* history: which of the cases below the packet ran into

vars == <<w, written, now, span, cases>>

(* "realtime first", "end first": a continuation packet of a sysex message *)
(* begins with a real time message, or with the end of the message;        *)
(* "wrap after sysex": the low part of the timestamp wraps in a packet     *)
(* that already holds bytes of a sysex message.                            *)
AllCases == {"realtime first", "end first", "wrap after sysex"}

TypeOK ==
    /\ w \in Writer /\ Len(w.tx_buf) <= BLE_MIDI_TX_PACKET_MAX_SIZE
    /\ \A i \in 1 .. Len(written) :
           written[i].cb \in {"midi_message_cb", "sysex_start_cb",
                              "sysex_data_cb", "sysex_end_cb"}
    /\ now \in Timestamp
    /\ span \in 0 .. MaxSpan
    /\ cases \subseteq AllCases

Init ==
    /\ w = ble_midi_writer_init
    /\ written = <<>>
    /\ now \in StartTimes
    /\ span = 0
    /\ cases = {}

-----------------------------------------------------------------------------
ContinuationBegins == w.in_sysex_msg /\ w.tx_buf = <<>>
RunsInto(c, condition) == cases' = IF condition THEN cases \cup {c} ELSE cases

(* A call that succeeds, and the events the peer should see for it.        *)
Write(r, events) ==
    /\ r.rc = "SUCCESS"
    /\ w' = r.w
    /\ written' = written \o events
    /\ UNCHANGED <<now, span>>

AddMsg(m) ==
    /\ RunsInto("realtime first", ContinuationBegins)
    /\ Write(ble_midi_writer_add_msg(w, m, now), <<MessageEvent(Meaning(m), now)>>)

StartSysex ==
    /\ Write(ble_midi_writer_start_sysex_msg(w, now), <<StartEvent(now)>>)
    /\ UNCHANGED cases

(* The client is told how many bytes were taken.                           *)
AddSysexData(d) ==
    LET r == ble_midi_writer_add_sysex_data(w, d, now)
    IN  /\ w.in_sysex_msg
        /\ Write(r, [i \in 1 .. r.n |-> DataEvent(d[i])])
        /\ UNCHANGED cases

EndSysex ==
    /\ RunsInto("end first", ContinuationBegins)
    /\ Write(ble_midi_writer_end_sysex_msg(w, now), <<EndEvent(now)>>)

AddSysexMsg(msg) ==
    /\ ~w.in_sysex_msg
    /\ Write(ble_midi_writer_add_sysex_msg(w, msg, now),
             <<StartEvent(now)>>
             \o [i \in 1 .. Len(msg) - 2 |-> DataEvent(msg[i + 1])]
             \o <<EndEvent(now)>>)
    /\ UNCHANGED cases

(* The packet is sent and a new one begun, some time later.                *)
Send(t) ==
    /\ w.tx_buf # <<>>
    /\ w' = ble_midi_writer_reset(w)
    /\ written' = <<>>
    /\ now' = t
    /\ span' = 0
    /\ cases' = {}

HoldsSysex == \E i \in 1 .. Len(written) : written[i].cb # "midi_message_cb"

Tick(d) ==
    /\ w.tx_buf # <<>>
    /\ span + d <= MaxSpan
    /\ RunsInto("wrap after sysex", HoldsSysex /\ (now % 128) + d >= 128)
    /\ now' = (now + d) % 8192
    /\ span' = span + d
    /\ UNCHANGED <<w, written>>

Next ==
    \/ \E m \in Messages : AddMsg(m)
    \/ StartSysex
    \/ \E d \in SysexData : AddSysexData(d)
    \/ EndSysex
    \/ \E msg \in SysexMsgs : AddSysexMsg(msg)
    \/ \E t \in StartTimes : Send(t)
    \/ \E d \in Delays : Tick(d)

Spec == Init /\ [][Next]_vars

-----------------------------------------------------------------------------
Untimed(events) == [i \in 1 .. Len(events) |-> <<events[i].cb, events[i].bytes>>]

Parsed == ble_midi_parse_packet(w.tx_buf)

(* PacketDecodes: at every moment ble_midi_parse_packet reads the packet   *)
(* as it is without an error, and makes exactly the callbacks for what     *)
(* was written to it: same messages, same order, same timestamps.  Left    *)
(* out status bytes and timestamps, system messages inside running status, *)
(* sysex messages over several packets and timestamps that wrap included;  *)
(* the packets that run into one of the three cases excepted.              *)
PacketDecodes ==
    w.tx_buf # <<>> /\ cases = {} => Parsed.rc = "SUCCESS" /\ Parsed.events = written

(* ContentsDecode: a low timestamp part that wraps behind bytes of a sysex *)
(* message may give wrong timestamps, but never wrong messages or data.    *)
ContentsDecode ==
    w.tx_buf # <<>> /\ cases \subseteq {"wrap after sysex"} =>
        /\ Parsed.rc = "SUCCESS"
        /\ Untimed(Parsed.events) = Untimed(written)
=============================================================================
