---------------------------- MODULE SingleMsgTx ----------------------------
(***************************************************************************)
(* The transmit calls of ble_midi/src/ble_midi.c in the default mode,      *)
(* CONFIG_BLE_MIDI_TX_MODE_SINGLE_MSG: each call fills context.tx_writer   *)
(* with one message and hands the packet to the Bluetooth stack.  A peer   *)
(* that runs the same code parses what it receives.                        *)
(*                                                                         *)
(* The stack may refuse a packet (no buffer).  said is what the last call  *)
(* reported to the application as transmitted, heard the callbacks of the  *)
(* peer for the packet that call sent.  Calls come from one thread and are *)
(* not interrupted by the Bluetooth callbacks.                             *)
(***************************************************************************)
EXTENDS BleMidiParser, SequencesExt

CONSTANTS
    Messages,      \* arguments of ble_midi_tx_msg
    SysexData,     \* arguments of ble_midi_tx_sysex_data
    Timestamps,    \* the values timestamp_ms() returns
    Mtus,          \* the ATT MTUs a connection may have
    Calls,         \* the calls the application makes
    StackMayRefuse \* may the stack refuse a packet?

ASSUME SingleConstants ==
    /\ \A m \in Messages : m \in Byte \X Byte \X Byte
    /\ \A d \in SysexData : d \in Seq(Byte)
    /\ Timestamps \subseteq Timestamp
    /\ \A m \in Mtus : m \in Nat /\ m >= 23
    /\ Calls \subseteq {"msg", "start", "data", "end"}
    /\ StackMayRefuse \in BOOLEAN

VARIABLES
    tx_writer,     \* context.tx_writer
    open,          \* has the application a sysex message in progress?
    said, heard,
    outside        \* history: was the writer outside a sysex message when the
                   \* last call was made?

vars == <<tx_writer, open, said, heard, outside>>

(* on_mtu_changed: packets leave room for the ATT header of three bytes.   *)
MaxSizeFor(mtu) == IF mtu - 3 > BLE_MIDI_TX_PACKET_MAX_SIZE
                   THEN BLE_MIDI_TX_PACKET_MAX_SIZE ELSE mtu - 3

WithMtu(w, mtu) == [w EXCEPT !.tx_buf_max_size = MaxSizeFor(mtu)]

Init ==
    /\ \E mtu \in Mtus : tx_writer = WithMtu(ble_midi_writer_init, mtu)
    /\ open = FALSE
    /\ said = <<>>
    /\ heard = <<>>
    /\ outside = TRUE

-----------------------------------------------------------------------------
(* send_packet: accepted, and then parsed by the peer, or refused.         *)
send_packet(bytes, accepted) ==
    /\ accepted \/ StackMayRefuse
    /\ heard' = IF accepted THEN midi_write_cb(bytes) ELSE <<>>

Report(events, accepted) == said' = IF accepted THEN events ELSE <<>>

(* Faulty: the message goes behind what the packet already holds.          *)
FreshPacketNever == tx_writer
FreshPacket == ble_midi_writer_reset(tx_writer)

(* The result of the writer is ignored; the call returns that of           *)
(* send_packet, also when the packet is empty.                             *)
SendResult(r, events, accepted) ==
    /\ tx_writer' = r.w
    /\ outside' = ~tx_writer.in_sysex_msg
    /\ send_packet(r.w.tx_buf, accepted)
    /\ Report(events, accepted)

ble_midi_tx_msg(m, t, accepted) ==
    /\ "msg" \in Calls
    /\ open => is_realtime_message(m[1])
    /\ SendResult(ble_midi_writer_add_msg(FreshPacket, m, t),
                  <<MessageEvent(Meaning(m), t)>>, accepted)
    /\ UNCHANGED open

ble_midi_tx_sysex_start(t, accepted) ==
    /\ "start" \in Calls /\ ~open
    /\ SendResult(ble_midi_writer_start_sysex_msg(FreshPacket, t),
                  <<StartEvent(t)>>, accepted)
    /\ open' = accepted

ble_midi_tx_sysex_end(t, accepted) ==
    /\ "end" \in Calls /\ open
    /\ SendResult(ble_midi_writer_end_sysex_msg(FreshPacket, t),
                  <<EndEvent(t)>>, accepted)
    /\ open' = ~accepted

(* add_result is the number of data bytes, and the length of the packet    *)
(* that is sent.                                                           *)
ble_midi_tx_sysex_data(d, t, accepted) ==
    LET r == ble_midi_writer_add_sysex_data(FreshPacket, d, t)
    IN  /\ "data" \in Calls /\ open
        /\ d # <<>>
        /\ tx_writer' = r.w
        /\ outside' = ~tx_writer.in_sysex_msg
        /\ IF r.rc = "SUCCESS"
           THEN /\ send_packet(SubSeq(r.w.tx_buf, 1, r.n), accepted)
                /\ Report([i \in 1 .. r.n |-> DataEvent(d[i])], accepted)
           ELSE said' = <<>> /\ heard' = <<>>
        /\ UNCHANGED open

on_mtu_changed(mtu) ==
    /\ tx_writer' = WithMtu(tx_writer, mtu)
    /\ UNCHANGED <<open, said, heard, outside>>

(* ble_midi_context_reset and on_mtu_changed; the application starts over. *)
on_connected(mtu) ==
    /\ tx_writer' = WithMtu(ble_midi_writer_init, mtu)
    /\ open' = FALSE
    /\ said' = <<>> /\ heard' = <<>>
    /\ outside' = TRUE

Next ==
    \/ \E m \in Messages, t \in Timestamps, a \in BOOLEAN : ble_midi_tx_msg(m, t, a)
    \/ \E t \in Timestamps, a \in BOOLEAN : ble_midi_tx_sysex_start(t, a)
    \/ \E t \in Timestamps, a \in BOOLEAN : ble_midi_tx_sysex_end(t, a)
    \/ \E d \in SysexData, t \in Timestamps, a \in BOOLEAN :
           ble_midi_tx_sysex_data(d, t, a)
    \/ \E m \in Mtus : on_mtu_changed(m)
    \/ \E m \in Mtus : on_connected(m)

Spec == Init /\ [][Next]_vars

-----------------------------------------------------------------------------
(* NothingInvented: the peer never hears anything but what the call was    *)
(* asked to send, whatever went wrong in this call or in the calls before: *)
(* bytes of an earlier message, or a message under a wrong status, are     *)
(* never heard.                                                            *)
NothingInvented == IsPrefix(heard, said)

(* A status byte that begins a message, and data bytes.                    *)
WellFormed(m) == m # <<>> /\ \A i \in 2 .. Len(m) : m[i] < 128

(* SaidIsHeard: a message, or the start of a sysex message, that a call    *)
(* reports as transmitted is what the peer's callbacks get from the packet *)
(* if the message is well formed and the writer was outside a sysex        *)
(* message, after any sequence of calls, refused packets, MTU changes and  *)
(* reconnections.                                                          *)
SaidIsHeard ==
    /\ outside
    /\ said # <<>>
    /\ \/ said[1].cb = "sysex_start_cb"
       \/ said[1].cb = "midi_message_cb" /\ WellFormed(said[1].bytes)
    => heard = said

(* ReportedIsHeard: everything a call reports as transmitted is heard.     *)
ReportedIsHeard == heard = said
=============================================================================
