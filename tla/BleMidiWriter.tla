--------------------------- MODULE BleMidiWriter ---------------------------
(***************************************************************************)
(* The BLE MIDI packet writer of ble_midi/src/ble_midi_packet.c: the pure  *)
(* functions that append MIDI messages to one outgoing packet.             *)
(*                                                                         *)
(* A writer is a record with the fields of struct ble_midi_writer_t.  The  *)
(* bytes of the packet are the sequence tx_buf, whose length is the C      *)
(* field tx_buf_size.  running_status_enabled and note_off_as_note_on are  *)
(* set once per build (Kconfig) and are constants here.  Every C function  *)
(* that changes a writer is an operator that returns a record: rc is the   *)
(* error code and w the writer after the call.                             *)
(***************************************************************************)
EXTENDS Integers, Sequences

CONSTANTS
    \* capacity of tx_buf in bytes (CONFIG_BLE_MIDI_TX_PACKET_MAX_SIZE)
    BLE_MIDI_TX_PACKET_MAX_SIZE,
    \* CONFIG_BLE_MIDI_SEND_RUNNING_STATUS
    running_status_enabled,
    \* CONFIG_BLE_MIDI_SEND_NOTE_OFF_AS_NOTE_ON
    note_off_as_note_on

ASSUME WriterConstants ==
    /\ BLE_MIDI_TX_PACKET_MAX_SIZE \in Nat
    /\ running_status_enabled \in BOOLEAN
    /\ note_off_as_note_on \in BOOLEAN

Byte == 0 .. 255

(* The 13 bit millisecond timestamps of BLE MIDI.                          *)
Timestamp == {t \in Nat : t < 8192}

(* struct ble_midi_writer_t *)
Writer == [ tx_buf                   : Seq(Byte),
            tx_buf_max_size          : 0 .. BLE_MIDI_TX_PACKET_MAX_SIZE,
            prev_status_byte         : Byte,
            prev_running_status_byte : Byte,
            prev_timestamp           : Timestamp,
            in_sysex_msg             : BOOLEAN ]

-----------------------------------------------------------------------------
(* Byte level helpers.                                                     *)

timestamp_high(t) == (t \div 128) % 64
timestamp_low(t)  == t % 128
header_byte(t)    == 128 + timestamp_high(t)
timestamp_byte(t) == 128 + timestamp_low(t)

is_data_byte(b) == b < 128

is_realtime_message(b)      == b \in {\hF8, \hFA, \hFB, \hFC, \hFE, \hFF}
is_system_common_message(b) == b \in {\hF1, \hF2, \hF3, \hF6}
is_channel_message(b)       == b \div 16 \in 8 .. 14

(* The number of bytes of a message; 0 for a status byte that starts none. *)
message_size(b) ==
    CASE b \div 16 \in {8, 9, 10, 11, 14} \/ b = \hF2         -> 3
      [] b \div 16 \in {12, 13} \/ b \in {\hF1, \hF3}         -> 2
      [] is_realtime_message(b) \/ b = \hF6                   -> 1
      [] OTHER                                                -> 0

-----------------------------------------------------------------------------
ble_midi_writer_init ==
    [ tx_buf                   |-> <<>>,
      tx_buf_max_size          |-> BLE_MIDI_TX_PACKET_MAX_SIZE,
      prev_status_byte         |-> 0,
      prev_running_status_byte |-> 0,
      prev_timestamp           |-> 0,
      in_sysex_msg             |-> FALSE ]

(* Starts a new packet.  A sysex message in progress stays in progress.    *)
ble_midi_writer_reset(w) ==
    [ w EXCEPT !.tx_buf = <<>>,
               !.prev_timestamp = 0,
               !.prev_running_status_byte = 0,
               !.prev_status_byte = 0 ]

(* Faulty: off by one.                                                     *)
FitsAlmost(w, bytes) == Len(w.tx_buf) + Len(bytes) <= w.tx_buf_max_size + 1

Fits(w, bytes) == Len(w.tx_buf) + Len(bytes) <= w.tx_buf_max_size

Result(code, writer) == [rc |-> code, w |-> writer]

(* A real time message inside a sysex message: no header, no state update. *)
AddInSysex(w, m, t) ==
    LET bytes == <<timestamp_byte(t), m[1]>>
    IN  IF ~is_realtime_message(m[1]) THEN Result("INVALID_STATUS_BYTE", w)
        ELSE IF ~Fits(w, bytes)       THEN Result("PACKET_FULL", w)
        ELSE Result("SUCCESS", [w EXCEPT !.tx_buf = @ \o bytes])

(* A note off is sent as a note on with velocity 0 when the build asks for *)
(* it and running status is in use.                                        *)
NoteOffAsNoteOn(m) ==
    running_status_enabled /\ note_off_as_note_on /\ m[1] \div 16 = 8

StatusToSend(m) == IF NoteOffAsNoteOn(m) THEN 144 + (m[1] % 16) ELSE m[1]
DataToSend(m)   == IF NoteOffAsNoteOn(m) THEN <<m[2], 0>> ELSE <<m[2], m[3]>>

(* The running status after message m has been added.                      *)
RunningStatusAfter(w, m) ==
    LET s == StatusToSend(m)
    IN  IF ~running_status_enabled THEN 0
        ELSE IF is_channel_message(s) THEN s
        ELSE IF is_realtime_message(s) \/ is_system_common_message(s)
             THEN w.prev_running_status_byte
             ELSE 0

(* The status byte is left out while running status lasts; the timestamp   *)
(* too unless the time has changed or a system message came in between.    *)
SkipStatusByte(w, m) ==
    LET s == StatusToSend(m)
    IN  s = w.prev_running_status_byte /\ is_channel_message(s)

SkipTimestamp(w, m, t) ==
    /\ SkipStatusByte(w, m)
    /\ t = w.prev_timestamp
    /\ ~is_system_common_message(w.prev_status_byte)
    /\ ~is_realtime_message(w.prev_status_byte)

(* bytes_to_append: header?, timestamp?, status?, data bytes.              *)
MessageBytes(w, m, t) ==
       (IF w.tx_buf = <<>>         THEN <<header_byte(t)>> ELSE <<>>)
    \o (IF SkipTimestamp(w, m, t)  THEN <<>> ELSE <<timestamp_byte(t)>>)
    \o (IF SkipStatusByte(w, m)    THEN <<>> ELSE <<StatusToSend(m)>>)
    \o SubSeq(DataToSend(m), 1, message_size(m[1]) - 1)

AddOutsideSysex(w, m, t) ==
    IF message_size(m[1]) = 0
    THEN Result("INVALID_STATUS_BYTE", w)
    ELSE IF ~is_data_byte(m[2]) \/ ~is_data_byte(m[3])
    THEN Result("INVALID_DATA_BYTE", w)
    ELSE IF ~Fits(w, MessageBytes(w, m, t))
    THEN Result("PACKET_FULL", w)
    ELSE Result("SUCCESS",
                [w EXCEPT !.tx_buf = @ \o MessageBytes(w, m, t),
                          !.prev_status_byte = StatusToSend(m),
                          !.prev_running_status_byte = RunningStatusAfter(w, m),
                          !.prev_timestamp = t])

(* m is a zero padded message of three bytes.                              *)
ble_midi_writer_add_msg(w, m, t) ==
    IF w.in_sysex_msg THEN AddInSysex(w, m, t) ELSE AddOutsideSysex(w, m, t)

(* A whole sysex message, start and end byte included, in one packet.      *)
ble_midi_writer_add_sysex_msg(w, msg, t) ==
    LET last  == Len(msg)
        bytes == (IF w.tx_buf = <<>> THEN <<header_byte(t)>> ELSE <<>>)
                 \o <<timestamp_byte(t)>> \o SubSeq(msg, 1, last - 1)
                 \o <<timestamp_byte(t), msg[last]>>
    IN  IF last < 2
        THEN Result("INVALID_MESSAGE", w)
        ELSE IF msg[1] # \hF0 \/ msg[last] # \hF7
        THEN Result("INVALID_STATUS_BYTE", w)
        ELSE IF \E i \in 2 .. last - 1 : ~is_data_byte(msg[i])
        THEN Result("INVALID_DATA_BYTE", w)
        ELSE IF ~Fits(w, bytes)
        THEN Result("PACKET_FULL", w)
        ELSE Result("SUCCESS", [w EXCEPT !.tx_buf = @ \o bytes,
                                         !.prev_running_status_byte = 0])

append_status_byte_with_timestamp(w, t, status) ==
    LET bytes == (IF w.tx_buf = <<>> THEN <<header_byte(t)>> ELSE <<>>)
                 \o <<timestamp_byte(t), status>>
    IN  IF Fits(w, bytes)
        THEN Result("SUCCESS", [w EXCEPT !.tx_buf = @ \o bytes])
        ELSE Result("PACKET_FULL", w)

ble_midi_writer_start_sysex_msg(w, t) ==
    LET r == append_status_byte_with_timestamp(w, t, \hF0)
    IN  IF w.in_sysex_msg THEN Result("ALREADY_IN_SYSEX_SEQUENCE", w)
        ELSE IF r.rc = "SUCCESS"
        THEN Result(r.rc, [r.w EXCEPT !.in_sysex_msg = TRUE,
                                      !.prev_running_status_byte = 0])
        ELSE r

ble_midi_writer_end_sysex_msg(w, t) ==
    LET r == append_status_byte_with_timestamp(w, t, \hF7)
    IN  IF ~w.in_sysex_msg THEN Result("NOT_IN_SYSEX_SEQUENCE", w)
        ELSE IF r.rc = "SUCCESS"
        THEN Result(r.rc, [r.w EXCEPT !.in_sysex_msg = FALSE])
        ELSE r

(* How many of n data bytes fit in `left' bytes of packet.  The C code     *)
(* compares a signed with an unsigned number, so that a packet that is     *)
(* already over its limit (left < 0) takes all of them.                    *)
NumDataBytesToAdd(left, n) == IF left >= 0 /\ left < n THEN left ELSE n

(* Adds as many of the bytes `data' as fit; n is how many were added.      *)
ble_midi_writer_add_sysex_data(w, data, t) ==
    LET start == IF w.tx_buf = <<>> THEN <<header_byte(t)>> ELSE w.tx_buf
        n     == NumDataBytesToAdd(w.tx_buf_max_size - Len(start), Len(data))
    IN  IF ~w.in_sysex_msg /\ w.tx_buf # <<>>
        THEN [rc |-> "NOT_IN_SYSEX_SEQUENCE", n |-> 0, w |-> w]
        ELSE IF \E i \in 1 .. Len(data) : ~is_data_byte(data[i])
        THEN [rc |-> "INVALID_DATA_BYTE", n |-> 0, w |-> w]
        ELSE IF w.tx_buf = <<>> /\ w.tx_buf_max_size < 1
        THEN [rc |-> "PACKET_FULL", n |-> 0, w |-> w]
        ELSE [rc |-> "SUCCESS", n |-> n,
              w  |-> [w EXCEPT !.tx_buf = start \o SubSeq(data, 1, n)]]
=============================================================================
