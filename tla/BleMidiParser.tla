--------------------------- MODULE BleMidiParser ---------------------------
(***************************************************************************)
(* ble_midi_parse_packet of ble_midi/src/ble_midi_packet.c: the operator   *)
(* from the bytes of one packet to the callbacks the parser makes, in      *)
(* order, and the error code it returns.                                   *)
(*                                                                         *)
(* The parser reads bytes through ble_midi_parser_read only, and each      *)
(* iteration of its loop reads at least one byte.  A read outside of the   *)
(* packet, which the unsigned comparison of ble_midi_parser_read lets pass *)
(* when the packet is shorter than the read, ends the parse with the code  *)
(* "UNDEFINED": what the C code does then is not defined.                  *)
(***************************************************************************)
EXTENDS BleMidiWriter

(* A callback: a complete message, a sysex data byte, or the start or the  *)
(* end of a sysex message.  sysex_data_cb has no timestamp.                *)
MessageEvent(bytes, t) == [cb |-> "midi_message_cb", bytes |-> bytes, t |-> t]
StartEvent(t)          == [cb |-> "sysex_start_cb", bytes |-> <<>>, t |-> t]
DataEvent(b)           == [cb |-> "sysex_data_cb", bytes |-> <<b>>, t |-> 0]
EndEvent(t)            == [cb |-> "sysex_end_cb", bytes |-> <<>>, t |-> t]

(* What a message means to the peer: README.md documents the option that   *)
(* sends a note off as a note on with velocity 0.                          *)
Meaning(m) ==
    IF running_status_enabled /\ note_off_as_note_on /\ m[1] \div 16 = 8
    THEN <<m[1] + 16, m[2], 0>>
    ELSE SubSeq(m, 1, message_size(m[1]))

(* timestamp_ms: the low part of a timestamp byte under the high bits.     *)
TimestampMs(high, byte) == 128 * high + (byte % 128)

is_status_byte(b) == b >= 128

(* struct ble_midi_parser_t, with the high bits of the timestamp, the      *)
(* callbacks made so far and the code to return.                           *)
ParserOf(rx_buf) ==
    [ rx_buf              |-> rx_buf,
      read_pos            |-> 0,
      in_sysex_msg        |-> FALSE,
      running_status_byte |-> 0,
      prev_timestamp_byte |-> 0,
      timestamp_high_bits |-> 0,
      rc                  |-> "SUCCESS",
      events              |-> <<>> ]

Return(p, code) == [p EXCEPT !.rc = code]
Callback(p, event) == [p EXCEPT !.events = Append(@, event)]

(* What ble_midi_parser_read returns.  rx_buf_size - n is unsigned.        *)
ReadResult(p, n) ==
    CASE p.read_pos + n <= Len(p.rx_buf) -> "SUCCESS"
      [] n > Len(p.rx_buf)               -> "UNDEFINED"
      [] OTHER                           -> "UNEXPECTED_END_OF_DATA"

(* The parser goes on with Then(p, bytes) after a read of n bytes.         *)
ble_midi_parser_read(p, n, Then(_, _)) ==
    IF ReadResult(p, n) = "SUCCESS"
    THEN Then([p EXCEPT !.read_pos = @ + n],
              SubSeq(p.rx_buf, p.read_pos + 1, p.read_pos + n))
    ELSE Return(p, ReadResult(p, n))

-----------------------------------------------------------------------------
(* is_sysex_continuation: header, real time messages with timestamps, and  *)
(* then a data byte.                                                       *)

RealtimeAt(buf, k) ==   \* is the k-th pair of bytes after the header one?
    /\ 2 * k + 3 <= Len(buf)
    /\ is_status_byte(buf[2 * k + 2])
    /\ is_realtime_message(buf[2 * k + 3])

LeadingRealtime(buf) == CHOOSE k \in 0 .. Len(buf) :
    /\ \A j \in 0 .. k - 1 : RealtimeAt(buf, j)
    /\ ~RealtimeAt(buf, k)

is_sysex_continuation(buf) ==
    LET pos == 2 * LeadingRealtime(buf) + 2
    IN  CASE Len(buf) = 0      -> [rc |-> "UNDEFINED", is_sysex |-> FALSE]
          [] 0 < Len(buf) /\ Len(buf) < pos ->
                 [rc |-> "SUCCESS", is_sysex |-> FALSE]
          [] pos <= Len(buf) /\ is_data_byte(buf[pos]) ->
                 [rc |-> "SUCCESS", is_sysex |-> TRUE]
          [] pos = Len(buf) /\ is_status_byte(buf[pos]) ->
                 [rc |-> "UNEXPECTED_END_OF_DATA", is_sysex |-> FALSE]
          [] OTHER ->
                 [rc |-> IF is_data_byte(buf[pos + 1])
                         THEN "UNEXPECTED_DATA_BYTE" ELSE "SUCCESS",
                  is_sysex |-> FALSE]

-----------------------------------------------------------------------------
(* One iteration inside a sysex message: a data byte, or a timestamp and a *)
(* real time message or the sysex end.                                     *)
ParseInSysex(p0) ==
    ble_midi_parser_read(p0, 1, LAMBDA p, b :
        IF is_data_byte(b[1]) THEN Callback(p, DataEvent(b[1]))
        ELSE ble_midi_parser_read(p, 1, LAMBDA q, s :
            LET t == TimestampMs(q.timestamp_high_bits, b[1])
            IN  IF is_realtime_message(s[1])
                THEN Callback(q, MessageEvent(s, t))
                ELSE IF s[1] = \hF7
                THEN Callback([q EXCEPT !.in_sysex_msg = FALSE], EndEvent(t))
                ELSE Return(q, "INVALID_STATUS_BYTE")))

(* A message under running status whose first data byte has been read.     *)
(* Without a running status the number of bytes to read is not one.        *)
ParseRunningStatus(p, b, t) ==
    LET n == message_size(p.running_status_byte)
    IN  IF n < 2 THEN Return(p, "UNDEFINED")
        ELSE ble_midi_parser_read(p, n - 2, LAMBDA q, rest :
                 Callback(q, MessageEvent(<<p.running_status_byte>> \o b \o rest, t)))

(* Faulty: the high bits do not wrap around themselves.                    *)
WrapBeyond(p, b) ==
    [p EXCEPT !.timestamp_high_bits = IF p.prev_timestamp_byte > b THEN @ + 1 ELSE @,
              !.prev_timestamp_byte = b]

(* A timestamp byte lower than the one before: the low part has wrapped.   *)
NextTimestamp(p, b) ==
    [p EXCEPT !.timestamp_high_bits =
                  IF p.prev_timestamp_byte > b THEN (@ + 1) % 64 ELSE @,
              !.prev_timestamp_byte = b]

(* Faulty: every system message ends the running status.                   *)
RunningStatusLost(p, status) == IF is_channel_message(status) THEN status ELSE 0

RunningStatusOf(p, status) ==
    IF is_channel_message(status) THEN status
    ELSE IF is_realtime_message(status) \/ is_system_common_message(status)
         THEN p.running_status_byte ELSE 0

(* A message with its status byte.                                         *)
ParseFullMessage(p0, status, t) ==
    LET p == [p0 EXCEPT !.running_status_byte = RunningStatusOf(p0, status)]
    IN  IF status = \hF0
        THEN Callback([p EXCEPT !.in_sysex_msg = TRUE], StartEvent(t))
        ELSE IF message_size(status) = 0
        THEN Return(p, "INVALID_STATUS_BYTE")
        ELSE ble_midi_parser_read(p, message_size(status) - 1, LAMBDA q, data :
                 Callback(q, MessageEvent(<<status>> \o data, t)))

(* One iteration outside of a sysex message.                               *)
ParseOutsideSysex(p0) ==
    ble_midi_parser_read(p0, 1, LAMBDA p, b :
        IF is_data_byte(b[1])
        THEN ParseRunningStatus(p, b,
                 TimestampMs(p.timestamp_high_bits, p.prev_timestamp_byte))
        ELSE ble_midi_parser_read(NextTimestamp(p, b[1]), 1, LAMBDA q, s :
            LET t == TimestampMs(q.timestamp_high_bits, b[1])
            IN  IF is_data_byte(s[1]) THEN ParseRunningStatus(q, s, t)
                ELSE ParseFullMessage(q, s[1], t)))

(* The loop: nothing happens after a return or at the end of the packet.   *)
ParseStep(p) ==
    IF p.rc # "SUCCESS" \/ p.read_pos >= Len(p.rx_buf) THEN p
    ELSE IF p.in_sysex_msg THEN ParseInSysex(p)
    ELSE ParseOutsideSysex(p)

(* The parser after the header byte.                                       *)
ParseHeader(rx_buf) ==
    LET cont == is_sysex_continuation(rx_buf)
        p0   == [ParserOf(rx_buf) EXCEPT !.in_sysex_msg = cont.is_sysex]
    IN  IF cont.rc # "SUCCESS" THEN Return(p0, cont.rc)
        ELSE ble_midi_parser_read(p0, 1, LAMBDA p, header :
                 IF is_status_byte(header[1])
                 THEN [p EXCEPT !.timestamp_high_bits = header[1] % 64]
                 ELSE Return(p, "INVALID_HEADER_BYTE"))

ble_midi_parse_packet(rx_buf) ==
    LET after[n \in 0 .. Len(rx_buf)] ==
            IF n = 0 THEN ParseHeader(rx_buf) ELSE ParseStep(after[n - 1])
    IN  after[Len(rx_buf)]

(* The application hears every callback made before an error, too.         *)
midi_write_cb(buf) == ble_midi_parse_packet(buf).events
=============================================================================
