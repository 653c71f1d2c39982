------------------------ MODULE BleMidiPacketProofs -------------------------
(***************************************************************************)
(* Facts about ble_midi/src/ble_midi_packet.c, on which the proofs about   *)
(* the transmit queue, the packets and the single message mode rest.       *)
(*                                                                         *)
(* The writer: each operation leaves a writer whose packet is within its   *)
(* limit, and refuses a call for the reasons the code gives.               *)
(*                                                                         *)
(* The parser: ble_midi_parse_packet is a recursive function of the number *)
(* of iterations.  Here, InAt and OutAt describe the parser between two    *)
(* iterations, and each kind of message takes it from one such place to    *)
(* the next.                                                               *)
(*                                                                         *)
(* Both: Good(b, x, p, u, f, t, s, c) relates a packet b in the making to  *)
(* the parser, whatever is appended to b later.  It is parsed to what was  *)
(* written, f, and leaves the parser where the writer is: x is "in" inside *)
(* a sysex message and "out" outside, p is the writer's running status and *)
(* u its last time.  Timestamps agree as well if the packet began at most  *)
(* s <= 127 ms before now, t, and ran into none of the known cases c.      *)
(* Every operation of the writer keeps Good (GoodStart, GoodEnd,           *)
(* GoodRealtime, GoodData, GoodMessage, GoodSysexMsg), and a good packet   *)
(* is parsed without an error to f (GoodParses).                           *)
(***************************************************************************)
EXTENDS BleMidiParser, SequenceTheorems, WellFoundedInduction, TLAPS

(* A message as the writer takes it.                                       *)
ThreeBytes == Byte \X Byte \X Byte

(* Header and timestamp bytes of 13 bit timestamps are bytes with the high *)
(* bit set (header_byte, timestamp_byte).                                  *)
LEMMA TimestampBytes ==
    ASSUME NEW t \in Timestamp
    PROVE  header_byte(t) \in 128 .. 191 /\ timestamp_byte(t) \in 128 .. 255
<1>1. t \in Nat /\ t \div 128 \in Nat
  BY DEF Timestamp
<1>2. (t \div 128) % 64 \in 0 .. 63
  BY <1>1
<1>3. t % 128 \in 0 .. 127
  BY <1>1
<1> QED
  BY <1>2, <1>3 DEF header_byte, timestamp_byte, timestamp_high, timestamp_low

(* The writer may grow only up to its limit: appending bytes that fit.     *)
LEMMA AppendBytes ==
    ASSUME NEW w \in Writer, NEW bytes \in Seq(Byte), Fits(w, bytes)
    PROVE  /\ w.tx_buf \o bytes \in Seq(Byte)
           /\ Len(w.tx_buf \o bytes) <= w.tx_buf_max_size
<1>1. w.tx_buf \in Seq(Byte)
  BY DEF Writer
<1>2. w.tx_buf \o bytes \in Seq(Byte)
      /\ Len(w.tx_buf \o bytes) = Len(w.tx_buf) + Len(bytes)
  BY <1>1, ConcatProperties
<1> QED
  BY <1>2 DEF Fits

(* ble_midi_writer_init and ble_midi_writer_reset give an empty packet;    *)
(* the reset keeps the limit and the sysex state.                          *)
LEMMA FreshWriters ==
    /\ ble_midi_writer_init \in Writer
    /\ ble_midi_writer_init.tx_buf = <<>>
    /\ \A w \in Writer :
          /\ ble_midi_writer_reset(w) \in Writer
          /\ ble_midi_writer_reset(w).tx_buf = <<>>
          /\ ble_midi_writer_reset(w).tx_buf_max_size = w.tx_buf_max_size
          /\ ble_midi_writer_reset(w).in_sysex_msg = w.in_sysex_msg
<1>1. <<>> \in Seq(Byte)
  OBVIOUS
<1>2. 0 \in Byte /\ 0 \in Timestamp
  BY DEF Byte, Timestamp
<1>3. ble_midi_writer_init \in Writer /\ ble_midi_writer_init.tx_buf = <<>>
  BY <1>1, <1>2, WriterConstants DEF ble_midi_writer_init, Writer
<1>4. ASSUME NEW w \in Writer
      PROVE  /\ ble_midi_writer_reset(w) \in Writer
             /\ ble_midi_writer_reset(w).tx_buf = <<>>
             /\ ble_midi_writer_reset(w).tx_buf_max_size = w.tx_buf_max_size
             /\ ble_midi_writer_reset(w).in_sysex_msg = w.in_sysex_msg
  BY <1>1, <1>2 DEF ble_midi_writer_reset, Writer
<1> QED
  BY <1>3, <1>4

(* WriterStep: what every writer function keeps: the type, the limit, and  *)
(* the packet within its limit.                                            *)
WriterStep(w, v) ==
    /\ v \in Writer
    /\ v.tx_buf_max_size = w.tx_buf_max_size
    /\ Len(w.tx_buf) <= w.tx_buf_max_size => Len(v.tx_buf) <= v.tx_buf_max_size

(* A call that is refused leaves the writer as it is.                      *)
LEMMA SameWriter == ASSUME NEW w \in Writer PROVE WriterStep(w, w)
  BY DEF WriterStep

(* append_status_byte_with_timestamp adds the bytes or leaves the packet.  *)
LEMMA AppendStatus ==
    ASSUME NEW w \in Writer, NEW t \in Timestamp, NEW status \in Byte
    PROVE  LET r == append_status_byte_with_timestamp(w, t, status)
           IN  /\ WriterStep(w, r.w)
               /\ r.w.in_sysex_msg = w.in_sysex_msg
               /\ r.rc \in {"SUCCESS", "PACKET_FULL"}
               /\ r.rc = "PACKET_FULL" => r.w = w
<1> DEFINE bytes == (IF w.tx_buf = <<>> THEN <<header_byte(t)>> ELSE <<>>)
                    \o <<timestamp_byte(t), status>>
           r == append_status_byte_with_timestamp(w, t, status)
<1>1. header_byte(t) \in Byte /\ timestamp_byte(t) \in Byte
  BY TimestampBytes DEF Byte
<1>2. bytes \in Seq(Byte)
  <2>1. <<header_byte(t)>> \in Seq(Byte) /\ <<>> \in Seq(Byte)
    BY <1>1
  <2>2. <<timestamp_byte(t), status>> \in Seq(Byte)
    BY <1>1
  <2> QED BY <2>1, <2>2, ConcatProperties
<1>3. r = IF Fits(w, bytes)
          THEN Result("SUCCESS", [w EXCEPT !.tx_buf = @ \o bytes])
          ELSE Result("PACKET_FULL", w)
  BY DEF append_status_byte_with_timestamp
<1>4. CASE Fits(w, bytes)
  <2>1. /\ w.tx_buf \o bytes \in Seq(Byte)
        /\ Len(w.tx_buf \o bytes) <= w.tx_buf_max_size
    BY <1>2, <1>4, AppendBytes
  <2> HIDE DEF bytes
  <2>2. r.rc = "SUCCESS" /\ r.w = [w EXCEPT !.tx_buf = w.tx_buf \o bytes]
    BY <1>3, <1>4 DEF Result
  <2>3. /\ r.w \in Writer /\ r.w.tx_buf_max_size = w.tx_buf_max_size
        /\ r.w.tx_buf = w.tx_buf \o bytes
        /\ r.w.in_sysex_msg = w.in_sysex_msg
    BY <2>1, <2>2 DEF Writer
  <2> QED BY <2>1, <2>2, <2>3 DEF WriterStep
<1>5. CASE ~Fits(w, bytes)
  BY <1>3, <1>5, SameWriter DEF Result
<1> QED BY <1>4, <1>5

(* Codes other than success and full tell that the call was refused.       *)
Refused(r) == r.rc \notin {"SUCCESS", "PACKET_FULL"}

(* ble_midi_writer_start_sysex_msg is refused exactly inside a sysex       *)
(* message, and opens one when it succeeds.                                *)
LEMMA StartStep ==
    ASSUME NEW w \in Writer, NEW t \in Timestamp
    PROVE  LET r == ble_midi_writer_start_sysex_msg(w, t)
           IN  /\ WriterStep(w, r.w)
               /\ Refused(r) <=> w.in_sysex_msg
               /\ r.rc = "SUCCESS" => r.w.in_sysex_msg
               /\ r.rc # "SUCCESS" => r.w = w
<1> DEFINE a == append_status_byte_with_timestamp(w, t, 240)
           r == ble_midi_writer_start_sysex_msg(w, t)
<1>1. /\ WriterStep(w, a.w)
      /\ a.rc \in {"SUCCESS", "PACKET_FULL"}
      /\ a.rc = "PACKET_FULL" => a.w = w
  BY AppendStatus DEF Byte
<1>2. r = IF w.in_sysex_msg THEN Result("ALREADY_IN_SYSEX_SEQUENCE", w)
          ELSE IF a.rc = "SUCCESS"
          THEN Result(a.rc, [a.w EXCEPT !.in_sysex_msg = TRUE,
                                        !.prev_running_status_byte = 0])
          ELSE a
  BY DEF ble_midi_writer_start_sysex_msg
<1> HIDE DEF a, r
<1>3. CASE w.in_sysex_msg
  BY <1>2, <1>3, SameWriter DEF Result, Refused, r
<1>4. CASE ~w.in_sysex_msg /\ a.rc = "SUCCESS"
  <2>1. /\ r.rc = "SUCCESS"
        /\ r.w = [a.w EXCEPT !.in_sysex_msg = TRUE,
                             !.prev_running_status_byte = 0]
    BY <1>2, <1>4 DEF Result
  <2>2. /\ r.w \in Writer
        /\ r.w.tx_buf = a.w.tx_buf
        /\ r.w.tx_buf_max_size = a.w.tx_buf_max_size
        /\ r.w.in_sysex_msg = TRUE
    <3>1. a.w \in Writer /\ 0 \in Byte
      BY <1>1 DEF WriterStep, Byte
    <3> QED BY <2>1, <3>1 DEF Writer
  <2> QED BY <1>1, <1>4, <2>1, <2>2 DEF WriterStep, Refused, r
<1>5. CASE ~w.in_sysex_msg /\ a.rc # "SUCCESS"
  BY <1>1, <1>2, <1>5 DEF Refused, r
<1> QED BY <1>3, <1>4, <1>5

(* ble_midi_writer_end_sysex_msg is refused exactly outside a sysex        *)
(* message, and closes it when it succeeds.                                *)
LEMMA EndStep ==
    ASSUME NEW w \in Writer, NEW t \in Timestamp
    PROVE  LET r == ble_midi_writer_end_sysex_msg(w, t)
           IN  /\ WriterStep(w, r.w)
               /\ Refused(r) <=> ~w.in_sysex_msg
               /\ r.rc = "SUCCESS" => ~r.w.in_sysex_msg
               /\ r.rc # "SUCCESS" => r.w = w
<1> DEFINE a == append_status_byte_with_timestamp(w, t, 247)
           r == ble_midi_writer_end_sysex_msg(w, t)
<1>1. /\ WriterStep(w, a.w)
      /\ a.rc \in {"SUCCESS", "PACKET_FULL"}
      /\ a.rc = "PACKET_FULL" => a.w = w
  BY AppendStatus DEF Byte
<1>2. r = IF ~w.in_sysex_msg THEN Result("NOT_IN_SYSEX_SEQUENCE", w)
          ELSE IF a.rc = "SUCCESS"
          THEN Result(a.rc, [a.w EXCEPT !.in_sysex_msg = FALSE])
          ELSE a
  BY DEF ble_midi_writer_end_sysex_msg
<1> HIDE DEF a, r
<1>3. CASE ~w.in_sysex_msg
  BY <1>2, <1>3, SameWriter DEF Result, Refused, r
<1>4. CASE w.in_sysex_msg /\ a.rc = "SUCCESS"
  <2>1. /\ r.rc = "SUCCESS"
        /\ r.w = [a.w EXCEPT !.in_sysex_msg = FALSE]
    BY <1>2, <1>4 DEF Result
  <2>2. /\ r.w \in Writer
        /\ r.w.tx_buf = a.w.tx_buf
        /\ r.w.tx_buf_max_size = a.w.tx_buf_max_size
        /\ ~r.w.in_sysex_msg
    BY <1>1, <2>1 DEF Writer, WriterStep
  <2> QED BY <1>1, <1>4, <2>1, <2>2 DEF WriterStep, Refused, r
<1>5. CASE w.in_sysex_msg /\ a.rc # "SUCCESS"
  BY <1>1, <1>2, <1>5 DEF Refused, r
<1> QED BY <1>3, <1>4, <1>5

(* The bytes that ble_midi_writer_add_msg appends are bytes.               *)
LEMMA MessageBytesType ==
    ASSUME NEW w \in Writer, NEW m \in ThreeBytes, NEW t \in Timestamp
    PROVE  /\ MessageBytes(w, m, t) \in Seq(Byte)
           /\ StatusToSend(m) \in Byte
           /\ RunningStatusAfter(w, m) \in Byte
<1>1. m[1] \in Byte /\ m[2] \in Byte /\ m[3] \in Byte
  BY DEF ThreeBytes
<1>2. StatusToSend(m) \in Byte
  <2>1. m[1] % 16 \in 0 .. 15
    BY <1>1 DEF Byte
  <2> QED BY <1>1, <2>1 DEF StatusToSend, Byte
<1>3. RunningStatusAfter(w, m) \in Byte
  <2>1. 0 \in Byte /\ w.prev_running_status_byte \in Byte
    BY DEF Byte, Writer
  <2> QED BY <1>2, <2>1 DEF RunningStatusAfter
<1>4. header_byte(t) \in Byte /\ timestamp_byte(t) \in Byte
  BY TimestampBytes DEF Byte
<1>5. message_size(m[1]) \in 0 .. 3
  BY DEF message_size
<1>6. DataToSend(m) \in Seq(Byte) /\ Len(DataToSend(m)) = 2
  <2>1. 0 \in Byte
    BY DEF Byte
  <2> QED BY <1>1, <2>1 DEF DataToSend
<1>7. SubSeq(DataToSend(m), 1, message_size(m[1]) - 1) \in Seq(Byte)
  <2>1. message_size(m[1]) - 1 \in -1 .. 2
    BY <1>5
  <2>2. \A i \in 1 .. message_size(m[1]) - 1 : DataToSend(m)[i] \in Byte
    <3>1. ASSUME NEW i \in 1 .. message_size(m[1]) - 1
          PROVE  DataToSend(m)[i] \in Byte
      <4>1. i \in 1 .. Len(DataToSend(m))
        BY <1>6, <2>1
      <4> QED BY <1>6, <4>1, ElementOfSeq
    <3> QED BY <3>1
  <2> QED BY <2>1, <2>2, SubSeqProperties
<1>8. /\ (IF w.tx_buf = <<>> THEN <<header_byte(t)>> ELSE <<>>) \in Seq(Byte)
      /\ (IF SkipTimestamp(w, m, t) THEN <<>> ELSE <<timestamp_byte(t)>>) \in Seq(Byte)
      /\ (IF SkipStatusByte(w, m) THEN <<>> ELSE <<StatusToSend(m)>>) \in Seq(Byte)
  BY <1>2, <1>4
<1>9. MessageBytes(w, m, t) \in Seq(Byte)
  BY <1>7, <1>8, ConcatProperties DEF MessageBytes
<1> QED BY <1>2, <1>3, <1>9

(* ble_midi_writer_add_msg keeps the sysex state, and refuses a message    *)
(* exactly if it is not real time inside a sysex message or is malformed   *)
(* outside of one.                                                         *)
LEMMA AddMsgStep ==
    ASSUME NEW w \in Writer, NEW m \in ThreeBytes, NEW t \in Timestamp
    PROVE  LET r == ble_midi_writer_add_msg(w, m, t)
           IN  /\ WriterStep(w, r.w)
               /\ Refused(r) <=> ~(IF w.in_sysex_msg
                                   THEN is_realtime_message(m[1])
                                   ELSE /\ message_size(m[1]) # 0
                                        /\ is_data_byte(m[2])
                                        /\ is_data_byte(m[3]))
               /\ r.w.in_sysex_msg = w.in_sysex_msg
               /\ r.rc # "SUCCESS" => r.w = w
<1> DEFINE r == ble_midi_writer_add_msg(w, m, t)
<1>1. CASE w.in_sysex_msg
  <2> DEFINE bytes == <<timestamp_byte(t), m[1]>>
  <2>1. bytes \in Seq(Byte)
    <3>1. m[1] \in Byte /\ timestamp_byte(t) \in Byte
      BY TimestampBytes DEF ThreeBytes, Byte
    <3> QED BY <3>1
  <2>2. r = IF ~is_realtime_message(m[1]) THEN Result("INVALID_STATUS_BYTE", w)
            ELSE IF ~Fits(w, bytes)       THEN Result("PACKET_FULL", w)
            ELSE Result("SUCCESS", [w EXCEPT !.tx_buf = @ \o bytes])
    BY <1>1 DEF ble_midi_writer_add_msg, AddInSysex
  <2> HIDE DEF bytes, r
  <2>3. CASE ~is_realtime_message(m[1])
    <3>1. r.rc = "INVALID_STATUS_BYTE" /\ r.w = w
      BY <2>2, <2>3 DEF Result
    <3> QED BY <1>1, <2>3, <3>1, SameWriter DEF Refused, r
  <2>4. CASE is_realtime_message(m[1]) /\ ~Fits(w, bytes)
    <3>1. r.rc = "PACKET_FULL" /\ r.w = w
      BY <2>2, <2>4 DEF Result
    <3> QED BY <1>1, <2>4, <3>1, SameWriter DEF Refused, r
  <2>5. CASE is_realtime_message(m[1]) /\ Fits(w, bytes)
    <3>1. /\ w.tx_buf \o bytes \in Seq(Byte)
          /\ Len(w.tx_buf \o bytes) <= w.tx_buf_max_size
      BY <2>1, <2>5, AppendBytes
    <3>2. r.rc = "SUCCESS" /\ r.w = [w EXCEPT !.tx_buf = w.tx_buf \o bytes]
      BY <2>2, <2>5 DEF Result
    <3>3. /\ r.w \in Writer /\ r.w.tx_buf_max_size = w.tx_buf_max_size
          /\ r.w.tx_buf = w.tx_buf \o bytes
          /\ r.w.in_sysex_msg = w.in_sysex_msg
      BY <3>1, <3>2 DEF Writer
    <3> QED BY <1>1, <2>5, <3>1, <3>2, <3>3 DEF WriterStep, Refused, r
  <2> QED BY <2>3, <2>5, <2>4
<1>2. CASE ~w.in_sysex_msg
  <2> DEFINE bytes == MessageBytes(w, m, t)
             bad   == message_size(m[1]) = 0 \/ ~is_data_byte(m[2]) \/ ~is_data_byte(m[3])
  <2>1. bytes \in Seq(Byte) /\ StatusToSend(m) \in Byte
        /\ RunningStatusAfter(w, m) \in Byte
    BY MessageBytesType
  <2>2. r = AddOutsideSysex(w, m, t)
    BY <1>2 DEF ble_midi_writer_add_msg
  <2> HIDE DEF bytes, r
  <2>3. CASE bad
    BY <1>2, <2>2, <2>3, SameWriter DEF Result, Refused, r, AddOutsideSysex
  <2>4. CASE ~bad /\ ~Fits(w, bytes)
    BY <1>2, <2>2, <2>4, SameWriter DEF Result, Refused, r, bytes, AddOutsideSysex
  <2>5. CASE ~bad /\ Fits(w, bytes)
    <3>1. /\ w.tx_buf \o bytes \in Seq(Byte)
          /\ Len(w.tx_buf \o bytes) <= w.tx_buf_max_size
      BY <2>1, <2>5, AppendBytes
    <3>2. /\ r.rc = "SUCCESS"
          /\ r.w = [w EXCEPT !.tx_buf = w.tx_buf \o bytes,
                             !.prev_status_byte = StatusToSend(m),
                             !.prev_running_status_byte = RunningStatusAfter(w, m),
                             !.prev_timestamp = t]
      BY <2>2, <2>5 DEF Result, AddOutsideSysex, bytes
    <3>3. /\ r.w \in Writer /\ r.w.tx_buf_max_size = w.tx_buf_max_size
          /\ r.w.tx_buf = w.tx_buf \o bytes
          /\ r.w.in_sysex_msg = w.in_sysex_msg
      BY <2>1, <3>1, <3>2 DEF Writer
    <3> QED BY <1>2, <2>5, <3>1, <3>2, <3>3 DEF WriterStep, Refused, r
  <2> QED BY <2>3, <2>4, <2>5
<1> QED BY <1>1, <1>2

(* ble_midi_writer_add_sysex_data adds a prefix of the bytes, if they are  *)
(* data bytes, and never overfills a packet that is within its limit.  It  *)
(* adds none only when the packet is full.                                 *)
LEMMA DataStep ==
    ASSUME NEW w \in Writer, NEW data \in Seq(Byte), NEW t \in Timestamp
    PROVE  LET r == ble_midi_writer_add_sysex_data(w, data, t)
           IN  /\ WriterStep(w, r.w)
               /\ r.n \in 0 .. Len(data)
               /\ r.w.in_sysex_msg = w.in_sysex_msg
               /\ r.rc # "SUCCESS" => r.w = w
               /\ r.rc = "SUCCESS" => \A i \in 1 .. Len(data) : is_data_byte(data[i])
               /\ w.in_sysex_msg /\ w.tx_buf_max_size > 0
                  /\ (\A i \in 1 .. Len(data) : is_data_byte(data[i]))
                  => r.rc = "SUCCESS"
<1> DEFINE r     == ble_midi_writer_add_sysex_data(w, data, t)
           start == IF w.tx_buf = <<>> THEN <<header_byte(t)>> ELSE w.tx_buf
           n     == NumDataBytesToAdd(w.tx_buf_max_size - Len(start), Len(data))
           bad   == \/ ~w.in_sysex_msg /\ w.tx_buf # <<>>
                    \/ \E i \in 1 .. Len(data) : ~is_data_byte(data[i])
                    \/ w.tx_buf = <<>> /\ w.tx_buf_max_size < 1
<1>1. w.tx_buf \in Seq(Byte) /\ w.tx_buf_max_size \in Nat
  BY WriterConstants DEF Writer
<1>2. start \in Seq(Byte) /\ Len(start) \in Nat
  <2>1. header_byte(t) \in Byte
    BY TimestampBytes DEF Byte
  <2> QED BY <1>1, <2>1
<1>3. n \in 0 .. Len(data)
      /\ (Len(start) <= w.tx_buf_max_size => Len(start) + n <= w.tx_buf_max_size)
  <2> HIDE DEF start
  <2>1. Len(data) \in Nat
    OBVIOUS
  <2> QED BY <1>1, <1>2, <2>1 DEF NumDataBytesToAdd
<1>4. CASE bad
  <2>1. r.n = 0 /\ r.w = w /\ r.rc # "SUCCESS"
    BY <1>4 DEF ble_midi_writer_add_sysex_data
  <2>2. ~(/\ w.in_sysex_msg /\ w.tx_buf_max_size > 0
          /\ \A i \in 1 .. Len(data) : is_data_byte(data[i]))
    BY <1>1, <1>4
  <2>3. 0 \in 0 .. Len(data)
    OBVIOUS
  <2> QED BY <2>1, <2>2, <2>3, SameWriter
<1>5. CASE ~bad
  <2>1. r = [rc |-> "SUCCESS", n |-> n,
             w  |-> [w EXCEPT !.tx_buf = start \o SubSeq(data, 1, n)]]
    BY <1>5 DEF ble_midi_writer_add_sysex_data
  <2>2. Len(w.tx_buf) <= w.tx_buf_max_size => Len(start) <= w.tx_buf_max_size
    BY <1>1, <1>5
  <2> HIDE DEF start, n, r
  <2>3. SubSeq(data, 1, n) \in Seq(Byte) /\ Len(SubSeq(data, 1, n)) = n
    BY <1>3, SubSeqProperties
  <2>4. /\ start \o SubSeq(data, 1, n) \in Seq(Byte)
        /\ Len(start \o SubSeq(data, 1, n)) = Len(start) + n
    BY <1>2, <2>3, ConcatProperties
  <2>5. /\ r.w \in Writer /\ r.w.tx_buf_max_size = w.tx_buf_max_size
        /\ r.w.tx_buf = start \o SubSeq(data, 1, n)
        /\ r.w.in_sysex_msg = w.in_sysex_msg
        /\ r.n = n /\ r.rc = "SUCCESS"
    BY <2>1, <2>4 DEF Writer
  <2>6. WriterStep(w, r.w)
    BY <1>3, <2>2, <2>4, <2>5 DEF WriterStep
  <2> QED BY <1>3, <1>5, <2>5, <2>6 DEF r
<1> QED BY <1>4, <1>5

(* A non-empty set of natural numbers has a least element.                 *)
LEMMA LeastNumber ==
    ASSUME NEW T \in SUBSET Nat, T # {}
    PROVE  \E m \in T : \A k \in T : m <= k
<1> DEFINE R == OpToRel(<, Nat)
<1>1. IsWellFoundedOn(R, Nat)
  BY NatLessThanWellFounded
<1>2. PICK m \in T : \A y \in T : ~(<<y, m>> \in R)
  BY <1>1, WFMin
<1>3. ASSUME NEW k \in T PROVE m <= k
  <2>1. ~(k < m)
    BY <1>2 DEF OpToRel
  <2> QED BY <2>1
<1> QED BY <1>3

-----------------------------------------------------------------------------
(* The loop of ble_midi_parse_packet.                                      *)

(* f[i] is the parser after i iterations.                                  *)
Runs(f, b, n) ==
    /\ f[0] = ParseHeader(b)
    /\ \A i \in 1 .. n : f[i] = ParseStep(f[i - 1])

(* There are such parsers.                                                 *)
LEMMA RunExists == ASSUME NEW b, NEW n \in Nat PROVE \E f : Runs(f, b, n)
<1> DEFINE T == {m \in Nat : ~\E f : Runs(f, b, m)}
<1> SUFFICES ASSUME T # {} PROVE FALSE
  OBVIOUS
<1>1. T \in SUBSET Nat
  OBVIOUS
<1>2. PICK m \in T : \A k \in T : m <= k
  BY <1>1, LeastNumber
<1>3. m \in Nat /\ ~\E f : Runs(f, b, m)
  OBVIOUS
<1>4. CASE m = 0
  <2> DEFINE g == [i \in {0} |-> ParseHeader(b)]
  <2>1. Runs(g, b, m)
    BY <1>4 DEF Runs
  <2> QED BY <1>3, <2>1
<1>5. CASE m # 0
  <2> DEFINE k == m - 1
  <2>1. k \in Nat /\ ~(m <= k) /\ m = k + 1
    BY <1>3, <1>5
  <2>2. k \notin T
    BY <1>2, <2>1
  <2>3. PICK f : Runs(f, b, k)
    BY <2>1, <2>2
  <2> DEFINE g == [i \in 0 .. m |-> IF i = m THEN ParseStep(f[k]) ELSE f[i]]
  <2> HIDE DEF k
  <2>4. /\ g[0] = f[0] /\ g[m] = ParseStep(f[k])
        /\ \A i \in 1 .. k : g[i] = f[i] /\ g[i - 1] = f[i - 1]
        /\ g[m - 1] = f[k]
    BY <2>1
  <2> HIDE DEF g
  <2>5. Runs(g, b, m)
    <3>1. ASSUME NEW i \in 1 .. m PROVE g[i] = ParseStep(g[i - 1])
      <4>1. CASE i = m
        BY <2>4, <4>1
      <4>2. CASE i # m
        <5>1. i \in 1 .. k
          BY <2>1, <4>2
        <5> QED BY <2>3, <2>4, <5>1 DEF Runs
      <4> QED BY <4>1, <4>2
    <3> QED BY <2>3, <2>4, <3>1 DEF Runs
  <2> QED BY <1>3, <2>5
<1> QED BY <1>4, <1>5

(* They are determined by the packet.                                      *)
LEMMA RunsAgree ==
    ASSUME NEW b, NEW n \in Nat, NEW f, NEW g, Runs(f, b, n), Runs(g, b, n)
    PROVE  \A i \in 0 .. n : f[i] = g[i]
<1> DEFINE T == {i \in 0 .. n : f[i] # g[i]}
<1>1. SUFFICES ASSUME T # {} PROVE FALSE
  OBVIOUS
<1>2. T \in SUBSET Nat
  OBVIOUS
<1>3. PICK m \in T : \A k \in T : m <= k
  BY <1>1, <1>2, LeastNumber
<1>4. m \in 0 .. n /\ f[m] # g[m]
  OBVIOUS
<1>5. m # 0
  BY <1>4 DEF Runs
<1>6. m \in 1 .. n /\ m - 1 \in 0 .. n /\ ~(m <= m - 1)
  BY <1>4, <1>5
<1>7. f[m - 1] = g[m - 1]
  BY <1>3, <1>6
<1> QED BY <1>4, <1>6, <1>7 DEF Runs

(* What ble_midi_parse_packet returns is the last of them.                 *)
LEMMA ParseRuns ==
    ASSUME NEW b, Len(b) \in Nat
    PROVE  \E f : Runs(f, b, Len(b)) /\ ble_midi_parse_packet(b) = f[Len(b)]
<1> DEFINE N == Len(b)
           Eq(g) == g = [n \in 0 .. N |-> IF n = 0 THEN ParseHeader(b)
                                          ELSE ParseStep(g[n - 1])]
           f == CHOOSE g : Eq(g)
<1>1. ble_midi_parse_packet(b) = f[N]
  BY DEF ble_midi_parse_packet
<1>2. \E g : Eq(g)
  <2>1. PICK h : Runs(h, b, N)
    BY RunExists
  <2> DEFINE g == [n \in 0 .. N |-> h[n]]
  <2>2. \A n \in 0 .. N : n # 0 => n \in 1 .. N /\ n - 1 \in 0 .. N
    OBVIOUS
  <2>3. \A n \in 0 .. N : g[n] = IF n = 0 THEN ParseHeader(b) ELSE ParseStep(g[n - 1])
    BY <2>1, <2>2 DEF Runs
  <2>4. g = [n \in 0 .. N |-> IF n = 0 THEN ParseHeader(b) ELSE ParseStep(g[n - 1])]
    <3> DEFINE e == [n \in 0 .. N |-> IF n = 0 THEN ParseHeader(b)
                                      ELSE ParseStep(g[n - 1])]
    <3>1. \A n \in 0 .. N : g[n] = e[n]
      BY <2>3
    <3>2. g = [n \in 0 .. N |-> g[n]] /\ e = [n \in 0 .. N |-> e[n]]
      OBVIOUS
    <3> HIDE DEF g, e
    <3>3. g = e
      BY <3>1, <3>2
    <3> QED BY <3>3 DEF e
  <2> QED BY <2>4
<1>3. Eq(f)
  <2> HIDE DEF Eq
  <2> QED BY <1>2
<1>4. Runs(f, b, N)
  <2> HIDE DEF f
  <2>1. \A n \in 0 .. N : f[n] = IF n = 0 THEN ParseHeader(b) ELSE ParseStep(f[n - 1])
    BY <1>3
  <2>2. 0 \in 0 .. N /\ \A n \in 1 .. N : n \in 0 .. N /\ n # 0
    OBVIOUS
  <2> QED BY <2>1, <2>2 DEF Runs
<1> QED BY <1>1, <1>4

(* The parser p comes up while packet b is parsed.  Every iteration reads  *)
(* a byte, so that there are enough of them.                               *)
Reach(b, p) ==
    /\ p.read_pos <= Len(b)
    /\ \E k \in Nat : k < p.read_pos /\ \E f : Runs(f, b, k) /\ f[k] = p

(* The header byte.                                                        *)
LEMMA ReachHeader ==
    ASSUME NEW b, Len(b) \in Nat, Len(b) >= 1, NEW p, p = ParseHeader(b), p.read_pos = 1
    PROVE  Reach(b, p)
<1>1. PICK f : Runs(f, b, 0)
  BY RunExists
<1>2. f[0] = p /\ 0 < p.read_pos /\ p.read_pos <= Len(b)
  BY <1>1 DEF Runs
<1> QED BY <1>1, <1>2 DEF Reach

(* One more iteration.                                                     *)
LEMMA RunOneMore ==
    ASSUME NEW b, NEW k \in Nat, NEW f, Runs(f, b, k)
    PROVE  \E g : Runs(g, b, k + 1) /\ g[k + 1] = ParseStep(f[k])
<1>1. k + 1 \in Nat /\ k + 1 \in 1 .. k + 1 /\ (k + 1) - 1 = k /\ k \in 0 .. k
  OBVIOUS
<1>2. PICK g : Runs(g, b, k + 1)
  BY <1>1, RunExists
<1>3. Runs(g, b, k)
  BY <1>2 DEF Runs
<1>4. \A i \in 0 .. k : f[i] = g[i]
  BY <1>3, RunsAgree
<1>5. g[k + 1] = ParseStep(g[k])
  BY <1>1, <1>2 DEF Runs
<1> QED BY <1>1, <1>2, <1>4, <1>5

(* An iteration that reads something.                                      *)
LEMMA ReachStep ==
    ASSUME NEW b, NEW p, Reach(b, p), p.read_pos \in Nat, Len(b) \in Nat,
           NEW q, q = ParseStep(p), q.read_pos \in Nat,
           q.read_pos > p.read_pos, q.read_pos <= Len(b)
    PROVE  Reach(b, q)
<1>1. PICK k \in Nat : k < p.read_pos /\ \E f : Runs(f, b, k) /\ f[k] = p
  BY DEF Reach
<1>2. \E f : Runs(f, b, k + 1) /\ f[k + 1] = q
  BY <1>1, RunOneMore
<1>3. k + 1 \in Nat /\ k + 1 < q.read_pos
  BY <1>1
<1> QED BY <1>2, <1>3 DEF Reach

(* The loop stays where it is after an error and at the end of the packet. *)
LEMMA ReachEnd ==
    ASSUME NEW b, NEW p, Reach(b, p), p.read_pos \in Nat, Len(b) \in Nat,
           ParseStep(p) = p
    PROVE  ble_midi_parse_packet(b) = p
<1> DEFINE N == Len(b)
<1>1. PICK h : Runs(h, b, N) /\ ble_midi_parse_packet(b) = h[N]
  BY ParseRuns
<1>2. PICK k \in Nat : k < p.read_pos /\ \E f : Runs(f, b, k) /\ f[k] = p
  BY DEF Reach
<1>3. PICK f : Runs(f, b, k) /\ f[k] = p
  BY <1>2
<1>4. k <= N /\ k \in 0 .. k
  BY <1>2 DEF Reach
<1>5. Runs(h, b, k)
  BY <1>1, <1>4 DEF Runs
<1>6. h[k] = p
  <2>1. \A i \in 0 .. k : f[i] = h[i]
    BY <1>3, <1>5, RunsAgree
  <2> QED BY <1>3, <1>4, <2>1
<1> DEFINE T == {i \in k .. N : h[i] # p}
<1>7. T = {}
  <2>1. SUFFICES ASSUME T # {} PROVE FALSE
    OBVIOUS
  <2>2. T \in SUBSET Nat
    OBVIOUS
  <2>3. PICK m \in T : \A j \in T : m <= j
    BY <2>1, <2>2, LeastNumber
  <2>4. m \in k .. N /\ h[m] # p
    OBVIOUS
  <2>5. m # k
    BY <1>6, <2>4
  <2>6. m \in 1 .. N /\ m - 1 \in k .. N /\ ~(m <= m - 1)
    BY <1>4, <2>4, <2>5
  <2>7. h[m - 1] = p
    BY <2>3, <2>6
  <2>8. h[m] = ParseStep(h[m - 1])
    BY <1>1, <2>6 DEF Runs
  <2> QED BY <2>4, <2>7, <2>8
<1>8. N \in k .. N
  BY <1>4
<1> QED BY <1>1, <1>7, <1>8

(* A part of one byte.                                                     *)
LEMMA OneByte ==
    ASSUME NEW s \in Seq(Byte), NEW i \in 1 .. Len(s)
    PROVE  SubSeq(s, i, i) = <<s[i]>> /\ s[i] \in Byte
<1>1. i \in Int /\ 1 <= i /\ i <= i + 1 /\ i <= Len(s)
  OBVIOUS
<1>2. /\ SubSeq(s, i, i) \in Seq(Byte) /\ Len(SubSeq(s, i, i)) = 1
      /\ SubSeq(s, i, i)[1] = s[i]
  BY <1>1, SubSeqProperties
<1>3. s[i] \in Byte
  OBVIOUS
<1>4. <<s[i]>> \in Seq(Byte) /\ Len(<<s[i]>>) = 1 /\ <<s[i]>>[1] = s[i]
  BY <1>3
<1> DEFINE u == SubSeq(s, i, i)
           v == <<s[i]>>
<1> HIDE DEF u, v
<1>5. u = v
  <2>1. u \in Seq(Byte) /\ v \in Seq(Byte) /\ Len(u) = 1 /\ Len(v) = 1 /\ u[1] = v[1]
    BY <1>2, <1>4 DEF u, v
  <2>2. Len(u) = Len(v) /\ \A k \in 1 .. Len(u) : u[k] = v[k]
    BY <2>1
  <2> QED BY <2>1, <2>2, SeqEqual
<1> QED BY <1>3, <1>5 DEF u, v

(* The parser between two iterations: i bytes of packet c are read, x says *)
(* whether it is inside a sysex message, r is the running status, l and h  *)
(* are the last timestamp byte and the high bits, and e the callbacks made *)
(* so far.                                                                 *)
Here(c, i, x, r, l, h, e) ==
    [ rx_buf              |-> c,
      read_pos            |-> i,
      in_sysex_msg        |-> x,
      running_status_byte |-> r,
      prev_timestamp_byte |-> l,
      timestamp_high_bits |-> h,
      rc                  |-> "SUCCESS",
      events              |-> e ]

(* Its fields.                                                             *)
LEMMA HereFields ==
    ASSUME NEW c, NEW i, NEW x, NEW r, NEW l, NEW h, NEW e,
           NEW p, p = Here(c, i, x, r, l, h, e)
    PROVE  /\ p.rx_buf = c /\ p.read_pos = i /\ p.in_sysex_msg = x
           /\ p.running_status_byte = r /\ p.prev_timestamp_byte = l
           /\ p.timestamp_high_bits = h /\ p.rc = "SUCCESS" /\ p.events = e
BY DEF Here

(* What the statements of the parser make of it.                           *)
LEMMA HereAdvance ==
    ASSUME NEW c, NEW i, NEW x, NEW r, NEW l, NEW h, NEW e, NEW v,
           NEW p, p = Here(c, i, x, r, l, h, e)
    PROVE  [p EXCEPT !.read_pos = @ + v] = Here(c, i + v, x, r, l, h, e)
BY DEF Here

(* Entering or leaving a sysex message.                                    *)
LEMMA HereSysex ==
    ASSUME NEW c, NEW i, NEW x, NEW r, NEW l, NEW h, NEW e, NEW v,
           NEW p, p = Here(c, i, x, r, l, h, e)
    PROVE  [p EXCEPT !.in_sysex_msg = v] = Here(c, i, v, r, l, h, e)
BY DEF Here

(* Setting the running status.                                             *)
LEMMA HereRunning ==
    ASSUME NEW c, NEW i, NEW x, NEW r, NEW l, NEW h, NEW e, NEW v,
           NEW p, p = Here(c, i, x, r, l, h, e)
    PROVE  [p EXCEPT !.running_status_byte = v] = Here(c, i, x, v, l, h, e)
BY DEF Here

(* Making a callback.                                                      *)
LEMMA HereCallback ==
    ASSUME NEW c, NEW i, NEW x, NEW r, NEW l, NEW h, NEW e, NEW v,
           NEW p, p = Here(c, i, x, r, l, h, e)
    PROVE  Callback(p, v) = Here(c, i, x, r, l, h, Append(e, v))
BY DEF Here, Callback

(* Setting the high bits of the timestamp.                                 *)
LEMMA HereHigh ==
    ASSUME NEW c, NEW i, NEW x, NEW r, NEW l, NEW h, NEW e, NEW v,
           NEW p, p = Here(c, i, x, r, l, h, e)
    PROVE  [p EXCEPT !.timestamp_high_bits = v] = Here(c, i, x, r, l, v, e)
BY DEF Here

(* Setting the last timestamp byte.                                        *)
LEMMA HereLast ==
    ASSUME NEW c, NEW i, NEW x, NEW r, NEW l, NEW h, NEW e, NEW v,
           NEW p, p = Here(c, i, x, r, l, h, e)
    PROVE  [p EXCEPT !.prev_timestamp_byte = v] = Here(c, i, x, r, v, h, e)
BY DEF Here

(* The high bits after the timestamp byte v.                               *)
NextHigh(l, h, v) == IF l > v THEN (h + 1) % 64 ELSE h

(* A timestamp byte outside of a sysex message.                            *)
LEMMA HereTimestamp ==
    ASSUME NEW c, NEW i, NEW x, NEW r, NEW l, NEW h, NEW e, NEW v,
           NEW p, p = Here(c, i, x, r, l, h, e)
    PROVE  NextTimestamp(p, v) = Here(c, i, x, r, v, NextHigh(l, h, v), e)
<1> DEFINE g == NextHigh(l, h, v)
<1>1. p.prev_timestamp_byte = l /\ p.timestamp_high_bits = h
  BY HereFields
<1>2. NextTimestamp(p, v)
      = [p EXCEPT !.timestamp_high_bits = g, !.prev_timestamp_byte = v]
  BY <1>1 DEF NextTimestamp, NextHigh
<1> HIDE DEF g
<1> DEFINE q == [p EXCEPT !.timestamp_high_bits = g]
<1>3. q = Here(c, i, x, r, l, g, e)
  BY HereHigh
<1>4. [p EXCEPT !.timestamp_high_bits = g, !.prev_timestamp_byte = v]
      = [q EXCEPT !.prev_timestamp_byte = v]
  OBVIOUS
<1> HIDE DEF q
<1>5. [q EXCEPT !.prev_timestamp_byte = v] = Here(c, i, x, r, v, g, e)
  BY <1>3, HereLast
<1> QED BY <1>2, <1>4, <1>5 DEF g

(* The parser inside and outside of a sysex message.                       *)
Inside(c, i, r, l, h, e)  == Here(c, i, TRUE, r, l, h, e)
Outside(c, i, r, l, h, e) == Here(c, i, FALSE, r, l, h, e)

(* A read inside the packet.                                               *)
LEMMA HereReads ==
    ASSUME NEW c \in Seq(Byte), NEW i \in Nat, NEW n \in Nat, i + n <= Len(c),
           NEW p, p.rx_buf = c, p.read_pos = i
    PROVE  ReadResult(p, n) = "SUCCESS"
<1>1. Len(c) \in Nat
  OBVIOUS
<1>2. p.read_pos + n <= Len(p.rx_buf) /\ ~(n > Len(p.rx_buf))
  BY <1>1
<1> QED BY <1>2 DEF ReadResult

(* One byte is read.                                                       *)
LEMMA HereByte ==
    ASSUME NEW c \in Seq(Byte), NEW i \in Nat, i + 1 <= Len(c),
           NEW x, NEW r, NEW l, NEW h, NEW e, NEW p, p = Here(c, i, x, r, l, h, e)
    PROVE  /\ ReadResult(p, 1) = "SUCCESS"
           /\ [p EXCEPT !.read_pos = @ + 1] = Here(c, i + 1, x, r, l, h, e)
           /\ SubSeq(p.rx_buf, p.read_pos + 1, p.read_pos + 1) = <<c[i + 1]>>
           /\ <<c[i + 1]>>[1] = c[i + 1]
           /\ c[i + 1] \in Byte
<1>1. p.rx_buf = c /\ p.read_pos = i
  BY HereFields
<1>2. ReadResult(p, 1) = "SUCCESS"
  BY <1>1, HereReads
<1>3. [p EXCEPT !.read_pos = @ + 1] = Here(c, i + 1, x, r, l, h, e)
  BY HereAdvance
<1>4. i + 1 \in 1 .. Len(c)
  OBVIOUS
<1>5. SubSeq(c, i + 1, i + 1) = <<c[i + 1]>> /\ c[i + 1] \in Byte
  BY <1>4, OneByte
<1>6. <<c[i + 1]>>[1] = c[i + 1]
  OBVIOUS
<1> QED BY <1>1, <1>2, <1>3, <1>5, <1>6

(* Nothing more to do.                                                     *)
LEMMA StepEnds ==
    ASSUME NEW p, p.rc # "SUCCESS" \/ p.read_pos >= Len(p.rx_buf)
    PROVE  ParseStep(p) = p
BY DEF ParseStep

(* Which part of the loop an iteration takes.                              *)
LEMMA StepInside ==
    ASSUME NEW c, NEW i \in Nat, Len(c) \in Nat, i < Len(c),
           NEW r, NEW l, NEW h, NEW e, NEW p, p = Inside(c, i, r, l, h, e)
    PROVE  ParseStep(p) = ParseInSysex(p)
<1>1. p.rx_buf = c /\ p.read_pos = i /\ p.in_sysex_msg /\ p.rc = "SUCCESS"
  BY DEF Inside, Here
<1>2. ~(i >= Len(c))
  OBVIOUS
<1> QED BY <1>1, <1>2 DEF ParseStep

(* An iteration outside of a sysex message.                                *)
LEMMA StepOutside ==
    ASSUME NEW c, NEW i \in Nat, Len(c) \in Nat, i < Len(c),
           NEW r, NEW l, NEW h, NEW e, NEW p, p = Outside(c, i, r, l, h, e)
    PROVE  ParseStep(p) = ParseOutsideSysex(p)
<1>1. p.rx_buf = c /\ p.read_pos = i /\ ~p.in_sysex_msg /\ p.rc = "SUCCESS"
  BY DEF Outside, Here
<1>2. ~(i >= Len(c))
  OBVIOUS
<1> QED BY <1>1, <1>2 DEF ParseStep

(* A sysex data byte.                                                      *)
LEMMA SysexDataByte ==
    ASSUME NEW c \in Seq(Byte), NEW i \in Nat, i + 1 <= Len(c), c[i + 1] < 128,
           NEW x, NEW r, NEW l, NEW h, NEW e, NEW p, p = Here(c, i, x, r, l, h, e)
    PROVE  ParseInSysex(p) = Here(c, i + 1, x, r, l, h, Append(e, DataEvent(c[i + 1])))
<1> DEFINE q == [p EXCEPT !.read_pos = @ + 1]
           b == SubSeq(p.rx_buf, p.read_pos + 1, p.read_pos + 1)
           y == c[i + 1]
<1>4. /\ ReadResult(p, 1) = "SUCCESS" /\ q = Here(c, i + 1, x, r, l, h, e)
      /\ b = <<y>> /\ <<y>>[1] = y
  BY HereByte
<1>5. is_data_byte(y)
  BY DEF is_data_byte
<1>6. ParseInSysex(p) = Callback(q, DataEvent(b[1]))
  BY <1>4, <1>5 DEF ParseInSysex, ble_midi_parser_read
<1> HIDE DEF q, b, y
<1>7. Callback(q, DataEvent(y)) = Here(c, i + 1, x, r, l, h, Append(e, DataEvent(y)))
  BY <1>4, HereCallback
<1>8. ParseInSysex(p) = Here(c, i + 1, x, r, l, h, Append(e, DataEvent(y)))
  BY <1>4, <1>6, <1>7
<1> QED BY <1>8 DEF y

(* Two bytes are read, and the first is no data byte.                      *)
LEMMA HereTwoBytes ==
    ASSUME NEW c \in Seq(Byte), NEW i \in Nat, i + 2 <= Len(c), c[i + 1] >= 128,
           NEW x, NEW r, NEW l, NEW h, NEW e, NEW p, p = Here(c, i, x, r, l, h, e)
    PROVE  LET q == [p EXCEPT !.read_pos = @ + 1]
           IN  /\ ReadResult(p, 1) = "SUCCESS"
               /\ q = Here(c, i + 1, x, r, l, h, e)
               /\ SubSeq(p.rx_buf, p.read_pos + 1, p.read_pos + 1) = <<c[i + 1]>>
               /\ <<c[i + 1]>>[1] = c[i + 1] /\ c[i + 1] \in Byte
               /\ ~is_data_byte(c[i + 1])
               /\ i + 1 \in Nat /\ (i + 1) + 1 <= Len(c) /\ (i + 1) + 1 = i + 2
<1>1. i + 1 \in Nat /\ (i + 1) + 1 <= Len(c) /\ (i + 1) + 1 = i + 2 /\ i + 1 <= Len(c)
  OBVIOUS
<1>2. /\ ReadResult(p, 1) = "SUCCESS"
      /\ [p EXCEPT !.read_pos = @ + 1] = Here(c, i + 1, x, r, l, h, e)
      /\ SubSeq(p.rx_buf, p.read_pos + 1, p.read_pos + 1) = <<c[i + 1]>>
      /\ <<c[i + 1]>>[1] = c[i + 1]
      /\ c[i + 1] \in Byte
  BY <1>1, HereByte
<1>3. ~is_data_byte(c[i + 1])
  <2> DEFINE y == c[i + 1]
  <2>1. y \in Int /\ y >= 128
    BY <1>2 DEF Byte
  <2> HIDE DEF y
  <2>2. ~is_data_byte(y)
    BY <2>1 DEF is_data_byte
  <2> QED BY <2>2 DEF y
<1> QED BY <1>1, <1>2, <1>3

(* A timestamp and a status byte inside a sysex message.                   *)
LEMMA SysexStatus ==
    ASSUME NEW c \in Seq(Byte), NEW i \in Nat, i + 2 <= Len(c), c[i + 1] >= 128,
           NEW x, NEW r, NEW l, NEW h, NEW e, NEW p, p = Here(c, i, x, r, l, h, e)
    PROVE  ParseInSysex(p)
           = IF is_realtime_message(c[i + 2])
             THEN Here(c, i + 2, x, r, l, h,
                       Append(e, MessageEvent(<<c[i + 2]>>, TimestampMs(h, c[i + 1]))))
             ELSE IF c[i + 2] = \hF7
             THEN Outside(c, i + 2, r, l, h,
                          Append(e, EndEvent(TimestampMs(h, c[i + 1]))))
             ELSE Return(Here(c, i + 2, x, r, l, h, e), "INVALID_STATUS_BYTE")
<1> DEFINE q == [p EXCEPT !.read_pos = @ + 1]
           b == SubSeq(p.rx_buf, p.read_pos + 1, p.read_pos + 1)
           y == c[i + 1]
           g == [q EXCEPT !.read_pos = @ + 1]
           d == SubSeq(q.rx_buf, q.read_pos + 1, q.read_pos + 1)
           s == c[i + 2]
           t == TimestampMs(h, y)
<1>1. /\ ReadResult(p, 1) = "SUCCESS" /\ q = Here(c, i + 1, x, r, l, h, e)
      /\ b = <<y>> /\ <<y>>[1] = y /\ ~is_data_byte(y)
      /\ i + 1 \in Nat /\ (i + 1) + 1 <= Len(c) /\ (i + 1) + 1 = i + 2
  BY HereTwoBytes
<1>2. /\ ReadResult(q, 1) = "SUCCESS" /\ g = Here(c, i + 2, x, r, l, h, e)
      /\ d = <<s>> /\ <<s>>[1] = s
  <2> HIDE DEF q
  <2> QED BY <1>1, HereByte
<1>3. ParseInSysex(p) =
          IF is_realtime_message(d[1])
          THEN Callback(g, MessageEvent(d, TimestampMs(g.timestamp_high_bits, b[1])))
          ELSE IF d[1] = \hF7
          THEN Callback([g EXCEPT !.in_sysex_msg = FALSE],
                        EndEvent(TimestampMs(g.timestamp_high_bits, b[1])))
          ELSE Return(g, "INVALID_STATUS_BYTE")
  BY <1>1, <1>2 DEF ParseInSysex, ble_midi_parser_read
<1> HIDE DEF q, b, y, g, d, s, t
<1>4. g.timestamp_high_bits = h /\ t = TimestampMs(h, y)
  BY <1>2, HereFields DEF t
<1>5. Callback(g, MessageEvent(<<s>>, t))
      = Here(c, i + 2, x, r, l, h, Append(e, MessageEvent(<<s>>, t)))
  BY <1>2, HereCallback
<1>6. Callback([g EXCEPT !.in_sysex_msg = FALSE], EndEvent(t))
      = Outside(c, i + 2, r, l, h, Append(e, EndEvent(t)))
  <2> DEFINE k == [g EXCEPT !.in_sysex_msg = FALSE]
  <2>1. PICK z : z = FALSE
    OBVIOUS
  <2>2. [g EXCEPT !.in_sysex_msg = z] = Here(c, i + 2, z, r, l, h, e)
    BY <1>2, HereSysex
  <2>3. k = Here(c, i + 2, z, r, l, h, e)
    BY <2>1, <2>2
  <2> HIDE DEF k
  <2>4. Callback(k, EndEvent(t)) = Here(c, i + 2, z, r, l, h, Append(e, EndEvent(t)))
    BY <2>3, HereCallback
  <2>5. Callback(k, EndEvent(t)) = Outside(c, i + 2, r, l, h, Append(e, EndEvent(t)))
    BY <2>1, <2>4 DEF Outside
  <2> QED BY <2>5 DEF k
<1>7. ParseInSysex(p)
      = IF is_realtime_message(s)
        THEN Here(c, i + 2, x, r, l, h, Append(e, MessageEvent(<<s>>, t)))
        ELSE IF s = \hF7
        THEN Outside(c, i + 2, r, l, h, Append(e, EndEvent(t)))
        ELSE Return(Here(c, i + 2, x, r, l, h, e), "INVALID_STATUS_BYTE")
  BY <1>1, <1>2, <1>3, <1>4, <1>5, <1>6
<1> QED BY <1>7 DEF s, t, y

(* A message under running status.                                         *)
LEMMA RunningMessage ==
    ASSUME NEW c \in Seq(Byte), NEW i \in Nat, NEW k \in Nat, i + k <= Len(c),
           NEW x, NEW r, message_size(r) = k + 2, NEW l, NEW h, NEW e, NEW b, NEW t,
           NEW p, p = Here(c, i, x, r, l, h, e)
    PROVE  ParseRunningStatus(p, b, t)
           = Here(c, i + k, x, r, l, h,
                  Append(e, MessageEvent(<<r>> \o b \o SubSeq(c, i + 1, i + k), t)))
<1> DEFINE q == [p EXCEPT !.read_pos = @ + k]
           d == SubSeq(p.rx_buf, p.read_pos + 1, p.read_pos + k)
           f == SubSeq(c, i + 1, i + k)
<1>1. ~(message_size(r) < 2) /\ message_size(r) - 2 = k
  OBVIOUS
<1>2. ReadResult(p, k) = "SUCCESS" /\ q = Here(c, i + k, x, r, l, h, e) /\ d = f
  <2>1. p.rx_buf = c /\ p.read_pos = i
    BY HereFields
  <2>2. q = Here(c, i + k, x, r, l, h, e)
    BY HereAdvance
  <2>3. ReadResult(p, k) = "SUCCESS"
    BY <2>1 DEF ReadResult
  <2> QED BY <2>1, <2>2, <2>3
<1>3. p.running_status_byte = r
  BY HereFields
<1>4. ParseRunningStatus(p, b, t) = Callback(q, MessageEvent(<<r>> \o b \o d, t))
  BY <1>1, <1>2, <1>3 DEF ParseRunningStatus, ble_midi_parser_read
<1> HIDE DEF q, d, f
<1>5. Callback(q, MessageEvent(<<r>> \o b \o f, t))
      = Here(c, i + k, x, r, l, h, Append(e, MessageEvent(<<r>> \o b \o f, t)))
  BY <1>2, HereCallback
<1>6. ParseRunningStatus(p, b, t)
      = Here(c, i + k, x, r, l, h, Append(e, MessageEvent(<<r>> \o b \o f, t)))
  BY <1>2, <1>4, <1>5
<1> QED BY <1>6 DEF f

(* The running status after a message with status s.                       *)
RunAfter(r, s) ==
    IF is_channel_message(s) THEN s
    ELSE IF is_realtime_message(s) \/ is_system_common_message(s) THEN r ELSE 0

(* The start of a sysex message.                                           *)
LEMMA FullStart ==
    ASSUME NEW c, NEW i, NEW x, NEW r, NEW l, NEW h, NEW e, NEW t,
           NEW p, p = Here(c, i, x, r, l, h, e)
    PROVE  ParseFullMessage(p, \hF0, t)
           = Inside(c, i, RunAfter(r, \hF0), l, h, Append(e, StartEvent(t)))
<1> DEFINE q == [p EXCEPT !.running_status_byte = RunningStatusOf(p, \hF0)]
           k == [q EXCEPT !.in_sysex_msg = TRUE]
           a == RunAfter(r, \hF0)
<1>1. RunningStatusOf(p, \hF0) = a
  BY HereFields DEF RunningStatusOf, RunAfter
<1>2. ParseFullMessage(p, \hF0, t) = Callback(k, StartEvent(t))
  BY DEF ParseFullMessage
<1> HIDE DEF a
<1>3. q = Here(c, i, x, a, l, h, e)
  BY <1>1, HereRunning
<1> HIDE DEF q
<1>4. PICK z : z = TRUE
  OBVIOUS
<1>5. [q EXCEPT !.in_sysex_msg = z] = Here(c, i, z, a, l, h, e)
  BY <1>3, HereSysex
<1>6. k = Here(c, i, z, a, l, h, e)
  BY <1>4, <1>5
<1> HIDE DEF k
<1>7. Callback(k, StartEvent(t)) = Here(c, i, z, a, l, h, Append(e, StartEvent(t)))
  BY <1>6, HereCallback
<1>8. Callback(k, StartEvent(t)) = Inside(c, i, a, l, h, Append(e, StartEvent(t)))
  BY <1>4, <1>7 DEF Inside
<1> QED BY <1>2, <1>8 DEF a

(* A status byte that starts no message.                                   *)
LEMMA FullInvalid ==
    ASSUME NEW c, NEW i, NEW x, NEW r, NEW l, NEW h, NEW e, NEW t, NEW s,
           s # \hF0, message_size(s) = 0,
           NEW p, p = Here(c, i, x, r, l, h, e)
    PROVE  ParseFullMessage(p, s, t)
           = Return(Here(c, i, x, RunAfter(r, s), l, h, e), "INVALID_STATUS_BYTE")
<1> DEFINE q == [p EXCEPT !.running_status_byte = RunningStatusOf(p, s)]
           a == RunAfter(r, s)
<1>1. RunningStatusOf(p, s) = a
  BY HereFields DEF RunningStatusOf, RunAfter
<1>2. ParseFullMessage(p, s, t) = Return(q, "INVALID_STATUS_BYTE")
  BY DEF ParseFullMessage
<1> HIDE DEF a
<1>3. q = Here(c, i, x, a, l, h, e)
  BY <1>1, HereRunning
<1> QED BY <1>2, <1>3 DEF a

(* A message with its status byte.                                         *)
LEMMA FullMessage ==
    ASSUME NEW c \in Seq(Byte), NEW i \in Nat, NEW s, s # \hF0,
           NEW k \in Nat, message_size(s) = k + 1, i + k <= Len(c),
           NEW x, NEW r, NEW l, NEW h, NEW e, NEW t,
           NEW p, p = Here(c, i, x, r, l, h, e)
    PROVE  ParseFullMessage(p, s, t)
           = Here(c, i + k, x, RunAfter(r, s), l, h,
                  Append(e, MessageEvent(<<s>> \o SubSeq(c, i + 1, i + k), t)))
<1> DEFINE a == RunAfter(r, s)
           q == [p EXCEPT !.running_status_byte = RunningStatusOf(p, s)]
           g == [q EXCEPT !.read_pos = @ + k]
           d == SubSeq(q.rx_buf, q.read_pos + 1, q.read_pos + k)
           f == SubSeq(c, i + 1, i + k)
<1>1. RunningStatusOf(p, s) = a
  BY HereFields DEF RunningStatusOf, RunAfter
<1>2. message_size(s) # 0 /\ message_size(s) - 1 = k
  OBVIOUS
<1> HIDE DEF a
<1>3. q = Here(c, i, x, a, l, h, e)
  BY <1>1, HereRunning
<1>4. ReadResult(q, k) = "SUCCESS" /\ g = Here(c, i + k, x, a, l, h, e) /\ d = f
  <2> HIDE DEF q
  <2>1. q.rx_buf = c /\ q.read_pos = i
    BY <1>3, HereFields
  <2>2. g = Here(c, i + k, x, a, l, h, e)
    BY <1>3, HereAdvance
  <2>3. ReadResult(q, k) = "SUCCESS"
    BY <2>1 DEF ReadResult
  <2> QED BY <2>1, <2>2, <2>3
<1>5. ParseFullMessage(p, s, t) = Callback(g, MessageEvent(<<s>> \o d, t))
  BY <1>2, <1>4 DEF ParseFullMessage, ble_midi_parser_read
<1> HIDE DEF q, g, d, f
<1>6. Callback(g, MessageEvent(<<s>> \o f, t))
      = Here(c, i + k, x, a, l, h, Append(e, MessageEvent(<<s>> \o f, t)))
  BY <1>4, HereCallback
<1>7. ParseFullMessage(p, s, t)
      = Here(c, i + k, x, a, l, h, Append(e, MessageEvent(<<s>> \o f, t)))
  BY <1>4, <1>5, <1>6
<1> QED BY <1>7 DEF f, a

(* Outside of a sysex message: a data byte under running status.           *)
LEMMA OutsideData ==
    ASSUME NEW c \in Seq(Byte), NEW i \in Nat, i + 1 <= Len(c), c[i + 1] < 128,
           NEW x, NEW r, NEW l, NEW h, NEW e, NEW p, p = Here(c, i, x, r, l, h, e)
    PROVE  ParseOutsideSysex(p)
           = ParseRunningStatus(Here(c, i + 1, x, r, l, h, e), <<c[i + 1]>>,
                                TimestampMs(h, l))
<1> DEFINE q == [p EXCEPT !.read_pos = @ + 1]
           b == SubSeq(p.rx_buf, p.read_pos + 1, p.read_pos + 1)
           y == c[i + 1]
<1>1. /\ ReadResult(p, 1) = "SUCCESS" /\ q = Here(c, i + 1, x, r, l, h, e)
      /\ b = <<y>> /\ <<y>>[1] = y
  BY HereByte
<1>2. is_data_byte(y)
  BY DEF is_data_byte
<1>3. ParseOutsideSysex(p)
      = ParseRunningStatus(q, b, TimestampMs(q.timestamp_high_bits, q.prev_timestamp_byte))
  BY <1>1, <1>2 DEF ParseOutsideSysex, ble_midi_parser_read
<1> HIDE DEF q, b, y
<1>4. q.timestamp_high_bits = h /\ q.prev_timestamp_byte = l
  BY <1>1, HereFields
<1>5. ParseOutsideSysex(p)
      = ParseRunningStatus(Here(c, i + 1, x, r, l, h, e), <<y>>, TimestampMs(h, l))
  BY <1>1, <1>3, <1>4
<1> QED BY <1>5 DEF y

(* A timestamp byte and another byte outside of a sysex message.           *)
LEMMA OutsideTimestamp ==
    ASSUME NEW c \in Seq(Byte), NEW i \in Nat, i + 2 <= Len(c), c[i + 1] >= 128,
           NEW x, NEW r, NEW l, NEW h, NEW e, NEW p, p = Here(c, i, x, r, l, h, e)
    PROVE  LET g == NextHigh(l, h, c[i + 1])
               t == TimestampMs(g, c[i + 1])
               q == Here(c, i + 2, x, r, c[i + 1], g, e)
           IN  ParseOutsideSysex(p) = IF is_data_byte(c[i + 2])
                                      THEN ParseRunningStatus(q, <<c[i + 2]>>, t)
                                      ELSE ParseFullMessage(q, c[i + 2], t)
<1> DEFINE q == [p EXCEPT !.read_pos = @ + 1]
           b == SubSeq(p.rx_buf, p.read_pos + 1, p.read_pos + 1)
           y == c[i + 1]
           g == NextHigh(l, h, y)
           o == NextTimestamp(q, y)
           k == [o EXCEPT !.read_pos = @ + 1]
           d == SubSeq(o.rx_buf, o.read_pos + 1, o.read_pos + 1)
           s == c[i + 2]
           t == TimestampMs(g, y)
<1>1. /\ ReadResult(p, 1) = "SUCCESS" /\ q = Here(c, i + 1, x, r, l, h, e)
      /\ b = <<y>> /\ <<y>>[1] = y /\ ~is_data_byte(y)
      /\ i + 1 \in Nat /\ (i + 1) + 1 <= Len(c) /\ (i + 1) + 1 = i + 2
  BY HereTwoBytes
<1>2. o = Here(c, i + 1, x, r, y, g, e)
  <2> HIDE DEF q, y
  <2> QED BY <1>1, HereTimestamp
<1>3. /\ ReadResult(o, 1) = "SUCCESS" /\ k = Here(c, i + 2, x, r, y, g, e)
      /\ d = <<s>> /\ <<s>>[1] = s
  <2> HIDE DEF o, g
  <2> QED BY <1>1, <1>2, HereByte, SMTT(30)
<1>4. b[1] = y /\ d[1] = s
  <2> HIDE DEF b, y, d, s
  <2> QED BY <1>1, <1>3
<1> DEFINE o1 == NextTimestamp(q, b[1])
<1>5. o1 = o
  <2> HIDE DEF b, y, q
  <2> QED BY <1>4
<1>6. ParseOutsideSysex(p)
      = LET k1 == [o1 EXCEPT !.read_pos = @ + 1]
            d1 == SubSeq(o1.rx_buf, o1.read_pos + 1, o1.read_pos + 1)
            t1 == TimestampMs(k1.timestamp_high_bits, b[1])
        IN  IF is_data_byte(d1[1]) THEN ParseRunningStatus(k1, d1, t1)
            ELSE ParseFullMessage(k1, d1[1], t1)
  <2>1. ReadResult(o1, 1) = "SUCCESS"
    BY <1>3, <1>5
  <2>2. ~is_data_byte(b[1])
    BY <1>1, <1>4
  <2> QED BY <1>1, <2>1, <2>2 DEF ParseOutsideSysex, ble_midi_parser_read
<1> HIDE DEF o1
<1>7. ParseOutsideSysex(p) = IF is_data_byte(d[1])
                    THEN ParseRunningStatus(k, d, TimestampMs(k.timestamp_high_bits, b[1]))
                    ELSE ParseFullMessage(k, d[1], TimestampMs(k.timestamp_high_bits, b[1]))
  BY <1>5, <1>6
<1> HIDE DEF q, b, y, g, o, k, d, s, t
<1>8. k.timestamp_high_bits = g /\ t = TimestampMs(g, y)
  BY <1>3, HereFields DEF t
<1>9. ParseOutsideSysex(p)
      = IF is_data_byte(s)
        THEN ParseRunningStatus(Here(c, i + 2, x, r, y, g, e), <<s>>, t)
        ELSE ParseFullMessage(Here(c, i + 2, x, r, y, g, e), s, t)
  BY <1>3, <1>4, <1>7, <1>8
<1> QED BY <1>9 DEF g, s, t, y

-----------------------------------------------------------------------------
(* The parser comes to be inside, or outside, of a sysex message after i   *)
(* bytes of packet c.                                                      *)
Known(c, i, r, l, h) == c \in Seq(Byte) /\ i \in Nat /\ r \in Byte /\ l \in Byte /\ h \in 0 .. 63
InAt(c, i, r, l, h, e)  == Known(c, i, r, l, h) /\ Reach(c, Inside(c, i, r, l, h, e))
OutAt(c, i, r, l, h, e) == Known(c, i, r, l, h) /\ Reach(c, Outside(c, i, r, l, h, e))

(* The numbers of bytes of the messages.                                   *)
LEMMA MessageSizes ==
    ASSUME NEW s \in Byte
    PROVE  /\ message_size(s) \in 0 .. 3
           /\ is_channel_message(s) => message_size(s) \in {2, 3} /\ s >= 128 /\ s < 240
           /\ is_realtime_message(s) => message_size(s) = 1 /\ ~is_channel_message(s) /\ s >= 248
           /\ s < 128 => message_size(s) = 0
           /\ message_size(\hF0) = 0 /\ message_size(\hF7) = 0
<1>1. message_size(s) \in 0 .. 3
  BY DEF message_size
<1>2. is_channel_message(s) => s \div 16 \in {8, 9, 10, 11, 12, 13, 14} /\ s >= 128 /\ s < 240
  BY DEF is_channel_message, Byte
<1>3. is_channel_message(s) => message_size(s) \in {2, 3}
  BY <1>2 DEF message_size, is_realtime_message
<1>4. is_realtime_message(s) => s \div 16 = 15 /\ s >= 248
  BY DEF is_realtime_message
<1>5. is_realtime_message(s) => message_size(s) = 1 /\ ~is_channel_message(s)
  BY <1>4 DEF message_size, is_channel_message, is_realtime_message
<1>6. s < 128 => message_size(s) = 0
  <2>1. s < 128 => s \div 16 \in 0 .. 7
    BY DEF Byte
  <2> QED BY <2>1 DEF message_size, is_realtime_message
<1>7. \hF0 \div 16 = 15 /\ \hF7 \div 16 = 15
  OBVIOUS
<1>8. message_size(\hF0) = 0 /\ message_size(\hF7) = 0
  BY <1>7 DEF message_size, is_realtime_message
<1> QED BY <1>1, <1>2, <1>3, <1>4, <1>5, <1>6, <1>8

(* How many bytes the parser has read.                                     *)
LEMMA HerePositions ==
    ASSUME NEW c, NEW i, NEW r, NEW l, NEW h, NEW e
    PROVE  Inside(c, i, r, l, h, e).read_pos = i /\ Outside(c, i, r, l, h, e).read_pos = i
BY DEF Inside, Outside, Here

(* An iteration is made.                                                   *)
LEMMA Iterate ==
    ASSUME NEW c \in Seq(Byte), NEW i \in Nat, NEW j \in Nat, i < j, j <= Len(c),
           NEW p, p.read_pos = i, Reach(c, p),
           NEW q, q.read_pos = j, q = ParseStep(p)
    PROVE  Reach(c, q)
<1>1. Len(c) \in Nat
  OBVIOUS
<1> QED BY <1>1, ReachStep

(* One inside, or outside, of a sysex message.                             *)
LEMMA InStep ==
    ASSUME NEW c, NEW i, NEW r, NEW l, NEW h, NEW e, InAt(c, i, r, l, h, e),
           NEW j \in Nat, i < j, j <= Len(c), NEW q, q.read_pos = j,
           ParseInSysex(Inside(c, i, r, l, h, e)) = q
    PROVE  Reach(c, q)
<1> DEFINE p == Inside(c, i, r, l, h, e)
<1>1. /\ c \in Seq(Byte) /\ i \in Nat /\ i < Len(c) /\ Len(c) \in Nat /\ Reach(c, p)
  BY DEF InAt, Known
<1>2. p.read_pos = i /\ p = Inside(c, i, r, l, h, e) /\ ParseInSysex(p) = q
  BY HerePositions
<1> HIDE DEF p
<1>3. ParseStep(p) = ParseInSysex(p)
  BY <1>1, <1>2, StepInside
<1> QED BY <1>1, <1>2, <1>3, Iterate

(* The same outside of a sysex message.                                    *)
LEMMA OutStep ==
    ASSUME NEW c, NEW i, NEW r, NEW l, NEW h, NEW e, OutAt(c, i, r, l, h, e),
           NEW j \in Nat, i < j, j <= Len(c), NEW q, q.read_pos = j,
           ParseOutsideSysex(Outside(c, i, r, l, h, e)) = q
    PROVE  Reach(c, q)
<1> DEFINE p == Outside(c, i, r, l, h, e)
<1>1. /\ c \in Seq(Byte) /\ i \in Nat /\ i < Len(c) /\ Len(c) \in Nat /\ Reach(c, p)
  BY DEF OutAt, Known
<1>2. p.read_pos = i /\ p = Outside(c, i, r, l, h, e) /\ ParseOutsideSysex(p) = q
  BY HerePositions
<1> HIDE DEF p
<1>3. ParseStep(p) = ParseOutsideSysex(p)
  BY <1>1, <1>2, StepOutside
<1> QED BY <1>1, <1>2, <1>3, Iterate

(* A data byte of a sysex message.                                         *)
LEMMA InAtData ==
    ASSUME NEW c, NEW i, NEW r, NEW l, NEW h, NEW e, InAt(c, i, r, l, h, e),
           i + 1 <= Len(c), c[i + 1] < 128
    PROVE  InAt(c, i + 1, r, l, h, Append(e, DataEvent(c[i + 1])))
<1> DEFINE p == Inside(c, i, r, l, h, e)
           f == Append(e, DataEvent(c[i + 1]))
           q == Inside(c, i + 1, r, l, h, f)
<1>1. c \in Seq(Byte) /\ i \in Nat /\ i + 1 \in Nat /\ i < i + 1
  BY DEF InAt, Known
<1>2. ParseInSysex(p) = q
  <2>1. PICK x : x = TRUE
    OBVIOUS
  <2>2. p = Here(c, i, x, r, l, h, e) /\ q = Here(c, i + 1, x, r, l, h, f)
    BY <2>1 DEF Inside
  <2> HIDE DEF p, q
  <2>3. ParseInSysex(p) = Here(c, i + 1, x, r, l, h, f)
    BY <1>1, <2>2, SysexDataByte
  <2> QED BY <2>2, <2>3
<1>3. q.read_pos = i + 1
  BY HerePositions
<1> HIDE DEF q, f
<1>4. Reach(c, q)
  BY <1>1, <1>2, <1>3, InStep
<1> QED BY <1>1, <1>4 DEF InAt, Known, q, f

(* A real time message inside a sysex message.                             *)
LEMMA InAtRealtime ==
    ASSUME NEW c, NEW i, NEW r, NEW l, NEW h, NEW e, InAt(c, i, r, l, h, e),
           i + 2 <= Len(c), c[i + 1] >= 128, is_realtime_message(c[i + 2])
    PROVE  InAt(c, i + 2, r, l, h,
                Append(e, MessageEvent(<<c[i + 2]>>, TimestampMs(h, c[i + 1]))))
<1> DEFINE p == Inside(c, i, r, l, h, e)
           f == Append(e, MessageEvent(<<c[i + 2]>>, TimestampMs(h, c[i + 1])))
           q == Inside(c, i + 2, r, l, h, f)
<1>1. c \in Seq(Byte) /\ i \in Nat /\ i + 2 \in Nat /\ i < i + 2
  BY DEF InAt, Known
<1>2. ParseInSysex(p) = q
  <2>1. PICK x : x = TRUE
    OBVIOUS
  <2>2. p = Here(c, i, x, r, l, h, e) /\ q = Here(c, i + 2, x, r, l, h, f)
    BY <2>1 DEF Inside
  <2> HIDE DEF p, q
  <2>3. ParseInSysex(p) = Here(c, i + 2, x, r, l, h, f)
    BY <1>1, <2>2, SysexStatus
  <2> QED BY <2>2, <2>3
<1>3. q.read_pos = i + 2
  BY HerePositions
<1> HIDE DEF q, f
<1>4. Reach(c, q)
  BY <1>1, <1>2, <1>3, InStep
<1> QED BY <1>1, <1>4 DEF InAt, Known, q, f

(* The end of a sysex message.                                             *)
LEMMA InAtEnd ==
    ASSUME NEW c, NEW i, NEW r, NEW l, NEW h, NEW e, InAt(c, i, r, l, h, e),
           i + 2 <= Len(c), c[i + 1] >= 128, c[i + 2] = \hF7
    PROVE  OutAt(c, i + 2, r, l, h, Append(e, EndEvent(TimestampMs(h, c[i + 1]))))
<1> DEFINE p == Inside(c, i, r, l, h, e)
           f == Append(e, EndEvent(TimestampMs(h, c[i + 1])))
           q == Outside(c, i + 2, r, l, h, f)
<1>1. c \in Seq(Byte) /\ i \in Nat /\ i + 2 \in Nat /\ i < i + 2
  BY DEF InAt, Known
<1>2. ~is_realtime_message(c[i + 2])
  BY DEF is_realtime_message
<1>3. ParseInSysex(p) = q
  <2>1. PICK x : x = TRUE
    OBVIOUS
  <2>2. p = Here(c, i, x, r, l, h, e)
    BY <2>1 DEF Inside
  <2> HIDE DEF p, q
  <2>3. ParseInSysex(p)
        = IF is_realtime_message(c[i + 2])
          THEN Here(c, i + 2, x, r, l, h,
                    Append(e, MessageEvent(<<c[i + 2]>>, TimestampMs(h, c[i + 1]))))
          ELSE IF c[i + 2] = \hF7
          THEN Outside(c, i + 2, r, l, h, f)
          ELSE Return(Here(c, i + 2, x, r, l, h, e), "INVALID_STATUS_BYTE")
    BY <1>1, <2>2, SysexStatus
  <2> QED BY <1>2, <2>3 DEF q
<1>4. q.read_pos = i + 2
  BY HerePositions
<1> HIDE DEF q, f
<1>5. Reach(c, q)
  BY <1>1, <1>3, <1>4, InStep
<1> QED BY <1>1, <1>5 DEF InAt, OutAt, Known, q, f

(* The high bits stay in their range.                                      *)
LEMMA HighBits ==
    ASSUME NEW l \in Byte, NEW h \in 0 .. 63, NEW v \in Byte
    PROVE  NextHigh(l, h, v) \in 0 .. 63
BY DEF NextHigh, Byte

(* A message with its timestamp and its status byte.                       *)
LEMMA OutAtMessage ==
    ASSUME NEW c, NEW i, NEW r, NEW l, NEW h, NEW e, OutAt(c, i, r, l, h, e),
           NEW n, n = message_size(c[i + 2]), n # 0, i + 1 + n <= Len(c),
           c[i + 1] >= 128
    PROVE  LET g == NextHigh(l, h, c[i + 1])
           IN  OutAt(c, i + 1 + n, RunAfter(r, c[i + 2]), c[i + 1], g,
                     Append(e, MessageEvent(<<c[i + 2]>> \o SubSeq(c, i + 3, i + 1 + n),
                                            TimestampMs(g, c[i + 1]))))
<1> DEFINE y == c[i + 1]
           s == c[i + 2]
           g == NextHigh(l, h, y)
           t == TimestampMs(g, y)
           a == RunAfter(r, s)
           p == Outside(c, i, r, l, h, e)
           k == n - 1
           f == Append(e, MessageEvent(<<s>> \o SubSeq(c, (i + 2) + 1, (i + 2) + k), t))
           q == Outside(c, (i + 2) + k, a, y, g, f)
<1>1. c \in Seq(Byte) /\ i \in Nat /\ r \in Byte /\ l \in Byte /\ h \in 0 .. 63
  BY DEF OutAt, Known
<1>2. i + 1 \in 1 .. Len(c) /\ i + 2 \in 1 .. Len(c) /\ n \in 1 .. 3
  <2>1. n \in Nat
    BY DEF message_size
  <2>2. i + 1 \in 1 .. Len(c) /\ i + 2 \in 1 .. Len(c)
    BY <1>1, <2>1
  <2>3. s \in Byte
    BY <1>1, <2>2
  <2> QED BY <2>1, <2>2, <2>3, MessageSizes
<1>3. y \in Byte /\ s \in Byte
  BY <1>1, <1>2
<1>4. /\ (i + 2) + k = i + 1 + n /\ (i + 2) + 1 = i + 3 /\ (i + 2) + k <= Len(c)
      /\ (i + 2) + k \in Nat /\ i < (i + 2) + k /\ i + 2 \in Nat /\ i + 2 <= Len(c)
      /\ n \in Nat
  BY <1>1, <1>2, SMTT(30)
<1>5. s # \hF0 /\ ~is_data_byte(s)
  <2> HIDE DEF s
  <2>1. n = message_size(s)
    BY DEF s
  <2>2. s # \hF0 /\ ~(s < 128)
    BY <1>3, <2>1, MessageSizes
  <2> QED BY <2>2 DEF is_data_byte
<1>6. g \in 0 .. 63 /\ a \in Byte
  <2>1. g \in 0 .. 63
    BY <1>1, <1>3, HighBits
  <2>2. a \in Byte
    <3> HIDE DEF s
    <3> QED BY <1>1, <1>3 DEF RunAfter, Byte
  <2> QED BY <2>1, <2>2
<1>7. ParseOutsideSysex(p) = q
  <2>1. PICK x : x = FALSE
    OBVIOUS
  <2>2. p = Here(c, i, x, r, l, h, e) /\ q = Here(c, (i + 2) + k, x, a, y, g, f)
    BY <2>1 DEF Outside
  <2> HIDE DEF p, q
  <2> DEFINE o == Here(c, i + 2, x, r, y, g, e)
  <2>3. ParseOutsideSysex(p) = IF is_data_byte(s) THEN ParseRunningStatus(o, <<s>>, t)
                               ELSE ParseFullMessage(o, s, t)
    BY <1>1, <1>4, <2>2, OutsideTimestamp, SMTT(30)
  <2>4. ParseOutsideSysex(p) = ParseFullMessage(o, s, t)
    BY <1>5, <2>3
  <2>5. ParseFullMessage(o, s, t) = Here(c, (i + 2) + k, x, a, y, g, f)
    <3> HIDE DEF y, g, t
    <3>1. message_size(s) = k + 1 /\ k \in Nat /\ (i + 2) + k <= Len(c)
      BY <1>2, <1>4, SMTT(30)
    <3> HIDE DEF s, k
    <3>2. o = Here(c, i + 2, x, r, y, g, e)
      BY DEF o
    <3> HIDE DEF o
    <3> QED BY <1>1, <1>4, <1>5, <3>1, <3>2, FullMessage
  <2> QED BY <2>2, <2>4, <2>5
<1>8. q.read_pos = (i + 2) + k
  BY HerePositions
<1> HIDE DEF q, f, y, s, g, t, a
<1>9. Reach(c, q)
  BY <1>1, <1>4, <1>7, <1>8, OutStep
<1>10. OutAt(c, (i + 2) + k, a, y, g, f)
  BY <1>1, <1>3, <1>4, <1>6, <1>9 DEF OutAt, Known, q
<1>11. OutAt(c, i + 1 + n, a, y, g, Append(e, MessageEvent(<<s>> \o SubSeq(c, i + 3, i + 1 + n), t)))
  BY <1>4, <1>10 DEF f
<1> QED BY <1>11 DEF y, s, g, t, a

(* The start of a sysex message.                                           *)
LEMMA OutAtStart ==
    ASSUME NEW c, NEW i, NEW r, NEW l, NEW h, NEW e, OutAt(c, i, r, l, h, e),
           i + 2 <= Len(c), c[i + 1] >= 128, c[i + 2] = \hF0
    PROVE  LET g == NextHigh(l, h, c[i + 1])
           IN  InAt(c, i + 2, 0, c[i + 1], g,
                    Append(e, StartEvent(TimestampMs(g, c[i + 1]))))
<1> DEFINE y == c[i + 1]
           g == NextHigh(l, h, y)
           t == TimestampMs(g, y)
           p == Outside(c, i, r, l, h, e)
           f == Append(e, StartEvent(t))
           q == Inside(c, i + 2, 0, y, g, f)
<1>1. /\ c \in Seq(Byte) /\ i \in Nat /\ r \in Byte /\ l \in Byte /\ h \in 0 .. 63
      /\ i + 2 \in Nat /\ i < i + 2 /\ i + 1 \in 1 .. Len(c)
  BY DEF OutAt, Known
<1>2. y \in Byte
  BY <1>1
<1>3. g \in 0 .. 63
  <2> HIDE DEF y
  <2> QED BY <1>1, <1>2, HighBits
<1>4. RunAfter(r, \hF0) = 0 /\ ~is_data_byte(\hF0)
  <2>1. \hF0 \div 16 = 15
    OBVIOUS
  <2> QED BY <2>1 DEF RunAfter, is_data_byte, is_channel_message, is_realtime_message,
                      is_system_common_message
<1>5. ParseOutsideSysex(p) = q
  <2>1. PICK x : x = FALSE
    OBVIOUS
  <2>2. p = Here(c, i, x, r, l, h, e)
    BY <2>1 DEF Outside
  <2> HIDE DEF p, q
  <2> DEFINE o == Here(c, i + 2, x, r, y, g, e)
  <2>3. ParseOutsideSysex(p)
        = IF is_data_byte(c[i + 2]) THEN ParseRunningStatus(o, <<c[i + 2]>>, t)
          ELSE ParseFullMessage(o, c[i + 2], t)
    BY <1>1, <2>2, OutsideTimestamp
  <2>4. ParseOutsideSysex(p) = ParseFullMessage(o, \hF0, t)
    BY <1>4, <2>3
  <2>5. ParseFullMessage(o, \hF0, t) = Inside(c, i + 2, RunAfter(r, \hF0), y, g, f)
    <3> HIDE DEF y, g, t
    <3>1. o = Here(c, i + 2, x, r, y, g, e)
      BY DEF o
    <3> HIDE DEF o
    <3> QED BY <3>1, FullStart
  <2> QED BY <1>4, <2>4, <2>5 DEF q
<1>6. q.read_pos = i + 2
  BY HerePositions
<1> HIDE DEF q, f, y, g, t
<1>7. Reach(c, q)
  BY <1>1, <1>5, <1>6, OutStep
<1>8. 0 \in Byte
  BY DEF Byte
<1>9. InAt(c, i + 2, 0, y, g, f)
  BY <1>1, <1>2, <1>3, <1>7, <1>8 DEF InAt, Known, q
<1> QED BY <1>9 DEF y, g, t, f

(* The end of a sysex message that the parser does not know of.            *)
LEMMA OutAtEnd ==
    ASSUME NEW c, NEW i, NEW r, NEW l, NEW h, NEW e, OutAt(c, i, r, l, h, e),
           i + 2 <= Len(c), c[i + 1] >= 128, c[i + 2] = \hF7
    PROVE  /\ ble_midi_parse_packet(c).events = e
           /\ ble_midi_parse_packet(c).rc = "INVALID_STATUS_BYTE"
<1> DEFINE y == c[i + 1]
           g == NextHigh(l, h, y)
           t == TimestampMs(g, y)
           p == Outside(c, i, r, l, h, e)
           a == RunAfter(r, \hF7)
<1>1. /\ c \in Seq(Byte) /\ i \in Nat /\ Len(c) \in Nat
      /\ i + 2 \in Nat /\ i < i + 2 /\ i + 1 \in 1 .. Len(c)
  BY DEF OutAt, Known
<1>2. message_size(\hF7) = 0 /\ ~is_data_byte(\hF7) /\ \hF7 # \hF0
  <2>1. 0 \in Byte
    BY DEF Byte
  <2> QED BY <2>1, MessageSizes DEF is_data_byte
<1>3. PICK x : x = FALSE
  OBVIOUS
<1>4. p = Here(c, i, x, r, l, h, e)
  BY <1>3 DEF Outside
<1> HIDE DEF a
<1> DEFINE o == Here(c, i + 2, x, r, y, g, e)
           q == Return(Here(c, i + 2, x, a, y, g, e), "INVALID_STATUS_BYTE")
<1>5. ParseOutsideSysex(p) = q
  <2> HIDE DEF p, q
  <2>3. ParseOutsideSysex(p)
        = IF is_data_byte(c[i + 2]) THEN ParseRunningStatus(o, <<c[i + 2]>>, t)
          ELSE ParseFullMessage(o, c[i + 2], t)
    BY <1>1, <1>4, OutsideTimestamp
  <2>4. ParseOutsideSysex(p) = ParseFullMessage(o, \hF7, t)
    BY <1>2, <2>3
  <2>5. ParseFullMessage(o, \hF7, t)
        = Return(Here(c, i + 2, x, a, y, g, e), "INVALID_STATUS_BYTE")
    <3> HIDE DEF y, g, t
    <3>1. o = Here(c, i + 2, x, r, y, g, e)
      BY DEF o
    <3> HIDE DEF o
    <3> QED BY <1>2, <3>1, FullInvalid DEF a
  <2> QED BY <2>4, <2>5 DEF q
<1>6. q.read_pos = i + 2 /\ q.events = e /\ q.rc = "INVALID_STATUS_BYTE"
  <2> HIDE DEF y, g
  <2> QED BY DEF Return, Here
<1> HIDE DEF q, y, g, t
<1>7. Reach(c, q)
  BY <1>1, <1>5, <1>6, OutStep
<1>8. ParseStep(q) = q
  BY <1>6, StepEnds
<1>9. ble_midi_parse_packet(c) = q
  BY <1>1, <1>6, <1>7, <1>8, ReachEnd
<1> QED BY <1>6, <1>9

(* The end of the packet.                                                  *)
LEMMA OutAtDone ==
    ASSUME NEW c, NEW r, NEW l, NEW h, NEW e, OutAt(c, Len(c), r, l, h, e)
    PROVE  ble_midi_parse_packet(c).events = e /\ ble_midi_parse_packet(c).rc = "SUCCESS"
<1> DEFINE p == Outside(c, Len(c), r, l, h, e)
<1>1. Len(c) \in Nat /\ Reach(c, p)
  BY DEF OutAt, Known
<1>2. p.read_pos = Len(c) /\ p.events = e /\ p.rc = "SUCCESS" /\ p.rx_buf = c
  BY DEF Outside, Here
<1> HIDE DEF p
<1>3. ParseStep(p) = p
  BY <1>1, <1>2, StepEnds
<1>4. ble_midi_parse_packet(c) = p
  BY <1>1, <1>2, <1>3, ReachEnd
<1> QED BY <1>2, <1>4

(* A packet that ends inside a sysex message.                              *)
LEMMA InAtDone ==
    ASSUME NEW c, NEW r, NEW l, NEW h, NEW e, InAt(c, Len(c), r, l, h, e)
    PROVE  ble_midi_parse_packet(c).events = e /\ ble_midi_parse_packet(c).rc = "SUCCESS"
<1> DEFINE p == Inside(c, Len(c), r, l, h, e)
<1>1. Len(c) \in Nat /\ Reach(c, p)
  BY DEF InAt, Known
<1>2. p.read_pos = Len(c) /\ p.events = e /\ p.rc = "SUCCESS" /\ p.rx_buf = c
  BY DEF Inside, Here
<1> HIDE DEF p
<1>3. ParseStep(p) = p
  BY <1>1, <1>2, StepEnds
<1>4. ble_midi_parse_packet(c) = p
  BY <1>1, <1>2, <1>3, ReachEnd
<1> QED BY <1>2, <1>4

(* A message under running status, without a timestamp.                    *)
LEMMA OutAtRunning ==
    ASSUME NEW c, NEW i, NEW r, NEW l, NEW h, NEW e, OutAt(c, i, r, l, h, e),
           NEW k \in Nat, message_size(r) = k + 2, i + 1 + k <= Len(c), c[i + 1] < 128
    PROVE  OutAt(c, i + 1 + k, r, l, h,
                 Append(e, MessageEvent(<<r>> \o <<c[i + 1]>> \o SubSeq(c, i + 2, i + 1 + k),
                                        TimestampMs(h, l))))
<1> DEFINE y == c[i + 1]
           t == TimestampMs(h, l)
           p == Outside(c, i, r, l, h, e)
           f == Append(e, MessageEvent(<<r>> \o <<y>> \o SubSeq(c, (i + 1) + 1, (i + 1) + k), t))
           q == Outside(c, (i + 1) + k, r, l, h, f)
<1>1. /\ c \in Seq(Byte) /\ i \in Nat /\ r \in Byte /\ l \in Byte /\ h \in 0 .. 63
      /\ i + 1 \in Nat /\ i < (i + 1) + k /\ i + 1 <= Len(c)
      /\ (i + 1) + k \in Nat /\ (i + 1) + k = i + 1 + k /\ (i + 1) + 1 = i + 2
      /\ (i + 1) + k <= Len(c)
  BY DEF OutAt, Known
<1>2. ParseOutsideSysex(p) = q
  <2>1. PICK x : x = FALSE
    OBVIOUS
  <2>2. p = Here(c, i, x, r, l, h, e) /\ q = Here(c, (i + 1) + k, x, r, l, h, f)
    BY <2>1 DEF Outside
  <2> HIDE DEF p, q
  <2> DEFINE o == Here(c, i + 1, x, r, l, h, e)
  <2>3. ParseOutsideSysex(p) = ParseRunningStatus(o, <<y>>, t)
    BY <1>1, <2>2, OutsideData
  <2>4. ParseRunningStatus(o, <<y>>, t) = Here(c, (i + 1) + k, x, r, l, h, f)
    <3>1. o = Here(c, i + 1, x, r, l, h, e)
      BY DEF o
    <3> HIDE DEF o, y, t
    <3> QED BY <1>1, <3>1, RunningMessage
  <2> QED BY <2>2, <2>3, <2>4
<1>3. q.read_pos = (i + 1) + k
  BY HerePositions
<1> HIDE DEF q, f, y, t
<1>4. Reach(c, q)
  BY <1>1, <1>2, <1>3, OutStep
<1>5. OutAt(c, (i + 1) + k, r, l, h, f)
  BY <1>1, <1>4 DEF OutAt, Known, q
<1> QED BY <1>1, <1>5 DEF y, t, f

(* A message under running status with a timestamp.                        *)
LEMMA OutAtRunningTimed ==
    ASSUME NEW c, NEW i, NEW r, NEW l, NEW h, NEW e, OutAt(c, i, r, l, h, e),
           NEW k \in Nat, message_size(r) = k + 2, i + 2 + k <= Len(c),
           c[i + 1] >= 128, c[i + 2] < 128
    PROVE  LET g == NextHigh(l, h, c[i + 1])
           IN  OutAt(c, i + 2 + k, r, c[i + 1], g,
                     Append(e, MessageEvent(<<r>> \o <<c[i + 2]>> \o SubSeq(c, i + 3, i + 2 + k),
                                            TimestampMs(g, c[i + 1]))))
<1> DEFINE y == c[i + 1]
           s == c[i + 2]
           g == NextHigh(l, h, y)
           t == TimestampMs(g, y)
           p == Outside(c, i, r, l, h, e)
           f == Append(e, MessageEvent(<<r>> \o <<s>> \o SubSeq(c, (i + 2) + 1, (i + 2) + k), t))
           q == Outside(c, (i + 2) + k, r, y, g, f)
<1>1. /\ c \in Seq(Byte) /\ i \in Nat /\ r \in Byte /\ l \in Byte /\ h \in 0 .. 63
      /\ i + 2 \in Nat /\ i < (i + 2) + k /\ i + 2 <= Len(c) /\ i + 1 \in 1 .. Len(c)
      /\ (i + 2) + k \in Nat /\ (i + 2) + k = i + 2 + k /\ (i + 2) + 1 = i + 3
      /\ (i + 2) + k <= Len(c)
  BY DEF OutAt, Known
<1>2. y \in Byte
  BY <1>1
<1>3. g \in 0 .. 63
  <2> HIDE DEF y
  <2> QED BY <1>1, <1>2, HighBits
<1>4. is_data_byte(s)
  BY DEF is_data_byte
<1>5. ParseOutsideSysex(p) = q
  <2>1. PICK x : x = FALSE
    OBVIOUS
  <2>2. p = Here(c, i, x, r, l, h, e) /\ q = Here(c, (i + 2) + k, x, r, y, g, f)
    BY <2>1 DEF Outside
  <2> HIDE DEF p, q
  <2> DEFINE o == Here(c, i + 2, x, r, y, g, e)
  <2>3. ParseOutsideSysex(p) = IF is_data_byte(s) THEN ParseRunningStatus(o, <<s>>, t)
                               ELSE ParseFullMessage(o, s, t)
    BY <1>1, <2>2, OutsideTimestamp
  <2>4. ParseOutsideSysex(p) = ParseRunningStatus(o, <<s>>, t)
    BY <1>4, <2>3
  <2>5. ParseRunningStatus(o, <<s>>, t) = Here(c, (i + 2) + k, x, r, y, g, f)
    <3>1. o = Here(c, i + 2, x, r, y, g, e)
      BY DEF o
    <3> HIDE DEF o, y, g, t, s
    <3> QED BY <1>1, <3>1, RunningMessage
  <2> QED BY <2>2, <2>4, <2>5
<1>6. q.read_pos = (i + 2) + k
  BY HerePositions
<1> HIDE DEF q, f, y, s, g, t
<1>7. Reach(c, q)
  BY <1>1, <1>5, <1>6, OutStep
<1>8. OutAt(c, (i + 2) + k, r, y, g, f)
  BY <1>1, <1>2, <1>3, <1>7 DEF OutAt, Known, q
<1> QED BY <1>1, <1>8 DEF y, s, g, t, f

-----------------------------------------------------------------------------
(* The header.                                                             *)
PlainHeader(c) ==
    is_sysex_continuation(c).rc = "SUCCESS" /\ is_sysex_continuation(c).is_sysex = FALSE
ContHeader(c) ==
    is_sysex_continuation(c).rc = "SUCCESS" /\ is_sysex_continuation(c).is_sysex = TRUE

(* A byte of a packet.                                                     *)
LEMMA ByteAt ==
    ASSUME NEW c \in Seq(Byte), NEW i \in 1 .. Len(c)
    PROVE  c[i] \in Byte /\ c[i] \in Int /\ 0 <= c[i] /\ c[i] <= 255
           /\ c[i] % 64 \in 0 .. 63
<1> DEFINE y == c[i]
<1>1. y \in Byte
  OBVIOUS
<1> HIDE DEF y
<1>2. y \in Int /\ 0 <= y /\ y <= 255 /\ y % 64 \in 0 .. 63
  BY <1>1 DEF Byte
<1> QED BY <1>1, <1>2 DEF y

(* The parser after the header byte.                                       *)
LEMMA AfterHeader ==
    ASSUME NEW c \in Seq(Byte), 1 <= Len(c), c[1] >= 128,
           is_sysex_continuation(c).rc = "SUCCESS", 
           NEW x, is_sysex_continuation(c).is_sysex = x
    PROVE  ParseHeader(c) = Here(c, 1, x, 0, 0, c[1] % 64, <<>>)
<1> DEFINE o == ParserOf(c)
           p == [o EXCEPT !.in_sysex_msg = x]
           q == [p EXCEPT !.read_pos = @ + 1]
           b == SubSeq(p.rx_buf, p.read_pos + 1, p.read_pos + 1)
<1>1. PICK z : z = FALSE
  OBVIOUS
<1>2. o = Here(c, 0, z, 0, 0, 0, <<>>)
  BY <1>1 DEF ParserOf, Here
<1> HIDE DEF o
<1>3. p = Here(c, 0, x, 0, 0, 0, <<>>)
  BY <1>2, HereSysex
<1> DEFINE y == c[1]
<1>4. /\ ReadResult(p, 1) = "SUCCESS" /\ q = Here(c, 1, x, 0, 0, 0, <<>>)
      /\ b = <<y>> /\ <<y>>[1] = y /\ y \in Byte
  <2> HIDE DEF p
  <2>1. PICK i \in Nat : i = 0
    OBVIOUS
  <2>2. i + 1 <= Len(c) /\ i + 1 = 1 /\ p = Here(c, i, x, 0, 0, 0, <<>>)
    BY <1>3, <2>1
  <2> HIDE DEF y
  <2>3. /\ ReadResult(p, 1) = "SUCCESS" /\ q = Here(c, i + 1, x, 0, 0, 0, <<>>)
        /\ b = <<c[i + 1]>> /\ <<c[i + 1]>>[1] = c[i + 1] /\ c[i + 1] \in Byte
    BY <2>2, HereByte
  <2> QED BY <2>2, <2>3 DEF y
<1>5. is_status_byte(y)
  BY <1>4 DEF is_status_byte, Byte
<1>6. ParseHeader(c) = [q EXCEPT !.timestamp_high_bits = b[1] % 64]
  BY <1>4, <1>5 DEF ParseHeader, ble_midi_parser_read, o
<1> HIDE DEF p, q, b, y
<1>7. [q EXCEPT !.timestamp_high_bits = y % 64] = Here(c, 1, x, 0, 0, y % 64, <<>>)
  BY <1>4, HereHigh
<1> QED BY <1>4, <1>6, <1>7 DEF y

(* After the header byte of a packet that goes on with a sysex message.    *)
LEMMA HeaderInside ==
    ASSUME NEW c \in Seq(Byte), 1 <= Len(c), c[1] >= 128, ContHeader(c)
    PROVE  InAt(c, 1, 0, 0, c[1] % 64, <<>>)
<1> DEFINE p == Inside(c, 1, 0, 0, c[1] % 64, <<>>)
<1>1. ParseHeader(c) = p
  <2>1. PICK x : x = TRUE
    OBVIOUS
  <2>2. is_sysex_continuation(c).rc = "SUCCESS" /\ is_sysex_continuation(c).is_sysex = x
    BY <2>1 DEF ContHeader
  <2>3. ParseHeader(c) = Here(c, 1, x, 0, 0, c[1] % 64, <<>>)
    BY <2>2, AfterHeader
  <2> QED BY <2>1, <2>3 DEF Inside
<1>2. p.read_pos = 1 /\ Len(c) \in Nat
  BY HerePositions
<1> HIDE DEF p
<1>3. Reach(c, p)
  BY <1>1, <1>2, ReachHeader
<1>4. 1 \in 1 .. Len(c) /\ 0 \in Byte /\ 1 \in Nat
  BY <1>2 DEF Byte
<1>5. c[1] % 64 \in 0 .. 63
  BY <1>4, ByteAt
<1> QED BY <1>3, <1>4, <1>5 DEF InAt, Known, p

(* After the header byte of any other packet.                              *)
LEMMA HeaderOutside ==
    ASSUME NEW c \in Seq(Byte), 1 <= Len(c), c[1] >= 128, PlainHeader(c)
    PROVE  OutAt(c, 1, 0, 0, c[1] % 64, <<>>)
<1> DEFINE p == Outside(c, 1, 0, 0, c[1] % 64, <<>>)
<1>1. ParseHeader(c) = p
  <2>1. PICK x : x = FALSE
    OBVIOUS
  <2>2. is_sysex_continuation(c).rc = "SUCCESS" /\ is_sysex_continuation(c).is_sysex = x
    BY <2>1 DEF PlainHeader
  <2>3. ParseHeader(c) = Here(c, 1, x, 0, 0, c[1] % 64, <<>>)
    BY <2>2, AfterHeader
  <2> QED BY <2>1, <2>3 DEF Outside
<1>2. p.read_pos = 1 /\ Len(c) \in Nat
  BY HerePositions
<1> HIDE DEF p
<1>3. Reach(c, p)
  BY <1>1, <1>2, ReachHeader
<1>4. 1 \in 1 .. Len(c) /\ 0 \in Byte /\ 1 \in Nat
  BY <1>2 DEF Byte
<1>5. c[1] % 64 \in 0 .. 63
  BY <1>4, ByteAt
<1> QED BY <1>3, <1>4, <1>5 DEF OutAt, Known, p

(* An error in the header.                                                 *)
LEMMA HeaderFails ==
    ASSUME NEW c, Len(c) \in Nat, is_sysex_continuation(c).rc # "SUCCESS"
    PROVE  /\ ble_midi_parse_packet(c).events = <<>>
           /\ ble_midi_parse_packet(c).rc # "SUCCESS"
<1> DEFINE o == [ParserOf(c) EXCEPT !.in_sysex_msg = is_sysex_continuation(c).is_sysex]
           p == Return(o, is_sysex_continuation(c).rc)
<1>1. ParseHeader(c) = p
  BY DEF ParseHeader
<1>2. p.events = <<>> /\ p.rc # "SUCCESS"
  BY DEF Return, ParserOf
<1> HIDE DEF p
<1>3. ParseStep(p) = p
  BY <1>2, StepEnds
<1>4. PICK f : Runs(f, c, Len(c)) /\ ble_midi_parse_packet(c) = f[Len(c)]
  BY ParseRuns
<1> DEFINE T == {i \in 0 .. Len(c) : f[i] # p}
<1>5. T = {}
  <2>1. SUFFICES ASSUME T # {} PROVE FALSE
    OBVIOUS
  <2>2. T \in SUBSET Nat
    OBVIOUS
  <2>3. PICK m \in T : \A j \in T : m <= j
    BY <2>1, <2>2, LeastNumber
  <2>4. m \in 0 .. Len(c) /\ f[m] # p
    OBVIOUS
  <2>5. m # 0
    BY <1>1, <1>4, <2>4 DEF Runs
  <2>6. m \in 1 .. Len(c) /\ m - 1 \in 0 .. Len(c) /\ ~(m <= m - 1)
    BY <2>4, <2>5
  <2>7. f[m - 1] = p
    BY <2>3, <2>6
  <2>8. f[m] = ParseStep(f[m - 1])
    BY <1>4, <2>6 DEF Runs
  <2> QED BY <1>3, <2>4, <2>7, <2>8
<1>6. Len(c) \in 0 .. Len(c)
  OBVIOUS
<1>7. ble_midi_parse_packet(c) = p
  BY <1>4, <1>5, <1>6
<1> QED BY <1>2, <1>7

-----------------------------------------------------------------------------
(* is_sysex_continuation.                                                  *)

(* The packet begins with k real time messages.                            *)
Realtimes(c, k) == k \in Nat /\ 2 * k + 1 <= Len(c) /\ \A j \in 0 .. k - 1 : RealtimeAt(c, j)

(* LeadingRealtime counts them.                                            *)
LEMMA LeadingIs ==
    ASSUME NEW c, Len(c) \in Nat, NEW k, Realtimes(c, k), ~RealtimeAt(c, k)
    PROVE  LeadingRealtime(c) = k
<1> DEFINE Is(n) == (\A j \in 0 .. n - 1 : RealtimeAt(c, j)) /\ ~RealtimeAt(c, n)
<1>1. k \in 0 .. Len(c) /\ Is(k)
  BY DEF Realtimes
<1>2. ASSUME NEW n \in 0 .. Len(c), Is(n) PROVE n = k
  <2>1. ~(n < k)
    BY <1>1, <1>2
  <2>2. ~(k < n)
    BY <1>1, <1>2
  <2> QED BY <1>1, <2>1, <2>2
<1>3. LeadingRealtime(c) = CHOOSE n \in 0 .. Len(c) : Is(n)
  BY DEF LeadingRealtime
<1> HIDE DEF Is
<1> QED BY <1>1, <1>2, <1>3

(* A data byte behind the header: the packet continues a sysex message.    *)
LEMMA ContinuationHeader ==
    ASSUME NEW c \in Seq(Byte), 2 <= Len(c), c[2] < 128
    PROVE  ContHeader(c)
<1>1. Realtimes(c, 0) /\ ~RealtimeAt(c, 0)
  <2>1. 2 * 0 + 2 = 2 /\ 2 \in 1 .. Len(c)
    OBVIOUS
  <2>2. ~(c[2] >= 128)
    BY <2>1, ByteAt
  <2> QED BY <2>1, <2>2 DEF Realtimes, RealtimeAt, is_status_byte
<1>2. LeadingRealtime(c) = 0
  BY <1>1, LeadingIs
<1>3. 2 * LeadingRealtime(c) + 2 = 2
  BY <1>2
<1>4. is_sysex_continuation(c) = [rc |-> "SUCCESS", is_sysex |-> TRUE]
  <2>1. Len(c) # 0 /\ ~(0 < Len(c) /\ Len(c) < 2)
    OBVIOUS
  <2>2. 2 \in 1 .. Len(c)
    OBVIOUS
  <2>3. ~(c[2] >= 128)
    BY <2>2, ByteAt
  <2>4. ~is_status_byte(c[2]) /\ is_data_byte(c[2])
    BY <2>3 DEF is_status_byte, is_data_byte
  <2> QED BY <1>3, <2>1, <2>4 DEF is_sysex_continuation
<1> QED BY <1>4 DEF ContHeader

(* Real time messages only.                                                *)
LEMMA RealtimeHeader ==
    ASSUME NEW c \in Seq(Byte), NEW k, Realtimes(c, k), Len(c) = 2 * k + 1
    PROVE  PlainHeader(c)
<1>1. k \in Nat /\ ~RealtimeAt(c, k)
  BY DEF Realtimes, RealtimeAt
<1>2. LeadingRealtime(c) = k
  BY <1>1, LeadingIs
<1>3. Len(c) # 0 /\ (0 < Len(c) /\ Len(c) < 2 * LeadingRealtime(c) + 2)
  BY <1>1, <1>2
<1>4. is_sysex_continuation(c) = [rc |-> "SUCCESS", is_sysex |-> FALSE]
  <2> DEFINE pos == 2 * LeadingRealtime(c) + 2
  <2>1. ~(pos <= Len(c)) /\ pos # Len(c)
    BY <1>1, <1>2
  <2> QED BY <1>3, <2>1 DEF is_sysex_continuation
<1> QED BY <1>4 DEF PlainHeader

(* Another message behind them.                                            *)
LEMMA MessageHeader ==
    ASSUME NEW c \in Seq(Byte), NEW k, Realtimes(c, k), 2 * k + 3 <= Len(c),
           c[2 * k + 2] >= 128, c[2 * k + 3] >= 128,
           ~is_realtime_message(c[2 * k + 3])
    PROVE  PlainHeader(c)
<1>1. k \in Nat /\ ~RealtimeAt(c, k)
  BY DEF Realtimes, RealtimeAt
<1>2. LeadingRealtime(c) = k
  BY <1>1, LeadingIs
<1> DEFINE pos == 2 * LeadingRealtime(c) + 2
<1>3. pos = 2 * k + 2 /\ pos + 1 = 2 * k + 3
  BY <1>1, <1>2
<1>4. pos \in 1 .. Len(c) /\ pos + 1 \in 1 .. Len(c)
  BY <1>1, <1>3
<1>5. c[pos] \in Int /\ c[pos + 1] \in Int
  <2> HIDE DEF pos
  <2> QED BY <1>4, ByteAt
<1>6. ~is_data_byte(c[pos]) /\ ~is_data_byte(c[pos + 1])
  BY <1>3, <1>5 DEF is_data_byte
<1>7. Len(c) # 0 /\ ~(0 < Len(c) /\ Len(c) < pos) /\ pos # Len(c)
  BY <1>4
<1>8. is_sysex_continuation(c) = [rc |-> "SUCCESS", is_sysex |-> FALSE]
  BY <1>6, <1>7 DEF is_sysex_continuation
<1> QED BY <1>8 DEF PlainHeader

-----------------------------------------------------------------------------
(* What a packet decodes to, whatever is appended to it later.             *)
Extends(c, b) == c \in Seq(Byte) /\ Len(b) <= Len(c) /\ \A i \in 1 .. Len(b) : c[i] = b[i]

(* The two kinds of packets: those that go on with a sysex message.        *)
HeaderIs(c, k) == IF k = "cont" THEN ContHeader(c) ELSE PlainHeader(c)

(* The two places of the parser.                                           *)
At(m, c, i, r, l, h, e) ==
    IF m = "in" THEN InAt(c, i, r, l, h, e) ELSE OutAt(c, i, r, l, h, e)

(* As a packet of kind k, the bytes b bring the parser to the place m.     *)
Decodes(b, k, m, r, l, h, e) ==
    \A c : Extends(c, b) /\ HeaderIs(c, k) => At(m, c, Len(b), r, l, h, e)

(* The header byte decodes to nothing.                                     *)
LEMMA DecodesHeader ==
    ASSUME NEW y \in Byte, y >= 128
    PROVE  /\ Decodes(<<y>>, "cont", "in", 0, 0, y % 64, <<>>)
           /\ Decodes(<<y>>, "plain", "out", 0, 0, y % 64, <<>>)
<1> DEFINE b == <<y>>
<1>1. Len(b) = 1 /\ b[1] = y
  OBVIOUS
<1> HIDE DEF b
<1>2. ASSUME NEW c, Extends(c, b)
      PROVE  c \in Seq(Byte) /\ 1 <= Len(c) /\ c[1] = y
  BY <1>1, <1>2 DEF Extends
<1>3. ASSUME NEW c, Extends(c, b), ContHeader(c) PROVE InAt(c, 1, 0, 0, y % 64, <<>>)
  BY <1>2, <1>3, HeaderInside
<1>4. ASSUME NEW c, Extends(c, b), PlainHeader(c) PROVE OutAt(c, 1, 0, 0, y % 64, <<>>)
  BY <1>2, <1>4, HeaderOutside
<1>5. Decodes(b, "cont", "in", 0, 0, y % 64, <<>>)
  BY <1>1, <1>3 DEF Decodes, HeaderIs, At
<1>6. Decodes(b, "plain", "out", 0, 0, y % 64, <<>>)
  BY <1>1, <1>4 DEF Decodes, HeaderIs, At
<1> QED BY <1>5, <1>6 DEF b

(* A packet extends what it is made of.                                    *)
LEMMA ExtendsParts ==
    ASSUME NEW b \in Seq(Byte), NEW d \in Seq(Byte), NEW c, Extends(c, b \o d)
    PROVE  /\ Extends(c, b)
           /\ Len(b \o d) = Len(b) + Len(d)
           /\ c \in Seq(Byte) /\ Len(b) + Len(d) <= Len(c)
           /\ \A j \in 1 .. Len(d) : c[Len(b) + j] = d[j]
<1> DEFINE f == b \o d
<1>1. /\ Len(f) = Len(b) + Len(d) /\ Len(b) \in Nat /\ Len(d) \in Nat
      /\ \A i \in 1 .. Len(b) : f[i] = b[i]
      /\ \A i \in 1 .. Len(d) : f[Len(b) + i] = d[i]
  <2>1. /\ Len(f) = Len(b) + Len(d)
        /\ \A i \in 1 .. Len(b) + Len(d) : f[i] = IF i <= Len(b) THEN b[i] ELSE d[i - Len(b)]
    BY ConcatProperties
  <2>2. Len(b) \in Nat /\ Len(d) \in Nat
    OBVIOUS
  <2> DEFINE n == Len(b)
             o == Len(d)
  <2>3. \A i \in 1 .. n : i \in 1 .. n + o /\ i <= n
    BY <2>2
  <2>4. \A i \in 1 .. o : n + i \in 1 .. n + o /\ ~(n + i <= n) /\ (n + i) - n = i
    BY <2>2
  <2> HIDE DEF f
  <2> QED BY <2>1, <2>2, <2>3, <2>4
<1> HIDE DEF f
<1>2. Extends(c, f)
  BY DEF f
<1>3. Extends(c, b)
  BY <1>1, <1>2 DEF Extends
<1>4. ASSUME NEW j \in 1 .. Len(d) PROVE c[Len(b) + j] = d[j]
  BY <1>1, <1>2 DEF Extends
<1> QED BY <1>1, <1>2, <1>3, <1>4 DEF Extends, f

(* The part of a packet that is d.                                         *)
LEMMA PartOf ==
    ASSUME NEW c \in Seq(Byte), NEW d \in Seq(Byte), NEW n \in Nat, n + Len(d) <= Len(c),
           \A j \in 1 .. Len(d) : c[n + j] = d[j]
    PROVE  SubSeq(c, n + 1, n + Len(d)) = d
<1> DEFINE u == SubSeq(c, n + 1, n + Len(d))
<1>1. n + 1 \in Int /\ n + Len(d) \in Int /\ 1 <= n + 1 /\ n + 1 <= (n + Len(d)) + 1
      /\ (n + Len(d)) - (n + 1) + 1 = Len(d)
  OBVIOUS
<1>2. /\ u \in Seq(Byte) /\ Len(u) = (n + Len(d)) - (n + 1) + 1
      /\ \A j \in 1 .. (n + Len(d)) - (n + 1) + 1 : u[j] = c[(n + 1) + j - 1]
  BY <1>1, SubSeqProperties
<1>3. \A j \in 1 .. Len(d) : (n + 1) + j - 1 = n + j
  OBVIOUS
<1>4. Len(u) = Len(d) /\ \A j \in 1 .. Len(u) : u[j] = d[j]
  <2> HIDE DEF u
  <2> QED BY <1>1, <1>2, <1>3
<1> HIDE DEF u
<1> QED BY <1>2, <1>4, SeqEqual DEF u

(* d is n bytes and then f.                                                *)
Ends(d, n, f) == Len(d) = n + Len(f) /\ \A j \in 1 .. Len(f) : d[n + j] = f[j]

(* A message with its timestamp and its status byte.                       *)
LEMMA DecodesFull ==
    ASSUME NEW b \in Seq(Byte), NEW k, NEW r, NEW l, NEW h, NEW e,
           Decodes(b, k, "out", r, l, h, e),
           NEW d \in Seq(Byte), NEW f \in Seq(Byte), Ends(d, 2, f),
           NEW y, y = d[1], NEW s, s = d[2],
           y >= 128, message_size(s) = Len(f) + 1,
           NEW g, g = NextHigh(l, h, y)
    PROVE  Decodes(b \o d, k, "out", RunAfter(r, s), y, g,
                   Append(e, MessageEvent(<<s>> \o f, TimestampMs(g, y))))
<1> SUFFICES ASSUME NEW c, Extends(c, b \o d), HeaderIs(c, k)
             PROVE  OutAt(c, Len(b \o d), RunAfter(r, s), y, g,
                          Append(e, MessageEvent(<<s>> \o f, TimestampMs(g, y))))
  BY DEF Decodes, At
<1> DEFINE i == Len(b)
           n == Len(f) + 1
<1>1. /\ Extends(c, b) /\ Len(b \o d) = i + Len(d) /\ c \in Seq(Byte)
      /\ i + Len(d) <= Len(c) /\ \A j \in 1 .. Len(d) : c[i + j] = d[j]
  BY ExtendsParts
<1>2. OutAt(c, i, r, l, h, e)
  BY <1>1 DEF Decodes, At
<1>3. i \in Nat /\ n \in Nat /\ Len(f) \in Nat /\ i + Len(d) = i + 1 + n /\ n # 0
      /\ 1 \in 1 .. Len(d) /\ 2 \in 1 .. Len(d)
  BY DEF Ends
<1>4. c[i + 1] = y /\ c[i + 2] = s
  BY <1>1, <1>3
<1>5. SubSeq(c, i + 3, i + 1 + n) = f
  <2>1. i + 2 \in Nat /\ (i + 2) + Len(f) <= Len(c) /\ (i + 2) + 1 = i + 3
        /\ (i + 2) + Len(f) = i + 1 + n
    BY <1>1, <1>3
  <2>2. ASSUME NEW j \in 1 .. Len(f) PROVE c[(i + 2) + j] = f[j]
    <3>1. 2 + j \in 1 .. Len(d) /\ (i + 2) + j = i + (2 + j)
      BY <1>3 DEF Ends
    <3> QED BY <1>1, <3>1 DEF Ends
  <2>3. SubSeq(c, (i + 2) + 1, (i + 2) + Len(f)) = f
    <3> HIDE DEF i
    <3> QED BY <1>1, <2>1, <2>2, PartOf
  <2> QED BY <2>1, <2>3
<1> HIDE DEF i, n
<1>6. n = message_size(c[i + 2]) /\ i + 1 + n <= Len(c) /\ c[i + 1] >= 128
  BY <1>1, <1>3, <1>4 DEF n
<1>7. LET g0 == NextHigh(l, h, c[i + 1])
      IN  OutAt(c, i + 1 + n, RunAfter(r, c[i + 2]), c[i + 1], g0,
                Append(e, MessageEvent(<<c[i + 2]>> \o SubSeq(c, i + 3, i + 1 + n),
                                       TimestampMs(g0, c[i + 1]))))
  BY <1>2, <1>3, <1>6, OutAtMessage
<1>8. OutAt(c, i + 1 + n, RunAfter(r, s), y, g,
            Append(e, MessageEvent(<<s>> \o f, TimestampMs(g, y))))
  BY <1>4, <1>5, <1>7
<1> QED BY <1>1, <1>3, <1>8

(* Concatenation of bytes is associative.                                  *)
LEMMA BytesAssociative ==
    ASSUME NEW a \in Seq(Byte), NEW b \in Seq(Byte), NEW c \in Seq(Byte)
    PROVE  (a \o b) \o c = a \o (b \o c)
BY ConcatAssociative

(* The packet c holds d behind i bytes.                                    *)
Holds(c, i, d) == i + Len(d) <= Len(c) /\ \A j \in 1 .. Len(d) : c[i + j] = d[j]

(* The message of a running status and n + 1 bytes of the packet.          *)
RunningBytes(c, i, n, r) == <<r>> \o <<c[i + 1]>> \o SubSeq(c, i + 2, i + 1 + n)

(* A message of a running status and the bytes d that follow i bytes.      *)
LEMMA StatusAndPart ==
    ASSUME NEW c \in Seq(Byte), NEW d \in Seq(Byte), NEW i \in Nat, NEW n \in Nat,
           Len(d) = n + 1, Holds(c, i, d), NEW r \in Byte
    PROVE  RunningBytes(c, i, n, r) = <<r>> \o d
<1> DEFINE f == SubSeq(c, i + 2, i + 1 + n)
           v == <<c[i + 1]>>
           o == <<r>>
<1>1. 1 \in 1 .. Len(d) /\ i + 1 \in 1 .. Len(c)
  BY DEF Holds
<1>2. c[i + 1] = d[1] /\ c[i + 1] \in Byte
  BY <1>1 DEF Holds
<1>3. f \in Seq(Byte) /\ Len(f) = n /\ \A j \in 1 .. n : f[j] = d[j + 1]
  <2>1. \A j \in i + 2 .. i + 1 + n : c[j] \in Byte
    BY DEF Holds
  <2>2. i + 2 \in Int /\ i + 1 + n \in Int
    OBVIOUS
  <2>3. /\ f \in Seq(Byte)
        /\ Len(f) = IF i + 2 <= i + 1 + n THEN (i + 1 + n) - (i + 2) + 1 ELSE 0
        /\ \A j \in 1 .. (i + 1 + n) - (i + 2) + 1 : f[j] = c[(i + 2) + j - 1]
    BY <2>1, <2>2, SubSeqProperties
  <2>4. (i + 1 + n) - (i + 2) + 1 = n /\ (i + 2 <= i + 1 + n <=> n # 0)
    OBVIOUS
  <2>5. Len(f) = n
    <3> HIDE DEF f
    <3> QED BY <2>3, <2>4
  <2>6. ASSUME NEW j \in 1 .. n PROVE f[j] = d[j + 1]
    <3>1. j + 1 \in 1 .. Len(d) /\ (i + 2) + j - 1 = i + (j + 1)
      OBVIOUS
    <3> HIDE DEF f
    <3> QED BY <2>3, <2>4, <3>1 DEF Holds
  <2> QED BY <2>3, <2>5, <2>6
<1>4. v \in Seq(Byte) /\ Len(v) = 1 /\ v[1] = d[1] /\ o \in Seq(Byte)
  BY <1>2
<1> HIDE DEF f, v, o
<1>5. /\ v \o f \in Seq(Byte) /\ Len(v \o f) = 1 + n
      /\ \A j \in 1 .. 1 + n : (v \o f)[j] = IF j <= 1 THEN v[j] ELSE f[j - 1]
  <2>1. /\ v \o f \in Seq(Byte) /\ Len(v \o f) = Len(v) + Len(f)
        /\ \A j \in 1 .. Len(v) + Len(f) :
              (v \o f)[j] = IF j <= Len(v) THEN v[j] ELSE f[j - Len(v)]
    <3>1. v \in Seq(Byte) /\ f \in Seq(Byte)
      BY <1>3, <1>4
    <3> QED BY <3>1, ConcatProperties
  <2> QED BY <1>3, <1>4, <2>1
<1>6. ASSUME NEW j \in 1 .. 1 + n PROVE (v \o f)[j] = d[j]
  <2>1. CASE j <= 1
    <3>1. j = 1
      BY <2>1
    <3> QED BY <1>4, <1>5, <3>1
  <2>2. CASE ~(j <= 1)
    <3>1. j - 1 \in 1 .. n /\ (j - 1) + 1 = j
      BY <2>2
    <3> QED BY <1>3, <1>5, <2>2, <3>1
  <2> QED BY <2>1, <2>2
<1>7. v \o f = d
  <2> DEFINE z == v \o f
  <2>1. z \in Seq(Byte) /\ Len(z) = Len(d) /\ \A j \in 1 .. Len(z) : z[j] = d[j]
    BY <1>5, <1>6
  <2> HIDE DEF z
  <2>2. z = d
    BY <2>1, SeqEqual
  <2> QED BY <2>2 DEF z
<1>8. (o \o v) \o f = o \o (v \o f)
  <2>1. o \in Seq(Byte) /\ v \in Seq(Byte) /\ f \in Seq(Byte)
    BY <1>3, <1>4
  <2> QED BY <2>1, BytesAssociative, SMTT(30)
<1> QED BY <1>7, <1>8 DEF v, o, f, RunningBytes

(* A message under running status, without a timestamp.                    *)
LEMMA DecodesRunning ==
    ASSUME NEW b \in Seq(Byte), NEW k, NEW r, NEW l, NEW h, NEW e,
           Decodes(b, k, "out", r, l, h, e),
           NEW d \in Seq(Byte), message_size(r) = Len(d) + 1, d # <<>>, d[1] < 128
    PROVE  Decodes(b \o d, k, "out", r, l, h,
                   Append(e, MessageEvent(<<r>> \o d, TimestampMs(h, l))))
<1> SUFFICES ASSUME NEW c, Extends(c, b \o d), HeaderIs(c, k)
             PROVE  OutAt(c, Len(b \o d), r, l, h,
                          Append(e, MessageEvent(<<r>> \o d, TimestampMs(h, l))))
  BY DEF Decodes, At
<1> DEFINE i == Len(b)
           n == Len(d) - 1
<1>1. /\ Extends(c, b) /\ Len(b \o d) = i + Len(d) /\ c \in Seq(Byte)
      /\ i + Len(d) <= Len(c) /\ \A j \in 1 .. Len(d) : c[i + j] = d[j]
  BY ExtendsParts
<1>2. OutAt(c, i, r, l, h, e)
  BY <1>1 DEF Decodes, At
<1>3. /\ i \in Nat /\ n \in Nat /\ i + Len(d) = i + 1 + n /\ message_size(r) = n + 2
      /\ 1 \in 1 .. Len(d) /\ Len(d) = n + 1
  OBVIOUS
<1>4. c[i + 1] = d[1]
  BY <1>1, <1>3
<1>5. r \in Byte
  BY <1>2 DEF OutAt, Known
<1> HIDE DEF i, n
<1>6. <<r>> \o <<c[i + 1]>> \o SubSeq(c, i + 2, i + 1 + n) = <<r>> \o d
  <2>1. Holds(c, i, d)
    BY <1>1 DEF Holds
  <2>2. c \in Seq(Byte) /\ i \in Nat /\ n \in Nat /\ Len(d) = n + 1
    BY <1>1, <1>3
  <2>3. RunningBytes(c, i, n, r) = <<r>> \o d
    BY <1>5, <2>1, <2>2, StatusAndPart
  <2> QED BY <2>3 DEF RunningBytes
<1>7. i + 1 + n <= Len(c) /\ c[i + 1] < 128
  BY <1>1, <1>3, <1>4
<1>8. OutAt(c, i + 1 + n, r, l, h,
            Append(e, MessageEvent(<<r>> \o <<c[i + 1]>> \o SubSeq(c, i + 2, i + 1 + n),
                                   TimestampMs(h, l))))
  BY <1>2, <1>3, <1>7, OutAtRunning
<1> QED BY <1>1, <1>3, <1>6, <1>8

(* With a timestamp.                                                       *)
LEMMA DecodesRunningTimed ==
    ASSUME NEW b \in Seq(Byte), NEW k, NEW r, NEW l, NEW h, NEW e,
           Decodes(b, k, "out", r, l, h, e),
           NEW d \in Seq(Byte), NEW f \in Seq(Byte), Ends(d, 1, f), NEW y, y = d[1],
           y >= 128, message_size(r) = Len(f) + 1, f # <<>>, f[1] < 128,
           NEW g, g = NextHigh(l, h, y)
    PROVE  Decodes(b \o d, k, "out", r, y, g,
                   Append(e, MessageEvent(<<r>> \o f, TimestampMs(g, y))))
<1> SUFFICES ASSUME NEW c, Extends(c, b \o d), HeaderIs(c, k)
             PROVE  OutAt(c, Len(b \o d), r, y, g,
                          Append(e, MessageEvent(<<r>> \o f, TimestampMs(g, y))))
  BY DEF Decodes, At
<1> DEFINE i == Len(b)
           n == Len(f) - 1
<1>1. /\ Extends(c, b) /\ Len(b \o d) = i + Len(d) /\ c \in Seq(Byte)
      /\ i + Len(d) <= Len(c) /\ \A j \in 1 .. Len(d) : c[i + j] = d[j]
  BY ExtendsParts
<1>2. OutAt(c, i, r, l, h, e)
  BY <1>1 DEF Decodes, At
<1>3. /\ i \in Nat /\ i + 1 \in Nat /\ n \in Nat /\ i + Len(d) = i + 2 + n
      /\ message_size(r) = n + 2 /\ 1 \in 1 .. Len(d) /\ 1 \in 1 .. Len(f)
      /\ Len(f) = n + 1 /\ (i + 1) + Len(f) = i + Len(d)
      /\ (i + 1) + 1 = i + 2 /\ (i + 1) + 2 = i + 3 /\ (i + 1) + 1 + n = i + 2 + n
  BY DEF Ends
<1>4. ASSUME NEW j \in 1 .. Len(f) PROVE c[(i + 1) + j] = f[j]
  <2>1. 1 + j \in 1 .. Len(d) /\ (i + 1) + j = i + (1 + j)
    BY <1>3 DEF Ends
  <2> QED BY <1>1, <2>1 DEF Ends
<1>5. r \in Byte
  BY <1>2 DEF OutAt, Known
<1> HIDE DEF i, n
<1>6. c[i + 1] = y /\ c[i + 2] = f[1]
  BY <1>1, <1>3, <1>4
<1>7. <<r>> \o <<c[(i + 1) + 1]>> \o SubSeq(c, (i + 1) + 2, (i + 1) + 1 + n) = <<r>> \o f
  <2>1. Holds(c, i + 1, f)
    BY <1>1, <1>3, <1>4 DEF Holds
  <2>2. c \in Seq(Byte) /\ i + 1 \in Nat /\ n \in Nat /\ Len(f) = n + 1
    BY <1>1, <1>3
  <2>3. RunningBytes(c, i + 1, n, r) = <<r>> \o f
    BY <1>5, <2>1, <2>2, StatusAndPart, SMTT(30)
  <2> QED BY <2>3 DEF RunningBytes
<1>8. i + 2 + n <= Len(c) /\ c[i + 1] >= 128 /\ c[i + 2] < 128
  BY <1>1, <1>3, <1>6
<1>9. LET g0 == NextHigh(l, h, c[i + 1])
      IN  OutAt(c, i + 2 + n, r, c[i + 1], g0,
                Append(e, MessageEvent(<<r>> \o <<c[i + 2]>> \o SubSeq(c, i + 3, i + 2 + n),
                                       TimestampMs(g0, c[i + 1]))))
  BY <1>2, <1>3, <1>8, OutAtRunningTimed
<1>10. <<r>> \o <<c[i + 2]>> \o SubSeq(c, i + 3, i + 2 + n) = <<r>> \o f
  BY <1>3, <1>7
<1>11. OutAt(c, i + 2 + n, r, y, g, Append(e, MessageEvent(<<r>> \o f, TimestampMs(g, y))))
  BY <1>6, <1>9, <1>10
<1> QED BY <1>1, <1>3, <1>11

(* Two bytes are appended.                                                 *)
LEMMA ExtendsTwo ==
    ASSUME NEW b \in Seq(Byte), NEW y \in Byte, NEW s \in Byte, NEW c,
           Extends(c, b \o <<y, s>>)
    PROVE  /\ Extends(c, b) /\ Len(b \o <<y, s>>) = Len(b) + 2
           /\ Len(b) + 2 <= Len(c) /\ c[Len(b) + 1] = y /\ c[Len(b) + 2] = s
<1> DEFINE d == <<y, s>>
<1>1. d \in Seq(Byte) /\ Len(d) = 2 /\ d[1] = y /\ d[2] = s
  OBVIOUS
<1> HIDE DEF d
<1>2. /\ Extends(c, b) /\ Len(b \o d) = Len(b) + Len(d) /\ c \in Seq(Byte)
      /\ Len(b) + Len(d) <= Len(c) /\ \A j \in 1 .. Len(d) : c[Len(b) + j] = d[j]
  <2>1. Extends(c, b \o d)
    BY DEF d
  <2>2. d \in Seq(Byte)
    BY <1>1
  <2> QED BY <2>1, <2>2, ExtendsParts
<1>3. 1 \in 1 .. Len(d) /\ 2 \in 1 .. Len(d)
  BY <1>1
<1> QED BY <1>1, <1>2, <1>3 DEF d

(* The start of a sysex message.                                           *)
LEMMA DecodesStart ==
    ASSUME NEW b \in Seq(Byte), NEW k, NEW r, NEW l, NEW h, NEW e,
           Decodes(b, k, "out", r, l, h, e), NEW y \in Byte, y >= 128,
           NEW g, g = NextHigh(l, h, y)
    PROVE  Decodes(b \o <<y, \hF0>>, k, "in", 0, y, g,
                   Append(e, StartEvent(TimestampMs(g, y))))
<1> DEFINE d == <<y, \hF0>>
<1>1. SUFFICES ASSUME NEW c, Extends(c, b \o d), HeaderIs(c, k)
               PROVE  InAt(c, Len(b \o d), 0, y, g, Append(e, StartEvent(TimestampMs(g, y))))
  BY DEF Decodes, At
<1>2. \hF0 \in Byte
  BY DEF Byte
<1>3. /\ Extends(c, b) /\ Len(b \o d) = Len(b) + 2 /\ Len(b) + 2 <= Len(c)
      /\ c[Len(b) + 1] = y /\ c[Len(b) + 2] = \hF0
  BY <1>1, <1>2, ExtendsTwo
<1>4. OutAt(c, Len(b), r, l, h, e)
  BY <1>1, <1>3 DEF Decodes, At
<1> HIDE DEF d
<1>5. InAt(c, Len(b) + 2, 0, y, g, Append(e, StartEvent(TimestampMs(g, y))))
  BY <1>3, <1>4, OutAtStart
<1> QED BY <1>3, <1>5

(* Its end.                                                                *)
LEMMA DecodesEnd ==
    ASSUME NEW b \in Seq(Byte), NEW k, NEW r, NEW l, NEW h, NEW e,
           Decodes(b, k, "in", r, l, h, e), NEW y \in Byte, y >= 128
    PROVE  Decodes(b \o <<y, \hF7>>, k, "out", r, l, h,
                   Append(e, EndEvent(TimestampMs(h, y))))
<1> DEFINE d == <<y, \hF7>>
<1>1. SUFFICES ASSUME NEW c, Extends(c, b \o d), HeaderIs(c, k)
               PROVE  OutAt(c, Len(b \o d), r, l, h, Append(e, EndEvent(TimestampMs(h, y))))
  BY DEF Decodes, At
<1>2. \hF7 \in Byte
  BY DEF Byte
<1>3. /\ Extends(c, b) /\ Len(b \o d) = Len(b) + 2 /\ Len(b) + 2 <= Len(c)
      /\ c[Len(b) + 1] = y /\ c[Len(b) + 2] = \hF7
  BY <1>1, <1>2, ExtendsTwo
<1>4. InAt(c, Len(b), r, l, h, e)
  BY <1>1, <1>3 DEF Decodes, At
<1> HIDE DEF d
<1>5. OutAt(c, Len(b) + 2, r, l, h, Append(e, EndEvent(TimestampMs(h, y))))
  BY <1>3, <1>4, InAtEnd
<1> QED BY <1>3, <1>5

(* A real time message inside a sysex message.                             *)
LEMMA DecodesRealtime ==
    ASSUME NEW b \in Seq(Byte), NEW k, NEW r, NEW l, NEW h, NEW e,
           Decodes(b, k, "in", r, l, h, e), NEW y \in Byte, y >= 128,
           NEW s \in Byte, is_realtime_message(s)
    PROVE  Decodes(b \o <<y, s>>, k, "in", r, l, h,
                   Append(e, MessageEvent(<<s>>, TimestampMs(h, y))))
<1> DEFINE d == <<y, s>>
<1>1. SUFFICES ASSUME NEW c, Extends(c, b \o d), HeaderIs(c, k)
               PROVE  InAt(c, Len(b \o d), r, l, h,
                           Append(e, MessageEvent(<<s>>, TimestampMs(h, y))))
  BY DEF Decodes, At
<1>3. /\ Extends(c, b) /\ Len(b \o d) = Len(b) + 2 /\ Len(b) + 2 <= Len(c)
      /\ c[Len(b) + 1] = y /\ c[Len(b) + 2] = s
  BY <1>1, ExtendsTwo
<1>4. InAt(c, Len(b), r, l, h, e)
  BY <1>1, <1>3 DEF Decodes, At
<1> HIDE DEF d
<1>5. InAt(c, Len(b) + 2, r, l, h, Append(e, MessageEvent(<<s>>, TimestampMs(h, y))))
  BY <1>3, <1>4, InAtRealtime
<1> QED BY <1>3, <1>5

(* A callback.                                                             *)
Event == [cb : {"midi_message_cb", "sysex_start_cb", "sysex_data_cb", "sysex_end_cb"},
          bytes : Seq(Byte), t : Nat]

(* The callbacks for the first n data bytes of d.                          *)
Datas(d, n) == [i \in 1 .. n |-> DataEvent(d[i])]

(* The callbacks have their type.                                          *)
LEMMA EventTypes ==
    ASSUME NEW t \in Nat
    PROVE  /\ \A m \in Seq(Byte) : MessageEvent(m, t) \in Event
           /\ StartEvent(t) \in Event /\ EndEvent(t) \in Event
           /\ \A x \in Byte : DataEvent(x) \in Event
<1>1. \A m \in Seq(Byte) : MessageEvent(m, t) \in Event
  BY DEF MessageEvent, Event
<1>2. <<>> \in Seq(Byte)
  OBVIOUS
<1>3. StartEvent(t) \in Event /\ EndEvent(t) \in Event
  BY <1>2 DEF StartEvent, EndEvent, Event
<1>4. \A x \in Byte : <<x>> \in Seq(Byte)
  OBVIOUS
<1>5. \A x \in Byte : DataEvent(x) \in Event
  BY <1>4 DEF DataEvent, Event
<1> QED BY <1>1, <1>3, <1>5

(* Those for data bytes too.                                               *)
LEMMA DatasType ==
    ASSUME NEW d \in Seq(Byte), NEW n \in 0 .. Len(d)
    PROVE  Datas(d, n) \in Seq(Event) /\ Len(Datas(d, n)) = n
           /\ \A i \in 1 .. n : Datas(d, n)[i] = DataEvent(d[i])
<1> DEFINE f == Datas(d, n)
<1>1. 0 \in Nat
  OBVIOUS
<1>2. \A i \in 1 .. n : DataEvent(d[i]) \in Event
  BY <1>1, EventTypes
<1>3. n \in Nat /\ f = [i \in 1 .. n |-> DataEvent(d[i])]
  BY DEF Datas
<1>4. f \in [1 .. n -> Event] /\ \A i \in 1 .. n : f[i] = DataEvent(d[i])
  BY <1>2, <1>3
<1> HIDE DEF f
<1>5. f \in Seq(Event) /\ Len(f) = n
  BY <1>3, <1>4
<1> QED BY <1>4, <1>5 DEF f

(* One more.                                                               *)
LEMMA DatasMore ==
    ASSUME NEW d \in Seq(Byte), NEW n \in Nat, n + 1 <= Len(d), NEW e \in Seq(Event)
    PROVE  e \o Datas(d, n + 1) = Append(e \o Datas(d, n), DataEvent(d[n + 1]))
<1> DEFINE f == Datas(d, n)
           g == Datas(d, n + 1)
           v == DataEvent(d[n + 1])
<1>1. n \in 0 .. Len(d) /\ n + 1 \in 0 .. Len(d) /\ n + 1 \in 1 .. Len(d) /\ 0 \in Nat
  OBVIOUS
<1>2. f \in Seq(Event) /\ Len(f) = n /\ \A i \in 1 .. n : f[i] = DataEvent(d[i])
  BY <1>1, DatasType
<1>3. /\ g \in Seq(Event) /\ Len(g) = n + 1
      /\ \A i \in 1 .. n + 1 : g[i] = DataEvent(d[i])
  BY <1>1, DatasType
<1>4. v \in Event
  <2>1. d[n + 1] \in Byte
    BY <1>1
  <2> QED BY <1>1, <2>1, EventTypes
<1>5. g[n + 1] = v /\ \A i \in 1 .. n : g[i] = f[i]
  BY <1>2, <1>3
<1> HIDE DEF f, g, v
<1>6. /\ e \o f \in Seq(Event) /\ Len(e \o f) = Len(e) + n
      /\ \A i \in 1 .. Len(e) + n : (e \o f)[i] = IF i <= Len(e) THEN e[i] ELSE f[i - Len(e)]
  BY <1>2, ConcatProperties
<1>7. /\ e \o g \in Seq(Event) /\ Len(e \o g) = Len(e) + (n + 1)
      /\ \A i \in 1 .. Len(e) + (n + 1) :
            (e \o g)[i] = IF i <= Len(e) THEN e[i] ELSE g[i - Len(e)]
  <2>1. g \in Seq(Event)
    BY <1>3
  <2>2. /\ e \o g \in Seq(Event) /\ Len(e \o g) = Len(e) + Len(g)
        /\ \A i \in 1 .. Len(e) + Len(g) :
              (e \o g)[i] = IF i <= Len(e) THEN e[i] ELSE g[i - Len(e)]
    BY <2>1, ConcatProperties
  <2>3. Len(g) = n + 1
    BY <1>3
  <2> QED BY <2>2, <2>3
<1> DEFINE x == e \o f
           y == e \o g
           z == Append(x, v)
<1> HIDE DEF x, y
<1>8. /\ x \in Seq(Event) /\ Len(x) = Len(e) + n /\ y \in Seq(Event)
      /\ Len(y) = Len(e) + (n + 1)
  BY <1>6, <1>7 DEF x, y
<1>9. /\ z \in Seq(Event) /\ Len(z) = Len(e) + (n + 1)
      /\ \A i \in 1 .. Len(e) + n : z[i] = x[i]
      /\ z[Len(e) + n + 1] = v
  BY <1>4, <1>8, AppendProperties, SMTT(30)
<1>10. ASSUME NEW i \in 1 .. Len(y) PROVE y[i] = z[i]
  <2>1. CASE i <= Len(e)
    <3>1. i \in 1 .. Len(e) + n /\ i \in 1 .. Len(e) + (n + 1)
      BY <1>8, <2>1
    <3>2. x[i] = e[i] /\ y[i] = e[i]
      BY <1>6, <1>7, <2>1, <3>1 DEF x, y
    <3> QED BY <1>9, <3>1, <3>2
  <2>2. CASE ~(i <= Len(e)) /\ i <= Len(e) + n
    <3>1. i \in 1 .. Len(e) + n /\ i \in 1 .. Len(e) + (n + 1) /\ i - Len(e) \in 1 .. n
      BY <1>8, <2>2
    <3>2. x[i] = f[i - Len(e)] /\ y[i] = g[i - Len(e)]
      BY <1>6, <1>7, <2>2, <3>1 DEF x, y
    <3> QED BY <1>5, <1>9, <3>1, <3>2
  <2>3. CASE i = Len(e) + n + 1
    <3>1. /\ i \in 1 .. Len(e) + (n + 1) /\ ~(i <= Len(e)) /\ i - Len(e) = n + 1
      BY <1>8, <2>3
    <3>2. y[i] = g[n + 1]
      BY <1>7, <3>1 DEF y
    <3> QED BY <1>5, <1>9, <2>3, <3>2
  <2>4. i <= Len(e) \/ (~(i <= Len(e)) /\ i <= Len(e) + n) \/ i = Len(e) + n + 1
    BY <1>8
  <2> QED BY <2>1, <2>2, <2>3, <2>4
<1>11. Len(y) = Len(z)
  BY <1>8, <1>9
<1> HIDE DEF z
<1>12. y = z
  BY <1>8, <1>9, <1>10, <1>11, SeqEqual
<1> QED BY <1>12 DEF x, y, z, f, g, v

(* No data bytes, no callbacks.                                            *)
LEMMA DatasNone == ASSUME NEW d, NEW e \in Seq(Event) PROVE e \o Datas(d, 0) = e
<1>1. Datas(d, 0) = <<>>
  BY DEF Datas
<1> QED BY <1>1, ConcatEmptySeq

(* The data bytes of a sysex message.                                      *)
LEMMA InAtDatas ==
    ASSUME NEW c \in Seq(Byte), NEW i \in Nat, NEW r, NEW l, NEW h, NEW e \in Seq(Event),
           InAt(c, i, r, l, h, e),
           NEW d \in Seq(Byte), Holds(c, i, d), \A j \in 1 .. Len(d) : d[j] < 128
    PROVE  \A n \in 0 .. Len(d) : InAt(c, i + n, r, l, h, e \o Datas(d, n))
<1> DEFINE P(n) == InAt(c, i + n, r, l, h, e \o Datas(d, n))
           T == {n \in 0 .. Len(d) : ~P(n)}
<1>1. SUFFICES ASSUME T # {} PROVE FALSE
  OBVIOUS
<1>2. T \in SUBSET Nat
  OBVIOUS
<1>3. PICK m \in T : \A k \in T : m <= k
  BY <1>1, <1>2, LeastNumber
<1>4. m \in 0 .. Len(d) /\ ~P(m)
  OBVIOUS
<1>5. P(0)
  <2>1. i + 0 = i
    OBVIOUS
  <2> QED BY <2>1, DatasNone
<1>6. m # 0
  BY <1>4, <1>5
<1> DEFINE n == m - 1
<1>7. n \in 0 .. Len(d) /\ n \in Nat /\ ~(m <= n) /\ n + 1 <= Len(d) /\ m = n + 1
      /\ n + 1 \in 1 .. Len(d)
  BY <1>4, <1>6
<1> HIDE DEF n
<1>8. P(n)
  <2> HIDE DEF P
  <2> QED BY <1>3, <1>7
<1>9. i + n + 1 <= Len(c) /\ c[i + n + 1] = d[n + 1] /\ i + n \in Nat /\ i + m = i + n + 1
  <2>1. i + (n + 1) <= Len(c) /\ c[i + (n + 1)] = d[n + 1]
    BY <1>7 DEF Holds
  <2>2. i + (n + 1) = i + n + 1 /\ i + n \in Nat /\ i + m = i + n + 1
    BY <1>7
  <2> QED BY <2>1, <2>2
<1>10. c[i + n + 1] < 128
  BY <1>7, <1>9
<1>11. InAt(c, i + n + 1, r, l, h, Append(e \o Datas(d, n), DataEvent(d[n + 1])))
  <2> DEFINE o == i + n
             f == e \o Datas(d, n)
  <2>1. InAt(c, o, r, l, h, f) /\ o + 1 <= Len(c) /\ c[o + 1] < 128
    BY <1>8, <1>9, <1>10
  <2> HIDE DEF o, f
  <2>2. InAt(c, o + 1, r, l, h, Append(f, DataEvent(c[o + 1])))
    BY <2>1, InAtData
  <2> QED BY <1>9, <2>2 DEF o, f
<1>12. e \o Datas(d, n + 1) = Append(e \o Datas(d, n), DataEvent(d[n + 1]))
  BY <1>7, DatasMore
<1>13. P(m)
  BY <1>7, <1>9, <1>11, <1>12
<1> QED BY <1>4, <1>13

(* Sysex data bytes at the end of a packet are decoded to themselves.      *)
LEMMA DecodesData ==
    ASSUME NEW b \in Seq(Byte), NEW k, NEW r, NEW l, NEW h, NEW e \in Seq(Event),
           Decodes(b, k, "in", r, l, h, e),
           NEW d \in Seq(Byte), \A j \in 1 .. Len(d) : d[j] < 128
    PROVE  Decodes(b \o d, k, "in", r, l, h, e \o Datas(d, Len(d)))
<1>1. SUFFICES ASSUME NEW c, Extends(c, b \o d), HeaderIs(c, k)
               PROVE  InAt(c, Len(b \o d), r, l, h, e \o Datas(d, Len(d)))
  BY DEF Decodes, At
<1>2. /\ Extends(c, b) /\ Len(b \o d) = Len(b) + Len(d) /\ c \in Seq(Byte)
      /\ Len(b) + Len(d) <= Len(c) /\ \A j \in 1 .. Len(d) : c[Len(b) + j] = d[j]
  BY <1>1, ExtendsParts
<1>3. InAt(c, Len(b), r, l, h, e)
  BY <1>1, <1>2 DEF Decodes, At
<1>4. Holds(c, Len(b), d)
  BY <1>2 DEF Holds
<1>5. Len(b) \in Nat /\ Len(d) \in 0 .. Len(d)
  OBVIOUS
<1>6. \A n \in 0 .. Len(d) : InAt(c, Len(b) + n, r, l, h, e \o Datas(d, n))
  BY <1>2, <1>3, <1>4, <1>5, InAtDatas
<1> QED BY <1>2, <1>5, <1>6

-----------------------------------------------------------------------------
(* What the writer appends for a message.                                  *)

(* The data bytes of a message.                                            *)
MessageData(m) == SubSeq(DataToSend(m), 1, message_size(m[1]) - 1)

(* A message that the writer accepts outside of a sysex message.           *)
Accepted(m) == m \in ThreeBytes /\ message_size(m[1]) # 0 /\ m[2] < 128 /\ m[3] < 128

(* What is sent of a message is what it means: a status byte and its data  *)
(* bytes.                                                                  *)
LEMMA MessageParts ==
    ASSUME NEW m, Accepted(m)
    PROVE  LET s == StatusToSend(m)
               f == MessageData(m)
           IN  /\ s \in Byte /\ s >= 128 /\ s # \hF0 /\ f \in Seq(Byte)
               /\ message_size(s) = Len(f) + 1
               /\ \A j \in 1 .. Len(f) : f[j] < 128
               /\ <<s>> \o f = Meaning(m)
<1> DEFINE s == StatusToSend(m)
           n == message_size(m[1])
           D == DataToSend(m)
           f == MessageData(m)
<1>1. /\ m[1] \in Byte /\ m[2] \in Byte /\ m[3] \in Byte /\ n # 0
      /\ m[2] < 128 /\ m[3] < 128
  BY DEF Accepted, ThreeBytes
<1>2. n \in 1 .. 3 /\ m[1] >= 128 /\ m[1] # \hF0
  <2>1. n \in 0 .. 3 /\ (m[1] < 128 => n = 0) /\ message_size(\hF0) = 0
    BY <1>1, MessageSizes
  <2>2. m[1] \in Int
    BY <1>1 DEF Byte
  <2>3. m[1] # \hF0
    BY <1>1, <2>1
  <2> QED BY <1>1, <2>1, <2>2, <2>3
<1>3. ASSUME NoteOffAsNoteOn(m)
      PROVE  s = m[1] + 16 /\ s \div 16 = 9 /\ s \in Byte /\ s >= 128 /\ s # \hF0
             /\ message_size(s) = 3 /\ n = 3
  <2> DEFINE a == m[1]
  <2>1. a \div 16 = 8 /\ a \in Byte
    BY <1>1, <1>3 DEF NoteOffAsNoteOn
  <2>2. s = 144 + (a % 16)
    BY <1>3 DEF StatusToSend
  <2> HIDE DEF a
  <2>3. a \in 128 .. 143 /\ 144 + (a % 16) = a + 16
    BY <2>1 DEF Byte
  <2>4. (a + 16) \div 16 = 9 /\ a + 16 \in Byte /\ a + 16 >= 128 /\ a + 16 # \hF0
    BY <2>3 DEF Byte
  <2> HIDE DEF s
  <2>5. s = a + 16 /\ s \div 16 = 9 /\ s \in Byte /\ s >= 128 /\ s # \hF0
    BY <2>2, <2>3, <2>4
  <2>6. message_size(s) = 3 /\ message_size(a) = 3
    <3>1. s \in 144 .. 159
      BY <2>3, <2>5
    <3> QED BY <2>1, <2>3, <2>5, <3>1 DEF message_size, is_realtime_message
  <2> QED BY <2>5, <2>6 DEF a
<1>4. ASSUME ~NoteOffAsNoteOn(m) PROVE s = m[1]
  BY <1>4 DEF StatusToSend
<1>5. s \in Byte /\ s >= 128 /\ s # \hF0 /\ message_size(s) = n
  BY <1>1, <1>2, <1>3, <1>4
<1>6. D \in Seq(Byte) /\ Len(D) = 2 /\ D[1] = m[2]
      /\ D[2] = (IF NoteOffAsNoteOn(m) THEN 0 ELSE m[3])
  <2>1. 0 \in Byte
    BY DEF Byte
  <2> QED BY <1>1, <2>1 DEF DataToSend
<1>7. D[2] \in Byte /\ D[2] < 128 /\ D[1] \in Byte /\ D[1] < 128
  <2>1. 0 \in Byte
    BY DEF Byte
  <2> QED BY <1>1, <1>6, <2>1
<1>8. f \in Seq(Byte) /\ Len(f) = n - 1 /\ \A j \in 1 .. n - 1 : f[j] = D[j]
  <2> DEFINE k == n - 1
  <2>1. k \in 0 .. 2
    BY <1>2
  <2>2. f = SubSeq(D, 1, k)
    BY DEF MessageData
  <2> HIDE DEF f, D, k
  <2>3. \A i \in 1 .. k : D[i] \in Byte
    BY <1>6, <2>1
  <2>4. 1 \in Int /\ k \in Int
    BY <2>1
  <2>5. /\ f \in Seq(Byte) /\ Len(f) = (IF 1 <= k THEN k - 1 + 1 ELSE 0)
        /\ \A i \in 1 .. k - 1 + 1 : f[i] = D[1 + i - 1]
    BY <2>2, <2>3, <2>4, SubSeqProperties
  <2>6. k - 1 + 1 = k /\ \A i \in 1 .. k : 1 + i - 1 = i
    BY <2>1
  <2>7. Len(f) = k /\ \A i \in 1 .. k : f[i] = D[i]
    BY <2>1, <2>5, <2>6
  <2> QED BY <2>5, <2>7 DEF k
<1>9. \A j \in 1 .. Len(f) : f[j] < 128
  <2> HIDE DEF f, D, n
  <2>1. ASSUME NEW j \in 1 .. Len(f) PROVE f[j] < 128
    <3>1. j \in 1 .. n - 1 /\ (j = 1 \/ j = 2)
      BY <1>2, <1>8
    <3> QED BY <1>7, <1>8, <3>1
  <2> QED BY <2>1
<1>10. <<s>> \o f = Meaning(m)
  <2> DEFINE v == <<s>>
             u == v \o f
             M == Meaning(m)
  <2>1. v \in Seq(Byte) /\ Len(v) = 1 /\ v[1] = s
    BY <1>5
  <2>2. u \in Seq(Byte) /\ Len(u) = n /\ u[1] = s /\ \A j \in 2 .. n : u[j] = D[j - 1]
    <3> HIDE DEF v, f, s, D, n
    <3>1. f \in Seq(Byte) /\ v \in Seq(Byte)
      BY <1>8, <2>1
    <3>2. /\ u \in Seq(Byte) /\ Len(u) = Len(v) + Len(f)
          /\ \A j \in 1 .. Len(v) + Len(f) : u[j] = IF j <= Len(v) THEN v[j] ELSE f[j - Len(v)]
      BY <3>1, ConcatProperties
    <3> HIDE DEF u
    <3>3. Len(u) = n /\ 1 \in 1 .. n /\ \A j \in 1 .. n : u[j] = IF j <= 1 THEN v[j] ELSE f[j - 1]
      BY <1>2, <1>8, <2>1, <3>2
    <3>4. u[1] = s
      BY <2>1, <3>3
    <3>5. ASSUME NEW j \in 2 .. n PROVE u[j] = D[j - 1]
      <4>1. j \in 1 .. n /\ ~(j <= 1) /\ j - 1 \in 1 .. n - 1
        BY <1>2
      <4> QED BY <1>8, <3>3, <4>1
    <3> QED BY <3>2, <3>3, <3>4, <3>5
  <2>3. M \in Seq(Byte) /\ Len(M) = n /\ M[1] = s /\ \A j \in 2 .. n : M[j] = D[j - 1]
    <3>1. CASE NoteOffAsNoteOn(m)
      <4>1. M = <<m[1] + 16, m[2], 0>>
        BY <3>1 DEF Meaning, NoteOffAsNoteOn
      <4>2. s = m[1] + 16 /\ n = 3 /\ s \in Byte
        BY <1>3, <3>1
      <4>3. 0 \in Byte
        BY DEF Byte
      <4>4. M = <<s, m[2], 0>>
        BY <4>1, <4>2
      <4> HIDE DEF M, s, D, n
      <4>5. M \in Seq(Byte) /\ Len(M) = 3 /\ M[1] = s /\ M[2] = m[2] /\ M[3] = 0
        BY <1>1, <4>2, <4>3, <4>4
      <4>6. D[1] = m[2] /\ D[2] = 0
        BY <1>6, <3>1
      <4>7. ASSUME NEW j \in 2 .. n PROVE M[j] = D[j - 1]
        <5>1. (j = 2 /\ j - 1 = 1) \/ (j = 3 /\ j - 1 = 2)
          BY <4>2
        <5> QED BY <4>5, <4>6, <5>1
      <4> QED BY <4>2, <4>5, <4>7
    <3>2. CASE ~NoteOffAsNoteOn(m)
      <4>1. M = SubSeq(m, 1, n)
        BY <3>2 DEF Meaning, NoteOffAsNoteOn
      <4>2. \A i \in 1 .. n : m[i] \in Byte
        <5> HIDE DEF n
        <5> QED BY <1>1, <1>2
      <4> HIDE DEF M, n
      <4>3. 1 \in Int /\ n \in Int
        BY <1>2
      <4>4. /\ M \in Seq(Byte) /\ Len(M) = (IF 1 <= n THEN n - 1 + 1 ELSE 0)
            /\ \A i \in 1 .. n - 1 + 1 : M[i] = m[1 + i - 1]
        BY <4>1, <4>2, <4>3, SubSeqProperties
      <4>5. n - 1 + 1 = n /\ 1 <= n /\ \A i \in 1 .. n : 1 + i - 1 = i
        BY <1>2
      <4>6. Len(M) = n /\ \A i \in 1 .. n : M[i] = m[i]
        BY <4>4, <4>5
      <4>7. s = m[1] /\ D[1] = m[2] /\ D[2] = m[3]
        BY <1>4, <1>6, <3>2
      <4> HIDE DEF s, D
      <4>8. M[1] = s
        BY <1>2, <4>6, <4>7
      <4>9. ASSUME NEW j \in 2 .. n PROVE M[j] = D[j - 1]
        <5>1. (j = 2 /\ j - 1 = 1) \/ (j = 3 /\ j - 1 = 2)
          BY <1>2
        <5>2. j \in 1 .. n
          BY <1>2
        <5> QED BY <4>6, <4>7, <5>1, <5>2
      <4> QED BY <4>4, <4>6, <4>8, <4>9
    <3> QED BY <3>1, <3>2
  <2> HIDE DEF u, M, D, n, s
  <2>4. ASSUME NEW j \in 1 .. Len(u) PROVE u[j] = M[j]
    <3>1. j = 1 \/ j \in 2 .. n
      BY <1>2, <2>2
    <3> QED BY <2>2, <2>3, <3>1
  <2>5. u = M
    BY <2>2, <2>3, <2>4, SeqEqual
  <2> QED BY <2>5 DEF u, M, s
<1>11. message_size(s) = Len(f) + 1
  <2> HIDE DEF f, n, s
  <2> QED BY <1>2, <1>5, <1>8
<1> QED BY <1>5, <1>8, <1>9, <1>10, <1>11

(* The packet with its header byte.                                        *)
Opened(w, t) == IF w.tx_buf = <<>> THEN <<header_byte(t)>> ELSE w.tx_buf

(* What follows: timestamp?, status?, data bytes.                          *)
MessageTail(w, m, t) ==
       (IF SkipTimestamp(w, m, t)  THEN <<>> ELSE <<timestamp_byte(t)>>)
    \o (IF SkipStatusByte(w, m)    THEN <<>> ELSE <<StatusToSend(m)>>)
    \o MessageData(m)

(* It is not empty.                                                        *)
LEMMA OpenedType ==
    ASSUME NEW w \in Writer, NEW t \in Timestamp
    PROVE  Opened(w, t) \in Seq(Byte) /\ Opened(w, t) # <<>>
<1>1. header_byte(t) \in Byte
  BY TimestampBytes DEF Byte
<1>2. w.tx_buf \in Seq(Byte)
  BY DEF Writer
<1>3. <<header_byte(t)>> \in Seq(Byte) /\ <<header_byte(t)>> # <<>>
  BY <1>1
<1> QED BY <1>2, <1>3 DEF Opened

(* Equations between concatenations, as formulas with a name.              *)
Assoc(a, b, c) == (a \o b) \o c = a \o (b \o c)
AssocFour(a, b, c, d, e) == a \o (((b \o c) \o d) \o e) = (a \o b) \o ((c \o d) \o e)

(* They hold for bytes.                                                    *)
LEMMA BytesAssoc ==
    ASSUME NEW a \in Seq(Byte), NEW b \in Seq(Byte), NEW c \in Seq(Byte)
    PROVE  Assoc(a, b, c)
BY ConcatAssociative DEF Assoc

(* The same for five parts.                                                *)
LEMMA AssociateFour ==
    ASSUME NEW a \in Seq(Byte), NEW b \in Seq(Byte), NEW c \in Seq(Byte),
           NEW d \in Seq(Byte), NEW e \in Seq(Byte)
    PROVE  AssocFour(a, b, c, d, e)
<1>1. /\ b \o c \in Seq(Byte) /\ c \o d \in Seq(Byte) /\ a \o b \in Seq(Byte)
      /\ (c \o d) \o e \in Seq(Byte) /\ (b \o c) \o d \in Seq(Byte)
  OBVIOUS
<1>2. (b \o c) \o d = b \o (c \o d)
  BY BytesAssociative, SMTT(30)
<1> DEFINE x == c \o d
           y == x \o e
<1>3. x \in Seq(Byte) /\ y \in Seq(Byte)
  BY <1>1
<1> HIDE DEF x
<1>4. (b \o x) \o e = b \o (x \o e)
  BY <1>3, BytesAssociative, SMTT(30)
<1> HIDE DEF y
<1>5. Assoc(a, b, y)
  BY <1>3, BytesAssoc
<1> QED BY <1>2, <1>4, <1>5 DEF x, y, Assoc, AssocFour

(* The bytes the writer appends for a message, as the header byte and what *)
(* follows.                                                                *)
LEMMA MessageAppended ==
    ASSUME NEW w \in Writer, NEW m, Accepted(m), NEW t \in Timestamp
    PROVE  /\ w.tx_buf \o MessageBytes(w, m, t) = Opened(w, t) \o MessageTail(w, m, t)
           /\ MessageTail(w, m, t) \in Seq(Byte)
<1> DEFINE H == IF w.tx_buf = <<>> THEN <<header_byte(t)>> ELSE <<>>
           T == IF SkipTimestamp(w, m, t) THEN <<>> ELSE <<timestamp_byte(t)>>
           S == IF SkipStatusByte(w, m) THEN <<>> ELSE <<StatusToSend(m)>>
           F == MessageData(m)
           a == w.tx_buf
<1>1. header_byte(t) \in Byte /\ timestamp_byte(t) \in Byte
  BY TimestampBytes DEF Byte
<1>2. StatusToSend(m) \in Byte /\ F \in Seq(Byte)
  BY MessageParts
<1>3. H \in Seq(Byte) /\ T \in Seq(Byte) /\ S \in Seq(Byte) /\ a \in Seq(Byte)
  BY <1>1, <1>2 DEF Writer
<1>4. MessageBytes(w, m, t) = ((H \o T) \o S) \o F /\ MessageTail(w, m, t) = (T \o S) \o F
  BY DEF MessageBytes, MessageTail, MessageData
<1>5. a \o H = Opened(w, t)
  <2>1. CASE a = <<>>
    <3>1. H = <<header_byte(t)>> /\ Opened(w, t) = <<header_byte(t)>>
      BY <2>1 DEF Opened
    <3> HIDE DEF H, a
    <3>2. <<>> \o H = H
      BY <1>3, ConcatEmptySeq
    <3> QED BY <2>1, <3>1, <3>2
  <2>2. CASE a # <<>>
    <3>1. H = <<>> /\ Opened(w, t) = a
      BY <2>2 DEF Opened
    <3> HIDE DEF H, a
    <3>2. a \o <<>> = a
      BY <1>3, ConcatEmptySeq
    <3> QED BY <3>1, <3>2
  <2> QED BY <2>1, <2>2
<1> HIDE DEF H, T, S, F, a
<1>6. a \o (((H \o T) \o S) \o F) = (a \o H) \o ((T \o S) \o F)
  <2>1. /\ a \in Seq(Byte) /\ H \in Seq(Byte) /\ T \in Seq(Byte) /\ S \in Seq(Byte)
        /\ F \in Seq(Byte)
    BY <1>2, <1>3
  <2>2. AssocFour(a, H, T, S, F)
    BY <2>1, AssociateFour
  <2> QED BY <2>2 DEF AssocFour
<1>7. (T \o S) \o F \in Seq(Byte)
  BY <1>2, <1>3
<1>8. a \o MessageBytes(w, m, t) = Opened(w, t) \o MessageTail(w, m, t)
  BY <1>4, <1>5, <1>6
<1> QED BY <1>4, <1>7, <1>8 DEF a

(* A byte before a sequence.                                               *)
LEMMA ByteBefore ==
    ASSUME NEW y \in Byte, NEW f \in Seq(Byte), NEW d, d = <<y>> \o f
    PROVE  d \in Seq(Byte) /\ d[1] = y /\ Ends(d, 1, f)
<1> DEFINE v == <<y>>
<1>1. v \in Seq(Byte) /\ Len(v) = 1 /\ v[1] = y
  OBVIOUS
<1>2. d = v \o f
  OBVIOUS
<1> HIDE DEF v
<1>3. /\ d \in Seq(Byte) /\ Len(d) = Len(v) + Len(f)
      /\ \A j \in 1 .. Len(v) + Len(f) : d[j] = IF j <= Len(v) THEN v[j] ELSE f[j - Len(v)]
  <2>1. v \in Seq(Byte)
    BY <1>1
  <2> QED BY <1>2, <2>1, ConcatProperties
<1>4. Len(d) = 1 + Len(f) /\ d[1] = y
  BY <1>1, <1>3
<1>5. ASSUME NEW j \in 1 .. Len(f) PROVE d[1 + j] = f[j]
  <2>1. 1 + j \in 1 .. 1 + Len(f) /\ ~(1 + j <= 1) /\ (1 + j) - 1 = j
    OBVIOUS
  <2> QED BY <1>1, <1>3, <2>1
<1> QED BY <1>3, <1>4, <1>5 DEF Ends

(* Two bytes before others.                                                *)
LEMMA BytesBefore ==
    ASSUME NEW y \in Byte, NEW s \in Byte, NEW f \in Seq(Byte), NEW d,
           d = (<<y>> \o <<s>>) \o f
    PROVE  d \in Seq(Byte) /\ d[1] = y /\ d[2] = s /\ Ends(d, 2, f)
<1> DEFINE a == <<y>>
           b == <<s>>
           g == b \o f
<1>1. a \in Seq(Byte) /\ b \in Seq(Byte)
  OBVIOUS
<1>2. g \in Seq(Byte) /\ g[1] = s /\ Ends(g, 1, f)
  <2>1. g = <<s>> \o f
    OBVIOUS
  <2> HIDE DEF g
  <2> QED BY <2>1, ByteBefore
<1>3. d = a \o g
  <2>1. d = (a \o b) \o f
    OBVIOUS
  <2> HIDE DEF a, b
  <2>2. (a \o b) \o f = a \o (b \o f)
    BY <1>1, BytesAssociative
  <2> QED BY <2>1, <2>2
<1> HIDE DEF g, b
<1>4. d \in Seq(Byte) /\ d[1] = y /\ Ends(d, 1, g)
  <2>1. d = <<y>> \o g
    BY <1>3
  <2> QED BY <1>2, <2>1, ByteBefore
<1> HIDE DEF a
<1>5. Len(g) = 1 + Len(f) /\ Len(d) = 1 + Len(g) /\ Len(f) \in Nat
  BY <1>2, <1>4 DEF Ends
<1>6. d[2] = s
  <2>1. 1 \in 1 .. Len(g) /\ 1 + 1 = 2
    BY <1>5
  <2>2. d[1 + 1] = g[1]
    BY <1>4, <2>1 DEF Ends
  <2> QED BY <1>2, <2>1, <2>2
<1>7. ASSUME NEW j \in 1 .. Len(f) PROVE d[2 + j] = f[j]
  <2>1. 1 + j \in 1 .. Len(g) /\ 2 + j = 1 + (1 + j)
    BY <1>5
  <2>2. d[1 + (1 + j)] = g[1 + j]
    BY <1>4, <2>1 DEF Ends
  <2>3. g[1 + j] = f[j]
    BY <1>2 DEF Ends
  <2> QED BY <2>1, <2>2, <2>3
<1>8. Len(d) = 2 + Len(f)
  BY <1>5
<1> QED BY <1>4, <1>6, <1>7, <1>8 DEF Ends

(* The three forms of a message.                                           *)
LEMMA TailForms ==
    ASSUME NEW w \in Writer, NEW m, Accepted(m), NEW t \in Timestamp, NEW d,
           d = MessageTail(w, m, t)
    PROVE  /\ ~SkipStatusByte(w, m) =>
                 /\ d \in Seq(Byte) /\ d[1] = timestamp_byte(t)
                 /\ d[2] = StatusToSend(m) /\ Ends(d, 2, MessageData(m))
           /\ SkipStatusByte(w, m) /\ ~SkipTimestamp(w, m, t) =>
                 /\ d \in Seq(Byte) /\ d[1] = timestamp_byte(t)
                 /\ Ends(d, 1, MessageData(m))
           /\ SkipStatusByte(w, m) /\ SkipTimestamp(w, m, t) => d = MessageData(m)
<1> DEFINE y == timestamp_byte(t)
           s == StatusToSend(m)
           f == MessageData(m)
<1>1. y \in Byte /\ s \in Byte /\ f \in Seq(Byte)
  <2>1. y \in Byte
    BY TimestampBytes DEF Byte
  <2> QED BY <2>1, MessageParts
<1>2. ASSUME ~SkipStatusByte(w, m)
      PROVE  d \in Seq(Byte) /\ d[1] = y /\ d[2] = s /\ Ends(d, 2, f)
  <2>1. ~SkipTimestamp(w, m, t)
    BY <1>2 DEF SkipTimestamp
  <2>2. d = (<<y>> \o <<s>>) \o f
    BY <1>2, <2>1 DEF MessageTail
  <2> HIDE DEF y, s, f
  <2> QED BY <1>1, <2>2, BytesBefore
<1>3. ASSUME SkipStatusByte(w, m), ~SkipTimestamp(w, m, t)
      PROVE  d \in Seq(Byte) /\ d[1] = y /\ Ends(d, 1, f)
  <2>1. d = (<<y>> \o <<>>) \o f
    BY <1>3 DEF MessageTail
  <2>2. <<y>> \o <<>> = <<y>>
    BY <1>1
  <2> HIDE DEF y, f
  <2>3. d = <<y>> \o f
    BY <2>1, <2>2
  <2> QED BY <1>1, <2>3, ByteBefore
<1>4. ASSUME SkipStatusByte(w, m), SkipTimestamp(w, m, t)
      PROVE  d = f
  <2>1. d = (<<>> \o <<>>) \o f
    BY <1>4 DEF MessageTail
  <2>2. <<>> \o <<>> = <<>>
    OBVIOUS
  <2> HIDE DEF f
  <2>3. <<>> \o f = f
    BY <1>1, ConcatEmptySeq
  <2> QED BY <2>1, <2>2, <2>3
<1> QED BY <1>2, <1>3, <1>4

(* A message that the writer adds outside of a sysex message decodes to    *)
(* what it means.                                                          *)
LEMMA MessageDecodes ==
    ASSUME NEW w \in Writer, NEW m, Accepted(m), NEW t \in Timestamp,
           NEW k, NEW r \in Byte, NEW l, NEW h, NEW e,
           Decodes(Opened(w, t), k, "out", r, l, h, e),
           w.prev_running_status_byte # 0 => r = w.prev_running_status_byte
    PROVE  \E a \in Byte :
              /\ RunningStatusAfter(w, m) # 0 => a = RunningStatusAfter(w, m)
              /\ ~SkipTimestamp(w, m, t) =>
                    LET y == timestamp_byte(t)
                        g == NextHigh(l, h, y)
                    IN  Decodes(Opened(w, t) \o MessageTail(w, m, t), k, "out", a, y, g,
                                Append(e, MessageEvent(Meaning(m), TimestampMs(g, y))))
              /\ SkipTimestamp(w, m, t) =>
                    Decodes(Opened(w, t) \o MessageTail(w, m, t), k, "out", a, l, h,
                            Append(e, MessageEvent(Meaning(m), TimestampMs(h, l))))
<1> DEFINE b == Opened(w, t)
           d == MessageTail(w, m, t)
           s == StatusToSend(m)
           f == MessageData(m)
           y == timestamp_byte(t)
           g == NextHigh(l, h, y)
           M == Meaning(m)
<1>1. /\ s \in Byte /\ f \in Seq(Byte) /\ message_size(s) = Len(f) + 1
      /\ \A j \in 1 .. Len(f) : f[j] < 128
      /\ <<s>> \o f = M
  BY MessageParts
<1>2. /\ ~SkipStatusByte(w, m) =>
            d \in Seq(Byte) /\ d[1] = y /\ d[2] = s /\ Ends(d, 2, f)
      /\ SkipStatusByte(w, m) /\ ~SkipTimestamp(w, m, t) =>
            d \in Seq(Byte) /\ d[1] = y /\ Ends(d, 1, f)
      /\ SkipStatusByte(w, m) /\ SkipTimestamp(w, m, t) => d = f
  BY TailForms
<1>3. b \in Seq(Byte)
  BY OpenedType
<1>4. y >= 128
  BY TimestampBytes
<1>5. w.prev_running_status_byte \in Byte
  BY DEF Writer
<1>6. Decodes(b, k, "out", r, l, h, e)
  OBVIOUS
<1>7. CASE ~SkipStatusByte(w, m)
  <2> DEFINE a == RunAfter(r, s)
  <2>1. a \in Byte
    <3>1. 0 \in Byte
      BY DEF Byte
    <3> QED BY <1>1, <3>1 DEF RunAfter
  <2>2. RunningStatusAfter(w, m) # 0 => a = RunningStatusAfter(w, m)
    BY DEF RunningStatusAfter, RunAfter
  <2>3. ~SkipTimestamp(w, m, t)
    BY <1>7 DEF SkipTimestamp
  <2>4. d \in Seq(Byte) /\ d[1] = y /\ d[2] = s /\ Ends(d, 2, f)
    BY <1>2, <1>7
  <2> HIDE DEF b, d, s, f, y, g, M
  <2>5. g = NextHigh(l, h, y) /\ y = d[1] /\ s = d[2]
    BY <2>4 DEF g
  <2>6. Decodes(b \o d, k, "out", a, y, g,
                Append(e, MessageEvent(<<s>> \o f, TimestampMs(g, y))))
    BY <1>1, <1>3, <1>4, <1>6, <2>4, <2>5, DecodesFull
  <2>7. Decodes(b \o d, k, "out", a, y, g, Append(e, MessageEvent(M, TimestampMs(g, y))))
    BY <1>1, <2>6
  <2> HIDE DEF a
  <2> QED BY <2>1, <2>2, <2>3, <2>7 DEF b, d, y, g, M
<1>8. CASE SkipStatusByte(w, m)
  <2>1. s = w.prev_running_status_byte /\ is_channel_message(s)
    BY <1>8 DEF SkipStatusByte
  <2> HIDE DEF b, d, s, f, y, g, M
  <2>2. message_size(s) \in {2, 3} /\ s >= 128
    BY <1>1, <2>1, MessageSizes
  <2>3. s # 0 /\ r = s
    <3>1. s # 0
      BY <1>1, <2>2 DEF Byte
    <3> QED BY <2>1, <3>1
  <2>4. f # <<>> /\ f[1] < 128 /\ message_size(r) = Len(f) + 1 /\ <<r>> \o f = M
    <3>1. Len(f) \in {1, 2}
      <4>1. Len(f) \in Nat /\ message_size(s) = Len(f) + 1
        BY <1>1
      <4>2. ASSUME NEW n \in Nat, NEW z, z = n + 1, z \in {2, 3} PROVE n \in {1, 2}
        BY <4>2
      <4> HIDE DEF Byte
      <4> QED BY <2>2, <4>1, <4>2
    <3>2. 1 \in 1 .. Len(f) /\ f # <<>>
      BY <1>1, <3>1
    <3> QED BY <1>1, <2>3, <3>2
  <2>5. RunningStatusAfter(w, m) # 0 => r = RunningStatusAfter(w, m)
    BY <2>1, <2>3 DEF RunningStatusAfter, s
  <2>6. CASE SkipTimestamp(w, m, t)
    <3>1. d = f
      BY <1>2, <1>8, <2>6
    <3>2. Decodes(b \o d, k, "out", r, l, h,
                  Append(e, MessageEvent(<<r>> \o f, TimestampMs(h, l))))
      BY <1>1, <1>3, <1>6, <2>4, <3>1, DecodesRunning
    <3>3. Decodes(b \o d, k, "out", r, l, h, Append(e, MessageEvent(M, TimestampMs(h, l))))
      BY <2>4, <3>2
    <3> QED BY <2>5, <2>6, <3>3 DEF b, d, M
  <2>7. CASE ~SkipTimestamp(w, m, t)
    <3>1. d \in Seq(Byte) /\ d[1] = y /\ Ends(d, 1, f)
      BY <1>2, <1>8, <2>7
    <3>2. g = NextHigh(l, h, y) /\ y = d[1]
      BY <3>1 DEF g
    <3>3. Decodes(b \o d, k, "out", r, y, g,
                  Append(e, MessageEvent(<<r>> \o f, TimestampMs(g, y))))
      BY <1>1, <1>3, <1>4, <1>6, <2>4, <3>1, <3>2, DecodesRunningTimed
    <3>4. Decodes(b \o d, k, "out", r, y, g, Append(e, MessageEvent(M, TimestampMs(g, y))))
      BY <2>4, <3>3
    <3> QED BY <2>5, <2>7, <3>4 DEF b, d, y, g, M
  <2> QED BY <2>6, <2>7
<1> QED BY <1>7, <1>8

-----------------------------------------------------------------------------
(* Packets whose header is settled.                                        *)

(* Real time messages only; then another message; data of a sysex message. *)
Ticks(b) == \E k : Realtimes(b, k) /\ Len(b) = 2 * k + 1
Talks(b) == \E k : /\ Realtimes(b, k) /\ 2 * k + 3 <= Len(b)
                   /\ b[2 * k + 2] >= 128 /\ b[2 * k + 3] >= 128
                   /\ ~is_realtime_message(b[2 * k + 3])
Goes(b)  == 2 <= Len(b) /\ b[2] < 128

(* They have the kind they should.                                         *)
LEMMA SettledHeaders ==
    ASSUME NEW b \in Seq(Byte)
    PROVE  /\ Ticks(b) \/ Talks(b) => HeaderIs(b, "plain")
           /\ Goes(b) => HeaderIs(b, "cont")
<1>1. ASSUME Ticks(b) PROVE PlainHeader(b)
  BY <1>1, RealtimeHeader DEF Ticks
<1>2. ASSUME Talks(b) PROVE PlainHeader(b)
  BY <1>2, MessageHeader DEF Talks
<1>3. ASSUME Goes(b) PROVE ContHeader(b)
  BY <1>3, ContinuationHeader DEF Goes
<1> QED BY <1>1, <1>2, <1>3 DEF HeaderIs

(* The bytes of a concatenation.                                           *)
LEMMA Concatenation ==
    ASSUME NEW b \in Seq(Byte), NEW d \in Seq(Byte), NEW c, c = b \o d
    PROVE  /\ c \in Seq(Byte) /\ Len(c) = Len(b) + Len(d)
           /\ \A i \in 1 .. Len(b) : c[i] = b[i]
           /\ \A i \in 1 .. Len(d) : c[Len(b) + i] = d[i]
<1>1. /\ c \in Seq(Byte) /\ Len(c) = Len(b) + Len(d)
      /\ \A i \in 1 .. Len(b) + Len(d) : c[i] = IF i <= Len(b) THEN b[i] ELSE d[i - Len(b)]
  BY ConcatProperties
<1>2. \A i \in 1 .. Len(b) : i \in 1 .. Len(b) + Len(d) /\ i <= Len(b)
  OBVIOUS
<1>3. \A i \in 1 .. Len(d) : Len(b) + i \in 1 .. Len(b) + Len(d)
                             /\ ~(Len(b) + i <= Len(b)) /\ (Len(b) + i) - Len(b) = i
  OBVIOUS
<1> QED BY <1>1, <1>2, <1>3

(* The leading real time messages stay.                                    *)
LEMMA RealtimesStay ==
    ASSUME NEW b \in Seq(Byte), NEW d \in Seq(Byte), NEW k, Realtimes(b, k)
    PROVE  Realtimes(b \o d, k)
<1> DEFINE c == b \o d
<1>1. /\ c \in Seq(Byte) /\ Len(c) = Len(b) + Len(d) /\ Len(d) \in Nat /\ Len(b) \in Nat
      /\ \A i \in 1 .. Len(b) : c[i] = b[i]
  BY Concatenation
<1>2. k \in Nat /\ 2 * k + 1 <= Len(b)
  BY DEF Realtimes
<1> HIDE DEF c
<1>3. ASSUME NEW j \in 0 .. k - 1 PROVE RealtimeAt(c, j)
  <2>1. RealtimeAt(b, j)
    BY DEF Realtimes
  <2>2. 2 * j + 2 \in 1 .. Len(b) /\ 2 * j + 3 \in 1 .. Len(b)
    BY <1>1, <1>2
  <2>3. c[2 * j + 2] = b[2 * j + 2] /\ c[2 * j + 3] = b[2 * j + 3] /\ 2 * j + 3 <= Len(c)
    BY <1>1, <1>2, <2>2
  <2> QED BY <2>1, <2>3 DEF RealtimeAt
<1>4. 2 * k + 1 <= Len(c)
  BY <1>1, <1>2
<1> QED BY <1>2, <1>3, <1>4 DEF Realtimes, c

(* Appending to a packet with a message keeps its kind.                    *)
LEMMA TalksOn ==
    ASSUME NEW b \in Seq(Byte), NEW d \in Seq(Byte), Talks(b)
    PROVE  Talks(b \o d)
<1> DEFINE c == b \o d
<1>1. PICK k : /\ Realtimes(b, k) /\ 2 * k + 3 <= Len(b)
               /\ b[2 * k + 2] >= 128 /\ b[2 * k + 3] >= 128
               /\ ~is_realtime_message(b[2 * k + 3])
  BY DEF Talks
<1>2. Realtimes(c, k)
  BY <1>1, RealtimesStay
<1>3. /\ c \in Seq(Byte) /\ Len(c) = Len(b) + Len(d) /\ Len(d) \in Nat /\ Len(b) \in Nat
      /\ \A i \in 1 .. Len(b) : c[i] = b[i]
  BY Concatenation
<1> HIDE DEF c
<1>4. k \in Nat
  BY <1>1 DEF Realtimes
<1>5. 2 * k + 2 \in 1 .. Len(b) /\ 2 * k + 3 \in 1 .. Len(b) /\ 2 * k + 3 <= Len(c)
  BY <1>1, <1>3, <1>4
<1>6. c[2 * k + 2] = b[2 * k + 2] /\ c[2 * k + 3] = b[2 * k + 3]
  BY <1>3, <1>5
<1> QED BY <1>1, <1>2, <1>5, <1>6 DEF Talks, c

(* Appending to a packet that goes on with sysex data keeps its kind.      *)
LEMMA GoesOn ==
    ASSUME NEW b \in Seq(Byte), NEW d \in Seq(Byte), Goes(b)
    PROVE  Goes(b \o d)
<1> DEFINE c == b \o d
<1>1. /\ c \in Seq(Byte) /\ Len(c) = Len(b) + Len(d) /\ Len(d) \in Nat /\ Len(b) \in Nat
      /\ \A i \in 1 .. Len(b) : c[i] = b[i]
  BY Concatenation
<1> HIDE DEF c
<1>2. 2 \in 1 .. Len(b) /\ b[2] < 128
  BY <1>1 DEF Goes
<1>3. c[2] = b[2] /\ 2 <= Len(c)
  BY <1>1, <1>2
<1> QED BY <1>2, <1>3 DEF Goes, c

(* A timestamp and a status byte behind real time messages.                *)
LEMMA TicksOn ==
    ASSUME NEW b \in Seq(Byte), NEW d \in Seq(Byte), Ticks(b),
           2 <= Len(d), d[1] >= 128, d[2] >= 128, is_realtime_message(d[2]) => Len(d) = 2
    PROVE  IF is_realtime_message(d[2]) THEN Ticks(b \o d) ELSE Talks(b \o d)
<1> DEFINE c == b \o d
<1>1. PICK k : Realtimes(b, k) /\ Len(b) = 2 * k + 1
  BY DEF Ticks
<1>2. Realtimes(c, k)
  BY <1>1, RealtimesStay
<1>3. /\ c \in Seq(Byte) /\ Len(c) = Len(b) + Len(d) /\ Len(d) \in Nat /\ Len(b) \in Nat
      /\ \A i \in 1 .. Len(d) : c[Len(b) + i] = d[i]
  BY Concatenation
<1> HIDE DEF c
<1>4. k \in Nat /\ 1 \in 1 .. Len(d) /\ 2 \in 1 .. Len(d)
  BY <1>1, <1>3 DEF Realtimes
<1>5. Len(b) + 1 = 2 * k + 2 /\ Len(b) + 2 = 2 * k + 3 /\ 2 * k + 3 <= Len(c)
  BY <1>1, <1>3, <1>4
<1>6. c[2 * k + 2] = d[1] /\ c[2 * k + 3] = d[2]
  BY <1>3, <1>4, <1>5
<1>7. CASE is_realtime_message(d[2])
  <2>1. RealtimeAt(c, k)
    BY <1>5, <1>6, <1>7 DEF RealtimeAt, is_status_byte
  <2>2. /\ k + 1 \in Nat /\ Len(c) = 2 * (k + 1) + 1
        /\ \A j \in 0 .. (k + 1) - 1 : j \in 0 .. k - 1 \/ j = k
    <3>1. Len(d) = 2
      BY <1>7
    <3>2. \A j \in 0 .. (k + 1) - 1 : j \in 0 .. k - 1 \/ j = k
      BY <1>4
    <3>3. k + 1 \in Nat /\ Len(c) = 2 * (k + 1) + 1
      BY <1>1, <1>3, <1>4, <3>1
    <3> QED BY <3>2, <3>3
  <2>3. Realtimes(c, k + 1)
    <3>1. ASSUME NEW j \in 0 .. (k + 1) - 1 PROVE RealtimeAt(c, j)
      BY <1>2, <2>1, <2>2 DEF Realtimes
    <3>2. 2 * (k + 1) + 1 <= Len(c)
      BY <1>3, <2>2
    <3> QED BY <2>2, <3>1, <3>2 DEF Realtimes
  <2> QED BY <1>7, <2>2, <2>3 DEF Ticks, c
<1>8. CASE ~is_realtime_message(d[2])
  BY <1>2, <1>5, <1>6, <1>8 DEF Talks, c
<1> QED BY <1>7, <1>8

-----------------------------------------------------------------------------
(* Time.  The last timestamp the parser knows is T; d ms have passed.      *)

(* A sequence of callbacks holds one of a sysex message.                   *)
Sysex(f) == \E i \in 1 .. Len(f) : f[i].cb # "midi_message_cb"

(* The parser does not count another wrap of the low part: it is inside a  *)
(* sysex message, or knows no timestamp, or the packet has sysex bytes.    *)
Near(x, l, f) == x = "in" \/ l = 0 \/ Sysex(f)

(* The parser, with the timestamp byte l and the high bits h, can tell the *)
(* time t: it is d ms after the time T that the parser knows.              *)
TimedAt(T, d, x, p, u, l, h, f, t) ==
    /\ t = (T + d) % 8192
    /\ h = T \div 128
    /\ l = 128 + (T % 128) \/ l = 0
    /\ Near(x, l, f) => (T % 128) + d < 128
    /\ p # 0 => l # 0 /\ u = T

(* The same for some time T, at most s ms ago.                             *)
Timed(x, p, u, l, h, f, t, s) ==
    \E T \in Timestamp : \E d \in 0 .. s : TimedAt(T, d, x, p, u, l, h, f, t)

(* The two parts of a timestamp.                                           *)
LEMMA TimeParts ==
    ASSUME NEW T \in Timestamp
    PROVE  /\ T \in Nat /\ T < 8192
           /\ T % 128 \in 0 .. 127 /\ T \div 128 \in 0 .. 63
           /\ T = 128 * (T \div 128) + (T % 128)
<1>1. T \in Nat /\ T < 8192
  BY DEF Timestamp
<1>2. T % 128 \in 0 .. 127
  BY <1>1
<1>3. T = 128 * (T \div 128) + (T % 128)
  BY <1>1
<1>4. T \div 128 \in 0 .. 63
  BY <1>1
<1> QED BY <1>1, <1>2, <1>3, <1>4

(* The parts of a timestamp less than 128 ms later.                        *)
Later(a, b, d) == (128 * a + b + d) % 8192

(* The low part b of a timestamp with the high bits a, d ms later.         *)
LaterIs(t, a, b, d) ==
    /\ b + d < 128 => t % 128 = b + d /\ t \div 128 = a
    /\ b + d >= 128 => t % 128 = b + d - 128 /\ t \div 128 = (a + 1) % 64

(* At most one wrap of the low part in 127 ms.                             *)
LEMMA LaterParts ==
    ASSUME NEW a \in 0 .. 63, NEW b \in 0 .. 127, NEW d \in 0 .. 127
    PROVE  LaterIs(Later(a, b, d), a, b, d)
<1> DEFINE t == Later(a, b, d)
<1>1. CASE b + d < 128
  <2>1. t = 128 * a + (b + d)
    BY <1>1 DEF Later
  <2> QED BY <1>1, <2>1 DEF LaterIs
<1>2. CASE b + d >= 128 /\ a < 63
  <2>1. t = 128 * (a + 1) + (b + d - 128)
    BY <1>2 DEF Later
  <2> QED BY <1>2, <2>1 DEF LaterIs
<1>3. CASE b + d >= 128 /\ a = 63
  <2>1. t = b + d - 128
    BY <1>3 DEF Later
  <2> QED BY <1>3, <2>1 DEF LaterIs
<1> QED BY <1>1, <1>2, <1>3

(* The bytes of a timestamp.                                               *)
LEMMA TimeBytes ==
    ASSUME NEW t \in Timestamp
    PROVE  /\ timestamp_byte(t) \in Byte /\ timestamp_byte(t) >= 128
           /\ timestamp_byte(t) = 128 + (t % 128) /\ timestamp_byte(t) % 128 = t % 128
           /\ header_byte(t) \in Byte /\ header_byte(t) >= 128
           /\ header_byte(t) % 64 = t \div 128
           /\ TimestampMs(t \div 128, timestamp_byte(t)) = t
<1>1. /\ t % 128 \in 0 .. 127 /\ t \div 128 \in 0 .. 63
      /\ t = 128 * (t \div 128) + (t % 128)
  BY TimeParts
<1> DEFINE a == t \div 128
           b == t % 128
<1>2. (128 + b) % 128 = b /\ (128 + b) \in Byte
  <2> HIDE DEF b
  <2> QED BY <1>1 DEF b, Byte
<1>3. a % 64 = a /\ (128 + a) % 64 = a /\ 128 + a \in Byte
  <2>1. a \in 0 .. 63
    BY <1>1
  <2> HIDE DEF a
  <2> QED BY <2>1 DEF Byte
<1> QED
  <2>1. timestamp_byte(t) = 128 + b /\ header_byte(t) = 128 + a
    BY <1>3 DEF timestamp_byte, timestamp_low, header_byte, timestamp_high
  <2>2. TimestampMs(a, 128 + b) = 128 * a + b
    BY <1>2 DEF TimestampMs
  <2>3. TimestampMs(a, timestamp_byte(t)) = t
    BY <1>1, <2>1, <2>2
  <2>4. header_byte(t) \in Byte /\ header_byte(t) >= 128 /\ header_byte(t) % 64 = a
    <3>1. a \in 0 .. 63
      BY <1>1
    <3> HIDE DEF a
    <3> QED BY <1>3, <2>1, <3>1
  <2>5. /\ timestamp_byte(t) \in Byte /\ timestamp_byte(t) >= 128
        /\ timestamp_byte(t) % 128 = b
    <3>1. b \in 0 .. 127
      BY <1>1
    <3> HIDE DEF b
    <3> QED BY <1>2, <2>1, <3>1
  <2> HIDE DEF a, b
  <2>6. timestamp_byte(t) = 128 + b
    BY <2>1
  <2> QED BY <2>3, <2>4, <2>5, <2>6 DEF a, b

(* A new timestamp byte brings the parser up to the time.                  *)
LEMMA TimedNext ==
    ASSUME NEW x, NEW p, NEW u, NEW l, NEW h, NEW f, NEW t \in Timestamp, NEW s \in 0 .. 127,
           Timed(x, p, u, l, h, f, t, s)
    PROVE  NextHigh(l, h, timestamp_byte(t)) = t \div 128
<1>1. PICK T \in Timestamp, d \in 0 .. s : TimedAt(T, d, x, p, u, l, h, f, t)
  BY DEF Timed
<1> DEFINE a == T \div 128
           b == T % 128
           v == timestamp_byte(t)
<1>2. a \in 0 .. 63 /\ b \in 0 .. 127 /\ T = 128 * a + b /\ d \in 0 .. 127
  BY TimeParts
<1>3. t = (T + d) % 8192 /\ h = a /\ (l = 128 + b \/ l = 0) /\ (l = 0 => b + d < 128)
  <2>1. t = (T + d) % 8192 /\ h = a /\ (l = 128 + b \/ l = 0)
    BY <1>1 DEF TimedAt
  <2>2. l = 0 => b + d < 128
    BY <1>1 DEF TimedAt, Near
  <2> QED BY <2>1, <2>2
<1>4. v = 128 + (t % 128) /\ t % 128 \in 0 .. 127
  BY TimeBytes, TimeParts
<1> HIDE DEF a, b, v
<1>5. t = Later(a, b, d)
  BY <1>2, <1>3 DEF Later
<1>6. /\ b + d < 128 => t % 128 = b + d /\ t \div 128 = a
      /\ b + d >= 128 => t % 128 = b + d - 128 /\ t \div 128 = (a + 1) % 64
  <2>1. a \in 0 .. 63 /\ b \in 0 .. 127 /\ d \in 0 .. 127
    BY <1>2, SMTT(30)
  <2>2. LaterIs(Later(a, b, d), a, b, d)
    BY <2>1, LaterParts
  <2> QED BY <1>5, <2>2 DEF LaterIs
<1>7. CASE b + d < 128
  <2>1. ~(l > v)
    BY <1>2, <1>3, <1>4, <1>6, <1>7
  <2> QED BY <1>3, <1>6, <1>7, <2>1 DEF NextHigh, v
<1>8. CASE b + d >= 128
  <2>1. l > v
    BY <1>2, <1>3, <1>4, <1>6, <1>8
  <2> QED BY <1>3, <1>6, <1>8, <2>1 DEF NextHigh, v
<1> QED BY <1>2, <1>7, <1>8

(* Inside a sysex message the high bits are those of the time.             *)
LEMMA TimedInside ==
    ASSUME NEW p, NEW u, NEW l, NEW h, NEW f, NEW t \in Timestamp, NEW s \in 0 .. 127,
           Timed("in", p, u, l, h, f, t, s)
    PROVE  h = t \div 128
<1>1. PICK T \in Timestamp, d \in 0 .. s : TimedAt(T, d, "in", p, u, l, h, f, t)
  BY DEF Timed
<1> DEFINE a == T \div 128
           b == T % 128
<1>2. a \in 0 .. 63 /\ b \in 0 .. 127 /\ T = 128 * a + b /\ d \in 0 .. 127
  BY TimeParts
<1>3. t = (T + d) % 8192 /\ h = a /\ b + d < 128
  BY <1>1 DEF TimedAt, Near
<1> HIDE DEF a, b
<1>4. t = Later(a, b, d)
  BY <1>2, <1>3 DEF Later
<1>5. a \in 0 .. 63 /\ b \in 0 .. 127 /\ d \in 0 .. 127
  BY <1>2, SMTT(30)
<1>6. LaterIs(Later(a, b, d), a, b, d)
  BY <1>5, LaterParts
<1> QED BY <1>3, <1>4, <1>6 DEF LaterIs

(* The parser has just read a timestamp byte.                              *)
LEMMA TimedNow ==
    ASSUME NEW x, NEW p, NEW u, NEW f, NEW t \in Timestamp, NEW s \in Nat, p # 0 => u = t
    PROVE  Timed(x, p, u, timestamp_byte(t), t \div 128, f, t, s)
<1>1. timestamp_byte(t) = 128 + (t % 128) /\ timestamp_byte(t) # 0
  <2>1. timestamp_byte(t) = 128 + (t % 128) /\ timestamp_byte(t) >= 128
    BY TimeBytes
  <2> QED BY <2>1
<1>2. t = (t + 0) % 8192 /\ (t % 128) + 0 < 128 /\ 0 \in 0 .. s
  BY TimeParts DEF Timestamp
<1>3. TimedAt(t, 0, x, p, u, timestamp_byte(t), t \div 128, f, t)
  BY <1>1, <1>2 DEF TimedAt
<1> QED BY <1>2, <1>3 DEF Timed

(* The parser has just read the header byte.                               *)
LEMMA TimedHeader ==
    ASSUME NEW x, NEW u, NEW f, NEW t \in Timestamp, NEW s \in Nat
    PROVE  Timed(x, 0, u, 0, t \div 128, f, t, s)
<1>2. t = (t + 0) % 8192 /\ (t % 128) + 0 < 128 /\ 0 \in 0 .. s
  BY TimeParts DEF Timestamp
<1>3. TimedAt(t, 0, x, 0, u, 0, t \div 128, f, t)
  BY <1>2 DEF TimedAt
<1> QED BY <1>2, <1>3 DEF Timed

(* A timestamp that is left out is the one the parser knows.               *)
LEMMA TimedSame ==
    ASSUME NEW x, NEW p, NEW u, NEW l, NEW h, NEW f, NEW t \in Timestamp, NEW s \in Nat,
           Timed(x, p, u, l, h, f, t, s), p # 0, u = t
    PROVE  l = timestamp_byte(t) /\ h = t \div 128
<1>1. PICK T \in Timestamp, d \in 0 .. s : TimedAt(T, d, x, p, u, l, h, f, t)
  BY DEF Timed
<1> QED BY <1>1, TimeBytes DEF TimedAt

(* Inside a sysex message what is written does not matter.                 *)
LEMMA TimedWrites ==
    ASSUME NEW x, NEW p, NEW u, NEW l, NEW h, NEW f, NEW g, NEW t, NEW s,
           Timed("in", p, u, l, h, f, t, s)
    PROVE  Timed(x, p, u, l, h, g, t, s)
<1>1. PICK T \in Timestamp, d \in 0 .. s : TimedAt(T, d, "in", p, u, l, h, f, t)
  BY DEF Timed
<1>2. TimedAt(T, d, x, p, u, l, h, g, t)
  BY <1>1 DEF TimedAt, Near
<1> QED BY <1>2 DEF Timed

(* Time passes.                                                            *)
LEMMA TimedTick ==
    ASSUME NEW x, NEW p, NEW u, NEW l, NEW h, NEW f, NEW t \in Timestamp, NEW s \in Nat,
           NEW e \in Nat, s + e <= 127, Timed(x, p, u, l, h, f, t, s),
           Near(x, l, f) => (t % 128) + e < 128
    PROVE  Timed(x, p, u, l, h, f, (t + e) % 8192, s + e)
<1>1. PICK T \in Timestamp, d \in 0 .. s : TimedAt(T, d, x, p, u, l, h, f, t)
  BY DEF Timed
<1> DEFINE a == T \div 128
           b == T % 128
<1>2. a \in 0 .. 63 /\ b \in 0 .. 127 /\ T = 128 * a + b /\ d \in 0 .. 127 /\ T \in Nat
  BY TimeParts
<1>3. t = (T + d) % 8192 /\ (Near(x, l, f) => b + d < 128)
  BY <1>1 DEF TimedAt
<1>4. (t + e) % 8192 = (T + (d + e)) % 8192
  <2>1. t = T + d \/ t = T + d - 8192
    BY <1>2, <1>3 DEF Timestamp
  <2> QED BY <1>2, <2>1
<1>5. Near(x, l, f) => b + (d + e) < 128
  <2> HIDE DEF a, b
  <2>1. t = Later(a, b, d)
    BY <1>2, <1>3 DEF Later
  <2>2. a \in 0 .. 63 /\ b \in 0 .. 127 /\ d \in 0 .. 127
    BY <1>2, SMTT(30)
  <2>3. LaterIs(Later(a, b, d), a, b, d)
    BY <2>2, LaterParts
  <2> QED BY <1>2, <1>3, <2>1, <2>3 DEF LaterIs
<1>6. TimedAt(T, d + e, x, p, u, l, h, f, (t + e) % 8192)
  BY <1>1, <1>4, <1>5 DEF TimedAt
<1>7. d + e \in 0 .. s + e
  OBVIOUS
<1> QED BY <1>6, <1>7 DEF Timed

-----------------------------------------------------------------------------
(* Callbacks.  Alike: the same up to the timestamps.                       *)
Alike(e, f) ==
    /\ Len(e) = Len(f)
    /\ \A i \in 1 .. Len(e) : e[i].cb = f[i].cb /\ e[i].bytes = f[i].bytes

(* The elements of a concatenation of callbacks.                           *)
LEMMA EventsConcat ==
    ASSUME NEW e \in Seq(Event), NEW f \in Seq(Event), NEW g, g = e \o f
    PROVE  /\ g \in Seq(Event) /\ Len(g) = Len(e) + Len(f)
           /\ \A i \in 1 .. Len(e) : g[i] = e[i]
           /\ \A i \in 1 .. Len(f) : g[Len(e) + i] = f[i]
           /\ \A i \in 1 .. Len(g) : i \in 1 .. Len(e) \/ i - Len(e) \in 1 .. Len(f)
<1> HIDE DEF Event
<1>1. g \in Seq(Event)
  BY ConcatProperties
<1>2. /\ Len(g) = Len(e) + Len(f)
      /\ \A i \in 1 .. Len(e) + Len(f) : g[i] = IF i <= Len(e) THEN e[i] ELSE f[i - Len(e)]
  BY ConcatProperties
<1>3. Len(e) \in Nat /\ Len(f) \in Nat
  OBVIOUS
<1> DEFINE n == Len(e)
           o == Len(f)
<1>4. \A i \in 1 .. n : i \in 1 .. n + o /\ i <= n
  BY <1>3
<1>5. \A i \in 1 .. o : n + i \in 1 .. n + o /\ ~(n + i <= n) /\ (n + i) - n = i
  BY <1>3
<1>6. \A i \in 1 .. n + o : i \in 1 .. n \/ i - n \in 1 .. o
  BY <1>3
<1> HIDE DEF n, o
<1>7. /\ \A i \in 1 .. n : g[i] = e[i]
      /\ \A i \in 1 .. o : g[n + i] = f[i]
  BY <1>2, <1>4, <1>5 DEF n, o
<1> QED BY <1>1, <1>2, <1>6, <1>7 DEF n, o

(* Callbacks that are alike, one list behind the other.                    *)
LEMMA AlikeMore ==
    ASSUME NEW e \in Seq(Event), NEW f \in Seq(Event), Alike(e, f),
           NEW a \in Seq(Event), NEW b \in Seq(Event), Alike(a, b)
    PROVE  Alike(e \o a, f \o b)
<1> DEFINE g == e \o a
           h == f \o b
<1>1. /\ Len(g) = Len(e) + Len(a)
      /\ \A i \in 1 .. Len(e) : g[i] = e[i]
      /\ \A i \in 1 .. Len(a) : g[Len(e) + i] = a[i]
      /\ \A i \in 1 .. Len(g) : i \in 1 .. Len(e) \/ i - Len(e) \in 1 .. Len(a)
  BY EventsConcat
<1>2. /\ Len(h) = Len(f) + Len(b)
      /\ \A i \in 1 .. Len(f) : h[i] = f[i]
      /\ \A i \in 1 .. Len(b) : h[Len(f) + i] = b[i]
  BY EventsConcat
<1>3. /\ Len(e) = Len(f) /\ Len(a) = Len(b) /\ Len(e) \in Nat
      /\ \A i \in 1 .. Len(e) : e[i].cb = f[i].cb /\ e[i].bytes = f[i].bytes
      /\ \A i \in 1 .. Len(a) : a[i].cb = b[i].cb /\ a[i].bytes = b[i].bytes
  BY DEF Alike
<1> HIDE DEF g, h
<1>4. ASSUME NEW i \in 1 .. Len(g) PROVE g[i].cb = h[i].cb /\ g[i].bytes = h[i].bytes
  <2>1. CASE i \in 1 .. Len(e)
    BY <1>1, <1>2, <1>3, <2>1
  <2>2. CASE i - Len(e) \in 1 .. Len(a)
    <3> DEFINE j == i - Len(e)
    <3>1. i = Len(e) + j /\ j \in 1 .. Len(a)
      BY <1>1, <1>3, <2>2
    <3> HIDE DEF j
    <3>2. g[i] = a[j] /\ h[i] = b[j]
      BY <1>1, <1>2, <1>3, <3>1
    <3> QED BY <1>3, <3>1, <3>2
  <2> QED BY <1>1, <2>1, <2>2
<1>5. Len(g) = Len(h)
  BY <1>1, <1>2, <1>3
<1> QED BY <1>4, <1>5 DEF Alike, g, h

(* One more callback.                                                      *)
LEMMA OneMore ==
    ASSUME NEW e \in Seq(Event), NEW v \in Event
    PROVE  /\ Append(e, v) = e \o <<v>> /\ Append(e, v) \in Seq(Event)
           /\ <<v>> \in Seq(Event) /\ Len(<<v>>) = 1 /\ <<v>>[1] = v
<1> HIDE DEF Event
<1>1. <<v>> \in Seq(Event) /\ Len(<<v>>) = 1 /\ <<v>>[1] = v
  OBVIOUS
<1>2. Append(e, v) \in Seq(Event)
  OBVIOUS
<1>3. Append(e, v) = e \o <<v>>
  BY AppendIsConcat
<1> QED BY <1>1, <1>2, <1>3

(* One more callback on both sides.                                        *)
LEMMA AlikeOne ==
    ASSUME NEW e \in Seq(Event), NEW f \in Seq(Event), Alike(e, f),
           NEW v \in Event, NEW z \in Event, v.cb = z.cb, v.bytes = z.bytes
    PROVE  Append(e, v) \in Seq(Event) /\ f \o <<z>> \in Seq(Event)
           /\ Alike(Append(e, v), f \o <<z>>)
<1> DEFINE a == <<v>>
           b == <<z>>
<1>1. Append(e, v) = e \o a /\ Append(e, v) \in Seq(Event) /\ a \in Seq(Event)
      /\ Len(a) = 1 /\ a[1] = v
  BY OneMore
<1>2. Append(f, z) = f \o b /\ Append(f, z) \in Seq(Event) /\ b \in Seq(Event)
      /\ Len(b) = 1 /\ b[1] = z
  BY OneMore
<1> HIDE DEF a, b, Event
<1>3. Alike(a, b)
  BY <1>1, <1>2 DEF Alike
<1>4. Alike(e \o a, f \o b)
  BY <1>1, <1>2, <1>3, AlikeMore
<1> QED BY <1>1, <1>2, <1>4 DEF b

(* What is alike to itself.                                                *)
LEMMA AlikeSelf == ASSUME NEW e PROVE Alike(e, e)
BY DEF Alike

(* A callback of a sysex message stays.                                    *)
LEMMA SysexMore ==
    ASSUME NEW f \in Seq(Event), NEW g \in Seq(Event), Sysex(f) \/ Sysex(g)
    PROVE  Sysex(f \o g)
<1> DEFINE h == f \o g
<1>1. /\ Len(h) = Len(f) + Len(g)
      /\ \A i \in 1 .. Len(f) : h[i] = f[i]
      /\ \A i \in 1 .. Len(g) : h[Len(f) + i] = g[i]
  BY EventsConcat
<1>2. Len(f) \in Nat /\ Len(g) \in Nat
  OBVIOUS
<1> HIDE DEF h
<1>3. CASE Sysex(f)
  <2>1. PICK i \in 1 .. Len(f) : f[i].cb # "midi_message_cb"
    BY <1>3 DEF Sysex
  <2>2. i \in 1 .. Len(h)
    BY <1>1, <1>2
  <2> QED BY <1>1, <2>1, <2>2 DEF Sysex, h
<1>4. CASE Sysex(g)
  <2>1. PICK i \in 1 .. Len(g) : g[i].cb # "midi_message_cb"
    BY <1>4 DEF Sysex
  <2>2. Len(f) + i \in 1 .. Len(h)
    BY <1>1, <1>2
  <2>3. h[Len(f) + i] = g[i]
    BY <1>1
  <2> QED BY <2>1, <2>2, <2>3 DEF Sysex, h
<1> QED BY <1>3, <1>4

(* The callbacks of a sysex message.                                       *)
LEMMA SysexOne ==
    ASSUME NEW f \in Seq(Event), NEW v \in Event, v.cb # "midi_message_cb"
    PROVE  Sysex(f \o <<v>>)
<1> DEFINE b == <<v>>
<1>1. b \in Seq(Event) /\ Len(b) = 1 /\ b[1] = v
  BY OneMore
<1> HIDE DEF b, Event
<1>2. Sysex(b)
  BY <1>1 DEF Sysex
<1>3. Sysex(f \o b)
  BY <1>1, <1>2, SysexMore
<1> QED BY <1>3 DEF b

(* Data bytes are of a sysex message.                                      *)
LEMMA SysexDatas ==
    ASSUME NEW f \in Seq(Event), NEW d \in Seq(Byte), d # <<>>
    PROVE  Sysex(f \o Datas(d, Len(d)))
<1> DEFINE g == Datas(d, Len(d))
<1>1. Len(d) \in Nat /\ Len(d) # 0 /\ 1 \in 1 .. Len(d) /\ Len(d) \in 0 .. Len(d)
  BY EmptySeq
<1>2. g \in Seq(Event) /\ Len(g) = Len(d) /\ g[1] = DataEvent(d[1])
  BY <1>1, DatasType
<1> HIDE DEF g
<1>3. Sysex(g)
  BY <1>1, <1>2 DEF Sysex, DataEvent
<1> QED BY <1>2, <1>3, SysexMore DEF g

-----------------------------------------------------------------------------
(* What the bytes b of a packet say about its kind k, whatever follows; x  *)
(* says whether they end inside a sysex message, p is the running status   *)
(* of the writer.                                                          *)
Settled(b, k, x, p) ==
    \/ k = "cont" /\ Goes(b)
    \/ k = "plain" /\ Talks(b)
    \/ k = "plain" /\ Ticks(b) /\ x = "out" /\ p = 0

(* The same, or a header byte only.                                        *)
Ready(b, k, x, p) == Settled(b, k, x, p) \/ (k = "cont" /\ x = "in" /\ Len(b) = 1)

(* A settled packet has its kind.                                          *)
LEMMA SettledKind ==
    ASSUME NEW b \in Seq(Byte), NEW k, NEW x, NEW p, Settled(b, k, x, p)
    PROVE  HeaderIs(b, k)
BY SettledHeaders DEF Settled

(* Inside a sysex message the kind is settled for good.                    *)
LEMMA SettledInside ==
    ASSUME NEW b \in Seq(Byte), NEW d \in Seq(Byte), NEW k, NEW p, Settled(b, k, "in", p),
           NEW y, NEW q
    PROVE  Settled(b \o d, k, y, q)
BY TalksOn, GoesOn DEF Settled

(* A message with timestamp and status byte, or any bytes under running    *)
(* status.                                                                 *)
LEMMA SettledTail ==
    ASSUME NEW b \in Seq(Byte), NEW d \in Seq(Byte), NEW k, NEW p, Ready(b, k, "out", p),
           p = 0 => /\ 2 <= Len(d) /\ d[1] >= 128 /\ d[2] >= 128
                    /\ is_realtime_message(d[2]) => Len(d) = 2,
           NEW y, NEW q, p = 0 /\ is_realtime_message(d[2]) => y = "out" /\ q = 0
    PROVE  Settled(b \o d, k, y, q)
<1>1. Settled(b, k, "out", p)
  BY DEF Ready
<1>2. CASE k = "cont" /\ Goes(b)
  BY <1>2, GoesOn DEF Settled
<1>3. CASE k = "plain" /\ Talks(b)
  BY <1>3, TalksOn DEF Settled
<1>4. CASE k = "plain" /\ Ticks(b) /\ p = 0
  <2>1. IF is_realtime_message(d[2]) THEN Ticks(b \o d) ELSE Talks(b \o d)
    BY <1>4, TicksOn
  <2> QED BY <1>4, <2>1 DEF Settled
<1> QED BY <1>1, <1>2, <1>3, <1>4 DEF Settled

(* Data bytes behind a header byte.                                        *)
LEMMA SettledData ==
    ASSUME NEW b \in Seq(Byte), NEW d \in Seq(Byte), NEW k, NEW p, Ready(b, k, "in", p),
           d # <<>>, d[1] < 128
    PROVE  Settled(b \o d, k, "in", p)
<1>1. CASE Settled(b, k, "in", p)
  BY <1>1, SettledInside
<1>2. CASE k = "cont" /\ Len(b) = 1
  <2> DEFINE c == b \o d
  <2>1. Len(c) = Len(b) + Len(d) /\ \A i \in 1 .. Len(d) : c[Len(b) + i] = d[i]
    BY Concatenation
  <2>2. Len(d) \in Nat /\ Len(d) # 0
    BY EmptySeq
  <2> HIDE DEF c
  <2>3. 1 \in 1 .. Len(d) /\ Len(b) + 1 = 2
    BY <1>2, <2>2
  <2>4. c[2] = d[1] /\ 2 <= Len(c)
    BY <1>2, <2>1, <2>2, <2>3
  <2> QED BY <1>2, <2>4 DEF Settled, Goes, c
<1> QED BY <1>1, <1>2 DEF Ready

(* The header byte.                                                        *)
LEMMA SettledStart ==
    ASSUME NEW y \in Byte
    PROVE  Ready(<<y>>, "cont", "in", 0) /\ Ready(<<y>>, "plain", "out", 0)
<1> DEFINE b == <<y>>
<1>1. Len(b) = 1
  OBVIOUS
<1> HIDE DEF b
<1>2. Realtimes(b, 0) /\ Len(b) = 2 * 0 + 1
  BY <1>1 DEF Realtimes
<1>3. Ticks(b)
  BY <1>2 DEF Ticks
<1>4. Settled(b, "plain", "out", 0)
  BY <1>3 DEF Settled
<1> QED BY <1>1, <1>4 DEF Ready, b

-----------------------------------------------------------------------------
(* What a packet says: the bytes b, ending in the place x, are parsed to   *)
(* the callbacks e, and leave the parser with the running status r, the    *)
(* timestamp byte l and the high bits h.                                   *)
Says(b, x, p, k, r, l, h, e) ==
    /\ b \in Seq(Byte) /\ r \in Byte /\ l \in Byte /\ h \in 0 .. 63 /\ e \in Seq(Event)
    /\ Decodes(b, k, x, r, l, h, e)
    /\ p # 0 => r = p

(* Callbacks e for the written f: alike, and the same at the right time in *)
(* a packet that ran into none of the cases in c.                          *)
Matches(e, f, x, p, u, l, h, t, s, c) ==
    /\ f \in Seq(Event) /\ Alike(e, f)
    /\ c = {} => e = f /\ Timed(x, p, u, l, h, f, t, s)

(* A packet that can be written to: one between two calls, or a header     *)
(* byte only.                                                              *)
Begun(b, x, p, u, f, t, s, c) ==
    \E k, r, l, h, e : /\ Says(b, x, p, k, r, l, h, e) /\ Ready(b, k, x, p)
                       /\ Matches(e, f, x, p, u, l, h, t, s, c)

(* The packet as it is between two calls.                                  *)
Good(b, x, p, u, f, t, s, c) ==
    \E k, r, l, h, e : /\ Says(b, x, p, k, r, l, h, e) /\ Settled(b, k, x, p)
                       /\ Matches(e, f, x, p, u, l, h, t, s, c)
                       /\ c = {} => (x = "in" \/ l = 0 => Sysex(f))

(* A packet between two calls can be written to.                           *)
LEMMA GoodBegun ==
    ASSUME NEW b, NEW x, NEW p, NEW u, NEW f, NEW t, NEW s, NEW c,
           Good(b, x, p, u, f, t, s, c)
    PROVE  Begun(b, x, p, u, f, t, s, c)
BY DEF Good, Begun, Ready

(* A new packet.                                                           *)
LEMMA NewBegun ==
    ASSUME NEW x \in {"in", "out"}, NEW u, NEW t \in Timestamp, NEW s \in Nat, NEW c
    PROVE  Begun(<<header_byte(t)>>, x, 0, u, <<>>, t, s, c)
<1> DEFINE y == header_byte(t)
           b == <<y>>
           h == t \div 128
<1>1. y \in Byte /\ y >= 128 /\ y % 64 = h
  BY TimeBytes
<1>2. h \in 0 .. 63
  BY TimeParts
<1> HIDE DEF y, h
<1>3. b \in Seq(Byte) /\ 0 \in Byte
  BY <1>1 DEF Byte
<1>4. Decodes(b, "cont", "in", 0, 0, h, <<>>) /\ Decodes(b, "plain", "out", 0, 0, h, <<>>)
  BY <1>1, DecodesHeader
<1>5. Ready(b, "cont", "in", 0) /\ Ready(b, "plain", "out", 0)
  BY <1>1, SettledStart
<1>6. Timed(x, 0, u, 0, h, <<>>, t, s)
  BY TimedHeader DEF h
<1> HIDE DEF b
<1>7. <<>> \in Seq(Event) /\ Alike(<<>>, <<>>)
  <2> HIDE DEF Event
  <2> QED BY AlikeSelf
<1> DEFINE k == IF x = "in" THEN "cont" ELSE "plain"
<1>8. Decodes(b, k, x, 0, 0, h, <<>>) /\ Ready(b, k, x, 0)
  BY <1>4, <1>5
<1> HIDE DEF k
<1>9. Matches(<<>>, <<>>, x, 0, u, 0, h, t, s, c)
  BY <1>6, <1>7 DEF Matches
<1>10. Says(b, x, 0, k, 0, 0, h, <<>>)
  BY <1>2, <1>3, <1>7, <1>8 DEF Says
<1>11. Begun(b, x, 0, u, <<>>, t, s, c)
  BY <1>8, <1>9, <1>10 DEF Begun
<1> QED BY <1>11 DEF b, y

(* A packet in a good state is parsed without an error to what was         *)
(* written.                                                                *)
LEMMA GoodParses ==
    ASSUME NEW b, NEW x \in {"in", "out"}, NEW p, NEW u, NEW f, NEW t, NEW s, NEW c,
           Good(b, x, p, u, f, t, s, c)
    PROVE  /\ ble_midi_parse_packet(b).rc = "SUCCESS"
           /\ ble_midi_parse_packet(b).events \in Seq(Event)
           /\ Alike(ble_midi_parse_packet(b).events, f) /\ f \in Seq(Event)
           /\ c = {} => ble_midi_parse_packet(b).events = f
<1>1. PICK k, r, l, h, e : /\ Says(b, x, p, k, r, l, h, e) /\ Settled(b, k, x, p)
                           /\ Matches(e, f, x, p, u, l, h, t, s, c)
  BY DEF Good
<1>2. b \in Seq(Byte) /\ Decodes(b, k, x, r, l, h, e) /\ e \in Seq(Event)
  BY <1>1 DEF Says
<1>3. HeaderIs(b, k)
  BY <1>1, <1>2, SettledKind
<1>4. Extends(b, b)
  BY <1>2 DEF Extends
<1>5. At(x, b, Len(b), r, l, h, e)
  BY <1>2, <1>3, <1>4 DEF Decodes
<1>6. ble_midi_parse_packet(b).events = e /\ ble_midi_parse_packet(b).rc = "SUCCESS"
  BY <1>5, InAtDone, OutAtDone DEF At
<1> QED BY <1>1, <1>2, <1>6 DEF Matches

-----------------------------------------------------------------------------
(* The operations of the writer.  InTime: the time that has passed is      *)
(* short enough for one wrap of the low part.                              *)
InTime(s, c) == s \in Nat /\ (c = {} => s \in 0 .. 127)

(* The sysex start.                                                        *)
LEMMA GoodStart ==
    ASSUME NEW b, NEW p, NEW u, NEW f, NEW t \in Timestamp, NEW s, NEW c, InTime(s, c),
           Begun(b, "out", p, u, f, t, s, c)
    PROVE  Good(b \o <<timestamp_byte(t), \hF0>>, "in", 0, u, f \o <<StartEvent(t)>>,
                t, s, c)
<1>1. PICK k, r, l, h, e : /\ Says(b, "out", p, k, r, l, h, e) /\ Ready(b, k, "out", p)
                           /\ Matches(e, f, "out", p, u, l, h, t, s, c)
  BY DEF Begun
<1> DEFINE y == timestamp_byte(t)
           g == NextHigh(l, h, y)
           z == StartEvent(t)
           v == StartEvent(TimestampMs(g, y))
           d == <<y, \hF0>>
           B == b \o d
           E == Append(e, v)
           F == f \o <<z>>
<1>2. /\ b \in Seq(Byte) /\ l \in Byte /\ h \in 0 .. 63 /\ e \in Seq(Event)
      /\ Decodes(b, k, "out", r, l, h, e)
  BY <1>1 DEF Says
<1>3. y \in Byte /\ y >= 128 /\ t \in Nat
  BY TimeBytes, TimeParts
<1>4. g \in 0 .. 63
  BY <1>2, <1>3, HighBits
<1>5. v \in Event /\ z \in Event /\ v.cb = z.cb /\ v.bytes = z.bytes
      /\ z.cb # "midi_message_cb"
  <2>1. TimestampMs(g, y) \in Nat
    <3> HIDE DEF g, y
    <3> QED BY <1>3, <1>4 DEF TimestampMs, Byte
  <2>2. v \in Event /\ z \in Event
    BY <1>3, <2>1, EventTypes
  <2> QED BY <2>2 DEF StartEvent
<1>6. Decodes(B, k, "in", 0, y, g, E)
  BY <1>2, <1>3, DecodesStart
<1>7. d \in Seq(Byte) /\ Len(d) = 2 /\ d[1] = y /\ d[2] = \hF0 /\ 0 \in Byte
  <2> HIDE DEF y
  <2> QED BY <1>3 DEF Byte
<1>8. B \in Seq(Byte)
  <2> HIDE DEF d
  <2> QED BY <1>2, <1>7, Concatenation
<1>9. Settled(B, k, "in", 0)
  <2>1. ~is_realtime_message(\hF0) /\ 2 <= Len(d) /\ d[2] >= 128 /\ d[1] >= 128
    BY <1>3, <1>7 DEF is_realtime_message
  <2> HIDE DEF d
  <2>2. d \in Seq(Byte) /\ ~is_realtime_message(d[2])
    BY <1>7, <2>1
  <2> QED BY <1>1, <1>2, <2>1, <2>2, SettledTail
<1>10. f \in Seq(Event) /\ Alike(e, f) /\ (c = {} => e = f /\ Timed("out", p, u, l, h, f, t, s))
  BY <1>1 DEF Matches
<1> HIDE DEF v, z, d, B
<1>11. E \in Seq(Event) /\ F \in Seq(Event) /\ Alike(E, F)
  BY <1>2, <1>5, <1>10, AlikeOne
<1>12. c = {} => g = t \div 128
  BY <1>10, TimedNext DEF InTime
<1>13. c = {} => v = z
  BY <1>12, TimeBytes DEF v, z
<1>14. c = {} => E = F /\ Timed("in", 0, u, y, g, F, t, s)
  <2>1. E = e \o <<v>>
    BY <1>2, <1>5, OneMore
  <2> HIDE DEF E
  <2>2. c = {} => E = F
    BY <1>10, <1>13, <2>1
  <2>3. Timed("in", 0, u, y, t \div 128, F, t, s)
    BY TimedNow DEF InTime
  <2> HIDE DEF y, g, F
  <2> QED BY <1>12, <2>2, <2>3
<1>15. Sysex(F)
  BY <1>5, <1>10, SysexOne
<1> HIDE DEF y, g, E, F
<1>16. Says(B, "in", 0, k, 0, y, g, E)
  BY <1>3, <1>4, <1>6, <1>7, <1>8, <1>11 DEF Says
<1>17. Matches(E, F, "in", 0, u, y, g, t, s, c)
  BY <1>11, <1>14 DEF Matches
<1>18. Good(B, "in", 0, u, F, t, s, c)
  BY <1>9, <1>15, <1>16, <1>17 DEF Good
<1> QED BY <1>18 DEF B, F, d, z, y

(* The sysex end.                                                          *)
LEMMA GoodEnd ==
    ASSUME NEW b, NEW p, NEW u, NEW f, NEW t \in Timestamp, NEW s, NEW c, InTime(s, c),
           Good(b, "in", p, u, f, t, s, c)
    PROVE  Good(b \o <<timestamp_byte(t), \hF7>>, "out", p, u, f \o <<EndEvent(t)>>,
                t, s, c)
<1>1. PICK k, r, l, h, e : /\ Says(b, "in", p, k, r, l, h, e) /\ Settled(b, k, "in", p)
                           /\ Matches(e, f, "in", p, u, l, h, t, s, c)
  BY DEF Good
<1> DEFINE y == timestamp_byte(t)
           z == EndEvent(t)
           v == EndEvent(TimestampMs(h, y))
           d == <<y, \hF7>>
           B == b \o d
           E == Append(e, v)
           F == f \o <<z>>
<1>2. /\ b \in Seq(Byte) /\ l \in Byte /\ h \in 0 .. 63 /\ e \in Seq(Event) /\ r \in Byte
      /\ Decodes(b, k, "in", r, l, h, e) /\ (p # 0 => r = p)
  BY <1>1 DEF Says
<1>3. y \in Byte /\ y >= 128 /\ t \in Nat
  BY TimeBytes, TimeParts
<1>5. v \in Event /\ z \in Event /\ v.cb = z.cb /\ v.bytes = z.bytes
      /\ z.cb # "midi_message_cb"
  <2>1. TimestampMs(h, y) \in Nat
    <3> HIDE DEF y
    <3> QED BY <1>2, <1>3 DEF TimestampMs, Byte
  <2>2. v \in Event /\ z \in Event
    BY <1>3, <2>1, EventTypes
  <2> QED BY <2>2 DEF EndEvent
<1>6. Decodes(B, k, "out", r, l, h, E)
  BY <1>2, <1>3, DecodesEnd
<1>7. d \in Seq(Byte)
  <2> HIDE DEF y
  <2> QED BY <1>3 DEF Byte
<1>8. B \in Seq(Byte)
  <2> HIDE DEF d
  <2> QED BY <1>2, <1>7, Concatenation
<1>9. Settled(B, k, "out", p)
  <2> HIDE DEF d
  <2> QED BY <1>1, <1>2, <1>7, SettledInside
<1>10. f \in Seq(Event) /\ Alike(e, f) /\ (c = {} => e = f /\ Timed("in", p, u, l, h, f, t, s))
  BY <1>1 DEF Matches
<1> HIDE DEF v, z, d, B
<1>11. E \in Seq(Event) /\ F \in Seq(Event) /\ Alike(E, F)
  BY <1>2, <1>5, <1>10, AlikeOne
<1>12. c = {} => h = t \div 128
  BY <1>10, TimedInside DEF InTime
<1>13. c = {} => v = z
  BY <1>12, TimeBytes DEF v, z
<1>14. c = {} => E = F /\ Timed("out", p, u, l, h, F, t, s)
  <2>1. E = e \o <<v>>
    BY <1>2, <1>5, OneMore
  <2> HIDE DEF E
  <2>2. c = {} => E = F
    BY <1>10, <1>13, <2>1
  <2> HIDE DEF F
  <2>3. c = {} => Timed("out", p, u, l, h, F, t, s)
    BY <1>10, TimedWrites
  <2> QED BY <2>2, <2>3
<1>15. Sysex(F)
  BY <1>5, <1>10, SysexOne
<1> HIDE DEF y, E, F
<1>16. Says(B, "out", p, k, r, l, h, E)
  BY <1>2, <1>6, <1>8, <1>11 DEF Says
<1>17. Matches(E, F, "out", p, u, l, h, t, s, c)
  BY <1>11, <1>14 DEF Matches
<1>18. Good(B, "out", p, u, F, t, s, c)
  BY <1>9, <1>15, <1>16, <1>17 DEF Good
<1> QED BY <1>18 DEF B, F, d, z, y

(* A real time message inside a sysex message.                             *)
LEMMA GoodRealtime ==
    ASSUME NEW b, NEW p, NEW u, NEW f, NEW t \in Timestamp, NEW s, NEW c, InTime(s, c),
           Good(b, "in", p, u, f, t, s, c), NEW m \in Byte, is_realtime_message(m)
    PROVE  Good(b \o <<timestamp_byte(t), m>>, "in", p, u, f \o <<MessageEvent(<<m>>, t)>>,
                t, s, c)
<1>1. PICK k, r, l, h, e : /\ Says(b, "in", p, k, r, l, h, e) /\ Settled(b, k, "in", p)
                           /\ Matches(e, f, "in", p, u, l, h, t, s, c)
                           /\ c = {} => Sysex(f)
  BY DEF Good
<1> DEFINE y == timestamp_byte(t)
           o == <<m>>
           z == MessageEvent(o, t)
           v == MessageEvent(o, TimestampMs(h, y))
           d == <<y, m>>
           B == b \o d
           E == Append(e, v)
           F == f \o <<z>>
<1>2. /\ b \in Seq(Byte) /\ l \in Byte /\ h \in 0 .. 63 /\ e \in Seq(Event) /\ r \in Byte
      /\ Decodes(b, k, "in", r, l, h, e) /\ (p # 0 => r = p)
  BY <1>1 DEF Says
<1>3. y \in Byte /\ y >= 128 /\ t \in Nat
  BY TimeBytes, TimeParts
<1>4. o \in Seq(Byte)
  OBVIOUS
<1>5. v \in Event /\ z \in Event /\ v.cb = z.cb /\ v.bytes = z.bytes
  <2>1. TimestampMs(h, y) \in Nat
    <3> HIDE DEF y
    <3> QED BY <1>2, <1>3 DEF TimestampMs, Byte
  <2> HIDE DEF o
  <2>2. v \in Event /\ z \in Event
    BY <1>3, <1>4, <2>1, EventTypes
  <2> QED BY <2>2 DEF MessageEvent
<1>6. Decodes(B, k, "in", r, l, h, E)
  BY <1>2, <1>3, DecodesRealtime
<1> HIDE DEF o
<1>7. d \in Seq(Byte)
  <2> HIDE DEF y
  <2> QED BY <1>3
<1>8. B \in Seq(Byte)
  <2> HIDE DEF d
  <2> QED BY <1>2, <1>7, Concatenation
<1>9. Settled(B, k, "in", p)
  <2> HIDE DEF d
  <2> QED BY <1>1, <1>2, <1>7, SettledInside
<1>10. f \in Seq(Event) /\ Alike(e, f) /\ (c = {} => e = f /\ Timed("in", p, u, l, h, f, t, s))
  BY <1>1 DEF Matches
<1> HIDE DEF v, z, d, B
<1>11. E \in Seq(Event) /\ F \in Seq(Event) /\ Alike(E, F)
  BY <1>2, <1>5, <1>10, AlikeOne
<1>12. c = {} => h = t \div 128
  BY <1>10, TimedInside DEF InTime
<1>13. c = {} => v = z
  BY <1>12, TimeBytes DEF v, z
<1>14. c = {} => E = F /\ Timed("in", p, u, l, h, F, t, s)
  <2>1. E = e \o <<v>>
    BY <1>2, <1>5, OneMore
  <2> HIDE DEF E
  <2>2. c = {} => E = F
    BY <1>10, <1>13, <2>1
  <2> HIDE DEF F
  <2>3. c = {} => Timed("in", p, u, l, h, F, t, s)
    BY <1>10, TimedWrites
  <2> QED BY <2>2, <2>3
<1>15. c = {} => Sysex(F)
  <2>1. <<z>> \in Seq(Event)
    BY <1>2, <1>5, OneMore
  <2> QED BY <1>1, <1>10, <2>1, SysexMore
<1> HIDE DEF y, E, F
<1>16. Says(B, "in", p, k, r, l, h, E)
  BY <1>2, <1>6, <1>8, <1>11 DEF Says
<1>17. Matches(E, F, "in", p, u, l, h, t, s, c)
  BY <1>11, <1>14 DEF Matches
<1>18. Good(B, "in", p, u, F, t, s, c)
  BY <1>9, <1>15, <1>16, <1>17 DEF Good
<1> QED BY <1>18 DEF B, F, d, z, y, o

(* Data bytes of a sysex message.                                          *)
LEMMA GoodData ==
    ASSUME NEW b, NEW p, NEW u, NEW f, NEW t \in Timestamp, NEW s, NEW c,
           Begun(b, "in", p, u, f, t, s, c),
           NEW d \in Seq(Byte), d # <<>>, \A j \in 1 .. Len(d) : d[j] < 128
    PROVE  Good(b \o d, "in", p, u, f \o Datas(d, Len(d)), t, s, c)
<1>1. PICK k, r, l, h, e : /\ Says(b, "in", p, k, r, l, h, e) /\ Ready(b, k, "in", p)
                           /\ Matches(e, f, "in", p, u, l, h, t, s, c)
  BY DEF Begun
<1> DEFINE D == Datas(d, Len(d))
           B == b \o d
           E == e \o D
           F == f \o D
<1>2. /\ b \in Seq(Byte) /\ l \in Byte /\ h \in 0 .. 63 /\ e \in Seq(Event) /\ r \in Byte
      /\ Decodes(b, k, "in", r, l, h, e) /\ (p # 0 => r = p)
  BY <1>1 DEF Says
<1>3. Len(d) \in Nat /\ Len(d) # 0 /\ 1 \in 1 .. Len(d) /\ Len(d) \in 0 .. Len(d)
  BY EmptySeq
<1>4. D \in Seq(Event)
  BY <1>3, DatasType
<1>6. Decodes(B, k, "in", r, l, h, E)
  BY <1>2, DecodesData
<1>8. B \in Seq(Byte)
  BY <1>2, Concatenation
<1>9. Settled(B, k, "in", p)
  <2>1. d[1] < 128
    BY <1>3
  <2> QED BY <1>1, <1>2, <2>1, SettledData
<1>10. f \in Seq(Event) /\ Alike(e, f) /\ (c = {} => e = f /\ Timed("in", p, u, l, h, f, t, s))
  BY <1>1 DEF Matches
<1>15. Sysex(F)
  BY <1>10, SysexDatas
<1> HIDE DEF D, B
<1>11. E \in Seq(Event) /\ F \in Seq(Event) /\ Alike(E, F)
  <2>1. E \in Seq(Event)
    BY <1>2, <1>4, EventsConcat
  <2>2. F \in Seq(Event)
    BY <1>4, <1>10, EventsConcat
  <2>3. Alike(E, F)
    BY <1>2, <1>4, <1>10, AlikeSelf, AlikeMore
  <2> QED BY <2>1, <2>2, <2>3
<1>14. c = {} => E = F /\ Timed("in", p, u, l, h, F, t, s)
  <2>2. c = {} => E = F
    BY <1>10
  <2> HIDE DEF F
  <2>3. c = {} => Timed("in", p, u, l, h, F, t, s)
    BY <1>10, TimedWrites
  <2> QED BY <2>2, <2>3
<1> HIDE DEF E, F
<1>16. Says(B, "in", p, k, r, l, h, E)
  BY <1>2, <1>6, <1>8, <1>11 DEF Says
<1>17. Matches(E, F, "in", p, u, l, h, t, s, c)
  BY <1>11, <1>14 DEF Matches
<1>18. Good(B, "in", p, u, F, t, s, c)
  BY <1>9, <1>15, <1>16, <1>17 DEF Good
<1> QED BY <1>18 DEF B, F, D

(* The bytes of a message, as far as the kind of the packet needs them.    *)
LEMMA TailSettles ==
    ASSUME NEW w \in Writer, NEW m, Accepted(m), NEW t \in Timestamp, NEW k,
           NEW b \in Seq(Byte), Ready(b, k, "out", w.prev_running_status_byte)
    PROVE  Settled(b \o MessageTail(w, m, t), k, "out", RunningStatusAfter(w, m))
<1> DEFINE p == w.prev_running_status_byte
           d == MessageTail(w, m, t)
           q == RunningStatusAfter(w, m)
           s == StatusToSend(m)
           f == MessageData(m)
<1>1. s \in Byte /\ s >= 128 /\ f \in Seq(Byte) /\ message_size(s) = Len(f) + 1
  BY MessageParts
<1>2. d \in Seq(Byte)
  BY MessageAppended
<1>3. ~SkipStatusByte(w, m) =>
          d[1] = timestamp_byte(t) /\ d[2] = s /\ Ends(d, 2, f)
  BY TailForms
<1>4. p = 0 => ~SkipStatusByte(w, m)
  <2>1. s # 0
    <3> HIDE DEF s
    <3> QED BY <1>1 DEF Byte
  <2> QED BY <2>1 DEF SkipStatusByte
<1>5. is_realtime_message(s) => message_size(s) = 1 /\ ~is_channel_message(s)
  BY <1>1, MessageSizes
<1>6. p = 0 /\ is_realtime_message(s) => q = 0
  BY <1>5 DEF RunningStatusAfter
<1>7. timestamp_byte(t) >= 128
  BY TimeBytes
<1> HIDE DEF d, q, s, f, p
<1>8. Len(f) \in Nat
  BY <1>1
<1>9. p = 0 => d[1] >= 128 /\ d[2] = s /\ Len(d) = 2 + Len(f)
  BY <1>3, <1>4, <1>7 DEF Ends
<1>10. is_realtime_message(s) => Len(f) = 0
  <2>1. message_size(s) = Len(f) + 1
    BY <1>1
  <2> QED BY <1>5, <1>8, <2>1
<1>11. p = 0 => /\ 2 <= Len(d) /\ d[1] >= 128 /\ d[2] >= 128
                /\ is_realtime_message(d[2]) => Len(d) = 2
  <2>1. s >= 128
    BY <1>1
  <2> QED BY <1>8, <1>9, <1>10, <2>1
<1>12. p = 0 /\ is_realtime_message(d[2]) => q = 0
  BY <1>6, <1>9
<1>13. Ready(b, k, "out", p)
  BY DEF p
<1>14. Settled(b \o d, k, "out", q)
  BY <1>2, <1>11, <1>12, <1>13, SettledTail
<1> QED BY <1>14 DEF d, q

(* What a decoded message adds, and when it is heard.                      *)
LEMMA GoodMessage ==
    ASSUME NEW w \in Writer, NEW m, Accepted(m), NEW t \in Timestamp,
           NEW f, NEW s, NEW c, InTime(s, c),
           Begun(Opened(w, t), "out", w.prev_running_status_byte, w.prev_timestamp, f, t, s, c)
    PROVE  Good(Opened(w, t) \o MessageTail(w, m, t), "out", RunningStatusAfter(w, m), t,
                f \o <<MessageEvent(Meaning(m), t)>>, t, s, c)
<1> DEFINE p == w.prev_running_status_byte
           u == w.prev_timestamp
           q == RunningStatusAfter(w, m)
           b == Opened(w, t)
           d == MessageTail(w, m, t)
           B == b \o d
           M == Meaning(m)
           z == MessageEvent(M, t)
           F == f \o <<z>>
           y == timestamp_byte(t)
           a0 == t \div 128
<1>1. PICK k, r, l, h, e : /\ Says(b, "out", p, k, r, l, h, e) /\ Ready(b, k, "out", p)
                           /\ Matches(e, f, "out", p, u, l, h, t, s, c)
  BY DEF Begun
<1>2. /\ b \in Seq(Byte) /\ l \in Byte /\ h \in 0 .. 63 /\ e \in Seq(Event) /\ r \in Byte
      /\ Decodes(b, k, "out", r, l, h, e) /\ (p # 0 => r = p)
  BY <1>1 DEF Says
<1>3. y \in Byte /\ y >= 128 /\ t \in Nat /\ TimestampMs(a0, y) = t /\ y # 0
  <2>1. y \in Byte /\ y >= 128 /\ t \in Nat /\ TimestampMs(a0, y) = t
    BY TimeBytes, TimeParts
  <2> HIDE DEF y
  <2> QED BY <2>1
<1> DEFINE g == NextHigh(l, h, y)
<1>4. g \in 0 .. 63
  BY <1>2, <1>3, HighBits
<1>5. d \in Seq(Byte) /\ B \in Seq(Byte)
  <2>1. d \in Seq(Byte)
    BY MessageAppended
  <2> HIDE DEF d, b
  <2> QED BY <1>2, <2>1, Concatenation
<1>6. Settled(B, k, "out", q)
  BY <1>1, <1>2, TailSettles
<1>7. M \in Seq(Byte)
  <2> DEFINE S == StatusToSend(m)
             D == MessageData(m)
  <2>1. S \in Byte /\ D \in Seq(Byte) /\ <<S>> \o D = M
    BY MessageParts
  <2> HIDE DEF S, D
  <2>2. <<S>> \in Seq(Byte)
    BY <2>1
  <2>3. <<S>> \o D \in Seq(Byte)
    BY <2>1, <2>2, Concatenation
  <2> QED BY <2>1, <2>3
<1>8. f \in Seq(Event) /\ Alike(e, f) /\ (c = {} => e = f /\ Timed("out", p, u, l, h, f, t, s))
  BY <1>1 DEF Matches
<1>9. PICK a \in Byte :
              /\ q # 0 => a = q
              /\ ~SkipTimestamp(w, m, t) =>
                    Decodes(B, k, "out", a, y, g, Append(e, MessageEvent(M, TimestampMs(g, y))))
              /\ SkipTimestamp(w, m, t) =>
                    Decodes(B, k, "out", a, l, h, Append(e, MessageEvent(M, TimestampMs(h, l))))
  BY <1>2, MessageDecodes
<1>10. SkipTimestamp(w, m, t) => p # 0 /\ u = t
  <2>1. StatusToSend(m) \in Byte /\ StatusToSend(m) >= 128
    BY MessageParts
  <2>2. StatusToSend(m) # 0
    <3> DEFINE S == StatusToSend(m)
    <3>1. S \in Byte /\ S >= 128
      BY <2>1
    <3> HIDE DEF S
    <3>2. S # 0
      BY <3>1 DEF Byte
    <3> QED BY <3>2 DEF S
  <2> QED BY <2>2 DEF SkipTimestamp, SkipStatusByte
<1> HIDE DEF p, u, q, b, d, B, M, F, y, a0, g
<1>11. PICK L \in Byte, H \in 0 .. 63 :
          /\ Decodes(B, k, "out", a, L, H, Append(e, MessageEvent(M, TimestampMs(H, L))))
          /\ c = {} => L = y /\ H = a0
  <2>1. CASE ~SkipTimestamp(w, m, t)
    <3>1. c = {} => g = a0
      BY <1>8, TimedNext DEF InTime, g, y, a0
    <3> QED BY <1>3, <1>4, <1>9, <2>1, <3>1
  <2>2. CASE SkipTimestamp(w, m, t)
    <3>1. c = {} => l = y /\ h = a0
      BY <1>8, <1>10, <2>2, TimedSame DEF InTime, y, a0
    <3> QED BY <1>2, <1>9, <2>2, <3>1
  <2> QED BY <2>1, <2>2
<1> DEFINE v == MessageEvent(M, TimestampMs(H, L))
           E == Append(e, v)
<1>12. v \in Event /\ z \in Event /\ v.cb = z.cb /\ v.bytes = z.bytes
  <2>1. TimestampMs(H, L) \in Nat
    BY DEF TimestampMs, Byte
  <2>2. v \in Event /\ z \in Event
    BY <1>3, <1>7, <2>1, EventTypes
  <2> QED BY <2>2 DEF MessageEvent
<1>13. c = {} => v = z
  BY <1>3, <1>11
<1> HIDE DEF v, z
<1>14. E \in Seq(Event) /\ F \in Seq(Event) /\ Alike(E, F)
  BY <1>2, <1>8, <1>12, AlikeOne DEF F
<1>15. c = {} => E = F
  <2>1. E = e \o <<v>>
    BY <1>2, <1>12, OneMore
  <2> HIDE DEF E
  <2> QED BY <1>8, <1>13, <2>1 DEF F
<1>16. c = {} => Timed("out", q, t, L, H, F, t, s) /\ L # 0
  <2>1. Timed("out", q, t, y, a0, F, t, s)
    BY TimedNow DEF InTime, y, a0
  <2> QED BY <1>3, <1>11, <2>1
<1>17. Decodes(B, k, "out", a, L, H, E)
  BY <1>11 DEF v
<1> HIDE DEF E
<1>18. Says(B, "out", q, k, a, L, H, E)
  BY <1>5, <1>9, <1>14, <1>17 DEF Says
<1>19. Matches(E, F, "out", q, t, L, H, t, s, c)
  BY <1>14, <1>15, <1>16 DEF Matches
<1>20. Good(B, "out", q, t, F, t, s, c)
  BY <1>6, <1>16, <1>18, <1>19 DEF Good
<1> QED BY <1>20 DEF B, b, d, q, F, z, M

-----------------------------------------------------------------------------
(* Concatenation of callbacks.                                             *)
LEMMA EventsAssoc ==
    ASSUME NEW a \in Seq(Event), NEW b \in Seq(Event), NEW c \in Seq(Event)
    PROVE  Assoc(a, b, c)
<1> HIDE DEF Event
<1> QED BY ConcatAssociative DEF Assoc

(* The inner bytes of a sysex message.                                     *)
Inner(msg) == SubSeq(msg, 2, Len(msg) - 1)

(* A sysex message that the writer takes: start, data bytes, end.          *)
SysexShape(msg) ==
    /\ msg \in Seq(Byte) /\ 2 <= Len(msg) /\ msg[1] = \hF0 /\ msg[Len(msg)] = \hF7
    /\ \A i \in 2 .. Len(msg) - 1 : msg[i] < 128

(* The inner bytes are data bytes, and are sent as they are.               *)
LEMMA InnerBytes ==
    ASSUME NEW msg, SysexShape(msg), NEW y \in Byte
    PROVE  /\ Inner(msg) \in Seq(Byte) /\ Len(Inner(msg)) = Len(msg) - 2
           /\ \A j \in 1 .. Len(Inner(msg)) : Inner(msg)[j] < 128
           /\ \A j \in 1 .. Len(Inner(msg)) : Inner(msg)[j] = msg[j + 1]
           /\ <<y>> \o SubSeq(msg, 1, Len(msg) - 1) = <<y, \hF0>> \o Inner(msg)
<1>1. /\ msg \in Seq(Byte) /\ 2 <= Len(msg) /\ msg[1] = \hF0 /\ Len(msg) \in Nat
      /\ \A i \in 2 .. Len(msg) - 1 : msg[i] < 128
  BY DEF SysexShape
<1> DEFINE n == Len(msg)
           d == Inner(msg)
           a == SubSeq(msg, 1, n - 1)
<1>2. \A i \in 1 .. n : msg[i] \in Byte
  BY <1>1
<1>3. /\ d \in Seq(Byte) /\ Len(d) = n - 2
      /\ \A j \in 1 .. n - 2 : d[j] = msg[j + 1]
  <2>1. \A i \in 2 .. n - 1 : msg[i] \in Byte
    BY <1>1, <1>2
  <2>2. /\ d \in Seq(Byte)
        /\ Len(d) = IF 2 <= n - 1 THEN (n - 1) - 2 + 1 ELSE 0
        /\ \A j \in 1 .. (n - 1) - 2 + 1 : d[j] = msg[2 + j - 1]
    BY <1>1, <2>1, SubSeqProperties DEF Inner
  <2> HIDE DEF d
  <2>3. Len(d) = n - 2
    <3>1. Len(d) = IF 2 <= n - 1 THEN (n - 1) - 2 + 1 ELSE 0
      BY <2>2
    <3>2. n \in Nat /\ 2 <= n
      BY <1>1
    <3> HIDE DEF n
    <3> QED BY <3>1, <3>2
  <2>4. \A j \in 1 .. n - 2 : j \in 1 .. (n - 1) - 2 + 1 /\ 2 + j - 1 = j + 1
    BY <1>1
  <2> QED BY <2>2, <2>3, <2>4
<1>4. /\ a \in Seq(Byte) /\ Len(a) = n - 1
      /\ \A j \in 1 .. n - 1 : a[j] = msg[j]
  <2>1. \A i \in 1 .. n - 1 : msg[i] \in Byte
    BY <1>1, <1>2
  <2>2. /\ a \in Seq(Byte)
        /\ Len(a) = IF 1 <= n - 1 THEN (n - 1) - 1 + 1 ELSE 0
        /\ \A j \in 1 .. (n - 1) - 1 + 1 : a[j] = msg[1 + j - 1]
    BY <1>1, <2>1, SubSeqProperties
  <2> HIDE DEF a
  <2>3. Len(a) = n - 1
    BY <1>1, <2>2
  <2>4. \A j \in 1 .. n - 1 : j \in 1 .. (n - 1) - 1 + 1 /\ 1 + j - 1 = j
    BY <1>1
  <2> QED BY <2>2, <2>3, <2>4
<1> HIDE DEF d, a
<1>5. \A j \in 1 .. Len(d) : d[j] < 128 /\ d[j] = msg[j + 1]
  <2>1. \A j \in 1 .. Len(d) : j + 1 \in 2 .. Len(msg) - 1 /\ j \in 1 .. n - 2
    BY <1>1, <1>3
  <2> QED BY <1>1, <1>3, <2>1
<1>6. <<y>> \o a = <<y, \hF0>> \o d
  <2> DEFINE o == <<y>>
             q == <<y, \hF0>>
             g == o \o a
             h == q \o d
  <2>1. /\ o \in Seq(Byte) /\ Len(o) = 1 /\ o[1] = y
        /\ q \in Seq(Byte) /\ Len(q) = 2 /\ q[1] = y /\ q[2] = \hF0
    BY DEF Byte
  <2> HIDE DEF o, q
  <2>2. /\ g \in Seq(Byte) /\ Len(g) = 1 + (n - 1)
        /\ \A i \in 1 .. 1 : g[i] = o[i]
        /\ \A i \in 1 .. n - 1 : g[1 + i] = a[i]
    <3>0. a \in Seq(Byte) /\ o \in Seq(Byte)
      BY <1>4, <2>1
    <3>1. /\ g \in Seq(Byte) /\ Len(g) = Len(o) + Len(a)
          /\ \A i \in 1 .. Len(o) : g[i] = o[i]
          /\ \A i \in 1 .. Len(a) : g[Len(o) + i] = a[i]
      BY <3>0, Concatenation
    <3> HIDE DEF g, n
    <3> QED BY <1>4, <2>1, <3>1
  <2>3. /\ h \in Seq(Byte) /\ Len(h) = 2 + (n - 2)
        /\ \A i \in 1 .. 2 : h[i] = q[i]
        /\ \A i \in 1 .. n - 2 : h[2 + i] = d[i]
    <3>0. d \in Seq(Byte) /\ q \in Seq(Byte)
      BY <1>3, <2>1
    <3>1. /\ h \in Seq(Byte) /\ Len(h) = Len(q) + Len(d)
          /\ \A i \in 1 .. Len(q) : h[i] = q[i]
          /\ \A i \in 1 .. Len(d) : h[Len(q) + i] = d[i]
      BY <3>0, Concatenation
    <3> HIDE DEF h, n
    <3> QED BY <1>3, <2>1, <3>1
  <2> HIDE DEF g, h
  <2>4. Len(g) = n /\ Len(h) = n
    BY <1>1, <2>2, <2>3
  <2>5. g[1] = y /\ h[1] = y /\ h[2] = \hF0
    BY <2>1, <2>2, <2>3
  <2>6. ASSUME NEW i \in 1 .. n PROVE g[i] = h[i]
    <3>1. CASE i = 1
      BY <2>5, <3>1
    <3>2. CASE i = 2
      <4>1. 1 \in 1 .. n - 1 /\ 1 + 1 = i
        BY <1>1, <3>2
      <4>2. g[1 + 1] = a[1] /\ a[1] = msg[1]
        BY <1>4, <2>2, <4>1
      <4>3. g[i] = msg[1]
        BY <4>1, <4>2
      <4> QED BY <1>1, <2>5, <3>2, <4>3
    <3>3. CASE i > 2
      <4> DEFINE j == i - 2
      <4>1. j \in 1 .. n - 2 /\ j + 1 \in 1 .. n - 1 /\ 2 + j = i /\ 1 + (j + 1) = i
        BY <1>1, <3>3
      <4> HIDE DEF j
      <4>2. h[2 + j] = d[j] /\ d[j] = msg[j + 1]
        BY <1>3, <2>3, <4>1
      <4>3. g[1 + (j + 1)] = a[j + 1] /\ a[j + 1] = msg[j + 1]
        BY <1>4, <2>2, <4>1
      <4> QED BY <4>1, <4>2, <4>3
    <3> QED BY <3>1, <3>2, <3>3
  <2>7. g = h
    BY <2>2, <2>3, <2>4, <2>6, SeqEqual
  <2> QED BY <2>7 DEF g, h, o, q
<1> QED BY <1>3, <1>5, <1>6 DEF a, d

(* A whole sysex message is a start, data bytes and an end.                *)
LEMMA GoodSysexMsg ==
    ASSUME NEW b, NEW p, NEW u, NEW f, NEW t \in Timestamp, NEW s, NEW c, InTime(s, c),
           Begun(b, "out", p, u, f, t, s, c), NEW d \in Seq(Byte),
           \A j \in 1 .. Len(d) : d[j] < 128
    PROVE  Good(((b \o <<timestamp_byte(t), \hF0>>) \o d) \o <<timestamp_byte(t), \hF7>>,
                "out", 0, u,
                ((f \o <<StartEvent(t)>>) \o Datas(d, Len(d))) \o <<EndEvent(t)>>, t, s, c)
<1> DEFINE B == b \o <<timestamp_byte(t), \hF0>>
           F == f \o <<StartEvent(t)>>
           C == B \o d
           G == F \o Datas(d, Len(d))
<1>1. Good(B, "in", 0, u, F, t, s, c)
  BY GoodStart
<1>2. Good(C, "in", 0, u, G, t, s, c)
  <2>1. CASE d = <<>>
    <3>1. B \in Seq(Byte) /\ F \in Seq(Event)
      <4> HIDE DEF B, F
      <4> QED BY <1>1 DEF Good, Says, Matches
    <3> HIDE DEF B, F
    <3>2. C = B
      BY <2>1, <3>1, ConcatEmptySeq
    <3>3. Len(d) = 0
      BY <2>1
    <3>4. G = F
      BY <3>1, <3>3, DatasNone
    <3> QED BY <1>1, <3>2, <3>4
  <2>2. CASE d # <<>>
    <3> HIDE DEF B, F
    <3>1. Begun(B, "in", 0, u, F, t, s, c)
      BY <1>1, GoodBegun
    <3> QED BY <2>2, <3>1, GoodData
  <2> QED BY <2>1, <2>2
<1> HIDE DEF B, F, C, G
<1>3. Good(C \o <<timestamp_byte(t), \hF7>>, "out", 0, u, G \o <<EndEvent(t)>>, t, s, c)
  BY <1>2, GoodEnd
<1> QED BY <1>3 DEF B, C, F, G

-----------------------------------------------------------------------------
(* What the calls that succeed leave: the packet b, the running status p   *)
(* and the time u of the last message.                                     *)
Leaves(v, b, p, u) ==
    v.tx_buf = b /\ v.prev_running_status_byte = p /\ v.prev_timestamp = u

(* ble_midi_writer_add_msg outside a sysex message.                        *)
LEMMA MsgOutside ==
    ASSUME NEW w \in Writer, NEW m \in ThreeBytes, NEW t \in Timestamp, ~w.in_sysex_msg,
           ble_midi_writer_add_msg(w, m, t).rc = "SUCCESS"
    PROVE  /\ Accepted(m)
           /\ Leaves(ble_midi_writer_add_msg(w, m, t).w,
                     Opened(w, t) \o MessageTail(w, m, t), RunningStatusAfter(w, m), t)
<1> DEFINE r == ble_midi_writer_add_msg(w, m, t)
           bytes == MessageBytes(w, m, t)
           bad   == message_size(m[1]) = 0 \/ ~is_data_byte(m[2]) \/ ~is_data_byte(m[3])
<1>1. r = AddOutsideSysex(w, m, t) /\ r.rc = "SUCCESS"
  BY DEF ble_midi_writer_add_msg
<1> HIDE DEF bytes, r
<1>2. ~bad /\ Fits(w, bytes)
  BY <1>1 DEF AddOutsideSysex, Result, bytes
<1>3. r.w = [w EXCEPT !.tx_buf = w.tx_buf \o bytes,
                      !.prev_status_byte = StatusToSend(m),
                      !.prev_running_status_byte = RunningStatusAfter(w, m),
                      !.prev_timestamp = t]
  BY <1>1, <1>2 DEF Result, AddOutsideSysex, bytes
<1>4. Leaves(r.w, w.tx_buf \o bytes, RunningStatusAfter(w, m), t)
  BY <1>3 DEF Writer, Leaves
<1>5. Accepted(m)
  BY <1>2 DEF Accepted, is_data_byte
<1>6. w.tx_buf \o bytes = Opened(w, t) \o MessageTail(w, m, t)
  BY <1>5, MessageAppended DEF bytes
<1> QED BY <1>4, <1>5, <1>6 DEF r

(* ble_midi_writer_add_msg inside a sysex message.                         *)
LEMMA MsgInside ==
    ASSUME NEW w \in Writer, NEW m \in ThreeBytes, NEW t \in Timestamp, w.in_sysex_msg,
           ble_midi_writer_add_msg(w, m, t).rc = "SUCCESS"
    PROVE  /\ is_realtime_message(m[1]) /\ m[1] \in Byte /\ Meaning(m) = <<m[1]>>
           /\ Leaves(ble_midi_writer_add_msg(w, m, t).w,
                     w.tx_buf \o <<timestamp_byte(t), m[1]>>,
                     w.prev_running_status_byte, w.prev_timestamp)
<1> DEFINE r == ble_midi_writer_add_msg(w, m, t)
           bytes == <<timestamp_byte(t), m[1]>>
<1>1. r = (IF ~is_realtime_message(m[1]) THEN Result("INVALID_STATUS_BYTE", w)
           ELSE IF ~Fits(w, bytes)       THEN Result("PACKET_FULL", w)
           ELSE Result("SUCCESS", [w EXCEPT !.tx_buf = @ \o bytes]))
      /\ r.rc = "SUCCESS"
  BY DEF ble_midi_writer_add_msg, AddInSysex
<1> HIDE DEF bytes, r
<1>2. is_realtime_message(m[1]) /\ Fits(w, bytes)
  BY <1>1 DEF Result
<1>3. r.w = [w EXCEPT !.tx_buf = w.tx_buf \o bytes]
  BY <1>1, <1>2 DEF Result
<1>4. Leaves(r.w, w.tx_buf \o bytes, w.prev_running_status_byte, w.prev_timestamp)
  BY <1>3 DEF Writer, Leaves
<1>5. m[1] \in Byte /\ Len(m) = 3 /\ m \in Seq(Byte)
  BY DEF ThreeBytes
<1>6. message_size(m[1]) = 1 /\ m[1] \div 16 # 8
  <2>1. message_size(m[1]) = 1
    BY <1>2, <1>5, MessageSizes
  <2>2. m[1] \div 16 = 15
    BY <1>2 DEF is_realtime_message
  <2> QED BY <2>1, <2>2
<1>7. Meaning(m) = SubSeq(m, 1, 1)
  BY <1>6 DEF Meaning
<1>8. SubSeq(m, 1, 1) = <<m[1]>>
  <2> DEFINE a == SubSeq(m, 1, 1)
             o == <<m[1]>>
  <2>1. \A i \in 1 .. 1 : m[i] \in Byte
    BY <1>5
  <2>2. a \in Seq(Byte) /\ Len(a) = 1 /\ a[1] = m[1]
    BY <1>5, <2>1, SubSeqProperties
  <2>3. o \in Seq(Byte) /\ Len(o) = 1 /\ o[1] = m[1]
    BY <1>5
  <2> HIDE DEF a, o
  <2>4. a = o
    BY <2>2, <2>3, SeqEqual
  <2> QED BY <2>4 DEF a, o
<1> QED BY <1>2, <1>4, <1>5, <1>7, <1>8 DEF r, bytes

(* append_status_byte_with_timestamp.                                      *)
LEMMA StatusAppended ==
    ASSUME NEW w \in Writer, NEW t \in Timestamp, NEW status \in Byte
    PROVE  LET r == append_status_byte_with_timestamp(w, t, status)
           IN  r.rc = "SUCCESS" =>
                 /\ Leaves(r.w, Opened(w, t) \o <<timestamp_byte(t), status>>,
                           w.prev_running_status_byte, w.prev_timestamp)
                 /\ Len(Opened(w, t)) + 2 <= w.tx_buf_max_size
<1> DEFINE head == IF w.tx_buf = <<>> THEN <<header_byte(t)>> ELSE <<>>
           tail == <<timestamp_byte(t), status>>
           bytes == head \o tail
           r == append_status_byte_with_timestamp(w, t, status)
<1> SUFFICES ASSUME r.rc = "SUCCESS"
             PROVE  /\ Leaves(r.w, Opened(w, t) \o tail,
                              w.prev_running_status_byte, w.prev_timestamp)
                    /\ Len(Opened(w, t)) + 2 <= w.tx_buf_max_size
  OBVIOUS
<1>1. timestamp_byte(t) \in Byte /\ header_byte(t) \in Byte
  BY TimeBytes
<1>2. head \in Seq(Byte) /\ tail \in Seq(Byte) /\ w.tx_buf \in Seq(Byte) /\ Len(tail) = 2
  <2>1. <<header_byte(t)>> \in Seq(Byte)
    BY <1>1
  <2>2. tail \in Seq(Byte) /\ Len(tail) = 2
    BY <1>1
  <2>3. w.tx_buf \in Seq(Byte)
    BY DEF Writer
  <2> QED BY <2>1, <2>2, <2>3
<1>3. Opened(w, t) = w.tx_buf \o head
  <2>1. CASE w.tx_buf = <<>>
    <3>1. head = <<header_byte(t)>> /\ Opened(w, t) = <<header_byte(t)>>
      BY <2>1 DEF Opened
    <3> HIDE DEF head
    <3>2. <<>> \o head = head
      BY <1>2, ConcatEmptySeq
    <3> QED BY <2>1, <3>1, <3>2
  <2>2. CASE w.tx_buf # <<>>
    <3>1. head = <<>> /\ Opened(w, t) = w.tx_buf
      BY <2>2 DEF Opened
    <3> HIDE DEF head
    <3>2. w.tx_buf \o <<>> = w.tx_buf
      BY <1>2, ConcatEmptySeq
    <3> QED BY <3>1, <3>2
  <2> QED BY <2>1, <2>2
<1>4. r = IF Fits(w, bytes)
          THEN Result("SUCCESS", [w EXCEPT !.tx_buf = @ \o bytes])
          ELSE Result("PACKET_FULL", w)
  BY DEF append_status_byte_with_timestamp
<1> HIDE DEF head, tail, r
<1>5. w.tx_buf \o bytes = Opened(w, t) \o tail
  <2>1. Assoc(w.tx_buf, head, tail)
    BY <1>2, BytesAssoc
  <2> QED BY <1>3, <2>1 DEF Assoc
<1>6. Len(bytes) = Len(head) + Len(tail) /\ Len(Opened(w, t)) = Len(w.tx_buf) + Len(head)
      /\ Len(head) \in Nat /\ Len(w.tx_buf) \in Nat
  <2>0. head \in Seq(Byte) /\ tail \in Seq(Byte)
    BY <1>2
  <2>1. Len(bytes) = Len(head) + Len(tail)
    BY <2>0, Concatenation
  <2> DEFINE b == w.tx_buf
  <2>2. b \in Seq(Byte)
    BY <1>2
  <2> HIDE DEF b, bytes
  <2>3. Len(b \o head) = Len(b) + Len(head)
    BY <1>2, <2>2, Concatenation
  <2>4. Len(head) \in Nat /\ Len(b) \in Nat
    BY <1>2, <2>2
  <2> QED BY <1>3, <2>1, <2>3, <2>4 DEF b
<1> HIDE DEF bytes
<1>7. Fits(w, bytes) /\ r.w = [w EXCEPT !.tx_buf = w.tx_buf \o bytes]
  BY <1>4 DEF Result
<1>8. Leaves(r.w, w.tx_buf \o bytes, w.prev_running_status_byte, w.prev_timestamp)
  BY <1>7 DEF Writer, Leaves
<1>9. Len(Opened(w, t)) + 2 <= w.tx_buf_max_size
  <2>1. Len(w.tx_buf) + Len(bytes) <= w.tx_buf_max_size
    BY <1>7 DEF Fits
  <2>2. w.tx_buf_max_size \in Int
    BY WriterConstants DEF Writer
  <2> DEFINE i == Len(w.tx_buf)
             j == Len(head)
  <2>3. i \in Nat /\ j \in Nat /\ Len(bytes) = j + 2 /\ Len(Opened(w, t)) = i + j
        /\ i + Len(bytes) <= w.tx_buf_max_size
    BY <1>2, <1>6, <2>1
  <2> HIDE DEF i, j
  <2> QED BY <2>2, <2>3
<1> QED BY <1>5, <1>8, <1>9

(* ble_midi_writer_start_sysex_msg.                                        *)
LEMMA StartLeaves ==
    ASSUME NEW w \in Writer, NEW t \in Timestamp,
           ble_midi_writer_start_sysex_msg(w, t).rc = "SUCCESS"
    PROVE  LET v == ble_midi_writer_start_sysex_msg(w, t).w
           IN  /\ ~w.in_sysex_msg /\ v.in_sysex_msg
               /\ Leaves(v, Opened(w, t) \o <<timestamp_byte(t), \hF0>>, 0, w.prev_timestamp)
               /\ Len(Opened(w, t)) + 2 <= w.tx_buf_max_size
<1> DEFINE a == append_status_byte_with_timestamp(w, t, 240)
           r == ble_midi_writer_start_sysex_msg(w, t)
           c == Opened(w, t) \o <<timestamp_byte(t), 240>>
<1>0. 240 \in Byte
  BY DEF Byte
<1>1. /\ WriterStep(w, a.w)
      /\ a.rc \in {"SUCCESS", "PACKET_FULL"}
  BY <1>0, AppendStatus
<1>2. a.rc = "SUCCESS" =>
         /\ Leaves(a.w, c, w.prev_running_status_byte, w.prev_timestamp)
         /\ Len(Opened(w, t)) + 2 <= w.tx_buf_max_size
  BY <1>0, StatusAppended
<1>3. r = (IF w.in_sysex_msg THEN Result("ALREADY_IN_SYSEX_SEQUENCE", w)
           ELSE IF a.rc = "SUCCESS"
           THEN Result(a.rc, [a.w EXCEPT !.in_sysex_msg = TRUE,
                                         !.prev_running_status_byte = 0])
           ELSE a) /\ r.rc = "SUCCESS"
  BY DEF ble_midi_writer_start_sysex_msg
<1> HIDE DEF a, r, c
<1>4. ~w.in_sysex_msg /\ a.rc = "SUCCESS"
  BY <1>3 DEF Result
<1>5. r.w = [a.w EXCEPT !.in_sysex_msg = TRUE, !.prev_running_status_byte = 0]
  BY <1>3, <1>4 DEF Result
<1>6. r.w.in_sysex_msg = TRUE /\ r.w.prev_running_status_byte = 0
      /\ r.w.tx_buf = a.w.tx_buf /\ r.w.prev_timestamp = a.w.prev_timestamp
  <2>1. a.w \in Writer
    BY <1>1 DEF WriterStep
  <2> QED BY <1>5, <2>1 DEF Writer
<1> QED BY <1>2, <1>4, <1>6 DEF Leaves, r, c

(* ble_midi_writer_end_sysex_msg.                                          *)
LEMMA EndLeaves ==
    ASSUME NEW w \in Writer, NEW t \in Timestamp,
           ble_midi_writer_end_sysex_msg(w, t).rc = "SUCCESS"
    PROVE  LET v == ble_midi_writer_end_sysex_msg(w, t).w
           IN  /\ w.in_sysex_msg /\ ~v.in_sysex_msg
               /\ Leaves(v, Opened(w, t) \o <<timestamp_byte(t), \hF7>>,
                         w.prev_running_status_byte, w.prev_timestamp)
<1> DEFINE a == append_status_byte_with_timestamp(w, t, 247)
           r == ble_midi_writer_end_sysex_msg(w, t)
           c == Opened(w, t) \o <<timestamp_byte(t), 247>>
<1>0. 247 \in Byte
  BY DEF Byte
<1>1. /\ WriterStep(w, a.w)
      /\ a.rc \in {"SUCCESS", "PACKET_FULL"}
  BY <1>0, AppendStatus
<1>2. a.rc = "SUCCESS" =>
         Leaves(a.w, c, w.prev_running_status_byte, w.prev_timestamp)
  BY <1>0, StatusAppended
<1>3. r = (IF ~w.in_sysex_msg THEN Result("NOT_IN_SYSEX_SEQUENCE", w)
           ELSE IF a.rc = "SUCCESS"
           THEN Result(a.rc, [a.w EXCEPT !.in_sysex_msg = FALSE])
           ELSE a) /\ r.rc = "SUCCESS"
  BY DEF ble_midi_writer_end_sysex_msg
<1> HIDE DEF a, r, c
<1>4. w.in_sysex_msg /\ a.rc = "SUCCESS"
  BY <1>3 DEF Result
<1>5. r.w = [a.w EXCEPT !.in_sysex_msg = FALSE]
  BY <1>3, <1>4 DEF Result
<1>6. r.w.in_sysex_msg = FALSE
      /\ r.w.prev_running_status_byte = a.w.prev_running_status_byte
      /\ r.w.tx_buf = a.w.tx_buf /\ r.w.prev_timestamp = a.w.prev_timestamp
  <2>1. a.w \in Writer
    BY <1>1 DEF WriterStep
  <2> QED BY <1>5, <2>1 DEF Writer
<1> QED BY <1>2, <1>4, <1>6 DEF Leaves, r, c

(* ble_midi_writer_add_sysex_data inside a sysex message, or to an empty   *)
(* packet.                                                                 *)
LEMMA DataLeaves ==
    ASSUME NEW w \in Writer, NEW d \in Seq(Byte), NEW t \in Timestamp,
           ble_midi_writer_add_sysex_data(w, d, t).rc = "SUCCESS"
    PROVE  LET r == ble_midi_writer_add_sysex_data(w, d, t)
           IN  /\ r.n \in 0 .. Len(d)
               /\ Leaves(r.w, Opened(w, t) \o SubSeq(d, 1, r.n),
                         w.prev_running_status_byte, w.prev_timestamp)
               /\ Len(Opened(w, t)) < w.tx_buf_max_size /\ d # <<>> => r.n # 0
               /\ \A i \in 1 .. Len(d) : d[i] < 128
               /\ w.tx_buf = <<>> => 1 <= w.tx_buf_max_size
<1> DEFINE r == ble_midi_writer_add_sysex_data(w, d, t)
           start == IF w.tx_buf = <<>> THEN <<header_byte(t)>> ELSE w.tx_buf
           n     == NumDataBytesToAdd(w.tx_buf_max_size - Len(start), Len(d))
           bad   == \/ ~w.in_sysex_msg /\ w.tx_buf # <<>>
                    \/ \E i \in 1 .. Len(d) : ~is_data_byte(d[i])
                    \/ w.tx_buf = <<>> /\ w.tx_buf_max_size < 1
<1>1. ~bad
  BY DEF ble_midi_writer_add_sysex_data
<1>2. r = [rc |-> "SUCCESS", n |-> n,
           w  |-> [w EXCEPT !.tx_buf = start \o SubSeq(d, 1, n)]]
  BY <1>1 DEF ble_midi_writer_add_sysex_data
<1>3. start = Opened(w, t)
  BY DEF Opened
<1>4. \A i \in 1 .. Len(d) : d[i] < 128
  BY <1>1 DEF is_data_byte
<1>5. w.tx_buf_max_size \in Nat /\ (w.tx_buf = <<>> => 1 <= w.tx_buf_max_size)
  <2>1. w.tx_buf_max_size \in Nat
    BY WriterConstants DEF Writer
  <2>2. w.tx_buf = <<>> => ~(w.tx_buf_max_size < 1)
    BY <1>1
  <2> QED BY <2>1, <2>2
<1>6. r.n \in 0 .. Len(d)
  BY DataStep
<1> HIDE DEF start, r
<1>7. r.n = n /\ r.w = [w EXCEPT !.tx_buf = start \o SubSeq(d, 1, n)]
  BY <1>2
<1>8. Leaves(r.w, start \o SubSeq(d, 1, n), w.prev_running_status_byte, w.prev_timestamp)
  <2> HIDE DEF n
  <2> QED BY <1>7 DEF Leaves, Writer
<1>9. Len(start) < w.tx_buf_max_size /\ d # <<>> => n # 0
  <2>1. d # <<>> => Len(d) \in Nat /\ Len(d) # 0
    BY EmptySeq
  <2>2. start \in Seq(Byte)
    BY <1>3, OpenedType
  <2>3. Len(start) \in Nat
    BY <2>2
  <2> QED BY <1>5, <2>1, <2>3 DEF NumDataBytesToAdd
<1> HIDE DEF n
<1> QED BY <1>3, <1>4, <1>5, <1>6, <1>7, <1>8, <1>9 DEF r

(* ble_midi_writer_add_sysex_msg.                                          *)
LEMMA SysexMsgLeaves ==
    ASSUME NEW w \in Writer, NEW msg \in Seq(Byte), NEW t \in Timestamp,
           ble_midi_writer_add_sysex_msg(w, msg, t).rc = "SUCCESS"
    PROVE  LET v == ble_midi_writer_add_sysex_msg(w, msg, t).w
           IN  /\ SysexShape(msg)
               /\ Leaves(v, ((Opened(w, t) \o <<timestamp_byte(t), \hF0>>) \o Inner(msg))
                            \o <<timestamp_byte(t), \hF7>>, 0, w.prev_timestamp)
               /\ WriterStep(w, v) /\ v.in_sysex_msg = w.in_sysex_msg
<1> DEFINE r     == ble_midi_writer_add_sysex_msg(w, msg, t)
           last  == Len(msg)
           head  == IF w.tx_buf = <<>> THEN <<header_byte(t)>> ELSE <<>>
           y     == timestamp_byte(t)
           one   == <<y>>
           body  == SubSeq(msg, 1, last - 1)
           end   == <<y, msg[last]>>
           bytes == head \o one \o body \o end
<1>1. /\ ~(last < 2) /\ msg[1] = \hF0 /\ msg[last] = \hF7
      /\ ~(\E i \in 2 .. last - 1 : ~is_data_byte(msg[i]))
      /\ Fits(w, bytes)
      /\ r = Result("SUCCESS", [w EXCEPT !.tx_buf = @ \o bytes,
                                         !.prev_running_status_byte = 0])
  BY DEF ble_midi_writer_add_sysex_msg, Result
<1>2. SysexShape(msg)
  <2>1. \A i \in 2 .. last - 1 : msg[i] < 128
    BY <1>1 DEF is_data_byte
  <2>2. 2 <= last
    BY <1>1
  <2> QED BY <1>1, <2>1, <2>2 DEF SysexShape
<1>3. y \in Byte /\ header_byte(t) \in Byte
  BY TimeBytes
<1>4. Inner(msg) \in Seq(Byte) /\ one \o body = <<y, \hF0>> \o Inner(msg)
  <2> HIDE DEF y
  <2> QED BY <1>2, <1>3, InnerBytes
<1>5. head \in Seq(Byte) /\ one \in Seq(Byte) /\ body \in Seq(Byte) /\ end \in Seq(Byte)
      /\ <<y, \hF0>> \in Seq(Byte) /\ end = <<y, \hF7>> /\ w.tx_buf \in Seq(Byte)
  <2>1. \hF0 \in Byte /\ \hF7 \in Byte
    BY DEF Byte
  <2>2. <<header_byte(t)>> \in Seq(Byte)
    BY <1>3
  <2>3. head \in Seq(Byte)
    BY <2>2
  <2>4. \A i \in 1 .. last - 1 : msg[i] \in Byte
    <3>1. \A i \in 1 .. last - 1 : i \in 1 .. Len(msg)
      OBVIOUS
    <3> QED BY <3>1
  <2>5. body \in Seq(Byte)
    BY <1>1, <2>4, SubSeqProperties
  <2> HIDE DEF y
  <2>6. one \in Seq(Byte) /\ <<y, \hF0>> \in Seq(Byte) /\ <<y, \hF7>> \in Seq(Byte)
    BY <1>3, <2>1
  <2>7. end = <<y, \hF7>>
    BY <1>1
  <2>8. w.tx_buf \in Seq(Byte)
    BY DEF Writer
  <2> QED BY <2>3, <2>5, <2>6, <2>7, <2>8
<1>6. Opened(w, t) = w.tx_buf \o head /\ Opened(w, t) \in Seq(Byte)
  <2>1. CASE w.tx_buf = <<>>
    <3>1. head = <<header_byte(t)>> /\ Opened(w, t) = <<header_byte(t)>>
      BY <2>1 DEF Opened
    <3> HIDE DEF head
    <3>2. <<>> \o head = head
      BY <1>5, ConcatEmptySeq
    <3> QED BY <2>1, <3>1, <3>2, OpenedType
  <2>2. CASE w.tx_buf # <<>>
    <3>1. head = <<>> /\ Opened(w, t) = w.tx_buf
      BY <2>2 DEF Opened
    <3> HIDE DEF head
    <3>2. w.tx_buf \o <<>> = w.tx_buf
      BY <1>5, ConcatEmptySeq
    <3> QED BY <3>1, <3>2, OpenedType
  <2> QED BY <2>1, <2>2
<1> DEFINE two  == <<y, \hF0>>
           B    == Opened(w, t)
           mid  == Inner(msg)
<1>7. bytes \in Seq(Byte) /\ w.tx_buf \o bytes = ((B \o two) \o mid) \o end
  <2> HIDE DEF head, one, body, end, two, mid, B
  <2>1. head \o one \in Seq(Byte)
    BY <1>5, Concatenation
  <2>2. (head \o one) \o body \in Seq(Byte)
    BY <1>5, <2>1, Concatenation
  <2>3. bytes \in Seq(Byte)
    BY <1>5, <2>2, Concatenation
  <2>4. AssocFour(w.tx_buf, head, one, body, end)
    BY <1>5, AssociateFour
  <2>5. B \in Seq(Byte) /\ B = w.tx_buf \o head /\ two \in Seq(Byte) /\ mid \in Seq(Byte)
        /\ one \o body = two \o mid
    BY <1>4, <1>5, <1>6 DEF B, two, mid
  <2>6. w.tx_buf \o bytes = B \o ((two \o mid) \o end)
    BY <2>4, <2>5 DEF AssocFour
  <2>7. two \o mid \in Seq(Byte)
    BY <2>5, Concatenation
  <2> DEFINE tm == two \o mid
  <2> HIDE DEF tm
  <2>8. Assoc(B, tm, end)
    BY <1>5, <2>5, <2>7, BytesAssoc DEF tm
  <2>9. Assoc(B, two, mid)
    BY <2>5, BytesAssoc
  <2> QED BY <2>3, <2>6, <2>8, <2>9 DEF Assoc, tm
<1>8. /\ w.tx_buf \o bytes \in Seq(Byte)
      /\ Len(w.tx_buf \o bytes) <= w.tx_buf_max_size
  <2>1. Fits(w, bytes) /\ bytes \in Seq(Byte)
    BY <1>1, <1>7
  <2> HIDE DEF bytes
  <2> QED BY <2>1, AppendBytes
<1> HIDE DEF bytes, r
<1>9. r.w = [w EXCEPT !.tx_buf = w.tx_buf \o bytes, !.prev_running_status_byte = 0]
  BY <1>1 DEF Result
<1>10. /\ r.w \in Writer /\ r.w.tx_buf = w.tx_buf \o bytes /\ r.w.prev_running_status_byte = 0
       /\ r.w.prev_timestamp = w.prev_timestamp /\ r.w.in_sysex_msg = w.in_sysex_msg
       /\ r.w.tx_buf_max_size = w.tx_buf_max_size
  <2>1. 0 \in Byte
    BY DEF Byte
  <2> QED BY <1>8, <1>9, <2>1 DEF Writer
<1> HIDE DEF end
<1>11. Leaves(r.w, ((B \o two) \o mid) \o end, 0, w.prev_timestamp)
  BY <1>7, <1>10 DEF Leaves
<1>12. WriterStep(w, r.w)
  BY <1>8, <1>10 DEF WriterStep
<1> QED BY <1>2, <1>5, <1>10, <1>11, <1>12 DEF r, B, two, mid

(* Time passes while the packet is written.                                *)
LEMMA GoodTick ==
    ASSUME NEW b, NEW x, NEW p, NEW u, NEW f, NEW t \in Timestamp, NEW s \in Nat,
           NEW e \in Nat, s + e <= 127, Good(b, x, p, u, f, t, s, {}),
           ~(Sysex(f) /\ (t % 128) + e >= 128)
    PROVE  Good(b, x, p, u, f, (t + e) % 8192, s + e, {})
<1>1. PICK k, r, l, h, v : /\ Says(b, x, p, k, r, l, h, v) /\ Settled(b, k, x, p)
                           /\ Matches(v, f, x, p, u, l, h, t, s, {})
                           /\ x = "in" \/ l = 0 => Sysex(f)
  BY DEF Good
<1>2. f \in Seq(Event) /\ Alike(v, f) /\ v = f /\ Timed(x, p, u, l, h, f, t, s)
  BY <1>1 DEF Matches
<1>3. Near(x, l, f) => (t % 128) + e < 128
  <2>1. Near(x, l, f) => Sysex(f)
    BY <1>1 DEF Near
  <2>2. t % 128 \in Nat
    BY TimeParts
  <2>3. Sysex(f) => ~((t % 128) + e >= 128)
    OBVIOUS
  <2> QED BY <2>1, <2>2, <2>3
<1>4. Timed(x, p, u, l, h, f, (t + e) % 8192, s + e)
  BY <1>2, <1>3, TimedTick
<1>5. Matches(v, f, x, p, u, l, h, (t + e) % 8192, s + e, {})
  BY <1>2, <1>4 DEF Matches
<1> QED BY <1>1, <1>5 DEF Good

(* A packet whose timestamps no longer matter.                             *)
LEMMA GoodLate ==
    ASSUME NEW b, NEW x, NEW p, NEW u, NEW f, NEW t, NEW s, NEW c,
           Good(b, x, p, u, f, t, s, c), NEW o, NEW n, NEW a, a # {}
    PROVE  Good(b, x, p, u, f, o, n, a)
<1>1. PICK k, r, l, h, v : /\ Says(b, x, p, k, r, l, h, v) /\ Settled(b, k, x, p)
                           /\ Matches(v, f, x, p, u, l, h, t, s, c)
  BY DEF Good
<1>2. Matches(v, f, x, p, u, l, h, o, n, a)
  BY <1>1 DEF Matches
<1> QED BY <1>1, <1>2 DEF Good

(* The callbacks of the data bytes that were taken.                        *)
LEMMA DatasTaken ==
    ASSUME NEW d \in Seq(Byte), NEW n \in 0 .. Len(d)
    PROVE  /\ SubSeq(d, 1, n) \in Seq(Byte) /\ Len(SubSeq(d, 1, n)) = n
           /\ \A j \in 1 .. n : SubSeq(d, 1, n)[j] = d[j]
           /\ Datas(SubSeq(d, 1, n), n) = Datas(d, n)
<1> DEFINE q == SubSeq(d, 1, n)
<1>1. \A i \in 1 .. n : d[i] \in Byte
  OBVIOUS
<1>2. /\ q \in Seq(Byte) /\ Len(q) = n /\ \A j \in 1 .. n : q[j] = d[j]
  <2>1. /\ q \in Seq(Byte) /\ Len(q) = IF 1 <= n THEN n - 1 + 1 ELSE 0
        /\ \A j \in 1 .. n - 1 + 1 : q[j] = d[1 + j - 1]
    BY <1>1, SubSeqProperties
  <2> HIDE DEF q
  <2>2. n - 1 + 1 = n /\ n \in Nat /\ \A j \in 1 .. n : 1 + j - 1 = j
    OBVIOUS
  <2> QED BY <2>1, <2>2
<1> HIDE DEF q
<1>3. Datas(q, n) = Datas(d, n)
  BY <1>2 DEF Datas
<1> QED BY <1>2, <1>3 DEF q

(* The callbacks of a whole sysex message.                                 *)
LEMMA SysexMsgEvents ==
    ASSUME NEW msg, SysexShape(msg), NEW f \in Seq(Event), NEW t \in Timestamp
    PROVE  f \o (<<StartEvent(t)>>
                 \o [i \in 1 .. Len(msg) - 2 |-> DataEvent(msg[i + 1])]
                 \o <<EndEvent(t)>>)
           = ((f \o <<StartEvent(t)>>) \o Datas(Inner(msg), Len(Inner(msg)))) \o <<EndEvent(t)>>
<1> DEFINE d == Inner(msg)
           a == <<StartEvent(t)>>
           g == Datas(d, Len(d))
           z == <<EndEvent(t)>>
<1>1. PICK y \in Byte : TRUE
  BY DEF Byte
<1>2. d \in Seq(Byte) /\ Len(d) = Len(msg) - 2 /\ \A j \in 1 .. Len(d) : d[j] = msg[j + 1]
  BY <1>1, InnerBytes
<1>3. [i \in 1 .. Len(msg) - 2 |-> DataEvent(msg[i + 1])] = g
  <2> HIDE DEF d
  <2> QED BY <1>2 DEF Datas
<1>4. g \in Seq(Event)
  <2>1. Len(d) \in 0 .. Len(d)
    <3>1. Len(d) \in Nat
      BY <1>2
    <3> QED BY <3>1
  <2> HIDE DEF d
  <2> QED BY <1>2, <2>1, DatasType
<1>5. a \in Seq(Event) /\ z \in Seq(Event)
  <2>1. t \in Nat
    BY TimeParts
  <2>2. StartEvent(t) \in Event /\ EndEvent(t) \in Event
    BY <2>1, EventTypes
  <2> QED BY <2>2, OneMore
<1> HIDE DEF a, g, z, d
<1>6. a \o g \in Seq(Event)
  BY <1>4, <1>5, EventsConcat
<1> DEFINE ag == a \o g
<1>7. Assoc(f, a, g)
  BY <1>4, <1>5, EventsAssoc
<1>8. ag \in Seq(Event)
  BY <1>6
<1> HIDE DEF ag
<1>9. Assoc(f, ag, z)
  BY <1>5, <1>8, EventsAssoc
<1>10. f \o (ag \o z) = ((f \o a) \o g) \o z
  BY <1>7, <1>9 DEF Assoc, ag
<1> QED BY <1>3, <1>10 DEF ag, a, z, g, d
=============================================================================
