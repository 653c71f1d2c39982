------------------------- MODULE SingleMsgTxProofs --------------------------
(***************************************************************************)
(* The single message mode: proofs about SingleMsgTx.                      *)
(*                                                                         *)
(* Every call resets the writer first, so that what the peer hears of a    *)
(* packet is a function of the call and of whether the writer is inside a  *)
(* sysex message.  The invariants are therefore small (the writer has its  *)
(* type; for SaidIsHeard, its limit is five bytes or more), and the work   *)
(* is in the packets that a call can make: none of them makes the parser   *)
(* say anything that was not asked for.                                    *)
(***************************************************************************)
EXTENDS SingleMsgTx, BleMidiPacketProofs

-----------------------------------------------------------------------------
(* What the peer hears of the packets that a single call makes.            *)

(* A packet that is empty says nothing.                                    *)
LEMMA EmptyHeard == midi_write_cb(<<>>) = <<>>
<1> DEFINE b == <<>>
<1>1. Len(b) = 0
  OBVIOUS
<1> HIDE DEF b
<1>2. LeadingRealtime(b) = 0
  <2>1. ~RealtimeAt(b, 0)
    BY <1>1 DEF RealtimeAt
  <2>2. \E k \in 0 .. Len(b) : (\A j \in 0 .. k - 1 : RealtimeAt(b, j)) /\ ~RealtimeAt(b, k)
    <3>1. 0 \in 0 .. Len(b) /\ \A j \in 0 .. 0 - 1 : RealtimeAt(b, j)
      BY <1>1
    <3> QED BY <2>1, <3>1
  <2>3. LeadingRealtime(b) \in 0 .. Len(b)
    BY <2>2 DEF LeadingRealtime
  <2> QED BY <1>1, <2>3
<1>3. is_sysex_continuation(b).rc # "SUCCESS"
  BY <1>1, <1>2 DEF is_sysex_continuation
<1>4. Len(b) \in Nat
  BY <1>1
<1>5. ble_midi_parse_packet(b).events = <<>>
  BY <1>3, <1>4, HeaderFails
<1> QED BY <1>5 DEF midi_write_cb, b

(* A header byte says nothing.                                             *)
LEMMA HeaderHeard ==
    ASSUME NEW y \in Byte, y >= 128
    PROVE  midi_write_cb(<<y>>) = <<>>
<1> DEFINE b == <<y>>
<1>1. b \in Seq(Byte) /\ Len(b) = 1 /\ b[1] = y
  OBVIOUS
<1> HIDE DEF b
<1>2. Realtimes(b, 0) /\ Len(b) = 2 * 0 + 1
  BY <1>1 DEF Realtimes
<1>3. PlainHeader(b)
  BY <1>1, <1>2, RealtimeHeader
<1>4. OutAt(b, 1, 0, 0, b[1] % 64, <<>>)
  BY <1>1, <1>3, HeaderOutside
<1>5. OutAt(b, Len(b), 0, 0, b[1] % 64, <<>>)
  BY <1>1, <1>4
<1>6. ble_midi_parse_packet(b).events = <<>>
  BY <1>5, OutAtDone
<1> QED BY <1>6 DEF midi_write_cb, b

(* A real time message without a header byte is an error.                  *)
LEMMA BareHeard ==
    ASSUME NEW y \in Byte, NEW s \in Byte, y >= 128, s >= 128
    PROVE  midi_write_cb(<<y, s>>) = <<>>
<1> DEFINE b == <<y, s>>
<1>1. b \in Seq(Byte) /\ Len(b) = 2 /\ b[1] = y /\ b[2] = s
  OBVIOUS
<1> HIDE DEF b
<1>2. Realtimes(b, 0) /\ ~RealtimeAt(b, 0)
  BY <1>1 DEF Realtimes, RealtimeAt
<1>3. LeadingRealtime(b) = 0
  BY <1>1, <1>2, LeadingIs
<1>4. ~is_data_byte(b[2]) /\ is_status_byte(b[2])
  BY <1>1 DEF is_data_byte, is_status_byte, Byte
<1>5. is_sysex_continuation(b).rc = "UNEXPECTED_END_OF_DATA"
  BY <1>1, <1>3, <1>4 DEF is_sysex_continuation
<1>6. ble_midi_parse_packet(b).events = <<>>
  BY <1>1, <1>5, HeaderFails
<1> QED BY <1>6 DEF midi_write_cb, b

(* The end of a sysex message, alone in a packet, is an error too.         *)
LEMMA EndHeard ==
    ASSUME NEW t \in Timestamp
    PROVE  midi_write_cb(<<header_byte(t)>> \o <<timestamp_byte(t), \hF7>>) = <<>>
<1> DEFINE a == <<header_byte(t)>>
           d == <<timestamp_byte(t), \hF7>>
           b == a \o d
<1>1. /\ header_byte(t) \in Byte /\ header_byte(t) >= 128
      /\ timestamp_byte(t) \in Byte /\ timestamp_byte(t) >= 128 /\ \hF7 \in Byte
  BY TimeBytes DEF Byte
<1>2. /\ a \in Seq(Byte) /\ Len(a) = 1 /\ a[1] = header_byte(t)
      /\ d \in Seq(Byte) /\ Len(d) = 2 /\ d[1] = timestamp_byte(t) /\ d[2] = \hF7
  BY <1>1
<1> HIDE DEF a, d
<1>3. /\ b \in Seq(Byte) /\ Len(b) = Len(a) + Len(d)
      /\ \A i \in 1 .. Len(a) : b[i] = a[i]
      /\ \A i \in 1 .. Len(d) : b[Len(a) + i] = d[i]
  <2>1. a \in Seq(Byte) /\ d \in Seq(Byte)
    BY <1>2
  <2> QED BY <2>1, Concatenation
<1> HIDE DEF b
<1>4. Len(b) = 3 /\ b[1] = header_byte(t) /\ b[2] = timestamp_byte(t) /\ b[3] = \hF7
  BY <1>2, <1>3
<1>5. Realtimes(b, 0) /\ 2 * 0 + 3 <= Len(b) /\ 2 * 0 + 2 = 2 /\ 2 * 0 + 3 = 3
  BY <1>4 DEF Realtimes
<1>6. ~is_realtime_message(\hF7) /\ \hF7 >= 128
  BY DEF is_realtime_message
<1>7. PlainHeader(b)
  <2> DEFINE k == 0
  <2>1. /\ Realtimes(b, k) /\ 2 * k + 3 <= Len(b) /\ b[2 * k + 2] >= 128
        /\ b[2 * k + 3] >= 128 /\ ~is_realtime_message(b[2 * k + 3])
    BY <1>1, <1>4, <1>5, <1>6
  <2> HIDE DEF k
  <2> QED BY <1>3, <2>1, MessageHeader
<1>8. OutAt(b, 1, 0, 0, b[1] % 64, <<>>)
  BY <1>1, <1>3, <1>4, <1>7, HeaderOutside
<1>9. ble_midi_parse_packet(b).events = <<>>
  <2>1. PICK i \in Nat : i = 1
    OBVIOUS
  <2>2. i + 2 <= Len(b) /\ b[i + 1] >= 128 /\ b[i + 2] = \hF7
    BY <1>1, <1>4, <2>1
  <2>3. OutAt(b, i, 0, 0, b[1] % 64, <<>>)
    BY <1>8, <2>1
  <2> QED BY <2>2, <2>3, OutAtEnd
<1> QED BY <1>9 DEF midi_write_cb, b, a, d

(* A packet with one message, or with the start of a sysex message.        *)
LEMMA FreshBegun ==
    ASSUME NEW v \in Writer, v.tx_buf = <<>>, v.prev_running_status_byte = 0,
           NEW x \in {"in", "out"}, NEW t \in Timestamp
    PROVE  Begun(Opened(v, t), x, v.prev_running_status_byte, v.prev_timestamp,
                 <<>>, t, 0, {})
<1>1. Opened(v, t) = <<header_byte(t)>>
  BY DEF Opened
<1>2. PICK s \in Nat : s = 0
  OBVIOUS
<1>3. Begun(<<header_byte(t)>>, x, 0, v.prev_timestamp, <<>>, t, s, {})
  BY NewBegun
<1> QED BY <1>1, <1>2, <1>3

(* No time has passed.                                                     *)
LEMMA AtOnce == InTime(0, {})
BY DEF InTime

(* A packet without a history.                                             *)
LEMMA NothingBefore ==
    ASSUME NEW e \in Seq(Event) PROVE <<>> \o e = e
<1> HIDE DEF Event
<1> QED BY ConcatEmptySeq

(* What a good packet without a history makes the peer hear.               *)
LEMMA GoodHeard ==
    ASSUME NEW b, NEW x \in {"in", "out"}, NEW p, NEW u, NEW t, NEW e \in Seq(Event),
           Good(b, x, p, u, <<>> \o e, t, 0, {})
    PROVE  midi_write_cb(b) = e
<1>1. Good(b, x, p, u, e, t, 0, {})
  BY NothingBefore
<1>2. ble_midi_parse_packet(b).events = e
  BY <1>1, GoodParses
<1> QED BY <1>2 DEF midi_write_cb

(* A writer that has been reset.                                           *)
Fresh(v) == v \in Writer /\ v.tx_buf = <<>> /\ v.prev_running_status_byte = 0

(* A message that the writer accepts outside of a sysex message is heard   *)
(* as what it means.                                                       *)
LEMMA MessageHeard ==
    ASSUME NEW v, Fresh(v), ~v.in_sysex_msg, NEW m \in ThreeBytes, NEW t \in Timestamp,
           ble_midi_writer_add_msg(v, m, t).rc = "SUCCESS"
    PROVE  midi_write_cb(ble_midi_writer_add_msg(v, m, t).w.tx_buf)
              = <<MessageEvent(Meaning(m), t)>>
<1> DEFINE r == ble_midi_writer_add_msg(v, m, t)
           z == MessageEvent(Meaning(m), t)
           b == Opened(v, t) \o MessageTail(v, m, t)
<1>0. v \in Writer /\ v.tx_buf = <<>> /\ v.prev_running_status_byte = 0
  BY DEF Fresh
<1>1. Accepted(m) /\ r.w.tx_buf = b
  BY <1>0, MsgOutside DEF Leaves
<1>2. Begun(Opened(v, t), "out", v.prev_running_status_byte, v.prev_timestamp, <<>>, t, 0, {})
  BY <1>0, FreshBegun
<1>3. Good(b, "out", RunningStatusAfter(v, m), t, <<>> \o <<z>>, t, 0, {})
  BY <1>0, <1>1, <1>2, AtOnce, GoodMessage
<1>4. z \in Event
  <2> DEFINE S == StatusToSend(m)
             D == MessageData(m)
  <2>1. S \in Byte /\ D \in Seq(Byte) /\ <<S>> \o D = Meaning(m)
    BY <1>1, MessageParts
  <2> HIDE DEF S, D
  <2>2. <<S>> \in Seq(Byte)
    BY <2>1
  <2>3. <<S>> \o D \in Seq(Byte)
    BY <2>1, <2>2, Concatenation
  <2>4. t \in Nat
    BY TimeParts
  <2> QED BY <2>1, <2>3, <2>4, EventTypes
<1> HIDE DEF r, b, z
<1>5. <<z>> \in Seq(Event)
  <2> HIDE DEF Event
  <2> QED BY <1>4
<1>6. midi_write_cb(b) = <<z>>
  BY <1>3, <1>5, GoodHeard
<1> QED BY <1>1, <1>6 DEF r, z

(* The start of a sysex message that the writer accepts is heard.          *)
LEMMA StartHeard ==
    ASSUME NEW v, Fresh(v), NEW t \in Timestamp,
           ble_midi_writer_start_sysex_msg(v, t).rc = "SUCCESS"
    PROVE  midi_write_cb(ble_midi_writer_start_sysex_msg(v, t).w.tx_buf) = <<StartEvent(t)>>
<1> DEFINE r == ble_midi_writer_start_sysex_msg(v, t)
           z == StartEvent(t)
           b == Opened(v, t) \o <<timestamp_byte(t), \hF0>>
<1>0. v \in Writer /\ v.tx_buf = <<>> /\ v.prev_running_status_byte = 0
  BY DEF Fresh
<1>1. r.w.tx_buf = b
  BY <1>0, StartLeaves DEF Leaves
<1>2. Begun(Opened(v, t), "out", v.prev_running_status_byte, v.prev_timestamp, <<>>, t, 0, {})
  BY <1>0, FreshBegun
<1>3. Good(b, "in", 0, v.prev_timestamp, <<>> \o <<z>>, t, 0, {})
  <2>1. PICK s \in Nat : s = 0
    OBVIOUS
  <2>2. Begun(Opened(v, t), "out", v.prev_running_status_byte, v.prev_timestamp, <<>>, t, s, {})
        /\ InTime(s, {})
    BY <1>2, <2>1, AtOnce
  <2>3. Good(b, "in", 0, v.prev_timestamp, <<>> \o <<z>>, t, s, {})
    BY <2>2, GoodStart, ZenonT(60)
  <2> QED BY <2>1, <2>3
<1>4. z \in Event
  <2>1. t \in Nat
    BY TimeParts
  <2> QED BY <2>1, EventTypes
<1> HIDE DEF r, b, z
<1>5. <<z>> \in Seq(Event)
  <2> HIDE DEF Event
  <2> QED BY <1>4
<1>6. midi_write_cb(b) = <<z>>
  BY <1>3, <1>5, GoodHeard
<1> QED BY <1>1, <1>6 DEF r, z

(* The packet that ble_midi_tx_sysex_data sends: header and data bytes.    *)
LEMMA DataHeard ==
    ASSUME NEW t \in Timestamp, NEW d \in Seq(Byte), d # <<>>,
           \A i \in 1 .. Len(d) : d[i] < 128
    PROVE  midi_write_cb(<<header_byte(t)>> \o d) = Datas(d, Len(d))
<1> DEFINE b == <<header_byte(t)>>
           e == Datas(d, Len(d))
<1>1. PICK s \in Nat : s = 0
  OBVIOUS
<1>2. Begun(b, "in", 0, 0, <<>>, t, s, {})
  BY NewBegun
<1>3. Len(d) \in 0 .. Len(d)
  <2>1. Len(d) \in Nat
    OBVIOUS
  <2> QED BY <2>1
<1>4. e \in Seq(Event)
  BY <1>3, DatasType
<1> HIDE DEF b
<1>5. Good(b \o d, "in", 0, 0, <<>> \o e, t, s, {})
  BY <1>2, GoodData
<1> HIDE DEF e
<1>6. midi_write_cb(b \o d) = e
  BY <1>1, <1>4, <1>5, GoodHeard
<1> QED BY <1>6 DEF b, e

-----------------------------------------------------------------------------
(* The peer hears a prefix of what each call was asked to send.            *)

(* Nothing is a prefix of everything.                                      *)
LEMMA PrefixNone == ASSUME NEW e, Len(e) \in Nat PROVE IsPrefix(<<>>, e)
<1>1. Len(<<>>) = 0 /\ SubSeq(<<>>, 1, 0) = <<>> /\ SubSeq(e, 1, 0) = <<>>
  OBVIOUS
<1> QED BY <1>1 DEF IsPrefix

(* Everything is a prefix of itself.                                       *)
LEMMA PrefixSelf == ASSUME NEW e, Len(e) \in Nat PROVE IsPrefix(e, e)
BY DEF IsPrefix

(* One data byte less.                                                     *)
LEMMA PrefixDatas ==
    ASSUME NEW d \in Seq(Byte), NEW n \in 1 .. Len(d)
    PROVE  IsPrefix(Datas(d, n - 1), Datas(d, n))
<1> DEFINE a == Datas(d, n - 1)
           b == Datas(d, n)
<1>1. Len(d) \in Nat
  OBVIOUS
<1>2. n - 1 \in 0 .. Len(d) /\ n \in 0 .. Len(d) /\ n - 1 <= n
  BY <1>1
<1>3. a \in Seq(Event) /\ Len(a) = n - 1 /\ \A i \in 1 .. n - 1 : a[i] = DataEvent(d[i])
  BY <1>2, DatasType
<1>4. b \in Seq(Event) /\ Len(b) = n /\ \A i \in 1 .. n : b[i] = DataEvent(d[i])
  BY <1>2, DatasType
<1> HIDE DEF a, b, Event, DataEvent
<1>5. \A i \in 1 .. n - 1 : i \in 1 .. n
  BY <1>2
<1>6. SubSeq(a, 1, n - 1) = [i \in 1 .. n - 1 |-> a[i]]
      /\ SubSeq(b, 1, n - 1) = [i \in 1 .. n - 1 |-> b[i]]
  BY <1>1, <1>3, <1>4
<1>7. \A i \in 1 .. n - 1 : a[i] = b[i]
  BY <1>3, <1>4, <1>5
<1>8. SubSeq(a, 1, n - 1) = SubSeq(b, 1, n - 1)
  BY <1>6, <1>7
<1> QED BY <1>2, <1>3, <1>4, <1>8 DEF IsPrefix, a, b

(* ble_midi_tx_msg.                                                        *)
LEMMA MsgPrefix ==
    ASSUME NEW v, Fresh(v), NEW m \in ThreeBytes, NEW t \in Timestamp
    PROVE  IsPrefix(midi_write_cb(ble_midi_writer_add_msg(v, m, t).w.tx_buf),
                    <<MessageEvent(Meaning(m), t)>>)
<1> DEFINE r == ble_midi_writer_add_msg(v, m, t)
           e == <<MessageEvent(Meaning(m), t)>>
<1>0. v \in Writer /\ v.tx_buf = <<>>
  BY DEF Fresh
<1>1. Len(e) \in Nat
  OBVIOUS
<1>2. CASE r.rc # "SUCCESS"
  <2>1. r.w.tx_buf = <<>>
    BY <1>0, <1>2, AddMsgStep
  <2> HIDE DEF r, e
  <2> QED BY <1>1, <2>1, EmptyHeard, PrefixNone DEF r, e
<1>3. CASE r.rc = "SUCCESS" /\ ~v.in_sysex_msg
  <2>1. midi_write_cb(r.w.tx_buf) = e
    BY <1>3, MessageHeard
  <2> HIDE DEF r, e
  <2> QED BY <1>1, <2>1, PrefixSelf DEF r, e
<1>4. CASE r.rc = "SUCCESS" /\ v.in_sysex_msg
  <2> DEFINE p == <<timestamp_byte(t), m[1]>>
  <2>1. is_realtime_message(m[1]) /\ m[1] \in Byte /\ r.w.tx_buf = v.tx_buf \o p
    BY <1>0, <1>4, MsgInside DEF Leaves
  <2>2. m[1] >= 128 /\ timestamp_byte(t) \in Byte /\ timestamp_byte(t) >= 128
    BY <2>1, TimeBytes DEF is_realtime_message
  <2>3. p \in Seq(Byte)
    BY <2>1, <2>2
  <2>4. r.w.tx_buf = p
    <3> HIDE DEF p, r
    <3> QED BY <1>0, <2>1, <2>3, ConcatEmptySeq
  <2>5. midi_write_cb(p) = <<>>
    BY <2>1, <2>2, BareHeard
  <2> HIDE DEF r, e, p
  <2> QED BY <1>1, <2>4, <2>5, PrefixNone DEF r, e
<1> QED BY <1>2, <1>3, <1>4

(* ble_midi_tx_sysex_start.                                                *)
LEMMA StartPrefix ==
    ASSUME NEW v, Fresh(v), NEW t \in Timestamp
    PROVE  IsPrefix(midi_write_cb(ble_midi_writer_start_sysex_msg(v, t).w.tx_buf),
                    <<StartEvent(t)>>)
<1> DEFINE r == ble_midi_writer_start_sysex_msg(v, t)
           e == <<StartEvent(t)>>
<1>0. v \in Writer /\ v.tx_buf = <<>>
  BY DEF Fresh
<1>1. Len(e) \in Nat
  OBVIOUS
<1>2. CASE r.rc # "SUCCESS"
  <2>1. r.w.tx_buf = <<>>
    BY <1>0, <1>2, StartStep
  <2> HIDE DEF r, e
  <2> QED BY <1>1, <2>1, EmptyHeard, PrefixNone DEF r, e
<1>3. CASE r.rc = "SUCCESS"
  <2>1. midi_write_cb(r.w.tx_buf) = e
    BY <1>3, StartHeard
  <2> HIDE DEF r, e
  <2> QED BY <1>1, <2>1, PrefixSelf DEF r, e
<1> QED BY <1>2, <1>3

(* ble_midi_tx_sysex_end: nothing is heard.                                *)
LEMMA EndPrefix ==
    ASSUME NEW v, Fresh(v), NEW t \in Timestamp
    PROVE  IsPrefix(midi_write_cb(ble_midi_writer_end_sysex_msg(v, t).w.tx_buf),
                    <<EndEvent(t)>>)
<1> DEFINE r == ble_midi_writer_end_sysex_msg(v, t)
           e == <<EndEvent(t)>>
<1>0. v \in Writer /\ v.tx_buf = <<>>
  BY DEF Fresh
<1>1. Len(e) \in Nat
  OBVIOUS
<1>2. midi_write_cb(r.w.tx_buf) = <<>>
  <2>1. CASE r.rc # "SUCCESS"
    <3>1. r.w.tx_buf = <<>>
      BY <1>0, <2>1, EndStep
    <3> QED BY <3>1, EmptyHeard
  <2>2. CASE r.rc = "SUCCESS"
    <3>1. r.w.tx_buf = Opened(v, t) \o <<timestamp_byte(t), \hF7>>
      BY <1>0, <2>2, EndLeaves DEF Leaves
    <3>2. Opened(v, t) = <<header_byte(t)>>
      BY <1>0 DEF Opened
    <3> QED BY <3>1, <3>2, EndHeard
  <2> QED BY <2>1, <2>2
<1> HIDE DEF r, e
<1> QED BY <1>1, <1>2, PrefixNone DEF r, e

(* ble_midi_tx_sysex_data: the packet that is sent is one byte too short.  *)
LEMMA DataPrefix ==
    ASSUME NEW v, Fresh(v), NEW d \in Seq(Byte), NEW t \in Timestamp,
           ble_midi_writer_add_sysex_data(v, d, t).rc = "SUCCESS"
    PROVE  LET r == ble_midi_writer_add_sysex_data(v, d, t)
           IN  IsPrefix(midi_write_cb(SubSeq(r.w.tx_buf, 1, r.n)),
                        [i \in 1 .. r.n |-> DataEvent(d[i])])
<1> DEFINE r == ble_midi_writer_add_sysex_data(v, d, t)
           n == r.n
           x == header_byte(t)
           h == <<x>>
           p == SubSeq(r.w.tx_buf, 1, n)
<1>0. v \in Writer /\ v.tx_buf = <<>>
  BY DEF Fresh
<1>1. /\ n \in 0 .. Len(d) /\ r.w.tx_buf = h \o SubSeq(d, 1, n)
      /\ \A i \in 1 .. Len(d) : d[i] < 128
  <2>1. Opened(v, t) = h
    BY <1>0 DEF Opened
  <2> QED BY <1>0, <2>1, DataLeaves DEF Leaves
<1>2. x \in Byte /\ x >= 128
  BY TimeBytes
<1>3. h \in Seq(Byte) /\ Len(h) = 1 /\ h[1] = x
  BY <1>2
<1> HIDE DEF r, n, h
<1>4. /\ SubSeq(d, 1, n) \in Seq(Byte) /\ Len(SubSeq(d, 1, n)) = n
      /\ \A j \in 1 .. n : SubSeq(d, 1, n)[j] = d[j]
  BY <1>1, DatasTaken
<1>5. IsPrefix(midi_write_cb(p), Datas(d, n))
  <2>1. Len(Datas(d, n)) \in Nat
    BY <1>1, DatasType
  <2>2. CASE n = 0
    <3>1. p = <<>>
      BY <2>2
    <3> HIDE DEF p
    <3> QED BY <2>1, <3>1, EmptyHeard, PrefixNone
  <2>3. CASE n # 0
    <3> DEFINE f == SubSeq(d, 1, n)
               g == SubSeq(d, 1, n - 1)
               b == h \o f
    <3>1. n \in 1 .. Len(d) /\ n - 1 \in 0 .. Len(d)
      BY <1>1, <2>3
    <3>2. /\ g \in Seq(Byte) /\ Len(g) = n - 1 /\ (\A j \in 1 .. n - 1 : g[j] = d[j])
          /\ Datas(g, n - 1) = Datas(d, n - 1)
      BY <3>1, DatasTaken
    <3> HIDE DEF f, g
    <3>3. f \in Seq(Byte) /\ Len(f) = n /\ \A j \in 1 .. n : f[j] = d[j]
      BY <1>4 DEF f
    <3>4. /\ b \in Seq(Byte) /\ Len(b) = 1 + n /\ b[1] = x
          /\ \A i \in 1 .. n : b[1 + i] = d[i]
      <4>1. /\ b \in Seq(Byte) /\ Len(b) = Len(h) + Len(f)
            /\ \A i \in 1 .. Len(h) : b[i] = h[i]
            /\ \A i \in 1 .. Len(f) : b[Len(h) + i] = f[i]
        <5>1. h \in Seq(Byte) /\ f \in Seq(Byte)
          BY <1>3, <3>3
        <5> QED BY <5>1, Concatenation
      <4> HIDE DEF b
      <4> QED BY <1>3, <3>3, <4>1
    <3>5. /\ h \o g \in Seq(Byte) /\ Len(h \o g) = n /\ (h \o g)[1] = x
          /\ \A i \in 1 .. n - 1 : (h \o g)[1 + i] = d[i]
      <4> DEFINE c == h \o g
      <4>1. /\ c \in Seq(Byte) /\ Len(c) = Len(h) + Len(g)
            /\ \A i \in 1 .. Len(h) : c[i] = h[i]
            /\ \A i \in 1 .. Len(g) : c[Len(h) + i] = g[i]
        <5>1. h \in Seq(Byte) /\ g \in Seq(Byte)
          BY <1>3, <3>2
        <5> QED BY <5>1, Concatenation
      <4> HIDE DEF c
      <4>2. c \in Seq(Byte) /\ Len(c) = n /\ c[1] = x /\ \A i \in 1 .. n - 1 : c[1 + i] = d[i]
        BY <1>3, <3>1, <3>2, <4>1
      <4> QED BY <4>2 DEF c
    <3>6. p = h \o g
      <4> DEFINE c == h \o g
      <4>1. c \in Seq(Byte) /\ Len(c) = n /\ c[1] = x /\ \A i \in 1 .. n - 1 : c[1 + i] = d[i]
        BY <3>5
      <4>2. p = SubSeq(b, 1, n)
        BY <1>1 DEF f
      <4> HIDE DEF p, b, c
      <4>3. p \in Seq(Byte) /\ Len(p) = n /\ \A i \in 1 .. n : p[i] = b[i]
        <5>1. \A i \in 1 .. n : b[i] \in Byte
          BY <3>1, <3>4
        <5>2. n \in Nat /\ n <= Len(b)
          BY <3>1, <3>4
        <5> QED BY <4>2, <5>1, <5>2, <3>4, SubSeqProperties
      <4>4. \A i \in 1 .. n : p[i] = c[i]
        <5> SUFFICES ASSUME NEW i \in 1 .. n PROVE p[i] = c[i]
          OBVIOUS
        <5>1. p[i] = b[i]
          BY <4>3
        <5>2. CASE i = 1
          BY <5>1, <5>2, <3>4, <4>1
        <5>3. CASE i # 1
          <6>1. i - 1 \in 1 .. n - 1 /\ i - 1 \in 1 .. n /\ 1 + (i - 1) = i
            BY <3>1, <5>3
          <6>2. b[1 + (i - 1)] = d[i - 1] /\ c[1 + (i - 1)] = d[i - 1]
            BY <3>4, <4>1, <6>1
          <6> QED BY <5>1, <6>1, <6>2
        <5> QED BY <5>2, <5>3
      <4>5. p = c
        BY <4>1, <4>3, <4>4, SeqEqual
      <4> QED BY <4>5 DEF c
    <3>7. midi_write_cb(h \o g) = Datas(g, n - 1)
      <4>1. CASE n = 1
        <5>1. g = <<>>
          BY <3>2, <4>1
        <5>2. h \o g = <<x>>
          <6>1. h \o <<>> = h
            BY <1>3, ConcatEmptySeq
          <6> QED BY <5>1, <6>1 DEF h
        <5>3. Datas(g, n - 1) = <<>>
          BY <4>1 DEF Datas
        <5> QED BY <1>2, <5>2, <5>3, HeaderHeard
      <4>2. CASE n # 1
        <5>1. g # <<>>
          <6>1. Len(g) # 0
            BY <3>1, <3>2, <4>2
          <6> QED BY <6>1
        <5>2. \A i \in 1 .. Len(g) : g[i] < 128
          <6>1. \A i \in 1 .. n - 1 : i \in 1 .. Len(d)
            BY <3>1
          <6> QED BY <1>1, <3>2, <6>1
        <5>3. midi_write_cb(<<header_byte(t)>> \o g) = Datas(g, Len(g))
          BY <3>2, <5>1, <5>2, DataHeard
        <5> QED BY <3>2, <5>3 DEF h
      <4> QED BY <4>1, <4>2
    <3>8. IsPrefix(Datas(d, n - 1), Datas(d, n))
      BY <3>1, PrefixDatas
    <3> QED BY <3>2, <3>6, <3>7, <3>8
  <2> QED BY <2>2, <2>3
<1> QED BY <1>5 DEF p, r, n, Datas

-----------------------------------------------------------------------------
(* The calls.                                                              *)

(* The invariant: the writer has its type.                                 *)
WriterInv == tx_writer \in Writer

(* A call that leaves the result r of the writer and sends the packet b,   *)
(* for the events e: the stack takes the packet or refuses it.             *)
Sent(r, b, e) ==
    /\ tx_writer' = r.w
    /\ outside' <=> ~tx_writer.in_sysex_msg
    /\ \/ heard' = <<>> /\ said' = <<>>
       \/ heard' = midi_write_cb(b) /\ said' = e

(* SendResult is such a call.                                              *)
LEMMA ResultSent ==
    ASSUME NEW r, NEW e, NEW a \in BOOLEAN, SendResult(r, e, a)
    PROVE  Sent(r, r.w.tx_buf, e)
BY Zenon DEF SendResult, send_packet, Report, Sent

(* NothingInvented holds after a call whose packet says no more than it    *)
(* was asked to.                                                           *)
LEMMA SentFaithful ==
    ASSUME NEW r, NEW b, NEW e, Sent(r, b, e), IsPrefix(midi_write_cb(b), e)
    PROVE  NothingInvented'
<1>1. CASE heard' = <<>> /\ said' = <<>>
  <2>1. Len(<<>>) \in Nat
    OBVIOUS
  <2>2. IsPrefix(<<>>, <<>>)
    BY <2>1, PrefixNone
  <2> QED BY <1>1, <2>2 DEF NothingInvented
<1>2. CASE heard' = midi_write_cb(b) /\ said' = e
  BY <1>2 DEF NothingInvented
<1> QED BY <1>1, <1>2 DEF Sent

(* What ble_midi_writer_reset keeps.                                       *)
LEMMA FreshIs ==
    ASSUME WriterInv
    PROVE  /\ Fresh(FreshPacket)
           /\ FreshPacket.tx_buf_max_size = tx_writer.tx_buf_max_size
           /\ FreshPacket.in_sysex_msg = tx_writer.in_sysex_msg
<1>1. tx_writer \in Writer
  BY DEF WriterInv
<1>2. FreshPacket.prev_running_status_byte = 0
  BY <1>1 DEF FreshPacket, ble_midi_writer_reset, Writer
<1> QED BY <1>1, <1>2, FreshWriters DEF FreshPacket, Fresh

(* ble_midi_tx_msg.                                                        *)
LEMMA MsgCall ==
    ASSUME NEW m \in Messages, NEW t \in Timestamps, NEW a \in BOOLEAN,
           ble_midi_tx_msg(m, t, a)
    PROVE  LET r == ble_midi_writer_add_msg(FreshPacket, m, t)
           IN  Sent(r, r.w.tx_buf, <<MessageEvent(Meaning(m), t)>>)
<1> DEFINE r == ble_midi_writer_add_msg(FreshPacket, m, t)
           e == <<MessageEvent(Meaning(m), t)>>
<1>1. SendResult(r, e, a)
  BY Zenon DEF ble_midi_tx_msg
<1> HIDE DEF r, e
<1>2. Sent(r, r.w.tx_buf, e)
  BY <1>1, ResultSent
<1> QED BY <1>2 DEF r, e

(* ble_midi_tx_sysex_start.                                                *)
LEMMA StartCall ==
    ASSUME NEW t \in Timestamps, NEW a \in BOOLEAN, ble_midi_tx_sysex_start(t, a)
    PROVE  LET r == ble_midi_writer_start_sysex_msg(FreshPacket, t)
           IN  Sent(r, r.w.tx_buf, <<StartEvent(t)>>)
<1> DEFINE r == ble_midi_writer_start_sysex_msg(FreshPacket, t)
           e == <<StartEvent(t)>>
<1>1. SendResult(r, e, a)
  BY Zenon DEF ble_midi_tx_sysex_start
<1> HIDE DEF r, e
<1>2. Sent(r, r.w.tx_buf, e)
  BY <1>1, ResultSent
<1> QED BY <1>2 DEF r, e

(* ble_midi_tx_sysex_end.                                                  *)
LEMMA EndCall ==
    ASSUME NEW t \in Timestamps, NEW a \in BOOLEAN, ble_midi_tx_sysex_end(t, a)
    PROVE  LET r == ble_midi_writer_end_sysex_msg(FreshPacket, t)
           IN  Sent(r, r.w.tx_buf, <<EndEvent(t)>>)
<1> DEFINE r == ble_midi_writer_end_sysex_msg(FreshPacket, t)
           e == <<EndEvent(t)>>
<1>1. SendResult(r, e, a)
  BY Zenon DEF ble_midi_tx_sysex_end
<1> HIDE DEF r, e
<1>2. Sent(r, r.w.tx_buf, e)
  BY <1>1, ResultSent
<1> QED BY <1>2 DEF r, e

(* ble_midi_tx_sysex_data, which sends nothing if the writer refuses the   *)
(* data.                                                                   *)
LEMMA DataCall ==
    ASSUME NEW d \in SysexData, NEW t \in Timestamps, NEW a \in BOOLEAN,
           ble_midi_tx_sysex_data(d, t, a)
    PROVE  LET r == ble_midi_writer_add_sysex_data(FreshPacket, d, t)
           IN  IF r.rc = "SUCCESS"
               THEN Sent(r, SubSeq(r.w.tx_buf, 1, r.n), [i \in 1 .. r.n |-> DataEvent(d[i])])
               ELSE tx_writer' = r.w /\ said' = <<>> /\ heard' = <<>>
<1> DEFINE r == ble_midi_writer_add_sysex_data(FreshPacket, d, t)
           b == SubSeq(r.w.tx_buf, 1, r.n)
           e == [i \in 1 .. r.n |-> DataEvent(d[i])]
<1>1. /\ tx_writer' = r.w
      /\ outside' = ~tx_writer.in_sysex_msg
      /\ IF r.rc = "SUCCESS" THEN send_packet(b, a) /\ Report(e, a)
                             ELSE said' = <<>> /\ heard' = <<>>
  BY Zenon DEF ble_midi_tx_sysex_data
<1> HIDE DEF r, b, e
<1>2. IF r.rc = "SUCCESS" THEN Sent(r, b, e)
      ELSE tx_writer' = r.w /\ said' = <<>> /\ heard' = <<>>
  BY <1>1, Zenon DEF Sent, send_packet, Report
<1> QED BY <1>2 DEF r, b, e

(* The limit that an MTU sets.                                             *)
LEMMA MtuWriter ==
    ASSUME NEW w \in Writer, NEW mtu \in Mtus
    PROVE  /\ WithMtu(w, mtu) \in Writer
           /\ BLE_MIDI_TX_PACKET_MAX_SIZE >= 5 => WithMtu(w, mtu).tx_buf_max_size >= 5
<1>1. mtu \in Nat /\ mtu >= 23 /\ BLE_MIDI_TX_PACKET_MAX_SIZE \in Nat
  BY SingleConstants, WriterConstants
<1>2. /\ MaxSizeFor(mtu) \in 0 .. BLE_MIDI_TX_PACKET_MAX_SIZE
      /\ BLE_MIDI_TX_PACKET_MAX_SIZE >= 5 => MaxSizeFor(mtu) >= 5
  BY <1>1 DEF MaxSizeFor
<1>3. WithMtu(w, mtu) \in Writer /\ WithMtu(w, mtu).tx_buf_max_size = MaxSizeFor(mtu)
  BY <1>2 DEF WithMtu, Writer
<1> QED BY <1>2, <1>3

(* NothingInvented holds of a connection that has just been made.          *)
LEMMA NothingYet ==
    ASSUME heard = <<>>, said = <<>> PROVE NothingInvented
<1>1. Len(<<>>) \in Nat
  OBVIOUS
<1>2. IsPrefix(<<>>, <<>>)
  BY <1>1, PrefixNone
<1> QED BY <1>2 DEF NothingInvented

(* The same after a step.                                                  *)
LEMMA NothingYetNext ==
    ASSUME heard' = <<>>, said' = <<>> PROVE NothingInvented'
<1>1. Len(<<>>) \in Nat
  OBVIOUS
<1>2. IsPrefix(<<>>, <<>>)
  BY <1>1, PrefixNone
<1> QED BY <1>2 DEF NothingInvented

(* The inductive invariant for NothingInvented.                            *)
InventInv == WriterInv /\ NothingInvented

(* Every step keeps it.                                                    *)
LEMMA NextInvents == InventInv /\ [Next]_vars => InventInv'
<1> SUFFICES ASSUME InventInv, [Next]_vars PROVE InventInv'
  OBVIOUS
<1> DEFINE v == FreshPacket
<1>0. WriterInv /\ tx_writer \in Writer
  BY DEF InventInv, WriterInv
<1>a. Fresh(v)
  BY <1>0, FreshIs
<1>b. v \in Writer
  BY <1>a DEF Fresh
<1> HIDE DEF v
<1>1. ASSUME NEW m \in Messages, NEW t \in Timestamps, NEW a \in BOOLEAN,
             ble_midi_tx_msg(m, t, a)
      PROVE  InventInv'
  <2> DEFINE r == ble_midi_writer_add_msg(v, m, t)
             e == <<MessageEvent(Meaning(m), t)>>
  <2>1. m \in ThreeBytes /\ t \in Timestamp
    BY SingleConstants DEF ThreeBytes
  <2>2. Sent(r, r.w.tx_buf, e)
    BY <1>1, MsgCall DEF v
  <2>3. r.w \in Writer
    BY <1>b, <2>1, AddMsgStep DEF WriterStep
  <2>4. IsPrefix(midi_write_cb(r.w.tx_buf), e)
    BY <1>a, <2>1, MsgPrefix
  <2> HIDE DEF r, e
  <2>5. NothingInvented'
    BY <2>2, <2>4, SentFaithful
  <2> QED BY <2>2, <2>3, <2>5 DEF InventInv, WriterInv, Sent
<1>2. ASSUME NEW t \in Timestamps, NEW a \in BOOLEAN, ble_midi_tx_sysex_start(t, a)
      PROVE  InventInv'
  <2> DEFINE r == ble_midi_writer_start_sysex_msg(v, t)
             e == <<StartEvent(t)>>
  <2>1. t \in Timestamp
    BY SingleConstants
  <2>2. Sent(r, r.w.tx_buf, e)
    BY <1>2, StartCall DEF v
  <2>3. r.w \in Writer
    BY <1>b, <2>1, StartStep DEF WriterStep
  <2>4. IsPrefix(midi_write_cb(r.w.tx_buf), e)
    BY <1>a, <2>1, StartPrefix
  <2> HIDE DEF r, e
  <2>5. NothingInvented'
    BY <2>2, <2>4, SentFaithful
  <2> QED BY <2>2, <2>3, <2>5 DEF InventInv, WriterInv, Sent
<1>3. ASSUME NEW t \in Timestamps, NEW a \in BOOLEAN, ble_midi_tx_sysex_end(t, a)
      PROVE  InventInv'
  <2> DEFINE r == ble_midi_writer_end_sysex_msg(v, t)
             e == <<EndEvent(t)>>
  <2>1. t \in Timestamp
    BY SingleConstants
  <2>2. Sent(r, r.w.tx_buf, e)
    BY <1>3, EndCall DEF v
  <2>3. r.w \in Writer
    BY <1>b, <2>1, EndStep DEF WriterStep
  <2>4. IsPrefix(midi_write_cb(r.w.tx_buf), e)
    BY <1>a, <2>1, EndPrefix
  <2> HIDE DEF r, e
  <2>5. NothingInvented'
    BY <2>2, <2>4, SentFaithful
  <2> QED BY <2>2, <2>3, <2>5 DEF InventInv, WriterInv, Sent
<1>4. ASSUME NEW d \in SysexData, NEW t \in Timestamps, NEW a \in BOOLEAN,
             ble_midi_tx_sysex_data(d, t, a)
      PROVE  InventInv'
  <2> DEFINE r == ble_midi_writer_add_sysex_data(v, d, t)
             b == SubSeq(r.w.tx_buf, 1, r.n)
             e == [i \in 1 .. r.n |-> DataEvent(d[i])]
  <2>1. d \in Seq(Byte) /\ t \in Timestamp
    BY SingleConstants
  <2>2. IF r.rc = "SUCCESS" THEN Sent(r, b, e)
        ELSE tx_writer' = r.w /\ said' = <<>> /\ heard' = <<>>
    BY <1>4, DataCall DEF v
  <2>3. r.w \in Writer
    BY <1>b, <2>1, DataStep DEF WriterStep
  <2>4. r.rc = "SUCCESS" => IsPrefix(midi_write_cb(b), e)
    BY <1>a, <2>1, DataPrefix
  <2> HIDE DEF r, b, e
  <2>5. CASE r.rc = "SUCCESS"
    <3>1. Sent(r, b, e)
      BY <2>2, <2>5
    <3>2. NothingInvented'
      BY <2>4, <2>5, <3>1, SentFaithful
    <3> QED BY <2>3, <3>1, <3>2 DEF InventInv, WriterInv, Sent
  <2>6. CASE r.rc # "SUCCESS"
    <3>1. tx_writer' = r.w /\ said' = <<>> /\ heard' = <<>>
      BY <2>2, <2>6
    <3> QED BY <2>3, <3>1, NothingYetNext DEF InventInv, WriterInv
  <2> QED BY <2>5, <2>6
<1>5. ASSUME NEW m \in Mtus, on_mtu_changed(m) PROVE InventInv'
  <2>1. tx_writer' \in Writer
    BY <1>0, <1>5, MtuWriter DEF on_mtu_changed
  <2> QED BY <1>5, <2>1 DEF on_mtu_changed, InventInv, WriterInv, NothingInvented
<1>6. ASSUME NEW m \in Mtus, on_connected(m) PROVE InventInv'
  <2>1. tx_writer' = WithMtu(ble_midi_writer_init, m) /\ heard' = <<>> /\ said' = <<>>
    BY <1>6 DEF on_connected
  <2>2. tx_writer' \in Writer
    BY <2>1, MtuWriter, FreshWriters
  <2> QED BY <2>1, <2>2, NothingYetNext DEF InventInv, WriterInv
<1>7. CASE UNCHANGED vars
  BY <1>7 DEF vars, InventInv, WriterInv, NothingInvented
<1> QED BY <1>1, <1>2, <1>3, <1>4, <1>5, <1>6, <1>7 DEF Next

(* NothingInvented, for every value of the constants: whatever the calls,  *)
(* the refused packets and the MTU changes before, the peer hears nothing  *)
(* but a prefix of what the last call was asked to send (ble_midi_tx_msg,  *)
(* ble_midi_tx_sysex_start, _data and _end of ble_midi.c).                 *)
THEOREM NeverInvents == Spec => []NothingInvented
<1>1. Init => InventInv
  <2> SUFFICES ASSUME Init PROVE InventInv
    OBVIOUS
  <2>1. PICK mtu \in Mtus : tx_writer = WithMtu(ble_midi_writer_init, mtu)
    BY DEF Init
  <2>2. tx_writer \in Writer
    BY <2>1, MtuWriter, FreshWriters
  <2>3. NothingInvented
    BY NothingYet DEF Init
  <2> QED BY <2>2, <2>3 DEF InventInv, WriterInv
<1>2. InventInv /\ [Next]_vars => InventInv'
  BY NextInvents
<1>3. InventInv => NothingInvented
  BY DEF InventInv
<1> QED BY <1>1, <1>2, <1>3, PTL DEF Spec

-----------------------------------------------------------------------------
(* An empty packet of five bytes or more takes any message.                *)
LEMMA MessageFits ==
    ASSUME NEW v, Fresh(v), ~v.in_sysex_msg, v.tx_buf_max_size >= 5,
           NEW m, Accepted(m), NEW t \in Timestamp
    PROVE  ble_midi_writer_add_msg(v, m, t).rc = "SUCCESS"
<1> DEFINE f == MessageData(m)
           d == MessageTail(v, m, t)
           b == MessageBytes(v, m, t)
           h == Opened(v, t)
<1>0. v \in Writer /\ v.tx_buf = <<>> /\ m \in ThreeBytes
  BY DEF Fresh, Accepted
<1>1. f \in Seq(Byte) /\ message_size(StatusToSend(m)) = Len(f) + 1
  BY MessageParts
<1>2. Len(f) <= 2
  <2>1. message_size(StatusToSend(m)) \in 0 .. 3
    BY DEF message_size
  <2> QED BY <1>1, <2>1
<1>3. d \in Seq(Byte) /\ v.tx_buf \o b = h \o d /\ b \in Seq(Byte)
  BY <1>0, MessageAppended, MessageBytesType
<1>4. h \in Seq(Byte) /\ Len(h) = 1
  BY <1>0, OpenedType DEF Opened
<1>5. Len(d) <= 4
  <2>1. \/ Ends(d, 2, f) \/ Ends(d, 1, f) \/ d = f
    BY <1>0, TailForms
  <2> HIDE DEF d, f
  <2> QED BY <1>1, <1>2, <1>3, <2>1 DEF Ends
<1> HIDE DEF b, d, h
<1>6. b = h \o d
  <2>1. <<>> \o b = b
    BY <1>3, ConcatEmptySeq
  <2> QED BY <1>0, <1>3, <2>1
<1>7. Len(b) = Len(h) + Len(d)
  <2>1. h \in Seq(Byte) /\ d \in Seq(Byte)
    BY <1>3, <1>4
  <2> QED BY <1>6, <2>1, Concatenation
<1>8. Fits(v, b)
  <2>1. Len(v.tx_buf) = 0 /\ v.tx_buf_max_size \in Int /\ Len(d) \in Nat
    BY <1>0, <1>3, WriterConstants DEF Writer
  <2> QED BY <1>4, <1>5, <1>7, <2>1 DEF Fits
<1>9. message_size(m[1]) # 0 /\ is_data_byte(m[2]) /\ is_data_byte(m[3])
  BY DEF Accepted, is_data_byte
<1> QED BY <1>8, <1>9 DEF ble_midi_writer_add_msg, AddOutsideSysex, Result, b

(* An empty packet of five bytes or more takes the start of a sysex        *)
(* message.                                                                *)
LEMMA StartFits ==
    ASSUME NEW v, Fresh(v), ~v.in_sysex_msg, v.tx_buf_max_size >= 5, NEW t \in Timestamp
    PROVE  ble_midi_writer_start_sysex_msg(v, t).rc = "SUCCESS"
<1> DEFINE b == (IF v.tx_buf = <<>> THEN <<header_byte(t)>> ELSE <<>>)
                \o <<timestamp_byte(t), \hF0>>
<1>0. v \in Writer /\ v.tx_buf = <<>>
  BY DEF Fresh
<1>1. Len(b) = 3
  <2> DEFINE h == <<header_byte(t)>>
             d == <<timestamp_byte(t), \hF0>>
  <2>1. h \in Seq(Byte) /\ d \in Seq(Byte) /\ Len(h) = 1 /\ Len(d) = 2 /\ b = h \o d
    BY <1>0, TimeBytes DEF Byte
  <2> HIDE DEF h, d, b
  <2>2. h \in Seq(Byte) /\ d \in Seq(Byte)
    BY <2>1
  <2>3. Len(h \o d) = Len(h) + Len(d)
    BY <2>2, Concatenation
  <2> QED BY <2>1, <2>3
<1>2. Len(v.tx_buf) = 0 /\ v.tx_buf_max_size \in Int
  BY <1>0, WriterConstants DEF Writer
<1>3. Fits(v, b)
  <2> HIDE DEF b
  <2> QED BY <1>1, <1>2 DEF Fits
<1>4. append_status_byte_with_timestamp(v, t, \hF0).rc = "SUCCESS"
  BY <1>3 DEF append_status_byte_with_timestamp, Result
<1> QED BY <1>4 DEF ble_midi_writer_start_sysex_msg, Result

(* The messages that the application may send: where a message is well     *)
(* formed, so are the bytes that what it means leaves out, the padding of  *)
(* a message of less than three bytes (ble_midi.h asks for zeros) and the  *)
(* velocity of a note off that is sent as a note on.                       *)
PaddedMessages ==
    \A m \in Messages : WellFormed(Meaning(m)) => m[2] < 128 /\ m[3] < 128

(* The writer accepts well formed messages.                                *)
LEMMA PaddedAccepted ==
    ASSUME PaddedMessages, NEW m \in Messages, WellFormed(Meaning(m))
    PROVE  Accepted(m)
<1>1. m \in ThreeBytes
  BY SingleConstants DEF ThreeBytes
<1>2. m[2] < 128 /\ m[3] < 128
  BY DEF PaddedMessages
<1>3. message_size(m[1]) # 0
  <2>1. SUFFICES ASSUME message_size(m[1]) = 0 PROVE FALSE
    OBVIOUS
  <2>2. ~(m[1] \div 16 = 8)
    BY <2>1 DEF message_size
  <2>3. Meaning(m) = SubSeq(m, 1, 0)
    BY <2>1, <2>2 DEF Meaning
  <2>4. SubSeq(m, 1, 0) = <<>>
    OBVIOUS
  <2> QED BY <2>3, <2>4 DEF WellFormed
<1> QED BY <1>1, <1>2, <1>3 DEF Accepted

-----------------------------------------------------------------------------
(* The writer has its type and room for any message.                       *)
RoomInv == tx_writer \in Writer /\ tx_writer.tx_buf_max_size >= 5

(* The inductive invariant for SaidIsHeard.                                *)
SaidInv == RoomInv /\ SaidIsHeard

(* A call of which the peer hears everything, if it has to.                *)
LEMMA SentHeard ==
    ASSUME NEW r, NEW b, NEW e, Sent(r, b, e),
           /\ ~tx_writer.in_sysex_msg
           /\ e # <<>>
           /\ e[1].cb = "sysex_start_cb"
              \/ (e[1].cb = "midi_message_cb" /\ WellFormed(e[1].bytes))
           => midi_write_cb(b) = e
    PROVE  SaidIsHeard'
<1>1. CASE heard' = <<>> /\ said' = <<>>
  BY <1>1 DEF SaidIsHeard
<1>2. CASE heard' = midi_write_cb(b) /\ said' = e
  <2>1. outside' => ~tx_writer.in_sysex_msg
    BY DEF Sent
  <2> QED BY <1>2, <2>1 DEF SaidIsHeard
<1> QED BY <1>1, <1>2 DEF Sent

(* Every step keeps it.                                                    *)
LEMMA NextSays ==
    ASSUME BLE_MIDI_TX_PACKET_MAX_SIZE >= 5, PaddedMessages
    PROVE  SaidInv /\ [Next]_vars => SaidInv'
<1> SUFFICES ASSUME SaidInv, [Next]_vars PROVE SaidInv'
  OBVIOUS
<1> DEFINE v == FreshPacket
<1>0. WriterInv /\ tx_writer \in Writer /\ tx_writer.tx_buf_max_size >= 5
  BY DEF SaidInv, RoomInv, WriterInv
<1>a. /\ Fresh(v) /\ v.tx_buf_max_size = tx_writer.tx_buf_max_size
      /\ v.in_sysex_msg = tx_writer.in_sysex_msg
  BY <1>0, FreshIs
<1>b. v \in Writer /\ v.tx_buf_max_size >= 5
  BY <1>0, <1>a DEF Fresh
<1> HIDE DEF v
<1>c. ASSUME NEW r, NEW b, NEW e, Sent(r, b, e), WriterStep(v, r.w), SaidIsHeard'
      PROVE  SaidInv'
  <2>1. tx_writer' = r.w
    BY <1>c DEF Sent
  <2>2. r.w \in Writer /\ r.w.tx_buf_max_size = v.tx_buf_max_size
    BY <1>c DEF WriterStep
  <2> QED BY <1>b, <1>c, <2>1, <2>2 DEF SaidInv, RoomInv
<1>1. ASSUME NEW m \in Messages, NEW t \in Timestamps, NEW a \in BOOLEAN,
             ble_midi_tx_msg(m, t, a)
      PROVE  SaidInv'
  <2> DEFINE r == ble_midi_writer_add_msg(v, m, t)
             z == MessageEvent(Meaning(m), t)
             e == <<z>>
  <2>1. m \in ThreeBytes /\ t \in Timestamp
    BY SingleConstants DEF ThreeBytes
  <2>2. Sent(r, r.w.tx_buf, e)
    BY <1>1, MsgCall DEF v
  <2>3. WriterStep(v, r.w)
    BY <1>b, <2>1, AddMsgStep
  <2>4. e[1].bytes = Meaning(m) /\ e[1].cb # "sysex_start_cb"
    BY DEF MessageEvent
  <2>5. ASSUME ~tx_writer.in_sysex_msg, WellFormed(Meaning(m))
        PROVE  midi_write_cb(r.w.tx_buf) = e
    <3>1. Accepted(m) /\ ~v.in_sysex_msg
      BY <1>a, <2>5, PaddedAccepted
    <3>2. r.rc = "SUCCESS"
      BY <1>a, <1>b, <2>1, <3>1, MessageFits
    <3> QED BY <1>a, <2>1, <3>1, <3>2, MessageHeard
  <2> HIDE DEF r, e
  <2>6. SaidIsHeard'
    BY <2>2, <2>4, <2>5, SentHeard
  <2> QED BY <1>c, <2>2, <2>3, <2>6
<1>2. ASSUME NEW t \in Timestamps, NEW a \in BOOLEAN, ble_midi_tx_sysex_start(t, a)
      PROVE  SaidInv'
  <2> DEFINE r == ble_midi_writer_start_sysex_msg(v, t)
             e == <<StartEvent(t)>>
  <2>1. t \in Timestamp
    BY SingleConstants
  <2>2. Sent(r, r.w.tx_buf, e)
    BY <1>2, StartCall DEF v
  <2>3. WriterStep(v, r.w)
    BY <1>b, <2>1, StartStep
  <2>4. ASSUME ~tx_writer.in_sysex_msg PROVE midi_write_cb(r.w.tx_buf) = e
    <3>1. r.rc = "SUCCESS"
      BY <1>a, <1>b, <2>1, <2>4, StartFits
    <3> QED BY <1>a, <2>1, <3>1, StartHeard
  <2> HIDE DEF r, e
  <2>5. SaidIsHeard'
    BY <2>2, <2>4, SentHeard
  <2> QED BY <1>c, <2>2, <2>3, <2>5
<1>3. ASSUME NEW t \in Timestamps, NEW a \in BOOLEAN, ble_midi_tx_sysex_end(t, a)
      PROVE  SaidInv'
  <2> DEFINE r == ble_midi_writer_end_sysex_msg(v, t)
             e == <<EndEvent(t)>>
  <2>1. t \in Timestamp
    BY SingleConstants
  <2>2. Sent(r, r.w.tx_buf, e)
    BY <1>3, EndCall DEF v
  <2>3. WriterStep(v, r.w)
    BY <1>b, <2>1, EndStep
  <2>4. e[1].cb # "sysex_start_cb" /\ e[1].cb # "midi_message_cb"
    BY DEF EndEvent
  <2> HIDE DEF r, e
  <2>5. SaidIsHeard'
    BY <2>2, <2>4, SentHeard
  <2> QED BY <1>c, <2>2, <2>3, <2>5
<1>4. ASSUME NEW d \in SysexData, NEW t \in Timestamps, NEW a \in BOOLEAN,
             ble_midi_tx_sysex_data(d, t, a)
      PROVE  SaidInv'
  <2> DEFINE r == ble_midi_writer_add_sysex_data(v, d, t)
             b == SubSeq(r.w.tx_buf, 1, r.n)
             e == [i \in 1 .. r.n |-> DataEvent(d[i])]
  <2>1. d \in Seq(Byte) /\ t \in Timestamp
    BY SingleConstants
  <2>2. IF r.rc = "SUCCESS" THEN Sent(r, b, e)
        ELSE tx_writer' = r.w /\ said' = <<>> /\ heard' = <<>>
    BY <1>4, DataCall DEF v
  <2>3. WriterStep(v, r.w) /\ r.n \in 0 .. Len(d)
    BY <1>b, <2>1, DataStep
  <2>4. e # <<>> => e[1].cb = "sysex_data_cb"
    <3>1. Len(d) \in Nat
      BY <2>1
    <3>2. CASE r.n = 0
      BY <3>2
    <3>3. CASE r.n # 0
      <4> HIDE DEF r
      <4>1. 1 \in 1 .. r.n
        BY <2>3, <3>1, <3>3
      <4>2. e[1] = DataEvent(d[1])
        BY <4>1
      <4> QED BY <4>2 DEF DataEvent
    <3> QED BY <3>2, <3>3
  <2> HIDE DEF r, b, e
  <2>5. CASE r.rc = "SUCCESS"
    <3>1. Sent(r, b, e)
      BY <2>2, <2>5
    <3>2. SaidIsHeard'
      BY <2>4, <3>1, SentHeard
    <3> QED BY <1>c, <2>3, <3>1, <3>2
  <2>6. CASE r.rc # "SUCCESS"
    <3>1. tx_writer' = r.w /\ said' = <<>> /\ heard' = <<>>
      BY <2>2, <2>6
    <3>2. SaidIsHeard'
      BY <3>1 DEF SaidIsHeard
    <3> QED BY <1>b, <2>3, <3>1, <3>2 DEF WriterStep, SaidInv, RoomInv
  <2> QED BY <2>5, <2>6
<1>5. ASSUME NEW m \in Mtus, on_mtu_changed(m) PROVE SaidInv'
  <2>1. tx_writer' \in Writer /\ tx_writer'.tx_buf_max_size >= 5
    BY <1>0, <1>5, MtuWriter DEF on_mtu_changed
  <2> QED BY <1>5, <2>1 DEF on_mtu_changed, SaidInv, RoomInv, SaidIsHeard
<1>6. ASSUME NEW m \in Mtus, on_connected(m) PROVE SaidInv'
  <2>1. tx_writer' = WithMtu(ble_midi_writer_init, m) /\ heard' = <<>> /\ said' = <<>>
    BY <1>6 DEF on_connected
  <2>2. tx_writer' \in Writer /\ tx_writer'.tx_buf_max_size >= 5
    BY <2>1, MtuWriter, FreshWriters
  <2> QED BY <2>1, <2>2 DEF SaidInv, RoomInv, SaidIsHeard
<1>7. CASE UNCHANGED vars
  BY <1>7 DEF vars, SaidInv, RoomInv, SaidIsHeard
<1> QED BY <1>1, <1>2, <1>3, <1>4, <1>5, <1>6, <1>7 DEF Next

(* SaidIsHeard, for every value of the constants with packets of at least  *)
(* five bytes and messages as ble_midi.h asks for them: what               *)
(* ble_midi_tx_msg and ble_midi_tx_sysex_start report as transmitted is    *)
(* heard, outside of a sysex message, after any sequence of calls, refused *)
(* packets and MTU changes.                                                *)
THEOREM SaidIsAlwaysHeard ==
    ASSUME BLE_MIDI_TX_PACKET_MAX_SIZE >= 5, PaddedMessages
    PROVE  Spec => []SaidIsHeard
<1>1. Init => SaidInv
  <2> SUFFICES ASSUME Init PROVE SaidInv
    OBVIOUS
  <2>1. PICK mtu \in Mtus : tx_writer = WithMtu(ble_midi_writer_init, mtu)
    BY DEF Init
  <2>2. RoomInv
    BY <2>1, MtuWriter, FreshWriters DEF RoomInv
  <2>3. SaidIsHeard
    BY DEF Init, SaidIsHeard
  <2> QED BY <2>2, <2>3 DEF SaidInv
<1>2. SaidInv /\ [Next]_vars => SaidInv'
  BY NextSays
<1>3. SaidInv => SaidIsHeard
  BY DEF SaidInv
<1> QED BY <1>1, <1>2, <1>3, PTL DEF Spec
=============================================================================
