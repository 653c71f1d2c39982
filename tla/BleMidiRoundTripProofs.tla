----------------------- MODULE BleMidiRoundTripProofs -----------------------
(***************************************************************************)
(* The packets that the writer makes are decoded to what was written:      *)
(* proofs about BleMidiRoundTrip.                                          *)
(*                                                                         *)
(* The inductive invariant has two parts.  TypeInv is TypeOK with the      *)
(* types of the callbacks.  PacketInv says of the packet in the making, as *)
(* long as it ran into no case that makes the parser fail, that it is Good *)
(* (BleMidiPacketProofs): decoded to what was written so far, with the     *)
(* parser in the state that the next operation of the writer relies on.    *)
(* Whether a packet decodes is not inductive alone: the next byte means    *)
(* something only in the parser's running status, sysex state and time.    *)
(***************************************************************************)
EXTENDS BleMidiRoundTrip, BleMidiPacketProofs

-----------------------------------------------------------------------------
(* Types.                                                                  *)
TypeInv ==
    /\ w \in Writer /\ Len(w.tx_buf) <= w.tx_buf_max_size
    /\ written \in Seq(Event)
    /\ now \in Timestamp
    /\ span \in 0 .. MaxSpan
    /\ cases \subseteq AllCases

(* TypeInv is stronger than the type invariant that the run checks.        *)
LEMMA TypeInvTypeOK == TypeInv => TypeOK
<1> SUFFICES ASSUME TypeInv PROVE TypeOK
  OBVIOUS
<1>1. Len(w.tx_buf) <= BLE_MIDI_TX_PACKET_MAX_SIZE
  <2>1. Len(w.tx_buf) \in Nat /\ w.tx_buf_max_size \in 0 .. BLE_MIDI_TX_PACKET_MAX_SIZE
    BY DEF TypeInv, Writer
  <2> QED BY <2>1, WriterConstants DEF TypeInv
<1>2. \A i \in 1 .. Len(written) : written[i] \in Event
  BY DEF TypeInv
<1>3. \A i \in 1 .. Len(written) :
           written[i].cb \in {"midi_message_cb", "sysex_start_cb",
                              "sysex_data_cb", "sysex_end_cb"}
  BY <1>2 DEF Event
<1> QED BY <1>1, <1>3 DEF TypeInv, TypeOK

(* A call that succeeds keeps the types.                                   *)
LEMMA WriteTypes ==
    ASSUME TypeInv, NEW r, NEW e \in Seq(Event), Write(r, e), WriterStep(w, r.w),
           cases' \subseteq AllCases
    PROVE  TypeInv'
<1>1. w' = r.w /\ written' = written \o e /\ now' = now /\ span' = span
  BY DEF Write
<1>2. written' \in Seq(Event)
  BY <1>1, EventsConcat DEF TypeInv
<1>3. w' \in Writer /\ Len(w'.tx_buf) <= w'.tx_buf_max_size
  BY <1>1 DEF WriterStep, TypeInv
<1> QED BY <1>1, <1>2, <1>3 DEF TypeInv

(* The meaning of a message.                                               *)
LEMMA MeaningType ==
    ASSUME NEW m, Accepted(m) PROVE Meaning(m) \in Seq(Byte)
<1> DEFINE S == StatusToSend(m)
           D == MessageData(m)
<1>1. S \in Byte /\ D \in Seq(Byte) /\ <<S>> \o D = Meaning(m)
  BY MessageParts
<1> HIDE DEF S, D
<1>2. <<S>> \in Seq(Byte)
  BY <1>1
<1>3. <<S>> \o D \in Seq(Byte)
  BY <1>1, <1>2, Concatenation
<1> QED BY <1>1, <1>3

(* What the actions write are callbacks.                                   *)
LEMMA MessageWritten ==
    ASSUME TypeInv, NEW m \in Messages,
           ble_midi_writer_add_msg(w, m, now).rc = "SUCCESS"
    PROVE  <<MessageEvent(Meaning(m), now)>> \in Seq(Event)
<1>1. w \in Writer /\ now \in Timestamp /\ m \in ThreeBytes
  BY RoundTripConstants DEF TypeInv, ThreeBytes
<1>2. Meaning(m) \in Seq(Byte)
  <2>1. CASE w.in_sysex_msg
    <3>1. m[1] \in Byte /\ Meaning(m) = <<m[1]>>
      BY <1>1, <2>1, MsgInside
    <3> QED BY <3>1
  <2>2. CASE ~w.in_sysex_msg
    BY <1>1, <2>2, MsgOutside, MeaningType
  <2> QED BY <2>1, <2>2
<1>3. now \in Nat
  BY <1>1, TimeParts
<1>4. MessageEvent(Meaning(m), now) \in Event
  BY <1>2, <1>3, EventTypes
<1> QED BY <1>4 DEF Event

(* The callbacks for the start and the end of a sysex message.             *)
LEMMA StatusWritten ==
    ASSUME TypeInv
    PROVE  <<StartEvent(now)>> \in Seq(Event) /\ <<EndEvent(now)>> \in Seq(Event)
<1>1. now \in Nat
  BY TimeParts DEF TypeInv
<1>2. StartEvent(now) \in Event /\ EndEvent(now) \in Event
  BY <1>1, EventTypes
<1> HIDE DEF Event
<1> QED BY <1>2

(* The callbacks for a whole sysex message.                                *)
LEMMA SysexMsgWritten ==
    ASSUME TypeInv, NEW msg \in SysexMsgs,
           ble_midi_writer_add_sysex_msg(w, msg, now).rc = "SUCCESS"
    PROVE  <<StartEvent(now)>> \o [i \in 1 .. Len(msg) - 2 |-> DataEvent(msg[i + 1])]
           \o <<EndEvent(now)>> \in Seq(Event)
<1>1. w \in Writer /\ now \in Timestamp /\ msg \in Seq(Byte)
  BY RoundTripConstants DEF TypeInv
<1>2. SysexShape(msg)
  BY <1>1, SysexMsgLeaves
<1> DEFINE g == [i \in 1 .. Len(msg) - 2 |-> DataEvent(msg[i + 1])]
           a == <<StartEvent(now)>>
           z == <<EndEvent(now)>>
<1>3. g \in Seq(Event)
  <2>1. 2 <= Len(msg) /\ Len(msg) \in Nat /\ \A i \in 1 .. Len(msg) : msg[i] \in Byte
    BY <1>1, <1>2 DEF SysexShape
  <2>2. Len(msg) - 2 \in Nat /\ \A i \in 1 .. Len(msg) - 2 : i + 1 \in 1 .. Len(msg)
    BY <2>1
  <2>3. \A i \in 1 .. Len(msg) - 2 : DataEvent(msg[i + 1]) \in Event
    <3>1. 0 \in Nat
      OBVIOUS
    <3> QED BY <2>1, <2>2, <3>1, EventTypes
  <2> HIDE DEF Event
  <2> QED BY <2>2, <2>3
<1>4. a \in Seq(Event) /\ z \in Seq(Event)
  BY StatusWritten
<1> HIDE DEF g, a, z
<1>5. a \o g \in Seq(Event)
  BY <1>3, <1>4, EventsConcat
<1>6. (a \o g) \o z \in Seq(Event)
  BY <1>4, <1>5, EventsConcat
<1> QED BY <1>6 DEF a, g, z

(* The types of the initial state.                                         *)
LEMMA InitTypes == Init => TypeInv
<1> SUFFICES ASSUME Init PROVE TypeInv
  OBVIOUS
<1>1. w \in Writer /\ Len(w.tx_buf) <= w.tx_buf_max_size
  <2>1. w \in Writer /\ w.tx_buf = <<>>
    BY FreshWriters DEF Init
  <2>2. w.tx_buf_max_size \in Nat
    BY <2>1, WriterConstants DEF Writer
  <2> QED BY <2>1, <2>2
<1>2. now \in Timestamp /\ span \in 0 .. MaxSpan
  BY RoundTripConstants DEF Init
<1>3. written \in Seq(Event) /\ cases \subseteq AllCases
  <2> HIDE DEF Event
  <2> QED BY DEF Init
<1> QED BY <1>1, <1>2, <1>3 DEF TypeInv

(* Every step keeps the types.                                             *)
LEMMA NextTypes == TypeInv /\ [Next]_vars => TypeInv'
<1> SUFFICES ASSUME TypeInv, [Next]_vars PROVE TypeInv'
  OBVIOUS
<1>0. w \in Writer /\ now \in Timestamp /\ cases \subseteq AllCases
  BY DEF TypeInv
<1>1. ASSUME NEW m \in Messages, AddMsg(m) PROVE TypeInv'
  <2> DEFINE r == ble_midi_writer_add_msg(w, m, now)
             e == <<MessageEvent(Meaning(m), now)>>
  <2>1. RunsInto("realtime first", ContinuationBegins) /\ Write(r, e)
    BY <1>1 DEF AddMsg
  <2>2. r.rc = "SUCCESS"
    BY <2>1 DEF Write
  <2>3. e \in Seq(Event)
    BY <2>2, MessageWritten
  <2>4. WriterStep(w, r.w)
    <3>1. m \in ThreeBytes
      BY RoundTripConstants DEF ThreeBytes
    <3> QED BY <1>0, <3>1, AddMsgStep
  <2>5. cases' \subseteq AllCases
    <3>1. "realtime first" \in AllCases
      BY DEF AllCases
    <3> QED BY <1>0, <2>1, <3>1 DEF RunsInto
  <2> HIDE DEF r, e
  <2> QED BY <2>1, <2>3, <2>4, <2>5, WriteTypes
<1>2. ASSUME StartSysex PROVE TypeInv'
  <2> DEFINE r == ble_midi_writer_start_sysex_msg(w, now)
             e == <<StartEvent(now)>>
  <2>1. Write(r, e) /\ cases' = cases
    BY <1>2 DEF StartSysex
  <2>2. e \in Seq(Event)
    BY StatusWritten
  <2>3. WriterStep(w, r.w)
    BY <1>0, StartStep
  <2> HIDE DEF r, e
  <2> QED BY <1>0, <2>1, <2>2, <2>3, WriteTypes
<1>3. ASSUME NEW d \in SysexData, AddSysexData(d) PROVE TypeInv'
  <2> DEFINE r == ble_midi_writer_add_sysex_data(w, d, now)
             e == [i \in 1 .. r.n |-> DataEvent(d[i])]
  <2>1. Write(r, e) /\ cases' = cases
    BY <1>3 DEF AddSysexData
  <2>2. d \in Seq(Byte)
    BY RoundTripConstants
  <2>3. WriterStep(w, r.w) /\ r.n \in 0 .. Len(d)
    BY <1>0, <2>2, DataStep
  <2>4. e \in Seq(Event)
    <3>1. e = Datas(d, r.n)
      BY DEF Datas
    <3> HIDE DEF r, e
    <3> QED BY <2>2, <2>3, <3>1, DatasType
  <2> HIDE DEF r, e
  <2> QED BY <1>0, <2>1, <2>3, <2>4, WriteTypes
<1>4. ASSUME EndSysex PROVE TypeInv'
  <2> DEFINE r == ble_midi_writer_end_sysex_msg(w, now)
             e == <<EndEvent(now)>>
  <2>1. RunsInto("end first", ContinuationBegins) /\ Write(r, e)
    BY <1>4 DEF EndSysex
  <2>2. e \in Seq(Event)
    BY StatusWritten
  <2>3. WriterStep(w, r.w)
    BY <1>0, EndStep
  <2>4. cases' \subseteq AllCases
    <3>1. "end first" \in AllCases
      BY DEF AllCases
    <3> QED BY <1>0, <2>1, <3>1 DEF RunsInto
  <2> HIDE DEF r, e
  <2> QED BY <2>1, <2>2, <2>3, <2>4, WriteTypes
<1>5. ASSUME NEW msg \in SysexMsgs, AddSysexMsg(msg) PROVE TypeInv'
  <2> DEFINE r == ble_midi_writer_add_sysex_msg(w, msg, now)
             e == <<StartEvent(now)>>
                  \o [i \in 1 .. Len(msg) - 2 |-> DataEvent(msg[i + 1])]
                  \o <<EndEvent(now)>>
  <2>1. Write(r, e) /\ cases' = cases
    BY <1>5 DEF AddSysexMsg
  <2>2. r.rc = "SUCCESS"
    BY <2>1 DEF Write
  <2>3. e \in Seq(Event)
    BY <2>2, SysexMsgWritten
  <2>4. WriterStep(w, r.w)
    <3>1. msg \in Seq(Byte)
      BY RoundTripConstants
    <3> QED BY <1>0, <2>2, <3>1, SysexMsgLeaves
  <2> HIDE DEF r, e
  <2> QED BY <1>0, <2>1, <2>3, <2>4, WriteTypes
<1>6. ASSUME NEW t \in StartTimes, Send(t) PROVE TypeInv'
  <2>1. /\ w' = ble_midi_writer_reset(w) /\ written' = <<>> /\ now' = t /\ span' = 0
        /\ cases' = {}
    BY <1>6 DEF Send
  <2>2. w' \in Writer /\ w'.tx_buf = <<>>
    BY <1>0, <2>1, FreshWriters
  <2>3. w'.tx_buf_max_size \in Nat
    BY <2>2, WriterConstants DEF Writer
  <2>4. now' \in Timestamp /\ span' \in 0 .. MaxSpan
    BY <2>1, RoundTripConstants
  <2>5. written' \in Seq(Event)
    <3> HIDE DEF Event
    <3> QED BY <2>1
  <2>6. Len(w'.tx_buf) <= w'.tx_buf_max_size
    BY <2>2, <2>3
  <2> QED BY <2>1, <2>2, <2>4, <2>5, <2>6 DEF TypeInv
<1>7. ASSUME NEW d \in Delays, Tick(d) PROVE TypeInv'
  <2>1. /\ span + d <= MaxSpan
        /\ now' = (now + d) % 8192 /\ span' = span + d /\ w' = w /\ written' = written
    BY <1>7, ZenonT(60) DEF Tick
  <2>2. d \in 1 .. 127 /\ MaxSpan \in Nat
    BY RoundTripConstants
  <2>3. now' \in Timestamp
    <3>1. now' = (now + d) % 8192 /\ now \in Nat /\ d \in Nat
      BY <1>0, <2>1, <2>2 DEF Timestamp
    <3> QED BY <3>1 DEF Timestamp
  <2>4. span' \in 0 .. MaxSpan
    <3>1. span' = span + d /\ span + d <= MaxSpan /\ span \in Nat
      BY <2>1, <2>2 DEF TypeInv
    <3> QED BY <2>2, <3>1
  <2>5. cases' \subseteq AllCases
    <3>1. "wrap after sysex" \in AllCases
      BY DEF AllCases
    <3>2. cases' = cases \/ cases' = cases \cup {"wrap after sysex"}
      BY <1>7, ZenonT(60) DEF Tick, RunsInto
    <3> QED BY <1>0, <3>1, <3>2
  <2> QED BY <2>1, <2>3, <2>4, <2>5 DEF TypeInv
<1>8. ASSUME UNCHANGED vars PROVE TypeInv'
  BY <1>8 DEF vars, TypeInv
<1> QED BY <1>1, <1>2, <1>3, <1>4, <1>5, <1>6, <1>7, <1>8 DEF Next

(* TypeOK, for every value of the constants: the writer stays in the type  *)
(* of struct ble_midi_writer_t and what is written are callbacks.          *)
THEOREM RoundTripTypes == Spec => []TypeOK
<1>1. Init => TypeInv
  BY InitTypes
<1>2. TypeInv /\ [Next]_vars => TypeInv'
  BY NextTypes
<1>3. TypeInv => TypeOK
  BY TypeInvTypeOK
<1> QED BY <1>1, <1>2, <1>3, PTL DEF Spec

-----------------------------------------------------------------------------
(* The packet.                                                             *)
Place(v) == IF v.in_sysex_msg THEN "in" ELSE "out"

(* The packet of the writer v is decoded to f.                             *)
GoodPacket(v, f, t, s, c) ==
    Good(v.tx_buf, Place(v), v.prev_running_status_byte, v.prev_timestamp, f, t, s, c)

(* The cases that excuse wrong timestamps: one more if packets may take    *)
(* too long for a single wrap of the low part.                             *)
Excuses == IF MaxSpan <= 127 THEN cases ELSE AllCases

(* Packets with only this case are parsed, with wrong timestamps.          *)
Tolerable == cases \subseteq {"wrap after sysex"}

(* The packet in the making is good; an empty one says nothing.            *)
PacketInv ==
    /\ w.in_sysex_msg => 3 <= w.tx_buf_max_size
    /\ w.tx_buf = <<>> => written = <<>> /\ w.prev_running_status_byte = 0
    /\ w.tx_buf # <<>> /\ Tolerable => GoodPacket(w, written, now, span, Excuses)

(* The time that has passed is short enough where timestamps matter.       *)
LEMMA SpanInTime ==
    ASSUME TypeInv PROVE InTime(span, Excuses)
<1>1. span \in Nat /\ MaxSpan \in Nat /\ span <= MaxSpan
  BY RoundTripConstants DEF TypeInv
<1>2. Excuses = {} => MaxSpan <= 127
  <2>1. AllCases # {}
    BY DEF AllCases
  <2> QED BY <2>1 DEF Excuses
<1> QED BY <1>1, <1>2 DEF InTime

(* The packet with its header byte can be written to.                      *)
LEMMA PacketBegun ==
    ASSUME TypeInv, PacketInv, Tolerable
    PROVE  Begun(Opened(w, now), Place(w), w.prev_running_status_byte, w.prev_timestamp,
                 written, now, span, Excuses)
<1>1. CASE w.tx_buf = <<>>
  <2>1. Opened(w, now) = <<header_byte(now)>> /\ written = <<>>
        /\ w.prev_running_status_byte = 0
    BY <1>1 DEF Opened, PacketInv
  <2>2. Place(w) \in {"in", "out"}
    BY DEF Place
  <2>3. now \in Timestamp /\ span \in Nat
    BY RoundTripConstants DEF TypeInv
  <2>4. Begun(<<header_byte(now)>>, Place(w), 0, w.prev_timestamp, <<>>, now, span, Excuses)
    BY <2>2, <2>3, NewBegun
  <2> QED BY <2>1, <2>4
<1>2. CASE w.tx_buf # <<>>
  <2>1. Opened(w, now) = w.tx_buf
    BY <1>2 DEF Opened
  <2>2. GoodPacket(w, written, now, span, Excuses)
    BY <1>2 DEF PacketInv
  <2> QED BY <2>1, <2>2, GoodBegun DEF GoodPacket
<1> QED BY <1>1, <1>2

(* What is left to show for a call that succeeds.                          *)
LEMMA WrittenPacket ==
    ASSUME TypeInv, PacketInv, NEW r, NEW e, Write(r, e), r.w.tx_buf # <<>>,
           r.w.in_sysex_msg => 3 <= r.w.tx_buf_max_size,
           cases' = cases => GoodPacket(r.w, written \o e, now, span, Excuses) \/ ~Tolerable,
           cases' = cases \/ ~Tolerable'
    PROVE  PacketInv'
<1>1. w' = r.w /\ written' = written \o e /\ now' = now /\ span' = span
  BY DEF Write
<1>2. CASE cases' = cases
  <2>1. Excuses' = Excuses /\ (Tolerable' <=> Tolerable)
    BY <1>2 DEF Excuses, Tolerable
  <2> QED BY <1>1, <1>2, <2>1 DEF PacketInv
<1>3. CASE ~Tolerable'
  BY <1>1, <1>3 DEF PacketInv
<1> QED BY <1>2, <1>3

(* Bytes behind other bytes.                                               *)
LEMMA NotEmpty ==
    ASSUME NEW b \in Seq(Byte), NEW d \in Seq(Byte), b # <<>> PROVE b \o d # <<>>
<1>1. Len(b) \in Nat /\ Len(b) # 0 /\ Len(d) \in Nat
  BY EmptySeq
<1> DEFINE c == b \o d
<1>2. c \in Seq(Byte) /\ Len(c) = Len(b) + Len(d)
  BY Concatenation
<1> HIDE DEF c
<1>3. Len(c) # 0
  BY <1>1, <1>2
<1>4. c # <<>>
  BY <1>3
<1> QED BY <1>4 DEF c

(* A good packet is a sequence of bytes.                                   *)
LEMMA GoodBytes ==
    ASSUME NEW b, NEW x, NEW p, NEW u, NEW f, NEW t, NEW s, NEW c,
           Good(b, x, p, u, f, t, s, c)
    PROVE  b \in Seq(Byte)
BY DEF Good, Says

(* ble_midi_writer_start_sysex_msg keeps the packet good.                  *)
LEMMA StartPacket ==
    ASSUME TypeInv, PacketInv, StartSysex
    PROVE  PacketInv'
<1> DEFINE r == ble_midi_writer_start_sysex_msg(w, now)
           e == <<StartEvent(now)>>
           b == Opened(w, now)
           d == <<timestamp_byte(now), \hF0>>
<1>1. Write(r, e) /\ cases' = cases /\ r.rc = "SUCCESS"
  BY DEF StartSysex, Write
<1>2. w \in Writer /\ now \in Timestamp
  BY DEF TypeInv
<1>3. /\ ~w.in_sysex_msg /\ r.w.in_sysex_msg
      /\ Leaves(r.w, b \o d, 0, w.prev_timestamp)
      /\ Len(b) + 2 <= w.tx_buf_max_size
  BY <1>1, <1>2, StartLeaves
<1>4. WriterStep(w, r.w)
  BY <1>2, StartStep
<1>5. b \in Seq(Byte) /\ b # <<>>
  BY <1>2, OpenedType
<1>6. d \in Seq(Byte)
  <2>1. timestamp_byte(now) \in Byte /\ \hF0 \in Byte
    BY <1>2, TimeBytes DEF Byte
  <2> QED BY <2>1
<1> HIDE DEF r, e
<1>7. r.w.tx_buf # <<>>
  <2> HIDE DEF b, d
  <2> QED BY <1>3, <1>5, <1>6, NotEmpty DEF Leaves
<1>8. 3 <= r.w.tx_buf_max_size
  <2>1. Len(b) \in Nat /\ Len(b) # 0
    BY <1>5, EmptySeq
  <2>2. r.w.tx_buf_max_size = w.tx_buf_max_size /\ w.tx_buf_max_size \in Nat
    BY <1>2, <1>4, WriterConstants DEF WriterStep, Writer
  <2> HIDE DEF b
  <2> QED BY <1>3, <2>1, <2>2
<1>9. ASSUME Tolerable PROVE GoodPacket(r.w, written \o e, now, span, Excuses)
  <2>1. Place(w) = "out" /\ Place(r.w) = "in"
    BY <1>3 DEF Place
  <2>2. Begun(b, "out", w.prev_running_status_byte, w.prev_timestamp, written, now, span, Excuses)
    BY <1>9, <2>1, PacketBegun
  <2>3. Good(b \o d, "in", 0, w.prev_timestamp, written \o e, now, span, Excuses)
    BY <1>2, <2>2, SpanInTime, GoodStart DEF e
  <2> HIDE DEF b, d
  <2> QED BY <1>3, <2>1, <2>3 DEF GoodPacket, Leaves
<1> QED BY <1>1, <1>7, <1>8, <1>9, WrittenPacket

(* ble_midi_writer_add_msg keeps the packet good.                          *)
LEMMA MessagePacket ==
    ASSUME TypeInv, PacketInv, NEW m \in Messages, AddMsg(m)
    PROVE  PacketInv'
<1> DEFINE r == ble_midi_writer_add_msg(w, m, now)
           e == <<MessageEvent(Meaning(m), now)>>
<1>1. Write(r, e) /\ r.rc = "SUCCESS"
  BY DEF AddMsg, Write
<1>2. w \in Writer /\ now \in Timestamp /\ m \in ThreeBytes
  BY RoundTripConstants DEF TypeInv, ThreeBytes
<1>3. WriterStep(w, r.w) /\ r.w.in_sysex_msg = w.in_sysex_msg
  BY <1>2, AddMsgStep
<1>4. r.w.in_sysex_msg => 3 <= r.w.tx_buf_max_size
  BY <1>3 DEF WriterStep, PacketInv
<1>5. cases' = IF ContinuationBegins THEN cases \cup {"realtime first"} ELSE cases
  BY Zenon DEF AddMsg, RunsInto
<1>6. CASE ~w.in_sysex_msg
  <2> DEFINE b == Opened(w, now)
             d == MessageTail(w, m, now)
  <2>1. Accepted(m) /\ Leaves(r.w, b \o d, RunningStatusAfter(w, m), now)
    BY <1>1, <1>2, <1>6, MsgOutside
  <2>2. b \in Seq(Byte) /\ b # <<>> /\ d \in Seq(Byte)
    BY <1>2, <2>1, OpenedType, MessageAppended
  <2> HIDE DEF r
  <2>3. r.w.tx_buf # <<>>
    <3> HIDE DEF b, d
    <3> QED BY <2>1, <2>2, NotEmpty DEF Leaves
  <2>4. cases' = cases
    BY <1>5, <1>6 DEF ContinuationBegins
  <2>5. ASSUME Tolerable PROVE GoodPacket(r.w, written \o e, now, span, Excuses)
    <3>1. Place(w) = "out" /\ Place(r.w) = "out"
      BY <1>3, <1>6 DEF Place
    <3>2. Begun(b, "out", w.prev_running_status_byte, w.prev_timestamp, written, now, span, Excuses)
      BY <2>5, <3>1, PacketBegun
    <3>3. Good(b \o d, "out", RunningStatusAfter(w, m), now, written \o e, now, span, Excuses)
      BY <1>2, <2>1, <3>2, SpanInTime, GoodMessage
    <3> HIDE DEF b, d, e
    <3> QED BY <2>1, <3>1, <3>3 DEF GoodPacket, Leaves
  <2> HIDE DEF e
  <2> QED BY <1>1, <1>4, <2>3, <2>4, <2>5, WrittenPacket
<1>7. CASE w.in_sysex_msg
  <2> DEFINE d == <<timestamp_byte(now), m[1]>>
  <2>1. /\ is_realtime_message(m[1]) /\ m[1] \in Byte /\ Meaning(m) = <<m[1]>>
        /\ Leaves(r.w, w.tx_buf \o d, w.prev_running_status_byte, w.prev_timestamp)
    BY <1>1, <1>2, <1>7, MsgInside
  <2>2. w.tx_buf \in Seq(Byte) /\ d \in Seq(Byte) /\ Len(d) = 2
    <3>1. timestamp_byte(now) \in Byte
      BY <1>2, TimeBytes
    <3>2. d \in Seq(Byte) /\ Len(d) = 2
      BY <2>1, <3>1
    <3> QED BY <1>2, <3>2 DEF Writer
  <2> HIDE DEF r
  <2>3. r.w.tx_buf # <<>>
    <3> HIDE DEF d
    <3> DEFINE b == w.tx_buf
               c == b \o d
    <3>1. b \in Seq(Byte) /\ Len(b) \in Nat
      BY <2>2
    <3> HIDE DEF b
    <3>0. b \in Seq(Byte) /\ d \in Seq(Byte)
      BY <2>2, <3>1
    <3>2. c \in Seq(Byte) /\ Len(c) = Len(b) + Len(d)
      BY <3>0, Concatenation
    <3> HIDE DEF c
    <3>3. Len(c) # 0
      BY <2>2, <3>1, <3>2
    <3>4. c # <<>>
      BY <3>3
    <3> QED BY <2>1, <3>4 DEF Leaves, b, c
  <2>4. CASE w.tx_buf = <<>>
    <3>1. cases' = cases \cup {"realtime first"}
      BY <1>5, <1>7, <2>4 DEF ContinuationBegins
    <3>2. "realtime first" \in cases' /\ "realtime first" # "wrap after sysex"
      BY <3>1
    <3>3. ~Tolerable'
      BY <3>2 DEF Tolerable
    <3>4. cases' = cases => ~Tolerable
      BY <3>2 DEF Tolerable
    <3> HIDE DEF e
    <3> QED BY <1>1, <1>4, <2>3, <3>3, <3>4, WrittenPacket
  <2>5. CASE w.tx_buf # <<>>
    <3>1. cases' = cases
      BY <1>5, <2>5 DEF ContinuationBegins
    <3>2. ASSUME Tolerable PROVE GoodPacket(r.w, written \o e, now, span, Excuses)
      <4>1. Place(w) = "in" /\ Place(r.w) = "in"
        BY <1>3, <1>7 DEF Place
      <4>2. Good(w.tx_buf, "in", w.prev_running_status_byte, w.prev_timestamp, written, now, span, Excuses)
        BY <2>5, <3>2, <4>1 DEF PacketInv, GoodPacket
      <4>3. Good(w.tx_buf \o d, "in", w.prev_running_status_byte, w.prev_timestamp,
                 written \o <<MessageEvent(<<m[1]>>, now)>>, now, span, Excuses)
        BY <1>2, <2>1, <4>2, SpanInTime, GoodRealtime
      <4>4. e = <<MessageEvent(<<m[1]>>, now)>>
        BY <2>1
      <4> HIDE DEF d, e
      <4> QED BY <2>1, <4>1, <4>3, <4>4 DEF GoodPacket, Leaves
    <3> HIDE DEF e
    <3> QED BY <1>1, <1>4, <2>3, <3>1, <3>2, WrittenPacket
  <2> QED BY <2>4, <2>5
<1> QED BY <1>6, <1>7

(* ble_midi_writer_end_sysex_msg keeps the packet good.                    *)
LEMMA EndPacket ==
    ASSUME TypeInv, PacketInv, EndSysex
    PROVE  PacketInv'
<1> DEFINE r == ble_midi_writer_end_sysex_msg(w, now)
           e == <<EndEvent(now)>>
           b == Opened(w, now)
           d == <<timestamp_byte(now), \hF7>>
<1>1. Write(r, e) /\ r.rc = "SUCCESS"
  BY DEF EndSysex, Write
<1>2. w \in Writer /\ now \in Timestamp
  BY DEF TypeInv
<1>3. /\ w.in_sysex_msg /\ ~r.w.in_sysex_msg
      /\ Leaves(r.w, b \o d, w.prev_running_status_byte, w.prev_timestamp)
  BY <1>1, <1>2, EndLeaves
<1>4. cases' = IF ContinuationBegins THEN cases \cup {"end first"} ELSE cases
  BY Zenon DEF EndSysex, RunsInto
<1>5. b \in Seq(Byte) /\ b # <<>>
  BY <1>2, OpenedType
<1>6. d \in Seq(Byte)
  <2>1. timestamp_byte(now) \in Byte /\ \hF7 \in Byte
    BY <1>2, TimeBytes DEF Byte
  <2> QED BY <2>1
<1> HIDE DEF r, e
<1>7. r.w.tx_buf # <<>>
  <2> HIDE DEF b, d
  <2> QED BY <1>3, <1>5, <1>6, NotEmpty DEF Leaves
<1>8. CASE w.tx_buf = <<>>
  <2>1. cases' = cases \cup {"end first"}
    BY <1>3, <1>4, <1>8 DEF ContinuationBegins
  <2>2. "end first" \in cases' /\ "end first" # "wrap after sysex"
    BY <2>1
  <2>3. ~Tolerable'
    BY <2>2 DEF Tolerable
  <2>4. cases' = cases => ~Tolerable
    BY <2>2 DEF Tolerable
  <2> QED BY <1>1, <1>3, <1>7, <2>3, <2>4, WrittenPacket
<1>9. CASE w.tx_buf # <<>>
  <2>1. cases' = cases
    BY <1>4, <1>9 DEF ContinuationBegins
  <2>2. ASSUME Tolerable PROVE GoodPacket(r.w, written \o e, now, span, Excuses)
    <3>1. Place(w) = "in" /\ Place(r.w) = "out"
      BY <1>3 DEF Place
    <3>2. b = w.tx_buf
      BY <1>9 DEF Opened
    <3>3. Good(b, "in", w.prev_running_status_byte, w.prev_timestamp, written, now, span, Excuses)
      BY <1>9, <2>2, <3>1, <3>2 DEF PacketInv, GoodPacket
    <3>4. Good(b \o d, "out", w.prev_running_status_byte, w.prev_timestamp,
               written \o e, now, span, Excuses)
      BY <1>2, <3>3, SpanInTime, GoodEnd DEF e
    <3> HIDE DEF d, b
    <3> QED BY <1>3, <3>1, <3>4 DEF GoodPacket, Leaves
  <2> QED BY <1>1, <1>3, <1>7, <2>1, <2>2, WrittenPacket
<1> QED BY <1>8, <1>9

(* ble_midi_writer_add_sysex_data keeps the packet good.                   *)
LEMMA DataPacket ==
    ASSUME TypeInv, PacketInv, NEW d \in SysexData, AddSysexData(d)
    PROVE  PacketInv'
<1> DEFINE r == ble_midi_writer_add_sysex_data(w, d, now)
           n == r.n
           e == [i \in 1 .. n |-> DataEvent(d[i])]
           b == Opened(w, now)
           q == SubSeq(d, 1, n)
<1>1. Write(r, e) /\ cases' = cases /\ r.rc = "SUCCESS" /\ w.in_sysex_msg
  BY DEF AddSysexData, Write
<1>2. w \in Writer /\ now \in Timestamp /\ d \in Seq(Byte) /\ d # <<>>
  BY RoundTripConstants DEF TypeInv
<1>3. /\ n \in 0 .. Len(d)
      /\ Leaves(r.w, b \o q, w.prev_running_status_byte, w.prev_timestamp)
      /\ Len(b) < w.tx_buf_max_size /\ d # <<>> => n # 0
      /\ \A i \in 1 .. Len(d) : d[i] < 128
  BY <1>1, <1>2, DataLeaves
<1>4. WriterStep(w, r.w) /\ r.w.in_sysex_msg = w.in_sysex_msg
  BY <1>2, DataStep
<1>5. b \in Seq(Byte) /\ b # <<>>
  BY <1>2, OpenedType
<1>6. e = Datas(d, n)
  BY DEF Datas
<1> HIDE DEF r, n, e
<1>7. /\ q \in Seq(Byte) /\ Len(q) = n /\ \A j \in 1 .. n : q[j] = d[j]
      /\ Datas(q, n) = e
  BY <1>2, <1>3, <1>6, DatasTaken
<1>8. r.w.tx_buf # <<>>
  <2> HIDE DEF b, q
  <2> QED BY <1>3, <1>5, <1>7, NotEmpty DEF Leaves
<1>9. r.w.in_sysex_msg => 3 <= r.w.tx_buf_max_size
  BY <1>4 DEF WriterStep, PacketInv
<1>10. Place(w) = "in" /\ Place(r.w) = "in"
  BY <1>1, <1>4 DEF Place
<1>11. ASSUME Tolerable PROVE GoodPacket(r.w, written \o e, now, span, Excuses)
  <2> DEFINE p == w.prev_running_status_byte
             u == w.prev_timestamp
  <2>1. CASE n # 0
    <3>1. Begun(b, "in", p, u, written, now, span, Excuses)
      BY <1>10, <1>11, PacketBegun
    <3>2. q # <<>> /\ \A j \in 1 .. Len(q) : q[j] < 128
      <4> HIDE DEF q
      <4>1. q # <<>>
        BY <1>7, <2>1
      <4>2. n \in Nat /\ \A j \in 1 .. n : j \in 1 .. Len(d)
        BY <1>2, <1>3
      <4> QED BY <1>3, <1>7, <4>1, <4>2
    <3> HIDE DEF q, b, p, u
    <3>3. Good(b \o q, "in", p, u, written \o Datas(q, Len(q)), now, span, Excuses)
      BY <1>2, <1>7, <3>1, <3>2, GoodData
    <3> QED BY <1>3, <1>7, <1>10, <3>3 DEF GoodPacket, Leaves, p, u
  <2>2. CASE n = 0
    <3>1. w.tx_buf # <<>>
      <4> SUFFICES ASSUME w.tx_buf = <<>> PROVE FALSE
        OBVIOUS
      <4>1. Len(b) = 1
        BY DEF Opened
      <4>2. 3 <= w.tx_buf_max_size /\ w.tx_buf_max_size \in Nat
        BY <1>1, <1>2, WriterConstants DEF PacketInv, Writer
      <4> QED BY <1>2, <1>3, <2>2, <4>1, <4>2
    <3>2. b = w.tx_buf
      BY <3>1 DEF Opened
    <3>3. Good(b, "in", p, u, written, now, span, Excuses)
      BY <1>10, <1>11, <3>1, <3>2 DEF PacketInv, GoodPacket
    <3> HIDE DEF q, b, p, u
    <3>4. q = <<>>
      BY <1>7, <2>2, EmptySeq
    <3>5. b \o q = b
      BY <1>5, <3>4, ConcatEmptySeq
    <3>6. written \o e = written
      <4>1. written \in Seq(Event)
        BY DEF TypeInv
      <4>2. e = Datas(d, 0)
        BY <1>6, <2>2
      <4> QED BY <4>1, <4>2, DatasNone
    <3> QED BY <1>3, <1>10, <3>3, <3>5, <3>6 DEF GoodPacket, Leaves, p, u
  <2> QED BY <2>1, <2>2
<1> QED BY <1>1, <1>8, <1>9, <1>11, WrittenPacket

(* ble_midi_writer_add_sysex_msg keeps the packet good.                    *)
LEMMA SysexMsgPacket ==
    ASSUME TypeInv, PacketInv, NEW msg \in SysexMsgs, AddSysexMsg(msg)
    PROVE  PacketInv'
<1> DEFINE r == ble_midi_writer_add_sysex_msg(w, msg, now)
           e == <<StartEvent(now)>>
                \o [i \in 1 .. Len(msg) - 2 |-> DataEvent(msg[i + 1])]
                \o <<EndEvent(now)>>
           b == Opened(w, now)
           d == Inner(msg)
           a == <<timestamp_byte(now), \hF0>>
           z == <<timestamp_byte(now), \hF7>>
           B == ((b \o a) \o d) \o z
<1>1. Write(r, e) /\ cases' = cases /\ r.rc = "SUCCESS" /\ ~w.in_sysex_msg
  BY DEF AddSysexMsg, Write
<1>2. w \in Writer /\ now \in Timestamp /\ msg \in Seq(Byte) /\ written \in Seq(Event)
  BY RoundTripConstants DEF TypeInv
<1>3. /\ SysexShape(msg) /\ Leaves(r.w, B, 0, w.prev_timestamp)
      /\ WriterStep(w, r.w) /\ r.w.in_sysex_msg = w.in_sysex_msg
  <2>1. r.rc = "SUCCESS"
    BY <1>1
  <2> QED BY <1>2, <2>1, SysexMsgLeaves, ZenonT(60)
<1>4. b \in Seq(Byte) /\ b # <<>>
  BY <1>2, OpenedType
<1>5. timestamp_byte(now) \in Byte /\ \hF0 \in Byte /\ \hF7 \in Byte
  BY <1>2, TimeBytes DEF Byte
<1>6. a \in Seq(Byte) /\ z \in Seq(Byte)
  BY <1>5
<1>7. d \in Seq(Byte) /\ \A j \in 1 .. Len(d) : d[j] < 128
  BY <1>3, <1>5, InnerBytes
<1>8. written \o e = ((written \o <<StartEvent(now)>>) \o Datas(d, Len(d))) \o <<EndEvent(now)>>
  BY <1>2, <1>3, SysexMsgEvents
<1> HIDE DEF r, e
<1>9. B # <<>>
  <2> HIDE DEF a, z, b, d
  <2>1. b \o a \in Seq(Byte) /\ b \o a # <<>>
    BY <1>4, <1>6, Concatenation, NotEmpty
  <2> DEFINE ba == b \o a
  <2>2. ba \in Seq(Byte) /\ ba # <<>>
    BY <2>1
  <2> HIDE DEF ba
  <2>3. ba \o d \in Seq(Byte) /\ ba \o d # <<>>
    BY <1>7, <2>2, Concatenation, NotEmpty
  <2> DEFINE bad == ba \o d
  <2>4. bad \in Seq(Byte) /\ bad # <<>>
    BY <2>3
  <2> HIDE DEF bad
  <2>5. bad \o z # <<>>
    BY <1>6, <2>4, NotEmpty
  <2> QED BY <2>5 DEF ba, bad
<1>10. ASSUME Tolerable PROVE GoodPacket(r.w, written \o e, now, span, Excuses)
  <2>1. Place(w) = "out" /\ Place(r.w) = "out"
    BY <1>1, <1>3 DEF Place
  <2>2. Begun(b, "out", w.prev_running_status_byte, w.prev_timestamp, written, now, span, Excuses)
    BY <1>10, <2>1, PacketBegun
  <2> HIDE DEF b, d
  <2>3. Good(B, "out", 0, w.prev_timestamp,
             ((written \o <<StartEvent(now)>>) \o Datas(d, Len(d))) \o <<EndEvent(now)>>,
             now, span, Excuses)
    BY <1>2, <1>7, <2>2, SpanInTime, GoodSysexMsg
  <2> HIDE DEF B
  <2>4. Good(B, "out", 0, w.prev_timestamp, written \o e, now, span, Excuses)
    BY <1>8, <2>3
  <2> QED BY <1>3, <2>1, <2>4 DEF GoodPacket, Leaves
<1> HIDE DEF B
<1>11. r.w.tx_buf # <<>> /\ ~r.w.in_sysex_msg
  BY <1>1, <1>3, <1>9 DEF Leaves
<1> QED BY <1>1, <1>10, <1>11, WrittenPacket

(* A packet that is sent leaves an empty one.                              *)
LEMMA SendPacket ==
    ASSUME TypeInv, PacketInv, NEW t \in StartTimes, Send(t)
    PROVE  PacketInv'
<1>1. w' = ble_midi_writer_reset(w) /\ written' = <<>>
  BY DEF Send
<1>2. w \in Writer
  BY DEF TypeInv
<1>3. w'.tx_buf = <<>> /\ w'.prev_running_status_byte = 0
      /\ w'.tx_buf_max_size = w.tx_buf_max_size /\ w'.in_sysex_msg = w.in_sysex_msg
  BY <1>1, <1>2 DEF Writer, ble_midi_writer_reset
<1> QED BY <1>1, <1>3 DEF PacketInv

(* Time passes: the packet stays good, or runs into a case.                *)
LEMMA TickPacket ==
    ASSUME TypeInv, PacketInv, NEW d \in Delays, Tick(d)
    PROVE  PacketInv'
<1>1. /\ span + d <= MaxSpan /\ w.tx_buf # <<>>
      /\ now' = (now + d) % 8192 /\ span' = span + d /\ w' = w /\ written' = written
  BY ZenonT(60) DEF Tick
<1>2. cases' = IF HoldsSysex /\ (now % 128) + d >= 128
               THEN cases \cup {"wrap after sysex"} ELSE cases
  BY ZenonT(60) DEF Tick, RunsInto
<1>3. d \in Nat /\ MaxSpan \in Nat /\ span \in Nat /\ now \in Timestamp
  <2>1. d \in 1 .. 127 /\ MaxSpan \in Nat
    BY RoundTripConstants
  <2>2. span \in 0 .. MaxSpan /\ now \in Timestamp
    BY DEF TypeInv
  <2> QED BY <2>1, <2>2
<1>4. ASSUME Tolerable' PROVE GoodPacket(w, written, now', span', Excuses')
  <2>1. Tolerable
    BY <1>2, <1>4 DEF Tolerable
  <2>2. GoodPacket(w, written, now, span, Excuses)
    BY <1>1, <2>1 DEF PacketInv
  <2>3. CASE Excuses' # {}
    BY <2>2, <2>3, GoodLate DEF GoodPacket
  <2>4. CASE Excuses' = {}
    <3>1. cases' = {} /\ MaxSpan <= 127
      <4>1. AllCases # {}
        BY DEF AllCases
      <4> QED BY <2>4, <4>1 DEF Excuses
    <3>2. cases = {} /\ ~(HoldsSysex /\ (now % 128) + d >= 128)
      BY <1>2, <3>1
    <3>3. Excuses = {}
      BY <3>1, <3>2 DEF Excuses
    <3>4. ~(Sysex(written) /\ (now % 128) + d >= 128)
      BY <3>2 DEF HoldsSysex, Sysex
    <3>5. span + d <= 127
      BY <1>1, <1>3, <3>1
    <3>6. GoodPacket(w, written, now, span, {})
      BY <2>2, <3>3
    <3>7. GoodPacket(w, written, (now + d) % 8192, span + d, {})
      BY <1>3, <3>4, <3>5, <3>6, GoodTick DEF GoodPacket
    <3> QED BY <1>1, <2>4, <3>7
  <2> QED BY <2>3, <2>4
<1> QED BY <1>1, <1>4 DEF PacketInv

(* The first packet is empty.                                              *)
LEMMA InitPacket == Init => PacketInv
<1> SUFFICES ASSUME Init PROVE PacketInv
  OBVIOUS
<1>1. w = ble_midi_writer_init /\ written = <<>>
  BY DEF Init
<1>2. w.tx_buf = <<>> /\ w.prev_running_status_byte = 0 /\ w.in_sysex_msg = FALSE
  BY <1>1 DEF ble_midi_writer_init
<1> QED BY <1>1, <1>2 DEF PacketInv

(* Every step keeps the packet good.                                       *)
LEMMA NextPacket == TypeInv /\ PacketInv /\ [Next]_vars => PacketInv'
<1> SUFFICES ASSUME TypeInv, PacketInv, [Next]_vars PROVE PacketInv'
  OBVIOUS
<1>1. CASE UNCHANGED vars
  <2>1. Excuses' = Excuses /\ (Tolerable' <=> Tolerable)
    BY <1>1 DEF vars, Excuses, Tolerable
  <2> QED BY <1>1, <2>1 DEF vars, PacketInv
<1>2. CASE Next
  BY <1>2, MessagePacket, StartPacket, DataPacket, EndPacket, SysexMsgPacket, SendPacket,
     TickPacket DEF Next
<1> QED BY <1>1, <1>2

(* What the invariant says of the packet.                                  *)
LEMMA InvariantDecodes ==
    ASSUME PacketInv
    PROVE  ContentsDecode /\ (MaxSpan <= 127 => PacketDecodes)
<1>1. ASSUME w.tx_buf # <<>>, Tolerable
      PROVE  /\ Parsed.rc = "SUCCESS" /\ Alike(Parsed.events, written)
             /\ Excuses = {} => Parsed.events = written
  <2>1. GoodPacket(w, written, now, span, Excuses)
    BY <1>1 DEF PacketInv
  <2>2. Place(w) \in {"in", "out"}
    BY DEF Place
  <2> QED BY <2>1, <2>2, GoodParses DEF GoodPacket, Parsed
<1>2. ASSUME Alike(Parsed.events, written) PROVE Untimed(Parsed.events) = Untimed(written)
  <2> DEFINE e == Parsed.events
  <2>1. /\ Len(e) = Len(written)
        /\ \A i \in 1 .. Len(e) : e[i].cb = written[i].cb /\ e[i].bytes = written[i].bytes
    BY <1>2 DEF Alike
  <2> HIDE DEF e
  <2>2. Untimed(e) = Untimed(written)
    BY <2>1 DEF Untimed
  <2> QED BY <2>2 DEF e
<1>3. ContentsDecode
  BY <1>1, <1>2 DEF ContentsDecode, Tolerable
<1>4. ASSUME MaxSpan <= 127 PROVE PacketDecodes
  <2>1. cases = {} => Excuses = {} /\ Tolerable
    BY <1>4 DEF Excuses, Tolerable
  <2> QED BY <1>1, <2>1 DEF PacketDecodes
<1> QED BY <1>3, <1>4

(* Both parts are invariants.                                              *)
LEMMA PacketInvariant == Spec => [](TypeInv /\ PacketInv)
<1>1. Init => TypeInv /\ PacketInv
  BY InitTypes, InitPacket
<1>2. TypeInv /\ PacketInv /\ [Next]_vars => (TypeInv /\ PacketInv)'
  BY NextTypes, NextPacket
<1> QED BY <1>1, <1>2, PTL DEF Spec

(* ContentsDecode, for every value of the constants: however long a packet *)
(* takes to fill, it is parsed to the messages that were written to it, in *)
(* order and in full, unless it ran into a case that makes the parser fail *)
(* (ble_midi_parse_packet, ble_midi_writer_add_msg).                       *)
THEOREM ContentsAlwaysDecode == Spec => []ContentsDecode
<1>1. TypeInv /\ PacketInv => ContentsDecode
  BY InvariantDecodes
<1> QED BY <1>1, PacketInvariant, PTL

(* PacketDecodes, for every value of the constants with packets that are   *)
(* filled within 127 ms: a packet that ran into no case is parsed to       *)
(* exactly the callbacks written, timestamps included.  A packet that      *)
(* takes longer may see the low part of the timestamp wrap twice, which a  *)
(* parser cannot tell.                                                     *)
THEOREM PacketsAlwaysDecode ==
    ASSUME MaxSpan <= 127
    PROVE  Spec => []PacketDecodes
<1>1. TypeInv /\ PacketInv => PacketDecodes
  BY InvariantDecodes
<1> QED BY <1>1, PacketInvariant, PTL
=============================================================================
