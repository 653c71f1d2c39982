-------------------------- MODULE SampleAppProofs --------------------------
(***************************************************************************)
(* The sample application, for all sizes of its messages, of the FIFO and  *)
(* of the Bluetooth stack.                                                 *)
(*                                                                         *)
(* CountInv is about the counters alone and holds whatever the user does.  *)
(* It needs to be known of the loop in tx_done_cb that it stays within the *)
(* message and the FIFO; Fill is a recursive function, and what is proved  *)
(* of it rests on the well-foundedness of the natural numbers in its       *)
(* first-order form (a set of numbers has a least element).                *)
(*                                                                         *)
(* OrderlyInv describes an orderly use, phase by phase: which statements   *)
(* the main loop has still to execute, what the library has of the message *)
(* they send, which notes are on, and how much room is left.  Main loop,   *)
(* tx_done_cb, interrupts and the sending of packets move it from phase to *)
(* phase.                                                                  *)
(***************************************************************************)
EXTENDS SampleApp, WellFoundedInduction, TLAPS

-----------------------------------------------------------------------------
(* The loop that fills the FIFO.                                           *)

Counts == 0 .. SYSEX_TX_MESSAGE_SIZE
Levels == 0 .. FIFO_SIZE
States == Counts \X Levels

(* The bytes the next call takes, and one iteration of the loop that       *)
(* continues with f.                                                       *)
Taken(s) == Least(num_bytes_to_send(s[1]), FIFO_SIZE - s[2] - 3)
After(s) == <<s[1] + Taken(s), s[2] + 3 + Taken(s)>>
FillOnce(f, s) == IF Taken(s) <= 0 THEN s ELSE f[After(s)]

(* The sizes are numbers.                                                  *)
LEMMA SizesType == /\ SYSEX_TX_MESSAGE_SIZE \in Nat /\ SYSEX_TX_MAX_CHUNK_SIZE \in Nat \ {0}
                   /\ SHORT_SIZE \in Nat \ {0} /\ FIFO_SIZE \in Nat
BY SampleConstants

(* An iteration stays within the message and the FIFO, and adds to both.   *)
LEMMA TakenType ==
    ASSUME NEW s \in States
    PROVE  /\ s[1] \in Counts /\ s[2] \in Levels
           /\ Taken(s) \in Int
           /\ Taken(s) > 0 => /\ After(s) \in States
                             /\ After(s)[2] = s[2] + 3 + Taken(s)
BY SizesType DEF States, Counts, Levels, Taken, After, Least, num_bytes_to_send

(* A non-empty set of natural numbers has a least element.                 *)
LEMMA LeastNumber ==
    ASSUME NEW T \in SUBSET Nat, T # {}
    PROVE  \E m \in T : \A k \in T : m <= k
<1> DEFINE R == OpToRel(<, Nat)
<1>1. IsWellFoundedOn(R, Nat)
  BY NatLessThanWellFounded
<1>2. PICK m \in T : \A y \in T : ~(<<y, m>> \in R)
  BY <1>1, WFMin
<1>3. ASSUME NEW k \in T PROVE m <= k
  <2>1. ~(k < m)
    BY <1>2 DEF OpToRel
  <2> QED BY <2>1
<1> QED BY <1>3

(* g fills the FIFO from every level that leaves at most n bytes.          *)
FillsFrom(g, n) ==
    \A s \in States : FIFO_SIZE - s[2] <= n => g[s] = FillOnce(g, s)

(* A function that does this from every level exists: it is extended from  *)
(* the fuller levels to the emptier ones.                                  *)
LEMMA FillExists ==
    \E g : g = [s \in States |-> FillOnce(g, s)]
<1> DEFINE T == {m \in 0 .. FIFO_SIZE :
                     ~\E g : g = [s \in States |-> g[s]] /\ FillsFrom(g, m)}
<1>1. T = {}
  <2> SUFFICES ASSUME T # {} PROVE FALSE
    OBVIOUS
  <2>1. PICK m \in T : \A k \in T : m <= k
    <3>1. T \in SUBSET Nat
      BY SizesType
    <3> QED BY <3>1, LeastNumber
  <2>2. m \in 0 .. FIFO_SIZE
    OBVIOUS
  <2>3. PICK g : /\ g = [s \in States |-> g[s]]
                 /\ m > 0 => FillsFrom(g, m - 1)
    <3>1. CASE m = 0
      <4> DEFINE g == [s \in States |-> 0]
      <4>1. g = [s \in States |-> g[s]]
        OBVIOUS
      <4>2. ~(m > 0)
        BY <3>1
      <4> HIDE DEF g
      <4> QED BY <4>1, <4>2
    <3>2. CASE m > 0
      <4>1. m - 1 \in 0 .. FIFO_SIZE /\ ~(m <= m - 1)
        BY <2>2, <3>2, SizesType
      <4>2. m - 1 \notin T
        BY <2>1, <4>1
      <4> QED BY <4>1, <4>2
    <3> QED BY <2>2, <3>1, <3>2, SizesType
  <2> DEFINE h == [s \in States |->
                       IF FIFO_SIZE - s[2] = m THEN FillOnce(g, s) ELSE g[s]]
  <2>4. h = [s \in States |-> h[s]]
    OBVIOUS
  <2>5. ASSUME NEW s \in States, FIFO_SIZE - s[2] <= m
        PROVE  h[s] = FillOnce(h, s)
    <3>1. FillOnce(h, s) = FillOnce(g, s)
      <4>1. CASE Taken(s) <= 0
        BY <4>1 DEF FillOnce
      <4>2. CASE Taken(s) > 0
        <5>1. After(s) \in States /\ FIFO_SIZE - After(s)[2] # m
          BY <2>2, <2>5, <4>2, TakenType, SizesType DEF Levels
        <5>2. h[After(s)] = g[After(s)]
          BY <5>1
        <5> QED BY <5>2 DEF FillOnce
      <4> QED BY <4>1, <4>2, TakenType
    <3>2. h[s] = FillOnce(g, s)
      <4>1. CASE FIFO_SIZE - s[2] = m
        BY <4>1
      <4>2. CASE FIFO_SIZE - s[2] # m
        <5>1. m > 0 /\ FIFO_SIZE - s[2] <= m - 1
          BY <2>2, <2>5, <4>2, TakenType, SizesType DEF Levels
        <5>2. g[s] = FillOnce(g, s)
          BY <2>3, <5>1 DEF FillsFrom
        <5> QED BY <4>2, <5>2
      <4> QED BY <4>1, <4>2
    <3> QED BY <3>1, <3>2
  <2>6. FillsFrom(h, m)
    <3> HIDE DEF h
    <3> QED BY <2>5 DEF FillsFrom
  <2> HIDE DEF h
  <2> QED BY <2>4, <2>6
<1>2. FIFO_SIZE \notin T /\ FIFO_SIZE \in 0 .. FIFO_SIZE
  BY <1>1, SizesType
<1>3. PICK g : g = [s \in States |-> g[s]] /\ FillsFrom(g, FIFO_SIZE)
  BY <1>2
<1>4. ASSUME NEW s \in States
      PROVE  g[s] = FillOnce(g, s)
  <2>1. FIFO_SIZE - s[2] <= FIFO_SIZE
    BY TakenType, SizesType DEF Levels
  <2> QED BY <1>3, <2>1 DEF FillsFrom
<1>5. g = [s \in States |-> FillOnce(g, s)]
  BY <1>3, <1>4
<1> QED BY <1>5

(* Fill does what its definition says.                                     *)
LEMMA FillEquation ==
    ASSUME NEW s \in States
    PROVE  Fill[s] = FillOnce(Fill, s)
<1>1. Fill = [r \in States |-> FillOnce(Fill, r)]
  BY FillExists DEF Fill, FillOnce, Taken, After, States, Counts, Levels
<1> QED BY <1>1

(* The loop ends within the message and the FIFO, and not before the state *)
(* it began in.                                                            *)
LEMMA FillType ==
    ASSUME NEW r \in States
    PROVE  Fill[r] \in States /\ Fill[r][1] >= r[1] /\ Fill[r][2] >= r[2]
<1> DEFINE Good(s) == Fill[s] \in States /\ Fill[s][1] >= s[1] /\ Fill[s][2] >= s[2]
           T == {m \in 0 .. FIFO_SIZE : \E s \in States : FIFO_SIZE - s[2] = m /\ ~Good(s)}
<1>1. T = {}
  <2> SUFFICES ASSUME T # {} PROVE FALSE
    OBVIOUS
  <2>1. PICK m \in T : \A k \in T : m <= k
    <3>1. T \in SUBSET Nat
      BY SizesType
    <3> QED BY <3>1, LeastNumber
  <2>2. PICK s \in States : FIFO_SIZE - s[2] = m /\ ~Good(s)
    OBVIOUS
  <2>3. Fill[s] = FillOnce(Fill, s)
    BY FillEquation
  <2>4. CASE Taken(s) <= 0
    <3>1. Fill[s] = s
      BY <2>3, <2>4 DEF FillOnce
    <3> QED BY <2>2, <3>1, TakenType, SizesType DEF Counts, Levels
  <2>5. CASE Taken(s) > 0
    <3>1. /\ Fill[s] = Fill[After(s)]
          /\ After(s) \in States
      BY <2>3, <2>5, TakenType DEF FillOnce
    <3>2. /\ After(s)[1] = s[1] + Taken(s)
          /\ After(s)[2] = s[2] + 3 + Taken(s)
      BY <2>5 DEF After
    <3>3. FIFO_SIZE - After(s)[2] \in 0 .. FIFO_SIZE /\ ~(m <= FIFO_SIZE - After(s)[2])
      BY <2>2, <2>5, <3>1, <3>2, TakenType, SizesType DEF Levels
    <3>4. Good(After(s))
      BY <2>1, <3>1, <3>3
    <3>5. Fill[s][1] \in Counts /\ Fill[s][2] \in Levels
      BY <3>1, <3>4 DEF States
    <3> QED BY <2>2, <2>5, <3>1, <3>2, <3>4, <3>5, TakenType, SizesType DEF Counts, Levels
  <2> QED BY <2>4, <2>5, TakenType
<1>2. FIFO_SIZE - r[2] \in 0 .. FIFO_SIZE
  BY TakenType, SizesType DEF Levels
<1> QED BY <1>1, <1>2

-----------------------------------------------------------------------------
(* The count and the fill level.                                           *)

(* The count stays within the message, and the FIFO is never overfull.     *)
CountInv ==
    /\ mode \in DOMAIN NotifBufCount
    /\ sysex_tx_data_byte_count \in Counts
    /\ fifo \in Levels
    /\ upsets \in Nat

(* It holds initially.                                                     *)
LEMMA CountInit == Init => CountInv
BY SizesType DEF Init, CountInv, Counts, Levels

(* A call that the FIFO has room for does not overfill it.                 *)
LEMMA CallFits ==
    ASSUME fifo \in Levels, NEW n \in Nat, NEW m \in Nat, NEW held, m <= n,
           (HasRoom(n, held) /\ Accept(m, held)) \/ Refuse(held)
    PROVE  fifo' \in Levels
BY SizesType DEF HasRoom, Accept, Refuse, Levels

(* Neither does a call of three bytes.                                     *)
LEMMA ThreeByteCallFits ==
    ASSUME fifo \in Levels, NEW held, NEW state_needed, ThreeByteCall(state_needed, held)
    PROVE  fifo' \in Levels
BY CallFits DEF ThreeByteCall

(* The calls of the main loop do not touch the count and fit in the FIFO.  *)
LEMMA CallsKeepCount ==
    ASSUME CountInv, MainCalls
    PROVE  CountInv'
<1>1. /\ UNCHANGED <<mode, sysex_tx_data_byte_count, upsets>>
      /\ fifo \in Levels
  BY DEF MainCalls, Statement, appVars, CountInv
<1>2. fifo' \in Levels
  <2>1. CASE \E k, on : ble_midi_tx_msg(k, on)
    BY <1>1, <2>1, ThreeByteCallFits DEF ble_midi_tx_msg
  <2>2. CASE ble_midi_tx_sysex_start
    BY <1>1, <2>2, ThreeByteCallFits DEF ble_midi_tx_sysex_start
  <2>3. CASE ble_midi_tx_sysex_end(SHORT_SIZE, notifications)
    BY <1>1, <2>3, ThreeByteCallFits DEF ble_midi_tx_sysex_end
  <2>4. CASE ShortData
    BY <1>1, <2>4, SizesType
       DEF ShortData, Levels, HasRoom, Accept, Least, libVars
  <2> QED BY <2>1, <2>2, <2>3, <2>4 DEF MainCalls
<1> QED BY <1>1, <1>2 DEF CountInv

(* tx_done_cb, in all modes.                                               *)
LEMMA DoneKeepsCount ==
    ASSUME CountInv, tx_done_cb
    PROVE  CountInv'
<1> DEFINE count == sysex_tx_data_byte_count
           held  == notifications - 1
<1>1. UNCHANGED <<mode, upsets>>
  BY DEF tx_done_cb
<1>2. CASE Refuse(held) /\ UNCHANGED appVars
  BY <1>1, <1>2 DEF CountInv, Refuse, appVars
<1>3. CASE ble_midi_tx_sysex_end(SYSEX_TX_MESSAGE_SIZE, held) /\ UNCHANGED count
  BY <1>1, <1>3, ThreeByteCallFits DEF CountInv, ble_midi_tx_sysex_end
<1>4. CASE Single /\ SendChunk(held)
  <2>1. fifo' = fifo
    BY <1>4 DEF SendChunk, Accept, Refuse
  <2>2. count' \in Counts
    BY <1>4, SizesType DEF CountInv, Counts, SendChunk, num_bytes_to_send, Least
  <2> QED BY <1>1, <2>1, <2>2 DEF CountInv
<1>5. CASE ~Single /\ FillFifo
  <2>1. <<count, fifo>> \in States
    BY DEF CountInv, States
  <2>2. Fill[<<count, fifo>>] \in States
    BY <2>1, FillType
  <2>3. count' \in Counts /\ fifo' \in Levels
    BY <1>5, <2>2 DEF FillFifo, States
  <2> QED BY <1>1, <2>3 DEF CountInv
<1> QED BY <1>2, <1>3, <1>4, <1>5 DEF tx_done_cb

(* Reading the FIFO empties it, wholly or in part, into the packet; the    *)
(* packet does not lose what it holds, and an empty FIFO changes nothing.  *)
LEMMA ReadResult ==
    ASSUME fifo \in Levels, NEW level \in 0 .. fifo, NEW holds, NEW left,
           tx_queue_read_from_fifo(level, holds, left)
    PROVE  /\ level \in Nat /\ level <= fifo /\ level \in Levels
           /\ holds = TRUE \/ (level = fifo /\ holds = packet /\ left = rest)
           /\ fifo = 0 => level = fifo /\ holds = packet /\ left = rest
<1>1. level \in Nat /\ level <= fifo /\ level \in Levels
  BY SizesType DEF Levels
<1>2. holds = TRUE \/ (level = fifo /\ holds = packet /\ left = rest)
  BY DEF tx_queue_read_from_fifo
<1>3. fifo = 0 => level = fifo /\ holds = packet /\ left = rest
  BY DEF tx_queue_read_from_fifo
<1> QED BY <1>1, <1>2, <1>3

(* Every step.                                                             *)
LEMMA CountStep == CountInv /\ [Next]_vars => CountInv'
<1> SUFFICES ASSUME CountInv, [Next]_vars PROVE CountInv'
  OBVIOUS
<1> USE DEF CountInv
<1>1. CASE \E b \in Buttons : button_pressed(b)
  BY <1>1, SizesType DEF button_pressed, Usage, appVars, libVars
<1>2. CASE GetButtonEvent
  BY <1>2 DEF GetButtonEvent, appVars, libVars
<1>3. CASE MainCalls
  BY <1>3, CallsKeepCount
<1>4. CASE MainBegins \/ MainZeroes \/ MainFlushes
  BY <1>4, SizesType
     DEF MainBegins, MainZeroes, MainFlushes, Statement, appVars, libVars, Counts
<1>5. CASE tx_done_cb
  BY <1>5, DoneKeepsCount
<1>6. CASE tx_queue_fifo_work_cb \/ SendPacket
  BY <1>6, ReadResult DEF tx_queue_fifo_work_cb, SendPacket, appVars
<1>7. CASE Connect \/ NotificationsEnabled
  BY <1>7, SizesType
     DEF Connect, NotificationsEnabled, ble_midi_ready_cb, Levels, appVars, libVars
<1>8. CASE NotificationsDisabled \/ Disconnect
  BY <1>8 DEF NotificationsDisabled, Disconnect, ble_midi_ready_cb, Usage, appVars, libVars,
              readVars
<1>9. CASE SendFails \/ UNCHANGED vars
  BY <1>9 DEF SendFails, vars, appVars, libVars
<1> QED BY <1>1, <1>2, <1>3, <1>4, <1>5, <1>6, <1>7, <1>8, <1>9 DEF Next, Pressable, MainLoop

(* For all sizes of the messages, of the FIFO and of the stack, tx_done_cb *)
(* never counts more bytes than the long message has: the comparison for   *)
(* equality that ends the message cannot be missed.                        *)
THEOREM CountStaysInRange == Spec => []CountInRange
<1>1. CountInv => CountInRange
  BY DEF CountInv, CountInRange, Counts
<1> QED BY <1>1, CountInit, CountStep, PTL DEF Spec

-----------------------------------------------------------------------------
(* What the application is doing, if it is used in an orderly way.         *)

(* A button event without consequences.                                    *)
Idle(e) == e[1] = "flush" \/ (e[1] \in {"short", "long"} /\ ~e[2])

IdleFrom(q, n) == \A i \in n .. Len(q) : Idle(q[i])

(* The notes that are on before the i-th statement for button 1.           *)
NotesBefore(i) == IF button_states["chord"] THEN {k \in Chord : k < i}
                                            ELSE {k \in Chord : k >= i}

(* The i-th of these statements and those after it.                        *)
ChordRest(i) == CASE i = 1 -> <<<<"msg", 1, button_states["chord"]>>,
                                <<"msg", 2, button_states["chord"]>>,
                                <<"msg", 3, button_states["chord"]>>>>
                  [] i = 2 -> <<<<"msg", 2, button_states["chord"]>>,
                                <<"msg", 3, button_states["chord"]>>>>
                  [] i = 3 -> <<<<"msg", 3, button_states["chord"]>>>>

(* The library is between two messages, or in a sysex message of which n   *)
(* data bytes are sent or cut off.                                         *)
Between  == stream = "closed" /\ data = 0 /\ cut = 0 /\ ~in_sysex
Within(n) == /\ stream = "open" /\ in_sysex
             /\ data \in Nat /\ cut \in Nat /\ data + cut = n

(* No more is in the FIFO, or in the stack in single message mode.         *)
AtMost(bytes, packets) == IF Single THEN notifications <= packets ELSE fifo <= bytes

(* Nothing is waiting to be sent; the notes are as button 1 says.          *)
Nothing == fifo = 0 /\ ~packet /\ rest = 0 /\ notifications = 0
NotesRight == sounding = NotesBefore(4)

(* Nothing is under way, or only a flush.  Packets may still be waiting.   *)
Resting ==
    /\ todo \in {<<>>, <<<<"flush">>>>}
    /\ IdleFrom(button_event_q, 1)
    /\ Between /\ NotesRight /\ ~sysex_tx_in_progress
    /\ state # "READY" => Nothing
    /\ state = "NOT_CONNECTED" => ~button_states["chord"]

(* An event with consequences waits.                                       *)
Waiting ==
    /\ todo = <<>> /\ button_event_q # <<>>
    /\ Between /\ Nothing /\ ~sysex_tx_in_progress
    /\ \/ /\ Head(button_event_q) = <<"chord", button_states["chord"]>>
          /\ sounding = NotesBefore(1)
       \/ Head(button_event_q) \in {<<"short", TRUE>>, <<"long", TRUE>>} /\ NotesRight

(* The main loop sends the notes of button 1.                              *)
InChord ==
    /\ \E i \in 1 .. 3 : /\ todo = ChordRest(i) /\ sounding = NotesBefore(i)
                        /\ AtMost(3 * (i - 1), i - 1)
    /\ Between /\ ~sysex_tx_in_progress

(* It sends the short message.                                             *)
InShort ==
    /\ \/ /\ todo = <<<<"start">>, <<"data">>, <<"end">>>>
          /\ Between /\ AtMost(0, 0)
       \/ /\ todo = <<<<"data">>, <<"end">>>>
          /\ Within(0) /\ AtMost(3, 1)
       \/ /\ todo = <<<<"end">>>>
          /\ Within(SHORT_SIZE) /\ AtMost(6 + SHORT_SIZE, 2)
    /\ NotesRight /\ ~sysex_tx_in_progress

(* It begins the long message: nothing may come in between.                *)
LongBegins ==
    /\ \/ todo = <<<<"begin">>, <<"zero">>, <<"start">>>> /\ ~sysex_tx_in_progress
       \/ todo = <<<<"zero">>, <<"start">>>> /\ sysex_tx_in_progress
       \/ /\ todo = <<<<"start">>>> /\ sysex_tx_in_progress
          /\ sysex_tx_data_byte_count = 0
    /\ Between /\ Nothing /\ NotesRight

(* tx_done_cb continues the message.  In manual mode it is not called,     *)
(* since nothing is sent.                                                  *)
Transfer ==
    /\ todo = <<>> /\ sysex_tx_in_progress
    /\ Within(sysex_tx_data_byte_count)
    /\ NotesRight
    /\ mode = "manual" => notifications = 0 /\ ~flushing

(* While a program is run or a message sent, nothing with consequences     *)
(* waits behind it.                                                        *)
Working ==
    /\ InChord \/ InShort \/ LongBegins \/ Transfer
    /\ IdleFrom(button_event_q, 1)

(* Types and bounds, for an orderly use.                                   *)
AppTypes ==
    /\ button_states \in [Buttons -> BOOLEAN]
    /\ button_event_q \in Seq(Buttons \X BOOLEAN)
    /\ notifications \in 0 .. NOTIF_BUF_COUNT
    /\ sysex_tx_in_progress \in BOOLEAN /\ flushing \in BOOLEAN /\ in_sysex \in BOOLEAN
    /\ packet \in BOOLEAN
    /\ Single => fifo = 0 /\ ~packet
    /\ flushing => fifo > 0 \/ packet

(* The phases.                                                             *)
OrderlyInv ==
    /\ AppTypes
    /\ \/ Resting
       \/ /\ state = "READY"
          /\ Working \/ (Waiting /\ IdleFrom(button_event_q, 2))

(* The inductive invariant.                                                *)
AppInv == CountInv /\ (Orderly /\ ~end_lost => OrderlyInv)

(* The sizes for which this works: a short message or a chord fits in the  *)
(* FIFO, or in the stack in single message mode.                           *)
RoomEnough ==
    /\ SHORT_SIZE + 9 <= FIFO_SIZE
    /\ SHORT_SIZE <= SYSEX_TX_MESSAGE_SIZE
    /\ "single" \in DOMAIN NotifBufCount => NotifBufCount["single"] >= 3

-----------------------------------------------------------------------------
(* Sequences.                                                              *)

(* Head and tail of short tuples.                                          *)
LEMMA Tails ==
    ASSUME NEW a, NEW b, NEW c
    PROVE  /\ Head(<<a>>) = a /\ Tail(<<a>>) = <<>> /\ <<a>> # <<>>
           /\ Head(<<a, b>>) = a /\ Tail(<<a, b>>) = <<b>> /\ <<a, b>> # <<>>
           /\ Head(<<a, b, c>>) = a /\ Tail(<<a, b, c>>) = <<b, c>> /\ <<a, b, c>> # <<>>
OBVIOUS

(* The parts of a pair.                                                    *)
LEMMA PairParts == \A a, b : <<a, b>>[1] = a /\ <<a, b>>[2] = b
OBVIOUS

(* The statements of the buttons that have any.                            *)
LEMMA Programs ==
    /\ \A d : Program("chord", d) = <<<<"msg", 1, d>>, <<"msg", 2, d>>, <<"msg", 3, d>>>>
    /\ Program("short", TRUE) = <<<<"start">>, <<"data">>, <<"end">>>>
    /\ Program("long", TRUE) = <<<<"begin">>, <<"zero">>, <<"start">>>>
<1>1. ASSUME NEW d
      PROVE  [k \in Chord |-> <<"msg", k, d>>]
                 = <<<<"msg", 1, d>>, <<"msg", 2, d>>, <<"msg", 3, d>>>>
  BY DEF Chord
<1>2. ASSUME NEW d PROVE Program("chord", d) = [k \in Chord |-> <<"msg", k, d>>]
  BY DEF Program
<1>3. Program("short", TRUE) = <<<<"start">>, <<"data">>, <<"end">>>>
  BY DEF Program
<1>4. Program("long", TRUE) = <<<<"begin">>, <<"zero">>, <<"start">>>>
  BY DEF Program
<1> QED BY <1>1, <1>2, <1>3, <1>4

(* Taking an event from the queue.                                         *)
LEMMA IdleTail ==
    ASSUME NEW S, NEW q \in Seq(S), q # <<>>, IdleFrom(q, 2)
    PROVE  Tail(q) \in Seq(S) /\ IdleFrom(Tail(q), 1)
BY DEF IdleFrom

(* Adding an event without consequences to it.                             *)
LEMMA IdleAppend ==
    ASSUME NEW S, NEW q \in Seq(S), NEW n \in Nat \ {0}, NEW e \in S, Idle(e), IdleFrom(q, n)
    PROVE  Append(q, e) \in Seq(S) /\ IdleFrom(Append(q, e), n)
BY DEF IdleFrom

-----------------------------------------------------------------------------
(* The steps of an orderly use.                                            *)

(* What RoomEnough says of the mode the program is built for.              *)
LEMMA Room ==
    ASSUME RoomEnough, mode \in DOMAIN NotifBufCount
    PROVE  /\ NOTIF_BUF_COUNT \in Nat \ {0}
           /\ mode \in {"single", "buffered", "manual"}
           /\ Single => NOTIF_BUF_COUNT >= 3
           /\ SHORT_SIZE + 9 <= FIFO_SIZE
           /\ SHORT_SIZE <= SYSEX_TX_MESSAGE_SIZE
BY SampleConstants DEF RoomEnough, NOTIF_BUF_COUNT, Single

(* There is room for a call that is made early enough.                     *)
LEMMA HasRoomFor ==
    ASSUME RoomEnough, CountInv, AppTypes, state = "READY",
           NEW n \in Nat, NEW bytes \in Nat, NEW packets \in 0 .. 2,
           AtMost(bytes, packets), bytes + n <= FIFO_SIZE
    PROVE  HasRoom(n, notifications)
<1>1. NOTIF_BUF_COUNT \in Nat /\ (Single => NOTIF_BUF_COUNT >= 3)
  BY Room DEF CountInv
<1>2. notifications \in Nat /\ fifo \in Nat
  BY <1>1, SizesType DEF AppTypes, CountInv, Levels
<1>3. CASE Single
  BY <1>1, <1>2, <1>3 DEF HasRoom, AtMost
<1>4. CASE ~Single
  BY <1>2, <1>4, SizesType DEF HasRoom, AtMost
<1> QED BY <1>3, <1>4

(* When everything is sent the application rests.                          *)
LEMMA SettledRests ==
    ASSUME CountInv, OrderlyInv, Settled
    PROVE  Resting /\ Nothing /\ button_event_q = <<>> /\ todo = <<>>
<1>1. ~Waiting
  BY DEF Settled, Waiting
<1>2. ~Transfer
  BY DEF Settled, Transfer
<1>3. ~InChord
  BY Tails DEF Settled, InChord, ChordRest
<1>4. ~InShort
  BY Tails DEF Settled, InShort
<1>5. ~LongBegins
  BY Tails DEF Settled, LongBegins
<1> QED BY <1>1, <1>2, <1>3, <1>4, <1>5 DEF OrderlyInv, Working, Settled, Nothing

(* The phases do not depend on the buttons but for button 1.               *)
LEMMA IdlePress ==
    ASSUME CountInv, OrderlyInv, NEW b \in Buttons, b # "chord",
           button_pressed(b), Calm(b), Idle(<<b, ~button_states[b]>>)
    PROVE  OrderlyInv'
<1> DEFINE e == <<b, ~button_states[b]>>
<1>1. /\ UNCHANGED <<mode, todo, appVars, state, libVars, readVars, flushing, history>>
      /\ button_states' = [button_states EXCEPT ![b] = ~@]
      /\ button_event_q' \in {button_event_q, Append(button_event_q, e)}
  BY DEF button_pressed, Usage
<1>2. button_event_q \in Seq(Buttons \X BOOLEAN) /\ button_states \in [Buttons -> BOOLEAN]
  BY DEF OrderlyInv, AppTypes
<1>3. e \in Buttons \X BOOLEAN
  BY <1>2
<1>4. button_states' \in [Buttons -> BOOLEAN] /\ button_states'["chord"] = button_states["chord"]
  BY <1>1, <1>2 DEF Buttons
<1>5. /\ button_event_q' \in Seq(Buttons \X BOOLEAN)
      /\ IdleFrom(button_event_q, 1) => IdleFrom(button_event_q', 1)
      /\ IdleFrom(button_event_q, 2) => IdleFrom(button_event_q', 2)
  <2> HIDE DEF e
  <2>1. Idle(e)
    BY DEF e
  <2>2. ASSUME NEW n \in Nat \ {0}, IdleFrom(button_event_q, n)
        PROVE  IdleFrom(button_event_q', n)
    <3>1. IdleFrom(Append(button_event_q, e), n)
      BY <1>2, <1>3, <2>1, <2>2, IdleAppend
    <3> QED BY <1>1, <2>2, <3>1
  <2>3. Append(button_event_q, e) \in Seq(Buttons \X BOOLEAN)
    BY <1>2, <1>3
  <2>4. button_event_q' \in Seq(Buttons \X BOOLEAN)
    BY <1>1, <1>2, <2>3
  <2> QED BY <2>2, <2>4
<1>6. button_event_q # <<>> => button_event_q' # <<>> /\ Head(button_event_q') = Head(button_event_q)
  <2> HIDE DEF e
  <2> QED BY <1>1, <1>2, <1>3
<1>7. AppTypes'
  BY <1>1, <1>4, <1>5 DEF OrderlyInv, AppTypes, appVars, libVars, readVars, NOTIF_BUF_COUNT,
              Single
<1>8. \A i : NotesBefore(i)' = NotesBefore(i) /\ ChordRest(i)' = ChordRest(i)
  BY <1>4 DEF NotesBefore, ChordRest
<1>9. /\ Between' <=> Between
      /\ \A n : Within(n)' <=> Within(n)
      /\ \A n, m : AtMost(n, m)' <=> AtMost(n, m)
      /\ Nothing' <=> Nothing
      /\ NotesRight' <=> NotesRight
  BY <1>1, <1>8 DEF Between, Within, AtMost, Nothing, NotesRight, libVars, readVars,
              history, Single
<1>10. CASE Resting
  BY <1>1, <1>4, <1>5, <1>7, <1>9, <1>10 DEF OrderlyInv, Resting, appVars
<1>11. CASE Waiting /\ state = "READY" /\ IdleFrom(button_event_q, 2)
  BY <1>1, <1>4, <1>5, <1>6, <1>7, <1>8, <1>9, <1>11 DEF OrderlyInv, Waiting, appVars, history
<1>12. CASE Working /\ state = "READY"
  <2>1. InChord => InChord'
    BY <1>1, <1>8, <1>9 DEF InChord, appVars, history
  <2>2. InShort => InShort'
    BY <1>1, <1>8, <1>9 DEF InShort, appVars, history
  <2>3. LongBegins => LongBegins'
    BY <1>1, <1>8, <1>9 DEF LongBegins, appVars, history
  <2>4. Transfer => Transfer'
    BY <1>1, <1>8, <1>9 DEF Transfer, Within, appVars, libVars, history, Single
  <2> QED BY <1>1, <1>5, <1>7, <1>12, <2>1, <2>2, <2>3, <2>4 DEF OrderlyInv, Working
<1> QED BY <1>10, <1>11, <1>12 DEF OrderlyInv

(* A press or release of any button.                                       *)
LEMMA PressStep ==
    ASSUME CountInv, OrderlyInv, NEW b \in Buttons, button_pressed(b),
           upsets = 0, upsets' = 0
    PROVE  OrderlyInv'
<1> DEFINE e == <<b, ~button_states[b]>>
<1>1. Calm(b)
  BY DEF button_pressed, Usage
<1>2. button_states \in [Buttons -> BOOLEAN]
  BY DEF OrderlyInv, AppTypes
<1>3. CASE Idle(e)
  <2>1. b # "chord"
    BY <1>3 DEF Idle
  <2> QED BY <1>1, <1>3, <2>1, IdlePress
<1>4. CASE ~Idle(e)
  <2>1. b = "chord" \/ (b \in {"short", "long"} /\ ~button_states[b])
    BY <1>2, <1>4 DEF Idle, Buttons
  <2>2. state = "READY" /\ Settled
    BY <1>1, <2>1 DEF Calm
  <2>3. Resting /\ Nothing /\ button_event_q = <<>> /\ todo = <<>>
    BY <2>2, SettledRests
  <2>4. /\ UNCHANGED <<mode, todo, appVars, state, libVars, readVars, flushing, history>>
        /\ button_states' = [button_states EXCEPT ![b] = ~@]
        /\ button_event_q' = <<e>>
    <3>1. Len(button_event_q) < BUTTON_Q_SIZE /\ Append(button_event_q, e) = <<e>>
      BY <2>3, SampleConstants
    <3> QED BY <1>1, <3>1 DEF button_pressed, Usage
  <2>5. /\ button_states' \in [Buttons -> BOOLEAN]
        /\ button_states'[b] = ~button_states[b]
        /\ b # "chord" => button_states'["chord"] = button_states["chord"]
    BY <1>2, <2>4 DEF Buttons
  <2>a. e \in Buttons \X BOOLEAN
    BY <1>2
  <2> HIDE DEF e
  <2>6. /\ <<e>> \in Seq(Buttons \X BOOLEAN)
        /\ Head(<<e>>) = e /\ <<e>> # <<>> /\ Len(<<e>>) = 1
    BY <2>a
  <2>7. IdleFrom(button_event_q', 2)
    BY <2>4, <2>6 DEF IdleFrom
  <2>8. AppTypes'
    BY <2>4, <2>5, <2>6 DEF OrderlyInv, AppTypes, appVars, libVars, readVars, NOTIF_BUF_COUNT,
              Single
  <2>9. /\ todo' = <<>> /\ button_event_q' # <<>> /\ ~sysex_tx_in_progress'
        /\ Between' /\ Nothing' /\ state' = "READY"
    BY <2>2, <2>3, <2>4, <2>6 DEF Resting, Between, Nothing, appVars, libVars, readVars,
       history
  <2>10. CASE b = "chord"
    <3>1. sounding' = NotesBefore(1)'
      <4>1. sounding' = NotesBefore(4)
        BY <2>3, <2>4 DEF Resting, NotesRight, history
      <4>2. NotesBefore(4) = NotesBefore(1)'
        BY <1>2, <2>5, <2>10 DEF NotesBefore, Chord, Buttons
      <4> QED BY <4>1, <4>2
    <3>2. Head(button_event_q') = <<"chord", button_states'["chord"]>>
      BY <2>4, <2>5, <2>6, <2>10 DEF e
    <3> QED BY <2>7, <2>8, <2>9, <3>1, <3>2 DEF OrderlyInv, Waiting
  <2>11. CASE b \in {"short", "long"} /\ ~button_states[b]
    <3>1. NotesRight'
      BY <2>3, <2>4, <2>5, <2>11 DEF Resting, NotesRight, NotesBefore, history
    <3>2. Head(button_event_q') \in {<<"short", TRUE>>, <<"long", TRUE>>}
      BY <1>2, <2>4, <2>6, <2>11 DEF e
    <3> QED BY <2>7, <2>8, <2>9, <3>1, <3>2 DEF OrderlyInv, Waiting
  <2> QED BY <2>1, <2>10, <2>11
<1> QED BY <1>3, <1>4

(* The main loop takes an event: an idle one has no program but a flush.   *)
LEMMA EventStep ==
    ASSUME CountInv, OrderlyInv, GetButtonEvent
    PROVE  OrderlyInv'
<1> DEFINE e == Head(button_event_q)
<1>1. /\ UNCHANGED <<mode, button_states, appVars, state, libVars, readVars, flushing, history>>
      /\ todo = <<>> /\ button_event_q # <<>>
      /\ button_event_q' = Tail(button_event_q)
      /\ todo' = IF sysex_tx_in_progress THEN <<>> ELSE Program(e[1], e[2])
  BY DEF GetButtonEvent
<1>2. /\ button_event_q \in Seq(Buttons \X BOOLEAN)
      /\ e \in Buttons \X BOOLEAN /\ e = button_event_q[1] /\ 1 \in 1 .. Len(button_event_q)
      /\ IdleFrom(button_event_q, 1) => IdleFrom(button_event_q, 2)
  BY <1>1 DEF OrderlyInv, AppTypes, IdleFrom
<1>3. IdleFrom(button_event_q, 2)
  BY <1>2 DEF OrderlyInv, Resting, Working
<1>4. button_event_q' \in Seq(Buttons \X BOOLEAN) /\ IdleFrom(button_event_q', 1)
  BY <1>1, <1>2, <1>3, IdleTail
<1>5. AppTypes'
  BY <1>1, <1>4 DEF OrderlyInv, AppTypes, appVars, libVars, readVars, NOTIF_BUF_COUNT,
              Single
<1>6. /\ Between' <=> Between
      /\ \A n : Within(n)' <=> Within(n)
      /\ \A n, m : AtMost(n, m)' <=> AtMost(n, m)
      /\ Nothing' <=> Nothing
      /\ NotesRight' <=> NotesRight
      /\ \A i : NotesBefore(i)' = NotesBefore(i) /\ ChordRest(i)' = ChordRest(i)
  BY <1>1 DEF Between, Within, AtMost, Nothing, NotesRight, NotesBefore, ChordRest, libVars,
              readVars, history, Single
<1>7. CASE Resting
  <2>1. Idle(e) /\ ~sysex_tx_in_progress
    BY <1>2, <1>7 DEF Resting, IdleFrom
  <2>2. Program(e[1], e[2]) \in {<<>>, <<<<"flush">>>>}
    BY <1>2, <2>1 DEF Program, Idle, Buttons
  <2> QED BY <1>1, <1>4, <1>5, <1>6, <1>7, <2>1, <2>2 DEF OrderlyInv, Resting, appVars
<1>8. CASE Waiting /\ state = "READY"
  <2>1. ~sysex_tx_in_progress /\ Between /\ Nothing /\ AtMost(0, 0)
    BY <1>8 DEF Waiting, Nothing, AtMost
  <2>2. CASE e = <<"chord", button_states["chord"]>> /\ sounding = NotesBefore(1)
    <3>0. e[1] = "chord" /\ e[2] = button_states["chord"]
      BY <2>2
    <3>1. todo' = ChordRest(1)
      BY <1>1, <2>1, <3>0, Programs DEF ChordRest
    <3>2. InChord'
      BY <1>1, <1>6, <2>1, <2>2, <3>1 DEF InChord, appVars, history
    <3> QED BY <1>1, <1>4, <1>5, <1>8, <3>2 DEF OrderlyInv, Working
  <2>3. CASE e = <<"short", TRUE>> /\ NotesRight
    <3>0. e[1] = "short" /\ e[2] = TRUE
      BY <2>3, PairParts, Zenon
    <3>1. todo' = <<<<"start">>, <<"data">>, <<"end">>>>
      BY <1>1, <2>1, <3>0, Programs
    <3>2. InShort'
      BY <1>1, <1>6, <2>1, <2>3, <3>1 DEF InShort, appVars, history
    <3> QED BY <1>1, <1>4, <1>5, <1>8, <3>2 DEF OrderlyInv, Working
  <2>4. CASE e = <<"long", TRUE>> /\ NotesRight
    <3>0. e[1] = "long" /\ e[2] = TRUE
      BY <2>4, PairParts, Zenon
    <3>1. todo' = <<<<"begin">>, <<"zero">>, <<"start">>>>
      BY <1>1, <2>1, <3>0, Programs
    <3>2. LongBegins'
      BY <1>1, <1>6, <2>1, <2>4, <3>1 DEF LongBegins, appVars, history
    <3> QED BY <1>1, <1>4, <1>5, <1>8, <3>2 DEF OrderlyInv, Working
  <2> QED BY <1>8, <2>2, <2>3, <2>4 DEF Waiting
<1>9. CASE Working /\ state = "READY"
  <2>1. Transfer
    <3>1. ~InChord
      BY <1>1, Tails DEF InChord, ChordRest
    <3>2. ~InShort /\ ~LongBegins
      BY <1>1, Tails DEF InShort, LongBegins
    <3> QED BY <1>9, <3>1, <3>2 DEF Working
  <2>2. Transfer'
    BY <1>1, <1>6, <2>1 DEF Transfer, Within, appVars, libVars, history, Single
  <2> QED BY <1>1, <1>4, <1>5, <1>9, <2>2 DEF OrderlyInv, Working
<1> QED BY <1>7, <1>8, <1>9 DEF OrderlyInv

(* The statement that is next tells the phase.                             *)
LEMMA NextStatement ==
    ASSUME OrderlyInv, todo # <<>>
    PROVE  /\ Head(todo)[1] = "msg" => InChord
           /\ Head(todo)[1] \in {"data", "end"} => InShort
           /\ Head(todo)[1] = "start" => InShort \/ LongBegins
           /\ Head(todo)[1] \in {"begin", "zero"} => LongBegins
           /\ Head(todo)[1] = "flush" => Resting
           /\ Head(todo)[1] # "flush" => /\ state = "READY"
                                        /\ IdleFrom(button_event_q, 1)
<1>1. Resting => Head(todo)[1] = "flush"
  BY Tails DEF Resting
<1>2. InChord => Head(todo)[1] = "msg"
  BY Tails DEF InChord, ChordRest
<1>3. InShort => Head(todo)[1] \in {"start", "data", "end"}
  BY Tails DEF InShort
<1>4. LongBegins => Head(todo)[1] \in {"begin", "zero", "start"}
  BY Tails DEF LongBegins
<1>5. ~Waiting /\ ~Transfer
  BY DEF Waiting, Transfer
<1> QED BY <1>1, <1>2, <1>3, <1>4, <1>5 DEF OrderlyInv, Working

(* A note of the chord finds room and is heard.                            *)
LEMMA MsgStep ==
    ASSUME RoomEnough, Orderly, CountInv, OrderlyInv, MainCalls, Head(todo)[1] = "msg"
    PROVE  OrderlyInv'
<1>1. /\ Statement("msg") /\ ble_midi_tx_msg(Head(todo)[2], Head(todo)[3])
      /\ UNCHANGED <<appVars, readVars, flushing, mode, buttonVars, state>>
      /\ todo # <<>> /\ todo' = Tail(todo)
  BY DEF MainCalls, Statement
<1>2. InChord /\ state = "READY" /\ IdleFrom(button_event_q, 1)
  BY <1>1, NextStatement
<1>3. PICK i \in 1 .. 3 : /\ todo = ChordRest(i) /\ sounding = NotesBefore(i)
                        /\ AtMost(3 * (i - 1), i - 1)
  BY <1>2 DEF InChord
<1>4. Head(todo) = <<"msg", i, button_states["chord"]>>
  BY <1>3, Tails DEF ChordRest
<1>5. Tail(todo) = IF i = 3 THEN <<>> ELSE ChordRest(i + 1)
  BY <1>3, Tails DEF ChordRest
<1>6. ble_midi_tx_msg(i, button_states["chord"])
  BY <1>1, <1>4
<1>7. Between /\ ~sysex_tx_in_progress
  BY <1>2 DEF InChord
<1>8. HasRoom(3, notifications) /\ ~Rejected(FALSE)
  <2>1. ~Rejected(FALSE)
    BY <1>7 DEF Between, Rejected, OrderlyInv, AppTypes
  <2>2. /\ 3 * (i - 1) \in Nat /\ i - 1 \in 0 .. 2 /\ 3 * (i - 1) + 3 <= FIFO_SIZE
    BY SizesType DEF RoomEnough
  <2>3. AppTypes
    BY DEF OrderlyInv
  <2> QED BY <1>2, <1>3, <2>1, <2>2, <2>3, HasRoomFor
<1>9. /\ Accept(3, notifications)
      /\ stream' = "closed" /\ UNCHANGED <<in_sysex, data, cut>>
      /\ sounding' = IF button_states["chord"] THEN sounding \cup {i} ELSE sounding \ {i}
  BY <1>6, <1>7, <1>8 DEF ble_midi_tx_msg, ThreeByteCall, Continue, Between
<1>10. sounding' = NotesBefore(i + 1)'
  <2>1. button_states' = button_states
    BY <1>1 DEF buttonVars
  <2>2. CASE button_states["chord"]
    <3>1. sounding' = {k \in Chord : k < i} \cup {i}
      BY <1>3, <1>9, <2>2 DEF NotesBefore
    <3>2. NotesBefore(i + 1)' = {k \in Chord : k < i + 1}
      BY <2>1, <2>2 DEF NotesBefore
    <3> QED BY <3>1, <3>2 DEF Chord
  <2>3. CASE ~button_states["chord"]
    <3>1. sounding' = {k \in Chord : k >= i} \ {i}
      BY <1>3, <1>9, <2>3 DEF NotesBefore
    <3>2. NotesBefore(i + 1)' = {k \in Chord : k >= i + 1}
      BY <2>1, <2>3 DEF NotesBefore
    <3> QED BY <3>1, <3>2 DEF Chord
  <2> QED BY <2>2, <2>3
<1>11. AtMost(3 * i, i)'
  BY <1>1, <1>3, <1>9 DEF AtMost, Accept, Single, CountInv, Levels, OrderlyInv, AppTypes
<1>12. AppTypes'
  BY <1>1, <1>8, <1>9, Room DEF OrderlyInv, AppTypes, HasRoom, Accept, NOTIF_BUF_COUNT, Single,
            appVars, readVars, buttonVars, CountInv, Levels
<1>13. Between' /\ ~sysex_tx_in_progress' /\ state' = "READY" /\ IdleFrom(button_event_q, 1)'
  BY <1>1, <1>2, <1>7, <1>9 DEF Between, appVars, buttonVars
<1>14. CASE i = 3
  <2>1. todo' = <<>> /\ NotesRight'
    BY <1>1, <1>5, <1>10, <1>14 DEF NotesRight
  <2> QED BY <1>12, <1>13, <2>1 DEF OrderlyInv, Resting
<1>15. CASE i # 3
  <2>1. i + 1 \in 1 .. 3 /\ (i + 1) - 1 = i
    BY <1>15
  <2>2. todo' = ChordRest(i + 1)'
    BY <1>1, <1>5, <1>15 DEF ChordRest, buttonVars
  <2>3. InChord'
    BY <1>10, <1>11, <1>13, <2>1, <2>2 DEF InChord
  <2> QED BY <1>12, <1>13, <2>3 DEF OrderlyInv, Working
<1> QED BY <1>14, <1>15

(* A call that is accepted: what is in the FIFO, or in the stack, grows.   *)
LEMMA AcceptTypes ==
    ASSUME RoomEnough, CountInv, AppTypes, NEW n \in Nat, NEW m \in Nat, HasRoom(m, notifications),
           Accept(n, notifications), in_sysex' \in BOOLEAN,
           UNCHANGED <<appVars, readVars, flushing, mode, buttonVars>>
    PROVE  /\ AppTypes'
           /\ \A bytes \in Nat, packets \in Nat :
                  AtMost(bytes, packets) => AtMost(bytes + n, packets + 1)'
<1>1. NOTIF_BUF_COUNT \in Nat /\ NOTIF_BUF_COUNT' = NOTIF_BUF_COUNT /\ (Single' <=> Single)
  BY Room DEF CountInv, NOTIF_BUF_COUNT, Single
<1>2. notifications \in Nat /\ fifo \in Nat
  BY <1>1, SizesType DEF AppTypes, CountInv, Levels
<1>3. CASE Single
  BY <1>1, <1>2, <1>3 DEF AppTypes, HasRoom, Accept, appVars, readVars, buttonVars, AtMost
<1>4. CASE ~Single
  BY <1>1, <1>2, <1>4 DEF AppTypes, HasRoom, Accept, appVars, readVars, buttonVars, AtMost
<1> QED BY <1>3, <1>4

(* The start of the short or of the long message.  With the start of the   *)
(* long message the transfer begins.                                       *)
LEMMA StartStep ==
    ASSUME RoomEnough, Orderly, CountInv, OrderlyInv, MainCalls, Head(todo)[1] = "start"
    PROVE  OrderlyInv'
<1>1. /\ ble_midi_tx_sysex_start
      /\ UNCHANGED <<appVars, readVars, flushing, mode, buttonVars, state>>
      /\ todo # <<>> /\ todo' = Tail(todo)
  BY DEF MainCalls, Statement
<1>2. (InShort \/ LongBegins) /\ state = "READY" /\ IdleFrom(button_event_q, 1) /\ AppTypes
  BY <1>1, NextStatement DEF OrderlyInv
<1>3. \/ todo = <<<<"start">>, <<"data">>, <<"end">>>> /\ ~sysex_tx_in_progress
      \/ /\ todo = <<<<"start">>>> /\ sysex_tx_in_progress
         /\ sysex_tx_data_byte_count = 0 /\ Nothing
  BY <1>2, Tails DEF InShort, LongBegins
<1>4. Between /\ AtMost(0, 0) /\ NotesRight
  <2>1. CASE InShort
    BY <2>1, Tails DEF InShort
  <2>2. CASE LongBegins
    BY <2>2 DEF LongBegins, Nothing, AtMost
  <2> QED BY <1>2, <2>1, <2>2
<1>5. HasRoom(3, notifications) /\ ~Rejected(FALSE)
  <2>1. ~Rejected(FALSE)
    BY <1>2, <1>4 DEF Between, Rejected, AppTypes
  <2>2. 0 + 3 <= FIFO_SIZE
    BY SizesType DEF RoomEnough
  <2>3. HasRoom(3, notifications)
    <3>1. 0 \in Nat /\ 0 \in 0 .. 2 /\ 3 \in Nat
      OBVIOUS
    <3> QED BY <1>2, <1>4, <2>2, <3>1, HasRoomFor
  <2> QED BY <2>1, <2>3
<1>6. /\ Accept(3, notifications)
      /\ stream' = "open" /\ in_sysex' = TRUE /\ UNCHANGED <<data, cut, sounding>>
  BY <1>1, <1>4, <1>5 DEF ble_midi_tx_sysex_start, ThreeByteCall, Continue, Between
<1>7. in_sysex' \in BOOLEAN
  BY <1>6
<1>8. AppTypes' /\ AtMost(3, 1)'
  <2>1. 0 + 3 = 3 /\ 0 + 1 = 1
    OBVIOUS
  <2> QED BY <1>1, <1>2, <1>4, <1>5, <1>6, <1>7, <2>1, AcceptTypes
<1>9. Within(0)' /\ NotesRight' /\ state' = "READY" /\ IdleFrom(button_event_q, 1)'
  BY <1>1, <1>2, <1>4, <1>6, <1>7 DEF Within, Between, NotesRight, NotesBefore, buttonVars
<1>10. CASE todo = <<<<"start">>, <<"data">>, <<"end">>>> /\ ~sysex_tx_in_progress
  <2>1. todo' = <<<<"data">>, <<"end">>>> /\ ~sysex_tx_in_progress'
    BY <1>1, <1>10, Tails DEF appVars
  <2>2. InShort'
    BY <1>8, <1>9, <2>1 DEF InShort
  <2> QED BY <1>8, <1>9, <2>2 DEF OrderlyInv, Working
<1>11. CASE /\ todo = <<<<"start">>>> /\ sysex_tx_in_progress
            /\ sysex_tx_data_byte_count = 0 /\ Nothing
  <2>1. todo' = <<>> /\ sysex_tx_in_progress' /\ sysex_tx_data_byte_count' = 0
    BY <1>1, <1>11, Tails DEF appVars
  <2>2. mode' = "manual" => notifications' = 0 /\ ~flushing'
    BY <1>1, <1>2, <1>6, <1>11 DEF Accept, Nothing, AppTypes, Single
  <2>3. Transfer'
    BY <1>9, <2>1, <2>2 DEF Transfer
  <2> QED BY <1>8, <1>9, <2>3 DEF OrderlyInv, Working
<1> QED BY <1>3, <1>10, <1>11

(* Data that is sent in a sysex message is part of it, or cut off.         *)
LEMMA DataHeard ==
    ASSUME Orderly, NEW c \in Nat, NEW n \in Nat \ {0}, c + n <= SYSEX_TX_MESSAGE_SIZE,
           Within(c), SendData(n)
    PROVE  Within(c + n)' /\ UNCHANGED <<in_sysex, sounding>>
<1> DEFINE lost == IF Single THEN 1 ELSE 0
<1>1. /\ UNCHANGED <<in_sysex, sounding>>
      /\ IF n > lost THEN Continue("open", "open") ELSE UNCHANGED stream
      /\ data' = Least(data + n - lost, SYSEX_TX_MESSAGE_SIZE + 1)
      /\ cut' = Least(cut + lost, SYSEX_TX_MESSAGE_SIZE + 1)
  BY DEF SendData, Within
<1>2. /\ stream = "open" /\ in_sysex /\ data \in Nat /\ cut \in Nat /\ data + cut = c
      /\ lost \in {0, 1}
  BY DEF Within
<1> HIDE DEF lost
<1>3. stream' = "open" /\ in_sysex'
  BY <1>1, <1>2 DEF Continue
<1>4. data' = data + n - lost /\ cut' = cut + lost
  BY <1>1, <1>2, SizesType DEF Least
<1>5. data' \in Nat /\ cut' \in Nat /\ data' + cut' = c + n
  BY <1>2, <1>4
<1> QED BY <1>1, <1>3, <1>5 DEF Within

(* The data of the short message is taken whole.                           *)
LEMMA DataStep ==
    ASSUME RoomEnough, Orderly, CountInv, OrderlyInv, MainCalls, Head(todo)[1] = "data"
    PROVE  OrderlyInv'
<1>1. /\ ShortData
      /\ UNCHANGED <<appVars, readVars, flushing, mode, buttonVars, state>>
      /\ todo # <<>> /\ todo' = Tail(todo)
  BY DEF MainCalls, Statement
<1>2. InShort /\ state = "READY" /\ IdleFrom(button_event_q, 1) /\ AppTypes
  BY <1>1, NextStatement DEF OrderlyInv
<1>3. /\ todo = <<<<"data">>, <<"end">>>> /\ ~sysex_tx_in_progress
      /\ Within(0) /\ AtMost(3, 1) /\ NotesRight
  BY <1>2, Tails DEF InShort
<1>4. HasRoom(4, notifications)
  <2>1. 3 + 4 <= FIFO_SIZE
    BY SizesType DEF RoomEnough
  <2> QED BY <1>2, <1>3, <2>1, HasRoomFor
<1>5. Accept(3 + SHORT_SIZE, notifications) /\ SendData(SHORT_SIZE)
  <2>1. ~Single => Least(SHORT_SIZE, FIFO_SIZE - fifo - 3) = SHORT_SIZE
    BY <1>3, SizesType DEF AtMost, Least, RoomEnough, CountInv, Levels
  <2> QED BY <1>1, <1>4, <2>1 DEF ShortData
<1>6. Within(SHORT_SIZE)' /\ UNCHANGED <<in_sysex, sounding>>
  <2>1. SHORT_SIZE \in Nat \ {0} /\ 0 + SHORT_SIZE <= SYSEX_TX_MESSAGE_SIZE /\ 0 \in Nat
    BY SizesType DEF RoomEnough
  <2>2. Within(0 + SHORT_SIZE)' /\ UNCHANGED <<in_sysex, sounding>>
    BY <1>3, <1>5, <2>1, DataHeard
  <2> QED BY <2>1, <2>2
<1>7. in_sysex' \in BOOLEAN
  BY <1>2, <1>6 DEF AppTypes
<1>8. AppTypes' /\ AtMost(6 + SHORT_SIZE, 2)'
  <2>1. 3 + (3 + SHORT_SIZE) = 6 + SHORT_SIZE /\ 1 + 1 = 2 /\ 3 + SHORT_SIZE \in Nat
    BY SizesType
  <2> QED BY <1>1, <1>2, <1>3, <1>4, <1>5, <1>7, <2>1, AcceptTypes
<1>9. Within(SHORT_SIZE)' /\ NotesRight' /\ state' = "READY" /\ IdleFrom(button_event_q, 1)'
  BY <1>1, <1>2, <1>3, <1>6 DEF NotesRight, NotesBefore, buttonVars
<1>10. todo' = <<<<"end">>>> /\ ~sysex_tx_in_progress'
  BY <1>1, <1>3, Tails DEF appVars
<1>11. InShort'
  BY <1>8, <1>9, <1>10 DEF InShort
<1> QED BY <1>8, <1>9, <1>11 DEF OrderlyInv, Working

(* The end of the short message.                                           *)
LEMMA EndStep ==
    ASSUME RoomEnough, Orderly, CountInv, OrderlyInv, MainCalls, Head(todo)[1] = "end"
    PROVE  OrderlyInv'
<1>1. /\ ble_midi_tx_sysex_end(SHORT_SIZE, notifications)
      /\ UNCHANGED <<appVars, readVars, flushing, mode, buttonVars, state>>
      /\ todo # <<>> /\ todo' = Tail(todo)
  BY DEF MainCalls, Statement
<1>2. InShort /\ state = "READY" /\ IdleFrom(button_event_q, 1) /\ AppTypes
  BY <1>1, NextStatement DEF OrderlyInv
<1>3. /\ todo = <<<<"end">>>> /\ ~sysex_tx_in_progress
      /\ Within(SHORT_SIZE) /\ AtMost(6 + SHORT_SIZE, 2) /\ NotesRight
  BY <1>2, Tails DEF InShort
<1>4. HasRoom(3, notifications) /\ ~Rejected(TRUE)
  <2>1. ~Rejected(TRUE)
    BY <1>2, <1>3 DEF Within, Rejected, AppTypes
  <2>2. (6 + SHORT_SIZE) + 3 <= FIFO_SIZE /\ 6 + SHORT_SIZE \in Nat
    BY SizesType DEF RoomEnough
  <2>3. HasRoom(3, notifications)
    <3> DEFINE bytes == 6 + SHORT_SIZE
    <3>1. bytes \in Nat /\ 2 \in 0 .. 2 /\ 3 \in Nat /\ bytes + 3 <= FIFO_SIZE
      BY <2>2
    <3>2. AtMost(bytes, 2)
      BY <1>3
    <3> HIDE DEF bytes
    <3> QED BY <1>2, <3>1, <3>2, HasRoomFor
  <2> QED BY <2>1, <2>3
<1>5. /\ Accept(3, notifications)
      /\ stream' = "closed" /\ data' = 0 /\ cut' = 0 /\ in_sysex' = FALSE
      /\ UNCHANGED sounding
  BY <1>1, <1>3, <1>4 DEF ble_midi_tx_sysex_end, ThreeByteCall, Continue, Within
<1>6. in_sysex' \in BOOLEAN
  BY <1>5
<1>7. AppTypes'
  BY <1>1, <1>2, <1>4, <1>5, <1>6, AcceptTypes
<1>8. /\ todo' = <<>> /\ Between' /\ ~sysex_tx_in_progress'
      /\ NotesRight' /\ state' = "READY" /\ IdleFrom(button_event_q, 1)'
  BY <1>1, <1>2, <1>3, <1>5, Tails DEF Between, NotesRight, NotesBefore, appVars, buttonVars
<1> QED BY <1>7, <1>8 DEF OrderlyInv, Resting

(* The statements that do not call the library, and ble_midi_tx_flush.     *)
LEMMA QuietStep ==
    ASSUME CountInv, OrderlyInv, MainBegins \/ MainZeroes \/ MainFlushes
    PROVE  OrderlyInv'
<1>1. /\ UNCHANGED <<libVars, readVars, history, mode, buttonVars, state>>
      /\ todo # <<>> /\ todo' = Tail(todo)
  BY DEF MainBegins, MainZeroes, MainFlushes, Statement
<1>2. /\ Between' <=> Between
      /\ Nothing' <=> Nothing
      /\ NotesRight' <=> NotesRight
      /\ \A n : IdleFrom(button_event_q, n)' <=> IdleFrom(button_event_q, n)
  BY <1>1 DEF Between, Nothing, NotesRight, NotesBefore, libVars, readVars, history, buttonVars
<1>3. AppTypes
  BY DEF OrderlyInv
<1>4. CASE MainBegins
  <2>1. LongBegins /\ state = "READY" /\ IdleFrom(button_event_q, 1)
    BY <1>1, <1>4, NextStatement DEF MainBegins, Statement
  <2>2. todo = <<<<"begin">>, <<"zero">>, <<"start">>>> /\ Between /\ Nothing /\ NotesRight
    BY <1>4, <2>1, Tails DEF LongBegins, MainBegins, Statement
  <2>3. todo' = <<<<"zero">>, <<"start">>>> /\ sysex_tx_in_progress'
    BY <1>1, <1>4, <2>2, Tails DEF MainBegins
  <2>4. AppTypes'
    BY <1>1, <1>3, <1>4 DEF MainBegins, AppTypes, NOTIF_BUF_COUNT, Single, libVars, readVars, buttonVars
  <2> QED BY <1>1, <1>2, <2>1, <2>2, <2>3, <2>4 DEF OrderlyInv, Working, LongBegins
<1>5. CASE MainZeroes
  <2>1. LongBegins /\ state = "READY" /\ IdleFrom(button_event_q, 1)
    BY <1>1, <1>5, NextStatement DEF MainZeroes, Statement
  <2>2. /\ todo = <<<<"zero">>, <<"start">>>> /\ sysex_tx_in_progress
        /\ Between /\ Nothing /\ NotesRight
    BY <1>5, <2>1, Tails DEF LongBegins, MainZeroes, Statement
  <2>3. todo' = <<<<"start">>>> /\ sysex_tx_in_progress' /\ sysex_tx_data_byte_count' = 0
    BY <1>1, <1>5, <2>2, Tails DEF MainZeroes
  <2>4. AppTypes'
    BY <1>1, <1>3, <1>5 DEF MainZeroes, AppTypes, NOTIF_BUF_COUNT, Single, libVars, readVars, buttonVars
  <2> QED BY <1>1, <1>2, <2>1, <2>2, <2>3, <2>4 DEF OrderlyInv, Working, LongBegins
<1>6. CASE MainFlushes
  <2>1. Resting /\ todo = <<<<"flush">>>>
    BY <1>1, <1>6, NextStatement, Tails DEF MainFlushes, Statement, Resting
  <2>2. todo' = <<>> /\ UNCHANGED appVars
    BY <1>1, <1>6, <2>1, Tails DEF MainFlushes
  <2>3. flushing' \in BOOLEAN /\ (flushing' => fifo' > 0 \/ packet')
    BY <1>1, <1>6 DEF MainFlushes, libVars, readVars
  <2>4. AppTypes'
    BY <1>1, <1>3, <2>2, <2>3 DEF AppTypes, NOTIF_BUF_COUNT, Single, appVars, libVars, readVars,
                                  buttonVars
  <2> QED BY <1>1, <1>2, <2>1, <2>2, <2>4 DEF OrderlyInv, Resting, appVars, buttonVars
<1> QED BY <1>4, <1>5, <1>6

(* What the library holds grows less while no transfer is in progress.     *)
LEMMA DrainKeepsPhase ==
    ASSUME CountInv, OrderlyInv, ~Nothing, ~sysex_tx_in_progress,
           AppTypes', UNCHANGED <<mode, buttonVars, todo, appVars, state, in_sysex, history>>,
           fifo' \in Nat, fifo' <= fifo,
           Single => notifications' <= notifications
    PROVE  OrderlyInv'
<1>1. /\ Between' <=> Between
      /\ \A n : Within(n)' <=> Within(n)
      /\ NotesRight' <=> NotesRight
      /\ \A i : NotesBefore(i)' = NotesBefore(i) /\ ChordRest(i)' = ChordRest(i)
      /\ \A n : IdleFrom(button_event_q, n)' <=> IdleFrom(button_event_q, n)
      /\ Single' <=> Single
  BY DEF Between, Within, NotesRight, NotesBefore, ChordRest, history, buttonVars, Single
<1>2. ASSUME NEW n \in Nat, NEW m \in Nat, AtMost(n, m) PROVE AtMost(n, m)'
  <2>1. notifications \in Int /\ notifications' \in Int /\ fifo \in Int
    BY SizesType DEF OrderlyInv, AppTypes, CountInv, Levels
  <2> QED BY <1>1, <1>2, <2>1 DEF AtMost
<1>3. ~Waiting /\ ~LongBegins /\ ~Transfer
  BY DEF Waiting, LongBegins, Transfer
<1>4. CASE Resting
  BY <1>1, <1>4 DEF OrderlyInv, Resting, appVars
<1>5. CASE Working /\ state = "READY"
  <2>1. CASE InChord
    <3>1. PICK i \in 1 .. 3 : /\ todo = ChordRest(i) /\ sounding = NotesBefore(i)
                            /\ AtMost(3 * (i - 1), i - 1)
      BY <2>1 DEF InChord
    <3>2. 3 * (i - 1) \in Nat /\ i - 1 \in Nat
      OBVIOUS
    <3>3. AtMost(3 * (i - 1), i - 1)'
      BY <1>2, <3>1, <3>2
    <3>4. InChord'
      BY <1>1, <2>1, <3>1, <3>3 DEF InChord, appVars, history
    <3> QED BY <1>1, <1>5, <3>4 DEF OrderlyInv, Working
  <2>2. CASE InShort
    <3>1. 6 + SHORT_SIZE \in Nat
      BY SizesType
    <3>2. InShort'
      BY <1>1, <1>2, <2>2, <3>1 DEF InShort, appVars
    <3> QED BY <1>1, <1>5, <3>2 DEF OrderlyInv, Working
  <2> QED BY <1>3, <1>5, <2>1, <2>2 DEF Working
<1> QED BY <1>3, <1>4, <1>5 DEF OrderlyInv

(* tx_done_cb: either there is no transfer, and the stack holds one        *)
(* notification less, or the transfer goes on or ends.                     *)
LEMMA DoneStep ==
    ASSUME RoomEnough, Orderly, CountInv, OrderlyInv, tx_done_cb, ~end_lost'
    PROVE  OrderlyInv'
<1> DEFINE count == sysex_tx_data_byte_count
           held  == notifications - 1
<1>1. /\ UNCHANGED <<mode, buttonVars, todo, state, readVars, flushing>>
      /\ notifications > 0
  BY DEF tx_done_cb
<1>2. AppTypes /\ NOTIF_BUF_COUNT \in Nat /\ NOTIF_BUF_COUNT' = NOTIF_BUF_COUNT /\ (Single' <=> Single)
  BY <1>1, Room DEF OrderlyInv, CountInv, NOTIF_BUF_COUNT, Single
<1>3. notifications \in Nat /\ held \in 0 .. NOTIF_BUF_COUNT /\ held < NOTIF_BUF_COUNT
  BY <1>1, <1>2 DEF AppTypes
<1>4. ~Nothing
  BY <1>1 DEF Nothing
<1>5. CASE ~sysex_tx_in_progress
  <2>1. Refuse(held) /\ UNCHANGED <<appVars, in_sysex, history>>
    BY <1>5 DEF tx_done_cb
  <2>2. AppTypes'
    BY <1>1, <1>2, <1>3, <2>1 DEF AppTypes, Refuse, appVars, readVars, buttonVars
  <2>3. fifo' \in Nat /\ fifo' <= fifo /\ notifications' <= notifications
    BY <1>3, <2>1, SizesType DEF Refuse, CountInv, Levels
  <2> QED BY <1>1, <1>4, <1>5, <2>1, <2>2, <2>3, DrainKeepsPhase
<1>6. CASE sysex_tx_in_progress
  <2>1. Transfer /\ state = "READY" /\ IdleFrom(button_event_q, 1)
    BY <1>4, <1>6 DEF OrderlyInv, Resting, Waiting, Working, InChord, InShort, LongBegins
  <2>2. todo' = <<>> /\ Within(count) /\ count \in Counts /\ NotesRight /\ mode # "manual"
    BY <1>1, <2>1 DEF Transfer, CountInv
  <2>3. state' = "READY" /\ IdleFrom(button_event_q, 1)'
    BY <1>1, <2>1 DEF buttonVars
  <2>6. CASE AllSent
    <3>1. /\ ble_midi_tx_sysex_end(SYSEX_TX_MESSAGE_SIZE, held)
          /\ TransferDone
          /\ UNCHANGED count
      BY <1>6, <2>6 DEF tx_done_cb
    <3>2. HasRoom(3, held)
      BY <3>1 DEF ble_midi_tx_sysex_end
    <3>3. ~Rejected(TRUE)
      BY <1>2, <2>2 DEF Within, Rejected, AppTypes
    <3>4. /\ Accept(3, held)
          /\ stream' = "closed" /\ data' = 0 /\ cut' = 0 /\ in_sysex' = FALSE
          /\ UNCHANGED sounding
      BY <2>2, <2>6, <3>1, <3>2, <3>3
         DEF ble_midi_tx_sysex_end, ThreeByteCall, Continue, Within, AllSent
    <3>5. sysex_tx_in_progress' = FALSE
      BY <3>1 DEF TransferDone
    <3>6. /\ notifications' \in 0 .. NOTIF_BUF_COUNT
          /\ Single => fifo' = 0
          /\ fifo > 0 => fifo' > 0
      BY <1>2, <1>3, <3>4, SizesType DEF Accept, AppTypes, CountInv, Levels
    <3>7. AppTypes'
      BY <1>1, <1>2, <3>4, <3>5, <3>6 DEF AppTypes, buttonVars, readVars
    <3>8. Between' /\ NotesRight'
      BY <1>1, <2>2, <3>4 DEF Between, NotesRight, NotesBefore, buttonVars
    <3> QED BY <2>2, <2>3, <3>5, <3>7, <3>8 DEF OrderlyInv, Resting
  <2>7. CASE ~AllSent
    <3>1. UNCHANGED sysex_tx_in_progress
      BY <1>6, <2>7 DEF tx_done_cb
    <3> SUFFICES /\ Within(count)' /\ count' \in Counts /\ sounding' = sounding
                 /\ in_sysex' = in_sysex
                 /\ notifications' \in 0 .. NOTIF_BUF_COUNT
                 /\ Single => fifo' = 0
                 /\ fifo > 0 => fifo' > 0
      <4>1. AppTypes'
        BY <1>1, <1>2, <3>1 DEF AppTypes, buttonVars, readVars
      <4>2. NotesRight'
        BY <1>1, <2>2 DEF NotesRight, NotesBefore, buttonVars
      <4>3. Transfer'
        BY <1>1, <1>6, <2>2, <3>1, <4>2 DEF Transfer
      <4> QED BY <2>3, <4>1, <4>3 DEF OrderlyInv, Working
    <3>2. ASSUME NEW n \in Nat \ {0}, SendData(n), count' = count + n, count' \in Counts
          PROVE  Within(count)' /\ sounding' = sounding /\ in_sysex' = in_sysex
      <4>1. count \in Nat /\ count + n <= SYSEX_TX_MESSAGE_SIZE
        BY <2>2, <3>2, SizesType DEF Counts
      <4>2. PICK c \in Nat : c = count
        BY <4>1
      <4>3. Within(c) /\ c + n <= SYSEX_TX_MESSAGE_SIZE /\ count' = c + n
        BY <2>2, <3>2, <4>1, <4>2
      <4>4. Within(c + n)' /\ UNCHANGED <<in_sysex, sounding>>
        BY <3>2, <4>3, DataHeard
      <4> QED BY <4>3, <4>4 DEF Within
    <3>3. ASSUME count' = count, UNCHANGED <<in_sysex, history>>
          PROVE  /\ Within(count)' /\ sounding' = sounding /\ in_sysex' = in_sysex
                 /\ count' \in Counts
      BY <1>2, <2>2, <3>3 DEF Within, history
    <3>4. CASE Single
      <4>1. SendChunk(held)
        BY <1>6, <2>7, <3>4 DEF tx_done_cb
      <4>2. CASE HasRoom(1, held)
        <5>1. PICK n \in 1 .. num_bytes_to_send(count) :
                  Accept(1, held) /\ count' = count + n /\ SendData(n)
          BY <4>1, <4>2 DEF SendChunk
        <5>2. n \in Nat \ {0} /\ count' \in Counts
          BY <2>2, <5>1, SizesType DEF num_bytes_to_send, Least, Counts
        <5>3. fifo' = fifo /\ notifications' \in 0 .. NOTIF_BUF_COUNT
          BY <1>2, <1>3, <3>4, <5>1 DEF Accept
        <5> QED BY <1>2, <3>2, <3>4, <5>1, <5>2, <5>3 DEF AppTypes
      <4>3. CASE ~HasRoom(1, held)
        <5>1. Refuse(held) /\ count' = count /\ UNCHANGED <<in_sysex, history>>
          BY <4>1, <4>3 DEF SendChunk
        <5> QED BY <1>2, <1>3, <3>3, <3>4, <5>1 DEF Refuse, AppTypes
      <4> QED BY <4>2, <4>3
    <3>5. CASE ~Single
      <4> DEFINE from == <<count, fifo>>
                 filled == Fill[from]
      <4>1. FillFifo /\ notifications' = held
        BY <1>6, <2>7, <3>5 DEF tx_done_cb
      <4>2. from \in States
        BY <2>2 DEF States, CountInv
      <4>3. filled \in States /\ filled[1] >= count /\ filled[2] >= fifo
        BY <4>2, FillType
      <4>4. /\ count' = filled[1] /\ fifo' = filled[2]
            /\ IF filled[1] - count > 0 THEN SendData(filled[1] - count)
               ELSE UNCHANGED <<in_sysex, history>>
        BY <4>1 DEF FillFifo
      <4> HIDE DEF filled
      <4>5. count' \in Counts /\ fifo' \in Levels
        BY <4>3, <4>4 DEF States
      <4>6. Within(count)' /\ sounding' = sounding /\ in_sysex' = in_sysex
        <5>1. CASE filled[1] - count > 0
          <6>1. filled[1] - count \in Nat \ {0} /\ count' = count + (filled[1] - count)
            BY <2>2, <4>4, <4>5, <5>1, SizesType DEF Counts
          <6> QED BY <3>2, <4>4, <4>5, <5>1, <6>1
        <5>2. CASE ~(filled[1] - count > 0)
          <6>1. count' = count
            BY <2>2, <4>3, <4>4, <4>5, <5>2, SizesType DEF Counts
          <6> QED BY <3>3, <4>4, <5>2, <6>1
        <5> QED BY <5>1, <5>2
      <4>7. fifo > 0 => fifo' > 0
        BY <1>2, <4>3, <4>4, <4>5, SizesType DEF AppTypes, Levels, CountInv
      <4> QED BY <1>3, <3>5, <4>1, <4>5, <4>6, <4>7
    <3> QED BY <3>4, <3>5
  <2> QED BY <2>6, <2>7
<1> QED BY <1>5, <1>6

(* The library reads the FIFO, or sends a packet, or fails to.             *)
LEMMA SendStep ==
    ASSUME RoomEnough, CountInv, OrderlyInv,
           tx_queue_fifo_work_cb \/ SendPacket \/ SendFails
    PROVE  OrderlyInv'
<1>1. UNCHANGED <<mode, buttonVars, todo, appVars, state, in_sysex, history>>
  BY DEF tx_queue_fifo_work_cb, SendPacket, SendFails, libVars
<1>2. AppTypes /\ NOTIF_BUF_COUNT \in Nat /\ NOTIF_BUF_COUNT' = NOTIF_BUF_COUNT /\ (Single' <=> Single)
  BY <1>1, Room DEF OrderlyInv, CountInv, NOTIF_BUF_COUNT, Single
<1>3. fifo \in Nat /\ notifications \in Nat
  BY <1>2, SizesType DEF AppTypes, CountInv, Levels
<1>4. /\ fifo' \in Nat /\ fifo' <= fifo
      /\ notifications' \in 0 .. NOTIF_BUF_COUNT
      /\ packet' \in BOOLEAN
      /\ flushing' \in BOOLEAN /\ (flushing' => flushing /\ (fifo' > 0 \/ packet'))
      /\ Single => fifo' = 0 /\ ~packet' /\ notifications' = notifications
      /\ mode = "manual" /\ ~flushing => notifications' = notifications
      /\ Nothing => Nothing'
  <2>1. CASE tx_queue_fifo_work_cb
    <3>1. PICK level \in 0 .. fifo, holds \in BOOLEAN, left \in 0 .. MaxRest :
              /\ tx_queue_read_from_fifo(level, holds, left)
              /\ fifo' = level /\ packet' = holds /\ rest' = left
      BY <2>1 DEF tx_queue_fifo_work_cb
    <3>2. /\ fifo' \in Nat /\ fifo' <= fifo /\ packet' \in BOOLEAN
          /\ packet' = TRUE \/ (fifo' = fifo /\ packet' = packet /\ rest' = rest)
          /\ fifo = 0 => fifo' = fifo /\ packet' = packet /\ rest' = rest
      <4>1. /\ level \in Nat /\ level <= fifo
            /\ holds = TRUE \/ (level = fifo /\ holds = packet /\ left = rest)
            /\ fifo = 0 => level = fifo /\ holds = packet /\ left = rest
        BY <3>1, ReadResult DEF CountInv
      <4> QED BY <3>1, <4>1
    <3>3. notifications' = notifications /\ flushing' = flushing
      BY <2>1 DEF tx_queue_fifo_work_cb
    <3>4. Single => fifo' = 0 /\ ~packet'
      BY <1>2, <3>2 DEF AppTypes
    <3>5. flushing' => fifo' > 0 \/ packet'
      BY <1>2, <1>3, <3>2, <3>3 DEF AppTypes
    <3>6. Nothing => Nothing'
      BY <3>2, <3>3 DEF Nothing
    <3>7. notifications' \in 0 .. NOTIF_BUF_COUNT /\ flushing' \in BOOLEAN
      BY <1>2, <3>3 DEF AppTypes
    <3> QED BY <3>2, <3>3, <3>4, <3>5, <3>6, <3>7
  <2>2. CASE SendPacket
    <3>1. PICK level \in 0 .. fifo, left \in 0 .. MaxRest :
              tx_queue_read_from_fifo(level, TRUE, left) /\ fifo' = level /\ rest' = left
      BY <2>2 DEF SendPacket
    <3>2. /\ fifo' \in Nat /\ fifo' <= fifo
          /\ fifo = 0 => packet = TRUE
      <4>1. level \in Nat /\ level <= fifo
        BY <3>1, ReadResult DEF CountInv
      <4>2. fifo = 0 => packet = TRUE
        BY <3>1 DEF tx_queue_read_from_fifo
      <4> QED BY <3>1, <4>1, <4>2
    <3>3. /\ notifications' = notifications + 1 /\ notifications < NOTIF_BUF_COUNT
          /\ flushing' = FALSE /\ packet' = FALSE
          /\ mode = "manual" => flushing
      BY <2>2 DEF SendPacket
    <3>4. ~Single /\ ~Nothing
      BY <1>2, <3>2 DEF AppTypes, Nothing
    <3>5. notifications' \in 0 .. NOTIF_BUF_COUNT
      BY <1>2, <1>3, <3>3
    <3> QED BY <3>2, <3>3, <3>4, <3>5
  <2>3. CASE SendFails
    <3>1. UNCHANGED <<fifo, packet, rest, notifications>> /\ flushing' = FALSE
      BY <2>3 DEF SendFails, libVars, readVars
    <3>2. packet' \in BOOLEAN /\ (Single => fifo' = 0 /\ ~packet') /\ (Nothing => Nothing')
      BY <1>2, <3>1 DEF AppTypes, Nothing
    <3>3. notifications' \in 0 .. NOTIF_BUF_COUNT
      BY <1>2, <3>1 DEF AppTypes
    <3>4. fifo' \in Nat /\ fifo' <= fifo
      BY <1>3, <3>1
    <3>5. flushing' \in BOOLEAN /\ ~flushing' /\ notifications' = notifications
      BY <3>1
    <3> QED BY <3>2, <3>3, <3>4, <3>5, Zenon
  <2> QED BY <2>1, <2>2, <2>3
<1>5. AppTypes'
  BY <1>1, <1>2, <1>4 DEF AppTypes, appVars, buttonVars
<1>6. CASE ~sysex_tx_in_progress /\ ~Nothing
  BY <1>1, <1>3, <1>4, <1>5, <1>6, DrainKeepsPhase
<1>7. CASE Transfer /\ state = "READY" /\ IdleFrom(button_event_q, 1)
  <2>1. mode' = "manual" => notifications' = 0 /\ ~flushing'
    BY <1>1, <1>4, <1>7 DEF Transfer
  <2>2. Transfer'
    BY <1>1, <1>7, <2>1
       DEF Transfer, Within, NotesRight, NotesBefore, appVars, buttonVars, history
  <2>3. IdleFrom(button_event_q, 1)' /\ state' = "READY"
    BY <1>1, <1>7 DEF buttonVars
  <2> QED BY <1>5, <2>2, <2>3 DEF OrderlyInv, Working
<1>8. CASE Nothing /\ ~Transfer
  <2>1. Nothing'
    BY <1>4, <1>8
  <2>2. /\ Between' <=> Between
        /\ \A n : Within(n)' <=> Within(n)
        /\ \A n \in Nat, m \in Nat : AtMost(n, m)'
        /\ NotesRight' <=> NotesRight
        /\ \A i : NotesBefore(i)' = NotesBefore(i) /\ ChordRest(i)' = ChordRest(i)
        /\ \A n : IdleFrom(button_event_q, n)' <=> IdleFrom(button_event_q, n)
    BY <1>1, <2>1 DEF Between, Within, AtMost, Nothing, NotesRight, NotesBefore, ChordRest,
                      history, buttonVars
  <2>3. Resting => Resting'
    BY <1>1, <2>1, <2>2 DEF Resting, appVars, buttonVars
  <2>4. Waiting => Waiting'
    BY <1>1, <2>1, <2>2 DEF Waiting, appVars, buttonVars, history
  <2>5. InChord => InChord'
    <3> SUFFICES ASSUME InChord PROVE InChord'
      OBVIOUS
    <3>1. PICK i \in 1 .. 3 : todo = ChordRest(i) /\ sounding = NotesBefore(i)
      BY DEF InChord
    <3>2. 3 * (i - 1) \in Nat /\ i - 1 \in Nat
      OBVIOUS
    <3> QED BY <1>1, <2>2, <3>1, <3>2 DEF InChord, appVars, history
  <2>6. InShort => InShort'
    <3>1. 6 + SHORT_SIZE \in Nat
      BY SizesType
    <3> QED BY <1>1, <2>2, <3>1 DEF InShort, appVars
  <2>7. LongBegins => LongBegins'
    BY <1>1, <2>1, <2>2 DEF LongBegins, appVars
  <2> QED BY <1>1, <1>5, <1>8, <2>2, <2>3, <2>4, <2>5, <2>6, <2>7 DEF OrderlyInv, Working
<1>9. CASE sysex_tx_in_progress /\ ~Nothing /\ ~Transfer
  BY <1>9 DEF OrderlyInv, Resting, Waiting, Working, InChord, InShort, LongBegins
<1>10. Transfer => state = "READY" /\ IdleFrom(button_event_q, 1)
  BY DEF OrderlyInv, Resting, Waiting, Working, Transfer
<1> QED BY <1>6, <1>7, <1>8, <1>9, <1>10

(* The connection comes and goes, and so do notifications.                 *)
LEMMA LinkStep ==
    ASSUME CountInv, OrderlyInv, upsets = 0, upsets' = 0,
           Connect \/ NotificationsEnabled \/ NotificationsDisabled \/ Disconnect
    PROVE  OrderlyInv'
<1>1. UNCHANGED <<mode, buttonVars, todo, appVars, notifications, flushing>>
  BY DEF Connect, NotificationsEnabled, NotificationsDisabled, Disconnect, ble_midi_ready_cb,
         libVars
<1>2. AppTypes /\ NOTIF_BUF_COUNT' = NOTIF_BUF_COUNT /\ (Single' <=> Single)
  BY <1>1 DEF OrderlyInv, NOTIF_BUF_COUNT, Single
<1>3. IdleFrom(button_event_q, 1)' <=> IdleFrom(button_event_q, 1)
  BY <1>1 DEF buttonVars
<1>4. CASE Connect
  <2>1. Resting /\ Nothing /\ ~button_states["chord"]
    BY <1>4 DEF OrderlyInv, Connect, Resting
  <2>2. /\ Between' /\ Nothing' /\ sounding' = {} /\ state' = "CONNECTED"
    BY <1>4, <2>1 DEF Connect, ble_midi_ready_cb, Between, Nothing
  <2>3. NotesRight' /\ ~button_states'["chord"]
    BY <1>1, <2>1, <2>2 DEF NotesRight, NotesBefore, Chord, buttonVars
  <2>4. AppTypes'
    <3>1. in_sysex' = FALSE /\ packet' = FALSE /\ fifo' = 0 /\ flushing' = FALSE
      BY <1>1, <1>2, <1>4, <2>1, SizesType DEF Connect, AppTypes, Nothing
    <3> QED BY <1>1, <1>2, <3>1 DEF AppTypes, appVars, buttonVars
  <2> QED BY <1>1, <1>3, <2>1, <2>2, <2>3, <2>4 DEF OrderlyInv, Resting, appVars
<1>5. CASE UNCHANGED <<libVars, readVars, history>>
  <2>1. AppTypes'
    BY <1>1, <1>2, <1>5 DEF AppTypes, appVars, buttonVars, libVars, readVars
  <2>2. /\ Between' <=> Between
        /\ Nothing' <=> Nothing
        /\ NotesRight' <=> NotesRight
        /\ button_states' = button_states
    BY <1>1, <1>5 DEF Between, Nothing, NotesRight, NotesBefore, buttonVars, libVars, readVars,
                      history
  <2>3. Resting /\ (state' # "READY" => Nothing)
        /\ (state' = "NOT_CONNECTED" => ~button_states["chord"])
    <3>1. CASE NotificationsEnabled
      BY <3>1 DEF OrderlyInv, NotificationsEnabled, ble_midi_ready_cb
    <3>2. CASE NotificationsDisabled
      <4>1. Settled /\ state' = "CONNECTED"
        BY <3>2 DEF NotificationsDisabled, ble_midi_ready_cb, Usage
      <4> QED BY <4>1, SettledRests
    <3>3. CASE Disconnect
      <4>1. Settled /\ ~button_states["chord"]
        BY <3>3 DEF Disconnect, Usage
      <4> QED BY <4>1, SettledRests
    <3>4. CASE Connect
      <4>1. Resting /\ Nothing /\ state' = "CONNECTED"
        BY <3>4 DEF OrderlyInv, Connect, Resting, ble_midi_ready_cb
      <4> QED BY <4>1
    <3> QED BY <3>1, <3>2, <3>3, <3>4
  <2>4. Resting'
    BY <1>1, <1>3, <2>2, <2>3 DEF Resting, appVars
  <2> QED BY <2>1, <2>4 DEF OrderlyInv
<1>6. NotificationsEnabled \/ NotificationsDisabled \/ Disconnect
          => UNCHANGED <<libVars, readVars, history>>
  BY DEF NotificationsEnabled, NotificationsDisabled, Disconnect, Usage
<1> QED BY <1>4, <1>5, <1>6

(* All steps of an orderly use.                                            *)
LEMMA OrderlyStep ==
    ASSUME RoomEnough, CountInv, Orderly /\ ~end_lost => OrderlyInv, [Next]_vars
    PROVE  Orderly' /\ ~end_lost' => OrderlyInv'
<1> SUFFICES ASSUME upsets' = 0, ~end_lost' PROVE OrderlyInv'
  BY DEF Orderly
<1>1. upsets = 0
  <2>1. ASSUME NEW w, Usage(w) PROVE upsets = 0
    BY <2>1 DEF Usage, CountInv
  <2>2. CASE (\E b \in Buttons : button_pressed(b)) \/ NotificationsDisabled \/ Disconnect
    BY <2>1, <2>2 DEF button_pressed, NotificationsDisabled, Disconnect
  <2>3. CASE GetButtonEvent \/ MainCalls \/ MainBegins \/ MainZeroes \/ MainFlushes \/ tx_done_cb
    BY <2>3 DEF GetButtonEvent, MainCalls, MainBegins, MainZeroes, MainFlushes, Statement,
                tx_done_cb
  <2>4. CASE \/ tx_queue_fifo_work_cb \/ SendPacket \/ SendFails
             \/ Connect \/ NotificationsEnabled \/ UNCHANGED vars
    BY <2>4 DEF tx_queue_fifo_work_cb, SendPacket, SendFails, Connect, NotificationsEnabled, vars
  <2> QED BY <2>2, <2>3, <2>4 DEF Next, Pressable, MainLoop
<1>2. OrderlyInv /\ Orderly
  <2>1. CASE MainCalls
    BY <1>1, <2>1 DEF Orderly, MainCalls, ble_midi_tx_msg, ble_midi_tx_sysex_start,
       ble_midi_tx_sysex_end, ShortData, SendData, history
  <2>2. CASE tx_done_cb
    <3>1. ~end_lost
      BY <2>2 DEF tx_done_cb, ble_midi_tx_sysex_end, SendChunk, FillFifo, SendData, history
    <3> QED BY <1>1, <3>1 DEF Orderly
  <2>3. CASE \E b \in Buttons : button_pressed(b)
    BY <1>1, <2>3 DEF Orderly, button_pressed, Usage, history
  <2>4. CASE NotificationsDisabled \/ Disconnect
    BY <1>1, <2>4 DEF Orderly, NotificationsDisabled, Disconnect, Usage, history
  <2>5. CASE GetButtonEvent \/ MainBegins \/ MainZeroes \/ MainFlushes
    BY <1>1, <2>5 DEF Orderly, GetButtonEvent, MainBegins, MainZeroes, MainFlushes, history
  <2>6. CASE \/ tx_queue_fifo_work_cb \/ SendPacket \/ SendFails
             \/ Connect \/ NotificationsEnabled \/ UNCHANGED vars
    BY <1>1, <2>6 DEF Orderly, tx_queue_fifo_work_cb, SendPacket, SendFails, Connect,
       NotificationsEnabled, vars, history
  <2> QED BY <2>1, <2>2, <2>3, <2>4, <2>5, <2>6 DEF Next, Pressable, MainLoop
<1>3. CASE \E b \in Buttons : button_pressed(b)
  BY <1>1, <1>2, <1>3, PressStep
<1>4. CASE GetButtonEvent
  BY <1>2, <1>4, EventStep
<1>5. CASE MainCalls
  <2>1. Head(todo)[1] \in {"msg", "start", "data", "end"}
    BY <1>5 DEF MainCalls, Statement
  <2> QED BY <1>2, <1>5, <2>1, MsgStep, StartStep, DataStep, EndStep
<1>6. CASE MainBegins \/ MainZeroes \/ MainFlushes
  BY <1>2, <1>6, QuietStep
<1>7. CASE tx_done_cb
  BY <1>2, <1>7, DoneStep
<1>8. CASE tx_queue_fifo_work_cb \/ SendPacket \/ SendFails
  BY <1>2, <1>8, SendStep
<1>9. CASE Connect \/ NotificationsEnabled \/ NotificationsDisabled \/ Disconnect
  BY <1>1, <1>2, <1>9, LinkStep
<1>10. CASE UNCHANGED vars
  BY <1>2, <1>10 DEF vars, buttonVars, appVars, libVars, readVars, history, OrderlyInv, AppTypes,
     Resting, Waiting, Working, InChord, InShort, LongBegins, Transfer, Between, Within, AtMost,
     Nothing, NotesRight, NotesBefore, ChordRest, Single, NOTIF_BUF_COUNT
<1> QED BY <1>3, <1>4, <1>5, <1>6, <1>7, <1>8, <1>9, <1>10 DEF Next, Pressable, MainLoop

(* AppInv is an invariant: main loop and callbacks go through the phases   *)
(* in every interleaving of an orderly use.                                *)
THEOREM AppInvariance ==
    ASSUME RoomEnough
    PROVE  Spec => []AppInv
<1>1. Init => AppInv
  <2> SUFFICES ASSUME Init PROVE OrderlyInv
    BY CountInit DEF AppInv
  <2>1. mode \in DOMAIN NotifBufCount
    BY DEF Init
  <2>2. 0 \in 0 .. NOTIF_BUF_COUNT
    BY <2>1, Room
  <2>3. AppTypes
    <3>1. button_states \in [Buttons -> BOOLEAN] /\ <<>> \in Seq(Buttons \X BOOLEAN)
      BY DEF Init
    <3> QED BY <2>2, <3>1 DEF Init, AppTypes
  <2>4. Resting
    BY DEF Init, Resting, IdleFrom, Between, NotesRight, NotesBefore, Nothing, Chord, Buttons
  <2> QED BY <2>3, <2>4 DEF OrderlyInv
<1>2. AppInv /\ [Next]_vars => AppInv'
  BY CountStep, OrderlyStep DEF AppInv
<1> QED BY <1>1, <1>2, PTL DEF Spec

(* The start, the data and the end of sysex messages leave in order, and   *)
(* all data is accounted for, although the main loop starts the long       *)
(* message and tx_done_cb continues and ends it; whatever number of        *)
(* notifications the stack takes in the buffered modes, until an end finds *)
(* the FIFO full.                                                          *)
THEOREM SysexIsWellFormed ==
    ASSUME RoomEnough
    PROVE  Spec => []SysexWellFormed
<1>1. AppInv => SysexWellFormed
  <2> SUFFICES ASSUME OrderlyInv PROVE stream # "broken"
    BY DEF AppInv, SysexWellFormed
  <2> QED BY DEF OrderlyInv, Resting, Waiting, Working, InChord, InShort, LongBegins, Transfer, Between, Within
<1> QED BY <1>1, AppInvariance, PTL

(* The notes of the chord that the peer hears are those of button 1, once  *)
(* its events are handled.                                                 *)
THEOREM NotesAreRight ==
    ASSUME RoomEnough
    PROVE  Spec => []NotesFollowButton
<1>1. AppInv => NotesFollowButton
  <2> SUFFICES ASSUME OrderlyInv, todo = <<>>, button_event_q = <<>>, ~sysex_tx_in_progress
               PROVE  sounding = IF button_states["chord"] THEN Chord ELSE {}
    BY DEF AppInv, NotesFollowButton
  <2>1. Resting
    <3>1. ~InChord /\ ~InShort /\ ~LongBegins
      BY Tails DEF InChord, ChordRest, InShort, LongBegins
    <3> QED BY <3>1 DEF OrderlyInv, Waiting, Working, Transfer
  <2>2. {k \in Chord : k < 4} = Chord /\ {k \in Chord : k >= 4} = {}
    BY DEF Chord
  <2> QED BY <2>1, <2>2 DEF Resting, NotesRight, NotesBefore
<1> QED BY <1>1, AppInvariance, PTL

=============================================================================
