----------------------------- MODULE SampleApp -----------------------------
(***************************************************************************)
(* The transmit side of the sample application, src/main.c: the button     *)
(* interrupt, the main loop and the callbacks of the BLE MIDI library.     *)
(*                                                                         *)
(* The callbacks run in the cooperative Bluetooth thread and may come      *)
(* between any two statements of the main loop; they are not interrupted   *)
(* by it.  The library is reduced to what decides about the calls and the  *)
(* callbacks: how full the FIFO is and whether anything was read from it   *)
(* that is not sent (buffered and manual mode, with one packet, the        *)
(* default), whether the packet writer is in a sysex message, and how many *)
(* notifications the Bluetooth stack holds.                                *)
(***************************************************************************)
EXTENDS Integers, Sequences

CONSTANTS
    SYSEX_TX_MESSAGE_SIZE,    \* data bytes of the long message (20000)
    SYSEX_TX_MAX_CHUNK_SIZE,  \* data bytes of one call (130)
    SHORT_SIZE,               \* data bytes of the short message (10)
    BUTTON_Q_SIZE,            \* button events that can wait (128)
    FIFO_SIZE,                \* CONFIG_BLE_MIDI_TX_FIFO_SIZE
    NotifBufCount,    \* notifications the stack can hold, for each transmit mode
                      \* of interest: "single", "buffered", "manual"
    MaxRest,          \* bound: packets that the rest of a data chunk may fill
    MaxUpsets         \* bound: presses, lost connections and disabled notifications
                      \* that do not wait until all is sent

ASSUME SampleConstants ==
    /\ {SYSEX_TX_MESSAGE_SIZE, SYSEX_TX_MAX_CHUNK_SIZE, SHORT_SIZE, BUTTON_Q_SIZE,
        FIFO_SIZE} \subseteq Nat \ {0}
    /\ \A m \in DOMAIN NotifBufCount :
           m \in {"single", "buffered", "manual"} /\ NotifBufCount[m] \in Nat \ {0}
    /\ MaxRest \in Nat /\ MaxUpsets \in Nat

VARIABLES
    mode,               \* the transmit mode the program is built for
    button_states, button_event_q,
    todo,               \* statements of the main loop still to execute
    sysex_tx_in_progress, sysex_tx_data_byte_count,
    state,              \* library: the ready state
    fifo,               \* library: bytes in the FIFO
    packet,             \* library: does the packet hold bytes read from the FIFO?
    rest,               \* library: packets that the rest of a data chunk, in the
                        \* scratch buffer, will fill
    in_sysex,           \* library: in_sysex_msg of the writer; in the buffered modes
                        \* as it will be when the FIFO is read
    flushing,           \* library: has ble_midi_tx_flush submitted its work item?
    notifications,      \* library: notifications in the stack
    stream,             \* history: "closed", "open" or "broken" sysex message
    data,               \* history: data bytes of it that the peer gets
    cut,                \* history: those that single message mode cuts off
    sounding,           \* history: the notes of the chord that are on
    end_lost,           \* history: was the end of a sysex message refused?
    interrupted,        \* history: has the last long message found the library not
                        \* ready, or in a sysex message that was not ended?
    upsets              \* history: presses, lost connections and disabled
                        \* notifications, so far, that did not wait until all was sent

buttonVars == <<button_states, button_event_q>>
appVars    == <<sysex_tx_in_progress, sysex_tx_data_byte_count>>
readVars   == <<packet, rest>>
libVars    == <<fifo, in_sysex, notifications>>
history    == <<stream, data, cut, sounding, end_lost>>
vars == <<mode, buttonVars, todo, appVars, state, libVars, readVars, flushing, history,
          interrupted, upsets>>

Buttons == {"chord", "short", "long", "flush"}

Chord == 1 .. 3
Least(m, n) == IF m < n THEN m ELSE n

-----------------------------------------------------------------------------
(* The library.  A call is accepted if there is room: in the FIFO, or in   *)
(* single message mode in a Bluetooth stack that is connected.  held is    *)
(* the number of notifications the stack has when the call is made.        *)

Single == mode = "single"
NOTIF_BUF_COUNT == NotifBufCount[mode]

HasRoom(n, held) == IF Single THEN state = "READY" /\ held < NOTIF_BUF_COUNT
                    ELSE fifo + n <= FIFO_SIZE

Accept(n, held) == /\ notifications' = IF Single THEN held + 1 ELSE held
                   /\ fifo' = IF Single THEN fifo ELSE fifo + n

Refuse(held) == notifications' = held /\ UNCHANGED fifo

(* The writer rejects a call that does not suit its state.  In single      *)
(* message mode an empty packet is then sent; in the others the chunk is   *)
(* removed when it is read, and its room in the FIFO until then is left    *)
(* out here.                                                               *)
Rejected(state_needed) == in_sysex # state_needed

ThreeByteCall(state_needed, held) ==
    IF HasRoom(3, held) /\ (Rejected(state_needed) => Single)
    THEN Accept(3, held)
    ELSE Refuse(held)

(* What the peer makes of it, as long as the use is orderly.               *)
Orderly == upsets = 0

Continue(from, to) == stream' = IF stream = from THEN to ELSE "broken"

ble_midi_tx_msg(k, on) ==
    /\ ThreeByteCall(FALSE, notifications)
    /\ IF Orderly /\ HasRoom(3, notifications) /\ ~Rejected(FALSE)
       THEN /\ Continue("closed", "closed")
            /\ sounding' = IF on THEN sounding \cup {k} ELSE sounding \ {k}
       ELSE UNCHANGED <<stream, sounding>>
    /\ UNCHANGED <<in_sysex, data, cut, end_lost>>

(* The writer of single message mode is in a sysex message from now on,    *)
(* whether the packet is sent or not.                                      *)
ble_midi_tx_sysex_start ==
    /\ in_sysex' = (in_sysex \/ Single \/ HasRoom(3, notifications))
    /\ ThreeByteCall(FALSE, notifications)
    /\ IF Orderly /\ HasRoom(3, notifications) /\ ~Rejected(FALSE)
       THEN Continue("closed", "open")
       ELSE UNCHANGED stream
    /\ UNCHANGED <<data, cut, sounding, end_lost>>

(* expected: how many data bytes the message should have.                  *)
ble_midi_tx_sysex_end(expected, held) ==
    /\ in_sysex' = (in_sysex /\ ~Single /\ ~HasRoom(3, held))
    /\ ThreeByteCall(TRUE, held)
    /\ IF Orderly /\ HasRoom(3, held) /\ ~Rejected(TRUE)
       THEN /\ IF data + cut = expected THEN Continue("open", "closed")
                                        ELSE stream' = "broken"
            /\ data' = 0 /\ cut' = 0
       ELSE UNCHANGED <<stream, data, cut>>
    /\ end_lost' = (end_lost \/ (Orderly /\ ~HasRoom(3, held)))
    /\ UNCHANGED sounding

(* n data bytes were taken from the application.  In single message mode   *)
(* the length given to send_packet leaves out the last of them, and a      *)
(* packet with one of them has no data.  The reader of the FIFO drops data *)
(* outside a sysex message unless the packet is empty.                     *)
SendData(n) ==
    LET lost == IF Single THEN 1 ELSE 0
    IN  /\ \/ /\ Orderly
              /\ IF n > lost THEN Continue("open", "open") ELSE UNCHANGED stream
              /\ data' = Least(data + n - lost, SYSEX_TX_MESSAGE_SIZE + 1)
              /\ cut' = Least(cut + lost, SYSEX_TX_MESSAGE_SIZE + 1)
           \/ /\ ~Orderly \/ (~Single /\ ~in_sysex)
              /\ UNCHANGED <<stream, data, cut>>
        /\ UNCHANGED <<in_sysex, sounding, end_lost>>

(* The data of the short message; the result of the call is ignored.       *)
ShortData ==
    LET n == IF Single THEN SHORT_SIZE ELSE Least(SHORT_SIZE, FIFO_SIZE - fifo - 3)
    IN  IF HasRoom(4, notifications)
        THEN Accept(3 + n, notifications) /\ SendData(n)
        ELSE UNCHANGED <<libVars, history>>

-----------------------------------------------------------------------------
(* Buttons.                                                                *)

(* Everything is sent.                                                     *)
Settled == /\ fifo = 0 /\ ~packet /\ rest = 0 /\ notifications = 0
           /\ todo = <<>> /\ button_event_q = <<>>
           /\ ~sysex_tx_in_progress

(* A user who lets one thing finish before the next.  Buttons 2 and 3 may  *)
(* be released while their message is being sent, and button 4 may be      *)
(* pressed at any time in manual mode.                                     *)
Calm(b) == \/ state = "READY" /\ Settled
           \/ b \in {"short", "long"} /\ button_states[b]
           \/ b = "flush" /\ mode = "manual" /\ state = "READY"

(* Counts what does not wait, up to the bound.  What the peer makes of the *)
(* bytes is not looked at from then on.                                    *)
Usage(waits) ==
    IF waits THEN UNCHANGED <<upsets, history>>
    ELSE /\ upsets < MaxUpsets
         /\ upsets' = upsets + 1
         /\ stream' = "closed" /\ data' = 0 /\ cut' = 0 /\ sounding' = {}
         /\ end_lost' = FALSE

(* The interrupt of a button: an event that finds the queue full is lost.  *)
button_pressed(b) ==
    /\ Usage(Calm(b))
    /\ button_states' = [button_states EXCEPT ![b] = ~@]
    /\ button_event_q' = IF Len(button_event_q) < BUTTON_Q_SIZE
                         THEN Append(button_event_q, <<b, ~button_states[b]>>)
                         ELSE button_event_q
    /\ UNCHANGED <<mode, todo, appVars, state, libVars, readVars, flushing, interrupted>>

(* Faulty: notes are not turned off; a long message is not started; the    *)
(* count of the last one is kept.                                          *)
ProgramNotesOn(b, down) ==
    IF b = "chord" /\ down THEN [k \in Chord |-> <<"msg", k, down>>] ELSE <<>>
ProgramWithoutStart(b, down) ==
    CASE b = "long" /\ down -> <<<<"begin">>, <<"zero">>>>
      [] b = "chord"        -> [k \in Chord |-> <<"msg", k, down>>]
      [] OTHER              -> <<>>
ProgramWithoutReset(b, down) ==
    CASE b = "long" /\ down -> <<<<"begin">>, <<"start">>>>
      [] b = "chord"        -> [k \in Chord |-> <<"msg", k, down>>]
      [] OTHER              -> <<>>

(* The statements for a button event.                                      *)
Program(b, down) ==
    CASE b = "chord"          -> [k \in Chord |-> <<"msg", k, down>>]
      [] b = "short" /\ down  -> <<<<"start">>, <<"data">>, <<"end">>>>
      [] b = "long" /\ down   -> <<<<"begin">>, <<"zero">>, <<"start">>>>
      [] b = "flush" /\ mode = "manual" -> <<<<"flush">>>>
      [] OTHER                -> <<>>

(* Events are dropped while a long message is in progress.                 *)
GetButtonEvent ==
    /\ todo = <<>>
    /\ button_event_q # <<>>
    /\ button_event_q' = Tail(button_event_q)
    /\ todo' = IF sysex_tx_in_progress THEN <<>>
               ELSE Program(Head(button_event_q)[1], Head(button_event_q)[2])
    /\ UNCHANGED <<mode, button_states, appVars, state, libVars, readVars, flushing, history,
                   interrupted, upsets>>

Statement(s) ==
    /\ todo # <<>>
    /\ Head(todo)[1] = s
    /\ todo' = Tail(todo)
    /\ UNCHANGED <<mode, buttonVars, state, readVars, upsets>>

MainCalls ==
    /\ \/ Statement("msg")   /\ ble_midi_tx_msg(Head(todo)[2], Head(todo)[3])
       \/ Statement("start") /\ ble_midi_tx_sysex_start
       \/ Statement("data")  /\ ShortData
       \/ Statement("end")   /\ ble_midi_tx_sysex_end(SHORT_SIZE, notifications)
    /\ UNCHANGED <<appVars, flushing, interrupted>>

MainBegins ==
    /\ Statement("begin")
    /\ sysex_tx_in_progress' = TRUE
    /\ interrupted' = (state # "READY" \/ (~Single /\ in_sysex))
    /\ UNCHANGED <<sysex_tx_data_byte_count, libVars, flushing, history>>

MainZeroes ==
    /\ Statement("zero")
    /\ sysex_tx_data_byte_count' = 0
    /\ UNCHANGED <<sysex_tx_in_progress, libVars, flushing, history, interrupted>>

(* ble_midi_tx_flush: nothing to do without data or without buffers.       *)
MainFlushes ==
    /\ Statement("flush")
    /\ flushing' = ((fifo > 0 \/ packet) /\ notifications < NOTIF_BUF_COUNT)
    /\ UNCHANGED <<appVars, libVars, history, interrupted>>

-----------------------------------------------------------------------------
(* tx_done_cb.                                                             *)

(* Faulty: the size of the whole message is not looked at.                 *)
ChunkAlways(count) == SYSEX_TX_MAX_CHUNK_SIZE
num_bytes_to_send(count) ==
    Least(SYSEX_TX_MESSAGE_SIZE - count, SYSEX_TX_MAX_CHUNK_SIZE)

(* The loop that fills the FIFO: s is the byte count and the fill level.   *)
Fill[s \in (0 .. SYSEX_TX_MESSAGE_SIZE) \X (0 .. FIFO_SIZE)] ==
    LET n == Least(num_bytes_to_send(s[1]), FIFO_SIZE - s[2] - 3)
    IN  IF n <= 0 THEN s ELSE Fill[<<s[1] + n, s[2] + 3 + n>>]

FillFifo ==
    LET filled == Fill[<<sysex_tx_data_byte_count, fifo>>]
        n      == filled[1] - sysex_tx_data_byte_count
    IN  /\ sysex_tx_data_byte_count' = filled[1]
        /\ fifo' = filled[2]
        /\ IF n > 0 THEN SendData(n) ELSE UNCHANGED <<in_sysex, history>>

(* Single message mode adds what ble_midi_tx_sysex_data returns to the     *)
(* count: the bytes in the packet, whose size limits them, or 0 if it      *)
(* could not be sent.  The writer takes the data whatever in_sysex_msg is, *)
(* since its packet is empty.                                              *)
SendChunk(held) ==
    \/ /\ HasRoom(1, held)
       /\ Accept(1, held)
       /\ \E n \in 1 .. num_bytes_to_send(sysex_tx_data_byte_count) :
              /\ sysex_tx_data_byte_count' = sysex_tx_data_byte_count + n
              /\ SendData(n)
    \/ /\ ~HasRoom(1, held)
       /\ Refuse(held)
       /\ UNCHANGED <<sysex_tx_data_byte_count, in_sysex, history>>

PastEnd == sysex_tx_data_byte_count > SYSEX_TX_MESSAGE_SIZE   \* faulty
AllSent == sysex_tx_data_byte_count = SYSEX_TX_MESSAGE_SIZE

TransferDone == sysex_tx_in_progress' = FALSE

(* The stack has sent a notification: on_notify_done calls tx_done_cb.     *)
tx_done_cb ==
    LET held == notifications - 1
    IN  /\ notifications > 0
        /\ \/ /\ ~sysex_tx_in_progress
              /\ Refuse(held)
              /\ UNCHANGED <<appVars, in_sysex, history>>
           \/ /\ sysex_tx_in_progress /\ AllSent
              /\ ble_midi_tx_sysex_end(SYSEX_TX_MESSAGE_SIZE, held)
              /\ TransferDone
              /\ UNCHANGED sysex_tx_data_byte_count
           \/ /\ sysex_tx_in_progress /\ ~AllSent
              /\ IF Single THEN SendChunk(held) ELSE FillFifo /\ notifications' = held
              /\ UNCHANGED sysex_tx_in_progress
        /\ UNCHANGED <<mode, buttonVars, todo, state, readVars, flushing, interrupted, upsets>>

-----------------------------------------------------------------------------
(* The library's work items and the connection.                            *)

(* tx_queue_read_from_fifo leaves level bytes in the FIFO, the packet with *)
(* or without bytes, and left packets of a chunk's rest.  It does nothing  *)
(* if the FIFO is empty, nor if the packet is full, as it is before a      *)
(* rest.  An empty packet takes what is left of a rest; a packet that      *)
(* holds bytes may have no room for more; or else chunks are read: a chunk *)
(* has 3 bytes or more, and one that leaves a rest, 5.                     *)
tx_queue_read_from_fifo(level, holds, left) ==
    IF fifo = 0 \/ (packet /\ rest > 0)
    THEN level = fifo /\ holds = packet /\ left = rest
    ELSE /\ holds = TRUE
         /\ \/ level = fifo /\ rest > 0 /\ left = rest - 1
            \/ level = fifo /\ packet /\ left = 0
            \/ /\ rest <= 1
               /\ level \in {0} \cup 3 .. fifo - 3
               /\ left > 0 => level <= fifo - 5

(* The work item that each accepted call submits, or the one that sends a  *)
(* packet, if the stack does not take it.                                  *)
tx_queue_fifo_work_cb ==
    /\ \E level \in 0 .. fifo, holds \in BOOLEAN, left \in 0 .. MaxRest :
           /\ tx_queue_read_from_fifo(level, holds, left)
           /\ fifo' = level /\ packet' = holds /\ rest' = left
    /\ UNCHANGED <<mode, buttonVars, todo, appVars, state, in_sysex, notifications, flushing,
                   history, interrupted, upsets>>

(* tx_pending_packets_work_cb: the FIFO is read, then the packet is sent.  *)
SendPacket ==
    /\ mode = "manual" => flushing
    /\ state = "READY"
    /\ notifications < NOTIF_BUF_COUNT
    /\ notifications' = notifications + 1
    /\ \E level \in 0 .. fifo, left \in 0 .. MaxRest :
           /\ tx_queue_read_from_fifo(level, TRUE, left)
           /\ fifo' = level /\ rest' = left
    /\ packet' = FALSE
    /\ flushing' = FALSE
    /\ UNCHANGED <<mode, buttonVars, todo, appVars, state, in_sysex, history, interrupted, upsets>>

(* The same work item, without a peer or without anything to send.         *)
SendFails ==
    /\ flushing
    /\ state # "READY" \/ notifications = NOTIF_BUF_COUNT \/ (fifo = 0 /\ ~packet)
    /\ flushing' = FALSE
    /\ UNCHANGED <<mode, buttonVars, todo, appVars, state, libVars, readVars, history,
                   interrupted, upsets>>

ble_midi_ready_cb(s) ==
    /\ state' = s
    /\ UNCHANGED <<mode, buttonVars, todo, appVars>>

(* on_connected.  The stack has reported the notifications of an earlier   *)
(* connection.                                                             *)
Connect ==
    /\ state = "NOT_CONNECTED"
    /\ notifications = 0
    /\ ble_midi_ready_cb("CONNECTED")
    /\ fifo' = 0 /\ packet' = FALSE /\ rest' = 0 /\ in_sysex' = FALSE
    /\ stream' = "closed" /\ data' = 0 /\ cut' = 0 /\ sounding' = {}
    /\ UNCHANGED <<notifications, flushing, end_lost, interrupted, upsets>>

(* midi_ccc_cfg_changed.                                                   *)
NotificationsEnabled ==
    /\ state = "CONNECTED"
    /\ ble_midi_ready_cb("READY")
    /\ UNCHANGED <<libVars, readVars, flushing, history, interrupted, upsets>>

NotificationsDisabled ==
    /\ state = "READY"
    /\ ble_midi_ready_cb("CONNECTED")
    /\ interrupted' = TRUE
    /\ Usage(Settled)
    /\ UNCHANGED <<libVars, readVars, flushing>>

(* on_disconnected.  tx_done_cb is still called for the notifications in   *)
(* the stack.                                                              *)
Disconnect ==
    /\ state # "NOT_CONNECTED"
    /\ ble_midi_ready_cb("NOT_CONNECTED")
    /\ interrupted' = TRUE
    /\ Usage(Settled /\ ~button_states["chord"])
    /\ UNCHANGED <<libVars, readVars, flushing>>

-----------------------------------------------------------------------------
Init ==
    /\ mode \in DOMAIN NotifBufCount
    /\ button_states = [b \in Buttons |-> FALSE]
    /\ button_event_q = <<>> /\ todo = <<>>
    /\ sysex_tx_in_progress = FALSE /\ sysex_tx_data_byte_count = 0
    /\ state = "NOT_CONNECTED"
    /\ fifo = 0 /\ packet = FALSE /\ rest = 0
    /\ in_sysex = FALSE /\ notifications = 0 /\ flushing = FALSE
    /\ stream = "closed" /\ data = 0 /\ cut = 0 /\ sounding = {} /\ end_lost = FALSE
    /\ interrupted = FALSE /\ upsets = 0

(* Button 4 is looked at in manual mode only, and not pressed in others.   *)
Pressable == IF mode = "manual" THEN Buttons ELSE Buttons \ {"flush"}

MainLoop == GetButtonEvent \/ MainCalls \/ MainBegins \/ MainZeroes \/ MainFlushes

Next ==
    \/ \E b \in Pressable : button_pressed(b)
    \/ MainLoop
    \/ tx_done_cb
    \/ tx_queue_fifo_work_cb
    \/ SendPacket
    \/ SendFails
    \/ Connect
    \/ NotificationsEnabled
    \/ NotificationsDisabled
    \/ Disconnect

(* The main loop runs, connection events come, and the stack reports what  *)
(* it has sent.  No button need be pressed, and no peer need connect or    *)
(* enable notifications.                                                   *)
Fairness == WF_vars(MainLoop) /\ WF_vars(tx_done_cb) /\ WF_vars(SendPacket)

Spec == Init /\ [][Next]_vars /\ Fairness

-----------------------------------------------------------------------------
(* SysexWellFormed: start, data and end of sysex messages come in order,   *)
(* nothing else comes in between, and the messages have all their bytes    *)
(* (in single message mode all but the last of each data packet), although *)
(* the main loop starts the long message and tx_done_cb continues and ends *)
(* it; also after a connection that was lost, or notifications that were   *)
(* disabled, while nothing was being sent.  Until an end finds the FIFO    *)
(* full and is lost.                                                       *)
SysexWellFormed == Orderly /\ ~end_lost => stream # "broken"

(* CountInRange: the byte count of the long message never passes its size, *)
(* so that the comparison in tx_done_cb that ends the message is met,      *)
(* whatever buttons are pressed, and whenever the connection is lost or    *)
(* notifications are disabled.                                             *)
CountInRange == sysex_tx_data_byte_count \in 0 .. SYSEX_TX_MESSAGE_SIZE

(* TransferEnds: a long message does not stay in progress for ever, which  *)
(* would disable all the buttons, even if tx_done_cb comes between the     *)
(* statements that begin it or its end is lost; unless the library is not  *)
(* ready when it begins, the connection is lost, notifications are         *)
(* disabled, or an earlier message was not ended, so that the writer       *)
(* rejects the start.  Not so in manual mode, where button 4 is one of the *)
(* buttons it disables.                                                    *)
TransferEnds == (sysex_tx_in_progress /\ mode # "manual")
                    ~> (~sysex_tx_in_progress \/ interrupted)

(* SysexEnds: a sysex message that was started is ended, unless, in        *)
(* buffered mode, its end finds the FIFO full.                             *)
SysexEnds == (stream = "open" /\ mode # "manual")
                 ~> (stream = "closed" \/ ~Orderly \/ (mode = "buffered" /\ end_lost))

(* NotesFollowButton: once the events of the buttons are handled and no    *)
(* long message is in progress, the notes of the chord are on exactly if   *)
(* button 1 is down.                                                       *)
NotesFollowButton ==
    /\ Orderly /\ ~end_lost
    /\ todo = <<>> /\ button_event_q = <<>> /\ ~sysex_tx_in_progress
    => sounding = IF button_states["chord"] THEN Chord ELSE {}
=============================================================================
