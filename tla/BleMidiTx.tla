----------------------------- MODULE BleMidiTx -----------------------------
(***************************************************************************)
(* The buffered transmit path of ble_midi/src/ble_midi.c around the queue  *)
(* of TxQueue: the API calls of the application, the two work items of the *)
(* system work queue, the connection event handler and the Bluetooth       *)
(* callbacks.                                                              *)
(*                                                                         *)
(* Threads.  The work queue and the Bluetooth callbacks run in cooperative *)
(* threads: a work handler or a callback is never interrupted by another   *)
(* or by the application, which runs in a preemptible thread and can be    *)
(* interrupted between any two of its steps.  radio_notif_handler runs in  *)
(* an interrupt and may come at any time.                                  *)
(***************************************************************************)
EXTENDS TxQueue

CONSTANTS
    NOTIF_BUF_COUNT,       \* notifications the Bluetooth stack can hold
    StackReportsDropped,   \* are the notifications that a disconnection drops
                           \* reported to on_notify_done?
    MaxCalls,              \* bound: API calls of the application
    MaxConnections         \* bound: connections after the first one

ASSUME TxConstants ==
    /\ NOTIF_BUF_COUNT \in Nat \ {0}
    /\ StackReportsDropped \in BOOLEAN
    /\ MaxCalls \in Nat
    /\ MaxConnections \in Nat

VARIABLES
    manual,       \* CONFIG_BLE_MIDI_TX_MODE_MANUAL, either way
    app,          \* next step of the API call in progress
    pending_tx_queue_fifo_work_count,
    workq,        \* the work items submitted and not started, oldest first
    handler,      \* the work item whose handler runs, or "none"
    waiting_for_notif_buf,
    notifications,  \* sent and not reported done by the Bluetooth stack
    connected,
    calls, connections

appVars  == <<manual, app, calls>>
workVars == <<pending_tx_queue_fifo_work_count, workq, handler>>
btVars   == <<waiting_for_notif_buf, notifications, connected, connections>>
txVars   == <<vars, appVars, workVars, btVars>>

TxTypeOK ==
    /\ TypeOK
    /\ manual \in BOOLEAN
    /\ app \in {"idle", "data", "inc", "submit"}
    /\ pending_tx_queue_fifo_work_count \in Int
    /\ workq \in {<<>>, <<"fifo">>, <<"tx">>, <<"fifo", "tx">>, <<"tx", "fifo">>}
    /\ handler \in {"none", "fifo", "tx"}
    /\ waiting_for_notif_buf \in BOOLEAN
    /\ notifications \in 0 .. NOTIF_BUF_COUNT
    /\ connected \in BOOLEAN
    /\ calls \in 0 .. MaxCalls
    /\ connections \in 0 .. MaxConnections

-----------------------------------------------------------------------------
(* k_work_submit: an item that is already queued is not queued again; one  *)
(* whose handler is running is.                                            *)
Queued(item)   == \E i \in 1 .. Len(workq) : workq[i] = item
Submit(item)   == IF Queued(item) THEN workq ELSE Append(workq, item)

(* The first connection has just been made: on_mtu_changed has written the *)
(* packet size and submitted the FIFO work.                                *)
TxInit ==
    /\ Init
    /\ manual \in BOOLEAN
    /\ app = "idle"
    /\ pending_tx_queue_fifo_work_count = 1
    /\ workq = <<"fifo">>
    /\ handler = "none"
    /\ waiting_for_notif_buf = FALSE
    /\ notifications = 0
    /\ connected = TRUE
    /\ calls = 0
    /\ connections = 0

-----------------------------------------------------------------------------
(* The API calls.  ble_midi.h: only transmit when the peer is ready.  A    *)
(* call that finds the FIFO full changes nothing.                          *)

BeginCall(next) ==
    /\ handler = "none"
    /\ connected
    /\ app = "idle"
    /\ calls < MaxCalls
    /\ calls' = calls + 1
    /\ app' = next
    /\ UNCHANGED <<manual, workVars, btVars>>

ble_midi_tx_msg(m)      == BeginCall("inc") /\ tx_queue_fifo_add_msg(m)
ble_midi_tx_sysex_start == BeginCall("inc") /\ tx_queue_fifo_add_sysex_start
ble_midi_tx_sysex_end   == BeginCall("inc") /\ tx_queue_fifo_add_sysex_end
ble_midi_tx_sysex_data(d) == BeginCall("data") /\ WriteSysexDataHeader(d)

(* The second write of tx_queue_fifo_add_sysex_data.                       *)
AppWritesData ==
    /\ handler = "none"
    /\ app = "data"
    /\ WriteSysexDataBytes
    /\ app' = "inc"
    /\ UNCHANGED <<manual, calls, workVars, btVars>>

(* submit_tx_queue_fifo_work: atomic_inc, then k_work_submit.              *)
AppIncrements ==
    /\ handler = "none"
    /\ app = "inc"
    /\ pending_tx_queue_fifo_work_count' = pending_tx_queue_fifo_work_count + 1
    /\ app' = "submit"
    /\ UNCHANGED <<vars, manual, calls, workq, handler, btVars>>

AppSubmits ==
    /\ handler = "none"
    /\ app = "submit"
    /\ workq' = Submit("fifo")
    /\ app' = "idle"
    /\ UNCHANGED <<vars, manual, calls, pending_tx_queue_fifo_work_count, handler, btVars>>

-----------------------------------------------------------------------------
(* The system work queue.                                                  *)

StartHandler(item) ==
    /\ handler = "none"
    /\ workq # <<>>
    /\ Head(workq) = item
    /\ workq' = Tail(workq)
    /\ handler' = item
    /\ ReadStart
    /\ UNCHANGED <<appVars, pending_tx_queue_fifo_work_count, btVars>>

(* Both handlers begin with tx_queue_read_from_fifo.                       *)
HandlerReads ==
    /\ handler # "none"
    /\ ReaderStep
    /\ UNCHANGED <<appVars, workVars, btVars>>

(* The rest of tx_queue_fifo_work_cb.                                      *)
tx_queue_fifo_work_cb ==
    /\ handler = "fifo"
    /\ reader = "idle"
    /\ workq' = IF pending_tx_queue_fifo_work_count > 1 THEN Submit("fifo") ELSE workq
    /\ pending_tx_queue_fifo_work_count' = pending_tx_queue_fifo_work_count - 1
    /\ handler' = "none"
    /\ UNCHANGED <<vars, appVars, btVars>>

(* The send loop of tx_pending_packets_work_cb, one packet at a time.      *)
Sending == handler = "tx" /\ reader = "idle"

SendPacket ==
    /\ Sending
    /\ connected
    /\ notifications < NOTIF_BUF_COUNT
    /\ tx_queue_on_tx_packet_sent
    /\ notifications' = notifications + 1
    /\ UNCHANGED <<appVars, workVars, waiting_for_notif_buf, connected, connections>>

(* send_packet returned -ENOMEM.                                           *)
SendFindsNoBuffer ==
    /\ Sending
    /\ has_tx_data
    /\ connected
    /\ notifications = NOTIF_BUF_COUNT
    /\ waiting_for_notif_buf' = TRUE
    /\ handler' = "none"
    /\ UNCHANGED <<vars, appVars, pending_tx_queue_fifo_work_count, workq,
                   notifications, connected, connections>>

(* send_packet returned another error: the packet stays where it is.       *)
SendFails ==
    /\ Sending
    /\ has_tx_data
    /\ ~connected
    /\ handler' = "none"
    /\ UNCHANGED <<vars, appVars, pending_tx_queue_fifo_work_count, workq, btVars>>

NothingToSend ==
    /\ Sending
    /\ ~has_tx_data
    /\ handler' = "none"
    /\ UNCHANGED <<vars, appVars, pending_tx_queue_fifo_work_count, workq, btVars>>

-----------------------------------------------------------------------------
(* Is there something to transmit?                                         *)
OnlyFifoChecked == fifo # <<>>   \* faulty: the packets are forgotten
SomethingToSend == has_tx_data \/ fifo # <<>>

radio_notif_handler ==
    /\ ~waiting_for_notif_buf
    /\ SomethingToSend
    /\ workq' = Submit("tx")
    /\ UNCHANGED <<vars, appVars, pending_tx_queue_fifo_work_count, handler, btVars>>

(* The interrupt before each connection event, while connected.            *)
ConnectionEvent ==
    /\ ~manual
    /\ connected
    /\ radio_notif_handler

(* In manual mode the application calls the handler, between other calls.  *)
ble_midi_tx_flush ==
    /\ manual
    /\ handler = "none"
    /\ app = "idle"
    /\ radio_notif_handler

(* Faulty: the bit is not cleared.                                         *)
NotifyDoneKeepsWaiting ==
    /\ handler = "none"
    /\ notifications > 0
    /\ notifications' = notifications - 1
    /\ UNCHANGED <<vars, appVars, workVars, waiting_for_notif_buf, connected,
                   connections>>

(* The Bluetooth stack has sent a notification.                            *)
on_notify_done ==
    /\ handler = "none"
    /\ notifications > 0
    /\ notifications' = notifications - 1
    /\ waiting_for_notif_buf' = FALSE
    /\ UNCHANGED <<vars, appVars, workVars, connected, connections>>

on_mtu_changed(m) ==
    /\ handler = "none"
    /\ connected
    /\ m # mtu
    /\ MtuChanged(m)
    /\ pending_tx_queue_fifo_work_count' = pending_tx_queue_fifo_work_count + 1
    /\ workq' = Submit("fifo")
    /\ UNCHANGED <<appVars, handler, btVars>>

(* The notifications in the stack are dropped.                             *)
on_disconnected ==
    /\ handler = "none"
    /\ connected
    /\ connected' = FALSE
    /\ notifications' = 0
    /\ waiting_for_notif_buf' =
           (waiting_for_notif_buf /\ ~(StackReportsDropped /\ notifications > 0))
    /\ UNCHANGED <<vars, appVars, workVars, connections>>

(* ble_midi_context_reset, then on_mtu_changed.                            *)
on_connected(m) ==
    /\ handler = "none"
    /\ ~connected
    /\ connections < MaxConnections
    /\ connections' = connections + 1
    /\ connected' = TRUE
    /\ Connected(m)
    /\ pending_tx_queue_fifo_work_count' = 1
    /\ workq' = Submit("fifo")
    /\ UNCHANGED <<appVars, handler, waiting_for_notif_buf, notifications>>

-----------------------------------------------------------------------------
ApiCall ==
    \/ \E m \in Messages : ble_midi_tx_msg(m)
    \/ ble_midi_tx_sysex_start
    \/ ble_midi_tx_sysex_end
    \/ \E d \in SysexData : ble_midi_tx_sysex_data(d)

AppStep == AppWritesData \/ AppIncrements \/ AppSubmits

WorkQueueStep ==
    \/ \E item \in {"fifo", "tx"} : StartHandler(item)
    \/ HandlerReads
    \/ tx_queue_fifo_work_cb
    \/ SendPacket
    \/ SendFindsNoBuffer
    \/ SendFails
    \/ NothingToSend

TxNext ==
    \/ ApiCall
    \/ AppStep
    \/ WorkQueueStep
    \/ ConnectionEvent
    \/ ble_midi_tx_flush
    \/ on_notify_done
    \/ \E m \in Mtus : on_mtu_changed(m)
    \/ on_disconnected
    \/ \E m \in Mtus : on_connected(m)

(* Work handlers are short and connection events are milliseconds apart,   *)
(* so that the application and the Bluetooth threads get the processor     *)
(* again and again between handlers (strong fairness); the work queue runs *)
(* while it has work, and connection events keep coming.  In manual mode   *)
(* the application calls ble_midi_tx_flush again and again.                *)
Fairness ==
    /\ SF_txVars(AppStep)
    /\ SF_txVars(on_notify_done)
    /\ WF_txVars(WorkQueueStep)
    /\ WF_txVars(ConnectionEvent)
    /\ SF_txVars(ble_midi_tx_flush)

TxSpec     == TxInit /\ [][TxNext]_txVars
TxFairSpec == TxSpec /\ Fairness

-----------------------------------------------------------------------------
(* WaitingHasWakeup: while waiting_for_notif_buf keeps radio_notif_handler *)
(* from sending, the Bluetooth stack still has a notification to report to *)
(* on_notify_done, the only place that clears the bit.                     *)
WaitingHasWakeup == waiting_for_notif_buf => notifications > 0

(* EventuallySent: while the connection lasts, everything in the FIFO and  *)
(* in the packets is eventually sent, also when the stack runs out of      *)
(* notification buffers and tx_pending_packets_work_cb has to retry.       *)
EventuallySent ==
    (connected /\ (fifo # <<>> \/ HeldInOrder # <<>>))
        ~> (~connected \/ (fifo = <<>> /\ HeldInOrder = <<>>))

(* The MIDI bytes accepted and not sent: in the packets, of the chunk that *)
(* is being moved to them, and in the FIFO.  While bytes of a chunk move,  *)
(* num_bytes_added of them are in packets already.                         *)
ChunkPayload(c) == IF Valid(c) THEN Payload(c) ELSE <<>>
Moved   == IF reader \in {"chunk", "rest"} THEN num_bytes_added ELSE 0
Unmoved == RestOfChunk \o FlattenSeq([i \in DOMAIN fifo |-> ChunkPayload(fifo[i])])
Pending == HeldInOrder \o SubSeq(Unmoved, Moved + 1, Len(Unmoved))

Units == Messages
         \cup {<<SYSEX_START, 0, 0>>, <<SYSEX_END, 0, 0>>}
         \cup UNION {{SubSeq(d, 1, n) : n \in 1 .. Len(d)} : d \in SysexData}

Stream == INSTANCE MidiStream WITH pending <- Pending, connection <- connections

(* IsMidiStream: from the API call to the notification, through the FIFO,  *)
(* the scratch buffer and the packets, the transmit path is a stream of    *)
(* MIDI bytes: nothing accepted is lost, duplicated or reordered until the *)
(* connection after the next disconnection, whichever threads interleave   *)
(* and however often a notification has to be retried.                     *)
IsMidiStream == Stream!StreamSpec
=============================================================================
