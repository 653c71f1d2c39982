---------------------------- MODULE SampleAppRx ----------------------------
(***************************************************************************)
(* The receive side of the sample application, src/main.c: the callbacks   *)
(* for parsed MIDI events, the ring buffer of messages and the work item   *)
(* that logs them.                                                         *)
(*                                                                         *)
(* midi_write_cb parses a whole packet in the Bluetooth thread, which is   *)
(* cooperative and comes before the system work queue: the callbacks of a  *)
(* packet, and those of the next one if it has arrived, run before the     *)
(* work handler does.                                                      *)
(***************************************************************************)
EXTENDS Integers, Sequences

CONSTANTS
    RINGBUF_MESSAGES,   \* messages in midi_msg_ringbuf (128 bytes, 4 each: 32)
    Packets,            \* the packets of the peer, as sequences of MIDI events
    MaxSysexBytes       \* bound: sysex data bytes received

ASSUME RxConstants ==
    /\ {RINGBUF_MESSAGES, MaxSysexBytes} \subseteq Nat \ {0}
    /\ Packets \subseteq Seq({"msg", "start", "data", "end"})

VARIABLES
    events,                    \* events of the packet still to be parsed
    ring,                      \* messages in the ring buffer
    work,                      \* midi_msg_work: "idle", "queued" or "running"
    sysex_rx_data_byte_count,  \* data bytes of all messages: it is never reset
    asserted                   \* has an __ASSERT failed?

rxVars == <<events, ring, work, sysex_rx_data_byte_count, asserted>>

RxInit ==
    /\ events = <<>> /\ ring = 0 /\ work = "idle"
    /\ sysex_rx_data_byte_count = 0 /\ asserted = FALSE

-----------------------------------------------------------------------------
(* A packet arrives.                                                       *)
midi_write_cb(p) ==
    /\ events = <<>>
    /\ work # "running"
    /\ sysex_rx_data_byte_count + Len(p) <= MaxSysexBytes
    /\ events' = p
    /\ UNCHANGED <<ring, work, sysex_rx_data_byte_count, asserted>>

Event(e) == /\ events # <<>>
            /\ Head(events) = e
            /\ events' = Tail(events)

(* k_work_submit.  A message that finds the ring buffer full fails the     *)
(* assertion, or is dropped where assertions are disabled.                 *)
ble_midi_message_cb ==
    /\ Event("msg")
    /\ asserted' = (asserted \/ ring = RINGBUF_MESSAGES)
    /\ ring' = IF ring < RINGBUF_MESSAGES THEN ring + 1 ELSE ring
    /\ work' = "queued"
    /\ UNCHANGED sysex_rx_data_byte_count

(* The start and the end of a sysex message are only logged.               *)
ble_midi_sysex_start_end_cb ==
    /\ Event("start") \/ Event("end")
    /\ UNCHANGED <<ring, work, sysex_rx_data_byte_count, asserted>>

ble_midi_sysex_data_cb ==
    /\ Event("data")
    /\ sysex_rx_data_byte_count' = sysex_rx_data_byte_count + 1
    /\ UNCHANGED <<ring, work, asserted>>

-----------------------------------------------------------------------------
(* midi_msg_work_cb, one message at a time.                                *)

StartWork ==
    /\ events = <<>>
    /\ work = "queued"
    /\ work' = "running"
    /\ UNCHANGED <<events, ring, sysex_rx_data_byte_count, asserted>>

(* Faulty: one message for each time the work is done.                     *)
ReadsOne == "idle"
ReadsAll == "running"

LogMessage ==
    /\ work = "running"
    /\ ring > 0
    /\ ring' = ring - 1
    /\ work' = ReadsAll
    /\ UNCHANGED <<events, sysex_rx_data_byte_count, asserted>>

EndWork ==
    /\ work = "running"
    /\ ring = 0
    /\ work' = "idle"
    /\ UNCHANGED <<events, ring, sysex_rx_data_byte_count, asserted>>

midi_msg_work_cb == StartWork \/ LogMessage \/ EndWork

Callbacks == \/ ble_midi_message_cb
             \/ ble_midi_sysex_start_end_cb
             \/ ble_midi_sysex_data_cb

RxNext == (\E p \in Packets : midi_write_cb(p)) \/ Callbacks \/ midi_msg_work_cb

(* The work queue gets the processor between packets again and again.      *)
RxFairness == WF_rxVars(Callbacks) /\ SF_rxVars(midi_msg_work_cb)

-----------------------------------------------------------------------------
(* MessagesLogged: midi_msg_work_cb empties the ring buffer again and      *)
(* again: no message waits for the next one to arrive, although the work   *)
(* is submitted once for several messages.                                 *)
MessagesLogged == (ring > 0) ~> (ring = 0)
=============================================================================
