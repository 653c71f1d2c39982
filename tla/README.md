# A TLA+ model of zephyr-ble-midi

zephyr-ble-midi implements the BLE MIDI service for Zephyr devices: it encodes MIDI
messages into Bluetooth LE notifications and decodes the packets it receives. This
directory holds TLA+ modules translated from its C code, TLC configurations that check
them on small instances, and TLAPS proofs of the properties that do not depend on an
instance. The models cover the library, from an API call to the hand-over of a packet to
the Bluetooth stack and from a received packet to the callbacks, and the sample
application.

## The system

| Component | Code | State | Operations | Correct when |
|---|---|---|---|---|
| packet writer | `ble_midi/src/ble_midi_packet.c:137-415` | bytes of one packet, size limit, running status, last timestamp, `in_sysex_msg` | init, reset, add message, whole sysex message, sysex start, data, end | the packet never exceeds its limit; a rejected call changes nothing |
| packet parser | `ble_midi_packet.c:417-657` | parser state, timestamp, running status | parse one packet, callbacks for each message | it reads back what the writer wrote; it never reads outside the packet |
| transmit queue | `ble_midi/src/tx_queue.c` | FIFO of chunks, ring of writers, scratch buffer for one sysex chunk, `has_tx_data` | write a chunk, read chunks into packets, remove a sent packet | valid bytes leave in order, none lost or doubled; reading ends; `has_tx_data` tells the truth |
| transmit path | `ble_midi/src/ble_midi.c:109-230` and the `ble_midi_tx_*` calls | two work items, `pending_tx_queue_fifo_work_count`, `waiting_for_notif_buf` | API calls, work handlers, connection event handler, completion callback | what was accepted is eventually sent |
| FIFO | Zephyr `ring_buf` behind callbacks in `ble_midi.c` | bytes | peek, read, write, clear | each chunk is read as it was written |
| single message mode | `ble_midi.c:423-497` with `CONFIG_BLE_MIDI_TX_MODE_SINGLE_MSG` | one writer | one packet per call | a call's error leaves no half packet |
| service, ready state | `ble_midi.c:18-107, 248-420, 512-527`, `ble_midi_context.c` | registration, `ready_state` | init, CCC, MTU, connection callbacks | the client sees ready exactly while it may send |
| connection event trigger | `ble_midi/src/conn_event_trigger*.c` | timer, interrupt set-up, interval in use | enable, disable, refresh interval, event and timer interrupts | one call of `radio_notif_handler` before each connection event |
| sample application | `src/main.c` | buttons and their event queue, progress of the long sysex message, ring buffer of received messages | button interrupt, main loop, `tx_done_cb`, receive callbacks, logging work item | messages are whole and transfers end; what is received is logged |

How they interact. The application calls `ble_midi_tx_*` in its own, preemptible thread.
In the buffered modes a call writes a chunk to the FIFO, increments a counter and submits
a work item; the system work queue runs `tx_queue_fifo_work_cb`, which moves chunks from
the FIFO to packets. Before each connection event an interrupt calls
`radio_notif_handler`, which submits a second work item, `tx_pending_packets_work_cb`, if
there is something to send and no notification buffer is awaited; that handler reads the
FIFO again and sends packets until there are none or the stack returns `-ENOMEM`. The
stack reports each notification to `on_notify_done`. MTU callbacks write a size chunk to
the same FIFO; `on_connected` resets everything but the bit `waiting_for_notif_buf` and
the scratch buffer.

What is hard here:

* sysex messages cross packet boundaries at any offset, and the writer keeps
  `in_sysex_msg` per packet;
* a chunk of sysex data is written to the FIFO in two steps and read in several;
* the packet size limit travels through the FIFO and arrives late, or never;
* two work items coalesce, and the counter and the submission are two steps;
* sending stops when buffers run out, and must be woken by a callback, also across
  disconnections;
* writer and parser leave out what the other side can infer (status bytes, high bits of
  timestamps, the sysex state of a packet) and have to infer the same;
* the Bluetooth host calls back in several orders: notifications may be enabled before
  `on_connected`, and the service may come and go during a connection;
* the connection interval changes before the code is told;
* the sample application's main loop and its callbacks share the state of a transfer.

`PROJECT.json` lists these hazards one by one, at the line where each bites.

## The modules

| Module | Models |
|---|---|
| `BleMidiWriter` | the packet writer, at byte level: pure operators from a writer record to a writer record and an error code |
| `BleMidiParser` (extends `BleMidiWriter`) | the packet parser, at byte level: an operator from a packet to the callbacks made and the error code |
| `BleMidiRoundTrip` (extends `BleMidiParser`) | a client that writes packets and a peer that parses them |
| `SingleMsgTx` (extends `BleMidiParser`) | the transmit calls in single message mode, and a peer that parses |
| `TxQueue` (extends `BleMidiWriter`) | the transmit queue as a state machine, on a FIFO of chunks |
| `TxFifo` | that FIFO at byte level, with its producers and the reader's side of it |
| `ChunkFifo` | abstract: a queue of whole chunks; `TxFifo` implements it |
| `BleMidiTx` (extends `TxQueue`) | application, work queue, interrupt and Bluetooth callbacks around the queue |
| `MidiStream` | abstract: a stream of MIDI bytes per connection; `BleMidiTx` implements it |
| `BleMidiService` | initialization, registration, CCC, MTU and connection callbacks, ready state |
| `ConnEventTrigger` | event trigger, timer and connection interval, in discrete time |
| `SampleApp` | buttons, main loop and `tx_done_cb` of the sample application, on a reduced library |
| `SampleAppRx` | its receive callbacks and logging |
| `MC...` | messages, sysex data and packets for TLC; `MCSampleApp` puts the two sides of the sample application side by side |
| `BleMidiPacketProofs` (extends `BleMidiParser`) | lemmas about the writer, about the parser, and about both |
| `BleMidiRoundTripProofs` (extends `BleMidiRoundTrip`, `BleMidiPacketProofs`) | packets are decoded to what was written |
| `SingleMsgTxProofs` (extends `SingleMsgTx`, `BleMidiPacketProofs`) | what the peer hears in single message mode |
| `TxFifoProofs` (extends `TxFifo`) | the FIFO's bytes implement `ChunkFifo` |
| `BleMidiTxProofs` (extends `BleMidiTx`, `BleMidiPacketProofs`) | the queue: types, packets fit the MTU, the stream is preserved, and `has_tx_data` is right; the transmit path: it uses the queue as specified, is woken up, and implements `MidiStream` |
| `BleMidiServiceProofs` | the ready state |
| `ConnEventTriggerProofs` | calls before connection events |
| `SampleAppProofs` | the sample application's transmissions |

**BleMidiWriter.** A writer is a record with the fields of `struct ble_midi_writer_t`;
`tx_buf_size` is the length of `tx_buf`. Each C function that changes a writer is an
operator of the same name. The comparison of a signed and an unsigned number in
`ble_midi_writer_add_sysex_data` (line 408) is kept: a packet already over its limit
takes every byte (`NumDataBytesToAdd`).

**TxQueue.** The FIFO is a sequence of chunks with a count of free bytes. A three byte
chunk is one step of the producer; a sysex data chunk is two, as in the code, and a reader
that comes in between finds a header without data. `tx_queue_read_from_fifo` is a loop in
which each iteration is a step: `reader` is `"loop"` at its head, `"chunk"` or `"rest"`
inside `add_data_bytes_to_tx_packet`, which is itself a loop over packets. 16 bit counts
are encoded in two bytes and decoded again. The variables `held`, `outstanding`, `open`
and `mtu`, and the field `open` of a chunk, are history: the code has no counterpart and
no guard of the code's own reads them (a client sends sysex data only inside a sysex
message, which is a rule for the client).

| Variable | Code |
|---|---|
| `fifo`, `fifo_free_space` | the ring buffer |
| `writing` | the data that `tx_queue_fifo_add_sysex_data` has still to write |
| `tx_packets` ... `curr_sysex_data_chunk_size` | fields of `struct tx_queue` |
| `sysex_chunk_scratch_buf` | the static array of that name |
| `reader`, `num_bytes_added` | program counter and local variable of the reader |

Actions: `tx_queue_fifo_add_msg`, `_sysex_start`, `_sysex_end`, `WriteSysexDataHeader`
then `WriteSysexDataBytes`; `MtuChanged` and `Connected`, the effect of the Bluetooth
callbacks on the queue; `ReadStart`, `ReadEmpty`, `ReadSizeChunk`,
`add_3_byte_chunk_to_tx_packet`, `ReadDataChunk`, `ReadRest`, `AddDataBytes`,
`RejectDataBytes`, the cases of a loop iteration; `tx_queue_on_tx_packet_sent`.

**BleMidiTx.** Work queue and Bluetooth callbacks run in cooperative threads of Zephyr, so
that a handler or callback is not interrupted by another thread; the variable `handler`
is the one that runs. The application can lose the processor between the FIFO write, the
increment and the submission (`app`). `radio_notif_handler` is an interrupt and may come
at any step, inside a handler too. `workq` follows `k_work_submit`: an item already
queued is not queued twice, one that is running is queued again. `bt_gatt_notify_cb`
takes a buffer, fails with `-ENOMEM` when all `NOTIF_BUF_COUNT` are in use, and fails
otherwise when not connected. The application uses the API from one context at a time;
under that rule API calls made from `tx_done_cb` are a special case of the interleavings
modelled. `StackReportsDropped` says whether the stack calls
`on_notify_done` for the notifications a disconnection drops.

In manual mode (`manual`, either way in the initial states) there is no interrupt, and the
application calls the handler through `ble_midi_tx_flush`.

**BleMidiParser.** `ParserOf` is `struct ble_midi_parser_t` with the local variables of
`ble_midi_parse_packet`; each read goes through `ble_midi_parser_read`, an operator that is
given what to do with the bytes. One call of `ParseStep` is one iteration of the loop, and
a recursive function counts the iterations. Where the C code would read outside of its
packet (the comparison in `ble_midi_parser_read` is unsigned) the result is the code
`UNDEFINED`. `BleMidiRoundTrip` keeps the client to the rules of `ble_midi_packet.h` and
compares, at every moment, what was written with the callbacks that parsing the packet
makes. The history variable `cases` notes when a packet runs into one of the three
situations in which they differ.

**SingleMsgTx.** One action per API call; the stack may refuse the packet. `said` is what
the call reported as transmitted, `heard` what the peer's callbacks get; `outside` is
history: was the writer outside a sysex message when the call was made?

**TxFifo** refines the FIFO that `TxQueue` takes as a sequence of chunks: bytes in a ring
buffer, the chunk layout, header and data written in two steps, `peek` and `read` with the
stale bytes that a short `peek` leaves in the reader's buffer. `WholeChunks` maps the bytes to the
queue of `ChunkFifo`; a chunk whose data is missing is not in it yet. `CallbackPreempts`
lets a Bluetooth callback come between the two writes.

**BleMidiTx implements MidiStream.** `Pending` maps the state to the bytes accepted and not
sent: the content of the packets, the rest of a chunk in the scratch buffer, the valid
chunks of the FIFO, less the bytes of the current chunk that are already in a packet.
Every step of the code must be a call that adds its bytes at the end, a notification that
takes bytes from the front, a reconnection, or a step that changes nothing of it.

**BleMidiService.** The link, the CCC value and the MTU belong to the host, which delivers
`on_connected` some time after the link is there and clears the CCC, with a callback, before
it reports a disconnection. Notifications may be enabled before `on_connected` (the code
mentions macOS). The queue is reduced to whether it is empty, holds data of this link, or
of an earlier one. Failed connections, a second `ble_midi_init` and a service that is
unregistered may come at any time; the history variable `odd` notes them until a
disconnection that the library notices. A new packet size may be lost if there is something
in the queue, since the FIFO may then be full (`att_mtu_updated_cb`). `asserts` is
`CONFIG_ASSERT`, either way: where it is set, `timer_init` on a timer that is initialized
already fails its assertion in the middle of `on_connected`, and the program halts
(`halted`); where it is not, the error is logged and `on_connected` goes on.

**ConnEventTrigger.** Time advances in steps; events and timers that are due come first.
The controller may change the interval at an event; the host reports it later
(`le_param_updated`). `on_connected` sets the trigger first and reads the interval
afterwards, and an event may come in between.

**SampleApp.** `todo` holds the statements of the main loop still to execute, so that
callbacks come between any two of them. The library is reduced to what decides about the
calls and the callbacks: the fill level of its FIFO, whether the packet holds bytes, how many
packets the rest of a chunk in the scratch buffer will fill, the writer's `in_sysex_msg`,
and the notifications in the stack. What a call of `tx_queue_read_from_fifo` takes from the
FIFO depends on bytes that are abstracted; the operator of that name allows every outcome
that the sizes of chunks allow. A call that the writer rejects takes no room in the FIFO
here (in the code its chunk does until it is read). In single message mode a data call
first empties the packet, so that the writer takes the data whatever `in_sysex_msg` is, and
the packet is sent without its last byte: `data` counts the bytes the peer gets, `cut` those
cut off. The peer may disable notifications and enable them again. As in the runs of `BleMidiTx`,
the stack still calls `tx_done_cb` for the notifications that a disconnection drops.

Buttons may be pressed, the connection may be lost and notifications may be disabled at any
time; `upsets` counts how often that did not wait until everything was sent, and
`MaxUpsets` bounds it. The program is followed after an upset, but what the peer makes of the
bytes (`stream`, `data`, `cut`, `sounding`, `end_lost`) is not. `end_lost` notes that a sysex
end found no room, `interrupted` that the long message begun last met a library that was
not ready, or in a sysex message that was not ended, or that the connection or the
notifications went away since.

**SampleAppRx.** The callbacks of a packet run without interruption, before the work item
that they submit.

Definitions whose comment begins with "faulty" (`FitsAlmost`, `DataOffsetOfChunk` and so
on) are used nowhere: each is a plausible mistake in the definition that follows it, and
`PROJECT.json` names the property that must fail when it takes that definition's place.

## What the runs show

Runs that pass:

| Run | Instance | Holds |
|---|---|---|
| `txqueue_one_packet` | 1 packet of 6 bytes, FIFO of 9, MTU 8 then 9, note, clock, valid and invalid sysex data, producer interrupts the reader anywhere | `TypeOK`, `StreamPreserved`, `PacketsFit`, `HasDataMeansPacket` |
| `txqueue_ring_of_packets` | 3 packets of up to 7 bytes, FIFO of 6, no sysex, running status, two timestamps | `StreamPreserved`, `PacketsFit`, `HasDataMeansPacket` |
| `tx_stream` | the whole path in both buffered modes, 3 calls, 1 notification buffer, MTU 8 and 9, one reconnection | `TxTypeOK`, `WaitingHasWakeup`, `IsMidiStream`: the path implements `MidiStream` |
| `tx_eventually_sent` | the whole path in both buffered modes, 3 calls, invalid sysex data too, fairness | `EventuallySent`, `ReadTerminates` |
| `fifo_is_queue` | FIFO of 10 bytes, chunks of up to 2 data bytes, fairness | `IsChunkFifo`: the byte FIFO implements `ChunkFifo`, liveness included |
| `roundtrip_packets` | packets of 12 bytes, messages of 1, 2 and 3 bytes, whole and divided sysex messages, timestamps around 128 and 8192 | `TypeOK`, `PacketDecodes`, `ContentsDecode` |
| `single_calls` | messages of all sizes and an invalid one, sysex with valid and invalid data, refused packets, two MTUs | `NothingInvented`, `SaidIsHeard` |
| `service_callbacks` | three MTUs, both kinds of GATT database, assertions enabled or not, early notifications, failures, unregistering, a second init | `TypeOK`, `ReadyFollowsNotifications`, `ReadyMeansUsable`, `TimerInitOnce`, `NothingStaleSent` |
| `trigger_calls` | intervals 1, 3 and 6, distance 2 | `TypeOK`, `CalledAtDistance`, `AtMostOnce`, `KeepsCalling` |
| `sample_app` | the three kinds of transmit mode (3, 2 and 1 notification buffers), long message of 5 bytes in chunks of 2, FIFO of 11, notifications disabled and connections lost at any time; ring of 3 received messages | `SysexWellFormed`, `NotesFollowButton`, `CountInRange`, `TransferEnds`, `SysexEnds`, `MessagesLogged` |

Several of these properties name their exceptions: packets that ran into one of the
`cases`, a service after an `odd` event, a sample application after an upset or after a
sysex end was lost. Each exception is a case in which the code does not do what the property says, and
"Known deviations" below says what happens in it. In `BleMidiService` each property excepts the odd
events that break it and no others: `ReadyFollowsNotifications` excepts them all until a
disconnection that is noticed; `ReadyMeansUsable` a service unregistered or initialized
again, and it speaks of a connection after a failed one only where assertions are disabled;
`TimerInitOnce` a failed connection or an unregistered service; `NothingStaleSent` nothing. In
`SampleApp`, `CountInRange` excepts nothing and `TransferEnds` does not except upsets, so that
these two cover the callback between two statements of the main loop.

Runs that fail, where the code does less than its documentation or comments say
(`PROJECT.json` quotes them):

* `fifo_two_producers`: an MTU callback between the two writes of a sysex chunk damages
  the FIFO, and the reader is out of step from then on.
* `single_sysex_data`: single message mode passes the number of data bytes as the length of
  the packet and so cuts the last byte off each packet of sysex data, and reports it as
  sent.

### Known deviations

What else the models show of the code, with the change of a run that shows it:

* *Two packets and sysex* (`txqueue_one_packet` with `TX_QUEUE_PACKET_COUNT = 2`). The next
  packet of the ring does not know that a sysex message is in progress: data bytes are
  accepted because it is empty, later ones, real time messages and the sysex end are
  rejected and dropped (`StreamPreserved` fails). A packet can be added for a sysex end that
  it then rejects, and is later handed out empty (`HasDataMeansPacket` fails). If the rejected bytes
  are the rest of a chunk, nothing is skipped and the reader goes round for ever
  (`ReadTerminates` under `FairSpec` fails, with `LongSysexData` in one chunk and a FIFO of
  13; the place, `tx_queue.c:244`, is marked "TODO: handle this"). `README.md:3` of the repository claims
  "single and multi packet system exclusive messages". With the default of one packet the
  queue is right about bytes and sizes.
* *A smaller MTU* (`MtuMayShrink = TRUE`) is applied to packets that already hold more bytes
  (`PacketsFit` fails; `tx_queue.c:293` asks "need to handle shrinking?"). ATT does not let
  the MTU of a connection shrink, which is why the runs do not either; the API of the queue does
  not rule it out.
* *The rest of a sysex chunk* that found no room waits in the scratch buffer. The reader
  looks at it only while the FIFO is not empty, and `radio_notif_handler` does not look
  at it at all, so that it waits for the next write of the application: `EventuallySent`
  speaks of the FIFO and the packets only, and would fail with `outstanding`, all valid bytes
  not sent, in their place. In practice the sysex end is that write.
* *`waiting_for_notif_buf`* is cleared by `on_notify_done` alone. If the stack does not
  report a notification that it drops (`StackReportsDropped = FALSE`), `WaitingHasWakeup`
  fails in `tx_stream`, and with a reconnection `EventuallySent` fails: nothing is sent on
  the next connection. With a stack that reports each one the wait always ends; so the
  code depends on that.
* *Continuation packets* (the `cases` of `BleMidiRoundTrip`). A real time message that comes
  first is written without a packet header, a sysex end that comes first is parsed as
  something else (known to `TODO.md`), and inside a sysex message the parser does not see
  the timestamp wrap; `ContentsDecode` shows that in the last case only timestamps are
  wrong.
* *Single message mode* (`ReportedIsHeard` in `single_calls`) reports success for a message
  that it did not encode, and cannot repeat a sysex start that the stack refused, because
  the writer is in the sysex message already.
* *Failed connections* (`TimerInitOnce` without `"connection failed"` fails in
  `service_callbacks`). `on_connected` does not look at `err`: it reports a connection that was
  not made and initializes the timer of the trigger, and no disconnection follows to undo it.
  The next `on_connected` initializes the timer again, and the assertion at
  `conn_event_trigger.c:51` fails; without `CONFIG_ASSERT` the error is logged, and that
  connection works (`ReadyMeansUsable`).
* *Ready state* (the other `odd` events of `BleMidiService`). A service that is registered again
  during a connection becomes READY without a trigger; one that is unregistered misses the
  disconnection, which is not reported and leaves the timer initialized, so that the same
  assertion fails at the next connection; `is_initialized` is never set, so that a second
  `ble_midi_init` goes through. Messages sent on an early READY are thrown away by
  `on_connected`.
* *A lost packet size.* `on_mtu_changed` ignores that the FIFO is full (`ble_midi.c:270`): the
  packets keep the size of an earlier MTU of the connection. That is why `ReadyMeansUsable` says
  `limit <= mtu` and not `limit = mtu`.
* *Trigger.* While the interval in use is longer than the real one, events go by without
  the callback. `KeepsCalling` shows that this ends with `le_param_updated`.
* *The end of the long message* (`SysexEnds` without its exception fails in `sample_app`).
  `tx_done_cb` fills the FIFO with the last data and sends the end at the next completion,
  whose result it ignores: if nothing was read from the FIFO in between, the end is refused, and
  `sysex_tx_in_progress` is cleared all the same. Two notifications in the stack are one way to that; one is
  enough if a full packet and the rest of a chunk are sent first, for which nothing
  is taken from the FIFO. The writer then stays in the sysex message, and rejects the start of
  the next message. If that is another long message its rejected start is never sent,
  no completion comes, and it stays in progress for ever; notes are rejected too.
* *Transfers that stay in progress* (`TransferEnds` without `interrupted`). `sysex_tx_in_progress`
  is cleared by `tx_done_cb` alone. If the connection is lost, or notifications are disabled in single message
  mode, where each completion makes the next packet, the chain of completions ends
  and the transfer stays in progress, on the next connection and after notifications are enabled again, with all
  buttons dead. In manual mode the transfer waits for the flush button, which is one of them.
* *Single message mode and the long message.* Each data packet lacks its last byte, as in
  `single_sysex_data`; `SysexWellFormed` counts those bytes apart (`cut`).
* *Sample application, else.* A completion between two statements of the main loop sends data
  before the sysex start; a button released during a long message leaves notes on.
  LED 1 is on while READY too, though the repository's `README.md:23` says "connected but
  not ready"; a packet with more messages than the ring buffer holds fails the assertion of
  `ble_midi_message_cb`; the count of received sysex bytes is never reset, and the log line
  after the second message counts both.

`pending_tx_queue_fifo_work_count` does not count work items: the counter of a coalesced
item, or of one that a reconnection reset, can drift, below zero too. `EventuallySent`
shows that no data is left behind by it, since `radio_notif_handler` looks at the FIFO
itself.

**Bounds.** A packet of 5 or 6 bytes holds one message but not two, or a sysex start and
one or two data bytes, so that every second chunk meets a packet boundary; with 7 bytes
and running status two notes fit. A FIFO of 9 bytes holds three short chunks, or one
sysex data chunk with a short one, or can be filled so that an MTU change is lost. Sysex
data of 5 bytes is cut by the FIFO to chunks of 1 to 3 bytes, each of which the packets
can cut again. One packet is the default, three are the least for which adding, removing
and wrapping around differ. The queue's own runs have no bound on calls, packets or
connections: they explore every reachable state. In `BleMidiTx` `MaxCalls` = 3 is enough
for start, data and an end or a message, with a packet of a few bytes to fill, a notification
buffer to exhaust and work items to coalesce; `MaxConnections` allows one reconnection
(none in the fair run, whose properties end with the connection).

The other modules. A packet of 12 bytes has room for a note and two short messages, or a
note and a divided sysex message; start times just before 128 and 8192 and delays of 1
and 3 ms put a wrap of the low part or of all 13 bits anywhere in it. A
FIFO of 10 bytes holds three short chunks with one byte left, or two data chunks. `SingleMsgTx`,
`BleMidiService` and `TxFifo` have no bound on the number of events, nor has `SampleApp` but
for `MaxUpsets` = 1, one press, lost connection or disabling of notifications at the wrong moment, whose
consequences for the program are followed without a bound, and `MaxRest` = 1, the packets that
the rest of a chunk may fill (a chunk of 2 bytes is cut once at most). Button 4 is not pressed in
the modes that ignore it.
Intervals 1, 3 and 6 with distance 2 make the interval in use too long by
factors of two to six, or too short, and one of them is shorter than the distance, so that the
call is due right after the event before; times are in units of the model. The long message of 5 bytes
takes three chunks of up to 2, or more where the FIFO of 11 is not empty. 11 bytes are just
room for a short message and more than a chord, and for two chunks: the third is written when the first is
read, and leaves no room for the end, which can then be refused. Two notification buffers in buffered mode let completions come
without a read of the FIFO in between; three in single message mode are enough for a short message or a
chord. A ring of 3 messages can be filled by a packet or two. `MaxSysexBytes` and `MaxSpan`
bound what is received and how long a packet is filled.

Deadlock is checked in the runs of the queue, the FIFO, the round trip, single message
mode, the service and the trigger; in the others the application or the user may make no
call any more, and the system then rests.

**Fairness.** `FairSpec`: a call of `tx_queue_read_from_fifo` that has started keeps running.
`TxFairSpec`: the work queue runs while it has work and connection events keep coming (weak
fairness); application and Bluetooth threads get the processor again and again between
handlers, because handlers are short and connection events are at least 7.5 ms apart
(strong fairness of `AppStep` and `on_notify_done`). New API calls and disconnections are
never forced; in manual mode `ble_midi_tx_flush` is called again and again, which is the
application's part of the contract.
`TxFifo!FairSpec`: connection events start the reader while there are bytes; packets are sent
again and again, so that a chunk is not left for ever for want of room (strong fairness
of `TakeChunk`; `tx_eventually_sent` is the run that shows this of the packets).
`ConnEventTrigger`: time advances,
interrupts are taken, the host reports new parameters. `SampleApp`: the main loop runs, the stack
reports what it was given, and packets are sent while there are any, notifications are enabled and a buffer
is free (weak fairness of `MainLoop`, `tx_done_cb` and `SendPacket`). No button need be pressed, no peer need
connect or enable notifications, and the work item that reads the FIFO early need not run.
`SampleAppRx`: a parse ends, and the work queue gets the processor between packets.

## What is proved

The theorems hold for every value of the constants, under the named `ASSUME`s of the
modules. For the queue and the path these are: at least one packet, each of at least 5
bytes; a FIFO of at least 3 bytes; a chunk count that fits in 16 bits; messages of three
bytes that begin with a status byte; non-empty sysex data; an MTU of at least 8 (ATT's
minimum is 23) that fits in 16 bits; at least one notification buffer. The other modules
assume that sizes, counts and intervals are positive. Where a theorem needs more, its
statement says so with an `ASSUME` of its own, named below.

**Packets** (`BleMidiPacketProofs`, lemmas only).

* The writer: every operator maps a writer to a writer, leaves the limit alone, and keeps a
  packet that is within its limit there; `ble_midi_writer_add_sysex_data` adds no more bytes
  than it was given; a call is refused for the reasons the code gives and no others.
* The parser: `ble_midi_parse_packet` is a recursive function over the iterations of its loop.
  That it is defined, and that the parser reaches a state after some number of iterations, is
  shown by the least number (see the queue). `InAt` and `OutAt` say that the parser gets to byte
  `i` of a packet inside or outside of a sysex message, with a running status, a last
  timestamp byte, high bits and the callbacks made so far; there is one lemma for each way
  in which an iteration can go from there.
* Both: `Decodes` is `InAt` or `OutAt` for the bytes of a packet whatever is appended to them.
  This is not true of every prefix, as `is_sysex_continuation` looks ahead: `Settled` says that
  the bytes are enough to tell what kind of packet it is. `Timed` says how the parser's idea of the time,
  with only the low part in a timestamp byte, relates to the writer's. `Good` puts them together,
  and every operation of the writer keeps it.

**The round trip** (`BleMidiRoundTripProofs`).

* `RoundTripTypes`: `Spec => []TypeOK`.
* `ContentsAlwaysDecode`: `Spec => []ContentsDecode`, without further hypotheses: for every
  packet size, both options, all messages, sysex messages and delays.
* `PacketsAlwaysDecode`: `Spec => []PacketDecodes` if `MaxSpan <= 127`. The low part of a timestamp has
  seven bits, and a packet that is filled over a longer time can see it wrap twice.

The invariant is `TypeInv /\ PacketInv`. Whether a packet decodes is not inductive: what the next
bytes mean depends on the parser's running status, on its sysex state and on the time it knows.
`PacketInv` says that the packet is `Good`, if it ran into no case that makes the parser fail
(the cases are those of "Known deviations"). The timestamps are left out of it when
`cases` is not empty, or when packets may take too long.

**Single message mode** (`SingleMsgTxProofs`).

* `NeverInvents`: `Spec => []NothingInvented`, without further hypotheses. The packets that a call can send
  are the message it was asked for, an empty packet, a real time message without a header, a lone sysex end, and sysex
  data that lacks its last byte; the peer hears the first in full, of the last the bytes that are left, and
  nothing of the others.
* `SaidIsAlwaysHeard`: `Spec => []SaidIsHeard` if packets have at least five bytes (a header byte, a timestamp and three
  bytes; the default is 244) and `PaddedMessages`: in a well formed message the bytes that are not sent are data bytes
  too. `ble_midi.h:62` asks for "a zero padded buffer"; the velocity of a note off that is sent as a
  note on is checked and not sent.

**The FIFO** (`TxFifoProofs`), if no callback comes between the two writes of a sysex chunk (`~CallbackPreempts`;
the run `fifo_two_producers` shows what happens otherwise).

* `FifoIsChunkQueue`: `Spec => Abstract!FifoSafety`, the safety part of `IsChunkFifo`, for every size of the FIFO, every
  message, sysex data and limit. Each step of the producers and of the reader puts one written chunk at the end of the
  queue, takes the first, empties it, or is a stutter.
* `OnlyWrittenIsTaken`: `Spec => []TakesWhatWasWritten`.

The chunks are what `WholeChunks`, a recursive function, parses from the bytes. `Layout` says that the bytes begin with given chunks, one after
the other; `ParseOfLayout` that these are then what is parsed, and `LayoutUsed` that they are as long as the bytes they
take. `WholeChunks` alone does not determine what the next step does: between the two writes a header is in the FIFO
that announces bytes not yet there. `FifoInv` says that behind the last chunk is nothing, or (`Pending`) the header of the
data still to be written, with room for that data, so that the second write completes one chunk and cannot be cut short.

**The queue** (`BleMidiTxProofs`).

* `TypeCorrect`: `Spec => []TypeOK`. `TypeOK` is not inductive. That the count of
  remaining bytes stays a natural number depends on the header of a chunk announcing the
  bytes that follow it; that the reader subtracts no more than there is depends on where it
  is. `TypeInv` adds `ChunksOK` (headers agree with data, 16 bit counts survive encoding),
  `WritingOK` (a header whose data is still to be written is the last chunk, and announces
  that data), `ChunkReadOK` and `RestReadOK` (inside `add_data_bytes_to_tx_packet`, the scratch
  buffer holds the current chunk, and the bytes counted are bytes of it). `TypeInvariance`
  is the theorem that `TypeInv` is invariant, with one lemma or step for each action.
* `PacketsAlwaysFit`: if the MTU does not shrink, `Spec => []PacketsFit`. The
  strengthening `FitInv` says of the sizes that are still in the FIFO that they are legal
  for the current MTU, and that they ascend from the limit that the packets have: then a
  size chunk never lowers a limit below what a packet holds.
* `StreamIsPreserved` and `HasDataIsRight`: for the intended use,
  `Spec => []StreamPreserved` and `Spec => []HasDataMeansPacket`. `IntendedUse` says that there
  is one packet, which is the default, or no sysex is sent (with more the code does lose
  bytes, see "Known deviations"), and that no message given to `ble_midi_tx_msg` is a sysex
  start or end (`ble_midi.h:61`: "Sends a non-sysex MIDI message"). The MTU may shrink. Neither
  property is inductive: whether a packet takes the next chunk depends on the writer's
  `in_sysex_msg`, on its limit and on what it holds. `StreamInv` relates them to the FIFO.
  `FifoInv` says that each chunk begins in the sysex state in which the one before it ends,
  that data is inside of a message, that size chunks carry usable limits; `PlainReader` that
  without sysex the reader never is inside a chunk; `PacketsFollow` that the
  writers' `in_sysex_msg` is the state before the first chunk; `LimitsUsable` that an empty
  packet has room for any message, unless the chunk with the first limit is still the first in the FIFO; `FreeEmpty` and `UsedFilled` that packets out of use are
  empty, and those in use are not, but for a single one; `OnePass` that
  one packet takes what it takes of a chunk in one iteration; `StreamOK` is the equation of the bytes. `StreamInvariance` shows
  that this, with `TypeInv`, is invariant. The content of the packets is the recursive
  `FlattenSeq`; what is needed of it (the concatenation with one sequence added, extended or
  removed) is proved by the principle that a set of numbers has a least element.

**The transmit path** (`BleMidiTxProofs`).

* `PathIsQueue`: `TxSpec => Spec`. Whatever handlers, interrupts, callbacks and the application
  do, and in whatever order, the queue sees its own operations. So the theorems about the
  queue are theorems about the path: `SentPacketsFit` (if the MTU does not shrink) and
  `PathPreservesStream` (for the intended use).
* `TxTypeCorrect`: `TxSpec => []TxTypeOK`. The invariant `AroundOK` holds what is not
  of the queue.
* `PathIsMidiStream`: for the intended use, `TxSpec => IsMidiStream`, the refinement that `tx_stream`
  checks. The stream's bytes under way are those in the FIFO, in the scratch buffer and in the packets; a step of the path
  takes one unit of the client, hands a prefix of them to the stack, drops them at a reset, or leaves them alone.
* `WaitingIsWokenUp`: if the stack reports dropped notifications (`StackReportsDropped`; without it
  the property fails), `TxSpec => []WaitingHasWakeup`.

**The service** (`BleMidiServiceProofs`). `ServiceTypeCorrect`, `ReadyIsFollowed`, `ReadyIsUsable`,
`TimerIsInitOnce` and `NothingStaleIsSent` prove the five invariants of `service_callbacks`
for every set of MTUs. `ServiceInv` adds to them what the callbacks take for granted of
each other: nothing is told before initialization, an absence of the service is on record in `odd`, CCC
and trigger belong to a link, a link that `on_connected` has seen is prepared unless that
call failed an assertion (`UpIsPrepared`), an initialized timer belongs to a link that `on_connected` has seen, or to an odd
event on record (`TimerOnLink`), and what the client was told last belongs to the link.

**The trigger** (`ConnEventTriggerProofs`). `TriggerTypeCorrect`, `CallsAtMostOnce` and
`CallsAtDistance` prove the invariants of `trigger_calls` for all intervals and distances. In
`TriggerInv`, `OneShot` says that a running timer has not called yet and `OnTime` that, if the
interval is known, the timer ends at the right distance before the event, or has ended there.
The liveness property `KeepsCalling` holds in the model for distances other than 0: with 0, timer
and event are due together, and the event may come first each time.

**The sample application** (`SampleAppProofs`).

* `CountStaysInRange`: `Spec => []CountInRange`, for all sizes and whatever the user does. Its
  invariant `CountInv` is small; the work is in the loop of `tx_done_cb`, the recursive function
  `Fill`, of which it is shown, again by the least number, that it is defined everywhere
  and stays within the message and the FIFO.
* `SysexIsWellFormed` and `NotesAreRight`: `Spec => []SysexWellFormed` and
  `Spec => []NotesFollowButton` if `RoomEnough`: the FIFO has room for a short message (and so for a
  chord), which is no longer than the long one, and the stack has room for three packets in single message mode.
  The number of notification buffers in the buffered modes is arbitrary. The properties speak of an orderly use,
  until an end is lost. `OrderlyInv` describes it phase by phase: the statements that the main loop has still to execute
  determine how much of a message is sent, which notes are on and how much room is left, and what
  waits in the queue behind them has no consequences. `AppInv` is `CountInv`, and `OrderlyInv` while the use is orderly and
  no end was lost.

Only model-checked: the liveness properties, that is `IsChunkFifo` in so far as it says that a chunk is eventually taken,
the properties of `tx_eventually_sent`, `KeepsCalling`, and `TransferEnds`, `SysexEnds` and `MessagesLogged` of the sample application. TLAPS does not reason about fairness here.

The library's induction theorems take an operator as parameter and cannot be used with the installed provers.
Where the proofs need induction (the parser, the parse of the FIFO, `FlattenSeq`, the loop of `tx_done_cb`) they use that a set of
numbers has a least element.

## What is not modelled

* The legacy trigger (`conn_event_trigger_legacy.c`), which only enables and disables an
  interrupt, and failures of the HCI command that sets the trigger (they are logged).
* The request of connection parameters, the read callback, security callbacks and logging:
  they change no state of the program. Initialization of LEDs and buttons, the LEDs, and the
  sizes and rates that the sample application logs.
* The parser is run on packets that the writer or the single message mode produces, and on the
  empty packet. Packets that no such writer produces are not enumerated.
* Messages that do not begin with a status byte (a caller's error that leaves the reader of the
  FIFO in its loop), and messages in one packet that are 128 ms or more apart (which the
  encoding cannot tell from closer ones): the models assume that they do not occur.
* `TxQueue` and `BleMidiTx` take chunks as whole, as `fifo_is_queue` justifies, and do not
  let an MTU or connection callback come between the two writes of a chunk; what happens
  then is the run `fifo_two_producers`.
* Two things the compiler sees and a model does not: with
  `CONFIG_BLE_MIDI_SEND_NOTE_OFF_AS_NOTE_ON` `ble_midi.c:299` lacks a semicolon, and in manual
  mode `ble_midi_init` calls `conn_event_trigger_init`, which is compiled for the connection
  event modes only. The models take the code as it is meant there.

## Plan

The model is complete as far as the points above allow. The invariants that the runs check are
proved for all values of the constants that meet the modules' assumptions, some under a further hypothesis
that the theorem states: `IntendedUse` for the stream of the queue and of the path, an MTU that does
not shrink for `PacketsFit`, `StackReportsDropped` for `WaitingHasWakeup`, `~CallbackPreempts` for the FIFO, `MaxSpan <= 127` for
`PacketDecodes`, packets of five bytes and padded messages for `SaidIsHeard`, `RoomEnough` for two of the sample application.
The refinement of `MidiStream` and the safety part of that of `ChunkFifo` are proved under the
same hypotheses. What is left to the model checker is liveness.
