------------------------------ MODULE TxQueue ------------------------------
(***************************************************************************)
(* The transmit queue of ble_midi/src/tx_queue.c.                          *)
(*                                                                         *)
(* The application and the Bluetooth MTU callback write chunks to a byte   *)
(* FIFO; tx_queue_read_from_fifo moves them to a ring of packet writers;   *)
(* tx_queue_on_tx_packet_sent removes the oldest packet.                   *)
(*                                                                         *)
(* The FIFO is a sequence of chunks.  A chunk is three bytes (head) and,   *)
(* for a sysex data chunk, the data bytes that follow them.  The chunk     *)
(* field open, and the variables held, outstanding, open and mtu, are      *)
(* history: no guard of the code reads them.  They record                  *)
(*   open         whether the client has a sysex message in progress, now  *)
(*                (the variable) and just before a chunk (the field);      *)
(*   held         the MIDI bytes that each packet carries;                 *)
(*   outstanding  the valid MIDI bytes taken from the FIFO and not sent;   *)
(*   mtu          the ATT MTU of the connection.                           *)
(***************************************************************************)
EXTENDS BleMidiWriter, SequencesExt

CONSTANTS
    TX_QUEUE_PACKET_COUNT,            \* CONFIG_BLE_MIDI_TX_QUEUE_PACKET_COUNT
    SYSEX_DATA_CHUNK_MAX_BYTE_COUNT,  \* data bytes in one FIFO chunk (255)
    TX_FIFO_SIZE,                     \* CONFIG_BLE_MIDI_TX_FIFO_SIZE
    Messages,          \* the messages the client sends, three bytes each
    SysexData,         \* the arguments of tx_queue_fifo_add_sysex_data
    Timestamps,        \* the values ble_timestamp() returns
    Mtus,              \* the ATT MTUs a connection may have
    UsesSysex,         \* does the client send sysex messages?
    MtuMayShrink,      \* may the MTU of a connection decrease?
    ProducerPreempts   \* may a client call interrupt tx_queue_read_from_fifo?

TX_MAX_PACKET_SIZE_CHUNK_ID  == \h0C
SYSEX_DATA_CHUNK_ID          == \h0D
SYSEX_DATA_CHUNK_HEADER_SIZE == 3
SYSEX_START                  == \hF0
SYSEX_END                    == \hF7

ASSUME PacketCountAssumption == TX_QUEUE_PACKET_COUNT \in Nat \ {0}
ASSUME FifoAssumption        == TX_FIFO_SIZE \in Nat /\ TX_FIFO_SIZE >= 3
ASSUME ChunkSizeAssumption   == /\ SYSEX_DATA_CHUNK_MAX_BYTE_COUNT \in Nat \ {0}
                                /\ SYSEX_DATA_CHUNK_MAX_BYTE_COUNT < 65536
ASSUME MessagesAssumption    == \A m \in Messages : m \in Byte \X Byte \X Byte
                                                   /\ m[1] >= 128
ASSUME SysexDataAssumption   == \A d \in SysexData : d \in Seq(Byte) /\ d # <<>>
ASSUME TimestampsAssumption  == Timestamps \subseteq Timestamp
ASSUME MtusAssumption        == \A m \in Mtus : m \in Nat /\ m >= 8 /\ m < 65536
ASSUME SwitchesAssumption    == {UsesSysex, MtuMayShrink, ProducerPreempts}
                                    \subseteq BOOLEAN

(* A message always fits in an empty packet: a header byte, a timestamp    *)
(* and three bytes.  (Kconfig's default is 244.)                           *)
ASSUME PacketHoldsMessage == BLE_MIDI_TX_PACKET_MAX_SIZE >= 5

VARIABLES
    fifo,                       \* the chunks in the FIFO
    fifo_free_space,            \* the bytes that can be written to the FIFO
    writing,                    \* data bytes of a chunk whose header is written
    tx_packets,                 \* the ring of packet writers
    first_tx_packet_idx,        \* the oldest packet in use
    tx_packet_count,            \* the number of packets in use
    has_tx_data,                \* is there something to send?
    num_remaining_data_bytes,   \* bytes of the current chunk not in a packet
    curr_sysex_data_chunk_size, \* size of the current chunk
    sysex_chunk_scratch_buf,    \* the current chunk
    reader,                     \* where tx_queue_read_from_fifo is
    num_bytes_added,            \* local of add_data_bytes_to_tx_packet
    held, outstanding, open, mtu

prodVars   == <<writing, open, mtu>>
packetVars == <<tx_packets, first_tx_packet_idx, tx_packet_count,
                has_tx_data, held>>
chunkVars  == <<num_remaining_data_bytes, curr_sysex_data_chunk_size>>
readVars   == <<sysex_chunk_scratch_buf, reader, num_bytes_added>>
fifoVars   == <<fifo, fifo_free_space>>
vars       == <<fifoVars, outstanding, prodVars, packetVars, chunkVars, readVars>>

PacketIdx == 0 .. TX_QUEUE_PACKET_COUNT - 1

Chunk == [head : Byte \X Byte \X Byte, data : Seq(Byte), open : BOOLEAN]

TypeOK ==
    /\ fifo \in Seq(Chunk)
    /\ fifo_free_space \in Nat
    /\ writing \in Seq(Byte)
    /\ tx_packets \in [PacketIdx -> Writer]
    /\ first_tx_packet_idx \in PacketIdx
    /\ tx_packet_count \in 1 .. TX_QUEUE_PACKET_COUNT
    /\ has_tx_data \in BOOLEAN
    /\ num_remaining_data_bytes \in Nat
    /\ curr_sysex_data_chunk_size \in Nat
    /\ sysex_chunk_scratch_buf \in Seq(Byte)
    /\ reader \in {"idle", "loop", "chunk", "rest"}
    /\ num_bytes_added \in Nat
    /\ held \in [PacketIdx -> Seq(Byte)]
    /\ outstanding \in Seq(Byte)
    /\ open \in BOOLEAN
    /\ mtu \in Mtus

-----------------------------------------------------------------------------
(* The FIFO.                                                               *)

ChunkSize(c) == SYSEX_DATA_CHUNK_HEADER_SIZE + Len(c.data)

(* Least and most significant byte of a 16 bit count.                      *)
Lsb(n) == n % 256
Msb(n) == (n \div 256) % 256
Decode16(lsb, msb) == lsb + 256 * msb

ThreeByteChunk(h) == [head |-> h, data |-> <<>>, open |-> open]

write_3_byte_chunk_to_fifo(h) ==
    /\ fifo_free_space >= 3
    /\ fifo' = Append(fifo, ThreeByteChunk(h))
    /\ fifo_free_space' = fifo_free_space - 3

(* The chunk that tells the reader the new maximum packet size.            *)
SizeChunkHead(size) == <<TX_MAX_PACKET_SIZE_CHUNK_ID, Lsb(size), Msb(size)>>

(* Faulty: the ATT header of a notification is forgotten.                  *)
MaxSizeWithHeader(m) == IF m > BLE_MIDI_TX_PACKET_MAX_SIZE
                        THEN BLE_MIDI_TX_PACKET_MAX_SIZE ELSE m

(* The largest packet that fits an ATT MTU, as on_mtu_changed computes it. *)
MaxSizeFor(m) == IF m - 3 > BLE_MIDI_TX_PACKET_MAX_SIZE
                 THEN BLE_MIDI_TX_PACKET_MAX_SIZE
                 ELSE m - 3

-----------------------------------------------------------------------------
(* What the client is promised.  A chunk is valid if the bytes it stands   *)
(* for may follow what the client sent before; an invalid chunk is dropped *)
(* and a valid one is delivered.                                           *)

AllDataBytes(s) == \A i \in 1 .. Len(s) : is_data_byte(s[i])

Valid(c) ==
    CASE c.head[1] = SYSEX_START                 -> ~c.open
      [] c.head[1] = SYSEX_END                   -> c.open
      [] c.head[1] = SYSEX_DATA_CHUNK_ID         -> c.open /\ AllDataBytes(c.data)
      [] c.head[1] = TX_MAX_PACKET_SIZE_CHUNK_ID -> FALSE
      [] OTHER -> IF c.open
                  THEN is_realtime_message(c.head[1])
                  ELSE /\ message_size(c.head[1]) # 0
                       /\ is_data_byte(c.head[2]) /\ is_data_byte(c.head[3])

(* The sysex state of the client after a chunk.                            *)
OpenAfter(c) == CASE c.head[1] = SYSEX_START -> TRUE
                  [] c.head[1] = SYSEX_END   -> FALSE
                  [] OTHER                   -> c.open

(* The MIDI bytes a valid chunk stands for.                                *)
Payload(c) == IF c.head[1] = SYSEX_DATA_CHUNK_ID THEN c.data ELSE c.head

-----------------------------------------------------------------------------
(* The packet ring.                                                        *)

tx_queue_last_tx_packet ==
    (first_tx_packet_idx + tx_packet_count - 1) % TX_QUEUE_PACKET_COUNT

(* Where tx_queue_tx_packet_add puts the packet it adds.                   *)
NextPacketSkipped ==   \* faulty: off by one
    (first_tx_packet_idx + tx_packet_count + 1) % TX_QUEUE_PACKET_COUNT
NextPacket == (first_tx_packet_idx + tx_packet_count) % TX_QUEUE_PACKET_COUNT
NoFreePacket == tx_packet_count >= TX_QUEUE_PACKET_COUNT

WithMaxSize(w, size) == [w EXCEPT !.tx_buf_max_size = size]

(* tx_queue_init, which ends with tx_queue_reset.  It does not touch the   *)
(* scratch buffer.                                                         *)
tx_queue_init ==
    /\ num_remaining_data_bytes' = 0
    /\ curr_sysex_data_chunk_size' = 0
    /\ first_tx_packet_idx' = 0
    /\ tx_packet_count' = 1
    /\ has_tx_data' = FALSE
    /\ tx_packets' = [i \in PacketIdx |-> WithMaxSize(ble_midi_writer_init, 0)]
    /\ held' = [i \in PacketIdx |-> <<>>]
    /\ outstanding' = <<>>

Init ==
    /\ mtu \in Mtus
    /\ fifo = <<[head |-> SizeChunkHead(MaxSizeFor(mtu)), data |-> <<>>,
                 open |-> FALSE]>>
    /\ fifo_free_space = TX_FIFO_SIZE - 3
    /\ writing = <<>>
    /\ tx_packets = [i \in PacketIdx |-> WithMaxSize(ble_midi_writer_init, 0)]
    /\ first_tx_packet_idx = 0
    /\ tx_packet_count = 1
    /\ has_tx_data = FALSE
    /\ num_remaining_data_bytes = 0
    /\ curr_sysex_data_chunk_size = 0
    /\ sysex_chunk_scratch_buf = <<>>
    /\ reader = "idle"
    /\ num_bytes_added = 0
    /\ held = [i \in PacketIdx |-> <<>>]
    /\ outstanding = <<>>
    /\ open = FALSE

-----------------------------------------------------------------------------
(* The client.                                                             *)

MayPreempt == ProducerPreempts \/ reader = "idle"
MayCall    == MayPreempt /\ writing = <<>>

tx_queue_fifo_add_msg(m) ==
    /\ MayCall
    /\ write_3_byte_chunk_to_fifo(m)
    /\ UNCHANGED <<outstanding, prodVars, packetVars, chunkVars, readVars>>

tx_queue_fifo_add_sysex_start ==
    /\ UsesSysex
    /\ MayCall
    /\ write_3_byte_chunk_to_fifo(<<SYSEX_START, 0, 0>>)
    /\ open' = TRUE
    /\ UNCHANGED <<outstanding, writing, mtu, packetVars, chunkVars, readVars>>

tx_queue_fifo_add_sysex_end ==
    /\ UsesSysex
    /\ MayCall
    /\ write_3_byte_chunk_to_fifo(<<SYSEX_END, 0, 0>>)
    /\ open' = FALSE
    /\ UNCHANGED <<outstanding, writing, mtu, packetVars, chunkVars, readVars>>

(* num_bytes_to_send: limited by the chunk size and by the FIFO.           *)
NumBytesToSend(n) ==
    LET space == fifo_free_space - SYSEX_DATA_CHUNK_HEADER_SIZE
        m     == IF n > SYSEX_DATA_CHUNK_MAX_BYTE_COUNT
                 THEN SYSEX_DATA_CHUNK_MAX_BYTE_COUNT ELSE n
    IN  IF m > space THEN space ELSE m

(* tx_queue_fifo_add_sysex_data writes the header of the chunk and then    *)
(* the bytes: the reader may run in between.  A client sends data only     *)
(* inside a sysex message.                                                 *)
WriteSysexDataHeader(bytes) ==
    LET n == NumBytesToSend(Len(bytes))
    IN  /\ MayCall
        /\ open
        /\ fifo_free_space > SYSEX_DATA_CHUNK_HEADER_SIZE
        /\ fifo' = Append(fifo, ThreeByteChunk(<<SYSEX_DATA_CHUNK_ID, Lsb(n), Msb(n)>>))
        /\ fifo_free_space' = fifo_free_space - SYSEX_DATA_CHUNK_HEADER_SIZE
        /\ writing' = SubSeq(bytes, 1, n)
        /\ UNCHANGED <<outstanding, open, mtu, packetVars, chunkVars, readVars>>

WriteSysexDataBytes ==
    /\ MayPreempt
    /\ writing # <<>>
    /\ fifo' = [fifo EXCEPT ![Len(fifo)].data = writing]
    /\ fifo_free_space' = fifo_free_space - Len(writing)
    /\ writing' = <<>>
    /\ UNCHANGED <<outstanding, open, mtu, packetVars, chunkVars, readVars>>

-----------------------------------------------------------------------------
(* Bluetooth events.                                                       *)

(* on_mtu_changed: the result of the FIFO write is ignored, so a full FIFO *)
(* loses the new size.                                                     *)
MtuChanged(m) ==
    /\ MayCall
    /\ MtuMayShrink \/ m >= mtu
    /\ mtu' = m
    /\ IF fifo_free_space >= 3
       THEN write_3_byte_chunk_to_fifo(SizeChunkHead(MaxSizeFor(m)))
       ELSE UNCHANGED fifoVars
    /\ UNCHANGED <<outstanding, writing, open, packetVars, chunkVars, readVars>>

(* on_connected: tx_queue_init, then the size for the MTU of the new       *)
(* connection.  The client starts afresh.                                  *)
Connected(m) ==
    /\ reader = "idle"
    /\ writing = <<>>
    /\ tx_queue_init
    /\ mtu' = m
    /\ open' = FALSE
    /\ fifo' = <<[head |-> SizeChunkHead(MaxSizeFor(m)), data |-> <<>>,
                  open |-> FALSE]>>
    /\ fifo_free_space' = TX_FIFO_SIZE - 3
    /\ UNCHANGED <<writing, readVars>>

(* The last packet in use is emptied but stays in use.                     *)
OnlyPacketNever  == tx_packet_count <= 0   \* faulty: the last one is removed
OnlyPacketOfTwo  == tx_packet_count <= 2   \* faulty: off by one
OnlyPacket       == tx_packet_count <= 1

(* The oldest packet was handed to the Bluetooth stack.                    *)
tx_queue_on_tx_packet_sent ==
    LET first == first_tx_packet_idx
    IN  /\ reader = "idle"
        /\ has_tx_data
        /\ tx_packets' = [tx_packets EXCEPT ![first] = ble_midi_writer_reset(@)]
        /\ IF OnlyPacket
           THEN /\ has_tx_data' = FALSE
                /\ UNCHANGED <<tx_packet_count, first_tx_packet_idx>>
           ELSE /\ tx_packet_count' = tx_packet_count - 1
                /\ first_tx_packet_idx' = (first + 1) % TX_QUEUE_PACKET_COUNT
                /\ UNCHANGED has_tx_data
        /\ held' = [held EXCEPT ![first] = <<>>]
        /\ outstanding' = SubSeq(outstanding, Len(held[first]) + 1, Len(outstanding))
        /\ UNCHANGED <<fifoVars, prodVars, chunkVars, readVars>>

-----------------------------------------------------------------------------
(* tx_queue_read_from_fifo: reader is "loop" at the head of its while      *)
(* loop, "chunk" or "rest" inside add_data_bytes_to_tx_packet, called for  *)
(* a new chunk or for the rest of the current one.                         *)

ReadStart ==
    /\ reader = "idle"
    /\ reader' = "loop"
    /\ UNCHANGED <<fifoVars, outstanding, prodVars, packetVars, chunkVars,
                   sysex_chunk_scratch_buf, num_bytes_added>>

ReadEmpty ==
    /\ reader = "loop"
    /\ fifo = <<>>
    /\ reader' = "idle"
    /\ UNCHANGED <<fifoVars, outstanding, prodVars, packetVars, chunkVars,
                   sysex_chunk_scratch_buf, num_bytes_added>>

(* The loop looks at the first chunk once no data bytes remain.            *)
AtChunk == reader = "loop" /\ fifo # <<>> /\ num_remaining_data_bytes = 0

(* fifo_read of the first chunk.                                           *)
ConsumeChunk ==
    /\ fifo' = Tail(fifo)
    /\ fifo_free_space' = fifo_free_space + ChunkSize(Head(fifo))
    /\ outstanding' = outstanding \o
                      (IF Valid(Head(fifo)) THEN Payload(Head(fifo)) ELSE <<>>)

(* A new maximum packet size applies to every packet.                      *)
ReadSizeChunk ==
    LET h    == Head(fifo).head
        size == Decode16(h[2], h[3])
    IN  /\ AtChunk
        /\ h[1] = TX_MAX_PACKET_SIZE_CHUNK_ID
        /\ tx_packets' = [i \in PacketIdx |->
               WithMaxSize(tx_packets[i],
                   IF size > BLE_MIDI_TX_PACKET_MAX_SIZE
                   THEN BLE_MIDI_TX_PACKET_MAX_SIZE ELSE size)]
        /\ ConsumeChunk
        /\ UNCHANGED <<first_tx_packet_idx, tx_packet_count, has_tx_data, held,
                       prodVars, chunkVars, readVars>>

Add3Bytes(w, h, t) ==
    CASE h[1] = SYSEX_START -> ble_midi_writer_start_sysex_msg(w, t)
      [] h[1] = SYSEX_END   -> ble_midi_writer_end_sysex_msg(w, t)
      [] OTHER              -> ble_midi_writer_add_msg(w, h, t)

(* The last attempt of add_3_byte_chunk_to_tx_packet: the last packet or,  *)
(* if that is full, a packet added to the ring.                            *)
Attempt(h, t) ==
    LET last  == tx_queue_last_tx_packet
        first == Add3Bytes(tx_packets[last], h, t)
        next  == Add3Bytes(ble_midi_writer_reset(tx_packets[NextPacket]), h, t)
    IN  IF first.rc # "PACKET_FULL" \/ NoFreePacket
        THEN [rc |-> first.rc, w |-> first.w, packet |-> last, grow |-> 0]
        ELSE [rc |-> next.rc, w |-> next.w, packet |-> NextPacket, grow |-> 1]

add_3_byte_chunk_to_tx_packet(t) ==
    LET h == Head(fifo).head
        a == Attempt(h, t)
    IN  /\ AtChunk
        /\ h[1] >= 128
        /\ tx_packets' = [tx_packets EXCEPT ![a.packet] = a.w]
        /\ tx_packet_count' = tx_packet_count + a.grow
        /\ \/ /\ a.rc = "SUCCESS"
              /\ has_tx_data' = TRUE
              /\ held' = [held EXCEPT ![a.packet] = @ \o h]
              /\ ConsumeChunk
              /\ UNCHANGED reader
           \/ /\ a.rc = "PACKET_FULL"
              /\ reader' = "idle"
              /\ UNCHANGED <<fifoVars, outstanding, has_tx_data, held>>
           \/ /\ a.rc \notin {"SUCCESS", "PACKET_FULL"}
              /\ ConsumeChunk
              /\ UNCHANGED <<reader, has_tx_data, held>>
        /\ UNCHANGED <<first_tx_packet_idx, prodVars, chunkVars,
                       sysex_chunk_scratch_buf, num_bytes_added>>

(* A sysex data chunk is copied to the scratch buffer.  If its bytes are   *)
(* not in the FIFO yet there is nothing to add and the reader gives up.    *)
ReadDataChunk ==
    /\ AtChunk
    /\ Head(fifo).head[1] = SYSEX_DATA_CHUNK_ID
    /\ sysex_chunk_scratch_buf' = Head(fifo).head \o Head(fifo).data
    /\ num_bytes_added' = 0
    /\ reader' = IF Head(fifo).data = <<>> THEN "idle" ELSE "chunk"
    /\ UNCHANGED <<fifoVars, outstanding, prodVars, packetVars, chunkVars>>

ReadRest ==
    /\ reader = "loop"
    /\ fifo # <<>>
    /\ num_remaining_data_bytes > 0
    /\ num_bytes_added' = 0
    /\ reader' = "rest"
    /\ UNCHANGED <<fifoVars, outstanding, prodVars, packetVars, chunkVars,
                   sysex_chunk_scratch_buf>>

(* Faulty: the rest of a chunk starts where the chunk starts.              *)
DataOffsetOfChunk == SYSEX_DATA_CHUNK_HEADER_SIZE

(* The arguments of add_data_bytes_to_tx_packet: offset of the bytes in    *)
(* the scratch buffer, and how many.                                       *)
DataOffset == IF reader = "chunk"
              THEN SYSEX_DATA_CHUNK_HEADER_SIZE
              ELSE curr_sysex_data_chunk_size - num_remaining_data_bytes
ByteCount  == IF reader = "chunk"
              THEN Len(sysex_chunk_scratch_buf) - SYSEX_DATA_CHUNK_HEADER_SIZE
              ELSE num_remaining_data_bytes

DataToAdd == SubSeq(sysex_chunk_scratch_buf,
                    DataOffset + num_bytes_added + 1, DataOffset + ByteCount)

(* What tx_queue_read_from_fifo does with a result that is not an error.   *)
DataReturns(added) ==
    IF added = 0
    THEN /\ reader' = "idle"
         /\ UNCHANGED <<fifoVars, outstanding, chunkVars>>
    ELSE /\ reader' = "loop"
         /\ IF reader = "chunk"
            THEN /\ num_remaining_data_bytes' =
                        Decode16(Head(fifo).head[2], Head(fifo).head[3]) - added
                 /\ curr_sysex_data_chunk_size' =
                        SYSEX_DATA_CHUNK_HEADER_SIZE
                        + Decode16(Head(fifo).head[2], Head(fifo).head[3])
                 /\ ConsumeChunk
            ELSE /\ num_remaining_data_bytes' = num_remaining_data_bytes - added
                 /\ UNCHANGED <<fifoVars, outstanding, curr_sysex_data_chunk_size>>

(* One iteration of add_data_bytes_to_tx_packet that adds bytes: more are  *)
(* left and the ring has a free packet, or the function returns.           *)
AddDataBytes(t) ==
    LET last  == tx_queue_last_tx_packet
        r     == ble_midi_writer_add_sysex_data(tx_packets[last], DataToAdd, t)
        added == num_bytes_added + r.n
        more  == added < ByteCount /\ ~NoFreePacket
        done  == [tx_packets EXCEPT ![last] = r.w]
    IN  /\ reader \in {"chunk", "rest"}
        /\ r.rc = "SUCCESS"
        /\ held' = [held EXCEPT ![last] = @ \o SubSeq(DataToAdd, 1, r.n)]
        /\ num_bytes_added' = added
        /\ IF more
           THEN /\ tx_packet_count' = tx_packet_count + 1
                /\ tx_packets' = [done EXCEPT ![NextPacket] = ble_midi_writer_reset(@)]
                /\ UNCHANGED <<has_tx_data, reader, fifoVars, outstanding, chunkVars>>
           ELSE /\ tx_packets' = done
                /\ has_tx_data' = (has_tx_data \/ added > 0)
                /\ DataReturns(added)
                /\ UNCHANGED tx_packet_count
        /\ UNCHANGED <<first_tx_packet_idx, prodVars, sysex_chunk_scratch_buf>>

(* Invalid data: a new chunk is skipped, the rest of the current one is    *)
(* left as it is.                                                          *)
SkipNothing == UNCHANGED <<fifoVars, outstanding>>   \* faulty: never skipped
SkipInvalid == IF reader = "chunk" THEN ConsumeChunk
               ELSE UNCHANGED <<fifoVars, outstanding>>

(* The writer rejects the bytes; the loop goes round.                      *)
RejectDataBytes(t) ==
    /\ reader \in {"chunk", "rest"}
    /\ ble_midi_writer_add_sysex_data(tx_packets[tx_queue_last_tx_packet],
                                      DataToAdd, t).rc # "SUCCESS"
    /\ SkipInvalid
    /\ reader' = "loop"
    /\ UNCHANGED <<prodVars, packetVars, chunkVars, sysex_chunk_scratch_buf,
                   num_bytes_added>>

-----------------------------------------------------------------------------
ClientStep ==
    \/ \E m \in Messages : tx_queue_fifo_add_msg(m)
    \/ tx_queue_fifo_add_sysex_start
    \/ tx_queue_fifo_add_sysex_end
    \/ \E d \in SysexData : WriteSysexDataHeader(d)
    \/ WriteSysexDataBytes

ReaderStep ==
    \/ ReadEmpty
    \/ ReadSizeChunk
    \/ \E t \in Timestamps : add_3_byte_chunk_to_tx_packet(t)
    \/ ReadDataChunk
    \/ ReadRest
    \/ \E t \in Timestamps : AddDataBytes(t)
    \/ \E t \in Timestamps : RejectDataBytes(t)

Next ==
    \/ ClientStep
    \/ \E m \in Mtus : MtuChanged(m)
    \/ \E m \in Mtus : Connected(m)
    \/ tx_queue_on_tx_packet_sent
    \/ ReadStart
    \/ ReaderStep

Spec == Init /\ [][Next]_vars

(* A call of tx_queue_read_from_fifo that has started keeps running.       *)
FairSpec == Spec /\ WF_vars(ReaderStep)

-----------------------------------------------------------------------------
(* Properties.                                                             *)

(* Bytes of the current chunk that are in the scratch buffer only.         *)
RestOfChunk == SubSeq(sysex_chunk_scratch_buf,
                      curr_sysex_data_chunk_size - num_remaining_data_bytes + 1,
                      curr_sysex_data_chunk_size)

(* The MIDI bytes in the packets in use, oldest packet first.              *)
HeldInOrder ==
    IF tx_packet_count = 1
    THEN held[first_tx_packet_idx]
    ELSE FlattenSeq([k \in 1 .. tx_packet_count |->
             held[(first_tx_packet_idx + k - 1) % TX_QUEUE_PACKET_COUNT]])

(* StreamPreserved: the bytes in the packets, oldest packet first, and     *)
(* then the bytes of the current sysex chunk that found no room, are the   *)
(* valid bytes taken from the FIFO by tx_queue_read_from_fifo and not yet  *)
(* sent: none is lost, duplicated, reordered or invented, whatever packet  *)
(* boundaries a sysex message meets and whenever packets are sent.         *)
StreamPreserved ==
    reader \in {"idle", "loop"} => HeldInOrder \o RestOfChunk = outstanding

(* PacketsFit: no packet is larger than its buffer, than its own limit or  *)
(* than the notification the connection's MTU allows (MTU - 3), although   *)
(* the limit reaches the packets late, through the FIFO, and may be lost   *)
(* when the FIFO is full.                                                  *)
PacketsFit ==
    \A i \in PacketIdx :
        /\ Len(tx_packets[i].tx_buf) <= tx_packets[i].tx_buf_max_size
        /\ tx_packets[i].tx_buf_max_size <= BLE_MIDI_TX_PACKET_MAX_SIZE
        /\ tx_packets[i].tx_buf_max_size <= mtu - 3

(* HasDataMeansPacket: between calls of tx_queue_read_from_fifo,           *)
(* has_tx_data tells exactly whether the first packet has bytes to send,   *)
(* so that tx_queue_first_tx_packet never hands out an empty packet and    *)
(* never hides one that is waiting.                                        *)
HasDataMeansPacket ==
    reader = "idle" =>
        (has_tx_data <=> tx_packets[first_tx_packet_idx].tx_buf # <<>>)

(* ReadTerminates: every call of tx_queue_read_from_fifo returns.          *)
ReadTerminates == (reader # "idle") ~> (reader = "idle")
=============================================================================
