-------------------------- MODULE BleMidiTxProofs --------------------------
(***************************************************************************)
(* Theorems about the transmit queue and the buffered transmit path around *)
(* it, for every value of their constants.  The queue comes first.         *)
(*                                                                         *)
(* PacketsFit is not inductive: the limit of the packets comes from the    *)
(* chunks that on_mtu_changed has written to the FIFO, at a time when the  *)
(* MTU may have been another.  FitInv adds what is in the FIFO: the limits *)
(* waiting there are in ascending order, none is below the limit that the  *)
(* packets have now, and none exceeds what the MTU allows now.             *)
(*                                                                         *)
(* StreamPreserved is about the bytes only.  That a step keeps it depends  *)
(* on what the packet writer does with the next chunk, which depends on    *)
(* the writer's in_sysex_msg, on its limit and on whether it is empty.     *)
(* StreamInv says how these are related to the chunks in the FIFO:         *)
(*   - the writers are in a sysex message exactly when the client was,     *)
(*     before the first chunk in the FIFO;                                 *)
(*   - an empty packet has room for any message, or the limit that says so *)
(*     is the first chunk in the FIFO;                                     *)
(*   - the packets that are not in use hold nothing, and those in use are  *)
(*     not empty, except a single one when there is nothing to send.       *)
(*                                                                         *)
(* The packets hold the concatenation of sequences, FlattenSeq, which is   *)
(* recursive.  What the proofs need of it is derived from the              *)
(* well-foundedness of the natural numbers, in its first-order form (a set *)
(* of numbers has a least element).                                        *)
(*                                                                         *)
(* Every step of the path is a step of the queue or leaves the queue       *)
(* alone: what is proved of the queue holds of the queue at its place      *)
(* between the API, the work queue and the Bluetooth stack.                *)
(*                                                                         *)
(* The last part shows that the path implements MidiStream.  StreamInv     *)
(* makes the bytes that are pending those taken from the FIFO and not      *)
(* sent, followed by those of the chunks in the FIFO, so that a step needs *)
(* to be followed through two sequences only.                              *)
(***************************************************************************)
EXTENDS BleMidiTx, BleMidiPacketProofs

(* A 16 bit count survives its encoding in two bytes of a chunk header     *)
(* (tx_queue_fifo_add_sysex_data against tx_queue_read_from_fifo).         *)
LEMMA Encode16 ==
    ASSUME NEW n \in Nat, n < 65536
    PROVE  /\ Lsb(n) \in Byte /\ Msb(n) \in Byte
           /\ Decode16(Lsb(n), Msb(n)) = n
<1> DEFINE q == n \div 256
<1>1. n % 256 \in 0 .. 255 /\ n = 256 * q + (n % 256)
  OBVIOUS
<1>2. q \in 0 .. 255
  <2>1. q \in Int
    OBVIOUS
  <2>2. ASSUME NEW m \in Int, NEW d \in Int, NEW r \in Int,
               0 <= m, m <= 65535, 0 <= r, r <= 255, m = 256 * d + r
        PROVE  0 <= d /\ d <= 255
    BY <2>2
  <2>3. 0 <= n /\ n <= 65535 /\ n % 256 \in Int /\ 0 <= n % 256 /\ n % 256 <= 255
    BY <1>1
  <2> HIDE DEF q
  <2>4. 0 <= q /\ q <= 255
    BY <1>1, <2>1, <2>2, <2>3
  <2> QED BY <2>1, <2>4
<1>3. q % 256 = q
  <2> HIDE DEF q
  <2> QED BY <1>2
<1> HIDE DEF q
<1>4. Msb(n) = q
  BY <1>3 DEF Msb, q
<1> QED BY <1>1, <1>2, <1>4 DEF Lsb, Decode16, Byte

(* Indices computed modulo the number of packets are indices of packets.   *)
LEMMA RingIndices ==
    ASSUME TypeOK
    PROVE  /\ tx_queue_last_tx_packet \in PacketIdx
           /\ NextPacket \in PacketIdx
           /\ (first_tx_packet_idx + 1) % TX_QUEUE_PACKET_COUNT \in PacketIdx
<1>1. TX_QUEUE_PACKET_COUNT \in Nat /\ TX_QUEUE_PACKET_COUNT > 0
  BY PacketCountAssumption
<1>2. first_tx_packet_idx \in Nat /\ tx_packet_count \in Nat /\ tx_packet_count >= 1
  BY <1>1 DEF TypeOK, PacketIdx
<1>3. ASSUME NEW k \in Nat
      PROVE  k % TX_QUEUE_PACKET_COUNT \in 0 .. TX_QUEUE_PACKET_COUNT - 1
  BY <1>1
<1>4. /\ first_tx_packet_idx + tx_packet_count - 1 \in Nat
      /\ first_tx_packet_idx + tx_packet_count \in Nat
      /\ first_tx_packet_idx + 1 \in Nat
  BY <1>2
<1> QED BY <1>3, <1>4 DEF tx_queue_last_tx_packet, NextPacket, PacketIdx

-----------------------------------------------------------------------------
(* Type correctness.  That num_remaining_data_bytes stays a natural number *)
(* and that only bytes of the scratch buffer are read needs the relation   *)
(* between chunk headers, chunk data and the scratch buffer.               *)

IsData(c)    == c.head[1] = SYSEX_DATA_CHUNK_ID
DataCount(c) == Decode16(c.head[2], c.head[3])

(* The header of a data chunk holds the number of data bytes that follow,  *)
(* once they are there.                                                    *)
ChunksOK ==
    \A i \in 1 .. Len(fifo) :
        IsData(fifo[i]) =>
            fifo[i].data = <<>> \/ Len(fifo[i].data) = DataCount(fifo[i])

(* While tx_queue_fifo_add_sysex_data is between its two writes, the chunk *)
(* it writes is the last one and announces the bytes to come.              *)
WritingOK ==
    writing # <<>> =>
        /\ fifo # <<>>
        /\ IsData(fifo[Len(fifo)])
        /\ fifo[Len(fifo)].data = <<>>
        /\ DataCount(fifo[Len(fifo)]) = Len(writing)
        /\ Len(writing) <= fifo_free_space

(* Inside add_data_bytes_to_tx_packet for a new chunk.                     *)
ChunkReadOK ==
    reader = "chunk" =>
        /\ fifo # <<>>
        /\ IsData(fifo[1])
        /\ fifo[1].data # <<>>
        /\ sysex_chunk_scratch_buf = fifo[1].head \o fifo[1].data
        /\ num_remaining_data_bytes = 0
        /\ num_bytes_added < Len(fifo[1].data)

(* Inside add_data_bytes_to_tx_packet for the rest of a chunk.             *)
RestReadOK ==
    /\ reader = "rest" => num_bytes_added < num_remaining_data_bytes
    /\ num_remaining_data_bytes > 0 =>
        /\ curr_sysex_data_chunk_size <= Len(sysex_chunk_scratch_buf)
        /\ curr_sysex_data_chunk_size - num_remaining_data_bytes
               >= SYSEX_DATA_CHUNK_HEADER_SIZE

TypeInv == TypeOK /\ ChunksOK /\ WritingOK /\ ChunkReadOK /\ RestReadOK

(* The packet size that on_mtu_changed computes fits in a chunk header.    *)
LEMMA SizeChunks ==
    ASSUME NEW m \in Mtus
    PROVE  /\ MaxSizeFor(m) \in 5 .. BLE_MIDI_TX_PACKET_MAX_SIZE
           /\ MaxSizeFor(m) <= m - 3
           /\ SizeChunkHead(MaxSizeFor(m)) \in ThreeBytes
           /\ SizeChunkHead(MaxSizeFor(m))[1] = TX_MAX_PACKET_SIZE_CHUNK_ID
           /\ Decode16(SizeChunkHead(MaxSizeFor(m))[2],
                       SizeChunkHead(MaxSizeFor(m))[3]) = MaxSizeFor(m)
<1>1. m \in Int /\ m >= 8 /\ m < 65536
  BY MtusAssumption
<1>2. BLE_MIDI_TX_PACKET_MAX_SIZE \in Nat /\ BLE_MIDI_TX_PACKET_MAX_SIZE >= 5
  BY WriterConstants, PacketHoldsMessage
<1>3. /\ MaxSizeFor(m) \in 5 .. BLE_MIDI_TX_PACKET_MAX_SIZE
      /\ MaxSizeFor(m) <= m - 3
      /\ MaxSizeFor(m) \in Nat /\ MaxSizeFor(m) < 65536
  BY <1>1, <1>2 DEF MaxSizeFor
<1>4. /\ Lsb(MaxSizeFor(m)) \in Byte /\ Msb(MaxSizeFor(m)) \in Byte
      /\ Decode16(Lsb(MaxSizeFor(m)), Msb(MaxSizeFor(m))) = MaxSizeFor(m)
  BY <1>3, Encode16
<1>5. TX_MAX_PACKET_SIZE_CHUNK_ID \in Byte
  BY DEF TX_MAX_PACKET_SIZE_CHUNK_ID, Byte
<1> QED BY <1>3, <1>4, <1>5 DEF SizeChunkHead, ThreeBytes

(* A writer with another limit is a writer.                                *)
LEMMA WithMaxSizeType ==
    ASSUME NEW w \in Writer, NEW size \in 0 .. BLE_MIDI_TX_PACKET_MAX_SIZE
    PROVE  /\ WithMaxSize(w, size) \in Writer
           /\ WithMaxSize(w, size).tx_buf_max_size = size
           /\ WithMaxSize(w, size).tx_buf = w.tx_buf
           /\ WithMaxSize(w, size).in_sysex_msg = w.in_sysex_msg
  BY DEF WithMaxSize, Writer

(* The packets after tx_queue_init: empty, and allowed to hold nothing.    *)
LEMMA ResetPackets ==
    /\ WithMaxSize(ble_midi_writer_init, 0) \in Writer
    /\ WithMaxSize(ble_midi_writer_init, 0).tx_buf = <<>>
    /\ WithMaxSize(ble_midi_writer_init, 0).tx_buf_max_size = 0
    /\ WithMaxSize(ble_midi_writer_init, 0).in_sysex_msg = FALSE
<1>1. 0 \in 0 .. BLE_MIDI_TX_PACKET_MAX_SIZE
  BY WriterConstants
<1>2. ble_midi_writer_init.in_sysex_msg = FALSE
  BY DEF ble_midi_writer_init
<1> QED BY <1>1, <1>2, FreshWriters, WithMaxSizeType

(* Init establishes the type invariant.                                    *)
LEMMA TypeInit == Init => TypeInv
<1> SUFFICES ASSUME Init PROVE TypeInv
  OBVIOUS
<1> DEFINE c == [head |-> SizeChunkHead(MaxSizeFor(mtu)), data |-> <<>>, open |-> FALSE]
<1>1. mtu \in Mtus
  BY DEF Init
<1>2. c \in Chunk /\ ~IsData(c)
  <2>1. c.head \in ThreeBytes /\ c.head[1] = TX_MAX_PACKET_SIZE_CHUNK_ID
    BY <1>1, SizeChunks
  <2>2. <<>> \in Seq(Byte)
    OBVIOUS
  <2> QED BY <2>1, <2>2 DEF Chunk, ThreeBytes, IsData,
                          TX_MAX_PACKET_SIZE_CHUNK_ID, SYSEX_DATA_CHUNK_ID
<1>3. fifo = <<c>>
  BY DEF Init
<1> HIDE DEF c
<1>4. fifo \in Seq(Chunk) /\ Len(fifo) = 1 /\ fifo[1] = c
  BY <1>2, <1>3
<1>5. tx_packets \in [PacketIdx -> Writer] /\ held \in [PacketIdx -> Seq(Byte)]
  BY ResetPackets DEF Init
<1>6. first_tx_packet_idx \in PacketIdx
      /\ tx_packet_count \in 1 .. TX_QUEUE_PACKET_COUNT
  BY PacketCountAssumption DEF Init, PacketIdx
<1>7. fifo_free_space \in Nat
  BY FifoAssumption DEF Init
<1>8. TypeOK
  BY <1>1, <1>4, <1>5, <1>6, <1>7 DEF TypeOK, Init
<1>9. ChunksOK
  BY <1>2, <1>4 DEF ChunksOK
<1> QED
  BY <1>8, <1>9 DEF TypeInv, WritingOK, ChunkReadOK, RestReadOK, Init

(* A message is a sequence of three bytes.                                 *)
LEMMA ThreeBytesAreSequences ==
    ASSUME NEW h \in ThreeBytes
    PROVE  h \in Seq(Byte) /\ Len(h) = 3
<1>1. PICK a \in Byte, b \in Byte, c \in Byte : h = <<a, b, c>>
  BY DEF ThreeBytes
<1> QED BY <1>1

(* The bytes a chunk stands for are bytes.                                 *)
LEMMA PayloadType == ASSUME NEW c \in Chunk PROVE Payload(c) \in Seq(Byte)
<1>1. c.head \in ThreeBytes /\ c.data \in Seq(Byte)
  BY DEF Chunk, ThreeBytes
<1> QED BY <1>1, ThreeBytesAreSequences DEF Payload

(* The FIFO after a chunk without data bytes has been appended.            *)
LEMMA AppendedChunk ==
    ASSUME TypeInv, NEW c \in Chunk, c.data = <<>>,
           fifo' = Append(fifo, c), UNCHANGED <<chunkVars, readVars>>
    PROVE  /\ fifo' \in Seq(Chunk) /\ fifo' # <<>>
           /\ fifo'[Len(fifo')] = c
           /\ ChunksOK' /\ ChunkReadOK' /\ RestReadOK'
<1>1. fifo \in Seq(Chunk) /\ Len(fifo) \in Nat
  BY DEF TypeInv, TypeOK
<1>2. /\ fifo' \in Seq(Chunk) /\ fifo' # <<>>
      /\ Len(fifo') = Len(fifo) + 1
      /\ \A i \in 1 .. Len(fifo) : fifo'[i] = fifo[i]
      /\ fifo'[Len(fifo) + 1] = c
  BY <1>1, AppendProperties
<1>3. fifo'[Len(fifo')] = c
  BY <1>2
<1>4. ChunksOK'
  <2> SUFFICES ASSUME NEW i \in 1 .. Len(fifo'), IsData(fifo'[i])
               PROVE  fifo'[i].data = <<>>
                      \/ Len(fifo'[i].data) = DataCount(fifo'[i])
    BY DEF ChunksOK, IsData, DataCount
  <2>1. CASE i \in 1 .. Len(fifo)
    BY <1>2, <2>1 DEF TypeInv, ChunksOK
  <2>2. CASE i = Len(fifo) + 1
    BY <1>2, <2>2
  <2> QED BY <1>1, <1>2, <2>1, <2>2
<1>5. ChunkReadOK'
  <2>1. fifo # <<>> => fifo'[1] = fifo[1]
    BY <1>1, <1>2
  <2> QED BY <1>2, <2>1 DEF TypeInv, ChunkReadOK, IsData, chunkVars, readVars
<1>6. RestReadOK'
  BY DEF TypeInv, RestReadOK, chunkVars, readVars
<1> QED BY <1>2, <1>3, <1>4, <1>5, <1>6

(* The FIFO after its first chunk has been read; a chunk whose bytes are   *)
(* still to come is never read.                                            *)
LEMMA ConsumedChunk ==
    ASSUME TypeInv, fifo # <<>>, ConsumeChunk, writing' = writing,
           IsData(fifo[1]) => fifo[1].data # <<>>
    PROVE  /\ fifo' \in Seq(Chunk)
           /\ fifo_free_space' \in Nat
           /\ outstanding' \in Seq(Byte)
           /\ ChunksOK' /\ WritingOK'
<1>1. fifo \in Seq(Chunk) /\ Len(fifo) \in Nat /\ Len(fifo) >= 1
      /\ outstanding \in Seq(Byte)
  BY DEF TypeInv, TypeOK
<1>2. /\ fifo' = Tail(fifo) /\ fifo' \in Seq(Chunk)
      /\ Head(fifo) = fifo[1] /\ Head(fifo) \in Chunk
      /\ Len(fifo') = Len(fifo) - 1
      /\ \A i \in 1 .. Len(fifo') : fifo'[i] = fifo[i + 1]
  BY <1>1, HeadTailProperties DEF ConsumeChunk
<1>3. outstanding' \in Seq(Byte)
  <2>1. Payload(Head(fifo)) \in Seq(Byte) /\ <<>> \in Seq(Byte)
    BY <1>2, PayloadType
  <2>2. (IF Valid(Head(fifo)) THEN Payload(Head(fifo)) ELSE <<>>) \in Seq(Byte)
    BY <2>1
  <2> QED BY <1>1, <2>2, ConcatProperties DEF ConsumeChunk
<1>4. fifo_free_space' \in Nat /\ fifo_free_space' >= fifo_free_space
  <2>1. Len(Head(fifo).data) \in Nat /\ fifo_free_space \in Nat
    BY <1>2 DEF Chunk, TypeInv, TypeOK
  <2> QED BY <2>1 DEF ConsumeChunk, ChunkSize, SYSEX_DATA_CHUNK_HEADER_SIZE
<1>5. ChunksOK'
  <2> SUFFICES ASSUME NEW i \in 1 .. Len(fifo'), IsData(fifo'[i])
               PROVE  fifo'[i].data = <<>>
                      \/ Len(fifo'[i].data) = DataCount(fifo'[i])
    BY DEF ChunksOK, IsData, DataCount
  <2>1. fifo'[i] = fifo[i + 1] /\ i + 1 \in 1 .. Len(fifo)
    BY <1>1, <1>2
  <2> QED BY <2>1 DEF TypeInv, ChunksOK
<1>6. WritingOK'
  <2> SUFFICES ASSUME writing # <<>>
               PROVE  /\ fifo' # <<>>
                      /\ IsData(fifo'[Len(fifo')])
                      /\ fifo'[Len(fifo')].data = <<>>
                      /\ DataCount(fifo'[Len(fifo')]) = Len(writing)
                      /\ Len(writing) <= fifo_free_space'
    BY DEF WritingOK, IsData, DataCount
  <2>1. /\ IsData(fifo[Len(fifo)]) /\ fifo[Len(fifo)].data = <<>>
        /\ DataCount(fifo[Len(fifo)]) = Len(writing)
        /\ Len(writing) <= fifo_free_space
    BY DEF TypeInv, WritingOK
  <2>2. Len(writing) <= fifo_free_space'
    <3>1. Len(writing) \in Nat /\ fifo_free_space \in Nat
      BY DEF TypeInv, TypeOK
    <3> QED BY <1>4, <2>1, <3>1
  <2>3. Len(fifo) # 1
    BY <2>1
  <2>4. Len(fifo') >= 1 /\ fifo'[Len(fifo')] = fifo[Len(fifo)]
    BY <1>1, <1>2, <2>3
  <2>5. fifo' # <<>>
    BY <1>2, <2>4
  <2> QED BY <2>1, <2>4, <2>5, <2>2
<1> QED BY <1>2, <1>3, <1>5, <1>6, <1>4

(* The three byte chunks that clients write are chunks.                    *)
LEMMA ThreeByteChunkType ==
    ASSUME TypeOK, NEW h \in ThreeBytes
    PROVE  /\ ThreeByteChunk(h) \in Chunk
           /\ ThreeByteChunk(h).head = h
           /\ ThreeByteChunk(h).data = <<>>
           /\ ThreeByteChunk(h).open = open
<1>1. <<>> \in Seq(Byte) /\ open \in BOOLEAN
  BY DEF TypeOK
<1> QED BY <1>1 DEF ThreeByteChunk, Chunk, ThreeBytes

(* write_3_byte_chunk_to_fifo between complete calls.                      *)
LEMMA TypeWrite3 ==
    ASSUME TypeInv, NEW h \in ThreeBytes, write_3_byte_chunk_to_fifo(h),
           writing = <<>>, writing' = writing,
           UNCHANGED <<outstanding, packetVars, chunkVars, readVars>>,
           open' \in BOOLEAN, mtu' \in Mtus
    PROVE  TypeInv'
<1>1. ThreeByteChunk(h) \in Chunk /\ ThreeByteChunk(h).data = <<>>
  BY ThreeByteChunkType DEF TypeInv
<1>2. /\ fifo' \in Seq(Chunk)
      /\ ChunksOK' /\ ChunkReadOK' /\ RestReadOK'
  BY <1>1, AppendedChunk DEF write_3_byte_chunk_to_fifo
<1>3. fifo_free_space' \in Nat
  BY DEF TypeInv, TypeOK, write_3_byte_chunk_to_fifo
<1>4. TypeOK'
  BY <1>2, <1>3 DEF TypeInv, TypeOK, packetVars, chunkVars, readVars
<1>5. WritingOK'
  BY DEF WritingOK
<1> QED BY <1>2, <1>4, <1>5 DEF TypeInv

(* The first write of tx_queue_fifo_add_sysex_data.                        *)
LEMMA TypeWriteHeader ==
    ASSUME TypeInv, NEW bytes \in SysexData, WriteSysexDataHeader(bytes)
    PROVE  /\ TypeInv'
           /\ writing' # <<>>
<1> DEFINE n == NumBytesToSend(Len(bytes))
           h == <<SYSEX_DATA_CHUNK_ID, Lsb(n), Msb(n)>>
<1>1. bytes \in Seq(Byte) /\ Len(bytes) \in Nat /\ Len(bytes) > 0
  BY SysexDataAssumption
<1>2. n \in Nat /\ n > 0 /\ n < 65536 /\ n <= Len(bytes)
      /\ n <= fifo_free_space - SYSEX_DATA_CHUNK_HEADER_SIZE
      /\ fifo_free_space - SYSEX_DATA_CHUNK_HEADER_SIZE \in Nat
  <2>1. fifo_free_space \in Nat /\ fifo_free_space > 3
    BY DEF TypeInv, TypeOK, WriteSysexDataHeader, SYSEX_DATA_CHUNK_HEADER_SIZE
  <2> QED BY <1>1, <2>1, ChunkSizeAssumption
          DEF NumBytesToSend, SYSEX_DATA_CHUNK_HEADER_SIZE
<1> HIDE DEF n
<1>3. h \in ThreeBytes /\ h[1] = SYSEX_DATA_CHUNK_ID
      /\ Decode16(h[2], h[3]) = n
  <2>1. SYSEX_DATA_CHUNK_ID \in Byte
    BY DEF SYSEX_DATA_CHUNK_ID, Byte
  <2>2. Lsb(n) \in Byte /\ Msb(n) \in Byte /\ Decode16(Lsb(n), Msb(n)) = n
    BY <1>2, Encode16
  <2> QED BY <2>1, <2>2 DEF ThreeBytes
<1>4. /\ fifo' = Append(fifo, ThreeByteChunk(h))
      /\ writing' = SubSeq(bytes, 1, n)
      /\ fifo_free_space' = fifo_free_space - SYSEX_DATA_CHUNK_HEADER_SIZE
      /\ UNCHANGED <<outstanding, open, mtu, packetVars, chunkVars, readVars>>
  BY DEF WriteSysexDataHeader, n
<1> HIDE DEF h
<1>5. /\ ThreeByteChunk(h) \in Chunk /\ ThreeByteChunk(h).data = <<>>
      /\ ThreeByteChunk(h).head = h
  BY <1>3, ThreeByteChunkType DEF TypeInv
<1>6. /\ fifo' \in Seq(Chunk) /\ fifo' # <<>>
      /\ fifo'[Len(fifo')] = ThreeByteChunk(h)
      /\ ChunksOK' /\ ChunkReadOK' /\ RestReadOK'
  BY <1>4, <1>5, AppendedChunk
<1>7. writing' \in Seq(Byte) /\ Len(writing') = n
  <2>1. \A i \in 1 .. n : bytes[i] \in Byte
    BY <1>1, <1>2, ElementOfSeq
  <2> QED BY <1>2, <1>4, <2>1, SubSeqProperties
<1>8. TypeOK'
  BY <1>2, <1>4, <1>6, <1>7 DEF TypeInv, TypeOK, packetVars, chunkVars, readVars
<1>9. WritingOK'
  BY <1>2, <1>3, <1>4, <1>5, <1>6, <1>7 DEF WritingOK, IsData, DataCount
<1>10. writing' # <<>>
  BY <1>2, <1>7
<1> QED BY <1>6, <1>8, <1>9, <1>10 DEF TypeInv

(* The second write completes the last chunk.                              *)
LEMMA TypeWriteBytes ==
    ASSUME TypeInv, WriteSysexDataBytes
    PROVE  /\ TypeInv'
           /\ Len(fifo') = Len(fifo)
           /\ \A i \in 1 .. Len(fifo) : /\ fifo'[i].head = fifo[i].head
                                        /\ fifo'[i].open = fifo[i].open
<1> DEFINE k == Len(fifo)
           c == [fifo[k] EXCEPT !.data = writing]
<1>1. fifo \in Seq(Chunk) /\ writing \in Seq(Byte) /\ k \in Nat
  BY DEF TypeInv, TypeOK
<1>2. /\ fifo # <<>> /\ IsData(fifo[k]) /\ fifo[k].data = <<>>
      /\ DataCount(fifo[k]) = Len(writing)
      /\ Len(writing) <= fifo_free_space
  BY DEF TypeInv, WritingOK, WriteSysexDataBytes
<1>3. k \in 1 .. Len(fifo) /\ fifo[k] \in Chunk
  BY <1>1, <1>2
<1>4. /\ c \in Chunk /\ c.head = fifo[k].head /\ c.data = writing
      /\ c.open = fifo[k].open
  BY <1>1, <1>3 DEF Chunk
<1>5. fifo' = [fifo EXCEPT ![k] = c]
  BY DEF WriteSysexDataBytes
<1> HIDE DEF k, c
<1>6. /\ fifo' \in Seq(Chunk) /\ Len(fifo') = Len(fifo)
      /\ fifo'[k] = c
      /\ \A i \in 1 .. Len(fifo) : i # k => fifo'[i] = fifo[i]
  BY <1>1, <1>3, <1>4, <1>5, ExceptSeq
<1>7. ChunksOK'
  <2> SUFFICES ASSUME NEW i \in 1 .. Len(fifo'), IsData(fifo'[i])
               PROVE  fifo'[i].data = <<>>
                      \/ Len(fifo'[i].data) = DataCount(fifo'[i])
    BY DEF ChunksOK, IsData, DataCount
  <2>1. CASE i = k
    BY <1>2, <1>4, <1>6, <2>1 DEF DataCount
  <2>2. CASE i # k
    BY <1>6, <2>2 DEF TypeInv, ChunksOK
  <2> QED BY <2>1, <2>2
<1>8. fifo' # <<>>
  BY <1>1, <1>2, <1>6
<1>9. ChunkReadOK'
  <2> SUFFICES ASSUME reader = "chunk"
               PROVE  /\ fifo' # <<>>
                      /\ IsData(fifo'[1])
                      /\ fifo'[1].data # <<>>
                      /\ sysex_chunk_scratch_buf = fifo'[1].head \o fifo'[1].data
                      /\ num_remaining_data_bytes = 0
                      /\ num_bytes_added < Len(fifo'[1].data)
    BY DEF ChunkReadOK, IsData, WriteSysexDataBytes, chunkVars, readVars
  <2>1. fifo[1].data # <<>>
    BY DEF TypeInv, ChunkReadOK
  <2>2. 1 # k /\ 1 \in 1 .. Len(fifo)
    BY <1>1, <1>2, <1>3, <2>1 DEF k
  <2>3. fifo'[1] = fifo[1]
    BY <1>6, <2>2
  <2> QED BY <1>8, <2>3 DEF TypeInv, ChunkReadOK
<1>10. RestReadOK' /\ WritingOK'
  BY DEF TypeInv, RestReadOK, WritingOK, WriteSysexDataBytes, chunkVars, readVars
<1>11. fifo_free_space' \in Nat /\ writing' \in Seq(Byte)
  BY <1>1, <1>2 DEF TypeInv, TypeOK, WriteSysexDataBytes
<1>12. TypeOK'
  BY <1>6, <1>11
     DEF TypeInv, TypeOK, WriteSysexDataBytes, packetVars, chunkVars, readVars
<1>13. \A i \in 1 .. Len(fifo) : /\ fifo'[i].head = fifo[i].head
                                 /\ fifo'[i].open = fifo[i].open
  BY <1>4, <1>6
<1> QED BY <1>6, <1>7, <1>9, <1>10, <1>12, <1>13 DEF TypeInv

(* Part of a sequence of bytes.                                            *)
LEMMA SubSeqOfBytes ==
    ASSUME NEW s \in Seq(Byte), NEW a \in Int, NEW b \in Int,
           1 <= a, a <= b + 1, b <= Len(s)
    PROVE  /\ SubSeq(s, a, b) \in Seq(Byte)
           /\ Len(SubSeq(s, a, b)) = b - a + 1
           /\ \A i \in 1 .. b - a + 1 : SubSeq(s, a, b)[i] = s[a + i - 1]
<1>1. \A i \in a .. b : s[i] \in Byte
  <2> SUFFICES ASSUME NEW i \in a .. b PROVE s[i] \in Byte
    OBVIOUS
  <2>1. i \in 1 .. Len(s)
    OBVIOUS
  <2> QED BY <2>1, ElementOfSeq
<1>2. SubSeq(s, a, b) \in Seq(Byte)
  BY <1>1, SubSeqProperties
<1>3. Len(SubSeq(s, a, b)) = b - a + 1
  BY <1>1, SubSeqProperties
<1>4. \A i \in 1 .. b - a + 1 : SubSeq(s, a, b)[i] = s[a + i - 1]
  BY <1>1, SubSeqProperties
<1> QED BY <1>2, <1>3, <1>4

(* The arguments of add_data_bytes_to_tx_packet lie in the scratch buffer. *)
LEMMA DataToAddType ==
    ASSUME TypeInv, reader \in {"chunk", "rest"}
    PROVE  /\ ByteCount \in Nat /\ num_bytes_added < ByteCount
           /\ DataOffset \in Nat
           /\ DataOffset >= 3
           /\ DataOffset + ByteCount <= Len(sysex_chunk_scratch_buf)
           /\ DataToAdd \in Seq(Byte)
           /\ Len(DataToAdd) = ByteCount - num_bytes_added
           /\ \A i \in 1 .. Len(DataToAdd) : DataToAdd[i] =
                  sysex_chunk_scratch_buf[DataOffset + num_bytes_added + i]
           /\ reader = "chunk" => ByteCount = Len(fifo[1].data)
                                  /\ ByteCount = DataCount(fifo[1])
<1>1. /\ sysex_chunk_scratch_buf \in Seq(Byte) /\ num_bytes_added \in Nat
      /\ curr_sysex_data_chunk_size \in Nat /\ num_remaining_data_bytes \in Nat
      /\ Len(sysex_chunk_scratch_buf) \in Nat
  BY DEF TypeInv, TypeOK
<1>2. /\ ByteCount \in Nat /\ num_bytes_added < ByteCount
      /\ DataOffset \in Nat /\ DataOffset >= 3
      /\ DataOffset + ByteCount <= Len(sysex_chunk_scratch_buf)
      /\ reader = "chunk" => ByteCount = Len(fifo[1].data)
                             /\ ByteCount = DataCount(fifo[1])
  <2>1. CASE reader = "chunk"
    <3>1. /\ sysex_chunk_scratch_buf = fifo[1].head \o fifo[1].data
          /\ num_bytes_added < Len(fifo[1].data)
          /\ fifo # <<>> /\ IsData(fifo[1]) /\ fifo[1].data # <<>>
      BY <2>1 DEF TypeInv, ChunkReadOK
    <3>2. fifo[1] \in Chunk /\ 1 \in 1 .. Len(fifo)
      BY <3>1 DEF TypeInv, TypeOK
    <3>3. fifo[1].head \in Seq(Byte) /\ Len(fifo[1].head) = 3
          /\ fifo[1].data \in Seq(Byte)
      BY <3>2, ThreeBytesAreSequences DEF Chunk, ThreeBytes
    <3>4. Len(sysex_chunk_scratch_buf) = 3 + Len(fifo[1].data)
      <4>1. \A s \in Seq(Byte), d \in Seq(Byte) : Len(s \o d) = Len(s) + Len(d)
        BY ConcatProperties
      <4> QED BY <3>1, <3>3, <4>1
    <3>5. Len(fifo[1].data) = DataCount(fifo[1])
      BY <3>1, <3>2 DEF TypeInv, ChunksOK
    <3> QED BY <1>1, <2>1, <3>1, <3>3, <3>4, <3>5
            DEF ByteCount, DataOffset, SYSEX_DATA_CHUNK_HEADER_SIZE
  <2>2. CASE reader = "rest"
    BY <1>1, <2>2
       DEF TypeInv, RestReadOK, ByteCount, DataOffset, SYSEX_DATA_CHUNK_HEADER_SIZE
  <2> QED BY <2>1, <2>2
<1> DEFINE a == DataOffset + num_bytes_added + 1
           b == DataOffset + ByteCount
<1>3. a \in Int /\ b \in Int /\ a >= 1 /\ b <= Len(sysex_chunk_scratch_buf)
      /\ a <= b /\ b - a + 1 = ByteCount - num_bytes_added
      /\ \A i \in Nat : a + i - 1 = DataOffset + num_bytes_added + i
  BY <1>1, <1>2
<1>4. DataToAdd = SubSeq(sysex_chunk_scratch_buf, a, b)
  BY DEF DataToAdd
<1> HIDE DEF a, b
<1>5. /\ DataToAdd \in Seq(Byte) /\ Len(DataToAdd) = b - a + 1
      /\ \A i \in 1 .. b - a + 1 : DataToAdd[i] = sysex_chunk_scratch_buf[a + i - 1]
  <2>1. a <= b + 1
    BY <1>3
  <2> QED BY <1>1, <1>3, <1>4, <2>1, SubSeqOfBytes
<1>6. \A i \in 1 .. Len(DataToAdd) :
          DataToAdd[i] = sysex_chunk_scratch_buf[DataOffset + num_bytes_added + i]
  <2> SUFFICES ASSUME NEW i \in 1 .. Len(DataToAdd)
               PROVE  DataToAdd[i]
                      = sysex_chunk_scratch_buf[DataOffset + num_bytes_added + i]
    OBVIOUS
  <2>1. i \in 1 .. b - a + 1 /\ i \in Nat
    BY <1>3, <1>5
  <2>2. a + i - 1 = DataOffset + num_bytes_added + i
    BY <1>3, <2>1
  <2> QED BY <1>5, <2>1, <2>2
<1> QED BY <1>2, <1>3, <1>5, <1>6

(* What ble_midi_writer_add_sysex_data does to the last packet.            *)
LEMMA AddDataFacts ==
    ASSUME TypeInv, reader \in {"chunk", "rest"}, NEW t \in Timestamps
    PROVE  LET w == tx_packets[tx_queue_last_tx_packet]
               r == ble_midi_writer_add_sysex_data(w, DataToAdd, t)
           IN  /\ w \in Writer /\ WriterStep(w, r.w)
               /\ r.n \in 0 .. ByteCount - num_bytes_added
               /\ r.n \in Nat /\ num_bytes_added + r.n <= ByteCount
               /\ r.w.in_sysex_msg = w.in_sysex_msg
               /\ r.rc # "SUCCESS" => r.w = w
               /\ r.rc = "SUCCESS" => AllDataBytes(DataToAdd)
               /\ w.in_sysex_msg /\ w.tx_buf_max_size > 0
                  /\ AllDataBytes(DataToAdd) => r.rc = "SUCCESS"
<1>1. tx_packets[tx_queue_last_tx_packet] \in Writer
  BY RingIndices DEF TypeInv, TypeOK
<1>2. t \in Timestamp
  BY TimestampsAssumption
<1>3. /\ DataToAdd \in Seq(Byte) /\ Len(DataToAdd) = ByteCount - num_bytes_added
      /\ ByteCount \in Nat /\ num_bytes_added \in Nat
  BY DataToAddType DEF TypeInv, TypeOK
<1> DEFINE w == tx_packets[tx_queue_last_tx_packet]
           r == ble_midi_writer_add_sysex_data(w, DataToAdd, t)
<1>4. /\ WriterStep(w, r.w)
      /\ r.n \in 0 .. Len(DataToAdd)
      /\ r.w.in_sysex_msg = w.in_sysex_msg
      /\ r.rc # "SUCCESS" => r.w = w
      /\ r.rc = "SUCCESS" => \A i \in 1 .. Len(DataToAdd) : is_data_byte(DataToAdd[i])
      /\ w.in_sysex_msg /\ w.tx_buf_max_size > 0
         /\ (\A i \in 1 .. Len(DataToAdd) : is_data_byte(DataToAdd[i]))
         => r.rc = "SUCCESS"
  BY <1>1, <1>2, <1>3, DataStep
<1> HIDE DEF w, r
<1>5. /\ r.n \in 0 .. ByteCount - num_bytes_added
      /\ r.n \in Nat /\ num_bytes_added + r.n <= ByteCount
  BY <1>3, <1>4
<1> QED BY <1>1, <1>4, <1>5 DEF AllDataBytes, w, r

(* The FIFO after the MTU callback.                                        *)
LEMMA TypeMtuChanged ==
    ASSUME TypeInv, NEW m \in Mtus, MtuChanged(m)
    PROVE  TypeInv'
<1>1. SizeChunkHead(MaxSizeFor(m)) \in ThreeBytes
  BY SizeChunks
<1>2. CASE fifo_free_space >= 3
  <2>1. /\ write_3_byte_chunk_to_fifo(SizeChunkHead(MaxSizeFor(m)))
        /\ writing = <<>> /\ writing' = writing /\ open' \in BOOLEAN /\ mtu' \in Mtus
        /\ UNCHANGED <<outstanding, packetVars, chunkVars, readVars>>
    BY <1>2 DEF MtuChanged, MayCall, TypeInv, TypeOK
  <2> QED BY <1>1, <2>1, TypeWrite3
<1>3. CASE ~(fifo_free_space >= 3)
  <2>1. mtu' \in Mtus /\ UNCHANGED fifoVars
        /\ UNCHANGED <<outstanding, writing, open, packetVars, chunkVars, readVars>>
    BY <1>3 DEF MtuChanged
  <2> QED BY <2>1 DEF TypeInv, TypeOK, ChunksOK, WritingOK, ChunkReadOK, RestReadOK,
                  IsData, DataCount, fifoVars, packetVars, chunkVars, readVars
<1> QED BY <1>2, <1>3

(* The queue after on_connected.                                           *)
LEMMA TypeConnected ==
    ASSUME TypeInv, NEW m \in Mtus, Connected(m)
    PROVE  TypeInv'
<1> DEFINE c == [head |-> SizeChunkHead(MaxSizeFor(m)), data |-> <<>>, open |-> FALSE]
<1>1. c \in Chunk /\ ~IsData(c)
  <2>1. c.head \in ThreeBytes /\ c.head[1] = TX_MAX_PACKET_SIZE_CHUNK_ID
    BY SizeChunks
  <2>2. <<>> \in Seq(Byte)
    OBVIOUS
  <2> QED BY <2>1, <2>2 DEF Chunk, ThreeBytes, IsData,
                          TX_MAX_PACKET_SIZE_CHUNK_ID, SYSEX_DATA_CHUNK_ID
<1>2. fifo' = <<c>>
  BY DEF Connected
<1> HIDE DEF c
<1>3. fifo' \in Seq(Chunk) /\ Len(fifo') = 1 /\ fifo'[1] = c
  BY <1>1, <1>2
<1>4. tx_packets' \in [PacketIdx -> Writer] /\ held' \in [PacketIdx -> Seq(Byte)]
  BY ResetPackets DEF Connected, tx_queue_init
<1>5. first_tx_packet_idx' \in PacketIdx
      /\ tx_packet_count' \in 1 .. TX_QUEUE_PACKET_COUNT
  BY PacketCountAssumption DEF Connected, tx_queue_init, PacketIdx
<1>6. fifo_free_space' \in Nat
  BY FifoAssumption DEF Connected
<1>7. TypeOK'
  BY <1>3, <1>4, <1>5, <1>6 DEF TypeInv, TypeOK, Connected, tx_queue_init, readVars
<1>8. ChunksOK'
  BY <1>1, <1>3 DEF ChunksOK, IsData
<1> QED BY <1>7, <1>8 DEF TypeInv, WritingOK, ChunkReadOK, RestReadOK,
                        Connected, tx_queue_init, readVars

(* The queue after tx_queue_on_tx_packet_sent.                             *)
LEMMA TypeSent ==
    ASSUME TypeInv, tx_queue_on_tx_packet_sent
    PROVE  TypeInv'
<1>1. first_tx_packet_idx \in PacketIdx /\ tx_packets \in [PacketIdx -> Writer]
      /\ held \in [PacketIdx -> Seq(Byte)] /\ outstanding \in Seq(Byte)
  BY DEF TypeInv, TypeOK
<1>2. tx_packets' \in [PacketIdx -> Writer]
  <2>1. ble_midi_writer_reset(tx_packets[first_tx_packet_idx]) \in Writer
    BY <1>1, FreshWriters
  <2> QED BY <1>1, <2>1 DEF tx_queue_on_tx_packet_sent
<1>3. held' \in [PacketIdx -> Seq(Byte)]
  BY <1>1 DEF tx_queue_on_tx_packet_sent
<1>4. outstanding' \in Seq(Byte)
  <2>1. Len(held[first_tx_packet_idx]) \in Nat /\ Len(outstanding) \in Nat
    BY <1>1
  <2>2. \A i \in Len(held[first_tx_packet_idx]) + 1 .. Len(outstanding) :
            outstanding[i] \in Byte
    <3> SUFFICES ASSUME NEW i \in Len(held[first_tx_packet_idx]) + 1 .. Len(outstanding)
                 PROVE  outstanding[i] \in Byte
      OBVIOUS
    <3>1. i \in 1 .. Len(outstanding)
      BY <2>1
    <3> QED BY <1>1, <3>1, ElementOfSeq
  <2> QED BY <2>1, <2>2, SubSeqProperties DEF tx_queue_on_tx_packet_sent
<1>5. /\ first_tx_packet_idx' \in PacketIdx
      /\ tx_packet_count' \in 1 .. TX_QUEUE_PACKET_COUNT
      /\ has_tx_data' \in BOOLEAN
  <2>1. (first_tx_packet_idx + 1) % TX_QUEUE_PACKET_COUNT \in PacketIdx
    BY RingIndices DEF TypeInv
  <2>2. /\ tx_packet_count \in 1 .. TX_QUEUE_PACKET_COUNT
        /\ has_tx_data \in BOOLEAN /\ TX_QUEUE_PACKET_COUNT \in Nat
    BY PacketCountAssumption DEF TypeInv, TypeOK
  <2>3. CASE tx_packet_count <= 1
    BY <1>1, <2>2, <2>3 DEF tx_queue_on_tx_packet_sent, OnlyPacket
  <2>4. CASE ~(tx_packet_count <= 1)
    <3>1. /\ tx_packet_count' = tx_packet_count - 1
          /\ first_tx_packet_idx' = (first_tx_packet_idx + 1) % TX_QUEUE_PACKET_COUNT
          /\ has_tx_data' = has_tx_data
      BY <2>4 DEF tx_queue_on_tx_packet_sent, OnlyPacket
    <3> QED BY <2>1, <2>2, <2>4, <3>1
  <2> QED BY <2>3, <2>4
<1>6. UNCHANGED <<fifoVars, prodVars, chunkVars, readVars>>
  BY DEF tx_queue_on_tx_packet_sent
<1>7. TypeOK'
  BY <1>2, <1>3, <1>4, <1>5, <1>6
     DEF TypeInv, TypeOK, fifoVars, prodVars, chunkVars, readVars
<1> QED BY <1>6, <1>7
        DEF TypeInv, ChunksOK, WritingOK, ChunkReadOK, RestReadOK,
            IsData, DataCount, fifoVars, prodVars, chunkVars, readVars

(* What a three byte chunk does to a packet.                               *)
LEMMA Add3BytesStep ==
    ASSUME NEW w \in Writer, NEW h \in ThreeBytes, NEW t \in Timestamp
    PROVE  WriterStep(w, Add3Bytes(w, h, t).w)
<1>1. CASE h[1] = SYSEX_START
  <2>1. Add3Bytes(w, h, t) = ble_midi_writer_start_sysex_msg(w, t)
    BY <1>1 DEF Add3Bytes, SYSEX_START, SYSEX_END
  <2> QED BY <2>1, StartStep
<1>2. CASE h[1] = SYSEX_END
  BY <1>2, EndStep DEF Add3Bytes, SYSEX_START, SYSEX_END
<1>3. CASE h[1] # SYSEX_START /\ h[1] # SYSEX_END
  BY <1>3, AddMsgStep DEF Add3Bytes
<1> QED BY <1>1, <1>2, <1>3

(* The packet that add_3_byte_chunk_to_tx_packet ends with: the last one,  *)
(* or a free one of the ring.                                              *)
LEMMA AttemptFacts ==
    ASSUME TypeInv, NEW h \in ThreeBytes, NEW t \in Timestamps
    PROVE  LET a == Attempt(h, t)
           IN  /\ a.packet \in PacketIdx
               /\ tx_packet_count + a.grow \in 1 .. TX_QUEUE_PACKET_COUNT
               /\ WriterStep(tx_packets[a.packet], a.w)
<1> DEFINE last  == tx_queue_last_tx_packet
           first == Add3Bytes(tx_packets[last], h, t)
           wnext == ble_midi_writer_reset(tx_packets[NextPacket])
           next  == Add3Bytes(wnext, h, t)
           a     == Attempt(h, t)
<1>1. last \in PacketIdx /\ NextPacket \in PacketIdx
  BY RingIndices DEF TypeInv
<1>2. tx_packets[last] \in Writer /\ tx_packets[NextPacket] \in Writer
  BY <1>1 DEF TypeInv, TypeOK
<1>3. t \in Timestamp
  BY TimestampsAssumption
<1>4. /\ tx_packet_count \in 1 .. TX_QUEUE_PACKET_COUNT
      /\ TX_QUEUE_PACKET_COUNT \in Nat
  BY PacketCountAssumption DEF TypeInv, TypeOK
<1>5. CASE first.rc # "PACKET_FULL" \/ NoFreePacket
  <2>1. a.packet = last /\ a.grow = 0 /\ a.w = first.w
    BY <1>5 DEF Attempt
  <2>2. WriterStep(tx_packets[last], first.w)
    BY <1>2, <1>3, Add3BytesStep
  <2> HIDE DEF a, first, last
  <2> QED BY <1>1, <1>4, <2>1, <2>2 DEF a
<1>6. CASE ~(first.rc # "PACKET_FULL" \/ NoFreePacket)
  <2>1. a.packet = NextPacket /\ a.grow = 1 /\ a.w = next.w
    BY <1>6 DEF Attempt
  <2>2. /\ wnext \in Writer /\ wnext.tx_buf = <<>>
        /\ wnext.tx_buf_max_size = tx_packets[NextPacket].tx_buf_max_size
    BY <1>2, FreshWriters
  <2>3. WriterStep(wnext, next.w)
    BY <1>3, <2>2, Add3BytesStep
  <2>4. tx_packet_count + 1 \in 1 .. TX_QUEUE_PACKET_COUNT
    BY <1>4, <1>6 DEF NoFreePacket
  <2> HIDE DEF a, wnext, next
  <2>5. wnext.tx_buf_max_size \in Nat
    BY <2>2, WriterConstants DEF Writer
  <2>6. Len(wnext.tx_buf) <= wnext.tx_buf_max_size
    BY <2>2, <2>5
  <2>7. WriterStep(tx_packets[NextPacket], next.w)
    BY <2>2, <2>3, <2>6 DEF WriterStep
  <2> QED BY <1>1, <2>1, <2>4, <2>7 DEF a
<1> QED BY <1>5, <1>6

(* One packet of the ring is replaced.                                     *)
LEMMA ReplacedPacket ==
    ASSUME TypeInv, NEW i \in PacketIdx, NEW w \in Writer
    PROVE  [tx_packets EXCEPT ![i] = w] \in [PacketIdx -> Writer]
  BY DEF TypeInv, TypeOK

(* The steps of tx_queue_read_from_fifo that leave FIFO and packets alone. *)
LEMMA TypeReadControl ==
    ASSUME TypeInv, ReadStart \/ ReadEmpty \/ ReadRest
    PROVE  TypeInv'
<1>1. /\ UNCHANGED <<fifoVars, outstanding, prodVars, packetVars, chunkVars,
                     sysex_chunk_scratch_buf>>
      /\ reader' \in {"idle", "loop", "rest"}
      /\ num_bytes_added' \in Nat
      /\ reader' = "rest" => num_bytes_added' < num_remaining_data_bytes'
  BY DEF ReadStart, ReadEmpty, ReadRest, TypeInv, TypeOK, chunkVars
<1>2. TypeOK'
  BY <1>1 DEF TypeInv, TypeOK, fifoVars, prodVars, packetVars, chunkVars
<1> QED BY <1>1, <1>2
        DEF TypeInv, ChunksOK, WritingOK, ChunkReadOK, RestReadOK,
            IsData, DataCount, fifoVars, prodVars, chunkVars

(* A data chunk is copied to the scratch buffer.                           *)
LEMMA TypeReadDataChunk ==
    ASSUME TypeInv, ReadDataChunk
    PROVE  TypeInv'
<1>1. fifo \in Seq(Chunk) /\ fifo # <<>> /\ num_remaining_data_bytes = 0
  BY DEF TypeInv, TypeOK, ReadDataChunk, AtChunk
<1>2. Head(fifo) = fifo[1] /\ fifo[1] \in Chunk
  BY <1>1
<1>3. fifo[1].head \in Seq(Byte) /\ fifo[1].data \in Seq(Byte)
  BY <1>2, ThreeBytesAreSequences DEF Chunk, ThreeBytes
<1>4. /\ sysex_chunk_scratch_buf' = fifo[1].head \o fifo[1].data
      /\ num_bytes_added' = 0
      /\ reader' = IF fifo[1].data = <<>> THEN "idle" ELSE "chunk"
      /\ IsData(fifo[1])
      /\ UNCHANGED <<fifoVars, outstanding, prodVars, packetVars, chunkVars>>
  BY <1>2 DEF ReadDataChunk, IsData
<1>5. sysex_chunk_scratch_buf' \in Seq(Byte)
  BY <1>3, <1>4, ConcatProperties
<1>6. TypeOK'
  BY <1>4, <1>5 DEF TypeInv, TypeOK, fifoVars, prodVars, packetVars, chunkVars
<1>7. fifo[1].data # <<>> => 0 < Len(fifo[1].data)
  BY <1>3
<1>8. ChunkReadOK' /\ RestReadOK'
  BY <1>1, <1>4, <1>7 DEF ChunkReadOK, RestReadOK, IsData, fifoVars, chunkVars
<1> QED BY <1>4, <1>6, <1>8
        DEF TypeInv, ChunksOK, WritingOK, IsData, DataCount, fifoVars, prodVars, chunkVars

(* A maximum packet size is read.                                          *)
LEMMA TypeReadSizeChunk ==
    ASSUME TypeInv, ReadSizeChunk
    PROVE  TypeInv'
<1>1. fifo \in Seq(Chunk) /\ fifo # <<>>
  BY DEF TypeInv, TypeOK, ReadSizeChunk, AtChunk
<1>2. Head(fifo) = fifo[1] /\ fifo[1] \in Chunk
  BY <1>1
<1> DEFINE h    == fifo[1].head
           size == Decode16(h[2], h[3])
           max  == IF size > BLE_MIDI_TX_PACKET_MAX_SIZE
                   THEN BLE_MIDI_TX_PACKET_MAX_SIZE ELSE size
<1>3. max \in 0 .. BLE_MIDI_TX_PACKET_MAX_SIZE
  <2>1. h[2] \in Byte /\ h[3] \in Byte
    BY <1>2 DEF Chunk
  <2>2. size \in Nat
    <3>1. \A x \in Byte, y \in Byte : x + 256 * y \in Nat
      BY DEF Byte
    <3> QED BY <2>1, <3>1 DEF Decode16
  <2> HIDE DEF size
  <2> QED BY <2>2, WriterConstants
<1>4. /\ tx_packets' = [i \in PacketIdx |-> WithMaxSize(tx_packets[i], max)]
      /\ ConsumeChunk
      /\ h[1] = TX_MAX_PACKET_SIZE_CHUNK_ID
      /\ UNCHANGED <<first_tx_packet_idx, tx_packet_count, has_tx_data, held,
                     prodVars, chunkVars, readVars>>
  BY <1>2 DEF ReadSizeChunk
<1> HIDE DEF max
<1>5. tx_packets' \in [PacketIdx -> Writer]
  <2>1. \A i \in PacketIdx : WithMaxSize(tx_packets[i], max) \in Writer
    BY <1>3, WithMaxSizeType DEF TypeInv, TypeOK
  <2> QED BY <1>4, <2>1
<1>6. ~IsData(fifo[1])
  BY <1>4 DEF IsData, TX_MAX_PACKET_SIZE_CHUNK_ID, SYSEX_DATA_CHUNK_ID
<1>7. /\ fifo' \in Seq(Chunk) /\ fifo_free_space' \in Nat
      /\ outstanding' \in Seq(Byte) /\ ChunksOK' /\ WritingOK'
  BY <1>1, <1>4, <1>6, ConsumedChunk DEF prodVars
<1>8. TypeOK'
  BY <1>4, <1>5, <1>7 DEF TypeInv, TypeOK, prodVars, chunkVars, readVars
<1>9. reader' = "loop"
  BY <1>4 DEF ReadSizeChunk, AtChunk, readVars
<1> QED BY <1>4, <1>7, <1>8, <1>9
        DEF TypeInv, ChunkReadOK, RestReadOK, chunkVars, readVars

(* A three byte chunk is added, dropped or left for later.                 *)
LEMMA TypeAdd3 ==
    ASSUME TypeInv, NEW t \in Timestamps, add_3_byte_chunk_to_tx_packet(t)
    PROVE  TypeInv'
<1> DEFINE h == Head(fifo).head
           a == Attempt(h, t)
<1>1. fifo \in Seq(Chunk) /\ fifo # <<>> /\ reader = "loop"
      /\ num_remaining_data_bytes = 0
  BY DEF TypeInv, TypeOK, add_3_byte_chunk_to_tx_packet, AtChunk
<1>2. Head(fifo) = fifo[1] /\ fifo[1] \in Chunk /\ h \in ThreeBytes
  <2>1. Head(fifo) = fifo[1] /\ fifo[1] \in Chunk
    BY <1>1, SMTT(30)
  <2> QED BY <2>1 DEF Chunk, ThreeBytes
<1>3. /\ h[1] >= 128
      /\ tx_packets' = [tx_packets EXCEPT ![a.packet] = a.w]
      /\ tx_packet_count' = tx_packet_count + a.grow
      /\ \/ /\ has_tx_data' = TRUE
            /\ held' = [held EXCEPT ![a.packet] = @ \o h]
            /\ ConsumeChunk
            /\ UNCHANGED reader
         \/ /\ reader' = "idle"
            /\ UNCHANGED <<fifoVars, outstanding, has_tx_data, held>>
         \/ /\ ConsumeChunk
            /\ UNCHANGED <<reader, has_tx_data, held>>
      /\ UNCHANGED <<first_tx_packet_idx, prodVars, chunkVars,
                     sysex_chunk_scratch_buf, num_bytes_added>>
  BY DEF add_3_byte_chunk_to_tx_packet
<1>4. /\ a.packet \in PacketIdx
      /\ tx_packet_count + a.grow \in 1 .. TX_QUEUE_PACKET_COUNT
      /\ a.w \in Writer
  BY <1>2, AttemptFacts DEF WriterStep
<1> HIDE DEF a
<1>5. ~IsData(fifo[1])
  BY <1>2, <1>3 DEF IsData, SYSEX_DATA_CHUNK_ID
<1> HIDE DEF h
<1>6. tx_packets' \in [PacketIdx -> Writer]
  BY <1>3, <1>4, ReplacedPacket
<1>7. held' \in [PacketIdx -> Seq(Byte)] /\ has_tx_data' \in BOOLEAN
  <2>1. h \in Seq(Byte) /\ held \in [PacketIdx -> Seq(Byte)] /\ has_tx_data \in BOOLEAN
    BY <1>2, ThreeBytesAreSequences DEF TypeInv, TypeOK
  <2>2. held[a.packet] \o h \in Seq(Byte)
    BY <1>4, <2>1, ConcatProperties
  <2> QED BY <1>3, <1>4, <2>1, <2>2
<1>8. /\ fifo' \in Seq(Chunk) /\ fifo_free_space' \in Nat
      /\ outstanding' \in Seq(Byte) /\ ChunksOK' /\ WritingOK'
  <2>1. CASE ConsumeChunk
    BY <1>1, <1>3, <1>5, <2>1, ConsumedChunk DEF prodVars
  <2>2. CASE UNCHANGED <<fifoVars, outstanding>>
    BY <1>3, <2>2 DEF TypeInv, TypeOK, ChunksOK, WritingOK, IsData, DataCount,
                     fifoVars, prodVars
  <2> QED BY <1>3, <2>1, <2>2
<1>9. reader' \in {"idle", "loop"}
  BY <1>1, <1>3
<1>10. TypeOK'
  BY <1>3, <1>4, <1>6, <1>7, <1>8, <1>9 DEF TypeInv, TypeOK, prodVars, chunkVars
<1>11. ChunkReadOK' /\ RestReadOK'
  BY <1>3, <1>9 DEF TypeInv, ChunkReadOK, RestReadOK, chunkVars
<1> QED BY <1>8, <1>10, <1>11, SMTT(30) DEF TypeInv

(* The first chunk when add_data_bytes_to_tx_packet reads it.              *)
LEMMA ChunkBeingRead ==
    ASSUME TypeInv, reader = "chunk"
    PROVE  /\ fifo # <<>> /\ Head(fifo) = fifo[1] /\ fifo[1] \in Chunk
           /\ IsData(fifo[1]) /\ fifo[1].data # <<>>
           /\ Len(sysex_chunk_scratch_buf) = 3 + DataCount(fifo[1])
           /\ num_remaining_data_bytes = 0
           /\ ByteCount = DataCount(fifo[1])
<1>1. /\ fifo \in Seq(Chunk) /\ fifo # <<>> /\ IsData(fifo[1])
      /\ fifo[1].data # <<>> /\ num_remaining_data_bytes = 0
  BY DEF TypeInv, TypeOK, ChunkReadOK
<1>2. Head(fifo) = fifo[1] /\ fifo[1] \in Chunk
  BY <1>1
<1>3. ByteCount = DataCount(fifo[1]) /\ ByteCount \in Nat
  BY DataToAddType
<1>4. ByteCount = Len(sysex_chunk_scratch_buf) - 3
      /\ Len(sysex_chunk_scratch_buf) \in Nat
  BY DEF ByteCount, SYSEX_DATA_CHUNK_HEADER_SIZE, TypeInv, TypeOK
<1> QED BY <1>1, <1>2, <1>3, <1>4

(* add_data_bytes_to_tx_packet returns the number of bytes it has added.   *)
LEMMA TypeDataReturns ==
    ASSUME TypeInv, reader \in {"chunk", "rest"}, NEW added \in Nat,
           added <= ByteCount, DataReturns(added), num_bytes_added' = added,
           UNCHANGED <<prodVars, sysex_chunk_scratch_buf>>
    PROVE  /\ fifo' \in Seq(Chunk) /\ fifo_free_space' \in Nat
           /\ outstanding' \in Seq(Byte)
           /\ num_remaining_data_bytes' \in Nat
           /\ curr_sysex_data_chunk_size' \in Nat
           /\ reader' \in {"idle", "loop"}
           /\ ChunksOK' /\ WritingOK' /\ ChunkReadOK' /\ RestReadOK'
<1>1. CASE added = 0
  BY <1>1 DEF DataReturns, TypeInv, TypeOK, ChunksOK, WritingOK, ChunkReadOK,
              RestReadOK, IsData, DataCount, fifoVars, prodVars, chunkVars
<1>2. CASE added # 0 /\ reader = "chunk"
  <2>1. /\ reader' = "loop" /\ ConsumeChunk
        /\ num_remaining_data_bytes' = DataCount(fifo[1]) - added
        /\ curr_sysex_data_chunk_size' = 3 + DataCount(fifo[1])
    BY <1>2, ChunkBeingRead DEF DataReturns, DataCount, SYSEX_DATA_CHUNK_HEADER_SIZE
  <2>2. /\ fifo' \in Seq(Chunk) /\ fifo_free_space' \in Nat
        /\ outstanding' \in Seq(Byte) /\ ChunksOK' /\ WritingOK'
    BY <1>2, <2>1, ChunkBeingRead, ConsumedChunk DEF prodVars
  <2>3. /\ DataCount(fifo[1]) \in Nat /\ added <= DataCount(fifo[1])
        /\ Len(sysex_chunk_scratch_buf) = 3 + DataCount(fifo[1])
    BY <1>2, ChunkBeingRead, DataToAddType
  <2>4. num_remaining_data_bytes' \in Nat /\ curr_sysex_data_chunk_size' \in Nat
    BY <2>1, <2>3
  <2>5. RestReadOK'
    BY <1>2, <2>1, <2>3 DEF RestReadOK, SYSEX_DATA_CHUNK_HEADER_SIZE
  <2> QED BY <2>1, <2>2, <2>4, <2>5 DEF ChunkReadOK
<1>3. CASE added # 0 /\ reader = "rest"
  <2>1. /\ reader' = "loop"
        /\ num_remaining_data_bytes' = num_remaining_data_bytes - added
        /\ UNCHANGED <<fifoVars, outstanding, curr_sysex_data_chunk_size>>
    BY <1>3 DEF DataReturns
  <2>2. /\ num_remaining_data_bytes \in Nat /\ added <= num_remaining_data_bytes
        /\ curr_sysex_data_chunk_size \in Nat
    BY <1>3 DEF ByteCount, TypeInv, TypeOK
  <2>3. num_remaining_data_bytes' \in Nat
    BY <2>1, <2>2
  <2>4. RestReadOK'
    BY <2>1, <2>2 DEF TypeInv, RestReadOK, SYSEX_DATA_CHUNK_HEADER_SIZE
  <2>5. /\ fifo' \in Seq(Chunk) /\ fifo_free_space' \in Nat
        /\ outstanding' \in Seq(Byte) /\ curr_sysex_data_chunk_size' \in Nat
        /\ ChunksOK' /\ WritingOK'
    BY <2>1, <2>2 DEF TypeInv, TypeOK, ChunksOK, WritingOK, IsData, DataCount,
                  fifoVars, prodVars
  <2> QED BY <2>1, <2>3, <2>4, <2>5 DEF ChunkReadOK
<1> QED BY <1>1, <1>2, <1>3

(* add_data_bytes_to_tx_packet adds bytes to the last packet and goes to   *)
(* the next one or returns.                                                *)
LEMMA TypeAddDataBytes ==
    ASSUME TypeInv, NEW t \in Timestamps, AddDataBytes(t)
    PROVE  TypeInv'
<1> DEFINE last  == tx_queue_last_tx_packet
           w     == tx_packets[last]
           r     == ble_midi_writer_add_sysex_data(w, DataToAdd, t)
           added == num_bytes_added + r.n
           done  == [tx_packets EXCEPT ![last] = r.w]
           more  == added < ByteCount /\ ~NoFreePacket
<1>1. reader \in {"chunk", "rest"}
  BY DEF AddDataBytes
<1>2. /\ r.w \in Writer /\ r.n \in 0 .. ByteCount - num_bytes_added
      /\ r.n \in Nat /\ added <= ByteCount
  BY <1>1, AddDataFacts DEF WriterStep
<1>3. last \in PacketIdx /\ NextPacket \in PacketIdx
  BY RingIndices DEF TypeInv
<1>4. done \in [PacketIdx -> Writer]
  BY <1>2, <1>3, ReplacedPacket
<1>5. /\ held' = [held EXCEPT ![last] = @ \o SubSeq(DataToAdd, 1, r.n)]
      /\ num_bytes_added' = added
      /\ UNCHANGED <<first_tx_packet_idx, prodVars, sysex_chunk_scratch_buf>>
  BY DEF AddDataBytes
<1>6. more => /\ tx_packet_count' = tx_packet_count + 1
              /\ tx_packets' = [done EXCEPT ![NextPacket] = ble_midi_writer_reset(@)]
              /\ UNCHANGED <<has_tx_data, reader, fifoVars, outstanding, chunkVars>>
  BY DEF AddDataBytes
<1>7. ~more => /\ tx_packets' = done
               /\ has_tx_data' = (has_tx_data \/ added > 0)
               /\ DataReturns(added)
               /\ tx_packet_count' = tx_packet_count
  BY DEF AddDataBytes
<1>8. added \in Nat /\ num_bytes_added' \in Nat
  BY <1>2, <1>5 DEF TypeInv, TypeOK
<1>9. held' \in [PacketIdx -> Seq(Byte)]
  <2>1. SubSeq(DataToAdd, 1, r.n) \in Seq(Byte)
    <3>1. DataToAdd \in Seq(Byte) /\ r.n <= Len(DataToAdd)
          /\ r.n \in Int /\ 1 <= r.n + 1
      BY <1>1, <1>2, DataToAddType, SMTT(30) DEF TypeInv, TypeOK
    <3> HIDE DEF r
    <3> QED BY <3>1, SubSeqOfBytes
  <2> HIDE DEF r, last
  <2>2. held[last] \o SubSeq(DataToAdd, 1, r.n) \in Seq(Byte)
    BY <1>3, <2>1, ConcatProperties DEF TypeInv, TypeOK
  <2> QED BY <1>3, <1>5, <2>2 DEF TypeInv, TypeOK
<1> HIDE DEF r, last, done, added
<1>10. CASE more
  <2>1. tx_packets' \in [PacketIdx -> Writer]
    <3>1. ble_midi_writer_reset(done[NextPacket]) \in Writer
      BY <1>3, <1>4, FreshWriters
    <3> QED BY <1>3, <1>4, <1>6, <1>10, <3>1
  <2>2. tx_packet_count' \in 1 .. TX_QUEUE_PACKET_COUNT
    BY <1>6, <1>10, PacketCountAssumption DEF NoFreePacket, TypeInv, TypeOK
  <2>3. TypeOK'
    BY <1>5, <1>6, <1>8, <1>9, <1>10, <2>1, <2>2
       DEF TypeInv, TypeOK, fifoVars, prodVars, chunkVars
  <2>4. num_bytes_added' < ByteCount
    BY <1>5, <1>10
  <2>5. ChunkReadOK'
    <3>1. reader = "chunk" => num_bytes_added' < Len(fifo[1].data)
      BY <1>1, <2>4, DataToAddType
    <3> QED BY <1>5, <1>6, <1>10, <3>1
            DEF TypeInv, ChunkReadOK, IsData, fifoVars, chunkVars
  <2>6. RestReadOK'
    BY <1>5, <1>6, <1>10, <2>4 DEF TypeInv, RestReadOK, ByteCount, chunkVars
  <2>7. ChunksOK' /\ WritingOK'
    BY <1>5, <1>6, <1>10
       DEF TypeInv, ChunksOK, WritingOK, IsData, DataCount, fifoVars, prodVars
  <2> QED BY <2>3, <2>5, <2>6, <2>7 DEF TypeInv
<1>11. CASE ~more
  <2>1. /\ fifo' \in Seq(Chunk) /\ fifo_free_space' \in Nat
        /\ outstanding' \in Seq(Byte)
        /\ num_remaining_data_bytes' \in Nat
        /\ curr_sysex_data_chunk_size' \in Nat
        /\ reader' \in {"idle", "loop"}
        /\ ChunksOK' /\ WritingOK' /\ ChunkReadOK' /\ RestReadOK'
    BY <1>1, <1>2, <1>5, <1>7, <1>8, <1>11, TypeDataReturns
  <2>2. has_tx_data' \in BOOLEAN
    BY <1>7, <1>11
  <2>3. TypeOK'
    BY <1>4, <1>5, <1>7, <1>8, <1>9, <1>11, <2>1, <2>2 DEF TypeInv, TypeOK, prodVars
  <2> QED BY <2>1, <2>3 DEF TypeInv
<1> QED BY <1>10, <1>11

(* The writer rejects the bytes.                                           *)
LEMMA TypeRejectDataBytes ==
    ASSUME TypeInv, NEW t \in Timestamps, RejectDataBytes(t)
    PROVE  TypeInv'
<1>1. /\ reader \in {"chunk", "rest"} /\ reader' = "loop"
      /\ UNCHANGED <<prodVars, packetVars, chunkVars, sysex_chunk_scratch_buf,
                     num_bytes_added>>
      /\ reader = "chunk" => ConsumeChunk
      /\ reader = "rest" => UNCHANGED <<fifoVars, outstanding>>
  BY DEF RejectDataBytes, SkipInvalid
<1>2. /\ fifo' \in Seq(Chunk) /\ fifo_free_space' \in Nat
      /\ outstanding' \in Seq(Byte) /\ ChunksOK' /\ WritingOK'
  <2>1. CASE reader = "chunk"
    BY <1>1, <2>1, ChunkBeingRead, ConsumedChunk DEF prodVars
  <2>2. CASE reader = "rest"
    BY <1>1, <2>2 DEF TypeInv, TypeOK, ChunksOK, WritingOK, IsData, DataCount,
                  fifoVars, prodVars
  <2> QED BY <1>1, <2>1, <2>2
<1>3. TypeOK'
  BY <1>1, <1>2 DEF TypeInv, TypeOK, prodVars, packetVars, chunkVars
<1>4. ChunkReadOK' /\ RestReadOK'
  BY <1>1 DEF TypeInv, ChunkReadOK, RestReadOK, chunkVars
<1> QED BY <1>2, <1>3, <1>4 DEF TypeInv

(* The client's calls.                                                     *)
LEMMA TypeClientStep ==
    ASSUME TypeInv, ClientStep
    PROVE  TypeInv'
<1>1. ASSUME NEW m \in Messages, tx_queue_fifo_add_msg(m) PROVE TypeInv'
  <2>1. m \in ThreeBytes
    BY MessagesAssumption DEF ThreeBytes
  <2>2. /\ write_3_byte_chunk_to_fifo(m) /\ writing = <<>> /\ writing' = writing
        /\ UNCHANGED <<outstanding, packetVars, chunkVars, readVars>>
        /\ open' \in BOOLEAN /\ mtu' \in Mtus
    BY <1>1 DEF tx_queue_fifo_add_msg, MayCall, prodVars, TypeInv, TypeOK
  <2> QED BY <2>1, <2>2, TypeWrite3
<1>2. ASSUME tx_queue_fifo_add_sysex_start PROVE TypeInv'
  <2>1. <<SYSEX_START, 0, 0>> \in ThreeBytes
    BY DEF ThreeBytes, SYSEX_START, Byte
  <2>2. /\ write_3_byte_chunk_to_fifo(<<SYSEX_START, 0, 0>>)
        /\ writing = <<>> /\ writing' = writing
        /\ UNCHANGED <<outstanding, packetVars, chunkVars, readVars>>
        /\ open' \in BOOLEAN /\ mtu' \in Mtus
    BY <1>2 DEF tx_queue_fifo_add_sysex_start, MayCall, TypeInv, TypeOK
  <2> QED BY <2>1, <2>2, TypeWrite3
<1>3. ASSUME tx_queue_fifo_add_sysex_end PROVE TypeInv'
  <2>1. <<SYSEX_END, 0, 0>> \in ThreeBytes
    BY DEF ThreeBytes, SYSEX_END, Byte
  <2>2. /\ write_3_byte_chunk_to_fifo(<<SYSEX_END, 0, 0>>)
        /\ writing = <<>> /\ writing' = writing
        /\ UNCHANGED <<outstanding, packetVars, chunkVars, readVars>>
        /\ open' \in BOOLEAN /\ mtu' \in Mtus
    BY <1>3 DEF tx_queue_fifo_add_sysex_end, MayCall, TypeInv, TypeOK
  <2> QED BY <2>1, <2>2, TypeWrite3
<1>4. ASSUME NEW d \in SysexData, WriteSysexDataHeader(d) PROVE TypeInv'
  BY <1>4, TypeWriteHeader
<1>5. ASSUME WriteSysexDataBytes PROVE TypeInv'
  BY <1>5, TypeWriteBytes
<1> QED BY <1>1, <1>2, <1>3, <1>4, <1>5 DEF ClientStep

(* Every step of the queue preserves the type invariant.                   *)
LEMMA TypeStep == TypeInv /\ [Next]_vars => TypeInv'
<1> SUFFICES ASSUME TypeInv, [Next]_vars PROVE TypeInv'
  OBVIOUS
<1>1. CASE ClientStep
  BY <1>1, TypeClientStep
<1>2. CASE \E m \in Mtus : MtuChanged(m)
  BY <1>2, TypeMtuChanged
<1>3. CASE \E m \in Mtus : Connected(m)
  BY <1>3, TypeConnected
<1>4. CASE tx_queue_on_tx_packet_sent
  BY <1>4, TypeSent
<1>5. CASE ReadStart
  BY <1>5, TypeReadControl
<1>6. CASE ReaderStep
  BY <1>6, TypeReadControl, TypeReadSizeChunk, TypeAdd3, TypeReadDataChunk,
     TypeAddDataBytes, TypeRejectDataBytes DEF ReaderStep
<1>7. CASE UNCHANGED vars
  BY <1>7 DEF TypeInv, TypeOK, ChunksOK, WritingOK, ChunkReadOK, RestReadOK,
          IsData, DataCount, vars, fifoVars, prodVars, packetVars, chunkVars, readVars
<1> QED BY <1>1, <1>2, <1>3, <1>4, <1>5, <1>6, <1>7 DEF Next

(* The type invariant is an invariant.                                     *)
THEOREM TypeInvariance == Spec => []TypeInv
  BY TypeInit, TypeStep, PTL DEF Spec

(* TypeCorrect: the queue keeps its variables within their types: packet   *)
(* indices stay in the ring, at least one packet is always in use, and the *)
(* count of bytes that tx_queue_read_from_fifo still has to place never    *)
(* becomes negative, for every size of FIFO, ring, packet and chunk.       *)
THEOREM TypeCorrect == Spec => []TypeOK
<1>1. TypeInv => TypeOK
  BY DEF TypeInv
<1> QED BY <1>1, TypeInvariance, PTL

-----------------------------------------------------------------------------
(* Every packet fits the notification that the connection's MTU allows, as *)
(* long as the MTU of a connection never decreases.                        *)

IsSize(c) == c.head[1] = TX_MAX_PACKET_SIZE_CHUNK_ID

(* Every packet is within its limit, and the limit within the MTU.         *)
PacketsOK ==
    \A i \in PacketIdx :
        /\ Len(tx_packets[i].tx_buf) <= tx_packets[i].tx_buf_max_size
        /\ tx_packets[i].tx_buf_max_size <= MaxSizeFor(mtu)

(* The limits in the FIFO lie between those of the packets and the MTU.    *)
SizesOK ==
    \A k \in 1 .. Len(fifo) :
        IsSize(fifo[k]) =>
            /\ DataCount(fifo[k]) <= MaxSizeFor(mtu)
            /\ \A i \in PacketIdx :
                  tx_packets[i].tx_buf_max_size <= DataCount(fifo[k])

(* The limits in the FIFO never decrease.                                  *)
SizesAscend ==
    \A j, k \in 1 .. Len(fifo) :
        j < k /\ IsSize(fifo[j]) /\ IsSize(fifo[k])
            => DataCount(fifo[j]) <= DataCount(fifo[k])

FitInv == PacketsOK /\ SizesOK /\ SizesAscend

-----------------------------------------------------------------------------
(* A larger MTU never allows less.                                         *)
LEMMA MaxSizeMonotone ==
    ASSUME NEW m \in Mtus, NEW n \in Mtus, m <= n
    PROVE  /\ MaxSizeFor(m) \in Nat /\ MaxSizeFor(n) \in Nat
           /\ MaxSizeFor(m) <= MaxSizeFor(n)
<1>1. m \in Nat /\ n \in Nat /\ m >= 8 /\ n >= 8
  BY MtusAssumption
<1>2. BLE_MIDI_TX_PACKET_MAX_SIZE \in Nat
  BY WriterConstants
<1> QED BY <1>1, <1>2 DEF MaxSizeFor

(* The counts in chunk headers and the limits of packets are numbers.      *)
LEMMA FitTypes ==
    ASSUME TypeInv
    PROVE  /\ \A k \in 1 .. Len(fifo) : DataCount(fifo[k]) \in Nat
           /\ \A i \in PacketIdx : /\ tx_packets[i].tx_buf_max_size \in Nat
                                   /\ Len(tx_packets[i].tx_buf) \in Nat
           /\ MaxSizeFor(mtu) \in Nat /\ Len(fifo) \in Nat /\ mtu \in Mtus
<1>1. ASSUME NEW k \in 1 .. Len(fifo) PROVE DataCount(fifo[k]) \in Nat
  <2>1. fifo[k] \in Chunk
    BY DEF TypeInv, TypeOK
  <2>2. fifo[k].head[2] \in Byte /\ fifo[k].head[3] \in Byte
    BY <2>1 DEF Chunk
  <2>3. \A x \in Byte, y \in Byte : x + 256 * y \in Nat
    BY DEF Byte
  <2> QED BY <2>2, <2>3 DEF DataCount, Decode16
<1>2. ASSUME NEW i \in PacketIdx
      PROVE  /\ tx_packets[i].tx_buf_max_size \in Nat
             /\ Len(tx_packets[i].tx_buf) \in Nat
  <2>1. tx_packets[i] \in Writer
    BY DEF TypeInv, TypeOK
  <2> QED BY <2>1, WriterConstants DEF Writer
<1>3. MaxSizeFor(mtu) \in Nat /\ mtu \in Mtus
  <2>1. mtu \in Mtus
    BY DEF TypeInv, TypeOK
  <2>2. mtu <= mtu
    BY <2>1, MtusAssumption
  <2> QED BY <2>1, <2>2, MaxSizeMonotone
<1> QED BY <1>1, <1>2, <1>3 DEF TypeInv, TypeOK

(* A step that writes to packets within their limits and takes at most the *)
(* first chunk from the FIFO.                                              *)
LEMMA FitKept ==
    ASSUME TypeInv, TypeInv', FitInv, mtu' = mtu,
           \A i \in PacketIdx : WriterStep(tx_packets[i], tx_packets'[i]),
           NEW d \in {0, 1}, Len(fifo') = Len(fifo) - d,
           \A k \in 1 .. Len(fifo') : fifo'[k].head = fifo[k + d].head
    PROVE  FitInv'
<1>1. \A i \in PacketIdx :
          /\ tx_packets'[i].tx_buf_max_size = tx_packets[i].tx_buf_max_size
          /\ Len(tx_packets'[i].tx_buf) <= tx_packets'[i].tx_buf_max_size
  BY DEF FitInv, PacketsOK, WriterStep
<1>2. PacketsOK'
  BY <1>1 DEF FitInv, PacketsOK, MaxSizeFor
<1>3. Len(fifo) \in Nat /\ Len(fifo') \in Nat
  BY SMTT(30) DEF TypeInv, TypeOK
<1>4. \A k \in 1 .. Len(fifo') :
          /\ k + d \in 1 .. Len(fifo)
          /\ IsSize(fifo'[k]) <=> IsSize(fifo[k + d])
          /\ DataCount(fifo'[k]) = DataCount(fifo[k + d])
  BY <1>3 DEF IsSize, DataCount
<1>5. SizesOK'
  <2> SUFFICES ASSUME NEW k \in 1 .. Len(fifo'), IsSize(fifo'[k])
               PROVE  /\ DataCount(fifo'[k]) <= MaxSizeFor(mtu)
                      /\ \A i \in PacketIdx :
                            tx_packets'[i].tx_buf_max_size <= DataCount(fifo'[k])
    BY DEF SizesOK, IsSize, DataCount, MaxSizeFor
  <2> QED BY <1>1, <1>4 DEF FitInv, SizesOK
<1>6. SizesAscend'
  <2> SUFFICES ASSUME NEW j \in 1 .. Len(fifo'), NEW k \in 1 .. Len(fifo'),
                      j < k, IsSize(fifo'[j]), IsSize(fifo'[k])
               PROVE  DataCount(fifo'[j]) <= DataCount(fifo'[k])
    BY DEF SizesAscend, IsSize, DataCount
  <2>1. j + d < k + d
    BY <1>3
  <2> QED BY <1>4, <2>1 DEF FitInv, SizesAscend
<1> QED BY <1>2, <1>5, <1>6 DEF FitInv

(* A step that takes the first chunk of the FIFO or leaves the FIFO alone. *)
LEMMA FitRead ==
    ASSUME TypeInv, TypeInv', FitInv, mtu' = mtu,
           \A i \in PacketIdx : WriterStep(tx_packets[i], tx_packets'[i]),
           fifo' = fifo \/ (fifo # <<>> /\ fifo' = Tail(fifo))
    PROVE  FitInv'
<1>1. CASE fifo' = fifo
  <2>1. Len(fifo) \in Nat
    BY DEF TypeInv, TypeOK
  <2>2. Len(fifo') = Len(fifo) - 0
        /\ \A k \in 1 .. Len(fifo') : fifo'[k].head = fifo[k + 0].head
    BY <1>1, <2>1
  <2> QED BY <2>2, FitKept
<1>2. CASE fifo # <<>> /\ fifo' = Tail(fifo)
  <2>1. fifo \in Seq(Chunk)
    BY DEF TypeInv, TypeOK
  <2>2. Len(fifo') = Len(fifo) - 1
        /\ \A k \in 1 .. Len(fifo') : fifo'[k] = fifo[k + 1]
    BY <1>2, <2>1, HeadTailProperties
  <2>3. \A k \in 1 .. Len(fifo') : fifo'[k].head = fifo[k + 1].head
    BY <2>2
  <2> QED BY <2>2, <2>3, FitKept
<1> QED BY <1>1, <1>2

(* A step that appends a chunk: one that is no limit, or the limit of the  *)
(* MTU after the step.                                                     *)
LEMMA FitAppended ==
    ASSUME TypeInv, TypeInv', FitInv, NEW c \in Chunk, fifo' = Append(fifo, c),
           tx_packets' = tx_packets, mtu <= mtu',
           IsSize(c) => DataCount(c) = MaxSizeFor(mtu')
    PROVE  FitInv'
<1>1. mtu \in Mtus /\ mtu' \in Mtus
  BY DEF TypeInv, TypeOK
<1>2. /\ MaxSizeFor(mtu) \in Nat /\ MaxSizeFor(mtu') \in Nat
      /\ MaxSizeFor(mtu) <= MaxSizeFor(mtu')
  BY <1>1, MaxSizeMonotone
<1>3. fifo \in Seq(Chunk) /\ Len(fifo) \in Nat
  BY DEF TypeInv, TypeOK
<1>4. /\ Len(fifo') = Len(fifo) + 1
      /\ \A i \in 1 .. Len(fifo) : fifo'[i] = fifo[i]
      /\ fifo'[Len(fifo) + 1] = c
  BY <1>3, AppendProperties
<1>5. \A k \in 1 .. Len(fifo') : k \in 1 .. Len(fifo) \/ k = Len(fifo) + 1
  BY <1>3, <1>4
<1>6. PacketsOK'
  <2> SUFFICES ASSUME NEW i \in PacketIdx
               PROVE  /\ Len(tx_packets[i].tx_buf) <= tx_packets[i].tx_buf_max_size
                      /\ tx_packets[i].tx_buf_max_size <= MaxSizeFor(mtu')
    BY DEF PacketsOK
  <2> QED BY <1>2, FitTypes DEF FitInv, PacketsOK
<1>7. SizesOK'
  <2> SUFFICES ASSUME NEW k \in 1 .. Len(fifo'), IsSize(fifo'[k])
               PROVE  /\ DataCount(fifo'[k]) <= MaxSizeFor(mtu')
                      /\ \A i \in PacketIdx :
                            tx_packets[i].tx_buf_max_size <= DataCount(fifo'[k])
    BY DEF SizesOK, IsSize, DataCount
  <2>1. CASE k \in 1 .. Len(fifo)
    BY <1>2, <1>4, <2>1, FitTypes DEF FitInv, SizesOK
  <2>2. CASE k = Len(fifo) + 1
    <3>1. DataCount(fifo'[k]) = MaxSizeFor(mtu')
      BY <1>4, <2>2
    <3> QED BY <1>2, <3>1, FitTypes DEF FitInv, PacketsOK
  <2> QED BY <1>5, <2>1, <2>2
<1>8. SizesAscend'
  <2> SUFFICES ASSUME NEW j \in 1 .. Len(fifo'), NEW k \in 1 .. Len(fifo'),
                      j < k, IsSize(fifo'[j]), IsSize(fifo'[k])
               PROVE  DataCount(fifo'[j]) <= DataCount(fifo'[k])
    BY DEF SizesAscend, IsSize, DataCount
  <2>1. j \in 1 .. Len(fifo)
    BY <1>3, <1>4
  <2>2. CASE k \in 1 .. Len(fifo)
    BY <1>4, <2>1, <2>2 DEF FitInv, SizesAscend
  <2>3. CASE k = Len(fifo) + 1
    <3>1. DataCount(fifo'[k]) = MaxSizeFor(mtu')
      BY <1>4, <2>3
    <3>2. DataCount(fifo'[j]) <= MaxSizeFor(mtu) /\ DataCount(fifo'[j]) \in Nat
      BY <1>4, <2>1, FitTypes DEF FitInv, SizesOK
    <3> QED BY <1>2, <3>1, <3>2
  <2> QED BY <1>5, <2>2, <2>3
<1> QED BY <1>6, <1>7, <1>8 DEF FitInv

-----------------------------------------------------------------------------
(* A fresh queue: one chunk with the limit, packets that may hold nothing. *)
LEMMA FitFresh ==
    ASSUME NEW m \in Mtus,
           NEW q, q = <<[head |-> SizeChunkHead(MaxSizeFor(m)), data |-> <<>>,
                         open |-> FALSE]>>
    PROVE  /\ Len(q) = 1
           /\ DataCount(q[1]) = MaxSizeFor(m)
           /\ MaxSizeFor(m) \in Nat
           /\ Len(WithMaxSize(ble_midi_writer_init, 0).tx_buf) = 0
           /\ WithMaxSize(ble_midi_writer_init, 0).tx_buf_max_size = 0
<1>1. MaxSizeFor(m) \in Nat
      /\ Decode16(SizeChunkHead(MaxSizeFor(m))[2],
                  SizeChunkHead(MaxSizeFor(m))[3]) = MaxSizeFor(m)
  <2>1. m <= m
    BY MtusAssumption
  <2> QED BY <2>1, SizeChunks, MaxSizeMonotone
<1>2. Len(q) = 1 /\ q[1].head = SizeChunkHead(MaxSizeFor(m))
  OBVIOUS
<1> QED BY <1>1, <1>2, ResetPackets DEF DataCount

(* Init establishes FitInv.                                                *)
LEMMA FitInit == Init => FitInv
<1> SUFFICES ASSUME Init PROVE FitInv
  OBVIOUS
<1>1. mtu \in Mtus
  BY DEF Init
<1>2. /\ Len(fifo) = 1 /\ DataCount(fifo[1]) = MaxSizeFor(mtu)
      /\ MaxSizeFor(mtu) \in Nat
      /\ Len(WithMaxSize(ble_midi_writer_init, 0).tx_buf) = 0
      /\ WithMaxSize(ble_midi_writer_init, 0).tx_buf_max_size = 0
  BY <1>1, FitFresh DEF Init
<1>3. \A i \in PacketIdx : tx_packets[i] = WithMaxSize(ble_midi_writer_init, 0)
  BY DEF Init
<1> QED BY <1>2, <1>3 DEF FitInv, PacketsOK, SizesOK, SizesAscend

(* on_connected starts with a fresh queue.                                 *)
LEMMA FitConnected ==
    ASSUME NEW m \in Mtus, Connected(m)
    PROVE  FitInv'
<1>1. /\ Len(fifo') = 1 /\ DataCount(fifo'[1]) = MaxSizeFor(m)
      /\ MaxSizeFor(m) \in Nat
      /\ Len(WithMaxSize(ble_midi_writer_init, 0).tx_buf) = 0
      /\ WithMaxSize(ble_midi_writer_init, 0).tx_buf_max_size = 0
  BY FitFresh DEF Connected
<1>2. \A i \in PacketIdx : tx_packets'[i] = WithMaxSize(ble_midi_writer_init, 0)
  BY DEF Connected, tx_queue_init
<1>3. mtu' = m
  BY DEF Connected
<1> QED BY <1>1, <1>2, <1>3 DEF FitInv, PacketsOK, SizesOK, SizesAscend, IsSize, DataCount

(* on_mtu_changed writes the limit of the new MTU, or loses it when the    *)
(* FIFO is full; the packets then keep a smaller limit.                    *)
LEMMA FitMtuChanged ==
    ASSUME TypeInv, FitInv, ~MtuMayShrink, NEW m \in Mtus, MtuChanged(m)
    PROVE  FitInv'
<1>1. mtu' = m /\ mtu <= m /\ tx_packets' = tx_packets
  <2>1. mtu \in Nat /\ m \in Nat
    BY MtusAssumption DEF TypeInv, TypeOK
  <2> QED BY <2>1 DEF MtuChanged, packetVars
<1>2. TypeInv'
  BY TypeMtuChanged
<1>3. CASE fifo_free_space >= 3
  <2> DEFINE c == ThreeByteChunk(SizeChunkHead(MaxSizeFor(m)))
  <2>1. fifo' = Append(fifo, c)
    BY <1>3 DEF MtuChanged, write_3_byte_chunk_to_fifo
  <2>2. c \in Chunk /\ c.head = SizeChunkHead(MaxSizeFor(m))
    BY SizeChunks, ThreeByteChunkType DEF TypeInv
  <2>3. DataCount(c) = MaxSizeFor(m)
    BY <2>2, SizeChunks DEF DataCount
  <2> HIDE DEF c
  <2> QED BY <1>1, <1>2, <2>1, <2>2, <2>3, FitAppended
<1>4. CASE ~(fifo_free_space >= 3)
  <2>1. fifo' = fifo
    BY <1>4 DEF MtuChanged, fifoVars
  <2>2. /\ MaxSizeFor(mtu) \in Nat /\ MaxSizeFor(m) \in Nat
        /\ MaxSizeFor(mtu) <= MaxSizeFor(m)
    BY <1>1, MaxSizeMonotone DEF TypeInv, TypeOK
  <2>3. PacketsOK'
    <3> SUFFICES ASSUME NEW i \in PacketIdx
                 PROVE  /\ Len(tx_packets[i].tx_buf) <= tx_packets[i].tx_buf_max_size
                        /\ tx_packets[i].tx_buf_max_size <= MaxSizeFor(m)
      BY <1>1 DEF PacketsOK
    <3> QED BY <2>2, FitTypes DEF FitInv, PacketsOK
  <2>4. SizesOK'
    <3> SUFFICES ASSUME NEW k \in 1 .. Len(fifo), IsSize(fifo[k])
                 PROVE  /\ DataCount(fifo[k]) <= MaxSizeFor(m)
                        /\ \A i \in PacketIdx :
                              tx_packets[i].tx_buf_max_size <= DataCount(fifo[k])
      BY <1>1, <2>1 DEF SizesOK, IsSize, DataCount
    <3> QED BY <2>2, FitTypes DEF FitInv, SizesOK
  <2>5. SizesAscend'
    BY <2>1 DEF FitInv, SizesAscend, IsSize, DataCount
  <2> QED BY <2>3, <2>4, <2>5 DEF FitInv
<1> QED BY <1>3, <1>4

(* The client writes no limits.                                            *)
LEMMA FitClientStep ==
    ASSUME TypeInv, FitInv, ClientStep
    PROVE  FitInv'
<1>1. TypeInv' /\ mtu' = mtu /\ tx_packets' = tx_packets
  BY TypeClientStep
     DEF ClientStep, tx_queue_fifo_add_msg, tx_queue_fifo_add_sysex_start,
         tx_queue_fifo_add_sysex_end, WriteSysexDataHeader, WriteSysexDataBytes,
         prodVars, packetVars
<1>2. mtu <= mtu'
  <2>1. mtu \in Mtus
    BY DEF TypeInv, TypeOK
  <2>2. mtu \in Nat
    BY <2>1, MtusAssumption
  <2> QED BY <1>1, <2>2
<1>3. ASSUME NEW h \in ThreeBytes, h[1] # TX_MAX_PACKET_SIZE_CHUNK_ID,
             fifo' = Append(fifo, ThreeByteChunk(h))
      PROVE  FitInv'
  <2>1. ThreeByteChunk(h) \in Chunk /\ ~IsSize(ThreeByteChunk(h))
    BY <1>3, ThreeByteChunkType DEF TypeInv, IsSize
  <2> QED BY <1>1, <1>2, <1>3, <2>1, FitAppended
<1>4. ASSUME NEW m \in Messages, tx_queue_fifo_add_msg(m) PROVE FitInv'
  <2>1. m \in ThreeBytes /\ m[1] # TX_MAX_PACKET_SIZE_CHUNK_ID
    BY MessagesAssumption DEF ThreeBytes, TX_MAX_PACKET_SIZE_CHUNK_ID
  <2> QED BY <1>3, <1>4, <2>1 DEF tx_queue_fifo_add_msg, write_3_byte_chunk_to_fifo
<1>5. ASSUME tx_queue_fifo_add_sysex_start PROVE FitInv'
  <2>1. /\ <<SYSEX_START, 0, 0>> \in ThreeBytes
        /\ SYSEX_START # TX_MAX_PACKET_SIZE_CHUNK_ID
    BY DEF ThreeBytes, Byte, SYSEX_START, TX_MAX_PACKET_SIZE_CHUNK_ID
  <2> QED BY <1>3, <1>5, <2>1
          DEF tx_queue_fifo_add_sysex_start, write_3_byte_chunk_to_fifo
<1>6. ASSUME tx_queue_fifo_add_sysex_end PROVE FitInv'
  <2>1. /\ <<SYSEX_END, 0, 0>> \in ThreeBytes
        /\ SYSEX_END # TX_MAX_PACKET_SIZE_CHUNK_ID
    BY DEF ThreeBytes, Byte, SYSEX_END, TX_MAX_PACKET_SIZE_CHUNK_ID
  <2> QED BY <1>3, <1>6, <2>1
          DEF tx_queue_fifo_add_sysex_end, write_3_byte_chunk_to_fifo
<1>7. ASSUME NEW d \in SysexData, WriteSysexDataHeader(d) PROVE FitInv'
  <2> DEFINE n == NumBytesToSend(Len(d))
             h == <<SYSEX_DATA_CHUNK_ID, Lsb(n), Msb(n)>>
  <2>1. n \in Nat /\ n < 65536
    <3>1. Len(d) \in Nat /\ fifo_free_space \in Nat /\ fifo_free_space > 3
      BY <1>7, SysexDataAssumption
         DEF TypeInv, TypeOK, WriteSysexDataHeader, SYSEX_DATA_CHUNK_HEADER_SIZE
    <3> QED BY <3>1, ChunkSizeAssumption DEF NumBytesToSend, SYSEX_DATA_CHUNK_HEADER_SIZE
  <2>2. fifo' = Append(fifo, ThreeByteChunk(h))
    BY <1>7 DEF WriteSysexDataHeader
  <2> HIDE DEF n
  <2>3. h \in ThreeBytes /\ h[1] # TX_MAX_PACKET_SIZE_CHUNK_ID
    <3>1. Lsb(n) \in Byte /\ Msb(n) \in Byte
      BY <2>1, Encode16
    <3>2. SYSEX_DATA_CHUNK_ID \in Byte
          /\ SYSEX_DATA_CHUNK_ID # TX_MAX_PACKET_SIZE_CHUNK_ID
      BY DEF Byte, SYSEX_DATA_CHUNK_ID, TX_MAX_PACKET_SIZE_CHUNK_ID
    <3> QED BY <3>1, <3>2 DEF ThreeBytes
  <2> HIDE DEF h
  <2> QED BY <1>3, <2>2, <2>3
<1>8. ASSUME WriteSysexDataBytes PROVE FitInv'
  <2>1. /\ Len(fifo') = Len(fifo)
        /\ \A i \in 1 .. Len(fifo) : fifo'[i].head = fifo[i].head
    BY <1>8, TypeWriteBytes
  <2>2. Len(fifo) \in Nat
    BY DEF TypeInv, TypeOK
  <2>3. /\ Len(fifo') = Len(fifo) - 0
        /\ \A k \in 1 .. Len(fifo') : fifo'[k].head = fifo[k + 0].head
    BY <2>1, <2>2
  <2>4. \A i \in PacketIdx : WriterStep(tx_packets[i], tx_packets'[i])
    BY <1>1, SameWriter DEF TypeInv, TypeOK
  <2> QED BY <1>1, <2>3, <2>4, FitKept
<1> QED BY <1>4, <1>5, <1>6, <1>7, <1>8 DEF ClientStep

(* Each step of the packets is a step of a writer.                         *)
LEMMA PacketSteps ==
    ASSUME TypeInv, NEW j \in PacketIdx, NEW w, WriterStep(tx_packets[j], w),
           tx_packets' = [tx_packets EXCEPT ![j] = w]
    PROVE  \A i \in PacketIdx : WriterStep(tx_packets[i], tx_packets'[i])
<1> SUFFICES ASSUME NEW i \in PacketIdx PROVE WriterStep(tx_packets[i], tx_packets'[i])
  OBVIOUS
<1>1. tx_packets \in [PacketIdx -> Writer]
  BY DEF TypeInv, TypeOK
<1>2. CASE i = j
  BY <1>1, <1>2
<1>3. CASE i # j
  BY <1>1, <1>3, SameWriter
<1> QED BY <1>2, <1>3

(* An emptied packet is within its limit.                                  *)
LEMMA ResetStep ==
    ASSUME NEW w \in Writer
    PROVE  WriterStep(w, ble_midi_writer_reset(w))
<1>1. w.tx_buf_max_size \in Nat
  BY WriterConstants DEF Writer
<1> QED BY <1>1, FreshWriters DEF WriterStep

(* A packet is sent.                                                       *)
LEMMA FitSent ==
    ASSUME TypeInv, FitInv, tx_queue_on_tx_packet_sent
    PROVE  FitInv'
<1>1. first_tx_packet_idx \in PacketIdx /\ tx_packets[first_tx_packet_idx] \in Writer
  BY DEF TypeInv, TypeOK
<1>2. /\ tx_packets' = [tx_packets EXCEPT ![first_tx_packet_idx]
                          = ble_midi_writer_reset(tx_packets[first_tx_packet_idx])]
      /\ fifo' = fifo /\ mtu' = mtu
  BY DEF tx_queue_on_tx_packet_sent, fifoVars, prodVars
<1>3. \A i \in PacketIdx : WriterStep(tx_packets[i], tx_packets'[i])
  BY <1>1, <1>2, ResetStep, PacketSteps
<1> QED BY <1>2, <1>3, TypeSent, FitRead

(* The steps that do not touch packets.                                    *)
LEMMA FitNoPacket ==
    ASSUME TypeInv, FitInv,
           \/ ReadStart \/ ReadEmpty \/ ReadRest \/ ReadDataChunk
           \/ \E t \in Timestamps : RejectDataBytes(t)
    PROVE  FitInv'
<1>1. TypeInv'
  BY TypeReadControl, TypeReadDataChunk, TypeRejectDataBytes
<1>2. tx_packets' = tx_packets /\ mtu' = mtu
  BY DEF ReadStart, ReadEmpty, ReadRest, ReadDataChunk, RejectDataBytes,
         packetVars, prodVars
<1>3. \A i \in PacketIdx : WriterStep(tx_packets[i], tx_packets'[i])
  BY <1>2, SameWriter DEF TypeInv, TypeOK
<1>4. fifo' = fifo \/ (fifo # <<>> /\ fifo' = Tail(fifo))
  <2>1. CASE ReadStart \/ ReadEmpty \/ ReadRest \/ ReadDataChunk
    BY <2>1 DEF ReadStart, ReadEmpty, ReadRest, ReadDataChunk, fifoVars
  <2>2. ASSUME NEW t \in Timestamps, RejectDataBytes(t)
        PROVE  fifo' = fifo \/ (fifo # <<>> /\ fifo' = Tail(fifo))
    BY <2>2, ChunkBeingRead DEF RejectDataBytes, SkipInvalid, ConsumeChunk, fifoVars
  <2> QED BY <2>1, <2>2
<1> QED BY <1>1, <1>2, <1>3, <1>4, FitRead

(* A new limit reaches the packets: it is the first of an ascending list.  *)
LEMMA FitReadSizeChunk ==
    ASSUME TypeInv, FitInv, ReadSizeChunk
    PROVE  FitInv'
<1>1. fifo \in Seq(Chunk) /\ fifo # <<>> /\ Len(fifo) \in Nat /\ Len(fifo) >= 1
      /\ mtu \in Mtus /\ tx_packets \in [PacketIdx -> Writer]
  BY DEF TypeInv, TypeOK, ReadSizeChunk, AtChunk
<1>2. /\ Head(fifo) = fifo[1] /\ 1 \in 1 .. Len(fifo)
      /\ Len(Tail(fifo)) = Len(fifo) - 1
      /\ \A k \in 1 .. Len(Tail(fifo)) : Tail(fifo)[k] = fifo[k + 1]
  BY <1>1, HeadTailProperties
<1> DEFINE size == DataCount(fifo[1])
<1>3. IsSize(fifo[1]) /\ fifo' = Tail(fifo) /\ mtu' = mtu
  BY <1>2 DEF ReadSizeChunk, ConsumeChunk, IsSize, prodVars
<1>4. /\ size \in Nat /\ size <= MaxSizeFor(mtu)
      /\ MaxSizeFor(mtu) <= BLE_MIDI_TX_PACKET_MAX_SIZE
      /\ MaxSizeFor(mtu) \in Nat /\ BLE_MIDI_TX_PACKET_MAX_SIZE \in Nat
      /\ \A i \in PacketIdx : tx_packets[i].tx_buf_max_size <= size
  BY <1>1, <1>2, <1>3, FitTypes, SizeChunks, WriterConstants DEF FitInv, SizesOK
<1>5. tx_packets' = [i \in PacketIdx |-> WithMaxSize(tx_packets[i], size)]
  <2>1. tx_packets' = [i \in PacketIdx |->
            WithMaxSize(tx_packets[i],
                IF size > BLE_MIDI_TX_PACKET_MAX_SIZE
                THEN BLE_MIDI_TX_PACKET_MAX_SIZE ELSE size)]
    BY <1>2 DEF ReadSizeChunk, DataCount
  <2>2. ~(size > BLE_MIDI_TX_PACKET_MAX_SIZE)
    BY <1>4
  <2> HIDE DEF size
  <2> QED BY <2>1, <2>2
<1>6. \A i \in PacketIdx : /\ tx_packets'[i].tx_buf = tx_packets[i].tx_buf
                           /\ tx_packets'[i].tx_buf_max_size = size
  <2>1. size \in 0 .. BLE_MIDI_TX_PACKET_MAX_SIZE
    BY <1>4
  <2> HIDE DEF size
  <2> QED BY <1>1, <1>5, <2>1, WithMaxSizeType
<1> HIDE DEF size
<1>7. PacketsOK'
  <2> SUFFICES ASSUME NEW i \in PacketIdx
               PROVE  /\ Len(tx_packets'[i].tx_buf) <= tx_packets'[i].tx_buf_max_size
                      /\ tx_packets'[i].tx_buf_max_size <= MaxSizeFor(mtu)
    BY <1>3 DEF PacketsOK
  <2> QED BY <1>4, <1>6, FitTypes DEF FitInv, PacketsOK
<1>8. SizesOK'
  <2> SUFFICES ASSUME NEW k \in 1 .. Len(fifo'), IsSize(fifo'[k])
               PROVE  /\ DataCount(fifo'[k]) <= MaxSizeFor(mtu)
                      /\ \A i \in PacketIdx :
                            tx_packets'[i].tx_buf_max_size <= DataCount(fifo'[k])
    BY <1>3 DEF SizesOK, IsSize, DataCount
  <2>1. fifo'[k] = fifo[k + 1] /\ k + 1 \in 1 .. Len(fifo) /\ 1 < k + 1
    BY <1>1, <1>2, <1>3
  <2>2. size <= DataCount(fifo[k + 1])
    BY <1>2, <1>3, <2>1 DEF FitInv, SizesAscend, size
  <2> QED BY <1>6, <2>1, <2>2 DEF FitInv, SizesOK
<1>9. SizesAscend'
  <2> SUFFICES ASSUME NEW j \in 1 .. Len(fifo'), NEW k \in 1 .. Len(fifo'),
                      j < k, IsSize(fifo'[j]), IsSize(fifo'[k])
               PROVE  DataCount(fifo'[j]) <= DataCount(fifo'[k])
    BY DEF SizesAscend, IsSize, DataCount
  <2>1. /\ fifo'[k] = fifo[k + 1] /\ k + 1 \in 1 .. Len(fifo)
        /\ fifo'[j] = fifo[j + 1] /\ j + 1 \in 1 .. Len(fifo)
        /\ j + 1 < k + 1
    BY <1>1, <1>2, <1>3
  <2> QED BY <2>1 DEF FitInv, SizesAscend
<1> QED BY <1>7, <1>8, <1>9 DEF FitInv

(* A three byte chunk is added to a packet.                                *)
LEMMA FitAdd3 ==
    ASSUME TypeInv, FitInv, NEW t \in Timestamps, add_3_byte_chunk_to_tx_packet(t)
    PROVE  FitInv'
<1> DEFINE h == Head(fifo).head
           a == Attempt(h, t)
<1>1. fifo \in Seq(Chunk) /\ fifo # <<>>
  BY DEF TypeInv, TypeOK, add_3_byte_chunk_to_tx_packet, AtChunk
<1>2. h \in ThreeBytes
  <2>1. Head(fifo) \in Chunk
    BY <1>1, SMTT(30)
  <2> QED BY <2>1 DEF Chunk, ThreeBytes
<1>3. tx_packets' = [tx_packets EXCEPT ![a.packet] = a.w] /\ mtu' = mtu
      /\ (fifo' = fifo \/ fifo' = Tail(fifo))
  BY DEF add_3_byte_chunk_to_tx_packet, ConsumeChunk, fifoVars, prodVars
<1>4. a.packet \in PacketIdx /\ WriterStep(tx_packets[a.packet], a.w)
  BY <1>2, AttemptFacts
<1> HIDE DEF a
<1>5. \A i \in PacketIdx : WriterStep(tx_packets[i], tx_packets'[i])
  BY <1>3, <1>4, PacketSteps
<1> QED BY <1>1, <1>3, <1>5, TypeAdd3, FitRead, SMTT(30)

(* Data bytes are added to the last packet.                                *)
LEMMA FitAddDataBytes ==
    ASSUME TypeInv, FitInv, NEW t \in Timestamps, AddDataBytes(t)
    PROVE  FitInv'
<1> DEFINE last == tx_queue_last_tx_packet
           r    == ble_midi_writer_add_sysex_data(tx_packets[last], DataToAdd, t)
           done == [tx_packets EXCEPT ![last] = r.w]
<1>1. reader \in {"chunk", "rest"} /\ mtu' = mtu
  BY DEF AddDataBytes, prodVars
<1>2. last \in PacketIdx /\ NextPacket \in PacketIdx
      /\ tx_packets \in [PacketIdx -> Writer]
  BY RingIndices DEF TypeInv, TypeOK
<1>3. WriterStep(tx_packets[last], r.w)
  BY <1>1, AddDataFacts
<1>4. \/ tx_packets' = done
      \/ tx_packets' = [done EXCEPT ![NextPacket] = ble_midi_writer_reset(@)]
  BY DEF AddDataBytes
<1>5. fifo' = fifo \/ (fifo # <<>> /\ fifo' = Tail(fifo))
  BY <1>1, ChunkBeingRead DEF AddDataBytes, DataReturns, ConsumeChunk, fifoVars
<1> HIDE DEF r, last
<1>6. \A i \in PacketIdx : done[i] \in Writer /\ WriterStep(tx_packets[i], done[i])
  <2> SUFFICES ASSUME NEW i \in PacketIdx
               PROVE  done[i] \in Writer /\ WriterStep(tx_packets[i], done[i])
    OBVIOUS
  <2>1. CASE i = last
    BY <1>2, <1>3, <2>1 DEF WriterStep
  <2>2. CASE i # last
    BY <1>2, <2>2, SameWriter
  <2> QED BY <2>1, <2>2
<1>7. \A i \in PacketIdx : WriterStep(tx_packets[i], tx_packets'[i])
  <2> SUFFICES ASSUME NEW i \in PacketIdx
               PROVE  WriterStep(tx_packets[i], tx_packets'[i])
    OBVIOUS
  <2>1. CASE tx_packets'[i] = done[i]
    BY <1>6, <2>1
  <2>2. CASE tx_packets'[i] = ble_midi_writer_reset(done[i])
    <3>1. WriterStep(done[i], ble_midi_writer_reset(done[i]))
      BY <1>6, ResetStep
    <3> QED BY <1>6, <2>2, <3>1 DEF WriterStep
  <2>3. tx_packets'[i] = done[i] \/ tx_packets'[i] = ble_midi_writer_reset(done[i])
    BY <1>2, <1>4
  <2> QED BY <2>1, <2>2, <2>3
<1> QED BY <1>1, <1>5, <1>7, TypeAddDataBytes, FitRead

(* Every step preserves FitInv as long as the MTU does not decrease.       *)
LEMMA FitStep ==
    ASSUME ~MtuMayShrink
    PROVE  TypeInv /\ FitInv /\ [Next]_vars => FitInv'
<1> SUFFICES ASSUME TypeInv, FitInv, [Next]_vars PROVE FitInv'
  OBVIOUS
<1>1. CASE ClientStep
  BY <1>1, FitClientStep
<1>2. CASE \E m \in Mtus : MtuChanged(m)
  BY <1>2, FitMtuChanged
<1>3. CASE \E m \in Mtus : Connected(m)
  BY <1>3, FitConnected
<1>4. CASE tx_queue_on_tx_packet_sent
  BY <1>4, FitSent
<1>5. CASE ReadStart
  BY <1>5, FitNoPacket
<1>6. CASE ReaderStep
  BY <1>6, FitNoPacket, FitReadSizeChunk, FitAdd3, FitAddDataBytes DEF ReaderStep
<1>7. CASE UNCHANGED vars
  BY <1>7 DEF FitInv, PacketsOK, SizesOK, SizesAscend, IsSize, DataCount,
          vars, fifoVars, prodVars, packetVars
<1> QED BY <1>1, <1>2, <1>3, <1>4, <1>5, <1>6, <1>7 DEF Next

(* The two invariants give PacketsFit.                                     *)
LEMMA FitInvFits == TypeInv /\ FitInv => PacketsFit
<1> SUFFICES ASSUME TypeInv, FitInv, NEW i \in PacketIdx
             PROVE  /\ Len(tx_packets[i].tx_buf) <= tx_packets[i].tx_buf_max_size
                    /\ tx_packets[i].tx_buf_max_size <= BLE_MIDI_TX_PACKET_MAX_SIZE
                    /\ tx_packets[i].tx_buf_max_size <= mtu - 3
  BY DEF PacketsFit
<1>1. /\ mtu \in Mtus /\ tx_packets[i].tx_buf_max_size \in Nat
      /\ MaxSizeFor(mtu) \in Nat
  BY FitTypes
<1>2. mtu \in Nat /\ BLE_MIDI_TX_PACKET_MAX_SIZE \in Nat
  BY <1>1, MtusAssumption, WriterConstants
<1>3. MaxSizeFor(mtu) <= BLE_MIDI_TX_PACKET_MAX_SIZE /\ MaxSizeFor(mtu) <= mtu - 3
  BY <1>1, SizeChunks
<1> QED BY <1>1, <1>2, <1>3 DEF FitInv, PacketsOK

(* PacketsAlwaysFit: on connections whose MTU never decreases, no packet   *)
(* that tx_queue_first_tx_packet hands out is larger than its buffer or    *)
(* than a notification may be, for every packet count, packet size, FIFO   *)
(* size, client and MTU of at least 8, although tx_queue_read_from_fifo    *)
(* learns of a new MTU late or, when the FIFO was full, never.             *)
THEOREM PacketsAlwaysFit ==
    ASSUME ~MtuMayShrink
    PROVE  Spec => []PacketsFit
<1>1. TypeInv /\ FitInv /\ [Next]_vars => FitInv'
  BY FitStep
<1> QED BY <1>1, FitInit, TypeInvariance, FitInvFits, PTL DEF Spec

-----------------------------------------------------------------------------
(* The MIDI stream passes the queue unharmed, and has_tx_data is right.    *)

-----------------------------------------------------------------------------
(* The concatenation of sequences.                                         *)

(* f[i] is the concatenation of the first i sequences of s.                *)
Folds(f, s, n) ==
    \A i \in 1 .. n : f[i] = IF i = 1 THEN s[i] ELSE f[i - 1] \o s[i]

(* There is such a function for every sequence of sequences.               *)
LEMMA FoldExists ==
    ASSUME NEW S, NEW s \in Seq(Seq(S)), NEW n \in 1 .. Len(s)
    PROVE  \E f \in [1 .. n -> Seq(S)] : Folds(f, s, n)
<1> DEFINE T == {m \in 1 .. Len(s) : ~\E f \in [1 .. m -> Seq(S)] : Folds(f, s, m)}
<1> SUFFICES ASSUME T # {} PROVE FALSE
  OBVIOUS
<1>1. T \in SUBSET Nat
  OBVIOUS
<1>2. PICK m \in T : \A k \in T : m <= k
  BY <1>1, LeastNumber
<1>3. m \in 1 .. Len(s) /\ s[m] \in Seq(S)
  BY ElementOfSeq
<1>4. CASE m = 1
  <2> DEFINE g == [i \in 1 .. m |-> s[i]]
  <2>1. g \in [1 .. m -> Seq(S)] /\ Folds(g, s, m)
    BY <1>3, <1>4 DEF Folds
  <2> QED BY <2>1
<1>5. CASE m # 1
  <2>1. m - 1 \in 1 .. Len(s) /\ ~(m <= m - 1)
    BY <1>3, <1>5
  <2>2. m - 1 \notin T
    BY <1>2, <2>1
  <2>3. PICK f \in [1 .. m - 1 -> Seq(S)] : Folds(f, s, m - 1)
    BY <2>1, <2>2
  <2> DEFINE c == f[m - 1] \o s[m]
             g == [i \in 1 .. m |-> IF i = m THEN c ELSE f[i]]
  <2>4. c \in Seq(S)
    <3>1. f[m - 1] \in Seq(S)
      BY <1>3, <1>5
    <3> QED BY <1>3, <3>1, ConcatProperties
  <2>5. g \in [1 .. m -> Seq(S)]
    BY <1>3, <2>4
  <2>6. ASSUME NEW i \in 1 .. m
        PROVE  g[i] = IF i = 1 THEN s[i] ELSE g[i - 1] \o s[i]
    <3>1. CASE i = m
      <4>1. m \in 1 .. m /\ m - 1 \in 1 .. m /\ m - 1 # m
        BY <1>3, <1>5
      <4>2. g[m] = c /\ g[m - 1] = f[m - 1]
        BY <4>1
      <4> HIDE DEF g
      <4> QED BY <1>5, <3>1, <4>2
    <3>2. CASE i # m
      <4>1. i \in 1 .. m - 1 /\ (i # 1 => i - 1 \in 1 .. m - 1)
        BY <1>3, <3>2
      <4>2. g[i] = f[i] /\ (i # 1 => g[i - 1] = f[i - 1])
        BY <1>3, <3>2, <4>1
      <4> HIDE DEF g
      <4> QED BY <2>3, <4>1, <4>2 DEF Folds
    <3> QED BY <3>1, <3>2
  <2> HIDE DEF g
  <2> QED BY <2>5, <2>6 DEF Folds
<1> QED BY <1>4, <1>5

(* It is one for every shorter sequence too.                               *)
LEMMA FoldsPrefix ==
    ASSUME NEW n \in Nat, NEW m \in Nat, m <= n, NEW f, NEW s, Folds(f, s, n)
    PROVE  Folds(f, s, m)
<1>1. \A i \in 1 .. m : i \in 1 .. n
  OBVIOUS
<1> QED BY <1>1 DEF Folds

(* There is only one.                                                      *)
LEMMA FoldsAgree ==
    ASSUME NEW n \in Nat, NEW s, NEW f, NEW g, Folds(f, s, n), Folds(g, s, n)
    PROVE  \A i \in 1 .. n : f[i] = g[i]
<1> DEFINE T == {i \in 1 .. n : f[i] # g[i]}
<1> SUFFICES ASSUME T # {} PROVE FALSE
  OBVIOUS
<1>1. PICK m \in T : \A k \in T : m <= k
  <2>1. T \in SUBSET Nat
    OBVIOUS
  <2> HIDE DEF T
  <2> QED BY <2>1, LeastNumber
<1>2. m \in 1 .. n /\ f[m] # g[m]
  OBVIOUS
<1>3. CASE m = 1
  BY <1>2, <1>3 DEF Folds
<1>4. CASE m # 1
  <2>1. m - 1 \in 1 .. n /\ ~(m <= m - 1)
    BY <1>2, <1>4
  <2>2. f[m - 1] = g[m - 1]
    BY <1>1, <2>1
  <2> HIDE DEF T
  <2> QED BY <1>2, <1>4, <2>2 DEF Folds
<1> QED BY <1>3, <1>4

(* FlattenSeq is what it computes.                                         *)
LEMMA FlattenFolds ==
    ASSUME NEW S, NEW s \in Seq(Seq(S)), Len(s) > 0
    PROVE  \E f \in [1 .. Len(s) -> Seq(S)] :
              Folds(f, s, Len(s)) /\ FlattenSeq(s) = f[Len(s)]
<1> DEFINE g == CHOOSE g : g = [i \in 1 .. Len(s) |->
                    IF i = 1 THEN s[i] ELSE g[i - 1] \o s[i]]
<1>1. Len(s) \in 1 .. Len(s)
  OBVIOUS
<1>2. PICK f \in [1 .. Len(s) -> Seq(S)] : Folds(f, s, Len(s))
  BY <1>1, FoldExists
<1>3. f = [i \in 1 .. Len(s) |-> IF i = 1 THEN s[i] ELSE f[i - 1] \o s[i]]
  BY <1>2 DEF Folds
<1>4. g = [i \in 1 .. Len(s) |-> IF i = 1 THEN s[i] ELSE g[i - 1] \o s[i]]
  BY <1>3
<1>5. FlattenSeq(s) = g[Len(s)]
  BY DEF FlattenSeq
<1> HIDE DEF g
<1>6. Folds(g, s, Len(s))
  BY <1>4 DEF Folds
<1>7. f[Len(s)] = g[Len(s)]
  BY <1>1, <1>2, <1>6, FoldsAgree
<1> QED BY <1>2, <1>5, <1>7

(* The concatenation of one sequence.                                      *)
LEMMA FlattenOne ==
    ASSUME NEW S, NEW s \in Seq(Seq(S)), Len(s) = 1
    PROVE  FlattenSeq(s) = s[1]
<1>1. PICK f \in [1 .. Len(s) -> Seq(S)] :
          Folds(f, s, Len(s)) /\ FlattenSeq(s) = f[Len(s)]
  BY FlattenFolds, SMTT(30)
<1> QED BY <1>1 DEF Folds

(* One step of the function.                                               *)
LEMMA FoldStep ==
    ASSUME NEW n \in Nat, NEW f, NEW s, Folds(f, s, n + 1), n >= 1
    PROVE  f[n + 1] = f[n] \o s[n + 1]
<1> DEFINE m == n + 1
<1>1. m \in 1 .. n + 1 /\ m # 1 /\ m - 1 = n
  OBVIOUS
<1> HIDE DEF m
<1>2. f[m] = IF m = 1 THEN s[m] ELSE f[m - 1] \o s[m]
  BY <1>1 DEF Folds
<1>3. f[m] = f[n] \o s[m]
  BY <1>1, <1>2
<1> QED BY <1>3 DEF m

(* The same as FlattenFolds, for a sequence of known length.               *)
LEMMA FlattenFoldsTo ==
    ASSUME NEW S, NEW s \in Seq(Seq(S)), NEW n \in Nat, n >= 1, Len(s) = n
    PROVE  \E f \in [1 .. n -> Seq(S)] : Folds(f, s, n) /\ FlattenSeq(s) = f[n]
<1>1. Len(s) > 0
  OBVIOUS
<1>2. \E f \in [1 .. Len(s) -> Seq(S)] :
          Folds(f, s, Len(s)) /\ FlattenSeq(s) = f[Len(s)]
  BY <1>1, FlattenFolds
<1> QED BY <1>2

(* The last sequence grows.                                                *)
LEMMA FlattenExtended ==
    ASSUME NEW S, NEW n \in Nat, NEW s \in Seq(Seq(S)), NEW t \in Seq(Seq(S)),
           NEW x \in Seq(S)
    PROVE  /\ n >= 1 /\ Len(s) = n /\ Len(t) = n
           /\ \A i \in 1 .. n - 1 : t[i] = s[i]
           /\ t[n] = s[n] \o x
           => FlattenSeq(t) = FlattenSeq(s) \o x
<1>1. SUFFICES ASSUME n >= 1 /\ Len(s) = n /\ Len(t) = n,
                      \A i \in 1 .. n - 1 : t[i] = s[i], t[n] = s[n] \o x
               PROVE  FlattenSeq(t) = FlattenSeq(s) \o x
  OBVIOUS
<1>2. n >= 1 /\ Len(s) = n /\ Len(t) = n /\ n \in 1 .. n
  BY <1>1
<1>3. PICK f : /\ f \in [1 .. n -> Seq(S)] /\ Folds(f, s, n)
               /\ FlattenSeq(s) = f[n]
  BY <1>2, FlattenFoldsTo
<1>4. PICK g : /\ g \in [1 .. n -> Seq(S)] /\ Folds(g, t, n)
               /\ FlattenSeq(t) = g[n]
  BY <1>2, FlattenFoldsTo
<1>5. CASE n = 1
  <2>1. f[n] = s[n]
    BY <1>2, <1>3, <1>5 DEF Folds
  <2>2. g[n] = t[n]
    BY <1>2, <1>4, <1>5 DEF Folds
  <2> QED BY <1>1, <1>3, <1>4, <2>1, <2>2
<1>6. CASE n # 1
  <2> DEFINE m == n - 1
  <2>1. m \in Nat /\ m <= n /\ n = m + 1 /\ m >= 1 /\ m \in 1 .. m /\ m \in 1 .. n
    BY <1>2, <1>6
  <2>2. \A i \in 1 .. m : t[i] = s[i]
    BY <1>1
  <2> HIDE DEF m
  <2>3. Folds(f, s, m) /\ Folds(g, t, m)
    BY <1>3, <1>4, <2>1, FoldsPrefix
  <2>4. Folds(g, s, m)
    BY <2>2, <2>3 DEF Folds
  <2>5. f[m] = g[m]
    BY <2>1, <2>3, <2>4, FoldsAgree
  <2>6. f[n] = f[m] \o s[n]
    BY <1>3, <2>1, FoldStep
  <2>7. g[n] = g[m] \o t[n]
    BY <1>4, <2>1, FoldStep
  <2> DEFINE a == f[m]
             b == s[n]
             u == FlattenSeq(s)
             v == FlattenSeq(t)
  <2>8. a \in Seq(S) /\ b \in Seq(S)
    BY <1>2, <1>3, <2>1, ElementOfSeq
  <2>9. u = a \o b /\ v = a \o (b \o x)
    BY <1>1, <1>3, <1>4, <2>5, <2>6, <2>7
  <2> HIDE DEF a, b, u, v
  <2>10. (a \o b) \o x = a \o (b \o x)
    BY <2>8, ConcatAssociative, SMTT(30)
  <2>11. v = u \o x
    BY <2>9, <2>10, Zenon
  <2> QED BY <2>11 DEF u, v
<1> QED BY <1>5, <1>6

(* A sequence is added at the end.                                         *)
LEMMA FlattenAdded ==
    ASSUME NEW S, NEW n \in Nat, NEW s \in Seq(Seq(S)), NEW t \in Seq(Seq(S))
    PROVE  /\ n >= 1 /\ Len(s) = n /\ Len(t) = n + 1
           /\ \A i \in 1 .. n : t[i] = s[i]
           => FlattenSeq(t) = FlattenSeq(s) \o t[n + 1]
<1>1. SUFFICES ASSUME n >= 1 /\ Len(s) = n /\ Len(t) = n + 1,
                      \A i \in 1 .. n : t[i] = s[i]
               PROVE  FlattenSeq(t) = FlattenSeq(s) \o t[n + 1]
  OBVIOUS
<1>2. n >= 1 /\ Len(s) = n
  BY <1>1
<1>3. PICK f : /\ f \in [1 .. n -> Seq(S)] /\ Folds(f, s, n)
               /\ FlattenSeq(s) = f[n]
  BY <1>2, FlattenFoldsTo
<1>4. PICK g : /\ g \in [1 .. n + 1 -> Seq(S)] /\ Folds(g, t, n + 1)
               /\ FlattenSeq(t) = g[n + 1]
  <2>1. n + 1 \in Nat /\ n + 1 >= 1 /\ Len(t) = n + 1
    BY <1>1
  <2> QED BY <2>1, FlattenFoldsTo
<1>5. f[n] = g[n]
  <2>1. Folds(g, t, n)
    BY <1>4, FoldsPrefix
  <2>2. Folds(g, s, n)
    BY <1>1, <2>1 DEF Folds
  <2> QED BY <1>2, <1>3, <2>2, FoldsAgree
<1>6. g[n + 1] = g[n] \o t[n + 1]
  BY <1>2, <1>4, FoldStep
<1> QED BY <1>3, <1>4, <1>5, <1>6

(* The first sequence comes first.                                         *)
LEMMA FlattenFirst ==
    ASSUME NEW S, NEW n \in Nat, NEW s \in Seq(Seq(S)), NEW t \in Seq(Seq(S))
    PROVE  /\ n >= 1 /\ Len(t) = n /\ Len(s) = n + 1
           /\ \A i \in 1 .. n : t[i] = s[i + 1]
           => FlattenSeq(s) = s[1] \o FlattenSeq(t)
<1>1. SUFFICES ASSUME n >= 1 /\ Len(t) = n /\ Len(s) = n + 1,
                      \A i \in 1 .. n : t[i] = s[i + 1]
               PROVE  FlattenSeq(s) = s[1] \o FlattenSeq(t)
  OBVIOUS
<1>2. /\ n >= 1 /\ Len(t) = n /\ n + 1 \in Nat /\ n + 1 >= 1 /\ Len(s) = n + 1
      /\ n \in 1 .. n /\ 1 \in 1 .. n /\ 1 \in 1 .. n + 1
  BY <1>1
<1>3. PICK f : /\ f \in [1 .. n + 1 -> Seq(S)] /\ Folds(f, s, n + 1)
               /\ FlattenSeq(s) = f[n + 1]
  BY <1>2, FlattenFoldsTo
<1>4. PICK g : /\ g \in [1 .. n -> Seq(S)] /\ Folds(g, t, n)
               /\ FlattenSeq(t) = g[n]
  BY <1>2, FlattenFoldsTo
<1>5. s[1] \in Seq(S) /\ \A i \in 1 .. n : t[i] \in Seq(S)
  BY <1>2, ElementOfSeq
<1> DEFINE T == {i \in 1 .. n : f[i + 1] # s[1] \o g[i]}
<1>6. T = {}
  <2>1. SUFFICES ASSUME T # {} PROVE FALSE
    OBVIOUS
  <2>2. PICK m : m \in T /\ \A k \in T : m <= k
    <3>1. T \subseteq 1 .. n
      OBVIOUS
    <3> HIDE DEF T
    <3>2. T \in SUBSET Nat
      BY <3>1
    <3> QED BY <2>1, <3>2, LeastNumber
  <2>3. m \in 1 .. n /\ f[m + 1] # s[1] \o g[m]
    BY <2>2
  <2>4. \A k \in 1 .. n : ~(m <= k) => f[k + 1] = s[1] \o g[k]
    BY <2>2
  <2> HIDE DEF T
  <2>5. f[m + 1] = f[m] \o t[m]
    <3>1. m \in Nat /\ m + 1 \in Nat /\ n + 1 \in Nat /\ m + 1 <= n + 1 /\ m >= 1
      BY <2>3
    <3>2. Folds(f, s, m + 1)
      BY <1>3, <3>1, FoldsPrefix
    <3>3. f[m + 1] = f[m] \o s[m + 1]
      BY <3>1, <3>2, FoldStep
    <3>4. t[m] = s[m + 1]
      BY <1>1, <2>3
    <3> QED BY <3>3, <3>4
  <2>6. CASE m = 1
    <3>1. g[1] = t[1]
      BY <1>2, <1>4 DEF Folds
    <3>2. f[1] = s[1]
      BY <1>2, <1>3 DEF Folds
    <3> QED BY <2>3, <2>5, <2>6, <3>1, <3>2
  <2>7. CASE m # 1
    <3> DEFINE k == m - 1
    <3>1. k \in 1 .. n /\ ~(m <= k) /\ k + 1 = m /\ k \in Nat /\ k >= 1
      BY <2>3, <2>7
    <3> HIDE DEF k
    <3>2. f[m] = s[1] \o g[k]
      BY <2>4, <3>1
    <3>3. g[m] = g[k] \o t[m]
      <4>1. m \in Nat /\ m <= n
        BY <2>3
      <4>2. Folds(g, t, m)
        BY <1>4, <4>1, FoldsPrefix
      <4> QED BY <3>1, <4>2, FoldStep
    <3> DEFINE a == s[1]
               b == g[k]
               c == t[m]
               u == f[m]
               v == g[m]
               w == f[m + 1]
    <3>4. a \in Seq(S) /\ b \in Seq(S) /\ c \in Seq(S)
      BY <1>4, <1>5, <2>3, <3>1
    <3>5. u = a \o b /\ v = b \o c /\ w = u \o c /\ w # a \o v
      BY <2>3, <2>5, <3>2, <3>3
    <3> HIDE DEF a, b, c, u, v, w
    <3>6. (a \o b) \o c = a \o (b \o c)
      BY <3>4, ConcatAssociative, SMTT(30)
    <3> QED BY <3>5, <3>6
  <2> QED BY <2>6, <2>7
<1>7. f[n + 1] = s[1] \o g[n]
  BY <1>2, <1>6
<1> QED BY <1>3, <1>4, <1>7

(* The k-th place from place a in a ring of n.                             *)
LEMMA RingPosition ==
    ASSUME NEW n \in Nat, n > 0, NEW a \in 0 .. n - 1, NEW k \in 0 .. n
    PROVE  (a + k) % n = IF a + k < n THEN a + k ELSE a + k - n
<1> DEFINE x == a + k
           q == x \div n
           r == x % n
<1>1. x \in Nat /\ x < 2 * n
  OBVIOUS
<1>2. q \in Int /\ r \in 0 .. n - 1 /\ x = n * q + r
  BY <1>1
<1> HIDE DEF x, q, r
<1>3. q < 2
  <2> SUFFICES ASSUME q >= 2 PROVE FALSE
    BY <1>2
  <2>1. n * q >= n * 2
    BY <1>2
  <2> QED BY <1>1, <1>2, <2>1
<1>4. q > -1
  <2> SUFFICES ASSUME q <= -1 PROVE FALSE
    BY <1>2
  <2>1. n * q <= n * (-1)
    BY <1>2
  <2> QED BY <1>1, <1>2, <2>1
<1>5. q = 0 \/ q = 1
  BY <1>2, <1>3, <1>4
<1>6. CASE q = 0
  <2>1. x = r
    BY <1>1, <1>2, <1>6
  <2> QED BY <1>2, <2>1 DEF r, x
<1>7. CASE q = 1
  <2>1. x = n + r
    BY <1>1, <1>2, <1>7
  <2>2. r = x - n /\ x >= n
    BY <1>1, <1>2, <2>1
  <2> QED BY <2>2 DEF r, x
<1> QED BY <1>5, <1>6, <1>7

-----------------------------------------------------------------------------
(* The ring.                                                               *)

(* The k-th packet from the first in use.                                  *)
Pos(k) == (first_tx_packet_idx + k) % TX_QUEUE_PACKET_COUNT

(* The places of the ring from the first packet in use are all different.  *)
LEMMA Positions ==
    ASSUME TypeOK
    PROVE  /\ TX_QUEUE_PACKET_COUNT \in Nat /\ TX_QUEUE_PACKET_COUNT > 0
           /\ \A k \in 0 .. TX_QUEUE_PACKET_COUNT - 1 : Pos(k) \in PacketIdx
           /\ \A j, k \in 0 .. TX_QUEUE_PACKET_COUNT - 1 : Pos(j) = Pos(k) => j = k
           /\ Pos(0) = first_tx_packet_idx
           /\ tx_queue_last_tx_packet = Pos(tx_packet_count - 1)
           /\ NextPacket = Pos(tx_packet_count)
<1> DEFINE N == TX_QUEUE_PACKET_COUNT
           a == first_tx_packet_idx
<1>1. N \in Nat /\ N > 0 /\ a \in 0 .. N - 1 /\ tx_packet_count \in Nat
  BY PacketCountAssumption DEF TypeOK, PacketIdx
<1>2. \A k \in 0 .. N : Pos(k) = IF a + k < N THEN a + k ELSE a + k - N
  <2>1. SUFFICES ASSUME NEW k \in 0 .. N
                 PROVE  Pos(k) = IF a + k < N THEN a + k ELSE a + k - N
    OBVIOUS
  <2> HIDE DEF N, a
  <2>2. (a + k) % N = IF a + k < N THEN a + k ELSE a + k - N
    BY <1>1, RingPosition
  <2> QED BY <2>2 DEF Pos, N, a
<1>3. PacketIdx = 0 .. N - 1
  BY DEF PacketIdx
<1>4. NextPacket = Pos(tx_packet_count)
  BY DEF NextPacket, Pos
<1>5. tx_queue_last_tx_packet = Pos(tx_packet_count - 1)
  <2>1. a + tx_packet_count - 1 = a + (tx_packet_count - 1)
    BY <1>1
  <2> QED BY <2>1 DEF tx_queue_last_tx_packet, Pos
<1> HIDE DEF N, a
<1>6. \A k \in 0 .. N - 1 : Pos(k) \in 0 .. N - 1
  BY <1>1, <1>2
<1>7. \A j, k \in 0 .. N - 1 : Pos(j) = Pos(k) => j = k
  BY <1>1, <1>2
<1>8. Pos(0) = a
  BY <1>1, <1>2
<1> QED BY <1>1, <1>3, <1>4, <1>5, <1>6, <1>7, <1>8 DEF N, a

(* The first packet in use is the next one: every place moves by one.      *)
LEMMA PositionsMove ==
    ASSUME TypeOK, first_tx_packet_idx' = (first_tx_packet_idx + 1) % TX_QUEUE_PACKET_COUNT
    PROVE  \A k \in 0 .. TX_QUEUE_PACKET_COUNT - 1 :
              Pos(k)' = IF k = TX_QUEUE_PACKET_COUNT - 1 THEN Pos(0) ELSE Pos(k + 1)
<1> DEFINE N == TX_QUEUE_PACKET_COUNT
           a == first_tx_packet_idx
           b == first_tx_packet_idx'
<1>1. N \in Nat /\ N > 0 /\ a \in 0 .. N - 1
  BY PacketCountAssumption DEF TypeOK, PacketIdx
<1>2. b = (a + 1) % N /\ 1 \in 0 .. N
  BY <1>1
<1>3. \A k \in 0 .. N : Pos(k) = (a + k) % N /\ Pos(k)' = (b + k) % N
  BY DEF Pos
<1> HIDE DEF N, a, b
<1>4. b = IF a + 1 < N THEN a + 1 ELSE a + 1 - N
  BY <1>1, <1>2, RingPosition
<1>5. b \in 0 .. N - 1
  BY <1>1, <1>4
<1>6. \A k \in 0 .. N : (a + k) % N = IF a + k < N THEN a + k ELSE a + k - N
  BY <1>1, RingPosition
<1>7. \A k \in 0 .. N : (b + k) % N = IF b + k < N THEN b + k ELSE b + k - N
  BY <1>1, <1>5, RingPosition
<1>8. SUFFICES ASSUME NEW k \in 0 .. N - 1
               PROVE  Pos(k)' = IF k = N - 1 THEN Pos(0) ELSE Pos(k + 1)
  BY DEF N
<1>9. k \in 0 .. N /\ k + 1 \in 0 .. N /\ 0 \in 0 .. N
  BY <1>1
<1>10. Pos(k)' = (b + k) % N /\ Pos(0) = (a + 0) % N /\ Pos(k + 1) = (a + (k + 1)) % N
  BY <1>3, <1>9
<1>11. (b + k) % N = IF b + k < N THEN b + k ELSE b + k - N
  BY <1>7, <1>9
<1>12. (a + (k + 1)) % N = IF a + (k + 1) < N THEN a + (k + 1) ELSE a + (k + 1) - N
  BY <1>6, <1>9
<1>13. (a + 0) % N = a
  <2>1. (a + 0) % N = IF a + 0 < N THEN a + 0 ELSE a + 0 - N
    BY <1>6, <1>9
  <2> QED BY <1>1, <2>1
<1> QED BY <1>1, <1>4, <1>10, <1>11, <1>12, <1>13

(* What each packet in use holds, oldest packet first.                     *)
HeldSeq == [k \in 1 .. tx_packet_count |->
               held[(first_tx_packet_idx + k - 1) % TX_QUEUE_PACKET_COUNT]]

(* HeldInOrder is the concatenation of what these packets hold.            *)
LEMMA HeldIsFlat ==
    ASSUME TypeOK
    PROVE  /\ HeldSeq \in Seq(Seq(Byte)) /\ Len(HeldSeq) = tx_packet_count
           /\ \A k \in 1 .. tx_packet_count : HeldSeq[k] = held[Pos(k - 1)]
           /\ HeldInOrder = FlattenSeq(HeldSeq)
           /\ HeldInOrder \in Seq(Byte)
<1>1. /\ tx_packet_count \in 1 .. TX_QUEUE_PACKET_COUNT /\ tx_packet_count \in Nat
      /\ first_tx_packet_idx \in Nat
      /\ held \in [PacketIdx -> Seq(Byte)]
  BY PacketCountAssumption DEF TypeOK, PacketIdx
<1>2. \A k \in 1 .. tx_packet_count : HeldSeq[k] = held[Pos(k - 1)]
  <2>1. SUFFICES ASSUME NEW k \in 1 .. tx_packet_count PROVE HeldSeq[k] = held[Pos(k - 1)]
    OBVIOUS
  <2>2. first_tx_packet_idx + k - 1 = first_tx_packet_idx + (k - 1)
    BY <1>1
  <2> QED BY <2>2 DEF HeldSeq, Pos
<1>3. \A k \in 1 .. tx_packet_count : held[Pos(k - 1)] \in Seq(Byte)
  <2>1. \A k \in 1 .. tx_packet_count : k - 1 \in 0 .. TX_QUEUE_PACKET_COUNT - 1
    BY <1>1, PacketCountAssumption
  <2>2. \A k \in 1 .. tx_packet_count : Pos(k - 1) \in PacketIdx
    BY <2>1, Positions
  <2> QED BY <1>1, <2>2
<1>4. HeldSeq \in [1 .. tx_packet_count -> Seq(Byte)]
  BY <1>2, <1>3 DEF HeldSeq
<1>5. HeldSeq \in Seq(Seq(Byte)) /\ Len(HeldSeq) = tx_packet_count
  BY <1>1, <1>4
<1>6. HeldInOrder = FlattenSeq(HeldSeq)
  <2>1. CASE tx_packet_count = 1
    <3>1. FlattenSeq(HeldSeq) = HeldSeq[1]
      BY <1>5, <2>1, FlattenOne
    <3>2. HeldSeq[1] = held[Pos(0)] /\ Pos(0) = first_tx_packet_idx
      BY <1>1, <1>2, Positions
    <3> QED BY <2>1, <3>1, <3>2 DEF HeldInOrder
  <2>2. CASE tx_packet_count # 1
    BY <2>2 DEF HeldInOrder, HeldSeq
  <2> QED BY <2>1, <2>2
<1>7. FlattenSeq(HeldSeq) \in Seq(Byte)
  <2>1. Len(HeldSeq) > 0 /\ Len(HeldSeq) \in 1 .. Len(HeldSeq)
    BY <1>1, <1>5
  <2>2. PICK f \in [1 .. Len(HeldSeq) -> Seq(Byte)] :
            Folds(f, HeldSeq, Len(HeldSeq)) /\ FlattenSeq(HeldSeq) = f[Len(HeldSeq)]
    BY <1>5, <2>1, FlattenFolds
  <2> QED BY <2>1, <2>2
<1> QED BY <1>2, <1>5, <1>6, <1>7

-----------------------------------------------------------------------------
(* What an empty packet takes.                                             *)

(* A sequence that starts with something is not empty.                     *)
LEMMA ConcatNotEmpty ==
    ASSUME NEW S, NEW s \in Seq(S), NEW t \in Seq(S), s # <<>> \/ t # <<>>
    PROVE  s \o t # <<>>
  BY ConcatEqualIffEmpty

(* append_status_byte_with_timestamp                                       *)
LEMMA AppendStatusFills ==
    ASSUME NEW w \in Writer, NEW t \in Timestamp, NEW status \in Byte
    PROVE  LET r == append_status_byte_with_timestamp(w, t, status)
           IN  /\ r.rc = "SUCCESS" => r.w.tx_buf # <<>>
               /\ w.tx_buf = <<>> /\ w.tx_buf_max_size >= 5 => r.rc = "SUCCESS"
<1> DEFINE head  == IF w.tx_buf = <<>> THEN <<header_byte(t)>> ELSE <<>>
           tail  == <<timestamp_byte(t), status>>
           bytes == head \o tail
           r == append_status_byte_with_timestamp(w, t, status)
<1>1. header_byte(t) \in Byte /\ timestamp_byte(t) \in Byte
  BY TimestampBytes DEF Byte
<1>2. /\ head \in Seq(Byte) /\ tail \in Seq(Byte)
      /\ Len(head) <= 1 /\ Len(head) \in Nat /\ Len(tail) = 2
  BY <1>1
<1>3. r = IF Fits(w, bytes)
          THEN Result("SUCCESS", [w EXCEPT !.tx_buf = @ \o bytes])
          ELSE Result("PACKET_FULL", w)
  BY DEF append_status_byte_with_timestamp
<1>4. w.tx_buf \in Seq(Byte) /\ w.tx_buf_max_size \in Nat
  BY WriterConstants DEF Writer
<1> HIDE DEF head, tail
<1>5. /\ bytes \in Seq(Byte) /\ Len(bytes) <= 3 /\ Len(bytes) >= 2
      /\ Len(bytes) \in Nat /\ bytes # <<>>
  <2>1. bytes \in Seq(Byte) /\ Len(bytes) = Len(head) + Len(tail)
    BY <1>2, ConcatProperties
  <2> HIDE DEF bytes
  <2>2. Len(bytes) <= 3 /\ Len(bytes) >= 2 /\ Len(bytes) \in Nat
    BY <1>2, <2>1
  <2>3. bytes = <<>> => Len(bytes) = 0
    OBVIOUS
  <2> QED BY <2>1, <2>2, <2>3
<1> HIDE DEF bytes
<1>6. w.tx_buf \o bytes # <<>>
  BY <1>4, <1>5, ConcatNotEmpty
<1>7. r.rc = "SUCCESS" => r.w.tx_buf = w.tx_buf \o bytes
  BY <1>3 DEF Result, Writer
<1>8. w.tx_buf = <<>> /\ w.tx_buf_max_size >= 5 => Fits(w, bytes)
  BY <1>4, <1>5 DEF Fits
<1>9. Fits(w, bytes) => r.rc = "SUCCESS"
  BY <1>3 DEF Result
<1> QED BY <1>6, <1>7, <1>8, <1>9

(* ble_midi_writer_add_msg                                                 *)
LEMMA AddMsgFills ==
    ASSUME NEW w \in Writer, NEW m \in ThreeBytes, NEW t \in Timestamp
    PROVE  LET r == ble_midi_writer_add_msg(w, m, t)
           IN  /\ r.rc = "SUCCESS" => r.w.tx_buf # <<>>
               /\ w.tx_buf = <<>> /\ w.tx_buf_max_size >= 5 => r.rc # "PACKET_FULL"
<1> DEFINE r == ble_midi_writer_add_msg(w, m, t)
<1>1. w.tx_buf \in Seq(Byte) /\ w.tx_buf_max_size \in Nat
  BY WriterConstants DEF Writer
<1>2. header_byte(t) \in Byte /\ timestamp_byte(t) \in Byte /\ m[1] \in Byte
  BY TimestampBytes DEF Byte, ThreeBytes
<1>3. CASE w.in_sysex_msg
  <2> DEFINE bytes == <<timestamp_byte(t), m[1]>>
  <2>1. bytes \in Seq(Byte) /\ Len(bytes) = 2 /\ bytes # <<>>
    BY <1>2
  <2>2. r = IF ~is_realtime_message(m[1]) THEN Result("INVALID_STATUS_BYTE", w)
            ELSE IF ~Fits(w, bytes)       THEN Result("PACKET_FULL", w)
            ELSE Result("SUCCESS", [w EXCEPT !.tx_buf = @ \o bytes])
    BY <1>3 DEF ble_midi_writer_add_msg, AddInSysex
  <2> HIDE DEF bytes
  <2>3. w.tx_buf \o bytes # <<>>
    BY <1>1, <2>1, ConcatNotEmpty
  <2>4. r.rc = "SUCCESS" => r.w.tx_buf = w.tx_buf \o bytes
    BY <2>2 DEF Result, Writer
  <2>5. w.tx_buf = <<>> /\ w.tx_buf_max_size >= 5 => Fits(w, bytes)
    BY <1>1, <2>1 DEF Fits
  <2>6. Fits(w, bytes) => r.rc # "PACKET_FULL"
    BY <2>2 DEF Result
  <2> QED BY <2>3, <2>4, <2>5, <2>6
<1>4. CASE ~w.in_sysex_msg
  <2> DEFINE bytes == MessageBytes(w, m, t)
  <2>1. bytes \in Seq(Byte)
    BY MessageBytesType
  <2>2. w.tx_buf = <<>> => bytes # <<>> /\ Len(bytes) <= 5
    <3> DEFINE a == IF w.tx_buf = <<>> THEN <<header_byte(t)>> ELSE <<>>
               b == IF SkipTimestamp(w, m, t) THEN <<>> ELSE <<timestamp_byte(t)>>
               c == IF SkipStatusByte(w, m) THEN <<>> ELSE <<StatusToSend(m)>>
               d == SubSeq(DataToSend(m), 1, message_size(m[1]) - 1)
    <3>1. bytes = a \o b \o c \o d
      BY DEF MessageBytes
    <3>2. /\ a \in Seq(Byte) /\ Len(a) <= 1 /\ (w.tx_buf = <<>> => Len(a) = 1)
          /\ b \in Seq(Byte) /\ Len(b) <= 1
          /\ c \in Seq(Byte) /\ Len(c) <= 1
      BY <1>2, MessageBytesType
    <3>3. d \in Seq(Byte) /\ Len(d) <= 2
      <4>1. message_size(m[1]) \in 0 .. 3
        BY DEF message_size
      <4>2. m[2] \in Byte /\ m[3] \in Byte /\ 0 \in Byte
        BY DEF ThreeBytes, Byte
      <4>3. DataToSend(m) \in Seq(Byte) /\ Len(DataToSend(m)) = 2
        BY <4>2 DEF DataToSend
      <4> DEFINE n == message_size(m[1]) - 1
      <4>4. n \in -1 .. 2
        BY <4>1
      <4> HIDE DEF n
      <4>5. \A i \in 1 .. n : DataToSend(m)[i] \in Byte
        <5>1. SUFFICES ASSUME NEW i \in 1 .. n PROVE DataToSend(m)[i] \in Byte
          OBVIOUS
        <5>2. i \in 1 .. Len(DataToSend(m))
          BY <4>3, <4>4
        <5> QED BY <4>3, <5>2, ElementOfSeq
      <4>6. /\ SubSeq(DataToSend(m), 1, n) \in Seq(Byte)
            /\ Len(SubSeq(DataToSend(m), 1, n)) = IF 1 <= n THEN n - 1 + 1 ELSE 0
        BY <4>4, <4>5, SubSeqProperties
      <4> QED BY <4>4, <4>6 DEF n
    <3> HIDE DEF a, b, c, d, bytes
    <3>4. a \o b \in Seq(Byte) /\ Len(a \o b) = Len(a) + Len(b)
      BY <3>2, ConcatProperties
    <3>5. (a \o b) \o c \in Seq(Byte) /\ Len((a \o b) \o c) = Len(a \o b) + Len(c)
      BY <3>2, <3>4, ConcatProperties
    <3>6. Len(((a \o b) \o c) \o d) = Len((a \o b) \o c) + Len(d)
      BY <3>3, <3>5, ConcatProperties
    <3>7. /\ Len(bytes) = Len(a) + Len(b) + Len(c) + Len(d)
          /\ Len(a) \in Nat /\ Len(b) \in Nat /\ Len(c) \in Nat /\ Len(d) \in Nat
      BY <3>1, <3>2, <3>3, <3>4, <3>5, <3>6
    <3>8. bytes = <<>> => Len(bytes) = 0
      OBVIOUS
    <3>9. w.tx_buf = <<>> => Len(bytes) >= 1 /\ Len(bytes) <= 5
      <4> DEFINE la == Len(a)
                 lb == Len(b)
                 lc == Len(c)
                 ld == Len(d)
                 all == Len(bytes)
      <4>1. /\ la \in Nat /\ lb \in Nat /\ lc \in Nat /\ ld \in Nat
            /\ all = la + lb + lc + ld
            /\ la <= 1 /\ lb <= 1 /\ lc <= 1 /\ ld <= 2
        BY <3>2, <3>3, <3>7
      <4>2. w.tx_buf = <<>> => la = 1
        BY <3>2
      <4> HIDE DEF la, lb, lc, ld, all
      <4>3. all <= 5 /\ (la = 1 => all >= 1)
        BY <4>1
      <4> QED BY <4>2, <4>3 DEF all
    <3> QED BY <3>8, <3>9
  <2>3. r = AddOutsideSysex(w, m, t)
    BY <1>4 DEF ble_midi_writer_add_msg
  <2> HIDE DEF bytes
  <2>4. r.rc = "SUCCESS" => r.w.tx_buf = w.tx_buf \o bytes
    BY <2>3 DEF Result, Writer, AddOutsideSysex, bytes
  <2>5. w.tx_buf \o bytes # <<>>
    BY <1>1, <2>1, <2>2, ConcatNotEmpty
  <2>6. w.tx_buf = <<>> /\ w.tx_buf_max_size >= 5 => Fits(w, bytes)
    <3>1. Len(bytes) \in Nat
      BY <2>1
    <3> QED BY <1>1, <2>2, <3>1 DEF Fits
  <2>7. Fits(w, bytes) => r.rc # "PACKET_FULL"
    BY <2>3 DEF Result, AddOutsideSysex, bytes
  <2> QED BY <2>4, <2>5, <2>6, <2>7
<1> QED BY <1>3, <1>4

(* ble_midi_writer_add_sysex_data                                          *)
LEMMA AddSysexDataFills ==
    ASSUME NEW w \in Writer, NEW data \in Seq(Byte), NEW t \in Timestamp,
           data # <<>>
    PROVE  LET r == ble_midi_writer_add_sysex_data(w, data, t)
           IN  /\ r.rc = "SUCCESS" => r.w.tx_buf # <<>>
               /\ r.rc = "SUCCESS" /\ w.tx_buf = <<>> /\ w.tx_buf_max_size >= 5
                  => r.n > 0
<1> DEFINE r     == ble_midi_writer_add_sysex_data(w, data, t)
           start == IF w.tx_buf = <<>> THEN <<header_byte(t)>> ELSE w.tx_buf
           n     == NumDataBytesToAdd(w.tx_buf_max_size - Len(start), Len(data))
<1>1. SUFFICES ASSUME r.rc = "SUCCESS"
               PROVE  /\ r.w.tx_buf # <<>>
                      /\ w.tx_buf = <<>> /\ w.tx_buf_max_size >= 5 => r.n > 0
  OBVIOUS
<1>2. w.tx_buf \in Seq(Byte) /\ w.tx_buf_max_size \in Nat
  BY WriterConstants DEF Writer
<1>3. start \in Seq(Byte) /\ start # <<>> /\ (w.tx_buf = <<>> => Len(start) = 1)
  <2>1. header_byte(t) \in Byte
    BY TimestampBytes DEF Byte
  <2> QED BY <1>2, <2>1
<1>4. r = [rc |-> "SUCCESS", n |-> n,
           w  |-> [w EXCEPT !.tx_buf = start \o SubSeq(data, 1, n)]]
  BY <1>1 DEF ble_midi_writer_add_sysex_data
<1> HIDE DEF r, start
<1>5. n \in 0 .. Len(data) /\ (w.tx_buf = <<>> /\ w.tx_buf_max_size >= 5 => n > 0)
  <2>1. Len(data) \in Nat /\ Len(data) > 0 /\ Len(start) \in Nat
    BY <1>3
  <2> DEFINE left == w.tx_buf_max_size - Len(start)
  <2>2. n = IF left >= 0 /\ left < Len(data) THEN left ELSE Len(data)
    BY DEF NumDataBytesToAdd
  <2>3. left \in Int /\ (w.tx_buf = <<>> /\ w.tx_buf_max_size >= 5 => left > 0)
    <3> DEFINE x == w.tx_buf_max_size
               y == Len(start)
    <3>1. x \in Nat /\ y \in Nat /\ (w.tx_buf = <<>> => y = 1)
      BY <1>2, <1>3, <2>1
    <3> HIDE DEF x, y
    <3>2. x - y \in Int /\ (y = 1 /\ x >= 5 => x - y > 0)
      BY <3>1
    <3> QED BY <3>1, <3>2 DEF x, y
  <2> HIDE DEF n, left
  <2> QED BY <2>1, <2>2, <2>3
<1> HIDE DEF n
<1>6. SubSeq(data, 1, n) \in Seq(Byte)
  BY <1>5, SubSeqProperties
<1>7. start \o SubSeq(data, 1, n) # <<>>
  BY <1>3, <1>6, ConcatNotEmpty
<1>8. r.w.tx_buf = start \o SubSeq(data, 1, n) /\ r.n = n
  BY <1>4 DEF Writer
<1> QED BY <1>5, <1>7, <1>8

(* What a three byte chunk does to a packet whose sysex state is the       *)
(* client's: it is refused exactly if it is not valid, the packet follows  *)
(* the sysex state, and an empty packet always has room.                   *)
LEMMA Add3BytesFacts ==
    ASSUME NEW w \in Writer, NEW c \in Chunk, NEW t \in Timestamp,
           c.head[1] >= 128, w.in_sysex_msg = c.open
    PROVE  LET r == Add3Bytes(w, c.head, t)
           IN  /\ WriterStep(w, r.w)
               /\ Refused(r) <=> ~Valid(c)
               /\ r.rc # "SUCCESS" => r.w = w
               /\ r.rc = "SUCCESS" => r.w.in_sysex_msg = OpenAfter(c)
               /\ Refused(r) => OpenAfter(c) = c.open
               /\ r.rc = "SUCCESS" => r.w.tx_buf # <<>>
               /\ w.tx_buf = <<>> /\ w.tx_buf_max_size >= 5 => r.rc # "PACKET_FULL"
<1> DEFINE h == c.head
           r == Add3Bytes(w, h, t)
<1>1. h \in ThreeBytes /\ c.open \in BOOLEAN /\ w.in_sysex_msg \in BOOLEAN
  BY DEF Chunk, ThreeBytes, Writer
<1>2. h[1] # SYSEX_DATA_CHUNK_ID /\ h[1] # TX_MAX_PACKET_SIZE_CHUNK_ID
  BY DEF SYSEX_DATA_CHUNK_ID, TX_MAX_PACKET_SIZE_CHUNK_ID
<1>3. SYSEX_START # SYSEX_END /\ 240 \in Byte /\ 247 \in Byte
  BY DEF SYSEX_START, SYSEX_END, Byte
<1>4. CASE h[1] = SYSEX_START
  <2> DEFINE a == append_status_byte_with_timestamp(w, t, 240)
             s == ble_midi_writer_start_sysex_msg(w, t)
  <2>1. /\ Valid(c) <=> ~c.open
        /\ OpenAfter(c) = TRUE
        /\ r = s
    <3>1. Valid(c) <=> ~c.open
      BY <1>2, <1>3, <1>4 DEF Valid
    <3>2. OpenAfter(c) = TRUE
      BY <1>3, <1>4 DEF OpenAfter
    <3>3. r = s
      BY <1>3, <1>4 DEF Add3Bytes
    <3> QED BY <3>1, <3>2, <3>3
  <2>2. /\ WriterStep(w, s.w)
        /\ Refused(s) <=> w.in_sysex_msg
        /\ s.rc = "SUCCESS" => s.w.in_sysex_msg
        /\ s.rc # "SUCCESS" => s.w = w
    BY StartStep
  <2>3. /\ s.rc = "SUCCESS" => s.w.tx_buf # <<>>
        /\ w.tx_buf = <<>> /\ w.tx_buf_max_size >= 5 => s.rc # "PACKET_FULL"
    <3>1. /\ a.rc = "SUCCESS" => a.w.tx_buf # <<>>
          /\ w.tx_buf = <<>> /\ w.tx_buf_max_size >= 5 => a.rc = "SUCCESS"
      BY <1>3, AppendStatusFills
    <3>2. a.w \in Writer
      BY <1>3, AppendStatus DEF WriterStep
    <3>3. s = IF w.in_sysex_msg THEN Result("ALREADY_IN_SYSEX_SEQUENCE", w)
              ELSE IF a.rc = "SUCCESS"
              THEN Result(a.rc, [a.w EXCEPT !.in_sysex_msg = TRUE,
                                            !.prev_running_status_byte = 0])
              ELSE a
      BY DEF ble_midi_writer_start_sysex_msg
    <3> HIDE DEF a, s
    <3> QED BY <3>1, <3>2, <3>3 DEF Result, Writer
  <2>4. s.rc = "SUCCESS" => s.w.in_sysex_msg = TRUE
    BY <2>2 DEF WriterStep, Writer
  <2> HIDE DEF s
  <2> QED BY <1>1, <2>1, <2>2, <2>3, <2>4 DEF Refused
<1>5. CASE h[1] = SYSEX_END
  <2> DEFINE a == append_status_byte_with_timestamp(w, t, 247)
             s == ble_midi_writer_end_sysex_msg(w, t)
  <2>1. /\ Valid(c) <=> c.open
        /\ OpenAfter(c) = FALSE
        /\ r = s
    <3>1. Valid(c) <=> c.open
      BY <1>2, <1>3, <1>5 DEF Valid
    <3>2. OpenAfter(c) = FALSE
      BY <1>3, <1>5 DEF OpenAfter
    <3>3. r = s
      BY <1>3, <1>5 DEF Add3Bytes
    <3> QED BY <3>1, <3>2, <3>3
  <2>2. /\ WriterStep(w, s.w)
        /\ Refused(s) <=> ~w.in_sysex_msg
        /\ s.rc = "SUCCESS" => ~s.w.in_sysex_msg
        /\ s.rc # "SUCCESS" => s.w = w
    BY EndStep
  <2>3. /\ s.rc = "SUCCESS" => s.w.tx_buf # <<>>
        /\ w.tx_buf = <<>> /\ w.tx_buf_max_size >= 5 => s.rc # "PACKET_FULL"
    <3>1. /\ a.rc = "SUCCESS" => a.w.tx_buf # <<>>
          /\ w.tx_buf = <<>> /\ w.tx_buf_max_size >= 5 => a.rc = "SUCCESS"
      BY <1>3, AppendStatusFills
    <3>2. a.w \in Writer
      BY <1>3, AppendStatus DEF WriterStep
    <3>3. s = IF ~w.in_sysex_msg THEN Result("NOT_IN_SYSEX_SEQUENCE", w)
              ELSE IF a.rc = "SUCCESS"
              THEN Result(a.rc, [a.w EXCEPT !.in_sysex_msg = FALSE])
              ELSE a
      BY DEF ble_midi_writer_end_sysex_msg
    <3> HIDE DEF a, s
    <3> QED BY <3>1, <3>2, <3>3 DEF Result, Writer
  <2>4. s.rc = "SUCCESS" => s.w.in_sysex_msg = FALSE
    BY <2>2 DEF WriterStep, Writer
  <2> HIDE DEF s
  <2> QED BY <1>1, <2>1, <2>2, <2>3, <2>4 DEF Refused
<1>6. CASE h[1] # SYSEX_START /\ h[1] # SYSEX_END
  <2> DEFINE s == ble_midi_writer_add_msg(w, h, t)
  <2>1. OpenAfter(c) = c.open /\ r = s
    BY <1>6 DEF OpenAfter, Add3Bytes
  <2>2. Valid(c) = IF c.open THEN is_realtime_message(h[1])
                   ELSE /\ message_size(h[1]) # 0
                        /\ is_data_byte(h[2]) /\ is_data_byte(h[3])
    BY <1>2, <1>6 DEF Valid
  <2>3. /\ WriterStep(w, s.w)
        /\ Refused(s) <=> ~(IF w.in_sysex_msg
                            THEN is_realtime_message(h[1])
                            ELSE /\ message_size(h[1]) # 0
                                 /\ is_data_byte(h[2])
                                 /\ is_data_byte(h[3]))
        /\ s.w.in_sysex_msg = w.in_sysex_msg
        /\ s.rc # "SUCCESS" => s.w = w
    BY <1>1, AddMsgStep
  <2>4. /\ s.rc = "SUCCESS" => s.w.tx_buf # <<>>
        /\ w.tx_buf = <<>> /\ w.tx_buf_max_size >= 5 => s.rc # "PACKET_FULL"
    BY <1>1, AddMsgFills
  <2> HIDE DEF s
  <2> QED BY <1>1, <2>1, <2>2, <2>3, <2>4 DEF Refused
<1> QED BY <1>4, <1>5, <1>6

(* The packets in use after a step.                                        *)
LEMMA HeldIsFlatNext ==
    TypeOK' => /\ HeldSeq' \in Seq(Seq(Byte)) /\ Len(HeldSeq') = tx_packet_count'
               /\ \A k \in 1 .. tx_packet_count' : HeldSeq'[k] = held'[Pos(k - 1)']
               /\ HeldInOrder' = FlattenSeq(HeldSeq')
               /\ HeldInOrder' \in Seq(Byte)
<1> DEFINE Q == /\ HeldSeq \in Seq(Seq(Byte)) /\ Len(HeldSeq) = tx_packet_count
                /\ \A k \in 1 .. tx_packet_count : HeldSeq[k] = held[Pos(k - 1)]
                /\ HeldInOrder = FlattenSeq(HeldSeq)
                /\ HeldInOrder \in Seq(Byte)
<1>1. TypeOK => Q
  BY HeldIsFlat
<1> HIDE DEF Q
<1>2. TypeOK' => Q'
  BY <1>1, PTL
<1> QED BY <1>2 DEF Q

-----------------------------------------------------------------------------
(* The invariant.                                                          *)

(* The use of the queue that the theorems are about: a client that sends   *)
(* sysex messages has a single packet, and ble_midi_tx_msg is called with  *)
(* messages that are not sysex (ble_midi.h: "Sends a non-sysex MIDI        *)
(* message").                                                              *)
IntendedUse ==
    /\ TX_QUEUE_PACKET_COUNT = 1 \/ ~UsesSysex
    /\ \A m \in Messages : m[1] # SYSEX_START /\ m[1] # SYSEX_END

(* The sysex state before the k-th chunk; of the client, after the last.   *)
OpenAt(k) == IF k <= Len(fifo) THEN fifo[k].open ELSE open

(* The history in the FIFO is consistent, data is in a sysex message, and  *)
(* a limit in the FIFO leaves room for a message.                          *)
SysexChain  == \A k \in 1 .. Len(fifo) : OpenAt(k + 1) = OpenAfter(fifo[k])
DataInSysex == \A k \in 1 .. Len(fifo) : IsData(fifo[k]) => fifo[k].open
SizesUsable == \A k \in 1 .. Len(fifo) : IsSize(fifo[k]) => DataCount(fifo[k]) >= 5

(* A client that sends no sysex messages.                                  *)
PlainChunk(c) == /\ c.open = FALSE /\ ~IsData(c)
                 /\ c.head[1] # SYSEX_START /\ c.head[1] # SYSEX_END
PlainChunks == ~UsesSysex => /\ open = FALSE
                             /\ \A k \in 1 .. Len(fifo) : PlainChunk(fifo[k])
PlainReader == ~UsesSysex => /\ reader \in {"idle", "loop"}
                             /\ num_remaining_data_bytes = 0

FifoInv == SysexChain /\ DataInSysex /\ SizesUsable /\ PlainChunks

(* Every packet is where the client was before the first chunk.            *)
PacketsFollow == \A i \in PacketIdx : tx_packets[i].in_sysex_msg = OpenAt(1)

(* The packets have room for a message, unless the first limit has not     *)
(* been read.                                                              *)
LimitsRead   == \A i \in PacketIdx : tx_packets[i].tx_buf_max_size >= 5
LimitsUsable == \/ LimitsRead
                \/ /\ fifo # <<>> /\ IsSize(fifo[1])
                   /\ num_remaining_data_bytes = 0
                   /\ reader \in {"idle", "loop"}

(* The packets that are not in use are empty, the others are not.          *)
FreeEmpty  == \A k \in tx_packet_count .. TX_QUEUE_PACKET_COUNT - 1 :
                  held[Pos(k)] = <<>>
UsedFilled == IF has_tx_data
              THEN \A k \in 0 .. tx_packet_count - 1 : tx_packets[Pos(k)].tx_buf # <<>>
              ELSE tx_packet_count = 1 /\ tx_packets[Pos(0)].tx_buf = <<>>

(* One packet takes the bytes of a chunk in one iteration.                 *)
OnePass == reader \in {"chunk", "rest"} => num_bytes_added = 0

StreamOK == HeldInOrder \o RestOfChunk = outstanding

StreamInv == /\ FifoInv /\ PlainReader /\ PacketsFollow /\ LimitsUsable
             /\ FreeEmpty /\ UsedFilled /\ OnePass /\ StreamOK

-----------------------------------------------------------------------------
(* The FIFO.                                                               *)

(* A step that takes at most the first chunk.                              *)
LEMMA FifoShifted ==
    ASSUME TypeOK, FifoInv, open' = open, fifo' \in Seq(Chunk),
           NEW d \in {0, 1}, Len(fifo') = Len(fifo) - d,
           \A k \in 1 .. Len(fifo') : /\ fifo'[k].head = fifo[k + d].head
                                      /\ fifo'[k].open = fifo[k + d].open
    PROVE  FifoInv' /\ OpenAt(1)' = OpenAt(1 + d)
<1>1. Len(fifo) \in Nat /\ Len(fifo') \in Nat
  BY DEF TypeOK
<1>2. \A k \in 1 .. Len(fifo') :
          /\ k + d \in 1 .. Len(fifo)
          /\ IsData(fifo'[k]) <=> IsData(fifo[k + d])
          /\ IsSize(fifo'[k]) <=> IsSize(fifo[k + d])
          /\ PlainChunk(fifo'[k]) <=> PlainChunk(fifo[k + d])
          /\ DataCount(fifo'[k]) = DataCount(fifo[k + d])
          /\ OpenAfter(fifo'[k]) = OpenAfter(fifo[k + d])
  <2>1. SUFFICES ASSUME NEW k \in 1 .. Len(fifo')
                 PROVE  /\ k + d \in 1 .. Len(fifo)
                        /\ IsData(fifo'[k]) <=> IsData(fifo[k + d])
                        /\ IsSize(fifo'[k]) <=> IsSize(fifo[k + d])
                        /\ PlainChunk(fifo'[k]) <=> PlainChunk(fifo[k + d])
                        /\ DataCount(fifo'[k]) = DataCount(fifo[k + d])
                        /\ OpenAfter(fifo'[k]) = OpenAfter(fifo[k + d])
    OBVIOUS
  <2>2. k + d \in 1 .. Len(fifo)
    BY <1>1
  <2> DEFINE b == fifo'[k]
             c == fifo[k + d]
  <2>3. b.head = c.head /\ b.open = c.open
    OBVIOUS
  <2> HIDE DEF b, c
  <2>4. IsData(b) <=> IsData(c)
    BY <2>3 DEF IsData
  <2>5. IsSize(b) <=> IsSize(c)
    BY <2>3 DEF IsSize
  <2>6. PlainChunk(b) <=> PlainChunk(c)
    BY <2>3, <2>4 DEF PlainChunk
  <2>7. DataCount(b) = DataCount(c)
    BY <2>3 DEF DataCount
  <2>8. OpenAfter(b) = OpenAfter(c)
    BY <2>3, Zenon DEF OpenAfter
  <2> QED BY <2>2, <2>4, <2>5, <2>6, <2>7, <2>8 DEF b, c
<1>3. \A k \in 1 .. Len(fifo') + 1 : OpenAt(k)' = OpenAt(k + d)
  BY <1>1 DEF OpenAt
<1>4. SysexChain'
  <2>1. SUFFICES ASSUME NEW k \in 1 .. Len(fifo')
                 PROVE  OpenAt(k + 1)' = OpenAfter(fifo'[k])
    BY DEF SysexChain
  <2>2. k + 1 \in 1 .. Len(fifo') + 1 /\ (k + 1) + d = (k + d) + 1
    BY <1>1
  <2>3. OpenAt(k + 1)' = OpenAt((k + d) + 1)
    BY <1>3, <2>2
  <2>4. OpenAt((k + d) + 1) = OpenAfter(fifo[k + d])
    BY <1>2 DEF FifoInv, SysexChain
  <2> QED BY <1>2, <2>3, <2>4
<1>5. DataInSysex'
  BY <1>2 DEF FifoInv, DataInSysex
<1>6. SizesUsable'
  BY <1>2 DEF FifoInv, SizesUsable
<1>7. PlainChunks'
  BY <1>2 DEF FifoInv, PlainChunks
<1>8. 1 \in 1 .. Len(fifo') + 1
  BY <1>1
<1> QED BY <1>3, <1>4, <1>5, <1>6, <1>7, <1>8 DEF FifoInv

(* The first chunk is read.                                                *)
LEMMA FifoTaken ==
    ASSUME TypeOK, FifoInv, open' = open, fifo # <<>>, fifo' = Tail(fifo)
    PROVE  FifoInv' /\ OpenAt(1)' = OpenAfter(fifo[1]) /\ OpenAt(1) = fifo[1].open
<1>1. fifo \in Seq(Chunk) /\ Len(fifo) \in Nat /\ Len(fifo) >= 1
  BY DEF TypeOK
<1>2. /\ fifo' \in Seq(Chunk) /\ Len(fifo') = Len(fifo) - 1
      /\ \A k \in 1 .. Len(fifo') : fifo'[k] = fifo[k + 1]
  BY <1>1, HeadTailProperties, SMTT(30)
<1>3. FifoInv' /\ OpenAt(1)' = OpenAt(1 + 1)
  BY <1>2, FifoShifted
<1>4. OpenAt(1 + 1) = OpenAfter(fifo[1])
  BY <1>1 DEF FifoInv, SysexChain
<1>5. OpenAt(1) = fifo[1].open
  BY <1>1 DEF OpenAt
<1> QED BY <1>3, <1>4, <1>5

(* A chunk is written.                                                     *)
LEMMA FifoAppended ==
    ASSUME TypeOK, FifoInv, NEW c \in Chunk, fifo' = Append(fifo, c),
           c.open = open, open' = OpenAfter(c), IsData(c) => open,
           IsSize(c) => DataCount(c) >= 5,
           ~UsesSysex => PlainChunk(c)
    PROVE  FifoInv' /\ OpenAt(1)' = OpenAt(1) /\ fifo' # <<>>
           /\ (fifo # <<>> => fifo'[1] = fifo[1])
<1>1. fifo \in Seq(Chunk) /\ Len(fifo) \in Nat
  BY DEF TypeOK
<1> DEFINE n == Len(fifo)
<1>2. /\ fifo' \in Seq(Chunk) /\ Len(fifo') = n + 1 /\ fifo'[n + 1] = c
      /\ \A k \in 1 .. n : fifo'[k] = fifo[k]
  BY <1>1, AppendProperties
<1>3. \A k \in 1 .. n + 1 : OpenAt(k)' = OpenAt(k)
  BY <1>1, <1>2 DEF OpenAt
<1>4. \A j : j = n + 2 => OpenAt(j)' = OpenAfter(c)
  BY <1>1, <1>2 DEF OpenAt
<1>5. \A k \in 1 .. Len(fifo') : k \in 1 .. n \/ k = n + 1
  BY <1>1, <1>2
<1>6. SysexChain'
  <2>1. SUFFICES ASSUME NEW k \in 1 .. Len(fifo')
                 PROVE  OpenAt(k + 1)' = OpenAfter(fifo'[k])
    BY DEF SysexChain
  <2>2. CASE k \in 1 .. n
    <3>1. k + 1 \in 1 .. n + 1
      BY <1>1, <2>2
    <3>2. OpenAt(k + 1) = OpenAfter(fifo[k])
      BY <2>2 DEF FifoInv, SysexChain
    <3> QED BY <1>2, <1>3, <2>2, <3>1, <3>2
  <2>3. CASE k = n + 1
    <3>1. k + 1 = n + 2
      BY <1>1, <2>3
    <3> QED BY <1>2, <1>4, <2>3, <3>1
  <2> QED BY <1>5, <2>2, <2>3
<1>7. DataInSysex'
  BY <1>2, <1>5 DEF FifoInv, DataInSysex
<1>8. SizesUsable'
  BY <1>2, <1>5 DEF FifoInv, SizesUsable
<1>9. PlainChunks'
  <2>1. ~UsesSysex => open' = FALSE
    BY DEF PlainChunk, OpenAfter
  <2> QED BY <1>2, <1>5, <2>1 DEF FifoInv, PlainChunks
<1>10. 1 \in 1 .. n + 1 /\ fifo' # <<>> /\ (fifo # <<>> => 1 \in 1 .. n)
  BY <1>1, <1>2
<1> QED BY <1>2, <1>3, <1>6, <1>7, <1>8, <1>9, <1>10 DEF FifoInv

-----------------------------------------------------------------------------
(* The client and the MTU callback write to the FIFO.                      *)

(* What the packets hold depends on the packets alone.                     *)
LEMMA HeldKept ==
    ASSUME UNCHANGED <<tx_packet_count, first_tx_packet_idx, held>>
    PROVE  HeldInOrder' = HeldInOrder
  BY DEF HeldInOrder

(* A step that only writes to the FIFO.                                    *)
LEMMA StreamWritten ==
    ASSUME StreamInv, UNCHANGED <<outstanding, packetVars, chunkVars, readVars>>,
           FifoInv', OpenAt(1)' = OpenAt(1),
           fifo # <<>> => fifo' # <<>> /\ fifo'[1].head = fifo[1].head
    PROVE  StreamInv'
<1> USE DEF packetVars, chunkVars, readVars
<1>1. PlainReader' /\ OnePass'
  BY DEF StreamInv, PlainReader, OnePass
<1>2. PacketsFollow'
  BY DEF StreamInv, PacketsFollow
<1>3. LimitsUsable'
  BY DEF StreamInv, LimitsUsable, LimitsRead, IsSize
<1>4. \A k : Pos(k)' = Pos(k)
  BY DEF Pos
<1>5. FreeEmpty' /\ UsedFilled'
  BY <1>4 DEF StreamInv, FreeEmpty, UsedFilled
<1>6. StreamOK'
  <2>1. HeldInOrder' = HeldInOrder
    BY HeldKept
  <2>2. RestOfChunk' = RestOfChunk
    BY DEF RestOfChunk
  <2> QED BY <2>1, <2>2 DEF StreamInv, StreamOK
<1> QED BY <1>1, <1>2, <1>3, <1>5, <1>6 DEF StreamInv

(* A chunk of three bytes is written.                                      *)
LEMMA StreamWrite3 ==
    ASSUME TypeInv, StreamInv, NEW h \in ThreeBytes, write_3_byte_chunk_to_fifo(h),
           UNCHANGED <<outstanding, packetVars, chunkVars, readVars>>,
           open' = IF h[1] = SYSEX_START THEN TRUE
                   ELSE IF h[1] = SYSEX_END THEN FALSE ELSE open,
           h[1] = SYSEX_DATA_CHUNK_ID => open,
           h[1] = TX_MAX_PACKET_SIZE_CHUNK_ID => Decode16(h[2], h[3]) >= 5,
           ~UsesSysex => /\ h[1] # SYSEX_START /\ h[1] # SYSEX_END
                         /\ h[1] # SYSEX_DATA_CHUNK_ID
    PROVE  StreamInv'
<1> DEFINE c == ThreeByteChunk(h)
<1>1. TypeOK /\ FifoInv
  BY DEF TypeInv, StreamInv
<1>2. c \in Chunk /\ c.head = h /\ c.open = open
  BY <1>1, ThreeByteChunkType
<1>3. fifo' = Append(fifo, c)
  BY DEF write_3_byte_chunk_to_fifo
<1> HIDE DEF c
<1>4. open' = OpenAfter(c)
  <2>1. SYSEX_START # SYSEX_END
    BY DEF SYSEX_START, SYSEX_END
  <2>2. CASE h[1] = SYSEX_START
    BY <1>2, <2>1, <2>2 DEF OpenAfter
  <2>3. CASE h[1] = SYSEX_END
    BY <1>2, <2>1, <2>3 DEF OpenAfter
  <2>4. CASE h[1] # SYSEX_START /\ h[1] # SYSEX_END
    BY <1>2, <2>4 DEF OpenAfter
  <2> QED BY <2>2, <2>3, <2>4
<1>5. IsData(c) => open
  BY <1>2 DEF IsData
<1>6. IsSize(c) => DataCount(c) >= 5
  BY <1>2 DEF IsSize, DataCount
<1>7. ~UsesSysex => PlainChunk(c)
  <2>1. ~UsesSysex => open = FALSE
    BY DEF StreamInv, FifoInv, PlainChunks
  <2> QED BY <1>2, <2>1 DEF PlainChunk, IsData
<1>8. /\ FifoInv' /\ OpenAt(1)' = OpenAt(1) /\ fifo' # <<>>
      /\ fifo # <<>> => fifo'[1] = fifo[1]
  BY <1>1, <1>2, <1>3, <1>4, <1>5, <1>6, <1>7, FifoAppended
<1> QED BY <1>8, StreamWritten

(* tx_queue_fifo_add_msg                                                   *)
LEMMA StreamAddMsg ==
    ASSUME IntendedUse, TypeInv, StreamInv, NEW m \in Messages,
           tx_queue_fifo_add_msg(m)
    PROVE  StreamInv'
<1>1. m \in ThreeBytes /\ m[1] >= 128
  BY MessagesAssumption DEF ThreeBytes
<1>2. m[1] # SYSEX_START /\ m[1] # SYSEX_END
  BY DEF IntendedUse
<1>3. m[1] # SYSEX_DATA_CHUNK_ID /\ m[1] # TX_MAX_PACKET_SIZE_CHUNK_ID
  BY <1>1 DEF SYSEX_DATA_CHUNK_ID, TX_MAX_PACKET_SIZE_CHUNK_ID
<1>4. /\ write_3_byte_chunk_to_fifo(m) /\ open' = open
      /\ UNCHANGED <<outstanding, packetVars, chunkVars, readVars>>
  BY DEF tx_queue_fifo_add_msg, prodVars
<1> QED BY <1>1, <1>2, <1>3, <1>4, StreamWrite3

(* tx_queue_fifo_add_sysex_start, tx_queue_fifo_add_sysex_end              *)
LEMMA StreamAddSysexStatus ==
    ASSUME TypeInv, StreamInv,
           tx_queue_fifo_add_sysex_start \/ tx_queue_fifo_add_sysex_end
    PROVE  StreamInv'
<1>1. /\ SYSEX_START # SYSEX_END
      /\ SYSEX_START # SYSEX_DATA_CHUNK_ID /\ SYSEX_END # SYSEX_DATA_CHUNK_ID
      /\ SYSEX_START # TX_MAX_PACKET_SIZE_CHUNK_ID
      /\ SYSEX_END # TX_MAX_PACKET_SIZE_CHUNK_ID
  BY DEF SYSEX_START, SYSEX_END, SYSEX_DATA_CHUNK_ID, TX_MAX_PACKET_SIZE_CHUNK_ID
<1>2. <<SYSEX_START, 0, 0>> \in ThreeBytes /\ <<SYSEX_END, 0, 0>> \in ThreeBytes
  BY DEF ThreeBytes, Byte, SYSEX_START, SYSEX_END
<1>3. CASE tx_queue_fifo_add_sysex_start
  <2> DEFINE h == <<SYSEX_START, 0, 0>>
  <2>1. /\ write_3_byte_chunk_to_fifo(h) /\ open' = TRUE /\ UsesSysex
        /\ UNCHANGED <<outstanding, packetVars, chunkVars, readVars>>
    BY <1>3 DEF tx_queue_fifo_add_sysex_start
  <2>2. h[1] = SYSEX_START
    OBVIOUS
  <2> HIDE DEF h
  <2> QED BY <1>1, <1>2, <2>1, <2>2, StreamWrite3 DEF h
<1>4. CASE tx_queue_fifo_add_sysex_end
  <2> DEFINE h == <<SYSEX_END, 0, 0>>
  <2>1. /\ write_3_byte_chunk_to_fifo(h) /\ open' = FALSE /\ UsesSysex
        /\ UNCHANGED <<outstanding, packetVars, chunkVars, readVars>>
    BY <1>4 DEF tx_queue_fifo_add_sysex_end
  <2>2. h[1] = SYSEX_END
    OBVIOUS
  <2> HIDE DEF h
  <2> QED BY <1>1, <1>2, <2>1, <2>2, StreamWrite3 DEF h
<1> QED BY <1>3, <1>4

(* The header of a sysex data chunk.                                       *)
LEMMA StreamWriteHeader ==
    ASSUME TypeInv, StreamInv, NEW d \in SysexData, WriteSysexDataHeader(d)
    PROVE  StreamInv'
<1> DEFINE n == NumBytesToSend(Len(d))
           h == <<SYSEX_DATA_CHUNK_ID, Lsb(n), Msb(n)>>
           c == ThreeByteChunk(h)
<1>1. /\ fifo' = Append(fifo, c) /\ open /\ open' = open
      /\ UNCHANGED <<outstanding, packetVars, chunkVars, readVars>>
  BY DEF WriteSysexDataHeader
<1>2. c.head[1] = SYSEX_DATA_CHUNK_ID /\ c.open = open
  BY DEF ThreeByteChunk
<1>3. TypeOK /\ TypeOK' /\ FifoInv
  BY TypeWriteHeader DEF TypeInv, StreamInv
<1> HIDE DEF c
<1>4. c \in Chunk
  <2>1. fifo \in Seq(Chunk) /\ fifo' \in Seq(Chunk) /\ Len(fifo) \in Nat
    BY <1>3 DEF TypeOK
  <2>2. Len(fifo') = Len(fifo) + 1 /\ fifo'[Len(fifo) + 1] = c
    BY <1>1, <2>1
  <2>3. Len(fifo) + 1 \in 1 .. Len(fifo')
    BY <2>1, <2>2
  <2> QED BY <2>1, <2>2, <2>3, ElementOfSeq
<1>5. IsData(c) /\ ~IsSize(c)
  BY <1>2 DEF IsData, IsSize, SYSEX_DATA_CHUNK_ID, TX_MAX_PACKET_SIZE_CHUNK_ID
<1>6. open' = OpenAfter(c)
  BY <1>1, <1>2 DEF OpenAfter, SYSEX_DATA_CHUNK_ID, SYSEX_START, SYSEX_END
<1>7. UsesSysex
  BY <1>1 DEF StreamInv, FifoInv, PlainChunks
<1>8. /\ FifoInv' /\ OpenAt(1)' = OpenAt(1) /\ fifo' # <<>>
      /\ fifo # <<>> => fifo'[1] = fifo[1]
  BY <1>1, <1>2, <1>3, <1>4, <1>5, <1>6, <1>7, FifoAppended
<1> QED BY <1>1, <1>8, StreamWritten

(* The bytes of a sysex data chunk.                                        *)
LEMMA StreamWriteBytes ==
    ASSUME TypeInv, StreamInv, WriteSysexDataBytes
    PROVE  StreamInv'
<1>1. /\ TypeInv' /\ Len(fifo') = Len(fifo)
      /\ \A i \in 1 .. Len(fifo) : /\ fifo'[i].head = fifo[i].head
                                   /\ fifo'[i].open = fifo[i].open
  BY TypeWriteBytes
<1>2. open' = open /\ UNCHANGED <<outstanding, packetVars, chunkVars, readVars>>
  BY DEF WriteSysexDataBytes
<1>3. /\ TypeOK /\ FifoInv /\ fifo \in Seq(Chunk) /\ fifo' \in Seq(Chunk)
      /\ Len(fifo) \in Nat
  <2>1. TypeOK /\ TypeOK' /\ FifoInv
    BY <1>1 DEF TypeInv, StreamInv
  <2>2. fifo \in Seq(Chunk)
    BY <2>1 DEF TypeOK
  <2>3. fifo' \in Seq(Chunk)
    BY <2>1 DEF TypeOK
  <2> QED BY <2>1, <2>2, <2>3
<1>4. /\ Len(fifo') = Len(fifo) - 0
      /\ \A k \in 1 .. Len(fifo') : /\ fifo'[k].head = fifo[k + 0].head
                                    /\ fifo'[k].open = fifo[k + 0].open
  BY <1>1, <1>3
<1>5. FifoInv' /\ OpenAt(1)' = OpenAt(1 + 0)
  BY <1>2, <1>3, <1>4, FifoShifted
<1>6. fifo # <<>> => fifo' # <<>> /\ fifo'[1].head = fifo[1].head
  <2>1. SUFFICES ASSUME fifo # <<>> PROVE fifo' # <<>> /\ fifo'[1].head = fifo[1].head
    OBVIOUS
  <2>2. 1 \in 1 .. Len(fifo)
    BY <1>3, <2>1
  <2> QED BY <1>1, <1>3, <2>2
<1> QED BY <1>2, <1>5, <1>6, StreamWritten

(* on_mtu_changed                                                          *)
LEMMA StreamMtuChanged ==
    ASSUME TypeInv, StreamInv, NEW m \in Mtus, MtuChanged(m)
    PROVE  StreamInv'
<1> DEFINE h == SizeChunkHead(MaxSizeFor(m))
<1>1. /\ h \in ThreeBytes /\ h[1] = TX_MAX_PACKET_SIZE_CHUNK_ID
      /\ Decode16(h[2], h[3]) >= 5
  BY SizeChunks, WriterConstants
<1>2. open' = open /\ UNCHANGED <<outstanding, packetVars, chunkVars, readVars>>
  BY DEF MtuChanged
<1>3. CASE fifo_free_space >= 3
  <2>1. write_3_byte_chunk_to_fifo(h)
    BY <1>3 DEF MtuChanged
  <2> HIDE DEF h
  <2>2. /\ h[1] # SYSEX_START /\ h[1] # SYSEX_END /\ h[1] # SYSEX_DATA_CHUNK_ID
    BY <1>1
       DEF SYSEX_START, SYSEX_END, SYSEX_DATA_CHUNK_ID, TX_MAX_PACKET_SIZE_CHUNK_ID
  <2> QED BY <1>1, <1>2, <2>1, <2>2, StreamWrite3
<1>4. CASE ~(fifo_free_space >= 3)
  <2>1. fifo' = fifo
    BY <1>4 DEF MtuChanged, fifoVars
  <2>2. \A k : OpenAt(k)' = OpenAt(k)
    BY <1>2, <2>1 DEF OpenAt
  <2>3. FifoInv'
    BY <1>2, <2>1, <2>2
       DEF StreamInv, FifoInv, SysexChain, DataInSysex, SizesUsable, PlainChunks
  <2> QED BY <1>2, <2>1, <2>2, <2>3, StreamWritten
<1> QED BY <1>3, <1>4

-----------------------------------------------------------------------------
(* A new connection.                                                       *)

(* The queue after tx_queue_init: first, count, packets and FIFO.          *)
LEMMA FreshQueue ==
    ASSUME NEW m \in Mtus,
           NEW q, q = <<[head |-> SizeChunkHead(MaxSizeFor(m)), data |-> <<>>,
                         open |-> FALSE]>>
    PROVE  /\ q # <<>> /\ Len(q) = 1 /\ q[1].open = FALSE
           /\ IsSize(q[1]) /\ ~IsData(q[1]) /\ DataCount(q[1]) >= 5
           /\ PlainChunk(q[1]) /\ OpenAfter(q[1]) = FALSE
<1> DEFINE h == SizeChunkHead(MaxSizeFor(m))
<1>1. h[1] = TX_MAX_PACKET_SIZE_CHUNK_ID /\ Decode16(h[2], h[3]) >= 5
  BY SizeChunks, WriterConstants
<1> HIDE DEF h
<1>2. q # <<>> /\ Len(q) = 1 /\ q[1].open = FALSE /\ q[1].head = h
  BY DEF h
<1> DEFINE c == q[1]
<1> HIDE DEF c
<1>3. c.open = FALSE /\ c.head = h
  BY <1>2 DEF c
<1>4. IsSize(c) /\ DataCount(c) >= 5
  BY <1>1, <1>3 DEF IsSize, DataCount
<1>5. /\ c.head[1] # SYSEX_START /\ c.head[1] # SYSEX_END
      /\ c.head[1] # SYSEX_DATA_CHUNK_ID
  BY <1>1, <1>3
     DEF SYSEX_START, SYSEX_END, SYSEX_DATA_CHUNK_ID, TX_MAX_PACKET_SIZE_CHUNK_ID
<1>6. ~IsData(c) /\ PlainChunk(c) /\ OpenAfter(c) = FALSE
  BY <1>3, <1>5 DEF IsData, PlainChunk, OpenAfter
<1> QED BY <1>2, <1>4, <1>6 DEF c

(* An empty part of a sequence of bytes.                                   *)
LEMMA EmptyPart ==
    ASSUME NEW s \in Seq(Byte), NEW n \in Int
    PROVE  SubSeq(s, n + 1, n) = <<>>
<1>1. n + 1 \in Int /\ n + 1 > n
  OBVIOUS
<1> QED BY <1>1, SubSeqEmpty

(* Nothing remains of a chunk whose bytes are all in packets.              *)
LEMMA NothingRemains ==
    ASSUME TypeOK, num_remaining_data_bytes = 0
    PROVE  RestOfChunk = <<>>
<1> DEFINE n == curr_sysex_data_chunk_size
<1>1. sysex_chunk_scratch_buf \in Seq(Byte) /\ n \in Int
  BY DEF TypeOK
<1>2. n - 0 + 1 = n + 1
  BY <1>1
<1>3. RestOfChunk = SubSeq(sysex_chunk_scratch_buf, n + 1, n)
  BY <1>2 DEF RestOfChunk
<1> HIDE DEF n
<1> QED BY <1>1, <1>3, EmptyPart

(* The initial state.                                                      *)
LEMMA StreamInit == Init => StreamInv
<1> SUFFICES ASSUME Init PROVE StreamInv
  OBVIOUS
<1>1. /\ fifo # <<>> /\ Len(fifo) = 1 /\ fifo[1].open = FALSE
      /\ IsSize(fifo[1]) /\ ~IsData(fifo[1]) /\ DataCount(fifo[1]) >= 5
      /\ PlainChunk(fifo[1]) /\ OpenAfter(fifo[1]) = FALSE
  BY FreshQueue DEF Init
<1>2. TypeOK
  BY TypeInit DEF TypeInv
<1>3. /\ open = FALSE /\ reader = "idle" /\ num_remaining_data_bytes = 0
      /\ tx_packet_count = 1 /\ has_tx_data = FALSE /\ outstanding = <<>>
      /\ tx_packets = [i \in PacketIdx |-> WithMaxSize(ble_midi_writer_init, 0)]
      /\ held = [i \in PacketIdx |-> <<>>]
  BY DEF Init
<1>4. OpenAt(1) = FALSE /\ OpenAt(1 + 1) = FALSE
  BY <1>1, <1>3 DEF OpenAt
<1>5. \A k \in 1 .. Len(fifo) : k = 1
  BY <1>1
<1>6. FifoInv
  BY <1>1, <1>3, <1>4, <1>5
     DEF FifoInv, SysexChain, DataInSysex, SizesUsable, PlainChunks
<1>7. PlainReader /\ OnePass
  BY <1>3 DEF PlainReader, OnePass
<1>8. PacketsFollow
  BY <1>3, <1>4, ResetPackets DEF PacketsFollow
<1>9. LimitsUsable
  BY <1>1, <1>3 DEF LimitsUsable
<1>10. /\ TX_QUEUE_PACKET_COUNT \in Nat /\ TX_QUEUE_PACKET_COUNT > 0
       /\ \A k \in 0 .. TX_QUEUE_PACKET_COUNT - 1 : Pos(k) \in PacketIdx
  BY <1>2, Positions
<1>11. FreeEmpty
  BY <1>3, <1>10 DEF FreeEmpty
<1>12. UsedFilled
  <2>1. Pos(0) \in PacketIdx
    BY <1>10
  <2> QED BY <1>3, <2>1, ResetPackets DEF UsedFilled
<1>13. StreamOK
  <2>1. HeldInOrder = <<>>
    <3>1. first_tx_packet_idx \in PacketIdx
      BY <1>2 DEF TypeOK
    <3> QED BY <1>3, <3>1 DEF HeldInOrder
  <2>2. RestOfChunk = <<>>
    BY <1>2, <1>3, NothingRemains
  <2> QED BY <1>3, <2>1, <2>2, ConcatEmptySeq DEF StreamOK
<1> QED BY <1>6, <1>7, <1>8, <1>9, <1>11, <1>12, <1>13 DEF StreamInv

(* on_connected                                                            *)
LEMMA StreamConnected ==
    ASSUME TypeInv, NEW m \in Mtus, Connected(m)
    PROVE  StreamInv'
<1>1. /\ fifo' # <<>> /\ Len(fifo') = 1 /\ fifo'[1].open = FALSE
      /\ IsSize(fifo'[1]) /\ ~IsData(fifo'[1]) /\ DataCount(fifo'[1]) >= 5
      /\ PlainChunk(fifo'[1]) /\ OpenAfter(fifo'[1]) = FALSE
  <2>1. fifo' = <<[head |-> SizeChunkHead(MaxSizeFor(m)), data |-> <<>>,
                   open |-> FALSE]>>
    BY DEF Connected
  <2> QED BY <2>1, FreshQueue
<1>2. TypeOK'
  BY TypeConnected DEF TypeInv
<1>3. /\ open' = FALSE /\ reader' = "idle" /\ num_remaining_data_bytes' = 0
      /\ curr_sysex_data_chunk_size' = 0 /\ first_tx_packet_idx' = 0
      /\ tx_packet_count' = 1 /\ has_tx_data' = FALSE /\ outstanding' = <<>>
      /\ tx_packets' = [i \in PacketIdx |-> WithMaxSize(ble_midi_writer_init, 0)]
      /\ held' = [i \in PacketIdx |-> <<>>]
  BY DEF Connected, tx_queue_init, readVars
<1>4. OpenAt(1)' = FALSE /\ OpenAt(1 + 1)' = FALSE
  BY <1>1, <1>3 DEF OpenAt
<1>5. \A k \in 1 .. Len(fifo') : k = 1
  BY <1>1
<1>6. FifoInv'
  BY <1>1, <1>3, <1>4, <1>5
     DEF FifoInv, SysexChain, DataInSysex, SizesUsable, PlainChunks
<1>7. PlainReader' /\ OnePass'
  BY <1>3 DEF PlainReader, OnePass
<1>8. PacketsFollow'
  BY <1>3, <1>4, ResetPackets DEF PacketsFollow
<1>9. LimitsUsable'
  BY <1>1, <1>3 DEF LimitsUsable
<1>10. \A k \in PacketIdx : Pos(k)' = k
  <2>1. \A k \in PacketIdx : (0 + k) % TX_QUEUE_PACKET_COUNT = k
    BY PacketCountAssumption DEF PacketIdx
  <2> QED BY <1>3, <2>1 DEF Pos
<1>11. FreeEmpty' /\ UsedFilled'
  <2>1. 0 \in PacketIdx /\ \A k \in 1 .. TX_QUEUE_PACKET_COUNT - 1 : k \in PacketIdx
    BY PacketCountAssumption DEF PacketIdx
  <2>2. FreeEmpty'
    BY <1>3, <1>10, <2>1 DEF FreeEmpty
  <2>3. UsedFilled'
    BY <1>3, <1>10, <2>1, ResetPackets DEF UsedFilled
  <2> QED BY <2>2, <2>3
<1>12. StreamOK'
  <2>1. HeldInOrder' = <<>>
    <3>1. 0 \in PacketIdx
      BY PacketCountAssumption DEF PacketIdx
    <3> QED BY <1>3, <3>1 DEF HeldInOrder
  <2>2. RestOfChunk' = <<>>
    <3>1. sysex_chunk_scratch_buf' \in Seq(Byte)
      BY <1>2 DEF TypeOK
    <3>2. SubSeq(sysex_chunk_scratch_buf', 0 + 1, 0) = <<>>
      BY <3>1, EmptyPart
    <3> QED BY <1>3, <3>2 DEF RestOfChunk
  <2> QED BY <1>3, <2>1, <2>2, ConcatEmptySeq DEF StreamOK
<1> QED BY <1>6, <1>7, <1>8, <1>9, <1>11, <1>12 DEF StreamInv

-----------------------------------------------------------------------------
(* The reader moves on without touching a packet.                          *)
LEMMA StreamReadControl ==
    ASSUME TypeInv, StreamInv, ReadStart \/ ReadEmpty \/ ReadRest \/ ReadDataChunk
    PROVE  StreamInv'
<1>1. /\ UNCHANGED <<fifo, open, outstanding, packetVars, chunkVars>>
  BY DEF ReadStart, ReadEmpty, ReadRest, ReadDataChunk, fifoVars, prodVars
<1>2. TypeOK
  BY DEF TypeInv
<1>3. \A k : OpenAt(k)' = OpenAt(k) /\ Pos(k)' = Pos(k)
  BY <1>1 DEF OpenAt, Pos, packetVars
<1>4. FifoInv'
  BY <1>1, <1>3
     DEF StreamInv, FifoInv, SysexChain, DataInSysex, SizesUsable, PlainChunks
<1>5. PacketsFollow' /\ FreeEmpty' /\ UsedFilled'
  BY <1>1, <1>3 DEF StreamInv, PacketsFollow, FreeEmpty, UsedFilled, packetVars
<1>6. HeldInOrder' = HeldInOrder
  BY <1>1, HeldKept DEF packetVars
<1>7. CASE ReadStart \/ ReadEmpty
  <2>1. reader' \in {"idle", "loop"} /\ UNCHANGED sysex_chunk_scratch_buf
    BY <1>7 DEF ReadStart, ReadEmpty
  <2>2. PlainReader' /\ LimitsUsable' /\ OnePass'
    BY <1>1, <2>1
       DEF StreamInv, PlainReader, LimitsUsable, LimitsRead, OnePass, chunkVars, packetVars
  <2>3. RestOfChunk' = RestOfChunk
    BY <1>1, <2>1 DEF RestOfChunk, chunkVars
  <2> QED BY <1>1, <1>4, <1>5, <1>6, <2>2, <2>3 DEF StreamInv, StreamOK
<1>8. CASE ReadRest
  <2>1. /\ reader' = "rest" /\ num_bytes_added' = 0 /\ num_remaining_data_bytes > 0
        /\ UNCHANGED sysex_chunk_scratch_buf
    BY <1>8 DEF ReadRest
  <2>2. num_remaining_data_bytes # 0
    BY <1>2, <2>1 DEF TypeOK
  <2>3. PlainReader'
    BY <2>2 DEF StreamInv, PlainReader
  <2>4. LimitsUsable' /\ OnePass'
    BY <1>1, <2>1, <2>2 DEF StreamInv, LimitsUsable, LimitsRead, OnePass, packetVars
  <2>5. RestOfChunk' = RestOfChunk
    BY <1>1, <2>1 DEF RestOfChunk, chunkVars
  <2> QED BY <1>1, <1>4, <1>5, <1>6, <2>3, <2>4, <2>5 DEF StreamInv, StreamOK
<1>9. CASE ReadDataChunk
  <2>1. /\ reader' \in {"idle", "chunk"} /\ num_bytes_added' = 0
        /\ fifo # <<>> /\ num_remaining_data_bytes = 0
        /\ Head(fifo).head[1] = SYSEX_DATA_CHUNK_ID
    BY <1>9 DEF ReadDataChunk, AtChunk
  <2>2. Head(fifo) = fifo[1] /\ 1 \in 1 .. Len(fifo)
    BY <1>2, <2>1 DEF TypeOK
  <2>3. IsData(fifo[1]) /\ ~IsSize(fifo[1])
    BY <2>1, <2>2
       DEF IsData, IsSize, SYSEX_DATA_CHUNK_ID, TX_MAX_PACKET_SIZE_CHUNK_ID
  <2>4. PlainReader'
    BY <2>2, <2>3 DEF StreamInv, FifoInv, PlainChunks, PlainChunk, PlainReader
  <2>5. LimitsUsable' /\ OnePass'
    BY <1>1, <2>1, <2>3 DEF StreamInv, LimitsUsable, LimitsRead, OnePass, packetVars
  <2>6. RestOfChunk' = <<>> /\ RestOfChunk = <<>>
    <3>1. sysex_chunk_scratch_buf' \in Seq(Byte)
      BY <1>9, TypeReadDataChunk DEF TypeInv, TypeOK
    <3> DEFINE n == curr_sysex_data_chunk_size
    <3>2. n \in Int
      BY <1>2 DEF TypeOK
    <3>3. n - 0 + 1 = n + 1
      BY <3>2
    <3>4. RestOfChunk' = SubSeq(sysex_chunk_scratch_buf', n + 1, n)
      BY <1>1, <2>1, <3>3 DEF RestOfChunk, chunkVars
    <3> HIDE DEF n
    <3>5. RestOfChunk' = <<>>
      BY <3>1, <3>2, <3>4, EmptyPart
    <3> QED BY <1>2, <2>1, <3>5, NothingRemains
  <2> QED BY <1>1, <1>4, <1>5, <1>6, <2>4, <2>5, <2>6 DEF StreamInv, StreamOK
<1> QED BY <1>7, <1>8, <1>9

-----------------------------------------------------------------------------
(* A packet is sent.                                                       *)

(* What follows the first part of a sequence of bytes.                     *)
LEMMA DropFirst ==
    ASSUME NEW a \in Seq(Byte), NEW b \in Seq(Byte)
    PROVE  SubSeq(a \o b, Len(a) + 1, Len(a \o b)) = b
<1> DEFINE s == a \o b
           p == Len(a)
           q == Len(b)
           d == SubSeq(s, p + 1, Len(s))
<1>1. /\ s \in Seq(Byte) /\ Len(s) = p + q /\ p \in Nat /\ q \in Nat
      /\ \A i \in 1 .. q : s[p + i] = b[i]
  <2>1. /\ s \in Seq(Byte) /\ Len(s) = p + q /\ p \in Nat /\ q \in Nat
        /\ \A i \in 1 .. p + q : s[i] = IF i <= p THEN a[i] ELSE b[i - p]
    BY ConcatProperties
  <2> HIDE DEF s, p, q
  <2>2. \A i \in 1 .. q : p + i \in 1 .. p + q /\ ~(p + i <= p) /\ p + i - p = i
    BY <2>1
  <2> QED BY <2>1, <2>2
<1> HIDE DEF s, p, q
<1>2. p + 1 \in Int /\ Len(s) \in Int /\ 1 <= p + 1 /\ p + 1 <= Len(s) + 1
  BY <1>1
<1>3. /\ d \in Seq(Byte) /\ Len(d) = Len(s) - (p + 1) + 1
      /\ \A i \in 1 .. Len(s) - (p + 1) + 1 : d[i] = s[(p + 1) + i - 1]
  <2> DEFINE x == p + 1
             y == Len(s)
  <2>1. s \in Seq(Byte)
    BY <1>1
  <2>2. x \in Int /\ y \in Int /\ 1 <= x /\ x <= y + 1 /\ y <= Len(s)
    BY <1>2
  <2>3. d = SubSeq(s, x, y)
    OBVIOUS
  <2> HIDE DEF x, y, d
  <2>4. /\ d \in Seq(Byte) /\ Len(d) = y - x + 1
        /\ \A i \in 1 .. y - x + 1 : d[i] = s[x + i - 1]
    BY <2>1, <2>2, <2>3, SubSeqOfBytes
  <2> QED BY <2>4 DEF x, y
<1> HIDE DEF d
<1>4. Len(d) = q /\ \A i \in 1 .. q : d[i] = b[i]
  <2>1. Len(s) - (p + 1) + 1 = q
    BY <1>1
  <2>2. \A i \in 1 .. q : (p + 1) + i - 1 = p + i
    BY <1>1
  <2> QED BY <1>1, <1>3, <2>1, <2>2
<1>5. d = b
  <2>1. Len(b) = q
    BY DEF q
  <2> QED BY <1>3, <1>4, <2>1, SeqEqual
<1> QED BY <1>5 DEF d, s, p

(* What is outstanding after a part of it has been sent.                   *)
LEMMA SentPart ==
    ASSUME NEW a \in Seq(Byte), NEW b \in Seq(Byte), NEW r \in Seq(Byte),
           NEW out, out = (a \o b) \o r
    PROVE  SubSeq(out, Len(a) + 1, Len(out)) = b \o r
<1>1. b \o r \in Seq(Byte) /\ out = a \o (b \o r)
  BY ConcatAssociative, ConcatProperties
<1> QED BY <1>1, DropFirst

(* tx_queue_on_tx_packet_sent                                              *)
LEMMA StreamSent ==
    ASSUME TypeInv, StreamInv, tx_queue_on_tx_packet_sent
    PROVE  StreamInv'
<1> DEFINE first == first_tx_packet_idx
           N == TX_QUEUE_PACKET_COUNT
           n == tx_packet_count
<1>1. /\ reader = "idle" /\ has_tx_data
      /\ tx_packets' = [tx_packets EXCEPT ![first] = ble_midi_writer_reset(@)]
      /\ held' = [held EXCEPT ![first] = <<>>]
      /\ outstanding' = SubSeq(outstanding, Len(held[first]) + 1, Len(outstanding))
      /\ UNCHANGED <<fifo, open, chunkVars, readVars>>
  BY DEF tx_queue_on_tx_packet_sent, fifoVars, prodVars
<1>2. TypeOK /\ TypeOK'
  BY TypeSent DEF TypeInv
<1>3. /\ N \in Nat /\ N > 0 /\ n \in 1 .. N /\ n \in Nat /\ first \in PacketIdx
      /\ tx_packets \in [PacketIdx -> Writer] /\ held \in [PacketIdx -> Seq(Byte)]
  BY <1>2, PacketCountAssumption, SMTT(30) DEF TypeOK
<1>4. /\ \A k \in 0 .. N - 1 : Pos(k) \in PacketIdx
      /\ \A j, k \in 0 .. N - 1 : Pos(j) = Pos(k) => j = k
      /\ Pos(0) = first
  BY <1>2, Positions
<1>5. \A i \in PacketIdx :
          /\ tx_packets'[i].in_sysex_msg = tx_packets[i].in_sysex_msg
          /\ tx_packets'[i].tx_buf_max_size = tx_packets[i].tx_buf_max_size
          /\ i = first => tx_packets'[i].tx_buf = <<>> /\ held'[i] = <<>>
          /\ i # first => tx_packets'[i].tx_buf = tx_packets[i].tx_buf
                          /\ held'[i] = held[i]
  BY <1>1, <1>3, FreshWriters
<1>6. \A k : OpenAt(k)' = OpenAt(k)
  BY <1>1 DEF OpenAt
<1>7. FifoInv'
  BY <1>1, <1>6
     DEF StreamInv, FifoInv, SysexChain, DataInSysex, SizesUsable, PlainChunks
<1>8. PacketsFollow'
  BY <1>5, <1>6 DEF StreamInv, PacketsFollow
<1>9. LimitsUsable' /\ PlainReader' /\ OnePass'
  BY <1>1, <1>5
     DEF StreamInv, LimitsUsable, LimitsRead, PlainReader, OnePass, chunkVars, readVars
<1> DEFINE rest == RestOfChunk
           h    == held[first]
<1>10. RestOfChunk' = rest
  BY <1>1 DEF RestOfChunk, chunkVars, readVars
<1>11. h \in Seq(Byte) /\ outstanding = HeldInOrder \o rest
  BY <1>3 DEF StreamInv, StreamOK
<1>12. rest \in Seq(Byte)
  <2>1. CASE num_remaining_data_bytes = 0
    BY <1>2, <2>1, NothingRemains
  <2>2. CASE num_remaining_data_bytes # 0
    <3> DEFINE x == curr_sysex_data_chunk_size
               y == num_remaining_data_bytes
    <3>1. /\ x \in Nat /\ y \in Nat /\ y > 0 /\ sysex_chunk_scratch_buf \in Seq(Byte)
          /\ x <= Len(sysex_chunk_scratch_buf) /\ x - y >= 3
      BY <1>2, <2>2 DEF TypeInv, TypeOK, RestReadOK, SYSEX_DATA_CHUNK_HEADER_SIZE
    <3> HIDE DEF x, y
    <3>2. x - y + 1 \in Int /\ x \in Int /\ 1 <= x - y + 1 /\ x - y + 1 <= x + 1
      BY <3>1
    <3>3. SubSeq(sysex_chunk_scratch_buf, x - y + 1, x) \in Seq(Byte)
      BY <3>1, <3>2, SubSeqOfBytes
    <3> QED BY <3>3 DEF RestOfChunk, x, y
  <2> QED BY <2>1, <2>2
<1>13. CASE OnlyPacket
  <2>1. n = 1
    BY <1>3, <1>13 DEF OnlyPacket
  <2>2. has_tx_data' = FALSE /\ tx_packet_count' = n /\ first_tx_packet_idx' = first
    BY <1>13 DEF tx_queue_on_tx_packet_sent
  <2>3. \A k : Pos(k)' = Pos(k)
    BY <2>2 DEF Pos
  <2>4. FreeEmpty'
    <3>1. \A k \in n .. N - 1 : Pos(k) \in PacketIdx /\ held[Pos(k)] = <<>>
      BY <1>3, <1>4 DEF StreamInv, FreeEmpty
    <3> QED BY <1>5, <2>2, <2>3, <3>1 DEF FreeEmpty
  <2>5. UsedFilled'
    BY <1>3, <1>4, <1>5, <2>1, <2>2, <2>3 DEF UsedFilled
  <2>6. StreamOK'
    <3>1. HeldInOrder = h
      BY <2>1 DEF HeldInOrder
    <3>2. HeldInOrder' = <<>>
      BY <1>3, <1>5, <2>1, <2>2 DEF HeldInOrder
    <3>3. outstanding = h \o rest
      BY <1>11, <3>1
    <3>4. outstanding' = SubSeq(outstanding, Len(h) + 1, Len(outstanding))
      BY <1>1
    <3> HIDE DEF rest, h
    <3>5. outstanding' = rest
      BY <1>11, <1>12, <3>3, <3>4, DropFirst
    <3>6. <<>> \o rest = rest
      BY <1>12, ConcatEmptySeq
    <3> QED BY <1>10, <3>2, <3>5, <3>6 DEF StreamOK
  <2> QED BY <1>7, <1>8, <1>9, <2>4, <2>5, <2>6 DEF StreamInv
<1>14. CASE ~OnlyPacket
  <2>1. n > 1 /\ N > 1
    BY <1>3, <1>14 DEF OnlyPacket
  <2>2. /\ has_tx_data' = has_tx_data /\ tx_packet_count' = n - 1
        /\ first_tx_packet_idx' = (first + 1) % N
    BY <1>14 DEF tx_queue_on_tx_packet_sent
  <2>3. \A k \in 0 .. N - 1 : Pos(k)' = IF k = N - 1 THEN Pos(0) ELSE Pos(k + 1)
    BY <1>2, <2>2, PositionsMove
  <2>4. FreeEmpty'
    <3>1. SUFFICES ASSUME NEW k \in n - 1 .. N - 1 PROVE held'[Pos(k)'] = <<>>
      BY <2>2 DEF FreeEmpty
    <3>2. k \in 0 .. N - 1
      BY <1>3
    <3>3. CASE k = N - 1
      BY <1>3, <1>4, <1>5, <2>3, <3>2, <3>3
    <3>4. CASE k # N - 1
      <4>1. k + 1 \in n .. N - 1 /\ k + 1 \in 0 .. N - 1
        BY <1>3, <3>4
      <4>2. held[Pos(k + 1)] = <<>> /\ Pos(k + 1) \in PacketIdx
        BY <1>4, <4>1 DEF StreamInv, FreeEmpty
      <4>3. Pos(k)' = Pos(k + 1)
        BY <2>3, <3>2, <3>4
      <4> QED BY <1>5, <4>2, <4>3
    <3> QED BY <3>3, <3>4
  <2>5. \A k \in 0 .. n - 2 : /\ Pos(k)' = Pos(k + 1) /\ Pos(k + 1) \in PacketIdx
                              /\ Pos(k + 1) # first /\ k + 1 \in 0 .. n - 1
    <3>1. SUFFICES ASSUME NEW k \in 0 .. n - 2
                   PROVE  /\ Pos(k)' = Pos(k + 1) /\ Pos(k + 1) \in PacketIdx
                          /\ Pos(k + 1) # first /\ k + 1 \in 0 .. n - 1
      OBVIOUS
    <3>2. /\ k \in 0 .. N - 1 /\ k # N - 1 /\ k + 1 \in 0 .. N - 1 /\ k + 1 # 0
          /\ k + 1 \in 0 .. n - 1 /\ 0 \in 0 .. N - 1
      BY <1>3, <2>1
    <3>3. Pos(k)' = Pos(k + 1)
      BY <2>3, <3>2
    <3>4. Pos(k + 1) # first
      BY <1>4, <3>2
    <3> QED BY <1>4, <3>2, <3>3, <3>4
  <2>6. UsedFilled'
    <3>1. \A k \in 0 .. n - 1 : tx_packets[Pos(k)].tx_buf # <<>>
      BY <1>1 DEF StreamInv, UsedFilled
    <3>2. SUFFICES ASSUME NEW k \in 0 .. n - 2
                   PROVE  tx_packets'[Pos(k)'].tx_buf # <<>>
      <4>1. (n - 1) - 1 = n - 2
        BY <1>3
      <4> QED BY <1>1, <2>2, <4>1 DEF UsedFilled
    <3> QED BY <1>5, <2>5, <3>1
  <2>7. StreamOK'
    <3> DEFINE s == HeldSeq
               t == HeldSeq'
               m == n - 1
    <3>1. /\ s \in Seq(Seq(Byte)) /\ Len(s) = n
          /\ \A k \in 1 .. n : s[k] = held[Pos(k - 1)]
          /\ HeldInOrder = FlattenSeq(s)
      BY <1>2, HeldIsFlat
    <3>2. /\ t \in Seq(Seq(Byte)) /\ Len(t) = m
          /\ \A k \in 1 .. m : t[k] = held'[Pos(k - 1)']
          /\ HeldInOrder' = FlattenSeq(t) /\ HeldInOrder' \in Seq(Byte)
      BY <1>2, <2>2, HeldIsFlatNext
    <3>3. m \in Nat /\ m >= 1 /\ n = m + 1 /\ 1 \in 1 .. n
      BY <1>3, <2>1
    <3>4. \A k \in 1 .. m : t[k] = s[k + 1]
      <4>1. SUFFICES ASSUME NEW k \in 1 .. m PROVE t[k] = s[k + 1]
        OBVIOUS
      <4>2. k - 1 \in 0 .. n - 2 /\ (k - 1) + 1 = k /\ (k + 1) - 1 = k /\ k + 1 \in 1 .. n
        BY <1>3
      <4>3. t[k] = held'[Pos(k - 1)']
        BY <3>2
      <4>4. Pos(k - 1)' = Pos(k) /\ Pos(k) \in PacketIdx /\ Pos(k) # first
        BY <2>5, <4>2
      <4>5. s[k + 1] = held[Pos(k)]
        BY <3>1, <4>2
      <4> QED BY <1>5, <4>3, <4>4, <4>5
    <3>5. s[1] = h
      <4>1. 1 - 1 = 0
        OBVIOUS
      <4> QED BY <1>4, <3>1, <3>3, <4>1
    <3> DEFINE u == HeldInOrder'
    <3>6. outstanding' = SubSeq(outstanding, Len(h) + 1, Len(outstanding))
      BY <1>1
    <3>0. /\ s \in Seq(Seq(Byte)) /\ t \in Seq(Seq(Byte)) /\ m \in Nat
          /\ m >= 1 /\ Len(t) = m /\ Len(s) = m + 1
      BY <3>1, <3>2, <3>3
    <3> HIDE DEF s, t, m
    <3>7. FlattenSeq(s) = s[1] \o FlattenSeq(t)
      BY <3>0, <3>4, FlattenFirst
    <3>8. HeldInOrder = h \o u /\ u \in Seq(Byte)
      BY <3>1, <3>2, <3>5, <3>7
    <3>9. outstanding = (h \o u) \o rest
      BY <1>11, <3>8
    <3> HIDE DEF u, h, rest
    <3>10. outstanding' = u \o rest
      <4>1. h \in Seq(Byte) /\ u \in Seq(Byte) /\ rest \in Seq(Byte)
        BY <1>11, <1>12, <3>8
      <4>2. SubSeq(outstanding, Len(h) + 1, Len(outstanding)) = u \o rest
        BY <3>9, <4>1, SentPart, SMTT(30)
      <4> QED BY <3>6, <4>2, Zenon
    <3> QED BY <1>10, <3>10 DEF StreamOK, u
  <2> QED BY <1>7, <1>8, <1>9, <2>4, <2>6, <2>7 DEF StreamInv
<1> QED BY <1>13, <1>14

-----------------------------------------------------------------------------
(* The reader takes a chunk.                                               *)

(* A chunk that is not valid adds nothing to what is outstanding.          *)
LEMMA ConsumedBytes ==
    ASSUME TypeInv, fifo # <<>>, ConsumeChunk
    PROVE  /\ Head(fifo) = fifo[1] /\ fifo[1] \in Chunk /\ fifo' = Tail(fifo)
           /\ ~Valid(fifo[1]) => outstanding' = outstanding
           /\ Valid(fifo[1]) => outstanding' = outstanding \o Payload(fifo[1])
<1>1. fifo \in Seq(Chunk) /\ outstanding \in Seq(Byte)
  BY DEF TypeInv, TypeOK
<1>2. Head(fifo) = fifo[1] /\ fifo[1] \in Chunk
  BY <1>1
<1>3. outstanding' = outstanding \o (IF Valid(fifo[1]) THEN Payload(fifo[1]) ELSE <<>>)
  BY <1>2 DEF ConsumeChunk
<1>4. outstanding \o <<>> = outstanding
  BY <1>1, ConcatEmptySeq
<1>5. fifo' = Tail(fifo)
  BY DEF ConsumeChunk
<1> QED BY <1>2, <1>3, <1>4, <1>5

(* A new limit for the packets.                                            *)
LEMMA StreamReadSize ==
    ASSUME TypeInv, StreamInv, ReadSizeChunk
    PROVE  StreamInv'
<1> DEFINE c == fifo[1]
           size == DataCount(c)
           max == IF size > BLE_MIDI_TX_PACKET_MAX_SIZE
                  THEN BLE_MIDI_TX_PACKET_MAX_SIZE ELSE size
<1>1. /\ AtChunk /\ ConsumeChunk /\ fifo # <<>> /\ reader = "loop"
      /\ UNCHANGED <<open, chunkVars, readVars>>
      /\ UNCHANGED <<first_tx_packet_idx, tx_packet_count, has_tx_data, held>>
  BY DEF ReadSizeChunk, AtChunk, prodVars
<1>2. TypeOK /\ FifoInv
  BY DEF TypeInv, StreamInv
<1>3. /\ Head(fifo) = c /\ c \in Chunk /\ fifo' = Tail(fifo)
      /\ ~Valid(c) => outstanding' = outstanding
  BY <1>1, ConsumedBytes
<1>4. c.head[1] = TX_MAX_PACKET_SIZE_CHUNK_ID
  BY <1>3 DEF ReadSizeChunk
<1>5. tx_packets' = [i \in PacketIdx |-> WithMaxSize(tx_packets[i], max)]
  BY <1>3 DEF ReadSizeChunk, DataCount
<1>6. IsSize(c) /\ ~Valid(c) /\ OpenAfter(c) = c.open
  <2>1. /\ TX_MAX_PACKET_SIZE_CHUNK_ID # SYSEX_START
        /\ TX_MAX_PACKET_SIZE_CHUNK_ID # SYSEX_END
        /\ TX_MAX_PACKET_SIZE_CHUNK_ID # SYSEX_DATA_CHUNK_ID
    BY DEF SYSEX_START, SYSEX_END, SYSEX_DATA_CHUNK_ID, TX_MAX_PACKET_SIZE_CHUNK_ID
  <2>2. IsSize(c)
    BY <1>4 DEF IsSize
  <2>3. ~Valid(c)
    BY <1>4, <2>1 DEF Valid
  <2>4. OpenAfter(c) = c.open
    BY <1>4, <2>1 DEF OpenAfter
  <2> QED BY <2>2, <2>3, <2>4
<1>7. 1 \in 1 .. Len(fifo)
  BY <1>1, <1>2 DEF TypeOK
<1>8. size \in Nat /\ size >= 5
  BY <1>2, <1>6, <1>7, FitTypes DEF FifoInv, SizesUsable
<1>9. max \in 5 .. BLE_MIDI_TX_PACKET_MAX_SIZE
  BY <1>8, WriterConstants, PacketHoldsMessage
<1>10. FifoInv' /\ OpenAt(1)' = OpenAfter(c) /\ OpenAt(1) = c.open
  BY <1>1, <1>2, <1>3, FifoTaken
<1>11. \A i \in PacketIdx :
          /\ tx_packets'[i].in_sysex_msg = tx_packets[i].in_sysex_msg
          /\ tx_packets'[i].tx_buf = tx_packets[i].tx_buf
          /\ tx_packets'[i].tx_buf_max_size = max
  <2>1. \A i \in PacketIdx : tx_packets[i] \in Writer
    BY <1>2 DEF TypeOK
  <2>2. max \in 0 .. BLE_MIDI_TX_PACKET_MAX_SIZE
    BY <1>9, WriterConstants
  <2> HIDE DEF max
  <2> QED BY <1>5, <2>1, <2>2, WithMaxSizeType
<1> HIDE DEF c, max
<1>12. LimitsUsable'
  <2>1. max >= 5
    BY <1>9, WriterConstants
  <2> QED BY <1>11, <2>1 DEF LimitsUsable, LimitsRead
<1>13. PacketsFollow'
  BY <1>6, <1>10, <1>11 DEF StreamInv, PacketsFollow
<1>14. \A k : Pos(k)' = Pos(k)
  BY <1>1 DEF Pos
<1>15. FreeEmpty'
  BY <1>1, <1>14 DEF StreamInv, FreeEmpty
<1>16. UsedFilled'
  <2>1. \A k \in 0 .. TX_QUEUE_PACKET_COUNT - 1 : Pos(k) \in PacketIdx
    BY <1>2, Positions
  <2>2. \A k \in 0 .. tx_packet_count - 1 : k \in 0 .. TX_QUEUE_PACKET_COUNT - 1
    BY <1>2, PacketCountAssumption DEF TypeOK
  <2>3. tx_packet_count = 1 => Pos(0) \in PacketIdx
    BY <2>1, <2>2
  <2> QED BY <1>1, <1>11, <1>14, <2>1, <2>2, <2>3 DEF StreamInv, UsedFilled
<1>17. PlainReader' /\ OnePass'
  BY <1>1 DEF StreamInv, PlainReader, OnePass, chunkVars, readVars
<1>18. StreamOK'
  <2>1. HeldInOrder' = HeldInOrder
    BY <1>1, HeldKept
  <2>2. RestOfChunk' = RestOfChunk
    BY <1>1 DEF RestOfChunk, chunkVars, readVars
  <2> QED BY <1>3, <1>6, <2>1, <2>2 DEF StreamInv, StreamOK
<1> QED BY <1>10, <1>12, <1>13, <1>15, <1>16, <1>17, <1>18 DEF StreamInv

-----------------------------------------------------------------------------
(* A three byte chunk is added to a packet.                                *)

(* The bytes of the packets in use, when the last of them takes more.      *)
LEMMA LastPacketGrows ==
    ASSUME TypeOK, TypeOK', NEW x \in Seq(Byte),
           UNCHANGED <<first_tx_packet_idx, tx_packet_count>>,
           held' = [held EXCEPT ![tx_queue_last_tx_packet] = @ \o x]
    PROVE  HeldInOrder' = HeldInOrder \o x
<1> DEFINE s == HeldSeq
           t == HeldSeq'
           n == tx_packet_count
           last == tx_queue_last_tx_packet
<1>1. /\ s \in Seq(Seq(Byte)) /\ Len(s) = n
      /\ \A k \in 1 .. n : s[k] = held[Pos(k - 1)]
      /\ HeldInOrder = FlattenSeq(s)
  BY HeldIsFlat
<1>2. /\ t \in Seq(Seq(Byte)) /\ Len(t) = n
      /\ \A k \in 1 .. n : t[k] = held'[Pos(k - 1)']
      /\ HeldInOrder' = FlattenSeq(t)
  BY HeldIsFlatNext
<1>3. /\ n \in Nat /\ n >= 1 /\ n \in 1 .. n /\ n <= TX_QUEUE_PACKET_COUNT
      /\ TX_QUEUE_PACKET_COUNT \in Nat
      /\ held \in [PacketIdx -> Seq(Byte)]
  BY PacketCountAssumption DEF TypeOK
<1>4. /\ \A k \in 0 .. TX_QUEUE_PACKET_COUNT - 1 : Pos(k) \in PacketIdx
      /\ \A j, k \in 0 .. TX_QUEUE_PACKET_COUNT - 1 : Pos(j) = Pos(k) => j = k
      /\ last = Pos(n - 1)
  BY Positions
<1>5. \A k : Pos(k)' = Pos(k)
  BY DEF Pos
<1>6. \A k \in 1 .. n : k - 1 \in 0 .. TX_QUEUE_PACKET_COUNT - 1
  BY <1>3
<1>7. t[n] = s[n] \o x
  BY <1>1, <1>2, <1>3, <1>4, <1>5, <1>6
<1>8. \A k \in 1 .. n - 1 : t[k] = s[k]
  <2>1. SUFFICES ASSUME NEW k \in 1 .. n - 1 PROVE t[k] = s[k]
    OBVIOUS
  <2>2. k \in 1 .. n /\ k - 1 # n - 1
    BY <1>3
  <2>3. Pos(k - 1) # last /\ Pos(k - 1) \in PacketIdx
    BY <1>3, <1>4, <1>6, <2>2
  <2> QED BY <1>1, <1>2, <1>3, <1>5, <2>2, <2>3
<1>9. /\ s \in Seq(Seq(Byte)) /\ t \in Seq(Seq(Byte)) /\ n \in Nat
      /\ n >= 1 /\ Len(s) = n /\ Len(t) = n
  BY <1>1, <1>2, <1>3
<1> HIDE DEF s, t, n
<1>10. FlattenSeq(t) = FlattenSeq(s) \o x
  BY <1>7, <1>8, <1>9, FlattenExtended
<1> QED BY <1>1, <1>2, <1>10

(* The bytes of the packets in use, when a packet is added to them.        *)
LEMMA PacketAdded ==
    ASSUME TypeOK, TypeOK', NEW x \in Seq(Byte), held[NextPacket] = <<>>,
           first_tx_packet_idx' = first_tx_packet_idx,
           tx_packet_count' = tx_packet_count + 1,
           held' = [held EXCEPT ![NextPacket] = @ \o x]
    PROVE  HeldInOrder' = HeldInOrder \o x
<1> DEFINE s == HeldSeq
           t == HeldSeq'
           n == tx_packet_count
           next == NextPacket
<1>1. /\ s \in Seq(Seq(Byte)) /\ Len(s) = n
      /\ \A k \in 1 .. n : s[k] = held[Pos(k - 1)]
      /\ HeldInOrder = FlattenSeq(s)
  BY HeldIsFlat
<1>2. /\ t \in Seq(Seq(Byte)) /\ Len(t) = n + 1
      /\ \A k \in 1 .. n + 1 : t[k] = held'[Pos(k - 1)']
      /\ HeldInOrder' = FlattenSeq(t)
  BY HeldIsFlatNext
<1>3. /\ n \in Nat /\ n >= 1 /\ n + 1 <= TX_QUEUE_PACKET_COUNT
      /\ TX_QUEUE_PACKET_COUNT \in Nat
      /\ held \in [PacketIdx -> Seq(Byte)]
  BY PacketCountAssumption DEF TypeOK
<1>4. /\ \A k \in 0 .. TX_QUEUE_PACKET_COUNT - 1 : Pos(k) \in PacketIdx
      /\ \A j, k \in 0 .. TX_QUEUE_PACKET_COUNT - 1 : Pos(j) = Pos(k) => j = k
      /\ next = Pos(n)
  BY Positions
<1>5. \A k : Pos(k)' = Pos(k)
  BY DEF Pos
<1>6. t[n + 1] = x
  <2>1. n + 1 \in 1 .. n + 1 /\ (n + 1) - 1 = n /\ n \in 0 .. TX_QUEUE_PACKET_COUNT - 1
    BY <1>3
  <2>2. t[n + 1] = held'[next] /\ next \in PacketIdx
    BY <1>2, <1>4, <1>5, <2>1
  <2>3. held'[next] = <<>> \o x
    BY <1>3, <2>2
  <2>4. <<>> \o x = x
    BY ConcatEmptySeq
  <2> QED BY <2>2, <2>3, <2>4
<1>7. \A k \in 1 .. n : t[k] = s[k]
  <2>1. SUFFICES ASSUME NEW k \in 1 .. n PROVE t[k] = s[k]
    OBVIOUS
  <2>2. /\ k \in 1 .. n + 1 /\ k - 1 # n
        /\ k - 1 \in 0 .. TX_QUEUE_PACKET_COUNT - 1 /\ n \in 0 .. TX_QUEUE_PACKET_COUNT - 1
    BY <1>3
  <2>3. Pos(k - 1) # next /\ Pos(k - 1) \in PacketIdx
    BY <1>4, <2>2
  <2> QED BY <1>1, <1>2, <1>3, <1>5, <2>2, <2>3
<1>8. /\ s \in Seq(Seq(Byte)) /\ t \in Seq(Seq(Byte)) /\ n \in Nat
      /\ n >= 1 /\ Len(s) = n /\ Len(t) = n + 1
  BY <1>1, <1>2, <1>3
<1> HIDE DEF s, t, n
<1>9. FlattenSeq(t) = FlattenSeq(s) \o t[n + 1]
  BY <1>7, <1>8, FlattenAdded
<1> QED BY <1>1, <1>2, <1>6, <1>9

(* The chunk that add_3_byte_chunk_to_tx_packet looks at, and the packets  *)
(* it finds.                                                               *)
LEMMA Add3Context ==
    ASSUME IntendedUse, TypeInv, StreamInv, AtChunk, Head(fifo).head[1] >= 128
    PROVE  /\ Head(fifo) = fifo[1] /\ fifo[1] \in Chunk
           /\ fifo[1].head \in Seq(Byte) /\ fifo[1].head \in ThreeBytes
           /\ OpenAt(1) = fifo[1].open /\ Payload(fifo[1]) = fifo[1].head
           /\ LimitsRead /\ RestOfChunk = <<>>
           /\ TX_QUEUE_PACKET_COUNT # 1 => OpenAfter(fifo[1]) = fifo[1].open
<1> DEFINE c == fifo[1]
<1>1. TypeOK /\ fifo # <<>> /\ fifo \in Seq(Chunk) /\ num_remaining_data_bytes = 0
  BY DEF TypeInv, TypeOK, AtChunk
<1>2. Head(fifo) = c /\ c \in Chunk /\ 1 \in 1 .. Len(fifo)
  BY <1>1
<1>3. c.head[1] >= 128 /\ OpenAt(1) = c.open
  BY <1>2 DEF OpenAt
<1> HIDE DEF c
<1>4. c.head \in ThreeBytes /\ c.head \in Seq(Byte)
  <2>1. c.head \in ThreeBytes
    BY <1>2 DEF Chunk, ThreeBytes
  <2> QED BY <2>1, ThreeBytesAreSequences
<1>5. c.head[1] # SYSEX_DATA_CHUNK_ID /\ c.head[1] # TX_MAX_PACKET_SIZE_CHUNK_ID
  BY <1>3 DEF SYSEX_DATA_CHUNK_ID, TX_MAX_PACKET_SIZE_CHUNK_ID
<1>6. Payload(c) = c.head
  BY <1>5 DEF Payload
<1>7. ~IsSize(c)
  BY <1>5 DEF IsSize
<1>8. LimitsRead
  BY <1>7 DEF StreamInv, LimitsUsable, c
<1>9. RestOfChunk = <<>>
  BY <1>1, NothingRemains
<1>10. TX_QUEUE_PACKET_COUNT # 1 => OpenAfter(c) = c.open
  <2>1. SUFFICES ASSUME TX_QUEUE_PACKET_COUNT # 1 PROVE OpenAfter(c) = c.open
    OBVIOUS
  <2>2. PlainChunk(c)
    BY <1>2, <2>1 DEF IntendedUse, StreamInv, FifoInv, PlainChunks, c
  <2> QED BY <2>2 DEF PlainChunk, OpenAfter
<1> QED BY <1>2, <1>3, <1>4, <1>6, <1>8, <1>9, <1>10 DEF c

(* What an attempt comes to: the chunk is refused if it is not valid, and  *)
(* a packet is only added for a chunk that then fits.                      *)
LEMMA AttemptOutcome ==
    ASSUME IntendedUse, TypeInv, StreamInv, AtChunk, Head(fifo).head[1] >= 128,
           NEW t \in Timestamps
    PROVE  LET c == fifo[1]
               a == Attempt(c.head, t)
           IN  /\ a.packet \in PacketIdx
               /\ WriterStep(tx_packets[a.packet], a.w)
               /\ a.rc # "SUCCESS" => a.grow = 0 /\ a.w = tx_packets[a.packet]
               /\ Refused(a) <=> ~Valid(c)
               /\ Refused(a) => OpenAfter(c) = c.open
               /\ a.rc = "SUCCESS" => /\ a.w.tx_buf # <<>>
                                      /\ a.w.in_sysex_msg = OpenAfter(c)
               /\ \/ a.grow = 0 /\ a.packet = tx_queue_last_tx_packet
                  \/ /\ a.grow = 1 /\ a.packet = NextPacket
                     /\ tx_packet_count < TX_QUEUE_PACKET_COUNT
                     /\ has_tx_data = TRUE
<1> DEFINE c == fifo[1]
           h == c.head
           last == tx_queue_last_tx_packet
           wl == tx_packets[last]
           wn == ble_midi_writer_reset(tx_packets[NextPacket])
           rl == Add3Bytes(wl, h, t)
           rn == Add3Bytes(wn, h, t)
           a == Attempt(h, t)
<1>1. /\ Head(fifo) = c /\ c \in Chunk /\ h \in ThreeBytes
      /\ OpenAt(1) = c.open /\ LimitsRead
  BY Add3Context
<1>2. h[1] >= 128 /\ t \in Timestamp
  BY <1>1, TimestampsAssumption
<1>3. TypeOK /\ last \in PacketIdx /\ NextPacket \in PacketIdx
  BY RingIndices DEF TypeInv
<1>4. tx_packets[last] \in Writer /\ tx_packets[NextPacket] \in Writer
  BY <1>3 DEF TypeOK
<1>5. /\ wl \in Writer /\ wl.in_sysex_msg = c.open /\ wl.tx_buf_max_size >= 5
      /\ wn \in Writer /\ wn.in_sysex_msg = c.open /\ wn.tx_buf_max_size >= 5
      /\ wn.tx_buf = <<>> /\ WriterStep(tx_packets[NextPacket], wn)
  BY <1>1, <1>3, <1>4, FreshWriters, ResetStep
     DEF StreamInv, PacketsFollow, LimitsRead
<1>6. a = IF rl.rc # "PACKET_FULL" \/ NoFreePacket
          THEN [rc |-> rl.rc, w |-> rl.w, packet |-> last, grow |-> 0]
          ELSE [rc |-> rn.rc, w |-> rn.w, packet |-> NextPacket, grow |-> 1]
  BY DEF Attempt
<1>7. ~has_tx_data => wl.tx_buf = <<>>
  <2>1. SUFFICES ASSUME ~has_tx_data PROVE wl.tx_buf = <<>>
    OBVIOUS
  <2>2. tx_packet_count = 1 /\ tx_packets[Pos(0)].tx_buf = <<>>
    BY <2>1 DEF StreamInv, UsedFilled
  <2>3. last = Pos(tx_packet_count - 1)
    BY <1>3, Positions
  <2> QED BY <2>2, <2>3
<1> HIDE DEF wl, wn
<1>8. /\ WriterStep(wl, rl.w) /\ (Refused(rl) <=> ~Valid(c))
      /\ rl.rc # "SUCCESS" => rl.w = wl
      /\ rl.rc = "SUCCESS" => rl.w.in_sysex_msg = OpenAfter(c)
      /\ Refused(rl) => OpenAfter(c) = c.open
      /\ rl.rc = "SUCCESS" => rl.w.tx_buf # <<>>
      /\ wl.tx_buf = <<>> => rl.rc # "PACKET_FULL"
  BY <1>1, <1>2, <1>5, Add3BytesFacts
<1>9. /\ WriterStep(wn, rn.w) /\ (Refused(rn) <=> ~Valid(c))
      /\ rn.rc = "SUCCESS" => rn.w.in_sysex_msg = OpenAfter(c)
      /\ rn.rc = "SUCCESS" => rn.w.tx_buf # <<>>
      /\ rn.rc # "PACKET_FULL"
  BY <1>1, <1>2, <1>5, Add3BytesFacts
<1> HIDE DEF rl, rn, a
<1>10. CASE rl.rc # "PACKET_FULL" \/ NoFreePacket
  <2>1. a.rc = rl.rc /\ a.w = rl.w /\ a.packet = last /\ a.grow = 0
    BY <1>6, <1>10
  <2>2. Refused(a) <=> Refused(rl)
    BY <2>1 DEF Refused
  <2> QED BY <1>3, <1>8, <2>1, <2>2 DEF a, wl
<1>11. CASE ~(rl.rc # "PACKET_FULL" \/ NoFreePacket)
  <2>1. a.rc = rn.rc /\ a.w = rn.w /\ a.packet = NextPacket /\ a.grow = 1
    BY <1>6, <1>11
  <2>2. Refused(a) <=> Refused(rn)
    BY <2>1 DEF Refused
  <2>3. rl.rc = "PACKET_FULL" /\ ~Refused(rl)
    BY <1>11 DEF Refused
  <2>4. rn.rc = "SUCCESS"
    BY <1>8, <1>9, <2>3 DEF Refused
  <2>5. has_tx_data = TRUE
    BY <1>3, <1>7, <1>8, <2>3 DEF TypeOK
  <2>6. tx_packet_count < TX_QUEUE_PACKET_COUNT
    BY <1>3, <1>11, PacketCountAssumption DEF NoFreePacket, TypeOK
  <2>7. WriterStep(tx_packets[NextPacket], rn.w)
    BY <1>5, <1>9 DEF WriterStep
  <2>8. ~Refused(a) /\ Valid(c)
    BY <1>8, <2>2, <2>3, <2>4 DEF Refused
  <2> QED BY <1>3, <1>9, <2>1, <2>4, <2>5, <2>6, <2>7, <2>8 DEF a
<1> QED BY <1>10, <1>11

(* Where the attempt does not add the chunk, no packet changes.            *)
LEMMA StreamAdd3Fails ==
    ASSUME IntendedUse, TypeInv, StreamInv, NEW t \in Timestamps,
           add_3_byte_chunk_to_tx_packet(t),
           Attempt(Head(fifo).head, t).rc # "SUCCESS"
    PROVE  StreamInv'
<1> DEFINE c == fifo[1]
           a == Attempt(c.head, t)
<1>1. AtChunk /\ Head(fifo).head[1] >= 128
  BY DEF add_3_byte_chunk_to_tx_packet
<1>2. /\ Head(fifo) = c /\ c \in Chunk /\ OpenAt(1) = c.open
  BY <1>1, Add3Context
<1>3. /\ a.packet \in PacketIdx /\ a.grow = 0 /\ a.w = tx_packets[a.packet]
      /\ (Refused(a) <=> ~Valid(c)) /\ (Refused(a) => OpenAfter(c) = c.open)
  BY <1>1, <1>2, AttemptOutcome
<1>4. /\ tx_packets' = [tx_packets EXCEPT ![a.packet] = a.w]
      /\ tx_packet_count' = tx_packet_count + a.grow
      /\ UNCHANGED <<first_tx_packet_idx, has_tx_data, held>>
      /\ UNCHANGED <<open, chunkVars, sysex_chunk_scratch_buf, num_bytes_added>>
      /\ reader' \in {"idle", "loop"}
      /\ \/ UNCHANGED <<fifo, outstanding>>
         \/ a.rc \notin {"SUCCESS", "PACKET_FULL"} /\ ConsumeChunk
  BY <1>2 DEF add_3_byte_chunk_to_tx_packet, AtChunk, fifoVars, prodVars
<1>5. TypeOK /\ FifoInv /\ fifo # <<>>
  BY <1>1 DEF TypeInv, StreamInv, AtChunk
<1> HIDE DEF a
<1>6. UNCHANGED <<tx_packets, tx_packet_count>>
  <2>1. tx_packet_count' = tx_packet_count
    BY <1>3, <1>4, <1>5, PacketCountAssumption DEF TypeOK
  <2>2. tx_packets' = tx_packets
    BY <1>3, <1>4, <1>5 DEF TypeOK
  <2> QED BY <2>1, <2>2
<1>7. FifoInv' /\ OpenAt(1)' = OpenAt(1) /\ outstanding' = outstanding
  <2>1. CASE UNCHANGED <<fifo, outstanding>>
    <3>1. \A k : OpenAt(k)' = OpenAt(k)
      BY <1>4, <2>1 DEF OpenAt
    <3>2. FifoInv'
      BY <1>4, <1>5, <2>1, <3>1
         DEF FifoInv, SysexChain, DataInSysex, SizesUsable, PlainChunks
    <3> QED BY <2>1, <3>1, <3>2
  <2>2. CASE a.rc \notin {"SUCCESS", "PACKET_FULL"} /\ ConsumeChunk
    <3>1. ~Valid(c) /\ OpenAfter(c) = c.open
      BY <1>3, <2>2 DEF Refused
    <3>2. fifo' = Tail(fifo) /\ outstanding' = outstanding
      BY <1>5, <2>2, <3>1, ConsumedBytes
    <3>3. FifoInv' /\ OpenAt(1)' = OpenAfter(c)
      BY <1>4, <1>5, <3>2, FifoTaken
    <3> QED BY <1>2, <3>1, <3>2, <3>3
  <2> QED BY <1>4, <2>1, <2>2
<1>8. PacketsFollow' /\ LimitsUsable'
  <2>1. LimitsRead
    BY <1>1, Add3Context
  <2> QED BY <1>6, <1>7, <2>1 DEF StreamInv, PacketsFollow, LimitsUsable, LimitsRead
<1>9. \A k : Pos(k)' = Pos(k)
  BY <1>4 DEF Pos
<1>10. FreeEmpty' /\ UsedFilled'
  BY <1>4, <1>6, <1>9 DEF StreamInv, FreeEmpty, UsedFilled
<1>11. PlainReader' /\ OnePass'
  BY <1>4 DEF StreamInv, PlainReader, OnePass, chunkVars
<1>12. StreamOK'
  <2>1. HeldInOrder' = HeldInOrder
    BY <1>4, <1>6, HeldKept
  <2>2. RestOfChunk' = RestOfChunk
    BY <1>4 DEF RestOfChunk, chunkVars
  <2> QED BY <1>7, <2>1, <2>2 DEF StreamInv, StreamOK
<1> QED BY <1>7, <1>8, <1>10, <1>11, <1>12, SMTT(30) DEF StreamInv

(* The chunk is added, to the last packet or to one more.                  *)
LEMMA StreamAdd3Succeeds ==
    ASSUME IntendedUse, TypeInv, StreamInv, NEW t \in Timestamps,
           add_3_byte_chunk_to_tx_packet(t),
           Attempt(Head(fifo).head, t).rc = "SUCCESS"
    PROVE  StreamInv'
<1> DEFINE c == fifo[1]
           h == c.head
           a == Attempt(h, t)
           N == TX_QUEUE_PACKET_COUNT
           n == tx_packet_count
<1>1. AtChunk /\ Head(fifo).head[1] >= 128 /\ num_remaining_data_bytes = 0
      /\ reader = "loop" /\ fifo # <<>>
  BY DEF add_3_byte_chunk_to_tx_packet, AtChunk
<1>2. /\ Head(fifo) = c /\ c \in Chunk /\ OpenAt(1) = c.open
      /\ h \in Seq(Byte) /\ Payload(c) = h /\ LimitsRead /\ RestOfChunk = <<>>
      /\ N # 1 => OpenAfter(c) = c.open
  BY <1>1, Add3Context
<1>3. /\ a.rc = "SUCCESS" /\ a.packet \in PacketIdx
      /\ WriterStep(tx_packets[a.packet], a.w)
      /\ Refused(a) <=> ~Valid(c)
      /\ a.w.tx_buf # <<>> /\ a.w.in_sysex_msg = OpenAfter(c)
      /\ \/ a.grow = 0 /\ a.packet = tx_queue_last_tx_packet
         \/ a.grow = 1 /\ a.packet = NextPacket /\ n < N /\ has_tx_data = TRUE
  BY <1>1, <1>2, AttemptOutcome
<1>4. /\ tx_packets' = [tx_packets EXCEPT ![a.packet] = a.w]
      /\ tx_packet_count' = n + a.grow /\ has_tx_data' = TRUE
      /\ held' = [held EXCEPT ![a.packet] = @ \o h] /\ ConsumeChunk
      /\ UNCHANGED <<first_tx_packet_idx, reader>>
      /\ UNCHANGED <<open, chunkVars, sysex_chunk_scratch_buf, num_bytes_added>>
  BY <1>2, <1>3 DEF add_3_byte_chunk_to_tx_packet, prodVars
<1>5. TypeOK /\ FifoInv /\ TypeOK'
  BY TypeAdd3 DEF TypeInv, StreamInv
<1>6. Valid(c)
  BY <1>3 DEF Refused
<1>7. fifo' = Tail(fifo) /\ outstanding' = outstanding \o h
  BY <1>1, <1>2, <1>4, <1>6, ConsumedBytes
<1>8. FifoInv' /\ OpenAt(1)' = OpenAfter(c)
  BY <1>1, <1>4, <1>5, <1>7, FifoTaken
<1> HIDE DEF a
<1>9. /\ N \in Nat /\ n \in 1 .. N /\ n \in Nat
      /\ tx_packets \in [PacketIdx -> Writer] /\ held \in [PacketIdx -> Seq(Byte)]
  <2>1. tx_packet_count \in 1 .. TX_QUEUE_PACKET_COUNT
    BY <1>5 DEF TypeOK
  <2>2. tx_packets \in [PacketIdx -> Writer] /\ held \in [PacketIdx -> Seq(Byte)]
    BY <1>5 DEF TypeOK
  <2>3. TX_QUEUE_PACKET_COUNT \in Nat /\ tx_packet_count \in Nat
    BY <2>1, PacketCountAssumption
  <2> QED BY <2>1, <2>2, <2>3
<1>10. /\ \A k \in 0 .. N - 1 : Pos(k) \in PacketIdx
       /\ \A j, k \in 0 .. N - 1 : Pos(j) = Pos(k) => j = k
       /\ tx_queue_last_tx_packet = Pos(n - 1) /\ NextPacket = Pos(n)
  BY <1>5, Positions
<1>11. \A i \in PacketIdx :
          /\ i = a.packet => tx_packets'[i] = a.w
          /\ i # a.packet => tx_packets'[i] = tx_packets[i] /\ held'[i] = held[i]
  BY <1>3, <1>4, <1>9
<1>12. PacketsFollow'
  <2>1. SUFFICES ASSUME NEW i \in PacketIdx
                 PROVE  tx_packets'[i].in_sysex_msg = OpenAfter(c)
    BY <1>8 DEF PacketsFollow
  <2>2. CASE i = a.packet
    BY <1>3, <1>11, <2>2
  <2>3. CASE i # a.packet
    <3>1. N # 1
      BY <1>3, <2>3 DEF PacketIdx
    <3>2. tx_packets[i].in_sysex_msg = c.open
      BY <1>2 DEF StreamInv, PacketsFollow
    <3> QED BY <1>2, <1>11, <2>3, <3>1, <3>2
  <2> QED BY <2>2, <2>3
<1>13. LimitsUsable'
  <2>1. \A i \in PacketIdx : tx_packets'[i].tx_buf_max_size = tx_packets[i].tx_buf_max_size
    BY <1>3, <1>11 DEF WriterStep
  <2> QED BY <1>2, <2>1 DEF LimitsUsable, LimitsRead
<1>14. \A k : Pos(k)' = Pos(k)
  BY <1>4 DEF Pos
<1>15. PlainReader' /\ OnePass'
  BY <1>1, <1>4 DEF StreamInv, PlainReader, OnePass, chunkVars
<1>16. HeldInOrder' = HeldInOrder \o h => StreamOK'
  <2>1. RestOfChunk' = <<>>
    BY <1>2, <1>4 DEF RestOfChunk, chunkVars
  <2>2. HeldInOrder \in Seq(Byte) /\ HeldInOrder' \in Seq(Byte)
    BY <1>5, HeldIsFlat, HeldIsFlatNext
  <2>3. HeldInOrder \o <<>> = HeldInOrder /\ HeldInOrder' \o <<>> = HeldInOrder'
    BY <2>2, ConcatEmptySeq
  <2>4. outstanding = HeldInOrder
    BY <1>2, <2>3 DEF StreamInv, StreamOK
  <2> QED BY <1>7, <2>1, <2>3, <2>4 DEF StreamOK
<1>17. CASE a.grow = 0 /\ a.packet = tx_queue_last_tx_packet
  <2>1. tx_packet_count' = n /\ a.packet = Pos(n - 1)
    BY <1>4, <1>9, <1>10, <1>17
  <2>2. HeldInOrder' = HeldInOrder \o h
    BY <1>2, <1>4, <1>5, <1>17, <2>1, LastPacketGrows
  <2>3. FreeEmpty'
    <3>1. SUFFICES ASSUME NEW k \in n .. N - 1 PROVE held'[Pos(k)] = <<>>
      BY <1>14, <2>1 DEF FreeEmpty
    <3>2. k \in 0 .. N - 1 /\ n - 1 \in 0 .. N - 1 /\ k # n - 1
      BY <1>9
    <3>3. Pos(k) \in PacketIdx /\ Pos(k) # a.packet
      BY <1>10, <2>1, <3>2
    <3>4. held[Pos(k)] = <<>>
      BY DEF StreamInv, FreeEmpty
    <3> QED BY <1>11, <3>3, <3>4
  <2>4. UsedFilled'
    <3>1. SUFFICES ASSUME NEW k \in 0 .. n - 1 PROVE tx_packets'[Pos(k)].tx_buf # <<>>
      BY <1>4, <1>14, <2>1 DEF UsedFilled
    <3>2. k \in 0 .. N - 1 /\ (n = 1 => k = n - 1)
      BY <1>9
    <3>3. CASE Pos(k) = a.packet
      BY <1>3, <1>11, <3>3
    <3>4. CASE Pos(k) # a.packet
      <4>1. tx_packets'[Pos(k)] = tx_packets[Pos(k)]
        BY <1>10, <1>11, <3>2, <3>4
      <4>2. n # 1
        BY <2>1, <3>2, <3>4
      <4>3. tx_packets[Pos(k)].tx_buf # <<>>
        BY <4>2 DEF StreamInv, UsedFilled
      <4> QED BY <4>1, <4>3
    <3> QED BY <3>3, <3>4
  <2> QED BY <1>8, <1>12, <1>13, <1>15, <1>16, <2>2, <2>3, <2>4 DEF StreamInv
<1>18. CASE a.grow = 1 /\ a.packet = NextPacket /\ n < N /\ has_tx_data = TRUE
  <2>1. tx_packet_count' = n + 1 /\ a.packet = Pos(n) /\ n \in 0 .. N - 1 /\ n \in n .. N - 1
    BY <1>4, <1>9, <1>10, <1>18
  <2>2. HeldInOrder' = HeldInOrder \o h
    <3>1. held[NextPacket] = <<>>
      BY <1>10, <2>1 DEF StreamInv, FreeEmpty
    <3> QED BY <1>2, <1>4, <1>5, <1>18, <2>1, <3>1, PacketAdded
  <2>3. FreeEmpty'
    <3>1. SUFFICES ASSUME NEW k \in n + 1 .. N - 1 PROVE held'[Pos(k)] = <<>>
      BY <1>14, <2>1 DEF FreeEmpty
    <3>2. k \in 0 .. N - 1 /\ k # n /\ k \in n .. N - 1
      BY <1>9
    <3>3. Pos(k) \in PacketIdx /\ Pos(k) # a.packet
      BY <1>10, <2>1, <3>2
    <3>4. held[Pos(k)] = <<>>
      BY <3>2 DEF StreamInv, FreeEmpty
    <3> QED BY <1>11, <3>3, <3>4
  <2>4. UsedFilled'
    <3>1. SUFFICES ASSUME NEW k \in 0 .. n PROVE tx_packets'[Pos(k)].tx_buf # <<>>
      <4>1. (n + 1) - 1 = n
        BY <1>9
      <4> QED BY <1>4, <1>14, <2>1, <4>1 DEF UsedFilled
    <3>2. k \in 0 .. N - 1 /\ (k # n => k \in 0 .. n - 1)
      BY <1>9, <1>18
    <3>3. CASE k = n
      BY <1>3, <1>11, <2>1, <3>3
    <3>4. CASE k # n
      <4>1. Pos(k) # a.packet /\ Pos(k) \in PacketIdx
        BY <1>10, <2>1, <3>2, <3>4
      <4>2. tx_packets[Pos(k)].tx_buf # <<>>
        BY <1>18, <3>2, <3>4 DEF StreamInv, UsedFilled
      <4> QED BY <1>11, <4>1, <4>2
    <3> QED BY <3>3, <3>4
  <2> QED BY <1>8, <1>12, <1>13, <1>15, <1>16, <2>2, <2>3, <2>4 DEF StreamInv
<1> QED BY <1>3, <1>17, <1>18

(* add_3_byte_chunk_to_tx_packet                                           *)
LEMMA StreamAdd3 ==
    ASSUME IntendedUse, TypeInv, StreamInv, NEW t \in Timestamps,
           add_3_byte_chunk_to_tx_packet(t)
    PROVE  StreamInv'
  BY StreamAdd3Fails, StreamAdd3Succeeds

-----------------------------------------------------------------------------
(* Sysex data is added to the packet.                                      *)

(* The bytes at off + 1 .. off + len are the first n of them and the rest. *)
LEMMA SplitPart ==
    ASSUME NEW s \in Seq(Byte), NEW off \in Nat, NEW len \in Nat, NEW n \in 0 .. len,
           off + len <= Len(s)
    PROVE  /\ SubSeq(SubSeq(s, off + 1, off + len), 1, n) \in Seq(Byte)
           /\ SubSeq(s, off + n + 1, off + len) \in Seq(Byte)
           /\ SubSeq(SubSeq(s, off + 1, off + len), 1, n)
                  \o SubSeq(s, off + n + 1, off + len) = SubSeq(s, off + 1, off + len)
<1> DEFINE d == SubSeq(s, off + 1, off + len)
           a == SubSeq(d, 1, n)
           b == SubSeq(s, off + n + 1, off + len)
           e == a \o b
<1>1. /\ d \in Seq(Byte) /\ Len(d) = len
      /\ \A i \in 1 .. len : d[i] = s[off + i]
  <2>1. /\ off + 1 \in Int /\ off + len \in Int /\ 1 <= off + 1
        /\ off + 1 <= (off + len) + 1 /\ (off + len) - (off + 1) + 1 = len
    OBVIOUS
  <2>2. /\ d \in Seq(Byte) /\ Len(d) = (off + len) - (off + 1) + 1
        /\ \A i \in 1 .. (off + len) - (off + 1) + 1 : d[i] = s[(off + 1) + i - 1]
    BY <2>1, SubSeqOfBytes
  <2> HIDE DEF d
  <2>3. \A i \in 1 .. len : (off + 1) + i - 1 = off + i
    OBVIOUS
  <2> QED BY <2>1, <2>2, <2>3
<1>2. /\ b \in Seq(Byte) /\ Len(b) = len - n
      /\ \A i \in 1 .. len - n : b[i] = s[off + n + i]
  <2>1. /\ off + n + 1 \in Int /\ off + len \in Int /\ 1 <= off + n + 1
        /\ off + n + 1 <= (off + len) + 1 /\ (off + len) - (off + n + 1) + 1 = len - n
    OBVIOUS
  <2>2. /\ b \in Seq(Byte) /\ Len(b) = (off + len) - (off + n + 1) + 1
        /\ \A i \in 1 .. (off + len) - (off + n + 1) + 1 : b[i] = s[(off + n + 1) + i - 1]
    BY <2>1, SubSeqOfBytes
  <2> HIDE DEF b
  <2>3. \A i \in 1 .. len - n : (off + n + 1) + i - 1 = off + n + i
    OBVIOUS
  <2> QED BY <2>1, <2>2, <2>3
<1> HIDE DEF b, d
<1>3. a \in Seq(Byte) /\ Len(a) = n /\ \A i \in 1 .. n : a[i] = d[i]
  <2>1. 1 \in Int /\ n \in Int /\ 1 <= n + 1 /\ n <= Len(d) /\ n - 1 + 1 = n
    BY <1>1
  <2>2. /\ a \in Seq(Byte) /\ Len(a) = n - 1 + 1
        /\ \A i \in 1 .. n - 1 + 1 : a[i] = d[1 + i - 1]
    BY <1>1, <2>1, SubSeqOfBytes
  <2> HIDE DEF a
  <2>3. \A i \in 1 .. n : 1 + i - 1 = i
    OBVIOUS
  <2> QED BY <2>1, <2>2, <2>3
<1> HIDE DEF a
<1>4. /\ e \in Seq(Byte) /\ Len(e) = len
      /\ \A i \in 1 .. len : e[i] = IF i <= n THEN a[i] ELSE b[i - n]
  <2>1. /\ e \in Seq(Byte) /\ Len(e) = Len(a) + Len(b)
        /\ \A i \in 1 .. Len(a) + Len(b) : e[i] = IF i <= Len(a) THEN a[i] ELSE b[i - Len(a)]
    <3>1. a \in Seq(Byte) /\ b \in Seq(Byte)
      BY <1>2, <1>3
    <3> QED BY <3>1, ConcatProperties
  <2>2. Len(a) = n /\ Len(b) = len - n /\ n + (len - n) = len
    BY <1>2, <1>3
  <2> HIDE DEF e
  <2> QED BY <2>1, <2>2
<1> HIDE DEF e
<1>5. \A i \in 1 .. len : e[i] = d[i]
  <2>1. SUFFICES ASSUME NEW i \in 1 .. len PROVE e[i] = d[i]
    OBVIOUS
  <2>2. CASE i <= n
    BY <1>3, <1>4, <2>2
  <2>3. CASE ~(i <= n)
    <3>1. i - n \in 1 .. len - n /\ off + n + (i - n) = off + i
      BY <2>3
    <3> QED BY <1>1, <1>2, <1>4, <2>3, <3>1
  <2> QED BY <2>2, <2>3
<1>6. e = d
  BY <1>1, <1>4, <1>5, SeqEqual
<1> QED BY <1>2, <1>3, <1>6 DEF a, b, d, e

(* The queue when the writer is given data: there is a single packet, and  *)
(* the bytes to add are those of the first chunk of the FIFO or the ones   *)
(* that remain of the chunk before.                                        *)
LEMMA DataContext ==
    ASSUME IntendedUse, TypeInv, StreamInv, reader \in {"chunk", "rest"}
    PROVE  /\ TX_QUEUE_PACKET_COUNT = 1 /\ PacketIdx = {0}
           /\ tx_packet_count = 1 /\ first_tx_packet_idx = 0
           /\ tx_queue_last_tx_packet = 0 /\ NoFreePacket /\ Pos(0) = 0
           /\ LimitsRead /\ num_bytes_added = 0
           /\ HeldInOrder = held[0] /\ UsesSysex
           /\ DataToAdd # <<>>
           /\ DataToAdd = SubSeq(sysex_chunk_scratch_buf, DataOffset + 1,
                                 DataOffset + ByteCount)
           /\ reader = "rest" =>
                 /\ DataToAdd = RestOfChunk
                 /\ num_remaining_data_bytes > 0
           /\ reader = "chunk" =>
                 /\ DataToAdd = fifo[1].data /\ RestOfChunk = <<>>
                 /\ DataOffset = 3
                 /\ fifo[1].open = TRUE /\ OpenAt(1) = fifo[1].open
                 /\ OpenAfter(fifo[1]) = fifo[1].open
                 /\ Payload(fifo[1]) = fifo[1].data
                 /\ Valid(fifo[1]) <=> AllDataBytes(fifo[1].data)
<1>1. TypeOK /\ num_bytes_added = 0 /\ UsesSysex /\ LimitsRead
  BY DEF TypeInv, StreamInv, OnePass, PlainReader, LimitsUsable
<1>2. TX_QUEUE_PACKET_COUNT = 1
  BY <1>1 DEF IntendedUse
<1>3. PacketIdx = {0} /\ tx_packet_count = 1 /\ first_tx_packet_idx = 0
  BY <1>1, <1>2 DEF TypeOK, PacketIdx
<1>4. tx_queue_last_tx_packet = 0 /\ NoFreePacket /\ HeldInOrder = held[0]
  <2>1. tx_queue_last_tx_packet \in PacketIdx
    BY <1>1, RingIndices
  <2> QED BY <1>2, <1>3, <2>1 DEF NoFreePacket, HeldInOrder
<1>5. Pos(0) = 0
  BY <1>1, <1>3, Positions
<1>6. /\ ByteCount \in Nat /\ num_bytes_added < ByteCount /\ DataOffset \in Nat
      /\ DataOffset + ByteCount <= Len(sysex_chunk_scratch_buf)
      /\ DataToAdd \in Seq(Byte) /\ Len(DataToAdd) = ByteCount - num_bytes_added
  BY DataToAddType
<1>7. DataToAdd # <<>>
  <2>1. Len(DataToAdd) > 0
    BY <1>1, <1>6
  <2> QED BY <2>1
<1>8. DataToAdd = SubSeq(sysex_chunk_scratch_buf, DataOffset + 1, DataOffset + ByteCount)
  <2>1. DataOffset + num_bytes_added + 1 = DataOffset + 1
    BY <1>1, <1>6
  <2> QED BY <2>1 DEF DataToAdd
<1>9. CASE reader = "rest"
  <2>1. /\ DataOffset = curr_sysex_data_chunk_size - num_remaining_data_bytes
        /\ ByteCount = num_remaining_data_bytes
    BY <1>9 DEF DataOffset, ByteCount
  <2>2. curr_sysex_data_chunk_size \in Nat /\ num_remaining_data_bytes \in Nat
    BY <1>1 DEF TypeOK
  <2>3. DataOffset + ByteCount = curr_sysex_data_chunk_size
    BY <2>1, <2>2
  <2>4. DataToAdd = RestOfChunk
    BY <1>8, <2>1, <2>3 DEF RestOfChunk
  <2>5. num_remaining_data_bytes > 0
    BY <1>1, <1>6, <2>1
  <2> QED BY <1>1, <1>2, <1>3, <1>4, <1>5, <1>7, <1>8, <1>9, <2>4, <2>5
<1>10. CASE reader = "chunk"
  <2> DEFINE c == fifo[1]
             s == sysex_chunk_scratch_buf
  <2>1. /\ fifo # <<>> /\ c \in Chunk /\ IsData(c) /\ num_remaining_data_bytes = 0
        /\ s = c.head \o c.data
    BY <1>10, ChunkBeingRead DEF TypeInv, ChunkReadOK
  <2>2. 1 \in 1 .. Len(fifo)
    BY <1>1, <2>1 DEF TypeOK
  <2>3. c.open = TRUE /\ OpenAt(1) = c.open
    <3>1. c.open
      BY <2>1, <2>2 DEF StreamInv, FifoInv, DataInSysex
    <3>2. c.open \in BOOLEAN
      BY <2>1 DEF Chunk
    <3> QED BY <2>2, <3>1, <3>2 DEF OpenAt
  <2>4. DataOffset = 3 /\ ByteCount = Len(s) - 3
    BY <1>10 DEF DataOffset, ByteCount, SYSEX_DATA_CHUNK_HEADER_SIZE
  <2>5. c.head \in Seq(Byte) /\ Len(c.head) = 3 /\ c.data \in Seq(Byte)
    <3>1. c.head \in ThreeBytes /\ c.data \in Seq(Byte)
      BY <2>1 DEF Chunk, ThreeBytes
    <3> QED BY <3>1, ThreeBytesAreSequences
  <2>6. DataToAdd = c.data
    <3>1. s \in Seq(Byte) /\ Len(s) \in Nat
      BY <1>1 DEF TypeOK
    <3>2. DataOffset + 1 = Len(c.head) + 1 /\ DataOffset + ByteCount = Len(s)
      BY <2>4, <2>5, <3>1
    <3>3. DataToAdd = SubSeq(s, Len(c.head) + 1, Len(s))
      BY <1>8, <3>2
    <3> DEFINE x == c.head
               y == c.data
    <3>4. x \in Seq(Byte) /\ y \in Seq(Byte) /\ s = x \o y
      BY <2>1, <2>5
    <3> HIDE DEF x, y, s
    <3>5. SubSeq(s, Len(x) + 1, Len(s)) = y
      BY <3>4, DropFirst
    <3> QED BY <3>3, <3>5 DEF x, y
  <2>7. c.head[1] = SYSEX_DATA_CHUNK_ID
    BY <2>1 DEF IsData
  <2>8. /\ SYSEX_DATA_CHUNK_ID # SYSEX_START /\ SYSEX_DATA_CHUNK_ID # SYSEX_END
        /\ SYSEX_DATA_CHUNK_ID # TX_MAX_PACKET_SIZE_CHUNK_ID
    BY DEF SYSEX_START, SYSEX_END, SYSEX_DATA_CHUNK_ID, TX_MAX_PACKET_SIZE_CHUNK_ID
  <2> HIDE DEF c
  <2>9. OpenAfter(c) = c.open
    BY <2>7, <2>8 DEF OpenAfter
  <2>10. Payload(c) = c.data
    BY <2>7 DEF Payload
  <2>11. Valid(c) <=> AllDataBytes(c.data)
    BY <2>3, <2>7, <2>8 DEF Valid
  <2>12. RestOfChunk = <<>>
    BY <1>1, <2>1, NothingRemains
  <2> QED BY <1>1, <1>2, <1>3, <1>4, <1>5, <1>7, <1>8, <1>10,
             <2>3, <2>4, <2>6, <2>9, <2>10, <2>11, <2>12 DEF c
<1> QED BY <1>9, <1>10

(* The writer rejects the bytes.                                           *)
LEMMA StreamReject ==
    ASSUME IntendedUse, TypeInv, StreamInv, NEW t \in Timestamps, RejectDataBytes(t)
    PROVE  StreamInv'
<1> DEFINE w == tx_packets[0]
           r == ble_midi_writer_add_sysex_data(w, DataToAdd, t)
<1>1. /\ reader \in {"chunk", "rest"} /\ SkipInvalid /\ reader' = "loop"
      /\ UNCHANGED <<open, packetVars, chunkVars, sysex_chunk_scratch_buf, num_bytes_added>>
  BY DEF RejectDataBytes, prodVars
<1>2. /\ PacketIdx = {0} /\ tx_queue_last_tx_packet = 0 /\ LimitsRead
      /\ reader = "chunk" =>
            /\ DataToAdd = fifo[1].data /\ OpenAt(1) = fifo[1].open
            /\ fifo[1].open = TRUE /\ OpenAfter(fifo[1]) = fifo[1].open
            /\ Valid(fifo[1]) <=> AllDataBytes(fifo[1].data)
  BY <1>1, DataContext
<1>3. TypeOK /\ FifoInv /\ UsesSysex
  BY <1>1, DataContext DEF TypeInv, StreamInv
<1>4. FifoInv' /\ OpenAt(1)' = OpenAt(1) /\ outstanding' = outstanding
  <2>1. CASE reader = "rest"
    <3>1. UNCHANGED <<fifo, outstanding>>
      BY <1>1, <2>1 DEF SkipInvalid, fifoVars
    <3>2. \A k : OpenAt(k)' = OpenAt(k)
      BY <1>1, <3>1 DEF OpenAt
    <3>3. FifoInv'
      BY <1>1, <1>3, <3>1, <3>2
         DEF FifoInv, SysexChain, DataInSysex, SizesUsable, PlainChunks
    <3> QED BY <3>1, <3>2, <3>3
  <2>2. CASE reader = "chunk"
    <3>1. ConsumeChunk /\ fifo # <<>>
      BY <1>1, <2>2, ChunkBeingRead DEF SkipInvalid
    <3>2. r.rc # "SUCCESS"
      BY <1>2 DEF RejectDataBytes
    <3>3. w.in_sysex_msg /\ w.tx_buf_max_size > 0
      <4>1. w.tx_buf_max_size >= 5 /\ w.in_sysex_msg = TRUE
        BY <1>2, <2>2 DEF LimitsRead, StreamInv, PacketsFollow
      <4>2. w.tx_buf_max_size \in Nat
        BY <1>2, FitTypes
      <4> QED BY <4>1, <4>2
    <3>4. ~AllDataBytes(DataToAdd)
      BY <1>1, <1>2, <3>2, <3>3, AddDataFacts
    <3>5. ~Valid(fifo[1])
      BY <1>2, <2>2, <3>4
    <3>6. fifo' = Tail(fifo) /\ outstanding' = outstanding
      BY <3>1, <3>5, ConsumedBytes
    <3>7. FifoInv' /\ OpenAt(1)' = OpenAfter(fifo[1])
      BY <1>1, <1>3, <3>1, <3>6, FifoTaken
    <3> QED BY <1>2, <2>2, <3>6, <3>7
  <2> QED BY <1>1, <2>1, <2>2
<1>5. PacketsFollow' /\ LimitsUsable'
  BY <1>1, <1>2, <1>4
     DEF StreamInv, PacketsFollow, LimitsUsable, LimitsRead, packetVars
<1>6. \A k : Pos(k)' = Pos(k)
  BY <1>1 DEF Pos, packetVars
<1>7. FreeEmpty' /\ UsedFilled'
  BY <1>1, <1>6 DEF StreamInv, FreeEmpty, UsedFilled, packetVars
<1>8. PlainReader' /\ OnePass'
  BY <1>1, <1>3 DEF PlainReader, OnePass
<1>9. StreamOK'
  <2>1. HeldInOrder' = HeldInOrder
    BY <1>1, HeldKept DEF packetVars
  <2>2. RestOfChunk' = RestOfChunk
    BY <1>1 DEF RestOfChunk, chunkVars
  <2> QED BY <1>4, <2>1, <2>2 DEF StreamInv, StreamOK
<1> QED BY <1>4, <1>5, <1>7, <1>8, <1>9 DEF StreamInv

(* The packet takes some of the bytes, or all, or none.                    *)
LEMMA StreamAddData ==
    ASSUME IntendedUse, TypeInv, StreamInv, NEW t \in Timestamps, AddDataBytes(t)
    PROVE  StreamInv'
<1> DEFINE w == tx_packets[0]
           d == DataToAdd
           r == ble_midi_writer_add_sysex_data(w, d, t)
           s == sysex_chunk_scratch_buf
           part == SubSeq(d, 1, r.n)
<1>1. reader \in {"chunk", "rest"}
  BY DEF AddDataBytes
<1>2. /\ TX_QUEUE_PACKET_COUNT = 1 /\ PacketIdx = {0}
      /\ tx_packet_count = 1 /\ first_tx_packet_idx = 0
      /\ tx_queue_last_tx_packet = 0 /\ NoFreePacket /\ Pos(0) = 0
      /\ LimitsRead /\ num_bytes_added = 0 /\ HeldInOrder = held[0] /\ UsesSysex
      /\ d # <<>> /\ d = SubSeq(s, DataOffset + 1, DataOffset + ByteCount)
      /\ reader = "rest" => d = RestOfChunk /\ num_remaining_data_bytes > 0
      /\ reader = "chunk" =>
            /\ d = fifo[1].data /\ RestOfChunk = <<>> /\ DataOffset = 3
            /\ OpenAt(1) = fifo[1].open /\ OpenAfter(fifo[1]) = fifo[1].open
            /\ Payload(fifo[1]) = fifo[1].data
            /\ Valid(fifo[1]) <=> AllDataBytes(fifo[1].data)
  BY <1>1, DataContext
<1>3. /\ ByteCount \in Nat /\ DataOffset \in Nat /\ d \in Seq(Byte)
      /\ DataOffset + ByteCount <= Len(s)
  BY <1>1, DataToAddType
<1>4. /\ w \in Writer /\ WriterStep(w, r.w) /\ r.n \in 0 .. ByteCount - num_bytes_added
      /\ r.w.in_sysex_msg = w.in_sysex_msg
      /\ r.rc = "SUCCESS" => AllDataBytes(d)
  BY <1>1, <1>2, AddDataFacts
<1>5. r.n \in 0 .. ByteCount /\ r.n \in Nat /\ num_bytes_added + r.n = r.n
  <2> DEFINE m == r.n
             b == ByteCount
             k == num_bytes_added
  <2>1. m \in 0 .. b - k /\ b \in Nat /\ k = 0
    BY <1>2, <1>3, <1>4
  <2> HIDE DEF m, b, k
  <2>2. m \in 0 .. b /\ m \in Nat /\ k + m = m
    BY <2>1
  <2> QED BY <2>2 DEF m, b, k
<1>6. /\ r.rc = "SUCCESS" /\ held' = [held EXCEPT ![0] = @ \o part]
      /\ tx_packets' = [tx_packets EXCEPT ![0] = r.w]
      /\ has_tx_data' = (has_tx_data \/ r.n > 0)
      /\ DataReturns(r.n)
      /\ tx_packet_count' = 1 /\ first_tx_packet_idx' = 0
      /\ UNCHANGED <<open, sysex_chunk_scratch_buf>>
  BY <1>2, <1>5 DEF AddDataBytes, prodVars
<1>7. TypeOK /\ TypeOK' /\ FifoInv
  BY TypeAddDataBytes DEF TypeInv, StreamInv
<1>8. t \in Timestamp /\ w.tx_buf_max_size >= 5
  BY <1>2, TimestampsAssumption DEF LimitsRead
<1>9. r.w.tx_buf # <<>> /\ (w.tx_buf = <<>> => r.n > 0)
  BY <1>2, <1>3, <1>4, <1>6, <1>8, AddSysexDataFills
<1>10. /\ tx_packets'[0] = r.w /\ held'[0] = held[0] \o part
  BY <1>2, <1>6, <1>7 DEF TypeOK
<1>11. HeldInOrder' = held[0] \o part
  BY <1>6, <1>10 DEF HeldInOrder
<1>12. LimitsUsable'
  <2>1. r.w.tx_buf_max_size = w.tx_buf_max_size
    BY <1>4 DEF WriterStep
  <2> QED BY <1>2, <1>8, <1>10, <2>1 DEF LimitsUsable, LimitsRead
<1>13. Pos(0)' = 0 /\ FreeEmpty'
  <2>1. Pos(0)' = 0
    BY <1>2, <1>6 DEF Pos
  <2>2. FreeEmpty'
    BY <1>2, <1>6 DEF FreeEmpty
  <2> QED BY <2>1, <2>2
<1>14. UsedFilled'
  <2>1. CASE has_tx_data'
    <3>1. \A k \in 0 .. tx_packet_count' - 1 : k = 0
      BY <1>6
    <3> QED BY <1>9, <1>10, <1>13, <2>1, <3>1 DEF UsedFilled
  <2>2. CASE ~has_tx_data'
    <3>1. ~has_tx_data /\ ~(r.n > 0)
      BY <1>6, <2>2
    <3>2. w.tx_buf = <<>>
      BY <1>2, <3>1 DEF StreamInv, UsedFilled
    <3> QED BY <1>9, <3>1, <3>2
  <2> QED BY <2>1, <2>2
<1>15. reader' \in {"idle", "loop"}
  BY <1>6 DEF DataReturns
<1>16. PlainReader' /\ OnePass'
  BY <1>2, <1>15 DEF PlainReader, OnePass
<1>17. held[0] \in Seq(Byte) /\ outstanding = held[0] \o RestOfChunk
  BY <1>2, <1>7 DEF StreamInv, StreamOK, TypeOK
<1>18. w.in_sysex_msg = OpenAt(1)
  BY <1>2 DEF StreamInv, PacketsFollow
<1>19. OpenAt(1)' = OpenAt(1) => PacketsFollow'
  BY <1>2, <1>4, <1>10, <1>18 DEF PacketsFollow
<1> DEFINE old == held[0]
           rest == SubSeq(s, DataOffset + r.n + 1, DataOffset + ByteCount)
           len == ByteCount
           off == DataOffset
           n == r.n
           out == outstanding
<1>20. part \in Seq(Byte) /\ rest \in Seq(Byte) /\ part \o rest = d
  <2>1. /\ s \in Seq(Byte) /\ off \in Nat /\ len \in Nat /\ n \in 0 .. len
        /\ off + len <= Len(s) /\ d = SubSeq(s, off + 1, off + len)
    BY <1>2, <1>3, <1>5, <1>7 DEF TypeOK
  <2>2. /\ part = SubSeq(d, 1, n)
        /\ rest = SubSeq(s, off + n + 1, off + len)
    OBVIOUS
  <2> HIDE DEF s, off, len, n, d, part, rest
  <2> QED BY <2>1, <2>2, SplitPart
<1>21. CASE r.n = 0
  <2>1. UNCHANGED <<fifo, outstanding, chunkVars>>
    BY <1>6, <1>21 DEF DataReturns, fifoVars
  <2>2. \A k : OpenAt(k)' = OpenAt(k)
    BY <1>6, <2>1 DEF OpenAt
  <2>3. FifoInv'
    BY <1>6, <1>7, <2>1, <2>2
       DEF FifoInv, SysexChain, DataInSysex, SizesUsable, PlainChunks
  <2>4. RestOfChunk' = RestOfChunk
    BY <1>6, <2>1 DEF RestOfChunk, chunkVars
  <2>5. part = <<>>
    <3>1. SubSeq(d, 0 + 1, 0) = <<>>
      BY <1>3, EmptyPart
    <3> QED BY <1>21, <3>1
  <2>6. HeldInOrder' = old
    BY <1>11, <1>17, <2>5, ConcatEmptySeq
  <2>7. StreamOK'
    BY <1>17, <2>1, <2>4, <2>6 DEF StreamOK
  <2> QED BY <1>12, <1>13, <1>14, <1>16, <1>19, <2>2, <2>3, <2>7 DEF StreamInv
<1>22. CASE r.n # 0 /\ reader = "rest"
  <2>1. /\ num_remaining_data_bytes' = num_remaining_data_bytes - r.n
        /\ UNCHANGED <<fifo, outstanding, curr_sysex_data_chunk_size>>
    BY <1>6, <1>22 DEF DataReturns, fifoVars
  <2>2. \A k : OpenAt(k)' = OpenAt(k)
    BY <1>6, <2>1 DEF OpenAt
  <2>3. FifoInv'
    BY <1>6, <1>7, <2>1, <2>2
       DEF FifoInv, SysexChain, DataInSysex, SizesUsable, PlainChunks
  <2>4. RestOfChunk' = rest
    <3> DEFINE x == curr_sysex_data_chunk_size
               y == num_remaining_data_bytes
    <3>1. off = x - y /\ len = y /\ x \in Nat /\ y \in Nat
      BY <1>7, <1>22 DEF DataOffset, ByteCount, TypeOK
    <3>2. RestOfChunk' = SubSeq(s, x - (y - n) + 1, x)
      BY <1>6, <2>1 DEF RestOfChunk
    <3>3. rest = SubSeq(s, off + n + 1, off + len)
      OBVIOUS
    <3>4. n \in Nat
      BY <1>5
    <3> HIDE DEF off, len, n, x, y, rest, s
    <3>5. x - (y - n) + 1 = off + n + 1 /\ x = off + len
      BY <3>1, <3>4
    <3> QED BY <3>2, <3>3, <3>5
  <2>5. outstanding' = old \o d
    BY <1>2, <1>17, <1>22, <2>1
  <2>6. HeldInOrder' = old \o part
    BY <1>11
  <2> HIDE DEF old, part, rest, d
  <2>7. (old \o part) \o rest = old \o (part \o rest)
    <3>1. old \in Seq(Byte)
      BY <1>17 DEF old
    <3>2. part \in Seq(Byte) /\ rest \in Seq(Byte)
      BY <1>20
    <3> QED BY <3>1, <3>2, ConcatAssociative
  <2>8. StreamOK'
    BY <1>20, <2>4, <2>5, <2>6, <2>7 DEF StreamOK
  <2> QED BY <1>12, <1>13, <1>14, <1>16, <1>19, <2>2, <2>3, <2>8 DEF StreamInv
<1>23. CASE r.n # 0 /\ reader = "chunk"
  <2> DEFINE c == fifo[1]
  <2>1. fifo # <<>> /\ Head(fifo) = c /\ ByteCount = DataCount(c)
    BY <1>23, ChunkBeingRead
  <2>2. /\ num_remaining_data_bytes' = DataCount(c) - r.n
        /\ curr_sysex_data_chunk_size' = 3 + DataCount(c)
        /\ ConsumeChunk
    BY <1>6, <1>23, <2>1 DEF DataReturns, DataCount, SYSEX_DATA_CHUNK_HEADER_SIZE
  <2>3. Valid(c)
    BY <1>2, <1>4, <1>6, <1>23
  <2>4. fifo' = Tail(fifo) /\ outstanding' = outstanding \o Payload(c)
    BY <2>1, <2>2, <2>3, ConsumedBytes
  <2>5. FifoInv' /\ OpenAt(1)' = OpenAt(1)
    <3>1. FifoInv' /\ OpenAt(1)' = OpenAfter(c)
      BY <1>6, <1>7, <2>1, <2>4, FifoTaken
    <3> QED BY <1>2, <1>23, <3>1
  <2>6. RestOfChunk' = rest
    <3>1. off = 3 /\ n \in Nat /\ len \in Nat /\ len = DataCount(c)
      BY <1>2, <1>3, <1>5, <1>23, <2>1
    <3>2. RestOfChunk' = SubSeq(s, (3 + len) - (len - n) + 1, 3 + len)
      BY <1>6, <2>2, <3>1 DEF RestOfChunk
    <3>3. rest = SubSeq(s, off + n + 1, off + len)
      OBVIOUS
    <3> HIDE DEF off, len, n, rest, s
    <3>4. (3 + len) - (len - n) + 1 = off + n + 1 /\ 3 + len = off + len
      BY <3>1
    <3> QED BY <3>2, <3>3, <3>4
  <2>7. outstanding = old
    <3>1. old \o <<>> = old
      BY <1>17, ConcatEmptySeq
    <3> QED BY <1>2, <1>17, <1>23, <3>1
  <2>8. outstanding' = old \o d
    BY <1>2, <1>23, <2>4, <2>7
  <2>9. HeldInOrder' = old \o part
    BY <1>11
  <2> HIDE DEF old, part, rest, d
  <2>10. (old \o part) \o rest = old \o (part \o rest)
    <3>1. old \in Seq(Byte)
      BY <1>17 DEF old
    <3>2. part \in Seq(Byte) /\ rest \in Seq(Byte)
      BY <1>20
    <3> QED BY <3>1, <3>2, ConcatAssociative
  <2>11. StreamOK'
    BY <1>20, <2>6, <2>8, <2>9, <2>10 DEF StreamOK
  <2> QED BY <1>12, <1>13, <1>14, <1>16, <1>19, <2>5, <2>11 DEF StreamInv
<1> QED BY <1>1, <1>21, <1>22, <1>23

-----------------------------------------------------------------------------
(* The theorems.                                                           *)

(* Every step keeps the invariant.                                         *)
LEMMA StreamStep ==
    ASSUME IntendedUse
    PROVE  TypeInv /\ StreamInv /\ [Next]_vars => StreamInv'
<1> SUFFICES ASSUME TypeInv, StreamInv, [Next]_vars PROVE StreamInv'
  OBVIOUS
<1>1. CASE ClientStep
  <2>1. CASE \E m \in Messages : tx_queue_fifo_add_msg(m)
    BY <2>1, StreamAddMsg
  <2>2. CASE tx_queue_fifo_add_sysex_start \/ tx_queue_fifo_add_sysex_end
    BY <2>2, StreamAddSysexStatus
  <2>3. CASE \E d \in SysexData : WriteSysexDataHeader(d)
    BY <2>3, StreamWriteHeader
  <2>4. CASE WriteSysexDataBytes
    BY <2>4, StreamWriteBytes
  <2> QED BY <1>1, <2>1, <2>2, <2>3, <2>4 DEF ClientStep
<1>2. CASE \E m \in Mtus : MtuChanged(m)
  BY <1>2, StreamMtuChanged
<1>3. CASE \E m \in Mtus : Connected(m)
  BY <1>3, StreamConnected
<1>4. CASE tx_queue_on_tx_packet_sent
  BY <1>4, StreamSent
<1>5. CASE ReadStart
  BY <1>5, StreamReadControl
<1>6. CASE ReaderStep
  <2>1. CASE ReadEmpty \/ ReadDataChunk \/ ReadRest
    BY <2>1, StreamReadControl
  <2>2. CASE ReadSizeChunk
    BY <2>2, StreamReadSize
  <2>3. CASE \E t \in Timestamps : add_3_byte_chunk_to_tx_packet(t)
    BY <2>3, StreamAdd3
  <2>4. CASE \E t \in Timestamps : AddDataBytes(t)
    BY <2>4, StreamAddData
  <2>5. CASE \E t \in Timestamps : RejectDataBytes(t)
    BY <2>5, StreamReject
  <2> QED BY <1>6, <2>1, <2>2, <2>3, <2>4, <2>5 DEF ReaderStep
<1>7. CASE UNCHANGED vars
  <2>1. /\ UNCHANGED <<fifo, open>>
        /\ UNCHANGED <<outstanding, packetVars, chunkVars, readVars>>
    BY <1>7 DEF vars, fifoVars, prodVars
  <2>2. \A k : OpenAt(k)' = OpenAt(k)
    BY <2>1 DEF OpenAt
  <2>3. FifoInv'
    BY <2>1, <2>2
       DEF StreamInv, FifoInv, SysexChain, DataInSysex, SizesUsable, PlainChunks
  <2> QED BY <2>1, <2>2, <2>3, StreamWritten
<1> QED BY <1>1, <1>2, <1>3, <1>4, <1>5, <1>6, <1>7 DEF Next

(* What the invariant says of the two properties that the runs check.      *)
LEMMA StreamInvImplies ==
    TypeInv /\ StreamInv => StreamPreserved /\ HasDataMeansPacket
<1> SUFFICES ASSUME TypeInv, StreamInv PROVE StreamPreserved /\ HasDataMeansPacket
  OBVIOUS
<1>1. StreamPreserved
  BY DEF StreamInv, StreamOK, StreamPreserved
<1>2. TypeOK /\ tx_packet_count \in Nat /\ tx_packet_count >= 1
  BY PacketCountAssumption DEF TypeInv, TypeOK
<1>3. Pos(0) = first_tx_packet_idx
  BY <1>2, Positions
<1>4. has_tx_data <=> tx_packets[first_tx_packet_idx].tx_buf # <<>>
  <2>1. 0 \in 0 .. tx_packet_count - 1
    BY <1>2
  <2> QED BY <1>3, <2>1 DEF StreamInv, UsedFilled
<1> QED BY <1>1, <1>4 DEF HasDataMeansPacket

(* The inductive invariant.                                                *)
THEOREM StreamInvariance ==
    ASSUME IntendedUse
    PROVE  Spec => [](TypeInv /\ StreamInv)
<1>1. Init => TypeInv /\ StreamInv
  BY TypeInit, StreamInit
<1>2. (TypeInv /\ StreamInv) /\ [Next]_vars => (TypeInv /\ StreamInv)'
  BY TypeStep, StreamStep
<1> QED BY <1>1, <1>2, PTL DEF Spec

(* No MIDI byte is lost, duplicated, reordered or invented on the way from *)
(* the FIFO to the packets, for every number of packets, packet size, FIFO *)
(* size and MTU.                                                           *)
THEOREM StreamIsPreserved ==
    ASSUME IntendedUse
    PROVE  Spec => []StreamPreserved
<1>1. TypeInv /\ StreamInv => StreamPreserved
  BY StreamInvImplies
<1>2. Spec => [](TypeInv /\ StreamInv)
  BY StreamInvariance
<1> QED BY <1>1, <1>2, PTL

(* has_tx_data is exactly right between two calls of the reader.           *)
THEOREM HasDataIsRight ==
    ASSUME IntendedUse
    PROVE  Spec => []HasDataMeansPacket
<1>1. TypeInv /\ StreamInv => HasDataMeansPacket
  BY StreamInvImplies
<1>2. Spec => [](TypeInv /\ StreamInv)
  BY StreamInvariance
<1> QED BY <1>1, <1>2, PTL

-----------------------------------------------------------------------------
(* The transmit path.                                                      *)

(* What TxTypeOK adds to the type of the queue.                            *)
AroundOK ==
    /\ manual \in BOOLEAN
    /\ app \in {"idle", "data", "inc", "submit"}
    /\ pending_tx_queue_fifo_work_count \in Int
    /\ workq \in {<<>>, <<"fifo">>, <<"tx">>, <<"fifo", "tx">>, <<"tx", "fifo">>}
    /\ handler \in {"none", "fifo", "tx"}
    /\ waiting_for_notif_buf \in BOOLEAN
    /\ notifications \in 0 .. NOTIF_BUF_COUNT
    /\ connected \in BOOLEAN
    /\ calls \in 0 .. MaxCalls
    /\ connections \in 0 .. MaxConnections

-----------------------------------------------------------------------------
(* The API calls, the handlers and the callbacks use the queue through its *)
(* own operations.                                                         *)
LEMMA QueueStep == [TxNext]_txVars => [Next]_vars
<1> SUFFICES ASSUME [TxNext]_txVars PROVE Next \/ UNCHANGED vars
  OBVIOUS
<1>1. CASE ApiCall
  BY <1>1 DEF ApiCall, ble_midi_tx_msg, ble_midi_tx_sysex_start,
     ble_midi_tx_sysex_end, ble_midi_tx_sysex_data, Next, ClientStep
<1>2. CASE AppStep
  BY <1>2 DEF AppStep, AppWritesData, AppIncrements, AppSubmits, Next, ClientStep
<1>3. CASE WorkQueueStep
  BY <1>3 DEF WorkQueueStep, StartHandler, HandlerReads, tx_queue_fifo_work_cb,
     SendPacket, SendFindsNoBuffer, SendFails, NothingToSend, Next
<1>4. CASE ConnectionEvent \/ ble_midi_tx_flush
  BY <1>4 DEF ConnectionEvent, ble_midi_tx_flush, radio_notif_handler
<1>5. CASE on_notify_done \/ on_disconnected
  BY <1>5 DEF on_notify_done, on_disconnected
<1>6. CASE \E m \in Mtus : on_mtu_changed(m)
  BY <1>6 DEF on_mtu_changed, Next
<1>7. CASE \E m \in Mtus : on_connected(m)
  BY <1>7 DEF on_connected, Next
<1>8. CASE UNCHANGED txVars
  BY <1>8 DEF txVars
<1> QED BY <1>1, <1>2, <1>3, <1>4, <1>5, <1>6, <1>7, <1>8 DEF TxNext

(* The transmit path implements the specification of the queue.            *)
THEOREM PathIsQueue == TxSpec => Spec
<1>1. TxInit => Init
  BY DEF TxInit
<1> QED BY <1>1, QueueStep, PTL DEF TxSpec, Spec

(* Two items in a work queue, in the order of their submission.            *)
LEMMA TwoItems ==
    ASSUME NEW S, NEW a \in S, NEW b \in S
    PROVE  Append(<<a>>, b) = <<a, b>>
<1>1. /\ <<a>> \in Seq(S) /\ Len(<<a>>) = 1 /\ <<a>>[1] = a
      /\ <<a, b>> \in Seq(S) /\ Len(<<a, b>>) = 2
  OBVIOUS
<1>2. /\ Append(<<a>>, b) \in Seq(S) /\ Len(Append(<<a>>, b)) = 2
      /\ Append(<<a>>, b)[1] = a /\ Append(<<a>>, b)[2] = b
  BY <1>1, AppendProperties
<1>3. \A i \in 1 .. 2 : Append(<<a>>, b)[i] = <<a, b>>[i]
  BY <1>2
<1> QED BY <1>1, <1>2, <1>3, SeqEqual

(* Each work item is queued at most once.                                  *)
LEMMA WorkQueue ==
    ASSUME AroundOK, NEW item \in {"fifo", "tx"}
    PROVE  Submit(item) \in {<<>>, <<"fifo">>, <<"tx">>, <<"fifo", "tx">>, <<"tx", "fifo">>}
<1>0. "fifo" \in {"fifo", "tx"} /\ "tx" \in {"fifo", "tx"}
  OBVIOUS
<1>1. CASE workq = <<>>
  BY <1>1 DEF Submit, Queued
<1>2. CASE workq = <<"fifo">>
  <2>1. Len(workq) = 1 /\ workq[1] = "fifo"
    BY <1>2
  <2>2. Queued("fifo") /\ ~Queued("tx")
    BY <2>1 DEF Queued
  <2>3. Append(workq, "tx") = <<"fifo", "tx">>
    BY <1>2, <1>0, TwoItems
  <2> QED BY <1>2, <2>2, <2>3 DEF Submit
<1>3. CASE workq = <<"tx">>
  <2>1. Len(workq) = 1 /\ workq[1] = "tx"
    BY <1>3
  <2>2. Queued("tx") /\ ~Queued("fifo")
    BY <2>1 DEF Queued
  <2>3. Append(workq, "fifo") = <<"tx", "fifo">>
    BY <1>3, <1>0, TwoItems
  <2> QED BY <1>3, <2>2, <2>3 DEF Submit
<1>4. CASE workq = <<"fifo", "tx">>
  <2>1. Len(workq) = 2 /\ workq[1] = "fifo" /\ workq[2] = "tx"
    BY <1>4
  <2>2. Queued(item)
    BY <2>1 DEF Queued
  <2> QED BY <1>4, <2>2 DEF Submit
<1>5. CASE workq = <<"tx", "fifo">>
  <2>1. Len(workq) = 2 /\ workq[1] = "tx" /\ workq[2] = "fifo"
    BY <1>5
  <2>2. Queued(item)
    BY <2>1 DEF Queued
  <2> QED BY <1>5, <2>2 DEF Submit
<1> QED BY <1>1, <1>2, <1>3, <1>4, <1>5 DEF AroundOK

(* The work queue takes the oldest item.                                   *)
LEMMA WorkTaken ==
    ASSUME AroundOK, workq # <<>>
    PROVE  Tail(workq) \in {<<>>, <<"fifo">>, <<"tx">>}
<1>2. CASE workq = <<"fifo">>
  BY <1>2
<1>3. CASE workq = <<"tx">>
  BY <1>3
<1>4. CASE workq = <<"fifo", "tx">>
  BY <1>4
<1>5. CASE workq = <<"tx", "fifo">>
  BY <1>5
<1> QED BY <1>2, <1>3, <1>4, <1>5 DEF AroundOK

-----------------------------------------------------------------------------
(* Every step of the path keeps the types of what is around the queue.     *)
LEMMA AroundStep == ASSUME AroundOK, [TxNext]_txVars PROVE AroundOK'
<1>1. CASE ApiCall
  <2>1. PICK next \in {"inc", "data"} : BeginCall(next)
    BY <1>1 DEF ApiCall, ble_midi_tx_msg, ble_midi_tx_sysex_start,
       ble_midi_tx_sysex_end, ble_midi_tx_sysex_data
  <2>2. calls' \in 0 .. MaxCalls
    BY <2>1, TxConstants DEF BeginCall, AroundOK
  <2> QED BY <2>1, <2>2 DEF BeginCall, AroundOK, workVars, btVars
<1>2. CASE AppWritesData
  BY <1>2 DEF AppWritesData, AroundOK, workVars, btVars
<1>3. CASE AppIncrements
  BY <1>3 DEF AppIncrements, AroundOK, btVars
<1>4. CASE AppSubmits
  BY <1>4, WorkQueue DEF AppSubmits, AroundOK, btVars
<1>5. CASE \E item \in {"fifo", "tx"} : StartHandler(item)
  BY <1>5, WorkTaken DEF StartHandler, AroundOK, appVars, btVars
<1>6. CASE HandlerReads
  BY <1>6 DEF HandlerReads, AroundOK, appVars, workVars, btVars
<1>7. CASE tx_queue_fifo_work_cb
  <2>1. pending_tx_queue_fifo_work_count' \in Int
    BY <1>7 DEF tx_queue_fifo_work_cb, AroundOK
  <2>2. workq' \in {workq, Submit("fifo")}
    BY <1>7 DEF tx_queue_fifo_work_cb
  <2> QED BY <1>7, <2>1, <2>2, WorkQueue DEF tx_queue_fifo_work_cb, AroundOK,
          appVars, btVars
<1>8. CASE SendPacket
  <2>1. notifications' \in 0 .. NOTIF_BUF_COUNT
    BY <1>8, TxConstants DEF SendPacket, AroundOK
  <2> QED BY <1>8, <2>1 DEF SendPacket, AroundOK, appVars, workVars
<1>9. CASE SendFindsNoBuffer \/ SendFails \/ NothingToSend
  BY <1>9 DEF SendFindsNoBuffer, SendFails, NothingToSend, AroundOK, appVars, btVars
<1>10. CASE ConnectionEvent \/ ble_midi_tx_flush
  BY <1>10, WorkQueue DEF ConnectionEvent, ble_midi_tx_flush, radio_notif_handler,
     AroundOK, appVars, btVars
<1>11. CASE on_notify_done
  <2>1. notifications' \in 0 .. NOTIF_BUF_COUNT
    BY <1>11, TxConstants DEF on_notify_done, AroundOK
  <2> QED BY <1>11, <2>1 DEF on_notify_done, AroundOK, appVars, workVars
<1>12. CASE \E m \in Mtus : on_mtu_changed(m)
  BY <1>12, WorkQueue DEF on_mtu_changed, AroundOK, appVars, btVars
<1>13. CASE on_disconnected
  <2>1. 0 \in 0 .. NOTIF_BUF_COUNT
    BY TxConstants
  <2>2. waiting_for_notif_buf' \in BOOLEAN
    BY <1>13 DEF on_disconnected
  <2> QED BY <1>13, <2>1, <2>2 DEF on_disconnected, AroundOK, appVars, workVars
<1>14. CASE \E m \in Mtus : on_connected(m)
  <2>1. connections' \in 0 .. MaxConnections
    BY <1>14, TxConstants DEF on_connected, AroundOK
  <2> QED BY <1>14, <2>1, WorkQueue DEF on_connected, AroundOK, appVars
<1>15. CASE UNCHANGED txVars
  BY <1>15 DEF txVars, appVars, workVars, btVars, AroundOK
<1> QED BY <1>1, <1>2, <1>3, <1>4, <1>5, <1>6, <1>7, <1>8, <1>9, <1>10, <1>11,
           <1>12, <1>13, <1>14, <1>15 DEF TxNext, AppStep, WorkQueueStep

(* AroundOK is an invariant of the transmit path.                          *)
LEMMA AroundInvariance == TxSpec => []AroundOK
<1>1. TxInit => AroundOK
  <2>1. 0 \in 0 .. NOTIF_BUF_COUNT /\ 0 \in 0 .. MaxCalls /\ 0 \in 0 .. MaxConnections
    BY TxConstants
  <2> SUFFICES ASSUME TxInit PROVE AroundOK
    OBVIOUS
  <2>2. workq = <<"fifo">> /\ pending_tx_queue_fifo_work_count \in Int
    BY DEF TxInit
  <2>3. /\ notifications \in 0 .. NOTIF_BUF_COUNT
        /\ calls \in 0 .. MaxCalls /\ connections \in 0 .. MaxConnections
    BY <2>1 DEF TxInit
  <2> QED BY <2>2, <2>3 DEF TxInit, AroundOK
<1>2. AroundOK /\ [TxNext]_txVars => AroundOK'
  BY AroundStep
<1> QED BY <1>1, <1>2, PTL DEF TxSpec

(* Type correctness of the transmit path, the queue included: a work item  *)
(* is queued at most once, and the Bluetooth stack is never given more     *)
(* notifications than it has buffers.                                      *)
THEOREM TxTypeCorrect == TxSpec => []TxTypeOK
<1>1. TypeOK /\ AroundOK => TxTypeOK
  BY DEF AroundOK, TxTypeOK
<1> QED BY <1>1, PathIsQueue, TypeCorrect, AroundInvariance, PTL

-----------------------------------------------------------------------------
(* tx_pending_packets_work_cb sets waiting_for_notif_buf only when all the *)
(* buffers are in use, and a notification that leaves the stack clears it: *)
(* radio_notif_handler is never left waiting for a call of on_notify_done  *)
(* that will not come, provided that the stack reports the notifications   *)
(* that a disconnection drops.                                             *)
THEOREM WaitingIsWokenUp ==
    ASSUME StackReportsDropped
    PROVE  TxSpec => []WaitingHasWakeup
<1>1. TxInit => WaitingHasWakeup
  BY DEF TxInit, WaitingHasWakeup
<1>2. AroundOK /\ WaitingHasWakeup /\ [TxNext]_txVars => WaitingHasWakeup'
  <2> SUFFICES ASSUME AroundOK, WaitingHasWakeup, [TxNext]_txVars,
                      waiting_for_notif_buf'
               PROVE  notifications' > 0
    BY DEF WaitingHasWakeup
  <2>1. CASE SendFindsNoBuffer
    BY <2>1, TxConstants DEF SendFindsNoBuffer
  <2>2. CASE SendPacket
    BY <2>2 DEF SendPacket, AroundOK
  <2>3. CASE on_notify_done
    BY <2>3 DEF on_notify_done
  <2>4. CASE on_disconnected
    BY <2>4 DEF on_disconnected, WaitingHasWakeup
  <2>5. CASE UNCHANGED <<waiting_for_notif_buf, notifications>>
    BY <2>5 DEF WaitingHasWakeup
  <2>6. SendFindsNoBuffer \/ SendPacket \/ on_notify_done \/ on_disconnected
        \/ UNCHANGED <<waiting_for_notif_buf, notifications>>
    BY DEF TxNext, txVars, ApiCall, AppStep, WorkQueueStep, ble_midi_tx_msg,
       ble_midi_tx_sysex_start, ble_midi_tx_sysex_end, ble_midi_tx_sysex_data,
       BeginCall, AppWritesData, AppIncrements, AppSubmits, StartHandler,
       HandlerReads, tx_queue_fifo_work_cb, SendFails, NothingToSend,
       ConnectionEvent, ble_midi_tx_flush, radio_notif_handler, on_mtu_changed,
       on_connected, btVars
  <2> QED BY <2>1, <2>2, <2>3, <2>4, <2>5, <2>6
<1> QED BY <1>1, <1>2, AroundInvariance, PTL DEF TxSpec

(* Packets handed to the Bluetooth stack fit its MTU, on the whole path.   *)
THEOREM SentPacketsFit ==
    ASSUME ~MtuMayShrink
    PROVE  TxSpec => []PacketsFit
<1>1. Spec => []PacketsFit
  BY PacketsAlwaysFit
<1> QED BY <1>1, PathIsQueue, PTL

(* On the whole path, with the application and the work queue running at   *)
(* the same time, the bytes in the packets are those the application sent, *)
(* and an empty packet is never handed to the Bluetooth stack.             *)
THEOREM PathPreservesStream ==
    ASSUME IntendedUse
    PROVE  TxSpec => [](StreamPreserved /\ HasDataMeansPacket)
<1>1. Spec => []StreamPreserved
  BY StreamIsPreserved
<1>2. Spec => []HasDataMeansPacket
  BY HasDataIsRight
<1> QED BY <1>1, <1>2, PathIsQueue, PTL

-----------------------------------------------------------------------------
(* The path is a stream: the bytes of the chunks in the FIFO.              *)

(* The bytes of the chunks in the FIFO, chunk by chunk.                    *)
FifoSeq   == [i \in DOMAIN fifo |-> ChunkPayload(fifo[i])]
FifoBytes == FlattenSeq(FifoSeq)

(* A chunk stands for bytes.                                               *)
LEMMA ChunkPayloadType == ASSUME NEW c \in Chunk PROVE ChunkPayload(c) \in Seq(Byte)
BY PayloadType DEF ChunkPayload

(* The bytes in the FIFO are bytes; an empty FIFO has none.                *)
LEMMA FifoSeqType ==
    ASSUME TypeOK
    PROVE  /\ FifoSeq \in Seq(Seq(Byte)) /\ Len(FifoSeq) = Len(fifo)
           /\ \A i \in 1 .. Len(fifo) : FifoSeq[i] = ChunkPayload(fifo[i])
           /\ fifo = <<>> => FifoBytes = <<>>
           /\ FifoBytes \in Seq(Byte)
<1>1. /\ fifo \in Seq(Chunk) /\ DOMAIN fifo = 1 .. Len(fifo) /\ Len(fifo) \in Nat
      /\ \A i \in 1 .. Len(fifo) : fifo[i] \in Chunk
  BY DEF TypeOK
<1>2. \A i \in 1 .. Len(fifo) : ChunkPayload(fifo[i]) \in Seq(Byte)
  BY <1>1, ChunkPayloadType
<1>3. FifoSeq \in [1 .. Len(fifo) -> Seq(Byte)]
  BY <1>1, <1>2 DEF FifoSeq
<1>4. FifoSeq \in Seq(Seq(Byte)) /\ Len(FifoSeq) = Len(fifo)
  BY <1>1, <1>3
<1>5. \A i \in 1 .. Len(fifo) : FifoSeq[i] = ChunkPayload(fifo[i])
  BY <1>1 DEF FifoSeq
<1>6. ASSUME fifo = <<>> PROVE FifoBytes = <<>>
  <2>1. Len(fifo) = 0
    BY <1>6
  <2>2. FifoSeq = <<>>
    BY <1>4, <2>1
  <2>3. FlattenSeq(FifoSeq) = FifoSeq
    BY <1>4, <2>1 DEF FlattenSeq
  <2> QED BY <2>2, <2>3 DEF FifoBytes
<1>7. FifoBytes \in Seq(Byte)
  <2>1. CASE Len(fifo) = 0
    <3>1. fifo = <<>>
      BY <1>1, <2>1
    <3> QED BY <1>6, <3>1
  <2>2. CASE Len(fifo) > 0
    <3>1. Len(FifoSeq) > 0 /\ Len(FifoSeq) \in 1 .. Len(FifoSeq)
      BY <1>1, <1>4, <2>2
    <3>2. PICK f \in [1 .. Len(FifoSeq) -> Seq(Byte)] :
              Folds(f, FifoSeq, Len(FifoSeq)) /\ FlattenSeq(FifoSeq) = f[Len(FifoSeq)]
      BY <1>4, <3>1, FlattenFolds
    <3> QED BY <3>1, <3>2 DEF FifoBytes
  <2> QED BY <1>1, <2>1, <2>2
<1> QED BY <1>4, <1>5, <1>6, <1>7

(* The same in the next state.                                             *)
LEMMA FifoSeqTypeNext ==
    TypeOK' => /\ FifoSeq' \in Seq(Seq(Byte)) /\ Len(FifoSeq') = Len(fifo')
               /\ \A i \in 1 .. Len(fifo') : FifoSeq'[i] = ChunkPayload(fifo'[i])
               /\ fifo' = <<>> => FifoBytes' = <<>>
               /\ FifoBytes' \in Seq(Byte)
<1> DEFINE Q == /\ FifoSeq \in Seq(Seq(Byte)) /\ Len(FifoSeq) = Len(fifo)
                /\ \A i \in 1 .. Len(fifo) : FifoSeq[i] = ChunkPayload(fifo[i])
                /\ fifo = <<>> => FifoBytes = <<>>
                /\ FifoBytes \in Seq(Byte)
<1>1. TypeOK => Q
  BY FifoSeqType
<1> HIDE DEF Q
<1>2. TypeOK' => Q'
  BY <1>1, PTL
<1>3. Q' => /\ FifoSeq' \in Seq(Seq(Byte)) /\ Len(FifoSeq') = Len(fifo')
            /\ \A i \in 1 .. Len(fifo') : FifoSeq'[i] = ChunkPayload(fifo'[i])
            /\ fifo' = <<>> => FifoBytes' = <<>>
            /\ FifoBytes' \in Seq(Byte)
  BY DEF Q, ChunkPayload, Valid, Payload, AllDataBytes
<1> QED BY <1>2, <1>3

(* RestOfChunk is part of the scratch buffer.                              *)
LEMMA RestType == ASSUME TypeInv PROVE RestOfChunk \in Seq(Byte)
<1>1. CASE num_remaining_data_bytes = 0
  BY <1>1, NothingRemains DEF TypeInv
<1>2. CASE num_remaining_data_bytes > 0
  <2>1. /\ sysex_chunk_scratch_buf \in Seq(Byte)
        /\ curr_sysex_data_chunk_size \in Nat /\ num_remaining_data_bytes \in Nat
        /\ curr_sysex_data_chunk_size <= Len(sysex_chunk_scratch_buf)
        /\ curr_sysex_data_chunk_size - num_remaining_data_bytes >= 3
    BY <1>2 DEF TypeInv, TypeOK, RestReadOK, SYSEX_DATA_CHUNK_HEADER_SIZE
  <2> QED BY <2>1, SubSeqOfBytes DEF RestOfChunk
<1> QED BY <1>1, <1>2 DEF TypeInv, TypeOK

(* All the bytes: those of the packets and of the chunk being moved, which *)
(* are those taken from the FIFO, and those in the FIFO.                   *)
LEMMA PendingIs ==
    ASSUME TypeInv, StreamInv
    PROVE  Pending = outstanding \o FifoBytes
<1>1. /\ TypeOK /\ HeldInOrder \o RestOfChunk = outstanding /\ Moved = 0
  BY DEF TypeInv, StreamInv, StreamOK, OnePass, Moved
<1>2. FifoBytes \in Seq(Byte) /\ HeldInOrder \in Seq(Byte)
  BY <1>1, FifoSeqType, HeldIsFlat
<1>3. RestOfChunk \in Seq(Byte)
  BY RestType
<1> DEFINE u == Unmoved
           h == HeldInOrder
           r == RestOfChunk
           b == FifoBytes
<1>4. u = r \o b
  BY DEF Unmoved, FifoBytes, FifoSeq
<1>5. Pending = h \o SubSeq(u, 1, Len(u))
  BY <1>1 DEF Pending
<1>6. h \in Seq(Byte) /\ r \in Seq(Byte) /\ b \in Seq(Byte)
  BY <1>2, <1>3
<1>7. outstanding = h \o r
  BY <1>1
<1> HIDE DEF u, h, r, b
<1>8. u \in Seq(Byte)
  BY <1>4, <1>6
<1>9. SubSeq(u, 1, Len(u)) = u
  BY <1>8, SubSeqFull
<1>10. (h \o r) \o b = h \o (r \o b)
  BY <1>6, ConcatAssociative, SMTT(30)
<1>11. Pending = outstanding \o b
  BY <1>4, <1>5, <1>7, <1>9, <1>10
<1> QED BY <1>11 DEF b

(* The same in the next state.                                             *)
LEMMA PendingIsNext == TypeInv' /\ StreamInv' => Pending' = outstanding' \o FifoBytes'
<1> DEFINE Q == Pending = outstanding \o FifoBytes
<1>1. TypeInv /\ StreamInv => Q
  BY PendingIs
<1> HIDE DEF Q
<1>2. TypeInv' /\ StreamInv' => Q'
  BY <1>1, PTL
<1> QED BY <1>2 DEF Q

(* A chunk is written.                                                     *)
LEMMA FifoBytesAppended ==
    ASSUME TypeOK, TypeOK', NEW c \in Chunk, fifo' = Append(fifo, c)
    PROVE  FifoBytes' = FifoBytes \o ChunkPayload(c)
<1> DEFINE n == Len(fifo)
           s == FifoSeq
           t == FifoSeq'
           x == ChunkPayload(c)
<1>1. /\ n \in Nat /\ Len(fifo') = n + 1 /\ fifo'[n + 1] = c
      /\ \A i \in 1 .. n : fifo'[i] = fifo[i]
  BY SMTT(30) DEF TypeOK
<1>2. /\ s \in Seq(Seq(Byte)) /\ Len(s) = n
      /\ \A i \in 1 .. n : s[i] = ChunkPayload(fifo[i])
      /\ fifo = <<>> => FifoBytes = <<>>
  BY FifoSeqType
<1>3. /\ t \in Seq(Seq(Byte)) /\ Len(t) = Len(fifo')
      /\ \A i \in 1 .. Len(fifo') : t[i] = ChunkPayload(fifo'[i])
  BY FifoSeqTypeNext
<1>4. x = ChunkPayload(c)
  OBVIOUS
<1>5. x \in Seq(Byte) /\ FifoBytes = FlattenSeq(s) /\ FifoBytes' = FlattenSeq(t)
  BY ChunkPayloadType DEF FifoBytes
<1>6. n = 0 => fifo = <<>>
  BY DEF TypeOK
<1> HIDE DEF n, s, t, x
<1>9. Len(t) = n + 1 /\ n + 1 \in 1 .. n + 1
  BY <1>1, <1>3
<1>10. \A i \in 1 .. n : t[i] = s[i]
  <2> SUFFICES ASSUME NEW i \in 1 .. n PROVE t[i] = s[i]
    OBVIOUS
  <2>1. i \in 1 .. Len(fifo') /\ fifo'[i] = fifo[i]
    BY <1>1
  <2> QED BY <1>2, <1>3, <2>1
<1>11. t[n + 1] = x
  BY <1>1, <1>3, <1>4, <1>9
<1>7. CASE n = 0
  <2>1. FlattenSeq(t) = x
    BY <1>3, <1>7, <1>9, <1>11, FlattenOne
  <2>2. <<>> \o x = x
    BY <1>5, ConcatEmptySeq
  <2> QED BY <1>2, <1>5, <1>6, <1>7, <2>1, <2>2 DEF x
<1>8. CASE n # 0
  <2>1. n >= 1
    BY <1>1, <1>8
  <2>2. FlattenSeq(t) = FlattenSeq(s) \o t[n + 1]
    <3>1. /\ n \in Nat /\ s \in Seq(Seq(Byte)) /\ t \in Seq(Seq(Byte))
          /\ n >= 1 /\ Len(s) = n /\ Len(t) = n + 1
      BY <1>1, <1>2, <1>3, <1>9, <2>1
    <3> QED BY <1>10, <3>1, FlattenAdded
  <2> QED BY <1>5, <1>11, <2>2 DEF x
<1> QED BY <1>7, <1>8

(* A chunk is taken.                                                       *)
LEMMA FifoBytesTaken ==
    ASSUME TypeOK, TypeOK', fifo # <<>>, fifo' = Tail(fifo)
    PROVE  FifoBytes = ChunkPayload(fifo[1]) \o FifoBytes'
<1> DEFINE n == Len(fifo')
           s == FifoSeq
           t == FifoSeq'
           x == ChunkPayload(fifo[1])
<1>1. /\ n \in Nat /\ Len(fifo) = n + 1 /\ fifo[1] \in Chunk
      /\ \A i \in 1 .. n : fifo'[i] = fifo[i + 1]
  BY SMTT(30) DEF TypeOK
<1>2. /\ s \in Seq(Seq(Byte)) /\ Len(s) = Len(fifo)
      /\ \A i \in 1 .. Len(fifo) : s[i] = ChunkPayload(fifo[i])
  BY FifoSeqType
<1>3. /\ t \in Seq(Seq(Byte)) /\ Len(t) = n
      /\ \A i \in 1 .. n : t[i] = ChunkPayload(fifo'[i])
      /\ fifo' = <<>> => FifoBytes' = <<>>
  BY FifoSeqTypeNext
<1>4. x = ChunkPayload(fifo[1])
  OBVIOUS
<1>5. x \in Seq(Byte) /\ FifoBytes = FlattenSeq(s) /\ FifoBytes' = FlattenSeq(t)
  BY <1>1, ChunkPayloadType DEF FifoBytes
<1>6. n = 0 => fifo' = <<>>
  <2>1. fifo' \in Seq(Chunk)
    BY DEF TypeOK
  <2> QED BY <2>1, EmptySeq
<1> HIDE DEF n, s, t, x
<1>9. Len(s) = n + 1 /\ 1 \in 1 .. Len(fifo)
  BY <1>1, <1>2
<1>10. \A i \in 1 .. n : t[i] = s[i + 1]
  <2> SUFFICES ASSUME NEW i \in 1 .. n PROVE t[i] = s[i + 1]
    OBVIOUS
  <2>1. i + 1 \in 1 .. Len(fifo) /\ fifo'[i] = fifo[i + 1]
    BY <1>1
  <2> QED BY <1>2, <1>3, <2>1
<1>11. s[1] = x
  BY <1>2, <1>4, <1>9
<1>7. CASE n = 0
  <2>1. FlattenSeq(s) = x
    BY <1>2, <1>7, <1>9, <1>11, FlattenOne
  <2>2. x \o <<>> = x
    BY <1>5, ConcatEmptySeq
  <2> QED BY <1>3, <1>5, <1>6, <1>7, <2>1, <2>2 DEF x
<1>8. CASE n # 0
  <2>1. n >= 1
    BY <1>1, <1>8
  <2>2. FlattenSeq(s) = s[1] \o FlattenSeq(t)
    <3>1. /\ n \in Nat /\ s \in Seq(Seq(Byte)) /\ t \in Seq(Seq(Byte))
          /\ n >= 1 /\ Len(t) = n /\ Len(s) = n + 1
      BY <1>1, <1>2, <1>3, <1>9, <2>1
    <3> QED BY <1>10, <3>1, FlattenFirst
  <2> QED BY <1>5, <1>11, <2>2 DEF x
<1> QED BY <1>7, <1>8

(* The last chunk, which stood for nothing, is given its data.             *)
LEMMA FifoBytesFilled ==
    ASSUME TypeOK, TypeOK', NEW n \in Nat, n >= 1, Len(fifo) = n, Len(fifo') = n,
           \A i \in 1 .. n - 1 : fifo'[i] = fifo[i],
           ChunkPayload(fifo[n]) = <<>>
    PROVE  FifoBytes' = FifoBytes \o ChunkPayload(fifo'[n])
<1> DEFINE s == FifoSeq
           t == FifoSeq'
           x == ChunkPayload(fifo'[n])
<1>2. /\ s \in Seq(Seq(Byte)) /\ Len(s) = n
      /\ \A i \in 1 .. n : s[i] = ChunkPayload(fifo[i])
  BY FifoSeqType
<1>3. /\ t \in Seq(Seq(Byte)) /\ Len(t) = n
      /\ \A i \in 1 .. n : t[i] = ChunkPayload(fifo'[i])
  BY FifoSeqTypeNext
<1>4. /\ \A i \in 1 .. n - 1 : t[i] = s[i]
      /\ t[n] = x /\ s[n] = <<>>
  BY <1>2, <1>3
<1>5. x \in Seq(Byte) /\ FifoBytes = FlattenSeq(s) /\ FifoBytes' = FlattenSeq(t)
  <2>1. fifo'[n] \in Chunk
    BY DEF TypeOK
  <2> QED BY <2>1, ChunkPayloadType DEF FifoBytes
<1> HIDE DEF s, t, x
<1>6. <<>> \o x = x
  BY <1>5, ConcatEmptySeq
<1>7. t[n] = s[n] \o x
  BY <1>4, <1>6
<1>8. FlattenSeq(t) = FlattenSeq(s) \o x
  BY <1>2, <1>3, <1>4, <1>5, <1>7, FlattenExtended
<1> QED BY <1>5, <1>8 DEF x

-----------------------------------------------------------------------------
(* What the steps of the queue do to the bytes that are pending.           *)

(* A chunk moves from the FIFO to the packets or to the scratch buffer, or *)
(* is dropped because it is invalid: the bytes pending are the same.       *)
LEMMA PendingTaken ==
    ASSUME TypeInv, StreamInv, TypeInv', StreamInv', fifo # <<>>, ConsumeChunk
    PROVE  Pending' = Pending
<1>1. /\ Head(fifo) = fifo[1] /\ fifo[1] \in Chunk /\ fifo' = Tail(fifo)
      /\ ~Valid(fifo[1]) => outstanding' = outstanding
      /\ Valid(fifo[1]) => outstanding' = outstanding \o Payload(fifo[1])
  BY ConsumedBytes
<1>2. TypeOK /\ TypeOK' /\ outstanding \in Seq(Byte)
  BY DEF TypeInv, TypeOK
<1> DEFINE x == ChunkPayload(fifo[1])
           o == outstanding
           p == outstanding'
           b == FifoBytes
           c == FifoBytes'
<1>3. x \in Seq(Byte) /\ c \in Seq(Byte) /\ o \in Seq(Byte)
  BY <1>1, <1>2, ChunkPayloadType, FifoSeqTypeNext
<1>4. b = x \o c
  BY <1>1, <1>2, FifoBytesTaken
<1>5. p = o \o x
  <2>1. CASE Valid(fifo[1])
    BY <1>1, <2>1 DEF ChunkPayload
  <2>2. CASE ~Valid(fifo[1])
    <3>1. o \o <<>> = o
      BY <1>3, ConcatEmptySeq
    <3> QED BY <1>1, <2>2, <3>1 DEF ChunkPayload
  <2> QED BY <2>1, <2>2
<1>6. Pending = o \o b /\ Pending' = p \o c
  BY PendingIs, PendingIsNext
<1> HIDE DEF x, o, p, b, c
<1>7. (o \o x) \o c = o \o (x \o c)
  BY <1>3, ConcatAssociative, SMTT(30)
<1> QED BY <1>4, <1>5, <1>6, <1>7

(* Neither the FIFO nor what was taken from it changes.                    *)
LEMMA PendingKept ==
    ASSUME TypeInv, StreamInv, TypeInv', StreamInv', UNCHANGED <<fifo, outstanding>>
    PROVE  Pending' = Pending
<1>1. FifoBytes' = FifoBytes
  BY DEF FifoBytes, FifoSeq, ChunkPayload, Valid, Payload, AllDataBytes
<1> QED BY <1>1, PendingIs, PendingIsNext

(* The FIFO gets bytes at its end.                                         *)
LEMMA PendingGrows ==
    ASSUME TypeInv, StreamInv, TypeInv', StreamInv', outstanding' = outstanding,
           NEW x \in Seq(Byte), FifoBytes' = FifoBytes \o x
    PROVE  Pending' = Pending \o x
<1> DEFINE o == outstanding
           b == FifoBytes
           c == FifoBytes'
<1>1. Pending = o \o b /\ Pending' = o \o c /\ c = b \o x
  BY PendingIs, PendingIsNext
<1>2. TypeOK
  BY DEF TypeInv
<1>3. o \in Seq(Byte) /\ b \in Seq(Byte)
  BY <1>2, FifoSeqType DEF TypeOK
<1> HIDE DEF o, b, c
<1>4. (o \o b) \o x = o \o (b \o x)
  BY <1>3, ConcatAssociative, SMTT(30)
<1> QED BY <1>1, <1>4

(* What a step may do: nothing, accept a unit, or send.                    *)
StreamMove ==
    \/ Pending' = Pending
    \/ \E u \in Units : Pending' = Pending \o u
    \/ \E n \in 1 .. Len(Pending) : Pending' = SubSeq(Pending, n + 1, Len(Pending))

(* Bytes pending are bytes.                                                *)
LEMMA PendingType == ASSUME TypeInv, StreamInv PROVE Pending \in Seq(Byte)
<1>1. TypeOK
  BY DEF TypeInv
<1>2. outstanding \in Seq(Byte) /\ FifoBytes \in Seq(Byte)
  BY <1>1, FifoSeqType DEF TypeOK
<1>3. Pending = outstanding \o FifoBytes
  BY PendingIs
<1> QED BY <1>2, <1>3

(* A chunk that is a unit, or that stands for nothing, is written.         *)
LEMMA AcceptsChunk ==
    ASSUME TypeInv, StreamInv, TypeInv', StreamInv', outstanding' = outstanding,
           NEW c \in Chunk, fifo' = Append(fifo, c),
           ChunkPayload(c) = <<>> \/ ChunkPayload(c) \in Units
    PROVE  StreamMove
<1>1. TypeOK /\ TypeOK'
  BY DEF TypeInv
<1> DEFINE x == ChunkPayload(c)
<1>2. x \in Seq(Byte)
  BY ChunkPayloadType
<1>3. FifoBytes' = FifoBytes \o x
  BY <1>1, FifoBytesAppended
<1>4. Pending' = Pending \o x
  <2> HIDE DEF x
  <2> QED BY <1>2, <1>3, PendingGrows
<1>5. CASE x = <<>>
  <2>1. Pending \o <<>> = Pending
    BY PendingType, ConcatEmptySeq
  <2> QED BY <1>4, <1>5, <2>1 DEF StreamMove
<1>6. CASE x \in Units
  BY <1>4, <1>6 DEF StreamMove
<1> QED BY <1>5, <1>6

(* Three bytes that are a unit, or begin a chunk of another kind.          *)
LEMMA AcceptsWrite3 ==
    ASSUME TypeInv, StreamInv, TypeInv', StreamInv', outstanding' = outstanding,
           NEW h \in ThreeBytes, fifo' = Append(fifo, ThreeByteChunk(h)),
           h \in Units \/ h[1] \in {SYSEX_DATA_CHUNK_ID, TX_MAX_PACKET_SIZE_CHUNK_ID}
    PROVE  StreamMove
<1> DEFINE c == ThreeByteChunk(h)
<1>1. c \in Chunk /\ c.head = h /\ c.data = <<>>
  BY ThreeByteChunkType DEF TypeInv
<1> HIDE DEF c
<1>2. h[1] = TX_MAX_PACKET_SIZE_CHUNK_ID => ~Valid(c)
  BY <1>1 DEF Valid, SYSEX_START, SYSEX_END, SYSEX_DATA_CHUNK_ID,
     TX_MAX_PACKET_SIZE_CHUNK_ID
<1>3. Payload(c) = IF h[1] = SYSEX_DATA_CHUNK_ID THEN <<>> ELSE h
  BY <1>1 DEF Payload
<1>4. ChunkPayload(c) = <<>> \/ ChunkPayload(c) \in Units
  BY <1>2, <1>3 DEF ChunkPayload
<1>5. fifo' = Append(fifo, c)
  BY DEF c
<1> QED BY <1>1, <1>4, <1>5, AcceptsChunk

(* What the client is writing is part of an argument of                    *)
(* tx_queue_fifo_add_sysex_data.                                           *)
WritesUnit == writing # <<>> => writing \in Units

(* The bytes announced by the header of a sysex data chunk.                *)
LEMMA UnitAnnounced ==
    ASSUME TypeInv, NEW d \in SysexData, WriteSysexDataHeader(d)
    PROVE  WritesUnit'
<1> DEFINE n == NumBytesToSend(Len(d))
<1>1. d \in Seq(Byte) /\ Len(d) \in Nat /\ Len(d) > 0
  BY SysexDataAssumption
<1>2. n \in 1 .. Len(d)
  <2>1. fifo_free_space \in Nat /\ fifo_free_space > 3
    BY DEF TypeInv, TypeOK, WriteSysexDataHeader, SYSEX_DATA_CHUNK_HEADER_SIZE
  <2> QED BY <1>1, <2>1, ChunkSizeAssumption
          DEF NumBytesToSend, SYSEX_DATA_CHUNK_HEADER_SIZE
<1>3. writing' = SubSeq(d, 1, n)
  BY DEF WriteSysexDataHeader
<1> HIDE DEF n
<1>4. writing' \in {SubSeq(d, 1, k) : k \in 1 .. Len(d)}
  BY <1>2, <1>3
<1>5. writing' \in Units
  BY <1>4 DEF Units
<1> QED BY <1>5 DEF WritesUnit

(* Every step keeps it.                                                    *)
LEMMA WritesUnitStep == TypeInv /\ WritesUnit /\ [Next]_vars => WritesUnit'
<1> SUFFICES ASSUME TypeInv, WritesUnit, [Next]_vars PROVE WritesUnit'
  OBVIOUS
<1>1. CASE \E d \in SysexData : WriteSysexDataHeader(d)
  BY <1>1, UnitAnnounced
<1>2. CASE writing' = writing \/ writing' = <<>>
  BY <1>2, SMTT(30) DEF WritesUnit
<1>3. \/ \E d \in SysexData : WriteSysexDataHeader(d)
      \/ writing' = writing \/ writing' = <<>>
  BY DEF Next, ClientStep, ReaderStep, tx_queue_fifo_add_msg,
     tx_queue_fifo_add_sysex_start, tx_queue_fifo_add_sysex_end,
     WriteSysexDataBytes, MtuChanged, Connected, tx_queue_on_tx_packet_sent,
     ReadStart, ReadEmpty, ReadSizeChunk, add_3_byte_chunk_to_tx_packet,
     ReadDataChunk, ReadRest, AddDataBytes, RejectDataBytes, vars, prodVars
<1> QED BY <1>1, <1>2, <1>3

(* The calls of the client.                                                *)
LEMMA ClientAccepts ==
    ASSUME TypeInv, StreamInv, TypeInv', StreamInv', WritesUnit, ClientStep
    PROVE  StreamMove
<1>1. CASE \E m \in Messages : tx_queue_fifo_add_msg(m)
  <2>1. PICK m \in Messages : tx_queue_fifo_add_msg(m)
    BY <1>1
  <2>2. m \in ThreeBytes /\ m \in Units
    BY MessagesAssumption DEF ThreeBytes, Units
  <2>3. outstanding' = outstanding /\ fifo' = Append(fifo, ThreeByteChunk(m))
    BY <2>1 DEF tx_queue_fifo_add_msg, write_3_byte_chunk_to_fifo
  <2> QED BY <2>2, <2>3, AcceptsWrite3
<1>2. CASE tx_queue_fifo_add_sysex_start \/ tx_queue_fifo_add_sysex_end
  <2>1. PICK h \in {<<SYSEX_START, 0, 0>>, <<SYSEX_END, 0, 0>>} :
            outstanding' = outstanding /\ fifo' = Append(fifo, ThreeByteChunk(h))
    BY <1>2 DEF tx_queue_fifo_add_sysex_start, tx_queue_fifo_add_sysex_end,
       write_3_byte_chunk_to_fifo
  <2>2. h \in ThreeBytes /\ h \in Units
    <3>1. SYSEX_START \in Byte /\ SYSEX_END \in Byte /\ 0 \in Byte
      BY DEF SYSEX_START, SYSEX_END, Byte
    <3> QED BY <3>1 DEF ThreeBytes, Units
  <2> QED BY <2>1, <2>2, AcceptsWrite3
<1>3. CASE \E d \in SysexData : WriteSysexDataHeader(d)
  <2>1. PICK d \in SysexData : WriteSysexDataHeader(d)
    BY <1>3
  <2> DEFINE n == NumBytesToSend(Len(d))
             h == <<SYSEX_DATA_CHUNK_ID, Lsb(n), Msb(n)>>
  <2>2. outstanding' = outstanding /\ fifo' = Append(fifo, ThreeByteChunk(h))
    BY <2>1 DEF WriteSysexDataHeader
  <2>3. n \in Nat /\ n < 65536
    <3>1. fifo_free_space \in Nat /\ fifo_free_space > 3
      BY <2>1 DEF TypeInv, TypeOK, WriteSysexDataHeader, SYSEX_DATA_CHUNK_HEADER_SIZE
    <3>2. Len(d) \in Nat
      BY SysexDataAssumption
    <3> QED BY <3>1, <3>2, ChunkSizeAssumption
            DEF NumBytesToSend, SYSEX_DATA_CHUNK_HEADER_SIZE
  <2>4. h \in ThreeBytes /\ h[1] = SYSEX_DATA_CHUNK_ID
    <3> HIDE DEF n
    <3>1. SYSEX_DATA_CHUNK_ID \in Byte /\ Lsb(n) \in Byte /\ Msb(n) \in Byte
      BY <2>3, Encode16 DEF SYSEX_DATA_CHUNK_ID, Byte
    <3> QED BY <3>1 DEF ThreeBytes
  <2> HIDE DEF h
  <2> QED BY <2>2, <2>4, AcceptsWrite3
<1>4. CASE WriteSysexDataBytes
  <2> DEFINE n == Len(fifo)
             c == [fifo[n] EXCEPT !.data = writing]
  <2>1. TypeOK /\ TypeOK' /\ fifo \in Seq(Chunk) /\ writing \in Seq(Byte) /\ n \in Nat
    BY SMTT(30) DEF TypeInv, TypeOK
  <2>2. /\ fifo # <<>> /\ IsData(fifo[n]) /\ fifo[n].data = <<>>
        /\ writing \in Units
    BY <1>4 DEF TypeInv, WritingOK, WritesUnit, WriteSysexDataBytes
  <2>3. n \in 1 .. Len(fifo) /\ fifo[n] \in Chunk /\ n >= 1
    BY <2>1, <2>2
  <2>4. c \in Chunk /\ c.head = fifo[n].head /\ c.data = writing
    BY <2>1, <2>3 DEF Chunk
  <2>5. fifo' = [fifo EXCEPT ![n] = c] /\ outstanding' = outstanding
    BY <1>4 DEF WriteSysexDataBytes
  <2> DEFINE x == ChunkPayload(c)
  <2> HIDE DEF n, c
  <2>6. /\ Len(fifo') = Len(fifo) /\ fifo'[n] = c
        /\ \A i \in 1 .. Len(fifo) : i # n => fifo'[i] = fifo[i]
    BY <2>1, <2>3, <2>4, <2>5, ExceptSeq
  <2>7. ChunkPayload(fifo[n]) = <<>>
    BY <2>2 DEF ChunkPayload, Payload, IsData
  <2>8. x = <<>> \/ x \in Units
    BY <2>2, <2>4 DEF ChunkPayload, Payload, IsData
  <2>9. x \in Seq(Byte)
    BY <2>4, ChunkPayloadType
  <2>10. FifoBytes' = FifoBytes \o x
    <3>1. Len(fifo) = n /\ Len(fifo') = n /\ \A i \in 1 .. n - 1 : fifo'[i] = fifo[i]
      BY <2>1, <2>6 DEF n
    <3>2. FifoBytes' = FifoBytes \o ChunkPayload(fifo'[n])
      BY <2>1, <2>3, <2>7, <3>1, FifoBytesFilled
    <3> QED BY <2>6, <3>2
  <2> HIDE DEF x
  <2>11. Pending' = Pending \o x
    BY <2>5, <2>9, <2>10, PendingGrows
  <2>12. Pending \o <<>> = Pending
    BY PendingType, ConcatEmptySeq
  <2> QED BY <2>8, <2>11, <2>12 DEF StreamMove
<1> QED BY <1>1, <1>2, <1>3, <1>4 DEF ClientStep

(* The first packet comes first.                                           *)
LEMMA FirstPacketFirst ==
    ASSUME TypeOK
    PROVE  \E x \in Seq(Byte) : HeldInOrder = held[first_tx_packet_idx] \o x
<1> DEFINE n == tx_packet_count - 1
           s == HeldSeq
           t == [i \in 1 .. n |-> s[i + 1]]
<1>1. /\ s \in Seq(Seq(Byte)) /\ Len(s) = tx_packet_count
      /\ \A k \in 1 .. tx_packet_count : s[k] = held[Pos(k - 1)]
      /\ HeldInOrder = FlattenSeq(s)
  BY HeldIsFlat
<1>2. /\ tx_packet_count \in Nat /\ tx_packet_count >= 1 /\ n \in Nat
      /\ Len(s) = n + 1 /\ 1 \in 1 .. tx_packet_count
  BY <1>1, PacketCountAssumption DEF TypeOK
<1>3. s[1] = held[first_tx_packet_idx] /\ s[1] \in Seq(Byte)
  <2>1. s[1] = held[Pos(0)]
    BY <1>1, <1>2
  <2>2. Pos(0) = first_tx_packet_idx
    BY Positions
  <2>3. s[1] \in Seq(Byte)
    BY <1>1, <1>2, ElementOfSeq
  <2> QED BY <2>1, <2>2, <2>3
<1> HIDE DEF n, s
<1>4. CASE n = 0
  <2>1. FlattenSeq(s) = s[1]
    BY <1>1, <1>2, <1>4, FlattenOne
  <2> DEFINE a == s[1]
  <2>2. a \o <<>> = a
    <3>1. a \in Seq(Byte)
      BY <1>3
    <3> HIDE DEF a
    <3> QED BY <3>1, ConcatEmptySeq
  <2>3. <<>> \in Seq(Byte)
    OBVIOUS
  <2> QED BY <1>1, <1>3, <2>1, <2>2, <2>3
<1>5. CASE n # 0
  <2>1. \A i \in 1 .. n : s[i + 1] \in Seq(Byte)
    BY <1>1, <1>2, ElementOfSeq
  <2>2. /\ t \in Seq(Seq(Byte)) /\ Len(t) = n
        /\ \A i \in 1 .. n : t[i] = s[i + 1]
    BY <1>2, <2>1
  <2> HIDE DEF t
  <2>3. n >= 1
    BY <1>2, <1>5
  <2>4. FlattenSeq(s) = s[1] \o FlattenSeq(t)
    BY <1>1, <1>2, <2>2, <2>3, FlattenFirst
  <2>5. FlattenSeq(t) \in Seq(Byte)
    <3>1. PICK f : /\ f \in [1 .. n -> Seq(Byte)] /\ Folds(f, t, n)
                   /\ FlattenSeq(t) = f[n]
      BY <1>2, <2>2, <2>3, FlattenFoldsTo
    <3> QED BY <1>2, <2>3, <3>1
  <2> QED BY <1>1, <1>3, <2>4, <2>5
<1> QED BY <1>4, <1>5

(* A packet is handed to the Bluetooth stack.                              *)
LEMMA PacketSends ==
    ASSUME TypeInv, StreamInv, TypeInv', StreamInv', tx_queue_on_tx_packet_sent
    PROVE  StreamMove
<1> DEFINE a == held[first_tx_packet_idx]
           r == RestOfChunk
           o == outstanding
           b == FifoBytes
           p == Pending
<1>1. /\ TypeOK /\ outstanding' = SubSeq(o, Len(a) + 1, Len(o)) /\ fifo' = fifo
  BY DEF TypeInv, tx_queue_on_tx_packet_sent, fifoVars
<1>2. PICK x \in Seq(Byte) : HeldInOrder = a \o x
  BY <1>1, FirstPacketFirst
<1>3. a \in Seq(Byte) /\ r \in Seq(Byte) /\ b \in Seq(Byte)
  <2>1. a \in Seq(Byte)
    BY <1>1 DEF TypeOK
  <2>2. r \in Seq(Byte)
    BY RestType
  <2>3. b \in Seq(Byte)
    BY <1>1, FifoSeqType
  <2> QED BY <2>1, <2>2, <2>3
<1>4. o = (a \o x) \o r
  BY <1>2 DEF StreamInv, StreamOK
<1>5. p = o \o b
  BY PendingIs
<1>6. Pending' = outstanding' \o b
  <2>1. FifoBytes' = b
    BY <1>1 DEF FifoBytes, FifoSeq, ChunkPayload, Valid, Payload, AllDataBytes
  <2> QED BY <2>1, PendingIsNext
<1> HIDE DEF a, r, o, b, p
<1> DEFINE y == x \o r
<1>7. y \in Seq(Byte)
  BY <1>3, ConcatProperties
<1>8. o = a \o y
  BY <1>2, <1>3, <1>4, ConcatAssociative, SMTT(30)
<1> HIDE DEF y
<1>9. outstanding' = y
  BY <1>1, <1>3, <1>7, <1>8, DropFirst
<1>10. p = (a \o y) \o b
  BY <1>5, <1>8
<1>11. SubSeq(p, Len(a) + 1, Len(p)) = y \o b
  BY <1>3, <1>7, <1>10, SentPart, SMTT(30)
<1>12. Pending' = SubSeq(p, Len(a) + 1, Len(p))
  BY <1>6, <1>9, <1>11
<1>13. Len(a) \in 0 .. Len(p) /\ p \in Seq(Byte) /\ Len(p) \in Nat
  <2>1. a \o y \in Seq(Byte) /\ Len(a \o y) = Len(a) + Len(y)
    BY <1>3, <1>7, ConcatProperties
  <2>2. p \in Seq(Byte) /\ Len(p) = Len(a \o y) + Len(b)
    BY <1>3, <1>10, <2>1, ConcatProperties
  <2>3. Len(a) \in Nat /\ Len(y) \in Nat /\ Len(b) \in Nat
    BY <1>3, <1>7, SMTT(30)
  <2> QED BY <2>1, <2>2, <2>3
<1>14. CASE Len(a) = 0
  <2>1. SubSeq(p, 1, Len(p)) = p
    BY <1>13, SubSeqFull
  <2>2. Len(a) + 1 = 1
    BY <1>14
  <2> QED BY <1>12, <2>1, <2>2 DEF StreamMove, p
<1>15. CASE Len(a) # 0
  <2>1. Len(a) \in 1 .. Len(p)
    BY <1>13, <1>15
  <2> QED BY <1>12, <2>1 DEF StreamMove, p
<1> QED BY <1>14, <1>15

(* tx_queue_read_from_fifo moves bytes, and neither takes nor gives any.   *)
LEMMA ReaderKeeps ==
    ASSUME TypeInv, StreamInv, TypeInv', StreamInv', ReadStart \/ ReaderStep
    PROVE  Pending' = Pending
<1>1. (fifo # <<>> /\ ConsumeChunk) \/ UNCHANGED <<fifo, outstanding>>
  <2>1. CASE ReadStart \/ ReadEmpty \/ ReadDataChunk \/ ReadRest
    BY <2>1 DEF ReadStart, ReadEmpty, ReadDataChunk, ReadRest, fifoVars
  <2>2. CASE ReadSizeChunk
    BY <2>2 DEF ReadSizeChunk, AtChunk
  <2>3. CASE \E t \in Timestamps : add_3_byte_chunk_to_tx_packet(t)
    BY <2>3 DEF add_3_byte_chunk_to_tx_packet, AtChunk, fifoVars
  <2>4. reader = "chunk" => fifo # <<>>
    BY DEF TypeInv, ChunkReadOK
  <2>5. CASE \E t \in Timestamps : AddDataBytes(t)
    BY <2>4, <2>5 DEF AddDataBytes, DataReturns, fifoVars
  <2>6. CASE \E t \in Timestamps : RejectDataBytes(t)
    BY <2>4, <2>6 DEF RejectDataBytes, SkipInvalid, fifoVars
  <2> QED BY <2>1, <2>2, <2>3, <2>5, <2>6 DEF ReaderStep
<1> QED BY <1>1, PendingTaken, PendingKept

(* A size chunk carries no MIDI bytes.                                     *)
LEMMA MtuKeeps ==
    ASSUME TypeInv, StreamInv, TypeInv', StreamInv', NEW m \in Mtus, MtuChanged(m)
    PROVE  StreamMove
<1> DEFINE h == SizeChunkHead(MaxSizeFor(m))
<1>1. h \in ThreeBytes /\ h[1] = TX_MAX_PACKET_SIZE_CHUNK_ID
  BY SizeChunks
<1> HIDE DEF h
<1>2. CASE fifo_free_space >= 3
  <2>1. outstanding' = outstanding /\ fifo' = Append(fifo, ThreeByteChunk(h))
    BY <1>2 DEF MtuChanged, write_3_byte_chunk_to_fifo, h
  <2> QED BY <1>1, <2>1, AcceptsWrite3
<1>3. CASE ~(fifo_free_space >= 3)
  BY <1>3, PendingKept DEF MtuChanged, fifoVars, StreamMove
<1> QED BY <1>2, <1>3

(* A FIFO with only a size chunk has no MIDI bytes.                        *)
LEMMA FreshBytes ==
    ASSUME TypeInv, StreamInv, outstanding = <<>>, NEW m \in Mtus,
           fifo = <<[head |-> SizeChunkHead(MaxSizeFor(m)), data |-> <<>>,
                     open |-> FALSE]>>
    PROVE  Pending = <<>>
<1>1. Len(fifo) = 1 /\ IsSize(fifo[1])
  BY FreshQueue
<1>2. ~Valid(fifo[1])
  BY <1>1 DEF IsSize, Valid, SYSEX_START, SYSEX_END, SYSEX_DATA_CHUNK_ID,
     TX_MAX_PACKET_SIZE_CHUNK_ID
<1>3. /\ FifoSeq \in Seq(Seq(Byte)) /\ Len(FifoSeq) = 1
      /\ FifoSeq[1] = ChunkPayload(fifo[1])
  <2>1. TypeOK /\ 1 \in 1 .. Len(fifo)
    BY <1>1 DEF TypeInv
  <2>2. /\ FifoSeq \in Seq(Seq(Byte)) /\ Len(FifoSeq) = Len(fifo)
        /\ \A i \in 1 .. Len(fifo) : FifoSeq[i] = ChunkPayload(fifo[i])
    BY <2>1, FifoSeqType
  <2> QED BY <1>1, <2>1, <2>2
<1>4. FifoBytes = <<>>
  BY <1>2, <1>3, FlattenOne DEF FifoBytes, ChunkPayload
<1>5. Pending = <<>> \o <<>>
  BY <1>4, PendingIs
<1>6. <<>> \o <<>> = <<>>
  BY EmptySeq, ConcatEmptySeq
<1> QED BY <1>5, <1>6

(* The same in the next state.                                             *)
LEMMA FreshBytesNext ==
    ASSUME NEW m \in Mtus
    PROVE  /\ TypeInv' /\ StreamInv' /\ outstanding' = <<>>
           /\ fifo' = <<[head |-> SizeChunkHead(MaxSizeFor(m)), data |-> <<>>,
                         open |-> FALSE]>>
           => Pending' = <<>>
<1> DEFINE P == fifo = <<[head |-> SizeChunkHead(MaxSizeFor(m)), data |-> <<>>,
                          open |-> FALSE]>>
           O == outstanding = <<>>
           Q == Pending = <<>>
<1>1. TypeInv /\ StreamInv /\ O /\ P => Q
  BY FreshBytes
<1> HIDE DEF P, O, Q
<1>2. TypeInv' /\ StreamInv' /\ O' /\ P' => Q'
  BY <1>1, PTL
<1> QED BY <1>2 DEF P, O, Q

-----------------------------------------------------------------------------
(* The steps of the transmit path: only on_connected begins a connection.  *)
LEMMA PathStep ==
    ASSUME [TxNext]_txVars
    PROVE  \/ /\ \E m \in Mtus : Connected(m)
              /\ connections' = connections + 1
           \/ /\ \/ ClientStep
                 \/ \E m \in Mtus : MtuChanged(m)
                 \/ tx_queue_on_tx_packet_sent
                 \/ ReadStart
                 \/ ReaderStep
                 \/ UNCHANGED vars
              /\ connections' = connections
<1>1. CASE ApiCall
  BY <1>1 DEF ApiCall, ble_midi_tx_msg, ble_midi_tx_sysex_start,
     ble_midi_tx_sysex_end, ble_midi_tx_sysex_data, ClientStep, BeginCall, btVars
<1>2. CASE AppStep
  BY <1>2 DEF AppStep, AppWritesData, AppIncrements, AppSubmits, ClientStep, btVars
<1>3. CASE WorkQueueStep
  BY <1>3 DEF WorkQueueStep, StartHandler, HandlerReads, tx_queue_fifo_work_cb,
     SendPacket, SendFindsNoBuffer, SendFails, NothingToSend, btVars
<1>4. CASE ConnectionEvent \/ ble_midi_tx_flush
  BY <1>4 DEF ConnectionEvent, ble_midi_tx_flush, radio_notif_handler, btVars
<1>5. CASE on_notify_done \/ on_disconnected
  BY <1>5 DEF on_notify_done, on_disconnected
<1>6. CASE \E m \in Mtus : on_mtu_changed(m)
  BY <1>6 DEF on_mtu_changed, btVars
<1>7. CASE \E m \in Mtus : on_connected(m)
  BY <1>7 DEF on_connected
<1>8. CASE UNCHANGED txVars
  BY <1>8 DEF txVars, btVars
<1> QED BY <1>1, <1>2, <1>3, <1>4, <1>5, <1>6, <1>7, <1>8 DEF TxNext

(* Every step of the path is a step of the stream, or changes nothing that *)
(* the stream is about.                                                    *)
LEMMA StreamMoves ==
    ASSUME TypeInv, StreamInv, TypeInv', StreamInv', WritesUnit, [TxNext]_txVars
    PROVE  [Stream!StreamNext]_(Stream!streamState)
<1> USE DEF Stream!StreamNext, Stream!streamState, Stream!Accept, Stream!Send,
            Stream!Reconnect
<1>1. CASE \E m \in Mtus : Connected(m) /\ connections' = connections + 1
  <2>1. PICK m \in Mtus : Connected(m) /\ connections' = connections + 1
    BY <1>1
  <2>2. /\ outstanding' = <<>>
        /\ fifo' = <<[head |-> SizeChunkHead(MaxSizeFor(m)), data |-> <<>>,
                      open |-> FALSE]>>
    BY <2>1 DEF Connected, tx_queue_init
  <2>3. Pending' = <<>>
    BY <2>2, FreshBytesNext
  <2> QED BY <2>1, <2>3
<1>2. CASE StreamMove /\ connections' = connections
  BY <1>2 DEF StreamMove
<1>3. CASE Pending' = Pending /\ connections' = connections
  BY <1>3
<1>4. ClientStep => StreamMove
  BY ClientAccepts
<1>5. (\E m \in Mtus : MtuChanged(m)) => StreamMove
  BY MtuKeeps
<1>6. tx_queue_on_tx_packet_sent => StreamMove
  BY PacketSends
<1>7. ReadStart \/ ReaderStep => Pending' = Pending
  BY ReaderKeeps
<1>8. UNCHANGED vars => Pending' = Pending
  BY PendingKept DEF vars, fifoVars
<1> QED BY <1>1, <1>2, <1>3, <1>4, <1>5, <1>6, <1>7, <1>8, PathStep

(* The transmit path is a stream of MIDI bytes.  For every number of       *)
(* packets, FIFO size, packet size, MTU, number of connections and of      *)
(* notification buffers, and whatever the application, the work queue and  *)
(* the Bluetooth callbacks interleave: what an API call accepts joins the  *)
(* stream whole, what is notified is taken from its front, and bytes are   *)
(* dropped only when a new connection begins.                              *)
THEOREM PathIsMidiStream ==
    ASSUME IntendedUse
    PROVE  TxSpec => IsMidiStream
<1>1. TxInit => Stream!StreamInit
  <2> SUFFICES ASSUME TxInit PROVE Stream!StreamInit
    OBVIOUS
  <2>1. Init /\ connections = 0
    BY DEF TxInit
  <2>2. TypeInv /\ StreamInv
    BY <2>1, TypeInit, StreamInit
  <2>3. /\ outstanding = <<>> /\ mtu \in Mtus
        /\ fifo = <<[head |-> SizeChunkHead(MaxSizeFor(mtu)), data |-> <<>>,
                     open |-> FALSE]>>
    BY <2>1 DEF Init
  <2>4. Pending = <<>>
    BY <2>2, <2>3, FreshBytes
  <2> QED BY <2>1, <2>4 DEF Stream!StreamInit
<1>2. TxSpec => [](TypeInv /\ StreamInv)
  BY StreamInvariance, PathIsQueue, PTL
<1>3. TxSpec => []WritesUnit
  <2>1. Init => WritesUnit
    BY DEF Init, WritesUnit
  <2>2. Spec => []WritesUnit
    BY <2>1, WritesUnitStep, TypeInvariance, PTL DEF Spec
  <2> QED BY <2>2, PathIsQueue, PTL
<1>4. /\ TypeInv /\ StreamInv /\ WritesUnit /\ (TypeInv /\ StreamInv)'
      /\ [TxNext]_txVars
      => [Stream!StreamNext]_(Stream!streamState)
  BY StreamMoves
<1> QED BY <1>1, <1>2, <1>3, <1>4, PTL DEF TxSpec, IsMidiStream, Stream!StreamSpec
=============================================================================
