------------------------------- MODULE TxFifo -------------------------------
(***************************************************************************)
(* The byte FIFO under the transmit queue: the ring buffer tx_queue_fifo   *)
(* of ble_midi/src/ble_midi.c, and the chunk layout with which             *)
(* ble_midi/src/tx_queue.c writes to it and reads from it.                 *)
(*                                                                         *)
(* The producers are the application, which writes a sysex data chunk in   *)
(* two steps, and the Bluetooth callbacks.  What the reader does with a    *)
(* chunk is the subject of TxQueue: here it takes the chunk or finds no    *)
(* room for it.                                                            *)
(***************************************************************************)
EXTENDS Integers, Sequences

CONSTANTS
    TX_FIFO_SIZE,                     \* CONFIG_BLE_MIDI_TX_FIFO_SIZE
    SYSEX_DATA_CHUNK_MAX_BYTE_COUNT,  \* data bytes in one chunk (255)
    Messages,           \* what the application sends, three bytes each
    SysexData,          \* the sysex data it sends
    Sizes,              \* the packet sizes on_mtu_changed writes
    CallbackPreempts    \* may a Bluetooth callback write between the header
                        \* and the data bytes of a sysex data chunk?

TX_MAX_PACKET_SIZE_CHUNK_ID  == \h0C
SYSEX_DATA_CHUNK_ID          == \h0D
SYSEX_DATA_CHUNK_HEADER_SIZE == 3

ASSUME FifoConstants ==
    /\ TX_FIFO_SIZE \in Nat /\ TX_FIFO_SIZE >= 3
    /\ SYSEX_DATA_CHUNK_MAX_BYTE_COUNT \in 1 .. 255
    /\ \A m \in Messages : m \in (128 .. 255) \X (0 .. 255) \X (0 .. 255)
    /\ \A d \in SysexData : d \in Seq(0 .. 255) /\ d # <<>>
    /\ \A size \in Sizes : size \in Nat /\ size < 65536
    /\ CallbackPreempts \in BOOLEAN

VARIABLES
    bytes,        \* the bytes in the ring buffer
    writing,      \* data bytes of a chunk whose header has been written
    reader,       \* is tx_queue_read_from_fifo running?
    msg_bytes,    \* its local buffer
    taken         \* history: the chunk it consumed last

vars == <<bytes, writing, reader, msg_bytes, taken>>

(* A 16 bit count in two bytes, and back.                                  *)
LsbMsb(n)      == <<n % 256, n \div 256>>
Count(lsb, msb) == lsb + 256 * msb

Least(m, n) == IF m < n THEN m ELSE n

-----------------------------------------------------------------------------
(* The ring buffer.                                                        *)

fifo_get_free_space == TX_FIFO_SIZE - Len(bytes)

(* Only the bytes for which there is room are written.                     *)
fifo_write(s) == bytes' = bytes \o SubSeq(s, 1, Least(Len(s), fifo_get_free_space))

fifo_peek(n)  == SubSeq(bytes, 1, Least(n, Len(bytes)))
fifo_read(n)  == bytes' = SubSeq(bytes, n + 1, Len(bytes))

-----------------------------------------------------------------------------
(* The producers.                                                          *)

(* Check and write are one step here.  A reader that comes in between only *)
(* makes room; a callback could take the last of it, so that the write is  *)
(* cut short, another way to get out of step when CallbackPreempts holds.  *)
write_3_byte_chunk_to_fifo(b) ==
    /\ fifo_get_free_space >= 3
    /\ fifo_write(b)

SizeChunk(size) == <<TX_MAX_PACKET_SIZE_CHUNK_ID>> \o LsbMsb(size)

(* A message, a sysex start or a sysex end.                                *)
tx_queue_fifo_add_msg(m) ==
    /\ writing = <<>>
    /\ write_3_byte_chunk_to_fifo(m)
    /\ UNCHANGED <<writing, reader, msg_bytes, taken>>

(* Faulty: the room the header takes is forgotten.                         *)
DataBytesThatFitFifo(n) ==
    Least(Least(n, SYSEX_DATA_CHUNK_MAX_BYTE_COUNT), fifo_get_free_space)

num_bytes_to_send(n) ==
    Least(Least(n, SYSEX_DATA_CHUNK_MAX_BYTE_COUNT),
          fifo_get_free_space - SYSEX_DATA_CHUNK_HEADER_SIZE)

(* tx_queue_fifo_add_sysex_data: the header, then the data bytes.          *)
WriteHeader(d) ==
    LET n == num_bytes_to_send(Len(d))
    IN  /\ writing = <<>>
        /\ fifo_get_free_space > SYSEX_DATA_CHUNK_HEADER_SIZE
        /\ fifo_write(<<SYSEX_DATA_CHUNK_ID>> \o LsbMsb(n))
        /\ writing' = SubSeq(d, 1, n)
        /\ UNCHANGED <<reader, msg_bytes, taken>>

WriteData ==
    /\ writing # <<>>
    /\ fifo_write(writing)
    /\ writing' = <<>>
    /\ UNCHANGED <<reader, msg_bytes, taken>>

CallbackMayRun == reader = "idle" /\ (CallbackPreempts \/ writing = <<>>)

(* on_mtu_changed.                                                         *)
tx_queue_fifo_add_tx_packet_size(size) ==
    /\ CallbackMayRun
    /\ write_3_byte_chunk_to_fifo(SizeChunk(size))
    /\ UNCHANGED <<writing, reader, msg_bytes, taken>>

(* tx_queue_reset in a new connection.                                     *)
fifo_clear ==
    /\ CallbackMayRun
    /\ bytes' = <<>>
    /\ UNCHANGED <<writing, reader, msg_bytes, taken>>

-----------------------------------------------------------------------------
(* tx_queue_read_from_fifo.                                                *)

ReadStart ==
    /\ reader = "idle"
    /\ bytes # <<>>
    /\ reader' = "loop"
    /\ msg_bytes' = <<0, 0, 0>>
    /\ UNCHANGED <<bytes, writing, taken>>

ReadEmpty ==
    /\ reader = "loop"
    /\ bytes = <<>>
    /\ reader' = "idle"
    /\ UNCHANGED <<bytes, writing, msg_bytes, taken>>

(* The first peek leaves the bytes of msg_bytes that are not in the FIFO.  *)
(* With a byte that no chunk starts with the loop goes round for ever: no  *)
(* step of the reader is enabled.                                          *)
Peeked == [i \in 1 .. 3 |-> IF i <= Len(bytes) THEN bytes[i] ELSE msg_bytes[i]]
Known(b) == b >= 128 \/ b \in {TX_MAX_PACKET_SIZE_CHUNK_ID, SYSEX_DATA_CHUNK_ID}

(* The bytes that the chunk's header says it has.                          *)
ChunkSize == SYSEX_DATA_CHUNK_HEADER_SIZE
             + (IF Peeked[1] = SYSEX_DATA_CHUNK_ID
                THEN Count(Peeked[2], Peeked[3]) ELSE 0)

(* A sysex data chunk without data bytes is left in the FIFO.              *)
NothingToAdd == /\ Peeked[1] = SYSEX_DATA_CHUNK_ID
                /\ Len(bytes) <= SYSEX_DATA_CHUNK_HEADER_SIZE

TakeChunk ==
    /\ reader = "loop"
    /\ bytes # <<>>
    /\ Known(Peeked[1])
    /\ ~NothingToAdd
    /\ taken' = fifo_peek(ChunkSize)
    /\ fifo_read(ChunkSize)
    /\ msg_bytes' = Peeked
    /\ UNCHANGED <<writing, reader>>

(* No room for the chunk in any packet.                                    *)
LeaveChunk ==
    /\ reader = "loop"
    /\ bytes # <<>>
    /\ NothingToAdd \/ Peeked[1] >= 128 \/ Peeked[1] = SYSEX_DATA_CHUNK_ID
    /\ reader' = "idle"
    /\ msg_bytes' = Peeked
    /\ UNCHANGED <<bytes, writing, taken>>

-----------------------------------------------------------------------------
Init ==
    /\ bytes = <<>>
    /\ writing = <<>>
    /\ reader = "idle"
    /\ msg_bytes = <<0, 0, 0>>
    /\ taken = <<>>

Next ==
    \/ \E m \in Messages : tx_queue_fifo_add_msg(m)
    \/ \E d \in SysexData : WriteHeader(d)
    \/ WriteData
    \/ \E size \in Sizes : tx_queue_fifo_add_tx_packet_size(size)
    \/ fifo_clear
    \/ ReadStart
    \/ ReadEmpty
    \/ TakeChunk
    \/ LeaveChunk

(* A call in progress finishes, connection events start the reader while   *)
(* there are bytes in the FIFO, and packets are sent, so that there is     *)
(* room for the next chunk again and again.                                *)
Fairness == /\ WF_vars(WriteData)
            /\ WF_vars(ReadStart)
            /\ WF_vars(ReadEmpty)
            /\ SF_vars(TakeChunk)

Spec     == Init /\ [][Next]_vars
FairSpec == Spec /\ Fairness

-----------------------------------------------------------------------------
(* The whole chunks at the beginning of a sequence of bytes.               *)
WholeChunks[b \in Seq(0 .. 255)] ==
    LET size == IF Len(b) >= 3 /\ b[1] = SYSEX_DATA_CHUNK_ID
                THEN 3 + Count(b[2], b[3]) ELSE 3
    IN  IF Len(b) < size THEN <<>>
        ELSE <<SubSeq(b, 1, size)>> \o WholeChunks[SubSeq(b, size + 1, Len(b))]

(* The chunks that producers write.                                        *)
DataChunk(d)  == <<SYSEX_DATA_CHUNK_ID>> \o LsbMsb(Len(d)) \o d
WrittenChunks ==
    Messages
    \cup {SizeChunk(size) : size \in Sizes}
    \cup UNION {{DataChunk(SubSeq(d, 1, n)) : n \in 1 .. Len(d)} : d \in SysexData}

Abstract == INSTANCE ChunkFifo WITH Chunks   <- WrittenChunks,
                                    Capacity <- TX_FIFO_SIZE,
                                    queue    <- WholeChunks[bytes]

(* IsChunkFifo: the byte FIFO with the chunk layout implements a queue of  *)
(* whole chunks: tx_queue_read_from_fifo takes the chunks that were        *)
(* written, in order and undamaged, although a data chunk is written in    *)
(* two steps and shortened when the FIFO is nearly full, and no chunk      *)
(* stays in the FIFO for ever.                                             *)
IsChunkFifo == Abstract!FifoSpec

(* TakesWhatWasWritten: tx_queue_read_from_fifo only takes chunks that a   *)
(* producer wrote.                                                         *)
TakesWhatWasWritten == taken \in WrittenChunks \cup {<<>>}
=============================================================================
