----------------------------- MODULE ChunkFifo -----------------------------
(***************************************************************************)
(* What the transmit queue expects of its FIFO: a bounded queue of whole   *)
(* chunks.  A chunk comes out as it was put in, in order and once, and a   *)
(* chunk that stays in the queue is eventually taken.                      *)
(***************************************************************************)
EXTENDS Integers, Sequences, SequencesExt

CONSTANTS Chunks,     \* what may be put in the FIFO
          Capacity    \* the bytes it can hold

VARIABLES queue,      \* the chunks in the FIFO, oldest first
          taken       \* the chunk taken last, <<>> at first

fifoState == <<queue, taken>>

Used == Len(FlattenSeq(queue))

FifoInit == queue = <<>> /\ taken = <<>>

Put(c) ==
    /\ Used + Len(c) <= Capacity
    /\ queue' = Append(queue, c)
    /\ UNCHANGED taken

Take ==
    /\ queue # <<>>
    /\ taken' = Head(queue)
    /\ queue' = Tail(queue)

Clear == queue' = <<>> /\ UNCHANGED taken

FifoNext == (\E c \in Chunks : Put(c)) \/ Take \/ Clear

FifoSafety == FifoInit /\ [][FifoNext]_fifoState

FifoSpec == FifoSafety /\ WF_fifoState(Take)
=============================================================================
