SPECIFICATION FairSpec
CONSTANTS
    TX_FIFO_SIZE = 10
    SYSEX_DATA_CHUNK_MAX_BYTE_COUNT = 2
    Messages <- TwoMessages
    SysexData <- DataOfThree
    Sizes <- OneSize
    CallbackPreempts = FALSE
PROPERTY IsChunkFifo
