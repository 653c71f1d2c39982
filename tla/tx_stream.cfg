SPECIFICATION TxSpec
CONSTANTS
    BLE_MIDI_TX_PACKET_MAX_SIZE = 6
    running_status_enabled = FALSE
    note_off_as_note_on = FALSE
    TX_QUEUE_PACKET_COUNT = 1
    SYSEX_DATA_CHUNK_MAX_BYTE_COUNT = 3
    TX_FIFO_SIZE = 9
    Messages <- OneMessage
    SysexData <- ChunkOfThree
    Timestamps = {7}
    Mtus = {8, 9}
    UsesSysex = TRUE
    MtuMayShrink = FALSE
    ProducerPreempts = FALSE
    NOTIF_BUF_COUNT = 1
    StackReportsDropped = TRUE
    MaxCalls = 3
    MaxConnections = 1
CHECK_DEADLOCK FALSE
INVARIANTS
    TxTypeOK
    WaitingHasWakeup
PROPERTY
    IsMidiStream
