SPECIFICATION Spec
CONSTANTS
    BLE_MIDI_TX_PACKET_MAX_SIZE = 8
    running_status_enabled = TRUE
    note_off_as_note_on = FALSE
    TX_QUEUE_PACKET_COUNT = 3
    SYSEX_DATA_CHUNK_MAX_BYTE_COUNT = 3
    TX_FIFO_SIZE = 6
    Messages <- AllMessages
    SysexData <- NoSysexData
    Timestamps = {7, 135}
    Mtus = {9, 10}
    UsesSysex = FALSE
    MtuMayShrink = FALSE
    ProducerPreempts = TRUE
INVARIANTS
    StreamPreserved
    PacketsFit
    HasDataMeansPacket
