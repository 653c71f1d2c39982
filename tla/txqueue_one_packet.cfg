SPECIFICATION Spec
CONSTANTS
    BLE_MIDI_TX_PACKET_MAX_SIZE = 6
    running_status_enabled = TRUE
    note_off_as_note_on = FALSE
    TX_QUEUE_PACKET_COUNT = 1
    SYSEX_DATA_CHUNK_MAX_BYTE_COUNT = 3
    TX_FIFO_SIZE = 9
    Messages <- NoteAndClock
    SysexData <- AllSysexData
    Timestamps = {7}
    Mtus = {8, 9}
    UsesSysex = TRUE
    MtuMayShrink = FALSE
    ProducerPreempts = TRUE
INVARIANTS
    TypeOK
    StreamPreserved
    PacketsFit
    HasDataMeansPacket
