SPECIFICATION Spec
CONSTANTS
    BLE_MIDI_TX_PACKET_MAX_SIZE = 12
    running_status_enabled = TRUE
    note_off_as_note_on = TRUE
    Messages <- AllMessages
    SysexData <- OneByte
    SysexMsgs <- ShortSysex
    StartTimes = {126, 8190}
    Delays = {1, 3}
    MaxSpan = 4
INVARIANTS
    TypeOK
    PacketDecodes
    ContentsDecode
