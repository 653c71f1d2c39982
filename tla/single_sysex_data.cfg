SPECIFICATION Spec
CONSTANTS
    BLE_MIDI_TX_PACKET_MAX_SIZE = 64
    running_status_enabled = FALSE
    note_off_as_note_on = FALSE
    Messages = {}
    SysexData <- TwoBytes
    Timestamps = {0, 127, 128, 8191}
    Mtus = {23, 100}
    Calls = {"start", "data"}
    StackMayRefuse = FALSE
INVARIANT
    ReportedIsHeard
