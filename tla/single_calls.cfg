SPECIFICATION Spec
CONSTANTS
    BLE_MIDI_TX_PACKET_MAX_SIZE = 64
    running_status_enabled = TRUE
    note_off_as_note_on = TRUE
    Messages <- AnyMessages
    SysexData <- MixedData
    Timestamps = {0, 127, 128, 8191}
    Mtus = {23, 100}
    Calls = {"msg", "start", "data", "end"}
    StackMayRefuse = TRUE
INVARIANTS
    NothingInvented
    SaidIsHeard
