SPECIFICATION SideSpec
CONSTANTS
    SYSEX_TX_MESSAGE_SIZE = 5
    SYSEX_TX_MAX_CHUNK_SIZE = 2
    SHORT_SIZE = 2
    BUTTON_Q_SIZE = 1
    FIFO_SIZE = 11
    NotifBufCount <- Buffers
    MaxRest = 1
    MaxUpsets = 1
    RINGBUF_MESSAGES = 3
    Packets <- AnyPackets
    MaxSysexBytes = 12
CHECK_DEADLOCK FALSE
INVARIANTS
    SysexWellFormed
    NotesFollowButton
    CountInRange
PROPERTIES
    TransferEnds
    SysexEnds
    MessagesLogged
