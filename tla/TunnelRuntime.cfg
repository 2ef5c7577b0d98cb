CONSTANTS
    STREAM_RETRY_LIMIT = 2
    COMMAND_HEARTBEAT_FAILURE_LIMIT = 2
    Window = 3
    MaxQueue = 1
    Unreliable = {"rx", "tx", "command"}
    NoReason = none
    NoPacket = nopacket
    HeartbeatPacket = hb
SPECIFICATION FairSpec
INVARIANTS
    NoSilentDeath
    TxKeepsOrder
PROPERTIES
    LostCommandStreamEndsProcess
    ImplementsFailStop
    ReopeningEnds
    TxHeartbeatNotStarved
CHECK_DEADLOCK FALSE
