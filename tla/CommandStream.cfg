CONSTANTS
    Kinds = {"send-ip", "heartbeat", "shutdown"}
    COMMAND_HEARTBEAT_FAILURE_LIMIT = 3
    BufLen = 7
    MaxOwed = 3
    MaxWire = 10
SPECIFICATION FairStreamSpec
INVARIANT
    EndIsDeserved
PROPERTY
    SilenceIsNoticed
CHECK_DEADLOCK FALSE
