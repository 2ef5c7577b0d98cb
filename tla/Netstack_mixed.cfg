CONSTANTS
    TcpClients = {t1}
    UdpClients = {u1}
    Handles = {0, 1}
    MAX_CONTROL_BATCH = 2
    FirstPort = 40000
    LastPort = 40001
    ChunkLen = 1
    TxCapacity = 2
    MaxSent = 2
    MaxGot = 1
    MaxQueue = 1
    NoId = noid
SPECIFICATION Spec
INVARIANTS
    NothingLeftUndone
    CloseHasACause
