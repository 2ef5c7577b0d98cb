CONSTANTS
    TcpClients = {t1}
    UdpClients = {}
    Handles = {0}
    MAX_CONTROL_BATCH = 2
    FirstPort = 40000
    LastPort = 40001
    ChunkLen = 2
    TxCapacity = 1
    MaxSent = 6
    MaxGot = 2
    MaxQueue = 3
    NoId = noid
SPECIFICATION FairSpec
INVARIANTS
    UploadInOrder
    NothingReceivedIsLost
PROPERTIES
    CloseEndsConnection
    UploadProceeds
