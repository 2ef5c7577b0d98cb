CONSTANTS
    TcpClients = {t1, t2}
    UdpClients = {u1}
    Handles = {0, 1, 2}
    MAX_CONTROL_BATCH = 2
    FirstPort = 40000
    LastPort = 40001
    ChunkLen = 1
    TxCapacity = 1
    MaxSent = 0
    MaxGot = 0
    MaxQueue = 1
    NoId = noid
SPECIFICATION Spec
SYMMETRY Symmetry
INVARIANTS
    SocketsBelongToEntries
    PortsAreNotReusedEarly
