CONSTANTS
    Asks <- MCAsks
    Proxies <- MCProxies
    HTTP_PROXY_HEAD_MAX_SIZE = 1
    MaxUp = 2
    MaxDown = 2
SPECIFICATION FairSpec
INVARIANTS
    RepliesAreHonest
    TunnelHandleIsClosed
PROPERTIES
    UploadIsAPipe
    DownloadIsAPipe
    SessionEnds
CHECK_DEADLOCK FALSE
