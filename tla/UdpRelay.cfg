CONSTANTS
    Peers = {app, stranger}
    Waker = waker
    NoPeer = nopeer
    Capacity = 2
    MaxReplies = 1
SPECIFICATION FairSpec
INVARIANTS
    OneClient
PROPERTIES
    ThreadsEnd
CHECK_DEADLOCK FALSE
