CONSTANTS
    Workers = {rx, tx, command, netstack}
    Main = main
    NoReason = none
    Free = free
SPECIFICATION FairSpec
INVARIANTS
    NoMissedWakeup
PROPERTIES
    ImplementsFailStop
CHECK_DEADLOCK FALSE
