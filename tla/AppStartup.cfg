CONSTANTS
    Width = 2
    Parts = {"a", "b", "c", "d", "80", "443", "22", "ns", "r", "1", "2"}
    Dropped = dropped
    Blank = blank
    None = none
    Texts = {"s0", "s1", "s3", "u0", "u1", "u3"}
    Commands <- MCCommands
    Remembered <- MCRemembered
    OtherRecords <- MCOtherRecords
    Documents <- MCDocuments
    Extra <- MCExtra
    MaxStarts = 2
    MaxOthers = 1
SPECIFICATION FairSpec
INVARIANTS
    ValuesAreChosen
    CompleteCommandsAreAccepted
    ServesOneSession
    RulesJoinOnePlace
    ExtraIsWhatItSays
PROPERTY
    StartupEnds
CHECK_DEADLOCK FALSE
