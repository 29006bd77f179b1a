SPECIFICATION FairSessionSpec
CONSTANTS
    Messages = {m1, m2}
    Garbage = Garbage
    MaxTaken = 4
INVARIANTS
    SessionTypeOK
    WireIsTaken
    NoWriteDuringSend
PROPERTIES
    ImplementsChannel
    TakenIsSent
CHECK_DEADLOCK FALSE
