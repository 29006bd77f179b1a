SPECIFICATION FairInfoSpec
CONSTANTS
    Messages = {m1, m2, tagged}
    Garbage = Garbage
    Request = tagged
    MaxCalls = 3
INVARIANTS
    InfoTypeOK
    ContentOnlyOnce
    OptOutlivesThread
    OkMeansSent
PROPERTIES
    SendInfoReturns
CHECK_DEADLOCK FALSE
