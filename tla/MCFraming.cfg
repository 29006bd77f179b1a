SPECIFICATION BytesSpec
CONSTANTS
    Char <- MCChar
    Self <- MCSelf
    Port <- MCPort
    Guests <- MCGuests
    Texts <- MCTexts
    Relayed <- MCRelayed
    BufferLen = 22
    MaxRequests = 2
INVARIANTS
    FramingTypeOK
    FieldsOfOneRequest
    EachRequestOnce
    TagIsOfRequest
    WholeIsReadBack
    UntaggedReachesNoCase
CHECK_DEADLOCK FALSE
