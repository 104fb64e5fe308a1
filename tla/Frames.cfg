SPECIFICATION Spec
CONSTANTS
    Message <- MCMessage
    Base = 4
    BufferSize = 7
    Blocking = FALSE
    MaxMessages = 3
INVARIANTS TypeOK StaysInside
PROPERTIES RefinesMessageStream ReaderReturns
CHECK_DEADLOCK FALSE
