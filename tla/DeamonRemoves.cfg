SPECIFICATION Spec
CONSTANTS
    KeepAlive = 2
    TimeoutSec = 1
    MaxId = 2
    StartTime = 2
    Blocking = FALSE
    BrokerMessages <- MCBrokerMessages
    MaxTime = 3
    MaxRx = 1
    MaxIssued = 2
INVARIANTS RemoveReturns
CHECK_DEADLOCK FALSE
