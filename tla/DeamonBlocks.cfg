SPECIFICATION Spec
CONSTANTS
    KeepAlive = 2
    TimeoutSec = 1
    MaxId = 2
    StartTime = 0
    Blocking = TRUE
    BrokerMessages <- MCBrokerMessages
    MaxTime = 3
    MaxRx = 1
    MaxIssued = 2
PROPERTIES KeepAliveServed
CHECK_DEADLOCK FALSE
