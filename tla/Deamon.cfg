SPECIFICATION Spec
CONSTANTS
    KeepAlive = 2
    TimeoutSec = 1
    MaxId = 2
    StartTime = 0
    Blocking = FALSE
    BrokerMessages <- MCBrokerMessages
    MaxTime = 4
    MaxRx = 1
    MaxIssued = 3
INVARIANTS TypeOK IdOrder RepliesInOrder Accounted
PROPERTIES PingSpacing KeepAliveServed TimeoutServed RxServed LockReleased
CHECK_DEADLOCK FALSE
