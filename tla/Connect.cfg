SPECIFICATION LifeSpec
CONSTANTS
    RetryMax = 3
    DefaultKeepAlive = 60
    KeepAlives <- MCKeepAlives
    Descriptors <- MCDescriptors
    MaxConnects = 4
    MaxAnswers = 2
INVARIANTS TypeOK SuccessMeansAccepted RetriesBounded DescriptorsAccounted
PROPERTIES CallReturns DeamonLeavesNothing
CHECK_DEADLOCK FALSE
