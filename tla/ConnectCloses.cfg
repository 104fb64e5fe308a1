SPECIFICATION LifeSpec
CONSTANTS
    RetryMax = 3
    DefaultKeepAlive = 60
    KeepAlives <- MCKeepAlives
    Descriptors <- MCDescriptors
    MaxConnects = 4
    MaxAnswers = 2
INVARIANTS ConnectedHasSocket
CHECK_DEADLOCK FALSE
