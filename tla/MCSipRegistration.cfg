SPECIFICATION FairSpec
CONSTANTS
    RetryMin = 10
    RetryMax = 40
    AuthRetryMax = 90
    ConfiguredExpires = 300
    MinExpires <- MCMinExpires
    Addresses <- MCAddresses
    LocalAddress = "local"
    UseObserved = TRUE
    AuthFailureBound = 3
CHECK_DEADLOCK FALSE
PROPERTIES
    Recovers
INVARIANTS
    OneDriver
    LoopAlive
    StatusHonest
    StoppedIsClosed
    RejectionsSlowDown
