SPECIFICATION ClientSpec
CONSTANTS
    RetryMin = 10
    RetryMax = 10
    AuthRetryMax = 10
    ConfiguredExpires = 60
    MinExpires <- MCMinExpires
    Addresses <- MCAddresses
    LocalAddress = "local"
    UseObserved = FALSE
    AuthFailureBound = 0
    OutCalls = {o1}
    InCalls = {}
    NoCall = NoCall
    Tags = {t1}
    NoTag = NoTag
    BadAnswers = {}
    MaxRetx = 0
    MaxDurationSet = FALSE
CHECK_DEADLOCK FALSE
INVARIANTS
    SocketUnderCall
PROPERTIES
    ImplementsRegistration
    ImplementsCalls
    NoOtherDrops
