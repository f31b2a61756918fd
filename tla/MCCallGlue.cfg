SPECIFICATION GlueSpec
CONSTANTS
    MaxCalls = 3
    Asks = {a1, a2}
    Tapes = {t1, t2}
    Scenarios <- MCScenarios
    None = None
CHECK_DEADLOCK FALSE
INVARIANTS
    
    PinIsPrivate
    HangupClosesFile
PROPERTIES
    EveryCallIsFiled
