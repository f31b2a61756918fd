SPECIFICATION CallSpec
CONSTANTS
    OutCalls = {o1}
    InCalls = {i1}
    NoCall = NoCall
    Tags = {t1}
    NoTag = NoTag
    BadAnswers = {}
    MaxRetx = 1
    MaxDurationSet = TRUE
CHECK_DEADLOCK FALSE
INVARIANTS
    RoleMatchesState
    TimersBelongToCall
    EveryCallReported
