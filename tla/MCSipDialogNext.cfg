SPECIFICATION CallSpec
CONSTANTS
    OutCalls = {o1, o2}
    InCalls = {}
    NoCall = NoCall
    Tags = {t1}
    NoTag = NoTag
    BadAnswers = {}
    MaxRetx = 0
    MaxDurationSet = TRUE
CHECK_DEADLOCK FALSE
SYMMETRY CallSymmetry
VIEW PlacedCallsView
INVARIANTS
    TimersBelongToCall
