SPECIFICATION FairCallSpec
CONSTANTS
    OutCalls = {o1}
    InCalls = {}
    NoCall = NoCall
    Tags = {t1, t2}
    NoTag = NoTag
    BadAnswers = {t2}
    MaxRetx = 1
    MaxDurationSet = TRUE
CHECK_DEADLOCK FALSE
INVARIANTS
    ForkedAnswersClosed
PROPERTIES
    ConnectsOnce
    RingTimeoutEnds
