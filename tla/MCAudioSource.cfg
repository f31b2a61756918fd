SPECIFICATION SourceSpec
CONSTANTS
    Sources = {s1, s2}
    Streamed = {s1}
    NoSource = NoSource
    MaxCalls = 2
CHECK_DEADLOCK FALSE
INVARIANTS
    OneCompletion
PROPERTIES
    EverySourceEnds
