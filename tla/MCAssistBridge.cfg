SPECIFICATION AssistSpec
CONSTANTS
    Options <- MCOptions
    MaxTurns = 3
    MaxSilent = 2
    MaxErrors = 2
    MaxOthers = 1
CHECK_DEADLOCK FALSE
INVARIANTS
    HearsNoEcho
    WaitIsOwed
    HangupAfterReply
PROPERTIES
    HangupKept
