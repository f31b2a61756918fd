SPECIFICATION MediaSpec
CONSTANTS
    Endpoints = {e1, e2}
    NoEndpoint = NoEndpoint
    Codecs = {pcmu, g722}
    Fallback = pcmu
    Rate <- MCRate
    NoSession = NoSession
    MaxSession = 2
    MaxTasks = 3
CHECK_DEADLOCK FALSE
INVARIANTS
    MediaOfThisCall
    EndedCallIsSilent
PROPERTIES
    ImplementsOneMedia
    EstablishedGetsMedia
