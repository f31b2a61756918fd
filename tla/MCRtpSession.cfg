SPECIFICATION RtpSpec
CONSTANTS
    Addrs = {"sdp", "nat", "other"}
    LearnCount = 3
    SeqMod = 5
    SeqGap = 2
    ToneFrames = 2
    EndPackets = 2
    BufferMax = 1
    PressPackets = 3
    Scenarios <- MCScenarios
CHECK_DEADLOCK FALSE
INVARIANTS
    WatchdogGuardsCall
    OneDigitPerPress
    AnswerIsAcceptable
PROPERTIES
    LatchNeedsRun
    SentInOrder
