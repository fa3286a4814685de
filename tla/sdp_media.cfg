CONSTANTS
    Codecs <- MCCodecs
    TelEvents <- MCTelEvents
    ClockRate <- MCClockRate
    LastPT = 100
    TelPT = 99
    MaxFmt = 3
    Dirs <- MCDirs

SPECIFICATION Spec

INVARIANTS
    AnswerIsReference
    AnswerIsAccepted

CHECK_DEADLOCK FALSE
