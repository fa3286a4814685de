CONSTANTS
    Codecs <- MCCodecs
    TelEvents <- MCTelEvents
    ClockRate <- MCClockRate
    LastPT = 100
    TelPT = 99
    MaxMedia = 4
    Capabilities <- AudioAndLines
    PreferRemote = TRUE
    MultiCodec = FALSE
    MaxSent = 4

SPECIFICATION FairSpec

INVARIANTS
    TypeOK
    SessionsAgree
    RepliesAwaited
    CalledPtStable
    VersionsGrow

PROPERTIES
    LinesKept
    Settles

CHECK_DEADLOCK FALSE
