CONSTANTS
    MayTimeout = FALSE
    MayCancel = TRUE
    MaxReinvites = 2

SPECIFICATION Spec

INVARIANTS
    TypeOK
    ByeAfterAck
    OneAtATime
    InviteTsxExact
    EndsBoth

PROPERTIES
    NeverBack

CHECK_DEADLOCK FALSE

CONSTRAINT CancelledAlone
