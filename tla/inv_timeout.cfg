CONSTANTS
    MayTimeout = TRUE
    MayCancel = FALSE
    MaxReinvites = 0

SPECIFICATION FairSpec

PROPERTIES
    HangupEnds

CHECK_DEADLOCK FALSE
