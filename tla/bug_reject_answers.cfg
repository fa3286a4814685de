CONSTANTS
    MaxCalls = 2
    MaxDials = 1
    MaxBlocks = 2
    MaxPopups = 2

SPECIFICATION Spec

INVARIANTS
    OnlyAcceptedIsAnswered
