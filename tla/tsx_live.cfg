CONSTANTS
    Roles = {"UAC", "UAS"}
    Methods = {"INVITE", "BYE", "OTHER"}
    w0 = w0
    Workers = {w0}
    DirectOutcomes = {"sent", "pending"}
    ResolveOutcomes = {"sent", "pending"}

SPECIFICATION FairSpec

CONSTRAINT InviteSentAtOnce

PROPERTIES
    EventuallyFreed
    RequestEnds
    ImplementsFairFsm
