CONSTANTS
    Roles = {"UAC", "UAS"}
    Methods = {"INVITE", "BYE", "OTHER"}
    w0 = w0
    Workers = {w0}
    DirectOutcomes = {"sent", "pending", "failed", "broken"}
    ResolveOutcomes = {"sent", "pending", "failed"}

SPECIFICATION Spec

INVARIANTS
    TypeOK
    TimeoutArmed
    NotFreedInUse
    EndIsReported
    InviteRetransmissionStops
    RefsAccounted
    LastResponseKept
    OneFinalResponse

PROPERTIES
    ImplementsFsm
