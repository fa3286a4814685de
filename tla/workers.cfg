CONSTANTS
    Roles = {"UAC", "UAS"}
    Methods = {"INVITE", "OTHER"}
    w0 = w0
    w1 = w1
    Workers = {w0, w1}
    DirectOutcomes = {"sent", "pending", "failed"}
    ResolveOutcomes = {"sent", "pending"}

SPECIFICATION Spec

CONSTRAINT InviteSentAtOnce

INVARIANTS
    RefsAccounted
    OneFinalResponse
