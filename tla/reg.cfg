CONSTANTS
    Users = {main}
    Workers = {w}
    Regc = {r1, r2}
    None = None
    Codes = {200, 401, 403, 423, 503}
    SendFails = TRUE

SPECIFICATION Spec

INVARIANTS
    TypeOK
    HasTsxExact
    NotFreedInUse
    LookedAfter

VIEW View
