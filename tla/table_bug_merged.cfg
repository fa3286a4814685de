CONSTANTS
    Workers = {w1}
    User = main
    Tsx = {x1, x2, x3}
    Copies = {a, b}
    Calls = {c}
    None = None

SPECIFICATION Spec

INVARIANTS
    MergedDetected
