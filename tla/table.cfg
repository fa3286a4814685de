CONSTANTS
    Workers = {w1, w2}
    User = main
    Tsx = {x1, x2}
    Copies = {a, b}
    Calls = {c}
    None = None

SPECIFICATION Spec

INVARIANTS
    Findable
    UsedAlive

SYMMETRY Symmetry
