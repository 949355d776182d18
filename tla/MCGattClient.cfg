SPECIFICATION Spec
CONSTANTS
    Conns = {c1, c2}
    Addrs = {a1, a2}
    NULL = NULL
CONSTRAINT
    UntilOverlap
INVARIANTS
    TypeOK
    DialsAskedAddress
    NoMisuseAlone
PROPERTIES
    ImplementsChannel
    LoopEndIsTold
