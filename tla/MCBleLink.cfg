SPECIFICATION Spec
CONSTANTS
    Clients = {c1}
    Addrs = {a1}
    Servers = {s1}
    NULL = NULL
    MaxData = 1
CONSTRAINT
    UntilOverlap
INVARIANTS
    EndsAgree
    OnlyEarlyNotesAreMissed
PROPERTIES
    WritesArrive
    BothHearTheEnd
