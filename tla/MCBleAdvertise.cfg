SPECIFICATION AdvSpec
CONSTANTS
    Settings = {p1, p2}
    Payloads = {x1, x2}
    NULL = NULL
    MaxOpen = 2
INVARIANTS
    AdvTypeOK
    CallTakesEffect
    SmoothCallSucceeds
