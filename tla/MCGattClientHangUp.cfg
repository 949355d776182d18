SPECIFICATION Spec
CONSTANTS
    Conns = {c1}
    Addrs = {a1}
    NULL = NULL
PROPERTIES
    DisconnectTakesEffect
