SPECIFICATION Spec
CONSTANTS
    Conns = {s1, s2}
    NULL = NULL
INVARIANTS
    TypeOK
    DestroysLiveServer
PROPERTIES
    ImplementsChannel
    ConnectIsClosed
