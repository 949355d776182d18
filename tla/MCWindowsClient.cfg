SPECIFICATION Spec
CONSTANTS
    Devices = {d1, d2}
    NULL = NULL
    Signals = {SIGINT, SIGBREAK}
    MaxSends = 3
INVARIANTS
    SendsWholeDevice
    FinishIsOfThisSend
PROPERTIES
    DisconnectEndsSend
CHECK_DEADLOCK FALSE
