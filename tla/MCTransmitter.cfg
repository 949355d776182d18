SPECIFICATION Spec
CONSTANTS
    Devices = {d1, d2}
    NULL = NULL
    ShowMaxNum = 3
    MaxFiles = 2
    MaxKeys = 2
INVARIANTS
    TypeOK
    SelectionFromScreen
    ListIsLive
    NamesAreWhole
    NamesOutliveTransfer
PROPERTIES
    EndsOnceTold
CHECK_DEADLOCK FALSE
