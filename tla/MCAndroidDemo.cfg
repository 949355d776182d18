SPECIFICATION FairSpec
CONSTANTS
    Devices = {d1, d2}
    BtName <- MCBtName
    Binders = {b1, b2}
    MaxClicks = 2
    MaxCallbacks = 2
INVARIANTS TypeOK MapFollowsService BoardSettles HistoryIsComplete
PROPERTY SpinnerCatchesUp
CHECK_DEADLOCK FALSE
