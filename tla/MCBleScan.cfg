SPECIFICATION ScanSpec
CONSTANTS
    Threads = {t1, t2, t3}
    MaxReports = 2
INVARIANTS
    ScanTypeOK
    LateCallBound
    StuckFlagNeedsDeadReader
    AtMostOneReader
    ReaderIsFed
PROPERTIES
    SpawnedScanListens
