SPECIFICATION Spec
SYMMETRY Symmetric
CONSTANTS
    Threads = {t1, t2}
    MaxReports = 1
    Settings = {p1}
    Payloads = {x1}
    NULL = NULL
    MaxOpen = 3
INVARIANTS
    RunsDryByFailures
    ScanHasReader
