SPECIFICATION Spec
CONSTANTS
    Bytes = {0, 1}
    MaxLen = 1
    MaxReports = 2
INVARIANTS
    ResultsAreReports
CHECK_DEADLOCK FALSE
