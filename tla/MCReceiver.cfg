SPECIFICATION Spec
CONSTANTS
    Transfers = {t1, t2, t3}
INVARIANTS
    TransferIsSeenThrough
PROPERTIES
    FinishEndsProgram
CHECK_DEADLOCK FALSE
