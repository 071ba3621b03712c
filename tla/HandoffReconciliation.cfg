SPECIFICATION Spec
CONSTANTS
    Handoffs = {h1, h2, h3}
    Reconciler = reconciler
    Triggers = {t1}
    DueScanLimit = 2
    CycleLimit = 1
    MaxAttempts = 2
    Lease = 2
    RetryDelay <- MCRetryDelay
    MaxTime = 4
    MaxErrors = 1
SYMMETRY Symmetry
INVARIANTS NotOvertaken WaitsItsTurn
CHECK_DEADLOCK FALSE
