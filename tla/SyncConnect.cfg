\* Five addresses share one budget; with and without a timeout, on a thread
\* that is prompt or may be late.
SPECIFICATION Spec
CONSTANTS
    N = 5
    Budget = 6
CHECK_DEADLOCK FALSE
INVARIANTS
    DeniedForAReason
    OverByDeadline
PROPERTIES
    KeepsPromise
