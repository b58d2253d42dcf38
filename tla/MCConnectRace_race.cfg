\* Four addresses, so that two children can queue behind a sleeping one; with and
\* without a deadline; attempts that may hang; a late event loop.
SPECIFICATION Spec
CONSTANTS
    N = 4
    Delay = 1
    Timeouts <- MCNoneOrThree
    Lag = TRUE
    MaxCancels = 1
CHECK_DEADLOCK FALSE
INVARIANTS
    ActiveCounts
    DeniedForAReason
    DecisionStands
    NothingLeftRunning
    ObservedStreamsAccountedFor
PROPERTIES
    RaceEnds
    KeepsPromise
    PacedStarts
    StartsInOrder
