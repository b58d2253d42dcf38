\* Two addresses, a prompt event loop: a stream is neither returned nor closed.
SPECIFICATION Spec
CONSTANTS
    N = 2
    Delay = 2
    Timeouts = {5}
    Lag = FALSE
    MaxCancels = 0
CHECK_DEADLOCK FALSE
INVARIANTS
    StreamsAccountedFor
