\* One thread for two calls: the second await outlasts the timeout.
SPECIFICATION AsyncSpec
CONSTANTS
    c1 = c1
    c2 = c2
    Calls <- MCTwoCalls
    MaxSlots = 2
    Timeout = 2
    Prompt = TRUE
    PoolSize = 1
INVARIANTS
    AwaitInTime
