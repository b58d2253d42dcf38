\* Two coroutines, one thread, one slot, lookups that may hang,
\* cancellations at any moment, threads scheduled with any delay.
SPECIFICATION AsyncSpec
CONSTANTS
    c1 = c1
    c2 = c2
    Calls <- MCTwoCalls
    MaxSlots = 1
    Timeout = 1
    Prompt = FALSE
    PoolSize = 1
PROPERTIES
    EveryAwaitEnds
    SlotsComeBack
    KeepsPromise
