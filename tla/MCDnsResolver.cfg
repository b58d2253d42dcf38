\* Three calls compete for two slots; caller threads are scheduled promptly.
SPECIFICATION Spec
CONSTANTS
    c1 = c1
    c2 = c2
    c3 = c3
    Calls <- MCThreeCalls
    MaxSlots = 2
    Timeout = 3
    Prompt = TRUE
SYMMETRY MCCallSymmetry
INVARIANTS
    SlotConservation
    AnswerIsOfItsWorker
    RefusedEarlyOnlyOnFailure
    InTime
