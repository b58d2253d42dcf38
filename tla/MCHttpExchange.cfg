\* Two exchanges compete for the one connection of the pool.
SPECIFICATION Spec
CONSTANTS
    e1 = e1
    e2 = e2
    Exchanges <- MCExchanges
    Requests <- MCRequests
    Responses <- MCResponses
    Policy <- MCPolicy
    Chunks = {6}
    Expansion = 3
CHECK_DEADLOCK FALSE
INVARIANTS
    OneReadingOfTheRequest
    BodyAsDeclared
    DecodedWithinBudget
    NothingHeldWhenOver
PROPERTIES
    EveryWaitEnds
