\* Three iterations of a body of unknown length, or of one declared to be
\* shorter than the policy allows.
SPECIFICATION Spec
CONSTANTS
    i1 = i1
    i2 = i2
    i3 = i3
    Iterations <- MCIterations
    MaxBytes = 8
    Declarations <- MCDeclarations
    MaxChunk = 3
SYMMETRY MCIterationSymmetry
CHECK_DEADLOCK FALSE
INVARIANTS
    SentWithinBounds
    CompleteIsExact
    OneReader
