\* Up to three edits, before or during the capture; two files may change.
SPECIFICATION Spec
CONSTANTS
    Absent = Absent
    None = None
    Tree <- MCTree
    Allowed <- MCAllowed
    Contents <- MCContents
    MaxFiles = 2
    MaxFileBytes = 3
    MaxTotalBytes = 4
    MaxPatchBytes = 7
    MaxChangedLines = 5
    MaxEdits = 3
CHECK_DEADLOCK FALSE
INVARIANTS
    HandoffWithinBounds
    RefusedForAReason
