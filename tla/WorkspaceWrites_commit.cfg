SPECIFICATION Spec
CONSTANTS
    d1 = d1
    d2 = d2
    N = 3
    Dirs <- TwoDirs
    Dir <- Places
    MaxTicks = 1
    MaxEdits = 2
    MaxFaults = 2
CHECK_DEADLOCK FALSE
INVARIANTS
    PatchIsReversible
    FailedPatchLeavesNothing
PROPERTIES
    ReplacesOnlyWhatWasRead
