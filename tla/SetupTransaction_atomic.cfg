SPECIFICATION Spec
CONSTANTS
    v1 = v1
    v2 = v2
    None = None
    Versions <- TwoVersions
    MaxFaults = 2
INVARIANTS
    CompensationRestores
    CompensationNeedsNoLuck
    RollbackHasTarget
PROPERTIES
    SetupIsAtomic
