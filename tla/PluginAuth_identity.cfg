SPECIFICATION MCSpec
CONSTANTS
    a1 = a1
    a2 = a2
    o1 = o1
    o2 = o2
    f1 = f1
    None = None
    Accounts <- TwoAccounts
    Orgs <- TwoOrgs
    Flows <- OneFlow
    MaxFaults = 2
    MaxDirect = 1
INVARIANTS
    RunnerIdIsBacked
    BootstrapIsReady
PROPERTIES
    CommandsStartWholeIdentities
SYMMETRY Symmetry
CHECK_DEADLOCK FALSE
