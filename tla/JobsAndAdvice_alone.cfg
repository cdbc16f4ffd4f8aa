SPECIFICATION SumSpec
CONSTANTS
    i1 = i1
    i2 = i2
    Requests = {r1}
    Runs = {run1}
    Users = {u1, u2}
    Keys = {k1}
    MaxTime = 2
    Offers <- MCOffers
    MaxJobs = 2
    MaxClock = 1
    MaxEdits = 2
    MaxWrites = 1
    Packages <- MCPackages
    Kinds = {"update", "death", "offline", "logout", "rollback", "install", "uninstall",
             "session", "expired", "mismatched"}
    MaxDisturbances = 4
INVARIANTS
    OneDecision
    RetriesAgree
    NonceIsBoundAndSpent
    ReadsOneVersion
    CommandResultIsTrue
PROPERTIES
    CommandEnds
    ObeyedAdviceCompletes
CHECK_DEADLOCK FALSE
