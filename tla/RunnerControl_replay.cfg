SPECIFICATION FairSpec
CONSTANTS
    j1 = j1
    NoJob = NoJob
    NoSession = NoSession
    NoPayload = NoPayload
    Jobs <- OneJob
    Idempotent <- OneJob
    Cancellable <- OneJob
    ReuseSession = FALSE
    MaxVersion = 3
    MaxSession = 2
    MaxFaults = 3
CHECK_DEADLOCK FALSE
INVARIANTS
    StartedJobIsJournaled
    ExecutesUnderDurableRecord
    StaleOutcomeIsFenced
PROPERTIES
    ImplementsJobOutcome
    LostLeaseStopsWorker
