SPECIFICATION Spec
CONSTANTS
    j1 = j1
    NoJob = NoJob
    NoSession = NoSession
    NoPayload = NoPayload
    Jobs <- OneJob
    Idempotent = {}
    Cancellable <- OneJob
    ReuseSession = FALSE
    MaxVersion = 3
    MaxSession = 2
    MaxFaults = 2
CHECK_DEADLOCK FALSE
INVARIANTS
    OutcomeSavedBeforeSubmission
