SPECIFICATION Spec
CONSTANTS
    j1 = j1
    NoJob = NoJob
    NoSession = NoSession
    NoPayload = NoPayload
    Jobs <- OneJob
    Idempotent = {}
    Cancellable <- OneJob
    ReuseSession = TRUE
    MaxVersion = 3
    MaxSession = 2
    MaxFaults = 3
CHECK_DEADLOCK FALSE
INVARIANTS
    AtMostOnce
    DurableLeasedNeverExecuted
    LeaseNeverAhead
    ControllerOwnsRecord
PROPERTIES
    DurablePhaseNeverRegresses
