-------------------------- MODULE RecoveryJournal --------------------------
(***************************************************************************)
(* The operations of RunnerJobRecoveryJournal (loomex-core/execution.rs)   *)
(* on one record of the journal document, as pure operators: for every     *)
(* operation, the condition under which the code does not return an error  *)
(* and the record it leaves.  Time is abstracted to the generation of the  *)
(* lease: lease generation v is past its deadline exactly when `lapsed`    *)
(* holds of it.  attempt_count and payload_fingerprint never differ from   *)
(* the server's in a server that keeps both monotone, so identity is the   *)
(* lease version alone.                                                    *)
(***************************************************************************)
EXTENDS Naturals

CONSTANTS
    NoSession,      \* sessionId absent from a server snapshot
    NoPayload       \* terminal_payload = None

-----------------------------------------------------------------------------
(* Phases and statuses *)

PendingPhases == {"SucceededPendingAck", "FailedPendingAck"}

\* RecoverableJobPhase; "Absent" stands for a job that has no record.
Phases == {"Absent", "Leased", "Running"} \cup PendingPhases

\* RemoteRunnerJobStatus
TerminalStatuses == {"Succeeded", "Failed", "Canceled", "Expired"}

ActiveStatuses == {"Leased", "Running"}

Statuses == {"Queued", "Canceling"} \cup ActiveStatuses \cup TerminalStatuses

\* RemoteRunnerJobStatus::is_terminal
IsTerminal(remote) == remote.status \in TerminalStatuses

\* A job that is not in document.jobs.
NoRecord ==
    [phase |-> "Absent", session |-> NoSession, version |-> 0, payload |-> NoPayload]

HasRecord(local) == local.phase # "Absent"

-----------------------------------------------------------------------------
(* Transitions of one record *)

\* record_lease for a lease response `remote` owned by session s.  An existing
\* record is never equal to the new one: the server advanced the version.
RecordLeaseOk(local) == ~HasRecord(local)

RecordLease(remote, s) ==
    [phase |-> "Leased", session |-> s, version |-> remote.version, payload |-> NoPayload]

\* job_mut_for_session
OwnedLocally(local, s) == HasRecord(local) /\ local.session = s

\* Variant of MarkRunning: the lease is checked and the phase forgotten.
MarkRunningKeepsPhase(local) == local

\* mark_running: refuses an expired lease, and a record that already has an
\* outcome; a record that is Running stays Running.
MarkRunningOk(local, s, expired) ==
    /\ OwnedLocally(local, s)
    /\ ~expired
    /\ local.phase \in {"Leased", "Running"}

MarkRunning(local) == [local EXCEPT !.phase = "Running"]

\* Variants of RenewLease: the next version is guessed instead of read; the record
\* is written like that of a new lease.
RenewLeaseGuesses(local, version) == [local EXCEPT !.version = version + 1]

RenewLeaseStartsOver(local, version) ==
    [local EXCEPT !.version = version, !.phase = "Leased"]

\* renew_lease: the version must strictly advance.
RenewLeaseOk(local, s, version) ==
    OwnedLocally(local, s) /\ version > local.version

RenewLease(local, version) == [local EXCEPT !.version = version]

\* record_terminal, the body of record_succeeded and record_failed: only a
\* Running record can take an outcome.
RecordTerminalOk(local, s) == OwnedLocally(local, s) /\ local.phase = "Running"

RecordTerminal(local, phase, payload) ==
    [local EXCEPT !.phase = phase, !.payload = payload]

\* acknowledge_terminal: only a record with a persisted outcome is forgotten.
AcknowledgeOk(local) == local.phase \in PendingPhases

\* The snapshot is not older than the durable record.
SameIdentity(local, remote) == remote.version >= local.version

\* forget_server_terminal
ForgetOk(local, remote) ==
    HasRecord(local) /\ IsTerminal(remote) /\ SameIdentity(local, remote)

\* Variant of Adopt: the reclaimed lease starts over.
AdoptAsNewLease(local, remote, s) ==
    [local EXCEPT !.phase = "Leased", !.session = s, !.version = remote.version]

\* adopt_reclaimed_lease: ownership moves to session s and the phase is kept.
AdoptOk(local, remote, s) ==
    /\ HasRecord(local)
    /\ remote.version > local.version
    /\ remote.session = s
    /\ remote.status = "Leased"

Adopt(local, remote, s) ==
    [local EXCEPT !.session = s, !.version = remote.version]

-----------------------------------------------------------------------------
(* recovery_action *)

\* The old lease, held by another session, is still authoritative.
LeaseHeldElsewhere(remote, s) ==
    remote.session # s /\ remote.status \in ActiveStatuses /\ ~remote.lapsed

\* Variant of OwnedAction: every Running record is resumed.
OwnedActionResumesAll(local, remote, idempotent) ==
    CASE local.phase = "Leased" -> "StartExecution"
      [] local.phase = "Running" -> "ResumeIdempotentExecution"
      [] local.phase = "SucceededPendingAck" -> "SubmitSucceeded"
      [] OTHER -> "SubmitFailed"

\* What the phase of a record calls for once session s owns an active lease.
OwnedAction(local, remote, idempotent) ==
    CASE local.phase = "Leased" -> "StartExecution"
      [] local.phase = "Running" ->
            IF remote.status = "Leased" /\ idempotent
            THEN "ResumeIdempotentExecution"
            ELSE "ManualReconciliation"
      [] local.phase = "SucceededPendingAck" -> "SubmitSucceeded"
      [] OTHER -> "SubmitFailed"

\* The plan for a record against the server's snapshot; the order of the
\* alternatives is the order of the early returns of the code.
RecoveryAction(local, remote, s, idempotent) ==
    IF ~SameIdentity(local, remote) THEN "ManualReconciliation"
    ELSE IF IsTerminal(remote) THEN "ForgetTerminal"
    ELSE IF remote.status = "Canceling" THEN "ManualReconciliation"
    ELSE IF LeaseHeldElsewhere(remote, s) THEN "WaitForLeaseExpiry"
    ELSE IF remote.session # s THEN "RequestServerReclaim"
    ELSE IF remote.status \notin ActiveStatuses THEN "ManualReconciliation"
    ELSE IF local.session # s /\ remote.version <= local.version
         THEN "ManualReconciliation"
    ELSE OwnedAction(local, remote, idempotent)

=============================================================================
