--------------------------- MODULE RunnerControl ---------------------------
(***************************************************************************)
(* The runner control service of loomex-cli/main.rs: one daemon that       *)
(* connects sessions to the Backend, recovers the jobs of its durable      *)
(* journal, leases and executes new ones and submits their outcome.  The   *)
(* daemon's controller is sequential (`pc`); the worker thread that runs a *)
(* job, the Backend (RunnerBackend) and requests that outlive the call     *)
(* that sent them are actors of their own.                                 *)
(*                                                                         *)
(* A remote call is one step when it is answered.  When it fails, the      *)
(* request stays in `late`: the Backend may have taken it already, may     *)
(* take it after any number of later steps, or never.  A crash between the *)
(* Backend's answer and the journal write is that same behaviour followed  *)
(* by Crash.                                                               *)
(***************************************************************************)
EXTENDS RunnerBackend, FiniteSets

CONSTANTS
    Jobs,           \* the jobs dispatched to this runner
    Idempotent,     \* those with replaySafe = true
    Cancellable,    \* those of kind shell.exec or command.run
    NoJob,
    ReuseSession,   \* whether the Backend may answer with the runner's last session
    MaxVersion,     \* bound on the lease versions the Backend hands out
    MaxSession,     \* bound on the sessions the Backend hands out
    MaxFaults       \* bound on crashes, failed calls and failed writes

ASSUME ConstantsAssumption ==
    /\ Idempotent \subseteq Jobs
    /\ Cancellable \subseteq Jobs
    /\ NoJob \notin Jobs
    /\ NoSession \notin Nat
    /\ ReuseSession \in BOOLEAN
    /\ MaxVersion \in Nat
    /\ MaxSession \in Nat
    /\ MaxFaults \in Nat

VARIABLES
    pc,         \* where the controller is
    cur,        \* the job it works on
    rem,        \* the Backend's answer it works from (may be stale)
    todo,       \* records the recovery pass has not looked at yet
    session,    \* the session it is connected under
    mem,        \* the journal document in memory
    disk,       \* the journal file
    worker,     \* the worker thread of `cur`
    stop,       \* runner_shutdown_requested()
    srv,        \* the Backend's rows
    late,       \* requests whose call failed and which may still arrive
    sessions,   \* the number of sessions the Backend created
    faults,     \* faults so far
    runs        \* history: how often the execution of a job began

controller == <<pc, cur, rem, todo, session>>
journal == <<mem, disk>>
backend == <<srv, late, sessions>>
vars == <<controller, journal, worker, stop, backend, faults, runs>>

-----------------------------------------------------------------------------
(* Values *)

\* What is submitted for a job: the result or the error of its execution
\* number `run`, or an error the controller made up ("exited": the controller
\* gave up, retryable; "uncertain": requiresHumanReconciliation).
PayloadOf(kind, n) == [kind |-> kind, run |-> n]

ExecutionOutcomes == {"ok", "err"}

Payloads ==
    [kind : ExecutionOutcomes \cup {"exited", "uncertain"}, run : Nat]
        \cup {NoPayload}

ASSUME PayloadAssumption ==
    NoPayload \notin [kind : ExecutionOutcomes \cup {"exited", "uncertain"}, run : Nat]

SessionIds == Nat \cup {NoSession}

Records ==
    [phase : Phases, session : SessionIds, version : Nat, payload : Payloads]

Rows ==
    [status : Statuses, session : SessionIds, version : Nat,
     lapsed : BOOLEAN, verdict : Payloads]

Requests ==
    [op : {"lease", "start", "renew", "reclaim", "settle"}, job : Jobs,
     session : SessionIds, version : Nat, payload : Payloads]

\* down: no process; connect: top of the service loop; loop: the recovery
\* pass while todo # {}, then the polling loop; plan, decide: a record against
\* its snapshot; start, mark, exec: execution of cur; submit: the terminal
\* request after an execution; abort: finalize_runner_job_on_error; resubmit:
\* the terminal request of the cleanup and of recovery.
Locations ==
    {"down", "connect", "loop", "plan", "decide", "start", "mark", "exec",
     "submit", "abort", "resubmit"}

\* none; running; stopping: its cancellation token is set; draining: its command
\* exited, and a process the command left behind keeps the output open; dropped,
\* stuck: the same as stopping and draining, while the controller waits for the end
\* and discards the result; ok, err: the outcome as the controller has it.
WorkerStates ==
    {"none", "running", "stopping", "draining", "dropped", "stuck"} \cup ExecutionOutcomes

CommandRuns == worker \in {"running", "stopping", "dropped"}

WorkerActive == CommandRuns \/ worker \in {"draining", "stuck"}

\* The loop of execute_cancellable_runner_job goes round.
Supervising ==
    pc = "exec" /\ cur \in Cancellable /\ worker \in {"running", "stopping", "draining"}

TypeOK ==
    /\ pc \in Locations
    /\ cur \in Jobs \cup {NoJob}
    /\ rem \in Rows
    /\ todo \subseteq Jobs
    /\ session \in SessionIds
    /\ mem \in [Jobs -> Records]
    /\ disk \in [Jobs -> Records]
    /\ worker \in WorkerStates
    /\ stop \in BOOLEAN
    /\ srv \in [Jobs -> Rows]
    /\ late \subseteq Requests
    /\ sessions \in Nat
    /\ faults \in Nat
    /\ runs \in [Jobs -> Nat]

Init ==
    /\ pc = "down" /\ cur = NoJob /\ rem = FreshRow /\ todo = {}
    /\ session = NoSession
    /\ mem = [j \in Jobs |-> NoRecord]
    /\ disk = [j \in Jobs |-> NoRecord]
    /\ worker = "none" /\ stop = FALSE
    /\ srv = [j \in Jobs |-> FreshRow]
    /\ late = {} /\ sessions = 0 /\ faults = 0
    /\ runs = [j \in Jobs |-> 0]

-----------------------------------------------------------------------------
(* Building blocks *)

Fault == faults < MaxFaults /\ faults' = faults + 1

\* persist(): the file is replaced by the document in memory.
Persist(document) ==
    mem' = document /\ disk' = document /\ faults' = faults

\* persist() fails.  The document in memory was changed before the write and
\* stays changed; the rename may or may not have happened.
PersistFails(document) ==
    Fault /\ mem' = document /\ disk' \in {disk, document}

UpdateRecord(j, record) == [mem EXCEPT ![j] = record]

\* The Backend takes request m and the runner gets its answer.
Answered(m) ==
    /\ Accepts(srv[m.job], m)
    /\ srv' = [srv EXCEPT ![m.job] = Effect(@, m)]
    /\ UNCHANGED <<late, sessions>>

\* The Backend rejects request m.
Rejected(m) == ~Accepts(srv[m.job], m) /\ UNCHANGED <<backend, faults>>

\* The call fails without an answer: m may arrive later.
Lost(m) == Fault /\ late' = late \cup {m} /\ UNCHANGED <<srv, sessions>>

Unanswered(m) == Rejected(m) \/ Lost(m)

GoTo(location) == pc' = location /\ UNCHANGED <<cur, rem, todo, session>>

\* The job is done with: on to the next record or to the polling loop.
NextJob ==
    /\ pc' = "loop" /\ cur' = NoJob /\ rem' = FreshRow
    /\ UNCHANGED <<todo, session>>

\* An error leaves run_runner_control_session; the service loop connects
\* again, or the process ends when the error is a terminal one.
EndSession(location) ==
    /\ pc' = location /\ cur' = NoJob /\ rem' = FreshRow /\ todo' = {}
    /\ session' = NoSession

\* Codes with AUTH, VERSION, EXPIRED... end the process
\* (is_terminal_service_runtime_error), any other code reconnects; which of
\* them a Backend error carries is the Backend's choice.
BackendError == EndSession("connect") \/ EndSession("down")

-----------------------------------------------------------------------------
(* The process and its sessions *)

\* run_runner_service_run_parsed: the journal file is read.
StartService ==
    /\ pc = "down"
    /\ EndSession("connect")
    /\ mem' = disk /\ stop' = FALSE
    /\ UNCHANGED <<disk, worker, backend, faults, runs>>

\* The process dies: what it kept in memory goes with it, and the worker and its
\* command, as systemd ends what is left of a service's control group.
Crash ==
    /\ pc # "down" /\ Fault
    /\ EndSession("down")
    /\ mem' = disk /\ worker' = "none" /\ stop' = FALSE
    /\ UNCHANGED <<disk, backend, runs>>

RequestShutdown ==
    /\ pc # "down" /\ ~stop /\ Fault
    /\ stop' = TRUE
    /\ UNCHANGED <<controller, journal, worker, backend, runs>>

\* The shutdown flag is looked at on top of the service loop and of the
\* polling loop, never during the recovery pass.
Shutdown ==
    /\ stop
    /\ pc = "connect" \/ (pc = "loop" /\ todo = {})
    /\ EndSession("down")
    /\ UNCHANGED <<journal, worker, stop, backend, faults, runs>>

\* Variant of Connect: the client asks for the session it had before.
ConnectUnderLastSession ==
    /\ pc = "connect" /\ ~stop
    /\ sessions' = IF sessions = 0 THEN 1 ELSE sessions
    /\ session' = sessions'
    /\ pc' = "loop"
    /\ todo' = {j \in Jobs : HasRecord(mem[j])}
    /\ UNCHANGED <<cur, rem, journal, worker, stop, srv, late, faults, runs>>

\* create_runner_control_session: the Backend answers with a fresh session (or,
\* with ReuseSession, the last one); the recovery pass starts over all records.
Connect ==
    /\ pc = "connect" /\ ~stop
    /\ \/ sessions < MaxSession /\ sessions' = sessions + 1
       \/ ReuseSession /\ sessions > 0 /\ UNCHANGED sessions
    /\ session' = sessions'
    /\ pc' = "loop"
    /\ todo' = {j \in Jobs : HasRecord(mem[j])}
    /\ UNCHANGED <<cur, rem, journal, worker, stop, srv, late, faults, runs>>

\* A get, a heartbeat or a poll of the idle loop fails and ends the session.
SessionFails ==
    /\ pc = "loop" /\ Fault
    /\ BackendError
    /\ UNCHANGED <<journal, worker, stop, backend, runs>>

-----------------------------------------------------------------------------
(* The recovery pass: recover_pending_runner_jobs *)

\* get_runner_job for the next record.
RecoverNext(j) ==
    /\ pc = "loop" /\ j \in todo
    /\ pc' = "plan" /\ cur' = j /\ rem' = srv[j] /\ todo' = todo \ {j}
    /\ UNCHANGED <<session, journal, worker, stop, backend, faults, runs>>

Plan == RecoveryAction(mem[cur], rem, session, cur \in Idempotent)

\* ForgetTerminal: the Backend's row is terminal.
PlanForget ==
    /\ pc = "plan" /\ Plan = "ForgetTerminal" /\ ForgetOk(mem[cur], rem)
    /\ \/ Persist(UpdateRecord(cur, NoRecord)) /\ NextJob
       \/ PersistFails(UpdateRecord(cur, NoRecord)) /\ EndSession("connect")
    /\ UNCHANGED <<worker, stop, backend, runs>>

\* WaitForLeaseExpiry: the pass goes on without the record, and no later step
\* of this session comes back to it.
PlanWait ==
    /\ pc = "plan" /\ Plan = "WaitForLeaseExpiry"
    /\ NextJob
    /\ UNCHANGED <<journal, worker, stop, backend, faults, runs>>

ReclaimRequest == Request("reclaim", cur, session, rem.version, NoPayload)

\* RequestServerReclaim, answered with a new lease, which is adopted.
PlanReclaim ==
    /\ pc = "plan" /\ Plan = "RequestServerReclaim"
    /\ Answered(ReclaimRequest)
    /\ srv[cur].version < MaxVersion
    /\ AdoptOk(mem[cur], srv'[cur], session)
    /\ LET document == UpdateRecord(cur, Adopt(mem[cur], srv'[cur], session))
       IN  \/ /\ Persist(document)
              /\ pc' = "decide" /\ rem' = srv'[cur]
              /\ UNCHANGED <<cur, todo, session>>
           \/ PersistFails(document) /\ EndSession("connect")
    /\ UNCHANGED <<worker, stop, runs>>

\* ... answered with a row that became terminal since the snapshot.
PlanReclaimTerminal ==
    /\ pc = "plan" /\ Plan = "RequestServerReclaim"
    /\ IsTerminal(srv[cur]) /\ ForgetOk(mem[cur], srv[cur])
    /\ \/ Persist(UpdateRecord(cur, NoRecord)) /\ NextJob
       \/ PersistFails(UpdateRecord(cur, NoRecord)) /\ EndSession("connect")
    /\ UNCHANGED <<worker, stop, backend, runs>>

PlanReclaimFails ==
    /\ pc = "plan" /\ Plan = "RequestServerReclaim"
    /\ Unanswered(ReclaimRequest)
    /\ BackendError
    /\ UNCHANGED <<journal, worker, stop, runs>>

\* This session owns the row already, under a record of an earlier session.
OwnsStaleRecord ==
    /\ Plan \notin {"ForgetTerminal", "WaitForLeaseExpiry", "RequestServerReclaim"}
    /\ rem.session = session
    /\ mem[cur].session # session

PlanAdopt ==
    /\ pc = "plan" /\ OwnsStaleRecord
    /\ LET document == UpdateRecord(cur, Adopt(mem[cur], rem, session))
       IN  \/ AdoptOk(mem[cur], rem, session) /\ Persist(document) /\ GoTo("decide")
           \/ /\ AdoptOk(mem[cur], rem, session)
              /\ PersistFails(document) /\ EndSession("connect")
           \/ /\ ~AdoptOk(mem[cur], rem, session)
              /\ EndSession("connect")
              /\ UNCHANGED <<journal, faults>>
    /\ UNCHANGED <<worker, stop, backend, runs>>

\* The `match action` that ends the pass over one record.
Deciding == pc = "decide" \/ (pc = "plan" /\ ~OwnsStaleRecord)

DecideExecute ==
    /\ Deciding /\ Plan \in {"StartExecution", "ResumeIdempotentExecution"}
    /\ GoTo("start")
    /\ UNCHANGED <<journal, worker, stop, backend, faults, runs>>

DecideSubmit ==
    /\ Deciding /\ Plan \in {"SubmitSucceeded", "SubmitFailed"}
    /\ GoTo("resubmit")
    /\ UNCHANGED <<journal, worker, stop, backend, faults, runs>>

\* ManualReconciliation of a row this session owns: the job is failed for a
\* human to look at.
DecideManual ==
    /\ Deciding /\ Plan = "ManualReconciliation"
    /\ mem[cur].session = session /\ rem.session = session
    /\ RecordTerminalOk(mem[cur], session)
    /\ LET document == UpdateRecord(cur, RecordTerminal(mem[cur],
                           "FailedPendingAck", PayloadOf("uncertain", runs[cur])))
       IN  \/ Persist(document) /\ GoTo("resubmit")
           \/ PersistFails(document) /\ EndSession("connect")
    /\ UNCHANGED <<worker, stop, backend, runs>>

\* RUNNER_JOB_RECOVERY_UNCERTAIN, or a record that cannot take an outcome:
\* the error ends the pass for every record and the session with it.
DecideManualFails ==
    /\ Deciding /\ Plan = "ManualReconciliation"
    /\ \/ mem[cur].session # session
       \/ rem.session # session
       \/ ~RecordTerminalOk(mem[cur], session)
    /\ EndSession("connect")
    /\ UNCHANGED <<journal, worker, stop, backend, faults, runs>>

-----------------------------------------------------------------------------
(* The polling loop: process_one_runner_control_job *)

LeaseRequest(j) == Request("lease", j, session, 0, NoPayload)

\* lease_runner_job answers with job j, whose lease is recorded.
LeaseJob(j) ==
    /\ pc = "loop" /\ todo = {} /\ ~stop
    /\ Answered(LeaseRequest(j)) /\ srv[j].version < MaxVersion
    /\ RecordLeaseOk(mem[j])
    /\ LET document == UpdateRecord(j, RecordLease(srv'[j], session))
       IN  \/ /\ Persist(document)
              /\ pc' = "start" /\ cur' = j /\ rem' = srv'[j]
              /\ UNCHANGED <<todo, session>>
           \/ PersistFails(document) /\ EndSession("connect")
    /\ UNCHANGED <<worker, stop, runs>>

\* RUNNER_JOB_RECOVERY_CONFLICT: the journal still has a record of job j.
LeaseConflict(j) ==
    /\ pc = "loop" /\ todo = {} /\ ~stop
    /\ Answered(LeaseRequest(j)) /\ srv[j].version < MaxVersion
    /\ ~RecordLeaseOk(mem[j])
    /\ EndSession("connect")
    /\ UNCHANGED <<journal, worker, stop, faults, runs>>

LeaseLost(j) ==
    /\ pc = "loop" /\ todo = {} /\ ~stop
    /\ Lost(LeaseRequest(j)) /\ BackendError
    /\ UNCHANGED <<journal, worker, stop, runs>>

-----------------------------------------------------------------------------
(* Execution: execute_and_finalize_runner_job_inner *)

StartRequest == Request("start", cur, session, rem.version, NoPayload)

StartJob ==
    /\ pc = "start"
    /\ IF rem.status = "Leased"
       THEN Answered(StartRequest)
       ELSE UNCHANGED backend
    /\ GoTo("mark")
    /\ UNCHANGED <<journal, worker, stop, faults, runs>>

StartFails ==
    /\ pc = "start" /\ rem.status = "Leased"
    /\ Unanswered(StartRequest)
    /\ GoTo("abort")
    /\ UNCHANGED <<journal, worker, stop, runs>>

\* The deadline of the generation the record knows.  When the Backend is at a
\* later one, this one may have passed or not.
LocalLeaseExpired(expired) ==
    mem[cur].version = srv[cur].version => expired = srv[cur].lapsed

\* Variant of MarkJobRunning: the worker starts whether or not the write succeeds.
MarkJobRunningUnchecked ==
    /\ pc = "mark"
    /\ LocalLeaseExpired(FALSE) /\ MarkRunningOk(mem[cur], session, FALSE)
    /\ \/ Persist(UpdateRecord(cur, MarkRunning(mem[cur])))
       \/ PersistFails(UpdateRecord(cur, MarkRunning(mem[cur])))
    /\ GoTo("exec") /\ worker' = "running"
    /\ runs' = [runs EXCEPT ![cur] = @ + 1]
    /\ UNCHANGED <<stop, backend>>

\* mark_running, then the worker starts.  A record that is Running is not
\* written again.
MarkJobRunning ==
    /\ pc = "mark"
    /\ LocalLeaseExpired(FALSE) /\ MarkRunningOk(mem[cur], session, FALSE)
    /\ \/ /\ \/ /\ mem[cur].phase = "Leased"
                /\ Persist(UpdateRecord(cur, MarkRunning(mem[cur])))
             \/ mem[cur].phase = "Running" /\ UNCHANGED <<journal, faults>>
          /\ GoTo("exec") /\ worker' = "running"
          /\ runs' = [runs EXCEPT ![cur] = @ + 1]
       \/ /\ mem[cur].phase = "Leased"
          /\ PersistFails(UpdateRecord(cur, MarkRunning(mem[cur])))
          /\ GoTo("abort") /\ UNCHANGED <<worker, runs>>
    /\ UNCHANGED <<stop, backend>>

\* RUNNER_JOB_LEASE_EXPIRED.  The cleanup of a Leased record is refused too, and
\* the first code is the one the service loop sees: an expired lease is a terminal
\* error and ends the process.  (mark_running's other errors never arise: see
\* ControllerOwnsRecord.)
MarkExpired ==
    /\ pc = "mark" /\ LocalLeaseExpired(TRUE)
    /\ IF mem[cur].phase = "Running" THEN GoTo("abort") ELSE EndSession("down")
    /\ UNCHANGED <<journal, worker, stop, backend, faults, runs>>

\* The command ends, or it is killed with its process group, and a process it left
\* in the background keeps stdout open: the reader is joined, without a look at the
\* token or at the timeout, until that process ends too.
CommandExits ==
    /\ CommandRuns /\ cur \in Cancellable
    /\ worker' = IF worker = "dropped" THEN "stuck" ELSE "draining"
    /\ UNCHANGED <<controller, journal, stop, backend, faults, runs>>

\* The thread of execute_cancellable_runner_job, or the synchronous call, ends.
\* Of a dropped worker the controller only has the error it was dropped for.
WorkerEnds(outcome) ==
    /\ WorkerActive
    /\ worker \in {"dropped", "stuck"} => outcome = "err"
    /\ worker' = outcome
    /\ UNCHANGED <<controller, journal, stop, backend, faults, runs>>

\* list_runner_job_cancellations or the shutdown flag sets the token.
PollCancellation ==
    /\ Supervising /\ worker = "running"
    /\ stop \/ srv[cur].status = "Canceling"
    /\ worker' = "stopping"
    /\ UNCHANGED <<controller, journal, stop, backend, faults, runs>>

\* An error leaves the loop: the token is set and RunnerWorker::drop waits for the
\* worker, whose result is lost; the error becomes the outcome.
DropWorker ==
    /\ worker' = IF worker = "draining" THEN "stuck" ELSE "dropped"
    /\ UNCHANGED controller

RenewRequest == Request("renew", cur, session, rem.version, NoPayload)

\* The lease is renewed while the worker runs.
RenewJob ==
    /\ Supervising
    /\ Answered(RenewRequest) /\ srv[cur].version < MaxVersion
    /\ RenewLeaseOk(mem[cur], session, srv'[cur].version)
    /\ LET document == UpdateRecord(cur, RenewLease(mem[cur], srv'[cur].version))
       IN  \/ /\ Persist(document)
              /\ rem' = srv'[cur]
              /\ UNCHANGED <<pc, cur, todo, session, worker>>
           \/ PersistFails(document) /\ DropWorker
    /\ UNCHANGED <<stop, runs>>

\* Variant of RenewFails: the renewal is tried again while the worker goes on.
RenewFailsRetries ==
    /\ Supervising
    /\ Unanswered(RenewRequest)
    /\ UNCHANGED <<controller, worker, journal, stop, runs>>

RenewFails ==
    /\ Supervising
    /\ Unanswered(RenewRequest)
    /\ DropWorker
    /\ UNCHANGED <<journal, stop, runs>>

\* A heartbeat of the running job's session fails.
HeartbeatFails ==
    /\ Supervising
    /\ Fault
    /\ DropWorker
    /\ UNCHANGED <<journal, stop, backend, runs>>

OutcomePhase(outcome) ==
    IF outcome = "ok" THEN "SucceededPendingAck" ELSE "FailedPendingAck"

\* record_succeeded or record_failed with the outcome of the execution.
RecordOutcome ==
    /\ pc = "exec" /\ worker \in ExecutionOutcomes
    /\ RecordTerminalOk(mem[cur], session)
    /\ LET document == UpdateRecord(cur, RecordTerminal(mem[cur],
                           OutcomePhase(worker), PayloadOf(worker, runs[cur])))
       IN  \/ Persist(document) /\ GoTo("submit")
           \/ PersistFails(document) /\ GoTo("abort")
    /\ worker' = "none"
    /\ UNCHANGED <<stop, backend, runs>>

-----------------------------------------------------------------------------
(* Submission and cleanup *)

\* complete_runner_job_idempotent or fail_runner_job_idempotent.
SettleRequest ==
    Request("settle", cur, session, mem[cur].version, mem[cur].payload)

\* The Backend took the outcome and acknowledge_terminal drops the record.
Submit ==
    /\ pc \in {"submit", "resubmit"}
    /\ Answered(SettleRequest) /\ AcknowledgeOk(mem[cur])
    /\ \/ Persist(UpdateRecord(cur, NoRecord)) /\ NextJob
       \/ PersistFails(UpdateRecord(cur, NoRecord)) /\ EndSession("connect")
    /\ UNCHANGED <<worker, stop, runs>>

\* Variant of SubmitFails: the record is dropped although nobody answered.
SubmitFailsForgets ==
    /\ pc \in {"submit", "resubmit"}
    /\ Lost(SettleRequest)
    /\ mem' = UpdateRecord(cur, NoRecord) /\ disk' = mem'
    /\ BackendError
    /\ UNCHANGED <<worker, stop, runs>>

\* After an execution the cleanup submits once more; after that, and in
\* recovery, the error ends the session.
SubmitFails ==
    /\ pc \in {"submit", "resubmit"}
    /\ Unanswered(SettleRequest)
    /\ IF pc = "submit" THEN GoTo("abort") ELSE BackendError
    /\ UNCHANGED <<journal, worker, stop, runs>>

\* finalize_runner_job_on_error of a Running record.
AbortRunning ==
    /\ pc = "abort"
    /\ RecordTerminalOk(mem[cur], session)
    /\ LET document == UpdateRecord(cur, RecordTerminal(mem[cur],
                           "FailedPendingAck", PayloadOf("exited", runs[cur])))
       IN  \/ Persist(document) /\ GoTo("resubmit")
           \/ PersistFails(document) /\ BackendError
    /\ UNCHANGED <<worker, stop, backend, runs>>

\* ... of a record with an outcome.
AbortPending ==
    /\ pc = "abort" /\ mem[cur].phase \in PendingPhases
    /\ GoTo("resubmit")
    /\ UNCHANGED <<journal, worker, stop, backend, faults, runs>>

\* ... of a Leased record: record_failed refuses it.
AbortLeased ==
    /\ pc = "abort" /\ mem[cur].phase \notin PendingPhases
    /\ ~RecordTerminalOk(mem[cur], session)
    /\ BackendError
    /\ UNCHANGED <<journal, worker, stop, backend, faults, runs>>

-----------------------------------------------------------------------------
(* The Backend on its own *)

\* A request of an earlier call arrives.
DeliverLate(m) ==
    /\ m \in late /\ Accepts(srv[m.job], m)
    /\ m.op \in {"lease", "reclaim", "renew"} => srv[m.job].version < MaxVersion
    /\ srv' = [srv EXCEPT ![m.job] = Effect(@, m)]
    /\ late' = late \ {m}
    /\ UNCHANGED <<controller, journal, worker, stop, sessions, faults, runs>>

\* A lease nobody renewed passes its deadline.
LeaseLapses(j) ==
    /\ srv[j].status \in ActiveStatuses \cup {"Canceling"} /\ ~srv[j].lapsed
    /\ srv' = [srv EXCEPT ![j].lapsed = TRUE]
    /\ UNCHANGED <<controller, journal, worker, stop, late, sessions, faults, runs>>

\* The Backend takes a lapsed job back, for another lease or for good.
Requeue(j) ==
    /\ srv[j].status \in ActiveStatuses /\ srv[j].lapsed
    /\ \/ srv' = [srv EXCEPT ![j].status = "Queued", ![j].session = NoSession]
       \/ srv' = [srv EXCEPT ![j].status = "Expired"]
    /\ UNCHANGED <<controller, journal, worker, stop, late, sessions, faults, runs>>

\* A user cancels the job; a canceling job ends canceled.
CancelJob(j) ==
    /\ \/ srv[j].status \in ActiveStatuses
          /\ srv' = [srv EXCEPT ![j].status = "Canceling"]
       \/ srv[j].status \in {"Queued", "Canceling"}
          /\ srv' = [srv EXCEPT ![j].status = "Canceled"]
    /\ UNCHANGED <<controller, journal, worker, stop, late, sessions, faults, runs>>

-----------------------------------------------------------------------------

RecoveryStep ==
    \/ \E j \in Jobs : RecoverNext(j)
    \/ PlanForget \/ PlanWait
    \/ PlanReclaim \/ PlanReclaimTerminal \/ PlanReclaimFails
    \/ PlanAdopt
    \/ DecideExecute \/ DecideSubmit \/ DecideManual \/ DecideManualFails

ExecutionStep ==
    \/ StartJob \/ StartFails
    \/ MarkJobRunning \/ MarkExpired
    \/ RenewJob \/ RenewFails \/ HeartbeatFails \/ PollCancellation
    \/ RecordOutcome
    \/ Submit \/ SubmitFails
    \/ AbortRunning \/ AbortPending \/ AbortLeased

ServiceStep ==
    \/ StartService \/ Shutdown \/ Connect
    \/ \E j \in Jobs : LeaseJob(j) \/ LeaseConflict(j) \/ LeaseLost(j)

WorkerStep == CommandExits \/ \E outcome \in ExecutionOutcomes : WorkerEnds(outcome)

BackendStep ==
    \/ \E m \in late : DeliverLate(m)
    \/ \E j \in Jobs : LeaseLapses(j) \/ Requeue(j) \/ CancelJob(j)

Next ==
    \/ ServiceStep \/ SessionFails \/ Crash \/ RequestShutdown
    \/ RecoveryStep
    \/ ExecutionStep
    \/ WorkerStep
    \/ BackendStep

Spec == Init /\ [][Next]_vars

\* The worker loop of execute_cancellable_runner_job never blocks: every 100 ms
\* it polls the cancellations, and it renews each time a third of the lease is
\* gone; a worker whose token is set kills its command.  Nothing ends a process the
\* command left behind.
FairSpec ==
    /\ Spec
    /\ WF_vars(PollCancellation)
    /\ WF_vars(RenewJob \/ RenewFails)
    /\ WF_vars(worker \in {"stopping", "dropped"} /\ WorkerStep)

\* Besides, the controller goes on, the service manager restarts it, every process
\* ends at last, and a lease nobody renews lapses.
RunningSpec ==
    /\ FairSpec
    /\ WF_vars(ServiceStep) /\ WF_vars(RecoveryStep) /\ WF_vars(ExecutionStep)
    /\ WF_vars(WorkerStep)
    /\ \A j \in Jobs : WF_vars(LeaseLapses(j))

-----------------------------------------------------------------------------
(* Safety *)

\* A job that is not declared replay-safe is never executed twice, whatever
\* crashes, failed writes, lost answers and reclaims lie between.
AtMostOnce == \A j \in Jobs \ Idempotent : runs[j] <= 1

\* recovery_action starts a record it finds Leased without asking whether the
\* job is replay-safe: "a durable leased phase proves local execution never
\* began".
DurableLeasedNeverExecuted ==
    \A j \in Jobs : disk[j].phase = "Leased" => runs[j] = 0

\* From the first execution of a job until the Backend's row is terminal, the
\* journal file has its record: a restart at any point finds it.
StartedJobIsJournaled ==
    \A j \in Jobs : runs[j] > 0 /\ ~IsTerminal(srv[j]) => HasRecord(disk[j])

\* Side effects happen only under a Running record in the journal file, of the
\* session that executes.
ExecutesUnderDurableRecord ==
    WorkerActive => disk[cur].phase = "Running" /\ disk[cur].session = session

\* While a job executes, no outcome of an earlier execution that is still on
\* its way can settle it: the lease version fences it off.
StaleOutcomeIsFenced ==
    WorkerActive /\ ~IsTerminal(srv[cur]) =>
        \A m \in late : m.op = "settle" /\ m.job = cur => ~Accepts(srv[cur], m)

\* The record the controller executes, submits or cleans up is in the journal
\* and belongs to its session, so mark_running, record_succeeded and
\* acknowledge_terminal never refuse it and no result is dropped there.
ControllerOwnsRecord ==
    /\ pc \in {"start", "mark"} =>
          OwnedLocally(mem[cur], session) /\ mem[cur].phase \in {"Leased", "Running"}
    /\ pc = "exec" => RecordTerminalOk(mem[cur], session)
    /\ pc \in {"submit", "resubmit"} => AcknowledgeOk(mem[cur])

\* The journal never claims a newer lease than the Backend granted, in memory or in
\* the file, and neither does the answer the controller works from.  The Backend may be
\* ahead of all three: after an answer that was lost it is.
LeaseNeverAhead ==
    /\ \A j \in Jobs : mem[j].version <= srv[j].version /\ disk[j].version <= srv[j].version
    /\ pc \notin {"down", "connect", "loop"} => rem.version <= srv[cur].version

Rank(phase) ==
    CASE phase = "Absent" -> 0
      [] phase = "Leased" -> 1
      [] phase = "Running" -> 2
      [] OTHER -> 3

\* No step takes the file's record of a job back to an earlier phase or changes
\* a saved outcome; the record goes away only once the row is terminal.
DurablePhaseNeverRegresses ==
    [][\A j \in Jobs :
        \/ Rank(disk'[j].phase) > Rank(disk[j].phase)
        \/ /\ disk'[j].phase = disk[j].phase
           /\ disk'[j].payload = disk[j].payload
        \/ ~HasRecord(disk'[j]) /\ IsTerminal(srv'[j])]_vars

\* The runner implements JobOutcome.
VerdictOf(row) ==
    IF row.verdict # NoPayload THEN row.verdict
    ELSE IF IsTerminal(row) THEN [kind |-> "withdrawn", run |-> 0]
    ELSE [kind |-> "undecided", run |-> 0]

Outcome == INSTANCE JobOutcome WITH verdict <- [j \in Jobs |-> VerdictOf(srv[j])]

ImplementsJobOutcome == Outcome!Spec

\* The journal's contract: record_succeeded and record_failed come "before
\* sending the terminal server request".
OutcomeSavedBeforeSubmission ==
    pc \in {"submit", "resubmit"} =>
        disk[cur].phase = mem[cur].phase /\ disk[cur].payload = mem[cur].payload

-----------------------------------------------------------------------------
(* Liveness *)

\* The worker's lease is gone: canceled, requeued, expired or settled.
LeaseGone(j) ==
    \/ srv[j].status \notin ActiveStatuses
    \/ srv[j].session # session
    \/ srv[j].version # rem.version

\* The command of a cancellable worker whose lease is gone does not run for ever.
\* (The worker may: see CommandExits.)
LostLeaseStopsWorker ==
    \A j \in Cancellable :
        (CommandRuns /\ cur = j /\ LeaseGone(j)) ~> ~CommandRuns

\* WaitForLeaseExpiry: "The old server lease is still authoritative; wait rather
\* than stealing or duplicating it."  Once that lease is past its deadline, the
\* connected daemon takes a saved outcome up again (or its session ends, and the
\* next one does).
WaitEndsInRecovery ==
    \A j \in Jobs :
        (/\ pc = "loop" /\ ~stop /\ mem[j].phase \in PendingPhases
         /\ srv[j].status \in ActiveStatuses /\ srv[j].lapsed)
            ~> (pc # "loop" \/ srv[j].status \notin ActiveStatuses)

=============================================================================
