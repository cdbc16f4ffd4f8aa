------------------------- MODULE RunnerControlProofs -------------------------
(***************************************************************************)
(* IInv is an inductive invariant of RunnerControl, for every set of jobs  *)
(* and every bound; the first safety theorems follow from it.  LeaseInv    *)
(* extends it to the versions of the leases.  SessionInv extends both to   *)
(* the sessions, where the Backend answers every connect with a session of *)
(* its own; the refinement of JobOutcome follows from the three.           *)
(***************************************************************************)
EXTENDS RunnerControlInv, TLAPS

-----------------------------------------------------------------------------
(* The parts of TypeOK *)

ControllerOK ==
    /\ pc \in Locations /\ cur \in Jobs \cup {NoJob} /\ rem \in Rows
    /\ todo \subseteq Jobs /\ session \in SessionIds

JournalOK == mem \in [Jobs -> Records] /\ disk \in [Jobs -> Records]

BackendOK ==
    srv \in [Jobs -> Rows] /\ late \subseteq Requests /\ sessions \in Nat

\* The row of a job nobody has leased is a row.
LEMMA FreshRowType == FreshRow \in Rows
  BY DEF FreshRow, Rows, Statuses, SessionIds, Payloads

\* The absent record is a record.
LEMMA NoRecordType == NoRecord \in Records
  BY DEF NoRecord, Records, Phases, SessionIds, Payloads

\* A payload of any kind.
LEMMA PayloadType ==
    ASSUME NEW kind \in ExecutionOutcomes \cup {"exited", "uncertain"}, NEW n \in Nat
    PROVE  PayloadOf(kind, n) \in Payloads
  BY DEF PayloadOf, Payloads

\* The moves of the controller stay among its locations.
LEMMA ControllerType ==
    ASSUME ControllerOK, NEW l \in Locations,
           EndSession(l) \/ GoTo(l) \/ NextJob
    PROVE  ControllerOK'
  BY FreshRowType DEF ControllerOK, EndSession, GoTo, NextJob, Locations, SessionIds

\* A write of the journal, successful or not, leaves two documents.
LEMMA WriteType ==
    ASSUME JournalOK, faults \in Nat, NEW document \in [Jobs -> Records],
           Persist(document) \/ PersistFails(document)
    PROVE  JournalOK' /\ faults' \in Nat
  BY DEF JournalOK, Persist, PersistFails, Fault

\* One record of the document is replaced.
LEMMA UpdateType ==
    ASSUME JournalOK, NEW j \in Jobs, NEW record \in Records
    PROVE  UpdateRecord(j, record) \in [Jobs -> Records]
  BY DEF JournalOK, UpdateRecord

\* A terminal request settles a row as succeeded or failed.
LEMMA SettledStatusType ==
    ASSUME NEW payload
    PROVE  SettledStatus(payload) \in {"Succeeded", "Failed"}
  BY DEF SettledStatus

\* A row the Backend writes is a row, and a terminal row stays terminal.
LEMMA EffectType ==
    ASSUME NEW row \in Rows, NEW m \in Requests
    PROVE  Effect(row, m) \in Rows
  <1>0. row.version + 1 \in Nat
    BY DEF Rows
  <1>1. CASE m.op \in {"lease", "reclaim"}
    BY <1>0, <1>1 DEF Effect, Rows, Requests, Statuses, ActiveStatuses
  <1>2. CASE m.op = "start"
    BY <1>2 DEF Effect, Rows, Requests, Statuses, ActiveStatuses
  <1>3. CASE m.op = "renew"
    BY <1>0, <1>3 DEF Effect, Rows, Requests
  <1>4. CASE m.op = "settle"
    BY <1>4, SettledStatusType DEF Effect, Rows, Requests, Statuses, TerminalStatuses
  <1> QED BY <1>1, <1>2, <1>3, <1>4 DEF Requests

\* What is accepted of a terminal row leaves it terminal.
LEMMA EffectTerminal ==
    ASSUME NEW row \in Rows, NEW m \in Requests, Accepts(row, m), IsTerminal(row)
    PROVE  IsTerminal(Effect(row, m))
  <1>1. m.op = "settle"
    BY DEF Accepts, Holds, Requests, IsTerminal, TerminalStatuses, ActiveStatuses
  <1> QED BY <1>1 DEF Effect

\* After a terminal submission was taken, the row is terminal.
LEMMA SettleTerminal ==
    ASSUME NEW row \in Rows, NEW m \in Requests, m.op = "settle"
    PROVE  IsTerminal(Effect(row, m))
  BY EffectType, SettledStatusType DEF Effect, IsTerminal, TerminalStatuses, Rows

\* The requests the controller makes are requests.
LEMMA RequestType ==
    ASSUME NEW op \in {"lease", "start", "renew", "reclaim", "settle"},
           NEW j \in Jobs, NEW s \in SessionIds, NEW v \in Nat,
           NEW payload \in Payloads
    PROVE  /\ Request(op, j, s, v, payload) \in Requests
           /\ Request(op, j, s, v, payload).op = op
           /\ Request(op, j, s, v, payload).job = j
  BY DEF Request, Requests

TerminalIsFinal == \A j \in Jobs : IsTerminal(srv[j]) => IsTerminal(srv'[j])

\* Whatever becomes of a request, the Backend's state stays one, and no row
\* leaves a terminal status.
LEMMA AnsweredType ==
    ASSUME BackendOK, NEW m \in Requests, Answered(m)
    PROVE  BackendOK' /\ TerminalIsFinal
  <1>1. m.job \in Jobs
    BY DEF Requests
  <1>2. Effect(srv[m.job], m) \in Rows
    BY <1>1, EffectType DEF BackendOK
  <1>3. BackendOK'
    BY <1>1, <1>2 DEF BackendOK, Answered
  <1>4. IsTerminal(srv[m.job]) => IsTerminal(Effect(srv[m.job], m))
    BY <1>1, EffectTerminal DEF BackendOK, Answered
  <1>5. TerminalIsFinal
    BY <1>1, <1>4 DEF BackendOK, Answered, TerminalIsFinal
  <1> QED BY <1>3, <1>5

\* So it is when the answer of a request is lost.
LEMMA UnansweredType ==
    ASSUME BackendOK, faults \in Nat, NEW m \in Requests, Unanswered(m)
    PROVE  BackendOK' /\ faults' \in Nat /\ TerminalIsFinal
  BY DEF BackendOK, Unanswered, Rejected, Lost, Fault, TerminalIsFinal, backend

\* adopt_reclaimed_lease changes the lease of a record, not its phase.
LEMMA AdoptType ==
    ASSUME NEW local \in Records, NEW row \in Rows, NEW s \in SessionIds
    PROVE  Adopt(local, row, s) \in Records /\ Adopt(local, row, s).phase = local.phase
           /\ Adopt(local, row, s).session = s
  BY DEF Adopt, Records, Rows

\* record_terminal changes the phase and the payload of a record.
LEMMA RecordTerminalType ==
    ASSUME NEW local \in Records, NEW phase \in PendingPhases, NEW payload \in Payloads
    PROVE  /\ RecordTerminal(local, phase, payload) \in Records
           /\ RecordTerminal(local, phase, payload).phase = phase
           /\ RecordTerminal(local, phase, payload).session = local.session
  BY DEF RecordTerminal, Records, Phases

-----------------------------------------------------------------------------
(* What a step does to the invariant, by the kind of step *)

\* The parts of IInv that speak of the journal, the executions and the rows.
JournalInv == LeasedNeverExecuted /\ AbsentIsSettled /\ AtMostOnce

\* The parts that speak of the controller and its record.
ControlInv == ExecutionIsAllowed /\ TerminalSnapshot /\ Ownership /\ TodoIsJournaled

\* A step that leaves the journal and the executions alone.
LEMMA QuietStep ==
    ASSUME IInv, TerminalIsFinal, UNCHANGED <<journal, runs>>
    PROVE  JournalInv'
  BY DEF IInv, JournalInv, LeasedNeverExecuted, AbsentIsSettled, AtMostOnce,
         TerminalIsFinal, journal, HasRecord

\* A step that puts `record` in the place of the record of job j in memory,
\* with or without success in the file.
LEMMA WriteStep ==
    ASSUME IInv, TerminalIsFinal, UNCHANGED runs,
           NEW j \in Jobs, NEW record,
           Persist(UpdateRecord(j, record)) \/ PersistFails(UpdateRecord(j, record)),
           record.phase = "Leased" => runs[j] = 0,
           ~HasRecord(record) => runs[j] = 0 \/ IsTerminal(srv'[j])
    PROVE  JournalInv'
  <1>1. /\ mem' = [mem EXCEPT ![j] = record]
        /\ disk' = disk \/ disk' = mem'
    BY DEF Persist, PersistFails, UpdateRecord
  <1>2. \A k \in Jobs : mem'[k] = IF k = j THEN record ELSE mem[k]
    BY <1>1 DEF IInv, TypeOK
  <1>3. LeasedNeverExecuted'
    BY <1>1, <1>2 DEF IInv, LeasedNeverExecuted
  <1>4. AbsentIsSettled'
    BY <1>1, <1>2 DEF IInv, AbsentIsSettled, TerminalIsFinal, HasRecord
  <1>5. AtMostOnce'
    BY DEF IInv, AtMostOnce
  <1> QED BY <1>3, <1>4, <1>5 DEF JournalInv

\* Such a step keeps RunningIsDurable if `record` is Running only where the file
\* says so; a cleanup may write only the job it cleans up.
LEMMA WriteDurable ==
    ASSUME IInv, NEW j \in Jobs, NEW record,
           Persist(UpdateRecord(j, record)) \/ PersistFails(UpdateRecord(j, record)),
           record.phase = "Running" => disk[j].phase = "Running",
           pc = "abort" => cur = j
    PROVE  RunningIsDurable'
  <1>1. /\ mem' = [mem EXCEPT ![j] = record]
        /\ disk' = disk \/ disk' = mem'
    BY DEF Persist, PersistFails, UpdateRecord
  <1>2. \A k \in Jobs : mem'[k] = IF k = j THEN record ELSE mem[k]
    BY <1>1 DEF IInv, TypeOK
  <1> QED BY <1>1, <1>2 DEF IInv, RunningIsDurable

\* Only a cleanup that is done with its job lifts the exception in
\* RunningIsDurable.
LEMMA QuietDurable ==
    ASSUME IInv, UNCHANGED journal,
           pc = "abort" => UNCHANGED <<pc, cur>> \/ mem[cur].phase # "Running"
    PROVE  RunningIsDurable'
  BY DEF IInv, RunningIsDurable, journal

\* Back on top of the service loop, or out of the process.
LEMMA AwayStep ==
    ASSUME NEW l \in {"down", "connect"}, EndSession(l)
    PROVE  ControlInv'
  BY DEF EndSession, ControlInv, ExecutionIsAllowed, TerminalSnapshot, Ownership,
         TodoIsJournaled, Working, Owning

\* On to the next record.
LEMMA NextJobStep ==
    ASSUME NextJob, \A j \in todo : HasRecord(mem'[j])
    PROVE  ControlInv'
  BY DEF NextJob, ControlInv, ExecutionIsAllowed, TerminalSnapshot, Ownership,
         TodoIsJournaled, Working, Owning

\* A write of the record of `cur` leaves the records still to be looked at.
LEMMA TodoStep ==
    ASSUME IInv, cur \notin todo, NEW record,
           mem' = UpdateRecord(cur, record)
    PROVE  \A j \in todo : HasRecord(mem'[j])
  BY DEF IInv, TypeOK, UpdateRecord, TodoIsJournaled

-----------------------------------------------------------------------------
(* The process and its sessions *)

\* The start of the process, which reads the journal from its file.
LEMMA StartServiceStep == ASSUME IInv, StartService PROVE IInv'
  <1>1. TypeOK'
    <2>1. ControllerOK'
      BY ControllerType DEF IInv, TypeOK, ControllerOK, StartService, Locations
    <2> QED BY <2>1 DEF IInv, TypeOK, ControllerOK, StartService, backend
  <1>2. JournalInv'
    BY DEF IInv, StartService, backend, JournalInv, LeasedNeverExecuted,
           AbsentIsSettled, AtMostOnce
  <1>3. RunningIsDurable'
    BY DEF StartService, RunningIsDurable
  <1>4. ControlInv'
    BY AwayStep DEF StartService
  <1> QED BY <1>1, <1>2, <1>3, <1>4 DEF IInv, JournalInv, ControlInv

\* The death of the process, which loses what is only in memory.
LEMMA CrashStep == ASSUME IInv, Crash PROVE IInv'
  <1>1. TypeOK'
    <2>1. ControllerOK'
      BY ControllerType DEF IInv, TypeOK, ControllerOK, Crash, Locations
    <2>2. faults' \in Nat
      BY DEF IInv, TypeOK, Crash, Fault
    <2> QED BY <2>1, <2>2 DEF IInv, TypeOK, ControllerOK, Crash, backend, WorkerStates
  <1>2. JournalInv'
    BY DEF IInv, Crash, backend, JournalInv, LeasedNeverExecuted,
           AbsentIsSettled, AtMostOnce
  <1>3. RunningIsDurable'
    BY DEF Crash, RunningIsDurable
  <1>4. ControlInv'
    BY AwayStep DEF Crash
  <1> QED BY <1>1, <1>2, <1>3, <1>4 DEF IInv, JournalInv, ControlInv

\* The end of a session or of the process between two jobs.
LEMMA ShutdownStep ==
    ASSUME IInv, RequestShutdown \/ Shutdown \/ SessionFails
    PROVE  IInv'
  <1>1. CASE RequestShutdown
    BY <1>1 DEF RequestShutdown, Fault, IInv, TypeOK, LeasedNeverExecuted,
       AbsentIsSettled, RunningIsDurable, ExecutionIsAllowed, TerminalSnapshot,
       Ownership, TodoIsJournaled, AtMostOnce, controller, journal, backend,
       WorkerActive
  <1>2. CASE Shutdown \/ SessionFails
    <2>1. TypeOK'
      <3>1. ControllerOK'
        BY <1>2, ControllerType
           DEF IInv, TypeOK, ControllerOK, Shutdown, SessionFails, BackendError, Locations
      <3> QED BY <1>2, <3>1
         DEF IInv, TypeOK, ControllerOK, Shutdown, SessionFails, Fault, journal, backend
    <2>2. TerminalIsFinal /\ UNCHANGED <<journal, runs>> /\ pc # "abort"
      BY <1>2 DEF Shutdown, SessionFails, TerminalIsFinal, backend
    <2>3. ControlInv'
      BY <1>2, AwayStep DEF Shutdown, SessionFails, BackendError
    <2> QED BY <2>1, <2>2, <2>3, QuietStep, QuietDurable DEF IInv, JournalInv, ControlInv
  <1> QED BY <1>1, <1>2

\* A new session with the records of the journal to be looked at.
LEMMA ConnectStep == ASSUME IInv, Connect PROVE IInv'
  <1>1. TypeOK'
    BY DEF IInv, TypeOK, Connect, journal, Locations, SessionIds
  <1>2. TerminalIsFinal /\ UNCHANGED <<journal, runs>> /\ pc # "abort"
    BY DEF Connect, TerminalIsFinal
  <1>3. ControlInv'
    BY DEF Connect, journal, ControlInv, ExecutionIsAllowed, TerminalSnapshot,
           Ownership, TodoIsJournaled, Working, Owning
  <1> QED BY <1>1, <1>2, <1>3, QuietStep, QuietDurable DEF IInv, JournalInv, ControlInv

-----------------------------------------------------------------------------
(* The recovery pass *)

\* The pass of recovery turns to its next record.
LEMMA RecoverNextStep ==
    ASSUME IInv, NEW j \in Jobs, RecoverNext(j) PROVE IInv'
  <1>1. TypeOK'
    BY DEF IInv, TypeOK, RecoverNext, journal, backend, Locations
  <1>2. TerminalIsFinal /\ UNCHANGED <<journal, runs>> /\ pc # "abort"
    BY DEF RecoverNext, TerminalIsFinal, backend
  <1>3. ControlInv'
    BY DEF IInv, RecoverNext, journal, backend, ControlInv, ExecutionIsAllowed,
           TerminalSnapshot, Ownership, TodoIsJournaled, Working, Owning
  <1> QED BY <1>1, <1>2, <1>3, QuietStep, QuietDurable DEF IInv, JournalInv, ControlInv

\* At plan and decide the controller has a record and is not in a cleanup.
LEMMA Planning ==
    ASSUME IInv, pc \in {"plan", "decide"}
    PROVE  /\ cur \in Jobs /\ cur \notin todo /\ HasRecord(mem[cur])
           /\ mem[cur] \in Records /\ srv[cur] \in Rows /\ rem \in Rows
           /\ IsTerminal(rem) => IsTerminal(srv[cur])
           /\ pc # "abort"
  BY DEF IInv, TypeOK, Ownership, TerminalSnapshot, Working

\* The record of `cur` is dropped because the row is terminal.
LEMMA ForgetStep ==
    ASSUME IInv, pc \in {"plan", "submit", "resubmit"}, UNCHANGED <<worker, stop, runs>>,
           BackendOK', TerminalIsFinal, IsTerminal(srv'[cur]),
           \/ Persist(UpdateRecord(cur, NoRecord)) /\ NextJob
           \/ PersistFails(UpdateRecord(cur, NoRecord)) /\ EndSession("connect")
    PROVE  IInv'
  <1>1. cur \in Jobs /\ cur \notin todo
    BY DEF IInv, Ownership, Working
  <1>2. JournalOK' /\ faults' \in Nat
    BY <1>1, NoRecordType, UpdateType, WriteType DEF IInv, TypeOK, JournalOK
  <1>3. ControllerOK'
    BY ControllerType DEF IInv, TypeOK, ControllerOK, Locations
  <1>4. TypeOK'
    BY <1>2, <1>3 DEF IInv, TypeOK, JournalOK, ControllerOK, BackendOK
  <1>5. NoRecord.phase = "Absent"
    BY DEF NoRecord
  <1>6. JournalInv'
    BY <1>1, <1>5, WriteStep
  <1>7. RunningIsDurable'
    BY <1>1, <1>5, WriteDurable
  <1>8. ControlInv'
    <2>1. CASE NextJob
      <3>1. mem' = UpdateRecord(cur, NoRecord)
        BY DEF Persist, PersistFails
      <3> QED BY <1>1, <2>1, <3>1, TodoStep, NextJobStep
    <2> QED BY <2>1, AwayStep
  <1> QED BY <1>4, <1>6, <1>7, <1>8 DEF IInv, JournalInv, ControlInv

\* The row of a record is terminal: the record is dropped.
LEMMA PlanForgetStep ==
    ASSUME IInv, PlanForget \/ PlanReclaimTerminal PROVE IInv'
  <1>1. pc = "plan" /\ IsTerminal(srv[cur])
    BY Planning DEF PlanForget, PlanReclaimTerminal, ForgetOk
  <1>2. UNCHANGED <<srv, late, sessions>>
    BY DEF PlanForget, PlanReclaimTerminal, backend
  <1>3. BackendOK' /\ TerminalIsFinal /\ IsTerminal(srv'[cur])
    BY <1>1, <1>2 DEF IInv, TypeOK, BackendOK, TerminalIsFinal
  <1> QED BY <1>1, <1>3, ForgetStep DEF PlanForget, PlanReclaimTerminal

\* Steps of the pass that touch neither the journal nor the executions, and
\* end at one of the places l.
LEMMA QuietPlan ==
    ASSUME IInv, pc \in {"plan", "decide"}, UNCHANGED <<journal, worker, stop, runs>>,
           BackendOK', faults' \in Nat, TerminalIsFinal, NEW l \in Locations,
           EndSession(l) \/ GoTo(l) \/ NextJob, ControlInv'
    PROVE  IInv'
  <1>1. ControllerOK'
    BY ControllerType DEF IInv, TypeOK, ControllerOK
  <1>2. TypeOK'
    BY <1>1 DEF IInv, TypeOK, ControllerOK, BackendOK, journal
  <1> QED BY <1>2, QuietStep, QuietDurable DEF IInv, JournalInv, ControlInv

\* Nothing of the Backend changes.
LEMMA QuietBackend ==
    ASSUME IInv, UNCHANGED <<backend, faults>>
    PROVE  BackendOK' /\ faults' \in Nat /\ TerminalIsFinal
  BY DEF IInv, TypeOK, BackendOK, TerminalIsFinal, backend

\* A lease of another session is left to lapse.
LEMMA PlanWaitStep == ASSUME IInv, PlanWait PROVE IInv'
  <1>1. ControlInv'
    BY NextJobStep DEF IInv, PlanWait, TodoIsJournaled, journal
  <1> QED BY <1>1, QuietBackend, QuietPlan DEF PlanWait, Locations

\* The reclaim of a lapsed lease is refused or not answered.
LEMMA PlanReclaimFailsStep == ASSUME IInv, PlanReclaimFails PROVE IInv'
  <1>1. ReclaimRequest \in Requests
    BY Planning, RequestType DEF IInv, TypeOK, PlanReclaimFails, ReclaimRequest,
       Rows, Payloads
  <1>2. BackendOK' /\ faults' \in Nat /\ TerminalIsFinal
    BY <1>1, UnansweredType DEF IInv, TypeOK, BackendOK, PlanReclaimFails
  <1>3. PICK l \in {"down", "connect"} : EndSession(l)
    BY DEF PlanReclaimFails, BackendError
  <1>4. ControlInv'
    BY <1>3, AwayStep
  <1> QED BY <1>2, <1>3, <1>4, QuietPlan DEF PlanReclaimFails, Locations

\* A record of `cur` is replaced by one of the same phase or of a later phase
\* that is neither Leased nor Absent nor newly Running, after which the
\* controller is at one of the places l.
LEMMA CurWriteStep ==
    ASSUME IInv, cur \in Jobs, cur \notin todo, UNCHANGED <<stop, runs>>,
           worker' \in WorkerStates, ControllerOK', BackendOK', TerminalIsFinal,
           NEW record \in Records,
           Persist(UpdateRecord(cur, record)) \/ PersistFails(UpdateRecord(cur, record)),
           \/ record.phase \in PendingPhases
           \/ /\ record.phase = mem[cur].phase
              /\ HasRecord(mem[cur]) /\ pc # "abort"
    PROVE  /\ TypeOK' /\ JournalInv' /\ RunningIsDurable'
           /\ mem'[cur] = record /\ HasRecord(record)
           /\ \A j \in todo : HasRecord(mem'[j])
  <1>1. JournalOK' /\ faults' \in Nat
    BY UpdateType, WriteType DEF IInv, TypeOK, JournalOK
  <1>2. TypeOK'
    BY <1>1 DEF IInv, TypeOK, JournalOK, ControllerOK, BackendOK
  <1>3. /\ record.phase = "Leased" => runs[cur] = 0
        /\ HasRecord(record)
        /\ record.phase = "Running" => disk[cur].phase = "Running"
    BY DEF IInv, LeasedNeverExecuted, RunningIsDurable, HasRecord, PendingPhases
  <1>4. JournalInv'
    BY <1>3, WriteStep
  <1>5. RunningIsDurable'
    BY <1>3, WriteDurable
  <1>6. mem' = UpdateRecord(cur, record)
    BY DEF Persist, PersistFails
  <1>7. mem'[cur] = record
    BY <1>6 DEF IInv, TypeOK, UpdateRecord
  <1> QED BY <1>2, <1>3, <1>4, <1>5, <1>6, <1>7, TodoStep

\* adopt_reclaimed_lease, then on to the decision.
LEMMA AdoptStep ==
    ASSUME IInv, pc = "plan", UNCHANGED <<worker, stop, runs>>,
           BackendOK', TerminalIsFinal, NEW row \in Rows, ~IsTerminal(row),
           LET document == UpdateRecord(cur, Adopt(mem[cur], row, session))
           IN  \/ /\ Persist(document)
                  /\ pc' = "decide" /\ rem' \in Rows /\ ~IsTerminal(rem')
                  /\ UNCHANGED <<cur, todo, session>>
               \/ PersistFails(document) /\ EndSession("connect")
    PROVE  IInv'
  <1> DEFINE record == Adopt(mem[cur], row, session)
  <1>1. cur \in Jobs /\ cur \notin todo /\ HasRecord(mem[cur])
    BY Planning
  <1>2. /\ record \in Records /\ record.phase = mem[cur].phase
        /\ record.session = session
    BY <1>1, Planning, AdoptType DEF IInv, TypeOK
  <1>3. ControllerOK'
    BY ControllerType DEF IInv, TypeOK, ControllerOK, Locations
  <1>4. /\ TypeOK' /\ JournalInv' /\ RunningIsDurable'
        /\ mem'[cur] = record /\ HasRecord(record)
        /\ \A j \in todo : HasRecord(mem'[j])
    <2>1. worker' \in WorkerStates
      BY DEF IInv, TypeOK
    <2> HIDE DEF record
    <2> QED BY <1>1, <1>2, <1>3, <2>1, CurWriteStep DEF record
  <1>5. ControlInv'
    <2>1. CASE EndSession("connect")
      BY <2>1, AwayStep
    <2>2. CASE pc' = "decide" /\ ~IsTerminal(rem') /\ UNCHANGED <<cur, todo, session>>
      <3> HIDE DEF record
      <3> QED BY <1>1, <1>2, <1>4, <2>2 DEF ControlInv, ExecutionIsAllowed,
                 TerminalSnapshot, Ownership, TodoIsJournaled, Working, Owning
    <2> QED BY <2>1, <2>2
  <1> QED BY <1>4, <1>5 DEF IInv, JournalInv, ControlInv

\* A reclaimed lease is adopted.
LEMMA PlanReclaimStep == ASSUME IInv, PlanReclaim PROVE IInv'
  <1>1. ReclaimRequest \in Requests
    BY Planning, RequestType DEF IInv, TypeOK, PlanReclaim, ReclaimRequest, Rows, Payloads
  <1>2. BackendOK' /\ TerminalIsFinal
    BY <1>1, AnsweredType DEF IInv, TypeOK, BackendOK, PlanReclaim
  <1>3. srv'[cur] \in Rows /\ ~IsTerminal(srv'[cur])
    BY <1>2, Planning DEF PlanReclaim, BackendOK, AdoptOk, IsTerminal, TerminalStatuses
  <1> QED BY <1>2, <1>3, AdoptStep DEF PlanReclaim

\* The lease of this runner's former session is adopted.
LEMMA PlanAdoptStep == ASSUME IInv, PlanAdopt PROVE IInv'
  <1>1. BackendOK' /\ TerminalIsFinal
    BY DEF IInv, TypeOK, BackendOK, PlanAdopt, TerminalIsFinal, backend
  <1>2. CASE AdoptOk(mem[cur], rem, session)
    <2>1. rem \in Rows /\ ~IsTerminal(rem)
      BY <1>2 DEF IInv, TypeOK, AdoptOk, IsTerminal, TerminalStatuses
    <2> QED BY <1>1, <1>2, <2>1, AdoptStep DEF PlanAdopt, GoTo
  <1>3. CASE ~AdoptOk(mem[cur], rem, session)
    <2>1. EndSession("connect") /\ UNCHANGED <<journal, faults, worker, stop, backend, runs>>
      BY <1>3 DEF PlanAdopt
    <2>2. ControlInv'
      BY <2>1, AwayStep
    <2> QED BY <2>1, <2>2, QuietBackend, QuietPlan DEF PlanAdopt, Locations
  <1> QED BY <1>2, <1>3

\* What a decision rests on: the session owns an active, non-terminal row.
LEMMA Decided ==
    ASSUME IInv, Deciding,
           Plan \in {"StartExecution", "ResumeIdempotentExecution",
                     "SubmitSucceeded", "SubmitFailed"}
    PROVE  /\ rem.session = session /\ mem[cur].session = session
           /\ ~IsTerminal(rem)
           /\ Plan = OwnedAction(mem[cur], rem, cur \in Idempotent)
  <1>1. /\ ~IsTerminal(rem) /\ rem.session = session
        /\ Plan = OwnedAction(mem[cur], rem, cur \in Idempotent)
    BY DEF Plan, RecoveryAction
  <1>2. CASE pc = "decide"
    BY <1>1, <1>2 DEF IInv, Ownership, Owning, Working
  <1>3. CASE ~OwnsStaleRecord
    BY <1>1, <1>3 DEF OwnsStaleRecord
  <1> QED BY <1>1, <1>2, <1>3 DEF Deciding

\* Recovery executes a job: it was leased and never begun, or may be replayed.
LEMMA DecideExecuteStep == ASSUME IInv, DecideExecute PROVE IInv'
  <1>1. /\ pc \in {"plan", "decide"}
        /\ GoTo("start") /\ UNCHANGED <<journal, worker, stop, backend, faults, runs>>
    BY DEF DecideExecute, Deciding
  <1>2. /\ mem[cur].session = session
        /\ mem[cur].phase = "Leased" \/ (mem[cur].phase = "Running" /\ cur \in Idempotent)
    BY <1>1, Planning, Decided DEF DecideExecute, OwnedAction, Records, Phases
  <1>3. runs[cur] = 0 \/ cur \in Idempotent
    BY <1>1, <1>2, Planning DEF IInv, LeasedNeverExecuted
  <1>4. ControlInv'
    BY <1>1, <1>2, <1>3, Planning DEF GoTo, journal, backend, ControlInv, IInv,
       ExecutionIsAllowed, TerminalSnapshot, Ownership, TodoIsJournaled, Working, Owning
  <1> QED BY <1>1, <1>4, QuietBackend, QuietPlan DEF Locations

\* Recovery submits an outcome that was recorded before.
LEMMA DecideSubmitStep == ASSUME IInv, DecideSubmit PROVE IInv'
  <1>1. /\ pc \in {"plan", "decide"}
        /\ GoTo("resubmit") /\ UNCHANGED <<journal, worker, stop, backend, faults, runs>>
    BY DEF DecideSubmit, Deciding
  <1>2. mem[cur].session = session /\ mem[cur].phase \in PendingPhases
    BY <1>1, Planning, Decided DEF DecideSubmit, OwnedAction, Records, Phases, HasRecord
  <1>3. ControlInv'
    BY <1>1, <1>2, Planning DEF GoTo, journal, backend, ControlInv, IInv,
       ExecutionIsAllowed, TerminalSnapshot, Ownership, TodoIsJournaled, Working, Owning
  <1> QED BY <1>1, <1>3, QuietBackend, QuietPlan DEF Locations

\* record_terminal on the record of `cur`: it takes an outcome, in memory at
\* least, and the controller submits it, cleans up or leaves.
LEMMA OutcomeStep ==
    ASSUME IInv, pc \in Working, UNCHANGED <<stop, backend, runs>>,
           worker' \in WorkerStates, mem[cur].session = session,
           NEW phase \in PendingPhases, NEW payload \in Payloads,
           NEW l \in {"submit", "resubmit", "abort", "down", "connect"},
           LET document == UpdateRecord(cur, RecordTerminal(mem[cur], phase, payload))
           IN  Persist(document) \/ PersistFails(document),
           IF l \in {"down", "connect"} THEN EndSession(l) ELSE GoTo(l)
    PROVE  IInv'
  <1> DEFINE record == RecordTerminal(mem[cur], phase, payload)
  <1>1. cur \in Jobs /\ cur \notin todo /\ mem[cur] \in Records
    BY DEF IInv, TypeOK, Ownership
  <1>2. record \in Records /\ record.phase = phase /\ record.session = session
    BY <1>1, RecordTerminalType
  <1>3. ControllerOK'
    BY ControllerType DEF IInv, TypeOK, ControllerOK, Locations
  <1>4. BackendOK' /\ TerminalIsFinal
    BY DEF IInv, TypeOK, BackendOK, TerminalIsFinal, backend
  <1>5. /\ TypeOK' /\ JournalInv' /\ RunningIsDurable'
        /\ mem'[cur] = record /\ HasRecord(record)
        /\ \A j \in todo : HasRecord(mem'[j])
    <2> HIDE DEF record
    <2> QED BY <1>1, <1>2, <1>3, <1>4, CurWriteStep DEF record
  <1>6. ControlInv'
    <2>1. CASE l \in {"down", "connect"}
      BY <2>1, AwayStep
    <2>2. CASE l \in {"submit", "resubmit", "abort"}
      <3>1. GoTo(l)
        BY <2>2
      <3> HIDE DEF record
      <3> QED BY <1>1, <1>2, <1>5, <2>2, <3>1
         DEF GoTo, backend, ControlInv, IInv, ExecutionIsAllowed, TerminalSnapshot,
             Ownership, TodoIsJournaled, Working, Owning
    <2> QED BY <2>1, <2>2
  <1> QED BY <1>5, <1>6 DEF IInv, JournalInv, ControlInv

\* The number of executions of a job is a natural number.
LEMMA RunsType ==
    ASSUME IInv, cur \in Jobs
    PROVE  runs[cur] \in Nat
  BY DEF IInv, TypeOK

\* A job that began and may not be replayed is recorded as failed.
LEMMA DecideManualStep == ASSUME IInv, DecideManual PROVE IInv'
  <1>1. pc \in {"plan", "decide"} /\ pc \in Working /\ cur \in Jobs
    BY Planning DEF DecideManual, Deciding, Working
  <1>2. PayloadOf("uncertain", runs[cur]) \in Payloads
    BY <1>1, RunsType, PayloadType
  <1>3. worker' \in WorkerStates
    BY DEF IInv, TypeOK, DecideManual
  <1>4. PICK l \in {"resubmit", "connect"} :
            IF l \in {"down", "connect"} THEN EndSession(l) ELSE GoTo(l)
    BY DEF DecideManual
  <1> QED BY <1>1, <1>2, <1>3, <1>4, OutcomeStep DEF DecideManual, PendingPhases

\* The record of that failure cannot be made: the session ends.
LEMMA DecideManualFailsStep == ASSUME IInv, DecideManualFails PROVE IInv'
  <1>1. pc \in {"plan", "decide"} /\ EndSession("connect")
    BY DEF DecideManualFails, Deciding
  <1>2. ControlInv'
    BY <1>1, AwayStep
  <1> QED BY <1>1, <1>2, QuietBackend, QuietPlan DEF DecideManualFails, Locations

-----------------------------------------------------------------------------
(* The polling loop *)

\* The request for a lease is a request.
LEMMA LeaseRequestType ==
    ASSUME IInv, NEW j \in Jobs
    PROVE  LeaseRequest(j) \in Requests /\ LeaseRequest(j).job = j
           /\ LeaseRequest(j).op = "lease"
  BY RequestType DEF IInv, TypeOK, LeaseRequest, Payloads

\* record_lease makes a Leased record of the session's.
LEMMA RecordLeaseType ==
    ASSUME NEW row \in Rows, NEW s \in SessionIds
    PROVE  /\ RecordLease(row, s) \in Records
           /\ RecordLease(row, s).phase = "Leased"
           /\ RecordLease(row, s).session = s
           /\ HasRecord(RecordLease(row, s))
  BY DEF RecordLease, Records, Rows, Phases, Payloads, HasRecord

\* A job is leased and its record made, in memory at least.
LEMMA LeaseJobStep ==
    ASSUME IInv, NEW j \in Jobs, LeaseJob(j) PROVE IInv'
  <1> DEFINE record == RecordLease(srv'[j], session)
  <1>1. pc = "loop" /\ todo = {} /\ UNCHANGED <<worker, stop, runs>>
    BY DEF LeaseJob
  <1>2. BackendOK' /\ TerminalIsFinal
    BY LeaseRequestType, AnsweredType DEF IInv, TypeOK, BackendOK, LeaseJob
  <1>3. runs[j] = 0
    <2>1. srv[j].status = "Queued"
      BY LeaseRequestType DEF LeaseJob, Answered, Accepts
    <2>2. ~HasRecord(mem[j])
      BY DEF LeaseJob, RecordLeaseOk
    <2> QED BY <2>1, <2>2 DEF IInv, AbsentIsSettled, IsTerminal, TerminalStatuses
  <1>4. ~IsTerminal(srv'[j]) /\ srv'[j] \in Rows
    <2>1. srv'[j] = Effect(srv[j], LeaseRequest(j))
      BY LeaseRequestType DEF IInv, TypeOK, LeaseJob, Answered
    <2>2. srv'[j].status = "Leased"
      BY <2>1, LeaseRequestType DEF IInv, TypeOK, Effect, Rows
    <2> QED BY <1>2, <2>2 DEF BackendOK, IsTerminal, TerminalStatuses
  <1>5. /\ record \in Records /\ record.phase = "Leased" /\ record.session = session
        /\ HasRecord(record)
    BY <1>4, RecordLeaseType DEF IInv, TypeOK
  <1>6. Persist(UpdateRecord(j, record)) \/ PersistFails(UpdateRecord(j, record))
    BY DEF LeaseJob
  <1>7. \/ pc' = "start" /\ cur' = j /\ rem' = srv'[j] /\ UNCHANGED <<todo, session>>
        \/ EndSession("connect")
    BY DEF LeaseJob
  <1> HIDE DEF record
  <1>8. TypeOK'
    <2>1. JournalOK' /\ faults' \in Nat
      BY <1>5, <1>6, UpdateType, WriteType DEF IInv, TypeOK, JournalOK
    <2>2. ControllerOK'
      BY <1>4, <1>7, ControllerType DEF IInv, TypeOK, ControllerOK, Locations
    <2> QED BY <1>1, <1>2, <2>1, <2>2 DEF IInv, TypeOK, JournalOK, ControllerOK, BackendOK
  <1>9. JournalInv'
    BY <1>1, <1>2, <1>3, <1>5, <1>6, WriteStep
  <1>10. RunningIsDurable'
    BY <1>1, <1>5, <1>6, WriteDurable
  <1>11. ControlInv'
    <2>1. mem' = UpdateRecord(j, record)
      BY <1>6 DEF Persist, PersistFails
    <2>2. mem'[j] = record
      BY <2>1 DEF IInv, TypeOK, UpdateRecord
    <2>3. CASE EndSession("connect")
      BY <2>3, AwayStep
    <2>4. CASE pc' = "start" /\ cur' = j /\ rem' = srv'[j] /\ UNCHANGED <<todo, session>>
      BY <1>1, <1>3, <1>4, <1>5, <2>2, <2>4 DEF ControlInv, ExecutionIsAllowed,
         TerminalSnapshot, Ownership, TodoIsJournaled, Working, Owning
    <2> QED BY <1>7, <2>3, <2>4
  <1> QED BY <1>8, <1>9, <1>10, <1>11 DEF IInv, JournalInv, ControlInv

\* A lease that has a record already, or is never heard of, changes no record.
LEMMA LeaseConflictStep ==
    ASSUME IInv, NEW j \in Jobs, LeaseConflict(j) \/ LeaseLost(j) PROVE IInv'
  <1>1. BackendOK' /\ faults' \in Nat /\ TerminalIsFinal
    BY LeaseRequestType, AnsweredType, UnansweredType
       DEF IInv, TypeOK, BackendOK, LeaseConflict, LeaseLost, Unanswered
  <1>2. PICK l \in {"down", "connect"} : EndSession(l)
    BY DEF LeaseConflict, LeaseLost, BackendError
  <1>3. ControllerOK'
    BY <1>2, ControllerType DEF IInv, TypeOK, ControllerOK, Locations
  <1>4. ControlInv'
    BY <1>2, AwayStep
  <1>5. UNCHANGED <<journal, worker, stop, runs>> /\ pc # "abort"
    BY DEF LeaseConflict, LeaseLost
  <1>6. TypeOK'
    BY <1>1, <1>3, <1>5 DEF IInv, TypeOK, ControllerOK, BackendOK, journal
  <1> QED BY <1>1, <1>4, <1>5, <1>6, QuietStep, QuietDurable DEF IInv, JournalInv, ControlInv

-----------------------------------------------------------------------------
(* Execution and submission *)

\* A step that leaves the journal and the executions alone.
LEMMA QuietWork ==
    ASSUME IInv, UNCHANGED <<journal, runs>>, TerminalIsFinal,
           worker' \in WorkerStates, stop' \in BOOLEAN, faults' \in Nat,
           ControllerOK', BackendOK', ControlInv',
           pc = "abort" => UNCHANGED <<pc, cur>> \/ mem[cur].phase # "Running"
    PROVE  IInv'
  <1>1. TypeOK'
    BY DEF IInv, TypeOK, ControllerOK, BackendOK, journal
  <1> QED BY <1>1, QuietStep, QuietDurable DEF IInv, JournalInv, ControlInv

\* The controller that owns the record of `cur` goes on with it.
LEMMA GoToStep ==
    ASSUME IInv, pc \in Owning, NEW l \in {"mark", "exec", "abort", "resubmit"}, GoTo(l),
           UNCHANGED <<journal, runs>>, TerminalIsFinal,
           l = "mark" => pc = "start",
           l = "exec" => pc = "exec",
           l = "resubmit" => mem[cur].phase \in PendingPhases
    PROVE  ControlInv' /\ ControllerOK'
  <1>1. ControllerOK'
    BY ControllerType DEF IInv, TypeOK, ControllerOK, Locations
  <1>2. ControlInv'
    BY DEF IInv, GoTo, journal, TerminalIsFinal, ControlInv, ExecutionIsAllowed,
       TerminalSnapshot, Ownership, TodoIsJournaled, Working, Owning
  <1> QED BY <1>1, <1>2

\* The requests the controller makes for the record it owns.
LEMMA OwnedRequestType ==
    ASSUME IInv, pc \in Owning
    PROVE  /\ cur \in Jobs
           /\ StartRequest \in Requests /\ StartRequest.job = cur
           /\ RenewRequest \in Requests /\ RenewRequest.job = cur
           /\ SettleRequest \in Requests /\ SettleRequest.job = cur
           /\ SettleRequest.op = "settle"
  <1>1. /\ cur \in Jobs /\ rem.version \in Nat /\ mem[cur].version \in Nat
        /\ mem[cur].payload \in Payloads /\ session \in SessionIds
        /\ NoPayload \in Payloads
    BY DEF IInv, TypeOK, Ownership, Working, Owning, Rows, Records, Payloads
  <1> QED BY <1>1, RequestType DEF StartRequest, RenewRequest, SettleRequest

\* The start of an attempt is accepted.
LEMMA StartJobStep == ASSUME IInv, StartJob PROVE IInv'
  <1>1. pc \in Owning /\ pc # "abort"
    BY DEF StartJob, Working, Owning
  <1>2. BackendOK' /\ TerminalIsFinal
    BY <1>1, OwnedRequestType, AnsweredType
       DEF IInv, TypeOK, BackendOK, StartJob, TerminalIsFinal, backend
  <1>3. ControlInv' /\ ControllerOK'
    BY <1>1, <1>2, GoToStep DEF StartJob
  <1> QED BY <1>1, <1>2, <1>3, QuietWork DEF StartJob, IInv, TypeOK

\* The start of an attempt is refused or not answered: the cleanup follows.
LEMMA StartFailsStep == ASSUME IInv, StartFails PROVE IInv'
  <1>1. pc \in Owning /\ pc # "abort"
    BY DEF StartFails, Working, Owning
  <1>2. BackendOK' /\ faults' \in Nat /\ TerminalIsFinal
    BY <1>1, OwnedRequestType, UnansweredType DEF IInv, TypeOK, BackendOK, StartFails
  <1>3. ControlInv' /\ ControllerOK'
    BY <1>1, <1>2, GoToStep DEF StartFails
  <1> QED BY <1>1, <1>2, <1>3, QuietWork DEF StartFails, IInv, TypeOK

\* The step that begins an execution.  If the record was Running already, the
\* file has it Running too; if the write failed, nothing is executed.
LEMMA MarkJobRunningStep == ASSUME IInv, MarkJobRunning PROVE IInv'
  <1>1. /\ pc = "mark" /\ cur \in Jobs /\ cur \notin todo /\ mem[cur] \in Records
        /\ HasRecord(mem[cur]) /\ mem[cur].session = session
        /\ runs[cur] \in Nat /\ runs[cur] + 1 \in Nat
        /\ runs[cur] = 0 \/ cur \in Idempotent
    BY DEF IInv, TypeOK, MarkJobRunning, Ownership, Working, Owning, ExecutionIsAllowed
  <1>2. UNCHANGED <<stop, srv, late, sessions>> /\ TerminalIsFinal
    BY DEF MarkJobRunning, backend, TerminalIsFinal
  <1> DEFINE record == MarkRunning(mem[cur])
  <1>3. /\ record \in Records /\ record.phase = "Running" /\ record.session = session
        /\ HasRecord(record)
    BY <1>1 DEF MarkRunning, Records, Phases, HasRecord
  <1>4. CASE Persist(UpdateRecord(cur, record)) /\ GoTo("exec")
             /\ worker' = "running" /\ runs' = [runs EXCEPT ![cur] = @ + 1]
    <2> HIDE DEF record
    <2>1. /\ mem' = [mem EXCEPT ![cur] = record] /\ disk' = mem'
          /\ UNCHANGED <<faults, cur, rem, todo, session>> /\ pc' = "exec"
      BY <1>4 DEF Persist, UpdateRecord, GoTo
    <2>2. TypeOK'
      BY <1>1, <1>2, <1>3, <1>4, <2>1 DEF IInv, TypeOK, Locations, WorkerStates
    <2>3. JournalInv' /\ RunningIsDurable'
      BY <1>1, <1>2, <1>3, <1>4, <2>1
         DEF IInv, TypeOK, JournalInv, LeasedNeverExecuted, AbsentIsSettled, AtMostOnce,
             RunningIsDurable, HasRecord
    <2>4. ControlInv'
      BY <1>1, <1>2, <1>3, <1>4, <2>1
         DEF IInv, TypeOK, ControlInv, ExecutionIsAllowed, TerminalSnapshot, Ownership,
             TodoIsJournaled, Working, Owning
    <2> QED BY <2>2, <2>3, <2>4 DEF IInv, JournalInv, ControlInv
  <1>5. CASE /\ mem[cur].phase = "Running" /\ UNCHANGED <<journal, faults>>
             /\ GoTo("exec") /\ worker' = "running"
             /\ runs' = [runs EXCEPT ![cur] = @ + 1]
    <2>1. UNCHANGED <<mem, disk, faults, cur, rem, todo, session>> /\ pc' = "exec"
      BY <1>5 DEF journal, GoTo
    <2>2. disk[cur].phase = "Running"
      BY <1>1, <1>5 DEF IInv, RunningIsDurable
    <2>3. TypeOK'
      BY <1>1, <1>2, <1>5, <2>1 DEF IInv, TypeOK, Locations, WorkerStates
    <2>4. JournalInv' /\ RunningIsDurable'
      BY <1>1, <1>2, <1>5, <2>1, <2>2
         DEF IInv, TypeOK, JournalInv, LeasedNeverExecuted, AbsentIsSettled, AtMostOnce,
             RunningIsDurable, HasRecord
    <2>5. ControlInv'
      BY <1>1, <1>2, <1>5, <2>1
         DEF IInv, TypeOK, ControlInv, ExecutionIsAllowed, TerminalSnapshot, Ownership,
             TodoIsJournaled, Working, Owning
    <2> QED BY <2>3, <2>4, <2>5 DEF IInv, JournalInv, ControlInv
  <1>6. CASE PersistFails(UpdateRecord(cur, record)) /\ GoTo("abort")
             /\ UNCHANGED <<worker, runs>>
    <2> HIDE DEF record
    <2>1. /\ mem' = [mem EXCEPT ![cur] = record] /\ disk' \in {disk, mem'}
          /\ UNCHANGED <<cur, rem, todo, session>> /\ pc' = "abort"
      BY <1>6 DEF PersistFails, UpdateRecord, GoTo
    <2>2. faults' \in Nat
      BY <1>6 DEF IInv, TypeOK, PersistFails, Fault
    <2>3. TypeOK'
      BY <1>1, <1>2, <1>3, <1>6, <2>1, <2>2 DEF IInv, TypeOK, Locations
    <2>4. JournalInv'
      BY <1>1, <1>2, <1>3, <1>6, WriteStep
    <2>5. RunningIsDurable'
      BY <1>1, <1>3, <2>1 DEF IInv, TypeOK, RunningIsDurable
    <2>6. ControlInv'
      BY <1>1, <1>2, <1>3, <1>6, <2>1
         DEF IInv, TypeOK, ControlInv, ExecutionIsAllowed, TerminalSnapshot, Ownership,
             TodoIsJournaled, Working, Owning
    <2> QED BY <2>3, <2>4, <2>5, <2>6 DEF IInv, JournalInv, ControlInv
  <1> QED BY <1>4, <1>5, <1>6 DEF MarkJobRunning

\* The lease has lapsed before the execution: the process ends.
LEMMA MarkExpiredStep == ASSUME IInv, MarkExpired PROVE IInv'
  <1>1. pc \in Owning /\ pc # "abort"
    BY DEF MarkExpired, Working, Owning
  <1>2. BackendOK' /\ faults' \in Nat /\ TerminalIsFinal
    BY QuietBackend DEF MarkExpired
  <1>3. UNCHANGED <<journal, worker, stop, runs>>
    BY DEF MarkExpired
  <1>4. CASE GoTo("abort")
    BY <1>1, <1>2, <1>3, <1>4, GoToStep, QuietWork DEF IInv, TypeOK
  <1>5. CASE EndSession("down")
    <2>1. ControlInv' /\ ControllerOK'
      BY <1>5, AwayStep, ControllerType DEF IInv, TypeOK, ControllerOK, Locations
    <2> QED BY <1>1, <1>2, <1>3, <2>1, QuietWork DEF IInv, TypeOK
  <1> QED BY <1>4, <1>5 DEF MarkExpired

\* The worker goes on, ends or is told to stop; no record changes.
LEMMA WorkerStepStep == ASSUME IInv, WorkerStep \/ PollCancellation PROVE IInv'
  <1>1. /\ worker' \in WorkerStates
        /\ UNCHANGED <<controller, journal, stop, backend, faults, runs>>
    BY DEF WorkerStep, CommandExits, WorkerEnds, PollCancellation, WorkerStates
  <1> QED BY <1>1 DEF IInv, TypeOK, LeasedNeverExecuted, AbsentIsSettled, RunningIsDurable,
             ExecutionIsAllowed, TerminalSnapshot, Ownership, TodoIsJournaled, AtMostOnce,
             controller, journal, backend

\* The renewed lease is written to the record.
LEMMA RenewJobStep == ASSUME IInv, RenewJob PROVE IInv'
  <1> DEFINE record == RenewLease(mem[cur], srv'[cur].version)
  <1>1. /\ pc = "exec" /\ pc \in Owning /\ cur \in Jobs /\ cur \notin todo
        /\ mem[cur] \in Records /\ mem[cur].phase = "Running" /\ HasRecord(mem[cur])
        /\ mem[cur].session = session
    BY DEF IInv, TypeOK, RenewJob, Supervising, Ownership, Working, Owning
  <1>2. BackendOK' /\ TerminalIsFinal
    BY <1>1, OwnedRequestType, AnsweredType DEF IInv, TypeOK, BackendOK, RenewJob
  <1>3. srv'[cur] \in Rows /\ ~IsTerminal(srv'[cur])
    <2>1. srv'[cur] = Effect(srv[cur], RenewRequest) /\ Accepts(srv[cur], RenewRequest)
      BY <1>1, OwnedRequestType DEF IInv, TypeOK, RenewJob, Answered
    <2>2. RenewRequest.op = "renew"
      BY DEF RenewRequest, Request
    <2>3. srv[cur].status \in ActiveStatuses /\ srv'[cur].status = srv[cur].status
      BY <1>1, <2>1, <2>2 DEF Accepts, Effect, IInv, TypeOK, Rows
    <2> QED BY <1>1, <1>2, <2>3
           DEF BackendOK, IsTerminal, TerminalStatuses, ActiveStatuses
  <1>4. /\ record \in Records /\ record.phase = "Running" /\ record.session = session
        /\ HasRecord(record)
    BY <1>1, <1>3 DEF RenewLease, Records, Rows, HasRecord
  <1>5. \/ /\ Persist(UpdateRecord(cur, record))
           /\ rem' = srv'[cur] /\ UNCHANGED <<pc, cur, todo, session, worker>>
        \/ /\ PersistFails(UpdateRecord(cur, record)) /\ GoTo("exec")
           /\ worker' \in {"dropped", "stuck"}
    BY <1>1 DEF RenewJob, DropWorker, GoTo, controller
  <1> HIDE DEF record
  <1>6. worker' \in WorkerStates /\ ControllerOK' /\ UNCHANGED <<stop, runs>>
    BY <1>3, <1>5 DEF RenewJob, GoTo, IInv, TypeOK, ControllerOK, WorkerStates, Locations
  <1>7. /\ TypeOK' /\ JournalInv' /\ RunningIsDurable'
        /\ mem'[cur] = record /\ \A j \in todo : HasRecord(mem'[j])
    BY <1>1, <1>2, <1>4, <1>5, <1>6, CurWriteStep
  <1>8. ControlInv'
    BY <1>1, <1>2, <1>3, <1>4, <1>5, <1>7 DEF GoTo, IInv, TerminalIsFinal, ControlInv,
       ExecutionIsAllowed, TerminalSnapshot, Ownership, TodoIsJournaled, Working, Owning
  <1> QED BY <1>7, <1>8 DEF IInv, JournalInv, ControlInv

\* A renewal or a heartbeat fails: the worker is dropped and the cleanup follows.
LEMMA RenewFailsStep == ASSUME IInv, RenewFails \/ HeartbeatFails PROVE IInv'
  <1>1. pc = "exec" /\ pc \in Owning
    BY DEF RenewFails, HeartbeatFails, Supervising, Working, Owning
  <1>2. BackendOK' /\ faults' \in Nat /\ TerminalIsFinal
    BY <1>1, OwnedRequestType, UnansweredType
       DEF IInv, TypeOK, BackendOK, RenewFails, HeartbeatFails, Fault, backend,
           TerminalIsFinal
  <1>3. /\ worker' \in WorkerStates /\ GoTo("exec")
        /\ UNCHANGED <<journal, stop, runs>>
    BY <1>1 DEF RenewFails, HeartbeatFails, DropWorker, GoTo, controller, WorkerStates
  <1>4. ControlInv' /\ ControllerOK'
    BY <1>1, <1>2, <1>3, GoToStep
  <1> QED BY <1>1, <1>2, <1>3, <1>4, QuietWork DEF IInv, TypeOK, WorkerStates

\* The outcome of the worker is recorded before it is submitted.
LEMMA RecordOutcomeStep == ASSUME IInv, RecordOutcome PROVE IInv'
  <1>1. pc \in Working /\ cur \in Jobs /\ mem[cur].session = session
    BY DEF RecordOutcome, IInv, Ownership, Working, Owning
  <1>2. PayloadOf(worker, runs[cur]) \in Payloads
    BY <1>1, RunsType, PayloadType DEF RecordOutcome
  <1>3. OutcomePhase(worker) \in PendingPhases /\ worker' \in WorkerStates
    BY DEF RecordOutcome, OutcomePhase, PendingPhases, WorkerStates
  <1>4. PICK l \in {"submit", "abort"} :
            IF l \in {"down", "connect"} THEN EndSession(l) ELSE GoTo(l)
    BY DEF RecordOutcome
  <1> QED BY <1>1, <1>2, <1>3, <1>4, OutcomeStep DEF RecordOutcome

\* A submission is accepted and the record acknowledged.
LEMMA SubmitStep == ASSUME IInv, Submit PROVE IInv'
  <1>1. pc \in {"submit", "resubmit"} /\ pc \in Owning
    BY DEF Submit, Working, Owning
  <1>2. BackendOK' /\ TerminalIsFinal
    BY <1>1, OwnedRequestType, AnsweredType DEF IInv, TypeOK, BackendOK, Submit
  <1>3. IsTerminal(srv'[cur])
    <2>1. srv'[cur] = Effect(srv[cur], SettleRequest)
      BY <1>1, OwnedRequestType DEF IInv, TypeOK, Submit, Answered
    <2> QED BY <1>1, <2>1, OwnedRequestType, SettleTerminal DEF IInv, TypeOK
  <1> QED BY <1>1, <1>2, <1>3, ForgetStep DEF Submit

\* A submission is refused or not answered.
LEMMA SubmitFailsStep == ASSUME IInv, SubmitFails PROVE IInv'
  <1>1. pc \in Owning /\ pc # "abort"
    BY DEF SubmitFails, Working, Owning
  <1>2. BackendOK' /\ faults' \in Nat /\ TerminalIsFinal
    BY <1>1, OwnedRequestType, UnansweredType DEF IInv, TypeOK, BackendOK, SubmitFails
  <1>3. UNCHANGED <<journal, worker, stop, runs>>
    BY DEF SubmitFails
  <1>4. CASE GoTo("abort")
    BY <1>1, <1>2, <1>3, <1>4, GoToStep, QuietWork DEF IInv, TypeOK
  <1>5. CASE BackendError
    <2>1. ControlInv' /\ ControllerOK'
      BY <1>5, AwayStep, ControllerType
         DEF BackendError, IInv, TypeOK, ControllerOK, Locations
    <2> QED BY <1>1, <1>2, <1>3, <2>1, QuietWork DEF IInv, TypeOK
  <1> QED BY <1>4, <1>5 DEF SubmitFails

\* The cleanup records the failure of a job that was running.
LEMMA AbortRunningStep == ASSUME IInv, AbortRunning PROVE IInv'
  <1>1. pc \in Working /\ cur \in Jobs /\ mem[cur].session = session
    BY DEF AbortRunning, IInv, Ownership, Working, Owning
  <1>2. PayloadOf("exited", runs[cur]) \in Payloads
    BY <1>1, RunsType, PayloadType
  <1>3. worker' \in WorkerStates
    BY DEF AbortRunning, IInv, TypeOK
  <1>4. PICK l \in {"resubmit", "down", "connect"} :
            IF l \in {"down", "connect"} THEN EndSession(l) ELSE GoTo(l)
    BY DEF AbortRunning, BackendError
  <1> QED BY <1>1, <1>2, <1>3, <1>4, OutcomeStep DEF AbortRunning, PendingPhases

\* The cleanup of a job that was not running records nothing.
LEMMA AbortOtherStep == ASSUME IInv, AbortPending \/ AbortLeased PROVE IInv'
  <1>1. /\ pc \in Owning /\ mem[cur].session = session /\ HasRecord(mem[cur])
        /\ worker' \in WorkerStates /\ UNCHANGED <<journal, stop, backend, faults, runs>>
    BY DEF AbortPending, AbortLeased, IInv, TypeOK, Ownership, Working, Owning
  <1>2. BackendOK' /\ faults' \in Nat /\ TerminalIsFinal
    BY <1>1, QuietBackend
  <1>3. CASE AbortPending
    <2>1. mem[cur].phase # "Running"
      BY <1>3 DEF AbortPending, PendingPhases
    <2>2. ControlInv' /\ ControllerOK'
      BY <1>1, <1>2, <1>3, GoToStep DEF AbortPending
    <2> QED BY <1>1, <1>2, <2>1, <2>2, QuietWork DEF IInv, TypeOK
  <1>4. CASE AbortLeased
    <2>1. mem[cur].phase # "Running"
      BY <1>1, <1>4 DEF AbortLeased, RecordTerminalOk, OwnedLocally
    <2>2. ControlInv' /\ ControllerOK'
      BY <1>4, AwayStep, ControllerType
         DEF AbortLeased, BackendError, IInv, TypeOK, ControllerOK, Locations
    <2> QED BY <1>1, <1>2, <2>1, <2>2, QuietWork DEF IInv, TypeOK
  <1> QED BY <1>3, <1>4

-----------------------------------------------------------------------------
(* The Backend *)

\* The Backend and the network move on their own; the runner's state stays.
LEMMA BackendStepStep == ASSUME IInv, BackendStep PROVE IInv'
  <1>1. BackendOK' /\ TerminalIsFinal
    <2>1. CASE \E m \in late : DeliverLate(m)
      <3>1. PICK m \in late : DeliverLate(m)
        BY <2>1
      <3>2. m \in Requests /\ m.job \in Jobs
        BY DEF IInv, TypeOK, Requests
      <3>3. Effect(srv[m.job], m) \in Rows
        BY <3>2, EffectType DEF IInv, TypeOK
      <3>4. IsTerminal(srv[m.job]) => IsTerminal(Effect(srv[m.job], m))
        BY <3>1, <3>2, EffectTerminal DEF IInv, TypeOK, DeliverLate
      <3> QED BY <3>1, <3>2, <3>3, <3>4
             DEF DeliverLate, IInv, TypeOK, BackendOK, TerminalIsFinal
    <2>2. CASE \E j \in Jobs : LeaseLapses(j) \/ Requeue(j) \/ CancelJob(j)
      <3>1. PICK j \in Jobs : LeaseLapses(j) \/ Requeue(j) \/ CancelJob(j)
        BY <2>2
      <3>2. PICK row \in Rows : /\ srv' = [srv EXCEPT ![j] = row]
                                /\ IsTerminal(srv[j]) => IsTerminal(row)
        <4>1. CASE LeaseLapses(j)
          <5>1. [srv[j] EXCEPT !.lapsed = TRUE] \in Rows
            BY DEF IInv, TypeOK, Rows
          <5>2. srv' = [srv EXCEPT ![j] = [srv[j] EXCEPT !.lapsed = TRUE]]
            BY <4>1 DEF LeaseLapses
          <5>3. [srv[j] EXCEPT !.lapsed = TRUE].status = srv[j].status
            BY DEF IInv, TypeOK, Rows
          <5> QED BY <5>1, <5>2, <5>3 DEF IsTerminal
        <4>2. CASE Requeue(j)
          BY <4>2 DEF Requeue, IInv, TypeOK, Rows, IsTerminal, Statuses, SessionIds,
             ActiveStatuses, TerminalStatuses
        <4>3. CASE CancelJob(j)
          BY <4>3 DEF CancelJob, IInv, TypeOK, Rows, IsTerminal, Statuses,
             ActiveStatuses, TerminalStatuses
        <4> QED BY <3>1, <4>1, <4>2, <4>3
      <3>3. UNCHANGED <<late, sessions>>
        BY <3>1 DEF LeaseLapses, Requeue, CancelJob
      <3> QED BY <3>2, <3>3 DEF IInv, TypeOK, BackendOK, TerminalIsFinal
    <2> QED BY <2>1, <2>2 DEF BackendStep
  <1>2. UNCHANGED <<controller, journal, worker, stop, faults, runs>>
    BY DEF BackendStep, DeliverLate, LeaseLapses, Requeue, CancelJob
  <1>3. TypeOK'
    BY <1>1, <1>2 DEF IInv, TypeOK, BackendOK, controller, journal
  <1>4. ControlInv'
    BY <1>1, <1>2 DEF IInv, controller, journal, TerminalIsFinal, ControlInv,
       ExecutionIsAllowed, TerminalSnapshot, Ownership, TodoIsJournaled, Working, Owning
  <1> QED BY <1>1, <1>2, <1>3, <1>4, QuietStep, QuietDurable
         DEF IInv, JournalInv, ControlInv, controller

-----------------------------------------------------------------------------
(* The theorems *)

\* The invariant holds at the start.
LEMMA InitIInv == ASSUME ConstantsAssumption, Init PROVE IInv
  <1>1. TypeOK
    BY FreshRowType, NoRecordType DEF Init, TypeOK, Locations, SessionIds, WorkerStates
  <1>2. \A j \in Jobs : ~HasRecord(mem[j]) /\ ~HasRecord(disk[j]) /\ runs[j] = 0
    BY DEF Init, NoRecord, HasRecord
  <1> QED BY <1>1, <1>2
         DEF Init, IInv, LeasedNeverExecuted, AbsentIsSettled, RunningIsDurable,
             ExecutionIsAllowed, TerminalSnapshot, Ownership, TodoIsJournaled, AtMostOnce,
             Working, Owning, HasRecord

\* Every step of the runner, of its worker and of the Backend keeps IInv.
LEMMA NextIInv == ASSUME IInv, [Next]_vars PROVE IInv'
  <1>1. CASE ServiceStep \/ SessionFails \/ Crash \/ RequestShutdown
    BY <1>1, StartServiceStep, ShutdownStep, ConnectStep, LeaseJobStep,
       LeaseConflictStep, CrashStep DEF ServiceStep
  <1>2. CASE RecoveryStep
    BY <1>2, RecoverNextStep, PlanForgetStep, PlanWaitStep, PlanReclaimStep,
       PlanReclaimFailsStep, PlanAdoptStep, DecideExecuteStep, DecideSubmitStep,
       DecideManualStep, DecideManualFailsStep DEF RecoveryStep
  <1>3. CASE ExecutionStep
    BY <1>3, StartJobStep, StartFailsStep, MarkJobRunningStep, MarkExpiredStep,
       RenewJobStep, RenewFailsStep, WorkerStepStep, RecordOutcomeStep, SubmitStep,
       SubmitFailsStep, AbortRunningStep, AbortOtherStep DEF ExecutionStep
  <1>4. CASE WorkerStep
    BY <1>4, WorkerStepStep
  <1>5. CASE BackendStep
    BY <1>5, BackendStepStep
  <1>6. CASE UNCHANGED vars
    BY <1>6 DEF vars, controller, journal, backend, IInv, TypeOK, LeasedNeverExecuted,
       AbsentIsSettled, RunningIsDurable, ExecutionIsAllowed, TerminalSnapshot, Ownership,
       TodoIsJournaled, AtMostOnce
  <1> QED BY <1>1, <1>2, <1>3, <1>4, <1>5, <1>6 DEF Next

\* IInv holds in every state of every behaviour, for any jobs and any bounds.
THEOREM Invariance == Spec => []IInv
  <1>1. Init => IInv
    BY InitIInv, ConstantsAssumption
  <1>2. IInv /\ [Next]_vars => IInv'
    BY NextIInv
  <1> QED BY <1>1, <1>2, PTL DEF Spec

\* The state of the runner and of the Backend is well-typed.
THEOREM TypeCorrect == Spec => []TypeOK
  <1>1. IInv => TypeOK
    BY DEF IInv
  <1> QED BY <1>1, Invariance, PTL

\* recover_pending_runner_jobs never executes a job again unless it is declared
\* replay-safe, across any crashes, failed writes and lost answers.
THEOREM ExecutedAtMostOnce == Spec => []AtMostOnce
  <1>1. IInv => AtMostOnce
    BY DEF IInv
  <1> QED BY <1>1, Invariance, PTL

\* recovery_action may start a durable Leased record: it was never executed.
THEOREM LeasedRecordIsFresh == Spec => []DurableLeasedNeverExecuted
  <1>1. IInv => DurableLeasedNeverExecuted
    BY DEF IInv, LeasedNeverExecuted, DurableLeasedNeverExecuted
  <1> QED BY <1>1, Invariance, PTL

\* The journal file has the record of every executed job the Backend has not
\* settled.
THEOREM NoExecutedJobIsForgotten == Spec => []StartedJobIsJournaled
  <1>1. IInv => StartedJobIsJournaled
    BY DEF IInv, AbsentIsSettled, TypeOK, StartedJobIsJournaled
  <1> QED BY <1>1, Invariance, PTL

\* The journal refuses no transition the controller asks for while it executes
\* or submits.
THEOREM JournalNeverRefuses == Spec => []ControllerOwnsRecord
  <1>1. IInv => ControllerOwnsRecord
    BY DEF IInv, Ownership, Working, Owning, ControllerOwnsRecord, OwnedLocally,
           RecordTerminalOk, AcknowledgeOk, HasRecord, PendingPhases
  <1> QED BY <1>1, Invariance, PTL

-----------------------------------------------------------------------------
(* What any step does to the rows and to the requests on their way *)

\* Request m is what the controller sends where it is.
Sends(m) ==
    \/ pc = "plan" /\ rem.session # session /\ m = ReclaimRequest
    \/ pc = "loop" /\ todo = {} /\ \E j \in Jobs : m = LeaseRequest(j)
    \/ pc = "start" /\ m = StartRequest
    \/ pc = "exec" /\ m = RenewRequest
    \/ pc \in {"submit", "resubmit"} /\ m = SettleRequest

\* The Backend moves the row of job j on its own.
Drifts(j) ==
    /\ \A k \in Jobs \ {j} : srv'[k] = srv[k]
    /\ srv'[j].version = srv[j].version /\ srv'[j].verdict = srv[j].verdict
    /\ srv'[j].session \in {srv[j].session, NoSession}
    /\ IsTerminal(srv[j]) => IsTerminal(srv'[j])
    /\ UNCHANGED late

NetworkMove ==
    \/ UNCHANGED <<srv, late>>
    \/ \E m \in Requests : Sends(m) /\ Answered(m) /\ (pc = "plan" => pc' # "plan")
    \/ \E m \in Requests : Sends(m) /\ Lost(m)
                            /\ (m.op \in {"lease", "reclaim"} => session' = NoSession)
    \/ (\E m \in late : DeliverLate(m)) /\ UNCHANGED runs
    \/ \E j \in Jobs : Drifts(j)

\* What a request makes of the row it is taken on.
LEMMA EffectFacts ==
    ASSUME NEW row \in Rows, NEW m \in Requests, Accepts(row, m)
    PROVE  /\ m.op \in {"lease", "reclaim", "renew"} =>
                 Effect(row, m).version = row.version + 1
           /\ m.op \notin {"lease", "reclaim", "renew"} =>
                 Effect(row, m).version = row.version
           /\ m.op # "settle" => ~IsTerminal(row)
           /\ Effect(row, m).session =
                 IF m.op \in {"lease", "reclaim"} THEN m.session ELSE row.session
           /\ m.op # "settle" =>
                 Effect(row, m).verdict = row.verdict /\ ~IsTerminal(Effect(row, m))
           /\ m.op = "settle" /\ IsTerminal(row) => Effect(row, m) = row
           /\ m.op = "settle" /\ ~IsTerminal(row) =>
                 Effect(row, m).verdict = m.payload /\ Holds(row, m)
  <1>1. CASE m.op \in {"lease", "reclaim"}
    BY <1>1 DEF Effect, Accepts, Rows, IsTerminal, ActiveStatuses, TerminalStatuses
  <1>2. CASE m.op = "start"
    BY <1>2 DEF Effect, Accepts, Holds, Rows, IsTerminal, ActiveStatuses, TerminalStatuses
  <1>3. CASE m.op = "renew"
    BY <1>3 DEF Effect, Accepts, Holds, Rows, IsTerminal, ActiveStatuses, TerminalStatuses
  <1>4. CASE m.op = "settle"
    BY <1>4 DEF Effect, Accepts, Rows, IsTerminal
  <1> QED BY <1>1, <1>2, <1>3, <1>4 DEF Requests

\* The controller sends requests, under its session and for its job.
LEMMA SentType ==
    ASSUME IInv, NEW m, Sends(m)
    PROVE  /\ m \in Requests /\ m.job \in Jobs /\ m.session = session
           /\ todo # {} => m.job = cur
           /\ pc \in Working => m.job = cur
           /\ m.op = CASE pc = "plan" -> "reclaim" [] pc = "loop" -> "lease"
                       [] pc = "start" -> "start" [] pc = "exec" -> "renew"
                       [] OTHER -> "settle"
           /\ pc \in {"plan", "loop", "start", "exec", "submit", "resubmit"}
           /\ m.op = "settle" =>
                 m.version = mem[cur].version /\ m.payload = mem[cur].payload
  <1>1. CASE pc = "plan"
    BY <1>1, Planning, RequestType
       DEF Sends, ReclaimRequest, Request, IInv, TypeOK, Rows, Payloads, Working
  <1>2. CASE pc = "loop"
    BY <1>2, LeaseRequestType DEF Sends, LeaseRequest, Request, Working
  <1>3. CASE pc \in {"start", "exec", "submit", "resubmit"}
    BY <1>3, OwnedRequestType
       DEF Sends, StartRequest, RenewRequest, SettleRequest, Request, Working, Owning
  <1> QED BY <1>1, <1>2, <1>3 DEF Sends

\* What the Backend does to a row on its own is a drift.
LEMMA DriftStep ==
    ASSUME IInv, NEW j \in Jobs, LeaseLapses(j) \/ Requeue(j) \/ CancelJob(j)
    PROVE  Drifts(j)
  <1>0. srv[j] \in Rows /\ srv \in [Jobs -> Rows]
    BY DEF IInv, TypeOK
  <1>1. CASE LeaseLapses(j)
    BY <1>0, <1>1 DEF LeaseLapses, Drifts, Rows, IsTerminal
  <1>2. CASE Requeue(j)
    BY <1>0, <1>2 DEF Requeue, Drifts, Rows, IsTerminal, ActiveStatuses, TerminalStatuses
  <1>3. CASE CancelJob(j)
    BY <1>0, <1>3 DEF CancelJob, Drifts, Rows, IsTerminal, ActiveStatuses, TerminalStatuses
  <1> QED BY <1>1, <1>2, <1>3

\* Whatever step is taken, the rows and the requests on their way make one of these
\* moves.
LEMMA NetworkMoves == ASSUME IInv, [Next]_vars PROVE NetworkMove
  <1>1. CASE ServiceStep \/ SessionFails \/ Crash \/ RequestShutdown
    <2>1. CASE StartService \/ Shutdown \/ Connect \/ SessionFails \/ Crash \/ RequestShutdown
      BY <2>1 DEF StartService, Shutdown, Connect, SessionFails, Crash, RequestShutdown,
                  backend, NetworkMove
    <2>2. ASSUME NEW j \in Jobs, LeaseJob(j) \/ LeaseConflict(j) \/ LeaseLost(j)
          PROVE  NetworkMove
      <3>1. LeaseRequest(j) \in Requests /\ Sends(LeaseRequest(j))
        BY <2>2, LeaseRequestType DEF LeaseJob, LeaseConflict, LeaseLost, Sends
      <3>2. CASE LeaseJob(j) \/ LeaseConflict(j)
        BY <3>1, <3>2 DEF LeaseJob, LeaseConflict, NetworkMove
      <3>3. CASE LeaseLost(j)
        BY <3>1, <3>3 DEF LeaseLost, BackendError, EndSession, NetworkMove
      <3> QED BY <2>2, <3>2, <3>3
    <2> QED BY <1>1, <2>1, <2>2 DEF ServiceStep
  <1>2. CASE RecoveryStep
    <2>1. CASE PlanReclaim \/ PlanReclaimFails
      <3>1. pc = "plan" /\ Plan = "RequestServerReclaim"
        BY <2>1 DEF PlanReclaim, PlanReclaimFails
      <3>2. Sends(ReclaimRequest)
        BY <3>1 DEF Sends, Plan, RecoveryAction, OwnedAction
      <3>3. ReclaimRequest \in Requests
        BY <3>2, SentType
      <3>4. CASE PlanReclaim
        BY <3>2, <3>3, <3>4 DEF PlanReclaim, EndSession, NetworkMove
      <3>5. CASE PlanReclaimFails
        <4>1. session' = NoSession
          BY <3>5 DEF PlanReclaimFails, BackendError, EndSession
        <4> QED BY <3>2, <3>3, <3>5, <4>1
               DEF PlanReclaimFails, Unanswered, Rejected, backend, NetworkMove
      <3> QED BY <2>1, <3>4, <3>5
    <2>2. CASE ~(PlanReclaim \/ PlanReclaimFails)
      BY <1>2, <2>2 DEF RecoveryStep, RecoverNext, PlanForget, PlanWait, PlanReclaimTerminal,
           PlanAdopt, DecideExecute, DecideSubmit, DecideManual, DecideManualFails,
           backend, NetworkMove
    <2> QED BY <2>1, <2>2
  <1>3. CASE ExecutionStep
    <2>1. CASE StartJob \/ StartFails
      <3>1. pc = "start" /\ Sends(StartRequest) /\ StartRequest.op = "start"
        BY <2>1 DEF StartJob, StartFails, Sends, StartRequest, Request
      <3> QED BY <2>1, <3>1, SentType
             DEF StartJob, StartFails, Unanswered, Rejected, backend, NetworkMove
    <2>2. CASE RenewJob \/ RenewFails
      <3>1. pc = "exec" /\ Sends(RenewRequest) /\ RenewRequest.op = "renew"
        BY <2>2 DEF RenewJob, RenewFails, Supervising, Sends, RenewRequest, Request
      <3> QED BY <2>2, <3>1, SentType
             DEF RenewJob, RenewFails, Unanswered, Rejected, backend, NetworkMove
    <2>3. CASE Submit \/ SubmitFails
      <3>1. pc # "plan" /\ Sends(SettleRequest) /\ SettleRequest.op = "settle"
        BY <2>3 DEF Submit, SubmitFails, Sends, SettleRequest, Request
      <3> QED BY <2>3, <3>1, SentType
             DEF Submit, SubmitFails, Unanswered, Rejected, backend, NetworkMove
    <2>4. CASE \/ MarkJobRunning \/ MarkExpired \/ HeartbeatFails \/ PollCancellation
               \/ RecordOutcome \/ AbortRunning \/ AbortPending \/ AbortLeased
      BY <2>4 DEF MarkJobRunning, MarkExpired, HeartbeatFails, PollCancellation,
           RecordOutcome, AbortRunning, AbortPending, AbortLeased, backend, NetworkMove
    <2> QED BY <1>3, <2>1, <2>2, <2>3, <2>4 DEF ExecutionStep
  <1>4. CASE WorkerStep
    BY <1>4 DEF WorkerStep, CommandExits, WorkerEnds, backend, NetworkMove
  <1>5. CASE BackendStep
    BY <1>5, DriftStep DEF BackendStep, DeliverLate, NetworkMove
  <1>6. CASE UNCHANGED vars
    BY <1>6 DEF vars, backend, NetworkMove
  <1> QED BY <1>1, <1>2, <1>3, <1>4, <1>5, <1>6 DEF Next

\* The lease of a job only gets newer.
VersionsGrow == \A j \in Jobs : srv'[j].version >= srv[j].version

\* A request that is taken changes the row of its job, and no lease gets older.
LEMMA RowTaken ==
    ASSUME IInv, NEW m \in Requests, Accepts(srv[m.job], m),
           srv' = [srv EXCEPT ![m.job] = Effect(@, m)]
    PROVE  /\ m.job \in Jobs /\ srv[m.job] \in Rows
           /\ srv'[m.job] = Effect(srv[m.job], m)
           /\ \A k \in Jobs \ {m.job} : srv'[k] = srv[k]
           /\ VersionsGrow /\ TerminalIsFinal
  <1>1. m.job \in Jobs /\ srv[m.job] \in Rows /\ srv \in [Jobs -> Rows]
    BY DEF IInv, TypeOK, Requests
  <1>2. /\ srv'[m.job] = Effect(srv[m.job], m)
        /\ \A k \in Jobs \ {m.job} : srv'[k] = srv[k]
    BY <1>1
  <1>3. IsTerminal(srv[m.job]) => IsTerminal(Effect(srv[m.job], m))
    BY <1>1, EffectTerminal
  <1>4. Effect(srv[m.job], m).version >= srv[m.job].version
    BY <1>1, EffectFacts DEF Rows
  <1>5. \A k \in Jobs : srv[k].version \in Nat
    BY <1>1 DEF Rows
  <1> QED BY <1>1, <1>2, <1>3, <1>4, <1>5 DEF VersionsGrow, TerminalIsFinal

\* No step makes a lease older or a terminal row open.
LEMMA RowsGrow == ASSUME IInv, [Next]_vars PROVE VersionsGrow /\ TerminalIsFinal
  <1>0. \A k \in Jobs : srv[k].version \in Nat
    BY DEF IInv, TypeOK, Rows
  <1>1. CASE UNCHANGED srv
    BY <1>0, <1>1 DEF VersionsGrow, TerminalIsFinal
  <1>2. CASE \E m \in Requests : Sends(m) /\ Answered(m)
    BY <1>2, RowTaken DEF Answered
  <1>3. CASE \E m \in late : DeliverLate(m)
    BY <1>3, RowTaken DEF DeliverLate, IInv, TypeOK
  <1>4. CASE \E j \in Jobs : Drifts(j)
    BY <1>0, <1>4 DEF Drifts, VersionsGrow, TerminalIsFinal
  <1> QED BY <1>1, <1>2, <1>3, <1>4, NetworkMoves DEF NetworkMove, Lost

-----------------------------------------------------------------------------
(* What any step does to the controller *)

\* The controller goes on with a lease it has just been granted.
Granted(m) ==
    /\ Sends(m) /\ Answered(m) /\ m.op \in {"lease", "reclaim", "renew"}
    /\ pc' \in {"decide", "start", "exec"} /\ cur' = m.job /\ rem' = srv'[m.job]
    /\ pc' = "exec" => pc = "exec"
    /\ pc \in Working => cur' = cur
    /\ UNCHANGED <<todo, session>>

\* ... or with the one it has.
Goes(l) ==
    /\ pc \in Working /\ l \in Owning /\ GoTo(l)
    /\ l = "decide" => pc = "plan" /\ rem.session = session
    /\ l = "start" => pc = "decide" \/ (pc = "plan" /\ rem.session = session)
    /\ l = "mark" => pc = "start"
    /\ l = "exec" => pc = "mark" \/ pc = "exec"
    /\ pc' = pc => pc = "exec"

ControllerMove ==
    \/ UNCHANGED <<controller, sessions>>
    \/ (\E l \in {"down", "connect"} : EndSession(l)) /\ UNCHANGED sessions
    \/ NextJob /\ pc \in Working /\ UNCHANGED sessions
    \/ Connect
    \/ \E j \in Jobs : RecoverNext(j)
    \/ (\E m \in Requests : Granted(m)) /\ UNCHANGED sessions
    \/ (\E l \in Owning : Goes(l)) /\ UNCHANGED sessions

\* What a plan to execute or to submit presumes of the answer.
LEMMA PlanOwned ==
    ASSUME Plan \in {"StartExecution", "ResumeIdempotentExecution",
                     "SubmitSucceeded", "SubmitFailed"}
    PROVE  rem.session = session
  BY DEF Plan, RecoveryAction, OwnedAction

\* A request hands out no session.
LEMMA RequestsAreAnswered ==
    ASSUME NEW m, Answered(m) \/ Unanswered(m) \/ Lost(m)
    PROVE  UNCHANGED sessions
  BY DEF Answered, Unanswered, Rejected, Lost, backend

\* Whatever step is taken, the controller makes one of these moves.
LEMMA ControllerMoves == ASSUME IInv, [Next]_vars PROVE ControllerMove
  <1>1. CASE ServiceStep \/ SessionFails \/ Crash \/ RequestShutdown
    <2>1. CASE StartService \/ Shutdown \/ SessionFails \/ Crash
      BY <2>1 DEF StartService, Shutdown, SessionFails, Crash, BackendError, backend,
                  ControllerMove
    <2>2. CASE Connect \/ RequestShutdown
      BY <2>2 DEF RequestShutdown, controller, backend, ControllerMove
    <2>3. ASSUME NEW j \in Jobs, LeaseConflict(j) \/ LeaseLost(j)
          PROVE  ControllerMove
      BY <2>3, RequestsAreAnswered DEF LeaseConflict, LeaseLost, BackendError, ControllerMove
    <2>4. ASSUME NEW j \in Jobs, LeaseJob(j)
          PROVE  ControllerMove
      <3>1. LeaseRequest(j) \in Requests /\ LeaseRequest(j).job = j
            /\ LeaseRequest(j).op = "lease" /\ Sends(LeaseRequest(j))
            /\ Answered(LeaseRequest(j)) /\ pc \notin Working /\ UNCHANGED sessions
        BY <2>4, LeaseRequestType, RequestsAreAnswered DEF LeaseJob, Sends, Working
      <3>2. CASE EndSession("connect")
        BY <3>1, <3>2 DEF ControllerMove
      <3>3. CASE pc' = "start" /\ cur' = j /\ rem' = srv'[j] /\ UNCHANGED <<todo, session>>
        <4>1. Granted(LeaseRequest(j))
          BY <3>1, <3>3 DEF Granted
        <4> QED BY <3>1, <4>1 DEF ControllerMove
      <3> QED BY <2>4, <3>2, <3>3 DEF LeaseJob
    <2> QED BY <1>1, <2>1, <2>2, <2>3, <2>4 DEF ServiceStep
  <1>2. CASE RecoveryStep
    <2>1. CASE PlanForget \/ PlanWait \/ PlanReclaimTerminal
      BY <2>1 DEF PlanForget, PlanWait, PlanReclaimTerminal, backend, ControllerMove, Working
    <2>2. CASE PlanReclaim
      <3>1. pc = "plan" /\ Plan = "RequestServerReclaim" /\ Answered(ReclaimRequest)
        BY <2>2 DEF PlanReclaim
      <3>2. Sends(ReclaimRequest) /\ ReclaimRequest.job = cur /\ ReclaimRequest.op = "reclaim"
        BY <3>1 DEF Sends, Plan, RecoveryAction, OwnedAction, ReclaimRequest, Request
      <3>3. ReclaimRequest \in Requests /\ UNCHANGED sessions
        BY <3>1, <3>2, SentType, RequestsAreAnswered
      <3>4. CASE EndSession("connect")
        BY <3>3, <3>4 DEF ControllerMove
      <3>5. CASE pc' = "decide" /\ rem' = srv'[cur] /\ UNCHANGED <<cur, todo, session>>
        <4>1. Granted(ReclaimRequest)
          BY <3>1, <3>2, <3>5 DEF Granted
        <4> QED BY <3>3, <4>1 DEF ControllerMove
      <3> QED BY <2>2, <3>4, <3>5 DEF PlanReclaim
    <2>3. CASE PlanReclaimFails
      BY <2>3, RequestsAreAnswered DEF PlanReclaimFails, BackendError, ControllerMove
    <2>4. CASE PlanAdopt
      <3>1. CASE GoTo("decide")
        <4>1. Goes("decide")
          BY <2>4, <3>1 DEF PlanAdopt, OwnsStaleRecord, Goes, Working, Owning, GoTo
        <4> QED BY <2>4, <4>1 DEF PlanAdopt, backend, ControllerMove, Owning, Working
      <3> QED BY <2>4, <3>1 DEF PlanAdopt, backend, ControllerMove
    <2>5. CASE DecideExecute
      <3>1. Goes("start")
        BY <2>5, PlanOwned DEF DecideExecute, Deciding, Goes, Working, Owning, GoTo
      <3> QED BY <2>5, <3>1 DEF DecideExecute, backend, ControllerMove, Owning, Working
    <2>6. CASE DecideSubmit \/ DecideManual \/ DecideManualFails
      <3>1. CASE GoTo("resubmit")
        <4>1. Goes("resubmit")
          BY <2>6, <3>1 DEF DecideSubmit, DecideManual, DecideManualFails, Deciding, Goes,
             Working, Owning, GoTo
        <4> QED BY <2>6, <4>1 DEF DecideSubmit, DecideManual, DecideManualFails, backend,
               ControllerMove, Owning, Working
      <3> QED BY <2>6, <3>1
             DEF DecideSubmit, DecideManual, DecideManualFails, backend, ControllerMove
    <2>7. CASE \E j \in Jobs : RecoverNext(j)
      BY <2>7 DEF ControllerMove
    <2> QED BY <1>2, <2>1, <2>2, <2>3, <2>4, <2>5, <2>6, <2>7 DEF RecoveryStep
  <1>3. CASE ExecutionStep
    <2>1. CASE StartJob \/ StartFails
      <3>1. Goes("mark") \/ Goes("abort")
        BY <2>1 DEF StartJob, StartFails, Goes, Working, Owning, GoTo
      <3>2. UNCHANGED sessions
        BY <2>1, RequestsAreAnswered DEF StartJob, StartFails, backend
      <3> QED BY <3>1, <3>2 DEF ControllerMove, Owning, Working
    <2>2. CASE MarkJobRunning \/ MarkExpired
      <3>1. Goes("exec") \/ Goes("abort") \/ EndSession("down")
        BY <2>2 DEF MarkJobRunning, MarkExpired, Goes, Working, Owning, GoTo
      <3>2. UNCHANGED sessions
        BY <2>2 DEF MarkJobRunning, MarkExpired, backend
      <3> QED BY <3>1, <3>2 DEF ControllerMove, Owning, Working
    <2>3. CASE RenewJob
      <3>1. pc = "exec" /\ pc \in Owning /\ pc \in Working /\ Answered(RenewRequest)
        BY <2>3 DEF RenewJob, Supervising, Owning, Working
      <3>2. /\ RenewRequest \in Requests /\ Sends(RenewRequest) /\ RenewRequest.job = cur
            /\ RenewRequest.op = "renew" /\ UNCHANGED sessions
        BY <3>1, OwnedRequestType, RequestsAreAnswered DEF Sends, RenewRequest, Request
      <3>3. CASE rem' = srv'[cur] /\ UNCHANGED <<pc, cur, todo, session>>
        <4>1. Granted(RenewRequest)
          BY <3>1, <3>2, <3>3 DEF Granted
        <4> QED BY <3>2, <4>1 DEF ControllerMove
      <3>4. CASE UNCHANGED controller
        BY <3>2, <3>4 DEF ControllerMove
      <3> QED BY <2>3, <3>3, <3>4 DEF RenewJob, DropWorker
    <2>4. CASE RenewFails \/ HeartbeatFails \/ PollCancellation
      BY <2>4, RequestsAreAnswered DEF RenewFails, HeartbeatFails, PollCancellation,
         DropWorker, backend, ControllerMove
    <2>5. CASE RecordOutcome
      <3>1. Goes("submit") \/ Goes("abort")
        BY <2>5 DEF RecordOutcome, Goes, Working, Owning, GoTo
      <3> QED BY <2>5, <3>1 DEF RecordOutcome, backend, ControllerMove, Owning, Working
    <2>6. CASE Submit \/ SubmitFails
      <3>1. UNCHANGED sessions
        BY <2>6, RequestsAreAnswered DEF Submit, SubmitFails
      <3>2. CASE GoTo("abort")
        <4>1. Goes("abort")
          BY <2>6, <3>2 DEF Submit, SubmitFails, Goes, Working, Owning, GoTo
        <4> QED BY <3>1, <4>1 DEF ControllerMove, Owning, Working
      <3> QED BY <2>6, <3>1, <3>2 DEF Submit, SubmitFails, BackendError, ControllerMove, Working
    <2>7. CASE AbortRunning \/ AbortPending \/ AbortLeased
      <3>1. CASE GoTo("resubmit")
        <4>1. Goes("resubmit")
          BY <2>7, <3>1 DEF AbortRunning, AbortPending, AbortLeased, Goes, Working, Owning, GoTo
        <4> QED BY <2>7, <4>1 DEF AbortRunning, AbortPending, AbortLeased, backend,
               ControllerMove, Owning, Working
      <3> QED BY <2>7, <3>1 DEF AbortRunning, AbortPending, AbortLeased, BackendError, backend,
             ControllerMove
    <2> QED BY <1>3, <2>1, <2>2, <2>3, <2>4, <2>5, <2>6, <2>7 DEF ExecutionStep
  <1>4. CASE WorkerStep \/ BackendStep
    BY <1>4 DEF WorkerStep, CommandExits, WorkerEnds, BackendStep, DeliverLate, LeaseLapses,
       Requeue, CancelJob, backend, ControllerMove
  <1>5. CASE UNCHANGED vars
    BY <1>5 DEF vars, backend, ControllerMove
  <1> QED BY <1>1, <1>2, <1>3, <1>4, <1>5 DEF Next

\* The answer the controller works from never gets ahead of the row.
LEMMA SnapshotStep ==
    ASSUME IInv, LeaseInv, [Next]_vars PROVE SnapshotNotAhead'
  <1>0. /\ VersionsGrow /\ IInv'
        /\ \A k \in Jobs : srv[k].version \in Nat /\ srv'[k].version \in Nat
        /\ rem.version \in Nat /\ rem'.version \in Nat
    BY RowsGrow, NextIInv DEF IInv, TypeOK, Rows
  <1>1. CASE UNCHANGED controller \/ \E l \in Owning : Goes(l)
    <2>1. UNCHANGED <<cur, rem>> /\ (pc' \in Working => pc \in Working /\ cur \in Jobs)
      BY <1>1 DEF controller, Goes, GoTo, IInv, Ownership
    <2> QED BY <1>0, <2>1 DEF LeaseInv, SnapshotNotAhead, VersionsGrow
  <1>2. CASE (\E l \in {"down", "connect"} : EndSession(l)) \/ NextJob \/ Connect
    BY <1>2 DEF EndSession, NextJob, Connect, SnapshotNotAhead, Working
  <1>3. CASE \E j \in Jobs : RecoverNext(j)
    BY <1>0, <1>3 DEF RecoverNext, backend, SnapshotNotAhead
  <1>4. CASE \E m \in Requests : Granted(m)
    BY <1>0, <1>4 DEF Granted, SnapshotNotAhead, Requests
  <1> QED BY <1>1, <1>2, <1>3, <1>4, ControllerMoves DEF ControllerMove

\* Where there is a worker, the controller supervises it.
LEMMA WorkerStays ==
    ASSUME IInv, LeaseInv, [Next]_vars PROVE WorkerIsSupervised'
  <1>0. worker # "none" => pc = "exec"
    BY DEF LeaseInv, WorkerIsSupervised
  <1>1. CASE ServiceStep \/ SessionFails \/ Crash \/ RequestShutdown
    BY <1>0, <1>1 DEF ServiceStep, StartService, Shutdown, Connect, LeaseJob, LeaseConflict,
       LeaseLost, SessionFails, Crash, RequestShutdown, controller, WorkerIsSupervised
  <1>2. CASE RecoveryStep
    BY <1>0, <1>2 DEF RecoveryStep, RecoverNext, PlanForget, PlanWait, PlanReclaim,
       PlanReclaimTerminal, PlanReclaimFails, PlanAdopt, Deciding, DecideExecute,
       DecideSubmit, DecideManual, DecideManualFails, WorkerIsSupervised
  <1>3. CASE ExecutionStep
    <2>1. CASE \/ StartJob \/ StartFails \/ MarkJobRunning \/ MarkExpired \/ RecordOutcome
               \/ Submit \/ SubmitFails \/ AbortRunning \/ AbortPending \/ AbortLeased
      BY <1>0, <2>1 DEF StartJob, StartFails, MarkJobRunning, MarkExpired, RecordOutcome,
         Submit, SubmitFails, AbortRunning, AbortPending, AbortLeased, GoTo,
         WorkerIsSupervised
    <2>2. CASE RenewJob \/ RenewFails \/ HeartbeatFails \/ PollCancellation
      BY <1>0, <2>2 DEF RenewJob, RenewFails, HeartbeatFails, PollCancellation, Supervising,
         DropWorker, controller, WorkerIsSupervised
    <2> QED BY <1>3, <2>1, <2>2 DEF ExecutionStep
  <1>4. CASE WorkerStep
    BY <1>0, <1>4 DEF WorkerStep, CommandExits, WorkerEnds, CommandRuns, WorkerActive,
       controller, WorkerIsSupervised
  <1>5. CASE BackendStep \/ UNCHANGED vars
    BY <1>0, <1>5 DEF BackendStep, DeliverLate, LeaseLapses, Requeue, CancelJob, controller,
       vars, WorkerIsSupervised
  <1> QED BY <1>1, <1>2, <1>3, <1>4, <1>5 DEF Next

-----------------------------------------------------------------------------
(* What any step does to the journal *)

Durable == disk' = mem'

\* The record of a job is dropped, its row being terminal.
Forgets(j, record) ==
    record = NoRecord /\ IsTerminal(srv'[j]) /\ (Durable \/ session' = NoSession)

\* The lease of a job that has no record is recorded.
Leases(j, record) ==
    /\ ~HasRecord(mem[j]) /\ ~IsTerminal(srv'[j])
    /\ record = RecordLease(srv'[j], session) /\ (Durable \/ session' = NoSession)

\* A record moves to a newer version of its lease, or to another session.
Moves(j, record) ==
    /\ HasRecord(mem[j])
    /\ record.phase = mem[j].phase /\ record.payload = mem[j].payload
    /\ record.version <= srv'[j].version
    /\ \/ record.session = mem[j].session
       \/ record.session = session /\ (Durable \/ session' = NoSession)

\* A leased job is marked as running, and a running one gets its outcome.
Marks(j, record) == pc = "mark" /\ mem[j].phase = "Leased" /\ record = MarkRunning(mem[j])

Concludes(j, record) ==
    \E phase \in PendingPhases, kind \in ExecutionOutcomes \cup {"exited", "uncertain"} :
        /\ mem[j].phase = "Running"
        /\ kind \in ExecutionOutcomes => pc = "exec"
        /\ record = RecordTerminal(mem[j], phase, PayloadOf(kind, runs[j]))
        /\ UNCHANGED runs /\ j = cur

Writes(j, record) ==
    /\ mem' = [mem EXCEPT ![j] = record] /\ disk' \in {disk, mem'}
    /\ \/ Forgets(j, record) \/ Leases(j, record) \/ Moves(j, record)
       \/ Marks(j, record) \/ Concludes(j, record)
    /\ UNCHANGED runs \/ Marks(j, record)

JournalMove ==
    \/ UNCHANGED journal
    \/ mem' = disk /\ disk' = disk /\ session' = NoSession /\ UNCHANGED runs
    \/ \E j \in Jobs, record \in Records : Writes(j, record)

\* A write changes one record in memory, and the file gets all of it or nothing.
LEMMA Written ==
    ASSUME NEW j, NEW record,
           Persist(UpdateRecord(j, record)) \/ PersistFails(UpdateRecord(j, record))
    PROVE  /\ mem' = [mem EXCEPT ![j] = record] /\ disk' \in {disk, mem'}
           /\ Persist(UpdateRecord(j, record)) => Durable
  BY DEF Persist, PersistFails, UpdateRecord, Durable

\* Forgetting the record of a terminal row, in recovery and after a submission.
LEMMA ForgetMove ==
    ASSUME IInv, TypeOK', cur \in Jobs, IsTerminal(srv'[cur]), UNCHANGED runs,
           \/ Persist(UpdateRecord(cur, NoRecord))
           \/ PersistFails(UpdateRecord(cur, NoRecord)) /\ EndSession("connect")
    PROVE  JournalMove
  <1>1. Writes(cur, NoRecord)
    BY Written DEF Writes, Forgets, EndSession
  <1> QED BY <1>1, NoRecordType DEF JournalMove

\* The document in memory after a write is typed, so the record written is.
LEMMA WrittenRecord ==
    ASSUME IInv, TypeOK', NEW j \in Jobs, NEW record, Writes(j, record)
    PROVE  JournalMove
  <1>1. mem'[j] = record /\ mem'[j] \in Records
    BY DEF IInv, TypeOK, Writes
  <1> QED BY <1>1 DEF JournalMove

\* A reclaimed lease is adopted, or the session ends.
LEMMA AdoptMove ==
    ASSUME IInv, TypeOK', cur \in Jobs, HasRecord(mem[cur]), UNCHANGED runs,
           NEW row, row.version <= srv'[cur].version,
           NEW record, record = Adopt(mem[cur], row, session),
           \/ Persist(UpdateRecord(cur, record))
           \/ PersistFails(UpdateRecord(cur, record)) /\ EndSession("connect")
    PROVE  JournalMove
  <1>0. mem[cur] \in Records
    BY DEF IInv, TypeOK
  <1>1. /\ record.phase = mem[cur].phase /\ record.payload = mem[cur].payload
        /\ record.version = row.version /\ record.session = session
    BY <1>0 DEF Adopt, Records
  <1>2. Durable \/ session' = NoSession
    BY DEF Persist, Durable, EndSession
  <1>3. Writes(cur, record)
    BY <1>1, <1>2, Written DEF Writes, Moves
  <1> QED BY <1>3, WrittenRecord

\* The outcome of the running job is recorded.
LEMMA ConcludeMove ==
    ASSUME IInv, TypeOK', cur \in Jobs, RecordTerminalOk(mem[cur], session), UNCHANGED runs,
           NEW phase \in PendingPhases,
           NEW kind \in ExecutionOutcomes \cup {"exited", "uncertain"},
           kind \in ExecutionOutcomes => pc = "exec",
           LET document == UpdateRecord(cur, RecordTerminal(mem[cur], phase,
                               PayloadOf(kind, runs[cur])))
           IN  Persist(document) \/ PersistFails(document)
    PROVE  JournalMove
  <1> DEFINE record == RecordTerminal(mem[cur], phase, PayloadOf(kind, runs[cur]))
  <1>1. Concludes(cur, record)
    BY DEF Concludes, RecordTerminalOk
  <1>2. Persist(UpdateRecord(cur, record)) \/ PersistFails(UpdateRecord(cur, record))
    OBVIOUS
  <1> HIDE DEF record
  <1>3. Writes(cur, record)
    BY <1>1, <1>2, Written DEF Writes
  <1> QED BY <1>3, WrittenRecord

\* Whatever step is taken, the journal makes one of these moves.
LEMMA JournalMoves == ASSUME IInv, LeaseInv, [Next]_vars PROVE JournalMove
  <1>0. TypeOK' /\ \A k \in Jobs : srv[k].version \in Nat
    BY NextIInv DEF IInv, TypeOK, Rows
  <1>1. CASE ServiceStep \/ SessionFails \/ Crash \/ RequestShutdown
    <2>1. CASE StartService \/ Crash
      BY <2>1 DEF StartService, Crash, EndSession, JournalMove
    <2>2. CASE Shutdown \/ Connect \/ SessionFails \/ RequestShutdown
      BY <2>2 DEF Shutdown, Connect, SessionFails, RequestShutdown, JournalMove
    <2>3. ASSUME NEW j \in Jobs, LeaseConflict(j) \/ LeaseLost(j)
          PROVE  JournalMove
      BY <2>3 DEF LeaseConflict, LeaseLost, JournalMove
    <2>4. ASSUME NEW j \in Jobs, LeaseJob(j)
          PROVE  JournalMove
      <3> DEFINE record == RecordLease(srv'[j], session)
      <3>1. LeaseRequest(j) \in Requests /\ LeaseRequest(j).job = j
            /\ LeaseRequest(j).op = "lease" /\ Answered(LeaseRequest(j))
        BY <2>4, LeaseRequestType DEF LeaseJob
      <3>2. ~IsTerminal(srv'[j])
        <4>1. srv[j] \in Rows /\ srv'[j] = Effect(srv[j], LeaseRequest(j))
              /\ Accepts(srv[j], LeaseRequest(j))
          BY <3>1, RowTaken DEF Answered
        <4> QED BY <3>1, <4>1, EffectFacts
      <3>3. Leases(j, record)
        BY <2>4, <3>2 DEF LeaseJob, Leases, RecordLeaseOk, Persist, Durable, EndSession
      <3>4. UNCHANGED runs
        BY <2>4 DEF LeaseJob
      <3>5. Persist(UpdateRecord(j, record)) \/ PersistFails(UpdateRecord(j, record))
        BY <2>4 DEF LeaseJob
      <3> HIDE DEF record
      <3>6. Writes(j, record)
        BY <3>3, <3>4, <3>5, Written DEF Writes
      <3> QED BY <1>0, <3>6, WrittenRecord
    <2> QED BY <1>1, <2>1, <2>2, <2>3, <2>4 DEF ServiceStep
  <1>2. CASE RecoveryStep
    <2>1. CASE PlanForget \/ PlanReclaimTerminal
      <3>1. cur \in Jobs /\ IsTerminal(srv'[cur]) /\ UNCHANGED runs
        BY <2>1, Planning DEF PlanForget, PlanReclaimTerminal, ForgetOk, backend
      <3> QED BY <1>0, <2>1, <3>1, ForgetMove DEF PlanForget, PlanReclaimTerminal
    <2>2. CASE PlanReclaim
      <3> DEFINE record == Adopt(mem[cur], srv'[cur], session)
      <3>1. cur \in Jobs /\ UNCHANGED runs /\ HasRecord(mem[cur])
            /\ srv'[cur].version <= srv'[cur].version
        BY <1>0, <2>2, Planning DEF PlanReclaim, TypeOK, Rows
      <3>2. \/ Persist(UpdateRecord(cur, record))
            \/ PersistFails(UpdateRecord(cur, record)) /\ EndSession("connect")
        BY <2>2 DEF PlanReclaim
      <3> QED BY <1>0, <3>1, <3>2, AdoptMove
    <2>3. CASE PlanAdopt
      <3>1. CASE AdoptOk(mem[cur], rem, session)
        <4> DEFINE record == Adopt(mem[cur], rem, session)
        <4>1. /\ cur \in Jobs /\ HasRecord(mem[cur]) /\ UNCHANGED <<runs, srv>>
              /\ rem.version <= srv'[cur].version
          BY <2>3, Planning DEF PlanAdopt, backend, LeaseInv, SnapshotNotAhead, Working
        <4>2. \/ Persist(UpdateRecord(cur, record))
              \/ PersistFails(UpdateRecord(cur, record)) /\ EndSession("connect")
          BY <2>3, <3>1 DEF PlanAdopt
        <4> QED BY <1>0, <4>1, <4>2, AdoptMove
      <3>2. CASE ~AdoptOk(mem[cur], rem, session)
        BY <2>3, <3>2 DEF PlanAdopt, JournalMove
      <3> QED BY <3>1, <3>2
    <2>4. CASE DecideManual
      <3>1. cur \in Jobs /\ RecordTerminalOk(mem[cur], session) /\ UNCHANGED runs
        BY <2>4, Planning DEF DecideManual, Deciding
      <3> QED BY <1>0, <2>4, <3>1, ConcludeMove DEF DecideManual, PendingPhases, ExecutionOutcomes
    <2>5. CASE ~(PlanForget \/ PlanReclaimTerminal \/ PlanReclaim \/ PlanAdopt \/ DecideManual)
      BY <1>2, <2>5 DEF RecoveryStep, RecoverNext, PlanWait, PlanReclaimFails, DecideExecute,
         DecideSubmit, DecideManualFails, JournalMove
    <2> QED BY <2>1, <2>2, <2>3, <2>4, <2>5
  <1>3. CASE ExecutionStep
    <2>1. CASE MarkJobRunning
      <3>1. CASE UNCHANGED journal
        BY <3>1 DEF JournalMove
      <3>2. CASE mem[cur].phase = "Leased"
        <4> DEFINE record == MarkRunning(mem[cur])
        <4>1. cur \in Jobs /\ Marks(cur, record)
          BY <2>1, <3>2 DEF MarkJobRunning, Marks, IInv, Ownership, Working
        <4>2. Persist(UpdateRecord(cur, record)) \/ PersistFails(UpdateRecord(cur, record))
          BY <2>1, <3>2 DEF MarkJobRunning
        <4> HIDE DEF record
        <4>3. Writes(cur, record)
          BY <4>1, <4>2, Written DEF Writes
        <4> QED BY <1>0, <4>1, <4>3, WrittenRecord
      <3> QED BY <2>1, <3>1, <3>2 DEF MarkJobRunning
    <2>2. CASE RenewJob
      <3> DEFINE record == RenewLease(mem[cur], srv'[cur].version)
      <3>1. pc = "exec" /\ cur \in Jobs /\ mem[cur].phase = "Running"
            /\ mem[cur] \in Records /\ HasRecord(mem[cur])
        BY <2>2 DEF RenewJob, Supervising, IInv, TypeOK, Ownership, Working
      <3>2. /\ record.phase = mem[cur].phase /\ record.payload = mem[cur].payload
            /\ record.version = srv'[cur].version /\ record.session = mem[cur].session
            /\ record.version <= srv'[cur].version
        BY <1>0, <3>1 DEF RenewLease, Records, TypeOK, Rows
      <3>3. Persist(UpdateRecord(cur, record)) \/ PersistFails(UpdateRecord(cur, record))
        BY <2>2 DEF RenewJob
      <3>4. UNCHANGED runs
        BY <2>2 DEF RenewJob
      <3> HIDE DEF record
      <3>5. Writes(cur, record)
        BY <3>1, <3>2, <3>3, <3>4, Written DEF Writes, Moves
      <3> QED BY <1>0, <3>1, <3>5, WrittenRecord
    <2>3. CASE RecordOutcome \/ AbortRunning
      <3>1. cur \in Jobs /\ RecordTerminalOk(mem[cur], session) /\ UNCHANGED runs
        BY <2>3 DEF RecordOutcome, AbortRunning, IInv, Ownership, Working
      <3>2. OutcomePhase(worker) \in PendingPhases /\ "FailedPendingAck" \in PendingPhases
        BY DEF OutcomePhase, PendingPhases
      <3>3. CASE RecordOutcome
        BY <1>0, <3>1, <3>2, <3>3, ConcludeMove DEF RecordOutcome
      <3>4. CASE AbortRunning
        BY <1>0, <3>1, <3>2, <3>4, ConcludeMove DEF AbortRunning, ExecutionOutcomes
      <3> QED BY <2>3, <3>3, <3>4
    <2>4. CASE Submit
      <3>1. pc \in Owning /\ cur \in Jobs /\ UNCHANGED runs /\ Answered(SettleRequest)
            /\ srv[cur] \in Rows
        BY <2>4 DEF Submit, IInv, TypeOK, Ownership, Working, Owning
      <3>2. SettleRequest \in Requests /\ SettleRequest.job = cur /\ SettleRequest.op = "settle"
        BY <3>1, OwnedRequestType
      <3>3. IsTerminal(srv'[cur])
        BY <3>1, <3>2, RowTaken, SettleTerminal DEF Answered
      <3> QED BY <1>0, <2>4, <3>1, <3>3, ForgetMove DEF Submit
    <2>5. CASE \/ StartJob \/ StartFails \/ MarkExpired \/ RenewFails \/ HeartbeatFails
               \/ PollCancellation \/ SubmitFails \/ AbortPending \/ AbortLeased
      BY <2>5 DEF StartJob, StartFails, MarkExpired, RenewFails, HeartbeatFails,
         PollCancellation, SubmitFails, AbortPending, AbortLeased, JournalMove
    <2> QED BY <1>3, <2>1, <2>2, <2>3, <2>4, <2>5 DEF ExecutionStep
  <1>4. CASE WorkerStep \/ BackendStep \/ UNCHANGED vars
    BY <1>4 DEF WorkerStep, CommandExits, WorkerEnds, BackendStep, DeliverLate, LeaseLapses,
       Requeue, CancelJob, vars, JournalMove
  <1> QED BY <1>1, <1>2, <1>3, <1>4 DEF Next

-----------------------------------------------------------------------------
(* The journal follows the lease *)

\* What a step writes follows what the memory had.
LEMMA WrittenFollows ==
    ASSUME IInv, LeaseInv, [Next]_vars, NEW j \in Jobs, NEW record \in Records,
           Writes(j, record)
    PROVE  /\ Follows(record, disk[j], srv'[j])
           /\ record.version <= srv'[j].version
  <1>0. /\ mem[j] \in Records /\ disk[j] \in Records
        /\ Follows(mem[j], disk[j], srv[j]) /\ mem[j].version <= srv[j].version
        /\ srv[j].version \in Nat /\ srv'[j].version \in Nat
        /\ srv[j].version <= srv'[j].version
        /\ IsTerminal(srv[j]) => IsTerminal(srv'[j])
    <2>1. IInv' /\ VersionsGrow /\ TerminalIsFinal
      BY NextIInv, RowsGrow
    <2> QED BY <2>1 DEF IInv, TypeOK, Rows, LeaseInv, MemoryFollowsFile, LeaseNeverAhead,
               VersionsGrow, TerminalIsFinal
  <1>1. CASE Forgets(j, record)
    BY <1>0, <1>1 DEF Forgets, Follows, NoRecord, HasRecord
  <1>2. CASE Leases(j, record)
    <2>1. mem[j].phase = "Absent" /\ disk[j].phase = "Absent"
      BY <1>0, <1>2 DEF Leases, Follows, HasRecord, Rank
    <2>2. record.phase = "Leased" /\ record.version = srv'[j].version
      BY <1>2 DEF Leases, RecordLease
    <2> QED BY <1>0, <2>1, <2>2 DEF Follows, Rank
  <1>3. CASE Moves(j, record)
    BY <1>0, <1>3 DEF Moves, Follows, HasRecord
  <1>4. CASE Marks(j, record)
    <2>1. record.phase = "Running" /\ record.version = mem[j].version
      BY <1>0, <1>4 DEF Marks, MarkRunning, Records
    <2>2. disk[j].phase \in {"Absent", "Leased"}
      BY <1>0, <1>4 DEF Marks, Follows, Rank, HasRecord, Records, Phases, PendingPhases
    <2>3. record.version <= srv'[j].version
      BY <1>0, <2>1 DEF Records
    <2> QED BY <2>1, <2>2, <2>3 DEF Follows, Rank
  <1>5. CASE Concludes(j, record)
    <2>1. record.phase \in PendingPhases /\ record.version = mem[j].version
          /\ mem[j].phase = "Running"
      BY <1>0, <1>5 DEF Concludes, RecordTerminal, Records
    <2>2. disk[j].phase \in {"Absent", "Leased", "Running"}
      BY <1>0, <2>1 DEF Follows, Rank, HasRecord, Records, Phases, PendingPhases
    <2>3. record.version <= srv'[j].version
      BY <1>0, <2>1 DEF Records
    <2> QED BY <2>1, <2>2, <2>3 DEF Follows, Rank, PendingPhases
  <1> QED BY <1>1, <1>2, <1>3, <1>4, <1>5 DEF Writes

\* The file after a step is what it was or what the memory is, and the memory
\* follows what the file was.
LEMMA JournalStep ==
    ASSUME IInv, LeaseInv, [Next]_vars
    PROVE  /\ disk' \in {disk, mem'}
           /\ \A k \in Jobs : Follows(mem'[k], disk[k], srv'[k])
           /\ MemoryFollowsFile' /\ LeaseNeverAhead'
  <1>0. /\ \A k \in Jobs :
              /\ mem[k] \in Records /\ disk[k] \in Records
              /\ srv[k].version \in Nat /\ srv'[k].version \in Nat
              /\ srv[k].version <= srv'[k].version
              /\ IsTerminal(srv[k]) => IsTerminal(srv'[k])
              /\ Follows(mem[k], disk[k], srv[k])
              /\ mem[k].version <= srv[k].version /\ disk[k].version <= srv[k].version
        /\ mem \in [Jobs -> Records]
    <2>1. IInv' /\ VersionsGrow /\ TerminalIsFinal
      BY NextIInv, RowsGrow
    <2> QED BY <2>1 DEF IInv, TypeOK, Rows, LeaseInv, MemoryFollowsFile, LeaseNeverAhead,
               VersionsGrow, TerminalIsFinal
  <1>1. disk' \in {disk, mem'}
    BY JournalMoves DEF JournalMove, Writes, journal
  <1>2. ASSUME NEW k \in Jobs
        PROVE  Follows(mem'[k], disk[k], srv'[k]) /\ mem'[k].version <= srv'[k].version
    <2>1. CASE mem'[k] = mem[k]
      BY <1>0, <2>1 DEF Follows, Records
    <2>2. CASE mem'[k] = disk[k]
      BY <1>0, <2>2 DEF Follows, Records
    <2>3. CASE \E record \in Records : Writes(k, record)
      <3>1. PICK record \in Records : Writes(k, record)
        BY <2>3
      <3>2. mem'[k] = record
        BY <1>0, <3>1 DEF Writes
      <3> QED BY <3>1, <3>2, WrittenFollows
    <2>4. CASE \E j \in Jobs \ {k}, record \in Records : Writes(j, record)
      BY <1>0, <2>1, <2>4 DEF Writes
    <2> QED BY <2>1, <2>2, <2>3, <2>4, JournalMoves DEF JournalMove, journal
  <1>3. MemoryFollowsFile'
    BY <1>1, <1>2 DEF MemoryFollowsFile, Follows
  <1>4. LeaseNeverAhead'
    <2>1. \A k \in Jobs : disk[k].version <= srv'[k].version
      BY <1>0 DEF Records
    <2>2. \A k \in Jobs : mem'[k].version <= srv'[k].version /\ disk'[k].version <= srv'[k].version
      BY <1>1, <1>2, <2>1
    <2>3. IInv' /\ SnapshotNotAhead'
      BY NextIInv, SnapshotStep
    <2>4. (pc \notin {"down", "connect", "loop"} => rem.version <= srv[cur].version)'
      BY <2>3 DEF SnapshotNotAhead, Working, IInv, TypeOK, Locations
    <2> QED BY <2>2, <2>4 DEF LeaseNeverAhead
  <1> QED BY <1>1, <1>2, <1>3, <1>4

\* Initially nothing is leased.
LEMMA InitLeaseInv == ASSUME Init PROVE LeaseInv
  BY DEF Init, LeaseInv, SnapshotNotAhead, WorkerIsSupervised, MemoryFollowsFile, Follows,
     LeaseNeverAhead, NoRecord, FreshRow, Working

\* LeaseInv is an invariant, on top of IInv.
THEOREM LeaseInvariance == Spec => [](IInv /\ LeaseInv)
  <1>1. ConstantsAssumption /\ Init => IInv /\ LeaseInv
    BY InitIInv, InitLeaseInv
  <1>2. IInv /\ LeaseInv /\ [Next]_vars => (IInv /\ LeaseInv)'
    BY NextIInv, SnapshotStep, WorkerStays, JournalStep DEF LeaseInv
  <1> QED BY <1>1, <1>2, ConstantsAssumption, PTL DEF Spec

\* The journal never claims a newer lease than the Backend granted.
THEOREM JournalIsNotAhead == Spec => []LeaseNeverAhead
  <1>1. LeaseInv => LeaseNeverAhead
    BY DEF LeaseInv
  <1> QED BY <1>1, LeaseInvariance, PTL

\* In the file, a record only moves on, its outcome is never rewritten, and it goes
\* away only once its row is terminal.
THEOREM RecordsOnlyMoveOn == Spec => DurablePhaseNeverRegresses
  <1>1. ASSUME IInv, LeaseInv, [Next]_vars
        PROVE  [\A j \in Jobs :
                   \/ Rank(disk'[j].phase) > Rank(disk[j].phase)
                   \/ /\ disk'[j].phase = disk[j].phase
                      /\ disk'[j].payload = disk[j].payload
                   \/ ~HasRecord(disk'[j]) /\ IsTerminal(srv'[j])]_vars
    BY <1>1, JournalStep DEF Follows
  <1> QED BY <1>1, LeaseInvariance, PTL DEF Spec, DurablePhaseNeverRegresses

-----------------------------------------------------------------------------
(* Sessions *)

Away == {"down", "connect"}

\* A session goes on, ends, or is a new one.
SessionMove ==
    \/ /\ UNCHANGED <<session, sessions>>
       /\ todo' \subseteq todo /\ (pc' \in Away <=> pc \in Away)
    \/ session' = NoSession /\ UNCHANGED sessions /\ todo' = {} /\ pc' \in Away
    \/ /\ pc = "connect" /\ pc' = "loop"
       /\ sessions' = sessions + 1 /\ session' = sessions'

\* Executions begin where the controller goes from mark to exec, and nowhere else.
RunsMove ==
    IF pc = "mark" /\ pc' = "exec"
    THEN runs' = [runs EXCEPT ![cur] = @ + 1] /\ UNCHANGED srv
    ELSE UNCHANGED runs

\* Every step of the controller is one of these moves of its session.
LEMMA SessionMoves ==
    ASSUME IInv, ~ReuseSession, [Next]_vars PROVE SessionMove
  <1>1. CASE UNCHANGED <<controller, sessions>>
    BY <1>1 DEF controller, SessionMove
  <1>2. CASE (\E l \in {"down", "connect"} : EndSession(l)) /\ UNCHANGED sessions
    BY <1>2 DEF EndSession, SessionMove, Away
  <1>3. CASE NextJob /\ pc \in Working /\ UNCHANGED sessions
    BY <1>3 DEF NextJob, SessionMove, Away, Working
  <1>4. CASE Connect
    BY <1>4 DEF Connect, SessionMove
  <1>5. CASE \E j \in Jobs : RecoverNext(j)
    BY <1>5 DEF RecoverNext, backend, SessionMove, Away
  <1>6. CASE (\E m \in Requests : Granted(m)) /\ UNCHANGED sessions
    BY <1>6 DEF Granted, Sends, SessionMove, Away
  <1>7. CASE (\E l \in Owning : Goes(l)) /\ UNCHANGED sessions
    BY <1>7 DEF Goes, GoTo, SessionMove, Away, Owning, Working
  <1> QED BY <1>1, <1>2, <1>3, <1>4, <1>5, <1>6, <1>7, ControllerMoves DEF ControllerMove

\* mark_running is where executions begin.
LEMMA RunsMoves == ASSUME [Next]_vars PROVE RunsMove
  <1>1. CASE ServiceStep \/ SessionFails \/ Crash \/ RequestShutdown
    <2>1. CASE StartService \/ Shutdown \/ Connect \/ SessionFails \/ Crash \/ RequestShutdown
      BY <2>1 DEF StartService, Shutdown, Connect, SessionFails, Crash, RequestShutdown,
         controller, EndSession, RunsMove
    <2>2. CASE \E j \in Jobs : LeaseJob(j) \/ LeaseConflict(j) \/ LeaseLost(j)
      BY <2>2 DEF LeaseJob, LeaseConflict, LeaseLost, RunsMove
    <2> QED BY <1>1, <2>1, <2>2 DEF ServiceStep
  <1>2. CASE RecoveryStep
    BY <1>2 DEF RecoveryStep, RecoverNext, PlanForget, PlanWait, PlanReclaim,
       PlanReclaimTerminal, PlanReclaimFails, PlanAdopt, Deciding, DecideExecute,
       DecideSubmit, DecideManual, DecideManualFails, RunsMove
  <1>3. CASE ExecutionStep
    <2>1. CASE MarkJobRunning
      BY <2>1 DEF MarkJobRunning, GoTo, backend, RunsMove
    <2>2. CASE MarkExpired
      BY <2>2 DEF MarkExpired, GoTo, EndSession, RunsMove
    <2>3. CASE \/ StartJob \/ StartFails \/ RecordOutcome \/ Submit \/ SubmitFails
               \/ AbortRunning \/ AbortPending \/ AbortLeased
      BY <2>3 DEF StartJob, StartFails, RecordOutcome, Submit, SubmitFails, AbortRunning,
         AbortPending, AbortLeased, RunsMove
    <2>4. CASE RenewJob \/ RenewFails \/ HeartbeatFails \/ PollCancellation
      BY <2>4 DEF RenewJob, RenewFails, HeartbeatFails, PollCancellation, Supervising,
         RunsMove
    <2> QED BY <1>3, <2>1, <2>2, <2>3, <2>4 DEF ExecutionStep
  <1>4. CASE WorkerStep
    BY <1>4 DEF WorkerStep, CommandExits, WorkerEnds, controller, RunsMove
  <1>5. CASE BackendStep \/ UNCHANGED vars
    BY <1>5 DEF BackendStep, DeliverLate, LeaseLapses, Requeue, CancelJob, controller,
       vars, RunsMove
  <1> QED BY <1>1, <1>2, <1>3, <1>4, <1>5 DEF Next

\* What the rows and the requests on their way become is of a session that was known.
LEMMA KnownStays ==
    ASSUME IInv, SessionInv, [Next]_vars
    PROVE  /\ \A j \in Jobs : srv'[j].session \in Known
           /\ \A m \in late' : m.session \in Known \ {NoSession}
  <1>0. /\ \A j \in Jobs : srv[j].session \in Known
        /\ \A m \in late : m.session \in Known \ {NoSession}
        /\ late \subseteq Requests
    BY DEF SessionInv, SessionsAreKnown, IInv, TypeOK
  <1>1. ASSUME NEW m \in Requests, Sends(m)
        PROVE  m.session \in Known \ {NoSession}
    <2>1. m.session = session /\ pc \notin {"down", "connect"}
      BY <1>1, SentType
    <2>2. session = sessions /\ sessions \in Nat
      BY <2>1 DEF SessionInv, SessionsAreKnown, IInv, TypeOK
    <2> QED BY <2>1, <2>2, ConstantsAssumption DEF Known
  <1>2. ASSUME NEW m \in Requests, m.session \in Known, Accepts(srv[m.job], m),
               srv' = [srv EXCEPT ![m.job] = Effect(@, m)]
        PROVE  \A j \in Jobs : srv'[j].session \in Known
    <2>1. /\ m.job \in Jobs /\ srv[m.job] \in Rows
          /\ srv'[m.job] = Effect(srv[m.job], m)
          /\ \A k \in Jobs \ {m.job} : srv'[k] = srv[k]
      BY <1>2, RowTaken
    <2>2. Effect(srv[m.job], m).session \in {m.session, srv[m.job].session}
      BY <1>2, <2>1, EffectFacts
    <2> QED BY <1>0, <1>2, <2>1, <2>2
  <1>3. CASE UNCHANGED <<srv, late>>
    BY <1>0, <1>3
  <1>4. CASE \E m \in Requests : Sends(m) /\ Answered(m)
    BY <1>0, <1>1, <1>2, <1>4 DEF Answered
  <1>5. CASE \E m \in Requests : Sends(m) /\ Lost(m)
    BY <1>0, <1>1, <1>5 DEF Lost
  <1>6. CASE \E m \in late : DeliverLate(m)
    BY <1>0, <1>2, <1>6 DEF DeliverLate
  <1>7. CASE \E j \in Jobs : Drifts(j)
    BY <1>0, <1>7 DEF Drifts, Known
  <1> QED BY <1>3, <1>4, <1>5, <1>6, <1>7, NetworkMoves DEF NetworkMove

\* What is written into the journal is of the session that writes, or was there.
LEMMA WrittenSession ==
    ASSUME IInv, NEW j \in Jobs, NEW record \in Records, Writes(j, record)
    PROVE  /\ record.session \in {session, mem[j].session, NoSession}
           /\ HasRecord(record) =>
                 \/ Durable \/ session' = NoSession
                 \/ record.session = mem[j].session /\ HasRecord(mem[j])
  <1>0. mem[j] \in Records
    BY DEF IInv, TypeOK
  <1>1. CASE Forgets(j, record)
    BY <1>1 DEF Forgets, NoRecord, HasRecord
  <1>2. CASE Leases(j, record)
    BY <1>2 DEF Leases, RecordLease
  <1>3. CASE Moves(j, record)
    BY <1>3 DEF Moves
  <1>4. CASE Marks(j, record)
    BY <1>0, <1>4 DEF Marks, MarkRunning, Records, HasRecord
  <1>5. CASE Concludes(j, record)
    BY <1>0, <1>5 DEF Concludes, RecordTerminal, Records, HasRecord
  <1> QED BY <1>1, <1>2, <1>3, <1>4, <1>5 DEF Writes

\* Only sessions that were handed out appear anywhere.
LEMMA KnownStep ==
    ASSUME IInv, LeaseInv, SessionInv, ~ReuseSession, [Next]_vars
    PROVE  SessionsAreKnown'
  <1>0. /\ sessions \in Nat /\ sessions' \in Nat /\ sessions <= sessions'
        /\ session' = IF pc' \in {"down", "connect"} THEN NoSession ELSE sessions'
    <2>1. sessions \in Nat /\ session = IF pc \in {"down", "connect"} THEN NoSession ELSE sessions
      BY DEF IInv, TypeOK, SessionInv, SessionsAreKnown
    <2> QED BY <2>1, SessionMoves DEF SessionMove, Away
  <1>1. Known \subseteq Known'
    BY <1>0 DEF Known
  <1>2. session \in Known
    BY <1>0 DEF Known, SessionInv, SessionsAreKnown
  <1>3. \A j \in Jobs : mem[j].session \in Known /\ disk[j].session \in Known
    BY DEF SessionInv, SessionsAreKnown
  <1>4. \A j \in Jobs : mem'[j].session \in Known
    <2>1. CASE \E j \in Jobs, record \in Records : Writes(j, record)
      <3>1. PICK j \in Jobs, record \in Records : Writes(j, record)
        BY <2>1
      <3>2. record.session \in Known
        BY <1>2, <1>3, <3>1, WrittenSession DEF Known
      <3> QED BY <1>3, <3>1, <3>2 DEF Writes, IInv, TypeOK
    <2> QED BY <1>3, <2>1, JournalMoves DEF JournalMove, journal
  <1>5. \A j \in Jobs : disk'[j].session \in Known
    BY <1>3, <1>4, JournalStep
  <1> QED BY <1>0, <1>1, <1>4, <1>5, KnownStays DEF SessionsAreKnown

\* A record of the session is written through, or the session ends.
LEMMA DurableStep ==
    ASSUME IInv, LeaseInv, SessionInv, ~ReuseSession, [Next]_vars
    PROVE  OwnRecordIsDurable'
  <1> SUFFICES ASSUME NEW j \in Jobs, session' # NoSession, HasRecord(mem'[j]),
                      mem'[j].session = session'
               PROVE  disk'[j].session = session'
    BY DEF OwnRecordIsDurable
  <1>1. session' = session
    <2>1. CASE session' = sessions + 1
      <3>1. mem'[j].session \in Known
        <4>1. session \in Known /\ \A k \in Jobs : mem[k].session \in Known /\ disk[k].session \in Known
          BY DEF SessionInv, SessionsAreKnown, Known, IInv, TypeOK
        <4>2. CASE \E k \in Jobs, record \in Records : Writes(k, record)
          <5>1. PICK k \in Jobs, record \in Records : Writes(k, record)
            BY <4>2
          <5>2. record.session \in Known
            BY <4>1, <5>1, WrittenSession DEF Known
          <5> QED BY <4>1, <5>1, <5>2 DEF Writes, IInv, TypeOK
        <4> QED BY <4>1, <4>2, JournalMoves DEF JournalMove, journal
      <3>2. sessions + 1 \notin Known
        BY ConstantsAssumption DEF Known, IInv, TypeOK
      <3> QED BY <2>1, <3>1, <3>2
    <2> QED BY <2>1, SessionMoves DEF SessionMove
  <1>2. ASSUME HasRecord(mem[j]), mem[j].session = session PROVE disk[j].session = session
    BY <1>1, <1>2 DEF SessionInv, OwnRecordIsDurable
  <1>3. CASE UNCHANGED journal
    BY <1>1, <1>2, <1>3 DEF journal
  <1>4. CASE \E k \in Jobs, record \in Records : Writes(k, record)
    <2>1. PICK k \in Jobs, record \in Records : Writes(k, record)
      BY <1>4
    <2>2. CASE disk' = mem'
      BY <2>2
    <2>3. CASE disk' = disk /\ k # j
      BY <1>1, <1>2, <2>1, <2>3 DEF Writes, IInv, TypeOK
    <2>4. CASE disk' = disk /\ k = j
      <3>1. mem'[j] = record
        BY <2>1, <2>4 DEF Writes, IInv, TypeOK
      <3> QED BY <1>1, <1>2, <2>1, <2>2, <2>4, <3>1, WrittenSession DEF Durable
    <2> QED BY <2>1, <2>2, <2>3, <2>4 DEF Writes
  <1> QED BY <1>3, <1>4, JournalMoves DEF JournalMove

\* The controller asks for the lease of job j and gets it.
Obtains(j) ==
    \E m \in Requests :
        Sends(m) /\ Answered(m) /\ m.job = j /\ (pc = "plan" => pc' # "plan")

\* A row the session does not own stays so, unless the controller asks for it.
LEMMA ForeignRow ==
    ASSUME IInv, SessionInv, [Next]_vars, pc \notin Away,
           NEW j \in Jobs, srv[j].session # session,
           ~Obtains(j)
    PROVE  srv'[j].session # session
  <1>0. session # NoSession
    BY ConstantsAssumption DEF IInv, TypeOK, SessionInv, SessionsAreKnown, Away
  <1>1. CASE UNCHANGED <<srv, late>>
    BY <1>1
  <1>2. CASE \E m \in Requests : Sends(m) /\ Answered(m) /\ (pc = "plan" => pc' # "plan")
    <2>1. PICK m \in Requests : Sends(m) /\ Answered(m) /\ (pc = "plan" => pc' # "plan")
      BY <1>2
    <2> QED BY <2>1, RowTaken DEF Answered, Obtains
  <1>3. CASE \E m \in Requests : Sends(m) /\ Lost(m)
    BY <1>3 DEF Lost
  <1>4. CASE \E m \in late : DeliverLate(m)
    <2>1. PICK m \in late : DeliverLate(m)
      BY <1>4
    <2>2. /\ m \in Requests /\ Accepts(srv[m.job], m)
          /\ m.op \in {"lease", "reclaim"} => m.session # session
      BY <2>1 DEF DeliverLate, IInv, TypeOK, SessionInv, NewSessionOwnsNothing
    <2>3. /\ srv[m.job] \in Rows /\ srv'[m.job] = Effect(srv[m.job], m)
          /\ \A k \in Jobs \ {m.job} : srv'[k] = srv[k]
      BY <2>1, <2>2, RowTaken DEF DeliverLate
    <2> QED BY <2>2, <2>3, EffectFacts
  <1>5. CASE \E k \in Jobs : Drifts(k)
    BY <1>0, <1>5 DEF Drifts
  <1> QED BY <1>1, <1>2, <1>3, <1>4, <1>5, NetworkMoves DEF NetworkMove

\* No request for a lease is left on its way under a session that goes on.
LEMMA LateLeases ==
    ASSUME IInv, SessionInv, [Next]_vars, UNCHANGED session, session # NoSession
    PROVE  \A m \in late' : m.op \in {"lease", "reclaim"} => m.session # session
  <1>0. \A m \in late : m.op \in {"lease", "reclaim"} => m.session # session
    BY DEF SessionInv, NewSessionOwnsNothing
  <1>1. CASE \E m \in Requests : /\ Sends(m) /\ Lost(m)
                                 /\ m.op \in {"lease", "reclaim"} => session' = NoSession
    BY <1>0, <1>1 DEF Lost
  <1>2. CASE late' \subseteq late
    BY <1>0, <1>2
  <1> QED BY <1>1, <1>2, NetworkMoves DEF NetworkMove, Answered, DeliverLate, Drifts

\* Whatever a session finds in recovery was leased by another one.
LEMMA NewSessionStep ==
    ASSUME IInv, SessionInv, ~ReuseSession, [Next]_vars
    PROVE  NewSessionOwnsNothing'
  <1>0. /\ pc \in Away => todo = {}
        /\ \A j \in todo : j \in Jobs /\ srv[j].session # session
        /\ pc = "plan" => srv[cur].session # session /\ rem.session # session
        /\ pc = "plan" => cur \in Jobs
        /\ pc \in Working => cur \notin todo
        /\ pc \notin Away => session # NoSession
        /\ todo' \subseteq Jobs
    <2>1. IInv'
      BY NextIInv
    <2> QED BY <2>1, ConstantsAssumption
         DEF SessionInv, NewSessionOwnsNothing, SessionsAreKnown, Away, IInv, TypeOK,
             Ownership, Working
  <1>1. CASE UNCHANGED <<session, sessions>> /\ todo' \subseteq todo
             /\ (pc' \in Away <=> pc \in Away)
    <2>1. pc' \in Away => todo' = {}
      BY <1>0, <1>1
    <2>2. ASSUME NEW j \in todo' PROVE srv'[j].session # session
      <3>1. j \in todo /\ j \in Jobs /\ pc \notin Away /\ srv[j].session # session
        BY <1>0, <1>1, <2>2
      <3>2. ASSUME NEW m \in Requests, Sends(m), m.job = j PROVE FALSE
        <4>1. m.job = cur /\ pc \in Working
          BY <3>1, <3>2, SentType DEF Sends, Working
        <4> QED BY <1>0, <3>1, <3>2, <4>1
      <3>3. ~Obtains(j)
        BY <3>2 DEF Obtains
      <3> QED BY <3>1, <3>3, ForeignRow
    <2>3. ASSUME pc' = "plan" PROVE srv'[cur'].session # session /\ rem'.session # session
      <3>1. CASE UNCHANGED controller
        <4>1. pc = "plan" /\ cur' = cur /\ rem' = rem /\ pc \notin Away
          BY <2>3, <3>1 DEF controller, Away
        <4>2. ~Obtains(cur)
          BY <2>3, <4>1 DEF Obtains
        <4>3. srv'[cur].session # session
          BY <1>0, <4>1, <4>2, ForeignRow
        <4> QED BY <1>0, <4>1, <4>3
      <3>2. CASE \E j \in Jobs : RecoverNext(j)
        BY <1>0, <3>2 DEF RecoverNext, backend
      <3> QED BY <2>3, <3>1, <3>2, ControllerMoves
             DEF ControllerMove, EndSession, NextJob, Connect, Granted, Goes, GoTo, Owning, Working
    <2>4. \A m \in late' : m.op \in {"lease", "reclaim"} => m.session # session
      <3>1. CASE session = NoSession
        BY <3>1, KnownStays
      <3> QED BY <1>1, <3>1, LateLeases
    <2> QED BY <1>1, <2>1, <2>2, <2>3, <2>4 DEF NewSessionOwnsNothing, Away
  <1>2. CASE session' = NoSession /\ todo' = {} /\ pc' \in Away
    BY <1>2, KnownStays DEF NewSessionOwnsNothing, Away
  <1>3. CASE pc' = "loop" /\ session' = sessions + 1
    <2>1. sessions + 1 \notin Known
      BY ConstantsAssumption DEF Known, IInv, TypeOK
    <2> QED BY <1>0, <1>3, <2>1, KnownStays DEF NewSessionOwnsNothing
  <1> QED BY <1>1, <1>2, <1>3, SessionMoves DEF SessionMove

\* A sent outcome is what the record of `cur` says.
LEMMA SentOutcome ==
    ASSUME IInv, LeaseInv, SessionInv, NEW m, Sends(m), m.op = "settle"
    PROVE  /\ m.job = cur /\ cur \in Jobs /\ m \in Requests
           /\ m.version <= srv[cur].version /\ m.payload.run = runs[cur]
           /\ SoundPayload(m.payload, runs[cur])
           /\ pc \in {"submit", "resubmit"}
  <1>1. /\ pc \in {"submit", "resubmit"} /\ m \in Requests /\ m.job = cur
        /\ m.version = mem[cur].version /\ m.payload = mem[cur].payload
    BY SentType DEF Sends, Working
  <1>2. cur \in Jobs /\ mem[cur].phase \in PendingPhases
    BY <1>1 DEF IInv, Ownership, Working
  <1> QED BY <1>1, <1>2 DEF LeaseInv, LeaseNeverAhead, SessionInv, OutcomesAreSound

\* An execution begins only where no outcome on its way is of the lease.
LEMMA RunsUnderLease ==
    ASSUME IInv, LeaseInv, SessionInv, [Next]_vars, NEW m \in late, m.op = "settle",
           m.version = srv[m.job].version
    PROVE  runs'[m.job] = runs[m.job]
  <1>1. CASE pc = "mark" /\ m.job = cur
    <2>1. m.version < rem.version
      BY <1>1 DEF SessionInv, LeaseIsFenced
    <2>2. rem.version <= srv[cur].version
      BY <1>1 DEF LeaseInv, SnapshotNotAhead, Working
    <2>3. m.version \in Nat /\ rem.version \in Nat
      BY DEF IInv, TypeOK, Rows, Requests
    <2> QED BY <1>1, <2>1, <2>2, <2>3
  <1>2. CASE ~(pc = "mark" /\ m.job = cur)
    <2>1. m.job \in Jobs /\ runs \in [Jobs -> Nat]
      BY DEF IInv, TypeOK, Requests
    <2> QED BY <1>2, <2>1, RunsMoves DEF RunsMove
  <1> QED BY <1>1, <1>2

\* The number of executions only grows.
LEMMA RunsGrow ==
    ASSUME IInv, [Next]_vars
    PROVE  \A j \in Jobs : runs[j] \in Nat /\ runs'[j] \in Nat /\ runs[j] <= runs'[j]
  BY RunsMoves DEF RunsMove, IInv, TypeOK

\* An outcome on its way stays with its lease.
LEMMA LateStep ==
    ASSUME IInv, LeaseInv, SessionInv, [Next]_vars
    PROVE  LateOutcomes'
  <1> SUFFICES ASSUME NEW m \in late', m.op = "settle"
               PROVE  /\ m.version <= srv'[m.job].version
                      /\ m.version = srv'[m.job].version => m.payload.run = runs'[m.job]
    BY DEF LateOutcomes
  <1>1. CASE m \in late
    <2>1. /\ m.job \in Jobs /\ m.version \in Nat
          /\ m.version <= srv[m.job].version
          /\ m.version = srv[m.job].version => m.payload.run = runs[m.job]
      BY <1>1 DEF SessionInv, LateOutcomes, IInv, TypeOK, Requests
    <2>2. srv[m.job].version \in Nat /\ srv'[m.job].version \in Nat
          /\ srv[m.job].version <= srv'[m.job].version
      BY <2>1, RowsGrow, NextIInv DEF VersionsGrow, IInv, TypeOK, Rows
    <2> QED BY <1>1, <2>1, <2>2, RunsUnderLease
  <1>2. CASE m \notin late
    <2>1. PICK n \in Requests : Sends(n) /\ Lost(n)
      BY <1>2, NetworkMoves DEF NetworkMove, Answered, DeliverLate, Drifts
    <2>2. m = n /\ UNCHANGED srv
      BY <1>2, <2>1 DEF Lost
    <2> QED BY <2>1, <2>2, SentOutcome, RunsMoves DEF RunsMove
  <1> QED BY <1>1, <1>2

\* The verdict of an open row is empty, and only the outcome of its lease fills it.
LEMMA VerdictStep ==
    ASSUME IInv, LeaseInv, SessionInv, [Next]_vars, NEW j \in Jobs,
           srv'[j].verdict # srv[j].verdict
    PROVE  \E m \in Requests :
               /\ m.op = "settle" /\ m.job = j /\ (Sends(m) \/ m \in late)
               /\ m.session = srv[j].session /\ m.version = srv[j].version
               /\ ~IsTerminal(srv[j]) /\ srv'[j] = Effect(srv[j], m)
               /\ srv'[j].verdict = m.payload
  <1>1. ASSUME NEW m \in Requests, Sends(m) \/ m \in late, Accepts(srv[m.job], m),
               srv' = [srv EXCEPT ![m.job] = Effect(@, m)]
        PROVE  /\ m.op = "settle" /\ m.job = j /\ (Sends(m) \/ m \in late)
               /\ m.session = srv[j].session /\ m.version = srv[j].version
               /\ ~IsTerminal(srv[j]) /\ srv'[j] = Effect(srv[j], m)
               /\ srv'[j].verdict = m.payload
    <2>1. /\ srv[m.job] \in Rows /\ srv'[m.job] = Effect(srv[m.job], m)
          /\ \A k \in Jobs \ {m.job} : srv'[k] = srv[k]
      BY <1>1, RowTaken
    <2>2. m.job = j
      BY <2>1
    <2>3. m.op = "settle" /\ ~IsTerminal(srv[j])
      BY <1>1, <2>1, <2>2, EffectFacts
    <2>4. Holds(srv[j], m) /\ srv'[j].verdict = m.payload
      BY <1>1, <2>1, <2>2, <2>3, EffectFacts
    <2> QED BY <1>1, <2>1, <2>2, <2>3, <2>4 DEF Holds
  <1>2. CASE \E m \in Requests : Sends(m) /\ Answered(m)
    BY <1>1, <1>2 DEF Answered
  <1>3. CASE \E m \in late : DeliverLate(m)
    <2>1. PICK m \in late : DeliverLate(m)
      BY <1>3
    <2>2. m \in Requests
      BY DEF IInv, TypeOK
    <2> QED BY <1>1, <2>1, <2>2 DEF DeliverLate
  <1>4. CASE \E k \in Jobs : Drifts(k)
    BY <1>4 DEF Drifts
  <1> QED BY <1>2, <1>3, <1>4, NetworkMoves DEF NetworkMove, Lost

\* The lease the controller works under stays fenced.
LEMMA FencedStep ==
    ASSUME IInv, LeaseInv, SessionInv, [Next]_vars
    PROVE  LeaseIsFenced'
  <1> DEFINE Fenced == {"decide", "start", "mark", "exec"}
  <1> SUFFICES ASSUME pc' \in Fenced
               PROVE  /\ srv'[cur'].verdict = NoPayload
                      /\ \A m \in late' : m.op = "settle" /\ m.job = cur' =>
                                             m.version < rem'.version
    BY DEF LeaseIsFenced
  <1>1. CASE pc \in Fenced /\ UNCHANGED <<cur, rem>>
    <2>1. /\ cur \in Jobs /\ srv[cur].verdict = NoPayload
          /\ \A m \in late : m.op = "settle" /\ m.job = cur => m.version < rem.version
          /\ rem.version \in Nat /\ srv[cur].version \in Nat
          /\ rem.version <= srv[cur].version
      BY <1>1 DEF SessionInv, LeaseIsFenced, LeaseInv, SnapshotNotAhead, IInv, TypeOK,
         Ownership, Rows, Working
    <2>2. ASSUME NEW m \in Requests, Sends(m), m.op = "settle" PROVE FALSE
      BY <1>1, <2>2, SentOutcome
    <2>3. srv'[cur].verdict = NoPayload
      <3> SUFFICES ASSUME srv'[cur].verdict # srv[cur].verdict PROVE FALSE
        BY <2>1
      <3>1. PICK m \in Requests : m.op = "settle" /\ m.job = cur /\ m \in late
                                  /\ m.version = srv[cur].version
        BY <2>1, <2>2, VerdictStep
      <3> QED BY <2>1, <3>1
    <2>4. \A m \in late' : m.op = "settle" => m \in late
      BY <2>2, NetworkMoves DEF NetworkMove, Answered, DeliverLate, Drifts, Lost
    <2> QED BY <1>1, <2>1, <2>3, <2>4
  <1>2. CASE \E m \in Requests : Granted(m)
    <2>1. PICK m \in Requests : Granted(m)
      BY <1>2
    <2>2. /\ m.job \in Jobs /\ srv[m.job] \in Rows /\ Accepts(srv[m.job], m)
          /\ srv'[m.job] = Effect(srv[m.job], m) /\ late' = late
          /\ m.op \in {"lease", "reclaim", "renew"} /\ cur' = m.job /\ rem' = srv'[m.job]
      BY <2>1, RowTaken DEF Granted, Answered
    <2>3. /\ srv'[m.job].version = srv[m.job].version + 1
          /\ srv'[m.job].verdict = srv[m.job].verdict /\ ~IsTerminal(srv[m.job])
      BY <2>2, EffectFacts
    <2>4. srv'[m.job].verdict = NoPayload
      BY <2>2, <2>3 DEF SessionInv, OutcomesAreSound
    <2>5. ASSUME NEW n \in late, n.op = "settle", n.job = m.job
          PROVE  n.version < srv'[m.job].version
      BY <2>2, <2>3, <2>5 DEF SessionInv, LateOutcomes, IInv, TypeOK, Requests, Rows
    <2> QED BY <2>2, <2>4, <2>5
  <1>3. CASE \E l \in Owning : Goes(l)
    <2>1. pc \in Fenced /\ UNCHANGED <<cur, rem>>
      BY <1>3 DEF Goes, GoTo, SessionInv, NewSessionOwnsNothing
    <2> QED BY <1>1, <2>1
  <1> QED BY <1>1, <1>2, <1>3, ControllerMoves
         DEF ControllerMove, controller, EndSession, NextJob, Connect, RecoverNext

\* An outcome stays sound: executions are only added.
LEMMA SoundStays ==
    ASSUME IInv, [Next]_vars, NEW j \in Jobs, NEW payload \in Payloads,
           SoundPayload(payload, runs[j])
    PROVE  SoundPayload(payload, runs'[j])
  <1>1. payload.run \in Nat
    BY DEF SoundPayload, Payloads
  <1> QED BY <1>1, RunsGrow DEF SoundPayload

\* Where an execution begins, neither the memory nor the file has an outcome.
LEMMA NoOutcomeYet ==
    ASSUME IInv, LeaseInv, pc = "mark"
    PROVE  mem[cur].phase \notin PendingPhases /\ disk[cur].phase \notin PendingPhases
  <1>1. cur \in Jobs /\ mem[cur].phase \in {"Leased", "Running"}
    BY DEF IInv, Ownership, Working
  <1>2. Follows(mem[cur], disk[cur], srv[cur])
    BY <1>1 DEF LeaseInv, MemoryFollowsFile
  <1> QED BY <1>1, <1>2 DEF Follows, Rank, HasRecord, PendingPhases

\* A record with an outcome keeps it sound.
LEMMA RecordSound ==
    ASSUME IInv, LeaseInv, SessionInv, [Next]_vars, NEW j \in Jobs, NEW record \in Records,
           record.phase \in PendingPhases,
           SoundPayload(record.payload, runs[j]), record.payload.run = runs[j],
           pc = "mark" /\ cur = j => FALSE
    PROVE  SoundPayload(record.payload, runs'[j]) /\ record.payload.run = runs'[j]
  <1>1. runs'[j] = runs[j]
    BY RunsMoves DEF RunsMove, IInv, TypeOK
  <1> QED BY <1>1

\* What a step writes is sound.
LEMMA WrittenSound ==
    ASSUME IInv, LeaseInv, SessionInv, [Next]_vars,
           NEW j \in Jobs, NEW record \in Records, Writes(j, record),
           record.phase \in PendingPhases
    PROVE  SoundPayload(record.payload, runs'[j]) /\ record.payload.run = runs'[j]
  <1>0. mem[j] \in Records /\ runs[j] \in Nat
    BY DEF IInv, TypeOK
  <1>1. CASE Forgets(j, record)
    BY <1>1 DEF Forgets, NoRecord, PendingPhases
  <1>2. CASE Leases(j, record)
    BY <1>2 DEF Leases, RecordLease, PendingPhases
  <1>3. CASE Moves(j, record)
    <2>1. mem[j].phase \in PendingPhases /\ record.payload = mem[j].payload
      BY <1>3 DEF Moves
    <2>2. SoundPayload(record.payload, runs[j]) /\ record.payload.run = runs[j]
      BY <2>1 DEF SessionInv, OutcomesAreSound
    <2> QED BY <2>1, <2>2, RecordSound, NoOutcomeYet
  <1>4. CASE Marks(j, record)
    BY <1>0, <1>4 DEF Marks, MarkRunning, Records, PendingPhases
  <1>5. CASE Concludes(j, record)
    <2>1. PICK phase \in PendingPhases, kind \in ExecutionOutcomes \cup {"exited", "uncertain"} :
              /\ kind \in ExecutionOutcomes => pc = "exec"
              /\ record = RecordTerminal(mem[j], phase, PayloadOf(kind, runs[j]))
              /\ UNCHANGED runs /\ j = cur
      BY <1>5 DEF Concludes
    <2>2. record.payload = PayloadOf(kind, runs[j])
      BY <1>0, <2>1 DEF RecordTerminal, Records
    <2>3. PayloadOf(kind, runs[j]) # NoPayload
      BY <1>0, PayloadAssumption DEF PayloadOf
    <2>4. kind \in ExecutionOutcomes => runs[j] > 0
      BY <2>1 DEF SessionInv, OutcomesAreSound
    <2> QED BY <1>0, <2>1, <2>2, <2>3, <2>4 DEF SoundPayload, PayloadOf
  <1> QED BY <1>1, <1>2, <1>3, <1>4, <1>5 DEF Writes

\* Outcomes in the journal stay sound.
LEMMA JournalSound ==
    ASSUME IInv, LeaseInv, SessionInv, [Next]_vars, NEW j \in Jobs
    PROVE  /\ mem'[j].phase \in PendingPhases =>
                 SoundPayload(mem'[j].payload, runs'[j]) /\ mem'[j].payload.run = runs'[j]
           /\ disk'[j].phase \in PendingPhases =>
                 SoundPayload(disk'[j].payload, runs'[j]) /\ disk'[j].payload.run = runs'[j]
  <1>0. mem[j] \in Records /\ disk[j] \in Records
    BY DEF IInv, TypeOK
  <1>1. mem[j].phase \in PendingPhases =>
            SoundPayload(mem[j].payload, runs'[j]) /\ mem[j].payload.run = runs'[j]
    BY <1>0, RecordSound, NoOutcomeYet DEF SessionInv, OutcomesAreSound
  <1>2. disk[j].phase \in PendingPhases =>
            SoundPayload(disk[j].payload, runs'[j]) /\ disk[j].payload.run = runs'[j]
    BY <1>0, RecordSound, NoOutcomeYet DEF SessionInv, OutcomesAreSound
  <1>3. mem'[j].phase \in PendingPhases =>
            SoundPayload(mem'[j].payload, runs'[j]) /\ mem'[j].payload.run = runs'[j]
    <2>1. CASE mem'[j] = mem[j]
      BY <1>1, <2>1
    <2>2. CASE mem'[j] = disk[j]
      BY <1>2, <2>2
    <2>3. CASE \E k \in Jobs, record \in Records : Writes(k, record)
      <3>1. PICK k \in Jobs, record \in Records : Writes(k, record)
        BY <2>3
      <3>2. mem'[j] = IF j = k THEN record ELSE mem[j]
        BY <3>1 DEF Writes, IInv, TypeOK
      <3> QED BY <2>1, <3>1, <3>2, WrittenSound
    <2> QED BY <2>1, <2>2, <2>3, JournalMoves DEF JournalMove, journal
  <1> QED BY <1>2, <1>3, JournalStep

\* A row that is not terminal has no verdict.
LEMMA OpenRow ==
    ASSUME IInv, LeaseInv, SessionInv, [Next]_vars, NEW j \in Jobs, ~IsTerminal(srv'[j])
    PROVE  srv'[j].verdict = NoPayload
  <1>1. ~IsTerminal(srv[j])
    BY RowsGrow DEF TerminalIsFinal
  <1>2. CASE srv'[j].verdict # srv[j].verdict
    <2>1. PICK m \in Requests : m.op = "settle" /\ srv'[j] = Effect(srv[j], m)
      BY <1>2, VerdictStep
    <2> QED BY <2>1, SettleTerminal DEF IInv, TypeOK
  <1> QED BY <1>1, <1>2 DEF SessionInv, OutcomesAreSound

\* Outcomes claim what happened.
LEMMA SoundStep ==
    ASSUME IInv, LeaseInv, SessionInv, [Next]_vars
    PROVE  OutcomesAreSound'
  <1>1. ASSUME NEW m \in late', m.op = "settle" PROVE SoundPayload(m.payload, runs'[m.job])
    <2>1. CASE m \in late
      <3>1. m.job \in Jobs /\ m.payload \in Payloads
        BY <2>1 DEF IInv, TypeOK, Requests
      <3> QED BY <1>1, <2>1, <3>1, SoundStays DEF SessionInv, OutcomesAreSound
    <2>2. CASE m \notin late
      <3>1. PICK n \in Requests : Sends(n) /\ Lost(n)
        BY <1>1, <2>2, NetworkMoves DEF NetworkMove, Answered, DeliverLate, Drifts
      <3>2. m = n
        BY <1>1, <2>2, <3>1 DEF Lost
      <3> QED BY <1>1, <3>1, <3>2, SentOutcome, RunsMoves DEF RunsMove
    <2> QED BY <2>1, <2>2
  <1>2. ASSUME pc' = "exec" PROVE runs'[cur'] > 0
    <2>1. CASE pc = "exec" /\ UNCHANGED cur
      <3>1. runs[cur] > 0 /\ cur \in Jobs
        BY <2>1 DEF SessionInv, OutcomesAreSound, IInv, Ownership, Working
      <3> QED BY <2>1, <3>1, RunsGrow
    <2>2. CASE pc = "mark" /\ UNCHANGED cur
      <3>1. cur \in Jobs /\ runs \in [Jobs -> Nat] /\ runs' = [runs EXCEPT ![cur] = @ + 1]
        BY <1>2, <2>2, RunsMoves DEF RunsMove, IInv, TypeOK, Ownership, Working
      <3> QED BY <2>2, <3>1
    <2> QED BY <1>2, <2>1, <2>2, ControllerMoves
         DEF ControllerMove, controller, EndSession, NextJob, Connect, RecoverNext, Granted,
             Goes, GoTo, Working
  <1> QED BY <1>1, <1>2, JournalSound, OpenRow DEF OutcomesAreSound

\* Initially no session was handed out.
LEMMA InitSessionInv == ASSUME Init PROVE SessionInv
  BY DEF Init, SessionInv, SessionsAreKnown, Known, NewSessionOwnsNothing, OwnRecordIsDurable,
     LateOutcomes, LeaseIsFenced, OutcomesAreSound, NoRecord, FreshRow, HasRecord,
     PendingPhases

\* SessionInv is an invariant where the Backend answers every connect with a session
\* of its own, on top of IInv and LeaseInv.
THEOREM SessionInvariance ==
    ASSUME ~ReuseSession PROVE Spec => [](IInv /\ LeaseInv /\ SessionInv)
  <1>1. ConstantsAssumption /\ Init => IInv /\ LeaseInv /\ SessionInv
    BY InitIInv, InitLeaseInv, InitSessionInv
  <1>2. IInv /\ LeaseInv /\ SessionInv /\ [Next]_vars => (IInv /\ LeaseInv /\ SessionInv)'
    <2> SUFFICES ASSUME IInv, LeaseInv, SessionInv, [Next]_vars
                 PROVE  (IInv /\ LeaseInv /\ SessionInv)'
      OBVIOUS
    <2>1. IInv' /\ LeaseInv'
      BY NextIInv, SnapshotStep, WorkerStays, JournalStep DEF LeaseInv
    <2>2. SessionInv'
      BY KnownStep, NewSessionStep, DurableStep, LateStep, FencedStep, SoundStep
         DEF SessionInv
    <2> QED BY <2>1, <2>2
  <1> QED BY <1>1, <1>2, ConstantsAssumption, PTL DEF Spec

\* A command runs only under a Running record in the journal file, of the session
\* that runs it.
THEOREM ExecutionIsJournaled ==
    ASSUME ~ReuseSession PROVE Spec => []ExecutesUnderDurableRecord
  <1>1. ASSUME IInv, LeaseInv, SessionInv PROVE ExecutesUnderDurableRecord
    <2> SUFFICES ASSUME WorkerActive
                 PROVE  disk[cur].phase = "Running" /\ disk[cur].session = session
      BY DEF ExecutesUnderDurableRecord
    <2>1. pc = "exec"
      BY <1>1 DEF WorkerActive, CommandRuns, LeaseInv, WorkerIsSupervised
    <2>2. cur \in Jobs /\ mem[cur].phase = "Running" /\ mem[cur].session = session
      BY <1>1, <2>1 DEF IInv, Ownership, Working, Owning
    <2>3. session # NoSession
      BY <1>1, <2>1, ConstantsAssumption DEF SessionInv, SessionsAreKnown, IInv, TypeOK
    <2> QED BY <1>1, <2>1, <2>2, <2>3
         DEF IInv, RunningIsDurable, SessionInv, OwnRecordIsDurable, HasRecord
  <1> QED BY <1>1, SessionInvariance, PTL

\* While a job executes, an outcome of an earlier execution cannot settle it.
THEOREM StaleOutcomeCannotSettle ==
    ASSUME ~ReuseSession PROVE Spec => []StaleOutcomeIsFenced
  <1>1. ASSUME IInv, LeaseInv, SessionInv PROVE StaleOutcomeIsFenced
    <2> SUFFICES ASSUME WorkerActive, ~IsTerminal(srv[cur]),
                        NEW m \in late, m.op = "settle", m.job = cur
                 PROVE  ~Accepts(srv[cur], m)
      BY DEF StaleOutcomeIsFenced
    <2>1. pc = "exec" /\ cur \in Jobs
      BY <1>1 DEF WorkerActive, CommandRuns, LeaseInv, WorkerIsSupervised, IInv, Ownership,
         Working
    <2>2. m.version < rem.version /\ rem.version <= srv[cur].version
      BY <1>1, <2>1 DEF SessionInv, LeaseIsFenced, LeaseInv, SnapshotNotAhead, Working
    <2>3. m.version \in Nat /\ rem.version \in Nat /\ srv[cur].version \in Nat
      BY <1>1, <2>1 DEF IInv, TypeOK, Rows, Requests
    <2> QED BY <2>2, <2>3 DEF Accepts, Holds, IsTerminal
  <1> QED BY <1>1, SessionInvariance, PTL

-----------------------------------------------------------------------------
(* The refinement of JobOutcome *)

\* The verdict of a row depends on no more than its status and what settled it.
LEMMA SameVerdict ==
    ASSUME NEW row, NEW later, later.verdict = row.verdict,
           IsTerminal(later) <=> IsTerminal(row)
    PROVE  VerdictOf(later) = VerdictOf(row)
  BY DEF VerdictOf

\* An outcome that is taken on an open row is of its last execution.
LEMMA SettledSound ==
    ASSUME IInv, LeaseInv, SessionInv, [Next]_vars, NEW j \in Jobs, NEW m \in Requests,
           m.op = "settle", m.job = j, Sends(m) \/ m \in late, m.version = srv[j].version
    PROVE  SoundPayload(m.payload, runs[j]) /\ m.payload.run = runs[j]
  <1>1. CASE Sends(m)
    BY <1>1, SentOutcome
  <1>2. CASE m \in late
    BY <1>2 DEF SessionInv, LateOutcomes, OutcomesAreSound
  <1> QED BY <1>1, <1>2

\* A sound outcome is one that JobOutcome may settle a job with.
LEMMA SoundVerdict ==
    ASSUME NEW payload \in Payloads, NEW n \in Nat, SoundPayload(payload, n), payload.run = n
    PROVE  \E kind \in {"ok", "err"} \cup {"exited", "uncertain"} :
               /\ payload = [kind |-> kind, run |-> n]
               /\ kind \in {"ok", "err"} => n > 0
  BY DEF Payloads, SoundPayload, ExecutionOutcomes

\* What becomes of one row while no execution begins: nothing JobOutcome sees, its
\* settlement, or its withdrawal.
LEMMA RowRefines ==
    ASSUME IInv, LeaseInv, SessionInv, [Next]_vars, NEW j \in Jobs
    PROVE  \/ VerdictOf(srv'[j]) = VerdictOf(srv[j])
           \/ /\ VerdictOf(srv[j]) = [kind |-> "undecided", run |-> 0]
              /\ \/ \E kind \in {"ok", "err"} \cup {"exited", "uncertain"} :
                       /\ kind \in {"ok", "err"} => runs[j] > 0
                       /\ VerdictOf(srv'[j]) = [kind |-> kind, run |-> runs[j]]
                 \/ VerdictOf(srv'[j]) = [kind |-> "withdrawn", run |-> 0]
  <1>0. /\ ~IsTerminal(srv[j]) => srv[j].verdict = NoPayload
        /\ ~IsTerminal(srv'[j]) => ~IsTerminal(srv[j])
        /\ runs[j] \in Nat
    BY RowsGrow DEF TerminalIsFinal, SessionInv, OutcomesAreSound, IInv, TypeOK
  <1>1. CASE srv'[j].verdict = srv[j].verdict
    <2>1. CASE IsTerminal(srv'[j]) <=> IsTerminal(srv[j])
      BY <1>1, <2>1, SameVerdict
    <2>2. CASE IsTerminal(srv'[j]) /\ ~IsTerminal(srv[j])
      BY <1>0, <1>1, <2>2 DEF VerdictOf
    <2> QED BY <1>0, <2>1, <2>2
  <1>2. CASE srv'[j].verdict # srv[j].verdict
    <2>1. PICK m \in Requests :
              /\ m.op = "settle" /\ m.job = j /\ (Sends(m) \/ m \in late)
              /\ m.version = srv[j].version /\ ~IsTerminal(srv[j])
              /\ srv'[j].verdict = m.payload
      BY <1>2, VerdictStep
    <2>2. /\ SoundPayload(m.payload, runs[j]) /\ m.payload.run = runs[j]
          /\ m.payload \in Payloads
      BY <2>1, SettledSound DEF Requests
    <2>3. VerdictOf(srv[j]) = [kind |-> "undecided", run |-> 0]
      BY <1>0, <2>1 DEF VerdictOf
    <2>4. VerdictOf(srv'[j]) = m.payload
      BY <2>1, <2>2 DEF VerdictOf, SoundPayload
    <2> QED BY <1>0, <2>2, <2>3, <2>4, SoundVerdict
  <1> QED BY <1>1, <1>2

\* A step changes the row of one job at most.
LEMMA OneRow ==
    ASSUME IInv, [Next]_vars
    PROVE  UNCHANGED srv \/ \E j \in Jobs : \A k \in Jobs \ {j} : srv'[k] = srv[k]
  <1>1. CASE \E m \in Requests : Sends(m) /\ Answered(m)
    BY <1>1, RowTaken DEF Answered
  <1>2. CASE \E m \in late : DeliverLate(m)
    BY <1>2, RowTaken DEF DeliverLate, IInv, TypeOK
  <1>3. CASE \E j \in Jobs : Drifts(j)
    BY <1>3 DEF Drifts
  <1> QED BY <1>1, <1>2, <1>3, NetworkMoves DEF NetworkMove, Lost

\* The execution that begins is one JobOutcome allows.
LEMMA BeginRefines ==
    ASSUME IInv, LeaseInv, SessionInv, [Next]_vars, pc = "mark", pc' = "exec"
    PROVE  Outcome!Begin(cur) /\ cur \in Jobs
  <1>1. /\ cur \in Jobs /\ runs' = [runs EXCEPT ![cur] = @ + 1] /\ UNCHANGED srv
        /\ runs[cur] = 0 \/ cur \in Idempotent
    BY RunsMoves DEF RunsMove, IInv, Ownership, ExecutionIsAllowed, Working
  <1>2. VerdictOf(srv[cur]) \in {Outcome!Undecided, Outcome!Withdrawn}
    BY DEF SessionInv, LeaseIsFenced, VerdictOf, Outcome!Undecided, Outcome!Withdrawn
  <1> QED BY <1>1, <1>2 DEF Outcome!Begin

\* Every step of the runner and of the Backend is a step of JobOutcome or leaves what
\* it sees unchanged.
LEMMA StepRefines ==
    ASSUME IInv, LeaseInv, SessionInv, [Next]_vars
    PROVE  [Outcome!Next]_(Outcome!outcomeVars)
  <1>1. CASE pc = "mark" /\ pc' = "exec"
    BY <1>1, BeginRefines DEF Outcome!Next
  <1>2. CASE ~(pc = "mark" /\ pc' = "exec") /\ UNCHANGED srv
    BY <1>2, RunsMoves DEF RunsMove, Outcome!outcomeVars
  <1>3. CASE ~(pc = "mark" /\ pc' = "exec")
             /\ \E j \in Jobs : \A k \in Jobs \ {j} : srv'[k] = srv[k]
    <2>1. PICK j \in Jobs : \A k \in Jobs \ {j} : srv'[k] = srv[k]
      BY <1>3
    <2> DEFINE verdict == [k \in Jobs |-> VerdictOf(srv[k])]
               later == [k \in Jobs |-> VerdictOf(srv'[k])]
    <2>2. runs' = runs /\ later = [verdict EXCEPT ![j] = VerdictOf(srv'[j])]
      BY <1>3, <2>1, RunsMoves DEF RunsMove
    <2>3. CASE VerdictOf(srv'[j]) = VerdictOf(srv[j])
      <3>1. later = verdict
        BY <2>1, <2>3
      <3> QED BY <2>2, <3>1 DEF Outcome!outcomeVars
    <2>4. ASSUME VerdictOf(srv[j]) = [kind |-> "undecided", run |-> 0],
                 NEW kind \in {"ok", "err"} \cup {"exited", "uncertain"},
                 kind \in {"ok", "err"} => runs[j] > 0,
                 VerdictOf(srv'[j]) = [kind |-> kind, run |-> runs[j]]
          PROVE  Outcome!Settle(j, kind)
      BY <2>2, <2>4 DEF Outcome!Settle, Outcome!Undecided
    <2>5. ASSUME VerdictOf(srv[j]) = [kind |-> "undecided", run |-> 0],
                 VerdictOf(srv'[j]) = [kind |-> "withdrawn", run |-> 0]
          PROVE  Outcome!Withdraw(j)
      BY <2>2, <2>5 DEF Outcome!Withdraw, Outcome!Undecided, Outcome!Withdrawn
    <2> QED BY <2>3, <2>4, <2>5, RowRefines DEF Outcome!Next, Outcome!Reported
  <1> QED BY <1>1, <1>2, <1>3, OneRow

\* Initially no job has a verdict.
LEMMA InitRefines == ASSUME Init PROVE Outcome!Init
  BY DEF Init, Outcome!Init, Outcome!Undecided, VerdictOf, FreshRow, IsTerminal,
     TerminalStatuses

\* The runner keeps the promise of JobOutcome: one execution of a job that is not
\* replay-safe, one verdict, and no verdict that speaks of another execution than the
\* last.
THEOREM RunnerImplementsOutcome ==
    ASSUME ~ReuseSession PROVE Spec => ImplementsJobOutcome
  <1>1. Init => Outcome!Init
    BY InitRefines
  <1>2. IInv /\ LeaseInv /\ SessionInv /\ [Next]_vars => [Outcome!Next]_(Outcome!outcomeVars)
    BY StepRefines
  <1> QED BY <1>1, <1>2, SessionInvariance, PTL DEF Spec, ImplementsJobOutcome, Outcome!Spec

=============================================================================
