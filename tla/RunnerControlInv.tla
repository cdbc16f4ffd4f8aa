-------------------------- MODULE RunnerControlInv --------------------------
(***************************************************************************)
(* The inductive invariant behind the safety theorems of RunnerControl.    *)
(* The journal exists twice, in memory and on disk, and a failed write     *)
(* leaves the two apart; the invariant says how far.  LeaseInv and         *)
(* SessionInv build on it: they follow a lease through its versions and    *)
(* its sessions.                                                           *)
(***************************************************************************)
EXTENDS RunnerControl

\* Locations at which the controller works on the job `cur`, and those at which
\* it executes or submits it under its own session.
Working == {"plan", "decide", "start", "mark", "exec", "submit", "abort", "resubmit"}
Owning == Working \ {"plan"}

\* In memory as in the file, a Leased record has never been executed.
LeasedNeverExecuted ==
    \A j \in Jobs :
        mem[j].phase = "Leased" \/ disk[j].phase = "Leased" => runs[j] = 0

\* A job that was executed and has no record is one the Backend settled.
AbsentIsSettled ==
    \A j \in Jobs :
        ~HasRecord(mem[j]) \/ ~HasRecord(disk[j]) =>
            runs[j] = 0 \/ IsTerminal(srv[j])

\* A record that is Running in memory is Running in the file, except between
\* mark_running's failed write and the cleanup of that very job.
RunningIsDurable ==
    \A j \in Jobs :
        mem[j].phase = "Running" /\ ~(pc = "abort" /\ cur = j) =>
            disk[j].phase = "Running"

\* What is about to be executed was never executed, or may be again.
ExecutionIsAllowed ==
    pc \in {"start", "mark"} => runs[cur] = 0 \/ cur \in Idempotent

\* A stale answer of the Backend is still right about a terminal row.
TerminalSnapshot == pc \in Working /\ IsTerminal(rem) => IsTerminal(srv[cur])

\* The controller and its record.
Ownership ==
    /\ pc \in Working => cur \in Jobs /\ cur \notin todo /\ HasRecord(mem[cur])
    /\ pc \in Owning => mem[cur].session = session
    /\ pc \in {"start", "mark"} => mem[cur].phase \in {"Leased", "Running"}
    /\ pc = "exec" => mem[cur].phase = "Running"
    /\ pc \in {"submit", "resubmit"} => mem[cur].phase \in PendingPhases

TodoIsJournaled == \A j \in todo : HasRecord(mem[j])

IInv ==
    /\ TypeOK
    /\ LeasedNeverExecuted
    /\ AbsentIsSettled
    /\ RunningIsDurable
    /\ ExecutionIsAllowed
    /\ TerminalSnapshot
    /\ Ownership
    /\ TodoIsJournaled
    /\ AtMostOnce

-----------------------------------------------------------------------------
(* Leases and their versions *)

\* The answer the controller works from is not ahead of the row.
SnapshotNotAhead == pc \in Working => rem.version <= srv[cur].version

\* There is a worker only while the controller supervises it.
WorkerIsSupervised == worker # "none" => pc = "exec"

\* `later` is what may become of the record `earlier` of a job with row `row`.
Follows(later, earlier, row) ==
    \/ Rank(later.phase) > Rank(earlier.phase)
    \/ later.phase = earlier.phase /\ later.payload = earlier.payload
    \/ ~HasRecord(later) /\ IsTerminal(row)

\* The file lags behind the document in memory, and nothing else.
MemoryFollowsFile == \A j \in Jobs : Follows(mem[j], disk[j], srv[j])

LeaseInv ==
    /\ SnapshotNotAhead
    /\ WorkerIsSupervised
    /\ MemoryFollowsFile
    /\ LeaseNeverAhead

-----------------------------------------------------------------------------
(* Sessions, where the Backend never answers with an earlier one *)

Known == (0..sessions) \cup {NoSession}

SessionsAreKnown ==
    /\ session = IF pc \in {"down", "connect"} THEN NoSession ELSE sessions
    /\ \A j \in Jobs : {srv[j].session, mem[j].session, disk[j].session} \subseteq Known
    /\ \A m \in late : m.session \in Known \ {NoSession}

\* What a new session finds was leased by an earlier one, and no lost request will
\* lease it to the new one unasked.
NewSessionOwnsNothing ==
    /\ pc \in {"down", "connect"} => todo = {}
    /\ \A j \in todo : srv[j].session # session
    /\ pc = "plan" => srv[cur].session # session /\ rem.session # session
    /\ \A m \in late : m.op \in {"lease", "reclaim"} => m.session # session

\* A record of this session is of this session in the file, too.
OwnRecordIsDurable ==
    \A j \in Jobs :
        session # NoSession /\ HasRecord(mem[j]) /\ mem[j].session = session =>
            disk[j].session = session

\* An outcome that is still on its way belongs to the lease it was reached under,
\* and speaks of the last execution as long as that lease stands.
LateOutcomes ==
    \A m \in late : m.op = "settle" =>
        /\ m.version <= srv[m.job].version
        /\ m.version = srv[m.job].version => m.payload.run = runs[m.job]

\* From the lease to the outcome the row is open, and no outcome on its way is of
\* this lease.
LeaseIsFenced ==
    pc \in {"decide", "start", "mark", "exec"} =>
        /\ srv[cur].verdict = NoPayload
        /\ \A m \in late : m.op = "settle" /\ m.job = cur => m.version < rem.version

\* An outcome claims an execution only if there was one.
SoundPayload(payload, n) ==
    /\ payload # NoPayload
    /\ payload.kind \in ExecutionOutcomes => payload.run > 0
    /\ payload.run <= n

OutcomesAreSound ==
    /\ \A j \in Jobs : mem[j].phase \in PendingPhases =>
          SoundPayload(mem[j].payload, runs[j]) /\ mem[j].payload.run = runs[j]
    /\ \A j \in Jobs : disk[j].phase \in PendingPhases =>
          SoundPayload(disk[j].payload, runs[j]) /\ disk[j].payload.run = runs[j]
    /\ \A m \in late : m.op = "settle" => SoundPayload(m.payload, runs[m.job])
    /\ pc = "exec" => runs[cur] > 0
    /\ \A j \in Jobs : ~IsTerminal(srv[j]) => srv[j].verdict = NoPayload

SessionInv ==
    /\ SessionsAreKnown
    /\ NewSessionOwnsNothing
    /\ OwnRecordIsDurable
    /\ LateOutcomes
    /\ LeaseIsFenced
    /\ OutcomesAreSound

=============================================================================
