# Loomex plugin and runner: formal models

TLA+ models, model-checking configurations and machine-checked proofs for the
Rust workspace of the Loomex plugin: the MCP server an agent's host runs
(`crates/loomex-mcp`), the companion and runner daemon (`crates/loomex-cli`),
and the library both build on (`crates/loomex-core`).

    tlc   -config RunnerControl_reuse.cfg MCRunnerControl.tla    # a run
    tlapm RunnerControlProofs.tla                                # the proofs

`PROJECT.json` maps every definition to the lines it stands for, and lists the
runs, the theorems, the hazards of the code and the mutants (a plausible bug for
every checked property, which TLC must find).

Contents: 1 The system. 2 Modules and code. 3 What each run checks. 4 Bounds.
5 Fairness. 6 What is proved. 7 Where code and documents disagree. 8 What is not
modelled. 9 What is left.

## 1. The system

    agent host --stdio--> loomex-mcp --local IPC--> loomex-cli (companion / service)
                                                     |  polls, renews, submits
                                                     v
                       workspace <--capabilities-- jobs <--HTTP--> Backend

| component | state it keeps | operations | what is hard | what makes it correct |
|---|---|---|---|---|
| job recovery journal (`execution.rs`) | a document of job records, in memory and in one file | record_lease, adopt, mark_running, record_succeeded / failed, acknowledge, recovery_action | a write that fails after memory changed; restart from any file | the file never claims less than what was done |
| runner control service (`main.rs` 5400-6480) | the session, the job at work, its worker thread | connect, recover, lease, execute, renew, poll cancellations, submit, clean up | crashes, lost answers, late requests, a lease that ends under the worker | no second execution unless replay-safe; an outcome is of the last execution; no worker without a lease |
| Backend jobs API (external) | a row per job: status, session, lease version | lease, start, renew, reclaim, complete, fail, cancel | requests that arrive late | fencing by session and version |
| runtime guard (`runtime_guard.rs`) | a file with the owner's process id per runner scope | acquire, release, stop a stale service | several file accesses per operation; process ids are reused | one runner core per scope; no crash locks a scope |
| setup transaction (`setup_transaction.rs`, `main.rs` 2048-3050) | a journal with phase and snapshot; config, unit file, version pointers, service | apply, rollback, compensate, recover; direct service and config commands | failures and crashes between effects, also in the compensation | all or nothing; recovery restores the snapshot |
| setup status and advice (`main.rs` 1991-2300, 4386-4790) | none: it reads all the others | setup.status, setup.plan, and the agent that obeys | everything changes between the look and the act | who does as advised ends with a complete installation |
| runtime installation (`runtime_install.rs`) | versions, staging directories, `current` and `previous` | stage, publish, activate, roll back, restore, clean up | two pointers replaced one after the other; no lock of its own; power loss | the pointers name whole versions |
| service installation (`main.rs` 4946-5324, 6895-7144) | unit file, systemd's loaded units, enablement, process | install, uninstall, start, restart, stop, probe | the manager reads units only when told | what runs is what is installed |
| local capabilities (`local_capabilities.rs`) | the files of a workspace, the process tree of a command | read, write, patch, shell, git and others | other processes edit the same files; a failure between two renames; descendants that outlive their parent | nothing of the user's is lost; a read is of one version; a command ends and its result is true |
| approvals (`approval.rs`) | requests, decisions by idempotency key | request, decide, expire, cancel | late, repeated and concurrent decisions | one decision per request, one answer per retry |
| policy (`policy.rs`) | local rules, managed documents and their rollout | merge, decide, publish, roll back | layers that contradict one another; `..` and symlinks | the organization is obeyed; decisions stay below the root |
| runner lifecycle (`lifecycle.rs`) | a state machine, calls in flight, shutdown mode, reconnect attempts | events, register, complete, cancel, shut down | events out of order | a session is authenticated; a cancelled call is silent |
| MCP server and IPC client (`loomex-mcp`) | tasks with permits, an answer channel | read a line, handle it, start the companion, send again | requests and answers that are lost; a full channel; a deadline that passes while the daemon works on | every line answered once, truthfully; a call executed at most once |
| local control server (`local_control.rs`) | endpoint, token, one thread per connection | ping, invoke, wait for a run, start, cancel, respond | threads that share a mutex and a circuit breaker | a long poll holds up nobody; an answer reaches the run that asked |
| login and credentials (`main.rs` 1652-1990, 3335-4384) | configuration, user credential, runner credential, login flows | start and complete a login, bootstrap, choose or create an organization, log out | three files written one by one; commands that are killed | a runner id has its credential; no service starts with a mixed identity |
| workflow runs of the CLI (`main.rs`, `management.rs`) | a run and the human request it waits for | run, respond, idempotency key | a human's answer for a run that has gone on | as for the local control server |
| configuration (`config.rs`) | `config.toml` | load with overlay and migration, set, use, select, save | old files; a crash while saving | a setting stays as asked for |
| logs (`logs.rs`) | the current file and its rotated predecessors | append, rotate, page, inbox, decide, report | two writes per entry, several writers and no lock | a decided approval is not pending; pages skip no entry while the log is not rotated; a report without an error is complete |

How they interact. The host's lines become tasks of the MCP server; a task
connects to the daemon's socket, starts the companion if nobody answers, and
retries once. The daemon answers each connection in a thread. Its service loop
acquires the guard, loads the journal, connects a session and recovers the
journal's records before it leases new work. A job's worker thread checks the
authorization and calls the local capabilities; the controller polls the
Backend every 100 ms for cancellations, renews the lease and, when it is lost,
sets a token the worker's command is killed by. The plugin's `setup`, `auth` and
`org` commands run in other processes, most of them under a file lock; they
write configuration and credentials, and stop, replace and start the service.

The hazards of this code (PROJECT.json, `hazards`) are of six kinds: crashes
between an effect and its record; memory and file that disagree after a failed
write; answers and requests that arrive late; check-then-act on files that
several processes use; a compensation that fails half-way; something shared (a
lock, a permit, a channel) that one waiter may withhold from the others.

## 2. Modules and code

**Runner control.** `RecoveryJournal` translates each operation of
`RunnerJobRecoveryJournal` (execution.rs) as an operator on a record: its guard
(`...Ok`) and its effect, and `recovery_action` as a table. `RunnerBackend` is the
external Backend: a row per job, the requests the client sends and the weakest
conditions under which a server can take them (the session and lease version of
the row). `RunnerControl` composes the two with the daemon. `pc` is the place in
main.rs: the service loop, the recovery pass (`plan`, `decide`), the phases of
`execute_and_finalize_runner_job_inner` (`start`, `mark`, `exec`, `submit`), and its
cleanup (`abort`, `resubmit`). `mem` and `disk` are the journal's document and file:
a journal operation first changes `mem`, then `disk`, and a failed write
leaves `disk`. `worker` is the worker thread. `rem` is the Backend's answer the
controller works from and may be stale. A call that fails leaves its request in
`late`, from where it may arrive at any time or never, which covers a lost request,
a lost answer and a delayed one. `RunnerControlInv` holds the inductive invariant in three layers
(`IInv`, `LeaseInv`, `SessionInv`), `RunnerControlProofs` the theorems.

`JobOutcome` is the promise in the abstract: executions begin, a job gets one
verdict, a verdict about an execution is about the last one, and none begins after
it. `RunnerControl` implements it under the mapping `verdict <- VerdictOf(srv)`.

**Jobs of the runner.** `CapabilityJobs` is the worker of a leased job:
the `gateway` that checks the authorization (envelope, approval, nonces), then a
capability. A read takes a file in steps while others edit or replace it; a command has a
child, a helper of its process group and a daemon that left it, an output with
readers, a deadline and a cancellation `token`. `WorkspaceWrites` has every file access of
`fs.apply_patch` and `fs.write` (and `file.write_many`, which is a sequence of writes):
snapshot of the identity, read, temporary copies, comparison, rename, and the
rollback. Other processes edit, replace or remove files between any two. The clock that
dates directories ticks; `gap` remembers edits after the comparison. An identity is length,
time, device and inode (local_capabilities.rs:3733), so that an edit may leave it as it was, within one
tick of the clock or with the time put back; `blind` remembers those edits.

**Calls and runs.** `PluginCalls` follows a line of the host through reader, permit,
task, connection, companion, answer channel and stdout, and into the daemon's thread, which
works on after its client has given up. `RunClient` has the threads of the daemon that wait
for runs, start, cancel or answer them, the management client with its mutex and
circuit breaker, and `loomex workflow run`, a process of its own.

**Runtime guard.** `RuntimeGuard` has every file access of acquisition, release and
of stopping a stale service as a step: create, write, look, read, judge, unlink.
Processes die at any step and an unrelated one may get the dead one's id
(`reused`). Operations overlap in any way; the code has no lock that orders them. Two
variables record history and no step depends on them: `exposed`, the processes that had
created the file and not filled it while another stood before its unlink, and `crossed`, the
acquisitions between two of whose accesses another process created or removed the file. They
are the exceptions of the guard's two properties, and the first is what `guard_race` (see 7) runs into.

**Setup.** `SetupTransaction` has `machine` (pointers, config, unit file, what
systemd has loaded, enablement, the executable of the running process),
`published` versions, the `journal` and the command at work `cmd`. A command goes
through the opening checks (lock, unfinished journal, snapshot), its steps in the
code's order, and, if one fails, the compensation in its order. Every step may
fail (`StepFails`, `UndoFails`, `JournalFails`), the process may die and the
machine reboot at any step. The next command then finds the journal and
recovers. The flock makes it one command at a time. `SetupOutcome` is the promise: a
transaction changes the installation at once or not at all; the refinement maps the
stable installation (what recovery would lead to). `RuntimeStore` looks into the
runtime directory that `SetupTransaction` takes as one value: staging directories, the
rename that publishes, the two pointers, what a power loss may take back because no
directory was synced for it, and any number of processes. `SetupAdvice` looks from
above: what `setup.status` recommends in each state of the machine (`Advice`), what a plan reviews
and an apply checks again, and an agent that obeys while the plugin is updated, the
service dies, sessions expire and other commands move runtime and unit.

**Identity.** `PluginAuth` has the configuration, the user and the runner credential as
files that commands write one after the other, the login flow with its two commands, the
bootstrap, organizations, sign-out and the commands that start the service. The lifecycle
lock is `lock`; `org.list` takes it only after its credential was refused. A
direct command (`login --api-key`, `org select`) writes without the bootstrap.

**Libraries.** `ApprovalRegistry` (calls with any times in any order), `PolicyEngine` (the merge of
three layers, paths with `..`, the managed document with rollout and version check; `PolicyRules`
has its data), `RunnerLifecycle` (four objects whose methods nothing here orders), `RunnerLogs`
(every access of a file is a step; writers, deciders and readers), `CliConfig` (documents as
functions of sections and keys; overlay, migration, save).

Each `MC...` module names the finite sets a configuration uses. Two of them
compose components that share no state so that one run checks
each in behaviours of its own: the first state picks the component, the
variables of the others stay as they are. `MCJobsAndAdvice` has registry, jobs and advice;
`MCLibraries` has guard, lifecycle, policy, logs, store and configuration. The operators
called *Variant of X* are the mutated forms of X that `PROJECT.json` lists; no specification
uses them.

## 3. What each run checks

| run | module, states | question |
|---|---|---|
| `reuse` | RunnerControl, 1,295,251 | A job that is not replay-safe, three faults anywhere, a Backend that may answer a reconnect with the same session. `AtMostOnce`, `DurableLeasedNeverExecuted` (a Leased record in the file proves that nothing was executed, as recovery presumes), `ControllerOwnsRecord` (no journal operation refuses the job at work half-way), `LeaseNeverAhead`, `DurablePhaseNeverRegresses`. |
| `replay` | RunnerControl, 81,436 | A replay-safe, cancellable job. `ExecutesUnderDurableRecord`, `StartedJobIsJournaled`, `StaleOutcomeIsFenced` (an outcome of an earlier execution that is still on its way cannot settle the job under a later one), the refinement `ImplementsJobOutcome`, and the liveness property `LostLeaseStopsWorker`. |
| `setup` | SetupTransaction, 1,564,120 | All commands, two faults: `CompensationRestores` (a compensation without an error has restored everything), `CompensationNeedsNoLuck` (one none of whose steps fails has no error), `RollbackHasTarget`, and the refinement `SetupIsAtomic`. Here deadlock is checked. |
| `patch` | WorkspaceWrites, 323,124 | A patch or a write of three files, two of them in one directory: `PatchIsReversible` (wherever an unfinished patch stops, old contents are beside the files replaced), `FailedPatchLeavesNothing`, `ReplacesOnlyWhatWasRead` (but for edits that no identity shows and those after the comparison). |
| `auth` | PluginAuth, 1,539,525 | Every command that changes an identity, with two accounts, kills and a direct command: `RunnerIdIsBacked`, `BootstrapIsReady` (what a bootstrap leaves is what readiness asks for), `CommandsStartWholeIdentities`. |
| `calls` | PluginCalls, 486,716 | Three lines against two permits and a channel of one, a daemon or stdout that dies, a sign-out: `ExecutedAtMostOnce` (the second send never repeats an executed call), `AnswersAreTrue` (a success was executed; an unavailable runner did not execute the call), `AnsweredOnce`, and the liveness property `EveryLineIsAnswered`. |
| `runs` | RunClient, 652,964 | Threads that share a client: `PollsBlockNobody` (liveness: a long poll that never ends leaves the others going), `AnswersReachTheirRun` (a human's answer goes to the run that asked, also where the list is stale and other runs are in it, if the Backend names the run of the request). |
| `jobs_advice` | MCJobsAndAdvice, 208,898 | Registry: `OneDecision`, `RetriesAgree`. Jobs: `NonceIsBoundAndSpent` (one gateway takes a nonce once; another takes it again only for the same lease, input, workspace and actor), `ReadsOneVersion`, `CommandResultIsTrue`, and the liveness property `CommandEnds`. Advice: the liveness property `ObeyedAdviceCompletes`. |
| `libraries` | MCLibraries, 1,351,662 | Guard: `HolderKeepsGuard`, `RefusedOnlyByTheLiving` (who is refused found a living owner, or crossed another process). `LifecycleIsGuarded`, `PolicyIsObeyed`, `ReadersSeeTheLog`, `SettingsAreKept`, and `PointersNameWholeVersions` under kills and power losses. |
| `order`, `guard_race`, `patch_own` | | Violations, see 7. |

`CHECK_DEADLOCK FALSE` stands where the system may really come to rest: the daemon is stopped and
not started again, all processes have ended, the call has ended.

## 4. Bounds, and why they are enough

- *One job* in `reuse` and `replay`: the journal's operations look up one record, and
  jobs interact only through the controller's sequence. The theorems have any set of jobs.
- *Lease versions up to 3*: a first lease, the reclaim of a restart and one more, so
  that a request of the first is late under the third. *Sessions up to 2*: one
  reconnect; a third is to the second what the second is to the first.
- *MaxFaults = 3* (`reuse`, `replay`): a failed write, a crash after it and a lost
  answer in one behaviour, the longest chain the hazards name. *2* in `setup` and `auth`:
  a failure and a crash while it is compensated, or two crashes.
- *Guard*: two services, a starter and a stopper: a dead owner, two that find it, and
  someone who stops in between. `guard_race` has three services and two starters.
- *Setup*: two versions, the least with which old, new and a mixture differ. *Store*: two
  versions, two processes: one that installs and one that interferes.
- *Workspace*: three files, so that a rollback has two to undo and one not reached;
  one tick, two edits and two faults.
- *Calls*: three requests, `Permits` = 2 and `Channel` = 1, so that one waits for a
  permit and one for the channel; one fault, since the client sends at most twice; a `Budget` of 1.
- *Runs*: two threads and two runs, so that one is blocked while the other acts and an
  answer has a wrong run to go to; the breaker opens at `Threshold` = 2.
- *Jobs*: two jobs (`MaxJobs`) of those in `MCOffers`: a good one of each class of kinds and one for
  each way an authorization can fail to cover it; `MaxEdits` = 2: one edit between two reads and one
  after, `MaxWrites` = 1 chunk of output per process.
- *Advice*: `MaxDisturbances` = 4, two releases.
- *Policy*: up to two rules (`MaxRules`) and three managed versions; paths that stay below the
  root, leave it, or leave and come back. *Logs*: `MaxBytes` = 4 rotates after two entries,
  three entries, a `Window` of 2 and pages of 1, so that a page ends in the middle of a
  window. *Configuration*: seven documents a user may start with, a
  value of every validity and one with a line break.

The theorems of section 6 hold for all values of these constants.

## 5. Fairness, and why the code justifies it

Safety properties use none. Nothing is assumed of crashes, the network or the Backend.

- `RunnerControl` (`replay`): only what `execute_cancellable_runner_job` does by itself. Its loop
  sleeps 100 ms and never blocks, so it polls cancellations and renews in time, and a
  command whose token is set is killed within one poll interval. `LostLeaseStopsWorker`
  is about the *command*. The worker may outlive it: a background process that keeps
  the command's stdout open blocks the reader, which is joined without a look at token
  or timeout (local_capabilities.rs:545), and a dropped worker is joined without a
  bound (main.rs:6476). The model has those states (`draining`, `stuck`).
- `PluginCalls` (`calls`): weak fairness of the server's own loop, its writer and each task; every
  call to the daemon has a deadline, so that a task goes on whatever the daemon does. No fairness of
  the daemon, and none of the host, which may write as little as it likes.
- `RunClient` (`runs`): strong fairness of taking the mutex (it is held briefly and released over
  and over), weak fairness of a thread's own steps and of exchanges, which a
  request timeout ends, *except* long polls.
- `CapabilityJobs` (`jobs_advice`): weak fairness of the worker's steps, of its reading the output and
  of the deadline. `CommandEnds` excepts what section 7 names: a descendant that holds the output.
- `SetupAdvice` (`jobs_advice`): weak fairness of the agent and of the Backend coming back.

## 6. What is proved

`tlapm` checks all of it, for arbitrary constants that satisfy the named assumptions
(`ConstantsAssumption`, `WriteAssumption` and the like: natural numbers, disjoint sets, null values
apart). Some say more: `PayloadAssumption`, that no outcome is the mark for none;
`ApprovalAssumption`, that the Backend issues a nonce for one approval, with all that it binds;
`NamesAssumption`, that the ids of runs are not the marks for none and for gone; `InputsAssumption`,
that a resolved path comes with the requested one, as both are set together (main.rs:7878);
`SettingsAssumption`, that keys are those `set_profile_key` takes and a document has only keys that
are set; `LogsAssumption`, that a reader keeps and a page shows one entry at least (logs.rs:241,
main.rs:2004) and that a command that decides is not a service. Each proof has the same shape: an
inductive invariant, one lemma per part of it, one step per action, and a last temporal step.
`MCLibraries` composes parts that share nothing; `StepsAreOfTheirPart` and the six lemmas after it
show that `LibrariesSpec` implements the specification of each, so that what is proved of a part
alone holds of the composition that the run checks.

| module | theorem | statement |
|---|---|---|
| RunnerControlProofs | `Invariance`, `TypeCorrect` | `Spec => []IInv`, `Spec => []TypeOK` |
| | `ExecutedAtMostOnce` | a job that is not replay-safe is executed at most once |
| | `LeasedRecordIsFresh` | a Leased record in the file proves no execution began |
| | `NoExecutedJobIsForgotten` | an executed, unsettled job has a record in the file |
| | `JournalNeverRefuses` | the controller owns the record it works on |
| | `LeaseInvariance`, `JournalIsNotAhead` | neither the journal nor the answer at hand claims a newer lease than the Backend granted |
| | `RecordsOnlyMoveOn` | in the file a record only moves on (an action property) |
| | `SessionInvariance`, `ExecutionIsJournaled`, `StaleOutcomeCannotSettle` | if `~ReuseSession`: a command runs under a Running record of its session; no outcome of an earlier execution can settle the job |
| | `RunnerImplementsOutcome` | if `~ReuseSession`: the refinement of `JobOutcome` |
| SetupTransactionProofs | `Invariance`, `TypeCorrect` | of the installation, journal and command |
| | `CompensatedIsRestored`, `RecoveryNeedsNoLuck` | for any versions and any number of faults |
| | `WholeInvariance`, `RollbackCanGoBack` | the pointers name published versions, and two different ones |
| | `SetupImplementsOutcome` | the refinement of `SetupOutcome` |
| PluginCallsProofs | `Invariance` | for any lines, permits, faults, channel and budget |
| | `CallsAreExecutedOnce`, `HostIsToldTheTruth`, `RequestsAreAnsweredOnce` | the safety properties of `calls` |
| WorkspaceWritesProofs | `Invariance` | for any number of files, directories, edits and faults |
| | `PatchCanBeReversed`, `FailureLeavesNothing`, `ReplacesWhatWasRead` | the properties of `patch` |
| PluginAuthProofs | `AuthTypeCorrect` | of the files, the flow and the command |
| | `RunnerIdAlwaysBacked`, `BootstrapSuffices`, `ControlStartsWhole` | the properties of `auth`, for any accounts, organizations and number of faults |
| JobsAndAdviceProofs | `RegistryInvariance`, `RequestDecidedOnce`, `RetriesAlwaysAgree` | for any users, requests, keys and times |
| | `JobsInvariance`, `NoncesAreBoundAndSpent`, `ReadsAreOfOneVersion`, `CommandResultsAreTrue` | the safety properties of the jobs, for any leases, nonces, files and outputs |
| RunClientProofs | `AnswerInvariance`, `AnswersAlwaysReachTheirRun` | the action property of `runs`, for any threads, runs and questions, named or not |
| LibrariesProofs | `GuardInvariance`, `HolderKeepsItsGuard`, `OneCorePerScope`, `OnlyTheLivingRefuse` | for any number of processes and overlapping operations: a core that was not exposed keeps its file, of two cores one was exposed, and only the living, or a process that crossed, refuse (an action property) |
| | `StoreInvariance`, `PointersAlwaysName` | pointers name whole versions, for any processes and versions, kills and power losses |
| | `LifecycleInvariance`, `LifecycleStaysGuarded` | for any events in any order |
| | `OrganizationsAreObeyed` | for any layers, inputs, root and documents, with paths of any length |
| | `ConfigInvariance`, `SettingsAreAlwaysKept` | for any processes, files and settings, until a blank name or a line break is saved |
| | `LogsInvariance`, `ReadersAlwaysSeeTheLog` | for any writers, commands, approvals, sizes, windows and page limits; of pages only while nothing is rotated, made unreadable or pushed out of the window, of decisions in an inbox that can be read |

Why the invariants need strengthening:

- `AtMostOnce` says nothing of what is about to happen. Recovery executes a record it
  finds Leased without asking for replay safety, so Leased, in memory *and* in the file, must
  mean *never executed*; a failed write can leave an older file, so that memory
  being Running must mean that the file is, except for one job between that write
  and its cleanup (`RunningIsDurable`); and a record may be dropped only when the row is
  terminal, on the word of an answer that may be stale (`TerminalSnapshot`).
- `LeaseNeverAhead` compares the journal and the answer at hand with the Backend's row, and what is
  written is the lease of that answer, which may be stale. `LeaseInv` says besides that what the
  file lacks of the memory is one write of the controller, and that no worker runs without a
  controller that waits for it.
- `StaleOutcomeIsFenced` is about requests in flight, which nothing recalls. `SessionInv`
  says of each how its session and lease compare with those of the row and of the record:
  an outcome on its way is of a session that has ended, or of the controller's own
  last step. That a session ends needs a Backend that does not hand it out again. With
  `ReuseSession` TLC finds `ExecutesUnderDurableRecord`, `StaleOutcomeIsFenced` and
  `ImplementsJobOutcome` violated, so that `~ReuseSession` is a hypothesis of the theorems about them and
  of no other; `replay` checks them under the same one.
- A compensation is restarted from anywhere. `Restored` says which parts of the snapshot are
  back at each step if no error was noted, `SnapshotFits` and `StepFits` what
  journal and place in the code say of one another.
- `SetupIsAtomic` and `RollbackHasTarget` speak of the installation that the next command will
  find, which is the snapshot in the journal until it is committed and the machine from then on. `WholeInv`
  says how far the machine may have come from the snapshot at each step: which pointer has
  moved to which version (`Pointers`), what of configuration and unit file is new (`Saved`), which
  executable the service runs (`Served`), and that nothing has where no journal is open. Then the
  commit is one step of `SetupOutcome`, and every other step a stutter or a direct command.
- That a call is executed once is about two sends of it, two threads of the daemon and one task.
  `IInv` of `PluginCalls` has a table of what task, connection and executions can be together
  (`Lifecycle`); a second send is in it only where the first was not executed and never will
  be. `Lines` says which lines have a task, and `Queue` where the answer of a finished task is: in
  the channel, written, or lost with stdout.
- A rollback relies on copies made long before. `PatchFits` says for each place in
  the code which files can hold new content and which copies are there;
  `SameIsRead`, that a file whose identity did not change holds what was read, or was edited blind.
- What a command of `PluginAuth` is about to write was read before the step at which it
  is at; the invariant says for each place what of it still holds, which it does because of the lock.
- `OneDecision` of the registry is about the whole audit; the invariant ties each
  entry of it to the state of its request, and each recorded answer to its entry.
- A pointer of `RuntimeStore` may fall back on any version it named since the last flush. The
  invariant says that all of these are whole and synced, or known to have been hurried; and,
  for each step of a process, what it has checked of the version it is about to link.
- `NonceIsBoundAndSpent` compares all authorizations there ever were. `GrantsInv` says that each is of
  a job and of a gateway not later than the present ones, bound as the offer it came with, and that the
  present gateway still has the nonces it took; `JobsInv`, what a worker has read, started or
  collected at each step.
- An answer to a run's question is sent by a thread that read a list which may be stale. `AnswerInv`
  says that a question keeps its run until it is answered and is never asked by another.
- A session exists only after an authentication that was not undone: `LifecycleInv` says in which
  states of the machine a token is kept, and which calls may still emit.
- `CurrentRunnersHaveTheRules` compares the snapshot with the history. `PolicyInv` says that a
  snapshot is the document in force or an older version than it. That paths stay inside the root is
  about `Normalize`, a fold over parts: `Balanced` says, after each part, that as many parts are
  left as names went down and dots did not come back from.
- `SettingsAreKept` is preserved by a save if writing and parsing again loses nothing (`RoundTrip`, with the
  exceptions the property names) and if changing what was read back is the same as
  changing what was meant (`ChangeReadBack`); `ConfigInv` says that a command at work has
  the lock and changed what the file still says.
- `DecidedIsNotPending` needs more than a decision in the log: it must be in the file that has the
  request, or in a later one, and after it. `DecisionsFollow` keeps that through rotations while the command
  runs, because the request was read in the last file and a command opens that or a later one;
  `RequestsAreOne` says that no second request is on its way. `PagingSkipsNothing` holds an offset
  against entries that move: `Shown` says that what of the first page is younger than the offset was
  seen, which a new entry cannot break, as it only makes the others older (`LaterGrows`).

Induction over data, which the paths need, is done without the library's induction theorems:
`LeastNatural` takes the least element of a set of naturals from the well-foundedness of `<`, and
`Induction` concludes that a set with 0 that is closed under successor has them all.

Model-checked only: the liveness properties `LostLeaseStopsWorker`, `EveryLineIsAnswered`,
`PollsBlockNobody`, `CommandEnds` and `ObeyedAdviceCompletes`, because fairness and ENABLED are out
of the prover's reach, and what fails on purpose (`order`, `guard_race`, `patch_own`). Every safety
property that a passing run checks is proved. No specification uses a recursive operator.

## 7. Where code and documents disagree

Three disagreements have a run, with the lines quoted in `PROJECT.json`, `findings`:

1. `order`: the journal's documentation has the outcome saved before the terminal
   request. When that write fails, the cleanup submits the outcome of the
   document in memory, which is in no file.
2. `guard_race`: the guard file is created and filled in two steps, and an empty file
   counts as stale; a second process unlinks it and both hold the scope. `HolderKeepsGuard`
   and the theorems say that this window is the only way a core loses its file.
3. `patch_own`: temporary files are created in the directory whose modification time is
   then compared with the one recorded before. A patch or write succeeds
   only when all of it falls into one tick of the file system's clock.

The models state others as definitions that no run checks, because they would be violated:

- `RunnerControl!WaitEndsInRecovery`: *wait for lease expiry* is a `continue` in a pass that runs
  once per session (main.rs:5924, execution.rs:90). A saved outcome stays unsubmitted as
  long as the session lives.
- `SetupTransaction!UpdatedServiceRunsUpdate`, `ServiceIsLeftAlone`: an update can commit while the old
  executable runs on and answers the health check (main.rs:7005, README.md of the
  plugin 148-150); an apply that was to leave the service alone stops and restarts it
  when it fails (main.rs:2798).
- `PluginAuth!SignedOutServiceIsStopped`, `LoginInheritsNoOrganization`, `RecoveryDeletesTheRefused`: a
  sign-out between the death and the restart of the service leaves it enabled
  (main.rs:3993); a login keeps the organization chosen before; `org.list`, refused with one
  credential, deletes the one a login has written since (main.rs:1664).
- `CapabilityJobs!AuthorizationIsSpentOnce`: the nonces are said to be kept for the session, "so a
  replay in the same process cannot execute a second time" (policy.rs:43-45); the gateway is made
  anew for each job (main.rs:6509), so that the next job may be executed with the authorization of
  the last. `NonceIsBoundAndSpent` says what a nonce does prevent.
- `PluginCalls!InputEndsServer`: when stdout breaks, the server still reads on to the end of its input.
- `RunClient!RereadHidesTheFailure`: a wait reads the run again when its poll fails, but the
  breaker, asked only after the request was answered (management.rs:2923), can turn
  that answer into a failure.

What the models show besides, without a document that says otherwise:

- *Calls*: a tool call may take three times its deadline; a call that timed out goes on in the
  daemon though it is reported as retryable; an answer that exhausts the budget carries
  no id; an `org.create` whose first command was killed after it created, and whose second,
  `org.create.recover`, cannot be started (ipc.rs:274-278, 327, 346), is reported as an unavailable
  runner. `AnswersAreTrue` excepts it.
- *Runs*: `MANAGEMENT_CIRCUIT_OPEN` may be reported for a call that took effect; the idempotency key
  of the CLI contains its process id and the time, so that the command repeated starts a second run;
  a human request that names no run is taken for the command's own (`is_none_or`, main.rs:1291), so
  that only the Backend's filter keeps its answer from another run. `AnswersReachTheirRun` excepts
  it.
- *Identity*: `org.select` and a failed revoke leave a runner credential nobody can revoke any
  more; `org.create` and the recovery leave the running service as it is.
- *Jobs*: git has no deadline, and git and HTTP ignore a cancellation; `file.write_many`
  stops at the first failure with the files before it written; an approval does not name the capability;
  a command whose child ended and left a process that holds its output does not end before that
  process does, whatever deadline and token say (local_capabilities.rs:545).
- *Files*: an edit in place that leaves length and modification time as they were is not seen, neither
  by a read, which then joins two versions, nor by a write or patch, which replaces it
  (local_capabilities.rs:3733).
- *Registry*: a late decision under a new key turns an approved request to Expired (approval.rs:322).
- *Advice*: with an expired user session and a ready runner, and with a release that reuses a
  version number for another image, the agent is advised the same action for ever;
  `ObeyedAdviceCompletes` excepts both.
- *Lifecycle*: a disconnect while Connecting or Paused is refused; `graceful_shutdown` after
  `emergency_stop` puts the graceful mode back (lifecycle.rs:469).
- *Setup*: a rollback asks for readiness twice. When the second answer is no, the service is left as it
  is, with the runtime of before, and the rollback is committed as checked (main.rs:3049, 4338).
- *Store*: an install killed between rename and sync is taken up by the next without a sync, and a power
  loss may then leave `current` at nothing; `clean_staging` of another process can make an
  install publish an incomplete version, which can never be installed again.
- *Logs*: two concurrent decisions are both recorded; two writers that rotate can delete the file
  just rotated, and a writer whose rename comes second loses its entry; a line torn by a kill makes
  strict readers return an error.
- *Configuration*: `config set profiles..serverUrl` writes a profile without a name that the parser
  refuses, after which no command can load the file (config.rs:388); clearing the built-in host header does
  not last; `config set` takes a value or a profile name with a line break and writes it as it is, and
  what follows cannot be parsed or says something else (config.rs:464-470). `SettingsAreKept` excepts
  the three. Nothing is synced, so that a power loss may leave an empty file, which reads as the defaults.

## 8. What is not modelled

In the modelled parts: job events, idle heartbeats beyond their failure, the backoff's
delays and `--once` (runner control); launchd, `--output`, `--dry-run` and the text of
units (service installation; systemd is modelled); path resolution, create_dir_all,
permissions and failures to remove a temporary copy, which the code ignores (workspace
writes: a copy may then stay); what git, HTTP, browser, database and container jobs do
outside the process (one step with any result), downloads and search; the schemas and the
formatting of the tools (MCP server); transport and serialisation (management client);
keychain and fallback file are one store, and a profile is one (credentials);
redaction, follow and the support bundle (logs); overrides (configuration).
`SetupIsAtomic` does not speak of enablement: a failed stop ends the quiesce commands
before the disable (main.rs:2909), and the enablement can outlive the unit file.

Not modelled at all: the guide pack (static text), release validation, readiness and
acceptance reports and protocol constants (functions without state, each a list
of checks), device keys and security helpers (cryptography), packaging scripts, skills
and widgets (not part of the running system).

## 9. What is left

Of the code, launchd, `logs follow` and the keychain beside its fallback file would come next.
