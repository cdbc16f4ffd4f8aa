-------------------------- MODULE SetupTransaction --------------------------
(***************************************************************************)
(* The commands that change an installation of the runner                  *)
(* (loomex-cli/main.rs): setup.apply and setup.rollback run under a        *)
(* journal (setup_transaction.rs) that holds a snapshot of the             *)
(* installation, and put the snapshot back when a step fails or when the   *)
(* next command finds the journal of one that was interrupted; the direct  *)
(* commands are refused while there is such a journal.  One lock file      *)
(* serialises them, so one command at most runs.  Every file operation and *)
(* every call of the service manager is a step of its own.                 *)
(*                                                                         *)
(* The service manager is systemd, as the code uses it: it starts the unit *)
(* it has loaded, and reads the unit file again when it is told to reload. *)
(***************************************************************************)
EXTENDS Naturals

CONSTANTS
    Versions,   \* the runtime versions
    None,       \* no version, no file, no running service, no journal
    MaxFaults   \* bound: steps that fail, crashes and reboots

ASSUME SetupAssumption ==
    /\ None \notin Versions
    /\ None \notin {"bundle", "foreign", "default", "edited"}
    /\ MaxFaults \in Nat

VARIABLES
    machine,    \* runtime pointers, config, unit file and state of the service
    published,  \* the versions in the versions directory
    journal,    \* .setup-transaction.json
    cmd,        \* the command that holds the lock
    faults      \* steps that failed, crashes and reboots so far

vars == <<machine, published, journal, cmd, faults>>

Units == {"bundle", "foreign"}      \* names the stable executable, or another one
Configs == {"default", "edited"}
Images == [unit : Units \cup {None}, runtime : Versions \cup {None}]
Phases == {"Prepared", "RuntimeActivated", "ConfigSaved", "ServiceRegistered",
           "ServiceStarted", "HealthChecked", "Committed", "Compensated"}
Transactions == {"apply", "rollback"}
DirectCommands == {"install", "uninstall", "start", "restart", "stop", "config"}

NoCommand == [op |-> "none", pc |-> "idle", target |-> None, service |-> FALSE,
              ready |-> FALSE, recovering |-> FALSE, errors |-> FALSE, faulted |-> FALSE]

ForwardSteps == {"check", "stop", "publish", "activate", "link", "activated", "config",
                 "saved", "write", "reload", "enable", "launch", "registered",
                 "started", "control", "health", "checked"}
UndoSteps == {"undoStop", "undoDisable", "undoCurrent", "undoPrevious", "undoConfig",
              "undoUnit", "undoReload", "undoEnable", "undoLaunch", "undoVerify"}
DirectSteps == {"disable", "forget", "remove", "edit"}
FinalSteps == {"recover", "begin", "commit", "compensated", "clear", "fence"}

Snapshots == [current : Versions \cup {None}, previous : Versions \cup {None},
              config : Configs \cup {None}, unit : Units \cup {None},
              enabled : BOOLEAN, active : BOOLEAN]

Machines == [current : Versions \cup {None}, previous : Versions \cup {None},
             config : Configs \cup {None}, unit : Units \cup {None},
             loaded : Units \cup {None},    \* the unit the service manager knows
             enabled : BOOLEAN,
             image : Images \cup {None}]    \* what the active service runs

Records == [operation : Transactions, phase : Phases, before : Snapshots]
Journals == {None} \cup Records

ASSUME NoneAssumption == None \notin Images /\ None \notin Records

Commands == [op : {"none"} \cup Transactions \cup DirectCommands,
             pc : {"idle"} \cup ForwardSteps \cup UndoSteps \cup DirectSteps \cup FinalSteps,
             target : Versions \cup {None},  \* the version to activate
             service : BOOLEAN,             \* installService
             ready : BOOLEAN,               \* the service may be started
             recovering : BOOLEAN,          \* it compensates an interrupted transaction
             errors : BOOLEAN,              \* of the compensation
             faulted : BOOLEAN]             \* a step of the compensation failed

TypeOK ==
    /\ machine \in Machines
    /\ published \subseteq Versions
    /\ journal \in Journals
    /\ cmd \in Commands
    /\ faults \in 0..MaxFaults

Init ==
    /\ machine = [current |-> None, previous |-> None, config |-> None, unit |-> None,
                  loaded |-> None, enabled |-> FALSE, image |-> None]
    /\ published = {} /\ journal = None /\ cmd = NoCommand /\ faults = 0

-----------------------------------------------------------------------------
(* The service manager and the snapshot.                                   *)

Active(m) == m.image # None

\* is-enabled: a unit without a file is not found.
Enabled(m) == m.enabled /\ m.unit # None

Installed(m) == m.unit # None \/ Active(m) \/ Enabled(m)

\* What runs after a start: the loaded unit, and with it the current runtime
\* when the unit names the stable executable.
Image(m) == [unit |-> m.loaded,
             runtime |-> IF m.loaded = "bundle" THEN m.current ELSE None]

Stop(m) == [m EXCEPT !.image = None]
Reload(m) == [m EXCEPT !.loaded = m.unit]
SetEnabled(m, on) == [m EXCEPT !.enabled = on, !.loaded = m.unit]
\* A service that is active already is not started again.
Launch(m) == IF Active(m) THEN m ELSE [m EXCEPT !.image = Image(m)]
Restart(m) == [m EXCEPT !.image = Image(m)]

\* The state of the service as the strict probe reports it, and the files.
Snapshot(m) == [current |-> m.current, previous |-> m.previous, config |-> m.config,
                unit |-> m.unit, enabled |-> Enabled(m), active |-> Active(m)]

SnapshotInstalled(s) == s.unit # None \/ s.active \/ s.enabled

Finished == {"Committed", "Compensated"}
Unfinished == journal # None /\ journal.phase \notin Finished

-----------------------------------------------------------------------------
(* Commands and their steps.                                               *)

Goto(pc) == cmd' = [cmd EXCEPT !.pc = pc]
End == cmd' = NoCommand

Fault == faults < MaxFaults /\ faults' = faults + 1

\* A step that changes the machine and leaves the journal.
Step(from, m, next) ==
    /\ cmd.pc = from
    /\ machine' = m
    /\ Goto(next)
    /\ UNCHANGED <<published, journal, faults>>

\* update_phase: the journal is replaced as a whole.
Phase(from, phase, next) ==
    /\ cmd.pc = from
    /\ journal' = [journal EXCEPT !.phase = phase]
    /\ Goto(next)
    /\ UNCHANGED <<machine, published, faults>>

\* A command takes the lock.  A transaction first recovers one that was
\* interrupted; the others are fenced.
Begin(op, target, service, ready) ==
    /\ cmd = NoCommand
    /\ cmd' = [NoCommand EXCEPT !.op = op, !.target = target, !.service = service,
                                !.ready = ready,
                                !.pc = IF op \in Transactions THEN "recover" ELSE "fence"]
    /\ UNCHANGED <<machine, published, journal, faults>>

BeginApply == \E v \in Versions, service, ready \in BOOLEAN : Begin("apply", v, service, ready)
\* To a version the caller names, or to the previous one.
BeginRollback ==
    \E v \in Versions \cup {None}, ready \in BOOLEAN : Begin("rollback", v, FALSE, ready)
BeginDirect == \E op \in DirectCommands : Begin(op, None, FALSE, op \in {"start", "restart"})

FirstStep(op) == CASE op = "install" -> "write"
                   [] op \in {"uninstall", "stop"} -> "stop"
                   [] op \in {"start", "restart"} -> "control"
                   [] op = "config" -> "edit"

\* Variant of RejectUnfinished: only a transaction that changed nothing is over.
RejectPreparedOnly ==
    /\ cmd.pc = "fence"
    /\ IF journal # None /\ journal.phase = "Prepared" THEN End /\ UNCHANGED journal
       ELSE Goto(FirstStep(cmd.op)) /\ journal' = None
    /\ UNCHANGED <<machine, published, faults>>

\* plugin_reject_unfinished_setup_transaction; a finished journal is cleared.
RejectUnfinished ==
    /\ cmd.pc = "fence"
    /\ IF Unfinished THEN End /\ UNCHANGED journal
       ELSE Goto(FirstStep(cmd.op)) /\ journal' = None
    /\ UNCHANGED <<machine, published, faults>>

\* plugin_recover_interrupted_setup
RecoverInterrupted ==
    /\ cmd.pc = "recover"
    /\ IF Unfinished
       THEN /\ cmd' = [cmd EXCEPT !.pc = "undoStop", !.recovering = TRUE]
            /\ UNCHANGED journal
       ELSE Goto("begin") /\ journal' = None
    /\ UNCHANGED <<machine, published, faults>>

\* plugin_begin_setup_transaction: a service without a unit file is inconsistent.
BeginTransaction ==
    /\ cmd.pc = "begin"
    /\ IF Installed(machine) /\ machine.unit = None
       THEN End /\ UNCHANGED journal
       ELSE /\ journal' = [operation |-> cmd.op, phase |-> "Prepared",
                           before |-> Snapshot(machine)]
            /\ Goto("check")
    /\ UNCHANGED <<machine, published, faults>>

-----------------------------------------------------------------------------
(* plugin_setup_apply_transaction and plugin_setup_rollback_transaction,   *)
(* and the direct commands, which share steps with them.                   *)

\* The operation fails without a fault: what it changed is to be compensated.
Refuse ==
    /\ cmd' = [cmd EXCEPT !.pc = "undoStop"]
    /\ UNCHANGED <<machine, published, journal, faults>>

\* PLUGIN_SETUP_PLAN_STALE
PlanIsStale == cmd.pc = "check" /\ cmd.op = "apply" /\ Refuse

\* A service that is active and not ready to run again is stopped until it is.
Check ==
    /\ cmd.pc = "check"
    /\ LET ready == cmd.ready /\ (cmd.op = "rollback" => Installed(machine))
           stop == Active(machine) /\ ~ready /\ (cmd.op = "apply" => cmd.service)
       IN cmd' = [cmd EXCEPT !.ready = ready,
                             !.pc = IF stop THEN "stop"
                                    ELSE IF cmd.op = "apply" THEN "publish" ELSE "activate"]
    /\ UNCHANGED <<machine, published, journal, faults>>

StopService ==
    /\ cmd.pc = "stop"
    /\ machine' = Stop(machine)
    /\ CASE cmd.op = "apply" -> Goto("publish")
         [] cmd.op = "rollback" -> Goto("activate")
         [] cmd.op = "uninstall" -> Goto("disable")
         [] cmd.op = "stop" -> End
    /\ UNCHANGED <<published, journal, faults>>

\* install_preverified: the version directory is published before it is activated.
Publish ==
    /\ cmd.pc = "publish"
    /\ published' = published \cup {cmd.target}
    /\ Goto("activate")
    /\ UNCHANGED <<machine, journal, faults>>

\* rollback_to and rollback_to_previous
Target == IF cmd.target = None THEN machine.previous ELSE cmd.target

\* RUNTIME_ROLLBACK_UNAVAILABLE, or a version that is not installed.
TargetMissing == cmd.pc = "activate" /\ Target \notin published /\ Refuse

\* RuntimeInstaller::activate replaces the pointer to the active version, then the
\* one to the previous version.
Activate ==
    /\ Target \in published
    /\ LET replaced == machine.current # Target
       IN Step("activate", [machine EXCEPT !.current = Target],
               IF replaced /\ machine.current # None THEN "link" ELSE "activated")

LinkPrevious ==
    Step("link", [machine EXCEPT !.previous = journal.before.current], "activated")

\* The pointer to the previous version cannot be replaced: the old one becomes
\* active again, or does not.
LinkFails ==
    /\ cmd.pc = "link"
    /\ Fault
    /\ \E v \in {machine.current, journal.before.current} :
           machine' = [machine EXCEPT !.current = v]
    /\ Goto("undoStop")
    /\ UNCHANGED <<published, journal>>

RuntimeActivated ==
    Phase("activated", "RuntimeActivated",
          IF cmd.op = "apply" THEN "config" ELSE IF cmd.ready THEN "control" ELSE "commit")

SaveConfig ==
    Step("config", [machine EXCEPT !.config = IF @ = None THEN "default" ELSE @], "saved")

\* plugin_setup_service_disposition: preserve, activate the existing one, install.
ConfigSaved ==
    Phase("saved", "ConfigSaved",
          IF ~cmd.service THEN "commit"
          ELSE IF machine.unit # "bundle" THEN "write"
          ELSE IF cmd.ready THEN "control" ELSE "commit")

\* run_runner_service_install: with --defer-start the unit is only written and
\* loaded.  The direct command names the executable it is itself.
WriteUnit ==
    \E u \in IF cmd.op # "install" THEN {"bundle"}
             ELSE IF machine.current = None THEN {"foreign"} ELSE Units :
        Step("write", [machine EXCEPT !.unit = u], "reload")

ReloadUnits ==
    Step("reload", Reload(machine),
         IF cmd.op = "apply" /\ ~cmd.ready THEN "registered" ELSE "enable")

\* enable --now: one call, and enabled even if the start fails.
Enable == machine.unit # None /\ Step("enable", SetEnabled(machine, TRUE), "launch")

\* A unit that has no file cannot be enabled.
NothingToEnable ==
    /\ cmd.pc = "enable"
    /\ machine.unit = None
    /\ IF cmd.op \in Transactions THEN Goto("undoStop") ELSE End
    /\ UNCHANGED <<machine, published, journal, faults>>

LaunchService ==
    /\ cmd.pc = "launch"
    /\ machine' = Launch(machine)
    /\ CASE cmd.op = "install" -> End
         [] cmd.op = "apply" /\ journal.before.unit # "bundle" -> Goto("registered")
         [] OTHER -> Goto("health")
    /\ UNCHANGED <<published, journal, faults>>

ServiceRegistered ==
    Phase("registered", "ServiceRegistered", IF cmd.ready THEN "started" ELSE "commit")

ServiceStarted == Phase("started", "ServiceStarted", "health")

\* plugin_runner_control: restart, or enable --now.  A transaction restarts a
\* service that is active.
ControlService ==
    IF Active(machine) /\ cmd.op # "start"
    THEN Step("control", Restart(machine), "health")
    ELSE Step("control", machine, "enable")

\* plugin_activate_installed_service_after_bootstrap: a rollback asks for readiness once
\* more.  Where the Backend does not confirm it now, the service is left as it is, and
\* the rollback goes on as if its health had been checked.
ActivationWaits ==
    /\ cmd.pc = "control" /\ cmd.op = "rollback"
    /\ Goto("checked")
    /\ UNCHANGED <<machine, published, journal, faults>>

\* plugin_wait_for_local_control_health; a service that does not answer is a fault.
HealthWait ==
    /\ cmd.pc = "health"
    /\ IF cmd.op \in Transactions THEN Goto("checked") ELSE End
    /\ UNCHANGED <<machine, published, journal, faults>>

HealthChecked == Phase("checked", "HealthChecked", "commit")

Commit == Phase("commit", "Committed", "clear")

\* runner service uninstall
DisableService == Step("disable", SetEnabled(machine, FALSE), "forget")
ForgetUnit == Step("forget", Reload(machine), "remove")
RemoveUnit ==
    /\ cmd.pc = "remove"
    /\ machine' = [machine EXCEPT !.unit = None]
    /\ End
    /\ UNCHANGED <<published, journal, faults>>

\* A command that saves the config: config set, login, org select.
EditConfig ==
    /\ cmd.pc = "edit"
    /\ machine' = [machine EXCEPT !.config = "edited"]
    /\ End
    /\ UNCHANGED <<published, journal, faults>>

\* Any step of the operation fails before it changed anything.
StepFails ==
    /\ cmd.pc \in (ForwardSteps \cup DirectSteps) \ {"link"}
    /\ Fault
    /\ IF cmd.op \in Transactions THEN Goto("undoStop") ELSE End
    /\ UNCHANGED <<machine, published, journal>>

-----------------------------------------------------------------------------
(* plugin_compensate_setup_transaction: every step is tried, whatever      *)
(* failed before it.                                                       *)

NextUndo == [undoStop     |-> "undoDisable",
             undoDisable  |-> "undoCurrent",
             undoCurrent  |-> "undoPrevious",
             undoPrevious |-> "undoConfig",
             undoConfig   |-> "undoUnit",
             undoUnit     |-> "undoReload",
             undoReload   |-> "undoEnable",
             undoEnable   |-> "undoLaunch",
             undoLaunch   |-> "undoVerify"]

Undo(from, m) == Step(from, m, NextUndo[from])

\* What runs is stopped and disabled first.
UndoStop == Undo("undoStop", Stop(machine))
UndoDisable ==
    Undo("undoDisable", IF Enabled(machine) THEN SetEnabled(machine, FALSE) ELSE machine)

UndoCurrent == Undo("undoCurrent", [machine EXCEPT !.current = journal.before.current])

\* Variant of UndoPrevious: the pointer for a rollback stays as it is.
UndoPreviousKeeps == Undo("undoPrevious", machine)

UndoPrevious == Undo("undoPrevious", [machine EXCEPT !.previous = journal.before.previous])

UndoConfig == Undo("undoConfig", [machine EXCEPT !.config = journal.before.config])
UndoUnit == Undo("undoUnit", [machine EXCEPT !.unit = journal.before.unit])

UndoReload == Undo("undoReload", Reload(machine))

\* Variant of UndoEnable: the enablement is not restored.
UndoEnableNothing == Undo("undoEnable", machine)

\* A unit that was not installed stays disabled.
UndoEnable ==
    Undo("undoEnable", IF SnapshotInstalled(journal.before)
                       THEN SetEnabled(machine, journal.before.enabled) ELSE machine)

UndoLaunch ==
    Undo("undoLaunch", IF journal.before.active THEN Launch(machine) ELSE machine)

\* Whether a step of the compensation calls anything that can fail.
UndoCalls ==
    CASE cmd.pc = "undoStop" -> Active(machine)
      [] cmd.pc = "undoDisable" -> Enabled(machine)
      [] cmd.pc = "undoEnable" -> SnapshotInstalled(journal.before)
      [] cmd.pc = "undoLaunch" -> journal.before.active
      [] OTHER -> TRUE

\* Variant of UndoFails: the failed step is not noted.
UndoFailsUnnoted ==
    /\ cmd.pc \in DOMAIN NextUndo
    /\ UndoCalls
    /\ Fault
    /\ cmd' = [cmd EXCEPT !.faulted = TRUE,
                          !.pc = IF @ = "undoStop" THEN "undoCurrent" ELSE NextUndo[@]]
    /\ UNCHANGED <<machine, published, journal>>

\* A failed step is noted, and the next is tried; a service that cannot be stopped
\* is not disabled either.
UndoFails ==
    /\ cmd.pc \in DOMAIN NextUndo
    /\ UndoCalls
    /\ Fault
    /\ cmd' = [cmd EXCEPT !.errors = TRUE, !.faulted = TRUE,
                          !.pc = IF @ = "undoStop" THEN "undoCurrent" ELSE NextUndo[@]]
    /\ UNCHANGED <<machine, published, journal>>

\* The service cannot be probed: nothing is compensated.
ProbeFails == cmd.pc = "undoStop" /\ Fault /\ End /\ UNCHANGED <<machine, published, journal>>

\* The probe reports the service as it was before, or that is an error too.
UndoVerify ==
    /\ cmd.pc = "undoVerify"
    /\ cmd' = [cmd EXCEPT !.pc = "compensated",
                          !.errors = @ \/ Installed(machine) # SnapshotInstalled(journal.before)
                                       \/ Enabled(machine) # journal.before.enabled
                                       \/ Active(machine) # journal.before.active]
    /\ UNCHANGED <<machine, published, journal, faults>>

\* PLUGIN_SETUP_RECOVERY_PENDING: after an error the journal stays as it is.
Compensated ==
    IF cmd.errors
    THEN cmd.pc = "compensated" /\ End /\ UNCHANGED <<machine, published, journal, faults>>
    ELSE Phase("compensated", "Compensated", "clear")

\* A command that recovered another one goes on with its own transaction.
Clear ==
    /\ cmd.pc = "clear"
    /\ journal' = None
    /\ IF cmd.recovering
       THEN cmd' = [cmd EXCEPT !.pc = "begin", !.recovering = FALSE]
       ELSE End
    /\ UNCHANGED <<machine, published, faults>>

\* The journal cannot be read or written.  One that is to be closed or removed may
\* be so in spite of the error.
JournalFails ==
    /\ cmd.pc \in FinalSteps
    /\ Fault
    /\ End
    /\ \/ UNCHANGED journal
       \/ cmd.pc = "commit" /\ journal' = [journal EXCEPT !.phase = "Committed"]
       \/ /\ cmd.pc = "compensated" /\ ~cmd.errors
          /\ journal' = [journal EXCEPT !.phase = "Compensated"]
       \/ cmd.pc = "clear" /\ journal' = None
    /\ UNCHANGED <<machine, published>>

\* The command is killed.
Crash == cmd # NoCommand /\ Fault /\ End /\ UNCHANGED <<machine, published, journal>>

\* The system restarts: the manager reads the unit file and runs an enabled service.
Reboot ==
    /\ Fault
    /\ End
    /\ machine' = LET m == [Reload(machine) EXCEPT !.image = None]
                  IN IF Enabled(m) THEN Launch(m) ELSE m
    /\ UNCHANGED <<published, journal>>

Opening ==
    \/ BeginApply \/ BeginRollback \/ BeginDirect
    \/ RejectUnfinished \/ RecoverInterrupted \/ BeginTransaction

Operation ==
    \/ PlanIsStale \/ Check \/ StopService \/ Publish
    \/ TargetMissing \/ Activate \/ LinkPrevious \/ RuntimeActivated
    \/ SaveConfig \/ ConfigSaved
    \/ WriteUnit \/ ReloadUnits \/ Enable \/ NothingToEnable \/ LaunchService
    \/ ServiceRegistered \/ ServiceStarted \/ ControlService
    \/ ActivationWaits \/ HealthWait \/ HealthChecked \/ Commit
    \/ DisableService \/ ForgetUnit \/ RemoveUnit \/ EditConfig

Compensation ==
    \/ UndoStop \/ UndoDisable \/ UndoCurrent \/ UndoPrevious \/ UndoConfig
    \/ UndoUnit \/ UndoReload \/ UndoEnable \/ UndoLaunch \/ UndoVerify
    \/ Compensated \/ Clear

Failure ==
    \/ StepFails \/ LinkFails \/ UndoFails \/ ProbeFails \/ JournalFails
    \/ Crash \/ Reboot

Next == Opening \/ Operation \/ Compensation \/ Failure

Spec == Init /\ [][Next]_vars

-----------------------------------------------------------------------------

\* A transaction that was compensated left nothing behind: pointers, config and unit
\* file are as the snapshot has them, and the service runs the restored runtime by
\* the restored unit (PLUGIN_SETUP_FAILED_RESTORED).
CompensationRestores ==
    cmd.pc \in {"compensated", "clear"} /\ ~cmd.errors /\ journal.phase # "Committed" =>
        /\ Snapshot(machine) = journal.before
        /\ Active(machine) => machine.image = Image([machine EXCEPT !.loaded = machine.unit])

\* A compensation in which no step fails succeeds, whatever the point at which the
\* operation failed or was interrupted, and however often: retrying resumes recovery.
CompensationNeedsNoLuck == cmd.errors => cmd.faulted

\* The installation as the next command finds it once it has recovered.
stable ==
    LET s == IF Unfinished THEN journal.before ELSE Snapshot(machine)
    IN [current |-> s.current, previous |-> s.previous, config |-> s.config,
        unit |-> s.unit, active |-> s.active]

\* A rollback to the previous version has somewhere to go: the two pointers differ,
\* and the versions they name are published.
RollbackHasTarget ==
    /\ {stable.current, stable.previous} \subseteq published \cup {None}
    /\ stable.previous # None => stable.previous # stable.current

Outcome == INSTANCE SetupOutcome WITH op <- cmd.op

\* A transaction changes the installation as a whole or not at all.
SetupIsAtomic == Outcome!Spec

\* "so the durable Runner matches the installed plugin release": after an update with
\* a service that is ready, the service runs the updated runtime.
UpdatedServiceRunsUpdate ==
    cmd.pc = "clear" /\ cmd.op = "apply" /\ cmd.service /\ cmd.ready
        /\ journal.phase = "Committed"
        => machine.image = [unit |-> "bundle", runtime |-> cmd.target]

\* "When installService is false, apply installs the verified runtime but does not
\* register, start, or restart a service".
ServiceIsLeftAlone ==
    [][cmd.op = "apply" /\ ~cmd.service /\ ~cmd.recovering /\ cmd'.op = "apply"
        => machine'.image = machine.image]_vars

-----------------------------------------------------------------------------
(* The inductive invariant behind CompensationRestores and                 *)
(* CompensationNeedsNoLuck.                                                *)

SharedSteps == {"stop", "write", "reload", "enable", "launch", "control", "health"}

\* A step is taken by a command that has it, and under a journal if it needs one.
StepFits ==
    /\ cmd.op = "none" <=> cmd.pc = "idle"
    /\ cmd.pc \in DirectSteps \cup {"fence"} => cmd.op \in DirectCommands
    /\ cmd.pc \notin SharedSteps \cup DirectSteps \cup {"fence", "idle"} =>
           cmd.op \in Transactions
    /\ cmd.pc = "stop" => cmd.op \in Transactions \cup {"uninstall", "stop"}
    /\ cmd.op = "apply" => cmd.target # None
    /\ cmd.pc = "publish" => cmd.op = "apply"
    /\ cmd.op \in Transactions /\ cmd.pc \notin {"recover", "begin"} => journal # None
    /\ cmd.pc = "clear" => journal.phase \in Finished

\* The snapshot was taken of a consistent service.
SnapshotFits ==
    journal # None =>
        (journal.before.active \/ journal.before.enabled => journal.before.unit # None)

\* The steps that follow a step of the compensation.
PastVerify   == {"compensated", "clear"}
PastLaunch   == PastVerify \cup {"undoVerify"}
PastEnable   == PastLaunch \cup {"undoLaunch"}
PastReload   == PastEnable \cup {"undoEnable"}
PastUnit     == PastReload \cup {"undoReload"}
PastConfig   == PastUnit \cup {"undoUnit"}
PastPrevious == PastConfig \cup {"undoConfig"}
PastCurrent  == PastPrevious \cup {"undoPrevious"}
PastStop     == PastCurrent \cup {"undoCurrent", "undoDisable"}

Compensating(steps) ==
    /\ cmd.pc \in steps
    /\ ~cmd.faulted
    /\ cmd.pc = "clear" => journal.phase = "Compensated"

\* What a compensation without a fault has restored by each of its steps.
Restored ==
    /\ Compensating(PastStop \ PastLaunch) => machine.image = None
    /\ Compensating(PastCurrent)  => machine.current = journal.before.current
    /\ Compensating(PastPrevious) => machine.previous = journal.before.previous
    /\ Compensating(PastConfig)   => machine.config = journal.before.config
    /\ Compensating(PastUnit)     => machine.unit = journal.before.unit
    /\ Compensating(PastReload)   => machine.loaded = machine.unit
    /\ Compensating(PastEnable)   => Enabled(machine) = journal.before.enabled
    /\ Compensating(PastLaunch)   =>
           /\ Active(machine) = journal.before.active
           /\ Active(machine) => machine.image = Image(machine)

IInv ==
    /\ TypeOK
    /\ StepFits
    /\ SnapshotFits
    /\ Restored
    /\ cmd.errors = cmd.faulted

=============================================================================
