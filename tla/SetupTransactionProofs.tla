----------------------- MODULE SetupTransactionProofs -----------------------
(***************************************************************************)
(* Theorems about SetupTransaction for any versions and any number of      *)
(* faults: a compensation that reports no error has restored the           *)
(* installation, and one in which no step fails reports none; a rollback   *)
(* has a version to go to; and the commands implement SetupOutcome.        *)
(*                                                                         *)
(* The first half rests on IInv of SetupTransaction, which says how far a  *)
(* compensation has come; the second on WholeInv, which adds how far the   *)
(* operation has come from the snapshot in its journal.                    *)
(***************************************************************************)
EXTENDS SetupTransaction, TLAPS

-----------------------------------------------------------------------------
(* Types.                                                                  *)

Steps == {"idle"} \cup ForwardSteps \cup UndoSteps \cup DirectSteps \cup FinalSteps

\* The command ends or goes on with another step.
Moves == cmd' = NoCommand \/ \E pc \in Steps : cmd' = [cmd EXCEPT !.pc = pc]

\* A command that ended, or went on with another step, is still a command.
LEMMA MovesTyped == ASSUME TypeOK, Moves PROVE cmd' \in Commands
<1>1. NoCommand \in Commands
  BY DEF NoCommand, Commands
<1>2. ASSUME NEW pc \in Steps PROVE [cmd EXCEPT !.pc = pc] \in Commands
  BY DEF TypeOK, Commands, Steps
<1> QED BY <1>1, <1>2 DEF Moves

\* The calls of the service manager keep the type of the machine.
LEMMA MachineOperators ==
    ASSUME NEW m \in Machines, NEW on \in BOOLEAN
    PROVE  /\ Stop(m) \in Machines
           /\ Reload(m) \in Machines
           /\ SetEnabled(m, on) \in Machines
           /\ Restart(m) \in Machines
           /\ Launch(m) \in Machines
           /\ Snapshot(m) \in Snapshots
<1>1. Image(m) \in Images
  BY DEF Machines, Image, Images, Units
<1>2. Stop(m) \in Machines /\ Reload(m) \in Machines /\ SetEnabled(m, on) \in Machines
  BY DEF Machines, Stop, Reload, SetEnabled
<1>3. Restart(m) \in Machines /\ Launch(m) \in Machines
  BY <1>1 DEF Machines, Restart, Launch
<1>4. Snapshot(m) \in Snapshots
  BY DEF Machines, Snapshot, Snapshots, Enabled, Active
<1> QED BY <1>2, <1>3, <1>4

\* Closing or removing the journal, and any other phase, keep its type.
LEMMA PhaseTyped ==
    ASSUME TypeOK, journal # None, NEW phase \in Phases
    PROVE  [journal EXCEPT !.phase = phase] \in Journals
  BY DEF TypeOK, Journals, Records
\* What the snapshot holds may be put back.
LEMMA BeforeTyped ==
    ASSUME TypeOK, journal # None
    PROVE  /\ journal.before.current \in Versions \cup {None}
           /\ journal.before.previous \in Versions \cup {None}
           /\ journal.before.config \in Configs \cup {None}
           /\ journal.before.unit \in Units \cup {None}
           /\ journal.before.enabled \in BOOLEAN
           /\ journal.before.active \in BOOLEAN
           /\ journal.phase \in Phases
  BY DEF TypeOK, Journals, Records, Snapshots

\* A field of the machine may be replaced by a value of its set.
LEMMA MachineFields ==
    ASSUME NEW m \in Machines, NEW v \in Versions \cup {None},
           NEW c \in Configs \cup {None}, NEW u \in Units \cup {None}
    PROVE  /\ [m EXCEPT !.current = v] \in Machines
           /\ [m EXCEPT !.previous = v] \in Machines
           /\ [m EXCEPT !.config = c] \in Machines
           /\ [m EXCEPT !.unit = u] \in Machines
           /\ m.current \in Versions \cup {None}
           /\ m.previous \in Versions \cup {None}
           /\ m.config \in Configs \cup {None}
           /\ m.unit \in Units \cup {None}
  BY DEF Machines

\* A step past the beginning of a transaction has a journal.
LEMMA UnderJournal ==
    ASSUME StepFits, cmd.pc \in UndoSteps \cup {"link", "activated", "saved", "registered", "started",
                                    "checked", "commit", "compensated", "clear"}
    PROVE  journal # None
  BY DEF StepFits, UndoSteps, SharedSteps, DirectSteps, Transactions, DirectCommands

\* The steps at the beginning of a command leave the machine alone, and open at most
\* a journal with a snapshot of it.
LEMMA OpeningTyped ==
    ASSUME TypeOK, StepFits, Opening
    PROVE  machine' \in Machines /\ journal' \in Journals
<1>1. machine' = machine
  BY DEF Opening, BeginApply, BeginRollback, BeginDirect, Begin, RejectUnfinished,
         RecoverInterrupted, BeginTransaction
<1>2. CASE UNCHANGED journal
  BY <1>1, <1>2 DEF TypeOK
<1>3. CASE journal' = None
  BY <1>1, <1>3 DEF TypeOK, Journals, Records
<1>4. CASE BeginTransaction /\ journal' # journal
  <2>1. journal' = [operation |-> cmd.op, phase |-> "Prepared", before |-> Snapshot(machine)]
    BY <1>4 DEF BeginTransaction
  <2>2. cmd.op \in Transactions
    BY <1>4 DEF BeginTransaction, StepFits, SharedSteps, DirectSteps
  <2>3. Snapshot(machine) \in Snapshots
    BY MachineOperators DEF TypeOK
  <2> QED BY <1>1, <2>1, <2>2, <2>3 DEF TypeOK, Journals, Records, Phases
<1> QED
  BY <1>2, <1>3, <1>4 DEF Opening, BeginApply, BeginRollback, BeginDirect, Begin,
     RejectUnfinished, RecoverInterrupted

\* The steps of an operation keep the types of machine and journal.
LEMMA OperationTyped ==
    ASSUME TypeOK, StepFits, Operation
    PROVE  machine' \in Machines /\ journal' \in Journals
<1>1. machine' \in Machines
  <2> USE MachineOperators, MachineFields DEF TypeOK
  <2>1. CASE UNCHANGED machine
    BY <2>1
  <2>2. CASE StopService \/ ReloadUnits \/ ForgetUnit
    BY <2>2 DEF StopService, ReloadUnits, ForgetUnit, Step
  <2>3. CASE Activate
    BY <2>3 DEF Activate, Step
  <2>4. CASE LinkPrevious
    BY <2>4, UnderJournal, BeforeTyped DEF LinkPrevious, Step
  <2>5. CASE SaveConfig
    BY <2>5 DEF SaveConfig, Step, Configs
  <2>6. CASE WriteUnit
    <3>1. PICK u \in Units : machine' = [machine EXCEPT !.unit = u]
      BY <2>6 DEF WriteUnit, Step, Units
    <3> QED BY <3>1
  <2>7. CASE Enable
    BY <2>7 DEF Enable, Step
  <2>8. CASE DisableService
    BY <2>8 DEF DisableService, Step
  <2>9. CASE LaunchService
    BY <2>9 DEF LaunchService
  <2>10. CASE ControlService
    BY <2>10 DEF ControlService, Step
  <2>11. CASE RemoveUnit
    BY <2>11 DEF RemoveUnit
  <2>12. CASE EditConfig
    BY <2>12 DEF EditConfig, Configs
  <2> QED
    BY <2>1, <2>2, <2>3, <2>4, <2>5, <2>6, <2>7, <2>8, <2>9, <2>10, <2>11, <2>12
    DEF Operation, PlanIsStale, Refuse, Check, Publish, TargetMissing, RuntimeActivated, Phase,
        ConfigSaved, NothingToEnable, ServiceRegistered, ServiceStarted,
        ActivationWaits, HealthWait, HealthChecked, Commit
<1>2. journal' \in Journals
  <2>1. CASE UNCHANGED journal
    BY <2>1 DEF TypeOK
  <2>2. ASSUME NEW from \in {"activated", "saved", "registered", "started", "checked", "commit"},
               NEW phase \in Phases, NEW next, Phase(from, phase, next)
        PROVE  journal' \in Journals
    <3>1. journal # None
      BY <2>2, UnderJournal DEF Phase
    <3> QED BY <2>2, <3>1, PhaseTyped DEF Phase
  <2> QED
    BY <2>1, <2>2
    DEF Operation, PlanIsStale, Refuse, Check, StopService, Publish, TargetMissing, Activate, Step,
        LinkPrevious, RuntimeActivated, SaveConfig, ConfigSaved, WriteUnit, ReloadUnits, Enable,
        NothingToEnable, LaunchService, ServiceRegistered, ServiceStarted, ControlService,
        ActivationWaits, HealthWait, HealthChecked, Commit, DisableService, ForgetUnit, RemoveUnit, EditConfig,
              Phases
<1> QED BY <1>1, <1>2

\* So do the steps of a compensation, which put back what a snapshot can hold.
LEMMA CompensationTyped ==
    ASSUME TypeOK, StepFits, Compensation
    PROVE  machine' \in Machines /\ journal' \in Journals
<1>1. journal # None
  BY UnderJournal DEF Compensation, UndoStop, UndoDisable, UndoCurrent, UndoPrevious, UndoConfig,
     UndoUnit, UndoReload, UndoEnable, UndoLaunch, UndoVerify, Compensated, Clear, Undo, Step,
     Phase, UndoSteps
<1>2. machine' \in Machines
  <2> USE MachineOperators, MachineFields, BeforeTyped, <1>1 DEF TypeOK, Undo, Step
  <2>1. CASE UNCHANGED machine
    BY <2>1
  <2>2. CASE UndoStop \/ UndoReload
    BY <2>2 DEF UndoStop, UndoReload
  <2>3. CASE UndoDisable
    BY <2>3 DEF UndoDisable
  <2>4. CASE UndoCurrent \/ UndoPrevious
    BY <2>4 DEF UndoCurrent, UndoPrevious
  <2>5. CASE UndoConfig \/ UndoUnit
    BY <2>5 DEF UndoConfig, UndoUnit
  <2>6. CASE UndoEnable
    BY <2>6 DEF UndoEnable
  <2>7. CASE UndoLaunch
    BY <2>7 DEF UndoLaunch
  <2> QED
    BY <2>1, <2>2, <2>3, <2>4, <2>5, <2>6, <2>7
          DEF Compensation, UndoVerify, Compensated, Phase, Clear
<1>3. journal' \in Journals
  <2>1. CASE UNCHANGED journal
    BY <2>1 DEF TypeOK
  <2>2. CASE Compensated /\ journal' # journal
    BY <2>2, <1>1, PhaseTyped DEF Compensated, Phase, Phases
  <2>3. CASE Clear
    BY <2>3 DEF Clear, Journals
  <2> QED
    BY <2>1, <2>2, <2>3
    DEF Compensation, Undo, Step, UndoStop, UndoDisable, UndoCurrent, UndoPrevious, UndoConfig,
        UndoUnit, UndoReload, UndoEnable, UndoLaunch, UndoVerify
<1> QED BY <1>2, <1>3

\* So do failed steps, crashes and reboots.
LEMMA FailureTyped ==
    ASSUME TypeOK, StepFits, Failure
    PROVE  machine' \in Machines /\ journal' \in Journals
<1>1. CASE UNCHANGED <<machine, journal>>
  BY <1>1 DEF TypeOK
<1>2. CASE LinkFails
  <2>1. journal # None
    BY <1>2, UnderJournal DEF LinkFails
  <2>2. PICK v \in {machine.current, journal.before.current} :
           machine' = [machine EXCEPT !.current = v]
    BY <1>2 DEF LinkFails
  <2>3. v \in Versions \cup {None}
    BY <2>1, BeforeTyped, MachineFields DEF TypeOK
  <2> QED BY <1>2, <2>2, <2>3, MachineFields DEF LinkFails, TypeOK
<1>3. CASE JournalFails
  <2>1. CASE journal' \in {journal, None}
    BY <1>3, <2>1 DEF JournalFails, TypeOK, Journals, Records
  <2>2. CASE cmd.pc \in {"commit", "compensated"}
    <3>1. journal # None
      BY <2>2, UnderJournal
    <3>2. /\ [journal EXCEPT !.phase = "Committed"] \in Journals
          /\ [journal EXCEPT !.phase = "Compensated"] \in Journals
      BY <3>1, PhaseTyped DEF Phases
    <3> QED BY <1>3, <3>2 DEF JournalFails, TypeOK, Journals, Records
  <2> QED BY <1>3, <2>1, <2>2 DEF JournalFails
<1>4. CASE Reboot
  <2>1. Reload(machine) \in Machines
    BY MachineOperators DEF TypeOK
  <2>2. [Reload(machine) EXCEPT !.image = None] = Stop(Reload(machine))
    BY DEF Stop
  <2>3. Stop(Reload(machine)) \in Machines
    BY <2>1, MachineOperators
  <2>4. Launch(Stop(Reload(machine))) \in Machines
    BY <2>3, MachineOperators
  <2> QED BY <1>4, <2>2, <2>3, <2>4 DEF Reboot, TypeOK
<1> QED
  BY <1>1, <1>2, <1>3, <1>4 DEF Failure, StepFails, UndoFails, ProbeFails, Crash
-----------------------------------------------------------------------------
(* Where commands go.                                                      *)

\* The steps of an operation, the rest of a compensation and the failures end the
\* command or move it on, and touch nothing else of it.
LEMMA OperationMoves ==
    ASSUME StepFits, Operation, ~Check PROVE Moves
<1> USE DEF Moves, Goto, Steps, ForwardSteps, UndoSteps, DirectSteps, FinalSteps
<1>1. ASSUME NEW from, NEW m, NEW next \in Steps, Step(from, m, next) PROVE Moves
  BY <1>1 DEF Step
<1>2. ASSUME NEW from, NEW phase, NEW next \in Steps, Phase(from, phase, next) PROVE Moves
  BY <1>2 DEF Phase
<1>3. CASE PlanIsStale \/ TargetMissing
  BY <1>3 DEF PlanIsStale, TargetMissing, Refuse
<1>4. CASE StopService
  BY <1>4 DEF StopService, End, StepFits, Transactions
<1>5. CASE Publish
  BY <1>5 DEF Publish
<1>6. CASE Activate \/ LinkPrevious \/ SaveConfig \/ WriteUnit \/ ReloadUnits \/ Enable
             \/ ControlService \/ DisableService \/ ForgetUnit
  BY <1>6, <1>1 DEF Activate, LinkPrevious, SaveConfig, WriteUnit, ReloadUnits, Enable,
     ControlService, DisableService, ForgetUnit
<1>7. CASE RuntimeActivated \/ ConfigSaved \/ ServiceRegistered \/ ServiceStarted
             \/ HealthChecked \/ Commit
  BY <1>7, <1>2 DEF RuntimeActivated, ConfigSaved, ServiceRegistered, ServiceStarted,
     HealthChecked, Commit
<1>8. CASE NothingToEnable
  BY <1>8 DEF NothingToEnable, End
<1>9. CASE LaunchService
  BY <1>9 DEF LaunchService, End
<1>10. CASE HealthWait
  BY <1>10 DEF HealthWait, End
<1>11. CASE RemoveUnit \/ EditConfig
  BY <1>11 DEF RemoveUnit, EditConfig, End
<1>12. CASE ActivationWaits
  BY <1>12 DEF ActivationWaits
<1> QED BY <1>3, <1>4, <1>5, <1>6, <1>7, <1>8, <1>9, <1>10, <1>11, <1>12 DEF Operation

\* Of the compensation, only the verification and the end change more of the command.
LEMMA CompensationMoves ==
    ASSUME Compensation, ~UndoVerify, ~Clear PROVE Moves
<1> USE DEF Moves, Goto, Steps, ForwardSteps, UndoSteps, DirectSteps, FinalSteps
<1>1. ASSUME NEW from \in DOMAIN NextUndo, NEW m, Undo(from, m) PROVE Moves
  BY <1>1 DEF Undo, Step, NextUndo
<1>2. CASE Compensated
  BY <1>2 DEF Compensated, Phase, End
<1>3. DOMAIN NextUndo = UndoSteps \ {"undoVerify"}
  BY DEF NextUndo
<1> QED
  BY <1>1, <1>2, <1>3
        DEF Compensation, UndoStop, UndoDisable, UndoCurrent, UndoPrevious, UndoConfig,
     UndoUnit, UndoReload, UndoEnable, UndoLaunch

\* Of the failures, only a failed step of the compensation changes more of it.
LEMMA FailureMoves == ASSUME Failure, ~UndoFails PROVE Moves
  BY DEF Failure, StepFails, LinkFails, ProbeFails, JournalFails, Crash, Reboot, Moves, End, Goto,
     Steps, UndoSteps

\* The command keeps its type.
LEMMA CommandTyped == ASSUME SetupAssumption, TypeOK, StepFits, Next PROVE cmd' \in Commands
<1>1. CASE Moves
  BY <1>1, MovesTyped
<1>2. NoCommand \in Commands
  BY DEF NoCommand, Commands
<1>3. CASE Opening
  <2>1. ASSUME NEW op \in Transactions \cup DirectCommands, NEW target \in Versions \cup {None},
               NEW service \in BOOLEAN, NEW ready \in BOOLEAN, Begin(op, target, service, ready)
        PROVE  cmd' \in Commands
    <3>1. PICK pc \in FinalSteps :
             cmd' = [NoCommand EXCEPT !.op = op, !.target = target, !.service = service,
                                      !.ready = ready, !.pc = pc]
      BY <2>1 DEF Begin, FinalSteps
    <3> QED BY <3>1 DEF NoCommand, Commands
  <2>2. CASE BeginApply \/ BeginRollback
    BY <2>1, <2>2 DEF BeginApply, BeginRollback, Transactions
  <2>6. CASE BeginDirect
    <3>1. PICK op \in DirectCommands : Begin(op, None, FALSE, op \in {"start", "restart"})
      BY <2>6 DEF BeginDirect
    <3>2. (op \in {"start", "restart"}) \in BOOLEAN
      OBVIOUS
    <3> QED BY <2>1, <3>1, <3>2
  <2>3. CASE RejectUnfinished
    <3>1. FirstStep(cmd.op) \in Steps
      BY <2>3 DEF RejectUnfinished, StepFits, FirstStep, DirectCommands, DirectSteps, Steps,
            ForwardSteps
    <3> QED BY <1>1, <2>3, <3>1 DEF RejectUnfinished, Moves, Goto, End
  <2>4. CASE RecoverInterrupted
    BY <2>4, ZenonT(40) DEF RecoverInterrupted, TypeOK, Commands, UndoSteps, FinalSteps, Goto
  <2>5. CASE BeginTransaction
    BY <1>1, <2>5 DEF BeginTransaction, Moves, Goto, End, Steps, ForwardSteps
  <2> QED BY <1>3, <2>2, <2>3, <2>4, <2>5, <2>6 DEF Opening
<1>4. CASE Operation
  <2>1. CASE Check
    <3>1. PICK ready \in BOOLEAN, pc \in ForwardSteps :
          cmd' = [cmd EXCEPT !.ready = ready, !.pc = pc]
      BY <2>1 DEF Check, ForwardSteps, TypeOK, Commands
    <3> QED BY <3>1 DEF TypeOK, Commands
  <2> QED BY <1>1, <1>4, <2>1, OperationMoves
<1>5. CASE Compensation
  <2>1. CASE UndoVerify
    BY <2>1 DEF UndoVerify, TypeOK, Commands, FinalSteps
  <2>2. CASE Clear
    BY <1>2, <2>2, ZenonT(40) DEF Clear, End, TypeOK, Commands, FinalSteps
  <2> QED BY <1>1, <1>5, <2>1, <2>2, CompensationMoves
<1>6. CASE Failure
  <2>1. CASE UndoFails
    <3>1. PICK pc \in UndoSteps : cmd' = [cmd EXCEPT !.errors = TRUE, !.faulted = TRUE, !.pc = pc]
      <4>1. cmd.pc \in DOMAIN NextUndo
        BY <2>1 DEF UndoFails
      <4>2. NextUndo[cmd.pc] \in UndoSteps /\ "undoCurrent" \in UndoSteps
        BY <4>1 DEF NextUndo, UndoSteps
      <4> QED BY <2>1, <4>2 DEF UndoFails, TypeOK, Commands
    <3> QED BY <3>1 DEF TypeOK, Commands
  <2> QED BY <1>1, <1>6, <2>1, FailureMoves
<1> QED BY <1>3, <1>4, <1>5, <1>6 DEF Next

\* What is left of the type invariant.
LEMMA OthersTyped ==
    ASSUME SetupAssumption, TypeOK, StepFits, Next
    PROVE  published' \subseteq Versions /\ faults' \in 0..MaxFaults
<1>1. CASE Publish
  BY <1>1 DEF Publish, TypeOK, Commands, StepFits, SharedSteps, DirectSteps
<1>2. CASE Failure
  BY <1>2 DEF Failure, StepFails, LinkFails, UndoFails, ProbeFails, JournalFails, Crash, Reboot,
        Fault,
     TypeOK, SetupAssumption
<1>3. CASE UNCHANGED <<published, faults>>
  BY <1>3 DEF TypeOK
<1> QED
  BY <1>1, <1>2, <1>3
  DEF Next, Opening, BeginApply, BeginRollback, BeginDirect, Begin, RejectUnfinished,
      RecoverInterrupted, BeginTransaction, Operation, PlanIsStale, Refuse, Check, StopService,
      TargetMissing, Activate, Step, LinkPrevious, RuntimeActivated, Phase, SaveConfig, ConfigSaved,
      WriteUnit, ReloadUnits, Enable, NothingToEnable, LaunchService, ServiceRegistered,
      ServiceStarted, ControlService, ActivationWaits, HealthWait, HealthChecked, Commit,
      DisableService, ForgetUnit, RemoveUnit, EditConfig, Compensation, Undo, UndoStop, UndoDisable, UndoCurrent, UndoPrevious,
      UndoConfig, UndoUnit, UndoReload, UndoEnable, UndoLaunch, UndoVerify, Compensated, Clear

\* TypeOK is kept by every step.
LEMMA TypesKept == ASSUME SetupAssumption, TypeOK, StepFits, Next PROVE TypeOK'
  BY OpeningTyped, OperationTyped, CompensationTyped, FailureTyped, CommandTyped, OthersTyped
  DEF Next, TypeOK

-----------------------------------------------------------------------------
(* The parts of the invariant.                                             *)

\* What a step that moves the command on keeps of it.
LEMMA Going ==
    ASSUME TypeOK, NEW pc, Goto(pc)
    PROVE  /\ cmd'.pc = pc
           /\ cmd'.op = cmd.op
           /\ cmd'.target = cmd.target
           /\ cmd'.errors = cmd.errors
           /\ cmd'.faulted = cmd.faulted
  BY DEF TypeOK, Commands, Goto

\* What update_phase keeps of the journal.
LEMMA PhaseChanged ==
    ASSUME NoneAssumption, TypeOK, journal # None, NEW phase \in Phases,
           journal' = [journal EXCEPT !.phase = phase]
    PROVE  /\ journal' # None
           /\ journal'.phase = phase
           /\ journal'.before = journal.before
  BY DEF TypeOK, Journals, Records, NoneAssumption

\* A command that ended fits.
LEMMA Ended ==
    ASSUME cmd' = NoCommand
    PROVE  StepFits' /\ Restored' /\ cmd'.errors = cmd'.faulted
<1>1. cmd'.op = "none" /\ cmd'.pc = "idle" /\ cmd'.errors = cmd'.faulted
  BY DEF NoCommand
<1>2. StepFits'
  BY <1>1 DEF StepFits, DirectSteps, DirectCommands, Transactions, SharedSteps
<1>3. Restored'
  BY <1>1 DEF Restored, Compensating, PastVerify, PastLaunch, PastEnable, PastReload, PastUnit,
     PastConfig, PastPrevious, PastCurrent, PastStop
<1> QED BY <1>1, <1>2, <1>3

\* The first steps of a command are steps it has.
LEMMA OpeningFits ==
    ASSUME SetupAssumption, NoneAssumption, TypeOK, StepFits, Opening PROVE StepFits'
<1> USE DEF StepFits, SharedSteps, DirectSteps, Transactions, DirectCommands
<1>1. CASE cmd' = NoCommand
  BY <1>1, Ended
<1>2. CASE BeginApply
  BY <1>2 DEF BeginApply, Begin, NoCommand, SetupAssumption
<1>3. CASE BeginRollback
  BY <1>3 DEF BeginRollback, Begin, NoCommand
<1>4. CASE BeginDirect
  BY <1>4 DEF BeginDirect, Begin, NoCommand
<1>5. CASE RejectUnfinished /\ cmd' # NoCommand
  <2>1. Goto(FirstStep(cmd.op))
    BY <1>5 DEF RejectUnfinished, End
  <2>2. cmd.op \in DirectCommands
    BY <1>5 DEF RejectUnfinished
  <2> QED BY <2>1, <2>2, Going DEF FirstStep
<1>6. CASE RecoverInterrupted
  <2>1. cmd'.op = cmd.op /\ cmd'.target = cmd.target /\ cmd.op \in Transactions
    BY <1>6 DEF RecoverInterrupted, Goto, TypeOK, Commands
  <2>2. cmd'.pc = "begin" \/ (cmd'.pc = "undoStop" /\ journal' # None)
    BY <1>6, Going DEF RecoverInterrupted, Unfinished, TypeOK, Commands
  <2> QED BY <2>1, <2>2
<1>7. CASE BeginTransaction /\ cmd' # NoCommand
  <2>1. Goto("check") /\ cmd.pc = "begin"
    BY <1>7 DEF BeginTransaction, End
  <2>2. journal' # None
    <3>1. journal' = [operation |-> cmd.op, phase |-> "Prepared", before |-> Snapshot(machine)]
      BY <1>7 DEF BeginTransaction, End
    <3>2. Snapshot(machine) \in Snapshots
      BY MachineOperators DEF TypeOK
    <3>3. journal' \in Records
      BY <2>1, <3>1, <3>2 DEF Records, Phases
    <3> QED BY <3>3 DEF NoneAssumption
  <2> QED BY <2>1, <2>2, Going
<1> QED BY <1>1, <1>2, <1>3, <1>4, <1>5, <1>6, <1>7 DEF Opening

\* The steps of an operation lead to steps its command has, under a journal.
LEMMA OperationFits ==
    ASSUME NoneAssumption, TypeOK, StepFits, Operation PROVE StepFits'
<1> USE DEF StepFits, SharedSteps, DirectSteps, Transactions, DirectCommands
<1>1. CASE cmd' = NoCommand
  BY <1>1, Ended
<1>2. CASE PlanIsStale \/ TargetMissing
  BY <1>2, Going DEF PlanIsStale, TargetMissing, Refuse, Goto
<1>3. CASE Check
  BY <1>3 DEF Check, TypeOK, Commands
<1>4. CASE StopService /\ cmd' # NoCommand
  <2>1. PICK pc \in {"publish", "activate", "disable"} :
           /\ Goto(pc)
           /\ pc = "publish" => cmd.op = "apply"
           /\ pc = "activate" => cmd.op \in Transactions
           /\ pc = "disable" => cmd.op = "uninstall"
    BY <1>4 DEF StopService, End
  <2>2. cmd.pc = "stop" /\ UNCHANGED journal
    BY <1>4 DEF StopService
  <2> QED BY <2>1, <2>2, Going
<1>5. CASE Publish
  BY <1>5, Going DEF Publish
<1>6. CASE Activate
  <2>1. PICK pc \in {"link", "activated"} : Goto(pc)
    BY <1>6 DEF Activate, Step
  <2> QED BY <1>6, <2>1, Going DEF Activate, Step
<1>7. CASE LinkPrevious
  BY <1>7, Going DEF LinkPrevious, Step
<1>8. CASE SaveConfig \/ WriteUnit
  BY <1>8, Going DEF SaveConfig, WriteUnit, Step
<1>9. CASE ReloadUnits
  BY <1>9, Going DEF ReloadUnits, Step
<1>10. CASE Enable \/ ControlService
  <2>1. PICK pc \in {"launch", "health", "enable"} : Goto(pc)
    BY <1>10 DEF Enable, ControlService, Step
  <2>2. cmd.pc \in {"enable", "control"} /\ UNCHANGED journal
    BY <1>10 DEF Enable, ControlService, Step
  <2> QED BY <2>1, <2>2, Going
<1>11. CASE NothingToEnable /\ cmd' # NoCommand
  BY <1>11, Going DEF NothingToEnable, End
<1>12. CASE LaunchService /\ cmd' # NoCommand
  BY <1>12, Going DEF LaunchService, End
<1>13. CASE HealthWait /\ cmd' # NoCommand
  BY <1>13, Going DEF HealthWait, End
<1>14. CASE DisableService \/ ForgetUnit
  <2>1. PICK pc \in {"forget", "remove"} : Goto(pc)
    BY <1>14 DEF DisableService, ForgetUnit, Step
  <2>2. cmd.pc \in DirectSteps /\ UNCHANGED journal
    BY <1>14 DEF DisableService, ForgetUnit, Step
  <2> QED BY <2>1, <2>2, Going
<1>15. ASSUME NEW from \in {"activated", "saved", "registered", "started", "checked", "commit"},
              NEW phase \in Phases, NEW next \in {"config", "control", "commit", "write", "started",
                                                "health", "clear"},
              next = "clear" => phase \in Finished,
              Phase(from, phase, next)
       PROVE  StepFits'
  <2>1. journal' # None /\ journal'.phase = phase
    BY <1>15, UnderJournal, PhaseChanged DEF Phase
  <2> QED BY <1>15, <2>1, Going DEF Phase
<1>16. CASE RuntimeActivated \/ ConfigSaved \/ ServiceRegistered \/ ServiceStarted
             \/ HealthChecked \/ Commit
  <2> USE <1>15 DEF Phases, Finished
  <2>1. CASE RuntimeActivated
    BY <2>1 DEF RuntimeActivated
  <2>2. CASE ConfigSaved
    BY <2>2 DEF ConfigSaved
  <2>3. CASE ServiceRegistered \/ ServiceStarted
    BY <2>3 DEF ServiceRegistered, ServiceStarted
  <2>4. CASE HealthChecked \/ Commit
    BY <2>4 DEF HealthChecked, Commit
  <2> QED BY <1>16, <2>1, <2>2, <2>3, <2>4
<1>17. CASE ActivationWaits
  BY <1>17, Going DEF ActivationWaits
<1> QED
  BY <1>1, <1>2, <1>3, <1>4, <1>5, <1>6, <1>7, <1>8, <1>9, <1>10, <1>11, <1>12, <1>13, <1>14,
     <1>16, <1>17
  DEF Operation, RemoveUnit, EditConfig, End

\* The compensation stays within a transaction that has a journal.
LEMMA CompensationFits ==
    ASSUME NoneAssumption, TypeOK, StepFits, Compensation PROVE StepFits'
<1> USE DEF StepFits, SharedSteps, DirectSteps, Transactions, DirectCommands
<1>1. CASE cmd' = NoCommand
  BY <1>1, Ended
<1>2. ASSUME NEW from \in DOMAIN NextUndo, NEW m, Undo(from, m) PROVE StepFits'
  BY <1>2, Going DEF Undo, Step, NextUndo
<1>3. CASE UndoVerify
  BY <1>3 DEF UndoVerify, TypeOK, Commands
<1>4. CASE Compensated /\ cmd' # NoCommand
  <2>1. Phase("compensated", "Compensated", "clear")
    BY <1>4 DEF Compensated, End
  <2>2. journal' # None /\ journal'.phase = "Compensated"
    BY <2>1, UnderJournal, PhaseChanged DEF Phase, Phases
  <2> QED BY <2>1, <2>2, Going DEF Phase, Finished
<1>5. CASE Clear /\ cmd' # NoCommand
  <2>1. cmd' = [cmd EXCEPT !.pc = "begin", !.recovering = FALSE]
    BY <1>5 DEF Clear, End
  <2>2. cmd'.pc = "begin" /\ cmd'.op = cmd.op /\ cmd'.target = cmd.target
    BY <2>1 DEF TypeOK, Commands
  <2> QED BY <1>5, <2>2 DEF Clear
<1>6. DOMAIN NextUndo = UndoSteps \ {"undoVerify"}
  BY DEF NextUndo, UndoSteps
<1> QED
  BY <1>1, <1>2, <1>3, <1>4, <1>5, <1>6
  DEF Compensation, UndoStop, UndoDisable, UndoCurrent, UndoPrevious, UndoConfig, UndoUnit,
      UndoReload, UndoEnable, UndoLaunch, UndoSteps

\* A failed step leads to the compensation, or to the end of the command.
LEMMA FailureFits ==
    ASSUME TypeOK, StepFits, Failure PROVE StepFits'
<1> USE DEF StepFits, SharedSteps, DirectSteps, Transactions, DirectCommands
<1>1. CASE cmd' = NoCommand
  BY <1>1, Ended
<1>2. CASE StepFails /\ cmd' # NoCommand
  <2>1. Goto("undoStop") /\ cmd.op \in Transactions /\ UNCHANGED journal
    BY <1>2 DEF StepFails, End
  <2> QED BY <1>2, <2>1, Going DEF StepFails, ForwardSteps
<1>3. CASE LinkFails
  BY <1>3, Going DEF LinkFails
<1>4. CASE UndoFails
  <2>1. cmd'.pc \in UndoSteps /\ cmd'.op = cmd.op /\ cmd'.target = cmd.target
    BY <1>4 DEF UndoFails, NextUndo, UndoSteps, TypeOK, Commands
  <2> QED BY <1>4, <2>1 DEF UndoFails, NextUndo, UndoSteps
<1> QED
  BY <1>1, <1>2, <1>3, <1>4 DEF Failure, ProbeFails, JournalFails, Crash, Reboot, End

\* Each step is taken by a command that has it.
LEMMA FitsKept ==
    ASSUME SetupAssumption, NoneAssumption, TypeOK, StepFits, Next PROVE StepFits'
  BY OpeningFits, OperationFits, CompensationFits, FailureFits DEF Next

\* The snapshot is taken of a service that has a unit file if it is active.
LEMMA SnapshotKept ==
    ASSUME NoneAssumption, TypeOK, StepFits, SnapshotFits, Next PROVE SnapshotFits'
<1>1. CASE UNCHANGED journal \/ journal' = None
  BY <1>1 DEF SnapshotFits
<1>2. CASE BeginTransaction /\ journal' # journal
  <2>1. journal'.before = Snapshot(machine)
    BY <1>2 DEF BeginTransaction
  <2>2. ~(Installed(machine) /\ machine.unit = None)
    BY <1>2 DEF BeginTransaction
  <2>3. /\ Snapshot(machine).active = Active(machine)
        /\ Snapshot(machine).enabled = Enabled(machine)
        /\ Snapshot(machine).unit = machine.unit
    BY DEF Snapshot
  <2>4. Active(machine) \/ Enabled(machine) => machine.unit # None
    BY <2>2 DEF Installed
  <2> QED BY <2>1, <2>3, <2>4 DEF SnapshotFits
<1>3. ASSUME NEW phase \in Phases, journal' = [journal EXCEPT !.phase = phase], journal # None
      PROVE  SnapshotFits'
  BY <1>3, PhaseChanged DEF SnapshotFits
<1>4. ASSUME NEW from \in {"activated", "saved", "registered", "started", "checked", "commit",
                           "compensated"},
             NEW phase \in Phases, NEW next, Phase(from, phase, next)
      PROVE  SnapshotFits'
  BY <1>3, <1>4, UnderJournal DEF Phase
<1>5. CASE JournalFails /\ journal' # journal /\ journal' # None
  <2>1. PICK phase \in {"Committed", "Compensated"} : journal' = [journal EXCEPT !.phase = phase]
    BY <1>5 DEF JournalFails
  <2>2. cmd.pc \in {"commit", "compensated"}
    BY <1>5 DEF JournalFails
  <2> QED BY <1>3, <2>1, <2>2, UnderJournal DEF Phases
<1>6. CASE Opening
  BY <1>1, <1>2, <1>6 DEF Opening, BeginApply, BeginRollback, BeginDirect, Begin, RejectUnfinished,
     RecoverInterrupted
<1>7. CASE Operation
  BY <1>1, <1>4, <1>7
  DEF Operation, PlanIsStale, Refuse, Check, StopService, Publish, TargetMissing, Activate, Step,
      LinkPrevious, RuntimeActivated, SaveConfig, ConfigSaved, WriteUnit, ReloadUnits, Enable,
      NothingToEnable, LaunchService, ServiceRegistered, ServiceStarted, ControlService,
      ActivationWaits, HealthWait, HealthChecked, Commit, DisableService, ForgetUnit, RemoveUnit, EditConfig, Phases
<1>8. CASE Compensation
  BY <1>1, <1>4, <1>8
  DEF Compensation, Undo, Step, UndoStop, UndoDisable, UndoCurrent, UndoPrevious, UndoConfig,
      UndoUnit, UndoReload, UndoEnable, UndoLaunch, UndoVerify, Compensated, Clear, Phases
<1>9. CASE Failure
  BY <1>1, <1>5, <1>9
  DEF Failure, StepFails, LinkFails, UndoFails, ProbeFails, Crash, Reboot
<1> QED BY <1>6, <1>7, <1>8, <1>9 DEF Next

\* A compensation finds an error only if one of its steps failed.
LEMMA ErrorsKept ==
    ASSUME NoneAssumption, TypeOK, StepFits, SnapshotFits, Restored, cmd.errors = cmd.faulted, Next
    PROVE  cmd'.errors = cmd'.faulted
<1>1. CASE Moves
  <2>1. CASE cmd' = NoCommand
    BY <2>1, Ended
  <2>2. CASE \E pc \in Steps : cmd' = [cmd EXCEPT !.pc = pc]
    BY <2>2, Going DEF Goto
  <2> QED BY <1>1, <2>1, <2>2 DEF Moves
<1>2. CASE Opening
  <2>1. ASSUME NEW op, NEW target, NEW service, NEW ready, Begin(op, target, service, ready)
        PROVE  cmd'.errors = cmd'.faulted
    BY <2>1 DEF Begin, NoCommand
  <2>2. CASE BeginApply \/ BeginRollback \/ BeginDirect
    BY <2>1, <2>2 DEF BeginApply, BeginRollback, BeginDirect
  <2>3. CASE cmd' = NoCommand \/ \E pc : Goto(pc)
    BY <2>3, Ended, Going
  <2>4. CASE RecoverInterrupted
    BY <2>4, Going DEF RecoverInterrupted, TypeOK, Commands
  <2> QED BY <1>2, <2>2, <2>3, <2>4 DEF Opening, RejectUnfinished, BeginTransaction, End
<1>3. CASE Check
  BY <1>3 DEF Check, TypeOK, Commands
<1>4. CASE UndoVerify
  <2>1. CASE cmd.faulted = TRUE
    BY <1>4, <2>1 DEF UndoVerify, TypeOK, Commands
  <2>2. CASE cmd.faulted = FALSE
    <3>1. journal # None /\ Compensating(PastEnable) /\ Compensating(PastLaunch)
          /\ Compensating(PastUnit)
      BY <1>4, <2>2, UnderJournal
      DEF UndoVerify, UndoSteps, Compensating, PastVerify, PastLaunch, PastEnable, PastReload,
            PastUnit
    <3>2. /\ Enabled(machine) = journal.before.enabled
          /\ Active(machine) = journal.before.active
          /\ machine.unit = journal.before.unit
      BY <3>1 DEF Restored
    <3>3. Installed(machine) = SnapshotInstalled(journal.before)
      BY <3>2 DEF Installed, SnapshotInstalled
    <3> QED BY <1>4, <2>2, <3>2, <3>3 DEF UndoVerify, TypeOK, Commands
  <2> QED BY <2>1, <2>2 DEF TypeOK, Commands
<1>5. CASE Clear
  BY <1>5, Ended DEF Clear, End, TypeOK, Commands
<1>6. CASE UndoFails
  BY <1>6 DEF UndoFails, TypeOK, Commands
<1> QED
  BY <1>1, <1>2, <1>3, <1>4, <1>5, <1>6, OperationMoves, CompensationMoves, FailureMoves DEF Next

\* Outside of a compensation, and after a fault in one, nothing has to be restored.
LEMMA NothingRestored ==
    ASSUME \/ cmd'.pc \notin PastStop
           \/ cmd'.faulted
           \/ cmd'.pc = "clear" /\ journal'.phase # "Compensated"
    PROVE  Restored'
  BY DEF Restored, Compensating, PastVerify, PastLaunch, PastEnable, PastReload, PastUnit,
     PastConfig, PastPrevious, PastCurrent, PastStop

\* Enabling and disabling a unit also loads it, and leaves the rest alone.
LEMMA SetEnabledFields ==
    ASSUME NEW m \in Machines, NEW on \in BOOLEAN
    PROVE  /\ SetEnabled(m, on).enabled = on
           /\ SetEnabled(m, on).loaded = m.unit
           /\ SetEnabled(m, on).current = m.current
           /\ SetEnabled(m, on).previous = m.previous
           /\ SetEnabled(m, on).config = m.config
           /\ SetEnabled(m, on).unit = m.unit
           /\ SetEnabled(m, on).image = m.image
  BY DEF Machines, SetEnabled

\* Every step of the compensation restores its part and keeps what the ones before
\* it have restored.
LEMMA CompensationRestoresMore ==
    ASSUME NoneAssumption, TypeOK, StepFits, SnapshotFits, Restored, Compensation
    PROVE  Restored'
<1>1. CASE Clear
  <2>1. CASE cmd' = NoCommand
    BY <2>1, Ended
  <2>2. CASE cmd' # NoCommand
    <3>1. cmd'.pc = "begin"
      BY <1>1, <2>2 DEF Clear, End, TypeOK, Commands
    <3> QED BY <3>1, NothingRestored
        DEF PastVerify, PastLaunch, PastEnable, PastReload, PastUnit, PastConfig, PastPrevious,
            PastCurrent, PastStop
  <2> QED BY <2>1, <2>2
<1>2. CASE Compensated /\ cmd' = NoCommand
  BY <1>2, Ended
<1>3. CASE Compensated /\ cmd' # NoCommand
  <2>1. Phase("compensated", "Compensated", "clear")
    BY <1>3 DEF Compensated, End
  <2>2. journal'.before = journal.before
    BY <2>1, UnderJournal, PhaseChanged DEF Phase, Phases
  <2>3. /\ cmd.pc = "compensated" /\ cmd'.pc = "clear" /\ cmd'.faulted = cmd.faulted
        /\ UNCHANGED machine
    BY <2>1, Going DEF Phase
  <2> QED BY <2>2, <2>3
      DEF Restored, Compensating, PastVerify, PastLaunch, PastEnable, PastReload, PastUnit,
          PastConfig, PastPrevious, PastCurrent, PastStop, Enabled, Active, Image
<1>4. CASE UndoVerify
  <2>1. CASE cmd'.faulted = TRUE
    BY <2>1, NothingRestored
  <2>2. CASE cmd'.faulted = FALSE
    <3>1. /\ cmd.pc = "undoVerify" /\ cmd'.pc = "compensated" /\ cmd'.faulted = cmd.faulted
          /\ UNCHANGED <<machine, journal>>
      BY <1>4 DEF UndoVerify, TypeOK, Commands
    <3> QED BY <3>1
        DEF Restored, Compensating, PastVerify, PastLaunch, PastEnable, PastReload, PastUnit,
            PastConfig, PastPrevious, PastCurrent, PastStop, Enabled, Active, Image
  <2>3. cmd'.faulted \in BOOLEAN
    BY <1>4 DEF UndoVerify, TypeOK, Commands
  <2> QED BY <2>1, <2>2, <2>3
<1>5. ASSUME NEW from \in DOMAIN NextUndo, NEW m, Undo(from, m)
      PROVE  /\ cmd.pc = from /\ cmd'.pc = NextUndo[from] /\ cmd'.faulted = cmd.faulted
             /\ machine' = m /\ UNCHANGED journal /\ journal # None
  BY <1>5, Going, UnderJournal DEF Undo, Step, NextUndo, UndoSteps
<1> USE DEF Restored, Compensating, PastVerify, PastLaunch, PastEnable, PastReload, PastUnit,
            PastConfig, PastPrevious, PastCurrent, PastStop, Enabled, Active, Image, NextUndo
<1>6. CASE UndoStop
  BY <1>5, <1>6 DEF UndoStop, Stop, TypeOK, Machines
<1>7. CASE UndoDisable
  <2>1. cmd.pc = "undoDisable" /\ cmd'.pc = "undoCurrent" /\ cmd'.faulted = cmd.faulted
    BY <1>5, <1>7 DEF UndoDisable
  <2>2. machine'.image = machine.image
    <3>1. machine' = machine \/ machine' = SetEnabled(machine, FALSE)
      BY <1>5, <1>7 DEF UndoDisable
    <3> QED BY <3>1, SetEnabledFields DEF TypeOK
  <2> QED BY <2>1, <2>2
<1>8. CASE UndoCurrent
  BY <1>5, <1>8 DEF UndoCurrent, TypeOK, Machines
<1>9. CASE UndoPrevious
  BY <1>5, <1>9 DEF UndoPrevious, TypeOK, Machines
<1>10. CASE UndoConfig
  BY <1>5, <1>10 DEF UndoConfig, TypeOK, Machines
<1>11. CASE UndoUnit
  BY <1>5, <1>11 DEF UndoUnit, TypeOK, Machines
<1>12. CASE UndoReload
  BY <1>5, <1>12 DEF UndoReload, Reload, TypeOK, Machines
<1>13. CASE UndoEnable
  <2>1. cmd.pc = "undoEnable" /\ cmd'.pc = "undoLaunch" /\ cmd'.faulted = cmd.faulted
    BY <1>5, <1>13 DEF UndoEnable
  <2>2. UNCHANGED journal /\ journal # None
    BY <1>5, <1>13 DEF UndoEnable
  <2>3. /\ machine'.current = machine.current /\ machine'.previous = machine.previous
        /\ machine'.config = machine.config /\ machine'.unit = machine.unit
        /\ machine'.image = machine.image
        /\ machine.loaded = machine.unit => machine'.loaded = machine.unit
    <3>1. \/ machine' = machine
          \/ machine' = SetEnabled(machine, journal.before.enabled)
      BY <1>5, <1>13 DEF UndoEnable
    <3> QED BY <2>2, <3>1, SetEnabledFields, BeforeTyped DEF TypeOK
  <2>4. CASE SnapshotInstalled(journal.before)
    <3>1. machine'.enabled = journal.before.enabled
      <4>1. machine' = SetEnabled(machine, journal.before.enabled)
        BY <1>5, <1>13, <2>4 DEF UndoEnable
      <4> QED BY <2>2, <4>1, SetEnabledFields, BeforeTyped DEF TypeOK
    <3>2. journal.before.enabled => journal.before.unit # None
      BY <2>2 DEF SnapshotFits
    <3> QED BY <2>1, <2>2, <2>3, <3>1, <3>2, BeforeTyped
  <2>5. CASE ~SnapshotInstalled(journal.before)
    <3>1. journal.before.enabled = FALSE /\ journal.before.unit = None
      BY <2>2, <2>5, BeforeTyped DEF SnapshotInstalled
    <3> QED BY <2>1, <2>2, <2>3, <3>1
  <2> QED BY <2>4, <2>5
<1>14. CASE UndoLaunch
  <2>1. cmd.pc = "undoLaunch" /\ cmd'.pc = "undoVerify" /\ cmd'.faulted = cmd.faulted
    BY <1>5, <1>14 DEF UndoLaunch
  <2>2. UNCHANGED journal /\ journal # None
    BY <1>5, <1>14 DEF UndoLaunch
  <2>3. /\ machine'.current = machine.current /\ machine'.previous = machine.previous
        /\ machine'.config = machine.config /\ machine'.unit = machine.unit
        /\ machine'.loaded = machine.loaded /\ machine'.enabled = machine.enabled
    BY <1>5, <1>14 DEF UndoLaunch, Launch, TypeOK, Machines
  <2>4. CASE journal.before.active /\ machine.image = None
    <3>1. machine'.image = Image(machine)
      BY <1>5, <1>14, <2>4 DEF UndoLaunch, Launch, TypeOK, Machines
    <3>2. Image(machine) \in Images
      BY DEF TypeOK, Machines, Images, Units
    <3>3. Image(machine) # None
      BY <3>2 DEF NoneAssumption
    <3> HIDE DEF Image
    <3>4. Image(machine') = Image(machine)
      BY <2>3 DEF Image
    <3>5. journal.before.active = TRUE
      BY <2>2, <2>4, BeforeTyped
    <3> QED BY <2>1, <2>2, <2>3, <3>1, <3>3, <3>4, <3>5
  <2>5. CASE ~journal.before.active
    <3>1. machine' = machine /\ journal.before.active = FALSE
      BY <1>5, <1>14, <2>2, <2>5, BeforeTyped DEF UndoLaunch
    <3> QED BY <2>1, <2>2, <3>1
  <2>6. CASE machine.image # None
    <3>1. cmd.faulted
      BY <2>1, <2>6
    <3> QED BY <2>1, <3>1, NothingRestored
  <2> QED BY <2>4, <2>5, <2>6
<1> QED
  BY <1>1, <1>2, <1>3, <1>4, <1>6, <1>7, <1>8, <1>9, <1>10, <1>11, <1>12, <1>13, <1>14
  DEF Compensation

\* Restored is kept by every step: only the compensation itself comes to the places
\* it speaks of, with what the steps before have restored.
LEMMA RestoredKept ==
    ASSUME NoneAssumption, TypeOK, StepFits, SnapshotFits, Restored, Next PROVE Restored'
<1> DEFINE Elsewhere == {"idle"} \cup ForwardSteps \cup DirectSteps \cup {"recover", "begin",
      "commit", "fence", "undoStop"}
<1>1. CASE cmd' = NoCommand
  BY <1>1, Ended
<1>2. CASE cmd'.pc \in Elsewhere
  BY <1>2, NothingRestored
  DEF PastVerify, PastLaunch, PastEnable, PastReload, PastUnit, PastConfig, PastPrevious,
      PastCurrent, PastStop, ForwardSteps, DirectSteps
<1> USE DEF ForwardSteps, DirectSteps
<1>3. CASE Opening /\ cmd' # NoCommand
  <2>1. ASSUME NEW op, NEW target, NEW service, NEW ready, Begin(op, target, service, ready)
        PROVE  cmd'.pc \in Elsewhere
    BY <2>1 DEF Begin, NoCommand
  <2>2. CASE RejectUnfinished
    <3>1. Goto(FirstStep(cmd.op)) /\ cmd.op \in DirectCommands
      BY <1>3, <2>2 DEF RejectUnfinished, End, StepFits
    <3> QED BY <1>2, <3>1, Going DEF FirstStep, DirectCommands
  <2>3. CASE RecoverInterrupted
    <3>1. cmd'.pc \in {"undoStop", "begin"}
      BY <2>3 DEF RecoverInterrupted, Goto, TypeOK, Commands
    <3> QED BY <1>2, <3>1
  <2>4. CASE BeginTransaction
    <3>1. Goto("check")
      BY <1>3, <2>4 DEF BeginTransaction, End
    <3> QED BY <1>2, <3>1, Going
  <2> QED BY <1>2, <1>3, <2>1, <2>2, <2>3, <2>4 DEF Opening, BeginApply, BeginRollback, BeginDirect
<1>4. CASE Operation /\ cmd' # NoCommand
  <2>1. CASE Commit
    <3>1. cmd'.pc = "clear" /\ journal'.phase = "Committed"
      BY <2>1, Going, UnderJournal, PhaseChanged DEF Commit, Phase, Phases
    <3> QED BY <3>1, NothingRestored
  <2>2. ASSUME NEW from, NEW m, NEW next \in Elsewhere, Step(from, m, next)
        PROVE cmd'.pc \in Elsewhere
    BY <2>2, Going DEF Step
  <2>3. ASSUME NEW from, NEW phase, NEW next \in Elsewhere, Phase(from, phase, next)
        PROVE  cmd'.pc \in Elsewhere
    BY <2>3, Going DEF Phase
  <2>4. CASE PlanIsStale \/ TargetMissing
    BY <1>2, <2>4, Going DEF PlanIsStale, TargetMissing, Refuse, Goto
  <2>5. CASE Check
    <3>1. cmd'.pc \in {"stop", "publish", "activate"}
      BY <2>5 DEF Check, TypeOK, Commands
    <3> QED BY <1>2, <3>1
  <2>6. CASE StopService
    <3>1. \E pc \in Elsewhere : Goto(pc)
      BY <1>4, <2>6 DEF StopService, End, StepFits, Transactions
    <3> QED BY <1>2, <3>1, Going
  <2>7. CASE Publish
    BY <1>2, <2>7, Going DEF Publish
  <2>8. CASE Activate \/ LinkPrevious \/ SaveConfig \/ WriteUnit \/ ReloadUnits \/ Enable
               \/ ControlService \/ DisableService \/ ForgetUnit
    BY <1>2, <2>2, <2>8 DEF Activate, LinkPrevious, SaveConfig, WriteUnit, ReloadUnits, Enable,
       ControlService, DisableService, ForgetUnit
  <2>9. CASE RuntimeActivated \/ ConfigSaved \/ ServiceRegistered \/ ServiceStarted \/ HealthChecked
    BY <1>2, <2>3, <2>9 DEF RuntimeActivated, ConfigSaved, ServiceRegistered, ServiceStarted,
       HealthChecked
  <2>10. CASE NothingToEnable \/ LaunchService \/ ActivationWaits \/ HealthWait
    <3>1. \E pc \in Elsewhere : Goto(pc)
      BY <1>4, <2>10 DEF NothingToEnable, LaunchService, ActivationWaits, HealthWait, End
    <3> QED BY <1>2, <3>1, Going
  <2> QED
    BY <1>4, <2>1, <2>4, <2>5, <2>6, <2>7, <2>8, <2>9, <2>10
          DEF Operation, RemoveUnit, EditConfig, End
<1>5. CASE Failure /\ cmd' # NoCommand
  <2>1. CASE StepFails \/ LinkFails
    BY <1>2, <1>5, <2>1, Going DEF StepFails, LinkFails, End
  <2>2. CASE UndoFails
    <3>1. cmd'.faulted
      BY <2>2 DEF UndoFails, TypeOK, Commands
    <3> QED BY <3>1, NothingRestored
  <2> QED BY <1>5, <2>1, <2>2 DEF Failure, ProbeFails, JournalFails, Crash, Reboot, End
<1> QED BY <1>1, <1>3, <1>4, <1>5, CompensationRestoresMore DEF Next

\* What the invariant says of the end of a compensation.
LEMMA RestoredAtTheEnd == ASSUME IInv PROVE CompensationRestores
<1> SUFFICES ASSUME cmd.pc \in PastVerify, ~cmd.errors, journal.phase # "Committed"
             PROVE  /\ Snapshot(machine) = journal.before
                    /\ Active(machine) =>
                          machine.image = Image([machine EXCEPT !.loaded = machine.unit])
  BY DEF CompensationRestores, PastVerify
<1>1. journal # None
  BY UnderJournal DEF IInv, PastVerify
<1>2. cmd.pc = "clear" => journal.phase = "Compensated"
  BY DEF IInv, StepFits, Finished
<1>3. ~cmd.faulted
  BY DEF IInv
<1>4. /\ machine.current = journal.before.current
      /\ machine.previous = journal.before.previous
      /\ machine.config = journal.before.config
      /\ machine.unit = journal.before.unit
      /\ machine.loaded = machine.unit
      /\ Enabled(machine) = journal.before.enabled
      /\ Active(machine) = journal.before.active
      /\ Active(machine) => machine.image = Image(machine)
  BY <1>2, <1>3 DEF IInv, Restored, Compensating, PastVerify, PastLaunch, PastEnable, PastReload,
     PastUnit, PastConfig, PastPrevious, PastCurrent
<1>5. journal.before \in Snapshots
  BY <1>1 DEF IInv, TypeOK, Journals, Records
<1>6. Snapshot(machine) = journal.before
  BY <1>4, <1>5 DEF Snapshot, Snapshots
<1>7. Image([machine EXCEPT !.loaded = machine.unit]) = Image(machine)
  BY <1>4 DEF IInv, TypeOK, Machines, Image
<1> QED BY <1>4, <1>6, <1>7

-----------------------------------------------------------------------------
(* The theorems.                                                           *)

\* The inductive invariant holds at the start and is kept by every step.
THEOREM Invariance == Spec => []IInv
<1> USE SetupAssumption, NoneAssumption
<1>1. Init => IInv
  <2> SUFFICES ASSUME Init PROVE IInv
    OBVIOUS
  <2>1. TypeOK
    BY DEF Init, TypeOK, Machines, Journals, NoCommand, Commands, SetupAssumption
  <2>2. StepFits
    BY DEF Init, NoCommand, StepFits, SharedSteps, DirectSteps, Transactions, DirectCommands
  <2>3. SnapshotFits /\ cmd.errors = cmd.faulted
    BY DEF Init, NoCommand, SnapshotFits
  <2>4. Restored
    BY DEF Init, NoCommand, Restored, Compensating, PastVerify, PastLaunch, PastEnable, PastReload,
       PastUnit, PastConfig, PastPrevious, PastCurrent, PastStop
  <2> QED BY <2>1, <2>2, <2>3, <2>4 DEF IInv
<1>2. IInv /\ [Next]_vars => IInv'
  <2> SUFFICES ASSUME IInv, [Next]_vars PROVE IInv'
    OBVIOUS
  <2>1. CASE Next
    BY <2>1, TypesKept, FitsKept, SnapshotKept, RestoredKept, ErrorsKept DEF IInv
  <2>2. CASE UNCHANGED vars
    BY <2>2 DEF vars, IInv, TypeOK, StepFits, SnapshotFits, Restored, Compensating, Enabled, Active,
       Image
  <2> QED BY <2>1, <2>2
<1> QED BY <1>1, <1>2, PTL DEF Spec

\* The installation, the journal and the command keep their types.
THEOREM TypeCorrect == Spec => []TypeOK
<1>1. IInv => TypeOK
  BY DEF IInv
<1> QED BY <1>1, Invariance, PTL

\* A compensation that reports no error has restored pointers, config, unit file,
\* enablement and activity, whatever was changed, failed or interrupted before it
\* (plugin_compensate_setup_transaction).
THEOREM CompensatedIsRestored == Spec => []CompensationRestores
<1>1. IInv => CompensationRestores
  BY RestoredAtTheEnd
<1> QED BY <1>1, Invariance, PTL

\* A compensation in which every step succeeds ends without an error, from whatever
\* state of the installation it starts.
THEOREM RecoveryNeedsNoLuck == Spec => []CompensationNeedsNoLuck
<1>1. IInv => CompensationNeedsNoLuck
  BY DEF IInv, CompensationNeedsNoLuck
<1> QED BY <1>1, Invariance, PTL


-----------------------------------------------------------------------------
(* Half of a transaction.                                                  *)

\* The journal is unfinished while a transaction is under way, and a direct command
\* that was not refused runs without one.
JournalFits ==
    /\ cmd.op \in Transactions /\ cmd.pc \notin {"recover", "begin", "clear"} => Unfinished
    /\ cmd.op \in DirectCommands /\ cmd.pc # "fence" => journal = None
    /\ cmd.pc = "begin" => journal = None

ServiceSteps == {"stop", "write", "reload", "enable", "launch", "registered", "started",
                 "control", "health", "checked"}

\* The branches a transaction takes.
PathFits ==
    /\ cmd.pc \in {"write", "reload"} => cmd.op # "rollback"
    /\ cmd.pc \in {"config", "saved", "registered", "started"} => cmd.op = "apply"
    /\ cmd.op = "apply" /\ cmd.pc \in ServiceSteps => cmd.service
    /\ cmd.pc = "launch" => machine.unit # None

Early == {"check", "stop", "publish", "activate"}
Unsaved == Early \cup {"link", "activated", "config"}
Open == ForwardSteps \cup {"commit"}

\* The transaction is at one of these steps.
Moving(steps) == cmd.op \in Transactions /\ cmd.pc \in steps

\* The pointers as the activation of a version leaves them.
Switched ==
    /\ machine.current \in published
    /\ machine.previous = IF journal.before.current \in {None, machine.current}
                          THEN journal.before.previous ELSE journal.before.current

Pointers ==
    /\ Moving(Early) => /\ machine.current = journal.before.current
                        /\ machine.previous = journal.before.previous
    /\ Moving({"link"}) =>
          /\ machine.current \in published /\ machine.previous = journal.before.previous
          /\ journal.before.current \notin {None, machine.current}
    /\ Moving(Open \ (Early \cup {"link"})) => Switched

Saved ==
    /\ Moving(Unsaved) => machine.config = journal.before.config
    /\ Moving(Open \ Unsaved) =>
          machine.config = IF cmd.op = "apply" /\ journal.before.config = None THEN "default"
                           ELSE journal.before.config

\* Only an update with the service writes the unit; a rollback runs the one there is.
Served ==
    /\ Moving(Open) /\ (cmd.op = "rollback" \/ ~cmd.service) => machine.unit = journal.before.unit
    /\ Moving(Open) /\ cmd.op = "rollback" => (Active(machine) => machine.unit # None)
    /\ Moving(Open) /\ cmd.op = "apply" =>
          IF cmd.service
          THEN cmd.pc \in (ServiceSteps \cup {"commit"}) \ {"stop", "write"} =>
                  machine.unit = "bundle"
          ELSE Active(machine) = journal.before.active

Halfway == JournalFits /\ PathFits /\ Pointers /\ Saved /\ Served

\* The first version has none to go back to.
Targets == RollbackHasTarget /\ (stable.current = None => stable.previous = None)

WholeInv == IInv /\ Halfway /\ Targets

-----------------------------------------------------------------------------
(* The stable installation.                                                *)

\* It is the snapshot as long as the journal is unfinished.
LEMMA StableHeld ==
    ASSUME Unfinished, Unfinished', journal'.before = journal.before
    PROVE  stable' = stable
  BY DEF stable

\* It is the machine without such a journal.
LEMMA StableSeen ==
    ASSUME ~Unfinished, ~Unfinished',
           machine'.current = machine.current, machine'.previous = machine.previous,
           machine'.config = machine.config, machine'.unit = machine.unit,
           Active(machine)' = Active(machine)
    PROVE  stable' = stable
  BY DEF stable, Snapshot

\* It becomes the snapshot that is taken of the machine.
LEMMA StableTaken ==
    ASSUME ~Unfinished, Unfinished', journal'.before = Snapshot(machine)
    PROVE  stable' = stable
  BY DEF stable, Snapshot

\* It becomes the machine that was restored to the snapshot.
LEMMA StableRestored ==
    ASSUME Unfinished, ~Unfinished', UNCHANGED machine, Snapshot(machine) = journal.before
    PROVE  stable' = stable
  BY DEF stable, Snapshot, Active, Enabled

\* The targets of a rollback stay where they are while versions are added.
LEMMA TargetsKept ==
    ASSUME Targets, stable' = stable, published \subseteq published' PROVE Targets'
  BY DEF Targets, RollbackHasTarget

-----------------------------------------------------------------------------
(* Steps of an operation.                                                  *)

\* No call of the service manager touches pointers, config and unit file.
LEMMA ServiceCalls ==
    ASSUME NEW m \in Machines, NEW on \in BOOLEAN,
           NEW n \in {Stop(m), Reload(m), SetEnabled(m, on), Launch(m), Restart(m)}
    PROVE  /\ n.current = m.current /\ n.previous = m.previous
           /\ n.config = m.config /\ n.unit = m.unit
  BY DEF Machines, Stop, Reload, SetEnabled, Launch, Restart

\* Outside of the steps of an operation nothing is half done.
LEMMA NotHalfway ==
    ASSUME cmd'.op \notin Transactions \/ cmd'.pc \notin Open
    PROVE  Pointers' /\ Saved' /\ Served'
  BY DEF Pointers, Saved, Served, Moving, Open, Early, Unsaved, ForwardSteps

\* A step that moves the command on keeps whether the service is part of it.
LEMMA GoingService ==
    ASSUME TypeOK, NEW pc, Goto(pc) PROVE cmd'.service = cmd.service
  BY DEF TypeOK, Commands, Goto

\* Where the steps of a transaction's operation lead, in a form the invariant speaks of.
Continues(from, next) ==
    /\ cmd.op \in Transactions /\ cmd.pc = from /\ cmd'.pc = next
    /\ cmd'.op = cmd.op /\ cmd'.service = cmd.service
    /\ journal'.before = journal.before /\ published \subseteq published'

\* A step that changes the machine at most.
LEMMA StepContinues ==
    ASSUME TypeOK, NEW from, NEW m, NEW next, Step(from, m, next), cmd.op \in Transactions
    PROVE  /\ Continues(from, next) /\ machine' = m
           /\ UNCHANGED <<journal, published>>
  BY Going, GoingService DEF Step, Continues

\* update_phase
LEMMA PhaseContinues ==
    ASSUME NoneAssumption, TypeOK, NEW from, NEW phase \in Phases, NEW next,
           Phase(from, phase, next), cmd.op \in Transactions, Unfinished
    PROVE  /\ Continues(from, next) /\ journal' # None /\ journal'.phase = phase
           /\ UNCHANGED <<machine, published>>
  BY Going, GoingService, PhaseChanged DEF Phase, Continues, Unfinished

\* What such a step has to show.
LEMMA ContinuesHalfway ==
    ASSUME Halfway, NEW next \in Open, cmd.pc \in Open, Continues(cmd.pc, next), Unfinished',
           PathFits', Pointers', Saved', Served'
    PROVE  Halfway'
  <1>1. cmd'.op \in Transactions /\ cmd'.pc = next /\ next # "begin"
    BY DEF Continues, Open, ForwardSteps
  <1>2. JournalFits'
    BY <1>1 DEF JournalFits, Transactions, DirectCommands
  <1> QED BY <1>2 DEF Halfway

\* The operation fails into the compensation.
LEMMA FailsHalfway ==
    ASSUME Halfway, cmd.op \in Transactions, cmd.pc \in Open, cmd'.pc = "undoStop",
           cmd'.op = cmd.op, UNCHANGED <<published, journal>>
    PROVE  /\ Unfinished' /\ journal'.before = journal.before /\ published \subseteq published'
           /\ Halfway'
  <1>1. Unfinished /\ Unfinished'
    BY DEF Halfway, JournalFits, Open, ForwardSteps, Unfinished
  <1>2. JournalFits' /\ PathFits'
    BY <1>1 DEF JournalFits, PathFits, ServiceSteps, Transactions, DirectCommands
  <1>3. Pointers' /\ Saved' /\ Served'
    BY NotHalfway DEF Open, ForwardSteps
  <1> QED BY <1>1, <1>2, <1>3 DEF Halfway

\* A step of a transaction's operation keeps what is half done: it changes the part of
\* the machine its place in the order says, or fails into the compensation.
LEMMA TransactionSteps ==
    ASSUME NoneAssumption, SetupAssumption, TypeOK, StepFits, SnapshotFits, Halfway, Operation,
           ~Commit, cmd.op \in Transactions
    PROVE  /\ Unfinished' /\ journal'.before = journal.before /\ published \subseteq published'
           /\ Halfway'
  <1> DEFINE Goal == /\ Unfinished' /\ journal'.before = journal.before
                     /\ published \subseteq published' /\ Halfway'
  <1>0. /\ cmd.pc \in Open => Unfinished
        /\ cmd.op \in {"apply", "rollback"} /\ machine \in Machines
    BY DEF Halfway, JournalFits, Transactions, Open, ForwardSteps, TypeOK
  <1>1. ASSUME NEW next \in Open, cmd.pc \in Open, Continues(cmd.pc, next), UNCHANGED journal,
               PathFits', Pointers', Saved', Served'
        PROVE  Goal
    <2>1. Unfinished'
      BY <1>0, <1>1 DEF Unfinished
    <2> QED BY <1>1, <2>1, ContinuesHalfway DEF Continues
  <1>2. ASSUME NEW next \in Open, cmd.pc \in Open, NEW phase \in Phases \ Finished,
               Phase(cmd.pc, phase, next), PathFits', Pointers', Saved', Served'
        PROVE  Goal
    <2>1. Continues(cmd.pc, next) /\ Unfinished'
      BY <1>0, <1>2, PhaseContinues DEF Unfinished
    <2> QED BY <1>2, <2>1, ContinuesHalfway DEF Continues
  <1> USE DEF Halfway, PathFits, Pointers, Saved, Served, Moving, Switched, Open, Early, Unsaved,
              ServiceSteps, ForwardSteps, Transactions
  <1>3. CASE PlanIsStale \/ TargetMissing \/ NothingToEnable
    BY <1>3, FailsHalfway, Going DEF PlanIsStale, TargetMissing, Refuse, NothingToEnable, Goto
  <1>4. CASE Check
    <2>1. PICK next \in {"stop", "publish", "activate"} :
             /\ Continues("check", next) /\ UNCHANGED <<machine, journal>>
             /\ next = "stop" => cmd.op = "rollback" \/ cmd.service
             /\ next = "publish" => cmd.op = "apply"
      BY <1>4 DEF Check, Continues, TypeOK, Commands
    <2> QED BY <1>0, <1>1, <2>1 DEF Continues, Active
  <1>5. CASE StopService
    <2>1. PICK next \in {"publish", "activate"} :
             /\ Goto(next) /\ cmd.pc = "stop" /\ machine' = Stop(machine)
             /\ UNCHANGED <<published, journal>>
      BY <1>0, <1>5 DEF StopService
    <2>2. Continues("stop", next)
      BY <2>1, Going, GoingService DEF Continues
    <2>3. /\ machine'.current = machine.current /\ machine'.previous = machine.previous
          /\ machine'.config = machine.config /\ machine'.unit = machine.unit
          /\ ~Active(machine)'
      BY <1>0, <2>1 DEF Stop, Active, Machines
    <2> QED BY <1>0, <1>1, <2>1, <2>2, <2>3 DEF Continues
  <1>6. CASE Publish
    <2>1. Continues("publish", "activate") /\ UNCHANGED <<machine, journal>>
      BY <1>6, Going, GoingService DEF Publish, Continues
    <2> QED BY <1>0, <1>1, <2>1 DEF Continues, Active
  <1>7. CASE Activate
    <2>1. PICK next \in {"link", "activated"} :
             /\ Step("activate", [machine EXCEPT !.current = Target], next)
             /\ next = "link" <=> machine.current # Target /\ machine.current # None
      BY <1>7 DEF Activate
    <2>2. /\ Continues("activate", next) /\ UNCHANGED <<journal, published>>
          /\ machine' = [machine EXCEPT !.current = Target]
      BY <2>1, StepContinues
    <2>3. /\ machine'.current = Target /\ machine'.previous = machine.previous
          /\ machine'.config = machine.config /\ machine'.unit = machine.unit
          /\ Active(machine)' = Active(machine)
      BY <1>0, <2>2 DEF Active, Machines
    <2>4. Target \in published
      BY <1>7 DEF Activate
    <2> QED BY <1>0, <1>1, <2>1, <2>2, <2>3, <2>4, SMTT(30) DEF Continues
  <1>8. CASE LinkPrevious
    <2>1. /\ Continues("link", "activated") /\ UNCHANGED <<journal, published>>
          /\ machine' = [machine EXCEPT !.previous = journal.before.current]
      BY <1>8, StepContinues DEF LinkPrevious
    <2>2. /\ machine'.current = machine.current /\ machine'.previous = journal.before.current
          /\ machine'.config = machine.config /\ machine'.unit = machine.unit
          /\ Active(machine)' = Active(machine)
      BY <1>0, <2>1 DEF Active, Machines
    <2> QED BY <1>0, <1>1, <2>1, <2>2 DEF Continues
  <1>9. CASE SaveConfig
    <2>1. /\ Continues("config", "saved") /\ UNCHANGED <<journal, published>>
          /\ machine' = [machine EXCEPT !.config = IF @ = None THEN "default" ELSE @]
      BY <1>9, StepContinues DEF SaveConfig
    <2>2. /\ machine'.current = machine.current /\ machine'.previous = machine.previous
          /\ machine'.config = IF machine.config = None THEN "default" ELSE machine.config
          /\ machine'.unit = machine.unit
          /\ Active(machine)' = Active(machine)
      BY <1>0, <2>1 DEF Active, Machines
    <2> QED BY <1>0, <1>1, <2>1, <2>2 DEF Continues
  <1>10. CASE WriteUnit
    <2>1. /\ Continues("write", "reload") /\ UNCHANGED <<journal, published>>
          /\ machine' = [machine EXCEPT !.unit = "bundle"] /\ cmd.op = "apply" /\ cmd.service
      BY <1>0, <1>10, StepContinues DEF WriteUnit, Continues
    <2>2. /\ machine'.current = machine.current /\ machine'.previous = machine.previous
          /\ machine'.config = machine.config /\ machine'.unit = "bundle"
      BY <1>0, <2>1 DEF Machines
    <2> QED BY <1>0, <1>1, <2>1, <2>2 DEF Continues
  <1>11. CASE ReloadUnits
    <2>1. PICK next \in {"registered", "enable"} :
             /\ Continues("reload", next) /\ UNCHANGED <<journal, published>>
             /\ machine' = Reload(machine)
      BY <1>11, StepContinues DEF ReloadUnits
    <2>2. /\ machine'.current = machine.current /\ machine'.previous = machine.previous
          /\ machine'.config = machine.config /\ machine'.unit = machine.unit
      BY <1>0, <2>1, ServiceCalls
    <2>3. cmd.op = "apply" /\ cmd.service
      BY <1>0, <2>1 DEF Continues
    <2> QED BY <1>0, <1>1, <2>1, <2>2, <2>3 DEF Continues
  <1>12. CASE Enable
    <2>1. /\ Continues("enable", "launch") /\ UNCHANGED <<journal, published>>
          /\ machine' = SetEnabled(machine, TRUE) /\ machine.unit # None
      BY <1>12, StepContinues DEF Enable
    <2>2. /\ machine'.current = machine.current /\ machine'.previous = machine.previous
          /\ machine'.config = machine.config /\ machine'.unit = machine.unit
      BY <1>0, <2>1, ServiceCalls
    <2>3. Active(machine)' = Active(machine)
      BY <1>0, <2>1, SetEnabledFields DEF Active
    <2> QED BY <1>0, <1>1, <2>1, <2>2, <2>3, ZenonT(40) DEF Continues
  <1>13. CASE LaunchService
    <2>1. PICK next \in {"registered", "health"} :
             /\ Goto(next) /\ cmd.pc = "launch" /\ machine' = Launch(machine)
             /\ next = "registered" => cmd.op = "apply"
             /\ UNCHANGED <<published, journal>>
      BY <1>0, <1>13 DEF LaunchService
    <2>2. Continues("launch", next)
      BY <2>1, Going, GoingService DEF Continues
    <2>3. /\ machine'.current = machine.current /\ machine'.previous = machine.previous
          /\ machine'.config = machine.config /\ machine'.unit = machine.unit
      BY <1>0, <2>1, ServiceCalls
    <2> QED BY <1>0, <1>1, <2>1, <2>2, <2>3, ZenonT(40) DEF Continues
  <1>14. CASE ControlService
    <2>1. PICK next \in {"health", "enable"} :
             /\ Continues("control", next) /\ UNCHANGED <<journal, published>>
             /\ machine' = machine \/ (machine' = Restart(machine) /\ Active(machine))
      BY <1>14, StepContinues DEF ControlService
    <2>2. /\ machine'.current = machine.current /\ machine'.previous = machine.previous
          /\ machine'.config = machine.config /\ machine'.unit = machine.unit
      <3>1. CASE machine' = machine
        BY <3>1
      <3>2. CASE machine' = Restart(machine)
        BY <1>0, <3>2, ServiceCalls
      <3> QED BY <2>1, <3>1, <3>2
    <2>3. Active(machine)' => Active(machine)
      BY <2>1 DEF Active
    <2> QED BY <1>0, <1>1, <2>1, <2>2, <2>3 DEF Continues
  <1>15. CASE HealthWait
    <2>1. Continues("health", "checked") /\ UNCHANGED <<machine, journal>>
      BY <1>15, Going, GoingService DEF HealthWait, Continues
    <2> QED BY <1>0, <1>1, <2>1 DEF Continues, Active
  <1>16. CASE RuntimeActivated
    <2>1. PICK next \in {"config", "control", "commit"} :
             /\ Phase("activated", "RuntimeActivated", next) /\ cmd.pc = "activated"
             /\ next = "config" <=> cmd.op = "apply"
      BY <1>16 DEF RuntimeActivated, Phase
    <2>2. Continues("activated", next) /\ UNCHANGED machine
      BY <1>0, <2>1, PhaseContinues DEF Phases
    <2> QED BY <1>0, <1>2, <2>1, <2>2, SMTT(30) DEF Continues, Active, Phases, Finished
  <1>17. CASE ConfigSaved
    <2>1. PICK next \in {"commit", "write", "control"} :
             /\ Phase("saved", "ConfigSaved", next) /\ cmd.pc = "saved"
             /\ cmd.op = "apply" /\ cmd.service \in BOOLEAN
             /\ next # "commit" => cmd.service
             /\ next # "write" /\ cmd.service => machine.unit = "bundle"
      BY <1>0, <1>17 DEF ConfigSaved, Phase, TypeOK, Commands
    <2>2. Continues("saved", next) /\ UNCHANGED machine
      BY <1>0, <2>1, PhaseContinues DEF Phases
    <2> QED BY <1>0, <1>2, <2>1, <2>2, ZenonT(40) DEF Continues, Active, Phases, Finished
  <1>18. CASE ServiceRegistered
    <2>1. PICK next \in {"started", "commit"} :
             Phase("registered", "ServiceRegistered", next) /\ cmd.pc = "registered"
      BY <1>18 DEF ServiceRegistered, Phase
    <2>2. Continues("registered", next) /\ UNCHANGED machine
      BY <1>0, <2>1, PhaseContinues DEF Phases
    <2> QED BY <1>0, <1>2, <2>1, <2>2, ZenonT(40) DEF Continues, Active, Phases, Finished
  <1>19. CASE ServiceStarted
    <2>1. Phase("started", "ServiceStarted", "health") /\ cmd.pc = "started"
      BY <1>19 DEF ServiceStarted, Phase
    <2>2. Continues("started", "health") /\ UNCHANGED machine
      BY <1>0, <2>1, PhaseContinues DEF Phases
    <2> QED BY <1>0, <1>2, <2>1, <2>2 DEF Continues, Active, Phases, Finished
  <1>20. CASE HealthChecked
    <2>1. Phase("checked", "HealthChecked", "commit") /\ cmd.pc = "checked"
      BY <1>20 DEF HealthChecked, Phase
    <2>2. Continues("checked", "commit") /\ UNCHANGED machine
      BY <1>0, <2>1, PhaseContinues DEF Phases
    <2> QED BY <1>0, <1>2, <2>1, <2>2 DEF Continues, Active, Phases, Finished
  <1>21. CASE ActivationWaits
    <2>1. Continues("control", "checked") /\ UNCHANGED <<machine, journal>>
      BY <1>21, Going, GoingService DEF ActivationWaits, Continues
    <2> QED BY <1>0, <1>1, <2>1 DEF Continues, Active
  <1>22. ~(DisableService \/ ForgetUnit \/ RemoveUnit \/ EditConfig)
    BY DEF DisableService, ForgetUnit, RemoveUnit, EditConfig, Step, StepFits, DirectSteps,
           DirectCommands
  <1> QED
    BY <1>3, <1>4, <1>5, <1>6, <1>7, <1>8, <1>9, <1>10, <1>11, <1>12, <1>13, <1>14, <1>15, <1>16,
       <1>17, <1>18, <1>19, <1>20, <1>21, <1>22
    DEF Operation

-----------------------------------------------------------------------------
(* The other steps.                                                        *)

\* The commit makes the installation what the operation made of it.
LEMMA CommitStep ==
    ASSUME NoneAssumption, TypeOK, StepFits, Halfway, Commit
    PROVE  /\ cmd.pc = "commit" /\ cmd.op \in Transactions /\ Unfinished /\ ~Unfinished'
           /\ cmd'.op = cmd.op /\ UNCHANGED <<machine, published>> /\ Halfway'
  <1>1. Phase("commit", "Committed", "clear") /\ cmd.pc = "commit" /\ cmd.op \in Transactions
    BY DEF Commit, Phase, StepFits, SharedSteps, DirectSteps
  <1>2. Unfinished
    BY <1>1 DEF Halfway, JournalFits
  <1>3. /\ cmd'.op = cmd.op /\ cmd'.pc = "clear" /\ journal'.phase = "Committed"
        /\ UNCHANGED <<machine, published>>
    BY <1>1, <1>2, PhaseContinues DEF Continues, Phases
  <1>4. Halfway'
    BY <1>1, <1>3, NotHalfway
    DEF Halfway, JournalFits, PathFits, ServiceSteps, Open, ForwardSteps, Transactions,
        DirectCommands
  <1> QED BY <1>1, <1>2, <1>3, <1>4 DEF Unfinished, Finished

\* A command that has ended is nowhere.
LEMMA EndedHalfway == ASSUME cmd' = NoCommand PROVE Halfway' /\ cmd'.op = "none"
  <1>1. cmd'.op = "none" /\ cmd'.pc = "idle"
    BY DEF NoCommand
  <1> QED BY <1>1, NotHalfway DEF Halfway, JournalFits, PathFits, ServiceSteps, Open,
        ForwardSteps, Transactions, DirectCommands

\* A direct command touches neither pointers nor journal.
LEMMA DirectKeepsPointers ==
    ASSUME TypeOK, StepFits, Halfway, Operation, cmd.op \notin Transactions
    PROVE  /\ cmd.op \in DirectCommands /\ journal = None /\ journal' = None
           /\ published' = published
           /\ machine'.current = machine.current /\ machine'.previous = machine.previous
           /\ Halfway'
  <1> DEFINE Other == {"stop", "publish", "activate", "write", "reload", "enable", "control",
                       "health", "disable", "forget", "remove", "edit"}
             Goal == /\ UNCHANGED <<journal, published>>
                     /\ machine'.current = machine.current
                     /\ machine'.previous = machine.previous
                     /\ \/ cmd' = NoCommand
                        \/ \E next \in Other : Goto(next)
                        \/ Goto("launch") /\ machine'.unit # None
  <1>0. cmd.pc \in SharedSteps \cup DirectSteps /\ machine \in Machines
    <2>1. cmd.pc \notin {"idle", "fence"}
      BY DEF Operation, PlanIsStale, Check, StopService, Publish, TargetMissing, Activate, Step,
         LinkPrevious, RuntimeActivated, Phase, SaveConfig, ConfigSaved, WriteUnit, ReloadUnits,
         Enable, NothingToEnable, LaunchService, ServiceRegistered, ServiceStarted, ControlService,
         ActivationWaits, HealthWait, HealthChecked, Commit, DisableService, ForgetUnit, RemoveUnit, EditConfig
    <2> QED BY <2>1 DEF StepFits, TypeOK
  <1>1. cmd.op \in DirectCommands /\ cmd.pc # "fence" /\ journal = None
    <2>1. cmd.op # "none" /\ cmd.pc # "fence"
      BY <1>0 DEF StepFits, SharedSteps, DirectSteps
    <2> QED BY <2>1 DEF TypeOK, Commands, Halfway, JournalFits
  <1>2. Goal
    <2> USE DEF SharedSteps, DirectSteps
    <2>1. CASE StopService
      <3>1. /\ machine' = Stop(machine) /\ UNCHANGED <<journal, published>>
            /\ End \/ Goto("publish") \/ Goto("activate") \/ Goto("disable")
        BY <1>0, <1>1, <2>1 DEF StopService, StepFits, Transactions, DirectCommands
      <3> QED BY <1>0, <3>1 DEF Stop, End, Machines
    <2>2. CASE WriteUnit
      <3>1. PICK u \in Units : Step("write", [machine EXCEPT !.unit = u], "reload")
        BY <2>2 DEF WriteUnit, Units
      <3> QED BY <1>0, <3>1 DEF Step, Machines
    <2>3. CASE ReloadUnits
      <3>1. Step("reload", Reload(machine), "enable")
        BY <1>1, <2>3 DEF ReloadUnits, DirectCommands
      <3> QED BY <1>0, <3>1, ServiceCalls DEF Step
    <2>4. CASE Enable
      <3>1. Step("enable", SetEnabled(machine, TRUE), "launch") /\ machine.unit # None
        BY <2>4 DEF Enable
      <3> QED BY <1>0, <3>1, SetEnabledFields DEF Step
    <2>5. CASE NothingToEnable \/ ActivationWaits \/ HealthWait
      BY <1>1, <2>5 DEF NothingToEnable, ActivationWaits, HealthWait, End, Transactions,
         DirectCommands
    <2>6. CASE LaunchService
      <3>1. machine' = Launch(machine) /\ UNCHANGED <<journal, published>>
            /\ (End \/ Goto("health"))
        BY <1>1, <2>6 DEF LaunchService, DirectCommands
      <3> QED BY <1>0, <3>1, ServiceCalls DEF End
    <2>7. CASE ControlService
      <3>1. CASE Step("control", Restart(machine), "health")
        BY <1>0, <3>1, ServiceCalls DEF Step
      <3>2. CASE Step("control", machine, "enable")
        BY <3>2 DEF Step
      <3> QED BY <2>7, <3>1, <3>2 DEF ControlService
    <2>8. CASE DisableService
      BY <1>0, <2>8, SetEnabledFields DEF DisableService, Step
    <2>9. CASE ForgetUnit
      BY <1>0, <2>9, ServiceCalls DEF ForgetUnit, Step
    <2>10. CASE RemoveUnit \/ EditConfig
      BY <1>0, <2>10 DEF RemoveUnit, EditConfig, End, Machines
    <2> QED
      BY <1>0, <2>1, <2>2, <2>3, <2>4, <2>5, <2>6, <2>7, <2>8, <2>9, <2>10
      DEF Operation, PlanIsStale, Check, Publish, TargetMissing, Activate, Step, LinkPrevious,
          RuntimeActivated, Phase, SaveConfig, ConfigSaved, ServiceRegistered, ServiceStarted,
          HealthChecked, Commit
  <1>3. Halfway'
    <2>1. CASE cmd' = NoCommand
      BY <2>1, EndedHalfway
    <2>2. ASSUME NEW next \in Other \cup {"launch"}, Goto(next),
                 next = "launch" => machine'.unit # None
          PROVE  Halfway'
      <3>1. cmd'.op = cmd.op /\ cmd'.pc = next /\ journal' = None
        BY <1>1, <1>2, <2>2, Going
      <3>2. JournalFits' /\ PathFits'
        BY <1>1, <2>2, <3>1 DEF JournalFits, PathFits, DirectCommands, Transactions
      <3>3. Pointers' /\ Saved' /\ Served'
        BY <3>1, NotHalfway
      <3> QED BY <3>2, <3>3 DEF Halfway
    <2> QED BY <1>2, <2>1, <2>2
  <1> QED BY <1>1, <1>2, <1>3

\* Nothing that the stable installation is read from changed.
LEMMA StableSame == ASSUME UNCHANGED <<machine, journal>> PROVE stable' = stable
  BY DEF stable, Unfinished, Snapshot, Active, Enabled

\* A finished journal is put away.
LEMMA StableCleared ==
    ASSUME ~Unfinished, UNCHANGED machine, journal' = None PROVE stable' = stable
  BY StableSeen DEF Unfinished, Active

\* The steps before an operation change nothing but the journal, which is put away when
\* it is finished and begun with a snapshot of the machine.
LEMMA OpeningStep ==
    ASSUME NoneAssumption, SetupAssumption, TypeOK, StepFits, SnapshotFits, Halfway, Opening
    PROVE  /\ stable' = stable /\ published' = published /\ Halfway'
  <1>1. machine' = machine /\ published' = published
    BY DEF Opening, BeginApply, BeginRollback, BeginDirect, Begin, RejectUnfinished,
           RecoverInterrupted, BeginTransaction
  <1>2. CASE cmd' = NoCommand /\ UNCHANGED journal
    BY <1>1, <1>2, StableSame, EndedHalfway
  <1>3. ASSUME cmd'.pc \notin Open, UNCHANGED journal, PathFits', JournalFits'
        PROVE  stable' = stable /\ Halfway'
    BY <1>1, <1>3, StableSame, NotHalfway DEF Halfway
  <1>4. ASSUME NEW op \in Transactions \cup DirectCommands, NEW target, NEW service, NEW ready,
               Begin(op, target, service, ready)
        PROVE  stable' = stable /\ Halfway'
    <2>1. /\ cmd'.op = op /\ cmd'.pc = IF op \in Transactions THEN "recover" ELSE "fence"
          /\ UNCHANGED journal
      BY <1>4 DEF Begin, NoCommand
    <2> QED BY <1>3, <2>1 DEF PathFits, JournalFits, Open, ForwardSteps, ServiceSteps, Transactions,
           DirectCommands
  <1>5. CASE RejectUnfinished /\ ~(cmd' = NoCommand /\ UNCHANGED journal)
    <2>1. Goto(FirstStep(cmd.op)) /\ ~Unfinished /\ journal' = None /\ cmd.op \in DirectCommands
      BY <1>5 DEF RejectUnfinished, End, StepFits
    <2>2. /\ cmd'.op = cmd.op
          /\ cmd'.pc \in {"write", "stop", "control", "edit"}
      BY <2>1, Going DEF FirstStep, DirectCommands
    <2>3. JournalFits' /\ PathFits'
      BY <2>1, <2>2 DEF JournalFits, PathFits, DirectCommands, Transactions
    <2>4. Pointers' /\ Saved' /\ Served'
      BY <2>1, <2>2, NotHalfway DEF DirectCommands, Transactions
    <2> QED BY <1>1, <2>1, <2>3, <2>4, StableCleared DEF Halfway
  <1>6. CASE RecoverInterrupted
    <2>1. CASE Unfinished
      <3>1. cmd'.op = cmd.op /\ cmd'.pc = "undoStop" /\ UNCHANGED journal /\ Unfinished'
            /\ cmd.op \in Transactions
        BY <1>6, <2>1 DEF RecoverInterrupted, TypeOK, Commands, StepFits, SharedSteps, DirectSteps,
           Unfinished
      <3> QED BY <1>1, <1>3, <3>1 DEF PathFits, JournalFits, Open, ForwardSteps, ServiceSteps,
            DirectCommands, Transactions
    <2>2. CASE ~Unfinished
      <3>1. cmd'.op = cmd.op /\ cmd'.pc = "begin" /\ journal' = None /\ cmd.op \in Transactions
        BY <1>6, <2>2, Going DEF RecoverInterrupted, StepFits, SharedSteps, DirectSteps
      <3>2. JournalFits' /\ PathFits'
        BY <3>1 DEF JournalFits, PathFits, ServiceSteps
      <3>3. Pointers' /\ Saved' /\ Served'
        BY <3>1, NotHalfway DEF Open, ForwardSteps
      <3> QED BY <1>1, <2>2, <3>1, <3>2, <3>3, StableCleared DEF Halfway
    <2> QED BY <2>1, <2>2
  <1>7. CASE BeginTransaction /\ ~(cmd' = NoCommand /\ UNCHANGED journal)
    <2>1. /\ Goto("check") /\ cmd.pc = "begin" /\ ~(Installed(machine) /\ machine.unit = None)
          /\ journal' = [operation |-> cmd.op, phase |-> "Prepared", before |-> Snapshot(machine)]
      BY <1>7 DEF BeginTransaction, End
    <2>2. /\ cmd.op \in Transactions /\ cmd'.op = cmd.op /\ cmd'.pc = "check"
          /\ journal = None
      BY <2>1, Going DEF StepFits, SharedSteps, DirectSteps, Halfway, JournalFits
    <2>3. journal' # None
      <3>1. journal' \in Records
        BY <2>1, <2>2, MachineOperators DEF TypeOK, Records, Phases
      <3> QED BY <3>1 DEF NoneAssumption
    <2>4. /\ ~Unfinished /\ Unfinished' /\ journal'.before = Snapshot(machine)
      BY <2>1, <2>2, <2>3 DEF Unfinished, Finished
    <2>5. /\ journal'.before.current = machine.current
          /\ journal'.before.previous = machine.previous
          /\ journal'.before.config = machine.config /\ journal'.before.unit = machine.unit
          /\ journal'.before.active = Active(machine)
      BY <2>4 DEF Snapshot
    <2>6. Active(machine) => machine.unit # None
      BY <2>1 DEF Installed
    <2>7. Active(machine)' = Active(machine)
      BY <1>1 DEF Active
    <2>8. JournalFits' /\ PathFits'
      BY <2>2, <2>4 DEF JournalFits, PathFits, ServiceSteps, Transactions, DirectCommands
    <2>9. Pointers' /\ Saved' /\ Served'
      BY <1>1, <2>2, <2>5, <2>6, <2>7
      DEF Pointers, Saved, Served, Moving, Early, Unsaved, Open, ServiceSteps, ForwardSteps
    <2> QED BY <1>1, <2>4, <2>8, <2>9, StableTaken DEF Halfway
  <1>8. CASE BeginApply \/ BeginRollback \/ BeginDirect
    BY <1>1, <1>4, <1>8 DEF BeginApply, BeginRollback, BeginDirect, Transactions
  <1> QED
    BY <1>1, <1>2, <1>5, <1>6, <1>7, <1>8
    DEF Opening, RejectUnfinished, BeginTransaction, End

\* A compensation that ends without an error has restored the snapshot.
LEMMA SnapshotRestored ==
    ASSUME IInv, Unfinished, cmd.pc = "compensated", ~cmd.errors
    PROVE  Snapshot(machine) = journal.before
  BY RestoredAtTheEnd DEF CompensationRestores, Unfinished, Finished

\* A compensation leaves the stable installation as it is: until the journal is closed
\* it is the snapshot, and then the machine equals it.
LEMMA CompensationStep ==
    ASSUME NoneAssumption, SetupAssumption, IInv, Halfway, Compensation
    PROVE  stable' = stable /\ published' = published /\ Halfway'
  <1>0. cmd.op \in Transactions /\ published' = published /\ journal # None
    BY UnderJournal DEF IInv, StepFits, SharedSteps, DirectSteps, Compensation, UndoStop,
       UndoDisable, UndoCurrent,
       UndoPrevious, UndoConfig, UndoUnit, UndoReload, UndoEnable, UndoLaunch, UndoVerify,
       Compensated, Clear, Undo, Step, Phase, UndoSteps
  <1>1. ASSUME cmd.pc \in UndoSteps, cmd'.pc \in UndoSteps \cup {"compensated"}, cmd'.op = cmd.op,
               UNCHANGED journal
        PROVE  stable' = stable /\ Halfway'
    <2>1. Unfinished /\ Unfinished'
      BY <1>0, <1>1 DEF Halfway, JournalFits, UndoSteps, Unfinished
    <2>2. JournalFits' /\ PathFits'
      BY <1>0, <1>1, <2>1 DEF JournalFits, PathFits, UndoSteps, ServiceSteps, Transactions,
         DirectCommands
    <2>3. Pointers' /\ Saved' /\ Served'
      BY <1>1, NotHalfway DEF Open, ForwardSteps, UndoSteps
    <2> QED BY <1>1, <2>1, <2>2, <2>3, StableHeld DEF Halfway
  <1>2. ASSUME NEW from \in DOMAIN NextUndo, NEW m, Undo(from, m)
        PROVE  stable' = stable /\ Halfway'
    BY <1>1, <1>2, Going DEF Undo, Step, NextUndo, UndoSteps, IInv
  <1>3. CASE UndoVerify
    BY <1>1, <1>3 DEF UndoVerify, UndoSteps, IInv, TypeOK, Commands
  <1>4. CASE Compensated /\ cmd.errors
    BY <1>4, StableSame, EndedHalfway DEF Compensated, End
  <1>5. CASE Compensated /\ ~cmd.errors
    <2>1. Phase("compensated", "Compensated", "clear") /\ cmd.pc = "compensated" /\ TypeOK
      BY <1>5 DEF Compensated, Phase, IInv
    <2>2. Unfinished
      BY <1>0, <2>1 DEF Halfway, JournalFits
    <2>3. /\ cmd'.op = cmd.op /\ cmd'.pc = "clear" /\ journal'.phase = "Compensated"
          /\ UNCHANGED machine
      BY <1>0, <2>1, <2>2, PhaseContinues DEF Continues, Phases
    <2>4. ~Unfinished'
      BY <2>3 DEF Unfinished, Finished
    <2>5. JournalFits' /\ PathFits'
      BY <1>0, <2>3 DEF JournalFits, PathFits, ServiceSteps, Transactions, DirectCommands
    <2>6. Pointers' /\ Saved' /\ Served'
      BY <2>3, NotHalfway DEF Open, ForwardSteps
    <2> QED BY <1>0, <1>5, <2>1, <2>2, <2>3, <2>4, <2>5, <2>6, SnapshotRestored, StableRestored
        DEF Halfway
  <1>6. CASE Clear
    <2>1. /\ ~Unfinished /\ journal' = None /\ UNCHANGED machine
          /\ cmd' = NoCommand \/ (cmd'.pc = "begin" /\ cmd'.op = cmd.op)
      BY <1>6 DEF Clear, End, IInv, StepFits, Unfinished, TypeOK, Commands
    <2>2. CASE cmd' = NoCommand
      BY <1>0, <2>1, <2>2, StableCleared, EndedHalfway
    <2>3. CASE cmd'.pc = "begin" /\ cmd'.op = cmd.op
      <3>1. JournalFits' /\ PathFits'
        BY <1>0, <2>1, <2>3 DEF JournalFits, PathFits, ServiceSteps, Transactions, DirectCommands
      <3>2. Pointers' /\ Saved' /\ Served'
        BY <2>3, NotHalfway DEF Open, ForwardSteps
      <3> QED BY <1>0, <2>1, <3>1, <3>2, StableCleared DEF Halfway
    <2> QED BY <2>1, <2>2, <2>3
  <1>7. DOMAIN NextUndo = UndoSteps \ {"undoVerify"}
    BY DEF NextUndo, UndoSteps
  <1>8. CASE UndoStop \/ UndoDisable \/ UndoCurrent \/ UndoPrevious \/ UndoConfig \/ UndoUnit
               \/ UndoReload \/ UndoEnable \/ UndoLaunch
    BY <1>0, <1>2, <1>7, <1>8 DEF UndoStop, UndoDisable, UndoCurrent, UndoPrevious, UndoConfig, UndoUnit,
       UndoReload, UndoEnable, UndoLaunch, UndoSteps
  <1> QED BY <1>0, <1>3, <1>4, <1>5, <1>6, <1>8 DEF Compensation

\* What the system is after it started again.
Restarted ==
    \E on \in BOOLEAN : stable' = [stable EXCEPT !.active = on]

\* A failure leaves the stable installation as it is, or completes a commit, or the
\* system has started again.
LEMMA FailureStep ==
    ASSUME NoneAssumption, SetupAssumption, IInv, Halfway, Failure
    PROVE  /\ published' = published /\ Halfway'
           /\ \/ stable' = stable
              \/ Reboot /\ Restarted
              \/ /\ JournalFails /\ cmd.pc = "commit" /\ cmd.op \in Transactions
                 /\ UNCHANGED machine /\ Unfinished /\ ~Unfinished'
  <1>0. /\ published' = published /\ TypeOK /\ StepFits /\ machine \in Machines
        /\ cmd.pc \in UndoSteps \cup {"link", "commit", "compensated"} => journal # None
    BY UnderJournal DEF Failure, StepFails, LinkFails, UndoFails, ProbeFails, JournalFails, Crash,
       Reboot, IInv, TypeOK
  <1>1. ASSUME End, UNCHANGED <<machine, journal>> PROVE stable' = stable /\ Halfway'
    BY <1>1, StableSame, EndedHalfway DEF End
  <1>2. CASE ProbeFails \/ Crash
    BY <1>0, <1>1, <1>2 DEF ProbeFails, Crash
  <1>3. ASSUME Goto("undoStop"), cmd.op \in Transactions, cmd.pc \in Open, UNCHANGED journal
        PROVE  stable' = stable /\ Halfway'
    <2>1. cmd'.pc = "undoStop" /\ cmd'.op = cmd.op
      BY <1>0, <1>3, Going
    <2>2. Unfinished /\ Unfinished' /\ Halfway'
      BY <1>0, <1>3, <2>1, FailsHalfway DEF Halfway, JournalFits, Open, ForwardSteps
    <2> QED BY <1>3, <2>2, StableHeld
  <1>4. CASE StepFails
    <2>1. cmd.op \in Transactions => cmd.pc \in Open
      BY <1>0, <1>4 DEF StepFails, StepFits, DirectSteps, Open, Transactions, DirectCommands
    <2> QED BY <1>0, <1>1, <1>3, <1>4, <2>1 DEF StepFails
  <1>5. CASE LinkFails
    BY <1>0, <1>3, <1>5 DEF LinkFails, StepFits, SharedSteps, DirectSteps, Open, ForwardSteps
  <1>6. CASE UndoFails
    <2>1. /\ cmd.pc \in UndoSteps /\ cmd'.pc \in UndoSteps /\ cmd'.op = cmd.op
          /\ UNCHANGED journal /\ cmd.op \in Transactions
      BY <1>0, <1>6 DEF UndoFails, NextUndo, UndoSteps, TypeOK, Commands, StepFits, SharedSteps,
         DirectSteps
    <2>2. Unfinished /\ Unfinished'
      BY <1>0, <2>1 DEF Halfway, JournalFits, UndoSteps, Unfinished
    <2>3. JournalFits' /\ PathFits'
      BY <2>1, <2>2 DEF JournalFits, PathFits, UndoSteps, ServiceSteps, Transactions,
         DirectCommands
    <2>4. Pointers' /\ Saved' /\ Served'
      BY <2>1, NotHalfway DEF Open, ForwardSteps, UndoSteps
    <2> QED BY <1>0, <2>1, <2>2, <2>3, <2>4, StableHeld DEF Halfway
  <1>7. CASE JournalFails
    <2>1. End /\ UNCHANGED machine /\ Halfway'
      BY <1>7, EndedHalfway DEF JournalFails, End
    <2>2. CASE UNCHANGED journal
      BY <1>0, <1>1, <2>1, <2>2
    <2>3. CASE cmd.pc = "commit" /\ journal' = [journal EXCEPT !.phase = "Committed"]
      <3>1. cmd.op \in Transactions /\ Unfinished
        BY <1>0, <2>3 DEF StepFits, SharedSteps, DirectSteps, Halfway, JournalFits
      <3>2. ~Unfinished'
        BY <1>0, <2>3, PhaseChanged DEF Phases, Unfinished, Finished, Open
      <3> QED BY <1>0, <1>7, <2>1, <2>3, <3>1, <3>2
    <2>4. CASE /\ cmd.pc = "compensated" /\ ~cmd.errors
               /\ journal' = [journal EXCEPT !.phase = "Compensated"]
      <3>1. Unfinished
        BY <1>0, <2>4 DEF StepFits, SharedSteps, DirectSteps, Halfway, JournalFits
      <3>2. ~Unfinished'
        BY <1>0, <2>4, PhaseChanged DEF Phases, Unfinished, Finished
      <3> QED BY <1>0, <2>1, <2>4, <3>1, <3>2, SnapshotRestored, StableRestored
    <2>5. CASE cmd.pc = "clear" /\ journal' = None
      <3>1. ~Unfinished
        BY <1>0, <2>5 DEF StepFits, Unfinished
      <3> QED BY <1>0, <2>1, <2>5, <3>1, StableCleared
    <2> QED BY <1>7, <2>2, <2>3, <2>4, <2>5 DEF JournalFails
  <1>8. CASE Reboot
    <2> DEFINE m == Stop(Reload(machine))
    <2>1. /\ End /\ UNCHANGED journal /\ machine' \in {m, Launch(m)} /\ m \in Machines
      BY <1>0, <1>8, MachineOperators DEF Reboot, Stop
    <2>2. /\ machine'.current = m.current /\ machine'.previous = m.previous
          /\ machine'.config = m.config /\ machine'.unit = m.unit
      BY <2>1, ServiceCalls
    <2>3. /\ m.current = machine.current /\ m.previous = machine.previous
          /\ m.config = machine.config /\ m.unit = machine.unit
      BY <1>0 DEF Stop, Reload, Machines
    <2>4. Halfway'
      BY <2>1, EndedHalfway DEF End
    <2>5. CASE Unfinished
      BY <1>0, <2>1, <2>4, <2>5, StableHeld DEF Unfinished
    <2>6. CASE ~Unfinished
      <3>1. stable' = [stable EXCEPT !.active = Active(machine)']
        BY <2>1, <2>2, <2>3, <2>6 DEF stable, Unfinished, Snapshot
      <3>2. Active(machine)' \in BOOLEAN
        BY DEF Active
      <3> QED BY <1>0, <1>8, <2>4, <3>1, <3>2 DEF Restarted
    <2> QED BY <2>5, <2>6
  <1> QED BY <1>2, <1>4, <1>5, <1>6, <1>7, <1>8 DEF Failure

-----------------------------------------------------------------------------
(* What a commit makes of the installation.                                *)

\* The phase of the journal goes to Committed, with an error or without.
Commits ==
    /\ cmd.pc = "commit" /\ cmd.op \in Transactions /\ Unfinished /\ ~Unfinished'
    /\ UNCHANGED <<machine, published>>

\* Before the commit the stable installation is the snapshot, and after it the machine,
\* which an activation, the config and the service have moved on from the snapshot.
LEMMA CommitFacts ==
    ASSUME SetupAssumption, TypeOK, Halfway, Targets, Commits
    PROVE  /\ stable'.current \in published /\ stable'.current \in Versions
           /\ stable'.previous = IF stable.current \in {None, stable'.current}
                                 THEN stable.previous ELSE stable.current
           /\ stable'.config = IF cmd.op = "apply" /\ stable.config = None THEN "default"
                               ELSE stable.config
           /\ cmd.op = "apply" /\ cmd.service => stable'.unit = "bundle"
           /\ cmd.op = "apply" /\ ~cmd.service =>
                 stable'.unit = stable.unit /\ stable'.active = stable.active
           /\ cmd.op = "rollback" =>
                 stable'.unit = stable.unit /\ (stable'.active => stable.unit # None)
           /\ stable'.active \in BOOLEAN
  <1>1. /\ stable.current = journal.before.current /\ stable.previous = journal.before.previous
        /\ stable.config = journal.before.config /\ stable.unit = journal.before.unit
        /\ stable.active = journal.before.active
    BY DEF stable, Commits
  <1>2. /\ stable'.current = machine.current /\ stable'.previous = machine.previous
        /\ stable'.config = machine.config /\ stable'.unit = machine.unit
        /\ stable'.active = Active(machine)
    BY DEF stable, Snapshot, Commits, Active
  <1>3. Switched
    BY DEF Halfway, Pointers, Moving, Open, Early, Commits
  <1>4. /\ machine.config = IF cmd.op = "apply" /\ journal.before.config = None THEN "default"
                            ELSE journal.before.config
    BY DEF Halfway, Saved, Moving, Open, Unsaved, Early, Commits
  <1>5. /\ cmd.op = "apply" /\ cmd.service => machine.unit = "bundle"
        /\ cmd.op = "apply" /\ ~cmd.service =>
              machine.unit = journal.before.unit /\ Active(machine) = journal.before.active
        /\ cmd.op = "rollback" =>
              machine.unit = journal.before.unit /\ (Active(machine) => machine.unit # None)
    BY DEF Halfway, Served, Moving, Open, ServiceSteps, Commits, Transactions
  <1>6. Active(machine) \in BOOLEAN /\ published \subseteq Versions
    BY DEF Active, TypeOK
  <1> QED BY <1>1, <1>2, <1>3, <1>4, <1>5, <1>6 DEF Switched

\* A rollback still has somewhere to go.
LEMMA CommitTargets ==
    ASSUME SetupAssumption, TypeOK, Halfway, Targets, Commits PROVE Targets'
  <1>1. published' = published /\ published \subseteq Versions
    BY DEF Commits, TypeOK
  <1> QED BY <1>1, CommitFacts DEF Targets, RollbackHasTarget, SetupAssumption

\* The update or the rollback of the abstract specification has happened.
LEMMA CommitImplements ==
    ASSUME SetupAssumption, TypeOK, Halfway, Targets, Commits
    PROVE  Outcome!Apply \/ Outcome!Rollback
  <1> DEFINE v == stable'.current  on == stable'.active
  <1>1. /\ stable = [current |-> stable.current, previous |-> stable.previous,
                     config |-> stable.config, unit |-> stable.unit, active |-> stable.active]
        /\ stable' = [current |-> v, previous |-> stable'.previous,
                      config |-> stable'.config, unit |-> stable'.unit, active |-> on]
    BY DEF stable
  <1>2. CASE cmd.op = "apply"
    <2>1. cmd.service \in BOOLEAN
      BY DEF TypeOK, Commands
    <2>2. stable' = Outcome!Applied(stable, v, cmd.service, on)
      BY <1>1, <1>2, <2>1, CommitFacts, ZenonT(40) DEF Outcome!Applied, Outcome!Activated
    <2> QED BY <1>2, <2>1, <2>2, CommitFacts DEF Outcome!Apply
  <1>3. CASE cmd.op = "rollback"
    <2>1. stable' = Outcome!RolledBack(stable, v, on)
      BY <1>1, <1>3, CommitFacts DEF Outcome!RolledBack, Outcome!Activated
    <2> QED BY <1>3, <2>1, CommitFacts DEF Outcome!Rollback
  <1> QED BY <1>2, <1>3 DEF Commits, Transactions

\* The pointers decide where a rollback can go.
LEMMA SamePointers ==
    ASSUME Targets, published \subseteq published',
           stable'.current = stable.current, stable'.previous = stable.previous
    PROVE  Targets'
  BY DEF Targets, RollbackHasTarget

\* Every step keeps what is half done and the targets of a rollback, and is a step of the
\* abstract specification.
LEMMA WholeStep ==
    ASSUME NoneAssumption, SetupAssumption, WholeInv, Next
    PROVE  Halfway' /\ Targets' /\ Outcome!Next
  <1>0. IInv /\ TypeOK /\ StepFits /\ SnapshotFits /\ Halfway /\ Targets
    BY DEF WholeInv, IInv
  <1>1. ASSUME stable' = stable, published \subseteq published' PROVE Targets' /\ Outcome!Next
    BY <1>0, <1>1, TargetsKept DEF Outcome!Next
  <1>2. ASSUME Commits PROVE Targets' /\ Outcome!Next
    BY <1>0, <1>2, CommitTargets, CommitImplements DEF Outcome!Next
  <1>3. CASE Opening
    BY <1>0, <1>1, <1>3, OpeningStep
  <1>4. CASE Commit
    BY <1>0, <1>2, <1>4, CommitStep DEF Commits
  <1>5. CASE Operation /\ ~Commit /\ cmd.op \in Transactions
    <2>1. /\ Unfinished' /\ journal'.before = journal.before /\ published \subseteq published'
          /\ Halfway'
      BY <1>0, <1>5, TransactionSteps
    <2>2. Unfinished
      <3>1. cmd.pc \notin {"recover", "begin", "clear"}
        BY <1>5 DEF Operation, PlanIsStale, Check, StopService, Publish, TargetMissing, Activate,
           Step, LinkPrevious, RuntimeActivated, Phase, SaveConfig, ConfigSaved, WriteUnit,
           ReloadUnits, Enable, NothingToEnable, LaunchService, ServiceRegistered, ServiceStarted,
           ControlService, ActivationWaits, HealthWait, HealthChecked, DisableService, ForgetUnit, RemoveUnit,
           EditConfig
      <3> QED BY <1>0, <1>5, <3>1 DEF Halfway, JournalFits
    <2> QED BY <1>1, <2>1, <2>2, StableHeld
  <1>6. CASE Operation /\ cmd.op \notin Transactions
    <2>1. /\ cmd.op \in DirectCommands /\ journal = None /\ journal' = None
          /\ published' = published
          /\ machine'.current = machine.current /\ machine'.previous = machine.previous
          /\ Halfway'
      BY <1>0, <1>6, DirectKeepsPointers
    <2>2. stable'.current = stable.current /\ stable'.previous = stable.previous
      BY <2>1 DEF stable, Unfinished, Snapshot
    <2>3. Targets'
      BY <1>0, <2>1, <2>2, SamePointers
    <2>4. Outcome!Direct
      BY <2>1, <2>2 DEF Outcome!Direct, DirectCommands
    <2> QED BY <2>1, <2>3, <2>4 DEF Outcome!Next
  <1>7. CASE Compensation
    BY <1>0, <1>1, <1>7, CompensationStep
  <1>8. CASE Failure
    <2>1. published' = published /\ Halfway'
      BY <1>0, <1>8, FailureStep
    <2>2. CASE stable' = stable
      BY <1>1, <2>1, <2>2
    <2>3. CASE Reboot /\ Restarted
      <3>1. PICK on \in BOOLEAN : stable' = [stable EXCEPT !.active = on]
        BY <2>3 DEF Restarted
      <3>2. stable'.current = stable.current /\ stable'.previous = stable.previous
        BY <3>1 DEF stable
      <3>3. Outcome!Reboot
        BY <2>3, <3>1 DEF Outcome!Reboot, Reboot, End, NoCommand
      <3> QED BY <1>0, <2>1, <3>2, <3>3, SamePointers DEF Outcome!Next
    <2>4. CASE /\ JournalFails /\ cmd.pc = "commit" /\ cmd.op \in Transactions
               /\ UNCHANGED machine /\ Unfinished /\ ~Unfinished'
      BY <1>2, <2>1, <2>4 DEF Commits
    <2> QED BY <1>0, <1>8, <2>1, <2>2, <2>3, <2>4, FailureStep
  <1> QED BY <1>3, <1>4, <1>5, <1>6, <1>7, <1>8 DEF Next

\* Nothing is half done at the start, and there is nowhere to go back to.
LEMMA WholeInit ==
    ASSUME NoneAssumption, Init PROVE Halfway /\ Targets /\ Outcome!Init
  <1>1. cmd.op = "none" /\ cmd.pc = "idle" /\ ~Unfinished
    BY DEF Init, NoCommand, Unfinished
  <1>2. Halfway
    BY <1>1 DEF Halfway, JournalFits, PathFits, Pointers, Saved, Served, Moving, Open, Early,
       Unsaved, ServiceSteps, ForwardSteps, Transactions, DirectCommands
  <1>3. stable = [current |-> None, previous |-> None, config |-> None, unit |-> None,
                  active |-> FALSE]
    BY <1>1 DEF stable, Init, Snapshot, Active
  <1> QED BY <1>1, <1>2, <1>3 DEF Targets, RollbackHasTarget, Outcome!Init

\* A transaction is half done at most as far as its step says, and whatever the journal
\* keeps to fall back on is an installation a rollback can leave.
THEOREM WholeInvariance == Spec => []WholeInv
  <1> USE SetupAssumption, NoneAssumption
  <1>1. Init => Halfway /\ Targets
    BY WholeInit
  <1>2. IInv /\ IInv' /\ Halfway /\ Targets /\ [Next]_vars => Halfway' /\ Targets'
    <2> SUFFICES ASSUME IInv, IInv', Halfway, Targets, [Next]_vars PROVE Halfway' /\ Targets'
      OBVIOUS
    <2>1. CASE Next
      BY <2>1, WholeStep DEF WholeInv
    <2>2. CASE UNCHANGED vars
      <3>1. stable' = stable /\ Halfway'
        BY <2>2, StableSame DEF vars, Halfway, JournalFits, PathFits, Pointers, Saved, Served,
           Moving, Switched, Unfinished, Active
      <3> QED BY <2>2, <3>1, TargetsKept DEF vars
    <2> QED BY <2>1, <2>2
  <1> QED BY <1>1, <1>2, Invariance, PTL DEF Spec, WholeInv

\* A rollback to the previous version has somewhere to go: both pointers name published
\* versions, and two different ones, also while a transaction is interrupted.
THEOREM RollbackCanGoBack == Spec => []RollbackHasTarget
  <1>1. WholeInv => RollbackHasTarget
    BY DEF WholeInv, Targets
  <1> QED BY <1>1, WholeInvariance, PTL

\* The commands implement SetupOutcome: as the next command finds the installation, an
\* update or a rollback happened as a whole or not at all, whatever failed or crashed.
THEOREM SetupImplementsOutcome == Spec => SetupIsAtomic
  <1> USE SetupAssumption, NoneAssumption
  <1>1. Init => Outcome!Init
    BY WholeInit
  <1>2. WholeInv /\ [Next]_vars => [Outcome!Next]_Outcome!vars
    <2> SUFFICES ASSUME WholeInv, [Next]_vars PROVE [Outcome!Next]_Outcome!vars
      OBVIOUS
    <2>1. CASE Next
      BY <2>1, WholeStep
    <2>2. CASE UNCHANGED vars
      BY <2>2, StableSame DEF vars, Outcome!Next
    <2> QED BY <2>1, <2>2
  <1> QED BY <1>1, <1>2, WholeInvariance, PTL DEF Spec, SetupIsAtomic, Outcome!Spec
=============================================================================
