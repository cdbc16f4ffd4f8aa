--------------------------- MODULE PluginAuthProofs ---------------------------
(***************************************************************************)
(* Theorems about PluginAuth for any accounts, organizations, flows and    *)
(* any number of faults and direct commands.                               *)
(***************************************************************************)
EXTENDS PluginAuth, TLAPS

\* What a command knows of the files at the step it has reached, as long as
\* no direct command has written them.
CommandKnows ==
    /\ cmd.op \notin {"login", "key", "logout"} /\ cmd.pc # "scope"
    /\ cmd.pc \in {"saveRunner", "saveRunnerId", "deleteRunner"} => config.runner = None
    /\ cmd.pc \in {"saveRunner", "saveRunnerId"} => Target # None
    /\ cmd.pc = "saveRunnerId" => stored.runner = Target
    /\ cmd.pc = "ready" => Ready

AuthInv ==
    /\ TypeOK
    /\ cmd.pc = "launch" => Ready
    /\ cmd.pc = "saveUser" => cmd.account \in Accounts
    /\ cmd.op = "org.create" => cmd.org \in Orgs
    /\ cmd.pc = "saveOrg" => stored.user # None
    /\ direct = 0 => CommandKnows
    /\ RunnerIdIsBacked

\* The steps of a command in progress keep its record.
LEMMA GotoCall ==
    ASSUME TypeOK, cmd.op # "none", NEW pc \in Steps, Goto(pc)
    PROVE  cmd' \in Calls /\ cmd'.op = cmd.op /\ cmd'.org = cmd.org /\ cmd'.pc = pc
  BY DEF TypeOK, NoCommand, Calls, Goto

\* The plugin that runs no command is told apart from every command.
LEMMA NoCommandIsNone == NoCommand.op = "none" /\ NoCommand.pc = "idle"
  BY DEF NoCommand

\* A command that ends leaves no obligation.
LEMMA IdleKnows ==
    ASSUME cmd' = NoCommand
    PROVE  cmd'.op \notin {"login", "key", "logout"}
           /\ cmd'.pc \notin {"saveRunner", "saveRunnerId", "deleteRunner", "ready", "launch", "saveUser",
                         "saveOrg", "scope"}
           /\ cmd'.op # "org.create"
  BY NoCommandIsNone

\* A bootstrap is for an organization.
LEMMA TargetType ==
    ASSUME TypeOK
    PROVE  Target \in Orgs \cup {None}
  BY DEF TypeOK, Target, Users

\* The steps of a device authorization.
LEMMA AuthorizeStep ==
    ASSUME AuthInv, AuthAssumption, Authorize
    PROVE  AuthInv'
  <1> USE DEF AuthInv, TypeOK
  <1>1. CASE AuthStart
    BY <1>1, GotoCall, IdleKnows
       DEF AuthStart, End, Unscoped, Steps, RunnerIdIsBacked, CommandKnows, Ready, Target
  <1>2. CASE Challenge
    BY <1>2, IdleKnows DEF Challenge, End, RunnerIdIsBacked, CommandKnows
  <1>3. CASE AuthWait
    <2>1. UNCHANGED <<config, stored, service, listing, backend, scoped, faults, direct>>
          /\ flows' \subseteq Flows
      BY <1>3 DEF AuthWait
    <2>2. CASE cmd' = NoCommand
      BY <2>1, <2>2, IdleKnows DEF RunnerIdIsBacked, CommandKnows
    <2>3. CASE cmd' # NoCommand
      <3>1. PICK a \in Accounts : cmd' = [cmd EXCEPT !.account = a, !.pc = "saveUser"]
        BY <1>3, <2>3 DEF AuthWait, End
      <3>0. At("auth.wait", "poll")
        BY <1>3 DEF AuthWait
      <3>2. cmd \in Calls /\ cmd.op = "auth.wait"
        BY <3>0 DEF At, NoCommand
      <3> DEFINE asked == [cmd EXCEPT !.account = a]
      <3>3. asked \in Calls /\ asked.op = "auth.wait" /\ asked.account = a
        BY <3>2 DEF Calls
      <3>4. cmd' = [asked EXCEPT !.pc = "saveUser"]
        BY <3>1
      <3> HIDE DEF asked
      <3>5. cmd' \in Calls /\ cmd'.op = "auth.wait" /\ cmd'.pc = "saveUser" /\ cmd'.account = a
        BY <3>3, <3>4 DEF Calls, Steps
      <3> QED BY <2>1, <3>5 DEF RunnerIdIsBacked, CommandKnows
    <2> QED BY <2>2, <2>3
  <1>4. CASE SaveUser
    <2>1. cmd' \in Calls /\ cmd'.op = cmd.op /\ cmd'.org = cmd.org /\ cmd'.pc = "saveConfig"
      BY <1>4, GotoCall DEF SaveUser, Steps
    <2>2. stored' \in [user : Users \cup {None}, runner : Orgs \cup {None}]
          /\ stored'.runner = stored.runner
      BY <1>4 DEF SaveUser, Users
    <2> QED BY <1>4, <2>1, <2>2 DEF SaveUser, RunnerIdIsBacked, CommandKnows
  <1>5. CASE SaveConfig
    BY <1>5, GotoCall, IdleKnows
       DEF SaveConfig, End, Unscoped, Steps, RunnerIdIsBacked, CommandKnows
  <1>6. CASE SaveConfigFails
    BY <1>6, IdleKnows DEF SaveConfigFails, Fault, End, RunnerIdIsBacked, CommandKnows
  <1>7. CASE RemoveFlow
    <2>1. UNCHANGED <<config, stored, service, listing, backend, scoped, faults, direct>>
          /\ flows' \subseteq Flows /\ cmd.op # "none"
      BY <1>7, NoCommandIsNone DEF RemoveFlow, Calls, Ops
    <2>2. CASE cmd' = NoCommand
      BY <2>1, <2>2, IdleKnows DEF RunnerIdIsBacked, CommandKnows
    <2>3. CASE cmd' # NoCommand
      <3>1. Goto("bootstrap")
        BY <1>7, <2>3 DEF RemoveFlow, End
      <3>2. cmd' \in Calls /\ cmd'.op = cmd.op /\ cmd'.org = cmd.org /\ cmd'.pc = "bootstrap"
        BY <2>1, <3>1, GotoCall DEF Steps
      <3> QED BY <2>1, <3>2 DEF RunnerIdIsBacked, CommandKnows
    <2> QED BY <2>2, <2>3
  <1> QED BY <1>1, <1>2, <1>3, <1>4, <1>5, <1>6, <1>7 DEF Authorize

\* The steps of a bootstrap and of the control of the service.
LEMMA ControlStep ==
    ASSUME AuthInv, AuthAssumption, Control
    PROVE  AuthInv'
  <1> USE DEF AuthInv, TypeOK
  <1>1. CASE Bootstrap
    <2>1. UNCHANGED <<config, stored, flows, service, listing, backend, scoped, faults, direct>>
          /\ cmd.op # "none"
      BY <1>1, NoCommandIsNone DEF Bootstrap, Calls, Ops
    <2>2. CASE cmd' = NoCommand
      BY <2>1, <2>2, IdleKnows DEF RunnerIdIsBacked, CommandKnows
    <2>3. CASE Reusable /\ Goto(Bootstrapped)
      <3>1. cmd' \in Calls /\ cmd'.op = cmd.op /\ cmd'.org = cmd.org /\ cmd'.pc \in {"ready", "activate"}
        BY <2>1, <2>3, GotoCall DEF Bootstrapped, Steps
      <3>2. direct = 0 => Ready
        BY <2>3, AuthAssumption DEF Reusable, Ready, RunnerIdIsBacked
      <3> QED BY <2>1, <3>1, <3>2 DEF RunnerIdIsBacked, CommandKnows, Ready
    <2>4. CASE ~Reusable /\ Target # None /\ Goto("saveRunner")
      <3>1. cmd' \in Calls /\ cmd'.op = cmd.op /\ cmd'.org = cmd.org /\ cmd'.pc = "saveRunner"
        BY <2>1, <2>4, GotoCall DEF Steps
      <3>2. direct = 0 => config.runner = None
        BY <2>4 DEF Reusable, RunnerIdIsBacked
      <3> QED BY <2>1, <2>4, <3>1, <3>2 DEF RunnerIdIsBacked, CommandKnows, Target
    <2> QED BY <1>1, <2>2, <2>3, <2>4 DEF Bootstrap, End
  <1>2. CASE BootstrapPending
    BY <1>2, GotoCall DEF BootstrapPending, Fault, Steps, RunnerIdIsBacked, CommandKnows
  <1>3. CASE SaveRunner
    <2>1. cmd' \in Calls /\ cmd'.op = cmd.op /\ cmd'.org = cmd.org /\ cmd'.pc = "saveRunnerId"
      BY <1>3, GotoCall, NoCommandIsNone DEF SaveRunner, Steps, Calls, Ops
    <2>2. stored' \in [user : Users \cup {None}, runner : Orgs \cup {None}]
          /\ stored'.runner = Target /\ stored'.user = stored.user
      BY <1>3, TargetType DEF SaveRunner
    <2>3. Target' = Target
      BY <1>3, <2>2 DEF SaveRunner, Target
    <2> QED BY <1>3, <2>1, <2>2, <2>3 DEF SaveRunner, RunnerIdIsBacked, CommandKnows
  <1>4. CASE SaveRunnerId
    <2>1. cmd' \in Calls /\ cmd'.op = cmd.op /\ cmd'.org = cmd.org /\ cmd'.pc \in {"ready", "activate"}
      BY <1>4, GotoCall, NoCommandIsNone DEF SaveRunnerId, Steps, Calls, Ops, Bootstrapped
    <2>2. config' = [org |-> Target, runner |-> Target]
          /\ config' \in [org : Orgs \cup {None}, runner : Orgs \cup {None}]
      BY <1>4, TargetType DEF SaveRunnerId
    <2>3. direct = 0 => Ready' /\ RunnerIdIsBacked'
      BY <1>4, <2>2 DEF SaveRunnerId, CommandKnows, Ready, RunnerIdIsBacked
    <2> QED BY <1>4, <2>1, <2>2, <2>3 DEF SaveRunnerId, RunnerIdIsBacked, CommandKnows
  <1>5. CASE Activate
    <2>1. UNCHANGED <<config, stored, flows, service, listing, backend, scoped, faults, direct>>
      BY <1>5 DEF Activate
    <2>2. CASE cmd' = NoCommand
      BY <2>1, <2>2, IdleKnows DEF RunnerIdIsBacked, CommandKnows
    <2>3. CASE cmd' = [NoCommand EXCEPT !.op = "control", !.pc = "bootstrap", !.restart = Active]
      <3>1. Active \in BOOLEAN
        BY DEF Active
      <3>2. cmd' = [op |-> "control", pc |-> "bootstrap", account |-> None, org |-> None,
                    flow |-> None, restart |-> Active]
        BY <2>3 DEF NoCommand
      <3>3. cmd' \in Calls /\ cmd'.op = "control" /\ cmd'.pc = "bootstrap"
        BY <3>1, <3>2 DEF Calls, Steps, Ops
      <3> QED BY <2>1, <3>3 DEF RunnerIdIsBacked, CommandKnows
    <2> QED BY <1>5, <2>2, <2>3 DEF Activate, End
  <1>6. CASE CheckReady
    <2>1. UNCHANGED <<config, stored, flows, service, listing, backend, scoped, faults, direct>>
          /\ cmd.op # "none"
      BY <1>6, NoCommandIsNone DEF CheckReady, At, Calls, Ops
    <2>2. CASE cmd' = NoCommand
      BY <2>1, <2>2, IdleKnows DEF RunnerIdIsBacked, CommandKnows
    <2>3. CASE Ready /\ Goto("launch")
      <3>1. cmd' \in Calls /\ cmd'.op = cmd.op /\ cmd'.org = cmd.org /\ cmd'.pc = "launch"
        BY <2>1, <2>3, GotoCall DEF Steps
      <3> QED BY <2>1, <2>3, <3>1 DEF RunnerIdIsBacked, CommandKnows, Ready
    <2> QED BY <1>6, <2>2, <2>3 DEF CheckReady, End
  <1>7. CASE Launch
    <2>1. Ready /\ Loaded \in Identities
      BY <1>7 DEF Launch, At, Ready, Loaded, Identities
    <2>2. service' \in [installed : BOOLEAN, wanted : BOOLEAN, runs : Identities \cup {None}]
      BY <1>7, <2>1 DEF Launch
    <2> QED BY <1>7, <2>2, IdleKnows DEF Launch, End, RunnerIdIsBacked, CommandKnows
  <1>8. CASE StopService
    <2>1. UNCHANGED <<config, stored, flows, listing, backend, scoped, faults, direct>>
          /\ cmd.op # "none"
          /\ service' \in [installed : BOOLEAN, wanted : BOOLEAN, runs : Identities \cup {None}]
      BY <1>8, NoCommandIsNone DEF StopService, Stopped, Calls, Ops
    <2>2. CASE cmd' = NoCommand
      BY <2>1, <2>2, IdleKnows DEF RunnerIdIsBacked, CommandKnows
    <2>3. CASE Goto("revoke") \/ Goto("select")
      <3>1. cmd' \in Calls /\ cmd'.op = cmd.op /\ cmd'.org = cmd.org /\ cmd'.pc \in {"revoke", "select"}
        BY <2>1, <2>3, GotoCall DEF Steps
      <3> QED BY <2>1, <3>1 DEF RunnerIdIsBacked, CommandKnows
    <2> QED BY <1>8, <2>2, <2>3 DEF StopService, End
  <1> QED BY <1>1, <1>2, <1>3, <1>4, <1>5, <1>6, <1>7, <1>8 DEF Control

\* The steps that sign out.
LEMMA LogoutStep ==
    ASSUME AuthInv, AuthAssumption, Logout
    PROVE  AuthInv'
  <1> USE DEF AuthInv, TypeOK
  <1>1. CASE Revoke
    BY <1>1, GotoCall DEF Revoke, At, Steps, RunnerIdIsBacked, CommandKnows
  <1>2. CASE Clear
    <2>1. cmd' \in Calls /\ cmd'.op = cmd.op /\ cmd'.org = cmd.org /\ cmd'.pc = "deleteRunner"
      BY <1>2, GotoCall DEF Clear, Steps
    <2>2. config' \in [org : Orgs \cup {None}, runner : {None}] /\ scoped' \in Accounts \cup {None}
      BY <1>2 DEF Clear, Unscoped
    <2> QED BY <1>2, <2>1, <2>2 DEF Clear, RunnerIdIsBacked, CommandKnows
  <1>3. CASE DeleteRunner
    <2>1. UNCHANGED <<config, flows, service, listing, backend, scoped, faults, direct>>
          /\ stored' = [stored EXCEPT !.runner = None] /\ cmd.pc = "deleteRunner"
          /\ (Goto("deleteUser") \/ (cmd.op = "login" /\ Goto("scope")) \/ Goto("bootstrap"))
      BY <1>3 DEF DeleteRunner
    <2>2. stored' \in [user : Users \cup {None}, runner : Orgs \cup {None}] /\ cmd.op # "none"
      BY <2>1, NoCommandIsNone DEF Calls, Ops
    <2>3. cmd' \in Calls /\ cmd'.op = cmd.op /\ cmd'.org = cmd.org /\ cmd'.pc \in {"deleteUser", "scope", "bootstrap"}
          /\ (cmd'.pc = "scope" => cmd.op = "login")
      BY <2>1, <2>2, GotoCall DEF Steps
    <2> QED BY <2>1, <2>2, <2>3 DEF RunnerIdIsBacked, CommandKnows
  <1>4. CASE DeleteUser
    <2>1. UNCHANGED <<config, flows, service, listing, backend, scoped, faults, direct>>
          /\ stored' = [stored EXCEPT !.user = None] /\ cmd.pc = "deleteUser"
          /\ (Goto("begin") \/ cmd' = NoCommand)
      BY <1>4 DEF DeleteUser, End
    <2>2. stored' \in [user : Users \cup {None}, runner : Orgs \cup {None}] /\ cmd.op # "none"
          /\ stored'.runner = stored.runner
      BY <2>1, NoCommandIsNone DEF Calls, Ops
    <2>3. CASE cmd' = NoCommand
      BY <2>1, <2>2, <2>3, IdleKnows DEF RunnerIdIsBacked, CommandKnows
    <2>4. CASE Goto("begin")
      <3>1. cmd' \in Calls /\ cmd'.op = cmd.op /\ cmd'.org = cmd.org /\ cmd'.pc = "begin"
        BY <2>2, <2>4, GotoCall DEF Steps
      <3> QED BY <2>1, <2>2, <3>1 DEF RunnerIdIsBacked, CommandKnows
    <2> QED BY <2>1, <2>3, <2>4
  <1> QED BY <1>1, <1>2, <1>3, <1>4 DEF Logout

\* A step that only moves the command to a place without obligation.
LEMMA MoveStep ==
    ASSUME AuthInv, cmd.op # "none", NEW pc \in {"stop", "select", "saveOrg", "activate"}, Goto(pc),
           pc = "saveOrg" => stored.user # None,
           UNCHANGED <<config, stored, flows, service, listing, scoped>>,
           backend' \in [orgs : [Accounts -> SUBSET Orgs], refused : SUBSET Accounts],
           faults' \in 0..MaxFaults, direct' = direct
    PROVE  AuthInv'
  <1> USE DEF AuthInv, TypeOK
  <1>1. cmd' \in Calls /\ cmd'.op = cmd.op /\ cmd'.org = cmd.org /\ cmd'.pc = pc
    BY GotoCall DEF Steps
  <1> QED BY <1>1 DEF RunnerIdIsBacked, CommandKnows

\* A step that ends the command, or leaves it, and touches neither files nor service.
LEMMA EndStep ==
    ASSUME AuthInv, End,
           UNCHANGED <<config, stored, flows, service, listing, scoped>>,
           backend' \in [orgs : [Accounts -> SUBSET Orgs], refused : SUBSET Accounts],
           faults' \in 0..MaxFaults, direct' = direct
    PROVE  AuthInv'
  BY IdleKnows DEF AuthInv, TypeOK, End, RunnerIdIsBacked, CommandKnows

\* The steps of the organization commands.
LEMMA OrganizeStep ==
    ASSUME AuthInv, AuthAssumption, Organize
    PROVE  AuthInv'
  <1>t. TypeOK
    BY DEF AuthInv
  <1>1. CASE ValidateSelection
    BY <1>1, <1>t, MoveStep, EndStep DEF ValidateSelection, At, TypeOK
  <1>2. CASE Select
    BY <1>2, <1>t, MoveStep DEF Select, At, TypeOK, Visible
  <1>3. CASE TransitionFails
    BY <1>3, <1>t, MoveStep DEF TransitionFails, Fault, TypeOK
  <1>4. CASE CreateOrg
    <2>1. UNCHANGED <<config, stored, flows, service, listing, scoped, faults, direct>>
          /\ cmd.op # "none" /\ ((stored.user # None /\ Goto("saveOrg")) \/ End)
      BY <1>4 DEF CreateOrg, At, Visible
    <2>2. backend' \in [orgs : [Accounts -> SUBSET Orgs], refused : SUBSET Accounts]
      <3>1. CASE backend' = backend
        BY <3>1, <1>t DEF TypeOK
      <3>2. CASE backend' # backend
        <4>1. /\ backend' = [backend EXCEPT !.orgs[stored.user.account] = @ \cup {cmd.org}]
              /\ cmd.op = "org.create" /\ stored.user # None
          BY <1>4, <3>2 DEF CreateOrg, At
        <4>2. stored.user \in Users
          BY <4>1, <1>t DEF TypeOK
        <4>3. cmd.org \in Orgs
          BY <4>1 DEF AuthInv
        <4>4. stored.user.account \in Accounts
          BY <4>2 DEF Users
        <4> DEFINE old == backend.orgs
                   new == [old EXCEPT ![stored.user.account] = @ \cup {cmd.org}]
        <4>5. old \in [Accounts -> SUBSET Orgs] /\ backend.refused \in SUBSET Accounts
          BY <1>t DEF TypeOK
        <4>6. new \in [Accounts -> SUBSET Orgs]
          BY <4>3, <4>4, <4>5
        <4>7. backend' = [backend EXCEPT !.orgs = new]
          BY <4>1
        <4> HIDE DEF old, new
        <4> QED BY <4>6, <4>7, <1>t DEF TypeOK
      <3> QED BY <3>1, <3>2
    <2>3. faults' \in 0..MaxFaults
      BY <2>1, <1>t DEF TypeOK
    <2>4. CASE stored.user # None /\ Goto("saveOrg")
      BY <2>1, <2>2, <2>3, <2>4, MoveStep
    <2>5. CASE End
      BY <2>1, <2>2, <2>3, <2>5, EndStep
    <2> QED BY <2>1, <2>4, <2>5
  <1>5. CASE SaveOrg
    <2>1. UNCHANGED <<stored, flows, service, listing, backend, faults, direct>>
          /\ cmd.pc = "saveOrg" /\ Goto("deleteRunner")
          /\ config' = [org |-> cmd.org, runner |-> None] /\ scoped' = stored.user.account
      BY <1>5 DEF SaveOrg
    <2>2. cmd \in Calls /\ stored.user \in Users /\ cmd.op # "none"
      BY <2>1, <1>t DEF TypeOK, AuthInv, NoCommand, Calls, Ops
    <2>3. cmd' \in Calls /\ cmd'.op = cmd.op /\ cmd'.org = cmd.org /\ cmd'.pc = "deleteRunner"
      BY <2>1, <2>2, <1>t, GotoCall DEF Steps
    <2>4. config' \in [org : Orgs \cup {None}, runner : {None}] /\ scoped' \in Accounts
      BY <2>1, <2>2 DEF Calls, Users
    <2> QED BY <2>1, <2>3, <2>4 DEF AuthInv, TypeOK, RunnerIdIsBacked, CommandKnows
  <1>6. CASE ListOrgs
    <2>1. listing' \in [account : Accounts \cup {None}, refused : BOOLEAN]
      BY <1>6, <1>t DEF ListOrgs, TypeOK, Users
    <2> QED BY <1>6, <2>1
            DEF ListOrgs, AuthInv, TypeOK, RunnerIdIsBacked, CommandKnows, Target, Ready
  <1>7. CASE ListAnswer
    <2>1. listing' \in [account : Accounts \cup {None}, refused : BOOLEAN]
      BY <1>7, <1>t DEF ListAnswer, TypeOK
    <2> QED BY <1>7, <2>1
            DEF ListAnswer, AuthInv, TypeOK, RunnerIdIsBacked, CommandKnows, Target, Ready
  <1>8. CASE RecoverStale
    <2>1. listing' \in [account : Accounts \cup {None}, refused : BOOLEAN]
          /\ UNCHANGED <<config, stored, flows, service, backend, scoped, faults, direct>>
      BY <1>8 DEF RecoverStale
    <2>2. CASE cmd' = cmd
      BY <2>1, <2>2 DEF AuthInv, TypeOK, RunnerIdIsBacked, CommandKnows, Target, Ready
    <2>3. CASE cmd' # cmd
      <3>1. cmd' = [op |-> "org.list", pc |-> "clear", account |-> listing.account, org |-> None,
                    flow |-> None, restart |-> FALSE]
        BY <1>8, <2>3 DEF RecoverStale, NoCommand
      <3>2. cmd' \in Calls
        BY <3>1, <1>t DEF Calls, Ops, Steps, TypeOK
      <3> QED BY <2>1, <3>1, <3>2 DEF AuthInv, TypeOK, RunnerIdIsBacked, CommandKnows
    <2> QED BY <2>2, <2>3
  <1> QED BY <1>1, <1>2, <1>3, <1>4, <1>5, <1>6, <1>7, <1>8 DEF Organize

\* A direct command runs while the plugin runs none, and is counted within the bound.
LEMMA DirectCounts ==
    ASSUME TypeOK, AuthAssumption, Direct
    PROVE  direct' \in 1..MaxDirect /\ cmd = NoCommand
  BY DEF TypeOK, AuthAssumption, Direct, Idle

\* The direct commands.  They count, and give up what holds while they do not run.
LEMMA DirectStep ==
    ASSUME AuthInv, AuthAssumption, DirectCommands
    PROVE  AuthInv'
  <1>t. TypeOK
    BY DEF AuthInv
  <1>1. ASSUME NEW a \in Accounts, NEW o \in Orgs, DirectLogin(a, o) PROVE AuthInv'
    <2>0. direct' \in 1..MaxDirect
      BY <1>1, <1>t, DirectCounts DEF DirectLogin
    <2>1. /\ direct' \in 1..MaxDirect
          /\ stored' = [stored EXCEPT !.user = [account |-> a, org |-> o]]
          /\ cmd' = [op |-> "login", pc |-> "deleteRunner", account |-> a, org |-> o,
                     flow |-> None, restart |-> FALSE]
          /\ UNCHANGED <<config, flows, service, listing, backend, scoped, faults>>
      BY <1>1, <2>0 DEF DirectLogin, NoCommand
    <2>2. stored' \in [user : Users \cup {None}, runner : Orgs \cup {None}]
      BY <2>1, <1>t DEF TypeOK, Users
    <2>3. cmd' \in Calls
      BY <2>1 DEF Calls, Ops, Steps
    <2> QED BY <2>1, <2>2, <2>3, <1>t DEF AuthInv, TypeOK, RunnerIdIsBacked
  <1>2. ASSUME NEW o \in Orgs, DirectKey(o) PROVE AuthInv'
    <2>0. direct' \in 1..MaxDirect
      BY <1>2, <1>t, DirectCounts DEF DirectKey
    <2>1. /\ direct' \in 1..MaxDirect
          /\ stored' = [stored EXCEPT !.runner = o]
          /\ cmd' = [op |-> "key", pc |-> "scope", account |-> None, org |-> o,
                     flow |-> None, restart |-> FALSE]
          /\ UNCHANGED <<config, flows, service, listing, backend, scoped, faults>>
      BY <1>2, <2>0 DEF DirectKey, NoCommand
    <2>2. stored' \in [user : Users \cup {None}, runner : Orgs \cup {None}]
      BY <2>1, <1>t DEF TypeOK
    <2>3. cmd' \in Calls
      BY <2>1 DEF Calls, Ops, Steps
    <2> QED BY <2>1, <2>2, <2>3, <1>t DEF AuthInv, TypeOK, RunnerIdIsBacked
  <1>3. ASSUME NEW o \in Orgs, DirectSelect(o) PROVE AuthInv'
    <2>1. /\ direct' \in 1..MaxDirect /\ cmd' = cmd /\ cmd = NoCommand
          /\ config' = [config EXCEPT !.org = o]
          /\ stored.user # None /\ scoped' = stored.user.account
          /\ UNCHANGED <<stored, flows, service, listing, backend, faults>>
      BY <1>3, <1>t, AuthAssumption DEF DirectSelect, Direct, Idle, Visible, TypeOK
    <2>2. config' \in [org : Orgs \cup {None}, runner : Orgs \cup {None}]
          /\ scoped' \in Accounts \cup {None}
      BY <2>1, <1>t DEF TypeOK, Users
    <2> QED BY <2>1, <2>2, <1>t, IdleKnows DEF AuthInv, TypeOK, RunnerIdIsBacked
  <1>4. CASE Scope
    <2>1. /\ config' = [config EXCEPT !.org = cmd.org] /\ scoped' = cmd.account
          /\ cmd.pc = "scope" /\ cmd' = NoCommand
          /\ UNCHANGED <<stored, flows, service, listing, backend, faults, direct>>
      BY <1>4 DEF Scope, End
    <2>2. cmd \in Calls
      BY <2>1, <1>t DEF TypeOK, NoCommand
    <2>3. config' \in [org : Orgs \cup {None}, runner : Orgs \cup {None}]
          /\ scoped' \in Accounts \cup {None}
      BY <2>1, <2>2, <1>t DEF TypeOK, Calls
    <2>4. direct # 0
      BY <2>1 DEF AuthInv, CommandKnows
    <2> QED BY <2>1, <2>3, <2>4, <1>t, IdleKnows DEF AuthInv, TypeOK, RunnerIdIsBacked
  <1>5. CASE DirectLogout
    <2>0. direct' \in 1..MaxDirect
      BY <1>5, <1>t, DirectCounts DEF DirectLogout
    <2>1. /\ direct' \in 1..MaxDirect
          /\ cmd' = [op |-> "logout", pc |-> "clear", account |-> None, org |-> None,
                     flow |-> None, restart |-> FALSE]
          /\ UNCHANGED <<config, stored, flows, service, listing, backend, scoped, faults>>
      BY <1>5, <2>0 DEF DirectLogout, NoCommand
    <2>2. cmd' \in Calls
      BY <2>1 DEF Calls, Ops, Steps
    <2> QED BY <2>1, <2>2, <1>t DEF AuthInv, TypeOK, RunnerIdIsBacked
  <1> QED BY <1>1, <1>2, <1>3, <1>4, <1>5 DEF DirectCommands

\* What the service manager, the Backend and a kill do.
LEMMA EnvironmentStep ==
    ASSUME AuthInv, AuthAssumption, Environment
    PROVE  AuthInv'
  <1>t. TypeOK
    BY DEF AuthInv
  <1>1. CASE Killed
    BY <1>1, <1>t, EndStep DEF Killed, Fault, TypeOK
  <1>2. CASE ServiceDies
    <2>1. service' \in [installed : BOOLEAN, wanted : BOOLEAN, runs : Identities \cup {None}]
          /\ faults' \in 0..MaxFaults
      BY <1>2, <1>t DEF ServiceDies, Fault, TypeOK
    <2> QED BY <1>2, <2>1
            DEF ServiceDies, AuthInv, TypeOK, RunnerIdIsBacked, CommandKnows, Target, Ready
  <1>3. CASE ServiceReturns
    <2>1. Loaded \in Identities
      BY <1>3, <1>t DEF ServiceReturns, Loaded, Identities, TypeOK
    <2>2. service' \in [installed : BOOLEAN, wanted : BOOLEAN, runs : Identities \cup {None}]
      BY <1>3, <2>1, <1>t DEF ServiceReturns, TypeOK
    <2> QED BY <1>3, <2>2
            DEF ServiceReturns, AuthInv, TypeOK, RunnerIdIsBacked, CommandKnows, Target, Ready
  <1>4. ASSUME NEW a \in Accounts, Refuse(a) PROVE AuthInv'
    <2>1. backend' \in [orgs : [Accounts -> SUBSET Orgs], refused : SUBSET Accounts]
          /\ faults' \in 0..MaxFaults
      BY <1>4, <1>t DEF Refuse, Fault, TypeOK
    <2> QED BY <1>4, <2>1
            DEF Refuse, AuthInv, TypeOK, RunnerIdIsBacked, CommandKnows, Target, Ready
  <1> QED BY <1>1, <1>2, <1>3, <1>4 DEF Environment

\* A command of the plugin begins.
LEMMA CallStep ==
    ASSUME AuthInv, AuthAssumption, Call
    PROVE  AuthInv'
  <1> DEFINE Fits(call) ==
               /\ call \in Calls
               /\ call.op \notin {"login", "key", "logout"}
               /\ call.pc \in {"begin", "poll", "saveUser", "stop", "bootstrap"}
               /\ call.pc = "saveUser" => call.account \in Accounts
               /\ call.op = "org.create" => call.org \in Orgs
  <1>1. PICK call : Begin(call) /\ Fits(call)
    <2>1. CASE Begin(Command("auth.start", "begin"))
      <3>1. Fits(Command("auth.start", "begin"))
        BY DEF Command, Calls, Ops, Steps
      <3> QED BY <2>1, <3>1
    <2>2. CASE Begin(Command("auth.logout", "stop"))
      <3>1. Fits(Command("auth.logout", "stop"))
        BY DEF Command, Calls, Ops, Steps
      <3> QED BY <2>2, <3>1
    <2>3. CASE Begin(Command("control", "stop"))
      <3>1. Fits(Command("control", "stop"))
        BY DEF Command, Calls, Ops, Steps
      <3> QED BY <2>3, <3>1
    <2>4. ASSUME NEW f \in flows, Begin([Command("auth.wait", "poll") EXCEPT !.flow = f])
          PROVE  \E call : Begin(call) /\ Fits(call)
      <3>1. f \in Flows
        BY DEF AuthInv, TypeOK
      <3>2. Fits([Command("auth.wait", "poll") EXCEPT !.flow = f])
        BY <3>1 DEF Command, Calls, Ops, Steps
      <3> QED BY <2>4, <3>2
    <2>5. ASSUME NEW a \in Accounts,
                 Begin([Command("auth.register.verify", "saveUser") EXCEPT !.account = a])
          PROVE  \E call : Begin(call) /\ Fits(call)
      <3>1. Fits([Command("auth.register.verify", "saveUser") EXCEPT !.account = a])
        BY DEF Command, Calls, Ops, Steps
      <3> QED BY <2>5, <3>1
    <2>6. ASSUME NEW o \in Orgs, NEW op \in {"org.select", "org.create"},
                 Begin([Command(op, "begin") EXCEPT !.org = o])
          PROVE  \E call : Begin(call) /\ Fits(call)
      <3>1. Fits([Command(op, "begin") EXCEPT !.org = o])
        BY DEF Command, Calls, Ops, Steps
      <3> QED BY <2>6, <3>1
    <2>7. ASSUME NEW r \in BOOLEAN, Begin([Command("control", "bootstrap") EXCEPT !.restart = r])
          PROVE  \E call : Begin(call) /\ Fits(call)
      <3>1. Fits([Command("control", "bootstrap") EXCEPT !.restart = r])
        BY DEF Command, Calls, Ops, Steps
      <3> QED BY <2>7, <3>1
    <2> QED BY <2>1, <2>2, <2>3, <2>4, <2>5, <2>6, <2>7 DEF Call
  <1> QED BY <1>1 DEF Begin, AuthInv, TypeOK, RunnerIdIsBacked, CommandKnows

\* The inductive invariant of the identity.
THEOREM AuthInvariance == Spec => []AuthInv
  <1>1. Init => AuthInv
    <2> SUFFICES ASSUME Init PROVE AuthInv
      OBVIOUS
    <2>1. /\ config \in [org : Orgs \cup {None}, runner : {None}]
          /\ stored \in [user : Users \cup {None}, runner : Orgs \cup {None}]
          /\ listing \in [account : Accounts \cup {None}, refused : BOOLEAN]
      BY DEF Init, Unscoped
    <2>2. /\ service \in [installed : BOOLEAN, wanted : BOOLEAN, runs : Identities \cup {None}]
          /\ backend \in [orgs : [Accounts -> SUBSET Orgs], refused : SUBSET Accounts]
      BY DEF Init
    <2>3. cmd.op = "none" /\ cmd.pc = "idle" /\ cmd = NoCommand
      BY DEF Init, NoCommand
    <2> QED BY <2>1, <2>2, <2>3, AuthAssumption
            DEF Init, AuthInv, TypeOK, RunnerIdIsBacked, CommandKnows
  <1>2. AuthInv /\ [Next]_vars => AuthInv'
    <2> SUFFICES ASSUME AuthInv, [Next]_vars PROVE AuthInv'
      OBVIOUS
    <2>1. CASE UNCHANGED vars
      BY <2>1 DEF vars, AuthInv, TypeOK, RunnerIdIsBacked, CommandKnows, Target, Ready
    <2>2. CASE Next
      BY <2>2, AuthAssumption, CallStep, AuthorizeStep, ControlStep, LogoutStep, OrganizeStep,
         DirectStep, EnvironmentStep DEF Next
    <2> QED BY <2>1, <2>2
  <1> QED BY <1>1, <1>2, PTL DEF Spec

\* The files, the service and the commands keep their shape, however many
\* commands, kills and refusals there are.
THEOREM AuthTypeCorrect == Spec => []TypeOK
  <1>1. AuthInv => TypeOK
    BY DEF AuthInv
  <1> QED BY <1>1, AuthInvariance, PTL

\* As long as only the plugin writes the profile, a runner id in the
\* configuration has the credential of the same organization beside it.
THEOREM RunnerIdAlwaysBacked == Spec => []RunnerIdIsBacked
  <1>1. AuthInv => RunnerIdIsBacked
    BY DEF AuthInv
  <1> QED BY <1>1, AuthInvariance, PTL

\* ... and a bootstrap that succeeded has left what the readiness check asks for.
THEOREM BootstrapSuffices == Spec => []BootstrapIsReady
  <1>1. AuthInv => BootstrapIsReady
    BY DEF AuthInv, CommandKnows, BootstrapIsReady, At
  <1> QED BY <1>1, AuthInvariance, PTL

\* Whatever direct commands did, runner.control starts a service with the
\* credential, the runner id and the scope of one organization.
THEOREM ControlStartsWhole == Spec => CommandsStartWholeIdentities
  <1>1. AuthInv /\ [Next]_vars =>
          [At("control", "launch") /\ service'.runs \notin {None, service.runs}
             => Whole(service'.runs)]_vars
    <2> SUFFICES ASSUME AuthInv, Next, At("control", "launch"),
                        service'.runs \notin {None, service.runs}
                 PROVE  Whole(service'.runs)
      OBVIOUS
    <2>1. Whole(Loaded)
      BY DEF AuthInv, At, Ready, Loaded, Whole
    <2>2. service' # service
      OBVIOUS
    <2>3. Launch \/ ServiceReturns \/ StopService \/ ServiceDies
      BY <2>2 DEF Next, Call, Begin, Authorize, AuthStart, Challenge, AuthWait, SaveUser, SaveConfig,
         SaveConfigFails, RemoveFlow, Control, Bootstrap, BootstrapPending, SaveRunner, SaveRunnerId,
         Activate, CheckReady, Logout, Revoke, Clear, DeleteRunner, DeleteUser, Organize,
         ValidateSelection, Select, TransitionFails, CreateOrg, SaveOrg, ListOrgs, ListAnswer,
         RecoverStale, DirectCommands, DirectLogin, DirectKey, DirectSelect, Scope, DirectLogout,
         Environment, Killed, Refuse
    <2>4. service \in [installed : BOOLEAN, wanted : BOOLEAN, runs : Identities \cup {None}]
      BY DEF AuthInv, TypeOK
    <2>5. service'.runs = Loaded
      BY <2>3, <2>4 DEF Launch, ServiceReturns, StopService, ServiceDies, Stopped, At
    <2> QED BY <2>1, <2>5
  <1> QED BY <1>1, AuthInvariance, PTL DEF Spec, CommandsStartWholeIdentities
=============================================================================
