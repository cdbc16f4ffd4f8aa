------------------------------ MODULE PluginAuth ------------------------------
(***************************************************************************)
(* Identity: who is logged in, which organization is selected, and as      *)
(* which runner the service works (loomex-cli/main.rs, plugin-control and  *)
(* the direct commands).  The configuration, the user credential and the   *)
(* runner credential are three files that a command writes one after the   *)
(* other; one lock serialises the commands that write them, org.list takes *)
(* it only after the Backend has refused its credential, and a command can *)
(* be killed after any write.                                              *)
(*                                                                         *)
(* An organization stands for the runner the Backend registers for it: a   *)
(* runner credential and a runner id are named by their organization.  A   *)
(* failing call covers what makes the code return an error there: an       *)
(* expired or old credential, a full disk, an unreachable Backend, a       *)
(* daemon the service manager does not own.                                *)
(***************************************************************************)
EXTENDS Naturals, FiniteSets

CONSTANTS
    Accounts, Orgs,
    Flows,      \* bound: device authorizations open at a time
    None,
    MaxFaults,  \* bound: failing calls, killed commands, deaths of the service
    MaxDirect   \* bound: uses of the direct commands login, logout, org select

ASSUME AuthAssumption ==
    /\ None \notin Accounts \cup Orgs \cup Flows
    /\ MaxFaults \in Nat /\ MaxDirect \in Nat

VARIABLES
    config,     \* organizationId and runnerId of the profile
    stored,     \* the user credential and the runner credential
    flows,      \* the files of the open device authorizations
    service,    \* what the running service has loaded, and the service manager's view
    cmd,        \* the command that holds the lifecycle lock
    listing,    \* an org.list: the account it asks for
    backend,    \* the organizations of each account, and the accounts it refuses
    scoped,     \* history: the account that selected the organization
    faults, direct

vars == <<config, stored, flows, service, cmd, listing, backend, scoped, faults, direct>>

Users == [account : Accounts, org : Orgs \cup {None}]
Identities == [org : Orgs \cup {None}, runner : Orgs \cup {None}, credential : Orgs]

NoCommand == [account |-> None, org |-> None, op |-> "none", pc |-> "idle",
              flow |-> None, restart |-> FALSE]

Ops == {"auth.start", "auth.wait", "auth.register.verify", "auth.logout", "org.list",
        "org.select", "org.create", "control", "login", "key", "logout"}
Steps == {"begin", "challenge", "poll", "saveUser", "saveConfig", "removeFlow", "bootstrap",
          "saveRunner", "saveRunnerId", "activate", "ready", "launch", "stop", "revoke",
          "clear", "deleteRunner", "deleteUser", "select", "saveOrg", "scope"}

Calls == [op : Ops, pc : Steps, account : Accounts \cup {None}, org : Orgs \cup {None},
          flow : Flows \cup {None}, restart : BOOLEAN]

TypeOK ==
    /\ config \in [org : Orgs \cup {None}, runner : Orgs \cup {None}]
    /\ stored \in [user : Users \cup {None}, runner : Orgs \cup {None}]
    /\ flows \subseteq Flows
    /\ service \in [installed : BOOLEAN, wanted : BOOLEAN, runs : Identities \cup {None}]
    /\ cmd \in {NoCommand} \cup Calls
    /\ listing \in [account : Accounts \cup {None}, refused : BOOLEAN]
    /\ backend \in [orgs : [Accounts -> SUBSET Orgs], refused : SUBSET Accounts]
    /\ scoped \in Accounts \cup {None}
    /\ faults \in 0..MaxFaults /\ direct \in 0..MaxDirect

-----------------------------------------------------------------------------
(* The files, the service manager and the steps of a command.              *)

Unscoped == [org |-> None, runner |-> None]     \* clear_plugin_auth_scope
LoggedOut == stored.user = None /\ stored.runner = None

\* Variant of Ready: the organization is not compared.
ReadyAnywhere == stored.runner # None /\ config.org # None /\ stored.runner = config.runner

\* plugin_service_bootstrap_readiness: the Backend names the runner of the
\* credential when the credential is of the organization it is asked for.
Ready == /\ stored.runner # None
         /\ config.org # None /\ config.runner # None
         /\ stored.runner = config.org           \* else RUNNER_ORGANIZATION_MISMATCH
         /\ stored.runner = config.runner

\* What a service loads when it starts.
Loaded == [org |-> config.org, runner |-> config.runner, credential |-> stored.runner]
Active == service.wanted /\ service.runs # None
Stopped == [service EXCEPT !.wanted = FALSE, !.runs = None]

Idle == cmd = NoCommand
At(op, pc) == cmd.op = op /\ cmd.pc = pc
Goto(pc) == cmd' = [cmd EXCEPT !.pc = pc]
End == cmd' = NoCommand

\* A command of the plugin takes the lock (PluginSetupTransactionLock::acquire).
Begin(call) ==
    /\ Idle
    /\ cmd' = call
    /\ UNCHANGED <<config, stored, flows, service, listing, backend, scoped, faults, direct>>

Fault == faults < MaxFaults /\ faults' = faults + 1

\* The process is killed (the MCP server's deadline), or a step returns an
\* error that no caller handles.
Killed ==
    /\ ~Idle /\ Fault /\ End
    /\ UNCHANGED <<config, stored, flows, service, listing, backend, scoped, direct>>

-----------------------------------------------------------------------------
(* Device authorization and registration.                                  *)

AuthStart ==
    /\ cmd.op \in {"auth.start", "org.list"} /\ cmd.pc = "begin"
    /\ \/ ~LoggedOut /\ End /\ UNCHANGED <<config, scoped>>     \* AUTH_LOGOUT_REQUIRED
       \/ /\ LoggedOut
          /\ config' = Unscoped /\ scoped' = None
          /\ Goto("challenge")
    /\ UNCHANGED <<stored, flows, service, listing, backend, faults, direct>>

\* start_device_login, and the file of the flow under a fresh id.
Challenge ==
    /\ cmd.pc = "challenge"
    /\ \E f \in Flows \ flows : flows' = flows \cup {f}
    /\ End
    /\ UNCHANGED <<config, stored, service, listing, backend, scoped, faults, direct>>

\* The Backend's answer to the device code: not yet, or the token of the
\* account that confirmed it; or the flow has expired and its file goes.
AuthWait ==
    /\ At("auth.wait", "poll")
    /\ \/ cmd.flow \notin flows /\ End /\ UNCHANGED flows        \* AUTH_FLOW_NOT_FOUND
       \/ cmd.flow \in flows /\ flows' = flows \ {cmd.flow} /\ End
       \/ cmd.flow \in flows /\ End /\ UNCHANGED flows           \* pending
       \/ /\ cmd.flow \in flows
          /\ \E a \in Accounts \ backend.refused :
                cmd' = [cmd EXCEPT !.account = a, !.pc = "saveUser"]
          /\ UNCHANGED flows
    /\ UNCHANGED <<config, stored, service, listing, backend, scoped, faults, direct>>

\* complete_plugin_auth_flow reads the organization of the configuration;
\* auth.register.verify stores a user without one.
SaveUser ==
    /\ cmd.op \in {"auth.wait", "auth.register.verify"} /\ cmd.pc = "saveUser"
    /\ stored' = [stored EXCEPT !.user =
                     [account |-> cmd.account,
                      org |-> IF cmd.op = "auth.wait" THEN config.org ELSE None]]
    /\ Goto("saveConfig")
    /\ UNCHANGED <<config, flows, service, listing, backend, scoped, faults, direct>>

\* The server's URL is saved; a registration also clears the scope.
SaveConfig ==
    /\ cmd.pc = "saveConfig"
    /\ \/ /\ cmd.op = "auth.wait" /\ Goto("removeFlow")
          /\ UNCHANGED <<config, scoped>>
       \/ /\ cmd.op = "auth.register.verify" /\ End
          /\ config' = Unscoped /\ scoped' = None
    /\ UNCHANGED <<stored, flows, service, listing, backend, faults, direct>>

SaveConfigFails ==
    /\ cmd.pc = "saveConfig" /\ Fault /\ End
    /\ stored' = [stored EXCEPT !.user = None]
    /\ UNCHANGED <<config, flows, service, listing, backend, scoped, direct>>

\* organizationSelectionRequired: without an organization nothing is bootstrapped.
RemoveFlow ==
    /\ cmd.pc = "removeFlow"
    /\ flows' = flows \ {cmd.flow}
    /\ IF stored.user # None /\ stored.user.org # None THEN Goto("bootstrap") ELSE End
    /\ UNCHANGED <<config, stored, service, listing, backend, scoped, faults, direct>>

-----------------------------------------------------------------------------
(* The runner credential and the service.                                  *)

\* The organization a bootstrap is for.
Target == IF config.org # None THEN config.org
          ELSE IF stored.user # None THEN stored.user.org ELSE None

\* Variant of Reusable: any stored credential is taken for that of the configuration.
ReusableUnnamed == stored.runner # None

Reusable == stored.runner # None /\ config.runner # None
Granted == stored.user # None /\ stored.user.account \notin backend.refused
           /\ Target \in backend.orgs[stored.user.account]

\* What follows a bootstrap in the command that runs it.
Bootstrapped == IF cmd.op = "control" THEN "ready" ELSE "activate"

Bootstrap ==
    /\ cmd.pc = "bootstrap"
    /\ \/ (stored.user = None \/ Target = None) /\ End
       \/ stored.user # None /\ Target # None /\ Reusable /\ Goto(Bootstrapped)
       \/ stored.user # None /\ Target # None /\ ~Reusable /\ ~Granted /\ End
       \/ stored.user # None /\ Target # None /\ ~Reusable /\ Granted /\ Goto("saveRunner")
    /\ UNCHANGED <<config, stored, flows, service, listing, backend, scoped, faults, direct>>

\* A retryable error of the bootstrap leaves org.create pending, and it goes on.
BootstrapPending ==
    /\ cmd.op = "org.create" /\ cmd.pc \in {"bootstrap", "saveRunner"}
    /\ Fault /\ Goto("activate")
    /\ UNCHANGED <<config, stored, flows, service, listing, backend, scoped, direct>>

SaveRunner ==
    /\ cmd.pc = "saveRunner"
    /\ stored' = [stored EXCEPT !.runner = Target]
    /\ Goto("saveRunnerId")
    /\ UNCHANGED <<config, flows, service, listing, backend, scoped, faults, direct>>

SaveRunnerId ==
    /\ cmd.pc = "saveRunnerId"
    /\ config' = [org |-> Target, runner |-> Target]
    /\ Goto(Bootstrapped)
    /\ UNCHANGED <<stored, flows, service, listing, backend, scoped, faults, direct>>

\* plugin_activate_installed_service_after_bootstrap: a service that is
\* active is restarted by a runner.control of its own.
Activate ==
    /\ cmd.pc = "activate"
    /\ IF service.installed /\ Ready
       THEN cmd' = [NoCommand EXCEPT !.op = "control", !.pc = "bootstrap", !.restart = Active]
       ELSE End
    /\ UNCHANGED <<config, stored, flows, service, listing, backend, scoped, faults, direct>>

CheckReady ==
    /\ At("control", "ready")
    /\ IF Ready THEN Goto("launch") ELSE End     \* RUNNER_SERVICE_BOOTSTRAP_REQUIRED
    /\ UNCHANGED <<config, stored, flows, service, listing, backend, scoped, faults, direct>>

\* systemctl enable --now leaves a service that is active as it is.
Launch ==
    /\ At("control", "launch")
    /\ service' = [service EXCEPT !.wanted = service.installed,
                      !.runs = IF ~service.installed THEN None
                               ELSE IF Active /\ ~cmd.restart THEN @ ELSE Loaded]
    /\ End
    /\ UNCHANGED <<config, stored, flows, listing, backend, scoped, faults, direct>>

\* runner.control stop, and the first step of auth.logout and of org.select:
\* a service that is not active at this moment gets no stop command.
StopService ==
    /\ cmd.pc = "stop"
    /\ service' = IF Active THEN Stopped ELSE service
    /\ CASE cmd.op = "auth.logout" -> Goto("revoke")
         [] cmd.op = "org.select" -> Goto("select")
         [] OTHER -> End
    /\ UNCHANGED <<config, stored, flows, listing, backend, scoped, faults, direct>>

-----------------------------------------------------------------------------
(* Logout.                                                                 *)

\* The remote revocation; an error is reported and the logout goes on.
Revoke ==
    /\ At("auth.logout", "revoke") /\ Goto("clear")
    /\ UNCHANGED <<config, stored, flows, service, listing, backend, scoped, faults, direct>>

\* run_logout clears both ids; the recovery of org.list clears the runner id.
Clear ==
    /\ cmd.pc = "clear"
    /\ \/ cmd.op \in {"auth.logout", "logout"} /\ config' = Unscoped /\ scoped' = None
       \/ cmd.op = "org.list" /\ config' = [config EXCEPT !.runner = None] /\ UNCHANGED scoped
    /\ Goto("deleteRunner")
    /\ UNCHANGED <<stored, flows, service, listing, backend, faults, direct>>

DeleteRunner ==
    /\ cmd.pc = "deleteRunner"
    /\ stored' = [stored EXCEPT !.runner = None]
    /\ CASE cmd.op \in {"auth.logout", "logout", "org.list"} -> Goto("deleteUser")
         [] cmd.op = "login" -> Goto("scope")
         [] OTHER -> Goto("bootstrap")
    /\ UNCHANGED <<config, flows, service, listing, backend, scoped, faults, direct>>

\* The recovery of org.list then starts an authorization.
DeleteUser ==
    /\ cmd.pc = "deleteUser"
    /\ stored' = [stored EXCEPT !.user = None]
    /\ IF cmd.op = "org.list" THEN Goto("begin") ELSE End
    /\ UNCHANGED <<config, flows, service, listing, backend, scoped, faults, direct>>

-----------------------------------------------------------------------------
(* Organizations.                                                          *)

Visible(o) == /\ stored.user # None
              /\ stored.user.account \notin backend.refused
              /\ o \in backend.orgs[stored.user.account]

\* plugin_validate_org_selection: the service is stopped for a change only.
ValidateSelection ==
    /\ At("org.select", "begin")
    /\ IF Visible(cmd.org) /\ config.org # cmd.org THEN Goto("stop") ELSE End
    /\ UNCHANGED <<config, stored, flows, service, listing, backend, scoped, faults, direct>>

Select ==
    /\ At("org.select", "select")
    /\ IF Visible(cmd.org) THEN Goto("saveOrg") ELSE Goto("activate")
    /\ UNCHANGED <<config, stored, flows, service, listing, backend, scoped, faults, direct>>

\* plugin_transition_failure: the service is started again when that is possible.
TransitionFails ==
    /\ cmd.op = "org.select" /\ cmd.pc \in {"select", "saveOrg", "deleteRunner"}
    /\ Fault /\ Goto("activate")
    /\ UNCHANGED <<config, stored, flows, service, listing, backend, scoped, direct>>

\* org.create lists before it creates, and takes the organization it finds;
\* org.create.recover takes it or stays pending.
CreateOrg ==
    /\ At("org.create", "begin")
    /\ \/ Visible(cmd.org) /\ Goto("saveOrg") /\ UNCHANGED backend
       \/ ~Visible(cmd.org) /\ End /\ UNCHANGED backend
       \/ /\ stored.user # None /\ stored.user.account \notin backend.refused
          /\ \A a \in Accounts : cmd.org \notin backend.orgs[a]
          /\ backend' = [backend EXCEPT !.orgs[stored.user.account] = @ \cup {cmd.org}]
          /\ Goto("saveOrg")
    /\ UNCHANGED <<config, stored, flows, service, listing, scoped, faults, direct>>

\* Variant of SaveOrg: the runner id of the organization before stays.
SaveOrgOnly ==
    /\ cmd.pc = "saveOrg"
    /\ config' = [config EXCEPT !.org = cmd.org]
    /\ scoped' = stored.user.account
    /\ Goto("deleteRunner")
    /\ UNCHANGED <<stored, flows, service, listing, backend, faults, direct>>

\* The new organization is saved without a runner id, then the old runner
\* credential goes.
SaveOrg ==
    /\ cmd.pc = "saveOrg"
    /\ config' = [org |-> cmd.org, runner |-> None]
    /\ scoped' = stored.user.account
    /\ Goto("deleteRunner")
    /\ UNCHANGED <<stored, flows, service, listing, backend, faults, direct>>

\* org.list holds no lock while it asks the Backend.
ListOrgs ==
    /\ listing.account = None /\ stored.user # None
    /\ listing' = [account |-> stored.user.account, refused |-> FALSE]
    /\ UNCHANGED <<config, stored, flows, service, cmd, backend, scoped, faults, direct>>

ListAnswer ==
    /\ listing.account # None /\ ~listing.refused
    /\ listing' = IF listing.account \in backend.refused
                  THEN [listing EXCEPT !.refused = TRUE]
                  ELSE [account |-> None, refused |-> FALSE]
    /\ UNCHANGED <<config, stored, flows, service, cmd, backend, scoped, faults, direct>>

\* recover_stale_profile_auth takes the lock, or gives up when it stays busy.
RecoverStale ==
    /\ listing.refused
    /\ listing' = [account |-> None, refused |-> FALSE]
    /\ \/ /\ Idle
          /\ cmd' = [NoCommand EXCEPT !.op = "org.list", !.account = listing.account,
                                      !.pc = "clear"]
       \/ ~Idle /\ UNCHANGED cmd
    /\ UNCHANGED <<config, stored, flows, service, backend, scoped, faults, direct>>

-----------------------------------------------------------------------------
(* The direct commands: loomex login, logout and org select.               *)

Direct == direct < MaxDirect /\ Idle /\ direct' = direct + 1

\* A device login stores the user, then deletes the runner credential.  The organization
\* is the one named on the command line, which nobody checks, or the configured one, or
\* else one of the account's.
DirectLogin(a, o) ==
    /\ Direct /\ a \notin backend.refused
    /\ stored' = [stored EXCEPT !.user = [account |-> a, org |-> o]]
    /\ cmd' = [NoCommand EXCEPT !.op = "login", !.account = a, !.org = o, !.pc = "deleteRunner"]
    /\ UNCHANGED <<config, flows, service, listing, backend, scoped, faults>>

\* A login with an API key stores a runner credential.
DirectKey(o) ==
    /\ Direct
    /\ stored' = [stored EXCEPT !.runner = o]
    /\ cmd' = [NoCommand EXCEPT !.op = "key", !.org = o, !.pc = "scope"]
    /\ UNCHANGED <<config, flows, service, listing, backend, scoped, faults>>

Scope ==
    /\ cmd.pc = "scope"
    /\ config' = [config EXCEPT !.org = cmd.org]
    /\ scoped' = cmd.account
    /\ End
    /\ UNCHANGED <<stored, flows, service, listing, backend, faults, direct>>

\* The service and the Backend are not told.
DirectLogout ==
    /\ Direct
    /\ cmd' = [NoCommand EXCEPT !.op = "logout", !.pc = "clear"]
    /\ UNCHANGED <<config, stored, flows, service, listing, backend, scoped, faults>>

DirectSelect(o) ==
    /\ Direct /\ Visible(o)
    /\ config' = [config EXCEPT !.org = o]
    /\ scoped' = stored.user.account
    /\ UNCHANGED <<stored, flows, service, cmd, listing, backend, faults>>

-----------------------------------------------------------------------------
(* The service manager and the Backend.                                    *)

\* Restart=always: the service dies, and loads the files again.
ServiceDies ==
    /\ service.runs # None /\ Fault
    /\ service' = [service EXCEPT !.runs = None]
    /\ UNCHANGED <<config, stored, flows, cmd, listing, backend, scoped, direct>>

ServiceReturns ==
    /\ service.wanted /\ service.runs = None /\ stored.runner # None
    /\ service' = [service EXCEPT !.runs = Loaded]
    /\ UNCHANGED <<config, stored, flows, cmd, listing, backend, scoped, faults, direct>>

\* The Backend no longer accepts an account's token.
Refuse(a) ==
    /\ backend.refused = {} /\ Fault
    /\ backend' = [backend EXCEPT !.refused = {a}]
    /\ UNCHANGED <<config, stored, flows, service, cmd, listing, scoped, direct>>

Command(op, pc) == [account |-> None, org |-> None, op |-> op, pc |-> pc,
                    flow |-> None, restart |-> FALSE]

\* The commands of the plugin.
Call ==
    \/ Begin(Command("auth.start", "begin"))
    \/ \E f \in flows : Begin([Command("auth.wait", "poll") EXCEPT !.flow = f])
    \/ \E a \in Accounts \ backend.refused :
          Begin([Command("auth.register.verify", "saveUser") EXCEPT !.account = a])
    \/ Begin(Command("auth.logout", "stop"))
    \/ \E o \in Orgs, op \in {"org.select", "org.create"} :
          Begin([Command(op, "begin") EXCEPT !.org = o])
    \/ \E r \in BOOLEAN : Begin([Command("control", "bootstrap") EXCEPT !.restart = r])
    \/ Begin(Command("control", "stop"))

Authorize == \/ AuthStart \/ Challenge \/ AuthWait \/ SaveUser
             \/ SaveConfig \/ SaveConfigFails \/ RemoveFlow
Control == \/ Bootstrap \/ BootstrapPending \/ SaveRunner \/ SaveRunnerId
           \/ Activate \/ CheckReady \/ Launch \/ StopService
Logout == Revoke \/ Clear \/ DeleteRunner \/ DeleteUser
Organize == \/ ValidateSelection \/ Select \/ TransitionFails \/ CreateOrg \/ SaveOrg
            \/ ListOrgs \/ ListAnswer \/ RecoverStale
DirectCommands == \/ \E a \in Accounts, o \in Orgs : DirectLogin(a, o)
                  \/ \E o \in Orgs : DirectKey(o) \/ DirectSelect(o)
                  \/ Scope \/ DirectLogout
Environment == Killed \/ ServiceDies \/ ServiceReturns \/ \E a \in Accounts : Refuse(a)

Init ==
    /\ config = Unscoped /\ stored = [user |-> None, runner |-> None] /\ flows = {}
    /\ service \in [installed : BOOLEAN, wanted : {FALSE}, runs : {None}]
    /\ cmd = NoCommand /\ listing = [account |-> None, refused |-> FALSE]
    /\ backend \in [orgs : [Accounts -> SUBSET Orgs], refused : {{}}]
    /\ scoped = None /\ faults = 0 /\ direct = 0

Next == Call \/ Authorize \/ Control \/ Logout \/ Organize \/ DirectCommands \/ Environment

Spec == Init /\ [][Next]_vars

-----------------------------------------------------------------------------
(* Properties.                                                             *)

\* While only the plugin writes the profile: a configured runner id always
\* has its credential beside it, and both belong to the selected
\* organization, whatever command is killed between its writes.
RunnerIdIsBacked ==
    direct = 0 /\ config.runner # None =>
        stored.runner = config.runner /\ config.org = config.runner

\* Then a bootstrap that succeeded has left what the readiness check asks
\* for: a reused credential is never one that the check refuses.
BootstrapIsReady == direct = 0 /\ At("control", "ready") => Ready

\* Whatever direct commands did to the files before, a command never starts
\* the service with the credential of one organization and the runner id or
\* the scope of another one.
Whole(i) == i.org = i.credential /\ i.runner = i.credential
CommandsStartWholeIdentities ==
    [][At("control", "launch") /\ service'.runs \notin {None, service.runs}
          => Whole(service'.runs)]_vars

\* What the documentation of the plugin promises of a sign-out: when it
\* has deleted the credentials, no service runs, and none is about to.
SignedOutServiceIsStopped ==
    [][At("auth.logout", "deleteUser") /\ stored'.user = None => ~service.wanted]_vars

\* A device authorization stores its account without an organization that
\* another account selected.
LoginInheritsNoOrganization ==
    [][At("auth.wait", "saveUser") /\ stored' # stored
          => scoped \in {None, cmd.account}]_vars

\* The recovery of org.list deletes the credential that was refused, not one
\* stored since.
RecoveryDeletesTheRefused ==
    [][At("org.list", "deleteUser") /\ stored.user # None /\ stored' # stored
          => stored.user.account = cmd.account]_vars
=============================================================================
