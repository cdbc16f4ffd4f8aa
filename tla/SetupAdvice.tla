------------------------------ MODULE SetupAdvice ------------------------------
(***************************************************************************)
(* What setup.status recommends, what setup.plan reviews and what          *)
(* setup.apply does about it (loomex-cli/main.rs), with an agent that      *)
(* obeys the recommendation, as the plugin's skills tell it to, while the  *)
(* plugin is updated, the service dies, the Backend is out of reach, the   *)
(* credentials change and other commands move the runtime and the unit.    *)
(* That setup.apply is undone as a whole when it fails is the subject of   *)
(* SetupTransaction, and the three files of an identity that of            *)
(* PluginAuth: here an identity has five states, and a compensation is     *)
(* one step.                                                               *)
(***************************************************************************)
EXTENDS Naturals

CONSTANTS
    Packages,           \* what a plugin release bundles: a version and its image
    Kinds,              \* the disturbances that happen
    MaxDisturbances     \* bound: disturbances

VARIABLES
    package,    \* plugin_package_runtime, NoPlan where it is an error
    versions,   \* the image published under each version
    active,     \* the version that the current pointer names
    unit,       \* the service file: none, of the stable path, or of another binary
    process,    \* the image that the service's process runs
    user,       \* the user credential
    identity,   \* the runner credential and the configured runner
    online,     \* does the Backend answer
    agent,      \* what the agent does next, with the plan it holds
    before,     \* the snapshot of the setup transaction
    disturbances

vars == <<package, versions, active, unit, process, user, identity, online, agent, before,
          disturbances>>
installation == <<versions, active, unit, process>>
login == <<user, identity, online>>

None == "none"
Versions == {p.version : p \in Packages}
Images == {p.image : p \in Packages}
Identities == {"absent", "expired", "mismatched", "good"}
NoPlan == [package |-> None]
\* plugin_package_runtime: each command reads the bundle anew; one that is half updated, or
\* for another target, is an error.
PackageRuntimes == Packages \cup {NoPlan}
Doing(step) == [step |-> step, plan |-> NoPlan]

\* plugin_service_bootstrap_readiness
Ready == identity = "good" /\ online
MismatchSeen == identity = "mismatched" /\ online

\* plugin_auth_status: a credential that has expired does not authenticate.
UserAuthenticated == user = "valid"

(* setup.status.                                                            *)
Runtime == IF active = None THEN NoPlan ELSE [version |-> active, image |-> versions[active]]
RuntimeMatches == Runtime = package

\* Variant of Registered: any unit file will do.
AnyUnit == unit # None

\* plugin_service_runtime_matches_bundle
Registered == unit = "stable"
ServiceActive == process # None

\* plugin_setup_recommendation; readiness is only asked for a matching, registered
\* service.
Recommendation ==
    CASE package = NoPlan -> "package.error"
      [] ~RuntimeMatches -> "setup.plan"
      [] ~Registered -> "setup.plan"
      [] MismatchSeen -> "auth.status"
      [] ServiceActive -> "auth.status"
      [] Ready -> "setup.plan"
      [] OTHER -> "auth.status"

(* setup.plan: everything here goes into the plan id.                        *)
ServiceAction ==
    CASE ~Registered /\ ~Ready -> "register_deferred"
      [] ~Registered /\ Ready -> "register_start_healthcheck"
      [] Registered /\ ~ServiceActive /\ ~Ready -> "remain_deferred"
      [] Registered /\ ~ServiceActive /\ Ready -> "start_healthcheck"
      [] Registered /\ ServiceActive /\ ~Ready -> "stop_and_defer"
      [] OTHER -> "restart_healthcheck"

Plan == [package |-> package, previous |-> active, action |-> ServiceAction,
         registered |-> Registered, active |-> ServiceActive, ready |-> Ready]

(* runner.control.                                                           *)
\* plugin_bootstrap_runner_auth: a stored credential that has not expired is used as it
\* is, and one that has expired is an error.
Bootstrapped(i) == IF i = "absent" /\ online THEN "good" ELSE i

BootstrapFails == ~UserAuthenticated \/ identity = "expired" \/ (identity = "absent" /\ ~online)

\* The image that the service manager starts.
Started == IF unit = "stable" THEN (IF active = None THEN None ELSE versions[active]) ELSE "other"

\* start leaves an active service alone, restart does not.
Launched(verb) == IF verb = "start" /\ ServiceActive THEN process ELSE Started

\* plugin_runner_control, with the identity after its bootstrap: it fails before or after
\* it has touched the service.
Controlled(verb) == ~BootstrapFails /\ Bootstrapped(identity) = "good" /\ online /\ Started # None

(* The agent.                                                                *)
Idle == agent.step \in {"ask", "plan", "authenticate"}

AskStatus ==
    /\ agent.step = "ask"
    /\ agent' = Doing(CASE Recommendation = "setup.plan" -> "plan"
                        [] Recommendation = "auth.status" -> "authenticate"
                        [] OTHER -> "ask")
    /\ UNCHANGED <<package, installation, login, before, disturbances>>

\* The user approves what the agent shows.
MakePlan ==
    /\ agent.step = "plan"
    /\ agent' = IF package = NoPlan THEN Doing("ask") ELSE [step |-> "begin", plan |-> Plan]
    /\ UNCHANGED <<package, installation, login, before, disturbances>>

\* loomex setup install, which a host runs in the agent's place: the plan that it applies
\* is its own.
SetupInstall ==
    /\ Idle /\ package # NoPlan /\ Recommendation = "setup.plan"
    /\ agent' = [step |-> "begin", plan |-> Plan]
    /\ UNCHANGED <<package, installation, login, before, disturbances>>

(* setup.apply.                                                              *)
Go(step) == agent' = [agent EXCEPT !.step = step]
Compensate ==
    /\ active' = before.active /\ unit' = before.unit /\ process' = before.process
    /\ agent' = Doing("ask")
    /\ UNCHANGED <<package, versions, login, before, disturbances>>

\* plugin_begin_setup_transaction
ApplyBegins ==
    /\ agent.step = "begin"
    /\ before' = [active |-> active, unit |-> unit, process |-> process]
    /\ Go("check")
    /\ UNCHANGED <<package, installation, login, disturbances>>

ApplyChecks ==
    /\ agent.step = "check"
    /\ IF Plan = agent.plan
       THEN /\ Go("install")
            /\ process' = IF agent.plan.active /\ ~agent.plan.ready THEN None ELSE process
            /\ UNCHANGED <<package, versions, active, unit, login, before, disturbances>>
       ELSE Compensate

\* plugin_self_test_runtime_bytes: the bytes are those of the manifest that was read for
\* the plan.
SelfTested(p) == package = p

\* A version that is published is never replaced.
Publishable(p) == versions[p.version] \in {None, p.image}

ApplyInstalls ==
    /\ agent.step = "install"
    /\ LET p == agent.plan.package IN
       IF SelfTested(p) /\ Publishable(p)
       THEN /\ versions' = [versions EXCEPT ![p.version] = p.image]
            /\ active' = p.version
            /\ Go("service")
            /\ UNCHANGED <<package, unit, process, login, before, disturbances>>
       ELSE Compensate

\* PluginSetupServiceDisposition::ActivateExisting
ApplyActivates ==
    /\ agent.step = "service" /\ agent.plan.registered
    /\ LET verb == IF agent.plan.active THEN "restart" ELSE "start" IN
       IF ~agent.plan.ready THEN process' = process /\ identity' = identity /\ agent' = Doing("ask")
                                 /\ UNCHANGED <<active, unit>>
       ELSE IF Controlled(verb)
       THEN /\ process' = Launched(verb) /\ identity' = Bootstrapped(identity)
            /\ agent' = Doing("ask") /\ UNCHANGED <<active, unit>>
       ELSE /\ active' = before.active /\ unit' = before.unit /\ process' = before.process
            /\ identity' = IF BootstrapFails THEN identity ELSE Bootstrapped(identity)
            /\ agent' = Doing("ask")
    /\ UNCHANGED <<package, versions, user, online, before, disturbances>>

\* PluginSetupServiceDisposition::Install: enable --now leaves an active service alone; a
\* service that is not ready may die before it is asked for its health.
ApplyRegisters ==
    /\ agent.step = "service" /\ ~agent.plan.registered
    /\ \/ /\ unit' = "stable"
          /\ process' = IF agent.plan.ready /\ process = None THEN versions[active] ELSE process
          /\ agent' = Doing("ask")
          /\ UNCHANGED <<package, versions, active, login, before, disturbances>>
       \/ agent.plan.ready /\ ~Ready /\ Compensate

(* Authentication: auth.status, auth.start and auth.wait, runner.control.     *)
Stale == user = "expired" \/ identity \in {"expired", "mismatched"}

\* auth.start refuses while any credential is stored.  The selection of an organization
\* is a part of it, for a user who has none.  auth.wait bootstraps and activates the
\* service; what fails of that is only reported.
Authenticate ==
    /\ agent.step = "authenticate" /\ user = "absent" /\ identity = "absent" /\ online
    /\ user' = "valid" /\ identity' = "good"
    /\ process' = IF unit # None /\ Started # None THEN Started ELSE process
    /\ agent' = Doing("ask")
    /\ UNCHANGED <<package, versions, active, unit, online, before, disturbances>>

\* With a user who is authenticated, runner.control establishes the runner.
StartRunner ==
    /\ agent.step = "authenticate" /\ UserAuthenticated /\ ~Stale
    /\ identity' = Bootstrapped(identity)
    /\ process' = IF Controlled("start") /\ unit # None THEN Launched("start") ELSE process
    /\ agent' = Doing("ask")
    /\ UNCHANGED <<package, versions, active, unit, user, online, before, disturbances>>

\* auth.logout, which stops the service first.
SignedOut == user' = "absent" /\ identity' = "absent" /\ process' = None

\* An agent that is refused because a credential went stale signs out and begins again.
SignOut ==
    /\ agent.step = "authenticate" /\ Stale
    /\ SignedOut
    /\ agent' = Doing("ask")
    /\ UNCHANGED <<package, versions, active, unit, online, before, disturbances>>

(* Disturbances: while no setup.apply runs, those that take the lifecycle lock.  *)
Disturb(kind) == kind \in Kinds /\ disturbances < MaxDisturbances /\ disturbances' = disturbances + 1

UpdatePlugin ==
    /\ Disturb("update")
    /\ package' \in PackageRuntimes
    /\ UNCHANGED <<installation, login, agent, before>>

ServiceDies ==
    /\ Disturb("death") /\ process' = None
    /\ UNCHANGED <<package, versions, active, unit, login, agent, before>>

GoOffline ==
    /\ Disturb("offline") /\ online /\ online' = FALSE
    /\ UNCHANGED <<package, installation, user, identity, agent, before>>

GoOnline ==
    /\ ~online /\ online' = TRUE
    /\ UNCHANGED <<package, installation, user, identity, agent, before, disturbances>>

Logout ==
    /\ Disturb("logout") /\ Idle
    /\ SignedOut
    /\ UNCHANGED <<package, versions, active, unit, online, agent, before>>

\* The user credential expires.
SessionEnds ==
    /\ Disturb("session") /\ user = "valid" /\ user' = "expired"
    /\ UNCHANGED <<package, installation, identity, online, agent, before>>

\* Time passes; or the credential and the configured runner are written by two commands,
\* or by one that is killed in between.
Decay(kind) ==
    /\ Disturb(kind) /\ identity = "good" /\ identity' = kind
    /\ UNCHANGED <<package, installation, user, online, agent, before>>

\* setup.rollback to a published version; where the service cannot be started afterwards
\* everything is put back.
RollBack(v) ==
    /\ Disturb("rollback") /\ Idle
    /\ versions[v] # None /\ (unit # None /\ Ready => UserAuthenticated)
    /\ active' = v
    /\ process' = CASE ~Ready \/ unit = None -> None
                    [] unit = "stable" -> versions[v]
                    [] unit = "other" -> "other"
    /\ UNCHANGED <<package, versions, unit, login, agent, before>>

\* loomex runner service install, from a binary of its own
InstallOther ==
    /\ Disturb("install") /\ Idle
    /\ unit' = "other" /\ process' = IF process = None THEN "other" ELSE process
    /\ UNCHANGED <<package, versions, active, login, agent, before>>

\* loomex runner service uninstall
Uninstall ==
    /\ Disturb("uninstall") /\ Idle
    /\ unit' = None /\ process' = None
    /\ UNCHANGED <<package, versions, active, login, agent, before>>

Agent == \/ AskStatus \/ MakePlan \/ SetupInstall \/ ApplyBegins \/ ApplyChecks \/ ApplyInstalls
         \/ ApplyActivates \/ ApplyRegisters \/ Authenticate \/ StartRunner \/ SignOut

Disturbance ==
    \/ UpdatePlugin \/ ServiceDies \/ GoOffline \/ Logout \/ SessionEnds \/ InstallOther
    \/ Uninstall
    \/ \E kind \in {"expired", "mismatched"} : Decay(kind)
    \/ \E v \in Versions : RollBack(v)

Init ==
    /\ package \in Packages
    /\ versions = [v \in Versions |-> None] /\ active = None /\ unit = None /\ process = None
    /\ user = "absent" /\ identity = "absent" /\ online = TRUE
    /\ agent = Doing("ask") /\ before = [active |-> None, unit |-> None, process |-> None]
    /\ disturbances = 0

Next == Agent \/ GoOnline \/ Disturbance

Fairness == WF_vars(Agent) /\ WF_vars(GoOnline)
Spec == Init /\ [][Next]_vars /\ Fairness

-----------------------------------------------------------------------------
(* Properties.                                                             *)

TypeOK ==
    /\ package \in PackageRuntimes /\ versions \in [Versions -> Images \cup {None}]
    /\ active \in Versions \cup {None} /\ unit \in {None, "stable", "other"}
    /\ process \in Images \cup {None, "other"}
    /\ user \in {"absent", "expired", "valid"} /\ identity \in Identities /\ online \in BOOLEAN
    /\ agent.step \in {"ask", "plan", "begin", "check", "install", "service", "authenticate"}
    /\ disturbances \in 0..MaxDisturbances

Complete == RuntimeMatches /\ unit = "stable" /\ process # None /\ Ready

\* Activating a service needs a user, and nothing in the advice sends an agent whose
\* runner is ready to sign out: it would plan for ever.
SessionEndedFirst == user = "expired" /\ identity = "good"

\* An agent that does what setup.status recommends, signs out where a credential went
\* stale, and has a user who approves and logs in, ends with the bundled runtime, the
\* registered service at work and a runner that is authenticated, whatever disturbed it
\* on the way, unless the plugin has no runtime.
ObeyedAdviceCompletes == <>[](Complete \/ SessionEndedFirst \/ package = NoPlan)
=============================================================================
