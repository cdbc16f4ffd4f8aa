---------------------------- MODULE MCJobsAndAdvice ----------------------------
(***************************************************************************)
(* For TLC: the registry of approvals, the jobs that a runner executes and *)
(* the agent that sets it up, each in behaviours of its own.  The first    *)
(* state chooses which, and the variables of the others stay as they are.  *)
(* The registry is extended, the others are instances.                     *)
(***************************************************************************)
EXTENDS ApprovalRegistry

CONSTANTS
    Offers, MaxJobs, MaxClock, MaxEdits, MaxWrites,     \* jobs
    Packages, Kinds, MaxDisturbances,                   \* advice
    i1, i2

\* The Backend issues a nonce for one approval, with what that binds.
ASSUME ApprovalAssumption ==
    \A j, k \in Offers :
        LET a == j.envelope.approval
            b == k.envelope.approval
        IN  a.approved /\ b.approved /\ a.nonce = b.nonce =>
                a.lease = b.lease /\ a.workspace = b.workspace /\ a.input = b.input
                /\ a.actor = b.actor

VARIABLES
    component,
    clock, edits, job, gateway, work, disk, proc, output, token, granted, unseen,
    package, versions, active, unit, process, user, identity, online, agent, before, disturbances

registry == <<requests, decided, audit, told>>
jobs == <<clock, edits, job, gateway, work, disk, proc, output, token, granted, unseen>>
advice == <<package, versions, active, unit, process, user, identity, online, agent, before,
            disturbances>>

Jobs == INSTANCE CapabilityJobs
Advice == INSTANCE SetupAdvice

SumInit ==
    /\ component \in {"registry", "jobs", "advice"}
    /\ Init /\ Jobs!Init /\ Advice!Init

SumNext ==
    /\ \/ component = "registry" /\ Next /\ UNCHANGED <<jobs, advice>>
       \/ component = "jobs" /\ Jobs!Next /\ UNCHANGED <<registry, advice>>
       \/ component = "advice" /\ Advice!Next /\ UNCHANGED <<registry, jobs>>
    /\ UNCHANGED component

SumSpec ==
    /\ SumInit /\ [][SumNext]_<<component, registry, jobs, advice>>
    /\ component = "jobs" => Jobs!Fairness
    /\ component = "advice" => Advice!Fairness

(* One good job of each class of kinds, and each way in which an             *)
(* authorization can fail to cover one.                                      *)
Good(kind, capability, caller) ==
    [kind |-> kind, caller |-> caller, actor |-> "a", workspace |-> "w", path |-> "inside",
     lease |-> 1, input |-> "x",
     envelope |-> [version |-> 1, capability |-> capability, actor |-> "a",
                   workspace |-> "w", input |-> "x", expires |-> 2, nonce |-> "n",
                   approval |-> [approved |-> TRUE, input |-> "x", workspace |-> "w",
                                 actor |-> "a", lease |-> 1, expires |-> 1, nonce |-> "n"]]]

Shell == Good("command.run", "shell.exec", "runner")

Refused == {
    [Shell EXCEPT !.lease = 2],                          \* leased again
    [Shell EXCEPT !.input = "y"],                        \* another input
    [Shell EXCEPT !.input = "y", !.envelope.input = "y"],
    [Shell EXCEPT !.workspace = "link", !.envelope.workspace = "link"],
    [Shell EXCEPT !.envelope.version = 2],
    [Shell EXCEPT !.envelope.approval.approved = FALSE],
    [Shell EXCEPT !.path = "outside"],
    Good("git.push", "git.push", "runner"), Good("db.query", "db.query", "runner")}

MCOffers ==
    {Shell, Good("file.read_many", "fs.read", "runner")}
    \cup {Good(k, k, "runner") : k \in {"fs.list", "git.status", "http.request"}}
    \cup {Good(k, k, "library") : k \in {"db.query", "test.run", "browser.playwright"}}
    \cup Refused

(* Two releases of the plugin.                                               *)
Release(version, image) == [version |-> version, image |-> image]
MCPackages == {Release("v1", i1), Release("v2", i2)}

(* OneDecision and RetriesAgree are the registry's own.                      *)

\* policy.rs, approval.rs: a gateway accepts a nonce for one job, and another one accepts it
\* for a job of the same lease version, input, workspace and actor only.
NonceIsBoundAndSpent == component = "jobs" => Jobs!NonceIsBoundAndSpent

\* local_capabilities.rs: what a read returns is one version of the file, however it is
\* edited or replaced meanwhile, unless an edit left no trace in its length and time.
ReadsOneVersion == component = "jobs" => Jobs!ReadsOneVersion

\* local_capabilities.rs: a cancelled command leaves nothing of its process group, and
\* what is reported of a command is all that it wrote.
CommandResultIsTrue == component = "jobs" => Jobs!CommandResultIsTrue

\* local_capabilities.rs: a command ends, at the latest after its deadline, unless its
\* child left a process that holds the output.
CommandEnds == component = "jobs" => Jobs!CommandEnds

\* main.rs, setup.status and setup.apply: an agent that does what it is advised ends with
\* a complete installation.
ObeyedAdviceCompletes == component = "advice" => Advice!ObeyedAdviceCompletes
=============================================================================
