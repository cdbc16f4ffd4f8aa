----------------------------- MODULE JobOutcome -----------------------------
(***************************************************************************)
(* What the runner promises about a job, whatever its daemon, its journal  *)
(* and the network do: a job that is not declared replay-safe begins at    *)
(* most one execution; a job has one verdict; and a verdict that speaks of *)
(* an execution speaks of the last one, after which none begins.           *)
(***************************************************************************)
EXTENDS Naturals

CONSTANTS Jobs, Idempotent

VARIABLES
    runs,       \* how many executions of a job began
    verdict     \* what the job ended with

outcomeVars == <<runs, verdict>>

Undecided == [kind |-> "undecided", run |-> 0]

\* The server gave the job up: canceled, or its lease expired for good.
Withdrawn == [kind |-> "withdrawn", run |-> 0]

\* An error of the controller, which claims nothing about an execution.
Reported == {"exited", "uncertain"}

Init ==
    /\ runs = [j \in Jobs |-> 0]
    /\ verdict = [j \in Jobs |-> Undecided]

\* An execution begins: the first one, or a replay that was declared safe.  A
\* withdrawal may still be on its way to the runner.
Begin(j) ==
    /\ runs[j] = 0 \/ j \in Idempotent
    /\ verdict[j] \in {Undecided, Withdrawn}
    /\ runs' = [runs EXCEPT ![j] = @ + 1]
    /\ UNCHANGED verdict

\* The job ends with the outcome of its last execution, or with an error of
\* the controller.
Settle(j, kind) ==
    /\ verdict[j] = Undecided
    /\ kind \in {"ok", "err"} => runs[j] > 0
    /\ verdict' = [verdict EXCEPT ![j] = [kind |-> kind, run |-> runs[j]]]
    /\ UNCHANGED runs

Withdraw(j) ==
    /\ verdict[j] = Undecided
    /\ verdict' = [verdict EXCEPT ![j] = Withdrawn]
    /\ UNCHANGED runs

Next ==
    \E j \in Jobs :
        \/ Begin(j)
        \/ \E kind \in {"ok", "err"} \cup Reported : Settle(j, kind)
        \/ Withdraw(j)

Spec == Init /\ [][Next]_outcomeVars

=============================================================================
