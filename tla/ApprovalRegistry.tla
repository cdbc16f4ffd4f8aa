--------------------------- MODULE ApprovalRegistry ---------------------------
(***************************************************************************)
(* approval.rs: the registry of the requests for an approval, with the     *)
(* decisions of several users, their retries under idempotency keys, the   *)
(* expiry and the cancellation of a run.  Every call brings its own time,  *)
(* so that calls may come in any order of their times.                     *)
(***************************************************************************)
EXTENDS Naturals, Sequences

CONSTANTS
    Requests,       \* ids of approval requests
    Runs,           \* ids of workflow runs
    Users, Keys,    \* who decides, and idempotency keys
    MaxTime         \* bound: the times of calls

VARIABLES
    requests,       \* requests, by id
    decided,        \* decision_idempotency
    audit,          \* audit_events, of each request
    told            \* history: what the callers of decide were told

vars == <<requests, decided, audit, told>>

Times == 0..MaxTime
Decisions == {"allow", "deny"}
Unknown == [status |-> "unknown"]
Call == [request : Requests, user : Users, key : Keys]

Status(r) == requests[r].status
AuditAll(those, event) ==
    audit' = [r \in Requests |-> IF r \in those THEN Append(audit[r], event) ELSE audit[r]]
Audit(r, event) == AuditAll({r}, event)
Reply(call, decision, result) ==
    told' = told \cup {[call |-> call, decision |-> decision, result |-> result]}

Init ==
    /\ requests = [r \in Requests |-> Unknown]
    /\ decided = {}
    /\ audit = [r \in Requests |-> <<>>] /\ told = {}

\* create_request
CreateRequest(r) ==
    /\ Status(r) = "unknown"
    /\ \E run \in Runs, users \in SUBSET Users, at, timeout \in Times :
        /\ users # {} /\ timeout > 0
        /\ requests' = [requests EXCEPT ![r] =
               [status |-> "pending", run |-> run, users |-> users, expires |-> at + timeout,
                decision |-> "none", by |-> "nobody"]]
    /\ Audit(r, "created")
    /\ UNCHANGED <<decided, told>>

\* ApprovalIdempotencyKey
KeyOf(call) == <<call.request, call.user, call.key>>

Records(call) == {d \in decided : d.key = KeyOf(call)}
Record(call, decision, result) ==
    decided' = decided \cup {[key |-> KeyOf(call), decision |-> decision, result |-> result]}

Known(call) == Status(call.request) # "unknown" /\ call.user \in requests[call.request].users

\* Variant of Replay: the expiry is looked at first.
ReplayInTime(call, decision) ==
    /\ Known(call)
    /\ \E d \in Records(call), at \in Times :
        Reply(call, decision, IF at >= requests[call.request].expires THEN "expired"
                              ELSE IF d.decision = decision THEN d.result ELSE "conflict")
    /\ UNCHANGED <<requests, decided, audit>>

\* decide: a call that was answered before is answered again, without a look at the
\* request.
Replay(call, decision) ==
    /\ Known(call)
    /\ \E d \in Records(call) :
        Reply(call, decision, IF d.decision = decision THEN d.result ELSE "conflict")
    /\ UNCHANGED <<requests, decided, audit>>

\* The expiry comes first, also for a request that is no longer pending.
Late(call, decision, at) ==
    /\ Known(call) /\ Records(call) = {}
    /\ at >= requests[call.request].expires
    /\ requests' = [requests EXCEPT ![call.request].status = "expired"]
    /\ Audit(call.request, "expired")
    /\ Record(call, decision, "expired") /\ Reply(call, decision, "expired")

\* This answer is not recorded.
Settled(call, decision, at) ==
    /\ Known(call) /\ Records(call) = {}
    /\ at < requests[call.request].expires /\ Status(call.request) # "pending"
    /\ Reply(call, decision, "terminal")
    /\ UNCHANGED <<requests, decided, audit>>

\* Variant of MayDecide: whatever the status.
MayDecideAgain(call, at) ==
    Known(call) /\ Records(call) = {} /\ at < requests[call.request].expires

MayDecide(call, at) ==
    /\ Known(call) /\ Records(call) = {}
    /\ at < requests[call.request].expires /\ Status(call.request) = "pending"

Decided(decision) == IF decision = "allow" THEN "approved" ELSE "denied"

Decide(call, decision, at) ==
    /\ MayDecide(call, at)
    /\ requests' = [requests EXCEPT ![call.request].status = Decided(decision),
                                    ![call.request].decision = decision,
                                    ![call.request].by = call.user]
    /\ Record(call, decision, Decided(decision)) /\ Reply(call, decision, Decided(decision))
    /\ Audit(call.request, Decided(decision))

\* Of all requests that are still pending.
Settle(those, status) ==
    /\ those # {}
    /\ requests' = [r \in Requests |-> IF r \in those THEN [requests[r] EXCEPT !.status = status]
                                                      ELSE requests[r]]
    /\ AuditAll(those, status)
    /\ UNCHANGED <<decided, told>>

Pending == {r \in Requests : Status(r) = "pending"}

\* expire_pending
ExpirePending(at) == Settle({r \in Pending : at >= requests[r].expires}, "expired")

\* cancel_run
CancelRun(run) == Settle({r \in Pending : requests[r].run = run}, "cancelled")

Next ==
    \/ \E r \in Requests : CreateRequest(r)
    \/ \E at \in Times : ExpirePending(at)
    \/ \E run \in Runs : CancelRun(run)
    \/ \E call \in Call, decision \in Decisions :
        \/ Replay(call, decision)
        \/ \E at \in Times : Late(call, decision, at) \/ Settled(call, decision, at)
                             \/ Decide(call, decision, at)

Spec == Init /\ [][Next]_vars

-----------------------------------------------------------------------------
(* Properties.                                                             *)

Outcomes == {"approved", "denied", "expired"}
Request == [status : {"pending", "cancelled"} \cup Outcomes, run : Runs, users : SUBSET Users,
            expires : Nat, decision : Decisions \cup {"none"}, by : Users \cup {"nobody"}]

TypeOK ==
    /\ requests \in [Requests -> Request \cup {Unknown}]
    /\ decided \subseteq [key : Requests \X Users \X Keys, decision : Decisions, result : Outcomes]
    /\ told \subseteq [call : Call, decision : Decisions,
                      result : Outcomes \cup {"terminal", "conflict"}]

Granted(t) == t.result \in {"approved", "denied"}

\* Whatever users, keys, retries, late calls and cancellations there are: of one
\* request, all who were told of a decision were told of the same one, made by one
\* user, and it is the one that the request keeps.
OneDecision ==
    \A t \in told : Granted(t) =>
        /\ t.result = Decided(requests[t.call.request].decision)
        /\ t.call.user = requests[t.call.request].by

\* A retry of a call is answered as the call was: once its outcome is told it is
\* never told another one, although the request may have expired or been canceled
\* in the meantime.
RetriesAgree ==
    \A t, u \in told :
        t.call = u.call /\ t.decision = u.decision
        /\ t.result \in Outcomes /\ u.result \in Outcomes
            => t.result = u.result

=============================================================================
