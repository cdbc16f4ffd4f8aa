--------------------------- MODULE RunnerBackend ---------------------------
(***************************************************************************)
(* EXTERNAL.  The Loomex Backend is not in this repository.  This module   *)
(* is the weakest server the runner's calls presume (management.rs, the    *)
(* /runner-control/runner/v1/jobs/ requests): a row per job with a fenced  *)
(* lease, whose terminal states are final and whose lease version only     *)
(* grows.  Every request carries the session and the version it was made   *)
(* under, and the server takes it only if both still hold.                 *)
(***************************************************************************)
EXTENDS RecoveryJournal

\* A request of the runner.  `op` is the endpoint; complete and fail are the
\* one operation "settle", which their payload tells apart.
Request(op, j, s, v, payload) ==
    [op |-> op, job |-> j, session |-> s, version |-> v, payload |-> payload]

\* The row session s holds under version v.
Holds(row, m) == row.session = m.session /\ row.version = m.version

\* The status a terminal submission leaves: the payload of an execution that
\* succeeded has kind "ok".
SettledStatus(payload) == IF payload.kind = "ok" THEN "Succeeded" ELSE "Failed"

\* Whether the server takes request m on the row of its job.
Accepts(row, m) ==
    CASE m.op = "lease" -> row.status = "Queued"
      [] m.op = "start" -> Holds(row, m) /\ row.status \in ActiveStatuses
      [] m.op = "renew" -> Holds(row, m) /\ row.status \in ActiveStatuses
      [] m.op = "reclaim" ->
            /\ row.version = m.version
            /\ \/ row.status = "Queued"
               \/ row.status \in ActiveStatuses /\ row.lapsed
      [] m.op = "settle" ->
            \/ Holds(row, m) /\ row.status \in ActiveStatuses \cup {"Canceling"}
            \/ row.status \in TerminalStatuses /\ row.verdict = m.payload

\* The row after the server took request m.  A terminal submission that is
\* repeated under its idempotency key changes nothing.
Effect(row, m) ==
    CASE m.op \in {"lease", "reclaim"} ->
            [row EXCEPT !.status = "Leased", !.session = m.session,
                        !.version = @ + 1, !.lapsed = FALSE]
      [] m.op = "start" -> [row EXCEPT !.status = "Running"]
      [] m.op = "renew" -> [row EXCEPT !.version = @ + 1, !.lapsed = FALSE]
      [] m.op = "settle" ->
            IF IsTerminal(row) THEN row
            ELSE [row EXCEPT !.status = SettledStatus(m.payload),
                             !.verdict = m.payload]

\* A job that was dispatched to this runner and leased by no session yet.
FreshRow ==
    [status |-> "Queued", session |-> NoSession, version |-> 0,
     lapsed |-> FALSE, verdict |-> NoPayload]

=============================================================================
