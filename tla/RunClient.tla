------------------------------- MODULE RunClient -------------------------------
(***************************************************************************)
(* The calls about workflow runs.  The local control service answers each  *)
(* connection in a thread: workflow.run, run.wait, run.cancel and          *)
(* human.respond (local_control.rs).  Its threads share the management     *)
(* client behind a mutex and one circuit breaker (management.rs).          *)
(* loomex workflow run is a process of its own that asks a human where the *)
(* run waits for one (main.rs); it ends at its first failure, so its       *)
(* breaker never opens.  What the Backend does is taken from how these     *)
(* calls use it.                                                           *)
(***************************************************************************)
EXTENDS Naturals

CONSTANTS
    Threads,            \* threads of the service that hold a connection
    Runs,               \* workflow runs
    Asks,               \* requests to a human
    Unnamed,            \* those that the Backend lists without the run they are of
    RecoveryAttempts,   \* RUN_WAIT_RECOVERY_ATTEMPTS
    Threshold,          \* MANAGEMENT_BREAKER_FAILURE_THRESHOLD
    Casts               \* bound: the threads and commands that are at work together

VARIABLES
    runs,       \* Backend: the status of each run
    asks,       \* Backend: the run of each request to a human, "gone" where it is answered
    breaker,    \* MANAGEMENT_BREAKER
    lock,       \* the thread that holds the mutex of the client
    calls,      \* the call that each thread serves
    cli         \* loomex workflow run

vars == <<runs, asks, breaker, lock, calls, cli>>
backend == <<runs, asks>>

None == "none"

\* The ids of runs are told apart from no run, and from the mark of an answered request.
ASSUME NamesAssumption == {None, "gone"} \cap Runs = {}

\* The run of a request is optional in a listing (HumanRequestSummary.execution).
ASSUME UnnamedAssumption == Unnamed \subseteq Asks

NoCall == [op |-> None, step |-> "idle", attempt |-> 0, exchange |-> "act", answer |-> None]
NoCommand == [step |-> "idle", input |-> TRUE, answers |-> TRUE, run |-> None, ask |-> None]
Absent == "absent"

Operations == {"wait", "act"}
Answers == {"ok", "refused", "busy", "limited", "lost"}

\* is_retryable_code, of a transport error and of a status or a body that the management
\* client names the error of; an error that a limiting Backend names itself is not retried.
Retryable == {"busy", "lost"}

Pending(a) == asks[a] \in Runs /\ runs[asks[a]] = "waiting"

Init ==
    /\ runs = [r \in Runs |-> Absent] /\ asks = [a \in Asks |-> None]
    /\ breaker = [failures |-> 0, state |-> "closed"] /\ lock = None
    /\ \E cast \in Casts :
        /\ calls = [t \in Threads |-> [NoCall EXCEPT !.step = IF t \in cast THEN "idle" ELSE Absent]]
        /\ cli = [NoCommand EXCEPT !.step = IF "cli" \in cast THEN "idle" ELSE Absent]

(* The Backend.                                                             *)
StartRun(r) ==
    /\ runs[r] = Absent /\ r = CHOOSE fresh \in Runs : runs[fresh] = Absent
    /\ runs' = [runs EXCEPT ![r] = "running"] /\ asks' = asks

Resolve(a) ==
    /\ Pending(a)
    /\ asks' = [asks EXCEPT ![a] = "gone"]
    /\ runs' = [runs EXCEPT ![asks[a]] = "running"]

CancelRun(r) ==
    /\ runs[r] \in {"running", "waiting"} /\ runs' = [runs EXCEPT ![r] = "ended"]
    /\ asks' = asks

\* What the service asks for is done: a workflow is started, a run canceled or a human's
\* answer taken; it changes nothing where it was done before under the same key, or where
\* it only reads.
Done(c) ==
    \/ UNCHANGED backend
    \/ c.op = "act" /\ \E r \in Runs : StartRun(r) \/ CancelRun(r)
    \/ c.op = "act" /\ \E a \in Asks : Resolve(a)

RunAsks(a) ==
    /\ asks[a] = None /\ a = CHOOSE fresh \in Asks : asks[fresh] = None
    /\ \E r \in Runs : /\ runs[r] = "running"
                       /\ runs' = [runs EXCEPT ![r] = "waiting"]
                       /\ asks' = [asks EXCEPT ![a] = r]
    /\ UNCHANGED <<breaker, lock, calls, cli>>

RunCompletes(r) ==
    /\ runs[r] = "running" /\ runs' = [runs EXCEPT ![r] = "ended"]
    /\ UNCHANGED <<asks, breaker, lock, calls, cli>>

(* The circuit breaker.                                                      *)
\* record_management_failure
RecordFailure ==
    breaker' = IF breaker.failures + 1 >= Threshold
               THEN [failures |-> Threshold, state |-> IF breaker.state = "closed" THEN "open"
                                                       ELSE breaker.state]
               ELSE [breaker EXCEPT !.failures = @ + 1]

\* record_management_success; management_breaker_is_open after the cooldown
CloseBreaker == breaker' = [failures |-> 0, state |-> "closed"]

CoolDown ==
    /\ breaker.state = "open" /\ breaker' = [breaker EXCEPT !.state = "cooled"]
    /\ UNCHANGED <<backend, lock, calls, cli>>

(* A thread of the service.                                                  *)
Serving(t, step) == calls[t].step = step
Continue(t, step) == calls' = [calls EXCEPT ![t].step = step]

Begin(t) ==
    /\ Serving(t, "idle")
    /\ \E op \in Operations :
        calls' = [calls EXCEPT ![t] = [NoCall EXCEPT !.op = op, !.step = "lock",
                                           !.exchange = IF op = "wait" THEN "poll" ELSE "act"]]
    /\ UNCHANGED <<backend, breaker, lock, cli>>

\* with_client
Lock(t) ==
    /\ Serving(t, "lock") /\ lock = None
    /\ lock' = t /\ Continue(t, "clone")
    /\ UNCHANGED <<backend, breaker, cli>>

\* Variant of CloneClient: the lock is held while the Backend is asked.
CloneLocked(t) ==
    /\ Serving(t, "clone")
    /\ Continue(t, "sent")
    /\ UNCHANGED <<backend, breaker, lock, cli>>

CloneClient(t) ==
    /\ Serving(t, "clone")
    /\ lock' = None /\ Continue(t, "sent")
    /\ UNCHANGED <<backend, breaker, cli>>

\* The request arrives or not, and what comes back is an answer or a failure.
Exchange(t) ==
    /\ Serving(t, "sent")
    /\ \E answer \in Answers :
        /\ calls' = [calls EXCEPT ![t].answer = answer, ![t].step = "answered"]
        /\ \/ answer # "refused" /\ Done(calls[t])
           \/ answer # "ok" /\ UNCHANGED backend
    /\ UNCHANGED <<breaker, lock, cli>>

Return(t) ==
    /\ calls' = [calls EXCEPT ![t] = NoCall]
    /\ lock' = IF lock = t THEN None ELSE lock

\* The next long poll of wait_for_run, after a pause.
Poll(t) ==
    /\ calls' = [calls EXCEPT ![t].exchange = "poll", ![t].step = "sent", ![t].answer = None,
                              ![t].attempt = @ + 1]
    /\ lock' = lock

\* wait_for_run reads the state of the run again after a long poll that failed.
Reread(t) ==
    /\ calls' = [calls EXCEPT ![t].exchange = "reread", ![t].step = "sent", ![t].answer = None]
    /\ lock' = lock

Conclude(t, result) ==
    IF result \notin Retryable THEN Return(t)
    ELSE CASE calls[t].exchange = "act" -> Return(t)
           [] calls[t].exchange = "poll" /\ calls[t].attempt < RecoveryAttempts -> Reread(t)
           [] calls[t].exchange = "poll" /\ calls[t].attempt >= RecoveryAttempts -> Return(t)
           [] calls[t].exchange = "reread" -> Poll(t)

\* send fails, or parse_json_response asks the breaker, after the Backend has answered.
Receive(t) ==
    /\ Serving(t, "answered")
    /\ CASE calls[t].answer = "lost" -> Conclude(t, "lost") /\ breaker' = breaker
         [] calls[t].answer # "lost" /\ breaker.state = "open" ->
                Conclude(t, "circuit") /\ breaker' = breaker
         [] calls[t].answer # "lost" /\ breaker.state = "closed" ->
                Continue(t, "read") /\ UNCHANGED <<breaker, lock>>
         [] calls[t].answer # "lost" /\ breaker.state = "cooled" ->
                Continue(t, "read") /\ CloseBreaker /\ lock' = lock
    /\ UNCHANGED <<backend, cli>>

\* read_bounded_response and the rest of parse_json_response
Read(t) ==
    /\ Serving(t, "read")
    /\ CASE calls[t].answer = "ok" -> CloseBreaker
         [] calls[t].answer = "refused" -> breaker' = breaker
         [] calls[t].answer \in {"busy", "limited"} -> RecordFailure
    /\ Conclude(t, calls[t].answer)
    /\ UNCHANGED <<backend, cli>>

(* loomex workflow run.                                                      *)
At(step) == cli.step = step
Goto(step) == cli' = [cli EXCEPT !.step = step]
service == <<breaker, lock, calls>>

\* prepare_workflow_input: what is not given is prompted for.
HasInput(options) == options.input \/ options.interactive

\* An answer or a cancellation is given, or the user is prompted for it.
MayAnswer(options) == options.human \/ options.interactive

\* WorkflowRunRequest::parse
CliBegin ==
    /\ At("idle")
    /\ \E options \in [interactive : BOOLEAN, input : BOOLEAN, human : BOOLEAN] :
        cli' = [NoCommand EXCEPT !.step = "schema", !.input = HasInput(options),
                                 !.answers = MayAnswer(options)]
    /\ UNCHANGED <<backend, service>>

\* get_workflow_input_schema and apply_human_input_to_workflow_input; where the schema
\* wants a human's input that nobody gives, the command fails.
CliPrepare ==
    /\ At("schema") /\ cli.input
    /\ Goto("start")
    /\ UNCHANGED <<backend, service>>

\* start_workflow_run, under a key that no other command has
CliStart ==
    /\ At("start")
    /\ \E r \in Runs, told \in BOOLEAN :
        /\ StartRun(r)
        /\ cli' = [cli EXCEPT !.step = IF told THEN "started" ELSE "idle",
                              !.run = IF told THEN r ELSE None]
    /\ UNCHANGED service

\* The answer to the start names a status; the command looks for a request where it is
\* "waiting" already.
CliStarted ==
    /\ At("started")
    /\ Goto(IF runs[cli.run] = "waiting" THEN "list" ELSE "idle")
    /\ UNCHANGED <<backend, service>>

\* Variant of IsMine: what the Backend lists is taken for the run's.
IsListed(a) == asks[a] \in Runs

\* first_pending_human_request: a request listed without its run is taken for this run's.
IsMine(a) == a \in Unnamed \/ asks[a] = cli.run

\* The Backend is asked for the requests of the run and lists those of other runs too or
\* not; the command looks at each one's run itself.
CliList ==
    /\ At("list")
    /\ \/ \E a \in Asks : /\ Pending(a) /\ IsMine(a)
                          /\ cli' = [cli EXCEPT !.step = "answer", !.ask = a]
       \/ /\ ~\E a \in Asks : Pending(a) /\ asks[a] = cli.run
          /\ Goto("idle")
    /\ UNCHANGED <<backend, service>>

\* resolve_waiting_human_input: a command that may not prompt and has no answer only names
\* the request.
CliResolve ==
    /\ At("answer") /\ cli.answers
    /\ Resolve(cli.ask)
    /\ Goto("idle")
    /\ UNCHANGED service

\* The command ends at its first failure: its options, the input under the schema, or a
\* request.
CliFail ==
    /\ cli.step \in {"schema", "start", "list", "answer"}
    /\ Goto("idle")
    /\ UNCHANGED <<backend, service>>

ServiceStep(t) == Begin(t) \/ Lock(t) \/ CloneClient(t) \/ Exchange(t) \/ Receive(t) \/ Read(t)

Cli == CliBegin \/ CliPrepare \/ CliStart \/ CliStarted \/ CliList \/ CliResolve \/ CliFail

Next ==
    \/ \E t \in Threads : ServiceStep(t)
    \/ Cli \/ CoolDown
    \/ \E a \in Asks : RunAsks(a)
    \/ \E r \in Runs : RunCompletes(r)

\* A thread goes on, a mutex is handed out, and every request but a long poll is answered
\* or times out.
Fairness ==
    \A t \in Threads :
        /\ SF_vars(Lock(t))
        /\ WF_vars(CloneClient(t)) /\ WF_vars(Receive(t)) /\ WF_vars(Read(t))
        /\ WF_vars(calls[t].exchange # "poll" /\ Exchange(t))

Spec == Init /\ [][Next]_vars /\ Fairness

-----------------------------------------------------------------------------
(* Properties.                                                             *)

TypeOK ==
    /\ runs \in [Runs -> {Absent, "running", "waiting", "ended"}]
    /\ asks \in [Asks -> Runs \cup {None, "gone"}]
    /\ breaker \in [failures : 0..Threshold, state : {"closed", "open", "cooled"}]
    /\ lock \in Threads \cup {None}
    /\ \A t \in Threads : calls[t].attempt \in 0..RecoveryAttempts

\* A long poll that never ends holds up no other call: a run is started, canceled or
\* answered meanwhile.
PollsBlockNobody ==
    \A t \in Threads : (calls[t].op = "act") ~> Serving(t, "idle")

\* The answer that a command was given, or asks its user for, goes to a request of the
\* run that this command started, whatever other runs are waiting and whatever the Backend
\* lists, unless the Backend did not name the run of the request: of those the command
\* takes the first for its own, and only the filter of the Backend keeps others away.
AnswersReachTheirRun ==
    [][cli' # cli /\ asks' # asks => cli.ask \in Unnamed \/ asks[cli.ask] = cli.run]_vars

\* The re-read after a long poll that failed keeps the failure from the caller: an answer
\* of the Backend to it is read.
RereadHidesTheFailure ==
    [][\A t \in Threads :
        Serving(t, "answered") /\ calls[t].exchange = "reread" /\ calls[t].answer = "ok"
            => calls'[t].step \in {"answered", "read"}]_vars
=============================================================================
