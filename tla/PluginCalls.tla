----------------------------- MODULE PluginCalls -----------------------------
(***************************************************************************)
(* A tool call from the host's line to its answer: the MCP server          *)
(* (loomex-mcp/protocol.rs), its client (loomex-mcp/ipc.rs), the local     *)
(* control server of the daemon (loomex-core/local_control.rs) and the     *)
(* bundled CLI the client starts.                                          *)
(*                                                                         *)
(* The host writes the requests 1..N, one per line.  The server reads a    *)
(* line, waits for one of Permits permits, handles the request in a task   *)
(* and sends the answer through a bounded channel to the writer of its     *)
(* stdout.  A daemon call opens a connection, and a thread of the daemon   *)
(* goes on with it also after the client has given up.  Sockets are those  *)
(* of Unix: who closes one with unread data in it resets it, otherwise     *)
(* the other side reads what was written before and then the end.          *)
(***************************************************************************)
EXTENDS Naturals, Sequences, FiniteSets

CONSTANTS
    N,              \* bound: lines the host writes
    Permits,        \* Semaphore::new(32)
    Channel,        \* mpsc::channel(64)
    Budget,         \* LOCAL_CONTROL_MAX_CONCURRENT_REQUESTS
    MaxFaults       \* bound: deaths of the daemon, sign-outs, closings of stdout

ASSUME CallsAssumption ==
    /\ N \in Nat /\ MaxFaults \in Nat
    /\ Permits \in Nat \ {0} /\ Channel \in Nat \ {0} /\ Budget \in Nat \ {0}

VARIABLES
    kind,           \* what each line is
    reader,         \* the loop of `serve`, and the line it works on
    call,           \* the task of each request
    channel,        \* answers on their way to the writer
    stdout,         \* the writer task
    read,           \* how many answers to each request the host has read
    daemon,         \* the service, and the token it accepts
    token,          \* the token file
    conn,           \* the connection of each request
    effects,        \* history: how often a request was executed
    faults

server == <<reader, call, channel, stdout>>
machine == <<daemon, token, conn, effects>>
vars == <<kind, server, read, machine, faults>>

Requests == 1..N

\* Lines: one that does not parse, a notification, a request the server answers
\* itself, and tools/call for the daemon, for the daemon or the CLI, for the CLI.
Kinds == {"bad", "note", "local", "daemon", "fallback", "cli", "create"}
Answered(r) == kind[r] # "note"

CallSteps == {"unread", "begin", "token", "connect", "await", "start", "cli", "recover",
              "send", "done"}
\* "pending": org.create.recover answered, and does not know of the organization.
Results == {"none", "ok", "pending", "invalid", "unavailable", "unauthorized", "timeout",
            "protocol", "remote"}
Connections == {"none", "open", "stale", "running", "executed", "ok", "error", "denied", "busy",
                "reset", "closed"}

TypeOK ==
    /\ kind \in [Requests -> Kinds]
    /\ reader \in [pc : {"read", "permit", "refuse", "drain", "close", "exit", "failed"},
                   line : 0..N]
    /\ call \in [Requests -> [pc : CallSteps, tries : 0..2, token : 0..MaxFaults + 1,
                              result : Results]]
    /\ channel \in Seq(Requests) /\ Len(channel) <= Channel
    /\ stdout \in {"open", "broken", "closed"}
    /\ read \in [Requests -> Nat]
    /\ daemon \in [up : BOOLEAN, token : 0..MaxFaults + 1]
    /\ token \in 0..MaxFaults + 1       \* 0: there is no file
    /\ conn \in [Requests -> Connections]
    /\ effects \in [Requests -> Nat]
    /\ faults \in 0..MaxFaults

Fault == faults < MaxFaults /\ faults' = faults + 1

-----------------------------------------------------------------------------
(* The MCP server: serve.                                                  *)

Working(r) == call[r].pc \notin {"unread", "done"}
InFlight == {r \in Requests : Working(r) /\ kind[r] # "bad"}
Writable == stdout = "open"

\* Receivers of the channel are gone: a task ignores that its answer is lost.
Send(r) == IF ~Writable THEN channel' = channel
           ELSE Len(channel) < Channel /\ channel' = Append(channel, r)

ReadLine ==
    /\ reader.pc = "read" /\ reader.line < N
    /\ LET r == reader.line + 1 IN
         reader' = [pc |-> IF kind[r] = "bad" THEN "refuse" ELSE "permit", line |-> r]
    /\ UNCHANGED <<kind, call, channel, stdout, read, machine, faults>>

\* A line that is too long or does not parse is answered by the loop itself.
RefuseLine ==
    /\ reader.pc = "refuse"
    /\ Send(reader.line)
    /\ call' = [call EXCEPT ![reader.line].pc = "done", ![reader.line].result = "invalid"]
    /\ reader' = [reader EXCEPT !.pc = IF Writable THEN "read" ELSE "failed"]
    /\ UNCHANGED <<kind, stdout, read, machine, faults>>

\* The loop takes the permit before it spawns the task: it reads nothing while
\* all permits are in use.
SpawnTask ==
    /\ reader.pc = "permit" /\ Cardinality(InFlight) < Permits
    /\ call' = [call EXCEPT ![reader.line].pc = "begin"]
    /\ reader' = [reader EXCEPT !.pc = "read"]
    /\ UNCHANGED <<kind, channel, stdout, read, machine, faults>>

EndOfInput ==
    /\ reader.pc = "read"
    /\ reader' = [reader EXCEPT !.pc = "drain"]
    /\ UNCHANGED <<kind, call, channel, stdout, read, machine, faults>>

\* Variant of JoinTasks: the tasks are not waited for.
JoinNothing ==
    /\ reader.pc = "drain"
    /\ reader' = [reader EXCEPT !.pc = "close"]
    /\ UNCHANGED <<kind, call, channel, stdout, read, machine, faults>>

JoinTasks ==
    /\ reader.pc = "drain" /\ InFlight = {}
    /\ reader' = [reader EXCEPT !.pc = "close"]
    /\ UNCHANGED <<kind, call, channel, stdout, read, machine, faults>>

\* The last sender is gone: the writer ends when the channel is empty.
JoinWriter ==
    /\ reader.pc = "close" /\ (channel = <<>> \/ ~Writable)
    /\ reader' = [reader EXCEPT !.pc = IF Writable THEN "exit" ELSE "failed"]
    /\ stdout' = IF Writable THEN "closed" ELSE stdout
    /\ UNCHANGED <<kind, call, channel, read, machine, faults>>

WriteAnswer ==
    /\ Writable /\ channel # <<>>
    /\ read' = [read EXCEPT ![Head(channel)] = @ + 1] /\ channel' = Tail(channel)
    /\ UNCHANGED <<kind, reader, call, stdout, machine, faults>>

\* The host closes the pipe: the writer's next write fails and it ends.
HostCloses ==
    /\ Writable /\ Fault
    /\ stdout' = "broken" /\ channel' = <<>>
    /\ UNCHANGED <<kind, reader, call, read, machine>>

-----------------------------------------------------------------------------
(* A task: Server::handle, ControlClient::call.                            *)

Goto(r, pc) == call' = [call EXCEPT ![r].pc = pc]
Result(r, result) == call' = [call EXCEPT ![r].pc = "send", ![r].result = result]
Task(r, pc) == call[r].pc = pc /\ reader.pc \notin {"exit", "failed"}
    /\ UNCHANGED <<kind, reader, channel, stdout, read, faults>>

Begin(r) ==
    /\ Task(r, "begin")
    /\ \/ kind[r] = "note" /\ Goto(r, "done")
       \/ kind[r] = "local" /\ Result(r, "ok")
       \/ kind[r] \in {"daemon", "fallback"} /\ Goto(r, "token")
       \/ kind[r] \in {"cli", "create"} /\ Goto(r, "cli")
    /\ UNCHANGED machine

\* Variant of Recovers: a connection that ends without an answer is taken for a
\* daemon that is not there.
RecoversClosed(result) == result \in {"unavailable", "unauthorized", "protocol"}

\* should_recover_runner_service
Recovers(result) == result \in {"unavailable", "unauthorized"}

\* What follows a failed call of the daemon: once, the service is started and the
\* call repeated; status, doctor and logs.tail go to the CLI.
Failed(r, result) ==
    IF kind[r] = "daemon" /\ call[r].tries = 0 /\ Recovers(result) THEN Goto(r, "start")
    ELSE IF kind[r] = "fallback" /\ result = "unavailable" THEN Goto(r, "cli")
    ELSE Result(r, result)

\* read_token, validate_secret_file and validate_unix_socket: without the file there
\* is no runner, and a file or socket that is not its user's alone is not trusted.
ReadToken(r) ==
    /\ Task(r, "token")
    /\ \/ token = 0 /\ Failed(r, "unavailable")
       \/ token # 0 /\ Failed(r, "unauthorized")
       \/ token # 0 /\ call' = [call EXCEPT ![r].pc = "connect", ![r].token = token]
    /\ UNCHANGED machine

Connect(r) ==
    /\ Task(r, "connect")
    /\ \/ /\ daemon.up
          /\ conn' = [conn EXCEPT ![r] = IF call[r].token = daemon.token THEN "open" ELSE "stale"]
          /\ call' = [call EXCEPT ![r].pc = "await", ![r].token = 0]
       \/ ~daemon.up /\ Failed(r, "unavailable") /\ UNCHANGED conn
    /\ UNCHANGED <<daemon, token, effects>>

Answers == {"ok", "error", "denied", "busy", "reset", "closed"}

\* An answer without the id of the request does not belong to it: those of an
\* exhausted budget have none.
Meaning(c) == CASE c = "ok" -> "ok" [] c = "reset" -> "unavailable"
                [] c \in {"closed", "busy"} -> "protocol" [] c \in {"error", "denied"} -> "remote"

Receive(r) ==
    /\ Task(r, "await") /\ conn[r] \in Answers
    /\ conn' = [conn EXCEPT ![r] = "none"]
    /\ IF conn[r] = "ok" THEN Result(r, "ok") ELSE Failed(r, Meaning(conn[r]))
    /\ UNCHANGED <<daemon, token, effects>>

\* Variant of Timeout: the deadline ends when the daemon has read the request.
TimeoutOfRequest(r) ==
    /\ Task(r, "await") /\ conn[r] \in {"open", "stale"} /\ Result(r, "timeout")
    /\ UNCHANGED machine

\* The deadline of the call: its connection is dropped, the daemon's thread is not.
Timeout(r) ==
    /\ Task(r, "await") /\ Result(r, "timeout")
    /\ conn' = [conn EXCEPT ![r] = IF @ \in Answers THEN "none" ELSE @]
    /\ UNCHANGED <<daemon, token, effects>>

\* How a command of the CLI fails: it says so, it is killed at the deadline, its output
\* is not an answer, or its executable is missing or cannot be started.
CliFailures == {"remote", "timeout", "protocol", "unavailable"}

\* runner.control start: the service comes up, with a token file, or the CLI fails.
StartService(r) ==
    /\ Task(r, "start")
    /\ \/ /\ token' = IF token = 0 THEN faults + 1 ELSE token
          /\ daemon' = IF daemon.up THEN daemon ELSE [up |-> TRUE, token |-> token']
          /\ call' = [call EXCEPT ![r].pc = "token", ![r].tries = 1]
       \/ \E result \in CliFailures : Result(r, result) /\ UNCHANGED <<daemon, token>>
    /\ UNCHANGED <<conn, effects>>

Execute(r) == effects' = [effects EXCEPT ![r] = @ + 1]

\* After a failed creation whose command was killed, a second command looks for the
\* organization.
CliFails(r, result) ==
    IF kind[r] = "create" /\ result = "timeout"
    THEN call' = [call EXCEPT ![r].pc = "recover", ![r].tries = 1]
    ELSE Result(r, result)

\* The bundled CLI does what it is asked or fails, before or after it has done it; one
\* that was not started has done nothing.
RunCli(r) ==
    /\ Task(r, "cli")
    /\ \/ Execute(r) /\ Result(r, "ok")
       \/ /\ Execute(r) \/ UNCHANGED effects
          /\ \E result \in CliFailures \ {"unavailable"} : CliFails(r, result)
       \/ UNCHANGED effects /\ CliFails(r, "unavailable")
    /\ UNCHANGED <<daemon, token, conn>>

\* Variant of RecoverCreate: what it finds is not looked at.
RecoverCreateBlindly(r) ==
    /\ Task(r, "recover")
    /\ \E result \in CliFailures \cup {"ok", "pending"} : Result(r, result)
    /\ UNCHANGED machine

\* org.create.recover looks for the organization, it creates none.
RecoverCreate(r) ==
    /\ Task(r, "recover")
    /\ \/ effects[r] > 0 /\ Result(r, "ok")
       \/ \E result \in CliFailures \cup {"pending"} : Result(r, result)
    /\ UNCHANGED machine

SendAnswer(r) ==
    /\ call[r].pc = "send" /\ reader.pc \notin {"exit", "failed"}
    /\ Send(r) /\ Goto(r, "done")
    /\ UNCHANGED <<kind, reader, stdout, read, machine, faults>>

-----------------------------------------------------------------------------
(* The daemon: serve_unix_client, handle_local_control_request.            *)

Threads == {r \in Requests : conn[r] \in {"running", "executed"}}
Respond(r, answer) ==   \* a client that gave up reads nothing
    conn' = [conn EXCEPT ![r] = IF call[r].pc = "await" THEN answer ELSE "none"]
Proceed(r, state) == conn' = [conn EXCEPT ![r] = state]
DaemonStep == daemon.up /\ UNCHANGED <<kind, server, read, daemon, token, faults>>

ReadRequest(r) ==
    /\ DaemonStep /\ conn[r] \in {"open", "stale"}
    /\ \/ Cardinality(Threads) >= Budget /\ Respond(r, "busy")
       \/ Cardinality(Threads) < Budget /\ conn[r] = "stale" /\ Respond(r, "denied")
       \/ Cardinality(Threads) < Budget /\ conn[r] = "open" /\ Proceed(r, "running")
    /\ UNCHANGED effects

\* dispatch: the Backend takes the request, or refuses it; and its answer may be lost.
Dispatch(r) ==
    /\ DaemonStep /\ conn[r] = "running"
    /\ \/ Execute(r) /\ Proceed(r, "executed")
       \/ UNCHANGED effects /\ Respond(r, "error")

Reply(r) ==
    /\ DaemonStep /\ conn[r] = "executed"
    /\ Respond(r, "ok") \/ Respond(r, "error")
    /\ UNCHANGED effects

Dead(r) == CASE call[r].pc # "await" -> "none"
             [] call[r].pc = "await" /\ conn[r] \in {"open", "stale"} -> "reset"
             [] call[r].pc = "await" /\ conn[r] \in {"running", "executed"} -> "closed"
             [] OTHER -> conn[r]

DaemonDies ==
    /\ daemon.up /\ Fault
    /\ daemon' = [daemon EXCEPT !.up = FALSE]
    /\ conn' = [r \in Requests |-> Dead(r)]
    /\ UNCHANGED <<kind, server, read, token, effects>>

\* prepare_local_control_paths: the service keeps the token of the file, or makes one.
DaemonReturns ==
    /\ ~daemon.up
    /\ token' = IF token = 0 THEN faults + 1 ELSE token
    /\ daemon' = [up |-> TRUE, token |-> token']
    /\ UNCHANGED <<kind, server, read, conn, effects, faults>>

\* A sign-out stops the service and removes the token file.
SignOut ==
    /\ Fault
    /\ token' = 0
    /\ daemon' = [daemon EXCEPT !.up = FALSE]
    /\ conn' = [r \in Requests |-> Dead(r)]
    /\ UNCHANGED <<kind, server, read, effects>>

TaskStep(r) == \/ Begin(r) \/ ReadToken(r) \/ Connect(r) \/ Receive(r) \/ Timeout(r)
               \/ StartService(r) \/ RunCli(r) \/ RecoverCreate(r) \/ SendAnswer(r)
ThreadStep(r) == ReadRequest(r) \/ Dispatch(r) \/ Reply(r)
Loop == ReadLine \/ RefuseLine \/ SpawnTask \/ JoinTasks \/ JoinWriter

Init ==
    /\ kind \in [Requests -> Kinds]
    /\ reader = [pc |-> "read", line |-> 0]
    /\ call = [r \in Requests |-> [pc |-> "unread", tries |-> 0, token |-> 0, result |-> "none"]]
    /\ channel = <<>> /\ stdout = "open" /\ read = [r \in Requests |-> 0]
    /\ \/ daemon = [up |-> TRUE, token |-> 1] /\ token = 1
       \/ daemon = [up |-> FALSE, token |-> 0] /\ token \in {0, 1}
    /\ conn = [r \in Requests |-> "none"] /\ effects = [r \in Requests |-> 0]
    /\ faults = 0

Next == \/ Loop \/ EndOfInput \/ WriteAnswer \/ HostCloses
        \/ \E r \in Requests : TaskStep(r) \/ ThreadStep(r)
        \/ DaemonDies \/ DaemonReturns \/ SignOut

Spec == Init /\ [][Next]_vars

\* The runtime schedules the tasks and fires their deadlines, and the host reads
\* what it is written.  Nothing is assumed of the daemon.
Fairness ==
    /\ WF_vars(Loop) /\ WF_vars(WriteAnswer)
    /\ \A r \in Requests : WF_vars(TaskStep(r))

FairSpec == Spec /\ Fairness

-----------------------------------------------------------------------------
(* Properties.                                                             *)

\* One tool call is executed at most once, although the client starts the
\* service and sends the call again, the daemon dies at any point, and
\* org.create is followed by a second command.
ExecutedAtMostOnce == \A r \in Requests : effects[r] <= 1

\* An org.create whose first command was killed: its answer is that of the second.
Reconciled(r) == kind[r] = "create" /\ call[r].tries = 1

\* What the host is told is true: a success was executed, and a runner that is
\* said to be unavailable has not executed the call and is not going to.  The code
\* gives the second only for calls it does not reconcile: a killed org.create may
\* have created, and is called unavailable when its second command cannot be started.
AnswersAreTrue ==
    \A r \in Requests :
        /\ call[r].result = "ok" /\ kind[r] # "local" => effects[r] = 1
        /\ call[r].result = "unavailable" /\ ~Reconciled(r) =>
              effects[r] = 0 /\ conn[r] \notin {"open", "stale", "running", "executed"}

\* No request is answered twice and no notification at all; and when the server
\* ends by itself, everything it read has been answered.
AnsweredOnce ==
    LET sent(r) == read[r] + Cardinality({i \in 1..Len(channel) : channel[i] = r}) IN
    /\ \A r \in Requests : sent(r) <= IF Answered(r) THEN 1 ELSE 0
    /\ reader.pc = "exit" => \A r \in 1..reader.line : Answered(r) => sent(r) = 1

\* Every line that was read is answered in the end, whatever the daemon does,
\* unless the host closes the output; a slow call does not stop the others for good.
EveryLineIsAnswered ==
    \A r \in Requests : reader.line = r /\ Answered(r) ~>
        stdout = "broken" \/ read[r] > 0

\* The end of the input ends the server.
InputEndsServer == reader.pc = "drain" ~> reader.pc \in {"exit", "failed"}
=============================================================================
