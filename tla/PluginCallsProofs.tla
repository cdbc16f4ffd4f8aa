--------------------------- MODULE PluginCallsProofs ---------------------------
(***************************************************************************)
(* The safety properties of PluginCalls, for any number of lines, permits  *)
(* and faults, any length of the channel and any budget of the daemon.     *)
(*                                                                         *)
(* IInv joins three views of a call: where the reader is (Lines), what the *)
(* task, the connection and the execution of one call may be together      *)
(* (Lifecycle), and where its answer is (Queue).  Most steps touch one     *)
(* call, so the proofs show of a step whose call it moves and how.         *)
(***************************************************************************)
EXTENDS PluginCalls, FiniteSetTheorems, TLAPS

-----------------------------------------------------------------------------
(* The inductive invariant *)

\* Per line: where the reader is decides which lines have a task.
Lines ==
    /\ reader.pc \in {"permit", "refuse"} => reader.line > 0
    /\ reader.pc = "refuse" => kind[reader.line] = "bad"
    /\ reader.pc = "permit" => kind[reader.line] # "bad"
    /\ \A r \in Requests :
          call[r].pc = "unread" <=>
              r > reader.line \/ (r = reader.line /\ reader.pc \in {"permit", "refuse"})
    /\ \A r \in Requests :
          /\ kind[r] = "bad" => call[r].pc \in {"unread", "done"}
          /\ kind[r] = "note" => call[r].pc \in {"unread", "begin", "done"}
    /\ reader.pc \in {"close", "exit"} => \A r \in 1..reader.line : call[r].pc = "done"
    /\ reader.pc = "exit" <=> stdout = "closed"

\* A call of kind k whose task is c, whose connection is x and which was executed n
\* times.  Before the client has handed it over nothing happened; while the daemon has
\* yet to look at it nothing happened; and what the client makes of it agrees.
CallOK(k, c, x, n) ==
    /\ n <= 1
    /\ c.pc \in {"unread", "begin", "token", "connect", "start", "cli"} => x = "none" /\ n = 0
    /\ c.pc = "recover" => x = "none" /\ k = "create" /\ c.tries = 1
    /\ c.pc = "await" => x # "none"
    /\ c.pc # "await" => x \notin Answers
    /\ x \in {"open", "stale", "running", "denied", "busy", "reset"} => n = 0
    /\ x \in {"executed", "ok"} => n = 1
    /\ c.pc \notin {"send", "done"} => c.result = "none"
    /\ c.result = "ok" /\ k # "local" => n = 1
    /\ c.result = "unavailable" /\ ~(k = "create" /\ c.tries = 1) => x = "none" /\ n = 0

Lifecycle == \A r \in Requests : CallOK(kind[r], call[r], conn[r], effects[r])

Queued(r) == \E i \in 1..Len(channel) : channel[i] = r

\* An answer is queued once, by the task that ends with it, and read once.
Queue ==
    /\ \A i, k \in 1..Len(channel) : channel[i] = channel[k] => i = k
    /\ \A r \in Requests :
          /\ read[r] <= 1
          /\ read[r] = 1 => ~Queued(r)
          /\ Queued(r) \/ read[r] = 1 => call[r].pc = "done" /\ Answered(r)
          /\ call[r].pc = "done" /\ Answered(r) /\ stdout # "broken" => Queued(r) \/ read[r] = 1

IInv == TypeOK /\ Lines /\ Lifecycle /\ Queue

-----------------------------------------------------------------------------
(* Types *)

CallRecords ==
    [pc : CallSteps, tries : 0..2, token : 0..MaxFaults + 1, result : Results]

\* A task goes to another step.
LEMMA GotoFacts ==
    ASSUME TypeOK, NEW r \in Requests, NEW pc \in CallSteps, Goto(r, pc)
    PROVE  /\ call' \in [Requests -> CallRecords]
           /\ call'[r].pc = pc /\ call'[r].result = call[r].result
           /\ call'[r].tries = call[r].tries
           /\ \A q \in Requests \ {r} : call'[q] = call[q]
  <1>1. call \in [Requests -> CallRecords] /\ call' = [call EXCEPT ![r].pc = pc]
    BY DEF TypeOK, CallRecords, Goto
  <1>2. call[r] \in CallRecords /\ call'[r] = [call[r] EXCEPT !.pc = pc]
    BY <1>1
  <1>3. call'[r] \in CallRecords
    BY <1>2 DEF CallRecords
  <1> QED BY <1>1, <1>2, <1>3 DEF CallRecords

\* A task has its result.
LEMMA ResultFacts ==
    ASSUME TypeOK, NEW r \in Requests, NEW result \in Results, Result(r, result)
    PROVE  /\ call' \in [Requests -> CallRecords]
           /\ call'[r].pc = "send" /\ call'[r].result = result
           /\ call'[r].tries = call[r].tries
           /\ \A q \in Requests \ {r} : call'[q] = call[q]
  <1>1. call \in [Requests -> CallRecords]
        /\ call' = [call EXCEPT ![r].pc = "send", ![r].result = result]
    BY DEF TypeOK, CallRecords, Result
  <1>2. call[r] \in CallRecords
        /\ call'[r] = [call[r] EXCEPT !.pc = "send", !.result = result]
    BY <1>1
  <1>3. call'[r] \in CallRecords
    BY <1>2 DEF CallRecords, CallSteps
  <1> QED BY <1>1, <1>2, <1>3 DEF CallRecords

\* A failed call of the daemon is repeated, handed to the CLI, or answered.
LEMMA FailedFacts ==
    ASSUME TypeOK, NEW r \in Requests, NEW result \in Results, Failed(r, result)
    PROVE  /\ call' \in [Requests -> CallRecords]
           /\ \A q \in Requests \ {r} : call'[q] = call[q]
           /\ \/ /\ call'[r].pc \in {"start", "cli"} /\ call'[r].result = call[r].result
                 /\ result \in {"unavailable", "unauthorized"}
              \/ call'[r].pc = "send" /\ call'[r].result = result
  <1>1. CASE Goto(r, "start") /\ Recovers(result)
    BY <1>1, GotoFacts DEF CallSteps, Recovers
  <1>2. CASE Goto(r, "cli") /\ result = "unavailable"
    BY <1>2, GotoFacts DEF CallSteps
  <1>3. CASE Result(r, result)
    BY <1>3, ResultFacts
  <1> QED BY <1>1, <1>2, <1>3 DEF Failed

-----------------------------------------------------------------------------
(* Steps of one call *)

\* The daemon and its token stay what they may be.
MachineOK ==
    /\ daemon \in [up : BOOLEAN, token : 0..MaxFaults + 1]
    /\ token \in 0..MaxFaults + 1

\* A step that moves call r, its connection and the count of its executions, and
\* leaves everything of the server alone but the task.
CallMove(r) ==
    /\ UNCHANGED <<kind, reader, channel, stdout, read, faults>>
    /\ MachineOK'
    /\ call' \in [Requests -> CallRecords]
    /\ conn' \in [Requests -> Connections] /\ effects' \in [Requests -> Nat]
    /\ \A q \in Requests \ {r} :
          call'[q] = call[q] /\ conn'[q] = conn[q] /\ effects'[q] = effects[q]
    /\ CallOK(kind[r], call'[r], conn'[r], effects'[r])

\* The task goes on, and only a notification is done without an answer.
Goes(r) ==
    /\ call[r].pc \notin {"unread", "send", "done"} /\ call'[r].pc # "unread"
    /\ kind[r] = "note" <=> call'[r].pc = "done"
    /\ reader.pc \notin {"exit", "failed"}

Stays(r) == call'[r].pc = call[r].pc

\* Such a step keeps the invariant.
LEMMA CallMoveKeeps ==
    ASSUME IInv, NEW r \in Requests, CallMove(r), Goes(r) \/ Stays(r)
    PROVE  IInv'
  <1>1. TypeOK'
    BY DEF IInv, TypeOK, CallMove, MachineOK, CallRecords
  <1>2. Lifecycle'
    BY DEF IInv, Lifecycle, CallMove
  <1>3. \A q \in Requests : \/ call'[q].pc = call[q].pc
                            \/ /\ call[q].pc \notin {"unread", "send", "done"}
                               /\ call'[q].pc # "unread" /\ kind[q] # "bad"
                               /\ kind[q] = "note" <=> call'[q].pc = "done"
                               /\ reader.pc \notin {"exit", "failed"}
    BY DEF IInv, Lines, CallMove, Goes, Stays
  <1>4. Lines'
    <2>1. reader.line \in 0..N
      BY DEF IInv, TypeOK
    <2>2. reader.pc \in {"close", "exit"} => \A q \in 1..reader.line : call'[q].pc = "done"
      <3>1. 1..reader.line \subseteq Requests
        BY <2>1, CallsAssumption DEF Requests
      <3> QED BY <1>3, <3>1 DEF IInv, Lines
    <2> QED BY <1>3, <2>2 DEF IInv, Lines, CallMove
  <1>5. Queue'
    BY <1>3 DEF IInv, Queue, Queued, Answered, CallMove
  <1> QED BY <1>1, <1>2, <1>4, <1>5 DEF IInv


-----------------------------------------------------------------------------
(* The task of a call *)

\* Where a task is before its answer, it is no note's but at the start, and the call
\* is what Lifecycle says.
LEMMA TaskFacts ==
    ASSUME IInv, NEW r \in Requests, NEW pc \in CallSteps, Task(r, pc),
           pc \notin {"unread", "send", "done"}
    PROVE  /\ call \in [Requests -> CallRecords] /\ conn \in [Requests -> Connections]
           /\ effects \in [Requests -> Nat] /\ MachineOK /\ faults \in 0..MaxFaults
           /\ CallOK(kind[r], call[r], conn[r], effects[r])
           /\ call[r].pc = pc /\ call[r].result = "none" /\ kind[r] # "bad"
           /\ pc # "begin" => kind[r] # "note"
           /\ reader.pc \notin {"exit", "failed"}
           /\ UNCHANGED <<kind, reader, channel, stdout, read, faults>>
  BY DEF IInv, TypeOK, CallRecords, Lifecycle, CallOK, Lines, MachineOK, Task

\* A notification is done, a local request is answered, and other calls go on.
LEMMA BeginStep == ASSUME IInv, NEW r \in Requests, Begin(r) PROVE IInv'
  <1>1. Task(r, "begin") /\ UNCHANGED machine
    BY DEF Begin
  <1>2. CallMove(r) /\ Goes(r)
    <2>0. TypeOK /\ UNCHANGED <<daemon, token, conn, effects>> /\ "begin" \in CallSteps
      BY <1>1 DEF IInv, machine, CallSteps
    <2>1. CASE kind[r] = "note" /\ Goto(r, "done")
      <3>1. call' \in [Requests -> CallRecords] /\ call'[r].pc = "done"
            /\ call'[r].result = call[r].result
            /\ \A q \in Requests \ {r} : call'[q] = call[q]
        BY <2>0, <2>1, GotoFacts DEF CallSteps
      <3> QED BY <1>1, <2>0, <2>1, <3>1, TaskFacts DEF CallMove, Goes, CallOK, MachineOK, Answers
    <2>2. CASE kind[r] = "local" /\ Result(r, "ok")
      <3>1. call' \in [Requests -> CallRecords] /\ call'[r].pc = "send"
            /\ call'[r].result = "ok"
            /\ \A q \in Requests \ {r} : call'[q] = call[q]
        BY <2>0, <2>2, ResultFacts DEF Results
      <3> QED BY <1>1, <2>0, <2>2, <3>1, TaskFacts DEF CallMove, Goes, CallOK, MachineOK, Answers
    <2>3. CASE kind[r] \notin {"note", "local"} /\ \E pc \in {"token", "cli"} : Goto(r, pc)
      <3>1. call' \in [Requests -> CallRecords] /\ call'[r].pc \in {"token", "cli"}
            /\ call'[r].result = call[r].result
            /\ \A q \in Requests \ {r} : call'[q] = call[q]
        BY <2>0, <2>3, GotoFacts DEF CallSteps
      <3> QED BY <1>1, <2>0, <2>3, <3>1, TaskFacts DEF CallMove, Goes, CallOK, MachineOK, Answers
    <2> QED BY <2>1, <2>2, <2>3 DEF Begin
  <1> QED BY <1>2, CallMoveKeeps

\* The token is read, or there is none.
LEMMA ReadTokenStep == ASSUME IInv, NEW r \in Requests, ReadToken(r) PROVE IInv'
  <1>1. Task(r, "token") /\ UNCHANGED <<daemon, token, conn, effects>> /\ "token" \in CallSteps
        /\ TypeOK
    BY DEF ReadToken, machine, CallSteps, IInv
  <1>2. CallMove(r) /\ Goes(r)
    <2>1. CASE Failed(r, "unauthorized") \/ Failed(r, "unavailable")
      <3>1. /\ call' \in [Requests -> CallRecords]
            /\ \A q \in Requests \ {r} : call'[q] = call[q]
            /\ \/ call'[r].pc \in {"start", "cli"} /\ call'[r].result = call[r].result
               \/ call'[r].pc = "send" /\ call'[r].result \in {"unauthorized", "unavailable"}
        BY <1>1, <2>1, FailedFacts DEF Results
      <3> QED BY <1>1, <3>1, TaskFacts DEF CallMove, Goes, CallOK, MachineOK, Answers
    <2>2. CASE call' = [call EXCEPT ![r].pc = "connect", ![r].token = token]
      <3>1. call' \in [Requests -> CallRecords] /\ call'[r].pc = "connect"
            /\ call'[r].result = call[r].result
            /\ \A q \in Requests \ {r} : call'[q] = call[q]
        BY <1>1, <2>2, ZenonT(40) DEF TypeOK, CallRecords, CallSteps
      <3> QED BY <1>1, <3>1, TaskFacts DEF CallMove, Goes, CallOK, MachineOK, Answers
    <2> QED BY <2>1, <2>2 DEF ReadToken
  <1> QED BY <1>2, CallMoveKeeps

\* The connection is opened, or there is no daemon.
LEMMA ConnectStep == ASSUME IInv, NEW r \in Requests, Connect(r) PROVE IInv'
  <1>1. Task(r, "connect") /\ UNCHANGED <<daemon, token, effects>> /\ "connect" \in CallSteps
        /\ TypeOK
    BY DEF Connect, CallSteps, IInv
  <1>2. CallMove(r) /\ Goes(r)
    <2>1. CASE Failed(r, "unavailable") /\ UNCHANGED conn
      <3>1. /\ call' \in [Requests -> CallRecords]
            /\ \A q \in Requests \ {r} : call'[q] = call[q]
            /\ \/ call'[r].pc \in {"start", "cli"} /\ call'[r].result = call[r].result
               \/ call'[r].pc = "send" /\ call'[r].result = "unavailable"
        BY <1>1, <2>1, FailedFacts DEF Results
      <3>2. conn' \in [Requests -> Connections] /\ conn'[r] = "none" /\ effects'[r] = 0
            /\ call'[r].result \in {"none", "unavailable"}
        BY <1>1, <2>1, <3>1, TaskFacts DEF CallOK
      <3> QED BY <1>1, <2>1, <3>1, <3>2, TaskFacts DEF CallMove, Goes, CallOK, MachineOK, Answers
    <2>2. CASE /\ conn' = [conn EXCEPT ![r] =
                              IF call[r].token = daemon.token THEN "open" ELSE "stale"]
               /\ call' = [call EXCEPT ![r].pc = "await", ![r].token = 0]
      <3>0. 0 \in 0..MaxFaults + 1
        BY CallsAssumption
      <3>1. call' \in [Requests -> CallRecords] /\ call'[r].pc = "await"
            /\ call'[r].result = call[r].result
            /\ \A q \in Requests \ {r} : call'[q] = call[q]
        BY <1>1, <2>2, <3>0, ZenonT(40) DEF TypeOK, CallRecords, CallSteps
      <3>2. conn' \in [Requests -> Connections] /\ conn'[r] \in {"open", "stale"}
            /\ \A q \in Requests \ {r} : conn'[q] = conn[q]
        BY <1>1, <2>2 DEF TypeOK, Connections
      <3> QED BY <1>1, <3>1, <3>2, TaskFacts DEF CallMove, Goes, CallOK, MachineOK, Answers
    <2> QED BY <2>1, <2>2 DEF Connect
  <1> QED BY <1>2, CallMoveKeeps

\* An answer of the daemon, or the end of its connection, is read.
LEMMA ReceiveStep == ASSUME IInv, NEW r \in Requests, Receive(r) PROVE IInv'
  <1>1. Task(r, "await") /\ UNCHANGED <<daemon, token, effects>> /\ "await" \in CallSteps
        /\ TypeOK /\ conn[r] \in Answers
    BY DEF Receive, CallSteps, IInv
  <1>2. conn' \in [Requests -> Connections] /\ conn'[r] = "none"
        /\ \A q \in Requests \ {r} : conn'[q] = conn[q]
    BY DEF Receive, IInv, TypeOK, Connections
  <1>3. CallMove(r) /\ Goes(r)
    <2>1. CASE conn[r] = "ok" /\ Result(r, "ok")
      <3>1. call' \in [Requests -> CallRecords] /\ call'[r].pc = "send"
            /\ call'[r].result = "ok"
            /\ \A q \in Requests \ {r} : call'[q] = call[q]
        BY <1>1, <2>1, ResultFacts DEF Results
      <3> QED BY <1>1, <1>2, <2>1, <3>1, TaskFacts DEF CallMove, Goes, CallOK, MachineOK, Answers
    <2>2. CASE conn[r] # "ok" /\ Failed(r, Meaning(conn[r]))
      <3>1. /\ Meaning(conn[r]) \in {"unavailable", "protocol", "remote"}
            /\ Meaning(conn[r]) = "unavailable" => conn[r] = "reset"
        BY <1>1, <2>2 DEF Meaning, Answers
      <3>2. /\ call' \in [Requests -> CallRecords]
            /\ \A q \in Requests \ {r} : call'[q] = call[q]
            /\ \/ /\ call'[r].pc \in {"start", "cli"} /\ call'[r].result = call[r].result
                  /\ conn[r] = "reset"
               \/ call'[r].pc = "send" /\ call'[r].result = Meaning(conn[r])
        BY <1>1, <2>2, <3>1, FailedFacts DEF Results
      <3> QED BY <1>1, <1>2, <3>1, <3>2, TaskFacts DEF CallMove, Goes, CallOK, MachineOK, Answers
    <2> QED BY <2>1, <2>2 DEF Receive
  <1> QED BY <1>3, CallMoveKeeps

\* The deadline of the call passes; a request the daemon has read goes on.
LEMMA TimeoutStep == ASSUME IInv, NEW r \in Requests, Timeout(r) PROVE IInv'
  <1>1. Task(r, "await") /\ UNCHANGED <<daemon, token, effects>> /\ "await" \in CallSteps
        /\ TypeOK
    BY DEF Timeout, CallSteps, IInv
  <1>2. conn' \in [Requests -> Connections]
        /\ conn'[r] = (IF conn[r] \in Answers THEN "none" ELSE conn[r])
        /\ \A q \in Requests \ {r} : conn'[q] = conn[q]
    BY DEF Timeout, IInv, TypeOK, Connections
  <1>3. call' \in [Requests -> CallRecords] /\ call'[r].pc = "send"
        /\ call'[r].result = "timeout"
        /\ \A q \in Requests \ {r} : call'[q] = call[q]
    BY <1>1, ResultFacts DEF Timeout, Results
  <1>4. CallMove(r) /\ Goes(r)
    BY <1>1, <1>2, <1>3, TaskFacts DEF CallMove, Goes, CallOK, MachineOK, Answers
  <1> QED BY <1>4, CallMoveKeeps


\* The service is started and the call is made again, or the start fails.
LEMMA StartServiceStep == ASSUME IInv, NEW r \in Requests, StartService(r) PROVE IInv'
  <1>1. Task(r, "start") /\ UNCHANGED <<conn, effects>> /\ "start" \in CallSteps /\ TypeOK
    BY DEF StartService, CallSteps, IInv
  <1>2. /\ MachineOK'
        /\ call' \in [Requests -> CallRecords]
        /\ \A q \in Requests \ {r} : call'[q] = call[q]
        /\ \/ call'[r].pc = "token" /\ call'[r].result = call[r].result
           \/ call'[r].pc = "send" /\ call'[r].result \in CliFailures
    <2>1. CASE /\ token' = IF token = 0 THEN faults + 1 ELSE token
               /\ daemon' = IF daemon.up THEN daemon ELSE [up |-> TRUE, token |-> token']
               /\ call' = [call EXCEPT ![r].pc = "token", ![r].tries = 1]
      <3>1. token' \in 0..MaxFaults + 1
        BY <1>1, <2>1, CallsAssumption DEF TypeOK
      <3>2. MachineOK'
        BY <1>1, <2>1, <3>1 DEF TypeOK, MachineOK
      <3>3. 1 \in 0..2
        OBVIOUS
      <3> QED BY <1>1, <2>1, <3>2, <3>3, ZenonT(40) DEF TypeOK, CallRecords, CallSteps
    <2>2. CASE \E result \in CliFailures : Result(r, result) /\ UNCHANGED <<daemon, token>>
      BY <1>1, <2>2, ResultFacts, TaskFacts DEF Results, MachineOK, CliFailures
    <2> QED BY <2>1, <2>2 DEF StartService
  <1>3. CallMove(r) /\ Goes(r)
    BY <1>1, <1>2, TaskFacts DEF CallMove, Goes, CallOK, Answers, CliFailures
  <1> QED BY <1>3, CallMoveKeeps

\* An execution is counted.
LEMMA ExecuteFacts ==
    ASSUME TypeOK, NEW r \in Requests, Execute(r) \/ UNCHANGED effects
    PROVE  /\ effects' \in [Requests -> Nat]
           /\ Execute(r) => effects'[r] = effects[r] + 1
           /\ \A q \in Requests \ {r} : effects'[q] = effects[q]
  BY DEF TypeOK, Execute

\* The bundled CLI runs once, whatever comes of it.
LEMMA RunCliStep == ASSUME IInv, NEW r \in Requests, RunCli(r) PROVE IInv'
  <1>1. /\ Task(r, "cli") /\ UNCHANGED <<daemon, token, conn>> /\ "cli" \in CallSteps /\ TypeOK
        /\ Execute(r) \/ UNCHANGED effects
    BY DEF RunCli, CallSteps, IInv
  <1>2. /\ conn[r] = "none" /\ effects[r] = 0
        /\ effects' \in [Requests -> Nat] /\ effects'[r] \in {0, 1}
        /\ Execute(r) => effects'[r] = 1
        /\ \A q \in Requests \ {r} : effects'[q] = effects[q]
    BY <1>1, TaskFacts, ExecuteFacts DEF CallOK
  <1>3. /\ call' \in [Requests -> CallRecords]
        /\ \A q \in Requests \ {r} : call'[q] = call[q]
        /\ \/ call'[r].pc = "send" /\ call'[r].result = "ok" /\ effects'[r] = 1
           \/ /\ call'[r].pc = "send" /\ call'[r].result \in CliFailures
              /\ call'[r].result = "unavailable" => UNCHANGED effects
           \/ /\ call'[r].pc = "recover" /\ call'[r].result = call[r].result
              /\ kind[r] = "create" /\ call'[r].tries = 1
    <2>1. CASE Execute(r) /\ Result(r, "ok")
      BY <1>1, <1>2, <2>1, ResultFacts DEF Results
    <2>2. ASSUME NEW result \in CliFailures, Result(r, result),
                 result = "unavailable" => UNCHANGED effects
          PROVE  /\ call' \in [Requests -> CallRecords]
                 /\ \A q \in Requests \ {r} : call'[q] = call[q]
                 /\ call'[r].pc = "send" /\ call'[r].result = result
      BY <1>1, <2>2, ResultFacts DEF Results, CliFailures
    <2>3. CASE kind[r] = "create" /\ call' = [call EXCEPT ![r].pc = "recover", ![r].tries = 1]
      <3>1. call \in [Requests -> CallRecords] /\ call[r] \in CallRecords
        BY <1>1 DEF TypeOK, CallRecords
      <3>2. call'[r] = [call[r] EXCEPT !.pc = "recover", !.tries = 1]
            /\ \A q \in Requests \ {r} : call'[q] = call[q]
        BY <2>3, <3>1
      <3>3. call'[r] \in CallRecords
        <4>1. "recover" \in CallSteps /\ 1 \in 0..2
          BY DEF CallSteps
        <4> QED BY <3>1, <3>2, <4>1, Zenon DEF CallRecords
      <3>4. call' \in [Requests -> CallRecords]
        BY <2>3, <3>1, <3>3
      <3>5. /\ call'[r].pc = "recover" /\ call'[r].tries = 1
            /\ call'[r].result = call[r].result
        BY <3>1, <3>2 DEF CallRecords
      <3> QED BY <2>3, <3>2, <3>4, <3>5
    <2>4. \/ Execute(r) /\ Result(r, "ok")
          \/ \E result \in CliFailures :
                 Result(r, result) /\ (result = "unavailable" => UNCHANGED effects)
          \/ kind[r] = "create" /\ call' = [call EXCEPT ![r].pc = "recover", ![r].tries = 1]
      BY DEF RunCli, CliFails, CliFailures
    <2> QED BY <2>1, <2>2, <2>3, <2>4
  <1>4. CallMove(r) /\ Goes(r)
    BY <1>1, <1>2, <1>3, TaskFacts DEF CallMove, Goes, CallOK, Answers, MachineOK, CliFailures
  <1> QED BY <1>4, CallMoveKeeps

\* What a killed creation left is found, or not.
LEMMA RecoverCreateStep == ASSUME IInv, NEW r \in Requests, RecoverCreate(r) PROVE IInv'
  <1>1. Task(r, "recover") /\ UNCHANGED <<daemon, token, conn, effects>>
        /\ "recover" \in CallSteps /\ TypeOK
    BY DEF RecoverCreate, machine, CallSteps, IInv
  <1>2. /\ call' \in [Requests -> CallRecords]
        /\ \A q \in Requests \ {r} : call'[q] = call[q]
        /\ call'[r].pc = "send" /\ call'[r].tries = call[r].tries
        /\ \/ call'[r].result = "ok" /\ effects[r] > 0
           \/ call'[r].result \in CliFailures \cup {"pending"}
    BY <1>1, ResultFacts DEF RecoverCreate, Results, CliFailures
  <1>3. /\ effects[r] \in Nat /\ effects[r] <= 1 /\ conn[r] = "none"
        /\ kind[r] = "create" /\ call[r].tries = 1
    BY <1>1, TaskFacts DEF CallOK
  <1>4. CallMove(r) /\ Goes(r)
    BY <1>1, <1>2, <1>3, TaskFacts DEF CallMove, Goes, CallOK, Answers, MachineOK, CliFailures
  <1> QED BY <1>4, CallMoveKeeps

-----------------------------------------------------------------------------
(* The thread of a call in the daemon *)

\* What a step of the daemon leaves alone, and the call it finds.
LEMMA ThreadFacts ==
    ASSUME IInv, NEW r \in Requests, DaemonStep
    PROVE  /\ call \in [Requests -> CallRecords] /\ conn \in [Requests -> Connections]
           /\ effects \in [Requests -> Nat] /\ MachineOK'
           /\ CallOK(kind[r], call[r], conn[r], effects[r])
           /\ UNCHANGED <<kind, reader, call, channel, stdout, read, faults>>
  BY DEF IInv, TypeOK, CallRecords, Lifecycle, MachineOK, DaemonStep, server

\* An answer reaches the client that waits for it, and no other.
LEMMA RespondFacts ==
    ASSUME TypeOK, NEW r \in Requests, NEW answer \in Answers, Respond(r, answer)
    PROVE  /\ conn' \in [Requests -> Connections]
           /\ conn'[r] = (IF call[r].pc = "await" THEN answer ELSE "none")
           /\ \A q \in Requests \ {r} : conn'[q] = conn[q]
  BY DEF TypeOK, Respond, Answers, Connections

\* A step of a request that goes on moves its own connection only.
LEMMA ProceedFacts ==
    ASSUME TypeOK, NEW r \in Requests, NEW state \in Connections, Proceed(r, state)
    PROVE  /\ conn' \in [Requests -> Connections] /\ conn'[r] = state
           /\ \A q \in Requests \ {r} : conn'[q] = conn[q]
  BY DEF TypeOK, Proceed

\* The daemon refuses a request or begins with it.
LEMMA ReadRequestStep == ASSUME IInv, NEW r \in Requests, ReadRequest(r) PROVE IInv'
  <1>1. DaemonStep /\ UNCHANGED effects /\ conn[r] \in {"open", "stale"} /\ TypeOK
    BY DEF ReadRequest, IInv
  <1>2. /\ conn' \in [Requests -> Connections]
        /\ \A q \in Requests \ {r} : conn'[q] = conn[q]
        /\ \/ conn'[r] \in {"busy", "denied"} /\ call[r].pc = "await"
           \/ conn'[r] = "none" /\ call[r].pc # "await"
           \/ conn'[r] = "running"
    <2>1. CASE Respond(r, "busy") \/ Respond(r, "denied")
      BY <1>1, <2>1, RespondFacts DEF Answers
    <2>2. CASE Proceed(r, "running")
      BY <1>1, <2>2, ProceedFacts DEF Connections
    <2> QED BY <2>1, <2>2 DEF ReadRequest
  <1>3. CallMove(r) /\ Stays(r)
    BY <1>1, <1>2, ThreadFacts DEF CallMove, Stays, CallOK, Answers
  <1> QED BY <1>3, CallMoveKeeps

\* The request is executed, or refused.
LEMMA DispatchStep == ASSUME IInv, NEW r \in Requests, Dispatch(r) PROVE IInv'
  <1>1. DaemonStep /\ conn[r] = "running" /\ TypeOK
    BY DEF Dispatch, IInv
  <1>2. effects[r] = 0
    BY <1>1, ThreadFacts DEF CallOK
  <1>3. CallMove(r) /\ Stays(r)
    <2>1. CASE Execute(r) /\ Proceed(r, "executed")
      <3>1. /\ effects' \in [Requests -> Nat] /\ effects'[r] = 1
            /\ \A q \in Requests \ {r} : effects'[q] = effects[q]
        BY <1>1, <1>2, <2>1, ExecuteFacts
      <3>2. /\ conn' \in [Requests -> Connections] /\ conn'[r] = "executed"
            /\ \A q \in Requests \ {r} : conn'[q] = conn[q]
        BY <1>1, <2>1, ProceedFacts DEF Connections
      <3> QED BY <1>1, <3>1, <3>2, ThreadFacts DEF CallMove, Stays, CallOK, Answers
    <2>2. CASE UNCHANGED effects /\ Respond(r, "error")
      <3>1. /\ conn' \in [Requests -> Connections]
            /\ conn'[r] = (IF call[r].pc = "await" THEN "error" ELSE "none")
            /\ \A q \in Requests \ {r} : conn'[q] = conn[q]
        BY <1>1, <2>2, RespondFacts DEF Answers
      <3> QED BY <1>1, <1>2, <2>2, <3>1, ThreadFacts DEF CallMove, Stays, CallOK, Answers
    <2> QED BY <2>1, <2>2 DEF Dispatch
  <1> QED BY <1>3, CallMoveKeeps

\* The daemon answers, with the result or with an error.
LEMMA ReplyStep == ASSUME IInv, NEW r \in Requests, Reply(r) PROVE IInv'
  <1>1. DaemonStep /\ UNCHANGED effects /\ conn[r] = "executed" /\ TypeOK
    BY DEF Reply, IInv
  <1>2. /\ conn' \in [Requests -> Connections]
        /\ \A q \in Requests \ {r} : conn'[q] = conn[q]
        /\ \/ conn'[r] \in {"ok", "error"} /\ call[r].pc = "await"
           \/ conn'[r] = "none" /\ call[r].pc # "await"
    BY <1>1, RespondFacts DEF Reply, Answers
  <1>3. CallMove(r) /\ Stays(r)
    BY <1>1, <1>2, ThreadFacts DEF CallMove, Stays, CallOK, Answers
  <1> QED BY <1>3, CallMoveKeeps


-----------------------------------------------------------------------------
(* Answers on their way *)

\* An answer goes to the end of the channel, or nowhere when the host is gone.
LEMMA SendFacts ==
    ASSUME IInv, NEW r \in Requests, reader.pc # "exit", Send(r)
    PROVE  /\ channel' \in Seq(Requests) /\ Len(channel') <= Channel
           /\ \/ stdout = "broken" /\ channel' = channel
              \/ /\ stdout = "open" /\ Len(channel') = Len(channel) + 1
                 /\ \A i \in 1..Len(channel) : channel'[i] = channel[i]
                 /\ channel'[Len(channel) + 1] = r
  <1>1. channel \in Seq(Requests) /\ Len(channel) <= Channel /\ Len(channel) \in Nat
        /\ stdout \in {"open", "broken"} /\ Channel \in Nat
    BY CallsAssumption DEF IInv, TypeOK, Lines
  <1>2. CASE Writable
    BY <1>1, <1>2 DEF Send, Writable
  <1>3. CASE ~Writable
    BY <1>1, <1>3 DEF Send, Writable
  <1> QED BY <1>2, <1>3

\* The task that ends with its answer queues it, once.
LEMMA SendQueue ==
    ASSUME IInv, NEW r \in Requests, reader.pc # "exit", Send(r), kind[r] # "note",
           call[r].pc # "done", call'[r].pc = "done",
           \A q \in Requests \ {r} : call'[q] = call[q],
           UNCHANGED <<kind, stdout, read>>
    PROVE  Queue'
  <1>1. /\ ~Queued(r) /\ read[r] = 0 /\ Len(channel) \in Nat
        /\ \A q \in Requests : read[q] \in Nat
    BY DEF IInv, TypeOK, Queue
  <1>2. CASE stdout = "broken" /\ channel' = channel
    <2>1. \A q \in Requests : Queued(q)' <=> Queued(q)
      BY <1>2 DEF Queued
    <2> QED BY <1>1, <1>2, <2>1 DEF IInv, Queue, Answered
  <1>3. CASE /\ stdout = "open" /\ Len(channel') = Len(channel) + 1
             /\ \A i \in 1..Len(channel) : channel'[i] = channel[i]
             /\ channel'[Len(channel) + 1] = r
    <2>1. 1..Len(channel') = 1..Len(channel) \cup {Len(channel) + 1}
      BY <1>1, <1>3
    <2>2. \A q \in Requests : Queued(q)' <=> Queued(q) \/ q = r
      BY <1>3, <2>1 DEF Queued
    <2>3. \A i \in 1..Len(channel) : channel[i] # r
      BY <1>1 DEF Queued
    <2>4. \A i, k \in 1..Len(channel') : channel'[i] = channel'[k] => i = k
      BY <1>3, <2>1, <2>3 DEF IInv, Queue
    <2> QED BY <1>1, <2>2, <2>4 DEF IInv, Queue, Answered
  <1> QED BY <1>2, <1>3, SendFacts

\* The answer of a task is sent.
LEMMA SendAnswerStep == ASSUME IInv, NEW r \in Requests, SendAnswer(r) PROVE IInv'
  <1>1. /\ call[r].pc = "send" /\ reader.pc \notin {"exit", "failed"} /\ Send(r)
        /\ Goto(r, "done") /\ UNCHANGED <<kind, reader, stdout, read, machine, faults>>
        /\ TypeOK /\ kind[r] \notin {"note", "bad"}
    BY DEF SendAnswer, IInv, Lines
  <1>2. /\ call' \in [Requests -> CallRecords] /\ call'[r].pc = "done"
        /\ call'[r].result = call[r].result /\ call'[r].tries = call[r].tries
        /\ \A q \in Requests \ {r} : call'[q] = call[q]
    BY <1>1, GotoFacts DEF CallSteps
  <1>3. TypeOK'
    BY <1>1, <1>2, SendFacts DEF TypeOK, machine, CallRecords
  <1>4. Lifecycle'
    BY <1>1, <1>2 DEF IInv, Lifecycle, CallOK, machine
  <1>5. Lines'
    <2>1. \A q \in Requests : /\ call[q].pc = "done" => call'[q].pc = "done"
                              /\ call'[q].pc = "unread" <=> call[q].pc = "unread"
      BY <1>1, <1>2
    <2>2. 1..reader.line \subseteq Requests
      BY <1>1, CallsAssumption DEF TypeOK, Requests
    <2> QED BY <1>1, <1>2, <2>1, <2>2 DEF IInv, Lines
  <1>6. Queue'
    BY <1>1, <1>2, SendQueue
  <1> QED BY <1>3, <1>4, <1>5, <1>6 DEF IInv

\* The writer writes the first answer.
LEMMA WriteAnswerStep == ASSUME IInv, WriteAnswer PROVE IInv'
  <1>1. /\ stdout = "open" /\ channel # <<>> /\ channel \in Seq(Requests)
        /\ read' = [read EXCEPT ![Head(channel)] = @ + 1] /\ channel' = Tail(channel)
        /\ UNCHANGED <<kind, reader, call, stdout, machine, faults>>
    BY DEF WriteAnswer, Writable, IInv, TypeOK
  <1>2. /\ Head(channel) \in Requests /\ Head(channel) = channel[1] /\ Len(channel) \in Nat \ {0}
        /\ channel' \in Seq(Requests) /\ Len(channel') = Len(channel) - 1
        /\ \A i \in 1..Len(channel') : channel'[i] = channel[i + 1]
    BY <1>1
  <1>3. PICK h \in Requests : h = channel[1]
    BY <1>2
  <1>4. /\ read \in [Requests -> Nat]
        /\ read' \in [Requests -> Nat] /\ read'[h] = read[h] + 1
        /\ \A q \in Requests \ {h} : read'[q] = read[q]
    BY <1>1, <1>2, <1>3, SMTT(30) DEF IInv, TypeOK
  <1>5. TypeOK'
    <2>1. Len(channel') <= Channel
      BY <1>2, CallsAssumption DEF IInv, TypeOK
    <2>2. UNCHANGED <<kind, reader, call, stdout, machine, faults>>
      BY <1>1
    <2> QED BY <1>2, <1>4, <2>1, <2>2 DEF IInv, TypeOK, machine
  <1>6. Lines' /\ Lifecycle'
    BY <1>1 DEF IInv, Lines, Lifecycle, machine
  <1>7. Queue'
    <2>1. Queued(h)
      BY <1>2, <1>3 DEF Queued
    <2>2. \A i, k \in 1..Len(channel) : channel[i] = channel[k] => i = k
      BY DEF IInv, Queue
    <2>3. \A i \in 1..Len(channel') : channel'[i] # h
      BY <1>2, <1>3, <2>2
    <2>4. ~Queued(h)'
      BY <2>3 DEF Queued
    <2>5. \A q \in Requests \ {h} : Queued(q)' <=> Queued(q)
      <3> SUFFICES ASSUME NEW q \in Requests \ {h} PROVE Queued(q)' <=> Queued(q)
        OBVIOUS
      <3>1. ASSUME NEW i \in 1..Len(channel), channel[i] = q PROVE Queued(q)'
        <4>1. i - 1 \in 1..Len(channel') /\ channel'[i - 1] = q
          BY <1>2, <1>3, <3>1
        <4> QED BY <4>1 DEF Queued
      <3>2. ASSUME NEW i \in 1..Len(channel'), channel'[i] = q PROVE Queued(q)
        <4>1. i + 1 \in 1..Len(channel) /\ channel[i + 1] = q
          BY <1>2, <3>2
        <4> QED BY <4>1 DEF Queued
      <3> QED BY <3>1, <3>2 DEF Queued
    <2>6. \A i, k \in 1..Len(channel') : channel'[i] = channel'[k] => i = k
      BY <1>2, <2>2
    <2>7. read[h] = 0
      BY <1>4, <2>1 DEF IInv, Queue
    <2> QED BY <1>1, <1>4, <2>1, <2>4, <2>5, <2>6, <2>7 DEF IInv, Queue, Answered
  <1> QED BY <1>5, <1>6, <1>7 DEF IInv

\* The host closes the output: what is queued is lost.
LEMMA HostClosesStep == ASSUME IInv, HostCloses PROVE IInv'
  <1>1. /\ stdout = "open" /\ stdout' = "broken" /\ channel' = <<>> /\ Fault
        /\ UNCHANGED <<kind, reader, call, read, machine>>
    BY DEF HostCloses, Writable
  <1>2. TypeOK'
    BY <1>1, CallsAssumption DEF IInv, TypeOK, machine, Fault
  <1>3. Lines' /\ Lifecycle'
    BY <1>1 DEF IInv, Lines, Lifecycle, machine
  <1>4. Queue'
    BY <1>1 DEF IInv, Queue, Queued, Answered
  <1> QED BY <1>2, <1>3, <1>4 DEF IInv


-----------------------------------------------------------------------------
(* The loop of the server *)

\* The reader is at a line, and every line up to it is a request.
LEMMA ReaderFacts ==
    ASSUME IInv
    PROVE  /\ reader.line \in 0..N /\ N \in Nat /\ 1..reader.line \subseteq Requests
           /\ reader = [pc |-> reader.pc, line |-> reader.line]
           /\ reader.pc \in {"permit", "refuse"} => reader.line \in Requests
  BY CallsAssumption DEF IInv, TypeOK, Lines, Requests

\* The next line is read.
LEMMA ReadLineStep == ASSUME IInv, ReadLine PROVE IInv'
  <1> DEFINE r == reader.line + 1
             pc == IF kind[r] = "bad" THEN "refuse" ELSE "permit"
  <1>1. /\ reader.pc = "read" /\ reader.line < N /\ reader' = [pc |-> pc, line |-> r]
        /\ UNCHANGED <<kind, call, channel, stdout, read, machine, faults>>
    BY DEF ReadLine
  <1>2. r \in 1..N /\ reader.line \in 0..N /\ r > reader.line
    BY <1>1, ReaderFacts
  <1>3. TypeOK'
    BY <1>1, <1>2 DEF IInv, TypeOK, machine
  <1>4. Lines'
    <2>1. reader'.line = r /\ reader'.pc = pc /\ pc \in {"refuse", "permit"}
      BY <1>1
    <2>2. \A q \in Requests : q > reader.line <=> q > r \/ q = r
      BY <1>2 DEF Requests
    <2>3. stdout # "closed"
      BY <1>1 DEF IInv, Lines
    <2> QED BY <1>1, <1>2, <2>1, <2>2, <2>3 DEF IInv, Lines
  <1>5. Lifecycle' /\ Queue'
    BY <1>1 DEF IInv, Lifecycle, Queue, Queued, Answered, machine
  <1> QED BY <1>3, <1>4, <1>5 DEF IInv

\* A line that does not parse is answered by the loop.
LEMMA RefuseLineStep == ASSUME IInv, RefuseLine PROVE IInv'
  <1> DEFINE r == reader.line
  <1>1. /\ reader.pc = "refuse" /\ Send(r)
        /\ call' = [call EXCEPT ![r].pc = "done", ![r].result = "invalid"]
        /\ reader' = [reader EXCEPT !.pc = IF Writable THEN "read" ELSE "failed"]
        /\ UNCHANGED <<kind, stdout, read, machine, faults>> /\ TypeOK
    BY DEF RefuseLine, IInv
  <1>2. PICK q \in Requests : q = r
    BY <1>1, ReaderFacts
  <1>3. kind[q] = "bad" /\ call[q].pc = "unread" /\ stdout # "closed"
    BY <1>1, <1>2 DEF IInv, Lines
  <1>4. /\ call' \in [Requests -> CallRecords]
        /\ call'[q].pc = "done" /\ call'[q].result = "invalid"
        /\ \A k \in Requests \ {q} : call'[k] = call[k]
    <2>1. /\ call \in [Requests -> CallRecords] /\ call[q] \in CallRecords
          /\ call' = [call EXCEPT ![q].pc = "done", ![q].result = "invalid"]
      BY <1>1, <1>2 DEF TypeOK, CallRecords
    <2>2. call'[q] = [call[q] EXCEPT !.pc = "done", !.result = "invalid"]
      BY <2>1
    <2>3. call'[q] \in CallRecords
      BY <2>1, <2>2 DEF CallRecords, CallSteps, Results
    <2> QED BY <2>1, <2>2, <2>3 DEF CallRecords
  <1>5. /\ reader'.line = q /\ reader'.pc \in {"read", "failed"}
        /\ reader' \in [pc : {"read", "failed"}, line : 0..N]
    BY <1>1, <1>2 DEF TypeOK
  <1>6. channel' \in Seq(Requests) /\ Len(channel') <= Channel
    BY <1>1, <1>2, SendFacts
  <1>7. TypeOK'
    BY <1>1, <1>4, <1>5, <1>6 DEF TypeOK, machine, CallRecords
  <1>8. Lines'
    BY <1>1, <1>2, <1>3, <1>4, <1>5 DEF IInv, Lines, Requests
  <1>9. Lifecycle'
    <2>1. CallOK(kind[q], call'[q], conn[q], effects[q])
      BY <1>3, <1>4 DEF IInv, Lifecycle, CallOK, Answers
    <2> QED BY <1>1, <1>4, <2>1 DEF IInv, Lifecycle, machine
  <1>10. Queue'
    BY <1>1, <1>2, <1>3, <1>4, SendQueue
  <1> QED BY <1>7, <1>8, <1>9, <1>10 DEF IInv

\* A permit is free and the task of the line begins.
LEMMA SpawnTaskStep == ASSUME IInv, SpawnTask PROVE IInv'
  <1>1. /\ reader.pc = "permit" /\ call' = [call EXCEPT ![reader.line].pc = "begin"]
        /\ reader' = [reader EXCEPT !.pc = "read"]
        /\ UNCHANGED <<kind, channel, stdout, read, machine, faults>> /\ TypeOK
    BY DEF SpawnTask, IInv
  <1>2. PICK q \in Requests : q = reader.line
    BY <1>1, ReaderFacts
  <1>3. kind[q] # "bad" /\ call[q].pc = "unread" /\ stdout # "closed"
    BY <1>1, <1>2 DEF IInv, Lines
  <1>4. /\ call' \in [Requests -> CallRecords]
        /\ call'[q].pc = "begin" /\ call'[q].result = call[q].result
        /\ \A k \in Requests \ {q} : call'[k] = call[k]
    BY <1>1, <1>2, GotoFacts DEF Goto, CallSteps
  <1>5. reader'.line = q /\ reader'.pc = "read" /\ reader' \in [pc : {"read"}, line : 0..N]
    BY <1>1, <1>2 DEF TypeOK
  <1>6. TypeOK'
    BY <1>1, <1>4, <1>5 DEF TypeOK, machine, CallRecords
  <1>7. Lines'
    BY <1>1, <1>2, <1>3, <1>4, <1>5 DEF IInv, Lines, Requests
  <1>8. Lifecycle'
    <2>1. CallOK(kind[q], call'[q], conn[q], effects[q])
      BY <1>3, <1>4 DEF IInv, Lifecycle, CallOK
    <2> QED BY <1>1, <1>4, <2>1 DEF IInv, Lifecycle, machine
  <1>9. Queue'
    BY <1>1, <1>3, <1>4 DEF IInv, Queue, Queued, Answered
  <1> QED BY <1>6, <1>7, <1>8, <1>9 DEF IInv

\* The input ends.
LEMMA EndOfInputStep == ASSUME IInv, EndOfInput PROVE IInv'
  <1>1. /\ reader.pc = "read" /\ reader' = [reader EXCEPT !.pc = "drain"]
        /\ UNCHANGED <<kind, call, channel, stdout, read, machine, faults>>
    BY DEF EndOfInput
  <1>2. reader'.line = reader.line /\ reader' = [pc |-> "drain", line |-> reader.line]
    BY <1>1, ReaderFacts
  <1>3. TypeOK'
    BY <1>1, <1>2, ReaderFacts DEF IInv, TypeOK, machine
  <1>4. Lines'
    BY <1>1, <1>2 DEF IInv, Lines
  <1>5. Lifecycle' /\ Queue'
    BY <1>1 DEF IInv, Lifecycle, Queue, Queued, Answered, machine
  <1> QED BY <1>3, <1>4, <1>5 DEF IInv

\* Every task is waited for: what was read has been answered.
LEMMA JoinTasksStep == ASSUME IInv, JoinTasks PROVE IInv'
  <1>1. /\ reader.pc = "drain" /\ InFlight = {} /\ reader' = [reader EXCEPT !.pc = "close"]
        /\ UNCHANGED <<kind, call, channel, stdout, read, machine, faults>>
    BY DEF JoinTasks
  <1>2. \A r \in 1..reader.line : call[r].pc = "done"
    <2> SUFFICES ASSUME NEW r \in 1..reader.line PROVE call[r].pc = "done"
      OBVIOUS
    <2>1. r \in Requests /\ call[r].pc # "unread"
      BY <1>1, ReaderFacts DEF IInv, Lines
    <2> QED BY <1>1, <2>1 DEF IInv, Lines, InFlight, Working
  <1>3. reader'.line = reader.line /\ reader' = [pc |-> "close", line |-> reader.line]
    BY <1>1, ReaderFacts
  <1>4. TypeOK'
    BY <1>1, <1>3, ReaderFacts DEF IInv, TypeOK, machine
  <1>5. Lines'
    BY <1>1, <1>2, <1>3 DEF IInv, Lines
  <1>6. Lifecycle' /\ Queue'
    BY <1>1 DEF IInv, Lifecycle, Queue, Queued, Answered, machine
  <1> QED BY <1>4, <1>5, <1>6 DEF IInv

\* The writer is waited for.
LEMMA JoinWriterStep == ASSUME IInv, JoinWriter PROVE IInv'
  <1>1. /\ reader.pc = "close" /\ stdout \in {"open", "broken", "closed"}
        /\ reader' = [reader EXCEPT !.pc = IF stdout = "open" THEN "exit" ELSE "failed"]
        /\ stdout' = IF stdout = "open" THEN "closed" ELSE stdout
        /\ UNCHANGED <<kind, call, channel, read, machine, faults>>
    BY DEF JoinWriter, Writable, IInv, TypeOK
  <1>2. /\ reader'.line = reader.line
        /\ reader'.pc = IF stdout = "open" THEN "exit" ELSE "failed"
        /\ reader' \in [pc : {"exit", "failed"}, line : 0..N]
    BY <1>1 DEF IInv, TypeOK
  <1>3. TypeOK'
    BY <1>1, <1>2 DEF IInv, TypeOK, machine
  <1>4. Lines'
    BY <1>1, <1>2 DEF IInv, Lines
  <1>5. Lifecycle' /\ Queue'
    BY <1>1 DEF IInv, Lifecycle, Queue, Queued, Answered, machine
  <1> QED BY <1>3, <1>4, <1>5 DEF IInv

-----------------------------------------------------------------------------
(* The daemon *)

\* A step that leaves the server alone, and of the connections what a death leaves of
\* them.
LEMMA DaemonKeeps ==
    ASSUME IInv, UNCHANGED <<kind, server, read, effects>>, MachineOK', faults' \in 0..MaxFaults,
           UNCHANGED conn \/ conn' = [r \in Requests |-> Dead(r)]
    PROVE  IInv'
  <1>1. ASSUME NEW r \in Requests
        PROVE  conn'[r] \in Connections /\ CallOK(kind[r], call[r], conn'[r], effects[r])
    <2>1. conn[r] \in Connections /\ CallOK(kind[r], call[r], conn[r], effects[r])
      BY DEF IInv, TypeOK, Lifecycle
    <2>2. CASE conn'[r] = conn[r]
      BY <2>1, <2>2
    <2>3. CASE conn'[r] = Dead(r)
      <3>1. CASE call[r].pc # "await"
        BY <2>1, <2>3, <3>1 DEF Dead, CallOK, Connections, Answers
      <3>2. CASE call[r].pc = "await" /\ conn[r] \in {"open", "stale"}
        BY <2>1, <2>3, <3>2 DEF Dead, CallOK, Connections
      <3>3. CASE call[r].pc = "await" /\ conn[r] \in {"running", "executed"}
        BY <2>1, <2>3, <3>3 DEF Dead, CallOK, Connections
      <3>4. CASE /\ call[r].pc = "await"
                 /\ conn[r] \notin {"open", "stale", "running", "executed"}
        BY <2>1, <2>3, <3>4 DEF Dead
      <3> QED BY <3>1, <3>2, <3>3, <3>4
    <2> QED BY <2>2, <2>3
  <1>2. conn' \in [Requests -> Connections]
    BY <1>1 DEF IInv, TypeOK
  <1>3. TypeOK'
    BY <1>2 DEF IInv, TypeOK, MachineOK, server
  <1>4. Lifecycle'
    BY <1>1 DEF Lifecycle, server
  <1>5. Lines' /\ Queue'
    BY DEF IInv, Lines, Queue, Queued, Answered, server
  <1> QED BY <1>3, <1>4, <1>5 DEF IInv

\* A service is a flag and a token.
LEMMA ServiceType ==
    ASSUME NEW T, NEW up \in BOOLEAN, NEW t \in T
    PROVE  [up |-> up, token |-> t] \in [up : BOOLEAN, token : T]
  BY Zenon

\* A service that goes down keeps its token.
LEMMA DownFacts ==
    ASSUME MachineOK, daemon' = [daemon EXCEPT !.up = FALSE]
    PROVE  daemon' \in [up : BOOLEAN, token : 0..MaxFaults + 1]
  <1>1. daemon \in [up : BOOLEAN, token : 0..MaxFaults + 1]
    BY DEF MachineOK
  <1> QED BY <1>1, Zenon

\* The daemon dies, comes back, or is signed out.
LEMMA DaemonSteps ==
    ASSUME IInv, DaemonDies \/ DaemonReturns \/ SignOut PROVE IInv'
  <1>0. faults \in 0..MaxFaults /\ MaxFaults \in Nat /\ MachineOK
    BY CallsAssumption DEF IInv, TypeOK, MachineOK
  <1>1. CASE DaemonDies
    <2>1. /\ daemon' = [daemon EXCEPT !.up = FALSE] /\ faults' = faults + 1 /\ faults < MaxFaults
          /\ conn' = [r \in Requests |-> Dead(r)]
          /\ UNCHANGED <<kind, server, read, token, effects>>
      BY <1>1 DEF DaemonDies, Fault
    <2>2. MachineOK' /\ faults' \in 0..MaxFaults
      BY <1>0, <2>1, DownFacts DEF MachineOK
    <2> QED BY <2>1, <2>2, DaemonKeeps
  <1>2. CASE DaemonReturns
    <2>1. token' \in 0..MaxFaults + 1
      BY <1>0, <1>2 DEF DaemonReturns, MachineOK
    <2> QED BY <1>0, <1>2, <2>1, DaemonKeeps DEF DaemonReturns, MachineOK
  <1>3. CASE SignOut
    <2>1. /\ daemon' = [daemon EXCEPT !.up = FALSE] /\ faults' = faults + 1 /\ faults < MaxFaults
          /\ token' = 0 /\ conn' = [r \in Requests |-> Dead(r)]
          /\ UNCHANGED <<kind, server, read, effects>>
      BY <1>3 DEF SignOut, Fault
    <2>2. MachineOK' /\ faults' \in 0..MaxFaults
      BY <1>0, <2>1, DownFacts DEF MachineOK
    <2> QED BY <2>1, <2>2, DaemonKeeps
  <1> QED BY <1>1, <1>2, <1>3

-----------------------------------------------------------------------------
(* The theorems *)

\* The invariant holds at the start.
LEMMA InitIInv == ASSUME Init PROVE IInv
  <1>1. TypeOK
    <2>1. /\ N \in Nat /\ MaxFaults \in Nat /\ Channel \in Nat
          /\ 0 \in 0..MaxFaults /\ 0 \in 0..N /\ 0 \in 0..MaxFaults + 1 /\ 1 \in 0..MaxFaults + 1
      BY CallsAssumption
    <2>2. /\ kind \in [Requests -> Kinds]
          /\ reader \in [pc : {"read", "permit", "refuse", "drain", "close", "exit", "failed"},
                         line : 0..N]
      BY <2>1 DEF Init
    <2>3. call \in [Requests -> [pc : CallSteps, tries : 0..2, token : 0..MaxFaults + 1,
                                result : Results]]
      BY <2>1 DEF Init, CallSteps, Results
    <2>4. channel \in Seq(Requests) /\ Len(channel) <= Channel
      BY <2>1 DEF Init
    <2>5. token \in 0..MaxFaults + 1
      BY <2>1 DEF Init
    <2>6. daemon \in [up : BOOLEAN, token : 0..MaxFaults + 1]
      BY <2>1, ServiceType, Zenon DEF Init
    <2> QED BY <2>1, <2>2, <2>3, <2>4, <2>5, <2>6 DEF Init, TypeOK, Connections
  <1>2. Lines
    BY DEF Init, Lines, Requests
  <1>3. Lifecycle
    BY DEF Init, Lifecycle, CallOK, Answers
  <1>4. Queue
    BY DEF Init, Queue, Queued
  <1> QED BY <1>1, <1>2, <1>3, <1>4 DEF IInv

\* Every step of the server, its tasks, the daemon and the host keeps the invariant.
LEMMA NextIInv == ASSUME IInv, [Next]_vars PROVE IInv'
  <1>1. CASE Loop \/ EndOfInput \/ WriteAnswer \/ HostCloses
    BY <1>1, ReadLineStep, RefuseLineStep, SpawnTaskStep, JoinTasksStep, JoinWriterStep,
       EndOfInputStep, WriteAnswerStep, HostClosesStep DEF Loop
  <1>2. ASSUME NEW r \in Requests, TaskStep(r) PROVE IInv'
    BY <1>2, BeginStep, ReadTokenStep, ConnectStep, ReceiveStep, TimeoutStep,
       StartServiceStep, RunCliStep, RecoverCreateStep, SendAnswerStep DEF TaskStep
  <1>3. ASSUME NEW r \in Requests, ThreadStep(r) PROVE IInv'
    BY <1>3, ReadRequestStep, DispatchStep, ReplyStep DEF ThreadStep
  <1>4. CASE UNCHANGED vars
    BY <1>4 DEF vars, server, machine, IInv, TypeOK, Lines, Lifecycle, Queue, Queued, Answered
  <1> QED BY <1>1, <1>2, <1>3, <1>4, DaemonSteps DEF Next

\* IInv holds in every state of every behaviour.
THEOREM Invariance == Spec => []IInv
  <1>1. Init => IInv
    BY InitIInv
  <1>2. IInv /\ [Next]_vars => IInv'
    BY NextIInv
  <1> QED BY <1>1, <1>2, PTL DEF Spec

\* A tool call is executed at most once, although it may be sent again after the
\* service was started for it.
THEOREM CallsAreExecutedOnce == Spec => []ExecutedAtMostOnce
  <1>1. IInv => ExecutedAtMostOnce
    BY DEF IInv, Lifecycle, CallOK, ExecutedAtMostOnce
  <1> QED BY <1>1, Invariance, PTL

\* A success was executed, and a call whose runner is said to be unavailable was not
\* and will not be, unless it is an org.create that a second command looked after.
THEOREM HostIsToldTheTruth == Spec => []AnswersAreTrue
  <1>1. ASSUME IInv PROVE AnswersAreTrue
    <2> SUFFICES ASSUME NEW r \in Requests
                 PROVE  /\ call[r].result = "ok" /\ kind[r] # "local" => effects[r] = 1
                        /\ call[r].result = "unavailable" /\ ~Reconciled(r) =>
                              /\ effects[r] = 0
                              /\ conn[r] \notin {"open", "stale", "running", "executed"}
      BY DEF AnswersAreTrue
    <2> QED BY <1>1 DEF IInv, Lifecycle, CallOK, Reconciled
  <1> QED BY <1>1, Invariance, PTL

\* No request is answered twice, no notification is answered, and a server that ends
\* by itself has answered everything it read.
THEOREM RequestsAreAnsweredOnce == Spec => []AnsweredOnce
  <1>1. ASSUME IInv PROVE AnsweredOnce
    <2> DEFINE places(r) == {i \in 1..Len(channel) : channel[i] = r}
    <2>1. ASSUME NEW r \in Requests, ~Queued(r) PROVE Cardinality(places(r)) = 0
      <3>1. places(r) = {}
        BY <2>1 DEF Queued
      <3> QED BY <3>1, FS_EmptySet
    <2>2. ASSUME NEW r \in Requests, Queued(r) PROVE Cardinality(places(r)) = 1
      <3>1. PICK i \in 1..Len(channel) : channel[i] = r
        BY <2>2 DEF Queued
      <3>2. places(r) = {i}
        BY <1>1, <3>1 DEF IInv, Queue
      <3> QED BY <3>2, FS_Singleton
    <2>3. ASSUME NEW r \in Requests
          PROVE  /\ read[r] + Cardinality(places(r)) <= IF Answered(r) THEN 1 ELSE 0
                 /\ stdout = "closed" /\ call[r].pc = "done" /\ Answered(r) =>
                        read[r] + Cardinality(places(r)) = 1
      <3>1. read[r] \in {0, 1}
        BY <1>1, SMTT(30) DEF IInv, TypeOK, Queue
      <3> HIDE DEF places
      <3> QED BY <1>1, <2>1, <2>2, <3>1 DEF IInv, Queue
    <2>4. ASSUME reader.pc = "exit", NEW r \in 1..reader.line
          PROVE  r \in Requests /\ stdout = "closed" /\ call[r].pc = "done"
      BY <1>1, <2>4, ReaderFacts DEF IInv, Lines
    <2> QED BY <2>3, <2>4 DEF AnsweredOnce
  <1> QED BY <1>1, Invariance, PTL

=============================================================================
