---------------------------- MODULE RunClientProofs ----------------------------
(***************************************************************************)
(* A human's answer through loomex workflow run goes to the run that asked *)
(* for it, for any threads, runs and requests and where the Backend names  *)
(* the run.  What the command knows was read before, and the threads of    *)
(* the service, other answers and the Backend go on meanwhile: the         *)
(* invariant says that a request keeps its run until it is answered and    *)
(* never gets another.                                                     *)
(***************************************************************************)
EXTENDS RunClient, TLAPS

-----------------------------------------------------------------------------
(* The inductive invariant                                                  *)

AsksOK == asks \in [Asks -> Runs \cup {None, "gone"}]

\* What loomex workflow run is at, and whose request it has found.
CommandOK ==
    /\ cli.step \in {"started", "list", "answer"} => cli.run \in Runs
    /\ cli.step = "answer" =>
          /\ cli.ask \in Asks
          /\ cli.ask \in Unnamed \/ asks[cli.ask] \in {cli.run, "gone"}

CommandType ==
    cli \in [step : {Absent, "idle", "schema", "start", "started", "list", "answer"},
             input : BOOLEAN, answers : BOOLEAN, run : Runs \cup {None},
             ask : Asks \cup {None}]

AnswerInv == AsksOK /\ CommandType /\ CommandOK

-----------------------------------------------------------------------------
(* What happens to the requests                                             *)

\* A request gets a run once, keeps it until it is answered, and then stays answered.
AsksMoveOn ==
    /\ AsksOK'
    /\ \A a \in Asks : asks[a] # None => asks'[a] \in {asks[a], "gone"}

\* To start or to cancel a run touches no request, and an answer settles one.
LEMMA BackendMoves ==
    ASSUME AsksOK,
           \/ UNCHANGED asks
           \/ \E r \in Runs : StartRun(r) \/ CancelRun(r)
           \/ \E a \in Asks : Resolve(a)
    PROVE  AsksMoveOn
  BY DEF AsksOK, AsksMoveOn, StartRun, CancelRun, Resolve

\* A run asks with a request nobody has seen.
LEMMA AskMoves ==
    ASSUME AsksOK, NEW a \in Asks, RunAsks(a)
    PROVE  AsksMoveOn
  BY DEF AsksOK, AsksMoveOn, RunAsks

\* As long as the command does nothing, it may work on with what it knows.
LEMMA OthersKeep ==
    ASSUME AnswerInv, AsksMoveOn, UNCHANGED cli
    PROVE  AnswerInv'
  <1>1. None \notin Runs
    BY NamesAssumption DEF None
  <1> QED BY <1>1 DEF AnswerInv, AsksMoveOn, CommandType, CommandOK, None

\* The steps of loomex workflow run.
LEMMA CliKeeps ==
    ASSUME AnswerInv, Cli
    PROVE  AnswerInv'
  <1> USE DEF AnswerInv, CommandType, At, Goto
  <1>0. AsksMoveOn
    <2>1. CliResolve => \E a \in Asks : Resolve(a)
      BY DEF CliResolve, CommandOK
    <2>2. UNCHANGED asks \/ (\E r \in Runs : StartRun(r)) \/ CliResolve
      BY DEF Cli, CliBegin, CliPrepare, CliStart, CliStarted, CliList, CliFail, backend
    <2> QED BY <2>1, <2>2, BackendMoves
  <1>1. CASE CliBegin
    <2>1. cli'.step = "schema" /\ CommandType'
      BY <1>1 DEF CliBegin, NoCommand, HasInput, MayAnswer
    <2> QED BY <1>0, <2>1 DEF AsksMoveOn, CommandOK
  <1>2. CASE CliPrepare
    BY <1>0, <1>2 DEF CliPrepare, AsksMoveOn, CommandOK
  <1>3. CASE CliStart
    BY <1>0, <1>3 DEF CliStart, AsksMoveOn, CommandOK
  <1>4. CASE CliStarted
    BY <1>0, <1>4 DEF CliStarted, AsksMoveOn, CommandOK
  <1>5. CASE CliList
    BY <1>0, <1>5 DEF CliList, AsksMoveOn, CommandOK, IsMine, backend
  <1>6. CASE CliResolve
    BY <1>0, <1>6 DEF CliResolve, AsksMoveOn, CommandOK
  <1>7. CASE CliFail
    BY <1>0, <1>7 DEF CliFail, AsksMoveOn, CommandOK
  <1> QED BY <1>1, <1>2, <1>3, <1>4, <1>5, <1>6, <1>7 DEF Cli

\* The steps of the service and of the Backend.
LEMMA ServiceKeeps ==
    ASSUME AnswerInv,
           \/ \E t \in Threads : ServiceStep(t)
           \/ CoolDown
           \/ \E a \in Asks : RunAsks(a)
           \/ \E r \in Runs : RunCompletes(r)
    PROVE  AnswerInv'
  <1>1. UNCHANGED cli
    BY DEF ServiceStep, Begin, Lock, CloneClient, Exchange, Receive, Read, CoolDown, RunAsks,
       RunCompletes
  <1>2. CASE \E a \in Asks : RunAsks(a)
    BY <1>1, <1>2, AskMoves, OthersKeep DEF AnswerInv
  <1>3. CASE \E t \in Threads : Exchange(t)
    <2>1. PICK t \in Threads : Done(calls[t]) \/ UNCHANGED backend
      BY <1>3 DEF Exchange
    <2>2. AsksMoveOn
      BY <2>1, BackendMoves DEF Done, backend, AnswerInv
    <2> QED BY <1>1, <2>2, OthersKeep
  <1>4. CASE UNCHANGED asks
    BY <1>1, <1>4, BackendMoves, OthersKeep DEF AnswerInv
  <1>5. UNCHANGED asks \/ (\E t \in Threads : Exchange(t)) \/ (\E a \in Asks : RunAsks(a))
    BY DEF ServiceStep, Begin, Lock, CloneClient, Receive, Read, CoolDown, RunCompletes, backend
  <1> QED BY <1>2, <1>3, <1>4, <1>5

-----------------------------------------------------------------------------
(* The theorems                                                             *)

\* A request that the command found for its run is of that run, or answered, or one whose
\* run it was not told.
THEOREM AnswerInvariance == Spec => []AnswerInv
  <1>1. Init => AnswerInv
    <2> SUFFICES ASSUME Init PROVE AnswerInv
      OBVIOUS
    <2>1. PICK step \in {"idle", Absent} : cli = [NoCommand EXCEPT !.step = step]
      BY DEF Init
    <2>2. CommandType /\ CommandOK
      BY <2>1 DEF CommandType, CommandOK, NoCommand, Absent
    <2>3. AsksOK
      BY DEF Init, AsksOK
    <2> QED BY <2>2, <2>3 DEF AnswerInv
  <1>2. AnswerInv /\ [Next]_vars => AnswerInv'
    <2> SUFFICES ASSUME AnswerInv, [Next]_vars PROVE AnswerInv'
      OBVIOUS
    <2>1. CASE UNCHANGED vars
      BY <2>1 DEF vars, AnswerInv, AsksOK, CommandType, CommandOK
    <2>2. CASE Next
      BY <2>2, CliKeeps, ServiceKeeps DEF Next
    <2> QED BY <2>1, <2>2
  <1> QED BY <1>1, <1>2, PTL DEF Spec

\* The answer that loomex workflow run is given or asks its user for goes to a request of
\* the run it started (main.rs, resolve_waiting_human_input), whatever threads, other runs
\* and other answers do between the list and the answer, unless the list did not name the
\* run of the request.
THEOREM AnswersAlwaysReachTheirRun == Spec => AnswersReachTheirRun
  <1>1. AnswerInv /\ [Next]_vars =>
            [cli' # cli /\ asks' # asks => cli.ask \in Unnamed \/ asks[cli.ask] = cli.run]_vars
    <2> SUFFICES ASSUME AnswerInv, Next, cli' # cli, asks' # asks
                 PROVE  cli.ask \in Unnamed \/ asks[cli.ask] = cli.run
      OBVIOUS
    <2>1. Cli
      BY DEF Next, ServiceStep, Begin, Lock, CloneClient, Exchange, Receive, Read, CoolDown,
         RunAsks, RunCompletes
    <2>2. CliResolve
      BY <2>1 DEF Cli, CliBegin, CliPrepare, CliStart, CliStarted, CliList, CliFail, StartRun,
         backend
    <2>3. cli.step = "answer" /\ asks[cli.ask] \in Runs
      BY <2>2 DEF CliResolve, At, Resolve, Pending
    <2>4. "gone" \notin Runs
      BY NamesAssumption
    <2> QED BY <2>3, <2>4 DEF AnswerInv, CommandOK
  <1> QED BY <1>1, AnswerInvariance, PTL DEF Spec, AnswersReachTheirRun
=============================================================================
