---------------------------- MODULE RunnerLifecycle ----------------------------
(***************************************************************************)
(* lifecycle.rs: the state machine of a runner, the attempts to reconnect  *)
(* it, the registry of the tool calls in flight and the shutdown           *)
(* coordinator.  They are four objects that no code of this repository     *)
(* ties together, so their methods are called here in any order.           *)
(***************************************************************************)
EXTENDS Naturals

CONSTANTS
    Calls,                      \* ids of tool calls
    MaxAttempts,                \* the ReconnectPolicy
    MaxPosition                 \* bound: sequence numbers of the streams

VARIABLES
    state,      \* RunnerStateMachine
    reconnect,  \* ReconnectState
    calls,      \* InflightToolCallRegistry
    shutdown,   \* ShutdownCoordinator
    login,      \* history: authenticated, and no error, update or reset since
    cancelled   \* history: the calls whose cancellation was accepted

vars == <<state, reconnect, calls, shutdown, login, cancelled>>
machine == <<state, login>>
registry == <<calls, cancelled>>

States == {"not_authenticated", "authenticated", "connecting", "connected", "running", "paused",
           "approval_required", "disconnected", "error", "updating"}
Events == {"authenticated", "connect_started", "connected", "tool_call_started",
           "tool_call_completed", "approval_required", "approval_resolved", "disconnected",
           "error", "pause", "resume", "updating", "reset_auth"}
CallStates == {"accepted", "waiting_for_approval", "running", "cancelling", "terminal"}
NoCall == [state |-> "none", cancelled |-> FALSE]
\* InflightToolCallRuntime, with a CancellationToken of its own
NewCall(s) == [state |-> s, cancelled |-> FALSE]
NewReconnect == [attempt |-> 0, resume |-> 0, received |-> 0]
NewCoordinator == [mode |-> "none", clean |-> FALSE]

Init ==
    /\ state = "not_authenticated" /\ login = FALSE
    /\ reconnect = NewReconnect
    /\ calls = [c \in Calls |-> NoCall] /\ cancelled = {}
    /\ shutdown = NewCoordinator

(* RunnerStateMachine::transition: the rules that admit an event in some states, and *)
(* those that admit it in all.                                                        *)
Rule(from, to) == [from |-> from, to |-> to]

\* Variant of Guarded: an error is left as a lost connection is.
GuardedWithErrors ==
    [authenticated |-> Rule({"not_authenticated"}, "authenticated"),
     connect_started |-> Rule({"authenticated", "disconnected", "connected", "error"}, "connecting"),
     connected |-> Rule({"connecting"}, "connected"),
     tool_call_started |-> Rule({"connected", "running", "approval_required"}, "running"),
     tool_call_completed |-> Rule({"running", "approval_required"}, "connected"),
     approval_required |-> Rule({"connected", "running"}, "approval_required"),
     approval_resolved |-> Rule({"approval_required"}, "running"),
     disconnected |-> Rule({"connected", "running", "approval_required"}, "disconnected"),
     pause |-> Rule({"connected", "running"}, "paused"),
     resume |-> Rule({"paused"}, "connected")]

Guarded ==
    [authenticated |-> Rule({"not_authenticated"}, "authenticated"),
     connect_started |-> Rule({"authenticated", "disconnected", "connected"}, "connecting"),
     connected |-> Rule({"connecting"}, "connected"),
     tool_call_started |-> Rule({"connected", "running", "approval_required"}, "running"),
     tool_call_completed |-> Rule({"running", "approval_required"}, "connected"),
     approval_required |-> Rule({"connected", "running"}, "approval_required"),
     approval_resolved |-> Rule({"approval_required"}, "running"),
     disconnected |-> Rule({"connected", "running", "approval_required"}, "disconnected"),
     pause |-> Rule({"connected", "running"}, "paused"),
     resume |-> Rule({"paused"}, "connected")]

Always == [reset_auth |-> "not_authenticated", error |-> "error", updating |-> "updating"]

\* The state after an event; the state itself where the event is refused.
NextState(s, event) ==
    IF event \in DOMAIN Always THEN Always[event]
    ELSE IF s \in Guarded[event].from THEN Guarded[event].to ELSE s

Transition(event) ==
    /\ state' = NextState(state, event)
    /\ login' = CASE event \in DOMAIN Always -> FALSE
                  [] event = "authenticated" /\ state = "not_authenticated" -> TRUE
                  [] OTHER -> login
    /\ UNCHANGED <<reconnect, registry, shutdown>>

\* set_error
SetError ==
    /\ state' = "error" /\ login' = FALSE
    /\ UNCHANGED <<reconnect, registry, shutdown>>

(* ReconnectState.                                                          *)
RecordDisconnect(resume, received) ==
    /\ reconnect' = [reconnect EXCEPT !.resume = resume, !.received = received]
    /\ UNCHANGED <<machine, registry, shutdown>>

\* next_attempt, with how long to wait left out.
NextAttempt ==
    /\ reconnect.attempt < MaxAttempts
    /\ reconnect' = [reconnect EXCEPT !.attempt = @ + 1]
    /\ UNCHANGED <<machine, registry, shutdown>>

Reset ==
    /\ reconnect' = [reconnect EXCEPT !.attempt = 0]
    /\ UNCHANGED <<machine, registry, shutdown>>

(* InflightToolCallRegistry.                                                *)
Insert(c, s) ==
    /\ calls[c] = NoCall
    /\ calls' = [calls EXCEPT ![c] = NewCall(s)]
    /\ UNCHANGED <<cancelled, machine, reconnect, shutdown>>

\* mark_state and mark_terminal look at neither the state nor the token.
MarkState(c, s) ==
    /\ calls[c] # NoCall
    /\ calls' = [calls EXCEPT ![c].state = s]
    /\ UNCHANGED <<cancelled, machine, reconnect, shutdown>>

Cancel(c) ==
    /\ calls[c] # NoCall /\ calls[c].state # "terminal"
    /\ calls' = [calls EXCEPT ![c] = [state |-> "cancelling", cancelled |-> TRUE]]
    /\ cancelled' = cancelled \cup {c}
    /\ UNCHANGED <<machine, reconnect, shutdown>>

CanEmitOutput(c) ==
    calls[c].state \in {"accepted", "waiting_for_approval", "running"} /\ ~calls[c].cancelled

Active == {c \in Calls : calls[c] # NoCall /\ calls[c].state # "terminal"}

(* ShutdownCoordinator.                                                     *)
GracefulShutdown ==
    /\ shutdown' = [mode |-> "graceful", clean |-> Active = {}]
    /\ UNCHANGED <<machine, reconnect, registry>>

MarkSafeCleanupComplete ==
    /\ shutdown' = [shutdown EXCEPT !.clean = TRUE]
    /\ UNCHANGED <<machine, reconnect, registry>>

EmergencyStop ==
    /\ shutdown' = [mode |-> "emergency", clean |-> TRUE]
    /\ UNCHANGED <<machine, reconnect, registry>>

Next ==
    \/ \E event \in Events : Transition(event)
    \/ SetError
    \/ \E p, q \in 0..MaxPosition : RecordDisconnect(p, q)
    \/ NextAttempt \/ Reset
    \/ \E c \in Calls, s \in CallStates : Insert(c, s) \/ MarkState(c, s)
    \/ \E c \in Calls : Cancel(c)
    \/ GracefulShutdown \/ MarkSafeCleanupComplete \/ EmergencyStop

Spec == Init /\ [][Next]_vars

-----------------------------------------------------------------------------
(* Properties.                                                             *)

TypeOK ==
    /\ state \in States /\ login \in BOOLEAN
    /\ reconnect \in [attempt : Nat, resume : Nat, received : Nat]
    /\ calls \in [Calls -> [state : CallStates \cup {"none"}, cancelled : BOOLEAN]]
    /\ cancelled \subseteq Calls
    /\ shutdown \in [mode : {"none", "graceful", "emergency"}, clean : BOOLEAN]

Sessions == {"authenticated", "connecting", "connected", "running", "paused", "approval_required",
             "disconnected"}

\* Whatever events arrive in whatever order, and however many of them are refused: a
\* runner that connects, is connected or works has authenticated since the last error,
\* update or reset.
SessionsAreAuthenticated == state \in Sessions <=> login

\* A call whose cancellation was accepted emits no output any more, whatever state a
\* late callback puts it into.
CancelledCallsAreSilent == \A c \in cancelled : ~CanEmitOutput(c)
=============================================================================
