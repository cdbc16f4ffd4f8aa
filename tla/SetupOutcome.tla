---------------------------- MODULE SetupOutcome ----------------------------
(***************************************************************************)
(* What a setup transaction promises (loomex-cli/main.rs, setup_transaction.rs): *)
(* an update or a rollback of the installation happens as a whole or not   *)
(* at all, whatever fails or crashes on the way.  `stable` is the          *)
(* installation as the next command finds it once it has recovered what    *)
(* was interrupted.                                                        *)
(***************************************************************************)
EXTENDS Naturals

CONSTANTS
    Versions,   \* the runtime versions
    None        \* no version, no file

VARIABLES stable, op

vars == <<stable, op>>

Init ==
    /\ stable = [current |-> None, previous |-> None, config |-> None,
                 unit |-> None, active |-> FALSE]
    /\ op = "none"

\* Activation of version v remembers the version it replaces.
Activated(s, v) ==
    IF s.current = v THEN s
    ELSE [s EXCEPT !.current = v,
                   !.previous = IF s.current = None THEN @ ELSE s.current]

\* An update to v, with the service or without; a service that is not ready to
\* run is registered and stopped.
Applied(s, v, service, ready) ==
    LET t == [Activated(s, v) EXCEPT !.config = IF @ = None THEN "default" ELSE @]
    IN IF service THEN [t EXCEPT !.unit = "bundle", !.active = ready] ELSE t

\* An installed service that is ready runs afterwards, another one does not.
RolledBack(s, v, ready) ==
    [Activated(s, v) EXCEPT !.active = ready /\ s.unit # None]

Apply ==
    /\ op = "apply"
    /\ \E v \in Versions, service, ready \in BOOLEAN : stable' = Applied(stable, v, service, ready)

Rollback ==
    /\ op = "rollback"
    /\ \E v \in Versions, ready \in BOOLEAN : stable' = RolledBack(stable, v, ready)

\* A command without a transaction may leave config, unit and service in any state,
\* and touches no runtime.
Direct ==
    /\ op \in {"install", "uninstall", "start", "restart", "stop", "config"}
    /\ stable'.current = stable.current /\ stable'.previous = stable.previous

\* The system starts again, with the service or without.
Reboot ==
    /\ \E on \in BOOLEAN : stable' = [stable EXCEPT !.active = on]
    /\ op' = "none"

Next == Apply \/ Rollback \/ Direct \/ Reboot \/ stable' = stable

Spec == Init /\ [][Next]_vars
=============================================================================
