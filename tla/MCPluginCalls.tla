---------------------------- MODULE MCPluginCalls ----------------------------
(***************************************************************************)
(* PluginCalls for TLC: three lines under two permits, so that a third     *)
(* line waits, and every kind of line beside a call for the daemon.        *)
(***************************************************************************)
EXTENDS PluginCalls

MCInit ==
    /\ Init
    /\ kind \in {<<"daemon", "daemon", "note">>, <<"daemon", "note", "local">>,
                 <<"fallback", "bad", "local">>, <<"create", "bad", "note">>,
                 <<"cli", "local", "note">>}
MCSpec == MCInit /\ [][Next]_vars /\ Fairness
=============================================================================
