---------------------------- MODULE MCPluginAuth ----------------------------
(***************************************************************************)
(* PluginAuth for TLC: two accounts, an organization each of them may see  *)
(* and one that may be created.                                            *)
(***************************************************************************)
EXTENDS PluginAuth, TLC

CONSTANTS a1, a2, o1, o2, f1

TwoAccounts == {a1, a2}
TwoOrgs == {o1, o2}
OneFlow == {f1}

\* Both accounts are members of the first organization only.
MCInit == Init /\ backend.orgs = [a \in Accounts |-> {o1}]
MCSpec == MCInit /\ [][Next]_vars

Symmetry == Permutations(TwoAccounts)
=============================================================================
