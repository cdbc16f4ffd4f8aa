------------------------- MODULE MCSetupTransaction -------------------------
(***************************************************************************)
(* SetupTransaction for TLC.                                               *)
(***************************************************************************)
EXTENDS SetupTransaction

CONSTANTS v1, v2

TwoVersions == {v1, v2}
=============================================================================
