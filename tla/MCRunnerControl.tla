-------------------------- MODULE MCRunnerControl --------------------------
(***************************************************************************)
(* RunnerControl for TLC.                                                  *)
(***************************************************************************)
EXTENDS RunnerControlInv, TLC

CONSTANT j1

OneJob == {j1}
=============================================================================
