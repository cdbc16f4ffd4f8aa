------------------------- MODULE MCWorkspaceWrites -------------------------
(***************************************************************************)
(* WorkspaceWrites for TLC: three files, two of them in one directory.     *)
(***************************************************************************)
EXTENDS WorkspaceWrites

CONSTANTS d1, d2

TwoDirs == {d1, d2}
Places == [f \in 1..3 |-> IF f = 2 THEN d2 ELSE d1]
=============================================================================
