------------------------------ MODULE MCRunClient ------------------------------
(* RunClient for TLC: two threads, or a thread beside the command. *)
EXTENDS RunClient
CONSTANTS t1, t2, r1, r2, a1, a2
MCCasts == {{t1, t2}, {t1, "cli"}}
=============================================================================
