------------------------- MODULE MCCommandProcessor -------------------------
(* Small instances of CommandProcessor. *)
EXTENDS CommandProcessor

CONSTANTS b1, t1, d1, s1, p1, c1, c2, none
=============================================================================
