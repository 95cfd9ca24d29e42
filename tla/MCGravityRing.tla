--------------------------- MODULE MCGravityRing ----------------------------
(* Small instances of GravityRing. *)
EXTENDS GravityRing

\* One command of each length that cmd_write takes in a ring of 8 words,
\* distinguishable word by word.
MCCommands == { <<1, 2>>, <<2, 3, 5>>, <<3, 4, 6, 7>> }

\* Commands whose declared size is too small, too large for the buffer, larger
\* than the command, or smaller than it, one too short for a header, and one of
\* an opcode the daemon does not know.
MCMalformedCommands ==
    { <<1, 0>>, <<1, 6>>, <<1, 3>>, <<1, 2, 4, 4>>, <<4>>, <<9, 2>> }
=============================================================================
