---------------------------- MODULE MCDataRegion ----------------------------
(* Small instances of DataRegion. *)
EXTENDS DataRegion

\* Payloads below, at and above the alignment, and one above the region.
MCSizes == {1, 2, 3, 9}

\* For OutstandingIntact: payloads for a region of 24 words: it has room for all that two commands in
\* the ring can name and one more in the making, gaps and alignment included.
MCSmallSizes == {1, 3}
=============================================================================
