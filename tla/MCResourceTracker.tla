------------------------- MODULE MCResourceTracker --------------------------
(* Small instances of ResourceTracker. *)
EXTENDS ResourceTracker, TLC

CONSTANTS h0, h1, h2, h3, h4, h5

\* A table of two slots.
MCTinyHash == (h0 :> 0 @@ h1 :> 0 @@ h2 :> 1 @@ h3 :> 0 @@ h4 :> 1)

\* Handles that collide, one chain beginning inside another and one that wraps
\* around the end of a table of five slots.
MCChainHash == (h0 :> 0 @@ h1 :> 1 @@ h2 :> 1 @@ h3 :> 2 @@ h4 :> 4 @@ h5 :> 4)
=============================================================================
