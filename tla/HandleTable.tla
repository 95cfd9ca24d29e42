---------------------------- MODULE HandleTable -----------------------------
(***************************************************************************)
(* What the resource tracker promises to the handlers: a partial function  *)
(* from the guest's handles to entries of a pool.  A handle keeps its      *)
(* entry from the add that gave it to the remove that takes it away,       *)
(* whatever is added and removed in between, and no two handles share one. *)
(*                                                                         *)
(* ResourceTracker implements this specification as long as no removal     *)
(* empties a slot that the search for another handle passes and the table  *)
(* has room; CommandProcessor relies on it.                                *)
(***************************************************************************)
EXTENDS Functions

CONSTANTS Handles,      \* what the guest may name
          Entries       \* the places of the pool

VARIABLE table          \* handle -> entry, for the handles that have one

Init == table = [h \in {} |-> h]

Add(h, e) ==
    /\ h \notin DOMAIN table
    /\ e \notin Range(table)
    /\ table' = [k \in DOMAIN table \cup {h} |-> IF k = h THEN e ELSE table[k]]

Remove(h) ==
    /\ h \in DOMAIN table
    /\ table' = Restrict(table, DOMAIN table \ {h})

Next == \E h \in Handles : Remove(h) \/ \E e \in Entries : Add(h, e)

Spec == Init /\ [][Next]_table
=============================================================================
