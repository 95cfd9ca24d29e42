---------------------------- MODULE CommandQueue ----------------------------
(***************************************************************************)
(* What the command ring promises to its users: a FIFO queue.  A command   *)
(* for which gravity_ring_cmd_write returned 0 is handed to process_command*)
(* exactly once, whole, unaltered, and in the order of acceptance.         *)
(*                                                                         *)
(* GravityRing implements this specification.                              *)
(***************************************************************************)
EXTENDS Naturals, Sequences

CONSTANT Commands       \* what a client may submit

VARIABLES accepted,     \* every command accepted so far, oldest first
          processed     \* every command processed so far, oldest first

vars == <<accepted, processed>>

Init == accepted = <<>> /\ processed = <<>>

Accept(c) ==
    /\ accepted' = Append(accepted, c)
    /\ UNCHANGED processed

\* Only the oldest outstanding command may be processed.
Process ==
    /\ Len(processed) < Len(accepted)
    /\ processed' = Append(processed, accepted[Len(processed) + 1])
    /\ UNCHANGED accepted

Next == (\E c \in Commands : Accept(c)) \/ Process

SafeSpec == Init /\ [][Next]_vars

\* The daemon that serves the queue keeps running.
Spec == SafeSpec /\ WF_vars(Process)
=============================================================================
