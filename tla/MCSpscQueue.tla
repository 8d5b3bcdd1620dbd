----------------------------- MODULE MCSpscQueue -----------------------------
(* Instance of SpscQueue for TLC, and the mutated forms of its definitions. *)
EXTENDS SpscQueue
==============================================================================
