------------------------------ MODULE MCMemoryPool ------------------------------
(* Instances of MemoryPool for TLC. *)
EXTENDS MemoryPool, TLC

ThreadSymmetry == Permutations(Users)
================================================================================
