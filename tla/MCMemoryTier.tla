------------------------------ MODULE MCMemoryTier ------------------------------
(* Instances of MemoryTier for TLC. *)
EXTENDS MemoryTier

MCSlabs == 0 .. 1
MCBlocks == 1 .. 2
================================================================================
