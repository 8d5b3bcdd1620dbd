--------------------------------- MODULE MCShmem ---------------------------------
(* Instances of Shmem for TLC. *)
EXTENDS Shmem, TLC

ProcSymmetry == Permutations(Procs)
================================================================================
