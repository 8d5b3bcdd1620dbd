----------------------------- MODULE MCMpscQueue -----------------------------
(* Instances of MpscQueue and Benchmark for TLC. *)
EXTENDS Benchmark
MCDeltas == {-1}
==============================================================================
