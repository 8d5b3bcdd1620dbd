------------------------------- MODULE MCHashMap -------------------------------
(* Instances of HashMap for TLC. *)
EXTENDS HashMap
================================================================================
