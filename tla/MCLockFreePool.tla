---------------------------- MODULE MCLockFreePool ----------------------------
(* Instance of LockFreePool for TLC. *)
EXTENDS LockFreePool
===============================================================================
