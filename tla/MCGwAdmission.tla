---------------------------- MODULE MCGwAdmission ----------------------------
(* Instances of GwAdmission for TLC. *)
EXTENDS GwAdmission
==============================================================================
