---------------------------- MODULE MCMasterBoot ----------------------------
(* Instances of MasterBoot for TLC. *)
EXTENDS MasterBoot
=============================================================================
