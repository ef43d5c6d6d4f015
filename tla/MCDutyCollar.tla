---------------------------- MODULE MCDutyCollar ----------------------------
(* Instances of DutyCollar for TLC. *)
EXTENDS DutyCollar
=============================================================================
