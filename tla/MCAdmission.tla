---------------------------- MODULE MCAdmission ----------------------------
(***************************************************************************)
(* Admission for TLC: the connections of admission.cfg are not symmetric,  *)
(* since one of them has the broker's own user.                            *)
(***************************************************************************)
EXTENDS Admission

=============================================================================
