-------------------------- MODULE MCDataDirectory ---------------------------
(***************************************************************************)
(* DataDirectory for TLC.                                                  *)
(***************************************************************************)
EXTENDS DataDirectory

CONSTANTS i1, i2, c1, a1, d1

=============================================================================
