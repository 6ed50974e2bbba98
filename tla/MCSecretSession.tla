-------------------------- MODULE MCSecretSession ---------------------------
(***************************************************************************)
(* SecretSession for TLC.                                                  *)
(***************************************************************************)
EXTENDS SecretSession

CONSTANTS h1, h2, c1, c2

=============================================================================
