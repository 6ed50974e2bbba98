------------------------------ MODULE MCPages -------------------------------
(***************************************************************************)
(* Pages for TLC.                                                          *)
(***************************************************************************)
EXTENDS Pages

CONSTANTS a1, a2

=============================================================================
