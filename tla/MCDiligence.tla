---------------------------- MODULE MCDiligence -----------------------------
(***************************************************************************)
(* Diligence with the constants of MCTreasury for TLC.                     *)
(***************************************************************************)
EXTENDS MCAuthority, Diligence

=============================================================================
