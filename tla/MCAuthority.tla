---------------------------- MODULE MCAuthority -----------------------------
(***************************************************************************)
(* TreasuryAuthority with the constants of MCTreasury for TLC.             *)
(***************************************************************************)
EXTENDS MCTreasury, TreasuryAuthority

=============================================================================
