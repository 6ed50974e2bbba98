---------------------------- MODULE MCAuditQuota ----------------------------
(***************************************************************************)
(* AuditQuota for TLC: its purchases are interchangeable.                  *)
(***************************************************************************)
EXTENDS AuditQuota, TLC

IntentSymmetry == Permutations(Intents)

=============================================================================
