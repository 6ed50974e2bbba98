------------------------------ MODULE Purchase ------------------------------
(***************************************************************************)
(* The life of one purchase intent: the states of TransactionState, the    *)
(* transitions can_transition permits, and the classes of states the       *)
(* handlers of the treasury distinguish (crates/domain/src/lib.rs).        *)
(***************************************************************************)
EXTENDS Naturals

TransactionState ==
  { "draft", "proposed", "policy_validated", "approval_required", "approved",
    "funds_reserved", "executing", "provider_pending", "settled", "declined",
    "failed", "unknown", "cancelled", "refunded", "reconciliation_required" }

(* The match table of TransactionState::can_transition, grouped by source.  *)
can_transition ==
  LET From(s, targets) == {s} \X targets
  IN UNION
     { From("draft", {"proposed"}),
       From("proposed",
            {"policy_validated", "approval_required", "failed", "cancelled"}),
       From("policy_validated", {"funds_reserved"}),
       From("approval_required", {"approved", "cancelled"}),
       From("approved", {"funds_reserved"}),
       From("funds_reserved", {"executing"}),
       From("executing",
            {"provider_pending", "settled", "declined", "failed", "unknown"}),
       From("provider_pending",
            {"settled", "declined", "unknown", "reconciliation_required"}),
       From("unknown", {"reconciliation_required", "settled", "declined"}),
       From("reconciliation_required", {"settled", "declined"}),
       From("settled", {"refunded"}) }

(* An intent in one of these states counts against every budget and against *)
(* the available authority (usage, ledger_snapshot).                        *)
Reserving ==
  { "funds_reserved", "executing", "provider_pending", "unknown",
    "reconciliation_required" }

(* States whose outcome only the owner may decide (owner_reconcile).        *)
Uncertain == { "provider_pending", "unknown", "reconciliation_required" }

(* States prepare_intent_execution accepts: nothing has been submitted.     *)
Executable == { "policy_validated", "approved" }

(* States owner_configure_manual_provider accepts of every intent.          *)
Terminal == { "declined", "failed", "cancelled", "settled", "refunded" }

(* States the duplicate check of create_intent disregards.                  *)
Void == { "failed", "declined", "cancelled", "refunded" }

(* Not started yet: no funds were ever reserved for the purchase.           *)
Waiting == { "policy_validated", "approval_required", "approved" }

=============================================================================
