----------------------------- MODULE AuditQuota -----------------------------
(***************************************************************************)
(* The quotas of the durable audit log (crates/domain/src/lib.rs).  Every  *)
(* call that changes the treasury appends entries, and fails when its      *)
(* entry does not fit: ordinary entries stop AUDIT_SAFETY_RESERVE before   *)
(* the ceiling, entries of the money workflow at the ceiling, and stop and *)
(* resume have a reserve of their own.  Before a purchase starts,          *)
(* require_money_workflow_audit_capacity asks for the slots that it and    *)
(* the purchases under way will still need.  Of each purchase only its     *)
(* state is kept, and of the treasury the provider and the stop: whether a *)
(* call passes its other checks is left open.                              *)
(***************************************************************************)
EXTENDS Purchase, FiniteSets

CONSTANTS
  Intents,                  \* ids of purchase intents
  MAX_AUDIT_ENTRIES,
  AUDIT_SAFETY_RESERVE,
  EMERGENCY_AUDIT_RESERVE

ASSUME QuotaAssumption ==
  /\ IsFiniteSet(Intents)
  /\ MAX_AUDIT_ENTRIES \in Nat /\ EMERGENCY_AUDIT_RESERVE \in Nat
  /\ AUDIT_SAFETY_RESERVE \in 0 .. (MAX_AUDIT_ENTRIES - 2)

VARIABLES
  intents,          \* id -> state, of the intents created so far
  non_emergency,    \* entries other than stop and resume
  emergency,        \* stop and resume entries
  emergency_stop,   \* TRUE while the owner's stop is on
  provider_mode,    \* "simulated" or "manual_prepaid_card"
  running           \* the intent inside the provider call, as a set

quotaVars ==
  << intents, non_emergency, emergency, emergency_stop, provider_mode, running >>

InState(S) == { i \in DOMAIN intents : intents[i] \in S }

(* audit of n entries in a row, each checked by audit_capacity_allows       *)
(* against the limit of its kind.                                           *)
audit(n, limit) ==
  /\ non_emergency + n <= limit
  /\ non_emergency' = non_emergency + n
  /\ UNCHANGED emergency

Ordinary == audit(1, MAX_AUDIT_ENTRIES - AUDIT_SAFETY_RESERVE)
MoneySafety(n) == audit(n, MAX_AUDIT_ENTRIES)

(* The slots open purchases still need: outcome and reconciliation.         *)
reserved == 2 * Cardinality(InState({"executing"})) + Cardinality(InState(Uncertain))

(* Slip: only the entry of the reservation itself is asked for.             *)
capacity_for_reservation == non_emergency + reserved + 1 <= MAX_AUDIT_ENTRIES

(* Slip: the slots of purchases already under way are not counted.          *)
capacity_ignoring_others == non_emergency + 4 <= MAX_AUDIT_ENTRIES

(* require_money_workflow_audit_capacity(4): reservation, handoff, outcome  *)
(* and reconciliation of the new purchase.                                  *)
money_workflow_capacity == non_emergency + reserved + 4 <= MAX_AUDIT_ENTRIES

SetState(i, s) == intents' = [intents EXCEPT ![i] = s]

-----------------------------------------------------------------------------
create_intent(i) ==
  /\ i \notin DOMAIN intents
  /\ Ordinary
  /\ \E s \in {"policy_validated", "approval_required", "failed"} :
       /\ emergency_stop => s = "failed"
       /\ intents' = [ j \in DOMAIN intents \cup {i} |-> IF j = i THEN s ELSE intents[j] ]
  /\ UNCHANGED << emergency_stop, provider_mode, running >>

(* owner_approve, owner_deny and cancel_intent.                             *)
decide_intent(i) ==
  /\ i \in InState({"approval_required"})
  /\ Ordinary
  /\ \E s \in {"approved", "cancelled"} : SetState(i, s)
  /\ UNCHANGED << emergency_stop, provider_mode, running >>

owner_configure_manual_provider ==
  /\ DOMAIN intents = InState(Terminal)
  /\ Ordinary
  /\ provider_mode' = "manual_prepaid_card"
  /\ UNCHANGED << intents, emergency_stop, running >>

(* Every other audited call: agents, sessions, policies, merchants,         *)
(* deposits, receiving instructions, the coalesced rate-limit entry.        *)
ordinary_call ==
  /\ Ordinary
  /\ UNCHANGED << intents, emergency_stop, provider_mode, running >>

(* prepare_intent_execution writes reserve_funds; what follows it is the    *)
(* caller's.                                                                *)
prepare_intent_execution(i, states) ==
  /\ i \in InState(states)
  /\ ~emergency_stop
  /\ money_workflow_capacity
  /\ SetState(i, "executing")
  /\ UNCHANGED << emergency_stop, provider_mode >>

execute_intent(i) ==
  /\ provider_mode = "simulated"
  /\ prepare_intent_execution(i, Executable)
  /\ MoneySafety(1)
  /\ running' = {i}

(* ... and controlled_checkout_handoff.                                     *)
execute_controlled_checkout(i) ==
  /\ provider_mode = "manual_prepaid_card"
  /\ prepare_intent_execution(i, Executable)
  /\ MoneySafety(2)
  /\ running' = {i}

(* ... and owner_checkout_handoff, which is an ordinary entry; when it does *)
(* not fit, the command ends without having saved anything.                 *)
owner_execute_approved_handoff(i) ==
  /\ provider_mode = "manual_prepaid_card"
  /\ prepare_intent_execution(i, {"approved"})
  /\ audit(2, MAX_AUDIT_ENTRIES - AUDIT_SAFETY_RESERVE)
  /\ running' = {i}

owner_begin_manual_handoff(i) ==
  /\ provider_mode = "manual_prepaid_card"
  /\ prepare_intent_execution(i, {"approved"})
  /\ MoneySafety(2)
  /\ UNCHANGED running

(* provider_outcome, or quarantine_provider_error when there is no answer;  *)
(* the outcome of a card checkout is always unknown.                        *)
apply_provider_outcome(i) ==
  /\ i \in running
  /\ MoneySafety(1)
  /\ \E s \in {"settled", "declined", "provider_pending", "unknown"} :
       /\ provider_mode = "manual_prepaid_card" => s = "unknown"
       /\ SetState(i, s)
  /\ running' = {}
  /\ UNCHANGED << emergency_stop, provider_mode >>

owner_complete_manual_handoff(i) ==
  /\ provider_mode = "manual_prepaid_card"
  /\ i \in InState({"executing"})
  /\ MoneySafety(1)
  /\ SetState(i, "unknown")
  /\ UNCHANGED << emergency_stop, provider_mode, running >>

owner_reconcile(i) ==
  /\ MoneySafety(1)
  /\ \/ /\ i \in InState(Uncertain)
        /\ \E s \in {"settled", "declined", "refunded"} : SetState(i, s)
     \/ i \in InState({"settled"}) /\ SetState(i, "refunded")
  /\ UNCHANGED << emergency_stop, provider_mode, running >>

owner_emergency_stop_on ==
  /\ ~emergency_stop
  /\ emergency_stop' = TRUE
  /\ emergency' = emergency + 1
  /\ UNCHANGED << intents, non_emergency, provider_mode, running >>

(* Slip: resuming is not limited by the reserve.                            *)
resume_without_reserve ==
  /\ emergency_stop
  /\ emergency' = emergency + 1
  /\ emergency <= EMERGENCY_AUDIT_RESERVE + 2   \* bound of the state space
  /\ emergency_stop' = FALSE
  /\ UNCHANGED << intents, non_emergency, provider_mode, running >>

owner_emergency_stop_off ==
  /\ emergency_stop
  /\ emergency < EMERGENCY_AUDIT_RESERVE
  /\ emergency_stop' = FALSE
  /\ emergency' = emergency + 1
  /\ UNCHANGED << intents, non_emergency, provider_mode, running >>

(* The process stops; the next one starts with                              *)
(* recover_interrupted_executions, one entry per executing purchase, and    *)
(* does not start at all when they do not fit.                              *)
restart ==
  /\ MoneySafety(Cardinality(InState({"executing"})))
  /\ intents' = [ i \in DOMAIN intents |->
                    IF intents[i] = "executing" THEN "unknown" ELSE intents[i] ]
  /\ running' = {}
  /\ UNCHANGED << emergency_stop, provider_mode >>

-----------------------------------------------------------------------------
(* bootstrap writes the first entry.                                        *)
QuotaInit ==
  /\ intents = << >>
  /\ non_emergency = 1 /\ emergency = 0
  /\ emergency_stop = FALSE
  /\ provider_mode = "simulated"
  /\ running = {}

(* Calls under the treasury mutex, which a running execution holds.         *)
Call ==
  /\ running = {}
  /\ \/ \E i \in Intents :
          \/ create_intent(i) \/ decide_intent(i)
          \/ execute_intent(i) \/ execute_controlled_checkout(i)
          \/ owner_execute_approved_handoff(i)
          \/ owner_begin_manual_handoff(i) \/ owner_complete_manual_handoff(i)
          \/ owner_reconcile(i)
     \/ owner_configure_manual_provider \/ ordinary_call
     \/ owner_emergency_stop_on \/ owner_emergency_stop_off

QuotaNext ==
  \/ Call
  \/ \E i \in Intents : apply_provider_outcome(i)
  \/ restart

QuotaSpec == QuotaInit /\ [][QuotaNext]_quotaVars

-----------------------------------------------------------------------------
(* Properties.                                                              *)

(* The log never grows beyond what validate_state accepts on the next       *)
(* start, however often the owner stops and resumes: the last stop that is  *)
(* always allowed is the one entry over the reserve.                        *)
LogCanBeLoaded ==
  /\ non_emergency <= MAX_AUDIT_ENTRIES
  /\ emergency <= EMERGENCY_AUDIT_RESERVE + 1

(* While a purchase is with its provider, the entry of its outcome and the  *)
(* entry of its reconciliation fit: apply_provider_outcome and              *)
(* quarantine_execution do not fail after the money may have moved.         *)
RunningCanBeRecorded ==
  running # {} => non_emergency + 2 <= MAX_AUDIT_ENTRIES

(* Beyond the limit of ordinary entries, no step takes a slot that an open  *)
(* purchase still needs, except the refund of a purchase already settled,   *)
(* for which no slot was kept.                                              *)
SlotsAreKept ==
  [][ /\ non_emergency' > MAX_AUDIT_ENTRIES - AUDIT_SAFETY_RESERVE
      /\ non_emergency + reserved <= MAX_AUDIT_ENTRIES
      /\ \A i \in InState({"settled"}) : intents'[i] = "settled"
      => (non_emergency + reserved <= MAX_AUDIT_ENTRIES)' ]_quotaVars

=============================================================================
