------------------------------ MODULE Treasury ------------------------------
(***************************************************************************)
(* The treasury of the broker as its handlers change it in memory          *)
(* (crates/domain/src/lib.rs): agents with their owner-armed sessions,     *)
(* purchase intents, the append-only ledger, the simulated provider and    *)
(* the manual prepaid card.  Every handler runs under the daemon's         *)
(* treasury mutex, so each is one action; a handler that fails leaves the  *)
(* state alone (handle_persisted restores its snapshot), so a failing call *)
(* is a step the model does not take.  The one handler with an outside     *)
(* call in the middle is a purchase execution: it is split at that call,   *)
(* and `running' holds the intent while the mutex stays locked.            *)
(***************************************************************************)
EXTENDS Purchase, MinorUnits, Integers, Sequences

CONSTANTS
  Agents,             \* ids the owner may give to agents (MAX_AGENTS)
  Intents,            \* ids of purchase intents (MAX_INTENTS)
  Policies,           \* the policies the owner may install
  DemoPolicy,         \* the policy bootstrap stores, bound to no agent
  Modes,              \* the autonomy modes the owner sets
  Requests,           \* the purchase requests agents may make
  Screening,          \* what the request rules of evaluate say, see below
  Capital,            \* the initial balance given to bootstrap
  DepositReferences,  \* external references of recorded deposits
  DepositAmounts,     \* amounts of recorded deposits
  ManualBalances      \* balances the owner may enter for the prepaid card

BasisPoints == 0 .. 10000

PolicyRecord ==
  [ max_per_transaction : Nat \ {0}, max_per_session : Nat \ {0},
    max_rolling_24h : Nat \ {0}, max_lifetime : Nat \ {0},
    absolute_exposure_ceiling : Nat \ {0}, max_treasury_size : Nat \ {0},
    reinvestment_ratio_bps : BasisPoints,
    max_transactions_per_minute : Nat \ {0} ]

(* Amounts are minor units of the treasury's one currency.                  *)
RequestRecord ==
  [ idempotency_key : STRING, merchant_domain : STRING, final_total : Nat \ {0} ]

(* Screening[p, r] stands for the part of Policy::evaluate that looks only  *)
(* at the policy and the request (merchant lists, redirects, categories,    *)
(* recurring, tips...); "invalid" is an error of request.validate.          *)
Screened == { "allowed", "requires_approval", "denied", "invalid" }

AutonomyMode == { "disabled", "observe", "approval_required", "bounded_autonomous" }

ASSUME ConstantsAssumption ==
  /\ IsFiniteSet(Agents) /\ IsFiniteSet(Intents)
  /\ \A p \in Policies \cup {DemoPolicy} :
        /\ p \in PolicyRecord
        /\ p.absolute_exposure_ceiling <= p.max_treasury_size
  /\ \A r \in Requests : r \in RequestRecord
  /\ Screening \in [Policies \X Requests -> Screened]
  /\ Modes \subseteq AutonomyMode
  /\ Capital \in Nat \ {0}
  /\ Capital <= DemoPolicy.max_treasury_size
  /\ DepositAmounts \subseteq Nat \ {0}
  /\ ManualBalances \subseteq Nat

VARIABLES
  agents,               \* agent id -> AgentRecord
  intents,              \* intent id -> IntentRecord
  ledger,               \* intent id -> how many ledger events of each kind
  settled_24h,          \* intents whose settlement event is within 24 hours
  operator_topups,      \* sum of the OperatorTopUp events
  processed_deposits,   \* external references already recorded
  emergency_stop,       \* TRUE while the owner's stop is on
  provider,             \* the simulated provider's own books
  provider_mode,        \* "simulated" or "manual_prepaid_card"
  manual_provider,      \* the manual card's balance snapshot
  running               \* the intent inside the provider call, as a set

vars == << agents, intents, ledger, settled_24h, operator_topups,
           processed_deposits, emergency_stop, provider, provider_mode,
           manual_provider, running >>

(* The clock is kept only as far as the handlers compare with it:           *)
(* capability_expired is expires_at <= now, session_live is                 *)
(* broker_session_expires_at > now.                                         *)
AgentRecord ==
  [ mode : AutonomyMode, policy : Policies, revoked : BOOLEAN,
    capability_expired : BOOLEAN, session_live : BOOLEAN ]

(* bound: the intent's broker_session_id is its agent's current one.        *)
(* age: created within the last minute, later but within the TTLs of the    *)
(* policy in force, or past one of them.                                    *)
IntentRecord ==
  [ agent : Agents, request : Requests, state : TransactionState,
    bound : BOOLEAN, age : {"minute", "fresh", "expired"}, receipt : BOOLEAN ]

LedgerCounts ==
  [ hold_reserved : Nat, hold_released : Nat, spending_settled : Nat, refund : Nat ]

ProviderRecord ==
  [ balance : Int, holds : SUBSET Intents, charges : SUBSET Intents,
    refunded : SUBSET Intents ]

(* unconfirmed is the part of the amount that comes from a balance the      *)
(* owner entered as an estimate (history, read by no action).               *)
ManualProviderRecord ==
  [ amount : Int, estimated : BOOLEAN, expired : BOOLEAN,
    outgoing_supported : BOOLEAN, unconfirmed : Nat ]

-----------------------------------------------------------------------------
(* What the handlers read.                                                  *)

final_total(i) == intents[i].request.final_total

InState(S) == { i \in DOMAIN intents : intents[i].state \in S }

OfAgent(a) == { i \in DOMAIN intents : intents[i].agent = a }

Totals == [ i \in DOMAIN intents |-> final_total(i) ]

(* The ledger events of one kind, per intent, in minor units.               *)
SettledAmounts ==
  [ i \in DOMAIN intents |-> ledger[i].spending_settled * final_total(i) ]
RefundAmounts ==
  [ i \in DOMAIN intents |-> ledger[i].refund * final_total(i) ]

reserved_amount == Total(InState(Reserving), Totals)
settled_spending == Total(DOMAIN intents, SettledAmounts)
refunds == Total(DOMAIN intents, RefundAmounts)

(* ledger_snapshot; a negative result is an error of the caller.            *)
available_authority ==
  (Capital + operator_topups + refunds) - (settled_spending + reserved_amount)

(* usage: settled spending plus reservations, over the agent's life, over   *)
(* the last 24 hours, and over its current session.                         *)
lifetime_amount(a) ==
  Total(OfAgent(a), SettledAmounts) + Total(OfAgent(a) \cap InState(Reserving), Totals)
rolling_24h_amount(a) ==
  Total(OfAgent(a) \cap settled_24h, SettledAmounts)
    + Total(OfAgent(a) \cap InState(Reserving), Totals)
session_amount(a) ==
  LET bound == { i \in OfAgent(a) : intents[i].bound }
  IN Total(bound, SettledAmounts) + Total(bound \cap InState(Reserving), Totals)
recent_transaction_count(a) ==
  Cardinality({ i \in OfAgent(a) : intents[i].age = "minute" })

authenticated(a) ==
  a \in DOMAIN agents /\ ~agents[a].revoked /\ ~agents[a].capability_expired

held == Total(provider.holds, Totals)

(* Slip: the card's balance without what is already reserved on it.         *)
balance_ignoring_reservations ==
  IF provider_mode = "simulated" THEN provider.balance - held
  ELSE manual_provider.amount

(* provider_available_balance, and whether it returns a balance at all.     *)
BalanceUsable ==
  provider_mode = "manual_prepaid_card" =>
    ~manual_provider.expired /\ ~manual_provider.estimated
      /\ manual_provider.amount >= reserved_amount
provider_available_balance ==
  IF provider_mode = "simulated" THEN provider.balance - held
  ELSE manual_provider.amount - reserved_amount
configured_balance ==
  IF provider_mode = "simulated" THEN provider.balance ELSE manual_provider.amount

-----------------------------------------------------------------------------
(* Slip: the session limit compared before the purchase is added.           *)
evaluate_before_purchase(a, r) ==
  LET p == agents[a].policy
      total == r.final_total
      refused ==
        \/ emergency_stop
        \/ agents[a].mode \in {"observe", "disabled"}
        \/ total > p.max_per_transaction
        \/ session_amount(a) > p.max_per_session
        \/ rolling_24h_amount(a) + total > p.max_rolling_24h
        \/ lifetime_amount(a) + total > p.max_lifetime
        \/ recent_transaction_count(a) >= p.max_transactions_per_minute
        \/ Screening[p, r] = "denied"
  IN CASE refused -> "denied"
       [] ~refused /\ (Screening[p, r] = "requires_approval"
                         \/ agents[a].mode = "approval_required") -> "requires_approval"
       [] OTHER -> "allowed"

(* Policy::evaluate: the limits, the stop and the mode, then what needs the *)
(* owner.                                                                   *)
evaluate(a, r) ==
  LET p == agents[a].policy
      total == r.final_total
      refused ==
        \/ emergency_stop
        \/ agents[a].mode \in {"observe", "disabled"}
        \/ total > p.max_per_transaction
        \/ session_amount(a) + total > p.max_per_session
        \/ rolling_24h_amount(a) + total > p.max_rolling_24h
        \/ lifetime_amount(a) + total > p.max_lifetime
        \/ recent_transaction_count(a) >= p.max_transactions_per_minute
        \/ Screening[p, r] = "denied"
  IN CASE refused -> "denied"
       [] ~refused /\ (Screening[p, r] = "requires_approval"
                         \/ agents[a].mode = "approval_required") -> "requires_approval"
       [] OTHER -> "allowed"

(* Slip: the provider's balance is checked, the ledger's authority is not.  *)
enforce_balance_only(a, r, decision) ==
  IF \/ provider_available_balance < r.final_total
     \/ configured_balance > agents[a].policy.max_treasury_size
     \/ lifetime_amount(a) + r.final_total
          > agents[a].policy.absolute_exposure_ceiling
  THEN "denied" ELSE decision

(* enforce_authority: no decision survives a purchase the ledger or the     *)
(* provider cannot cover.                                                   *)
enforce_authority(a, r, decision) ==
  IF \/ available_authority < r.final_total
     \/ provider_available_balance < r.final_total
     \/ configured_balance > agents[a].policy.max_treasury_size
     \/ lifetime_amount(a) + r.final_total
          > agents[a].policy.absolute_exposure_ceiling
  THEN "denied" ELSE decision

(* A decision on r can be taken at all: neither call returned an error.     *)
Decidable(a, r) ==
  /\ Screening[agents[a].policy, r] # "invalid"
  /\ available_authority >= 0
  /\ BalanceUsable

decide(a, r) == enforce_authority(a, r, evaluate(a, r))

(* transition: every step of an intent's state is one of the table.         *)
transition(i, path) ==
  LET states == <<intents[i].state>> \o path
  IN \A n \in 1 .. Len(path) : <<states[n], states[n + 1]>> \in can_transition

Put(i, record) ==
  [ j \in DOMAIN intents \cup {i} |-> IF j = i THEN record ELSE intents[j] ]

SetState(i, s) == intents' = [intents EXCEPT ![i].state = s]

(* A fresh broker_session_id: no existing intent of the agent carries it.   *)
Unbind(S) ==
  [ i \in DOMAIN intents |->
      IF intents[i].agent \in S THEN [intents[i] EXCEPT !.bound = FALSE]
      ELSE intents[i] ]

purse == << ledger, settled_24h, operator_topups, processed_deposits >>
rails == << provider, provider_mode, manual_provider >>

-----------------------------------------------------------------------------
(* The agent's calls.                                                       *)

(* Another live purchase of the agent with the same total and merchant.     *)
(* Whether one older than a minute was updated within the last 15 minutes   *)
(* is left open.                                                            *)
Twins(a, r) ==
  { j \in OfAgent(a) \ InState(Void) :
      /\ final_total(j) = r.final_total
      /\ intents[j].request.merchant_domain = r.merchant_domain }

create_intent(a, i, r) ==
  /\ authenticated(a)
  /\ i \notin DOMAIN intents
  /\ \A j \in OfAgent(a) :
        intents[j].request.idempotency_key # r.idempotency_key
  /\ emergency_stop \/ agents[a].session_live
  /\ recent_transaction_count(a) < agents[a].policy.max_transactions_per_minute
  /\ Decidable(a, r)
  /\ \E potential_duplicate \in BOOLEAN :
       /\ potential_duplicate => Twins(a, r) # {}
       /\ ~potential_duplicate => \A j \in Twins(a, r) : intents[j].age # "minute"
       /\ LET decision == decide(a, r)
              owner_needed ==
                \/ decision = "requires_approval"
                \/ potential_duplicate
                \/ /\ provider_mode = "manual_prepaid_card"
                   /\ ~manual_provider.outgoing_supported
              state == IF decision = "denied" THEN "failed"
                       ELSE IF owner_needed THEN "approval_required"
                       ELSE "policy_validated"
          IN intents' = Put(i, [ agent |-> a, request |-> r, state |-> state,
                                 bound |-> TRUE, age |-> "minute",
                                 receipt |-> FALSE ])
  /\ UNCHANGED << agents, purse, emergency_stop, rails, running >>

cancel_intent(a, i) ==
  /\ authenticated(a)
  /\ i \in OfAgent(a)
  /\ intents[i].state \in {"proposed", "approval_required", "policy_validated"}
  /\ transition(i, <<"cancelled">>)
  /\ SetState(i, "cancelled")
  /\ UNCHANGED << agents, purse, emergency_stop, rails, running >>

(* prepare_intent_execution for the intent's own agent: every check of      *)
(* create_intent again, then the reservation.                               *)
prepare_intent_execution(i) ==
  LET a == intents[i].agent
      r == intents[i].request
  IN /\ intents[i].state \in Executable
     /\ agents[a].session_live /\ intents[i].bound
     /\ intents[i].age # "expired"
     /\ Decidable(a, r)
     /\ \/ decide(a, r) = "allowed"
        \/ intents[i].state = "approved" /\ decide(a, r) = "requires_approval"
     /\ transition(i, <<"funds_reserved", "executing">>)
     /\ SetState(i, "executing")
     /\ ledger' = [ledger EXCEPT ![i].hold_reserved = @ + 1]
     /\ UNCHANGED << agents, settled_24h, operator_topups, processed_deposits,
                     emergency_stop, rails >>

(* ExecutePurchaseIntent, up to the provider call.                          *)
execute_intent(a, i) ==
  /\ authenticated(a) /\ i \in OfAgent(a)
  /\ provider_mode = "simulated"
  /\ prepare_intent_execution(i)
  /\ running' = {i}

(* execute_controlled_checkout_persisted, up to submit_once.                *)
execute_controlled_checkout(a, i) ==
  /\ authenticated(a) /\ i \in OfAgent(a)
  /\ provider_mode = "manual_prepaid_card" /\ manual_provider.outgoing_supported
  /\ prepare_intent_execution(i)
  /\ running' = {i}

(* owner_execute_approved_handoff_persisted, up to submit_once.             *)
owner_execute_approved_handoff(i) ==
  /\ i \in InState({"approved"})
  /\ provider_mode = "manual_prepaid_card"
  /\ prepare_intent_execution(i)
  /\ running' = {i}

-----------------------------------------------------------------------------
(* The provider's answer: SimulatedProvider::authorize, or a checkout whose *)
(* outcome is always unknown, and apply_provider_outcome.                   *)

(* record_settled: each event at most once per intent.                      *)
record_settled(i) ==
  /\ ledger' = [ledger EXCEPT
       ![i].hold_released = IF @ = 0 THEN 1 ELSE @,
       ![i].spending_settled = IF @ = 0 THEN 1 ELSE @ ]
  /\ settled_24h' =
       IF ledger[i].spending_settled = 0 THEN settled_24h \cup {i} ELSE settled_24h

(* Settled with the receipt issue_receipt makes.                            *)
SetSettled(i) ==
  intents' = [intents EXCEPT ![i].state = "settled", ![i].receipt = TRUE]

outcome_approved(i) ==
  /\ transition(i, <<"settled">>)
  /\ SetSettled(i)
  /\ record_settled(i)

(* Slip: a declined purchase's hold stays in the ledger.                    *)
decline_keeps_hold(i) ==
  /\ transition(i, <<"declined">>)
  /\ SetState(i, "declined")
  /\ UNCHANGED << ledger, settled_24h >>

outcome_declined(i) ==
  /\ transition(i, <<"declined">>)
  /\ SetState(i, "declined")
  /\ ledger' = [ledger EXCEPT ![i].hold_released = @ + 1]
  /\ UNCHANGED settled_24h

outcome_uncertain(i, s) ==
  /\ transition(i, <<s>>)
  /\ SetState(i, s)
  /\ UNCHANGED << ledger, settled_24h >>

(* SimulatedProvider::authorize, one disjunct per answer; which scenario    *)
(* the request carries is left open.                                        *)
authorize(i) ==
  LET total == final_total(i)
      covered == provider.balance - held >= total
      charge == provider' = [provider EXCEPT !.balance = @ - total,
                                             !.charges = @ \cup {i}]
  IN \/ i \in provider.charges /\ outcome_approved(i) /\ UNCHANGED provider
     \/ /\ i \notin provider.charges
        /\ \/ outcome_declined(i) /\ UNCHANGED provider
           \/ outcome_uncertain(i, "unknown") /\ UNCHANGED provider
           \/ /\ covered
              /\ provider' = [provider EXCEPT !.holds = @ \cup {i}]
              /\ outcome_uncertain(i, "provider_pending")
           \/ covered /\ charge /\ outcome_approved(i)
           \/ covered /\ charge /\ outcome_uncertain(i, "unknown")

complete_intent_execution(i) ==
  /\ i \in running
  /\ intents[i].state = "executing"
  /\ \/ provider_mode = "simulated" /\ authorize(i)
     \/ /\ provider_mode = "manual_prepaid_card"
        /\ outcome_uncertain(i, "unknown") /\ UNCHANGED provider
  /\ running' = {}
  /\ UNCHANGED << agents, operator_topups, processed_deposits, emergency_stop,
                  provider_mode, manual_provider >>

-----------------------------------------------------------------------------
(* The owner's calls on agents.                                             *)

WithinExposure(p) ==
  available_authority >= 0 /\ available_authority <= p.absolute_exposure_ceiling

owner_create_agent(a, p, mode) ==
  /\ a \notin DOMAIN agents
  /\ WithinExposure(p)
  /\ agents' = [ b \in DOMAIN agents \cup {a} |->
                   IF b = a
                   THEN [ mode |-> mode, policy |-> p, revoked |-> FALSE,
                          capability_expired |-> FALSE,
                          session_live |-> ~emergency_stop ]
                   ELSE agents[b] ]
  /\ UNCHANGED << intents, purse, emergency_stop, rails, running >>

(* Slip: the session may outlive the capability.                            *)
arm_past_capability(a) ==
  /\ ~emergency_stop
  /\ a \in DOMAIN agents
  /\ agents' = [agents EXCEPT ![a].session_live = TRUE]
  /\ intents' = Unbind({a})
  /\ UNCHANGED << purse, emergency_stop, rails, running >>

owner_arm_agent_session(a) ==
  /\ ~emergency_stop
  /\ a \in DOMAIN agents
  /\ agents' = [agents EXCEPT ![a].session_live = ~agents[a].capability_expired]
  /\ intents' = Unbind({a})
  /\ UNCHANGED << purse, emergency_stop, rails, running >>

(* The new policy may have other TTLs: any set of the waiting intents older *)
(* than a minute may be past them.                                          *)
owner_update_policy(a, p) ==
  /\ a \in DOMAIN agents
  /\ WithinExposure(p)
  /\ agents' = [agents EXCEPT ![a].policy = p]
  /\ LET aged == { i \in OfAgent(a) \cap InState(Waiting) : intents[i].age # "minute" }
     IN \E late \in SUBSET aged :
          intents' = [ i \in DOMAIN intents |->
                         IF i \notin aged THEN intents[i]
                         ELSE [intents[i] EXCEPT
                                 !.age = IF i \in late THEN "expired" ELSE "fresh"] ]
  /\ UNCHANGED << purse, emergency_stop, rails, running >>

owner_set_agent_mode(a, mode) ==
  /\ a \in DOMAIN agents
  /\ agents' = [agents EXCEPT ![a].mode = mode]
  /\ UNCHANGED << intents, purse, emergency_stop, rails, running >>

owner_revoke_agent(a) ==
  /\ a \in DOMAIN agents
  /\ agents' = [agents EXCEPT ![a].revoked = TRUE, ![a].mode = "disabled"]
  /\ UNCHANGED << intents, purse, emergency_stop, rails, running >>

owner_rotate_agent_capability(a) ==
  /\ a \in DOMAIN agents
  /\ agents' = [agents EXCEPT ![a].capability_expired = FALSE,
                              ![a].session_live = ~emergency_stop,
                              ![a].revoked = FALSE,
                              ![a].mode = "approval_required"]
  /\ intents' = Unbind({a})
  /\ UNCHANGED << purse, emergency_stop, rails, running >>

(* Slip: the stop raises its flag and leaves the sessions as they are.      *)
stop_keeps_sessions ==
  /\ ~emergency_stop
  /\ emergency_stop' = TRUE
  /\ UNCHANGED << agents, intents, purse, rails, running >>

(* owner_emergency_stop(true): every session is replaced by a dead one.     *)
owner_emergency_stop_on ==
  /\ ~emergency_stop
  /\ emergency_stop' = TRUE
  /\ agents' = [ a \in DOMAIN agents |-> [agents[a] EXCEPT !.session_live = FALSE] ]
  /\ intents' = Unbind(DOMAIN agents)
  /\ UNCHANGED << purse, rails, running >>

owner_emergency_stop_off ==
  /\ emergency_stop
  /\ emergency_stop' = FALSE
  /\ UNCHANGED << agents, intents, purse, rails, running >>

-----------------------------------------------------------------------------
(* The owner's calls on purchases.                                          *)

owner_approve(i) ==
  /\ i \in InState({"approval_required"})
  /\ transition(i, <<"approved">>)
  /\ SetState(i, "approved")
  /\ UNCHANGED << agents, purse, emergency_stop, rails, running >>

owner_deny(i) ==
  /\ i \in InState({"approval_required"})
  /\ transition(i, <<"cancelled">>)
  /\ SetState(i, "cancelled")
  /\ UNCHANGED << agents, purse, emergency_stop, rails, running >>

owner_begin_manual_handoff(i) ==
  /\ provider_mode = "manual_prepaid_card"
  /\ i \in InState({"approved"})
  /\ prepare_intent_execution(i)
  /\ UNCHANGED running

owner_complete_manual_handoff(i) ==
  /\ provider_mode = "manual_prepaid_card"
  /\ i \in InState({"executing"})
  /\ outcome_uncertain(i, "unknown")
  /\ UNCHANGED << agents, operator_topups, processed_deposits, emergency_stop,
                  rails, running >>

(* owner_reconcile_inner takes an uncertain intent through                  *)
(* reconciliation_required first.                                           *)
Reconciled(i, path) ==
  IF intents[i].state \in {"unknown", "provider_pending"}
  THEN <<"reconciliation_required">> \o path ELSE path

(* Slip: the free balance is asked for even when the charge is known.       *)
settle_needs_free_balance(i) ==
  /\ i \in InState(Uncertain)
  /\ transition(i, Reconciled(i, <<"settled">>))
  /\ \/ /\ provider_mode = "simulated"
        /\ provider.balance - held >= final_total(i)
     \/ /\ provider_mode = "manual_prepaid_card"
        /\ manual_provider.amount >= final_total(i)

(* What outcome settled asks before it changes anything: a hold, a charge   *)
(* or the free balance of the simulated provider, or the card's balance.    *)
AcceptsSettled(i) ==
  /\ i \in InState(Uncertain)
  /\ transition(i, Reconciled(i, <<"settled">>))
  /\ \/ /\ provider_mode = "simulated"
        /\ \/ i \in provider.holds
           \/ i \in provider.charges
           \/ provider.balance - held >= final_total(i)
     \/ /\ provider_mode = "manual_prepaid_card"
        /\ manual_provider.amount >= final_total(i)

(* The simulated provider settles its hold, confirms a charge it knows, or  *)
(* books one now; the card's balance is charged now.                        *)
owner_reconcile_settled(i) ==
  LET total == final_total(i)
  IN /\ AcceptsSettled(i)
     /\ \/ /\ provider_mode = "simulated"
           /\ provider' =
                IF i \in provider.charges \ provider.holds THEN provider
                ELSE [provider EXCEPT !.balance = @ - total,
                                      !.holds = @ \ {i},
                                      !.charges = @ \cup {i}]
           /\ UNCHANGED manual_provider
        \/ /\ provider_mode = "manual_prepaid_card"
           /\ manual_provider' = [manual_provider EXCEPT !.amount = @ - total]
           /\ UNCHANGED provider
     /\ SetSettled(i)
     /\ record_settled(i)
     /\ UNCHANGED << agents, operator_topups, processed_deposits, emergency_stop,
                     provider_mode, running >>

(* Slip: a charge the provider knows is declined all the same.              *)
decline_known_charge(i) ==
  /\ i \in InState(Uncertain)
  /\ transition(i, Reconciled(i, <<"declined">>))
  /\ \/ /\ provider_mode = "simulated"
        /\ provider' = [provider EXCEPT !.holds = @ \ {i}]
     \/ provider_mode = "manual_prepaid_card" /\ UNCHANGED provider
  /\ SetState(i, "declined")
  /\ ledger' = [ledger EXCEPT ![i].hold_released = @ + 1]
  /\ UNCHANGED << agents, settled_24h, operator_topups, processed_deposits,
                  emergency_stop, provider_mode, manual_provider, running >>

AcceptsDeclined(i) ==
  /\ i \in InState(Uncertain)
  /\ transition(i, Reconciled(i, <<"declined">>))
  /\ provider_mode = "simulated" => i \notin provider.charges

owner_reconcile_declined(i) ==
  /\ AcceptsDeclined(i)
  /\ \/ /\ provider_mode = "simulated"
        /\ provider' = [provider EXCEPT !.holds = @ \ {i}]
     \/ provider_mode = "manual_prepaid_card" /\ UNCHANGED provider
  /\ SetState(i, "declined")
  /\ ledger' = [ledger EXCEPT ![i].hold_released = @ + 1]
  /\ UNCHANGED << agents, settled_24h, operator_topups, processed_deposits,
                  emergency_stop, provider_mode, manual_provider, running >>

(* Slip: the ledger books a refund the provider never credited.             *)
refund_without_credit(i) ==
  /\ i \in InState({"settled"})
  /\ transition(i, <<"refunded">>)
  /\ SetState(i, "refunded")
  /\ ledger' = [ledger EXCEPT ![i].refund = @ + 1]
  /\ UNCHANGED << agents, settled_24h, operator_topups, processed_deposits,
                  emergency_stop, rails, running >>

(* Outcome refunded, of a settled purchase or straight from an uncertain    *)
(* one, which is settled first.                                             *)
owner_reconcile_refunded(i) ==
  LET total == final_total(i)
      was_settled == intents[i].state = "settled"
      released == ledger[i].hold_released = 0
      spent == ledger[i].spending_settled = 0
  IN /\ i \in InState(Uncertain \cup {"settled"})
     /\ transition(i, IF was_settled THEN <<"refunded">>
                      ELSE Reconciled(i, <<"settled", "refunded">>))
     /\ \/ /\ provider_mode = "simulated"
           /\ i \in provider.charges \ provider.refunded
           /\ provider' = [provider EXCEPT !.balance = @ + total,
                                           !.refunded = @ \cup {i}]
           /\ UNCHANGED manual_provider
        \/ /\ provider_mode = "manual_prepaid_card"
           /\ manual_provider' =
                [manual_provider EXCEPT !.amount = IF was_settled THEN @ + total ELSE @]
           /\ UNCHANGED provider
     /\ intents' = [intents EXCEPT ![i].state = "refunded", ![i].receipt = TRUE]
     /\ ledger' = [ledger EXCEPT
          ![i].hold_released = IF ~was_settled /\ released THEN 1 ELSE @,
          ![i].spending_settled = IF ~was_settled /\ spent THEN 1 ELSE @,
          ![i].refund = @ + 1 ]
     /\ settled_24h' = IF ~was_settled /\ spent THEN settled_24h \cup {i} ELSE settled_24h
     /\ UNCHANGED << agents, operator_topups, processed_deposits, emergency_stop,
                     provider_mode, running >>

-----------------------------------------------------------------------------
(* The owner's calls on money.                                              *)

reported_balance ==
  IF provider_mode = "simulated" THEN provider.balance - held
  ELSE manual_provider.amount

scaled_basis_points(amount, bps) == (amount * bps) \div 10000

(* A verified deposit raises the provider's balance and, by the policy's    *)
(* reinvestment ratio, the authority; an unverified one changes neither.    *)
owner_record_deposit(a, reference, amount) ==
  LET p == agents[a].policy
      reinvested == scaled_basis_points(amount, p.reinvestment_ratio_bps)
  IN /\ a \in DOMAIN agents
     /\ reference \notin processed_deposits
     /\ reported_balance + amount <= p.max_treasury_size
     /\ available_authority >= 0
     /\ available_authority + reinvested <= p.absolute_exposure_ceiling
     /\ \/ /\ provider_mode = "simulated"
           /\ provider' = [provider EXCEPT !.balance = @ + amount]
           /\ UNCHANGED manual_provider
        \/ /\ provider_mode = "manual_prepaid_card"
           /\ manual_provider' = [manual_provider EXCEPT !.amount = @ + amount,
                                                         !.estimated = FALSE]
           /\ UNCHANGED provider
     /\ operator_topups' = operator_topups + reinvested
     /\ processed_deposits' = processed_deposits \cup {reference}
     /\ UNCHANGED << agents, intents, ledger, settled_24h, emergency_stop,
                     provider_mode, running >>

owner_record_unverified_deposit(reference) ==
  /\ reference \notin processed_deposits
  /\ processed_deposits' = processed_deposits \cup {reference}
  /\ UNCHANGED << agents, intents, ledger, settled_24h, operator_topups,
                  emergency_stop, rails, running >>

(* The policies the state holds: the bootstrap policy and one per agent.    *)
StoredPolicies == {DemoPolicy} \cup { agents[a].policy : a \in DOMAIN agents }

(* Slip: only purchases with reserved funds block a change of provider.     *)
configure_unless_reserving(balance, estimated, autonomous_checkout) ==
  /\ InState(Reserving) = {}
  /\ \A p \in StoredPolicies : balance <= p.max_treasury_size
  /\ provider_mode' = "manual_prepaid_card"
  /\ manual_provider' =
       [ amount |-> balance, estimated |-> estimated, expired |-> FALSE,
         outgoing_supported |-> autonomous_checkout,
         unconfirmed |-> IF estimated THEN balance ELSE 0 ]
  /\ UNCHANGED << agents, intents, purse, emergency_stop, provider, running >>

owner_configure_manual_provider(balance, estimated, autonomous_checkout) ==
  /\ DOMAIN intents = InState(Terminal)
  /\ \A p \in StoredPolicies : balance <= p.max_treasury_size
  /\ provider_mode' = "manual_prepaid_card"
  /\ manual_provider' =
       [ amount |-> balance, estimated |-> estimated, expired |-> FALSE,
         outgoing_supported |-> autonomous_checkout,
         unconfirmed |-> IF estimated THEN balance ELSE 0 ]
  /\ UNCHANGED << agents, intents, purse, emergency_stop, provider, running >>

-----------------------------------------------------------------------------
(* The clock.  Each step lets one comparison with now() change its answer.  *)

IntentAges(i) ==
  /\ i \in DOMAIN intents
  /\ \/ intents[i].age = "minute"
        /\ intents' = [intents EXCEPT ![i].age = "fresh"]
     \/ intents[i].age = "fresh" /\ intents[i].state \in Waiting
        /\ intents' = [intents EXCEPT ![i].age = "expired"]
  /\ UNCHANGED << agents, purse, emergency_stop, rails, running >>

SessionEnds(a) ==
  /\ a \in DOMAIN agents /\ agents[a].session_live
  /\ agents' = [agents EXCEPT ![a].session_live = FALSE]
  /\ UNCHANGED << intents, purse, emergency_stop, rails, running >>

(* A session never outlives its capability (validate_state).                *)
CapabilityExpires(a) ==
  /\ a \in DOMAIN agents /\ ~agents[a].capability_expired
  /\ agents' = [agents EXCEPT ![a].capability_expired = TRUE,
                              ![a].session_live = FALSE]
  /\ UNCHANGED << intents, purse, emergency_stop, rails, running >>

SettlementLeavesWindow(i) ==
  /\ i \in settled_24h /\ intents[i].age # "minute"
  /\ settled_24h' = settled_24h \ {i}
  /\ UNCHANGED << agents, intents, ledger, operator_topups, processed_deposits,
                  emergency_stop, rails, running >>

BalanceExpires ==
  /\ provider_mode = "manual_prepaid_card" /\ ~manual_provider.expired
  /\ manual_provider' = [manual_provider EXCEPT !.expired = TRUE]
  /\ UNCHANGED << agents, intents, purse, emergency_stop, provider, provider_mode,
                  running >>

-----------------------------------------------------------------------------
Init ==
  /\ agents = << >> /\ intents = << >>
  /\ ledger = [ i \in Intents |-> [ hold_reserved |-> 0, hold_released |-> 0,
                                    spending_settled |-> 0, refund |-> 0 ] ]
  /\ settled_24h = {} /\ operator_topups = 0 /\ processed_deposits = {}
  /\ emergency_stop = FALSE
  /\ provider = [ balance |-> Capital, holds |-> {}, charges |-> {}, refunded |-> {} ]
  /\ provider_mode = "simulated"
  /\ manual_provider = [ amount |-> 0, estimated |-> FALSE, expired |-> FALSE,
                         outgoing_supported |-> FALSE, unconfirmed |-> 0 ]
  /\ running = {}

(* Calls answered under the treasury mutex, but for executions.             *)
AgentCall(a) ==
  \/ \E i \in Intents, r \in Requests : create_intent(a, i, r)
  \/ \E i \in Intents : cancel_intent(a, i)

OwnerAgentCall(a) ==
  \/ \E p \in Policies, mode \in Modes : owner_create_agent(a, p, mode)
  \/ owner_arm_agent_session(a)
  \/ \E p \in Policies : owner_update_policy(a, p)
  \/ \E mode \in Modes : owner_set_agent_mode(a, mode)
  \/ owner_revoke_agent(a)
  \/ owner_rotate_agent_capability(a)
  \/ \E reference \in DepositReferences, amount \in DepositAmounts :
       owner_record_deposit(a, reference, amount)

OwnerIntentCall(i) ==
  \/ owner_approve(i)
  \/ owner_deny(i)
  \/ owner_begin_manual_handoff(i)
  \/ owner_complete_manual_handoff(i)
  \/ owner_reconcile_settled(i)
  \/ owner_reconcile_declined(i)
  \/ owner_reconcile_refunded(i)

OwnerTreasuryCall ==
  \/ owner_emergency_stop_on
  \/ owner_emergency_stop_off
  \/ \E reference \in DepositReferences : owner_record_unverified_deposit(reference)
  \/ \E balance \in ManualBalances, estimated, autonomous \in BOOLEAN :
       owner_configure_manual_provider(balance, estimated, autonomous)

Handler ==
  \/ \E a \in Agents : AgentCall(a) \/ OwnerAgentCall(a)
  \/ \E i \in Intents : OwnerIntentCall(i)
  \/ OwnerTreasuryCall

(* Executions the daemon starts for an agent.                               *)
Execution ==
  \E a \in Agents, i \in Intents :
    execute_intent(a, i) \/ execute_controlled_checkout(a, i)

Call ==
  /\ running = {}
  /\ Handler \/ Execution \/ \E i \in Intents : owner_execute_approved_handoff(i)

Tick ==
  \/ \E i \in Intents : IntentAges(i) \/ SettlementLeavesWindow(i)
  \/ \E a \in Agents : SessionEnds(a) \/ CapabilityExpires(a)
  \/ BalanceExpires

Next == Call \/ Tick \/ \E i \in Intents : complete_intent_execution(i)

Spec == Init /\ [][Next]_vars

-----------------------------------------------------------------------------
(* Properties.                                                              *)

(* Every variable holds what its comment says, and a live session belongs   *)
(* to an agent whose capability is live (validate_state).                   *)
TypeOK ==
  /\ DOMAIN agents \subseteq Agents
  /\ agents = [ a \in DOMAIN agents |-> agents[a] ]
  /\ \A a \in DOMAIN agents : agents[a] \in AgentRecord
  /\ DOMAIN intents \subseteq Intents
  /\ intents = [ i \in DOMAIN intents |-> intents[i] ]
  /\ \A i \in DOMAIN intents :
        intents[i] \in IntentRecord /\ intents[i].agent \in DOMAIN agents
  /\ ledger \in [Intents -> LedgerCounts]
  /\ settled_24h \subseteq DOMAIN intents
  /\ operator_topups \in Nat
  /\ processed_deposits \subseteq DepositReferences
  /\ emergency_stop \in BOOLEAN
  /\ provider \in ProviderRecord
  /\ provider_mode \in {"simulated", "manual_prepaid_card"}
  /\ manual_provider \in ManualProviderRecord
  /\ running \subseteq DOMAIN intents
  /\ \A a \in DOMAIN agents : agents[a].session_live => ~agents[a].capability_expired

(* The authority is never overdrawn: ledger_snapshot never reports its      *)
(* "would become negative" conflict, in whatever order purchases are        *)
(* reserved, answered, reconciled and refunded and policies change.         *)
AuthorityNeverNegative == available_authority >= 0

(* What agents may still be authorised to spend is backed by money the      *)
(* simulated provider still has free, even while a charge exists that the   *)
(* broker never saw confirmed.                                              *)
AuthorityIsBacked ==
  provider_mode = "simulated" => available_authority <= provider.balance - held

(* On the manual card every reservation can be settled: the balance covers  *)
(* all of them together, so owner_reconcile never has to refuse evidence.   *)
ReservationsCovered ==
  provider_mode = "manual_prepaid_card" => manual_provider.amount >= reserved_amount

(* The ledger, the provider's books and the receipts tell the same story as *)
(* the state of each purchase: one hold per started purchase, released once *)
(* when it ends, one settlement with a receipt, one refund.                 *)
LedgerTellsTheState ==
  \A i \in DOMAIN intents :
    LET s == intents[i].state
        events == ledger[i]
        Count(holds) == IF holds THEN 1 ELSE 0
    IN /\ events.hold_reserved
            = Count(s \in Reserving \cup {"settled", "declined", "refunded"})
       /\ events.hold_released = Count(s \in {"settled", "declined", "refunded"})
       /\ events.spending_settled = Count(s \in {"settled", "refunded"})
       /\ events.refund = Count(s = "refunded")
       /\ intents[i].receipt <=> s \in {"settled", "refunded"}
       /\ i \in provider.charges => s \in {"unknown", "settled", "refunded"}
       /\ i \in provider.holds <=> s = "provider_pending"

GrowsWithin(before, after, limit) == after > before => after <= limit

(* An agent's use of each budget grows only within the limit its policy     *)
(* sets at that moment; answers, reconciliations, refunds, new sessions and *)
(* the owner's other calls never raise it.                                  *)
UsageGrowsWithinLimits ==
  [][ \A a \in DOMAIN agents :
        LET p == agents'[a].policy
        IN /\ GrowsWithin(session_amount(a), session_amount(a)', p.max_per_session)
           /\ GrowsWithin(rolling_24h_amount(a), rolling_24h_amount(a)',
                          p.max_rolling_24h)
           /\ GrowsWithin(lifetime_amount(a), lifetime_amount(a)', p.max_lifetime)
    ]_vars

(* A purchase that was waiting when the owner's stop was on is never        *)
(* started, not even after the stop is lifted and sessions are armed again. *)
StopIsFinal ==
  \A i \in Intents :
    []( (emergency_stop /\ i \in InState(Waiting))
          => [](i \notin InState(Reserving \cup {"settled"})) )

(* While the card is not enabled for controlled checkout, no purchase is    *)
(* executable that the owner has not approved one by one: provider changes  *)
(* leave no purchase behind that was validated for another provider.        *)
ManualCardNeedsOwner ==
  provider_mode = "manual_prepaid_card" /\ ~manual_provider.outgoing_supported
    => InState({"policy_validated"}) = {}

(* Whatever became of an uncertain purchase, the owner can book it: that it *)
(* was paid is always accepted, however little is left of the balance, and  *)
(* that it was not, unless the provider knows of a charge.                  *)
UncertainIsReconcilable ==
  \A i \in InState(Uncertain) :
    /\ AcceptsSettled(i)
    /\ AcceptsDeclined(i) \/ (provider_mode = "simulated" /\ i \in provider.charges)

(* Estimated balances cannot authorize spending (docs/provider-adapters.md):*)
(* no purchase is reserved against a card balance part of which the owner   *)
(* only ever estimated.                                                     *)
EstimateNeverAuthorizes ==
  [][ (provider_mode = "manual_prepaid_card" /\ manual_provider.unconfirmed > 0)
        => InState(Reserving)' \subseteq InState(Reserving) ]_vars

=============================================================================
