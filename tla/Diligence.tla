------------------------------ MODULE Diligence ------------------------------
(***************************************************************************)
(* What the treasury lets happen in the end when everyone does their part: *)
(* the provider answers, the agent runs or cancels what it asked for, and  *)
(* the owner keeps completing, reconciling, denying and, with the card,    *)
(* entering the balance.  The clock and everybody's other calls are        *)
(* Treasury's, and nobody has to make them.                                *)
(***************************************************************************)
EXTENDS Treasury

(* A call is tried whenever the treasury mutex is free.                     *)
Tried(action) == running = {} /\ action

(* The owner decides what a purchase's outcome was.                         *)
Decides(i) == owner_reconcile_settled(i) \/ owner_reconcile_declined(i)

DecidingSpec ==
  /\ Spec
  /\ \A i \in Intents :
       /\ WF_vars(complete_intent_execution(i))
       /\ WF_vars(Tried(owner_complete_manual_handoff(i)))
       /\ WF_vars(Tried(Decides(i)))

Executes(i) ==
  \/ \E a \in Agents : execute_intent(a, i) \/ execute_controlled_checkout(a, i)
  \/ owner_execute_approved_handoff(i)

Refreshes ==
  \E balance \in ManualBalances, autonomous \in BOOLEAN :
    owner_configure_manual_provider(balance, FALSE, autonomous)

RefreshingSpec ==
  /\ DecidingSpec
  /\ \A i \in Intents :
       /\ WF_vars(Tried(Executes(i)))
       /\ WF_vars(Tried(owner_deny(i)))
       /\ WF_vars(Tried(\E a \in Agents : cancel_intent(a, i)))
  /\ WF_vars(Tried(Refreshes))

(* No reservation stays for ever: a purchase that was started is settled,   *)
(* declined or refunded in the end, whatever its provider answered and      *)
(* whatever happened to its agent, to the budgets and to the other          *)
(* purchases meanwhile, if the owner only goes on deciding what is open.    *)
StartedIsDecided ==
  \A i \in Intents :
    i \in InState(Reserving) ~> i \in InState({"settled", "declined", "refunded"})

(* "manual balance snapshot has expired; owner refresh is required"         *)
(* (ManualPrepaidCardProvider::available_balance): an owner who goes on     *)
(* trying gets a fresh balance in.                                          *)
StaleBalanceIsRefreshed == manual_provider.expired ~> ~manual_provider.expired

=============================================================================
