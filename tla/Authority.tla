------------------------------ MODULE Authority ------------------------------
(***************************************************************************)
(* What the treasury promises about money, without agents, policies,       *)
(* providers or reconciliation: an amount is taken out of the spending     *)
(* authority when a purchase is started, and then it is spent, given back, *)
(* or spent and refunded, as a whole and once.  One purchase moves at a    *)
(* time, nothing else takes from the authority, and none is started while  *)
(* the owner's stop is on.                                                 *)
(***************************************************************************)
EXTENDS Integers

CONSTANTS Purchases

VARIABLES
  funds,      \* purchase -> what became of its money, and how much it is
  granted,    \* the authority the owner ever gave
  available,  \* the authority that is left
  stopped     \* the owner's stop

authorityVars == << funds, granted, available, stopped >>

NoFunds == [ status |-> "none", amount |-> 0 ]

Moves(p, from, to) ==
  /\ funds[p].status = from
  /\ funds' = [funds EXCEPT ![p].status = to]
  /\ UNCHANGED << granted, stopped >>

(* The only step that takes, and never more than there is.                  *)
Reserve(p) ==
  LET amount == available - available'
  IN /\ ~stopped
     /\ funds[p] = NoFunds
     /\ amount > 0 /\ available' >= 0
     /\ funds' = [funds EXCEPT ![p] = [ status |-> "held", amount |-> amount ]]
     /\ UNCHANGED << granted, stopped >>

Spend(p) == Moves(p, "held", "spent") /\ UNCHANGED available
Release(p) == Moves(p, "held", "released") /\ available' = available + funds[p].amount
Refund(p) == Moves(p, "spent", "refunded") /\ available' = available + funds[p].amount

(* The owner learns of a payment and of its refund together.                *)
SpendAndRefund(p) ==
  Moves(p, "held", "refunded") /\ available' = available + funds[p].amount

(* The owner gives more.                                                    *)
TopUp ==
  /\ granted' > granted
  /\ available' = available + (granted' - granted)
  /\ UNCHANGED << funds, stopped >>

Stop == stopped' = ~stopped /\ UNCHANGED << funds, granted, available >>

AuthorityInit ==
  /\ funds = [ p \in Purchases |-> NoFunds ]
  /\ granted > 0 /\ available = granted
  /\ stopped = FALSE

AuthorityNext ==
  \/ \E p \in Purchases :
       Reserve(p) \/ Spend(p) \/ Release(p) \/ Refund(p) \/ SpendAndRefund(p)
  \/ TopUp \/ Stop

AuthoritySpec == AuthorityInit /\ [][AuthorityNext]_authorityVars

=============================================================================
