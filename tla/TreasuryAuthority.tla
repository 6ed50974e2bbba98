-------------------------- MODULE TreasuryAuthority --------------------------
(***************************************************************************)
(* Treasury implements Authority.  What became of a purchase's money is    *)
(* read off the ledger's events, what is left off ledger_snapshot, which   *)
(* adds up events and the states of the intents: the two must agree.       *)
(***************************************************************************)
EXTENDS Treasury

Outcome(events) ==
  IF events.refund > 0 THEN "refunded"
  ELSE IF events.spending_settled > 0 THEN "spent"
  ELSE IF events.hold_released > 0 THEN "released"
  ELSE IF events.hold_reserved > 0 THEN "held"
  ELSE "none"

FundsOf(i) ==
  LET status == Outcome(ledger[i])
  IN [ status |-> status, amount |-> IF status = "none" THEN 0 ELSE final_total(i) ]

Promise == INSTANCE Authority
  WITH Purchases <- Intents,
       funds <- [ i \in Intents |-> FundsOf(i) ],
       granted <- Capital + operator_topups,
       available <- available_authority,
       stopped <- emergency_stop

(* Whatever agents, provider and owner do, and in whatever order, the       *)
(* treasury only makes the money move the way Authority says: the amount    *)
(* reserved is the amount settled, released or refunded, once, and no other *)
(* call takes from the authority.                                           *)
ImplementsAuthority == Promise!AuthoritySpec

=============================================================================
