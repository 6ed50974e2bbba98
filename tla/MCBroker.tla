------------------------------ MODULE MCBroker ------------------------------
(***************************************************************************)
(* Values of the constants of Broker for TLC: those of MCTreasury.         *)
(***************************************************************************)
EXTENDS Broker, TLC

Limits(tx, session, day, life, ceiling, size, bps, rate) ==
  [ max_per_transaction |-> tx, max_per_session |-> session,
    max_rolling_24h |-> day, max_lifetime |-> life,
    absolute_exposure_ceiling |-> ceiling, max_treasury_size |-> size,
    reinvestment_ratio_bps |-> bps, max_transactions_per_minute |-> rate ]

Request(key, merchant, total) ==
  [ idempotency_key |-> key, merchant_domain |-> merchant, final_total |-> total ]

Wide == Limits(2, 3, 3, 3, 6, 6, 5000, 3)
Small == Request("k1", "shop", 1)
Twin == Request("k2", "shop", 1)

OnePolicy == {Wide}
Autonomous == {"bounded_autonomous"}
OneRequest == {Small}
Siblings == {Small, Twin}

(* Every purchase passes the request rules; the mode decides on approval.   *)
MCScreening == [ q \in Policies \X Requests |-> "allowed" ]

IntentSymmetry == Permutations(Intents)

=============================================================================
