----------------------------- MODULE MCTreasury -----------------------------
(***************************************************************************)
(* Values of the constants of Treasury for TLC.                            *)
(***************************************************************************)
EXTENDS Treasury, TLC

Limits(tx, session, day, life, ceiling, size, bps, rate) ==
  [ max_per_transaction |-> tx, max_per_session |-> session,
    max_rolling_24h |-> day, max_lifetime |-> life,
    absolute_exposure_ceiling |-> ceiling, max_treasury_size |-> size,
    reinvestment_ratio_bps |-> bps, max_transactions_per_minute |-> rate ]

Request(key, merchant, total) ==
  [ idempotency_key |-> key, merchant_domain |-> merchant, final_total |-> total ]

(* With purchases of 1 and 2, a second purchase breaks the limit of the     *)
(* session and of the day under one policy, of the life and of the minute   *)
(* under the other.                                                         *)
SessionBinds == Limits(2, 2, 2, 3, 6, 6, 5000, 3)
LifeBinds == Limits(2, 3, 3, 2, 4, 5, 0, 1)
Wide == Limits(2, 3, 3, 3, 6, 6, 5000, 3)
Demo == Limits(2, 3, 3, 3, 6, 6, 0, 3)

Small == Request("k1", "shop", 1)
Twin == Request("k2", "shop", 1)
Large == Request("k3", "mart", 2)

(* A treasury no larger than its capital, one purchase a minute.            *)
Tight == Limits(2, 3, 3, 3, 3, 3, 5000, 1)

OnePolicy == {Wide}
TightPolicy == {Tight}
Autonomous == {"bounded_autonomous"}
TwoPolicies == {SessionBinds, LifeBinds}
OneRequest == {Small}
TwoRequests == {Small, Large}
Siblings == {Small, Twin}

(* The large purchase is at a merchant that needs the owner.                *)
MCScreening ==
  [ q \in Policies \X Requests |->
      IF q[2] = Large THEN "requires_approval" ELSE "allowed" ]

IntentSymmetry == Permutations(Intents)

=============================================================================
