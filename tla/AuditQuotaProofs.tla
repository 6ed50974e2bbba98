-------------------------- MODULE AuditQuotaProofs --------------------------
(***************************************************************************)
(* Proofs about AuditQuota, for any ceiling, any reserves and any number   *)
(* of purchases.                                                           *)
(***************************************************************************)
EXTENDS AuditQuota, FiniteSetTheorems, TLAPS

(* The counters are natural numbers and only intents of Intents exist.      *)
QuotaType ==
  /\ DOMAIN intents \subseteq Intents
  /\ non_emergency \in Nat /\ emergency \in Nat

(* What makes LogCanBeLoaded inductive: while the stop is off, the reserve  *)
(* is not exceeded, so the stop that is always allowed exceeds it by one.   *)
QuotaInv ==
  /\ QuotaType
  /\ LogCanBeLoaded
  /\ ~emergency_stop => emergency <= EMERGENCY_AUDIT_RESERVE
  /\ RunningCanBeRecorded

(* The slots of open purchases are a natural number.                        *)
LEMMA ReservedIsNat ==
  ASSUME QuotaType PROVE reserved \in Nat
<1> DEFINE E == InState({"executing"})  U == InState(Uncertain)
<1>1. E \subseteq Intents /\ U \subseteq Intents
  BY DEF QuotaType, InState
<1>2. IsFiniteSet(E) /\ IsFiniteSet(U)
  BY <1>1, QuotaAssumption, FS_Subset
<1>3. Cardinality(E) \in Nat /\ Cardinality(U) \in Nat
  BY <1>2, FS_CardinalityType
<1> QED BY <1>3 DEF reserved

(* A purchase starts only where its outcome and its reconciliation fit.     *)
LEMMA StartKeepsQuota ==
  ASSUME QuotaInv, NEW i \in Intents, NEW n \in 1 .. 2, NEW S,
         NEW limit, limit <= MAX_AUDIT_ENTRIES, limit \in Int,
         prepare_intent_execution(i, S), audit(n, limit)
  PROVE  QuotaInv'
<1>1. reserved \in Nat
  BY ReservedIsNat DEF QuotaInv
<1>2. QuotaType'
  BY DEF QuotaInv, QuotaType, prepare_intent_execution, audit, SetState, InState
<1>3. non_emergency' + 2 <= MAX_AUDIT_ENTRIES
  BY <1>1, QuotaAssumption
     DEF QuotaInv, QuotaType, prepare_intent_execution, money_workflow_capacity, audit
<1>4. LogCanBeLoaded' /\ RunningCanBeRecorded'
  BY <1>2, <1>3, QuotaAssumption
     DEF QuotaInv, QuotaType, LogCanBeLoaded, RunningCanBeRecorded, audit
<1>5. (~emergency_stop => emergency <= EMERGENCY_AUDIT_RESERVE)'
  BY DEF QuotaInv, prepare_intent_execution, audit
<1> QED BY <1>2, <1>4, <1>5 DEF QuotaInv

(* A call that starts nothing keeps the invariant when its entries fit      *)
(* below the ceiling and no purchase is running after it.                   *)
LEMMA AuditKeepsQuota ==
  ASSUME QuotaInv, non_emergency' \in Nat, non_emergency' <= MAX_AUDIT_ENTRIES,
         UNCHANGED << emergency, emergency_stop >>,
         DOMAIN intents' \subseteq Intents, running' = {}
  PROVE  QuotaInv'
<1>1. QuotaType' /\ LogCanBeLoaded' /\ RunningCanBeRecorded'
  BY DEF QuotaInv, QuotaType, LogCanBeLoaded, RunningCanBeRecorded
<1>2. (~emergency_stop => emergency <= EMERGENCY_AUDIT_RESERVE)'
  BY DEF QuotaInv
<1> QED BY <1>1, <1>2 DEF QuotaInv

(* One entry of either kind.                                                *)
LEMMA EntryFits ==
  ASSUME QuotaInv, Ordinary \/ MoneySafety(1)
  PROVE  /\ non_emergency' \in Nat /\ non_emergency' <= MAX_AUDIT_ENTRIES
         /\ UNCHANGED emergency
BY QuotaAssumption DEF QuotaInv, QuotaType, Ordinary, MoneySafety, audit

(* The calls of AuditQuota keep the invariant.                              *)
LEMMA CallKeepsQuota ==
  ASSUME QuotaInv, Call PROVE QuotaInv'
<1> DEFINE max == MAX_AUDIT_ENTRIES
           ordinary == MAX_AUDIT_ENTRIES - AUDIT_SAFETY_RESERVE
<1> USE QuotaAssumption
<1>0. /\ max \in Int /\ ordinary \in Int /\ ordinary <= max
      /\ running = {} /\ DOMAIN intents \subseteq Intents
  BY DEF Call, QuotaInv, QuotaType
<1>1. ASSUME NEW i \in Intents, create_intent(i) PROVE QuotaInv'
  <2>1. DOMAIN intents' \subseteq Intents
    BY <1>0, <1>1 DEF create_intent
  <2>2. Ordinary /\ UNCHANGED emergency_stop /\ running' = {}
    BY <1>0, <1>1 DEF create_intent
  <2> QED BY <2>1, <2>2, EntryFits, AuditKeepsQuota
<1>2. ASSUME NEW i \in Intents, decide_intent(i) PROVE QuotaInv'
  <2>1. DOMAIN intents' \subseteq Intents
    BY <1>0, <1>2 DEF decide_intent, SetState
  <2>2. Ordinary /\ UNCHANGED emergency_stop /\ running' = {}
    BY <1>0, <1>2 DEF decide_intent
  <2> QED BY <2>1, <2>2, EntryFits, AuditKeepsQuota
<1>3. ASSUME NEW i \in Intents, execute_intent(i) PROVE QuotaInv'
  <2>1. prepare_intent_execution(i, Executable) /\ audit(1, max)
    BY <1>3 DEF execute_intent, MoneySafety
  <2>2. 1 \in 1 .. 2 /\ max \in Int /\ max <= MAX_AUDIT_ENTRIES
    BY <1>0
  <2> HIDE DEF max
  <2> QED BY <2>1, <2>2, StartKeepsQuota
<1>4. ASSUME NEW i \in Intents, execute_controlled_checkout(i) PROVE QuotaInv'
  <2>1. prepare_intent_execution(i, Executable) /\ audit(2, max)
    BY <1>4 DEF execute_controlled_checkout, MoneySafety
  <2>2. 2 \in 1 .. 2 /\ max \in Int /\ max <= MAX_AUDIT_ENTRIES
    BY <1>0
  <2> HIDE DEF max
  <2> QED BY <2>1, <2>2, StartKeepsQuota
<1>5. ASSUME NEW i \in Intents, owner_execute_approved_handoff(i) PROVE QuotaInv'
  <2>1. prepare_intent_execution(i, {"approved"}) /\ audit(2, ordinary)
    BY <1>5 DEF owner_execute_approved_handoff
  <2>2. 2 \in 1 .. 2 /\ ordinary \in Int /\ ordinary <= MAX_AUDIT_ENTRIES
    BY <1>0
  <2> HIDE DEF ordinary
  <2> QED BY <2>1, <2>2, StartKeepsQuota
<1>6. ASSUME NEW i \in Intents, owner_begin_manual_handoff(i) PROVE QuotaInv'
  <2>1. prepare_intent_execution(i, {"approved"}) /\ audit(2, max)
    BY <1>6 DEF owner_begin_manual_handoff, MoneySafety
  <2>2. 2 \in 1 .. 2 /\ max \in Int /\ max <= MAX_AUDIT_ENTRIES
    BY <1>0
  <2> HIDE DEF max
  <2> QED BY <2>1, <2>2, StartKeepsQuota
<1>7. ASSUME NEW i \in Intents, owner_complete_manual_handoff(i) PROVE QuotaInv'
  <2>1. DOMAIN intents' \subseteq Intents
    BY <1>0, <1>7 DEF owner_complete_manual_handoff, SetState
  <2>2. MoneySafety(1) /\ UNCHANGED emergency_stop /\ running' = {}
    BY <1>0, <1>7 DEF owner_complete_manual_handoff
  <2> QED BY <2>1, <2>2, EntryFits, AuditKeepsQuota
<1>8. ASSUME NEW i \in Intents, owner_reconcile(i) PROVE QuotaInv'
  <2>1. DOMAIN intents' \subseteq Intents
    BY <1>0, <1>8 DEF owner_reconcile, SetState
  <2>2. MoneySafety(1) /\ UNCHANGED emergency_stop /\ running' = {}
    BY <1>0, <1>8 DEF owner_reconcile
  <2> QED BY <2>1, <2>2, EntryFits, AuditKeepsQuota
<1>9. ASSUME ordinary_call PROVE QuotaInv'
  <2>1. DOMAIN intents' \subseteq Intents
    BY <1>0, <1>9 DEF ordinary_call
  <2>2. Ordinary /\ UNCHANGED emergency_stop /\ running' = {}
    BY <1>0, <1>9 DEF ordinary_call
  <2> QED BY <2>1, <2>2, EntryFits, AuditKeepsQuota
<1>10. ASSUME owner_configure_manual_provider PROVE QuotaInv'
  <2>1. DOMAIN intents' \subseteq Intents
    BY <1>0, <1>10 DEF owner_configure_manual_provider
  <2>2. Ordinary /\ UNCHANGED emergency_stop /\ running' = {}
    BY <1>0, <1>10 DEF owner_configure_manual_provider
  <2> QED BY <2>1, <2>2, EntryFits, AuditKeepsQuota
<1>11. ASSUME owner_emergency_stop_on PROVE QuotaInv'
  BY <1>11 DEF owner_emergency_stop_on, QuotaInv, QuotaType, LogCanBeLoaded,
               RunningCanBeRecorded
<1>12. ASSUME owner_emergency_stop_off PROVE QuotaInv'
  <2>1. emergency' = emergency + 1 /\ emergency' <= EMERGENCY_AUDIT_RESERVE
    BY <1>12 DEF owner_emergency_stop_off, QuotaInv, QuotaType
  <2>2. emergency_stop' = FALSE /\ UNCHANGED << intents, non_emergency, running >>
    BY <1>12 DEF owner_emergency_stop_off
  <2>3. QuotaType' /\ LogCanBeLoaded' /\ RunningCanBeRecorded'
    BY <2>1, <2>2 DEF QuotaInv, QuotaType, LogCanBeLoaded, RunningCanBeRecorded
  <2> QED BY <2>1, <2>3 DEF QuotaInv
<1> QED BY <1>1, <1>2, <1>3, <1>4, <1>5, <1>6, <1>7, <1>8, <1>9, <1>11, <1>12,
          <1>10
       DEF Call

(* So do the provider's answer and a restart.                               *)
LEMMA NextKeepsQuota ==
  ASSUME QuotaInv, [QuotaNext]_quotaVars PROVE QuotaInv'
<1> USE QuotaAssumption
<1>0. DOMAIN intents \subseteq Intents
  BY DEF QuotaInv, QuotaType
<1>1. CASE Call
  BY <1>1, CallKeepsQuota
<1>2. ASSUME NEW i \in Intents, apply_provider_outcome(i) PROVE QuotaInv'
  <2>1. DOMAIN intents' \subseteq Intents
    BY <1>0, <1>2 DEF apply_provider_outcome, SetState
  <2>2. MoneySafety(1) /\ UNCHANGED emergency_stop /\ running' = {}
    BY <1>2 DEF apply_provider_outcome
  <2> QED BY <2>1, <2>2, EntryFits, AuditKeepsQuota
<1>3. CASE restart
  <2> DEFINE n == Cardinality(InState({"executing"}))
  <2>1. InState({"executing"}) \subseteq Intents
    BY <1>0 DEF InState
  <2>2. IsFiniteSet(InState({"executing"}))
    BY <2>1, FS_Subset
  <2>3. n \in Nat
    BY <2>2, FS_CardinalityType
  <2>4. DOMAIN intents' \subseteq Intents
    BY <1>0, <1>3 DEF restart
  <2> HIDE DEF n
  <2>5. /\ non_emergency' \in Nat /\ non_emergency' <= MAX_AUDIT_ENTRIES
        /\ UNCHANGED << emergency, emergency_stop >> /\ running' = {}
    <3>1. audit(n, MAX_AUDIT_ENTRIES) /\ UNCHANGED emergency_stop /\ running' = {}
      BY <1>3 DEF restart, MoneySafety, n
    <3> QED BY <2>3, <3>1 DEF audit, QuotaInv, QuotaType
  <2> QED BY <2>4, <2>5, AuditKeepsQuota
<1>4. CASE UNCHANGED quotaVars
  BY <1>4 DEF quotaVars, QuotaInv, QuotaType, LogCanBeLoaded, RunningCanBeRecorded
<1> QED BY <1>1, <1>2, <1>3, <1>4 DEF QuotaNext

(* The first entry of bootstrap fits.                                       *)
LEMMA InitQuota ==
  ASSUME QuotaInit PROVE QuotaInv
<1>1. DOMAIN intents \subseteq Intents
  BY DEF QuotaInit
<1>2. MAX_AUDIT_ENTRIES >= 2
  BY QuotaAssumption
<1> QED BY <1>1, <1>2, QuotaAssumption
       DEF QuotaInit, QuotaInv, QuotaType, LogCanBeLoaded, RunningCanBeRecorded

(* However often the owner stops and resumes, and whatever is audited, the  *)
(* state file stays within the quotas validate_state checks on loading it.  *)
THEOREM LogLoads == QuotaSpec => []LogCanBeLoaded
<1>1. QuotaInv /\ [QuotaNext]_quotaVars => QuotaInv'
  BY NextKeepsQuota
<1>2. QuotaInv => LogCanBeLoaded
  BY DEF QuotaInv
<1> QED BY InitQuota, <1>1, <1>2, PTL DEF QuotaSpec

(* Once a purchase is with its provider, apply_provider_outcome or          *)
(* quarantine_execution can always write its entry.                         *)
THEOREM OutcomeFits == QuotaSpec => []RunningCanBeRecorded
<1>1. QuotaInv /\ [QuotaNext]_quotaVars => QuotaInv'
  BY NextKeepsQuota
<1>2. QuotaInv => RunningCanBeRecorded
  BY DEF QuotaInv
<1> QED BY InitQuota, <1>1, <1>2, PTL DEF QuotaSpec
-----------------------------------------------------------------------------
(* What SlotsAreKept needs besides: a purchase that is with its provider is *)
(* executing, so its outcome frees one of its two slots.                    *)
RunningExecutes == running \subseteq InState({"executing"})

SlotsInv == QuotaInv /\ RunningExecutes

LEMMA RunningStep ==
  ASSUME SlotsInv, [QuotaNext]_quotaVars PROVE SlotsInv'
<1> DEFINE T == RunningExecutes'
<1>1. ASSUME running' = {} PROVE T
  BY <1>1 DEF RunningExecutes
<1>2. ASSUME NEW i \in Intents, NEW S, prepare_intent_execution(i, S), running' = {i}
      PROVE  T
  BY <1>2 DEF prepare_intent_execution, SetState, InState, RunningExecutes
<1>3. ASSUME UNCHANGED << intents, running >> PROVE T
  BY <1>3 DEF SlotsInv, RunningExecutes, InState
<1> HIDE DEF T
<1>4. ASSUME Call PROVE T
  <2>1. ASSUME NEW i \in Intents,
               execute_intent(i) \/ execute_controlled_checkout(i)
                 \/ owner_execute_approved_handoff(i)
        PROVE  T
    BY <1>2, <2>1 DEF execute_intent, execute_controlled_checkout,
      owner_execute_approved_handoff
  <2>2. ASSUME running' = running PROVE T
    BY <1>1, <1>4, <2>2 DEF Call
  <2> QED BY <1>4, <2>1, <2>2 DEF Call, create_intent, decide_intent,
    owner_begin_manual_handoff, owner_complete_manual_handoff, owner_reconcile,
    owner_configure_manual_provider, ordinary_call, owner_emergency_stop_on,
    owner_emergency_stop_off
<1>5. ASSUME (\E i \in Intents : apply_provider_outcome(i)) \/ restart PROVE T
  BY <1>1, <1>5 DEF apply_provider_outcome, restart
<1>6. ASSUME UNCHANGED quotaVars PROVE T
  BY <1>3, <1>6 DEF quotaVars
<1>7. T
  BY <1>4, <1>5, <1>6 DEF QuotaNext
<1> QED BY <1>7, NextKeepsQuota DEF SlotsInv, T

(* The slots a purchase in state s still needs.                             *)
SlotsOf(s) == IF s = "executing" THEN 2 ELSE IF s \in Uncertain THEN 1 ELSE 0

(* How many purchases are in one of some states, when one of them moves.    *)
LEMMA OneMoves ==
  ASSUME QuotaType, NEW i \in DOMAIN intents, NEW s, SetState(i, s), NEW S
  PROVE  /\ Cardinality(InState(S)) \in Nat /\ Cardinality(InState(S)') \in Nat
         /\ Cardinality(InState(S)') + (IF intents[i] \in S THEN 1 ELSE 0)
              = Cardinality(InState(S)) + (IF s \in S THEN 1 ELSE 0)
<1> DEFINE before == InState(S)
           others == InState(S) \ {i}
           after == InState(S)'
<1>1. IsFiniteSet(before)
  <2>1. before \subseteq Intents
    BY DEF InState, QuotaType
  <2> QED BY <2>1, QuotaAssumption, FS_Subset
<1>2. /\ i \in before <=> intents[i] \in S
      /\ i \notin others
      /\ after = IF s \in S THEN others \cup {i} ELSE others
  BY DEF InState, SetState
<1> HIDE DEF before, others, after
<1>3. /\ IsFiniteSet(others)
      /\ Cardinality(others) = IF i \in before THEN Cardinality(before) - 1
                               ELSE Cardinality(before)
  BY <1>1, FS_RemoveElement DEF before, others
<1>4. Cardinality(others \cup {i}) = Cardinality(others) + 1
  BY <1>2, <1>3, FS_AddElement
<1>5. Cardinality(before) \in Nat /\ Cardinality(others) \in Nat
  BY <1>1, <1>3, FS_CardinalityType
<1>6. /\ Cardinality(after) \in Nat
      /\ Cardinality(after) + (IF intents[i] \in S THEN 1 ELSE 0)
           = Cardinality(before) + (IF s \in S THEN 1 ELSE 0)
  BY <1>2, <1>3, <1>4, <1>5
<1> QED BY <1>5, <1>6 DEF before, after

(* The slots needed follow the state of the purchase that moves.            *)
LEMMA SlotsMove ==
  ASSUME QuotaType, NEW i \in DOMAIN intents, NEW s, SetState(i, s)
  PROVE  /\ reserved \in Nat /\ reserved' \in Nat
         /\ reserved' + SlotsOf(intents[i]) = reserved + SlotsOf(s)
<1> DEFINE e == Cardinality(InState({"executing"}))
           u == Cardinality(InState(Uncertain))
           f == Cardinality(InState({"executing"})')
           v == Cardinality(InState(Uncertain)')
<1>1. /\ e \in Nat /\ f \in Nat
      /\ f + (IF intents[i] \in {"executing"} THEN 1 ELSE 0)
           = e + (IF s \in {"executing"} THEN 1 ELSE 0)
  BY OneMoves
<1>2. /\ u \in Nat /\ v \in Nat
      /\ v + (IF intents[i] \in Uncertain THEN 1 ELSE 0) = u + (IF s \in Uncertain THEN 1 ELSE 0)
  BY OneMoves
<1>3. reserved = 2 * e + u /\ reserved' = 2 * f + v
  BY DEF reserved
<1>4. "executing" \notin Uncertain
  BY DEF Uncertain
<1> HIDE DEF e, u, f, v
<1> QED BY <1>1, <1>2, <1>3, <1>4 DEF SlotsOf
(* A step that moves one purchase and writes n entries takes no slot of the *)
(* others, if n and what the purchase still needs then fit in what it       *)
(* needed, or in the four slots that were asked for.                        *)
LEMMA MoveKeepsSlots ==
  ASSUME QuotaType, NEW i \in DOMAIN intents, NEW s, SetState(i, s), NEW n \in Nat,
         non_emergency' = non_emergency + n,
         non_emergency + reserved <= MAX_AUDIT_ENTRIES,
         \/ n + SlotsOf(s) <= SlotsOf(intents[i])
         \/ n + SlotsOf(s) <= 4 /\ money_workflow_capacity
  PROVE  non_emergency' + reserved' <= MAX_AUDIT_ENTRIES
<1>1. /\ reserved \in Nat /\ reserved' \in Nat
      /\ reserved' + SlotsOf(intents[i]) = reserved + SlotsOf(s)
  BY SlotsMove
<1>2. /\ SlotsOf(s) \in Nat /\ SlotsOf(intents[i]) \in Nat
      /\ non_emergency \in Nat /\ MAX_AUDIT_ENTRIES \in Nat
  BY QuotaAssumption DEF SlotsOf, QuotaType
<1>3. ASSUME NEW e \in Nat, NEW r \in Nat, NEW q \in Nat, NEW a \in Nat, NEW b \in Nat,
             NEW max \in Nat, q + b = r + a, e + r <= max,
             n + a <= b \/ (n + a <= 4 /\ e + r + 4 <= max)
      PROVE  e + n + q <= max
  BY <1>3
<1>4. n + SlotsOf(s) <= 4 /\ money_workflow_capacity =>
        non_emergency + reserved + 4 <= MAX_AUDIT_ENTRIES
  BY DEF money_workflow_capacity
<1>5. non_emergency + n + reserved' <= MAX_AUDIT_ENTRIES
  BY <1>1, <1>2, <1>3, <1>4
<1> QED BY <1>5

(* Recovery turns the two slots of each executing purchase into its entry   *)
(* and the slot of its reconciliation.                                      *)
LEMMA RestartKeepsSlots ==
  ASSUME QuotaType, restart, non_emergency + reserved <= MAX_AUDIT_ENTRIES
  PROVE  non_emergency' + reserved' <= MAX_AUDIT_ENTRIES
<1> DEFINE E == InState({"executing"})
           U == InState(Uncertain)
           F == InState({"executing"})'
           V == InState(Uncertain)'
<1>1. F = {} /\ V = U \cup E /\ U \cap E = {}
  BY DEF restart, InState, Uncertain
<1>2. IsFiniteSet(E) /\ IsFiniteSet(U)
  <2>1. E \subseteq Intents /\ U \subseteq Intents
    BY DEF InState, QuotaType
  <2> QED BY <2>1, QuotaAssumption, FS_Subset
<1>3. /\ reserved = 2 * Cardinality(E) + Cardinality(U)
      /\ reserved' = 2 * Cardinality(F) + Cardinality(V)
      /\ non_emergency' = non_emergency + Cardinality(E)
  BY DEF reserved, restart, MoneySafety, audit
<1> HIDE DEF E, U, F, V
<1>4. /\ Cardinality(E) \in Nat /\ Cardinality(U) \in Nat /\ Cardinality(F) = 0
      /\ Cardinality(V) = Cardinality(U) + Cardinality(E)
  <2>1. Cardinality(E) \in Nat /\ Cardinality(U) \in Nat
    BY <1>2, FS_CardinalityType
  <2>2. Cardinality(F) = 0 /\ Cardinality(U \cap E) = 0
    BY <1>1, FS_EmptySet
  <2>3. Cardinality(U \cup E) = Cardinality(U) + Cardinality(E) - Cardinality(U \cap E)
    BY <1>2, FS_Union
  <2> QED BY <1>1, <2>1, <2>2, <2>3
<1>5. non_emergency \in Nat /\ MAX_AUDIT_ENTRIES \in Nat
  BY QuotaAssumption DEF QuotaType
<1> QED BY <1>3, <1>4, <1>5

LEMMA SlotsStep ==
  ASSUME SlotsInv, [QuotaNext]_quotaVars,
         non_emergency' > MAX_AUDIT_ENTRIES - AUDIT_SAFETY_RESERVE,
         non_emergency + reserved <= MAX_AUDIT_ENTRIES,
         \A i \in InState({"settled"}) : intents'[i] = "settled"
  PROVE  non_emergency' + reserved' <= MAX_AUDIT_ENTRIES
<1> DEFINE T == non_emergency' + reserved' <= MAX_AUDIT_ENTRIES
<1>0. /\ QuotaType /\ RunningExecutes /\ non_emergency \in Nat
      /\ MAX_AUDIT_ENTRIES \in Nat /\ AUDIT_SAFETY_RESERVE \in Nat
  BY QuotaAssumption DEF SlotsInv, QuotaInv, QuotaType
(* An ordinary entry does not fit above the limit of ordinary entries.      *)
<1>1. ASSUME NEW n \in Nat, audit(n, MAX_AUDIT_ENTRIES - AUDIT_SAFETY_RESERVE) PROVE FALSE
  BY <1>0, <1>1 DEF audit
<1>2. ~Ordinary
  BY <1>1 DEF Ordinary
(* A purchase that starts.                                                  *)
<1>3. ASSUME NEW i \in Intents, NEW S \in {Executable, {"approved"}}, NEW n \in 1 .. 2,
             prepare_intent_execution(i, S), MoneySafety(n)
      PROVE  T
  <2>1. i \in DOMAIN intents /\ SetState(i, "executing") /\ money_workflow_capacity
    BY <1>3 DEF prepare_intent_execution, InState
  <2>2. non_emergency' = non_emergency + n /\ n + SlotsOf("executing") <= 4 /\ n \in Nat
    BY <1>3 DEF MoneySafety, audit, SlotsOf
  <2> QED BY <1>0, <2>1, <2>2, MoveKeepsSlots
(* One whose outcome is recorded or reconciled.                             *)
<1>4. ASSUME NEW i \in DOMAIN intents, NEW s, SetState(i, s), MoneySafety(1),
             1 + SlotsOf(s) <= SlotsOf(intents[i])
      PROVE  T
  <2>1. non_emergency' = non_emergency + 1
    BY <1>4 DEF MoneySafety, audit
  <2> QED BY <1>0, <1>4, <2>1, MoveKeepsSlots
<1>5. ASSUME NEW i \in Intents, apply_provider_outcome(i) PROVE T
  <2>1. i \in DOMAIN intents /\ intents[i] = "executing"
    BY <1>0, <1>5 DEF apply_provider_outcome, RunningExecutes, InState
  <2>2. PICK s \in {"settled", "declined", "provider_pending", "unknown"} : SetState(i, s)
    BY <1>5 DEF apply_provider_outcome
  <2>3. 1 + SlotsOf(s) <= SlotsOf(intents[i])
    BY <2>1, <2>2 DEF SlotsOf, Uncertain
  <2> QED BY <1>4, <1>5, <2>1, <2>2, <2>3 DEF apply_provider_outcome
<1>6. ASSUME NEW i \in Intents, owner_complete_manual_handoff(i) PROVE T
  <2>1. /\ i \in DOMAIN intents /\ intents[i] = "executing" /\ SetState(i, "unknown")
        /\ MoneySafety(1)
    BY <1>6 DEF owner_complete_manual_handoff, InState
  <2>2. 1 + SlotsOf("unknown") <= SlotsOf(intents[i])
    BY <2>1 DEF SlotsOf, Uncertain
  <2> QED BY <1>4, <2>1, <2>2
<1>7. ASSUME NEW i \in Intents, owner_reconcile(i) PROVE T
  <2>1. CASE i \in InState(Uncertain)
    <3>1. PICK s \in {"settled", "declined", "refunded"} : SetState(i, s)
      BY <1>7, <2>1 DEF owner_reconcile, InState, Uncertain
    <3>2. i \in DOMAIN intents /\ intents[i] \in Uncertain
      BY <2>1 DEF InState
    <3>3. 1 + SlotsOf(s) <= SlotsOf(intents[i])
      BY <3>1, <3>2 DEF SlotsOf, Uncertain
    <3> QED BY <1>4, <1>7, <3>1, <3>2, <3>3 DEF owner_reconcile
(* The refund of a settled purchase is the exception.                       *)
  <2>2. CASE i \notin InState(Uncertain)
    <3>1. i \in InState({"settled"}) /\ intents'[i] = "refunded"
      BY <1>7, <2>2 DEF owner_reconcile, SetState, InState
    <3> QED BY <3>1
  <2> QED BY <2>1, <2>2
<1>8. ASSUME UNCHANGED << intents, non_emergency >> PROVE T
  BY <1>8 DEF reserved, InState
<1>9. ASSUME restart PROVE T
  BY <1>0, <1>9, RestartKeepsSlots
<1> HIDE DEF T
<1>10. ASSUME Call PROVE T
  <2>1. ASSUME NEW i \in Intents, execute_intent(i) \/ execute_controlled_checkout(i)
                                    \/ owner_begin_manual_handoff(i)
        PROVE  T
    BY <1>3, <2>1 DEF execute_intent, execute_controlled_checkout, owner_begin_manual_handoff
  <2>2. ASSUME NEW i \in Intents, owner_execute_approved_handoff(i) PROVE T
    BY <1>1, <2>2 DEF owner_execute_approved_handoff
  <2>3. ASSUME NEW i \in Intents, create_intent(i) \/ decide_intent(i) PROVE T
    BY <1>2, <2>3 DEF create_intent, decide_intent
  <2>4. ASSUME ordinary_call \/ owner_configure_manual_provider PROVE T
    BY <1>2, <2>4 DEF ordinary_call, owner_configure_manual_provider
  <2>5. ASSUME owner_emergency_stop_on \/ owner_emergency_stop_off PROVE T
    BY <1>8, <2>5 DEF owner_emergency_stop_on, owner_emergency_stop_off
  <2> QED BY <1>6, <1>7, <1>10, <2>1, <2>2, <2>3, <2>4, <2>5 DEF Call
<1>11. ASSUME UNCHANGED quotaVars PROVE T
  BY <1>8, <1>11 DEF quotaVars
<1>12. T
  BY <1>5, <1>9, <1>10, <1>11 DEF QuotaNext
<1> QED BY <1>12 DEF T

(* Beyond the limit of ordinary entries the slots of open purchases are     *)
(* kept for them: by the calls that start a purchase, record its outcome or *)
(* reconcile it, by recovery, and by the ordinary calls, which fail there.  *)
(* The refund of a settled purchase is the one exception.                   *)
THEOREM SlotsKept == QuotaSpec => SlotsAreKept
<1>1. QuotaInit => SlotsInv
  BY InitQuota DEF QuotaInit, SlotsInv, RunningExecutes
<1>2. SlotsInv /\ [QuotaNext]_quotaVars => SlotsInv'
  BY RunningStep
<1> DEFINE Step ==
      /\ non_emergency' > MAX_AUDIT_ENTRIES - AUDIT_SAFETY_RESERVE
      /\ non_emergency + reserved <= MAX_AUDIT_ENTRIES
      /\ \A i \in InState({"settled"}) : intents'[i] = "settled"
      => (non_emergency + reserved <= MAX_AUDIT_ENTRIES)'
<1>3. SlotsInv /\ [QuotaNext]_quotaVars => [Step]_quotaVars
  BY SlotsStep
<1> QED BY <1>1, <1>2, <1>3, PTL DEF QuotaSpec, SlotsAreKept

=============================================================================
