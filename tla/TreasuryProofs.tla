--------------------------- MODULE TreasuryProofs ---------------------------
(***************************************************************************)
(* Machine-checked proofs about Treasury, for every value of its           *)
(* constants.  First its types, and that the owner's emergency stop is     *)
(* final for every purchase that was waiting.  Then its money: the ledger, *)
(* the providers' books and the states of the purchases agree, the         *)
(* authority is never overdrawn and is backed, reservations are covered,   *)
(* use grows within the limits, and Treasury implements Authority.         *)
(***************************************************************************)
EXTENDS TreasuryAuthority, FiniteSetTheorems, SequenceTheorems, TLAPS

(* The conjuncts of TypeOK about one variable each, so that a step is       *)
(* checked only on the variables it changes.                                *)
AgentsOK ==
  /\ DOMAIN agents \subseteq Agents
  /\ agents = [ a \in DOMAIN agents |-> agents[a] ]
  /\ \A a \in DOMAIN agents : agents[a] \in AgentRecord
  /\ \A a \in DOMAIN agents : agents[a].session_live => ~agents[a].capability_expired
IntentsOK ==
  /\ DOMAIN intents \subseteq Intents
  /\ intents = [ i \in DOMAIN intents |-> intents[i] ]
  /\ \A i \in DOMAIN intents :
        intents[i] \in IntentRecord /\ intents[i].agent \in DOMAIN agents
PurseOK ==
  /\ ledger \in [Intents -> LedgerCounts]
  /\ settled_24h \subseteq DOMAIN intents
  /\ operator_topups \in Nat
  /\ processed_deposits \subseteq DepositReferences
RailsOK ==
  /\ provider \in ProviderRecord
  /\ provider_mode \in {"simulated", "manual_prepaid_card"}
  /\ manual_provider \in ManualProviderRecord

LEMMA TypeParts ==
  TypeOK <=> /\ AgentsOK /\ IntentsOK /\ PurseOK /\ RailsOK
             /\ emergency_stop \in BOOLEAN /\ running \subseteq DOMAIN intents
BY DEF TypeOK, AgentsOK, IntentsOK, PurseOK, RailsOK

(* The same of the next state.                                              *)
LEMMA NextTypeParts ==
  ASSUME AgentsOK', IntentsOK', PurseOK', RailsOK',
         (emergency_stop \in BOOLEAN)', (running \subseteq DOMAIN intents)'
  PROVE  TypeOK'
BY DEF TypeOK, AgentsOK, IntentsOK, PurseOK, RailsOK

(* Replacing the record of one agent keeps the agents well formed.          *)
LEMMA AgentChangeType ==
  ASSUME TypeOK, NEW a \in DOMAIN agents, NEW agent \in AgentRecord,
         agent.session_live => ~agent.capability_expired,
         agents' = [agents EXCEPT ![a] = agent]
  PROVE  AgentsOK' /\ DOMAIN agents' = DOMAIN agents
BY DEF TypeOK, AgentsOK

(* Changing one field of an agent's record keeps it a record of its kind.   *)
LEMMA AgentFieldType ==
  ASSUME NEW t \in AgentRecord
  PROVE  /\ \A b \in BOOLEAN : /\ [t EXCEPT !.session_live = b] \in AgentRecord
                                /\ [t EXCEPT !.session_live = b].session_live = b
                                /\ [t EXCEPT !.session_live = b].capability_expired
                                     = t.capability_expired
         /\ \A p \in Policies : /\ [t EXCEPT !.policy = p] \in AgentRecord
                                 /\ [t EXCEPT !.policy = p].session_live = t.session_live
                                 /\ [t EXCEPT !.policy = p].capability_expired
                                      = t.capability_expired
         /\ t.capability_expired \in BOOLEAN
<1>1. \A b \in BOOLEAN :
        /\ [t EXCEPT !.session_live = b] \in AgentRecord
        /\ [t EXCEPT !.session_live = b].session_live = b
        /\ [t EXCEPT !.session_live = b].capability_expired = t.capability_expired
  BY DEF AgentRecord
<1>2. \A p \in Policies :
        /\ [t EXCEPT !.policy = p] \in AgentRecord
        /\ [t EXCEPT !.policy = p].session_live = t.session_live
        /\ [t EXCEPT !.policy = p].capability_expired = t.capability_expired
  BY DEF AgentRecord
<1>3. t.capability_expired \in BOOLEAN
  BY DEF AgentRecord
<1> QED BY <1>1, <1>2, <1>3

(* Replacing the record of one intent keeps the intents well formed.        *)
LEMMA IntentChangeType ==
  ASSUME TypeOK, NEW i \in DOMAIN intents, NEW intent \in IntentRecord,
         intent.agent = intents[i].agent,
         intents' = [intents EXCEPT ![i] = intent], UNCHANGED agents
  PROVE  IntentsOK' /\ DOMAIN intents' = DOMAIN intents
BY DEF TypeOK, IntentsOK

(* Changing one field of an intent's record keeps it a record of its kind.  *)
LEMMA IntentFieldType ==
  ASSUME NEW t \in IntentRecord
  PROVE  /\ \A s \in TransactionState :
              /\ [t EXCEPT !.state = s] \in IntentRecord
              /\ [t EXCEPT !.state = s].agent = t.agent
         /\ [t EXCEPT !.bound = FALSE] \in IntentRecord
         /\ [t EXCEPT !.bound = FALSE].agent = t.agent
         /\ \A x \in {"minute", "fresh", "expired"} :
              /\ [t EXCEPT !.age = x] \in IntentRecord
              /\ [t EXCEPT !.age = x].agent = t.agent
<1>1. \A s \in TransactionState :
        [t EXCEPT !.state = s] \in IntentRecord /\ [t EXCEPT !.state = s].agent = t.agent
  BY DEF IntentRecord
<1>2. [t EXCEPT !.bound = FALSE] \in IntentRecord /\ [t EXCEPT !.bound = FALSE].agent = t.agent
  BY DEF IntentRecord
<1>3. \A x \in {"minute", "fresh", "expired"} :
        [t EXCEPT !.age = x] \in IntentRecord /\ [t EXCEPT !.age = x].agent = t.agent
  BY DEF IntentRecord
<1> QED BY <1>1, <1>2, <1>3

LEMMA RefundedRecordType ==
  ASSUME NEW t \in IntentRecord
  PROVE  /\ [t EXCEPT !.state = "refunded", !.receipt = TRUE] \in IntentRecord
         /\ [t EXCEPT !.state = "refunded", !.receipt = TRUE].agent = t.agent
<1>1. "refunded" \in TransactionState
  BY DEF TransactionState
<1> QED BY <1>1 DEF IntentRecord

(* Rewriting every intent's record, each into a record of the same agent,   *)
(* keeps the intents well formed.                                           *)
LEMMA IntentsRewritten ==
  ASSUME IntentsOK, DOMAIN agents \subseteq DOMAIN agents',
         DOMAIN intents' = DOMAIN intents,
         intents' = [ j \in DOMAIN intents |-> intents'[j] ],
         \A j \in DOMAIN intents :
            intents'[j] \in IntentRecord /\ intents'[j].agent = intents[j].agent
  PROVE  IntentsOK'
<1>1. \A j \in DOMAIN intents' :
        intents'[j] \in IntentRecord /\ intents'[j].agent \in DOMAIN agents'
  BY DEF IntentsOK
<1>2. intents' = [ j \in DOMAIN intents' |-> intents'[j] ]
  OBVIOUS
<1> QED BY <1>1, <1>2 DEF IntentsOK

(* Moving one intent to another state, or marking it settled, keeps the     *)
(* intents well formed.                                                     *)
LEMMA SetStateType ==
  ASSUME TypeOK, NEW i \in DOMAIN intents, NEW s \in TransactionState,
         SetState(i, s), UNCHANGED agents
  PROVE  IntentsOK' /\ DOMAIN intents' = DOMAIN intents
<1> DEFINE intent == [intents[i] EXCEPT !.state = s]
<1>1. IntentsOK /\ intents[i] \in IntentRecord
  BY TypeParts DEF IntentsOK
<1>2. intents' = [intents EXCEPT ![i] = intent]
  BY DEF SetState
<1>3. intent \in IntentRecord /\ intent.agent = intents[i].agent
  BY <1>1, IntentFieldType
<1> HIDE DEF intent
<1> QED BY <1>2, <1>3, IntentChangeType

LEMMA SetSettledType ==
  ASSUME TypeOK, NEW i \in DOMAIN intents, SetSettled(i), UNCHANGED agents
  PROVE  IntentsOK' /\ DOMAIN intents' = DOMAIN intents
<1>1. DOMAIN intents' = DOMAIN intents /\ intents' = [ j \in DOMAIN intents |-> intents'[j] ]
  BY DEF TypeOK, SetSettled
<1>2. intents'[i] = [intents[i] EXCEPT !.state = "settled", !.receipt = TRUE]
  BY DEF TypeOK, SetSettled, IntentRecord
<1>3. \A j \in DOMAIN intents \ {i} : intents'[j] = intents[j]
  BY DEF TypeOK, SetSettled
<1>4. intents'[i] \in IntentRecord /\ intents'[i].agent = intents[i].agent
  BY <1>2 DEF TypeOK, IntentRecord, TransactionState
<1> QED BY <1>1, <1>3, <1>4 DEF TypeOK, IntentsOK

LEMMA UnbindType ==
  ASSUME TypeOK, NEW S, intents' = Unbind(S), DOMAIN agents' = DOMAIN agents
  PROVE  IntentsOK' /\ DOMAIN intents' = DOMAIN intents
<1>1. IntentsOK
  BY TypeParts
<1>2. DOMAIN intents' = DOMAIN intents /\ intents' = [ j \in DOMAIN intents |-> intents'[j] ]
  BY DEF Unbind
<1>3. ASSUME NEW j \in DOMAIN intents
      PROVE  intents'[j] \in IntentRecord /\ intents'[j].agent = intents[j].agent
  <2>1. intents[j] \in IntentRecord
    BY <1>1 DEF IntentsOK
  <2>2. intents'[j] = intents[j] \/ intents'[j] = [intents[j] EXCEPT !.bound = FALSE]
    BY DEF Unbind
  <2> QED BY <2>1, <2>2, IntentFieldType
<1> QED BY <1>1, <1>2, <1>3, IntentsRewritten

(* The provider's books and the card's snapshot stay records of their kind. *)
LEMMA ProviderUpdateType ==
  ASSUME NEW p \in ProviderRecord, NEW n \in Int, NEW i \in Intents
  PROVE  /\ [p EXCEPT !.holds = @ \cup {i}] \in ProviderRecord
         /\ [p EXCEPT !.holds = @ \ {i}] \in ProviderRecord
         /\ [p EXCEPT !.balance = n, !.charges = @ \cup {i}] \in ProviderRecord
         /\ [p EXCEPT !.balance = n, !.refunded = @ \cup {i}] \in ProviderRecord
         /\ [p EXCEPT !.balance = n, !.holds = @ \ {i}, !.charges = @ \cup {i}]
              \in ProviderRecord
BY DEF ProviderRecord

LEMMA BalanceUpdateType ==
  ASSUME NEW p \in ProviderRecord, NEW n \in Int
  PROVE  p.balance \in Int /\ [p EXCEPT !.balance = n] \in ProviderRecord
BY DEF ProviderRecord

LEMMA CardUpdateType ==
  ASSUME NEW c \in ManualProviderRecord, NEW n \in Int, NEW b \in BOOLEAN
  PROVE  /\ [c EXCEPT !.amount = n] \in ManualProviderRecord
         /\ [c EXCEPT !.expired = b] \in ManualProviderRecord
         /\ [c EXCEPT !.amount = n, !.estimated = b] \in ManualProviderRecord
         /\ c.amount \in Int
BY DEF ManualProviderRecord

LEMMA IntArithmetic == \A m, n \in Int : m + n \in Int /\ m - n \in Int
OBVIOUS

LEMMA RatioType ==
  ASSUME NEW p \in PolicyRecord
  PROVE  p.reinvestment_ratio_bps \in Nat
<1>1. p.reinvestment_ratio_bps \in BasisPoints
  BY DEF PolicyRecord
<1>2. \A n \in BasisPoints : n \in Nat
  BY DEF BasisPoints
<1> QED BY <1>1, <1>2

LEMMA InDomain == \A S : InState(S) \subseteq DOMAIN intents
BY DEF InState

(* The reservation changes one intent and counts one hold.                  *)
LEMMA PrepareType ==
  ASSUME TypeOK, NEW i \in DOMAIN intents, prepare_intent_execution(i)
  PROVE  /\ AgentsOK' /\ IntentsOK' /\ PurseOK' /\ RailsOK'
         /\ emergency_stop' \in BOOLEAN /\ DOMAIN intents' = DOMAIN intents
<1>1. SetState(i, "executing") /\ "executing" \in TransactionState
  BY DEF prepare_intent_execution, TransactionState
<1>2. UNCHANGED << agents, settled_24h, operator_topups, processed_deposits,
                   emergency_stop, rails >>
  BY DEF prepare_intent_execution
<1>3. IntentsOK' /\ DOMAIN intents' = DOMAIN intents
  BY <1>1, <1>2, SetStateType
<1>4. ledger' \in [Intents -> LedgerCounts]
  <2>1. ledger' = [ledger EXCEPT ![i].hold_reserved = @ + 1]
    BY DEF prepare_intent_execution
  <2> QED BY <2>1 DEF TypeOK, LedgerCounts
<1> QED BY <1>2, <1>3, <1>4 DEF TypeOK, AgentsOK, PurseOK, RailsOK, rails

LEMMA RecordSettledType ==
  ASSUME TypeOK, NEW i \in DOMAIN intents, record_settled(i),
         DOMAIN intents' = DOMAIN intents, UNCHANGED << operator_topups, processed_deposits >>
  PROVE  PurseOK'
<1>1. ledger' = [ledger EXCEPT
                   ![i].hold_released = IF @ = 0 THEN 1 ELSE @,
                   ![i].spending_settled = IF @ = 0 THEN 1 ELSE @ ]
  BY DEF record_settled
<1>2. ledger' \in [Intents -> LedgerCounts]
  BY <1>1 DEF TypeOK, LedgerCounts
<1>3. settled_24h' \subseteq DOMAIN intents
  BY DEF record_settled, TypeOK
<1> QED BY <1>2, <1>3 DEF TypeOK, PurseOK

(* One step per action that changes something TypeOK reads.                 *)
LEMMA HandlerType ==
  ASSUME ConstantsAssumption, TypeOK, running = {}, Handler
  PROVE  TypeOK'
<1>1. ASSUME NEW a \in Agents, NEW i \in Intents, NEW r \in Requests,
             create_intent(a, i, r)
      PROVE  TypeOK'
  <2>1. PICK s \in {"failed", "approval_required", "policy_validated"} :
          intents' = Put(i, [ agent |-> a, request |-> r, state |-> s,
                              bound |-> TRUE, age |-> "minute", receipt |-> FALSE ])
    BY <1>1 DEF create_intent
  <2>2. UNCHANGED << agents, purse, emergency_stop, rails, running >> /\ a \in DOMAIN agents
    BY <1>1 DEF create_intent, authenticated
  <2>3. IntentsOK' /\ DOMAIN intents \subseteq DOMAIN intents'
    BY <2>1, <2>2 DEF TypeOK, IntentsOK, IntentRecord, Put, TransactionState
  <2> QED BY <2>2, <2>3 DEF TypeOK, IntentsOK, purse, rails
<1>2. ASSUME NEW i \in DOMAIN intents, NEW s \in TransactionState, SetState(i, s),
             UNCHANGED << agents, purse, emergency_stop, rails, running >>
      PROVE  TypeOK'
  <2>1. IntentsOK' /\ DOMAIN intents' = DOMAIN intents
    BY <1>2, SetStateType
  <2> QED BY <1>2, <2>1 DEF TypeOK, IntentsOK, purse, rails
<1>3. ASSUME NEW a \in Agents, NEW i \in Intents, cancel_intent(a, i)
      PROVE  TypeOK'
  BY <1>2, <1>3 DEF cancel_intent, OfAgent, TransactionState
<1>4. ASSUME NEW a \in Agents, OwnerAgentCall(a)
      PROVE  TypeOK'
  <2>1. ASSUME NEW p \in Policies, NEW mode \in Modes, owner_create_agent(a, p, mode)
        PROVE  TypeOK'
    <3>1. AgentsOK' /\ DOMAIN agents \subseteq DOMAIN agents'
      BY <2>1 DEF ConstantsAssumption, owner_create_agent, TypeOK, AgentsOK, AgentRecord
    <3> QED BY <2>1, <3>1 DEF owner_create_agent, TypeOK, AgentsOK, purse, rails
  <2>2. CASE owner_arm_agent_session(a)
    <3>1. AgentsOK' /\ DOMAIN agents' = DOMAIN agents
      <4> DEFINE live == ~agents[a].capability_expired
                 agent == [agents[a] EXCEPT !.session_live = live]
      <4>1. a \in DOMAIN agents /\ agents' = [agents EXCEPT ![a] = agent]
        BY <2>2 DEF owner_arm_agent_session
      <4>2. agents[a] \in AgentRecord
        BY <4>1, TypeParts DEF AgentsOK
      <4>3. live \in BOOLEAN
        BY Zenon
      <4> HIDE DEF live
      <4>4. agent \in AgentRecord /\ agent.session_live = live
            /\ agent.capability_expired = agents[a].capability_expired
        BY <4>2, <4>3, AgentFieldType
      <4> HIDE DEF agent
      <4>5. agent.session_live => ~agent.capability_expired
        BY <4>4, Zenon DEF live
      <4> QED BY <4>1, <4>4, <4>5, AgentChangeType
    <3>2. IntentsOK' /\ DOMAIN intents' = DOMAIN intents
      BY <2>2, <3>1, UnbindType DEF owner_arm_agent_session
    <3> QED BY <2>2, <3>1, <3>2
            DEF owner_arm_agent_session, TypeOK, AgentsOK, IntentsOK, purse, rails
  <2>3. ASSUME NEW p \in Policies, owner_update_policy(a, p)
        PROVE  TypeOK'
    <3>1. AgentsOK' /\ DOMAIN agents' = DOMAIN agents
      <4> DEFINE agent == [agents[a] EXCEPT !.policy = p]
      <4>1. a \in DOMAIN agents /\ agents' = [agents EXCEPT ![a] = agent]
        BY <2>3 DEF owner_update_policy
      <4>2. /\ agents[a] \in AgentRecord
            /\ agents[a].session_live => ~agents[a].capability_expired
        BY <4>1, TypeParts DEF AgentsOK
      <4>3. /\ agent \in AgentRecord
            /\ agent.session_live => ~agent.capability_expired
        BY <4>2, AgentFieldType
      <4> HIDE DEF agent
      <4> QED BY <4>1, <4>3, AgentChangeType
    <3> DEFINE aged == { i \in OfAgent(a) \cap InState(Waiting) : intents[i].age # "minute" }
    <3>2. PICK late \in SUBSET aged : intents' =
             [ i \in DOMAIN intents |->
                 IF i \notin aged THEN intents[i]
                 ELSE [intents[i] EXCEPT !.age = IF i \in late THEN "expired" ELSE "fresh"] ]
      BY <2>3 DEF owner_update_policy
    <3> HIDE DEF aged
    <3>3. IntentsOK' /\ DOMAIN intents' = DOMAIN intents
      <4>1. /\ DOMAIN intents' = DOMAIN intents
            /\ intents' = [ j \in DOMAIN intents |-> intents'[j] ]
        BY <3>2
      <4>2. ASSUME NEW j \in DOMAIN intents
            PROVE  intents'[j] \in IntentRecord /\ intents'[j].agent = intents[j].agent
        <5>1. intents[j] \in IntentRecord
          BY TypeParts DEF IntentsOK
        <5>2. \/ intents'[j] = intents[j]
              \/ \E x \in {"minute", "fresh", "expired"} :
                   intents'[j] = [intents[j] EXCEPT !.age = x]
          BY <3>2
        <5>3. \A x \in {"minute", "fresh", "expired"} :
                /\ [intents[j] EXCEPT !.age = x] \in IntentRecord
                /\ [intents[j] EXCEPT !.age = x].agent = intents[j].agent
          BY <5>1, IntentFieldType
        <5> QED BY <5>1, <5>2, <5>3
      <4> QED BY <3>1, <4>1, <4>2, TypeParts, IntentsRewritten
    <3> QED BY <2>3, <3>1, <3>3
            DEF owner_update_policy, TypeOK, AgentsOK, IntentsOK, purse, rails
  <2>4. ASSUME NEW mode \in Modes, owner_set_agent_mode(a, mode)
        PROVE  TypeOK'
    <3>1. AgentsOK' /\ DOMAIN agents' = DOMAIN agents
      <4> DEFINE agent == [agents[a] EXCEPT !.mode = mode]
      <4>1. a \in DOMAIN agents /\ agents' = [agents EXCEPT ![a] = agent]
        BY <2>4 DEF owner_set_agent_mode
      <4>2. /\ agents[a] \in AgentRecord /\ mode \in AutonomyMode
            /\ agents[a].session_live => ~agents[a].capability_expired
        BY <2>4, <4>1, TypeParts DEF AgentsOK, ConstantsAssumption
      <4>3. /\ agent \in AgentRecord
            /\ agent.session_live => ~agent.capability_expired
        BY <4>2 DEF AgentRecord
      <4> HIDE DEF agent
      <4> QED BY <4>1, <4>3, AgentChangeType
    <3> QED BY <2>4, <3>1 DEF owner_set_agent_mode, TypeOK, AgentsOK, purse, rails
  <2>5. CASE owner_revoke_agent(a)
    <3>1. AgentsOK' /\ DOMAIN agents' = DOMAIN agents
      <4> DEFINE agent == [agents[a] EXCEPT !.revoked = TRUE, !.mode = "disabled"]
      <4>1. a \in DOMAIN agents /\ agents' = [agents EXCEPT ![a] = agent]
        BY <2>5 DEF owner_revoke_agent, TypeOK, AgentRecord
      <4>2. agent \in AgentRecord /\ (agent.session_live => ~agent.capability_expired)
        <5>1. agents[a] \in AgentRecord /\ emergency_stop \in BOOLEAN
          BY <4>1 DEF TypeOK
        <5>2. agents[a].session_live => ~agents[a].capability_expired
          BY <4>1 DEF TypeOK
        <5> QED BY <5>1, <5>2 DEF AgentRecord, AutonomyMode
      <4> HIDE DEF agent
      <4> QED BY <4>1, <4>2, AgentChangeType
    <3> QED BY <2>5, <3>1 DEF owner_revoke_agent, TypeOK, AgentsOK, purse, rails
  <2>6. CASE owner_rotate_agent_capability(a)
    <3>1. AgentsOK' /\ DOMAIN agents' = DOMAIN agents
      <4> DEFINE agent == [agents[a] EXCEPT !.capability_expired = FALSE,
                             !.session_live = ~emergency_stop, !.revoked = FALSE,
                             !.mode = "approval_required"]
      <4>1. a \in DOMAIN agents /\ agents' = [agents EXCEPT ![a] = agent]
        BY <2>6 DEF owner_rotate_agent_capability, TypeOK, AgentRecord
      <4>2. agent \in AgentRecord /\ (agent.session_live => ~agent.capability_expired)
        <5>1. agents[a] \in AgentRecord /\ emergency_stop \in BOOLEAN
          BY <4>1 DEF TypeOK
        <5>2. agents[a].session_live => ~agents[a].capability_expired
          BY <4>1 DEF TypeOK
        <5> QED BY <5>1, <5>2 DEF AgentRecord, AutonomyMode
      <4> HIDE DEF agent
      <4> QED BY <4>1, <4>2, AgentChangeType
    <3>2. IntentsOK' /\ DOMAIN intents' = DOMAIN intents
      BY <2>6, <3>1, UnbindType DEF owner_rotate_agent_capability
    <3> QED BY <2>6, <3>1, <3>2
            DEF owner_rotate_agent_capability, TypeOK, AgentsOK, IntentsOK, purse, rails
  <2>7. ASSUME NEW reference \in DepositReferences, NEW amount \in DepositAmounts,
               owner_record_deposit(a, reference, amount)
        PROVE  TypeOK'
    <3>1. /\ a \in DOMAIN agents /\ amount \in Nat
          /\ agents[a].policy.reinvestment_ratio_bps \in Nat
      <4>1. a \in DOMAIN agents /\ amount \in Nat /\ agents[a].policy \in Policies
        BY <2>7 DEF owner_record_deposit, ConstantsAssumption, TypeOK, AgentRecord
      <4>2. agents[a].policy \in PolicyRecord
        BY <4>1 DEF ConstantsAssumption
      <4> QED BY <4>1, <4>2, RatioType
    <3>2. scaled_basis_points(amount, agents[a].policy.reinvestment_ratio_bps) \in Nat
      <4> DEFINE bps == agents[a].policy.reinvestment_ratio_bps
      <4>1. amount * bps \in Nat BY <3>1
      <4> HIDE DEF bps
      <4>2. (amount * bps) \div 10000 \in Nat BY <4>1
      <4> QED BY <4>2 DEF scaled_basis_points, bps
    <3>3. operator_topups' \in Nat
      BY <2>7, <3>2 DEF owner_record_deposit, TypeOK
    <3>4. RailsOK'
      <4>1. CASE UNCHANGED manual_provider /\ provider' = [provider EXCEPT !.balance = @ + amount]
        <5>1. provider \in ProviderRecord /\ amount \in Int
          BY <3>1 DEF TypeOK
        <5>2. provider.balance + amount \in Int
          BY <5>1, BalanceUpdateType, IntArithmetic
        <5>3. provider' \in ProviderRecord
          BY <4>1, <5>1, <5>2, BalanceUpdateType
        <5> QED BY <2>7, <4>1, <5>3 DEF owner_record_deposit, TypeOK, RailsOK
      <4>2. CASE UNCHANGED provider /\ manual_provider' =
                   [manual_provider EXCEPT !.amount = @ + amount, !.estimated = FALSE]
        <5>1. manual_provider \in ManualProviderRecord /\ amount \in Int
          BY <3>1 DEF TypeOK
        <5>2. manual_provider.amount + amount \in Int
          BY <5>1, CardUpdateType, IntArithmetic
        <5>3. manual_provider' \in ManualProviderRecord
          BY <4>2, <5>1, <5>2, CardUpdateType
        <5> QED BY <2>7, <4>2, <5>3 DEF owner_record_deposit, TypeOK, RailsOK
      <4> QED BY <2>7, <4>1, <4>2 DEF owner_record_deposit
    <3>5. AgentsOK' /\ IntentsOK' /\ emergency_stop' = emergency_stop /\ running' = {}
      BY <2>7 DEF owner_record_deposit, TypeOK, AgentsOK, IntentsOK
    <3>6. PurseOK'
      BY <2>7, <3>3 DEF owner_record_deposit, TypeOK, PurseOK
    <3> QED BY <3>4, <3>5, <3>6, NextTypeParts DEF TypeOK
  <2> QED BY <1>4, <2>1, <2>2, <2>3, <2>4, <2>5, <2>6, <2>7 DEF OwnerAgentCall
<1>5. ASSUME NEW i \in Intents, OwnerIntentCall(i)
      PROVE  TypeOK'
  <2>1. CASE owner_approve(i) \/ owner_deny(i)
    BY <1>2, <2>1, InDomain DEF owner_approve, owner_deny, TransactionState
  <2>2. CASE owner_begin_manual_handoff(i)
    BY <2>2, PrepareType, InDomain, TypeParts
    DEF owner_begin_manual_handoff, TypeOK, AgentsOK, IntentsOK, PurseOK, RailsOK
  <2>3. CASE owner_complete_manual_handoff(i)
    BY <1>2, <2>3, InDomain
    DEF owner_complete_manual_handoff, outcome_uncertain, TransactionState, purse
  <2>4. CASE owner_reconcile_settled(i)
    <3>1. i \in DOMAIN intents /\ SetSettled(i) /\ record_settled(i)
      BY <2>4, InDomain DEF owner_reconcile_settled, AcceptsSettled
    <3>2. IntentsOK' /\ DOMAIN intents' = DOMAIN intents
      BY <2>4, <3>1, SetSettledType DEF owner_reconcile_settled
    <3>3. PurseOK'
      BY <2>4, <3>1, <3>2, RecordSettledType DEF owner_reconcile_settled
    <3>4. RailsOK'
      <4>1. final_total(i) \in Nat
        BY <3>1 DEF final_total, TypeOK, IntentRecord, ConstantsAssumption, RequestRecord
      <4>2. CASE UNCHANGED << provider, manual_provider >>
        BY <2>4, <4>2 DEF owner_reconcile_settled, TypeOK, RailsOK
      <4>3. CASE UNCHANGED manual_provider /\
                 provider' = [provider EXCEPT !.balance = @ - final_total(i),
                                              !.holds = @ \ {i}, !.charges = @ \cup {i}]
        <5>1. provider \in ProviderRecord /\ final_total(i) \in Int
          BY <4>1 DEF TypeOK
        <5>2. provider.balance - final_total(i) \in Int
          BY <5>1, BalanceUpdateType, IntArithmetic
        <5>3. provider' \in ProviderRecord
          BY <4>3, <5>1, <5>2, ProviderUpdateType
        <5> QED BY <2>4, <4>3, <5>3 DEF owner_reconcile_settled, TypeOK, RailsOK
      <4>4. CASE UNCHANGED provider /\
                 manual_provider' = [manual_provider EXCEPT !.amount = @ - final_total(i)]
        BY <2>4, <4>1, <4>4 DEF owner_reconcile_settled, TypeOK, RailsOK, ManualProviderRecord
      <4> QED BY <2>4, <4>2, <4>3, <4>4 DEF owner_reconcile_settled
    <3>5. AgentsOK' /\ emergency_stop' = emergency_stop /\ running' = {}
      BY <2>4 DEF owner_reconcile_settled, TypeOK, AgentsOK
    <3> QED BY <3>2, <3>3, <3>4, <3>5, NextTypeParts DEF TypeOK
  <2>5. CASE owner_reconcile_declined(i)
    <3>1. i \in DOMAIN intents /\ SetState(i, "declined") /\ "declined" \in TransactionState
      BY <2>5, InDomain DEF owner_reconcile_declined, AcceptsDeclined, TransactionState
    <3>2. IntentsOK' /\ DOMAIN intents' = DOMAIN intents
      BY <2>5, <3>1, SetStateType DEF owner_reconcile_declined
    <3>3. PurseOK'
      BY <2>5, <3>1, <3>2 DEF owner_reconcile_declined, TypeOK, PurseOK, LedgerCounts
    <3>4. RailsOK'
      BY <2>5 DEF owner_reconcile_declined, TypeOK, RailsOK, ProviderRecord, ManualProviderRecord
    <3> QED BY <2>5, <3>2, <3>3, <3>4
            DEF owner_reconcile_declined, TypeOK, IntentsOK, PurseOK, RailsOK, AgentsOK
  <2>6. CASE owner_reconcile_refunded(i)
    <3>1. i \in DOMAIN intents
      BY <2>6, InDomain DEF owner_reconcile_refunded
    <3>2. IntentsOK' /\ DOMAIN intents' = DOMAIN intents
      <4> DEFINE intent == [intents[i] EXCEPT !.state = "refunded", !.receipt = TRUE]
      <4>1. intents' = [intents EXCEPT ![i] = intent] /\ UNCHANGED agents
        <5>1. DOMAIN intents[i] =
                {"agent", "request", "state", "bound", "age", "receipt"}
          BY <3>1 DEF TypeOK, IntentRecord
        <5>2. intents' = [intents EXCEPT ![i].state = "refunded", ![i].receipt = TRUE]
          BY <2>6 DEF owner_reconcile_refunded
        <5>3. UNCHANGED agents
          BY <2>6 DEF owner_reconcile_refunded
        <5> QED BY <3>1, <5>1, <5>2, <5>3
      <4>2. intent \in IntentRecord /\ intent.agent = intents[i].agent
        <5>1. intents[i] \in IntentRecord
          BY <3>1, TypeParts DEF IntentsOK
        <5> QED BY <5>1, RefundedRecordType
      <4> HIDE DEF intent
      <4> QED BY <3>1, <4>1, <4>2, IntentChangeType
    <3>3. ledger' \in [Intents -> LedgerCounts]
      <4>1. PICK released, spent \in BOOLEAN :
              ledger' = [ledger EXCEPT
                ![i].hold_released = IF released THEN 1 ELSE @,
                ![i].spending_settled = IF spent THEN 1 ELSE @,
                ![i].refund = @ + 1 ]
        BY <2>6 DEF owner_reconcile_refunded
      <4> QED BY <4>1 DEF TypeOK, LedgerCounts
    <3>4. PurseOK'
      BY <2>6, <3>1, <3>2, <3>3 DEF owner_reconcile_refunded, TypeOK, PurseOK
    <3>5. RailsOK'
      <4>1. final_total(i) \in Nat
        BY <3>1 DEF final_total, TypeOK, IntentRecord, ConstantsAssumption, RequestRecord
      <4>2. CASE UNCHANGED manual_provider /\
                 provider' = [provider EXCEPT !.balance = @ + final_total(i),
                                              !.refunded = @ \cup {i}]
        <5>1. provider \in ProviderRecord /\ final_total(i) \in Int
          BY <4>1 DEF TypeOK
        <5>2. provider.balance + final_total(i) \in Int
          BY <5>1, BalanceUpdateType, IntArithmetic
        <5>3. provider' \in ProviderRecord
          BY <4>2, <5>1, <5>2, ProviderUpdateType
        <5> QED BY <2>6, <4>2, <5>3 DEF owner_reconcile_refunded, TypeOK, RailsOK
      <4>3. CASE UNCHANGED provider /\
                 \E amount \in Int :
                   manual_provider' = [manual_provider EXCEPT !.amount = amount]
        <5>1. manual_provider' \in ManualProviderRecord
          BY <4>3, CardUpdateType DEF TypeOK
        <5> QED BY <2>6, <4>3, <5>1 DEF owner_reconcile_refunded, TypeOK, RailsOK
      <4>4. manual_provider.amount \in Int /\ manual_provider.amount + final_total(i) \in Int
        <5>1. manual_provider \in ManualProviderRecord /\ final_total(i) \in Int
          BY <4>1 DEF TypeOK
        <5> QED BY <5>1, CardUpdateType, IntArithmetic
      <4>5. \/ /\ UNCHANGED manual_provider
               /\ provider' = [provider EXCEPT !.balance = @ + final_total(i),
                                               !.refunded = @ \cup {i}]
            \/ /\ UNCHANGED provider
               /\ \/ manual_provider' =
                        [manual_provider EXCEPT !.amount = @ + final_total(i)]
                  \/ manual_provider' = [manual_provider EXCEPT !.amount = @]
        BY <2>6 DEF owner_reconcile_refunded
      <4> QED BY <4>2, <4>3, <4>4, <4>5
    <3>6. AgentsOK' /\ emergency_stop' = emergency_stop /\ running' = {}
      BY <2>6 DEF owner_reconcile_refunded, TypeOK, AgentsOK
    <3> QED BY <3>2, <3>4, <3>5, <3>6, NextTypeParts DEF TypeOK
  <2> QED BY <1>5, <2>1, <2>2, <2>3, <2>4, <2>5, <2>6 DEF OwnerIntentCall
<1>6. CASE OwnerTreasuryCall
  <2>1. CASE owner_emergency_stop_on
    <3>1. AgentsOK' /\ DOMAIN agents' = DOMAIN agents
      <4>1. /\ DOMAIN agents' = DOMAIN agents
            /\ agents' = [ a \in DOMAIN agents |-> agents'[a] ]
        BY <2>1 DEF owner_emergency_stop_on
      <4>2. ASSUME NEW a \in DOMAIN agents
            PROVE  agents'[a] \in AgentRecord /\ agents'[a].session_live = FALSE
        <5>1. agents[a] \in AgentRecord
          BY TypeParts DEF AgentsOK
        <5>2. agents'[a] = [agents[a] EXCEPT !.session_live = FALSE]
          BY <2>1 DEF owner_emergency_stop_on
        <5>3. /\ [agents[a] EXCEPT !.session_live = FALSE] \in AgentRecord
              /\ [agents[a] EXCEPT !.session_live = FALSE].session_live = FALSE
          BY <5>1, AgentFieldType
        <5> QED BY <5>2, <5>3
      <4> QED BY <4>1, <4>2, TypeParts DEF AgentsOK
    <3>2. IntentsOK' /\ DOMAIN intents' = DOMAIN intents
      BY <2>1, <3>1, UnbindType DEF owner_emergency_stop_on
    <3> QED BY <2>1, <3>1, <3>2
            DEF owner_emergency_stop_on, TypeOK, AgentsOK, IntentsOK, purse, rails
  <2>2. CASE owner_emergency_stop_off
    BY <2>2 DEF owner_emergency_stop_off, TypeOK, purse, rails
  <2>3. ASSUME NEW reference \in DepositReferences, owner_record_unverified_deposit(reference)
        PROVE  TypeOK'
    BY <2>3 DEF owner_record_unverified_deposit, TypeOK, rails
  <2>4. ASSUME NEW balance \in ManualBalances, NEW estimated \in BOOLEAN,
               NEW autonomous \in BOOLEAN,
               owner_configure_manual_provider(balance, estimated, autonomous)
        PROVE  TypeOK'
    BY <2>4 DEF owner_configure_manual_provider, TypeOK, purse, ConstantsAssumption,
                ManualProviderRecord
  <2> QED BY <1>6, <2>1, <2>2, <2>3, <2>4 DEF OwnerTreasuryCall
<1> QED BY <1>1, <1>3, <1>4, <1>5, <1>6 DEF Handler, AgentCall

LEMMA ExecutionType ==
  ASSUME TypeOK, NEW i \in DOMAIN intents, prepare_intent_execution(i), running' = {i}
  PROVE  TypeOK'
BY PrepareType, NextTypeParts

(* The answer changes one intent, its ledger and the simulated provider.    *)
LEMMA CompletionType ==
  ASSUME ConstantsAssumption, TypeOK, NEW i \in Intents, complete_intent_execution(i)
  PROVE  TypeOK'
<1>1. i \in DOMAIN intents
  BY DEF complete_intent_execution, TypeOK
<1>2. UNCHANGED << agents, operator_topups, processed_deposits, emergency_stop,
                   provider_mode, manual_provider >> /\ running' = {}
  BY DEF complete_intent_execution
<1>3. AgentsOK' /\ emergency_stop' \in BOOLEAN
  BY <1>2 DEF TypeOK, AgentsOK
<1>4. /\ outcome_approved(i) \/ outcome_declined(i)
           \/ \E s \in {"unknown", "provider_pending"} : outcome_uncertain(i, s)
      /\ \/ UNCHANGED provider
         \/ provider' = [provider EXCEPT !.holds = @ \cup {i}]
         \/ provider' = [provider EXCEPT !.balance = @ - final_total(i),
                                         !.charges = @ \cup {i}]
  BY DEF complete_intent_execution, authorize
<1>5. IntentsOK' /\ DOMAIN intents' = DOMAIN intents /\ PurseOK'
  <2>1. CASE outcome_approved(i)
    BY <1>1, <1>2, <2>1, SetSettledType, RecordSettledType DEF outcome_approved
  <2>2. CASE outcome_declined(i)
    <3>1. IntentsOK' /\ DOMAIN intents' = DOMAIN intents
      BY <1>1, <1>2, <2>2, SetStateType DEF outcome_declined, TransactionState
    <3>2. PurseOK'
      BY <1>2, <2>2, <3>1 DEF outcome_declined, TypeOK, PurseOK, LedgerCounts
    <3> QED BY <3>1, <3>2
  <2>3. ASSUME NEW s \in {"unknown", "provider_pending"}, outcome_uncertain(i, s)
        PROVE  IntentsOK' /\ DOMAIN intents' = DOMAIN intents /\ PurseOK'
    <3>1. IntentsOK' /\ DOMAIN intents' = DOMAIN intents
      BY <1>1, <1>2, <2>3, SetStateType DEF outcome_uncertain, TransactionState
    <3> QED BY <1>2, <2>3, <3>1 DEF outcome_uncertain, TypeOK, PurseOK
  <2> QED BY <1>4, <2>1, <2>2, <2>3
<1>6. RailsOK'
  <2>1. provider \in ProviderRecord
    BY DEF TypeOK
  <2>2. final_total(i) \in Int
    BY <1>1 DEF final_total, TypeOK, IntentRecord, ConstantsAssumption, RequestRecord
  <2>3. provider.balance - final_total(i) \in Int
    BY <2>1, <2>2, BalanceUpdateType, IntArithmetic
  <2>4. provider' \in ProviderRecord
    <3>1. CASE UNCHANGED provider
      BY <2>1, <3>1
    <3>2. CASE provider' = [provider EXCEPT !.holds = @ \cup {i}]
      BY <2>1, <2>3, <3>2, ProviderUpdateType
    <3>3. CASE provider' = [provider EXCEPT !.balance = @ - final_total(i),
                                            !.charges = @ \cup {i}]
      BY <2>1, <2>3, <3>3, ProviderUpdateType
    <3> QED BY <1>4, <3>1, <3>2, <3>3
  <2> QED BY <1>2, <2>4 DEF TypeOK, RailsOK
<1> QED BY <1>2, <1>3, <1>5, <1>6, NextTypeParts

LEMMA TickType ==
  ASSUME TypeOK, Tick
  PROVE  TypeOK'
<1>1. ASSUME NEW i \in Intents, IntentAges(i)
      PROVE  TypeOK'
  <2>1. i \in DOMAIN intents
    BY <1>1 DEF IntentAges
  <2>2. PICK age \in {"fresh", "expired"} : intents' = [intents EXCEPT ![i].age = age]
    BY <1>1 DEF IntentAges
  <2>3. UNCHANGED << agents, purse, emergency_stop, rails, running >>
    BY <1>1 DEF IntentAges
  <2>4. IntentsOK' /\ DOMAIN intents' = DOMAIN intents
    <3> DEFINE intent == [intents[i] EXCEPT !.age = age]
    <3>1. intents' = [intents EXCEPT ![i] = intent]
      BY <2>2
    <3>2. intents[i] \in IntentRecord
      BY <2>1 DEF TypeOK
    <3>3. intent \in IntentRecord /\ intent.agent = intents[i].agent
      BY <3>2 DEF IntentRecord
    <3> HIDE DEF intent
    <3> QED BY <2>1, <2>3, <3>1, <3>3, IntentChangeType
  <2> QED BY <2>3, <2>4 DEF TypeOK, IntentsOK, purse, rails
<1>2. ASSUME NEW i \in Intents, SettlementLeavesWindow(i)
      PROVE  TypeOK'
  BY <1>2 DEF SettlementLeavesWindow, TypeOK, rails
<1>3. ASSUME NEW a \in Agents, SessionEnds(a) \/ CapabilityExpires(a)
      PROVE  TypeOK'
  <2>1. AgentsOK' /\ DOMAIN agents' = DOMAIN agents
    <3>1. a \in DOMAIN agents /\ agents[a] \in AgentRecord
      BY <1>3 DEF SessionEnds, CapabilityExpires, TypeOK
    <3>2. CASE SessionEnds(a)
      <4> DEFINE agent == [agents[a] EXCEPT !.session_live = FALSE]
      <4>1. agents' = [agents EXCEPT ![a] = agent]
        BY <3>2 DEF SessionEnds
      <4>2. agent \in AgentRecord /\ ~agent.session_live
        BY <3>1 DEF AgentRecord
      <4> HIDE DEF agent
      <4> QED BY <3>1, <4>1, <4>2, AgentChangeType
    <3>3. CASE CapabilityExpires(a)
      <4> DEFINE agent == [agents[a] EXCEPT !.capability_expired = TRUE, !.session_live = FALSE]
      <4>1. agents' = [agents EXCEPT ![a] = agent]
        BY <3>1, <3>3 DEF CapabilityExpires, TypeOK
      <4>2. agent \in AgentRecord /\ ~agent.session_live
        BY <3>1 DEF AgentRecord
      <4> HIDE DEF agent
      <4> QED BY <3>1, <4>1, <4>2, AgentChangeType
    <3> QED BY <1>3, <3>2, <3>3
  <2> QED BY <1>3, <2>1
          DEF SessionEnds, CapabilityExpires, TypeOK, AgentsOK, purse, rails
<1>4. CASE BalanceExpires
  <2>1. manual_provider \in ManualProviderRecord
    BY DEF TypeOK
  <2>2. manual_provider' = [manual_provider EXCEPT !.expired = TRUE]
    BY <1>4 DEF BalanceExpires
  <2>3. manual_provider' \in ManualProviderRecord
    BY <2>1, <2>2 DEF ManualProviderRecord
  <2> QED BY <1>4, <2>3 DEF BalanceExpires, TypeOK, purse
<1> QED BY <1>1, <1>2, <1>3, <1>4, Zenon DEF Tick

LEMMA NextType ==
  ASSUME ConstantsAssumption, TypeOK, [Next]_vars
  PROVE  TypeOK'
<1>1. CASE Call
  <2>1. CASE Handler
    BY <1>1, <2>1, HandlerType DEF Call
  <2>2. CASE Execution
    BY <2>2, ExecutionType DEF Execution, execute_intent, execute_controlled_checkout, OfAgent
  <2>3. CASE \E i \in Intents : owner_execute_approved_handoff(i)
    BY <2>3, ExecutionType, InDomain DEF owner_execute_approved_handoff
  <2> QED BY <1>1, <2>1, <2>2, <2>3 DEF Call
<1>2. CASE Tick
  BY <1>2, TickType
<1>3. CASE \E i \in Intents : complete_intent_execution(i)
  BY <1>3, CompletionType
<1>4. CASE UNCHANGED vars
  BY <1>4 DEF vars, TypeOK
<1> QED BY <1>1, <1>2, <1>3, <1>4 DEF Next

LEMMA TypeInit == Init => TypeOK
<1> SUFFICES ASSUME Init PROVE TypeOK
  OBVIOUS
<1>1. provider \in ProviderRecord
  BY ConstantsAssumption DEF ConstantsAssumption, Init, ProviderRecord
<1>2. AgentsOK /\ IntentsOK
  BY DEF Init, AgentsOK, IntentsOK
<1>3. ledger \in [Intents -> LedgerCounts]
  BY DEF Init, LedgerCounts
<1>4. manual_provider \in ManualProviderRecord
  BY DEF Init, ManualProviderRecord
<1> QED BY <1>1, <1>2, <1>3, <1>4, TypeParts DEF Init, PurseOK, RailsOK

(* Type correctness: whatever calls, answers and clock steps happen, every  *)
(* variable keeps its shape, every intent belongs to a known agent, and no  *)
(* session is live after its agent's capability has expired.                *)
THEOREM TypeCorrect == Spec => []TypeOK
<1>1. TypeOK /\ [Next]_vars => TypeOK'
  BY NextType, ConstantsAssumption
<1> QED BY <1>1, TypeInit, PTL DEF Spec

-----------------------------------------------------------------------------
(* The stop.  The invariant behind StopIsFinal: while the stop is on, no    *)
(* waiting purchase is bound to a session any more.                         *)
StopUnbinds == emergency_stop => \A i \in InState(Waiting) : ~intents[i].bound

(* An existing intent is never bound again, never returns to waiting or to  *)
(* its creation, and, waiting and unbound, can only be approved or          *)
(* cancelled.                                                               *)
Kept(j) ==
  /\ j \in DOMAIN intents'
  /\ intents[j].bound' => intents[j].bound
  /\ intents[j].state' \in Waiting => intents[j].state \in Waiting
  /\ intents[j].state' \in {"draft", "proposed"} => intents[j].state' = intents[j].state
  /\ intents[j].state \in Waiting \cup {"cancelled"} /\ ~intents[j].bound
       => intents[j].state' \in Waiting \cup {"cancelled"}

LEMMA SetStateKeeps ==
  ASSUME TypeOK, NEW i \in DOMAIN intents, NEW s, SetState(i, s),
         s \notin {"draft", "proposed"},
         s \in Waiting => intents[i].state \in Waiting,
         intents[i].state \in Waiting \cup {"cancelled"} /\ ~intents[i].bound
           => s \in Waiting \cup {"cancelled"}
  PROVE  \A j \in DOMAIN intents : Kept(j)
BY DEF TypeOK, IntentRecord, SetState, Kept

LEMMA SetEndedKeeps ==
  ASSUME TypeOK, NEW i \in DOMAIN intents, NEW s \in {"settled", "refunded"},
         intents' = [intents EXCEPT ![i].state = s, ![i].receipt = TRUE],
         intents[i].state \notin Waiting \cup {"cancelled"}
  PROVE  \A j \in DOMAIN intents : Kept(j)
<1>1. DOMAIN intents' = DOMAIN intents
  BY DEF TypeOK
<1>2. intents[i].state' = s /\ intents[i].bound' = intents[i].bound
  BY DEF TypeOK, IntentRecord
<1>3. \A j \in DOMAIN intents \ {i} : intents'[j] = intents[j]
  BY DEF TypeOK
<1> QED BY <1>1, <1>2, <1>3 DEF Kept, Waiting

LEMMA UnbindKeeps ==
  ASSUME TypeOK, NEW S, intents' = Unbind(S)
  PROVE  \A j \in DOMAIN intents : Kept(j)
BY DEF TypeOK, IntentRecord, Unbind, Kept

LEMMA SameKeeps ==
  ASSUME UNCHANGED intents
  PROVE  \A j \in DOMAIN intents : Kept(j)
BY DEF Kept

LEMMA StateClasses ==
  /\ Waiting \cap (Reserving \cup Terminal) = {}
  /\ "cancelled" \notin Reserving
  /\ Uncertain \subseteq Reserving
  /\ Executable \subseteq Waiting
BY DEF Waiting, Reserving, Terminal, Uncertain, Executable

LEMMA PrepareKeeps ==
  ASSUME TypeOK, NEW i \in DOMAIN intents, prepare_intent_execution(i)
  PROVE  \A j \in DOMAIN intents : Kept(j)
<1>1. SetState(i, "executing") /\ intents[i].bound
  BY DEF prepare_intent_execution
<1> QED BY <1>1, SetStateKeeps DEF Waiting

LEMMA HandlerKeeps ==
  ASSUME TypeOK, Handler
  PROVE  \A j \in DOMAIN intents : Kept(j)
<1>1. ASSUME NEW a \in Agents, AgentCall(a)
      PROVE  \A j \in DOMAIN intents : Kept(j)
  <2>1. ASSUME NEW i \in Intents, NEW r \in Requests, create_intent(a, i, r)
        PROVE  \A j \in DOMAIN intents : Kept(j)
    <3>1. i \notin DOMAIN intents /\ \E record : intents' = Put(i, record)
      BY <2>1 DEF create_intent
    <3> QED BY <3>1 DEF Put, Kept
  <2>2. ASSUME NEW i \in Intents, cancel_intent(a, i)
        PROVE  \A j \in DOMAIN intents : Kept(j)
    <3>1. i \in DOMAIN intents /\ SetState(i, "cancelled")
      BY <2>2 DEF cancel_intent, OfAgent
    <3> QED BY <3>1, SetStateKeeps DEF Waiting
  <2> QED BY <1>1, <2>1, <2>2 DEF AgentCall
<1>2. ASSUME NEW a \in Agents, OwnerAgentCall(a)
      PROVE  \A j \in DOMAIN intents : Kept(j)
  <2>1. CASE intents' = Unbind({a})
    BY <2>1, UnbindKeeps
  <2>2. CASE UNCHANGED intents
    BY <2>2, SameKeeps
  <2>3. ASSUME NEW p \in Policies, owner_update_policy(a, p)
        PROVE  \A j \in DOMAIN intents : Kept(j)
    <3> DEFINE aged == { i \in OfAgent(a) \cap InState(Waiting) : intents[i].age # "minute" }
    <3>1. PICK late \in SUBSET aged : intents' =
             [ i \in DOMAIN intents |->
                 IF i \notin aged THEN intents[i]
                 ELSE [intents[i] EXCEPT !.age = IF i \in late THEN "expired" ELSE "fresh"] ]
      BY <2>3 DEF owner_update_policy
    <3> HIDE DEF aged
    <3> QED BY <3>1 DEF TypeOK, IntentRecord, Kept
  <2>4. \/ intents' = Unbind({a}) \/ UNCHANGED intents
        \/ \E p \in Policies : owner_update_policy(a, p)
    BY <1>2 DEF OwnerAgentCall, owner_create_agent, owner_arm_agent_session,
                owner_set_agent_mode, owner_revoke_agent, owner_rotate_agent_capability,
                owner_record_deposit
  <2> QED BY <2>1, <2>2, <2>3, <2>4
<1>3. ASSUME NEW i \in Intents, OwnerIntentCall(i)
      PROVE  \A j \in DOMAIN intents : Kept(j)
  <2>1. CASE owner_approve(i) \/ owner_deny(i)
    <3>1. /\ i \in InState({"approval_required"})
          /\ SetState(i, "approved") \/ SetState(i, "cancelled")
      BY <2>1 DEF owner_approve, owner_deny
    <3> QED BY <3>1, SetStateKeeps DEF InState, Waiting
  <2>2. CASE owner_begin_manual_handoff(i)
    BY <2>2, PrepareKeeps, InDomain DEF owner_begin_manual_handoff
  <2>3. CASE owner_complete_manual_handoff(i)
    <3>1. i \in InState({"executing"}) /\ SetState(i, "unknown")
      BY <2>3 DEF owner_complete_manual_handoff, outcome_uncertain
    <3> QED BY <3>1, SetStateKeeps DEF InState, Waiting
  <2>4. CASE owner_reconcile_settled(i)
    <3>1. i \in InState(Uncertain) /\ SetSettled(i)
      BY <2>4 DEF owner_reconcile_settled, AcceptsSettled
    <3> QED BY <3>1, SetEndedKeeps, StateClasses DEF InState, SetSettled, Reserving
  <2>5. CASE owner_reconcile_declined(i)
    <3>1. i \in InState(Uncertain) /\ SetState(i, "declined")
      BY <2>5 DEF owner_reconcile_declined, AcceptsDeclined
    <3> QED BY <3>1, SetStateKeeps DEF InState, Waiting, Uncertain
  <2>6. CASE owner_reconcile_refunded(i)
    <3>1. /\ i \in InState(Uncertain \cup {"settled"})
          /\ intents' = [intents EXCEPT ![i].state = "refunded", ![i].receipt = TRUE]
      BY <2>6 DEF owner_reconcile_refunded
    <3>2. i \in DOMAIN intents /\ intents[i].state \notin Waiting \cup {"cancelled"}
      BY <3>1 DEF InState, Uncertain, Waiting
    <3> QED BY <3>1, <3>2, SetEndedKeeps
  <2> QED BY <1>3, <2>1, <2>2, <2>3, <2>4, <2>5, <2>6 DEF OwnerIntentCall
<1>4. CASE OwnerTreasuryCall
  <2>1. intents' = Unbind(DOMAIN agents) \/ UNCHANGED intents
    BY <1>4 DEF OwnerTreasuryCall, owner_emergency_stop_on, owner_emergency_stop_off,
                owner_record_unverified_deposit, owner_configure_manual_provider
  <2> QED BY <2>1, UnbindKeeps, SameKeeps
<1> QED BY <1>1, <1>2, <1>3, <1>4 DEF Handler

LEMMA StepKeeps ==
  ASSUME TypeOK, [Next]_vars
  PROVE  \A j \in DOMAIN intents : Kept(j)
<1>1. CASE Call
  <2>1. CASE Handler
    BY <2>1, HandlerKeeps
  <2>2. ASSUME NEW i \in DOMAIN intents, prepare_intent_execution(i)
        PROVE  \A j \in DOMAIN intents : Kept(j)
    BY <2>2, PrepareKeeps
  <2> QED BY <1>1, <2>1, <2>2, InDomain
          DEF Call, Execution, execute_intent, execute_controlled_checkout, OfAgent,
              owner_execute_approved_handoff
<1>2. ASSUME NEW i \in Intents, complete_intent_execution(i)
      PROVE  \A j \in DOMAIN intents : Kept(j)
  <2>1. /\ i \in DOMAIN intents /\ intents[i].state = "executing"
        /\ SetSettled(i)
           \/ \E s \in {"declined", "unknown", "provider_pending"} : SetState(i, s)
    BY <1>2 DEF complete_intent_execution, authorize, outcome_approved, outcome_declined,
                outcome_uncertain, TypeOK
  <2>2. CASE SetSettled(i)
    BY <2>1, <2>2, SetEndedKeeps DEF SetSettled, Waiting
  <2>3. ASSUME NEW s \in {"declined", "unknown", "provider_pending"}, SetState(i, s)
        PROVE  \A j \in DOMAIN intents : Kept(j)
    BY <2>1, <2>3, SetStateKeeps DEF Waiting
  <2> QED BY <2>1, <2>2, <2>3
<1>3. CASE Tick
  <2>1. ASSUME NEW i \in Intents, IntentAges(i)
        PROVE  \A j \in DOMAIN intents : Kept(j)
    <3>1. i \in DOMAIN intents /\ \E age : intents' = [intents EXCEPT ![i].age = age]
      BY <2>1 DEF IntentAges
    <3> QED BY <3>1 DEF TypeOK, IntentRecord, Kept
  <2>2. UNCHANGED intents \/ \E i \in Intents : IntentAges(i)
    BY <1>3 DEF Tick, SettlementLeavesWindow, SessionEnds, CapabilityExpires, BalanceExpires
  <2> QED BY <2>1, <2>2, SameKeeps
<1>4. CASE UNCHANGED vars
  BY <1>4, SameKeeps DEF vars
<1> QED BY <1>1, <1>2, <1>3, <1>4 DEF Next

(* Only create_intent adds an intent, and only owner_emergency_stop turns   *)
(* the stop on.                                                             *)
LEMMA StepScope ==
  ASSUME TypeOK, [Next]_vars
  PROVE  /\ \/ DOMAIN intents' = DOMAIN intents
            \/ \E a \in Agents, i \in Intents, r \in Requests : create_intent(a, i, r)
         /\ emergency_stop' => emergency_stop \/ owner_emergency_stop_on
<1> DEFINE Scope ==
      /\ \/ DOMAIN intents' = DOMAIN intents
         \/ \E a \in Agents, i \in Intents, r \in Requests : create_intent(a, i, r)
      /\ emergency_stop' => emergency_stop \/ owner_emergency_stop_on
<1>1. ASSUME NEW a \in Agents, AgentCall(a)
      PROVE  Scope
  <2>1. ASSUME NEW i \in Intents, NEW r \in Requests, create_intent(a, i, r)
        PROVE  Scope
    <3>1. emergency_stop' = emergency_stop
      BY <2>1 DEF create_intent
    <3> QED BY <2>1, <3>1
  <2>2. ASSUME NEW i \in Intents, cancel_intent(a, i)
        PROVE  Scope
    <3>1. emergency_stop' = emergency_stop /\ DOMAIN intents' = DOMAIN intents
      BY <2>2 DEF cancel_intent, SetState, TypeOK
    <3> QED BY <3>1
  <2> QED BY <1>1, <2>1, <2>2 DEF AgentCall
<1>2. ASSUME NEW a \in Agents, OwnerAgentCall(a)
      PROVE  Scope
  <2>1. ASSUME NEW p \in Policies, owner_update_policy(a, p)
        PROVE  Scope
    <3>1. emergency_stop' = emergency_stop /\ DOMAIN intents' = DOMAIN intents
      BY <2>1 DEF owner_update_policy
    <3> QED BY <3>1
  <2>2. CASE UNCHANGED emergency_stop /\ (intents' = Unbind({a}) \/ UNCHANGED intents)
    BY <2>2 DEF Unbind
  <2>3. \/ \E p \in Policies : owner_update_policy(a, p)
        \/ UNCHANGED emergency_stop /\ (intents' = Unbind({a}) \/ UNCHANGED intents)
    BY <1>2 DEF OwnerAgentCall, owner_create_agent, owner_arm_agent_session,
                owner_set_agent_mode, owner_revoke_agent, owner_rotate_agent_capability,
                owner_record_deposit
  <2> QED BY <2>1, <2>2, <2>3
<1>3. ASSUME NEW i \in Intents, OwnerIntentCall(i)
      PROVE  Scope
  BY <1>3 DEF OwnerIntentCall, owner_approve, owner_deny, owner_begin_manual_handoff,
              prepare_intent_execution, owner_complete_manual_handoff, outcome_uncertain,
              owner_reconcile_settled, owner_reconcile_declined, owner_reconcile_refunded,
              SetState, SetSettled
<1>4. CASE OwnerTreasuryCall
  BY <1>4 DEF OwnerTreasuryCall, owner_emergency_stop_on, owner_emergency_stop_off,
              owner_record_unverified_deposit, owner_configure_manual_provider, Unbind
<1>5. CASE Execution \/ \E i \in Intents : owner_execute_approved_handoff(i)
  BY <1>5 DEF Execution, execute_intent, execute_controlled_checkout,
              owner_execute_approved_handoff, prepare_intent_execution, SetState
<1>6. ASSUME NEW i \in Intents, complete_intent_execution(i)
      PROVE  Scope
  BY <1>6 DEF complete_intent_execution, authorize, outcome_approved, outcome_declined,
              outcome_uncertain, SetState, SetSettled
<1>7. CASE Tick
  <2>1. UNCHANGED emergency_stop /\ (UNCHANGED intents \/ \E i \in Intents : IntentAges(i))
    BY <1>7 DEF Tick, IntentAges, SettlementLeavesWindow, SessionEnds, CapabilityExpires,
                BalanceExpires
  <2>2. ASSUME NEW i \in Intents, IntentAges(i)
        PROVE  DOMAIN intents' = DOMAIN intents
    BY <2>2 DEF IntentAges, TypeOK
  <2> QED BY <2>1, <2>2
<1>8. CASE UNCHANGED vars
  BY <1>8 DEF vars
<1> QED BY <1>1, <1>2, <1>3, <1>4, <1>5, <1>6, <1>7, <1>8 DEF Next, Call, Handler

(* Under the stop a new intent is refused at once.                          *)
LEMMA StoppedCreateFails ==
  ASSUME TypeOK, NEW a \in Agents, NEW i \in Intents, NEW r \in Requests,
         create_intent(a, i, r), emergency_stop
  PROVE  intents[i].state' \notin Waiting /\ DOMAIN intents' = DOMAIN intents \cup {i}
<1>1. evaluate(a, r) = "denied"
  BY DEF evaluate
<1>2. decide(a, r) = "denied"
  BY <1>1 DEF decide, enforce_authority
<1>3. intents' = Put(i, [ agent |-> a, request |-> r, state |-> "failed",
                          bound |-> TRUE, age |-> "minute", receipt |-> FALSE ])
  BY <1>2 DEF create_intent
<1> QED BY <1>3 DEF Put, Waiting

LEMMA StopUnbindsStep ==
  ASSUME TypeOK, StopUnbinds, [Next]_vars
  PROVE  StopUnbinds'
<1> SUFFICES ASSUME emergency_stop', NEW i \in InState(Waiting)'
             PROVE  ~intents[i].bound'
  BY DEF StopUnbinds
<1>1. i \in DOMAIN intents' /\ intents[i].state' \in Waiting
  BY DEF InState
<1>2. CASE owner_emergency_stop_on
  BY <1>1, <1>2 DEF owner_emergency_stop_on, Unbind, TypeOK, IntentRecord
<1>3. CASE emergency_stop
  <2>1. i \in DOMAIN intents
    BY <1>1, <1>3, StepScope, StoppedCreateFails
  <2>2. Kept(i)
    BY <2>1, StepKeeps
  <2>3. ~intents[i].bound
    BY <1>1, <1>3, <2>1, <2>2 DEF Kept, StopUnbinds, InState
  <2> QED BY <2>2, <2>3, <1>1, <2>1 DEF Kept
<1> QED BY <1>2, <1>3, StepScope

(* A purchase the stop caught: it can be approved or cancelled, not started.*)
Stopped(i) ==
  /\ i \in DOMAIN intents
  /\ ~intents[i].bound /\ intents[i].state \in Waiting \cup {"cancelled"}

(* The owner's emergency stop is final for every purchase that was waiting: *)
(* after owner_emergency_stop has replaced the sessions, no order of        *)
(* lifting it, arming, rotating and approving starts such a purchase.       *)
THEOREM StopFinal == Spec => StopIsFinal
<1> SUFFICES ASSUME NEW i \in Intents
             PROVE  Spec => []( (emergency_stop /\ i \in InState(Waiting))
                                  => [](i \notin InState(Reserving \cup {"settled"})) )
  BY DEF StopIsFinal
<1>1. Init => StopUnbinds
  BY DEF Init, StopUnbinds
<1>2. TypeOK /\ StopUnbinds /\ [Next]_vars => StopUnbinds'
  BY StopUnbindsStep
<1>3. TypeOK /\ StopUnbinds /\ emergency_stop /\ i \in InState(Waiting) => Stopped(i)
  BY DEF StopUnbinds, Stopped, InState
<1>4. TypeOK /\ Stopped(i) /\ [Next]_vars => Stopped(i)'
  <2> SUFFICES ASSUME TypeOK, Stopped(i), [Next]_vars
               PROVE  Stopped(i)'
    OBVIOUS
  <2>1. Kept(i)
    BY StepKeeps DEF Stopped
  <2>2. intents[i].bound' \in BOOLEAN
    BY NextType, ConstantsAssumption, <2>1 DEF TypeOK, IntentRecord, Kept
  <2> QED BY <2>1, <2>2 DEF Stopped, Kept
<1>5. Stopped(i) => i \notin InState(Reserving \cup {"settled"})
  BY DEF Stopped, InState, Waiting, Reserving
<1>6. Spec => []TypeOK
  BY TypeCorrect
<1> QED BY <1>1, <1>2, <1>3, <1>4, <1>5, <1>6, PTL DEF Spec

-----------------------------------------------------------------------------
(***************************************************************************)
(* Money.  The handlers are first sorted by what they do to it             *)
(* (SortedStep): a step moves no money, or moves one purchase in one of    *)
(* six ways, or records a deposit, or changes the provider.  Every theorem *)
(* below is proved over these kinds of steps and not over the handlers.    *)
(***************************************************************************)

(***************************************************************************)
(* The laws of sums of amounts.  A sum is the number of its minor units,   *)
(* so each law is one about the cardinality of finite sets and needs no    *)
(* induction.                                                              *)
(***************************************************************************)

(* f gives an amount to every member of the finite set S.                   *)
Amounts(S, f) == IsFiniteSet(S) /\ \A x \in S : f[x] \in Nat

LEMMA UnitsOfOne ==
  ASSUME NEW x, NEW n \in Nat
  PROVE  IsFiniteSet({x} \X (1 .. n)) /\ Cardinality({x} \X (1 .. n)) = n
<1> DEFINE one == {x}
           units == 1 .. n
<1>1. IsFiniteSet(one) /\ Cardinality(one) = 1
  BY FS_Singleton
<1>2. IsFiniteSet(units) /\ Cardinality(units) = n
  BY FS_Interval
<1> HIDE DEF one, units
<1>3. /\ IsFiniteSet(one \X units)
      /\ Cardinality(one \X units) = Cardinality(one) * Cardinality(units)
  BY <1>1, <1>2, FS_Product
<1>4. Cardinality(one \X units) = n
  BY <1>1, <1>2, <1>3
<1> QED BY <1>3, <1>4 DEF one, units

LEMMA UnitsMembers ==
  ASSUME NEW S, NEW f, NEW u
  PROVE  u \in Units(S, f) <=> \E x \in S : u \in {x} \X (1 .. f[x])
BY DEF Units

LEMMA TotalType ==
  ASSUME NEW S, NEW f, Amounts(S, f)
  PROVE  IsFiniteSet(Units(S, f)) /\ Total(S, f) \in Nat
<1> DEFINE parts == { {x} \X (1 .. f[x]) : x \in S }
           part == [ x \in S |-> {x} \X (1 .. f[x]) ]
<1>1. part \in Surjection(S, parts)
  BY DEF Surjection
<1>2. IsFiniteSet(parts)
  BY <1>1, FS_Surjection DEF Amounts
<1>3. \A T \in parts : IsFiniteSet(T)
  <2>1. \A x \in S : IsFiniteSet({x} \X (1 .. f[x]))
    BY UnitsOfOne DEF Amounts
  <2> QED BY <2>1
<1>4. IsFiniteSet(UNION parts)
  BY <1>2, <1>3, FS_UNION
<1> QED BY <1>4, FS_CardinalityType DEF Units, Total

LEMMA TotalEmpty == \A f : Total({}, f) = 0
<1>1. \A f : Units({}, f) = {}
  BY DEF Units
<1> QED BY <1>1, FS_EmptySet DEF Total

LEMMA TotalOne ==
  ASSUME NEW x, NEW f, f[x] \in Nat
  PROVE  Total({x}, f) = f[x]
<1>1. Units({x}, f) = {x} \X (1 .. f[x])
  BY DEF Units
<1> QED BY <1>1, UnitsOfOne DEF Total

(* A sum over two sets without a common member.                             *)
LEMMA TotalUnion ==
  ASSUME NEW S, NEW T, NEW f, Amounts(S, f), Amounts(T, f), S \cap T = {}
  PROVE  Total(S \cup T, f) = Total(S, f) + Total(T, f)
<1>1. Units(S \cup T, f) = Units(S, f) \cup Units(T, f)
  BY UnitsMembers
<1>2. Units(S, f) \cap Units(T, f) = {}
  <2> SUFFICES ASSUME NEW u \in Units(S, f), u \in Units(T, f) PROVE FALSE
    OBVIOUS
  <2>1. PICK x \in S : u \in {x} \X (1 .. f[x])
    BY UnitsMembers
  <2>2. PICK y \in T : u \in {y} \X (1 .. f[y])
    BY UnitsMembers
  <2> QED BY <2>1, <2>2
<1>3. IsFiniteSet(Units(S, f)) /\ IsFiniteSet(Units(T, f))
  BY TotalType
<1>4. Cardinality(Units(S, f)) \in Nat /\ Cardinality(Units(T, f)) \in Nat
  BY <1>3, FS_CardinalityType
<1>5. Cardinality(Units(S, f) \cap Units(T, f)) = 0
  BY <1>2, FS_EmptySet
<1> DEFINE s == Units(S, f)
           t == Units(T, f)
<1> HIDE DEF s, t
<1>6. Cardinality(s \cup t) = Cardinality(s) + Cardinality(t) - Cardinality(s \cap t)
  BY <1>3, FS_Union DEF s, t
<1>7. Cardinality(s \cup t) = Cardinality(s) + Cardinality(t)
  BY <1>4, <1>5, <1>6 DEF s, t
<1> QED BY <1>1, <1>7 DEF Total, s, t

LEMMA TotalAdd ==
  ASSUME NEW S, NEW f, Amounts(S, f), NEW x, x \notin S, f[x] \in Nat
  PROVE  Total(S \cup {x}, f) = Total(S, f) + f[x]
<1>1. Amounts({x}, f)
  BY FS_Singleton DEF Amounts
<1> QED BY <1>1, TotalUnion, TotalOne

LEMMA TotalRemove ==
  ASSUME NEW S, NEW f, Amounts(S, f), NEW x \in S
  PROVE  Total(S \ {x}, f) = Total(S, f) - f[x]
<1>1. Amounts(S \ {x}, f)
  BY FS_RemoveElement DEF Amounts
<1>2. Total(S, f) = Total(S \ {x}, f) + f[x]
  <2>1. S = (S \ {x}) \cup {x} /\ x \notin S \ {x} /\ f[x] \in Nat
    BY DEF Amounts
  <2> QED BY <1>1, <2>1, TotalAdd
<1>3. Total(S, f) \in Nat /\ Total(S \ {x}, f) \in Nat /\ f[x] \in Nat
  BY <1>1, TotalType DEF Amounts
<1> QED BY <1>2, <1>3

LEMMA TotalSubset ==
  ASSUME NEW S, NEW f, Amounts(S, f), NEW T, T \subseteq S
  PROVE  Amounts(T, f) /\ Total(T, f) <= Total(S, f)
<1>1. Units(T, f) \in SUBSET Units(S, f)
  BY UnitsMembers
<1>2. IsFiniteSet(T)
  BY FS_Subset DEF Amounts
<1> QED BY <1>1, <1>2, TotalType, FS_Subset DEF Total, Amounts

(* The sum depends on the amounts of its members alone, and only on those   *)
(* that are not zero.                                                       *)
LEMMA TotalSupport ==
  ASSUME NEW S, NEW T, NEW f, NEW g, T \subseteq S,
         \A x \in T : f[x] = g[x], \A x \in S \ T : f[x] = 0
  PROVE  Total(S, f) = Total(T, g)
<1>1. ASSUME NEW u
      PROVE  u \in Units(S, f) <=> u \in Units(T, g)
  <2>1. \A x \in S \ T : u \notin {x} \X (1 .. f[x])
    BY SMT
  <2> QED BY <2>1, UnitsMembers
<1>2. Units(S, f) = Units(T, g)
  BY <1>1
<1> QED BY <1>2 DEF Total

LEMMA TotalSame ==
  ASSUME NEW S, NEW f, NEW g, \A x \in S : f[x] = g[x]
  PROVE  Total(S, f) = Total(S, g)
BY TotalSupport

-----------------------------------------------------------------------------
(* The ledger and the states of the purchases.                              *)

(* No money was ever reserved for a purchase in one of these states.        *)
Untouched == Waiting \cup {"draft", "proposed", "failed", "cancelled"}

(* What the ledger holds for a purchase in state s.                         *)
EventsOf(s) ==
  [ hold_reserved |-> IF s \in Reserving \cup {"settled", "declined", "refunded"}
                      THEN 1 ELSE 0,
    hold_released |-> IF s \in {"settled", "declined", "refunded"} THEN 1 ELSE 0,
    spending_settled |-> IF s \in {"settled", "refunded"} THEN 1 ELSE 0,
    refund |-> IF s = "refunded" THEN 1 ELSE 0 ]

(* LedgerTellsTheState of one purchase.                                     *)
Told(i) ==
  LET s == intents[i].state
  IN /\ ledger[i] = EventsOf(s)
     /\ intents[i].receipt <=> s \in {"settled", "refunded"}
     /\ i \in provider.charges => s \in {"unknown", "settled", "refunded"}
     /\ i \in provider.holds <=> s = "provider_pending"

(* What LedgerTellsTheState needs to be inductive: nothing is on the books  *)
(* for a purchase that does not exist, and once the card is in use, every   *)
(* purchase the simulated provider knows of has ended.                      *)
LedgerInv ==
  /\ \A i \in DOMAIN intents : Told(i)
  /\ \A i \in Intents \ DOMAIN intents : ledger[i] = EventsOf("draft")
  /\ provider.charges \cup provider.holds \subseteq DOMAIN intents
  /\ provider_mode = "manual_prepaid_card" =>
       \A i \in provider.charges : intents[i].state \in {"settled", "refunded"}
  /\ provider_mode = "manual_prepaid_card" => provider.holds = {}

LEMMA EventsFields ==
  ASSUME NEW e \in LedgerCounts, NEW s
  PROVE  e = EventsOf(s) <=>
           /\ e.hold_reserved = IF s \in Reserving \cup {"settled", "declined", "refunded"}
                                THEN 1 ELSE 0
           /\ e.hold_released = IF s \in {"settled", "declined", "refunded"}
                                THEN 1 ELSE 0
           /\ e.spending_settled = IF s \in {"settled", "refunded"} THEN 1 ELSE 0
           /\ e.refund = IF s = "refunded" THEN 1 ELSE 0
BY DEF LedgerCounts, EventsOf

LEMMA ToldParts ==
  ASSUME TypeOK
  PROVE  LedgerTellsTheState <=> \A i \in DOMAIN intents : Told(i)
<1>1. ASSUME NEW i \in DOMAIN intents
      PROVE  ledger[i] \in LedgerCounts
  BY <1>1 DEF TypeOK
<1> QED BY <1>1, EventsFields DEF LedgerTellsTheState, Told

-----------------------------------------------------------------------------
(* The kinds of steps.                                                      *)

(* Which purchase it is, for whom and for how much never changes.           *)
SamePurchase(j) ==
  /\ j \in DOMAIN intents'
  /\ intents'[j].agent = intents[j].agent
  /\ intents'[j].request = intents[j].request

(* No money moves: purchases come, wait, are approved, refused or           *)
(* cancelled, and none is validated for a card that needs its owner.        *)
Quiet ==
  /\ UNCHANGED << ledger, operator_topups, provider, provider_mode >>
  /\ settled_24h' \subseteq settled_24h
  /\ manual_provider'.amount = manual_provider.amount
  /\ manual_provider'.outgoing_supported = manual_provider.outgoing_supported
  /\ \A j \in DOMAIN intents :
        /\ SamePurchase(j)
        /\ intents'[j].receipt = intents[j].receipt
        /\ \/ intents'[j].state = intents[j].state
           \/ {intents[j].state, intents'[j].state} \subseteq Untouched
  /\ \A j \in DOMAIN intents' \ DOMAIN intents :
        intents'[j].state \in Untouched /\ ~intents'[j].receipt
  /\ \A j \in DOMAIN intents' :
        intents'[j].state = "policy_validated" =>
          \/ j \in DOMAIN intents /\ intents[j].state = "policy_validated"
          \/ provider_mode = "simulated" \/ manual_provider.outgoing_supported

(* Purchase i goes to state s, with the events and the receipt of s, and    *)
(* nothing happens to any other.                                            *)
Moved(i, from, s) ==
  /\ i \in DOMAIN intents /\ intents[i].state \in from
  /\ DOMAIN intents' = DOMAIN intents
  /\ \A j \in DOMAIN intents \ {i} : intents'[j] = intents[j]
  /\ SamePurchase(i)
  /\ intents'[i].bound = intents[i].bound
  /\ intents'[i].state = s
  /\ intents'[i].receipt <=> s \in {"settled", "refunded"}
  /\ ledger' = [ledger EXCEPT ![i] = EventsOf(s)]
  /\ UNCHANGED << agents, operator_topups, provider_mode, emergency_stop >>
  /\ manual_provider'.outgoing_supported = manual_provider.outgoing_supported

Reserved(i) ==
  /\ Moved(i, Executable, "executing")
  /\ UNCHANGED << provider, manual_provider, settled_24h >>
  /\ decide(intents[i].agent, intents[i].request) # "denied"
  /\ intents[i].bound /\ agents[intents[i].agent].session_live

(* The simulated provider's books: its balance, its holds, its charges.     *)
Books(balance, holds, charges) ==
  /\ provider'.balance = balance
  /\ provider'.holds = holds
  /\ provider'.charges = charges

Charged(i) ==
  /\ provider_mode = "simulated" /\ i \notin provider.charges
  /\ Books(provider.balance - final_total(i), provider.holds \ {i},
           provider.charges \cup {i})
  /\ UNCHANGED manual_provider

Settled(i) ==
  /\ Moved(i, {"executing"} \cup Uncertain, "settled")
  /\ settled_24h' = settled_24h \cup {i}
  /\ \/ Charged(i)
     \/ /\ i \in provider.charges /\ provider_mode = "simulated"
        /\ UNCHANGED << provider, manual_provider >>
     \/ /\ provider_mode = "manual_prepaid_card" /\ UNCHANGED provider
        /\ manual_provider'.amount = manual_provider.amount - final_total(i)

Declined(i) ==
  /\ Moved(i, {"executing"} \cup Uncertain, "declined")
  /\ UNCHANGED << manual_provider, settled_24h >>
  /\ \/ /\ provider_mode = "simulated" /\ i \notin provider.charges
        /\ Books(provider.balance, provider.holds \ {i}, provider.charges)
     \/ provider_mode = "manual_prepaid_card" /\ UNCHANGED provider

Pending(i) ==
  /\ Moved(i, {"executing"}, "provider_pending")
  /\ provider_mode = "simulated" /\ UNCHANGED << manual_provider, settled_24h >>
  /\ Books(provider.balance, provider.holds \cup {i}, provider.charges)

Unknown(i) ==
  /\ Moved(i, {"executing"}, "unknown")
  /\ UNCHANGED settled_24h
  /\ Charged(i) \/ UNCHANGED << provider, manual_provider >>

Refunded(i) ==
  /\ Moved(i, {"settled"} \cup Uncertain, "refunded")
  /\ \/ settled_24h' = settled_24h
     \/ intents[i].state # "settled" /\ settled_24h' = settled_24h \cup {i}
  /\ \/ /\ provider_mode = "simulated" /\ i \in provider.charges
        /\ Books(provider.balance + final_total(i), provider.holds, provider.charges)
        /\ UNCHANGED manual_provider
     \/ /\ provider_mode = "manual_prepaid_card" /\ UNCHANGED provider
        /\ manual_provider'.amount = manual_provider.amount
             + (IF intents[i].state = "settled" THEN final_total(i) ELSE 0)

Moves(i) ==
  \/ Reserved(i) \/ Settled(i) \/ Declined(i)
  \/ Pending(i) \/ Unknown(i) \/ Refunded(i)

(* A deposit raises the balance by an amount, and the authority by no more. *)
Deposited ==
  /\ UNCHANGED << agents, intents, ledger, settled_24h, provider_mode, emergency_stop >>
  /\ manual_provider'.outgoing_supported = manual_provider.outgoing_supported
  /\ \E amount, reinvested \in Nat :
       /\ reinvested <= amount
       /\ operator_topups' = operator_topups + reinvested
       /\ \/ /\ provider_mode = "simulated" /\ UNCHANGED manual_provider
             /\ Books(provider.balance + amount, provider.holds, provider.charges)
          \/ /\ provider_mode = "manual_prepaid_card" /\ UNCHANGED provider
             /\ manual_provider'.amount = manual_provider.amount + amount

(* The owner enters a card's balance, when every purchase has ended.        *)
Configured ==
  /\ UNCHANGED << agents, intents, ledger, settled_24h, operator_topups, provider,
                  emergency_stop >>
  /\ DOMAIN intents = InState(Terminal)
  /\ provider_mode' = "manual_prepaid_card"
  /\ manual_provider'.amount \in Nat

Sorted == Quiet \/ (\E i \in Intents : Moves(i)) \/ Deposited \/ Configured

-----------------------------------------------------------------------------
(* The invariants of the money.                                             *)

(* Purchases whose amount is taken out of the authority, and those whose    *)
(* charge the simulated provider has not given back.                        *)
Committed == InState(Reserving \cup {"settled"})
Outstanding == { i \in provider.charges : intents[i].state # "refunded" }

AuthorityInv == Total(Committed, Totals) <= Capital + operator_topups

BooksInv ==
  provider_mode = "simulated" =>
    provider.balance + Total(Outstanding, Totals) >= Capital + operator_topups

-----------------------------------------------------------------------------
(* Every step is one of these kinds.                                        *)

LEMMA MoneyStates ==
  /\ {"executing"} \cup Uncertain \subseteq Reserving
  /\ Untouched \cap (Reserving \cup {"settled", "declined", "refunded"}) = {}
  /\ Executable \subseteq Untouched
  /\ Terminal \cap Reserving = {} /\ "policy_validated" \notin Terminal
  /\ Terminal \cap {"unknown", "provider_pending"} = {}
  /\ {"settled", "declined", "refunded"} \cap Reserving = {}
BY DEF Uncertain, Reserving, Untouched, Waiting, Executable, Terminal

LEMMA SameRecord ==
  ASSUME NEW e \in LedgerCounts, NEW d \in LedgerCounts,
         e.hold_reserved = d.hold_reserved, e.hold_released = d.hold_released,
         e.spending_settled = d.spending_settled, e.refund = d.refund
  PROVE  e = d
BY DEF LedgerCounts

LEMMA LedgerRecordUpdates ==
  ASSUME NEW e \in LedgerCounts
  PROVE  /\ LET u == [e EXCEPT !.hold_released = 1, !.spending_settled = 1]
            IN /\ u \in LedgerCounts /\ u.hold_reserved = e.hold_reserved
               /\ u.hold_released = 1 /\ u.spending_settled = 1 /\ u.refund = e.refund
         /\ LET u == [e EXCEPT !.hold_released = 1, !.spending_settled = 1, !.refund = 1]
            IN /\ u \in LedgerCounts /\ u.hold_reserved = e.hold_reserved
               /\ u.hold_released = 1 /\ u.spending_settled = 1 /\ u.refund = 1
BY DEF LedgerCounts

(* What each handler does to the ledger's record of a purchase in state s   *)
(* makes it that of the state the purchase goes to.                         *)
LEMMA EventsStep ==
  ASSUME TypeOK, NEW i \in Intents, NEW s, ledger[i] = EventsOf(s)
  PROVE  /\ s \in Executable =>
              [ledger EXCEPT ![i].hold_reserved = @ + 1]
                = [ledger EXCEPT ![i] = EventsOf("executing")]
         /\ s \in Reserving =>
              /\ ledger[i].hold_released = 0 /\ ledger[i].spending_settled = 0
              /\ ledger = [ledger EXCEPT ![i] = EventsOf("unknown")]
              /\ ledger = [ledger EXCEPT ![i] = EventsOf("provider_pending")]
              /\ [ledger EXCEPT ![i].hold_released = @ + 1]
                   = [ledger EXCEPT ![i] = EventsOf("declined")]
              /\ [ledger EXCEPT ![i].hold_released = 1, ![i].spending_settled = 1]
                   = [ledger EXCEPT ![i] = EventsOf("settled")]
              /\ [ledger EXCEPT ![i].hold_released = 1, ![i].spending_settled = 1,
                                ![i].refund = @ + 1]
                   = [ledger EXCEPT ![i] = EventsOf("refunded")]
         /\ s = "settled" =>
              [ledger EXCEPT ![i].refund = @ + 1]
                = [ledger EXCEPT ![i] = EventsOf("refunded")]
<1>1. ledger \in [Intents -> LedgerCounts] /\ ledger[i] \in LedgerCounts
  BY DEF TypeOK
<1>2. CASE s \in Executable
  <2>1. s \notin Reserving \cup {"settled", "declined", "refunded"}
    BY <1>2, MoneyStates
  <2>2. ledger[i] = [ hold_reserved |-> 0, hold_released |-> 0,
                      spending_settled |-> 0, refund |-> 0 ]
    BY <2>1 DEF EventsOf
  <2>3. EventsOf("executing") = [ hold_reserved |-> 1, hold_released |-> 0,
                                  spending_settled |-> 0, refund |-> 0 ]
    BY DEF EventsOf, Reserving
  <2>4. [ledger EXCEPT ![i].hold_reserved = @ + 1]
          = [ledger EXCEPT ![i] = [ledger[i] EXCEPT !.hold_reserved = @ + 1]]
    BY <1>1 DEF LedgerCounts
  <2>5. [ledger[i] EXCEPT !.hold_reserved = @ + 1] = EventsOf("executing")
    BY <2>2, <2>3
  <2> QED BY <1>2, <2>1, <2>4, <2>5
<1>3. CASE s \in Reserving
  <2>1. s \notin {"settled", "declined", "refunded"} \cup Executable
    BY <1>3, MoneyStates
  <2>2. ledger[i] = [ hold_reserved |-> 1, hold_released |-> 0,
                      spending_settled |-> 0, refund |-> 0 ]
    BY <1>3, <2>1 DEF EventsOf
  <2>3. /\ EventsOf("unknown") = ledger[i] /\ EventsOf("provider_pending") = ledger[i]
        /\ EventsOf("declined") = [ hold_reserved |-> 1, hold_released |-> 1,
                                    spending_settled |-> 0, refund |-> 0 ]
        /\ EventsOf("settled") = [ hold_reserved |-> 1, hold_released |-> 1,
                                   spending_settled |-> 1, refund |-> 0 ]
        /\ EventsOf("refunded") = [ hold_reserved |-> 1, hold_released |-> 1,
                                    spending_settled |-> 1, refund |-> 1 ]
    BY <2>2 DEF EventsOf, Reserving
  <2>4. ledger[i].hold_released = 0 /\ ledger[i].spending_settled = 0
    BY <2>2
  <2>5. ledger = [ledger EXCEPT ![i] = ledger[i]]
    BY <1>1
  <2>6. [ledger EXCEPT ![i].hold_released = @ + 1]
          = [ledger EXCEPT ![i] = EventsOf("declined")]
    <3>1. [ledger[i] EXCEPT !.hold_released = @ + 1] = EventsOf("declined")
      BY <2>2, <2>3
    <3> QED BY <1>1, <3>1 DEF LedgerCounts
  <2>7. [ledger EXCEPT ![i].hold_released = 1, ![i].spending_settled = 1]
          = [ledger EXCEPT ![i] = EventsOf("settled")]
    <3> DEFINE e == [ledger[i] EXCEPT !.hold_released = 1, !.spending_settled = 1]
    <3>1. e = EventsOf("settled")
      <4>1. /\ e \in LedgerCounts /\ e.hold_reserved = ledger[i].hold_reserved
            /\ e.hold_released = 1 /\ e.spending_settled = 1 /\ e.refund = ledger[i].refund
        BY <1>1, LedgerRecordUpdates
      <4> HIDE DEF e
      <4>2. EventsOf("settled") \in LedgerCounts
        BY <2>3 DEF LedgerCounts
      <4> QED BY <2>2, <2>3, <4>1, <4>2, SameRecord
    <3> QED BY <1>1, <3>1 DEF LedgerCounts
  <2>8. [ledger EXCEPT ![i].hold_released = 1, ![i].spending_settled = 1,
                       ![i].refund = @ + 1]
          = [ledger EXCEPT ![i] = EventsOf("refunded")]
    <3> DEFINE e == [ledger[i] EXCEPT !.hold_released = 1, !.spending_settled = 1,
                                      !.refund = 1]
    <3>1. e = EventsOf("refunded")
      <4>1. /\ e \in LedgerCounts /\ e.hold_reserved = ledger[i].hold_reserved
            /\ e.hold_released = 1 /\ e.spending_settled = 1 /\ e.refund = 1
        BY <1>1, LedgerRecordUpdates
      <4> HIDE DEF e
      <4>2. EventsOf("refunded") \in LedgerCounts
        BY <2>3 DEF LedgerCounts
      <4> QED BY <2>2, <2>3, <4>1, <4>2, SameRecord
    <3>2. ledger[i].refund + 1 = 1
      BY <2>2
    <3> QED BY <1>1, <3>1, <3>2 DEF LedgerCounts
  <2> QED BY <2>1, <2>3, <2>4, <2>5, <2>6, <2>7, <2>8
<1>4. CASE s = "settled"
  <2>1. s \notin Reserving \cup Executable
    BY <1>4, MoneyStates DEF Executable
  <2>2. ledger[i] = [ hold_reserved |-> 1, hold_released |-> 1,
                      spending_settled |-> 1, refund |-> 0 ]
    BY <1>4 DEF EventsOf
  <2>3. EventsOf("refunded") = [ hold_reserved |-> 1, hold_released |-> 1,
                                 spending_settled |-> 1, refund |-> 1 ]
    BY DEF EventsOf
  <2>4. [ledger EXCEPT ![i].refund = @ + 1] = [ledger EXCEPT ![i] = EventsOf("refunded")]
    <3>1. [ledger[i] EXCEPT !.refund = @ + 1] = EventsOf("refunded")
      BY <2>2, <2>3
    <3> QED BY <1>1, <3>1 DEF LedgerCounts
  <2> QED BY <2>1, <2>4
<1> QED BY <1>2, <1>3, <1>4

LEMMA StateMove ==
  ASSUME TypeOK, NEW i \in DOMAIN intents, NEW s, SetState(i, s)
  PROVE  /\ DOMAIN intents' = DOMAIN intents
         /\ \A j \in DOMAIN intents \ {i} : intents'[j] = intents[j]
         /\ SamePurchase(i)
         /\ intents'[i].bound = intents[i].bound
         /\ intents'[i].receipt = intents[i].receipt
         /\ intents'[i].state = s
BY DEF TypeOK, IntentRecord, SetState, SamePurchase

LEMMA EndMove ==
  ASSUME TypeOK, NEW i \in DOMAIN intents, NEW s,
         intents' = [intents EXCEPT ![i].state = s, ![i].receipt = TRUE]
  PROVE  /\ DOMAIN intents' = DOMAIN intents
         /\ \A j \in DOMAIN intents \ {i} : intents'[j] = intents[j]
         /\ SamePurchase(i)
         /\ intents'[i].bound = intents[i].bound
         /\ intents'[i].receipt = TRUE
         /\ intents'[i].state = s
<1>1. DOMAIN intents' = DOMAIN intents
  BY DEF TypeOK
<1>2. \A j \in DOMAIN intents \ {i} : intents'[j] = intents[j]
  BY DEF TypeOK
<1>3. /\ intents'[i].agent = intents[i].agent /\ intents'[i].request = intents[i].request
      /\ intents'[i].bound = intents[i].bound /\ intents'[i].receipt = TRUE
      /\ intents'[i].state = s
  BY DEF TypeOK, IntentRecord
<1> QED BY <1>1, <1>2, <1>3 DEF SamePurchase

(* The reservation, whoever asks for it.                                    *)
LEMMA PrepareSorted ==
  ASSUME TypeOK, LedgerInv, NEW i \in DOMAIN intents, prepare_intent_execution(i)
  PROVE  Reserved(i)
<1>1. /\ intents[i].state \in Executable /\ SetState(i, "executing")
      /\ ledger' = [ledger EXCEPT ![i].hold_reserved = @ + 1]
      /\ UNCHANGED << agents, settled_24h, operator_topups, emergency_stop, rails >>
      /\ intents[i].bound /\ agents[intents[i].agent].session_live
      /\ decide(intents[i].agent, intents[i].request) # "denied"
  BY DEF prepare_intent_execution
<1>2. i \in Intents /\ Told(i)
  BY DEF TypeOK, LedgerInv
<1>3. ledger' = [ledger EXCEPT ![i] = EventsOf("executing")]
  BY <1>1, <1>2, EventsStep DEF Told
<1>4. ~intents[i].receipt
  BY <1>1, <1>2, MoneyStates DEF Told
<1>5. Moved(i, Executable, "executing")
  BY <1>1, <1>3, <1>4, StateMove DEF Moved, rails
<1> QED BY <1>1, <1>5 DEF Reserved, rails

LEMMA HoldUpdates ==
  ASSUME NEW p \in ProviderRecord, NEW i
  PROVE  /\ LET q == [p EXCEPT !.holds = @ \cup {i}]
            IN q.balance = p.balance /\ q.holds = p.holds \cup {i} /\ q.charges = p.charges
         /\ LET q == [p EXCEPT !.holds = @ \ {i}]
            IN q.balance = p.balance /\ q.holds = p.holds \ {i} /\ q.charges = p.charges
BY DEF ProviderRecord

LEMMA BooksUpdates ==
  ASSUME NEW p \in ProviderRecord, NEW n, NEW i
  PROVE  /\ LET q == [p EXCEPT !.balance = n]
            IN q.balance = n /\ q.holds = p.holds /\ q.charges = p.charges
         /\ LET q == [p EXCEPT !.balance = n, !.charges = @ \cup {i}]
            IN q.balance = n /\ q.holds = p.holds /\ q.charges = p.charges \cup {i}
         /\ LET q == [p EXCEPT !.balance = n, !.refunded = @ \cup {i}]
            IN q.balance = n /\ q.holds = p.holds /\ q.charges = p.charges
         /\ LET q == [p EXCEPT !.balance = n, !.holds = @ \ {i}, !.charges = @ \cup {i}]
            IN q.balance = n /\ q.holds = p.holds \ {i} /\ q.charges = p.charges \cup {i}
BY DEF ProviderRecord

LEMMA CardUpdates ==
  ASSUME NEW c \in ManualProviderRecord, NEW n, NEW b
  PROVE  /\ [c EXCEPT !.amount = n].amount = n
         /\ [c EXCEPT !.amount = n].outgoing_supported = c.outgoing_supported
         /\ [c EXCEPT !.amount = n, !.estimated = b].amount = n
         /\ [c EXCEPT !.amount = n, !.estimated = b].outgoing_supported
              = c.outgoing_supported
         /\ [c EXCEPT !.expired = b].amount = c.amount
         /\ [c EXCEPT !.expired = b].outgoing_supported = c.outgoing_supported
BY DEF ManualProviderRecord

(* The outcome of a purchase that holds a reservation, as the handlers      *)
(* write it into the intent and the ledger.                                 *)
LEMMA OutcomeSorted ==
  ASSUME TypeOK, LedgerInv, NEW i \in DOMAIN intents,
         intents[i].state \in {"executing"} \cup Uncertain,
         UNCHANGED << agents, operator_topups, provider_mode, emergency_stop >>,
         manual_provider'.outgoing_supported = manual_provider.outgoing_supported
  PROVE  /\ SetSettled(i) /\ record_settled(i) =>
              /\ Moved(i, {"executing"} \cup Uncertain, "settled")
              /\ settled_24h' = settled_24h \cup {i}
         /\ SetState(i, "declined") /\ ledger' = [ledger EXCEPT ![i].hold_released = @ + 1]
              => Moved(i, {"executing"} \cup Uncertain, "declined")
         /\ \A s \in {"unknown", "provider_pending"} :
              intents[i].state = "executing" /\ SetState(i, s) /\ UNCHANGED ledger
                => Moved(i, {"executing"}, s)
<1>1. /\ i \in Intents /\ Told(i) /\ intents[i].state \in Reserving
      /\ ~intents[i].receipt /\ ledger[i] = EventsOf(intents[i].state)
  BY MoneyStates DEF TypeOK, LedgerInv, Told
<1>2. /\ ledger[i].hold_released = 0 /\ ledger[i].spending_settled = 0
      /\ ledger = [ledger EXCEPT ![i] = EventsOf("unknown")]
      /\ ledger = [ledger EXCEPT ![i] = EventsOf("provider_pending")]
      /\ [ledger EXCEPT ![i].hold_released = @ + 1]
           = [ledger EXCEPT ![i] = EventsOf("declined")]
      /\ [ledger EXCEPT ![i].hold_released = 1, ![i].spending_settled = 1]
           = [ledger EXCEPT ![i] = EventsOf("settled")]
  BY <1>1, EventsStep
<1>3. ASSUME SetSettled(i), record_settled(i)
      PROVE  /\ Moved(i, {"executing"} \cup Uncertain, "settled")
             /\ settled_24h' = settled_24h \cup {i}
  <2>1. ledger' = [ledger EXCEPT ![i] = EventsOf("settled")]
    <3>1. ledger' = [ledger EXCEPT ![i].hold_released = 1, ![i].spending_settled = 1]
      <4>1. ledger[i] \in LedgerCounts /\ i \in DOMAIN ledger
        BY <1>1 DEF TypeOK
      <4>2. ledger' = [ledger EXCEPT
              ![i].hold_released = IF ledger[i].hold_released = 0 THEN 1
                                   ELSE ledger[i].hold_released,
              ![i].spending_settled = IF ledger[i].spending_settled = 0 THEN 1
                                      ELSE ledger[i].spending_settled ]
        BY <1>3, <4>1 DEF record_settled, LedgerCounts
      <4> QED BY <1>2, <4>2
    <3> QED BY <1>2, <3>1
  <2>2. settled_24h' = settled_24h \cup {i}
    BY <1>2, <1>3 DEF record_settled
  <2>3. intents' = [intents EXCEPT ![i].state = "settled", ![i].receipt = TRUE]
    BY <1>3 DEF SetSettled
  <2> QED BY <2>1, <2>2, <2>3, EndMove DEF Moved
<1>4. ASSUME SetState(i, "declined"), ledger' = [ledger EXCEPT ![i].hold_released = @ + 1]
      PROVE  Moved(i, {"executing"} \cup Uncertain, "declined")
  BY <1>1, <1>2, <1>4, StateMove DEF Moved
<1>5. ASSUME NEW s \in {"unknown", "provider_pending"}, intents[i].state = "executing",
             SetState(i, s), UNCHANGED ledger
      PROVE  Moved(i, {"executing"}, s)
  <2>1. ledger' = [ledger EXCEPT ![i] = EventsOf(s)]
    BY <1>2, <1>5
  <2> QED BY <1>1, <1>5, <2>1, StateMove DEF Moved
<1> QED BY <1>3, <1>4, <1>5

(* The provider's answer.                                                   *)
LEMMA CompletionSorted ==
  ASSUME TypeOK, LedgerInv, NEW i \in Intents, complete_intent_execution(i)
  PROVE  Settled(i) \/ Declined(i) \/ Pending(i) \/ Unknown(i)
<1>1. /\ i \in DOMAIN intents /\ intents[i].state = "executing"
      /\ UNCHANGED << agents, operator_topups, emergency_stop, provider_mode,
                      manual_provider >>
      /\ provider \in ProviderRecord
  BY DEF complete_intent_execution, TypeOK
<1>2. i \notin provider.charges /\ i \notin provider.holds
  BY <1>1 DEF LedgerInv, Told
<1>3. provider.holds \ {i} = provider.holds
  BY <1>2
<1>4. CASE provider_mode = "simulated" /\ authorize(i)
  <2>1. CASE outcome_declined(i) /\ UNCHANGED provider
    <3>1. Moved(i, {"executing"} \cup Uncertain, "declined") /\ UNCHANGED settled_24h
      BY <1>1, <2>1, OutcomeSorted DEF outcome_declined
    <3>2. Books(provider.balance, provider.holds \ {i}, provider.charges)
      BY <1>3, <2>1 DEF Books
    <3> QED BY <1>1, <1>2, <1>4, <3>1, <3>2 DEF Declined
  <2>2. CASE outcome_uncertain(i, "unknown") /\ UNCHANGED provider
    BY <1>1, <2>2, OutcomeSorted DEF outcome_uncertain, Unknown
  <2>3. CASE /\ provider' = [provider EXCEPT !.holds = @ \cup {i}]
             /\ outcome_uncertain(i, "provider_pending")
    <3>1. Moved(i, {"executing"}, "provider_pending") /\ UNCHANGED settled_24h
      BY <1>1, <2>3, OutcomeSorted DEF outcome_uncertain
    <3>2. Books(provider.balance, provider.holds \cup {i}, provider.charges)
      BY <1>1, <2>3, HoldUpdates DEF Books
    <3> QED BY <1>1, <1>4, <3>1, <3>2 DEF Pending
  <2>4. CASE /\ provider' = [provider EXCEPT !.balance = @ - final_total(i),
                                             !.charges = @ \cup {i}]
             /\ outcome_approved(i) \/ outcome_uncertain(i, "unknown")
    <3>1. Books(provider.balance - final_total(i), provider.holds \ {i},
                provider.charges \cup {i})
      BY <1>1, <1>3, <2>4, BooksUpdates DEF Books
    <3>2. Charged(i)
      BY <1>1, <1>2, <1>4, <3>1 DEF Charged
    <3>3. CASE outcome_approved(i)
      BY <1>1, <3>2, <3>3, OutcomeSorted DEF outcome_approved, Settled
    <3>4. CASE outcome_uncertain(i, "unknown")
      BY <1>1, <3>2, <3>4, OutcomeSorted DEF outcome_uncertain, Unknown
    <3> QED BY <2>4, <3>3, <3>4
  <2> QED BY <1>2, <1>4, <2>1, <2>2, <2>3, <2>4 DEF authorize
<1>5. CASE outcome_uncertain(i, "unknown") /\ UNCHANGED provider
  BY <1>1, <1>5, OutcomeSorted DEF outcome_uncertain, Unknown
<1> QED BY <1>4, <1>5 DEF complete_intent_execution

(* The owner's word on an uncertain purchase.                               *)
LEMMA ReconcileSettledSorted ==
  ASSUME TypeOK, LedgerInv, NEW i \in Intents, owner_reconcile_settled(i)
  PROVE  Settled(i)
<1>1. /\ i \in DOMAIN intents /\ intents[i].state \in Uncertain
      /\ UNCHANGED << agents, operator_topups, emergency_stop, provider_mode >>
      /\ SetSettled(i) /\ record_settled(i)
      /\ provider \in ProviderRecord /\ manual_provider \in ManualProviderRecord
      /\ provider_mode \in {"simulated", "manual_prepaid_card"}
  BY DEF owner_reconcile_settled, AcceptsSettled, InState, TypeOK
<1>2. Told(i)
  BY <1>1 DEF LedgerInv
<1>3. manual_provider'.outgoing_supported = manual_provider.outgoing_supported
      => Moved(i, {"executing"} \cup Uncertain, "settled") /\ settled_24h' = settled_24h \cup {i}
  BY <1>1, OutcomeSorted
<1>4. CASE provider_mode = "simulated"
  <2>1. UNCHANGED manual_provider
    BY <1>4 DEF owner_reconcile_settled
  <2>2. CASE i \in provider.charges
    <3>1. i \notin provider.holds
      BY <1>2, <2>2 DEF Told
    <3>2. UNCHANGED provider
      BY <1>4, <2>2, <3>1 DEF owner_reconcile_settled
    <3> QED BY <1>3, <1>4, <2>1, <2>2, <3>2 DEF Settled
  <2>3. CASE i \notin provider.charges
    <3>1. provider' = [provider EXCEPT !.balance = @ - final_total(i), !.holds = @ \ {i},
                                       !.charges = @ \cup {i}]
      BY <1>4, <2>3 DEF owner_reconcile_settled
    <3>2. Books(provider.balance - final_total(i), provider.holds \ {i},
                provider.charges \cup {i})
      BY <1>1, <3>1, BooksUpdates DEF Books
    <3> QED BY <1>3, <1>4, <2>1, <2>3, <3>2 DEF Settled, Charged
  <2> QED BY <2>2, <2>3
<1>5. CASE provider_mode = "manual_prepaid_card"
  <2>1. /\ UNCHANGED provider
        /\ manual_provider' = [manual_provider EXCEPT !.amount = @ - final_total(i)]
    BY <1>5 DEF owner_reconcile_settled
  <2> QED BY <1>1, <1>3, <1>5, <2>1, CardUpdates DEF Settled
<1> QED BY <1>1, <1>4, <1>5

LEMMA ReconcileDeclinedSorted ==
  ASSUME TypeOK, LedgerInv, NEW i \in Intents, owner_reconcile_declined(i)
  PROVE  Declined(i)
<1>1. /\ i \in DOMAIN intents /\ intents[i].state \in Uncertain
      /\ UNCHANGED << agents, operator_topups, emergency_stop, provider_mode,
                      manual_provider, settled_24h >>
      /\ SetState(i, "declined") /\ ledger' = [ledger EXCEPT ![i].hold_released = @ + 1]
      /\ provider \in ProviderRecord
  BY DEF owner_reconcile_declined, AcceptsDeclined, InState, TypeOK
<1>2. Moved(i, {"executing"} \cup Uncertain, "declined")
  BY <1>1, OutcomeSorted
<1>3. \/ /\ provider_mode = "simulated" /\ i \notin provider.charges
         /\ Books(provider.balance, provider.holds \ {i}, provider.charges)
      \/ provider_mode = "manual_prepaid_card" /\ UNCHANGED provider
  <2>1. provider' = [provider EXCEPT !.holds = @ \ {i}]
          => Books(provider.balance, provider.holds \ {i}, provider.charges)
    BY <1>1, HoldUpdates DEF Books
  <2>2. \/ /\ provider_mode = "simulated" /\ i \notin provider.charges
           /\ provider' = [provider EXCEPT !.holds = @ \ {i}]
        \/ provider_mode = "manual_prepaid_card" /\ UNCHANGED provider
    BY DEF owner_reconcile_declined, AcceptsDeclined
  <2> QED BY <2>1, <2>2
<1> QED BY <1>1, <1>2, <1>3 DEF Declined

LEMMA ReconcileRefundedSorted ==
  ASSUME TypeOK, LedgerInv, NEW i \in Intents, owner_reconcile_refunded(i)
  PROVE  Refunded(i)
<1>1. /\ i \in DOMAIN intents /\ intents[i].state \in Uncertain \cup {"settled"}
      /\ UNCHANGED << agents, operator_topups, emergency_stop, provider_mode >>
      /\ intents' = [intents EXCEPT ![i].state = "refunded", ![i].receipt = TRUE]
      /\ provider \in ProviderRecord /\ manual_provider \in ManualProviderRecord
      /\ ledger \in [Intents -> LedgerCounts]
  BY DEF owner_reconcile_refunded, InState, TypeOK
<1>2. Told(i)
  BY <1>1 DEF LedgerInv
<1>3. \/ intents[i].state = "settled"
      \/ intents[i].state # "settled" /\ intents[i].state \in Reserving
  BY <1>1, MoneyStates
<1>4. /\ ledger' = [ledger EXCEPT ![i] = EventsOf("refunded")]
      /\ \/ settled_24h' = settled_24h
         \/ intents[i].state # "settled" /\ settled_24h' = settled_24h \cup {i}
  <2>1. CASE intents[i].state = "settled"
    <3>1. ledger' = [ledger EXCEPT ![i].refund = @ + 1] /\ settled_24h' = settled_24h
      BY <1>1, <2>1 DEF owner_reconcile_refunded, LedgerCounts
    <3>2. [ledger EXCEPT ![i].refund = @ + 1] = [ledger EXCEPT ![i] = EventsOf("refunded")]
      BY <1>2, <2>1, EventsStep DEF Told
    <3> QED BY <3>1, <3>2
  <2>2. CASE intents[i].state # "settled" /\ intents[i].state \in Reserving
    <3>1. /\ ledger[i].hold_released = 0 /\ ledger[i].spending_settled = 0
          /\ [ledger EXCEPT ![i].hold_released = 1, ![i].spending_settled = 1,
                            ![i].refund = @ + 1]
               = [ledger EXCEPT ![i] = EventsOf("refunded")]
      BY <1>2, <2>2, EventsStep DEF Told
    <3>2. /\ ledger' = [ledger EXCEPT ![i].hold_released = 1, ![i].spending_settled = 1,
                                      ![i].refund = @ + 1]
          /\ settled_24h' = settled_24h \cup {i}
      BY <2>2, <3>1 DEF owner_reconcile_refunded
    <3> QED BY <2>2, <3>1, <3>2
  <2> QED BY <1>3, <2>1, <2>2
<1>5. /\ manual_provider'.outgoing_supported = manual_provider.outgoing_supported
      /\ \/ /\ provider_mode = "simulated" /\ i \in provider.charges
            /\ Books(provider.balance + final_total(i), provider.holds, provider.charges)
            /\ UNCHANGED manual_provider
         \/ /\ provider_mode = "manual_prepaid_card" /\ UNCHANGED provider
            /\ manual_provider'.amount = manual_provider.amount
                 + (IF intents[i].state = "settled" THEN final_total(i) ELSE 0)
  <2>1. CASE /\ provider_mode = "simulated" /\ i \in provider.charges
             /\ provider' = [provider EXCEPT !.balance = @ + final_total(i),
                                             !.refunded = @ \cup {i}]
             /\ UNCHANGED manual_provider
    BY <1>1, <2>1, BooksUpdates DEF Books
  <2>2. CASE /\ provider_mode = "manual_prepaid_card" /\ UNCHANGED provider
             /\ manual_provider' = [manual_provider EXCEPT !.amount =
                   IF intents[i].state = "settled" THEN @ + final_total(i) ELSE @]
    <3>1. manual_provider.amount \in Int
      BY <1>1 DEF ManualProviderRecord
    <3> QED BY <1>1, <2>2, <3>1, CardUpdates
  <2> QED BY <2>1, <2>2 DEF owner_reconcile_refunded
<1>6. Moved(i, {"settled"} \cup Uncertain, "refunded")
  BY <1>1, <1>4, <1>5, EndMove DEF Moved
<1> QED BY <1>4, <1>5, <1>6 DEF Refunded

(* Handlers that move no money.                                             *)
LEMMA SameIntentsQuiet ==
  ASSUME TypeOK, UNCHANGED << intents, ledger, operator_topups, provider, provider_mode >>,
         settled_24h' \subseteq settled_24h,
         manual_provider'.amount = manual_provider.amount,
         manual_provider'.outgoing_supported = manual_provider.outgoing_supported
  PROVE  Quiet
BY DEF Quiet, SamePurchase

(* Every intent keeps all but its binding and its age.                      *)
LEMMA SessionQuiet ==
  ASSUME TypeOK, UNCHANGED << purse, rails >>, DOMAIN intents' = DOMAIN intents,
         \A j \in DOMAIN intents :
           /\ SamePurchase(j) /\ intents'[j].state = intents[j].state
           /\ intents'[j].receipt = intents[j].receipt
  PROVE  Quiet
BY DEF Quiet, purse, rails

LEMMA UnbindQuiet ==
  ASSUME TypeOK, UNCHANGED << purse, rails >>, NEW S, intents' = Unbind(S)
  PROVE  Quiet
<1>1. DOMAIN intents' = DOMAIN intents
  BY DEF Unbind
<1>2. \A j \in DOMAIN intents :
        /\ SamePurchase(j) /\ intents'[j].state = intents[j].state
        /\ intents'[j].receipt = intents[j].receipt
  BY DEF Unbind, SamePurchase, TypeOK, IntentRecord
<1> QED BY <1>1, <1>2, SessionQuiet

LEMMA AgeQuiet ==
  ASSUME TypeOK, UNCHANGED << purse, rails >>, NEW i \in DOMAIN intents, NEW age,
         intents' = [intents EXCEPT ![i].age = age]
  PROVE  Quiet
<1>1. DOMAIN intents' = DOMAIN intents
  BY DEF TypeOK
<1>2. \A j \in DOMAIN intents :
        /\ SamePurchase(j) /\ intents'[j].state = intents[j].state
        /\ intents'[j].receipt = intents[j].receipt
  BY <1>1 DEF SamePurchase, TypeOK, IntentRecord
<1> QED BY <1>1, <1>2, SessionQuiet

(* A purchase without a reservation is approved, denied or cancelled.       *)
LEMMA DecisionQuiet ==
  ASSUME TypeOK, LedgerInv, UNCHANGED << purse, rails >>, NEW i \in DOMAIN intents,
         NEW s \in {"approved", "cancelled"}, SetState(i, s),
         intents[i].state \in Untouched
  PROVE  Quiet
<1>1. /\ DOMAIN intents' = DOMAIN intents
      /\ \A j \in DOMAIN intents \ {i} : intents'[j] = intents[j]
      /\ SamePurchase(i) /\ intents'[i].receipt = intents[i].receipt
      /\ intents'[i].state = s
  BY StateMove
<1>2. s \in Untouched /\ s # "policy_validated"
  BY DEF Untouched, Waiting
<1>3. \A j \in DOMAIN intents : SamePurchase(j) /\ intents'[j].receipt = intents[j].receipt
  BY <1>1 DEF SamePurchase
<1> QED BY <1>1, <1>2, <1>3 DEF Quiet, purse, rails

LEMMA CreateQuiet ==
  ASSUME TypeOK, NEW a \in Agents, NEW i \in Intents, NEW r \in Requests,
         create_intent(a, i, r)
  PROVE  Quiet
<1>1. PICK s \in {"failed", "approval_required", "policy_validated"} :
        /\ intents' = Put(i, [ agent |-> a, request |-> r, state |-> s,
                               bound |-> TRUE, age |-> "minute", receipt |-> FALSE ])
        /\ provider_mode = "manual_prepaid_card" /\ ~manual_provider.outgoing_supported
             => s # "policy_validated"
  BY DEF create_intent
<1>2. i \notin DOMAIN intents /\ UNCHANGED << purse, rails >>
  BY DEF create_intent
<1>3. /\ DOMAIN intents' = DOMAIN intents \cup {i}
      /\ \A j \in DOMAIN intents : intents'[j] = intents[j]
      /\ intents'[i].state = s /\ intents'[i].receipt = FALSE
  BY <1>1, <1>2 DEF Put
<1>4. s \in Untouched /\ provider_mode \in {"simulated", "manual_prepaid_card"}
  BY DEF Untouched, Waiting, TypeOK
<1> QED BY <1>1, <1>2, <1>3, <1>4 DEF Quiet, SamePurchase, purse, rails

LEMMA RatioBound ==
  ASSUME NEW amount \in Nat, NEW bps \in BasisPoints
  PROVE  /\ scaled_basis_points(amount, bps) \in Nat
         /\ scaled_basis_points(amount, bps) <= amount
<1>1. bps \in Nat /\ bps <= 10000
  BY DEF BasisPoints
<1>2. amount * bps \in Nat /\ amount * bps <= amount * 10000
  BY <1>1
<1> DEFINE product == amount * bps
<1> HIDE DEF product
<1>3. product \in Nat /\ product <= amount * 10000
  BY <1>2 DEF product
<1>4. product \div 10000 \in Nat /\ product \div 10000 <= amount
  BY <1>3
<1> QED BY <1>4 DEF scaled_basis_points, product

LEMMA DepositSorted ==
  ASSUME ConstantsAssumption, TypeOK, NEW a \in Agents, NEW reference,
         NEW amount \in DepositAmounts, owner_record_deposit(a, reference, amount)
  PROVE  Deposited
<1> DEFINE bps == agents[a].policy.reinvestment_ratio_bps
           reinvested == scaled_basis_points(amount, bps)
<1>1. /\ amount \in Nat
      /\ provider \in ProviderRecord /\ manual_provider \in ManualProviderRecord
  BY DEF ConstantsAssumption, TypeOK
<1>2. bps \in BasisPoints
  <2>1. agents[a].policy \in Policies
    BY DEF owner_record_deposit, TypeOK, AgentRecord
  <2>2. agents[a].policy \in PolicyRecord
    BY <2>1 DEF ConstantsAssumption
  <2> QED BY <2>2 DEF PolicyRecord
<1> HIDE DEF bps
<1>3. reinvested \in Nat /\ reinvested <= amount
  BY <1>1, <1>2, RatioBound
<1>4. /\ operator_topups' = operator_topups + reinvested
      /\ UNCHANGED << agents, intents, ledger, settled_24h, emergency_stop, provider_mode >>
  BY DEF owner_record_deposit, bps
<1> HIDE DEF reinvested
<1>5. /\ manual_provider'.outgoing_supported = manual_provider.outgoing_supported
      /\ \/ /\ provider_mode = "simulated" /\ UNCHANGED manual_provider
            /\ Books(provider.balance + amount, provider.holds, provider.charges)
         \/ /\ provider_mode = "manual_prepaid_card" /\ UNCHANGED provider
            /\ manual_provider'.amount = manual_provider.amount + amount
  <2>1. CASE /\ provider_mode = "simulated" /\ UNCHANGED manual_provider
             /\ provider' = [provider EXCEPT !.balance = @ + amount]
    BY <1>1, <2>1, BooksUpdates DEF Books
  <2>2. CASE /\ provider_mode = "manual_prepaid_card" /\ UNCHANGED provider
             /\ manual_provider' = [manual_provider EXCEPT !.amount = @ + amount,
                                                           !.estimated = FALSE]
    BY <1>1, <2>2, CardUpdates
  <2> QED BY <2>1, <2>2 DEF owner_record_deposit
<1> QED BY <1>1, <1>3, <1>4, <1>5 DEF Deposited

LEMMA ConfigureSorted ==
  ASSUME ConstantsAssumption, TypeOK, NEW balance \in ManualBalances,
         NEW estimated \in BOOLEAN, NEW autonomous \in BOOLEAN,
         owner_configure_manual_provider(balance, estimated, autonomous)
  PROVE  Configured
BY DEF owner_configure_manual_provider, Configured, ConstantsAssumption, purse

LEMMA OwnerAgentSorted ==
  ASSUME ConstantsAssumption, TypeOK, NEW a \in Agents, OwnerAgentCall(a)
  PROVE  Quiet \/ Deposited
<1>1. ASSUME NEW reference \in DepositReferences, NEW amount \in DepositAmounts,
             owner_record_deposit(a, reference, amount)
      PROVE  Deposited
  BY <1>1, DepositSorted
<1>2. CASE UNCHANGED << purse, rails >> /\ (intents' = Unbind({a}) \/ UNCHANGED intents)
  <2>1. CASE UNCHANGED intents
    BY <1>2, <2>1, SameIntentsQuiet DEF purse, rails
  <2> QED BY <1>2, <2>1, UnbindQuiet
<1>3. ASSUME NEW p \in Policies, owner_update_policy(a, p)
      PROVE  Quiet
  <2> DEFINE aged == { i \in OfAgent(a) \cap InState(Waiting) : intents[i].age # "minute" }
  <2>1. PICK late \in SUBSET aged : intents' =
           [ i \in DOMAIN intents |->
               IF i \notin aged THEN intents[i]
               ELSE [intents[i] EXCEPT !.age = IF i \in late THEN "expired" ELSE "fresh"] ]
    BY <1>3 DEF owner_update_policy
  <2> HIDE DEF aged
  <2>2. DOMAIN intents' = DOMAIN intents
    BY <2>1
  <2>3. \A j \in DOMAIN intents :
          /\ SamePurchase(j) /\ intents'[j].state = intents[j].state
          /\ intents'[j].receipt = intents[j].receipt
    BY <2>1, <2>2 DEF SamePurchase, TypeOK, IntentRecord
  <2> QED BY <1>3, <2>2, <2>3, SessionQuiet DEF owner_update_policy
<1>4. \/ \E reference \in DepositReferences, amount \in DepositAmounts :
           owner_record_deposit(a, reference, amount)
      \/ UNCHANGED << purse, rails >> /\ (intents' = Unbind({a}) \/ UNCHANGED intents)
      \/ \E p \in Policies : owner_update_policy(a, p)
  BY DEF OwnerAgentCall, owner_create_agent, owner_arm_agent_session, owner_set_agent_mode,
         owner_revoke_agent, owner_rotate_agent_capability
<1> QED BY <1>1, <1>2, <1>3, <1>4

LEMMA OwnerIntentSorted ==
  ASSUME TypeOK, LedgerInv, NEW i \in Intents, OwnerIntentCall(i)
  PROVE  Quiet \/ Moves(i)
<1>1. CASE owner_approve(i) \/ owner_deny(i)
  <2>1. /\ i \in DOMAIN intents /\ intents[i].state \in Untouched
        /\ SetState(i, "approved") \/ SetState(i, "cancelled")
        /\ UNCHANGED << purse, rails >>
    BY <1>1 DEF owner_approve, owner_deny, InState, Untouched, Waiting
  <2> QED BY <2>1, DecisionQuiet
<1>2. CASE owner_begin_manual_handoff(i)
  BY <1>2, PrepareSorted, InDomain DEF owner_begin_manual_handoff, Moves
<1>3. CASE owner_complete_manual_handoff(i)
  <2>1. /\ i \in DOMAIN intents /\ intents[i].state = "executing"
        /\ UNCHANGED << agents, operator_topups, emergency_stop, rails >>
        /\ SetState(i, "unknown") /\ UNCHANGED << ledger, settled_24h >>
    BY <1>3 DEF owner_complete_manual_handoff, outcome_uncertain, InState
  <2>2. Moved(i, {"executing"}, "unknown")
    BY <2>1, OutcomeSorted DEF rails
  <2> QED BY <2>1, <2>2 DEF Unknown, Moves, rails
<1>4. CASE \/ owner_reconcile_settled(i) \/ owner_reconcile_declined(i)
           \/ owner_reconcile_refunded(i)
  BY <1>4, ReconcileSettledSorted, ReconcileDeclinedSorted, ReconcileRefundedSorted DEF Moves
<1> QED BY <1>1, <1>2, <1>3, <1>4 DEF OwnerIntentCall

LEMMA SortedStep ==
  ASSUME ConstantsAssumption, TypeOK, LedgerInv, [Next]_vars
  PROVE  Sorted
<1>1. ASSUME NEW a \in Agents, AgentCall(a)
      PROVE  Quiet
  <2>1. ASSUME NEW i \in Intents, cancel_intent(a, i)
        PROVE  Quiet
    <3>1. /\ i \in DOMAIN intents
          /\ intents[i].state \in {"proposed", "approval_required", "policy_validated"}
          /\ SetState(i, "cancelled") /\ UNCHANGED << purse, rails >>
      BY <2>1 DEF cancel_intent, OfAgent
    <3>2. intents[i].state \in Untouched
      BY <3>1 DEF Untouched, Waiting
    <3> QED BY <3>1, <3>2, DecisionQuiet
  <2> QED BY <1>1, <2>1, CreateQuiet DEF AgentCall
<1>2. CASE OwnerTreasuryCall
  <2>1. CASE \/ owner_emergency_stop_on \/ owner_emergency_stop_off
             \/ \E reference \in DepositReferences : owner_record_unverified_deposit(reference)
    <3>1. CASE owner_emergency_stop_on
      BY <3>1, UnbindQuiet DEF owner_emergency_stop_on, Sorted
    <3>2. CASE owner_emergency_stop_off
      BY <3>2, SameIntentsQuiet DEF owner_emergency_stop_off, purse, rails, Sorted
    <3>3. ASSUME NEW reference, owner_record_unverified_deposit(reference)
          PROVE  Sorted
      BY <3>3, SameIntentsQuiet DEF owner_record_unverified_deposit, rails, Sorted
    <3> QED BY <2>1, <3>1, <3>2, <3>3
  <2> QED BY <1>2, <2>1, ConfigureSorted DEF OwnerTreasuryCall, Sorted
<1>3. CASE Call
  <2>1. CASE Handler
    BY <1>1, <1>2, <2>1, OwnerAgentSorted, OwnerIntentSorted DEF Handler, Sorted
  <2>2. ASSUME NEW i \in DOMAIN intents, prepare_intent_execution(i)
        PROVE  Sorted
    BY <2>2, PrepareSorted DEF Sorted, Moves, TypeOK
  <2> QED BY <1>3, <2>1, <2>2, InDomain
          DEF Call, Execution, execute_intent, execute_controlled_checkout, OfAgent,
              owner_execute_approved_handoff
<1>4. ASSUME NEW i \in Intents, complete_intent_execution(i)
      PROVE  Sorted
  BY <1>4, CompletionSorted DEF Sorted, Moves
<1>5. CASE Tick
  <2>1. ASSUME NEW i \in Intents, IntentAges(i)
        PROVE  Quiet
    <3>1. /\ i \in DOMAIN intents /\ UNCHANGED << purse, rails >>
          /\ \E age : intents' = [intents EXCEPT ![i].age = age]
      BY <2>1 DEF IntentAges
    <3> QED BY <3>1, AgeQuiet
  <2>2. ASSUME NEW i \in Intents, SettlementLeavesWindow(i)
        PROVE  Quiet
    BY <2>2, SameIntentsQuiet DEF SettlementLeavesWindow, rails
  <2>3. ASSUME NEW a \in Agents, SessionEnds(a) \/ CapabilityExpires(a)
        PROVE  Quiet
    BY <2>3, SameIntentsQuiet DEF SessionEnds, CapabilityExpires, purse, rails
  <2>4. CASE BalanceExpires
    <3>1. manual_provider \in ManualProviderRecord
      BY DEF TypeOK
    <3>2. /\ manual_provider'.amount = manual_provider.amount
          /\ manual_provider'.outgoing_supported = manual_provider.outgoing_supported
      BY <2>4, <3>1, CardUpdates DEF BalanceExpires
    <3> QED BY <2>4, <3>2, SameIntentsQuiet DEF BalanceExpires, purse, Sorted
  <2> QED BY <1>5, <2>1, <2>2, <2>3, <2>4 DEF Tick, Sorted
<1>6. CASE UNCHANGED vars
  BY <1>6, SameIntentsQuiet DEF vars, Sorted
<1> QED BY <1>3, <1>4, <1>5, <1>6 DEF Next

-----------------------------------------------------------------------------
(* The ledger.                                                              *)

LEMMA UntouchedEvents == \A s \in Untouched : EventsOf(s) = EventsOf("draft")
<1>1. \A s \in Untouched : s \notin Reserving \cup {"settled", "declined", "refunded"}
  BY MoneyStates
<1>2. "draft" \in Untouched
  BY DEF Untouched
<1> QED BY <1>1, <1>2 DEF EventsOf

LEMMA QuietLedger ==
  ASSUME TypeOK, DOMAIN intents' \subseteq Intents, LedgerInv, Quiet
  PROVE  LedgerInv'
<1>1. ASSUME NEW j \in DOMAIN intents'
      PROVE  Told(j)' /\ (intents[j].state # intents'[j].state => j \notin provider.charges)
  <2>1. ledger'[j] = ledger[j] /\ provider' = provider
    BY DEF Quiet
  <2>2. CASE j \in DOMAIN intents /\ intents'[j].state = intents[j].state
    BY <2>1, <2>2 DEF Quiet, LedgerInv, Told
  <2>3. CASE j \in DOMAIN intents /\ {intents[j].state, intents'[j].state} \subseteq Untouched
    <3>1. Told(j) /\ intents'[j].receipt = intents[j].receipt
      BY <2>3 DEF LedgerInv, Quiet
    <3>2. /\ intents[j].state \notin Reserving \cup {"settled", "declined", "refunded"}
          /\ intents'[j].state \notin Reserving \cup {"settled", "declined", "refunded"}
      BY <2>3, MoneyStates
    <3>3. {"unknown", "provider_pending"} \subseteq Reserving
      BY DEF Reserving
    <3>4. EventsOf(intents'[j].state) = EventsOf(intents[j].state)
      BY <2>3, UntouchedEvents
    <3> QED BY <2>1, <3>1, <3>2, <3>3, <3>4 DEF Told
  <2>4. CASE j \notin DOMAIN intents
    <3>1. intents'[j].state \in Untouched /\ ~intents'[j].receipt /\ j \in Intents
      BY <2>4 DEF Quiet
    <3>2. ledger[j] = EventsOf("draft") /\ j \notin provider.charges \cup provider.holds
      BY <2>4, <3>1 DEF LedgerInv
    <3>3. intents'[j].state \notin Reserving \cup {"settled", "declined", "refunded"}
      BY <3>1, MoneyStates
    <3>4. {"unknown", "provider_pending"} \subseteq Reserving
      BY DEF Reserving
    <3> QED BY <2>1, <3>1, <3>2, <3>3, <3>4, UntouchedEvents DEF Told
  <2> QED BY <2>2, <2>3, <2>4 DEF Quiet
<1>2. DOMAIN intents \subseteq DOMAIN intents'
  BY DEF Quiet, SamePurchase
<1>3. UNCHANGED << ledger, provider, provider_mode >>
  BY DEF Quiet
<1>4. provider_mode = "manual_prepaid_card" =>
        \A i \in provider.charges : intents'[i].state \in {"settled", "refunded"}
  BY <1>1, <1>2 DEF LedgerInv
<1> QED BY <1>1, <1>2, <1>3, <1>4 DEF LedgerInv

LEMMA MovedLedger ==
  ASSUME TypeOK, LedgerInv, NEW i, NEW from, NEW s, Moved(i, from, s),
         provider'.charges \subseteq provider.charges \cup {i},
         provider.charges \subseteq provider'.charges,
         provider'.holds \ {i} = provider.holds \ {i},
         i \in provider'.charges => s \in {"unknown", "settled", "refunded"},
         i \in provider'.holds <=> s = "provider_pending",
         provider_mode = "manual_prepaid_card" =>
           (i \in provider'.charges => s \in {"settled", "refunded"}) /\ i \notin provider'.holds
  PROVE  LedgerInv'
<1>1. /\ i \in DOMAIN intents /\ i \in Intents
      /\ DOMAIN intents' = DOMAIN intents
      /\ ledger \in [Intents -> LedgerCounts]
      /\ ledger' = [ledger EXCEPT ![i] = EventsOf(s)]
      /\ intents'[i].state = s /\ (intents'[i].receipt <=> s \in {"settled", "refunded"})
      /\ \A j \in DOMAIN intents \ {i} : intents'[j] = intents[j]
      /\ provider_mode' = provider_mode
  BY DEF Moved, TypeOK
<1>2. ledger'[i] = EventsOf(s) /\ \A j \in Intents \ {i} : ledger'[j] = ledger[j]
  BY <1>1
<1>3. Told(i)'
  BY <1>1, <1>2 DEF Told
<1>4. ASSUME NEW j \in DOMAIN intents \ {i}
      PROVE  Told(j)'
  <2>1. Told(j) /\ j \in Intents
    BY DEF LedgerInv, TypeOK
  <2>2. /\ intents'[j] = intents[j] /\ ledger'[j] = ledger[j]
        /\ j \in provider'.charges <=> j \in provider.charges
        /\ j \in provider'.holds <=> j \in provider.holds
    BY <1>1, <1>2, <2>1
  <2> QED BY <2>1, <2>2 DEF Told
<1>5. \A j \in Intents \ DOMAIN intents' : ledger'[j] = EventsOf("draft")
  BY <1>1, <1>2 DEF LedgerInv
<1>6. provider'.charges \cup provider'.holds \subseteq DOMAIN intents'
  BY <1>1 DEF LedgerInv
<1>7. provider_mode' = "manual_prepaid_card" =>
        /\ \A j \in provider'.charges : intents'[j].state \in {"settled", "refunded"}
        /\ provider'.holds = {}
  BY <1>1 DEF LedgerInv
<1> QED BY <1>1, <1>3, <1>4, <1>5, <1>6, <1>7 DEF LedgerInv

LEMMA MovesLedger ==
  ASSUME TypeOK, LedgerInv, NEW i \in Intents, Moves(i)
  PROVE  LedgerInv'
<1>1. i \in DOMAIN intents /\ Told(i)
  BY DEF Moves, Reserved, Settled, Declined, Pending, Unknown, Refunded, Moved, LedgerInv
<1>2. provider_mode \in {"simulated", "manual_prepaid_card"}
  BY DEF TypeOK
<1>3. CASE Reserved(i)
  <2>1. intents[i].state \notin Reserving \cup {"settled", "declined", "refunded"}
    BY <1>3, MoneyStates DEF Reserved, Moved
  <2>2. i \notin provider.charges \cup provider.holds
    BY <1>1, <2>1 DEF Told, Reserving
  <2> QED BY <1>3, <2>2, MovedLedger DEF Reserved
<1>4. CASE Settled(i)
  <2>1. Moved(i, {"executing"} \cup Uncertain, "settled")
    BY <1>4 DEF Settled
  <2>2. CASE Charged(i)
    BY <2>1, <2>2, MovedLedger DEF Charged, Books
  <2>3. CASE /\ i \in provider.charges /\ provider_mode = "simulated"
             /\ UNCHANGED provider
    <3>1. i \notin provider.holds
      BY <1>1, <2>3 DEF Told
    <3> QED BY <2>1, <2>3, <3>1, MovedLedger
  <2>4. CASE provider_mode = "manual_prepaid_card" /\ UNCHANGED provider
    <3>1. provider.holds = {}
      BY <2>4 DEF LedgerInv
    <3> QED BY <2>1, <2>4, <3>1, MovedLedger
  <2> QED BY <1>4, <2>2, <2>3, <2>4 DEF Settled
<1>5. CASE Declined(i)
  <2>1. Moved(i, {"executing"} \cup Uncertain, "declined")
    BY <1>5 DEF Declined
  <2>2. CASE /\ provider_mode = "simulated" /\ i \notin provider.charges
             /\ Books(provider.balance, provider.holds \ {i}, provider.charges)
    BY <2>1, <2>2, MovedLedger DEF Books
  <2>3. CASE provider_mode = "manual_prepaid_card" /\ UNCHANGED provider
    <3>1. provider.holds = {}
      BY <2>3 DEF LedgerInv
    <3>2. i \notin provider.charges
      <4>1. intents[i].state \notin {"settled", "refunded"}
        BY <2>1, MoneyStates DEF Moved
      <4> QED BY <2>3, <4>1 DEF LedgerInv
    <3> QED BY <2>1, <2>3, <3>1, <3>2, MovedLedger
  <2> QED BY <1>5, <2>2, <2>3 DEF Declined
<1>6. CASE Pending(i)
  <2>1. Moved(i, {"executing"}, "provider_pending") /\ provider_mode = "simulated"
    BY <1>6 DEF Pending
  <2>2. i \notin provider.charges
    BY <1>1, <2>1 DEF Told, Moved
  <2>3. Books(provider.balance, provider.holds \cup {i}, provider.charges)
    BY <1>6 DEF Pending
  <2> QED BY <2>1, <2>2, <2>3, MovedLedger DEF Books
<1>7. CASE Unknown(i)
  <2>1. Moved(i, {"executing"}, "unknown")
    BY <1>7 DEF Unknown
  <2>2. i \notin provider.charges /\ i \notin provider.holds
    BY <1>1, <2>1 DEF Told, Moved
  <2>3. CASE Charged(i)
    BY <2>1, <2>3, MovedLedger DEF Charged, Books
  <2>4. CASE UNCHANGED provider
    BY <2>1, <2>2, <2>4, MovedLedger
  <2> QED BY <1>7, <2>3, <2>4 DEF Unknown
<1>8. CASE Refunded(i)
  <2>1. Moved(i, {"settled"} \cup Uncertain, "refunded")
    BY <1>8 DEF Refunded
  <2>2. CASE /\ provider_mode = "simulated" /\ i \in provider.charges
             /\ Books(provider.balance + final_total(i), provider.holds, provider.charges)
    <3>1. i \notin provider.holds
      BY <1>1, <2>2 DEF Told
    <3> QED BY <2>1, <2>2, <3>1, MovedLedger DEF Books
  <2>3. CASE provider_mode = "manual_prepaid_card" /\ UNCHANGED provider
    <3>1. provider.holds = {}
      BY <2>3 DEF LedgerInv
    <3> QED BY <2>1, <2>3, <3>1, MovedLedger
  <2> QED BY <1>8, <2>2, <2>3 DEF Refunded
<1> QED BY <1>3, <1>4, <1>5, <1>6, <1>7, <1>8 DEF Moves

LEMMA LedgerStep ==
  ASSUME TypeOK, DOMAIN intents' \subseteq Intents, LedgerInv, Sorted
  PROVE  LedgerInv'
<1>1. CASE Deposited
  <2>1. /\ UNCHANGED << intents, ledger, provider_mode >>
        /\ provider'.charges = provider.charges /\ provider'.holds = provider.holds
    BY <1>1 DEF Deposited, Books
  <2> QED BY <2>1 DEF LedgerInv, Told
<1>2. CASE Configured
  <2>1. /\ UNCHANGED << intents, ledger, provider >>
        /\ \A i \in DOMAIN intents : intents[i].state \in Terminal
    BY <1>2 DEF Configured, InState
  <2>2. \A i \in provider.charges : intents[i].state \in {"settled", "refunded"}
    BY <2>1, MoneyStates DEF LedgerInv, Told
  <2>3. provider.holds = {}
    BY <2>1, MoneyStates DEF LedgerInv, Told
  <2> QED BY <2>1, <2>2, <2>3 DEF LedgerInv, Told
<1> QED BY <1>1, <1>2, QuietLedger, MovesLedger DEF Sorted
LEMMA LedgerInvInit == Init => LedgerInv
<1> SUFFICES ASSUME Init PROVE LedgerInv
  OBVIOUS
<1>1. DOMAIN intents = {} /\ provider_mode = "simulated"
  BY DEF Init
<1>2. provider.charges = {} /\ provider.holds = {}
  BY DEF Init
<1>3. "draft" \notin Reserving \cup {"settled", "declined", "refunded"}
  BY DEF Reserving
<1>4. \A i \in Intents : ledger[i] = EventsOf("draft")
  BY <1>3 DEF Init, EventsOf
<1> QED BY <1>1, <1>2, <1>4 DEF LedgerInv

LEMMA LedgerInvStep ==
  ASSUME ConstantsAssumption, TypeOK, LedgerInv, [Next]_vars
  PROVE  LedgerInv' /\ Sorted
<1>1. DOMAIN intents' \subseteq Intents
  BY NextType DEF TypeOK
<1> QED BY <1>1, SortedStep, LedgerStep

(* The ledger, the provider's books and the receipts tell the same story as *)
(* the state of each purchase, whatever the number of agents, purchases and *)
(* deposits: every handler that books an event or moves a purchase does     *)
(* both (record_settled, apply_provider_outcome, owner_reconcile).          *)
THEOREM LedgerTells == Spec => []LedgerTellsTheState
<1>1. TypeOK /\ LedgerInv /\ [Next]_vars => LedgerInv'
  BY ConstantsAssumption, LedgerInvStep
<1>2. TypeOK /\ LedgerInv => LedgerTellsTheState
  BY ToldParts DEF LedgerInv
<1> QED BY <1>1, <1>2, LedgerInvInit, TypeCorrect, PTL DEF Spec

-----------------------------------------------------------------------------
(* The card that needs its owner.                                           *)

LEMMA ManualCardStep ==
  ASSUME TypeOK, ManualCardNeedsOwner, Sorted
  PROVE  ManualCardNeedsOwner'
<1> SUFFICES ASSUME NEW j \in DOMAIN intents', intents'[j].state = "policy_validated",
                    provider_mode' = "manual_prepaid_card",
                    ~manual_provider'.outgoing_supported
             PROVE  FALSE
  BY DEF ManualCardNeedsOwner, InState
<1>1. CASE Quiet
  BY <1>1 DEF Quiet, ManualCardNeedsOwner, InState
<1>2. ASSUME NEW i, NEW from, NEW s, Moved(i, from, s), s # "policy_validated"
      PROVE  FALSE
  BY <1>2 DEF Moved, ManualCardNeedsOwner, InState
<1>3. CASE Deposited
  BY <1>3 DEF Deposited, ManualCardNeedsOwner, InState
<1>4. CASE Configured
  BY <1>4, MoneyStates DEF Configured, InState
<1>5. ASSUME NEW i \in Intents, Moves(i)
      PROVE  FALSE
  BY <1>2, <1>5 DEF Moves, Reserved, Settled, Declined, Pending, Unknown, Refunded
<1> QED BY <1>1, <1>3, <1>4, <1>5 DEF Sorted

(* While the card is not enabled for controlled checkout, no purchase is    *)
(* executable that the owner did not approve one by one, whatever policies, *)
(* requests and screening there are: create_intent asks for the owner, and  *)
(* owner_configure_manual_provider leaves no validated purchase behind.     *)
THEOREM CardNeedsOwner == Spec => []ManualCardNeedsOwner
<1>1. Init => ManualCardNeedsOwner
  BY DEF Init, ManualCardNeedsOwner
<1>2. TypeOK /\ LedgerInv /\ [Next]_vars => LedgerInv'
  BY ConstantsAssumption, LedgerInvStep
<1>3. TypeOK /\ LedgerInv /\ ManualCardNeedsOwner /\ [Next]_vars => ManualCardNeedsOwner'
  BY ConstantsAssumption, LedgerInvStep, ManualCardStep
<1> QED BY <1>1, <1>2, <1>3, LedgerInvInit, TypeCorrect, PTL DEF Spec
-----------------------------------------------------------------------------
(* Sums over purchases.                                                     *)

LEMMA PurchaseAmounts ==
  ASSUME ConstantsAssumption, TypeOK, NEW S, S \subseteq DOMAIN intents
  PROVE  /\ Amounts(S, Totals) /\ Total(S, Totals) \in Nat
         /\ \A i \in S : Totals[i] = final_total(i) /\ final_total(i) \in Nat \ {0}
<1>1. \A i \in DOMAIN intents : intents[i].request \in Requests
  BY DEF TypeOK, IntentRecord
<1>2. \A i \in DOMAIN intents : final_total(i) \in Nat \ {0}
  BY <1>1 DEF ConstantsAssumption, RequestRecord, final_total
<1>3. \A i \in S : Totals[i] = final_total(i)
  BY DEF Totals
<1>4. IsFiniteSet(S)
  BY FS_Subset DEF ConstantsAssumption, TypeOK
<1>5. Amounts(S, Totals)
  BY <1>2, <1>3, <1>4 DEF Amounts
<1> QED BY <1>2, <1>3, <1>5, TotalType

(* What ledger_snapshot adds up from the events is what is left when the    *)
(* purchases that hold or have spent money are taken out.                   *)
AuthorityAdds ==
  available_authority = Capital + operator_topups - Total(Committed, Totals)

LEMMA AuthorityIs == TypeOK /\ LedgerInv => AuthorityAdds
<1> SUFFICES ASSUME TypeOK, LedgerInv PROVE AuthorityAdds
  OBVIOUS
<1> USE ConstantsAssumption
<1> DEFINE S == InState({"settled"})
           R == InState({"refunded"})
           H == InState(Reserving)
<1>1. /\ S \subseteq DOMAIN intents /\ R \subseteq DOMAIN intents /\ H \subseteq DOMAIN intents
      /\ S \cup R = InState({"settled", "refunded"}) /\ S \cap R = {}
      /\ Committed = S \cup H
  BY DEF InState, Committed
<1>2. S \cap H = {}
  BY MoneyStates DEF InState
<1>3. ASSUME NEW i \in DOMAIN intents
      PROVE  /\ i \in S \cup R => SettledAmounts[i] = Totals[i]
             /\ i \notin S \cup R => SettledAmounts[i] = 0
             /\ i \in R => RefundAmounts[i] = Totals[i]
             /\ i \notin R => RefundAmounts[i] = 0
  <2>0. ledger[i] = EventsOf(intents[i].state)
    BY <1>3 DEF LedgerInv, Told
  <2>1. /\ ledger[i].spending_settled = IF i \in S \cup R THEN 1 ELSE 0
        /\ ledger[i].refund = IF i \in R THEN 1 ELSE 0
    BY <1>3, <2>0 DEF EventsOf, InState
  <2>2. Totals[i] = final_total(i) /\ final_total(i) \in Nat
    BY <1>3, PurchaseAmounts
  <2>3. /\ SettledAmounts[i] = ledger[i].spending_settled * final_total(i)
        /\ RefundAmounts[i] = ledger[i].refund * final_total(i)
    BY <1>3 DEF SettledAmounts, RefundAmounts
  <2>4. 1 * final_total(i) = final_total(i) /\ 0 * final_total(i) = 0
    BY <2>2
  <2> HIDE DEF S, R
  <2> QED BY <2>1, <2>2, <2>3, <2>4
<1> HIDE DEF S, R, H
<1>4. settled_spending = Total(S \cup R, Totals)
  <2>1. S \cup R \subseteq DOMAIN intents
    BY <1>1
  <2> QED BY <1>3, <2>1, TotalSupport DEF settled_spending
<1>5. refunds = Total(R, Totals)
  BY <1>1, <1>3, TotalSupport DEF refunds
<1>6. /\ Amounts(S, Totals) /\ Amounts(R, Totals) /\ Amounts(H, Totals)
      /\ Total(S, Totals) \in Nat /\ Total(R, Totals) \in Nat /\ Total(H, Totals) \in Nat
  BY <1>1, PurchaseAmounts
<1>7. /\ Total(S \cup R, Totals) = Total(S, Totals) + Total(R, Totals)
      /\ Total(Committed, Totals) = Total(S, Totals) + Total(H, Totals)
  BY <1>1, <1>2, <1>6, TotalUnion
<1>8. reserved_amount = Total(H, Totals)
  BY DEF reserved_amount, H
<1>9. operator_topups \in Nat /\ Capital \in Nat
  BY DEF TypeOK, ConstantsAssumption
<1> QED BY <1>4, <1>5, <1>6, <1>7, <1>8, <1>9 DEF available_authority, AuthorityAdds

(* The same of the next state.                                              *)
LEMMA NextAuthorityIs == TypeOK' /\ LedgerInv' => AuthorityAdds'
BY AuthorityIs, PTL

(* The amount of a purchase never changes.                                  *)
LEMMA TotalsStep ==
  ASSUME TypeOK, Sorted, NEW S, S \subseteq DOMAIN intents
  PROVE  /\ S \subseteq DOMAIN intents'
         /\ \A i \in S : final_total(i)' = final_total(i)
         /\ Total(S, Totals') = Total(S, Totals)
<1>1. ASSUME NEW i \in DOMAIN intents PROVE SamePurchase(i)
  <2>1. ASSUME NEW j, NEW from, NEW s, Moved(j, from, s) PROVE SamePurchase(i)
    BY <2>1 DEF Moved, SamePurchase
  <2>2. ASSUME NEW j \in Intents, Moves(j) PROVE SamePurchase(i)
    BY <2>1, <2>2 DEF Moves, Reserved, Settled, Declined, Pending, Unknown, Refunded
  <2>3. CASE Deposited \/ Configured
    BY <2>3 DEF Deposited, Configured, SamePurchase
  <2>4. CASE Quiet
    BY <2>4 DEF Quiet
  <2> QED BY <2>2, <2>3, <2>4 DEF Sorted
<1>2. \A i \in S : i \in DOMAIN intents' /\ final_total(i)' = final_total(i)
  BY <1>1 DEF SamePurchase, final_total
<1>3. \A i \in S : Totals'[i] = Totals[i]
  BY <1>2 DEF Totals
<1> QED BY <1>2, <1>3, TotalSame

(* The purchases in a class of states that knows of money.                  *)
LEMMA InStateStep ==
  ASSUME TypeOK, NEW S, S \cap Untouched = {}
  PROVE  /\ Quiet => InState(S)' = InState(S)
         /\ \A i, from, s : Moved(i, from, s) =>
              InState(S)' = IF s \in S THEN InState(S) \cup {i} ELSE InState(S) \ {i}
         /\ Deposited \/ Configured => InState(S)' = InState(S)
<1>1. ASSUME Quiet
      PROVE  InState(S)' = InState(S)
  BY <1>1 DEF Quiet, InState, SamePurchase
<1>2. ASSUME NEW i, NEW from, NEW s, Moved(i, from, s)
      PROVE  InState(S)' = IF s \in S THEN InState(S) \cup {i} ELSE InState(S) \ {i}
  BY <1>2 DEF Moved, InState
<1>3. ASSUME Deposited \/ Configured
      PROVE  InState(S)' = InState(S)
  BY <1>3 DEF Deposited, Configured, InState
<1> QED BY <1>1, <1>2, <1>3
SumIn(S) == Total(InState(S), Totals)

(* A moved purchase takes its amount from one class of states to another;   *)
(* no other step moves an amount.                                           *)
LEMMA SumStep ==
  ASSUME ConstantsAssumption, TypeOK, Sorted, NEW S, S \cap Untouched = {}
  PROVE  /\ SumIn(S) \in Nat
         /\ Quiet \/ Deposited \/ Configured => SumIn(S)' = SumIn(S)
         /\ \A i, from, s : Moved(i, from, s) =>
              /\ i \in DOMAIN intents /\ final_total(i) \in Nat \ {0}
              /\ (s \in S <=> intents[i].state \in S) => SumIn(S)' = SumIn(S)
              /\ s \in S /\ intents[i].state \notin S
                   => SumIn(S)' = SumIn(S) + final_total(i)
              /\ s \notin S /\ intents[i].state \in S
                   => SumIn(S)' = SumIn(S) - final_total(i)
<1> DEFINE In == InState(S)
<1>1. In \subseteq DOMAIN intents
  BY InDomain
<1>2. Amounts(In, Totals) /\ Total(In, Totals) \in Nat
  BY <1>1, PurchaseAmounts
<1>3. ASSUME InState(S)' \subseteq DOMAIN intents
      PROVE  SumIn(S)' = Total(InState(S)', Totals)
  BY <1>3, TotalsStep DEF SumIn
<1>4. ASSUME Quiet \/ Deposited \/ Configured
      PROVE  SumIn(S)' = SumIn(S)
  <2>1. InState(S)' = In
    BY <1>4, InStateStep
  <2> QED BY <1>1, <1>3, <2>1 DEF SumIn
<1>5. ASSUME NEW i, NEW from, NEW s, Moved(i, from, s)
      PROVE  /\ i \in DOMAIN intents /\ final_total(i) \in Nat \ {0}
             /\ (s \in S <=> intents[i].state \in S) => SumIn(S)' = SumIn(S)
             /\ s \in S /\ intents[i].state \notin S
                  => SumIn(S)' = SumIn(S) + final_total(i)
             /\ s \notin S /\ intents[i].state \in S
                  => SumIn(S)' = SumIn(S) - final_total(i)
  <2>1. i \in DOMAIN intents /\ (i \in In <=> intents[i].state \in S)
    BY <1>5 DEF Moved, InState
  <2>2. final_total(i) \in Nat \ {0} /\ Totals[i] = final_total(i)
    BY <2>1, PurchaseAmounts
  <2>3. InState(S)' = IF s \in S THEN In \cup {i} ELSE In \ {i}
    BY <1>5, InStateStep
  <2>4. SumIn(S)' = Total(InState(S)', Totals)
    BY <1>1, <1>3, <2>1, <2>3
  <2> HIDE DEF In
  <2>5. CASE s \in S /\ i \notin In
    BY <1>2, <2>1, <2>2, <2>3, <2>4, <2>5, TotalAdd DEF SumIn, In
  <2>6. CASE s \notin S /\ i \in In
    BY <1>2, <2>1, <2>2, <2>3, <2>4, <2>6, TotalRemove DEF SumIn, In
  <2>7. CASE s \in S <=> i \in In
    <3>1. InState(S)' = In
      BY <2>3, <2>7
    <3> QED BY <2>1, <2>2, <2>4, <2>7, <3>1 DEF SumIn, In
  <2> QED BY <2>1, <2>2, <2>5, <2>6, <2>7
<1> QED BY <1>2, <1>4, <1>5 DEF SumIn

-----------------------------------------------------------------------------
(* The authority.                                                           *)

(* A purchase is reserved only with a decision that both the ledger and the *)
(* provider cover.                                                          *)
LEMMA ReservedIsCovered ==
  ASSUME NEW i, Reserved(i)
  PROVE  /\ ~(available_authority < final_total(i))
         /\ ~(provider_available_balance < final_total(i))
BY DEF Reserved, decide, enforce_authority, final_total

LEMMA AuthorityStep ==
  ASSUME ConstantsAssumption, TypeOK, LedgerInv, AuthorityInv, Sorted
  PROVE  AuthorityInv'
<1> DEFINE S == Reserving \cup {"settled"}
           c == SumIn(S)
<1>1. S \cap Untouched = {}
  BY MoneyStates
<1>2. {"executing", "settled", "provider_pending", "unknown"} \cup Uncertain \subseteq S
  BY MoneyStates DEF Reserving
<1>3. Executable \cap S = {} /\ "declined" \notin S /\ "refunded" \notin S
  BY <1>1, MoneyStates
<1>4. Total(Committed, Totals) = c /\ Total(Committed, Totals)' = c'
  BY DEF Committed, SumIn
<1> HIDE DEF S
<1>5. c \in Nat /\ Capital \in Nat /\ operator_topups \in Nat
  BY <1>1, SumStep DEF ConstantsAssumption, TypeOK
<1>6. c <= Capital + operator_topups
  BY <1>4 DEF AuthorityInv
<1>7. SUFFICES c' <= Capital + operator_topups'
  BY <1>4 DEF AuthorityInv
<1>8. CASE Quiet \/ Configured
  BY <1>1, <1>6, <1>8, SumStep DEF Quiet, Configured
<1>9. CASE Deposited
  <2>1. c' = c
    BY <1>1, <1>9, SumStep
  <2> QED BY <1>5, <1>6, <1>9, <2>1 DEF Deposited
<1>10. ASSUME NEW i \in Intents, Reserved(i)
       PROVE  c' <= Capital + operator_topups'
  <2>1. Moved(i, Executable, "executing")
    BY <1>10 DEF Reserved
  <2>2. intents[i].state \notin S /\ "executing" \in S
    BY <1>2, <1>3, <2>1 DEF Moved
  <2>3. c' = c + final_total(i) /\ final_total(i) \in Nat
    BY <1>1, <2>1, <2>2, SumStep
  <2>4. available_authority = Capital + operator_topups - c
    BY <1>4, AuthorityIs DEF AuthorityAdds
  <2>5. ~(available_authority < final_total(i)) /\ operator_topups' = operator_topups
    BY <1>10, <2>1, ReservedIsCovered DEF Moved
  <2> HIDE DEF c
  <2> QED BY <1>5, <2>3, <2>4, <2>5
<1>11. ASSUME NEW i, NEW from, NEW s, Moved(i, from, s), from \subseteq S
       PROVE  c' <= Capital + operator_topups'
  <2>1. intents[i].state \in S /\ operator_topups' = operator_topups
    BY <1>11 DEF Moved
  <2>2. c' \in {c, c - final_total(i)} /\ final_total(i) \in Nat
    BY <1>1, <1>11, <2>1, SumStep
  <2> HIDE DEF c
  <2> QED BY <1>5, <1>6, <2>1, <2>2
<1>12. ASSUME NEW i \in Intents, Moves(i)
       PROVE  c' <= Capital + operator_topups'
  <2>1. /\ {"executing"} \cup Uncertain \subseteq S
        /\ {"executing"} \subseteq S /\ {"settled"} \cup Uncertain \subseteq S
    BY <1>2
  <2>2. CASE Settled(i) \/ Declined(i)
    BY <1>11, <2>1, <2>2 DEF Settled, Declined
  <2>3. CASE Pending(i) \/ Unknown(i)
    BY <1>11, <2>1, <2>3 DEF Pending, Unknown
  <2>4. CASE Refunded(i)
    BY <1>11, <2>1, <2>4 DEF Refunded
  <2> QED BY <1>10, <1>12, <2>2, <2>3, <2>4 DEF Moves
<1> QED BY <1>8, <1>9, <1>12 DEF Sorted

LEMMA AuthorityFits ==
  ConstantsAssumption /\ TypeOK /\ LedgerInv /\ AuthorityInv => AuthorityNeverNegative
<1> SUFFICES ASSUME ConstantsAssumption, TypeOK, LedgerInv, AuthorityInv
             PROVE  AuthorityNeverNegative
  OBVIOUS
<1>1. /\ Total(Committed, Totals) \in Nat /\ Capital \in Nat /\ operator_topups \in Nat
  BY InDomain, PurchaseAmounts DEF Committed, ConstantsAssumption, TypeOK
<1> QED BY <1>1, AuthorityIs DEF AuthorityAdds, AuthorityInv, AuthorityNeverNegative

LEMMA AuthorityInvInit == Init => AuthorityInv
<1> SUFFICES ASSUME Init PROVE AuthorityInv
  OBVIOUS
<1>1. Committed = {} /\ operator_topups = 0 /\ Capital \in Nat
  BY ConstantsAssumption DEF Init, Committed, InState, ConstantsAssumption
<1> QED BY <1>1, TotalEmpty DEF AuthorityInv

(* ledger_snapshot never reports its "would become negative" conflict: the  *)
(* purchases that hold or have spent money never add up to more than the    *)
(* owner gave, whatever the policies, amounts and number of purchases.      *)
THEOREM AuthorityNotOverdrawn == Spec => []AuthorityNeverNegative
<1>1. TypeOK /\ LedgerInv /\ [Next]_vars => LedgerInv'
  BY ConstantsAssumption, LedgerInvStep
<1>2. TypeOK /\ LedgerInv /\ AuthorityInv /\ [Next]_vars => AuthorityInv'
  BY ConstantsAssumption, LedgerInvStep, AuthorityStep
<1>3. TypeOK /\ LedgerInv /\ AuthorityInv => AuthorityNeverNegative
  BY ConstantsAssumption, AuthorityFits
<1> QED
  BY <1>1, <1>2, <1>3, LedgerInvInit, AuthorityInvInit, TypeCorrect, PTL DEF Spec
-----------------------------------------------------------------------------
(* The card's balance.                                                      *)

LEMMA CoveredStep ==
  ASSUME ConstantsAssumption, TypeOK, ReservationsCovered, Sorted
  PROVE  ReservationsCovered'
<1> DEFINE c == SumIn(Reserving)
           card == manual_provider.amount
<1>1. Reserving \cap Untouched = {}
  BY MoneyStates
<1>2. c \in Nat /\ reserved_amount = c /\ reserved_amount' = c'
  BY <1>1, SumStep DEF SumIn, reserved_amount
<1>3. card \in Int
  BY DEF TypeOK, ManualProviderRecord
<1>4. SUFFICES ASSUME provider_mode' = "manual_prepaid_card"
               PROVE  card' >= c'
  BY <1>2 DEF ReservationsCovered
<1>5. provider_mode = "manual_prepaid_card" => card >= c
  BY <1>2 DEF ReservationsCovered
<1>6. CASE Quiet
  BY <1>1, <1>4, <1>5, <1>6, SumStep DEF Quiet
<1>7. CASE Deposited
  <2>1. c' = c
    BY <1>1, <1>7, SumStep
  <2> HIDE DEF c
  <2>2. /\ provider_mode = "manual_prepaid_card"
        /\ \E amount \in Nat : card' = card + amount
    BY <1>4, <1>7 DEF Deposited
  <2> HIDE DEF card
  <2> QED BY <1>2, <1>3, <1>5, <2>1, <2>2
<1>8. CASE Configured
  <2>1. InState(Reserving)' = {} /\ card' \in Nat
    BY <1>8, MoneyStates DEF Configured, InState
  <2>2. c' = 0
    BY <2>1, TotalEmpty DEF SumIn
  <2> QED BY <2>1, <2>2
<1>9. ASSUME NEW i \in Intents, Moves(i)
      PROVE  card' >= c'
  <2>1. provider_mode = "manual_prepaid_card" /\ card >= c
    BY <1>4, <1>5, <1>9 DEF Moves, Reserved, Settled, Declined, Pending, Unknown, Refunded, Moved
  <2>2. provider_mode # "simulated"
    BY <2>1
  <2>3. CASE Reserved(i)
    <3>1. Moved(i, Executable, "executing") /\ card' = card
      BY <2>3 DEF Reserved
    <3>2. intents[i].state \notin Reserving /\ "executing" \in Reserving
      BY <1>1, <3>1, MoneyStates DEF Moved
    <3>3. c' = c + final_total(i) /\ final_total(i) \in Nat
      BY <1>1, <3>1, <3>2, SumStep
    <3>4. ~(card - c < final_total(i))
      BY <1>2, <2>2, <2>3, ReservedIsCovered DEF provider_available_balance
    <3> HIDE DEF c, card
    <3> QED BY <1>2, <1>3, <3>1, <3>3, <3>4
  <2>4. CASE Settled(i)
    <3>1. /\ Moved(i, {"executing"} \cup Uncertain, "settled")
          /\ card' = card - final_total(i)
      BY <2>2, <2>4 DEF Settled, Charged
    <3>2. intents[i].state \in Reserving /\ "settled" \notin Reserving
      BY <3>1, MoneyStates DEF Moved
    <3>3. c' = c - final_total(i) /\ final_total(i) \in Nat
      BY <1>1, <3>1, <3>2, SumStep
    <3> HIDE DEF c, card
    <3> QED BY <1>2, <1>3, <2>1, <3>1, <3>3
  <2>5. CASE Declined(i)
    <3>1. Moved(i, {"executing"} \cup Uncertain, "declined") /\ card' = card
      BY <2>5 DEF Declined
    <3>2. intents[i].state \in Reserving /\ "declined" \notin Reserving
      BY <3>1, MoneyStates DEF Moved
    <3>3. c' = c - final_total(i) /\ final_total(i) \in Nat
      BY <1>1, <3>1, <3>2, SumStep
    <3> HIDE DEF c, card
    <3> QED BY <1>2, <1>3, <2>1, <3>1, <3>3
  <2>6. CASE Unknown(i)
    <3>1. Moved(i, {"executing"}, "unknown") /\ card' = card
      BY <2>2, <2>6 DEF Unknown, Charged
    <3>2. intents[i].state \in Reserving /\ "unknown" \in Reserving
      BY <3>1 DEF Moved, Reserving
    <3>3. c' = c
      BY <1>1, <3>1, <3>2, SumStep
    <3> QED BY <2>1, <3>1, <3>3
  <2>7. CASE Refunded(i)
    <3>1. /\ Moved(i, {"settled"} \cup Uncertain, "refunded")
          /\ card' = card + (IF intents[i].state = "settled" THEN final_total(i) ELSE 0)
      BY <2>2, <2>7 DEF Refunded
    <3>2. /\ "refunded" \notin Reserving /\ "settled" \notin Reserving
          /\ intents[i].state # "settled" => intents[i].state \in Reserving
      BY <3>1, MoneyStates DEF Moved
    <3>3. /\ final_total(i) \in Nat
          /\ intents[i].state = "settled" => c' = c
          /\ intents[i].state # "settled" => c' = c - final_total(i)
      BY <1>1, <3>1, <3>2, SumStep
    <3> HIDE DEF c, card
    <3> QED BY <1>2, <1>3, <2>1, <3>1, <3>3
  <2>8. ~Pending(i)
    BY <2>2 DEF Pending
  <2> QED BY <1>9, <2>3, <2>4, <2>5, <2>6, <2>7, <2>8 DEF Moves
<1> QED BY <1>6, <1>7, <1>8, <1>9 DEF Sorted

(* On the manual card every reservation can be settled: the balance covers  *)
(* all of them together, for any number of them and of deposits, so         *)
(* owner_reconcile never has to refuse evidence of a payment.               *)
THEOREM CardCoversReservations == Spec => []ReservationsCovered
<1>1. Init => ReservationsCovered
  BY DEF Init, ReservationsCovered
<1>2. TypeOK /\ LedgerInv /\ [Next]_vars => LedgerInv'
  BY ConstantsAssumption, LedgerInvStep
<1>3. TypeOK /\ LedgerInv /\ ReservationsCovered /\ [Next]_vars => ReservationsCovered'
  BY ConstantsAssumption, LedgerInvStep, CoveredStep
<1> QED BY <1>1, <1>2, <1>3, LedgerInvInit, TypeCorrect, PTL DEF Spec
-----------------------------------------------------------------------------
(* The simulated provider's books.                                          *)

(* A step leaves the outstanding charges as they are, or one comes to them, *)
(* or one leaves them.                                                      *)
LEMMA OutstandingStep ==
  ASSUME TypeOK, LedgerInv
  PROVE  /\ Outstanding \subseteq DOMAIN intents
         /\ Quiet \/ Deposited => Outstanding' = Outstanding
         /\ \A i, from, s :
              /\ Moved(i, from, s) /\ i \notin provider.charges
                   /\ provider'.charges = provider.charges => Outstanding' = Outstanding
              /\ Moved(i, from, s) /\ i \notin provider.charges /\ s # "refunded"
                   /\ provider'.charges = provider.charges \cup {i}
                   => i \notin Outstanding /\ Outstanding' = Outstanding \cup {i}
              /\ Moved(i, from, s) /\ i \in provider.charges /\ intents[i].state # "refunded"
                   /\ provider'.charges = provider.charges
                   => /\ i \in Outstanding
                      /\ s = "refunded" => Outstanding' = Outstanding \ {i}
                      /\ s # "refunded" => Outstanding' = Outstanding
<1>1. provider.charges \subseteq DOMAIN intents
  BY DEF LedgerInv
<1>2. ASSUME Quiet
      PROVE  Outstanding' = Outstanding
  <2>1. \A j \in provider.charges : intents[j].state \notin Untouched
    BY <1>1, MoneyStates DEF LedgerInv, Told, Untouched, Waiting
  <2>2. \A j \in provider.charges : intents'[j].state = intents[j].state
    BY <1>1, <1>2, <2>1 DEF Quiet
  <2> QED BY <1>2, <2>2 DEF Outstanding, Quiet
<1>3. ASSUME Deposited
      PROVE  Outstanding' = Outstanding
  BY <1>3 DEF Deposited, Books, Outstanding
<1>4. ASSUME NEW i, NEW from, NEW s, Moved(i, from, s)
      PROVE  \A j \in provider.charges \ {i} : intents'[j].state = intents[j].state
  BY <1>1, <1>4 DEF Moved
<1>5. ASSUME NEW i, NEW from, NEW s, Moved(i, from, s)
      PROVE  intents'[i].state = s
  BY <1>5 DEF Moved
<1> QED BY <1>1, <1>2, <1>3, <1>4, <1>5 DEF Outstanding

LEMMA BooksStep ==
  ASSUME ConstantsAssumption, TypeOK, LedgerInv, BooksInv, Sorted
  PROVE  BooksInv'
<1> DEFINE o == Total(Outstanding, Totals)
           free == provider.balance
<1>1. Outstanding \subseteq DOMAIN intents
  BY OutstandingStep
<1>2. /\ o \in Nat /\ Amounts(Outstanding, Totals)
      /\ free \in Int /\ operator_topups \in Nat /\ Capital \in Nat
  BY <1>1, PurchaseAmounts DEF TypeOK, ProviderRecord, ConstantsAssumption
<1>3. SUFFICES ASSUME provider_mode' = "simulated"
               PROVE  free' + o' >= Capital + operator_topups'
  BY DEF BooksInv
<1>4. ASSUME Outstanding' \subseteq DOMAIN intents
      PROVE  o' = Total(Outstanding', Totals)
  BY <1>4, TotalsStep
<1>5. provider_mode = "simulated" => free + o >= Capital + operator_topups
  BY DEF BooksInv
<1>6. CASE Quiet \/ Deposited
  <2>1. o' = o /\ provider_mode = "simulated"
    BY <1>1, <1>3, <1>4, <1>6, OutstandingStep DEF Quiet, Deposited
  <2>2. CASE Quiet
    BY <1>5, <2>1, <2>2 DEF Quiet
  <2>3. CASE Deposited
    <3>1. \E amount, reinvested \in Nat :
            /\ reinvested <= amount /\ operator_topups' = operator_topups + reinvested
            /\ free' = free + amount
      BY <2>1, <2>3 DEF Deposited, Books
    <3> HIDE DEF o, free
    <3> QED BY <1>2, <1>5, <2>1, <3>1
  <2> QED BY <1>6, <2>2, <2>3
<1>7. ~Configured
  BY <1>3 DEF Configured
<1>8. ASSUME NEW i \in Intents, Moves(i)
      PROVE  free' + o' >= Capital + operator_topups'
  <2>1. PICK from, s : Moved(i, from, s)
    BY <1>8 DEF Moves, Reserved, Settled, Declined, Pending, Unknown, Refunded
  <2>2. /\ i \in DOMAIN intents /\ Told(i) /\ intents'[i].state = s
        /\ operator_topups' = operator_topups /\ provider_mode' = provider_mode
    BY <2>1 DEF Moved, LedgerInv
  <2>3. free + o >= Capital + operator_topups /\ provider_mode = "simulated"
    BY <1>3, <1>5, <2>2
  <2>4. Totals[i] = final_total(i) /\ final_total(i) \in Nat
    BY <2>2, PurchaseAmounts
  <2>5. ASSUME Outstanding' = Outstanding, free' = free
        PROVE  free' + o' >= Capital + operator_topups'
    BY <1>1, <1>4, <2>2, <2>3, <2>5
  <2>6. ASSUME Charged(i), s # "refunded"
        PROVE  free' + o' >= Capital + operator_topups'
    <3>1. i \notin Outstanding /\ Outstanding' = Outstanding \cup {i}
      BY <2>1, <2>6, OutstandingStep DEF Charged, Books
    <3>2. o' = o + final_total(i)
      BY <1>1, <1>2, <1>4, <2>2, <2>4, <3>1, TotalAdd
    <3>3. free' = free - final_total(i)
      BY <2>6 DEF Charged, Books
    <3> HIDE DEF o, free
    <3> QED BY <1>2, <2>2, <2>3, <2>4, <3>2, <3>3
  <2>7. CASE Reserved(i) \/ Declined(i) \/ Pending(i) \/ (Unknown(i) /\ UNCHANGED provider)
    <3>1. i \notin provider.charges
      <4>1. Reserved(i) \/ Pending(i) \/ Unknown(i)
              => intents[i].state \notin {"unknown", "settled", "refunded"}
        BY DEF Reserved, Pending, Unknown, Moved, Executable
      <4>2. Declined(i) => i \notin provider.charges
        BY <2>3 DEF Declined
      <4> QED BY <2>2, <2>7, <4>1, <4>2 DEF Told
    <3>2. provider'.charges = provider.charges /\ free' = free
      BY <2>3, <2>7 DEF Reserved, Declined, Pending, Books
    <3> QED BY <2>1, <2>5, <3>1, <3>2, OutstandingStep
  <2>8. CASE Unknown(i) /\ Charged(i)
    <3>1. s # "refunded"
      BY <2>2, <2>8 DEF Unknown, Moved
    <3> QED BY <2>6, <2>8, <3>1
  <2>9. CASE Settled(i)
    <3>1. s # "refunded" /\ intents[i].state # "refunded"
      BY <2>2, <2>9, MoneyStates DEF Settled, Moved
    <3>2. CASE i \in provider.charges /\ UNCHANGED provider
      BY <2>1, <2>5, <3>1, <3>2, OutstandingStep
    <3> QED BY <2>3, <2>6, <2>9, <3>1, <3>2 DEF Settled
  <2>10. CASE Refunded(i)
    <3>1. /\ s = "refunded" /\ intents[i].state # "refunded" /\ i \in provider.charges
          /\ provider'.charges = provider.charges /\ free' = free + final_total(i)
      BY <2>2, <2>3, <2>10, MoneyStates DEF Refunded, Moved, Books
    <3>2. i \in Outstanding /\ Outstanding' = Outstanding \ {i}
      BY <2>1, <3>1, OutstandingStep
    <3>3. o' = Total(Outstanding \ {i}, Totals)
      BY <1>1, <1>4, <3>2
    <3>5. o' = o - final_total(i)
      <4>1. Total(Outstanding \ {i}, Totals) = Total(Outstanding, Totals) - Totals[i]
        BY <1>2, <3>2, TotalRemove
      <4> QED BY <2>4, <3>3, <4>1
    <3>4. free' = free + final_total(i)
      BY <3>1
    <3> HIDE DEF o, free
    <3> QED BY <1>2, <2>2, <2>3, <2>4, <3>4, <3>5
  <2>11. Unknown(i) => Charged(i) \/ UNCHANGED provider
    BY DEF Unknown
  <2> QED BY <1>8, <2>7, <2>8, <2>9, <2>10, <2>11 DEF Moves
<1> QED BY <1>6, <1>7, <1>8 DEF Sorted

(* Charges not given back and holds are of different purchases, and both of *)
(* purchases whose money is taken out of the authority.                     *)
LEMMA BooksAreCommitted ==
  ASSUME LedgerInv
  PROVE  /\ Outstanding \cup provider.holds \subseteq Committed
         /\ Outstanding \cap provider.holds = {}
<1>1. /\ \A i \in Outstanding : i \in DOMAIN intents /\ intents[i].state \in {"unknown", "settled"}
      /\ \A i \in provider.holds : i \in DOMAIN intents /\ intents[i].state = "provider_pending"
  BY DEF LedgerInv, Told, Outstanding
<1>2. {"unknown", "provider_pending"} \subseteq Reserving
  BY DEF Reserving
<1> QED BY <1>1, <1>2 DEF Committed, InState

LEMMA BackedByBooks ==
  ASSUME ConstantsAssumption, TypeOK, LedgerInv, BooksInv
  PROVE  AuthorityIsBacked
<1> DEFINE o == Total(Outstanding, Totals)
           c == Total(Committed, Totals)
           free == provider.balance
<1>1. /\ Outstanding \cup provider.holds \subseteq Committed
      /\ Outstanding \cap provider.holds = {} /\ Committed \subseteq DOMAIN intents
  BY BooksAreCommitted, InDomain DEF Committed
<1>2. /\ Amounts(Outstanding, Totals) /\ Amounts(provider.holds, Totals)
      /\ Amounts(Committed, Totals) /\ o \in Nat /\ held \in Nat /\ c \in Nat
  BY <1>1, PurchaseAmounts DEF held
<1>3. o + held <= c
  <2> DEFINE both == Outstanding \cup provider.holds
  <2>1. Total(both, Totals) = o + held
    BY <1>1, <1>2, TotalUnion DEF held
  <2>2. both \subseteq Committed
    BY <1>1
  <2> HIDE DEF both
  <2>3. Total(both, Totals) <= c
    BY <1>2, <2>2, TotalSubset
  <2> QED BY <2>1, <2>3
<1>4. available_authority = Capital + operator_topups - c
  BY AuthorityIs DEF AuthorityAdds
<1>5. provider_mode = "simulated" => free + o >= Capital + operator_topups
  BY DEF BooksInv
<1>6. free \in Int /\ operator_topups \in Nat /\ Capital \in Nat
  BY DEF TypeOK, ProviderRecord, ConstantsAssumption
<1>7. provider_mode = "simulated" => available_authority <= free - held
  <2> HIDE DEF o, c, free
  <2> QED BY <1>2, <1>3, <1>4, <1>5, <1>6
<1> QED BY <1>7 DEF AuthorityIsBacked

LEMMA BooksInvInit == Init => BooksInv
<1> SUFFICES ASSUME Init PROVE BooksInv
  OBVIOUS
<1>1. Outstanding = {} /\ operator_topups = 0 /\ provider.balance = Capital /\ Capital \in Nat
  BY ConstantsAssumption DEF Init, Outstanding, ConstantsAssumption
<1> QED BY <1>1, TotalEmpty DEF BooksInv

(* What agents may still be authorised to spend is backed by money the      *)
(* simulated provider still has free, even while a charge exists that the   *)
(* broker never saw confirmed: authorize and owner_reconcile charge, hold   *)
(* and credit the same amounts the ledger books.                            *)
THEOREM AuthorityBacked == Spec => []AuthorityIsBacked
<1>1. TypeOK /\ LedgerInv /\ [Next]_vars => LedgerInv'
  BY ConstantsAssumption, LedgerInvStep
<1>2. TypeOK /\ LedgerInv /\ BooksInv /\ [Next]_vars => BooksInv'
  BY ConstantsAssumption, LedgerInvStep, BooksStep
<1>3. TypeOK /\ LedgerInv /\ BooksInv => AuthorityIsBacked
  BY ConstantsAssumption, BackedByBooks
<1> QED
  BY <1>1, <1>2, <1>3, LedgerInvInit, BooksInvInit, TypeCorrect, PTL DEF Spec
-----------------------------------------------------------------------------
(* What the owner can book.                                                 *)

LEMMA PairConcat ==
  ASSUME NEW a, NEW b
  PROVE  <<a>> \o <<b>> = <<a, b>> /\ Len(<<b>>) = 1
<1> DEFINE S == {a, b}
           ab == <<a>> \o <<b>>
<1>1. /\ <<a>> \in Seq(S) /\ <<b>> \in Seq(S) /\ <<a, b>> \in Seq(S)
      /\ Len(<<a>>) = 1 /\ Len(<<b>>) = 1 /\ Len(<<a, b>>) = 2
  OBVIOUS
<1>2. ab \in Seq(S) /\ Len(ab) = 2 /\ ab[1] = a /\ ab[2] = b
  BY <1>1
<1>3. \A n \in 1 .. 2 : ab[n] = <<a, b>>[n]
  BY <1>2
<1> HIDE DEF ab
<1>4. ab = <<a, b>>
  BY <1>1, <1>2, <1>3, SeqEqual
<1> QED BY <1>1, <1>4 DEF ab

LEMMA TripleConcat ==
  ASSUME NEW a, NEW b, NEW c
  PROVE  <<a>> \o <<b, c>> = <<a, b, c>> /\ Len(<<b, c>>) = 2
<1> DEFINE S == {a, b, c}
           abc == <<a>> \o <<b, c>>
<1>1. /\ <<a>> \in Seq(S) /\ <<b, c>> \in Seq(S) /\ <<a, b, c>> \in Seq(S)
      /\ Len(<<a>>) = 1 /\ Len(<<b, c>>) = 2 /\ Len(<<a, b, c>>) = 3
  OBVIOUS
<1>2. abc \in Seq(S) /\ Len(abc) = 3 /\ abc[1] = a /\ abc[2] = b /\ abc[3] = c
  BY <1>1
<1>3. \A n \in 1 .. 3 : abc[n] = <<a, b, c>>[n]
  BY <1>2
<1> HIDE DEF abc
<1>4. abc = <<a, b, c>>
  BY <1>1, <1>2, <1>3, SeqEqual
<1> QED BY <1>1, <1>4 DEF abc

(* can_transition lets every uncertain purchase be settled and declined,    *)
(* by way of reconciliation_required where owner_reconcile goes that way.   *)
LEMMA ReconciliationPaths ==
  ASSUME NEW i, intents[i].state \in Uncertain, NEW s \in {"settled", "declined"}
  PROVE  transition(i, Reconciled(i, <<s>>))
<1> DEFINE from == intents[i].state
<1>1. /\ <<"unknown", "reconciliation_required">> \in can_transition
      /\ <<"provider_pending", "reconciliation_required">> \in can_transition
      /\ <<"reconciliation_required", s>> \in can_transition
  BY DEF can_transition
<1>2. CASE from = "reconciliation_required"
  <2>1. Reconciled(i, <<s>>) = <<s>>
    BY <1>2 DEF Reconciled
  <2>2. <<from>> \o <<s>> = <<from, s>> /\ Len(<<s>>) = 1
    BY PairConcat
  <2>3. ASSUME NEW n \in 1 .. 1
        PROVE  <<<<from, s>>[n], <<from, s>>[n + 1]>> \in can_transition
    <3>1. n = 1 /\ <<from, s>>[1] = from /\ <<from, s>>[2] = s
      OBVIOUS
    <3> QED BY <1>1, <1>2, <3>1
  <2> QED BY <2>1, <2>2, <2>3 DEF transition
<1>3. CASE from # "reconciliation_required"
  <2> DEFINE by == "reconciliation_required"
             states == <<from, by, s>>
  <2>1. from \in {"unknown", "provider_pending"}
    BY <1>3 DEF Uncertain
  <2>2. Reconciled(i, <<s>>) = <<by, s>>
    BY <2>1, PairConcat DEF Reconciled
  <2>3. <<from>> \o <<by, s>> = states /\ Len(<<by, s>>) = 2
    BY TripleConcat
  <2>4. ASSUME NEW n \in 1 .. 2
        PROVE  <<states[n], states[n + 1]>> \in can_transition
    <3>1. (n = 1 \/ n = 2) /\ states[1] = from /\ states[2] = by /\ states[3] = s
      OBVIOUS
    <3> QED BY <1>1, <2>1, <3>1
  <2> QED BY <2>2, <2>3, <2>4 DEF transition
<1> QED BY <1>2, <1>3

(* The balance still covers an uncertain purchase the simulated provider    *)
(* neither holds nor charged: its money is out of the authority, and beside *)
(* the holds and the outstanding charges.                                   *)
LEMMA UncertainIsCovered ==
  ASSUME ConstantsAssumption, TypeOK, LedgerInv, AuthorityInv, BooksInv,
         provider_mode = "simulated", NEW i \in InState(Uncertain),
         i \notin provider.holds, i \notin provider.charges
  PROVE  provider.balance - held >= final_total(i)
<1> DEFINE o == Total(Outstanding, Totals)
           c == Total(Committed, Totals)
           both == Outstanding \cup provider.holds
           free == provider.balance
           total == final_total(i)
<1>1. /\ Outstanding \cup provider.holds \subseteq Committed
      /\ Outstanding \cap provider.holds = {} /\ Committed \subseteq DOMAIN intents
  BY BooksAreCommitted, InDomain DEF Committed
<1>2. i \in Committed /\ i \notin both
  BY MoneyStates DEF Committed, InState, Outstanding
<1>3. /\ Amounts(Outstanding, Totals) /\ Amounts(provider.holds, Totals)
      /\ Amounts(Committed, Totals) /\ Amounts(both, Totals)
      /\ o \in Nat /\ held \in Nat /\ c \in Nat
      /\ Totals[i] = total /\ total \in Nat
  BY <1>1, <1>2, PurchaseAmounts DEF held
<1>4. Total(both, Totals) = o + held
  BY <1>1, <1>3, TotalUnion DEF held
<1>5. Total(both \cup {i}, Totals) = o + held + total
  <2> HIDE DEF both, o, total
  <2>1. Total(both \cup {i}, Totals) = Total(both, Totals) + Totals[i]
    BY <1>2, <1>3, TotalAdd
  <2> QED BY <1>3, <1>4, <2>1
<1>6. Total(both \cup {i}, Totals) <= c
  <2>1. both \cup {i} \subseteq Committed
    BY <1>1, <1>2
  <2> HIDE DEF both
  <2> QED BY <1>3, <2>1, TotalSubset
<1>7. c <= Capital + operator_topups /\ free + o >= Capital + operator_topups
  BY DEF AuthorityInv, BooksInv
<1>8. free \in Int /\ operator_topups \in Nat /\ Capital \in Nat
  BY DEF TypeOK, ProviderRecord, ConstantsAssumption
<1> HIDE DEF o, c, free, both, total
<1>9. free - held >= total
  BY <1>3, <1>5, <1>6, <1>7, <1>8
<1> QED BY <1>9 DEF free, total

LEMMA ReconcilableByMoney ==
  ASSUME ConstantsAssumption, TypeOK, LedgerInv, AuthorityInv, BooksInv,
         ReservationsCovered
  PROVE  UncertainIsReconcilable
<1> SUFFICES ASSUME NEW i \in InState(Uncertain)
             PROVE  /\ AcceptsSettled(i)
                    /\ \/ AcceptsDeclined(i)
                       \/ provider_mode = "simulated" /\ i \in provider.charges
  BY DEF UncertainIsReconcilable
<1>1. i \in DOMAIN intents /\ intents[i].state \in Uncertain
  BY DEF InState
<1>2. provider_mode \in {"simulated", "manual_prepaid_card"}
  BY DEF TypeOK
<1>3. CASE provider_mode = "manual_prepaid_card"
  <2>1. InState(Reserving) \subseteq DOMAIN intents /\ i \in InState(Reserving)
    BY <1>1, MoneyStates, InDomain DEF InState
  <2>2. /\ Amounts(InState(Reserving), Totals) /\ reserved_amount \in Nat
        /\ Totals[i] = final_total(i) /\ final_total(i) \in Nat
    BY <2>1, PurchaseAmounts DEF reserved_amount
  <2>3. final_total(i) <= reserved_amount
    <3>1. Total({i}, Totals) = final_total(i)
      BY <2>2, TotalOne
    <3>2. Total({i}, Totals) <= Total(InState(Reserving), Totals)
      BY <2>1, <2>2, TotalSubset
    <3> QED BY <3>1, <3>2 DEF reserved_amount
  <2>4. manual_provider.amount \in Int
    BY DEF TypeOK, ManualProviderRecord
  <2>5. manual_provider.amount >= final_total(i)
    BY <1>3, <2>2, <2>3, <2>4 DEF ReservationsCovered
  <2> QED BY <1>1, <1>3, <2>5, ReconciliationPaths DEF AcceptsSettled, AcceptsDeclined
<1>4. CASE provider_mode = "simulated"
  <2>1. \/ i \in provider.holds \/ i \in provider.charges
        \/ provider.balance - held >= final_total(i)
    BY <1>4, UncertainIsCovered
  <2> QED BY <1>1, <1>4, <2>1, ReconciliationPaths DEF AcceptsSettled, AcceptsDeclined
<1> QED BY <1>2, <1>3, <1>4

(* What the promises about money need to be inductive together.             *)
MoneyInv == AuthorityInv /\ BooksInv /\ ReservationsCovered /\ ManualCardNeedsOwner

LEMMA MoneyInvInit == Init => MoneyInv
BY AuthorityInvInit, BooksInvInit
   DEF MoneyInv, Init, ReservationsCovered, ManualCardNeedsOwner

LEMMA MoneyInvStep ==
  ASSUME ConstantsAssumption, TypeOK, LedgerInv, MoneyInv, [Next]_vars
  PROVE  MoneyInv'
BY LedgerInvStep, AuthorityStep, BooksStep, CoveredStep, ManualCardStep DEF MoneyInv

(* Whatever became of an uncertain purchase, owner_reconcile accepts it:    *)
(* that it was paid always, since its money is still there whatever else    *)
(* was reserved, charged, refunded and deposited, and that it was not,      *)
(* unless the simulated provider knows of a charge.                         *)
THEOREM UncertainCanBeBooked == Spec => []UncertainIsReconcilable
<1>1. TypeOK /\ LedgerInv /\ [Next]_vars => LedgerInv'
  BY ConstantsAssumption, LedgerInvStep
<1>2. TypeOK /\ LedgerInv /\ MoneyInv /\ [Next]_vars => MoneyInv'
  BY ConstantsAssumption, MoneyInvStep
<1>3. TypeOK /\ LedgerInv /\ MoneyInv => UncertainIsReconcilable
  BY ConstantsAssumption, ReconcilableByMoney DEF MoneyInv
<1> QED
  BY <1>1, <1>2, <1>3, LedgerInvInit, MoneyInvInit, TypeCorrect, PTL DEF Spec
-----------------------------------------------------------------------------
(* Treasury implements Authority.                                           *)

Taken == Reserving \cup {"settled"}

StatusOf(s) ==
  IF s = "refunded" THEN "refunded"
  ELSE IF s = "settled" THEN "spent"
  ELSE IF s = "declined" THEN "released"
  ELSE IF s \in Reserving THEN "held"
  ELSE "none"

LEMMA OutcomeIs == \A s : Outcome(EventsOf(s)) = StatusOf(s)
<1>1. {"refunded", "settled", "declined"} \cap Reserving = {}
  BY MoneyStates
<1> QED BY <1>1 DEF Outcome, EventsOf, StatusOf

LEMMA FundsAre ==
  ASSUME LedgerInv, NEW i \in Intents
  PROVE  FundsOf(i) =
           IF i \in DOMAIN intents /\ StatusOf(intents[i].state) # "none"
           THEN [ status |-> StatusOf(intents[i].state), amount |-> final_total(i) ]
           ELSE [ status |-> "none", amount |-> 0 ]
<1>1. StatusOf("draft") = "none"
  BY DEF StatusOf, Reserving
<1>2. CASE i \in DOMAIN intents
  BY <1>2, OutcomeIs DEF LedgerInv, Told, FundsOf
<1>3. CASE i \notin DOMAIN intents
  BY <1>1, <1>3, OutcomeIs DEF LedgerInv, FundsOf
<1> QED BY <1>2, <1>3

(* What a step does to what became of the money.                            *)
LEMMA FundsStep ==
  ASSUME TypeOK, LedgerInv
  PROVE  /\ Quiet \/ Deposited \/ Configured =>
              [ j \in Intents |-> FundsOf(j) ]' = [ j \in Intents |-> FundsOf(j) ]
         /\ \A i \in Intents : \A from, s :
              Moved(i, from, s) /\ StatusOf(s) # "none" =>
                [ j \in Intents |-> FundsOf(j) ]'
                  = [ [ j \in Intents |-> FundsOf(j) ] EXCEPT
                        ![i] = [ status |-> StatusOf(s), amount |-> final_total(i) ] ]
<1>1. ASSUME Quiet, NEW j \in Intents
      PROVE  FundsOf(j)' = FundsOf(j)
  <2>1. ledger'[j] = ledger[j]
    BY <1>1 DEF Quiet
  <2>2. CASE j \in DOMAIN intents
    <3>1. final_total(j)' = final_total(j)
      BY <1>1, <2>2 DEF Quiet, SamePurchase, final_total
    <3> QED BY <2>1, <3>1 DEF FundsOf
  <2>3. CASE j \notin DOMAIN intents
    <3>1. Outcome(ledger[j]) = "none"
      BY <2>3, OutcomeIs DEF LedgerInv, StatusOf, Reserving
    <3> QED BY <2>1, <3>1 DEF FundsOf
  <2> QED BY <2>2, <2>3
<1>2. ASSUME Deposited \/ Configured, NEW j \in Intents
      PROVE  FundsOf(j)' = FundsOf(j)
  BY <1>2 DEF Deposited, Configured, FundsOf, final_total
<1>3. ASSUME NEW i \in Intents, NEW from, NEW s, Moved(i, from, s), StatusOf(s) # "none",
             NEW j \in Intents
      PROVE  FundsOf(j)' = IF j = i THEN [ status |-> StatusOf(s), amount |-> final_total(i) ]
                           ELSE FundsOf(j)
  <2>1. ledger' = [ledger EXCEPT ![i] = EventsOf(s)] /\ DOMAIN ledger = Intents
    BY <1>3 DEF Moved, TypeOK
  <2>2. CASE j = i
    <3>1. ledger'[j] = EventsOf(s) /\ final_total(j)' = final_total(i)
      BY <1>3, <2>1, <2>2 DEF Moved, SamePurchase, final_total
    <3> QED BY <1>3, <2>2, <3>1, OutcomeIs DEF FundsOf
  <2>3. CASE j # i /\ j \in DOMAIN intents
    <3>1. ledger'[j] = ledger[j] /\ final_total(j)' = final_total(j)
      BY <1>3, <2>1, <2>3 DEF Moved, final_total
    <3> QED BY <2>3, <3>1 DEF FundsOf
  <2>4. CASE j # i /\ j \notin DOMAIN intents
    <3>1. ledger'[j] = ledger[j]
      BY <2>1, <2>4
    <3>2. Outcome(ledger[j]) = "none"
      BY <2>4, OutcomeIs DEF LedgerInv, StatusOf, Reserving
    <3> QED BY <2>4, <3>1, <3>2 DEF FundsOf
  <2> QED BY <2>2, <2>3, <2>4
<1>4. ASSUME Quiet \/ Deposited \/ Configured
      PROVE  [ j \in Intents |-> FundsOf(j) ]' = [ j \in Intents |-> FundsOf(j) ]
  BY <1>1, <1>2, <1>4
<1>5. ASSUME NEW i \in Intents, NEW from, NEW s, Moved(i, from, s), StatusOf(s) # "none"
      PROVE  [ j \in Intents |-> FundsOf(j) ]'
               = [ [ j \in Intents |-> FundsOf(j) ] EXCEPT
                     ![i] = [ status |-> StatusOf(s), amount |-> final_total(i) ] ]
  BY <1>3, <1>5
<1> QED BY <1>4, <1>5

(* What a step does to the authority that is left.                          *)
LEMMA AvailableStep ==
  ASSUME ConstantsAssumption, TypeOK, TypeOK', LedgerInv, LedgerInv', Sorted
  PROVE  /\ available_authority \in Int
         /\ Quiet \/ Configured => available_authority' = available_authority
         /\ Deposited =>
              available_authority' = available_authority + (operator_topups' - operator_topups)
         /\ \A i, from, s : Moved(i, from, s) =>
              /\ final_total(i) \in Nat \ {0}
              /\ (s \in Taken <=> intents[i].state \in Taken)
                   => available_authority' = available_authority
              /\ s \in Taken /\ intents[i].state \notin Taken
                   => available_authority' = available_authority - final_total(i)
              /\ s \notin Taken /\ intents[i].state \in Taken
                   => available_authority' = available_authority + final_total(i)
<1> DEFINE c == SumIn(Taken)
<1>1. Taken \cap Untouched = {}
  BY MoneyStates DEF Taken
<1>2. Total(Committed, Totals) = c /\ Total(Committed, Totals)' = c'
  BY DEF Committed, SumIn, Taken
<1>3. /\ available_authority = Capital + operator_topups - c
      /\ available_authority' = Capital + operator_topups' - c'
  BY <1>2, AuthorityIs, NextAuthorityIs DEF AuthorityAdds
<1>4. /\ c \in Nat /\ Capital \in Nat /\ operator_topups \in Nat /\ operator_topups' \in Nat
  BY <1>1, SumStep DEF ConstantsAssumption, TypeOK
<1>5. Quiet \/ Deposited \/ Configured => c' = c
  BY <1>1, SumStep
<1>6. Quiet \/ Configured => operator_topups' = operator_topups
  BY DEF Quiet, Configured
<1>7. ASSUME NEW i, NEW from, NEW s, Moved(i, from, s)
      PROVE  /\ final_total(i) \in Nat \ {0}
             /\ (s \in Taken <=> intents[i].state \in Taken)
                  => available_authority' = available_authority
             /\ s \in Taken /\ intents[i].state \notin Taken
                  => available_authority' = available_authority - final_total(i)
             /\ s \notin Taken /\ intents[i].state \in Taken
                  => available_authority' = available_authority + final_total(i)
  <2>1. operator_topups' = operator_topups
    BY <1>7 DEF Moved
  <2>2. /\ final_total(i) \in Nat \ {0}
        /\ (s \in Taken <=> intents[i].state \in Taken) => c' = c
        /\ s \in Taken /\ intents[i].state \notin Taken => c' = c + final_total(i)
        /\ s \notin Taken /\ intents[i].state \in Taken => c' = c - final_total(i)
    BY <1>1, <1>7, SumStep
  <2> HIDE DEF c
  <2> QED BY <1>3, <1>4, <2>1, <2>2
<1> HIDE DEF c
<1>8. /\ Quiet \/ Configured => available_authority' = available_authority
      /\ Deposited =>
           available_authority' = available_authority + (operator_topups' - operator_topups)
      /\ available_authority \in Int
  BY <1>3, <1>4, <1>5, <1>6
<1> QED BY <1>7, <1>8
(* A purchase whose money moves on is one Authority moves.                  *)
LEMMA MovedFunds ==
  ASSUME TypeOK, LedgerInv, NEW i \in Intents, NEW from, NEW s, Moved(i, from, s),
         StatusOf(s) # "none", StatusOf(intents[i].state) # "none"
  PROVE  /\ Promise!Moves(i, StatusOf(intents[i].state), StatusOf(s))
         /\ FundsOf(i).amount = final_total(i)
         /\ StatusOf(s) = StatusOf(intents[i].state) =>
              [ j \in Intents |-> FundsOf(j) ]' = [ j \in Intents |-> FundsOf(j) ]
<1> DEFINE funds == [ j \in Intents |-> FundsOf(j) ]
           old == StatusOf(intents[i].state)
           new == StatusOf(s)
<1>1. funds[i] = [ status |-> old, amount |-> final_total(i) ]
  BY FundsAre DEF Moved
<1>2. funds' = [funds EXCEPT ![i] = [ status |-> new, amount |-> final_total(i) ]]
  BY FundsStep
<1>3. UNCHANGED << Capital + operator_topups, emergency_stop >>
  BY DEF Moved
<1>4. FundsOf(i) = funds[i]
  OBVIOUS
<1>5. /\ funds[i].status = old /\ funds[i].amount = final_total(i)
      /\ funds' = [funds EXCEPT ![i].status = new]
      /\ new = old => funds' = funds
  <2> HIDE DEF old, new
  <2>1. [funds[i] EXCEPT !.status = new] = [ status |-> new, amount |-> final_total(i) ]
    BY <1>1
  <2>2. DOMAIN funds = Intents /\ funds = [ j \in Intents |-> funds[j] ]
    OBVIOUS
  <2> HIDE DEF funds
  <2>3. funds[i].status = old /\ funds[i].amount = final_total(i)
    BY <1>1
  <2>4. funds' = [funds EXCEPT ![i].status = new]
    BY <1>2, <2>1
  <2>5. new = old => funds' = funds
    BY <1>1, <1>2, <2>2
  <2> QED BY <2>3, <2>4, <2>5
<1>6. Promise!Moves(i, old, new)
  BY <1>3, <1>5 DEF Promise!Moves
<1> QED BY <1>4, <1>5, <1>6

LEMMA ReservedPromise ==
  ASSUME ConstantsAssumption, TypeOK, TypeOK', LedgerInv, LedgerInv', Sorted,
         NEW i \in Intents, Reserved(i)
  PROVE  Promise!Reserve(i)
<1> DEFINE funds == [ j \in Intents |-> FundsOf(j) ]
           total == final_total(i)
<1>1. /\ Moved(i, Executable, "executing") /\ decide(intents[i].agent, intents[i].request) # "denied"
      /\ i \in DOMAIN intents /\ intents[i].state \in Executable
  BY DEF Reserved, Moved
<1>2. /\ intents[i].state \notin Taken /\ "executing" \in Taken
      /\ StatusOf(intents[i].state) = "none" /\ StatusOf("executing") = "held"
  BY <1>1, MoneyStates DEF Taken, Reserving, StatusOf, Executable
<1>3. ~emergency_stop
  <2> SUFFICES ASSUME emergency_stop PROVE FALSE
    OBVIOUS
  <2>1. evaluate(intents[i].agent, intents[i].request) = "denied"
    BY DEF evaluate
  <2> QED BY <1>1, <2>1 DEF decide, enforce_authority
<1>4. /\ total \in Nat \ {0} /\ available_authority \in Int
      /\ available_authority' = available_authority - total
  BY <1>1, <1>2, AvailableStep
<1>5. ~(available_authority < total)
  BY ReservedIsCovered
<1>6. funds[i] = Promise!NoFunds
  BY <1>2, FundsAre DEF Promise!NoFunds
<1>7. funds' = [funds EXCEPT ![i] = [ status |-> "held", amount |-> total ]]
  BY <1>1, <1>2, FundsStep
<1>8. UNCHANGED << Capital + operator_topups, emergency_stop >>
  BY <1>1 DEF Moved
<1>9. /\ available_authority - available_authority' = total
      /\ total > 0 /\ available_authority' >= 0
  <2> HIDE DEF total
  <2> QED BY <1>4, <1>5
<1> HIDE DEF total
<1> QED BY <1>3, <1>6, <1>7, <1>8, <1>9 DEF Promise!Reserve

LEMMA PromiseStep ==
  ASSUME ConstantsAssumption, TypeOK, TypeOK', LedgerInv, LedgerInv', Sorted
  PROVE  [Promise!AuthorityNext]_(Promise!authorityVars)
<1> DEFINE funds == [ j \in Intents |-> FundsOf(j) ]
<1>1. ASSUME funds' = funds, available_authority' = available_authority,
             operator_topups' = operator_topups, emergency_stop' = emergency_stop
      PROVE  UNCHANGED Promise!authorityVars
  BY <1>1 DEF Promise!authorityVars
<1>2. CASE Quiet
  <2>1. /\ funds' = funds /\ available_authority' = available_authority
        /\ operator_topups' = operator_topups
    BY <1>2, FundsStep, AvailableStep DEF Quiet
  <2>2. CASE emergency_stop' = emergency_stop
    BY <1>1, <2>1, <2>2
  <2>3. CASE emergency_stop' = ~emergency_stop
    BY <2>1, <2>3 DEF Promise!Stop, Promise!AuthorityNext
  <2>4. emergency_stop \in BOOLEAN /\ emergency_stop' \in BOOLEAN
    BY DEF TypeOK
  <2> QED BY <2>2, <2>3, <2>4
<1>3. CASE Configured
  BY <1>1, <1>3, FundsStep, AvailableStep DEF Configured
<1>4. CASE Deposited
  <2>1. /\ funds' = funds /\ emergency_stop' = emergency_stop
        /\ available_authority' = available_authority + (operator_topups' - operator_topups)
    BY <1>4, FundsStep, AvailableStep DEF Deposited
  <2>2. PICK reinvested \in Nat : operator_topups' = operator_topups + reinvested
    BY <1>4 DEF Deposited
  <2>3. operator_topups \in Nat /\ Capital \in Nat /\ available_authority \in Int
    BY AvailableStep DEF TypeOK, ConstantsAssumption
  <2>4. CASE reinvested = 0
    BY <1>1, <2>1, <2>2, <2>3, <2>4
  <2>5. CASE reinvested > 0
    <3>1. /\ (Capital + operator_topups)' > Capital + operator_topups
          /\ available_authority' =
               available_authority + ((Capital + operator_topups)' - (Capital + operator_topups))
      BY <2>1, <2>2, <2>3, <2>5
    <3> QED BY <2>1, <3>1 DEF Promise!TopUp, Promise!AuthorityNext
  <2> QED BY <2>2, <2>4, <2>5
<1>5. ASSUME NEW i \in Intents, Moves(i)
      PROVE  [Promise!AuthorityNext]_(Promise!authorityVars)
  <2> DEFINE old == intents[i].state
  <2>1. /\ old \in {"executing"} \cup Uncertain => old \in Taken /\ StatusOf(old) = "held"
        /\ old = "settled" => old \in Taken /\ StatusOf(old) = "spent"
    BY MoneyStates DEF Taken, StatusOf
  <2>2. /\ "unknown" \in Taken /\ StatusOf("unknown") = "held"
        /\ "provider_pending" \in Taken /\ StatusOf("provider_pending") = "held"
        /\ "settled" \in Taken /\ StatusOf("settled") = "spent"
        /\ "declined" \notin Taken /\ StatusOf("declined") = "released"
        /\ "refunded" \notin Taken /\ StatusOf("refunded") = "refunded"
    BY DEF Taken, Reserving, StatusOf
  <2>3. ASSUME Moved(i, {"executing"}, "unknown") \/ Moved(i, {"executing"}, "provider_pending")
        PROVE  UNCHANGED Promise!authorityVars
    <3>1. old \in Taken /\ StatusOf(old) = "held"
      BY <2>1, <2>3 DEF Moved
    <3>2. UNCHANGED << operator_topups, emergency_stop >>
      BY <2>3 DEF Moved
    <3>3. available_authority' = available_authority
      BY <2>2, <2>3, <3>1, AvailableStep
    <3>4. funds' = funds
      BY <2>2, <2>3, <3>1, MovedFunds
    <3> QED BY <1>1, <3>2, <3>3, <3>4
  <2>4. ASSUME Moved(i, {"executing"} \cup Uncertain, "settled")
        PROVE  Promise!Spend(i)
    <3>1. old \in Taken /\ StatusOf(old) = "held"
      BY <2>1, <2>4 DEF Moved
    <3>2. available_authority' = available_authority
      BY <2>2, <2>4, <3>1, AvailableStep
    <3>3. Promise!Moves(i, "held", "spent")
      BY <2>2, <2>4, <3>1, MovedFunds
    <3> QED BY <3>2, <3>3 DEF Promise!Spend
  <2>5. ASSUME Moved(i, {"executing"} \cup Uncertain, "declined")
        PROVE  Promise!Release(i)
    <3>1. old \in Taken /\ StatusOf(old) = "held"
      BY <2>1, <2>5 DEF Moved
    <3>2. available_authority' = available_authority + final_total(i)
      BY <2>2, <2>5, <3>1, AvailableStep
    <3>3. Promise!Moves(i, "held", "released") /\ funds[i].amount = final_total(i)
      BY <2>2, <2>5, <3>1, MovedFunds
    <3> QED BY <3>2, <3>3 DEF Promise!Release
  <2>6. ASSUME Moved(i, {"settled"} \cup Uncertain, "refunded")
        PROVE  Promise!Refund(i) \/ Promise!SpendAndRefund(i)
    <3>1. old \in Taken /\ (StatusOf(old) = "spent" \/ StatusOf(old) = "held")
      BY <2>1, <2>6 DEF Moved
    <3>2. available_authority' = available_authority + final_total(i)
      BY <2>2, <2>6, <3>1, AvailableStep
    <3>3. /\ Promise!Moves(i, "spent", "refunded") \/ Promise!Moves(i, "held", "refunded")
          /\ funds[i].amount = final_total(i)
      BY <2>2, <2>6, <3>1, MovedFunds
    <3> QED BY <3>2, <3>3 DEF Promise!Refund, Promise!SpendAndRefund
  <2> QED BY <1>5, <2>3, <2>4, <2>5, <2>6, ReservedPromise
          DEF Moves, Settled, Declined, Pending, Unknown, Refunded, Promise!AuthorityNext
<1> QED BY <1>2, <1>3, <1>4, <1>5 DEF Sorted

LEMMA PromiseInit == Init => Promise!AuthorityInit
<1> SUFFICES ASSUME Init PROVE Promise!AuthorityInit
  OBVIOUS
<1> USE ConstantsAssumption
<1>1. DOMAIN intents = {} /\ operator_topups = 0 /\ emergency_stop = FALSE
  BY DEF Init
<1>2. \A i \in Intents : FundsOf(i) = Promise!NoFunds
  BY <1>1 DEF Init, FundsOf, Outcome, Promise!NoFunds
<1>3. settled_spending = 0 /\ refunds = 0 /\ reserved_amount = 0
  BY <1>1, TotalEmpty DEF settled_spending, refunds, reserved_amount, InState
<1>4. Capital \in Nat \ {0}
  BY DEF ConstantsAssumption
<1>5. Capital + operator_topups > 0 /\ available_authority = Capital + operator_topups
  BY <1>1, <1>3, <1>4 DEF available_authority
<1> QED BY <1>1, <1>2, <1>5 DEF Promise!AuthorityInit

(* Treasury implements Authority: whatever agents, provider and owner do,   *)
(* in whatever order, every handler moves the money of one purchase the way *)
(* Authority says, or gives more authority, or turns the stop, or is a      *)
(* stutter.                                                                 *)
THEOREM TreasuryImplements == Spec => ImplementsAuthority
<1>1. TypeOK /\ LedgerInv /\ [Next]_vars => LedgerInv'
  BY ConstantsAssumption, LedgerInvStep
<1>2. TypeOK /\ LedgerInv /\ [Next]_vars =>
        [Promise!AuthorityNext]_(Promise!authorityVars)
  BY ConstantsAssumption, LedgerInvStep, NextType, PromiseStep
<1> QED BY <1>1, <1>2, LedgerInvInit, PromiseInit, TypeCorrect, PTL
        DEF Spec, ImplementsAuthority, Promise!AuthoritySpec
-----------------------------------------------------------------------------
(* The budgets of the agents.                                               *)

Spent == {"settled", "refunded"}

(* The purchases an agent's three budgets count.                            *)
LifetimeOf(a) == OfAgent(a) \cap InState(Reserving \cup Spent)
RollingOf(a) ==
  (OfAgent(a) \cap settled_24h \cap InState(Spent)) \cup (OfAgent(a) \cap InState(Reserving))
SessionOf(a) == { i \in LifetimeOf(a) : intents[i].bound }

UsageAdds ==
  \A a : /\ lifetime_amount(a) = Total(LifetimeOf(a), Totals)
         /\ rolling_24h_amount(a) = Total(RollingOf(a), Totals)
         /\ session_amount(a) = Total(SessionOf(a), Totals)

(* Settlements of one set and reservations of another, as one sum.          *)
LEMMA UsedIs ==
  ASSUME ConstantsAssumption, TypeOK, LedgerInv, NEW A, A \subseteq DOMAIN intents,
         NEW B, B \subseteq DOMAIN intents
  PROVE  Total(A, SettledAmounts) + Total(B \cap InState(Reserving), Totals)
           = Total((A \cap InState(Spent)) \cup (B \cap InState(Reserving)), Totals)
<1> DEFINE S == A \cap InState(Spent)
           H == B \cap InState(Reserving)
<1>1. S \subseteq A /\ S \subseteq DOMAIN intents /\ H \subseteq DOMAIN intents
  BY InDomain
<1>2. S \cap H = {}
  BY MoneyStates DEF InState, Spent
<1>3. ASSUME NEW i \in A
      PROVE  /\ i \in S => SettledAmounts[i] = Totals[i]
             /\ i \notin S => SettledAmounts[i] = 0
  <2>1. ledger[i] = EventsOf(intents[i].state) /\ i \in DOMAIN intents
    BY <1>3 DEF LedgerInv, Told
  <2>2. ledger[i].spending_settled = IF i \in S THEN 1 ELSE 0
    BY <1>3, <2>1 DEF EventsOf, InState, Spent
  <2>3. Totals[i] = final_total(i) /\ final_total(i) \in Nat
    BY <2>1, PurchaseAmounts
  <2>4. SettledAmounts[i] = ledger[i].spending_settled * final_total(i)
    BY <2>1 DEF SettledAmounts
  <2>5. 1 * final_total(i) = final_total(i) /\ 0 * final_total(i) = 0
    BY <2>3
  <2> HIDE DEF S
  <2> QED BY <2>2, <2>3, <2>4, <2>5
<1> HIDE DEF S, H
<1>4. Total(A, SettledAmounts) = Total(S, Totals)
  BY <1>1, <1>3, TotalSupport
<1>5. Amounts(S, Totals) /\ Amounts(H, Totals)
  BY <1>1, PurchaseAmounts
<1> QED BY <1>2, <1>4, <1>5, TotalUnion DEF S, H

LEMMA UsageIs == TypeOK /\ LedgerInv => UsageAdds
<1> SUFFICES ASSUME TypeOK, LedgerInv, NEW a
             PROVE  /\ lifetime_amount(a) = Total(LifetimeOf(a), Totals)
                    /\ rolling_24h_amount(a) = Total(RollingOf(a), Totals)
                    /\ session_amount(a) = Total(SessionOf(a), Totals)
  BY DEF UsageAdds
<1> USE ConstantsAssumption
<1> DEFINE A == OfAgent(a)
           D == OfAgent(a) \cap settled_24h
           B == { i \in OfAgent(a) : intents[i].bound }
<1>1. A \subseteq DOMAIN intents /\ D \subseteq DOMAIN intents /\ B \subseteq DOMAIN intents
  BY DEF OfAgent
<1>2. /\ (A \cap InState(Spent)) \cup (A \cap InState(Reserving)) = LifetimeOf(a)
      /\ (D \cap InState(Spent)) \cup (A \cap InState(Reserving)) = RollingOf(a)
      /\ (B \cap InState(Spent)) \cup (B \cap InState(Reserving)) = SessionOf(a)
  BY DEF LifetimeOf, RollingOf, SessionOf, InState
<1>3. lifetime_amount(a) = Total(LifetimeOf(a), Totals)
  BY <1>1, <1>2, UsedIs DEF lifetime_amount
<1>4. rolling_24h_amount(a) = Total(RollingOf(a), Totals)
  BY <1>1, <1>2, UsedIs DEF rolling_24h_amount
<1>5. session_amount(a) = Total(SessionOf(a), Totals)
  BY <1>1, <1>2, UsedIs DEF session_amount
<1> QED BY <1>3, <1>4, <1>5

(* The same of the next state.                                              *)
LEMMA NextUsageIs == TypeOK' /\ LedgerInv' => UsageAdds'
BY UsageIs, PTL

(* Only a reservation brings a purchase into a budget, and only into those  *)
(* of its own agent.                                                        *)
CountsNoMore(a) ==
  /\ LifetimeOf(a)' \subseteq LifetimeOf(a)
  /\ RollingOf(a)' \subseteq RollingOf(a)
  /\ SessionOf(a)' \subseteq SessionOf(a)

LEMMA BudgetClasses ==
  /\ Untouched \cap (Reserving \cup Spent) = {} /\ Spent \cap Reserving = {}
  /\ {"executing"} \cup Uncertain \subseteq Reserving /\ "declined" \notin Reserving \cup Spent
BY MoneyStates DEF Spent

LEMMA BudgetsStep ==
  ASSUME TypeOK, Sorted, \A j \in DOMAIN intents : Kept(j), NEW a
  PROVE  CountsNoMore(a) \/ \E i \in OfAgent(a) : Reserved(i)
<1>1. CASE Quiet
  <2>1. \A j \in DOMAIN intents' : intents'[j].state \in Reserving \cup Spent =>
          /\ j \in DOMAIN intents /\ intents'[j].state = intents[j].state
          /\ intents'[j].agent = intents[j].agent
          /\ intents'[j].bound => intents[j].bound
    BY <1>1, BudgetClasses DEF Quiet, SamePurchase, Kept
  <2>2. settled_24h' \subseteq settled_24h
    BY <1>1 DEF Quiet
  <2> QED BY <2>1, <2>2 DEF CountsNoMore, LifetimeOf, RollingOf, SessionOf, OfAgent, InState
<1>2. CASE Deposited \/ Configured
  <2>1. UNCHANGED << intents, settled_24h >>
    BY <1>2 DEF Deposited, Configured
  <2> QED BY <2>1 DEF CountsNoMore, LifetimeOf, RollingOf, SessionOf, OfAgent, InState
<1>3. ASSUME NEW i, NEW from, NEW s, Moved(i, from, s),
             \/ intents[i].agent # a
             \/ /\ intents[i].state \in Reserving \cup Spent
                /\ intents[i].state \in Spent => s \in Spent,
             \/ settled_24h' = settled_24h
             \/ intents[i].state \notin Spent /\ settled_24h' = settled_24h \cup {i}
      PROVE  CountsNoMore(a)
  <2>1. /\ DOMAIN intents' = DOMAIN intents /\ i \in DOMAIN intents
        /\ \A j \in DOMAIN intents \ {i} : intents'[j] = intents[j]
        /\ intents'[i].agent = intents[i].agent /\ intents'[i].bound = intents[i].bound
        /\ intents'[i].state = s
    BY <1>3 DEF Moved, SamePurchase
  <2>2. LifetimeOf(a)' \subseteq LifetimeOf(a) /\ SessionOf(a)' \subseteq SessionOf(a)
    BY <1>3, <2>1 DEF LifetimeOf, SessionOf, OfAgent, InState
  <2>3. \A j \in DOMAIN intents \ {i} : j \in RollingOf(a)' => j \in RollingOf(a)
    BY <1>3, <2>1 DEF RollingOf, OfAgent, InState
  <2>4. i \in RollingOf(a)' => i \in RollingOf(a)
    <3> SUFFICES ASSUME i \in RollingOf(a)' PROVE i \in RollingOf(a)
      OBVIOUS
    <3>1. i \in OfAgent(a) /\ intents[i].agent = a
      BY <2>1 DEF RollingOf, OfAgent
    <3>2. CASE intents[i].state \in Reserving
      BY <2>1, <3>1, <3>2 DEF RollingOf, InState
    <3>3. CASE intents[i].state \in Spent
      <4>1. s \in Spent /\ settled_24h' = settled_24h
        BY <1>3, <3>1, <3>3
      <4>2. i \in settled_24h
        BY <2>1, <4>1, BudgetClasses DEF RollingOf, InState
      <4> QED BY <2>1, <3>1, <3>3, <4>2 DEF RollingOf, InState
    <3> QED BY <1>3, <3>1, <3>2, <3>3
  <2>5. RollingOf(a)' \subseteq DOMAIN intents
    BY <2>1 DEF RollingOf, OfAgent
  <2> QED BY <2>2, <2>3, <2>4, <2>5 DEF CountsNoMore
<1>4. ASSUME NEW i \in Intents, Moves(i), ~Reserved(i)
      PROVE  CountsNoMore(a)
  <2>1. CASE Settled(i)
    <3>1. /\ Moved(i, {"executing"} \cup Uncertain, "settled")
          /\ settled_24h' = settled_24h \cup {i}
      BY <2>1 DEF Settled
    <3>2. intents[i].state \in Reserving /\ intents[i].state \notin Spent
      BY <3>1, BudgetClasses DEF Moved
    <3> QED BY <1>3, <3>1, <3>2
  <2>2. CASE Declined(i) \/ Pending(i) \/ Unknown(i)
    <3>1. /\ settled_24h' = settled_24h
          /\ \E s : \/ Moved(i, {"executing"} \cup Uncertain, s)
                    \/ Moved(i, {"executing"}, s)
      BY <2>2 DEF Declined, Pending, Unknown
    <3>2. intents[i].state \in Reserving /\ intents[i].state \notin Spent
      BY <3>1, BudgetClasses DEF Moved
    <3> QED BY <1>3, <3>1, <3>2
  <2>3. CASE Refunded(i)
    <3>1. /\ Moved(i, {"settled"} \cup Uncertain, "refunded") /\ "refunded" \in Spent
          /\ \/ settled_24h' = settled_24h
             \/ intents[i].state # "settled" /\ settled_24h' = settled_24h \cup {i}
      BY <2>3 DEF Refunded, Spent
    <3>2. /\ intents[i].state \in Reserving \cup Spent
          /\ intents[i].state # "settled" => intents[i].state \notin Spent
      BY <3>1, BudgetClasses DEF Moved, Spent
    <3> QED BY <1>3, <3>1, <3>2
  <2> QED BY <1>4, <2>1, <2>2, <2>3 DEF Moves
<1>5. ASSUME NEW i \in Intents, Reserved(i), i \notin OfAgent(a)
      PROVE  CountsNoMore(a)
  <2>1. Moved(i, Executable, "executing") /\ settled_24h' = settled_24h /\ intents[i].agent # a
    BY <1>5 DEF Reserved, Moved, OfAgent
  <2> QED BY <1>3, <2>1
<1> QED BY <1>1, <1>2, <1>4, <1>5 DEF Sorted
(* A reserved purchase comes into its agent's budgets with its amount.      *)
LEMMA ReservedCounts ==
  ASSUME TypeOK, NEW a, NEW i \in OfAgent(a), Reserved(i)
  PROVE  /\ i \in DOMAIN intents
         /\ LifetimeOf(a)' \subseteq LifetimeOf(a) \cup {i} /\ i \notin LifetimeOf(a)
         /\ RollingOf(a)' \subseteq RollingOf(a) \cup {i} /\ i \notin RollingOf(a)
         /\ SessionOf(a)' \subseteq SessionOf(a) \cup {i} /\ i \notin SessionOf(a)
<1>1. /\ DOMAIN intents' = DOMAIN intents /\ i \in DOMAIN intents
      /\ \A j \in DOMAIN intents \ {i} : intents'[j] = intents[j]
      /\ settled_24h' = settled_24h /\ intents[i].state \in Executable
  BY DEF Reserved, Moved
<1>2. intents[i].state \notin Reserving \cup Spent
  BY <1>1, MoneyStates, BudgetClasses
<1> QED BY <1>1, <1>2 DEF LifetimeOf, RollingOf, SessionOf, OfAgent, InState

(* The decision that lets a purchase be reserved keeps every limit.         *)
LEMMA ReservedWithinLimits ==
  ASSUME ConstantsAssumption, TypeOK, NEW a, NEW i \in OfAgent(a), Reserved(i)
  PROVE  LET p == agents[a].policy
         IN /\ ~(session_amount(a) + final_total(i) > p.max_per_session)
            /\ ~(rolling_24h_amount(a) + final_total(i) > p.max_rolling_24h)
            /\ ~(lifetime_amount(a) + final_total(i) > p.max_lifetime)
            /\ p.max_per_session \in Nat /\ p.max_rolling_24h \in Nat /\ p.max_lifetime \in Nat
            /\ agents'[a].policy = p
<1> DEFINE r == intents[i].request
<1>1. /\ i \in DOMAIN intents /\ intents[i].agent = a /\ agents' = agents
      /\ decide(a, r) # "denied"
  BY DEF Reserved, Moved, OfAgent
<1>2. evaluate(a, r) # "denied"
  BY <1>1 DEF decide, enforce_authority
<1>3. agents[a].policy \in PolicyRecord
  <2>1. agents[a].policy \in Policies
    BY <1>1 DEF TypeOK, AgentRecord
  <2> QED BY <2>1 DEF ConstantsAssumption
<1>4. LET p == agents[a].policy
      IN /\ ~(session_amount(a) + final_total(i) > p.max_per_session)
         /\ ~(rolling_24h_amount(a) + final_total(i) > p.max_rolling_24h)
         /\ ~(lifetime_amount(a) + final_total(i) > p.max_lifetime)
  BY <1>2 DEF evaluate, final_total
<1>5. LET p == agents[a].policy
      IN p.max_per_session \in Nat /\ p.max_rolling_24h \in Nat /\ p.max_lifetime \in Nat
  BY <1>3 DEF PolicyRecord
<1> QED BY <1>1, <1>4, <1>5

(* A sum after a step, over no more purchases or over one more.             *)
LEMMA SumGrowth ==
  ASSUME ConstantsAssumption, TypeOK, Sorted, NEW S, S \subseteq DOMAIN intents, NEW T
  PROVE  /\ Total(S, Totals) \in Nat
         /\ T \subseteq S => Total(T, Totals') \in Nat /\ Total(T, Totals') <= Total(S, Totals)
         /\ \A i \in DOMAIN intents \ S : T \subseteq S \cup {i} =>
              /\ Total(T, Totals') \in Nat /\ final_total(i) \in Nat
              /\ Total(T, Totals') <= Total(S, Totals) + final_total(i)
<1>1. Amounts(S, Totals) /\ Total(S, Totals) \in Nat
  BY PurchaseAmounts
<1>2. ASSUME T \subseteq S
      PROVE  Total(T, Totals') \in Nat /\ Total(T, Totals') <= Total(S, Totals)
  <2>1. Total(T, Totals') = Total(T, Totals) /\ Total(T, Totals) \in Nat
    BY <1>2, TotalsStep, PurchaseAmounts
  <2> QED BY <1>1, <1>2, <2>1, TotalSubset
<1>3. ASSUME NEW i \in DOMAIN intents \ S, T \subseteq S \cup {i}
      PROVE  /\ Total(T, Totals') \in Nat /\ final_total(i) \in Nat
             /\ Total(T, Totals') <= Total(S, Totals) + final_total(i)
  <2> DEFINE more == S \cup {i}
  <2>1. more \subseteq DOMAIN intents /\ T \subseteq DOMAIN intents /\ T \subseteq more
    BY <1>3
  <2>2. Amounts(more, Totals) /\ final_total(i) \in Nat /\ Totals[i] = final_total(i)
    BY <2>1, PurchaseAmounts
  <2>3. Total(more, Totals) = Total(S, Totals) + final_total(i)
    BY <1>1, <2>2, TotalAdd
  <2> HIDE DEF more
  <2>4. Total(T, Totals') = Total(T, Totals) /\ Total(T, Totals) \in Nat
    BY <2>1, TotalsStep, PurchaseAmounts
  <2>5. Total(T, Totals) <= Total(more, Totals)
    BY <2>1, <2>2, TotalSubset
  <2> QED BY <2>2, <2>3, <2>4, <2>5
<1> QED BY <1>1, <1>2, <1>3

UsageStep ==
  \A a \in DOMAIN agents :
    LET p == agents'[a].policy
    IN /\ GrowsWithin(session_amount(a), session_amount(a)', p.max_per_session)
       /\ GrowsWithin(rolling_24h_amount(a), rolling_24h_amount(a)', p.max_rolling_24h)
       /\ GrowsWithin(lifetime_amount(a), lifetime_amount(a)', p.max_lifetime)

LEMMA UsageStepHolds ==
  ASSUME ConstantsAssumption, TypeOK, TypeOK', LedgerInv, LedgerInv', Sorted,
         \A j \in DOMAIN intents : Kept(j)
  PROVE  UsageStep
<1> SUFFICES ASSUME NEW a \in DOMAIN agents
             PROVE  LET p == agents'[a].policy
                    IN /\ GrowsWithin(session_amount(a), session_amount(a)',
                                      p.max_per_session)
                       /\ GrowsWithin(rolling_24h_amount(a), rolling_24h_amount(a)',
                                      p.max_rolling_24h)
                       /\ GrowsWithin(lifetime_amount(a), lifetime_amount(a)',
                                      p.max_lifetime)
  BY DEF UsageStep
<1>1. /\ lifetime_amount(a) = Total(LifetimeOf(a), Totals)
      /\ rolling_24h_amount(a) = Total(RollingOf(a), Totals)
      /\ session_amount(a) = Total(SessionOf(a), Totals)
      /\ lifetime_amount(a)' = Total(LifetimeOf(a)', Totals')
      /\ rolling_24h_amount(a)' = Total(RollingOf(a)', Totals')
      /\ session_amount(a)' = Total(SessionOf(a)', Totals')
  BY UsageIs, NextUsageIs DEF UsageAdds
<1>2. /\ LifetimeOf(a) \subseteq DOMAIN intents /\ RollingOf(a) \subseteq DOMAIN intents
      /\ SessionOf(a) \subseteq DOMAIN intents
  BY DEF LifetimeOf, RollingOf, SessionOf, OfAgent
<1>3. CASE CountsNoMore(a)
  <2>1. /\ lifetime_amount(a)' \in Nat /\ lifetime_amount(a) \in Nat
        /\ lifetime_amount(a)' <= lifetime_amount(a)
    BY <1>1, <1>2, <1>3, SumGrowth DEF CountsNoMore
  <2>2. /\ rolling_24h_amount(a)' \in Nat /\ rolling_24h_amount(a) \in Nat
        /\ rolling_24h_amount(a)' <= rolling_24h_amount(a)
    BY <1>1, <1>2, <1>3, SumGrowth DEF CountsNoMore
  <2>3. /\ session_amount(a)' \in Nat /\ session_amount(a) \in Nat
        /\ session_amount(a)' <= session_amount(a)
    BY <1>1, <1>2, <1>3, SumGrowth DEF CountsNoMore
  <2> QED BY <2>1, <2>2, <2>3 DEF GrowsWithin
<1>4. ASSUME NEW i \in OfAgent(a), Reserved(i)
      PROVE  LET p == agents'[a].policy
             IN /\ GrowsWithin(session_amount(a), session_amount(a)', p.max_per_session)
                /\ GrowsWithin(rolling_24h_amount(a), rolling_24h_amount(a)',
                               p.max_rolling_24h)
                /\ GrowsWithin(lifetime_amount(a), lifetime_amount(a)', p.max_lifetime)
  <2> DEFINE p == agents[a].policy
             t == final_total(i)
  <2>1. /\ ~(session_amount(a) + t > p.max_per_session) /\ p.max_per_session \in Nat
        /\ ~(rolling_24h_amount(a) + t > p.max_rolling_24h) /\ p.max_rolling_24h \in Nat
        /\ ~(lifetime_amount(a) + t > p.max_lifetime) /\ p.max_lifetime \in Nat
        /\ agents'[a].policy = p
    BY <1>4, ReservedWithinLimits
  <2>2. /\ lifetime_amount(a)' \in Nat /\ lifetime_amount(a) \in Nat /\ t \in Nat
        /\ lifetime_amount(a)' <= lifetime_amount(a) + t
    BY <1>1, <1>2, <1>4, ReservedCounts, SumGrowth
  <2>3. /\ rolling_24h_amount(a)' \in Nat /\ rolling_24h_amount(a) \in Nat
        /\ rolling_24h_amount(a)' <= rolling_24h_amount(a) + t
    BY <1>1, <1>2, <1>4, ReservedCounts, SumGrowth
  <2>4. /\ session_amount(a)' \in Nat /\ session_amount(a) \in Nat
        /\ session_amount(a)' <= session_amount(a) + t
    BY <1>1, <1>2, <1>4, ReservedCounts, SumGrowth
  <2> HIDE DEF p, t
  <2>5. GrowsWithin(lifetime_amount(a), lifetime_amount(a)', p.max_lifetime)
    BY <2>1, <2>2 DEF GrowsWithin
  <2>6. GrowsWithin(rolling_24h_amount(a), rolling_24h_amount(a)', p.max_rolling_24h)
    BY <2>1, <2>2, <2>3 DEF GrowsWithin
  <2>7. GrowsWithin(session_amount(a), session_amount(a)', p.max_per_session)
    BY <2>1, <2>2, <2>4 DEF GrowsWithin
  <2> QED BY <2>1, <2>5, <2>6, <2>7 DEF p
<1> QED BY <1>3, <1>4, BudgetsStep

(* An agent's use of each of its budgets grows only by a reservation its    *)
(* policy allows at that moment (evaluate in prepare_intent_execution);     *)
(* answers, reconciliations, refunds, new sessions, the clock and the       *)
(* owner's other calls never raise it, for any policies and amounts.        *)
THEOREM UsageWithinLimits == Spec => UsageGrowsWithinLimits
<1>1. TypeOK /\ LedgerInv /\ [Next]_vars => LedgerInv'
  BY ConstantsAssumption, LedgerInvStep
<1>2. TypeOK /\ LedgerInv /\ [Next]_vars => UsageStep
  BY ConstantsAssumption, LedgerInvStep, NextType, StepKeeps, UsageStepHolds
<1> QED BY <1>1, <1>2, LedgerInvInit, TypeCorrect, PTL
        DEF Spec, UsageGrowsWithinLimits, UsageStep

-----------------------------------------------------------------------------
(* What ledger_snapshot adds up from the events of the ledger (settlements, *)
(* refunds, reservations) is the plain sum over the purchases in the states *)
(* that hold or have spent money, and so is every budget usage adds up: no  *)
(* handler moves an event without the state it belongs to, and no money     *)
(* appears or vanishes between the two ways of counting it.                 *)
THEOREM LedgerAddsUp == Spec => [](AuthorityAdds /\ UsageAdds)
<1>1. TypeOK /\ LedgerInv /\ [Next]_vars => LedgerInv'
  BY ConstantsAssumption, LedgerInvStep
<1> QED BY <1>1, AuthorityIs, UsageIs, LedgerInvInit, TypeCorrect, PTL DEF Spec

-----------------------------------------------------------------------------
(* What has been recorded stays.                                            *)

(* No step forgets a purchase, exchanges its agent or its request, or takes *)
(* an event or a receipt back; started and ended purchases never wait       *)
(* again, an ended one only moves among the ends, and one whose hold was    *)
(* released never holds again.                                              *)
PastStays(j) ==
  /\ SamePurchase(j)
  /\ \A kind \in DOMAIN ledger[j] : ledger[j][kind] <= ledger'[j][kind]
  /\ intents[j].receipt => intents'[j].receipt
  /\ intents[j].state \in Terminal => intents'[j].state \in Terminal
  /\ intents[j].state \in Reserving =>
        intents'[j].state \in Reserving \cup {"settled", "declined", "refunded"}

(* The events of a later state include those of an earlier one.             *)
LEMMA EventsGrow ==
  ASSUME NEW s, NEW u,
         s \in Reserving => u \in Reserving \cup {"settled", "declined", "refunded"},
         s = "settled" => u \in {"settled", "refunded"},
         s \in {"declined", "refunded"} => u = s
  PROVE  \A kind \in DOMAIN EventsOf(s) : EventsOf(s)[kind] <= EventsOf(u)[kind]
<1>1. DOMAIN EventsOf(s)
        = {"hold_reserved", "hold_released", "spending_settled", "refund"}
  BY DEF EventsOf
<1>2. /\ EventsOf(s).hold_reserved <= EventsOf(u).hold_reserved
      /\ EventsOf(s).hold_released <= EventsOf(u).hold_released
  BY MoneyStates DEF EventsOf
<1>3. /\ EventsOf(s).spending_settled <= EventsOf(u).spending_settled
      /\ EventsOf(s).refund <= EventsOf(u).refund
  BY DEF EventsOf
<1> QED BY <1>1, <1>2, <1>3

LEMMA PastStaysStep ==
  ASSUME TypeOK, LedgerInv, LedgerInv', Sorted, \A j \in DOMAIN intents : Kept(j)
  PROVE  \A j \in DOMAIN intents : PastStays(j)
<1> SUFFICES ASSUME NEW j \in DOMAIN intents PROVE PastStays(j)
  OBVIOUS
<1> DEFINE s == intents[j].state
           u == intents'[j].state
<1>1. /\ ledger[j] = EventsOf(s) /\ (intents[j].receipt <=> s \in {"settled", "refunded"})
  BY DEF LedgerInv, Told
<1>2. /\ SamePurchase(j)
      /\ \/ u = s
         \/ {s, u} \subseteq Untouched
         \/ s \in Executable /\ u = "executing"
         \/ s \in Reserving /\ u \in Reserving \cup {"settled", "declined", "refunded"}
         \/ s = "settled" /\ u = "refunded"
  <2>1. CASE Quiet
    BY <2>1 DEF Quiet
  <2>2. CASE Deposited \/ Configured
    BY <2>2 DEF Deposited, Configured, SamePurchase
  <2>3. ASSUME NEW i \in Intents, Moves(i)
        PROVE  <1>2!:
    <3>1. CASE j # i
      BY <2>3, <3>1 DEF Moves, Reserved, Settled, Declined, Pending, Unknown, Refunded,
                        Moved, SamePurchase
    <3>2. CASE j = i
      BY <2>3, <3>2, MoneyStates
         DEF Moves, Reserved, Settled, Declined, Pending, Unknown, Refunded, Moved, Reserving
    <3> QED BY <3>1, <3>2
  <2> QED BY <2>1, <2>2, <2>3 DEF Sorted
<1>3. j \in DOMAIN intents' /\ Kept(j)
  BY <1>2 DEF SamePurchase
<1>4. ledger'[j] = EventsOf(u) /\ (intents'[j].receipt <=> u \in {"settled", "refunded"})
  BY <1>3 DEF LedgerInv, Told
<1>5. /\ s \in Terminal => u \in Terminal
      /\ s \in Reserving => u \in Reserving \cup {"settled", "declined", "refunded"}
      /\ s = "settled" => u \in {"settled", "refunded"}
      /\ s \in {"declined", "refunded"} => u = s
  BY <1>2, <1>3, MoneyStates DEF Kept, Terminal, Untouched, Waiting, Executable, Reserving
<1> HIDE DEF s, u
<1>6. \A kind \in DOMAIN ledger[j] : ledger[j][kind] <= ledger'[j][kind]
  BY <1>1, <1>4, <1>5, EventsGrow
<1> QED BY <1>1, <1>2, <1>4, <1>5, <1>6 DEF PastStays, s, u

(* The ledger is append-only and a decision is never taken back: whatever   *)
(* handlers, answers, deposits and ticks follow, each purchase keeps its    *)
(* agent, its request, its events and its receipt, and neither owner nor    *)
(* agent can execute, cancel or deny one that has started or ended.         *)
THEOREM HistoryStays == Spec => [][\A j \in DOMAIN intents : PastStays(j)]_vars
<1>1. TypeOK /\ LedgerInv /\ [Next]_vars => LedgerInv'
  BY ConstantsAssumption, LedgerInvStep
<1>2. TypeOK /\ LedgerInv /\ [Next]_vars => \A j \in DOMAIN intents : PastStays(j)
  BY ConstantsAssumption, LedgerInvStep, StepKeeps, PastStaysStep
<1> QED BY <1>1, <1>2, LedgerInvInit, TypeCorrect, PTL DEF Spec

=============================================================================
