---------------------------- MODULE BrokerProofs ----------------------------
(***************************************************************************)
(* Machine-checked proofs about Broker, for every value of the constants:  *)
(* no sequence of calls, failed saves, crashes and restarts submits a      *)
(* purchase twice or loses a submission, and the state file can always be  *)
(* taken over.  Every call, answer and tick is a step of Treasury, so its  *)
(* invariants hold of the memory; they are stated here of a saved state    *)
(* too, so that loading one establishes them.                              *)
(***************************************************************************)
EXTENDS Broker, TreasuryProofs

StateFields ==
  { "agents", "intents", "ledger", "settled_24h", "operator_topups",
    "processed_deposits", "emergency_stop", "provider", "provider_mode",
    "manual_provider" }

(* TypeOK of a saved state.                                                 *)
StateOK(d) ==
  /\ DOMAIN d = StateFields
  /\ DOMAIN d.agents \subseteq Agents
  /\ d.agents = [ a \in DOMAIN d.agents |-> d.agents[a] ]
  /\ \A a \in DOMAIN d.agents :
        /\ d.agents[a] \in AgentRecord
        /\ d.agents[a].session_live => ~d.agents[a].capability_expired
  /\ DOMAIN d.intents \subseteq Intents
  /\ d.intents = [ i \in DOMAIN d.intents |-> d.intents[i] ]
  /\ \A i \in DOMAIN d.intents :
        d.intents[i] \in IntentRecord /\ d.intents[i].agent \in DOMAIN d.agents
  /\ d.ledger \in [Intents -> LedgerCounts]
  /\ d.settled_24h \subseteq DOMAIN d.intents
  /\ d.operator_topups \in Nat
  /\ d.processed_deposits \subseteq DepositReferences
  /\ d.emergency_stop \in BOOLEAN
  /\ d.provider \in ProviderRecord
  /\ d.provider_mode \in {"simulated", "manual_prepaid_card"}
  /\ d.manual_provider \in ManualProviderRecord

(* LedgerInv of a saved state.                                              *)
ToldIn(d, i) ==
  LET s == d.intents[i].state
  IN /\ d.ledger[i] = EventsOf(s)
     /\ d.intents[i].receipt <=> s \in {"settled", "refunded"}
     /\ i \in d.provider.charges => s \in {"unknown", "settled", "refunded"}
     /\ i \in d.provider.holds <=> s = "provider_pending"

LedgerOK(d) ==
  /\ \A i \in DOMAIN d.intents : ToldIn(d, i)
  /\ \A i \in Intents \ DOMAIN d.intents : d.ledger[i] = EventsOf("draft")
  /\ d.provider.charges \cup d.provider.holds \subseteq DOMAIN d.intents
  /\ d.provider_mode = "manual_prepaid_card" =>
       \A i \in d.provider.charges : d.intents[i].state \in {"settled", "refunded"}
  /\ d.provider_mode = "manual_prepaid_card" => d.provider.holds = {}

(* MoneyInv of a saved state.                                               *)
InStateOf(d, S) == { i \in DOMAIN d.intents : d.intents[i].state \in S }
TotalsOf(d) == [ i \in DOMAIN d.intents |-> d.intents[i].request.final_total ]
OutstandingOf(d) == { i \in d.provider.charges : d.intents[i].state # "refunded" }

MoneyOK(d) ==
  /\ Total(InStateOf(d, Reserving \cup {"settled"}), TotalsOf(d))
       <= Capital + d.operator_topups
  /\ d.provider_mode = "simulated" =>
       d.provider.balance + Total(OutstandingOf(d), TotalsOf(d))
         >= Capital + d.operator_topups
  /\ d.provider_mode = "manual_prepaid_card" =>
       d.manual_provider.amount >= Total(InStateOf(d, Reserving), TotalsOf(d))
  /\ d.provider_mode = "manual_prepaid_card" /\ ~d.manual_provider.outgoing_supported =>
       InStateOf(d, {"policy_validated"}) = {}

(* StopUnbinds of a saved state.                                            *)
StopOK(d) == d.emergency_stop => \A i \in InStateOf(d, Waiting) : ~d.intents[i].bound

(* What holds of the memory between two steps, and of every state a process *)
(* can load.                                                                *)
MemoryInv == TypeOK /\ LedgerInv /\ MoneyInv /\ StopUnbinds
SavedOK(d) == StateOK(d) /\ LedgerOK(d) /\ MoneyOK(d) /\ StopOK(d)

(* Money was reserved for purchase i: nothing executes it again.            *)
StartedIn(d, i) == i \in DOMAIN d.intents /\ d.intents[i].state \notin Untouched

Handed(i) == submissions[i] > 0 \/ i \in handed_off

(* A purchase handed over is handed over once, and started in the file, in  *)
(* the memory and in what the memory may be taken back to.                  *)
HandedOnce(i) ==
  /\ submissions[i] \in {0, 1} /\ (i \in handed_off => submissions[i] = 0)
  /\ Handed(i) =>
       /\ StartedIn(disk, i) /\ StartedIn(snapshot, i)
       /\ i \in DOMAIN intents /\ intents[i].state \notin Untouched

(* A purchase executing in the memory and not in the state before the call. *)
Starts(i) ==
  /\ i \in InState({"executing"})
  /\ i \notin InStateOf(snapshot, {"executing"})

(* While a reservation is being saved, one purchase is in it, and it can be *)
(* executed in what the memory may be taken back to; an ordinary call       *)
(* starts at most one purchase, and none it creates; no provider is called  *)
(* outside an execution.                                                    *)
PhaseInv ==
  /\ phase \in {"idle", "saving", "recording"} => running = {}
  /\ phase = "reserving" =>
       \E i \in Intents :
         /\ running = {i} /\ intents[i].state = "executing"
         /\ i \in DOMAIN snapshot.intents /\ snapshot.intents[i].state \in Executable
  /\ phase = "saving" => \A i, j : Starts(i) /\ Starts(j) => i = j

BrokerInv ==
  /\ MemoryInv /\ SavedOK(disk) /\ SavedOK(snapshot)
  /\ submissions \in [Intents -> Nat] /\ handed_off \subseteq Intents
  /\ PhaseInv
  /\ \A i \in Intents : HandedOnce(i)
-----------------------------------------------------------------------------
(* Saved states.                                                            *)

LEMMA MemoryFields ==
  /\ DOMAIN memory = StateFields
  /\ memory.agents = agents /\ memory.intents = intents /\ memory.ledger = ledger
  /\ memory.settled_24h = settled_24h /\ memory.operator_topups = operator_topups
  /\ memory.processed_deposits = processed_deposits
  /\ memory.emergency_stop = emergency_stop /\ memory.provider = provider
  /\ memory.provider_mode = provider_mode /\ memory.manual_provider = manual_provider
BY DEF memory, StateFields

LEMMA MemoryOK == MemoryInv => SavedOK(memory)
<1> SUFFICES ASSUME MemoryInv PROVE SavedOK(memory)
  OBVIOUS
<1>1. StateOK(memory)
  BY MemoryFields DEF MemoryInv, TypeOK, StateOK
<1>2. \A i \in DOMAIN intents : ToldIn(memory, i)
  BY MemoryFields DEF MemoryInv, LedgerInv, Told, ToldIn
<1>3. LedgerOK(memory)
  BY <1>2, MemoryFields DEF MemoryInv, LedgerInv, LedgerOK
<1>4. /\ TotalsOf(memory) = Totals /\ OutstandingOf(memory) = Outstanding
      /\ \A S : InStateOf(memory, S) = InState(S)
  BY MemoryFields DEF TotalsOf, Totals, final_total, OutstandingOf, Outstanding,
                      InStateOf, InState
<1>5. MoneyOK(memory)
  BY <1>4, MemoryFields
     DEF MemoryInv, MoneyInv, MoneyOK, AuthorityInv, Committed, BooksInv,
         ReservationsCovered, reserved_amount, ManualCardNeedsOwner
<1>6. StopOK(memory)
  BY <1>4, MemoryFields DEF MemoryInv, StopUnbinds, StopOK
<1> QED BY <1>1, <1>3, <1>5, <1>6 DEF SavedOK

(* The same of the next state.                                              *)
LEMMA NextMemoryOK == MemoryInv' => SavedOK(memory)'
BY MemoryOK, PTL

LEMMA LoadOK ==
  ASSUME NEW d, SavedOK(d), Load(d), running' = {}
  PROVE  /\ MemoryInv'
         /\ \A i : StartedIn(d, i) => i \in DOMAIN intents' /\ intents'[i].state \notin Untouched
<1>1. TypeOK'
  BY DEF Load, SavedOK, StateOK, TypeOK
<1>2. \A i \in DOMAIN intents' : Told(i)'
  BY DEF Load, SavedOK, LedgerOK, ToldIn, Told
<1>3. LedgerInv'
  BY <1>2 DEF Load, SavedOK, LedgerOK, LedgerInv
<1>4. /\ TotalsOf(d) = Totals' /\ OutstandingOf(d) = Outstanding'
      /\ \A S : InStateOf(d, S) = { i \in DOMAIN intents' : intents'[i].state \in S }
  BY DEF Load, TotalsOf, Totals, final_total, OutstandingOf, Outstanding, InStateOf
<1>5. /\ Committed' = InStateOf(d, Reserving \cup {"settled"})
      /\ InState(Reserving)' = InStateOf(d, Reserving)
      /\ InState(Waiting)' = InStateOf(d, Waiting)
      /\ InState({"policy_validated"})' = InStateOf(d, {"policy_validated"})
  BY <1>4 DEF Committed, InState
<1>6. MoneyInv'
  BY <1>4, <1>5
     DEF Load, SavedOK, MoneyOK, MoneyInv, AuthorityInv, BooksInv, ReservationsCovered,
         reserved_amount, ManualCardNeedsOwner
<1>7. StopUnbinds'
  BY <1>5 DEF Load, SavedOK, StopOK, StopUnbinds
<1> QED BY <1>1, <1>3, <1>6, <1>7 DEF MemoryInv, Load, StartedIn

(* Recovery changes states and nothing else, and keeps the ledger's story.  *)
LEMMA RecoverOK ==
  ASSUME NEW d, SavedOK(d)
  PROVE  LET e == recover_interrupted_executions(d)
         IN /\ SavedOK(e)
            /\ \A i : StartedIn(d, i) => StartedIn(e, i)
<1> USE DEF SavedOK
<1> DEFINE e == recover_interrupted_executions(d)
           late == [ i \in DOMAIN d.intents |->
                       IF d.intents[i].state = "executing"
                       THEN [d.intents[i] EXCEPT !.state = "unknown"] ELSE d.intents[i] ]
<1>1. e = [d EXCEPT !.intents = late] /\ DOMAIN d = StateFields
  BY DEF recover_interrupted_executions, StateOK
<1> HIDE DEF e, late
<1>2. /\ DOMAIN e = StateFields /\ e.intents = late
      /\ e.agents = d.agents /\ e.ledger = d.ledger /\ e.settled_24h = d.settled_24h
      /\ e.operator_topups = d.operator_topups
      /\ e.processed_deposits = d.processed_deposits
      /\ e.emergency_stop = d.emergency_stop /\ e.provider = d.provider
      /\ e.provider_mode = d.provider_mode /\ e.manual_provider = d.manual_provider
  BY <1>1 DEF StateFields
<1>3. ASSUME NEW i \in DOMAIN d.intents
      PROVE  /\ late[i] \in IntentRecord /\ late[i].agent = d.intents[i].agent
             /\ late[i].request = d.intents[i].request
             /\ late[i].bound = d.intents[i].bound
             /\ late[i].receipt = d.intents[i].receipt
             /\ late[i].state = IF d.intents[i].state = "executing" THEN "unknown"
                                ELSE d.intents[i].state
  <2>1. d.intents[i] \in IntentRecord /\ "unknown" \in TransactionState
    BY DEF StateOK, TransactionState
  <2>2. late[i] = IF d.intents[i].state = "executing"
                  THEN [d.intents[i] EXCEPT !.state = "unknown"] ELSE d.intents[i]
    BY <1>3 DEF late
  <2> QED BY <2>1, <2>2, IntentFieldType DEF IntentRecord
<1>4. DOMAIN late = DOMAIN d.intents /\ late = [ i \in DOMAIN late |-> late[i] ]
  BY DEF late
<1>5. StateOK(e)
  BY <1>2, <1>3, <1>4 DEF StateOK
<1>6. ASSUME NEW i \in DOMAIN d.intents
      PROVE  ToldIn(e, i)
  <2>1. ToldIn(d, i)
    BY DEF LedgerOK
  <2>2. EventsOf("unknown") = EventsOf("executing")
    BY DEF EventsOf, Reserving
  <2> QED BY <1>2, <1>3, <2>1, <2>2 DEF ToldIn
<1>7. LedgerOK(e)
  <2>1. \A i \in d.provider.charges : i \in DOMAIN d.intents
    BY DEF LedgerOK
  <2>2. \A i \in d.provider.charges :
          d.intents[i].state \in {"settled", "refunded"} => late[i].state = d.intents[i].state
    BY <1>3, <2>1
  <2> QED BY <1>2, <1>4, <1>6, <2>1, <2>2 DEF LedgerOK
<1>8. ASSUME NEW i, StartedIn(d, i)
      PROVE  StartedIn(e, i)
  <2>1. "unknown" \notin Untouched
    BY DEF Untouched, Waiting
  <2> QED BY <1>2, <1>3, <1>4, <1>8, <2>1 DEF StartedIn
<1>9. ASSUME NEW S, "executing" \in S <=> "unknown" \in S
      PROVE  InStateOf(e, S) = InStateOf(d, S)
  BY <1>2, <1>3, <1>4, <1>9 DEF InStateOf
<1>10. TotalsOf(e) = TotalsOf(d)
  BY <1>2, <1>3, <1>4 DEF TotalsOf
<1>11. OutstandingOf(e) = OutstandingOf(d)
  <2>1. \A i \in d.provider.charges : i \in DOMAIN d.intents
    BY DEF LedgerOK
  <2> QED BY <1>2, <1>3, <2>1 DEF OutstandingOf
<1>12. MoneyOK(e)
  <2>1. /\ InStateOf(e, Reserving \cup {"settled"}) = InStateOf(d, Reserving \cup {"settled"})
        /\ InStateOf(e, Reserving) = InStateOf(d, Reserving)
        /\ InStateOf(e, {"policy_validated"}) = InStateOf(d, {"policy_validated"})
    BY <1>9 DEF Reserving
  <2> QED BY <1>2, <1>10, <1>11, <2>1 DEF MoneyOK
<1>13. StopOK(e)
  <2>1. InStateOf(e, Waiting) = InStateOf(d, Waiting)
    BY <1>9 DEF Waiting
  <2> QED BY <1>2, <1>3, <2>1 DEF StopOK, InStateOf
<1> QED BY <1>5, <1>7, <1>8, <1>12, <1>13 DEF e

-----------------------------------------------------------------------------
(* Steps of the treasury.                                                   *)

(* A started purchase is never one to execute again.                        *)
LEMMA StartedStep ==
  ASSUME Sorted, NEW i \in DOMAIN intents, intents[i].state \notin Untouched
  PROVE  i \in DOMAIN intents' /\ intents'[i].state \notin Untouched
<1>1. CASE Quiet
  BY <1>1 DEF Quiet, SamePurchase
<1>2. CASE Deposited \/ Configured
  BY <1>2 DEF Deposited, Configured
<1>3. ASSUME NEW j, NEW from, NEW s, Moved(j, from, s), s \notin Untouched
      PROVE  i \in DOMAIN intents' /\ intents'[i].state \notin Untouched
  BY <1>3 DEF Moved
<1>4. {"executing", "settled", "declined", "provider_pending", "unknown", "refunded"}
        \cap Untouched = {}
  BY DEF Untouched, Waiting
<1>5. ASSUME NEW j \in Intents, Moves(j)
      PROVE  i \in DOMAIN intents' /\ intents'[i].state \notin Untouched
  BY <1>3, <1>4, <1>5 DEF Moves, Reserved, Settled, Declined, Pending, Unknown, Refunded
<1> QED BY <1>1, <1>2, <1>5 DEF Sorted

LEMMA TreasuryStep ==
  ASSUME ConstantsAssumption, MemoryInv, [Next]_vars
  PROVE  /\ MemoryInv'
         /\ \A i \in DOMAIN intents : intents[i].state \notin Untouched =>
              i \in DOMAIN intents' /\ intents'[i].state \notin Untouched
BY NextType, LedgerInvStep, MoneyInvStep, StopUnbindsStep, StartedStep DEF MemoryInv

(* A step starts at most one purchase, and none that it creates.            *)
LEMMA OneStarts ==
  ASSUME Sorted
  PROVE  \A i, j : /\ i \in InState({"executing"})' \ InState({"executing"})
                   /\ j \in InState({"executing"})' \ InState({"executing"})
                   => i = j
<1>1. CASE Quiet
  BY <1>1 DEF Quiet, InState, Untouched, Waiting
<1>2. CASE Deposited \/ Configured
  BY <1>2 DEF Deposited, Configured, InState
<1>3. ASSUME NEW k \in Intents, Moves(k)
      PROVE  InState({"executing"})' \ InState({"executing"}) \subseteq {k}
  <2>1. \E from, s : Moved(k, from, s)
    BY <1>3 DEF Moves, Reserved, Settled, Declined, Pending, Unknown, Refunded
  <2> QED BY <2>1 DEF Moved, InState
<1> QED BY <1>1, <1>2, <1>3 DEF Sorted

(* A call that works on the memory, and remembers what it was.              *)
LEMMA CallKeeps ==
  ASSUME ConstantsAssumption, BrokerInv, [Next]_vars, snapshot' = memory,
         UNCHANGED << disk, submissions, handed_off >>, PhaseInv'
  PROVE  BrokerInv'
<1>1. MemoryInv'
  BY TreasuryStep DEF BrokerInv
<1>2. SavedOK(snapshot') /\ SavedOK(disk')
  BY MemoryOK DEF BrokerInv
<1>3. ASSUME NEW i \in Intents
      PROVE  HandedOnce(i)'
  BY TreasuryStep, MemoryFields DEF BrokerInv, HandedOnce, Handed, StartedIn
<1> QED BY <1>1, <1>2, <1>3 DEF BrokerInv
-----------------------------------------------------------------------------
(* The steps of the broker.                                                 *)

(* No handler under the treasury mutex calls a provider.                    *)
LEMMA HandlerRunsNothing ==
  ASSUME Handler
  PROVE  running' = running
<1>1. ASSUME NEW a \in Agents, AgentCall(a)
      PROVE  running' = running
  BY <1>1 DEF AgentCall, create_intent, cancel_intent
<1>2. ASSUME NEW a \in Agents, OwnerAgentCall(a)
      PROVE  running' = running
  BY <1>2 DEF OwnerAgentCall, owner_create_agent, owner_arm_agent_session,
       owner_update_policy, owner_set_agent_mode, owner_revoke_agent,
       owner_rotate_agent_capability, owner_record_deposit
<1>3. ASSUME NEW i \in Intents, OwnerIntentCall(i)
      PROVE  running' = running
  <2>1. owner_reconcile_settled(i) \/ owner_reconcile_declined(i) => running' = running
    BY DEF owner_reconcile_settled, owner_reconcile_declined
  <2>2. owner_reconcile_refunded(i) => running' = running
    BY DEF owner_reconcile_refunded
  <2> QED BY <1>3, <2>1, <2>2
          DEF OwnerIntentCall, owner_approve, owner_deny, owner_begin_manual_handoff,
              owner_complete_manual_handoff
<1>4. CASE OwnerTreasuryCall
  BY <1>4 DEF OwnerTreasuryCall, owner_emergency_stop_on, owner_emergency_stop_off,
       owner_record_unverified_deposit, owner_configure_manual_provider
<1> QED BY <1>1, <1>2, <1>3, <1>4 DEF Handler

LEMMA CallStep ==
  ASSUME ConstantsAssumption, BrokerInv,
         \/ handle_persisted \/ reserve
         \/ \E i \in Intents : execute_handoff_command(i)
  PROVE  BrokerInv'
<1>1. running = {}
  BY DEF BrokerInv, PhaseInv, handle_persisted, reserve, execute_handoff_command, Idle
<1>2. CASE handle_persisted
  <2>1. running' = running
    BY <1>2, HandlerRunsNothing DEF handle_persisted
  <2>2. /\ Next /\ snapshot' = memory /\ phase' = "saving"
        /\ UNCHANGED << disk, submissions, handed_off >>
    BY <1>1, <1>2 DEF handle_persisted, Next, Call
  <2>3. Sorted
    BY <2>2, SortedStep DEF BrokerInv, MemoryInv
  <2>4. ASSUME NEW i, NEW j, Starts(i)', Starts(j)'
        PROVE  i = j
    <3>1. InStateOf(snapshot', {"executing"}) = InState({"executing"})
      BY <2>2, MemoryFields DEF InStateOf, InState
    <3> QED BY <2>3, <2>4, <3>1, OneStarts DEF Starts
  <2> QED BY <1>1, <2>1, <2>2, <2>4, CallKeeps DEF PhaseInv
<1>3. ASSUME NEW i \in DOMAIN intents, prepare_intent_execution(i), running' = {i}, Next,
             phase' = "reserving", snapshot' = memory,
             UNCHANGED << disk, submissions, handed_off >>
      PROVE  BrokerInv'
  <2>1. intents[i].state \in Executable /\ SetState(i, "executing")
    BY <1>3 DEF prepare_intent_execution
  <2>2. intents'[i].state = "executing" /\ i \in Intents
    BY <2>1, StateMove DEF BrokerInv, MemoryInv, TypeOK
  <2>3. PhaseInv'
    BY <1>3, <2>1, <2>2, MemoryFields DEF PhaseInv
  <2> QED BY <1>3, <2>3, CallKeeps
<1>4. CASE reserve
  <2>1. PICK i \in DOMAIN intents : prepare_intent_execution(i) /\ running' = {i}
    BY <1>4 DEF reserve, Execution, execute_intent, execute_controlled_checkout, OfAgent
  <2>2. Next
    BY <1>1, <1>4 DEF reserve, Next, Call
  <2> QED BY <1>3, <1>4, <2>1, <2>2 DEF reserve
<1>5. ASSUME NEW i \in Intents, execute_handoff_command(i)
      PROVE  BrokerInv'
  <2>1. i \in DOMAIN intents /\ prepare_intent_execution(i) /\ running' = {i}
    BY <1>5 DEF execute_handoff_command, owner_execute_approved_handoff, InState
  <2>2. Next
    BY <1>1, <1>5 DEF execute_handoff_command, Next, Call
  <2> QED BY <1>3, <1>5, <2>1, <2>2 DEF execute_handoff_command
<1> QED BY <1>2, <1>4, <1>5

LEMMA OutcomeStep ==
  ASSUME ConstantsAssumption, BrokerInv, NEW i \in Intents, record_outcome(i)
  PROVE  BrokerInv'
<1>1. /\ Next /\ running' = {} /\ phase' = "recording"
      /\ UNCHANGED << disk, snapshot, submissions, handed_off >>
  BY DEF record_outcome, complete_intent_execution, Next
<1>2. MemoryInv' /\ PhaseInv'
  BY <1>1, TreasuryStep DEF BrokerInv, PhaseInv
<1>3. ASSUME NEW j \in Intents
      PROVE  HandedOnce(j)'
  BY <1>1, TreasuryStep DEF BrokerInv, HandedOnce, Handed
<1> QED BY <1>1, <1>2, <1>3 DEF BrokerInv

(* A save hands over what was reserved, and it was never handed over.       *)
LEMMA SaveSucceedsStep ==
  ASSUME ConstantsAssumption, BrokerInv, SaveSucceeds
  PROVE  BrokerInv'
<1>1. /\ disk' = memory /\ snapshot' = memory /\ UNCHANGED vars
      /\ phase' = IF phase = "reserving" THEN "submitting" ELSE "idle"
      /\ phase \in {"saving", "reserving", "recording"}
  BY DEF SaveSucceeds
<1>2. MemoryInv'
  BY <1>1, TreasuryStep DEF BrokerInv
<1>3. SavedOK(memory)
  BY MemoryOK DEF BrokerInv
<1>4. PhaseInv'
  BY <1>1 DEF PhaseInv, BrokerInv, vars
<1>5. ASSUME NEW i \in Intents
      PROVE  HandedOnce(i)' /\ submissions[i]' \in Nat
  <2>1. HandedOnce(i) /\ intents' = intents
    BY <1>1 DEF BrokerInv, vars
  <2>2. submissions'[i] = IF phase = "reserving" /\ i \in running THEN submissions[i] + 1
                          ELSE submissions[i]
    BY DEF SaveSucceeds
  <2>3. i \in handed_off' <=>
          \/ i \in handed_off
          \/ i \in InState({"executing"}) /\ phase = "saving"
               /\ snapshot.intents[i].state = "approved"
    BY DEF SaveSucceeds
  <2>4. "executing" \notin Untouched /\ Executable \subseteq Untouched /\ "approved" \in Untouched
    BY DEF Untouched, Waiting, Executable
  <2>5. CASE phase = "reserving" /\ i \in running
    <3>1. /\ intents[i].state = "executing" /\ snapshot.intents[i].state \in Executable
          /\ i \in DOMAIN intents
      BY <2>5 DEF BrokerInv, PhaseInv, MemoryInv, TypeOK
    <3>2. ~Handed(i) /\ submissions[i] = 0
      BY <2>1, <2>4, <3>1 DEF HandedOnce, StartedIn, Handed
    <3> QED BY <1>1, <2>1, <2>2, <2>3, <2>4, <2>5, <3>1, <3>2, MemoryFields
            DEF HandedOnce, Handed, StartedIn
  <2>6. CASE ~(phase = "reserving" /\ i \in running) /\ i \in handed_off' /\ i \notin handed_off
    <3>1. /\ i \in DOMAIN intents /\ intents[i].state = "executing"
          /\ snapshot.intents[i].state = "approved"
      BY <2>3, <2>6 DEF InState
    <3>2. ~Handed(i) /\ submissions[i] = 0
      BY <2>1, <2>4, <3>1 DEF HandedOnce, StartedIn, Handed
    <3> QED BY <1>1, <2>1, <2>2, <2>4, <2>6, <3>1, <3>2, MemoryFields
            DEF HandedOnce, Handed, StartedIn
  <2>7. CASE ~(phase = "reserving" /\ i \in running) /\ (i \in handed_off' <=> i \in handed_off)
    BY <1>1, <2>1, <2>2, <2>7, MemoryFields DEF HandedOnce, Handed, StartedIn
  <2> QED BY <2>3, <2>5, <2>6, <2>7 DEF HandedOnce
<1>6. submissions' \in [Intents -> Nat] /\ handed_off' \subseteq Intents
  <2>1. submissions' = [ i \in Intents |-> submissions'[i] ]
    BY DEF SaveSucceeds
  <2>2. InState({"executing"}) \subseteq Intents
    BY InDomain DEF BrokerInv, MemoryInv, TypeOK
  <2>3. handed_off' \subseteq handed_off \cup InState({"executing"})
    BY DEF SaveSucceeds
  <2> QED BY <1>5, <2>1, <2>2, <2>3 DEF BrokerInv
<1> QED BY <1>1, <1>2, <1>3, <1>4, <1>5, <1>6 DEF BrokerInv

(* A failed save keeps the memory or takes it back.                         *)
LEMMA SaveFailsStep ==
  ASSUME ConstantsAssumption, BrokerInv, SaveFails
  PROVE  BrokerInv'
<1>1. PICK kept \in {snapshot, memory} : Load(kept) /\ snapshot' = kept
  BY DEF SaveFails
<1>2. /\ running' = {} /\ phase' = "idle" /\ disk' \in {disk, memory}
      /\ UNCHANGED << submissions, handed_off >>
  BY DEF SaveFails
<1>3. SavedOK(memory)
  BY MemoryOK DEF BrokerInv
<1>4. SavedOK(kept) /\ SavedOK(disk')
  BY <1>2, <1>3 DEF BrokerInv
<1>5. /\ MemoryInv'
      /\ \A i : StartedIn(kept, i) => i \in DOMAIN intents' /\ intents'[i].state \notin Untouched
  BY <1>1, <1>2, <1>4, LoadOK
<1>6. ASSUME NEW i \in Intents
      PROVE  HandedOnce(i)'
  <2>1. HandedOnce(i)
    BY DEF BrokerInv
  <2>2. Handed(i) => StartedIn(memory, i) /\ StartedIn(snapshot, i) /\ StartedIn(disk, i)
    BY <2>1, MemoryFields DEF HandedOnce, StartedIn
  <2>3. Handed(i) => StartedIn(kept, i) /\ StartedIn(disk', i)
    BY <1>2, <2>2
  <2> QED BY <1>1, <1>2, <1>5, <2>1, <2>3 DEF HandedOnce, Handed
<1> QED BY <1>1, <1>2, <1>4, <1>5, <1>6 DEF BrokerInv, PhaseInv

(* A restart takes over the file.                                           *)
LEMMA RestartStep ==
  ASSUME ConstantsAssumption, BrokerInv, Restart
  PROVE  BrokerInv'
<1> DEFINE e == recover_interrupted_executions(disk)
<1>1. /\ Load(e) /\ disk' = e /\ snapshot' = e /\ running' = {} /\ phase' = "idle"
      /\ UNCHANGED << submissions, handed_off >>
  BY DEF Restart
<1>2. SavedOK(e) /\ \A i : StartedIn(disk, i) => StartedIn(e, i)
  BY RecoverOK DEF BrokerInv
<1> HIDE DEF e
<1>3. /\ MemoryInv'
      /\ \A i : StartedIn(e, i) => i \in DOMAIN intents' /\ intents'[i].state \notin Untouched
  BY <1>1, <1>2, LoadOK
<1>4. ASSUME NEW i \in Intents
      PROVE  HandedOnce(i)'
  BY <1>1, <1>2, <1>3 DEF BrokerInv, HandedOnce, Handed
<1> QED BY <1>1, <1>2, <1>3, <1>4 DEF BrokerInv, PhaseInv

LEMMA SamePhase ==
  ASSUME PhaseInv, UNCHANGED << vars, snapshot, phase >>
  PROVE  PhaseInv'
BY DEF PhaseInv, Starts, InState, InStateOf, vars

LEMMA OwnerSubmitsStep ==
  ASSUME BrokerInv, NEW i \in Intents, OwnerSubmits(i)
  PROVE  BrokerInv'
<1>1. /\ i \in handed_off /\ handed_off' = handed_off \ {i}
      /\ submissions' = [submissions EXCEPT ![i] = @ + 1]
      /\ UNCHANGED << vars, disk, snapshot, phase >>
  BY DEF OwnerSubmits
<1>2. submissions \in [Intents -> Nat] /\ submissions[i] = 0
  BY <1>1 DEF BrokerInv, HandedOnce
<1>3. submissions' \in [Intents -> Nat] /\ submissions'[i] = 1
      /\ \A j \in Intents \ {i} : submissions'[j] = submissions[j]
  BY <1>1, <1>2
<1>4. ASSUME NEW j \in Intents
      PROVE  HandedOnce(j)'
  <2>1. HandedOnce(j) /\ intents' = intents
    BY <1>1 DEF BrokerInv, vars
  <2>2. CASE j = i
    BY <1>1, <1>3, <2>1, <2>2 DEF HandedOnce, Handed
  <2>3. CASE j # i
    BY <1>1, <1>3, <2>1, <2>3 DEF HandedOnce, Handed
  <2> QED BY <2>2, <2>3
<1>5. MemoryInv' /\ PhaseInv'
  BY <1>1, SamePhase, TreasuryStep, ConstantsAssumption DEF BrokerInv
<1> QED BY <1>1, <1>3, <1>4, <1>5 DEF BrokerInv

LEMMA BrokerTickStep ==
  ASSUME ConstantsAssumption, BrokerInv, BrokerTick
  PROVE  BrokerInv'
<1>1. /\ Next /\ disk' = memory' /\ snapshot' = memory' /\ phase' = phase /\ phase = "idle"
      /\ UNCHANGED << submissions, handed_off >>
  BY DEF BrokerTick, Next, Idle
<1>2. MemoryInv'
  BY <1>1, TreasuryStep DEF BrokerInv
<1>3. SavedOK(memory)'
  BY <1>2, NextMemoryOK
<1>4. running' = {}
  <2>1. running' = running
    BY DEF BrokerTick, Tick, IntentAges, SettlementLeavesWindow, SessionEnds,
           CapabilityExpires, BalanceExpires
  <2> QED BY <1>1, <2>1 DEF BrokerInv, PhaseInv
<1>5. memory'.intents = intents'
  BY DEF memory
<1>6. ASSUME NEW i \in Intents
      PROVE  HandedOnce(i)'
  BY <1>1, <1>5, TreasuryStep DEF BrokerInv, HandedOnce, Handed, StartedIn
<1> QED BY <1>1, <1>2, <1>3, <1>4, <1>6 DEF BrokerInv, PhaseInv

LEMMA BrokerStep ==
  ASSUME ConstantsAssumption, BrokerInv, [BrokerNext]_brokerVars
  PROVE  BrokerInv'
<1>1. CASE UNCHANGED brokerVars
  <2>1. UNCHANGED << vars, disk, snapshot, phase, submissions, handed_off >>
    BY <1>1 DEF brokerVars
  <2>2. MemoryInv' /\ PhaseInv'
    BY <2>1, SamePhase, TreasuryStep DEF BrokerInv
  <2>3. ASSUME NEW i \in Intents
        PROVE  HandedOnce(i)'
    BY <2>1 DEF BrokerInv, vars, HandedOnce, Handed
  <2> QED BY <2>1, <2>2, <2>3 DEF BrokerInv
<1> QED BY <1>1, CallStep, OutcomeStep, SaveSucceedsStep, SaveFailsStep, RestartStep,
           OwnerSubmitsStep, BrokerTickStep DEF BrokerNext

LEMMA BrokerInvInit == BrokerInit => BrokerInv
<1> SUFFICES ASSUME BrokerInit PROVE BrokerInv
  OBVIOUS
<1>1. Init /\ disk = memory /\ snapshot = memory /\ running = {} /\ DOMAIN intents = {}
  BY DEF BrokerInit, Init
<1>2. MemoryInv
  BY <1>1, TypeInit, LedgerInvInit, MoneyInvInit DEF MemoryInv, Init, StopUnbinds
<1>3. SavedOK(memory)
  BY <1>2, MemoryOK
<1>4. /\ submissions = [ i \in Intents |-> 0 ] /\ handed_off = {} /\ phase = "idle"
  BY DEF BrokerInit
<1>5. ASSUME NEW i \in Intents
      PROVE  HandedOnce(i)
  BY <1>4 DEF HandedOnce, Handed
<1> QED BY <1>1, <1>2, <1>3, <1>4, <1>5 DEF BrokerInv, PhaseInv
(* A purchase is handed to a provider, by the broker's browser, the owner's *)
(* own or the simulator, at most once, in every order of calls, failed      *)
(* saves, crashes and restarts and for any number of purchases: no path     *)
(* back to an executable intent is left (save_to, the restored snapshot,    *)
(* recover_interrupted_executions).                                         *)
THEOREM HandedAtMostOnce == BrokerSpec => []SubmittedAtMostOnce
<1>1. BrokerInv /\ [BrokerNext]_brokerVars => BrokerInv'
  BY ConstantsAssumption, BrokerStep
<1>2. BrokerInv => SubmittedAtMostOnce
  BY DEF BrokerInv, HandedOnce, SubmittedAtMostOnce
<1> QED BY <1>1, <1>2, BrokerInvInit, PTL DEF BrokerSpec

(* Whatever the process loses, a purchase that was handed over is found on  *)
(* disk as one that is not tried again: the save comes before the           *)
(* submission (execute_controlled_checkout_persisted).                      *)
THEOREM HandedIsDurable == BrokerSpec => []SubmissionIsDurable
<1>1. BrokerInv /\ [BrokerNext]_brokerVars => BrokerInv'
  BY ConstantsAssumption, BrokerStep
<1>2. BrokerInv => SubmissionIsDurable
  BY DEF BrokerInv, HandedOnce, Handed, StartedIn, SubmissionIsDurable, Untouched
<1> QED BY <1>1, <1>2, BrokerInvInit, PTL DEF BrokerSpec

(* The books of the file, purchase by purchase, and its sums.               *)
LEMMA SavedTells ==
  ASSUME NEW d, LedgerOK(d), NEW i \in DOMAIN d.intents
  PROVE  LET s == d.intents[i].state
         IN /\ d.ledger[i].hold_reserved - d.ledger[i].hold_released
                 = (IF s \in Reserving THEN 1 ELSE 0)
            /\ d.ledger[i].spending_settled = (IF d.intents[i].receipt THEN 1 ELSE 0)
            /\ i \in d.provider.charges => s \in {"unknown", "settled", "refunded"}
            /\ i \in d.provider.holds => s = "provider_pending"
<1> DEFINE s == d.intents[i].state
<1>1. ToldIn(d, i)
  BY DEF LedgerOK
<1>2. /\ d.ledger[i].hold_reserved
           = IF s \in Reserving \cup {"settled", "declined", "refunded"} THEN 1 ELSE 0
      /\ d.ledger[i].hold_released
           = IF s \in {"settled", "declined", "refunded"} THEN 1 ELSE 0
      /\ d.ledger[i].spending_settled = IF s \in {"settled", "refunded"} THEN 1 ELSE 0
  BY <1>1 DEF ToldIn, EventsOf
<1>3. s \in Reserving => s \notin {"settled", "declined", "refunded"}
  BY MoneyStates
<1>4. /\ d.intents[i].receipt <=> s \in {"settled", "refunded"}
      /\ i \in d.provider.charges => s \in {"unknown", "settled", "refunded"}
      /\ i \in d.provider.holds => s = "provider_pending"
  BY <1>1 DEF ToldIn
<1> HIDE DEF s
<1>5. d.ledger[i].hold_reserved - d.ledger[i].hold_released
        = IF s \in Reserving THEN 1 ELSE 0
  BY <1>2, <1>3
<1>6. d.ledger[i].spending_settled = IF d.intents[i].receipt THEN 1 ELSE 0
  BY <1>2, <1>4
<1> QED BY <1>4, <1>5, <1>6 DEF s

(* The state file is always one a restart can take over: its ledger, its    *)
(* receipts and its provider's books match the states of its intents, they  *)
(* commit no more than the owner gave, and the card covers what they        *)
(* reserve, also after a failed save and after                              *)
(* recover_interrupted_executions.                                          *)
THEOREM FileIsConsistent == BrokerSpec => []DiskIsConsistent
<1>1. BrokerInv /\ [BrokerNext]_brokerVars => BrokerInv'
  BY ConstantsAssumption, BrokerStep
<1>2. BrokerInv => DiskIsConsistent
  <2> SUFFICES ASSUME LedgerOK(disk), MoneyOK(disk) PROVE DiskIsConsistent
    BY DEF BrokerInv, SavedOK
  <2> QED BY SavedTells DEF DiskIsConsistent, MoneyOK, InStateOf, TotalsOf
<1> QED BY <1>1, <1>2, BrokerInvInit, PTL DEF BrokerSpec

(* What the treasury promises of its memory, whatever it went through.      *)
TreasuryPromises ==
  /\ TypeOK /\ AuthorityNeverNegative /\ AuthorityIsBacked /\ ReservationsCovered
  /\ LedgerTellsTheState /\ ManualCardNeedsOwner /\ UncertainIsReconcilable

(* Saves that fail before or after the rename, restored snapshots, crashes  *)
(* and the recovery of interrupted executions break none of the promises    *)
(* the treasury keeps while its process runs: the memory is never left with *)
(* an overdrawn authority, an uncovered reservation, a ledger that tells    *)
(* another story than its intents, or a purchase the owner cannot book.     *)
THEOREM PromisesSurvive == BrokerSpec => []TreasuryPromises
<1>1. BrokerInv /\ [BrokerNext]_brokerVars => BrokerInv'
  BY ConstantsAssumption, BrokerStep
<1>2. BrokerInv => TreasuryPromises
  <2> SUFFICES ASSUME MemoryInv PROVE TreasuryPromises
    BY DEF BrokerInv
  <2> USE ConstantsAssumption DEF MemoryInv, MoneyInv
  <2>1. AuthorityNeverNegative
    BY AuthorityFits
  <2>2. AuthorityIsBacked
    BY BackedByBooks
  <2>3. LedgerTellsTheState
    BY ToldParts DEF LedgerInv
  <2>4. UncertainIsReconcilable
    BY ReconcilableByMoney
  <2> QED BY <2>1, <2>2, <2>3, <2>4 DEF TreasuryPromises
<1> QED BY <1>1, <1>2, BrokerInvInit, PTL DEF BrokerSpec
-----------------------------------------------------------------------------
(* The stop, across crashes.                                                *)

(* A purchase the stop caught, in a saved state.                            *)
StoppedIn(d, i) ==
  /\ i \in DOMAIN d.intents
  /\ ~d.intents[i].bound /\ d.intents[i].state \in Waiting \cup {"cancelled"}

(* It is caught in the memory, in the file and in what the memory may be    *)
(* taken back to, and nobody was ever asked to submit it.                   *)
Caught(i) ==
  /\ submissions[i] = 0 /\ i \notin handed_off
  /\ Stopped(i) /\ StoppedIn(disk, i)
  /\ phase # "idle" => StoppedIn(snapshot, i)

LEMMA StoppedStays ==
  ASSUME ConstantsAssumption, TypeOK, NEW i, Stopped(i), [Next]_vars
  PROVE  Stopped(i)'
<1>1. Kept(i)
  BY StepKeeps DEF Stopped
<1>2. intents[i].bound' \in BOOLEAN
  BY NextType, <1>1 DEF TypeOK, IntentRecord, Kept
<1> QED BY <1>1, <1>2 DEF Stopped, Kept

LEMMA StoppedSaved ==
  /\ \A i : StoppedIn(memory, i) <=> Stopped(i)
  /\ \A d, i : Load(d) /\ StoppedIn(d, i) => Stopped(i)'
BY MemoryFields DEF StoppedIn, Stopped, Load

LEMMA StoppedRecovered ==
  ASSUME NEW d, SavedOK(d), NEW i, StoppedIn(d, i)
  PROVE  StoppedIn(recover_interrupted_executions(d), i)
<1> DEFINE e == recover_interrupted_executions(d)
           late == [ j \in DOMAIN d.intents |->
                       IF d.intents[j].state = "executing"
                       THEN [d.intents[j] EXCEPT !.state = "unknown"] ELSE d.intents[j] ]
<1>1. e = [d EXCEPT !.intents = late] /\ DOMAIN d = StateFields
  BY DEF recover_interrupted_executions, SavedOK, StateOK
<1> HIDE DEF e, late
<1>2. e.intents = late
  BY <1>1 DEF StateFields
<1>3. i \in DOMAIN d.intents /\ d.intents[i].state # "executing"
  BY DEF StoppedIn, Waiting
<1>4. late[i] = d.intents[i] /\ DOMAIN late = DOMAIN d.intents
  BY <1>3 DEF late
<1>5. StoppedIn(e, i)
  BY <1>2, <1>3, <1>4 DEF StoppedIn
<1> QED BY <1>5 DEF e

LEMMA CaughtStays ==
  ASSUME ConstantsAssumption, BrokerInv, NEW i \in Intents, Caught(i),
         [BrokerNext]_brokerVars
  PROVE  Caught(i)'
<1>0. Stopped(i) /\ StoppedIn(disk, i) /\ submissions[i] = 0 /\ i \notin handed_off
  BY DEF Caught
<1>1. ASSUME [Next]_vars, snapshot' = memory,
             UNCHANGED << disk, submissions, handed_off >>
      PROVE  Caught(i)'
  BY <1>0, <1>1, StoppedStays, StoppedSaved DEF BrokerInv, MemoryInv, Caught
<1>2. CASE handle_persisted \/ reserve \/ \E j \in Intents : execute_handoff_command(j)
  <2>1. running = {}
    BY <1>2 DEF BrokerInv, PhaseInv, handle_persisted, reserve, execute_handoff_command, Idle
  <2>2. /\ Next /\ snapshot' = memory
        /\ UNCHANGED << disk, submissions, handed_off >>
    BY <1>2, <2>1 DEF handle_persisted, reserve, execute_handoff_command, Next, Call
  <2> QED BY <1>1, <2>2
<1>3. ASSUME NEW j \in Intents, record_outcome(j)
      PROVE  Caught(i)'
  <2>1. Next /\ phase # "idle" /\ UNCHANGED << disk, snapshot, submissions, handed_off >>
    BY <1>3 DEF record_outcome, Next
  <2> QED BY <1>0, <2>1, StoppedStays DEF BrokerInv, MemoryInv, Caught
<1>4. CASE SaveSucceeds
  <2>1. /\ disk' = memory /\ snapshot' = memory /\ UNCHANGED vars
    BY <1>4 DEF SaveSucceeds
  <2>2. intents[i].state # "executing"
    BY <1>0 DEF Stopped, Waiting
  <2>3. submissions'[i] = 0
    BY <1>0, <1>4, <2>2 DEF SaveSucceeds, BrokerInv, PhaseInv
  <2>4. i \notin handed_off'
    BY <1>0, <1>4, <2>2 DEF SaveSucceeds, InState
  <2>5. Stopped(i)' /\ StoppedIn(memory, i)
    BY <1>0, <2>1, StoppedSaved DEF Stopped, vars
  <2> QED BY <2>1, <2>3, <2>4, <2>5 DEF Caught
<1>5. CASE SaveFails
  <2>1. PICK kept \in {snapshot, memory} : Load(kept) /\ snapshot' = kept
    BY <1>5 DEF SaveFails
  <2>2. phase # "idle" /\ disk' \in {disk, memory} /\ UNCHANGED << submissions, handed_off >>
    BY <1>5 DEF SaveFails
  <2>3. StoppedIn(memory, i) /\ StoppedIn(snapshot, i)
    BY <1>0, <2>2, StoppedSaved DEF Caught
  <2> QED BY <1>0, <2>1, <2>2, <2>3, StoppedSaved DEF Caught
<1>6. CASE Restart
  <2> DEFINE e == recover_interrupted_executions(disk)
  <2>1. Load(e) /\ disk' = e /\ snapshot' = e /\ UNCHANGED << submissions, handed_off >>
    BY <1>6 DEF Restart
  <2>2. StoppedIn(e, i)
    BY <1>0, StoppedRecovered DEF BrokerInv
  <2> HIDE DEF e
  <2> QED BY <1>0, <2>1, <2>2, StoppedSaved DEF Caught
<1>7. ASSUME NEW j \in Intents, OwnerSubmits(j)
      PROVE  Caught(i)'
  <2>1. /\ j \in handed_off /\ handed_off' = handed_off \ {j}
        /\ submissions' = [submissions EXCEPT ![j] = @ + 1]
        /\ UNCHANGED << vars, disk, snapshot, phase >>
    BY <1>7 DEF OwnerSubmits
  <2>2. submissions'[i] = 0 /\ i \notin handed_off'
    BY <1>0, <2>1 DEF BrokerInv
  <2> QED BY <1>0, <2>1, <2>2 DEF Caught, Stopped, vars
<1>8. CASE BrokerTick
  <2>1. /\ Next /\ disk' = memory' /\ snapshot' = memory'
        /\ UNCHANGED << submissions, handed_off >>
    BY <1>8 DEF BrokerTick, Next
  <2>2. Stopped(i)'
    BY <1>0, <2>1, StoppedStays DEF BrokerInv, MemoryInv
  <2>3. memory'.intents = intents'
    BY DEF memory
  <2> QED BY <1>0, <2>1, <2>2, <2>3 DEF Caught, Stopped, StoppedIn
<1>9. CASE UNCHANGED brokerVars
  BY <1>0, <1>9 DEF Caught, Stopped, brokerVars, vars
<1> QED BY <1>2, <1>3, <1>4, <1>5, <1>6, <1>7, <1>8, <1>9 DEF BrokerNext

(* Once the owner's stop is on disk, a purchase that was waiting is never   *)
(* started or handed over, in whatever order saves fail, the process stops, *)
(* snapshots are restored and sessions are armed again: no state a process  *)
(* can load binds it to a session (owner_emergency_stop replaces them all). *)
THEOREM StopSurvives == BrokerSpec => StopIsDurable
<1> SUFFICES ASSUME NEW i \in Intents
             PROVE  BrokerSpec =>
                      []( (phase = "idle" /\ disk = memory /\ emergency_stop
                             /\ i \in InState(Waiting))
                            => [](/\ submissions[i] = 0 /\ i \notin handed_off
                                  /\ i \notin InState(Reserving)) )
  BY DEF StopIsDurable
<1>1. BrokerInv /\ [BrokerNext]_brokerVars => BrokerInv'
  BY ConstantsAssumption, BrokerStep
<1>2. BrokerInv /\ phase = "idle" /\ disk = memory /\ emergency_stop /\ i \in InState(Waiting)
        => Caught(i)
  <2> SUFFICES ASSUME BrokerInv, phase = "idle", disk = memory, emergency_stop,
                      i \in InState(Waiting)
               PROVE  Caught(i)
    OBVIOUS
  <2>1. Stopped(i)
    BY DEF BrokerInv, MemoryInv, StopUnbinds, Stopped, InState
  <2>2. HandedOnce(i) /\ intents[i].state \in Untouched
    BY DEF BrokerInv, InState, Untouched
  <2> QED BY <2>1, <2>2, StoppedSaved DEF Caught, HandedOnce, Handed
<1>3. BrokerInv /\ Caught(i) /\ [BrokerNext]_brokerVars => Caught(i)'
  BY ConstantsAssumption, CaughtStays
<1>4. Caught(i) => submissions[i] = 0 /\ i \notin handed_off /\ i \notin InState(Reserving)
  BY StateClasses DEF Caught, Stopped, InState
<1> QED BY <1>1, <1>2, <1>3, <1>4, BrokerInvInit, PTL DEF BrokerSpec
-----------------------------------------------------------------------------
(* Broker implements Handover.                                              *)

BegunIsStarted == Begun = { i \in Intents : StartedIn(disk, i) }

LEMMA BegunIs == BrokerInv => BegunIsStarted
BY DEF BegunIsStarted, Begun, StartedIn, Untouched, BrokerInv, SavedOK, StateOK

(* The same of the next state.                                              *)
LEMMA NextBegunIs == BrokerInv' => BegunIsStarted'
BY BegunIs, PTL

(* What was handed over is in the next record.                              *)
LEMMA HandedStays ==
  ASSUME BrokerInv', NEW new, \A i \in new : i \in Intents /\ StartedIn(disk, i)',
         \A i \in Intents : Handed(i) => Handed(i)'
  PROVE  Outbox!Record(new)
<1>1. \A i \in Intents : Handed(i) => StartedIn(disk, i)'
  BY DEF BrokerInv, HandedOnce
<1> QED BY <1>1, NextBegunIs DEF BegunIsStarted, Outbox!Record, Outbox!LetOut, Handed

LEMMA OutboxStep ==
  ASSUME ConstantsAssumption, BrokerInv, [BrokerNext]_brokerVars
  PROVE  [Outbox!HandoverNext]_(Outbox!handoverVars)
<1>1. BrokerInv'
  BY BrokerStep
<1>2. CASE UNCHANGED << submissions, handed_off >>
  <2>1. Outbox!Record({})
    BY <1>1, <1>2, HandedStays DEF Handed
  <2> QED BY <1>2, <2>1 DEF Outbox!Rerecord, Outbox!HandoverNext
<1>3. CASE SaveSucceeds
  <2>1. /\ disk' = memory /\ snapshot' = memory /\ UNCHANGED vars
        /\ submissions' = [ i \in Intents |->
             IF phase = "reserving" /\ i \in running THEN submissions[i] + 1
             ELSE submissions[i] ]
        /\ handed_off' = handed_off \cup
             { i \in InState({"executing"}) :
                 phase = "saving" /\ snapshot.intents[i].state = "approved" }
    BY <1>3 DEF SaveSucceeds
  <2>2. submissions \in [Intents -> Nat] /\ \A i \in Intents : HandedOnce(i)
    BY DEF BrokerInv
  <2>3. "executing" \notin Untouched /\ Executable \subseteq Untouched /\ "approved" \in Untouched
    BY DEF Untouched, Waiting, Executable
  <2>4. CASE phase = "reserving"
    <3>1. PICK i \in Intents :
             /\ running = {i} /\ intents[i].state = "executing"
             /\ i \in DOMAIN snapshot.intents /\ snapshot.intents[i].state \in Executable
      BY <2>4 DEF BrokerInv, PhaseInv
    <3>2. ~Handed(i) /\ submissions[i] = 0
      BY <2>2, <2>3, <3>1 DEF HandedOnce, StartedIn, Handed
    <3>3. submissions' = [submissions EXCEPT ![i] = 1] /\ handed_off' = handed_off
      <4>1. \A j \in Intents : submissions'[j] = IF j = i THEN 1 ELSE submissions[j]
        BY <2>1, <2>4, <3>1, <3>2
      <4>2. submissions' = [ j \in Intents |-> submissions'[j] ]
        BY <2>1
      <4>3. submissions' = [submissions EXCEPT ![i] = 1]
        BY <2>2, <4>1, <4>2
      <4>4. handed_off' = handed_off
        BY <2>1, <2>4
      <4> QED BY <4>3, <4>4
    <3>4. Handed(i)' /\ \A j \in Intents : Handed(j) => Handed(j)'
      BY <2>2, <3>3 DEF Handed
    <3>5. StartedIn(disk, i)'
      BY <1>1, <3>4 DEF BrokerInv, HandedOnce
    <3>6. Outbox!Record({i})
      BY <1>1, <3>4, <3>5, HandedStays
    <3> QED BY <3>2, <3>3, <3>6
            DEF Handed, Outbox!LetOut, Outbox!Submit, Outbox!HandoverNext
  <2>5. CASE phase # "reserving"
    <3>1. submissions' = submissions
      BY <2>1, <2>2, <2>5
    <3>2. CASE handed_off' = handed_off
      BY <1>2, <3>1, <3>2
    <3>3. CASE handed_off' # handed_off
      <4>1. PICK i \in InState({"executing"}) :
               i \notin handed_off /\ phase = "saving" /\ snapshot.intents[i].state = "approved"
        BY <2>1, <3>3
      <4>2. i \in Intents /\ Starts(i)
        BY <4>1, InDomain DEF Starts, InStateOf, BrokerInv, MemoryInv, TypeOK
      <4>3. \A j \in InState({"executing"}) : snapshot.intents[j].state = "approved" => j = i
        BY <4>1, <4>2 DEF Starts, InStateOf, BrokerInv, PhaseInv
      <4>4. handed_off' = handed_off \cup {i}
        BY <2>1, <4>1, <4>3
      <4>5. ~Handed(i)
        BY <2>2, <2>3, <4>1, <4>2 DEF HandedOnce, StartedIn, Handed
      <4>6. Handed(i)' /\ \A j \in Intents : Handed(j) => Handed(j)'
        BY <3>1, <4>4 DEF Handed
      <4>7. StartedIn(disk, i)'
        BY <1>1, <4>2, <4>6 DEF BrokerInv, HandedOnce
      <4>8. Outbox!Record({i})
        BY <1>1, <4>2, <4>6, <4>7, HandedStays
      <4> QED BY <3>1, <4>2, <4>4, <4>5, <4>8
              DEF Handed, Outbox!LetOut, Outbox!Offer, Outbox!HandoverNext
    <3> QED BY <3>2, <3>3
  <2> QED BY <2>4, <2>5
<1>4. ASSUME NEW i \in Intents, OwnerSubmits(i)
      PROVE  Outbox!SubmitOffered(i)
  <2>1. /\ i \in handed_off /\ handed_off' = handed_off \ {i}
        /\ submissions' = [submissions EXCEPT ![i] = @ + 1] /\ disk' = disk
    BY <1>4 DEF OwnerSubmits
  <2>2. submissions \in [Intents -> Nat] /\ submissions[i] = 0
    BY <2>1 DEF BrokerInv, HandedOnce
  <2>3. submissions' = [submissions EXCEPT ![i] = 1]
    BY <2>1, <2>2
  <2>4. Begun' = Begun
    BY <2>1 DEF Begun
  <2> QED BY <2>1, <2>2, <2>3, <2>4 DEF Outbox!SubmitOffered
<1>5. \/ UNCHANGED << submissions, handed_off >> \/ SaveSucceeds
      \/ \E i \in Intents : OwnerSubmits(i)
  BY DEF BrokerNext, brokerVars, handle_persisted, reserve, execute_handoff_command,
         record_outcome, SaveFails, Restart, BrokerTick
<1> QED BY <1>2, <1>3, <1>4, <1>5 DEF Outbox!HandoverNext

LEMMA OutboxInit == BrokerInit => Outbox!HandoverInit
<1> SUFFICES ASSUME BrokerInit PROVE Outbox!HandoverInit
  OBVIOUS
<1>1. disk = memory /\ DOMAIN intents = {} /\ handed_off = {}
      /\ submissions = [ i \in Intents |-> 0 ]
  BY DEF BrokerInit, Init
<1>2. Begun = {}
  BY <1>1, MemoryFields DEF Begun
<1> QED BY <1>1, <1>2 DEF Outbox!HandoverInit

(* Broker implements Handover: in whatever order calls, saves that fail     *)
(* before or after the rename, answers, crashes and restarts come, the      *)
(* state file records a purchase no later than it is let out, to its        *)
(* provider or to the owner, never forgets it after, and each is let out    *)
(* once (save_to before submit_once, in                                     *)
(* execute_controlled_checkout_persisted and handle_persisted).             *)
THEOREM BrokerImplements == BrokerSpec => ImplementsHandover
<1>1. BrokerInv /\ [BrokerNext]_brokerVars => BrokerInv'
  BY ConstantsAssumption, BrokerStep
<1>2. BrokerInv /\ [BrokerNext]_brokerVars =>
        [Outbox!HandoverNext]_(Outbox!handoverVars)
  BY ConstantsAssumption, OutboxStep
<1> QED BY <1>1, <1>2, BrokerInvInit, OutboxInit, PTL
        DEF BrokerSpec, ImplementsHandover, Outbox!HandoverSpec

=============================================================================
