------------------------------- MODULE Broker -------------------------------
(***************************************************************************)
(* The treasury with its state file: handle_persisted,                     *)
(* execute_controlled_checkout_persisted and                               *)
(* owner_execute_approved_handoff_persisted (crates/domain/src/lib.rs),    *)
(* the daemon's start and the one-shot owner command                       *)
(* (apps/daemon/src/main.rs).  A call works on the memory, then save_to    *)
(* replaces the file; a save can fail before or after the replacement, and *)
(* the process can stop between any two steps and start again from the     *)
(* file.  The treasury mutex is held from the call to the end of its last  *)
(* save, which `phase' follows.                                            *)
(***************************************************************************)
EXTENDS Treasury

VARIABLES
  disk,          \* the state file
  snapshot,      \* the memory before the call in progress
  phase,         \* where the call in progress is
  one_shot,      \* the process is an execute-handoff command, not the daemon
  submissions,   \* how often each purchase was handed to its provider (history)
  handed_off     \* purchases the owner holds begin-handoff facts for (history)

brokerVars == << vars, disk, snapshot, phase, one_shot, submissions, handed_off >>

(* TreasuryState, as save_to writes it.                                     *)
memory ==
  [ agents |-> agents, intents |-> intents, ledger |-> ledger,
    settled_24h |-> settled_24h, operator_topups |-> operator_topups,
    processed_deposits |-> processed_deposits, emergency_stop |-> emergency_stop,
    provider |-> provider, provider_mode |-> provider_mode,
    manual_provider |-> manual_provider ]

Load(state) ==
  /\ agents' = state.agents /\ intents' = state.intents
  /\ ledger' = state.ledger /\ settled_24h' = state.settled_24h
  /\ operator_topups' = state.operator_topups
  /\ processed_deposits' = state.processed_deposits
  /\ emergency_stop' = state.emergency_stop
  /\ provider' = state.provider /\ provider_mode' = state.provider_mode
  /\ manual_provider' = state.manual_provider

(* Slip: an interrupted execution is put back to be tried again.            *)
retry_interrupted_executions(state) ==
  [ state EXCEPT !.intents =
      [ i \in DOMAIN state.intents |->
          IF state.intents[i].state = "executing"
          THEN [state.intents[i] EXCEPT !.state = "approved"]
          ELSE state.intents[i] ] ]

(* Slip: the start puts the purchases into its agents' new sessions.        *)
recover_into_new_sessions(state) ==
  [ state EXCEPT !.intents =
      [ i \in DOMAIN state.intents |->
          [state.intents[i] EXCEPT
             !.bound = TRUE,
             !.state = IF @ = "executing" THEN "unknown" ELSE @] ] ]

(* recover_interrupted_executions: whatever was executing is unknown now.   *)
recover_interrupted_executions(state) ==
  [ state EXCEPT !.intents =
      [ i \in DOMAIN state.intents |->
          IF state.intents[i].state = "executing"
          THEN [state.intents[i] EXCEPT !.state = "unknown"]
          ELSE state.intents[i] ] ]

-----------------------------------------------------------------------------
BrokerInit ==
  /\ Init
  /\ disk = memory /\ snapshot = memory
  /\ phase = "idle" /\ one_shot = FALSE
  /\ submissions = [ i \in Intents |-> 0 ]
  /\ handed_off = {}

Idle == phase = "idle" /\ ~one_shot

(* handle_persisted: an ordinary call changes the memory.                   *)
handle_persisted ==
  /\ Idle /\ Handler
  /\ phase' = "saving" /\ snapshot' = memory
  /\ UNCHANGED << disk, one_shot, submissions, handed_off >>

(* Slip: the provider is called first and the reservation saved afterwards. *)
submit_before_saving ==
  /\ Idle /\ Execution
  /\ phase' = "submitting" /\ snapshot' = memory
  /\ submissions' = [ i \in Intents |->
       IF i \in running' THEN submissions[i] + 1 ELSE submissions[i] ]
  /\ UNCHANGED << disk, one_shot, handed_off >>

(* An execution reserves the funds in memory.                               *)
reserve ==
  /\ Idle /\ Execution
  /\ phase' = "reserving" /\ snapshot' = memory
  /\ UNCHANGED << disk, one_shot, submissions, handed_off >>

(* execute_handoff_command: the daemon is not running, the command has      *)
(* loaded the file and recovered it.                                        *)
execute_handoff_command(i) ==
  /\ Idle
  /\ memory = disk /\ InState({"executing"}) = {}
  /\ owner_execute_approved_handoff(i)
  /\ phase' = "reserving" /\ snapshot' = memory /\ one_shot' = TRUE
  /\ UNCHANGED << disk, submissions, handed_off >>

(* save_to succeeds.  After a reservation the provider is called at once;   *)
(* after begin_manual_handoff the owner gets the checkout facts.            *)
SaveSucceeds ==
  /\ phase \in {"saving", "reserving", "recording"}
  /\ disk' = memory /\ snapshot' = memory
  /\ phase' = IF phase = "reserving" THEN "submitting" ELSE "idle"
  /\ submissions' = [ i \in Intents |->
       IF phase = "reserving" /\ i \in running THEN submissions[i] + 1
       ELSE submissions[i] ]
  /\ handed_off' = handed_off \cup
       { i \in InState({"executing"}) :
           phase = "saving" /\ snapshot.intents[i].state = "approved" }
  /\ UNCHANGED << vars, one_shot >>

(* Slip: a controlled checkout is submitted although its save failed.       *)
SaveFails_but_submits ==
  /\ phase \in {"saving", "reserving", "recording"}
  /\ disk' \in {disk, memory}
  /\ LET submits == phase = "reserving" /\ provider_mode = "manual_prepaid_card"
         kept == IF phase # "recording" /\ ~submits THEN snapshot ELSE memory
     IN /\ Load(kept) /\ snapshot' = kept
        /\ running' = IF submits THEN running ELSE {}
        /\ phase' = IF submits THEN "submitting" ELSE "idle"
        /\ submissions' = [ i \in Intents |->
             IF submits /\ i \in running THEN submissions[i] + 1 ELSE submissions[i] ]
  /\ UNCHANGED << one_shot, handed_off >>

(* Slip: when the outcome cannot be saved only the intents are taken back.  *)
SaveFails_half_rolled_back ==
  /\ phase \in {"saving", "reserving", "recording"}
  /\ disk' \in {disk, memory}
  /\ LET kept == IF phase = "recording"
                 THEN [memory EXCEPT !.intents = snapshot.intents] ELSE snapshot
     IN Load(kept) /\ snapshot' = kept
  /\ running' = {}
  /\ phase' = "idle"
  /\ UNCHANGED << one_shot, submissions, handed_off >>

(* save_to fails, before or after the rename.  An ordinary call and a       *)
(* simulated execution take the memory back; a controlled checkout and an   *)
(* outcome already applied do not.                                          *)
SaveFails ==
  /\ phase \in {"saving", "reserving", "recording"}
  /\ disk' \in {disk, memory}
  /\ LET rolled_back ==
           phase = "saving" \/ (phase = "reserving" /\ provider_mode = "simulated")
         kept == IF rolled_back THEN snapshot ELSE memory
     IN Load(kept) /\ snapshot' = kept
  /\ running' = {}
  /\ phase' = "idle"
  /\ UNCHANGED << one_shot, submissions, handed_off >>

(* The provider's answer, applied to the memory.                            *)
record_outcome(i) ==
  /\ phase = "submitting"
  /\ complete_intent_execution(i)
  /\ phase' = "recording"
  /\ UNCHANGED << disk, snapshot, one_shot, submissions, handed_off >>

(* The owner submits the checkout once, in a browser of their own, at any   *)
(* time after begin_manual_handoff returned.                                *)
OwnerSubmits(i) ==
  /\ i \in handed_off
  /\ handed_off' = handed_off \ {i}
  /\ submissions' = [submissions EXCEPT ![i] = @ + 1]
  /\ UNCHANGED << vars, disk, snapshot, phase, one_shot >>

(* The process stops, at any moment, and a process starts from the file.    *)
Restart ==
  /\ LET state == recover_interrupted_executions(disk)
     IN Load(state) /\ disk' = state /\ snapshot' = state
  /\ running' = {} /\ phase' = "idle" /\ one_shot' = FALSE
  /\ UNCHANGED << submissions, handed_off >>

(* The clock; it stands still while the file and the memory differ.         *)
BrokerTick ==
  /\ Idle /\ disk = memory
  /\ Tick
  /\ disk' = memory' /\ snapshot' = memory'
  /\ UNCHANGED << phase, one_shot, submissions, handed_off >>

BrokerNext ==
  \/ handle_persisted \/ reserve
  \/ \E i \in Intents : execute_handoff_command(i) \/ record_outcome(i) \/ OwnerSubmits(i)
  \/ SaveSucceeds \/ SaveFails \/ Restart \/ BrokerTick

BrokerSpec == BrokerInit /\ [][BrokerNext]_brokerVars

-----------------------------------------------------------------------------
(* Properties.                                                              *)

(* A purchase is handed to a provider, by the broker's browser, by the      *)
(* owner's own or by the simulator, at most once: no failed save, crash,    *)
(* restart or retry leads back to an executable intent.                     *)
SubmittedAtMostOnce == \A i \in Intents : submissions[i] <= 1

(* "Durably synchronizes state before browser submission"                   *)
(* (docs/architecture.md): whatever the process loses, a purchase that was  *)
(* handed over is found on disk as one that must not be tried again.        *)
SubmissionIsDurable ==
  \A i \in Intents :
    (submissions[i] > 0 \/ i \in handed_off) =>
      /\ i \in DOMAIN disk.intents
      /\ disk.intents[i].state \notin Waiting \cup {"failed", "cancelled"}

(* The file is always one a restart can take over: its ledger, its receipts *)
(* and its provider's books match the states of its intents, they commit no *)
(* more than the owner gave, and the card covers what they reserve.         *)
DiskIsConsistent ==
  LET InDiskState(S) == { i \in DOMAIN disk.intents : disk.intents[i].state \in S }
      total == [ i \in DOMAIN disk.intents |-> disk.intents[i].request.final_total ]
  IN /\ \A i \in DOMAIN disk.intents :
          LET s == disk.intents[i].state
          IN /\ disk.ledger[i].hold_reserved - disk.ledger[i].hold_released
                  = (IF s \in Reserving THEN 1 ELSE 0)
             /\ disk.ledger[i].spending_settled
                  = (IF disk.intents[i].receipt THEN 1 ELSE 0)
             /\ i \in disk.provider.charges => s \in {"unknown", "settled", "refunded"}
             /\ i \in disk.provider.holds => s = "provider_pending"
     /\ Total(InDiskState(Reserving \cup {"settled"}), total)
          <= Capital + disk.operator_topups
     /\ disk.provider_mode = "manual_prepaid_card" =>
          disk.manual_provider.amount >= Total(InDiskState(Reserving), total)

(* The owner's stop survives what the process does not: once it is saved, a *)
(* purchase that was waiting is never started or handed over, whichever     *)
(* saves fail, the process stops, and sessions are armed again after it.    *)
StopIsDurable ==
  \A i \in Intents :
    []( (phase = "idle" /\ disk = memory /\ emergency_stop /\ i \in InState(Waiting))
          => [](/\ submissions[i] = 0 /\ i \notin handed_off
                /\ i \notin InState(Reserving)) )

-----------------------------------------------------------------------------
(* Broker implements Handover: what the file says has begun is recorded.    *)

Begun == { i \in DOMAIN disk.intents :
             disk.intents[i].state \notin
               Waiting \cup {"draft", "proposed", "failed", "cancelled"} }

Outbox == INSTANCE Handover
  WITH Purchases <- Intents, recorded <- Begun, offered <- handed_off

(* In whatever order calls, saves that fail before or after the rename,     *)
(* answers, crashes and restarts come, the record of a purchase comes       *)
(* before its submission and outlives it, and each goes out once.           *)
ImplementsHandover == Outbox!HandoverSpec

=============================================================================
