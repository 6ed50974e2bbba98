--------------------------- MODULE DataDirectory ----------------------------
(***************************************************************************)
(* The data directory and the programs that use it: cixa init, cixa serve, *)
(* the owner commands, which talk to a running broker or open the          *)
(* directory themselves, and the dashboard's write_capability              *)
(* (apps/daemon/src/main.rs, apps/owner-dashboard/server.py).  A program   *)
(* can be killed between any two steps and the machine can lose power; an  *)
(* answer can come too late for the one who asked.  What a request does to *)
(* the treasury is Treasury's matter: here the state only records whose    *)
(* request was applied.                                                    *)
(***************************************************************************)
EXTENDS FiniteSets, Naturals

CONSTANTS
  Inits,        \* cixa init commands
  Commands,     \* owner commands: revoke-agent, update-policy and the like
  Creations,    \* cixa create-agent commands
  Dashboards,   \* dashboard requests that create an agent or rotate its capability
  daemon, none  \* model values

Clients == Commands \cup Creations \cup Dashboards
Activations == Creations \cup Dashboards
Programs == Inits \cup Clients \cup {daemon}

ASSUME ProgramAssumption ==
  /\ IsFiniteSet(Programs) /\ none \notin Programs
  /\ Cardinality(Programs)
       = Cardinality(Inits) + Cardinality(Commands) + Cardinality(Creations)
         + Cardinality(Dashboards) + 1

VARIABLES
  lock,       \* who holds cixa.lock
  key,        \* audit.key: the init that wrote it
  state,      \* state.json: the key that authenticates it, the requests applied
  unsynced,   \* states a power failure may bring back: their successor was not synced
  files,      \* the token file each init and each activation writes
  socket,     \* owner.sock exists
  pc,         \* where each program is
  memory,     \* the treasury each program has loaded
  inbox,      \* requests the daemon has received and not answered
  answer      \* what the daemon answered

disk == << key, state, unsynced, files >>
wire == << inbox, answer >>
directoryVars == << lock, disk, socket, pc, memory, wire >>

Absent == [ key |-> none, applied |-> {} ]
TreasuryFile == [ key : Inits, applied : SUBSET Clients ] \cup {Absent}
Ended == {"ok", "failed", "unreachable", "killed"}

TypeOK ==
  /\ lock \in Programs \cup {none}
  /\ key \in Inits \cup {none}
  /\ state \in TreasuryFile /\ unsynced \subseteq TreasuryFile
  /\ files \in [Inits \cup Activations -> {"none", "written", "durable"}]
  /\ socket \in BOOLEAN
  /\ \A i \in Inits : pc[i] \in {"start", "locked", "token", "key"} \cup Ended
  /\ \A c \in Clients : pc[c] \in {"start", "written", "prepared", "loaded", "waiting"} \cup Ended
  /\ pc[daemon] \in {"down", "loaded", "serving"}
  /\ memory \in [Clients \cup {daemon} -> TreasuryFile]
  /\ inbox \subseteq Clients
  /\ answer \in [Clients -> {"none", "ok", "error"}]

-----------------------------------------------------------------------------
(* Slip: nobody asks whether another writer has the lock.                   *)
acquire_shared(p) == lock' = p

(* DataDirLock::acquire, which does not wait.                               *)
acquire(p) == lock = none /\ lock' = p

(* The lock goes with its holder.                                           *)
Released(p) == lock' = IF lock = p THEN none ELSE lock

Goes(p, where) == pc' = [pc EXCEPT ![p] = where]
Fails(p) == Goes(p, "failed") /\ Released(p)

(* save_to: the new state replaces the old one and the directory is synced; *)
(* it fails before the replacement or, the sync failing, after it.          *)
save_to(new, saved) ==
  \/ saved /\ state' = new /\ unsynced' = {}
  \/ ~saved /\ UNCHANGED << state, unsynced >>
  \/ ~saved /\ state' = new /\ unsynced' = unsynced \cup {state}

-----------------------------------------------------------------------------
(* init_command.                                                            *)

init_locks(i) ==
  /\ pc[i] = "start"
  /\ \/ acquire(i) /\ state = Absent /\ Goes(i, "locked")
     \/ (lock # none \/ state # Absent) /\ Goes(i, "failed") /\ UNCHANGED lock
  /\ UNCHANGED << disk, socket, memory, wire >>

(* Slip: the owner's token is not synced.                                   *)
init_writes_token_unsynced(i) ==
  /\ pc[i] = "locked"
  /\ files' = [files EXCEPT ![i] = "written"] /\ Goes(i, "token")
  /\ UNCHANGED << lock, key, state, unsynced, socket, memory, wire >>

(* write_token, in a file that must be new.                                 *)
init_writes_token(i) ==
  /\ pc[i] = "locked"
  /\ \/ files' = [files EXCEPT ![i] = "durable"] /\ Goes(i, "token") /\ UNCHANGED lock
     \/ files' = [files EXCEPT ![i] = "written"] /\ Fails(i)
  /\ UNCHANGED << key, state, unsynced, socket, memory, wire >>

(* Slip: the key is left for later.                                         *)
init_forgets_key(i) ==
  /\ pc[i] = "token"
  /\ Goes(i, "key")
  /\ UNCHANGED << lock, disk, socket, memory, wire >>

(* save_to starts with the audit key: a new one is written, one that is     *)
(* already there is not this treasury's.                                    *)
init_saves_key(i) ==
  /\ pc[i] = "token"
  /\ \/ key = none /\ key' = i /\ Goes(i, "key") /\ UNCHANGED << lock, files >>
     \/ /\ key' \in (IF key = none THEN {none, i} ELSE {key})
        /\ files' = [files EXCEPT ![i] = "none"] /\ Fails(i)
  /\ UNCHANGED << state, unsynced, socket, memory, wire >>

(* The state follows; when it cannot be saved the token is removed.         *)
init_saves_state(i) ==
  /\ pc[i] = "key"
  /\ \E saved \in BOOLEAN :
       /\ save_to([ key |-> i, applied |-> {} ], saved)
       /\ IF saved THEN Goes(i, "ok") /\ UNCHANGED files
          ELSE Goes(i, "failed") /\ files' = [files EXCEPT ![i] = "none"]
  /\ Released(i)
  /\ UNCHANGED << key, socket, memory, wire >>

-----------------------------------------------------------------------------
(* serve_command.  The lock is held as long as the daemon lives; its        *)
(* sockets stay behind when it ends, whichever way.                         *)

(* load_from: the state must be there and be authenticated by the key.      *)
Loads(p) == state.key = key /\ state # Absent /\ memory' = [memory EXCEPT ![p] = state]

serve_loads ==
  /\ pc[daemon] = "down"
  /\ acquire(daemon) /\ Loads(daemon)
  /\ Goes(daemon, "loaded")
  /\ UNCHANGED << disk, socket, wire >>

bind_private_socket ==
  /\ pc[daemon] = "loaded"
  /\ socket' = TRUE
  /\ Goes(daemon, "serving")
  /\ UNCHANGED << lock, disk, memory, wire >>

(* handle_persisted for p's treasury: the request is refused or cannot be   *)
(* saved, and the memory is taken back, or it is applied.                   *)
handle_persisted(p, c, ok) ==
  LET new == [memory[p] EXCEPT !.applied = @ \cup {c}]
  IN /\ save_to(new, ok)
     /\ memory' = IF ok THEN [memory EXCEPT ![p] = new] ELSE memory

daemon_handles(c) ==
  /\ pc[daemon] = "serving" /\ c \in inbox
  /\ \E ok \in BOOLEAN :
       /\ handle_persisted(daemon, c, ok)
       /\ answer' = [answer EXCEPT ![c] = IF ok THEN "ok" ELSE "error"]
  /\ inbox' = inbox \ {c}
  /\ UNCHANGED << lock, key, files, socket, pc >>

-----------------------------------------------------------------------------
(* activate_with_prepared_token and write_capability: the token is on disk, *)
(* durably, before anyone is asked to activate it.                          *)

write_token(c) ==
  /\ pc[c] = "start"
  /\ files' = [files EXCEPT ![c] = "written"]
  /\ Goes(c, "written")
  /\ UNCHANGED << lock, key, state, unsynced, socket, memory, wire >>

sync_token(c) ==
  /\ pc[c] = "written"
  /\ files' = [files EXCEPT ![c] = "durable"]
  /\ Goes(c, "prepared")
  /\ UNCHANGED << lock, key, state, unsynced, socket, memory, wire >>

(* The write or a sync fails: the dashboard removes the file, the command   *)
(* leaves it.                                                               *)
prepare_fails(c) ==
  /\ pc[c] = "written"
  /\ files' = [files EXCEPT ![c] = IF c \in Dashboards THEN "none" ELSE @]
  /\ Goes(c, "failed")
  /\ UNCHANGED << lock, key, state, unsynced, socket, memory, wire >>

(* rpc_over_socket and call: a socket nobody listens on refuses.            *)
rpc_over_socket(c) ==
  /\ pc[c] = "prepared" /\ (socket \/ c \in Dashboards)
  /\ IF pc[daemon] = "serving"
     THEN inbox' = inbox \cup {c} /\ Goes(c, "waiting")
     ELSE Goes(c, "unreachable") /\ UNCHANGED inbox
  /\ UNCHANGED << lock, disk, socket, memory, answer >>

(* run_request without a socket: the command is its own broker.             *)
run_request(c) ==
  /\ pc[c] = "prepared" /\ ~socket /\ c \notin Dashboards
  /\ \/ acquire(c) /\ Loads(c) /\ Goes(c, "loaded")
     \/ /\ lock # none \/ state = Absent
        /\ Goes(c, "failed") /\ UNCHANGED << lock, memory >>
  /\ UNCHANGED << disk, socket, wire >>

run_request_handles(c) ==
  /\ pc[c] = "loaded"
  /\ \E ok \in BOOLEAN : handle_persisted(c, c, ok) /\ Goes(c, IF ok THEN "ok" ELSE "failed")
  /\ Released(c)
  /\ UNCHANGED << key, files, socket, wire >>

receive(c) ==
  /\ pc[c] = "waiting" /\ answer[c] # "none"
  /\ Goes(c, IF answer[c] = "ok" THEN "ok" ELSE "failed")
  /\ UNCHANGED << lock, disk, socket, memory, wire >>

(* Slip: the dashboard removes the token of an activation it gave up on.    *)
give_up_and_unlink(c) ==
  /\ pc[c] = "waiting"
  /\ files' = IF c \in Dashboards THEN [files EXCEPT ![c] = "none"] ELSE files
  /\ Goes(c, "failed")
  /\ UNCHANGED << lock, key, state, unsynced, socket, memory, wire >>

(* The read timeout, or the daemon closed the connection: the request may   *)
(* still be in front of the treasury, and the token stays.                  *)
give_up(c) ==
  /\ pc[c] = "waiting"
  /\ Goes(c, "failed")
  /\ UNCHANGED << lock, disk, socket, memory, wire >>

-----------------------------------------------------------------------------
(* Faults.                                                                  *)

Kill(p) ==
  /\ pc[p] \notin Ended \cup {"start", "down"}
  /\ Goes(p, IF p = daemon THEN "down" ELSE "killed")
  /\ Released(p)
  /\ inbox' = IF p = daemon THEN {} ELSE inbox
  /\ UNCHANGED << disk, socket, memory, answer >>

(* Files and renames that were not synced may be gone.                      *)
PowerFails ==
  /\ lock' = none /\ inbox' = {}
  /\ pc' = [ p \in Programs |-> IF p = daemon THEN "down"
                                ELSE IF pc[p] \in Ended \cup {"start"} THEN pc[p] ELSE "killed" ]
  /\ state' \in {state} \cup unsynced /\ unsynced' = {}
  /\ key' \in {key} \cup (IF state = Absent /\ unsynced = {} THEN {none} ELSE {})
  /\ files' \in { f \in [DOMAIN files -> {"none", "written", "durable"}] :
                    \A c \in DOMAIN files :
                      f[c] = files[c] \/ (files[c] = "written" /\ f[c] = "none") }
  /\ UNCHANGED << socket, memory, answer >>

-----------------------------------------------------------------------------
DirectoryInit ==
  /\ lock = none /\ key = none /\ state = Absent /\ unsynced = {}
  /\ files = [ p \in Inits \cup Activations |-> "none" ]
  /\ socket = FALSE
  /\ pc = [ p \in Programs |-> IF p = daemon THEN "down"
                               ELSE IF p \in Commands THEN "prepared" ELSE "start" ]
  /\ memory = [ p \in Clients \cup {daemon} |-> Absent ]
  /\ inbox = {} /\ answer = [ c \in Clients |-> "none" ]

init_command(i) ==
  init_locks(i) \/ init_writes_token(i) \/ init_saves_key(i) \/ init_saves_state(i)

prepare(c) == write_token(c) \/ sync_token(c) \/ prepare_fails(c)

request(c) ==
  \/ rpc_over_socket(c) \/ receive(c) \/ give_up(c)
  \/ run_request(c) \/ run_request_handles(c)

serve_command ==
  serve_loads \/ bind_private_socket \/ \E c \in Clients : daemon_handles(c)

DirectoryNext ==
  \/ \E i \in Inits : init_command(i)
  \/ \E c \in Activations : prepare(c)
  \/ \E c \in Clients : request(c)
  \/ serve_command
  \/ \E p \in Programs : Kill(p)
  \/ PowerFails

DirectorySpec == DirectoryInit /\ [][DirectoryNext]_directoryVars

-----------------------------------------------------------------------------
(* Properties.                                                              *)

(* The states a restart may find.                                           *)
Recoverable == {state} \cup unsynced

(* A state file is always authenticated by the key beside it: no init that  *)
(* was interrupted, failed or ran beside another leaves one that load_from  *)
(* refuses.                                                                 *)
StateHasItsKey == \A s \in Recoverable : s # Absent => s.key = key

(* A request whose answer was ok is in every state a restart may find: no   *)
(* other writer, with an older treasury in its memory, and no failed save   *)
(* after it takes it back.                                                  *)
AcknowledgedIsKept ==
  \A c \in Clients : pc[c] = "ok" => \A s \in Recoverable : c \in s.applied

(* "Cixa retains the named token file" (docs/deployment.md): a capability   *)
(* that a treasury on disk or in memory accepts, or still may come to       *)
(* accept, has its token in a file that survives a power failure; one whose *)
(* file was removed is never activated.                                     *)
ActiveTokenKept ==
  \A c \in Activations :
    \/ c \in inbox
    \/ \E s \in Recoverable \cup { memory[p] : p \in DOMAIN memory } : c \in s.applied
    => files[c] = "durable"

(* An initialised treasury has its owner's token, unless an init that       *)
(* replaced the state and could not sync the directory removed it.          *)
OwnerTokenKept ==
  \A i \in Inits : state.key = i /\ files[i] # "durable" => pc[i] = "failed"

=============================================================================
