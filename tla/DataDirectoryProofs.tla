------------------------ MODULE DataDirectoryProofs -------------------------
(***************************************************************************)
(* Machine-checked proofs about DataDirectory, for any number of commands  *)
(* and dashboard requests: whatever is killed, fails, is answered too late *)
(* or loses power, the state file keeps its key, what was acknowledged is  *)
(* kept, and every capability and every treasury has its token.            *)
(*                                                                         *)
(* The argument is one of mutual exclusion.  Only the holder of cixa.lock  *)
(* has a treasury that may still reach the disk, so it is enough to know   *)
(* of that one what is known of the states on disk: both are `live'.       *)
(***************************************************************************)
EXTENDS DataDirectory, FiniteSetTheorems, TLAPS

(* A program that has loaded the treasury and may still save it.            *)
Active(p) ==
  \/ p \in Clients /\ pc[p] = "loaded"
  \/ p = daemon /\ pc[p] \in {"loaded", "serving"}

(* An init that has found no state and has not written one.                 *)
Initialising(i) == i \in Inits /\ pc[i] \in {"locked", "token", "key"}

(* A state a restart may find, or a later save may start from.              *)
Live(s) ==
  \/ s \in Recoverable
  \/ \E p \in Clients \cup {daemon} : Active(p) /\ s = memory[p]

(* A treasury on disk or in a memory has applied c's request, or the daemon *)
(* still may.                                                               *)
Accepted(c) ==
  \/ c \in inbox
  \/ \E s \in Recoverable : c \in s.applied
  \/ \E p \in Clients \cup {daemon} : c \in memory[p].applied

Acknowledged(c) == pc[c] = "ok" \/ answer[c] = "ok"

Places ==
  {"start", "locked", "token", "key", "written", "prepared", "loaded", "waiting",
   "down", "serving"} \cup Ended

Typed == TypeOK /\ pc \in [Programs -> Places]

Held == \A p \in Programs : Active(p) \/ Initialising(p) => lock = p

(* What an init under way relies on.                                        *)
NewDirectory ==
  /\ state = Absent => unsynced = {}
  /\ \A i \in Inits : Initialising(i) => state = Absent
  /\ \A i \in Inits : pc[i] = "key" => key = i

(* What a program that has the treasury relies on.                          *)
LoadedOnce == \A p \in Clients \cup {daemon} : Active(p) => memory[p] # Absent

KeyKept == \A s : Live(s) /\ s # Absent => s.key = key

AnswersKept == \A c \in Clients : Acknowledged(c) => \A s : Live(s) => c \in s.applied

OwnersKept ==
  /\ \A i \in Inits : \A s : Live(s) /\ s.key = i /\ files[i] # "durable" => pc[i] = "failed"
  /\ \A i \in Inits : pc[i] \in {"token", "key"} => files[i] = "durable"

TokensKept ==
  \A c \in Activations :
    /\ Accepted(c) => files[c] = "durable" /\ pc[c] \notin {"start", "written"}
    /\ pc[c] \in {"prepared", "loaded", "waiting"} => files[c] = "durable"

(* The inductive invariant.                                                 *)
DirectoryInv ==
  /\ Typed /\ Held /\ NewDirectory /\ LoadedOnce
  /\ KeyKept /\ AnswersKept /\ OwnersKept /\ TokensKept

-----------------------------------------------------------------------------
(* The kinds of program are disjoint: together they are as many as they are *)
(* apart.                                                                   *)
LEMMA Kinds ==
  /\ daemon \notin Inits \cup Clients
  /\ Inits \cap Clients = {}
  /\ Commands \cap Activations = {}
<1> DEFINE A == Inits \cup Commands
           B == Creations \cup Dashboards
           C == A \cup B
<1>1. /\ IsFiniteSet(Inits) /\ IsFiniteSet(Commands) /\ IsFiniteSet(Creations)
      /\ IsFiniteSet(Dashboards) /\ IsFiniteSet({daemon})
  BY ProgramAssumption, FS_Subset DEF Programs, Clients
<1>2. /\ IsFiniteSet(A)
      /\ Cardinality(A) = Cardinality(Inits) + Cardinality(Commands)
                            - Cardinality(Inits \cap Commands)
  BY <1>1, FS_Union
<1>3. /\ IsFiniteSet(B)
      /\ Cardinality(B) = Cardinality(Creations) + Cardinality(Dashboards)
                            - Cardinality(Creations \cap Dashboards)
  BY <1>1, FS_Union
<1> HIDE DEF A, B
<1>4. /\ IsFiniteSet(C)
      /\ Cardinality(C) = Cardinality(A) + Cardinality(B) - Cardinality(A \cap B)
  BY <1>2, <1>3, FS_Union
<1> HIDE DEF C
<1>5. Cardinality(C \cup {daemon}) = Cardinality(C) + 1 - Cardinality(C \cap {daemon})
  <2>1. Cardinality({daemon}) = 1
    BY FS_Singleton
  <2> QED BY <1>1, <1>4, <2>1, FS_Union
<1>6. Programs = C \cup {daemon}
  BY DEF Programs, Clients, A, B, C
<1>7. /\ IsFiniteSet(Inits \cap Commands) /\ IsFiniteSet(Creations \cap Dashboards)
      /\ IsFiniteSet(A \cap B) /\ IsFiniteSet(C \cap {daemon})
  BY <1>1, <1>2, <1>3, <1>4, FS_Intersection
<1>8. /\ Cardinality(Inits) \in Nat /\ Cardinality(Commands) \in Nat
      /\ Cardinality(Creations) \in Nat /\ Cardinality(Dashboards) \in Nat
      /\ Cardinality(A) \in Nat /\ Cardinality(B) \in Nat /\ Cardinality(C) \in Nat
      /\ Cardinality(Inits \cap Commands) \in Nat
      /\ Cardinality(Creations \cap Dashboards) \in Nat
      /\ Cardinality(A \cap B) \in Nat /\ Cardinality(C \cap {daemon}) \in Nat
  BY <1>1, <1>2, <1>3, <1>4, <1>7, FS_CardinalityType
<1>9. Cardinality(C \cup {daemon})
        = Cardinality(Inits) + Cardinality(Commands) + Cardinality(Creations)
            + Cardinality(Dashboards) + 1
  BY <1>6, ProgramAssumption
<1>10. /\ Cardinality(Inits \cap Commands) = 0
       /\ Cardinality(A \cap B) = 0 /\ Cardinality(C \cap {daemon}) = 0
  <2>1. ASSUME NEW i \in Nat, NEW c \in Nat, NEW n \in Nat, NEW d \in Nat,
               NEW ic \in Nat, NEW nd \in Nat, NEW ab \in Nat, NEW e \in Nat,
               ((i + c - ic) + (n + d - nd) - ab) + 1 - e = i + c + n + d + 1
        PROVE  ic = 0 /\ ab = 0 /\ e = 0
    BY <2>1
  <2>2. Cardinality(C \cup {daemon})
          = ((Cardinality(Inits) + Cardinality(Commands) - Cardinality(Inits \cap Commands))
               + (Cardinality(Creations) + Cardinality(Dashboards)
                    - Cardinality(Creations \cap Dashboards))
               - Cardinality(A \cap B)) + 1 - Cardinality(C \cap {daemon})
    BY <1>2, <1>3, <1>4, <1>5
  <2> QED BY <1>8, <1>9, <2>1, <2>2
<1>11. Inits \cap Commands = {} /\ A \cap B = {} /\ C \cap {daemon} = {}
  BY <1>7, <1>10, FS_EmptySet
<1> QED BY <1>11 DEF A, B, C, Clients, Activations

LEMMA DirectoryInvInit == DirectoryInit => DirectoryInv
<1> SUFFICES ASSUME DirectoryInit PROVE DirectoryInv
  OBVIOUS
<1>1. none \notin Programs
  BY ProgramAssumption
<1>2. Typed
  BY <1>1, Kinds DEF DirectoryInit, Typed, TypeOK, Places, Ended, Programs, Clients,
    Activations, TreasuryFile, Absent
<1>3. \A p \in Programs : ~Active(p) /\ ~Initialising(p)
  BY Kinds DEF DirectoryInit, Active, Initialising, Programs, Clients, Activations
<1>4. \A s : Live(s) => s = Absent
  BY <1>3 DEF Live, DirectoryInit, Recoverable, Programs
<1>5. Held /\ LoadedOnce /\ KeyKept
  BY <1>3, <1>4 DEF Held, LoadedOnce, KeyKept, Programs
<1>6. NewDirectory
  BY <1>3, Kinds DEF NewDirectory, DirectoryInit, Initialising, Programs, Clients, Activations
<1>7. AnswersKept
  BY Kinds DEF AnswersKept, Acknowledged, DirectoryInit, Programs, Clients
<1>8. OwnersKept
  BY <1>1, <1>4, Kinds DEF OwnersKept, Absent, DirectoryInit, Programs, Clients
<1>9. TokensKept
  <2>1. \A c \in Clients : ~Accepted(c)
    BY DEF Accepted, DirectoryInit, Recoverable, Absent
  <2> QED BY <2>1, Kinds DEF TokensKept, DirectoryInit, Programs, Clients, Activations
<1> QED BY <1>2, <1>5, <1>6, <1>7, <1>8, <1>9 DEF DirectoryInv
-----------------------------------------------------------------------------
(* The actions of DirectoryNext, one by one.                                *)
DirectoryAction ==
  \/ \E i \in Inits : \/ init_locks(i) \/ init_writes_token(i)
                      \/ init_saves_key(i) \/ init_saves_state(i)
  \/ \E c \in Activations : write_token(c) \/ sync_token(c) \/ prepare_fails(c)
  \/ \E c \in Clients : \/ rpc_over_socket(c) \/ receive(c) \/ give_up(c)
                        \/ run_request(c) \/ run_request_handles(c) \/ daemon_handles(c)
  \/ serve_loads \/ bind_private_socket
  \/ \E p \in Programs : Kill(p)
  \/ PowerFails

LEMMA DirectoryActions == DirectoryNext => DirectoryAction
  BY DEF DirectoryNext, DirectoryAction, init_command, prepare, request, serve_command

(* A save either replaces the state, and is acknowledged, or is not, and    *)
(* leaves the old state and perhaps the new one to be found.                *)
LEMMA Saving ==
  ASSUME NEW new, NEW saved \in BOOLEAN, save_to(new, saved)
  PROVE  /\ \A s : s \in Recoverable' => s \in Recoverable \/ s = new
         /\ saved => \A s : s \in Recoverable' => s = new
         /\ state' \in {state, new}
         /\ new # Absent /\ (state = Absent => unsynced = {})
              => (state' = Absent => unsynced' = {})
  BY DEF save_to, Recoverable

(* What handle_persisted does for a program that has loaded a treasury.     *)
Handled(p, c, ok) ==
  \E new \in TreasuryFile :
    /\ new # Absent
    /\ new.key = memory[p].key
    /\ new.applied = memory[p].applied \cup {c}
    /\ save_to(new, ok)
    /\ memory' \in [Clients \cup {daemon} -> TreasuryFile]
    /\ ok => memory'[p] = new
    /\ ~ok => memory' = memory
    /\ \A q \in Clients \cup {daemon} : q # p => memory'[q] = memory[q]

LEMMA Handling ==
  ASSUME Typed, LoadedOnce, NEW p \in Clients \cup {daemon}, Active(p),
         NEW c \in Clients, NEW ok \in BOOLEAN, handle_persisted(p, c, ok)
  PROVE  Handled(p, c, ok)
<1> DEFINE new == [memory[p] EXCEPT !.applied = @ \cup {c}]
<1>1. memory[p] \in [ key : Inits, applied : SUBSET Clients ]
  BY DEF Typed, TypeOK, LoadedOnce, TreasuryFile
<1>2. /\ new \in [ key : Inits, applied : SUBSET Clients ]
      /\ new.key = memory[p].key /\ new.applied = memory[p].applied \cup {c}
  BY <1>1
<1>3. none \notin Inits
  BY ProgramAssumption DEF Programs
<1>4. new # Absent /\ new \in TreasuryFile
  BY <1>2, <1>3 DEF Absent, TreasuryFile
<1>5. /\ save_to(new, ok)
      /\ memory' = IF ok THEN [memory EXCEPT ![p] = new] ELSE memory
  BY DEF handle_persisted
<1> HIDE DEF new
<1>6. memory \in [Clients \cup {daemon} -> TreasuryFile]
  BY DEF Typed, TypeOK
<1> QED BY <1>2, <1>4, <1>5, <1>6 DEF Handled

LEMMA TypedStep == DirectoryInv /\ DirectoryNext => Typed'
<1> SUFFICES ASSUME DirectoryInv, DirectoryAction PROVE Typed'
  BY DirectoryActions
<1>0. Typed /\ LoadedOnce /\ NewDirectory
  BY DEF DirectoryInv
<1> DEFINE T == Typed'
<1>1. ASSUME NEW i \in Inits, init_locks(i) PROVE T
  BY <1>0, <1>1, Kinds DEF init_locks, acquire, Goes, disk, wire, Typed, TypeOK, Places,
    Ended, Programs, Clients
<1>2. ASSUME NEW i \in Inits, init_writes_token(i) PROVE T
  BY <1>0, <1>2, Kinds DEF init_writes_token, Fails, Released, Goes, wire, Typed, TypeOK,
    Places, Ended, Programs, Clients
<1>3. ASSUME NEW i \in Inits, init_saves_key(i) PROVE T
  BY <1>0, <1>3, Kinds DEF init_saves_key, Fails, Released, Goes, wire, Typed, TypeOK,
    Places, Ended, Programs, Clients
<1>4. ASSUME NEW i \in Inits, init_saves_state(i) PROVE T
  <2> DEFINE new == [ key |-> i, applied |-> {} ]
  <2>1. new \in TreasuryFile
    BY DEF TreasuryFile
  <2> HIDE DEF new
  <2>2. PICK saved \in BOOLEAN :
          /\ save_to(new, saved)
          /\ IF saved THEN Goes(i, "ok") /\ UNCHANGED files
             ELSE Goes(i, "failed") /\ files' = [files EXCEPT ![i] = "none"]
    BY <1>4 DEF init_saves_state, new
  <2>3. state' \in TreasuryFile /\ unsynced' \subseteq TreasuryFile
    BY <1>0, <2>1, <2>2 DEF save_to, Typed, TypeOK
  <2> QED BY <1>0, <1>4, <2>2, <2>3, Kinds DEF init_saves_state, Released, Goes, wire, Typed,
    TypeOK, Places, Ended, Programs, Clients
<1>5. ASSUME NEW c \in Activations, write_token(c) \/ sync_token(c) \/ prepare_fails(c) PROVE T
  BY <1>0, <1>5, Kinds DEF write_token, sync_token, prepare_fails, Goes, wire, Typed, TypeOK,
    Places, Ended, Programs, Clients, Activations
<1>6. ASSUME NEW c \in Clients, rpc_over_socket(c) \/ receive(c) \/ give_up(c) PROVE T
  BY <1>0, <1>6, Kinds DEF rpc_over_socket, receive, give_up, Goes, disk, wire, Typed, TypeOK,
    Places, Ended, Programs, Clients
<1>7. ASSUME NEW c \in Clients, run_request(c) PROVE T
  BY <1>0, <1>7, Kinds DEF run_request, acquire, Loads, Goes, disk, wire, Typed, TypeOK,
    Places, Ended, Programs, Clients
<1>8. ASSUME NEW c \in Clients, run_request_handles(c) PROVE T
  <2>1. PICK ok \in BOOLEAN : handle_persisted(c, c, ok) /\ Goes(c, IF ok THEN "ok" ELSE "failed")
    BY <1>8 DEF run_request_handles
  <2>2. Active(c)
    BY <1>8 DEF run_request_handles, Active
  <2>3. PICK new \in TreasuryFile :
          save_to(new, ok) /\ memory' \in [Clients \cup {daemon} -> TreasuryFile]
    <3>1. Handled(c, c, ok)
      BY <1>0, <2>1, <2>2, Handling
    <3> QED BY <3>1 DEF Handled
  <2>4. state' \in TreasuryFile /\ unsynced' \subseteq TreasuryFile
    BY <1>0, <2>3 DEF save_to, Typed, TypeOK
  <2> QED BY <1>0, <1>8, <2>1, <2>3, <2>4, Kinds DEF run_request_handles, Released, Goes, wire,
    Typed, TypeOK, Places, Ended, Programs, Clients
<1>9. ASSUME NEW c \in Clients, daemon_handles(c) PROVE T
  <2>1. PICK ok \in BOOLEAN :
          /\ handle_persisted(daemon, c, ok)
          /\ answer' = [answer EXCEPT ![c] = IF ok THEN "ok" ELSE "error"]
    BY <1>9 DEF daemon_handles
  <2>2. daemon \in Clients \cup {daemon} /\ Active(daemon)
    BY <1>9 DEF daemon_handles, Active
  <2>3. PICK new \in TreasuryFile :
          save_to(new, ok) /\ memory' \in [Clients \cup {daemon} -> TreasuryFile]
    <3>1. Handled(daemon, c, ok)
      BY <1>0, <2>1, <2>2, Handling
    <3> QED BY <3>1 DEF Handled
  <2>4. state' \in TreasuryFile /\ unsynced' \subseteq TreasuryFile
    BY <1>0, <2>3 DEF save_to, Typed, TypeOK
  <2> QED BY <1>0, <1>9, <2>1, <2>3, <2>4 DEF daemon_handles, Typed, TypeOK
<1>10. ASSUME serve_loads \/ bind_private_socket PROVE T
  <2>1. CASE serve_loads
    <3>1. /\ lock' = daemon /\ pc' = [pc EXCEPT ![daemon] = "loaded"]
          /\ memory' = [memory EXCEPT ![daemon] = state]
      BY <2>1 DEF serve_loads, acquire, Loads, Goes
    <3> QED BY <1>0, <2>1, <3>1, Kinds DEF serve_loads, disk, wire, Typed, TypeOK, Places, Programs
  <2>2. CASE bind_private_socket
    BY <1>0, <2>2, Kinds DEF bind_private_socket, Goes, disk, wire, Typed, TypeOK, Places, Programs
  <2> QED BY <1>10, <2>1, <2>2
<1>11. ASSUME NEW p \in Programs, Kill(p) PROVE T
  BY <1>0, <1>11, Kinds DEF Kill, Released, Goes, disk, Typed, TypeOK, Places, Ended, Programs,
    Clients
<1>12. ASSUME PowerFails PROVE T
  BY <1>0, <1>12, Kinds DEF PowerFails, Typed, TypeOK, Places, Ended, Programs, Clients
<1> HIDE DEF T
<1>13. T
  BY <1>1, <1>2, <1>3, <1>4, <1>5, <1>6, <1>7, <1>8, <1>9, <1>10, <1>11, <1>12
    DEF DirectoryAction
<1> QED BY <1>13 DEF T
-----------------------------------------------------------------------------
(* Who is at work, and what there is to be found, after a step.             *)

(* A program takes the lock and loads the state of the directory.           *)
Begins(p) ==
  /\ lock = none /\ lock' = p
  /\ state # Absent /\ state.key = key
  /\ memory' = [memory EXCEPT ![p] = state]
  /\ UNCHANGED << disk, answer >>

(* At most one program has the treasury or is making one.                   *)
LEMMA OneHolder ==
  ASSUME Held, NEW p \in Programs, NEW q \in Programs,
         Active(p) \/ Initialising(p), Active(q) \/ Initialising(q)
  PROVE  p = q
  BY DEF Held

(* A program that has the treasury had it before, or has just loaded it.    *)
LEMMA ActiveStep ==
  ASSUME DirectoryInv, DirectoryAction, NEW p \in Clients \cup {daemon}, Active(p)'
  PROVE  Active(p) \/ Begins(p)
<1>0. pc \in [Programs -> Places] /\ p \in Programs
  BY DEF DirectoryInv, Typed, Programs
<1> DEFINE T == Active(p) \/ Begins(p)
<1>1. ASSUME NEW i \in Inits,
             init_locks(i) \/ init_writes_token(i) \/ init_saves_key(i) \/ init_saves_state(i)
      PROVE  T
  <2>1. pc' \in { [pc EXCEPT ![i] = s] : s \in Places }
    BY <1>1 DEF init_locks, init_writes_token, init_saves_key, init_saves_state, Goes, Fails,
      Places, Ended
  <2>2. pc'[p] = pc[p]
    BY <1>0, <2>1, Kinds DEF Clients
  <2> QED BY <2>2 DEF Active
<1>2. ASSUME NEW c \in Activations, write_token(c) \/ sync_token(c) \/ prepare_fails(c) PROVE T
  BY <1>0, <1>2, Kinds DEF write_token, sync_token, prepare_fails, Goes, Active, Programs,
    Clients, Activations
<1>3. ASSUME NEW c \in Clients, rpc_over_socket(c) \/ receive(c) \/ give_up(c) PROVE T
  BY <1>0, <1>3, Kinds DEF rpc_over_socket, receive, give_up, Goes, Active, Programs
<1>4. ASSUME NEW c \in Clients, run_request(c) PROVE T
  <2>1. CASE p = c /\ acquire(c) /\ Loads(c)
    BY <1>4, <2>1 DEF run_request, acquire, Loads, Begins, wire
  <2>2. CASE ~(p = c /\ acquire(c) /\ Loads(c))
    BY <1>0, <1>4, <2>2, Kinds DEF run_request, Goes, Active, Programs
  <2> QED BY <2>1, <2>2
<1>5. ASSUME NEW c \in Clients, run_request_handles(c) \/ daemon_handles(c) PROVE T
  BY <1>0, <1>5, Kinds DEF run_request_handles, daemon_handles, Goes, Active, Programs
<1>6. CASE serve_loads
  <2>1. CASE p = daemon
    BY <1>6, <2>1 DEF serve_loads, acquire, Loads, Begins, wire
  <2>2. CASE p # daemon
    BY <1>0, <1>6, <2>2 DEF serve_loads, Goes, Active
  <2> QED BY <2>1, <2>2
<1>7. CASE bind_private_socket
  BY <1>0, <1>7 DEF bind_private_socket, Goes, Active
<1>8. ASSUME NEW q \in Programs, Kill(q) PROVE T
  BY <1>0, <1>8 DEF Kill, Goes, Active
<1>9. CASE PowerFails
  BY <1>0, <1>9 DEF PowerFails, Active, Ended
<1> QED BY <1>1, <1>2, <1>3, <1>4, <1>5, <1>6, <1>7, <1>8, <1>9 DEF DirectoryAction

(* Init has begun with an empty directory, or was there already.            *)
LEMMA InitialisingStep ==
  ASSUME DirectoryInv, DirectoryAction, NEW i \in Inits, Initialising(i)'
  PROVE  \/ Initialising(i)
         \/ lock = none /\ lock' = i /\ state = Absent /\ pc'[i] = "locked" /\ UNCHANGED disk
<1>0. pc \in [Programs -> Places] /\ i \in Programs /\ i \notin Clients \cup {daemon}
  BY Kinds DEF DirectoryInv, Typed, Programs
<1> DEFINE T == Initialising(i) \/ init_locks(i)
<1>1. ASSUME NEW j \in Inits,
             init_locks(j) \/ init_writes_token(j) \/ init_saves_key(j) \/ init_saves_state(j)
      PROVE  T
  BY <1>0, <1>1 DEF init_locks, init_writes_token, init_saves_key, init_saves_state, Goes, Fails,
    Initialising
<1>2. ASSUME NEW c \in Activations, write_token(c) \/ sync_token(c) \/ prepare_fails(c) PROVE T
  BY <1>0, <1>2 DEF write_token, sync_token, prepare_fails, Goes, Initialising, Clients,
    Activations
<1>3. ASSUME NEW c \in Clients, rpc_over_socket(c) \/ receive(c) \/ give_up(c) PROVE T
  BY <1>0, <1>3 DEF rpc_over_socket, receive, give_up, Goes, Initialising
<1>4. ASSUME NEW c \in Clients, run_request(c) PROVE T
  BY <1>0, <1>4 DEF run_request, Goes, Initialising
<1>5. ASSUME NEW c \in Clients, run_request_handles(c) \/ daemon_handles(c) PROVE T
  BY <1>0, <1>5 DEF run_request_handles, daemon_handles, Goes, Initialising
<1>6. ASSUME serve_loads \/ bind_private_socket PROVE T
  BY <1>0, <1>6 DEF serve_loads, bind_private_socket, Goes, Initialising
<1>7. ASSUME NEW q \in Programs, Kill(q) PROVE T
  BY <1>0, <1>7 DEF Kill, Goes, Initialising
<1>8. ASSUME PowerFails PROVE T
  BY <1>0, <1>8 DEF PowerFails, Initialising, Ended
<1> HIDE DEF T
<1>9. T
  BY <1>1, <1>2, <1>3, <1>4, <1>5, <1>6, <1>7, <1>8 DEF DirectoryAction
<1>10. ASSUME init_locks(i), ~Initialising(i)
       PROVE  lock = none /\ lock' = i /\ state = Absent /\ pc'[i] = "locked" /\ UNCHANGED disk
  BY <1>0, <1>10 DEF init_locks, Goes, acquire, Initialising
<1> QED BY <1>9, <1>10 DEF T

(* The lock is let go by its holder only, and by one who is no longer at    *)
(* work.                                                                    *)
LEMMA LockStep ==
  ASSUME DirectoryInv, DirectoryAction, NEW p \in Programs,
         lock = p, Active(p) \/ Initialising(p), Active(p)' \/ Initialising(p)'
  PROVE  lock' = p
<1>0. pc \in [Programs -> Places] /\ none \notin Programs
  BY ProgramAssumption DEF DirectoryInv, Typed
<1>1. Inits \subseteq Programs /\ Clients \subseteq Programs /\ Activations \subseteq Clients
        /\ daemon \in Programs
  BY DEF Programs, Clients, Activations
<1> DEFINE T == lock' = p
<1>2. ASSUME NEW j \in Inits,
             init_locks(j) \/ init_writes_token(j) \/ init_saves_key(j) \/ init_saves_state(j)
      PROVE  T
  <2>1. CASE init_locks(j)
    BY <1>0, <2>1 DEF init_locks, acquire
  <2>2. CASE init_writes_token(j) \/ init_saves_key(j) \/ init_saves_state(j)
    BY <1>0, <1>1, <2>2, Kinds DEF init_writes_token, init_saves_key, init_saves_state, Goes,
      Fails, Released, Active, Initialising
  <2> QED BY <1>2, <2>1, <2>2
<1>3. ASSUME NEW c \in Activations, write_token(c) \/ sync_token(c) \/ prepare_fails(c) PROVE T
  BY <1>3 DEF write_token, sync_token, prepare_fails
<1>4. ASSUME NEW c \in Clients, rpc_over_socket(c) \/ receive(c) \/ give_up(c) PROVE T
  BY <1>4 DEF rpc_over_socket, receive, give_up
<1>5. ASSUME NEW c \in Clients, run_request(c) PROVE T
  BY <1>0, <1>5 DEF run_request, acquire
<1>6. ASSUME NEW c \in Clients, run_request_handles(c) \/ daemon_handles(c) PROVE T
  BY <1>0, <1>1, <1>6, Kinds DEF run_request_handles, daemon_handles, Goes, Released, Active,
    Initialising
<1>7. CASE serve_loads \/ bind_private_socket
  BY <1>0, <1>7 DEF serve_loads, bind_private_socket, acquire
<1>8. ASSUME NEW q \in Programs, Kill(q) PROVE T
  BY <1>0, <1>8, Kinds DEF Kill, Goes, Released, Active, Initialising, Ended
<1>9. CASE PowerFails
  BY <1>0, <1>1, <1>9, Kinds DEF PowerFails, Active, Initialising, Ended
<1> QED BY <1>2, <1>3, <1>4, <1>5, <1>6, <1>7, <1>8, <1>9 DEF DirectoryAction

LEMMA HeldStep == DirectoryInv /\ DirectoryNext => Held'
<1> SUFFICES ASSUME DirectoryInv, DirectoryAction, NEW p \in Programs,
                    Active(p)' \/ Initialising(p)'
             PROVE  lock' = p
  BY DirectoryActions DEF Held
<1>1. CASE Active(p) \/ Initialising(p)
  <2>1. lock = p
    BY <1>1 DEF DirectoryInv, Held
  <2> QED BY <1>1, <2>1, LockStep
<1>2. CASE ~(Active(p) \/ Initialising(p))
  <2>1. CASE Active(p)'
    <3>1. p \in Clients \cup {daemon}
      BY <2>1 DEF Active
    <3>2. Begins(p)
      BY <1>2, <2>1, <3>1, ActiveStep
    <3> QED BY <3>2 DEF Begins
  <2>2. CASE Initialising(p)'
    <3>1. p \in Inits
      BY <2>2 DEF Initialising
    <3> QED BY <1>2, <2>2, <3>1, InitialisingStep
  <2> QED BY <2>1, <2>2
<1> QED BY <1>1, <1>2
-----------------------------------------------------------------------------
(* What there is to be found after a step.                                  *)

(* The empty treasury an init writes, and a treasury with one more request  *)
(* in it, written by the one who had it in memory.                          *)
Made(s) ==
  \E i \in Inits : pc[i] = "key" /\ s = [ key |-> i, applied |-> {} ]

Grown(s) ==
  \E p \in Clients \cup {daemon}, c \in Clients :
    /\ Active(p) /\ (c \in inbox \/ pc[c] = "loaded")
    /\ s # Absent /\ s.key = memory[p].key /\ s.applied = memory[p].applied \cup {c}

LEMMA RecoverableStep ==
  ASSUME DirectoryInv, DirectoryAction, NEW s, s \in Recoverable'
  PROVE  s \in Recoverable \/ Made(s) \/ Grown(s)
<1>0. Typed /\ LoadedOnce
  BY DEF DirectoryInv
<1> DEFINE T == s \in Recoverable \/ Made(s) \/ Grown(s)
<1>1. ASSUME NEW i \in Inits, init_locks(i) \/ init_writes_token(i) \/ init_saves_key(i) PROVE T
  BY <1>1 DEF init_locks, init_writes_token, init_saves_key, disk, Recoverable
<1>2. ASSUME NEW i \in Inits, init_saves_state(i) PROVE T
  <2> DEFINE new == [ key |-> i, applied |-> {} ]
  <2>1. PICK saved \in BOOLEAN : save_to(new, saved)
    BY <1>2 DEF init_saves_state
  <2>2. s \in Recoverable \/ s = new
    BY <2>1, Saving
  <2> QED BY <1>2, <2>2 DEF Made, init_saves_state
<1>3. ASSUME NEW c \in Activations, write_token(c) \/ sync_token(c) \/ prepare_fails(c) PROVE T
  BY <1>3 DEF write_token, sync_token, prepare_fails, Recoverable
<1>4. ASSUME NEW c \in Clients, rpc_over_socket(c) \/ receive(c) \/ give_up(c) \/ run_request(c)
      PROVE  T
  BY <1>4 DEF rpc_over_socket, receive, give_up, run_request, disk, Recoverable
<1>5. ASSUME NEW p \in Clients \cup {daemon}, Active(p), NEW c \in Clients, NEW ok \in BOOLEAN,
             handle_persisted(p, c, ok), c \in inbox \/ pc[c] = "loaded"
      PROVE  T
  <2>1. Handled(p, c, ok)
    BY <1>0, <1>5, Handling
  <2>2. PICK new \in TreasuryFile :
          /\ new # Absent
          /\ new.key = memory[p].key /\ new.applied = memory[p].applied \cup {c}
          /\ save_to(new, ok)
    BY <2>1 DEF Handled
  <2>3. s \in Recoverable \/ s = new
    BY <2>2, Saving
  <2> QED BY <1>5, <2>2, <2>3 DEF Grown
<1>6. ASSUME NEW c \in Clients, run_request_handles(c) PROVE T
  <2>1. PICK ok \in BOOLEAN : handle_persisted(c, c, ok)
    BY <1>6 DEF run_request_handles
  <2>2. Active(c) /\ pc[c] = "loaded"
    BY <1>6 DEF run_request_handles, Active
  <2> QED BY <1>5, <2>1, <2>2
<1>7. ASSUME NEW c \in Clients, daemon_handles(c) PROVE T
  <2>1. PICK ok \in BOOLEAN : handle_persisted(daemon, c, ok)
    BY <1>7 DEF daemon_handles
  <2>2. Active(daemon) /\ c \in inbox
    BY <1>7 DEF daemon_handles, Active
  <2> QED BY <1>5, <2>1, <2>2
<1>8. ASSUME serve_loads \/ bind_private_socket PROVE T
  BY <1>8 DEF serve_loads, bind_private_socket, disk, Recoverable
<1>9. ASSUME NEW q \in Programs, Kill(q) PROVE T
  BY <1>9 DEF Kill, disk, Recoverable
<1>10. ASSUME PowerFails PROVE T
  BY <1>10 DEF PowerFails, Recoverable
<1> HIDE DEF T
<1>11. T
  BY <1>1, <1>2, <1>3, <1>4, <1>6, <1>7, <1>8, <1>9, <1>10 DEF DirectoryAction
<1> QED BY <1>11 DEF T

LEMMA MemoryStep ==
  ASSUME DirectoryInv, DirectoryAction, NEW p \in Clients \cup {daemon}
  PROVE  \/ memory'[p] = memory[p]
         \/ memory'[p] = state /\ state # Absent
         \/ Grown(memory'[p])
<1>0. /\ Typed /\ LoadedOnce
      /\ memory \in [Clients \cup {daemon} -> TreasuryFile]
  BY DEF DirectoryInv, Typed, TypeOK
<1> DEFINE T == \/ memory'[p] = memory[p]
                \/ memory'[p] = state /\ state # Absent
                \/ Grown(memory'[p])
<1>1. ASSUME NEW i \in Inits,
             init_locks(i) \/ init_writes_token(i) \/ init_saves_key(i) \/ init_saves_state(i)
      PROVE  T
  BY <1>1 DEF init_locks, init_writes_token, init_saves_key, init_saves_state
<1>2. ASSUME NEW c \in Activations, write_token(c) \/ sync_token(c) \/ prepare_fails(c) PROVE T
  BY <1>2 DEF write_token, sync_token, prepare_fails
<1>3. ASSUME NEW c \in Clients, rpc_over_socket(c) \/ receive(c) \/ give_up(c) PROVE T
  BY <1>3 DEF rpc_over_socket, receive, give_up
<1>4. ASSUME NEW c \in Clients, run_request(c) PROVE T
  BY <1>0, <1>4 DEF run_request, Loads
<1>5. ASSUME NEW q \in Clients \cup {daemon}, Active(q), NEW c \in Clients, NEW ok \in BOOLEAN,
             handle_persisted(q, c, ok), c \in inbox \/ pc[c] = "loaded"
      PROVE  T
  <2>1. Handled(q, c, ok)
    BY <1>0, <1>5, Handling
  <2>2. PICK new \in TreasuryFile :
          /\ new # Absent
          /\ new.key = memory[q].key /\ new.applied = memory[q].applied \cup {c}
          /\ ok => memory'[q] = new
          /\ ~ok => memory' = memory
          /\ \A r \in Clients \cup {daemon} : r # q => memory'[r] = memory[r]
    BY <2>1 DEF Handled
  <2>3. CASE p = q /\ ok
    <3>1. Grown(new)
      BY <1>5, <2>2 DEF Grown
    <3> QED BY <2>2, <2>3, <3>1
  <2>4. CASE p # q \/ ~ok
    BY <2>2, <2>4
  <2> QED BY <2>3, <2>4
<1>6. ASSUME NEW c \in Clients, run_request_handles(c) PROVE T
  <2>1. PICK ok \in BOOLEAN : handle_persisted(c, c, ok)
    BY <1>6 DEF run_request_handles
  <2>2. Active(c) /\ pc[c] = "loaded"
    BY <1>6 DEF run_request_handles, Active
  <2> HIDE DEF T
  <2> QED BY <1>5, <2>1, <2>2
<1>7. ASSUME NEW c \in Clients, daemon_handles(c) PROVE T
  <2>1. PICK ok \in BOOLEAN : handle_persisted(daemon, c, ok)
    BY <1>7 DEF daemon_handles
  <2>2. Active(daemon) /\ c \in inbox
    BY <1>7 DEF daemon_handles, Active
  <2> HIDE DEF T
  <2> QED BY <1>5, <2>1, <2>2
<1>8. ASSUME serve_loads \/ bind_private_socket PROVE T
  BY <1>0, <1>8 DEF serve_loads, bind_private_socket, Loads
<1>9. ASSUME NEW q \in Programs, Kill(q) PROVE T
  BY <1>9 DEF Kill
<1>10. ASSUME PowerFails PROVE T
  BY <1>10 DEF PowerFails
<1> HIDE DEF T
<1>11. T
  BY <1>1, <1>2, <1>3, <1>4, <1>6, <1>7, <1>8, <1>9, <1>10 DEF DirectoryAction
<1> QED BY <1>11 DEF T

LEMMA LiveStep ==
  ASSUME DirectoryInv, DirectoryAction, NEW s, Live(s)'
  PROVE  Live(s) \/ Made(s) \/ Grown(s)
<1>1. CASE s \in Recoverable'
  BY <1>1, RecoverableStep DEF Live
<1>2. ASSUME NEW p \in Clients \cup {daemon}, Active(p)', s = memory'[p]
      PROVE  Live(s) \/ Made(s) \/ Grown(s)
  <2>1. CASE Begins(p)
    <3>1. s = state
      BY <1>2, <2>1 DEF Begins, DirectoryInv, Typed, TypeOK
    <3> QED BY <3>1 DEF Live, Recoverable
  <2>2. CASE Active(p)
    <3>1. s = memory[p] \/ s = state \/ Grown(s)
      BY <1>2, MemoryStep
    <3> QED BY <2>2, <3>1 DEF Live, Recoverable
  <2> QED BY <1>2, <2>1, <2>2, ActiveStep
<1> QED BY <1>1, <1>2 DEF Live
-----------------------------------------------------------------------------
(* The parts of the invariant, one by one.                                  *)

(* The first state is written by the init whose key it carries, and once    *)
(* there is one there is no way back.                                       *)
LEMMA NoWayBack ==
  ASSUME DirectoryInv, DirectoryAction, state' = Absent
  PROVE  unsynced' = {} /\ (state = Absent \/ PowerFails)
<1>0. /\ Typed /\ LoadedOnce /\ (state = Absent => unsynced = {})
      /\ none \notin Inits
  BY ProgramAssumption DEF DirectoryInv, NewDirectory, Programs
<1> DEFINE T == unsynced' = {} /\ (state = Absent \/ PowerFails)
<1>1. ASSUME NEW i \in Inits, init_locks(i) \/ init_writes_token(i) \/ init_saves_key(i) PROVE T
  BY <1>0, <1>1 DEF init_locks, init_writes_token, init_saves_key, disk
<1>2. ASSUME NEW i \in Inits, init_saves_state(i) PROVE T
  <2> DEFINE new == [ key |-> i, applied |-> {} ]
  <2>1. PICK saved \in BOOLEAN : save_to(new, saved)
    BY <1>2 DEF init_saves_state
  <2>2. new # Absent
    BY <1>0 DEF Absent
  <2> HIDE DEF new
  <2> QED BY <1>0, <2>1, <2>2 DEF save_to
<1>3. ASSUME NEW c \in Activations, write_token(c) \/ sync_token(c) \/ prepare_fails(c) PROVE T
  BY <1>0, <1>3 DEF write_token, sync_token, prepare_fails
<1>4. ASSUME NEW c \in Clients, rpc_over_socket(c) \/ receive(c) \/ give_up(c) \/ run_request(c)
      PROVE  T
  BY <1>0, <1>4 DEF rpc_over_socket, receive, give_up, run_request, disk
<1>5. ASSUME NEW p \in Clients \cup {daemon}, Active(p), NEW c \in Clients, NEW ok \in BOOLEAN,
             handle_persisted(p, c, ok)
      PROVE  T
  <2>1. Handled(p, c, ok)
    BY <1>0, <1>5, Handling
  <2>2. PICK new \in TreasuryFile : new # Absent /\ save_to(new, ok)
    BY <2>1 DEF Handled
  <2> QED BY <1>0, <2>2 DEF save_to
<1>6. ASSUME NEW c \in Clients, run_request_handles(c) PROVE T
  <2>1. PICK ok \in BOOLEAN : handle_persisted(c, c, ok)
    BY <1>6 DEF run_request_handles
  <2>2. Active(c)
    BY <1>6 DEF run_request_handles, Active
  <2> HIDE DEF T
  <2> QED BY <1>5, <2>1, <2>2
<1>7. ASSUME NEW c \in Clients, daemon_handles(c) PROVE T
  <2>1. PICK ok \in BOOLEAN : handle_persisted(daemon, c, ok)
    BY <1>7 DEF daemon_handles
  <2>2. Active(daemon)
    BY <1>7 DEF daemon_handles, Active
  <2> HIDE DEF T
  <2> QED BY <1>5, <2>1, <2>2
<1>8. ASSUME serve_loads \/ bind_private_socket PROVE T
  BY <1>0, <1>8 DEF serve_loads, bind_private_socket, disk
<1>9. ASSUME NEW q \in Programs, Kill(q) PROVE T
  BY <1>0, <1>9 DEF Kill, disk
<1>10. ASSUME PowerFails PROVE T
  BY <1>10 DEF PowerFails
<1> HIDE DEF T
<1>11. T
  BY <1>1, <1>2, <1>3, <1>4, <1>6, <1>7, <1>8, <1>9, <1>10 DEF DirectoryAction
<1> QED BY <1>11 DEF T

(* No program has the treasury while init is under way.                     *)
LEMMA NobodyActive ==
  ASSUME DirectoryInv, NEW i \in Inits, Initialising(i)
  PROVE  \A s : Live(s) => s = Absent
<1>1. state = Absent /\ unsynced = {}
  BY DEF DirectoryInv, NewDirectory
<1>2. \A p \in Clients \cup {daemon} : ~Active(p)
  BY OneHolder, Kinds DEF DirectoryInv, Programs
<1> QED BY <1>1, <1>2 DEF Live, Recoverable

(* The key changes only while there is no treasury to lose.                 *)
LEMMA KeyStep ==
  ASSUME DirectoryInv, DirectoryAction
  PROVE  key' = key \/ \A s : Live(s)' => s = Absent
<1>0. pc \in [Programs -> Places] /\ none \notin Inits
  BY ProgramAssumption DEF DirectoryInv, Typed, Programs
<1> DEFINE T == key' = key \/ \A s : Live(s)' => s = Absent
<1>1. ASSUME NEW i \in Inits, init_saves_key(i) PROVE T
  <2>1. Initialising(i) /\ pc[i] = "token"
    BY <1>1 DEF init_saves_key, Initialising
  <2>2. \A s : Live(s) => s = Absent
    BY <2>1, NobodyActive
  <2>3. \A s : ~Grown(s)
    BY <2>1, OneHolder, Kinds DEF Grown, DirectoryInv, Programs
  <2>4. \A s : ~Made(s)
    <3> SUFFICES ASSUME NEW j \in Inits, pc[j] = "key" PROVE FALSE
      BY DEF Made
    <3>1. Initialising(j)
      BY DEF Initialising
    <3>2. i = j
      BY <2>1, <3>1, OneHolder DEF DirectoryInv, Programs
    <3> QED BY <2>1, <3>2
  <2> QED BY <2>2, <2>3, <2>4, LiveStep
<1>2. ASSUME PowerFails PROVE T
  <2>1. \A p \in Clients \cup {daemon} : ~Active(p)'
    BY <1>2, Kinds DEF PowerFails, Active, Ended, Programs
  <2>2. CASE state = Absent /\ unsynced = {}
    BY <1>2, <2>1, <2>2 DEF PowerFails, Live, Recoverable
  <2>3. CASE ~(state = Absent /\ unsynced = {})
    BY <1>2, <2>3 DEF PowerFails
  <2> QED BY <2>2, <2>3
<1>3. ASSUME NEW i \in Inits, init_locks(i) \/ init_writes_token(i) \/ init_saves_state(i) PROVE T
  BY <1>3 DEF init_locks, init_writes_token, init_saves_state, disk
<1>4. ASSUME NEW c \in Activations, write_token(c) \/ sync_token(c) \/ prepare_fails(c) PROVE T
  BY <1>4 DEF write_token, sync_token, prepare_fails
<1>5. ASSUME NEW c \in Clients, rpc_over_socket(c) \/ receive(c) \/ give_up(c) \/ run_request(c)
                                  \/ run_request_handles(c) \/ daemon_handles(c)
      PROVE  T
  BY <1>5 DEF rpc_over_socket, receive, give_up, run_request, run_request_handles, daemon_handles,
    disk
<1>6. ASSUME serve_loads \/ bind_private_socket PROVE T
  BY <1>6 DEF serve_loads, bind_private_socket, disk
<1>7. ASSUME NEW q \in Programs, Kill(q) PROVE T
  BY <1>7 DEF Kill, disk
<1> HIDE DEF T
<1>8. T
  BY <1>1, <1>2, <1>3, <1>4, <1>5, <1>6, <1>7 DEF DirectoryAction
<1> QED BY <1>8 DEF T

LEMMA KeyKeptStep == DirectoryInv /\ DirectoryNext => KeyKept'
<1> SUFFICES ASSUME DirectoryInv, DirectoryAction, NEW s, Live(s)', s # Absent
             PROVE  s.key = key'
  BY DirectoryActions DEF KeyKept
<1>1. key' = key
  BY KeyStep
<1>2. CASE Live(s)
  BY <1>1, <1>2 DEF DirectoryInv, KeyKept
<1>3. CASE Made(s)
  BY <1>1, <1>3 DEF Made, DirectoryInv, NewDirectory
<1>4. CASE Grown(s)
  <2>1. PICK p \in Clients \cup {daemon} : Active(p) /\ s.key = memory[p].key
    BY <1>4 DEF Grown
  <2>2. Live(memory[p]) /\ memory[p] # Absent
    BY <2>1 DEF Live, DirectoryInv, LoadedOnce
  <2> QED BY <1>1, <2>1, <2>2 DEF DirectoryInv, KeyKept
<1> QED BY <1>2, <1>3, <1>4, LiveStep

LEMMA LoadedOnceStep == DirectoryInv /\ DirectoryNext => LoadedOnce'
<1> SUFFICES ASSUME DirectoryInv, DirectoryAction, NEW p \in Clients \cup {daemon}, Active(p)'
             PROVE  memory'[p] # Absent
  BY DirectoryActions DEF LoadedOnce
<1>1. CASE Begins(p)
  BY <1>1 DEF Begins, DirectoryInv, Typed, TypeOK
<1>2. CASE Active(p)
  <2>1. memory[p] # Absent
    BY <1>2 DEF DirectoryInv, LoadedOnce
  <2> QED BY <2>1, MemoryStep DEF Grown
<1> QED BY <1>1, <1>2, ActiveStep
(* Who changes the state, and who the key.                                  *)
LEMMA WhoSaves ==
  ASSUME DirectoryAction
  PROVE  /\ \/ state' = state \/ PowerFails
            \/ \E i \in Inits : init_saves_state(i)
            \/ \E p \in Clients \cup {daemon} : Active(p)
         /\ key' = key \/ PowerFails \/ \E i \in Inits : init_saves_key(i)
<1>1. ASSUME NEW i \in Inits,
             init_locks(i) \/ init_writes_token(i) \/ init_saves_key(i) \/ init_saves_state(i)
      PROVE  /\ state' = state \/ init_saves_state(i)
             /\ key' = key \/ init_saves_key(i)
  BY <1>1 DEF init_locks, init_writes_token, init_saves_key, init_saves_state, disk
<1>2. ASSUME NEW c \in Activations, write_token(c) \/ sync_token(c) \/ prepare_fails(c)
      PROVE  UNCHANGED << state, key >>
  BY <1>2 DEF write_token, sync_token, prepare_fails
<1>3. ASSUME NEW c \in Clients, rpc_over_socket(c) \/ receive(c) \/ give_up(c) \/ run_request(c)
      PROVE  UNCHANGED << state, key >>
  BY <1>3 DEF rpc_over_socket, receive, give_up, run_request, disk
<1>4. ASSUME NEW c \in Clients, run_request_handles(c) \/ daemon_handles(c)
      PROVE  key' = key /\ \E p \in Clients \cup {daemon} : Active(p)
  BY <1>4 DEF run_request_handles, daemon_handles, Active
<1>5. ASSUME serve_loads \/ bind_private_socket PROVE UNCHANGED << state, key >>
  BY <1>5 DEF serve_loads, bind_private_socket, disk
<1>6. ASSUME NEW q \in Programs, Kill(q) PROVE UNCHANGED << state, key >>
  BY <1>6 DEF Kill, disk
<1> QED BY <1>1, <1>2, <1>3, <1>4, <1>5, <1>6 DEF DirectoryAction

LEMMA NewDirectoryStep == DirectoryInv /\ DirectoryNext => NewDirectory'
<1> SUFFICES ASSUME DirectoryInv, DirectoryAction PROVE NewDirectory'
  BY DirectoryActions
<1>0. pc \in [Programs -> Places] /\ Inits \subseteq Programs /\ daemon \notin Inits
  BY Kinds DEF DirectoryInv, Typed, Programs
<1>1. state' = Absent => unsynced' = {}
  BY NoWayBack
<1>2. ASSUME NEW i \in Inits, Initialising(i)'
      PROVE  ~PowerFails /\ \A j \in Inits : init_saves_state(j) => j # i
  BY <1>0, <1>2 DEF PowerFails, init_saves_state, Goes, Initialising, Ended
<1>3. ASSUME NEW i \in Inits, Initialising(i)'
      PROVE  state' = Absent
  <2>1. CASE Initialising(i)
    <3>1. \A p \in Clients \cup {daemon} : ~Active(p)
      BY <2>1, OneHolder, Kinds DEF DirectoryInv, Programs
    <3>2. \A j \in Inits : ~init_saves_state(j)
      <4> SUFFICES ASSUME NEW j \in Inits, init_saves_state(j) PROVE j = i
        BY <1>2, <1>3
      <4>1. Initialising(j)
        BY DEF init_saves_state, Initialising
      <4> QED BY <1>0, <2>1, <4>1, OneHolder DEF DirectoryInv
    <3>3. state' = state
      BY <1>2, <1>3, <3>1, <3>2, WhoSaves
    <3> QED BY <2>1, <3>3 DEF DirectoryInv, NewDirectory
  <2>2. CASE ~Initialising(i)
    BY <1>3, <2>2, InitialisingStep DEF disk
  <2> QED BY <2>1, <2>2
<1>4. ASSUME NEW i \in Inits, pc'[i] = "key"
      PROVE  key' = i
  <2>1. CASE init_saves_key(i)
    BY <1>0, <1>4, <2>1 DEF init_saves_key, Goes, Fails
  <2>2. CASE ~init_saves_key(i)
    <3>1. Initialising(i)'
      BY <1>4 DEF Initialising
    <3>2. Initialising(i)
      BY <1>4, <3>1, InitialisingStep
    <3>3. \A j \in Inits : ~init_saves_key(j)
      <4> SUFFICES ASSUME NEW j \in Inits, init_saves_key(j) PROVE j = i
        BY <2>2
      <4>1. Initialising(j)
        BY DEF init_saves_key, Initialising
      <4> QED BY <1>0, <3>2, <4>1, OneHolder DEF DirectoryInv
    <3>4. key' = key
      BY <1>2, <3>1, <3>3, WhoSaves
    <3>5. pc[i] = "key"
      <4>1. ASSUME NEW j \in Inits, init_locks(j) \/ init_writes_token(j) \/ init_saves_state(j)
            PROVE  pc[i] = "key"
        BY <1>0, <1>4, <4>1 DEF init_locks, init_writes_token, init_saves_state, Goes, Fails
      <4>2. ASSUME NEW c \in Activations, write_token(c) \/ sync_token(c) \/ prepare_fails(c)
            PROVE  pc[i] = "key"
        BY <1>0, <1>4, <4>2 DEF write_token, sync_token, prepare_fails, Goes
      <4>3. ASSUME NEW c \in Clients,
                   \/ rpc_over_socket(c) \/ receive(c) \/ give_up(c) \/ run_request(c)
                   \/ run_request_handles(c) \/ daemon_handles(c)
            PROVE  pc[i] = "key"
        BY <1>0, <1>4, <4>3 DEF rpc_over_socket, receive, give_up, run_request,
          run_request_handles, daemon_handles, Goes
      <4>4. ASSUME serve_loads \/ bind_private_socket PROVE pc[i] = "key"
        BY <1>0, <1>4, <4>4 DEF serve_loads, bind_private_socket, Goes
      <4>5. ASSUME NEW q \in Programs, Kill(q) PROVE pc[i] = "key"
        BY <1>0, <1>4, <4>5 DEF Kill, Goes
      <4> QED BY <1>2, <3>1, <3>3, <4>1, <4>2, <4>3, <4>4, <4>5 DEF DirectoryAction
    <3> QED BY <3>4, <3>5 DEF DirectoryInv, NewDirectory
  <2> QED BY <2>1, <2>2
<1> QED BY <1>1, <1>3, <1>4 DEF NewDirectory
(* A request is acknowledged when it was saved, by the one who has the      *)
(* treasury, and not otherwise.                                             *)
LEMMA NewlyAcknowledged ==
  ASSUME DirectoryInv, DirectoryAction, NEW c \in Clients, Acknowledged(c)', ~Acknowledged(c)
  PROVE  \E p \in Clients \cup {daemon} : Active(p) /\ handle_persisted(p, c, TRUE)
<1>0. /\ pc \in [Programs -> Places] /\ answer \in [Clients -> {"none", "ok", "error"}]
      /\ c \in Programs /\ c \notin Inits /\ c # daemon
  BY Kinds DEF DirectoryInv, Typed, TypeOK, Programs
<1> DEFINE T == \E p \in Clients \cup {daemon} : Active(p) /\ handle_persisted(p, c, TRUE)
<1>1. ASSUME NEW i \in Inits,
             init_locks(i) \/ init_writes_token(i) \/ init_saves_key(i) \/ init_saves_state(i)
      PROVE  T
  BY <1>0, <1>1 DEF init_locks, init_writes_token, init_saves_key, init_saves_state, Goes, Fails,
    wire, Acknowledged
<1>2. ASSUME NEW a \in Activations, write_token(a) \/ sync_token(a) \/ prepare_fails(a) PROVE T
  BY <1>0, <1>2 DEF write_token, sync_token, prepare_fails, Goes, wire, Acknowledged
<1>3. ASSUME NEW d \in Clients,
             rpc_over_socket(d) \/ receive(d) \/ give_up(d) \/ run_request(d)
      PROVE  T
  BY <1>0, <1>3 DEF rpc_over_socket, receive, give_up, run_request, Goes, wire, Acknowledged
<1>4. ASSUME NEW d \in Clients, run_request_handles(d) PROVE T
  <2>1. PICK ok \in BOOLEAN : handle_persisted(d, d, ok) /\ Goes(d, IF ok THEN "ok" ELSE "failed")
    BY <1>4 DEF run_request_handles
  <2>2. Active(d) /\ answer' = answer
    BY <1>4 DEF run_request_handles, Active, wire
  <2>3. d = c /\ ok = TRUE
    BY <1>0, <2>1, <2>2 DEF Goes, Acknowledged
  <2> QED BY <2>1, <2>2, <2>3
<1>5. ASSUME NEW d \in Clients, daemon_handles(d) PROVE T
  <2>1. PICK ok \in BOOLEAN :
          /\ handle_persisted(daemon, d, ok)
          /\ answer' = [answer EXCEPT ![d] = IF ok THEN "ok" ELSE "error"]
    BY <1>5 DEF daemon_handles
  <2>2. Active(daemon) /\ pc' = pc
    BY <1>5 DEF daemon_handles, Active
  <2>3. d = c /\ ok = TRUE
    BY <1>0, <2>1, <2>2 DEF Acknowledged
  <2> QED BY <2>1, <2>2, <2>3
<1>6. ASSUME serve_loads \/ bind_private_socket PROVE T
  BY <1>0, <1>6 DEF serve_loads, bind_private_socket, Goes, wire, Acknowledged
<1>7. ASSUME NEW q \in Programs, Kill(q) PROVE T
  BY <1>0, <1>7 DEF Kill, Goes, Acknowledged
<1>8. ASSUME PowerFails PROVE T
  BY <1>0, <1>8 DEF PowerFails, Acknowledged
<1> HIDE DEF T
<1>9. T
  BY <1>1, <1>2, <1>3, <1>4, <1>5, <1>6, <1>7, <1>8 DEF DirectoryAction
<1> QED BY <1>9 DEF T

LEMMA AnswersKeptStep == DirectoryInv /\ DirectoryNext => AnswersKept'
<1> SUFFICES ASSUME DirectoryInv, DirectoryAction,
                    NEW c \in Clients, Acknowledged(c)', NEW s, Live(s)'
             PROVE  c \in s.applied
  BY DirectoryActions DEF AnswersKept
<1>1. CASE Acknowledged(c)
  <2>1. \A t : Live(t) => c \in t.applied
    BY <1>1 DEF DirectoryInv, AnswersKept
  <2>2. CASE Made(s)
    <3>1. PICK i \in Inits : Initialising(i)
      BY <2>2 DEF Made, Initialising
    <3>2. Live(state) /\ state.applied = {}
      BY <3>1 DEF Live, Recoverable, DirectoryInv, NewDirectory, Absent
    <3> QED BY <2>1, <3>2
  <2>3. CASE Grown(s)
    BY <2>1, <2>3 DEF Grown, Live
  <2> QED BY <2>1, <2>2, <2>3, LiveStep
<1>2. CASE ~Acknowledged(c)
  <2>1. PICK p \in Clients \cup {daemon} : Active(p) /\ handle_persisted(p, c, TRUE)
    BY <1>2, NewlyAcknowledged
  <2>2. Handled(p, c, TRUE)
    BY <2>1, Handling DEF DirectoryInv
  <2>3. PICK new \in TreasuryFile :
          /\ new.applied = memory[p].applied \cup {c}
          /\ save_to(new, TRUE) /\ memory'[p] = new
    BY <2>2 DEF Handled
  <2>4. s \in Recoverable' => s = new
    BY <2>3 DEF save_to, Recoverable
  <2>5. ASSUME NEW q \in Clients \cup {daemon}, Active(q)' PROVE q = p
    <3>1. p \in Programs /\ q \in Programs /\ none \notin Programs
      BY ProgramAssumption DEF Programs
    <3>2. lock = p
      BY <2>1, <3>1 DEF DirectoryInv, Held
    <3>3. Active(q)
      BY <2>5, <3>1, <3>2, ActiveStep DEF Begins
    <3> QED BY <2>1, <3>1, <3>3, OneHolder DEF DirectoryInv
  <2>6. s = new
    BY <2>3, <2>4, <2>5 DEF Live
  <2> QED BY <2>3, <2>6
<1> QED BY <1>1, <1>2

(* An owner's token file is taken away, or not finished, by its own init,   *)
(* which fails.                                                             *)
LEMMA OwnerFileStep ==
  ASSUME DirectoryInv, DirectoryAction, NEW i \in Inits
  PROVE  /\ pc[i] = "failed" => pc'[i] = "failed"
         /\ files[i] = "durable" /\ files'[i] # "durable" => pc'[i] = "failed"
         /\ pc'[i] \in {"token", "key"} => files'[i] = "durable"
<1>0. /\ pc \in [Programs -> Places] /\ i \in Programs
      /\ files \in [Inits \cup Activations -> {"none", "written", "durable"}]
      /\ i \notin Clients \cup {daemon} /\ Activations \subseteq Clients
      /\ pc[i] \in {"token", "key"} => files[i] = "durable"
  BY Kinds DEF DirectoryInv, OwnersKept, Typed, TypeOK, Programs, Activations, Clients
<1> DEFINE T == /\ pc[i] = "failed" => pc'[i] = "failed"
                /\ files[i] = "durable" /\ files'[i] # "durable" => pc'[i] = "failed"
                /\ pc'[i] \in {"token", "key"} => files'[i] = "durable"
<1>1. ASSUME NEW j \in Inits, init_locks(j) \/ init_writes_token(j) PROVE T
  BY <1>0, <1>1 DEF init_locks, init_writes_token, Goes, Fails, disk
<1>2. ASSUME NEW j \in Inits, init_saves_key(j) \/ init_saves_state(j) PROVE T
  BY <1>0, <1>2 DEF init_saves_key, init_saves_state, Goes, Fails
<1>3. ASSUME NEW c \in Activations, write_token(c) \/ sync_token(c) \/ prepare_fails(c) PROVE T
  BY <1>0, <1>3 DEF write_token, sync_token, prepare_fails, Goes
<1>4. ASSUME NEW c \in Clients,
             \/ rpc_over_socket(c) \/ receive(c) \/ give_up(c) \/ run_request(c)
             \/ run_request_handles(c) \/ daemon_handles(c)
      PROVE  T
  BY <1>0, <1>4 DEF rpc_over_socket, receive, give_up, run_request, run_request_handles,
    daemon_handles, Goes, disk
<1>5. ASSUME serve_loads \/ bind_private_socket PROVE T
  BY <1>0, <1>5 DEF serve_loads, bind_private_socket, Goes, disk
<1>6. ASSUME NEW q \in Programs, Kill(q) PROVE T
  BY <1>0, <1>6 DEF Kill, Goes, disk, Ended
<1>7. ASSUME PowerFails PROVE T
  BY <1>0, <1>7 DEF PowerFails, Ended
<1> HIDE DEF T
<1>8. T
  BY <1>1, <1>2, <1>3, <1>4, <1>5, <1>6, <1>7 DEF DirectoryAction
<1> QED BY <1>8 DEF T

LEMMA OwnersKeptStep == DirectoryInv /\ DirectoryNext => OwnersKept'
<1> SUFFICES ASSUME DirectoryInv, DirectoryAction PROVE OwnersKept'
  BY DirectoryActions
<1>1. ASSUME NEW i \in Inits, NEW s, Live(s)', s.key = i, files'[i] # "durable"
      PROVE  pc'[i] = "failed"
  <2>1. files[i] # "durable" => pc[i] = "failed"
    <3>1. CASE Live(s)
      BY <1>1, <3>1 DEF DirectoryInv, OwnersKept
    <3>2. CASE Made(s)
      BY <1>1, <3>2 DEF Made, DirectoryInv, OwnersKept
    <3>3. CASE Grown(s)
      <4>1. PICK p \in Clients \cup {daemon} : Active(p) /\ s.key = memory[p].key
        BY <3>3 DEF Grown
      <4>2. Live(memory[p])
        BY <4>1 DEF Live
      <4> QED BY <1>1, <4>1, <4>2 DEF DirectoryInv, OwnersKept
    <3> QED BY <1>1, <3>1, <3>2, <3>3, LiveStep
  <2> QED BY <1>1, <2>1, OwnerFileStep
<1>2. \A i \in Inits : pc'[i] \in {"token", "key"} => files'[i] = "durable"
  BY OwnerFileStep
<1> QED BY <1>1, <1>2 DEF OwnersKept
(* The token file of an activation that was asked for, or may be, is not    *)
(* touched again.                                                           *)
LEMMA TokenFileStep ==
  ASSUME DirectoryInv, DirectoryAction, NEW c \in Activations
  PROVE  /\ files[c] = "durable" /\ pc[c] \notin {"start", "written"}
              => files'[c] = "durable" /\ pc'[c] \notin {"start", "written"}
         /\ pc'[c] \in {"prepared", "loaded", "waiting"} => files'[c] = "durable"
         /\ c \in inbox' => c \in inbox \/ pc[c] = "prepared"
<1>0. /\ pc \in [Programs -> Places] /\ c \in Programs /\ c \in Clients
      /\ files \in [Inits \cup Activations -> {"none", "written", "durable"}]
      /\ c \notin Inits \cup Commands /\ c # daemon /\ Activations \subseteq Clients
      /\ pc[c] \in {"prepared", "loaded", "waiting"} => files[c] = "durable"
  BY Kinds DEF DirectoryInv, TokensKept, Typed, TypeOK, Programs, Activations, Clients
<1> DEFINE T == /\ files[c] = "durable" /\ pc[c] \notin {"start", "written"}
                     => files'[c] = "durable" /\ pc'[c] \notin {"start", "written"}
                /\ pc'[c] \in {"prepared", "loaded", "waiting"} => files'[c] = "durable"
                /\ c \in inbox' => c \in inbox \/ pc[c] = "prepared"
<1>1. ASSUME NEW i \in Inits,
             init_locks(i) \/ init_writes_token(i) \/ init_saves_key(i) \/ init_saves_state(i)
      PROVE  T
  BY <1>0, <1>1 DEF init_locks, init_writes_token, init_saves_key, init_saves_state, Goes, Fails,
    disk, wire
<1>2. ASSUME NEW d \in Activations, write_token(d) \/ sync_token(d) \/ prepare_fails(d) PROVE T
  BY <1>0, <1>2 DEF write_token, sync_token, prepare_fails, Goes, wire
<1>3. ASSUME NEW d \in Clients, rpc_over_socket(d) \/ receive(d) \/ give_up(d) PROVE T
  BY <1>0, <1>3 DEF rpc_over_socket, receive, give_up, Goes, disk, wire
<1>4. ASSUME NEW d \in Clients, run_request(d) PROVE T
  BY <1>0, <1>4 DEF run_request, Goes, disk, wire
<1>5. ASSUME NEW d \in Clients, run_request_handles(d) \/ daemon_handles(d) PROVE T
  BY <1>0, <1>5 DEF run_request_handles, daemon_handles, Goes, wire
<1>6. ASSUME serve_loads \/ bind_private_socket PROVE T
  BY <1>0, <1>6 DEF serve_loads, bind_private_socket, Goes, disk, wire
<1>7. ASSUME NEW q \in Programs, Kill(q) PROVE T
  BY <1>0, <1>7 DEF Kill, Goes, disk, Ended
<1>8. ASSUME PowerFails PROVE T
  BY <1>0, <1>8 DEF PowerFails, Ended
<1> HIDE DEF T
<1>9. T
  BY <1>1, <1>2, <1>3, <1>4, <1>5, <1>6, <1>7, <1>8 DEF DirectoryAction
<1> QED BY <1>9 DEF T

LEMMA TokensKeptStep == DirectoryInv /\ DirectoryNext => TokensKept'
<1> SUFFICES ASSUME DirectoryInv, DirectoryAction, NEW c \in Activations
             PROVE  /\ Accepted(c)' => files'[c] = "durable" /\ pc'[c] \notin {"start", "written"}
                    /\ pc'[c] \in {"prepared", "loaded", "waiting"} => files'[c] = "durable"
  BY DirectoryActions DEF TokensKept
<1> DEFINE Safe == files[c] = "durable" /\ pc[c] \notin {"start", "written"}
<1>1. /\ Accepted(c) => Safe
      /\ pc[c] \in {"prepared", "loaded"} => Safe
  BY DEF DirectoryInv, TokensKept
<1>2. ASSUME NEW s, c \in s.applied,
             \/ s \in Recoverable \/ Made(s) \/ Grown(s)
             \/ \E p \in Clients \cup {daemon} : s = memory[p]
      PROVE  Safe
  <2>1. CASE s \in Recoverable \/ \E p \in Clients \cup {daemon} : s = memory[p]
    BY <1>1, <1>2, <2>1 DEF Accepted
  <2>2. CASE Made(s)
    BY <1>2, <2>2 DEF Made
  <2>3. CASE Grown(s)
    BY <1>1, <1>2, <2>3 DEF Grown, Accepted
  <2> QED BY <1>2, <2>1, <2>2, <2>3
<1>3. ASSUME Accepted(c)' PROVE Safe
  <2>1. CASE c \in inbox'
    BY <1>1, <2>1, TokenFileStep DEF Accepted
  <2>2. ASSUME NEW s \in Recoverable', c \in s.applied PROVE Safe
    BY <1>2, <2>2, RecoverableStep
  <2>3. ASSUME NEW p \in Clients \cup {daemon}, c \in memory'[p].applied PROVE Safe
    <3>1. \/ memory'[p] = memory[p]
          \/ memory'[p] \in Recoverable
          \/ Grown(memory'[p])
      BY MemoryStep DEF Recoverable
    <3> QED BY <1>2, <2>3, <3>1
  <2> HIDE DEF Safe
  <2> QED BY <1>3, <2>1, <2>2, <2>3 DEF Accepted
<1> QED BY <1>3, TokenFileStep

LEMMA DirectoryInvStep == DirectoryInv /\ [DirectoryNext]_directoryVars => DirectoryInv'
<1>1. CASE DirectoryNext
  BY <1>1, TypedStep, HeldStep, NewDirectoryStep, LoadedOnceStep, KeyKeptStep, AnswersKeptStep,
    OwnersKeptStep, TokensKeptStep DEF DirectoryInv
<1>2. CASE UNCHANGED directoryVars
  BY <1>2 DEF directoryVars, disk, wire, DirectoryInv, Typed, TypeOK, Held, NewDirectory,
    LoadedOnce, KeyKept, AnswersKept, OwnersKept, TokensKept, Live, Recoverable, Active,
    Initialising, Accepted, Acknowledged
<1> QED BY <1>1, <1>2

-----------------------------------------------------------------------------
(* The theorems.                                                            *)

LEMMA DirectoryInvariant == DirectorySpec => []DirectoryInv
<1> QED BY DirectoryInvInit, DirectoryInvStep, PTL DEF DirectorySpec

(* Every reachable state of the data directory and its programs is well     *)
(* formed (TreasuryFile, the files, the programs' places).                  *)
THEOREM DirectoryTypeCorrect == DirectorySpec => []TypeOK
<1>1. DirectoryInv => TypeOK
  BY DEF DirectoryInv, Typed
<1> QED BY <1>1, DirectoryInvariant, PTL

(* A state file is always authenticated by the key beside it, whichever     *)
(* init is interrupted, fails or meets another (init_command, save_to).     *)
THEOREM KeyBesideState == DirectorySpec => []StateHasItsKey
<1>1. DirectoryInv => StateHasItsKey
  BY DEF DirectoryInv, KeyKept, Live, StateHasItsKey
<1> QED BY <1>1, DirectoryInvariant, PTL

(* A request that was answered with ok is in every state a restart may      *)
(* find, however many programs use the directory and whichever of them are  *)
(* killed (DataDirLock, handle_persisted, run_request).                     *)
THEOREM AnswersAreKept == DirectorySpec => []AcknowledgedIsKept
<1>1. DirectoryInv => AcknowledgedIsKept
  BY DEF DirectoryInv, AnswersKept, Live, Acknowledged, AcknowledgedIsKept
<1> QED BY <1>1, DirectoryInvariant, PTL

(* A capability a treasury accepts, or may come to accept, has its token in *)
(* a durable file (activate_with_prepared_token, write_capability).         *)
THEOREM TokensAreKept == DirectorySpec => []ActiveTokenKept
<1>1. DirectoryInv => ActiveTokenKept
  BY DEF DirectoryInv, TokensKept, Accepted, ActiveTokenKept, Typed, TypeOK
<1> QED BY <1>1, DirectoryInvariant, PTL

(* A treasury has its owner's token on disk, unless its init failed after   *)
(* it had replaced the state (init_command).                                *)
THEOREM OwnerTokenIsKept == DirectorySpec => []OwnerTokenKept
<1>1. DirectoryInv => OwnerTokenKept
  BY DEF DirectoryInv, OwnersKept, Live, Recoverable, OwnerTokenKept
<1> QED BY <1>1, DirectoryInvariant, PTL

=============================================================================
