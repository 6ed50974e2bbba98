-------------------------- MODULE AdmissionProofs ---------------------------
(***************************************************************************)
(* Machine-checked proofs about Admission, for any number of connections,  *)
(* owners and capabilities and any limits: the admission knows the         *)
(* treasury's capabilities, its counters are the requests that are in      *)
(* flight, no capability exceeds its rate, and the broker's own user is    *)
(* not served once the manual provider is used.  The safety part of the    *)
(* specification is enough: nothing here depends on fairness.              *)
(***************************************************************************)
EXTENDS Admission, FiniteSetTheorems, TLAPS

Phases ==
  {"idle", "received", "identified", "known", "unknown", "channel", "admitted",
   "serving", "releasing", "closing", "publishing"}

(* The phases that hold a capability's guard, and those that hold the       *)
(* channel's.                                                               *)
Admitted == {"admitted", "serving", "releasing"}
OnChannel == {"channel", "admitted", "serving", "releasing", "closing"}

Connections == Threads \cup OwnerThreads

Entry == [ requests : 0 .. MAX_AGENT_REQUESTS_PER_SECOND, in_flight : BOOLEAN ]

CountersOK ==
  /\ phase \in [Connections -> Phases]
  /\ \A t \in Threads :
        phase[t] \notin {"idle", "publishing"} => t \in DOMAIN token /\ token[t] \in Capabilities
  /\ DOMAIN entries \subseteq Capabilities /\ entries \in [DOMAIN entries -> Entry]
  /\ window \in [Capabilities -> 0 .. 2] /\ recent \in [Capabilities -> Nat]
  /\ channel \in [ requests : Nat, in_flight : Nat, over : BOOLEAN ]
  /\ issued \subseteq Capabilities
  /\ list \in [OwnerThreads -> SUBSET Capabilities]

(* The treasury's mutex is held by the connection in the treasury.          *)
LockOK ==
  /\ treasury_lock = {} \/ \E x \in Connections : treasury_lock = {x}
  /\ \A x \in Connections : phase[x] \in {"serving", "publishing"} => treasury_lock = {x}
  /\ \A x \in treasury_lock : phase[x] \in {"serving", "publishing"}

(* Either the admission knows what the treasury would authenticate, or the  *)
(* one who holds the mutex has the list of it in hand.                      *)
KnownOK ==
  /\ \A o \in OwnerThreads :
        /\ phase[o] = "publishing" => list[o] \ expired = active_agent_capabilities
        /\ phase[o] # "publishing" => list[o] = {}
  /\ (\A o \in OwnerThreads : phase[o] # "publishing")
        => known \ expired = active_agent_capabilities
  /\ known \subseteq issued /\ \A o \in OwnerThreads : list[o] \subseteq issued

(* One connection for each capability marked in flight, and no other.       *)
HoldersOK ==
  /\ \A t \in InPhase(Admitted) : token[t] \in DOMAIN entries /\ entries[token[t]].in_flight
  /\ \A t, u \in InPhase(Admitted) : token[t] = token[u] => t = u
  /\ \A c \in DOMAIN entries :
        entries[c].in_flight => \E t \in InPhase(Admitted) : token[t] = c

ChannelOK ==
  /\ channel.in_flight = Cardinality(InPhase(OnChannel))
  /\ channel.in_flight <= MAX_AGENT_CHANNEL_IN_FLIGHT

(* A capability that is known, or may become known again.                   *)
Still(c) ==
  c \in known \cup active_agent_capabilities \/ \E o \in OwnerThreads : c \in list[o]

(* While the window of such a capability is open, its entry has counted     *)
(* every request of it.                                                     *)
RateOK ==
  /\ \A c \in Capabilities :
        Still(c) =>
          /\ recent[c] <= MAX_AGENT_REQUESTS_PER_SECOND
          /\ window[c] = 0 => c \in DOMAIN entries /\ recent[c] <= entries[c].requests
  /\ \A c \in Capabilities \ issued : window[c] = 2 /\ recent[c] = 0
  /\ \A t \in Threads : phase[t] \in {"known", "channel"} => token[t] \in issued

(* The inductive invariant.                                                 *)
AdmissionInv == CountersOK /\ LockOK /\ KnownOK /\ HoldersOK /\ ChannelOK /\ RateOK

(* The actions of AdmissionNext, one by one.                                *)
AdmissionAction ==
  \/ \E t \in Threads :
       \/ \E c \in Capabilities : Receive(t, c)
       \/ check_identity(t) \/ is_known_capability(t) \/ admit_unauthenticated(t)
       \/ admit_channel(t) \/ admit_capability(t) \/ reject_owner_operation(t)
       \/ handle_rpc(t) \/ finish_rpc(t) \/ drop_capability_guard(t) \/ drop_channel_guard(t)
  \/ \E o \in OwnerThreads : owner_handle(o) \/ replace_known_capabilities(o)
  \/ refuse_connection \/ Tick

LEMMA AdmissionActions == AdmissionNext => AdmissionAction
  BY DEF AdmissionNext, AdmissionAction, AgentStep, OwnerStep, handle_connection

-----------------------------------------------------------------------------
LEMMA AdmissionInvInit == AdmissionInit => AdmissionInv
<1> SUFFICES ASSUME AdmissionInit PROVE AdmissionInv
  OBVIOUS
<1> DEFINE Limit == MAX_AGENT_REQUESTS_PER_SECOND
<1>0. Limit \in Nat /\ MAX_AGENT_CHANNEL_IN_FLIGHT \in Nat
  BY AdmissionAssumption
<1>1. CountersOK
  BY DEF AdmissionInit, CountersOK, Phases, Connections, Entry
<1>2. LockOK /\ KnownOK
  BY DEF AdmissionInit, LockOK, KnownOK, Connections, active_agent_capabilities
<1>3. InPhase(Admitted) = {} /\ InPhase(OnChannel) = {}
  BY DEF AdmissionInit, InPhase, Admitted, OnChannel
<1>4. HoldersOK
  BY <1>3 DEF AdmissionInit, HoldersOK
<1>5. ChannelOK
  BY <1>0, <1>3, FS_EmptySet DEF AdmissionInit, ChannelOK
<1>6. RateOK
  BY <1>0 DEF AdmissionInit, RateOK
<1> QED BY <1>1, <1>2, <1>4, <1>5, <1>6 DEF AdmissionInv

(* The request of a connection stays what it is, but for the one that goes. *)
LEMMA TokenStep ==
  ASSUME NEW t, NEW p, Goes(t, p), NEW u \in DOMAIN token, u # t \/ p # "idle"
  PROVE  u \in DOMAIN token' /\ token'[u] = token[u]
  BY DEF Goes

(* admit_capability, case by case: there is no room for one more entry, or  *)
(* the capability has an entry that counts the request if it is admitted.   *)
Counted(c, admitted) ==
  /\ c \in DOMAIN entries' /\ entries'[c] \in Entry
  /\ admitted => /\ entries'[c].in_flight
                 /\ c \in DOMAIN entries => ~entries[c].in_flight
  /\ ~admitted => /\ entries'[c].in_flight <=> c \in DOMAIN entries /\ entries[c].in_flight
  /\ LET one == IF admitted THEN 1 ELSE 0
     IN \/ /\ window[c] = 0 /\ c \in DOMAIN entries
           /\ UNCHANGED window
           /\ entries'[c].requests = entries[c].requests + one
           /\ recent' = [recent EXCEPT ![c] = @ + one]
        \/ /\ window[c] = 0 /\ c \notin DOMAIN entries
           /\ window' = [window EXCEPT ![c] = 0]
           /\ recent' = [recent EXCEPT ![c] = @ + one]
        \/ /\ window[c] # 0
           /\ window' = [window EXCEPT ![c] = 0]
           /\ entries'[c].requests = one
           /\ recent' = [recent EXCEPT ![c] = one]

LEMMA Admitting ==
  ASSUME CountersOK, NEW t \in Threads, admit_capability(t)
  PROVE  LET c == token[t]
         IN /\ c \in Capabilities
            /\ \E admitted \in BOOLEAN :
                 /\ phase' = [phase EXCEPT ![t] = IF admitted THEN "admitted" ELSE "closing"]
                 /\ \/ Counted(c, admitted)
                    \/ /\ ~admitted /\ UNCHANGED << window, recent >>
                       /\ c \notin DOMAIN entries'
                       /\ c \in DOMAIN entries => window[c] = 2 /\ ~entries[c].in_flight
            /\ DOMAIN entries' \subseteq DOMAIN entries \cup {c}
            /\ \A d \in DOMAIN entries \ {c} :
                 /\ d \in DOMAIN entries' => entries'[d] = entries[d]
                 /\ entries[d].in_flight \/ window[d] < 2 => d \in DOMAIN entries'
<1> DEFINE c == token[t]
           full == c \notin retained /\ Cardinality(retained) >= MAX_AGENT_ADMISSION_ENTRIES
           busy == c \in retained /\ entries[c].in_flight
           opens == c \notin retained \/ window[c] >= 1
           requests == IF opens THEN 0 ELSE entries[c].requests
           admitted == ~full /\ ~busy /\ requests < MAX_AGENT_REQUESTS_PER_SECOND
           one == IF admitted THEN 1 ELSE 0
           entry == [ requests |-> requests + one, in_flight |-> busy \/ admitted ]
<1>0. /\ MAX_AGENT_REQUESTS_PER_SECOND \in Nat \ {0}
      /\ c \in Capabilities
      /\ window \in [Capabilities -> 0 .. 2] /\ recent \in [Capabilities -> Nat]
      /\ entries \in [DOMAIN entries -> Entry]
      /\ retained \subseteq DOMAIN entries
      /\ \A d \in DOMAIN entries : d \in retained <=> entries[d].in_flight \/ window[d] < 2
  BY AdmissionAssumption DEF CountersOK, admit_capability, retained
<1>1. /\ entries' = [ d \in retained \cup (IF full THEN {} ELSE {c}) |->
                        IF d = c THEN entry ELSE entries[d] ]
      /\ window' = [window EXCEPT ![c] = IF ~full /\ opens THEN 0 ELSE @]
      /\ recent' = [recent EXCEPT ![c] = (IF ~full /\ window[c] >= 1 THEN 0 ELSE @) + one]
      /\ phase' = [phase EXCEPT ![t] = IF admitted THEN "admitted" ELSE "closing"]
  BY DEF admit_capability, GoTo
<1>2. requests \in 0 .. MAX_AGENT_REQUESTS_PER_SECOND
  BY <1>0 DEF Entry
<1>3. requests + one \in 0 .. MAX_AGENT_REQUESTS_PER_SECOND /\ one \in {0, 1}
  BY <1>0, <1>2
<1>4. entry \in Entry /\ entry.requests = requests + one /\ entry.in_flight = (busy \/ admitted)
  BY <1>3 DEF Entry
<1>5. DOMAIN entries' = retained \cup (IF full THEN {} ELSE {c})
  BY <1>1
<1>6. CASE ~full
  <2>1. c \in DOMAIN entries' /\ entries'[c] = entry
    BY <1>1, <1>6
  <2>2. /\ admitted => entry.in_flight /\ (c \in DOMAIN entries => ~entries[c].in_flight)
        /\ ~admitted => (entry.in_flight <=> c \in DOMAIN entries /\ entries[c].in_flight)
    BY <1>0, <1>4
  <2>3. CASE window[c] = 0 /\ c \in DOMAIN entries
    <3>1. ~opens /\ requests = entries[c].requests
      BY <1>0, <2>3
    <3>2. window' = window
      BY <1>0, <1>1, <3>1
    <3>3. recent' = [recent EXCEPT ![c] = @ + one]
      BY <1>0, <1>1, <2>3
    <3>4. entries'[c].requests = entries[c].requests + one
      BY <1>4, <2>1, <3>1
    <3> HIDE DEF entry
    <3>5. Counted(c, admitted)
      BY <1>4, <2>1, <2>2, <2>3, <3>2, <3>3, <3>4 DEF Counted
    <3> QED BY <1>0, <1>1, <1>5, <3>5
  <2>4. CASE window[c] = 0 /\ c \notin DOMAIN entries
    <3>1. opens
      BY <1>0, <2>4
    <3>2. window' = [window EXCEPT ![c] = 0] /\ recent' = [recent EXCEPT ![c] = @ + one]
      BY <1>0, <1>1, <1>6, <2>4, <3>1
    <3>5. Counted(c, admitted)
      BY <1>4, <2>1, <2>2, <2>4, <3>2 DEF Counted
    <3> QED BY <1>0, <1>1, <1>5, <3>5
  <2>5. CASE window[c] # 0
    <3>1. opens /\ requests = 0
      BY <1>0, <2>5
    <3>2. window' = [window EXCEPT ![c] = 0] /\ recent' = [recent EXCEPT ![c] = one]
      <4>1. window[c] >= 1 /\ 0 + one = one
        BY <1>0, <2>5
      <4>2. ~full /\ opens
        BY <1>6, <3>1
      <4> HIDE DEF full, opens, one, c
      <4> QED BY <1>1, <4>1, <4>2
    <3>3. entries'[c].requests = one
      BY <1>3, <1>4, <2>1, <3>1
    <3>5. Counted(c, admitted)
      BY <1>4, <2>1, <2>2, <2>5, <3>2, <3>3 DEF Counted
    <3> QED BY <1>0, <1>1, <1>5, <3>5
  <2> QED BY <2>3, <2>4, <2>5
<1>7. CASE full
  <2>1. ~admitted /\ one = 0 /\ c \notin retained
    BY <1>7
  <2>2. window' = window /\ recent' = recent
    BY <1>0, <1>1, <1>7, <2>1
  <2>3. c \notin DOMAIN entries' /\ (c \in DOMAIN entries => window[c] = 2 /\ ~entries[c].in_flight)
    BY <1>0, <1>5, <1>7, <2>1
  <2> QED BY <1>0, <1>1, <1>5, <1>7, <2>1, <2>2, <2>3
<1> QED BY <1>6, <1>7
-----------------------------------------------------------------------------
(* Every action keeps each part of the invariant.                           *)

LEMMA CountersStep == AdmissionInv /\ AdmissionNext => CountersOK'
<1> SUFFICES ASSUME AdmissionInv, AdmissionAction PROVE CountersOK'
  BY AdmissionActions
<1>0. CountersOK /\ LockOK
  BY DEF AdmissionInv
<1> DEFINE T == CountersOK'
<1>1. ASSUME NEW t \in Threads, NEW c \in Capabilities, Receive(t, c) PROVE T
  BY <1>0, <1>1 DEF Receive, GoTo, treasuryState, counters, CountersOK, Phases, Connections
<1>2. ASSUME NEW t \in Threads, check_identity(t) PROVE T
  BY <1>0, <1>2 DEF check_identity, Goes, GoTo, treasuryState, counters, CountersOK, Phases,
    Connections
<1>3. ASSUME NEW t \in Threads, is_known_capability(t) PROVE T
  BY <1>0, <1>3 DEF is_known_capability, GoTo, treasuryState, counters, CountersOK, Phases,
    Connections
<1>4. ASSUME NEW t \in Threads, admit_unauthenticated(t) PROVE T
  BY <1>0, <1>4 DEF admit_unauthenticated, Goes, GoTo, treasuryState, CountersOK, Phases,
    Connections
<1>5. ASSUME NEW t \in Threads, admit_channel(t) PROVE T
  BY <1>0, <1>5 DEF admit_channel, Goes, GoTo, treasuryState, CountersOK, Phases, Connections
<1>6. ASSUME NEW t \in Threads, admit_capability(t) PROVE T
  <2> DEFINE c == token[t]
  <2>1. c \in Capabilities /\ DOMAIN entries' \subseteq DOMAIN entries \cup {c}
    BY <1>0, <1>6, Admitting
  <2>2. PICK admitted \in BOOLEAN :
          /\ phase' = [phase EXCEPT ![t] = IF admitted THEN "admitted" ELSE "closing"]
          /\ \/ Counted(c, admitted)
             \/ UNCHANGED << window, recent >> /\ c \notin DOMAIN entries'
    BY <1>0, <1>6, Admitting
  <2>3. \A d \in DOMAIN entries \ {c} : d \in DOMAIN entries' => entries'[d] = entries[d]
    BY <1>0, <1>6, Admitting
  <2> HIDE DEF c
  <2>4. c \in DOMAIN entries' => entries'[c] \in Entry
    BY <2>2 DEF Counted
  <2>5. entries' = [ d \in DOMAIN entries' |-> entries'[d] ]
    BY <1>6 DEF admit_capability
  <2>6. entries' \in [DOMAIN entries' -> Entry]
    BY <1>0, <2>1, <2>3, <2>4, <2>5 DEF CountersOK
  <2>7. recent[c] + 1 \in Nat /\ recent[c] + 0 \in Nat /\ recent[c] \in Nat
    BY <1>0, <2>1 DEF CountersOK
  <2>8. window' \in [Capabilities -> 0 .. 2] /\ recent' \in [Capabilities -> Nat]
    BY <1>0, <2>2, <2>7 DEF CountersOK, Counted
  <2>9. UNCHANGED << token, issued, channel, list >>
    BY <1>6 DEF admit_capability, treasuryState
  <2> QED BY <1>0, <1>6, <2>1, <2>2, <2>6, <2>8, <2>9 DEF CountersOK, Phases, Connections,
    admit_capability
<1>7. ASSUME NEW t \in Threads, reject_owner_operation(t) \/ handle_rpc(t) \/ finish_rpc(t) PROVE T
  BY <1>0, <1>7 DEF reject_owner_operation, handle_rpc, finish_rpc, GoTo, treasuryState, counters,
    CountersOK, Phases, Connections
<1>8. ASSUME NEW t \in Threads, drop_capability_guard(t) PROVE T
  <2>1. \A c \in DOMAIN entries : [entries[c] EXCEPT !.in_flight = FALSE] \in Entry
    <3>1. \A e \in Entry : [e EXCEPT !.in_flight = FALSE] \in Entry
      BY DEF Entry
    <3> QED BY <1>0, <3>1 DEF CountersOK
  <2>2. DOMAIN entries' = DOMAIN entries /\ entries' \in [DOMAIN entries -> Entry]
    BY <1>0, <1>8, <2>1 DEF drop_capability_guard, CountersOK
  <2> QED BY <1>0, <1>8, <2>2 DEF drop_capability_guard, GoTo, treasuryState, CountersOK, Phases,
    Connections
<1>9. ASSUME NEW t \in Threads, drop_channel_guard(t) PROVE T
  BY <1>0, <1>9 DEF drop_channel_guard, Goes, GoTo, treasuryState, CountersOK, Phases, Connections
<1>10. ASSUME NEW o \in OwnerThreads, owner_handle(o) PROVE T
  <2>1. issued' \subseteq Capabilities
    BY <1>0, <1>10 DEF owner_handle, ChangeCapabilities, CountersOK
  <2> QED BY <1>0, <1>10, <2>1 DEF owner_handle, GoTo, counters, CountersOK, Phases, Connections,
    active_agent_capabilities
<1>11. ASSUME NEW o \in OwnerThreads, replace_known_capabilities(o) PROVE T
  BY <1>0, <1>11 DEF replace_known_capabilities, GoTo, treasuryState, CountersOK, Phases,
    Connections
<1>12. ASSUME Tick PROVE T
  <2>1. window' \in [Capabilities -> 0 .. 2]
    <3>1. \A n \in 0 .. 2 : n < 2 => n + 1 \in 0 .. 2
      OBVIOUS
    <3> QED BY <1>0, <1>12, <3>1 DEF Tick, CountersOK
  <2>2. channel' \in [ requests : Nat, in_flight : Nat, over : BOOLEAN ]
    BY <1>0, <1>12 DEF Tick, CountersOK
  <2> QED BY <1>0, <1>12, <2>1, <2>2 DEF Tick, CountersOK
<1>13. ASSUME refuse_connection PROVE T
  BY <1>0, <1>13 DEF refuse_connection, admissionVars, treasuryState, counters, CountersOK
<1> HIDE DEF T
<1>14. T
  BY <1>1, <1>2, <1>3, <1>4, <1>5, <1>6, <1>7, <1>8, <1>9, <1>10, <1>11, <1>12, <1>13
    DEF AdmissionAction
<1> QED BY <1>14 DEF T

LEMMA LockStep == AdmissionInv /\ AdmissionNext => LockOK'
<1> SUFFICES ASSUME AdmissionInv, AdmissionAction PROVE LockOK'
  BY AdmissionActions
<1>0. LockOK /\ phase \in [Connections -> Phases]
  BY DEF AdmissionInv, CountersOK
<1> DEFINE T == LockOK'
<1>1. ASSUME NEW t \in Threads,
             \/ \E c \in Capabilities : Receive(t, c)
             \/ check_identity(t) \/ is_known_capability(t) \/ admit_unauthenticated(t)
      PROVE  T
  BY <1>0, <1>1 DEF Receive, check_identity, is_known_capability, admit_unauthenticated, Goes,
    GoTo, LockOK, Connections
<1>2. ASSUME NEW t \in Threads, admit_channel(t) \/ admit_capability(t) PROVE T
  BY <1>0, <1>2 DEF admit_channel, admit_capability, Goes, GoTo, LockOK, Connections
<1>3. ASSUME NEW t \in Threads,
             \/ reject_owner_operation(t) \/ drop_capability_guard(t) \/ drop_channel_guard(t)
      PROVE  T
  BY <1>0, <1>3 DEF reject_owner_operation, drop_capability_guard, drop_channel_guard, Goes, GoTo,
    LockOK, Connections
<1>4. ASSUME NEW t \in Threads, handle_rpc(t) PROVE T
  BY <1>0, <1>4 DEF handle_rpc, GoTo, LockOK, Connections
<1>5. ASSUME NEW t \in Threads, finish_rpc(t) PROVE T
  BY <1>0, <1>5 DEF finish_rpc, GoTo, LockOK, Connections
<1>6. ASSUME NEW o \in OwnerThreads, owner_handle(o) PROVE T
  BY <1>0, <1>6 DEF owner_handle, GoTo, LockOK, Connections
<1>7. ASSUME NEW o \in OwnerThreads, replace_known_capabilities(o) PROVE T
  BY <1>0, <1>7 DEF replace_known_capabilities, GoTo, LockOK, Connections
<1>8. ASSUME Tick \/ refuse_connection PROVE T
  BY <1>0, <1>8 DEF Tick, refuse_connection, admissionVars, LockOK
<1> HIDE DEF T
<1>9. T
  BY <1>1, <1>2, <1>3, <1>4, <1>5, <1>6, <1>7, <1>8 DEF AdmissionAction
<1> QED BY <1>9 DEF T

LEMMA KnownStep == AdmissionInv /\ AdmissionNext => KnownOK'
<1> SUFFICES ASSUME AdmissionInv, AdmissionAction PROVE KnownOK'
  BY AdmissionActions
<1>0. /\ KnownOK /\ LockOK /\ phase \in [Connections -> Phases]
      /\ list \in [OwnerThreads -> SUBSET Capabilities]
      /\ OwnerThreads \subseteq Connections /\ Threads \subseteq Connections
  BY DEF AdmissionInv, CountersOK, Connections
<1> DEFINE Quiet == /\ UNCHANGED << issued, revoked, expired, known, list >>
                    /\ \A o \in OwnerThreads : phase'[o] = "publishing" <=> phase[o] = "publishing"
<1>1. ASSUME Quiet PROVE KnownOK'
  BY <1>0, <1>1 DEF KnownOK, active_agent_capabilities
<1>2. ASSUME NEW t \in Threads,
             \/ \E c \in Capabilities : Receive(t, c)
             \/ check_identity(t) \/ is_known_capability(t) \/ admit_unauthenticated(t)
      PROVE  Quiet
  BY <1>0, <1>2 DEF Receive, check_identity, is_known_capability, admit_unauthenticated, Goes,
    GoTo, treasuryState
<1>3. ASSUME NEW t \in Threads, admit_channel(t) \/ admit_capability(t) PROVE Quiet
  BY <1>0, <1>3 DEF admit_channel, admit_capability, Goes, GoTo, treasuryState
<1>4. ASSUME NEW t \in Threads,
             \/ reject_owner_operation(t) \/ drop_capability_guard(t) \/ drop_channel_guard(t)
             \/ handle_rpc(t) \/ finish_rpc(t)
      PROVE  Quiet
  BY <1>0, <1>4 DEF reject_owner_operation, drop_capability_guard, drop_channel_guard, handle_rpc,
    finish_rpc, Goes, GoTo, treasuryState
<1>5. ASSUME refuse_connection PROVE Quiet
  BY <1>0, <1>5 DEF refuse_connection, admissionVars, treasuryState
<1> HIDE DEF Quiet
<1>6. ASSUME NEW o \in OwnerThreads, owner_handle(o) PROVE KnownOK'
  <2>1. /\ list' = [list EXCEPT ![o] = active_agent_capabilities'] /\ known' = known
        /\ phase' = [phase EXCEPT ![o] = "publishing"] /\ phase[o] = "idle"
        /\ issued \subseteq issued' /\ expired' = expired
    BY <1>6 DEF owner_handle, ChangeCapabilities, GoTo
  <2>2. \A p \in OwnerThreads : phase[p] # "publishing" /\ list[p] = {}
    BY <1>0, <1>6 DEF owner_handle, LockOK, KnownOK
  <2>3. /\ list'[o] = active_agent_capabilities' /\ phase'[o] = "publishing"
        /\ \A p \in OwnerThreads \ {o} : list'[p] = {} /\ phase'[p] # "publishing"
    BY <1>0, <2>1, <2>2
  <2>4. /\ active_agent_capabilities' \ expired' = active_agent_capabilities'
        /\ active_agent_capabilities' \subseteq issued'
    BY DEF active_agent_capabilities
  <2> QED BY <1>0, <2>1, <2>3, <2>4 DEF KnownOK
<1>7. ASSUME NEW o \in OwnerThreads, replace_known_capabilities(o) PROVE KnownOK'
  <2>1. /\ known' = list[o] /\ list' = [list EXCEPT ![o] = {}]
        /\ phase[o] = "publishing" /\ phase' = [phase EXCEPT ![o] = "idle"]
        /\ UNCHANGED << issued, revoked, expired >>
    BY <1>7 DEF replace_known_capabilities, GoTo, treasuryState
  <2>2. \A p \in OwnerThreads \ {o} : phase[p] # "publishing"
    BY <1>0, <2>1 DEF LockOK
  <2> QED BY <1>0, <2>1, <2>2 DEF KnownOK, active_agent_capabilities
<1>8. ASSUME Tick PROVE KnownOK'
  <2>1. /\ UNCHANGED << issued, revoked, known, list, phase >>
        /\ expired \subseteq expired'
    BY <1>8 DEF Tick
  <2> QED BY <1>0, <2>1 DEF KnownOK, active_agent_capabilities
<1> QED BY <1>1, <1>2, <1>3, <1>4, <1>5, <1>6, <1>7, <1>8 DEF AdmissionAction
LEMMA HoldersStep == AdmissionInv /\ AdmissionNext => HoldersOK'
<1> SUFFICES ASSUME AdmissionInv, AdmissionAction PROVE HoldersOK'
  BY AdmissionActions
<1>0. /\ HoldersOK /\ CountersOK
      /\ phase \in [Connections -> Phases] /\ Threads \subseteq Connections
      /\ \A t \in InPhase(Admitted) : t \in DOMAIN token
  BY DEF AdmissionInv, CountersOK, Connections, InPhase, Admitted
<1> DEFINE SameHolders ==
             /\ InPhase(Admitted)' = InPhase(Admitted)
             /\ \A t \in InPhase(Admitted) : token'[t] = token[t]
<1>1. ASSUME SameHolders, entries' = entries PROVE HoldersOK'
  BY <1>0, <1>1 DEF HoldersOK
<1>2. ASSUME NEW t \in Threads, NEW c \in Capabilities, Receive(t, c)
      PROVE  SameHolders /\ entries' = entries
  BY <1>0, <1>2 DEF Receive, GoTo, counters, InPhase, Admitted
<1>3. ASSUME NEW t \in Threads,
             \/ check_identity(t) \/ is_known_capability(t) \/ admit_unauthenticated(t)
             \/ admit_channel(t)
      PROVE  SameHolders /\ entries' = entries
  <2>1. PICK p \in {"idle", "identified", "known", "unknown", "channel"} :
          GoTo(t, p) /\ (Goes(t, p) \/ token' = token)
    BY <1>3 DEF check_identity, is_known_capability, admit_unauthenticated, admit_channel, Goes
  <2>2. phase[t] \notin Admitted
    BY <1>3 DEF check_identity, is_known_capability, admit_unauthenticated, admit_channel, Admitted
  <2>3. InPhase(Admitted)' = InPhase(Admitted)
    BY <1>0, <2>1, <2>2 DEF GoTo, InPhase, Admitted
  <2>4. \A u \in InPhase(Admitted) : token'[u] = token[u]
    BY <1>0, <2>1, <2>2, TokenStep DEF InPhase
  <2>5. entries' = entries
    BY <1>3 DEF check_identity, is_known_capability, admit_unauthenticated, admit_channel, counters
  <2> QED BY <2>3, <2>4, <2>5
<1>4. ASSUME NEW t \in Threads, reject_owner_operation(t) \/ handle_rpc(t) \/ finish_rpc(t)
      PROVE  SameHolders /\ entries' = entries
  BY <1>0, <1>4 DEF reject_owner_operation, handle_rpc, finish_rpc, GoTo, counters, InPhase,
    Admitted
<1>5. ASSUME NEW t \in Threads, drop_channel_guard(t) PROVE SameHolders /\ entries' = entries
  <2>1. phase[t] = "closing" /\ phase' = [phase EXCEPT ![t] = "idle"] /\ Goes(t, "idle")
          /\ entries' = entries
    BY <1>5 DEF drop_channel_guard, Goes, GoTo
  <2>2. InPhase(Admitted)' = InPhase(Admitted) /\ t \notin InPhase(Admitted)
    BY <1>0, <2>1 DEF InPhase, Admitted
  <2> QED BY <1>0, <2>1, <2>2, TokenStep
<1>6. ASSUME Tick \/ refuse_connection PROVE SameHolders /\ entries' = entries
  BY <1>6 DEF Tick, refuse_connection, admissionVars, counters, InPhase
<1>7. ASSUME NEW o \in OwnerThreads, owner_handle(o) PROVE SameHolders /\ entries' = entries
  BY <1>0, <1>7 DEF owner_handle, GoTo, counters, InPhase, Admitted
<1>8. ASSUME NEW o \in OwnerThreads, replace_known_capabilities(o) PROVE HoldersOK'
  <2>1. SameHolders
    BY <1>0, <1>8 DEF replace_known_capabilities, GoTo, InPhase, Admitted
  <2>2. /\ DOMAIN entries' \subseteq DOMAIN entries
        /\ \A c \in DOMAIN entries' : entries'[c] = entries[c]
        /\ \A c \in DOMAIN entries : entries[c].in_flight => c \in DOMAIN entries'
    BY <1>8 DEF replace_known_capabilities
  <2> QED BY <1>0, <2>1, <2>2 DEF HoldersOK
<1> HIDE DEF SameHolders
<1>9. ASSUME NEW t \in Threads, drop_capability_guard(t) PROVE HoldersOK'
  <2>1. /\ phase[t] = "releasing" /\ phase' = [phase EXCEPT ![t] = "closing"] /\ token' = token
        /\ DOMAIN entries' = DOMAIN entries
        /\ \A c \in DOMAIN entries :
              entries'[c] = IF c = token[t] THEN [entries[c] EXCEPT !.in_flight = FALSE]
                            ELSE entries[c]
    BY <1>9 DEF drop_capability_guard, GoTo
  <2>2. InPhase(Admitted)' = InPhase(Admitted) \ {t} /\ t \in InPhase(Admitted)
    BY <1>0, <2>1 DEF InPhase, Admitted
  <2>3. \A u \in InPhase(Admitted) \ {t} : token[u] # token[t]
    BY <1>0, <2>2 DEF HoldersOK
  <2>4. token[t] \in DOMAIN entries /\ ~entries'[token[t]].in_flight
    <3>1. token[t] \in DOMAIN entries
      BY <1>0, <2>2 DEF HoldersOK
    <3>2. \A e \in Entry : ~[e EXCEPT !.in_flight = FALSE].in_flight
      BY DEF Entry
    <3> QED BY <1>0, <2>1, <3>1, <3>2 DEF CountersOK
  <2> QED BY <1>0, <2>1, <2>2, <2>3, <2>4 DEF HoldersOK
<1>10. ASSUME NEW t \in Threads, admit_capability(t) PROVE HoldersOK'
  <2> DEFINE c == token[t]
  <2>1. PICK admitted \in BOOLEAN :
          /\ phase' = [phase EXCEPT ![t] = IF admitted THEN "admitted" ELSE "closing"]
          /\ \/ Counted(c, admitted)
             \/ /\ ~admitted /\ c \notin DOMAIN entries'
                /\ c \in DOMAIN entries => ~entries[c].in_flight
    BY <1>0, <1>10, Admitting
  <2>2. /\ DOMAIN entries' \subseteq DOMAIN entries \cup {c}
        /\ \A d \in DOMAIN entries \ {c} :
              /\ d \in DOMAIN entries' => entries'[d] = entries[d]
              /\ entries[d].in_flight => d \in DOMAIN entries'
    BY <1>0, <1>10, Admitting
  <2>3. phase[t] = "channel" /\ token' = token /\ t \notin InPhase(Admitted)
    BY <1>10 DEF admit_capability, InPhase, Admitted
  <2>4. InPhase(Admitted)' = IF admitted THEN InPhase(Admitted) \cup {t} ELSE InPhase(Admitted)
    BY <1>0, <2>1, <2>3 DEF InPhase, Admitted
  <2>5. CASE admitted
    <3>1. /\ c \in DOMAIN entries' /\ entries'[c].in_flight
          /\ c \in DOMAIN entries => ~entries[c].in_flight
      BY <2>1, <2>5 DEF Counted
    <3>2. \A u \in InPhase(Admitted) : token[u] # c
      BY <1>0, <3>1 DEF HoldersOK
    <3> HIDE DEF c
    <3>3. c = token[t]
      BY DEF c
    <3> QED BY <1>0, <2>2, <2>3, <2>4, <2>5, <3>1, <3>2, <3>3 DEF HoldersOK
  <2>6. CASE ~admitted
    <3>1. \/ /\ c \in DOMAIN entries'
             /\ entries'[c].in_flight <=> c \in DOMAIN entries /\ entries[c].in_flight
          \/ c \notin DOMAIN entries' /\ (c \in DOMAIN entries => ~entries[c].in_flight)
      BY <2>1, <2>6 DEF Counted
    <3> HIDE DEF c
    <3> QED BY <1>0, <2>2, <2>3, <2>4, <2>6, <3>1 DEF HoldersOK
  <2> QED BY <2>5, <2>6
<1> QED BY <1>1, <1>2, <1>3, <1>4, <1>5, <1>6, <1>7, <1>8, <1>9, <1>10 DEF AdmissionAction

LEMMA ChannelStep == AdmissionInv /\ AdmissionNext => ChannelOK'
<1> SUFFICES ASSUME AdmissionInv, AdmissionAction PROVE ChannelOK'
  BY AdmissionActions
<1> DEFINE S == InPhase(OnChannel)
<1>0. /\ ChannelOK /\ phase \in [Connections -> Phases]
      /\ channel \in [ requests : Nat, in_flight : Nat, over : BOOLEAN ]
      /\ Threads \subseteq Connections /\ MAX_AGENT_CHANNEL_IN_FLIGHT \in Nat
      /\ IsFiniteSet(S)
  BY AdmissionAssumption, FS_Subset DEF AdmissionInv, CountersOK, Connections, InPhase
<1>1. ASSUME S' = S, channel'.in_flight = channel.in_flight PROVE ChannelOK'
  BY <1>0, <1>1 DEF ChannelOK
<1> DEFINE Quiet == S' = S /\ channel'.in_flight = channel.in_flight
<1>2. ASSUME NEW t \in Threads,
             \/ \E c \in Capabilities : Receive(t, c)
             \/ check_identity(t) \/ is_known_capability(t) \/ admit_unauthenticated(t)
      PROVE  Quiet
  BY <1>0, <1>2 DEF Receive, check_identity, is_known_capability, admit_unauthenticated, Goes,
    GoTo, counters, InPhase, OnChannel
<1>3. ASSUME NEW t \in Threads,
             \/ admit_capability(t) \/ reject_owner_operation(t) \/ handle_rpc(t)
             \/ finish_rpc(t) \/ drop_capability_guard(t)
      PROVE  Quiet
  BY <1>0, <1>3 DEF admit_capability, reject_owner_operation, handle_rpc, finish_rpc,
    drop_capability_guard, GoTo, counters, InPhase, OnChannel
<1>4. ASSUME NEW o \in OwnerThreads, owner_handle(o) \/ replace_known_capabilities(o) PROVE Quiet
  BY <1>0, <1>4 DEF owner_handle, replace_known_capabilities, GoTo, counters, InPhase, OnChannel
<1>5. ASSUME Tick \/ refuse_connection PROVE Quiet
  BY <1>0, <1>5 DEF Tick, refuse_connection, admissionVars, counters, InPhase
<1>6. ASSUME NEW t \in Threads, admit_channel(t) PROVE ChannelOK'
  <2> DEFINE requests == IF channel.over THEN 0 ELSE channel.requests
             admitted == /\ channel.in_flight < MAX_AGENT_CHANNEL_IN_FLIGHT
                         /\ requests < MAX_AGENT_CHANNEL_REQUESTS_PER_SECOND
  <2>1. /\ phase[t] = "known"
        /\ phase' = [phase EXCEPT ![t] = IF admitted THEN "channel" ELSE "idle"]
        /\ channel'.in_flight = channel.in_flight + IF admitted THEN 1 ELSE 0
    BY <1>6 DEF admit_channel, Goes, GoTo
  <2>2. CASE admitted
    <3>1. S' = S \cup {t} /\ t \notin S
      BY <1>0, <2>1, <2>2 DEF InPhase, OnChannel
    <3>2. Cardinality(S \cup {t}) = Cardinality(S) + 1
      BY <1>0, <3>1, FS_AddElement
    <3>3. channel'.in_flight = channel.in_flight + 1
      BY <2>1, <2>2
    <3> HIDE DEF S
    <3>4. channel'.in_flight = Cardinality(S')
      BY <1>0, <3>1, <3>2, <3>3 DEF ChannelOK, S
    <3>5. channel'.in_flight <= MAX_AGENT_CHANNEL_IN_FLIGHT
      BY <1>0, <2>2, <3>3
    <3> QED BY <3>4, <3>5 DEF ChannelOK, S
  <2>3. CASE ~admitted
    <3>1. S' = S
      BY <1>0, <2>1, <2>3 DEF InPhase, OnChannel
    <3>2. channel'.in_flight = channel.in_flight
      BY <1>0, <2>1, <2>3
    <3> QED BY <1>1, <3>1, <3>2
  <2> QED BY <2>2, <2>3
<1>7. ASSUME NEW t \in Threads, drop_channel_guard(t) PROVE ChannelOK'
  <2>1. /\ phase[t] = "closing" /\ phase' = [phase EXCEPT ![t] = "idle"]
        /\ channel'.in_flight = IF channel.in_flight > 0 THEN channel.in_flight - 1 ELSE 0
    BY <1>0, <1>7 DEF drop_channel_guard, Goes, GoTo
  <2>2. S' = S \ {t} /\ t \in S
    BY <1>0, <2>1 DEF InPhase, OnChannel
  <2>3. Cardinality(S \ {t}) = Cardinality(S) - 1 /\ Cardinality(S) \in Nat
    BY <1>0, <2>2, FS_RemoveElement, FS_CardinalityType
  <2>4. Cardinality(S) # 0
    BY <1>0, <2>2, FS_EmptySet
  <2> HIDE DEF S
  <2>5. channel.in_flight = Cardinality(S) /\ channel.in_flight <= MAX_AGENT_CHANNEL_IN_FLIGHT
    BY <1>0 DEF ChannelOK, S
  <2>6. channel'.in_flight = channel.in_flight - 1
    BY <2>1, <2>3, <2>4, <2>5
  <2>7. channel'.in_flight = Cardinality(S')
    BY <2>2, <2>3, <2>5, <2>6
  <2>8. channel'.in_flight <= MAX_AGENT_CHANNEL_IN_FLIGHT
    BY <1>0, <2>3, <2>5, <2>6
  <2> QED BY <2>7, <2>8 DEF ChannelOK, S
<1> HIDE DEF Quiet
<1>8. \/ Quiet
      \/ \E t \in Threads : admit_channel(t) \/ drop_channel_guard(t)
  BY <1>2, <1>3, <1>4, <1>5 DEF AdmissionAction
<1> QED BY <1>1, <1>6, <1>7, <1>8 DEF Quiet
LEMMA RateStep == AdmissionInv /\ AdmissionNext => RateOK'
<1> SUFFICES ASSUME AdmissionInv, AdmissionAction PROVE RateOK'
  BY AdmissionActions
<1> DEFINE Limit == MAX_AGENT_REQUESTS_PER_SECOND
<1>0. /\ RateOK /\ CountersOK /\ KnownOK /\ LockOK
      /\ phase \in [Connections -> Phases] /\ Threads \subseteq Connections
      /\ OwnerThreads \subseteq Connections
      /\ Limit \in Nat \ {0}
      /\ window \in [Capabilities -> 0 .. 2] /\ recent \in [Capabilities -> Nat]
  BY AdmissionAssumption DEF AdmissionInv, CountersOK, Connections
<1> DEFINE Quiet == /\ UNCHANGED << issued, revoked, expired, known, list, entries, window, recent >>
                    /\ \A t \in Threads : phase'[t] \in {"known", "channel"}
                                            => token'[t] \in issued
<1>1. ASSUME Quiet PROVE RateOK'
  BY <1>0, <1>1 DEF RateOK, Still, active_agent_capabilities
<1>2. ASSUME NEW t \in Threads, NEW c \in Capabilities, Receive(t, c) PROVE Quiet
  BY <1>0, <1>2 DEF Receive, GoTo, treasuryState, counters, RateOK, CountersOK
<1>3. ASSUME NEW t \in Threads,
             check_identity(t) \/ admit_unauthenticated(t) \/ admit_channel(t)
      PROVE  Quiet
  <2>1. PICK p \in {"idle", "identified", "channel"} :
          GoTo(t, p) /\ Goes(t, p) /\ (p = "channel" => phase[t] = "known")
    BY <1>3 DEF check_identity, admit_unauthenticated, admit_channel, Goes
  <2>2. UNCHANGED << issued, revoked, expired, known, list, entries, window, recent >>
    BY <1>3 DEF check_identity, admit_unauthenticated, admit_channel, treasuryState, counters
  <2>3. ASSUME NEW u \in Threads, phase'[u] \in {"known", "channel"}
        PROVE  token'[u] \in issued
    <3>1. phase[u] \in {"known", "channel"} /\ (u = t => p # "idle")
      BY <1>0, <2>1, <2>3 DEF GoTo
    <3>2. u \in DOMAIN token /\ token[u] \in issued
      BY <1>0, <3>1 DEF CountersOK, RateOK
    <3> QED BY <2>1, <3>1, <3>2, TokenStep
  <2> QED BY <2>2, <2>3
<1>4. ASSUME NEW t \in Threads, is_known_capability(t) PROVE Quiet
  BY <1>0, <1>4 DEF is_known_capability, GoTo, treasuryState, counters, RateOK, KnownOK
<1>5. ASSUME NEW t \in Threads,
             reject_owner_operation(t) \/ handle_rpc(t) \/ finish_rpc(t)
      PROVE  Quiet
  BY <1>0, <1>5 DEF reject_owner_operation, handle_rpc, finish_rpc, GoTo, treasuryState, counters,
    RateOK
<1>6. ASSUME NEW t \in Threads, drop_channel_guard(t) PROVE Quiet
  <2>1. phase' = [phase EXCEPT ![t] = "idle"] /\ Goes(t, "idle")
    BY <1>6 DEF drop_channel_guard, Goes, GoTo
  <2>2. UNCHANGED << issued, revoked, expired, known, list, entries, window, recent >>
    BY <1>6 DEF drop_channel_guard, treasuryState
  <2>3. ASSUME NEW u \in Threads, phase'[u] \in {"known", "channel"}
        PROVE  token'[u] \in issued
    <3>1. phase[u] \in {"known", "channel"} /\ u # t
      BY <1>0, <2>1, <2>3
    <3>2. u \in DOMAIN token /\ token[u] \in issued
      BY <1>0, <3>1 DEF CountersOK, RateOK
    <3> QED BY <2>1, <3>1, <3>2, TokenStep
  <2> QED BY <2>2, <2>3
<1>7. ASSUME refuse_connection PROVE Quiet
  BY <1>0, <1>7 DEF refuse_connection, admissionVars, treasuryState, counters, RateOK
<1>8. ASSUME NEW t \in Threads, drop_capability_guard(t) PROVE RateOK'
  <2>1. /\ UNCHANGED << issued, revoked, expired, known, list, window, recent, token >>
        /\ phase' = [phase EXCEPT ![t] = "closing"]
        /\ DOMAIN entries' = DOMAIN entries
        /\ \A c \in DOMAIN entries :
              entries'[c] = IF c = token[t] THEN [entries[c] EXCEPT !.in_flight = FALSE]
                            ELSE entries[c]
    BY <1>8 DEF drop_capability_guard, GoTo, treasuryState
  <2>2. \A c \in DOMAIN entries : entries'[c].requests = entries[c].requests
    <3>1. \A e \in Entry : [e EXCEPT !.in_flight = FALSE].requests = e.requests
      BY DEF Entry
    <3> QED BY <1>0, <2>1, <3>1 DEF CountersOK
  <2>3. \A u \in Threads : phase'[u] \in {"known", "channel"} => phase[u] \in {"known", "channel"}
    BY <1>0, <2>1
  <2> QED BY <1>0, <2>1, <2>2, <2>3 DEF RateOK, Still, active_agent_capabilities
<1>9. ASSUME Tick PROVE RateOK'
  <2>1. /\ UNCHANGED << issued, revoked, known, entries, recent, list, phase, token >>
        /\ expired \subseteq expired'
        /\ window' = window
             \/ \E c \in Capabilities : window[c] < 2 /\ window' = [window EXCEPT ![c] = @ + 1]
    BY <1>9 DEF Tick
  <2>2. \A c \in Capabilities : /\ window'[c] = 0 => window[c] = 0
                                /\ window[c] = 2 => window'[c] = 2
    BY <1>0, <2>1
  <2>3. \A c : Still(c)' => Still(c)
    BY <2>1 DEF Still, active_agent_capabilities
  <2> QED BY <1>0, <2>1, <2>2, <2>3 DEF RateOK
<1>10. ASSUME NEW o \in OwnerThreads, owner_handle(o) PROVE RateOK'
  <2>1. /\ list' = [list EXCEPT ![o] = active_agent_capabilities']
        /\ phase' = [phase EXCEPT ![o] = "publishing"]
        /\ issued \subseteq issued' /\ revoked \subseteq revoked'
        /\ UNCHANGED << expired, known, entries, window, recent, token >>
    BY <1>10 DEF owner_handle, ChangeCapabilities, GoTo, counters
  <2>2. \A c : Still(c)' => Still(c) \/ c \notin issued
    <3>1. \A c : c \in active_agent_capabilities' => Still(c) \/ c \notin issued
      BY <2>1 DEF Still, active_agent_capabilities
    <3>2. \A p \in OwnerThreads : list'[p] = list[p] \/ list'[p] = active_agent_capabilities'
      BY <1>0, <2>1 DEF CountersOK
    <3> QED BY <2>1, <3>1, <3>2 DEF Still
  <2>3. \A c \in Capabilities \ issued : recent[c] <= Limit /\ window[c] # 0
    BY <1>0 DEF RateOK
  <2>4. \A u \in Threads : phase'[u] \in {"known", "channel"} => phase[u] \in {"known", "channel"}
    BY <1>0, <2>1
  <2> QED BY <1>0, <2>1, <2>2, <2>3, <2>4 DEF RateOK
<1>11. ASSUME NEW o \in OwnerThreads, replace_known_capabilities(o) PROVE RateOK'
  <2>1. /\ known' = list[o] /\ list' = [list EXCEPT ![o] = {}]
        /\ phase[o] = "publishing" /\ phase' = [phase EXCEPT ![o] = "idle"]
        /\ UNCHANGED << issued, revoked, expired, window, recent, token >>
        /\ \A c \in DOMAIN entries : c \in list[o] => c \in DOMAIN entries' /\ entries'[c] = entries[c]
    BY <1>11 DEF replace_known_capabilities, GoTo, treasuryState
  <2>2. \A p \in OwnerThreads : list'[p] = {}
    <3>1. \A p \in OwnerThreads \ {o} : phase[p] # "publishing"
      BY <1>0, <2>1 DEF LockOK
    <3> QED BY <1>0, <2>1, <3>1 DEF KnownOK, CountersOK
  <2>3. active_agent_capabilities \subseteq list[o]
    BY <1>0, <2>1 DEF KnownOK
  <2>4. \A c : Still(c)' => Still(c) /\ c \in list[o]
    BY <2>1, <2>2, <2>3 DEF Still, active_agent_capabilities
  <2>5. \A u \in Threads : phase'[u] \in {"known", "channel"} => phase[u] \in {"known", "channel"}
    BY <1>0, <2>1
  <2> QED BY <1>0, <2>1, <2>4, <2>5 DEF RateOK
<1>12. ASSUME NEW t \in Threads, admit_capability(t) PROVE RateOK'
  <2> DEFINE c == token[t]
  <2>1. PICK admitted \in BOOLEAN :
          /\ phase' = [phase EXCEPT ![t] = IF admitted THEN "admitted" ELSE "closing"]
          /\ \/ Counted(c, admitted)
             \/ /\ UNCHANGED << window, recent >>
                /\ c \in DOMAIN entries => window[c] = 2
    BY <1>0, <1>12, Admitting
  <2>2. /\ c \in Capabilities
        /\ \A d \in DOMAIN entries \ {c} :
              /\ d \in DOMAIN entries' => entries'[d] = entries[d]
              /\ window[d] < 2 => d \in DOMAIN entries'
    BY <1>0, <1>12, Admitting
  <2>3. /\ UNCHANGED << issued, revoked, expired, known, list, token >> /\ phase[t] = "channel"
    BY <1>12 DEF admit_capability, treasuryState
  <2>4. c \in issued
    BY <1>0, <2>3 DEF RateOK
  <2>5. \A u \in Threads : phase'[u] \in {"known", "channel"} => phase[u] \in {"known", "channel"}
    BY <1>0, <2>1
  <2>6. \A d : Still(d)' <=> Still(d)
    BY <2>3 DEF Still, active_agent_capabilities
  <2> HIDE DEF c
  <2>7. \A d \in Capabilities \ {c} : window'[d] = window[d] /\ recent'[d] = recent[d]
    BY <1>0, <2>1, <2>2 DEF Counted
  <2>8. ASSUME Still(c)
        PROVE  /\ recent'[c] <= Limit
               /\ window'[c] = 0 => c \in DOMAIN entries' /\ recent'[c] <= entries'[c].requests
    <3>1. /\ recent[c] \in Nat /\ recent[c] <= Limit /\ window[c] \in 0 .. 2
          /\ window[c] = 0 => c \in DOMAIN entries /\ recent[c] <= entries[c].requests
      BY <1>0, <2>2, <2>8 DEF RateOK
    <3>2. CASE Counted(c, admitted)
      <4> DEFINE one == IF admitted THEN 1 ELSE 0
      <4>1. /\ c \in DOMAIN entries' /\ entries'[c].requests \in 0 .. Limit /\ one \in {0, 1}
        BY <3>2 DEF Counted, Entry
      <4>2. CASE window[c] = 0
        <5>1. /\ recent'[c] = recent[c] + one
              /\ entries'[c].requests = entries[c].requests + one
              /\ c \in DOMAIN entries
          BY <1>0, <2>2, <3>1, <3>2, <4>2 DEF Counted
        <5>2. entries[c].requests \in 0 .. Limit
          BY <1>0, <5>1 DEF CountersOK, Entry
        <5> HIDE DEF one
        <5> QED BY <1>0, <3>1, <4>1, <4>2, <5>1, <5>2
      <4>3. CASE window[c] # 0
        <5>1. recent'[c] = one /\ entries'[c].requests = one
          BY <1>0, <2>2, <3>2, <4>3 DEF Counted
        <5> HIDE DEF one
        <5> QED BY <1>0, <4>1, <5>1
      <4> QED BY <4>2, <4>3
    <3>3. CASE ~Counted(c, admitted)
      <4>1. UNCHANGED << window, recent >> /\ (c \in DOMAIN entries => window[c] = 2)
        BY <2>1, <3>3
      <4> QED BY <3>1, <4>1
    <3> QED BY <3>2, <3>3
  <2>9. ASSUME NEW d \in Capabilities \ {c}, Still(d)
        PROVE  /\ recent'[d] <= Limit
               /\ window'[d] = 0 => d \in DOMAIN entries' /\ recent'[d] <= entries'[d].requests
    BY <1>0, <2>2, <2>7, <2>9 DEF RateOK
  <2>10. \A d \in Capabilities \ issued : window'[d] = 2 /\ recent'[d] = 0
    BY <1>0, <2>4, <2>7 DEF RateOK
  <2>11. \A d \in Capabilities :
           Still(d)' =>
             /\ recent'[d] <= Limit
             /\ window'[d] = 0 => d \in DOMAIN entries' /\ recent'[d] <= entries'[d].requests
    BY <2>6, <2>8, <2>9
  <2>12. \A u \in Threads : phase'[u] \in {"known", "channel"} => token'[u] \in issued'
    BY <1>0, <2>3, <2>5 DEF RateOK
  <2> QED BY <2>3, <2>10, <2>11, <2>12 DEF RateOK
<1> HIDE DEF Quiet
<1> QED BY <1>1, <1>2, <1>3, <1>4, <1>5, <1>6, <1>7, <1>8, <1>9, <1>10, <1>11, <1>12
  DEF AdmissionAction
LEMMA AdmissionInvStep == AdmissionInv /\ [AdmissionNext]_admissionVars => AdmissionInv'
<1>1. CASE AdmissionNext
  BY <1>1, CountersStep, LockStep, KnownStep, HoldersStep, ChannelStep, RateStep DEF AdmissionInv
<1>2. CASE UNCHANGED admissionVars
  BY <1>2 DEF admissionVars, treasuryState, counters, AdmissionInv, CountersOK, LockOK, KnownOK,
    HoldersOK, ChannelOK, RateOK, Still, InPhase, active_agent_capabilities
<1> QED BY <1>1, <1>2

-----------------------------------------------------------------------------
(* The theorems.                                                            *)

LEMMA AdmissionInvariant == AdmissionSpec => []AdmissionInv
<1> QED BY AdmissionInvInit, AdmissionInvStep, PTL DEF AdmissionSpec

(* Whenever no call is in the treasury, the admission knows exactly the     *)
(* capabilities it would authenticate, however many owners change them at   *)
(* once (handle_connection, replace_known_capabilities).                    *)
THEOREM KnownAreCurrent == AdmissionSpec => []KnownIsCurrent
<1>1. AdmissionInv => KnownIsCurrent
  BY DEF AdmissionInv, LockOK, KnownOK, KnownIsCurrent, Connections
<1> QED BY <1>1, AdmissionInvariant, PTL

(* The channel's and the capabilities' counters are the requests in flight, *)
(* and no capability has two (the guards of AgentAdmission).                *)
THEOREM GuardsAreRequests == AdmissionSpec => []GuardsMatchRequests
<1>1. AdmissionInv => GuardsMatchRequests
  <2> SUFFICES ASSUME AdmissionInv, NEW c \in Capabilities
               PROVE  LET holders == { t \in InPhase(Admitted) : token[t] = c }
                      IN Cardinality(holders) =
                           IF c \in DOMAIN entries /\ entries[c].in_flight THEN 1 ELSE 0
    BY DEF AdmissionInv, ChannelOK, OnChannel, Admitted, GuardsMatchRequests
  <2> DEFINE holders == { t \in InPhase(Admitted) : token[t] = c }
  <2>0. HoldersOK
    BY DEF AdmissionInv
  <2>1. CASE c \in DOMAIN entries /\ entries[c].in_flight
    <3>1. PICK t \in InPhase(Admitted) : token[t] = c
      BY <2>0, <2>1 DEF HoldersOK
    <3>2. holders = {t}
      BY <2>0, <3>1 DEF HoldersOK
    <3> QED BY <2>1, <3>2, FS_Singleton
  <2>2. CASE ~(c \in DOMAIN entries /\ entries[c].in_flight)
    <3>1. holders = {}
      BY <2>0, <2>2 DEF HoldersOK
    <3> QED BY <2>2, <3>1, FS_EmptySet
  <2> QED BY <2>1, <2>2
<1> QED BY <1>1, AdmissionInvariant, PTL

(* No capability that is known is admitted more often in its window than    *)
(* the limit, whatever entries were cleared away in between                 *)
(* (admit_capability, replace_known_capabilities).                          *)
THEOREM RateIsKept == AdmissionSpec => []RateIsHeld
<1>1. AdmissionInv => RateIsHeld
  <2> SUFFICES ASSUME AdmissionInv, NEW c \in known
               PROVE  recent[c] <= MAX_AGENT_REQUESTS_PER_SECOND
    BY DEF RateIsHeld
  <2>1. c \in Capabilities /\ Still(c)
    BY DEF AdmissionInv, CountersOK, KnownOK, Still
  <2> QED BY <2>1 DEF AdmissionInv, RateOK
<1> QED BY <1>1, AdmissionInvariant, PTL

(* Once the manual provider is used, a connection of the broker's own user  *)
(* that had not been looked at is never served (handle_connection reads the *)
(* mode of every request under the treasury's mutex).                       *)
THEOREM OwnUserNotServed == AdmissionSpec => OnlyPassedAreServed
<1> SUFFICES ASSUME NEW t \in SameUid
             PROVE  AdmissionSpec =>
                      [](provider_mode = "manual_prepaid_card" /\ phase[t] \in {"idle", "received"}
                           => [](phase[t] # "serving"))
  BY DEF OnlyPassedAreServed
<1> DEFINE Waits == /\ provider_mode = "manual_prepaid_card"
                    /\ phase[t] \in {"idle", "received", "publishing"}
<1>1. AdmissionInv /\ Waits /\ [AdmissionNext]_admissionVars => Waits'
  <2> SUFFICES ASSUME AdmissionInv, Waits, AdmissionAction PROVE Waits'
    BY AdmissionActions DEF admissionVars, treasuryState
  <2>0. /\ phase \in [Connections -> Phases] /\ t \in Connections
        /\ ProviderModes \subseteq {"simulated", "manual_prepaid_card"}
    BY AdmissionAssumption DEF AdmissionInv, CountersOK, Connections
  <2>1. ASSUME NEW u \in Threads, NEW c \in Capabilities, Receive(u, c) PROVE Waits'
    BY <2>0, <2>1 DEF Receive, GoTo, treasuryState
  <2>2. ASSUME NEW u \in Threads, check_identity(u) PROVE Waits'
    BY <2>0, <2>2 DEF check_identity, Refused, Goes, GoTo, treasuryState
  <2>3. ASSUME NEW u \in Threads,
               is_known_capability(u) \/ admit_unauthenticated(u) \/ admit_channel(u)
               \/ admit_capability(u)
        PROVE  Waits'
    BY <2>0, <2>3 DEF is_known_capability, admit_unauthenticated, admit_channel, admit_capability,
      Goes, GoTo, treasuryState
  <2>4. ASSUME NEW u \in Threads,
               reject_owner_operation(u) \/ handle_rpc(u) \/ finish_rpc(u)
               \/ drop_capability_guard(u) \/ drop_channel_guard(u)
        PROVE  Waits'
    BY <2>0, <2>4 DEF reject_owner_operation, handle_rpc, finish_rpc, drop_capability_guard,
      drop_channel_guard, Goes, GoTo, treasuryState
  <2>5. ASSUME NEW o \in OwnerThreads, owner_handle(o) PROVE Waits'
    <3>1. provider_mode' = "manual_prepaid_card"
      BY <2>0, <2>5 DEF owner_handle, ChangeCapabilities
    <3> QED BY <2>0, <2>5, <3>1 DEF owner_handle, GoTo
  <2>6. ASSUME NEW o \in OwnerThreads, replace_known_capabilities(o) PROVE Waits'
    BY <2>0, <2>6 DEF replace_known_capabilities, GoTo, treasuryState
  <2>7. ASSUME refuse_connection \/ Tick PROVE Waits'
    BY <2>7 DEF refuse_connection, Tick, admissionVars, treasuryState
  <2> HIDE DEF Waits
  <2> QED BY <2>1, <2>2, <2>3, <2>4, <2>5, <2>6, <2>7 DEF AdmissionAction
<1>2. provider_mode = "manual_prepaid_card" /\ phase[t] \in {"idle", "received"} => Waits
  OBVIOUS
<1>3. Waits => phase[t] # "serving"
  OBVIOUS
<1>4. AdmissionSpec => [][AdmissionNext]_admissionVars
  BY DEF AdmissionSpec
<1> HIDE DEF Waits
<1> QED BY <1>1, <1>2, <1>3, <1>4, AdmissionInvariant, PTL

-----------------------------------------------------------------------------
(* What RequestsEnd rests on besides fairness: no circle of connections     *)
(* waits for each other, and no request goes on for ever.                   *)

(* The connections whose next step waits for nobody: only the look at the   *)
(* provider mode and the call itself take the treasury's mutex; the guards  *)
(* of every other step are the phase the connection is in.                  *)
CanGoOn(x) ==
  phase[x] # "idle" /\ (phase[x] \in {"received", "admitted"} => treasury_lock = {})

(* While any request is open some connection can go on with its own: who    *)
(* holds the treasury's mutex is in the call or about to publish and needs  *)
(* nothing else to give it back (handle_connection).                        *)
THEOREM NobodyIsStuck ==
  AdmissionSpec =>
    []((\E x \in Connections : phase[x] # "idle") => \E x \in Connections : CanGoOn(x))
<1>1. AdmissionInv =>
        ((\E x \in Connections : phase[x] # "idle") => \E x \in Connections : CanGoOn(x))
  <2> SUFFICES ASSUME AdmissionInv, NEW x \in Connections, phase[x] # "idle"
               PROVE  \E y \in Connections : CanGoOn(y)
    OBVIOUS
  <2>1. CASE treasury_lock = {}
    BY <2>1 DEF CanGoOn
  <2>2. ASSUME NEW y \in Connections, treasury_lock = {y}
        PROVE  CanGoOn(y)
    <3>1. phase[y] \in {"serving", "publishing"}
      BY <2>2 DEF AdmissionInv, LockOK
    <3> QED BY <3>1 DEF CanGoOn
  <2> QED BY <2>1, <2>2 DEF AdmissionInv, LockOK
<1> QED BY <1>1, AdmissionInvariant, PTL

(* The steps a request in phase p may still take.                           *)
StepsLeft(p) ==
  CASE p = "idle" -> 0
    [] p \in {"unknown", "closing", "publishing"} -> 1
    [] p = "releasing" -> 2
    [] p = "serving" -> 3
    [] p = "admitted" -> 4
    [] p = "channel" -> 5
    [] p = "known" -> 6
    [] p = "identified" -> 7
    [] p = "received" -> 8

GoesForward(x) ==
  phase'[x] = phase[x] \/ phase[x] = "idle" \/ StepsLeft(phase'[x]) < StepsLeft(phase[x])

LEMMA ForwardStep ==
  ASSUME AdmissionInv, AdmissionAction, NEW x \in Connections
  PROVE  GoesForward(x)
<1>0. phase \in [Connections -> Phases]
  BY DEF AdmissionInv, CountersOK
<1>1. ASSUME NEW y \in Connections, NEW p, GoTo(y, p),
             phase[y] = "idle" \/ StepsLeft(p) < StepsLeft(phase[y])
      PROVE  GoesForward(x)
  BY <1>0, <1>1 DEF GoTo, GoesForward
<1>2. ASSUME NEW t \in Threads, NEW c \in Capabilities, Receive(t, c)
      PROVE  GoesForward(x)
  BY <1>1, <1>2 DEF Receive, Connections
<1>3. ASSUME NEW t \in Threads,
             check_identity(t) \/ is_known_capability(t) \/ admit_unauthenticated(t)
      PROVE  GoesForward(x)
  BY <1>1, <1>3 DEF check_identity, is_known_capability, admit_unauthenticated, Goes,
                    Connections, StepsLeft
<1>4. ASSUME NEW t \in Threads, admit_channel(t) \/ admit_capability(t)
      PROVE  GoesForward(x)
  BY <1>1, <1>4 DEF admit_channel, admit_capability, Goes, Connections, StepsLeft
<1>5. ASSUME NEW t \in Threads,
             \/ reject_owner_operation(t) \/ handle_rpc(t) \/ finish_rpc(t)
             \/ drop_capability_guard(t) \/ drop_channel_guard(t)
      PROVE  GoesForward(x)
  BY <1>1, <1>5 DEF reject_owner_operation, handle_rpc, finish_rpc, drop_capability_guard,
                    drop_channel_guard, Goes, Connections, StepsLeft
<1>6. ASSUME NEW o \in OwnerThreads, owner_handle(o) \/ replace_known_capabilities(o)
      PROVE  GoesForward(x)
  BY <1>1, <1>6 DEF owner_handle, replace_known_capabilities, Connections, StepsLeft
<1>7. ASSUME refuse_connection \/ Tick PROVE GoesForward(x)
  BY <1>7 DEF refuse_connection, Tick, admissionVars, GoesForward
<1> QED BY <1>2, <1>3, <1>4, <1>5, <1>6, <1>7 DEF AdmissionAction

(* Every step of a request leaves it fewer steps than it had, and no step   *)
(* of another connection, of an owner or of the clock sends it back: it     *)
(* ends after eight steps of its own at the latest, whatever it meets       *)
(* (handle_connection returns on every path).                               *)
THEOREM RequestsGoForward ==
  AdmissionSpec => [][\A x \in Connections : GoesForward(x)]_admissionVars
<1>1. AdmissionInv /\ [AdmissionNext]_admissionVars => \A x \in Connections : GoesForward(x)
  <2>1. ASSUME UNCHANGED admissionVars PROVE \A x \in Connections : GoesForward(x)
    BY <2>1 DEF admissionVars, GoesForward
  <2> QED BY <2>1, ForwardStep, AdmissionActions
<1> QED BY <1>1, AdmissionInvariant, PTL DEF AdmissionSpec

=============================================================================
