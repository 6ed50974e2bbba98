------------------------------ MODULE Admission ------------------------------
(***************************************************************************)
(* The daemon's connections (handle_connection in apps/daemon/src/main.rs) *)
(* and AgentAdmission, which bounds what agents may ask of the treasury.   *)
(* Each connection is a thread.  Two mutexes order them: the admission's,  *)
(* held for one step at a time, and the treasury's, held over a whole      *)
(* call.  An agent's request takes four separate looks at the admission,   *)
(* and an owner's call may replace the known capabilities between any two  *)
(* of them.  Threads are the slots of connection_limit.                    *)
(***************************************************************************)
EXTENDS Naturals, FiniteSets

CONSTANTS
  Threads,          \* connections on the agent socket (MAX_CONNECTIONS)
  OwnerThreads,     \* connections on the owner socket (MAX_OWNER_CONNECTIONS)
  SameUid,          \* agent connections whose peer runs as the broker's own user
  ProviderModes,    \* provider modes the owner uses
  Capabilities,     \* capability tokens the owner may ever issue
  MAX_AGENT_ADMISSION_ENTRIES,
  MAX_AGENT_REQUESTS_PER_SECOND,
  MAX_AGENT_CHANNEL_REQUESTS_PER_SECOND,
  MAX_AGENT_CHANNEL_IN_FLIGHT,
  MAX_UNAUTHENTICATED_REQUESTS_PER_SECOND

ASSUME AdmissionAssumption ==
  /\ IsFiniteSet(Threads) /\ SameUid \subseteq Threads
  /\ ProviderModes \subseteq {"simulated", "manual_prepaid_card"}
  /\ {MAX_AGENT_ADMISSION_ENTRIES, MAX_AGENT_REQUESTS_PER_SECOND,
      MAX_AGENT_CHANNEL_REQUESTS_PER_SECOND, MAX_AGENT_CHANNEL_IN_FLIGHT,
      MAX_UNAUTHENTICATED_REQUESTS_PER_SECOND} \subseteq Nat \ {0}

VARIABLES
  issued,            \* capabilities of agents the treasury has or had
  revoked,           \* issued capabilities revoked or rotated away
  expired,           \* issued capabilities past their expires_at
  provider_mode,     \* the treasury's
  reject_broker_uid, \* whether the listener refuses the broker's own user
  known,             \* known_capabilities of the admission
  entries,           \* capability -> its AgentAdmissionEntry
  window,            \* capability -> whole seconds since its window_started
  recent,            \* capability -> admissions in that window (history)
  channel,           \* requests and in_flight of all agents, window over or not
  unauthenticated,   \* requests with unknown capabilities, window over or not
  treasury_lock,     \* the connection that holds the treasury mutex, as a set
  phase,             \* where each connection is
  token,             \* the capability in each request under way
  list               \* active_agent_capabilities as an owner call read it

admissionVars ==
  << issued, revoked, expired, provider_mode, reject_broker_uid, known, entries, window, recent, channel,
     unauthenticated, treasury_lock, phase, token, list >>

treasuryState == << issued, revoked, expired, provider_mode, reject_broker_uid >>
counters == << entries, window, recent, channel, unauthenticated >>

active_agent_capabilities == issued \ (revoked \cup expired)

GoTo(t, p) == phase' = [phase EXCEPT ![t] = p]

(* The request goes on to p, or is answered when p is "idle".               *)
Goes(t, p) ==
  /\ GoTo(t, p)
  /\ token' = [ u \in IF p = "idle" THEN DOMAIN token \ {t} ELSE DOMAIN token |-> token[u] ]

-----------------------------------------------------------------------------
(* An agent's request, thread t.                                            *)

Receive(t, c) ==
  /\ phase[t] = "idle" /\ (t \in SameUid => ~reject_broker_uid)
  /\ token' = [ u \in DOMAIN token \cup {t} |-> IF u = t THEN c ELSE token[u] ]
  /\ GoTo(t, "received")
  /\ UNCHANGED << treasuryState, known, counters, treasury_lock, list >>

(* Slip: the mode is the one the daemon was started with.                   *)
Refused_as_started(t) == reject_broker_uid /\ t \in SameUid

Refused(t) == provider_mode = "manual_prepaid_card" /\ t \in SameUid

(* Slip: the guard of the mutex lives on after the look at the mode.        *)
check_identity_keeping_lock(t) ==
  /\ phase[t] = "received" /\ treasury_lock = {}
  /\ treasury_lock' = IF Refused(t) THEN {} ELSE {t}
  /\ Goes(t, IF Refused(t) THEN "idle" ELSE "identified")
  /\ UNCHANGED << treasuryState, known, counters, list >>

(* The provider mode is looked at under the treasury mutex, which is given  *)
(* back at once: the manual provider's agents run as another user.          *)
check_identity(t) ==
  /\ phase[t] = "received" /\ treasury_lock = {}
  /\ Goes(t, IF Refused(t) THEN "idle" ELSE "identified")
  /\ UNCHANGED << treasuryState, known, counters, treasury_lock, list >>

is_known_capability(t) ==
  /\ phase[t] = "identified"
  /\ GoTo(t, IF token[t] \in known \ expired THEN "known" ELSE "unknown")
  /\ UNCHANGED << treasuryState, known, counters, treasury_lock, token, list >>

(* The request is answered with a rejection, counted or not.                *)
admit_unauthenticated(t) ==
  LET requests == IF unauthenticated.over THEN 0 ELSE unauthenticated.requests
      admitted == requests < MAX_UNAUTHENTICATED_REQUESTS_PER_SECOND
  IN /\ phase[t] = "unknown"
     /\ unauthenticated' =
          [ requests |-> IF admitted THEN requests + 1 ELSE requests, over |-> FALSE ]
     /\ Goes(t, "idle")
     /\ UNCHANGED << treasuryState, known, entries, window, recent, channel,
                     treasury_lock, list >>

admit_channel(t) ==
  LET requests == IF channel.over THEN 0 ELSE channel.requests
      admitted == /\ channel.in_flight < MAX_AGENT_CHANNEL_IN_FLIGHT
                  /\ requests < MAX_AGENT_CHANNEL_REQUESTS_PER_SECOND
      one == IF admitted THEN 1 ELSE 0
  IN /\ phase[t] = "known"
     /\ channel' = [ requests |-> requests + one,
                     in_flight |-> channel.in_flight + one, over |-> FALSE ]
     /\ Goes(t, IF admitted THEN "channel" ELSE "idle")
     /\ UNCHANGED << treasuryState, known, entries, window, recent,
                     unauthenticated, treasury_lock, list >>

(* Entries that admit_capability does not clear away.                       *)
forget_idle_entries == { c \in DOMAIN entries : entries[c].in_flight }
retained == { c \in DOMAIN entries : entries[c].in_flight \/ window[c] < 2 }

(* One request at a time and so many a second for each capability.          *)
admit_capability(t) ==
  LET c == token[t]
      full == c \notin retained
                /\ Cardinality(retained) >= MAX_AGENT_ADMISSION_ENTRIES
      busy == c \in retained /\ entries[c].in_flight
      opens == c \notin retained \/ window[c] >= 1
      requests == IF opens THEN 0 ELSE entries[c].requests
      admitted == ~full /\ ~busy /\ requests < MAX_AGENT_REQUESTS_PER_SECOND
      one == IF admitted THEN 1 ELSE 0
      entry == [ requests |-> requests + one, in_flight |-> busy \/ admitted ]
  IN /\ phase[t] = "channel"
     /\ entries' = [ d \in retained \cup (IF full THEN {} ELSE {c}) |->
                       IF d = c THEN entry ELSE entries[d] ]
     /\ window' = [window EXCEPT ![c] = IF ~full /\ opens THEN 0 ELSE @]
     /\ recent' = [recent EXCEPT
          ![c] = (IF ~full /\ window[c] >= 1 THEN 0 ELSE @) + one]
     /\ GoTo(t, IF admitted THEN "admitted" ELSE "closing")
     /\ UNCHANGED << treasuryState, known, channel, unauthenticated,
                     treasury_lock, token, list >>

(* An owner operation on the agent socket is rejected without the treasury. *)
reject_owner_operation(t) ==
  /\ phase[t] = "admitted"
  /\ GoTo(t, "releasing")
  /\ UNCHANGED << treasuryState, known, counters, treasury_lock, token, list >>

(* handle_rpc_persisted, or a whole controlled checkout, under the mutex.   *)
handle_rpc(t) ==
  /\ phase[t] = "admitted"
  /\ treasury_lock = {}
  /\ treasury_lock' = {t}
  /\ GoTo(t, "serving")
  /\ UNCHANGED << treasuryState, known, counters, token, list >>

finish_rpc(t) ==
  /\ phase[t] = "serving"
  /\ treasury_lock' = {}
  /\ GoTo(t, "releasing")
  /\ UNCHANGED << treasuryState, known, counters, token, list >>

(* The guards are dropped, the capability's first.                          *)
drop_capability_guard(t) ==
  /\ phase[t] = "releasing"
  /\ entries' = [ c \in DOMAIN entries |->
                    IF c = token[t] THEN [entries[c] EXCEPT !.in_flight = FALSE]
                    ELSE entries[c] ]
  /\ GoTo(t, "closing")
  /\ UNCHANGED << treasuryState, known, window, recent, channel, unauthenticated,
                  treasury_lock, token, list >>

drop_channel_guard(t) ==
  /\ phase[t] = "closing"
  /\ channel' = [channel EXCEPT !.in_flight = IF @ > 0 THEN @ - 1 ELSE 0]
  /\ Goes(t, "idle")
  /\ UNCHANGED << treasuryState, known, entries, window, recent, unauthenticated,
                  treasury_lock, list >>

-----------------------------------------------------------------------------
(* An owner's call, thread o: what it does to capabilities (create, rotate, *)
(* revoke, or nothing) or to the provider, which never becomes the          *)
(* simulator again, and the list it reads, under the treasury mutex.        *)
ChangeCapabilities ==
  /\ \/ \E c \in Capabilities \ issued :
          /\ issued' = issued \cup {c}
          /\ \/ revoked' = revoked
             \/ \E old \in issued \ revoked : revoked' = revoked \cup {old}
          /\ UNCHANGED provider_mode
     \/ /\ \E c \in issued \ revoked : revoked' = revoked \cup {c}
        /\ UNCHANGED << issued, provider_mode >>
     \/ /\ provider_mode' \in {provider_mode} \cup (ProviderModes \ {"simulated"})
        /\ UNCHANGED << issued, revoked >>
  /\ UNCHANGED << expired, reject_broker_uid >>

(* Slip: the mutex is given back before the list is handed on.              *)
owner_handle_unlocked(o) ==
  /\ phase[o] = "idle"
  /\ treasury_lock = {}
  /\ ChangeCapabilities
  /\ list' = [list EXCEPT ![o] = active_agent_capabilities']
  /\ GoTo(o, "publishing")
  /\ UNCHANGED << known, counters, treasury_lock, token >>

owner_handle(o) ==
  /\ phase[o] = "idle"
  /\ treasury_lock = {}
  /\ treasury_lock' = {o}
  /\ ChangeCapabilities
  /\ list' = [list EXCEPT ![o] = active_agent_capabilities']
  /\ GoTo(o, "publishing")
  /\ UNCHANGED << known, counters, token >>

(* Slip: entries of requests in flight are forgotten too.                   *)
replace_all_entries(o) ==
  /\ phase[o] = "publishing"
  /\ known' = list[o]
  /\ entries' = [ c \in DOMAIN entries \cap list[o] |-> entries[c] ]
  /\ treasury_lock' = treasury_lock \ {o}
  /\ GoTo(o, "idle")
  /\ list' = [list EXCEPT ![o] = {}]
  /\ UNCHANGED << treasuryState, window, recent, channel, unauthenticated, token >>

replace_known_capabilities(o) ==
  /\ phase[o] = "publishing"
  /\ known' = list[o]
  /\ entries' = [ c \in { d \in DOMAIN entries : entries[d].in_flight \/ d \in list[o] }
                    |-> entries[c] ]
  /\ treasury_lock' = treasury_lock \ {o}
  /\ GoTo(o, "idle")
  /\ list' = [list EXCEPT ![o] = {}]
  /\ UNCHANGED << treasuryState, window, recent, channel, unauthenticated, token >>

-----------------------------------------------------------------------------
(* The clock: a window or a capability passes a limit.  The windows started *)
(* at different moments, so each passes its second on its own.              *)
Tick ==
  /\ \/ \E c \in Capabilities :
          /\ window[c] < 2
          /\ window' = [window EXCEPT ![c] = @ + 1]
          /\ UNCHANGED << channel, unauthenticated, expired >>
     \/ /\ ~channel.over
        /\ channel' = [channel EXCEPT !.over = TRUE]
        /\ UNCHANGED << window, unauthenticated, expired >>
     \/ /\ ~unauthenticated.over
        /\ unauthenticated' = [unauthenticated EXCEPT !.over = TRUE]
        /\ UNCHANGED << window, channel, expired >>
     \/ \E c \in issued \ expired :
          /\ expired' = expired \cup {c}
          /\ UNCHANGED << window, channel, unauthenticated >>
  /\ UNCHANGED << issued, revoked, provider_mode, reject_broker_uid, known, entries,
                  recent, treasury_lock, phase, token, list >>

(* serve_listener answers a connection at once, and nothing else happens:   *)
(* the peer is the broker's own user and the listener refuses it, or every  *)
(* slot is in use and the broker is busy.                                   *)
refuse_connection ==
  /\ \/ reject_broker_uid /\ SameUid # {}
     \/ \A t \in Threads : phase[t] # "idle"
     \/ \A o \in OwnerThreads : phase[o] # "idle"
  /\ UNCHANGED admissionVars

(* serve_command: the capabilities of the loaded treasury are known, and    *)
(* the listener goes by the provider it was loaded with.                    *)
AdmissionInit ==
  /\ issued \in SUBSET Capabilities
  /\ revoked = {} /\ expired = {}
  /\ provider_mode \in ProviderModes
  /\ reject_broker_uid = (provider_mode = "manual_prepaid_card")
  /\ known = issued
  /\ entries = << >>
  /\ window = [ c \in Capabilities |-> 2 ]
  /\ recent = [ c \in Capabilities |-> 0 ]
  /\ channel = [ requests |-> 0, in_flight |-> 0, over |-> FALSE ]
  /\ unauthenticated = [ requests |-> 0, over |-> FALSE ]
  /\ treasury_lock = {}
  /\ phase = [ t \in Threads \cup OwnerThreads |-> "idle" ]
  /\ token = << >>
  /\ list = [ o \in OwnerThreads |-> {} ]

handle_connection(t) ==
  \/ check_identity(t) \/ is_known_capability(t) \/ admit_unauthenticated(t)
  \/ admit_channel(t) \/ admit_capability(t)
  \/ handle_rpc(t) \/ finish_rpc(t)
  \/ drop_capability_guard(t) \/ drop_channel_guard(t)

AgentStep(t) ==
  \/ \E c \in Capabilities : Receive(t, c)
  \/ handle_connection(t) \/ reject_owner_operation(t)

OwnerStep(o) == owner_handle(o) \/ replace_known_capabilities(o)

AdmissionNext ==
  \/ \E t \in Threads : AgentStep(t)
  \/ \E o \in OwnerThreads : OwnerStep(o)
  \/ refuse_connection
  \/ Tick

AdmissionSpec == AdmissionInit /\ [][AdmissionNext]_admissionVars

(* A connection's thread runs while it can, and a checkout returns (see     *)
(* CheckoutProcess).  A request need not be one that is rejected without    *)
(* the treasury; nothing is asked of the mutex but that it is given to      *)
(* somebody, and nothing of the clock or of the clients.                    *)
RequestSpec ==
  /\ AdmissionSpec
  /\ \A t \in Threads : WF_admissionVars(handle_connection(t))
  /\ \A o \in OwnerThreads : WF_admissionVars(replace_known_capabilities(o))

-----------------------------------------------------------------------------
(* Properties.                                                              *)

InPhase(S) == { t \in Threads : phase[t] \in S }

(* The counters tell how many requests really are in flight: as many as     *)
(* hold a channel guard, and one for each capability marked in flight, also *)
(* when the capability was rotated away in the middle of its request.       *)
GuardsMatchRequests ==
  /\ channel.in_flight =
       Cardinality(InPhase({"channel", "admitted", "serving", "releasing", "closing"}))
  /\ channel.in_flight <= MAX_AGENT_CHANNEL_IN_FLIGHT
  /\ \A c \in Capabilities :
       LET holders == { t \in InPhase({"admitted", "serving", "releasing"}) : token[t] = c }
       IN Cardinality(holders) =
            IF c \in DOMAIN entries /\ entries[c].in_flight THEN 1 ELSE 0

(* A capability that is still known is never admitted more often within its *)
(* window than the limit: clearing entries away forgets no request of it.   *)
RateIsHeld ==
  \A c \in known : recent[c] <= MAX_AGENT_REQUESTS_PER_SECOND

(* Whenever no call is in the treasury, the admission knows exactly the     *)
(* capabilities the treasury would authenticate: concurrent owner calls     *)
(* never leave a revoked one known or a new one unknown.                    *)
KnownIsCurrent ==
  treasury_lock = {} => known \ expired = active_agent_capabilities

(* Every request is answered: once no new ones come, all connections become *)
(* idle again, whatever locks and limits they met.                          *)
RequestsEnd ==
  <>[][\A t \in Threads \cup OwnerThreads : phase[t] = "idle" => phase'[t] = "idle"]_admissionVars
    => <>[](\A t \in Threads \cup OwnerThreads : phase[t] = "idle")

(* "Switching the provider to manual mode after daemon startup does not     *)
(* create a grace period" (docs/deployment.md), but for the request that    *)
(* had been looked at: a connection of the broker's own user that is idle   *)
(* or still to be looked at when the manual provider comes is never served. *)
OnlyPassedAreServed ==
  \A t \in SameUid :
    [](provider_mode = "manual_prepaid_card" /\ phase[t] \in {"idle", "received"}
         => [](phase[t] # "serving"))

=============================================================================
