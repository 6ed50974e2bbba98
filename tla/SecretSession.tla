---------------------------- MODULE SecretSession ----------------------------
(***************************************************************************)
(* The owner's payment session: the dashboard that starts and stops the    *)
(* secret helper (arm_payment_session, stop_payment_session in             *)
(* apps/owner-dashboard/server.py), the helper process that holds the card *)
(* (serve_secret_helper in apps/daemon/src/main.rs), the broker that       *)
(* fetches it with a signed grant (fetch_for_owner_operation in            *)
(* crates/domain/src/lib.rs), and the directory of redeemed nonces, which  *)
(* outlives them all.  Grants are correctly signed; a grant may reach a    *)
(* helper twice, expire on the way, and a power failure may come at any    *)
(* moment.  Helper processes share one socket path.                        *)
(***************************************************************************)
EXTENDS Naturals, FiniteSets

CONSTANTS
  Threads,          \* request threads of the dashboard
  Helpers,          \* helper processes, each started at most once
  Connections,      \* connections to a helper; a fresh grant is named after its own
  max_operations    \* operations a session serves

ASSUME SessionAssumption == max_operations \in Nat \ {0}

VARIABLES
  session_lock,     \* the thread that holds _payment_session_lock, as a set
  thread,           \* where each dashboard thread is
  starting,         \* thread -> the helper it has just started, as a set
  tracked,          \* _payment_session, as a set
  path,             \* the helper whose socket file is at session.sock, as a set
  helper,           \* each helper process
  conn,             \* each connection to a helper
  redeemed,         \* grants with a file in the redemption directory
  durable,          \* those whose file survives a power failure
  expired,          \* grants past expires_at
  served,           \* how often the card was sent for each grant (history)
  ended             \* a stop returned and no arm began since (history)

dashboard == << session_lock, thread, starting, tracked, ended >>
store == << redeemed, durable, expired, served >>
sessionVars == << dashboard, path, helper, conn, store >>

TypeOK ==
  /\ session_lock \subseteq Threads
  /\ thread \in [Threads -> {"idle", "arm_stopped", "arm_ready", "arm_wait",
                             "stopped", "report"}]
  /\ starting \in [Threads -> SUBSET Helpers]
  /\ tracked \subseteq Helpers /\ path \subseteq Helpers
  /\ helper \in [Helpers ->
       [ state : {"none", "starting", "listening", "reading", "redeeming",
                  "answering", "leaving", "exited"},
         completed : 0 .. max_operations, overdue : BOOLEAN,
         stream : SUBSET Connections ]]
  /\ conn \in [Connections ->
       [ state : {"unused", "open", "received", "closed"}, at : SUBSET Helpers,
         grant : Connections, framed : BOOLEAN, queued : BOOLEAN,
         answered : BOOLEAN ]]
  /\ durable \subseteq redeemed /\ redeemed \subseteq Connections
  /\ expired \subseteq Connections
  /\ served \in [Connections -> Nat]
  /\ ended \in BOOLEAN

Running(h) == helper[h].state \notin {"none", "exited"}
Listening(h) == Running(h) /\ helper[h].state # "starting"

-----------------------------------------------------------------------------
(* The dashboard.                                                           *)

GoTo(t, s) == thread' = [thread EXCEPT ![t] = s]

Kill(S) ==
  helper' = [ h \in Helpers |->
                IF h \in S /\ Running(h) THEN [helper[h] EXCEPT !.state = "exited"]
                ELSE helper[h] ]

(* Slip: only the socket is taken away, the helper is left to its deadline. *)
stop_unlinks_only(t, next) ==
  /\ thread[t] = "idle"
  /\ session_lock = {}
  /\ session_lock' = {t}
  /\ GoTo(t, next)
  /\ ended' = (next = "stopped" /\ ended)
  /\ UNCHANGED << starting, tracked, path, helper, conn, store >>

(* stop_payment_session, called by the owner or at the start of arming:     *)
(* under the lock, the tracked helper is terminated and waited for ...      *)
stop_payment_session(t, next) ==
  /\ thread[t] = "idle"
  /\ session_lock = {}
  /\ session_lock' = {t}
  /\ Kill(tracked)
  /\ GoTo(t, next)
  /\ ended' = (next = "stopped" /\ ended)
  /\ UNCHANGED << starting, tracked, path, conn, store >>

stop_begin(t) == stop_payment_session(t, "stopped")
arm_begin(t) == stop_payment_session(t, "arm_stopped")

(* ... then it is forgotten, and whatever is at the socket path is removed. *)
stop_unlink(t) ==
  /\ thread[t] \in {"stopped", "arm_stopped"}
  /\ session_lock' = {} /\ tracked' = {} /\ path' = {}
  /\ GoTo(t, IF thread[t] = "stopped" THEN "report" ELSE "arm_ready")
  /\ ended' = (ended \/ (thread[t] = "stopped"
                           /\ \A u \in Threads \ {t} : thread[u] \in {"idle", "report"}))
  /\ UNCHANGED << starting, helper, conn, store >>

(* arm_payment_session, after it stopped the previous one: under the lock,  *)
(* which was free in between, a helper is started with the card on stdin.   *)
arm_spawn(t, h) ==
  /\ thread[t] = "arm_ready"
  /\ session_lock = {}
  /\ helper[h].state = "none"
  /\ session_lock' = {t}
  /\ helper' = [helper EXCEPT ![h].state = "starting"]
  /\ starting' = [starting EXCEPT ![t] = {h}]
  /\ GoTo(t, "arm_wait")
  /\ ended' = FALSE
  /\ UNCHANGED << tracked, path, conn, store >>

(* The socket exists and the helper has not exited: it is the session now.  *)
arm_succeeds(t) ==
  /\ thread[t] = "arm_wait"
  /\ path # {} /\ \A h \in starting[t] : Running(h)
  /\ tracked' = starting[t]
  /\ session_lock' = {} /\ starting' = [starting EXCEPT ![t] = {}]
  /\ GoTo(t, "report")
  /\ UNCHANGED << path, helper, conn, store, ended >>

(* The helper exited, or no socket after three seconds: it is killed.       *)
arm_fails(t) ==
  /\ thread[t] = "arm_wait"
  /\ path = {} \/ \E h \in starting[t] : ~Running(h)
  /\ Kill(starting[t])
  /\ session_lock' = {} /\ starting' = [starting EXCEPT ![t] = {}]
  /\ GoTo(t, "idle")
  /\ UNCHANGED << tracked, path, conn, store, ended >>

(* payment_session_status: a helper found dead is forgotten.                *)
payment_session_status(t) ==
  /\ thread[t] \in {"idle", "report"}
  /\ session_lock = {}
  /\ tracked' = { h \in tracked : Running(h) }
  /\ GoTo(t, "idle")
  /\ UNCHANGED << session_lock, starting, path, helper, conn, store, ended >>

-----------------------------------------------------------------------------
(* The helper process h.                                                    *)

(* serve_secret_helper: refuse an existing socket, or bind it.              *)
bind(h) ==
  /\ helper[h].state = "starting"
  /\ IF path = {} THEN /\ path' = {h}
                       /\ helper' = [helper EXCEPT ![h].state = "listening"]
     ELSE /\ UNCHANGED path
          /\ helper' = [helper EXCEPT ![h].state = "exited"]
  /\ UNCHANGED << dashboard, conn, store >>

accept(h, c) ==
  /\ helper[h].state = "listening"
  /\ conn[c].queued /\ h \in conn[c].at
  /\ helper' = [helper EXCEPT ![h].state = "reading", ![h].stream = {c}]
  /\ conn' = [conn EXCEPT ![c].queued = FALSE]
  /\ UNCHANGED << dashboard, path, store >>

(* Slip: a session that served nothing waits for its first operation.       *)
session_expires_after_use(h) ==
  /\ helper[h].state = "listening"
  /\ helper[h].overdue /\ helper[h].completed > 0
  /\ \A c \in Connections : ~(conn[c].queued /\ h \in conn[c].at)
  /\ helper' = [helper EXCEPT ![h].state = "leaving"]
  /\ UNCHANGED << dashboard, path, conn, store >>

(* The deadline is looked at only when no connection is waiting.            *)
session_expires(h) ==
  /\ helper[h].state = "listening"
  /\ helper[h].overdue
  /\ \A c \in Connections : ~(conn[c].queued /\ h \in conn[c].at)
  /\ helper' = [helper EXCEPT ![h].state = "leaving"]
  /\ UNCHANGED << dashboard, path, conn, store >>

Leaves(h) ==
  /\ helper' = [helper EXCEPT ![h].state = "leaving"]
  /\ UNCHANGED << redeemed, durable, served >>

(* Slip: the nonce's file is looked for and not created.                    *)
redeem_looks_only(h) ==
  /\ helper[h].state = "reading"
  /\ \E c \in helper[h].stream :
       LET g == conn[c].grant
           accepted == conn[c].framed /\ g \notin expired \cup redeemed
       IN \/ ~accepted /\ Leaves(h)
          \/ /\ accepted
             /\ helper' = [helper EXCEPT ![h].state = "redeeming"]
             /\ UNCHANGED << redeemed, durable, served >>
  /\ UNCHANGED << dashboard, path, conn, expired >>

(* redeem_owner_helper_operation: an expired grant is refused, and the      *)
(* nonce's file is created unless it exists.  A refusal, like a frame that  *)
(* never comes, ends the session.                                           *)
redeem(h) ==
  /\ helper[h].state = "reading"
  /\ \E c \in helper[h].stream :
       LET g == conn[c].grant
           accepted == conn[c].framed /\ g \notin expired \cup redeemed
       IN \/ ~accepted /\ Leaves(h)
          \/ /\ accepted
             /\ redeemed' = redeemed \cup {g}
             /\ helper' = [helper EXCEPT ![h].state = "redeeming"]
             /\ UNCHANGED << durable, served >>
  /\ UNCHANGED << dashboard, path, conn, expired >>

(* Slip: the card is sent before the redemption is on disk.                 *)
sync_after_answer(h) ==
  /\ helper[h].state = "redeeming"
  /\ helper' = [helper EXCEPT ![h].state = "answering"]
  /\ UNCHANGED << dashboard, path, conn, store >>

(* The file and its directory are synced, or the session ends on the error. *)
sync(h) ==
  /\ helper[h].state = "redeeming"
  /\ \/ Leaves(h)
     \/ \E c \in helper[h].stream :
          /\ durable' = durable \cup {conn[c].grant}
          /\ helper' = [helper EXCEPT ![h].state = "answering"]
          /\ UNCHANGED << redeemed, served >>
  /\ UNCHANGED << dashboard, path, conn, expired >>

(* The card is sent, unless the broker has closed the connection.           *)
answer(h) ==
  /\ helper[h].state = "answering"
  /\ \E c \in helper[h].stream :
       \/ /\ conn[c].state = "closed"
          /\ Leaves(h) /\ UNCHANGED conn
       \/ /\ conn[c].state = "open"
          /\ conn' = [conn EXCEPT ![c].answered = TRUE]
          /\ served' = [served EXCEPT ![conn[c].grant] = @ + 1]
          /\ helper' = [helper EXCEPT ![h].completed = @ + 1, ![h].stream = {},
               ![h].state = IF helper[h].completed + 1 < max_operations
                            THEN "listening" ELSE "leaving"]
          /\ UNCHANGED << redeemed, durable >>
  /\ UNCHANGED << dashboard, path, expired >>

(* SocketPathGuard is dropped and the process ends; the card is zeroed.     *)
leave(h) ==
  /\ helper[h].state = "leaving"
  /\ path' = {}
  /\ helper' = [helper EXCEPT ![h].state = "exited", ![h].stream = {}]
  /\ UNCHANGED << dashboard, conn, store >>

-----------------------------------------------------------------------------
(* The broker's fetch_for_owner_operation on connection c.                  *)

UnderWay(c) == conn[c].state = "open"

(* One checkout at a time fetches with a grant of its own; a grant that was *)
(* sent before may be delivered again at any time.                          *)
connect(c, g) ==
  /\ conn[c].state = "unused"
  /\ \/ g = c /\ \A d \in Connections : ~(UnderWay(d) /\ conn[d].grant = d)
     \/ g # c /\ conn[g].framed
  /\ \E h \in path :
       /\ Listening(h)
       /\ conn' = [conn EXCEPT ![c] = [ state |-> "open", at |-> {h}, grant |-> g,
            framed |-> FALSE, queued |-> TRUE, answered |-> FALSE ]]
  /\ UNCHANGED << dashboard, path, helper, store >>

send(c) ==
  /\ UnderWay(c) /\ ~conn[c].framed
  /\ conn' = [conn EXCEPT ![c].framed = TRUE]
  /\ UNCHANGED << dashboard, path, helper, store >>

receive(c) ==
  /\ UnderWay(c) /\ conn[c].answered
  /\ conn' = [conn EXCEPT ![c].state = "received"]
  /\ UNCHANGED << dashboard, path, helper, store >>

(* The handoff deadline passes, or the helper's end of the stream is gone.  *)
give_up(c) ==
  /\ UnderWay(c)
  /\ conn' = [conn EXCEPT ![c].state = "closed"]
  /\ UNCHANGED << dashboard, path, helper, store >>

-----------------------------------------------------------------------------
(* The clocks.                                                              *)
session_deadline(h) ==
  /\ Listening(h) /\ ~helper[h].overdue
  /\ helper' = [helper EXCEPT ![h].overdue = TRUE]
  /\ UNCHANGED << dashboard, path, conn, store >>

grant_expires(g) ==
  /\ conn[g].state # "unused" /\ g \notin expired
  /\ expired' = expired \cup {g}
  /\ UNCHANGED << dashboard, path, helper, conn, redeemed, durable, served >>

(* The host loses power: every process is gone, and so may be each file     *)
(* that was not synced.  The socket file may stay.                          *)
PowerFailure ==
  /\ \E h \in Helpers : Running(h)
  /\ session_lock' = {} /\ thread' = [ t \in Threads |-> "idle" ]
  /\ starting' = [ t \in Threads |-> {} ] /\ tracked' = {}
  /\ path' \in {path, {}}
  /\ Kill(Helpers)
  /\ conn' = [ c \in Connections |->
       IF UnderWay(c) THEN [conn[c] EXCEPT !.state = "closed"] ELSE conn[c] ]
  /\ \E lost \in SUBSET (redeemed \ durable) : redeemed' = redeemed \ lost
  /\ UNCHANGED << durable, expired, served, ended >>

-----------------------------------------------------------------------------
SessionInit ==
  /\ session_lock = {} /\ thread = [ t \in Threads |-> "idle" ]
  /\ starting = [ t \in Threads |-> {} ]
  /\ tracked = {} /\ path = {}
  /\ helper = [ h \in Helpers |-> [ state |-> "none", completed |-> 0,
                                    overdue |-> FALSE, stream |-> {} ] ]
  /\ conn = [ c \in Connections |->
       [ state |-> "unused", at |-> {}, grant |-> c, framed |-> FALSE,
         queued |-> FALSE, answered |-> FALSE ] ]
  /\ redeemed = {} /\ durable = {} /\ expired = {}
  /\ served = [ g \in Connections |-> 0 ]
  /\ ended = TRUE

DashboardStep(t) ==
  \/ stop_begin(t) \/ arm_begin(t) \/ stop_unlink(t)
  \/ \E h \in Helpers : arm_spawn(t, h)
  \/ arm_succeeds(t) \/ arm_fails(t) \/ payment_session_status(t)

HelperStep(h) ==
  \/ bind(h) \/ \E c \in Connections : accept(h, c)
  \/ session_expires(h) \/ redeem(h) \/ sync(h) \/ answer(h) \/ leave(h)

BrokerStep(c) ==
  \/ \E g \in Connections : connect(c, g)
  \/ send(c) \/ receive(c) \/ give_up(c)

SessionNext ==
  \/ \E t \in Threads : DashboardStep(t)
  \/ \E h \in Helpers : HelperStep(h) \/ session_deadline(h)
  \/ \E c \in Connections : BrokerStep(c) \/ grant_expires(c)
  \/ PowerFailure

(* A running process takes its steps, time passes, and a fetch ends at its  *)
(* deadline at the latest.                                                  *)
SessionSpec ==
  /\ SessionInit /\ [][SessionNext]_sessionVars
  /\ \A h \in Helpers : WF_sessionVars(HelperStep(h))
                        /\ WF_sessionVars(session_deadline(h))

-----------------------------------------------------------------------------
(* Properties.                                                              *)

(* "The helper redeems the grant once" (docs/architecture.md): whatever is  *)
(* delivered twice, restarted, or lost in a power failure, the card leaves  *)
(* a helper at most once for each grant.                                    *)
CardSentOncePerGrant == \A g \in Connections : served[g] <= 1

(* "The helper child is terminated when the owner ends the session"         *)
(* (docs/deployment.md): after stop_payment_session has returned, and until *)
(* the owner arms again, no helper process is left, whatever became of the  *)
(* arming before it.  It holds while requests of the dashboard come one     *)
(* after the other; two that arm at once can leave a helper untracked.      *)
StopEndsHelpers == ended => \A h \in Helpers : ~Running(h)

(* The card leaves the memory again: every helper ends, whether it was used *)
(* or not, and whatever its connections do.                                 *)
HelperEnds == \A h \in Helpers : Running(h) ~> ~Running(h)

=============================================================================
