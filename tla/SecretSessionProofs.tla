------------------------ MODULE SecretSessionProofs -------------------------
(***************************************************************************)
(* Machine-checked proofs about SecretSession, for any number of threads,  *)
(* helpers and connections: the card leaves a helper at most once for each *)
(* grant, and, while requests come one after the other, stopping a session *)
(* leaves no helper.                                                       *)
(*                                                                         *)
(* The first is an argument about the redemption directory alone: a card   *)
(* sent has its grant's file on disk, and a helper about to send one has   *)
(* created the file itself.  Neither the socket path nor the dashboard's   *)
(* lock plays a part in it.                                                *)
(***************************************************************************)
EXTENDS SecretSession, TLAPS

HelperStates == {"none", "starting", "listening", "reading", "redeeming", "answering",
                 "leaving", "exited"}

Helper == [ state : HelperStates, completed : 0 .. max_operations, overdue : BOOLEAN,
            stream : SUBSET Connections ]

Connection == [ state : {"unused", "open", "received", "closed"}, at : SUBSET Helpers,
                grant : Connections, framed : BOOLEAN, queued : BOOLEAN,
                answered : BOOLEAN ]

(* TypeOK without the helpers and the connections.                          *)
SessionTyped ==
  /\ session_lock \subseteq Threads
  /\ thread \in [Threads -> {"idle", "arm_stopped", "arm_ready", "arm_wait",
                             "stopped", "report"}]
  /\ starting \in [Threads -> SUBSET Helpers]
  /\ tracked \subseteq Helpers /\ path \subseteq Helpers
  /\ durable \subseteq redeemed /\ redeemed \subseteq Connections
  /\ expired \subseteq Connections
  /\ served \in [Connections -> Nat]
  /\ ended \in BOOLEAN

Redeemer(h) == helper[h].state \in {"redeeming", "answering"}

(* A helper that serves has an operation left; it reads one connection at a *)
(* time, and that connection's grant does not change any more.              *)
Streams ==
  /\ \A h \in Helpers :
       /\ helper[h].state \notin {"leaving", "exited"} =>
            helper[h].completed < max_operations
       /\ \A c \in helper[h].stream :
            conn[c].state # "unused" /\ \A d \in helper[h].stream : d = c
  /\ \A c \in Connections : conn[c].queued => conn[c].state # "unused"

(* The card was not sent for the grant a helper has redeemed, the file of   *)
(* the grant is there, and is synced before the card is sent.               *)
Redeemed ==
  \A h \in Helpers : Redeemer(h) =>
    \A c \in helper[h].stream :
      /\ conn[c].grant \in redeemed /\ served[conn[c].grant] = 0
      /\ helper[h].state = "answering" => conn[c].grant \in durable

(* No two helpers have redeemed the same grant.                             *)
Apart ==
  \A h, k \in Helpers : h # k /\ Redeemer(h) /\ Redeemer(k) =>
    \A c \in helper[h].stream, d \in helper[k].stream : conn[c].grant # conn[d].grant

SentIsDurable == \A g \in Connections : served[g] > 0 => g \in durable

(* The requests of the dashboard come one after the other.                  *)
OneAtATime == \A t, u \in Threads : t = u

NoHelper == \A h \in Helpers : ~Running(h)

(* Then the dashboard knows every running helper.                           *)
Known ==
  /\ \A h \in Helpers : Running(h) =>
       h \in tracked \/ \E t \in Threads : h \in starting[t]
  /\ \A t \in Threads :
       /\ thread[t] # "arm_wait" => starting[t] = {}
       /\ thread[t] \in {"arm_ready", "arm_wait"} => tracked = {}
       /\ thread[t] \in {"stopped", "arm_stopped", "arm_ready"} => NoHelper
  /\ StopEndsHelpers

(* The inductive invariant.                                                 *)
SessionInv ==
  /\ TypeOK /\ Streams /\ Redeemed /\ Apart /\ SentIsDurable /\ CardSentOncePerGrant
  /\ OneAtATime => Known
(* The actions of SessionNext, one by one.                                  *)
SessionAction ==
  \/ \E t \in Threads :
       \/ stop_begin(t) \/ arm_begin(t) \/ stop_unlink(t)
       \/ \E h \in Helpers : arm_spawn(t, h)
       \/ arm_succeeds(t) \/ arm_fails(t) \/ payment_session_status(t)
  \/ \E h \in Helpers :
       \/ bind(h) \/ \E c \in Connections : accept(h, c)
       \/ session_expires(h) \/ redeem(h) \/ sync(h) \/ answer(h) \/ leave(h)
       \/ session_deadline(h)
  \/ \E c \in Connections :
       \/ \E g \in Connections : connect(c, g)
       \/ send(c) \/ receive(c) \/ give_up(c) \/ grant_expires(c)
  \/ PowerFailure

LEMMA SessionActions == SessionNext => SessionAction
  BY DEF SessionNext, SessionAction, DashboardStep, HelperStep, BrokerStep

-----------------------------------------------------------------------------
LEMMA TypeIs ==
  TypeOK <=> /\ SessionTyped
             /\ helper \in [Helpers -> Helper] /\ conn \in [Connections -> Connection]
  BY DEF TypeOK, SessionTyped, Helper, HelperStates, Connection

LEMMA SessionInvInit == SessionInit => SessionInv
<1> SUFFICES ASSUME SessionInit PROVE SessionInv
  OBVIOUS
<1>0. max_operations \in Nat \ {0} /\ 0 \in 0 .. max_operations
  BY SessionAssumption
<1>1. helper \in [Helpers -> Helper]
  BY <1>0 DEF SessionInit, Helper, HelperStates
<1>2. conn \in [Connections -> Connection]
  BY DEF SessionInit, Connection
<1>3. SessionTyped
  BY DEF SessionInit, SessionTyped
<1>4. \A h \in Helpers : helper[h].state = "none" /\ helper[h].stream = {}
                         /\ helper[h].completed = 0
  BY DEF SessionInit
<1>5. Streams
  BY <1>0, <1>4 DEF SessionInit, Streams
<1>6. \A h \in Helpers : ~Redeemer(h) /\ ~Running(h)
  BY <1>4 DEF Redeemer, Running
<1>7. SentIsDurable /\ CardSentOncePerGrant
  BY DEF SessionInit, SentIsDurable, CardSentOncePerGrant
<1>8. Known
  BY <1>6 DEF SessionInit, Known, StopEndsHelpers, NoHelper
<1> QED BY <1>1, <1>2, <1>3, <1>5, <1>6, <1>7, <1>8, TypeIs DEF SessionInv, Redeemed, Apart

-----------------------------------------------------------------------------
(* What becomes of the helpers.                                             *)

Moves(h, s, n, S) ==
  /\ helper' \in [Helpers -> Helper]
  /\ \A k \in Helpers \ {h} : helper'[k] = helper[k]
  /\ helper'[h].state = s /\ helper'[h].completed = n /\ helper'[h].stream = S

LEMMA Goes ==
  ASSUME helper \in [Helpers -> Helper], NEW h \in Helpers, NEW s \in HelperStates,
         helper' = [helper EXCEPT ![h].state = s]
  PROVE  Moves(h, s, helper[h].completed, helper[h].stream)
<1> DEFINE e == [helper[h] EXCEPT !.state = s]
<1>1. /\ e \in Helper /\ e.state = s /\ e.completed = helper[h].completed
      /\ e.stream = helper[h].stream
  BY DEF Helper
<1>2. helper' = [helper EXCEPT ![h] = e]
  OBVIOUS
<1> HIDE DEF e
<1> QED BY <1>1, <1>2 DEF Moves

LEMMA Killing ==
  ASSUME helper \in [Helpers -> Helper], NEW S, Kill(S)
  PROVE  /\ helper' \in [Helpers -> Helper]
         /\ \A h \in Helpers :
              /\ helper'[h].stream = helper[h].stream
              /\ helper'[h].completed = helper[h].completed
              /\ helper'[h].state = IF h \in S /\ Running(h) THEN "exited"
                                    ELSE helper[h].state
<1>1. ASSUME NEW h \in Helpers
      PROVE  /\ helper'[h] \in Helper
             /\ helper'[h].stream = helper[h].stream
             /\ helper'[h].completed = helper[h].completed
             /\ helper'[h].state = IF h \in S /\ Running(h) THEN "exited"
                                   ELSE helper[h].state
  BY DEF Kill, Helper, HelperStates
<1>2. helper' = [ h \in Helpers |-> helper'[h] ]
  BY DEF Kill
<1> QED BY <1>1, <1>2

(* A step that sends no card: nobody takes up a grant, and a connection is  *)
(* read only once it was queued.                                            *)
Unsent ==
  /\ UNCHANGED << redeemed, durable, served >>
  /\ helper' \in [Helpers -> Helper]
  /\ \A h \in Helpers :
       /\ Redeemer(h)' => helper'[h].state = helper[h].state
                          /\ helper'[h].stream = helper[h].stream
       /\ helper'[h].state \notin {"leaving", "exited"} =>
            helper'[h].completed < max_operations
       /\ \/ helper'[h].stream \in {helper[h].stream, {}}
          \/ \E c \in Connections : conn[c].queued /\ helper'[h].stream = {c}

(* The steps of a helper that redeems, syncs or answers the connection c.   *)
Redeems(h, c) ==
  /\ c \in helper[h].stream /\ conn[c].grant \notin redeemed /\ helper[h].state = "reading"
  /\ redeemed' = redeemed \cup {conn[c].grant} /\ UNCHANGED << durable, served >>
  /\ Moves(h, "redeeming", helper[h].completed, helper[h].stream)

Syncs(h, c) ==
  /\ c \in helper[h].stream /\ helper[h].state = "redeeming"
  /\ durable' = durable \cup {conn[c].grant} /\ UNCHANGED << redeemed, served >>
  /\ Moves(h, "answering", helper[h].completed, helper[h].stream)

Sends(h, c) ==
  /\ c \in helper[h].stream /\ helper[h].state = "answering"
  /\ served' = [served EXCEPT ![conn[c].grant] = @ + 1] /\ UNCHANGED << redeemed, durable >>
  /\ \/ Moves(h, "leaving", helper[h].completed + 1, {})
     \/ helper[h].completed + 1 < max_operations
        /\ Moves(h, "listening", helper[h].completed + 1, {})

PowerFails ==
  /\ NoHelper' /\ helper' \in [Helpers -> Helper]
  /\ \A h \in Helpers :
       /\ helper'[h].stream = helper[h].stream
       /\ helper'[h].completed = helper[h].completed
       /\ helper'[h].state \in {helper[h].state, "exited"}
  /\ durable \subseteq redeemed' /\ redeemed' \subseteq redeemed
  /\ UNCHANGED << durable, served >>

Served ==
  \/ Unsent \/ PowerFails
  \/ \E h \in Helpers, c \in Connections : Redeems(h, c) \/ Syncs(h, c) \/ Sends(h, c)
LEMMA ServedStep ==
  ASSUME SessionInv, SessionAction
  PROVE  Served
<1>0. /\ helper \in [Helpers -> Helper] /\ conn \in [Connections -> Connection]
      /\ SessionTyped /\ Streams /\ max_operations \in Nat \ {0}
  BY TypeIs, SessionAssumption DEF SessionInv
(* Nothing is sent by the steps that leave the helpers alone, ...           *)
<1>1. ASSUME UNCHANGED << redeemed, durable, served, helper >> PROVE Unsent
  BY <1>0, <1>1 DEF Unsent, Streams
(* ... that only move one on, ...                                           *)
<1>2. ASSUME NEW h \in Helpers, NEW s \in HelperStates \ {"redeeming", "answering"},
             UNCHANGED << redeemed, durable, served >>,
             s \notin {"leaving", "exited"} => helper[h].state \notin {"leaving", "exited"},
             helper' = [helper EXCEPT ![h].state = s]
      PROVE  Unsent
  <2>1. Moves(h, s, helper[h].completed, helper[h].stream)
    BY <1>0, <1>2, Goes
  <2> QED BY <1>0, <1>2, <2>1 DEF Unsent, Moves, Streams, Redeemer
(* ... or that kill some.                                                   *)
<1>3. ASSUME NEW S, Kill(S), UNCHANGED << redeemed, durable, served >> PROVE Unsent
  <2>1. /\ helper' \in [Helpers -> Helper]
        /\ \A h \in Helpers :
              /\ helper'[h].stream = helper[h].stream
              /\ helper'[h].completed = helper[h].completed
              /\ helper'[h].state = IF h \in S /\ Running(h) THEN "exited"
                                    ELSE helper[h].state
    BY <1>0, <1>3, Killing
  <2> QED BY <1>0, <1>3, <2>1 DEF Unsent, Streams, Redeemer
<1>4. ASSUME NEW t \in Threads,
             \/ stop_begin(t) \/ arm_begin(t) \/ arm_fails(t)
      PROVE  Unsent
  <2>1. \E S : Kill(S)
    BY <1>4 DEF stop_begin, arm_begin, arm_fails, stop_payment_session
  <2>2. UNCHANGED << redeemed, durable, served >>
    BY <1>4 DEF stop_begin, arm_begin, arm_fails, stop_payment_session, store
  <2> QED BY <1>3, <2>1, <2>2
<1>5. ASSUME \/ \E t \in Threads : stop_unlink(t) \/ arm_succeeds(t) \/ payment_session_status(t)
             \/ \E c \in Connections :
                  \/ \E g \in Connections : connect(c, g)
                  \/ send(c) \/ receive(c) \/ give_up(c) \/ grant_expires(c)
      PROVE  Unsent
  <2>1. UNCHANGED << redeemed, durable, served, helper >>
    BY <1>5 DEF stop_unlink, arm_succeeds, payment_session_status, connect, send, receive,
      give_up, grant_expires, store
  <2> QED BY <1>1, <2>1
<1>6. ASSUME NEW t \in Threads, NEW h \in Helpers, arm_spawn(t, h) PROVE Unsent
  <2>1. /\ UNCHANGED << redeemed, durable, served >> /\ helper[h].state = "none"
        /\ helper' = [helper EXCEPT ![h].state = "starting"]
    BY <1>6 DEF arm_spawn, store
  <2> QED BY <1>2, <2>1 DEF HelperStates
<1>7. ASSUME NEW h \in Helpers, bind(h) \/ session_expires(h) PROVE Unsent
  <2>1. /\ UNCHANGED << redeemed, durable, served >>
        /\ helper[h].state \in {"starting", "listening"}
        /\ \E s \in {"listening", "exited", "leaving"} :
             helper' = [helper EXCEPT ![h].state = s]
    BY <1>7 DEF bind, session_expires, store
  <2> QED BY <1>2, <2>1 DEF HelperStates
<1>8. ASSUME NEW h \in Helpers, NEW c \in Connections, accept(h, c) PROVE Unsent
  <2> DEFINE e == [helper[h] EXCEPT !.state = "reading", !.stream = {c}]
  <2>1. /\ e \in Helper /\ e.state = "reading" /\ e.completed = helper[h].completed
        /\ e.stream = {c}
    BY <1>0, <1>8 DEF Helper, HelperStates
  <2>2. /\ helper' = [helper EXCEPT ![h] = e] /\ conn[c].queued
        /\ helper[h].state = "listening" /\ UNCHANGED << redeemed, durable, served >>
    BY <1>0, <1>8 DEF accept, store
  <2> HIDE DEF e
  <2> QED BY <1>0, <2>1, <2>2 DEF Unsent, Streams, Redeemer
<1>9. ASSUME NEW h \in Helpers, leave(h) PROVE Unsent
  <2> DEFINE e == [helper[h] EXCEPT !.state = "exited", !.stream = {}]
  <2>1. /\ e \in Helper /\ e.state = "exited" /\ e.stream = {}
    BY <1>0 DEF Helper, HelperStates
  <2>2. /\ helper' = [helper EXCEPT ![h] = e] /\ UNCHANGED << redeemed, durable, served >>
    BY <1>0, <1>9 DEF leave, store
  <2> HIDE DEF e
  <2> QED BY <1>0, <2>1, <2>2 DEF Unsent, Streams, Redeemer
<1>10. ASSUME NEW h \in Helpers, session_deadline(h) PROVE Unsent
  <2> DEFINE e == [helper[h] EXCEPT !.overdue = TRUE]
  <2>1. /\ e \in Helper /\ e.state = helper[h].state /\ e.stream = helper[h].stream
        /\ e.completed = helper[h].completed
    BY <1>0 DEF Helper
  <2>2. /\ helper' = [helper EXCEPT ![h] = e] /\ UNCHANGED << redeemed, durable, served >>
    BY <1>10 DEF session_deadline, store
  <2> HIDE DEF e
  <2> QED BY <1>0, <2>1, <2>2 DEF Unsent, Streams, Redeemer
<1>11. ASSUME NEW h \in Helpers, Leaves(h) PROVE Unsent
  <2>1. "leaving" \in HelperStates \ {"redeeming", "answering"}
    BY DEF HelperStates
  <2> QED BY <1>2, <1>11, <2>1 DEF Leaves
<1>12. ASSUME NEW h \in Helpers, redeem(h) PROVE Served
  <2>1. PICK c \in helper[h].stream :
          \/ Leaves(h)
          \/ /\ conn[c].grant \notin redeemed
             /\ redeemed' = redeemed \cup {conn[c].grant}
             /\ helper' = [helper EXCEPT ![h].state = "redeeming"]
             /\ UNCHANGED << durable, served >>
    BY <1>12 DEF redeem
  <2>2. CASE Leaves(h)
    BY <1>11, <2>2 DEF Served
  <2>3. CASE ~Leaves(h)
    <3>1. Moves(h, "redeeming", helper[h].completed, helper[h].stream)
      BY <1>0, <2>1, <2>3, Goes DEF HelperStates
    <3>2. c \in Connections /\ helper[h].state = "reading"
      BY <1>0, <1>12 DEF redeem, Helper
    <3> QED BY <2>1, <2>3, <3>1, <3>2 DEF Served, Redeems
  <2> QED BY <2>2, <2>3
<1>13. ASSUME NEW h \in Helpers, sync(h) PROVE Served
  <2>1. CASE Leaves(h)
    BY <1>11, <2>1 DEF Served
  <2>2. CASE ~Leaves(h)
    <3>1. PICK c \in helper[h].stream :
            /\ durable' = durable \cup {conn[c].grant}
            /\ helper' = [helper EXCEPT ![h].state = "answering"]
            /\ UNCHANGED << redeemed, served >>
      BY <1>13, <2>2 DEF sync
    <3>2. Moves(h, "answering", helper[h].completed, helper[h].stream)
      BY <1>0, <3>1, Goes DEF HelperStates
    <3>3. c \in Connections /\ helper[h].state = "redeeming"
      BY <1>0, <1>13 DEF sync, Helper
    <3> QED BY <3>1, <3>2, <3>3 DEF Served, Syncs
  <2> QED BY <2>1, <2>2
<1>14. ASSUME NEW h \in Helpers, answer(h) PROVE Served
  <2>1. CASE Leaves(h)
    BY <1>11, <2>1 DEF Served
  <2>2. CASE ~Leaves(h)
    <3> DEFINE s == IF helper[h].completed + 1 < max_operations THEN "listening" ELSE "leaving"
               n == helper[h].completed + 1
               e == [helper[h] EXCEPT !.completed = n, !.stream = {}, !.state = s]
    <3>1. PICK c \in helper[h].stream :
            /\ served' = [served EXCEPT ![conn[c].grant] = @ + 1]
            /\ helper' = [helper EXCEPT ![h].completed = @ + 1, ![h].stream = {},
                 ![h].state = IF helper[h].completed + 1 < max_operations
                              THEN "listening" ELSE "leaving"]
            /\ UNCHANGED << redeemed, durable >>
      BY <1>14, <2>2 DEF answer
    <3>2. /\ helper[h].state = "answering" /\ helper[h] \in Helper
          /\ helper[h].completed < max_operations
      BY <1>0, <1>14 DEF answer, Streams
    <3>3. /\ n \in 0 .. max_operations /\ s \in HelperStates
          /\ s = "leaving" \/ (s = "listening" /\ n < max_operations)
      BY <1>0, <3>2 DEF Helper, HelperStates
    <3>4. helper' = [helper EXCEPT ![h] = e]
      BY <1>0, <3>1
    <3> HIDE DEF s, n
    <3>5. e \in Helper /\ e.state = s /\ e.completed = n /\ e.stream = {}
      BY <3>2, <3>3 DEF Helper
    <3> HIDE DEF e
    <3>6. Moves(h, s, n, {})
      BY <1>0, <3>4, <3>5 DEF Moves
    <3>7. c \in Connections
      BY <1>0, <3>1 DEF Helper
    <3> QED BY <3>1, <3>2, <3>3, <3>6, <3>7 DEF Served, Sends, n
  <2> QED BY <2>1, <2>2
<1>15. ASSUME PowerFailure PROVE Served
  <2>1. /\ Kill(Helpers) /\ UNCHANGED << durable, served >>
        /\ durable \subseteq redeemed' /\ redeemed' \subseteq redeemed
    BY <1>0, <1>15 DEF PowerFailure, SessionTyped
  <2>2. /\ helper' \in [Helpers -> Helper]
        /\ \A h \in Helpers :
              /\ helper'[h].stream = helper[h].stream
              /\ helper'[h].completed = helper[h].completed
              /\ helper'[h].state = IF h \in Helpers /\ Running(h) THEN "exited"
                                    ELSE helper[h].state
    BY <1>0, <2>1, Killing
  <2> QED BY <2>1, <2>2 DEF Served, PowerFails, NoHelper, Running
<1>16. Unsent => Served
  BY DEF Served
<1> QED BY <1>4, <1>5, <1>6, <1>7, <1>8, <1>9, <1>10, <1>12, <1>13, <1>14, <1>15, <1>16
  DEF SessionAction
(* What becomes of the connections: one that was made stays what it is.     *)
Kept ==
  /\ conn' \in [Connections -> Connection]
  /\ \A c \in Connections :
       /\ conn[c].state # "unused" =>
            conn'[c].state # "unused" /\ conn'[c].grant = conn[c].grant
       /\ conn'[c].queued => conn[c].queued \/ conn'[c].state # "unused"

LEMMA KeptStep ==
  ASSUME SessionInv, SessionAction
  PROVE  Kept
<1>0. conn \in [Connections -> Connection] /\ path \subseteq Helpers
  BY TypeIs DEF SessionInv, SessionTyped
<1>1. ASSUME UNCHANGED conn PROVE Kept
  BY <1>0, <1>1 DEF Kept
<1>2. ASSUME \/ \E t \in Threads :
                  \/ stop_begin(t) \/ arm_begin(t) \/ stop_unlink(t)
                  \/ \E h \in Helpers : arm_spawn(t, h)
                  \/ arm_succeeds(t) \/ arm_fails(t) \/ payment_session_status(t)
             \/ \E h \in Helpers :
                  \/ bind(h) \/ session_expires(h) \/ redeem(h) \/ sync(h) \/ leave(h)
                  \/ session_deadline(h)
             \/ \E c \in Connections : grant_expires(c)
      PROVE  Kept
  <2>1. UNCHANGED conn
    BY <1>2 DEF stop_begin, arm_begin, stop_payment_session, stop_unlink, arm_spawn,
      arm_succeeds, arm_fails, payment_session_status, bind, session_expires, redeem, sync,
      leave, session_deadline, grant_expires
  <2> QED BY <1>1, <2>1
<1>3. ASSUME NEW c \in Connections, NEW e \in Connection,
             conn' = [conn EXCEPT ![c] = e], e.queued => conn[c].queued \/ e.state # "unused",
             conn[c].state # "unused" => e.state # "unused" /\ e.grant = conn[c].grant
      PROVE  Kept
  BY <1>0, <1>3 DEF Kept
<1>4. ASSUME NEW h \in Helpers, NEW c \in Connections, accept(h, c) PROVE Kept
  <2> DEFINE e == [conn[c] EXCEPT !.queued = FALSE]
  <2>1. e \in Connection /\ e.state = conn[c].state /\ e.grant = conn[c].grant /\ ~e.queued
    <3>1. conn[c] \in Connection
      BY <1>0
    <3> QED BY <3>1 DEF Connection
  <2>2. conn' = [conn EXCEPT ![c] = e]
    BY <1>4 DEF accept
  <2> HIDE DEF e
  <2> QED BY <1>3, <2>1, <2>2
<1>5. ASSUME NEW h \in Helpers, answer(h) PROVE Kept
  <2>1. CASE UNCHANGED conn
    BY <1>1, <2>1
  <2>2. CASE ~UNCHANGED conn
    <3>1. PICK c \in helper[h].stream : conn' = [conn EXCEPT ![c].answered = TRUE]
      BY <1>5, <2>2 DEF answer
    <3> DEFINE e == [conn[c] EXCEPT !.answered = TRUE]
    <3>2. c \in Connections
      BY TypeIs DEF SessionInv, Helper
    <3>3. /\ e \in Connection /\ e.state = conn[c].state /\ e.grant = conn[c].grant
          /\ e.queued = conn[c].queued
      <4>1. conn[c] \in Connection
        BY <1>0, <3>2
      <4> QED BY <4>1 DEF Connection
    <3>4. conn' = [conn EXCEPT ![c] = e]
      BY <3>1
    <3> HIDE DEF e
    <3> QED BY <1>3, <3>2, <3>3, <3>4
  <2> QED BY <2>1, <2>2
<1>6. ASSUME NEW c \in Connections, NEW g \in Connections, connect(c, g) PROVE Kept
  <2>1. PICK h \in path :
          conn' = [conn EXCEPT ![c] = [ state |-> "open", at |-> {h}, grant |-> g,
                     framed |-> FALSE, queued |-> TRUE, answered |-> FALSE ]]
    BY <1>6 DEF connect
  <2> DEFINE e == [ state |-> "open", at |-> {h}, grant |-> g,
                    framed |-> FALSE, queued |-> TRUE, answered |-> FALSE ]
  <2>2. e \in Connection /\ e.state = "open"
    BY <1>0, <2>1 DEF Connection
  <2>3. conn' = [conn EXCEPT ![c] = e] /\ conn[c].state = "unused"
    BY <1>6, <2>1 DEF connect
  <2> HIDE DEF e
  <2> QED BY <1>3, <2>2, <2>3
<1>7. ASSUME NEW c \in Connections, send(c) PROVE Kept
  <2> DEFINE e == [conn[c] EXCEPT !.framed = TRUE]
  <2>1. /\ e \in Connection /\ e.state = conn[c].state /\ e.grant = conn[c].grant
        /\ e.queued = conn[c].queued
    <3>1. conn[c] \in Connection
      BY <1>0
    <3> QED BY <3>1 DEF Connection
  <2>2. conn' = [conn EXCEPT ![c] = e]
    BY <1>7 DEF send
  <2> HIDE DEF e
  <2> QED BY <1>3, <2>1, <2>2
<1>8. ASSUME NEW c \in Connections, receive(c) \/ give_up(c) PROVE Kept
  <2>1. PICK s \in {"received", "closed"} : conn' = [conn EXCEPT ![c].state = s]
    BY <1>8 DEF receive, give_up
  <2> DEFINE e == [conn[c] EXCEPT !.state = s]
  <2>2. /\ e \in Connection /\ e.state # "unused" /\ e.grant = conn[c].grant
        /\ e.queued = conn[c].queued
    BY <1>0 DEF Connection
  <2>3. conn' = [conn EXCEPT ![c] = e]
    BY <2>1
  <2> HIDE DEF e
  <2> QED BY <1>3, <2>2, <2>3
<1>9. ASSUME PowerFailure PROVE Kept
  <2>1. conn' = [ c \in Connections |->
           IF UnderWay(c) THEN [conn[c] EXCEPT !.state = "closed"] ELSE conn[c] ]
    BY <1>9 DEF PowerFailure
  <2>2. ASSUME NEW c \in Connections
        PROVE  /\ conn'[c] \in Connection /\ conn'[c].grant = conn[c].grant
               /\ conn'[c].queued = conn[c].queued
               /\ conn'[c].state \in {conn[c].state, "closed"}
    BY <1>0, <2>1 DEF Connection
  <2>3. conn' \in [Connections -> Connection]
    BY <2>1, <2>2
  <2> QED BY <2>2, <2>3 DEF Kept
<1> QED BY <1>2, <1>4, <1>5, <1>6, <1>7, <1>8, <1>9 DEF SessionAction

-----------------------------------------------------------------------------
(* The parts of the invariant, one by one.                                  *)

LEMMA HelperTyped ==
  ASSUME SessionInv, SessionAction
  PROVE  helper' \in [Helpers -> Helper]
BY ServedStep DEF Served, Unsent, PowerFails, Redeems, Syncs, Sends, Moves

LEMMA StreamsStep == SessionInv /\ SessionNext => Streams'
<1> SUFFICES ASSUME SessionInv, SessionAction PROVE Streams'
  BY SessionActions
<1>0. Streams /\ Kept /\ helper \in [Helpers -> Helper] /\ max_operations \in Nat
  BY KeptStep, TypeIs, SessionAssumption DEF SessionInv
<1>1. ASSUME NEW h \in Helpers
      PROVE  /\ helper'[h].state \notin {"leaving", "exited"} =>
                  helper'[h].completed < max_operations
             /\ \/ helper'[h].stream \in {helper[h].stream, {}}
                \/ \E c \in Connections : conn[c].queued /\ helper'[h].stream = {c}
  <2>1. CASE Unsent
    BY <2>1 DEF Unsent
  <2>2. CASE PowerFails
    BY <1>0, <2>2 DEF PowerFails, Streams
  <2>3. ASSUME NEW k \in Helpers, NEW c \in Connections,
               Redeems(k, c) \/ Syncs(k, c) \/ Sends(k, c)
        PROVE  /\ helper'[h].state \notin {"leaving", "exited"} =>
                    helper'[h].completed < max_operations
               /\ helper'[h].stream \in {helper[h].stream, {}}
    <3>1. CASE k # h
      BY <1>0, <2>3, <3>1 DEF Redeems, Syncs, Sends, Moves, Streams
    <3>2. CASE k = h
      BY <1>0, <2>3, <3>2 DEF Redeems, Syncs, Sends, Moves, Streams
    <3> QED BY <3>1, <3>2
  <2> QED BY <2>1, <2>2, <2>3, ServedStep DEF Served
<1>2. ASSUME NEW h \in Helpers, NEW c \in helper'[h].stream
      PROVE  conn'[c].state # "unused" /\ \A d \in helper'[h].stream : d = c
  <2>1. helper[h].stream \subseteq Connections
    BY <1>0 DEF Helper
  <2> QED BY <1>0, <1>1, <1>2, <2>1 DEF Streams, Kept
<1> QED BY <1>0, <1>1, <1>2 DEF Streams, Kept

(* A helper that holds a redeemed grant after a step held it before, or has *)
(* just redeemed it.                                                        *)
LEMMA RedeemerStep ==
  ASSUME SessionInv, SessionAction, NEW h \in Helpers, Redeemer(h)'
  PROVE  /\ helper'[h].stream = helper[h].stream
         /\ \/ Redeemer(h)
            \/ \E c \in Connections : Redeems(h, c)
<1>1. CASE Unsent
  BY <1>1 DEF Unsent, Redeemer
<1>2. CASE PowerFails
  BY <1>2 DEF PowerFails, NoHelper, Redeemer, Running
<1>3. ASSUME NEW k \in Helpers, NEW c \in Connections,
             Redeems(k, c) \/ Syncs(k, c) \/ Sends(k, c), k # h
      PROVE  helper'[h] = helper[h]
  BY <1>3 DEF Redeems, Syncs, Sends, Moves
<1>4. ASSUME NEW c \in Connections, Redeems(h, c) \/ Syncs(h, c) \/ Sends(h, c)
      PROVE  /\ helper'[h].stream = helper[h].stream
             /\ Redeemer(h) \/ Redeems(h, c)
  BY <1>4 DEF Redeems, Syncs, Sends, Moves, Redeemer
<1> QED BY <1>1, <1>2, <1>3, <1>4, ServedStep DEF Served, Redeemer
(* The grant of the connection a helper reads stays what it is.             *)
LEMMA GrantStays ==
  ASSUME SessionInv, SessionAction, NEW h \in Helpers, NEW c \in helper[h].stream
  PROVE  c \in Connections /\ conn'[c].grant = conn[c].grant /\ conn[c].grant \in Connections
<1>1. helper \in [Helpers -> Helper] /\ conn \in [Connections -> Connection] /\ Streams
  BY TypeIs DEF SessionInv
<1>2. c \in Connections
  BY <1>1 DEF Helper
<1>3. conn[c] \in Connection /\ conn[c].state # "unused"
  BY <1>1, <1>2 DEF Streams
<1> QED BY <1>2, <1>3, KeptStep DEF Kept, Connection

LEMMA RedeemedStep == SessionInv /\ SessionNext => Redeemed'
<1> SUFFICES ASSUME SessionInv, SessionAction, NEW h \in Helpers, Redeemer(h)',
                    NEW c \in helper'[h].stream
             PROVE  /\ conn'[c].grant \in redeemed' /\ served'[conn'[c].grant] = 0
                    /\ helper'[h].state = "answering" => conn'[c].grant \in durable'
  BY SessionActions DEF Redeemed
<1>0. /\ SessionTyped /\ Streams /\ Redeemed /\ Apart /\ SentIsDurable
      /\ helper \in [Helpers -> Helper]
  BY TypeIs DEF SessionInv
<1> DEFINE g == conn[c].grant
           T == /\ g \in redeemed' /\ served'[g] = 0
                /\ helper'[h].state = "answering" => g \in durable'
<1>1. /\ c \in helper[h].stream /\ \A d \in helper[h].stream : d = c
      /\ conn'[c].grant = g /\ g \in Connections
  BY <1>0, RedeemerStep, GrantStays DEF Streams
<1>2. CASE Redeemer(h)
  <2>1. /\ g \in redeemed /\ served[g] = 0
        /\ helper[h].state = "answering" => g \in durable
    BY <1>0, <1>1, <1>2 DEF Redeemed
  <2>2. ASSUME Unsent PROVE T
    BY <2>1, <2>2 DEF Unsent
  <2>3. ASSUME PowerFails PROVE T
    BY <2>3 DEF PowerFails, NoHelper, Redeemer, Running
  <2>4. ASSUME NEW k \in Helpers, NEW d \in Connections, Redeems(k, d) PROVE T
    BY <1>2, <2>1, <2>4 DEF Redeems, Moves, Redeemer
  <2>5. ASSUME NEW k \in Helpers, NEW d \in Connections, Syncs(k, d) PROVE T
    BY <1>1, <2>1, <2>5 DEF Syncs, Moves
  <2>6. ASSUME NEW k \in Helpers, NEW d \in Connections, Sends(k, d) PROVE T
    <3>1. k # h
      BY <2>6 DEF Sends, Moves, Redeemer
    <3>2. conn[d].grant # g /\ helper'[h] = helper[h]
      BY <1>0, <1>1, <1>2, <2>6, <3>1 DEF Sends, Moves, Apart, Redeemer
    <3>3. served'[g] = served[g] /\ UNCHANGED << redeemed, durable >>
      BY <1>0, <1>1, <2>6, <3>2 DEF Sends, SessionTyped
    <3> QED BY <2>1, <3>2, <3>3
  <2> HIDE DEF T
  <2>7. T
    BY <2>2, <2>3, <2>4, <2>5, <2>6, ServedStep DEF Served
  <2> QED BY <1>1, <2>7 DEF T
<1>3. CASE ~Redeemer(h)
  <2>1. PICK d \in Connections : Redeems(h, d)
    BY <1>3, RedeemerStep
  <2>2. g \notin redeemed /\ g \in redeemed' /\ served' = served
        /\ helper'[h].state = "redeeming"
    BY <1>1, <2>1 DEF Redeems, Moves
  <2>3. served[g] = 0
    BY <1>0, <1>1, <2>2 DEF SessionTyped, SentIsDurable
  <2> QED BY <1>1, <2>2, <2>3
<1> QED BY <1>2, <1>3

LEMMA ApartStep == SessionInv /\ SessionNext => Apart'
<1> SUFFICES ASSUME SessionInv, SessionAction, NEW h \in Helpers, NEW k \in Helpers, h # k,
                    Redeemer(h)', Redeemer(k)',
                    NEW c \in helper'[h].stream, NEW d \in helper'[k].stream
             PROVE  conn'[c].grant # conn'[d].grant
  BY SessionActions DEF Apart
<1>0. /\ Streams /\ Redeemed /\ Apart
      /\ c \in helper[h].stream /\ d \in helper[k].stream
  BY RedeemerStep DEF SessionInv
<1>1. conn'[c].grant = conn[c].grant /\ conn'[d].grant = conn[d].grant
  BY <1>0, GrantStays
<1>2. CASE Redeemer(h) /\ Redeemer(k)
  BY <1>0, <1>1, <1>2 DEF Apart
(* The one that has just redeemed its grant was the first.                  *)
<1>3. ASSUME NEW i \in Helpers, NEW j \in Helpers, i # j, NEW e \in Connections,
             Redeems(i, e), Redeemer(j)',
             NEW a \in helper[i].stream, NEW b \in helper[j].stream
      PROVE  conn[a].grant # conn[b].grant
  <2>1. a = e /\ conn[a].grant \notin redeemed
    BY <1>0, <1>3 DEF Redeems, Streams
  <2>2. Redeemer(j)
    BY <1>3 DEF Redeems, Moves, Redeemer
  <2>3. conn[b].grant \in redeemed
    BY <1>0, <1>3, <2>2 DEF Redeemed
  <2> QED BY <2>1, <2>3
<1>4. CASE ~Redeemer(h)
  BY <1>0, <1>1, <1>3, <1>4, RedeemerStep
<1>5. CASE ~Redeemer(k)
  BY <1>0, <1>1, <1>3, <1>5, RedeemerStep
<1> QED BY <1>2, <1>4, <1>5

LEMMA SentStep ==
  SessionInv /\ SessionNext =>
    SentIsDurable' /\ CardSentOncePerGrant' /\ served' \in [Connections -> Nat]
<1> SUFFICES ASSUME SessionInv, SessionAction
             PROVE  SentIsDurable' /\ CardSentOncePerGrant' /\ served' \in [Connections -> Nat]
  BY SessionActions
<1>0. /\ SessionTyped /\ Redeemed /\ SentIsDurable /\ CardSentOncePerGrant
  BY TypeIs DEF SessionInv
<1>1. CASE UNCHANGED served /\ durable \subseteq durable'
  BY <1>0, <1>1 DEF SentIsDurable, CardSentOncePerGrant, SessionTyped
<1>2. ASSUME NEW h \in Helpers, NEW c \in Connections, Sends(h, c)
      PROVE  SentIsDurable' /\ CardSentOncePerGrant' /\ served' \in [Connections -> Nat]
  <2> DEFINE g == conn[c].grant
  <2>1. /\ g \in Connections /\ served[g] = 0 /\ g \in durable /\ durable' = durable
        /\ served' = [served EXCEPT ![g] = @ + 1]
    BY <1>0, <1>2, GrantStays DEF Sends, Redeemed, Redeemer
  <2> HIDE DEF g
  <2>2. /\ served'[g] = 1
        /\ \A f \in Connections \ {g} : served'[f] = served[f]
        /\ served' \in [Connections -> Nat]
    BY <1>0, <2>1 DEF SessionTyped
  <2> QED BY <1>0, <2>1, <2>2 DEF SentIsDurable, CardSentOncePerGrant
<1>3. \/ UNCHANGED served /\ durable \subseteq durable'
      \/ \E h \in Helpers, c \in Connections : Sends(h, c)
  BY ServedStep DEF Served, Unsent, PowerFails, Redeems, Syncs
<1> QED BY <1>1, <1>2, <1>3
LEMMA TypeStep == SessionInv /\ SessionNext => TypeOK'
<1> SUFFICES ASSUME SessionInv, SessionNext, SessionAction PROVE TypeOK'
  BY SessionActions
<1>0. SessionTyped /\ helper \in [Helpers -> Helper] /\ conn \in [Connections -> Connection]
  BY TypeIs DEF SessionInv
<1> DEFINE T == /\ session_lock' \subseteq Threads
                /\ thread' \in [Threads -> {"idle", "arm_stopped", "arm_ready", "arm_wait",
                                            "stopped", "report"}]
                /\ starting' \in [Threads -> SUBSET Helpers]
                /\ tracked' \subseteq Helpers /\ path' \subseteq Helpers
                /\ expired' \subseteq Connections
                /\ ended' \in BOOLEAN
<1>1. ASSUME NEW t \in Threads,
             \/ stop_begin(t) \/ arm_begin(t) \/ stop_unlink(t)
             \/ \E h \in Helpers : arm_spawn(t, h)
             \/ arm_succeeds(t) \/ arm_fails(t) \/ payment_session_status(t)
      PROVE  T
  <2>1. CASE stop_begin(t) \/ arm_begin(t)
    BY <1>0, <2>1 DEF stop_begin, arm_begin, stop_payment_session, GoTo, store, SessionTyped
  <2>2. CASE stop_unlink(t)
    BY <1>0, <2>2 DEF stop_unlink, GoTo, store, SessionTyped
  <2>3. CASE \E h \in Helpers : arm_spawn(t, h)
    <3>1. PICK h \in Helpers :
            /\ session_lock' = {t} /\ thread' = [thread EXCEPT ![t] = "arm_wait"]
            /\ starting' = [starting EXCEPT ![t] = {h}] /\ ended' = FALSE
            /\ UNCHANGED << tracked, path, expired >>
      BY <2>3 DEF arm_spawn, GoTo, store
    <3> QED BY <1>0, <3>1 DEF SessionTyped
  <2>4. CASE arm_succeeds(t) \/ arm_fails(t) \/ payment_session_status(t)
    BY <1>0, <2>4 DEF arm_succeeds, arm_fails, payment_session_status, GoTo, store,
      SessionTyped
  <2> QED BY <1>1, <2>1, <2>2, <2>3, <2>4
<1>2. ASSUME NEW h \in Helpers,
             \/ bind(h) \/ \E c \in Connections : accept(h, c)
             \/ session_expires(h) \/ redeem(h) \/ sync(h) \/ answer(h) \/ leave(h)
             \/ session_deadline(h)
      PROVE  T
  BY <1>0, <1>2 DEF bind, accept, session_expires, redeem, sync, answer, leave,
    session_deadline, dashboard, store, SessionTyped
<1>3. ASSUME NEW c \in Connections,
             \/ \E g \in Connections : connect(c, g)
             \/ send(c) \/ receive(c) \/ give_up(c) \/ grant_expires(c)
      PROVE  T
  BY <1>0, <1>3 DEF connect, send, receive, give_up, grant_expires, dashboard, store,
    SessionTyped
<1>4. ASSUME PowerFailure PROVE T
  BY <1>0, <1>4 DEF PowerFailure, SessionTyped
<1> HIDE DEF T
<1>5. T
  BY <1>1, <1>2, <1>3, <1>4 DEF SessionAction
<1>6. durable' \subseteq redeemed' /\ redeemed' \subseteq Connections
  <2>1. CASE Unsent \/ PowerFails
    BY <1>0, <2>1 DEF Unsent, PowerFails, SessionTyped
  <2>2. ASSUME NEW h \in Helpers, NEW c \in Connections,
               Redeems(h, c) \/ Syncs(h, c) \/ Sends(h, c)
        PROVE  durable' \subseteq redeemed' /\ redeemed' \subseteq Connections
    <3>1. conn[c].grant \in Connections
      BY <2>2, GrantStays DEF Redeems, Syncs, Sends
    <3>2. Syncs(h, c) => conn[c].grant \in redeemed
      BY DEF SessionInv, Redeemed, Redeemer, Syncs
    <3> QED BY <1>0, <2>2, <3>1, <3>2 DEF Redeems, Syncs, Sends, SessionTyped
  <2> QED BY <2>1, <2>2, ServedStep DEF Served
<1>7. SessionTyped' /\ helper' \in [Helpers -> Helper] /\ conn' \in [Connections -> Connection]
  BY <1>5, <1>6, SentStep, HelperTyped, KeptStep DEF T, SessionTyped, Kept
<1> QED BY <1>7 DEF TypeOK, SessionTyped, Helper, HelperStates, Connection

-----------------------------------------------------------------------------
(* What the dashboard knows of the helpers.                                 *)

(* A helper starts to run only when the dashboard starts one.               *)
LEMMA RunningStep ==
  ASSUME SessionInv, SessionAction, NEW h \in Helpers, Running(h)'
  PROVE  Running(h) \/ \E t \in Threads : arm_spawn(t, h)
<1>0. helper \in [Helpers -> Helper]
  BY TypeIs DEF SessionInv
<1> DEFINE T == Running(h) \/ \E t \in Threads : arm_spawn(t, h)
<1>1. ASSUME NEW t \in Threads, stop_begin(t) \/ arm_begin(t) \/ arm_fails(t) PROVE T
  <2>1. PICK S : Kill(S)
    BY <1>1 DEF stop_begin, arm_begin, arm_fails, stop_payment_session
  <2>2. helper'[h].state = IF h \in S /\ Running(h) THEN "exited" ELSE helper[h].state
    BY <1>0, <2>1, Killing
  <2> QED BY <2>2 DEF Running
<1>2. ASSUME NEW t \in Threads, NEW k \in Helpers, arm_spawn(t, k) PROVE T
  <2>1. helper' = [helper EXCEPT ![k].state = "starting"]
    BY <1>2 DEF arm_spawn
  <2> QED BY <1>0, <1>2, <2>1 DEF Running
<1>3. ASSUME UNCHANGED helper PROVE T
  BY <1>3 DEF Running
<1>4. ASSUME \/ \E t \in Threads : stop_unlink(t) \/ arm_succeeds(t) \/ payment_session_status(t)
             \/ \E c \in Connections :
                  \/ \E g \in Connections : connect(c, g)
                  \/ send(c) \/ receive(c) \/ give_up(c) \/ grant_expires(c)
      PROVE  T
  <2>1. UNCHANGED helper
    BY <1>4 DEF stop_unlink, arm_succeeds, payment_session_status, connect, send, receive,
      give_up, grant_expires
  <2> QED BY <1>3, <2>1
<1>5. ASSUME NEW k \in Helpers,
             \/ bind(k) \/ \E c \in Connections : accept(k, c)
             \/ session_expires(k) \/ redeem(k) \/ sync(k) \/ answer(k) \/ leave(k)
             \/ session_deadline(k)
      PROVE  T
  <2>1. Running(k)
    BY <1>5 DEF bind, accept, session_expires, redeem, sync, answer, leave, session_deadline,
      Listening, Running
  <2>2. k # h => helper'[h] = helper[h]
    BY <1>0, <1>5 DEF bind, accept, session_expires, redeem, sync, answer, leave,
      session_deadline, Leaves
  <2> QED BY <2>1, <2>2 DEF Running
<1>6. ASSUME PowerFailure PROVE T
  <2>1. helper'[h].state = IF h \in Helpers /\ Running(h) THEN "exited" ELSE helper[h].state
    BY <1>0, <1>6, Killing DEF PowerFailure
  <2> QED BY <2>1 DEF Running
<1> HIDE DEF T
<1>7. T
  BY <1>1, <1>2, <1>4, <1>5, <1>6 DEF SessionAction, T
<1> QED BY <1>7 DEF T
LEMMA KnownStep == SessionInv /\ SessionNext /\ OneAtATime => Known'
<1> SUFFICES ASSUME SessionInv, SessionAction, OneAtATime PROVE Known'
  BY SessionActions
<1>0. SessionTyped /\ helper \in [Helpers -> Helper] /\ Known
  BY TypeIs DEF SessionInv
(* No helper comes into being: nobody else runs than before.                *)
<1>1. ASSUME \A h \in Helpers : Running(h)' => Running(h), NoHelper
      PROVE  NoHelper'
  BY <1>1 DEF NoHelper
<1>2. ASSUME UNCHANGED << thread, starting, tracked, ended >>,
             \A h \in Helpers : Running(h)' => Running(h)
      PROVE  Known'
  BY <1>0, <1>1, <1>2 DEF Known, StopEndsHelpers, NoHelper
<1>3. ASSUME \/ \E h \in Helpers :
                  \/ bind(h) \/ \E c \in Connections : accept(h, c)
                  \/ session_expires(h) \/ redeem(h) \/ sync(h) \/ answer(h) \/ leave(h)
                  \/ session_deadline(h)
             \/ \E c \in Connections :
                  \/ \E g \in Connections : connect(c, g)
                  \/ send(c) \/ receive(c) \/ give_up(c) \/ grant_expires(c)
      PROVE  Known'
  <2>1. UNCHANGED << thread, starting, tracked, ended >>
    BY <1>3 DEF bind, accept, session_expires, redeem, sync, answer, leave, session_deadline,
      connect, send, receive, give_up, grant_expires, dashboard
  <2>2. \A t \in Threads, h \in Helpers : arm_spawn(t, h) => thread'[t] = "arm_wait" /\
                                            thread[t] = "arm_ready"
    BY <1>0 DEF arm_spawn, GoTo, SessionTyped
  <2>3. \A h \in Helpers : Running(h)' => Running(h)
    BY <2>1, <2>2, RunningStep
  <2> QED BY <1>2, <2>1, <2>3
(* Killing the helper that is tracked leaves none.                          *)
<1>4. ASSUME NEW t \in Threads, NEW next \in {"stopped", "arm_stopped"},
             stop_payment_session(t, next)
      PROVE  Known'
  <2>1. /\ thread[t] = "idle" /\ Kill(tracked) /\ UNCHANGED << starting, tracked >>
        /\ thread' = [thread EXCEPT ![t] = next]
    BY <1>4 DEF stop_payment_session, GoTo
  <2>2. \A h \in Helpers : Running(h) => h \in tracked
    BY <1>0, <2>1 DEF Known, OneAtATime
  <2>3. \A h \in Helpers :
          helper'[h].state = IF h \in tracked /\ Running(h) THEN "exited" ELSE helper[h].state
    BY <1>0, <2>1, Killing
  <2>4. NoHelper'
    BY <2>2, <2>3 DEF NoHelper, Running
  <2>5. \A u \in Threads : u = t
    BY DEF OneAtATime
  <2> QED BY <1>0, <1>4, <2>1, <2>4, <2>5 DEF Known, NoHelper, StopEndsHelpers, SessionTyped
<1>5. ASSUME NEW t \in Threads, stop_unlink(t) PROVE Known'
  <2>1. /\ thread[t] \in {"stopped", "arm_stopped"} /\ UNCHANGED << starting, helper >>
        /\ tracked' = {}
        /\ thread' = [thread EXCEPT ![t] = IF thread[t] = "stopped" THEN "report"
                                           ELSE "arm_ready"]
    BY <1>5 DEF stop_unlink, GoTo
  <2>2. NoHelper'
    BY <1>0, <2>1 DEF Known, NoHelper, Running
  <2>3. \A u \in Threads : u = t
    BY DEF OneAtATime
  <2> QED BY <1>0, <2>1, <2>2, <2>3 DEF Known, NoHelper, StopEndsHelpers, SessionTyped
<1>6. ASSUME NEW t \in Threads, NEW h \in Helpers, arm_spawn(t, h) PROVE Known'
  <2>1. /\ thread[t] = "arm_ready" /\ ~ended'
        /\ helper' = [helper EXCEPT ![h].state = "starting"]
        /\ starting' = [starting EXCEPT ![t] = {h}] /\ tracked' = tracked
        /\ thread' = [thread EXCEPT ![t] = "arm_wait"]
    BY <1>6 DEF arm_spawn, GoTo
  <2>2. \A k \in Helpers : Running(k)' => k = h
    <3>1. NoHelper
      BY <1>0, <2>1 DEF Known
    <3>2. \A k \in Helpers \ {h} : helper'[k] = helper[k]
      BY <1>0, <2>1
    <3> QED BY <3>1, <3>2 DEF NoHelper, Running
  <2>3. \A u \in Threads : u = t
    BY DEF OneAtATime
  <2>4. tracked' = {}
    BY <1>0, <2>1 DEF Known
  <2> QED BY <1>0, <2>1, <2>2, <2>3, <2>4 DEF Known, StopEndsHelpers, SessionTyped
<1>7. ASSUME NEW t \in Threads, arm_succeeds(t) PROVE Known'
  <2>1. /\ thread[t] = "arm_wait" /\ UNCHANGED << helper, ended >> /\ tracked' = starting[t]
        /\ starting' = [starting EXCEPT ![t] = {}]
        /\ thread' = [thread EXCEPT ![t] = "report"]
    BY <1>7 DEF arm_succeeds, GoTo
  <2>2. \A u \in Threads : u = t
    BY DEF OneAtATime
  <2> QED BY <1>0, <2>1, <2>2 DEF Known, NoHelper, Running, StopEndsHelpers, SessionTyped
<1>8. ASSUME NEW t \in Threads, arm_fails(t) PROVE Known'
  <2>1. /\ thread[t] = "arm_wait" /\ Kill(starting[t]) /\ tracked' = tracked
        /\ starting' = [starting EXCEPT ![t] = {}]
        /\ thread' = [thread EXCEPT ![t] = "idle"]
    BY <1>8 DEF arm_fails, GoTo
  <2>2. \A u \in Threads : u = t
    BY DEF OneAtATime
  <2>3. \A h \in Helpers : Running(h) => h \in starting[t]
    BY <1>0, <2>1, <2>2 DEF Known
  <2>4. \A h \in Helpers :
          helper'[h].state = IF h \in starting[t] /\ Running(h) THEN "exited"
                             ELSE helper[h].state
    BY <1>0, <2>1, Killing
  <2>5. NoHelper'
    BY <2>3, <2>4 DEF NoHelper, Running
  <2> QED BY <1>0, <2>1, <2>2, <2>5 DEF Known, NoHelper, StopEndsHelpers, SessionTyped
<1>9. ASSUME NEW t \in Threads, payment_session_status(t) PROVE Known'
  <2>1. /\ thread[t] \in {"idle", "report"} /\ tracked' = { h \in tracked : Running(h) }
        /\ UNCHANGED << starting, helper, ended >>
        /\ thread' = [thread EXCEPT ![t] = "idle"]
    BY <1>9 DEF payment_session_status, GoTo
  <2>2. \A u \in Threads : u = t
    BY DEF OneAtATime
  <2> QED BY <1>0, <2>1, <2>2 DEF Known, NoHelper, Running, StopEndsHelpers, SessionTyped
<1>10. ASSUME PowerFailure PROVE Known'
  <2>1. /\ Kill(Helpers) /\ thread' = [ t \in Threads |-> "idle" ]
        /\ starting' = [ t \in Threads |-> {} ]
    BY <1>10 DEF PowerFailure
  <2>2. \A h \in Helpers :
          helper'[h].state = IF h \in Helpers /\ Running(h) THEN "exited" ELSE helper[h].state
    BY <1>0, <2>1, Killing
  <2>3. NoHelper'
    BY <2>2 DEF NoHelper, Running
  <2> QED BY <2>1, <2>3 DEF Known, NoHelper, StopEndsHelpers
<1>11. ASSUME NEW t \in Threads, stop_begin(t) \/ arm_begin(t) PROVE Known'
  BY <1>4, <1>11 DEF stop_begin, arm_begin
<1> QED BY <1>3, <1>5, <1>6, <1>7, <1>8, <1>9, <1>10, <1>11 DEF SessionAction

-----------------------------------------------------------------------------
LEMMA SessionInvStep == SessionInv /\ [SessionNext]_sessionVars => SessionInv'
<1>1. ASSUME SessionInv, SessionNext PROVE SessionInv'
  BY <1>1, TypeStep, StreamsStep, RedeemedStep, ApartStep, SentStep, KnownStep DEF SessionInv
<1>2. ASSUME SessionInv, UNCHANGED sessionVars PROVE SessionInv'
  <2>1. UNCHANGED << session_lock, thread, starting, tracked, ended, path, helper, conn,
                     redeemed, durable, expired, served >>
    BY <1>2 DEF sessionVars, dashboard, store
  <2>2. \A h \in Helpers : (Redeemer(h)' <=> Redeemer(h)) /\ (Running(h)' <=> Running(h))
    BY <2>1 DEF Redeemer, Running
  <2>3. TypeOK' /\ Streams' /\ SentIsDurable' /\ CardSentOncePerGrant'
    BY <1>2, <2>1 DEF SessionInv, TypeOK, Streams, SentIsDurable, CardSentOncePerGrant
  <2>4. Redeemed' /\ Apart'
    BY <1>2, <2>1, <2>2 DEF SessionInv, Redeemed, Apart
  <2>5. OneAtATime => Known'
    BY <1>2, <2>1, <2>2 DEF SessionInv, Known, NoHelper, StopEndsHelpers
  <2> QED BY <2>3, <2>4, <2>5 DEF SessionInv
<1> QED BY <1>1, <1>2

LEMMA SessionInvariant == SessionSpec => []SessionInv
<1>1. SessionInit /\ [][SessionNext]_sessionVars => []SessionInv
  BY SessionInvInit, SessionInvStep, PTL
<1> QED BY <1>1, PTL DEF SessionSpec

(* What the dashboard, the helpers and the broker keep is always one of the *)
(* values the code has for it, and no session serves more operations than   *)
(* max_operations allows.                                                   *)
THEOREM SessionTypeCorrect == SessionSpec => []TypeOK
<1>1. SessionInv => TypeOK
  BY DEF SessionInv
<1> QED BY <1>1, SessionInvariant, PTL

(* The card leaves a helper at most once for each grant: whatever is        *)
(* delivered again, however many helpers and threads there are, and         *)
(* whenever the power fails between the redemption of a grant, its sync and *)
(* the answer.                                                              *)
THEOREM CardIsSentOnce == SessionSpec => []CardSentOncePerGrant
<1>1. SessionInv => CardSentOncePerGrant
  BY DEF SessionInv
<1> QED BY <1>1, SessionInvariant, PTL

(* Once stop_payment_session has returned no helper runs until the owner    *)
(* arms again, as long as the requests of the dashboard come one after the  *)
(* other.                                                                   *)
THEOREM StopLeavesNoHelper == OneAtATime => (SessionSpec => []StopEndsHelpers)
<1> SUFFICES ASSUME OneAtATime PROVE SessionSpec => []StopEndsHelpers
  OBVIOUS
<1>1. SessionInv => StopEndsHelpers
  BY OneAtATime DEF SessionInv, Known
<1> QED BY <1>1, SessionInvariant, PTL

=============================================================================
