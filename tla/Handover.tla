------------------------------- MODULE Handover -------------------------------
(***************************************************************************)
(* What the broker promises about handing purchases over, without money,   *)
(* agents, memory or failures: the record comes first and stays.  A        *)
(* purchase is recorded as begun no later than in the step that lets it    *)
(* out, to its provider or to the owner, who submits it once; what was let *)
(* out stays recorded for ever, and is never let out again.  What was not  *)
(* let out may be recorded and forgotten at any time.                      *)
(***************************************************************************)
EXTENDS Naturals

CONSTANTS Purchases

VARIABLES
  recorded,     \* the purchases recorded as begun: not to be tried again
  offered,      \* those the owner was asked to submit
  submissions   \* how often each was submitted

handoverVars == << recorded, offered, submissions >>

LetOut(i) == submissions[i] > 0 \/ i \in offered

(* The record changes, and keeps what was let out and the purchases of new. *)
Record(new) ==
  /\ recorded' \subseteq Purchases
  /\ \A i \in Purchases : LetOut(i) => i \in recorded'
  /\ new \subseteq recorded'

Rerecord == Record({}) /\ UNCHANGED << offered, submissions >>

Submit(i) ==
  /\ ~LetOut(i)
  /\ Record({i})
  /\ submissions' = [submissions EXCEPT ![i] = 1]
  /\ UNCHANGED offered

Offer(i) ==
  /\ ~LetOut(i)
  /\ Record({i})
  /\ offered' = offered \cup {i}
  /\ UNCHANGED submissions

SubmitOffered(i) ==
  /\ i \in offered /\ submissions[i] = 0
  /\ offered' = offered \ {i}
  /\ submissions' = [submissions EXCEPT ![i] = 1]
  /\ UNCHANGED recorded

HandoverInit ==
  /\ recorded = {} /\ offered = {}
  /\ submissions = [ i \in Purchases |-> 0 ]

HandoverNext ==
  Rerecord \/ \E i \in Purchases : Submit(i) \/ Offer(i) \/ SubmitOffered(i)

HandoverSpec == HandoverInit /\ [][HandoverNext]_handoverVars

=============================================================================
