-------------------------------- MODULE Pages --------------------------------
(***************************************************************************)
(* The paged listings (crates/domain/src/lib.rs): list_transactions_page,  *)
(* owner_list_transactions_page and owner_list_audit_page.  A reader walks *)
(* the pages, each call giving it the cursor of the next, while purchases  *)
(* are created and audit entries written between its calls.  created_at is *)
(* the wall clock in seconds, which several purchases share and which can  *)
(* be set back; an intent's id is random.                                  *)
(***************************************************************************)
EXTENDS Naturals, SequencesExt

CONSTANTS
  Ids,             \* intent ids, numbers for their order
  Agents, owner,   \* who may read
  MaxTime,         \* bound on the clock
  MaxAudit,        \* bound on the audit entries
  PageLimit        \* OWNER_PAGE_LIMIT

ASSUME PageAssumption ==
  /\ Ids \subseteq Nat \ {0} /\ owner \notin Agents
  /\ MaxTime \in Nat /\ MaxAudit \in Nat /\ PageLimit \in Nat \ {0}

VARIABLES
  clock,     \* now()
  intents,   \* id -> agent_id, created_at
  audit,     \* the number of audit entries; an entry is its sequence number
  actor,     \* the reader of the transactions
  walk,      \* its walk
  audit_walk \* the owner's walk over the audit log

pageVars == << clock, intents, audit, actor, walk, audit_walk >>

(* A walk: the cursor for the next call (0: none), what the pages returned, *)
(* what there was when the first was asked for.                             *)
Walk == [ state : {"new", "under way", "ended"}, cursor : Nat, seen : Seq(Nat),
          start : SUBSET Nat ]
NewWalk == [ state |-> "new", cursor |-> 0, seen |-> << >>, start |-> {} ]

TypeOK ==
  /\ clock \in 0 .. MaxTime
  /\ DOMAIN intents \subseteq Ids
  /\ \A i \in DOMAIN intents : intents[i] \in [ agent_id : Agents, created_at : 0 .. MaxTime ]
  /\ audit \in 0 .. MaxAudit
  /\ actor \in Agents \cup {owner}
  /\ walk \in Walk /\ audit_walk \in Walk
  /\ walk.cursor \in DOMAIN intents \cup {0} /\ audit_walk.cursor \in 0 .. audit

-----------------------------------------------------------------------------
(* Every call that changes the treasury writes an audit entry; creating a   *)
(* purchase also adds the purchase.                                         *)
create_intent(i, a) ==
  /\ i \notin DOMAIN intents /\ audit < MaxAudit
  /\ intents' = [ j \in DOMAIN intents \cup {i} |->
       IF j = i THEN [ agent_id |-> a, created_at |-> clock ] ELSE intents[j] ]
  /\ audit' = audit + 1
  /\ UNCHANGED << clock, actor, walk, audit_walk >>

audit_entry ==
  /\ audit < MaxAudit
  /\ audit' = audit + 1
  /\ UNCHANGED << clock, intents, actor, walk, audit_walk >>

SetClock ==
  /\ clock' \in 0 .. MaxTime /\ clock' # clock
  /\ UNCHANGED << intents, audit, actor, walk, audit_walk >>

-----------------------------------------------------------------------------
Newer(i, j) ==
  \/ intents[i].created_at > intents[j].created_at
  \/ intents[i].created_at = intents[j].created_at /\ i > j

Visible == { i \in DOMAIN intents : actor = owner \/ intents[i].agent_id = actor }
Rank(i) == Cardinality({ j \in Visible : Newer(j, i) }) + 1
Sorted == [ n \in 1 .. Cardinality(Visible) |-> CHOOSE i \in Visible : Rank(i) = n ]

(* Slip: the cursor is an offset, not an intent.                            *)
PageOf_by_offset(list, start, limit) ==
  LET stop == IF start + limit < Len(list) THEN start + limit ELSE Len(list)
  IN [ items |-> SubSeq(list, start + 1, stop),
       next_cursor |-> IF stop < Len(list) THEN stop ELSE 0 ]

(* The page after the first `start' items: what it holds, the cursor it     *)
(* hands out.                                                               *)
PageOf(list, start, limit) ==
  LET stop == IF start + limit < Len(list) THEN start + limit ELSE Len(list)
  IN [ items |-> SubSeq(list, start + 1, stop),
       next_cursor |-> IF stop < Len(list) THEN list[stop] ELSE 0 ]

(* Slip: the page starts at the cursor instead of after it.                 *)
transactions_page_at(list, cursor, limit) ==
  PageOf(list, IF cursor = 0 THEN 0 ELSE SelectInSeq(list, LAMBDA i : i = cursor) - 1, limit)

list_transactions_page(list, cursor, limit) ==
  PageOf(list, IF cursor = 0 THEN 0 ELSE SelectInSeq(list, LAMBDA i : i = cursor), limit)

(* Slip: the last entry's page is followed by an empty one, and so on.      *)
audit_page_endless(cursor, limit) ==
  LET newest == IF cursor = 0 THEN audit ELSE cursor - 1
      count == IF limit < newest THEN limit ELSE newest
  IN [ items |-> [ n \in 1 .. count |-> newest + 1 - n ],
       next_cursor |-> IF audit = 0 THEN 0 ELSE newest + 1 - count ]

(* Slip: the cursor is the first entry of the next page, which starts after *)
(* its cursor.                                                              *)
audit_page_skips(cursor, limit) ==
  LET newest == IF cursor = 0 THEN audit ELSE cursor - 1
      count == IF limit < newest THEN limit ELSE newest
  IN [ items |-> [ n \in 1 .. count |-> newest + 1 - n ],
       next_cursor |-> IF count > 0 /\ newest - count > 0 THEN newest - count ELSE 0 ]

(* owner_list_audit_page: the entries before the cursor, newest first; the  *)
(* oldest of them is the next cursor, unless it is the first of all.        *)
owner_list_audit_page(cursor, limit) ==
  LET newest == IF cursor = 0 THEN audit ELSE cursor - 1
      count == IF limit < newest THEN limit ELSE newest
  IN [ items |-> [ n \in 1 .. count |-> newest + 1 - n ],
       next_cursor |-> IF count > 0 /\ newest > count THEN newest + 1 - count ELSE 0 ]

Read(w, page, all) ==
  [ state |-> IF page.next_cursor = 0 THEN "ended" ELSE "under way",
    cursor |-> page.next_cursor,
    seen |-> w.seen \o page.items,
    start |-> IF w.state = "new" THEN all ELSE w.start ]

next_transactions(limit) ==
  /\ walk.state # "ended"
  /\ \E list \in {Sorted} :
       walk' = Read(walk, list_transactions_page(list, walk.cursor, limit), Visible)
  /\ UNCHANGED << clock, intents, audit, actor, audit_walk >>

next_audit(limit) ==
  /\ audit_walk.state # "ended"
  /\ audit_walk' = Read(audit_walk, owner_list_audit_page(audit_walk.cursor, limit), 1 .. audit)
  /\ UNCHANGED << clock, intents, audit, actor, walk >>

-----------------------------------------------------------------------------
PagesInit ==
  /\ clock = 0 /\ intents = << >> /\ audit = 0
  /\ actor \in Agents \cup {owner}
  /\ walk = NewWalk /\ audit_walk = NewWalk

NextPage == \E limit \in 1 .. PageLimit : next_transactions(limit)
NextAuditPage == \E limit \in 1 .. PageLimit : next_audit(limit)

PagesNext ==
  \/ \E i \in Ids, a \in Agents : create_intent(i, a)
  \/ audit_entry \/ SetClock
  \/ NextPage \/ NextAuditPage

(* The readers go on asking for the next page.                              *)
PagesSpec ==
  /\ PagesInit /\ [][PagesNext]_pageVars
  /\ WF_pageVars(NextPage) /\ WF_pageVars(NextAuditPage)

-----------------------------------------------------------------------------
(* Properties.                                                              *)

(* Nothing is listed twice in one walk, whatever is added during it; and    *)
(* the audit log is listed newest first without a gap, so that its hash     *)
(* chain can be followed from page to page.                                 *)
ListedOnce ==
  /\ IsInjective(walk.seen)
  /\ \A n \in 1 .. Len(audit_walk.seen) - 1 : audit_walk.seen[n] = audit_walk.seen[n + 1] + 1

(* A walk that has come to its end listed everything there was when it      *)
(* began, purchases of the same second and of a clock set back included.    *)
WalkIsComplete ==
  /\ walk.state = "ended" => walk.start \subseteq ToSet(walk.seen)
  /\ audit_walk.state = "ended" => audit_walk.start \subseteq ToSet(audit_walk.seen)

(* A walk ends: no cursor leads back.                                       *)
WalksEnd == <>(walk.state = "ended") /\ <>(audit_walk.state = "ended")

=============================================================================
