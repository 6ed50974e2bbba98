----------------------------- MODULE PagesProofs -----------------------------
(***************************************************************************)
(* Machine-checked proofs about Pages, for any ids, agents, clock and page *)
(* sizes: a walk lists nothing twice and misses nothing that was there     *)
(* when it began.                                                          *)
(*                                                                         *)
(* Newer is a total order that no later call changes, so the position of a *)
(* purchase in the sorted list is the number of newer ones.  The cursor is *)
(* the last purchase listed: what a page returns is older than all before  *)
(* it, and what a walk has not listed yet is older than its cursor or came *)
(* after the walk began.                                                   *)
(***************************************************************************)
EXTENDS Pages, FiniteSetTheorems, TLAPS

(* What is known of the intents themselves.                                 *)
IntentsOK ==
  /\ DOMAIN intents \subseteq Ids /\ IsFiniteSet(DOMAIN intents)
  /\ \A i \in DOMAIN intents : intents[i] \in [ agent_id : Agents, created_at : 0 .. MaxTime ]

(* A list in which each entry is newer than the ones after it.              *)
Descending(s) == \A m, n \in 1 .. Len(s) : m < n => Newer(s[m], s[n])

-----------------------------------------------------------------------------
(* Newer is a strict total order.                                           *)
LEMMA NewerIsOrder ==
  ASSUME IntentsOK
  PROVE  /\ \A i \in DOMAIN intents : ~Newer(i, i)
         /\ \A i, j \in DOMAIN intents : i = j \/ Newer(i, j) \/ Newer(j, i)
         /\ \A i, j, k \in DOMAIN intents : Newer(i, j) /\ Newer(j, k) => Newer(i, k)
<1>1. \A i \in DOMAIN intents : i \in Nat /\ intents[i].created_at \in 0 .. MaxTime
  BY PageAssumption DEF IntentsOK
<1>2. \A i \in DOMAIN intents : i \in Nat /\ intents[i].created_at \in Nat
  BY <1>1
<1> QED BY <1>2 DEF Newer

LEMMA VisibleFinite ==
  ASSUME IntentsOK
  PROVE  /\ Visible \subseteq DOMAIN intents /\ IsFiniteSet(Visible)
         /\ Cardinality(Visible) \in Nat
<1>1. Visible \in SUBSET DOMAIN intents
  BY DEF Visible
<1>2. IsFiniteSet(Visible)
  BY <1>1, FS_Subset DEF IntentsOK
<1> QED BY <1>1, <1>2, FS_CardinalityType

Before(i) == { j \in Visible : Newer(j, i) }

LEMMA RankType ==
  ASSUME IntentsOK, NEW i \in Visible
  PROVE  Rank(i) \in 1 .. Cardinality(Visible) /\ Rank(i) = Cardinality(Before(i)) + 1
<1>1. Before(i) \in SUBSET (Visible \ {i})
  BY VisibleFinite, NewerIsOrder DEF Before
<1>2. IsFiniteSet(Visible \ {i}) /\ Cardinality(Visible \ {i}) = Cardinality(Visible) - 1
  BY VisibleFinite, FS_RemoveElement
<1>3. IsFiniteSet(Before(i)) /\ Cardinality(Before(i)) <= Cardinality(Visible) - 1
  BY <1>1, <1>2, FS_Subset
<1>4. Cardinality(Before(i)) \in Nat
  BY <1>3, FS_CardinalityType
<1>5. Rank(i) = Cardinality(Before(i)) + 1
  BY DEF Rank, Before
<1> QED BY <1>3, <1>4, <1>5, VisibleFinite

(* A newer purchase stands before an older one.                             *)
LEMMA RankFollowsAge ==
  ASSUME IntentsOK, NEW i \in Visible, NEW j \in Visible, Newer(i, j)
  PROVE  Rank(i) < Rank(j)
<1>1. Before(i) \in SUBSET Before(j)
  BY VisibleFinite, NewerIsOrder DEF Before
<1>2. i \in Before(j) /\ i \notin Before(i)
  BY VisibleFinite, NewerIsOrder DEF Before
<1>3. Before(j) \in SUBSET Visible
  BY DEF Before
<1>4. IsFiniteSet(Before(j))
  BY <1>3, VisibleFinite, FS_Subset
<1>5. Cardinality(Before(i)) <= Cardinality(Before(j)) /\ Cardinality(Before(i)) # Cardinality(Before(j))
  BY <1>1, <1>2, <1>4, FS_Subset
<1>6. Cardinality(Before(i)) \in Nat /\ Cardinality(Before(j)) \in Nat
  BY <1>1, <1>4, FS_Subset, FS_CardinalityType
<1>7. Rank(i) = Cardinality(Before(i)) + 1 /\ Rank(j) = Cardinality(Before(j)) + 1
  BY RankType
<1> QED BY <1>5, <1>6, <1>7

(* Ranks are different, and there are as many as purchases: each position   *)
(* is taken.                                                                *)
LEMMA RankOnto ==
  ASSUME IntentsOK
  PROVE  /\ \A i, j \in Visible : Rank(i) = Rank(j) => i = j
         /\ \A n \in 1 .. Cardinality(Visible) : \E i \in Visible : Rank(i) = n
<1> DEFINE N == Cardinality(Visible)
           rank == [ i \in Visible |-> Rank(i) ]
<1>1. \A i, j \in Visible : Rank(i) = Rank(j) => i = j
  <2> SUFFICES ASSUME NEW i \in Visible, NEW j \in Visible, Rank(i) = Rank(j), i # j
               PROVE  FALSE
    OBVIOUS
  <2>1. Newer(i, j) \/ Newer(j, i)
    BY VisibleFinite, NewerIsOrder
  <2>2. Rank(i) < Rank(j) \/ Rank(j) < Rank(i)
    BY <2>1, RankFollowsAge
  <2>3. Rank(i) \in Int /\ Rank(j) \in Int
    BY RankType
  <2> QED BY <2>2, <2>3
<1>2. \A i \in Visible : Rank(i) \in 1 .. N
  BY RankType
<1>3. rank \in Injection(Visible, 1 .. N)
  BY <1>1, <1>2 DEF Injection, IsInjective
<1>4. N \in Nat
  BY VisibleFinite
<1>5. IsFiniteSet(1 .. N) /\ Cardinality(1 .. N) = N
  BY <1>4, FS_Interval
<1>6. rank \in Surjection(Visible, 1 .. N)
  BY <1>3, <1>5, FS_Injection
<1>7. \A n \in 1 .. N : \E i \in Visible : rank[i] = n
  BY <1>6 DEF Surjection
<1> QED BY <1>1, <1>7

(* The sorted list has every visible purchase once, at its rank.            *)
LEMMA SortedLists ==
  ASSUME IntentsOK
  PROVE  /\ Sorted \in Seq(Visible) /\ Len(Sorted) = Cardinality(Visible)
         /\ \A n \in 1 .. Cardinality(Visible) : Rank(Sorted[n]) = n
         /\ \A i \in Visible : Sorted[Rank(i)] = i
         /\ Descending(Sorted)
<1> DEFINE N == Cardinality(Visible)
<1>1. N \in Nat
  BY VisibleFinite
<1>2. \A n \in 1 .. N : Sorted[n] \in Visible /\ Rank(Sorted[n]) = n
  BY RankOnto DEF Sorted
<1>3. Sorted \in [1 .. N -> Visible]
  BY <1>2 DEF Sorted
<1> HIDE DEF N
<1>4. Sorted \in Seq(Visible) /\ Len(Sorted) = N
  BY <1>1, <1>3
<1>5. \A i \in Visible : Sorted[Rank(i)] = i
  BY <1>2, RankOnto, RankType DEF N
<1>6. ASSUME NEW m \in 1 .. N, NEW n \in 1 .. N, m < n
      PROVE  Newer(Sorted[m], Sorted[n])
  <2>1. Sorted[m] \in Visible /\ Sorted[n] \in Visible
    BY <1>2
  <2>2. Rank(Sorted[m]) = m /\ Rank(Sorted[n]) = n
    BY <1>2
  <2>3. ~Newer(Sorted[n], Sorted[m])
    <3> SUFFICES ASSUME Newer(Sorted[n], Sorted[m]) PROVE FALSE
      OBVIOUS
    <3>1. Rank(Sorted[n]) < Rank(Sorted[m])
      BY <2>1, RankFollowsAge
    <3> QED BY <1>1, <1>6, <2>2, <3>1
  <2>4. Sorted[m] # Sorted[n]
    BY <1>1, <1>6, <2>2
  <2> QED BY <2>1, <2>3, <2>4, VisibleFinite, NewerIsOrder
<1> QED BY <1>2, <1>4, <1>5, <1>6 DEF N, Descending

-----------------------------------------------------------------------------
(* Two lists one after the other.                                           *)
LEMMA Joined ==
  ASSUME NEW S, NEW s \in Seq(S), NEW t \in Seq(S)
  PROVE  /\ s \o t \in Seq(S) /\ Len(s) \in Nat /\ Len(t) \in Nat
         /\ Len(s \o t) = Len(s) + Len(t)
         /\ \A n \in 1 .. Len(s) : (s \o t)[n] = s[n] /\ s[n] \in S
         /\ \A n \in 1 .. Len(t) : (s \o t)[Len(s) + n] = t[n] /\ t[n] \in S
OBVIOUS

LEMMA JoinedMembers ==
  ASSUME NEW S, NEW s \in Seq(S), NEW t \in Seq(S)
  PROVE  /\ \A x \in ToSet(s) \cup ToSet(t) : x \in ToSet(s \o t)
         /\ Len(t) > 0 => (s \o t)[Len(s \o t)] = t[Len(t)]
<1> DEFINE u == s \o t
<1>1. /\ u \in Seq(S) /\ Len(s) \in Nat /\ Len(t) \in Nat /\ Len(u) = Len(s) + Len(t)
      /\ \A n \in 1 .. Len(s) : u[n] = s[n]
      /\ \A n \in 1 .. Len(t) : u[Len(s) + n] = t[n]
  BY Joined
<1>2. DOMAIN s = 1 .. Len(s) /\ DOMAIN t = 1 .. Len(t) /\ DOMAIN u = 1 .. Len(u)
  BY <1>1
<1> HIDE DEF u
<1>3. ASSUME NEW x \in ToSet(s) PROVE x \in ToSet(u)
  <2>1. PICK n \in 1 .. Len(s) : s[n] = x
    BY <1>2 DEF ToSet
  <2>2. n \in DOMAIN u /\ u[n] = x
    BY <1>1, <1>2, <2>1
  <2> QED BY <2>2 DEF ToSet
<1>4. ASSUME NEW x \in ToSet(t) PROVE x \in ToSet(u)
  <2>1. PICK n \in 1 .. Len(t) : t[n] = x
    BY <1>2 DEF ToSet
  <2>2. Len(s) + n \in DOMAIN u /\ u[Len(s) + n] = x
    BY <1>1, <1>2, <2>1
  <2> QED BY <2>2 DEF ToSet
<1>5. Len(t) > 0 => u[Len(u)] = t[Len(t)]
  BY <1>1
<1> QED BY <1>3, <1>4, <1>5 DEF u

LEMMA WiderSeq ==
  ASSUME NEW S, NEW T, S \subseteq T, NEW s \in Seq(S)
  PROVE  s \in Seq(T)
OBVIOUS

(* Where list_transactions_page starts: after the entry that is the cursor. *)
LEMMA CursorFound ==
  ASSUME IntentsOK, NEW c \in Visible
  PROVE  SelectInSeq(Sorted, LAMBDA i : i = c) = Rank(c)
<1> DEFINE I == { n \in 1 .. Len(Sorted) : Sorted[n] = c }
           k == Rank(c)
<1>1. /\ k \in 1 .. Len(Sorted) /\ k \in Int /\ Sorted[k] = c
      /\ \A n \in 1 .. Len(Sorted) : Rank(Sorted[n]) = n
  BY RankType, SortedLists
<1> HIDE DEF k
<1>2. \A n \in 1 .. Len(Sorted) : Sorted[n] = c => n = k
  BY <1>1 DEF k
<1>3. I = {k}
  BY <1>1, <1>2
<1>4. SelectInSeq(Sorted, LAMBDA i : i = c) = IF I # {} THEN Min(I) ELSE 0
  BY DEF SelectInSeq
<1>5. Min({k}) = k
  BY <1>1 DEF Min
<1> HIDE DEF I
<1> QED BY <1>3, <1>4, <1>5 DEF k

(* A page of list s with the entries after the first k, up to stop.         *)
PageIs(page, s, k, stop) ==
  /\ page.items \in Seq(Visible) /\ Len(page.items) = stop - k
  /\ \A n \in 1 .. stop - k : page.items[n] = s[k + n]
  /\ stop < Len(s) => page.next_cursor = s[stop] /\ k < stop
  /\ stop = Len(s) => page.next_cursor = 0

LEMMA PageReturns ==
  ASSUME NEW s \in Seq(Visible), NEW k \in 0 .. Len(s), NEW limit \in Nat \ {0}
  PROVE  \E stop \in k .. Len(s) : PageIs(PageOf(s, k, limit), s, k, stop)
<1> DEFINE stop == IF k + limit < Len(s) THEN k + limit ELSE Len(s)
           items == SubSeq(s, k + 1, stop)
<1>1. Len(s) \in Nat /\ stop \in k .. Len(s) /\ (stop < Len(s) => k < stop)
  OBVIOUS
<1>2. /\ PageOf(s, k, limit).items = items
      /\ PageOf(s, k, limit).next_cursor = IF stop < Len(s) THEN s[stop] ELSE 0
  BY DEF PageOf
<1> HIDE DEF stop
<1>3. items \in Seq(Visible) /\ Len(items) = stop - k
  BY <1>1
<1>4. \A n \in 1 .. stop - k : items[n] = s[k + n]
  BY <1>1
<1> HIDE DEF items
<1>5. stop \in k .. Len(s) /\ PageIs(PageOf(s, k, limit), s, k, stop)
  BY <1>1, <1>2, <1>3, <1>4 DEF PageIs
<1> QED BY <1>5

(* Purchases in the order of their ranks are in the order of their age.     *)
LEMMA AgeFollowsRank ==
  ASSUME IntentsOK, NEW i \in Visible, NEW j \in Visible, Rank(i) < Rank(j)
  PROVE  Newer(i, j)
<1>1. Rank(i) \in Int /\ Rank(j) \in Int
  BY RankType
<1>2. Newer(j, i) => Rank(j) < Rank(i)
  BY RankFollowsAge
<1>3. i # j /\ ~Newer(j, i)
  BY <1>1, <1>2
<1> QED BY <1>3, VisibleFinite, NewerIsOrder

-----------------------------------------------------------------------------
(* The walk over the purchases: it lists ever older ones, its cursor is the *)
(* last one listed, and what was there at its beginning is listed or older  *)
(* than the cursor.                                                         *)
WalkGood(w) ==
  /\ w.state = "new" => w = NewWalk
  /\ w.seen \in Seq(Visible) /\ Descending(w.seen)
  /\ w.start \subseteq Visible
  /\ w.state = "under way" => Len(w.seen) > 0 /\ w.cursor = w.seen[Len(w.seen)]
  /\ w.state # "new" =>
       \A i \in w.start :
         i \in ToSet(w.seen) \/ (w.state = "under way" /\ Newer(w.cursor, i))

WalkOK == WalkGood(walk)

(* The walk over the audit log: from the newest entry there was downwards,  *)
(* one by one, as far as the cursor.                                        *)
AuditWalkOK ==
  \E top \in 0 .. audit :
    /\ audit_walk.state = "new" => audit_walk = NewWalk
    /\ Len(audit_walk.seen) <= top
    /\ \A n \in 1 .. Len(audit_walk.seen) : audit_walk.seen[n] = top + 1 - n
    /\ audit_walk.state # "new" => audit_walk.start = 1 .. top
    /\ audit_walk.state = "under way" =>
         audit_walk.cursor = top + 1 - Len(audit_walk.seen) /\ audit_walk.cursor > 1
    /\ audit_walk.state = "ended" => Len(audit_walk.seen) = top

(* The inductive invariant.                                                 *)
PagesInv == TypeOK /\ IsFiniteSet(DOMAIN intents) /\ WalkOK /\ AuditWalkOK

LEMMA InvIntents == PagesInv => IntentsOK
BY DEF PagesInv, TypeOK, IntentsOK

(* The page a walk gets: the visible purchases of the ranks after those it  *)
(* has seen.                                                                *)
LEMMA PageFollows ==
  ASSUME PagesInv, walk.state # "ended", NEW limit \in 1 .. PageLimit
  PROVE  \E k \in 0 .. Len(Sorted) :
           /\ list_transactions_page(Sorted, walk.cursor, limit) = PageOf(Sorted, k, limit)
           /\ \A n \in 1 .. Len(walk.seen) : Rank(walk.seen[n]) <= k
           /\ walk.state = "new" => k = 0
           /\ walk.state # "new" =>
                \A i \in walk.start : i \in ToSet(walk.seen) \/ Rank(i) > k
<1>1. IntentsOK
  BY InvIntents
<1>2. CASE walk.state = "new"
  <2>1. walk.cursor = 0 /\ Len(walk.seen) = 0
    BY <1>2 DEF PagesInv, WalkOK, WalkGood, NewWalk
  <2>2. list_transactions_page(Sorted, walk.cursor, limit) = PageOf(Sorted, 0, limit)
    BY <2>1 DEF list_transactions_page
  <2>3. 0 \in 0 .. Len(Sorted)
    BY <1>1, SortedLists, VisibleFinite
  <2> QED BY <1>2, <2>1, <2>2, <2>3
<1>3. CASE walk.state # "new"
  <2> DEFINE c == walk.cursor
             k == Rank(c)
             s == walk.seen
  <2>1. walk.state = "under way"
    BY <1>3 DEF PagesInv, TypeOK, Walk
  <2>2. s \in Seq(Visible) /\ Len(s) > 0 /\ c = s[Len(s)] /\ Descending(s)
    BY <2>1 DEF PagesInv, WalkOK, WalkGood
  <2>3. s \in Seq(Visible) /\ Len(s) \in Nat /\ Len(s) > 0 /\ c = s[Len(s)]
    BY <2>2
  <2>4. c \in Visible
    BY <2>3
  <2>5. k \in 1 .. Len(Sorted) /\ Sorted[k] = c
    BY <1>1, <2>4, RankType, SortedLists
  <2>6. c # 0
    BY <1>1, <2>4, PageAssumption DEF IntentsOK, Visible
  <2>7. SelectInSeq(Sorted, LAMBDA i : i = c) = k
    BY <1>1, <2>4, CursorFound
  <2>8. list_transactions_page(Sorted, c, limit) = PageOf(Sorted, k, limit)
    BY <2>6, <2>7 DEF list_transactions_page
  <2>9. ASSUME NEW n \in 1 .. Len(s) PROVE Rank(s[n]) <= k
    <3>1. s[n] \in Visible /\ (n = Len(s) \/ n < Len(s))
      BY <2>3
    <3>2. CASE n = Len(s)
      BY <2>3, <2>5, <3>2
    <3>3. CASE n < Len(s)
      <4>1. Newer(s[n], c)
        BY <2>3, <2>2, <3>3 DEF Descending
      <4>2. Rank(s[n]) < Rank(c)
        BY <1>1, <2>4, <3>1, <4>1, RankFollowsAge
      <4>3. Rank(s[n]) \in Int /\ Rank(c) \in Int
        BY <1>1, <2>4, <3>1, RankType
      <4> QED BY <4>2, <4>3
    <3> QED BY <3>1, <3>2, <3>3
  <2>10. ASSUME NEW i \in walk.start PROVE i \in ToSet(s) \/ Rank(i) > k
    <3>1. i \in Visible /\ (i \in ToSet(s) \/ Newer(c, i))
      BY <1>3 DEF PagesInv, WalkOK, WalkGood
    <3>2. Newer(c, i) => Rank(c) < Rank(i)
      BY <1>1, <2>4, <3>1, RankFollowsAge
    <3>3. Rank(i) \in Int /\ Rank(c) \in Int
      BY <1>1, <2>4, <3>1, RankType
    <3> QED BY <3>1, <3>2, <3>3
  <2> HIDE DEF c, k, s
  <2>11. k \in 0 .. Len(Sorted)
    BY <2>5
  <2> QED BY <1>3, <2>8, <2>9, <2>10, <2>11 DEF c, s
<1> QED BY <1>2, <1>3

(* A page put behind what a walk has seen: the entries of the ranks after k *)
(* behind entries of ranks up to k.                                         *)
LEMMA PageDescends ==
  ASSUME IntentsOK, NEW k \in Nat,
         NEW s \in Seq(Visible), Descending(s), \A n \in 1 .. Len(s) : Rank(s[n]) <= k,
         NEW items \in Seq(Visible), \A n \in 1 .. Len(items) : Rank(items[n]) = k + n
  PROVE  Descending(s \o items)
<1> DEFINE t == s \o items
<1>1. /\ t \in Seq(Visible) /\ Len(s) \in Nat /\ Len(items) \in Nat
      /\ Len(t) = Len(s) + Len(items)
      /\ \A n \in 1 .. Len(s) : t[n] = s[n] /\ s[n] \in Visible
      /\ \A n \in 1 .. Len(items) : t[Len(s) + n] = items[n] /\ items[n] \in Visible
  BY Joined
<1> HIDE DEF t
<1>2. ASSUME NEW m \in 1 .. Len(t)
      PROVE  \/ m \in 1 .. Len(s) /\ t[m] \in Visible /\ Rank(t[m]) <= k
             \/ /\ m - Len(s) \in 1 .. Len(items) /\ t[m] \in Visible
                /\ Rank(t[m]) = k + (m - Len(s))
  <2>1. m \in 1 .. Len(s) \/ (m - Len(s) \in 1 .. Len(items) /\ m = Len(s) + (m - Len(s)))
    BY <1>1
  <2>2. CASE m \in 1 .. Len(s)
    BY <1>1, <2>2
  <2>3. CASE m - Len(s) \in 1 .. Len(items) /\ m = Len(s) + (m - Len(s))
    <3> DEFINE d == m - Len(s)
    <3>1. d \in 1 .. Len(items) /\ t[m] = t[Len(s) + d]
      BY <2>3
    <3> HIDE DEF d
    <3>2. t[m] = items[d] /\ items[d] \in Visible /\ Rank(items[d]) = k + d
      BY <1>1, <3>1
    <3> QED BY <3>1, <3>2 DEF d
  <2> QED BY <2>1, <2>2, <2>3
<1>3. ASSUME NEW m \in 1 .. Len(t), NEW n \in 1 .. Len(t), m < n
      PROVE  Newer(t[m], t[n])
  <2>1. CASE n \in 1 .. Len(s)
    <3>1. m \in 1 .. Len(s)
      BY <1>1, <1>3, <2>1
    <3>2. t[m] = s[m] /\ t[n] = s[n] /\ Newer(s[m], s[n])
      BY <1>1, <1>3, <2>1, <3>1 DEF Descending
    <3> QED BY <3>2
  <2>2. CASE n \notin 1 .. Len(s)
    <3>1. /\ n - Len(s) \in 1 .. Len(items) /\ t[n] \in Visible
          /\ Rank(t[n]) = k + (n - Len(s))
      BY <1>2, <2>2
    <3>2. t[m] \in Visible /\ (Rank(t[m]) <= k \/ Rank(t[m]) = k + (m - Len(s)))
      BY <1>2
    <3>3. Rank(t[m]) \in Int
      BY <3>2, RankType
    <3>4. Rank(t[m]) < Rank(t[n])
      <4>1. n - Len(s) > 0 /\ n \in Int /\ m \in Int /\ Len(s) \in Int
        BY <1>1, <3>1
      <4> QED BY <1>3, <3>1, <3>2, <3>3, <4>1
    <3> QED BY <3>1, <3>2, <3>4, AgeFollowsRank
  <2> QED BY <2>1, <2>2
<1> QED BY <1>1, <1>3 DEF Descending, t

(* The walk after a page that starts after rank k: the page's entries have  *)
(* the ranks up to stop, and the rest of the list is older.                 *)
Continues(list, k, count, s, items, c, all) ==
  /\ list \in Seq(Visible)
  /\ \A n \in 1 .. Len(list) : Rank(list[n]) = n
  /\ \A i \in Visible : Rank(i) \in 1 .. Len(list) /\ list[Rank(i)] = i
  /\ k \in Nat /\ count \in Nat /\ k + count <= Len(list)
  /\ s \in Seq(Visible) /\ Descending(s) /\ \A n \in 1 .. Len(s) : Rank(s[n]) <= k
  /\ items \in Seq(Visible) /\ Len(items) = count
  /\ \A n \in 1 .. count : items[n] = list[k + n]
  /\ k + count < Len(list) => c = list[k + count] /\ count > 0
  /\ k + count = Len(list) => c = 0
  /\ all \subseteq Visible /\ \A i \in all : i \in ToSet(s) \/ Rank(i) > k

(* The walk that has read up to s, was given items and the cursor c.        *)
After(s, items, c, all) ==
  [ state |-> IF c = 0 THEN "ended" ELSE "under way",
    cursor |-> c, seen |-> s \o items, start |-> all ]

LEMMA PageGood ==
  ASSUME IntentsOK, NEW list, NEW k, NEW count, NEW s, NEW items, NEW c, NEW all,
         Continues(list, k, count, s, items, c, all)
  PROVE  /\ WalkGood(After(s, items, c, all)) /\ After(s, items, c, all) \in Walk
         /\ c \in DOMAIN intents \cup {0}
<1> DEFINE N == Len(list)
           t == s \o items
<1>1. /\ N \in Nat /\ k \in Nat /\ count \in Nat /\ k + count <= N
      /\ k + count < N => c = list[k + count] /\ count > 0
      /\ k + count = N => c = 0
  BY DEF Continues
<1>2. /\ \A n \in 1 .. N : list[n] \in Visible /\ Rank(list[n]) = n
      /\ \A i \in Visible : Rank(i) \in 1 .. N /\ list[Rank(i)] = i
  BY DEF Continues
<1>3. /\ s \in Seq(Visible) /\ Descending(s) /\ \A n \in 1 .. Len(s) : Rank(s[n]) <= k
      /\ items \in Seq(Visible) /\ Len(items) = count
      /\ \A n \in 1 .. count : items[n] = list[k + n]
  BY DEF Continues
<1>4. all \subseteq Visible /\ \A i \in all : i \in ToSet(s) \/ Rank(i) > k
  BY DEF Continues
<1>5. Visible \subseteq DOMAIN intents /\ Visible \subseteq Nat \ {0} /\ Visible \subseteq Nat
  BY PageAssumption DEF IntentsOK, Visible
<1> HIDE DEF N
<1>6. \A n \in 1 .. count : k + n \in 1 .. N
  BY <1>1
<1>7. \A n \in 1 .. Len(items) : Rank(items[n]) = k + n
  BY <1>2, <1>3, <1>6
<1>8. Descending(t)
  BY <1>1, <1>3, <1>7, PageDescends
<1>9. /\ \A x \in ToSet(s) \cup ToSet(items) : x \in ToSet(t)
      /\ Len(items) > 0 => t[Len(t)] = items[Len(items)]
  BY <1>3, JoinedMembers
<1>10. t \in Seq(Visible) /\ Len(t) = Len(s) + Len(items) /\ Len(s) \in Nat
  BY <1>3
<1> HIDE DEF t
<1>11. k + count < N => /\ c \in Visible /\ Rank(c) = k + count /\ c # 0
                         /\ Len(t) > 0 /\ c = t[Len(t)]
  <2> SUFFICES ASSUME k + count < N
               PROVE  /\ c \in Visible /\ Rank(c) = k + count /\ c # 0
                      /\ Len(t) > 0 /\ c = t[Len(t)]
    OBVIOUS
  <2>1. k + count \in 1 .. N /\ count \in 1 .. count /\ c = list[k + count]
    BY <1>1
  <2>2. c \in Visible /\ Rank(c) = k + count /\ c # 0
    BY <1>2, <1>5, <2>1
  <2>3. c = items[count]
    BY <1>3, <2>1
  <2>4. Len(t) > 0 /\ c = t[Len(t)]
    BY <1>1, <1>3, <1>9, <1>10, <2>3
  <2> QED BY <2>2, <2>4
<1>12. c = 0 <=> k + count = N
  BY <1>1, <1>11
<1>13. ASSUME NEW i \in all PROVE i \in ToSet(t) \/ (c # 0 /\ Newer(c, i))
  <2>1. i \in Visible /\ Rank(i) \in 1 .. N /\ list[Rank(i)] = i
    BY <1>2, <1>4
  <2>2. i \in ToSet(s) \/ Rank(i) > k
    BY <1>4
  <2>3. CASE i \in ToSet(s)
    BY <1>9, <2>3
  <2>4. CASE Rank(i) > k /\ Rank(i) <= k + count
    <3> DEFINE n == Rank(i) - k
    <3>1. n \in 1 .. count /\ k + n = Rank(i)
      BY <1>1, <2>1, <2>4
    <3> HIDE DEF n
    <3>2. items[n] = i /\ n \in DOMAIN items
      BY <1>3, <2>1, <3>1
    <3>3. i \in ToSet(items)
      BY <3>2 DEF ToSet
    <3> QED BY <1>9, <3>3
  <2>5. CASE Rank(i) > k + count
    <3>1. k + count < N
      BY <1>1, <2>1, <2>5
    <3>2. c # 0 /\ c \in Visible /\ Rank(c) < Rank(i)
      BY <1>11, <2>5, <3>1
    <3> QED BY <2>1, <3>2, AgeFollowsRank
  <2> QED BY <1>1, <2>1, <2>2, <2>3, <2>4, <2>5
<1>14. c \in DOMAIN intents \cup {0} /\ c \in Nat
  BY <1>1, <1>5, <1>11
<1>15. t \in Seq(Nat) /\ all \subseteq Nat
  BY <1>4, <1>5, <1>10, WiderSeq
<1> DEFINE w == [ state |-> IF c = 0 THEN "ended" ELSE "under way",
                  cursor |-> c, seen |-> t, start |-> all ]
<1>16. w \in Walk
  BY <1>14, <1>15 DEF Walk
<1>17. WalkGood(w)
  <2>1. /\ w.state # "new" /\ (w.state = "under way" <=> c # 0)
        /\ w.cursor = c /\ w.seen = t /\ w.start = all
    OBVIOUS
  <2> HIDE DEF w
  <2>2. \A i \in w.start : i \in ToSet(w.seen) \/ (w.state = "under way" /\ Newer(w.cursor, i))
    BY <1>13, <2>1
  <2>3. c # 0 => Len(t) > 0 /\ c = t[Len(t)]
    BY <1>1, <1>11, <1>12
  <2> QED BY <1>4, <1>8, <1>10, <2>1, <2>2, <2>3 DEF WalkGood
<1>18. After(s, items, c, all) = w
  BY DEF After, t
<1> QED BY <1>14, <1>16, <1>17, <1>18

(* Purchases that come, and a clock that goes on, change nothing for a      *)
(* walk: the old ones keep their places among each other.                   *)
LEMMA LaterGood ==
  ASSUME IntentsOK, DOMAIN intents \subseteq DOMAIN intents',
         \A i \in DOMAIN intents : intents'[i] = intents[i],
         actor' = actor, NEW w, WalkGood(w), w.cursor \in DOMAIN intents \cup {0}
  PROVE  WalkGood(w)'
<1>1. Visible \subseteq Visible' /\ Visible \subseteq DOMAIN intents
  BY DEF Visible
<1>2. \A i, j \in DOMAIN intents : Newer(i, j)' <=> Newer(i, j)
  BY DEF Newer
<1>3. w.seen \in Seq(Visible) /\ Descending(w.seen) /\ w.start \subseteq Visible
  BY DEF WalkGood
<1>4. w.seen \in Seq(Visible')
  BY <1>1, <1>3, WiderSeq
<1>5. \A n \in 1 .. Len(w.seen) : w.seen[n] \in DOMAIN intents
  BY <1>1, <1>3
<1>6. Descending(w.seen)'
  BY <1>2, <1>3, <1>5 DEF Descending
<1>7. w.state = "under way" => Len(w.seen) > 0 /\ w.cursor = w.seen[Len(w.seen)]
  BY DEF WalkGood
<1>8. w.state = "under way" => w.cursor \in DOMAIN intents
  <2>1. Len(w.seen) \in Nat
    BY <1>3
  <2>2. Len(w.seen) > 0 => w.seen[Len(w.seen)] \in DOMAIN intents
    BY <1>5, <2>1
  <2> QED BY <1>7, <2>2
<1>9. w.state # "new" =>
        \A i \in w.start : i \in ToSet(w.seen) \/ (w.state = "under way" /\ Newer(w.cursor, i)')
  BY <1>1, <1>2, <1>3, <1>8 DEF WalkGood
<1>10. w.state = "new" => w = NewWalk
  BY DEF WalkGood
<1> QED BY <1>1, <1>3, <1>4, <1>6, <1>7, <1>9, <1>10 DEF WalkGood, NewWalk

(* What the next page does to the walk over the purchases.                  *)
LEMMA PageKeepsWalk ==
  ASSUME PagesInv, NEW limit \in 1 .. PageLimit, next_transactions(limit)
  PROVE  WalkOK' /\ walk' \in Walk /\ walk'.cursor \in DOMAIN intents \cup {0}
<1>1. IntentsOK /\ walk.state # "ended"
  BY InvIntents DEF next_transactions
<1> DEFINE page == list_transactions_page(Sorted, walk.cursor, limit)
           all == IF walk.state = "new" THEN Visible ELSE walk.start
<1>2. PICK N \in Nat, list \in Seq(Visible) :
        /\ list = Sorted /\ N = Len(list)
        /\ \A n \in 1 .. N : Rank(list[n]) = n
        /\ \A i \in Visible : Rank(i) \in 1 .. N /\ list[Rank(i)] = i
  BY <1>1, SortedLists, RankType, VisibleFinite
<1>3. PICK s \in Seq(Visible) : s = walk.seen /\ Descending(s)
  BY DEF PagesInv, WalkOK, WalkGood
<1>4. PICK k \in 0 .. N :
        /\ page = PageOf(list, k, limit)
        /\ \A n \in 1 .. Len(s) : Rank(s[n]) <= k
        /\ walk.state = "new" => k = 0
        /\ walk.state # "new" => \A i \in walk.start : i \in ToSet(s) \/ Rank(i) > k
  BY <1>1, <1>2, <1>3, PageFollows
<1>5. limit \in Nat \ {0} /\ k \in 0 .. Len(list) /\ k \in Nat
  BY <1>2, PageAssumption
<1>6. PICK stop \in k .. Len(list) : PageIs(PageOf(list, k, limit), list, k, stop)
  BY <1>5, PageReturns
<1> DEFINE items == page.items
           c == page.next_cursor
           count == stop - k
<1>7. Continues(list, k, count, s, items, c, all)
  <2>1. /\ stop \in Nat /\ Len(list) \in Nat /\ count \in Nat /\ k + count = stop
        /\ stop <= Len(list)
    BY <1>5, <1>6
  <2>2. /\ items \in Seq(Visible) /\ Len(items) = count
        /\ \A n \in 1 .. count : items[n] = list[k + n]
        /\ stop < Len(list) => c = list[stop] /\ k < stop
        /\ stop = Len(list) => c = 0
    BY <1>4, <1>6, Zenon DEF PageIs
  <2>3. all \subseteq Visible
    BY DEF PagesInv, WalkOK, WalkGood
  <2>4. \A i \in all : i \in ToSet(s) \/ Rank(i) > k
    <3>1. \A i \in Visible : Rank(i) > 0
      BY <1>2
    <3> QED BY <1>4, <3>1
  <2>5. k < stop => count > 0
    BY <1>5, <2>1
  <2> HIDE DEF items, c, count, all, page
  <2> QED BY <1>2, <1>3, <1>4, <1>5, <2>1, <2>2, <2>3, <2>4, <2>5 DEF Continues
<1>8. walk' = After(s, items, c, all)
  BY <1>3 DEF next_transactions, Read, After
<1> HIDE DEF items, c, count, all, page
<1>9. PICK w : w = After(s, items, c, all)
  OBVIOUS
<1>10. WalkGood(w) /\ w \in Walk /\ w.cursor \in DOMAIN intents \cup {0}
  <2>1. w.cursor = c
    BY <1>9 DEF After
  <2> QED BY <1>1, <1>7, <1>9, <2>1, PageGood
<1>11. WalkGood(w)'
  <2>1. intents' = intents /\ actor' = actor
    BY DEF next_transactions
  <2> QED BY <1>1, <1>10, <2>1, LaterGood
<1>12. walk' = w
  BY <1>8, <1>9
<1> QED BY <1>10, <1>11, <1>12 DEF WalkOK, WalkGood

-----------------------------------------------------------------------------
(* What the next page does to the walk over the audit log: it goes on with  *)
(* the entry below the cursor, and ends at the first entry of all.          *)
LEMMA PageKeepsAuditWalk ==
  ASSUME PagesInv, NEW limit \in 1 .. PageLimit, next_audit(limit)
  PROVE  AuditWalkOK' /\ audit_walk' \in Walk /\ audit_walk'.cursor \in 0 .. audit
<1> DEFINE v == audit_walk
           s == audit_walk.seen
           newest == IF v.cursor = 0 THEN audit ELSE v.cursor - 1
           count == IF limit < newest THEN limit ELSE newest
           items == [ n \in 1 .. count |-> newest + 1 - n ]
           c == IF count > 0 /\ newest > count THEN newest + 1 - count ELSE 0
           all == IF v.state = "new" THEN 1 .. audit ELSE v.start
<1>1. /\ v \in Walk /\ audit \in Nat /\ v.cursor \in 0 .. audit /\ v.state # "ended"
      /\ s \in Seq(Nat) /\ Len(s) \in Nat /\ v.cursor \in Nat
  <2>1. /\ v \in Walk /\ audit \in 0 .. MaxAudit /\ v.cursor \in 0 .. audit
        /\ v.state # "ended"
    BY DEF PagesInv, TypeOK, next_audit
  <2>2. s \in Seq(Nat)
    BY <2>1 DEF Walk
  <2> HIDE DEF s
  <2>3. Len(s) \in Nat /\ audit \in Nat /\ v.cursor \in Nat
    BY <2>1, <2>2
  <2> QED BY <2>1, <2>2, <2>3
<1>2. PICK top \in 0 .. audit :
        /\ \A n \in 1 .. Len(s) : s[n] = top + 1 - n
        /\ top = Len(s) + newest
        /\ all = 1 .. top
        /\ newest = 0 => v.state = "new"
  <2>1. PICK high \in 0 .. audit :
          /\ v.state = "new" => v = NewWalk
          /\ \A n \in 1 .. Len(s) : s[n] = high + 1 - n
          /\ v.state # "new" => v.start = 1 .. high
          /\ v.state = "under way" => v.cursor = high + 1 - Len(s) /\ v.cursor > 1
    BY DEF PagesInv, AuditWalkOK
  <2>2. CASE v.state = "new"
    <3>1. v.cursor = 0 /\ Len(s) = 0
      BY <2>1, <2>2 DEF NewWalk
    <3>2. audit \in 0 .. audit /\ newest = audit /\ audit = Len(s) + newest /\ all = 1 .. audit
      BY <1>1, <2>2, <3>1
    <3>3. \A n \in 1 .. Len(s) : s[n] = audit + 1 - n
      BY <3>1
    <3> QED BY <2>2, <3>2, <3>3
  <2>3. CASE v.state # "new"
    <3>1. v.state = "under way"
      BY <1>1, <2>3 DEF Walk
    <3>2. v.cursor = high + 1 - Len(s) /\ v.cursor > 1 /\ all = 1 .. high
      BY <2>1, <2>3, <3>1
    <3>3. newest = v.cursor - 1
      <4>1. v.cursor \in Nat /\ v.cursor > 1
        BY <1>1, <3>2, Zenon
      <4>2. \A n \in Nat : n > 1 => n # 0
        OBVIOUS
      <4> QED BY <4>1, <4>2, Zenon
    <3> HIDE DEF newest, v, s, all
    <3>4. high = Len(s) + newest /\ newest > 0
      BY <1>1, <3>2, <3>3
    <3>5. newest # 0
      BY <3>4
    <3> QED BY <2>1, <3>2, <3>4, <3>5
  <2> QED BY <2>2, <2>3
<1>3. newest \in Nat /\ count \in 0 .. newest /\ (count = 0 => newest = 0)
  BY <1>1, PageAssumption
<1>4. audit_walk' = After(s, items, c, all)
  BY DEF next_audit, owner_list_audit_page, Read, After
<1>5. /\ c = 0 <=> count = newest
      /\ c # 0 => c = newest + 1 - count /\ c > 1
  BY <1>3
<1> HIDE DEF newest, count, c, all
<1>6. items \in Seq(Nat) /\ Len(items) = count /\ \A n \in 1 .. count : items[n] = newest + 1 - n
  BY <1>3
<1> HIDE DEF items, s
<1> DEFINE t == s \o items
<1>7. /\ t \in Seq(Nat) /\ Len(t) = Len(s) + count
      /\ \A n \in 1 .. Len(s) : t[n] = s[n]
      /\ \A n \in 1 .. count : t[Len(s) + n] = items[n]
  <2>1. /\ s \o items \in Seq(Nat) /\ Len(s) \in Nat /\ Len(items) \in Nat
        /\ Len(s \o items) = Len(s) + Len(items)
        /\ \A n \in 1 .. Len(s) : (s \o items)[n] = s[n] /\ s[n] \in Nat
        /\ \A n \in 1 .. Len(items) : (s \o items)[Len(s) + n] = items[n] /\ items[n] \in Nat
    <3>1. s \in Seq(Nat) /\ items \in Seq(Nat)
      BY <1>1, <1>6
    <3> QED BY <3>1, Joined
  <2> HIDE DEF t
  <2>2. /\ t \in Seq(Nat) /\ Len(t) = Len(s) + Len(items)
        /\ \A n \in 1 .. Len(s) : t[n] = s[n]
        /\ \A n \in 1 .. Len(items) : t[Len(s) + n] = items[n]
    BY <2>1, Zenon DEF t
  <2> QED BY <1>6, <2>2
<1> HIDE DEF t
<1>8. ASSUME NEW n \in 1 .. Len(t) PROVE t[n] = top + 1 - n
  <2>1. CASE n <= Len(s)
    BY <1>1, <1>2, <1>7, <2>1
  <2>2. CASE n > Len(s)
    <3>1. PICK d \in 1 .. count : n = Len(s) + d
      <4>1. n - Len(s) \in 1 .. count /\ n = Len(s) + (n - Len(s))
        BY <1>1, <1>3, <1>7, <2>2
      <4> QED BY <4>1
    <3>2. t[n] = newest + 1 - d
      BY <1>6, <1>7, <3>1
    <3> QED BY <1>1, <1>2, <1>3, <3>1, <3>2
  <2> QED BY <1>1, <1>7, <2>1, <2>2
<1>9. /\ audit_walk'.state = (IF c = 0 THEN "ended" ELSE "under way")
      /\ audit_walk'.cursor = c /\ audit_walk'.seen = t /\ audit_walk'.start = all
  BY <1>4 DEF After, t
<1>10. c \in 0 .. audit
  BY <1>1, <1>2, <1>3, <1>5
<1>11. audit_walk' \in Walk
  <2>1. c \in Nat /\ all \subseteq Nat
    BY <1>1, <1>2, <1>10
  <2> QED BY <1>4, <1>7, <2>1 DEF Walk, After, t
<1>12. /\ Len(t) <= top
       /\ c # 0 => c = top + 1 - Len(t) /\ c > 1
       /\ c = 0 => Len(t) = top
  BY <1>1, <1>2, <1>3, <1>5, <1>7
<1>13. audit' = audit
  BY DEF next_audit
<1>14. AuditWalkOK'
  BY <1>2, <1>8, <1>9, <1>12, <1>13 DEF AuditWalkOK
<1> QED BY <1>9, <1>10, <1>11, <1>14

-----------------------------------------------------------------------------
(* Between the pages.                                                       *)

(* Entries written after a walk began are above the ones it lists.          *)
LEMMA LaterAudit ==
  ASSUME AuditWalkOK, audit \in Nat, audit' \in Nat, audit <= audit', audit_walk' = audit_walk
  PROVE  AuditWalkOK'
<1>1. 0 .. audit \subseteq 0 .. audit'
  OBVIOUS
<1> QED BY <1>1 DEF AuditWalkOK

(* A call that leaves the walks alone, adds to the audit log and may add    *)
(* purchases.                                                               *)
LEMMA GrowthKeeps ==
  ASSUME PagesInv, DOMAIN intents \subseteq DOMAIN intents',
         \A i \in DOMAIN intents : intents'[i] = intents[i],
         DOMAIN intents' \subseteq Ids, IsFiniteSet(DOMAIN intents'),
         \A i \in DOMAIN intents' :
           intents'[i] \in [ agent_id : Agents, created_at : 0 .. MaxTime ],
         clock' \in 0 .. MaxTime, audit' \in audit .. MaxAudit,
         UNCHANGED << actor, walk, audit_walk >>
  PROVE  PagesInv'
<1>1. TypeOK /\ IntentsOK /\ WalkOK /\ AuditWalkOK
  BY InvIntents DEF PagesInv
<1>2. audit \in Nat /\ audit' \in Nat /\ audit <= audit' /\ audit' \in 0 .. MaxAudit
  BY <1>1, PageAssumption DEF TypeOK
<1>3. TypeOK'
  <2>1. audit_walk'.cursor \in 0 .. audit'
    BY <1>1, <1>2 DEF TypeOK
  <2> QED BY <1>1, <1>2, <2>1 DEF TypeOK
<1>4. WalkOK'
  <2>1. PICK w : w = walk
    OBVIOUS
  <2>2. WalkGood(w) /\ w.cursor \in DOMAIN intents \cup {0}
    BY <1>1, <2>1 DEF WalkOK, TypeOK
  <2>3. WalkGood(w)'
    BY <1>1, <2>2, LaterGood
  <2>4. walk' = w
    BY <2>1
  <2> QED BY <2>3, <2>4 DEF WalkOK, WalkGood
<1>5. AuditWalkOK'
  BY <1>1, <1>2, LaterAudit
<1> QED BY <1>3, <1>4, <1>5 DEF PagesInv

LEMMA CreateKeeps ==
  ASSUME PagesInv, NEW i \in Ids, NEW a \in Agents, create_intent(i, a)
  PROVE  PagesInv'
<1>1. /\ TypeOK /\ IsFiniteSet(DOMAIN intents) /\ audit \in Nat
  BY PageAssumption DEF PagesInv, TypeOK
<1>2. DOMAIN intents' = DOMAIN intents \cup {i}
  BY DEF create_intent
<1>3. IsFiniteSet(DOMAIN intents')
  BY <1>1, <1>2, FS_AddElement
<1>4. \A j \in DOMAIN intents : intents'[j] = intents[j]
  BY DEF create_intent
<1>5. intents'[i] = [ agent_id |-> a, created_at |-> clock ]
  BY DEF create_intent
<1>6. \A j \in DOMAIN intents' :
        intents'[j] \in [ agent_id : Agents, created_at : 0 .. MaxTime ]
  BY <1>1, <1>2, <1>4, <1>5 DEF TypeOK
<1>7. audit' \in audit .. MaxAudit /\ clock' \in 0 .. MaxTime
  BY <1>1, PageAssumption DEF create_intent, TypeOK
<1>8. UNCHANGED << actor, walk, audit_walk >> /\ DOMAIN intents' \subseteq Ids
  BY <1>1, <1>2 DEF create_intent, TypeOK
<1> QED BY <1>2, <1>3, <1>4, <1>6, <1>7, <1>8, GrowthKeeps

LEMMA PagesInvStep == PagesInv /\ [PagesNext]_pageVars => PagesInv'
<1> SUFFICES ASSUME PagesInv, [PagesNext]_pageVars PROVE PagesInv'
  OBVIOUS
<1>1. TypeOK /\ IsFiniteSet(DOMAIN intents) /\ audit \in Nat /\ audit \in 0 .. MaxAudit
  BY PageAssumption DEF PagesInv, TypeOK
<1>2. ASSUME NEW i \in Ids, NEW a \in Agents, create_intent(i, a) PROVE PagesInv'
  BY <1>2, CreateKeeps
<1>3. ASSUME UNCHANGED << intents, actor, walk, audit_walk >>,
             clock' \in 0 .. MaxTime, audit' \in audit .. MaxAudit
      PROVE  PagesInv'
  <2>1. \A i \in DOMAIN intents' :
          intents'[i] \in [ agent_id : Agents, created_at : 0 .. MaxTime ]
    BY <1>1, <1>3 DEF TypeOK
  <2> QED BY <1>1, <1>3, <2>1, GrowthKeeps DEF TypeOK
<1>4. CASE audit_entry
  <2>1. audit' \in audit .. MaxAudit /\ clock' \in 0 .. MaxTime
    BY <1>1, <1>4, PageAssumption DEF audit_entry, TypeOK
  <2> QED BY <1>3, <1>4, <2>1 DEF audit_entry
<1>5. audit \in audit .. MaxAudit
  BY <1>1, PageAssumption
<1>6. CASE SetClock
  BY <1>3, <1>5, <1>6 DEF SetClock
<1>7. CASE NextPage
  <2>1. PICK limit \in 1 .. PageLimit : next_transactions(limit)
    BY <1>7 DEF NextPage
  <2>2. WalkOK' /\ walk' \in Walk /\ walk'.cursor \in DOMAIN intents \cup {0}
    BY <2>1, PageKeepsWalk
  <2>3. UNCHANGED << clock, intents, audit, actor, audit_walk >>
    BY <2>1 DEF next_transactions
  <2>4. TypeOK'
    BY <1>1, <2>2, <2>3 DEF TypeOK
  <2>5. AuditWalkOK'
    BY <1>1, <2>3, LaterAudit DEF PagesInv
  <2> QED BY <1>1, <2>2, <2>3, <2>4, <2>5 DEF PagesInv
<1>8. CASE NextAuditPage
  <2>1. PICK limit \in 1 .. PageLimit : next_audit(limit)
    BY <1>8 DEF NextAuditPage
  <2>2. AuditWalkOK' /\ audit_walk' \in Walk /\ audit_walk'.cursor \in 0 .. audit
    BY <2>1, PageKeepsAuditWalk
  <2>3. UNCHANGED << clock, intents, audit, actor, walk >>
    BY <2>1 DEF next_audit
  <2>4. TypeOK'
    BY <1>1, <2>2, <2>3 DEF TypeOK
  <2>5. WalkOK'
    <3>1. IntentsOK
      BY InvIntents
    <3>2. PICK w : w = walk
      OBVIOUS
    <3>3. WalkGood(w) /\ w.cursor \in DOMAIN intents \cup {0}
      BY <1>1, <3>2 DEF PagesInv, WalkOK, TypeOK
    <3>4. WalkGood(w)'
      BY <2>3, <3>1, <3>3, LaterGood
    <3>5. walk' = w
      BY <2>3, <3>2
    <3> QED BY <3>4, <3>5 DEF WalkOK, WalkGood
  <2> QED BY <1>1, <2>2, <2>3, <2>4, <2>5 DEF PagesInv
<1>9. CASE UNCHANGED pageVars
  BY <1>1, <1>3, <1>5, <1>9 DEF pageVars, TypeOK
<1> QED BY <1>2, <1>4, <1>6, <1>7, <1>8, <1>9 DEF PagesNext

LEMMA PagesInvInit == PagesInit => PagesInv
<1> SUFFICES ASSUME PagesInit PROVE PagesInv
  OBVIOUS
<1>1. DOMAIN intents = {} /\ IsFiniteSet(DOMAIN intents)
  BY FS_EmptySet DEF PagesInit
<1>2. NewWalk \in Walk /\ walk = NewWalk /\ audit_walk = NewWalk /\ audit = 0
  BY DEF Walk, NewWalk, PagesInit
<1>3. TypeOK
  BY <1>1, <1>2, PageAssumption DEF TypeOK, PagesInit, NewWalk
<1>4. WalkOK
  BY <1>2 DEF WalkOK, WalkGood, NewWalk, Descending
<1>5. AuditWalkOK
  BY <1>2 DEF AuditWalkOK, NewWalk
<1> QED BY <1>1, <1>3, <1>4, <1>5 DEF PagesInv

LEMMA PagesInvariant == PagesSpec => []PagesInv
<1>1. PagesInit /\ [][PagesNext]_pageVars => []PagesInv
  BY PagesInvInit, PagesInvStep, PTL
<1> QED BY <1>1, PTL DEF PagesSpec

-----------------------------------------------------------------------------
(* Every reachable state is well formed; a cursor is always an entry there  *)
(* is, so no page is refused for its cursor.                                *)
THEOREM PagesTypeCorrect == PagesSpec => []TypeOK
<1>1. PagesInv => TypeOK
  BY DEF PagesInv
<1> QED BY <1>1, PagesInvariant, PTL

(* However many purchases are created between the pages of a walk, in the   *)
(* same second or at a clock set back, none is listed twice, and the audit  *)
(* log is listed without a gap (list_transactions_page,                     *)
(* owner_list_transactions_page, owner_list_audit_page).                    *)
THEOREM NothingListedTwice == PagesSpec => []ListedOnce
<1>1. ASSUME PagesInv PROVE ListedOnce
  <2>1. IntentsOK /\ walk.seen \in Seq(Visible) /\ Descending(walk.seen)
    BY <1>1, InvIntents DEF PagesInv, WalkOK, WalkGood
  <2>2. PICK s \in Seq(Visible) : s = walk.seen /\ Descending(s)
    BY <2>1
  <2>3. DOMAIN s = 1 .. Len(s) /\ Len(s) \in Nat
    BY <2>2
  <2>4. ASSUME NEW m \in 1 .. Len(s), NEW n \in 1 .. Len(s), m < n PROVE s[m] # s[n]
    <3>1. Newer(s[m], s[n]) /\ s[m] \in DOMAIN intents
      BY <2>1, <2>2, <2>4, VisibleFinite DEF Descending
    <3> QED BY <2>1, <3>1, NewerIsOrder
  <2>5. IsInjective(s)
    <3> SUFFICES ASSUME NEW m \in 1 .. Len(s), NEW n \in 1 .. Len(s), s[m] = s[n]
                 PROVE  m = n
      BY <2>3 DEF IsInjective
    <3>1. ~(m < n) /\ ~(n < m)
      BY <2>4
    <3> QED BY <2>3, <3>1
  <2>6. PICK top \in 0 .. audit :
          \A n \in 1 .. Len(audit_walk.seen) : audit_walk.seen[n] = top + 1 - n
    BY <1>1 DEF PagesInv, AuditWalkOK
  <2>7. PICK t \in Seq(Nat) : t = audit_walk.seen
    BY <1>1 DEF PagesInv, TypeOK, Walk
  <2>8. ASSUME NEW n \in 1 .. Len(t) - 1 PROVE t[n] = t[n + 1] + 1
    <3>1. n \in 1 .. Len(t) /\ n + 1 \in 1 .. Len(t)
      BY <2>7
    <3>2. t[n] = top + 1 - n /\ t[n + 1] = top + 1 - (n + 1)
      BY <2>6, <2>7, <3>1
    <3>3. audit \in Nat /\ top \in Int /\ n \in Int
      BY <1>1, PageAssumption DEF PagesInv, TypeOK
    <3> QED BY <3>2, <3>3
  <2> QED BY <2>2, <2>5, <2>7, <2>8 DEF ListedOnce
<1> QED BY <1>1, PagesInvariant, PTL

(* A walk that has come to its end has listed all there was when it began,  *)
(* whatever was added on the way.                                           *)
THEOREM NothingIsMissed == PagesSpec => []WalkIsComplete
<1>1. ASSUME PagesInv PROVE WalkIsComplete
  <2>1. walk.state = "ended" => walk.start \subseteq ToSet(walk.seen)
    BY <1>1 DEF PagesInv, WalkOK, WalkGood
  <2>2. ASSUME audit_walk.state = "ended"
        PROVE  audit_walk.start \subseteq ToSet(audit_walk.seen)
    <3>1. PICK t \in Seq(Nat) : t = audit_walk.seen
      BY <1>1 DEF PagesInv, TypeOK, Walk
    <3>2. PICK top \in 0 .. audit :
            /\ \A n \in 1 .. Len(t) : t[n] = top + 1 - n
            /\ audit_walk.start = 1 .. top /\ Len(t) = top
      BY <1>1, <2>2, <3>1 DEF PagesInv, AuditWalkOK
    <3>3. ASSUME NEW e \in 1 .. top PROVE e \in ToSet(t)
      <4>1. top + 1 - e \in 1 .. Len(t)
        BY <3>2
      <4>2. t[top + 1 - e] = e
        BY <3>2, <4>1
      <4>3. top + 1 - e \in DOMAIN t
        BY <4>1
      <4> QED BY <4>2, <4>3 DEF ToSet
    <3> QED BY <3>1, <3>2, <3>3
  <2> QED BY <2>1, <2>2 DEF WalkIsComplete
<1> QED BY <1>1, PagesInvariant, PTL


=============================================================================
