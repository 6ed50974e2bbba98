----------------------- MODULE CheckoutProcessProofs ------------------------
(***************************************************************************)
(* Machine-checked proofs about CheckoutProcess, for any set of pids and   *)
(* any number of processes: terminate signals only the adapter's group and *)
(* processes the tracker noted, and when it returns they are gone.         *)
(*                                                                         *)
(* The argument is one of age.  A pid that is used again has a younger     *)
(* process, so a handle opened on a noted pid, under which the noted       *)
(* identity is read afterwards, can only be on the noted process; and the  *)
(* adapter, which nobody else reaps, keeps its pid and its group's number. *)
(***************************************************************************)
EXTENDS CheckoutProcess, FiniteSetTheorems, TLAPS

Process == [ state : {"free", "alive", "zombie"}, started : 0 .. MaxStarts,
             parent : Pids \cup {0}, group : Pids \cup {0},
             ours : BOOLEAN, stdout : BOOLEAN ]

(* TypeOK without the process table.                                        *)
TrackerTyped ==
  /\ starts \in 1 .. MaxStarts
  /\ phase \in {"collecting", "joining", "walking", "group", "signalling", "reaping", "done"}
  /\ late \in BOOLEAN
  /\ pending \subseteq Pids /\ listed \subseteq Pids /\ walked \subseteq Pids
  /\ tracked \subseteq Identities /\ remaining \subseteq tracked
  /\ descriptor \subseteq Identities /\ Cardinality(descriptor) <= 1
  /\ matches \in BOOLEAN
  /\ stray \subseteq Identities

(* A process is as old as its number tells, and whoever has a pid is not    *)
(* older than a process noted, or opened, under that pid.                   *)
Ages ==
  /\ \A p \in Pids : InUse(p) => table[p].started \in 1 .. starts
  /\ \A i \in tracked \cup descriptor :
        i[2] <= starts /\ (InUse(i[1]) => i[2] <= table[i[1]].started)

(* What each phase of the broker's thread has left behind, and that the     *)
(* adapter is there to be reaped until the end.                             *)
Phased ==
  /\ phase \in {"group", "signalling", "reaping", "done"} => pending = {} /\ listed = {}
  /\ phase # "signalling" => descriptor = {} /\ ~matches
  /\ phase \in {"reaping", "done"} => remaining = {}
  /\ phase # "done" => InUse(root) /\ table[root].started = 1

(* A handle is open for a noted process still to be signalled, and one      *)
(* under which an identity was read again is on that process.               *)
Handles ==
  /\ descriptor # {} => remaining # {}
  /\ matches => descriptor # {} /\ descriptor \subseteq remaining
  /\ \A d \in descriptor, i \in tracked : i[1] = d[1] => i[2] <= d[2]

GroupIsKilled == phase \in {"signalling", "reaping", "done"}

(* Nobody is left in the adapter's group who could fork into it, and no     *)
(* noted process is left that is not still to be signalled.                 *)
GroupGone ==
  GroupIsKilled => \A p \in Pids : Alive(p) /\ table[p].group = root => ~table[p].ours

NotedGone ==
  GroupIsKilled =>
    \A i \in tracked \ remaining : ~(Alive(i[1]) /\ table[i[1]].started = i[2])

(* The inductive invariant.                                                 *)
ProcessInv ==
  /\ TypeOK /\ Ages /\ Phased /\ Handles /\ GroupGone /\ NotedGone /\ OnlyNotedSignalled

(* What any step but the last may do to the process table: a pid in use is  *)
(* in use by the same process, or by a new one.                             *)
Aged ==
  /\ starts' \in starts .. MaxStarts
  /\ \A p \in Pids :
       InUse(p)' =>
         \/ InUse(p) /\ table'[p].started = table[p].started /\ (Alive(p)' => Alive(p))
         \/ table'[p].started = starts + 1 /\ starts' = starts + 1
  /\ \A p \in Pids :
       Alive(p)' /\ table'[p].group = root /\ table'[p].ours =>
         \E q \in Pids : Alive(q) /\ table[q].group = root /\ table[q].ours
  /\ InUse(root) /\ table[root].started = 1 /\ phase' # "done" =>
       InUse(root)' /\ table'[root].started = 1

(* The actions of ProcessNext, one by one.                                  *)
ProcessAction ==
  \/ \E p \in Pids :
       \/ \E q \in Pids : Fork(q, p)
       \/ Stranger(p) \/ Detach(p) \/ CloseStdout(p) \/ Exit(p) \/ Reap(p)
       \/ direct_child_pids(p) \/ identify(p)
  \/ watcher_walks \/ deadline_passes
  \/ child_exited_without_reaping \/ collect_fails \/ deadline
  \/ join_watcher \/ last_walk_ends \/ kill_group
  \/ \E i \in Identities : pidfd_open(i) \/ match_identity(i) \/ pidfd_send_signal(i)
  \/ kill_child \/ wait_child

LEMMA ProcessActions == ProcessNext => ProcessAction
  BY DEF ProcessNext, ProcessAction, OsStep, descendant_processes, collect_child_output,
    terminate, signal_process_if_current

-----------------------------------------------------------------------------
LEMMA TypeIs == TypeOK <=> table \in [Pids -> Process] /\ TrackerTyped
  BY DEF TypeOK, TrackerTyped, Process

LEMMA ProcessInvInit == ProcessInit => ProcessInv
<1> SUFFICES ASSUME ProcessInit PROVE ProcessInv
  OBVIOUS
<1>0. root \in Pids /\ 0 \notin Pids /\ MaxStarts \in Nat \ {0}
  BY ProcessAssumption
<1>1. table \in [Pids -> Process]
  <2>1. Free \in Process
    BY <1>0 DEF Free, Process
  <2>2. [ state |-> "alive", started |-> 1, parent |-> 0, group |-> root,
          ours |-> TRUE, stdout |-> TRUE ] \in Process
    BY <1>0 DEF Process
  <2> QED BY <2>1, <2>2 DEF ProcessInit
<1>2. Cardinality(descriptor) <= 1
  BY FS_EmptySet DEF ProcessInit
<1>3. TypeOK
  <2>1. 1 \in 1 .. MaxStarts
    BY <1>0
  <2>2. TrackerTyped
    BY <1>0, <1>2, <2>1 DEF ProcessInit, TrackerTyped
  <2> QED BY <1>1, <2>2, TypeIs
<1>4. \A p \in Pids : InUse(p) => p = root /\ table[p].started = 1
  BY <1>0 DEF ProcessInit, InUse, Free
<1>5. InUse(root) /\ table[root].started = 1
  BY <1>0 DEF ProcessInit, InUse
<1> QED BY <1>3, <1>4, <1>5 DEF ProcessInit, ProcessInv, Ages, Phased, Handles, GroupGone,
  NotedGone, GroupIsKilled, OnlyNotedSignalled

(* What is left of a set of processes that end.                             *)
LEMMA Ending ==
  ASSUME table \in [Pids -> Process], NEW S, table' = Ended(S)
  PROVE  /\ table' \in [Pids -> Process]
         /\ \A p \in Pids :
              /\ table'[p].started = table[p].started
              /\ table'[p].group = table[p].group /\ table'[p].ours = table[p].ours
              /\ table'[p].state = IF p \in S /\ table[p].state = "alive" THEN "zombie"
                                   ELSE table[p].state
<1>1. ASSUME NEW p \in Pids
      PROVE  /\ table'[p] \in Process
             /\ table'[p].started = table[p].started
             /\ table'[p].group = table[p].group /\ table'[p].ours = table[p].ours
             /\ table'[p].state = IF p \in S /\ table[p].state = "alive" THEN "zombie"
                                  ELSE table[p].state
  <2> DEFINE s == IF p \in S /\ table[p].state = "alive" THEN "zombie" ELSE table[p].state
             q == IF table[p].parent \in S THEN 0 ELSE table[p].parent
  <2>1. table[p] \in Process /\ s \in {"free", "alive", "zombie"} /\ q \in Pids \cup {0}
    BY DEF Process
  <2>2. table'[p] = [ table[p] EXCEPT !.state = s, !.parent = q ]
    BY DEF Ended
  <2> HIDE DEF s, q
  <2>3. /\ table'[p] \in Process /\ table'[p].state = s
        /\ table'[p].started = table[p].started
        /\ table'[p].group = table[p].group /\ table'[p].ours = table[p].ours
    BY <2>1, <2>2 DEF Process
  <2> QED BY <2>3 DEF s
<1>2. table' = [ p \in Pids |-> table'[p] ]
  BY DEF Ended
<1> QED BY <1>1, <1>2

(* Processes that end keep what Aged asks for.                              *)
LEMMA EndingAges ==
  ASSUME TypeOK, NEW S, table' = Ended(S), starts' = starts
  PROVE  Aged /\ table' \in [Pids -> Process]
<1>1. table \in [Pids -> Process] /\ starts \in starts .. MaxStarts /\ root \in Pids
  BY ProcessAssumption DEF TypeOK, Process
<1>2. /\ table' \in [Pids -> Process]
      /\ \A p \in Pids :
              /\ table'[p].started = table[p].started
              /\ table'[p].group = table[p].group /\ table'[p].ours = table[p].ours
              /\ table'[p].state = IF p \in S /\ table[p].state = "alive" THEN "zombie"
                                   ELSE table[p].state
  BY <1>1, Ending
<1> QED BY <1>1, <1>2 DEF Aged, InUse, Alive

LEMMA AgedStep ==
  ASSUME ProcessInv, ProcessAction
  PROVE  Aged /\ table' \in [Pids -> Process]
<1>0. /\ TypeOK /\ table \in [Pids -> Process] /\ starts \in 1 .. MaxStarts
      /\ root \in Pids /\ 0 \notin Pids /\ MaxStarts \in Nat \ {0}
  BY ProcessAssumption, TypeIs DEF ProcessInv, TrackerTyped
<1> DEFINE T == Aged /\ table' \in [Pids -> Process]
<1>1. ASSUME UNCHANGED << table, starts >> PROVE T
  BY <1>0, <1>1 DEF Aged, InUse, Alive
<1>2. ASSUME NEW p \in Pids, NEW process \in Process, Starts(p, process),
             process.started = starts + 1,
             process.group = root /\ process.ours =>
               \E q \in Pids : Alive(q) /\ table[q].group = root /\ table[q].ours
      PROVE  T
  <2>1. /\ ~InUse(p) /\ starts < MaxStarts /\ starts' = starts + 1
        /\ table' = [table EXCEPT ![p] = process]
    BY <1>2 DEF Starts
  <2>2. starts' \in starts .. MaxStarts
    BY <1>0, <2>1
  <2> QED BY <1>0, <1>2, <2>1, <2>2 DEF Aged, InUse, Alive
<1>3. ASSUME NEW p \in Pids, NEW q \in Pids, Fork(q, p) PROVE T
  <2> DEFINE process == [table[q] EXCEPT !.started = starts + 1, !.parent = q]
  <2>1. Alive(q) /\ table[q].ours /\ Starts(p, process) /\ starts < MaxStarts
    BY <1>3 DEF Fork, Starts
  <2>2. starts + 1 \in 0 .. MaxStarts /\ table[q] \in Process
    BY <1>0, <2>1
  <2>3. /\ process \in Process /\ process.started = starts + 1
        /\ process.group = table[q].group
    BY <2>2 DEF Process
  <2> HIDE DEF process
  <2> QED BY <1>2, <2>1, <2>3
<1>4. ASSUME NEW p \in Pids, Stranger(p) PROVE T
  <2> DEFINE process == [Free EXCEPT !.state = "alive", !.started = starts + 1, !.group = p]
  <2>1. Starts(p, process) /\ starts < MaxStarts
    BY <1>4 DEF Stranger, Starts
  <2>2. starts + 1 \in 0 .. MaxStarts
    BY <1>0, <2>1
  <2>3. process \in Process /\ process.started = starts + 1 /\ ~process.ours
    BY <2>2 DEF Process, Free
  <2> HIDE DEF process
  <2> QED BY <1>2, <2>1, <2>3
<1>5. ASSUME NEW p \in Pids, Detach(p) \/ CloseStdout(p) PROVE T
  <2>1. /\ starts' = starts
        /\ \/ p # root /\ table' = [table EXCEPT ![p].group = p]
           \/ table' = [table EXCEPT ![p].stdout = FALSE]
    BY <1>5 DEF Detach, CloseStdout
  <2>2. /\ table' \in [Pids -> Process]
        /\ \A q \in Pids : /\ table'[q].state = table[q].state
                           /\ table'[q].started = table[q].started
                           /\ table'[q].ours = table[q].ours
                           /\ table'[q].group = root => table[q].group = root
    <3>1. CASE p # root /\ table' = [table EXCEPT ![p].group = p]
      <4> DEFINE e == [table[p] EXCEPT !.group = p]
      <4>1. /\ e \in Process /\ e.state = table[p].state /\ e.started = table[p].started
            /\ e.ours = table[p].ours /\ e.group = p
        BY <1>0 DEF Process
      <4>2. table' = [table EXCEPT ![p] = e]
        BY <3>1
      <4> HIDE DEF e
      <4> QED BY <1>0, <3>1, <4>1, <4>2
    <3>2. CASE table' = [table EXCEPT ![p].stdout = FALSE]
      <4> DEFINE e == [table[p] EXCEPT !.stdout = FALSE]
      <4>1. /\ e \in Process /\ e.state = table[p].state /\ e.started = table[p].started
            /\ e.ours = table[p].ours /\ e.group = table[p].group
        BY <1>0 DEF Process
      <4>2. table' = [table EXCEPT ![p] = e]
        BY <3>2
      <4> HIDE DEF e
      <4> QED BY <1>0, <4>1, <4>2
    <3> QED BY <2>1, <3>1, <3>2
  <2> QED BY <1>0, <2>1, <2>2 DEF Aged, InUse, Alive
<1>6. ASSUME NEW p \in Pids, Exit(p) PROVE T
  BY <1>0, <1>6, EndingAges DEF Exit
<1>7. ASSUME NEW p \in Pids, table[p].state = "zombie",
             table' = [table EXCEPT ![p] = Free], starts' = starts,
             phase' = "done" \/ process_identity(p) # root_identity
      PROVE  T
  <2>1. Free \in Process /\ Free.state = "free"
    BY <1>0 DEF Free, Process
  <2>2. p = root => phase' = "done" \/ table[root].started # 1
    BY <1>7 DEF process_identity, root_identity
  <2> QED BY <1>0, <1>7, <2>1, <2>2 DEF Aged, InUse, Alive
<1>8. ASSUME NEW p \in Pids, Reap(p) PROVE T
  BY <1>7, <1>8 DEF Reap
<1>9. ASSUME NEW S, Signalled(S), starts' = starts PROVE T
  BY <1>0, <1>9, EndingAges DEF Signalled
<1>10. ASSUME kill_group PROVE T
  BY <1>1, <1>9, <1>10 DEF kill_group
<1>11. ASSUME NEW i \in Identities, pidfd_send_signal(i) PROVE T
  BY <1>1, <1>9, <1>11 DEF pidfd_send_signal
<1>12. ASSUME kill_child PROVE T
  BY <1>0, <1>1, <1>12, EndingAges DEF kill_child
<1>13. ASSUME wait_child PROVE T
  <2>1. CASE table' = table
    BY <1>1, <1>13, <2>1 DEF wait_child
  <2>2. CASE table' = [table EXCEPT ![root] = Free]
    <3>1. Free \in Process /\ Free.state = "free"
      BY <1>0 DEF Free, Process
    <3>2. starts' = starts /\ phase' = "done"
      BY <1>13 DEF wait_child
    <3> QED BY <1>0, <2>2, <3>1, <3>2 DEF Aged, InUse, Alive
  <2> QED BY <1>13, <2>1, <2>2 DEF wait_child
<1>14. ASSUME \/ \E p \in Pids : direct_child_pids(p) \/ identify(p)
              \/ watcher_walks \/ deadline_passes \/ child_exited_without_reaping
              \/ collect_fails \/ deadline \/ join_watcher \/ last_walk_ends
              \/ \E i \in Identities : pidfd_open(i) \/ match_identity(i)
       PROVE  T
  <2>1. UNCHANGED << table, starts >>
    BY <1>14 DEF direct_child_pids, identify, watcher_walks, deadline_passes,
      child_exited_without_reaping, collect_fails, deadline, join_watcher, last_walk_ends,
      pidfd_open, match_identity, Terminates, os
  <2> QED BY <1>1, <2>1
<1> HIDE DEF T
<1>15. T
  BY <1>3, <1>4, <1>5, <1>6, <1>8, <1>10, <1>11, <1>12, <1>13, <1>14 DEF ProcessAction
<1> QED BY <1>15 DEF T

-----------------------------------------------------------------------------
(* The parts of the invariant, one by one.                                  *)

(* The operating system keeps off the broker's own state.                   *)
LEMMA OsKeeps ==
  ASSUME NEW p \in Pids,
         \/ \E q \in Pids : Fork(q, p)
         \/ Stranger(p) \/ Detach(p) \/ CloseStdout(p) \/ Exit(p) \/ Reap(p)
  PROVE  UNCHANGED << phase, late, tracker, signals >>
BY DEF Fork, Stranger, Starts, Detach, CloseStdout, Exit, Reap

(* What a step may note: the identity that is under a pid, by a walk; and   *)
(* what it may open a handle on: the process that has the pid.              *)
LEMMA NotedStep ==
  ASSUME ProcessInv, ProcessAction
  PROVE  /\ \A i \in tracked' :
              \/ i \in tracked
              \/ /\ phase \notin {"group", "signalling", "reaping", "done"}
                 /\ UNCHANGED << table, starts, phase, descriptor >>
                 /\ \E p \in Pids : InUse(p) /\ i = process_identity(p)
         /\ tracked \subseteq tracked'
         /\ \A d \in descriptor' :
              \/ d \in descriptor
              \/ /\ UNCHANGED << table, starts, phase, tracked, matches >>
                 /\ descriptor = {} /\ phase = "signalling"
                 /\ descriptor' = {d}
                 /\ \E p \in Pids : InUse(p) /\ d = process_identity(p)
         /\ descriptor' = descriptor \/ descriptor' = {} \/ \E d : descriptor' = {d}
<1> DEFINE T == /\ UNCHANGED tracked
                /\ descriptor' = descriptor \/ descriptor' = {}
<1>1. ASSUME NEW p \in Pids,
             \/ \E q \in Pids : Fork(q, p)
             \/ Stranger(p) \/ Detach(p) \/ CloseStdout(p) \/ Exit(p) \/ Reap(p)
      PROVE  T
  BY <1>1, OsKeeps DEF tracker, signals
<1>2. ASSUME \/ \E p \in Pids : direct_child_pids(p)
             \/ watcher_walks \/ deadline_passes \/ child_exited_without_reaping
             \/ collect_fails \/ deadline \/ join_watcher \/ last_walk_ends
      PROVE  T
  BY <1>2 DEF direct_child_pids, watcher_walks, deadline_passes, child_exited_without_reaping,
    collect_fails, deadline, join_watcher, last_walk_ends, Terminates, tracker, signals
<1>3. ASSUME \/ kill_group \/ kill_child \/ wait_child
             \/ \E i \in Identities : match_identity(i) \/ pidfd_send_signal(i)
      PROVE  T
  BY <1>3 DEF kill_group, kill_child, wait_child, match_identity, pidfd_send_signal, tracker,
    signals
<1>4. ASSUME NEW p \in Pids, identify(p)
      PROVE  /\ phase \notin {"group", "signalling", "reaping", "done"}
             /\ UNCHANGED << table, starts, phase, descriptor >>
             /\ tracked' = tracked \/ (InUse(p) /\ tracked' = tracked \cup {process_identity(p)})
  BY <1>4 DEF identify, os, signals, ProcessInv, Phased
<1>5. ASSUME NEW i \in Identities, pidfd_open(i)
      PROVE  /\ UNCHANGED << table, starts, phase, tracked, matches >>
             /\ descriptor = {} /\ phase = "signalling" /\ i[1] \in Pids
             /\ descriptor' = {} \/ (InUse(i[1]) /\ descriptor' = {process_identity(i[1])})
  BY <1>5 DEF pidfd_open, os, tracker, Identities
<1>6. CASE T
  BY <1>6
<1>7. CASE \E p \in Pids : identify(p)
  BY <1>4, <1>7
<1>8. CASE \E i \in Identities : pidfd_open(i)
  BY <1>5, <1>8
<1> HIDE DEF T
<1>9. T \/ (\E p \in Pids : identify(p)) \/ (\E i \in Identities : pidfd_open(i))
  BY <1>1, <1>2, <1>3 DEF ProcessAction
<1> QED BY <1>6, <1>7, <1>8, <1>9

LEMMA AgesStep == ProcessInv /\ ProcessNext => Ages'
<1> SUFFICES ASSUME ProcessInv, ProcessAction PROVE Ages'
  BY ProcessActions
<1>0. /\ Ages /\ starts \in Nat /\ starts' \in Nat /\ starts <= starts' /\ Aged
      /\ tracked \subseteq Identities /\ descriptor \subseteq Identities
      /\ MaxStarts \in Nat
  BY AgedStep, TypeIs, ProcessAssumption DEF ProcessInv, TrackerTyped, Aged
<1>1. ASSUME NEW p \in Pids, InUse(p)' PROVE table'[p].started \in 1 .. starts'
  BY <1>0, <1>1 DEF Aged, Ages
<1>2. ASSUME NEW i \in tracked \cup descriptor
      PROVE  i[2] <= starts' /\ (InUse(i[1])' => i[2] <= table'[i[1]].started)
  <2>1. i[2] \in Nat /\ i[1] \in Pids /\ i[2] <= starts
    BY <1>0, <1>2 DEF Identities, Ages
  <2>2. ASSUME InUse(i[1])' PROVE i[2] <= table'[i[1]].started
    BY <1>0, <1>2, <2>1, <2>2 DEF Aged, Ages
  <2> QED BY <1>0, <2>1, <2>2
<1>3. ASSUME NEW p \in Pids, InUse(p), UNCHANGED << table, starts >>,
             NEW i, i = process_identity(p)
      PROVE  i[2] <= starts' /\ (InUse(i[1])' => i[2] <= table'[i[1]].started)
  <2>1. i[1] = p /\ i[2] = table[p].started
    BY <1>3 DEF process_identity
  <2>2. table[p].started \in 1 .. starts
    BY <1>0, <1>3 DEF Ages
  <2> QED BY <1>0, <1>3, <2>1, <2>2
<1>4. ASSUME NEW i \in tracked' \cup descriptor'
      PROVE  i[2] <= starts' /\ (InUse(i[1])' => i[2] <= table'[i[1]].started)
  <2>1. CASE i \in tracked \cup descriptor
    BY <1>2, <2>1
  <2>2. CASE i \notin tracked \cup descriptor
    <3>1. UNCHANGED << table, starts >> /\ \E p \in Pids : InUse(p) /\ i = process_identity(p)
      BY <1>4, <2>2, NotedStep
    <3> QED BY <1>3, <3>1
  <2> QED BY <2>1, <2>2
<1> QED BY <1>1, <1>4 DEF Ages
LEMMA PhasedStep == ProcessInv /\ ProcessNext => Phased'
<1> SUFFICES ASSUME ProcessInv, ProcessAction PROVE Phased'
  BY ProcessActions
<1>0. Phased /\ Handles /\ Aged
  BY AgedStep DEF ProcessInv
<1> DEFINE T == /\ GroupIsKilled' \/ phase' = "group" => pending' = {} /\ listed' = {}
                /\ phase' # "signalling" => descriptor' = {} /\ ~matches'
                /\ phase' \in {"reaping", "done"} => remaining' = {}
                /\ phase' # "done" => phase # "done"
<1>1. ASSUME NEW p \in Pids,
             \/ \E q \in Pids : Fork(q, p)
             \/ Stranger(p) \/ Detach(p) \/ CloseStdout(p) \/ Exit(p) \/ Reap(p)
      PROVE  T
  BY <1>0, <1>1, OsKeeps DEF tracker, signals, Phased, GroupIsKilled
<1>2. ASSUME NEW p \in Pids, direct_child_pids(p) \/ identify(p) PROVE T
  BY <1>0, <1>2 DEF direct_child_pids, identify, os, signals, Phased, GroupIsKilled
<1>3. ASSUME \/ watcher_walks \/ deadline_passes \/ child_exited_without_reaping
             \/ collect_fails \/ deadline \/ join_watcher \/ last_walk_ends \/ kill_group
      PROVE  T
  BY <1>0, <1>3 DEF watcher_walks, deadline_passes, child_exited_without_reaping,
    collect_fails, deadline, join_watcher, last_walk_ends, kill_group, Terminates, tracker,
    signals, Phased, GroupIsKilled
<1>4. ASSUME NEW i \in Identities, pidfd_open(i) \/ match_identity(i) \/ pidfd_send_signal(i)
      PROVE  T
  BY <1>0, <1>4 DEF pidfd_open, match_identity, pidfd_send_signal, tracker, Phased,
    GroupIsKilled
<1>5. ASSUME kill_child \/ wait_child PROVE T
  BY <1>0, <1>5 DEF kill_child, wait_child, tracker, signals, Phased, Handles, GroupIsKilled
<1> HIDE DEF T
<1>6. T
  BY <1>1, <1>2, <1>3, <1>4, <1>5 DEF ProcessAction
<1> QED BY <1>0, <1>6 DEF T, Phased, Aged, GroupIsKilled

(* The handle that was matched is on the noted process it was opened for.   *)
LEMMA Matched ==
  ASSUME ProcessInv, NEW i, Opened(i), process_identity_matches(i), descriptor # {}
  PROVE  descriptor = {i}
<1>0. /\ Ages /\ Handles /\ i \in tracked /\ i \in Identities /\ descriptor \subseteq Identities
      /\ table[i[1]].started = i[2] /\ InUse(i[1])
  <2>1. i \in tracked /\ tracked \subseteq Identities /\ descriptor \subseteq Identities
    BY TypeIs DEF ProcessInv, TrackerTyped, Opened
  <2>2. InUse(i[1]) /\ << i[1], table[i[1]].started >> = i
    BY DEF process_identity_matches, process_identity
  <2> QED BY <2>1, <2>2 DEF ProcessInv
<1>1. ASSUME NEW d \in descriptor PROVE d = i
  <2>1. d[1] = i[1] /\ i[2] <= d[2] /\ d[2] <= i[2]
    BY <1>0 DEF Opened, Handles, Ages
  <2>2. d = << d[1], d[2] >> /\ i = << i[1], i[2] >> /\ d[2] \in Nat /\ i[2] \in Nat
    BY <1>0, ProcessAssumption DEF Identities
  <2> QED BY <2>1, <2>2
<1> QED BY <1>1

LEMMA HandlesStep == ProcessInv /\ ProcessNext => Handles'
<1> SUFFICES ASSUME ProcessInv, ProcessAction PROVE Handles'
  BY ProcessActions
<1>0. /\ Ages /\ Phased /\ Handles
      /\ tracked \subseteq Identities /\ descriptor \subseteq Identities
      /\ remaining \subseteq tracked
      /\ MaxStarts \in Nat
  BY TypeIs, ProcessAssumption DEF ProcessInv, TrackerTyped
<1> DEFINE T == /\ descriptor' # {} => remaining' # {}
                /\ matches' => descriptor' # {} /\ descriptor' \subseteq remaining'
<1>1. T
  <2>1. ASSUME NEW p \in Pids,
               \/ \E q \in Pids : Fork(q, p)
               \/ Stranger(p) \/ Detach(p) \/ CloseStdout(p) \/ Exit(p) \/ Reap(p)
        PROVE  T
    BY <1>0, <2>1, OsKeeps DEF signals, Handles
  <2>2. ASSUME NEW p \in Pids, direct_child_pids(p) \/ identify(p) PROVE T
    BY <1>0, <2>2 DEF direct_child_pids, identify, signals, Handles
  <2>3. ASSUME \/ watcher_walks \/ deadline_passes \/ child_exited_without_reaping
               \/ collect_fails \/ deadline \/ join_watcher \/ last_walk_ends
               \/ kill_child \/ wait_child
        PROVE  T
    BY <1>0, <2>3 DEF watcher_walks, deadline_passes, child_exited_without_reaping,
      collect_fails, deadline, join_watcher, last_walk_ends, kill_child, wait_child,
      Terminates, signals, Handles
  <2>4. ASSUME kill_group PROVE T
    BY <1>0, <2>4 DEF kill_group, Phased
  <2>5. ASSUME NEW i \in Identities, pidfd_open(i) PROVE T
    BY <1>0, <2>5 DEF pidfd_open, Handles
  <2>6. ASSUME NEW i \in Identities, match_identity(i) PROVE T
    <3>1. CASE process_identity_matches(i)
      <4>1. UNCHANGED << descriptor, remaining >> /\ descriptor = {i} /\ i \in remaining
        BY <2>6, <3>1, Matched DEF match_identity, Opened
      <4> QED BY <4>1
    <3>2. CASE ~process_identity_matches(i)
      BY <2>6, <3>2 DEF match_identity
    <3> QED BY <3>1, <3>2
  <2>7. ASSUME NEW i \in Identities, pidfd_send_signal(i) PROVE T
    BY <2>7 DEF pidfd_send_signal
  <2> HIDE DEF T
  <2> QED BY <2>1, <2>2, <2>3, <2>4, <2>5, <2>6, <2>7 DEF ProcessAction
<1>2. ASSUME NEW d \in descriptor', NEW i \in tracked', i[1] = d[1] PROVE i[2] <= d[2]
  <2>1. CASE d \in descriptor /\ i \in tracked
    BY <1>0, <1>2, <2>1 DEF Handles
  <2>2. CASE d \in descriptor /\ i \notin tracked
    BY <1>0, <2>2, NotedStep DEF Phased
  <2>3. CASE d \notin descriptor
    <3>1. /\ tracked' = tracked
          /\ \E p \in Pids : InUse(p) /\ d = process_identity(p)
      BY <2>3, NotedStep
    <3>2. InUse(d[1]) /\ d[2] = table[d[1]].started
      BY <3>1 DEF process_identity
    <3> QED BY <1>0, <1>2, <3>1, <3>2 DEF Ages
  <2> QED BY <2>1, <2>2, <2>3
<1> HIDE DEF T
<1> QED BY <1>1, <1>2 DEF T, Handles
(* How the group comes to be killed, and how a noted process leaves the     *)
(* list of those still to be signalled.                                     *)
LEMMA KilledStep ==
  ASSUME ProcessInv, ProcessAction, GroupIsKilled'
  PROVE  \/ kill_group
         \/ GroupIsKilled /\ UNCHANGED remaining
         \/ GroupIsKilled /\ \E i \in Identities :
              /\ remaining' = remaining \ {i}
              /\ \/ pidfd_open(i) \/ match_identity(i) \/ pidfd_send_signal(i)
<1>0. Phased
  BY DEF ProcessInv
<1> DEFINE T == \/ kill_group
                \/ GroupIsKilled /\ UNCHANGED remaining
                \/ GroupIsKilled /\ \E i \in Identities :
                     /\ remaining' = remaining \ {i}
                     /\ \/ pidfd_open(i) \/ match_identity(i) \/ pidfd_send_signal(i)
<1>1. ASSUME NEW p \in Pids,
             \/ \E q \in Pids : Fork(q, p)
             \/ Stranger(p) \/ Detach(p) \/ CloseStdout(p) \/ Exit(p) \/ Reap(p)
      PROVE  T
  BY <1>1, OsKeeps DEF signals, GroupIsKilled
<1>2. ASSUME NEW p \in Pids, direct_child_pids(p) \/ identify(p) PROVE T
  BY <1>2 DEF direct_child_pids, identify, signals, GroupIsKilled
<1>3. ASSUME \/ watcher_walks \/ deadline_passes \/ child_exited_without_reaping
             \/ collect_fails \/ deadline \/ join_watcher \/ last_walk_ends
             \/ kill_child \/ wait_child
      PROVE  T
  BY <1>3 DEF watcher_walks, deadline_passes, child_exited_without_reaping,
    collect_fails, deadline, join_watcher, last_walk_ends, kill_child, wait_child,
    Terminates, signals, GroupIsKilled
<1>4. ASSUME NEW i \in Identities, pidfd_open(i) \/ match_identity(i) \/ pidfd_send_signal(i)
      PROVE  T
  <2>1. GroupIsKilled /\ (remaining' = remaining \/ remaining' = remaining \ {i})
    BY <1>4 DEF pidfd_open, match_identity, pidfd_send_signal, GroupIsKilled
  <2> QED BY <1>4, <2>1
<1>5. CASE kill_group
  BY <1>5
<1> HIDE DEF T
<1>6. T
  <2>1. CASE kill_group
    BY <2>1 DEF T
  <2> QED BY <1>1, <1>2, <1>3, <1>4, <2>1 DEF ProcessAction
<1> QED BY <1>6 DEF T

(* The adapter is still there when its group is killed.                     *)
LEMMA GroupKilled ==
  ASSUME ProcessInv, kill_group
  PROVE  /\ Signalled(Group)
         /\ \A p \in Pids : Alive(p)' => table'[p].group # root
<1>1. Signalled(Group)
  BY DEF ProcessInv, Phased, kill_group, process_identity_matches, process_identity,
    root_identity
<1>2. /\ table \in [Pids -> Process]
      /\ table' = Ended(Group)
  BY <1>1, TypeIs DEF ProcessInv, Signalled
<1>3. \A p \in Pids :
              /\ table'[p].group = table[p].group
              /\ table'[p].state = IF p \in Group /\ table[p].state = "alive" THEN "zombie"
                                   ELSE table[p].state
  BY <1>2, Ending
<1> QED BY <1>1, <1>3 DEF Alive, Group, InUse

LEMMA GroupGoneStep == ProcessInv /\ ProcessNext => GroupGone'
<1> SUFFICES ASSUME ProcessInv, ProcessAction, GroupIsKilled',
                    NEW p \in Pids, Alive(p)', table'[p].group = root
             PROVE  ~table'[p].ours
  BY ProcessActions DEF GroupGone
<1>1. CASE kill_group
  BY <1>1, GroupKilled
<1>2. CASE GroupIsKilled
  BY <1>2, AgedStep DEF Aged, ProcessInv, GroupGone
<1> QED BY <1>1, <1>2, KilledStep

LEMMA NotedGoneStep == ProcessInv /\ ProcessNext => NotedGone'
<1> SUFFICES ASSUME ProcessInv, ProcessAction, GroupIsKilled',
                    NEW i \in tracked' \ remaining'
             PROVE  ~(Alive(i[1])' /\ table'[i[1]].started = i[2])
  BY ProcessActions DEF NotedGone
<1>0. /\ TypeOK /\ Ages /\ Phased /\ Handles /\ NotedGone /\ Aged
      /\ tracked \subseteq Identities /\ descriptor \subseteq Identities
      /\ remaining \subseteq tracked /\ starts \in Nat /\ MaxStarts \in Nat
      /\ table \in [Pids -> Process]
  BY AgedStep, TypeIs, ProcessAssumption DEF ProcessInv, TrackerTyped
<1> DEFINE T == ~(Alive(i[1])' /\ table'[i[1]].started = i[2])
<1>1. ASSUME kill_group PROVE T
  BY <1>1 DEF kill_group, tracker
<1>2. ASSUME GroupIsKilled
      PROVE  i \in tracked /\ i[1] \in Pids /\ i[2] \in Nat /\ i[2] <= starts
  <2>1. i \in tracked
    BY <1>2, NotedStep DEF GroupIsKilled
  <2> QED BY <1>0, <2>1 DEF Identities, Ages
(* A noted process that is gone does not come back.                         *)
<1>3. ASSUME GroupIsKilled, ~(Alive(i[1]) /\ table[i[1]].started = i[2]) PROVE T
  <2>1. i[1] \in Pids /\ i[2] \in Nat /\ i[2] # starts + 1
    BY <1>0, <1>2, <1>3
  <2> QED BY <1>0, <1>3, <2>1 DEF Aged, InUse, Alive
<1>4. ASSUME GroupIsKilled, i \notin remaining PROVE T
  BY <1>0, <1>2, <1>3, <1>4 DEF NotedGone
<1>5. ASSUME GroupIsKilled, i \in remaining, pidfd_open(i) PROVE T
  <2>1. ~InUse(i[1])
    BY <1>5 DEF pidfd_open
  <2> QED BY <1>3, <1>5, <2>1 DEF InUse, Alive
<1>6. ASSUME GroupIsKilled, i \in remaining, match_identity(i) PROVE T
  <2>1. ~process_identity_matches(i)
    BY <1>6 DEF match_identity
  <2>2. i = << i[1], i[2] >>
    BY <1>0, <1>2, <1>6 DEF Identities
  <2> QED BY <1>3, <1>6, <2>1, <2>2 DEF process_identity_matches, process_identity, InUse, Alive
<1>7. ASSUME GroupIsKilled, i \in remaining, pidfd_send_signal(i) PROVE T
  <2> DEFINE d == CHOOSE d \in descriptor : TRUE
  <2>1. d \in descriptor /\ d[1] = i[1]
    BY <1>0, <1>7 DEF pidfd_send_signal, Handles, Opened
  <2>2. /\ IF process_identity_matches(d) THEN Signalled({d[1]}) ELSE UNCHANGED << table, stray >>
        /\ starts' = starts
    BY <1>7 DEF pidfd_send_signal
  <2> HIDE DEF d
  <2>3. d \in Identities /\ d = << d[1], d[2] >> /\ d[2] \in Nat /\ i[2] <= d[2]
    BY <1>0, <1>2, <1>7, <2>1 DEF Identities, Handles
  <2>4. CASE process_identity_matches(d)
    <3>1. table' = Ended({d[1]})
      BY <2>2, <2>4 DEF Signalled
    <3>2. table'[i[1]].state # "alive"
      BY <1>0, <1>2, <1>7, <2>1, <3>1, Ending
    <3> QED BY <3>2 DEF Alive
  <2>5. CASE ~process_identity_matches(d)
    <3>1. ~InUse(i[1]) \/ table[i[1]].started # d[2]
      BY <2>1, <2>3, <2>5 DEF process_identity_matches, process_identity
    <3>2. InUse(i[1]) => d[2] <= table[i[1]].started /\ table[i[1]].started \in Nat
      BY <1>0, <1>2, <1>7, <2>1 DEF Ages, Process
    <3>3. ~InUse(i[1]) \/ table[i[1]].started # i[2]
      BY <1>2, <1>7, <2>3, <3>1, <3>2
    <3> QED BY <1>3, <1>7, <3>3 DEF InUse, Alive
  <2> QED BY <2>4, <2>5
<1>8. ASSUME GroupIsKilled, UNCHANGED remaining PROVE T
  BY <1>4, <1>8
<1>9. ASSUME GroupIsKilled, NEW j \in Identities, remaining' = remaining \ {j},
             \/ pidfd_open(j) \/ match_identity(j) \/ pidfd_send_signal(j)
      PROVE  T
  BY <1>4, <1>5, <1>6, <1>7, <1>9
<1> HIDE DEF T
<1>10. T
  BY <1>1, <1>8, <1>9, KilledStep
<1> QED BY <1>10 DEF T

LEMMA StrayStep == ProcessInv /\ ProcessNext => OnlyNotedSignalled'
<1> SUFFICES ASSUME ProcessInv, ProcessAction PROVE stray' = {}
  BY ProcessActions DEF OnlyNotedSignalled
<1>0. stray = {} /\ Handles /\ remaining \subseteq tracked
  BY TypeIs DEF ProcessInv, OnlyNotedSignalled, TrackerTyped
<1> DEFINE T == stray' = {}
<1>1. ASSUME NEW p \in Pids,
             \/ \E q \in Pids : Fork(q, p)
             \/ Stranger(p) \/ Detach(p) \/ CloseStdout(p) \/ Exit(p) \/ Reap(p)
      PROVE  T
  BY <1>0, <1>1, OsKeeps DEF signals
<1>2. ASSUME NEW p \in Pids, direct_child_pids(p) \/ identify(p) PROVE T
  BY <1>0, <1>2 DEF direct_child_pids, identify, signals
<1>3. ASSUME \/ watcher_walks \/ deadline_passes \/ child_exited_without_reaping
             \/ collect_fails \/ deadline \/ join_watcher \/ last_walk_ends
             \/ kill_child \/ wait_child
      PROVE  T
  BY <1>0, <1>3 DEF watcher_walks, deadline_passes, child_exited_without_reaping,
    collect_fails, deadline, join_watcher, last_walk_ends, kill_child, wait_child,
    Terminates, signals
<1>4. ASSUME kill_group PROVE T
  BY <1>0, <1>4, GroupKilled DEF Signalled
<1>5. ASSUME NEW i \in Identities, pidfd_open(i) \/ match_identity(i) PROVE T
  BY <1>0, <1>5 DEF pidfd_open, match_identity
<1>6. ASSUME NEW i \in Identities, pidfd_send_signal(i) PROVE T
  <2> DEFINE d == CHOOSE d \in descriptor : TRUE
  <2>1. d \in tracked
    BY <1>0, <1>6 DEF pidfd_send_signal, Handles
  <2>2. IF process_identity_matches(d) THEN Signalled({d[1]}) ELSE UNCHANGED << table, stray >>
    BY <1>6 DEF pidfd_send_signal
  <2> HIDE DEF d
  <2>3. process_identity_matches(d) => process_identity(d[1]) \in tracked
    BY <2>1 DEF process_identity_matches
  <2> QED BY <1>0, <2>2, <2>3 DEF Signalled
<1> HIDE DEF T
<1>7. T
  BY <1>1, <1>2, <1>3, <1>4, <1>5, <1>6 DEF ProcessAction
<1> QED BY <1>7 DEF T
LEMMA TypeStep == ProcessInv /\ ProcessNext => TypeOK'
<1> SUFFICES ASSUME ProcessInv, ProcessNext, ProcessAction PROVE TypeOK'
  BY ProcessActions
<1>0. /\ TrackerTyped /\ Ages /\ Handles /\ OnlyNotedSignalled'
      /\ root \in Pids /\ MaxStarts \in Nat \ {0}
      /\ starts' \in starts .. MaxStarts /\ table' \in [Pids -> Process]
  BY AgedStep, StrayStep, TypeIs, ProcessAssumption DEF ProcessInv, Aged
<1> DEFINE T == /\ phase' \in {"collecting", "joining", "walking", "group", "signalling",
                               "reaping", "done"}
                /\ late' \in BOOLEAN /\ matches' \in BOOLEAN
                /\ pending' \subseteq Pids /\ listed' \subseteq Pids /\ walked' \subseteq Pids
                /\ remaining' \subseteq tracked'
<1>1. ASSUME NEW p \in Pids,
             \/ \E q \in Pids : Fork(q, p)
             \/ Stranger(p) \/ Detach(p) \/ CloseStdout(p) \/ Exit(p) \/ Reap(p)
      PROVE  T
  BY <1>0, <1>1, OsKeeps DEF tracker, signals, TrackerTyped
<1>2. ASSUME NEW p \in Pids, direct_child_pids(p) \/ identify(p) PROVE T
  BY <1>0, <1>2 DEF direct_child_pids, identify, signals, TrackerTyped
<1>3. ASSUME \/ watcher_walks \/ deadline_passes \/ child_exited_without_reaping
             \/ collect_fails \/ deadline \/ join_watcher \/ last_walk_ends \/ kill_group
      PROVE  T
  BY <1>0, <1>3 DEF watcher_walks, deadline_passes, child_exited_without_reaping,
    collect_fails, deadline, join_watcher, last_walk_ends, kill_group, Terminates, WalkStarts,
    tracker, signals, TrackerTyped
<1>4. ASSUME \/ \E i \in Identities : pidfd_open(i) \/ match_identity(i) \/ pidfd_send_signal(i)
             \/ kill_child \/ wait_child
      PROVE  T
  BY <1>0, <1>4 DEF pidfd_open, match_identity, pidfd_send_signal, kill_child, wait_child,
    tracker, signals, TrackerTyped
<1> HIDE DEF T
<1>5. T
  BY <1>1, <1>2, <1>3, <1>4 DEF ProcessAction
(* The identities that are read are those of processes in use.              *)
<1>6. \A p \in Pids : InUse(p) => process_identity(p) \in Identities
  <2>1. \A p \in Pids : InUse(p) => table[p].started \in 1 .. MaxStarts
    BY <1>0 DEF Ages, TrackerTyped
  <2> QED BY <2>1 DEF process_identity, Identities
<1>7. tracked' \subseteq Identities
  BY <1>0, <1>6, NotedStep DEF TrackerTyped
<1>8. descriptor' \subseteq Identities
  BY <1>0, <1>6, NotedStep DEF TrackerTyped
<1>9. Cardinality(descriptor') <= 1
  <2>1. CASE descriptor' = descriptor
    BY <1>0, <2>1 DEF TrackerTyped
  <2>2. CASE descriptor' = {}
    BY <2>2, FS_EmptySet
  <2>3. CASE \E d : descriptor' = {d}
    BY <2>3, FS_Singleton
  <2> QED BY <2>1, <2>2, <2>3, NotedStep
<1>10. starts' \in 1 .. MaxStarts
  BY <1>0 DEF TrackerTyped
<1>11. TrackerTyped'
  BY <1>0, <1>5, <1>7, <1>8, <1>9, <1>10 DEF T, TrackerTyped, OnlyNotedSignalled
<1> QED BY <1>0, <1>11 DEF TypeOK, TrackerTyped, Process

LEMMA ProcessInvStep == ProcessInv /\ [ProcessNext]_processVars => ProcessInv'
<1>1. ASSUME ProcessInv, ProcessNext PROVE ProcessInv'
  BY <1>1, TypeStep, AgesStep, PhasedStep, HandlesStep, GroupGoneStep, NotedGoneStep, StrayStep
    DEF ProcessInv
<1>2. ASSUME ProcessInv, UNCHANGED processVars PROVE ProcessInv'
  <2>1. UNCHANGED << table, starts, phase, late, pending, listed, walked, tracked, remaining,
                     descriptor, matches, stray >>
    BY <1>2 DEF processVars, os, tracker, signals
  <2> QED BY <1>2, <2>1 DEF ProcessInv, TypeOK, Ages, Phased, Handles, GroupGone, NotedGone,
    GroupIsKilled, OnlyNotedSignalled, InUse, Alive
<1> QED BY <1>1, <1>2

LEMMA ProcessInvariant == ProcessSpec => []ProcessInv
  BY ProcessInvInit, ProcessInvStep, PTL DEF ProcessSpec

-----------------------------------------------------------------------------
(* Every value the process table and the tracker take is one the code's     *)
(* types allow, and there is at most one open handle: no way through        *)
(* terminate leaves a pidfd behind and opens the next.                      *)
THEOREM ProcessTypeCorrect == ProcessSpec => []TypeOK
<1>1. ProcessInv => TypeOK
  BY DEF ProcessInv
<1> QED BY <1>1, ProcessInvariant, PTL

(* Of the signals DescendantTracker sends none reaches a process that is    *)
(* neither of the adapter's group nor one its walks noted, however many     *)
(* processes start and end between the reads of an identity, the opening    *)
(* of the handle and the signal.                                            *)
THEOREM OnlyNotedAreSignalled == ProcessSpec => []OnlyNotedSignalled
<1>1. ProcessInv => OnlyNotedSignalled
  BY DEF ProcessInv
<1> QED BY <1>1, ProcessInvariant, PTL

(* When submit returns, no process of the adapter's group and none the      *)
(* tracker noted is running.                                                *)
THEOREM NotedAreGoneAtTheEnd == ProcessSpec => []NotedAreGone
<1>1. ASSUME ProcessInv, phase = "done", NEW p \in Pids, Alive(p)
      PROVE  (p \in Group => ~table[p].ours) /\ process_identity(p) \notin tracked
  <2>1. GroupIsKilled /\ remaining = {}
    BY <1>1 DEF GroupIsKilled, ProcessInv, Phased
  <2>2. p \in Group => ~table[p].ours
    BY <1>1, <2>1 DEF ProcessInv, GroupGone, Group
  <2>3. process_identity(p) \notin tracked
    BY <1>1, <2>1 DEF ProcessInv, NotedGone, process_identity
  <2> QED BY <2>2, <2>3
<1>2. ProcessInv => NotedAreGone
  BY <1>1 DEF NotedAreGone
<1> QED BY <1>2, ProcessInvariant, PTL

=============================================================================
