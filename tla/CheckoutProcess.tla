--------------------------- MODULE CheckoutProcess ---------------------------
(***************************************************************************)
(* One run of the checkout adapter under PlaywrightCheckoutTransport       *)
(* (apps/daemon/src/main.rs): the broker starts the adapter in a process   *)
(* group of its own, a watcher thread notes its descendants, and           *)
(* collect_child_output reads its answer until the hard deadline.  On      *)
(* every way out DescendantTracker::terminate kills the group and the      *)
(* noted descendants, then reaps the adapter.  The operating system's      *)
(* process table is part of the model: processes fork, leave the group,    *)
(* exit, are reaped, and their pids are used again.                        *)
(***************************************************************************)
EXTENDS Naturals, FiniteSets

CONSTANTS
  Pids,        \* process ids, small natural numbers
  root,        \* the adapter's pid
  MaxStarts    \* bound on the processes ever started

ASSUME ProcessAssumption ==
  Pids \subseteq Nat \ {0} /\ root \in Pids /\ MaxStarts \in Nat \ {0}

VARIABLES
  table,       \* pid -> the process that has it
  starts,      \* processes started so far: the `started' of the newest
  phase,       \* where the broker's thread is
  late,        \* the hard deadline has passed
  pending,     \* descendant_processes: pids whose children are still to be listed
  listed,      \* pids direct_child_pids returned, their identity not read yet
  walked,      \* pids whose identity the walk under way has read
  tracked,     \* DescendantTracker.processes: identities <<pid, started>>
  remaining,   \* tracked identities terminate has still to signal
  descriptor,  \* the process the open pidfd refers to, as a set
  matches,     \* the identity read under its pid is the tracked one
  stray        \* processes signalled though neither tracked nor of the group (history)

os == << table, starts >>
tracker == << pending, listed, walked, tracked >>
signals == << remaining, descriptor, matches, stray >>
processVars == << os, phase, late, tracker, signals >>

Identities == Pids \X (1 .. MaxStarts)

Free == [ state |-> "free", started |-> 0, parent |-> 0, group |-> 0,
          ours |-> FALSE, stdout |-> FALSE ]

TypeOK ==
  /\ table \in [Pids -> [ state : {"free", "alive", "zombie"}, started : 0 .. MaxStarts,
                          parent : Pids \cup {0}, group : Pids \cup {0},
                          ours : BOOLEAN, stdout : BOOLEAN ]]
  /\ starts \in 1 .. MaxStarts
  /\ phase \in {"collecting", "joining", "walking", "group", "signalling", "reaping", "done"}
  /\ late \in BOOLEAN
  /\ pending \subseteq Pids /\ listed \subseteq Pids /\ walked \subseteq Pids
  /\ tracked \subseteq Identities /\ remaining \subseteq tracked
  /\ descriptor \subseteq Identities /\ Cardinality(descriptor) <= 1
  /\ matches \in BOOLEAN
  /\ stray \subseteq Identities

InUse(p) == table[p].state # "free"
Alive(p) == table[p].state = "alive"
process_identity(p) == << p, table[p].started >>
process_identity_matches(i) == InUse(i[1]) /\ process_identity(i[1]) = i
root_identity == << root, 1 >>
Group == { p \in Pids : InUse(p) /\ table[p].group = root }

(* The process table after the processes of S end: they are zombies, their  *)
(* children belong to init.                                                 *)
Ended(S) ==
  [ p \in Pids |->
      [ table[p] EXCEPT
          !.state = IF p \in S /\ @ = "alive" THEN "zombie" ELSE @,
          !.parent = IF @ \in S THEN 0 ELSE @ ] ]

-----------------------------------------------------------------------------
(* The operating system and the processes it runs.  A pid is free again     *)
(* once its process is reaped and no process group has its number.          *)

Starts(p, process) ==
  /\ ~InUse(p) /\ starts < MaxStarts
  /\ \A q \in Pids : InUse(q) => table[q].group # p
  /\ starts' = starts + 1
  /\ table' = [table EXCEPT ![p] = process]
  /\ UNCHANGED << phase, late, tracker, signals >>

Fork(q, p) ==
  /\ Alive(q) /\ table[q].ours
  /\ Starts(p, [table[q] EXCEPT !.started = starts + 1, !.parent = q])

(* A process that has nothing to do with the checkout.                      *)
Stranger(p) ==
  Starts(p, [Free EXCEPT !.state = "alive", !.started = starts + 1, !.group = p])

(* setsid: the process leaves the adapter's group.                          *)
Detach(p) ==
  /\ Alive(p) /\ table[p].ours /\ p # root /\ table[p].group = root
  /\ table' = [table EXCEPT ![p].group = p]
  /\ UNCHANGED << starts, phase, late, tracker, signals >>

CloseStdout(p) ==
  /\ Alive(p) /\ table[p].stdout
  /\ table' = [table EXCEPT ![p].stdout = FALSE]
  /\ UNCHANGED << starts, phase, late, tracker, signals >>

Exit(p) ==
  /\ Alive(p)
  /\ table' = Ended({p})
  /\ UNCHANGED << starts, phase, late, tracker, signals >>

(* A zombie is reaped by its parent; the adapter only by the broker.        *)
Reap(p) ==
  /\ table[p].state = "zombie" /\ process_identity(p) # root_identity
  /\ table' = [table EXCEPT ![p] = Free]
  /\ UNCHANGED << starts, phase, late, tracker, signals >>

-----------------------------------------------------------------------------
(* descendant_processes, by the watcher until terminate stops it and once   *)
(* more by terminate: the children of a process are listed, then each one's *)
(* identity is read under the pid, which may be in other hands by then.     *)

WalkStarts == pending' = {root} /\ listed' = {} /\ walked' = {}

watcher_walks ==
  /\ phase = "collecting" /\ pending \cup listed = {}
  /\ WalkStarts
  /\ UNCHANGED << os, phase, late, tracked, signals >>

direct_child_pids(q) ==
  /\ q \in pending /\ listed = {}
  /\ pending' = pending \ {q}
  /\ listed' = { p \in Pids : InUse(p) /\ table[p].parent = q } \ walked
  /\ UNCHANGED << os, phase, late, walked, tracked, signals >>

identify(p) ==
  /\ p \in listed
  /\ listed' = listed \ {p} /\ pending' = pending \cup {p}
  /\ IF InUse(p)
     THEN walked' = walked \cup {p} /\ tracked' = tracked \cup {process_identity(p)}
     ELSE UNCHANGED << walked, tracked >>
  /\ UNCHANGED << os, phase, late, signals >>

-----------------------------------------------------------------------------
(* collect_child_output.  Every way out of it, and of submit before it,     *)
(* goes through terminate; whatever it returns the intent ends unknown.     *)

eof == \A p \in Pids : Alive(p) => ~table[p].stdout

Terminates ==
  /\ phase' = "joining"
  /\ UNCHANGED << os, late, tracker, signals >>

(* Slip: the exit is noticed by waiting, which reaps the adapter.           *)
child_exited_reaped ==
  /\ phase = "collecting" /\ ~late
  /\ eof /\ table[root].state = "zombie"
  /\ phase' = "joining" /\ table' = [table EXCEPT ![root] = Free]
  /\ UNCHANGED << starts, late, tracker, signals >>

(* The end of the output was read and the adapter has exited; it is looked  *)
(* at without being reaped.                                                 *)
child_exited_without_reaping ==
  /\ phase = "collecting" /\ ~late
  /\ eof /\ table[root].state = "zombie"
  /\ Terminates

(* A pipe fails, or the output is too large.                                *)
collect_fails == phase = "collecting" /\ ~late /\ Terminates

(* Slip: the deadline is looked at only once the output has ended.          *)
deadline_after_eof == phase = "collecting" /\ late /\ eof /\ Terminates

deadline == phase = "collecting" /\ late /\ Terminates

deadline_passes ==
  /\ phase = "collecting" /\ ~late
  /\ late' = TRUE
  /\ UNCHANGED << os, phase, tracker, signals >>

-----------------------------------------------------------------------------
(* DescendantTracker::terminate.                                            *)

(* The watcher is told to stop and joined, its walk done; then a last walk. *)
join_watcher ==
  /\ phase = "joining" /\ pending \cup listed = {}
  /\ phase' = "walking" /\ WalkStarts
  /\ UNCHANGED << os, late, tracked, signals >>

last_walk_ends ==
  /\ phase = "walking" /\ pending \cup listed = {}
  /\ phase' = "group"
  /\ UNCHANGED << os, late, tracker, signals >>

Signalled(S) ==
  /\ table' = Ended(S)
  /\ stray' = stray \cup { process_identity(p) : p \in { q \in S :
        process_identity(q) \notin tracked /\ q \notin Group } }

(* killpg, if the adapter's identity still is what it was.                  *)
kill_group ==
  /\ phase = "group"
  /\ IF process_identity_matches(root_identity) THEN Signalled(Group)
     ELSE UNCHANGED << table, stray >>
  /\ phase' = "signalling" /\ remaining' = tracked
  /\ UNCHANGED << starts, late, tracker, descriptor, matches >>

(* Slip: a pidfd_open that failed is not noticed.                           *)
pidfd_open_unchecked(i) ==
  /\ phase = "signalling" /\ descriptor = {} /\ i \in remaining
  /\ descriptor' = {process_identity(i[1])}
  /\ UNCHANGED << os, phase, late, tracker, remaining, matches, stray >>

(* signal_process_if_current: a handle on whoever has the pid now ...       *)
pidfd_open(i) ==
  /\ phase = "signalling" /\ descriptor = {} /\ i \in remaining
  /\ IF InUse(i[1])
     THEN descriptor' = {process_identity(i[1])} /\ UNCHANGED remaining
     ELSE remaining' = remaining \ {i} /\ UNCHANGED descriptor
  /\ UNCHANGED << os, phase, late, tracker, matches, stray >>

Opened(i) == i \in remaining /\ \A d \in descriptor : d[1] = i[1]

(* ... the identity is read again under the pid ...                         *)
match_identity(i) ==
  /\ phase = "signalling" /\ descriptor # {} /\ ~matches /\ Opened(i)
  /\ IF process_identity_matches(i)
     THEN matches' = TRUE /\ UNCHANGED << descriptor, remaining >>
     ELSE descriptor' = {} /\ remaining' = remaining \ {i} /\ UNCHANGED matches
  /\ UNCHANGED << os, phase, late, tracker, stray >>

(* Slip: the signal goes to the pid instead of through the handle.          *)
kill_pid(i) ==
  /\ phase = "signalling" /\ matches /\ Opened(i)
  /\ IF InUse(i[1]) THEN Signalled({i[1]}) ELSE UNCHANGED << table, stray >>
  /\ descriptor' = {} /\ matches' = FALSE /\ remaining' = remaining \ {i}
  /\ UNCHANGED << starts, phase, late, tracker >>

(* ... and the signal is sent through the handle.                           *)
pidfd_send_signal(i) ==
  /\ phase = "signalling" /\ matches /\ Opened(i)
  /\ LET d == CHOOSE d \in descriptor : TRUE
     IN IF process_identity_matches(d) THEN Signalled({d[1]})
        ELSE UNCHANGED << table, stray >>
  /\ descriptor' = {} /\ matches' = FALSE /\ remaining' = remaining \ {i}
  /\ UNCHANGED << starts, phase, late, tracker >>

(* child.kill() ...                                                         *)
kill_child ==
  /\ phase = "signalling" /\ remaining = {}
  /\ table' = IF process_identity_matches(root_identity) THEN Ended({root}) ELSE table
  /\ phase' = "reaping"
  /\ UNCHANGED << starts, late, tracker, signals >>

(* ... and child.wait().                                                    *)
wait_child ==
  /\ phase = "reaping"
  /\ table' = IF process_identity_matches(root_identity)
              THEN [table EXCEPT ![root] = Free] ELSE table
  /\ phase' = "done"
  /\ UNCHANGED << starts, late, tracker, signals >>

-----------------------------------------------------------------------------
ProcessInit ==
  /\ table = [ p \in Pids |->
       IF p = root THEN [ state |-> "alive", started |-> 1, parent |-> 0, group |-> root,
                          ours |-> TRUE, stdout |-> TRUE ]
       ELSE Free ]
  /\ starts = 1
  /\ phase = "collecting" /\ late = FALSE
  /\ pending = {} /\ listed = {} /\ walked = {} /\ tracked = {}
  /\ remaining = {} /\ descriptor = {} /\ matches = FALSE
  /\ stray = {}

OsStep ==
  \E p \in Pids :
    \/ \E q \in Pids : Fork(q, p)
    \/ Stranger(p) \/ Detach(p) \/ CloseStdout(p) \/ Exit(p) \/ Reap(p)

descendant_processes == \E p \in Pids : direct_child_pids(p) \/ identify(p)

collect_child_output == child_exited_without_reaping \/ collect_fails \/ deadline

signal_process_if_current(i) == pidfd_open(i) \/ match_identity(i) \/ pidfd_send_signal(i)

terminate ==
  \/ join_watcher \/ last_walk_ends \/ kill_group
  \/ \E i \in Identities : signal_process_if_current(i)
  \/ kill_child \/ wait_child

ProcessNext ==
  \/ OsStep \/ watcher_walks \/ descendant_processes
  \/ collect_child_output \/ deadline_passes \/ terminate

(* The broker's threads keep running, and time passes.                      *)
ProcessSpec ==
  /\ ProcessInit /\ [][ProcessNext]_processVars
  /\ WF_processVars(deadline_passes) /\ WF_processVars(deadline)
  /\ WF_processVars(descendant_processes) /\ WF_processVars(terminate)

-----------------------------------------------------------------------------
(* Properties.                                                              *)

(* The signals go where they were meant to go: to the adapter's process     *)
(* group, whose id cannot be recycled before it was signalled, and to       *)
(* processes the tracker noted, never to a later owner of one of their pids.*)
OnlyNotedSignalled == stray = {}

(* When submit returns, neither the adapter's group nor any process the     *)
(* tracker noted is still running: nothing of the checkout that was seen    *)
(* can go on after the intent is recorded as unknown.                       *)
NotedAreGone ==
  phase = "done" =>
    \A p \in Pids : Alive(p) =>
      /\ p \in Group => ~table[p].ours
      /\ process_identity(p) \notin tracked

(* The call returns, whatever the adapter and its descendants do: one that  *)
(* keeps the output open, detached or not, cannot hold the treasury.        *)
CheckoutReturns == <>(phase = "done")

=============================================================================
