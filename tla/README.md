# Cixa: a TLA+ model of the purchase broker

Cixa lets a software agent make purchases within bounds its owner sets. This
directory models it from the treasury outwards: how a purchase is created,
approved, executed, answered and reconciled, how the ledger and the providers
follow it, how the emergency stop and sessions cut it off, and what a failed
save or a restart does to it; the quotas of the audit log; the daemon's
connections and what they share; the data directory and the programs that use
it; the supervised checkout process; the payment session with its secret helper;
and the paged listings. TLC checks the models on small instances; TLAPS proves
their safety properties for instances of any size, and that the treasury and the
broker implement their abstract specifications.

Check a run with `tlc -config sim.cfg MCAuthority` (the run's cfg and module are
listed in `PROJECT.json`), the proofs with `tlapm TreasuryProofs.tla` and likewise
for the other modules whose name ends in `Proofs`.

## 1. Inventory of the system

Sources: `crates/domain/src/lib.rs` (the treasury), `apps/daemon/src/main.rs`
(processes, sockets, checkout supervision, secret helper, owner command line),
`apps/owner-dashboard/` (a local web page over the command line),
`packages/checkout-playwright/` (the browser), `packages/mcp-server/` and two
SDKs (agent-side clients).

| Component | State | Operations | Hard behaviour | What makes it correct | Module |
|---|---|---|---|---|---|
| Purchase lifecycle | `PurchaseIntent` and its `TransactionState` | create, cancel, approve, deny, execute, hand off, reconcile | decisions taken at creation are used much later | no start after a stop; every started purchase can be decided, and is | `Purchase`, `Treasury`, `Diligence` |
| Ledger and authority | append-only events; capital, top-ups, refunds, settlements, reservations | appended by every handler that moves money; `usage`, `ledger_snapshot` | several purchases over one budget, outcomes out of order | money moves as a whole and once; authority never negative | `Treasury`, `Authority` |
| Policy engine | policies, one per agent | `Policy::evaluate`, `enforce_authority`, update | limits change under open purchases | use grows only within the limit in force | `Treasury` |
| Agents, capabilities, sessions | mode, revocation, expiry, owner-armed session | create, arm, rotate, revoke, set mode, emergency stop | stop, resume, re-arm, rotate in any order | nothing from before the stop survives it | `Treasury` |
| Simulated provider | balance, holds, charges, refunds | authorize, settle a hold, refund | a charge whose answer is lost | its books agree with the ledger | `Treasury` |
| Manual prepaid card | balance snapshot (amount, status, expiry), controlled checkout on or off | configure, manual handoff, controlled checkout, owner command | balance is only what the owner said; outcome always unknown | reservations covered; nothing charged without its owner | `Treasury` |
| Deposits | external references seen | record verified or unverified | replay, deposit during an open hold | counted once, within the treasury size | `Treasury` |
| Persistence and recovery | state file, memory | save, load, recover, roll back | crash or failed save between reserve, submit and record | no purchase submitted twice, none started that a saved stop caught | `Broker`, `Handover` |
| Audit chain and quotas | audit entries, HMAC chain, ceilings | append, reserve slots | the log near its ceiling | outcomes can always be recorded | `AuditQuota` |
| Daemon sockets and admission | in-flight and per-second counters, provider mode | admit, look at the peer, release, rate limit | capabilities and provider change under a request that takes its locks several times | counters match requests, guards are released, every request ends | `Admission` |
| Data directory lock, owner command line | lock, key, state, token files, socket | init, serve, owner command over the socket or on the directory | two programs on one file, killed anywhere, power failure | what was acknowledged stays; the state has its key | `DataDirectory` |
| Prepared-token activation | token file beside the treasury | write, sync, request, keep or remove | the answer to an activation is lost | a capability in force has its token | `DataDirectory` |
| Secret helper, dashboard session | helper process, socket path, redeemed nonces | arm, stop, status; accept, redeem, answer, leave | grant delivered twice or late, power failure, concurrent arms | each grant served at most once; the helper goes | `SecretSession` |
| Checkout process supervision | process table, tracked identities, deadline | walk, collect, terminate | pids recycled, detached descendants, output held open | the call returns, nothing noted survives, nobody else is signalled | `CheckoutProcess` |
| Paged listings | cursor of each walk | next page | entries added between pages, equal timestamps, a clock set back | nothing missed, repeated or endless | `Pages` |
| Browser adapter, MCP server, SDKs, canonicalisation, scripts | none of the treasury's | | I/O and formatting | not modelled | |

**Interactions.** Agent and owner connections are threads of the daemon. They
share one treasury behind one mutex, and a handler holds it from its first read
to the end of its last save. A controlled checkout holds it for the whole
browser run as well (up to three minutes), so an owner's stop waits behind it;
`CheckoutReturns` is what lets `Admission` assume that the mutex is given back.
The execute-handoff command is a process of its own; the data directory lock
keeps it and the daemon apart (`DataDirectory`), and each loads the state file
and runs `recover_interrupted_executions` before anything else (`Broker`). The
dashboard starts and stops the secret helper; the broker, inside a checkout,
fetches the card from it (`SecretSession`).

`PROJECT.json` lists the hazards with their lines and the properties that would
catch them; a hazard without a property says why there.

## 2. Modules

| Module | Models |
|---|---|
| `Purchase` | the states of a purchase, `can_transition`, and the groups of states the handlers match on |
| `MinorUnits` | sums of amounts over a set of purchases: the number of their minor units, written without recursion so that proofs can use it |
| `Treasury` | the treasury in memory: one action per request handler, one per answer of a provider, one per comparison with the clock that can change |
| `Authority` | abstract: what the treasury promises about money |
| `TreasuryAuthority` | the refinement mapping from `Treasury` to `Authority` |
| `Diligence` | `Treasury` under the fairness of an owner and agents who keep trying: liveness |
| `Broker` | `Treasury` with its state file: saves that succeed or fail, submission, restart, the one-shot owner command |
| `Handover` | abstract: what the broker promises about handing purchases over: the record comes first and stays |
| `AuditQuota` | the quotas of the durable audit log over every audited call and a restart |
| `Admission` | the daemon's connections as threads, `AgentAdmission`, the identity look and the two mutexes |
| `DataDirectory` | init, serve, owner commands and the dashboard's activations over one directory, killed anywhere |
| `SecretSession` | the dashboard's payment session, the helper process, the broker's fetch, the redemption directory |
| `CheckoutProcess` | one run of the checkout adapter on the operating system's process table |
| `Pages` | the paged listings, walked while they grow |
| `MC...` | values of the constants and symmetry for TLC; `MCAuthority` and `MCDiligence` put the refinement on top of the instances of `MCTreasury` |
| `TreasuryProofs` | theorems about `Treasury`: its types, that the stop is final, its money (with the laws of sums of `MinorUnits`), and its refinement of `Authority` |
| `BrokerProofs` | theorems about `Broker`, on top of those about `Treasury` |
| `AuditQuotaProofs`, `AdmissionProofs`, `DataDirectoryProofs`, `SecretSessionProofs`, `CheckoutProcessProofs`, `PagesProofs` | the theorems about the module each is named after |

### How `Treasury` corresponds to the code

The variables are the fields of `TreasuryState` under their own names. Actions
carry the name of the handler; their conjuncts follow the handler's checks. A
handler that returns an error leaves the state as it was (`handle_persisted`
puts its snapshot back), so a failing call is no step. Two records are put more
compactly than the code stores them:

* `ledger[i]` counts, for each purchase, its events of each kind. The code reads
  the ledger only by summing it or by asking whether an event of a kind exists
  for a purchase, and every event of a purchase is for its `final_total`.
* a `broker_session_id` matters only where it is compared with the agent's
  current one, which is the flag `bound`; issuing a fresh id is `Unbind`.

A purchase execution is split at the call to the provider: the reserving half is
`execute_intent`, `execute_controlled_checkout` or
`owner_execute_approved_handoff`, all through `prepare_intent_execution`; the
answer is `complete_intent_execution`. Between them `running` holds the purchase
and no other handler runs (the mutex), but the clock does. The states `draft`,
`proposed`, `funds_reserved` and `reconciliation_required` are passed through
inside one handler and never at rest; `transition` checks the whole path an
action takes against the table, so a step the table lacks disables the action as
its error disables the handler.

### Abstractions

* **Clock.** Only answers to comparisons with `now()` are kept: whether a
  capability has expired, a session is live, a purchase is under a minute old,
  older, or past its TTL, a settlement is within 24 hours, a card balance has
  expired. `Tick` lets any one of them change at any time. Policy TTLs are taken
  to be at least a minute. Whether a similar purchase older than a minute is
  still inside the 15 minutes of the duplicate check is left open.
* **Requests.** What `Policy::evaluate` decides from the policy and the request
  alone (merchants, redirects, recurring, tips, categories) is the constant
  `Screening`; the amount, merchant and idempotency key stay, because budgets,
  the duplicate check and replay read them. Merchant approval changes nothing
  else and is left out with it.
* **Provider.** Which scenario the simulator plays is open, so every answer is
  possible for every purchase. A controlled checkout is always `unknown`, as in
  the code.
* **Money.** One currency; amounts are unbounded integers. The code uses checked
  64-bit arithmetic, so an overflow is a failing call.
* **Audit.** The audit log is in `AuditQuota`; here no call fails for its quota.
* **History.** `manual_provider.unconfirmed`, `submissions` and `handed_off`
  are read by properties only.

### How `Broker` corresponds to the code

`phase` follows the call that holds the mutex: `saving` (an ordinary call),
`reserving`, `submitting`, `recording` (an execution). `SaveFails` covers a
failure of `save_to` before the rename, where the file is the old one, and after
it (the directory sync), where the file is new although the caller sees an
error. What happens next differs by path, and the model keeps the difference: an
ordinary call and a simulated execution restore the snapshot; a controlled
checkout whose first save fails does not, and neither does any path whose
outcome could not be saved, so the memory goes on with a state the file may not
have. `Restart` may happen in any state and loads and recovers the file. The
clock stands still while file and memory differ, which only shortens the
behaviours explored. The owner who has begun a manual handoff submits it in a
browser of their own at most once (`OwnerSubmits`): that is what the handoff
asks of them, and no code enforces it.

### `Handover` and its refinement

`Handover` knows only which purchases are recorded as begun, which the owner was
asked to submit, and how often each was submitted. Its record may change in any
way that keeps what was let out; letting a purchase out records it, and happens
once. `Broker` maps the record to the intents of the *state file* that are past
waiting (`Begun`), so that every save, failed save, restart and recovery is a
step of it, and a submission whose reservation is not on disk is not.

### `Authority` and its refinement

`Authority` knows only what became of each purchase's money (`none`, `held`,
`spent`, `released`, `refunded`), the authority ever granted, the authority left
and the stop. A purchase takes an amount once and never more than there is, not
while the stop is on; the same amount is then spent, given back, or spent and
refunded; nothing else takes. `TreasuryAuthority` maps `Treasury` onto it: the
status of a purchase is read off its ledger events, the authority left is
`ledger_snapshot`'s sum, which adds up settlements and refunds from the events
but reservations from the *states* of the intents. A handler that moves one of
the two and forgets the other is no step of `Authority`.

### `Diligence`

`Treasury` with fairness, for two questions of liveness: is every started
purchase decided in the end (`DecidingSpec`), and can an expired card balance be
refreshed (`RefreshingSpec`)? The assumptions are in section 3.

### `AuditQuota`

Every call that changes the treasury appends audit entries and fails when one
does not fit. The module counts entries, keeps of each purchase its state, of
the treasury the provider and the stop, and leaves open whether a call passes
its other checks. `audit` takes the entries one call writes in a
row against the limit of their kind; `owner_checkout_handoff` is an ordinary
entry, as in the code, so that command stops working earlier than the others.
`restart` writes one entry for each executing purchase and is impossible when
they do not fit: `serve` returns the error of
`recover_interrupted_executions`. Saves succeed here; `Broker` has the ones
that do not.

### `Admission`

A thread is a slot of `connection_limit`; a connection that finds none is
refused (`refuse_connection`). An agent's request looks first at the provider
mode, under the treasury mutex, which it gives back at once (`check_identity`):
with the manual provider a peer that is the broker's own user is turned away.
Then it looks at the admission in separate steps, each under that mutex:
`is_known_capability`, `admit_unauthenticated` or `admit_channel` and
`admit_capability`; it then takes the treasury mutex again for the call, and
drops its guards, the capability's first. An owner's call changes the
capabilities or the provider, reads the active ones and publishes them, all
under the treasury mutex but under the admission's only for the last step.
Windows started at different moments, so each may pass its second at any time;
`window` goes on after an entry is cleared, because `recent` counts admissions
by the true window. A capability that was revoked or rotated away never returns:
tokens are fresh. Frames and their read and write timeouts are I/O and left out.

### `DataDirectory`

The programs are processes with a program counter each: `cixa init`, `cixa
serve`, owner commands (over the socket when its file exists, otherwise on the
directory themselves), `create-agent` with its prepared token, and the
dashboard, which prepares a token in `write_capability` and only ever uses the
socket. The disk is the key, the state with the key that authenticates it and
the requests applied to it, and one token file for each program that writes one.
`unsynced` holds the states a power failure may bring back because the rename
that replaced them was not synced: a failed save with the effect in the file is
one of the outcomes of `save_to`. A program may be killed before any step, and
loses the lock then; power may fail at any time. A client that stops waiting
(`give_up`) leaves its request with the daemon, which may apply it later. What
restart recovery does to purchases is `Broker`'s matter.

### `SecretSession`

Dashboard threads arm, stop and query the session under
`_payment_session_lock`; arming calls `stop_payment_session` first and takes the
lock again to start its helper. A helper binds the socket path unless something
is there, then accepts, reads, redeems, syncs and answers, one connection at a
time, until its operations are used up, a grant is refused, or its deadline is
seen with nobody connected. The redemption directory outlives helpers; a power
failure may lose the files in it that were not synced. A broker's connection may
carry a fresh grant or one that was sent before. Signatures and peer identities
are taken to be right, and helper processes are never reused.

### `CheckoutProcess`

The process table maps a pid to a process (alive, zombie, when it started, its
parent and process group, whether it holds the adapter's output open); a pid is
free again when its process is reaped and no process group has its number.
Processes of the adapter fork, leave the group, close the output and exit at any
time, and unrelated processes take free pids. The watcher's walk lists children
and reads their identities in separate steps; `collect_child_output` ends on the
exit (seen without reaping), an error or the deadline; `terminate` joins the
watcher, walks once more, signals the group if the adapter still has its pid,
then each noted identity through a pidfd in three steps, and reaps the adapter.
This is the Linux variant of the code. `MaxStarts` bounds the processes ever
started, of which the adapter is one.

### `Pages`

Intents are ids with an agent and a `created_at` of the wall clock, which may
stand still or be set back; audit entries are their sequence numbers. A walk
remembers its cursor, what it was given and what there was at its first call.
Bounds: `MaxTime`, `MaxAudit`, and pages of 1 to `PageLimit` items.

## 3. Properties and runs

Every property has a mutant in `PROJECT.json`: a definition headed *Slip* in the
module, which changes one definition as a plausible mistake would and under which
TLC finds the property violated.

| Run | Question | Instance |
|---|---|---|
| `sim` | Do ledger, provider and receipts agree, is the authority never overdrawn and always backed, can every uncertain purchase be decided, does use grow only within the limits in force, and is all of it a behaviour of `Authority`? | two purchases (1 and 2) on a capital of 2, one deposit of 2, simulated provider, two policies that bind on different limits (session and day; life and minute), switched at any time |
| `card` | After moving to the prepaid card, are reservations always covered, and is nothing executable that was validated for the other provider? | two purchases of an autonomous agent under one tight policy, card balance 2 entered any number of times, as estimate or confirmed, controlled checkout on or off, one deposit |
| `decided` | Does a purchase that was waiting under the stop stay unstarted for ever? Is one that started decided in the end? | two agents, one purchase, both providers with handoff and controlled checkout, all session operations |
| `crash` | Is every purchase submitted at most once, and found on disk when it was, whatever save fails and whenever the process restarts? Is the file always consistent? Does a saved stop hold for ever? Is all of it a behaviour of `Handover`? | one purchase, both providers, every save failing or not, any number of restarts |
| `audit` | Near its ceiling, can the log still be loaded, and can an outcome still be recorded? Which steps take slots others were promised? | three purchases, first on the simulator, then on the card, 14 entries with 4 for safety, stop reserve 2 |
| `admission` | Do the in-flight counters match the requests, does the rate hold, does the admission know what the treasury knows, is every request answered, and who is served after a change to the manual provider? | two agent connections, one of the broker's own user, two owner connections, one capability, limits of one or two |
| `session` | Is the card sent at most once for each grant? Does stop leave no helper, and does every helper end? | one dashboard thread, two helpers, two connections, two operations, power failures |
| `process` | Does the call return, is everything noted gone, and do signals reach nobody else? | three pids, three processes ever started |
| `directory` | Is what was acknowledged kept, does the state have its key, and does a capability in force have its token? | two inits, a daemon, one owner command, one `create-agent`, one dashboard request |
| `pages` | Does a walk miss or repeat anything, and does it end? | three purchases of two agents, two seconds, four audit entries, pages of one or two |
| `estimate`, `refresh` | The two disagreements of section 4 that have a run. | one purchase |

**The properties in words.** *Treasury.* `AuthorityNeverNegative`, the authority
of `ledger_snapshot` is never below zero. `AuthorityIsBacked`, the authority
never exceeds what the simulator still has free, also while a charge exists
whose answer was lost. `LedgerTellsTheState`, one hold per started purchase,
released once when it ends, one settlement with one receipt, one refund, and a
provider book that matches. `UncertainIsReconcilable`, the owner
can book every uncertain purchase as settled, and as declined unless the
simulator knows a charge of it. It is stated with `AcceptsSettled` and
`AcceptsDeclined`, the checks `owner_reconcile` makes before it changes anything;
that the actions they guard are really taken from there is part of
`StartedIsDecided`. `UsageGrowsWithinLimits` (an action
property), an agent's use of a budget grows only within the limit in force.
`ReservationsCovered`, the card's balance covers all open reservations together.
`ManualCardNeedsOwner`, with controlled checkout off, no purchase is executable
without its own approval. `StopIsFinal`, `StartedIsDecided` and
`ImplementsAuthority` are as in the table. *Broker.* `SubmittedAtMostOnce`;
`SubmissionIsDurable`, a purchase handed over is on disk as one not tried again;
`DiskIsConsistent`, ledger, receipts, books and states of the file agree, it
commits no more than the owner gave, and its card covers its reservations;
`StopIsDurable`, a purchase waiting when a stop was saved is never started or
submitted, whatever fails or restarts after it; `ImplementsHandover`.
*AuditQuota.* `LogCanBeLoaded`, the log stays within what `validate_state`
accepts, the one stop beyond the reserve included. `RunningCanBeRecorded`, a
purchase at its provider can record its outcome and its reconciliation.
`SlotsAreKept` (an action property), beyond the limit of ordinary entries only a
refund of a settled purchase takes a slot kept for another. *Admission.*
`GuardsMatchRequests`, one request in flight for each capability marked so and
for each unit of the channel's count, through rotations in the middle of a
request. `RateIsHeld`, clearing entries away never forgets a counted request of
a live capability (a revoked one may be admitted once more; the treasury then
refuses it). `KnownIsCurrent`, whenever the treasury mutex is free the admission
knows exactly the capabilities the treasury would authenticate. `RequestsEnd`,
once no new request comes every connection becomes idle again.
`OnlyPassedAreServed`, a connection of the broker's own user that had not been
looked at yet when the manual provider came is never served.
*SecretSession.* `CardSentOncePerGrant`; `StopEndsHelpers`, after a stop and
until the next arm no helper runs; `HelperEnds`, every helper ends.
*CheckoutProcess.* `OnlyNotedSignalled`, signals reach the adapter's group and
noted identities only; `NotedAreGone`, when the call returns none of them runs;
`CheckoutReturns`. *DataDirectory.* `StateHasItsKey`, `AcknowledgedIsKept`,
`ActiveTokenKept`, `OwnerTokenKept`, each over every state a restart may find.
*Pages.* `ListedOnce`, `WalkIsComplete`, `WalksEnd`.

**Why the bounds are enough to be interesting.** Two purchases are the least
with which one can use what the other was promised, and the totals 1 and 2
against a capital of 2 or 3 make both fit, one fit, or none. One deposit is
enough to raise a balance at every point; replay is a second use of the same
reference. One purchase is enough for `crash` and `decided`, whose properties
each concern one purchase at a time; two agents are there for the sessions. In
`audit` the ceiling leaves room for three purchases and some ordinary entries, so
the last slots are contended in every combination. In `admission` two
connections of one capability are enough to be admitted twice, limits of one are
exceeded by the second request, and two owner connections race to publish; with
one capability the table of entries is never full, which is left to a later run
(section 7). In
`session` two helpers are an old one and its successor, two connections a grant
and its second delivery. In `process` three processes on three pids are the
adapter, a descendant, and a descendant of it or a stranger that gets a recycled
pid. In `directory` two inits can be interrupted or overlap, and each kind of
client meets the daemon, itself and the others. In `pages` two walks of up to
four pages see entries arrive at every point. The interesting cases are known to
be reached: each property fails under its mutant, and every disjunct of the
next-state relations is taken in the runs. The bounds are the constants of the
cfg files; the remaining counters end by themselves, since events are counted
once per purchase and restarts need no counter. `Intents` are interchangeable,
so the runs that have two of them use their symmetry; no run of a liveness
property does. Deadlock is checked except where the system may stop: a full
audit log stops the broker, a session, a checkout, the programs of a directory
and a walk come to their end.

**Fairness.** Only what the code schedules by itself, or what a property is
conditional on:

* `Admission`: a connection's thread goes on with its request, and an owner's
  call publishes and gives the mutex back. Nothing is asked of clients, of the
  clock, or of who gets a mutex first; the mutex is given back because a
  checkout returns. `RequestsEnd` is conditional on no new request coming.
* `CheckoutProcess`: the broker's threads run and the deadline passes. Nothing
  is asked of the adapter and its descendants.
* `SecretSession`: a running helper takes its steps (a read that gets nothing
  times out) and its deadline passes. Nothing is asked of dashboard and broker.
* `Pages`: the readers go on asking, which is what the property is about.
* `Diligence`: an assumption about people as well: the provider answers
  (controlled checkouts do, see `CheckoutReturns`), and the owner goes on
  completing handoffs and deciding open outcomes whenever the treasury mutex is
  free. For `refresh`, owner and agents also go on executing, denying,
  cancelling and entering the balance: the violation shows that even then the
  balance stays expired.

`Treasury`, `Broker`, `AuditQuota` and `DataDirectory` have safety properties
only and no fairness.

## 4. Disagreements between documents and code

With a run in which TLC finds the stated property violated:

* `estimate`: `docs/provider-adapters.md:33` says an estimated balance cannot
  authorize spending. A verified deposit makes the whole snapshot
  owner-confirmed, the estimated part included, and the next purchase is
  reserved against it.
* `refresh`: the error of an expired balance (`crates/domain/src/lib.rs:976`)
  asks the owner for a refresh. `owner_configure_manual_provider` refuses one
  while any purchase is not terminal, and a policy-validated purchase whose
  session was replaced, or whose time to execute has passed, can be neither
  executed nor cancelled nor denied. Whatever owner and agents go on trying, the
  balance stays expired.

Found while modelling, without a run of their own:

* `docs/architecture.md:92` lets an agent cancel its unexecuted purchases. The
  guard of `cancel_intent` (`lib.rs:3080`) admits a policy-validated one, but
  `can_transition` has no step from it to cancelled, so the call fails. This is
  one half of `refresh`.
* `docs/provider-adapters.md:37` says the policy enforces a maximum treasury
  size. A deposit (`lib.rs:3912`) is measured against the balance less open
  holds, so one recorded while a hold is open takes the balance beyond the
  maximum, and `enforce_authority` then denies every purchase of that agent.
* `docs/deployment.md:102` says that ordinary audit entries stop early so that
  outcomes, recovery, completion and reconciliation keep their capacity. Refunds
  of settled purchases (`lib.rs:3843`) are written up to the ceiling, and no
  slot is kept for them: two of them can use the slots of a purchase in manual
  handoff, whose completion then cannot be recorded, and a restart fails in
  `recover_interrupted_executions`. `SlotsAreKept` names exactly this exception.
* `docs/deployment.md:31` says a switch to the manual provider makes no grace
  period. The provider mode is looked at under one acquisition of the treasury
  mutex (`main.rs:2212`) and the request handled under a later one, so a request
  already looked at is still served. `OnlyPassedAreServed` says how far it goes.
* `docs/deployment.md:90` says the helper is terminated when the owner ends the
  session. Arming (`server.py:239`) gives the lock back between stopping the
  previous session and starting its own: of two requests that arm at once the
  second finds the socket of the first helper, takes it for that of its own and
  tracks its own, which then refuses the path and exits. The first helper is
  tracked no longer and lives until its deadline. `SecretSession` with two
  `Threads` has the trace; `StopEndsHelpers` holds with one.
* `docs/checkout-adapters.md:35` says the helper serves until its TTL. It looks
  at its deadline (`main.rs:1775`) only when nobody is connected, so a waiting
  connection, or a frame that comes up to 30 seconds later, is answered after it.
* `docs/checkout-adapters.md:43` says a recycled pid cannot be signalled.
  `descendant_processes` (`main.rs:781`) lists a child's pid and reads the
  identity under it afterwards; a child reaped in between, whose pid another
  process has got, is noted under the other's identity and killed with it.
  `OnlyNotedSignalled` is what does hold: after the noting, no one else is hit.
* `docs/incident-response.md:6` has the owner stop the daemon and then revoke a
  capability. The daemon leaves its socket file, and an owner command
  (`main.rs:1409`) that finds the file connects, is refused and fails.
* An init interrupted after the audit key was written leaves a key that every
  later init refuses; the owner has to remove it.

Noted besides: at execution the rate limit counts the purchase itself; approving
a merchant has an effect only while the policy's list is empty; a refund of a
purchase settled on the simulator, recorded after the change to the card, is
credited to the card's balance; a rotation reads the clock twice
(`lib.rs:3498`), and over a second boundary is refused and can be repeated.

## 5. Proofs

Forty-one theorems. Thirty-five state a property that a run also checks: the run
shows it on its instance, the theorem for every value of the constants that
satisfies the module's assumption. The other six (`PromisesSurvive`,
`LedgerAddsUp`, `HistoryStays`, `NobodyIsStuck`, `RequestsGoForward`,
`DirectoryTypeCorrect`) are of use to a reader by themselves. Each inductive
invariant was given to TLC on the run's instance before it was proved. Only the
safety part of a specification is used; no theorem depends on fairness.

### `TreasuryProofs`

For any finite sets of agents and purchases, any policies, requests, screening
and amounts that satisfy `ConstantsAssumption`: policies are well formed with
their exposure ceiling within their treasury size, totals are positive, the
capital is positive and within the bootstrap policy. These are the checks of
`Policy::validate`, `PurchaseRequest::validate` and `bootstrap`.

* `TypeCorrect`. Inductive as it stands. `TypeOK` includes that a live session
  belongs to a live capability, which `validate_state` demands of every state it
  loads. There is one lemma for each group of handlers, resting on two about what
  a change of one agent or of some purchases needs to keep the types.
* `StopFinal`: `Spec => StopIsFinal`. Two facts are inductive. While the stop is
  on, no waiting purchase is bound to its agent's session (`StopUnbinds`). And a
  purchase that is waiting or cancelled and not bound stays so (`Stopped(i)`):
  `prepare_intent_execution`, the only way to a start, asks for the current
  session, and no handler binds an existing purchase again. The first is needed
  because the stop alone says nothing of purchases approved while it is on; a
  purchase created during the stop is denied (`StoppedCreateFails`).

Money is proved about in two stages. `SortedStep` goes through the handlers once
and sorts them by what they do to money: a step moves none (`Quiet`), moves one
purchase in one of six ways (`Reserved`, `Settled`, `Declined`, `Pending`,
`Unknown`, `Refunded`), records a deposit, or changes the provider. The theorems
are then proved over these kinds of steps. Sums need no induction: `MinorUnits`
defines a sum as the number of its minor units, and the laws used (adding and
removing one purchase, a subset, equal amounts) are laws of the cardinality of
finite sets.

* `LedgerTells`: `LedgerTellsTheState` from `LedgerInv`, which adds that nothing
  is booked for a purchase that does not exist, and that every purchase the
  simulator charged had ended when the card came into use. The second is what
  keeps the simulator's books true after the change of provider.
* `AuthorityNotOverdrawn`: `AuthorityNeverNegative` from `AuthorityInv`: the
  totals of all purchases that hold or have spent money are within capital and
  top-ups. Stated over states and not over events, it follows each step by one
  law of sums; `LedgerInv` takes it back to the events `ledger_snapshot` adds up.
* `AuthorityBacked`: `AuthorityIsBacked` from `BooksInv`: while the simulator is
  used, its balance and its outstanding charges together cover capital and
  top-ups. A charge whose answer was lost has left the balance already and is
  still a reservation; counting it on both sides is what makes it inductive.
* `CardCoversReservations`: `ReservationsCovered` is inductive given `LedgerInv`.
* `CardNeedsOwner`: `ManualCardNeedsOwner` likewise;
  `owner_configure_manual_provider` leaves no validated purchase behind.
* `UsageWithinLimits`: the action property `UsageGrowsWithinLimits`. Of the kinds
  of steps only a reservation adds to an agent's use, and it asked the policy.
* `LedgerAddsUp`: what `ledger_snapshot` and `usage` add up from events and
  states is the plain sum over the purchases that hold or have spent money: what
  lets the other theorems speak of states where the code counts events.
* `UncertainCanBeBooked`: `UncertainIsReconcilable` from `MoneyInv`, the four
  invariants of the money together. Whether the simulator can still pay an
  uncertain purchase that it never charged follows from the authority alone: the
  purchase is part of what is committed, the commitments are within what the
  owner gave, and the balance and the outstanding charges cover that
  (`ReconcilableByMoney`); on the card it is `ReservationsCovered`.
* `HistoryStays`, an action property: no step forgets a purchase, changes its
  agent or request, takes back an event or a receipt, or leads a started or ended
  purchase back to waiting; an ended one only moves among the ends.
* `TreasuryImplements`: `Spec => ImplementsAuthority`. Each kind of step is an
  action of `Authority` under the mapping of `TreasuryAuthority`, or a stutter.

### `BrokerProofs`

Under the same assumption. `BrokerInv` says of the memory that it satisfies every
invariant of `TreasuryProofs` (`MemoryInv`: types, ledger, money, the stop), and
says the same (`SavedOK`) of the state file and of the snapshot a failed call
goes back to, because either may be the next memory: an invariant of the memory
alone does not survive the first restored snapshot or restart. It adds that a
purchase handed over has started in all three (`HandedOnce`). `PhaseInv` covers
the moment between the reservation and its save, when the snapshot still has the
purchase executable, and that an ordinary call starts one purchase at most.
Every call, answer and tick is a step of `Treasury`, so the lemmas about it are
used again; loading a file and recovery are what is new.

* `HandedAtMostOnce` and `HandedIsDurable` read `HandedOnce`; `FileIsConsistent`
  reads `SavedOK(disk)`.
* `PromisesSurvive`: `TreasuryPromises` (types, authority, card, ledger, the
  owner's approval, reconcilability) hold in the memory of every process. A
  theorem about `Treasury` does not say this: its behaviours never lose memory.
* `StopSurvives`: `StopIsDurable`. The purchase is waiting or cancelled, and bound
  to no session, in memory, file and snapshot alike (`Caught`); load, recovery,
  rollback and save copy one of the three to another, and no call binds it again.
* `BrokerImplements`: `ImplementsHandover`. Each action is a step of `Handover` or
  a stutter; that a save, complete or not, keeps what was let out begun is
  `OutboxStep`.

### `AuditQuotaProofs`

For any ceiling, any reserves within it and any finite set of purchases
(`QuotaAssumption`).

* `LogLoads`: `LogCanBeLoaded`. The strengthening is that the reserve is not
  exceeded while the stop is off: resuming asks for a place below it, and the
  stop, which asks for nothing, then exceeds it by one at most.
* `OutcomeFits`: `RunningCanBeRecorded`. A purchase starts only when four slots
  are free besides those of open purchases, its start writes two entries at most
  (`StartKeepsQuota`), and the treasury mutex keeps every other call out until
  the answer is recorded.
* `SlotsKept`: the action property `SlotsAreKept`. The slots kept follow the
  state of the purchase that moves (`SlotsMove`): what a call writes and what the
  purchase needs afterwards fit in what it needed before, or, for a start, in the
  four slots asked for; a restart is the same for all executing purchases at
  once. It needs that a purchase at its provider is executing.

### `AdmissionProofs`

`GuardsAreRequests`, `RateIsKept`, `KnownAreCurrent`, `OwnUserNotServed`,
`NobodyIsStuck` and `RequestsGoForward`, for any finite set of connections, any
capabilities and positive limits. The parts of `AdmissionInv`: the treasury
mutex belongs to the connection in the treasury (`LockOK`); the admission knows
the active capabilities, or the owner connection that holds the mutex has their
list in hand (`KnownOK`); the capabilities marked in flight and the admitted
connections are in bijection (`HoldersOK`), and the channel's count is the
number of its connections (`ChannelOK`); an open window of a capability that is
known, or may become known by a list under way, has its entry (`RateOK`). The
last is why clearing entries away loses no count.

The last two theorems are what `RequestsEnd` rests on besides fairness. While any
request is open, some connection's next step waits for nobody: the holder of the
mutex is in the call or publishing (`LockOK`). And each step leaves its request
fewer steps than it had, eight at most, and no other connection's step gives it
more.

### `DataDirectoryProofs`

`DirectoryTypeCorrect`, `KeyBesideState`, `AnswersAreKept`, `TokensAreKept` and
`OwnerTokenIsKept`, for one daemon and any finite number of inits, commands,
creations and dashboard requests, which are different programs
(`ProgramAssumption`). The four properties are stated of the file, of every state
a power failure may bring back, and of what a program that has loaded the
treasury has in memory (the *live* states), because any of them may be the next
file. That only the holder of the lock has a treasury in memory which may still
be saved is the part that ties them together.

### `SecretSessionProofs`

`SessionTypeCorrect`, `CardIsSentOnce` and `StopLeavesNoHelper`, for any threads,
helpers and connections and at least one operation.

* `CardIsSentOnce` is an argument about the redemption directory alone: a card
  sent has its grant's file durable, a helper that has redeemed a grant created
  the file itself and the card was not sent for it yet, and no two helpers have
  redeemed the same grant.
* `StopLeavesNoHelper`: `OneAtATime => (SessionSpec => []StopEndsHelpers)`. The
  hypothesis, that there is at most one dashboard thread, cannot be dropped: two
  requests that arm at once leave a helper untracked (section 4), and TLC has the
  trace for two threads. With it the dashboard knows every running helper.

### `CheckoutProcessProofs`

`ProcessTypeCorrect`, `OnlyNotedAreSignalled` and `NotedAreGoneAtTheEnd`, for any
set of pids and at least one process ever started. The argument is one of age: a
pid that is used again has a younger process, so a handle opened on a noted pid,
under which the noted identity is read afterwards, can only be on the noted
process; and the adapter, which nobody else reaps, keeps its pid and its group's
number until the end. `ProcessInv` adds what each phase of the broker's thread
has left behind.

### `PagesProofs`

`PagesTypeCorrect`, `NothingListedTwice` and `NothingIsMissed`, for any ids,
agents, bounds on clock and log, and page sizes.

`Newer` is a strict total order, and no call changes it among the purchases there
are. So the rank of a purchase, the number of newer ones, is different for each,
there are as many ranks as purchases, and the sorted list has each at its rank:
what sorting does is derived from cardinalities and not by induction. The
invariant of a walk (`WalkGood`): it has listed ever older purchases, its cursor
is the last of them, and what was there when it began is listed or older than the
cursor. New purchases may stand anywhere in the list, in front of the cursor with
a later second, behind it with a clock set back, and disturb none of this
(`LaterGood`). The audit walk goes down one by one from the newest entry there
was (`AuditWalkOK`).

### Model-checked only

* The liveness properties `StartedIsDecided`, `RequestsEnd`, `HelperEnds`,
  `CheckoutReturns` and `WalksEnd`: liveness under fairness needs `ENABLED`, which
  the prover cannot reason about.
* The two violations of section 4.

## 6. Not modelled

The HMAC chain and envelope, file permissions and token hashing (cryptography
and operating-system I/O), canonicalisation and redaction of strings, single
reads such as status, budget and receipts, the rules of `Policy::evaluate` that
read only policy and request (they are the constant `Screening`), the browser
adapter, the MCP server and SDKs (stateless), and scripts. The fallback of the
checkout supervision for systems without pidfds, restoring a state by hand and
`validate_state`'s refusal of a tampered file are outside the model too.

## 7. Plan

1. *Done*: all modules of section 2, the refinement of `Authority`, liveness of
   started purchases, requests, checkouts, helpers and walks.
2. *Done*: the safety properties of `Treasury`, `Broker`, `AuditQuota`,
   `Admission`, `DataDirectory`, `SecretSession`, `CheckoutProcess` and `Pages`,
   and the refinements of `Authority` and `Handover`, as theorems; every safety
   property a passing run checks is one.
3. Proofs: for checkouts, helpers and walks what `NobodyIsStuck` and
   `RequestsGoForward` are for requests, a measure each step lowers.
4. `owner_approve_merchant`, with `approved_merchants` and a `Screening` that
   depends on it; the two clock reads of a rotation.
5. `Broker` over two purchases and `Admission` over two capabilities with all
   four connections, if their state spaces allow.
