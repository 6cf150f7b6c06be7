# TLA+ models of fancy-openclaw-linear-connector

The connector receives Linear webhooks, decides which agent a ticket belongs to,
wakes that agent through its OpenClaw gateway, and keeps waking it until there is
evidence that it works on the ticket.  Around that core it also enforces workflows
on tickets (a proxy in front of Linear, a workflow gate, fan-out and barriers) and
repairs tickets with periodic sweeps.  This directory holds models of the program,
the TLC runs that check them and the TLAPS proofs about them.  Paths below are
relative to the implementation, `src/`.

## Files

| file | what it is |
|---|---|
| `WakeDispatch.tla` | the wake pipeline: bag, session tracker, resignal loop, its five callers |
| `SessionClaims.tla` | what the session tracker promises those callers (abstract specification) |
| `DispatchGuards.tla` | the guards an event passes before a wake, and their stores; the sweep that heals what they swallow |
| `WakeBrakes.tla` | what bounds automatic wakes: attempts, delivery failures, the circuit breaker, and the callers that press or release them |
| `DeliverySlots.tla` | the semaphore of delivery hand-offs |
| `WorkflowGate.tla` | the governed commands of agents: authorised, forwarded, applied, request by request |
| `TransitionWrite.tla` | the write of one transition: attempts, read-back, rollback |
| `WriteContract.tla` | the results such a write may have and the tickets each leaves, shared by its user and its model |
| `AppliedRecord.tla` | what that write promises the readers of the applied-state store (abstract specification) |
| `FanoutBarrier.tla` | fan-out of a parent, the record of its outcome, the evaluations of its barrier |
| `TicketSweeps.tla` | the webhook hooks and sweeps that repair a governed ticket |
| `*MC.tla`, `*.cfg` | the instances TLC checks, one cfg per run, see "Runs" |
| `*_proofs.tla` | theorems about `WakeDispatch`, `DispatchGuards`, `WakeBrakes`, `DeliverySlots`, `WorkflowGate`, `TransitionWrite`, `FanoutBarrier`, `TicketSweeps`, checked by TLAPS |
| `PROJECT.json` | components, runs, mutants, map to the source, findings, hazards, theorems |

Check a run with `tlc -config gate.cfg WorkflowGateMC`, proofs with
`tlapm WorkflowGate_proofs.tla`.

## Inventory

The program is one Node.js process.  Its concurrency is that of asynchronous
handlers: a handler runs to its next `await` without interruption, and anything may
run between two of its turns.  SQLite stores (through a synchronous driver) survive
a crash, in-memory maps do not, and neither Linear nor the gateway delivers exactly
once.

| component | state | operations | what makes it correct |
|---|---|---|---|
| Pending-work bag (`bag/pending-work-bag.ts`) | durable rows (agent, ticket), routing reason | add, clearAgent, removeTicket, removeTicketForOtherAgents, prune | work is removed only when it is done, handed on or void |
| Session tracker (`bag/session-tracker.ts`) | active (agent, ticket) sessions and their age, queued signals; in memory | startSession, endSession, queueSignal, cleanupStale | one claim per pair; a claim without a session expires |
| Resignal (`bag/resignal.ts`, `bag/wake-up.ts`, `linear-actionable.ts`) | a loop over tickets, suspended at its check and its send | check, claim, prune, defer, send | one wake, one session; a mention is not pruned as if it were a delegation |
| Webhook dispatch tail (`webhook/index.ts`) | none of its own | bag admission, capacity deferral, stale drain, same-ticket delivery, wake | an admitted event leaves a trace until a session starts |
| Session-end callback (`index.ts`) | none of its own | end all sessions, re-arm deferred tickets, acknowledge, drain the bag, hold retry | what was queued is signaled again |
| Stale-session recovery (`index.ts`, `bag/stale-session-forensics.ts`) | fresh recovery keys | cleanup timer, forensics, escalation, re-poke, re-signal | a dead session frees its ticket |
| Startup replay (`bag/startup-replay.ts`) | none | agents one after another | a crash loses no durable work |
| Dispatch-ack rows (`bag/dispatch-ack-tracker.ts`) | durable status of each pair | ensurePending, recordDispatch, acknowledge, markResignaled, markEscalated | pending becomes confirmed, re-signaled or escalated |
| Watchdog (`bag/dispatch-watchdog.ts`) | none | per overdue row: resolve, delegate and state checks, budget, re-drive | bounded re-drives, no escalation of healthy work |
| Re-dispatch budget (`bag/global-redispatch-budget.ts`) | durable count per ticket | consume, seal, reset | shared by every automatic path |
| No-activity detector (`bag/no-activity-detector.ts`) | warned pairs, capacity deferrals | cycle, proxy activity, deferral, re-arm | a silent agent is re-woken, then replaced |
| Circuit breaker (`dispatch-circuit-breaker.ts`) | labels seen, wake and revisit counts of a ticket; in memory | count a wake, trip, un-trip, forget | a dead-dispatch loop is cut |
| Slots (`delivery/throttle.ts`) | slots taken, callers in line; in memory | acquire, release | a hand-off waits only at the limit |
| Stuck-delegate detector, managing poller | counters and timers | periodic cycles | they agree on who acts |
| Dispatch guards (`webhook/index.ts`, `store/*`, `delivery/*`) | durable idempotency keys, leases, in-flight and spawn records, dedup windows | acquire, release, expire, forget | an older event never passes after a newer one; one claim, one sender; a swallowed event is healed |
| Delegation reconciliation (`delegation-reconciliation-sweep.ts`, `bag/reconciliation-wake.ts`) | the stores above, the operational events | scan, lease, forget, wake | a delegation that stays is dispatched |
| Proxy and workflow gate (`proxy.ts`, `workflow-gate.ts`) | ticket locks, command snapshots, applied states; in memory | resolve a verb, check rules, forward, apply a transition, override | a transition is legal, happens once per command, and moves label and delegate together |
| Verified write (`workflow-gate.ts`, `store/applied-state-store.ts`) | the applied state of a ticket | attempts, read-back, rollback, repair | whole or undone, and answered as such |
| Fan-out and barrier (`fanout.ts`, `barrier.ts`, `fanout-outcome-store.ts`, `bag/managing-poller.ts`) | outcome of the last fan-out, in memory and in a file | spawn children, record, evaluate, release | each child once; the parent advances only when what the fan-out waits for is done, and then it does |
| Enrolment (`workflow-bootstrap.ts`, `store/enrolled-tickets-store.ts`) | mirror rows of enrolled tickets | bootstrap, demote, enrol | a workflow label means a state |
| Sweeps (`bootstrap-reconciliation-sweep.ts`, `rescue-sweep.ts`, `first-action-watchdog.ts`, `native-state-reconciler.ts`) | the ladder of each ticket; else Linear itself | list, read, decide, write | convergent: together they leave a ticket enrolled, closed or owned |
| Queue, dead letters, caches, alerts, token refresh | small in-memory or durable tables | enqueue, drain, retry, expire | bounded, lossless |

How they interact: the webhook, `/session-end`, the cleanup timer, startup replay,
the watchdog and the no-activity detector all call `resignalPendingTickets`, share
the tracker and the stores, and suspend inside it.  Agents act on tickets through the
proxy, whose commands, the barrier's evaluations, the label hooks and four sweeps all
read a ticket, await, and write what they decided; only commands hold a lock, and only
against commands.  Those two knots are where the program is hardest to test, so they
are modelled first.

## Plan

1. `WakeDispatch`, `SessionClaims`: the wake pipeline.  Done, with its proofs.
2. `DispatchGuards`: the stores in front of the bag and of delivery, and the
   delegation sweep behind them.  Done, with the proofs of its safety
   properties.
3. `WorkflowGate`, `TransitionWrite`, `WriteContract`, `AppliedRecord`: a governed
   command and its write.  Done, with the proofs of all of their safety, of the refinement
   and of the contract between the two.
4. `FanoutBarrier`: children created once, the parent released when all are done.
   Done, with the proofs of its safety.
5. `TicketSweeps`: the writers that repair a ticket, and that they converge.  Done;
   that a ticket at rest stays so is proved, that it comes to rest is model-checked.
6. `WakeBrakes`, `DeliverySlots`: the bounds on automatic wakes and on hand-offs.
   Done; the breaker's bound and the limit of hand-offs are proved.
7. Next: the release gates (pull request, merge, deploy evidence); seat bindings and
   implementer records; the observation and proposal pipeline.
8. More proofs: the wake bound of a sealed budget.

## WakeDispatch

**Frames.**  A *job* is one asynchronous call frame: a webhook being dispatched, a
`/session-end` request, a stale-timer callback, the startup replay, or one overdue
entry of the watchdog.  `pc[j]` says where it is suspended: `check` (waiting for
Linear), `checked` (the answer is on its way back), `send`, `deliver` (same-ticket
delivery), `forensics`, `examine`, `backoff`, `delay`.  A job at `next` is in the
middle of a turn; every action of anything else requires `Quiet`, that no job is, so
turns are not interleaved and awaits are.  `ctx[j]` holds the frame's local
variables, `ctx[j].stage` what it does when its current loop over `todo` ends.

**State and code.**  `bag`, `ack` and `budget` are the SQLite tables; `active`,
`aged`, `queued` are the tracker's maps (age is one bit: older than the timeout or
not); `deferred` the capacity deferrals of the no-activity detector; `delegate`,
`closed` and the ghost event bounds are Linear; `running` and `callbacks` the
gateway.  `owns` and `owed` are history variables: jobs whose claim nobody has ended
since, and admitted events whose pair got no session since.  No action reads them.

**Actions.**  `Admit`/`AdmitDeferred` are `dispatchRoute` from `bag.add` to its first
await; `OwnTicket`, `SameTicketReturns`, `SameTicketThrows` its same-ticket branch.
`SessionEnd`, `Rearm`, `RearmReturns`, `Drain`, `HoldRetry` are `/session-end`.
`StaleTimer`, `Forensics`, `Recovered` are the cleanup timer and
`processStaleSession`.  `Restart`, `ReplayAgent`, `ReplayReturns`, `DelayOver` are a crash and
`replayPendingBag`.  `WatchdogCycle`, `Examine`, `BackoffOver` are `runCycle`.
`ClaimNext`, `Check`, `CheckOk`, `CheckPrune`, `CheckDefer`, `SendAccepted`,
`SendFailed`, `LoopReturns` are `resignalPendingTickets`, shared by all callers.
`Check` evaluates Linear's state, `Check*` use it a round trip later.

**Abstractions.**  Tickets and agents are model values.  The order in which a loop
visits its tickets is open.  The dispatch guards are one action that may drop any
routed event (`Suppress`).  `sendWakeUp` either resolves or throws, and in both cases
a session may have started (a lost answer).  The watchdog's three Linear checks are
one step, whose outcome may be any the code can reach: a re-drive needs no condition
because every check fails open, a skip needs a mismatch, an escalation needs a
resolve check that could not read the ticket.  Wakes that are not the webhook's go through
the acknowledged scheduler, which records a dispatch of its own when one is delivered and
so resets the budget; the webhook records what its loop reports.  A claim ages only when
its wake is not in flight: the wake is bounded by
request timeouts far shorter than the session timeout.  A watchdog cycle that found an
overdue row ends with `cleanup`, which deletes the acknowledged and escalated rows that are
older than a TTL (24 hours): the last entry of a cycle (any entry may be the last) prunes
any set of them, and `ack` is then `pruned`, which the code cannot tell from no row.  Only
the instance with the watchdog prunes.  Not modelled: the TTL pruning of the bag; leases, in-flight and nudge records (`DispatchGuards`); the counters
that brake wakes (`WakeBrakes`) and slots (`DeliverySlots`).

**Fairness** (`FairSpec`).  Turns and awaits of a job are weakly fair: every request
has a timeout and the event loop runs.  The cleanup timer and the watchdog's cycle
are strongly fair: both are intervals that get a frame of their own whenever they
fire, and the instance's two jobs only stand for the frames that matter at once.
Aging is weakly fair.  Nothing is assumed of Linear, of agents or of callbacks.

## Properties

* `TypeOK`; `UniqueClaimant`: a claim that nobody has ended is in the tracker and is
  the only one of its pair; `ImplementsClaims`: the pipeline implements
  `SessionClaims`, in which a pair passes to another wake only after a release.
* `OneWakeInFlight`: two jobs are never between claim and send of the same pair.
  True while nobody ends claims of others, false with `/session-end`.
* `ForgottenOnlyIfSettled`: admitted delegated work without a session is in the
  bag, the queue, the deferrals, a frame or a live ack row, unless its ack row says
  acknowledged or `cleanup` has pruned it, which it does to settled rows only.  An
  escalated dispatch is thus remembered for the TTL and no longer, though nobody may have
  acted on the escalation.  It holds for agents without a capacity, and where nothing empties the
  deferrals.  With both, TLC finds a way to forget (capacity 1, three events, a
  restart): a ticket is delegated away and back, the later delegation is deferred at
  capacity, the late event of the other agent purges its bag row
  (`webhook/index.ts:1701-1707`), and the restart loses the deferral, which is in memory
  (`bag/no-activity-detector.ts:123`).  The runs check it without a capacity.
* `PhantomClaimsExpire`, `SwallowedDeliveryHeals`: liveness of the claims and of the
  pending ack rows.

Disagreements met while modelling, which no run is spent on.  `/session-end` ends every
claim of the agent, those whose wake is in flight included, and the next event wakes
the pair a second time; that is why `OneWakeInFlight` is checked without that caller.
`/session-end` empties the bag and re-signals from a local list, so work whose send
fails is remembered by nothing once its ack row is acknowledged: the first exception in
`ForgottenOnlyIfSettled`.  A mention whose bag row is gone is pruned as if it were
a delegation.  An escalated pair is skipped before the only code that would re-arm it.

## DispatchGuards

**Handlers.**  A handler is one asynchronous call frame; `jobs[h].stage` is the await
it is suspended at: `routing` (Linear, stale-route guard), `liveness` (the agent's
endpoint, role guard), `direct` and `sendDirect` (same-ticket delivery, before its
claim and before its answer), `loop`, `wake`, `sendWake` (`resignalPendingTickets`:
between tickets, Linear, the gateway), `ended` (`/session-end`), `sweepRead`, `sweep`,
`sendSweep` (the reconciliation sweep).  What runs between two awaits is one action.
The sweep has no in-progress guard in the code, so two may overlap here too.

**State and code.**  `idem` is the idempotency table: a row is an event, its key the
event without `at`.  `lease` is the lease table, by agent and key, 0 for none; a
ticket has two keys, because the webhook and the sweep file under `linear-T` and the
reconciliation wake under `T`.  `nudge` is a dedup window: whether it runs, whether
events were merged into it.  `spawn` is the session-spawn claim of a pair: free,
pending, live.  `bag` and `active` are those of `WakeDispatch`, without reasons and
ages.  `recorded` is the newest dispatch among the operational events, by the update of the ticket
that it came after (0 for none).  `barred` are the tickets that are terminal or blocked, so
that the sweep passes over them, or whose wakes the wake policy refuses, since their
re-dispatch budget or the cap of their stuck prompts is used up; tickets of `Barrable` may
become barred and stay so.  `version`, `owner`, `inbox` are Linear; an event stays in the inbox when it
is received, so that it may come again and in any order, until Linear drops it.
`session` are the pairs that have a session, `callbacks` the `/session-end` calls to come.  `freshest` and `nudge.backed` are history that no
action reads.

**Actions.**  `Receive` to `Admit` are `dispatchRoute` from the idempotency check to
`bag.add`; `DirectReplays`, `DirectStarts`, `DirectSent`, `DirectThrows` are the
same-ticket delivery through `deliverToAgent`; `NextTicket` to `LoopEnds` are
`resignalPendingTickets` with `sendWakeUpSignal`; `SessionEnd` and `Drain` are
`/session-end`; `SweepReads` to `SweepFailed` the delegation sweep with
`reconciliationWakeFn`; `LeaseExpires`, `SpawnExpires`, `ClaimExpires` time; `Crash`
and `Replay` a restart, `Bar` what happens to the ticket or its counters.

The sweep asks whether a dispatch was recorded since the agent was delegated
(`DispatchSince`), and takes the date of the delegation (`DelegationDates`) from the history
of the assignee, which need not have changed with the delegate, or from `updatedAt`.  The
model lets it take any update up to the present one, so that it may find the dispatch of an
earlier delegation recent enough and skip the present one, and may also find too old what
was recorded for the present one and wake again.

**Abstractions.**  The `updatedAt` of an update is its number.  The sweep looks through the
newest hundred events of a ticket; here it sees them all.  A TTL that only its
own reader looks at (idempotency row, dedup window) is a choice of that reader.
Roster, comment-fed suppression and breaker are one refusal inside `Receive`, liveness
and role guard one `Abort`.  The probe of a bound session may find a dead session dead
or not.  Of the in-flight store only its refusal is kept.  Left to `WakeDispatch`:
capacity deferral, ack rows and hold retries, queued signals, the stale drain, the
watchdog, mentions.  Not modelled: the first-action watchdog's own clearing of
idempotency rows, leases released from the console, the queue fallback.

**Fairness** (`FairSpec`).  A handler that has started goes on (weak): every await has
a timeout.  Linear gives up on events, sessions finish, claims and leases run out
(weak), the session lease only while no session works, since comments renew it.  The
sweep returns every few minutes: it is strongly fair for each ticket that is not barred,
for finding the lease free and for being taken by the gateway.  Nothing says that a bar is
lifted.  Nothing is assumed of webhooks,
callbacks or the startup replay: they may never run.

**Properties.**

* `FreshAdmission`: no event passes idempotency check and lease after a newer one of
  its ticket has, whichever agent and state that one was for, unless a sweep forgot
  rows in between.
* `OneSender`: of the handlers that send a message about one pair, at most one does so
  under a spawn claim it began and still has.  (Two may send at once all the same: the
  rotation of a dead session takes no claim, and neither does the sweep.)
* `WindowBacked`: a dedup window that is running was opened by an event that reached the
  bag, or whose handler has still to decide; a restart may break it.
* `DelegationDispatched`: an agent that stays the delegate has a dispatch on record in the
  end, though any guard may swallow its events, or the ticket is barred.  The dispatch may
  be one of an earlier delegation to the same agent: more the code does not give, see
  "Findings".

An event that arrives while the ticket's session runs takes the same-ticket path, whose
spawn claim is live: `deliverToAgent` answers with a replay, nothing is sent, and the bag
entry goes, though the comment there promises delivery.

## WakeBrakes

**State and code.**  One agent, one governed ticket.  `row` is its `dispatch_acks` row
(status, delivery failures), `count` its re-dispatch budget, `breaker` its circuit breaker,
`claim` whether the tracker has the pair, `spawn` its spawn claim.  `session` is the
gateway, `mine` whether Linear names the agent as delegate.  `frame[f]` is an asynchronous
call frame and the await it is suspended at.  `trail` is history: the labels of the
re-pokes let out since the breaker last forgot the ticket.

**Actions.**  `Detect` to `HandleFailure` are a cycle of the no-activity detector, `Overdue`
to `Redrive` one of the watchdog, `StaleTimer` to `RepokeFails` the stale-session recovery,
`Event` to `Direct` the webhook.  `Claim` to `Refused` are `resignalPendingTickets` with
`sendWakeUpSignal`, as the first two and the webhook call it; `Recheck` and `BackoffOver` are
their last await before it.  `Works`, `Comments` and `SessionOver` are the agent.

**Abstractions.**  Nothing is timed: a row may be overdue, a claim past its timeout, a run
expired at any moment.  A label that is read is any of `Labels`, or none; only the breaker
looks at it, and it is chosen there.  A session is classified as anything.  The retries of
one delivery are one outcome.  The counts saturate at the value past which no test tells
them apart.

**Fairness** (`FairSpec`).  Every await settles (weak).  The watchdog is a timer and finds an
overdue row again and again (strong: the frame may serve others in between).  Nothing is
assumed of Linear, the gateway, the agent or the other callers.

**Properties.**

* `LoopIsCut`: between two resets of the breaker, no `MaxWakes` repeats of a label and no
  `MaxRevisits` returns to labels seen before get out, however the ticket moves.
* `UnansweredWakesEnd`: an open row of a delegate without a session gets a session, or is
  escalated or closed, though deliveries are refused, pending runs answer later wakes and
  each caller skips what another seems to handle.
* `SealHolds`: what a comment of the code promises of the budget (finding).

## DeliverySlots

`deliverWithSlot` around `acquireSlot` and `releaseSlot`: `active` is the count of the
code, `waitQueue` the promises in line, `state` what each caller is doing.
`MaxActive` bounds the count, which grows with every slot that is handed on.

* `WaitsOnlyWhenFull` is what the comment of `acquireSlot` says (finding).
* `NeverOverLimit` is the half of that promise which holds: no more hand-offs than the
  limit are under way, however many slots have been lost.  It is proved (see "Proofs") and
  no run is spent on it; put in `slots.cfg` in the place of the other, TLC agrees.

## WorkflowGate

**Commands.**  A command of an agent is one or several requests under one
`X-Openclaw-Command-Id`: an `issueUpdate` or a comment, then the chunks of a long
comment.  `cmd[c].pc` is the step of `runCommand` the current request is suspended at:
`resolve`, `check`, `capture`, `source`, `forward`, `apply`, `write`; `between` while the
next chunk has not come.  Each step reads the ticket anew.  The lock is per request
and per spelling of the ticket's id (`key`), as `runWithTicketLock` keeps it.

**State and code.**  `tix` is the ticket in Linear, `old` what a read that lags may
return; `applied` the applied-state store; `snap` the command snapshots; `wf` the
definition: edges with tag and payload, the capability an edge needs, whether it nominates
the holders of it as approvers (`designated_approver`) or is left to a human at the ticket's
stakes, owners, terminal states, approval gates; and `sends`, a bound: who sends what.
`Known`, `Capabilities` and `Holds` are the capability policy.  `closed` and `split` are history: a command closed the ticket; label and delegate
have been torn apart since the last whole write.  `RoutineVerbs`, `Rank` and `Revision`
are the INF-1218 resolution of `continue-workflow` and `request-revision`.  `begin-workflow`
takes the edge of `continue-workflow` and shares its snapshot, but not its guard
(`GateRests`).

**Actions.**  `Resolve` is `resolveMetaIntent`, `Check` `checkWorkflowRules`, `Capture`
the snapshot, `Source` the label read before forwarding, `Forward` the request to
Linear with the delegate an `issueUpdate` carries, `Apply` and `Write`
`applyStateTransition`.  `MayFire` says who may fire an edge: the owner of the state with the
capability, a nominated approver, a holder of `force-deploy`, and, on an edge that a human
signs off, somebody the policy does not know; `DesignatedApprover` and `Registered` are the
two checks before it.  `force-deploy` names the edge `continue` (`Matches`).  `Override` is `setStateAtomic`, which takes no lock.
`CatchUp`, `ExpireApplied`, `ExpireSnapshot`, `Crash` are time and restarts.

**Abstractions.**  Gates that ask for evidence (comment, artifact, children, pull
request, release, stakes) may decline any command.  Reads lag by one version.  The
applied state lives longer than the lag and than a request; a restart takes longer
than the lag.  Generic edges are offered as `continue-workflow` or `begin-workflow` only,
unless they nominate an approver; owners are single bodies.  Whether the stakes of the
ticket leave a sign-off to a human is part of the edge.  The verified write is one step with the outcomes of `WriteContract`: confirmed;
accepted without a read-back (never where `wf.strict` closes the ticket, as
`workflow-gate.ts:7657-7667` asks of the task workflow); turned down; rolled back, the
delegate perhaps lost on the way; or torn half-way.  A crash in the middle of a write is
one that ends torn, then the crash.  That a write has no other outcome is
`TransitionWrite`'s `OutcomeKnown`.  Not
modelled: handoff, park, retire, complete, needs-human, commitment gates.

**Properties.**

* `TerminalIsFinal`: a ticket that a command closed stays closed, however far reads lag
  and whatever was on its way; overrides, break-glass and declared exits reopen it.
* `HandoverIsWhole`: the delegate is the owner of the state, except after the named
  ways of tearing them apart.
* `GateNeedsFreshAct`: an approval gate is advanced only by a request authorised in it:
  `auth` is the state `checkWorkflowRules` judged the request in, the snapshot's or the
  ticket's.  It excepts `begin-workflow` and `force-deploy`: there the code lets a later
  chunk advance a gate on what was authorised before it (see "Findings").  It speaks of advancing: a `reject` authorised in `merge` may take a ticket
  that is at `sign-off` by then back to `doing` (`task.yaml` has the verb in both).  And a
  command whose capture read failed has a snapshot without a state (`proxy.ts:1702`), so
  INF-562's guard is off (`workflow-gate.ts:3727-3731`) and each chunk is authorised in the
  state it finds: only the owner role of the gate then keeps one command from passing it.
* `MovesAreLegal`: a command moves the ticket along an edge out of the state it is in,
  for somebody who may fire that edge (`MayFire`), though its later chunks are
  authorised by what the first one saw.  It needs states left by different verbs
  (else see "Findings") and is not claimed when reads lag.  A write that is undone does
  not move the ticket.

With two spellings of the id two commands overlap and `TerminalIsFinal` fails in the
model; the CLI uses one spelling, so the runs have one.

## TransitionWrite

One write of a transition, `issueUpdateAtomicVerified`: a mutation carries the state
label, the delegate and the native state, is repeated up to `Attempts` times until a
read finds every facet, and is then accepted if only the label seems missing, or undone.
Each facet stands `from` or `to`.  Linear may drop the delegate or the native state of a
mutation it accepts, reject it, lose its answer, not answer the read or answer it with
an older version (`Faults`).  `strict` and `snapshot` are the caller's options.

* `ConfirmedIsWhole`: what is answered as confirmed stands whole at its destination.
* `RolledBackIsWhole`: what was rolled back stands where it began.
* `OutcomeKnown`: an answered write is one of the results of `WriteContract`, among those
  the caller's options allow: the ticket is what that result leaves, the caller is told
  so, and the store names the destination exactly if the write was accepted.  This is
  what makes the one step of `WorkflowGate` stand for the many of this module.
* `WriteProgresses`: every step spends some of `Fuel`, so that a write takes no more than
  `2 * Attempts + 3` steps: retries, rollback and repair do not feed one another.
* `Answered`: every write ends, under weak fairness of its awaits.
* `RecordSpec`: it implements `AppliedRecord`: the store names the destination only while
  the label stands there, the label is taken back only after the store has forgotten it,
  and the answer says what the store says.

## FanoutBarrier

A parent stands in `spawning`; its forward command mints one child per entry of the
spec that has none, writes `managing`, records the outcome and evaluates the barrier;
the webhook of a terminal child, the poller and a manual continue evaluate it again;
a satisfied barrier writes `review`.  `proc` holds the commands, by the spelling of the
id they use, and the evaluations outside a command (`Jobs`), each suspended at one of
its calls to Linear.  `mem`, `disk`, `loader` are the outcome store: `ensureLoaded` sets
its flag before it has read the file, so who consults it meanwhile finds it empty.
`fan` is history: the outcome and children of the last fan-out written.
A child is active, done or escaped; one whose state label is lost holds the barrier like an
active one.  The read of the existing children knows a child's state by the name of its
native column (`NativeName`), so an escaped child is recognised, and its entry minted again
(INF-900), only where that column has the name `escape`: `EscapeColumn`.  The registered
workflows put it in `Invalid`, where it keeps its slot like a done one; the run takes the
other case, which has more to check.
`BeginFanout` to `RecordOutcome` are `executeFanout` and its caller, `EvaluateEntry` to
`Release` and `WriteReview` the evaluations, `Rewind` a steward's rewind with an edited
spec, `Crash` a restart that may tear the file.

* `NoDoubleMint`: no entry has two children that fill its slot, unless the read of the
  existing ones failed (the code then takes the list for empty).  A child seen as escaped
  fills none and is replaced, by one child.
* `AwaitedChildrenDone`, `HeldParentStays`: an evaluation that read the record of the last
  fan-out advances the parent only when every awaited child is done, and never when the
  fan-out was refused, failed or waits for approval.  What the two leave out is real: an
  evaluation that another fan-out overtook, or that found the record of the last cycle.
* `BarrierNeverSticks`: a parent whose children are done does not stay in `managing`.

`FairSpec`: an evaluation goes on, and the poller, an interval timer, starts one when none is
running (weak); its calls do not fail for ever (strong); nothing is asked of commands, webhooks or people.

The run has one entry, two ids, two fan-outs and one restart: a second fan-out is what
every stale record, stale evaluation and repeated mint needs, and one entry has all the
conflicts since entries do not interact.  It keeps one spelling: with the UUID as a
second one the two action properties still hold, and are proved so, since an evaluation
that looks under the other spelling has not read the record of the last fan-out; but
`NoDoubleMint` fails in five steps, two commands under two locks that both find no child.

## TicketSweeps

One governed ticket and everything that repairs it without being asked: the label
webhook (`hook`) and the enrolment repair it starts beside it (`fill`), the bootstrap
reconciliation sweep with its passes (`boot`), the rescue sweep (`rescue`), the
first-action watchdog with its ladder and its mirror row (`watch`), the native-state
reconciler (`native`).  Each variable holds what its writer still uses of what it read;
every await is a step.  `issue` is the ticket in Linear, `ledger` the last transition in
the audit store, `mail` the label webhooks under way.  People and agents may change
labels, delegate and native state; webhooks get lost, writes are refused, reads are
not answered, the process dies: each costs one of `Quota`.  `LiveSeat` is the last look of
the rescue sweep before it seats (`liveSeatBlocked`): it answers that there is a delegate
before it looks for the terminal label, and the seat of a moved or drifted ticket stops at
the label only, so that a ticket closed meanwhile which still has its delegate is re-seated.
The seal of the bootstrap sweep then takes the delegate off, which `StrayOwnerGoes` and
`Converges` check.

* `Converges`: once these stop, the ticket comes to rest enrolled, closed or owned by the
  body of its role.  Excepted: a ladder left `unreachable` (see "Findings"), and a ticket whose
  place in the audit store no single body owns (`RecoveryStuck`).
* `RestHolds`: and there it stays.  The history variable `calm` says that the ticket came
  to rest (`AtRest`: nothing to repair, nobody holds a snapshot, no webhook under way, the
  ladder not at its end) and that since then only time passed and the sweeps ran, without a
  fault.  Their cycles go on reading and writing, in any order; none of them makes work for
  another.  A ladder that ends later does no harm: the reconciler then writes back the
  delegate it read, of an open ticket.
* `StrayOwnerGoes`: a delegate that raced the close goes.
* `NotLeftDark`: an open ticket with a workflow label and no state is not left alone.

`Fairness`: each cycle is a timer of its own, webhooks are handled, time passes (weak).
The instance starts from twelve kinds of left-over tickets and allows one act or fault:
a sweep treats tickets one after the other, so one ticket whose snapshots may be
arbitrarily old has the races; three states give an entry, an owned and a terminal one.

## Runs

The `WakeDispatch` instances have two jobs (two frames alive at once are enough for
every race the properties speak of: each relates two actors), at most `MaxEvents`
changes in Linear and `MaxAttempts` = 1.  Two events reach a change of delegate, a
delegation followed by a mention, and a delegation followed by a close.

| run | instance | shows |
|---|---|---|
| `wake_claims` | 1 agent (maxConcurrent 1), 2 tickets, webhook + session-end + stale timer | `TypeOK`, `UniqueClaimant`, `ImplementsClaims` |
| `wake_restart` | 2 agents, 2 tickets, webhook + stale timer + replay, 1 crash | `OneWakeInFlight`, `ForgottenOnlyIfSettled` |
| `wake_liveness` | 1 agent, 1 ticket, webhook + stale timer + watchdog, `FairSpec` | `UniqueClaimant`, `ForgottenOnlyIfSettled` with the watchdog and its pruning; `PhantomClaimsExpire`, `SwallowedDeliveryHeals` |
| `guards_race` | 1 pair, 2 handlers, 1 update, 1 restart | `TypeOK`, `OneSender`, `WindowBacked` |
| `guards_heal` | 1 pair, 1 handler, 2 updates, a ticket that may be barred, `FairSpec` | `FreshAdmission`, `DelegationDispatched` |
| `brakes` | 2 frames (detector and stale timer; watchdog and webhook), 2 labels, caps 1 and 2, 1 event or restart, `FairSpec` | `TypeOK`, `LoopIsCut`, `UnansweredWakesEnd` |
| `seal` | the same, with a count of automatic wakes | `SealHolds` violated |
| `slots` | 3 deliveries, 2 slots | `WaitsOnlyWhenFull` violated |
| `gate` | 3 settings (the shape of `task.yaml`; a sign-off by a nominated approver or a human, and `force-deploy`; the shape of `dev-impl.yaml`, with lag), 2 agents and a human, 2 commands of 2 requests, 1 upset | `TypeOK`, `TerminalIsFinal`, `HandoverIsWhole`, `GateNeedsFreshAct`, `MovesAreLegal` |
| `write` | 3 attempts, all faults, 1 restart | `TypeOK`, `ConfirmedIsWhole`, `RolledBackIsWhole`, `OutcomeKnown`, `WriteProgresses`, `Answered`, `RecordSpec` |
| `barrier` | 1 entry, 2 ids, 1 job, 2 fan-outs, 1 restart, a column `Escape`, `FairSpec` | `TypeOK`, `NoDoubleMint`, `AwaitedChildrenDone`, `HeldParentStays`, `BarrierNeverSticks` |
| `sweeps` | 12 left-over tickets, 1 act or fault | `TypeOK`, `RestHolds`, `Converges`, `StrayOwnerGoes`, `NotLeftDark` |

The guards' rows, leases, windows and claims are all per ticket or per pair, so one
pair has all of their conflicts; the one that crosses pairs, the staleness check over
every row of a ticket, needs several states or agents that this instance does not
have: `OnlyFreshAdmitted` proves it for any number of them.  Two handlers
race for a claim or a window; two updates are enough for an order to go wrong, and the
healing run has one handler because what it must heal is the guards' doing and not a
race's.  Two commands of two requests have every overlap of two agents under the
ticket lock; an upset is an override or a restart.

In `brakes` a frame runs one caller at a time and the frames share the four callers, so
that any two of different frames overlap; the caps are the smallest at which a count below
its cap and one at it both exist.  A start may find an open row and a run of an earlier
life, so one event is enough to meet a claim, and a restart to lose one.

Deadlock is not checked: with its events used up and nothing running the system is
quiet for good.

## Findings

* **The budget refills itself** (`seal`).  Watchdog, no-activity detector and stale-session
  recovery take an attempt before they wake; the delivery of that wake records a dispatch,
  and `onFreshDispatch` (`index.ts:1497-1504`) resets the budget at each recorded dispatch.
  An agent that answers nothing is woken without end, where `bag/dispatch-ack-tracker.ts:55-58`
  says that these loops do not call `recordDispatch` and seal at the cap.
* **Slots leak** (`slots`).  `releaseSlot` hands its slot to the first waiter, which counts
  it again.  After `MAX_CONCURRENT_DISPATCHES` hand-overs every delivery waits for ever.

Disagreements met while modelling, which no run is spent on:

* A later chunk of a comment is authorised by the snapshot of its command but matched
  against the label read for that chunk; in `dev-impl.yaml` the verb `continue` leads from
  merge to deploy and from deploy on, so that a long comment moves the ticket twice
  (`proxy.ts:1767-1779`; `ai-2530-command-nonce.test.ts:400` forbids it).
* The verified write keeps the failure kind of its last attempt only.  One attempt lands
  without its delegate, the last is rejected: the rollback is skipped and the command is
  told that nothing happened (`workflow-gate.ts:8311-8315`, against 5876 and 8386).
* A ladder that became unreachable is never looked at again once its ticket's row is
  terminal, and the native-state reconciler sets the finished ticket back to To Do every
  five minutes, against the seal pass (`native-state-reconciler.ts:351`, against 16-17).
* `begin-workflow` shares the snapshot of its command and takes the forward edge, but the
  guard of INF-562 asks for `continue-workflow` (`workflow-gate.ts:3727-3731`), and
  `force-deploy` has no guard: a later chunk of either advances an approval gate that the
  first chunk never saw, which the comment at 3720-3726 says must not happen.
* `registered-defs/sprint-spawner.yaml:136-140` tags `propose-brief` as `generic: continue`
  so that `continue-workflow` resolves to it; it also nominates an approver, and such edges
  are not routine (`isSpecialTransition`, `workflow-gate.ts:3492`), so that it does not.
* An escaped child is to be minted again (`fanout.ts:975-978`, and
  `inf-900-arm-barrier-escaped-child.test.ts:141`, which passes the state `escape` in).  But
  the state of an existing child is the name of its native column, and the registered
  workflows put an escaped ticket in `Invalid`: it keeps its slot, and acts as a done one.
* `rescue-sweep.ts:907-909` says that only a terminal label blocks the seat of a drifted
  ticket.  `liveSeatBlocked` answers "already delegated" first (384), so that a drifted ticket
  that was closed with its delegate on is seated all the same (and so is a moved one).
* `delegation-reconciliation-sweep.ts:430-438` says that the delegation is dated by the
  change of delegate, not by `updatedAt`.  The query asks for the history of the assignee,
  and falls back to `updatedAt`: a dispatch of an earlier delegation counts for the present
  one, or a dispatch made for the present one does not count.
* The breaker's webhook call sees no labels, since the normalized event has none, and so
  forgets the ticket at every event it lets pass (`webhook/index.ts:1398-1473`).

## Proofs

`WakeDispatch_proofs` proves, for any sets of agents, tickets and jobs and any
bounds:

* `TypeCorrect`: `Spec => []TypeOK`.  `TypeOK` is not used as it is: `DataOK` and
  `FrameOK` split it, and `FrameOK` adds that a job suspended on a ticket has one.
* `ClaimsUnique`: `Spec => []UniqueClaimant`.  With `DataOK` and `FrameOK` the
  invariant is inductive: a claim is made only for a pair not in `active`, by a job
  at `next`, which owns nothing, and a job leaves its wake only when it gives up its
  claim or lost it.
* `ClaimsImplemented`: `Spec => ImplementsClaims`.  Each action is a stutter, a
  release, a settlement or a claim of `SessionClaims` (lemmas `Stutters`, `Releases`,
  `Settles`).
* `OneWake`: if `Callers` has neither `sessionEnd` nor `watchdog`,
  `Spec => []OneWakeInFlight`.  The strengthening `WakesHold` says that every wake in
  flight still owns its claim and that its claim has not aged.

* `NothingForgotten`: `Spec => []ForgottenOnlyIfSettled`, if `DeferralsStay`: `Cap` is
  0, or `Callers` has neither `sessionEnd` nor `replay`.  `OwedHasRow` strengthens it: the
  pair of owed work has had an ack row ever since it was admitted, or is deferred.  Such a
  row is there, and then every status but the acknowledged one is remembered work, or
  `cleanup` took it, and then it was settled (`PrunedRows`).  `DeferralsKept` says what the
  condition buys: no deferral is made, or none is dropped.  Without the condition the
  property is false, see above.

The proofs use `CallersAssumption`, `NoAgentAssumption`, `LinearAssumption` and
`BoundsAssumption`, which say only that the parameters have their types.

`DispatchGuards_proofs` proves, for any sets of agents, tickets, states and handlers
and any bounds:

* `TypeCorrect`: `Spec => []TypeOK`.  `StoresOK` and `JobsOK` split `TypeOK`;
  `JobsOK` adds `Bound`: a handler at work has an agent, one at a ticket a ticket,
  and only one that sends has a claim.  Nearly every turn of a handler is `Plain` (it
  admits nothing and begins no claim) or `Begun` (it begins to send); the proofs below
  look at those two, and at `Receive`, `SpawnExpires` and `Crash`, in place of some
  thirty actions.
* `OnlyFreshAdmitted`: `Spec => FreshAdmission`.  The invariant `FreshInv` says what
  makes the idempotency table a memory: as long as an admitted update is the newest
  there is a row of its ticket, under whatever key, that is at least as new.  A row is
  only replaced by one of the same key that passed the staleness check, and the sweep,
  which deletes rows, starts a new history.
* `ClaimHasOneSender`: `Spec => []OneSender`.  `SenderInv` adds that a claim somebody
  sends under is not free.  Only `SpawnExpires` frees a claim, and those who send
  under it have lost it in the same step.
* `WindowsBacked`: `Spec => []WindowBacked`.  With the types it is inductive: a slot is
  primed by a handler that goes on to its liveness check, and every way out of that
  check clears the slot or backs it.

They use `GuardConstants`, which says that the bounds are numbers, that there is at
least one update (a lease without an `updatedAt` is stored as 1) and that `NoAgent`
is no agent.  `DelegationDispatched` is a liveness property and model-checked only.

`WakeBrakes_proofs` proves, for any labels, caps, frames and callers:

* `TypeCorrect`: `Spec => []TypeOK`.  That the breaker's counts stay within their caps needs
  `BelowCaps`: a breaker that has not tripped is below them.
* `LoopsAreCut`: `Spec => []LoopIsCut`.  `LoopIsCut` speaks of windows of the trail, the code
  keeps two numbers; `Tracks` ties them: the breaker has seen what is on the trail, its
  counts are the lengths of the run of equal labels and of the run of revisits at the end.
  Only a wake let out makes new windows, those that end with it, and their caps follow from
  the two numbers.

They use `BrakeConstants`: the caps are at least 1 and no label is `None`.

`WorkflowGate_proofs` proves, for any workflow definitions, agents, commands, chunks and
overrides:

* `TypeCorrect`: `Spec => []TypeOK`, with `Destined`: a command that writes has a
  destination.
* `Handover`: `Spec => []HandoverIsWhole`.  `IInv`, the two with `HandoverIsWhole`, is
  inductive: a whole write seats the owner of its destination, and every other write of
  label or delegate sets `split`.
* `ClosedStaysClosed`: `Spec => []TerminalIsFinal`, if requests spell the id alike
  (`OneSpelling`) and no edge leaves a terminal state (`Sealed`).  `ClosedInv` adds
  `OneAtATime` (the lock), `Rested` (no source label outlives its request), `Remembered`
  (the applied-state store knows of the close, or every read and source label shows it)
  and `NoneWrites` (nobody but break-glass is about to write on a closed ticket):
  together they say why a stale read cannot reopen it.
* `GatesNeedFreshActs`: `Spec => GateNeedsFreshAct`, if `OneSpelling` and `GateVerbsDiffer`:
  a verb that takes a gate forward leaves no other state, unless agents can reach it as a
  meta-intent only.  Of the meta-intents, `begin-workflow` is excepted by the property
  itself, as the code does not hold it back.  The definitions with gates (`task.yaml`, `dept-engine.yaml`)
  are of that kind; where an explicit verb leaves two states TLC finds the second chunk
  passing the gate.
* `MovesFollowEdges`: `Spec => MovesAreLegal`, if `OneSpelling`, for any policy and any
  mixture of owners, nominated approvers, holders of `force-deploy` and humans.

  Both rest on `ActInv`, which follows a request from read to read: `ReadsTrue` (without
  lag a read is the ticket, and the applied-state store is right or empty), `Resolved`
  (the verb fits the state it is going to be judged in), `Authorised` (so does the caller,
  and that state is the ticket's if it is a gate the verb advances) and `Aimed` (the
  write goes along an edge from where the ticket is).  `OneAtATime` is what keeps the four
  true of a ticket that the request reads four times.

`TransitionWrite_proofs` proves, for any number of attempts and any faults:
`TypeCorrect`, `Confirmed` (`ConfirmedIsWhole`), `RolledBack` (`RolledBackIsWhole`),
`KeepsRecord` (`Spec => RecordSpec`, the refinement of `AppliedRecord`) and

* `KeepsContract`: `Spec => []OutcomeKnown`.  `Seating` strengthens it: the delegate stands
  at the destination only if it was written, and next to a label that stands where it began
  only if there is a snapshot, since only a rollback takes a label back; and each answer
  fixes what is on record.
* `Spends`: `Spec => WriteProgresses`.  An attempt that is repeated costs what it may take
  and so does giving up; the types bound the attempts.

`DeliverySlots_proofs` proves, for any finite set of deliveries and any limit, `LimitKept`:
`Spec => [](NeverOverLimit /\ TypeOK)`, the count never negative.  The count
is not the number of hand-offs under way, but never below it (`Counted`), which is all that
`acquireSlot` needs; that handing a slot on keeps their number needs `InLine`: who is in
line waits, and stands there once.

`FanoutBarrier_proofs` proves, for any specs, ids, spellings, jobs, rewinds and restarts:

* `TypeCorrect`: `Spec => []TypeOK`; a fan-out knows the children it made.
* `ReleaseWaits` and `HeldStays`: `Spec => AwaitedChildrenDone` and `Spec => HeldParentStays`,
  with any number of spellings.  An evaluation decides at one await and writes at a later
  one; the invariant says that what it decided still stands of the record it read, while
  that is the last fan-out's: done children stay done, a refused fan-out has no way out.
* `OneChildPerEntry`: `Spec => []NoDoubleMint`, if all commands spell the parent's id alike,
  for either `EscapeColumn`.  The invariant ties what a command has yet to mint to the
  children there are: an entry on its list has none but escaped ones, because the lock keeps
  other fan-outs away since the list was read, and no escaped child comes back.

They use `KeysAssumption`, `VerdictsAssumption`, `BoundsAssumption`, `NamesAssumption`, the
types of the parameters, and `IdsAssumption`: the tickets there may be are finitely many.

`TicketSweeps_proofs` proves `TypeCorrect`: `Spec => []TypeOK`, for any workflow, owners, seat
bindings and left-over tickets.  Types are not inductive by themselves here: a sweep seats
`TheOne(Fills[s])` for a state it read several awaits ago, so `SweepInv` adds that whoever is
on the way to a seat decided so for a state with a body (`SeatAhead`, `RescueOK`), and that a
label event that says a workflow was added names it (`EventFits`).

It proves `RestIsKept`: `Spec => []RestHolds`, under the same assumptions.  `Settled` is far
from inductive, since a held snapshot may undo it; `CalmInv` adds that a calm ticket is at
`Peace` in one of four ways, each with the snapshots the cycles can hold of it:
`Gone` (no workflow: nobody lists it), `Over` (natively finished: whatever the sweeps write,
no event or read on its way says the terminal label), `Sealed` (the terminal label too: the
bootstrap sweep may only take the labels off, which makes it `Over`) and `Worked` (open and
owned: the close pass finds it open, the rescue sweep's judgement is of the ticket as it
is, the reconciler holds its delegate).  Each cycle is followed through each of the four.

Only model-checked: every liveness property (`PhantomClaimsExpire`,
`SwallowedDeliveryHeals`, `DelegationDispatched`, `UnansweredWakesEnd`, `Answered`,
`BarrierNeverSticks`, `Converges`, `StrayOwnerGoes`, `NotLeftDark`), since fairness is out of
the prover's reach; and the two refuted claims of "Findings".

## Not modelled

`PROJECT.json` lists every component with its status.  The console, reports, canaries and
deploy scripts keep no protocol state.  Routing and caches are pure or small; the
observation and proposal pipeline and the evidence gates of releases are planned.  The
text of messages, prompts and comments is left out everywhere.
