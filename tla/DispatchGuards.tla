--------------------------- MODULE DispatchGuards ---------------------------
(***************************************************************************)
(* The guards a routed event passes before an agent is woken, and the      *)
(* stores behind them:                                                     *)
(*                                                                         *)
(*   idem      DispatchIdempotencyStore, (ticket, state, agent) -> updatedAt*)
(*   lease     DispatchLeaseStore, (agent, key) -> ticket_updated_at       *)
(*   nudge     NudgeStore, the dedup window of (agent, ticket)             *)
(*   spawn     SessionSpawnIdempotencyStore, (ticket, taskKey = agent)     *)
(*                                                                         *)
(* A check and its write are one SQLite transaction, but between two       *)
(* stores the handlers await Linear and the gateway, so webhooks, the      *)
(* /session-end handler, the startup replay and the reconciliation sweep   *)
(* interleave.  WakeDispatch has the claims of the session tracker in      *)
(* full; here a claim is only what the guards read of it, and the in-flight *)
(* store only the refusals of the one path that asks it.                   *)
(*                                                                         *)
(* An updatedAt is the number of a ticket's update.  Of a row with a TTL,   *)
(* either its reader may find the TTL over, or, where others depend on it, *)
(* an action of its own removes the row.                                   *)
(***************************************************************************)
EXTENDS Naturals, FiniteSets

CONSTANTS
    Agents, Tickets,
    States,       \* workflow states, the second part of an idempotency key
    Handlers,     \* requests and cron runs in progress
    NoAgent,      \* not an agent
    Barrable,     \* tickets the sweep may be kept from in this instance
    MaxVersion,   \* bound: updates of a ticket
    MaxCrashes    \* bound: restarts of the connector

ASSUME GuardConstants ==
    /\ NoAgent \notin Agents /\ Barrable \subseteq Tickets
    /\ MaxVersion \in Nat \ {0} /\ MaxCrashes \in Nat

VARIABLES
    version,    \* Linear: the updates of a ticket so far
    owner,      \* Linear: its delegate
    inbox,      \* events Linear delivers, in any order and maybe again
    idem, lease, nudge, spawn, bag,   \* the durable stores
    active,     \* SessionTracker.activeSessions
    recorded,   \* operational events: the update the pair's newest dispatch came after, 0: none
    barred,     \* tickets the sweep may not get to wake an agent for: terminal or blocked,
                \* and passed over, or refused by the wake policy
    session,    \* gateway: pairs with a session
    callbacks,  \* agents whose plugin has a /session-end call to make
    replay,     \* agents the startup replay has still to signal
    jobs,       \* what each handler is doing
    freshest,   \* history: the newest update admitted since a sweep forgot rows
    crashes

stores   == <<idem, lease, nudge, spawn, bag>>
linear   == <<version, owner, inbox, barred>>
gateway  == <<session, callbacks>>
history  == <<freshest, crashes>>
vars     == <<linear, stores, active, recorded, gateway, replay, jobs, history>>

Versions == 0 .. MaxVersion            \* 0: none
Pairs    == Agents \X Tickets
Events   == [ticket : Tickets, agent : Agents, state : States, at : 1 .. MaxVersion]

\* Mutant: one spelling throughout.
ReconciliationKeyMutant(t) == <<t, "session">>

(* The two spellings of a ticket under which leases are filed: webhooks and
   sweeps use the session key, linear-T, the reconciliation wake uses T. *)
LeaseKeys == Tickets \X {"session", "plain"}
SessionKey(t) == <<t, "session">>
ReconciliationKey(t) == <<t, "plain">>

Stages == {"idle", "routing", "liveness", "direct", "sendDirect",
           "loop", "wake", "sendWake", "ended", "sweepRead", "sweep", "sendSweep"}

(* A handler: its agent and ticket, the update its event or message carries,
   the tickets its loop has left, why it loops, whether the loop dispatched
   anything, and how it came by the spawn claim it sends under. *)
Job == [stage : Stages, agent : Agents \cup {NoAgent}, ticket : Tickets \cup {NoAgent},
        at : Versions, todo : SUBSET Tickets, own : SUBSET Tickets,
        after : {"", "webhook", "sessionEnd", "replay"}, any : BOOLEAN,
        claim : {"none", "fresh", "rotated", "lapsed"}]

Idle == [stage |-> "idle", agent |-> NoAgent, ticket |-> NoAgent, at |-> 0, todo |-> {},
         own |-> {}, after |-> "", any |-> FALSE, claim |-> "none"]

(* A dedup slot; backed is history: the bag has had an event of the pair since
   the slot was primed. *)
NoNudge == [primed |-> FALSE, merged |-> FALSE, backed |-> FALSE]

Init ==
    /\ version = [t \in Tickets |-> 0]
    /\ owner = [t \in Tickets |-> NoAgent]
    /\ inbox = {}
    /\ idem = {}
    /\ lease = [p \in Agents \X LeaseKeys |-> 0]
    /\ nudge = [p \in Pairs |-> NoNudge]
    /\ spawn = [p \in Pairs |-> "free"]
    /\ bag = [a \in Agents |-> {}]
    /\ active = [a \in Agents |-> {}]
    /\ recorded = [p \in Pairs |-> 0]
    /\ barred = {}
    /\ session = {}
    /\ callbacks = {}
    /\ replay = {}
    /\ jobs = [h \in Handlers |-> Idle]
    /\ freshest = [t \in Tickets |-> 0]
    /\ crashes = 0

(* The next stage of h, the rest of its record as it is. *)
Goes(h, stage) == jobs' = [jobs EXCEPT ![h].stage = stage]
Ends(h) == jobs' = [jobs EXCEPT ![h] = Idle]

-----------------------------------------------------------------------------
(* The stores.                                                             *)

SameKey(r, e) == r.ticket = e.ticket /\ r.state = e.state /\ r.agent = e.agent

(* checkAndRecord drops a snapshot older than any row of its ticket, and
   suppresses one that its own row has already, while the row's TTL lasts. *)
Stale(e) == \E r \in idem : r.ticket = e.ticket /\ r.at > e.at
Duplicate(e) == e \in idem

\* Mutant: insert or ignore, the row keeps its first update.
RecordMutant(e) == idem' = IF \E r \in idem : SameKey(r, e) THEN idem ELSE idem \cup {e}

Record(e) == idem' = {r \in idem : ~SameKey(r, e)} \cup {e}

\* Mutant: stamped past the update it was taken for.
AcquireMutant(a, k, at) == lease' = [lease EXCEPT ![<<a, k>>] = at + 1]

(* A lease refuses all but a strictly newer update. *)
LeaseRefuses(a, k, at) == lease[<<a, k>>] # 0 /\ ~(at > lease[<<a, k>>])
Acquire(a, k, at) == lease' = [lease EXCEPT ![<<a, k>>] = at]

\* Mutant: the merged events are forgotten, the window goes on.
ClearNudgeMutant(a, t) == nudge' = [nudge EXCEPT ![<<a, t>>].merged = FALSE]

ClearNudge(a, t) == nudge' = [nudge EXCEPT ![<<a, t>>] = NoNudge]

\* Mutant: a claim whose run has not been confirmed is no claim.
ReplayableMutant(p) == spawn[p] = "live"

(* beginOrGetExisting returns an existing claim instead of a new one while it
   is replayable: pending or live, and within its TTL. *)
Replayable(p) == spawn[p] \in {"pending", "live"}

(* What a caller of beginOrGetExisting does next: start a run of its own, start
   one in place of a live claim whose session the probe finds dead (it may not
   find out), or take the existing run for its own. *)
StartsFresh(p)   == ~Replayable(p)
StartsRotated(p) == spawn[p] = "live" /\ Replayable(p) /\ p \notin session
Replays(p)       == Replayable(p)

(* A dispatch of t to a is on record. *)
Recorded(a, t) == recorded' = [recorded EXCEPT ![<<a, t>>] = version[t]]

(* The updates from which the sweep may date the delegation of t: a change of its
   assignee, which need not be the one that delegated it, or else the last update
   of any kind. *)
DelegationDates(t) == 1 .. version[t]
DispatchSince(p, since) == recorded[p] >= since

(* The gateway takes a message: a session runs it. *)
Accepts(p) ==
    /\ session' = session \cup {p}
    /\ UNCHANGED callbacks

(* A send that fails may have been taken by the gateway all the same: the
   connector gave up waiting. *)
FailsAfter(p) == Accepts(p) \/ UNCHANGED gateway

-----------------------------------------------------------------------------
(* Linear: the ticket is updated, its delegate stays or becomes a; the event
   of the update goes out. *)
Update(t, a, s) ==
    /\ version[t] < MaxVersion
    /\ version' = [version EXCEPT ![t] = @ + 1]
    /\ owner' = [owner EXCEPT ![t] = a]
    /\ inbox' = inbox \cup {[ticket |-> t, agent |-> a, state |-> s, at |-> version[t] + 1]}
    /\ UNCHANGED <<barred, stores, active, recorded, gateway, replay, jobs, history>>

(* Linear: the delegate is cleared. *)
Undelegate(t) ==
    /\ version[t] < MaxVersion /\ owner[t] # NoAgent
    /\ version' = [version EXCEPT ![t] = @ + 1]
    /\ owner' = [owner EXCEPT ![t] = NoAgent]
    /\ UNCHANGED <<inbox, barred, stores, active, recorded, gateway, replay, jobs, history>>

(* A ticket becomes terminal or blocked, or its re-dispatch budget or its cap of
   stuck prompts is used up; or that is over. *)
Bar(t) ==
    /\ t \in Barrable
    /\ barred' = IF t \in barred THEN barred \ {t} ELSE barred \cup {t}
    /\ UNCHANGED <<version, owner, inbox, stores, active, recorded, gateway, replay, jobs, history>>

(* Linear gives up on an event: it has been delivered, often enough or never. *)
Drop(e) ==
    /\ inbox' = inbox \ {e}
    /\ UNCHANGED <<version, owner, barred, stores, active, recorded, gateway, replay, jobs, history>>

(* The webhook, dispatchRoute up to its first await: idempotency, lease, and
   the checks of roster, comment-fed wakes and breaker, any of which may stop
   the event with its row and its lease written. *)
Receive(h, e) ==
    /\ jobs[h].stage = "idle"
    /\ \/ /\ Stale(e) \/ Duplicate(e)
          /\ UNCHANGED <<idem, lease, freshest, jobs>>
       \/ /\ ~Stale(e)
          /\ Record(e)
          /\ IF LeaseRefuses(e.agent, SessionKey(e.ticket), e.at)
             THEN UNCHANGED <<lease, freshest, jobs>>
             ELSE /\ Acquire(e.agent, SessionKey(e.ticket), e.at)
                  /\ freshest' = [freshest EXCEPT ![e.ticket] = IF e.at > @ THEN e.at ELSE @]
                  /\ \/ jobs' = [jobs EXCEPT ![h] = [Idle EXCEPT !.stage = "routing",
                                       !.agent = e.agent, !.ticket = e.ticket, !.at = e.at]]
                     \/ UNCHANGED jobs
    /\ UNCHANGED <<linear, nudge, spawn, bag, active, recorded, gateway, replay,
                   crashes>>

(* The stale-route check is answered, and with no further await the nudge slot
   is taken, or the event merged into it while its window lasts.  The check passes an event
   whose agent is no longer the delegate only when Linear cannot be read. *)
Routed(h) ==
    LET a == jobs[h].agent
        t == jobs[h].ticket IN
    /\ jobs[h].stage = "routing"
    /\ \/ /\ nudge[<<a, t>>].primed
          /\ nudge' = [nudge EXCEPT ![<<a, t>>].merged = TRUE]
          /\ Ends(h)
       \/ /\ nudge' = [nudge EXCEPT ![<<a, t>>] = [NoNudge EXCEPT !.primed = TRUE]]
          /\ Goes(h, "liveness")
    /\ UNCHANGED <<linear, idem, lease, spawn, bag, active, recorded, gateway,
                   replay, history>>

NotRouted(h) ==
    /\ jobs[h].stage = "routing"
    /\ owner[jobs[h].ticket] # jobs[h].agent
    /\ Ends(h)
    /\ UNCHANGED <<linear, stores, active, recorded, gateway, replay, history>>

(* The agent is unreachable, or the role guard blocks it: the slot is given
   back. *)
Abort(h) ==
    /\ jobs[h].stage = "liveness"
    /\ ClearNudge(jobs[h].agent, jobs[h].ticket)
    /\ Ends(h)
    /\ UNCHANGED <<linear, idem, lease, spawn, bag, active, recorded, gateway,
                   replay, history>>

(* The event is admitted to the bag.  A ticket the agent has a session on gets
   the event directly, else every ticket in the agent's bag is signaled. *)
Admit(h) ==
    LET a == jobs[h].agent
        t == jobs[h].ticket
        bagged == [b \in Agents |-> IF b = a THEN bag[b] \cup {t} ELSE bag[b] \ {t}] IN
    /\ jobs[h].stage = "liveness"
    /\ bag' = bagged
    /\ nudge' = [nudge EXCEPT ![<<a, t>>].backed = nudge[<<a, t>>].primed]
    /\ IF t \in active[a]
       THEN Goes(h, "direct")
       ELSE jobs' = [jobs EXCEPT ![h].stage = "loop", ![h].after = "webhook", ![h].at = 0,
                                 ![h].own = {t}, ![h].todo = bagged[a]]
    /\ UNCHANGED <<linear, idem, lease, spawn, active, recorded, gateway,
                   replay, history>>

-----------------------------------------------------------------------------
(* The same-ticket path: deliverToAgent, then the bag entry goes and a
   delivery is put on record, whatever the result says. *)
Delivered(h) ==
    /\ bag' = [bag EXCEPT ![jobs[h].agent] = @ \ {jobs[h].ticket}]
    /\ Recorded(jobs[h].agent, jobs[h].ticket)
    /\ Ends(h)

(* deliverToAgent from beginOrGetExisting to the await of the message: it takes
   an existing run for its own, or begins one. *)
DirectReplays(h) ==
    LET p == <<jobs[h].agent, jobs[h].ticket>> IN
    /\ jobs[h].stage = "direct"
    /\ Replays(p)
    /\ Delivered(h)
    /\ UNCHANGED <<linear, idem, lease, nudge, spawn, active, gateway, replay, history>>

(* The in-flight guard may refuse, the lease does unless the update is newer than
   the one it was taken for.  A refusal leaves the claim pending. *)
DirectStarts(h) ==
    LET a == jobs[h].agent
        t == jobs[h].ticket
        at == jobs[h].at
        p == <<a, t>> IN
    /\ jobs[h].stage = "direct"
    /\ StartsFresh(p) \/ StartsRotated(p)
    /\ spawn' = IF StartsFresh(p) THEN [spawn EXCEPT ![p] = "pending"] ELSE spawn
    /\ \/ /\ Delivered(h)
          /\ UNCHANGED lease
       \/ /\ ~LeaseRefuses(a, SessionKey(t), at)
          /\ Acquire(a, SessionKey(t), at)
          /\ jobs' = [jobs EXCEPT ![h].stage = "sendDirect",
                         ![h].claim = IF StartsFresh(p) THEN "fresh" ELSE "rotated"]
          /\ UNCHANGED <<bag, recorded>>
    /\ UNCHANGED <<linear, idem, nudge, active, gateway, replay, history>>

DirectSent(h) ==
    LET p == <<jobs[h].agent, jobs[h].ticket>> IN
    /\ jobs[h].stage = "sendDirect"
    /\ \/ Accepts(p) /\ spawn' = [spawn EXCEPT ![p] = "live"]
       \/ FailsAfter(p) /\ UNCHANGED spawn
    /\ Delivered(h)
    /\ UNCHANGED <<linear, idem, lease, nudge, active, replay, history>>

(* The message could not be built or sent: the signal is queued, the bag entry
   stays. *)
DirectThrows(h) ==
    /\ jobs[h].stage \in {"direct", "sendDirect"}
    /\ Ends(h)
    /\ UNCHANGED <<linear, stores, active, recorded, gateway, replay, history>>

-----------------------------------------------------------------------------
(* resignalPendingTickets: a ticket without a claim is claimed and woken.   *)
NextTicket(h, t) ==
    LET a == jobs[h].agent IN
    /\ jobs[h].stage = "loop"
    /\ t \in jobs[h].todo
    /\ IF t \in active[a]
       THEN jobs' = [jobs EXCEPT ![h].todo = @ \ {t}] /\ UNCHANGED active
       ELSE /\ active' = [active EXCEPT ![a] = @ \cup {t}]
            /\ jobs' = [jobs EXCEPT ![h].todo = @ \ {t}, ![h].stage = "wake", ![h].ticket = t]
    /\ UNCHANGED <<linear, stores, recorded, gateway, replay, history>>

(* The ticket is not the agent's to act on: it is pruned. *)
Prune(h) ==
    LET a == jobs[h].agent
        t == jobs[h].ticket IN
    /\ jobs[h].stage = "wake"
    /\ owner[t] # a
    /\ active' = [active EXCEPT ![a] = @ \ {t}]
    /\ bag' = [bag EXCEPT ![a] = @ \ {t}]
    /\ Goes(h, "loop")
    /\ UNCHANGED <<linear, idem, lease, nudge, spawn, recorded, gateway, replay, history>>

(* Linear cannot be read, and the startup replay leaves the ticket for another
   day. *)
Defer(h) ==
    /\ jobs[h].stage = "wake" /\ jobs[h].after = "replay"
    /\ active' = [active EXCEPT ![jobs[h].agent] = @ \ {jobs[h].ticket}]
    /\ Goes(h, "loop")
    /\ UNCHANGED <<linear, stores, recorded, gateway, replay, history>>

(* sendWakeUpSignal: no run id comes with the replay of a pending claim, so
   that the webhook gives the session's claim back; the other callers hand the
   loop a sendWakeUp of their own, and it keeps their claims. *)
WakeReplays(h) ==
    LET a == jobs[h].agent
        t == jobs[h].ticket IN
    /\ jobs[h].stage = "wake"
    /\ Replays(<<a, t>>)
    /\ active' = IF jobs[h].after = "webhook" /\ spawn[<<a, t>>] = "pending"
                 THEN [active EXCEPT ![a] = @ \ {t}] ELSE active
    /\ jobs' = [jobs EXCEPT ![h].stage = "loop", ![h].any = TRUE]
    /\ UNCHANGED <<linear, stores, recorded, gateway, replay, history>>

WakeStarts(h) ==
    LET p == <<jobs[h].agent, jobs[h].ticket>> IN
    /\ jobs[h].stage = "wake"
    /\ StartsFresh(p) \/ StartsRotated(p)
    /\ spawn' = IF StartsFresh(p) THEN [spawn EXCEPT ![p] = "pending"] ELSE spawn
    /\ jobs' = [jobs EXCEPT ![h].stage = "sendWake",
                   ![h].claim = IF StartsFresh(p) THEN "fresh" ELSE "rotated"]
    /\ UNCHANGED <<linear, idem, lease, nudge, bag, active, recorded, gateway,
                   replay, history>>

(* Accepted: without a run id the webhook gives its claim back.  Every other wake
   goes through the scheduler, which puts the delivery on record. *)
WakeAccepted(h) ==
    LET a == jobs[h].agent
        t == jobs[h].ticket IN
    /\ jobs[h].stage = "sendWake"
    /\ Accepts(<<a, t>>)
    /\ spawn' = [spawn EXCEPT ![<<a, t>>] = "live"]
    /\ \/ /\ jobs[h].after = "webhook"
          /\ active' \in {active, [active EXCEPT ![a] = @ \ {t}]}
          /\ UNCHANGED recorded
       \/ jobs[h].after # "webhook" /\ UNCHANGED active /\ Recorded(a, t)
    /\ jobs' = [jobs EXCEPT ![h].stage = "loop", ![h].any = TRUE, ![h].claim = "none"]
    /\ UNCHANGED <<linear, idem, lease, nudge, bag, replay, history>>

(* Not accepted: the wake throws, its claims stay as they are. *)
WakeFailed(h) ==
    /\ jobs[h].stage = "sendWake"
    /\ FailsAfter(<<jobs[h].agent, jobs[h].ticket>>)
    /\ jobs' = [jobs EXCEPT ![h].stage = "loop", ![h].claim = "none"]
    /\ UNCHANGED <<linear, stores, active, recorded, replay, history>>

(* The loop is over.  The webhook records a dispatch of its own ticket if any
   ticket was dispatched; /session-end releases what the agent held. *)
LoopEnds(h) ==
    LET a == jobs[h].agent IN
    /\ jobs[h].stage = "loop"
    /\ jobs[h].todo = {}
    /\ recorded' = [p \in Pairs |->
          IF jobs[h].after = "webhook" /\ jobs[h].any /\ p[1] = a /\ p[2] \in jobs[h].own
          THEN version[p[2]] ELSE recorded[p]]
    /\ IF jobs[h].after = "sessionEnd"
       THEN lease' = [p \in Agents \X LeaseKeys |-> IF p[1] = a THEN 0 ELSE lease[p]]
       ELSE UNCHANGED lease
    /\ Ends(h)
    /\ UNCHANGED <<linear, idem, nudge, spawn, bag, active, gateway, replay, history>>

-----------------------------------------------------------------------------
(* The gateway: a session finishes, its plugin calls /session-end.          *)
SessionFinishes(a, t) ==
    /\ <<a, t>> \in session
    /\ session' = session \ {<<a, t>>}
    /\ callbacks' = callbacks \cup {a}
    /\ UNCHANGED <<linear, stores, active, recorded, replay, jobs, history>>

(* POST /session-end, to its first await: all claims of the agent end. *)
SessionEnd(h, a) ==
    /\ jobs[h].stage = "idle"
    /\ a \in callbacks
    /\ callbacks' = callbacks \ {a}
    /\ jobs' = [jobs EXCEPT ![h] = [Idle EXCEPT !.stage = "ended", !.agent = a,
                                        !.after = "sessionEnd", !.own = active[a]]]
    /\ active' = [active EXCEPT ![a] = {}]
    /\ UNCHANGED <<linear, stores, recorded, session, replay, history>>

(* Then: the rest of the bag is taken out to be signaled again, and the slots
   with merged events of other tickets are cleared. *)
Drain(h) ==
    LET a == jobs[h].agent
        pending == bag[a] \ jobs[h].own IN
    /\ jobs[h].stage = "ended"
    /\ bag' = IF pending # {} THEN [bag EXCEPT ![a] = {}] ELSE bag
    /\ nudge' = [p \in Pairs |-> IF p[1] = a /\ nudge[p].merged /\ p[2] \notin pending
                                 THEN NoNudge ELSE nudge[p]]
    /\ jobs' = [jobs EXCEPT ![h].stage = "loop", ![h].todo = pending]
    /\ UNCHANGED <<linear, idem, lease, spawn, active, recorded, gateway, replay, history>>

-----------------------------------------------------------------------------
(* The delegation reconciliation sweep reads a delegated ticket, and asks Linear
   since when it has its delegate.  A terminal or blocked one it may pass over. *)
SweepReads(h, t) ==
    /\ jobs[h].stage = "idle"
    /\ owner[t] # NoAgent
    /\ jobs' = [jobs EXCEPT ![h] = [Idle EXCEPT !.stage = "sweepRead", !.agent = owner[t],
                                        !.ticket = t, !.at = version[t]]]
    /\ UNCHANGED <<linear, stores, active, recorded, gateway, replay, history>>

(* The agent has been dispatched since, or the lease is held. *)
SweepSkips(h) ==
    LET a == jobs[h].agent
        t == jobs[h].ticket IN
    /\ jobs[h].stage = "sweepRead"
    /\ \/ \E since \in DelegationDates(t) : DispatchSince(<<a, t>>, since)
       \/ LeaseRefuses(a, SessionKey(t), jobs[h].at)
    /\ Ends(h)
    /\ UNCHANGED <<linear, stores, active, recorded, gateway, replay, history>>

(* No dispatch is on record since: it takes the lease, forgets the pair's rows and,
   if the tracker has no session, goes on to wake. *)
Sweep(h) ==
    LET a == jobs[h].agent
        t == jobs[h].ticket IN
    /\ jobs[h].stage = "sweepRead"
    /\ \E since \in DelegationDates(t) : ~DispatchSince(<<a, t>>, since)
    /\ ~LeaseRefuses(a, SessionKey(t), jobs[h].at)
    /\ Acquire(a, SessionKey(t), jobs[h].at)
    /\ idem' = {r \in idem : ~(r.ticket = t /\ r.agent = a)}
    /\ freshest' = [freshest EXCEPT ![t] = 0]
    /\ IF t \in active[a]
       THEN Ends(h)
       ELSE jobs' = [jobs EXCEPT ![h].stage = "sweep", ![h].at = 0]
    /\ UNCHANGED <<linear, nudge, spawn, bag, active, recorded, gateway, replay,
                   crashes>>

(* reconciliationWakeFn: a lease under the reconciliation's own key, without an
   updatedAt: whether there is one is all that counts.  Then the wake policy has
   its say on a barred ticket, and the lease stays when it refuses. *)
SweepWake(h) ==
    LET a == jobs[h].agent
        k == ReconciliationKey(jobs[h].ticket) IN
    /\ jobs[h].stage = "sweep"
    /\ \/ /\ lease[<<a, k>>] # 0
          /\ Ends(h) /\ UNCHANGED lease
       \/ /\ lease[<<a, k>>] = 0
          /\ Acquire(a, k, 1)
          /\ Goes(h, "sendSweep") \/ (jobs[h].ticket \in barred /\ Ends(h))
    /\ UNCHANGED <<linear, idem, nudge, spawn, bag, active, recorded, gateway, replay, history>>

SweepAccepted(h) ==
    /\ jobs[h].stage = "sendSweep"
    /\ Accepts(<<jobs[h].agent, jobs[h].ticket>>)
    /\ Recorded(jobs[h].agent, jobs[h].ticket)
    /\ Ends(h)
    /\ UNCHANGED <<linear, stores, active, replay, history>>

SweepFailed(h) ==
    /\ jobs[h].stage = "sendSweep"
    /\ FailsAfter(<<jobs[h].agent, jobs[h].ticket>>)
    /\ Ends(h)
    /\ UNCHANGED <<linear, stores, active, recorded, replay, history>>

-----------------------------------------------------------------------------
(* Time.                                                                    *)
LeaseExpires(a, k) ==
    /\ lease[<<a, k>>] # 0
    /\ lease' = [lease EXCEPT ![<<a, k>>] = 0]
    /\ UNCHANGED <<linear, idem, nudge, spawn, bag, active, recorded, gateway,
                   replay, jobs, history>>

(* A spawn claim passes its TTL, or the sweep of claims ends it; who still
   sends under it has lost it. *)
SpawnExpires(p) ==
    /\ spawn[p] # "free"
    /\ spawn' = [spawn EXCEPT ![p] = "free"]
    /\ jobs' = [h \in Handlers |->
                  IF jobs[h].claim # "none" /\ <<jobs[h].agent, jobs[h].ticket>> = p
                  THEN [jobs[h] EXCEPT !.claim = "lapsed"] ELSE jobs[h]]
    /\ UNCHANGED <<linear, idem, lease, nudge, bag, active, recorded, gateway,
                   replay, history>>

(* cleanupStale ends a claim that is past its timeout. *)
ClaimExpires(a, t) ==
    /\ t \in active[a]
    /\ active' = [active EXCEPT ![a] = @ \ {t}]
    /\ UNCHANGED <<linear, stores, recorded, gateway, replay, jobs, history>>

(* The connector restarts: handlers and claims are gone, the stores are not,
   and every agent with a bag is to be signaled. *)
Crash ==
    /\ crashes < MaxCrashes
    /\ crashes' = crashes + 1
    /\ jobs' = [h \in Handlers |-> Idle]
    /\ active' = [a \in Agents |-> {}]
    /\ replay' = {a \in Agents : bag[a] # {}}
    /\ UNCHANGED <<linear, stores, recorded, gateway, freshest>>

(* The startup replay takes its agents one after the other, but for those that
   have a session by now. *)
Replay(h, a) ==
    /\ jobs[h].stage = "idle"
    /\ \A g \in Handlers : jobs[g].after # "replay"
    /\ a \in replay
    /\ replay' = replay \ {a}
    /\ IF active[a] # {}
       THEN UNCHANGED jobs
       ELSE jobs' = [jobs EXCEPT ![h] = [Idle EXCEPT !.stage = "loop", !.agent = a,
                                             !.after = "replay", !.todo = bag[a]]]
    /\ UNCHANGED <<linear, stores, active, recorded, gateway, history>>

-----------------------------------------------------------------------------
Webhook(h) ==
    \/ \E e \in inbox : Receive(h, e)
    \/ Routed(h) \/ NotRouted(h) \/ Abort(h) \/ Admit(h)

Direct(h) == DirectReplays(h) \/ DirectStarts(h) \/ DirectSent(h) \/ DirectThrows(h)

Resignal(h) ==
    \/ \E t \in Tickets : NextTicket(h, t)
    \/ Prune(h) \/ Defer(h) \/ WakeReplays(h) \/ WakeStarts(h) \/ WakeAccepted(h) \/ WakeFailed(h)
    \/ LoopEnds(h)

SessionEnds(h) == (\E a \in Agents : SessionEnd(h, a)) \/ Drain(h)

Reconciles(h) ==
    \/ \E t \in Tickets : SweepReads(h, t)
    \/ SweepSkips(h) \/ Sweep(h) \/ SweepWake(h) \/ SweepAccepted(h) \/ SweepFailed(h)

Starts(h) == \E a \in Agents : Replay(h, a)

Time ==
    \/ \E a \in Agents, k \in LeaseKeys : LeaseExpires(a, k)
    \/ \E p \in Pairs : SpawnExpires(p)
    \/ \E a \in Agents, t \in Tickets : ClaimExpires(a, t)

World ==
    \/ \E t \in Tickets, a \in Agents, s \in States : Update(t, a, s)
    \/ \E t \in Tickets : Undelegate(t)
    \/ \E e \in inbox : Drop(e)
    \/ \E t \in Tickets : Bar(t)
    \/ \E a \in Agents, t \in Tickets : SessionFinishes(a, t)

Next ==
    \/ World \/ Time \/ Crash
    \/ \E h \in Handlers : Webhook(h) \/ Direct(h) \/ Resignal(h) \/ SessionEnds(h)
                           \/ Reconciles(h) \/ Starts(h)

Spec == Init /\ [][Next]_vars

(* The webhooks, callbacks and timers run as they come; whoever runs goes on
   until it is done, and time passes.  A lease is renewed while a session of the
   pair works, so only one without a session is sure to run out.  A gateway that
   is asked for ever takes a message some day, and the sweep, that comes back
   every few minutes, reaches every ticket that is not barred, also at a moment its
   lease is free.  Nothing says that a bar is ever lifted. *)
Continues(h) ==
    \/ Routed(h) \/ NotRouted(h) \/ Abort(h) \/ Admit(h)
    \/ Direct(h) \/ Resignal(h) \/ Drain(h) \/ SweepSkips(h) \/ Sweep(h) \/ SweepWake(h)
    \/ SweepAccepted(h) \/ SweepFailed(h)

Fairness ==
    /\ \A h \in Handlers :
         /\ WF_vars(Continues(h))
         /\ SF_vars(Sweep(h)) /\ SF_vars(SweepAccepted(h))
    /\ WF_vars(\E e \in inbox : Drop(e))
    /\ \A t \in Tickets : SF_vars(t \notin barred /\ \E h \in Handlers : SweepReads(h, t))
    /\ \A a \in Agents, t \in Tickets :
         /\ WF_vars(LeaseExpires(a, ReconciliationKey(t)))
         /\ WF_vars(<<a, t>> \notin session /\ LeaseExpires(a, SessionKey(t)))
         /\ WF_vars(ClaimExpires(a, t))
         /\ WF_vars(SessionFinishes(a, t))

FairSpec == Spec /\ Fairness

-----------------------------------------------------------------------------
(* Properties.                                                              *)

TypeOK ==
    /\ version \in [Tickets -> Versions]
    /\ owner \in [Tickets -> Agents \cup {NoAgent}]
    /\ inbox \subseteq Events
    /\ idem \subseteq Events
    /\ lease \in [Agents \X LeaseKeys -> Versions]
    /\ nudge \in [Pairs -> [primed : BOOLEAN, merged : BOOLEAN, backed : BOOLEAN]]
    /\ spawn \in [Pairs -> {"free", "pending", "live"}]
    /\ bag \in [Agents -> SUBSET Tickets]
    /\ active \in [Agents -> SUBSET Tickets]
    /\ recorded \in [Pairs -> Versions]
    /\ barred \subseteq Tickets
    /\ session \subseteq Pairs
    /\ callbacks \subseteq Agents
    /\ replay \subseteq Agents
    /\ jobs \in [Handlers -> Job]
    /\ freshest \in [Tickets -> Versions]
    /\ crashes \in 0 .. MaxCrashes

(* AI-1918: no event goes past the idempotency check and the lease once a newer
   one of its ticket has, whichever agent and state that one was for, unless a
   sweep has forgotten rows of the ticket in between. *)
FreshAdmission ==
    [][\A h \in Handlers :
         jobs[h].stage = "idle" /\ jobs'[h].stage = "routing" =>
           jobs'[h].at >= freshest[jobs'[h].ticket]]_vars

(* The claim a handler began is its own until the claim's TTL is over: of the
   handlers that send a message about one ticket to one agent, at most one does
   so under a claim it began (INF-1088: "Atomically reserve a run"). *)
OneSender ==
    \A g, h \in Handlers :
      /\ g # h
      /\ jobs[g].claim = "fresh" /\ jobs[h].claim = "fresh"
      => <<jobs[g].agent, jobs[g].ticket>> # <<jobs[h].agent, jobs[h].ticket>>

(* AI-1538: a dedup window swallows events only on account of one that reached
   the bag: the pair of a primed slot has had an admission since, or a handler
   of the pair has still to decide, unless a restart has cut it off. *)
WindowBacked ==
    \A p \in Pairs :
      nudge[p].primed /\ crashes = 0 =>
        \/ nudge[p].backed
        \/ \E h \in Handlers : jobs[h].stage = "liveness" /\ <<jobs[h].agent, jobs[h].ticket>> = p

(* AI-1807: whatever the guards swallowed, and whoever crashed, an agent that
   stays the delegate has a dispatch of the ticket on record in the end, unless the
   ticket is terminal or blocked or the wake policy refuses it.  The dispatch may be
   one of an earlier delegation to the same agent: the sweep does not tell. *)
DelegationDispatched ==
    \A a \in Agents, t \in Tickets :
      owner[t] = a ~> (recorded[<<a, t>>] # 0 \/ owner[t] # a \/ t \in barred)

=============================================================================
