---------------------------- MODULE WakeDispatch ----------------------------
(***************************************************************************)
(* The wake pipeline of the connector: the pending-work bag, the session   *)
(* tracker, resignalPendingTickets and every caller of it (the webhook     *)
(* tail, /session-end, the stale-session timer, startup replay and the     *)
(* dispatch watchdog), with the dispatch-ack rows they share.              *)
(*                                                                         *)
(* A job is one asynchronous call frame of the Node process.  JavaScript   *)
(* runs a turn to completion: a job between two awaits is at pc "next" and *)
(* no other action is enabled until it reaches its next await (or ends),   *)
(* so the interleavings are those of the awaits and no others.  An agent's *)
(* tickets are pairs <<agent, ticket>>; the order in which a loop visits   *)
(* them (updated_at DESC, insertion order) is left open.                   *)
(***************************************************************************)
EXTENDS Naturals, FiniteSets

CONSTANTS Agents,      \* agent names
          Tickets,     \* canonical session keys, linear-<TEAM>-<N>
          NoAgent,     \* a delegate that is no agent (nobody, or a human)
          Jobs,        \* asynchronous call frames alive at once
          Callers,     \* the callers of resignalPendingTickets in this instance
          MaxEvents,   \* bound: Linear changes in a behaviour
          MaxRestarts, \* bound: process crashes in a behaviour
          Cap,         \* agents' maxConcurrent; 0 means not set
          Governed,    \* tickets in a workflow state with a forward verb
          AssigneeFollows, \* delegating a ticket in Linear also assigns it
          MaxAttempts  \* GlobalRedispatchBudget.maxAttempts

AllCallers == {"webhook", "sessionEnd", "staleTimer", "replay", "watchdog"}

ASSUME CallersAssumption == Callers \subseteq AllCallers
ASSUME NoAgentAssumption == NoAgent \notin Agents
ASSUME LinearAssumption == Governed \subseteq Tickets /\ AssigneeFollows \in BOOLEAN
ASSUME BoundsAssumption ==
  /\ MaxEvents \in Nat /\ MaxRestarts \in Nat
  /\ Cap \in Nat /\ MaxAttempts \in Nat

Pairs == Agents \X Tickets
Of(a) == {a} \X Tickets             \* the pairs of an agent
For(t) == Agents \X {t}             \* the pairs of a ticket

VARIABLES
  bag,        \* durable pending_bag rows: the routing reason of each pair
  active,     \* SessionTracker.activeSessions
  aged,       \* those of them older than the session timeout
  queued,     \* SessionTracker.pendingSignals
  deferred,   \* NoActivityDetector.deferredAtCapacity
  ack,        \* durable dispatch_acks rows: ack_status of each pair; "none" and
              \* "pruned" are no row, "pruned" one that cleanup took
  budget,     \* durable global_redispatch_budget: attempt_count of each ticket
  pc,         \* where each job is suspended
  at,         \* the pair each job is working on
  ctx,        \* the local variables of each job
  owns,       \* history: jobs whose claim of at[j] nobody has ended since
  delegate,   \* Linear: the delegate of each ticket
  closed,     \* Linear: tickets in a terminal state
  inbox,      \* webhook events routed and past the dispatch guards
  events,     \* Linear changes so far
  running,    \* gateway: pairs with a live session
  callbacks,  \* gateway: agents whose session-end callback is on its way
  restarts,   \* process crashes so far
  owed        \* history: events admitted whose pair got no session since

tracker == <<active, aged, queued, deferred>>
stores  == <<bag, ack, budget>>
frames  == <<pc, at, ctx, owns>>
linear  == <<delegate, closed, inbox, events>>
gateway == <<running, callbacks>>
vars == <<tracker, stores, frames, linear, gateway, restarts, owed>>

NoPair == <<NoAgent, NoAgent>>

Reasons == {"absent", "unset", "delegate", "mention"}   \* "unset": NULL
AckStatus == {"none", "pruned", "pending", "unconfirmed", "acknowledged", "escalated"}
NoRow == {"none", "pruned"}
Open == {"pending", "unconfirmed"}
Settled == {"acknowledged", "escalated"}
Places == {"idle", "next", "check", "checked", "send", "deliver", "forensics",
           "examine", "backoff", "delay"}
Stages == {"own", "rearm", "drain", "hold", "recover", "agents", "replay",
          "last"}

Context ==
  [caller : AllCallers,
   stage  : Stages,          \* what the frame does once its loop is done
   todo   : SUBSET Pairs,    \* tickets its resignal loop has still to visit
   reason : Reasons,         \* routing reason of the ticket being woken
   answer : {"none", "actionable", "not", "failOpen"},  \* of the routing check
   track  : BOOLEAN,         \* onDispatched is ackTracker.recordDispatch
   agent  : Agents \cup {NoAgent},  \* the agent of the request
   pair   : Pairs \cup {NoPair},    \* the pair of the event or ack entry
   left   : SUBSET Pairs,    \* deferred tickets, stale sessions or agents left
   taken  : SUBSET Pairs,    \* pending signals handed over by the tracker
   holds  : SUBSET Pairs,    \* hold-retry candidates
   ended  : SUBSET Pairs,    \* sessions the callback ended
   rearmed : BOOLEAN]        \* capacityRearmedTickets is not empty

IdleContext ==
  [caller |-> "webhook", stage |-> "last", todo |-> {}, track |-> FALSE,
   reason |-> "absent", answer |-> "none",
   agent |-> NoAgent, pair |-> NoPair, left |-> {}, taken |-> {},
   holds |-> {}, ended |-> {}, rearmed |-> FALSE]

Event == [pair : Pairs, reason : {"delegate", "mention"}]

Rows(b, a) == {p \in Pairs : p[1] = a /\ b[p] # "absent"}
DelegateTo(p) == [pair |-> p, reason |-> "delegate"]
MentionOf(p) == [pair |-> p, reason |-> "mention"]
\* What is still owed once the pairs of S have a session.
OwedBut(S) == {e \in owed : e.pair \notin S}
InFlight(j) == pc[j] \in {"check", "checked", "send"}
\* No job is in the middle of a turn.
Quiet == \A j \in Jobs : pc[j] # "next"

TypeOK ==
  /\ bag \in [Pairs -> Reasons]
  /\ active \subseteq Pairs /\ aged \subseteq active
  /\ queued \subseteq Pairs /\ deferred \subseteq Pairs
  /\ ack \in [Pairs -> AckStatus]
  /\ budget \in [Tickets -> Nat]
  /\ pc \in [Jobs -> Places]
  /\ at \in [Jobs -> Pairs \cup {NoPair}]
  /\ ctx \in [Jobs -> Context]
  /\ owns \subseteq Jobs
  /\ delegate \in [Tickets -> Agents \cup {NoAgent}]
  /\ closed \subseteq Tickets
  /\ inbox \subseteq Event /\ events \in Nat
  /\ running \subseteq Pairs /\ callbacks \subseteq Agents
  /\ restarts \in Nat
  /\ owed \subseteq Event
-----------------------------------------------------------------------------
(* SessionTracker *)

\* Jobs whose claim survives when the tracker drops the entries of S.
Keep(S) == {j \in owns : at[j] \notin S}

\* endSession(agent, key): drops the entry; the signals the tracker returns
\* when it was the agent's last are handed to the caller.
EndSession(p) ==
  /\ active' = active \ {p}
  /\ aged' = aged \ {p}
  /\ owns' = Keep({p})
SignalsReturned(p) ==
  IF active \cap Of(p[1]) = {p} THEN queued \cap Of(p[1]) ELSE {}

\* cleanupStale: drops every aged entry, and hands over the signals of the
\* agents left with no session.
Drained == {p \in queued : /\ active \cap Of(p[1]) # {}
                           /\ active \cap Of(p[1]) \subseteq aged}
\* Mutants: the ages of dropped entries stay; stale entries are only reported.
CleanupStaleKeepsAges ==
  active' = active \ aged /\ UNCHANGED aged /\ queued' = queued \ Drained
CleanupStaleKeepsEntries == UNCHANGED <<active, aged>> /\ queued' = queued \ Drained
CleanupStale ==
  /\ active' = active \ aged
  /\ aged' = {}
  /\ queued' = queued \ Drained

(* Dispatch-ack rows and the re-dispatch budget *)
\* Mutant: no row is expected until a wake is sent.
EnsurePendingDropped(p) == ack
EnsurePending(p) ==
  [ack EXCEPT ![p] = IF @ \in NoRow THEN "pending" ELSE @]
RecordDispatch(p) ==
  [ack EXCEPT ![p] = IF @ = "unconfirmed" THEN @ ELSE "pending"]
Acknowledge(S) ==
  [p \in Pairs |-> IF p \in S /\ ack[p] \in Open THEN "acknowledged" ELSE ack[p]]
MarkIfPresent(p, status) ==
  [ack EXCEPT ![p] = IF @ \in NoRow THEN @ ELSE status]
\* cleanup, at the end of a watchdog cycle, deletes the settled rows older than
\* their TTL.  Any set of them may be that old, and none go before the last entry.
\* Mutant: the filter on ack_status is dropped.
PrunedWhatever(rows) ==
  {[p \in Pairs |-> IF p \notin S THEN rows[p]
                    ELSE IF rows[p] \in Settled THEN "pruned" ELSE "none"] :
     S \in SUBSET Pairs}
Pruned(rows) ==
  {[p \in Pairs |-> IF p \in S THEN "pruned" ELSE rows[p]] :
     S \in SUBSET {p \in Pairs : rows[p] \in Settled}}

\* The attempt count saturates above MaxAttempts: it is only compared with it.
Consume(t) ==
  [budget EXCEPT ![t] = IF @ > MaxAttempts THEN @ ELSE @ + 1]
\* A recorded dispatch is a fresh one: onFreshDispatch clears its ticket's count.
ResetBudget(t) == [budget EXCEPT ![t] = 0]
-----------------------------------------------------------------------------
(* Linear, as the connector sees it *)

Delegate(t, a) ==
  /\ Quiet /\ events < MaxEvents
  /\ t \notin closed /\ delegate[t] # a
  /\ delegate' = [delegate EXCEPT ![t] = a]
  /\ inbox' = inbox \cup
       (IF a \in Agents THEN {[pair |-> <<a, t>>, reason |-> "delegate"]} ELSE {})
  /\ events' = events + 1
  /\ owed' = owed \ {DelegateTo(p) : p \in For(t) \ {<<a, t>>}}
  /\ UNCHANGED <<tracker, stores, frames, closed, gateway, restarts>>

Mention(t, a) ==
  /\ Quiet /\ events < MaxEvents
  /\ t \notin closed
  /\ inbox' = inbox \cup {[pair |-> <<a, t>>, reason |-> "mention"]}
  /\ events' = events + 1
  /\ UNCHANGED <<tracker, stores, frames, delegate, closed, gateway, restarts, owed>>

\* The issue turns terminal.
Close(t) ==
  /\ Quiet /\ events < MaxEvents /\ t \notin closed
  /\ closed' = closed \cup {t}
  /\ events' = events + 1
  /\ owed' = OwedBut(For(t))
  /\ UNCHANGED <<tracker, stores, frames, delegate, inbox, gateway, restarts>>

\* The terminal event's webhook prunes the bag and the queue.
TerminalEvent(t) ==
  /\ Quiet /\ t \in closed
  /\ bag' = [p \in Pairs |-> IF p \in For(t) THEN "absent" ELSE bag[p]]
  /\ queued' = queued \ For(t)
  /\ UNCHANGED <<active, aged, deferred, ack, budget, frames, linear, gateway,
                 restarts, owed>>

\* The dispatch guards (idempotency, lease, nudge, routing check) stop a route.
Suppress(e) ==
  /\ Quiet /\ e \in inbox
  /\ inbox' = inbox \ {e}
  /\ UNCHANGED <<tracker, stores, frames, delegate, closed, events, gateway,
                 restarts, owed>>

(* The gateway *)

\* A session ends; the plugin posts /session-end, or the callback is lost.
SessionFinishes(p) ==
  /\ Quiet /\ p \in running
  /\ running' = running \ {p}
  /\ \/ "sessionEnd" \in Callers /\ callbacks' = callbacks \cup {p[1]}
     \/ UNCHANGED callbacks
  /\ UNCHANGED <<tracker, stores, frames, linear, restarts, owed>>

\* The agent calls the proxy for its ticket: recordProxyActivity.
ProxyActivity(p) ==
  /\ Quiet /\ p \in running /\ ack[p] \in Open
  /\ ack' = Acknowledge({p})
  /\ budget' = ResetBudget(p[2])
  /\ UNCHANGED <<tracker, bag, frames, linear, gateway, restarts, owed>>

\* A claim grows older than SESSION_TIMEOUT_MS.  A wake still in flight is
\* bounded by its request timeouts, which are far shorter.
Age(p) ==
  /\ Quiet /\ p \in active \ aged
  /\ \A j \in Jobs : InFlight(j) => at[j] # p
  /\ aged' = aged \cup {p}
  /\ UNCHANGED <<active, queued, deferred, stores, frames, linear, gateway,
                 restarts, owed>>
-----------------------------------------------------------------------------
(* The callers start a job *)

Start(j, c) ==
  /\ pc' = [pc EXCEPT ![j] = "next"]
  /\ ctx' = [ctx EXCEPT ![j] = c]
  /\ UNCHANGED at

\* dispatchRoute, from the bag to its first await: record the ticket, purge the
\* previous holders, refuse admission at capacity, register the expected ack,
\* and expire stale sessions.
BagWith(e) ==
  [p \in Pairs |->
     IF p = e.pair THEN e.reason
     ELSE IF e.reason = "delegate" /\ p \in For(e.pair[2]) THEN "absent"
     ELSE bag[p]]
AtCapacity(a) == Cap > 0 /\ Cardinality(active \cap Of(a)) >= Cap
NowOwed(e) ==
  IF /\ e.reason = "delegate" => delegate[e.pair[2]] = e.pair[1]
     /\ e.pair[2] \notin closed /\ e.pair \notin running
  THEN {e} ELSE {}

AdmitDeferred(e) ==
  /\ Quiet /\ e \in inbox /\ AtCapacity(e.pair[1])
  /\ inbox' = inbox \ {e}
  /\ bag' = BagWith(e)
  /\ deferred' = deferred \cup {e.pair}
  /\ owed' = owed \cup NowOwed(e)
  /\ UNCHANGED <<active, aged, queued, ack, budget, frames, delegate, closed,
                 events, gateway, restarts>>

Admit(j, e) ==
  /\ Quiet /\ pc[j] = "idle" /\ e \in inbox /\ ~AtCapacity(e.pair[1])
  /\ inbox' = inbox \ {e}
  /\ bag' = BagWith(e)
  /\ ack' = EnsurePending(e.pair)
  /\ CleanupStale
  /\ owns' = Keep(aged)
  /\ Start(j, [IdleContext EXCEPT !.stage = "own", !.track = TRUE,
                 !.agent = e.pair[1], !.pair = e.pair, !.todo = Drained])
  /\ owed' = owed \cup NowOwed(e)
  /\ UNCHANGED <<deferred, budget, delegate, closed, events, gateway, restarts>>

\* POST /session-end up to the first await: ends every session of the agent.
SessionEnd(j, a) ==
  /\ Quiet /\ pc[j] = "idle" /\ a \in callbacks
  /\ callbacks' = callbacks \ {a}
  /\ LET ended == active \cap Of(a)
         taken == IF ended = {} THEN {} ELSE queued \cap Of(a)
     IN /\ active' = active \ ended
        /\ aged' = aged \ ended
        /\ queued' = queued \ taken
        /\ owns' = Keep(ended)
        /\ \E holds \in SUBSET {p \in ended : ack[p] \in Open} :
             Start(j, [IdleContext EXCEPT !.caller = "sessionEnd",
                         !.stage = "rearm", !.agent = a,
                         !.left = deferred \cap Of(a), !.taken = taken,
                         !.holds = holds, !.ended = ended])
  /\ UNCHANGED <<deferred, stores, linear, running, restarts, owed>>

\* The tracker's interval timer: cleanupStale, then processStaleSession.
StaleTimer(j) ==
  /\ "staleTimer" \in Callers
  /\ Quiet /\ pc[j] = "idle" /\ aged # {}
  /\ CleanupStale
  /\ owns' = Keep(aged)
  /\ Start(j, [IdleContext EXCEPT !.caller = "staleTimer", !.stage = "recover",
                 !.left = aged, !.taken = Drained])
  /\ UNCHANGED <<deferred, stores, linear, gateway, restarts, owed>>

\* An entry of the watchdog's cycle, read when the cycle started.
WatchdogCycle(j, p) ==
  /\ "watchdog" \in Callers
  /\ Quiet /\ pc[j] = "idle" /\ ack[p] \in Open
  /\ pc' = [pc EXCEPT ![j] = "examine"]
  /\ at' = [at EXCEPT ![j] = p]
  /\ ctx' = [ctx EXCEPT ![j] = [IdleContext EXCEPT !.caller = "watchdog",
                                  !.agent = p[1], !.pair = p]]
  /\ UNCHANGED <<tracker, stores, owns, linear, gateway, restarts, owed>>

\* The process dies and starts again: memory is lost, the stores survive, a
\* webhook being processed is not redelivered, and startup replay begins.
Restart(j) ==
  /\ Quiet /\ "replay" \in Callers /\ restarts < MaxRestarts
  /\ restarts' = restarts + 1
  /\ active' = {} /\ aged' = {} /\ queued' = {} /\ deferred' = {}
  /\ owns' = {}
  /\ at' = [i \in Jobs |-> NoPair]
  /\ pc' = [i \in Jobs |-> IF i = j THEN "next" ELSE "idle"]
  /\ ctx' = [i \in Jobs |->
       IF i = j THEN [IdleContext EXCEPT !.caller = "replay", !.stage = "agents",
                        !.track = TRUE, !.left = {p \in Pairs : bag[p] # "absent"}]
       ELSE IdleContext]
  /\ inbox' \in SUBSET inbox /\ callbacks' \in SUBSET callbacks
  /\ UNCHANGED <<stores, delegate, closed, events, running, owed>>
-----------------------------------------------------------------------------
(* A turn of a job.  Between awaits the job is at "next": it visits the     *)
(* tickets of its loop, then goes on with the stage that follows it.        *)

Go(j, place, c) ==
  /\ pc' = [pc EXCEPT ![j] = place]
  /\ ctx' = [ctx EXCEPT ![j] = c]

\* Mutant: the active-session check is dropped.
WakeableTwice(j) == {p \in ctx[j].todo : ack[p] # "escalated"}
\* Tickets the loop would wake: no active session, not escalated.
Wakeable(j) == {p \in ctx[j].todo : p \notin active /\ ack[p] # "escalated"}

\* Mutant: the session is registered once the wake has been sent.
ClaimNextUnregistered(j) ==
  /\ pc[j] = "next"
  /\ \E p \in Wakeable(j) : \E skipped \in SUBSET (ctx[j].todo \ Wakeable(j)) :
       /\ owns' = owns \cup {j}
       /\ at' = [at EXCEPT ![j] = p]
       /\ Go(j, "check", [ctx[j] EXCEPT !.todo = @ \ (skipped \cup {p}),
                                         !.reason = bag[p]])
  /\ UNCHANGED <<active, aged, queued, deferred, stores, linear, gateway, restarts, owed>>
\* startSession: the claim, taken before the first await.
ClaimNext(j) ==
  /\ pc[j] = "next"
  /\ \E p \in Wakeable(j) : \E skipped \in SUBSET (ctx[j].todo \ Wakeable(j)) :
       /\ active' = active \cup {p}
       /\ owns' = owns \cup {j}
       /\ at' = [at EXCEPT ![j] = p]
       /\ Go(j, "check", [ctx[j] EXCEPT !.todo = @ \ (skipped \cup {p}),
                                         !.reason = bag[p]])
  /\ UNCHANGED <<aged, queued, deferred, stores, linear, gateway, restarts, owed>>

\* Nothing left to wake: the loop returns.
LoopReturns(j) ==
  /\ pc[j] = "next" /\ ctx[j].todo # {} /\ Wakeable(j) = {}
  /\ Go(j, "next", [ctx[j] EXCEPT !.todo = {}])
  /\ UNCHANGED <<tracker, stores, at, owns, linear, gateway, restarts, owed>>

Resumes(j, stage) ==
  pc[j] = "next" /\ ctx[j].todo = {} /\ ctx[j].stage = stage

\* The same ticket already has a session: deliver into it, else wake the
\* agent for every ticket in its bag.
OwnTicket(j) ==
  /\ Resumes(j, "own")
  /\ LET p == ctx[j].pair IN
       IF p \in active
       THEN /\ at' = [at EXCEPT ![j] = p]
            /\ Go(j, "deliver", [ctx[j] EXCEPT !.stage = "last"])
       ELSE /\ Go(j, "next", [ctx[j] EXCEPT !.stage = "last",
                                !.todo = Rows(bag, ctx[j].agent)])
            /\ UNCHANGED at
  /\ UNCHANGED <<tracker, stores, owns, linear, gateway, restarts, owed>>

\* deliverWithSlot resolved.  Its result, delivered or refused, is not looked at.
SameTicketReturns(j) ==
  /\ Quiet /\ pc[j] = "deliver"
  /\ bag' = [bag EXCEPT ![at[j]] = "absent"]
  /\ running' \in {running, running \cup {at[j]}}
  /\ owed' = OwedBut(running' \ running)
  /\ at' = [at EXCEPT ![j] = NoPair]
  /\ Go(j, "idle", IdleContext)
  /\ UNCHANGED <<tracker, ack, budget, owns, linear, callbacks, restarts>>

SameTicketThrows(j) ==
  /\ Quiet /\ pc[j] = "deliver"
  /\ queued' = queued \cup {at[j]}
  /\ at' = [at EXCEPT ![j] = NoPair]
  /\ Go(j, "idle", IdleContext)
  /\ UNCHANGED <<active, aged, deferred, stores, owns, linear, gateway, restarts,
                 owed>>

\* The frame ends; the watchdog's may have been the last entry of its cycle.
Finish(j) ==
  /\ Resumes(j, "last")
  /\ Go(j, "idle", IdleContext)
  /\ ack' \in IF ctx[j].caller = "watchdog" THEN Pruned(ack) ELSE {ack}
  /\ UNCHANGED <<tracker, bag, budget, at, owns, linear, gateway, restarts, owed>>

\* checkDeferredOnSessionEnd: one deferred ticket, while a slot is free.
Rearm(j) ==
  /\ Resumes(j, "rearm") /\ ctx[j].left # {} /\ ~AtCapacity(ctx[j].agent)
  /\ \E p \in ctx[j].left :
       /\ deferred' = deferred \ {p}
       /\ EndSession(p)
       /\ queued' = queued \ SignalsReturned(p)
       /\ bag' = [bag EXCEPT ![p] = IF @ = "absent" THEN "unset" ELSE @]
       /\ Go(j, "next", [ctx[j] EXCEPT !.left = @ \ {p}, !.todo = {p}])
  /\ UNCHANGED <<ack, budget, at, linear, gateway, restarts, owed>>

RearmReturns(j) ==
  /\ Resumes(j, "rearm")
  /\ ctx[j].left = {} \/ AtCapacity(ctx[j].agent)
  /\ Go(j, "next", [ctx[j] EXCEPT !.stage = "drain", !.left = {}])
  /\ UNCHANGED <<tracker, stores, at, owns, linear, gateway, restarts, owed>>

\* The rest of /session-end: acknowledge the agent's dispatches, empty its bag,
\* and re-signal what was queued or in the bag unless a ticket was re-armed.
Drain(j) ==
  /\ Resumes(j, "drain")
  /\ LET a == ctx[j].agent
         bagTickets == Rows(bag, a) \ ctx[j].ended
         regular == ctx[j].taken \cup bagTickets
         holds == IF ctx[j].rearmed THEN {} ELSE ctx[j].holds \ regular
     IN /\ ack' = Acknowledge(Of(a))
        /\ bag' = IF bagTickets = {} THEN bag
                  ELSE [p \in Pairs |-> IF p \in Of(a) THEN "absent" ELSE bag[p]]
        /\ Go(j, "next", [ctx[j] EXCEPT !.stage = "hold", !.holds = holds,
                            !.todo = IF ctx[j].rearmed THEN {} ELSE regular])
  /\ UNCHANGED <<tracker, budget, at, owns, linear, gateway, restarts, owed>>

HoldRetry(j) ==
  /\ Resumes(j, "hold")
  /\ Go(j, "next", [ctx[j] EXCEPT !.stage = "last", !.todo = ctx[j].holds,
                      !.track = TRUE])
  /\ UNCHANGED <<tracker, stores, at, owns, linear, gateway, restarts, owed>>

\* processStaleSession: forensics on one stale session.
Forensics(j) ==
  /\ Resumes(j, "recover")
  /\ IF ctx[j].left = {}
     THEN Go(j, "idle", IdleContext) /\ UNCHANGED at
     ELSE \E p \in ctx[j].left :
            /\ at' = [at EXCEPT ![j] = p]
            /\ Go(j, "forensics", [ctx[j] EXCEPT !.left = @ \ {p}])
  /\ UNCHANGED <<tracker, stores, owns, linear, gateway, restarts, owed>>

\* The pair is left alone or commented on (C2 and C4 count as an attempt), is
\* escalated (C5, C6), or the agent is re-poked (C4), which is recorded as a
\* dispatch unless its answer was lost.  After an agent's last stale session its
\* queued signals are re-signaled, unless processing it threw.
Recovered(j) ==
  /\ Quiet /\ pc[j] = "forensics"
  /\ LET p == at[j] IN
       \/ budget' \in {budget, Consume(p[2])} /\ UNCHANGED <<ack, running>>
       \/ ack' = MarkIfPresent(p, "escalated") /\ UNCHANGED <<budget, running>>
       \/ /\ running' = running \cup {p}
          /\ \/ ack' = RecordDispatch(p) /\ budget' = ResetBudget(p[2])
             \/ UNCHANGED ack /\ budget' = Consume(p[2])
  /\ owed' = OwedBut(running')
  /\ at' = [at EXCEPT ![j] = NoPair]
  /\ \/ Go(j, "next", ctx[j])
     \/ /\ ctx[j].left \cap Of(at[j][1]) = {}
        /\ Go(j, "next", [ctx[j] EXCEPT !.todo = ctx[j].taken \cap Of(at[j][1])])
  /\ UNCHANGED <<tracker, bag, owns, linear, callbacks, restarts>>

\* replayPendingBag: the next agent with work and no session; agents that have a
\* session by now are skipped.
ReplayReady(j) ==
  {p[1] : p \in {q \in ctx[j].left : active \cap Of(q[1]) = {} /\ Rows(bag, q[1]) # {}}}
ReplayAgent(j) ==
  /\ Resumes(j, "agents")
  /\ \/ ReplayReady(j) = {} /\ Go(j, "idle", IdleContext)
     \/ \E a \in ReplayReady(j) :
        \E skipped \in SUBSET {p \in ctx[j].left : p[1] \notin ReplayReady(j)} :
          Go(j, "next", [ctx[j] EXCEPT !.stage = "replay", !.todo = Rows(bag, a),
                                       !.left = (@ \ Of(a)) \ skipped])
  /\ UNCHANGED <<tracker, stores, at, owns, linear, gateway, restarts, owed>>

\* The delay between two agents.
ReplayReturns(j) ==
  /\ Resumes(j, "replay")
  /\ IF ctx[j].left = {} THEN Go(j, "idle", IdleContext) ELSE Go(j, "delay", ctx[j])
  /\ UNCHANGED <<tracker, stores, at, owns, linear, gateway, restarts, owed>>

DelayOver(j) ==
  /\ Quiet /\ pc[j] = "delay"
  /\ Go(j, "next", [ctx[j] EXCEPT !.stage = "agents"])
  /\ UNCHANGED <<tracker, stores, at, owns, linear, gateway, restarts, owed>>
-----------------------------------------------------------------------------
(* One wake: the actionability check, then the send *)

\* checkLinearIssueRouting, when Linear answers.
Actionable(p, reason) ==
  /\ p[2] \notin closed
  /\ reason = "mention" \/ delegate[p[2]] = p[1]

Pass(j) == Go(j, "next", [ctx[j] EXCEPT !.reason = "absent", !.answer = "none"])
           /\ at' = [at EXCEPT ![j] = NoPair]

\* Linear answers, or fails to; the answer is used a round trip later.
Check(j) ==
  /\ Quiet /\ pc[j] = "check"
  /\ \E answer \in {"failOpen",
                    IF Actionable(at[j], ctx[j].reason) THEN "actionable" ELSE "not"} :
       Go(j, "checked", [ctx[j] EXCEPT !.answer = answer])
  /\ UNCHANGED <<tracker, stores, at, owns, linear, gateway, restarts, owed>>

Deferring(j) == ctx[j].answer = "failOpen" /\ ctx[j].caller = "replay"

CheckOk(j) ==
  /\ Quiet /\ pc[j] = "checked" /\ ctx[j].answer # "not" /\ ~Deferring(j)
  /\ Go(j, "send", [ctx[j] EXCEPT !.answer = "none"])
  /\ UNCHANGED <<tracker, stores, at, owns, linear, gateway, restarts, owed>>

CheckPrune(j) ==
  /\ Quiet /\ pc[j] = "checked" /\ ctx[j].answer = "not"
  /\ LET p == at[j] IN
       /\ EndSession(p)
       /\ bag' = [bag EXCEPT ![p] = "absent"]
       /\ queued' = queued \ (SignalsReturned(p) \cup {p})
       /\ ack' = IF ctx[j].caller = "watchdog" THEN Acknowledge({p}) ELSE ack
  /\ Pass(j)
  /\ UNCHANGED <<deferred, budget, linear, gateway, restarts, owed>>

\* failOpenBehavior "defer": the ticket stays in the bag for the next start.
CheckDefer(j) ==
  /\ Quiet /\ pc[j] = "checked" /\ Deferring(j)
  /\ EndSession(at[j])
  /\ queued' = queued \ SignalsReturned(at[j])
  /\ Pass(j)
  /\ UNCHANGED <<deferred, stores, linear, gateway, restarts, owed>>

\* sendWakeUp resolved: delivered, or an idempotent replay of an earlier wake.
\* Without a runId the phantom guard releases the claim, on the webhook path.  Every
\* other caller delivers through the acknowledged scheduler, which records what it
\* delivered as a dispatch; the webhook path and hold retries record it themselves.
SendAccepted(j, runId) ==
  /\ Quiet /\ pc[j] = "send"
  /\ LET p == at[j] IN
       /\ running' \in {running, running \cup {p}}
       /\ owed' = OwedBut(running')
       /\ IF runId \/ ctx[j].caller # "webhook"
          THEN owns' = owns \ {j} /\ UNCHANGED <<active, aged, queued>>
          ELSE EndSession(p) /\ queued' = queued \ SignalsReturned(p)
       /\ \E delivered \in {ctx[j].track, ctx[j].track \/ ctx[j].caller # "webhook"} :
            /\ budget' = IF delivered THEN ResetBudget(p[2]) ELSE budget
            /\ ack' = IF ctx[j].caller = "watchdog" THEN MarkIfPresent(p, "unconfirmed")
                      ELSE IF delivered THEN RecordDispatch(p) ELSE ack
  /\ Go(j, "next", [ctx[j] EXCEPT !.reason = "absent",
                      !.rearmed = @ \/ ctx[j].stage = "rearm"])
  /\ at' = [at EXCEPT ![j] = NoPair]
  /\ UNCHANGED <<deferred, bag, linear, callbacks, restarts>>

\* sendWakeUp threw; the gateway may have started the session all the same.
SendFailed(j) ==
  /\ Quiet /\ pc[j] = "send"
  /\ running' \in {running, running \cup {at[j]}}
  /\ owed' = OwedBut(running')
  /\ owns' = owns \ {j}
  /\ Pass(j)
  /\ UNCHANGED <<tracker, stores, linear, callbacks, restarts>>
-----------------------------------------------------------------------------
(* The dispatch watchdog, on one overdue entry; after the last one it prunes *)

Assignee(t) == IF AssigneeFollows THEN delegate[t] ELSE NoAgent

\* linearResolveCheck: false when no token could read the issue, which an
\* unreachable Linear causes too.
Unresolved(j) ==
  /\ ack' \in Pruned(MarkIfPresent(at[j], "escalated"))
  /\ Go(j, "idle", IdleContext)
  /\ at' = [at EXCEPT ![j] = NoPair]
  /\ UNCHANGED <<tracker, bag, budget, owns>>

\* delegateCheck reads the issue's assignee; workflowStateCheck its state label.
SkipsEntry(j) ==
  /\ Assignee(at[j][2]) # at[j][1] \/ at[j][2] \notin Governed
  /\ ack' \in Pruned(ack)
  /\ Go(j, "idle", IdleContext)
  /\ at' = [at EXCEPT ![j] = NoPair]
  /\ UNCHANGED <<tracker, bag, budget, owns>>

\* Mutant: the entry is given up without a mark.
ExhaustedSilently(j) ==
  /\ budget' = Consume(at[j][2])
  /\ budget'[at[j][2]] > MaxAttempts
  /\ Go(j, "idle", IdleContext)
  /\ at' = [at EXCEPT ![j] = NoPair]
  /\ UNCHANGED <<tracker, bag, ack, owns>>
Exhausted(j) ==
  /\ budget' = Consume(at[j][2])
  /\ budget'[at[j][2]] > MaxAttempts
  /\ ack' \in Pruned(MarkIfPresent(at[j], "escalated"))
  /\ Go(j, "idle", IdleContext)
  /\ at' = [at EXCEPT ![j] = NoPair]
  /\ UNCHANGED <<tracker, bag, owns>>

Redrives(j) ==
  /\ LET p == at[j] IN
       /\ budget' = Consume(p[2])
       /\ budget'[p[2]] <= MaxAttempts
       /\ EndSession(p)
       /\ queued' = queued \ SignalsReturned(p)
       /\ bag' = [bag EXCEPT ![p] = IF @ = "absent" THEN "unset" ELSE @]
       /\ at' = [at EXCEPT ![j] = NoPair]
       /\ Go(j, "backoff", [ctx[j] EXCEPT !.todo = {p}])
  /\ UNCHANGED <<deferred, ack>>

Examine(j) ==
  /\ Quiet /\ pc[j] = "examine"
  /\ Unresolved(j) \/ SkipsEntry(j) \/ Exhausted(j) \/ Redrives(j)
  /\ UNCHANGED <<linear, gateway, restarts, owed>>

BackoffOver(j) ==
  /\ Quiet /\ pc[j] = "backoff"
  /\ Go(j, "next", ctx[j])
  /\ UNCHANGED <<tracker, stores, at, owns, linear, gateway, restarts, owed>>
-----------------------------------------------------------------------------
Init ==
  /\ bag = [p \in Pairs |-> "absent"]
  /\ active = {} /\ aged = {} /\ queued = {} /\ deferred = {}
  /\ ack = [p \in Pairs |-> "none"]
  /\ budget = [t \in Tickets |-> 0]
  /\ pc = [j \in Jobs |-> "idle"]
  /\ at = [j \in Jobs |-> NoPair]
  /\ ctx = [j \in Jobs |-> IdleContext]
  /\ owns = {}
  /\ delegate = [t \in Tickets |-> NoAgent]
  /\ closed = {} /\ inbox = {} /\ events = 0
  /\ running = {} /\ callbacks = {}
  /\ restarts = 0
  /\ owed = {}

Environment ==
  \/ \E t \in Tickets : \E a \in Agents \cup {NoAgent} : Delegate(t, a)
  \/ \E t \in Tickets : \E a \in Agents : Mention(t, a)
  \/ \E t \in Tickets : Close(t)
  \/ \E p \in Pairs : SessionFinishes(p) \/ ProxyActivity(p) \/ Age(p)
  \/ \E e \in inbox : Suppress(e)

\* Steps that start a frame, or are a whole handler.
Trigger ==
  \/ \E t \in Tickets : TerminalEvent(t)
  \/ \E e \in inbox : AdmitDeferred(e)
  \/ \E j \in Jobs :
       \/ \E e \in inbox : Admit(j, e)
       \/ \E a \in Agents : SessionEnd(j, a)
       \/ StaleTimer(j)
       \/ \E p \in Pairs : WatchdogCycle(j, p)
       \/ Restart(j)

Turn(j) ==
  \/ ClaimNext(j) \/ LoopReturns(j) \/ OwnTicket(j) \/ Finish(j)
  \/ Rearm(j) \/ RearmReturns(j) \/ Drain(j) \/ HoldRetry(j)
  \/ Forensics(j) \/ ReplayAgent(j) \/ ReplayReturns(j)

\* An await of a job settles.
Settle(j) ==
  \/ SameTicketReturns(j) \/ SameTicketThrows(j)
  \/ Recovered(j) \/ DelayOver(j)
  \/ Check(j) \/ CheckOk(j) \/ CheckPrune(j) \/ CheckDefer(j)
  \/ (\E runId \in BOOLEAN : SendAccepted(j, runId)) \/ SendFailed(j)
  \/ Examine(j) \/ BackoffOver(j)

Next == Environment \/ Trigger \/ \E j \in Jobs : Turn(j) \/ Settle(j)

Spec == Init /\ [][Next]_vars

\* Awaits settle (every request has a timeout), timers and the watchdog's cycle
\* always get a frame of their own, and claims grow old.
Fairness ==
  /\ \A j \in Jobs : WF_vars(Turn(j)) /\ WF_vars(Settle(j))
  /\ SF_vars(\E j \in Jobs : StaleTimer(j))
  /\ \A p \in Pairs : WF_vars(Age(p)) /\ SF_vars(\E j \in Jobs : WatchdogCycle(j, p))
FairSpec == Spec /\ Fairness
-----------------------------------------------------------------------------
(* Properties *)

\* One wake, one session (resignal.ts 107-115): a claim that nobody has ended
\* since it was made is in the tracker, and is the only such claim of its pair,
\* however the callers that end claims interleave with those that make them.
UniqueClaimant ==
  /\ \A j \in owns : InFlight(j) /\ at[j] \in active
  /\ \A i, j \in owns : at[i] = at[j] => i = j

\* The tracker implements SessionClaims: a pair that has a claim passes to another
\* wake only through an end of the claim, and a wake that lost its claim never
\* gets it back.
Wakes == {<<j, at[j]>> : j \in owns}
Claims == INSTANCE SessionClaims WITH taken <- active, wake <- Wakes
ImplementsClaims == Claims!Spec

\* Two jobs are never between the claim and the end of the send of one pair.
\* Holds while only the webhook, the stale timer and startup replay run.
OneWakeInFlight ==
  \A i, j \in Jobs : InFlight(i) /\ InFlight(j) /\ at[i] = at[j] => i = j

\* Where the connector still remembers a pair it has to wake.
Remembered(p) ==
  \/ bag[p] # "absent" \/ p \in queued \/ p \in deferred
  \/ ack[p] \in Open \cup {"escalated"}
  \/ \E j \in Jobs : \/ pc[j] # "idle" /\ at[j] = p
                     \/ p \in ctx[j].todo \cup ctx[j].left \cup ctx[j].taken

\* Admitted delegated work is forgotten only once its ack row was settled: until
\* it is acknowledged, or cleanup has pruned the acknowledged or escalated row, the
\* bag, the queue, a job or the watchdog's row has it.  An escalated dispatch is
\* thus remembered for the row's TTL and no longer.
\* Holds for an agent without a capacity; one with a capacity may be forgotten when
\* a /session-end or a restart empties deferredAtCapacity (see README).
ForgottenOnlyIfSettled ==
  \A p \in Pairs :
    DelegateTo(p) \in owed /\ ~Remembered(p) => ack[p] \in {"acknowledged", "pruned"}

\* A claim with no session behind it does not suppress wakes for ever.
PhantomClaimsExpire ==
  \A p \in Pairs : (p \in active /\ p \notin running) ~>
                   (p \notin active \/ p \in running)

\* A delegated ticket whose delivery was swallowed does not stay pending: it is
\* confirmed, re-signaled or escalated, unless the delegation goes away.
SwallowedDeliveryHeals ==
  \A p \in Pairs : (ack[p] = "pending" /\ DelegateTo(p) \in owed) ~>
                   (ack[p] # "pending" \/ DelegateTo(p) \notin owed)

=============================================================================
