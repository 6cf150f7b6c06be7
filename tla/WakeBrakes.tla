------------------------------ MODULE WakeBrakes ------------------------------
(***************************************************************************)
(* The brakes on automatic wakes, for one agent and one governed ticket    *)
(* that keeps being woken: the attempts of the GlobalRedispatchBudget, the *)
(* delivery failures of its dispatch_acks row, and the state labels of its *)
(* circuit breaker, with the four callers that press or release them: the  *)
(* no-activity detector, the dispatch watchdog, the stale-session recovery *)
(* and the webhook.  WakeDispatch has the claims, bags and queues of many  *)
(* pairs; here a claim is a flag, and what the bag adds to a wake is left  *)
(* out.  Time is not measured: a row may be overdue, a claim past its      *)
(* timeout, a run expired and a closed row old enough to go at any moment; *)
(* and the ticket may show any of its labels, or none, whenever it is read *)
(***************************************************************************)
EXTENDS Naturals, Sequences

CONSTANTS
    Frames,       \* asynchronous call frames alive at once
    Serves,       \* the callers that run on each frame in this instance
    Labels,       \* state labels of the ticket
    None,         \* no state label
    MaxAttempts,  \* GlobalRedispatchBudget.maxAttempts
    MaxFailures,  \* WATCHDOG_MAX_DELIVERY_FAILURES
    MaxWakes, MaxRevisits,   \* the caps of the circuit breaker
    Watched,      \* the watchdog's delegate and workflow checks pass while delegated
    Quota         \* bound: webhook events and restarts

Callers == {"detector", "watchdog", "staleTimer", "webhook"}

ASSUME BrakeConstants ==
    /\ None \notin Labels
    /\ Serves \in [Frames -> SUBSET Callers]
    /\ MaxAttempts \in Nat \ {0} /\ MaxFailures \in Nat \ {0}
    /\ MaxWakes \in Nat \ {0} /\ MaxRevisits \in Nat \ {0}
    /\ Watched \in BOOLEAN /\ Quota \in Nat

VARIABLES
    row,      \* dispatch_acks: the pair's status and failure streak
    count,    \* global_redispatch_budget: attempt_count of the ticket
    breaker,  \* DispatchCircuitBreaker: the ticket's state
    claim,    \* SessionTracker.activeSessions has the pair
    spawn,    \* SessionSpawnIdempotencyStore: the ticket's run
    session,  \* gateway: a session runs
    mine,     \* Linear: the agent is the ticket's delegate
    frame,    \* what each call frame is doing
    used,     \* quota used so far
    trail     \* history: labels of the re-pokes let out since the breaker was reset

vars == <<row, count, breaker, claim, spawn, session, mine, frame, used, trail>>

Status == {"none", "pending", "unconfirmed", "acknowledged", "escalated"}
Open   == row.status \in {"pending", "unconfirmed"}

Places == {"idle", "sweep", "recheck", "verify", "backoff", "check", "deliver",
           "read", "issue", "recipient", "repoke", "route", "direct"}

(* The recovery's verdict on a stale session: wake it in place whoever owns it,
   wake it while the agent does, hand it to a human, escalate it, nothing. *)
Verdicts == {"", "always", "owned", "human", "escalate", "nothing"}

Idle == [pc |-> "idle", by |-> "", failures |-> 0, verdict |-> ""]

Unknown == [seen |-> {}, last |-> None, wakes |-> 0, revisits |-> 0, tripped |-> FALSE]

(* A start may find an open row and a run that an earlier life left in its stores. *)
Init ==
    /\ row \in [status : {"none", "pending"}, failures : {0}]
    /\ count = 0
    /\ breaker = Unknown
    /\ claim = FALSE /\ spawn \in {"free", "pending"}
    /\ session = FALSE /\ mine = TRUE
    /\ frame = [f \in Frames |-> Idle]
    /\ used = 0 /\ trail = <<>>

Free(f, by) == frame[f].pc = "idle" /\ by \in Serves[f]
Calls(f, by, pc) == frame' = [frame EXCEPT ![f] = [Idle EXCEPT !.pc = pc, !.by = by]]

(* The next await of f, the rest of its record as it is. *)
Awaits(f, pc) == frame' = [frame EXCEPT ![f].pc = pc]
Ends(f) == frame' = [frame EXCEPT ![f] = Idle]

-----------------------------------------------------------------------------
(* The stores.                                                             *)

Upto(n, max) == IF n < max THEN n + 1 ELSE n     \* saturating: no test goes past max

RecordDispatch(r) ==
    [status   |-> IF r.status \in {"none", "acknowledged", "escalated"}
                  THEN "pending" ELSE r.status,
     failures |-> IF r.status = "escalated" THEN 0 ELSE r.failures]

EnsurePending(r) ==
    IF r.status = "none" THEN [status |-> "pending", failures |-> 0] ELSE r

Acknowledge(r) ==
    IF r.status \in {"pending", "unconfirmed"} THEN [r EXCEPT !.status = "acknowledged"] ELSE r

(* The updates below touch a row only if there is one. *)
MarkResignaled(r) ==
    IF r.status = "none" THEN r
    ELSE [status |-> "unconfirmed", failures |-> 0]

MarkResignalFailed(r) ==
    IF r.status = "none" THEN r
    ELSE [r EXCEPT !.failures = Upto(@, MaxFailures)]

MarkEscalated(r) == IF r.status = "none" THEN r ELSE [r EXCEPT !.status = "escalated"]

Consume(n) == Upto(n, MaxAttempts + 1)

\* Mutant: a label the ticket has shown before counts only if it is the last one.
CountedMutant(b, s) ==
    IF s = None THEN Unknown
    ELSE IF s \notin b.seen
    THEN [Unknown EXCEPT !.seen = b.seen \cup {s}, !.last = s]
    ELSE IF b.tripped THEN b
    ELSE LET wakesNow == IF s = b.last THEN b.wakes + 1 ELSE 0
             revisitsNow == IF s = b.last THEN b.revisits + 1 ELSE 0 IN
         [seen |-> b.seen, last |-> s, wakes |-> wakesNow, revisits |-> revisitsNow,
          tripped |-> (s = b.last /\ wakesNow >= MaxWakes) \/ revisitsNow >= MaxRevisits]

\* Mutant: a breaker that is open goes on counting.
CountedOpenMutant(b, s) ==
    IF s = None THEN Unknown
    ELSE IF s \notin b.seen
    THEN [Unknown EXCEPT !.seen = b.seen \cup {s}, !.last = s]
    ELSE LET wakesNow == IF s = b.last THEN b.wakes + 1 ELSE 0
             revisitsNow == b.revisits + 1 IN
         [seen |-> b.seen, last |-> s, wakes |-> wakesNow, revisits |-> revisitsNow,
          tripped |-> (s = b.last /\ wakesNow >= MaxWakes) \/ revisitsNow >= MaxRevisits]

(* recordDispatch of the breaker, on a re-poke in state s: an unreadable label
   forgets everything, a label the ticket has not shown since starts the counts
   afresh, any other label counts as a revisit, the last one as a repeat too. *)
Counted(b, s) ==
    IF s = None THEN Unknown
    ELSE IF s \notin b.seen
    THEN [Unknown EXCEPT !.seen = b.seen \cup {s}, !.last = s]
    ELSE IF b.tripped THEN b
    ELSE LET wakesNow == IF s = b.last THEN b.wakes + 1 ELSE 0
             revisitsNow == b.revisits + 1 IN
         [seen |-> b.seen, last |-> s, wakes |-> wakesNow, revisits |-> revisitsNow,
          tripped |-> (s = b.last /\ wakesNow >= MaxWakes) \/ revisitsNow >= MaxRevisits]

(* The gateway took a message: a session runs, for a moment at least.  If it did not
   say so, it may have taken the message all the same. *)
Taken    == session' = TRUE
NotTaken == session' \in {session, TRUE}

-----------------------------------------------------------------------------
(* resignalPendingTickets on the ticket: an escalated row and a claim are left
   alone, else the ticket is claimed. *)

Skips == row.status = "escalated" \/ claim

(* What a caller does when its ticket was not dispatched. *)
NotDispatched(f) ==
    /\ row' = IF frame[f].by # "detector" THEN row
              ELSE IF frame[f].failures + 1 >= MaxFailures
              THEN MarkEscalated(MarkResignalFailed(row))
              ELSE MarkResignalFailed(row)
    /\ Ends(f)

Claim(f) ==
    /\ IF Skips THEN NotDispatched(f) /\ UNCHANGED claim
       ELSE claim' = TRUE /\ Awaits(f, "check") /\ UNCHANGED row
    /\ UNCHANGED <<count, breaker, spawn, session, mine, used, trail>>

(* Linear says that the ticket is not the agent's: it is pruned. *)
Pruned(f) ==
    /\ frame[f].pc = "check" /\ ~mine
    /\ claim' = FALSE
    /\ row' = IF frame[f].by = "webhook" THEN row ELSE Acknowledge(row)
    /\ Ends(f)
    /\ UNCHANGED <<count, breaker, spawn, session, mine, used, trail>>

(* Actionable, or Linear could not be read; the message has been built since.
   A run that is spawning or live, as far as the probe can tell, stands in for
   this wake: nothing is sent, and the caller hears of a dispatch. *)
Replays(f) ==
    /\ frame[f].pc = "check" /\ spawn # "free"
    /\ IF frame[f].by = "webhook"
       THEN /\ row' = RecordDispatch(row) /\ count' = 0
            /\ claim' = IF spawn = "pending" THEN FALSE ELSE claim
       ELSE row' = MarkResignaled(row) /\ UNCHANGED <<count, claim>>
    /\ Ends(f)
    /\ UNCHANGED <<breaker, spawn, session, mine, used, trail>>

Begins ==
    /\ spawn = "free" \/ (spawn = "bound" /\ ~session)
    /\ spawn' = IF spawn = "free" THEN "pending" ELSE spawn

Sends(f) ==
    /\ frame[f].pc = "check"
    /\ Begins
    /\ Awaits(f, "deliver")
    /\ UNCHANGED <<row, count, breaker, claim, session, mine, used, trail>>

(* Delivered.  The detector and the watchdog send through the acknowledged
   scheduler, which records a dispatch, and mark a resignal on top of it. *)
Delivered(f) ==
    /\ frame[f].pc = "deliver"
    /\ Taken
    /\ spawn' = "bound" /\ count' = 0
    /\ IF frame[f].by = "webhook"
       THEN row' = RecordDispatch(row) /\ claim' \in {claim, FALSE}
       ELSE row' = MarkResignaled(RecordDispatch(row)) /\ UNCHANGED claim
    /\ Ends(f)
    /\ UNCHANGED <<breaker, mine, used, trail>>

(* The claims of the tracker and of the spawn store stay behind. *)
Refused(f) ==
    /\ frame[f].pc = "deliver"
    /\ NotTaken
    /\ NotDispatched(f)
    /\ UNCHANGED <<count, breaker, claim, spawn, mine, used, trail>>

-----------------------------------------------------------------------------
(* The no-activity detector, on the ticket's row.                          *)

Detect(f) ==
    /\ Free(f, "detector") /\ Open
    /\ Calls(f, "detector", "sweep")
    /\ UNCHANGED <<row, count, breaker, claim, spawn, session, mine, used, trail>>

(* A ticket that is not the agent's is acknowledged. *)
SweptAway(f) ==
    /\ frame[f].pc \in {"sweep", "recheck"} /\ ~mine
    /\ claim' = (claim /\ frame[f].pc # "sweep")
    /\ row' = Acknowledge(row)
    /\ Ends(f)
    /\ UNCHANGED <<count, breaker, spawn, session, mine, used, trail>>

(* No longer open, no claim, not overdue, or the agent is at capacity. *)
LeftAlone(f) ==
    /\ frame[f].pc = "sweep"
    /\ Ends(f)
    /\ UNCHANGED <<row, count, breaker, claim, spawn, session, mine, used, trail>>

(* handleFailure: the session is given up, an attempt taken, and the last
   attempt escalates. *)
HandleFailure(f) ==
    /\ frame[f].pc = "sweep" /\ Open /\ claim
    /\ claim' = FALSE
    /\ count' = Consume(count)
    /\ IF count' >= MaxAttempts
       THEN row' = MarkEscalated(row) /\ Ends(f)
       ELSE /\ frame' = [frame EXCEPT ![f].pc = "recheck", ![f].failures = row.failures]
            /\ UNCHANGED row
    /\ UNCHANGED <<breaker, spawn, session, mine, used, trail>>

Recheck(f) == frame[f].pc = "recheck" /\ Claim(f)

-----------------------------------------------------------------------------
(* The dispatch watchdog, on the ticket's row.                             *)

Overdue(f) ==
    /\ Free(f, "watchdog") /\ Open
    /\ Calls(f, "watchdog", "verify")
    /\ UNCHANGED <<row, count, breaker, claim, spawn, session, mine, used, trail>>

(* Linear does not resolve the ticket, which an unreachable Linear does not
   either. *)
Unresolved(f) ==
    /\ frame[f].pc = "verify"
    /\ row' = MarkEscalated(row)
    /\ Ends(f)
    /\ UNCHANGED <<count, breaker, claim, spawn, session, mine, used, trail>>

SkipsEntry(f) ==
    /\ frame[f].pc = "verify" /\ ~(mine /\ Watched)
    /\ Ends(f)
    /\ UNCHANGED <<row, count, breaker, claim, spawn, session, mine, used, trail>>

\* Mutant: the entry is given up without a mark.
RedriveMutant(f) ==
    /\ frame[f].pc = "verify"
    /\ count' = Consume(count)
    /\ IF count' > MaxAttempts
       THEN Ends(f) /\ UNCHANGED <<row, claim>>
       ELSE claim' = FALSE /\ Awaits(f, "backoff") /\ UNCHANGED row
    /\ UNCHANGED <<breaker, spawn, session, mine, used, trail>>

(* The watchdog allows one attempt more than the detector does. *)
Redrive(f) ==
    /\ frame[f].pc = "verify"
    /\ count' = Consume(count)
    /\ IF count' > MaxAttempts
       THEN row' = MarkEscalated(row) /\ Ends(f) /\ UNCHANGED claim
       ELSE claim' = FALSE /\ Awaits(f, "backoff") /\ UNCHANGED row
    /\ UNCHANGED <<breaker, spawn, session, mine, used, trail>>

BackoffOver(f) == frame[f].pc = "backoff" /\ Claim(f)

(* The end of a cycle, of this pair or any other, deletes rows long closed. *)
CleanUp ==
    /\ row.status \in {"acknowledged", "escalated"}
    /\ row' = [status |-> "none", failures |-> 0]
    /\ UNCHANGED <<count, breaker, claim, spawn, session, mine, frame, used, trail>>

-----------------------------------------------------------------------------
(* processStaleSession.                                                    *)

StaleTimer(f) ==
    /\ Free(f, "staleTimer") /\ claim
    /\ claim' = FALSE
    /\ Calls(f, "staleTimer", "read")
    /\ UNCHANGED <<row, count, breaker, spawn, session, mine, used, trail>>

(* The ticket's state label, or nothing, is read, and the session classified.  Any
   label may be read, and only Braked looks at it: it is chosen there.
   C2 and C4 take an attempt; the first attempt of a C4 wakes it without asking
   who owns the ticket, C3 and a later C4 wake it while the agent does. *)
Classify(f) ==
    /\ frame[f].pc = "read"
    /\ \E verdict \in Verdicts \ {""} :
         /\ \/ verdict \in {"owned", "human", "escalate", "nothing"} /\ UNCHANGED count
            \/ /\ count' = Consume(count)
               /\ IF count' >= MaxAttempts THEN verdict = "human"
                  ELSE verdict \in {"nothing", IF count' = 1 THEN "always" ELSE "owned"}
         /\ frame' = [frame EXCEPT ![f].pc = "issue", ![f].verdict = verdict]
    /\ UNCHANGED <<row, breaker, claim, spawn, session, mine, used, trail>>

(* recoverTicket has read and maybe written the issue: a terminal ticket, one
   behind a barrier, one of another delegate and one that cannot be read are left
   alone; a human gets it with its delegate cleared. *)
Recovered(f) ==
    /\ frame[f].pc = "issue"
    /\ \/ /\ frame[f].verdict = "always" \/ (frame[f].verdict = "owned" /\ mine)
          /\ frame' = [frame EXCEPT ![f].pc = "recipient", ![f].verdict = ""]
          /\ UNCHANGED <<row, mine>>
       \/ /\ row' = IF frame[f].verdict = "escalate" THEN MarkEscalated(row) ELSE row
          /\ \/ UNCHANGED mine
             \/ frame[f].verdict \in {"human", "escalate"} /\ mine /\ mine' = FALSE
          /\ Ends(f)
    /\ UNCHANGED <<count, breaker, claim, spawn, session, used, trail>>

(* The agent is no longer the delegate. *)
Dropped(f) ==
    /\ frame[f].pc = "recipient" /\ ~mine
    /\ Ends(f)
    /\ UNCHANGED <<row, count, breaker, claim, spawn, session, mine, used, trail>>

(* The breaker counts the wake and may hold it back; dispatchWithAck throws when
   the budget is used up. *)
Braked(f) ==
    /\ frame[f].pc = "recipient"
    /\ \E s \in Labels \cup {None} :
         /\ breaker' = Counted(breaker, s)
         /\ trail' = IF s = None THEN <<>>
                     ELSE IF breaker'.tripped THEN trail ELSE Append(trail, s)
    /\ IF breaker'.tripped \/ count >= MaxAttempts THEN Ends(f) ELSE Calls(f, "staleTimer", "repoke")
    /\ UNCHANGED <<row, count, claim, spawn, session, mine, used>>

(* The re-poke makes no claim of its own, and its delivery is recorded. *)
Repoked(f) ==
    /\ frame[f].pc = "repoke"
    /\ Taken
    /\ row' = RecordDispatch(row) /\ count' = 0
    /\ Ends(f)
    /\ UNCHANGED <<breaker, claim, spawn, mine, used, trail>>

RepokeFails(f) ==
    /\ frame[f].pc = "repoke"
    /\ NotTaken
    /\ Ends(f)
    /\ UNCHANGED <<row, count, breaker, claim, spawn, mine, used, trail>>

-----------------------------------------------------------------------------
(* The webhook.  A tripped breaker blocks an event; any other resets it: the
   normalized event has no labels.  The event counts as the agent's new work. *)
Event(f) ==
    /\ Free(f, "webhook") /\ used < Quota
    /\ used' = used + 1
    /\ IF breaker.tripped THEN UNCHANGED <<breaker, trail, frame>>
       ELSE /\ breaker' = Counted(breaker, None) /\ trail' = <<>>
            /\ Calls(f, "webhook", "route")
    /\ UNCHANGED <<row, count, claim, spawn, session, mine>>

(* One of the guards after the breaker stops it, or the agent is at capacity. *)
Stopped(f) ==
    /\ frame[f].pc = "route"
    /\ Ends(f)
    /\ UNCHANGED <<row, count, breaker, claim, spawn, session, mine, used, trail>>

(* The delivery is committed: a ticket with a claim gets the event directly, and
   one without, or with a claim past its timeout, is resignaled. *)
Route(f) ==
    /\ frame[f].pc = "route"
    /\ row' = EnsurePending(row)
    /\ \/ /\ claim
          /\ \/ Begins /\ Awaits(f, "direct")
             \/ spawn # "free" /\ Ends(f) /\ UNCHANGED spawn
          /\ UNCHANGED claim
       \/ /\ IF row.status = "escalated"
             THEN claim' = FALSE /\ Ends(f)
             ELSE claim' = TRUE /\ Awaits(f, "check")
          /\ UNCHANGED spawn
    /\ UNCHANGED <<count, breaker, session, mine, used, trail>>

(* deliverToAgent has answered; nothing is recorded. *)
Direct(f) ==
    /\ frame[f].pc = "direct"
    /\ \/ Taken /\ spawn' = "bound"
       \/ NotTaken /\ UNCHANGED spawn
    /\ Ends(f)
    /\ UNCHANGED <<row, count, breaker, claim, mine, used, trail>>

-----------------------------------------------------------------------------
(* The rest of the world.                                                  *)

(* The agent moves the ticket through the proxy. *)
Works ==
    /\ session
    /\ row' = Acknowledge(row) /\ count' = 0
    /\ UNCHANGED <<breaker, claim, spawn, session, mine, frame, used, trail>>

(* The agent comments: a row that was signaled again stays open. *)
Comments ==
    /\ session
    /\ row' = IF row.status = "unconfirmed" THEN row ELSE Acknowledge(row)
    /\ UNCHANGED <<count, breaker, claim, spawn, session, mine, frame, used, trail>>

(* The session is over, and its plugin calls /session-end unless it is lost. *)
SessionOver ==
    /\ session /\ session' = FALSE
    /\ \/ claim' = FALSE /\ row' = Acknowledge(row)
       \/ UNCHANGED <<claim, row>>
    /\ UNCHANGED <<count, breaker, spawn, mine, frame, used, trail>>

(* Linear: the ticket's delegate changes. *)
DelegateChanges ==
    /\ mine' = ~mine
    /\ UNCHANGED <<row, count, breaker, claim, spawn, session, frame, used, trail>>

(* The run's timeout passes. *)
RunExpires ==
    /\ spawn # "free" /\ spawn' = "free"
    /\ UNCHANGED <<row, count, breaker, claim, session, mine, frame, used, trail>>

(* The connector restarts: what it keeps in memory is gone. *)
Restart ==
    /\ used < Quota /\ used' = used + 1
    /\ frame' = [f \in Frames |-> Idle]
    /\ claim' = FALSE /\ breaker' = Unknown /\ trail' = <<>>
    /\ UNCHANGED <<row, count, spawn, session, mine>>

World ==
    \/ Works \/ Comments \/ SessionOver \/ DelegateChanges \/ RunExpires
    \/ CleanUp \/ Restart

Starts(f) == Detect(f) \/ Overdue(f) \/ StaleTimer(f) \/ Event(f)

(* An await of f settles. *)
Settles(f) ==
    \/ Pruned(f) \/ Replays(f) \/ Sends(f) \/ Delivered(f) \/ Refused(f)
    \/ SweptAway(f) \/ LeftAlone(f) \/ HandleFailure(f) \/ Recheck(f)
    \/ Unresolved(f) \/ SkipsEntry(f) \/ Redrive(f) \/ BackoffOver(f)
    \/ Classify(f) \/ Recovered(f) \/ Dropped(f) \/ Braked(f)
    \/ Repoked(f) \/ RepokeFails(f)
    \/ Stopped(f) \/ Route(f) \/ Direct(f)

Next == World \/ \E f \in Frames : Starts(f) \/ Settles(f)

Spec == Init /\ [][Next]_vars

(* Every await settles (all requests have timeouts), and the watchdog's timer, on its
   own frames, finds an overdue row sooner or later. *)
Fairness ==
    /\ \A f \in Frames : WF_vars(Settles(f))
    /\ SF_vars(\E f \in Frames : Overdue(f))

FairSpec == Spec /\ Fairness

-----------------------------------------------------------------------------
(* Properties.                                                             *)

(* Every store holds values its schema allows, and a counter never passes the cap
   at which its brake acts (dispatch-circuit-breaker.ts 399-507). *)
TypeOK ==
    /\ row \in [status : Status, failures : 0 .. MaxFailures]
    /\ count \in 0 .. MaxAttempts + 1
    /\ breaker \in [seen : SUBSET Labels, last : Labels \cup {None}, wakes : 0 .. MaxWakes,
                    revisits : 0 .. MaxRevisits, tripped : BOOLEAN]
    /\ claim \in BOOLEAN /\ spawn \in {"free", "pending", "bound"}
    /\ session \in BOOLEAN /\ mine \in BOOLEAN
    /\ frame \in [Frames -> [pc : Places, by : Callers \cup {""}, failures : 0 .. MaxFailures,
                             verdict : Verdicts]]
    /\ used \in 0 .. Quota /\ trail \in Seq(Labels)

(* Between two resets of the breaker, re-pokes stop: MaxWakes in a row after the
   first in a state, or MaxRevisits in states the ticket has already shown, never
   get out, however the ticket moves between its states (the dead-dispatch loop of
   dispatch-circuit-breaker.ts 38-66) and whatever the callers in between do. *)
LoopIsCut ==
    /\ \A i \in 1 .. Len(trail) :
         i + MaxWakes <= Len(trail) => \E j \in i .. i + MaxWakes : trail[j] # trail[i]
    /\ \A i \in 1 .. Len(trail) :
         i + MaxRevisits <= Len(trail) =>
           \E j \in i + 1 .. i + MaxRevisits : \A k \in 1 .. j - 1 : trail[k] # trail[j]

(* An open row that no session stands behind gets one, or is escalated or closed:
   neither refused deliveries nor the replays that their pending runs turn later
   wakes into (wake-up.ts 234-242) keep the callers going round for ever. *)
UnansweredWakesEnd ==
    (Open /\ mine /\ ~session) ~> (~Open \/ ~mine \/ session)
=============================================================================
