------------------------- MODULE WakeDispatch_proofs -------------------------
(* Proofs of the invariants of WakeDispatch, for any number of agents,     *)
(* tickets and jobs and any value of the bounds.                           *)
EXTENDS WakeDispatch, TLAPS

\* TypeOK, split between the stores and the frames of the jobs; a job that is
\* waiting on a ticket has one.
DataOK ==
  /\ bag \in [Pairs -> Reasons]
  /\ active \subseteq Pairs /\ aged \subseteq active
  /\ queued \subseteq Pairs /\ deferred \subseteq Pairs
  /\ ack \in [Pairs -> AckStatus]
  /\ budget \in [Tickets -> Nat]
  /\ owns \subseteq Jobs
  /\ delegate \in [Tickets -> Agents \cup {NoAgent}]
  /\ closed \subseteq Tickets
  /\ inbox \subseteq Event /\ events \in Nat
  /\ running \subseteq Pairs /\ callbacks \subseteq Agents
  /\ restarts \in Nat
  /\ owed \subseteq Event
FrameOK ==
  /\ pc \in [Jobs -> Places]
  /\ at \in [Jobs -> Pairs \cup {NoPair}]
  /\ ctx \in [Jobs -> Context]
  /\ \A j \in Jobs :
       pc[j] \in {"check", "checked", "send", "deliver", "forensics", "examine"}
       => at[j] \in Pairs

LEMMA IdleTyped == IdleContext \in Context
  BY CallersAssumption DEF IdleContext, Context, AllCallers, Stages, Pairs, Reasons

LEMMA RowsTyped == \A b, a : Rows(b, a) \subseteq Pairs
  BY DEF Rows, Of, Pairs

LEMMA AnswerTyped ==
  ASSUME NEW c \in Context
  PROVE  /\ [c EXCEPT !.answer = "none"] \in Context
         /\ [c EXCEPT !.reason = "absent", !.answer = "none"] \in Context
         /\ [c EXCEPT !.reason = "absent",
                      !.rearmed = @ \/ c.stage = "rearm"] \in Context
  BY DEF Context, Reasons

LEMMA StartTyped ==
  ASSUME NEW a \in Agents, NEW S \in SUBSET Pairs, NEW T \in SUBSET Pairs,
         NEW U \in SUBSET Pairs, NEW V \in SUBSET Pairs
  PROVE  /\ [IdleContext EXCEPT !.caller = "sessionEnd", !.stage = "rearm",
               !.agent = a, !.left = S, !.taken = T, !.holds = U,
               !.ended = V] \in Context
  BY IdleTyped DEF Context, Stages, AllCallers

LEMMA AdmitTyped ==
  ASSUME NEW p \in Pairs, NEW S \in SUBSET Pairs
  PROVE  [IdleContext EXCEPT !.stage = "own", !.track = TRUE,
            !.agent = p[1], !.pair = p, !.todo = S] \in Context
<1>1. p[1] \in Agents
  BY DEF Pairs
<1> QED
  BY <1>1, IdleTyped DEF Context, Stages

LEMMA SweepTyped ==
  ASSUME NEW S \in SUBSET Pairs, NEW T \in SUBSET Pairs
  PROVE  [IdleContext EXCEPT !.caller = "staleTimer", !.stage = "recover",
            !.left = S, !.taken = T] \in Context
  BY IdleTyped DEF Context, Stages, AllCallers

LEMMA ExamineTyped ==
  ASSUME NEW p \in Pairs
  PROVE  [IdleContext EXCEPT !.caller = "watchdog", !.agent = p[1], !.pair = p] \in Context
<1>1. p[1] \in Agents
  BY DEF Pairs
<1> QED
  BY <1>1, IdleTyped DEF Context, AllCallers

LEMMA ReplayTyped ==
  ASSUME NEW S \in SUBSET Pairs
  PROVE  [IdleContext EXCEPT !.caller = "replay", !.stage = "agents", !.track = TRUE,
            !.left = S] \in Context
  BY IdleTyped DEF Context, Stages, AllCallers

LEMMA FieldsTyped ==
  ASSUME NEW c \in Context
  PROVE  /\ c.todo \subseteq Pairs /\ c.left \subseteq Pairs
         /\ c.taken \subseteq Pairs /\ c.holds \subseteq Pairs
         /\ c.ended \subseteq Pairs
  BY DEF Context

\* What a frame becomes when its loop, its stage or its lists go on.
LEMMA ClaimTyped ==
  ASSUME NEW c \in Context, NEW S, NEW r \in Reasons
  PROVE  [c EXCEPT !.todo = c.todo \ S, !.reason = r] \in Context
  BY DEF Context

LEMMA TodoTyped ==
  ASSUME NEW c \in Context
  PROVE  [c EXCEPT !.todo = {}] \in Context
  BY DEF Context

LEMMA StageTyped ==
  ASSUME NEW c \in Context, NEW S \in SUBSET Pairs
  PROVE  /\ [c EXCEPT !.stage = "last"] \in Context
         /\ [c EXCEPT !.stage = "last", !.todo = S] \in Context
         /\ [c EXCEPT !.stage = "drain", !.left = {}] \in Context
         /\ [c EXCEPT !.stage = "agents"] \in Context
<1>1. [c EXCEPT !.stage = "last"] \in Context
  BY DEF Context, Stages
<1>2. [c EXCEPT !.stage = "last", !.todo = S] \in Context
  BY DEF Context, Stages
<1>3. [c EXCEPT !.stage = "drain", !.left = {}] \in Context
  BY DEF Context, Stages
<1>4. [c EXCEPT !.stage = "agents"] \in Context
  BY DEF Context, Stages
<1> QED
  BY <1>1, <1>2, <1>3, <1>4

LEMMA LeftTyped ==
  ASSUME NEW c \in Context, NEW q \in c.left
  PROVE  /\ q \in Pairs
         /\ [c EXCEPT !.left = c.left \ {q}] \in Context
         /\ [c EXCEPT !.left = c.left \ {q}, !.todo = {q}] \in Context
<1>1. q \in Pairs
  BY DEF Context
<1>2. [c EXCEPT !.left = c.left \ {q}] \in Context
  BY DEF Context
<1>3. [c EXCEPT !.left = c.left \ {q}, !.todo = {q}] \in Context
  BY <1>1 DEF Context
<1> QED
  BY <1>1, <1>2, <1>3

LEMMA HoldsTyped ==
  ASSUME NEW c \in Context, NEW S \in SUBSET Pairs, NEW T \in SUBSET Pairs
  PROVE  /\ [c EXCEPT !.stage = "hold", !.holds = S, !.todo = T] \in Context
         /\ [c EXCEPT !.stage = "last", !.todo = c.holds, !.track = TRUE] \in Context
<1>1. [c EXCEPT !.stage = "hold", !.holds = S, !.todo = T] \in Context
  BY DEF Context, Stages
<1>2. [c EXCEPT !.stage = "last", !.todo = c.holds, !.track = TRUE] \in Context
  BY DEF Context, Stages
<1> QED
  BY <1>1, <1>2

LEMMA ReplayFrameTyped ==
  ASSUME NEW c \in Context, NEW T \in SUBSET Pairs, NEW S, NEW U
  PROVE  [c EXCEPT !.stage = "replay", !.todo = T, !.left = (c.left \ U) \ S] \in Context
  BY DEF Context, Stages

\* What the updates of a row and of a count return.
LEMMA RowUpdatesTyped ==
  ASSUME DataOK, NEW p \in Pairs
  PROVE  /\ \A status \in AckStatus : MarkIfPresent(p, status) \in [Pairs -> AckStatus]
         /\ RecordDispatch(p) \in [Pairs -> AckStatus]
         /\ Consume(p[2]) \in [Tickets -> Nat]
         /\ ResetBudget(p[2]) \in [Tickets -> Nat]
  <1>1. \A status \in AckStatus : MarkIfPresent(p, status) \in [Pairs -> AckStatus]
    BY DEF DataOK, MarkIfPresent, AckStatus
  <1>2. RecordDispatch(p) \in [Pairs -> AckStatus]
    BY DEF DataOK, RecordDispatch, AckStatus
  <1>3. budget \in [Tickets -> Nat] /\ p[2] \in Tickets
    BY DEF DataOK, Pairs
  <1>4. (IF budget[p[2]] > MaxAttempts THEN budget[p[2]] ELSE budget[p[2]] + 1) \in Nat
    BY <1>3
  <1>5. Consume(p[2]) \in [Tickets -> Nat]
    BY <1>3, <1>4 DEF Consume
  <1>6. ResetBudget(p[2]) \in [Tickets -> Nat]
    BY <1>3 DEF ResetBudget
  <1> QED
    BY <1>1, <1>2, <1>5, <1>6

\* Pruning changes settled rows only, and leaves the mark of it.
LEMMA PrunedRows ==
  ASSUME NEW rows \in [Pairs -> AckStatus], NEW left \in Pruned(rows)
  PROVE  /\ left \in [Pairs -> AckStatus]
         /\ \A p \in Pairs : left[p] = rows[p] \/ (rows[p] \in Settled /\ left[p] = "pruned")
  BY DEF Pruned, AckStatus

LEMMA TypeStep == DataOK /\ FrameOK /\ [Next]_vars => DataOK' /\ FrameOK'
  <2> SUFFICES ASSUME DataOK, FrameOK, [Next]_vars PROVE DataOK' /\ FrameOK'
    OBVIOUS
  <2>0. DataOK /\ FrameOK
    OBVIOUS
  <2>1. ASSUME NEW t \in Tickets, NEW a \in Agents \cup {NoAgent}, Delegate(t, a)
       PROVE  DataOK' /\ FrameOK'
    BY <2>0, <2>1 DEF Delegate, DataOK, FrameOK, Pairs, Of, For, OwedBut, DelegateTo, MentionOf, Event, Reasons, AckStatus, Open, tracker, stores, frames, linear, gateway
  <2>2. ASSUME NEW t \in Tickets, NEW a \in Agents, Mention(t, a)
       PROVE  DataOK' /\ FrameOK'
    BY <2>0, <2>2 DEF Mention, DataOK, FrameOK, Pairs, Of, For, OwedBut, DelegateTo, MentionOf, Event, Reasons, AckStatus, Open, tracker, stores, frames, linear, gateway
  <2>3. ASSUME NEW t \in Tickets, Close(t)
       PROVE  DataOK' /\ FrameOK'
    BY <2>0, <2>3 DEF Close, DataOK, FrameOK, Pairs, Of, For, OwedBut, DelegateTo, MentionOf, Event, Reasons, AckStatus, Open, tracker, stores, frames, linear, gateway
  <2>4. ASSUME NEW p \in Pairs, SessionFinishes(p)
       PROVE  DataOK' /\ FrameOK'
    BY <2>0, <2>4 DEF SessionFinishes, DataOK, FrameOK, Pairs, Of, For, OwedBut, DelegateTo, MentionOf, Event, Reasons, AckStatus, Open, tracker, stores, frames, linear, gateway
  <2>5. ASSUME NEW p \in Pairs, ProxyActivity(p)
       PROVE  DataOK' /\ FrameOK'
    BY <2>0, <2>5 DEF ProxyActivity, ResetBudget, DataOK, FrameOK, Pairs, Of, For, OwedBut, DelegateTo, MentionOf, Event, Reasons, AckStatus, Open, tracker, stores, frames, linear, gateway, Acknowledge
  <2>6. ASSUME NEW p \in Pairs, Age(p)
       PROVE  DataOK' /\ FrameOK'
    BY <2>0, <2>6 DEF Age, DataOK, FrameOK, Pairs, Of, For, OwedBut, DelegateTo, MentionOf, Event, Reasons, AckStatus, Open, tracker, stores, frames, linear, gateway
  <2>7. ASSUME NEW e \in inbox, Suppress(e)
       PROVE  DataOK' /\ FrameOK'
    BY <2>0, <2>7 DEF Suppress, DataOK, FrameOK, Pairs, Of, For, OwedBut, DelegateTo, MentionOf, Event, Reasons, AckStatus, Open, tracker, stores, frames, linear, gateway
  <2>8. ASSUME NEW t \in Tickets, TerminalEvent(t)
       PROVE  DataOK' /\ FrameOK'
    BY <2>0, <2>8 DEF TerminalEvent, DataOK, FrameOK, Pairs, Of, For, OwedBut, DelegateTo, MentionOf, Event, Reasons, AckStatus, Open, tracker, stores, frames, linear, gateway
  <2>9. ASSUME NEW e \in inbox, AdmitDeferred(e)
       PROVE  DataOK' /\ FrameOK'
    BY <2>0, <2>9 DEF AdmitDeferred, DataOK, FrameOK, Pairs, Of, For, OwedBut, DelegateTo, MentionOf, Event, Reasons, AckStatus, Open, tracker, stores, frames, linear, gateway, BagWith, NowOwed
  <2>10. ASSUME NEW j \in Jobs, NEW e \in inbox, Admit(j, e)
       PROVE  DataOK' /\ FrameOK'
    <3>1. [IdleContext EXCEPT !.stage = "own", !.track = TRUE,
                 !.agent = e.pair[1], !.pair = e.pair, !.todo = Drained] \in Context
      <4>1. e.pair \in Pairs /\ Drained \in SUBSET Pairs
        BY <2>0 DEF DataOK, Event, Drained
      <4> QED
        BY <4>1, AdmitTyped
    <3>8. FrameOK'
      BY <2>0, <2>10, <3>1, IdleTyped DEF Admit, FrameOK, Places, Start, frames
    <3>9. DataOK'
      BY <2>0, <2>10 DEF Admit, DataOK, Pairs, Of, For, OwedBut, DelegateTo, MentionOf, Event, Reasons, AckStatus, Open, tracker, stores, frames, linear, gateway, BagWith, NowOwed, EnsurePending, CleanupStale, Drained, Keep
    <3> QED
      BY <3>8, <3>9
  <2>11. ASSUME NEW j \in Jobs, NEW a \in Agents, SessionEnd(j, a)
       PROVE  DataOK' /\ FrameOK'
    <3> DEFINE ended == active \cap Of(a)
               taken == IF ended = {} THEN {} ELSE queued \cap Of(a)
    <3>0. ended \subseteq Pairs /\ taken \subseteq Pairs /\ deferred \cap Of(a) \subseteq Pairs
      BY <2>0 DEF DataOK
    <3>1. PICK holds \in SUBSET ended :
            Start(j, [IdleContext EXCEPT !.caller = "sessionEnd",
                        !.stage = "rearm", !.agent = a,
                        !.left = deferred \cap Of(a), !.taken = taken,
                        !.holds = holds, !.ended = ended])
      BY <2>0, <2>11 DEF SessionEnd
    <3>2. [IdleContext EXCEPT !.caller = "sessionEnd", !.stage = "rearm", !.agent = a,
             !.left = deferred \cap Of(a), !.taken = taken,
             !.holds = holds, !.ended = ended] \in Context
      BY <2>0, <3>0, StartTyped
    <3>8. FrameOK'
      BY <2>0, <3>1, <3>2 DEF Start, FrameOK, Places
    <3>9. DataOK'
      BY <2>0, <2>11 DEF SessionEnd, DataOK, Pairs, Of, For, OwedBut, DelegateTo, MentionOf, Event, Reasons, AckStatus, Open, tracker, stores, frames, linear, gateway, Keep
    <3> QED
      BY <3>8, <3>9
  <2>12. ASSUME NEW j \in Jobs, StaleTimer(j)
       PROVE  DataOK' /\ FrameOK'
    <3>1. [IdleContext EXCEPT !.caller = "staleTimer", !.stage = "recover",
                 !.left = aged, !.taken = Drained] \in Context
      <4>1. aged \in SUBSET Pairs /\ Drained \in SUBSET Pairs
        BY <2>0 DEF DataOK, Drained
      <4> QED
        BY <4>1, SweepTyped
    <3>8. FrameOK'
      BY <2>0, <2>12, <3>1, IdleTyped DEF StaleTimer, FrameOK, Places, Start, frames
    <3>9. DataOK'
      BY <2>0, <2>12 DEF StaleTimer, DataOK, Pairs, Of, For, OwedBut, DelegateTo, MentionOf, Event, Reasons, AckStatus, Open, tracker, stores, frames, linear, gateway, CleanupStale, Drained, Keep
    <3> QED
      BY <3>8, <3>9
  <2>13. ASSUME NEW j \in Jobs, NEW p \in Pairs, WatchdogCycle(j, p)
       PROVE  DataOK' /\ FrameOK'
    <3>1. [IdleContext EXCEPT !.caller = "watchdog",
                                  !.agent = p[1], !.pair = p] \in Context
      BY ExamineTyped
    <3>8. FrameOK'
      BY <2>0, <2>13, <3>1, IdleTyped DEF WatchdogCycle, FrameOK, Places, frames
    <3>9. DataOK'
      BY <2>0, <2>13 DEF WatchdogCycle, DataOK, Pairs, Of, For, OwedBut, DelegateTo, MentionOf, Event, Reasons, AckStatus, Open, tracker, stores, frames, linear, gateway
    <3> QED
      BY <3>8, <3>9
  <2>14. ASSUME NEW j \in Jobs, Restart(j)
       PROVE  DataOK' /\ FrameOK'
    <3>1. [IdleContext EXCEPT !.caller = "replay", !.stage = "agents", !.track = TRUE,
             !.left = {p \in Pairs : bag[p] # "absent"}] \in Context
      BY ReplayTyped
    <3>8. FrameOK'
      BY <2>0, <2>14, <3>1, IdleTyped DEF Restart, FrameOK, Places
    <3>9. DataOK'
      <4>1. inbox' \subseteq inbox /\ callbacks' \subseteq callbacks
        BY <2>14 DEF Restart
      <4>2. /\ UNCHANGED <<bag, ack, budget, delegate, closed, events, running, owed>>
            /\ active' = {} /\ aged' = {} /\ queued' = {} /\ deferred' = {} /\ owns' = {}
            /\ restarts' = restarts + 1
        BY <2>14 DEF Restart, stores
      <4> QED
        BY <2>0, <4>1, <4>2 DEF DataOK
    <3> QED
      BY <3>8, <3>9
  <2>15. ASSUME NEW j \in Jobs, ClaimNext(j)
       PROVE  DataOK' /\ FrameOK'
    <3>1. PICK p \in Wakeable(j) : \E skipped \in SUBSET (ctx[j].todo \ Wakeable(j)) :
            /\ active' = active \cup {p}
            /\ owns' = owns \cup {j}
            /\ at' = [at EXCEPT ![j] = p]
            /\ Go(j, "check", [ctx[j] EXCEPT !.todo = @ \ (skipped \cup {p}),
                                             !.reason = bag[p]])
      BY <2>15 DEF ClaimNext
    <3>2. PICK skipped \in SUBSET (ctx[j].todo \ Wakeable(j)) :
            Go(j, "check", [ctx[j] EXCEPT !.todo = @ \ (skipped \cup {p}),
                                          !.reason = bag[p]])
      BY <3>1
    <3>3. p \in Pairs /\ ctx[j].todo \subseteq Pairs
      BY <2>0, <3>1 DEF FrameOK, Context, Wakeable
    <3>4. [ctx[j] EXCEPT !.todo = @ \ (skipped \cup {p}), !.reason = bag[p]] \in Context
      <4>1. ctx[j] \in Context /\ bag[p] \in Reasons
        BY <2>0, <3>3 DEF DataOK, FrameOK
      <4> QED
        BY <4>1, ClaimTyped
    <3>8. FrameOK'
      BY <2>0, <3>1, <3>2, <3>3, <3>4 DEF Go, FrameOK, Places
    <3>9. DataOK'
      BY <2>0, <2>15, <3>1, <3>3 DEF ClaimNext, DataOK, Pairs, Of, For, OwedBut, DelegateTo, MentionOf, Event, Reasons, AckStatus, Open, tracker, stores, frames, linear, gateway
    <3> QED
      BY <3>8, <3>9
  <2>16. ASSUME NEW j \in Jobs, LoopReturns(j)
       PROVE  DataOK' /\ FrameOK'
    <3>1. [ctx[j] EXCEPT !.todo = {}] \in Context
      BY <2>0, TodoTyped DEF FrameOK
    <3>8. FrameOK'
      BY <2>0, <2>16, <3>1, IdleTyped DEF LoopReturns, FrameOK, Places, Go, frames
    <3>9. DataOK'
      BY <2>0, <2>16 DEF LoopReturns, DataOK, Pairs, Of, For, OwedBut, DelegateTo, MentionOf, Event, Reasons, AckStatus, Open, tracker, stores, frames, linear, gateway
    <3> QED
      BY <3>8, <3>9
  <2>17. ASSUME NEW j \in Jobs, OwnTicket(j)
       PROVE  DataOK' /\ FrameOK'
    <3>1. /\ [ctx[j] EXCEPT !.stage = "last"] \in Context
          /\ [ctx[j] EXCEPT !.stage = "last", !.todo = Rows(bag, ctx[j].agent)] \in Context
      <4>1. ctx[j] \in Context
        BY <2>0 DEF FrameOK
      <4>2. \A c \in Context, S \in SUBSET Pairs :
              /\ [c EXCEPT !.stage = "last"] \in Context
              /\ [c EXCEPT !.stage = "last", !.todo = S] \in Context
        BY StageTyped
      <4>3. Rows(bag, ctx[j].agent) \in SUBSET Pairs
        BY RowsTyped
      <4> QED
        BY <4>1, <4>2, <4>3
    <3>8. FrameOK'
      BY <2>0, <2>17, <3>1 DEF OwnTicket, Go, DataOK, FrameOK, Places
    <3>9. DataOK'
      BY <2>0, <2>17 DEF OwnTicket, DataOK, Pairs, Of, For, OwedBut, DelegateTo, MentionOf, Event, Reasons, AckStatus, Open, tracker, stores, frames, linear, gateway
    <3> QED
      BY <3>8, <3>9
  <2>18. ASSUME NEW j \in Jobs, Finish(j)
       PROVE  DataOK' /\ FrameOK'
    <3>8. FrameOK'
      BY <2>0, <2>18, IdleTyped DEF Finish, FrameOK, Places, Go
    <3>9. DataOK'
      <4>1. ack' \in [Pairs -> AckStatus]
        BY <2>0, <2>18, PrunedRows DEF Finish, DataOK
      <4> QED
        BY <2>0, <2>18, <4>1 DEF Finish, DataOK, tracker, linear, gateway
    <3> QED
      BY <3>8, <3>9
  <2>19. ASSUME NEW j \in Jobs, Rearm(j)
       PROVE  DataOK' /\ FrameOK'
    <3>1. PICK p \in ctx[j].left :
            /\ deferred' = deferred \ {p}
            /\ EndSession(p)
            /\ queued' = queued \ SignalsReturned(p)
            /\ bag' = [bag EXCEPT ![p] = IF @ = "absent" THEN "unset" ELSE @]
            /\ Go(j, "next", [ctx[j] EXCEPT !.left = @ \ {p}, !.todo = {p}])
      BY <2>19 DEF Rearm
    <3>2. p \in Pairs /\ [ctx[j] EXCEPT !.left = @ \ {p}, !.todo = {p}] \in Context
      <4>1. ctx[j] \in Context
        BY <2>0 DEF FrameOK
      <4>2. \A c \in Context : \A q \in c.left :
              q \in Pairs /\ [c EXCEPT !.left = c.left \ {q}, !.todo = {q}] \in Context
        BY LeftTyped
      <4> QED
        BY <3>1, <4>1, <4>2
    <3>8. FrameOK'
      BY <2>0, <2>19, <3>1, <3>2 DEF Rearm, Go, FrameOK, Places
    <3>9. DataOK'
      BY <2>0, <2>19, <3>1, <3>2 DEF Rearm, DataOK, Pairs, Of, For, OwedBut, DelegateTo, MentionOf, Event, Reasons, AckStatus, Open, tracker, stores, frames, linear, gateway, EndSession, Keep, SignalsReturned
    <3> QED
      BY <3>8, <3>9
  <2>20. ASSUME NEW j \in Jobs, RearmReturns(j)
       PROVE  DataOK' /\ FrameOK'
    <3>1. [ctx[j] EXCEPT !.stage = "drain", !.left = {}] \in Context
      <4>1. ctx[j] \in Context
        BY <2>0 DEF FrameOK
      <4>2. \A c \in Context : [c EXCEPT !.stage = "drain", !.left = {}] \in Context
        BY StageTyped
      <4> QED
        BY <4>1, <4>2
    <3>8. FrameOK'
      BY <2>0, <2>20, <3>1, IdleTyped DEF RearmReturns, FrameOK, Places, Go, frames
    <3>9. DataOK'
      BY <2>0, <2>20 DEF RearmReturns, DataOK, Pairs, Of, For, OwedBut, DelegateTo, MentionOf, Event, Reasons, AckStatus, Open, tracker, stores, frames, linear, gateway
    <3> QED
      BY <3>8, <3>9
  <2>21. ASSUME NEW j \in Jobs, Drain(j)
       PROVE  DataOK' /\ FrameOK'
    <3> DEFINE bagTickets == Rows(bag, ctx[j].agent) \ ctx[j].ended
               regular == ctx[j].taken \cup bagTickets
               holds == IF ctx[j].rearmed THEN {} ELSE ctx[j].holds \ regular
    <3>1. [ctx[j] EXCEPT !.stage = "hold", !.holds = holds,
             !.todo = IF ctx[j].rearmed THEN {} ELSE regular] \in Context
      <4>1. ctx[j] \in Context
        BY <2>0 DEF FrameOK
      <4>2. regular \in SUBSET Pairs /\ holds \in SUBSET Pairs
        BY <4>1, RowsTyped, FieldsTyped
      <4>3. (IF ctx[j].rearmed THEN {} ELSE regular) \in SUBSET Pairs
        BY <4>2
      <4>4. \A c \in Context, S \in SUBSET Pairs, T \in SUBSET Pairs :
              [c EXCEPT !.stage = "hold", !.holds = S, !.todo = T] \in Context
        BY HoldsTyped
      <4> HIDE DEF regular, holds
      <4> QED
        BY <4>1, <4>2, <4>3, <4>4
    <3>8. FrameOK'
      BY <2>0, <2>21, <3>1 DEF Drain, Go, FrameOK, Places
    <3>9. DataOK'
      <4> HIDE DEF bagTickets
      <4>1. bag' \in [Pairs -> Reasons]
        BY <2>0, <2>21 DEF Drain, DataOK, Reasons, Of
      <4>2. ack' \in [Pairs -> AckStatus]
        BY <2>0, <2>21 DEF Drain, DataOK, Acknowledge, AckStatus
      <4> QED
        BY <2>0, <2>21, <4>1, <4>2 DEF Drain, DataOK, tracker, linear, gateway
    <3> QED
      BY <3>8, <3>9
  <2>22. ASSUME NEW j \in Jobs, HoldRetry(j)
       PROVE  DataOK' /\ FrameOK'
    <3>1. [ctx[j] EXCEPT !.stage = "last", !.todo = ctx[j].holds,
                      !.track = TRUE] \in Context
      <4>1. ctx[j] \in Context
        BY <2>0 DEF FrameOK
      <4>2. \A c \in Context :
              [c EXCEPT !.stage = "last", !.todo = c.holds, !.track = TRUE] \in Context
        BY HoldsTyped
      <4> QED
        BY <4>1, <4>2
    <3>8. FrameOK'
      BY <2>0, <2>22, <3>1, IdleTyped DEF HoldRetry, FrameOK, Places, Go, frames
    <3>9. DataOK'
      BY <2>0, <2>22 DEF HoldRetry, DataOK, Pairs, Of, For, OwedBut, DelegateTo, MentionOf, Event, Reasons, AckStatus, Open, tracker, stores, frames, linear, gateway
    <3> QED
      BY <3>8, <3>9
  <2>23. ASSUME NEW j \in Jobs, Forensics(j)
       PROVE  DataOK' /\ FrameOK'
    <3>1. \A p \in ctx[j].left : /\ p \in Pairs
                                /\ [ctx[j] EXCEPT !.left = @ \ {p}] \in Context
      <4>1. ctx[j] \in Context
        BY <2>0 DEF FrameOK
      <4>2. \A c \in Context : \A p \in c.left :
              p \in Pairs /\ [c EXCEPT !.left = c.left \ {p}] \in Context
        BY LeftTyped
      <4> QED
        BY <4>1, <4>2
    <3>8. FrameOK'
      BY <2>0, <2>23, <3>1, IdleTyped DEF Forensics, Go, FrameOK, Places
    <3>9. DataOK'
      BY <2>0, <2>23 DEF Forensics, DataOK, Pairs, Of, For, OwedBut, DelegateTo, MentionOf, Event, Reasons, AckStatus, Open, tracker, stores, frames, linear, gateway
    <3> QED
      BY <3>8, <3>9
  <2>24. ASSUME NEW j \in Jobs, ReplayReturns(j)
       PROVE  DataOK' /\ FrameOK'
    <3>8. FrameOK'
      BY <2>0, <2>24, IdleTyped DEF ReplayReturns, FrameOK, Places, Go, frames
    <3>9. DataOK'
      BY <2>0, <2>24 DEF ReplayReturns, DataOK, Pairs, Of, For, OwedBut, DelegateTo, MentionOf, Event, Reasons, AckStatus, Open, tracker, stores, frames, linear, gateway
    <3> QED
      BY <3>8, <3>9
  <2>25. ASSUME NEW j \in Jobs, SameTicketReturns(j)
       PROVE  DataOK' /\ FrameOK'
    <3>8. FrameOK'
      BY <2>0, <2>25, IdleTyped DEF SameTicketReturns, FrameOK, Places, Go, frames
    <3>9. DataOK'
      BY <2>0, <2>25 DEF SameTicketReturns, DataOK, FrameOK, Pairs, Of, For, OwedBut, DelegateTo, MentionOf, Event, Reasons, AckStatus, Open, tracker, stores, frames, linear, gateway
    <3> QED
      BY <3>8, <3>9
  <2>26. ASSUME NEW j \in Jobs, SameTicketThrows(j)
       PROVE  DataOK' /\ FrameOK'
    <3>8. FrameOK'
      BY <2>0, <2>26, IdleTyped DEF SameTicketThrows, FrameOK, Places, Go, frames
    <3>9. DataOK'
      BY <2>0, <2>26 DEF SameTicketThrows, DataOK, FrameOK, Pairs, Of, For, OwedBut, DelegateTo, MentionOf, Event, Reasons, AckStatus, Open, tracker, stores, frames, linear, gateway
    <3> QED
      BY <3>8, <3>9
  <2>27. ASSUME NEW j \in Jobs, Recovered(j)
       PROVE  DataOK' /\ FrameOK'
    <3>1. [ctx[j] EXCEPT !.todo = ctx[j].taken \cap Of(at[j][1])] \in Context
      <4>1. ctx[j] \in Context
        BY <2>0 DEF FrameOK
      <4>2. \A d \in Context : \A S : [d EXCEPT !.todo = d.taken \cap S] \in Context
        BY DEF Context
      <4> QED
        BY <4>1, <4>2
    <3>8. FrameOK'
      BY <2>0, <2>27, <3>1 DEF Recovered, Go, FrameOK, Places
    <3>9. DataOK'
      <4>0. at[j] \in Pairs
        BY <2>0, <2>27 DEF Recovered, FrameOK
      <4>1. /\ MarkIfPresent(at[j], "escalated") \in [Pairs -> AckStatus]
            /\ RecordDispatch(at[j]) \in [Pairs -> AckStatus]
            /\ Consume(at[j][2]) \in [Tickets -> Nat]
            /\ ResetBudget(at[j][2]) \in [Tickets -> Nat]
        BY <2>0, <4>0, RowUpdatesTyped DEF AckStatus
      <4>2. /\ ack' \in [Pairs -> AckStatus] /\ running' \subseteq Pairs
            /\ budget' \in [Tickets -> Nat]
        BY <2>0, <2>27, <4>0, <4>1 DEF Recovered, DataOK
      <4>3. owed' \subseteq owed
        BY <2>27 DEF Recovered, OwedBut
      <4>4. UNCHANGED <<tracker, bag, owns, linear, callbacks, restarts>>
        BY <2>27 DEF Recovered
      <4> QED
        BY <2>0, <4>2, <4>3, <4>4 DEF DataOK, tracker, linear
    <3> QED
      BY <3>8, <3>9
  <2>28. ASSUME NEW j \in Jobs, ReplayAgent(j)
       PROVE  DataOK' /\ FrameOK'
    <3>1. \A a, S : [ctx[j] EXCEPT !.stage = "replay", !.todo = Rows(bag, a),
                                  !.left = (@ \ Of(a)) \ S] \in Context
      <4>1. ctx[j] \in Context
        BY <2>0 DEF FrameOK
      <4>2. \A c \in Context, T \in SUBSET Pairs : \A S, U :
              [c EXCEPT !.stage = "replay", !.todo = T, !.left = (c.left \ U) \ S] \in Context
        BY ReplayFrameTyped
      <4>3. \A a : Rows(bag, a) \in SUBSET Pairs
        BY RowsTyped
      <4>4. ASSUME NEW a, NEW S
            PROVE  [ctx[j] EXCEPT !.stage = "replay", !.todo = Rows(bag, a),
                                  !.left = (@ \ Of(a)) \ S] \in Context
        <5> DEFINE c == ctx[j]
                   T == Rows(bag, a)
        <5>1. c \in Context /\ T \in SUBSET Pairs
          BY <4>1, <4>3
        <5>2. [c EXCEPT !.stage = "replay", !.todo = T, !.left = (c.left \ Of(a)) \ S] \in Context
          <6> HIDE DEF c, T
          <6> QED
            BY <4>2, <5>1
        <5> QED
          BY <5>2
      <4> QED
        BY <4>4
    <3>8. FrameOK'
      <4>1. CASE Go(j, "idle", IdleContext)
        BY <2>0, <2>28, <4>1, IdleTyped DEF ReplayAgent, Go, FrameOK, Places
      <4>2. CASE \E a, S : Go(j, "next", [ctx[j] EXCEPT !.stage = "replay",
                                !.todo = Rows(bag, a), !.left = (@ \ Of(a)) \ S])
        <5>1. PICK c \in Context : Go(j, "next", c)
          BY <3>1, <4>2
        <5> QED
          BY <2>0, <2>28, <5>1 DEF ReplayAgent, Go, FrameOK, Places
      <4> QED
        BY <2>28, <4>1, <4>2 DEF ReplayAgent
    <3>9. DataOK'
      BY <2>0, <2>28 DEF ReplayAgent, DataOK, Pairs, Of, For, OwedBut, DelegateTo, MentionOf, Event, Reasons, AckStatus, Open, tracker, stores, frames, linear, gateway
    <3> QED
      BY <3>8, <3>9
  <2>29. ASSUME NEW j \in Jobs, Check(j)
       PROVE  DataOK' /\ FrameOK'
    <3>1. \A answer \in {"failOpen", "actionable", "not"} :
            [ctx[j] EXCEPT !.answer = answer] \in Context
      BY <2>0 DEF FrameOK, Context
    <3>8. FrameOK'
      BY <2>0, <2>29, <3>1 DEF Check, Go, FrameOK, Places
    <3>9. DataOK'
      BY <2>0, <2>29 DEF Check, DataOK, Pairs, Of, For, OwedBut, DelegateTo, MentionOf, Event, Reasons, AckStatus, Open, tracker, stores, frames, linear, gateway
    <3> QED
      BY <3>8, <3>9
  <2>30. ASSUME NEW j \in Jobs, CheckOk(j)
       PROVE  DataOK' /\ FrameOK'
    <3>1. [ctx[j] EXCEPT !.answer = "none"] \in Context
      BY <2>0, AnswerTyped DEF FrameOK
    <3>8. FrameOK'
      BY <2>0, <2>30, <3>1, IdleTyped DEF CheckOk, FrameOK, Places, Go, frames
    <3>9. DataOK'
      BY <2>0, <2>30 DEF CheckOk, DataOK, Pairs, Of, For, OwedBut, DelegateTo, MentionOf, Event, Reasons, AckStatus, Open, tracker, stores, frames, linear, gateway
    <3> QED
      BY <3>8, <3>9
  <2>31. ASSUME NEW j \in Jobs, CheckPrune(j)
       PROVE  DataOK' /\ FrameOK'
    <3>1. [ctx[j] EXCEPT !.reason = "absent", !.answer = "none"] \in Context
      BY <2>0, AnswerTyped DEF FrameOK
    <3>8. FrameOK'
      BY <2>0, <2>31, <3>1, IdleTyped DEF CheckPrune, FrameOK, Places, Go, Pass, frames
    <3>9. DataOK'
      BY <2>0, <2>31 DEF CheckPrune, DataOK, Pairs, Of, For, OwedBut, DelegateTo, MentionOf, Event, Reasons, AckStatus, Open, tracker, stores, frames, linear, gateway, EndSession, Keep, SignalsReturned, Acknowledge
    <3> QED
      BY <3>8, <3>9
  <2>32. ASSUME NEW j \in Jobs, CheckDefer(j)
       PROVE  DataOK' /\ FrameOK'
    <3>1. [ctx[j] EXCEPT !.reason = "absent", !.answer = "none"] \in Context
      BY <2>0, AnswerTyped DEF FrameOK
    <3>8. FrameOK'
      BY <2>0, <2>32, <3>1, IdleTyped DEF CheckDefer, FrameOK, Places, Go, Pass, frames
    <3>9. DataOK'
      BY <2>0, <2>32 DEF CheckDefer, DataOK, Pairs, Of, For, OwedBut, DelegateTo, MentionOf, Event, Reasons, AckStatus, Open, tracker, stores, frames, linear, gateway, EndSession, Keep, SignalsReturned
    <3> QED
      BY <3>8, <3>9
  <2>33. ASSUME NEW j \in Jobs, NEW runId \in BOOLEAN, SendAccepted(j, runId)
       PROVE  DataOK' /\ FrameOK'
    <3>1. [ctx[j] EXCEPT !.reason = "absent",
                      !.rearmed = @ \/ ctx[j].stage = "rearm"] \in Context
      BY <2>0, AnswerTyped DEF FrameOK
    <3>8. FrameOK'
      BY <2>0, <2>33, <3>1, IdleTyped DEF SendAccepted, FrameOK, Places, Go, frames
    <3>9. DataOK'
      <4>0. at[j] \in Pairs
        BY <2>0, <2>33 DEF SendAccepted, FrameOK
      <4>1. /\ MarkIfPresent(at[j], "unconfirmed") \in [Pairs -> AckStatus]
            /\ RecordDispatch(at[j]) \in [Pairs -> AckStatus]
            /\ ResetBudget(at[j][2]) \in [Tickets -> Nat]
        BY <2>0, <4>0, RowUpdatesTyped DEF AckStatus
      <4>2. ack' \in [Pairs -> AckStatus] /\ budget' \in [Tickets -> Nat]
        BY <2>0, <2>33, <4>1 DEF SendAccepted, DataOK
      <4>3. running' \subseteq Pairs /\ owed' \subseteq owed
        BY <2>0, <2>33, <4>0 DEF SendAccepted, DataOK, OwedBut
      <4>4. /\ active' \subseteq Pairs /\ aged' \subseteq active' /\ queued' \subseteq Pairs
            /\ owns' \subseteq Jobs
            /\ UNCHANGED <<deferred, bag, linear, callbacks, restarts>>
        BY <2>0, <2>33 DEF SendAccepted, DataOK, EndSession, SignalsReturned, Keep
      <4> QED
        BY <2>0, <4>2, <4>3, <4>4 DEF DataOK, linear
    <3> QED
      BY <3>8, <3>9
  <2>34. ASSUME NEW j \in Jobs, SendFailed(j)
       PROVE  DataOK' /\ FrameOK'
    <3>1. [ctx[j] EXCEPT !.reason = "absent", !.answer = "none"] \in Context
      BY <2>0, AnswerTyped DEF FrameOK
    <3>8. FrameOK'
      BY <2>0, <2>34, <3>1, IdleTyped DEF SendFailed, FrameOK, Places, Go, Pass, frames
    <3>9. DataOK'
      BY <2>0, <2>34 DEF SendFailed, DataOK, FrameOK, Pairs, Of, For, OwedBut, DelegateTo, MentionOf, Event, Reasons, AckStatus, Open, tracker, stores, frames, linear, gateway
    <3> QED
      BY <3>8, <3>9
  <2>35. ASSUME NEW j \in Jobs, Examine(j)
       PROVE  DataOK' /\ FrameOK'
    <3>0. at[j] \in Pairs /\ at[j][2] \in Tickets
      BY <2>0, <2>35 DEF Examine, FrameOK, Pairs
    <3>a. MarkIfPresent(at[j], "escalated") \in [Pairs -> AckStatus] /\ ack \in [Pairs -> AckStatus]
      BY <2>0, <3>0, RowUpdatesTyped DEF AckStatus, DataOK
    <3>1. CASE Unresolved(j)
      <4>1. ack' \in [Pairs -> AckStatus]
        BY <3>a, <3>1, PrunedRows DEF Unresolved
      <4> QED
        BY <2>0, <2>35, <3>0, <3>1, <4>1, IdleTyped DEF Examine, Unresolved, Go,
           DataOK, FrameOK, Places, tracker, linear, gateway
    <3>2. CASE SkipsEntry(j)
      <4>1. ack' \in [Pairs -> AckStatus]
        BY <3>a, <3>2, PrunedRows DEF SkipsEntry
      <4> QED
        BY <2>0, <2>35, <3>0, <3>2, <4>1, IdleTyped DEF Examine, SkipsEntry, Go,
           DataOK, FrameOK, Places, tracker, linear, gateway
    <3>3. Consume(at[j][2]) \in [Tickets -> Nat]
      BY <2>0, <3>0, RowUpdatesTyped
    <3>4. CASE Exhausted(j)
      <4>1. ack' \in [Pairs -> AckStatus]
        BY <3>a, <3>4, PrunedRows DEF Exhausted
      <4> QED
        BY <2>0, <2>35, <3>0, <3>3, <3>4, <4>1, IdleTyped DEF Examine, Exhausted, Go,
           DataOK, FrameOK, Places, tracker, linear, gateway
    <3>5. CASE Redrives(j)
      <4>1. [ctx[j] EXCEPT !.todo = {at[j]}] \in Context
        BY <2>0, <3>0 DEF FrameOK, Context
      <4>2. FrameOK'
        BY <2>0, <2>35, <3>5, <4>1 DEF Examine, Redrives, Go, FrameOK, Places
      <4>3. DataOK'
        BY <2>0, <2>35, <3>0, <3>3, <3>5 DEF Examine, Redrives, EndSession, Keep,
           DataOK, Reasons, linear, gateway
      <4> QED
        BY <4>2, <4>3
    <3> QED
      BY <2>35, <3>1, <3>2, <3>4, <3>5 DEF Examine
  <2>36. ASSUME NEW j \in Jobs, BackoffOver(j)
       PROVE  DataOK' /\ FrameOK'
    <3>8. FrameOK'
      BY <2>0, <2>36, IdleTyped DEF BackoffOver, FrameOK, Places, Go, frames
    <3>9. DataOK'
      BY <2>0, <2>36 DEF BackoffOver, DataOK, Pairs, Of, For, OwedBut, DelegateTo, MentionOf, Event, Reasons, AckStatus, Open, tracker, stores, frames, linear, gateway
    <3> QED
      BY <3>8, <3>9
  <2>37. ASSUME NEW j \in Jobs, DelayOver(j)
       PROVE  DataOK' /\ FrameOK'
    <3>1. [ctx[j] EXCEPT !.stage = "agents"] \in Context
      <4>1. ctx[j] \in Context
        BY <2>0 DEF FrameOK
      <4>2. \A c \in Context : [c EXCEPT !.stage = "agents"] \in Context
        BY StageTyped
      <4> QED
        BY <4>1, <4>2
    <3>8. FrameOK'
      BY <2>0, <2>37, <3>1 DEF DelayOver, Go, FrameOK, Places
    <3>9. DataOK'
      BY <2>0, <2>37 DEF DelayOver, DataOK, Pairs, Of, For, OwedBut, DelegateTo, MentionOf, Event, Reasons, AckStatus, Open, tracker, stores, frames, linear, gateway
    <3> QED
      BY <3>8, <3>9
  <2>90. CASE UNCHANGED vars
    BY <2>0, <2>90 DEF DataOK, FrameOK, vars, tracker, stores, frames, linear, gateway
  <2>99. QED
    BY <2>90, <2>1, <2>2, <2>3, <2>4, <2>5, <2>6, <2>7, <2>8, <2>9, <2>10, <2>11, <2>12, <2>13, <2>14, <2>15, <2>16, <2>17, <2>18, <2>19, <2>20, <2>21, <2>22, <2>23, <2>24, <2>25, <2>26, <2>27, <2>28, <2>29, <2>30, <2>31, <2>32, <2>33, <2>34, <2>35, <2>36, <2>37 DEF Next, Environment, Trigger, Turn, Settle

\* Every reachable state has its type, and a job waiting on a ticket has one.
THEOREM TypeCorrect == Spec => []TypeOK
<1>1. Init => DataOK /\ FrameOK
  BY IdleTyped DEF Init, DataOK, FrameOK, Reasons, AckStatus, Places
<1>2. DataOK /\ FrameOK => TypeOK
  BY DEF DataOK, FrameOK, TypeOK
<1>3. QED
  BY <1>1, <1>2, TypeStep, PTL DEF Spec


\* The steps that preserve UniqueClaimant: a claim is made only for a pair that
\* has no session, by a job that is in no wake, and a job leaves its wake only
\* when it has given up its claim.
LEMMA ClaimStep ==
  DataOK /\ FrameOK /\ UniqueClaimant /\ [Next]_vars => UniqueClaimant'
<1> SUFFICES ASSUME DataOK, FrameOK, UniqueClaimant, [Next]_vars
             PROVE  UniqueClaimant'
  OBVIOUS
<1> USE DEF UniqueClaimant, InFlight
<1>0. DataOK /\ FrameOK /\ UniqueClaimant
  OBVIOUS
<1>1. ASSUME NEW t \in Tickets, NEW a \in Agents \cup {NoAgent}, Delegate(t, a)
      PROVE  UniqueClaimant'
  BY <1>0, <1>1 DEF Delegate, DataOK, FrameOK, tracker, frames
<1>2. ASSUME NEW t \in Tickets, NEW a \in Agents, Mention(t, a)
      PROVE  UniqueClaimant'
  BY <1>0, <1>2 DEF Mention, DataOK, FrameOK, tracker, frames
<1>3. ASSUME NEW t \in Tickets, Close(t)
      PROVE  UniqueClaimant'
  BY <1>0, <1>3 DEF Close, DataOK, FrameOK, tracker, frames
<1>4. ASSUME NEW p \in Pairs, SessionFinishes(p)
      PROVE  UniqueClaimant'
  BY <1>0, <1>4 DEF SessionFinishes, DataOK, FrameOK, tracker, frames
<1>5. ASSUME NEW p \in Pairs, ProxyActivity(p)
      PROVE  UniqueClaimant'
  BY <1>0, <1>5 DEF ProxyActivity, ResetBudget, DataOK, FrameOK, tracker, frames
<1>6. ASSUME NEW p \in Pairs, Age(p)
      PROVE  UniqueClaimant'
  BY <1>0, <1>6 DEF Age, DataOK, FrameOK, tracker, frames
<1>7. ASSUME NEW e \in inbox, Suppress(e)
      PROVE  UniqueClaimant'
  BY <1>0, <1>7 DEF Suppress, DataOK, FrameOK, tracker, frames
<1>8. ASSUME NEW t \in Tickets, TerminalEvent(t)
      PROVE  UniqueClaimant'
  BY <1>0, <1>8 DEF TerminalEvent, DataOK, FrameOK, tracker, frames
<1>9. ASSUME NEW e \in inbox, AdmitDeferred(e)
      PROVE  UniqueClaimant'
  BY <1>0, <1>9 DEF AdmitDeferred, DataOK, FrameOK, tracker, frames
<1>10. ASSUME NEW j \in Jobs, NEW e \in inbox, Admit(j, e)
      PROVE  UniqueClaimant'
  BY <1>0, <1>10 DEF Admit, CleanupStale, Keep, Start, DataOK, FrameOK, tracker, frames
<1>11. ASSUME NEW j \in Jobs, NEW a \in Agents, SessionEnd(j, a)
      PROVE  UniqueClaimant'
  BY <1>0, <1>11 DEF SessionEnd, Keep, Start, DataOK, FrameOK, tracker, frames
<1>12. ASSUME NEW j \in Jobs, StaleTimer(j)
      PROVE  UniqueClaimant'
  BY <1>0, <1>12 DEF StaleTimer, CleanupStale, Keep, Start, DataOK, FrameOK, tracker, frames
<1>13. ASSUME NEW j \in Jobs, NEW p \in Pairs, WatchdogCycle(j, p)
      PROVE  UniqueClaimant'
  BY <1>0, <1>13 DEF WatchdogCycle, DataOK, FrameOK, tracker, frames
<1>14. ASSUME NEW j \in Jobs, Restart(j)
      PROVE  UniqueClaimant'
  BY <1>0, <1>14 DEF Restart, DataOK, FrameOK, tracker, frames
<1>15. ASSUME NEW j \in Jobs, ClaimNext(j)
      PROVE  UniqueClaimant'
  BY <1>0, <1>15 DEF ClaimNext, Go, Wakeable, DataOK, FrameOK, tracker, frames
<1>16. ASSUME NEW j \in Jobs, LoopReturns(j)
      PROVE  UniqueClaimant'
  BY <1>0, <1>16 DEF LoopReturns, Go, DataOK, FrameOK, tracker, frames
<1>17. ASSUME NEW j \in Jobs, OwnTicket(j)
      PROVE  UniqueClaimant'
  BY <1>0, <1>17 DEF OwnTicket, Go, Resumes, DataOK, FrameOK, tracker, frames
<1>18. ASSUME NEW j \in Jobs, Finish(j)
      PROVE  UniqueClaimant'
  BY <1>0, <1>18 DEF Finish, Go, Resumes, DataOK, FrameOK, tracker, frames
<1>19. ASSUME NEW j \in Jobs, Rearm(j)
      PROVE  UniqueClaimant'
  BY <1>0, <1>19 DEF Rearm, Go, Resumes, EndSession, Keep, DataOK, FrameOK, tracker, frames
<1>20. ASSUME NEW j \in Jobs, RearmReturns(j)
      PROVE  UniqueClaimant'
  BY <1>0, <1>20 DEF RearmReturns, Go, Resumes, DataOK, FrameOK, tracker, frames
<1>21. ASSUME NEW j \in Jobs, Drain(j)
      PROVE  UniqueClaimant'
  BY <1>0, <1>21 DEF Drain, Go, Resumes, DataOK, FrameOK, tracker, frames
<1>22. ASSUME NEW j \in Jobs, HoldRetry(j)
      PROVE  UniqueClaimant'
  BY <1>0, <1>22 DEF HoldRetry, Go, Resumes, DataOK, FrameOK, tracker, frames
<1>23. ASSUME NEW j \in Jobs, Forensics(j)
      PROVE  UniqueClaimant'
  BY <1>0, <1>23 DEF Forensics, Go, Resumes, DataOK, FrameOK, tracker, frames
<1>24. ASSUME NEW j \in Jobs, ReplayReturns(j)
      PROVE  UniqueClaimant'
  BY <1>0, <1>24 DEF ReplayReturns, Go, Resumes, DataOK, FrameOK, tracker, frames
<1>25. ASSUME NEW j \in Jobs, SameTicketReturns(j)
      PROVE  UniqueClaimant'
  BY <1>0, <1>25 DEF SameTicketReturns, Go, DataOK, FrameOK, tracker, frames
<1>26. ASSUME NEW j \in Jobs, SameTicketThrows(j)
      PROVE  UniqueClaimant'
  BY <1>0, <1>26 DEF SameTicketThrows, Go, DataOK, FrameOK, tracker, frames
<1>27. ASSUME NEW j \in Jobs, Recovered(j)
      PROVE  UniqueClaimant'
  BY <1>0, <1>27 DEF Recovered, Go, DataOK, FrameOK, tracker, frames
<1>28. ASSUME NEW j \in Jobs, ReplayAgent(j)
      PROVE  UniqueClaimant'
  BY <1>0, <1>28 DEF ReplayAgent, Go, Resumes, DataOK, FrameOK, tracker, frames
<1>29. ASSUME NEW j \in Jobs, Check(j)
      PROVE  UniqueClaimant'
  BY <1>0, <1>29 DEF Check, Go, DataOK, FrameOK, tracker, frames
<1>30. ASSUME NEW j \in Jobs, CheckOk(j)
      PROVE  UniqueClaimant'
  BY <1>0, <1>30 DEF CheckOk, Go, DataOK, FrameOK, tracker, frames
<1>31. ASSUME NEW j \in Jobs, CheckPrune(j)
      PROVE  UniqueClaimant'
  BY <1>0, <1>31 DEF CheckPrune, Go, Pass, EndSession, Keep, DataOK, FrameOK, tracker, frames
<1>32. ASSUME NEW j \in Jobs, CheckDefer(j)
      PROVE  UniqueClaimant'
  BY <1>0, <1>32 DEF CheckDefer, Go, Pass, EndSession, Keep, DataOK, FrameOK, tracker, frames
<1>33. ASSUME NEW j \in Jobs, NEW runId \in BOOLEAN, SendAccepted(j, runId)
      PROVE  UniqueClaimant'
  BY <1>0, <1>33 DEF SendAccepted, Go, EndSession, Keep, DataOK, FrameOK, tracker, frames
<1>34. ASSUME NEW j \in Jobs, SendFailed(j)
      PROVE  UniqueClaimant'
  BY <1>0, <1>34 DEF SendFailed, Go, Pass, DataOK, FrameOK, tracker, frames
<1>35. ASSUME NEW j \in Jobs, Examine(j)
      PROVE  UniqueClaimant'
  BY <1>0, <1>35 DEF Examine, Go, Unresolved, SkipsEntry, Exhausted, Redrives, EndSession, Keep, DataOK, FrameOK, tracker, frames
<1>36. ASSUME NEW j \in Jobs, BackoffOver(j)
      PROVE  UniqueClaimant'
  BY <1>0, <1>36 DEF BackoffOver, Go, DataOK, FrameOK, tracker, frames
<1>37. ASSUME NEW j \in Jobs, DelayOver(j)
      PROVE  UniqueClaimant'
  BY <1>0, <1>37 DEF DelayOver, Go, DataOK, FrameOK, tracker, frames
<1>90. CASE UNCHANGED vars
  BY <1>0, <1>90 DEF vars, tracker, frames
<1>99. QED
  BY <1>90, <1>1, <1>2, <1>3, <1>4, <1>5, <1>6, <1>7, <1>8, <1>9, <1>10, <1>11, <1>12, <1>13, <1>14, <1>15, <1>16, <1>17, <1>18, <1>19, <1>20, <1>21, <1>22, <1>23, <1>24, <1>25, <1>26, <1>27, <1>28, <1>29, <1>30, <1>31, <1>32, <1>33, <1>34, <1>35, <1>36, <1>37
  DEF Next, Environment, Trigger, Turn, Settle

\* However the callers interleave, a claim that nobody has ended is in the
\* tracker and is the only claim of its pair (resignal.ts 107-115).
THEOREM ClaimsUnique == Spec => []UniqueClaimant
<1>1. Init => DataOK /\ FrameOK /\ UniqueClaimant
  BY IdleTyped DEF Init, DataOK, FrameOK, Reasons, AckStatus, Places, UniqueClaimant
<1>2. DataOK /\ FrameOK /\ UniqueClaimant /\ [Next]_vars
      => (DataOK /\ FrameOK /\ UniqueClaimant)'
  BY TypeStep, ClaimStep
<1>3. QED
  BY <1>1, <1>2, PTL DEF Spec

\* The wakes, after a step that ends no claim, ends the wake of a job, or ends
\* the claims of S.
LEMMA WakesKept ==
  ASSUME owns' = owns, \A i \in owns : at'[i] = at[i]
  PROVE  Wakes' = Wakes
  BY DEF Wakes

LEMMA WakesSettled ==
  ASSUME NEW j, owns' = owns \ {j}, \A i \in owns \ {j} : at'[i] = at[i]
  PROVE  Wakes' = {w \in Wakes : w[1] # j}
  BY DEF Wakes

LEMMA WakesReleased ==
  ASSUME NEW S, owns' = Keep(S), \A i \in Keep(S) : at'[i] = at[i]
  PROVE  Wakes' = {w \in Wakes : w[2] \notin S}
  BY DEF Wakes, Keep

\* A step that leaves the claims alone, and one that ends those of S.
LEMMA Stutters ==
  ASSUME active' = active, owns' = owns, \A i \in owns : at'[i] = at[i]
  PROVE  [Claims!Next]_<<active, Wakes>>
  BY WakesKept

LEMMA Releases ==
  ASSUME NEW S \in SUBSET Pairs, active' = active \ S, owns' = Keep(S),
         \A i \in Keep(S) : at'[i] = at[i]
  PROVE  [Claims!Next]_<<active, Wakes>>
  BY WakesReleased DEF Claims!Next, Claims!Release

LEMMA Settles ==
  ASSUME NEW j \in Jobs, active' = active, owns' = owns \ {j},
         \A i \in owns \ {j} : at'[i] = at[i]
  PROVE  [Claims!Next]_<<active, Wakes>>
  BY WakesSettled DEF Claims!Next, Claims!Settle

LEMMA ClaimsStep ==
  DataOK /\ FrameOK /\ UniqueClaimant /\ [Next]_vars
  => [Claims!Next]_<<active, Wakes>>
<1> SUFFICES ASSUME DataOK, FrameOK, UniqueClaimant, [Next]_vars
             PROVE  [Claims!Next]_<<active, Wakes>>
  OBVIOUS
<1>0. DataOK /\ FrameOK /\ UniqueClaimant
  OBVIOUS
<1>a. /\ at \in [Jobs -> Pairs \cup {NoPair}] /\ owns \subseteq Jobs
      /\ \A i \in owns : pc[i] \in {"check", "checked", "send"}
  BY <1>0 DEF DataOK, FrameOK, UniqueClaimant, InFlight
<1>1. ASSUME NEW t \in Tickets, NEW a \in Agents \cup {NoAgent}, Delegate(t, a)
      PROVE  [Claims!Next]_<<active, Wakes>>
  BY <1>a, <1>1, Stutters DEF Delegate, tracker, frames
<1>2. ASSUME NEW t \in Tickets, NEW a \in Agents, Mention(t, a)
      PROVE  [Claims!Next]_<<active, Wakes>>
  BY <1>a, <1>2, Stutters DEF Mention, tracker, frames
<1>3. ASSUME NEW t \in Tickets, Close(t)
      PROVE  [Claims!Next]_<<active, Wakes>>
  BY <1>a, <1>3, Stutters DEF Close, tracker, frames
<1>4. ASSUME NEW p \in Pairs, SessionFinishes(p)
      PROVE  [Claims!Next]_<<active, Wakes>>
  BY <1>a, <1>4, Stutters DEF SessionFinishes, tracker, frames
<1>5. ASSUME NEW p \in Pairs, ProxyActivity(p)
      PROVE  [Claims!Next]_<<active, Wakes>>
  BY <1>a, <1>5, Stutters DEF ProxyActivity, tracker, frames
<1>6. ASSUME NEW p \in Pairs, Age(p)
      PROVE  [Claims!Next]_<<active, Wakes>>
  BY <1>a, <1>6, Stutters DEF Age, tracker, frames
<1>7. ASSUME NEW e \in inbox, Suppress(e)
      PROVE  [Claims!Next]_<<active, Wakes>>
  BY <1>a, <1>7, Stutters DEF Suppress, tracker, frames
<1>8. ASSUME NEW t \in Tickets, TerminalEvent(t)
      PROVE  [Claims!Next]_<<active, Wakes>>
  BY <1>a, <1>8, Stutters DEF TerminalEvent, tracker, frames
<1>9. ASSUME NEW e \in inbox, AdmitDeferred(e)
      PROVE  [Claims!Next]_<<active, Wakes>>
  BY <1>a, <1>9, Stutters DEF AdmitDeferred, tracker, frames
<1>10. ASSUME NEW j \in Jobs, NEW e \in inbox, Admit(j, e)
      PROVE  [Claims!Next]_<<active, Wakes>>
  <2>1. aged \in SUBSET Pairs
    BY <1>0 DEF DataOK
  <2> QED
    BY <1>a, <1>10, <2>1, Releases DEF Admit, CleanupStale, Start, Keep
<1>11. ASSUME NEW j \in Jobs, NEW a \in Agents, SessionEnd(j, a)
      PROVE  [Claims!Next]_<<active, Wakes>>
  <2>1. active \cap Of(a) \in SUBSET Pairs
    BY <1>0 DEF DataOK
  <2> QED
    BY <1>a, <1>11, <2>1, Releases DEF SessionEnd, Start, Keep
<1>12. ASSUME NEW j \in Jobs, StaleTimer(j)
      PROVE  [Claims!Next]_<<active, Wakes>>
  <2>1. aged \in SUBSET Pairs
    BY <1>0 DEF DataOK
  <2> QED
    BY <1>a, <1>12, <2>1, Releases DEF StaleTimer, CleanupStale, Start, Keep
<1>13. ASSUME NEW j \in Jobs, NEW p \in Pairs, WatchdogCycle(j, p)
      PROVE  [Claims!Next]_<<active, Wakes>>
  BY <1>a, <1>13, Stutters DEF WatchdogCycle, tracker, frames
<1>14. ASSUME NEW j \in Jobs, Restart(j)
      PROVE  [Claims!Next]_<<active, Wakes>>
  <2>1. Keep(Pairs) = {}
    BY <1>0, <1>a DEF FrameOK, Keep
  <2> QED
    BY <1>0, <1>14, <2>1, Releases DEF Restart, DataOK
<1>15. ASSUME NEW j \in Jobs, ClaimNext(j)
      PROVE  [Claims!Next]_<<active, Wakes>>
  <2>1. PICK p \in Wakeable(j) :
          active' = active \cup {p} /\ owns' = owns \cup {j} /\ at' = [at EXCEPT ![j] = p]
    BY <1>15 DEF ClaimNext
  <2>2. p \in Pairs \ active /\ j \notin owns
    BY <1>0, <1>a, <1>15 DEF ClaimNext, Wakeable, FrameOK, Context
  <2>3. Wakes' = Wakes \cup {<<j, p>>}
    BY <1>a, <2>1, <2>2 DEF Wakes
  <2>4. \A w \in Wakes : w[1] # j
    BY <2>2 DEF Wakes
  <2> QED
    BY <2>1, <2>2, <2>3, <2>4 DEF Claims!Next, Claims!Claim
<1>16. ASSUME NEW j \in Jobs, LoopReturns(j)
      PROVE  [Claims!Next]_<<active, Wakes>>
  BY <1>a, <1>16, Stutters DEF LoopReturns, Go, tracker, frames
<1>17. ASSUME NEW j \in Jobs, OwnTicket(j)
      PROVE  [Claims!Next]_<<active, Wakes>>
  BY <1>a, <1>17, Stutters DEF OwnTicket, Go, Resumes, tracker, frames
<1>18. ASSUME NEW j \in Jobs, Finish(j)
      PROVE  [Claims!Next]_<<active, Wakes>>
  BY <1>a, <1>18, Stutters DEF Finish, Go, Resumes, tracker, frames
<1>19. ASSUME NEW j \in Jobs, Rearm(j)
      PROVE  [Claims!Next]_<<active, Wakes>>
  <2>1. PICK p \in ctx[j].left : EndSession(p)
    BY <1>19 DEF Rearm
  <2>2. {p} \in SUBSET Pairs
    BY <1>0, <2>1 DEF FrameOK, Context
  <2> QED
    BY <1>a, <1>19, <2>1, <2>2, Releases DEF Rearm, EndSession, Keep
<1>20. ASSUME NEW j \in Jobs, RearmReturns(j)
      PROVE  [Claims!Next]_<<active, Wakes>>
  BY <1>a, <1>20, Stutters DEF RearmReturns, Go, Resumes, tracker, frames
<1>21. ASSUME NEW j \in Jobs, Drain(j)
      PROVE  [Claims!Next]_<<active, Wakes>>
  BY <1>a, <1>21, Stutters DEF Drain, Go, Resumes, tracker, frames
<1>22. ASSUME NEW j \in Jobs, HoldRetry(j)
      PROVE  [Claims!Next]_<<active, Wakes>>
  BY <1>a, <1>22, Stutters DEF HoldRetry, Go, Resumes, tracker, frames
<1>23. ASSUME NEW j \in Jobs, Forensics(j)
      PROVE  [Claims!Next]_<<active, Wakes>>
  BY <1>a, <1>23, Stutters DEF Forensics, Go, Resumes, tracker, frames
<1>24. ASSUME NEW j \in Jobs, ReplayReturns(j)
      PROVE  [Claims!Next]_<<active, Wakes>>
  BY <1>a, <1>24, Stutters DEF ReplayReturns, Go, Resumes, tracker, frames
<1>25. ASSUME NEW j \in Jobs, SameTicketReturns(j)
      PROVE  [Claims!Next]_<<active, Wakes>>
  BY <1>a, <1>25, Stutters DEF SameTicketReturns, Go, tracker, frames
<1>26. ASSUME NEW j \in Jobs, SameTicketThrows(j)
      PROVE  [Claims!Next]_<<active, Wakes>>
  BY <1>a, <1>26, Stutters DEF SameTicketThrows, Go, tracker, frames
<1>27. ASSUME NEW j \in Jobs, Recovered(j)
      PROVE  [Claims!Next]_<<active, Wakes>>
  BY <1>a, <1>27, Stutters DEF Recovered, Go, tracker, frames
<1>28. ASSUME NEW j \in Jobs, ReplayAgent(j)
      PROVE  [Claims!Next]_<<active, Wakes>>
  BY <1>a, <1>28, Stutters DEF ReplayAgent, Go, Resumes, tracker, frames
<1>29. ASSUME NEW j \in Jobs, Check(j)
      PROVE  [Claims!Next]_<<active, Wakes>>
  BY <1>a, <1>29, Stutters DEF Check, Go, tracker, frames
<1>30. ASSUME NEW j \in Jobs, CheckOk(j)
      PROVE  [Claims!Next]_<<active, Wakes>>
  BY <1>a, <1>30, Stutters DEF CheckOk, Go, tracker, frames
<1>31. ASSUME NEW j \in Jobs, CheckPrune(j)
      PROVE  [Claims!Next]_<<active, Wakes>>
  <2>1. {at[j]} \in SUBSET Pairs
    BY <1>0, <1>31 DEF CheckPrune, FrameOK
  <2> QED
    BY <1>a, <1>31, <2>1, Releases DEF CheckPrune, Go, Pass, EndSession, Keep
<1>32. ASSUME NEW j \in Jobs, CheckDefer(j)
      PROVE  [Claims!Next]_<<active, Wakes>>
  <2>1. {at[j]} \in SUBSET Pairs
    BY <1>0, <1>32 DEF CheckDefer, FrameOK
  <2> QED
    BY <1>a, <1>32, <2>1, Releases DEF CheckDefer, Go, Pass, EndSession, Keep
<1>33. ASSUME NEW j \in Jobs, NEW runId \in BOOLEAN, SendAccepted(j, runId)
      PROVE  [Claims!Next]_<<active, Wakes>>
  <2>1. {at[j]} \in SUBSET Pairs
    BY <1>0, <1>33 DEF SendAccepted, FrameOK
  <2>2. CASE runId \/ ctx[j].caller # "webhook"
    BY <1>a, <1>33, <2>2, Settles DEF SendAccepted
  <2>3. CASE ~(runId \/ ctx[j].caller # "webhook")
    BY <1>a, <1>33, <2>1, <2>3, Releases DEF SendAccepted, EndSession, Keep
  <2> QED
    BY <2>2, <2>3
<1>34. ASSUME NEW j \in Jobs, SendFailed(j)
      PROVE  [Claims!Next]_<<active, Wakes>>
  BY <1>a, <1>34, Settles DEF SendFailed, Pass, Go, tracker
<1>35. ASSUME NEW j \in Jobs, Examine(j)
      PROVE  [Claims!Next]_<<active, Wakes>>
  <2>1. at[j] \in Pairs /\ j \notin owns
    BY <1>0, <1>a, <1>35 DEF Examine, FrameOK
  <2>2. CASE Unresolved(j) \/ SkipsEntry(j) \/ Exhausted(j)
    BY <1>a, <2>1, <2>2, Stutters DEF Unresolved, SkipsEntry, Exhausted, tracker
  <2>3. CASE Redrives(j)
    <3>1. /\ active' = active \ {at[j]} /\ owns' = Keep({at[j]})
          /\ at' = [at EXCEPT ![j] = NoPair]
      BY <2>3 DEF Redrives, EndSession
    <3>2. {at[j]} \in SUBSET Pairs /\ \A i \in Keep({at[j]}) : at'[i] = at[i]
      BY <1>a, <2>1, <3>1 DEF Keep
    <3> QED
      BY <3>1, <3>2, Releases
  <2> QED
    BY <1>35, <2>2, <2>3 DEF Examine
<1>36. ASSUME NEW j \in Jobs, BackoffOver(j)
      PROVE  [Claims!Next]_<<active, Wakes>>
  BY <1>a, <1>36, Stutters DEF BackoffOver, Go, tracker, frames
<1>37. ASSUME NEW j \in Jobs, DelayOver(j)
      PROVE  [Claims!Next]_<<active, Wakes>>
  BY <1>a, <1>37, Stutters DEF DelayOver, Go, tracker, frames
<1>90. CASE UNCHANGED vars
  BY <1>90, Stutters DEF vars, tracker, frames
<1>99. QED
  BY <1>90, <1>1, <1>2, <1>3, <1>4, <1>5, <1>6, <1>7, <1>8, <1>9, <1>10, <1>11, <1>12, <1>13, <1>14, <1>15, <1>16, <1>17, <1>18, <1>19, <1>20, <1>21, <1>22, <1>23, <1>24, <1>25, <1>26, <1>27, <1>28, <1>29, <1>30, <1>31, <1>32, <1>33, <1>34, <1>35, <1>36, <1>37
  DEF Next, Environment, Trigger, Turn, Settle

\* The tracker implements SessionClaims for the callers that share it: no step of
\* theirs moves a claim from one wake to another.
THEOREM ClaimsImplemented == Spec => ImplementsClaims
<1>1. Init => Claims!Init
  BY DEF Init, Claims!Init, Wakes
<1>2. Init => DataOK /\ FrameOK /\ UniqueClaimant
  BY IdleTyped DEF Init, DataOK, FrameOK, Reasons, AckStatus, Places, UniqueClaimant
<1>3. DataOK /\ FrameOK /\ UniqueClaimant /\ [Next]_vars
      => (DataOK /\ FrameOK /\ UniqueClaimant)'
  BY TypeStep, ClaimStep
<1>4. QED
  BY <1>1, <1>2, <1>3, ClaimsStep, PTL DEF Spec, ImplementsClaims, Claims!Spec

\* Without the callers that end the claims of others, /session-end and the
\* watchdog, every wake keeps its claim until its send is over.
NobodyEndsClaims == Callers \subseteq {"webhook", "staleTimer", "replay"}
WakesHold ==
  /\ callbacks = {}
  /\ \A j \in Jobs : pc[j] \notin {"examine", "backoff"} /\ ctx[j].stage # "rearm"
  /\ \A j \in Jobs : InFlight(j) => j \in owns /\ at[j] \notin aged

LEMMA WakesHoldStep ==
  NobodyEndsClaims /\ DataOK /\ FrameOK /\ UniqueClaimant /\ WakesHold /\ [Next]_vars
  => WakesHold'
<1> SUFFICES ASSUME NobodyEndsClaims, DataOK, FrameOK, UniqueClaimant, WakesHold,
                    [Next]_vars
             PROVE  WakesHold'
  OBVIOUS
<1>0. DataOK /\ FrameOK /\ UniqueClaimant /\ WakesHold /\ NobodyEndsClaims
  OBVIOUS
<1>a. /\ at \in [Jobs -> Pairs \cup {NoPair}] /\ pc \in [Jobs -> Places]
      /\ ctx \in [Jobs -> Context] /\ owns \subseteq Jobs
      /\ aged \subseteq active
  BY <1>0 DEF DataOK, FrameOK
<1>b. /\ {"sessionEnd", "watchdog"} \cap Callers = {}
      /\ callbacks = {}
      /\ \A j \in Jobs : pc[j] \notin {"examine", "backoff"} /\ ctx[j].stage # "rearm"
      /\ \A j \in Jobs : InFlight(j) => j \in owns /\ at[j] \notin aged
      /\ \A i, j \in owns : at[i] = at[j] => i = j
      /\ IdleContext.stage # "rearm"
  BY <1>0 DEF NobodyEndsClaims, WakesHold, UniqueClaimant, IdleContext
<1> USE DEF InFlight
<1>1. ASSUME NEW t \in Tickets, NEW a \in Agents \cup {NoAgent}, Delegate(t, a)
      PROVE  WakesHold'
  BY <1>a, <1>b, <1>1, IdleTyped DEF Delegate, WakesHold, Context, tracker, stores, frames, gateway
<1>2. ASSUME NEW t \in Tickets, NEW a \in Agents, Mention(t, a)
      PROVE  WakesHold'
  BY <1>a, <1>b, <1>2, IdleTyped DEF Mention, WakesHold, Context, tracker, stores, frames, gateway
<1>3. ASSUME NEW t \in Tickets, Close(t)
      PROVE  WakesHold'
  BY <1>a, <1>b, <1>3, IdleTyped DEF Close, WakesHold, Context, tracker, stores, frames, gateway
<1>4. ASSUME NEW p \in Pairs, SessionFinishes(p)
      PROVE  WakesHold'
  BY <1>a, <1>b, <1>4, IdleTyped DEF SessionFinishes, WakesHold, Context, tracker, stores, frames, gateway
<1>5. ASSUME NEW p \in Pairs, ProxyActivity(p)
      PROVE  WakesHold'
  BY <1>a, <1>b, <1>5, IdleTyped DEF ProxyActivity, WakesHold, Context, tracker, stores, frames, gateway
<1>6. ASSUME NEW p \in Pairs, Age(p)
      PROVE  WakesHold'
  BY <1>a, <1>b, <1>6, IdleTyped DEF Age, WakesHold, Context, tracker, stores, frames, gateway
<1>7. ASSUME NEW e \in inbox, Suppress(e)
      PROVE  WakesHold'
  BY <1>a, <1>b, <1>7, IdleTyped DEF Suppress, WakesHold, Context, tracker, stores, frames, gateway
<1>8. ASSUME NEW t \in Tickets, TerminalEvent(t)
      PROVE  WakesHold'
  BY <1>a, <1>b, <1>8, IdleTyped DEF TerminalEvent, WakesHold, Context, tracker, stores, frames, gateway
<1>9. ASSUME NEW e \in inbox, AdmitDeferred(e)
      PROVE  WakesHold'
  BY <1>a, <1>b, <1>9, IdleTyped DEF AdmitDeferred, WakesHold, Context, tracker, stores, frames, gateway
<1>10. ASSUME NEW j \in Jobs, NEW e \in inbox, Admit(j, e)
      PROVE  WakesHold'
  BY <1>a, <1>b, <1>10, IdleTyped DEF Admit, CleanupStale, Keep, Start, WakesHold, Context, tracker, stores, frames, gateway
<1>11. ASSUME NEW j \in Jobs, NEW a \in Agents, SessionEnd(j, a)
      PROVE  WakesHold'
  BY <1>a, <1>b, <1>11, IdleTyped DEF SessionEnd, Keep, Start, WakesHold, Context, tracker, stores, frames, gateway
<1>12. ASSUME NEW j \in Jobs, StaleTimer(j)
      PROVE  WakesHold'
  BY <1>a, <1>b, <1>12, IdleTyped DEF StaleTimer, CleanupStale, Keep, Start, WakesHold, Context, tracker, stores, frames, gateway
<1>13. ASSUME NEW j \in Jobs, NEW p \in Pairs, WatchdogCycle(j, p)
      PROVE  WakesHold'
  BY <1>a, <1>b, <1>13, IdleTyped DEF WatchdogCycle, WakesHold, Context, tracker, stores, frames, gateway
<1>14. ASSUME NEW j \in Jobs, Restart(j)
      PROVE  WakesHold'
  BY <1>a, <1>b, <1>14, IdleTyped DEF Restart, WakesHold, Context, tracker, stores, frames, gateway
<1>15. ASSUME NEW j \in Jobs, ClaimNext(j)
      PROVE  WakesHold'
  BY <1>a, <1>b, <1>15, IdleTyped DEF ClaimNext, Go, Wakeable, WakesHold, Context, tracker, stores, frames, gateway
<1>16. ASSUME NEW j \in Jobs, LoopReturns(j)
      PROVE  WakesHold'
  BY <1>a, <1>b, <1>16, IdleTyped DEF LoopReturns, Go, WakesHold, Context, tracker, stores, frames, gateway
<1>17. ASSUME NEW j \in Jobs, OwnTicket(j)
      PROVE  WakesHold'
  <2>1. pc' \in {[pc EXCEPT ![j] = "deliver"], [pc EXCEPT ![j] = "next"]}
    BY <1>17 DEF OwnTicket, Go
  <2>2. \A i \in Jobs : i # j => pc'[i] = pc[i] /\ at'[i] = at[i] /\ ctx'[i] = ctx[i]
    BY <1>a, <1>17 DEF OwnTicket, Go
  <2>3. ctx'[j].stage = "last"
    <3>1. CASE ctx[j].pair \in active
      BY <1>a, <1>17, <3>1 DEF OwnTicket, Go, Context
    <3>2. CASE ctx[j].pair \notin active
      <4>1. PICK T : ctx' = [ctx EXCEPT ![j] = [ctx[j] EXCEPT !.stage = "last", !.todo = T]]
        BY <1>17, <3>2 DEF OwnTicket, Go
      <4>2. ctx'[j] = [ctx[j] EXCEPT !.stage = "last", !.todo = T]
        BY <1>a, <4>1
      <4> QED
        BY <1>a, <4>2 DEF Context
    <3> QED
      BY <3>1, <3>2
  <2>4. UNCHANGED <<aged, owns, callbacks>>
    BY <1>17 DEF OwnTicket, tracker, gateway
  <2> QED
    BY <1>a, <1>b, <2>1, <2>2, <2>3, <2>4 DEF WakesHold
<1>18. ASSUME NEW j \in Jobs, Finish(j)
      PROVE  WakesHold'
  BY <1>a, <1>b, <1>18, IdleTyped DEF Finish, Go, Resumes, WakesHold, Context, tracker, stores, frames, gateway
<1>19. ASSUME NEW j \in Jobs, Rearm(j)
      PROVE  WakesHold'
  BY <1>a, <1>b, <1>19, IdleTyped DEF Rearm, Go, Resumes, EndSession, Keep, WakesHold, Context, tracker, stores, frames, gateway
<1>20. ASSUME NEW j \in Jobs, RearmReturns(j)
      PROVE  WakesHold'
  BY <1>a, <1>b, <1>20, IdleTyped DEF RearmReturns, Go, Resumes, WakesHold, Context, tracker, stores, frames, gateway
<1>21. ASSUME NEW j \in Jobs, Drain(j)
      PROVE  WakesHold'
  BY <1>a, <1>b, <1>21, IdleTyped DEF Drain, Go, Resumes, WakesHold, Context, tracker, stores, frames, gateway
<1>22. ASSUME NEW j \in Jobs, HoldRetry(j)
      PROVE  WakesHold'
  BY <1>a, <1>b, <1>22, IdleTyped DEF HoldRetry, Go, Resumes, WakesHold, Context, tracker, stores, frames, gateway
<1>23. ASSUME NEW j \in Jobs, Forensics(j)
      PROVE  WakesHold'
  BY <1>a, <1>b, <1>23, IdleTyped DEF Forensics, Go, Resumes, WakesHold, Context, tracker, stores, frames, gateway
<1>24. ASSUME NEW j \in Jobs, ReplayReturns(j)
      PROVE  WakesHold'
  BY <1>a, <1>b, <1>24, IdleTyped DEF ReplayReturns, Go, Resumes, WakesHold, Context, tracker, stores, frames, gateway
<1>25. ASSUME NEW j \in Jobs, SameTicketReturns(j)
      PROVE  WakesHold'
  BY <1>a, <1>b, <1>25, IdleTyped DEF SameTicketReturns, Go, WakesHold, Context, tracker, stores, frames, gateway
<1>26. ASSUME NEW j \in Jobs, SameTicketThrows(j)
      PROVE  WakesHold'
  BY <1>a, <1>b, <1>26, IdleTyped DEF SameTicketThrows, Go, WakesHold, Context, tracker, stores, frames, gateway
<1>27. ASSUME NEW j \in Jobs, Recovered(j)
      PROVE  WakesHold'
  BY <1>a, <1>b, <1>27, IdleTyped DEF Recovered, Go, WakesHold, Context, tracker, stores, frames, gateway
<1>28. ASSUME NEW j \in Jobs, ReplayAgent(j)
      PROVE  WakesHold'
  <2>1. pc' \in {[pc EXCEPT ![j] = "idle"], [pc EXCEPT ![j] = "next"]}
    BY <1>28 DEF ReplayAgent, Go
  <2>2. \A i \in Jobs : i # j => ctx'[i] = ctx[i]
    BY <1>a, <1>28 DEF ReplayAgent, Go
  <2>3. ctx'[j].stage \in {"replay", "last"}
    <3>1. CASE Go(j, "idle", IdleContext)
      BY <1>a, <3>1 DEF Go, IdleContext
    <3>2. CASE \E S, T : Go(j, "next", [ctx[j] EXCEPT !.stage = "replay", !.todo = T,
                                                     !.left = S])
      <4>1. PICK S, T : ctx' = [ctx EXCEPT ![j] = [ctx[j] EXCEPT !.stage = "replay",
                                                                !.todo = T, !.left = S]]
        BY <3>2 DEF Go
      <4>2. ctx'[j] = [ctx[j] EXCEPT !.stage = "replay", !.todo = T, !.left = S]
        BY <1>a, <4>1
      <4> QED
        BY <1>a, <4>2 DEF Context
    <3> QED
      BY <1>28, <3>1, <3>2 DEF ReplayAgent
  <2>4. UNCHANGED <<aged, owns, at, callbacks>>
    BY <1>28 DEF ReplayAgent, tracker, gateway
  <2> QED
    BY <1>a, <1>b, <2>1, <2>2, <2>3, <2>4 DEF WakesHold
<1>29. ASSUME NEW j \in Jobs, Check(j)
      PROVE  WakesHold'
  BY <1>a, <1>b, <1>29, IdleTyped DEF Check, Go, WakesHold, Context, tracker, stores, frames, gateway
<1>30. ASSUME NEW j \in Jobs, CheckOk(j)
      PROVE  WakesHold'
  BY <1>a, <1>b, <1>30, IdleTyped DEF CheckOk, Go, WakesHold, Context, tracker, stores, frames, gateway
<1>31. ASSUME NEW j \in Jobs, CheckPrune(j)
      PROVE  WakesHold'
  BY <1>a, <1>b, <1>31, IdleTyped DEF CheckPrune, Go, Pass, EndSession, Keep, WakesHold, Context, tracker, stores, frames, gateway
<1>32. ASSUME NEW j \in Jobs, CheckDefer(j)
      PROVE  WakesHold'
  BY <1>a, <1>b, <1>32, IdleTyped DEF CheckDefer, Go, Pass, EndSession, Keep, WakesHold, Context, tracker, stores, frames, gateway
<1>33. ASSUME NEW j \in Jobs, NEW runId \in BOOLEAN, SendAccepted(j, runId)
      PROVE  WakesHold'
  BY <1>a, <1>b, <1>33, IdleTyped DEF SendAccepted, Go, EndSession, Keep, WakesHold, Context, tracker, stores, frames, gateway
<1>34. ASSUME NEW j \in Jobs, SendFailed(j)
      PROVE  WakesHold'
  BY <1>a, <1>b, <1>34, IdleTyped DEF SendFailed, Go, Pass, WakesHold, Context, tracker, stores, frames, gateway
<1>35. ASSUME NEW j \in Jobs, Examine(j)
      PROVE  WakesHold'
  BY <1>a, <1>b, <1>35, IdleTyped DEF Examine, Go, Unresolved, SkipsEntry, Exhausted, Redrives, EndSession, Keep, WakesHold, Context, tracker, stores, frames, gateway
<1>36. ASSUME NEW j \in Jobs, BackoffOver(j)
      PROVE  WakesHold'
  BY <1>a, <1>b, <1>36, IdleTyped DEF BackoffOver, Go, WakesHold, Context, tracker, stores, frames, gateway
<1>37. ASSUME NEW j \in Jobs, DelayOver(j)
      PROVE  WakesHold'
  BY <1>a, <1>b, <1>37, IdleTyped DEF DelayOver, Go, WakesHold, Context, tracker, stores, frames, gateway
<1>90. CASE UNCHANGED vars
  BY <1>0, <1>90 DEF WakesHold, vars, tracker, frames, gateway
<1>99. QED
  BY <1>90, <1>1, <1>2, <1>3, <1>4, <1>5, <1>6, <1>7, <1>8, <1>9, <1>10, <1>11, <1>12, <1>13, <1>14, <1>15, <1>16, <1>17, <1>18, <1>19, <1>20, <1>21, <1>22, <1>23, <1>24, <1>25, <1>26, <1>27, <1>28, <1>29, <1>30, <1>31, <1>32, <1>33, <1>34, <1>35, <1>36, <1>37
  DEF Next, Environment, Trigger, Turn, Settle

\* Two jobs never wake the same pair at once, as long as nobody ends the claims
\* of others (resignal.ts 107-115).  With /session-end or the watchdog among the
\* callers it is false.
THEOREM OneWake ==
  ASSUME NobodyEndsClaims
  PROVE  Spec => []OneWakeInFlight
<1>1. Init => DataOK /\ FrameOK /\ UniqueClaimant /\ WakesHold
  BY IdleTyped DEF Init, DataOK, FrameOK, Reasons, AckStatus, Places, UniqueClaimant,
     WakesHold, InFlight, IdleContext
<1>2. DataOK /\ FrameOK /\ UniqueClaimant /\ WakesHold /\ [Next]_vars
      => (DataOK /\ FrameOK /\ UniqueClaimant /\ WakesHold)'
  BY TypeStep, ClaimStep, WakesHoldStep
<1>3. UniqueClaimant /\ WakesHold => OneWakeInFlight
  BY DEF UniqueClaimant, WakesHold, OneWakeInFlight
<1>4. QED
  BY <1>1, <1>2, <1>3, PTL DEF Spec

-----------------------------------------------------------------------------
(* Admitted work is not forgotten.  What the connector remembers of admitted *)
(* delegated work never shrinks to nothing: an agent without a capacity gets *)
(* an ack row with the admission, which only the pruning of a settled row    *)
(* takes away, and one with a capacity may wait in                           *)
(* deferredAtCapacity, a set in memory that only a /session-end callback and *)
(* a restart take entries from.                                              *)
DeferralsStay == Cap = 0 \/ Callers \cap {"sessionEnd", "replay"} = {}

OwedHasRow == \A p \in Pairs : DelegateTo(p) \in owed => ack[p] # "none" \/ p \in deferred
DeferralsKept ==
  IF Cap = 0 THEN deferred = {}
  ELSE callbacks = {} /\ \A j \in Jobs : ctx[j].stage # "rearm"

(* A step that drops no ack row and no deferral and adds nothing owed.       *)
LEMMA RowsKept ==
  ASSUME OwedHasRow, owed' \subseteq owed, deferred' = deferred,
         \A p \in Pairs : ack[p] # "none" => ack'[p] # "none"
  PROVE  OwedHasRow'
  BY DEF OwedHasRow, DelegateTo

(* No update of the ack rows takes a row away.                               *)
LEMMA AckKept ==
  ASSUME DataOK, NEW q \in Pairs, ack[q] # "none"
  PROVE  /\ \A S : Acknowledge(S)[q] # "none"
         /\ \A p \in Pairs : /\ EnsurePending(p)[q] # "none" /\ RecordDispatch(p)[q] # "none"
                             /\ MarkIfPresent(p, "escalated")[q] # "none"
                             /\ MarkIfPresent(p, "unconfirmed")[q] # "none"
  BY DEF DataOK, Acknowledge, EnsurePending, RecordDispatch, MarkIfPresent

(* Neither does pruning, which leaves a mark of what it took.                *)
LEMMA PruningKept ==
  ASSUME NEW rows \in [Pairs -> AckStatus], NEW left \in Pruned(rows),
         NEW q \in Pairs, rows[q] # "none"
  PROVE  left[q] # "none"
  BY PrunedRows

LEMMA RowsStep ==
  DeferralsStay /\ DataOK /\ FrameOK /\ OwedHasRow /\ DeferralsKept /\ [Next]_vars
  => OwedHasRow'
<1> SUFFICES ASSUME DeferralsStay, DataOK, FrameOK, OwedHasRow, DeferralsKept, [Next]_vars
             PROVE  OwedHasRow'
  OBVIOUS
<1>0. /\ inbox \subseteq Event /\ \A e \in inbox : e.pair \in Pairs
      /\ at \in [Jobs -> Pairs \cup {NoPair}] /\ ack \in [Pairs -> AckStatus]
      /\ \A j \in Jobs : pc[j] \in {"send", "checked", "forensics", "examine"} => at[j] \in Pairs
  BY DEF DataOK, FrameOK, Event
<1>1. ASSUME owed' \subseteq owed, deferred' = deferred, UNCHANGED ack PROVE OwedHasRow'
  BY <1>1, RowsKept
<1>2. ASSUME owed' \subseteq owed, deferred' = deferred,
             \/ \E S : ack' = Acknowledge(S)
             \/ \E p \in Pairs : ack' \in {RecordDispatch(p), MarkIfPresent(p, "escalated"),
                                           MarkIfPresent(p, "unconfirmed")}
      PROVE  OwedHasRow'
  BY <1>2, RowsKept, AckKept
<1>3. ASSUME \/ \E t \in Tickets, a \in Agents \cup {NoAgent} : Delegate(t, a)
             \/ \E t \in Tickets, a \in Agents : Mention(t, a)
             \/ \E t \in Tickets : Close(t) \/ TerminalEvent(t)
             \/ \E p \in Pairs : SessionFinishes(p) \/ Age(p)
             \/ \E e \in inbox : Suppress(e)
      PROVE  OwedHasRow'
  BY <1>1, <1>3 DEF Delegate, Mention, Close, TerminalEvent, SessionFinishes, Age, Suppress,
                    OwedBut, stores, tracker
<1>4. ASSUME NEW p \in Pairs, ProxyActivity(p) PROVE OwedHasRow'
  BY <1>2, <1>4 DEF ProxyActivity, tracker
<1>5. ASSUME NEW e \in inbox, AdmitDeferred(e) PROVE OwedHasRow'
  BY <1>5 DEF AdmitDeferred, NowOwed, OwedHasRow, DelegateTo
<1>6. ASSUME NEW j \in Jobs, NEW e \in inbox, Admit(j, e) PROVE OwedHasRow'
  <2>1. ack' = EnsurePending(e.pair) /\ deferred' = deferred /\ owed' \subseteq owed \cup {e}
    BY <1>6 DEF Admit, NowOwed
  <2>2. \A p \in Pairs : ack[p] # "none" => ack'[p] # "none"
    BY <1>0, <2>1, AckKept
  <2>3. ack'[e.pair] # "none"
    BY <1>0, <2>1 DEF EnsurePending, NoRow
  <2> QED
    BY <2>1, <2>2, <2>3 DEF OwedHasRow, DelegateTo
<1>7. ASSUME NEW j \in Jobs,
             \/ \E a \in Agents : SessionEnd(j, a)
             \/ \E p \in Pairs : WatchdogCycle(j, p)
             \/ StaleTimer(j)
      PROVE  OwedHasRow'
  BY <1>1, <1>7 DEF SessionEnd, WatchdogCycle, StaleTimer, stores, tracker
<1>8. ASSUME NEW j \in Jobs, Restart(j) \/ Rearm(j) PROVE OwedHasRow'
  <2>1. Cap = 0 \/ (~ Restart(j) /\ ~ Rearm(j))
    BY DEF DeferralsStay, DeferralsKept, Restart, Rearm, Resumes
  <2>2. deferred = {} /\ deferred' = {} /\ UNCHANGED <<ack, owed>>
    BY <1>8, <2>1 DEF DeferralsKept, Restart, Rearm, stores
  <2> QED
    BY <1>1, <2>2
<1>9. ASSUME NEW j \in Jobs,
             \/ ClaimNext(j) \/ LoopReturns(j) \/ OwnTicket(j) \/ RearmReturns(j)
             \/ HoldRetry(j) \/ Forensics(j) \/ ReplayAgent(j) \/ ReplayReturns(j)
      PROVE  OwedHasRow'
  BY <1>1, <1>9 DEF ClaimNext, LoopReturns, OwnTicket, RearmReturns, HoldRetry,
                    Forensics, ReplayAgent, ReplayReturns, stores, tracker
<1>10. ASSUME NEW j \in Jobs, Drain(j) PROVE OwedHasRow'
  BY <1>2, <1>10 DEF Drain, tracker
<1>11. ASSUME NEW j \in Jobs,
              \/ SameTicketReturns(j) \/ SameTicketThrows(j) \/ DelayOver(j) \/ BackoffOver(j)
              \/ Check(j) \/ CheckOk(j) \/ CheckDefer(j) \/ SendFailed(j)
       PROVE  OwedHasRow'
  BY <1>1, <1>11 DEF SameTicketReturns, SameTicketThrows, DelayOver, BackoffOver, Check, CheckOk,
                     CheckDefer, SendFailed, OwedBut, stores, tracker
<1>12. ASSUME NEW j \in Jobs, CheckPrune(j) PROVE OwedHasRow'
  BY <1>1, <1>2, <1>12 DEF CheckPrune
<1>13. ASSUME NEW j \in Jobs, Recovered(j) PROVE OwedHasRow'
  <2>1. at[j] \in Pairs
    BY <1>0, <1>13 DEF Recovered
  <2>2. ack' \in {ack, MarkIfPresent(at[j], "escalated"), RecordDispatch(at[j])}
        /\ owed' \subseteq owed /\ deferred' = deferred
    BY <1>13 DEF Recovered, OwedBut, tracker
  <2> QED
    BY <1>1, <1>2, <2>1, <2>2
<1>14. ASSUME NEW j \in Jobs, NEW runId \in BOOLEAN, SendAccepted(j, runId) PROVE OwedHasRow'
  <2>1. at[j] \in Pairs
    BY <1>0, <1>14 DEF SendAccepted
  <2>2. ack' \in {ack, MarkIfPresent(at[j], "unconfirmed"), RecordDispatch(at[j])}
        /\ owed' \subseteq owed /\ deferred' = deferred
    BY <1>14 DEF SendAccepted, OwedBut
  <2> QED
    BY <1>1, <1>2, <2>1, <2>2
<1>15. ASSUME NEW j \in Jobs, Examine(j) PROVE OwedHasRow'
  <2>1. at[j] \in Pairs
    BY <1>0, <1>15 DEF Examine
  <2>2. /\ ack' = ack \/ \E rows \in {ack, MarkIfPresent(at[j], "escalated")} : ack' \in Pruned(rows)
        /\ owed' = owed /\ deferred' = deferred
    BY <1>15 DEF Examine, Unresolved, SkipsEntry, Exhausted, Redrives, stores, tracker
  <2>3. MarkIfPresent(at[j], "escalated") \in [Pairs -> AckStatus]
    BY <2>1, RowUpdatesTyped DEF AckStatus
  <2>4. \A q \in Pairs : ack[q] # "none" => MarkIfPresent(at[j], "escalated")[q] # "none"
    BY <2>1, AckKept
  <2>5. \A q \in Pairs : ack[q] # "none" => ack'[q] # "none"
    BY <1>0, <2>2, <2>3, <2>4, PruningKept
  <2> QED
    BY <2>2, <2>5, RowsKept
<1>17. ASSUME NEW j \in Jobs, Finish(j) PROVE OwedHasRow'
  <2>1. (ack' = ack \/ ack' \in Pruned(ack)) /\ owed' = owed /\ deferred' = deferred
    BY <1>17 DEF Finish, tracker
  <2>2. \A q \in Pairs : ack[q] # "none" => ack'[q] # "none"
    BY <1>0, <2>1, PruningKept
  <2> QED
    BY <2>1, <2>2, RowsKept
<1>16. CASE UNCHANGED vars
  BY <1>1, <1>16 DEF vars, stores, tracker
<1> QED
  BY <1>3, <1>4, <1>5, <1>6, <1>7, <1>8, <1>9, <1>10, <1>11, <1>12, <1>13, <1>14, <1>15, <1>16,
     <1>17
  DEF Next, Environment, Trigger, Turn, Settle

(* Only /session-end re-arms deferred tickets: without it no job is in that  *)
(* stage.  A ticket is deferred only when its agent has a capacity.          *)
LEMMA DeferralsStep ==
  DeferralsStay /\ DataOK /\ FrameOK /\ DeferralsKept /\ [Next]_vars => DeferralsKept'
<1> SUFFICES ASSUME DeferralsStay, DataOK, FrameOK, DeferralsKept, [Next]_vars
             PROVE  DeferralsKept'
  OBVIOUS
<1>1. CASE Cap = 0
  <2>1. \A e \in inbox : ~ AdmitDeferred(e)
    BY <1>1 DEF AdmitDeferred, AtCapacity
  <2>2. deferred' \subseteq deferred
    <3>1. Environment \/ UNCHANGED vars => deferred' \subseteq deferred
      BY DEF Environment, vars, tracker, Delegate, Mention, Close, SessionFinishes,
         ProxyActivity, Age, Suppress
    <3>2. Trigger => deferred' \subseteq deferred
      BY <2>1 DEF Trigger, tracker, TerminalEvent, Admit, SessionEnd, StaleTimer,
         WatchdogCycle, Restart
    <3>3. ASSUME NEW j \in Jobs, Turn(j) PROVE deferred' \subseteq deferred
      BY <3>3 DEF Turn, tracker, ClaimNext, LoopReturns, OwnTicket, Finish, Rearm,
         RearmReturns, Drain, HoldRetry, Forensics, ReplayAgent, ReplayReturns
    <3>4. ASSUME NEW j \in Jobs, Settle(j) PROVE deferred' \subseteq deferred
      BY <3>4 DEF Settle, tracker, SameTicketReturns, SameTicketThrows, Recovered, DelayOver,
         Check, CheckOk, CheckPrune, CheckDefer, SendAccepted, SendFailed, Examine, Unresolved,
         SkipsEntry, Exhausted, Redrives, BackoffOver
    <3> QED
      BY <3>1, <3>2, <3>3, <3>4 DEF Next
  <2> QED
    BY <1>1, <2>2 DEF DeferralsKept
<1>2. CASE Cap # 0
  <2>1. /\ "sessionEnd" \notin Callers /\ "replay" \notin Callers
        /\ callbacks = {} /\ \A j \in Jobs : ctx[j].stage # "rearm"
        /\ ctx \in [Jobs -> Context]
    BY <1>2 DEF DeferralsStay, DeferralsKept, FrameOK
  <2>2. ASSUME callbacks' = callbacks, NEW j \in Jobs, NEW c, c.stage # "rearm",
               ctx' = [ctx EXCEPT ![j] = c]
        PROVE  DeferralsKept'
    BY <1>2, <2>1, <2>2 DEF DeferralsKept
  <2>3. ASSUME callbacks' = callbacks, ctx' = ctx PROVE DeferralsKept'
    BY <1>2, <2>1, <2>3 DEF DeferralsKept
  <2>4. IdleContext.stage # "rearm" /\ IdleContext \in Context
    BY IdleTyped DEF IdleContext
  <2>5. ASSUME \/ \E t \in Tickets, a \in Agents \cup {NoAgent} : Delegate(t, a)
               \/ \E t \in Tickets, a \in Agents : Mention(t, a)
               \/ \E t \in Tickets : Close(t) \/ TerminalEvent(t)
               \/ \E p \in Pairs : SessionFinishes(p) \/ ProxyActivity(p) \/ Age(p)
               \/ \E e \in inbox : Suppress(e) \/ AdmitDeferred(e)
               \/ UNCHANGED vars
        PROVE  DeferralsKept'
    BY <2>1, <2>3, <2>5 DEF Delegate, Mention, Close, TerminalEvent, SessionFinishes,
       ProxyActivity, Age, Suppress, AdmitDeferred, frames, gateway, vars
  <2>6. ASSUME NEW j \in Jobs, NEW e \in inbox, Admit(j, e) PROVE DeferralsKept'
    <3> DEFINE c == [IdleContext EXCEPT !.stage = "own", !.track = TRUE,
                       !.agent = e.pair[1], !.pair = e.pair, !.todo = Drained]
    <3>1. c.stage = "own"
      BY <2>4 DEF Context
    <3>2. ctx' = [ctx EXCEPT ![j] = c] /\ callbacks' = callbacks
      BY <2>6 DEF Admit, Start, gateway
    <3> HIDE DEF c
    <3> QED
      BY <2>2, <3>1, <3>2
  <2>7. ASSUME NEW j \in Jobs, StaleTimer(j) PROVE DeferralsKept'
    <3> DEFINE c == [IdleContext EXCEPT !.caller = "staleTimer", !.stage = "recover",
                       !.left = aged, !.taken = Drained]
    <3>1. c.stage = "recover"
      BY <2>4 DEF Context
    <3>2. ctx' = [ctx EXCEPT ![j] = c] /\ callbacks' = callbacks
      BY <2>7 DEF StaleTimer, Start, gateway
    <3> HIDE DEF c
    <3> QED
      BY <2>2, <3>1, <3>2
  <2>8. ASSUME NEW j \in Jobs, NEW p \in Pairs, WatchdogCycle(j, p) PROVE DeferralsKept'
    <3> DEFINE c == [IdleContext EXCEPT !.caller = "watchdog", !.agent = p[1], !.pair = p]
    <3>1. c.stage # "rearm"
      BY <2>4 DEF Context
    <3>2. ctx' = [ctx EXCEPT ![j] = c] /\ callbacks' = callbacks
      BY <2>8 DEF WatchdogCycle, gateway
    <3> HIDE DEF c
    <3> QED
      BY <2>2, <3>1, <3>2
  <2>9. ASSUME NEW j \in Jobs, (\E a \in Agents : SessionEnd(j, a)) \/ Restart(j) \/ Rearm(j)
                               \/ RearmReturns(j)
        PROVE  FALSE
    BY <2>1, <2>9 DEF SessionEnd, Restart, Rearm, RearmReturns, Resumes
  <2>10. ASSUME NEW j \in Jobs, NEW place, NEW c, Go(j, place, c), callbacks' = callbacks,
                c.stage # "rearm"
         PROVE  DeferralsKept'
    BY <2>2, <2>10 DEF Go
  <2>11. \A j \in Jobs : /\ ctx[j] \in Context /\ ctx[j].stage # "rearm"
    BY <2>1
  <2>12. ASSUME NEW j \in Jobs, NEW c, NEW place, Go(j, place, c), callbacks' = callbacks,
                \/ c = IdleContext \/ c = ctx[j]
                \/ \E S, r : c = [ctx[j] EXCEPT !.todo = S, !.reason = r]
                \/ \E S : c = [ctx[j] EXCEPT !.todo = S]
                \/ \E S : c = [ctx[j] EXCEPT !.left = S]
                \/ c = [ctx[j] EXCEPT !.stage = "last"]
                \/ c = [ctx[j] EXCEPT !.stage = "agents"]
                \/ \E S : c = [ctx[j] EXCEPT !.stage = "last", !.todo = S]
                \/ \E S : c = [ctx[j] EXCEPT !.stage = "last", !.todo = S, !.track = TRUE]
                \/ \E S, T : c = [ctx[j] EXCEPT !.stage = "hold", !.holds = S, !.todo = T]
                \/ \E S, T : c = [ctx[j] EXCEPT !.stage = "replay", !.todo = S, !.left = T]
                \/ \E r : c = [ctx[j] EXCEPT !.answer = r]
                \/ c = [ctx[j] EXCEPT !.reason = "absent", !.answer = "none"]
                \/ \E b : c = [ctx[j] EXCEPT !.reason = "absent", !.rearmed = b]
         PROVE  DeferralsKept'
    <3>1. PICK d \in Context : d = ctx[j] /\ d.stage # "rearm"
      BY <2>11
    <3>2. c.stage # "rearm"
      <4>1. CASE c = IdleContext \/ c = d
        BY <2>4, <3>1, <4>1 DEF Context
      <4>2. CASE \E S, r : c = [d EXCEPT !.todo = S, !.reason = r]
        BY <2>4, <3>1, <4>2 DEF Context
      <4>3. CASE \E S : c = [d EXCEPT !.todo = S] \/ c = [d EXCEPT !.left = S]
        BY <2>4, <3>1, <4>3 DEF Context
      <4>4. CASE c = [d EXCEPT !.stage = "last"] \/ c = [d EXCEPT !.stage = "agents"]
        BY <2>4, <3>1, <4>4 DEF Context
      <4>5. CASE \E S : c = [d EXCEPT !.stage = "last", !.todo = S]
        BY <2>4, <3>1, <4>5 DEF Context
      <4>6. CASE \E S : c = [d EXCEPT !.stage = "last", !.todo = S, !.track = TRUE]
        BY <2>4, <3>1, <4>6 DEF Context
      <4>7. CASE \E S, T : c = [d EXCEPT !.stage = "hold", !.holds = S, !.todo = T]
        BY <2>4, <3>1, <4>7 DEF Context
      <4>8. CASE \E S, T : c = [d EXCEPT !.stage = "replay", !.todo = S, !.left = T]
        BY <2>4, <3>1, <4>8 DEF Context
      <4>9. CASE \E r : c = [d EXCEPT !.answer = r] \/ c = [d EXCEPT !.reason = "absent", !.answer = "none"]
        BY <2>4, <3>1, <4>9 DEF Context
      <4>10. CASE \E b : c = [d EXCEPT !.reason = "absent", !.rearmed = b]
        BY <2>4, <3>1, <4>10 DEF Context
      <4> QED
        BY <2>12, <3>1, <4>1, <4>2, <4>3, <4>4, <4>5, <4>6, <4>7, <4>8, <4>9, <4>10
    <3> QED
      BY <2>10, <2>12, <3>2
  <2>13. ASSUME NEW j \in Jobs,
                \/ LoopReturns(j) \/ Finish(j) \/ HoldRetry(j) \/ ReplayReturns(j) \/ DelayOver(j)
                \/ SameTicketReturns(j) \/ SameTicketThrows(j) \/ Check(j) \/ CheckOk(j)
                \/ CheckPrune(j) \/ CheckDefer(j) \/ SendFailed(j) \/ BackoffOver(j)
         PROVE  DeferralsKept'
    BY <2>12, <2>13 DEF LoopReturns, Finish, HoldRetry, ReplayReturns, DelayOver,
       SameTicketReturns, SameTicketThrows, Check, CheckOk, CheckPrune, CheckDefer, SendFailed,
       BackoffOver, Pass, gateway
  <2>14. ASSUME NEW j \in Jobs, ClaimNext(j) PROVE DeferralsKept'
    BY <2>12, <2>14 DEF ClaimNext, gateway
  <2>15. ASSUME NEW j \in Jobs, OwnTicket(j) \/ Forensics(j) \/ ReplayAgent(j)
         PROVE  DeferralsKept'
    BY <2>12, <2>15 DEF OwnTicket, Forensics, ReplayAgent, gateway
  <2>16. ASSUME NEW j \in Jobs, Drain(j) PROVE DeferralsKept'
    BY <2>12, <2>16 DEF Drain, gateway
  <2>17. ASSUME NEW j \in Jobs, Recovered(j) PROVE DeferralsKept'
    BY <2>12, <2>17 DEF Recovered
  <2>18. ASSUME NEW j \in Jobs, NEW runId \in BOOLEAN, SendAccepted(j, runId) PROVE DeferralsKept'
    BY <2>12, <2>18 DEF SendAccepted
  <2>19. ASSUME NEW j \in Jobs, Examine(j) PROVE DeferralsKept'
    BY <2>12, <2>19 DEF Examine, Unresolved, SkipsEntry, Exhausted, Redrives, gateway
  <2> QED
    BY <2>5, <2>6, <2>7, <2>8, <2>9, <2>13, <2>14, <2>15, <2>16, <2>17, <2>18, <2>19
    DEF Next, Environment, Trigger, Turn, Settle
<1> QED
  BY <1>1, <1>2 DEF DeferralsKept

(* Admitted delegated work is forgotten only once its ack row is settled, for *)
(* agents without a capacity whoever calls, and for agents with one as long  *)
(* as neither /session-end nor a restart empties deferredAtCapacity.         *)
THEOREM NothingForgotten ==
  ASSUME DeferralsStay
  PROVE  Spec => []ForgottenOnlyIfSettled
<1>1. Init => DataOK /\ FrameOK /\ OwedHasRow /\ DeferralsKept
  BY IdleTyped DEF Init, DataOK, FrameOK, Reasons, AckStatus, Places, OwedHasRow, DeferralsKept,
     IdleContext
<1>2. DataOK /\ FrameOK /\ OwedHasRow /\ DeferralsKept /\ [Next]_vars
      => (DataOK /\ FrameOK /\ OwedHasRow /\ DeferralsKept)'
  BY TypeStep, RowsStep, DeferralsStep
<1>3. DataOK /\ OwedHasRow => ForgottenOnlyIfSettled
  <2> SUFFICES ASSUME DataOK, OwedHasRow, NEW p \in Pairs, DelegateTo(p) \in owed, ~ Remembered(p)
               PROVE  ack[p] \in {"acknowledged", "pruned"}
    BY DEF ForgottenOnlyIfSettled
  <2>1. ack[p] \in AckStatus /\ ack[p] # "none"
    BY DEF DataOK, OwedHasRow, Remembered
  <2> QED
    BY <2>1 DEF Remembered, AckStatus, Open
<1> QED
  BY <1>1, <1>2, <1>3, PTL DEF Spec
=============================================================================
