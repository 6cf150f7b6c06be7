------------------------- MODULE DispatchGuards_proofs -------------------------
(***************************************************************************)
(* Theorems about DispatchGuards, for every value of its constants:        *)
(*                                                                         *)
(*   TypeCorrect        the stores and the handlers' records keep their    *)
(*                      types                                              *)
(*   OnlyFreshAdmitted  no event goes past the idempotency check and the   *)
(*                      lease once a newer one of its ticket has           *)
(*   ClaimHasOneSender  one sender to a spawn claim                        *)
(*   WindowsBacked      a dedup window swallows events only on account of  *)
(*                      an admission, or of one still to be decided on     *)
(*                                                                         *)
(* A step of Next moves one handler, but for SpawnExpires and Crash.  What *)
(* the other theorems need of that handler's turn is stated once: Plain    *)
(* and Begun below.                                                        *)
(***************************************************************************)
EXTENDS DispatchGuards, TLAPS

\* TypeOK without the handlers, and what a handler's record is like: at work it
\* has an agent, on a ticket a ticket, and only a send has a claim.
StoresOK ==
  /\ version \in [Tickets -> Versions]
  /\ owner \in [Tickets -> Agents \cup {NoAgent}]
  /\ inbox \subseteq Events
  /\ idem \subseteq Events
  /\ lease \in [Agents \X LeaseKeys -> Versions]
  /\ nudge \in [Pairs -> [primed : BOOLEAN, merged : BOOLEAN, backed : BOOLEAN]]
  /\ spawn \in [Pairs -> {"free", "pending", "live"}]
  /\ bag \in [Agents -> SUBSET Tickets]
  /\ active \in [Agents -> SUBSET Tickets]
  /\ recorded \in [Pairs -> Versions]
  /\ barred \subseteq Tickets
  /\ session \subseteq Pairs
  /\ callbacks \subseteq Agents
  /\ replay \subseteq Agents
  /\ freshest \in [Tickets -> Versions]
  /\ crashes \in 0 .. MaxCrashes

Bound(c) ==
  /\ c.stage # "idle" => c.agent \in Agents
  /\ c.stage \notin {"idle", "loop", "ended"} => c.ticket \in Tickets
  /\ c.claim # "none" => c.stage \in {"sendDirect", "sendWake"}

JobsOK == jobs \in [Handlers -> Job] /\ \A h \in Handlers : Bound(jobs[h])

\* A turn of h that neither admits an event nor begins a claim.
Plain(h) ==
  \E d \in Job :
    /\ jobs' = [jobs EXCEPT ![h] = d]
    /\ Bound(d)
    /\ d.stage # "routing" /\ d.claim # "fresh"

LEMMA SmallVersions == 0 \in Versions /\ 1 \in Versions
  BY GuardConstants DEF Versions

LEMMA IdleTyped == Idle \in Job /\ Bound(Idle) /\ Idle.stage = "idle" /\ Idle.claim = "none"
  BY GuardConstants DEF Idle, Job, Bound, Stages, Versions

\* The ways a handler's record is edited.
Edited(d, stage, agent, ticket, claim) ==
  /\ d \in Job
  /\ d.stage = stage /\ d.agent = agent /\ d.ticket = ticket /\ d.claim = claim

LEMMA EditStage ==
  ASSUME NEW c \in Job, NEW s \in Stages
  PROVE  /\ Edited([c EXCEPT !.stage = s], s, c.agent, c.ticket, c.claim)
         /\ Edited([c EXCEPT !.stage = s, !.any = TRUE], s, c.agent, c.ticket, c.claim)
         /\ Edited([c EXCEPT !.stage = s, !.any = TRUE, !.claim = "none"],
                   s, c.agent, c.ticket, "none")
         /\ Edited([c EXCEPT !.stage = s, !.claim = "none"], s, c.agent, c.ticket, "none")
         /\ Edited([c EXCEPT !.claim = "lapsed"], c.stage, c.agent, c.ticket, "lapsed")
  BY DEF Job, Edited

LEMMA EditTodo ==
  ASSUME NEW c \in Job, NEW s \in Stages, NEW S \in SUBSET Tickets
  PROVE  /\ Edited([c EXCEPT !.todo = S], c.stage, c.agent, c.ticket, c.claim)
         /\ Edited([c EXCEPT !.stage = s, !.todo = S], s, c.agent, c.ticket, c.claim)
         /\ \A t \in Tickets :
              Edited([c EXCEPT !.todo = S, !.stage = s, !.ticket = t], s, c.agent, t, c.claim)
         /\ \A T \in SUBSET Tickets :
              Edited([c EXCEPT !.stage = s, !.after = "webhook", !.at = 0, !.own = T, !.todo = S],
                     s, c.agent, c.ticket, c.claim)
  BY SmallVersions DEF Job, Edited

LEMMA EditSend ==
  ASSUME NEW c \in Job, NEW s \in Stages, NEW k \in {"fresh", "rotated"}
  PROVE  /\ Edited([c EXCEPT !.stage = s, !.claim = k], s, c.agent, c.ticket, k)
         /\ Edited([c EXCEPT !.stage = s, !.at = 0], s, c.agent, c.ticket, c.claim)
  BY SmallVersions DEF Job, Edited

\* The records handlers begin with.
LEMMA Begins ==
  ASSUME NEW a \in Agents
  PROVE  /\ \A S \in SUBSET Tickets :
            /\ Edited([Idle EXCEPT !.stage = "ended", !.agent = a, !.after = "sessionEnd", !.own = S],
                      "ended", a, NoAgent, "none")
            /\ Edited([Idle EXCEPT !.stage = "loop", !.agent = a, !.after = "replay", !.todo = S],
                      "loop", a, NoAgent, "none")
         /\ \A t \in Tickets, n \in Versions :
            /\ Edited([Idle EXCEPT !.stage = "sweepRead", !.agent = a, !.ticket = t, !.at = n],
                      "sweepRead", a, t, "none")
            /\ Edited([Idle EXCEPT !.stage = "routing", !.agent = a, !.ticket = t, !.at = n],
                      "routing", a, t, "none")
  <1>1. ASSUME NEW S \in SUBSET Tickets
        PROVE  Edited([Idle EXCEPT !.stage = "ended", !.agent = a, !.after = "sessionEnd", !.own = S],
                      "ended", a, NoAgent, "none")
    BY IdleTyped DEF Idle, Job, Stages, Edited
  <1>2. ASSUME NEW S \in SUBSET Tickets
        PROVE  Edited([Idle EXCEPT !.stage = "loop", !.agent = a, !.after = "replay", !.todo = S],
                      "loop", a, NoAgent, "none")
    BY IdleTyped DEF Idle, Job, Stages, Edited
  <1>3. ASSUME NEW t \in Tickets, NEW n \in Versions
        PROVE  Edited([Idle EXCEPT !.stage = "sweepRead", !.agent = a, !.ticket = t, !.at = n],
                      "sweepRead", a, t, "none")
    BY IdleTyped DEF Idle, Job, Stages, Edited
  <1>4. ASSUME NEW t \in Tickets, NEW n \in Versions
        PROVE  Edited([Idle EXCEPT !.stage = "routing", !.agent = a, !.ticket = t, !.at = n],
                      "routing", a, t, "none")
    BY IdleTyped DEF Idle, Job, Stages, Edited
  <1> QED
    BY <1>1, <1>2, <1>3, <1>4

LEMMA EndsPlain ==
  ASSUME JobsOK, NEW h \in Handlers, Ends(h)
  PROVE  Plain(h)
  BY IdleTyped DEF Plain, Ends, JobsOK

LEMMA GoesPlain ==
  ASSUME JobsOK, NEW h \in Handlers, NEW s \in Stages, Goes(h, s),
         s # "routing", s # "idle", jobs[h].stage # "idle", jobs[h].ticket \in Tickets,
         jobs[h].claim = "none"
  PROVE  Plain(h)
  <1>1. jobs[h] \in Job /\ Bound(jobs[h])
    BY DEF JobsOK
  <1>2. Edited([jobs[h] EXCEPT !.stage = s], s, jobs[h].agent, jobs[h].ticket, "none")
    BY <1>1, EditStage
  <1> QED
    BY <1>1, <1>2 DEF Goes, Plain, Bound, Edited

\* Every turn but those that begin or end a claim, and Receive.
LEMMA PlainTurns ==
  ASSUME StoresOK, JobsOK, NEW h \in Handlers
  PROVE  /\ Routed(h) \/ NotRouted(h) \/ Abort(h) \/ Admit(h) => Plain(h)
         /\ DirectReplays(h) \/ DirectSent(h) \/ DirectThrows(h) => Plain(h)
         /\ \A t \in Tickets : NextTicket(h, t) => Plain(h)
         /\ Prune(h) \/ Defer(h) \/ WakeReplays(h) \/ WakeAccepted(h) \/ WakeFailed(h) => Plain(h)
         /\ LoopEnds(h) \/ Drain(h) => Plain(h)
         /\ \A a \in Agents : SessionEnd(h, a) => Plain(h)
         /\ \A t \in Tickets : SweepReads(h, t) => Plain(h)
         /\ \A a \in Agents : Replay(h, a) => Plain(h)
         /\ SweepSkips(h) \/ Sweep(h) \/ SweepWake(h) \/ SweepAccepted(h) \/ SweepFailed(h) => Plain(h)
  <1> DEFINE c == jobs[h]
  <1>0. c \in Job /\ Bound(c)
    BY DEF JobsOK
  <1>1. c.stage \in {"direct", "loop", "wake", "ended", "liveness", "routing", "sweepRead", "sweep", "sendSweep", "idle"} => c.claim = "none"
    BY <1>0 DEF Bound
  <1>2. Routed(h) => Plain(h)
    BY <1>0, <1>1, EndsPlain, GoesPlain DEF Routed, Bound, Stages
  <1>3. NotRouted(h) \/ Abort(h) \/ DirectReplays(h) \/ DirectSent(h) \/ DirectThrows(h) \/ LoopEnds(h)
        \/ SweepSkips(h) \/ SweepAccepted(h) \/ SweepFailed(h) => Plain(h)
    BY EndsPlain DEF NotRouted, Abort, DirectReplays, DirectSent, DirectThrows, Delivered, LoopEnds, SweepSkips, SweepAccepted, SweepFailed
  <1>4. ASSUME Admit(h) PROVE Plain(h)
    <2> DEFINE bagged == [b \in Agents |-> IF b = c.agent THEN bag[b] \cup {c.ticket} ELSE bag[b] \ {c.ticket}]
               d == [c EXCEPT !.stage = "loop", !.after = "webhook", !.at = 0, !.own = {c.ticket},
                              !.todo = bagged[c.agent]]
    <2>1. c.stage = "liveness" /\ c.agent \in Agents /\ c.ticket \in Tickets /\ c.claim = "none"
      BY <1>0, <1>1, <1>4 DEF Admit, Bound
    <2>2. bagged[c.agent] \in SUBSET Tickets /\ {c.ticket} \in SUBSET Tickets
      BY <2>1 DEF StoresOK
    <2>3. Edited(d, "loop", c.agent, c.ticket, "none")
      <3>1. \A S, T \in SUBSET Tickets :
              Edited([c EXCEPT !.stage = "loop", !.after = "webhook", !.at = 0, !.own = T, !.todo = S],
                     "loop", c.agent, c.ticket, c.claim)
        BY <1>0, EditTodo DEF Stages
      <3> HIDE DEF bagged, c
      <3> QED
        BY <2>1, <2>2, <3>1
    <2>4. Goes(h, "direct") => Plain(h)
      BY <2>1, GoesPlain DEF Stages
    <2>5. Goes(h, "direct") \/ jobs' = [jobs EXCEPT ![h] = d]
      BY <1>4, <1>0 DEF Admit
    <2>6. Bound(d)
      BY <2>1, <2>3 DEF Bound, Edited
    <2> QED
      BY <2>3, <2>4, <2>5, <2>6 DEF Plain, Edited
  <1>5. ASSUME NEW t \in Tickets, NextTicket(h, t) PROVE Plain(h)
    <2>1. c.stage = "loop" /\ c.agent \in Agents /\ c.claim = "none" /\ c.todo \ {t} \in SUBSET Tickets
      BY <1>0, <1>1, <1>5 DEF NextTicket, Bound, Job
    <2>2. /\ Edited([c EXCEPT !.todo = c.todo \ {t}], c.stage, c.agent, c.ticket, c.claim)
          /\ Edited([c EXCEPT !.todo = c.todo \ {t}, !.stage = "wake", !.ticket = t],
                    "wake", c.agent, t, c.claim)
      <3>1. \A S \in SUBSET Tickets :
              /\ Edited([c EXCEPT !.todo = S], c.stage, c.agent, c.ticket, c.claim)
              /\ Edited([c EXCEPT !.todo = S, !.stage = "wake", !.ticket = t], "wake", c.agent, t, c.claim)
        BY <1>0, EditTodo DEF Stages
      <3> HIDE DEF c
      <3> QED
        BY <2>1, <3>1
    <2>3. \/ jobs' = [jobs EXCEPT ![h] = [c EXCEPT !.todo = c.todo \ {t}]]
          \/ jobs' = [jobs EXCEPT ![h] = [c EXCEPT !.todo = c.todo \ {t}, !.stage = "wake", !.ticket = t]]
      BY <1>5, <1>0 DEF NextTicket
    <2> QED
      BY <2>1, <2>2, <2>3 DEF Plain, Bound, Edited
  <1>6. Prune(h) \/ Defer(h) => Plain(h)
    BY <1>0, <1>1, GoesPlain DEF Prune, Defer, Bound, Stages
  <1>7. WakeReplays(h) \/ WakeAccepted(h) \/ WakeFailed(h) => Plain(h)
    <2>1. /\ Edited([c EXCEPT !.stage = "loop", !.any = TRUE], "loop", c.agent, c.ticket, c.claim)
          /\ Edited([c EXCEPT !.stage = "loop", !.any = TRUE, !.claim = "none"], "loop", c.agent, c.ticket, "none")
          /\ Edited([c EXCEPT !.stage = "loop", !.claim = "none"], "loop", c.agent, c.ticket, "none")
      BY <1>0, EditStage DEF Stages
    <2>2. WakeReplays(h) => /\ c.stage = "wake"
                            /\ jobs' = [jobs EXCEPT ![h] = [c EXCEPT !.stage = "loop", !.any = TRUE]]
      BY <1>0 DEF WakeReplays
    <2>3. WakeAccepted(h) => /\ c.stage = "sendWake"
                             /\ jobs' = [jobs EXCEPT ![h] =
                                  [c EXCEPT !.stage = "loop", !.any = TRUE, !.claim = "none"]]
      BY <1>0 DEF WakeAccepted
    <2>4. WakeFailed(h) => /\ c.stage = "sendWake"
                           /\ jobs' = [jobs EXCEPT ![h] = [c EXCEPT !.stage = "loop", !.claim = "none"]]
      BY <1>0 DEF WakeFailed
    <2> HIDE DEF c
    <2> QED
      BY <1>0, <1>1, <2>1, <2>2, <2>3, <2>4 DEF Plain, Bound, Edited
  <1>8. ASSUME Drain(h) PROVE Plain(h)
    <2> DEFINE pending == bag[c.agent] \ c.own
    <2>1. c.stage = "ended" /\ c.agent \in Agents /\ c.claim = "none"
      BY <1>0, <1>1, <1>8 DEF Drain, Bound
    <2>2. pending \in SUBSET Tickets
      BY <2>1 DEF StoresOK
    <2>3. jobs' = [jobs EXCEPT ![h] = [c EXCEPT !.stage = "loop", !.todo = pending]]
      BY <1>0, <1>8 DEF Drain
    <2>4. \A S \in SUBSET Tickets :
            Edited([c EXCEPT !.stage = "loop", !.todo = S], "loop", c.agent, c.ticket, c.claim)
      BY <1>0, EditTodo DEF Stages
    <2> HIDE DEF c, pending
    <2> QED
      BY <2>1, <2>2, <2>3, <2>4 DEF Plain, Bound, Edited
  <1>9. ASSUME NEW a \in Agents, SessionEnd(h, a) PROVE Plain(h)
    <2> DEFINE d == [Idle EXCEPT !.stage = "ended", !.agent = a, !.after = "sessionEnd", !.own = active[a]]
    <2>1. Edited(d, "ended", a, NoAgent, "none")
      BY Begins DEF StoresOK
    <2>2. jobs' = [jobs EXCEPT ![h] = d]
      BY <1>9 DEF SessionEnd
    <2> HIDE DEF d
    <2> QED
      BY <2>1, <2>2 DEF Plain, Bound, Edited
  <1>10. ASSUME NEW t \in Tickets, SweepReads(h, t) PROVE Plain(h)
    <2> DEFINE d == [Idle EXCEPT !.stage = "sweepRead", !.agent = owner[t], !.ticket = t, !.at = version[t]]
    <2>1. Edited(d, "sweepRead", owner[t], t, "none") /\ owner[t] \in Agents
      BY <1>10, Begins DEF StoresOK, SweepReads
    <2>2. jobs' = [jobs EXCEPT ![h] = d]
      BY <1>10 DEF SweepReads
    <2> HIDE DEF d
    <2> QED
      BY <2>1, <2>2 DEF Plain, Bound, Edited
  <1>11. ASSUME Sweep(h) PROVE Plain(h)
    <2> DEFINE d == [c EXCEPT !.stage = "sweep", !.at = 0]
    <2>1. c.agent \in Agents /\ c.ticket \in Tickets /\ c.claim = "none"
      BY <1>0, <1>1, <1>11 DEF Sweep, Bound
    <2>2. Edited(d, "sweep", c.agent, c.ticket, "none")
      BY <1>0, <2>1, EditSend DEF Stages
    <2>3. Ends(h) \/ jobs' = [jobs EXCEPT ![h] = d]
      BY <1>0, <1>11 DEF Sweep
    <2> HIDE DEF c, d
    <2> QED
      BY <2>1, <2>2, <2>3, EndsPlain DEF Plain, Bound, Edited
  <1>12. SweepWake(h) => Plain(h)
    BY <1>0, <1>1, EndsPlain, GoesPlain DEF SweepWake, Bound, Stages
  <1>13. ASSUME NEW a \in Agents, Replay(h, a) PROVE Plain(h)
    <2> DEFINE d == [Idle EXCEPT !.stage = "loop", !.agent = a, !.after = "replay", !.todo = bag[a]]
    <2>1. Edited(d, "loop", a, NoAgent, "none")
      BY Begins DEF StoresOK
    <2>2. jobs[h].stage = "idle" /\ (jobs' = jobs \/ jobs' = [jobs EXCEPT ![h] = d])
      BY <1>13 DEF Replay
    <2>3. jobs' = jobs => Plain(h)
      BY <1>0, <1>1, <2>2 DEF Plain, JobsOK
    <2> HIDE DEF d
    <2> QED
      BY <2>1, <2>2, <2>3 DEF Plain, Bound, Edited
  <1> QED
    BY <1>13, <1>2, <1>3, <1>4, <1>5, <1>6, <1>7, <1>8, <1>9, <1>10, <1>11, <1>12

\* Receive: h is left as it is or routes e.
LEMMA ReceiveTurn ==
  ASSUME StoresOK, JobsOK, NEW h \in Handlers, NEW e \in inbox, Receive(h, e)
  PROVE  \/ jobs' = jobs
         \/ \E d \in Job : /\ jobs' = [jobs EXCEPT ![h] = d]
                            /\ Bound(d) /\ d.claim = "none"
                            /\ d.ticket = e.ticket /\ d.at = e.at
  <1> DEFINE d == [Idle EXCEPT !.stage = "routing", !.agent = e.agent, !.ticket = e.ticket, !.at = e.at]
  <1>1. e \in Events /\ e.agent \in Agents /\ e.ticket \in Tickets /\ e.at \in Versions
    BY GuardConstants DEF StoresOK, Events, Versions
  <1>2. Edited(d, "routing", e.agent, e.ticket, "none")
    BY <1>1, Begins
  <1>3. d.at = e.at
    BY DEF Idle
  <1>4. jobs' = jobs \/ jobs' = [jobs EXCEPT ![h] = d]
    BY DEF Receive
  <1> HIDE DEF d
  <1> QED
    BY <1>1, <1>2, <1>3, <1>4 DEF Bound, Edited

\* A turn that begins to send under a claim of the pair of h, fresh only where the
\* pair had none.
Begun(h) ==
  \E d \in Job :
    /\ jobs' = [jobs EXCEPT ![h] = d]
    /\ Bound(d) /\ d.stage # "routing"
    /\ d.agent = jobs[h].agent /\ d.ticket = jobs[h].ticket
    /\ d.claim = "fresh" => /\ spawn[<<d.agent, d.ticket>>] = "free"
                            /\ spawn'[<<d.agent, d.ticket>>] # "free"

LEMMA StartTurns ==
  ASSUME StoresOK, JobsOK, NEW h \in Handlers, DirectStarts(h) \/ WakeStarts(h)
  PROVE  Begun(h) \/ Plain(h)
  <1> DEFINE c == jobs[h]
             p == <<c.agent, c.ticket>>
             k == IF StartsFresh(p) THEN "fresh" ELSE "rotated"
  <1>0. c \in Job /\ Bound(c)
    BY DEF JobsOK
  <1>1. c.stage \in {"direct", "wake"} /\ c.agent \in Agents /\ c.ticket \in Tickets
    BY <1>0 DEF DirectStarts, WakeStarts, Bound
  <1>2. p \in Pairs /\ version[c.ticket] \in Versions
    BY <1>1 DEF Pairs, StoresOK
  <1>3. k \in {"fresh", "rotated"} /\ (k = "fresh" => spawn[p] = "free" /\ spawn'[p] # "free")
    BY <1>2 DEF StoresOK, StartsFresh, Replayable, DirectStarts, WakeStarts
  <1>4. \A l \in {"fresh", "rotated"} :
          /\ Edited([c EXCEPT !.stage = "sendDirect", !.claim = l], "sendDirect", c.agent, c.ticket, l)
          /\ Edited([c EXCEPT !.stage = "sendWake", !.claim = l], "sendWake", c.agent, c.ticket, l)
    BY <1>0, EditSend DEF Stages
  <1>5. DirectStarts(h) =>
          \/ Ends(h)
          \/ jobs' = [jobs EXCEPT ![h] = [c EXCEPT !.stage = "sendDirect", !.claim = k]]
    BY <1>0 DEF DirectStarts, Delivered
  <1>6. WakeStarts(h) =>
          jobs' = [jobs EXCEPT ![h] = [c EXCEPT !.stage = "sendWake", !.claim = k]]
    BY <1>0 DEF WakeStarts
  <1> HIDE DEF k
  <1> DEFINE d == [c EXCEPT !.stage = "sendDirect", !.claim = k]
             w == [c EXCEPT !.stage = "sendWake", !.claim = k]
  <1>7. /\ Edited(d, "sendDirect", c.agent, c.ticket, k)
        /\ Edited(w, "sendWake", c.agent, c.ticket, k)
    <2> HIDE DEF c
    <2> QED
      BY <1>2, <1>3, <1>4
  <1> HIDE DEF d, w
  <1>8. jobs' = [jobs EXCEPT ![h] = d] \/ jobs' = [jobs EXCEPT ![h] = w] => Begun(h)
    BY <1>1, <1>3, <1>7 DEF Begun, Bound, Edited
  <1> QED
    BY <1>5, <1>6, <1>8, EndsPlain DEF d, w

LEMMA LapseTurn ==
  ASSUME JobsOK, NEW p \in Pairs, SpawnExpires(p)
  PROVE  /\ JobsOK'
         /\ \A h \in Handlers :
              /\ jobs'[h].stage = jobs[h].stage
              /\ jobs'[h].agent = jobs[h].agent /\ jobs'[h].ticket = jobs[h].ticket
              /\ jobs'[h].claim = "fresh" =>
                   jobs[h].claim = "fresh" /\ <<jobs[h].agent, jobs[h].ticket>> # p
  <1>1. \A h \in Handlers :
          /\ jobs[h] \in Job /\ Bound(jobs[h])
          /\ Edited([jobs[h] EXCEPT !.claim = "lapsed"],
                    jobs[h].stage, jobs[h].agent, jobs[h].ticket, "lapsed")
    BY EditStage DEF JobsOK, Job
  <1>2. ASSUME NEW h \in Handlers
        PROVE  \/ jobs'[h] = jobs[h] /\ (jobs[h].claim = "none" \/ <<jobs[h].agent, jobs[h].ticket>> # p)
               \/ jobs'[h] = [jobs[h] EXCEPT !.claim = "lapsed"] /\ jobs[h].claim # "none"
    BY DEF SpawnExpires
  <1>3. \A h \in Handlers :
          /\ jobs'[h] \in Job /\ Bound(jobs'[h])
          /\ jobs'[h].stage = jobs[h].stage
          /\ jobs'[h].agent = jobs[h].agent /\ jobs'[h].ticket = jobs[h].ticket
          /\ jobs'[h].claim = "fresh" =>
               jobs[h].claim = "fresh" /\ <<jobs[h].agent, jobs[h].ticket>> # p
    BY <1>1, <1>2 DEF Edited, Bound
  <1>4. jobs' = [h \in Handlers |-> jobs'[h]]
    BY DEF SpawnExpires
  <1> QED
    BY <1>3, <1>4 DEF JobsOK

\* What a step may do to the handlers.
LEMMA NextTurns ==
  ASSUME StoresOK, JobsOK, [Next]_vars
  PROVE  \/ jobs' = jobs
         \/ Crash
         \/ \E p \in Pairs : SpawnExpires(p)
         \/ \E h \in Handlers, e \in inbox : Receive(h, e)
         \/ \E h \in Handlers : (DirectStarts(h) \/ WakeStarts(h)) /\ (Begun(h) \/ Plain(h))
         \/ \E h \in Handlers : Plain(h)
  <1>1. CASE UNCHANGED vars
    BY <1>1 DEF vars
  <1>2. CASE World \/ Time \/ Crash
    BY <1>2 DEF World, Time, Update, Undelegate, Drop, Bar, SessionFinishes, LeaseExpires, ClaimExpires
  <1>3. ASSUME NEW h \in Handlers,
               Webhook(h) \/ Direct(h) \/ Resignal(h) \/ SessionEnds(h) \/ Reconciles(h) \/ Starts(h)
        PROVE  \/ \E e \in inbox : Receive(h, e)
               \/ (DirectStarts(h) \/ WakeStarts(h)) /\ (Begun(h) \/ Plain(h))
               \/ Plain(h)
    BY <1>3, PlainTurns, StartTurns DEF Webhook, Direct, Resignal, SessionEnds, Reconciles, Starts
  <1> QED
    BY <1>1, <1>2, <1>3 DEF Next

LEMMA JobsStep == StoresOK /\ JobsOK /\ [Next]_vars => JobsOK'
  <1> SUFFICES ASSUME StoresOK, JobsOK, [Next]_vars PROVE JobsOK'
    OBVIOUS
  <1>1. CASE jobs' = jobs
    BY <1>1 DEF JobsOK, Bound
  <1>2. CASE Crash
    BY <1>2, IdleTyped DEF Crash, JobsOK
  <1>3. ASSUME NEW p \in Pairs, SpawnExpires(p) PROVE JobsOK'
    BY <1>3, LapseTurn
  <1>4. ASSUME NEW h \in Handlers, NEW e \in inbox, Receive(h, e) PROVE JobsOK'
    BY <1>1, <1>4, ReceiveTurn DEF JobsOK
  <1>5. ASSUME NEW h \in Handlers, Begun(h) \/ Plain(h) PROVE JobsOK'
    BY <1>5 DEF Begun, Plain, JobsOK
  <1> QED
    BY <1>1, <1>2, <1>3, <1>4, <1>5, NextTurns

\* The ways a dedup slot is edited, and the one that is given back.
LEMMA SlotTyped ==
  ASSUME NEW c \in [primed : BOOLEAN, merged : BOOLEAN, backed : BOOLEAN]
  PROVE  /\ [c EXCEPT !.merged = TRUE] \in [primed : BOOLEAN, merged : BOOLEAN, backed : BOOLEAN]
         /\ [c EXCEPT !.backed = c.primed] \in [primed : BOOLEAN, merged : BOOLEAN, backed : BOOLEAN]
         /\ [c EXCEPT !.merged = TRUE].primed = c.primed
         /\ [c EXCEPT !.merged = TRUE].backed = c.backed
         /\ [c EXCEPT !.backed = c.primed].primed = [c EXCEPT !.backed = c.primed].backed
  OBVIOUS

LEMMA FreshSlot ==
  /\ NoNudge \in [primed : BOOLEAN, merged : BOOLEAN, backed : BOOLEAN]
  /\ [NoNudge EXCEPT !.primed = TRUE] \in [primed : BOOLEAN, merged : BOOLEAN, backed : BOOLEAN]
  /\ ~NoNudge.primed
  BY DEF NoNudge

\* What a handler's record says of its pair.
LEMMA Handled ==
  ASSUME JobsOK, NEW h \in Handlers
  PROVE  /\ jobs[h].at \in Versions
         /\ jobs[h].own \subseteq Tickets /\ jobs[h].todo \subseteq Tickets
         /\ jobs[h].stage # "idle" => jobs[h].agent \in Agents
         /\ jobs[h].stage \notin {"idle", "loop", "ended"} =>
              /\ jobs[h].ticket \in Tickets
              /\ <<jobs[h].agent, jobs[h].ticket>> \in Pairs
  BY DEF JobsOK, Job, Bound, Pairs

LEMMA KeysTyped ==
  ASSUME NEW t \in Tickets
  PROVE  SessionKey(t) \in LeaseKeys /\ ReconciliationKey(t) \in LeaseKeys
  BY DEF SessionKey, ReconciliationKey, LeaseKeys

LEMMA AcquireTyped ==
  ASSUME StoresOK, NEW a \in Agents, NEW k \in LeaseKeys, NEW n \in Versions, Acquire(a, k, n)
  PROVE  lease' \in [Agents \X LeaseKeys -> Versions]
  BY DEF StoresOK, Acquire

\* What the gateway's answer to a send may change.
LEMMA GatewayTyped ==
  ASSUME StoresOK, NEW p \in Pairs, FailsAfter(p)
  PROVE  session' \subseteq Pairs /\ callbacks' = callbacks
<1>1. CASE Accepts(p)
  BY <1>1 DEF Accepts, StoresOK
<1>2. CASE UNCHANGED gateway
  BY <1>2 DEF gateway, StoresOK
<1> QED
  BY <1>1, <1>2 DEF FailsAfter

\* What a direct delivery that counts as done changes.
LEMMA DeliveredTyped ==
  ASSUME StoresOK, NEW h \in Handlers, Delivered(h),
         jobs[h].agent \in Agents, jobs[h].ticket \in Tickets,
         <<jobs[h].agent, jobs[h].ticket>> \in Pairs
  PROVE  bag' \in [Agents -> SUBSET Tickets] /\ recorded' \in [Pairs -> Versions]
<1>1. bag' \in [Agents -> SUBSET Tickets]
  BY DEF Delivered, StoresOK
<1>2. recorded' \in [Pairs -> Versions]
  BY DEF Delivered, Recorded, StoresOK
<1> QED
  BY <1>1, <1>2

LEMMA StoresStep == StoresOK /\ JobsOK /\ [Next]_vars => StoresOK'
  <1> SUFFICES ASSUME StoresOK, JobsOK, [Next]_vars PROVE StoresOK'
    OBVIOUS
  <1> USE GuardConstants
  <1>1. ASSUME NEW t \in Tickets, NEW a \in Agents, NEW s \in States, Update(t, a, s) PROVE StoresOK'
    BY <1>1, Handled DEF Update, linear, stores, gateway, history, StoresOK, Pairs, Versions, Events
  <1>2. ASSUME NEW t \in Tickets, Undelegate(t) PROVE StoresOK'
    BY <1>2, Handled DEF Undelegate, linear, stores, gateway, history, StoresOK, Pairs, Versions, Events
  <1>0. ASSUME NEW t \in Tickets, Bar(t) PROVE StoresOK'
    BY <1>0 DEF Bar, stores, gateway, history, StoresOK
  <1>3. ASSUME NEW e \in inbox, Drop(e) PROVE StoresOK'
    BY <1>3, Handled DEF Drop, linear, stores, gateway, history, StoresOK, Pairs, Versions, Events
  <1>4. ASSUME NEW a \in Agents, NEW t \in Tickets, SessionFinishes(a, t) PROVE StoresOK'
    BY <1>4, Handled DEF SessionFinishes, linear, stores, gateway, history, StoresOK, Pairs, Versions, Events
  <1>5. ASSUME NEW a \in Agents, NEW k \in LeaseKeys, LeaseExpires(a, k) PROVE StoresOK'
    BY <1>5, Handled DEF LeaseExpires, linear, stores, gateway, history, StoresOK, Pairs, Versions, Events
  <1>6. ASSUME NEW p \in Pairs, SpawnExpires(p) PROVE StoresOK'
    BY <1>6, Handled DEF SpawnExpires, linear, stores, gateway, history, StoresOK, Pairs, Versions, Events
  <1>7. ASSUME NEW a \in Agents, NEW t \in Tickets, ClaimExpires(a, t) PROVE StoresOK'
    BY <1>7, Handled DEF ClaimExpires, linear, stores, gateway, history, StoresOK, Pairs, Versions, Events
  <1>8. ASSUME Crash PROVE StoresOK'
    BY <1>8 DEF Crash, linear, stores, gateway, StoresOK
  <1>9. ASSUME NEW h \in Handlers, NEW e \in inbox, Receive(h, e) PROVE StoresOK'
    <2>1. e \in Events /\ e.agent \in Agents /\ e.ticket \in Tickets /\ e.at \in Versions
      BY DEF StoresOK, Events, Versions
    <2>2. Acquire(e.agent, SessionKey(e.ticket), e.at) => lease' \in [Agents \X LeaseKeys -> Versions]
      BY <2>1, AcquireTyped, KeysTyped
    <2>3. idem' \subseteq Events
      BY <1>9, <2>1 DEF Receive, Record, StoresOK
    <2>4. lease' \in [Agents \X LeaseKeys -> Versions]
      BY <1>9, <2>2 DEF Receive, StoresOK
    <2>5. freshest' \in [Tickets -> Versions]
      BY <1>9, <2>1 DEF Receive, StoresOK
    <2> QED
      BY <1>9, <2>3, <2>4, <2>5 DEF Receive, linear, gateway, StoresOK
  <1>10. ASSUME NEW h \in Handlers, Routed(h) PROVE StoresOK'
    <2>1. <<jobs[h].agent, jobs[h].ticket>> \in Pairs
      BY <1>10, Handled DEF Routed
    <2>2. nudge' \in [Pairs -> [primed : BOOLEAN, merged : BOOLEAN, backed : BOOLEAN]]
      <3> DEFINE p == <<jobs[h].agent, jobs[h].ticket>>
                 m == [nudge[p] EXCEPT !.merged = TRUE]
      <3>0. p \in Pairs /\ nudge[p] \in [primed : BOOLEAN, merged : BOOLEAN, backed : BOOLEAN]
        BY <2>1 DEF StoresOK
      <3>1. m \in [primed : BOOLEAN, merged : BOOLEAN, backed : BOOLEAN]
        <4> HIDE DEF p
        <4> QED
          BY <3>0, SlotTyped
      <3>2. nudge' = [nudge EXCEPT ![p] = m] \/ nudge' = [nudge EXCEPT ![p] = [NoNudge EXCEPT !.primed = TRUE]]
        BY <1>10, <2>1 DEF Routed, StoresOK
      <3> HIDE DEF m, p
      <3> QED
        BY <3>1, <3>2, FreshSlot DEF StoresOK
    <2> QED
      BY <1>10, <2>2 DEF Routed, linear, gateway, history, StoresOK
  <1>11. ASSUME NEW h \in Handlers, NotRouted(h) PROVE StoresOK'
    BY <1>11, Handled DEF NotRouted, Ends, Idle, linear, stores, gateway, history, StoresOK, Pairs, Versions, Events
  <1>12. ASSUME NEW h \in Handlers, Abort(h) PROVE StoresOK'
    BY <1>12, Handled DEF Abort, Ends, Idle, ClearNudge, NoNudge, linear, stores, gateway, history, StoresOK, Pairs, Versions, Events
  <1>13. ASSUME NEW h \in Handlers, Admit(h) PROVE StoresOK'
    <2> DEFINE a == jobs[h].agent
               p == <<a, jobs[h].ticket>>
               n == [nudge[p] EXCEPT !.backed = nudge[p].primed]
    <2>1. a \in Agents /\ jobs[h].ticket \in Tickets /\ p \in Pairs
      BY <1>13, Handled DEF Admit
    <2>2. bag' \in [Agents -> SUBSET Tickets]
      <3>1. bag' = [b \in Agents |-> IF b = a THEN bag[b] \cup {jobs[h].ticket}
                                               ELSE bag[b] \ {jobs[h].ticket}]
        BY <1>13 DEF Admit
      <3>2. \A b \in Agents : bag[b] \subseteq Tickets
        BY DEF StoresOK
      <3> QED
        BY <2>1, <3>1, <3>2
    <2>3. nudge' \in [Pairs -> [primed : BOOLEAN, merged : BOOLEAN, backed : BOOLEAN]]
      <3>1. nudge[p] \in [primed : BOOLEAN, merged : BOOLEAN, backed : BOOLEAN]
        BY <2>1 DEF StoresOK
      <3>2. n \in [primed : BOOLEAN, merged : BOOLEAN, backed : BOOLEAN]
        <4> HIDE DEF p
        <4> QED
          BY <3>1
      <3>3. nudge' = [nudge EXCEPT ![p] = n]
        BY <1>13, <2>1 DEF Admit, StoresOK
      <3> HIDE DEF n, p
      <3> QED
        BY <3>2, <3>3 DEF StoresOK
    <2> QED
      BY <1>13, <2>2, <2>3 DEF Admit, linear, gateway, history, StoresOK
  <1>14. ASSUME NEW h \in Handlers, DirectReplays(h) PROVE StoresOK'
    <2>1. <<jobs[h].agent, jobs[h].ticket>> \in Pairs /\ jobs[h].agent \in Agents /\ jobs[h].ticket \in Tickets
      BY <1>14, Handled DEF DirectReplays
    <2>2. bag' \in [Agents -> SUBSET Tickets] /\ recorded' \in [Pairs -> Versions]
      BY <1>14, <2>1, DeliveredTyped DEF DirectReplays
    <2> QED
      BY <1>14, <2>2 DEF DirectReplays, Delivered, linear, gateway, history, StoresOK
  <1>15. ASSUME NEW h \in Handlers, DirectStarts(h) PROVE StoresOK'
    <2>1. <<jobs[h].agent, jobs[h].ticket>> \in Pairs /\ jobs[h].at \in Versions
          /\ jobs[h].agent \in Agents /\ jobs[h].ticket \in Tickets
      BY <1>15, Handled DEF DirectStarts
    <2>2. lease' \in [Agents \X LeaseKeys -> Versions]
      BY <1>15, <2>1, AcquireTyped, KeysTyped DEF DirectStarts, StoresOK
    <2>3. spawn' \in [Pairs -> {"free", "pending", "live"}]
      BY <1>15, <2>1 DEF DirectStarts, StoresOK
    <2>4. Delivered(h) \/ UNCHANGED <<bag, recorded>>
      BY <1>15 DEF DirectStarts
    <2>5. bag' \in [Agents -> SUBSET Tickets] /\ recorded' \in [Pairs -> Versions]
      BY <2>1, <2>4, DeliveredTyped DEF StoresOK
    <2> QED
      BY <1>15, <2>2, <2>3, <2>5 DEF DirectStarts, linear, gateway, history, StoresOK
  <1>16. ASSUME NEW h \in Handlers, DirectSent(h) PROVE StoresOK'
    <2>1. <<jobs[h].agent, jobs[h].ticket>> \in Pairs /\ jobs[h].at \in Versions
          /\ jobs[h].agent \in Agents /\ jobs[h].ticket \in Tickets
      BY <1>16, Handled DEF DirectSent
    <2>2. bag' \in [Agents -> SUBSET Tickets] /\ recorded' \in [Pairs -> Versions]
      BY <1>16, <2>1, DeliveredTyped DEF DirectSent
    <2>3. FailsAfter(<<jobs[h].agent, jobs[h].ticket>>)
      BY <1>16 DEF DirectSent, FailsAfter
    <2>4. session' \subseteq Pairs /\ callbacks' = callbacks
      BY <2>1, <2>3, GatewayTyped
    <2>5. spawn' \in [Pairs -> {"free", "pending", "live"}]
      BY <1>16, <2>1 DEF DirectSent, StoresOK
    <2> QED
      BY <1>16, <2>2, <2>4, <2>5 DEF DirectSent, linear, history, StoresOK
  <1>17. ASSUME NEW h \in Handlers, DirectThrows(h) PROVE StoresOK'
    BY <1>17, Handled DEF DirectThrows, Ends, Idle, linear, stores, gateway, history, StoresOK, Pairs, Versions, Events
  <1>18. ASSUME NEW h \in Handlers, NEW t \in Tickets, NextTicket(h, t) PROVE StoresOK'
    BY <1>18, Handled DEF NextTicket, linear, stores, gateway, history, StoresOK, Pairs, Versions, Events
  <1>19. ASSUME NEW h \in Handlers, Prune(h) PROVE StoresOK'
    BY <1>19, Handled DEF Prune, Goes, linear, stores, gateway, history, StoresOK, Pairs, Versions, Events
  <1>20. ASSUME NEW h \in Handlers, Defer(h) PROVE StoresOK'
    BY <1>20, Handled DEF Defer, Goes, linear, stores, gateway, history, StoresOK, Pairs, Versions, Events
  <1>21. ASSUME NEW h \in Handlers, WakeReplays(h) PROVE StoresOK'
    BY <1>21, Handled DEF WakeReplays, linear, stores, gateway, history, StoresOK, Pairs, Versions, Events
  <1>22. ASSUME NEW h \in Handlers, WakeStarts(h) PROVE StoresOK'
    BY <1>22, Handled DEF WakeStarts, linear, stores, gateway, history, StoresOK, Pairs, Versions, Events
  <1>23. ASSUME NEW h \in Handlers, WakeAccepted(h) PROVE StoresOK'
    <2>1. <<jobs[h].agent, jobs[h].ticket>> \in Pairs /\ jobs[h].at \in Versions
          /\ jobs[h].agent \in Agents /\ jobs[h].ticket \in Tickets
      BY <1>23, Handled DEF WakeAccepted
    <2> DEFINE a == jobs[h].agent
               t == jobs[h].ticket
    <2>2. active' \in [Agents -> SUBSET Tickets]
      <3>1. active' \in {active, [active EXCEPT ![a] = @ \ {t}]}
        BY <1>23 DEF WakeAccepted
      <3>2. active \in [Agents -> SUBSET Tickets] /\ a \in Agents
        BY <2>1 DEF StoresOK
      <3> HIDE DEF a, t
      <3> QED
        BY <3>1, <3>2
    <2>3. spawn' \in [Pairs -> {"free", "pending", "live"}]
      BY <1>23, <2>1 DEF WakeAccepted, StoresOK
    <2>5. recorded' \in [Pairs -> Versions]
      BY <1>23, <2>1 DEF WakeAccepted, Recorded, StoresOK
    <2>4. session' \subseteq Pairs /\ callbacks' = callbacks
      BY <1>23, <2>1 DEF WakeAccepted, Accepts, StoresOK
    <2> QED
      BY <1>23, <2>2, <2>3, <2>4, <2>5 DEF WakeAccepted, linear, history, StoresOK
  <1>24. ASSUME NEW h \in Handlers, WakeFailed(h) PROVE StoresOK'
    BY <1>24, Handled, GatewayTyped DEF WakeFailed, linear, stores, history, StoresOK
  <1>25. ASSUME NEW h \in Handlers, LoopEnds(h) PROVE StoresOK'
    <2>1. recorded' \in [Pairs -> Versions]
      <3>1. \A p \in Pairs : version[p[2]] \in Versions /\ recorded[p] \in Versions
        BY DEF StoresOK, Pairs
      <3> DEFINE Own(p) == /\ jobs[h].after = "webhook" /\ jobs[h].any
                           /\ p[1] = jobs[h].agent /\ p[2] \in jobs[h].own
      <3>2. recorded' = [p \in Pairs |-> IF Own(p) THEN version[p[2]] ELSE recorded[p]]
        BY <1>25, Zenon DEF LoopEnds
      <3> HIDE DEF Own
      <3> QED
        BY <3>1, <3>2
    <2>2. lease' \in [Agents \X LeaseKeys -> Versions]
      BY <1>25 DEF LoopEnds, StoresOK, Versions
    <2> QED
      BY <1>25, <2>1, <2>2 DEF LoopEnds, linear, gateway, history, StoresOK
  <1>26. ASSUME NEW h \in Handlers, NEW a \in Agents, SessionEnd(h, a) PROVE StoresOK'
    BY <1>26, Handled DEF SessionEnd, Idle, linear, stores, gateway, history, StoresOK, Pairs, Versions, Events
  <1>27. ASSUME NEW h \in Handlers, Drain(h) PROVE StoresOK'
    BY <1>27, Handled DEF Drain, NoNudge, linear, stores, gateway, history, StoresOK, Pairs, Versions, Events
  <1>28. ASSUME NEW h \in Handlers, NEW t \in Tickets, SweepReads(h, t) PROVE StoresOK'
    BY <1>28, Handled DEF SweepReads, Idle, linear, stores, gateway, history, StoresOK, Pairs, Versions, Events
  <1>29. ASSUME NEW h \in Handlers, SweepSkips(h) PROVE StoresOK'
    BY <1>29, Handled DEF SweepSkips, Ends, Idle, linear, stores, gateway, history, StoresOK, Pairs, Versions, Events
  <1>30. ASSUME NEW h \in Handlers, Sweep(h) PROVE StoresOK'
    <2>1. jobs[h].agent \in Agents /\ jobs[h].ticket \in Tickets /\ jobs[h].at \in Versions
      BY <1>30, Handled DEF Sweep
    <2>2. lease' \in [Agents \X LeaseKeys -> Versions]
      BY <1>30, <2>1, AcquireTyped, KeysTyped DEF Sweep
    <2>3. idem' \subseteq Events /\ freshest' \in [Tickets -> Versions]
      BY <1>30, SmallVersions DEF Sweep, StoresOK
    <2> QED
      BY <1>30, <2>2, <2>3 DEF Sweep, linear, gateway, StoresOK
  <1>31. ASSUME NEW h \in Handlers, SweepWake(h) PROVE StoresOK'
    <2>1. jobs[h].agent \in Agents /\ jobs[h].ticket \in Tickets
      BY <1>31, Handled DEF SweepWake
    <2>2. lease' \in [Agents \X LeaseKeys -> Versions]
      BY <1>31, <2>1, SmallVersions, AcquireTyped, KeysTyped DEF SweepWake, StoresOK
    <2> QED
      BY <1>31, <2>2 DEF SweepWake, linear, gateway, history, StoresOK
  <1>32. ASSUME NEW h \in Handlers, SweepAccepted(h) PROVE StoresOK'
    BY <1>32, Handled DEF SweepAccepted, Accepts, Ends, Idle, Recorded, linear, stores, gateway, history, StoresOK, Pairs, Versions, Events
  <1>33. ASSUME NEW h \in Handlers, SweepFailed(h) PROVE StoresOK'
    BY <1>33, Handled, GatewayTyped DEF SweepFailed, linear, stores, history, StoresOK
  <1>34. ASSUME NEW h \in Handlers, NEW a \in Agents, Replay(h, a) PROVE StoresOK'
    BY <1>34, Handled DEF Replay, Idle, linear, stores, gateway, history, StoresOK, Pairs, Versions, Events
  <1>35. CASE UNCHANGED vars
    BY <1>35 DEF vars, linear, stores, gateway, history, StoresOK
  <1> QED
    BY <1>0, <1>1, <1>2, <1>3, <1>4, <1>5, <1>6, <1>7, <1>8, <1>9, <1>10, <1>11, <1>12, <1>13, <1>14, <1>15, <1>16, <1>17, <1>18, <1>19, <1>20, <1>21, <1>22, <1>23, <1>24, <1>25, <1>26, <1>27, <1>28, <1>29, <1>30, <1>31, <1>32, <1>33, <1>34, <1>35 DEF Next, World, Time, Webhook, Direct, Resignal, SessionEnds, Reconciles, Starts

LEMMA Typed == Spec => [](StoresOK /\ JobsOK)
  <1>1. Init => StoresOK /\ JobsOK
    BY GuardConstants, IdleTyped, FreshSlot, SmallVersions DEF Init, StoresOK, JobsOK, Pairs
  <1>2. StoresOK /\ JobsOK /\ [Next]_vars => (StoresOK /\ JobsOK)'
    BY StoresStep, JobsStep
  <1> QED
    BY <1>1, <1>2, PTL DEF Spec

\* TypeOK: every reachable state of the stores and of the handlers has its type.
THEOREM TypeCorrect == Spec => []TypeOK
  <1>1. StoresOK /\ JobsOK => TypeOK
    BY DEF StoresOK, JobsOK, TypeOK
  <1> QED
    BY <1>1, Typed, PTL

-----------------------------------------------------------------------------
(* FreshAdmission.                                                          *)

\* What makes the idempotency table a memory: of the newest update admitted, or
\* a newer one, there is a row.
FreshInv ==
  \A t \in Tickets :
    freshest[t] > 0 => \E r \in idem : r.ticket = t /\ r.at >= freshest[t]

LEMMA RowsKept ==
  [Next]_vars => \/ \E h \in Handlers, e \in inbox : Receive(h, e)
                 \/ \E h \in Handlers : Sweep(h)
                 \/ UNCHANGED <<idem, freshest>>
  <1> SUFFICES ASSUME [Next]_vars
               PROVE  \/ \E h \in Handlers, e \in inbox : Receive(h, e)
                      \/ \E h \in Handlers : Sweep(h)
                      \/ UNCHANGED <<idem, freshest>>
    OBVIOUS
  <1>1. CASE UNCHANGED vars
    BY <1>1 DEF vars, stores, history
  <1>2. CASE World \/ Time \/ Crash
    BY <1>2 DEF World, Time, Crash, Update, Undelegate, Drop, Bar, SessionFinishes, LeaseExpires, SpawnExpires, ClaimExpires, stores, history
  <1>3. ASSUME NEW h \in Handlers, Webhook(h)
        PROVE  (\E e \in inbox : Receive(h, e)) \/ UNCHANGED <<idem, freshest>>
    BY <1>3 DEF Webhook, Routed, NotRouted, Abort, Admit, stores, history
  <1>4. ASSUME NEW h \in Handlers, Direct(h) \/ SessionEnds(h) \/ Starts(h)
        PROVE  UNCHANGED <<idem, freshest>>
    BY <1>4 DEF Direct, SessionEnds, Starts, DirectReplays, DirectStarts, DirectSent, DirectThrows, SessionEnd, Drain, Replay, stores, history
  <1>5. ASSUME NEW h \in Handlers, Resignal(h)
        PROVE  UNCHANGED <<idem, freshest>>
    BY <1>5 DEF Resignal, NextTicket, Prune, Defer, WakeReplays, WakeStarts, WakeAccepted, WakeFailed, LoopEnds, stores, history
  <1>6. ASSUME NEW h \in Handlers, Reconciles(h)
        PROVE  Sweep(h) \/ UNCHANGED <<idem, freshest>>
    BY <1>6 DEF Reconciles, SweepReads, SweepSkips, SweepWake, SweepAccepted, SweepFailed, stores, history
  <1> QED
    BY <1>1, <1>2, <1>3, <1>4, <1>5, <1>6 DEF Next

\* No row is newer than an event that is not stale.
LEMMA NotStale ==
  ASSUME StoresOK, FreshInv, NEW e \in inbox, ~Stale(e)
  PROVE  e.ticket \in Tickets /\ e.at \in Nat /\ e.at > 0 /\ e.at >= freshest[e.ticket]
  <1>1. e \in Events /\ e.ticket \in Tickets /\ e.at \in 1 .. MaxVersion
    BY DEF StoresOK, Events
  <1>2. freshest[e.ticket] \in Nat
    BY <1>1 DEF StoresOK, Versions
  <1>3. \A r \in idem : r.at \in Nat /\ (r.ticket = e.ticket => r.at <= e.at)
    BY <1>1 DEF StoresOK, Events, Stale
  <1> QED
    BY <1>1, <1>2, <1>3, GuardConstants DEF FreshInv

LEMMA FreshStep == StoresOK /\ JobsOK /\ FreshInv /\ [Next]_vars => FreshInv'
  <1> SUFFICES ASSUME StoresOK, JobsOK, FreshInv, [Next]_vars PROVE FreshInv'
    OBVIOUS
  <1>1. CASE UNCHANGED <<idem, freshest>>
    BY <1>1 DEF FreshInv
  <1>2. ASSUME NEW h \in Handlers, NEW e \in inbox, Receive(h, e) PROVE FreshInv'
    <2>1. CASE UNCHANGED <<idem, freshest>>
      BY <2>1 DEF FreshInv
    <2>2. ASSUME ~Stale(e), Record(e),
                 freshest' \in {freshest, [freshest EXCEPT ![e.ticket] = IF e.at > @ THEN e.at ELSE @]}
          PROVE  FreshInv'
      <3>1. e.ticket \in Tickets /\ e.at \in Nat /\ e.at >= freshest[e.ticket]
        BY <2>2, NotStale
      <3>2. e \in idem' /\ \A r \in idem : r.ticket # e.ticket => r \in idem'
        BY <2>2 DEF Record, SameKey
      <3>3. \A t \in Tickets : freshest[t] \in Nat
        BY DEF StoresOK, Versions
      <3>4. freshest'[e.ticket] \in {freshest[e.ticket], e.at}
            /\ \A t \in Tickets : t # e.ticket => freshest'[t] = freshest[t]
        BY <2>2, <3>1 DEF StoresOK
      <3>5. ASSUME NEW t \in Tickets, freshest'[t] > 0
            PROVE  \E r \in idem' : r.ticket = t /\ r.at >= freshest'[t]
        BY <3>1, <3>2, <3>3, <3>4, <3>5 DEF FreshInv
      <3> QED
        BY <3>5 DEF FreshInv
    <2> QED
      BY <1>2, <2>1, <2>2 DEF Receive
  <1>3. ASSUME NEW h \in Handlers, Sweep(h) PROVE FreshInv'
    <2>1. jobs[h].ticket \in Tickets
      BY <1>3, Handled DEF Sweep
    <2>2. freshest' = [freshest EXCEPT ![jobs[h].ticket] = 0]
          /\ \A r \in idem : r.ticket # jobs[h].ticket => r \in idem'
      BY <1>3 DEF Sweep
    <2> QED
      BY <2>1, <2>2 DEF FreshInv, StoresOK
  <1> QED
    BY <1>1, <1>2, <1>3, RowsKept

\* FreshAdmission: no event passes the idempotency check and the lease once a newer
\* one of its ticket has, unless a sweep has forgotten rows of the ticket since.
THEOREM OnlyFreshAdmitted == Spec => FreshAdmission
  <1> DEFINE Fresh == \A h \in Handlers :
                        jobs[h].stage = "idle" /\ jobs'[h].stage = "routing" =>
                          jobs'[h].at >= freshest[jobs'[h].ticket]
  <1>1. Init => FreshInv
    BY DEF Init, FreshInv
  <1>2. StoresOK /\ JobsOK /\ FreshInv /\ [Next]_vars => FreshInv'
    BY FreshStep
  <1>3. StoresOK /\ JobsOK /\ FreshInv /\ [Next]_vars => [Fresh]_vars
    <2> SUFFICES ASSUME StoresOK, JobsOK, FreshInv, [Next]_vars PROVE Fresh
      OBVIOUS
    <2>1. CASE jobs' = jobs
      BY <2>1
    <2>2. CASE Crash
      BY <2>2, IdleTyped DEF Crash
    <2>3. ASSUME NEW p \in Pairs, SpawnExpires(p) PROVE Fresh
      BY <2>3, LapseTurn
    <2>4. ASSUME NEW h \in Handlers, NEW e \in inbox, Receive(h, e) PROVE Fresh
      <3>1. jobs' = jobs \/ ~Stale(e)
        BY <2>4 DEF Receive
      <3>2. ~Stale(e) => e.at >= freshest[e.ticket]
        BY NotStale
      <3> QED
        BY <2>1, <2>4, <3>1, <3>2, ReceiveTurn DEF JobsOK
    <2>5. ASSUME NEW h \in Handlers, Begun(h) \/ Plain(h) PROVE Fresh
      BY <2>5 DEF Begun, Plain, JobsOK
    <2> QED
      BY <2>1, <2>2, <2>3, <2>4, <2>5, NextTurns
  <1> QED
    BY <1>1, <1>2, <1>3, Typed, PTL DEF Spec, FreshAdmission

-----------------------------------------------------------------------------
(* OneSender.                                                               *)

\* A claim somebody sends under as its own is not free for another to begin.
SenderInv ==
  /\ OneSender
  /\ \A h \in Handlers :
       jobs[h].claim = "fresh" => spawn[<<jobs[h].agent, jobs[h].ticket>>] # "free"

\* Only its expiry frees a spawn claim.
LEMMA ClaimsKept ==
  StoresOK /\ JobsOK /\ [Next]_vars =>
    \/ \E p \in Pairs : SpawnExpires(p)
    \/ \A p \in Pairs : spawn'[p] = "free" => spawn[p] = "free"
  <1> DEFINE Kept == \A p \in Pairs : spawn'[p] = "free" => spawn[p] = "free"
  <1> SUFFICES ASSUME StoresOK, JobsOK, [Next]_vars
               PROVE  (\E p \in Pairs : SpawnExpires(p)) \/ Kept
    OBVIOUS
  <1>1. CASE UNCHANGED vars
    BY <1>1 DEF vars, stores
  <1>2. CASE World \/ Time \/ Crash
    BY <1>2 DEF World, Time, Crash, Update, Undelegate, Drop, Bar, SessionFinishes, LeaseExpires, ClaimExpires, stores
  <1>3. ASSUME NEW h \in Handlers, Webhook(h) PROVE Kept
    BY <1>3 DEF Webhook, Receive, Routed, NotRouted, Abort, Admit, stores
  <1>4. ASSUME NEW h \in Handlers, DirectStarts(h) \/ WakeStarts(h) PROVE Kept
    BY <1>4 DEF DirectStarts, WakeStarts, StoresOK
  <1>5. ASSUME NEW h \in Handlers, DirectSent(h) \/ WakeAccepted(h) PROVE Kept
    BY <1>5 DEF DirectSent, WakeAccepted, StoresOK
  <1>6. ASSUME NEW h \in Handlers, DirectReplays(h) \/ DirectThrows(h) \/ SessionEnds(h) \/ Starts(h)
        PROVE  Kept
    BY <1>6 DEF SessionEnds, Starts, DirectReplays, DirectThrows, SessionEnd, Drain, Replay, stores
  <1>7. ASSUME NEW h \in Handlers, Resignal(h) PROVE Kept
    BY <1>4, <1>5, <1>7 DEF Resignal, NextTicket, Prune, Defer, WakeReplays, WakeFailed, LoopEnds, stores
  <1>8. ASSUME NEW h \in Handlers, Reconciles(h) PROVE Kept
    BY <1>8 DEF Reconciles, SweepReads, SweepSkips, Sweep, SweepWake, SweepAccepted, SweepFailed, stores
  <1> QED
    BY <1>1, <1>2, <1>3, <1>4, <1>5, <1>6, <1>7, <1>8 DEF Next, Direct

LEMMA SenderStep == StoresOK /\ JobsOK /\ SenderInv /\ [Next]_vars => SenderInv'
  <1> DEFINE Pair(h) == <<jobs[h].agent, jobs[h].ticket>>
             Kept == \A p \in Pairs : spawn'[p] = "free" => spawn[p] = "free"
  <1> SUFFICES ASSUME StoresOK, JobsOK, SenderInv, [Next]_vars PROVE SenderInv'
    OBVIOUS
  <1>0. \A h \in Handlers : jobs[h].claim = "fresh" => Pair(h) \in Pairs
    BY Handled DEF JobsOK, Bound
  <1>1. ASSUME NEW p \in Pairs, SpawnExpires(p) PROVE SenderInv'
    <2>1. \A q \in Pairs : q # p => spawn'[q] = spawn[q]
      BY <1>1 DEF SpawnExpires, StoresOK
    <2> QED
      BY <1>0, <1>1, <2>1, LapseTurn DEF SenderInv, OneSender
  <1>2. CASE jobs' = jobs /\ Kept
    BY <1>0, <1>2 DEF SenderInv, OneSender
  <1>3. CASE Crash
    BY <1>3, IdleTyped DEF Crash, SenderInv, OneSender
  <1>4. ASSUME Kept, NEW h \in Handlers, NEW e \in inbox, Receive(h, e) PROVE SenderInv'
    <2>1. CASE jobs' = jobs
      BY <1>2, <1>4, <2>1
    <2>2. ASSUME NEW d \in Job, jobs' = [jobs EXCEPT ![h] = d], d.claim = "none" PROVE SenderInv'
      BY <1>0, <1>4, <2>2 DEF JobsOK, SenderInv, OneSender
    <2> QED
      BY <1>4, <2>1, <2>2, ReceiveTurn
  <1>5. ASSUME Kept, NEW h \in Handlers, Plain(h) PROVE SenderInv'
    BY <1>0, <1>5 DEF Plain, JobsOK, SenderInv, OneSender
  <1>6. ASSUME Kept, NEW h \in Handlers, Begun(h) PROVE SenderInv'
    <2>1. PICK d \in Job : /\ jobs' = [jobs EXCEPT ![h] = d]
                           /\ d.claim = "fresh" => /\ spawn[<<d.agent, d.ticket>>] = "free"
                                                   /\ spawn'[<<d.agent, d.ticket>>] # "free"
      BY <1>6 DEF Begun
    <2>2. jobs'[h] = d /\ \A g \in Handlers : g # h => jobs'[g] = jobs[g]
      BY <2>1 DEF JobsOK
    <2> QED
      BY <1>0, <1>6, <2>1, <2>2 DEF SenderInv, OneSender
  <1> QED
    BY <1>1, <1>2, <1>3, <1>4, <1>5, <1>6, ClaimsKept, NextTurns

\* OneSender: of the handlers that send about one pair, at most one sends under a
\* spawn claim it began and has not lost.
THEOREM ClaimHasOneSender == Spec => []OneSender
  <1>1. Init => SenderInv
    BY IdleTyped DEF Init, SenderInv, OneSender
  <1>2. StoresOK /\ JobsOK /\ SenderInv /\ [Next]_vars => SenderInv'
    BY SenderStep
  <1>3. SenderInv => OneSender
    BY DEF SenderInv
  <1> QED
    BY <1>1, <1>2, <1>3, Typed, PTL DEF Spec

-----------------------------------------------------------------------------
(* WindowBacked.                                                            *)

\* A step that turns no dedup window leaves the handlers at their liveness check.
LEMMA WindowsKept ==
  ASSUME StoresOK, JobsOK, [Next]_vars
  PROVE  \/ Crash
         \/ \E h \in Handlers : Routed(h) \/ Abort(h) \/ Admit(h) \/ Drain(h)
         \/ /\ UNCHANGED <<nudge, crashes>>
            /\ \A g \in Handlers :
                 jobs[g].stage = "liveness" =>
                   /\ jobs'[g].stage = "liveness"
                   /\ jobs'[g].agent = jobs[g].agent /\ jobs'[g].ticket = jobs[g].ticket
  <1> DEFINE Waits == \A g \in Handlers :
                        jobs[g].stage = "liveness" =>
                          /\ jobs'[g].stage = "liveness"
                          /\ jobs'[g].agent = jobs[g].agent /\ jobs'[g].ticket = jobs[g].ticket
             Same == UNCHANGED <<nudge, crashes>>
  <1>1. CASE UNCHANGED vars
    BY <1>1 DEF vars, stores, history
  <1>2. CASE World \/ Time \/ Crash
    <2>1. ASSUME NEW p \in Pairs, SpawnExpires(p) PROVE Same /\ Waits
      BY <2>1, LapseTurn DEF SpawnExpires, history
    <2> QED
      BY <1>2, <2>1 DEF World, Time, Update, Undelegate, Drop, Bar, SessionFinishes, LeaseExpires, ClaimExpires, stores, history
  <1>3. ASSUME NEW h \in Handlers, jobs[h].stage # "liveness", Begun(h) \/ Plain(h) PROVE Waits
    BY <1>3 DEF Begun, Plain, JobsOK
  <1>4. ASSUME NEW h \in Handlers, NEW e \in inbox, Receive(h, e) PROVE Same /\ Waits
    <2>1. Same /\ jobs[h].stage = "idle"
      BY <1>4 DEF Receive
    <2> QED
      BY <1>4, <2>1, ReceiveTurn DEF JobsOK
  <1>5. ASSUME NEW h \in Handlers, NotRouted(h) \/ Direct(h) PROVE Same /\ Waits
    <2>1. Same /\ jobs[h].stage # "liveness"
      BY <1>5 DEF NotRouted, Direct, DirectReplays, DirectStarts, DirectSent, DirectThrows, stores, history
    <2> QED
      BY <1>3, <1>5, <2>1, PlainTurns, StartTurns DEF Direct
  <1>6. ASSUME NEW h \in Handlers, Resignal(h) PROVE Same /\ Waits
    <2>1. Same /\ jobs[h].stage # "liveness"
      BY <1>6 DEF Resignal, NextTicket, Prune, Defer, WakeReplays, WakeStarts, WakeAccepted, WakeFailed, LoopEnds, stores, history
    <2> QED
      BY <1>3, <1>6, <2>1, PlainTurns, StartTurns DEF Resignal
  <1>7. ASSUME NEW h \in Handlers, Reconciles(h) PROVE Same /\ Waits
    <2>1. Same /\ jobs[h].stage # "liveness"
      BY <1>7 DEF Reconciles, SweepReads, SweepSkips, Sweep, SweepWake, SweepAccepted, SweepFailed, stores, history
    <2> QED
      BY <1>3, <1>7, <2>1, PlainTurns DEF Reconciles
  <1>8. ASSUME NEW h \in Handlers, NEW a \in Agents, SessionEnd(h, a) \/ Replay(h, a) PROVE Same /\ Waits
    <2>1. Same /\ jobs[h].stage # "liveness"
      BY <1>8 DEF SessionEnd, Replay, stores, history
    <2> QED
      BY <1>3, <1>8, <2>1, PlainTurns
  <1> QED
    BY <1>1, <1>2, <1>4, <1>5, <1>6, <1>7, <1>8 DEF Next, Webhook, SessionEnds, Starts

\* An event of the pair is before its liveness check.
Waiting(p) ==
  \E h \in Handlers : jobs[h].stage = "liveness" /\ <<jobs[h].agent, jobs[h].ticket>> = p

\* If h alone moves, a window left open by it was open before and not for h to
\* decide on, or is somebody's now.
LEMMA OneTurned ==
  ASSUME JobsOK, WindowBacked, NEW h \in Handlers, Plain(h), crashes' = crashes,
         \A q \in Pairs :
            nudge'[q].primed /\ ~nudge'[q].backed =>
              \/ Waiting(q)'
              \/ /\ nudge[q].primed /\ ~nudge[q].backed
                 /\ q # <<jobs[h].agent, jobs[h].ticket>> \/ jobs[h].stage # "liveness"
  PROVE  WindowBacked'
  <1> SUFFICES ASSUME NEW q \in Pairs, nudge'[q].primed, crashes' = 0, ~nudge'[q].backed
               PROVE  Waiting(q)'
    BY DEF WindowBacked, Waiting
  <1>1. \A g \in Handlers : g # h => jobs'[g] = jobs[g]
    BY DEF Plain, JobsOK
  <1>2. nudge[q].primed /\ ~nudge[q].backed => Waiting(q)
    BY DEF WindowBacked, Waiting
  <1>3. Waiting(q) /\ (q # <<jobs[h].agent, jobs[h].ticket>> \/ jobs[h].stage # "liveness") => Waiting(q)'
    BY <1>1 DEF Waiting
  <1> QED
    BY <1>2, <1>3

LEMMA WindowStep == StoresOK /\ JobsOK /\ WindowBacked /\ [Next]_vars => WindowBacked'
  <1> SUFFICES ASSUME StoresOK, JobsOK, WindowBacked, [Next]_vars PROVE WindowBacked'
    OBVIOUS
  <1>1. CASE Crash
    <2>1. crashes' # 0
      BY <1>1, GuardConstants DEF Crash, StoresOK
    <2> QED
      BY <2>1 DEF WindowBacked
  <1>2. CASE /\ UNCHANGED <<nudge, crashes>>
             /\ \A g \in Handlers :
                  jobs[g].stage = "liveness" =>
                    /\ jobs'[g].stage = "liveness"
                    /\ jobs'[g].agent = jobs[g].agent /\ jobs'[g].ticket = jobs[g].ticket
    BY <1>2 DEF WindowBacked
  <1>3. ASSUME NEW h \in Handlers, Routed(h) PROVE WindowBacked'
    <2> DEFINE p == <<jobs[h].agent, jobs[h].ticket>>
    <2>1. p \in Pairs /\ jobs[h].stage = "routing" /\ Plain(h) /\ crashes' = crashes
      BY <1>3, Handled, PlainTurns DEF Routed, history
    <2>2. CASE nudge' = [nudge EXCEPT ![p].merged = TRUE] /\ nudge[p].primed
      <3>1. nudge'[p].backed = nudge[p].backed /\ \A q \in Pairs : q # p => nudge'[q] = nudge[q]
        BY <2>1, <2>2, SlotTyped DEF StoresOK
      <3> QED
        BY <2>1, <2>2, <3>1, OneTurned
    <2>3. CASE nudge' = [nudge EXCEPT ![p] = [NoNudge EXCEPT !.primed = TRUE]] /\ Goes(h, "liveness")
      <3>1. \A q \in Pairs : q # p => nudge'[q] = nudge[q]
        BY <2>1, <2>3 DEF StoresOK
      <3>2. Edited([jobs[h] EXCEPT !.stage = "liveness"], "liveness", jobs[h].agent, jobs[h].ticket, jobs[h].claim)
        BY EditStage DEF JobsOK, Stages
      <3>3. jobs'[h] = [jobs[h] EXCEPT !.stage = "liveness"]
        BY <2>3 DEF Goes, JobsOK
      <3>4. \A q \in Pairs : q = p => Waiting(q)'
        BY <3>2, <3>3 DEF Waiting, Edited
      <3> QED
        BY <2>1, <3>1, <3>4, OneTurned
    <2> QED
      BY <1>3, <2>2, <2>3 DEF Routed
  <1>4. ASSUME NEW h \in Handlers, Abort(h) PROVE WindowBacked'
    <2> DEFINE p == <<jobs[h].agent, jobs[h].ticket>>
    <2>1. p \in Pairs /\ jobs[h].stage = "liveness" /\ Plain(h) /\ crashes' = crashes
      BY <1>4, Handled, PlainTurns DEF Abort, history
    <2>2. ~nudge'[p].primed /\ \A q \in Pairs : q # p => nudge'[q] = nudge[q]
      BY <1>4, <2>1, FreshSlot DEF Abort, ClearNudge, StoresOK
    <2> QED
      BY <2>1, <2>2, OneTurned
  <1>5. ASSUME NEW h \in Handlers, Admit(h) PROVE WindowBacked'
    <2> DEFINE p == <<jobs[h].agent, jobs[h].ticket>>
    <2>1. p \in Pairs /\ jobs[h].stage = "liveness" /\ Plain(h) /\ crashes' = crashes
      BY <1>5, Handled, PlainTurns DEF Admit, history
    <2>2. nudge'[p].backed = nudge'[p].primed /\ \A q \in Pairs : q # p => nudge'[q] = nudge[q]
      BY <1>5, <2>1, SlotTyped DEF Admit, StoresOK
    <2> QED
      BY <2>1, <2>2, OneTurned
  <1>6. ASSUME NEW h \in Handlers, Drain(h) PROVE WindowBacked'
    <2>1. jobs[h].stage = "ended" /\ Plain(h) /\ crashes' = crashes
      BY <1>6, PlainTurns DEF Drain, history
    <2>2. \A q \in Pairs : nudge'[q] = nudge[q] \/ ~nudge'[q].primed
      BY <1>6, FreshSlot DEF Drain, StoresOK
    <2> QED
      BY <2>1, <2>2, OneTurned
  <1> QED
    BY <1>1, <1>2, <1>3, <1>4, <1>5, <1>6, WindowsKept

\* WindowBacked: before any restart, a dedup window that swallows events has had an
\* admission, or a handler of its pair has still to decide on one.
THEOREM WindowsBacked == Spec => []WindowBacked
  <1>1. Init => WindowBacked
    BY FreshSlot DEF Init, WindowBacked
  <1>2. StoresOK /\ JobsOK /\ WindowBacked /\ [Next]_vars => WindowBacked'
    BY WindowStep
  <1> QED
    BY <1>1, <1>2, Typed, PTL DEF Spec
================================================================================
