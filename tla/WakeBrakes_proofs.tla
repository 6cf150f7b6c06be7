-------------------------- MODULE WakeBrakes_proofs --------------------------
(***************************************************************************)
(* The stores of WakeBrakes keep their types, and the breaker cuts a loop  *)
(* of re-pokes at its caps, for any labels, caps, frames and callers.      *)
(***************************************************************************)
EXTENDS WakeBrakes, TLAPS

(* What TypeOK says of each variable. *)
Rows     == [status : Status, failures : 0 .. MaxFailures]
Breakers == [seen : SUBSET Labels, last : Labels \cup {None}, wakes : 0 .. MaxWakes,
             revisits : 0 .. MaxRevisits, tripped : BOOLEAN]
FrameRecords == [pc : Places, by : Callers \cup {""}, failures : 0 .. MaxFailures,
                 verdict : Verdicts]

(* A breaker that has not tripped is below its caps. *)
BelowCaps == ~breaker.tripped => breaker.wakes < MaxWakes /\ breaker.revisits < MaxRevisits

(* What a breaker remembers of a trail t of n labels: the last one, the length of the
   run of equal labels at its end and that of the run of labels shown before. *)
Remembers(b, t, n) ==
    /\ b.last = t[n]
    /\ b.wakes < n /\ b.revisits < n
    /\ b.wakes + 1 < n => t[n - b.wakes - 1] # t[n]
    /\ \A k \in 1 .. n : k < n - b.revisits => t[k] # t[n - b.revisits]

Tracks ==
    /\ breaker.seen = {trail[i] : i \in 1 .. Len(trail)}
    /\ ~breaker.tripped /\ trail # <<>> => Remembers(breaker, trail, Len(trail))

TypeInv == TypeOK /\ BelowCaps

-----------------------------------------------------------------------------
(* The updates of the stores.                                              *)

LEMMA UptoType == ASSUME NEW max \in Nat, NEW n \in 0 .. max
                  PROVE  Upto(n, max) \in 0 .. max
  BY DEF Upto

LEMMA ConsumeType == ASSUME NEW n \in 0 .. MaxAttempts + 1
                     PROVE  Consume(n) \in 0 .. MaxAttempts + 1
  BY BrakeConstants, UptoType DEF Consume

LEMMA ResetType == 0 \in 0 .. MaxAttempts + 1
  BY BrakeConstants

LEMMA RowUpdates ==
  ASSUME NEW r \in Rows
  PROVE  /\ RecordDispatch(r) \in Rows /\ EnsurePending(r) \in Rows
         /\ Acknowledge(r) \in Rows /\ MarkResignaled(r) \in Rows
         /\ MarkResignalFailed(r) \in Rows /\ MarkEscalated(r) \in Rows
<1>1. RecordDispatch(r) \in Rows
  BY BrakeConstants DEF RecordDispatch, Rows, Status
<1>2. EnsurePending(r) \in Rows
  BY BrakeConstants DEF EnsurePending, Rows, Status
<1>3. Acknowledge(r) \in Rows /\ MarkEscalated(r) \in Rows
  BY DEF Acknowledge, MarkEscalated, Rows, Status
<1>4. MarkResignaled(r) \in Rows
  BY BrakeConstants DEF MarkResignaled, Rows, Status
<1>5. MarkResignalFailed(r) \in Rows
  <2>1. Upto(r.failures, MaxFailures) \in 0 .. MaxFailures
    BY BrakeConstants, UptoType DEF Rows
  <2> QED
    BY <2>1 DEF MarkResignalFailed, Rows
<1> QED
  BY <1>1, <1>2, <1>3, <1>4, <1>5

LEMMA IdleType == Idle \in FrameRecords
  BY BrakeConstants DEF Idle, FrameRecords, Places, Verdicts

LEMMA FrameUpdates ==
  ASSUME frame \in [Frames -> FrameRecords], NEW f \in Frames
  PROVE  /\ \A pc \in Places : Awaits(f, pc) => frame' \in [Frames -> FrameRecords]
         /\ Ends(f) => frame' \in [Frames -> FrameRecords]
         /\ \A by \in Callers, pc \in Places :
              Calls(f, by, pc) => frame' \in [Frames -> FrameRecords]
<1>1. ASSUME NEW pc \in Places, Awaits(f, pc)
      PROVE  frame' \in [Frames -> FrameRecords]
  BY <1>1 DEF Awaits, FrameRecords
<1>2. Ends(f) => frame' \in [Frames -> FrameRecords]
  BY IdleType DEF Ends
<1>3. ASSUME NEW by \in Callers, NEW pc \in Places, Calls(f, by, pc)
      PROVE  frame' \in [Frames -> FrameRecords]
  <2>1. [Idle EXCEPT !.pc = pc, !.by = by] \in FrameRecords
    BY IdleType DEF FrameRecords
  <2> QED
    BY <1>3, <2>1 DEF Calls
<1> QED
  BY <1>1, <1>2, <1>3

LEMMA UnknownType == Unknown \in Breakers /\ ~Unknown.tripped
                     /\ Unknown.wakes = 0 /\ Unknown.revisits = 0 /\ Unknown.seen = {}
  BY BrakeConstants DEF Unknown, Breakers

(* One more re-poke counted keeps the breaker typed, and below its caps if it has
   not tripped. *)
LEMMA CountedType ==
  ASSUME NEW b \in Breakers, NEW s \in Labels \cup {None},
         ~b.tripped => b.wakes < MaxWakes /\ b.revisits < MaxRevisits
  PROVE  /\ Counted(b, s) \in Breakers
         /\ ~Counted(b, s).tripped =>
              Counted(b, s).wakes < MaxWakes /\ Counted(b, s).revisits < MaxRevisits
<1>1. CASE s = None
  BY <1>1, UnknownType, BrakeConstants DEF Counted
<1>2. CASE s # None /\ s \notin b.seen
  <2>1. Counted(b, s) = [seen |-> b.seen \cup {s}, last |-> s, wakes |-> 0,
                         revisits |-> 0, tripped |-> FALSE]
    BY <1>2 DEF Counted, Unknown
  <2>2. b.seen \cup {s} \in SUBSET Labels
    BY <1>2 DEF Breakers
  <2> QED
    BY <2>1, <2>2, BrakeConstants DEF Breakers
<1>3. CASE s # None /\ s \in b.seen /\ b.tripped
  BY <1>3 DEF Counted
<1>4. CASE s # None /\ s \in b.seen /\ ~b.tripped
  <2> DEFINE w == IF s = b.last THEN b.wakes + 1 ELSE 0
             t == (s = b.last /\ w >= MaxWakes) \/ b.revisits + 1 >= MaxRevisits
  <2>1. Counted(b, s) = [seen |-> b.seen, last |-> s, wakes |-> w,
                         revisits |-> b.revisits + 1, tripped |-> t]
    BY <1>4 DEF Counted
  <2>2. w \in 0 .. MaxWakes /\ b.revisits + 1 \in 0 .. MaxRevisits /\ t \in BOOLEAN
    BY <1>4, BrakeConstants DEF Breakers
  <2>3. ~t => w < MaxWakes /\ b.revisits + 1 < MaxRevisits
    BY <1>4, BrakeConstants, <2>2
  <2> HIDE DEF w, t
  <2> QED
    BY <1>4, <2>1, <2>2, <2>3 DEF Breakers
<1> QED
  BY <1>1, <1>2, <1>3, <1>4

-----------------------------------------------------------------------------
(* TypeOK, one variable at a time.                                         *)

RowOK     == row \in Rows
CountOK   == count \in 0 .. MaxAttempts + 1
BreakerOK == breaker \in Breakers /\ BelowCaps /\ trail \in Seq(Labels)
FlagsOK   == /\ claim \in BOOLEAN /\ spawn \in {"free", "pending", "bound"}
             /\ session \in BOOLEAN /\ mine \in BOOLEAN
FrameOK   == frame \in [Frames -> FrameRecords]
UsedOK    == used \in 0 .. Quota

Parts == RowOK /\ CountOK /\ BreakerOK /\ FlagsOK /\ FrameOK /\ UsedOK

LEMMA TypeInvParts == /\ TypeInv <=> Parts
                      /\ TypeInv' <=> Parts'
  BY DEF TypeInv, TypeOK, Parts, RowOK, CountOK, BreakerOK, FlagsOK, FrameOK, UsedOK,
         Rows, Breakers, FrameRecords

Untouched == UNCHANGED <<breaker, trail>>

LEMMA UntouchedOK == ASSUME BreakerOK, Untouched PROVE BreakerOK'
  BY DEF BreakerOK, BelowCaps, Untouched

(* One step of each part that the handlers take in the same way. *)
LEMMA NotDispatchedOK ==
  ASSUME RowOK, FrameOK, NEW f \in Frames, NotDispatched(f)
  PROVE  RowOK' /\ FrameOK'
<1>1. RowOK'
  <2>1. MarkResignalFailed(row) \in Rows
    BY RowUpdates DEF RowOK
  <2>2. MarkEscalated(MarkResignalFailed(row)) \in Rows
    BY <2>1, RowUpdates
  <2> QED
    BY <2>1, <2>2 DEF NotDispatched, RowOK
<1>2. FrameOK'
  BY FrameUpdates DEF NotDispatched, FrameOK
<1> QED
  BY <1>1, <1>2

LEMMA ClaimOK ==
  ASSUME Parts, NEW f \in Frames, Claim(f)
  PROVE  Parts'
<1>1. RowOK' /\ FrameOK' /\ claim' \in BOOLEAN
  <2>1. CASE Skips
    BY <2>1, NotDispatchedOK DEF Claim, Parts, FlagsOK
  <2>2. CASE ~Skips
    BY <2>2, FrameUpdates DEF Claim, Parts, RowOK, FrameOK, Places
  <2> QED
    BY <2>1, <2>2
<1> QED
  BY <1>1, UntouchedOK DEF Claim, Parts, CountOK, FlagsOK, UsedOK, Untouched

-----------------------------------------------------------------------------
(* The steps, one lemma per group of handlers.                             *)

LEMMA WakeOK ==
  ASSUME Parts, NEW f \in Frames,
         Pruned(f) \/ Replays(f) \/ Sends(f) \/ Delivered(f) \/ Refused(f)
  PROVE  Parts'
<1>1. BreakerOK' /\ UsedOK'
  BY UntouchedOK DEF Parts, UsedOK, Untouched, Pruned, Replays, Sends, Delivered, Refused
<1>2. FrameOK'
  BY FrameUpdates, NotDispatchedOK
     DEF Parts, FrameOK, Places, Pruned, Replays, Sends, Delivered, Refused
<1>3. RowOK'
  <2>1. MarkResignaled(RecordDispatch(row)) \in Rows
    BY RowUpdates DEF Parts, RowOK
  <2> QED
    BY <2>1, RowUpdates, NotDispatchedOK
       DEF Parts, RowOK, Pruned, Replays, Sends, Delivered, Refused
<1>4. CountOK'
  BY ResetType DEF Parts, CountOK, Pruned, Replays, Sends, Delivered, Refused
<1>5. FlagsOK'
  BY DEF Parts, FlagsOK, Pruned, Replays, Sends, Delivered, Refused, Begins, Taken, NotTaken
<1> QED
  BY <1>1, <1>2, <1>3, <1>4, <1>5 DEF Parts

LEMMA DetectorOK ==
  ASSUME Parts, NEW f \in Frames,
         Detect(f) \/ SweptAway(f) \/ LeftAlone(f) \/ HandleFailure(f)
  PROVE  Parts'
<1>1. BreakerOK' /\ UsedOK'
  BY UntouchedOK DEF Parts, UsedOK, Untouched, Detect, SweptAway, LeftAlone, HandleFailure
<1>2. FrameOK'
  <2>1. CASE HandleFailure(f)
    <3>1. row.failures \in 0 .. MaxFailures
      BY DEF Parts, RowOK, Rows
    <3>2. [frame[f] EXCEPT !.pc = "recheck", !.failures = row.failures] \in FrameRecords
      BY <3>1 DEF Parts, FrameOK, FrameRecords, Places
    <3>3. [frame EXCEPT ![f].pc = "recheck", ![f].failures = row.failures]
            \in [Frames -> FrameRecords]
      BY <3>2 DEF Parts, FrameOK
    <3> QED
      BY <2>1, <3>3, FrameUpdates DEF Parts, FrameOK, HandleFailure
  <2>2. CASE Detect(f) \/ SweptAway(f) \/ LeftAlone(f)
    BY <2>2, FrameUpdates
       DEF Parts, FrameOK, Places, Callers, Detect, SweptAway, LeftAlone
  <2> QED
    BY <2>1, <2>2
<1>3. RowOK'
  BY RowUpdates DEF Parts, RowOK, Detect, SweptAway, LeftAlone, HandleFailure
<1>4. CountOK'
  BY ConsumeType DEF Parts, CountOK, Detect, SweptAway, LeftAlone, HandleFailure
<1>5. FlagsOK'
  BY DEF Parts, FlagsOK, Detect, SweptAway, LeftAlone, HandleFailure
<1> QED
  BY <1>1, <1>2, <1>3, <1>4, <1>5 DEF Parts

LEMMA WatchdogOK ==
  ASSUME Parts, NEW f \in Frames,
         Overdue(f) \/ Unresolved(f) \/ SkipsEntry(f) \/ Redrive(f)
  PROVE  Parts'
<1>1. BreakerOK' /\ UsedOK'
  BY UntouchedOK DEF Parts, UsedOK, Untouched, Overdue, Unresolved, SkipsEntry, Redrive
<1>2. FrameOK'
  BY FrameUpdates
     DEF Parts, FrameOK, Places, Callers, Overdue, Unresolved, SkipsEntry, Redrive
<1>3. RowOK'
  BY RowUpdates DEF Parts, RowOK, Overdue, Unresolved, SkipsEntry, Redrive
<1>4. CountOK'
  BY ConsumeType DEF Parts, CountOK, Overdue, Unresolved, SkipsEntry, Redrive
<1>5. FlagsOK'
  BY DEF Parts, FlagsOK, Overdue, Unresolved, SkipsEntry, Redrive
<1> QED
  BY <1>1, <1>2, <1>3, <1>4, <1>5 DEF Parts

LEMMA RecoveryOK ==
  ASSUME Parts, NEW f \in Frames,
         \/ StaleTimer(f) \/ Classify(f) \/ Recovered(f) \/ Dropped(f)
         \/ Repoked(f) \/ RepokeFails(f)
  PROVE  Parts'
<1>1. BreakerOK' /\ UsedOK'
  BY UntouchedOK DEF Parts, UsedOK, Untouched, StaleTimer, Classify, Recovered, Dropped,
                     Repoked, RepokeFails
<1>2. FrameOK'
  <2>1. CASE Classify(f)
    <3>1. PICK verdict \in Verdicts \ {""} :
            frame' = [frame EXCEPT ![f].pc = "issue", ![f].verdict = verdict]
      BY <2>1 DEF Classify
    <3>2. [frame[f] EXCEPT !.pc = "issue", !.verdict = verdict] \in FrameRecords
      BY DEF Parts, FrameOK, FrameRecords, Places
    <3> QED
      BY <3>1, <3>2 DEF Parts, FrameOK
  <2>2. CASE Recovered(f)
    <3>1. [frame[f] EXCEPT !.pc = "recipient", !.verdict = ""] \in FrameRecords
      BY DEF Parts, FrameOK, FrameRecords, Places, Verdicts
    <3>2. [frame EXCEPT ![f].pc = "recipient", ![f].verdict = ""]
            \in [Frames -> FrameRecords]
      BY <3>1 DEF Parts, FrameOK
    <3> QED
      BY <2>2, <3>2, FrameUpdates DEF Parts, FrameOK, Recovered
  <2>3. CASE StaleTimer(f) \/ Dropped(f) \/ Repoked(f) \/ RepokeFails(f)
    BY <2>3, FrameUpdates
       DEF Parts, FrameOK, Places, Callers, StaleTimer, Dropped, Repoked, RepokeFails
  <2> QED
    BY <2>1, <2>2, <2>3
<1>3. RowOK'
  BY RowUpdates DEF Parts, RowOK, StaleTimer, Classify, Recovered, Dropped, Repoked, RepokeFails
<1>4. CountOK'
  BY ConsumeType, ResetType
     DEF Parts, CountOK, StaleTimer, Classify, Recovered, Dropped, Repoked, RepokeFails
<1>5. FlagsOK'
  BY DEF Parts, FlagsOK, StaleTimer, Classify, Recovered, Dropped, Repoked, RepokeFails,
         Taken, NotTaken
<1> QED
  BY <1>1, <1>2, <1>3, <1>4, <1>5 DEF Parts

LEMMA BrakedOK ==
  ASSUME Parts, NEW f \in Frames, Braked(f)
  PROVE  Parts'
<1>1. PICK s \in Labels \cup {None} :
        /\ breaker' = Counted(breaker, s)
        /\ trail' = IF s = None THEN <<>>
                    ELSE IF breaker'.tripped THEN trail ELSE Append(trail, s)
  BY DEF Braked
<1>2. BreakerOK'
  <2>1. /\ Counted(breaker, s) \in Breakers
        /\ ~Counted(breaker, s).tripped =>
             /\ Counted(breaker, s).wakes < MaxWakes
             /\ Counted(breaker, s).revisits < MaxRevisits
    BY CountedType DEF Parts, BreakerOK, BelowCaps
  <2>2. trail' \in Seq(Labels)
    BY <1>1 DEF Parts, BreakerOK
  <2> QED
    BY <1>1, <2>1, <2>2 DEF BreakerOK, BelowCaps
<1>3. FrameOK'
  BY FrameUpdates DEF Braked, Parts, FrameOK, Places, Callers
<1> QED
  BY <1>2, <1>3 DEF Braked, Parts, RowOK, CountOK, FlagsOK, UsedOK

LEMMA WebhookOK ==
  ASSUME Parts, NEW f \in Frames,
         Event(f) \/ Stopped(f) \/ Route(f) \/ Direct(f)
  PROVE  Parts'
<1>1. BreakerOK'
  <2>1. CASE Event(f)
    <3>1. Counted(breaker, None) = Unknown
      BY DEF Counted
    <3>2. <<>> \in Seq(Labels)
      OBVIOUS
    <3>3. CASE breaker.tripped
      BY <2>1, <3>3, UntouchedOK DEF Event, Parts, Untouched
    <3>4. CASE ~breaker.tripped
      <4>1. breaker' = Unknown /\ trail' = <<>>
        BY <2>1, <3>1, <3>4 DEF Event
      <4> QED
        BY <3>2, <4>1, UnknownType, BrakeConstants DEF BreakerOK, BelowCaps
    <3> QED
      BY <3>3, <3>4
  <2>2. CASE Stopped(f) \/ Route(f) \/ Direct(f)
    BY <2>2, UntouchedOK DEF Parts, Untouched, Stopped, Route, Direct
  <2> QED
    BY <2>1, <2>2
<1>2. UsedOK'
  BY BrakeConstants DEF Parts, UsedOK, Event, Stopped, Route, Direct
<1>3. FrameOK'
  BY FrameUpdates DEF Parts, FrameOK, Places, Callers, Event, Stopped, Route, Direct
<1>4. RowOK' /\ CountOK'
  BY RowUpdates DEF Parts, RowOK, CountOK, Event, Stopped, Route, Direct
<1>5. FlagsOK'
  BY DEF Parts, FlagsOK, Event, Stopped, Route, Direct, Begins, Taken, NotTaken
<1> QED
  BY <1>1, <1>2, <1>3, <1>4, <1>5 DEF Parts

LEMMA WorldOK ==
  ASSUME Parts, World
  PROVE  Parts'
<1>1. CASE Restart
  <2>1. BreakerOK'
    <3>1. breaker' = Unknown /\ trail' = <<>>
      BY <1>1 DEF Restart
    <3>2. <<>> \in Seq(Labels)
      OBVIOUS
    <3> QED
      BY <3>1, <3>2, UnknownType, BrakeConstants DEF BreakerOK, BelowCaps
  <2>2. FrameOK'
    BY <1>1, IdleType DEF Restart, FrameOK
  <2>3. UsedOK'
    BY <1>1, BrakeConstants DEF Restart, Parts, UsedOK
  <2> QED
    BY <1>1, <2>1, <2>2, <2>3 DEF Restart, Parts, RowOK, CountOK, FlagsOK
<1>2. CASE Works \/ Comments \/ SessionOver \/ DelegateChanges \/ RunExpires \/ CleanUp
  <2>1. BreakerOK' /\ FrameOK' /\ UsedOK'
    BY <1>2, UntouchedOK DEF Parts, FrameOK, UsedOK, Untouched, Works, Comments, SessionOver,
                             DelegateChanges, RunExpires, CleanUp
  <2>2. RowOK'
    <3>1. [status |-> "none", failures |-> 0] \in Rows
      BY BrakeConstants DEF Rows, Status
    <3> QED
      BY <1>2, <3>1, RowUpdates DEF Parts, RowOK, Works, Comments, SessionOver,
                                    DelegateChanges, RunExpires, CleanUp
  <2>3. CountOK' /\ FlagsOK'
    BY <1>2, ResetType DEF Parts, CountOK, FlagsOK, Works, Comments, SessionOver,
                                DelegateChanges, RunExpires, CleanUp
  <2> QED
    BY <2>1, <2>2, <2>3 DEF Parts
<1> QED
  BY <1>1, <1>2 DEF World

LEMMA InitOK == Init => Parts
<1> SUFFICES ASSUME Init PROVE Parts
  OBVIOUS
<1>1. RowOK
  BY BrakeConstants DEF Init, RowOK, Rows, Status
<1>2. CountOK /\ FlagsOK
  BY ResetType DEF Init, CountOK, FlagsOK
<1>3. UsedOK
  BY BrakeConstants DEF Init, UsedOK
<1>4. BreakerOK
  <2>1. <<>> \in Seq(Labels)
    OBVIOUS
  <2> QED
    BY <2>1, UnknownType, BrakeConstants DEF Init, BreakerOK, BelowCaps
<1>5. FrameOK
  BY IdleType DEF Init, FrameOK
<1> QED
  BY <1>1, <1>2, <1>3, <1>4, <1>5 DEF Parts

LEMMA NextOK == ASSUME Parts, [Next]_vars PROVE Parts'
<1>1. CASE World
  BY <1>1, WorldOK
<1>2. ASSUME NEW f \in Frames, Starts(f) \/ Settles(f)
      PROVE  Parts'
  BY <1>2, ClaimOK, WakeOK, DetectorOK, WatchdogOK, RecoveryOK, BrakedOK, WebhookOK
     DEF Starts, Settles, Recheck, BackoffOver
<1>3. CASE UNCHANGED vars
  BY <1>3, UntouchedOK DEF vars, Parts, RowOK, CountOK, FlagsOK, FrameOK, UsedOK, Untouched
<1> QED
  BY <1>1, <1>2, <1>3 DEF Next

(* Every store holds values its schema allows, and no counter of a brake passes the
   cap at which the brake acts. *)
THEOREM TypeCorrect == Spec => []TypeOK
<1>1. Init => Parts
  BY InitOK
<1>2. Parts /\ [Next]_vars => Parts'
  BY NextOK
<1>3. Parts => TypeOK
  BY TypeInvParts DEF TypeInv
<1> QED
  BY <1>1, <1>2, <1>3, PTL DEF Spec

-----------------------------------------------------------------------------
(* The breaker and its trail.  Only Braked, Event and Restart touch them; Event and
   Restart forget both.                                                    *)

CutInv == Parts /\ Tracks /\ LoopIsCut

LEMMA ForgottenOK ==
  ASSUME breaker' = Unknown, trail' = <<>>
  PROVE  Tracks' /\ LoopIsCut'
<1>1. Len(trail') = 0
  OBVIOUS
<1>2. Tracks'
  <2>1. breaker'.seen = {trail'[i] : i \in 1 .. Len(trail')}
    BY <1>1, UnknownType
  <2> QED
    BY <2>1 DEF Tracks, Remembers
<1>3. LoopIsCut'
  BY <1>1 DEF LoopIsCut
<1> QED
  BY <1>2, <1>3

(* A wake the open breaker holds back. *)
LEMMA HeldOK ==
  ASSUME CutInv, NEW s \in Labels, s \in breaker.seen,
         breaker' = Counted(breaker, s), breaker'.tripped, trail' = trail
  PROVE  Tracks' /\ LoopIsCut'
<1>1. s # None
  BY BrakeConstants
<1>2. breaker'.seen = breaker.seen
  BY <1>1 DEF Counted
<1>3. Tracks'
  BY <1>2 DEF CutInv, Tracks
<1>4. LoopIsCut'
  BY DEF CutInv, LoopIsCut
<1> QED
  BY <1>3, <1>4

(* A wake the breaker lets out. *)
LetOut(s) ==
    breaker' = Counted(breaker, s) /\ ~breaker'.tripped /\ trail' = Append(trail, s)

LEMMA LetOutTracks ==
  ASSUME CutInv, NEW s \in Labels, LetOut(s)
  PROVE  Tracks'
<1> DEFINE n == Len(trail)
<1>1. n \in Nat /\ trail \in Seq(Labels)
  BY DEF CutInv, Parts, BreakerOK
<1>2. /\ Len(trail') = n + 1 /\ trail'[n + 1] = s
      /\ \A i \in 1 .. n : trail'[i] = trail[i]
      /\ trail' # <<>>
  BY <1>1 DEF LetOut
<1>3. breaker \in Breakers /\ BelowCaps
  BY DEF CutInv, Parts, BreakerOK
<1>4. breaker.wakes \in Nat /\ breaker.revisits \in Nat
  BY <1>3, BrakeConstants DEF Breakers
<1>5. breaker.seen = {trail[i] : i \in 1 .. n}
  BY DEF CutInv, Tracks
<1>6. s # None
  BY BrakeConstants
<1>7. breaker'.seen = breaker.seen \cup {s}
  BY <1>6 DEF LetOut, Counted, Unknown
<1>8. breaker'.seen = {trail'[i] : i \in 1 .. Len(trail')}
  <2>1. \A i \in 1 .. n + 1 : i \in 1 .. n \/ i = n + 1
    BY <1>1
  <2>2. {trail'[i] : i \in 1 .. n + 1} = {trail[i] : i \in 1 .. n} \cup {s}
    BY <1>1, <1>2, <2>1
  <2> QED
    BY <1>2, <1>5, <1>7, <2>2
<1>9. Remembers(breaker', trail', n + 1)
  <2>1. CASE s \notin breaker.seen
    <3>1. breaker'.last = s /\ breaker'.wakes = 0 /\ breaker'.revisits = 0
      BY <1>6, <2>1 DEF LetOut, Counted, Unknown
    <3>2. \A k \in 1 .. n : trail'[k] # s
      BY <1>2, <1>5, <2>1
    <3> QED
      BY <1>1, <1>2, <3>1, <3>2 DEF Remembers
  <2>2. CASE s \in breaker.seen
    <3>1. ~breaker.tripped
      BY <1>6, <2>2 DEF LetOut, Counted
    <3>2. n > 0
      BY <1>1, <1>5, <2>2
    <3>3. Remembers(breaker, trail, n)
      BY <1>1, <3>1, <3>2 DEF CutInv, Tracks
    <3>4. /\ breaker'.last = s /\ breaker'.revisits = breaker.revisits + 1
          /\ breaker'.wakes = IF s = breaker.last THEN breaker.wakes + 1 ELSE 0
      BY <1>6, <2>2, <3>1 DEF LetOut, Counted
    <3>5. /\ breaker'.wakes < n + 1 /\ breaker'.revisits < n + 1
      BY <1>1, <1>4, <3>2, <3>3, <3>4 DEF Remembers
    <3>6. ASSUME breaker'.wakes + 1 < n + 1
          PROVE  trail'[n + 1 - breaker'.wakes - 1] # s
      <4>1. CASE s = breaker.last
        <5>1. breaker'.wakes = breaker.wakes + 1 /\ breaker.wakes + 1 < n
          BY <1>1, <1>4, <3>4, <3>6, <4>1
        <5>2. n - breaker.wakes - 1 \in 1 .. n /\ n + 1 - breaker'.wakes - 1 = n - breaker.wakes - 1
          BY <1>1, <1>4, <5>1
        <5>3. trail[n - breaker.wakes - 1] # trail[n] /\ trail[n] = s
          BY <3>3, <4>1, <5>1 DEF Remembers
        <5> QED
          BY <1>2, <5>2, <5>3
      <4>2. CASE s # breaker.last
        <5>1. breaker'.wakes = 0
          BY <3>4, <4>2
        <5>2. n + 1 - breaker'.wakes - 1 = n /\ n \in 1 .. n
          BY <1>1, <3>2, <5>1
        <5>3. trail[n] = breaker.last
          BY <3>3 DEF Remembers
        <5> QED
          BY <1>2, <4>2, <5>2, <5>3
      <4> QED
        BY <4>1, <4>2
    <3>7. \A k \in 1 .. n + 1 : k < n + 1 - breaker'.revisits =>
            trail'[k] # trail'[n + 1 - breaker'.revisits]
      <4>1. n + 1 - breaker'.revisits = n - breaker.revisits
        BY <1>1, <1>4, <3>4
      <4>2. n - breaker.revisits \in 1 .. n
        BY <1>1, <1>4, <3>3 DEF Remembers
      <4>3. ASSUME NEW k \in 1 .. n + 1, k < n + 1 - breaker'.revisits
            PROVE  trail'[k] # trail'[n + 1 - breaker'.revisits]
        <5>1. k \in 1 .. n /\ k < n - breaker.revisits
          BY <1>1, <1>4, <4>1, <4>2, <4>3
        <5>2. trail[k] # trail[n - breaker.revisits]
          BY <3>3, <5>1 DEF Remembers
        <5> QED
          BY <1>2, <4>1, <4>2, <5>1, <5>2
      <4> QED
        BY <4>3
    <3>8. trail'[n + 1] = s
      BY <1>2
    <3>9. n \in Nat /\ breaker'.wakes \in Nat /\ breaker'.revisits \in Nat
      BY <1>1, <1>4, <3>4
    <3> HIDE DEF n
    <3> QED
      BY <3>4, <3>5, <3>6, <3>7, <3>8, <3>9 DEF Remembers
  <2> QED
    BY <2>1, <2>2
<1> QED
  BY <1>2, <1>8, <1>9 DEF Tracks

LEMMA LetOutCut ==
  ASSUME CutInv, NEW s \in Labels, LetOut(s), Tracks', BreakerOK'
  PROVE  LoopIsCut'
<1> DEFINE n == Len(trail)
           w == breaker'.wakes
           r == breaker'.revisits
<1>1. n \in Nat /\ trail \in Seq(Labels)
  BY DEF CutInv, Parts, BreakerOK
<1>2. /\ Len(trail') = n + 1
      /\ \A i \in 1 .. n : trail'[i] = trail[i]
      /\ trail' # <<>>
  BY <1>1 DEF LetOut
<1>3. w \in Nat /\ r \in Nat /\ w < MaxWakes /\ r < MaxRevisits
  BY BrakeConstants DEF LetOut, BreakerOK, BelowCaps, Breakers
<1>4. /\ w < n + 1 /\ r < n + 1
      /\ w + 1 < n + 1 => trail'[n + 1 - w - 1] # trail'[n + 1]
      /\ \A k \in 1 .. n + 1 : k < n + 1 - r => trail'[k] # trail'[n + 1 - r]
  <2>1. Remembers(breaker', trail', n + 1)
    BY <1>2 DEF LetOut, Tracks
  <2>2. n \in Nat
    BY <1>1
  <2>3. breaker'.wakes \in Nat /\ breaker'.revisits \in Nat
    BY <1>3
  <2> HIDE DEF n
  <2>4. w < n + 1 /\ r < n + 1 /\ (w + 1 < n + 1 => trail'[n + 1 - w - 1] # trail'[n + 1])
    BY <2>1, <2>2, <2>3 DEF Remembers
  <2>5. \A k \in 1 .. n + 1 : k < n + 1 - r => trail'[k] # trail'[n + 1 - r]
    BY <2>1, <2>2, <2>3 DEF Remembers
  <2> QED
    BY <2>4, <2>5
<1> HIDE DEF w, r, n
<1>5. ASSUME NEW i \in 1 .. n + 1, i + MaxWakes <= n + 1
      PROVE  \E j \in i .. i + MaxWakes : trail'[j] # trail'[i]
  <2>1. CASE i + MaxWakes <= n
    <3>1. i \in 1 .. n /\ i .. i + MaxWakes \subseteq 1 .. n
      BY <1>1, <2>1, BrakeConstants
    <3>2. PICK j \in i .. i + MaxWakes : trail[j] # trail[i]
      BY <2>1, <3>1 DEF CutInv, LoopIsCut, n
    <3> QED
      BY <1>2, <3>1, <3>2
  <2>2. CASE i + MaxWakes = n + 1
    <3>1. w + 1 < n + 1
      BY <1>1, <1>3, <2>2, BrakeConstants
    <3>2. n + 1 - w - 1 \in i .. i + MaxWakes /\ n + 1 \in i .. i + MaxWakes
      BY <1>1, <1>3, <2>2, BrakeConstants
    <3> QED
      BY <1>4, <3>1, <3>2
  <2>3. i + MaxWakes <= n \/ i + MaxWakes = n + 1
    BY <1>1, <1>5, BrakeConstants
  <2> QED
    BY <2>1, <2>2, <2>3
<1>6. ASSUME NEW i \in 1 .. n + 1, i + MaxRevisits <= n + 1
      PROVE  \E j \in i + 1 .. i + MaxRevisits : \A k \in 1 .. j - 1 : trail'[k] # trail'[j]
  <2>1. CASE i + MaxRevisits <= n
    <3>1. i \in 1 .. n /\ i + 1 .. i + MaxRevisits \subseteq 1 .. n
      BY <1>1, <2>1, BrakeConstants
    <3>2. PICK j \in i + 1 .. i + MaxRevisits : \A k \in 1 .. j - 1 : trail[k] # trail[j]
      BY <2>1, <3>1 DEF CutInv, LoopIsCut, n
    <3>3. j \in 1 .. n /\ 1 .. j - 1 \subseteq 1 .. n
      BY <1>1, <3>1, <3>2
    <3> QED
      BY <1>2, <3>2, <3>3
  <2>2. CASE i + MaxRevisits = n + 1
    <3>1. n + 1 - r >= i + 1 /\ n + 1 - r <= i + MaxRevisits
      BY <1>1, <1>3, <2>2, BrakeConstants
    <3>2. n + 1 - r \in i + 1 .. i + MaxRevisits
      BY <1>1, <1>3, <3>1, BrakeConstants
    <3> DEFINE j == n + 1 - r
    <3>3. ASSUME NEW k \in 1 .. j - 1 PROVE trail'[k] # trail'[j]
      BY <1>1, <1>3, <1>4
    <3>4. j \in i + 1 .. i + MaxRevisits
      BY <3>2
    <3> HIDE DEF j
    <3> QED
      BY <3>3, <3>4
  <2>3. i + MaxRevisits <= n \/ i + MaxRevisits = n + 1
    BY <1>1, <1>6, BrakeConstants
  <2> QED
    BY <2>1, <2>2, <2>3
<1> QED
  BY <1>2, <1>5, <1>6 DEF LoopIsCut

LEMMA BrakedCut ==
  ASSUME CutInv, NEW f \in Frames, Braked(f)
  PROVE  Tracks' /\ LoopIsCut'
<1>1. PICK s \in Labels \cup {None} :
        /\ breaker' = Counted(breaker, s)
        /\ trail' = IF s = None THEN <<>>
                    ELSE IF breaker'.tripped THEN trail ELSE Append(trail, s)
  BY DEF Braked
<1>2. breaker' = Counted(breaker, s)
  BY <1>1
<1>3. CASE s = None
  <2>1. breaker' = Unknown /\ trail' = <<>>
    BY <1>1, <1>3 DEF Counted
  <2> QED
    BY <2>1, ForgottenOK
<1>4. CASE s # None /\ breaker'.tripped
  <2>1. s \in breaker.seen
    <3> SUFFICES ASSUME s \notin breaker.seen PROVE FALSE
      OBVIOUS
    <3>1. Counted(breaker, s) = [Unknown EXCEPT !.seen = breaker.seen \cup {s}, !.last = s]
      BY <1>4 DEF Counted
    <3> QED
      BY <1>2, <1>4, <3>1 DEF Unknown
  <2>2. trail' = trail
    BY <1>1, <1>4
  <2> QED
    BY <1>1, <1>2, <1>4, <2>1, <2>2, HeldOK
<1>5. CASE s # None /\ ~breaker'.tripped
  <2>1. trail' = Append(trail, s)
    BY <1>1, <1>5
  <2>2. Tracks'
    BY <1>1, <1>2, <1>5, <2>1, LetOutTracks DEF LetOut
  <2>3. BreakerOK'
    BY BrakedOK DEF CutInv, Parts
  <2> QED
    BY <1>1, <1>2, <1>5, <2>1, <2>2, <2>3, LetOutCut DEF LetOut
<1> QED
  BY <1>3, <1>4, <1>5

LEMMA CutUntouched == ASSUME CutInv, Untouched PROVE Tracks' /\ LoopIsCut'
  BY DEF CutInv, Tracks, Remembers, LoopIsCut, Untouched

LEMMA CutStep == ASSUME CutInv, [Next]_vars PROVE CutInv'
<1>1. Parts'
  BY NextOK DEF CutInv
<1>2. Tracks' /\ LoopIsCut'
  <2>1. CASE World
    <3>1. CASE Restart
      BY <3>1, ForgottenOK DEF Restart
    <3>2. CASE ~Restart
      BY <2>1, <3>2, CutUntouched
         DEF Untouched, World, Works, Comments, SessionOver, DelegateChanges, RunExpires, CleanUp
    <3> QED
      BY <3>1, <3>2
  <2>2. ASSUME NEW f \in Frames, Starts(f)
        PROVE  Tracks' /\ LoopIsCut'
    <3>1. CASE Event(f)
      <4>1. CASE breaker.tripped
        BY <3>1, <4>1, CutUntouched DEF Event, Untouched
      <4>2. CASE ~breaker.tripped
        BY <3>1, <4>2, ForgottenOK DEF Event, Counted
      <4> QED
        BY <4>1, <4>2
    <3>2. CASE ~Event(f)
      BY <2>2, <3>2, CutUntouched DEF Untouched, Starts, Detect, Overdue, StaleTimer
    <3> QED
      BY <3>1, <3>2
  <2>3. ASSUME NEW f \in Frames, Settles(f)
        PROVE  Tracks' /\ LoopIsCut'
    <3>1. CASE Braked(f)
      BY <3>1, BrakedCut
    <3>2. CASE ~Braked(f)
      <4>1. Untouched
        BY <2>3, <3>2
           DEF Settles, Untouched, Pruned, Replays, Sends, Delivered, Refused, SweptAway,
               LeftAlone, HandleFailure, Recheck, Claim, Unresolved, SkipsEntry, Redrive,
               BackoffOver, Classify, Recovered, Dropped, Repoked, RepokeFails,
               Stopped, Route, Direct
      <4> QED
        BY <4>1, CutUntouched
    <3> QED
      BY <3>1, <3>2
  <2>4. CASE UNCHANGED vars
    BY <2>4, CutUntouched DEF vars, Untouched
  <2> QED
    BY <2>1, <2>2, <2>3, <2>4 DEF Next
<1> QED
  BY <1>1, <1>2 DEF CutInv

(* Between two resets of the breaker no loop of re-pokes outlasts its caps, whatever
   states the ticket passes through and whatever the other callers do. *)
THEOREM LoopsAreCut == Spec => []LoopIsCut
<1>1. Init => CutInv
  <2> SUFFICES ASSUME Init PROVE CutInv
    OBVIOUS
  <2>1. breaker.seen = {} /\ Len(trail) = 0 /\ trail = <<>>
    BY UnknownType DEF Init
  <2>2. Tracks
    BY <2>1 DEF Tracks, Remembers
  <2>3. LoopIsCut
    BY <2>1 DEF LoopIsCut
  <2> QED
    BY <2>2, <2>3, InitOK DEF CutInv
<1>2. CutInv /\ [Next]_vars => CutInv'
  BY CutStep
<1>3. CutInv => LoopIsCut
  BY DEF CutInv
<1> QED
  BY <1>1, <1>2, <1>3, PTL DEF Spec
=============================================================================
