------------------------- MODULE TicketSweeps_proofs -------------------------
(***************************************************************************)
(* Proof that TicketSweeps keeps to its types, for any workflow, bodies and *)
(* bounds.  It needs more than the types: a sweep that is about to seat a   *)
(* body decided so while the role had one, whatever it has read since, and  *)
(* a label event that added a workflow label names it.  And proof that a    *)
(* ticket at rest stays settled, through the four kinds of rest there are.  *)
(***************************************************************************)
EXTENDS TicketSweeps, FiniteSetTheorems, TLAPS

EventFits(e) == e.added => e.wf # None

(* The parts of the invariant, one for each writer.                         *)
IssueOK ==
  /\ issue \in IssueSet /\ quota \in 0..Quota
  /\ mail \subseteq EventSet /\ \A e \in mail : EventFits(e)

RecordsOK ==
  /\ merged \in BOOLEAN /\ ledger \in States \cup {None}
  /\ mirror \in RowSet /\ ladder \in 0..Unreachable

HookSet == {Idle} \cup [pc: {"read", "demote"}, saw: EventSet] \cup [pc: {"apply"}, wf: Workflows]
HookOK == hook \in HookSet /\ (hook.pc = "read" => EventFits(hook.saw))

FillOK == fill \in {Idle, [pc |-> "read"]} \cup [pc: {"apply"}, wf: Workflows]

BootReading == [pc: {"read"}, pass: 1..4, left: SUBSET (1..4), st: States \cup {None}]
BootWriting == [pc: {"enrol", "close", "seal", "clear", "seat"},
                left: SUBSET (1..4), st: States \cup {None}, wf: Workflows \cup {None}]
(* The seat pass is ahead, or its write is.                                 *)
SeatAhead(b) ==
  \/ b.pc = "read" /\ b.pass = 4
  \/ b.pc = "seat"
  \/ b.pc # "idle" /\ 4 \in b.left
BootOK == boot \in {Idle} \cup BootReading \cup BootWriting /\ (SeatAhead(boot) => Owned(boot.st))

RescueJudging == [pc: {"judge", "guard", "enlist"}, wf: Workflows,
                  st: States \cup {None}, who: Bodies \cup {None}]
RescueMoving  == [pc: {"move", "moved"}, wf: Workflows, to: States]
RescueOK ==
  /\ rescue \in {Idle} \cup RescueJudging \cup RescueMoving \cup [pc: {"seat"}, body: Bodies]
  /\ rescue.pc = "guard" /\ rescue.st # None => Fills[rescue.st] # {}
  /\ rescue.pc \in {"move", "moved"} => LedgerFills[rescue.to] # {}

WatchOK  == watch \in {Idle} \cup [pc: {"check"}, row: RowSet]
NativeOK == native \in {Idle} \cup [pc: {"write"}, who: Bodies \cup {None}]

SweepInv == IssueOK /\ RecordsOK /\ HookOK /\ FillOK /\ BootOK /\ RescueOK /\ WatchOK /\ NativeOK

----------------------------------------------------------------------------
(* What a write leaves, and what a role's body is                           *)

LEMMA PutOK ==
  ASSUME IssueOK, NEW i \in IssueSet, Put(i), quota' \in 0..Quota
  PROVE  IssueOK'
<1>1. EventOf(i) \in EventSet /\ EventFits(EventOf(i))
  BY DEF IssueOK, EventOf, EventSet, IssueSet, EventFits
<1>2. issue' \in IssueSet
  BY DEF Put, IssueSet
<1>3. mail' \subseteq EventSet /\ \A e \in mail' : EventFits(e)
  BY <1>1 DEF IssueOK, Put
<1> QED
  BY <1>2, <1>3 DEF IssueOK

LEMMA SpendOK == IssueOK /\ Spend => quota' \in 0..Quota /\ quota \in 0..Quota
  BY SweepAssumption DEF IssueOK, Spend

LEMMA KeepOK == IssueOK /\ Keep /\ (UNCHANGED quota \/ Spend) => IssueOK'
  BY SpendOK DEF IssueOK, Keep

LEMMA MutateOK ==
  ASSUME IssueOK, NEW i \in IssueSet, Mutate(i)
  PROVE  IssueOK'
<1>1. CASE Put(i) /\ UNCHANGED quota
  BY <1>1, PutOK DEF IssueOK
<1>2. CASE Spend /\ Keep
  BY <1>2, KeepOK
<1> QED
  BY <1>1, <1>2 DEF Mutate

LEMMA FillerIsBody ==
  /\ \A S \in SUBSET Bodies : S # {} => TheOne(S) \in Bodies
  /\ \A S : Alone(S) => S # {}
  BY FS_EmptySet DEF TheOne, Alone

LEMMA FillsType ==
  /\ \A s \in States : Fills[s] \in SUBSET Bodies /\ LedgerFills[s] \in SUBSET Bodies
  /\ \A s \in States : Pin[s] \in Bodies \cup {None} /\ OwnersOf(s) \subseteq Bodies \cup {None}
  /\ \A s : Owned(s) => s \in States /\ SeatFor(s) \in Bodies
<1>1. \A s \in States : /\ Fills[s] \in SUBSET Bodies /\ LedgerFills[s] \in SUBSET Bodies
                        /\ Pin[s] \in Bodies \cup {None}
  BY SweepAssumption
<1>2. ASSUME NEW s \in States PROVE OwnersOf(s) \subseteq Bodies \cup {None}
  BY <1>1 DEF OwnersOf
<1>3. ASSUME NEW s, Owned(s) PROVE s \in States /\ SeatFor(s) \in Bodies
  <2>1. s \in States /\ (Fills[s] # {} \/ Pin[s] # None)
    BY <1>3 DEF Owned
  <2> QED
    BY <1>1, <2>1, FillerIsBody DEF SeatFor
<1> QED
  BY <1>1, <1>2, <1>3

LEMMA BootstrappedType ==
  ASSUME IssueOK, NEW w \in Workflows \cup {None}
  PROVE  Bootstrapped(w) \in IssueSet
<1>1. Entry \in States /\ Fills[Entry] \in SUBSET Bodies
  BY SweepAssumption, FillsType
<1>2. PICK b \in Bodies \cup {None} :
        b = IF Alone(Fills[Entry]) THEN TheOne(Fills[Entry]) ELSE issue.who
  BY <1>1, FillerIsBody DEF IssueOK, IssueSet
<1>3. issue \in IssueSet
  BY DEF IssueOK
<1>4. [issue EXCEPT !.wf = w, !.st = Entry, !.who = b] \in IssueSet
      /\ [issue EXCEPT !.wf = None, !.st = None, !.who = None] \in IssueSet
  BY <1>1, <1>3 DEF IssueSet
<1> QED
  BY <1>2, <1>4 DEF Bootstrapped

LEMMA RecordRowType ==
  ASSUME NEW s \in States \cup {None}, NEW owned \in BOOLEAN, mirror \in RowSet
  PROVE  /\ RecordTransition(s, owned) \in RowSet /\ Enroll(s, owned) \in RowSet
         /\ Retired \in RowSet /\ NoRow \in RowSet
  BY DEF RecordTransition, Enroll, Retired, NoRow, RowSet

----------------------------------------------------------------------------
(* People, agents and faults                                                *)

(* A step that leaves the sweeps alone.                                     *)
LEMMA ProcsKept ==
  ASSUME SweepInv, UNCHANGED procs, IssueOK', RecordsOK'
  PROVE  SweepInv'
  BY DEF SweepInv, procs, HookOK, FillOK, BootOK, RescueOK, WatchOK, NativeOK

LEMMA RecordsKept == RecordsOK /\ UNCHANGED <<merged, ledger, mirror, ladder>> => RecordsOK'
  BY DEF RecordsOK

LEMMA PersonOK ==
  ASSUME SweepInv,
         \/ \E w \in Workflows : AddWorkflow(w)
         \/ DropWorkflow
         \/ \E b \in Bodies \cup {None} : Reseat(b)
         \/ \E n \in Natives : SetNative(n)
  PROVE  SweepInv'
<1>1. PICK i \in IssueSet : Put(i)
  <2>1. issue \in IssueSet
    BY DEF SweepInv, IssueOK
  <2>2. CASE (\E w \in Workflows : AddWorkflow(w)) \/ DropWorkflow
    BY <2>1, <2>2 DEF IssueSet, AddWorkflow, DropWorkflow
  <2>3. CASE \E b \in Bodies \cup {None} : Reseat(b)
    BY <2>1, <2>3 DEF IssueSet, Reseat
  <2>4. CASE \E n \in Natives : SetNative(n)
    BY <2>1, <2>4 DEF IssueSet, SetNative
  <2> QED
    BY <2>2, <2>3, <2>4
<1>2. Spend /\ UNCHANGED <<merged, ledger, mirror, ladder, procs>>
  BY DEF AddWorkflow, DropWorkflow, Reseat, SetNative
<1> QED
  BY <1>1, <1>2, PutOK, SpendOK, RecordsKept, ProcsKept DEF SweepInv

LEMMA AdvanceOK == ASSUME SweepInv, NEW s \in States, Advance(s) PROVE SweepInv'
<1>1. PICK b \in OwnersOf(s) :
        /\ Put([issue EXCEPT !.st = s, !.who = b, !.nat = IF s = Done THEN "completed" ELSE "todo"])
        /\ mirror' = IF s = Done THEN Retired ELSE RecordTransition(s, b # None)
  BY DEF Advance
<1>2. Spend /\ ledger' = s /\ UNCHANGED <<merged, ladder, procs>>
  BY DEF Advance
<1>3. b \in Bodies \cup {None} /\ issue \in IssueSet
  BY FillsType DEF SweepInv, IssueOK
<1>4. (IF s = Done THEN "completed" ELSE "todo") \in Natives
  BY DEF Natives, Finished
<1>5. [issue EXCEPT !.st = s, !.who = b, !.nat = IF s = Done THEN "completed" ELSE "todo"]
        \in IssueSet
  BY <1>3, <1>4 DEF IssueSet
<1>6. IssueOK'
  BY <1>1, <1>2, <1>5, PutOK, SpendOK DEF SweepInv
<1>7. mirror' \in RowSet
  BY <1>1, RecordRowType DEF SweepInv, RecordsOK
<1> QED
  BY <1>2, <1>6, <1>7, ProcsKept DEF SweepInv, RecordsOK

LEMMA FaultOK ==
  ASSUME SweepInv, Merge \/ Age \/ \E e \in mail : Lose(e)
  PROVE  SweepInv'
<1>1. CASE Merge
  BY <1>1, SpendOK, ProcsKept DEF Merge, SweepInv, IssueOK, RecordsOK
<1>2. CASE Age
  BY <1>2, ProcsKept DEF IssueSet, Age, SweepInv, IssueOK, RecordsOK
<1>3. CASE \E e \in mail : Lose(e)
  BY <1>3, SpendOK, ProcsKept DEF Lose, ticket, SweepInv, IssueOK, RecordsOK
<1> QED
  BY <1>1, <1>2, <1>3

LEMMA IdleOK ==
  /\ Idle.pc = "idle" /\ Idle \in HookSet /\ ~ SeatAhead(Idle)
  BY DEF Idle, HookSet, SeatAhead

LEMMA CrashOK == SweepInv /\ Crash => SweepInv'
<1> SUFFICES ASSUME SweepInv, Crash PROVE SweepInv'
  OBVIOUS
<1>1. IssueOK' /\ RecordsOK'
  BY SpendOK, SweepAssumption DEF Crash, ticket, SweepInv, IssueOK, RecordsOK, Unreachable
<1>2. HookOK' /\ FillOK' /\ BootOK' /\ RescueOK' /\ WatchOK' /\ NativeOK'
  BY IdleOK DEF Crash, HookOK, FillOK, BootOK, RescueOK, WatchOK, NativeOK, SeatAhead
<1> QED
  BY <1>1, <1>2 DEF SweepInv

----------------------------------------------------------------------------
(* The webhook                                                              *)

LEMMA HookStepOK ==
  ASSUME SweepInv, Hook
  PROVE  SweepInv'
<1>1. CASE \E e \in mail : Receive(e)
  <2>1. PICK e \in mail : hook' = [pc |-> "read", saw |-> e] /\ mail' = mail \ {e}
    BY <1>1 DEF Receive
  <2>2. HookOK'
    BY <2>1 DEF SweepInv, IssueOK, HookOK, HookSet
  <2>3. UNCHANGED <<ticket, mirror, ladder, boot, rescue, watch, native, quota>>
        /\ fill' \in {[pc |-> "read"], fill}
    BY <1>1 DEF Receive
  <2> QED
    BY <2>1, <2>2, <2>3 DEF SweepInv, IssueOK, RecordsOK, ticket, FillOK, BootOK, RescueOK, WatchOK,
       NativeOK
<1>2. CASE HookRead
  <2> DEFINE e == hook.saw
  <2>1. e \in EventSet /\ EventFits(e) /\ hook.pc = "read" /\ issue \in IssueSet
    BY <1>2 DEF HookRead, SweepInv, HookOK, HookSet, Idle, IssueOK
  <2>2. IssueOK'
    BY <1>2, KeepOK DEF HookRead, SweepInv
  <2>3. \/ hook' = Idle
        \/ e.added /\ e.wf = issue.wf /\ hook' = Holding("apply", issue.wf)
        \/ hook' = [pc |-> "demote", saw |-> [e EXCEPT !.st = IF e.st = issue.st THEN None ELSE e.st]]
    BY <1>2 DEF HookRead
  <2>4. HookOK'
    <3>1. CASE hook' = Idle
      BY <3>1, IdleOK DEF HookOK
    <3>2. CASE e.added /\ e.wf = issue.wf /\ hook' = Holding("apply", issue.wf)
      <4>1. issue.wf \in Workflows
        BY <2>1, <3>2 DEF EventFits, IssueSet
      <4> QED
        BY <3>2, <4>1 DEF HookOK, HookSet, Holding
    <3>3. CASE hook' = [pc |-> "demote",
                        saw |-> [e EXCEPT !.st = IF e.st = issue.st THEN None ELSE e.st]]
      <4>1. [e EXCEPT !.st = IF e.st = issue.st THEN None ELSE e.st] \in EventSet
        BY <2>1 DEF EventSet
      <4> QED
        BY <3>3, <4>1 DEF HookOK, HookSet
    <3> QED
      BY <2>3, <3>1, <3>2, <3>3
  <2>5. UNCHANGED <<merged, ledger, mirror, ladder, fill, boot, rescue, watch, native>>
    BY <1>2 DEF HookRead
  <2> QED
    BY <2>2, <2>4, <2>5 DEF SweepInv, RecordsOK, FillOK, BootOK, RescueOK, WatchOK, NativeOK
<1>3. CASE HookApply
  <2>1. hook.wf \in Workflows /\ Bootstrapped(hook.wf) \in IssueSet
    <3>1. hook.wf \in Workflows
      BY <1>3 DEF HookApply, SweepInv, HookOK, HookSet, Idle
    <3> QED
      BY <3>1, BootstrappedType DEF SweepInv
  <2>2. IssueOK'
    <3>1. CASE Put(Bootstrapped(hook.wf)) /\ UNCHANGED quota
      BY <2>1, <3>1, PutOK DEF SweepInv, IssueOK
    <3>2. CASE Spend /\ Keep
      BY <3>2, KeepOK DEF SweepInv
    <3> QED
      BY <1>3, <3>1, <3>2 DEF HookApply
  <2>3. mirror' \in RowSet
    <3>1. Enroll(Entry, Alone(Fills[Entry])) \in RowSet
      BY SweepAssumption, RecordRowType DEF SweepInv, RecordsOK, Alone
    <3> QED
      BY <1>3, <3>1 DEF HookApply, SweepInv, RecordsOK
  <2>4. UNCHANGED <<merged, ledger, ladder, fill, boot, rescue, watch, native>> /\ hook' = Idle
    BY <1>3 DEF HookApply
  <2> QED
    BY <2>2, <2>3, <2>4, IdleOK DEF SweepInv, RecordsOK, HookOK, FillOK, BootOK, RescueOK, WatchOK,
       NativeOK
<1>4. CASE HookDemote
  <2>1. [issue EXCEPT !.wf = hook.saw.wf, !.st = hook.saw.st] \in IssueSet
    <3>1. hook.saw \in EventSet /\ issue \in IssueSet
      BY <1>4 DEF HookDemote, SweepInv, HookOK, HookSet, Idle, IssueOK
    <3> QED
      BY <3>1 DEF IssueSet, EventSet
  <2>2. IssueOK'
    BY <1>4, <2>1, MutateOK DEF HookDemote, SweepInv
  <2>3. UNCHANGED <<merged, ledger, mirror, ladder, fill, boot, rescue, watch, native>> /\ hook' = Idle
    BY <1>4 DEF HookDemote
  <2> QED
    BY <2>2, <2>3, IdleOK DEF SweepInv, RecordsOK, HookOK, FillOK, BootOK, RescueOK, WatchOK, NativeOK
<1> QED
  BY <1>1, <1>2, <1>3, <1>4 DEF Hook

LEMMA FillStepOK == ASSUME SweepInv, Fill PROVE SweepInv'
<1>1. CASE FillRead
  <2>1. IssueOK'
    BY <1>1, KeepOK DEF FillRead, SweepInv
  <2>2. FillOK'
    BY <1>1 DEF FillRead, FillOK, Holding, Workflows
  <2>3. UNCHANGED <<merged, ledger, mirror, ladder, hook, boot, rescue, watch, native>>
    BY <1>1 DEF FillRead
  <2> QED
    BY <2>1, <2>2, <2>3 DEF SweepInv, RecordsOK, HookOK, BootOK, RescueOK, WatchOK, NativeOK
<1>2. CASE FillApply
  <2>1. [issue EXCEPT !.wf = fill.wf, !.st = Entry] \in IssueSet
    <3>1. fill.wf \in Workflows
      BY <1>2 DEF FillApply, SweepInv, FillOK, Idle
    <3> QED
      BY <3>1, SweepAssumption DEF IssueSet, SweepInv, IssueOK
  <2>2. IssueOK'
    BY <1>2, <2>1, MutateOK DEF FillApply, SweepInv
  <2>3. UNCHANGED <<merged, ledger, mirror, ladder, hook, boot, rescue, watch, native>> /\ fill' = Idle
    BY <1>2 DEF FillApply
  <2> QED
    BY <2>2, <2>3 DEF SweepInv, RecordsOK, HookOK, FillOK, BootOK, RescueOK, WatchOK, NativeOK
<1> QED
  BY <1>1, <1>2 DEF Fill

----------------------------------------------------------------------------
(* The bootstrap reconciliation sweep                                       *)

LEMMA ThroughOK ==
  ASSUME NEW left \in SUBSET (1..4), NEW s \in States \cup {None}, 4 \in left => Owned(s)
  PROVE  /\ Through(left, s) \in {Idle} \cup BootReading
         /\ SeatAhead(Through(left, s)) => Owned(Through(left, s).st)
<1>1. CASE left = {}
  BY <1>1, IdleOK DEF Through
<1>2. CASE left # {}
  <2> DEFINE p == CHOOSE k \in left : \A l \in left : k <= l
             b == [pc |-> "read", pass |-> p, left |-> left \ {p}, st |-> s]
  <2>1. \E k \in left : \A l \in left : k <= l
    <3>1. left \subseteq {1, 2, 3, 4}
      OBVIOUS
    <3>2. 1 \in left \/ 2 \in left \/ 3 \in left \/ 4 \in left
      BY <1>2, <3>1
    <3>3. \A k \in 1..4 : k \in left /\ (\A j \in 1..4 : j < k => j \notin left)
                           => \A l \in left : k <= l
      OBVIOUS
    <3>4. CASE 1 \in left
      BY <3>3, <3>4
    <3>5. CASE 1 \notin left /\ 2 \in left
      BY <3>3, <3>5
    <3>6. CASE 1 \notin left /\ 2 \notin left /\ 3 \in left
      BY <3>3, <3>6
    <3>7. CASE 1 \notin left /\ 2 \notin left /\ 3 \notin left /\ 4 \in left
      BY <3>3, <3>7
    <3> QED
      BY <3>2, <3>4, <3>5, <3>6, <3>7
  <2>2. p \in left
    BY <2>1
  <2>3. Through(left, s) = b
    BY <1>2 DEF Through
  <2>4. b \in BootReading
    BY <2>2 DEF BootReading
  <2>5. SeatAhead(b) => 4 \in left
    BY <2>2 DEF SeatAhead
  <2> QED
    BY <2>3, <2>4, <2>5
<1> QED
  BY <1>1, <1>2

LEMMA OnwardOK ==
  ASSUME SweepInv, boot.pc # "idle", boot' = Onward
  PROVE  BootOK'
<1>1. boot.left \in SUBSET (1..4) /\ boot.st \in States \cup {None} /\ (4 \in boot.left => Owned(boot.st))
  BY IdleOK DEF SweepInv, BootOK, BootReading, BootWriting, SeatAhead
<1>2. /\ Onward \in {Idle} \cup BootReading
      /\ SeatAhead(Onward) => Owned(Onward.st)
  BY <1>1, ThroughOK DEF Onward
<1> QED
  BY <1>2 DEF BootOK

LEMMA ToWriteOK ==
  ASSUME SweepInv, boot.pc = "read",
         NEW p \in {"enrol", "close", "seal", "clear", "seat"}, p = "seat" => boot.pass = 4,
         boot' = ToWrite(p)
  PROVE  BootOK'
<1>1. /\ boot.left \in SUBSET (1..4) /\ boot.st \in States \cup {None}
      /\ boot.pass = 4 \/ 4 \in boot.left => Owned(boot.st)
  BY IdleOK DEF SweepInv, BootOK, BootReading, BootWriting, SeatAhead
<1>2. issue.wf \in Workflows \cup {None}
  BY DEF SweepInv, IssueOK, IssueSet
<1>3. ToWrite(p) \in BootWriting
  BY <1>1, <1>2 DEF ToWrite, BootWriting
<1>4. SeatAhead(ToWrite(p)) => Owned(boot.st)
  BY <1>1 DEF SeatAhead, ToWrite
<1> QED
  BY <1>3, <1>4 DEF BootOK, ToWrite

(* A step of this sweep that leaves the ticket alone.                       *)
LEMMA BootOnly ==
  ASSUME SweepInv, BootOK', IssueOK',
         UNCHANGED <<merged, ledger, mirror, ladder, hook, fill, rescue, watch, native>>
  PROVE  SweepInv'
  BY DEF SweepInv, RecordsOK, HookOK, FillOK, RescueOK, WatchOK, NativeOK

LEMMA BootStepOK == ASSUME SweepInv, Boot PROVE SweepInv'
<1>1. CASE BootList
  <2>1. Passes(issue) \in SUBSET (1..4) /\ (4 \in Passes(issue) => Owned(issue.st))
    BY DEF Passes
  <2>2. issue.st \in States \cup {None}
    BY DEF SweepInv, IssueOK, IssueSet
  <2>3. BootOK'
    <3>1. /\ Through(Passes(issue), issue.st) \in {Idle} \cup BootReading
          /\ SeatAhead(Through(Passes(issue), issue.st)) => Owned(Through(Passes(issue), issue.st).st)
      BY <2>1, <2>2, ThroughOK
    <3>2. boot' = Through(Passes(issue), issue.st)
      BY <1>1 DEF BootList
    <3> QED
      BY <3>1, <3>2 DEF BootOK
  <2>4. IssueOK' /\ UNCHANGED <<merged, ledger, mirror, ladder, hook, fill, rescue, watch, native>>
    BY <1>1 DEF BootList, ticket, SweepInv, IssueOK
  <2> QED
    BY <2>3, <2>4, BootOnly
<1>2. CASE BootReadFails \/ BootEnrolRead \/ BootCloseRead \/ BootSealRead \/ BootSeatRead
  <2>1. boot.pc = "read" /\ UNCHANGED <<ticket, mirror, ladder, mail, hook, fill, rescue, watch, native>>
        /\ (UNCHANGED quota \/ Spend)
    BY <1>2 DEF BootRead, BootReadFails, BootEnrolRead, BootCloseRead, BootSealRead, BootSeatRead
  <2>2. \/ boot' = Onward
        \/ \E p \in {"enrol", "close", "seal", "clear", "seat"} :
             (p = "seat" => boot.pass = 4) /\ boot' = ToWrite(p)
    <3>1. CASE BootReadFails
      BY <3>1 DEF BootReadFails
    <3>2. CASE BootEnrolRead
      BY <3>2 DEF BootEnrolRead
    <3>3. CASE BootCloseRead
      BY <3>3 DEF BootCloseRead
    <3>4. CASE BootSealRead
      BY <3>4 DEF BootSealRead
    <3>5. CASE BootSeatRead
      BY <3>5 DEF BootSeatRead, BootRead
    <3> QED
      BY <1>2, <3>1, <3>2, <3>3, <3>4, <3>5
  <2>3. BootOK'
    <3>1. boot.pc # "idle"
      BY <2>1
    <3> QED
      BY <2>1, <2>2, <3>1, OnwardOK, ToWriteOK
  <2>4. IssueOK'
    BY <2>1, SpendOK DEF ticket, SweepInv, IssueOK
  <2> QED
    BY <2>1, <2>3, <2>4, BootOnly DEF ticket
<1>3. CASE BootWrite
  <2>1. issue \in IssueSet /\ boot.pc # "idle"
    BY <1>3 DEF SweepInv, IssueOK, BootWrite
  <2>2. CASE boot.pc = "enrol" /\ Mutate(Bootstrapped(boot.wf))
    <3>1. boot.wf \in Workflows \cup {None}
      BY <2>2, IdleOK DEF SweepInv, BootOK, BootReading, BootWriting
    <3>2. Bootstrapped(boot.wf) \in IssueSet
      BY <3>1, BootstrappedType DEF SweepInv
    <3> QED
      BY <1>3, <2>1, <2>2, <3>2, MutateOK, OnwardOK, BootOnly DEF BootWrite, SweepInv
  <2>3. CASE boot.pc = "close" /\ Mutate([issue EXCEPT !.wf = None, !.st = None, !.who = None])
    <3>1. [issue EXCEPT !.wf = None, !.st = None, !.who = None] \in IssueSet
      BY <2>1 DEF IssueSet
    <3> QED
      BY <1>3, <2>1, <2>3, <3>1, MutateOK, OnwardOK, BootOnly DEF BootWrite, SweepInv
  <2>4. CASE boot.pc = "seal" /\ Mutate([issue EXCEPT !.nat = "completed", !.who = None])
    <3>1. [issue EXCEPT !.nat = "completed", !.who = None] \in IssueSet
      BY <2>1 DEF IssueSet, Natives, Finished
    <3> QED
      BY <1>3, <2>1, <2>4, <3>1, MutateOK, OnwardOK, BootOnly DEF BootWrite, SweepInv
  <2>5. CASE boot.pc = "clear" /\ Mutate([issue EXCEPT !.who = None])
    <3>1. [issue EXCEPT !.who = None] \in IssueSet
      BY <2>1 DEF IssueSet
    <3> QED
      BY <1>3, <2>1, <2>5, <3>1, MutateOK, OnwardOK, BootOnly DEF BootWrite, SweepInv
  <2>6. CASE boot.pc = "seat" /\ Mutate([issue EXCEPT !.who = SeatFor(boot.st)])
    <3>1. SeatFor(boot.st) \in Bodies
      BY <2>6, FillsType DEF SweepInv, BootOK, SeatAhead
    <3>2. [issue EXCEPT !.who = SeatFor(boot.st)] \in IssueSet
      BY <2>1, <3>1 DEF IssueSet
    <3> QED
      BY <1>3, <2>1, <2>6, <3>2, MutateOK, OnwardOK, BootOnly DEF BootWrite, SweepInv
  <2> QED
    BY <1>3, <2>2, <2>3, <2>4, <2>5, <2>6 DEF BootWrite
<1> QED
  BY <1>1, <1>2, <1>3 DEF Boot

----------------------------------------------------------------------------
(* The rescue sweep                                                         *)

LEMMA RescueOnly ==
  ASSUME SweepInv, RescueOK', IssueOK',
         UNCHANGED <<merged, ledger, mirror, ladder, hook, fill, boot, watch, native>>
  PROVE  SweepInv'
  BY DEF SweepInv, RecordsOK, HookOK, FillOK, BootOK, WatchOK, NativeOK

LEMMA SeatOnOK ==
  ASSUME NEW S \in SUBSET Bodies, S # {}, rescue' = SeatOn(S)
  PROVE  RescueOK'
<1>1. SeatOn(S) \in [pc: {"seat"}, body: Bodies] /\ SeatOn(S).pc = "seat"
  BY FillerIsBody DEF SeatOn
<1> QED
  BY <1>1 DEF RescueOK

LEMMA RescueIdleOK == rescue' = Idle => RescueOK'
  BY IdleOK DEF RescueOK

(* Whoever is found fit for the guard has a state with somebody to seat.    *)
LEMMA ClassifiedOK ==
  ASSUME NEW i, Classified(i) = "guard", i.st # None
  PROVE  Fills[i.st] # {}
  BY FillerIsBody DEF Classified, Malformed, Dormant, Drifted

LEMMA JudgingOK ==
  ASSUME NEW p \in {"judge", "guard", "enlist"}, NEW w \in Workflows,
         NEW s \in States \cup {None}, NEW b \in Bodies \cup {None},
         p = "guard" /\ s # None => Fills[s] # {},
         rescue' = [pc |-> p, wf |-> w, st |-> s, who |-> b]
  PROVE  RescueOK'
  BY DEF RescueOK, RescueJudging

LEMMA RescueStepOK == ASSUME SweepInv, Rescue PROVE SweepInv'
<1>0. issue \in IssueSet
  BY DEF SweepInv, IssueOK
<1>1. CASE RescueList
  <2>1. PICK p \in {"judge", "guard"} :
          /\ p = "guard" => Classified(issue) = "guard"
          /\ rescue' = [pc |-> p, wf |-> issue.wf, st |-> issue.st, who |-> issue.who]
    BY <1>1 DEF RescueList, Seen, Classified
  <2>2. issue.wf \in Workflows /\ issue.st \in States \cup {None} /\ issue.who \in Bodies \cup {None}
    BY <1>0, <1>1 DEF IssueSet, RescueList, Workflows
  <2>3. p = "guard" /\ issue.st # None => Fills[issue.st] # {}
    BY <2>1, ClassifiedOK
  <2>4. RescueOK'
    BY <2>1, <2>2, <2>3, JudgingOK
  <2> QED
    BY <1>1, <2>4, RescueOnly DEF RescueList, ticket, SweepInv, IssueOK
<1>2. CASE RescueJudge
  <2>1. /\ rescue.wf \in Workflows /\ rescue.st \in States \cup {None}
        /\ rescue.who \in Bodies \cup {None}
        /\ rescue = [pc |-> rescue.pc, wf |-> rescue.wf, st |-> rescue.st, who |-> rescue.who]
    BY <1>2, IdleOK DEF RescueJudge, SweepInv, RescueOK, RescueJudging, RescueMoving
  <2>2. RescueOK'
    <3>1. CASE rescue' = Idle
      BY <3>1, RescueIdleOK
    <3>2. CASE Classified(rescue) # "idle" /\ rescue' = [rescue EXCEPT !.pc = "guard"]
      <4>1. Classified(rescue) = "guard"
        BY <3>2 DEF Classified
      <4>2. rescue' = [pc |-> "guard", wf |-> rescue.wf, st |-> rescue.st, who |-> rescue.who]
        BY <2>1, <3>2
      <4> QED
        BY <2>1, <4>1, <4>2, ClassifiedOK, JudgingOK
    <3>3. CASE /\ ledger # None /\ Alone(LedgerFills[ledger])
               /\ rescue' = [pc |-> "move", wf |-> rescue.wf, to |-> ledger]
      <4>1. ledger \in States /\ LedgerFills[ledger] # {}
        BY <3>3, FillerIsBody DEF SweepInv, RecordsOK
      <4> QED
        BY <2>1, <3>3, <4>1 DEF RescueOK, RescueMoving
    <3> QED
      BY <1>2, <3>1, <3>2, <3>3 DEF RescueJudge
  <2> QED
    BY <1>2, <2>2, RescueOnly DEF RescueJudge, ticket, SweepInv, IssueOK
<1>3. CASE RescueMove
  <2>1. rescue.wf \in Workflows /\ rescue.to \in States /\ LedgerFills[rescue.to] # {}
        /\ rescue \in RescueMoving
    BY <1>3, IdleOK DEF RescueMove, SweepInv, RescueOK, RescueJudging, RescueMoving
  <2>2. CASE /\ Put([issue EXCEPT !.wf = rescue.wf, !.st = rescue.to])
             /\ rescue' = [rescue EXCEPT !.pc = "moved"] /\ UNCHANGED quota
    <3>1. [issue EXCEPT !.wf = rescue.wf, !.st = rescue.to] \in IssueSet
      BY <1>0, <2>1 DEF IssueSet
    <3>2. IssueOK'
      BY <2>2, <3>1, PutOK DEF SweepInv, IssueOK
    <3>3. RescueOK'
      BY <2>1, <2>2 DEF RescueOK, RescueMoving
    <3> QED
      BY <1>3, <3>2, <3>3, RescueOnly DEF RescueMove
  <2>3. CASE Spend /\ Keep /\ rescue' = Idle
    BY <1>3, <2>3, KeepOK, RescueIdleOK, RescueOnly DEF RescueMove, SweepInv
  <2> QED
    BY <1>3, <2>2, <2>3 DEF RescueMove
<1>4. CASE RescueMoved
  <2>1. rescue.to \in States /\ LedgerFills[rescue.to] # {} /\ LedgerFills[rescue.to] \in SUBSET Bodies
    <3>1. rescue.to \in States /\ LedgerFills[rescue.to] # {}
      BY <1>4, IdleOK DEF RescueMoved, SweepInv, RescueOK, RescueJudging, RescueMoving
    <3> QED
      BY <3>1, FillsType
  <2>2. rescue' = Idle \/ rescue' = SeatOn(LedgerFills[rescue.to])
    BY <1>4 DEF RescueMoved
  <2>3. RescueOK'
    BY <2>1, <2>2, SeatOnOK, RescueIdleOK
  <2> QED
    BY <1>4, <2>3, KeepOK, RescueOnly DEF RescueMoved, SweepInv
<1>5. CASE RescueGuard
  <2>1. rescue \in RescueJudging /\ (rescue.st # None => Fills[rescue.st] # {})
    BY <1>5, IdleOK DEF RescueGuard, SweepInv, RescueOK, RescueMoving
  <2>2. \/ rescue' = Idle
        \/ rescue' = [rescue EXCEPT !.pc = "enlist"]
        \/ rescue.st # None /\ rescue' = SeatOn(Fills[rescue.st])
    BY <1>5 DEF RescueGuard, Malformed
  <2>3. RescueOK'
    <3>1. CASE rescue' = [rescue EXCEPT !.pc = "enlist"]
      BY <2>1, <3>1 DEF RescueOK, RescueJudging
    <3>2. CASE rescue.st # None /\ rescue' = SeatOn(Fills[rescue.st])
      <4>1. Fills[rescue.st] \in SUBSET Bodies /\ Fills[rescue.st] # {}
        BY <2>1, <3>2, FillsType DEF RescueJudging
      <4> QED
        BY <3>2, <4>1, SeatOnOK
    <3> QED
      BY <2>2, <3>1, <3>2, RescueIdleOK
  <2> QED
    BY <1>5, <2>3, KeepOK, RescueOnly DEF RescueGuard, SweepInv
<1>6. CASE RescueEnlist
  <2>1. [issue EXCEPT !.wf = rescue.wf, !.st = Entry] \in IssueSet
    <3>1. rescue.wf \in Workflows
      BY <1>6, IdleOK DEF RescueEnlist, SweepInv, RescueOK, RescueJudging, RescueMoving
    <3> QED
      BY <1>0, <3>1, SweepAssumption DEF IssueSet
  <2>2. IssueOK'
    BY <1>6, <2>1, MutateOK DEF RescueEnlist, SweepInv
  <2>3. RescueOK'
    <3>1. Fills[Entry] \in SUBSET Bodies
      BY SweepAssumption, FillsType
    <3>2. CASE Alone(Fills[Entry])
      BY <1>6, <3>1, <3>2, FillerIsBody, SeatOnOK DEF RescueEnlist
    <3>3. CASE ~ Alone(Fills[Entry])
      BY <1>6, <3>3, RescueIdleOK DEF RescueEnlist
    <3> QED
      BY <3>2, <3>3
  <2> QED
    BY <1>6, <2>2, <2>3, RescueOnly DEF RescueEnlist
<1>7. CASE RescueSeat
  <2>1. rescue.body \in Bodies
    BY <1>7, IdleOK DEF RescueSeat, SweepInv, RescueOK, RescueJudging, RescueMoving
  <2>2. [issue EXCEPT !.who = rescue.body] \in IssueSet
    BY <1>0, <2>1 DEF IssueSet
  <2>3. IssueOK'
    BY <1>7, <2>2, MutateOK DEF RescueSeat, SweepInv
  <2> QED
    BY <1>7, <2>3, RescueIdleOK, RescueOnly DEF RescueSeat
<1> QED
  BY <1>1, <1>2, <1>3, <1>4, <1>5, <1>6, <1>7 DEF Rescue

----------------------------------------------------------------------------
(* The watchdog and the native-state reconciler                             *)

LEMMA RungsOK ==
  ASSUME SweepInv, watch.pc = "check"
  PROVE  /\ Rungs \in 0..Unreachable /\ 0 \in 0..Unreachable /\ Unreachable \in 0..Unreachable
         /\ Rungs < MaxRungs => Rungs + 1 \in 0..Unreachable
         /\ watch.row \in RowSet
<1>1. MaxRungs \in Nat /\ ladder \in 0..Unreachable
  BY SweepAssumption DEF SweepInv, RecordsOK
<1>2. watch.row \in RowSet
  BY IdleOK DEF SweepInv, WatchOK
<1>3. Unreachable = MaxRungs + 1 /\ Rungs \in {0, ladder}
  BY DEF Rungs, Unreachable
<1>4. Rungs \in 0..Unreachable
  BY <1>1, <1>3
<1> QED
  BY <1>1, <1>2, <1>3, <1>4

LEMMA WatchStepOK == ASSUME SweepInv, Watch PROVE SweepInv'
<1>1. watch' \in {Idle} \cup [pc: {"check"}, row: RowSet]
  <2>1. CASE WatchList
    BY <2>1 DEF WatchList, SweepInv, RecordsOK
  <2>2. CASE WatchInTime \/ WatchHeal \/ WatchRung
    BY <2>2 DEF WatchInTime, WatchHeal, WatchRung
  <2> QED
    BY <2>1, <2>2 DEF Watch
<1>2. IssueOK'
  <2>1. UNCHANGED <<issue, mail>> /\ (UNCHANGED quota \/ Spend)
    BY DEF Watch, WatchList, WatchInTime, WatchHeal, WatchRung, ticket
  <2> QED
    BY <2>1, SpendOK DEF SweepInv, IssueOK
<1>3. ladder' \in 0..Unreachable
  <2>1. CASE WatchList
    BY <2>1 DEF WatchList, SweepInv, RecordsOK
  <2>2. CASE WatchInTime
    BY <2>2, RungsOK DEF WatchInTime
  <2>3. CASE WatchHeal
    BY <2>3, RungsOK DEF WatchHeal
  <2>4. CASE WatchRung
    <3>1. MaxRungs \in Nat /\ Rungs \in Nat
      BY <2>4, RungsOK, SweepAssumption DEF WatchRung
    <3> QED
      BY <2>4, <3>1, RungsOK DEF WatchRung
  <2> QED
    BY <2>1, <2>2, <2>3, <2>4 DEF Watch
<1>4. mirror' \in RowSet
  <2>1. CASE WatchList
    BY <2>1 DEF WatchList, SweepInv, RecordsOK, RowSet
  <2>2. CASE WatchHeal
    <3>1. issue.st \in States \cup {None}
      BY DEF SweepInv, IssueOK, IssueSet
    <3> QED
      BY <2>2, <3>1, RecordRowType DEF WatchHeal, SweepInv, RecordsOK
  <2>3. CASE WatchInTime \/ WatchRung
    BY <2>3 DEF WatchInTime, WatchRung, SweepInv, RecordsOK
  <2> QED
    BY <2>1, <2>2, <2>3 DEF Watch
<1>5. UNCHANGED <<merged, ledger, hook, fill, boot, rescue, native>>
  BY DEF Watch, WatchList, WatchInTime, WatchHeal, WatchRung, ticket
<1> QED
  BY <1>1, <1>2, <1>3, <1>4, <1>5
     DEF SweepInv, RecordsOK, HookOK, FillOK, BootOK, RescueOK, WatchOK, NativeOK

LEMMA NativeStepOK == ASSUME SweepInv, Native PROVE SweepInv'
<1>0. issue \in IssueSet
  BY DEF SweepInv, IssueOK
<1>1. CASE NativeRead
  <2>1. native' = [pc |-> "write", who |-> issue.who] /\ issue.who \in Bodies \cup {None}
    BY <1>0, <1>1 DEF NativeRead, IssueSet
  <2> QED
    BY <1>1, <2>1 DEF NativeRead, ticket, SweepInv, IssueOK, RecordsOK, HookOK, FillOK, BootOK,
       RescueOK, WatchOK, NativeOK
<1>2. CASE NativeWrite
  <2>1. native.who \in Bodies \cup {None}
    BY <1>2, IdleOK DEF NativeWrite, SweepInv, NativeOK
  <2>2. [issue EXCEPT !.nat = "todo", !.who = native.who] \in IssueSet
    BY <1>0, <2>1 DEF IssueSet, Natives
  <2>3. IssueOK'
    BY <1>2, <2>2, MutateOK DEF NativeWrite, SweepInv
  <2> QED
    BY <1>2, <2>3 DEF NativeWrite, SweepInv, RecordsOK, HookOK, FillOK, BootOK, RescueOK, WatchOK,
       NativeOK
<1> QED
  BY <1>1, <1>2 DEF Native

----------------------------------------------------------------------------
LEMMA InitOK == Init => SweepInv
<1> SUFFICES ASSUME Init PROVE SweepInv
  OBVIOUS
<1>1. issue \in IssueSet /\ quota \in 0..Quota /\ mail = {}
  BY LeftOverAssumption, SweepAssumption DEF Init
<1>2. mirror \in RowSet
  BY DEF Init, RowSet, NoRow
<1>3. ledger \in States \cup {None} /\ 0 \in 0..Unreachable
  BY <1>1, SweepAssumption DEF Init, IssueSet, Unreachable
<1> QED
  BY <1>1, <1>2, <1>3, IdleOK
     DEF Init, SweepInv, IssueOK, RecordsOK, HookOK, FillOK, BootOK, RescueOK, WatchOK, NativeOK

LEMMA NextOK == SweepInv /\ [Next]_vars => SweepInv'
<1> SUFFICES ASSUME SweepInv, [Next]_vars PROVE SweepInv'
  OBVIOUS
<1>1. CASE Environment
  BY <1>1, PersonOK, AdvanceOK, FaultOK, CrashOK DEF Environment
<1>2. CASE Age
  BY <1>2, FaultOK
<1>3. CASE Sweeps
  BY <1>3, HookStepOK, FillStepOK, BootStepOK, RescueStepOK, WatchStepOK, NativeStepOK DEF Sweeps
<1>4. CASE UNCHANGED vars
  BY <1>4, ProcsKept DEF vars, work, ticket, SweepInv, IssueOK, RecordsOK
<1> QED
  BY <1>1, <1>2, <1>3, <1>4 DEF Next

CalmOK == calm \in BOOLEAN

LEMMA SweepInvTypes == SweepInv /\ CalmOK => TypeOK
  BY DEF SweepInv, IssueOK, RecordsOK, HookOK, HookSet, FillOK, BootOK, BootReading, BootWriting,
     RescueOK, RescueJudging, RescueMoving, WatchOK, NativeOK, CalmOK, TypeOK

LEMMA AtRestBool == AtRest \in BOOLEAN
  BY DEF AtRest

LEMMA InitCalm == Init => CalmOK
  BY AtRestBool DEF Init, CalmOK

LEMMA NextCalm == CalmOK /\ [Next]_vars => CalmOK'
  BY DEF Next, Rests, vars, CalmOK

(* Whatever workflow and bodies: nothing a sweep, a webhook, a person or a  *)
(* crash does leaves a row, a label set or a held snapshot that the code of *)
(* another writer could not read; in particular a delegate that a sweep     *)
(* writes is always a body, decided while the role had one.                 *)
THEOREM TypeCorrect == Spec => []TypeOK
<1>1. Init => SweepInv /\ CalmOK
  BY InitOK, InitCalm
<1>2. SweepInv /\ CalmOK /\ [Next]_vars => SweepInv' /\ CalmOK'
  BY NextOK, NextCalm
<1>3. SweepInv /\ CalmOK => TypeOK
  BY SweepInvTypes
<1> QED
  BY <1>1, <1>2, <1>3, PTL DEF Spec

----------------------------------------------------------------------------
(* Rest. A settled ticket that nobody is at work on is in one of four ways  *)
(* at peace, and of the snapshots the cycles then take each way admits only *)
(* those whose write keeps it at peace.                                     *)

(* A ticket nobody governs: nothing is under way to govern it again.        *)
Gone ==
  /\ issue.wf = None /\ mail = {} /\ ladder # Unreachable
  /\ IsIdle(hook) /\ IsIdle(fill) /\ IsIdle(boot) /\ IsIdle(rescue) /\ IsIdle(native)

(* A natively finished one: no event or read on its way says state:done.    *)
Over ==
  /\ issue.nat \in Finished /\ issue.st # Done /\ ladder # Unreachable /\ IsIdle(native)
  /\ \A e \in mail : e.st # Done
  /\ hook.pc \in {"read", "demote"} => hook.saw.st # Done

(* A done one: the bootstrap sweep can only take its labels off.            *)
Sealed ==
  /\ issue.nat \in Finished /\ issue.st = Done /\ issue.who = None
  /\ mail = {} /\ ladder # Unreachable
  /\ IsIdle(hook) /\ IsIdle(fill) /\ IsIdle(rescue) /\ IsIdle(native)
  /\ boot.pc \in {"idle", "read", "close"}

(* One that is worked on.  The ladder may end here: what the reconciler     *)
(* writes is the delegate it read, and nobody changes the delegate.         *)
Worked ==
  /\ issue.wf # None /\ issue.nat \notin Finished /\ issue.st \notin {None, Done}
  /\ HasOwner /\ ~Misplaced /\ mail = {} /\ IsIdle(hook) /\ IsIdle(fill)
  /\ boot = Idle \/ (boot.pc = "read" /\ boot.pass = 2 /\ boot.left = {})
  /\ rescue = Idle \/ (rescue = Seen("judge") /\ issue.wf = "registered" /\ issue.st \in Early)
  /\ native.pc = "write" => native.who = issue.who

Peace == Gone \/ Over \/ Sealed \/ Worked

LEMMA RestIsPeace == ASSUME SweepInv, AtRest PROVE Peace
<1>1. mail = {} /\ ladder # Unreachable /\ Settled /\ ~ Misplaced
      /\ IsIdle(hook) /\ IsIdle(fill) /\ IsIdle(boot) /\ IsIdle(rescue) /\ IsIdle(native)
  BY DEF AtRest
<1>2. boot = Idle /\ rescue = Idle
  BY <1>1 DEF IsIdle, SweepInv, BootOK, BootReading, BootWriting, RescueOK, RescueJudging,
     RescueMoving
<1>3. CASE issue.wf = None
  BY <1>1, <1>3 DEF Gone, Peace
<1>4. CASE issue.wf # None /\ issue.nat \in Finished /\ issue.st # Done
  BY <1>1, <1>4 DEF Over, Peace, IsIdle
<1>5. CASE issue.wf # None /\ issue.st = Done
  BY <1>1, <1>5 DEF Sealed, Peace, IsIdle, Settled, IsClosed
<1>6. CASE issue.wf # None /\ issue.nat \notin Finished /\ issue.st # Done
  BY <1>1, <1>2, <1>6 DEF Worked, Peace, IsIdle, Settled, IsEnrolled
<1> QED
  BY <1>3, <1>4, <1>5, <1>6

LEMMA PeaceIsSettled == Peace => Settled
<1>1. Gone => Settled
  BY SweepAssumption DEF Gone, Settled, IsEnrolled, IsClosed, HasOwner, Workflows
<1>2. Over => Settled
  BY DEF Over, Settled, IsEnrolled, IsClosed, HasOwner
<1>3. Sealed => Settled
  BY DEF Sealed, Settled, IsEnrolled, IsClosed, HasOwner
<1>4. Worked => Settled
  BY DEF Worked, Settled, IsEnrolled, IsClosed
<1> QED
  BY <1>1, <1>2, <1>3, <1>4 DEF Peace

(* Without a fault a write goes through.                                    *)
LEMMA NoFault == ASSUME SweepInv, quota' = quota PROVE ~ Spend /\ \A i : Mutate(i) => Put(i)
<1>1. ~ Spend
  BY SweepAssumption DEF SweepInv, IssueOK, Spend
<1> QED
  BY <1>1 DEF Mutate

LEMMA WatchFrame ==
  Watch => UNCHANGED <<issue, merged, ledger, mail, hook, fill, boot, rescue, native>>
  BY DEF Watch, WatchList, WatchInTime, WatchHeal, WatchRung, ticket

(* Over a ticket that is not open the watchdog heals its row: no rung.      *)
LEMMA WatchHeals ==
  ASSUME SweepInv, quota' = quota, Watch, ladder # Unreachable,
         issue.nat \in Finished \/ issue.st = Done \/ issue.wf = None
  PROVE  ladder' # Unreachable
<1>1. RowIsStale
  BY DEF RowIsStale
<1>2. 0 # Unreachable /\ Rungs \in {0, ladder}
  BY SweepAssumption DEF Unreachable, Rungs
<1>3. ladder' \in {0, Rungs, ladder}
  BY <1>1, NoFault DEF Watch, WatchList, WatchInTime, WatchHeal, WatchRung
<1> QED
  BY <1>2, <1>3

LEMMA AgeFacts ==
  ASSUME SweepInv, Age
  PROVE  /\ issue'.wf = issue.wf /\ issue'.st = issue.st
         /\ issue'.nat = issue.nat /\ issue'.who = issue.who
         /\ UNCHANGED <<merged, ledger, ladder, mail, hook, fill, boot, rescue, native>>
<1>1. issue \in IssueSet
  BY DEF SweepInv, IssueOK
<1> QED
  BY <1>1 DEF Age, procs, IssueSet

LEMMA GoneKept ==
  ASSUME SweepInv, Gone, Age \/ Sweeps, quota' = quota
  PROVE  Gone'
<1>1. CASE Age
  BY <1>1, AgeFacts DEF Gone, IsIdle
<1>2. CASE Watch
  BY <1>2, WatchFrame, WatchHeals DEF Gone, IsIdle
<1>3. ~ Hook /\ ~ Fill
  BY DEF Gone, IsIdle, Hook, Receive, HookRead, HookApply, HookDemote, Fill, FillRead, FillApply
<1>4. ~ Boot
  BY DEF Gone, IsIdle, Boot, BootList, BootReadFails, BootEnrolRead, BootCloseRead, BootSealRead,
     BootSeatRead, BootRead, BootWrite
<1>5. issue.wf # "registered"
  BY SweepAssumption DEF Gone, Workflows
<1>6. ~ Rescue
  BY <1>5 DEF Gone, IsIdle, Rescue, RescueList, RescueJudge, RescueMove, RescueMoved, RescueGuard,
     RescueEnlist, RescueSeat
<1>7. ~ Native
  BY DEF Gone, IsIdle, Native, NativeRead, NativeWrite
<1> QED
  BY <1>1, <1>2, <1>3, <1>4, <1>6, <1>7 DEF Sweeps

(* A write of a natively finished ticket, and the event that tells of it.   *)
LEMMA OverPut ==
  ASSUME Over, NEW i \in IssueSet, Put(i), i.nat \in Finished, i.st # Done
  PROVE  /\ issue'.nat \in Finished /\ issue'.st # Done
         /\ \A e \in mail' : e.st # Done
<1>1. issue'.nat = i.nat /\ issue'.st = i.st /\ EventOf(i).st = i.st
  BY DEF Put, EventOf, IssueSet
<1>2. mail' \subseteq mail \cup {EventOf(i)}
  BY DEF Put
<1> QED
  BY <1>1, <1>2 DEF Over

LEMMA OverKept ==
  ASSUME SweepInv, Over, Age \/ Sweeps, quota' = quota
  PROVE  Over'
<1>0. /\ issue \in IssueSet /\ issue.nat \in Finished /\ issue.st # Done
      /\ Entry # Done /\ None # Done /\ Entry \in States
  BY SweepAssumption DEF SweepInv, IssueOK, Over
<1>1. CASE Age
  BY <1>1, AgeFacts DEF Over, IsIdle
<1>2. CASE Watch
  BY <1>2, WatchFrame, WatchHeals DEF Over, IsIdle
<1>3. CASE Hook
  <2>0. UNCHANGED <<ladder, native>>
    BY <1>3 DEF Hook, Receive, HookRead, HookApply, HookDemote
  <2>1. CASE \E e \in mail : Receive(e)
    <3>1. PICK e \in mail : hook' = [pc |-> "read", saw |-> e] /\ mail' = mail \ {e} /\ issue' = issue
      BY <2>1 DEF Receive, ticket
    <3> QED
      BY <2>0, <3>1 DEF Over, IsIdle
  <2>2. CASE HookRead
    <3>1. hook.saw \in EventSet /\ hook.saw.st # Done /\ UNCHANGED <<issue, mail>>
      BY <2>2 DEF HookRead, Keep, Over, SweepInv, HookOK, HookSet, Idle
    <3>2. hook'.pc = "demote" => hook'.saw.st # Done
      BY <1>0, <2>2, <3>1 DEF HookRead, Holding, Idle, EventSet
    <3>3. hook'.pc # "read"
      BY <2>2 DEF HookRead, Holding, Idle
    <3> QED
      BY <2>0, <3>1, <3>2, <3>3 DEF Over, IsIdle
  <2>3. CASE HookApply
    <3>1. Put(Bootstrapped(hook.wf)) /\ hook' = Idle
      BY <2>3, NoFault DEF HookApply
    <3>2. Bootstrapped(hook.wf) \in IssueSet
      BY <2>3, BootstrappedType DEF HookApply, SweepInv, HookOK, HookSet, Idle
    <3>3. Bootstrapped(hook.wf).nat = issue.nat /\ Bootstrapped(hook.wf).st \in {Entry, None}
      BY <1>0 DEF Bootstrapped, IssueSet
    <3> QED
      BY <1>0, <2>0, <3>1, <3>2, <3>3, OverPut DEF Over, IsIdle, Idle
  <2>4. CASE HookDemote
    <3> DEFINE i == [issue EXCEPT !.wf = hook.saw.wf, !.st = hook.saw.st]
    <3>1. hook.saw \in EventSet /\ hook.saw.st # Done
      BY <2>4 DEF HookDemote, Over, SweepInv, HookOK, HookSet, Idle
    <3>2. i \in IssueSet /\ i.nat = issue.nat /\ i.st # Done
      BY <1>0, <3>1 DEF IssueSet, EventSet
    <3>3. Put(i) /\ hook' = Idle
      BY <2>4, NoFault DEF HookDemote
    <3> QED
      BY <1>0, <2>0, <3>2, <3>3, OverPut DEF Over, IsIdle, Idle
  <2> QED
    BY <1>3, <2>1, <2>2, <2>3, <2>4 DEF Hook
<1>4. CASE Fill
  <2>0. UNCHANGED <<ladder, hook, native>>
    BY <1>4 DEF Fill, FillRead, FillApply
  <2>1. CASE FillRead
    BY <2>0, <2>1 DEF FillRead, Keep, Over, IsIdle
  <2>2. CASE FillApply
    <3> DEFINE i == [issue EXCEPT !.wf = fill.wf, !.st = Entry]
    <3>0. fill.wf \in Workflows
      BY <2>2 DEF FillApply, SweepInv, FillOK, Idle
    <3>1. i \in IssueSet /\ i.nat = issue.nat /\ i.st = Entry
      BY <1>0, <3>0 DEF IssueSet
    <3>2. Put(i)
      BY <2>2, NoFault DEF FillApply
    <3> QED
      BY <1>0, <2>0, <3>1, <3>2, OverPut DEF Over, IsIdle
  <2> QED
    BY <1>4, <2>1, <2>2 DEF Fill
<1>5. CASE Boot
  <2>0. UNCHANGED <<ladder, hook, native>>
    BY <1>5 DEF Boot, BootList, BootReadFails, BootEnrolRead, BootCloseRead, BootSealRead,
       BootSeatRead, BootRead, BootWrite
  <2>1. CASE UNCHANGED <<issue, mail>>
    BY <2>0, <2>1 DEF Over, IsIdle
  <2>2. CASE BootWrite
    <3>1. PICK i \in IssueSet : Put(i) /\ i.nat \in Finished /\ i.st # Done
      <4>1. CASE boot.pc = "enrol" /\ Mutate(Bootstrapped(boot.wf))
        <5>1. Bootstrapped(boot.wf) \in IssueSet
          BY <4>1, IdleOK, BootstrappedType DEF SweepInv, BootOK, BootReading, BootWriting
        <5>2. Bootstrapped(boot.wf).nat = issue.nat /\ Bootstrapped(boot.wf).st \in {Entry, None}
          BY <1>0 DEF Bootstrapped, IssueSet
        <5> QED
          BY <1>0, <4>1, <5>1, <5>2, NoFault
      <4>2. CASE boot.pc = "close" /\ Mutate([issue EXCEPT !.wf = None, !.st = None, !.who = None])
        <5> DEFINE i == [issue EXCEPT !.wf = None, !.st = None, !.who = None]
        <5>1. i \in IssueSet /\ i.nat = issue.nat /\ i.st = None
          BY <1>0 DEF IssueSet
        <5> QED
          BY <1>0, <4>2, <5>1, NoFault
      <4>3. CASE boot.pc = "seal" /\ Mutate([issue EXCEPT !.nat = "completed", !.who = None])
        <5> DEFINE i == [issue EXCEPT !.nat = "completed", !.who = None]
        <5>1. i \in IssueSet /\ i.nat \in Finished /\ i.st = issue.st
          BY <1>0 DEF IssueSet, Natives, Finished
        <5> QED
          BY <1>0, <4>3, <5>1, NoFault
      <4>4. CASE boot.pc = "clear" /\ Mutate([issue EXCEPT !.who = None])
        <5> DEFINE i == [issue EXCEPT !.who = None]
        <5>1. i \in IssueSet /\ i.nat = issue.nat /\ i.st = issue.st
          BY <1>0 DEF IssueSet
        <5> QED
          BY <1>0, <4>4, <5>1, NoFault
      <4>5. CASE boot.pc = "seat" /\ Mutate([issue EXCEPT !.who = SeatFor(boot.st)])
        <5>1. SeatFor(boot.st) \in Bodies
          BY <4>5, FillsType DEF SweepInv, BootOK, SeatAhead
        <5> DEFINE i == [issue EXCEPT !.who = SeatFor(boot.st)]
        <5>2. i \in IssueSet /\ i.nat = issue.nat /\ i.st = issue.st
          BY <1>0, <5>1 DEF IssueSet
        <5> QED
          BY <1>0, <4>5, <5>2, NoFault
      <4> QED
        BY <2>2, <4>1, <4>2, <4>3, <4>4, <4>5 DEF BootWrite
    <3> QED
      BY <2>0, <3>1, OverPut DEF Over, IsIdle
  <2> QED
    BY <1>5, <2>1, <2>2 DEF Boot, BootList, BootReadFails, BootEnrolRead, BootCloseRead,
       BootSealRead, BootSeatRead, BootRead, ticket
<1>6. CASE Rescue
  <2>0. UNCHANGED <<ladder, hook, native>>
    BY <1>6 DEF Rescue, RescueList, RescueJudge, RescueMove, RescueMoved, RescueGuard, RescueEnlist,
       RescueSeat
  <2>1. CASE UNCHANGED <<issue, mail>>
    BY <2>0, <2>1 DEF Over, IsIdle
  <2>2. CASE RescueMove
    <3> DEFINE i == [issue EXCEPT !.wf = rescue.wf, !.st = rescue.to]
    <3>1. rescue.to \in States /\ rescue.to # Done /\ rescue.wf \in Workflows
      BY <2>2, IdleOK, SweepAssumption
         DEF RescueMove, SweepInv, RescueOK, RescueJudging, RescueMoving
    <3>2. i \in IssueSet /\ i.nat = issue.nat /\ i.st = rescue.to
      BY <1>0, <3>1 DEF IssueSet
    <3>3. Put(i)
      BY <2>2, NoFault DEF RescueMove
    <3> QED
      BY <1>0, <2>0, <3>1, <3>2, <3>3, OverPut DEF Over, IsIdle
  <2>3. CASE RescueEnlist
    <3> DEFINE i == [issue EXCEPT !.wf = rescue.wf, !.st = Entry]
    <3>1. rescue.wf \in Workflows
      BY <2>3, IdleOK DEF RescueEnlist, SweepInv, RescueOK, RescueJudging, RescueMoving
    <3>2. i \in IssueSet /\ i.nat = issue.nat /\ i.st = Entry
      BY <1>0, <3>1 DEF IssueSet
    <3>3. Put(i)
      BY <2>3, NoFault DEF RescueEnlist
    <3> QED
      BY <1>0, <2>0, <3>2, <3>3, OverPut DEF Over, IsIdle
  <2>4. CASE RescueSeat
    <3> DEFINE i == [issue EXCEPT !.who = rescue.body]
    <3>1. rescue.body \in Bodies
      BY <2>4, IdleOK DEF RescueSeat, SweepInv, RescueOK, RescueJudging, RescueMoving
    <3>2. i \in IssueSet /\ i.nat = issue.nat /\ i.st = issue.st
      BY <1>0, <3>1 DEF IssueSet
    <3>3. Put(i)
      BY <2>4, NoFault DEF RescueSeat
    <3> QED
      BY <1>0, <2>0, <3>2, <3>3, OverPut DEF Over, IsIdle
  <2> QED
    BY <1>6, <2>1, <2>2, <2>3, <2>4
       DEF Rescue, RescueList, RescueJudge, RescueMoved, RescueGuard, Keep, ticket
<1>7. ~ Native
  BY DEF Over, IsIdle, Native, NativeRead, NativeWrite
<1> QED
  BY <1>1, <1>2, <1>3, <1>4, <1>5, <1>6, <1>7 DEF Sweeps

LEMMA ThroughPc ==
  ASSUME NEW left, NEW s
  PROVE  Through(left, s).pc \in {"idle", "read"}
  BY DEF Through, Idle

LEMMA SealedKept ==
  ASSUME SweepInv, Sealed, Age \/ Sweeps, quota' = quota
  PROVE  Sealed' \/ Over'
<1>0. /\ issue \in IssueSet /\ issue.nat \in Finished /\ issue.st = Done /\ issue.who = None
      /\ None # Done
  BY SweepAssumption DEF SweepInv, IssueOK, Sealed
<1>1. CASE Age
  BY <1>1, AgeFacts DEF Sealed, IsIdle
<1>2. CASE Watch
  BY <1>2, WatchFrame, WatchHeals DEF Sealed, IsIdle
<1>3. ~ Hook /\ ~ Fill
  BY DEF Sealed, IsIdle, Hook, Receive, HookRead, HookApply, HookDemote, Fill, FillRead, FillApply
<1>4. ~ Rescue /\ ~ Native
  BY DEF Sealed, IsIdle, Rescue, RescueList, RescueJudge, RescueMove, RescueMoved, RescueGuard,
     RescueEnlist, RescueSeat, Native, NativeRead, NativeWrite
<1>5. CASE Boot
  <2>0. UNCHANGED <<ladder, hook, fill, rescue, native>>
    BY <1>5 DEF Boot, BootList, BootReadFails, BootEnrolRead, BootCloseRead, BootSealRead,
       BootSeatRead, BootRead, BootWrite
  <2>1. CASE ~ BootWrite
    <3>1. UNCHANGED <<issue, mail>>
      BY <1>5, <2>1 DEF Boot, BootList, BootReadFails, BootEnrolRead, BootCloseRead, BootSealRead,
         BootSeatRead, BootRead, ticket
    <3>2. BootList => boot'.pc \in {"idle", "read"}
      BY ThroughPc DEF BootList
    <3>3. BootEnrolRead => boot'.pc \in {"idle", "read"}
      BY <1>0, ThroughPc DEF BootEnrolRead, Onward
    <3>4. BootCloseRead => boot'.pc \in {"idle", "read", "close"}
      BY ThroughPc DEF BootCloseRead, Onward, ToWrite
    <3>5. BootSealRead => boot'.pc \in {"idle", "read"}
      BY <1>0, ThroughPc DEF BootSealRead, Onward
    <3>6. BootSeatRead => boot'.pc \in {"idle", "read"}
      BY <1>0, ThroughPc, NoFault DEF BootSeatRead, Onward
    <3>7. boot'.pc \in {"idle", "read", "close"}
      BY <1>5, <2>1, <3>2, <3>3, <3>4, <3>5, <3>6, NoFault DEF Boot, BootReadFails
    <3> QED
      BY <2>0, <3>1, <3>7 DEF Sealed, IsIdle
  <2>2. CASE BootWrite
    <3> DEFINE i == [issue EXCEPT !.wf = None, !.st = None, !.who = None]
    <3>1. Put(i)
      BY <2>2, NoFault DEF BootWrite, Sealed
    <3>2. i \in IssueSet /\ i.nat = issue.nat /\ i.st = None
      BY <1>0 DEF IssueSet
    <3>3. issue'.nat = i.nat /\ issue'.st = i.st
      BY <3>1, <3>2 DEF Put, IssueSet
    <3>4. \A e \in mail' : e.st # Done
      BY <1>0, <3>1, <3>2 DEF Sealed, Put, EventOf
    <3>5. hook'.pc = "idle" /\ native'.pc = "idle" /\ ladder' # Unreachable
      BY <2>0 DEF Sealed, IsIdle
    <3> QED
      BY <1>0, <3>2, <3>3, <3>4, <3>5 DEF Over, IsIdle
  <2> QED
    BY <2>1, <2>2
<1> QED
  BY <1>1, <1>2, <1>3, <1>4, <1>5 DEF Sweeps

(* What Worked says of the ticket does not hang on its age, nor on which    *)
(* open native state it has.                                                *)
LEMMA StillOwned ==
  ASSUME HasOwner, ~ Misplaced, issue.nat \notin Finished,
         issue'.wf = issue.wf, issue'.st = issue.st, issue'.who = issue.who, ledger' = ledger
  PROVE  HasOwner' /\ ~ Misplaced' /\ Seen("judge")' = Seen("judge")
  BY DEF HasOwner, Misplaced, RecoveryStuck, Seen

(* Nothing of it looks amiss to the bootstrap sweep but that it has a state, *)
(* and nothing to the rescue sweep but that it may be early.                *)
LEMMA NothingAmiss ==
  ASSUME SweepInv, Worked
  PROVE  /\ Passes(issue) = {2}
         /\ issue.wf = "registered" => RecoveryStuck \/ Classified(issue) = "idle"
<1>0. issue.st \in States \ {Done} /\ issue.nat \notin Finished /\ issue.wf # None /\ HasOwner
  BY DEF SweepInv, IssueOK, IssueSet, Worked
<1>1. ~ (issue.who = None /\ issue.wf = "registered" /\ Owned(issue.st))
  BY <1>0 DEF HasOwner
<1>2. Passes(issue) = {2}
  BY <1>0, <1>1, SweepAssumption DEF Passes
<1>3. ASSUME issue.wf = "registered", ~ RecoveryStuck PROVE Classified(issue) = "idle"
  <2>1. ~ Malformed(issue)
    BY <1>0, SweepAssumption DEF Malformed
  <2>2. Alone(Fills[issue.st]) => Owned(issue.st)
    BY <1>0, FillerIsBody DEF Owned
  <2>3. ~ (Dormant(issue) /\ Alone(Fills[issue.st]))
    BY <1>1, <1>3, <2>2 DEF Dormant
  <2>4. ~ (Drifted(issue) /\ Pin[issue.st] = None /\ Alone(Fills[issue.st]))
    BY <1>0, <1>3, <2>2 DEF Drifted, HasOwner
  <2> QED
    BY <2>1, <2>3, <2>4 DEF Classified
<1> QED
  BY <1>2, <1>3

LEMMA ThroughClose ==
  ASSUME NEW s
  PROVE  /\ Through({2}, s) = [pc |-> "read", pass |-> 2, left |-> {}, st |-> s]
         /\ Through({}, s) = Idle
<1> DEFINE p == CHOOSE k \in {2} : \A l \in {2} : k <= l
<1>1. p = 2
  OBVIOUS
<1>2. Through({2}, s) = [pc |-> "read", pass |-> p, left |-> {2} \ {p}, st |-> s]
  BY DEF Through
<1>3. {2} \ {2} = {}
  OBVIOUS
<1> QED
  BY <1>1, <1>2, <1>3 DEF Through

LEMMA WorkedKept ==
  ASSUME SweepInv, Worked, Age \/ Sweeps, quota' = quota
  PROVE  Worked'
<1>0. /\ issue \in IssueSet /\ issue.wf # None /\ issue.nat \notin Finished
      /\ issue.st \notin {None, Done} /\ HasOwner /\ ~ Misplaced /\ mail = {}
      /\ hook.pc = "idle" /\ fill.pc = "idle"
  BY DEF SweepInv, IssueOK, Worked, IsIdle
<1>1. CASE Age
  BY <1>0, <1>1, AgeFacts, StillOwned DEF Worked, IsIdle
<1>2. ~ Hook /\ ~ Fill
  BY <1>0 DEF Hook, Receive, HookRead, HookApply, HookDemote, Fill, FillRead, FillApply
<1>3. CASE Boot
  <2>0. UNCHANGED <<issue, ledger, mail, hook, fill, rescue, native>>
        /\ (boot' = Idle \/ (boot'.pc = "read" /\ boot'.pass = 2 /\ boot'.left = {}))
    <3>0. UNCHANGED <<issue, ledger, mail, hook, fill, rescue, native>> \/ BootWrite
      BY <1>3 DEF Boot, BootList, BootReadFails, BootEnrolRead, BootCloseRead, BootSealRead,
         BootSeatRead, BootRead, ticket
    <3>1. BootList => boot' = [pc |-> "read", pass |-> 2, left |-> {}, st |-> issue.st]
      <4>1. BootList => boot' = Through({2}, issue.st)
        BY NothingAmiss DEF BootList
      <4> QED
        BY <4>1, ThroughClose
    <3>2. BootCloseRead => boot' = Idle
      <4>1. BootCloseRead => boot.left = {} /\ boot' = Onward
        BY <1>0, IdleOK DEF BootCloseRead, BootRead, Worked, Finished
      <4> QED
        BY <4>1, ThroughClose DEF Onward
    <3>3. ~ BootReadFails /\ ~ BootEnrolRead /\ ~ BootSealRead /\ ~ BootSeatRead /\ ~ BootWrite
      BY NoFault, IdleOK
         DEF Worked, BootReadFails, BootEnrolRead, BootSealRead, BootSeatRead, BootWrite, BootRead
    <3> QED
      BY <1>3, <3>0, <3>1, <3>2, <3>3 DEF Boot
  <2> QED
    BY <1>0, <2>0, StillOwned DEF Worked, IsIdle
<1>4. CASE Rescue
  <2>0. UNCHANGED <<issue, ledger, mail, hook, fill, boot, native>>
        /\ \/ rescue' = Idle
           \/ rescue' = Seen("judge") /\ issue.wf = "registered" /\ issue.st \in Early
    <3>1. RescueList =>
          UNCHANGED <<issue, ledger, mail, hook, fill, boot, native>>
          /\ \/ rescue' = Idle
             \/ rescue' = Seen("judge") /\ issue.wf = "registered" /\ issue.st \in Early
      BY NothingAmiss DEF RescueList, RecoveryStuck, ticket
    <3>2. ASSUME RescueJudge PROVE
          UNCHANGED <<issue, ledger, mail, hook, fill, boot, native>>
          /\ \/ rescue' = Idle
             \/ rescue' = Seen("judge") /\ issue.wf = "registered" /\ issue.st \in Early
      <4>1. rescue = Seen("judge") /\ issue.wf = "registered" /\ issue.st \in Early
        BY <3>2, IdleOK DEF RescueJudge, Worked
      <4>2. Classified(rescue) = Classified(issue) /\ rescue.st = issue.st
        BY <1>0, <4>1 DEF Seen, Classified, Malformed, Dormant, Drifted
      <4> QED
        BY <1>0, <3>2, <4>1, <4>2, NothingAmiss DEF RescueJudge, Misplaced, RecoveryStuck, ticket
    <3>3. ~ RescueMove /\ ~ RescueMoved /\ ~ RescueGuard /\ ~ RescueEnlist /\ ~ RescueSeat
      BY IdleOK DEF Worked, Seen, RescueMove, RescueMoved, RescueGuard, RescueEnlist, RescueSeat
    <3> QED
      BY <1>4, <3>1, <3>2, <3>3 DEF Rescue
  <2> QED
    BY <1>0, <2>0, StillOwned DEF Worked, IsIdle, Seen
<1>5. CASE Watch
  BY <1>0, <1>5, WatchFrame, StillOwned DEF Worked, IsIdle, Seen
<1>6. CASE NativeRead
  BY <1>0, <1>6, StillOwned DEF NativeRead, ticket, Worked, IsIdle, Seen
<1>7. CASE NativeWrite
  <2> DEFINE i == [issue EXCEPT !.nat = "todo", !.who = native.who]
  <2>1. Put(i) /\ native' = Idle /\ UNCHANGED <<ledger, hook, fill, boot, rescue>>
    BY <1>7, NoFault DEF NativeWrite
  <2>2. native.who = issue.who
    BY <1>7 DEF NativeWrite, Worked
  <2>3. /\ i \in IssueSet /\ i.nat = "todo" /\ i.wf = issue.wf /\ i.st = issue.st
        /\ i.who = issue.who
    BY <1>0, <2>2 DEF IssueSet, Natives
  <2>4. /\ issue'.nat = "todo" /\ issue'.wf = issue.wf /\ issue'.st = issue.st
        /\ issue'.who = issue.who
    BY <2>1, <2>3 DEF Put, IssueSet
  <2>5. mail' = {}
    BY <1>0, <2>1, <2>3 DEF Put, EventOf
  <2>6. "todo" \notin Finished
    BY DEF Finished
  <2> QED
    BY <1>0, <2>1, <2>4, <2>5, <2>6, StillOwned, IdleOK DEF Worked, IsIdle, Seen
<1> QED
  BY <1>1, <1>2, <1>3, <1>4, <1>5, <1>6, <1>7 DEF Sweeps, Native

----------------------------------------------------------------------------
LEMMA EnvironmentSpends == ASSUME SweepInv, Environment PROVE quota' # quota
<1>1. Spend
  BY DEF Environment, AddWorkflow, DropWorkflow, Advance, Reseat, SetNative, Merge, Lose, Crash
<1> QED
  BY <1>1, NoFault

CalmInv == SweepInv /\ CalmOK /\ (calm => Peace)

LEMMA CalmKept == CalmInv /\ [Next]_vars => CalmInv'
<1> SUFFICES ASSUME CalmInv, [Next]_vars PROVE CalmInv'
  OBVIOUS
<1>1. SweepInv' /\ CalmOK'
  BY NextOK, NextCalm DEF CalmInv
<1>2. ASSUME Next, calm' PROVE Peace'
  <2>1. quota' = quota /\ (Age \/ Sweeps) /\ (calm \/ AtRest')
    BY <1>2, EnvironmentSpends DEF Next, Rests, CalmInv
  <2>2. CASE AtRest'
    <3>1. (SweepInv /\ AtRest => Peace)'
      BY RestIsPeace, PTL
    <3> QED
      BY <1>1, <2>2, <3>1
  <2>3. CASE calm
    BY <2>1, <2>3, GoneKept, OverKept, SealedKept, WorkedKept DEF CalmInv, Peace
  <2> QED
    BY <2>1, <2>2, <2>3
<1>3. CASE UNCHANGED vars
  <2>1. UNCHANGED <<issue, ledger, mail, hook, fill, boot, rescue, native, ladder, calm>>
    BY <1>3 DEF vars, work, ticket, procs
  <2>2. Gone => Gone'
    BY <2>1 DEF Gone, IsIdle
  <2>3. Over => Over'
    BY <2>1 DEF Over, IsIdle
  <2>4. Sealed => Sealed'
    BY <2>1 DEF Sealed, IsIdle
  <2>5. Worked => Worked'
    BY <2>1, StillOwned DEF Worked, IsIdle, Seen
  <2>6. calm' => Peace'
    BY <2>1, <2>2, <2>3, <2>4, <2>5 DEF CalmInv, Peace
  <2> QED
    BY <1>1, <2>6 DEF CalmInv
<1> QED
  BY <1>1, <1>2, <1>3 DEF CalmInv

(* Whatever workflow, roles and bodies: from a settled ticket with nobody   *)
(* at work on it, the cycles of the hook, the repair, the bootstrap, rescue *)
(* and native-state sweeps and the watchdog, in any order and with reads as *)
(* old as they like, leave it settled until somebody acts or a call fails.  *)
THEOREM RestIsKept == Spec => []RestHolds
<1>1. Init => CalmInv
  <2>1. Init => SweepInv /\ CalmOK
    BY InitOK, InitCalm
  <2>2. Init /\ SweepInv /\ calm => Peace
    BY RestIsPeace DEF Init
  <2> QED
    BY <2>1, <2>2 DEF CalmInv
<1>2. CalmInv /\ [Next]_vars => CalmInv'
  BY CalmKept
<1>3. CalmInv => RestHolds
  BY PeaceIsSettled DEF CalmInv, RestHolds
<1> QED
  BY <1>1, <1>2, <1>3, PTL DEF Spec

=============================================================================
