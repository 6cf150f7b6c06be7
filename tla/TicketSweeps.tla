---------------------------- MODULE TicketSweeps ----------------------------
(***************************************************************************)
(* The periodic and event-driven writers that keep a governed ticket whole: *)
(* the webhook's label hook and its enrolment repair, the bootstrap         *)
(* reconciliation sweep with its five passes, the rescue sweep, the         *)
(* first-action watchdog with its ladder and mirror, and the native-state   *)
(* reconciler.  Each lists or reads the ticket, awaits, and writes what it  *)
(* decided then; none holds a lock.                                         *)
(*                                                                          *)
(* A sweep treats tickets one after the other, so what the others do to the *)
(* one modelled here is delay: a snapshot may be arbitrarily old when it is *)
(* acted on.  Wakes, alerts and the ack rows they leave are not modelled    *)
(* (WakeDispatch has them); a workflow redirected at enrolment and the      *)
(* escape and canceled labels are not either.                               *)
(***************************************************************************)
EXTENDS Naturals, FiniteSets

CONSTANTS
  States,         \* the ids of the workflow's states
  Entry,          \* its entry_state
  Done,           \* its terminal state, label state:done
  Early,          \* states the rescue sweep looks up in the ledger
  Bodies,         \* agents that can be delegated
  Fills,          \* [States -> SUBSET Bodies]: who fills the owner role
  LedgerFills,    \* the same by the recovery's own table, OWNER_MAP
  Pin,            \* [States -> Bodies \cup {None}]: a bound seat's body
  MaxRungs,       \* rungs of the ladder before the owner is unreachable
  LeftOver,       \* the tickets the service may start over
  Quota,          \* bound: acts of people and agents, and faults
  None

Workflows == {"registered", "unknown"}

ASSUME SweepAssumption ==
  /\ Entry \in States /\ Done \in States /\ Entry # Done
  /\ Early \subseteq States /\ Done \notin Early
  /\ None \notin States /\ None \notin Bodies /\ None \notin Workflows
  /\ Fills \in [States -> SUBSET Bodies] /\ Fills[Done] = {}
  /\ LedgerFills \in [States -> SUBSET Bodies] /\ LedgerFills[Done] = {}
  /\ Pin \in [States -> Bodies \cup {None}]
  /\ MaxRungs \in Nat /\ Quota \in Nat

VARIABLES
  issue,    \* the ticket in Linear: workflow and state label, native state,
            \* delegate, and whether its last write is past the grace window
  merged,   \* a pull request of the ticket is merged
  ledger,   \* destination of the last transition in the audit store
  mirror,   \* the enrolled-tickets row
  ladder,   \* rungs fired; MaxRungs + 1 is "unreachable"
  mail,     \* label webhooks on their way
  hook,     \* maybeBootstrapWorkflow, run by the webhook
  fill,     \* enrollIfMissing, started by the same webhook
  boot,     \* runBootstrapReconciliationSweep
  rescue,   \* runRescueSweep
  watch,    \* runFirstActionWatchdogSweep
  native,   \* runNativeStateReconcilerSweep
  quota,    \* what is left of Quota
  calm      \* history: the ticket came to rest, and only the sweeps ran since

ticket == <<issue, merged, ledger>>
procs  == <<hook, fill, boot, rescue, watch, native>>
work   == <<ticket, mirror, ladder, mail, procs, quota>>
vars   == <<work, calm>>

Finished    == {"completed", "canceled"}
Natives     == {"todo", "active"} \cup Finished
Unreachable == MaxRungs + 1

IssueSet == [wf: Workflows \cup {None}, st: States \cup {None}, nat: Natives,
             who: Bodies \cup {None}, old: BOOLEAN]
EventSet == [added: BOOLEAN, removed: BOOLEAN,
             wf: Workflows \cup {None}, st: States \cup {None}]
RowSet   == [st: States \cup {None}, owned: BOOLEAN, fresh: BOOLEAN]

ASSUME LeftOverAssumption == LeftOver \subseteq IssueSet

NoRow   == [st |-> None, owned |-> FALSE, fresh |-> FALSE]
Idle    == [pc |-> "idle"]

(* What of a read the reader still uses when it acts.                       *)
Holding(p, w) == [pc |-> p, wf |-> w]
Seen(p) == [pc |-> p, wf |-> issue.wf, st |-> issue.st, who |-> issue.who]

IsIdle(p) == p.pc = "idle"
Alone(S)  == Cardinality(S) = 1
TheOne(S) == CHOOSE b \in S : TRUE

TypeOK ==
  /\ issue \in IssueSet /\ merged \in BOOLEAN
  /\ ledger \in States \cup {None}
  /\ mirror \in RowSet
  /\ ladder \in 0..Unreachable
  /\ mail \subseteq EventSet
  /\ hook \in {Idle} \cup [pc: {"read", "demote"}, saw: EventSet]
             \cup [pc: {"apply"}, wf: Workflows]
  /\ fill \in {Idle, [pc |-> "read"]} \cup [pc: {"apply"}, wf: Workflows]
  /\ boot \in {Idle}
       \cup [pc: {"read"}, pass: 1..4, left: SUBSET (1..4), st: States \cup {None}]
       \cup [pc: {"enrol", "close", "seal", "clear", "seat"},
             left: SUBSET (1..4), st: States \cup {None}, wf: Workflows \cup {None}]
  /\ rescue \in {Idle}
       \cup [pc: {"judge", "guard", "enlist"}, wf: Workflows,
             st: States \cup {None}, who: Bodies \cup {None}]
       \cup [pc: {"move", "moved"}, wf: Workflows, to: States]
       \cup [pc: {"seat"}, body: Bodies]
  /\ watch \in {Idle} \cup [pc: {"check"}, row: RowSet]
  /\ native \in {Idle} \cup [pc: {"write"}, who: Bodies \cup {None}]
  /\ quota \in 0..Quota /\ calm \in BOOLEAN

OwnersOf(s) ==
  CASE s = Done -> {None}
    [] s # Done /\ Pin[s] # None -> {Pin[s]}
    [] OTHER -> IF Fills[s] = {} THEN {None} ELSE Fills[s]

(* The recovery looks the ticket up in the audit store and finds a place    *)
(* that no single body owns: it gives up on the ticket, every cycle.  Where *)
(* one does, it is going to move the ticket there.                          *)
RecoveryStuck == /\ issue.st \in Early /\ ledger \notin {None, issue.st}
                 /\ ~Alone(LedgerFills[ledger])
Misplaced     == /\ issue.st \in Early /\ ledger \notin {None, issue.st}
                 /\ Alone(LedgerFills[ledger])

Owned(s) == s \in States \ {Done} /\ (Fills[s] # {} \/ Pin[s] # None)

(* What the repairs are to bring about.                                     *)
IsEnrolled == issue.wf # None /\ issue.nat \notin Finished => issue.st # None
IsClosed   == issue.wf # None /\ issue.st = Done =>
                 issue.who = None /\ issue.nat \in Finished
HasOwner   == /\ issue.wf = "registered" /\ Owned(issue.st)
              /\ issue.nat \notin Finished
              => /\ issue.who # None
                 /\ Alone(Fills[issue.st]) /\ Pin[issue.st] = None /\ ~RecoveryStuck
                      => issue.who \in Fills[issue.st]
Settled == IsEnrolled /\ IsClosed /\ HasOwner

(* Nothing is left to repair, nobody holds a snapshot, no webhook is under  *)
(* way and the ladder is not at its end.                                    *)
AtRest ==
  /\ Settled /\ ~Misplaced /\ mail = {} /\ ladder # Unreachable
  /\ IsIdle(hook) /\ IsIdle(fill) /\ IsIdle(boot)
  /\ IsIdle(rescue) /\ IsIdle(watch) /\ IsIdle(native)

(* The service starts over a ticket as people, agents and earlier runs of it *)
(* left it: any workflow label, native state and delegate, and a state label *)
(* that was restored or stripped since the last transition on record.       *)
Init ==
  /\ issue \in LeftOver
  /\ ledger \in {issue.st} \cup (IF issue.st = Entry THEN States \cup {None} ELSE {})
  /\ mirror = IF issue.st \in States \ {Done} /\ issue.wf = "registered"
              THEN [st |-> issue.st, owned |-> issue.who # None, fresh |-> TRUE] ELSE NoRow
  /\ merged = FALSE /\ ladder = 0 /\ mail = {} /\ quota = Quota
  /\ hook = Idle /\ fill = Idle /\ boot = Idle
  /\ rescue = Idle /\ watch = Idle /\ native = Idle
  /\ calm = AtRest

Spend == quota > 0 /\ quota' = quota - 1

----------------------------------------------------------------------------
(* Linear: a label webhook is sent when a workflow label was added or any   *)
(* label went; other label events find nothing to do in the hook.           *)

EventOf(i) ==
  [added   |-> i.wf \notin {None, issue.wf},
   removed |-> \/ issue.wf \notin {None, i.wf}
               \/ issue.st \notin {None, i.st},
   wf |-> i.wf, st |-> i.st]

Put(i) ==
  LET e == EventOf(i) IN
  /\ issue' = [i EXCEPT !.old = FALSE]
  /\ mail' = IF e.added \/ e.removed THEN mail \cup {e} ELSE mail

Keep == UNCHANGED <<issue, mail>>

(* A mutation that may be refused: the callers carry on as if nothing.      *)
Mutate(i) == \/ Put(i) /\ UNCHANGED quota
             \/ Spend /\ Keep

----------------------------------------------------------------------------
(* The mirror: enroll() leaves a live row as it is, recordTransition() and  *)
(* the revival of a terminal row stamp entered_state_at afresh.             *)

Enroll(s, owned) ==
  IF mirror.st = None THEN [st |-> s, owned |-> owned, fresh |-> TRUE]
                      ELSE mirror
RecordTransition(s, owned) == [st |-> s, owned |-> owned, fresh |-> TRUE]
Retired == NoRow

----------------------------------------------------------------------------
(* People and agents. Acts that the proxy writes are one step here:         *)
(* TransitionWrite has their detail.                                        *)

AddWorkflow(w) ==
  /\ issue.wf = None /\ Spend
  /\ Put([issue EXCEPT !.wf = w])
  /\ UNCHANGED <<merged, ledger, mirror, ladder, procs>>

DropWorkflow ==
  /\ issue.wf # None /\ Spend
  /\ Put([issue EXCEPT !.wf = None])
  /\ UNCHANGED <<merged, ledger, mirror, ladder, procs>>

Advance(s) ==
  /\ issue.wf = "registered" /\ issue.st \notin {None, Done, s} /\ Spend
  /\ \E b \in OwnersOf(s) :
       /\ Put([issue EXCEPT !.st = s, !.who = b,
                            !.nat = IF s = Done THEN "completed" ELSE "todo"])
       /\ mirror' = IF s = Done THEN Retired
                    ELSE RecordTransition(s, b # None)
  /\ ledger' = s
  /\ UNCHANGED <<merged, ladder, procs>>

Reseat(b) ==
  /\ issue.who # b /\ Spend
  /\ Put([issue EXCEPT !.who = b])
  /\ UNCHANGED <<merged, ledger, mirror, ladder, procs>>

SetNative(n) ==
  /\ issue.nat # n /\ Spend
  /\ Put([issue EXCEPT !.nat = n])
  /\ UNCHANGED <<merged, ledger, mirror, ladder, procs>>

Merge ==
  /\ ~merged /\ Spend /\ merged' = TRUE
  /\ UNCHANGED <<issue, ledger, mirror, ladder, mail, procs>>

Lose(e) ==
  /\ Spend /\ mail' = mail \ {e}
  /\ UNCHANGED <<ticket, mirror, ladder, procs>>

(* The process dies: what the sweeps held and the ladder are gone.          *)
Crash ==
  /\ Spend
  /\ hook' = Idle /\ fill' = Idle /\ boot' = Idle
  /\ rescue' = Idle /\ watch' = Idle /\ native' = Idle
  /\ ladder' = 0 /\ UNCHANGED <<ticket, mirror, mail>>

Age ==
  /\ ~issue.old /\ issue' = [issue EXCEPT !.old = TRUE]
  /\ UNCHANGED <<merged, ledger, mirror, ladder, mail, procs, quota>>

----------------------------------------------------------------------------
(* The webhook: the repair is started first and not awaited, then the hook. *)

Receive(e) ==
  /\ IsIdle(hook)
  /\ mail' = mail \ {e} /\ hook' = [pc |-> "read", saw |-> e]
  /\ fill' = IF IsIdle(fill) THEN [pc |-> "read"] ELSE fill
  /\ UNCHANGED <<ticket, mirror, ladder, boot, rescue, watch, native, quota>>

HookRead ==
  /\ hook.pc = "read"
  /\ LET e == hook.saw IN
     \/ Spend /\ hook' = Idle
     \/ /\ hook' = CASE e.added /\ e.wf = issue.wf ->
                          IF issue.st = None THEN Holding("apply", issue.wf) ELSE Idle
                     [] ~(e.added /\ e.wf = issue.wf) /\ e.removed
                          /\ issue.wf = None /\ issue.st # None ->
                          [pc |-> "demote", saw |->
                            [e EXCEPT !.st = IF e.st = issue.st THEN None ELSE e.st]]
                     [] OTHER -> Idle
        /\ UNCHANGED quota
  /\ Keep
  /\ UNCHANGED <<merged, ledger, mirror, ladder, fill, boot, rescue, watch, native>>

(* applyBootstrapToIssue on a context read earlier: the labels are a full   *)
(* set, the delegate is left out unless exactly one body fills the role.    *)
Bootstrapped(w) ==
  IF w = "unknown"
  THEN [issue EXCEPT !.wf = None, !.st = None, !.who = None]
  ELSE [issue EXCEPT !.wf = w, !.st = Entry,
                     !.who = IF Alone(Fills[Entry]) THEN TheOne(Fills[Entry])
                                                    ELSE issue.who]

HookApply ==
  /\ hook.pc = "apply" /\ hook' = Idle
  /\ \/ /\ Put(Bootstrapped(hook.wf)) /\ UNCHANGED quota
        /\ mirror' = IF hook.wf = "unknown" THEN mirror
                     ELSE Enroll(Entry, Alone(Fills[Entry]))
     \/ Spend /\ Keep /\ UNCHANGED mirror
  /\ UNCHANGED <<merged, ledger, ladder, fill, boot, rescue, watch, native>>

(* The labels of the EVENT are written back, less the live state labels.    *)
HookDemote ==
  /\ hook.pc = "demote" /\ hook' = Idle
  /\ Mutate([issue EXCEPT !.wf = hook.saw.wf, !.st = hook.saw.st])
  /\ UNCHANGED <<merged, ledger, mirror, ladder, fill, boot, rescue, watch, native>>

FillRead ==
  /\ fill.pc = "read"
  /\ \/ Spend /\ fill' = Idle
     \/ /\ fill' = IF issue.wf = "registered" /\ issue.st = None
                   THEN Holding("apply", issue.wf) ELSE Idle
        /\ UNCHANGED quota
  /\ Keep
  /\ UNCHANGED <<merged, ledger, mirror, ladder, hook, boot, rescue, watch, native>>

FillApply ==
  /\ fill.pc = "apply" /\ fill' = Idle
  /\ Mutate([issue EXCEPT !.wf = fill.wf, !.st = Entry])
  /\ UNCHANGED <<merged, ledger, mirror, ladder, hook, boot, rescue, watch, native>>

----------------------------------------------------------------------------
(* The bootstrap reconciliation sweep. Which passes look at the ticket is   *)
(* decided by the snapshot alone; each then reads it again and writes.      *)
(* 1 enrols, 2 closes (the code's Pass 2/3), 3 seals, 4 seats.              *)

(* Mutant: the enrol pass leaves a refused workflow to nobody.              *)
PassesRegistered(i) ==
  {p \in 1..4 :
     \/ p = 1 /\ i.nat \notin Finished /\ i.st = None /\ i.old /\ i.wf = "registered"
     \/ p = 2 /\ i.st # None
     \/ p = 3 /\ i.st = Done
     \/ p = 4 /\ i.nat \notin Finished /\ i.who = None
              /\ i.wf = "registered" /\ Owned(i.st)}

Passes(i) ==
  {p \in 1..4 :
     \/ p = 1 /\ i.nat \notin Finished /\ i.st = None /\ i.old
     \/ p = 2 /\ i.st # None
     \/ p = 3 /\ i.st = Done
     \/ p = 4 /\ i.nat \notin Finished /\ i.who = None
              /\ i.wf = "registered" /\ Owned(i.st)}

Through(left, s) ==
  IF left = {} THEN Idle
  ELSE LET p == CHOOSE k \in left : \A l \in left : k <= l
       IN [pc |-> "read", pass |-> p, left |-> left \ {p}, st |-> s]

Onward == Through(boot.left, boot.st)

BootList ==
  /\ IsIdle(boot) /\ issue.wf # None
  /\ boot' = Through(Passes(issue), issue.st) /\ boot' # Idle
  /\ UNCHANGED <<ticket, mirror, ladder, mail, hook, fill, rescue, watch, native, quota>>

ToWrite(p) == [pc |-> p, left |-> boot.left, st |-> boot.st, wf |-> issue.wf]

BootRead(p) ==
  /\ boot.pc = "read" /\ boot.pass = p
  /\ UNCHANGED <<ticket, mirror, ladder, mail, hook, fill, rescue, watch, native>>

(* An unanswered read ends the pass for the ticket.                         *)
BootReadFails == (\E p \in 1..3 : BootRead(p)) /\ Spend /\ boot' = Onward

BootEnrolRead ==
  /\ BootRead(1) /\ UNCHANGED quota
  /\ boot' = IF issue.st # None \/ issue.wf = None THEN Onward ELSE ToWrite("enrol")

BootCloseRead ==
  /\ BootRead(2) /\ UNCHANGED quota
  /\ boot' = LET ended == \/ issue.nat = "completed" /\ merged
                          \/ issue.nat = "canceled" /\ boot.st # Done
             IN IF ended THEN ToWrite("close") ELSE Onward

(* Mutant: the seal pass skips a ticket that is already natively finished.  *)
BootSealReadOpenOnly ==
  /\ BootRead(3) /\ UNCHANGED quota
  /\ boot' = IF issue.nat \notin Finished THEN ToWrite("seal") ELSE Onward

BootSealRead ==
  /\ BootRead(3) /\ UNCHANGED quota
  /\ boot' = CASE issue.nat \notin Finished -> ToWrite("seal")
               [] issue.nat \in Finished /\ issue.who # None -> ToWrite("clear")
               [] OTHER -> Onward

(* The re-read of the seat pass fails open.                                 *)
BootSeatRead ==
  /\ BootRead(4)
  /\ \/ /\ UNCHANGED quota
        /\ boot' = LET taken == issue.who # None \/ issue.nat \in Finished \/ issue.st = Done
                   IN IF taken THEN Onward ELSE ToWrite("seat")
     \/ Spend /\ boot' = ToWrite("seat")

SeatFor(s) == IF Pin[s] # None THEN Pin[s] ELSE TheOne(Fills[s])

BootWrite ==
  /\ \/ boot.pc = "enrol" /\ Mutate(Bootstrapped(boot.wf))
     \/ boot.pc = "close" /\ Mutate([issue EXCEPT !.wf = None, !.st = None, !.who = None])
     \/ boot.pc = "seal"  /\ Mutate([issue EXCEPT !.nat = "completed", !.who = None])
     \/ boot.pc = "clear" /\ Mutate([issue EXCEPT !.who = None])
     \/ boot.pc = "seat"  /\ Mutate([issue EXCEPT !.who = SeatFor(boot.st)])
  /\ boot' = Onward
  /\ UNCHANGED <<merged, ledger, mirror, ladder, hook, fill, rescue, watch, native>>

----------------------------------------------------------------------------
(* The rescue sweep. It never looks at the native state.                    *)

Malformed(i) == i.st = None
Dormant(i)   == ~Malformed(i) /\ i.who = None
Drifted(i)   == ~Malformed(i) /\ i.who # None /\ i.who \notin Fills[i.st]

(* What the classification of a snapshot makes the sweep do next.           *)
Classified(i) ==
  IF \/ Malformed(i) /\ i.old
     \/ Dormant(i) /\ Alone(Fills[i.st])
     \/ Drifted(i) /\ Pin[i.st] = None /\ Alone(Fills[i.st])
  THEN "guard" ELSE "idle"

RescueList ==
  /\ IsIdle(rescue) /\ issue.wf = "registered" /\ issue.st # Done
  /\ LET p == IF issue.st \in Early THEN "judge" ELSE Classified(issue)
     IN p # "idle" /\ rescue' = Seen(p)
  /\ UNCHANGED <<ticket, mirror, ladder, mail, hook, fill, boot, watch, native, quota>>

(* A ticket early in its workflow is first compared with the audit store.   *)
RescueJudge ==
  /\ rescue.pc = "judge"
  /\ rescue' =
       IF ledger \in {None, rescue.st}
       THEN IF Classified(rescue) = "idle" THEN Idle ELSE [rescue EXCEPT !.pc = "guard"]
       ELSE IF Alone(LedgerFills[ledger])
       THEN [pc |-> "move", wf |-> rescue.wf, to |-> ledger] ELSE Idle
  /\ UNCHANGED <<ticket, mirror, ladder, mail, hook, fill, boot, watch, native, quota>>

(* The labels are moved first; the live guard is read after that.           *)
RescueMove ==
  /\ rescue.pc = "move"
  /\ \/ /\ Put([issue EXCEPT !.wf = rescue.wf, !.st = rescue.to])
        /\ rescue' = [rescue EXCEPT !.pc = "moved"] /\ UNCHANGED quota
     \/ Spend /\ Keep /\ rescue' = Idle
  /\ UNCHANGED <<merged, ledger, mirror, ladder, hook, fill, boot, watch, native>>

SeatOn(S) == [pc |-> "seat", body |-> TheOne(S)]

(* liveSeatBlocked: the delegate is looked at first, so a closed ticket     *)
(* that has one is not "terminal", the only answer that stops the seat of a *)
(* moved or drifted ticket.                                                 *)
LiveSeat == IF issue.who # None THEN "delegated"
            ELSE IF issue.st = Done THEN "terminal" ELSE "free"

RescueMoved ==
  /\ rescue.pc = "moved"
  /\ \/ rescue' = (IF LiveSeat = "terminal" THEN Idle ELSE SeatOn(LedgerFills[rescue.to]))
        /\ UNCHANGED quota
     \/ Spend /\ rescue' = SeatOn(LedgerFills[rescue.to])
  /\ Keep
  /\ UNCHANGED <<merged, ledger, mirror, ladder, hook, fill, boot, watch, native>>

(* Mutant: any live delegate blocks the seat, the drifted one included.     *)
RescueGuardAnyDelegate ==
  /\ rescue.pc = "guard"
  /\ LET go == IF Malformed(rescue) THEN [rescue EXCEPT !.pc = "enlist"]
               ELSE SeatOn(Fills[rescue.st])
     IN \/ rescue' = (IF LiveSeat # "free" THEN Idle ELSE go) /\ UNCHANGED quota
        \/ Spend /\ rescue' = go
  /\ Keep
  /\ UNCHANGED <<merged, ledger, mirror, ladder, hook, fill, boot, watch, native>>

(* The read fails open; a delegate does not stop a drifted seat.            *)
RescueGuard ==
  /\ rescue.pc = "guard"
  /\ LET go == IF Malformed(rescue) THEN [rescue EXCEPT !.pc = "enlist"]
               ELSE SeatOn(Fills[rescue.st])
         blocked == IF Drifted(rescue) THEN LiveSeat = "terminal" ELSE LiveSeat # "free"
     IN \/ rescue' = (IF blocked THEN Idle ELSE go) /\ UNCHANGED quota
        \/ Spend /\ rescue' = go
  /\ Keep
  /\ UNCHANGED <<merged, ledger, mirror, ladder, hook, fill, boot, watch, native>>

RescueEnlist ==
  /\ rescue.pc = "enlist"
  /\ Mutate([issue EXCEPT !.wf = rescue.wf, !.st = Entry])
  /\ rescue' = IF Alone(Fills[Entry]) THEN SeatOn(Fills[Entry]) ELSE Idle
  /\ UNCHANGED <<merged, ledger, mirror, ladder, hook, fill, boot, watch, native>>

RescueSeat ==
  /\ rescue.pc = "seat" /\ rescue' = Idle
  /\ Mutate([issue EXCEPT !.who = rescue.body])
  /\ UNCHANGED <<merged, ledger, mirror, ladder, hook, fill, boot, watch, native>>

----------------------------------------------------------------------------
(* The first-action watchdog goes over the live rows of the mirror that an  *)
(* agent owns. Whether the owner acted before the deadline is left open.    *)

WatchList ==
  /\ IsIdle(watch) /\ mirror.st # None /\ mirror.owned
  /\ watch' = [pc |-> "check", row |-> mirror]
  /\ mirror' = [mirror EXCEPT !.fresh = FALSE]
  /\ UNCHANGED <<ticket, ladder, mail, hook, fill, boot, rescue, native, quota>>

Rungs == IF watch.row.fresh THEN 0 ELSE ladder

WatchInTime ==
  /\ watch.pc = "check" /\ watch' = Idle /\ ladder' = Rungs
  /\ UNCHANGED <<ticket, mirror, mail, hook, fill, boot, rescue, native, quota>>

(* classifyCrossCheckIssue                                                  *)
RowIsStale == \/ issue.nat \in Finished \/ issue.st = Done \/ issue.wf = None
              \/ issue.st \notin {None, watch.row.st}

WatchHeal ==
  /\ watch.pc = "check" /\ RowIsStale /\ watch' = Idle /\ ladder' = 0
  /\ mirror' = IF issue.nat \in Finished \/ issue.st = Done \/ issue.wf = None
               THEN Retired ELSE RecordTransition(issue.st, TRUE)
  /\ UNCHANGED <<ticket, mail, hook, fill, boot, rescue, native, quota>>

(* Mutant: the ladder has no last rung.                                     *)
WatchRungEndless ==
  /\ watch.pc = "check" /\ watch' = Idle
  /\ \/ ~RowIsStale /\ UNCHANGED quota
     \/ Spend
  /\ ladder' = Rungs + 1
  /\ UNCHANGED <<ticket, mirror, mail, hook, fill, boot, rescue, native>>

(* A rung, or the end of the ladder when they are used up or the wake's own *)
(* turn failed. The row was confirmed, or Linear did not answer.            *)
WatchRung ==
  /\ watch.pc = "check" /\ watch' = Idle
  /\ \/ ~RowIsStale /\ UNCHANGED quota
     \/ Spend
  /\ ladder' \in {IF Rungs >= MaxRungs THEN Unreachable ELSE Rungs + 1, Unreachable}
  /\ UNCHANGED <<ticket, mirror, mail, hook, fill, boot, rescue, native>>

----------------------------------------------------------------------------
(* The native-state reconciler believes the ladder.                         *)

(* Mutant: every rung counts as the end of the ladder.                      *)
NativeReadAnyRung ==
  /\ IsIdle(native) /\ ladder > 0 /\ issue.nat # "todo"
  /\ native' = [pc |-> "write", who |-> issue.who]
  /\ UNCHANGED <<ticket, mirror, ladder, mail, hook, fill, boot, rescue, watch, quota>>

NativeRead ==
  /\ IsIdle(native) /\ ladder = Unreachable /\ issue.nat # "todo"
  /\ native' = [pc |-> "write", who |-> issue.who]
  /\ UNCHANGED <<ticket, mirror, ladder, mail, hook, fill, boot, rescue, watch, quota>>

NativeWrite ==
  /\ native.pc = "write" /\ native' = Idle
  /\ Mutate([issue EXCEPT !.nat = "todo", !.who = native.who])
  /\ UNCHANGED <<merged, ledger, mirror, ladder, hook, fill, boot, rescue, watch>>

----------------------------------------------------------------------------
Environment ==
  \/ \E w \in Workflows : AddWorkflow(w)
  \/ DropWorkflow
  \/ \E s \in States : Advance(s)
  \/ \E b \in Bodies \cup {None} : Reseat(b)
  \/ \E n \in Natives : SetNative(n)
  \/ Merge
  \/ \E e \in mail : Lose(e)
  \/ Crash

Hook   == (\E e \in mail : Receive(e)) \/ HookRead \/ HookApply \/ HookDemote
Fill   == FillRead \/ FillApply
Boot   == \/ BootList \/ BootReadFails \/ BootEnrolRead \/ BootCloseRead \/ BootSealRead
          \/ BootSeatRead \/ BootWrite
Rescue == \/ RescueList \/ RescueJudge \/ RescueMove \/ RescueMoved
          \/ RescueGuard \/ RescueEnlist \/ RescueSeat
Watch  == WatchList \/ WatchInTime \/ WatchHeal \/ WatchRung
Native == NativeRead \/ NativeWrite
Sweeps == Hook \/ Fill \/ Boot \/ Rescue \/ Watch \/ Native

Rests == calm' = (quota' = quota /\ (calm \/ AtRest'))

Next == (Environment \/ Age \/ Sweeps) /\ Rests

(* Every cycle is an interval timer of its own, every webhook is handled,   *)
(* and time passes; people and agents need not do anything.                 *)
Fairness == /\ WF_work(Age) /\ WF_work(Hook) /\ WF_work(Fill)
            /\ WF_work(Boot) /\ WF_work(Rescue) /\ WF_work(Watch)
            /\ WF_work(Native)

Spec == Init /\ [][Next]_vars /\ Fairness

----------------------------------------------------------------------------
(* Properties *)

(* Whatever people, agents, lost webhooks, refused writes and crashes left, *)
(* the sweeps bring the ticket to rest once they stop: enrolled, closed     *)
(* when its label is terminal, owned by the role's body when it is not. The *)
(* one exception is a ladder left unreachable: once the ticket is done no   *)
(* sweep looks at it again, and NativeWrite reopens the ticket every time.  *)
Converges == <>[](ladder = Unreachable \/ Settled)

(* And there it stays.  The repairs do not fight: from a ticket at rest no  *)
(* order of their cycles, reading and writing when they like, brings one    *)
(* that is dark, half closed or without its owner, until somebody acts or   *)
(* something fails again.                                                   *)
RestHolds == calm => Settled

(* A ticket that carries the terminal label loses a delegate that raced the *)
(* close, or leaves the label, even while the ladder is stuck.              *)
StrayOwnerGoes ==
  issue.wf # None /\ issue.st = Done /\ issue.who # None
    ~> (issue.wf = None \/ issue.st # Done \/ issue.who = None)

(* An open ticket with a workflow label and no state is not left dark: it is *)
(* enrolled, refused, or somebody closes it, though the webhook is lost.    *)
NotLeftDark ==
  issue.wf # None /\ issue.st = None /\ issue.nat \notin Finished
    ~> (issue.wf = None \/ issue.st # None \/ issue.nat \in Finished)
=============================================================================
