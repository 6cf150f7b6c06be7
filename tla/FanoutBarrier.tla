--------------------------- MODULE FanoutBarrier ---------------------------
(***************************************************************************)
(* The fan-out of a parent ticket and the barrier that waits for it         *)
(* (src/src/fanout.ts, barrier.ts, fanout-outcome-store.ts and the part of  *)
(* applyStateTransition in workflow-gate.ts that calls them).               *)
(*                                                                          *)
(* A parent stands in the fan-out state "spawning".  Its forward command    *)
(* mints one child for each entry of the spec that has none yet, writes the *)
(* barrier state "managing", records the outcome of the fan-out in a store  *)
(* that a restart reloads from disk, and evaluates the barrier once.  Later *)
(* evaluations come from the webhook of a terminal child, from the poller   *)
(* of managing tickets and from a manual continue.  A satisfied barrier     *)
(* writes "review".  Every evaluation is a chain of calls to Linear, so     *)
(* commands, evaluations, the children and a steward's rewind interleave;   *)
(* a read of the parent may return the label before the last write.         *)
(*                                                                          *)
(* The outcome is stored under the id the request carried: the identifier   *)
(* ("AI-12") or the issue's UUID.  The evaluations of a terminal child and  *)
(* of the poller look it up under the identifier.                           *)
(***************************************************************************)
EXTENDS Integers, FiniteSets

CONSTANTS
    Entries,      \* entries of the fan-out spec (content-addressed ids)
    Ids,          \* pool of child tickets
    Jobs,         \* concurrent evaluations outside a command on the parent
    Keys,         \* forms in which a command names the parent
    EscapeColumn, \* native column of an escaped child: the registered workflows
                  \* name "invalid", a team may have one named "escape"
    Verdicts,     \* what a fan-out with entries to spawn comes to before it mints
    MaxCycles,    \* bound: fan-outs written by one behaviour
    MaxCrashes    \* bound: restarts of the connector

ASSUME KeysAssumption == Keys \subseteq {"identifier", "uuid"}
ASSUME VerdictsAssumption ==
    Verdicts \subseteq {"mint", "refused", "pending-approval", "waived"}
ASSUME ColumnAssumption == EscapeColumn \in {"invalid", "escape"}
ASSUME IdsAssumption == IsFiniteSet(Ids)
ASSUME BoundsAssumption == MaxCycles \in Nat /\ MaxCrashes \in Nat
ASSUME NamesAssumption == Jobs \cap {"identifier", "uuid", "unread", "read"} = {}

VARIABLES
    label,    \* state label of the parent in Linear
    lag,      \* the label a read that lags behind may still return
    applied,  \* applied-state store, keyed by the identifier
    spec,     \* entries of the spec in the parent's description
    child,    \* the children in Linear
    mem,      \* outcome store: the map in memory
    disk,     \* outcome store: the file
    loader,   \* who reads the file into the map, or "unread", or "read"
    proc,     \* commands on the parent (by key: the ticket lock) and jobs
    crashes,
    fan       \* history: number, children and outcome of the last fan-out written

vars == <<label, lag, applied, spec, child, mem, disk, loader, proc, crashes, fan>>

Labels == {"spawning", "managing", "review"}
Outcomes == {"waived", "awaiting", "refused", "pending-approval", "failed"}
Held == {"refused", "pending-approval", "failed"}
Procs == Keys \cup Jobs
NoRecord == [out |-> "absent", kids |-> {}, cycle |-> 0]
Records == [out : Outcomes \cup {"absent"}, kids : SUBSET Ids, cycle : 0..MaxCycles]
Statuses == {"absent", "active", "done", "escaped"}

Idle == [pc |-> "idle"]
Minted == 0..Cardinality(Ids)
Minting == [pc : {"mint"}, todo : SUBSET Entries, kids : SUBSET Ids, made : Minted,
            errors : BOOLEAN, blind : BOOLEAN]
Writing == [pc : {"write"}, out : Outcomes, kids : SUBSET Ids, made : Minted]
Recording == [pc : {"record"}, out : Outcomes, kids : SUBSET Ids, made : Minted,
              cycle : 1..MaxCycles]
Attempting == [pc : {"attempt"}, kind : {"entry", "child", "poll", "continue"},
               filter : SUBSET Ids]
Judging == [pc : {"labels", "release", "continue"}, seen : 0..MaxCycles, at : 0..MaxCycles]
States == {Idle} \cup Minting \cup Writing \cup Recording \cup [pc : {"entry"}]
          \cup Attempting \cup Judging

TypeOK ==
    /\ label \in Labels /\ lag \in Labels
    /\ applied \in Labels \cup {"none"}
    /\ spec \in SUBSET Entries
    /\ child \in [Ids -> [entry : Entries \cup {"none"}, status : Statuses, blind : BOOLEAN]]
    /\ mem \in [{"identifier", "uuid"} -> Records]
    /\ disk \in [{"identifier", "uuid"} -> Records]
    /\ loader \in Procs \cup {"unread", "read"}
    /\ proc \in [Procs -> States]
    /\ crashes \in 0..MaxCrashes
    /\ fan \in Records

Init ==
    /\ label = "spawning" /\ lag = "spawning" /\ applied = "none"
    /\ spec \in (SUBSET Entries) \ {{}}
    /\ child = [c \in Ids |-> [entry |-> "none", status |-> "absent", blind |-> FALSE]]
    /\ mem = [k \in {"identifier", "uuid"} |-> NoRecord]
    /\ disk = mem
    /\ loader = "read"
    /\ proc = [p \in Procs |-> Idle]
    /\ crashes = 0
    /\ fan = NoRecord

-----------------------------------------------------------------------------
(* Children and reads *)

Present == {c \in Ids : child[c].status # "absent"}

\* The ticket Linear creates next; which one it is makes no difference.
NextId == CHOOSE c \in Ids \ Present : TRUE

\* Mutant: escaped children do not count as finished.
IsTerminalDoneOnly(c) == child[c].status = "done"

\* A child counts as finished by its native state or by its label.  A child whose
\* state label was lost (isOrphaned) holds the barrier like one that is active.
IsTerminal(c) == child[c].status \in {"done", "escaped"}

\* Mutant: one finished child is enough.
AllTerminalAny(filter) ==
    LET kids == IF filter = {} THEN Present ELSE Present \cap filter
    IN  kids = {} \/ \E c \in kids : IsTerminal(c)

\* evaluateBarrier: an empty filter is no filter, a filter nobody matches
\* never passes, and no children at all pass.
AllTerminal(filter) ==
    LET kids == IF filter = {} THEN Present ELSE Present \cap filter
    IN  /\ filter # {} => kids # {}
        /\ \A c \in kids : IsTerminal(c)

\* A read of the parent's labels, before or after Linear has caught up.
ReadLabels == {label, lag}

\* The state a reader that consults the applied-state store believes in.
Believed(read) == IF applied # "none" THEN applied ELSE read

\* Name of the native column of a child, which the read of the existing children
\* takes for its workflow state.
NativeName(c) == CASE child[c].status = "done" -> "done"
                   [] child[c].status = "escaped" -> EscapeColumn
                   [] OTHER -> "todo"

\* An escaped child fills no slot: its entry is minted again.
IsEscapedSpawnChild(c) == NativeName(c) = "escape"

\* dedupeSpawnSpec: entries without a child that fills their slot, and the
\* children that fill one.
Matched(existing) == {c \in existing : child[c].entry \in spec /\ ~ IsEscapedSpawnChild(c)}

\* Mutant: the entries that have a child already are minted again.
ToSpawnEverything(existing) == spec

ToSpawn(existing) == {e \in spec : \A c \in Matched(existing) : child[c].entry # e}

\* deriveFanoutBarrierOutcome once minting is over.
DeriveOutcome(made, errors, kids) ==
    IF made = 0 /\ errors THEN "failed"
    ELSE IF kids # {} THEN "awaiting" ELSE "waived"

Goto(p, s) == proc' = [proc EXCEPT ![p] = s]

-----------------------------------------------------------------------------
(* The outcome store *)

\* ensureLoaded marks the store as loaded before it reads the file: the first
\* to consult it waits, whoever comes meanwhile goes on with an empty map.
Consults(p) == loader \notin {"unread", p}

BeginLoad(p) ==
    /\ loader = "unread"
    /\ \/ proc[p].pc \in {"record", "entry"}
       \/ proc[p].pc = "attempt" /\ proc[p].filter = {}
    /\ loader' = p
    /\ UNCHANGED <<label, lag, applied, spec, child, mem, disk, proc, crashes, fan>>

EndLoad ==
    /\ loader \in Procs
    /\ mem' = [k \in DOMAIN mem |-> IF disk[k] # NoRecord THEN disk[k] ELSE mem[k]]
    /\ loader' = "read"
    /\ UNCHANGED <<label, lag, applied, spec, child, disk, proc, crashes, fan>>

-----------------------------------------------------------------------------
(* The forward command on the fan-out state *)

ToWrite(out, kids, made) == [pc |-> "write", out |-> out, kids |-> kids, made |-> made]

\* The children a fan-out believes exist: a failed read is an empty list.
ExistingChildren == {Present, {}}

\* Mutant: a fan-out that mints nothing has no outcome.
StoppedMute(v, kids) == ToWrite("absent", kids, 0)

\* The fan-out that mints nothing but lets the command write: a cap or a missing
\* label refuses it, its preview waits for an approval, or its predicate waives
\* it.  (A predicate or a preview that fails ends the command.)
Stopped(v, kids) == ToWrite(v, IF v = "waived" THEN {} ELSE kids, 0)

\* The command is admitted by the lock of its key and by the state it sees.
Admitted(k, s) == proc[k] = Idle /\ s \in ReadLabels /\ Believed(s) = s

\* A failed read of the parent stops the fan-out before it attempts anything;
\* otherwise the entries are compared with the children.
BeginFanout(k) ==
    /\ Admitted(k, "spawning")
    /\ fan.cycle < MaxCycles
    /\ \/ Goto(k, ToWrite("failed", {}, 0))
       \/ \E existing \in ExistingChildren :
            LET kids == Matched(existing)
                todo == ToSpawn(existing)
            IN  \/ todo = {} /\ Goto(k, ToWrite("awaiting", kids, 0))
                \/ /\ todo # {} /\ "mint" \in Verdicts
                   /\ Goto(k, [pc |-> "mint", todo |-> todo, kids |-> kids, made |-> 0,
                               errors |-> FALSE, blind |-> existing # Present])
                \/ /\ todo # {}
                   /\ \E v \in Verdicts \ {"mint"} : Goto(k, Stopped(v, kids))
    /\ UNCHANGED <<label, lag, applied, spec, child, mem, disk, loader, crashes, fan>>

\* What follows the attempt at the entry e: the next entry, or the outcome is
\* derived; a fan-out that attempted children and made none fails the command.
AfterEntry(f, e, made, errors, kids) ==
    IF f.todo # {e}
    THEN [f EXCEPT !.todo = @ \ {e}, !.made = made, !.errors = errors, !.kids = kids]
    ELSE IF made = 0 THEN Idle
    ELSE ToWrite(DeriveOutcome(made, errors, kids), kids, made)

\* One issueCreate.
Mint(k) ==
    /\ proc[k].pc = "mint"
    /\ \E e \in proc[k].todo :
        LET f == proc[k]
        IN  \/ /\ Present # Ids
               /\ child' = [child EXCEPT ![NextId] =
                              [entry |-> e, status |-> "active", blind |-> f.blind]]
               /\ Goto(k, AfterEntry(f, e, f.made + 1, f.errors, f.kids \cup {NextId}))
            \/ /\ Goto(k, AfterEntry(f, e, f.made, TRUE, f.kids))
               /\ UNCHANGED child
    /\ UNCHANGED <<label, lag, applied, spec, mem, disk, loader, crashes, fan>>

\* issueUpdateAtomicVerified: the write is accepted and verified (or its
\* verification cannot be read); it is rejected; it is accepted, does not
\* verify and is rolled back; or the rollback is lost too.
VerifiedWrite(from, to, result) ==
    /\ label' = CASE result \in {"ok", "torn"} -> to
                  [] result = "rolledBack" -> from
                  [] OTHER -> label
    /\ lag' \in CASE result = "rejected" -> {lag}
                  [] result = "rolledBack" -> {label, to}
                  [] OTHER -> {label}
    /\ applied' = IF result = "ok" THEN to ELSE "none"

WriteResults == {"ok", "rejected", "rolledBack", "torn"}

\* The parent enters the barrier state.
WriteManaging(k) ==
    /\ proc[k].pc = "write"
    /\ fan.cycle < MaxCycles
    /\ \E result \in WriteResults :
        /\ VerifiedWrite("spawning", "managing", result)
        /\ Goto(k, IF result = "ok"
                   THEN [pc |-> "record", out |-> proc[k].out, kids |-> proc[k].kids,
                         made |-> proc[k].made, cycle |-> fan.cycle + 1]
                   ELSE Idle)
        /\ fan' = IF result \in {"ok", "torn"}
                  THEN [out |-> proc[k].out, kids |-> proc[k].kids, cycle |-> fan.cycle + 1]
                  ELSE fan
    /\ UNCHANGED <<spec, child, mem, disk, loader, crashes>>

\* recordFanoutOutcome, under the id the request carried: the map first, then
\* the file, which may fail; then the barrier is not evaluated.  Children whose
\* dispatch cannot be verified turn the outcome into "failed".
RecordOutcome(k) ==
    /\ proc[k].pc = "record" /\ Consults(k)
    /\ \E out \in {proc[k].out} \cup (IF proc[k].made > 0 THEN {"failed"} ELSE {}), saved \in BOOLEAN :
        LET rec == [out |-> out, cycle |-> proc[k].cycle,
                    kids |-> IF out = "awaiting" THEN proc[k].kids ELSE {}]
        IN  /\ mem' = [mem EXCEPT ![k] = rec]
            /\ disk' = IF saved THEN mem' ELSE disk
            /\ fan' = IF proc[k].cycle = fan.cycle THEN [fan EXCEPT !.out = out] ELSE fan
            /\ Goto(k, IF saved THEN [pc |-> "entry"] ELSE Idle)
    /\ UNCHANGED <<label, lag, applied, spec, child, loader, crashes>>

-----------------------------------------------------------------------------
(* Evaluations of the barrier *)

KeyOf(p) == IF p \in Keys THEN p ELSE "identifier"

\* onManagingEntry: a held outcome ends it; an awaited set is passed on.  The
\* applied state is found only by a command that named the identifier.
EvaluateEntry(k) ==
    /\ proc[k].pc = "entry" /\ Consults(k)
    /\ \E read \in ReadLabels :
        LET cur == IF k = "identifier" THEN Believed(read) ELSE read
        IN  Goto(k, IF mem[k].out \in Held \/ cur # "managing" THEN Idle
                    ELSE [pc |-> "attempt", kind |-> "entry", filter |-> mem[k].kids])
    /\ UNCHANGED <<label, lag, applied, spec, child, mem, disk, loader, crashes, fan>>

\* onChildTerminal: the webhook of a terminal child, however late.
StartChild(j) ==
    /\ proc[j] = Idle
    /\ \E c \in Ids : IsTerminal(c)
    /\ \E read \in ReadLabels : Believed(read) = "managing"
    /\ Goto(j, [pc |-> "attempt", kind |-> "child", filter |-> {}])
    /\ UNCHANGED <<label, lag, applied, spec, child, mem, disk, loader, crashes, fan>>

\* The poller goes on when the children, unfiltered, are all terminal.
StartPoll(j) ==
    /\ proc[j] = Idle
    /\ "managing" \in ReadLabels
    /\ AllTerminal({})
    /\ Goto(j, [pc |-> "attempt", kind |-> "poll", filter |-> {}])
    /\ UNCHANGED <<label, lag, applied, spec, child, mem, disk, loader, crashes, fan>>

\* A manual continue on the barrier state, admitted like any other command.
StartContinue(k) ==
    /\ Admitted(k, "managing")
    /\ Goto(k, [pc |-> "attempt", kind |-> "continue", filter |-> {}])
    /\ UNCHANGED <<label, lag, applied, spec, child, mem, disk, loader, crashes, fan>>

\* The outcome that decides an attempt: the set passed on by the entry, else
\* what the store holds under the attempt's key now.
DecidingRecord(p) ==
    IF proc[p].filter # {} THEN [NoRecord EXCEPT !.out = "awaiting", !.kids = proc[p].filter,
                                                 !.cycle = mem[KeyOf(p)].cycle]
    ELSE IF proc[p].kind = "continue" THEN mem["identifier"]
    ELSE mem[KeyOf(p)]

\* Mutant: the recorded outcome is not consulted.
SatisfiedByChildren(p) ==
    /\ proc[p].kind = "continue" => Present # {}
    /\ proc[p].kind = "poll" => "managing" \in ReadLabels
    /\ AllTerminal(DecidingRecord(p).kids)

Satisfied(p) ==
    LET rec == DecidingRecord(p)
    IN  /\ rec.out \notin Held
        /\ proc[p].kind = "continue" => mem[p].out \notin Held /\ AllTerminal(mem[p].kids)
        /\ proc[p].kind = "continue" => Present # {}
        /\ proc[p].kind = "poll" => "managing" \in ReadLabels
        /\ AllTerminal(rec.kids)

\* attemptBarrierTransition up to the evaluation, and the gate of a manual
\* continue.  A failed read ends the attempt.
Attempt(p) ==
    /\ proc[p].pc = "attempt"
    /\ proc[p].filter = {} => Consults(p)
    /\ \/ /\ Satisfied(p)
          /\ Goto(p, [pc |-> IF proc[p].kind = "continue" THEN "continue" ELSE "labels",
                      seen |-> DecidingRecord(p).cycle, at |-> fan.cycle])
       \/ Goto(p, Idle)
    /\ UNCHANGED <<label, lag, applied, spec, child, mem, disk, loader, crashes, fan>>

\* fetchParentWithLabelIds: the barrier state must still be on the parent.
CheckLabels(p) ==
    /\ proc[p].pc = "labels"
    /\ \/ "managing" \in ReadLabels /\ Goto(p, [proc[p] EXCEPT !.pc = "release"])
       \/ Goto(p, Idle)
    /\ UNCHANGED <<label, lag, applied, spec, child, mem, disk, loader, crashes, fan>>

\* The write of the barrier: one unverified mutation of the whole label set.
\* After the transition of a command's own entry the applied state is dropped.
Release(p) ==
    /\ proc[p].pc = "release"
    /\ \/ /\ label' = "review" /\ lag' = label
          /\ applied' = IF p \in Keys THEN "none" ELSE applied
       \/ UNCHANGED <<label, lag, applied>>
    /\ Goto(p, Idle)
    /\ UNCHANGED <<spec, child, mem, disk, loader, crashes, fan>>

\* A manual continue writes like any other command.
WriteReview(k) ==
    /\ proc[k].pc = "continue"
    /\ \E result \in WriteResults : VerifiedWrite("managing", "review", result)
    /\ Goto(k, Idle)
    /\ UNCHANGED <<spec, child, mem, disk, loader, crashes, fan>>

-----------------------------------------------------------------------------
(* The environment *)

\* A child is finished or escaped.
ChildMoves(c) ==
    /\ child[c].status = "active"
    /\ \E s \in {"done", "escaped"} : child' = [child EXCEPT ![c].status = s]
    /\ UNCHANGED <<label, lag, applied, spec, mem, disk, loader, proc, crashes, fan>>

\* A steward's rewind, after the spec was edited: a verified write that no
\* ticket lock orders with the evaluations of the barrier.
Rewind ==
    /\ label \in {"managing", "review"}
    /\ fan.cycle < MaxCycles
    /\ \A k \in Keys : proc[k] = Idle
    /\ spec' \in (SUBSET Entries) \ {{}}
    /\ \E result \in {"ok", "torn"} : VerifiedWrite(label, "spawning", result)
    /\ UNCHANGED <<child, mem, disk, loader, proc, crashes, fan>>

\* Linear's reads catch up, and an entry of the applied-state store expires.
CatchUp ==
    /\ lag # label
    /\ lag' = label
    /\ UNCHANGED <<label, applied, spec, child, mem, disk, loader, proc, crashes, fan>>

ExpireApplied ==
    /\ applied # "none"
    /\ applied' = "none"
    /\ UNCHANGED <<label, lag, spec, child, mem, disk, loader, proc, crashes, fan>>

\* A restart drops every command, evaluation and applied state and the map of
\* the outcome store; a file that was being written cannot be read back.
Crash ==
    /\ crashes < MaxCrashes
    /\ crashes' = crashes + 1
    /\ proc' = [p \in Procs |-> Idle]
    /\ applied' = "none"
    /\ mem' = [k \in DOMAIN mem |-> NoRecord]
    /\ disk' \in {disk} \cup (IF \E k \in Keys : proc[k].pc = "record" THEN {mem'} ELSE {})
    /\ loader' = "unread"
    /\ UNCHANGED <<label, lag, spec, child, fan>>

Next ==
    \/ \E k \in Keys : \/ BeginFanout(k) \/ Mint(k) \/ WriteManaging(k) \/ RecordOutcome(k)
                       \/ EvaluateEntry(k) \/ StartContinue(k) \/ WriteReview(k)
    \/ \E j \in Jobs : StartChild(j) \/ StartPoll(j)
    \/ \E p \in Procs : BeginLoad(p) \/ Attempt(p) \/ CheckLabels(p) \/ Release(p)
    \/ \E c \in Ids : ChildMoves(c)
    \/ EndLoad \/ Rewind \/ CatchUp \/ ExpireApplied \/ Crash

Spec == Init /\ [][Next]_vars

\* Evaluations and a load of the store go on, and the poller, an interval timer,
\* starts one when none is running; nothing is asked of the commands.  Linear's
\* calls fail, though not every time they are tried.
FairSpec ==
    /\ Spec
    /\ WF_vars(EndLoad)
    /\ \A j \in Jobs : /\ WF_vars(\/ StartPoll(j) \/ BeginLoad(j)
                                  \/ Attempt(j) \/ CheckLabels(j) \/ Release(j))
                       /\ SF_vars(Attempt(j) /\ proc[j]'.pc # "idle")
                       /\ SF_vars(CheckLabels(j) /\ proc[j]'.pc # "idle")
                       /\ SF_vars(Release(j) /\ label' = "review")

-----------------------------------------------------------------------------
(* Properties *)

\* The evaluation that makes this step read the record of the last fan-out and
\* no other fan-out was written after it.
UpToDate(p) == proc[p].at = fan.cycle /\ proc[p].seen = fan.cycle

\* The evaluation that makes this step found nothing recorded.
Unrecorded(p) == proc[p].at = fan.cycle /\ proc[p].seen = 0

Releases(p) == proc[p].pc \in {"release", "continue"} /\ proc'[p] = Idle
ParentReleased == label = "managing" /\ label' = "review"

\* The barrier advances its parent only when every child the last fan-out waits
\* for has finished, whoever evaluates it and whatever ran since it read the
\* children; and an evaluation that found no record waits for all of them.
\* What remains is an evaluation that another fan-out overtook, or that read
\* the record of an earlier one (see README).
AwaitedChildrenDone ==
    [][ParentReleased =>
         \E p \in Procs : /\ Releases(p)
                          /\ UpToDate(p) \/ Unrecorded(p) => \A c \in fan.kids : IsTerminal(c)]_vars

\* A fan-out that was refused, waits for an approval or failed holds its parent
\* in the barrier state: no evaluation that knows its record advances it.
HeldParentStays ==
    [][ParentReleased =>
         \E p \in Procs : Releases(p) /\ (UpToDate(p) => fan.out \notin Held)]_vars

\* Retries, rewinds and restarts between two creations never give an entry of
\* the spec a second child while it has one that fills its slot.  Only a child
\* seen as escaped is replaced (dedupeSpawnSpec), and a read of the existing
\* children that failed sees none (fetchExistingSpawnChildren then answers with
\* an empty list).
NoDoubleMint ==
    \A c, d \in Present :
        /\ c # d /\ child[c].entry = child[d].entry
        /\ ~ IsEscapedSpawnChild(c) /\ ~ IsEscapedSpawnChild(d)
        => child[c].blind \/ child[d].blind

\* A parent whose children are all finished and whose recorded fan-out is not
\* held does not stay in the barrier state, whichever evaluation was lost.
BarrierNeverSticks ==
    []<>~ (/\ label = "managing" /\ Present # {}
           /\ \A c \in Present : child[c].status \in {"done", "escaped"}
           /\ mem["identifier"].out \notin Held)

=============================================================================
