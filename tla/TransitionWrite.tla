--------------------------- MODULE TransitionWrite ---------------------------
(***************************************************************************)
(* The write of a transition: issueUpdateAtomicVerified in                  *)
(* src/src/workflow-gate.ts.                                                *)
(*                                                                          *)
(* One mutation carries the state label, the delegate and the native state  *)
(* of the ticket.  It is retried until a read finds every facet landed;     *)
(* what Linear accepts may drop the delegate or the native state, its       *)
(* answer may be lost, the read may fail or lag behind.  When the attempts  *)
(* are used up the write is accepted if only the label seems missing, and   *)
(* else undone: the applied state is withdrawn and the ticket is put back   *)
(* to the snapshot taken before, or repaired at its destination.            *)
(***************************************************************************)
EXTENDS Integers, WriteContract

CONSTANTS
    Attempts,    \* transitionWritePolicy.maxAttempts
    Faults       \* what Linear may do to a call

ASSUME AttemptsAssumption == Attempts \in Nat \ {0}
ASSUME FaultsAssumption == Faults \subseteq {"drop", "reject", "lost", "unreadable", "lag"}

VARIABLES
    written,   \* facets the mutation carries (constant)
    strict,    \* a read-back is required, the label must be seen (constant)
    snapshot,  \* the caller passed a snapshot to roll back to (constant)
    issue,     \* the ticket in Linear: where each facet stands
    old,       \* what a lagging read returns
    applied,   \* the ticket's entry in the applied-state store
    pc, attempt, kind, divergent,
    answer,    \* what the caller is told
    kept       \* history: the rollback was accepted and lost no facet

vars == <<written, strict, snapshot, issue, old, applied, pc, attempt, kind, divergent, answer, kept>>
options == <<written, strict, snapshot>>
ticket == <<issue, old>>

Facets == {"label", "delegate", "native"}
Places == {"from", "to"}
Untouched == [f \in Facets |-> "from"]

TypeOK ==
    /\ written \in SUBSET Facets /\ "label" \in written
    /\ strict \in BOOLEAN /\ snapshot \in BOOLEAN
    /\ issue \in [Facets -> Places] /\ old \in [Facets -> Places]
    /\ applied \in {"none"} \cup Places
    /\ pc \in {"mutate", "verify", "decide", "rollback", "repair", "done"}
    /\ attempt \in 1..Attempts
    /\ kind \in {"mutation", "verification"}
    /\ divergent \in SUBSET (Facets \cup {"unreadable"})
    /\ answer \in {"open", "ok", "unverified", "lagged", "failed", "lost"}
    /\ kept \in BOOLEAN

Init ==
    /\ written \in {w \in SUBSET Facets : "label" \in w}
    /\ strict \in BOOLEAN /\ snapshot \in BOOLEAN
    /\ issue = Untouched /\ old = issue
    /\ applied \in {"none", "from"}
    /\ pc = "mutate" /\ attempt = 1 /\ kind = "mutation" /\ divergent = {}
    /\ answer = "open" /\ kept = FALSE

-----------------------------------------------------------------------------
(* Calls to Linear *)

\* The ticket once a mutation of the facets fs put them at a place: a mutation
\* that is accepted may drop the delegate or the native state.
Outcomes(fs, place) ==
    {[f \in Facets |-> IF f \in fs \ lost THEN place ELSE issue[f]] :
        lost \in IF "drop" \in Faults THEN SUBSET (fs \ {"label"}) ELSE {{}}}

Lands(fs, place) ==
    /\ issue' \in Outcomes(fs, place)
    /\ old' = IF "lag" \in Faults THEN issue ELSE issue'

\* issueUpdateAtomic answers false: the mutation was rejected, or it landed and
\* its answer was lost.
Refused(fs, place) ==
    \/ "reject" \in Faults /\ UNCHANGED ticket
    \/ "lost" \in Faults /\ Lands(fs, place)

Reads == {issue, old}

-----------------------------------------------------------------------------
(* Attempts *)

\* Mutant: the attempts are not counted.
AgainForever == pc' = "mutate" /\ UNCHANGED attempt

\* Mutant: one attempt too many.
AgainOnce == pc' = "mutate" /\ attempt' = attempt + 1

\* The next attempt, or the end of them.
Again ==
    \/ attempt < Attempts /\ pc' = "mutate" /\ attempt' = attempt + 1
    \/ attempt = Attempts /\ pc' = "decide" /\ UNCHANGED attempt

\* One mutation.  The applied state is recorded before the read-back.
Mutate ==
    /\ pc = "mutate"
    /\ \/ /\ Lands(written, "to")
          /\ applied' = "to"
          /\ pc' = "verify" /\ UNCHANGED <<attempt, kind, divergent>>
       \/ /\ Refused(written, "to")
          /\ Again
          /\ kind' = "mutation" /\ divergent' = {}
          /\ UNCHANGED applied
    /\ UNCHANGED <<options, answer, kept>>

\* verifyTransitionWritePersisted: the facets a read finds elsewhere.
Divergent(read) == {f \in written : read[f] # "to"}

\* Mutant: an unreadable answer accepts the write whoever asks.
VerifyLenient ==
    /\ pc = "verify"
    /\ pc' = "done" /\ answer' = "unverified"
    /\ UNCHANGED <<options, ticket, applied, attempt, kind, divergent, kept>>

\* An unreadable answer accepts the write, unless the caller must see it.
Verify ==
    /\ pc = "verify"
    /\ \/ /\ "unreadable" \in Faults /\ ~ strict
          /\ pc' = "done" /\ answer' = "unverified"
          /\ UNCHANGED <<attempt, kind, divergent>>
       \/ /\ "unreadable" \in Faults /\ strict
          /\ Again
          /\ kind' = "verification" /\ divergent' = {"unreadable"}
          /\ UNCHANGED answer
       \/ \E read \in Reads :
            IF Divergent(read) = {}
            THEN /\ pc' = "done" /\ answer' = "ok"
                 /\ UNCHANGED <<attempt, kind, divergent>>
            ELSE /\ Again
                 /\ kind' = "verification" /\ divergent' = Divergent(read)
                 /\ UNCHANGED answer
    /\ UNCHANGED <<options, ticket, applied, kept>>

-----------------------------------------------------------------------------
(* When the attempts are used up *)

\* Mutant: any divergence that includes the label is taken for a lag.
LabelLagIncluded == ~ strict /\ kind = "verification" /\ "label" \in divergent

\* Only the label seems missing: the mutation was accepted, so the read lags.
LabelLag == ~ strict /\ kind = "verification" /\ divergent = {"label"}

\* Mutant: the applied state is withdrawn after the rollback, not before it.
WithdrawLate ==
    /\ pc = "decide" /\ ~ LabelLag
    /\ IF kind = "verification" /\ snapshot
       THEN pc' = "rollback" /\ UNCHANGED <<applied, answer>>
       ELSE pc' = "done" /\ answer' = "failed" /\ applied' = "none"
    /\ UNCHANGED <<options, ticket, attempt, kind, divergent, kept>>

\* The applied state is withdrawn; what was verified and found wanting is put
\* back, what was never accepted is left.
Withdraw ==
    /\ pc = "decide" /\ ~ LabelLag
    /\ applied' = "none"
    /\ IF kind = "verification" /\ snapshot
       THEN pc' = "rollback" /\ UNCHANGED answer
       ELSE pc' = "done" /\ answer' = "failed"
    /\ UNCHANGED <<options, ticket, attempt, kind, divergent, kept>>

Accept ==
    /\ pc = "decide" /\ LabelLag
    /\ pc' = "done" /\ answer' = "lagged"
    /\ UNCHANGED <<options, ticket, applied, attempt, kind, divergent, kept>>

\* Mutant: only the label is put back.
RollbackLabel ==
    /\ pc = "rollback"
    /\ Lands({"label"}, "from")
    /\ kept' = (\A f \in {"label"} : issue'[f] = "from")
    /\ pc' = "done" /\ answer' = "failed"
    /\ UNCHANGED <<options, applied, attempt, kind, divergent>>

\* The snapshot is written back: all three facets, once.  The read-back that
\* follows changes nothing.  A delegate that was written as null is not repaired.
Rollback ==
    /\ pc = "rollback"
    /\ \/ /\ Lands(Facets, "from")
          /\ kept' = (\A f \in Facets : issue[f] # issue'[f] \/ issue'[f] = "from")
          /\ pc' = "done" /\ answer' = "failed"
       \/ /\ Refused(Facets, "from")
          /\ \/ "delegate" \in written /\ pc' = "repair" /\ UNCHANGED answer
             \/ pc' = "done" /\ answer' = "failed"
          /\ UNCHANGED kept
    /\ UNCHANGED <<options, applied, attempt, kind, divergent>>

\* INF-1260 AC8: a refused rollback; the write is repeated at the destination,
\* and still fails.
Repair ==
    /\ pc = "repair"
    /\ Lands(written, "to") \/ Refused(written, "to")
    /\ pc' = "done" /\ answer' = "failed"
    /\ UNCHANGED <<options, applied, attempt, kind, divergent, kept>>

CatchUp ==
    /\ old # issue
    /\ old' = issue
    /\ UNCHANGED <<options, issue, applied, pc, attempt, kind, divergent, answer, kept>>

\* A restart: the attempts and the applied-state store are gone.
Crash ==
    /\ pc # "done"
    /\ pc' = "done" /\ answer' = "lost" /\ applied' = "none"
    /\ UNCHANGED <<options, ticket, attempt, kind, divergent, kept>>

Step == Mutate \/ Verify \/ Accept \/ Withdraw \/ Rollback \/ Repair

Next == Step \/ CatchUp \/ Crash

Spec == Init /\ [][Next]_vars

\* An await in the connector returns.
FairSpec == Spec /\ WF_vars(Step)

-----------------------------------------------------------------------------
(* Properties *)

At(place) == \A f \in written : issue[f] = place

\* A transition that was read back and confirmed, or accepted because only its
\* label lagged, stands whole at its destination: no facet it wrote is missing,
\* over however many attempts and whatever the reads of earlier ones returned.
ConfirmedIsWhole == answer \in {"ok", "lagged"} => At("to")

\* A transition that failed its verification and whose rollback was accepted
\* whole stands where it began.
RolledBackIsWhole == answer = "failed" /\ kept => issue = Untouched

\* The ticket as the callers of the write see it: before it, now, and as wanted.
Before == [st |-> "from", who |-> "from"]
Now    == [st |-> issue["label"], who |-> issue["delegate"]]
Wanted == [st |-> "to", who |-> IF "delegate" \in written THEN "to" ELSE "from"]

\* The results a caller may get: only a caller that asked for a read-back is never
\* told that the write is unverified, only one that brought a snapshot is rolled back.
Possible ==
    WriteResults \ ((IF strict THEN {"unverified"} ELSE {})
                     \cup (IF snapshot THEN {} ELSE {"rolledBack"}))

\* What a caller is told, by result.
Tells(result) ==
    CASE result = "ok"         -> {"ok", "lagged"}
      [] result = "unverified" -> {"unverified"}
      [] OTHER                 -> {"failed"}

\* Whatever Linear dropped, refused, lost or showed late, a write that was answered
\* is one of the results its callers reckon with: the ticket is left as that result
\* says, the caller is told so, and the destination is on record if and only if the
\* write was accepted.
OutcomeKnown ==
    pc = "done" /\ answer # "lost" =>
        \E result \in Possible :
            /\ Now \in Leaves(result, Wanted, Before, Before)
            /\ answer \in Tells(result)
            /\ applied = "to" <=> result \in Accepted

\* The steps the write may still take, an attempt being a mutation and a read.
Fuel ==
    CASE pc = "mutate"   -> 2 * (Attempts - attempt) + 5
      [] pc = "verify"   -> 2 * (Attempts - attempt) + 4
      [] pc = "decide"   -> 3
      [] pc = "rollback" -> 2
      [] pc = "repair"   -> 1
      [] pc = "done"     -> 0

\* Every step of the write brings it closer to its answer, whatever Linear does to
\* its calls: retries, rollback and repair do not feed one another, and no more
\* than 2 * Attempts + 3 steps, of which Attempts + 2 are mutations, are taken.
WriteProgresses == [][Step => Fuel' < Fuel]_vars

\* Every write is answered.
Answered == <>(pc = "done")

\* The write keeps the promise the readers of the applied-state store rely on.
Record == INSTANCE AppliedRecord WITH
            label <- issue["label"],
            answer <- IF answer \in {"unverified", "lagged"} THEN "ok" ELSE answer

RecordSpec == Record!Spec

=============================================================================
