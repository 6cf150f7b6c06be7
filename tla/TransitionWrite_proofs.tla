----------------------- MODULE TransitionWrite_proofs -----------------------
(***************************************************************************)
(* Proofs about TransitionWrite for every number of attempts and every set  *)
(* of faults.  The inductive invariant says what an attempt knows: before   *)
(* the rollback facets only move to the destination, so what a read found   *)
(* landed is landed (Forward), and what the last verification did not find  *)
(* missing is there (Read); what the applied-state store names follows from *)
(* the place in the protocol (Told).                                        *)
(***************************************************************************)
EXTENDS TransitionWrite, TLAPS

Forward ==
    pc \in {"mutate", "verify", "decide"} => \A f \in Facets : old[f] = "to" => issue[f] = "to"

Read ==
    pc \in {"mutate", "decide"} /\ kind = "verification" =>
        /\ issue["label"] = "to"
        /\ "unreadable" \notin divergent => \A f \in written \ divergent : issue[f] = "to"

Told ==
    /\ pc = "done" <=> answer # "open"
    /\ pc \in {"mutate", "verify", "decide"} /\ applied = "to" => issue["label"] = "to"
    /\ pc = "verify" => applied = "to"
    /\ pc \in {"mutate", "decide"} /\ kind = "verification" => applied = "to"
    /\ pc \in {"rollback", "repair"} => applied = "none"

Kept == kept => pc = "done" /\ issue = Untouched

IInv == TypeOK /\ Forward /\ Read /\ Told /\ Kept /\ ConfirmedIsWhole

-----------------------------------------------------------------------------
(* Mutations *)

(* A mutation sets each facet to the place or leaves it, and does set the   *)
(* label; a lagging read returns the ticket before or after it.             *)
LEMMA LandsMoves ==
    ASSUME TypeOK, NEW fs \in SUBSET Facets, "label" \in fs,
           NEW place \in Places, Lands(fs, place)
    PROVE  /\ issue' \in [Facets -> Places] /\ old' \in [Facets -> Places]
           /\ issue'["label"] = place
           /\ \A f \in Facets : issue'[f] \in {place, issue[f]}
           /\ old' \in {issue, issue'}
<1>1. PICK dropped \in (IF "drop" \in Faults THEN SUBSET (fs \ {"label"}) ELSE {{}}) :
        issue' = [f \in Facets |-> IF f \in fs \ dropped THEN place ELSE issue[f]]
  BY DEF Lands, Outcomes
<1>2. "label" \notin dropped
  BY <1>1
<1>3. "label" \in Facets
  BY DEF Facets
<1>4. issue' \in [Facets -> Places]
  BY <1>1 DEF TypeOK
<1>5. issue'["label"] = place
  BY <1>1, <1>2, <1>3
<1>6. \A f \in Facets : issue'[f] \in {place, issue[f]}
  BY <1>1
<1>7. old' \in {issue, issue'}
  BY DEF Lands
<1>8. old' \in [Facets -> Places]
  BY <1>4, <1>7 DEF TypeOK
<1> QED
  BY <1>4, <1>5, <1>6, <1>7, <1>8

(* Every facet mutations write lies among the three of a ticket.            *)
LEMMA WrittenFacets ==
    ASSUME TypeOK
    PROVE  /\ written \in SUBSET Facets /\ "label" \in written
           /\ "label" \in Facets /\ "to" \in Places /\ "from" \in Places
           /\ Facets \in SUBSET Facets
  BY DEF TypeOK, Facets, Places

(* A refused mutation changed nothing or landed with its answer lost.       *)
LEMMA RefusedMoves ==
    ASSUME TypeOK, NEW fs \in SUBSET Facets, "label" \in fs,
           NEW place \in Places, Refused(fs, place)
    PROVE  /\ issue' \in [Facets -> Places] /\ old' \in [Facets -> Places]
           /\ issue'["label"] \in {place, issue["label"]}
           /\ \A f \in Facets : issue'[f] \in {place, issue[f]}
           /\ old' \in {issue, issue', old}
           /\ old' = old => issue' = issue \/ old = issue \/ old = issue'
<1>1. CASE UNCHANGED ticket
  BY <1>1 DEF TypeOK, ticket
<1>2. CASE Lands(fs, place)
  BY <1>2, LandsMoves
<1> QED
  BY <1>1, <1>2 DEF Refused

-----------------------------------------------------------------------------
(* The invariant *)

LEMMA InitInv == Init => IInv
<1> SUFFICES ASSUME Init PROVE IInv
  OBVIOUS
<1>1. TypeOK
  <2>1. issue \in [Facets -> Places] /\ old \in [Facets -> Places]
    BY DEF Init, Untouched, Places
  <2>2. attempt \in 1..Attempts
    BY AttemptsAssumption DEF Init
  <2>3. applied \in {"none"} \cup Places
    BY DEF Init, Places
  <2> QED
    BY <2>1, <2>2, <2>3 DEF Init, TypeOK
<1>2. Forward /\ Read /\ Told /\ Kept /\ ConfirmedIsWhole
  BY DEF Init, Forward, Read, Told, Kept, ConfirmedIsWhole, Untouched
<1> QED
  BY <1>1, <1>2 DEF IInv

LEMMA MutateInv == ASSUME IInv, Mutate PROVE IInv'
<1> USE DEF IInv
<1>0. /\ written' = written /\ strict' = strict /\ snapshot' = snapshot
      /\ answer' = answer /\ kept' = kept /\ pc = "mutate"
  BY DEF Mutate, options
<1>1. CASE Lands(written, "to") /\ applied' = "to" /\ pc' = "verify"
           /\ UNCHANGED <<attempt, kind, divergent>>
  <2>1. /\ issue' \in [Facets -> Places] /\ old' \in [Facets -> Places]
        /\ issue'["label"] = "to"
        /\ \A f \in Facets : issue'[f] \in {"to", issue[f]}
        /\ old' \in {issue, issue'}
    BY <1>1, WrittenFacets, LandsMoves
  <2>2. TypeOK'
    BY <1>0, <1>1, <2>1 DEF TypeOK
  <2>3. Forward'
    BY <2>1 DEF Forward
  <2>4. Read' /\ Told' /\ Kept' /\ ConfirmedIsWhole'
    BY <1>0, <1>1, <2>1 DEF Read, Told, Kept, ConfirmedIsWhole
  <2> QED
    BY <2>2, <2>3, <2>4
<1>2. CASE Refused(written, "to") /\ Again /\ kind' = "mutation" /\ divergent' = {}
           /\ UNCHANGED applied
  <2>1. /\ issue' \in [Facets -> Places] /\ old' \in [Facets -> Places]
        /\ issue'["label"] \in {"to", issue["label"]}
        /\ \A f \in Facets : issue'[f] \in {"to", issue[f]}
        /\ old' \in {issue, issue', old}
    BY <1>2, WrittenFacets, RefusedMoves
  <2>2. pc' \in {"mutate", "decide"} /\ attempt' \in 1..Attempts
    BY <1>2, AttemptsAssumption DEF Again, TypeOK
  <2>3. TypeOK'
    BY <1>0, <1>2, <2>1, <2>2 DEF TypeOK
  <2>4. Forward'
    BY <1>0, <2>1 DEF Forward
  <2>5. Read' /\ Told' /\ Kept' /\ ConfirmedIsWhole'
    BY <1>0, <1>2, <2>1, <2>2 DEF Read, Told, Kept, ConfirmedIsWhole
  <2> QED
    BY <2>3, <2>4, <2>5
<1> QED
  BY <1>1, <1>2 DEF Mutate

LEMMA VerifyInv == ASSUME IInv, Verify PROVE IInv'
<1> USE DEF IInv
<1>0. /\ written' = written /\ strict' = strict /\ snapshot' = snapshot
      /\ issue' = issue /\ old' = old /\ applied' = applied
      /\ kept' = kept /\ pc = "verify"
  BY DEF Verify, options, ticket
<1>1. CASE pc' = "done" /\ answer' = "unverified" /\ UNCHANGED <<attempt, kind, divergent>>
  <2>1. TypeOK'
    BY <1>0, <1>1 DEF TypeOK
  <2> QED
    BY <1>0, <1>1, <2>1 DEF Forward, Read, Told, Kept, ConfirmedIsWhole
<1>2. CASE Again /\ kind' = "verification" /\ divergent' = {"unreadable"} /\ UNCHANGED answer
  <2>1. pc' \in {"mutate", "decide"} /\ attempt' \in 1..Attempts
    BY <1>2, AttemptsAssumption DEF Again, TypeOK
  <2>2. TypeOK'
    BY <1>0, <1>2, <2>1 DEF TypeOK
  <2>3. issue["label"] = "to"
    BY <1>0 DEF Told
  <2> QED
    BY <1>0, <1>2, <2>1, <2>2, <2>3 DEF Forward, Read, Told, Kept, ConfirmedIsWhole
<1>3. CASE \E read \in Reads :
             IF Divergent(read) = {}
             THEN /\ pc' = "done" /\ answer' = "ok"
                  /\ UNCHANGED <<attempt, kind, divergent>>
             ELSE /\ Again
                  /\ kind' = "verification" /\ divergent' = Divergent(read)
                  /\ UNCHANGED answer
  <2>1. PICK read \in Reads :
             IF Divergent(read) = {}
             THEN /\ pc' = "done" /\ answer' = "ok"
                  /\ UNCHANGED <<attempt, kind, divergent>>
             ELSE /\ Again
                  /\ kind' = "verification" /\ divergent' = Divergent(read)
                  /\ UNCHANGED answer
    BY <1>3
  <2>2. \A f \in Facets : read[f] = "to" => issue[f] = "to"
    BY <1>0, <2>1 DEF Forward, Reads
  <2>3. \A f \in written \ Divergent(read) : issue[f] = "to"
    BY <2>2, WrittenFacets DEF Divergent
  <2>4. issue["label"] = "to"
    BY <1>0 DEF Told
  <2>5. Divergent(read) \in SUBSET Facets /\ "unreadable" \notin Divergent(read)
    BY WrittenFacets DEF Divergent, Facets
  <2>6. CASE Divergent(read) = {}
    <3>1. pc' = "done" /\ answer' = "ok" /\ UNCHANGED <<attempt, kind, divergent>>
      BY <2>1, <2>6
    <3>2. TypeOK'
      BY <1>0, <3>1 DEF TypeOK
    <3>3. ConfirmedIsWhole'
      BY <1>0, <2>3, <2>6 DEF ConfirmedIsWhole, At
    <3> QED
      BY <1>0, <3>1, <3>2, <3>3 DEF Forward, Read, Told, Kept
  <2>7. CASE Divergent(read) # {}
    <3>1. Again /\ kind' = "verification" /\ divergent' = Divergent(read) /\ UNCHANGED answer
      BY <2>1, <2>7
    <3>2. pc' \in {"mutate", "decide"} /\ attempt' \in 1..Attempts
      BY <3>1, AttemptsAssumption DEF Again, TypeOK
    <3>3. TypeOK'
      BY <1>0, <2>5, <3>1, <3>2 DEF TypeOK
    <3>4. Read'
      BY <1>0, <2>3, <2>4, <3>1 DEF Read
    <3> QED
      BY <1>0, <3>1, <3>2, <3>3, <3>4 DEF Forward, Told, Kept, ConfirmedIsWhole
  <2> QED
    BY <2>6, <2>7
<1> QED
  BY <1>1, <1>2, <1>3 DEF Verify

LEMMA AcceptInv == ASSUME IInv, Accept PROVE IInv'
<1> USE DEF IInv
<1>0. /\ written' = written /\ strict' = strict /\ snapshot' = snapshot
      /\ issue' = issue /\ old' = old /\ applied' = applied
      /\ attempt' = attempt /\ kind' = kind /\ divergent' = divergent
      /\ kept' = kept /\ pc = "decide" /\ pc' = "done" /\ answer' = "lagged"
  BY DEF Accept, options, ticket
<1>1. kind = "verification" /\ divergent = {"label"}
  BY DEF Accept, LabelLag
<1>2. \A f \in written : issue[f] = "to"
  BY <1>0, <1>1 DEF Read
<1>3. TypeOK'
  BY <1>0 DEF TypeOK
<1>4. ConfirmedIsWhole'
  BY <1>0, <1>2 DEF ConfirmedIsWhole, At
<1> QED
  BY <1>0, <1>3, <1>4 DEF Forward, Read, Told, Kept

LEMMA WithdrawInv == ASSUME IInv, Withdraw PROVE IInv'
<1> USE DEF IInv
<1>0. /\ written' = written /\ strict' = strict /\ snapshot' = snapshot
      /\ issue' = issue /\ old' = old /\ applied' = "none"
      /\ attempt' = attempt /\ kind' = kind /\ divergent' = divergent
      /\ kept' = kept /\ pc = "decide"
      /\ \/ pc' = "rollback" /\ answer' = answer
         \/ pc' = "done" /\ answer' = "failed"
  BY DEF Withdraw, options, ticket
<1>1. TypeOK'
  BY <1>0 DEF TypeOK
<1> QED
  BY <1>0, <1>1 DEF Forward, Read, Told, Kept, ConfirmedIsWhole

LEMMA RollbackInv == ASSUME IInv, Rollback PROVE IInv'
<1> USE DEF IInv
<1>0. /\ written' = written /\ strict' = strict /\ snapshot' = snapshot
      /\ applied' = applied /\ attempt' = attempt /\ kind' = kind
      /\ divergent' = divergent /\ pc = "rollback"
  BY DEF Rollback, options
<1>1. CASE /\ Lands(Facets, "from")
           /\ kept' = (\A f \in Facets : issue[f] # issue'[f] \/ issue'[f] = "from")
           /\ pc' = "done" /\ answer' = "failed"
  <2>1. /\ issue' \in [Facets -> Places] /\ old' \in [Facets -> Places]
        /\ \A f \in Facets : issue'[f] \in {"from", issue[f]}
    BY <1>1, WrittenFacets, LandsMoves
  <2>2. kept' \in BOOLEAN
    BY <1>1
  <2>3. TypeOK'
    BY <1>0, <1>1, <2>1, <2>2 DEF TypeOK
  <2>4. kept' => issue' = Untouched
    <3>1. kept' => \A f \in Facets : issue'[f] = "from"
      BY <1>1, <2>1
    <3> QED
      BY <2>1, <3>1 DEF Untouched
  <2>5. Kept'
    BY <1>1, <2>4 DEF Kept, Untouched
  <2> QED
    BY <1>0, <1>1, <2>3, <2>5 DEF Forward, Read, Told, ConfirmedIsWhole
<1>2. CASE /\ Refused(Facets, "from") /\ UNCHANGED kept
           /\ \/ pc' = "repair" /\ UNCHANGED answer
              \/ pc' = "done" /\ answer' = "failed"
  <2>1. issue' \in [Facets -> Places] /\ old' \in [Facets -> Places]
    BY <1>2, WrittenFacets, RefusedMoves
  <2>2. TypeOK'
    BY <1>0, <1>2, <2>1 DEF TypeOK
  <2>3. ~ kept
    BY <1>0 DEF Kept
  <2> QED
    BY <1>0, <1>2, <2>2, <2>3 DEF Forward, Read, Told, Kept, ConfirmedIsWhole
<1> QED
  BY <1>1, <1>2 DEF Rollback

LEMMA RepairInv == ASSUME IInv, Repair PROVE IInv'
<1> USE DEF IInv
<1>0. /\ written' = written /\ strict' = strict /\ snapshot' = snapshot
      /\ applied' = applied /\ attempt' = attempt /\ kind' = kind
      /\ divergent' = divergent /\ kept' = kept /\ pc = "repair"
      /\ pc' = "done" /\ answer' = "failed"
  BY DEF Repair, options
<1>1. issue' \in [Facets -> Places] /\ old' \in [Facets -> Places]
  <2>1. CASE Lands(written, "to")
    BY <2>1, WrittenFacets, LandsMoves
  <2>2. CASE Refused(written, "to")
    BY <2>2, WrittenFacets, RefusedMoves
  <2> QED
    BY <2>1, <2>2 DEF Repair
<1>2. TypeOK'
  BY <1>0, <1>1 DEF TypeOK
<1>3. ~ kept
  BY <1>0 DEF Kept
<1> QED
  BY <1>0, <1>2, <1>3 DEF Forward, Read, Told, Kept, ConfirmedIsWhole

LEMMA CatchUpInv == ASSUME IInv, CatchUp PROVE IInv'
<1> USE DEF IInv
<1>0. /\ written' = written /\ strict' = strict /\ snapshot' = snapshot
      /\ issue' = issue /\ old' = issue /\ applied' = applied /\ pc' = pc
      /\ attempt' = attempt /\ kind' = kind /\ divergent' = divergent
      /\ answer' = answer /\ kept' = kept
  BY DEF CatchUp, options
<1>1. TypeOK'
  BY <1>0 DEF TypeOK
<1> QED
  BY <1>0, <1>1 DEF Forward, Read, Told, Kept, ConfirmedIsWhole, At, Untouched

LEMMA CrashInv == ASSUME IInv, Crash PROVE IInv'
<1> USE DEF IInv
<1>0. /\ written' = written /\ strict' = strict /\ snapshot' = snapshot
      /\ issue' = issue /\ old' = old /\ applied' = "none" /\ pc' = "done"
      /\ attempt' = attempt /\ kind' = kind /\ divergent' = divergent
      /\ answer' = "lost" /\ kept' = kept
  BY DEF Crash, options, ticket
<1>1. TypeOK'
  BY <1>0 DEF TypeOK
<1> QED
  BY <1>0, <1>1 DEF Forward, Read, Told, Kept, ConfirmedIsWhole, Untouched

LEMMA StepInv == IInv /\ [Next]_vars => IInv'
<1> SUFFICES ASSUME IInv, [Next]_vars PROVE IInv'
  OBVIOUS
<1>1. CASE Step
  BY <1>1, MutateInv, VerifyInv, AcceptInv, WithdrawInv, RollbackInv, RepairInv DEF Step
<1>2. CASE CatchUp
  BY <1>2, CatchUpInv
<1>3. CASE Crash
  BY <1>3, CrashInv
<1>4. CASE UNCHANGED vars
  BY <1>4 DEF vars, IInv, TypeOK, Forward, Read, Told, Kept, ConfirmedIsWhole, At, Untouched
<1> QED
  BY <1>1, <1>2, <1>3, <1>4 DEF Next

THEOREM Invariance == Spec => []IInv
  BY InitInv, StepInv, PTL DEF Spec

(* For every number of attempts and every set of faults the variables keep  *)
(* their types.                                                             *)
THEOREM TypeCorrect == Spec => []TypeOK
<1>1. IInv => TypeOK
  BY DEF IInv
<1> QED
  BY <1>1, Invariance, PTL

(* A confirmed write stands whole at its destination.                       *)
THEOREM Confirmed == Spec => []ConfirmedIsWhole
<1>1. IInv => ConfirmedIsWhole
  BY DEF IInv
<1> QED
  BY <1>1, Invariance, PTL

(* A write that failed and whose rollback was accepted whole stands where   *)
(* it began.                                                                *)
THEOREM RolledBack == Spec => []RolledBackIsWhole
<1>1. IInv => RolledBackIsWhole
  BY DEF IInv, Kept, RolledBackIsWhole
<1> QED
  BY <1>1, Invariance, PTL

-----------------------------------------------------------------------------
(* Refinement: each step of the write is a step of AppliedRecord or none.   *)

LEMMA RefinesInit == Init => Record!Init
  BY DEF Init, Record!Init, Untouched, Facets

LEMMA RefinesStep == IInv /\ [Next]_vars => [Record!Next]_(Record!vars)
<1> SUFFICES ASSUME IInv, [Next]_vars PROVE [Record!Next]_(Record!vars)
  OBVIOUS
<1> USE DEF IInv
<1>f. /\ "label" \in Facets
      /\ issue["label"] \in {"from", "to"}
  BY WrittenFacets DEF TypeOK, Places
<1>1. CASE Mutate
  <2>0. pc = "mutate" /\ answer = "open" /\ answer' = answer
    BY <1>1 DEF Mutate, Told
  <2>1. CASE Lands(written, "to") /\ applied' = "to"
    <3>1. issue'["label"] = "to"
      BY <2>1, WrittenFacets, LandsMoves
    <3>2. CASE applied = "to"
      BY <2>0, <2>1, <3>1, <3>2 DEF Told, Record!vars
    <3>3. CASE applied # "to"
      BY <2>0, <2>1, <3>1, <3>3 DEF Record!Next, Record!Land
    <3> QED
      BY <3>2, <3>3
  <2>2. CASE Refused(written, "to") /\ UNCHANGED applied
    <3>1. issue'["label"] \in {"to", issue["label"]}
      BY <2>2, WrittenFacets, RefusedMoves
    <3>2. CASE issue'["label"] = issue["label"]
      BY <2>0, <2>2, <3>2 DEF Record!vars
    <3>3. CASE issue'["label"] = "to" /\ issue["label"] # "to"
      BY <2>0, <2>2, <3>3 DEF Told, Record!Next, Record!Land
    <3> QED
      BY <3>1, <3>2, <3>3
  <2> QED
    BY <1>1, <2>1, <2>2 DEF Mutate
<1>2. CASE Verify
  <2>0. /\ pc = "verify" /\ answer = "open" /\ applied = "to"
        /\ issue' = issue /\ applied' = applied
        /\ answer' \in {"open", "ok", "unverified"}
    BY <1>2 DEF Verify, Told, ticket
  <2> QED
    BY <2>0 DEF Record!vars, Record!Next, Record!Answer
<1>3. CASE Accept
  <2>0. /\ answer = "open" /\ applied = "to"
        /\ issue' = issue /\ applied' = applied /\ answer' = "lagged"
    BY <1>3 DEF Accept, LabelLag, Told, ticket
  <2> QED
    BY <2>0 DEF Record!Next, Record!Answer
<1>4. CASE Withdraw
  <2>0. /\ answer = "open" /\ applied' = "none"
        /\ issue' = issue /\ answer' \in {"open", "failed"}
    BY <1>4 DEF Withdraw, Told, ticket
  <2> QED
    BY <2>0 DEF Record!Next, Record!Answer, Record!Withdraw
<1>5. CASE Rollback
  <2>0. /\ answer = "open" /\ applied = "none" /\ applied' = "none"
    BY <1>5 DEF Rollback, Told
  <2>1. CASE Lands(Facets, "from") /\ answer' = "failed"
    <3>1. issue'["label"] = "from"
      BY <2>1, WrittenFacets, LandsMoves
    <3> QED
      BY <2>0, <2>1, <3>1 DEF Record!Next, Record!Undo
  <2>2. CASE Refused(Facets, "from") /\ answer' \in {"open", "failed"}
    <3>1. issue'["label"] \in {"from", issue["label"]}
      BY <2>2, WrittenFacets, RefusedMoves
    <3>2. CASE issue'["label"] = "from"
      BY <2>0, <2>2, <3>2 DEF Record!Next, Record!Undo
    <3>3. CASE issue'["label"] = issue["label"]
      BY <2>0, <2>2, <3>3 DEF Record!vars, Record!Next, Record!Answer
    <3> QED
      BY <3>1, <3>2, <3>3
  <2>3. \/ Lands(Facets, "from") /\ answer' = "failed"
        \/ Refused(Facets, "from") /\ answer' \in {"open", "failed"}
    BY <1>5, <2>0 DEF Rollback
  <2> QED
    BY <2>1, <2>2, <2>3
<1>6. CASE Repair
  <2>0. answer = "open" /\ answer' = "failed" /\ applied = "none" /\ applied' = "none"
    BY <1>6 DEF Repair, Told
  <2>1. issue'["label"] \in {"to", issue["label"]}
    <3>1. CASE Lands(written, "to")
      BY <3>1, WrittenFacets, LandsMoves
    <3>2. CASE Refused(written, "to")
      BY <3>2, WrittenFacets, RefusedMoves
    <3> QED
      BY <1>6, <3>1, <3>2 DEF Repair
  <2>2. CASE issue'["label"] = "to"
    BY <2>0, <2>2 DEF Record!Next, Record!Land
  <2>3. CASE issue'["label"] = issue["label"]
    BY <2>0, <2>3 DEF Record!Next, Record!Answer
  <2> QED
    BY <2>1, <2>2, <2>3
<1>7. CASE CatchUp
  BY <1>7 DEF CatchUp, Record!vars
<1>8. CASE Crash
  BY <1>8 DEF Crash, Told, ticket, Record!Next, Record!Restart
<1>9. CASE UNCHANGED vars
  BY <1>9 DEF vars, Record!vars
<1> QED
  BY <1>1, <1>2, <1>3, <1>4, <1>5, <1>6, <1>7, <1>8, <1>9 DEF Next, Step

(* The write keeps the promise of the applied-state store, for every number *)
(* of attempts and every set of faults.                                     *)
THEOREM KeepsRecord == Spec => RecordSpec
  BY RefinesInit, RefinesStep, Invariance, PTL DEF Spec, RecordSpec, Record!Spec

-----------------------------------------------------------------------------
(* What the callers are told.  The delegate stands at the destination only  *)
(* if it was written, and apart from a label that went back only if there   *)
(* is a snapshot; each answer fixes what is on record.                      *)

Seating ==
    /\ "delegate" \notin written => issue["delegate"] = "from"
    /\ issue["label"] = "from" /\ issue["delegate"] = "to" => snapshot
    /\ pc \in {"rollback", "repair"} => snapshot
    /\ answer \in {"ok", "lagged", "unverified"} => applied = "to"
    /\ answer = "failed" => applied = "none"
    /\ answer = "unverified" => ~ strict /\ issue["label"] = "to"

LEMMA SeatingInit == Init => Seating
  BY DEF Init, Seating, Untouched, Facets

(* A mutation, refused or not, leaves each facet where it was or puts it    *)
(* where it was to go, and moves no facet that it does not write.           *)
LEMMA MutationMoves ==
    ASSUME TypeOK, NEW fs \in SUBSET Facets, "label" \in fs, NEW place \in Places,
           Lands(fs, place) \/ Refused(fs, place)
    PROVE  /\ issue'["delegate"] \in {place, issue["delegate"]}
           /\ "delegate" \notin fs => issue'["delegate"] = issue["delegate"]
           /\ issue'["label"] \in {place, issue["label"]}
           /\ issue'["label"] = place \/ issue' = issue
<1>0. "delegate" \in Facets /\ "label" \in Facets
  BY DEF Facets
<1>1. CASE Lands(fs, place)
  <2>1. PICK dropped \in (IF "drop" \in Faults THEN SUBSET (fs \ {"label"}) ELSE {{}}) :
          issue' = [f \in Facets |-> IF f \in fs \ dropped THEN place ELSE issue[f]]
    BY <1>1 DEF Lands, Outcomes
  <2>2. issue'["label"] = place
    BY <1>1, LandsMoves
  <2> QED
    BY <1>0, <2>1, <2>2
<1>2. CASE UNCHANGED ticket
  BY <1>2 DEF ticket
<1> QED
  BY <1>1, <1>2 DEF Refused

LEMMA SeatingStep == IInv /\ Seating /\ [Next]_vars => Seating'
<1> SUFFICES ASSUME IInv, Seating, [Next]_vars PROVE Seating'
  OBVIOUS
<1> USE DEF IInv
<1>t. /\ issue["label"] \in {"from", "to"} /\ issue["delegate"] \in {"from", "to"}
      /\ answer \in {"open", "ok", "unverified", "lagged", "failed", "lost"}
  BY DEF TypeOK, Facets, Places
<1>1. CASE Mutate
  <2>0. /\ written' = written /\ strict' = strict /\ snapshot' = snapshot
        /\ answer' = answer /\ answer = "open" /\ pc' \in {"mutate", "verify", "decide"}
    BY <1>1 DEF Mutate, Again, Told, options
  <2>1. Lands(written, "to") \/ Refused(written, "to")
    BY <1>1 DEF Mutate
  <2>2. /\ "delegate" \notin written => issue'["delegate"] = issue["delegate"]
        /\ issue'["label"] = "to" \/ issue' = issue
    BY <2>1, WrittenFacets, MutationMoves
  <2> QED
    BY <2>0, <2>2 DEF Seating
<1>2. CASE Verify
  <2>0. /\ written' = written /\ strict' = strict /\ snapshot' = snapshot
        /\ issue' = issue /\ applied' = applied /\ answer = "open"
        /\ applied = "to" /\ issue["label"] = "to"
    BY <1>2 DEF Verify, Told, options, ticket
  <2>1. \/ pc' = "done" /\ answer' = "unverified" /\ ~ strict
        \/ pc' = "done" /\ answer' = "ok"
        \/ pc' \in {"mutate", "decide"} /\ answer' = answer
    BY <1>2 DEF Verify, Again
  <2> QED
    BY <2>0, <2>1 DEF Seating
<1>3. CASE Accept
  <2>0. /\ written' = written /\ strict' = strict /\ snapshot' = snapshot
        /\ issue' = issue /\ applied' = applied /\ applied = "to"
        /\ pc' = "done" /\ answer' = "lagged"
    BY <1>3 DEF Accept, LabelLag, Told, options, ticket
  <2> QED
    BY <2>0 DEF Seating
<1>4. CASE Withdraw
  <2>0. /\ written' = written /\ strict' = strict /\ snapshot' = snapshot
        /\ issue' = issue /\ applied' = "none" /\ answer = "open"
        /\ \/ pc' = "rollback" /\ snapshot /\ answer' = "open"
           \/ pc' = "done" /\ answer' = "failed"
    BY <1>4 DEF Withdraw, Told, options, ticket
  <2> QED
    BY <2>0 DEF Seating
<1>5. CASE Rollback
  <2>0. /\ written' = written /\ strict' = strict /\ snapshot' = snapshot /\ snapshot
        /\ applied' = "none" /\ answer' \in {"open", "failed"}
    BY <1>5 DEF Rollback, Told, Seating, options
  <2>1. Lands(Facets, "from") \/ Refused(Facets, "from")
    BY <1>5 DEF Rollback
  <2>2. issue'["delegate"] \in {"from", issue["delegate"]}
    BY <2>1, WrittenFacets, MutationMoves
  <2> QED
    BY <2>0, <2>2 DEF Seating
<1>6. CASE Repair
  <2>0. /\ written' = written /\ strict' = strict /\ snapshot' = snapshot /\ snapshot
        /\ applied' = "none" /\ answer' = "failed"
    BY <1>6 DEF Repair, Told, Seating, options
  <2>1. Lands(written, "to") \/ Refused(written, "to")
    BY <1>6 DEF Repair
  <2>2. "delegate" \notin written => issue'["delegate"] = issue["delegate"]
    BY <2>1, WrittenFacets, MutationMoves
  <2> QED
    BY <2>0, <2>2 DEF Seating
<1>7. CASE CatchUp
  BY <1>7 DEF CatchUp, Seating, options
<1>8. CASE Crash
  BY <1>8 DEF Crash, Seating, options, ticket
<1>9. CASE UNCHANGED vars
  BY <1>9 DEF vars, Seating
<1> QED
  BY <1>1, <1>2, <1>3, <1>4, <1>5, <1>6, <1>7, <1>8, <1>9 DEF Next, Step

(* An answered write is confirmed, unverified, turned down, rolled back or  *)
(* torn, and the ticket, the answer and the record agree on which.          *)
LEMMA OutcomeFollows == IInv /\ Seating => OutcomeKnown
<1> SUFFICES ASSUME IInv, Seating, pc = "done", answer # "lost"
             PROVE  \E result \in Possible :
                      /\ Now \in Leaves(result, Wanted, Before, Before)
                      /\ answer \in Tells(result)
                      /\ applied = "to" <=> result \in Accepted
  BY DEF OutcomeKnown
<1> USE DEF IInv
<1>t. /\ issue["label"] \in {"from", "to"} /\ issue["delegate"] \in {"from", "to"}
      /\ "label" \in written /\ strict \in BOOLEAN /\ snapshot \in BOOLEAN
  BY DEF TypeOK, Facets, Places
<1>a. answer \in {"ok", "unverified", "lagged", "failed"}
  BY DEF TypeOK, Told
<1>w. issue["delegate"] \in {Wanted.who, "from"}
  BY <1>t DEF Seating, Wanted
<1> DEFINE Is(result) ==
      /\ Now \in Leaves(result, Wanted, Before, Before)
      /\ answer \in Tells(result)
      /\ applied = "to" <=> result \in Accepted
<1>s. \A t, whos : \A w \in whos : [t EXCEPT !.who = w] \in Seated(t, whos)
  BY DEF Seated
<1>1. CASE answer \in {"ok", "lagged"}
  <2>1. \A f \in written : issue[f] = "to"
    BY <1>1 DEF ConfirmedIsWhole, At
  <2>2. Now = Wanted
    BY <1>t, <2>1 DEF Now, Wanted, Seating
  <2>3. Is("ok")
    BY <1>1, <2>2 DEF Leaves, Tells, Accepted, Seating
  <2>4. "ok" \in Possible
    BY DEF Possible, WriteResults
  <2> QED
    BY <2>3, <2>4
<1>2. CASE answer = "unverified"
  <2>1. Now = [Wanted EXCEPT !.who = issue["delegate"]]
    BY <1>2 DEF Now, Wanted, Seating
  <2>2. Now \in Seated(Wanted, {Wanted.who, Before.who})
    BY <1>w, <1>s, <2>1 DEF Before
  <2>3. Is("unverified")
    BY <1>2, <2>2 DEF Leaves, Tells, Accepted, Seating
  <2>4. "unverified" \in Possible
    BY <1>2 DEF Possible, WriteResults, Seating
  <2> QED
    BY <2>3, <2>4
<1>3. CASE answer = "failed" /\ issue["label"] = "to"
  <2>1. Now = [Wanted EXCEPT !.who = issue["delegate"]]
    BY <1>3 DEF Now, Wanted
  <2>2. Now \in Seated(Wanted, {Before.who, Wanted.who, Before.who})
    BY <1>w, <1>s, <2>1 DEF Before
  <2>3. Is("torn")
    BY <1>3, <2>2 DEF Leaves, Tells, Accepted, Seating
  <2>4. "torn" \in Possible
    BY DEF Possible, WriteResults
  <2> QED
    BY <2>3, <2>4
<1>4. CASE answer = "failed" /\ issue["label"] = "from" /\ snapshot
  <2>1. Now = [Before EXCEPT !.who = issue["delegate"]]
    BY <1>4 DEF Now, Before
  <2>2. Now \in Seated(Before, {Before.who, Wanted.who, Before.who})
    BY <1>w, <1>s, <2>1 DEF Before
  <2>3. Is("rolledBack")
    BY <1>4, <2>2 DEF Leaves, Tells, Accepted, Seating
  <2>4. "rolledBack" \in Possible
    BY <1>4 DEF Possible, WriteResults
  <2> QED
    BY <2>3, <2>4
<1>5. CASE answer = "failed" /\ issue["label"] = "from" /\ ~ snapshot
  <2>1. Now = Before
    BY <1>t, <1>5 DEF Now, Before, Seating
  <2>2. Is("rejected")
    BY <1>5, <2>1 DEF Leaves, Tells, Accepted, Seating
  <2>3. "rejected" \in Possible
    BY DEF Possible, WriteResults
  <2> QED
    BY <2>2, <2>3
<1> QED
  BY <1>t, <1>a, <1>1, <1>2, <1>3, <1>4, <1>5

(* Every answered write is one of the results its callers reckon with, for  *)
(* every number of attempts and every set of faults: what TransitionWrite   *)
(* does step by step is what WorkflowGate takes as one.                     *)
THEOREM KeepsContract == Spec => []OutcomeKnown
  BY SeatingInit, SeatingStep, OutcomeFollows, Invariance, PTL DEF Spec

-----------------------------------------------------------------------------
(* Progress *)

(* The next attempt costs what it may take, and so does giving up.          *)
LEMMA AgainSpends ==
    ASSUME TypeOK, pc \in {"mutate", "verify"}, Again
    PROVE  Fuel' < Fuel
<1>0. attempt \in Nat /\ Attempts \in Nat /\ attempt <= Attempts
  BY AttemptsAssumption DEF TypeOK
<1>1. CASE attempt < Attempts /\ pc' = "mutate" /\ attempt' = attempt + 1
  <2>1. Fuel' = 2 * (Attempts - (attempt + 1)) + 5
    BY <1>1 DEF Fuel
  <2>2. Fuel \in {2 * (Attempts - attempt) + 5, 2 * (Attempts - attempt) + 4}
    BY DEF Fuel
  <2> QED
    BY <1>0, <2>1, <2>2
<1>2. CASE attempt = Attempts /\ pc' = "decide" /\ attempt' = attempt
  <2>1. Fuel' = 3
    BY <1>2 DEF Fuel
  <2>2. Fuel \in {2 * (Attempts - attempt) + 5, 2 * (Attempts - attempt) + 4}
    BY DEF Fuel
  <2> QED
    BY <1>0, <1>2, <2>1, <2>2
<1> QED
  BY <1>1, <1>2 DEF Again

LEMMA StepSpends == TypeOK /\ Step => Fuel' < Fuel
<1> SUFFICES ASSUME TypeOK, Step PROVE Fuel' < Fuel
  OBVIOUS
<1>0. attempt \in Nat /\ Attempts \in Nat /\ attempt <= Attempts
  BY AttemptsAssumption DEF TypeOK
<1>1. CASE Mutate
  <2>1. CASE Again
    BY <1>1, <2>1, AgainSpends DEF Mutate
  <2>2. CASE pc' = "verify" /\ attempt' = attempt
    BY <1>0, <1>1, <2>2 DEF Mutate, Fuel
  <2> QED
    BY <1>1, <2>1, <2>2 DEF Mutate
<1>2. CASE Verify
  <2>1. CASE Again
    BY <1>2, <2>1, AgainSpends DEF Verify
  <2>2. CASE pc' = "done"
    BY <1>0, <1>2, <2>2 DEF Verify, Fuel
  <2> QED
    BY <1>2, <2>1, <2>2 DEF Verify
<1>3. CASE Accept
  BY <1>3 DEF Accept, Fuel
<1>4. CASE Withdraw
  BY <1>4 DEF Withdraw, Fuel
<1>5. CASE Rollback
  <2>1. pc = "rollback" /\ pc' \in {"repair", "done"}
    BY <1>5 DEF Rollback
  <2> QED
    BY <2>1 DEF Fuel
<1>6. CASE Repair
  BY <1>6 DEF Repair, Fuel
<1> QED
  BY <1>1, <1>2, <1>3, <1>4, <1>5, <1>6 DEF Step

(* Every step of the write spends some of what it may still do, so that a   *)
(* write takes no more than 2 * Attempts + 3 steps.                         *)
THEOREM Spends == Spec => WriteProgresses
<1>1. TypeOK /\ [Next]_vars => [Step => Fuel' < Fuel]_vars
  BY StepSpends
<1> QED
  BY <1>1, TypeCorrect, PTL DEF Spec, WriteProgresses
=============================================================================
