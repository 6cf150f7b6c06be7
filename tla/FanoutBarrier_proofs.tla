------------------------ MODULE FanoutBarrier_proofs ------------------------
(***************************************************************************)
(* Proofs about FanoutBarrier for any entries, children, evaluations and    *)
(* bounds.  The inductive invariant FanInv says what ties the processes to  *)
(* the store: a record that carries the number of the last fan-out is the   *)
(* record of that fan-out, a command that has not recorded its outcome yet  *)
(* is the only one that can, and an evaluation past its judgement has seen  *)
(* what the children of that record had become.                             *)
(***************************************************************************)
EXTENDS FanoutBarrier, FiniteSetTheorems, TLAPS

StoreKeys == {"identifier", "uuid"}

(* What a fan-out that writes knows of its children.                        *)
Fits(out, kids) == (out = "awaiting" => kids # {}) /\ (out = "waived" => kids = {})

(* A command is between the write of the last fan-out and its record.       *)
IsPending(s) == s.pc = "record" /\ s.cycle = fan.cycle
NonePending == \A q \in Procs : ~ IsPending(proc[q])

AwaitedDone == \A c \in fan.kids : IsTerminal(c)

(* A record of the store, in memory or in the file.                         *)
RecordFits(rec) ==
    /\ rec.cycle <= fan.cycle
    /\ rec.cycle = 0 => rec = NoRecord
    /\ rec.kids # {} => rec.out = "awaiting"
    /\ rec.cycle = fan.cycle => /\ rec.out = fan.out
                                /\ rec.out \notin Held => rec.kids = fan.kids

(* What the outcome not yet recorded is, and that no record has its number. *)
PendingFits(s) ==
    /\ s.kids = fan.kids
    /\ \A k \in StoreKeys : mem[k].cycle # fan.cycle /\ disk[k].cycle # fan.cycle

(* An evaluation past its judgement.                                        *)
JudgedFits(s) ==
    /\ s.at <= fan.cycle
    /\ s.at = fan.cycle /\ s.seen \in {0, fan.cycle} => AwaitedDone
    /\ s.at = fan.cycle /\ s.seen = fan.cycle => fan.out \notin Held /\ NonePending

AttemptFits(p, s) ==
    /\ s.kind \in {"entry", "continue"} => p \in Keys
    /\ s.kind = "entry" => s.filter = mem[p].kids /\ disk[p] = mem[p]
    /\ s.kind # "entry" => s.filter = {}

(* What a process p in the state s relies on.                               *)
ProcFits(p, s) ==
    /\ s.pc \in {"mint", "write", "record", "entry", "continue"} => p \in Keys
    /\ s.pc \in {"mint", "write", "record"} => s.kids \subseteq Present
    /\ s.pc = "mint" => s.made <= Cardinality(s.kids)
    /\ s.pc \in {"write", "record"} => Fits(s.out, s.kids)
    /\ s.pc = "record" => s.cycle <= fan.cycle
    /\ IsPending(s) => PendingFits(s)
    /\ s.pc = "entry" => disk[p] = mem[p]
    /\ s.pc = "attempt" => AttemptFits(p, s)
    /\ s.pc \in {"labels", "release", "continue"} => JudgedFits(s)

(* The parts of the invariant, by the variables they are about.             *)
ParentOK ==
    /\ label \in Labels /\ lag \in Labels /\ applied \in Labels \cup {"none"}
    /\ spec \in (SUBSET Entries) \ {{}}

ChildType == [entry : Entries \cup {"none"}, status : Statuses, blind : BOOLEAN]

StoreOK ==
    /\ child \in [Ids -> ChildType]
    /\ mem \in [StoreKeys -> Records] /\ disk \in [StoreKeys -> Records]
    /\ loader \in Procs \cup {"unread", "read"} /\ crashes \in 0..MaxCrashes
    /\ fan \in Records
    /\ fan.cycle = 0 => fan = NoRecord
    /\ fan.kids \subseteq Present
    /\ \A k \in StoreKeys : RecordFits(mem[k]) /\ RecordFits(disk[k])

ProcOK ==
    /\ proc \in [Procs -> States]
    /\ \A p \in Procs : ProcFits(p, proc[p])
    /\ \A p, q \in Procs : IsPending(proc[p]) /\ IsPending(proc[q]) => p = q

FanInv == ParentOK /\ StoreOK /\ ProcOK

-----------------------------------------------------------------------------
(* States, children and steps of one process                                *)

LEMMA Places ==
    ASSUME NEW s \in States
    PROVE  /\ s.pc \in {"idle", "mint", "write", "record", "entry", "attempt", "labels",
                        "release", "continue"}
           /\ s.pc = "idle" => s = Idle
           /\ s.pc = "mint" => s \in Minting
           /\ s.pc = "write" => s \in Writing
           /\ s.pc = "record" => s \in Recording
           /\ s.pc = "attempt" => s \in Attempting
           /\ s.pc \in {"labels", "release", "continue"} => s \in Judging
  BY DEF States, Idle, Minting, Writing, Recording, Attempting, Judging

LEMMA IdleFits == /\ Idle \in States /\ Idle.pc = "idle" /\ ~ IsPending(Idle)
                  /\ \A p \in Procs : ProcFits(p, Idle)
  BY DEF Idle, States, ProcFits, IsPending

LEMMA KeyType == Keys \subseteq StoreKeys /\ Keys \subseteq Procs /\ Jobs \subseteq Procs
                 /\ \A p \in Procs : KeyOf(p) \in StoreKeys
  BY KeysAssumption DEF StoreKeys, Procs, KeyOf

LEMMA Gone ==
    ASSUME ProcOK, NEW p \in Procs, NEW s \in States, Goto(p, s)
    PROVE  /\ proc' \in [Procs -> States] /\ proc'[p] = s
           /\ \A q \in Procs \ {p} : proc'[q] = proc[q]
  BY DEF ProcOK, Goto

(* A process takes one turn and touches nothing but its own state.          *)
LEMMA TurnOK ==
    ASSUME FanInv, NEW p \in Procs, NEW s \in States, Goto(p, s), ProcFits(p, s),
           s.pc # "record",
           UNCHANGED <<child, mem, disk, fan>>
    PROVE  ProcOK'
<1>1. /\ proc' \in [Procs -> States] /\ proc'[p] = s
      /\ \A q \in Procs \ {p} : proc'[q] = proc[q]
  BY Gone DEF FanInv
<1>2. NonePending => NonePending'
  BY <1>1 DEF NonePending, IsPending
<1>3. ASSUME NEW q \in Procs, NEW t \in States, ProcFits(q, t)
      PROVE  ProcFits(q, t)'
  BY <1>2, <1>3 DEF ProcFits, IsPending, PendingFits, AttemptFits, JudgedFits, AwaitedDone,
                    IsTerminal, Present
<1>4. \A q \in Procs : ProcFits(q, proc[q])
  BY DEF FanInv, ProcOK
<1>5. ASSUME NEW q \in Procs PROVE ProcFits(q, proc[q])'
  <2>1. CASE q = p
    BY <1>1, <1>3, <2>1 DEF ProcFits, IsPending, PendingFits, AttemptFits, JudgedFits
  <2>2. CASE q # p
    BY <1>1, <1>3, <1>4, <2>2 DEF ProcFits, IsPending, PendingFits, AttemptFits, JudgedFits
  <2> QED
    BY <2>1, <2>2
<1>6. ASSUME NEW q \in Procs, NEW r \in Procs, IsPending(proc[q])', IsPending(proc[r])'
      PROVE  q = r
  <2>1. q # p /\ r # p
    BY <1>1, <1>6 DEF IsPending
  <2> QED
    BY <1>1, <1>6, <2>1 DEF FanInv, ProcOK, IsPending
<1> QED
  BY <1>1, <1>5, <1>6 DEF ProcOK

LEMMA ProcSame == ASSUME ProcOK, UNCHANGED <<child, mem, disk, fan, proc>> PROVE ProcOK'
  BY DEF ProcOK, ProcFits, IsPending, NonePending, PendingFits, AttemptFits, JudgedFits,
         AwaitedDone, IsTerminal, Present

LEMMA StoreSame ==
    ASSUME StoreOK, UNCHANGED <<child, mem, disk, crashes, fan>>,
           loader' \in Procs \cup {"unread", "read"}
    PROVE  StoreOK'
  BY DEF StoreOK, RecordFits, Present

LEMMA ParentSame == ASSUME ParentOK, UNCHANGED <<label, lag, applied, spec>> PROVE ParentOK'
  BY DEF ParentOK

LEMMA VerifiedType ==
    ASSUME ParentOK, NEW from \in Labels, NEW to \in Labels, NEW result \in WriteResults,
           VerifiedWrite(from, to, result)
    PROVE  label' \in Labels /\ lag' \in Labels /\ applied' \in Labels \cup {"none"}
  BY DEF ParentOK, VerifiedWrite, WriteResults

-----------------------------------------------------------------------------
(* The forward command                                                      *)

LEMMA MatchedFits ==
    ASSUME FanInv, NEW existing \in ExistingChildren
    PROVE  /\ Matched(existing) \subseteq Present /\ Matched(existing) \subseteq Ids
           /\ ToSpawn(existing) \subseteq Entries
           /\ ToSpawn(existing) = {} => Matched(existing) # {}
  BY DEF FanInv, ParentOK, ExistingChildren, Matched, ToSpawn, Present

LEMMA WriteFits ==
    ASSUME NEW k \in Keys, NEW out \in Outcomes, NEW kids \in SUBSET Ids,
           NEW made \in Minted, kids \subseteq Present, Fits(out, kids)
    PROVE  ToWrite(out, kids, made) \in States /\ ProcFits(k, ToWrite(out, kids, made))
  BY DEF ToWrite, States, Writing, ProcFits, IsPending

LEMMA NoneMade == 0 \in Minted /\ Cardinality(Ids) \in Nat
  BY IdsAssumption, FS_CardinalityType DEF Minted

LEMMA BeginFanoutOK == ASSUME FanInv, NEW k \in Keys, BeginFanout(k) PROVE FanInv'
<1>1. ParentOK' /\ StoreOK'
  BY ParentSame, StoreSame DEF BeginFanout, FanInv, StoreOK
<1>2. k \in Procs
  BY KeyType
<1>3. ASSUME NEW s \in States, ProcFits(k, s), Goto(k, s), s.pc # "record"
      PROVE  ProcOK'
  BY <1>2, <1>3, TurnOK DEF BeginFanout
<1>4. ASSUME Goto(k, ToWrite("failed", {}, 0)) PROVE ProcOK'
  <2>1. {} \in SUBSET Ids /\ {} \subseteq Present /\ "failed" \in Outcomes /\ Fits("failed", {})
    BY DEF Outcomes, Fits
  <2>2. ToWrite("failed", {}, 0) \in States /\ ProcFits(k, ToWrite("failed", {}, 0))
    BY <2>1, WriteFits, NoneMade
  <2> QED
    BY <1>3, <1>4, <2>2 DEF ToWrite
<1>5. ASSUME NEW existing \in ExistingChildren, ToSpawn(existing) = {},
             Goto(k, ToWrite("awaiting", Matched(existing), 0))
      PROVE  ProcOK'
  <2>1. ToWrite("awaiting", Matched(existing), 0) \in States
        /\ ProcFits(k, ToWrite("awaiting", Matched(existing), 0))
    BY <1>5, MatchedFits, WriteFits, NoneMade DEF Outcomes, Fits
  <2> QED
    BY <1>3, <1>5, <2>1 DEF ToWrite
<1>6. ASSUME NEW existing \in ExistingChildren, ToSpawn(existing) # {}
      PROVE  LET s == [pc |-> "mint", todo |-> ToSpawn(existing), kids |-> Matched(existing),
                       made |-> 0, errors |-> FALSE, blind |-> existing # Present]
             IN  Goto(k, s) => ProcOK'
  <2> DEFINE s == [pc |-> "mint", todo |-> ToSpawn(existing), kids |-> Matched(existing),
                   made |-> 0, errors |-> FALSE, blind |-> existing # Present]
  <2>1. s \in States
    BY MatchedFits, NoneMade DEF States, Minting
  <2>2. Cardinality(Matched(existing)) \in Nat
    BY MatchedFits, IdsAssumption, FS_Subset, FS_CardinalityType
  <2>3. ProcFits(k, s)
    BY <2>2, MatchedFits DEF ProcFits, IsPending
  <2> HIDE DEF s
  <2>4. s.pc # "record"
    BY DEF s
  <2>5. Goto(k, s) => ProcOK'
    BY <1>3, <2>1, <2>3, <2>4
  <2> QED
    BY <2>5 DEF s
<1>7. ASSUME NEW existing \in ExistingChildren, NEW v \in Verdicts \ {"mint"},
             Goto(k, Stopped(v, Matched(existing)))
      PROVE  ProcOK'
  <2>1. v \in {"refused", "pending-approval", "waived"}
    BY VerdictsAssumption
  <2>2. Stopped(v, Matched(existing)) \in States
        /\ ProcFits(k, Stopped(v, Matched(existing)))
    BY <2>1, MatchedFits, WriteFits, NoneMade DEF Stopped, Outcomes, Fits
  <2> QED
    BY <1>3, <1>7, <2>2 DEF Stopped, ToWrite
<1>8. ProcOK'
  <2>1. CASE \E existing \in ExistingChildren :
              /\ ToSpawn(existing) # {}
              /\ Goto(k, [pc |-> "mint", todo |-> ToSpawn(existing), kids |-> Matched(existing),
                          made |-> 0, errors |-> FALSE, blind |-> existing # Present])
    BY <1>6, <2>1
  <2>2. CASE \E existing \in ExistingChildren :
              ToSpawn(existing) = {} /\ Goto(k, ToWrite("awaiting", Matched(existing), 0))
    BY <1>5, <2>2
  <2>3. CASE \E existing \in ExistingChildren : \E v \in Verdicts \ {"mint"} :
              Goto(k, Stopped(v, Matched(existing)))
    BY <1>7, <2>3
  <2> QED
    BY <1>4, <2>1, <2>2, <2>3 DEF BeginFanout
<1> QED
  BY <1>1, <1>8 DEF FanInv

LEMMA NextIdType == Present # Ids => NextId \in Ids /\ NextId \notin Present
  BY DEF NextId, Present

(* A ticket is created: the children there are stay as they are.            *)
LEMMA CreatedOK ==
    ASSUME FanInv, Present # Ids, NEW e \in Entries, NEW b \in BOOLEAN,
           child' = [child EXCEPT ![NextId] = [entry |-> e, status |-> "active", blind |-> b]]
    PROVE  /\ child' \in [Ids -> ChildType]
           /\ Present' = Present \cup {NextId}
           /\ \A c \in Ids : IsTerminal(c) => IsTerminal(c)'
           /\ \A c \in Present : child'[c] = child[c]
<1>1. NextId \in Ids /\ NextId \notin Present
  BY NextIdType
<1>2. child' \in [Ids -> ChildType]
  BY <1>1 DEF FanInv, StoreOK, ChildType, Statuses
<1>3. Present' = Present \cup {NextId}
  BY <1>1, <1>2 DEF FanInv, StoreOK, Present
<1>4. child'[NextId].status = "active" /\ child[NextId].status = "absent"
  BY <1>1 DEF FanInv, StoreOK, Present
<1>5. \A c \in Ids \ {NextId} : child'[c] = child[c]
  BY <1>1 DEF FanInv, StoreOK
<1>6. \A c \in Ids : IsTerminal(c) => IsTerminal(c)'
  BY <1>4, <1>5 DEF IsTerminal
<1>7. \A c \in Present : child'[c] = child[c]
  BY <1>1, <1>5 DEF Present
<1> QED
  BY <1>2, <1>3, <1>6, <1>7

(* Children are created or move on; nothing of that disturbs a process.     *)
LEMMA ChildrenGrow ==
    ASSUME FanInv, UNCHANGED <<mem, disk, loader, crashes, fan>>,
           child' \in [Ids -> ChildType], Present \subseteq Present',
           \A c \in Ids : IsTerminal(c) => IsTerminal(c)',
           NonePending => NonePending'
    PROVE  StoreOK' /\ \A q \in Procs, t \in States : ProcFits(q, t) => ProcFits(q, t)'
<1>1. StoreOK'
  BY DEF FanInv, StoreOK, RecordFits
<1>2. AwaitedDone => AwaitedDone'
  BY DEF AwaitedDone, FanInv, StoreOK, Records
<1>3. ASSUME NEW q \in Procs, NEW t \in States, ProcFits(q, t)
      PROVE  ProcFits(q, t)'
  BY <1>2, <1>3 DEF ProcFits, IsPending, PendingFits, AttemptFits, JudgedFits
<1> QED
  BY <1>1, <1>3

(* A process takes its turn, and what it does to the store and the children *)
(* leaves the others with what they rely on.                                *)
LEMMA OneTurn ==
    ASSUME ProcOK, NEW p \in Procs, NEW s \in States, Goto(p, s), ProcFits(p, s)',
           \A q \in Procs \ {p}, t \in States : proc[q] = t => ProcFits(q, t)',
           \A q \in Procs \ {p}, t \in States :
               proc[q] = t /\ IsPending(t)' => IsPending(t) /\ ~ IsPending(s)'
    PROVE  ProcOK'
<1>1. /\ proc' \in [Procs -> States] /\ proc'[p] = s
      /\ \A q \in Procs \ {p} : proc'[q] = proc[q]
  BY Gone
<1>2. ASSUME NEW q \in Procs PROVE ProcFits(q, proc[q])'
  <2>1. PICK t \in States : t = proc'[q]
    BY <1>1
  <2>2. ProcFits(q, t)'
    BY <1>1, <2>1
  <2> QED
    BY <2>1, <2>2 DEF ProcFits, IsPending, PendingFits, AttemptFits, JudgedFits
<1>3. ASSUME NEW q \in Procs, NEW r \in Procs, IsPending(proc[q])', IsPending(proc[r])'
      PROVE  q = r
  <2>1. PICK t \in States, u \in States : t = proc'[q] /\ u = proc'[r]
    BY <1>1
  <2>2. IsPending(t)' /\ IsPending(u)'
    BY <1>3, <2>1 DEF IsPending
  <2>3. CASE q = p \/ r = p
    BY <1>1, <2>1, <2>2, <2>3
  <2>4. CASE q # p /\ r # p
    <3>1. IsPending(t) /\ IsPending(u) /\ t = proc[q] /\ u = proc[r]
      BY <1>1, <2>1, <2>2, <2>4
    <3> QED
      BY <3>1 DEF ProcOK
  <2> QED
    BY <2>3, <2>4
<1> QED
  BY <1>1, <1>2, <1>3 DEF ProcOK

(* A command that is still to write, and knows the children kids.           *)
CommandFits(s, kids) ==
    /\ s.pc \in {"idle", "mint", "write"}
    /\ s.pc # "idle" => s.kids = kids
    /\ s.pc = "mint" => s.made <= Cardinality(kids)
    /\ s.pc = "write" => Fits(s.out, kids)

LEMMA AfterEntryOK ==
    ASSUME NEW f \in Minting, NEW e \in f.todo, NEW made \in Nat,
           NEW errors \in BOOLEAN, NEW kids \in SUBSET Ids, made <= Cardinality(kids)
    PROVE  /\ AfterEntry(f, e, made, errors, kids) \in States
           /\ CommandFits(AfterEntry(f, e, made, errors, kids), kids)
<1>1. made \in Minted /\ IsFiniteSet(kids)
  BY IdsAssumption, FS_Subset, FS_CardinalityType DEF Minted
<1>2. CASE f.todo # {e}
  <2> DEFINE s == [f EXCEPT !.todo = @ \ {e}, !.made = made, !.errors = errors, !.kids = kids]
  <2>1. s \in Minting /\ s.pc = "mint" /\ s.kids = kids /\ s.made = made
    BY <1>1 DEF Minting
  <2>2. AfterEntry(f, e, made, errors, kids) = s
    BY <1>2 DEF AfterEntry
  <2> HIDE DEF s
  <2> QED
    BY <2>1, <2>2 DEF States, CommandFits
<1>3. CASE f.todo = {e} /\ made = 0
  <2>1. AfterEntry(f, e, made, errors, kids) = Idle
    BY <1>3 DEF AfterEntry
  <2> QED
    BY <2>1 DEF CommandFits, Idle, States
<1>4. CASE f.todo = {e} /\ made # 0
  <2>1. kids # {}
    BY <1>4, FS_EmptySet
  <2>2. AfterEntry(f, e, made, errors, kids) = ToWrite("awaiting", kids, made)
    BY <1>4, <2>1 DEF AfterEntry, DeriveOutcome
  <2>3. Fits("awaiting", kids) /\ "awaiting" \in Outcomes
    BY <2>1 DEF Fits, Outcomes
  <2> QED
    BY <1>1, <2>2, <2>3 DEF ToWrite, States, Writing, CommandFits
<1> QED
  BY <1>2, <1>3, <1>4

LEMMA MintOK == ASSUME FanInv, NEW k \in Keys, Mint(k) PROVE FanInv'
<1> DEFINE f == proc[k]
<1>1. k \in Procs /\ f \in Minting /\ f.kids \subseteq Present /\ f.made <= Cardinality(f.kids)
  BY KeyType, Places DEF FanInv, ProcOK, ProcFits, Mint
<1>2. f.made \in Nat /\ f.errors \in BOOLEAN /\ f.blind \in BOOLEAN /\ f.todo \subseteq Entries
      /\ f.kids \subseteq Ids
  BY <1>1, NoneMade DEF Minting, Minted
<1>3. PICK e \in f.todo :
        \/ /\ Present # Ids
           /\ child' = [child EXCEPT ![NextId] =
                          [entry |-> e, status |-> "active", blind |-> f.blind]]
           /\ Goto(k, AfterEntry(f, e, f.made + 1, f.errors, f.kids \cup {NextId}))
        \/ /\ Goto(k, AfterEntry(f, e, f.made, TRUE, f.kids))
           /\ UNCHANGED child
  BY DEF Mint
<1>4. UNCHANGED <<label, lag, applied, spec, mem, disk, loader, crashes, fan>> /\ proc[k].pc = "mint"
  BY DEF Mint
<1>5. ParentOK'
  BY <1>4, ParentSame DEF FanInv
<1>6. CASE /\ Present # Ids
           /\ child' = [child EXCEPT ![NextId] =
                          [entry |-> e, status |-> "active", blind |-> f.blind]]
           /\ Goto(k, AfterEntry(f, e, f.made + 1, f.errors, f.kids \cup {NextId}))
  <2> DEFINE kids == f.kids \cup {NextId}
             s == AfterEntry(f, e, f.made + 1, f.errors, kids)
  <2>1. /\ child' \in [Ids -> ChildType] /\ Present' = Present \cup {NextId}
        /\ \A c \in Ids : IsTerminal(c) => IsTerminal(c)'
    BY <1>2, <1>3, <1>6, CreatedOK
  <2>2. NextId \in Ids /\ NextId \notin f.kids
    BY <1>1, <1>6, NextIdType
  <2>3. IsFiniteSet(f.kids) /\ Cardinality(kids) = Cardinality(f.kids) + 1
        /\ Cardinality(f.kids) \in Nat
    BY <1>2, <2>2, IdsAssumption, FS_Subset, FS_AddElement, FS_CardinalityType
  <2>4. s \in States /\ CommandFits(s, kids)
    <3>1. f.made + 1 \in Nat /\ f.made + 1 <= Cardinality(kids) /\ kids \in SUBSET Ids
      BY <1>1, <1>2, <2>2, <2>3
    <3> HIDE DEF f, kids
    <3> QED
      BY <1>1, <1>2, <1>3, <3>1, AfterEntryOK
  <2>5. PICK t \in States : t = s
    BY <2>4
  <2>6. ProcFits(k, t)' /\ t.pc # "record"
    BY <1>1, <2>1, <2>4, <2>5 DEF CommandFits, ProcFits, IsPending
  <2>7. NonePending => NonePending'
    <3>1. /\ proc'[k] = t /\ \A q \in Procs \ {k} : proc'[q] = proc[q]
      BY <1>1, <1>6, <2>5, Gone DEF FanInv
    <3> QED
      BY <1>4, <2>6, <3>1 DEF NonePending, IsPending
  <2>8. StoreOK' /\ \A q \in Procs, u \in States : ProcFits(q, u) => ProcFits(q, u)'
    BY <1>4, <2>1, <2>7, ChildrenGrow
  <2>9. ProcOK'
    <3>1. \A q \in Procs \ {k}, u \in States : proc[q] = u => ProcFits(q, u)'
      BY <2>8 DEF FanInv, ProcOK
    <3>2. \A u \in States : IsPending(u)' => IsPending(u) /\ ~ IsPending(t)'
      BY <1>4, <2>6 DEF IsPending
    <3>3. Goto(k, t)
      BY <1>6, <2>5
    <3> HIDE DEF f
    <3> QED
      BY <1>1, <2>6, <3>1, <3>2, <3>3, OneTurn DEF FanInv
  <2> QED
    BY <1>5, <2>8, <2>9 DEF FanInv
<1>7. CASE Goto(k, AfterEntry(f, e, f.made, TRUE, f.kids)) /\ UNCHANGED child
  <2> DEFINE s == AfterEntry(f, e, f.made, TRUE, f.kids)
  <2>1. s \in States /\ CommandFits(s, f.kids)
    BY <1>1, <1>2, <1>3, AfterEntryOK
  <2> HIDE DEF s
  <2>2. s.pc # "record" /\ ProcFits(k, s)
    BY <1>1, <2>1 DEF CommandFits, ProcFits, IsPending
  <2>3. ProcOK'
    BY <1>1, <1>4, <1>7, <2>1, <2>2, TurnOK DEF s
  <2> QED
    BY <1>4, <1>5, <1>7, <2>3, StoreSame DEF FanInv, StoreOK
<1> QED
  BY <1>3, <1>6, <1>7

(* A fan-out is written: what was known of the last one is now history.     *)
LEMMA FanoutWritten ==
    ASSUME FanInv, NEW out \in Outcomes, NEW kids \in SUBSET Ids, kids \subseteq Present,
           fan.cycle < MaxCycles, UNCHANGED <<child, mem, disk, loader, crashes>>,
           fan' = [out |-> out, kids |-> kids, cycle |-> fan.cycle + 1]
    PROVE  /\ StoreOK'
           /\ \A k \in StoreKeys : mem[k].cycle <= fan.cycle /\ disk[k].cycle <= fan.cycle
           /\ \A q \in Procs, t \in States : ProcFits(q, t) => ProcFits(q, t)' /\ ~ IsPending(t)'
<1>1. fan.cycle \in 0..MaxCycles /\ fan' \in Records /\ fan'.cycle = fan.cycle + 1
      /\ fan'.kids = kids
  BY BoundsAssumption DEF FanInv, StoreOK, Records
<1>2. \A k \in StoreKeys : /\ mem[k] \in Records /\ disk[k] \in Records
                           /\ mem[k].cycle <= fan.cycle /\ disk[k].cycle <= fan.cycle
  BY DEF FanInv, StoreOK, RecordFits
<1>3. \A r \in Records : RecordFits(r) => RecordFits(r)'
  BY <1>1 DEF RecordFits, Records
<1>4. StoreOK'
  BY <1>1, <1>2, <1>3 DEF FanInv, StoreOK, Present
<1>5. ASSUME NEW q \in Procs, NEW t \in States, ProcFits(q, t)
      PROVE  ProcFits(q, t)' /\ ~ IsPending(t)'
  <2>1. ~ IsPending(t)'
    BY <1>1, <1>5, Places DEF ProcFits, IsPending, Recording
  <2>2. ASSUME t.pc \in {"labels", "release", "continue"} PROVE JudgedFits(t)'
    BY <1>1, <1>5, <2>2, Places DEF ProcFits, JudgedFits, Judging
  <2>3. t.pc = "record" => t.cycle <= fan'.cycle
    BY <1>1, <1>5, Places DEF ProcFits, Recording
  <2> QED
    BY <1>5, <2>1, <2>2, <2>3 DEF ProcFits, AttemptFits, Present
<1> QED
  BY <1>2, <1>4, <1>5

LEMMA WriteManagingOK == ASSUME FanInv, NEW k \in Keys, WriteManaging(k) PROVE FanInv'
<1> DEFINE f == proc[k]
<1>1. k \in Procs /\ f \in Writing /\ f.kids \subseteq Present /\ Fits(f.out, f.kids)
  BY KeyType, Places DEF FanInv, ProcOK, ProcFits, WriteManaging
<1>2. f.out \in Outcomes /\ f.kids \in SUBSET Ids /\ f.made \in Minted
  BY <1>1 DEF Writing
<1>3. PICK result \in WriteResults :
        /\ VerifiedWrite("spawning", "managing", result)
        /\ Goto(k, IF result = "ok"
                   THEN [pc |-> "record", out |-> f.out, kids |-> f.kids,
                         made |-> f.made, cycle |-> fan.cycle + 1]
                   ELSE Idle)
        /\ fan' = IF result \in {"ok", "torn"}
                  THEN [out |-> f.out, kids |-> f.kids, cycle |-> fan.cycle + 1]
                  ELSE fan
  BY DEF WriteManaging
<1>4. UNCHANGED <<spec, child, mem, disk, loader, crashes>> /\ fan.cycle < MaxCycles
  BY DEF WriteManaging
<1>5. ParentOK'
  BY <1>3, <1>4, VerifiedType DEF FanInv, ParentOK, Labels
<1>6. CASE result \notin {"ok", "torn"}
  <2>1. Goto(k, Idle) /\ UNCHANGED fan
    BY <1>3, <1>6
  <2>2. ProcOK'
    BY <1>1, <1>4, <2>1, IdleFits, TurnOK
  <2> QED
    BY <1>4, <1>5, <2>1, <2>2, StoreSame DEF FanInv, StoreOK
<1>7. ASSUME result \in {"ok", "torn"},
             NEW s \in States, Goto(k, s), ProcFits(k, s)'
      PROVE  FanInv'
  <2>1. fan' = [out |-> f.out, kids |-> f.kids, cycle |-> fan.cycle + 1]
    BY <1>3, <1>7
  <2>2. /\ StoreOK'
        /\ \A q \in Procs, t \in States : ProcFits(q, t) => ProcFits(q, t)' /\ ~ IsPending(t)'
    BY <1>1, <1>2, <1>4, <2>1, FanoutWritten
  <2>3. \A q \in Procs, t \in States : proc[q] = t => ProcFits(q, t)' /\ ~ IsPending(t)'
    BY <2>2 DEF FanInv, ProcOK
  <2>4. ProcOK'
    BY <1>1, <1>7, <2>3, OneTurn DEF FanInv
  <2> QED
    BY <1>5, <2>2, <2>4 DEF FanInv
<1>8. CASE result = "torn"
  <2>1. ProcFits(k, Idle)'
    BY DEF ProcFits, Idle, IsPending
  <2> QED
    BY <1>3, <1>7, <1>8, <2>1, IdleFits
<1>9. CASE result = "ok"
  <2> DEFINE s == [pc |-> "record", out |-> f.out, kids |-> f.kids, made |-> f.made,
                   cycle |-> fan.cycle + 1]
  <2>1. fan.cycle \in 0..MaxCycles
    BY DEF FanInv, StoreOK, Records
  <2>2. s \in States
    BY <1>2, <1>4, <2>1, BoundsAssumption DEF States, Recording
  <2>3. fan' = [out |-> f.out, kids |-> f.kids, cycle |-> fan.cycle + 1]
    BY <1>3, <1>9
  <2>4. \A c \in StoreKeys : mem[c].cycle <= fan.cycle /\ disk[c].cycle <= fan.cycle
                            /\ mem[c] \in Records /\ disk[c] \in Records
    BY DEF FanInv, StoreOK, RecordFits
  <2>5. PICK t \in States : t = s
    BY <2>2
  <2>6. PendingFits(t)'
    BY <1>4, <2>1, <2>3, <2>4, <2>5 DEF PendingFits, Records
  <2>7. ProcFits(k, t)'
    BY <1>1, <1>2, <1>4, <2>1, <2>3, <2>5, <2>6, KeyType DEF ProcFits, IsPending, Present
  <2>8. Goto(k, t)
    BY <1>3, <1>9, <2>5
  <2> QED
    BY <1>7, <1>9, <2>7, <2>8
<1> QED
  BY <1>3, <1>6, <1>8, <1>9

(* The outcome is recorded: by the command that wrote the last fan-out, or  *)
(* late, under a number no evaluation takes for the last one.               *)
LEMMA RecordOutcomeOK == ASSUME FanInv, NEW k \in Keys, RecordOutcome(k) PROVE FanInv'
<1> DEFINE f == proc[k]
<1>1. k \in Procs /\ k \in StoreKeys /\ f \in Recording /\ f.kids \subseteq Present
      /\ Fits(f.out, f.kids) /\ f.cycle <= fan.cycle
      /\ (f.cycle = fan.cycle => PendingFits(f))
  BY KeyType, Places DEF FanInv, ProcOK, ProcFits, RecordOutcome, IsPending
<1>2. PICK out \in {f.out} \cup (IF f.made > 0 THEN {"failed"} ELSE {}), saved \in BOOLEAN :
        LET rec == [out |-> out, cycle |-> f.cycle,
                    kids |-> IF out = "awaiting" THEN f.kids ELSE {}]
        IN  /\ mem' = [mem EXCEPT ![k] = rec]
            /\ disk' = IF saved THEN mem' ELSE disk
            /\ fan' = IF f.cycle = fan.cycle THEN [fan EXCEPT !.out = out] ELSE fan
            /\ Goto(k, IF saved THEN [pc |-> "entry"] ELSE Idle)
  BY DEF RecordOutcome
<1>3. UNCHANGED <<label, lag, applied, spec, child, loader, crashes>> /\ f.pc = "record"
  BY DEF RecordOutcome
<1>4. /\ out \in Outcomes /\ out \in {f.out, "failed"}
      /\ f.kids \in SUBSET Ids /\ f.cycle \in 1..MaxCycles /\ fan.cycle \in 0..MaxCycles
  BY <1>1, <1>2 DEF Recording, Outcomes, FanInv, StoreOK, Records
<1>5. PICK rec \in Records :
        rec = [out |-> out, cycle |-> f.cycle,
               kids |-> IF out = "awaiting" THEN f.kids ELSE {}]
  <2>1. f.cycle \in 0..MaxCycles /\ (IF out = "awaiting" THEN f.kids ELSE {}) \in SUBSET Ids
    BY <1>4, BoundsAssumption
  <2> QED
    BY <1>4, <2>1 DEF Records
<1>6. /\ fan' \in Records /\ fan'.cycle = fan.cycle /\ fan'.kids = fan.kids
      /\ (f.cycle = fan.cycle => fan'.out = out) /\ (f.cycle # fan.cycle => fan' = fan)
  BY <1>2, <1>4 DEF FanInv, StoreOK, Records
<1>7. RecordFits(rec)'
  <2>1. out \notin Held => out = "awaiting" \/ (out = "waived" /\ f.out = "waived")
    BY <1>4 DEF Outcomes, Held
  <2>2. f.cycle = fan.cycle /\ out \notin Held => rec.kids = fan.kids
    BY <1>1, <1>5, <2>1 DEF Fits, PendingFits
  <2> QED
    BY <1>1, <1>4, <1>5, <1>6, <2>2 DEF RecordFits
<1>8. mem' = [mem EXCEPT ![k] = rec] /\ mem' \in [StoreKeys -> Records] /\ mem'[k] = rec
      /\ \A c \in StoreKeys \ {k} : mem'[c] = mem[c]
  BY <1>1, <1>2, <1>5 DEF FanInv, StoreOK
<1>9. disk' \in {disk, mem'} /\ disk' \in [StoreKeys -> Records]
  BY <1>2, <1>8 DEF FanInv, StoreOK
<1>10. \A c \in StoreKeys : RecordFits(mem[c])' /\ RecordFits(disk[c])'
  <2>1. \A c \in StoreKeys, r \in Records :
          r \in {mem[c], disk[c]} => RecordFits(r) /\ (f.cycle = fan.cycle => r.cycle # fan.cycle)
    BY <1>1 DEF FanInv, StoreOK, PendingFits
  <2>2. \A c \in StoreKeys, r \in Records : r \in {mem[c], disk[c]} => RecordFits(r)'
    BY <1>6, <2>1 DEF RecordFits
  <2>3. \A c \in StoreKeys, r \in Records : r \in {mem'[c], disk'[c]} => RecordFits(r)'
    BY <1>7, <1>8, <1>9, <2>2 DEF FanInv, StoreOK
  <2>4. \A c \in StoreKeys : mem'[c] \in Records /\ disk'[c] \in Records
    BY <1>8, <1>9
  <2>5. ASSUME NEW c \in StoreKeys PROVE RecordFits(mem[c])' /\ RecordFits(disk[c])'
    <3>1. PICK m \in Records, d \in Records : m = mem'[c] /\ d = disk'[c]
      BY <2>4
    <3>2. RecordFits(m)' /\ RecordFits(d)'
      BY <2>3, <3>1
    <3> QED
      BY <3>1, <3>2 DEF RecordFits
  <2> QED
    BY <2>5
<1>11. StoreOK'
  <2>1. (fan.cycle = 0 => fan = NoRecord)'
    BY <1>4, <1>6 DEF FanInv, StoreOK
  <2>2. (fan.kids \subseteq Present)'
    BY <1>3, <1>6 DEF FanInv, StoreOK, Present
  <2> QED
    BY <1>3, <1>6, <1>8, <1>9, <1>10, <2>1, <2>2 DEF FanInv, StoreOK
<1>12. (Goto(k, [pc |-> "entry"]) /\ disk' = mem') \/ Goto(k, Idle)
  BY <1>2
<1>13. ASSUME NEW q \in Procs \ {k}, NEW t \in States, proc[q] = t
       PROVE  ProcFits(q, t)' /\ (IsPending(t)' => IsPending(t))
  <2>1. ProcFits(q, t) /\ (IsPending(t)' => IsPending(t))
    BY <1>6, <1>13 DEF FanInv, ProcOK, IsPending
  <2>2. f.cycle = fan.cycle => ~ NonePending /\ ~ IsPending(t)
    BY <1>1, <1>3, <1>13 DEF FanInv, ProcOK, NonePending, IsPending
  <2>3. NonePending => NonePending'
    <3>1. \A u \in Procs \ {k} : proc'[u] = proc[u]
      BY <1>1, <1>12, Gone, IdleFits DEF FanInv, States
    <3>2. proc'[k].pc # "record"
      BY <1>1, <1>12, Gone, IdleFits DEF FanInv, States
    <3> QED
      BY <1>6, <3>1, <3>2 DEF NonePending, IsPending
  <2>4. IsPending(t) => PendingFits(t)'
    <3>1. ASSUME IsPending(t) PROVE PendingFits(t)'
      <4>1. PendingFits(t) /\ rec.cycle # fan.cycle
        BY <1>5, <2>1, <2>2, <3>1 DEF ProcFits
      <4>2. \A c \in StoreKeys : mem'[c].cycle # fan.cycle /\ disk'[c].cycle # fan.cycle
        BY <1>8, <1>9, <4>1 DEF PendingFits
      <4> QED
        BY <1>6, <4>1, <4>2 DEF PendingFits
    <3> QED
      BY <3>1
  <2>5. t.pc \in {"labels", "release", "continue"} => JudgedFits(t)'
    <3>1. ASSUME t.pc \in {"labels", "release", "continue"} PROVE JudgedFits(t)'
      <4>1. JudgedFits(t) /\ fan'.cycle = fan.cycle
        BY <1>6, <2>1, <3>1 DEF ProcFits
      <4>2. AwaitedDone' <=> AwaitedDone
        BY <1>3, <1>6 DEF AwaitedDone, IsTerminal
      <4>3. CASE f.cycle = fan.cycle
        BY <2>2, <4>1, <4>2, <4>3 DEF JudgedFits
      <4>4. CASE f.cycle # fan.cycle
        BY <1>6, <2>3, <4>1, <4>2, <4>4 DEF JudgedFits
      <4> QED
        BY <4>3, <4>4
    <3> QED
      BY <3>1
  <2>6. t.pc = "entry" => disk'[q] = mem'[q]
    BY <1>8, <1>9, <1>13, <2>1, KeyType DEF ProcFits
  <2>7. t.pc = "attempt" => AttemptFits(q, t)'
    BY <1>8, <1>9, <1>13, <2>1, KeyType DEF ProcFits, AttemptFits
  <2> QED
    BY <1>3, <1>6, <2>1, <2>4, <2>5, <2>6, <2>7 DEF ProcFits, Present
<1>14. ProcOK'
  <2>1. ASSUME NEW s \in States, Goto(k, s), ProcFits(k, s)', s.pc # "record"
        PROVE  ProcOK'
    <3>1. ~ IsPending(s)'
      BY <2>1 DEF IsPending
    <3>2. \A q \in Procs \ {k}, t \in States : proc[q] = t => ProcFits(q, t)'
      BY <1>13
    <3>3. \A q \in Procs \ {k}, t \in States :
            proc[q] = t /\ IsPending(t)' => IsPending(t) /\ ~ IsPending(s)'
      BY <1>13, <3>1
    <3>4. k \in Procs /\ ProcOK
      BY <1>1 DEF FanInv
    <3> QED
      BY <2>1, <3>2, <3>3, <3>4, OneTurn
  <2>2. CASE Goto(k, [pc |-> "entry"]) /\ disk' = mem'
    <3>1. [pc |-> "entry"] \in States /\ ProcFits(k, [pc |-> "entry"])'
      BY <2>2 DEF States, ProcFits, IsPending
    <3> QED
      BY <2>1, <2>2, <3>1
  <2>3. CASE Goto(k, Idle)
    <3>1. ProcFits(k, Idle)'
      BY DEF ProcFits, Idle, IsPending
    <3> QED
      BY <2>1, <2>3, <3>1, IdleFits
  <2> QED
    BY <1>12, <2>2, <2>3
<1> QED
  BY <1>3, <1>11, <1>14, ParentSame DEF FanInv

-----------------------------------------------------------------------------
(* The store and the evaluations                                            *)

(* A step that leaves the children, the store and the fan-outs alone.       *)
LEMMA StepOK ==
    ASSUME FanInv, UNCHANGED <<child, mem, disk, crashes, fan>>,
           loader' \in Procs \cup {"unread", "read"}, ParentOK', ProcOK'
    PROVE  FanInv'
  BY StoreSame DEF FanInv

LEMMA QuietTurn ==
    ASSUME FanInv, NEW p \in Procs, NEW s \in States, Goto(p, s), ProcFits(p, s),
           s.pc # "record",
           UNCHANGED <<label, lag, applied, spec, child, mem, disk, loader, crashes, fan>>
    PROVE  FanInv'
<1>1. ProcOK' /\ ParentOK'
  BY TurnOK, ParentSame DEF FanInv
<1> QED
  BY <1>1, StepOK DEF FanInv, StoreOK

LEMMA IdleTurn ==
    ASSUME FanInv, NEW p \in Procs, Goto(p, Idle),
           UNCHANGED <<label, lag, applied, spec, child, mem, disk, loader, crashes, fan>>
    PROVE  FanInv'
  BY IdleFits, QuietTurn

LEMMA BeginLoadOK == ASSUME FanInv, NEW p \in Procs, BeginLoad(p) PROVE FanInv'
<1>1. ParentOK' /\ ProcOK'
  BY ParentSame, ProcSame DEF BeginLoad, FanInv
<1> QED
  BY <1>1, StepOK DEF BeginLoad

LEMMA EndLoadOK == ASSUME FanInv, EndLoad PROVE FanInv'
<1>1. /\ mem' \in [StoreKeys -> Records]
      /\ \A k \in StoreKeys : mem'[k] \in {mem[k], disk[k]}
      /\ \A k \in StoreKeys : disk[k] = mem[k] => mem'[k] = mem[k]
  BY DEF EndLoad, FanInv, StoreOK
<1>2. UNCHANGED <<label, lag, applied, spec, child, disk, proc, crashes, fan>> /\ loader' = "read"
  BY DEF EndLoad
<1>3. StoreOK'
  BY <1>1, <1>2 DEF FanInv, StoreOK, RecordFits, Present
<1>4. ASSUME NEW q \in Procs PROVE ProcFits(q, proc[q])'
  <2>1. ProcFits(q, proc[q])
    BY DEF FanInv, ProcOK
  <2>2. IsPending(proc[q]) => PendingFits(proc[q])'
    BY <1>1, <1>2, <2>1 DEF ProcFits, PendingFits
  <2>3. proc[q].pc = "attempt" => AttemptFits(q, proc[q])'
    BY <1>1, <1>2, <2>1, KeyType DEF ProcFits, AttemptFits
  <2>4. proc[q].pc = "entry" => disk'[q] = mem'[q]
    BY <1>1, <1>2, <2>1, KeyType DEF ProcFits
  <2>5. proc[q].pc \in {"labels", "release", "continue"} => JudgedFits(proc[q])'
    BY <1>2, <2>1 DEF ProcFits, JudgedFits, AwaitedDone, IsTerminal, NonePending, IsPending
  <2> QED
    BY <1>2, <2>1, <2>2, <2>3, <2>4, <2>5 DEF ProcFits, IsPending, Present
<1>5. ProcOK'
  BY <1>2, <1>4 DEF FanInv, ProcOK, IsPending
<1> QED
  BY <1>2, <1>3, <1>5, ParentSame DEF FanInv

LEMMA EvaluateEntryOK == ASSUME FanInv, NEW k \in Keys, EvaluateEntry(k) PROVE FanInv'
<1> DEFINE s == [pc |-> "attempt", kind |-> "entry", filter |-> mem[k].kids]
<1>1. k \in Procs /\ k \in StoreKeys /\ disk[k] = mem[k] /\ mem[k].kids \in SUBSET Ids
  BY KeyType DEF EvaluateEntry, FanInv, ProcOK, ProcFits, StoreOK, Records
<1>2. s \in States /\ ProcFits(k, s)
  BY <1>1 DEF States, Attempting, ProcFits, AttemptFits, IsPending
<1>3. Goto(k, Idle) \/ Goto(k, s)
  BY DEF EvaluateEntry
<1>4. UNCHANGED <<label, lag, applied, spec, child, mem, disk, loader, crashes, fan>>
  BY DEF EvaluateEntry
<1> QED
  BY <1>1, <1>2, <1>3, <1>4, IdleTurn, QuietTurn

LEMMA StartOK ==
    ASSUME FanInv, NEW p \in Procs,
           StartChild(p) \/ StartPoll(p) \/ (p \in Keys /\ StartContinue(p))
    PROVE  FanInv'
<1>1. PICK kind \in {"child", "poll", "continue"} :
        /\ Goto(p, [pc |-> "attempt", kind |-> kind, filter |-> {}])
        /\ kind = "continue" => p \in Keys
  BY DEF StartChild, StartPoll, StartContinue
<1> DEFINE s == [pc |-> "attempt", kind |-> kind, filter |-> {}]
<1>2. s \in States /\ ProcFits(p, s) /\ s.pc # "record"
  BY <1>1 DEF States, Attempting, ProcFits, AttemptFits, IsPending
<1>3. UNCHANGED <<label, lag, applied, spec, child, mem, disk, loader, crashes, fan>>
  BY DEF StartChild, StartPoll, StartContinue
<1> QED
  BY <1>1, <1>2, <1>3, QuietTurn

(* Whatever an attempt goes by, a record of the store decides it.           *)
LEMMA Deciding ==
    ASSUME FanInv, NEW p \in Procs, proc[p].pc = "attempt", Satisfied(p)
    PROVE  \E k \in StoreKeys : /\ DecidingRecord(p).cycle = mem[k].cycle
                               /\ mem[k].out \notin Held
                               /\ AllTerminal(mem[k].kids)
<1>1. AttemptFits(p, proc[p]) /\ proc[p] \in Attempting /\ KeyOf(p) \in StoreKeys
  BY Places, KeyType DEF FanInv, ProcOK, ProcFits
<1>2. CASE proc[p].filter # {}
  <2>1. p \in Keys /\ proc[p].filter = mem[p].kids /\ p \in StoreKeys /\ KeyOf(p) = p
    BY <1>1, <1>2, KeyType DEF AttemptFits, Attempting, KeyOf
  <2>2. mem[p].out = "awaiting"
    BY <1>2, <2>1 DEF FanInv, StoreOK, RecordFits
  <2>3. DecidingRecord(p).cycle = mem[p].cycle /\ DecidingRecord(p).kids = mem[p].kids
    BY <1>2, <2>1 DEF DecidingRecord, NoRecord
  <2> QED
    BY <2>1, <2>2, <2>3 DEF Satisfied, Held
<1>3. CASE proc[p].filter = {}
  <2>1. PICK k \in StoreKeys : DecidingRecord(p) = mem[k]
    BY <1>1, <1>3 DEF DecidingRecord, StoreKeys
  <2> QED
    BY <2>1 DEF Satisfied
<1> QED
  BY <1>2, <1>3

LEMMA AttemptOK == ASSUME FanInv, NEW p \in Procs, Attempt(p) PROVE FanInv'
<1>1. UNCHANGED <<label, lag, applied, spec, child, mem, disk, loader, crashes, fan>>
      /\ proc[p].pc = "attempt"
  BY DEF Attempt
<1>2. CASE Goto(p, Idle)
  BY <1>1, <1>2, IdleTurn
<1>3. CASE /\ Satisfied(p)
           /\ Goto(p, [pc |-> IF proc[p].kind = "continue" THEN "continue" ELSE "labels",
                       seen |-> DecidingRecord(p).cycle, at |-> fan.cycle])
  <2>1. PICK k \in StoreKeys : /\ DecidingRecord(p).cycle = mem[k].cycle
                              /\ mem[k].out \notin Held
                              /\ AllTerminal(mem[k].kids)
    BY <1>1, <1>3, Deciding
  <2> DEFINE s == [pc |-> IF proc[p].kind = "continue" THEN "continue" ELSE "labels",
                   seen |-> mem[k].cycle, at |-> fan.cycle]
  <2>2. /\ mem[k] \in Records /\ RecordFits(mem[k]) /\ fan \in Records
        /\ fan.cycle = 0 => fan = NoRecord
        /\ fan.kids \subseteq Present
    BY DEF FanInv, StoreOK
  <2>3. s \in States
    BY <2>2 DEF States, Judging, Records
  <2>4. mem[k].cycle = 0 => AwaitedDone
    BY <2>1, <2>2 DEF RecordFits, NoRecord, AllTerminal, AwaitedDone
  <2>5. mem[k].cycle = fan.cycle => AwaitedDone /\ fan.out \notin Held
    <3>1. ASSUME mem[k].cycle = fan.cycle PROVE AwaitedDone /\ fan.out \notin Held
      <4>1. mem[k].kids = fan.kids /\ fan.out \notin Held
        BY <2>1, <2>2, <3>1 DEF RecordFits
      <4> QED
        BY <2>1, <2>2, <4>1 DEF AllTerminal, AwaitedDone
    <3> QED
      BY <3>1
  <2>6. mem[k].cycle = fan.cycle => NonePending
    BY DEF NonePending, FanInv, ProcOK, ProcFits, PendingFits
  <2>7. JudgedFits(s)
    BY <2>2, <2>4, <2>5, <2>6 DEF JudgedFits, Records
  <2>8. AttemptFits(p, proc[p])
    BY <1>1 DEF FanInv, ProcOK, ProcFits
  <2>9. ProcFits(p, s)
    BY <2>7, <2>8 DEF ProcFits, AttemptFits, IsPending
  <2> QED
    BY <1>1, <1>3, <2>1, <2>3, <2>9, QuietTurn
<1> QED
  BY <1>2, <1>3 DEF Attempt

LEMMA CheckLabelsOK == ASSUME FanInv, NEW p \in Procs, CheckLabels(p) PROVE FanInv'
<1> DEFINE s == [proc[p] EXCEPT !.pc = "release"]
<1>1. proc[p] \in Judging /\ ProcFits(p, proc[p]) /\ proc[p].pc = "labels"
  BY Places DEF CheckLabels, FanInv, ProcOK
<1>2. s \in States /\ s.seen = proc[p].seen /\ s.at = proc[p].at /\ s.pc = "release"
  BY <1>1 DEF Judging, States
<1>3. ProcFits(p, s)
  BY <1>1, <1>2 DEF ProcFits, JudgedFits, IsPending
<1>4. UNCHANGED <<label, lag, applied, spec, child, mem, disk, loader, crashes, fan>>
  BY DEF CheckLabels
<1>5. Goto(p, Idle) \/ Goto(p, s)
  BY DEF CheckLabels
<1> QED
  BY <1>2, <1>3, <1>4, <1>5, IdleTurn, QuietTurn

(* The two writes that release a parent.                                    *)
LEMMA ReleaseOK ==
    ASSUME FanInv, NEW p \in Procs, Release(p) \/ WriteReview(p)
    PROVE  FanInv'
<1>1. UNCHANGED <<spec, child, mem, disk, loader, crashes, fan>> /\ Goto(p, Idle)
  BY DEF Release, WriteReview
<1>2. ParentOK'
  <2>1. CASE Release(p)
    BY <1>1, <2>1 DEF Release, FanInv, ParentOK, Labels
  <2>2. CASE WriteReview(p)
    BY <1>1, <2>2, VerifiedType DEF WriteReview, FanInv, ParentOK, Labels
  <2> QED
    BY <2>1, <2>2
<1>3. ProcOK'
  BY <1>1, IdleFits, TurnOK
<1> QED
  BY <1>1, <1>2, <1>3, StepOK DEF FanInv, StoreOK

-----------------------------------------------------------------------------
(* The environment                                                          *)

LEMMA ChildMovesOK == ASSUME FanInv, NEW c \in Ids, ChildMoves(c) PROVE FanInv'
<1>1. PICK s \in {"done", "escaped"} :
        child[c].status = "active" /\ child' = [child EXCEPT ![c].status = s]
  BY DEF ChildMoves
<1>2. UNCHANGED <<label, lag, applied, spec, mem, disk, loader, proc, crashes, fan>>
  BY DEF ChildMoves
<1>3. /\ child' \in [Ids -> ChildType]
      /\ \A d \in Ids \ {c} : child'[d] = child[d]
      /\ child'[c].status = s
  BY <1>1 DEF FanInv, StoreOK, ChildType, Statuses
<1>4. Present' = Present
  BY <1>1, <1>3 DEF Present
<1>5. \A d \in Ids : IsTerminal(d) => IsTerminal(d)'
  BY <1>1, <1>3 DEF IsTerminal
<1>6. NonePending => NonePending'
  BY <1>2 DEF NonePending, IsPending
<1>7. StoreOK' /\ \A q \in Procs, t \in States : ProcFits(q, t) => ProcFits(q, t)'
  BY <1>2, <1>3, <1>4, <1>5, <1>6, ChildrenGrow
<1>8. ProcOK'
  <2>1. ASSUME NEW q \in Procs PROVE ProcFits(q, proc[q])'
    <3>1. PICK t \in States : t = proc[q]
      BY DEF FanInv, ProcOK
    <3>2. ProcFits(q, t)'
      BY <1>7, <3>1 DEF FanInv, ProcOK
    <3> QED
      BY <1>2, <3>1, <3>2 DEF ProcFits, IsPending, PendingFits, AttemptFits, JudgedFits
  <2> QED
    BY <1>2, <2>1 DEF FanInv, ProcOK, IsPending
<1> QED
  BY <1>2, <1>7, <1>8, ParentSame DEF FanInv

LEMMA CrashOK == ASSUME FanInv, Crash PROVE FanInv'
<1>1. /\ crashes < MaxCrashes /\ crashes' = crashes + 1
      /\ proc' = [p \in Procs |-> Idle] /\ applied' = "none"
      /\ mem' = [k \in DOMAIN mem |-> NoRecord] /\ disk' \in {disk, mem'}
      /\ loader' = "unread" /\ UNCHANGED <<label, lag, spec, child, fan>>
  BY DEF Crash
<1>2. NoRecord \in Records /\ RecordFits(NoRecord)
  BY BoundsAssumption DEF NoRecord, Records, RecordFits, FanInv, StoreOK
<1>3. mem' = [k \in StoreKeys |-> NoRecord]
  BY <1>1 DEF FanInv, StoreOK
<1>4. StoreOK'
  <2>1. \A k \in StoreKeys : mem'[k] = NoRecord /\ disk'[k] \in {disk[k], NoRecord}
    BY <1>1, <1>3
  <2>2. \A k \in StoreKeys : RecordFits(mem[k])' /\ RecordFits(disk[k])'
    BY <1>1, <1>2, <2>1 DEF FanInv, StoreOK, RecordFits
  <2>3. crashes' \in 0..MaxCrashes
    BY <1>1, BoundsAssumption DEF FanInv, StoreOK
  <2> QED
    BY <1>1, <1>2, <1>3, <2>2, <2>3 DEF FanInv, StoreOK, Present
<1>5. ProcOK'
  BY <1>1, IdleFits DEF ProcOK, ProcFits, IsPending, Idle, States
<1> QED
  BY <1>1, <1>4, <1>5 DEF FanInv, ParentOK

LEMMA ParentMovesOK == ASSUME FanInv, Rewind \/ CatchUp \/ ExpireApplied PROVE FanInv'
<1>1. UNCHANGED <<child, mem, disk, loader, proc, crashes, fan>>
  BY DEF Rewind, CatchUp, ExpireApplied
<1>2. ParentOK'
  <2>1. CASE Rewind
    BY <2>1, VerifiedType DEF Rewind, FanInv, ParentOK, Labels, WriteResults
  <2>2. CASE CatchUp \/ ExpireApplied
    BY <2>2 DEF CatchUp, ExpireApplied, FanInv, ParentOK
  <2> QED
    BY <2>1, <2>2
<1>3. ProcOK'
  BY <1>1, ProcSame DEF FanInv
<1> QED
  BY <1>1, <1>2, <1>3, StepOK DEF FanInv, StoreOK

LEMMA InitOK == Init => FanInv
<1> SUFFICES ASSUME Init PROVE FanInv
  OBVIOUS
<1>1. ParentOK
  BY DEF Init, ParentOK, Labels
<1>2. StoreOK
  <2>1. NoRecord \in Records /\ 0 \in 0..MaxCrashes
    BY BoundsAssumption DEF NoRecord, Records
  <2>2. RecordFits(NoRecord) /\ fan.kids \subseteq Present
    BY DEF Init, RecordFits, NoRecord
  <2>3. child \in [Ids -> ChildType]
    BY DEF Init, ChildType, Statuses
  <2> QED
    BY <2>1, <2>2, <2>3 DEF Init, StoreOK, StoreKeys
<1>3. ProcOK
  BY IdleFits DEF Init, ProcOK
<1> QED
  BY <1>1, <1>2, <1>3 DEF FanInv

LEMMA NextOK == FanInv /\ [Next]_vars => FanInv'
<1> SUFFICES ASSUME FanInv, [Next]_vars PROVE FanInv'
  OBVIOUS
<1>1. ASSUME NEW k \in Keys,
             \/ BeginFanout(k) \/ Mint(k) \/ WriteManaging(k) \/ RecordOutcome(k)
             \/ EvaluateEntry(k) \/ StartContinue(k) \/ WriteReview(k)
      PROVE  FanInv'
  BY <1>1, KeyType, BeginFanoutOK, MintOK, WriteManagingOK, RecordOutcomeOK, EvaluateEntryOK,
     StartOK, ReleaseOK
<1>2. ASSUME NEW j \in Jobs, StartChild(j) \/ StartPoll(j) PROVE FanInv'
  BY <1>2, KeyType, StartOK
<1>3. ASSUME NEW p \in Procs, BeginLoad(p) \/ Attempt(p) \/ CheckLabels(p) \/ Release(p)
      PROVE  FanInv'
  BY <1>3, BeginLoadOK, AttemptOK, CheckLabelsOK, ReleaseOK
<1>4. ASSUME NEW c \in Ids, ChildMoves(c) PROVE FanInv'
  BY <1>4, ChildMovesOK
<1>5. CASE EndLoad
  BY <1>5, EndLoadOK
<1>6. CASE Rewind \/ CatchUp \/ ExpireApplied
  BY <1>6, ParentMovesOK
<1>7. CASE Crash
  BY <1>7, CrashOK
<1>8. CASE UNCHANGED vars
  <2>1. ParentOK' /\ ProcOK'
    BY <1>8, ParentSame, ProcSame DEF FanInv, vars
  <2> QED
    BY <1>8, <2>1, StepOK DEF vars, FanInv, StoreOK
<1> QED
  BY <1>1, <1>2, <1>3, <1>4, <1>5, <1>6, <1>7, <1>8 DEF Next

LEMMA Invariant == Spec => []FanInv
  BY InitOK, NextOK, PTL DEF Spec

(* Every variable keeps to the values the model gives it.                   *)
THEOREM TypeCorrect == Spec => []TypeOK
<1>1. FanInv => TypeOK
  BY DEF FanInv, ParentOK, StoreOK, ProcOK, TypeOK, ChildType, StoreKeys
<1> QED
  BY <1>1, Invariant, PTL

-----------------------------------------------------------------------------
(* Who releases a parent, and what he knows                                 *)

(* Only an evaluation that writes after its judgement, or a manual          *)
(* continue, takes the parent from the barrier state to the next one.       *)
LEMMA Releaser ==
    ASSUME FanInv, [Next]_vars, ParentReleased
    PROVE  \E p \in Procs : Releases(p) /\ JudgedFits(proc[p])
<1>1. ASSUME NEW p \in Procs, Release(p) \/ WriteReview(p)
      PROVE  Releases(p) /\ JudgedFits(proc[p])
  <2>1. Goto(p, Idle) /\ proc[p].pc \in {"release", "continue"}
    BY <1>1 DEF Release, WriteReview
  <2> QED
    BY <2>1, IdleFits, Gone DEF Releases, FanInv, ProcOK, ProcFits
<1>2. ASSUME NEW k \in Keys,
             \/ BeginFanout(k) \/ Mint(k) \/ WriteManaging(k) \/ RecordOutcome(k)
             \/ EvaluateEntry(k) \/ StartContinue(k)
      PROVE  FALSE
  BY <1>2 DEF ParentReleased, BeginFanout, Mint, WriteManaging, VerifiedWrite, WriteResults,
              RecordOutcome, EvaluateEntry, StartContinue
<1>3. ASSUME NEW p \in Procs,
             \/ StartChild(p) \/ StartPoll(p) \/ BeginLoad(p) \/ Attempt(p) \/ CheckLabels(p)
      PROVE  FALSE
  BY <1>3 DEF ParentReleased, StartChild, StartPoll, BeginLoad, Attempt, CheckLabels
<1>4. ASSUME \/ EndLoad \/ Rewind \/ CatchUp \/ ExpireApplied \/ Crash \/ UNCHANGED vars
             \/ \E c \in Ids : ChildMoves(c)
      PROVE  FALSE
  BY <1>4 DEF ParentReleased, EndLoad, Rewind, VerifiedWrite, CatchUp, ExpireApplied, Crash,
              vars, ChildMoves
<1> QED
  BY <1>1, <1>2, <1>3, <1>4, KeyType DEF Next

(* An evaluation that knows the record of the last fan-out, or found none,  *)
(* releases the parent only when every child that fan-out waits for has     *)
(* finished, for any number of evaluations, restarts and rewinds.           *)
THEOREM ReleaseWaits == Spec => AwaitedChildrenDone
<1>1. ASSUME FanInv, [Next]_vars, ParentReleased
      PROVE  \E p \in Procs : /\ Releases(p)
                              /\ UpToDate(p) \/ Unrecorded(p) => \A c \in fan.kids : IsTerminal(c)
  BY <1>1, Releaser DEF JudgedFits, UpToDate, Unrecorded, AwaitedDone
<1> QED
  BY <1>1, Invariant, PTL DEF AwaitedChildrenDone, Spec

(* An evaluation that knows the record of a fan-out that was refused, waits *)
(* for an approval or failed never releases the parent.                     *)
THEOREM HeldStays == Spec => HeldParentStays
<1>1. ASSUME FanInv, [Next]_vars, ParentReleased
      PROVE  \E p \in Procs : Releases(p) /\ (UpToDate(p) => fan.out \notin Held)
  BY <1>1, Releaser DEF JudgedFits, UpToDate
<1> QED
  BY <1>1, Invariant, PTL DEF HeldParentStays, Spec

-----------------------------------------------------------------------------
(* Children and their entries                                               *)

(* A command that read the children mints only entries that none of them    *)
(* fills.                                                                   *)
MintKnows ==
    \A k \in Keys : proc[k].pc = "mint" /\ ~ proc[k].blind =>
        \A e \in proc[k].todo, c \in Present : child[c].entry # e \/ IsEscapedSpawnChild(c)

MintInv == NoDoubleMint /\ MintKnows

(* Commands that do not mint now do not disturb it.                         *)
LEMMA NoMintOK ==
    ASSUME MintInv, UNCHANGED child,
           \A k \in Keys : proc'[k] = proc[k] \/ proc'[k].pc # "mint"
    PROVE  MintInv'
  BY DEF MintInv, NoDoubleMint, MintKnows, Present, IsEscapedSpawnChild, NativeName

LEMMA BeginFanoutMintOK ==
    ASSUME FanInv, MintInv, NEW k \in Keys, BeginFanout(k)
    PROVE  MintInv'
<1>1. UNCHANGED child /\ k \in Procs
  BY KeyType DEF BeginFanout
<1>2. proc' = [proc EXCEPT ![k] = proc'[k]]
  BY <1>1 DEF BeginFanout, Goto, FanInv, ProcOK
<1>3. ASSUME proc'[k].pc = "mint", ~ proc'[k].blind
      PROVE  \A e \in proc'[k].todo, c \in Present :
                child[c].entry # e \/ IsEscapedSpawnChild(c)
  <2>1. PICK existing \in ExistingChildren :
          proc'[k] = [pc |-> "mint", todo |-> ToSpawn(existing), kids |-> Matched(existing),
                      made |-> 0, errors |-> FALSE, blind |-> existing # Present]
    <3>1. \A s : Goto(k, s) => proc'[k] = s
      BY <1>1 DEF Goto, FanInv, ProcOK
    <3>2. /\ \A kids, v : Stopped(v, kids).pc # "mint"
          /\ \A kids, v, made : ToWrite(v, kids, made).pc # "mint"
      BY DEF Stopped, ToWrite
    <3>3. CASE Goto(k, ToWrite("failed", {}, 0))
      BY <1>3, <3>1, <3>2, <3>3
    <3>4. CASE \E existing \in ExistingChildren :
                 \/ Goto(k, ToWrite("awaiting", Matched(existing), 0))
                 \/ \E v \in Verdicts : Goto(k, Stopped(v, Matched(existing)))
      BY <1>3, <3>1, <3>2, <3>4
    <3>5. CASE \E existing \in ExistingChildren :
                 Goto(k, [pc |-> "mint", todo |-> ToSpawn(existing), kids |-> Matched(existing),
                          made |-> 0, errors |-> FALSE, blind |-> existing # Present])
      BY <3>1, <3>5
    <3> QED
      BY <3>3, <3>4, <3>5 DEF BeginFanout
  <2>2. existing = Present /\ proc'[k].todo = ToSpawn(existing)
    <3>1. proc'[k].blind = (existing # Present) /\ proc'[k].todo = ToSpawn(existing)
      BY <2>1
    <3> QED
      BY <1>3, <3>1
  <2> QED
    BY <2>2 DEF ToSpawn, Matched
<1>4. \A l \in Keys \ {k} : proc'[l] = proc[l]
  BY <1>1, <1>2, KeyType DEF FanInv, ProcOK
<1>5. MintKnows'
  BY <1>1, <1>3, <1>4 DEF MintInv, MintKnows, Present, IsEscapedSpawnChild, NativeName
<1> QED
  BY <1>1, <1>5 DEF MintInv, NoDoubleMint, Present, IsEscapedSpawnChild, NativeName

LEMMA MintMintOK ==
    ASSUME FanInv, MintInv, NEW k \in Keys, \A l \in Keys : l = k, Mint(k)
    PROVE  MintInv'
<1> DEFINE f == proc[k]
<1>1. k \in Procs /\ f \in Minting
  BY KeyType, Places DEF FanInv, ProcOK, Mint
<1>2. PICK e \in f.todo :
        \/ /\ Present # Ids
           /\ child' = [child EXCEPT ![NextId] =
                          [entry |-> e, status |-> "active", blind |-> f.blind]]
           /\ Goto(k, AfterEntry(f, e, f.made + 1, f.errors, f.kids \cup {NextId}))
        \/ /\ Goto(k, AfterEntry(f, e, f.made, TRUE, f.kids))
           /\ UNCHANGED child
  BY DEF Mint
<1>3. ASSUME NEW made, NEW errors, NEW kids, Goto(k, AfterEntry(f, e, made, errors, kids)),
             proc'[k].pc = "mint"
      PROVE  proc'[k].blind = f.blind /\ proc'[k].todo = f.todo \ {e}
  BY <1>1, <1>3 DEF AfterEntry, Goto, FanInv, ProcOK, Minting, Idle, ToWrite
<1>4. proc'[k].pc = "mint" => proc'[k].blind = f.blind /\ proc'[k].todo = f.todo \ {e}
  BY <1>2, <1>3
<1>5. e \in Entries /\ f.blind \in BOOLEAN
  BY <1>1 DEF Minting
<1>6. ~ f.blind => \A x \in f.todo, c \in Present : child[c].entry # x \/ IsEscapedSpawnChild(c)
  BY DEF MintInv, MintKnows, Mint
<1>7. CASE UNCHANGED child
  BY <1>4, <1>6, <1>7
     DEF MintInv, NoDoubleMint, MintKnows, Present, IsEscapedSpawnChild, NativeName
<1>8. CASE /\ Present # Ids
           /\ child' = [child EXCEPT ![NextId] =
                          [entry |-> e, status |-> "active", blind |-> f.blind]]
  <2>1. /\ Present' = Present \cup {NextId} /\ \A c \in Present : child'[c] = child[c]
    BY <1>5, <1>8, CreatedOK
  <2>2. child'[NextId] = [entry |-> e, status |-> "active", blind |-> f.blind]
    BY <1>8, NextIdType DEF FanInv, StoreOK
  <2>3. \A c \in Present : IsEscapedSpawnChild(c)' = IsEscapedSpawnChild(c)
    BY <2>1 DEF IsEscapedSpawnChild, NativeName
  <2>4. NoDoubleMint'
    <3> SUFFICES ASSUME NEW c \in Present', NEW d \in Present', c # d,
                        child'[c].entry = child'[d].entry,
                        ~ IsEscapedSpawnChild(c)', ~ IsEscapedSpawnChild(d)'
                 PROVE  child'[c].blind \/ child'[d].blind
      BY DEF NoDoubleMint
    <3>1. CASE c \in Present /\ d \in Present
      BY <2>1, <2>3, <3>1 DEF MintInv, NoDoubleMint
    <3>2. CASE c \notin Present \/ d \notin Present
      BY <1>2, <1>6, <2>1, <2>2, <2>3, <3>2
    <3> QED
      BY <3>1, <3>2
  <2>5. MintKnows'
    <3> SUFFICES ASSUME proc'[k].pc = "mint", ~ proc'[k].blind,
                        NEW x \in proc'[k].todo, NEW c \in Present'
                 PROVE  child'[c].entry # x \/ IsEscapedSpawnChild(c)'
      BY DEF MintKnows
    <3>1. x \in f.todo \ {e} /\ ~ f.blind
      BY <1>4
    <3> QED
      BY <1>6, <2>1, <2>2, <2>3, <3>1
  <2> QED
    BY <2>4, <2>5 DEF MintInv
<1> QED
  BY <1>2, <1>7, <1>8

LEMMA ChildMovesMintOK ==
    ASSUME FanInv, MintInv, NEW c \in Ids, ChildMoves(c)
    PROVE  MintInv'
<1>1. PICK s \in {"done", "escaped"} :
        child[c].status = "active" /\ child' = [child EXCEPT ![c].status = s]
  BY DEF ChildMoves
<1>2. /\ Present' = Present /\ proc' = proc
      /\ \A d \in Ids : child'[d].entry = child[d].entry /\ child'[d].blind = child[d].blind
  BY <1>1 DEF ChildMoves, FanInv, StoreOK, ChildType, Present
<1>3. \A d \in Present : d \in Ids /\ (IsEscapedSpawnChild(d) => IsEscapedSpawnChild(d)')
  BY <1>1 DEF FanInv, StoreOK, ChildType, Present, IsEscapedSpawnChild, NativeName
<1> QED
  BY <1>2, <1>3 DEF MintInv, NoDoubleMint, MintKnows

LEMMA NextMintOK ==
    ASSUME \A k, l \in Keys : k = l, FanInv, MintInv, [Next]_vars
    PROVE  MintInv'
<1>1. ASSUME NEW k \in Keys, BeginFanout(k) \/ Mint(k) PROVE MintInv'
  BY <1>1, BeginFanoutMintOK, MintMintOK
<1>2. ASSUME NEW p \in Procs,
             \/ p \in Keys /\ (WriteManaging(p) \/ RecordOutcome(p) \/ EvaluateEntry(p)
                               \/ StartContinue(p) \/ WriteReview(p))
             \/ StartChild(p) \/ StartPoll(p) \/ Attempt(p) \/ CheckLabels(p) \/ Release(p)
      PROVE  MintInv'
  <2>1. ASSUME NEW s, Goto(p, s), s.pc # "mint", UNCHANGED child PROVE MintInv'
    <3>1. \A q \in Procs : proc'[q] = proc[q] \/ proc'[q].pc # "mint"
      BY <2>1 DEF Goto, FanInv, ProcOK
    <3> QED
      BY <2>1, <3>1, NoMintOK, KeyType
  <2>2. Idle.pc # "mint" /\ [pc |-> "entry"].pc # "mint"
    BY DEF Idle
  <2>3. CASE StartChild(p) \/ StartPoll(p) \/ StartContinue(p)
    BY <2>1, <2>3 DEF StartChild, StartPoll, StartContinue
  <2>4. CASE Release(p) \/ WriteReview(p)
    BY <2>1, <2>2, <2>4 DEF Release, WriteReview
  <2>5. CASE EvaluateEntry(p)
    BY <2>1, <2>2, <2>5 DEF EvaluateEntry
  <2>6. CASE RecordOutcome(p)
    BY <2>1, <2>2, <2>6 DEF RecordOutcome
  <2>7. CASE WriteManaging(p)
    BY <2>1, <2>2, <2>7 DEF WriteManaging
  <2>8. CASE Attempt(p)
    BY <2>1, <2>2, <2>8 DEF Attempt
  <2>9. CASE CheckLabels(p)
    <3>1. proc[p] \in Judging
      BY <2>9, Places DEF CheckLabels, FanInv, ProcOK
    <3>2. [proc[p] EXCEPT !.pc = "release"].pc # "mint"
      BY <3>1 DEF Judging
    <3> QED
      BY <2>1, <2>2, <2>9, <3>2 DEF CheckLabels
  <2> QED
    BY <1>2, <2>3, <2>4, <2>5, <2>6, <2>7, <2>8, <2>9
<1>3. ASSUME \/ EndLoad \/ Rewind \/ CatchUp \/ ExpireApplied \/ Crash \/ UNCHANGED vars
             \/ \E p \in Procs : BeginLoad(p)
      PROVE  MintInv'
  <2>1. UNCHANGED child /\ \A k \in Keys : proc'[k] = proc[k] \/ proc'[k].pc # "mint"
    BY <1>3, KeyType, IdleFits DEF EndLoad, Rewind, CatchUp, ExpireApplied, Crash, vars, BeginLoad
  <2> QED
    BY <2>1, NoMintOK
<1> QED
  BY <1>1, <1>2, <1>3, ChildMovesMintOK, KeyType DEF Next

(* When every command names the parent in the same way, so that one ticket  *)
(* lock orders them, no entry of the spec gets a second child while it has  *)
(* one that fills its slot, from a fan-out that read the children there     *)
(* were: only an escaped child in a column of that name is replaced.        *)
THEOREM OneChildPerEntry ==
    ASSUME \A k, l \in Keys : k = l
    PROVE  Spec => []NoDoubleMint
<1>1. Init => MintInv
  BY KeyType DEF Init, MintInv, NoDoubleMint, MintKnows, Present, Idle
<1>2. FanInv /\ MintInv /\ [Next]_vars => MintInv'
  BY NextMintOK
<1>3. MintInv => NoDoubleMint
  BY DEF MintInv
<1> QED
  BY <1>1, <1>2, <1>3, Invariant, PTL DEF Spec

=============================================================================
