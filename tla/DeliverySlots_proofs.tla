------------------------- MODULE DeliverySlots_proofs -------------------------
(***************************************************************************)
(* Proofs about DeliverySlots for any finite set of deliveries and any      *)
(* limit.  The count of slots is not the number of hand-offs under way:     *)
(* handing a slot on counts it again.  It is never below that number        *)
(* (Counted), and that suffices for the limit, as a slot is only taken when *)
(* the count is below it.  That handing on keeps the number needs that who  *)
(* is in line waits and stands there once (InLine).                         *)
(***************************************************************************)
EXTENDS DeliverySlots, FiniteSetTheorems, TLAPS

\* Finitely many callers, and a limit that is a number.
Bounded == IsFiniteSet(Deliveries) /\ MaxInFlight \in Nat

InLine ==
    /\ \A i \in 1..Len(waitQueue) : state[waitQueue[i]] = "waiting"
    /\ \A i, j \in 1..Len(waitQueue) : waitQueue[i] = waitQueue[j] => i = j

Counted == Cardinality(Delivering) <= active

IInv == TypeOK /\ InLine /\ Counted /\ NeverOverLimit

-----------------------------------------------------------------------------
(* Hand-offs under way *)

LEMMA DeliveringFinite ==
    ASSUME Bounded
    PROVE  IsFiniteSet(Delivering) /\ Cardinality(Delivering) \in Nat
<1>1. Delivering \subseteq Deliveries
  BY DEF Delivering
<1> QED
  BY <1>1, FS_Subset, FS_CardinalityType DEF Bounded

(* One that begins is one more.                                             *)
LEMMA OneMore ==
    ASSUME Bounded, NEW d \in Deliveries, state[d] # "delivering",
           Delivering' = Delivering \cup {d}
    PROVE  Cardinality(Delivering') = Cardinality(Delivering) + 1
<1>1. d \notin Delivering
  BY DEF Delivering
<1>2. Cardinality(Delivering \cup {d}) = Cardinality(Delivering) + 1
  BY <1>1, DeliveringFinite, FS_AddElement
<1> QED
  BY <1>2

(* One that ends is one less.                                               *)
LEMMA OneLess ==
    ASSUME Bounded, NEW d \in Delivering, Delivering' = Delivering \ {d}
    PROVE  Cardinality(Delivering') = Cardinality(Delivering) - 1
<1>1. Cardinality(Delivering \ {d}) = Cardinality(Delivering) - 1
  BY DeliveringFinite, FS_RemoveElement
<1> QED
  BY <1>1

(* A slot that is handed on leaves as many.                                 *)
LEMMA AsMany ==
    ASSUME Bounded, NEW d \in Delivering, NEW e \in Deliveries \ Delivering,
           Delivering' = (Delivering \ {d}) \cup {e}
    PROVE  Cardinality(Delivering') = Cardinality(Delivering)
<1> DEFINE Left == Delivering \ {d}
<1>1. IsFiniteSet(Left) /\ Cardinality(Left) = Cardinality(Delivering) - 1
  BY DeliveringFinite, FS_RemoveElement
<1>2. e \notin Left
  OBVIOUS
<1>3. Cardinality(Left \cup {e}) = Cardinality(Left) + 1
  BY <1>1, <1>2, FS_AddElement
<1>4. Cardinality(Delivering') = Cardinality(Left \cup {e})
  OBVIOUS
<1> QED
  BY <1>1, <1>3, <1>4, DeliveringFinite

-----------------------------------------------------------------------------
(* The line *)

(* Who joins the line is last in it.                                        *)
LEMMA Joined ==
    ASSUME TypeOK, InLine, NEW d \in Deliveries, state[d] = "idle",
           waitQueue' = Append(waitQueue, d),
           state' = [state EXCEPT ![d] = "waiting"]
    PROVE  waitQueue' \in Seq(Deliveries) /\ InLine'
<1>1. /\ waitQueue' \in Seq(Deliveries)
      /\ Len(waitQueue') = Len(waitQueue) + 1
      /\ \A i \in 1..Len(waitQueue) : waitQueue'[i] = waitQueue[i]
      /\ waitQueue'[Len(waitQueue) + 1] = d
      /\ Len(waitQueue) \in Nat
  BY DEF TypeOK
<1>2. \A i \in 1..Len(waitQueue) : waitQueue[i] \in Deliveries /\ waitQueue[i] # d
  BY DEF TypeOK, InLine
<1>3. \A e \in Deliveries : state[e] = "waiting" => state'[e] = "waiting"
  BY DEF TypeOK
<1>4. state'[d] = "waiting"
  BY DEF TypeOK
<1>5. \A i \in 1..Len(waitQueue') : i \in 1..Len(waitQueue) \/ i = Len(waitQueue) + 1
  BY <1>1
<1>6. ASSUME NEW i \in 1..Len(waitQueue')
      PROVE  state'[waitQueue'[i]] = "waiting"
  BY <1>1, <1>2, <1>3, <1>4, <1>5 DEF InLine
<1>7. ASSUME NEW i \in 1..Len(waitQueue'), NEW j \in 1..Len(waitQueue'),
             waitQueue'[i] = waitQueue'[j]
      PROVE  i = j
  BY <1>1, <1>2, <1>5, <1>7 DEF InLine
<1> QED
  BY <1>1, <1>6, <1>7 DEF InLine

(* Who is let go was first in line, and the others wait on.                 *)
LEMMA LetGo ==
    ASSUME TypeOK, InLine, waitQueue # <<>>, waitQueue' = Tail(waitQueue),
           NEW d \in Deliveries, state[d] = "delivering",
           state' = [state EXCEPT ![d] = "idle", ![Head(waitQueue)] = "delivering"]
    PROVE  /\ waitQueue' \in Seq(Deliveries) /\ InLine'
           /\ Head(waitQueue) \in Deliveries
           /\ state[Head(waitQueue)] = "waiting"
<1>1. /\ Len(waitQueue) \in Nat \ {0}
      /\ waitQueue' \in Seq(Deliveries)
      /\ Len(waitQueue') = Len(waitQueue) - 1
      /\ \A i \in 1..Len(waitQueue') : waitQueue'[i] = waitQueue[i + 1]
      /\ Head(waitQueue) = waitQueue[1]
      /\ Head(waitQueue) \in Deliveries
  BY DEF TypeOK
<1>2. state[Head(waitQueue)] = "waiting"
  BY <1>1 DEF InLine
<1>3. \A i \in 1..Len(waitQueue') : i + 1 \in 1..Len(waitQueue) /\ i + 1 # 1
  BY <1>1
<1>4. ASSUME NEW i \in 1..Len(waitQueue')
      PROVE  state'[waitQueue'[i]] = "waiting"
  <2>1. waitQueue'[i] = waitQueue[i + 1] /\ i + 1 \in 1..Len(waitQueue) /\ 1 \in 1..Len(waitQueue)
    BY <1>1, <1>3
  <2>2. state[waitQueue[i + 1]] = "waiting" /\ waitQueue[i + 1] \in Deliveries
    BY <2>1 DEF InLine, TypeOK
  <2>3. waitQueue[i + 1] # Head(waitQueue)
    BY <1>1, <1>3, <2>1 DEF InLine
  <2>4. waitQueue[i + 1] # d
    BY <2>2
  <2> QED
    BY <2>1, <2>2, <2>3, <2>4 DEF TypeOK
<1>5. ASSUME NEW i \in 1..Len(waitQueue'), NEW j \in 1..Len(waitQueue'),
             waitQueue'[i] = waitQueue'[j]
      PROVE  i = j
  <2>1. i + 1 = j + 1
    BY <1>1, <1>3, <1>5 DEF InLine
  <2> QED
    BY <1>1, <2>1
<1> QED
  BY <1>1, <1>2, <1>4, <1>5 DEF InLine

-----------------------------------------------------------------------------
(* The invariant *)

LEMMA InitInv == ASSUME Bounded, Init PROVE IInv
<1>1. Delivering = {}
  BY DEF Init, Delivering
<1>2. Cardinality(Delivering) = 0
  BY <1>1, FS_EmptySet
<1>3. TypeOK
  BY DEF Init, TypeOK
<1>4. InLine
  BY DEF Init, InLine
<1> QED
  BY <1>2, <1>3, <1>4 DEF Bounded, Init, IInv, Counted, NeverOverLimit

LEMMA AcquireInv == ASSUME Bounded, IInv, NEW d \in Deliveries, AcquireSlot(d) PROVE IInv'
<1> USE DEF IInv
<1>0. state[d] = "idle" /\ active \in Nat /\ MaxInFlight \in Nat
      /\ Cardinality(Delivering) \in Nat
  BY DeliveringFinite DEF Bounded, AcquireSlot, TypeOK
<1>1. CASE /\ active < MaxInFlight
           /\ active' = active + 1
           /\ state' = [state EXCEPT ![d] = "delivering"]
           /\ waitQueue' = waitQueue
  <2>1. TypeOK'
    BY <1>1 DEF TypeOK
  <2>2. \A e \in Deliveries : state[e] = "waiting" => state'[e] = "waiting"
    BY <1>0, <1>1 DEF TypeOK
  <2>3. \A i \in 1..Len(waitQueue) : waitQueue[i] \in Deliveries
    BY DEF TypeOK
  <2>4. InLine'
    BY <1>1, <2>2, <2>3 DEF InLine
  <2>5. Delivering' = Delivering \cup {d}
    BY <1>1 DEF Delivering, TypeOK
  <2>6. Cardinality(Delivering') = Cardinality(Delivering) + 1
    BY <1>0, <2>5, OneMore
  <2>7. Counted' /\ NeverOverLimit'
    BY <1>0, <1>1, <2>6 DEF Counted, NeverOverLimit
  <2> QED
    BY <2>1, <2>4, <2>7
<1>2. CASE /\ waitQueue' = Append(waitQueue, d)
           /\ state' = [state EXCEPT ![d] = "waiting"]
           /\ active' = active
  <2>1. waitQueue' \in Seq(Deliveries) /\ InLine'
    BY <1>0, <1>2, Joined
  <2>2. TypeOK'
    BY <1>2, <2>1 DEF TypeOK
  <2>3. Delivering' = Delivering
    BY <1>0, <1>2 DEF Delivering, TypeOK
  <2>4. Counted' /\ NeverOverLimit'
    BY <1>2, <2>3 DEF Counted, NeverOverLimit
  <2> QED
    BY <2>1, <2>2, <2>4
<1> QED
  BY <1>1, <1>2 DEF AcquireSlot

LEMMA ReleaseInv == ASSUME Bounded, IInv, NEW d \in Deliveries, ReleaseSlot(d) PROVE IInv'
<1> USE DEF IInv
<1>0. state[d] = "delivering" /\ d \in Delivering /\ active \in Nat /\ MaxInFlight \in Nat
      /\ Cardinality(Delivering) \in Nat
  BY DeliveringFinite DEF Bounded, ReleaseSlot, TypeOK, Delivering
<1>1. CASE /\ waitQueue # <<>>
           /\ active' = active + 1
           /\ waitQueue' = Tail(waitQueue)
           /\ state' = [state EXCEPT ![d] = "idle", ![Head(waitQueue)] = "delivering"]
  <2>1. /\ waitQueue' \in Seq(Deliveries) /\ InLine'
        /\ Head(waitQueue) \in Deliveries /\ state[Head(waitQueue)] = "waiting"
    BY <1>0, <1>1, LetGo
  <2>2. TypeOK'
    BY <1>1, <2>1 DEF TypeOK
  <2>3. Head(waitQueue) \in Deliveries \ Delivering
    BY <2>1 DEF Delivering
  <2>4. Delivering' = (Delivering \ {d}) \cup {Head(waitQueue)}
    BY <1>1, <2>1 DEF Delivering, TypeOK
  <2>5. Cardinality(Delivering') = Cardinality(Delivering)
    BY <1>0, <2>3, <2>4, AsMany
  <2>6. Counted' /\ NeverOverLimit'
    BY <1>0, <1>1, <2>5 DEF Counted, NeverOverLimit
  <2> QED
    BY <2>1, <2>2, <2>6
<1>2. CASE /\ active' = active - 1
           /\ state' = [state EXCEPT ![d] = "idle"]
           /\ waitQueue' = waitQueue
  <2>1. Delivering' = Delivering \ {d}
    BY <1>2 DEF Delivering, TypeOK
  <2>2. Cardinality(Delivering') = Cardinality(Delivering) - 1
    BY <1>0, <2>1, OneLess
  <2>3. Cardinality(Delivering') \in Nat
    <3>1. Delivering' \subseteq Delivering
      BY <2>1
    <3> QED
      BY <3>1, DeliveringFinite, FS_Subset, FS_CardinalityType
  <2>4. active' \in Nat
    BY <1>0, <1>2, <2>2, <2>3 DEF Counted
  <2>5. TypeOK'
    BY <1>2, <2>4 DEF TypeOK
  <2>6. \A e \in Deliveries : state[e] = "waiting" => state'[e] = "waiting"
    BY <1>0, <1>2 DEF TypeOK
  <2>7. \A i \in 1..Len(waitQueue) : waitQueue[i] \in Deliveries
    BY DEF TypeOK
  <2>8. InLine'
    BY <1>2, <2>6, <2>7 DEF InLine
  <2>9. Counted' /\ NeverOverLimit'
    BY <1>0, <1>2, <2>2 DEF Counted, NeverOverLimit
  <2> QED
    BY <2>5, <2>8, <2>9
<1> QED
  BY <1>1, <1>2 DEF ReleaseSlot

LEMMA StepInv == ASSUME Bounded, IInv, [Next]_vars PROVE IInv'
<1>1. CASE Next
  BY <1>1, AcquireInv, ReleaseInv DEF Next
<1>2. CASE UNCHANGED vars
  BY <1>2 DEF vars, IInv, TypeOK, InLine, Counted, NeverOverLimit, Delivering
<1> QED
  BY <1>1, <1>2

THEOREM Invariance == ASSUME Bounded PROVE Spec => []IInv
<1>1. Init => IInv
  BY InitInv
<1>2. IInv /\ [Next]_vars => IInv'
  BY StepInv
<1> QED
  BY <1>1, <1>2, PTL DEF Spec

(* No more hand-offs than the limit are ever under way, for any finite set  *)
(* of deliveries and any limit; the count of slots is never negative.       *)
THEOREM LimitKept == ASSUME Bounded PROVE Spec => [](NeverOverLimit /\ TypeOK)
<1>1. IInv => NeverOverLimit /\ TypeOK
  BY DEF IInv
<1> QED
  BY <1>1, Invariance, PTL
=============================================================================
