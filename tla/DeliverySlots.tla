----------------------------- MODULE DeliverySlots -----------------------------
(***************************************************************************)
(* The semaphore of delivery/throttle.ts: deliverWithSlot takes one of     *)
(* MaxInFlight slots for a hand-off to the gateway, or waits in line, and  *)
(* gives it back when the hand-off is over, whatever its outcome.  The     *)
(* per-agent spacing of wait and record is left out: it delays a delivery  *)
(* and holds no slot.                                                      *)
(***************************************************************************)
EXTENDS Naturals, Sequences, FiniteSets

CONSTANTS
    Deliveries,    \* callers of deliverWithSlot: same-ticket, direct, mention wakes
    MaxInFlight,   \* MAX_CONCURRENT_DISPATCHES
    MaxActive      \* bound: the slots that are counted as taken

VARIABLES
    active,        \* the count of slots taken
    waitQueue,     \* the callers whose promise is pending, oldest first
    state          \* what each caller is doing

vars == <<active, waitQueue, state>>

TypeOK ==
    /\ active \in Nat
    /\ waitQueue \in Seq(Deliveries)
    /\ state \in [Deliveries -> {"idle", "waiting", "delivering"}]

Init ==
    /\ active = 0 /\ waitQueue = <<>>
    /\ state = [d \in Deliveries |-> "idle"]

AcquireSlot(d) ==
    /\ state[d] = "idle"
    /\ \/ /\ active < MaxInFlight
          /\ active' = active + 1
          /\ state' = [state EXCEPT ![d] = "delivering"]
          /\ UNCHANGED waitQueue
       \/ /\ active >= MaxInFlight
          /\ waitQueue' = Append(waitQueue, d)
          /\ state' = [state EXCEPT ![d] = "waiting"]
          /\ UNCHANGED active

(* The gateway answered, or the hand-off threw: the slot goes to the first in line,
   who counts it as taken, or back. *)
ReleaseSlot(d) ==
    /\ state[d] = "delivering"
    /\ \/ /\ waitQueue # <<>> /\ active < MaxActive
          /\ active' = active + 1
          /\ waitQueue' = Tail(waitQueue)
          /\ state' = [state EXCEPT ![d] = "idle", ![Head(waitQueue)] = "delivering"]
       \/ /\ waitQueue = <<>>
          /\ active' = active - 1
          /\ state' = [state EXCEPT ![d] = "idle"]
          /\ UNCHANGED waitQueue

Next == \E d \in Deliveries : AcquireSlot(d) \/ ReleaseSlot(d)

Spec == Init /\ [][Next]_vars

Delivering == {d \in Deliveries : state[d] = "delivering"}

(* No more hand-offs than the limit are under way, whatever order deliveries come,
   wait and end in and however many slots handing them on has lost: the limit is what
   protects the gateway. *)
NeverOverLimit == Cardinality(Delivering) <= MaxInFlight

(* "Waits if MAX_CONCURRENT_DISPATCHES delivery handoffs are already in flight"
   (throttle.ts 57-58): whoever waits has that many hand-offs ahead, whose ends let it
   go. *)
WaitsOnlyWhenFull ==
    (\E d \in Deliveries : state[d] = "waiting") =>
        Cardinality(Delivering) >= MaxInFlight
=============================================================================
