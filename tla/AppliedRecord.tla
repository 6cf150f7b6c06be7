---------------------------- MODULE AppliedRecord ----------------------------
(***************************************************************************)
(* What the rest of the connector relies on when a transition is written:   *)
(* the applied-state store names the destination only while the label of    *)
(* the ticket stands there, the label is taken back only once the store no  *)
(* longer names it, and an answer says what the store says.                 *)
(***************************************************************************)
VARIABLES label, applied, answer

vars == <<label, applied, answer>>

Labels == {"from", "to"}

Init ==
    /\ label = "from" /\ applied \in {"none", "from"}
    /\ answer = "open"

\* The label reaches the destination, and the store is told, or is not; the
\* write may fail there, once the store names nothing.
Land ==
    /\ answer = "open" /\ applied # "to"
    /\ label' = "to"
    /\ \/ applied' \in {applied, "to"} /\ UNCHANGED answer
       \/ applied = "none" /\ answer' = "failed" /\ UNCHANGED applied

\* The destination is not on record any more.
Withdraw ==
    /\ answer = "open"
    /\ applied' = "none"
    /\ UNCHANGED <<label, answer>>

\* The label is taken back.
Undo ==
    /\ answer = "open" /\ applied = "none"
    /\ label' = "from"
    /\ answer' \in {"open", "failed"}
    /\ UNCHANGED applied

Answer ==
    /\ answer = "open"
    /\ \/ answer' = "ok" /\ applied = "to" /\ UNCHANGED applied
       \/ answer' = "failed" /\ applied' = "none"
    /\ UNCHANGED label

\* A restart ends the write without an answer and empties the store.
Restart ==
    /\ answer = "open"
    /\ applied' = "none" /\ answer' = "lost"
    /\ UNCHANGED label

Next == Land \/ Withdraw \/ Undo \/ Answer \/ Restart

Spec == Init /\ [][Next]_vars

=============================================================================
