----------------------------- MODULE WakeSealMC -----------------------------
(* WakeBrakes with a count of the wakes the connector has sent on its own    *)
(* account since the agent last worked or an event last came in.            *)
EXTENDS WakeBrakesMC

VARIABLE wakes

AutomaticWake == \E f \in Frames : Repoked(f) \/ (frame[f].by # "webhook" /\ Delivered(f))
NewWork       == Works \/ \E f \in Frames : Event(f)

SealInit == Init /\ wakes = 0
SealNext ==
    /\ Next
    /\ wakes' = IF AutomaticWake THEN Upto(wakes, MaxAttempts + 1)
                ELSE IF NewWork THEN 0 ELSE wakes

SealSpec == SealInit /\ [][SealNext]_<<vars, wakes>>

(* "a genuine loop with no real new work phase never triggers this and still seals
   at the cap" (dispatch-ack-tracker.ts 56-58): an agent that does nothing is woken
   at most MaxAttempts times. *)
SealHolds == wakes <= MaxAttempts
=============================================================================
