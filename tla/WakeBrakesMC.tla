---------------------------- MODULE WakeBrakesMC ----------------------------
(* WakeBrakes with caps small enough for every one of them to be reached.   *)
EXTENDS WakeBrakes

CONSTANTS f1, f2, doing, review
MCFrames == {f1, f2}
MCLabels == {doing, review}
MCServes == [f \in MCFrames |-> IF f = f1 THEN {"detector", "staleTimer"}
                                ELSE {"watchdog", "webhook"}]
=============================================================================
