-------------------------- MODULE TransitionWriteMC --------------------------
(* Small instances of TransitionWrite for TLC. *)
EXTENDS TransitionWrite
AllFaults == {"drop", "reject", "lost", "unreadable", "lag"}
=============================================================================
