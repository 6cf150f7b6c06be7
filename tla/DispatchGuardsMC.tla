-------------------------- MODULE DispatchGuardsMC --------------------------
(***************************************************************************)
(* Instances of DispatchGuards for TLC.  One ticket is enough for the       *)
(* guards: their rows, leases, slots and claims are per ticket, and two     *)
(* agents take turns as its delegate.                                       *)
(***************************************************************************)
EXTENDS DispatchGuards, TLC

CONSTANTS a1, a2, t1, h1, h2

OneAgent    == {a1}
TwoAgents   == {a1, a2}
OneTicket   == {t1}
NoTicket    == {}
OneHandler  == {h1}
TwoHandlers == {h1, h2}

Symmetry == Permutations(TwoHandlers)
=============================================================================
