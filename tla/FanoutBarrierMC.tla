-------------------------- MODULE FanoutBarrierMC --------------------------
(* Small instances of FanoutBarrier for TLC. *)
EXTENDS FanoutBarrier, TLC

CONSTANTS e1, e2, j1

TwoEntries == {e1, e2}
OneEntry == {e1}
TwoIds == 1..2
ThreeIds == 1..3
OneJob == {j1}
Symmetry == Permutations(TwoEntries)

=============================================================================
