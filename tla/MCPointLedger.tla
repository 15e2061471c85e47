---------------------------- MODULE MCPointLedger ----------------------------
(* Instances of PointLedger for TLC: three parents' devices (or taps). *)
EXTENDS PointLedger, TLC

CONSTANTS c1, c2, c3

\* A chore paid, and a reward redeemed.
MCAmounts == {2, -3}
MCInitialPoints == {1}

\* The calls are interchangeable; only safety is checked with this symmetry.
CallSymmetry == Permutations(Calls)

=============================================================================
