---------------------------- MODULE MCWorkDetail -----------------------------
(* Instances of WorkDetail for TLC. *)
EXTENDS WorkDetail, TLC

CONSTANTS d1, d2, dishes

MCPoints == dishes :> 3

\* Two taps on the first device, one on the second.
MCTaps == {<<d1, 1>>, <<d1, 2>>, <<d2, 1>>}

=============================================================================
