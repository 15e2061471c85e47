---------------------------- MODULE MCWeeklyChart ----------------------------
(* Instances of WeeklyChart for TLC. *)
EXTENDS WeeklyChart

CONSTANTS work, house, redeemed

=============================================================================
