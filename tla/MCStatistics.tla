---------------------------- MODULE MCStatistics -----------------------------
(* Instances of Statistics for TLC. *)
EXTENDS Statistics

CONSTANTS amy, ben

MCRoster == <<amy, ben>>

=============================================================================
