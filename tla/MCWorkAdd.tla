------------------------------ MODULE MCWorkAdd ------------------------------
(* Instances of WorkAdd for TLC. *)
EXTENDS WorkAdd

CONSTANTS monday, tuesday

=============================================================================
