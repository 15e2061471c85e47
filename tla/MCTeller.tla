------------------------------- MODULE MCTeller ------------------------------
(* Instances of Teller for TLC. *)
EXTENDS Teller

\* Numbers a parent may type, a negative one among them.
MCTyped == {-1, 3}

=============================================================================
