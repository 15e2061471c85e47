----------------------------- MODULE MCJobBoard ------------------------------
(* Instances of JobBoard for TLC: two descriptions in the first month, where
   they share a list, and one in the second. *)
EXTENDS JobBoard, TLC

CONSTANTS c1, c2, dishes, homework, swim

MCMonthOf == (dishes :> 1) @@ (homework :> 1) @@ (swim :> 2)

\* No chore yet; or a month with the same chore twice, and a finished one.
MCInitialJobs ==
  {<< <<>>, <<>> >>,
   << <<[key |-> homework, finish |-> TRUE], [key |-> dishes, finish |-> FALSE],
        [key |-> dishes, finish |-> FALSE]>>, <<>> >>}

=============================================================================
