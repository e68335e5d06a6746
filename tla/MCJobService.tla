----------------------------- MODULE MCJobService -----------------------------
(* Values for TLC: the bounds are numbers and stand in the configurations.   *)
EXTENDS JobService
=============================================================================
