--------------------------- MODULE MCJobExecutor ----------------------------
(* Instances of JobExecutor for TLC: the values are in the configurations. *)
EXTENDS JobExecutor, TLC
=============================================================================
