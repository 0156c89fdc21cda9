--------------------------- MODULE MCJobManager ---------------------------
(* Instance of JobManager for TLC: the constants are set in the cfg. *)
EXTENDS JobManager
=============================================================================
