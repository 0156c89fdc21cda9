---------------------------- MODULE MCBlockPath ----------------------------
(* Instance of BlockPath for TLC: the constants are set in the cfg.        *)
EXTENDS BlockPath
=============================================================================
