----------------------------- MODULE MCVarDiff -----------------------------
(* Instance of VarDiff for TLC: the constants are set in the cfg.          *)
EXTENDS VarDiff
=============================================================================
