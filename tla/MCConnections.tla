--------------------------- MODULE MCConnections ---------------------------
(* Instance of Connections for TLC: two tiers, and more connections than   *)
(* there are extranonces.                                                  *)
EXTENDS Connections

MCStartDiff == [t \in Tiers |-> IF t = LastTier THEN 4 ELSE 1]
=============================================================================
