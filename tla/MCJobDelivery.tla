--------------------------- MODULE MCJobDelivery ---------------------------
(* Instance of JobDelivery for TLC: the constants are set in the cfgs. *)
EXTENDS JobDelivery
=============================================================================
