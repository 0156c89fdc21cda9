---------------------------- MODULE MCRouteLock ----------------------------
(* Instance of RouteLock for TLC: two requests of one wallet, for a polled  *)
(* pair and for its reverse, which the router quotes at its default.         *)
EXTENDS RouteLock

MCSwaps ==
  {[wallet |-> "admin", pay |-> 0, receive |-> 1, amount |-> 2, slippage |-> 50],
   [wallet |-> "admin", pay |-> 1, receive |-> 0, amount |-> 2, slippage |-> 50]}
=============================================================================
