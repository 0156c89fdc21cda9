--------------------------- MODULE MCShareLedger ---------------------------
(* Instance of ShareLedger for TLC: two shares of one worker, one without  *)
(* a worker name.                                                          *)
EXTENDS ShareLedger, TLC

CONSTANTS s1, s2, s3, w1, noname

MCShares   == {s1, s2, s3}
MCWorkers  == {w1, noname}
MCWorkerOf == s1 :> w1 @@ s2 :> w1 @@ s3 :> noname
=============================================================================
