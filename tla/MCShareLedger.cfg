\* No fault: every promise, those of progress too. All shares done, the pool rests.
CONSTANTS
  s1 = s1
  s2 = s2
  s3 = s3
  w1 = w1
  noname = noname
  Shares <- MCShares
  Workers <- MCWorkers
  WorkerOf <- MCWorkerOf
  Anonymous = noname
  Difficulty = 2
  ChanCap = 2
  BatchMax = 2
  IdleFlushes = 1
  Faults = {}
SPECIFICATION ShareLedgerFairSpec
INVARIANTS
  ShareLedgerTypeOK
  RosterFollowsEngine
PROPERTIES
  OfflineLosesNothing
  EveryShareIsPaid
CHECK_DEADLOCK FALSE
