\* PostgreSQL refuses a transaction once.
CONSTANTS
  s1 = s1
  s2 = s2
  s3 = s3
  w1 = w1
  noname = noname
  Shares <- MCShares
  Workers <- MCWorkers
  WorkerOf <- MCWorkerOf
  Anonymous = noname
  Difficulty = 2
  ChanCap = 2
  BatchMax = 2
  IdleFlushes = 1
  Faults = {"postgres"}
SPECIFICATION ShareLedgerSpec
INVARIANT TrimmedIsProcessed
CHECK_DEADLOCK FALSE
