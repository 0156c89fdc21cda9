\* The process crashes, Redis connections and PostgreSQL fail, the clock jumps.
CONSTANTS
  s1 = s1
  s2 = s2
  s3 = s3
  w1 = w1
  noname = noname
  Shares <- MCShares
  Workers <- MCWorkers
  WorkerOf <- MCWorkerOf
  Anonymous = noname
  Difficulty = 2
  ChanCap = 2
  BatchMax = 2
  IdleFlushes = 1
  Faults = {"crash", "redis", "postgres", "clock"}
SPECIFICATION ShareLedgerSpec
INVARIANTS
  PaidOnce
  WalletCreditedOnce
  WalletCoversOracle
  YieldMatchesTax
PROPERTIES
  ImplementsShareAccount
  TrimCutsBatch
