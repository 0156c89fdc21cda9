\* The instance of MCRouteLock.cfg: one grant covers one of two equal swaps.
CONSTANTS
  NumTokens = 2
  Period = 2
  PollTimeout = 1
  DepthTtl = 5
  IndexerDepths = {3}
  UnpricedDepth = 3
  Requests = {r1, r2}
  Swaps <- MCSwaps
  Wallets = {"admin"}
  RouterDepth = 4
  FaucetGrant = 2
  MaxGrants = 1
SPECIFICATION RouteLockSpec
INVARIANT LockExcludes
