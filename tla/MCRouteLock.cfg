\* A unit of time is about 2.5 s; DepthTtl is the least the assumption allows.
\* The stored depth fails the slippage check, the default passes it.
CONSTANTS
  NumTokens = 2
  Period = 2
  PollTimeout = 1
  DepthTtl = 5
  IndexerDepths = {3}
  UnpricedDepth = 3
  Requests = {r1, r2}
  Swaps <- MCSwaps
  Wallets = {"admin"}
  RouterDepth = 4
  FaucetGrant = 2
  MaxGrants = 1
SPECIFICATION RouteLockSpec
INVARIANTS
  RouteTypeOK
  DepthHeld
  ValueConserved
PROPERTIES
  SettlesUnlocked
