\* The first tier starts below the minimum.  All ids used, the pool may rest.
CONSTANTS
  Tiers = {1, 3}
  LastTier = 3
  Slots = 2
  ExtraSpace = 2
  NonceSpace = 2
  StartDiff <- MCStartDiff
  MinDiff = 2
  MaxDiff = 4
  NetworkDiff = 5
  MaxConns = 3
  MaxInFlight = 2
  Watched = 0
SPECIFICATION ConnectionsSpec
INVARIANTS
  ConnectionsTypeOK
  SlotsRespected
  DisjointNonces
PROPERTIES
  CreditedAsWorked
CHECK_DEADLOCK FALSE
