\* One connection: connections share nothing but the publisher.
CONSTANTS
  IdSpace = 2
  Ttl = 1
  GcEvery = 1
  GcLag = 0
  MaxJobs = 4
  Conns = {c1}
  ChanCap = 2
SPECIFICATION JobDeliveryFairSpec
INVARIANTS
  JobDeliveryTypeOK
  NewestNotLost
PROPERTIES
  RegisteredBeforeTold
  BackOnlyFromCache
  NewestReachesMiner
