\* Three ids and seven templates: every key is used at least twice.
CONSTANTS
  IdSpace = 3
  Ttl = 2
  GcEvery = 2
  GcLag = 1
  MaxJobs = 7
SPECIFICATION JobManagerFairSpec
INVARIANTS
  JobManagerTypeOK
  FreshJobKnown
  NoUnreclaimableJob
  LifetimeBound
PROPERTIES
  NoLiveOverwrite
  EventuallyReclaimed
