\* One solution, submitted twice, against channels of one element.
CONSTANTS
  Blocks = {b1}
  NoBlock = none
  RequestCap = 1
  SubmitCap = 1
  MaxAdded = 1
  MaxFaults = 1
  BlockBatch = 2
  MaxSubmits = 2
SPECIFICATION BlockPathSpec
INVARIANTS
  BlockPathTypeOK
  StaleIsBeingRenewed
  BlockRecordedOnce
PROPERTIES
  NoRecordDropped
  PayeeRecovers
  SolvedReachesNode
