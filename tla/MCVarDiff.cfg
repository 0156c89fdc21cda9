\* A unit of time is 15 seconds.  The tier starts below the minimum.
CONSTANTS
  StartDiff = 1
  MinDiff = 2
  SharesPerMin = 6
  TickEvery = 2
  Minute = 4
  TickLag = 1
  Powers = {1, 3, 17}
  MaxHandshake = 5
  MaxChanges = 2
SPECIFICATION VarDiffFairSpec
INVARIANTS
  VarDiffTypeOK
  DifficultyFloor
  NoRunaway
PROPERTIES
  NoFlapping
  SettlesInBand
