CONSTANTS
  Damaged <- MCDamage
  DirCapacity = 4
  MaxCrashes = 1
SPECIFICATION FairSpec
INVARIANTS
  NeverFailsAfterCommit
  ReattachesMinimally
  ReleasesExactly
  RepairedOnce
PROPERTIES
  RepairsSucceed
