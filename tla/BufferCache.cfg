CONSTANTS
  Block = {1, 2}
  Value = {0, 1, 2}
  MaxFaults = 3
SPECIFICATION FairSpec
INVARIANTS
  StatesAreTrue
PROPERTIES
  ImplementsSyncedBlocks
  FlushCatchesUp
