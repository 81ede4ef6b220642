CONSTANTS
  MaxInt = 18
  BlockSize = 2
  ImageHeader = 1
  Totals = {6, 9}
  Requests = {0, 1, 3, 18}
  Capacities = {0, 1, 2, 18}
  InodeRecord = 2
  EntryRecords = {2, 3}
  TableHeader = 1
  DefaultBlocks = 1
  MaxCorruptions = 2
SPECIFICATION Spec
INVARIANTS
  AcceptedIsSafe
  AcceptedIsALayout
  CapacityHolds
