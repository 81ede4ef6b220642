CONSTANTS
  Home = {1, 2}
  Value = {0, 1}
  Tx <- MCTx
  Clean <- MCClean
  JournalBlocks = 9
  WriteThrough = TRUE
  ZeroedJournal = FALSE
  StaleCalls = FALSE
  MaxTx = 3
  MaxFaults = 2
SPECIFICATION FairSpec
INVARIANTS
  AllOrNothing
PROPERTIES
  CallsEnd
  LogDrains
