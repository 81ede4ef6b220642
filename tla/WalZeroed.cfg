CONSTANTS
  Home = {1, 2}
  Value = {0, 1}
  Tx <- MCTx
  Clean <- MCClean
  JournalBlocks = 7
  WriteThrough = FALSE
  ZeroedJournal = TRUE
  StaleCalls = FALSE
  MaxTx = 1
  MaxFaults = 1
SPECIFICATION Spec
INVARIANT JournalDecodable
CHECK_DEADLOCK FALSE
