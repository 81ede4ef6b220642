CONSTANTS
  Home = {1, 2}
  Value = {0, 1}
  Tx <- MCTx
  Clean <- MCClean
  JournalBlocks = 7
  WriteThrough = FALSE
  ZeroedJournal = FALSE
  StaleCalls = FALSE
  MaxTx = 3
  MaxFaults = 2
SPECIFICATION Spec
INVARIANTS
  TypeOK
  JournalDecodable
  AllOrNothing
  FreshBase
PROPERTIES
  CheckedEndsClean
  ImplementsAtomicStore
