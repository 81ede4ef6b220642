CONSTANTS
  Data <- MCData
  HomeBlock = {1, 2}
  OtherBlock = {0}
  Value = {0, 1}
  MaxTxid = 2
  MaxLog = 4
  MaxRegion = 6
  MaxImages = 3
SPECIFICATION Spec
INVARIANTS
  CrashKeepsWhole
  ReadsAreWhole
  ReadersAgree
  SplitIsExact
