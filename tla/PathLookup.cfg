CONSTANTS
  Volumes <- MCVolumes
  PathNames <- MCPathNames
  MaxExpansions = 3
SPECIFICATION FairLookupSpec
CHECK_DEADLOCK FALSE
INVARIANTS
  ReturnsWhatIsNamed
  TrailingSlashIsDot
PROPERTIES
  LookupReturns
