CONSTANTS
  Name = {a, b}
  DataBlocks = 2
  MaxInode = 5
  MaxBlocks = 1
SPECIFICATION Spec
SYMMETRY NameSymmetry
INVARIANTS
  Ownership
  Sound
  OneParent
  NothingStuck
PROPERTIES
  NamesKeepFiles
