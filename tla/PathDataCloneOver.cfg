CONSTANTS
  File = {f1, f2}
  DataBlocks = 2
  BlockSize = 2
  Byte = {0, 1}
  Payload <- MCOnes
  MaxRun = 1
  Name = {"a", "b"}
  Symlink <- MCSymlink
  None = None
SPECIFICATION PathSpec
INVARIANT
  CloneOverCopiesAllBlocks
