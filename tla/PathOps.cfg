CONSTANTS
  Name = {"a", "b"}
  DataBlocks = 1
  MaxInode = 4
  MaxBlocks = 1
  PathNames <- MCPathNames
  Targets <- MCTargets
  MaxExpansions = 2
  CutShort = {"rename"}
SPECIFICATION PathSpec
VIEW WithoutCall
PROPERTIES
  CallsTakeEffect
  CopiesNameTheSource
  LookupsAreMonotone
  SlashMeansDirectory
