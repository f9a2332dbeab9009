CONSTANTS
  DirNames <- AllDirs
  Trees <- AllTrees
  Masks <- AllMasks
  ObjectMasks <- ObjMasks
  Names <- AllNames
  Additions <- AllAdditions
  MaxLevel = 2
SPECIFICATION Spec
INVARIANTS MatchesMask FindsExactly CleansAll
