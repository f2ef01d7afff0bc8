SPECIFICATION Spec
CONSTANTS
  LevelCount = 4
  LeafCount = 5
  CrashPoints <- QuietCrashes
INVARIANTS
  TypeOK
  TreeInvariant
PROPERTIES
  OperationsReturn
  ImplementsDirtyPages
