SPECIFICATION Spec
CONSTANTS
  Contents = {0, 1}
  LevelCount <- TwoRanges
  LeafCount <- TwoLengths
  Sparse <- TwoSparse
  Capacity = 2
  Replaceable = {2}
  Backings <- DirtyKinds
  CrashPoints <- SafeCrashes
INVARIANTS HashesTrue ProofsCurrent
PROPERTY UpdatesEnd
