SPECIFICATION Spec
CONSTANTS
  Fids = {f1, f2}
  Names <- MCNames
  Walks <- MCWalks
  Root <- MCRoot
  Targets <- MCTargets
  NoPath = NoPath
  MaxPath = 4
  MaxLookups = 12
  MaxLetters = 2
  Depth = 2
  MaxNodes = 4
  MaxFd = 2
INVARIANT FidsSound
PROPERTIES RefusedUndone RenameFollowed
VIEW MCView
SYMMETRY MCFids
