SPECIFICATION Spec
CONSTANTS
  Pages = {0, 1, 2, 3}
  Always = {0}
  Drive = {3}
  VAddrs = {0, 1, 2}
  Sharings <- WithProcessor
  Slots = {0, 1}
  SlotOf <- TwoSlots
INVARIANTS
  HotAgreesWithShadow
  NoWriteLost
  RootCoversWrites
CHECK_DEADLOCK FALSE
