SPECIFICATION Spec
CONSTANTS
  MaxPage = 2
  NumEntries = 2
  Words = {1, 2}
  Values = {0, 1}
  \* Killed anywhere.
  CrashPoints = {"idle", "borrow", "flag", "paddr", "lent", "none", "next", "hash", "flush"}
INVARIANTS
  CacheConsistent
  NeverFails
  ProofsCurrent
