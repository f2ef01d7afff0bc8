--------------------------- MODULE MCDirtyPageTree ---------------------------
(* Instances of DirtyPageTree for TLC: one address range of a few pages.     *)
EXTENDS DirtyPageTree

\* Killed between operations or while the constructor builds a new file.
QuietCrashes == {"fill", "build", "init", "idle", "first", "up", "down"}

=============================================================================
