----------------------------- MODULE DirtyPages -----------------------------
(***************************************************************************)
(* What the dirty-page bookkeeping of one address range promises its       *)
(* users: a set of dirty pages, a cursor that walks the nodes of one level *)
(* that cover some dirty page, in increasing order, and a sweep that       *)
(* cleans every page.  No tree: see DirtyPageTree for how the code keeps   *)
(* the set.                                                                *)
(***************************************************************************)
EXTENDS Integers, FiniteSets

CONSTANT LevelCount     \* levels of the tree, the pages being at level 0

PageCount == 2^(LevelCount - 1)
Pages == 0 .. PageCount - 1
Levels == 0 .. LevelCount - 1

VARIABLES dirty,        \* the set of dirty pages
          cursor,       \* <<>> or <<level, index>> of the walk in progress
          sweeping      \* is clean() in progress?

avars == <<dirty, cursor, sweeping>>

\* The indices at a level, and those that cover a page of a set.
Indices(level) == 0 .. 2^(LevelCount - 1 - level) - 1
Covers(level, i, pages) == \E p \in pages : p \div 2^level = i
DirtyAt(level, pages) == {i \in Indices(level) : Covers(level, i, pages)}

\* The cursor that stands on the first dirty index above `after`.
NextCursor(level, after) ==
  LET later == {i \in DirtyAt(level, dirty) : i > after}
  IN  IF later = {} THEN <<>>
                    ELSE <<level, CHOOSE i \in later : \A j \in later : i <= j>>

AInit == dirty \subseteq Pages /\ cursor = <<>> /\ sweeping = FALSE

AMarkDirty == \E p \in Pages : dirty' = dirty \cup {p} /\ UNCHANGED <<cursor, sweeping>>

AMarkClean == \E p \in dirty : dirty' = dirty \ {p} /\ UNCHANGED <<cursor, sweeping>>

ABeginWalk == /\ cursor = <<>>
              /\ \E level \in Levels : cursor' = NextCursor(level, -1)
              /\ UNCHANGED <<dirty, sweeping>>

AStepWalk == /\ cursor # <<>>
             /\ cursor' = NextCursor(cursor[1], cursor[2])
             /\ UNCHANGED <<dirty, sweeping>>

ABeginSweep == ~sweeping /\ sweeping' = TRUE /\ UNCHANGED <<dirty, cursor>>

\* clean() returns only when nothing is dirty.
AEndSweep == sweeping /\ dirty = {} /\ sweeping' = FALSE /\ UNCHANGED <<dirty, cursor>>

\* The owner goes away; the set may be the one found at the next open.
AClose == cursor' = <<>> /\ sweeping' = FALSE /\ UNCHANGED dirty

\* A file never completely initialized is initialized again.
AInitialize == dirty' = Pages /\ UNCHANGED <<cursor, sweeping>>

ANext == \/ AMarkDirty \/ AMarkClean \/ ABeginWalk \/ AStepWalk
         \/ ABeginSweep \/ AEndSweep \/ AClose \/ AInitialize

ASpec == AInit /\ [][ANext]_avars
=============================================================================
