---------------------------- MODULE DirtyPageTree ----------------------------
(***************************************************************************)
(* The dirty_page_tree of one address range: a complete binary tree of     *)
(* flags kept in a file that may be mapped shared.  Position 1 is the      *)
(* root, the children of p are 2p and 2p+1, the pages are the leaves, and  *)
(* position 0 tells an initialized file from a new one.                    *)
(*                                                                         *)
(* Every iteration of every loop is a step, so that the owner can be       *)
(* killed inside an operation and the next owner finds the flags as they   *)
(* were.  CrashPoints names the operations inside which that may happen.   *)
(***************************************************************************)
EXTENDS Integers, FiniteSets

CONSTANTS LevelCount,     \* number of levels, root and leaves included
          LeafCount,      \* number of pages of the address range
          CrashPoints     \* the values of pc at which the owner may be killed

Levels == 0 .. LevelCount - 1

\* First position of a level (level_positions_view); the leaves are level 0.
LevelBegin(level) == 2^(LevelCount - 1 - level)
LeafBegin == LevelBegin(0)

\* invalid_position: past the end of every level.
Invalid == 2 * LeafBegin
Positions == 1 .. Invalid - 1
Leaves == LeafBegin .. Invalid - 1
Inner == 1 .. LeafBegin - 1
InLevel(p, level) == LevelBegin(level) <= p /\ p < 2 * LevelBegin(level)

Fresh == {"closed", "fill", "build", "init"}
Busy == {"dirtying", "cleaning", "first", "up", "down", "sweep", "next"}

\* check_level_count() admits these, address ranges being at least one page.
ASSUME LevelCountAssumption ==
  /\ LevelCount \in Nat \ {0}
  /\ LeafCount \in 1 .. 2^(LevelCount - 1)

ASSUME CrashPointsAssumption == CrashPoints \subseteq Fresh \cup Busy \cup {"idle"}

\* Arithmetic of powers of two, stated for the provers.
ASSUME PowersAssumption ==
  /\ \A j \in 0 .. LevelCount - 1 : 2^j \in Nat \ {0}
  /\ \A j \in 0 .. LevelCount - 2 : 2^(j + 1) = 2 * 2^j

VARIABLES tree,   \* m_tree: position -> is it dirty?  (0: is it initialized?)
          pc,     \* where the owner is
          pos,    \* the position the running loop is at
          lvl,    \* the level being built or iterated
          itp,    \* m_pos of the dirty_iterator in use
          use     \* whose iterator it is: "none", a caller's "walk", clean()'s "sweep"

vars == <<tree, pc, pos, lvl, itp, use>>

TypeOK ==
  /\ tree \in [0 .. Invalid - 1 -> BOOLEAN]
  /\ pc \in Fresh \cup Busy \cup {"idle"}
  /\ pos \in Positions
  /\ lvl \in 0 .. LevelCount
  /\ itp \in Positions \cup {Invalid}
  /\ use \in {"none", "walk", "sweep"}

\* A new file is all zeros, no owner has it open.
Init ==
  /\ tree = [p \in 0 .. Invalid - 1 |-> FALSE]
  /\ pc = "closed"
  /\ pos = 1
  /\ lvl = 0
  /\ itp = Invalid
  /\ use = "none"

-----------------------------------------------------------------------------
(* The constructor. *)

Open ==
  /\ pc = "closed"
  /\ pc' = IF tree[0] THEN "idle" ELSE "fill"
  /\ UNCHANGED <<tree, pos, lvl, itp, use>>

\* Real leaves start with init = dirty, pad leaves are filled dirty too.
Fill ==
  /\ pc = "fill"
  /\ tree' = [p \in 0 .. Invalid - 1 |->
                 \/ p \in LeafBegin .. LeafBegin + LeafCount - 1
                 \/ p \in LeafBegin + LeafCount .. Invalid - 1]
  /\ lvl' = 1
  /\ pc' = "build"
  /\ UNCHANGED <<pos, itp, use>>

\* build_from_leaves: one level of inner nodes per step.
BuildLevel ==
  /\ pc = "build"
  /\ IF lvl < LevelCount
       THEN /\ tree' = [p \in 0 .. Invalid - 1 |->
                          IF InLevel(p, lvl) /\ (tree[2 * p] \/ tree[2 * p + 1])
                            THEN TRUE ELSE tree[p]]
            /\ lvl' = lvl + 1
            /\ pc' = pc
       ELSE pc' = "init" /\ UNCHANGED <<tree, lvl>>
  /\ UNCHANGED <<pos, itp, use>>

SetInitialized ==
  /\ pc = "init"
  /\ tree' = [tree EXCEPT ![0] = TRUE]
  /\ lvl' = 0
  /\ pc' = "idle"
  /\ UNCHANGED <<pos, itp, use>>

-----------------------------------------------------------------------------
(* Moving in the tree.  Each operator that has a Bad... form above it is    *)
(* mutated into it to show which property notices.                          *)

\* The parent in a heap that starts at 0, and a mask that only clears a bit.
BadParentZeroBased(p) == (p - 1) \div 2
BadParentMask(p) == p - (p % 2)
Parent(p) == p \div 2

Sibling(p) == IF p % 2 = 0 THEN p + 1 ELSE p - 1

\* Looks at the node itself for its right sibling.
RightSibling(p) == IF p % 2 = 0 THEN p + 1 ELSE p

\* Left child if it is dirty, right child if only that one is.
BadDirtyChild(p) == IF tree[2 * p + 1] THEN 2 * p + 1 ELSE 2 * p
DirtyChild(p) == IF tree[2 * p] THEN 2 * p ELSE 2 * p + 1

-----------------------------------------------------------------------------
(* Marking one page dirty or clean, and all its ancestors as needed. *)

MarkDirty(leaf) ==
  /\ pc = "idle" /\ use = "none"
  /\ pos' = leaf
  /\ pc' = "dirtying"
  /\ UNCHANGED <<tree, lvl, itp, use>>

\* The last statement, after the loop: the loop itself stops below the root.
BadDirtyRoot == tree
DirtyRoot == [tree EXCEPT ![1] = TRUE]

DirtyStep ==
  /\ pc = "dirtying"
  /\ \/ /\ pos # 1 /\ tree[pos]
        /\ pc' = "idle"
        /\ UNCHANGED <<tree, pos>>
     \/ /\ pos # 1 /\ ~tree[pos]
        /\ tree' = [tree EXCEPT ![pos] = TRUE]
        /\ pos' = Parent(pos)
        /\ pc' = pc
     \/ /\ pos = 1
        /\ tree' = DirtyRoot
        /\ pc' = "idle"
        /\ pos' = pos
  /\ UNCHANGED <<lvl, itp, use>>

\* update_dirty_pages() marks pages clean while it walks the dirty pages, and
\* only pages its walk has passed or stands on.
MarkClean(leaf) ==
  /\ pc = "idle"
  /\ use = "walk" /\ lvl = 0 /\ leaf <= itp
  /\ pos' = leaf
  /\ pc' = "cleaning"
  /\ UNCHANGED <<tree, lvl, itp, use>>

CleanStep ==
  /\ pc = "cleaning"
  /\ tree' = [tree EXCEPT ![pos] = FALSE]
  /\ IF pos # 1 /\ ~tree[Sibling(pos)]
       THEN pos' = Parent(pos) /\ pc' = pc
       ELSE pos' = pos /\ pc' = IF use = "sweep" THEN "next" ELSE "idle"
  /\ UNCHANGED <<lvl, itp, use>>

-----------------------------------------------------------------------------
(* The dirty_iterator: the constructor searches the first dirty node of a  *)
(* level; ++ goes up to a left sibling with a dirty right sibling, then    *)
(* down to the level.  Both leave itp on a dirty node or Invalid.          *)

BeginWalk(level) ==
  /\ pc = "idle" /\ use = "none"
  /\ use' = "walk"
  /\ lvl' = level
  /\ pos' = LevelBegin(level)
  /\ itp' = Invalid
  /\ pc' = "first"
  /\ UNCHANGED tree

\* Back to whoever advanced the iterator.
Arrive(p) == itp' = p /\ pos' = pos /\ pc' = IF use = "sweep" THEN "sweep" ELSE "idle"

First ==
  /\ pc = "first"
  /\ IF tree[pos] THEN Arrive(pos) ELSE pc' = "up" /\ UNCHANGED <<pos, itp>>
  /\ UNCHANGED <<tree, lvl, use>>

Up ==
  /\ pc = "up"
  /\ \/ pos = 1 /\ Arrive(Invalid)
     \/ /\ pos # 1 /\ pos % 2 = 0 /\ tree[RightSibling(pos)]
        /\ pos' = RightSibling(pos) /\ pc' = "down" /\ UNCHANGED itp
     \/ /\ pos # 1 /\ ~(pos % 2 = 0 /\ tree[RightSibling(pos)])
        /\ pos' = Parent(pos) /\ UNCHANGED <<pc, itp>>
  /\ UNCHANGED <<tree, lvl, use>>

Down ==
  /\ pc = "down"
  /\ IF InLevel(pos, lvl)
       THEN Arrive(pos)
       ELSE \/ tree[DirtyChild(pos)] /\ pos' = DirtyChild(pos) /\ UNCHANGED <<pc, itp>>
            \/ ~tree[2 * pos] /\ ~tree[2 * pos + 1] /\ Arrive(Invalid)
  /\ UNCHANGED <<tree, lvl, use>>

StepWalk ==
  /\ pc = "idle" /\ use = "walk" /\ itp # Invalid
  /\ pos' = itp
  /\ pc' = "up"
  /\ UNCHANGED <<tree, lvl, itp, use>>

EndWalk ==
  /\ pc = "idle" /\ use = "walk" /\ itp = Invalid
  /\ use' = "none"
  /\ UNCHANGED <<tree, pc, pos, lvl, itp>>

-----------------------------------------------------------------------------
(* do_clean: a range-for over the dirty leaves that cleans each one. *)

BeginSweep ==
  /\ pc = "idle" /\ use = "none"
  /\ use' = "sweep"
  /\ lvl' = 0
  /\ pos' = LeafBegin
  /\ itp' = Invalid
  /\ pc' = "first"
  /\ UNCHANGED tree

SweepBody ==
  /\ pc = "sweep" /\ itp # Invalid
  /\ pos' = itp
  /\ pc' = "cleaning"
  /\ UNCHANGED <<tree, lvl, itp, use>>

SweepNext ==
  /\ pc = "next"
  /\ pos' = itp
  /\ pc' = "up"
  /\ UNCHANGED <<tree, lvl, itp, use>>

EndSweep ==
  /\ pc = "sweep" /\ itp = Invalid
  /\ use' = "none"
  /\ pc' = "idle"
  /\ UNCHANGED <<tree, pos, lvl, itp>>

-----------------------------------------------------------------------------
\* The owner closes the file or is killed; a shared mapping keeps the flags.
Crash ==
  /\ pc \in CrashPoints \ {"closed"}
  /\ pc' = "closed"
  /\ pos' = 1
  /\ lvl' = 0
  /\ itp' = Invalid
  /\ use' = "none"
  /\ UNCHANGED tree

Step == \/ Open \/ Fill \/ BuildLevel \/ SetInitialized
        \/ DirtyStep \/ CleanStep
        \/ First \/ Up \/ Down \/ StepWalk \/ EndWalk
        \/ SweepBody \/ SweepNext \/ EndSweep

Next == \/ Step
        \/ \E leaf \in Leaves : MarkDirty(leaf) \/ MarkClean(leaf)
        \/ \E level \in Levels : BeginWalk(level)
        \/ BeginSweep
        \/ Crash

\* The owner is one thread that never blocks inside an operation.
Spec == Init /\ [][Next]_vars /\ WF_vars(Step)

-----------------------------------------------------------------------------
(* Properties *)

\* A node is dirty exactly when one of its children is.
ConsistentIn(t, p) == t[p] <=> (t[2 * p] \/ t[2 * p + 1])
Consistent(p) == ConsistentIn(tree, p)

\* Between operations the whole tree of an initialized file is consistent:
\* dirty_page_tree.hpp's two documented invariants, and that no inner node is
\* dirty for nothing, which down() relies on.
TreeInvariant ==
  (pc \in {"idle", "first", "up", "down", "sweep"} /\ tree[0]) => \A p \in Inner : Consistent(p)

\* Every operation returns: no loop runs forever on a tree that changes under it.
OperationsReturn == [](pc \in Busy => <>(pc \in {"idle", "closed"}))

\* The flags, the iterator and clean() implement a set of dirty pages, a cursor
\* over it and a sweep.
DirtyLeaves == {l - LeafBegin : l \in {q \in Leaves : tree[q]}}
Abstract == INSTANCE DirtyPages WITH
  dirty <- DirtyLeaves,
  cursor <- IF use = "walk" /\ itp # Invalid THEN <<lvl, itp - LevelBegin(lvl)>> ELSE <<>>,
  sweeping <- use = "sweep"
ImplementsDirtyPages == Abstract!ASpec
=============================================================================
