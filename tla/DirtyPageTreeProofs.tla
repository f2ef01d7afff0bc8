------------------------- MODULE DirtyPageTreeProofs -------------------------
(***************************************************************************)
(* For every number of levels and pages: the dirty-page tree is type       *)
(* correct and, when its owner is not killed while it climbs, consistent   *)
(* between operations and an implementation of the set of dirty pages, the *)
(* cursor and the sweep of DirtyPages.                                     *)
(*                                                                         *)
(* Consistency needs no induction over the tree because each loop          *)
(* iteration is a step: while a climb runs, the node it stands on is the   *)
(* only one that may disagree with its children.  What a flag says of a    *)
(* whole subtree, which the walks rely on, is proved from it by taking the *)
(* least level at which it would fail.                                     *)
(***************************************************************************)
EXTENDS DirtyPageTree, WellFoundedInduction, TLAPS

\* A nonempty set of natural numbers has a least element: induction over the
\* levels is done on the least level at which a claim fails.
LEMMA LeastNat ==
  ASSUME NEW T, T \subseteq Nat, T # {}
  PROVE  \E x \in T : \A y \in T : x <= y
<1>1. PICK x \in T : \A y \in T : ~(<<y, x>> \in OpToRel(<, Nat))
  BY NatLessThanWellFounded, WFMin, Zenon
<1>2. \A y \in T : ~(y < x)
  BY <1>1 DEF OpToRel
<1> QED
  BY <1>2

\* Each level has half the nodes of the level below it, the root is one node.
LEMMA LevelPowers ==
  /\ LevelCount \in Nat \ {0} /\ 0 \in Levels
  /\ \A l \in Levels : LevelBegin(l) \in Nat \ {0}
  /\ \A l \in 0 .. LevelCount - 2 : LevelBegin(l) = 2 * LevelBegin(l + 1)
  /\ LevelBegin(LevelCount - 1) = 1
<1>1. LevelCount \in Nat \ {0} /\ 0 \in Levels
  BY LevelCountAssumption DEF Levels
<1>2. ASSUME NEW l \in Levels PROVE LevelBegin(l) \in Nat \ {0}
  <2>1. LevelCount - 1 - l \in 0 .. LevelCount - 1
    BY <1>1 DEF Levels
  <2> QED
    BY <2>1, PowersAssumption DEF LevelBegin
<1>3. ASSUME NEW l \in 0 .. LevelCount - 2 PROVE LevelBegin(l) = 2 * LevelBegin(l + 1)
  <2>1. PICK j \in 0 .. LevelCount - 2 : j = LevelCount - 1 - (l + 1) /\ j + 1 = LevelCount - 1 - l
    BY <1>1
  <2>2. 2^(j + 1) = 2 * 2^j
    BY PowersAssumption
  <2> QED
    BY <2>1, <2>2 DEF LevelBegin
<1>4. LevelBegin(LevelCount - 1) = 1
  <2>1. LevelCount - 1 - (LevelCount - 1) = 0
    BY <1>1
  <2>2. 2^0 = 1
    OBVIOUS
  <2> QED
    BY <2>1, <2>2 DEF LevelBegin
<1> QED
  BY <1>1, <1>2, <1>3, <1>4

LEMMA Constants ==
  /\ LevelCount \in Nat \ {0} /\ 0 \in Levels
  /\ LeafBegin \in Nat \ {0} /\ Invalid \in Nat
  /\ Leaves \subseteq Positions /\ Inner \subseteq Positions
BY LevelPowers DEF LeafBegin, Invalid, Leaves, Inner, Positions

\* The first position of a level lies between the root and the first leaf.
LEMMA LevelBounds ==
  ASSUME NEW l \in Levels
  PROVE  /\ LevelBegin(l) \in Nat /\ 1 <= LevelBegin(l)
         /\ LevelBegin(l) <= LeafBegin
<1> DEFINE T == {m \in Levels : LevelBegin(m) > LeafBegin}
<1>1. T \subseteq Nat
  BY DEF Levels
<1>2. ASSUME NEW m \in T, \A y \in T : m <= y PROVE FALSE
  <2>1. m # 0 /\ m \in Nat /\ m <= LevelCount - 1
    BY LevelPowers DEF LeafBegin, Levels
  <2>2. PICK j \in 0 .. LevelCount - 2 : j + 1 = m
    BY <2>1, LevelPowers
  <2>3. j \in Levels /\ j \notin T
    BY <1>2, <2>2, LevelPowers DEF Levels
  <2>4. LevelBegin(j) = 2 * LevelBegin(m) /\ LevelBegin(m) \in Nat /\ LevelBegin(j) \in Nat
    BY <2>2, <2>3, LevelPowers
  <2>5. LeafBegin \in Nat
    BY Constants
  <2> QED
    BY <2>3, <2>4, <2>5
<1> HIDE DEF T
<1>3. T = {}
  BY <1>1, <1>2, LeastNat
<1> QED
  BY <1>3, LevelPowers, Constants DEF T

\* A node other than the root is one of its parent's two children, its sibling
\* the other one.
LEMMA ParentChild ==
  ASSUME NEW p \in Positions, p # 1
  PROVE  /\ Parent(p) \in Inner
         /\ Sibling(p) \in Positions
         /\ \/ p = 2 * Parent(p) /\ Sibling(p) = 2 * Parent(p) + 1
            \/ p = 2 * Parent(p) + 1 /\ Sibling(p) = 2 * Parent(p)
<1> DEFINE n == LeafBegin
<1>1. n \in Nat \ {0} /\ p \in 1 .. 2 * n - 1
  BY Constants DEF Positions, Invalid
<1>2. p \in Int /\ (p % 2 = 0 \/ p % 2 = 1)
  BY <1>1
<1>3. CASE p % 2 = 0
  <2>1. PICK q \in Int : p = 2 * q
    BY <1>2, <1>3
  <2>2. Parent(p) = q
    BY <2>1 DEF Parent
  <2>3. Sibling(p) = p + 1
    BY <1>3 DEF Sibling
  <2> QED
    BY <1>1, <2>1, <2>2, <2>3 DEF Inner, Positions, Invalid
<1>4. CASE p % 2 = 1
  <2>1. PICK q \in Int : p = 2 * q + 1
    BY <1>2, <1>4
  <2>2. Parent(p) = q
    BY <2>1 DEF Parent
  <2>3. Sibling(p) = p - 1
    BY <1>4 DEF Sibling
  <2> QED
    BY <1>1, <2>1, <2>2, <2>3 DEF Inner, Positions, Invalid
<1> QED
  BY <1>2, <1>3, <1>4

-----------------------------------------------------------------------------
(* Where the loops are: enough for type correctness. *)

LoopInv ==
  /\ pc \notin Fresh => lvl \in Levels
  /\ pc \in {"closed", "fill"} => lvl = 0
  /\ pc = "build" => lvl \in 1 .. LevelCount
  /\ use # "none" => pc \notin Fresh /\ (itp # Invalid => InLevel(itp, lvl))
  /\ use = "sweep" => lvl = 0
  /\ pc = "first" => pos = LevelBegin(lvl)
  /\ pc \in {"first", "up", "down"} => pos < 2 * LevelBegin(lvl) /\ use # "none"
  /\ pc \in {"sweep", "next"} => use = "sweep"
  /\ pc = "next" \/ (pc = "cleaning" /\ use = "sweep") => itp # Invalid

TypeInv == TypeOK /\ LoopInv

LEMMA TypeInit == Init => TypeInv
BY Constants DEF Init, TypeInv, TypeOK, LoopInv, Positions, Invalid, Fresh

LEMMA TypeStep == TypeInv /\ [Next]_vars => TypeInv'
<1> SUFFICES ASSUME TypeInv, [Next]_vars PROVE TypeInv'
  OBVIOUS
<1> USE Constants, LevelBounds DEF TypeInv, TypeOK, LoopInv
<1>1. CASE Open \/ SetInitialized \/ EndWalk \/ EndSweep \/ Crash
  <2>1. CASE Open
    BY <2>1 DEF Open, Fresh, Busy
  <2>2. CASE SetInitialized
    <3>1. 0 \in 0 .. Invalid - 1 /\ 0 \in 0 .. LevelCount
      BY DEF Invalid
    <3> QED
      BY <2>2, <3>1 DEF SetInitialized, Fresh, Busy
  <2>3. CASE EndWalk
    BY <2>3 DEF EndWalk, Fresh, Busy
  <2>4. CASE EndSweep
    BY <2>4 DEF EndSweep, Fresh, Busy
  <2>5. CASE Crash
    BY <2>5 DEF Crash, Fresh, Busy, Positions, Levels, Invalid
  <2> QED
    BY <1>1, <2>1, <2>2, <2>3, <2>4, <2>5
<1>2. CASE Fill \/ BuildLevel
  <2>1. CASE Fill
    BY <2>1 DEF Fill, Fresh, Busy, Levels
  <2>2. CASE BuildLevel
    <3>1. tree' \in [0 .. Invalid - 1 -> BOOLEAN]
      BY <2>2 DEF BuildLevel
    <3>2. pc = "build" /\ lvl \in 1 .. LevelCount
      BY <2>2 DEF BuildLevel
    <3>3. \/ lvl < LevelCount /\ lvl' = lvl + 1 /\ pc' = "build"
          \/ lvl' = lvl /\ pc' = "init"
      BY <2>2 DEF BuildLevel
    <3>4. lvl' \in 1 .. LevelCount
      BY <3>2, <3>3
    <3>5. use = "none" /\ use' = use /\ pos' = pos /\ itp' = itp
      BY <2>2, <3>2 DEF BuildLevel, Fresh
    <3> QED
      BY <3>1, <3>3, <3>4, <3>5 DEF Fresh, Busy
  <2> QED
    BY <1>2, <2>1, <2>2
<1>3. ASSUME NEW leaf \in Leaves, MarkDirty(leaf) \/ MarkClean(leaf) PROVE TypeInv'
  BY <1>3 DEF MarkDirty, MarkClean, Fresh, Busy
<1>4. CASE DirtyStep
  <2>1. pos # 1 => Parent(pos) \in Positions
    BY ParentChild
  <2> QED
    BY <1>4, <2>1 DEF DirtyStep, DirtyRoot, Fresh, Busy
<1>5. CASE CleanStep
  <2>1. pos # 1 => Parent(pos) \in Positions
    BY ParentChild
  <2> QED
    BY <1>5, <2>1 DEF CleanStep, Fresh, Busy
<1>6. ASSUME NEW level \in Levels, BeginWalk(level) PROVE TypeInv'
  <2>1. LevelBegin(level) \in Positions /\ LevelBegin(level) < 2 * LevelBegin(level)
    BY DEF Positions, Invalid
  <2>2. level \in 0 .. LevelCount
    BY DEF Levels
  <2> QED
    BY <1>6, <2>1, <2>2 DEF BeginWalk, Fresh, Busy
<1>7. CASE BeginSweep
  <2>1. LevelBegin(0) \in Positions /\ LevelBegin(0) < 2 * LevelBegin(0)
    BY DEF Positions, Invalid
  <2> QED
    BY <1>7, <2>1 DEF BeginSweep, Fresh, Busy, LeafBegin
<1>8. CASE First
  BY <1>8 DEF First, Arrive, Fresh, Busy, InLevel
<1>9. CASE Up
  <2>1. pos # 1 => Parent(pos) \in Positions /\ Parent(pos) < pos
    <3> SUFFICES ASSUME pos # 1 PROVE Parent(pos) \in Positions /\ Parent(pos) < pos
      OBVIOUS
    <3>1. Parent(pos) \in Inner /\ (pos = 2 * Parent(pos) \/ pos = 2 * Parent(pos) + 1)
      BY ParentChild
    <3> QED
      BY <3>1 DEF Inner
  <2>2. pc = "up" /\ lvl \in Levels /\ pos < 2 * LevelBegin(lvl)
    BY <1>9 DEF Up, Fresh
  <2>3. pos % 2 = 0 => RightSibling(pos) \in Positions /\ RightSibling(pos) < 2 * LevelBegin(lvl)
    <3>1. LevelBegin(lvl) \in Nat /\ LevelBegin(lvl) <= LeafBegin /\ pos \in Nat /\ pos >= 1
      BY <2>2 DEF Positions
    <3>2. pos % 2 = 0 => pos + 1 < 2 * LevelBegin(lvl)
      BY <2>2, <3>1
    <3> QED
      BY <3>1, <3>2 DEF RightSibling, Positions, Invalid
  <2> QED
    BY <1>9, <2>1, <2>2, <2>3 DEF Up, Arrive, Fresh, Busy, Positions
<1>10. CASE Down
  <2>1. pc = "down" /\ lvl \in Levels /\ pos < 2 * LevelBegin(lvl)
    BY <1>10 DEF Down, Fresh
  <2>2. ~InLevel(pos, lvl) => /\ DirtyChild(pos) \in Positions
                              /\ DirtyChild(pos) < 2 * LevelBegin(lvl)
    BY <2>1 DEF InLevel, DirtyChild, Positions, Invalid
  <2> QED
    BY <1>10, <2>1, <2>2 DEF Down, Arrive, Fresh, Busy
<1>11. CASE StepWalk
  BY <1>11 DEF StepWalk, Fresh, Busy, InLevel
<1>12. CASE SweepBody
  BY <1>12 DEF SweepBody, Fresh, Busy
<1>13. CASE SweepNext
  BY <1>13 DEF SweepNext, Fresh, Busy, InLevel
<1>14. CASE UNCHANGED vars
  BY <1>14 DEF vars
<1> QED
  BY <1>1, <1>2, <1>3, <1>4, <1>5, <1>6, <1>7, <1>8, <1>9, <1>10, <1>11, <1>12, <1>13, <1>14
     DEF Next, Step

\* Type correctness, whatever the tree's size and wherever its owner is killed:
\* no loop of dirty_page_tree ever leaves the array of flags.
THEOREM TypeCorrect == Spec => []TypeOK
<1>1. TypeInv => TypeOK
  BY DEF TypeInv
<1> QED
  BY TypeInit, TypeStep, <1>1, PTL DEF Spec

-----------------------------------------------------------------------------
(* The inductive invariant: which nodes agree with their children, by pc. *)

ClimbInv ==
  /\ pc \notin Fresh => tree[0]
  /\ pc \in {"fill", "build", "init"} => ~tree[0]
  /\ pc \notin {"dirtying", "cleaning"} /\ tree[0] => \A p \in Inner : Consistent(p)
  /\ pc = "build" => \A p \in Inner : IF p < LevelBegin(lvl - 1) THEN ~tree[p] ELSE Consistent(p)
  /\ pc = "init" => \A p \in Inner : Consistent(p)
  /\ pc \in {"dirtying", "cleaning"} => \A p \in Inner \ {pos} : Consistent(p)
  /\ pc = "dirtying" /\ pos \in Inner => tree[2 * pos] \/ tree[2 * pos + 1]
  /\ pc = "cleaning" /\ pos \in Inner => ~tree[2 * pos] /\ ~tree[2 * pos + 1]

\* The owner is never killed while it climbs.
QuietOwner == CrashPoints \cap {"dirtying", "cleaning"} = {}

LEMMA ClimbInit == Init => ClimbInv
<1> SUFFICES ASSUME Init PROVE ClimbInv
  OBVIOUS
<1>1. 0 \in 0 .. Invalid - 1
  BY Constants DEF Invalid
<1>2. pc = "closed" /\ ~tree[0]
  BY <1>1 DEF Init
<1> QED
  BY <1>2 DEF ClimbInv, Fresh, Consistent

\* Changing one node's flag only concerns the node and its parent.
LEMMA LocalChange ==
  ASSUME TypeOK, NEW b \in BOOLEAN, tree' = [tree EXCEPT ![pos] = b],
         NEW p \in Inner, p # pos, pos = 1 \/ p # Parent(pos), Consistent(p)
  PROVE  ConsistentIn(tree', p)
<1>1. /\ p \in Positions /\ 2 * p \in Positions /\ 2 * p + 1 \in Positions
      /\ pos \in Positions /\ LeafBegin \in Nat
  BY Constants DEF TypeOK, Inner, Positions, Invalid
<1>2. pos # 2 * p /\ pos # 2 * p + 1
  <2>1. CASE pos = 1
    BY <2>1, <1>1 DEF Inner
  <2>2. CASE pos # 1
    <3>1. pos = 2 * Parent(pos) \/ pos = 2 * Parent(pos) + 1
      BY <2>2, <1>1, ParentChild
    <3>2. Parent(pos) \in Int /\ p \in Int /\ p # Parent(pos)
      BY <2>2, <1>1, ParentChild DEF Inner
    <3> QED
      BY <3>1, <3>2
  <2> QED
    BY <2>1, <2>2
<1>3. tree'[p] = tree[p] /\ tree'[2 * p] = tree[2 * p] /\ tree'[2 * p + 1] = tree[2 * p + 1]
  BY <1>1, <1>2 DEF TypeOK, Positions
<1> QED
  BY <1>3 DEF Consistent, ConsistentIn

LEMMA ClimbStep ==
  ASSUME QuietOwner, TypeInv, ClimbInv, [Next]_vars
  PROVE  ClimbInv'
<1>0. TypeOK /\ LoopInv /\ 0 \notin Positions /\ 0 \in 0 .. Invalid - 1
  BY Constants DEF TypeInv, Positions, Invalid
<1>1. CASE Fill
  <2>1. ~tree'[0]
    <3>1. 0 \notin LeafBegin .. LeafBegin + LeafCount - 1
      BY Constants
    <3>2. 0 \notin LeafBegin + LeafCount .. Invalid - 1
      BY Constants, LevelCountAssumption
    <3> QED
      BY <1>0, <1>1, <3>1, <3>2 DEF Fill
  <2>2. pc' = "build" /\ lvl' = 1 /\ LevelBegin(lvl' - 1) = LeafBegin
    BY <1>1 DEF Fill, LeafBegin
  <2>3. ASSUME NEW p \in Inner PROVE p < LeafBegin /\ ~tree'[p]
    BY <1>1, Constants, LevelCountAssumption DEF Fill, Inner, Invalid
  <2> QED
    BY <2>1, <2>2, <2>3 DEF ClimbInv, Fresh, Consistent
<1>2. CASE BuildLevel
  <2>1. pc = "build" /\ lvl \in 1 .. LevelCount /\ ~tree[0]
    BY <1>0, <1>2 DEF BuildLevel, LoopInv, ClimbInv
  <2>2. CASE lvl < LevelCount
    <3>1. lvl \in Levels /\ lvl - 1 \in 0 .. LevelCount - 2 /\ lvl - 1 \in Levels
      BY <2>1, <2>2, Constants DEF Levels
    <3>2. /\ LevelBegin(lvl - 1) = 2 * LevelBegin(lvl) /\ LevelBegin(lvl) \in Nat
          /\ LevelBegin(lvl) >= 1 /\ LevelBegin(lvl - 1) <= LeafBegin
      <4>1. LevelBegin(lvl - 1) = 2 * LevelBegin((lvl - 1) + 1)
        BY <3>1, LevelPowers
      <4>2. (lvl - 1) + 1 = lvl
        BY <2>1, Constants
      <4> QED
        BY <3>1, <4>1, <4>2, LevelBounds
    <3>3. /\ pc' = "build" /\ lvl' = lvl + 1
          /\ tree' = [p \in 0 .. Invalid - 1 |->
                        IF InLevel(p, lvl) /\ (tree[2 * p] \/ tree[2 * p + 1])
                          THEN TRUE ELSE tree[p]]
      BY <1>2, <2>1, <2>2, Constants DEF BuildLevel
    <3>4. tree'[0] = tree[0] /\ lvl' - 1 = lvl
      <4>1. ~InLevel(0, lvl) /\ lvl' - 1 = lvl
        BY <2>1, <3>2, <3>3, Constants DEF InLevel
      <4> QED
        BY <1>0, <3>3, <4>1
    <3>5. ASSUME NEW p \in Inner
          PROVE IF p < LevelBegin(lvl) THEN ~tree'[p] ELSE ConsistentIn(tree', p)
      <4>1. /\ p \in Nat /\ p >= 1 /\ p \in 0 .. Invalid - 1
            /\ 2 * p \in 0 .. Invalid - 1 /\ 2 * p + 1 \in 0 .. Invalid - 1
        BY Constants DEF Inner, Invalid
      <4>2. IF p < LevelBegin(lvl - 1) THEN ~tree[p] ELSE Consistent(p)
        BY <2>1 DEF ClimbInv
      <4>3. CASE p < LevelBegin(lvl)
        <5>1. ~InLevel(p, lvl) /\ p < LevelBegin(lvl - 1)
          BY <4>1, <4>3, <3>2 DEF InLevel
        <5> QED
          BY <5>1, <4>1, <4>2, <4>3, <3>3
      <4>4. CASE ~(p < LevelBegin(lvl))
        <5>1. ~InLevel(2 * p, lvl) /\ ~InLevel(2 * p + 1, lvl)
          BY <4>1, <4>4, <3>2 DEF InLevel
        <5>2. tree'[2 * p] = tree[2 * p] /\ tree'[2 * p + 1] = tree[2 * p + 1]
          BY <5>1, <4>1, <3>3
        <5>3. CASE p < LevelBegin(lvl - 1)
          <6>1. InLevel(p, lvl) /\ ~tree[p]
            BY <5>3, <4>1, <4>2, <4>4, <3>2 DEF InLevel
          <6>2. tree'[p] <=> (tree[2 * p] \/ tree[2 * p + 1])
            BY <6>1, <4>1, <3>3
          <6> QED
            BY <6>2, <5>2, <4>4 DEF Consistent, ConsistentIn
        <5>4. CASE ~(p < LevelBegin(lvl - 1))
          <6>1. ~InLevel(p, lvl) /\ Consistent(p)
            BY <5>4, <4>1, <4>2, <3>2 DEF InLevel
          <6>2. tree'[p] = tree[p]
            BY <6>1, <4>1, <3>3
          <6> QED
            BY <6>1, <6>2, <5>2, <4>4 DEF Consistent, ConsistentIn
        <5> QED
          BY <5>3, <5>4
      <4> QED
        BY <4>3, <4>4
    <3> QED
      BY <2>1, <3>3, <3>4, <3>5 DEF ClimbInv, Fresh, Consistent
  <2>3. CASE ~(lvl < LevelCount)
    <3>1. lvl - 1 = LevelCount - 1 /\ LevelBegin(lvl - 1) = 1
      BY <2>1, <2>3, Constants, LevelPowers
    <3>2. pc' = "init" /\ tree' = tree
      BY <1>2, <2>3 DEF BuildLevel
    <3>3. ASSUME NEW p \in Inner PROVE Consistent(p)
      BY <2>1, <3>1 DEF ClimbInv, Inner
    <3> QED
      BY <2>1, <3>2, <3>3 DEF ClimbInv, Consistent, ConsistentIn, Fresh
  <2> QED
    BY <2>2, <2>3
<1>3. CASE SetInitialized
  <2>1. /\ pc = "init" /\ pc' = "idle" /\ tree' = [tree EXCEPT ![0] = TRUE]
        /\ \A p \in Inner : Consistent(p)
    BY <1>3 DEF SetInitialized, ClimbInv
  <2>2. tree'[0] = TRUE
    BY <1>0, <2>1 DEF TypeOK
  <2>3. ASSUME NEW p \in Inner PROVE ConsistentIn(tree', p)
    <3>1. /\ p # 0 /\ 2 * p # 0 /\ 2 * p + 1 # 0
          /\ {p, 2 * p, 2 * p + 1} \subseteq 0 .. Invalid - 1
      BY Constants DEF Inner, Invalid
    <3> QED
      BY <1>0, <2>1, <3>1 DEF TypeOK, Consistent, ConsistentIn
  <2> QED
    BY <2>1, <2>2, <2>3 DEF ClimbInv, Fresh, Consistent
<1>4. CASE DirtyStep
  <2>1. pc = "dirtying" /\ pos \in Positions /\ tree[0] /\ \A p \in Inner \ {pos} : Consistent(p)
    BY <1>0, <1>4 DEF DirtyStep, ClimbInv, TypeOK, Fresh
  <2>2. CASE pos # 1 /\ tree[pos]
    <3>1. pc' = "idle" /\ tree' = tree
      BY <1>4, <2>2 DEF DirtyStep
    <3>2. \A p \in Inner : Consistent(p)
      BY <2>1, <2>2 DEF ClimbInv, Consistent, ConsistentIn
    <3> QED
      BY <2>1, <3>1, <3>2 DEF ClimbInv, Consistent, ConsistentIn, Fresh
  <2>3. CASE ~(pos # 1 /\ tree[pos])
    <3>1. tree' = [tree EXCEPT ![pos] = TRUE]
      BY <1>4, <2>3 DEF DirtyStep, DirtyRoot
    <3>2. tree'[0] /\ tree'[pos]
      BY <1>0, <2>1, <3>1 DEF TypeOK, Positions
    <3>3. ASSUME NEW p \in Inner \ {pos}, pos = 1 \/ p # Parent(pos) PROVE ConsistentIn(tree', p)
      BY <1>0, <2>1, <3>1, <3>3, LocalChange
    <3>4. pos \in Inner => ConsistentIn(tree', pos)
      <4> SUFFICES ASSUME pos \in Inner
                   PROVE  tree'[pos] <=> (tree'[2 * pos] \/ tree'[2 * pos + 1])
        BY DEF Consistent, ConsistentIn
      <4>0. /\ 2 * pos # pos /\ 2 * pos + 1 # pos
            /\ {2 * pos, 2 * pos + 1} \subseteq 0 .. Invalid - 1
        BY Constants DEF Inner, Invalid
      <4>1. tree'[2 * pos] = tree[2 * pos] /\ tree'[2 * pos + 1] = tree[2 * pos + 1]
        BY <1>0, <3>1, <4>0 DEF TypeOK
      <4>2. tree[2 * pos] \/ tree[2 * pos + 1]
        BY <2>1 DEF ClimbInv
      <4> QED
        BY <4>1, <4>2, <3>2
    <3>5. CASE pos = 1
      <4>1. pc' = "idle"
        BY <1>4, <3>5 DEF DirtyStep
      <4>2. \A p \in Inner : ConsistentIn(tree', p)
        BY <3>3, <3>4, <3>5
      <4> QED
        BY <4>1, <4>2, <3>2 DEF ClimbInv, Fresh, Consistent
    <3>6. CASE pos # 1
      <4>1. pc' = "dirtying" /\ pos' = Parent(pos)
        BY <1>4, <2>1, <2>3, <3>6 DEF DirtyStep
      <4>2. pos' \in Inner /\ (pos = 2 * pos' \/ pos = 2 * pos' + 1)
        BY <2>1, <3>6, <4>1, ParentChild
      <4>3. tree'[2 * pos'] \/ tree'[2 * pos' + 1]
        BY <3>2, <4>2
      <4>4. \A p \in Inner \ {pos'} : ConsistentIn(tree', p)
        BY <3>3, <3>4, <3>6, <4>1
      <4> QED
        BY <4>1, <4>3, <4>4, <3>2 DEF ClimbInv, Fresh, Consistent
    <3> QED
      BY <3>5, <3>6
  <2> QED
    BY <2>2, <2>3
<1>5. CASE CleanStep
  <2>1. /\ pc = "cleaning" /\ pos \in Positions /\ tree[0]
        /\ \A p \in Inner \ {pos} : Consistent(p)
    BY <1>0, <1>5 DEF CleanStep, ClimbInv, TypeOK, Fresh
  <2>2. tree' = [tree EXCEPT ![pos] = FALSE]
    BY <1>5 DEF CleanStep
  <2>3. tree'[0] /\ ~tree'[pos]
    BY <1>0, <2>1, <2>2 DEF TypeOK, Positions
  <2>4. ASSUME NEW p \in Inner \ {pos}, pos = 1 \/ p # Parent(pos) PROVE ConsistentIn(tree', p)
    BY <1>0, <2>1, <2>2, <2>4, LocalChange
  <2>5. pos \in Inner => ConsistentIn(tree', pos)
    <3> SUFFICES ASSUME pos \in Inner
                 PROVE  tree'[pos] <=> (tree'[2 * pos] \/ tree'[2 * pos + 1])
      BY DEF Consistent, ConsistentIn
    <3>0. /\ 2 * pos # pos /\ 2 * pos + 1 # pos
          /\ {2 * pos, 2 * pos + 1} \subseteq 0 .. Invalid - 1
      BY Constants DEF Inner, Invalid
    <3>1. tree'[2 * pos] = tree[2 * pos] /\ tree'[2 * pos + 1] = tree[2 * pos + 1]
      BY <1>0, <2>2, <3>0 DEF TypeOK
    <3>2. ~tree[2 * pos] /\ ~tree[2 * pos + 1]
      BY <2>1 DEF ClimbInv
    <3> QED
      BY <3>1, <3>2, <2>3
  <2>6. CASE pos = 1
    <3>1. pc' \in {"next", "idle"}
      BY <1>5, <2>6 DEF CleanStep
    <3>2. \A p \in Inner : ConsistentIn(tree', p)
      BY <2>4, <2>5, <2>6
    <3> QED
      BY <3>1, <3>2, <2>3 DEF ClimbInv, Fresh, Consistent
  <2>7. CASE pos # 1
    <3>1. /\ Parent(pos) \in Inner /\ Sibling(pos) \in Positions
          /\ \/ pos = 2 * Parent(pos) /\ Sibling(pos) = 2 * Parent(pos) + 1
             \/ pos = 2 * Parent(pos) + 1 /\ Sibling(pos) = 2 * Parent(pos)
      BY <2>1, <2>7, ParentChild
    <3>2. /\ Sibling(pos) # pos /\ Parent(pos) # pos
          /\ {Sibling(pos), Parent(pos)} \subseteq 0 .. Invalid - 1
      BY <2>1, <3>1, Constants DEF Inner, Positions, Invalid
    <3>3. tree'[Sibling(pos)] = tree[Sibling(pos)] /\ tree'[Parent(pos)] = tree[Parent(pos)]
      BY <1>0, <2>2, <3>2 DEF TypeOK
    <3>4. CASE tree[Sibling(pos)]
      <4>1. pc' \in {"next", "idle"}
        BY <1>5, <2>7, <3>4 DEF CleanStep
      <4>2. tree[Parent(pos)]
        BY <2>1, <3>1, <3>2, <3>4 DEF Consistent, ConsistentIn
      <4>3. ConsistentIn(tree', Parent(pos))
        BY <3>1, <3>3, <3>4, <4>2 DEF ConsistentIn
      <4>4. \A p \in Inner : ConsistentIn(tree', p)
        BY <2>4, <2>5, <4>3
      <4> QED
        BY <4>1, <4>4, <2>3 DEF ClimbInv, Fresh, Consistent
    <3>5. CASE ~tree[Sibling(pos)]
      <4>1. pc' = "cleaning" /\ pos' = Parent(pos)
        BY <1>5, <2>1, <2>7, <3>5 DEF CleanStep
      <4>2. ~tree'[2 * pos'] /\ ~tree'[2 * pos' + 1]
        BY <3>1, <3>3, <3>5, <4>1, <2>3
      <4>3. \A p \in Inner \ {pos'} : ConsistentIn(tree', p)
        BY <2>4, <2>5, <2>7, <4>1
      <4> QED
        BY <4>1, <4>2, <4>3, <2>3 DEF ClimbInv, Fresh, Consistent
    <3> QED
      BY <3>4, <3>5
  <2> QED
    BY <2>6, <2>7
<1>6. ASSUME NEW leaf \in Leaves, MarkDirty(leaf) \/ MarkClean(leaf) PROVE ClimbInv'
  <2>1. /\ pc = "idle" /\ pc' \in {"dirtying", "cleaning"} /\ tree' = tree /\ pos' = leaf
    BY <1>6 DEF MarkDirty, MarkClean
  <2>2. pos' \notin Inner
    BY <2>1, Constants DEF Leaves, Inner, Invalid
  <2> QED
    BY <2>1, <2>2 DEF ClimbInv, Fresh, Consistent, ConsistentIn
<1>7. CASE /\ tree' = tree
           /\ pc \notin Fresh \cup {"dirtying", "cleaning"}
           /\ pc' \in {"idle", "first", "up", "down", "sweep", "next"}
  BY <1>7 DEF ClimbInv, Fresh, Consistent, ConsistentIn
<1>8. CASE SweepBody
  <2>1. pc = "sweep" /\ pc' = "cleaning" /\ tree' = tree /\ pos' = itp /\ lvl = 0 /\ InLevel(itp, 0)
    BY <1>0, <1>8 DEF SweepBody, LoopInv
  <2>2. pos' \notin Inner
    BY <2>1, Constants DEF InLevel, LeafBegin, Inner
  <2> QED
    BY <2>1, <2>2 DEF ClimbInv, Fresh, Consistent, ConsistentIn
<1>9. CASE Open
  BY <1>9 DEF Open, ClimbInv, Fresh, Consistent, ConsistentIn
<1>10. CASE Crash
  BY <1>10 DEF Crash, QuietOwner, ClimbInv, Fresh, Consistent, ConsistentIn
<1>11. CASE UNCHANGED vars
  BY <1>11 DEF vars, ClimbInv, Consistent, ConsistentIn
<1>12. CASE First \/ Up \/ Down \/ StepWalk \/ EndWalk \/ SweepNext \/ EndSweep \/ BeginSweep
  BY <1>7, <1>12 DEF First, Up, Down, StepWalk, EndWalk, SweepNext, EndSweep, BeginSweep, Arrive, Fresh
<1>13. ASSUME NEW level \in Levels, BeginWalk(level) PROVE ClimbInv'
  BY <1>7, <1>13 DEF BeginWalk, Fresh
<1> QED
  BY <1>1, <1>2, <1>3, <1>4, <1>5, <1>6, <1>8, <1>9, <1>10, <1>11, <1>12, <1>13 DEF Next, Step

\* Between operations every inner flag of dirty_page_tree is the or of its two
\* children's flags, for a tree of any size, as long as no owner of a shared
\* file is killed inside mark_dirty_page_and_up or mark_clean_page_and_up.
THEOREM TreeConsistent == QuietOwner => (Spec => []TreeInvariant)
<1> SUFFICES ASSUME QuietOwner PROVE Spec => []TreeInvariant
  OBVIOUS
<1>1. TypeInv /\ ClimbInv /\ [Next]_vars => (TypeInv /\ ClimbInv)'
  BY TypeStep, ClimbStep
<1>2. ClimbInv => TreeInvariant
  BY DEF ClimbInv, TreeInvariant
<1> QED
  BY TypeInit, ClimbInit, <1>1, <1>2, PTL DEF Spec

-----------------------------------------------------------------------------
(* What the flags say of a whole subtree: the nodes at level l below a node *)
(* m at level k are the Span(k, l) positions from Span(k, l) * m on.        *)

\* A node at level l that a node at level k covers is one of Span(k, l) of them.
Span(k, l) == 2^(k - l)
DirtyIn(l) == {n \in Positions : InLevel(n, l) /\ tree[n]}
Under(n, m, w) == w * m <= n /\ n < w * (m + 1)

LEMMA Spans ==
  ASSUME NEW l \in Levels, NEW k \in l .. LevelCount - 1
  PROVE  /\ k \in Levels /\ k \in Nat /\ l \in Nat /\ Span(k, l) \in Nat /\ Span(k, l) >= 1
         /\ k = l => Span(k, l) = 1
         /\ k < LevelCount - 1 => k + 1 \in l .. LevelCount - 1 /\ Span(k + 1, l) = 2 * Span(k, l)
         /\ k > l => k - 1 \in l .. LevelCount - 1 /\ Span(k, l) = 2 * Span(k - 1, l)
<1>1. LevelCount \in Nat /\ l \in Nat /\ k \in Nat /\ l <= k /\ k <= LevelCount - 1
  BY Constants DEF Levels
<1>2. PICK d \in 0 .. LevelCount - 1 : d = k - l
  BY <1>1
<1>3. 2^d \in Nat /\ 2^d >= 1
  BY PowersAssumption
<1>4. k = l => Span(k, l) = 1
  <2>1. k = l => k - l = 0
    BY <1>1
  <2>2. 2^0 = 1
    OBVIOUS
  <2> QED
    BY <2>1, <2>2 DEF Span
<1>5. k < LevelCount - 1 => Span(k + 1, l) = 2 * Span(k, l)
  <2>1. k < LevelCount - 1 => (k + 1) - l = d + 1 /\ d \in 0 .. LevelCount - 2
    BY <1>1, <1>2
  <2> QED
    BY <1>2, <2>1, PowersAssumption DEF Span
<1>6. k > l => Span(k, l) = 2 * Span(k - 1, l)
  <2> SUFFICES ASSUME k > l PROVE Span(k, l) = 2 * Span(k - 1, l)
    OBVIOUS
  <2>1. PICK c \in 0 .. LevelCount - 2 : c = (k - 1) - l /\ c + 1 = k - l
    BY <1>1
  <2>2. 2^(c + 1) = 2 * 2^c
    BY PowersAssumption
  <2> QED
    BY <2>1, <2>2 DEF Span
<1>7. k \in Levels
  BY <1>1 DEF Levels
<1> QED
  BY <1>1, <1>2, <1>3, <1>4, <1>5, <1>6, <1>7 DEF Span

\* The levels fit together: the nodes below those of level k are those of level l.
LEMMA SpanOfLevel ==
  ASSUME NEW l \in Levels, NEW k \in l .. LevelCount - 1
  PROVE  LevelBegin(l) = Span(k, l) * LevelBegin(k)
<1> DEFINE T == {j \in l .. LevelCount - 1 : LevelBegin(l) # Span(j, l) * LevelBegin(j)}
<1>0. LevelCount \in Nat /\ l \in Nat
  BY Constants DEF Levels
<1>1. T \subseteq Nat
  BY <1>0
<1>2. ASSUME NEW m \in T, \A y \in T : m <= y PROVE FALSE
  <2>1. m \in l .. LevelCount - 1 /\ m \in Nat /\ m <= LevelCount - 1 /\ l <= m
    BY <1>0
  <2>2. m # l
    <3>1. LevelBegin(l) \in Nat
      BY LevelPowers
    <3>2. m = l => Span(m, l) = 1
      BY <2>1, Spans
    <3> QED
      BY <3>1, <3>2
  <2>3. PICK j \in l .. LevelCount - 2 : j + 1 = m
    BY <1>0, <2>1, <2>2
  <2>4. j \in l .. LevelCount - 1 /\ j \notin T /\ j \in 0 .. LevelCount - 2 /\ j < LevelCount - 1
    BY <1>0, <1>2, <2>3
  <2>5. LevelBegin(l) = Span(j, l) * LevelBegin(j) /\ Span(m, l) = 2 * Span(j, l)
        /\ Span(j, l) \in Nat
    BY <2>3, <2>4, Spans
  <2>6. LevelBegin(j) = 2 * LevelBegin(m) /\ LevelBegin(m) \in Nat
    <3>1. m \in Levels
      BY <2>1, Spans
    <3> QED
      BY <2>3, <2>4, <3>1, LevelPowers
  <2>7. \A a, b \in Nat : a * (2 * b) = (2 * a) * b
    OBVIOUS
  <2>8. LevelBegin(l) = Span(m, l) * LevelBegin(m)
    BY <2>5, <2>6, <2>7
  <2> QED
    BY <2>8
<1> HIDE DEF T
<1>3. T = {}
  BY <1>1, <1>2, LeastNat
<1> QED
  BY <1>3 DEF T

\* A node of an inner level has its children in the level below.
LEMMA Children ==
  ASSUME NEW k \in Levels, k > 0, NEW m \in Positions, InLevel(m, k)
  PROVE  /\ k - 1 \in Levels /\ m \in Inner
         /\ 2 * m \in Positions /\ InLevel(2 * m, k - 1)
         /\ 2 * m + 1 \in Positions /\ InLevel(2 * m + 1, k - 1)
<1>1. k \in Nat /\ LevelCount \in Nat /\ k <= LevelCount - 1 /\ m \in Nat
  BY Constants DEF Levels, Positions
<1>2. PICK j \in 0 .. LevelCount - 2 : j = k - 1 /\ j + 1 = k
  BY <1>1
<1>3. j \in Levels /\ LevelBegin(j) = 2 * LevelBegin(k)
  BY <1>1, <1>2, LevelPowers DEF Levels
<1>4. LevelBegin(j) <= LeafBegin /\ LevelBegin(k) \in Nat /\ LevelBegin(k) >= 1 /\ LeafBegin \in Nat
  BY <1>3, LevelBounds, Constants
<1>5. LevelBegin(k) <= m /\ m < 2 * LevelBegin(k)
  BY DEF InLevel
<1>6. InLevel(2 * m, j) /\ InLevel(2 * m + 1, j)
  BY <1>1, <1>3, <1>4, <1>5 DEF InLevel
<1>7. m \in Inner /\ 2 * m \in Positions /\ 2 * m + 1 \in Positions
  BY <1>1, <1>3, <1>4, <1>5 DEF Inner, Positions, Invalid
<1> QED
  BY <1>2, <1>3, <1>6, <1>7

\* Below one of the children is below the node.
LEMMA UnderChild ==
  ASSUME NEW n \in Nat, NEW m \in Nat, NEW w \in Nat
  PROVE  /\ Under(n, m, 2 * w) <=> Under(n, 2 * m, w) \/ Under(n, 2 * m + 1, w)
         /\ Under(n, m, 1) <=> n = m
<1>1. (2 * w) * m = w * (2 * m) /\ (2 * w) * (m + 1) = w * ((2 * m + 1) + 1)
      /\ w * (2 * m) <= w * (2 * m + 1) /\ w * (2 * m + 1) <= w * ((2 * m + 1) + 1)
  OBVIOUS
<1>2. w * (2 * m) \in Int /\ w * (2 * m + 1) \in Int /\ w * ((2 * m + 1) + 1) \in Int
  OBVIOUS
<1>3. 1 * m = m /\ 1 * (m + 1) = m + 1
  OBVIOUS
<1>4. Under(n, m, 1) <=> n = m
  BY <1>3 DEF Under
<1> QED
  BY <1>1, <1>2, <1>4 DEF Under

Sound == \A p \in Inner : Consistent(p)

\* A dirty node makes every node above it dirty.
LEMMA DirtyAbove ==
  ASSUME Sound, NEW l \in Levels, NEW n \in DirtyIn(l), NEW k \in l .. LevelCount - 1,
         NEW m \in Positions, InLevel(m, k), Under(n, m, Span(k, l))
  PROVE  tree[m]
<1> DEFINE T == {j \in l .. LevelCount - 1 :
                   \E x \in Positions : InLevel(x, j) /\ Under(n, x, Span(j, l)) /\ ~tree[x]}
<1>0. LevelCount \in Nat /\ l \in Nat /\ n \in Nat /\ tree[n]
  BY Constants DEF Levels, DirtyIn, Positions
<1>1. T \subseteq Nat
  BY <1>0
<1>2. ASSUME NEW j \in T, \A y \in T : j <= y PROVE FALSE
  <2>1. j \in l .. LevelCount - 1 /\ j \in Nat /\ l <= j
    BY <1>0
  <2>2. PICK x \in Positions : InLevel(x, j) /\ Under(n, x, Span(j, l)) /\ ~tree[x]
    BY <1>2
  <2>3. x \in Nat /\ Span(j, l) \in Nat
    BY <2>1, Spans DEF Positions
  <2>4. j # l
    <3>1. j = l => Span(j, l) = 1
      BY <2>1, Spans
    <3>2. j = l => n = x
      BY <1>0, <2>2, <2>3, <3>1, UnderChild
    <3> QED
      BY <1>0, <2>2, <3>2
  <2>5. PICK i \in l .. LevelCount - 1 : i = j - 1 /\ Span(j, l) = 2 * Span(i, l)
    BY <1>0, <2>1, <2>4, Spans
  <2>6. i \notin T /\ Span(i, l) \in Nat
    BY <1>0, <1>2, <2>1, <2>5, Spans
  <2>7. Under(n, 2 * x, Span(i, l)) \/ Under(n, 2 * x + 1, Span(i, l))
    BY <1>0, <2>2, <2>3, <2>5, <2>6, UnderChild
  <2>8. j \in Levels /\ j > 0
    BY <1>0, <2>1, <2>4, Spans
  <2>9. /\ 2 * x \in Positions /\ InLevel(2 * x, i) /\ 2 * x + 1 \in Positions /\ InLevel(2 * x + 1, i)
        /\ x \in Inner
    BY <2>2, <2>5, <2>8, Children
  <2>10. tree[2 * x] \/ tree[2 * x + 1]
    BY <2>6, <2>7, <2>9
  <2> QED
    BY <2>2, <2>9, <2>10 DEF Sound, Consistent, ConsistentIn
<1>3. T = {}
  <2> HIDE DEF T
  <2> QED
    BY <1>1, <1>2, LeastNat
<1> QED
  BY <1>3

\* A dirty node has a dirty page below it.
LEMMA DirtyBelow ==
  ASSUME Sound, NEW k \in Levels, NEW m \in DirtyIn(k)
  PROVE  \E q \in Leaves : tree[q] /\ Under(q, m, Span(k, 0))
<1> DEFINE Has(j, x) == \E q \in Leaves : tree[q] /\ Under(q, x, Span(j, 0))
           T == {j \in Levels : \E x \in DirtyIn(j) : ~Has(j, x)}
<1>0. LevelCount \in Nat /\ 0 \in Levels /\ Levels = 0 .. LevelCount - 1 /\ LeafBegin \in Nat
  BY Constants DEF Levels
<1>1. T \subseteq Nat
  BY <1>0
<1>2. ASSUME NEW j \in T, \A y \in T : j <= y PROVE FALSE
  <2>1. j \in 0 .. LevelCount - 1 /\ j \in Nat /\ j \in Levels
    BY <1>0
  <2>2. PICK x \in DirtyIn(j) : ~Has(j, x)
    BY <1>2
  <2>3. x \in Nat /\ x \in Positions /\ InLevel(x, j) /\ tree[x] /\ Span(j, 0) \in Nat
    BY <1>0, <2>1, Spans DEF Positions, DirtyIn
  <2>4. j # 0
    <3> SUFFICES ASSUME j = 0 PROVE FALSE
      OBVIOUS
    <3>1. x \in Leaves
      BY <1>0, <2>3 DEF InLevel, Leaves, LeafBegin, Invalid
    <3>2. Span(0, 0) = 1
      BY <1>0, <2>1, Spans
    <3>3. Under(x, x, 1)
      BY <2>3, UnderChild
    <3> QED
      BY <2>2, <2>3, <3>1, <3>2, <3>3
  <2>5. PICK i \in 0 .. LevelCount - 1 : i = j - 1 /\ Span(j, 0) = 2 * Span(i, 0)
    BY <1>0, <2>1, <2>4, Spans
  <2>6. i \in Levels /\ i \notin T /\ Span(i, 0) \in Nat
    BY <1>0, <1>2, <2>1, <2>5, Spans
  <2>7. /\ 2 * x \in Positions /\ InLevel(2 * x, i) /\ 2 * x + 1 \in Positions /\ InLevel(2 * x + 1, i)
        /\ x \in Inner
    BY <2>1, <2>3, <2>4, <2>5, Children
  <2>8. tree[2 * x] \/ tree[2 * x + 1]
    BY <2>3, <2>7 DEF Sound, Consistent, ConsistentIn
  <2>9. PICK c \in DirtyIn(i) : c = 2 * x \/ c = 2 * x + 1
    BY <2>7, <2>8 DEF DirtyIn
  <2>10. PICK q \in Leaves : tree[q] /\ Under(q, c, Span(i, 0))
    BY <2>6
  <2>11. Under(q, x, Span(j, 0))
    <3>1. q \in Nat
      BY <1>0 DEF Leaves, Invalid
    <3>a. Under(q, 2 * x, Span(i, 0)) \/ Under(q, 2 * x + 1, Span(i, 0))
      BY <2>9, <2>10
    <3>2. Under(q, x, 2 * Span(i, 0))
      BY <2>3, <2>6, <3>1, <3>a, UnderChild
    <3> QED
      BY <2>5, <3>2
  <2> QED
    BY <2>2, <2>10, <2>11
<1>3. T = {}
  <2> HIDE DEF T
  <2> QED
    BY <1>1, <1>2, LeastNat
<1> QED
  BY <1>3


-----------------------------------------------------------------------------
(* The inductive invariant of the walks. *)

\* The nodes of the level up to this one are those the iterator has passed.
After == IF itp = Invalid THEN LevelBegin(lvl) - 1 ELSE itp

\* Every dirty node the iterator has still to find begins at `bound` or later,
\* and the nodes it has passed end before.
Ahead(bound) == After < bound /\ \A n \in DirtyIn(lvl) : n > After => n >= bound

\* up() has dealt with the nodes below pos, down() goes to the first dirty node,
\* which is below pos.
WalkInv ==
  /\ pc = "first" => itp = Invalid
  /\ pc = "up" => \E k \in lvl .. LevelCount - 1 : InLevel(pos, k) /\ Ahead(Span(k, lvl) * (pos + 1))
  /\ pc = "down" =>
       tree[pos] /\ \E k \in lvl .. LevelCount - 1 : InLevel(pos, k) /\ Ahead(Span(k, lvl) * pos)

\* clean() leaves no dirty page behind its iterator.
SweepInv ==
  use = "sweep" =>
    /\ pc \in {"first", "up", "down", "next"} => \A q \in Leaves : q <= After => ~tree[q]
    /\ pc \in {"sweep", "cleaning"} => \A q \in Leaves : q < itp => ~tree[q]
    /\ pc = "cleaning" => IF pos \in Leaves THEN pos = itp ELSE ~tree[itp]

LEMMA Quotients ==
  ASSUME NEW w \in Nat \ {0}, NEW p \in Nat, NEW i \in Nat
  PROVE  p \div w = i <=> w * i <= p /\ p < w * (i + 1)
OBVIOUS

\* Covering pages is having a dirty flag: the abstract set of dirty indices of a
\* level is the set of its dirty nodes.
LEMMA CoversIsDirty ==
  ASSUME Sound, NEW l \in Levels, NEW i \in Nat, i < LevelBegin(l)
  PROVE  Abstract!Covers(l, i, DirtyLeaves) <=> tree[LevelBegin(l) + i]
<1> DEFINE m == LevelBegin(l) + i
           w == Span(l, 0)
<1>1. /\ 0 \in Levels /\ LevelCount \in Nat /\ l \in 0 .. LevelCount - 1 /\ LeafBegin \in Nat
      /\ LevelBegin(l) \in Nat /\ LevelBegin(l) >= 1 /\ LevelBegin(l) <= LeafBegin
  BY Constants, LevelBounds DEF Levels
<1>2. w \in Nat /\ w >= 1 /\ LeafBegin = w * LevelBegin(l) /\ w = 2^l
  <2>1. l - 0 = l
    BY <1>1
  <2>2. Span(l, 0) = 2^l
    BY <2>1 DEF Span
  <2> QED
    BY <1>1, <2>2, Spans, SpanOfLevel DEF LeafBegin
<1>3. m \in Positions /\ InLevel(m, l)
  BY <1>1 DEF Positions, Invalid, InLevel
<1>4. ASSUME NEW p \in Nat PROVE p \div w = i <=> Under(LeafBegin + p, m, w)
  <2> HIDE DEF w
  <2>1. p \div w = i <=> w * i <= p /\ p < w * (i + 1)
    BY <1>2, Quotients
  <2>2. /\ w * (LevelBegin(l) + i) = w * LevelBegin(l) + w * i
        /\ w * (LevelBegin(l) + i + 1) = w * LevelBegin(l) + w * (i + 1)
    BY <1>1, <1>2
  <2>3. w * i \in Nat /\ w * (i + 1) \in Nat
    BY <1>2
  <2> QED
    BY <1>1, <1>2, <2>1, <2>2, <2>3 DEF Under
<1>5. ASSUME NEW q \in Leaves, tree[q], Under(q, m, w) PROVE tree[m]
  <2>1. q \in DirtyIn(0)
    BY <1>1, <1>5, Constants DEF DirtyIn, Leaves, InLevel, LeafBegin, Invalid
  <2> QED
    BY <1>1, <1>3, <1>5, <2>1, DirtyAbove
<1>6. tree[m] => \E q \in Leaves : tree[q] /\ Under(q, m, w)
  BY <1>3, DirtyBelow DEF DirtyIn
<1>7. \A q \in Leaves : q - LeafBegin \in Nat /\ q = LeafBegin + (q - LeafBegin)
  BY <1>1 DEF Leaves, Invalid
<1> HIDE DEF m, w
<1>8. tree[m] => \E p \in DirtyLeaves : p \div w = i
  <2> SUFFICES ASSUME tree[m] PROVE \E p \in DirtyLeaves : p \div w = i
    OBVIOUS
  <2>1. PICK q \in Leaves : tree[q] /\ Under(q, m, w)
    BY <1>6
  <2>2. q - LeafBegin \in DirtyLeaves /\ (q - LeafBegin) \div w = i
    BY <1>4, <1>7, <2>1 DEF DirtyLeaves
  <2> QED
    BY <2>2
<1>9. ASSUME NEW p \in DirtyLeaves, p \div w = i PROVE tree[m]
  <2>1. PICK q \in Leaves : tree[q] /\ p = q - LeafBegin
    BY DEF DirtyLeaves
  <2>2. Under(q, m, w)
    BY <1>4, <1>7, <1>9, <2>1
  <2> QED
    BY <1>5, <2>1, <2>2
<1> QED
  BY <1>2, <1>8, <1>9 DEF Abstract!Covers, m


LEMMA SoundHere ==
  ASSUME ClimbInv, pc \in {"idle", "first", "up", "down", "sweep", "next"}
  PROVE  Sound
BY DEF ClimbInv, Sound, Fresh

LEMMA PosTypes ==
  ASSUME TypeInv, pc \notin Fresh
  PROVE  /\ tree \in [0 .. Invalid - 1 -> BOOLEAN] /\ pos \in Positions /\ pos \in Nat
         /\ itp \in Nat /\ Leaves \subseteq Nat /\ Positions \subseteq Nat /\ LevelCount \in Nat
         /\ After \in Int
         /\ lvl \in Levels /\ lvl \in Nat /\ LevelBegin(lvl) \in Nat /\ 1 <= LevelBegin(lvl)
<1>1. LeafBegin \in Nat \ {0} /\ Invalid = 2 * LeafBegin /\ Invalid \in Nat
  BY Constants DEF Invalid
<1>2. itp \in Nat /\ pos \in Positions /\ pos \in Nat /\ Leaves \subseteq Nat /\ Positions \subseteq Nat
      /\ tree \in [0 .. Invalid - 1 -> BOOLEAN]
  BY <1>1 DEF TypeInv, TypeOK, Positions, Leaves
<1>3. lvl \in Levels /\ LevelBegin(lvl) \in Nat /\ 1 <= LevelBegin(lvl) /\ lvl \in Nat
  BY LevelBounds DEF Levels, TypeInv, LoopInv
<1> QED
  BY <1>1, <1>2, <1>3, Constants DEF After

\* A node is in one level only, and the root is in the last.
LEMMA OneLevel ==
  ASSUME NEW l \in Levels, NEW k \in l .. LevelCount - 1, NEW p \in Nat, InLevel(p, k)
  PROVE  /\ InLevel(p, l) => k = l
         /\ p = 1 <=> k = LevelCount - 1
         /\ p = 1 => Span(k, l) * (p + 1) = 2 * LevelBegin(l)
<1>1. /\ LevelCount \in Nat /\ l \in Nat /\ k \in Nat /\ k \in Levels /\ k <= LevelCount - 1 /\ l <= k
      /\ LevelBegin(k) \in Nat /\ LevelBegin(k) >= 1 /\ LevelBegin(l) = Span(k, l) * LevelBegin(k)
      /\ Span(k, l) \in Nat
  BY Constants, Spans, LevelBounds, SpanOfLevel DEF Levels
<1>2. LevelBegin(k) <= p /\ p < 2 * LevelBegin(k)
  BY DEF InLevel
<1>3. ASSUME k > l, InLevel(p, l) PROVE FALSE
  <2>1. Span(k, l) = 2 * Span(k - 1, l) /\ Span(k - 1, l) \in Nat /\ Span(k - 1, l) >= 1
    BY <1>1, <1>3, Spans
  <2>2. LevelBegin(l) >= 2 * LevelBegin(k)
    <3> DEFINE s == Span(k - 1, l)
               b == LevelBegin(k)
    <3>1. LevelBegin(l) = (2 * s) * b /\ s \in Nat /\ s >= 1 /\ b \in Nat
      BY <1>1, <2>1
    <3> HIDE DEF s, b
    <3>2. s * b >= b /\ (2 * s) * b = 2 * (s * b)
      BY <3>1
    <3> QED
      BY <3>1, <3>2 DEF b
  <2> QED
    BY <1>1, <1>2, <1>3, <2>2 DEF InLevel
<1>4. k = LevelCount - 1 => p = 1
  BY <1>1, <1>2, LevelPowers
<1>5. p = 1 => k = LevelCount - 1
  <2> SUFFICES ASSUME p = 1, k < LevelCount - 1 PROVE FALSE
    BY <1>1
  <2>1. k \in 0 .. LevelCount - 2 /\ k + 1 \in Levels
    BY <1>1 DEF Levels
  <2>2. LevelBegin(k) = 2 * LevelBegin(k + 1) /\ LevelBegin(k + 1) \in Nat
    BY <2>1, LevelPowers
  <2> QED
    BY <1>2, <2>2
<1>6. p = 1 => Span(k, l) * (p + 1) = 2 * LevelBegin(l)
  <2>1. p = 1 => LevelBegin(k) = 1
    BY <1>5, LevelPowers
  <2>2. p = 1 => LevelBegin(l) = Span(k, l)
    BY <1>1, <2>1
  <2> QED
    BY <1>1, <2>2
<1> QED
  BY <1>1, <1>3, <1>4, <1>5, <1>6

\* The bound moves past the nodes below a clean node.
LEMMA AheadOfClean ==
  ASSUME TypeInv, pc \notin Fresh, Sound, NEW k \in lvl .. LevelCount - 1, NEW m \in Positions,
         InLevel(m, k), ~tree[m], Ahead(Span(k, lvl) * m)
  PROVE  Ahead(Span(k, lvl) * (m + 1))
<1>1. lvl \in Levels /\ Positions \subseteq Nat /\ m \in Nat /\ After \in Int
  BY PosTypes
<1>2. PICK w \in Nat : w = Span(k, lvl)
  BY <1>1, Spans
<1>3. w * m \in Nat /\ w * (m + 1) \in Nat /\ w * m <= w * (m + 1)
  BY <1>1
<1>4. ASSUME NEW n \in DirtyIn(lvl), n > After PROVE n >= w * (m + 1)
  <2>1. n >= w * m /\ n \in Nat
    BY <1>1, <1>2, <1>4 DEF Ahead, DirtyIn
  <2>2. ~Under(n, m, w)
    BY <1>1, <1>2, DirtyAbove
  <2> QED
    BY <1>3, <2>1, <2>2 DEF Under
<1>5. After < w * (m + 1)
  BY <1>1, <1>2, <1>3 DEF Ahead
<1> QED
  BY <1>2, <1>4, <1>5 DEF Ahead

WInv == TypeInv /\ ClimbInv /\ WalkInv /\ SweepInv

LEMMA UpAhead ==
  ASSUME WInv, pc = "up"
  PROVE  /\ pos = 1 => Ahead(2 * LevelBegin(lvl))
         /\ pos # 1 /\ pos % 2 = 0 =>
              /\ RightSibling(pos) \in Positions
              /\ \E k \in lvl .. LevelCount - 1 :
                   InLevel(RightSibling(pos), k) /\ Ahead(Span(k, lvl) * RightSibling(pos))
         /\ pos # 1 /\ ~(pos % 2 = 0 /\ tree[RightSibling(pos)]) =>
              \E k \in lvl .. LevelCount - 1 :
                InLevel(Parent(pos), k) /\ Ahead(Span(k, lvl) * (Parent(pos) + 1))
<1>1. /\ pos \in Positions /\ pos \in Nat /\ lvl \in Levels /\ lvl \in Nat /\ LevelCount \in Nat
      /\ pc \notin Fresh /\ Sound /\ Positions \subseteq Nat
  BY PosTypes, SoundHere DEF WInv, Fresh
<1>2. PICK k \in lvl .. LevelCount - 1 : InLevel(pos, k) /\ Ahead(Span(k, lvl) * (pos + 1))
  BY DEF WInv, WalkInv
<1>3. /\ k \in Levels /\ LevelBegin(k) \in Nat /\ LevelBegin(k) >= 1 /\ LevelBegin(k) <= LeafBegin
      /\ LeafBegin \in Nat /\ k \in Nat /\ k <= LevelCount - 1 /\ lvl <= k
  BY <1>1, Spans, LevelBounds, Constants
<1>4. LevelBegin(k) <= pos /\ pos < 2 * LevelBegin(k)
  BY <1>2 DEF InLevel
<1>5. pos = 1 => Ahead(2 * LevelBegin(lvl))
  BY <1>1, <1>2, OneLevel
<1>6. ASSUME pos # 1, pos % 2 = 0
      PROVE  /\ RightSibling(pos) = pos + 1 /\ pos + 1 \in Positions /\ InLevel(pos + 1, k)
  <2>1. RightSibling(pos) = pos + 1
    BY <1>6 DEF RightSibling
  <2>2. pos + 1 < 2 * LevelBegin(k)
    BY <1>1, <1>3, <1>4, <1>6
  <2> QED
    BY <1>1, <1>3, <1>4, <2>1, <2>2 DEF Positions, Invalid, InLevel
<1>7. ASSUME pos # 1, ~(pos % 2 = 0 /\ tree[RightSibling(pos)])
      PROVE  \E j \in lvl .. LevelCount - 1 : InLevel(Parent(pos), j) /\ Ahead(Span(j, lvl) * (Parent(pos) + 1))
  <2>1. k < LevelCount - 1
    BY <1>1, <1>2, <1>3, <1>7, OneLevel
  <2>2. PICK j \in lvl .. LevelCount - 1 : j = k + 1 /\ Span(j, lvl) = 2 * Span(k, lvl)
    BY <1>1, <2>1, Spans
  <2>3. j \in Levels /\ LevelBegin(k) = 2 * LevelBegin(j) /\ LevelBegin(j) \in Nat
    BY <1>1, <1>3, <2>1, <2>2, Spans, LevelPowers
  <2>4. PICK q \in Nat : q = Parent(pos) /\ (pos = 2 * q \/ pos = 2 * q + 1)
    BY <1>1, <1>7, ParentChild, Constants
  <2>5. InLevel(q, j)
    BY <1>4, <2>3, <2>4 DEF InLevel
  <2>6. Span(k, lvl) \in Nat
    BY <1>1, Spans
  <2>7. CASE pos = 2 * q + 1
    <3>1. Span(j, lvl) * (q + 1) = Span(k, lvl) * (pos + 1)
      BY <2>2, <2>4, <2>6, <2>7
    <3> QED
      BY <1>2, <2>4, <2>5, <3>1
  <2>8. CASE pos = 2 * q
    <3>1. pos % 2 = 0
      BY <2>4, <2>8
    <3>2. ~tree[pos + 1] /\ pos + 1 \in Positions /\ InLevel(pos + 1, k)
      BY <1>6, <1>7, <3>1
    <3>3. Ahead(Span(k, lvl) * ((pos + 1) + 1))
      BY <1>1, <1>2, <3>2, AheadOfClean DEF WInv
    <3>4. Span(j, lvl) * (q + 1) = Span(k, lvl) * ((pos + 1) + 1)
      BY <2>2, <2>4, <2>6, <2>8
    <3> QED
      BY <2>4, <2>5, <3>3, <3>4
  <2> QED
    BY <2>4, <2>7, <2>8
<1> QED
  BY <1>2, <1>5, <1>6, <1>7

LEMMA DownAhead ==
  ASSUME WInv, pc = "down"
  PROVE  /\ tree[pos]
         /\ InLevel(pos, lvl) => Ahead(pos)
         /\ ~InLevel(pos, lvl) =>
              /\ tree[DirtyChild(pos)]
              /\ \E k \in lvl .. LevelCount - 1 :
                   InLevel(DirtyChild(pos), k) /\ Ahead(Span(k, lvl) * DirtyChild(pos))
<1>1. /\ pos \in Positions /\ pos \in Nat /\ lvl \in Levels /\ lvl \in Nat /\ LevelCount \in Nat
      /\ pc \notin Fresh /\ Sound /\ Positions \subseteq Nat
  BY PosTypes, SoundHere DEF WInv, Fresh
<1>2. PICK k \in lvl .. LevelCount - 1 : InLevel(pos, k) /\ Ahead(Span(k, lvl) * pos)
  BY DEF WInv, WalkInv
<1>3. tree[pos]
  BY DEF WInv, WalkInv
<1>4. InLevel(pos, lvl) => Ahead(pos)
  <2> SUFFICES ASSUME InLevel(pos, lvl) PROVE Ahead(pos)
    OBVIOUS
  <2>1. Span(k, lvl) = 1
    BY <1>1, <1>2, OneLevel, Spans
  <2>2. Span(k, lvl) * pos = pos
    BY <1>1, <2>1
  <2> QED
    BY <1>2, <2>2
<1>5. ASSUME ~InLevel(pos, lvl)
      PROVE  /\ tree[DirtyChild(pos)]
             /\ \E j \in lvl .. LevelCount - 1 :
                  InLevel(DirtyChild(pos), j) /\ Ahead(Span(j, lvl) * DirtyChild(pos))
  <2>1. k > lvl /\ k \in Levels /\ k > 0
    BY <1>1, <1>2, <1>5, Spans
  <2>2. PICK j \in lvl .. LevelCount - 1 : j = k - 1 /\ Span(k, lvl) = 2 * Span(j, lvl) /\ Span(j, lvl) \in Nat
    BY <1>1, <2>1, Spans
  <2>3. /\ pos \in Inner /\ 2 * pos \in Positions /\ InLevel(2 * pos, j)
        /\ 2 * pos + 1 \in Positions /\ InLevel(2 * pos + 1, j)
    BY <1>1, <1>2, <2>1, <2>2, Children
  <2>4. tree[2 * pos] \/ tree[2 * pos + 1]
    BY <1>1, <1>3, <2>3 DEF Sound, Consistent, ConsistentIn
  <2>5. Span(k, lvl) * pos = Span(j, lvl) * (2 * pos)
    BY <1>1, <2>2
  <2>6. CASE tree[2 * pos]
    BY <1>2, <2>3, <2>5, <2>6 DEF DirtyChild
  <2>7. CASE ~tree[2 * pos]
    <3>1. Ahead(Span(j, lvl) * (2 * pos + 1))
      BY <1>1, <1>2, <2>3, <2>5, <2>7, AheadOfClean DEF WInv
    <3> QED
      BY <2>3, <2>4, <2>7, <3>1 DEF DirtyChild
  <2> QED
    BY <2>6, <2>7
<1> QED
  BY <1>3, <1>4, <1>5


\* The walk goes on with the same tree, level and iterator.
LEMMA SameAhead ==
  ASSUME UNCHANGED <<tree, lvl, itp>>, NEW b, Ahead(b)
  PROVE  After' < b /\ \A n \in DirtyIn(lvl)' : n > After' => n >= b
BY DEF Ahead, After, DirtyIn

LEMMA UpKeeps ==
  ASSUME WInv, Up
  PROVE  WalkInv' /\ SweepInv'
<1>1. /\ pc = "up" /\ pos \in Positions /\ pos \in Nat /\ lvl \in Levels /\ pc \notin Fresh
      /\ Leaves \subseteq Nat /\ After \in Int
  BY PosTypes DEF WInv, Up, Fresh
<1>2. CASE pos = 1
  <2>1. /\ itp' = Invalid /\ pos' = pos /\ pc' = (IF use = "sweep" THEN "sweep" ELSE "idle")
        /\ UNCHANGED <<tree, lvl, use>>
    BY <1>2 DEF Up, Arrive
  <2>2. WalkInv'
    BY <2>1 DEF WalkInv
  <2>3. ASSUME use = "sweep", NEW q \in Leaves PROVE ~tree[q]
    <3>1. lvl = 0 /\ (q <= After => ~tree[q])
      BY <1>1, <2>3 DEF WInv, TypeInv, LoopInv, SweepInv
    <3>2. Ahead(Invalid)
      BY <1>1, <1>2, <3>1, UpAhead DEF Invalid, LeafBegin
    <3>3. tree[q] => q \in DirtyIn(0)
      BY Constants DEF DirtyIn, InLevel, Leaves, LeafBegin, Invalid
    <3>4. q < Invalid /\ q \in Nat /\ Invalid \in Nat
      BY Constants DEF Leaves, Invalid
    <3> QED
      BY <1>1, <3>1, <3>2, <3>3, <3>4 DEF Ahead
  <2> QED
    BY <2>1, <2>2, <2>3 DEF SweepInv
<1>3. CASE pos # 1 /\ pos % 2 = 0 /\ tree[RightSibling(pos)]
  <2>1. pos' = RightSibling(pos) /\ pc' = "down" /\ UNCHANGED <<tree, lvl, itp, use>>
    BY <1>3 DEF Up
  <2>2. PICK k \in lvl .. LevelCount - 1 :
          InLevel(RightSibling(pos), k) /\ Ahead(Span(k, lvl) * RightSibling(pos))
    BY <1>1, <1>3, UpAhead
  <2>3. WalkInv'
    BY <1>3, <2>1, <2>2, SameAhead DEF WalkInv, Ahead
  <2> QED
    BY <1>1, <2>1, <2>3 DEF WInv, SweepInv, After
<1>4. CASE pos # 1 /\ ~(pos % 2 = 0 /\ tree[RightSibling(pos)])
  <2>1. pos' = Parent(pos) /\ pc' = "up" /\ UNCHANGED <<tree, lvl, itp, use>>
    BY <1>1, <1>4 DEF Up
  <2>2. PICK k \in lvl .. LevelCount - 1 : InLevel(Parent(pos), k) /\ Ahead(Span(k, lvl) * (Parent(pos) + 1))
    BY <1>1, <1>4, UpAhead
  <2>3. WalkInv'
    BY <2>1, <2>2, SameAhead DEF WalkInv, Ahead
  <2> QED
    BY <1>1, <2>1, <2>3 DEF WInv, SweepInv, After
<1> QED
  BY <1>2, <1>3, <1>4

LEMMA DownKeeps ==
  ASSUME WInv, Down
  PROVE  WalkInv' /\ SweepInv'
<1>1. /\ pc = "down" /\ pos \in Positions /\ pos \in Nat /\ lvl \in Levels /\ pc \notin Fresh
      /\ Leaves \subseteq Nat /\ After \in Int
  BY PosTypes DEF WInv, Down, Fresh
<1>2. CASE InLevel(pos, lvl)
  <2>1. /\ itp' = pos /\ pos' = pos /\ pc' = (IF use = "sweep" THEN "sweep" ELSE "idle")
        /\ UNCHANGED <<tree, lvl, use>>
    BY <1>2 DEF Down, Arrive
  <2>2. WalkInv'
    BY <2>1 DEF WalkInv
  <2>3. ASSUME use = "sweep", NEW q \in Leaves, q < pos PROVE ~tree[q]
    <3>1. lvl = 0 /\ (q <= After => ~tree[q])
      BY <1>1, <2>3 DEF WInv, TypeInv, LoopInv, SweepInv
    <3>2. Ahead(pos)
      BY <1>1, <1>2, DownAhead
    <3>3. tree[q] => q \in DirtyIn(0)
      BY Constants DEF DirtyIn, InLevel, Leaves, LeafBegin, Invalid
    <3> QED
      BY <1>1, <2>3, <3>1, <3>2, <3>3 DEF Ahead
  <2> QED
    BY <2>1, <2>2, <2>3 DEF SweepInv
<1>3. CASE ~InLevel(pos, lvl)
  <2>0. tree[DirtyChild(pos)]
    BY <1>1, <1>3, DownAhead
  <2>1. pos' = DirtyChild(pos) /\ pc' = "down" /\ UNCHANGED <<tree, lvl, itp, use>>
    BY <1>1, <1>3, <2>0 DEF Down, DirtyChild
  <2>2. PICK k \in lvl .. LevelCount - 1 : InLevel(DirtyChild(pos), k) /\ Ahead(Span(k, lvl) * DirtyChild(pos))
    BY <1>1, <1>3, DownAhead
  <2>3. WalkInv'
    BY <2>0, <2>1, <2>2, SameAhead DEF WalkInv, Ahead
  <2> QED
    BY <1>1, <2>1, <2>3 DEF WInv, SweepInv, After
<1> QED
  BY <1>2, <1>3

\* A walk that goes on from a node of its level has the nodes after it ahead.
LEMMA FromNode ==
  ASSUME WInv, pc \notin Fresh, pc' = "up", InLevel(pos', lvl), pos' \in Nat,
         UNCHANGED <<tree, lvl, itp, use>>, Ahead(pos' + 1)
  PROVE  WalkInv'
<1>1. lvl \in Levels /\ lvl \in Nat /\ LevelCount \in Nat /\ lvl \in lvl .. LevelCount - 1
  BY PosTypes DEF WInv, Levels
<1>2. Span(lvl, lvl) = 1 /\ Span(lvl, lvl) * (pos' + 1) = pos' + 1
  BY <1>1, Spans
<1>3. lvl' \in lvl' .. LevelCount - 1 /\ InLevel(pos, lvl)' /\ Ahead(Span(lvl, lvl) * (pos + 1))'
  BY <1>1, <1>2, SameAhead DEF Ahead, InLevel, Span
<1> QED
  BY <1>3 DEF WalkInv

LEMMA FirstKeeps ==
  ASSUME WInv, First
  PROVE  WalkInv' /\ SweepInv'
<1>1. /\ pc = "first" /\ pos \in Positions /\ pos \in Nat /\ lvl \in Levels /\ pc \notin Fresh
      /\ Leaves \subseteq Nat /\ After \in Int /\ pos = LevelBegin(lvl) /\ itp = Invalid
      /\ UNCHANGED <<tree, lvl, use>> /\ Positions \subseteq Nat /\ pos >= 1
  BY PosTypes DEF WInv, TypeInv, LoopInv, First, Fresh, WalkInv
<1>2. CASE tree[pos]
  <2>1. itp' = pos /\ pos' = pos /\ pc' = (IF use = "sweep" THEN "sweep" ELSE "idle")
    BY <1>2 DEF First, Arrive
  <2>2. WalkInv'
    BY <2>1 DEF WalkInv
  <2>3. ASSUME use = "sweep", NEW q \in Leaves, q < pos PROVE ~tree[q]
    <3>1. lvl = 0
      BY <2>3 DEF WInv, TypeInv, LoopInv
    <3> QED
      BY <1>1, <2>3, <3>1 DEF Leaves, LeafBegin
  <2> QED
    BY <1>1, <2>1, <2>2, <2>3 DEF SweepInv
<1>3. CASE ~tree[pos]
  <2>1. UNCHANGED <<pos, itp>> /\ pc' = "up"
    BY <1>3 DEF First
  <2>2. After = pos - 1
    BY <1>1 DEF After
  <2>3. Ahead(pos + 1)
    <3>1. ASSUME NEW n \in DirtyIn(lvl) PROVE n >= pos + 1
      BY <1>1, <1>3 DEF DirtyIn, InLevel
    <3> QED
      BY <1>1, <2>2, <3>1 DEF Ahead
  <2>4. InLevel(pos, lvl)
    BY <1>1 DEF InLevel
  <2>5. WalkInv'
    BY <1>1, <2>1, <2>3, <2>4, FromNode
  <2> QED
    BY <1>1, <2>1, <2>5 DEF WInv, SweepInv, After
<1> QED
  BY <1>2, <1>3

LEMMA CleanKeeps ==
  ASSUME WInv, CleanStep
  PROVE  WalkInv' /\ SweepInv'
<1>1. /\ pc = "cleaning" /\ pc' \in {"cleaning", "next", "idle"} /\ tree' = [tree EXCEPT ![pos] = FALSE]
      /\ UNCHANGED <<lvl, itp, use>> /\ pos \in Positions
      /\ tree \in [0 .. Invalid - 1 -> BOOLEAN] /\ Leaves \subseteq Nat /\ pc \notin Fresh
      /\ pc' = "cleaning" => pos # 1 /\ pos' = Parent(pos)
  BY PosTypes DEF WInv, CleanStep, Fresh
<1>2. WalkInv'
  BY <1>1 DEF WalkInv
<1>3. \A q \in Positions : ~tree[q] => ~tree'[q]
  BY <1>1 DEF Positions
<1>4. ~tree'[pos]
  BY <1>1 DEF Positions
<1>5. ASSUME use = "sweep" PROVE SweepInv'
  <2>1. /\ itp # Invalid /\ itp \in Positions /\ \A q \in Leaves : q < itp => ~tree'[q]
    BY <1>1, <1>3, <1>5, Constants DEF WInv, TypeInv, TypeOK, LoopInv, SweepInv
  <2>2. ~tree'[itp]
    BY <1>1, <1>3, <1>4, <1>5, <2>1 DEF WInv, SweepInv
  <2>3. After' = itp
    BY <1>1, <2>1 DEF After
  <2>4. pc' = "cleaning" => pos' \notin Leaves
    BY <1>1, ParentChild, Constants DEF Inner, Leaves
  <2>5. itp \in Nat
    BY <2>1, Constants DEF Positions
  <2> QED
    BY <1>1, <2>1, <2>2, <2>3, <2>4, <2>5 DEF SweepInv
<1> QED
  BY <1>1, <1>2, <1>5 DEF SweepInv

LEMMA WalkStep ==
  ASSUME WInv, [Next]_vars
  PROVE  WalkInv' /\ SweepInv'
<1>1. CASE Up \/ Down \/ First \/ CleanStep
  BY <1>1, UpKeeps, DownKeeps, FirstKeeps, CleanKeeps
<1>2. CASE StepWalk \/ SweepNext
  <2>1. /\ pc' = "up" /\ pos' = itp /\ pc \notin Fresh /\ UNCHANGED <<tree, lvl, itp, use>>
        /\ itp # Invalid /\ InLevel(itp, lvl) /\ (use = "sweep" => pc = "next")
    BY <1>2 DEF StepWalk, SweepNext, WInv, TypeInv, LoopInv, Fresh
  <2>2. itp \in Nat /\ Positions \subseteq Nat /\ After = itp
    BY <2>1, PosTypes DEF WInv, After
  <2>3. Ahead(pos' + 1)
    BY <2>1, <2>2 DEF Ahead, DirtyIn
  <2>4. WalkInv'
    BY <2>1, <2>2, <2>3, FromNode
  <2> QED
    BY <2>1, <2>4 DEF WInv, SweepInv, After
<1>3. CASE SweepBody
  <2>1. /\ pc = "sweep" /\ pc' = "cleaning" /\ pos' = itp /\ UNCHANGED <<tree, lvl, itp, use>>
        /\ itp # Invalid /\ InLevel(itp, 0) /\ use = "sweep"
    BY <1>3 DEF SweepBody, WInv, TypeInv, LoopInv, Fresh
  <2>2. itp \in Leaves
    BY <2>1, Constants DEF WInv, TypeInv, TypeOK, InLevel, Leaves, LeafBegin, Positions, Invalid
  <2> QED
    BY <2>1, <2>2 DEF WInv, WalkInv, SweepInv
<1>4. CASE BeginSweep
  <2>1. /\ pc' = "first" /\ itp' = Invalid /\ lvl' = 0 /\ tree' = tree
    BY <1>4 DEF BeginSweep
  <2>2. After' = LeafBegin - 1
    BY <2>1 DEF After, LeafBegin
  <2>3. \A q \in Leaves : ~(q <= LeafBegin - 1)
    BY Constants DEF Leaves, Invalid
  <2> QED
    BY <2>1, <2>2, <2>3 DEF WalkInv, SweepInv
<1>5. ASSUME NEW level \in Levels, BeginWalk(level) PROVE WalkInv' /\ SweepInv'
  BY <1>5 DEF BeginWalk, WalkInv, SweepInv
<1>6. ASSUME NEW leaf \in Leaves, MarkDirty(leaf) \/ MarkClean(leaf) PROVE WalkInv' /\ SweepInv'
  BY <1>6 DEF MarkDirty, MarkClean, WalkInv, SweepInv
<1>7. CASE Open \/ Fill \/ BuildLevel \/ SetInitialized \/ DirtyStep \/ EndWalk \/ EndSweep \/ Crash
  BY <1>7 DEF Open, Fill, BuildLevel, SetInitialized, DirtyStep, EndWalk, EndSweep, Crash, WalkInv, SweepInv
<1>8. CASE UNCHANGED vars
  BY <1>8 DEF vars, WInv, WalkInv, SweepInv, After, Ahead, DirtyIn
<1> QED
  BY <1>1, <1>2, <1>3, <1>4, <1>5, <1>6, <1>7, <1>8 DEF Next, Step


-----------------------------------------------------------------------------
(* The tree implements the set of dirty pages. *)

ACursor == IF use = "walk" /\ itp # Invalid THEN <<lvl, itp - LevelBegin(lvl)>> ELSE <<>>
Simulated == Abstract!ANext \/ UNCHANGED <<DirtyLeaves, ACursor, use = "sweep">>

\* The dirty indices of the level, and the node at each.
LEMMA DirtyIndices ==
  ASSUME WInv, pc \in {"first", "up", "down"}
  PROVE  Abstract!DirtyAt(lvl, DirtyLeaves) =
           {i \in 0 .. LevelBegin(lvl) - 1 : LevelBegin(lvl) + i \in DirtyIn(lvl)}
<1>1. lvl \in Levels /\ LevelBegin(lvl) \in Nat /\ LevelBegin(lvl) >= 1 /\ Sound
      /\ LevelBegin(lvl) <= LeafBegin /\ LeafBegin \in Nat
  BY PosTypes, SoundHere, LevelBounds, Constants DEF WInv, Fresh
<1>2. Abstract!Indices(lvl) = 0 .. LevelBegin(lvl) - 1
  BY DEF Abstract!Indices, LevelBegin
<1>3. ASSUME NEW i \in 0 .. LevelBegin(lvl) - 1
      PROVE  Abstract!Covers(lvl, i, DirtyLeaves) <=> LevelBegin(lvl) + i \in DirtyIn(lvl)
  <2>1. i \in Nat /\ i < LevelBegin(lvl)
    BY <1>1
  <2>2. Abstract!Covers(lvl, i, DirtyLeaves) <=> tree[LevelBegin(lvl) + i]
    BY <1>1, <2>1, CoversIsDirty
  <2>3. LevelBegin(lvl) + i \in Positions /\ InLevel(LevelBegin(lvl) + i, lvl)
    BY <1>1, <2>1 DEF Positions, Invalid, InLevel
  <2> QED
    BY <2>2, <2>3 DEF DirtyIn
<1> QED
  BY <1>2, <1>3 DEF Abstract!DirtyAt

\* The iterator that stops on p has found the first dirty index after the last.
LEMMA NextStands ==
  ASSUME WInv, pc \in {"first", "up", "down"}, NEW p \in DirtyIn(lvl), Ahead(p)
  PROVE  Abstract!NextCursor(lvl, After - LevelBegin(lvl)) = <<lvl, p - LevelBegin(lvl)>>
<1> DEFINE b == LevelBegin(lvl)
           later == {i \in Abstract!DirtyAt(lvl, DirtyLeaves) : i > After - b}
<1>1. b \in Nat /\ After \in Int /\ p \in Nat /\ b <= p /\ p < 2 * b
  BY PosTypes DEF WInv, Fresh, DirtyIn, InLevel
<1>2. later = {i \in 0 .. b - 1 : b + i \in DirtyIn(lvl) /\ i > After - b}
  BY DirtyIndices
<1> HIDE DEF later
<1>3. p - b \in later
  <2>1. b + (p - b) = p /\ p - b \in 0 .. b - 1 /\ p - b > After - b
    BY <1>1 DEF Ahead
  <2> QED
    BY <1>2, <2>1
<1>4. ASSUME NEW j \in later PROVE p - b <= j /\ j \in Int
  <2>1. j \in Nat /\ b + j \in DirtyIn(lvl) /\ j > After - b
    BY <1>1, <1>2
  <2>2. b + j > After
    BY <1>1, <2>1
  <2>3. b + j >= p
    BY <2>1, <2>2 DEF Ahead
  <2> QED
    BY <1>1, <2>1, <2>3
<1>5. (CHOOSE i \in later : \A j \in later : i <= j) = p - b
  <2>1. \E i \in later : \A j \in later : i <= j
    BY <1>3, <1>4
  <2> DEFINE c == CHOOSE i \in later : \A j \in later : i <= j
  <2>2. c \in later /\ \A j \in later : c <= j
    BY <2>1
  <2> HIDE DEF c
  <2>3. c <= p - b /\ p - b <= c /\ c \in Int /\ p - b \in Int
    BY <1>1, <1>3, <1>4, <2>2
  <2>4. c = p - b
    BY <2>3
  <2> QED
    BY <2>4 DEF c
<1> QED
  BY <1>3, <1>5 DEF Abstract!NextCursor, later

\* The iterator that ends has no dirty index left.
LEMMA NextEnds ==
  ASSUME WInv, pc \in {"first", "up", "down"}, Ahead(2 * LevelBegin(lvl))
  PROVE  Abstract!NextCursor(lvl, After - LevelBegin(lvl)) = <<>>
<1> DEFINE b == LevelBegin(lvl)
           later == {i \in Abstract!DirtyAt(lvl, DirtyLeaves) : i > After - b}
<1>1. b \in Nat /\ After \in Int
  BY PosTypes DEF WInv, Fresh
<1>2. later = {i \in 0 .. b - 1 : b + i \in DirtyIn(lvl) /\ i > After - b}
  BY DirtyIndices
<1>3. later = {}
  <2> SUFFICES ASSUME NEW j \in later PROVE FALSE
    OBVIOUS
  <2>1. j \in Nat /\ j < b /\ b + j \in DirtyIn(lvl) /\ b + j > After
    BY <1>1, <1>2
  <2>2. b + j >= 2 * b
    BY <2>1 DEF Ahead
  <2> QED
    BY <1>1, <2>1, <2>2
<1> QED
  BY <1>3 DEF Abstract!NextCursor

\* Arriving at a node, or at the end, is a step of the abstract cursor.
LEMMA ArriveSimulates ==
  ASSUME WInv, pc \in {"first", "up", "down"}, UNCHANGED <<tree, lvl, use>>,
         \/ itp' \in DirtyIn(lvl) /\ Ahead(itp')
         \/ itp' = Invalid /\ Ahead(2 * LevelBegin(lvl))
  PROVE  Simulated
<1>1. DirtyLeaves' = DirtyLeaves /\ (use = "sweep")' = (use = "sweep") /\ lvl \in Levels /\ After \in Int
      /\ LevelBegin(lvl) \in Nat /\ Positions \subseteq Nat
  BY PosTypes DEF DirtyLeaves, WInv, Fresh
<1>2. CASE use # "walk"
  BY <1>1, <1>2 DEF Simulated, ACursor
<1>3. CASE use = "walk"
  <2>1. ACursor' = Abstract!NextCursor(lvl, After - LevelBegin(lvl))
    <3>1. CASE itp' \in DirtyIn(lvl) /\ Ahead(itp')
      <4>1. itp' # Invalid
        BY <3>1, Constants DEF DirtyIn, Positions
      <4> QED
        BY <1>3, <3>1, <4>1, NextStands DEF ACursor
    <3>2. CASE itp' = Invalid /\ Ahead(2 * LevelBegin(lvl))
      BY <1>3, <3>2, NextEnds DEF ACursor
    <3> QED
      BY <3>1, <3>2
  <2>2. CASE itp = Invalid
    <3>1. After - LevelBegin(lvl) = -1
      BY <1>1, <2>2 DEF After
    <3>2. ACursor = <<>>
      BY <2>2 DEF ACursor
    <3>3. Abstract!ABeginWalk
      BY <1>1, <2>1, <3>1, <3>2 DEF Abstract!ABeginWalk, ACursor, Levels, Abstract!Levels
    <3> QED
      BY <3>3 DEF Simulated, Abstract!ANext
  <2>3. CASE itp # Invalid
    <3>1. After = itp
      BY <2>3 DEF After
    <3>2. ACursor = <<lvl, itp - LevelBegin(lvl)>> /\ ACursor # <<>>
      BY <1>3, <2>3 DEF ACursor
    <3>3. Abstract!AStepWalk
      BY <1>1, <2>1, <3>1, <3>2 DEF Abstract!AStepWalk, ACursor
    <3> QED
      BY <3>3 DEF Simulated, Abstract!ANext
  <2> QED
    BY <2>2, <2>3
<1> QED
  BY <1>2, <1>3


\* The pages are the leaves, counted from 0.
LEMMA PagesAreLeaves ==
  /\ LeafBegin \in Nat /\ Abstract!Pages = 0 .. LeafBegin - 1
  /\ \A q \in Leaves : q - LeafBegin \in Abstract!Pages
  /\ DirtyLeaves \subseteq Abstract!Pages
<1>1. LevelCount - 1 - 0 = LevelCount - 1 /\ LeafBegin \in Nat
  BY Constants
<1>2. Abstract!Pages = 0 .. LeafBegin - 1
  BY <1>1 DEF Abstract!Pages, Abstract!PageCount, LeafBegin, LevelBegin
<1>3. \A q \in Leaves : q - LeafBegin \in Abstract!Pages
  BY <1>1, <1>2 DEF Leaves, Invalid
<1> QED
  BY <1>1, <1>2, <1>3 DEF DirtyLeaves

\* A flag set or cleared changes the set of dirty pages when it is a page's.
LEMMA FlagChange ==
  ASSUME TypeInv, NEW b \in BOOLEAN, tree' = [tree EXCEPT ![pos] = b]
  PROVE  /\ pos \notin Leaves => DirtyLeaves' = DirtyLeaves
         /\ pos \in Leaves /\ b => DirtyLeaves' = DirtyLeaves \cup {pos - LeafBegin}
         /\ pos \in Leaves /\ ~b => DirtyLeaves' = DirtyLeaves \ {pos - LeafBegin}
<1>1. /\ tree \in [0 .. Invalid - 1 -> BOOLEAN] /\ pos \in 0 .. Invalid - 1 /\ Leaves \subseteq 0 .. Invalid - 1
      /\ Leaves \subseteq Nat /\ LeafBegin \in Nat
  BY Constants DEF TypeInv, TypeOK, Positions, Leaves, Invalid
<1>2. \A q \in Leaves : tree'[q] = IF q = pos THEN b ELSE tree[q]
  BY <1>1
<1>3. \A q, r \in Leaves : q - LeafBegin = r - LeafBegin => q = r
  BY <1>1
<1>4. DirtyLeaves = {q - LeafBegin : q \in {x \in Leaves : tree[x]}}
  BY DEF DirtyLeaves
<1>5. DirtyLeaves' = {q - LeafBegin : q \in {x \in Leaves : tree'[x]}}
  BY DEF DirtyLeaves
<1>6. pos \notin Leaves => DirtyLeaves' = DirtyLeaves
  BY <1>2, <1>4, <1>5
<1>7. ASSUME pos \in Leaves, b PROVE DirtyLeaves' = DirtyLeaves \cup {pos - LeafBegin}
  BY <1>2, <1>4, <1>5, <1>7
<1>8. ASSUME pos \in Leaves, ~b PROVE DirtyLeaves' = DirtyLeaves \ {pos - LeafBegin}
  BY <1>2, <1>3, <1>4, <1>5, <1>8
<1> QED
  BY <1>6, <1>7, <1>8

\* Every step of the tree is a step of the set, or leaves it as it is.
LEMMA StepSimulates ==
  ASSUME WInv, [Next]_vars
  PROVE  Simulated
<1>1. CASE UNCHANGED <<tree, itp, use>> /\ (use = "walk" /\ itp # Invalid => lvl' = lvl)
  BY <1>1 DEF Simulated, DirtyLeaves, ACursor
<1>2. CASE Open \/ StepWalk \/ SweepBody \/ SweepNext \/ UNCHANGED vars
  BY <1>1, <1>2 DEF Open, StepWalk, SweepBody, SweepNext, vars
<1>3. ASSUME NEW leaf \in Leaves, MarkDirty(leaf) \/ MarkClean(leaf) PROVE Simulated
  BY <1>1, <1>3 DEF MarkDirty, MarkClean
<1>4. CASE Fill
  <2>1. pc = "fill" /\ use = "none" /\ UNCHANGED <<itp, use>>
    BY <1>4 DEF Fill, WInv, TypeInv, LoopInv, TypeOK, Fresh
  <2>2. \A q \in Leaves : tree'[q]
    <3>1. LeafBegin \in Nat /\ LeafCount \in Nat /\ Leaves \subseteq 0 .. Invalid - 1
      BY Constants, LevelCountAssumption DEF Leaves, Invalid, LevelBegin, LeafBegin
    <3> QED
      BY <1>4, <3>1 DEF Fill, Leaves
  <2>3. DirtyLeaves' = Abstract!Pages
    <3>1. DirtyLeaves' = {q - LeafBegin : q \in Leaves}
      BY <2>2 DEF DirtyLeaves
    <3>2. ASSUME NEW p \in 0 .. LeafBegin - 1 PROVE LeafBegin + p \in Leaves /\ p = (LeafBegin + p) - LeafBegin
      BY Constants DEF Leaves, Invalid
    <3> QED
      BY <3>1, <3>2, PagesAreLeaves
  <2>4. Abstract!AInitialize
    BY <2>1, <2>3 DEF Abstract!AInitialize
  <2> QED
    BY <2>4 DEF Simulated, Abstract!ANext
<1>5. CASE BuildLevel
  <2>1. pc = "build" /\ use = "none" /\ UNCHANGED <<itp, use>> /\ lvl \in 1 .. LevelCount
    BY <1>5 DEF BuildLevel, WInv, TypeInv, LoopInv, TypeOK, Fresh
  <2>2. \A q \in Leaves : tree'[q] = tree[q]
    <3>1. CASE lvl < LevelCount
      <4>1. lvl \in Levels /\ lvl - 1 \in 0 .. LevelCount - 2 /\ (lvl - 1) + 1 = lvl /\ lvl - 1 \in Levels
        BY <2>1, <3>1, Constants DEF Levels
      <4>2. LevelBegin(lvl) \in Nat /\ LevelBegin(lvl - 1) = 2 * LevelBegin(lvl) /\ LevelBegin(lvl - 1) <= LeafBegin
        BY <4>1, LevelPowers, LevelBounds
      <4>3. \A q \in Leaves : ~InLevel(q, lvl) /\ q \in 0 .. Invalid - 1
        BY <4>2, Constants DEF InLevel, Leaves, Invalid
      <4> QED
        BY <1>5, <3>1, <4>3 DEF BuildLevel
    <3>2. CASE ~(lvl < LevelCount)
      BY <1>5, <3>2 DEF BuildLevel
    <3> QED
      BY <3>1, <3>2
  <2> QED
    BY <2>1, <2>2 DEF Simulated, DirtyLeaves, ACursor
<1>6. CASE SetInitialized
  <2>1. pc = "init" /\ use = "none" /\ UNCHANGED <<itp, use>> /\ tree' = [tree EXCEPT ![0] = TRUE]
    BY <1>6 DEF SetInitialized, WInv, TypeInv, LoopInv, TypeOK, Fresh
  <2>2. \A q \in Leaves : tree'[q] = tree[q]
    <3>1. tree \in [0 .. Invalid - 1 -> BOOLEAN] /\ \A q \in Leaves : q # 0 /\ q \in 0 .. Invalid - 1
      BY Constants DEF WInv, TypeInv, TypeOK, Leaves, Invalid
    <3> QED
      BY <2>1, <3>1
  <2> QED
    BY <2>1, <2>2 DEF Simulated, DirtyLeaves, ACursor
<1>7. CASE DirtyStep
  <2>1. UNCHANGED <<itp, use, lvl>>
    BY <1>7 DEF DirtyStep
  <2>2. CASE pos # 1 /\ tree[pos]
    BY <1>1, <1>7, <2>1, <2>2 DEF DirtyStep
  <2>3. CASE ~(pos # 1 /\ tree[pos])
    <3>1. tree' = [tree EXCEPT ![pos] = TRUE]
      BY <1>7, <2>3 DEF DirtyStep, DirtyRoot
    <3>2. \/ DirtyLeaves' = DirtyLeaves
          \/ pos \in Leaves /\ DirtyLeaves' = DirtyLeaves \cup {pos - LeafBegin}
      BY <3>1, FlagChange DEF WInv
    <3>3. CASE DirtyLeaves' = DirtyLeaves
      BY <2>1, <3>3 DEF Simulated, ACursor
    <3>4. CASE pos \in Leaves /\ DirtyLeaves' = DirtyLeaves \cup {pos - LeafBegin}
      <4>1. Abstract!AMarkDirty
        BY <2>1, <3>4, PagesAreLeaves DEF Abstract!AMarkDirty
      <4> QED
        BY <4>1 DEF Simulated, Abstract!ANext
    <3> QED
      BY <3>2, <3>3, <3>4
  <2> QED
    BY <2>2, <2>3
<1>8. CASE CleanStep
  <2>1. UNCHANGED <<itp, use, lvl>> /\ tree' = [tree EXCEPT ![pos] = FALSE]
    BY <1>8 DEF CleanStep
  <2>2. \/ DirtyLeaves' = DirtyLeaves
        \/ pos \in Leaves /\ DirtyLeaves' = DirtyLeaves \ {pos - LeafBegin}
    BY <2>1, FlagChange DEF WInv
  <2>3. CASE DirtyLeaves' = DirtyLeaves
    BY <2>1, <2>3 DEF Simulated, ACursor
  <2>4. CASE DirtyLeaves' = DirtyLeaves \ {pos - LeafBegin} /\ pos - LeafBegin \in DirtyLeaves
    <3>1. Abstract!AMarkClean
      BY <2>1, <2>4 DEF Abstract!AMarkClean
    <3> QED
      BY <3>1 DEF Simulated, Abstract!ANext
  <2> QED
    BY <2>2, <2>3, <2>4
<1>9. ASSUME NEW level \in Levels, BeginWalk(level) PROVE Simulated
  BY <1>9 DEF BeginWalk, Simulated, DirtyLeaves, ACursor
<1>10. CASE First
  <2>1. pc = "first" /\ UNCHANGED <<tree, lvl, use>> /\ pos = LevelBegin(lvl) /\ itp = Invalid
        /\ pos \in Positions /\ pos \in Nat /\ pos >= 1
    BY <1>10, PosTypes DEF First, WInv, TypeInv, LoopInv, WalkInv, Fresh
  <2>2. CASE tree[pos]
    <3>1. itp' = pos /\ pos \in DirtyIn(lvl)
      BY <1>10, <2>1, <2>2 DEF First, Arrive, DirtyIn, InLevel
    <3>2. Ahead(pos)
      BY <2>1, Constants DEF Ahead, After, DirtyIn, InLevel, Positions
    <3> QED
      BY <2>1, <3>1, <3>2, ArriveSimulates
  <2>3. CASE ~tree[pos]
    BY <1>1, <1>10, <2>1, <2>3 DEF First
  <2> QED
    BY <2>2, <2>3
<1>11. CASE Up
  <2>1. pc = "up" /\ UNCHANGED <<tree, lvl, use>>
    BY <1>11 DEF Up
  <2>2. CASE pos = 1
    <3>1. itp' = Invalid
      BY <1>11, <2>2 DEF Up, Arrive
    <3> QED
      BY <2>1, <2>2, <3>1, UpAhead, ArriveSimulates
  <2>3. CASE pos # 1
    BY <1>1, <1>11, <2>1, <2>3 DEF Up
  <2> QED
    BY <2>2, <2>3
<1>12. CASE Down
  <2>1. pc = "down" /\ UNCHANGED <<tree, lvl, use>> /\ pos \in Positions
    BY <1>12 DEF Down, WInv, TypeInv, TypeOK
  <2>2. CASE InLevel(pos, lvl)
    <3>1. itp' = pos
      BY <1>12, <2>2 DEF Down, Arrive
    <3>2. pos \in DirtyIn(lvl) /\ Ahead(pos)
      BY <2>1, <2>2, DownAhead DEF DirtyIn
    <3> QED
      BY <2>1, <3>1, <3>2, ArriveSimulates
  <2>3. CASE ~InLevel(pos, lvl)
    <3>1. tree[DirtyChild(pos)]
      BY <2>1, <2>3, DownAhead
    <3>2. itp' = itp
      BY <1>12, <2>3, <3>1 DEF Down, DirtyChild
    <3> QED
      BY <1>1, <2>1, <3>2
  <2> QED
    BY <2>2, <2>3
<1>13. CASE EndWalk
  BY <1>13 DEF EndWalk, Simulated, DirtyLeaves, ACursor
<1>14. CASE BeginSweep
  <2>1. use = "none" /\ use' = "sweep" /\ tree' = tree
    BY <1>14 DEF BeginSweep
  <2>2. Abstract!ABeginSweep
    BY <2>1 DEF Abstract!ABeginSweep, DirtyLeaves
  <2> QED
    BY <2>2 DEF Simulated, Abstract!ANext
<1>15. CASE EndSweep
  <2>1. pc = "sweep" /\ itp = Invalid /\ use = "sweep" /\ use' = "none" /\ tree' = tree
    BY <1>15 DEF EndSweep, WInv, TypeInv, LoopInv
  <2>2. \A q \in Leaves : ~tree[q]
    BY <2>1, Constants DEF WInv, SweepInv, Leaves, Invalid
  <2>3. DirtyLeaves = {}
    BY <2>2 DEF DirtyLeaves
  <2>4. Abstract!AEndSweep
    BY <2>1, <2>3 DEF Abstract!AEndSweep, DirtyLeaves
  <2> QED
    BY <2>4 DEF Simulated, Abstract!ANext
<1>16. CASE Crash
  <2>1. use' = "none" /\ tree' = tree
    BY <1>16 DEF Crash
  <2>2. Abstract!AClose
    BY <2>1 DEF Abstract!AClose, DirtyLeaves
  <2> QED
    BY <2>2 DEF Simulated, Abstract!ANext
<1> QED
  BY <1>2, <1>3, <1>4, <1>5, <1>6, <1>7, <1>8, <1>9, <1>10, <1>11, <1>12, <1>13, <1>14, <1>15, <1>16
     DEF Next, Step

\* The flags of a tree of any size, its iterators at every level and clean()
\* implement a set of dirty pages, a cursor that visits the dirty indices of a
\* level in order and misses none, and a sweep that returns only when no page is
\* dirty; as long as no owner of a shared file is killed inside a climb.
THEOREM TreeImplementsSet == QuietOwner => (Spec => ImplementsDirtyPages)
<1> SUFFICES ASSUME QuietOwner PROVE Spec => ImplementsDirtyPages
  OBVIOUS
<1>1. Init => WInv
  <2>1. Init => WalkInv /\ SweepInv
    BY DEF Init, WalkInv, SweepInv
  <2> QED
    BY <2>1, TypeInit, ClimbInit DEF WInv
<1>2. WInv /\ [Next]_vars => WInv'
  BY TypeStep, ClimbStep, WalkStep DEF WInv
<1>3. Init => Abstract!AInit
  BY PagesAreLeaves DEF Init, Abstract!AInit
<1>4. WInv /\ [Next]_vars => [Abstract!ANext]_(Abstract!avars)
  BY StepSimulates DEF Simulated, Abstract!avars, ACursor
<1> QED
  BY <1>1, <1>2, <1>3, <1>4, PTL DEF Spec, ImplementsDirtyPages, Abstract!ASpec
=============================================================================
