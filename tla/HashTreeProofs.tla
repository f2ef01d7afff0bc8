---------------------------- MODULE HashTreeProofs ----------------------------
(***************************************************************************)
(* After an update and after every write recorded since, every hash of the *)
(* machine's hash tree is the Merkle hash of the memory under it, and the  *)
(* proofs served from the page cache fit memory and tree: for every layout *)
(* of ranges, every contents of pages and every size of the page cache.    *)
(*                                                                         *)
(* The argument follows update() phase by phase.  Between operations the   *)
(* dense tree of a range is either untouched since its file was made, with *)
(* all of its pages dirty, or every node is the hash of its children.  In  *)
(* the walk over dirty pages the sticky ones, those whose hash was or will *)
(* be found changed, stay the same from the first step to the last, and    *)
(* the nodes that are out of date have a sticky leaf under them.  Then the *)
(* nodes out of date lie at or above the level that is rehashed next, and  *)
(* in the sparse tree they wait in the queue, or above one that does.      *)
(***************************************************************************)
EXTENDS HashTree, SequenceTheorems, WellFoundedInduction, TLAPS

InnerDense == Dense \ Leaves

\* A leaf that has the hash of its page, and a node that has that of its children.
LeafHash(l) == IF l \in Pages THEN PageHash(mem[l]) ELSE PristineHash[0]
LeafOk(l) == dht[l] = LeafHash(l)
Good(n) == dht[n] = ConcatHash(dht[Left(n)], dht[Right(n)])
SparseGood(n) == sn[n] = ConcatHash(HashOf(Sparse[n].left, Sparse[n].level - 1),
                                    HashOf(Sparse[n].right, Sparse[n].level - 1))
CacheFits(l) == cached[l] \in {NoCopy, mem[l]}

LeavesOk == \A l \in Leaves : LeafOk(l)
CacheOk == \A l \in Pages : CacheFits(l)
DenseGood == \A n \in InnerDense : Good(n)
SparseAllGood == \A n \in InnerNodes : SparseGood(n)
RangesJoined == \A ar \in Ranges : sn[RangeNode(ar)] = Root(ar)
AllTrue == LeavesOk /\ DenseGood /\ SparseAllGood /\ RangesJoined

\* Between operations
Fresh(ar) == \A n \in Dense : n[1] = ar => dht[n] = ZeroHash /\ (n \in Leaves => n \in dirty)
Built(ar) == /\ \A n \in InnerDense : n[1] = ar => Good(n)
             /\ \A l \in Leaves \ Pages : l[1] = ar => LeafOk(l)
IdleInv == /\ \A ar \in Ranges : Fresh(ar) \/ Built(ar)
           /\ \A l \in Pages : l \in dirty \/ (LeafOk(l) /\ CacheFits(l))
           /\ DOMAIN batch = {}

\* The walk over dirty pages
Lent == {l \in DOMAIN batch : batch[l] = "lent"}
Unseen == todo \cup Lent
Sticky == {l \in dirty : l \in Pages =>
             IF l \in Unseen THEN ~LeafOk(l) ELSE ~(l \in DOMAIN batch /\ batch[l] = "same")}
Touched(ar) == \E l \in Sticky \cap Pages : l[1] = ar
WalkInv == /\ todo \subseteq dirty /\ DOMAIN batch \subseteq dirty \cap Pages /\ todo \cap DOMAIN batch = {}
           /\ \A l \in DOMAIN batch : batch[l] \in {"lent", "changed", "same"}
           /\ \A l \in Pages \ Unseen : LeafOk(l) /\ CacheFits(l)
           /\ \A l \in Leaves \ Pages : LeafOk(l) \/ (l \in todo /\ Touched(l[1]))
           /\ \A n \in InnerDense : Good(n) \/ (Under[n] \cap Sticky # {} /\ Touched(n[1]))
           /\ \A l \in Sticky \cap Pages : l \in todo \cup DOMAIN batch \/ l[1] \in changed

\* The dense trees, level by level
DenseInv == /\ DOMAIN batch = {} /\ level \in Nat \ {0} /\ LeavesOk /\ CacheOk
            /\ \A n \in InnerDense : Good(n) \/ (DirtyNode(n) /\ n[1] \in changed /\ n[2] >= level)

\* The sparse tree, level by level
Waiting == queue \cup pending
QueueInv == /\ marked = queue /\ RangesJoined
            /\ \A n \in pending : Sparse[n].level = last /\ Sparse[n].parent \in queue \cup {0}
            /\ \A n \in InnerNodes : \/ SparseGood(n) \/ n \in Waiting
                                     \/ \E c \in Children(n) \cap InnerNodes : ~SparseGood(c) \/ c \in Waiting

DoneInv == DOMAIN batch = {} /\ LeavesOk /\ CacheOk /\ DenseGood

SparseFresh == \A n \in Nodes : sn[n] = ZeroHash

IInv ==
  /\ TypeOK /\ dht = [n \in Dense |-> dht[n]] /\ sn = [n \in Nodes |-> sn[n]]
  /\ pc \in {"idle", "pages", "hash", "return", "dense", "sync", "sparse", "clean"}
  /\ pc = "idle" => IdleInv
  /\ pc \in {"pages", "hash", "return"} => WalkInv
  /\ pc = "dense" => DenseInv
  /\ pc \in {"sync", "sparse", "clean"} => DoneInv
  /\ pc # "sparse" => marked = {} /\ (SparseFresh \/ SparseAllGood)
  /\ pc = "sparse" => QueueInv
  /\ pc = "clean" => RangesJoined /\ SparseAllGood
  /\ synced => AllTrue /\ CacheOk
  /\ served # <<>> => pc = "idle" /\ synced /\ served[1] \in Pages /\ served[2] = PageHash(mem[served[1]])

-----------------------------------------------------------------------------
(* The shape of the trees *)

LEMMA LeastNat ==
  ASSUME NEW T, T \subseteq Nat, T # {}
  PROVE  \E x \in T : \A y \in T : x <= y
<1>1. PICK x \in T : \A y \in T : ~(<<y, x>> \in OpToRel(<, Nat))
  BY NatLessThanWellFounded, WFMin, Zenon
<1>2. \A y \in T : ~(y < x)
  BY <1>1 DEF OpToRel
<1> QED
  BY <1>2

LEMMA RangeFacts ==
  ASSUME NEW ar \in Ranges
  PROVE  /\ ar \in Nat \ {0} /\ LevelCount[ar] \in Nat \ {0} /\ LevelCount[ar] - 1 \in 0 .. RootLevel
         /\ RootLevel \in Nat /\ RangeNode(ar) \in Nodes \ InnerNodes
<1>1. LevelCount \in Seq(Nat \ {0}) /\ RootLevel \in Nat
  BY LayoutAssumption
<1>2. ar \in 1 .. Len(LevelCount) /\ LevelCount[ar] \in Nat \ {0} /\ Len(LevelCount) \in Nat
  BY <1>1 DEF Ranges
<1>3. RangeNode(ar) \in Nodes /\ Sparse[RangeNode(ar)].level = LevelCount[ar] - 1
      /\ Sparse[RangeNode(ar)].level \in 0 .. RootLevel
  BY LayoutAssumption
<1> QED
  BY <1>1, <1>2, <1>3 DEF InnerNodes

LEMMA DenseMeans ==
  ASSUME NEW n
  PROVE  n \in Dense <=> \E ar \in Ranges : \E k \in 0 .. LevelCount[ar] - 1 :
                           \E i \in 0 .. 2^(LevelCount[ar] - 1 - k) - 1 : n = <<ar, k, i>>
BY DEF Dense, NodesOf

LEMMA LeavesMean ==
  ASSUME NEW n
  PROVE  n \in Leaves <=> \E ar \in Ranges : \E i \in 0 .. 2^(LevelCount[ar] - 1) - 1 : n = <<ar, 0, i>>
<1>1. \A ar \in Ranges : LevelCount[ar] - 1 - 0 = LevelCount[ar] - 1
  BY RangeFacts
<1> QED
  BY <1>1 DEF Leaves, LeavesOf, NodesOf

\* The power of two of a level
LEMMA Powers ==
  ASSUME NEW j \in 0 .. RootLevel
  PROVE  2^j \in Nat \ {0} /\ 2^(j + 1) = 2 * 2^j
BY PowersAssumption

LEMMA NodeFacts ==
  ASSUME NEW n \in Dense
  PROVE  /\ n[1] \in Ranges /\ n[2] \in 0 .. LevelCount[n[1]] - 1 /\ n = <<n[1], n[2], n[3]>>
         /\ n[3] \in 0 .. 2^(LevelCount[n[1]] - 1 - n[2]) - 1 /\ n[2] \in Nat /\ n[3] \in Nat /\ n[2] \in 0 .. RootLevel
<1>1. PICK ar \in Ranges : \E k \in 0 .. LevelCount[ar] - 1 :
              \E i \in 0 .. 2^(LevelCount[ar] - 1 - k) - 1 : n = <<ar, k, i>>
  BY DenseMeans
<1>2. PICK k \in 0 .. LevelCount[ar] - 1 : \E i \in 0 .. 2^(LevelCount[ar] - 1 - k) - 1 : n = <<ar, k, i>>
  BY <1>1
<1>3. PICK i \in 0 .. 2^(LevelCount[ar] - 1 - k) - 1 : n = <<ar, k, i>>
  BY <1>2
<1>4. n[1] = ar /\ n[2] = k /\ n[3] = i
  BY <1>3
<1>5. LevelCount[ar] \in Nat \ {0} /\ LevelCount[ar] - 1 \in 0 .. RootLevel /\ RootLevel \in Nat
  BY RangeFacts
<1> QED
  BY <1>3, <1>4, <1>5

LEMMA LeafFacts ==
  ASSUME NEW l \in Leaves
  PROVE  l \in Dense /\ l[1] \in Ranges /\ l[2] = 0 /\ l[3] \in Nat /\ l \in LeavesOf(l[1])
<1>1. PICK ar \in Ranges : l \in NodesOf(ar, 0)
  BY DEF Leaves, LeavesOf
<1>2. PICK i \in 0 .. 2^(LevelCount[ar] - 1 - 0) - 1 : l = <<ar, 0, i>>
  BY <1>1 DEF NodesOf
<1>3. l[1] = ar /\ l[2] = 0 /\ l[3] = i
  BY <1>2
<1>4. 0 \in 0 .. LevelCount[ar] - 1
  BY RangeFacts
<1> QED
  BY <1>1, <1>2, <1>3, <1>4, DenseMeans DEF LeavesOf

\* The leaves are the nodes of level 0.
LEMMA LeafLevel ==
  ASSUME NEW n \in Dense
  PROVE  n \in Leaves <=> n[2] = 0
<1>1. ASSUME n[2] = 0 PROVE n \in Leaves
  <2>1. LevelCount[n[1]] - 1 - 0 = LevelCount[n[1]] - 1
    BY NodeFacts, RangeFacts
  <2> QED
    BY <1>1, <2>1, NodeFacts, LeavesMean
<1> QED
  BY <1>1, LeafFacts

LEMMA PageFacts ==
  /\ Pages \subseteq Leaves /\ Leaves \subseteq Dense
  /\ \A ar \in Ranges : <<ar, 0, 0>> \in Pages
<1>1. Pages \subseteq Leaves /\ Leaves \subseteq Dense
  BY LeafFacts DEF Pages
<1>2. ASSUME NEW ar \in Ranges PROVE <<ar, 0, 0>> \in Pages
  <2>1. 2^(LevelCount[ar] - 1) \in Nat \ {0} /\ LeafCount[ar] \in 1 .. 2^(LevelCount[ar] - 1)
    BY RangeFacts, Powers, LayoutAssumption
  <2>2. 0 \in 0 .. 2^(LevelCount[ar] - 1) - 1
    BY <2>1
  <2>3. <<ar, 0, 0>> \in Leaves
    BY <2>2, LeavesMean
  <2> QED
    BY <2>1, <2>3 DEF Pages
<1> QED
  BY <1>1, <1>2

\* The root of a range
LEMMA RootFacts ==
  ASSUME NEW ar \in Ranges
  PROVE  <<ar, LevelCount[ar] - 1, 0>> \in Dense
<1>1. LevelCount[ar] \in Nat \ {0} /\ LevelCount[ar] - 1 - (LevelCount[ar] - 1) = 0
  BY RangeFacts
<1>2. 0 \in 0 .. 2^(LevelCount[ar] - 1 - (LevelCount[ar] - 1)) - 1
  <2>1. \A z : z = 0 => 0 \in 0 .. 2^z - 1
    BY PowersAssumption
  <2> QED
    BY <1>1, <2>1
<1> QED
  BY <1>1, <1>2, DenseMeans

LEMMA ChildFacts ==
  ASSUME NEW n \in InnerDense
  PROVE  /\ n \in Dense /\ n[2] \in Nat \ {0} /\ Left(n) \in Dense /\ Right(n) \in Dense
         /\ Left(n)[1] = n[1] /\ Right(n)[1] = n[1]
         /\ Left(n)[2] = n[2] - 1 /\ Right(n)[2] = n[2] - 1
         /\ Left(n)[3] = 2 * n[3] /\ Right(n)[3] = 2 * n[3] + 1
<1>1. n \in Dense /\ n[2] # 0
  BY LeafLevel DEF InnerDense
<1> DEFINE ar == n[1]
           j == LevelCount[ar] - 1 - n[2]
<1>2. ar \in Ranges /\ n[2] \in 1 .. LevelCount[ar] - 1 /\ n[3] \in 0 .. 2^j - 1 /\ LevelCount[ar] \in Nat
      /\ LevelCount[ar] - 1 \in 0 .. RootLevel /\ RootLevel \in Nat
  BY <1>1, NodeFacts, RangeFacts
<1>3. j \in 0 .. RootLevel /\ LevelCount[ar] - 1 - (n[2] - 1) = j + 1
  BY <1>2
<1>4. 2^j \in Nat \ {0} /\ 2^(j + 1) = 2 * 2^j
  BY <1>3, Powers
<1>5. n[2] - 1 \in 0 .. LevelCount[ar] - 1
  BY <1>2
<1> HIDE DEF j
<1>6. 2 * n[3] \in 0 .. 2^(j + 1) - 1 /\ 2 * n[3] + 1 \in 0 .. 2^(j + 1) - 1
  BY <1>2, <1>4 DEF j
<1>7. Left(n) \in Dense /\ Right(n) \in Dense
  BY <1>2, <1>3, <1>5, <1>6, DenseMeans DEF Left, Right
<1> QED
  BY <1>1, <1>2, <1>7 DEF Left, Right

\* Dividing by a power of two, and by the next one.
LEMMA Halved ==
  ASSUME NEW w \in Nat \ {0}, NEW x \in Nat, NEW q \in Nat, x \div w = 2 * q \/ x \div w = 2 * q + 1
  PROVE  x \div (2 * w) = q
<1>1. \A v \in Nat \ {0}, y \in Nat : v * y <= x /\ x < v * y + v => x \div v = y
  OBVIOUS
<1>2. PICK d \in Nat : d = x \div w /\ w * d <= x /\ x < w * d + w
  OBVIOUS
<1>3. (2 * w) * q <= x /\ x < (2 * w) * q + 2 * w
  <2>1. CASE d = 2 * q
    BY <1>2, <2>1
  <2>2. CASE d = 2 * q + 1
    BY <1>2, <2>2
  <2> QED
    BY <1>2, <2>1, <2>2
<1> QED
  BY <1>1, <1>3

\* The leaves under a node are those under its children, and a leaf is under itself.
LEMMA UnderChildren ==
  ASSUME NEW n \in InnerDense
  PROVE  Under[Left(n)] \subseteq Under[n] /\ Under[Right(n)] \subseteq Under[n]
<1> DEFINE w == 2^(n[2] - 1)
<1>1. n[2] \in Nat \ {0} /\ n[2] \in 0 .. RootLevel /\ n[3] \in Nat /\ n[1] \in Ranges /\ RootLevel \in Nat
  BY ChildFacts, NodeFacts, LayoutAssumption
<1>2. w \in Nat \ {0} /\ 2^n[2] = 2 * w
  <2>1. n[2] - 1 \in 0 .. RootLevel /\ n[2] - 1 + 1 = n[2]
    BY <1>1
  <2> QED
    BY <2>1, Powers
<1>3. ASSUME NEW l \in LeavesOf(n[1]), l[3] \div w = 2 * n[3] \/ l[3] \div w = 2 * n[3] + 1
      PROVE  l[3] \div 2^n[2] = n[3]
  <2>1. l \in Leaves
    BY <1>1 DEF Leaves
  <2>2. l[3] \in Nat
    BY <2>1, LeafFacts
  <2> HIDE DEF w
  <2> QED
    BY <1>1, <1>2, <1>3, <2>2, Halved
<1>4. /\ Under[n] = {l \in LeavesOf(n[1]) : l[3] \div 2^n[2] = n[3]}
      /\ Under[Left(n)] = {l \in LeavesOf(n[1]) : l[3] \div w = 2 * n[3]}
      /\ Under[Right(n)] = {l \in LeavesOf(n[1]) : l[3] \div w = 2 * n[3] + 1}
  BY ChildFacts DEF Under
<1> HIDE DEF w
<1> QED
  BY <1>3, <1>4

LEMMA UnderSelf ==
  ASSUME NEW l \in Leaves
  PROVE  l \in Under[l]
<1>1. l[3] \div 2^0 = l[3]
  <2>1. \A x \in Nat : x \div 1 = x
    OBVIOUS
  <2> QED
    BY <2>1, LeafFacts, PowersAssumption
<1> QED
  BY <1>1, LeafFacts DEF Under

LEMMA UnderLeaves ==
  ASSUME NEW n \in Dense
  PROVE  Under[n] \subseteq Leaves /\ \A l \in Under[n] : l[1] = n[1]
<1>1. n[1] \in Ranges
  BY NodeFacts
<1>2. Under[n] \subseteq LeavesOf(n[1])
  BY DEF Under
<1> QED
  BY <1>1, <1>2 DEF Leaves, LeavesOf, NodesOf

\* Every node has a leaf under it.
LEMMA UnderSome ==
  ASSUME NEW n \in Dense
  PROVE  Under[n] # {}
<1> DEFINE T == {d[2] : d \in {m \in Dense : Under[m] = {}}}
<1> SUFFICES ASSUME Under[n] = {} PROVE FALSE
  OBVIOUS
<1>1. T \subseteq Nat /\ T # {}
  BY NodeFacts
<1>2. PICK k \in T : \A j \in T : k <= j
  BY <1>1, LeastNat
<1>3. PICK m \in Dense : m[2] = k /\ Under[m] = {}
  BY <1>2
<1>4. m \in InnerDense
  BY <1>3, UnderSelf DEF InnerDense
<1>5. Under[Left(m)] = {} /\ Left(m) \in Dense /\ Left(m)[2] = m[2] - 1 /\ m[2] \in Nat \ {0}
  BY <1>3, <1>4, UnderChildren, ChildFacts
<1>6. Left(m)[2] \in T
  BY <1>5
<1> HIDE DEF T
<1>7. k <= k - 1 /\ k \in Nat
  BY <1>2, <1>3, <1>5, <1>6
<1> QED
  BY <1>7

-----------------------------------------------------------------------------
(* The trees that are hashed bottom up: there is one, built level by level. *)

DenseStep(t, given, Given, n) == IF n \in Given THEN given[n] ELSE ConcatHash(t[Left(n)], t[Right(n)])
DenseUpTo(k) == {n \in Dense : n[2] <= k}
IsDense(t, given, Given, S) == t = [n \in S |-> DenseStep(t, given, Given, n)]

LEMMA DenseGoesOn ==
  ASSUME NEW given, NEW Given, Leaves \subseteq Given, NEW k \in Nat, NEW t, IsDense(t, given, Given, DenseUpTo(k))
  PROVE  \E u : IsDense(u, given, Given, DenseUpTo(k + 1))
<1> DEFINE u == [n \in DenseUpTo(k + 1) |-> IF n[2] <= k THEN t[n] ELSE DenseStep(t, given, Given, n)]
<1>1. \A n \in DenseUpTo(k) : t[n] = DenseStep(t, given, Given, n)
  BY DEF IsDense
<1>2. \A n \in DenseUpTo(k) : n \in DenseUpTo(k + 1) /\ u[n] = t[n]
  BY NodeFacts DEF DenseUpTo
<1>3. \A n \in DenseUpTo(k + 1) : n \notin DenseUpTo(k) => u[n] = DenseStep(t, given, Given, n)
  BY DEF DenseUpTo
<1>4. u = [n \in DenseUpTo(k + 1) |-> u[n]]
  OBVIOUS
<1> HIDE DEF u
<1>5. ASSUME NEW n \in DenseUpTo(k + 1) PROVE u[n] = DenseStep(u, given, Given, n)
  <2>1. u[n] = DenseStep(t, given, Given, n)
    BY <1>1, <1>2, <1>3
  <2>2. ASSUME n \notin Given PROVE Left(n) \in DenseUpTo(k) /\ Right(n) \in DenseUpTo(k)
    <3>1. n \in InnerDense /\ n[2] <= k + 1
      BY <2>2 DEF DenseUpTo, InnerDense
    <3> QED
      BY <3>1, ChildFacts DEF DenseUpTo
  <2> QED
    BY <1>2, <2>1, <2>2 DEF DenseStep
<1>6. IsDense(u, given, Given, DenseUpTo(k + 1))
  BY <1>4, <1>5 DEF IsDense
<1> QED
  BY <1>6

LEMMA DenseExists ==
  ASSUME NEW given, NEW Given, Leaves \subseteq Given, NEW k \in Nat
  PROVE  \E t : IsDense(t, given, Given, DenseUpTo(k))
<1> DEFINE T == {m \in Nat : ~\E t : IsDense(t, given, Given, DenseUpTo(m))}
<1>1. T \subseteq Nat /\ \A m \in Nat : m \notin T => \E t : IsDense(t, given, Given, DenseUpTo(m))
  OBVIOUS
<1>2. 0 \notin T
  <2> DEFINE u == [n \in DenseUpTo(0) |-> given[n]]
  <2>1. \A n \in DenseUpTo(0) : n \in Given
    BY NodeFacts, LeafLevel DEF DenseUpTo
  <2>2. IsDense(u, given, Given, DenseUpTo(0))
    BY <2>1 DEF IsDense, DenseStep
  <2> QED
    BY <2>2
<1>3. \A m \in Nat : m \notin T => m + 1 \notin T
  BY <1>1, DenseGoesOn
<1> HIDE DEF T
<1>4. ASSUME NEW m \in T, \A y \in T : m <= y PROVE FALSE
  <2>1. m - 1 \in Nat /\ (m - 1) + 1 = m /\ m - 1 \notin T
    BY <1>1, <1>2, <1>4
  <2> QED
    BY <1>3, <2>1
<1>5. T = {}
  BY <1>1, <1>4, LeastNat
<1> QED
  BY <1>1, <1>5

LEMMA DenseHashedFacts ==
  ASSUME NEW given, NEW Given, Leaves \subseteq Given, NEW t, t = DenseHashed(given, Given)
  PROVE  t = [n \in Dense |-> t[n]] /\ \A n \in Dense : t[n] = DenseStep(t, given, Given, n)
<1>1. DenseUpTo(RootLevel) = Dense
  BY NodeFacts, LayoutAssumption DEF DenseUpTo
<1>2. \E u : IsDense(u, given, Given, Dense)
  <2>1. RootLevel \in Nat
    BY LayoutAssumption
  <2> QED
    BY <1>1, <2>1, DenseExists
<1>3. t = CHOOSE u : IsDense(u, given, Given, Dense)
  BY DEF DenseHashed, IsDense, DenseStep
<1>4. IsDense(t, given, Given, Dense)
  BY <1>2, <1>3
<1> QED
  BY <1>4 DEF IsDense

\* And no other: a tree whose nodes have the hashes of their children is that tree.
LEMMA DenseUnique ==
  ASSUME NEW given, NEW Given, Leaves \subseteq Given, NEW t, DOMAIN t = Dense, t = [n \in Dense |-> t[n]],
         \A n \in Dense : t[n] = DenseStep(t, given, Given, n)
  PROVE  t = DenseHashed(given, Given)
<1>1. PICK u : u = DenseHashed(given, Given)
  OBVIOUS
<1>2. u = [n \in Dense |-> u[n]] /\ \A n \in Dense : u[n] = DenseStep(u, given, Given, n)
  BY <1>1, DenseHashedFacts
<1> DEFINE T == {n[2] : n \in {m \in Dense : t[m] # u[m]}}
<1>3. T \subseteq Nat
  BY NodeFacts
<1>4. ASSUME NEW k \in T, \A j \in T : k <= j PROVE FALSE
  <2>1. PICK m \in Dense : m[2] = k /\ t[m] # u[m]
    BY <1>4
  <2>2. m \in InnerDense /\ m \notin Given
    BY <1>2, <2>1 DEF InnerDense, DenseStep
  <2>3. Left(m) \in Dense /\ Right(m) \in Dense /\ Left(m)[2] = m[2] - 1 /\ Right(m)[2] = m[2] - 1 /\ m[2] \in Nat \ {0}
    BY <2>2, ChildFacts
  <2>4. Left(m)[2] \notin T /\ Right(m)[2] \notin T
    <3> HIDE DEF T
    <3>1. k \in Nat /\ ~(k <= k - 1)
      BY <2>1, <2>3
    <3> QED
      BY <1>4, <2>1, <2>3, <3>1
  <2>5. t[Left(m)] = u[Left(m)] /\ t[Right(m)] = u[Right(m)]
    BY <2>3, <2>4
  <2>6. t[m] = DenseStep(t, given, Given, m) /\ u[m] = DenseStep(u, given, Given, m)
    BY <1>2
  <2> QED
    BY <2>1, <2>2, <2>5, <2>6 DEF DenseStep
<1>5. T = {}
  <2> HIDE DEF T
  <2> QED
    BY <1>3, <1>4, LeastNat
<1>6. \A m \in Dense : t[m] = u[m]
  BY <1>5
<1>7. t = u
  BY <1>2, <1>6
<1> QED
  BY <1>1, <1>7

SparseSide(t, n, c) == IF c = 0 THEN PristineHash[Sparse[n].level - 1] ELSE t[c]
SparseStep(t, given, Given, n) ==
  IF n \in Given THEN given[n]
  ELSE ConcatHash(SparseSide(t, n, Sparse[n].left), SparseSide(t, n, Sparse[n].right))
SparseUpTo(k) == {n \in Nodes : Sparse[n].level <= k}
IsSparse(t, given, Given, S) == t = [n \in S |-> SparseStep(t, given, Given, n)]

LEMMA SparseFacts ==
  /\ RootLevel \in Nat /\ Nodes \subseteq Nat \ {0} /\ InnerNodes \subseteq Nodes
  /\ \A n \in Nodes : Sparse[n].level \in Nat /\ Sparse[n].level <= RootLevel /\ Sparse[n].parent \in InnerNodes \cup {0}
  /\ \A n \in InnerNodes : /\ Sparse[n].left # 0 \/ Sparse[n].right # 0
                           /\ \A c \in {Sparse[n].left, Sparse[n].right} \ {0} :
                                /\ c \in Nodes /\ Sparse[c].parent = n /\ Sparse[c].level = Sparse[n].level - 1
                                /\ Sparse[n].level > 0
<1>1. RootLevel \in Nat /\ Nodes \subseteq Nat \ {0} /\ InnerNodes \subseteq Nodes
  BY LayoutAssumption DEF InnerNodes
<1>2. \A n \in Nodes : Sparse[n].level \in Nat /\ Sparse[n].level <= RootLevel /\ Sparse[n].parent \in InnerNodes \cup {0}
  BY <1>1, LayoutAssumption
<1>3. ASSUME NEW n \in InnerNodes
      PROVE  /\ Sparse[n].left # 0 \/ Sparse[n].right # 0
             /\ \A c \in {Sparse[n].left, Sparse[n].right} \ {0} :
                  /\ c \in Nodes /\ Sparse[c].parent = n /\ Sparse[c].level = Sparse[n].level - 1
                  /\ Sparse[n].level > 0
  <2>1. /\ Children(n) # {} /\ Children(n) \subseteq Nodes
        /\ \A c \in Children(n) : Sparse[c].parent = n /\ Sparse[c].level + 1 = Sparse[n].level
    BY LayoutAssumption
  <2>2. Children(n) = {Sparse[n].left, Sparse[n].right} \ {0}
    BY DEF Children
  <2>3. ASSUME NEW c \in {Sparse[n].left, Sparse[n].right} \ {0}
        PROVE  /\ c \in Nodes /\ Sparse[c].parent = n /\ Sparse[c].level = Sparse[n].level - 1
               /\ Sparse[n].level > 0
    <3>1. c \in Nodes /\ Sparse[c].parent = n /\ Sparse[c].level + 1 = Sparse[n].level
      BY <2>1, <2>2
    <3>2. Sparse[c].level \in Nat /\ Sparse[n].level \in Nat
      BY <1>1, <1>2, <3>1
    <3> QED
      BY <3>1, <3>2
  <2> QED
    BY <2>1, <2>2, <2>3
<1> QED
  BY <1>1, <1>2, <1>3

LEMMA ParentFacts ==
  ASSUME NEW n \in Nodes, Sparse[n].parent # 0
  PROVE  Sparse[n].parent \in InnerNodes /\ Sparse[Sparse[n].parent].level = Sparse[n].level + 1
<1>1. n \in Children(Sparse[n].parent) /\ Sparse[n].parent \in InnerNodes
  BY LayoutAssumption
<1>2. n \in {Sparse[Sparse[n].parent].left, Sparse[Sparse[n].parent].right} \ {0}
  BY <1>1 DEF Children
<1>3. Sparse[n].level = Sparse[Sparse[n].parent].level - 1 /\ Sparse[Sparse[n].parent].level \in Nat
  BY <1>1, <1>2, SparseFacts
<1> QED
  BY <1>1, <1>3

LEMMA SparseGoesOn ==
  ASSUME NEW given, NEW Given, Nodes \ InnerNodes \subseteq Given, NEW k \in Nat, NEW t,
         IsSparse(t, given, Given, SparseUpTo(k))
  PROVE  \E u : IsSparse(u, given, Given, SparseUpTo(k + 1))
<1> DEFINE u == [n \in SparseUpTo(k + 1) |-> IF Sparse[n].level <= k THEN t[n] ELSE SparseStep(t, given, Given, n)]
<1>1. \A n \in SparseUpTo(k) : t[n] = SparseStep(t, given, Given, n)
  BY DEF IsSparse
<1>2. \A n \in SparseUpTo(k) : n \in SparseUpTo(k + 1) /\ u[n] = t[n]
  <2>1. \A n \in SparseUpTo(k) : n \in Nodes /\ Sparse[n].level <= k
    BY DEF SparseUpTo
  <2>2. \A n \in Nodes : Sparse[n].level \in Nat
    BY SparseFacts
  <2>3. \A j \in Nat : j <= k => j <= k + 1
    OBVIOUS
  <2>4. \A n \in SparseUpTo(k) : n \in SparseUpTo(k + 1)
    BY <2>1, <2>2, <2>3 DEF SparseUpTo
  <2> QED
    BY <2>1, <2>4
<1>3. \A n \in SparseUpTo(k + 1) : n \notin SparseUpTo(k) => u[n] = SparseStep(t, given, Given, n)
  BY DEF SparseUpTo
<1>4. u = [n \in SparseUpTo(k + 1) |-> u[n]]
  OBVIOUS
<1> HIDE DEF u
<1>5. ASSUME NEW n \in SparseUpTo(k + 1) PROVE u[n] = SparseStep(u, given, Given, n)
  <2>1. u[n] = SparseStep(t, given, Given, n)
    BY <1>1, <1>2, <1>3
  <2>2. ASSUME n \notin Given, NEW c \in {Sparse[n].left, Sparse[n].right} \ {0} PROVE c \in SparseUpTo(k)
    <3>1. n \in InnerNodes /\ Sparse[n].level <= k + 1 /\ Sparse[n].level \in Nat
      BY <2>2, SparseFacts DEF SparseUpTo
    <3> QED
      BY <2>2, <3>1, SparseFacts DEF SparseUpTo
  <2>3. ASSUME n \notin Given, NEW c \in {Sparse[n].left, Sparse[n].right} PROVE SparseSide(u, n, c) = SparseSide(t, n, c)
    BY <1>2, <2>2, <2>3 DEF SparseSide
  <2> QED
    BY <2>1, <2>3 DEF SparseStep
<1>6. IsSparse(u, given, Given, SparseUpTo(k + 1))
  BY <1>4, <1>5 DEF IsSparse
<1> QED
  BY <1>6

LEMMA SparseExists ==
  ASSUME NEW given, NEW Given, Nodes \ InnerNodes \subseteq Given, NEW k \in Nat
  PROVE  \E t : IsSparse(t, given, Given, SparseUpTo(k))
<1> DEFINE T == {m \in Nat : ~\E t : IsSparse(t, given, Given, SparseUpTo(m))}
<1>1. T \subseteq Nat /\ \A m \in Nat : m \notin T => \E t : IsSparse(t, given, Given, SparseUpTo(m))
  OBVIOUS
<1>2. 0 \notin T
  <2> DEFINE u == [n \in SparseUpTo(0) |-> given[n]]
  <2>1. \A n \in SparseUpTo(0) : n \in Given
    <3> SUFFICES ASSUME NEW n \in SparseUpTo(0), n \in InnerNodes PROVE FALSE
      BY DEF SparseUpTo
    <3>1. Sparse[n].level > 0 /\ Sparse[n].level \in Nat
      BY SparseFacts
    <3> QED
      BY <3>1 DEF SparseUpTo
  <2>2. IsSparse(u, given, Given, SparseUpTo(0))
    BY <2>1 DEF IsSparse, SparseStep
  <2> QED
    BY <2>2
<1>3. \A m \in Nat : m \notin T => m + 1 \notin T
  BY <1>1, SparseGoesOn
<1> HIDE DEF T
<1>4. ASSUME NEW m \in T, \A y \in T : m <= y PROVE FALSE
  <2>1. m - 1 \in Nat /\ (m - 1) + 1 = m /\ m - 1 \notin T
    BY <1>1, <1>2, <1>4
  <2> QED
    BY <1>3, <2>1
<1>5. T = {}
  BY <1>1, <1>4, LeastNat
<1> QED
  BY <1>1, <1>5

LEMMA SparseHashedFacts ==
  ASSUME NEW given, NEW Given, Nodes \ InnerNodes \subseteq Given, NEW t, t = SparseHashed(given, Given)
  PROVE  t = [n \in Nodes |-> t[n]] /\ \A n \in Nodes : t[n] = SparseStep(t, given, Given, n)
<1>1. SparseUpTo(RootLevel) = Nodes
  BY SparseFacts DEF SparseUpTo
<1>2. \E u : IsSparse(u, given, Given, Nodes)
  <2>1. RootLevel \in Nat
    BY LayoutAssumption
  <2> QED
    BY <1>1, <2>1, SparseExists
<1>3. t = CHOOSE u : IsSparse(u, given, Given, Nodes)
  BY DEF SparseHashed, IsSparse, SparseStep, SparseSide
<1>4. IsSparse(t, given, Given, Nodes)
  BY <1>2, <1>3
<1> QED
  BY <1>4 DEF IsSparse

LEMMA SparseUnique ==
  ASSUME NEW given, NEW Given, Nodes \ InnerNodes \subseteq Given, NEW t, t = [n \in Nodes |-> t[n]],
         \A n \in Nodes : t[n] = SparseStep(t, given, Given, n)
  PROVE  t = SparseHashed(given, Given)
<1>1. PICK u : u = SparseHashed(given, Given)
  OBVIOUS
<1>2. u = [n \in Nodes |-> u[n]] /\ \A n \in Nodes : u[n] = SparseStep(u, given, Given, n)
  BY <1>1, SparseHashedFacts
<1> DEFINE T == {Sparse[n].level : n \in {m \in Nodes : t[m] # u[m]}}
<1>3. T \subseteq Nat
  BY SparseFacts
<1>4. ASSUME NEW k \in T, \A j \in T : k <= j PROVE FALSE
  <2>1. PICK m \in Nodes : Sparse[m].level = k /\ t[m] # u[m]
    BY <1>4
  <2>2. m \in InnerNodes /\ m \notin Given
    BY <1>2, <2>1 DEF SparseStep
  <2>3. ASSUME NEW c \in {Sparse[m].left, Sparse[m].right} PROVE SparseSide(t, m, c) = SparseSide(u, m, c)
    <3>1. CASE c = 0
      BY <3>1 DEF SparseSide
    <3>2. CASE c # 0
      <4>1. c \in Nodes /\ Sparse[c].level = k - 1 /\ k \in Nat
        BY <2>1, <2>2, <3>2, SparseFacts
      <4>2. k - 1 \notin T
        <5> HIDE DEF T
        <5> QED
          BY <1>4, <4>1
      <4>3. t[c] = u[c]
        BY <4>1, <4>2
      <4> QED
        BY <4>3 DEF SparseSide
    <3> QED
      BY <3>1, <3>2
  <2>4. t[m] = SparseStep(t, given, Given, m) /\ u[m] = SparseStep(u, given, Given, m)
    BY <1>2
  <2> QED
    BY <2>1, <2>2, <2>3, <2>4 DEF SparseStep
<1>5. T = {}
  <2> HIDE DEF T
  <2> QED
    BY <1>3, <1>4, LeastNat
<1>6. \A m \in Nodes : t[m] = u[m]
  BY <1>5
<1>7. t = u
  BY <1>2, <1>6
<1> QED
  BY <1>1, <1>7

-----------------------------------------------------------------------------
(* Nodes that have the hashes of their children, pages that have theirs: that *)
(* is the Merkle tree of the memory.                                          *)

LEMMA TrueHashes ==
  ASSUME dht = [n \in Dense |-> dht[n]], sn = [n \in Nodes |-> sn[n]], AllTrue
  PROVE  sn = TrueSparse /\ dht = TrueDense(mem)
<1> DEFINE given == [l \in Leaves |-> IF l \in Pages THEN PageHash(mem[l]) ELSE PristineHash[0]]
<1>1. dht = TrueDense(mem)
  <2>1. ASSUME NEW n \in Dense PROVE dht[n] = DenseStep(dht, given, Leaves, n)
    <3>1. CASE n \in Leaves
      BY <3>1 DEF AllTrue, LeavesOk, LeafOk, LeafHash, DenseStep
    <3>2. CASE n \notin Leaves
      BY <3>2 DEF AllTrue, DenseGood, InnerDense, Good, DenseStep
    <3> QED
      BY <3>1, <3>2
  <2>2. TrueDense(mem) = DenseHashed(given, Leaves)
    BY DEF TrueDense
  <2> HIDE DEF given
  <2>3. DOMAIN dht = Dense
    OBVIOUS
  <2> QED
    BY <2>1, <2>2, <2>3, DenseUnique
<1> DEFINE roots == [n \in Nodes \ InnerNodes |-> TrueDense(mem)[<<n - 1, LevelCount[n - 1] - 1, 0>>]]
<1>2. ASSUME NEW n \in Nodes PROVE sn[n] = SparseStep(sn, roots, Nodes \ InnerNodes, n)
  <2>1. CASE n \in InnerNodes
    BY <2>1 DEF AllTrue, SparseAllGood, SparseGood, HashOf, SparseStep, SparseSide
  <2>2. CASE n \notin InnerNodes
    <3>1. PICK ar \in Ranges : n = RangeNode(ar)
      BY <2>2 DEF InnerNodes
    <3>2. ar \in Nat /\ n - 1 = ar
      BY <3>1, RangeFacts DEF RangeNode
    <3>3. sn[n] = Root(ar)
      BY <3>1 DEF AllTrue, RangesJoined
    <3>4. sn[n] = roots[n]
      BY <1>1, <2>2, <3>2, <3>3 DEF Root
    <3> QED
      BY <2>2, <3>4 DEF SparseStep
  <2> QED
    BY <2>1, <2>2
<1>3. TrueSparse = SparseHashed(roots, Nodes \ InnerNodes)
  BY DEF TrueSparse
<1> HIDE DEF roots
<1>4. sn = TrueSparse
  BY <1>2, <1>3, SparseUnique
<1> QED
  BY <1>1, <1>4

\* Hashes of pages and of nodes are not the hash of nothing.
LEMMA NotZero ==
  \A a, b : PageHash(a) # ZeroHash /\ ConcatHash(a, b) # ZeroHash
BY DEF PageHash, ConcatHash, ZeroHash

\* The leaf that is walked or settled next is one of them.
LEMMA ForemostOne ==
  ASSUME NEW S, S \subseteq Leaves, S # {}
  PROVE  Foremost(S) \in S
<1> DEFINE A == {l[1] : l \in S}
<1>1. A \subseteq Nat /\ A # {}
  BY LeafFacts, RangeFacts
<1>2. PICK a \in A : \A b \in A : a <= b
  BY <1>1, LeastNat
<1> DEFINE B == {l[3] : l \in {m \in S : m[1] = a}}
<1>3. B \subseteq Nat /\ B # {}
  BY <1>2, LeafFacts
<1>4. PICK i \in B : \A j \in B : i <= j
  BY <1>3, LeastNat
<1>5. PICK l \in S : l[1] = a /\ l[3] = i
  BY <1>4
<1>6. ASSUME NEW m \in S \ {l} PROVE Before(l, m)
  <2>1. l[2] = 0 /\ m[2] = 0 /\ l[3] \in Nat /\ m[3] \in Nat /\ l[1] \in Nat /\ m[1] \in Nat /\ l \in Dense /\ m \in Dense
    BY <1>6, LeafFacts, RangeFacts
  <2>2. l = <<l[1], l[2], l[3]>> /\ m = <<m[1], m[2], m[3]>>
    BY <2>1, NodeFacts
  <2>3. a <= m[1]
    BY <1>2
  <2>4. m[1] = a => i <= m[3]
    BY <1>4
  <2>5. l[1] # m[1] \/ l[3] # m[3]
    BY <1>6, <2>1, <2>2
  <2> QED
    BY <1>5, <2>1, <2>3, <2>4, <2>5 DEF Before
<1> QED
  BY <1>6 DEF Foremost

-----------------------------------------------------------------------------
(* Between operations *)

\* The parts of the invariant that a step keeps which leaves their state alone.
LEMMA KeepsTrue ==
  ASSUME UNCHANGED <<mem, dht, sn, cached>>
  PROVE  AllTrue' = AllTrue /\ CacheOk' = CacheOk
BY DEF AllTrue, LeavesOk, LeafOk, LeafHash, DenseGood, Good, SparseAllGood, SparseGood, HashOf, RangesJoined, Root,
       CacheOk, CacheFits

LEMMA KeepsSparse ==
  ASSUME UNCHANGED sn
  PROVE  SparseFresh' = SparseFresh /\ SparseAllGood' = SparseAllGood /\ \A n : SparseGood(n)' = SparseGood(n)
BY DEF SparseFresh, SparseAllGood, SparseGood, HashOf

LEMMA InitIInv == Init => IInv
<1> SUFFICES ASSUME Init PROVE IInv
  OBVIOUS
<1>1. /\ mem \in [Pages -> Contents] /\ dht = [n \in Dense |-> ZeroHash] /\ dirty = Leaves
      /\ sn = [n \in Nodes |-> ZeroHash] /\ marked = {} /\ cached = [l \in Pages |-> NoCopy]
      /\ pc = "idle" /\ todo = {} /\ DOMAIN batch = {} /\ changed = {} /\ queue = {} /\ pending = {}
      /\ ~synced /\ served = <<>>
  BY DEF Init, NotRunning
<1>2. TypeOK
  BY <1>1 DEF TypeOK
<1>3. dht = [n \in Dense |-> dht[n]] /\ sn = [n \in Nodes |-> sn[n]]
  BY <1>1
<1>4. IdleInv
  <2>1. \A ar \in Ranges : Fresh(ar)
    BY <1>1 DEF Fresh
  <2>2. \A l \in Pages : l \in dirty
    BY <1>1, PageFacts
  <2> QED
    BY <1>1, <2>1, <2>2 DEF IdleInv
<1>5. SparseFresh
  BY <1>1 DEF SparseFresh
<1> QED
  BY <1>1, <1>2, <1>3, <1>4, <1>5 DEF IInv

LEMMA WriteKeeps ==
  ASSUME IInv, NEW l \in Pages, NEW c \in Contents, Write(l, c)
  PROVE  IInv'
<1>1. /\ pc = "idle" /\ pc' = "idle" /\ mem' = [mem EXCEPT ![l] = c] /\ dirty' = dirty \cup {l}
      /\ synced' = FALSE /\ served' = <<>>
      /\ UNCHANGED <<dht, sn, marked, cached, todo, batch, changed, level, queue, pending, last>>
  BY DEF Write, loop
<1>2. TypeOK /\ dht = [n \in Dense |-> dht[n]] /\ sn = [n \in Nodes |-> sn[n]] /\ IdleInv
      /\ marked = {} /\ (SparseFresh \/ SparseAllGood)
  BY <1>1 DEF IInv
<1>3. TypeOK'
  BY <1>1, <1>2, PageFacts DEF TypeOK
<1>4. \A m \in Pages : m # l => mem'[m] = mem[m]
  BY <1>1, <1>2 DEF TypeOK
<1>5. IdleInv'
  <2>1. ASSUME NEW ar \in Ranges PROVE (Fresh(ar) \/ Built(ar))'
    <3>1. CASE Fresh(ar)
      BY <1>1, <3>1 DEF Fresh
    <3>2. CASE Built(ar)
      BY <1>1, <3>2 DEF Built, Good, LeafOk, LeafHash
    <3> QED
      BY <1>2, <3>1, <3>2 DEF IdleInv
  <2>2. ASSUME NEW m \in Pages PROVE (m \in dirty \/ (LeafOk(m) /\ CacheFits(m)))'
    BY <1>1, <1>2, <1>4 DEF IdleInv, LeafOk, LeafHash, CacheFits
  <2> QED
    BY <1>1, <1>2, <2>1, <2>2 DEF IdleInv
<1>6. (SparseFresh \/ SparseAllGood)'
  BY <1>1, <1>2, KeepsSparse
<1> QED
  BY <1>1, <1>2, <1>3, <1>5, <1>6 DEF IInv

LEMMA BeginUpdateKeeps ==
  ASSUME IInv, BeginUpdate
  PROVE  IInv'
<1>1. /\ pc = "idle" /\ pc' = "pages" /\ todo' = dirty /\ served' = <<>>
      /\ UNCHANGED <<mem, dht, dirty, sn, marked, cached, batch, changed, level, queue, pending, last, synced>>
  BY DEF BeginUpdate, disk
<1>2. TypeOK /\ dht = [n \in Dense |-> dht[n]] /\ sn = [n \in Nodes |-> sn[n]] /\ IdleInv
      /\ marked = {} /\ (SparseFresh \/ SparseAllGood) /\ (synced => AllTrue /\ CacheOk)
  BY <1>1 DEF IInv
<1>3. TypeOK'
  BY <1>1, <1>2 DEF TypeOK
<1>4. DOMAIN batch = {} /\ DOMAIN batch' = {}
  BY <1>1, <1>2 DEF IdleInv
<1>5. Unseen' = dirty
  BY <1>1, <1>4 DEF Unseen, Lent
<1>6. \A l : LeafOk(l)' = LeafOk(l) /\ CacheFits(l)' = CacheFits(l) /\ Good(l)' = Good(l)
  BY <1>1 DEF LeafOk, LeafHash, CacheFits, Good
<1>7. ASSUME NEW l \in Leaves, Fresh(l[1]) PROVE l \in Sticky'
  <2>1. l \in dirty /\ dht[l] = ZeroHash
    BY <1>7, LeafFacts DEF Fresh
  <2>2. l \in Pages => ~LeafOk(l)
    BY <2>1, NotZero DEF LeafOk, LeafHash
  <2> QED
    BY <1>1, <1>5, <1>6, <2>1, <2>2 DEF Sticky
<1>8. ASSUME NEW ar \in Ranges, Fresh(ar) PROVE Touched(ar)'
  <2>1. <<ar, 0, 0>> \in Pages /\ <<ar, 0, 0>>[1] = ar /\ <<ar, 0, 0>> \in Leaves
    BY PageFacts
  <2>2. <<ar, 0, 0>> \in Sticky'
    BY <1>7, <1>8, <2>1
  <2> QED
    BY <2>1, <2>2 DEF Touched
<1>9. WalkInv'
  <2>1. /\ todo' \subseteq dirty' /\ DOMAIN batch' \subseteq dirty' \cap Pages /\ todo' \cap DOMAIN batch' = {}
        /\ \A l \in DOMAIN batch' : batch'[l] \in {"lent", "changed", "same"}
    BY <1>1, <1>4
  <2>2. \A l \in Pages \ Unseen' : (LeafOk(l) /\ CacheFits(l))'
    BY <1>2, <1>5, <1>6 DEF IdleInv
  <2>3. ASSUME NEW l \in Leaves \ Pages PROVE (LeafOk(l) \/ (l \in todo /\ Touched(l[1])))'
    <3>1. l[1] \in Ranges /\ l \in Dense
      BY LeafFacts
    <3>2. CASE Fresh(l[1])
      BY <1>1, <1>8, <3>1, <3>2 DEF Fresh
    <3>3. CASE Built(l[1])
      BY <1>6, <3>3 DEF Built
    <3> QED
      BY <1>2, <3>1, <3>2, <3>3 DEF IdleInv
  <2>4. ASSUME NEW n \in InnerDense PROVE (Good(n) \/ (Under[n] \cap Sticky # {} /\ Touched(n[1])))'
    <3>1. n \in Dense /\ n[1] \in Ranges
      BY NodeFacts DEF InnerDense
    <3>2. CASE Fresh(n[1])
      <4>1. PICK l \in Under[n] : l \in Leaves /\ l[1] = n[1]
        BY <3>1, UnderSome, UnderLeaves
      <4> QED
        BY <1>7, <1>8, <3>1, <3>2, <4>1
    <3>3. CASE Built(n[1])
      BY <1>6, <3>3 DEF Built
    <3> QED
      BY <1>2, <3>1, <3>2, <3>3 DEF IdleInv
  <2>5. \A l \in Sticky' \cap Pages : l \in todo' \cup DOMAIN batch' \/ l[1] \in changed'
    BY <1>1 DEF Sticky
  <2> QED
    BY <2>1, <2>2, <2>3, <2>4, <2>5 DEF WalkInv
<1>10. (SparseFresh \/ SparseAllGood)' /\ (synced => AllTrue /\ CacheOk)'
  BY <1>1, <1>2, KeepsSparse, KeepsTrue
<1> QED
  BY <1>1, <1>2, <1>3, <1>9, <1>10 DEF IInv

-----------------------------------------------------------------------------
(* update_dirty_pages and return_updated_dirty_pages *)

\* A node out of date after a leaf changed is one that was, or has that leaf under it.
LEMMA LeafChanged ==
  ASSUME NEW l \in Leaves, dht = [n \in Dense |-> dht[n]], NEW h, dht' = [dht EXCEPT ![l] = h], NEW n \in InnerDense
  PROVE  l \in Under[n] \/ Good(n)' = Good(n)
<1>1. n \in Dense /\ Left(n) \in Dense /\ Right(n) \in Dense /\ n # l
  BY ChildFacts DEF InnerDense
<1>2. CASE l = Left(n) \/ l = Right(n)
  BY <1>2, UnderSelf, UnderChildren
<1>3. CASE l # Left(n) /\ l # Right(n)
  BY <1>1, <1>3 DEF Good
<1> QED
  BY <1>2, <1>3

LEMMA WalkPageKeeps ==
  ASSUME IInv, WalkPage
  PROVE  IInv'
<1>1. /\ pc = "pages" /\ pc' = "pages" /\ todo # {}
      /\ UNCHANGED <<mem, dirty, sn, marked, cached, changed, level, queue, pending, last, synced, served>>
  BY DEF WalkPage
<1>2. TypeOK /\ dht = [n \in Dense |-> dht[n]] /\ sn = [n \in Nodes |-> sn[n]] /\ WalkInv
      /\ marked = {} /\ (SparseFresh \/ SparseAllGood) /\ (synced => AllTrue /\ CacheOk) /\ served = <<>>
  BY <1>1 DEF IInv
<1>3. PICK l : l = Foremost(todo)
  OBVIOUS
<1>4. l \in todo /\ l \in Leaves /\ l \in dirty /\ l \in Dense
  BY <1>1, <1>2, <1>3, ForemostOne, LeafFacts DEF TypeOK, WalkInv
<1>5. todo' = todo \ {l}
  BY <1>3 DEF WalkPage
<1>6. CASE l \in Pages
  <2>1. UNCHANGED dht /\ batch' = [m \in DOMAIN batch \cup {l} |-> IF m = l THEN "lent" ELSE batch[m]]
    BY <1>3, <1>6 DEF WalkPage
  <2>2. /\ DOMAIN batch' = DOMAIN batch \cup {l} /\ batch'[l] = "lent"
        /\ \A m \in DOMAIN batch : m # l => batch'[m] = batch[m]
    BY <2>1
  <2>3. l \notin DOMAIN batch
    BY <1>2, <1>4 DEF WalkInv
  <2>4. Unseen' = Unseen
    BY <1>4, <1>5, <2>2, <2>3 DEF Unseen, Lent
  <2>5. \A m : LeafOk(m)' = LeafOk(m) /\ CacheFits(m)' = CacheFits(m) /\ Good(m)' = Good(m)
    BY <1>1, <2>1 DEF LeafOk, LeafHash, CacheFits, Good
  <2>6. Sticky' = Sticky
    <3>1. l \in Unseen
      BY <1>4 DEF Unseen
    <3> QED
      BY <1>1, <2>2, <2>4, <2>5, <3>1 DEF Sticky
  <2>7. \A ar : Touched(ar)' = Touched(ar)
    BY <2>6 DEF Touched
  <2>8. WalkInv'
    <3>1. /\ todo' \subseteq dirty' /\ DOMAIN batch' \subseteq dirty' \cap Pages /\ todo' \cap DOMAIN batch' = {}
          /\ \A m \in DOMAIN batch' : batch'[m] \in {"lent", "changed", "same"}
      BY <1>1, <1>2, <1>4, <1>5, <1>6, <2>2, <2>3 DEF WalkInv
    <3>2. \A m \in Pages \ Unseen' : (LeafOk(m) /\ CacheFits(m))'
      BY <1>2, <2>4, <2>5 DEF WalkInv
    <3>3. \A m \in Leaves \ Pages : (LeafOk(m) \/ (m \in todo /\ Touched(m[1])))'
      BY <1>2, <1>5, <1>6, <2>5, <2>7 DEF WalkInv
    <3>4. \A n \in InnerDense : (Good(n) \/ (Under[n] \cap Sticky # {} /\ Touched(n[1])))'
      BY <1>2, <2>5, <2>6, <2>7 DEF WalkInv
    <3>5. \A m \in Sticky' \cap Pages : m \in todo' \cup DOMAIN batch' \/ m[1] \in changed'
      BY <1>1, <1>2, <1>5, <2>2, <2>6 DEF WalkInv
    <3> QED
      BY <3>1, <3>2, <3>3, <3>4, <3>5 DEF WalkInv
  <2>9. TypeOK'
    BY <1>1, <1>2, <1>5, <1>6, <2>1, <2>2 DEF TypeOK
  <2>10. (SparseFresh \/ SparseAllGood)' /\ (synced => AllTrue /\ CacheOk)'
    BY <1>1, <1>2, <2>1, KeepsSparse, KeepsTrue
  <2> QED
    BY <1>1, <1>2, <2>1, <2>8, <2>9, <2>10 DEF IInv
<1>7. CASE l \notin Pages
  <2>1. dht' = [dht EXCEPT ![l] = PristineHash[0]] /\ UNCHANGED batch
    BY <1>3, <1>7 DEF WalkPage
  <2>2. dht'[l] = PristineHash[0] /\ DOMAIN dht' = Dense /\ dht' = [n \in Dense |-> dht'[n]]
        /\ \A m \in Dense : m # l => dht'[m] = dht[m]
    BY <1>2, <1>4, <2>1
  <2>3. \A m \in Leaves : m # l => LeafOk(m)' = LeafOk(m)
    BY <1>1, <2>2, PageFacts DEF LeafOk, LeafHash
  <2>4. LeafOk(l)'
    BY <1>7, <2>2 DEF LeafOk, LeafHash
  <2>5. l \notin DOMAIN batch /\ Unseen' = Unseen \ {l}
    BY <1>2, <1>5, <1>7, <2>1 DEF Unseen, Lent, WalkInv
  <2>6. Sticky' = Sticky
    <3>1. \A m \in dirty : m \in Leaves
      BY <1>2 DEF TypeOK
    <3> QED
      BY <1>1, <1>7, <2>1, <2>3, <2>5, <3>1 DEF Sticky
  <2>7. \A ar : Touched(ar)' = Touched(ar)
    BY <2>6 DEF Touched
  <2>8. l \in Sticky
    BY <1>4, <1>7 DEF Sticky
  <2>9. WalkInv'
    <3>1. /\ todo' \subseteq dirty' /\ DOMAIN batch' \subseteq dirty' \cap Pages /\ todo' \cap DOMAIN batch' = {}
          /\ \A m \in DOMAIN batch' : batch'[m] \in {"lent", "changed", "same"}
      BY <1>1, <1>2, <1>5, <2>1 DEF WalkInv
    <3>2. \A m \in Pages \ Unseen' : (LeafOk(m) /\ CacheFits(m))'
      <4>1. \A m \in Pages : m # l /\ m \in Leaves /\ CacheFits(m)' = CacheFits(m)
        BY <1>1, <1>7, PageFacts DEF CacheFits
      <4> QED
        BY <1>2, <2>3, <2>5, <4>1 DEF WalkInv
    <3>3. \A m \in Leaves \ Pages : (LeafOk(m) \/ (m \in todo /\ Touched(m[1])))'
      BY <1>2, <1>5, <2>3, <2>4, <2>7 DEF WalkInv
    <3>4. ASSUME NEW n \in InnerDense PROVE (Good(n) \/ (Under[n] \cap Sticky # {} /\ Touched(n[1])))'
      <4>1. CASE Good(n)' = Good(n)
        BY <1>2, <2>6, <2>7, <4>1 DEF WalkInv
      <4>2. CASE Good(n)' # Good(n)
        <5>1. l \in Under[n] /\ l[1] = n[1]
          BY <1>2, <1>4, <2>1, <4>2, LeafChanged, UnderLeaves DEF InnerDense
        <5>2. ~LeafOk(l)
          <6>1. LeafOk(l) => dht' = dht
            BY <1>2, <1>7, <2>2 DEF LeafOk, LeafHash
          <6> QED
            BY <4>2, <6>1 DEF Good
        <5>3. Touched(l[1])
          BY <1>2, <1>4, <1>7, <5>2 DEF WalkInv
        <5> QED
          BY <2>6, <2>7, <2>8, <5>1, <5>3
      <4> QED
        BY <4>1, <4>2
    <3>5. \A m \in Sticky' \cap Pages : m \in todo' \cup DOMAIN batch' \/ m[1] \in changed'
      BY <1>1, <1>2, <1>5, <1>7, <2>1, <2>6 DEF WalkInv
    <3> QED
      BY <3>1, <3>2, <3>3, <3>4, <3>5 DEF WalkInv
  <2>10. TypeOK'
    BY <1>1, <1>2, <1>5, <2>1, <2>2 DEF TypeOK
  <2>11. (SparseFresh \/ SparseAllGood)'
    BY <1>1, <1>2, KeepsSparse
  <2>12. ASSUME synced PROVE AllTrue' /\ CacheOk'
    <3>1. dht' = dht
      BY <1>2, <1>4, <1>7, <2>2, <2>12 DEF AllTrue, LeavesOk, LeafOk, LeafHash
    <3> QED
      BY <1>1, <1>2, <2>12, <3>1, KeepsTrue
  <2> QED
    BY <1>1, <1>2, <2>2, <2>9, <2>10, <2>11, <2>12 DEF IInv
<1> QED
  BY <1>6, <1>7

LEMMA KeepsWalk ==
  ASSUME WalkInv, UNCHANGED <<mem, dht, dirty, cached, todo, batch, changed>>
  PROVE  WalkInv'
<1>1. \A m : LeafOk(m)' = LeafOk(m) /\ CacheFits(m)' = CacheFits(m) /\ Good(m)' = Good(m)
  BY DEF LeafOk, LeafHash, CacheFits, Good
<1>2. Unseen' = Unseen
  BY DEF Unseen, Lent
<1>3. Sticky' = Sticky
  BY <1>1, <1>2 DEF Sticky
<1>4. \A ar : Touched(ar)' = Touched(ar)
  BY <1>3 DEF Touched
<1> QED
  BY <1>1, <1>2, <1>3, <1>4 DEF WalkInv

LEMMA BatchFullKeeps ==
  ASSUME IInv, BatchFull
  PROVE  IInv'
<1>1. /\ pc = "pages" /\ pc' = "hash"
      /\ UNCHANGED <<mem, dht, dirty, sn, marked, cached, todo, batch, changed, level, queue, pending, last, synced, served>>
  BY DEF BatchFull, disk, loop
<1>2. TypeOK /\ dht = [n \in Dense |-> dht[n]] /\ sn = [n \in Nodes |-> sn[n]] /\ WalkInv
      /\ marked = {} /\ (SparseFresh \/ SparseAllGood) /\ (synced => AllTrue /\ CacheOk) /\ served = <<>>
  BY <1>1 DEF IInv
<1>3. TypeOK'
  BY <1>1, <1>2 DEF TypeOK
<1>4. WalkInv'
  BY <1>1, <1>2, KeepsWalk
<1>5. (SparseFresh \/ SparseAllGood)' /\ (synced => AllTrue /\ CacheOk)'
  BY <1>1, <1>2, KeepsSparse, KeepsTrue
<1> QED
  BY <1>1, <1>2, <1>3, <1>4, <1>5 DEF IInv

LEMMA HashPageKeeps ==
  ASSUME IInv, NEW l \in DOMAIN batch, HashPage(l)
  PROVE  IInv'
<1> DEFINE h == PageHash(mem[l])
<1>1. /\ pc = "hash" /\ pc' = "hash" /\ batch[l] = "lent"
      /\ cached' = [cached EXCEPT ![l] = mem[l]]
      /\ batch' = [batch EXCEPT ![l] = IF dht[l] # h THEN "changed" ELSE "same"]
      /\ dht' = [dht EXCEPT ![l] = h]
      /\ UNCHANGED <<mem, dirty, sn, marked, todo, changed, level, queue, pending, last, synced, served>>
  BY DEF HashPage
<1>2. TypeOK /\ dht = [n \in Dense |-> dht[n]] /\ sn = [n \in Nodes |-> sn[n]] /\ WalkInv
      /\ marked = {} /\ (SparseFresh \/ SparseAllGood) /\ (synced => AllTrue /\ CacheOk) /\ served = <<>>
  BY <1>1 DEF IInv
<1>3. l \in Pages /\ l \in Leaves /\ l \in Dense /\ l \in dirty /\ l \notin todo
  BY <1>2, PageFacts DEF WalkInv
<1>4. dht'[l] = h /\ DOMAIN dht' = Dense /\ dht' = [n \in Dense |-> dht'[n]] /\ \A m \in Dense : m # l => dht'[m] = dht[m]
  BY <1>1, <1>2, <1>3
<1>5. /\ DOMAIN batch' = DOMAIN batch /\ batch'[l] = (IF dht[l] # h THEN "changed" ELSE "same")
      /\ \A m \in DOMAIN batch : m # l => batch'[m] = batch[m]
  BY <1>1
<1>6. cached'[l] = mem[l] /\ \A m \in Pages : m # l => cached'[m] = cached[m]
  BY <1>1, <1>2, <1>3 DEF TypeOK
<1>7. LeafOk(l) <=> dht[l] = h
  BY <1>3 DEF LeafOk, LeafHash
<1>8. LeafOk(l)' /\ CacheFits(l)'
  BY <1>1, <1>3, <1>4, <1>6 DEF LeafOk, LeafHash, CacheFits
<1>9. /\ \A m \in Leaves : m # l => LeafOk(m)' = LeafOk(m)
      /\ \A m \in Pages : m # l => CacheFits(m)' = CacheFits(m)
  BY <1>1, <1>4, <1>6, PageFacts DEF LeafOk, LeafHash, CacheFits
<1> HIDE DEF h
<1>10. Unseen' = Unseen \ {l} /\ l \in Unseen
  BY <1>1, <1>3, <1>5 DEF Unseen, Lent
<1>11. Sticky' = Sticky
  <2>1. \A m \in dirty : m \in Leaves
    BY <1>2 DEF TypeOK
  <2>2. l \in Sticky <=> ~LeafOk(l)
    BY <1>3, <1>10 DEF Sticky
  <2>3. l \in Sticky' <=> ~LeafOk(l)
    BY <1>1, <1>3, <1>5, <1>7, <1>10 DEF Sticky
  <2>4. \A m : m # l => (m \in Sticky' <=> m \in Sticky)
    BY <1>1, <1>5, <1>9, <1>10, <2>1 DEF Sticky
  <2> QED
    BY <2>2, <2>3, <2>4
<1>12. \A ar : Touched(ar)' = Touched(ar)
  BY <1>11 DEF Touched
<1>13. WalkInv'
  <2>1. /\ todo' \subseteq dirty' /\ DOMAIN batch' \subseteq dirty' \cap Pages /\ todo' \cap DOMAIN batch' = {}
        /\ \A m \in DOMAIN batch' : batch'[m] \in {"lent", "changed", "same"}
    BY <1>1, <1>2, <1>5 DEF WalkInv
  <2>2. \A m \in Pages \ Unseen' : (LeafOk(m) /\ CacheFits(m))'
    BY <1>2, <1>8, <1>9, <1>10, PageFacts DEF WalkInv
  <2>3. \A m \in Leaves \ Pages : (LeafOk(m) \/ (m \in todo /\ Touched(m[1])))'
    BY <1>1, <1>2, <1>3, <1>9, <1>12 DEF WalkInv
  <2>4. ASSUME NEW n \in InnerDense PROVE (Good(n) \/ (Under[n] \cap Sticky # {} /\ Touched(n[1])))'
    <3>1. CASE Good(n)' = Good(n)
      BY <1>2, <1>11, <1>12, <3>1 DEF WalkInv
    <3>2. CASE Good(n)' # Good(n)
      <4>1. l \in Under[n] /\ l[1] = n[1]
        BY <1>1, <1>2, <1>3, <3>2, LeafChanged, UnderLeaves DEF InnerDense
      <4>2. ~LeafOk(l)
        <5>1. LeafOk(l) => dht' = dht
          BY <1>2, <1>4, <1>7
        <5> QED
          BY <3>2, <5>1 DEF Good
      <4>3. l \in Sticky
        BY <1>3, <1>10, <4>2 DEF Sticky
      <4> QED
        BY <1>3, <1>11, <1>12, <4>1, <4>3 DEF Touched
    <3> QED
      BY <3>1, <3>2
  <2>5. \A m \in Sticky' \cap Pages : m \in todo' \cup DOMAIN batch' \/ m[1] \in changed'
    BY <1>1, <1>2, <1>5, <1>11 DEF WalkInv
  <2> QED
    BY <2>1, <2>2, <2>3, <2>4, <2>5 DEF WalkInv
<1>14. TypeOK'
  <2>1. cached' \in [Pages -> Contents \cup {NoCopy}]
    BY <1>1, <1>2, <1>3 DEF TypeOK
  <2> QED
    BY <1>1, <1>2, <1>4, <1>5, <2>1 DEF TypeOK
<1>15. (SparseFresh \/ SparseAllGood)'
  BY <1>1, <1>2, KeepsSparse
<1>16. ASSUME synced PROVE AllTrue' /\ CacheOk'
  <2>1. dht' = dht
    BY <1>2, <1>3, <1>4, <1>7, <1>16 DEF AllTrue, LeavesOk
  <2>2. AllTrue'
    BY <1>1, <1>2, <1>16, <2>1 DEF AllTrue, LeavesOk, LeafOk, LeafHash, DenseGood, Good, SparseAllGood, SparseGood, HashOf,
                                   RangesJoined, Root
  <2>3. CacheOk'
    BY <1>2, <1>8, <1>9, <1>16 DEF CacheOk
  <2> QED
    BY <2>2, <2>3
<1> QED
  BY <1>1, <1>2, <1>4, <1>13, <1>14, <1>15, <1>16 DEF IInv

LEMMA ReturnPageKeeps ==
  ASSUME IInv, ReturnPage
  PROVE  IInv'
<1>1. /\ pc \in {"hash", "return"} /\ pc' = "return" /\ DOMAIN batch # {} /\ \A m \in DOMAIN batch : batch[m] # "lent"
      /\ UNCHANGED <<mem, dht, sn, marked, cached, todo, level, queue, pending, last, synced, served>>
  BY DEF ReturnPage
<1>2. TypeOK /\ dht = [n \in Dense |-> dht[n]] /\ sn = [n \in Nodes |-> sn[n]] /\ WalkInv
      /\ marked = {} /\ (SparseFresh \/ SparseAllGood) /\ (synced => AllTrue /\ CacheOk) /\ served = <<>>
  BY <1>1 DEF IInv
<1>3. PICK l : l = Foremost(DOMAIN batch)
  OBVIOUS
<1>4. l \in DOMAIN batch
  <2>1. DOMAIN batch \subseteq Leaves
    BY <1>2, PageFacts DEF TypeOK
  <2> QED
    BY <1>1, <1>3, <2>1, ForemostOne
<1>5. l \in Pages /\ l \in Leaves /\ l[1] \in Ranges /\ l \notin todo /\ l \in dirty /\ batch[l] \in {"changed", "same"}
  BY <1>1, <1>2, <1>4, LeafFacts, PageFacts DEF WalkInv
<1>6. Settled(l) /\ batch' = [m \in DOMAIN batch \ {l} |-> batch[m]]
  BY <1>3 DEF ReturnPage
<1>7. DOMAIN batch' = DOMAIN batch \ {l} /\ \A m \in DOMAIN batch' : batch'[m] = batch[m]
  BY <1>6
<1>8. /\ batch[l] = "changed" => changed' = changed \cup {l[1]} /\ dirty' = dirty
      /\ batch[l] = "same" => changed' = changed /\ dirty' = dirty \ {l}
  BY <1>6 DEF Settled
<1>9. Unseen' = todo /\ Unseen = todo
  BY <1>1, <1>7 DEF Unseen, Lent
<1>10. \A m : LeafOk(m)' = LeafOk(m) /\ CacheFits(m)' = CacheFits(m) /\ Good(m)' = Good(m)
  BY <1>1 DEF LeafOk, LeafHash, CacheFits, Good
<1>11. Sticky' = Sticky
  <2>1. l \in Sticky <=> batch[l] = "changed"
    BY <1>4, <1>5, <1>9 DEF Sticky
  <2>2. l \in Sticky' <=> batch[l] = "changed"
    BY <1>1, <1>5, <1>7, <1>8, <1>9 DEF Sticky
  <2>3. \A m : m # l => (m \in dirty' <=> m \in dirty)
    BY <1>5, <1>8
  <2>4. \A m : m # l => (m \in Sticky' <=> m \in Sticky)
    BY <1>7, <1>9, <1>10, <2>3 DEF Sticky
  <2> QED
    BY <2>1, <2>2, <2>4
<1>12. \A ar : Touched(ar)' = Touched(ar)
  BY <1>11 DEF Touched
<1>13. WalkInv'
  <2>1. /\ todo' \subseteq dirty' /\ DOMAIN batch' \subseteq dirty' \cap Pages /\ todo' \cap DOMAIN batch' = {}
        /\ \A m \in DOMAIN batch' : batch'[m] \in {"lent", "changed", "same"}
    BY <1>1, <1>2, <1>5, <1>7, <1>8 DEF WalkInv
  <2>2. \A m \in Pages \ Unseen' : (LeafOk(m) /\ CacheFits(m))'
    BY <1>2, <1>9, <1>10 DEF WalkInv
  <2>3. \A m \in Leaves \ Pages : (LeafOk(m) \/ (m \in todo /\ Touched(m[1])))'
    BY <1>1, <1>2, <1>10, <1>12 DEF WalkInv
  <2>4. \A n \in InnerDense : (Good(n) \/ (Under[n] \cap Sticky # {} /\ Touched(n[1])))'
    BY <1>2, <1>10, <1>11, <1>12 DEF WalkInv
  <2>5. \A m \in Sticky' \cap Pages : m \in todo' \cup DOMAIN batch' \/ m[1] \in changed'
    <3>1. l \in Sticky => l[1] \in changed'
      BY <1>4, <1>5, <1>8, <1>9 DEF Sticky
    <3>2. changed \subseteq changed'
      BY <1>5, <1>8
    <3> QED
      BY <1>1, <1>2, <1>7, <1>11, <3>1, <3>2 DEF WalkInv
  <2> QED
    BY <2>1, <2>2, <2>3, <2>4, <2>5 DEF WalkInv
<1>14. TypeOK'
  <2>1. dirty' \subseteq Leaves /\ changed' \subseteq Ranges
    BY <1>2, <1>5, <1>8 DEF TypeOK
  <2> QED
    BY <1>1, <1>2, <1>7, <2>1 DEF TypeOK
<1>15. (SparseFresh \/ SparseAllGood)' /\ (synced => AllTrue /\ CacheOk)'
  BY <1>1, <1>2, KeepsSparse, KeepsTrue
<1> QED
  BY <1>1, <1>2, <1>13, <1>14, <1>15 DEF IInv

LEMMA EndBatchKeeps ==
  ASSUME IInv, EndBatch
  PROVE  IInv'
<1>1. /\ pc \in {"hash", "return"} /\ DOMAIN batch = {} /\ todo' = todo
      /\ UNCHANGED <<mem, dht, dirty, sn, marked, cached, batch, changed, queue, pending, last, synced, served>>
      /\ (todo # {} /\ pc' = "pages") \/ (todo = {} /\ pc' = "dense" /\ level' = 1)
  BY DEF EndBatch, Resumed, disk
<1>2. TypeOK /\ dht = [n \in Dense |-> dht[n]] /\ sn = [n \in Nodes |-> sn[n]] /\ WalkInv
      /\ marked = {} /\ (SparseFresh \/ SparseAllGood) /\ (synced => AllTrue /\ CacheOk) /\ served = <<>>
  BY <1>1 DEF IInv
<1>3. TypeOK'
  BY <1>1, <1>2 DEF TypeOK
<1>4. WalkInv'
  BY <1>1, <1>2, KeepsWalk
<1>5. ASSUME pc' = "dense" PROVE DenseInv'
  <2>1. todo = {} /\ level' = 1 /\ DOMAIN batch' = {}
    BY <1>1, <1>5
  <2>2. Unseen = {}
    BY <1>1, <2>1 DEF Unseen, Lent
  <2>3. LeavesOk' /\ CacheOk'
    <3>1. LeavesOk /\ CacheOk
      BY <1>2, <2>1, <2>2 DEF WalkInv, LeavesOk, CacheOk
    <3> QED
      BY <1>1, <3>1 DEF LeavesOk, LeafOk, LeafHash, CacheOk, CacheFits
  <2>4. ASSUME NEW n \in InnerDense PROVE (Good(n) \/ (DirtyNode(n) /\ n[1] \in changed /\ n[2] >= level))'
    <3>1. n[2] \in Nat \ {0}
      BY ChildFacts
    <3>2. Touched(n[1]) => n[1] \in changed
      BY <1>1, <1>2, <2>1 DEF Touched, WalkInv
    <3>3. Under[n] \cap Sticky # {} => Under[n] \cap dirty # {}
      BY DEF Sticky
    <3> QED
      BY <1>1, <1>2, <2>1, <3>1, <3>2, <3>3 DEF WalkInv, Good, DirtyNode
  <2> QED
    BY <2>1, <2>3, <2>4 DEF DenseInv
<1>6. (SparseFresh \/ SparseAllGood)' /\ (synced => AllTrue /\ CacheOk)'
  BY <1>1, <1>2, KeepsSparse, KeepsTrue
<1> QED
  BY <1>1, <1>2, <1>3, <1>4, <1>5, <1>6 DEF IInv

-----------------------------------------------------------------------------
(* update_dense_trees *)

LEMMA DenseLevelKeeps ==
  ASSUME IInv, DenseLevel
  PROVE  IInv'
<1>1. /\ pc = "dense"
      /\ UNCHANGED <<mem, dirty, sn, marked, cached, todo, batch, changed, queue, pending, last, synced, served>>
  BY DEF DenseLevel
<1>2. TypeOK /\ dht = [n \in Dense |-> dht[n]] /\ sn = [n \in Nodes |-> sn[n]] /\ DenseInv
      /\ marked = {} /\ (SparseFresh \/ SparseAllGood) /\ (synced => AllTrue /\ CacheOk) /\ served = <<>>
  BY <1>1 DEF IInv
<1>3. DOMAIN batch' = {} /\ CacheOk' /\ level \in Nat \ {0}
  BY <1>1, <1>2 DEF DenseInv, CacheOk, CacheFits
<1>4. (SparseFresh \/ SparseAllGood)'
  BY <1>1, <1>2, KeepsSparse
<1>5. CASE \E ar \in changed : level < LevelCount[ar]
  <2>1. /\ dht' = [n \in Dense |-> IF n \in Rehash(level) THEN ConcatHash(dht[Left(n)], dht[Right(n)]) ELSE dht[n]]
        /\ level' = level + 1 /\ pc' = "dense"
    BY <1>1, <1>5 DEF DenseLevel
  <2>2. /\ DOMAIN dht' = Dense /\ dht' = [n \in Dense |-> dht'[n]]
        /\ \A n \in Dense : n \in Rehash(level) => dht'[n] = ConcatHash(dht[Left(n)], dht[Right(n)])
        /\ \A n \in Dense : n \notin Rehash(level) => dht'[n] = dht[n]
    BY <2>1
  <2>3. \A n \in Rehash(level) : n \in Dense /\ n[1] \in changed /\ n[2] = level /\ DirtyNode(n) /\ n \in InnerDense
    BY <1>3, LeafLevel DEF Rehash, InnerDense
  <2>4. LeavesOk'
    <3>1. \A l \in Leaves : l \in Dense /\ l \notin Rehash(level)
      BY <2>3, LeafFacts DEF InnerDense
    <3> QED
      BY <1>1, <1>2, <2>2, <3>1 DEF DenseInv, LeavesOk, LeafOk, LeafHash
  <2>5. ASSUME NEW n \in InnerDense
        PROVE  (Good(n) \/ (DirtyNode(n) /\ n[1] \in changed /\ n[2] >= level))'
    <3>1. /\ n \in Dense /\ n[2] \in Nat \ {0} /\ Left(n) \in Dense /\ Right(n) \in Dense
          /\ Left(n)[1] = n[1] /\ Right(n)[1] = n[1] /\ Left(n)[2] = n[2] - 1 /\ Right(n)[2] = n[2] - 1
      BY ChildFacts
    <3>2. DirtyNode(n)' = DirtyNode(n) /\ changed' = changed
      BY <1>1 DEF DirtyNode
    <3>3. Good(n) \/ (DirtyNode(n) /\ n[1] \in changed /\ n[2] >= level)
      BY <1>2 DEF DenseInv
    <3>4. CASE n[2] = level
      <4>1. Left(n) \notin Rehash(level) /\ Right(n) \notin Rehash(level)
        BY <2>3, <3>1, <3>4
      <4>2. dht'[Left(n)] = dht[Left(n)] /\ dht'[Right(n)] = dht[Right(n)]
        BY <2>2, <3>1, <4>1
      <4>3. CASE n \in Rehash(level)
        BY <2>2, <3>1, <4>2, <4>3 DEF Good
      <4>4. CASE n \notin Rehash(level)
        BY <2>2, <3>1, <3>3, <3>4, <4>2, <4>4 DEF Good, Rehash
      <4> QED
        BY <4>3, <4>4
    <3>5. CASE n[2] < level
      <4>1. Left(n) \notin Rehash(level) /\ Right(n) \notin Rehash(level) /\ n \notin Rehash(level)
        BY <1>3, <2>3, <3>1, <3>5
      <4>2. Good(n)
        BY <1>3, <3>1, <3>3, <3>5
      <4> QED
        BY <2>2, <3>1, <4>1, <4>2 DEF Good
    <3>6. CASE n[2] > level
      <4>1. n \notin Rehash(level) /\ n[2] >= level + 1
        BY <1>3, <2>3, <3>1, <3>6
      <4>2. CASE Left(n) \in Rehash(level) \/ Right(n) \in Rehash(level)
        <5>1. DirtyNode(n) /\ n[1] \in changed
          BY <2>3, <3>1, <4>2, UnderChildren DEF DirtyNode
        <5> QED
          BY <2>1, <3>2, <4>1, <5>1
      <4>3. CASE ~(Left(n) \in Rehash(level) \/ Right(n) \in Rehash(level))
        <5>1. Good(n)' = Good(n)
          BY <2>2, <3>1, <4>1, <4>3 DEF Good
        <5> QED
          BY <2>1, <3>2, <3>3, <4>1, <5>1
      <4> QED
        BY <4>2, <4>3
    <3> QED
      BY <1>3, <3>1, <3>4, <3>5, <3>6
  <2>6. DenseInv'
    BY <1>3, <2>1, <2>4, <2>5 DEF DenseInv
  <2>7. ASSUME synced PROVE AllTrue' /\ CacheOk'
    <3>1. \A n \in Dense : dht'[n] = dht[n]
      BY <1>2, <2>2, <2>3, <2>7 DEF AllTrue, DenseGood, Good
    <3>2. dht' = dht
      BY <1>2, <2>2, <3>1
    <3> QED
      BY <1>1, <1>2, <2>7, <3>2, KeepsTrue
  <2>8. TypeOK'
    BY <1>1, <1>2, <2>2 DEF TypeOK
  <2> QED
    BY <1>1, <1>2, <1>4, <2>1, <2>2, <2>6, <2>7, <2>8 DEF IInv
<1>6. CASE ~\E ar \in changed : level < LevelCount[ar]
  <2>1. pc' = "sync" /\ level' = 0 /\ dht' = dht
    BY <1>1, <1>6 DEF DenseLevel
  <2>2. DenseGood
    <3> SUFFICES ASSUME NEW n \in InnerDense, ~Good(n) PROVE FALSE
      BY DEF DenseGood
    <3>1. n[1] \in changed /\ n[2] >= level
      BY <1>2 DEF DenseInv
    <3>2. n[2] \in 0 .. LevelCount[n[1]] - 1 /\ LevelCount[n[1]] \in Nat
      BY NodeFacts, RangeFacts DEF InnerDense
    <3> QED
      BY <1>3, <1>6, <3>1, <3>2
  <2>3. DoneInv'
    BY <1>1, <1>2, <1>3, <2>1, <2>2 DEF DoneInv, DenseInv, DenseGood, Good, LeavesOk, LeafOk, LeafHash
  <2>4. TypeOK' /\ (synced => AllTrue /\ CacheOk)'
    BY <1>1, <1>2, <2>1, KeepsTrue DEF TypeOK
  <2> QED
    BY <1>1, <1>2, <1>4, <2>1, <2>3, <2>4 DEF IInv
<1> QED
  BY <1>5, <1>6

-----------------------------------------------------------------------------
(* update_sparse_tree *)

LEMMA RootNotZero ==
  ASSUME LeavesOk, DenseGood, NEW ar \in Ranges
  PROVE  Root(ar) # ZeroHash
<1> DEFINE r == <<ar, LevelCount[ar] - 1, 0>>
<1>1. r \in Dense
  BY RootFacts
<1>2. CASE r \in Leaves
  <2>1. LevelCount[ar] - 1 = 0
    BY <1>2, LeafFacts
  <2>2. r \in Pages
    BY <2>1, PageFacts
  <2> QED
    BY <1>2, <2>2, NotZero DEF Root, LeavesOk, LeafOk, LeafHash
<1>3. CASE r \notin Leaves
  BY <1>1, <1>3, NotZero DEF Root, DenseGood, Good, InnerDense
<1> QED
  BY <1>2, <1>3

\* A sparse node depends on its children only.
LEMMA SameChildren ==
  ASSUME NEW n \in InnerNodes, sn'[n] = sn[n], \A c \in Children(n) : sn'[c] = sn[c]
  PROVE  SparseGood(n)' = SparseGood(n)
<1>1. ASSUME NEW c \in {Sparse[n].left, Sparse[n].right}, NEW k PROVE HashOf(c, k)' = HashOf(c, k)
  BY DEF HashOf, Children
<1>2. /\ HashOf(Sparse[n].left, Sparse[n].level - 1)' = HashOf(Sparse[n].left, Sparse[n].level - 1)
      /\ HashOf(Sparse[n].right, Sparse[n].level - 1)' = HashOf(Sparse[n].right, Sparse[n].level - 1)
  BY <1>1
<1> QED
  BY <1>2 DEF SparseGood

LEMMA ChildrenFacts ==
  ASSUME NEW n \in InnerNodes
  PROVE  /\ Children(n) # {} /\ n \in Nodes
         /\ \A c \in Children(n) : c \in Nodes /\ Sparse[c].parent = n /\ Sparse[c].level = Sparse[n].level - 1
BY SparseFacts DEF Children

LEMMA SyncRangesKeeps ==
  ASSUME IInv, SyncRanges
  PROVE  IInv'
<1>1. /\ pc = "sync" /\ pc' = "sparse" /\ pending' = {}
      /\ UNCHANGED <<mem, dht, dirty, cached, todo, batch, changed, level, synced, served>>
  BY DEF SyncRanges
<1>2. TypeOK /\ dht = [n \in Dense |-> dht[n]] /\ sn = [n \in Nodes |-> sn[n]] /\ DoneInv
      /\ marked = {} /\ (SparseFresh \/ SparseAllGood) /\ (synced => AllTrue /\ CacheOk) /\ served = <<>>
  BY <1>1 DEF IInv
<1> DEFINE up == Parents({RangeNode(ar) : ar \in Unsynced})
<1>3. /\ marked' = up /\ queue' = up
      /\ sn' = [n \in Nodes |-> IF \E ar \in Unsynced : n = RangeNode(ar) THEN Root(n - 1) ELSE sn[n]]
  BY <1>2 DEF SyncRanges
<1>4. Unsynced \subseteq Ranges
  BY <1>2 DEF Unsynced, TypeOK
<1>5. up \subseteq InnerNodes
  <2>1. \A ar \in Unsynced : RangeNode(ar) \in Nodes
    BY <1>4, RangeFacts
  <2>2. \A ar \in Unsynced : Sparse[RangeNode(ar)].parent \in InnerNodes \cup {0}
    BY <2>1, SparseFacts
  <2> QED
    BY <2>2 DEF Parents
<1>6. ASSUME NEW ar \in Unsynced, Sparse[RangeNode(ar)].parent # 0 PROVE Sparse[RangeNode(ar)].parent \in up
  BY <1>6 DEF Parents
<1> HIDE DEF up
<1>7. \A n \in InnerNodes : sn'[n] = sn[n]
  BY <1>3, <1>4, SparseFacts DEF InnerNodes
<1>8. \A ar \in Ranges : sn'[RangeNode(ar)] = Root(ar)
  <2> SUFFICES ASSUME NEW ar \in Ranges PROVE sn'[RangeNode(ar)] = Root(ar)
    OBVIOUS
  <2>1. RangeNode(ar) - 1 = ar /\ RangeNode(ar) \in Nodes
    BY RangeFacts DEF RangeNode
  <2>2. CASE ar \in Unsynced
    BY <1>3, <2>1, <2>2
  <2>3. CASE ar \notin Unsynced
    <3>1. sn[RangeNode(ar)] = Root(ar)
      BY <2>3 DEF Unsynced
    <3>2. ~\E b \in Unsynced : RangeNode(ar) = RangeNode(b)
      BY <1>4, <2>3, RangeFacts DEF RangeNode
    <3> QED
      BY <1>3, <2>1, <3>1, <3>2
  <2> QED
    BY <2>2, <2>3
<1>9. ASSUME NEW n \in InnerNodes
      PROVE  \/ SparseGood(n)' \/ n \in Waiting'
             \/ \E c \in Children(n) \cap InnerNodes : ~SparseGood(c)' \/ c \in Waiting'
  <2>1. CASE SparseAllGood
    <3>1. CASE \A c \in Children(n) : sn'[c] = sn[c]
      BY <1>7, <2>1, <3>1, SameChildren DEF SparseAllGood
    <3>2. ASSUME NEW c \in Children(n), sn'[c] # sn[c] PROVE n \in Waiting'
      <4>1. c \in Nodes /\ Sparse[c].parent = n /\ n # 0
        BY ChildrenFacts, SparseFacts
      <4>2. PICK ar \in Unsynced : c = RangeNode(ar)
        BY <1>3, <3>2, <4>1
      <4> QED
        BY <1>3, <1>6, <4>1, <4>2 DEF Waiting
    <3> QED
      BY <3>1, <3>2
  <2>2. CASE SparseFresh
    <3>1. PICK c \in Children(n) : c \in Nodes /\ Sparse[c].parent = n /\ n # 0
      BY ChildrenFacts, SparseFacts
    <3>2. CASE c \in InnerNodes
      <4>1. sn'[c] = ZeroHash
        BY <1>7, <2>2, <3>1, <3>2 DEF SparseFresh
      <4>2. ~SparseGood(c)'
        BY <4>1, NotZero DEF SparseGood
      <4> QED
        BY <3>1, <3>2, <4>2
    <3>3. CASE c \notin InnerNodes
      <4>1. PICK ar \in Ranges : c = RangeNode(ar)
        BY <3>1, <3>3 DEF InnerNodes
      <4>2. ar \in Unsynced
        BY <1>2, <2>2, <3>1, <4>1, RootNotZero DEF SparseFresh, Unsynced, DoneInv
      <4> QED
        BY <1>3, <1>6, <3>1, <4>1, <4>2 DEF Waiting
    <3> QED
      BY <3>2, <3>3
  <2> QED
    BY <1>2, <2>1, <2>2
<1>10. QueueInv'
  <2>1. RangesJoined'
    BY <1>1, <1>8 DEF RangesJoined, Root
  <2>2. marked' = queue' /\ \A n \in pending' : Sparse[n].level = last' /\ Sparse[n].parent \in queue' \cup {0}
    BY <1>1, <1>3
  <2> QED
    BY <1>9, <2>1, <2>2 DEF QueueInv
<1>11. TypeOK' /\ sn' = [n \in Nodes |-> sn'[n]]
  BY <1>1, <1>2, <1>3, <1>5 DEF TypeOK
<1>12. DoneInv'
  BY <1>1, <1>2 DEF DoneInv, LeavesOk, LeafOk, LeafHash, CacheOk, CacheFits, DenseGood, Good
<1>13. ASSUME synced PROVE AllTrue' /\ CacheOk'
  <2>1. \A n \in Nodes : sn'[n] = sn[n]
    <3>1. \A n \in Nodes : n \in InnerNodes \/ \E ar \in Ranges : n = RangeNode(ar)
      BY DEF InnerNodes
    <3> QED
      BY <1>2, <1>7, <1>8, <1>13, <3>1 DEF AllTrue, RangesJoined
  <2>2. sn' = sn
    BY <1>2, <1>11, <2>1
  <2> QED
    BY <1>1, <1>2, <1>13, <2>2, KeepsTrue
<1> QED
  BY <1>1, <1>2, <1>10, <1>11, <1>12, <1>13 DEF IInv

LEMMA TopOne ==
  ASSUME queue \subseteq InnerNodes, queue # {}
  PROVE  Top \in queue
<1> DEFINE A == {Sparse[n].level : n \in queue}
<1>1. A \subseteq Nat /\ A # {}
  <2>1. \A n \in queue : Sparse[n].level \in Nat
    BY SparseFacts
  <2> QED
    BY <2>1
<1>2. PICK a \in A : \A b \in A : a <= b
  BY <1>1, LeastNat
<1> DEFINE B == {n \in queue : Sparse[n].level = a}
<1>3. B \subseteq Nat /\ B # {}
  BY <1>2, SparseFacts
<1>4. PICK n \in B : \A m \in B : n <= m
  BY <1>3, LeastNat
<1>5. ASSUME NEW m \in queue
      PROVE  Sparse[n].level < Sparse[m].level \/ (Sparse[n].level = Sparse[m].level /\ n <= m)
  <2>1. Sparse[n].level = a /\ a <= Sparse[m].level /\ a \in Nat /\ Sparse[m].level \in Nat
    BY <1>1, <1>2, <1>4
  <2>2. Sparse[m].level = a => n <= m
    BY <1>4
  <2> QED
    BY <2>1, <2>2
<1>6. n \in queue
  BY <1>4
<1> QED
  BY <1>5, <1>6 DEF Top

\* What a flush of the nodes that wait to be hashed does: they are hashed, and
\* the nodes that then are out of date are their parents, which are queued.
LEMMA FlushFacts ==
  ASSUME pending \subseteq InnerNodes, queue \subseteq InnerNodes, sn = [n \in Nodes |-> sn[n]], QueueInv,
         sn' = Flushed(pending)
  PROVE  /\ sn' = [n \in Nodes |-> sn'[n]] /\ DOMAIN sn' = Nodes
         /\ \A n \in pending : SparseGood(n)'
         /\ \A n \in InnerNodes : n \in queue \/ n \in pending \/ SparseGood(n)' = SparseGood(n)
         /\ \A ar \in Ranges : sn'[RangeNode(ar)] = sn[RangeNode(ar)]
         /\ SparseAllGood => sn' = sn
<1>1. /\ sn' = [n \in Nodes |-> sn'[n]] /\ DOMAIN sn' = Nodes
      /\ \A n \in Nodes : n \notin pending => sn'[n] = sn[n]
      /\ \A n \in pending : sn'[n] = ConcatHash(HashOf(Sparse[n].left, Sparse[n].level - 1),
                                               HashOf(Sparse[n].right, Sparse[n].level - 1))
  BY SparseFacts DEF Flushed
<1>2. ASSUME NEW n \in pending, NEW c \in Children(n) PROVE c \notin pending /\ c \in Nodes /\ sn'[c] = sn[c]
  <2>1. n \in InnerNodes /\ c \in Nodes /\ Sparse[c].level = Sparse[n].level - 1 /\ Sparse[n].level \in Nat
    BY <1>2, ChildrenFacts, SparseFacts
  <2>2. c \notin pending
    BY <1>2, <2>1 DEF QueueInv
  <2> QED
    BY <1>1, <2>1, <2>2
<1>3. ASSUME NEW n \in pending PROVE SparseGood(n)'
  <2>1. ASSUME NEW c \in {Sparse[n].left, Sparse[n].right}, NEW k PROVE HashOf(c, k)' = HashOf(c, k)
    BY <1>2 DEF HashOf, Children
  <2>2. /\ HashOf(Sparse[n].left, Sparse[n].level - 1)' = HashOf(Sparse[n].left, Sparse[n].level - 1)
        /\ HashOf(Sparse[n].right, Sparse[n].level - 1)' = HashOf(Sparse[n].right, Sparse[n].level - 1)
    BY <2>1
  <2> QED
    BY <1>1, <2>2 DEF SparseGood
<1>4. ASSUME NEW n \in InnerNodes, n \notin queue, n \notin pending PROVE SparseGood(n)' = SparseGood(n)
  <2>1. ASSUME NEW c \in Children(n) PROVE sn'[c] = sn[c]
    <3>1. c \in Nodes /\ Sparse[c].parent = n /\ n # 0
      BY ChildrenFacts, SparseFacts
    <3>2. c \notin pending
      BY <1>4, <3>1 DEF QueueInv
    <3> QED
      BY <1>1, <3>1, <3>2
  <2>2. sn'[n] = sn[n]
    BY <1>1, <1>4, SparseFacts
  <2> QED
    BY <2>1, <2>2, SameChildren
<1>5. \A ar \in Ranges : sn'[RangeNode(ar)] = sn[RangeNode(ar)]
  BY <1>1, RangeFacts
<1>6. ASSUME SparseAllGood PROVE sn' = sn
  <2>1. \A n \in Nodes : sn'[n] = sn[n]
    BY <1>1, <1>6 DEF SparseAllGood, SparseGood
  <2> QED
    BY <1>1, <2>1
<1> QED
  BY <1>1, <1>3, <1>4, <1>5, <1>6

LEMMA PopNodeKeeps ==
  ASSUME IInv, PopNode
  PROVE  IInv'
<1>1. /\ pc = "sparse" /\ pc' = "sparse" /\ queue # {}
      /\ UNCHANGED <<mem, dht, dirty, cached, todo, batch, changed, level, synced, served>>
  BY DEF PopNode
<1>2. TypeOK /\ dht = [n \in Dense |-> dht[n]] /\ sn = [n \in Nodes |-> sn[n]] /\ DoneInv
      /\ QueueInv /\ (synced => AllTrue /\ CacheOk) /\ served = <<>>
  BY <1>1 DEF IInv
<1>3. queue \subseteq InnerNodes /\ pending \subseteq InnerNodes /\ marked = queue
  BY <1>2 DEF TypeOK, QueueInv
<1>4. PICK n \in queue : n = Top
  BY <1>1, <1>3, TopOne
<1>5. n \in InnerNodes /\ n \in Nodes
  BY <1>3, SparseFacts
<1> DEFINE up == Parents({n}) \ (queue \ {n})
<1>6. /\ marked' = (queue \ {n}) \cup up /\ queue' = (queue \ {n}) \cup up
      /\ sn' = (IF Crossing(n) THEN Flushed(pending) ELSE sn)
      /\ pending' = (IF Crossing(n) THEN {n} ELSE pending \cup {n})
      /\ last' = Sparse[n].level
  BY <1>3, <1>4 DEF PopNode
<1>7. up \subseteq InnerNodes /\ Sparse[n].parent \in (queue \ {n}) \cup up \cup {0}
  BY <1>5, SparseFacts DEF Parents
<1> HIDE DEF up
<1>8. TypeOK'
  <2>1. queue' \subseteq InnerNodes /\ pending' \subseteq InnerNodes
    BY <1>3, <1>5, <1>6, <1>7
  <2>2. DOMAIN sn' = Nodes
    BY <1>2, <1>3, <1>6, FlushFacts DEF TypeOK
  <2> QED
    BY <1>1, <1>2, <1>6, <2>1, <2>2 DEF TypeOK
<1>9. /\ queue \cup {n} \subseteq Waiting' /\ queue \ {n} \subseteq queue'
  BY <1>6 DEF Waiting
<1>10. ASSUME NEW m \in pending' PROVE Sparse[m].level = last' /\ Sparse[m].parent \in queue' \cup {0}
  <2>1. CASE m = n
    BY <1>6, <1>7, <2>1
  <2>2. CASE m # n
    <3>1. m \in pending /\ last = Sparse[n].level /\ m \in Nodes
      BY <1>3, <1>6, <1>10, <2>2, SparseFacts DEF Crossing
    <3>2. Sparse[m].level = Sparse[n].level /\ Sparse[m].parent \in queue \cup {0} /\ Sparse[m].level \in Nat
      BY <1>2, <3>1, SparseFacts DEF QueueInv
    <3>3. Sparse[m].parent # n
      <4>1. n # 0
        BY <1>5, SparseFacts
      <4> QED
        BY <3>1, <3>2, <4>1, ParentFacts
    <3> QED
      BY <1>6, <1>9, <3>2, <3>3
  <2> QED
    BY <2>1, <2>2
<1>11. ASSUME NEW m \in InnerNodes
       PROVE  \/ SparseGood(m)' \/ m \in Waiting'
              \/ \E c \in Children(m) \cap InnerNodes : ~SparseGood(c)' \/ c \in Waiting'
  <2>1. \/ SparseGood(m) \/ m \in Waiting
        \/ \E c \in Children(m) \cap InnerNodes : ~SparseGood(c) \/ c \in Waiting
    BY <1>2 DEF QueueInv
  <2>2. CASE Crossing(n)
    <3>1. sn' = Flushed(pending)
      BY <1>6, <2>2
    <3>2. /\ \A x \in pending : SparseGood(x)'
          /\ \A x \in InnerNodes : x \in queue \/ x \in pending \/ SparseGood(x)' = SparseGood(x)
      BY <1>2, <1>3, <3>1, FlushFacts
    <3>3. ASSUME NEW c \in Children(m) \cap InnerNodes, c \in pending PROVE m \in queue
      <4>1. Sparse[c].parent = m /\ m # 0
        BY ChildrenFacts, SparseFacts
      <4> QED
        BY <1>2, <3>3, <4>1 DEF QueueInv
    <3>4. CASE m \in queue \/ m \in pending
      BY <1>9, <3>2, <3>4
    <3>5. CASE m \notin queue /\ m \notin pending /\ SparseGood(m)
      BY <3>2, <3>5
    <3>6. ASSUME m \notin queue, m \notin pending, NEW c \in Children(m) \cap InnerNodes, ~SparseGood(c) \/ c \in Waiting
          PROVE  ~SparseGood(c)' \/ c \in Waiting'
      <4>1. c \notin pending
        BY <3>3, <3>6
      <4>2. CASE c \in queue
        BY <1>9, <4>2
      <4>3. CASE c \notin queue
        BY <3>2, <3>6, <4>1, <4>3 DEF Waiting
      <4> QED
        BY <4>2, <4>3
    <3> QED
      BY <2>1, <3>4, <3>5, <3>6 DEF Waiting
  <2>3. CASE ~Crossing(n)
    <3>1. sn' = sn /\ Waiting \subseteq Waiting'
      BY <1>6, <2>3 DEF Waiting
    <3>2. \A x : SparseGood(x)' = SparseGood(x)
      BY <3>1, KeepsSparse
    <3> QED
      BY <2>1, <3>1, <3>2
  <2> QED
    BY <2>2, <2>3
<1>12. \A ar \in Ranges : sn'[RangeNode(ar)] = sn[RangeNode(ar)]
  BY <1>2, <1>3, <1>6, FlushFacts
<1>13. QueueInv'
  <2>1. RangesJoined'
    BY <1>1, <1>2, <1>12 DEF QueueInv, RangesJoined, Root
  <2> QED
    BY <1>6, <1>10, <1>11, <2>1 DEF QueueInv
<1>14. DoneInv'
  BY <1>1, <1>2 DEF DoneInv, LeavesOk, LeafOk, LeafHash, CacheOk, CacheFits, DenseGood, Good
<1>15. sn' = [x \in Nodes |-> sn'[x]]
  BY <1>2, <1>3, <1>6, FlushFacts
<1>16. ASSUME synced PROVE AllTrue' /\ CacheOk'
  <2>1. sn' = sn
    BY <1>2, <1>3, <1>6, <1>16, FlushFacts DEF AllTrue
  <2> QED
    BY <1>1, <1>2, <1>16, <2>1, KeepsTrue
<1> QED
  BY <1>1, <1>2, <1>8, <1>13, <1>14, <1>15, <1>16 DEF IInv

LEMMA EndSparseKeeps ==
  ASSUME IInv, EndSparse
  PROVE  IInv'
<1>1. /\ pc = "sparse" /\ pc' = "clean" /\ queue = {} /\ sn' = Flushed(pending) /\ pending' = {}
      /\ UNCHANGED <<mem, dht, dirty, marked, cached, todo, batch, changed, level, queue, synced, served>>
  BY DEF EndSparse
<1>2. TypeOK /\ dht = [n \in Dense |-> dht[n]] /\ sn = [n \in Nodes |-> sn[n]] /\ DoneInv
      /\ QueueInv /\ (synced => AllTrue /\ CacheOk) /\ served = <<>>
  BY <1>1 DEF IInv
<1>3. queue \subseteq InnerNodes /\ pending \subseteq InnerNodes /\ marked = {} /\ marked' = {}
  BY <1>1, <1>2 DEF TypeOK, QueueInv
<1>4. /\ sn' = [n \in Nodes |-> sn'[n]] /\ DOMAIN sn' = Nodes
      /\ \A n \in pending : SparseGood(n)'
      /\ \A n \in InnerNodes : n \in queue \/ n \in pending \/ SparseGood(n)' = SparseGood(n)
      /\ \A ar \in Ranges : sn'[RangeNode(ar)] = sn[RangeNode(ar)]
      /\ SparseAllGood => sn' = sn
  BY <1>1, <1>2, <1>3, FlushFacts
<1>5. ASSUME NEW m \in InnerNodes, ~SparseGood(m)' PROVE \E c \in Children(m) \cap InnerNodes : ~SparseGood(c)'
  <2>1. m \notin pending /\ ~SparseGood(m)
    BY <1>1, <1>4, <1>5
  <2>2. PICK c \in Children(m) \cap InnerNodes : ~SparseGood(c) \/ c \in Waiting
    BY <1>1, <1>2, <2>1 DEF QueueInv, Waiting
  <2>3. c \notin pending
    <3>1. Sparse[c].parent = m /\ m # 0
      BY ChildrenFacts, SparseFacts
    <3> QED
      BY <1>1, <1>2, <3>1 DEF QueueInv
  <2>4. ~SparseGood(c)'
    BY <1>1, <1>4, <2>2, <2>3 DEF Waiting
  <2> QED
    BY <2>4
<1>6. SparseAllGood'
  <2> DEFINE Bad == {m \in InnerNodes : ~SparseGood(m)'}
             T == {Sparse[m].level : m \in Bad}
  <2>1. T \subseteq Nat
    BY SparseFacts
  <2>2. ASSUME NEW k \in T, \A j \in T : k <= j PROVE FALSE
    <3>1. PICK m \in Bad : Sparse[m].level = k
      BY <2>2
    <3>2. PICK c \in Children(m) : c \in Bad
      BY <1>5
    <3>3. Sparse[c].level = k - 1 /\ k \in Nat
      BY <3>1, <3>2, ChildrenFacts, SparseFacts
    <3>4. k - 1 \in T
      BY <3>2, <3>3
    <3> HIDE DEF T
    <3> QED
      BY <2>2, <3>3, <3>4
  <2>3. T = {}
    <3> HIDE DEF T
    <3> QED
      BY <2>1, <2>2, LeastNat
  <2>4. \A m \in InnerNodes : SparseGood(m)'
    BY <2>3
  <2> QED
    BY <2>4 DEF SparseAllGood
<1>7. RangesJoined'
  BY <1>1, <1>2, <1>4 DEF QueueInv, RangesJoined, Root
<1>8. TypeOK'
  BY <1>1, <1>2, <1>3, <1>4 DEF TypeOK
<1>9. DoneInv'
  BY <1>1, <1>2 DEF DoneInv, LeavesOk, LeafOk, LeafHash, CacheOk, CacheFits, DenseGood, Good
<1>10. ASSUME synced PROVE AllTrue' /\ CacheOk'
  <2>1. sn' = sn
    BY <1>2, <1>4, <1>10 DEF AllTrue
  <2> QED
    BY <1>1, <1>2, <1>10, <2>1, KeepsTrue
<1> QED
  BY <1>1, <1>2, <1>3, <1>4, <1>6, <1>7, <1>8, <1>9, <1>10 DEF IInv

-----------------------------------------------------------------------------
(* The end of update(), and a restart *)

LEMMA CleanRangeKeeps ==
  ASSUME IInv, CleanRange
  PROVE  IInv'
<1>1. /\ pc = "clean" /\ pc' = "clean" /\ changed' \subseteq changed /\ dirty' \subseteq dirty
      /\ UNCHANGED <<mem, dht, sn, marked, cached, todo, batch, level, queue, pending, last, synced, served>>
  BY DEF CleanRange
<1>2. TypeOK /\ dht = [n \in Dense |-> dht[n]] /\ sn = [n \in Nodes |-> sn[n]] /\ DoneInv
      /\ marked = {} /\ RangesJoined /\ SparseAllGood /\ (synced => AllTrue /\ CacheOk) /\ served = <<>>
  BY <1>1 DEF IInv
<1>3. TypeOK'
  BY <1>1, <1>2 DEF TypeOK
<1>4. DoneInv' /\ RangesJoined'
  BY <1>1, <1>2 DEF DoneInv, LeavesOk, LeafOk, LeafHash, CacheOk, CacheFits, DenseGood, Good, RangesJoined, Root
<1>5. SparseAllGood' /\ (synced => AllTrue /\ CacheOk)'
  BY <1>1, <1>2, KeepsSparse, KeepsTrue
<1> QED
  BY <1>1, <1>2, <1>3, <1>4, <1>5 DEF IInv

\* A tree that is all hashed may be left at any moment.
LEMMA DoneIsIdle ==
  ASSUME DoneInv, UNCHANGED <<mem, dht, cached>>, DOMAIN batch' = {}
  PROVE  IdleInv'
<1>1. \A ar \in Ranges : Built(ar)'
  BY DEF DoneInv, Built, DenseGood, Good, LeavesOk, LeafOk, LeafHash
<1>2. \A l \in Pages : (LeafOk(l) /\ CacheFits(l))'
  BY PageFacts DEF DoneInv, LeavesOk, LeafOk, LeafHash, CacheOk, CacheFits
<1> QED
  BY <1>1, <1>2 DEF IdleInv

LEMMA EndUpdateKeeps ==
  ASSUME IInv, EndUpdate
  PROVE  IInv'
<1>1. /\ pc = "clean" /\ pc' = "idle" /\ synced' = TRUE
      /\ UNCHANGED <<mem, dht, dirty, sn, marked, cached, todo, batch, changed, level, queue, pending, last, served>>
  BY DEF EndUpdate, disk, loop
<1>2. TypeOK /\ dht = [n \in Dense |-> dht[n]] /\ sn = [n \in Nodes |-> sn[n]] /\ DoneInv
      /\ marked = {} /\ RangesJoined /\ SparseAllGood /\ served = <<>>
  BY <1>1 DEF IInv
<1>3. TypeOK'
  BY <1>1, <1>2 DEF TypeOK
<1>4. IdleInv'
  BY <1>1, <1>2, DoneIsIdle DEF DoneInv
<1>5. AllTrue /\ CacheOk
  BY <1>2 DEF AllTrue, DoneInv
<1>6. SparseAllGood' /\ AllTrue' /\ CacheOk'
  BY <1>1, <1>2, <1>5, KeepsSparse, KeepsTrue
<1> QED
  BY <1>1, <1>2, <1>3, <1>4, <1>6 DEF IInv

LEMMA CrashKeeps ==
  ASSUME IInv, Crash, CrashPoints \subseteq {"idle", "sync", "clean"}
  PROVE  IInv'
<1>1. /\ pc \in {"idle", "sync", "clean"} /\ pc' = "idle" /\ synced' = FALSE /\ served' = <<>>
      /\ todo' = {} /\ DOMAIN batch' = {} /\ changed' = {} /\ queue' = {} /\ pending' = {}
      /\ UNCHANGED <<mem, dht, dirty, sn, marked, cached>>
  BY DEF Crash, disk
<1>2. TypeOK /\ dht = [n \in Dense |-> dht[n]] /\ sn = [n \in Nodes |-> sn[n]]
      /\ marked = {} /\ (SparseFresh \/ SparseAllGood)
  BY <1>1 DEF IInv
<1>3. TypeOK'
  BY <1>1, <1>2 DEF TypeOK
<1>4. IdleInv'
  <2>1. CASE pc = "idle"
    <3>1. IdleInv
      BY <2>1 DEF IInv
    <3> QED
      BY <1>1, <3>1 DEF IdleInv, Fresh, Built, Good, LeafOk, LeafHash, CacheFits
  <2>2. CASE pc \in {"sync", "clean"}
    <3>1. DoneInv
      BY <2>2 DEF IInv
    <3> QED
      BY <1>1, <3>1, DoneIsIdle
  <2> QED
    BY <1>1, <2>1, <2>2
<1>5. (SparseFresh \/ SparseAllGood)'
  BY <1>1, <1>2, KeepsSparse
<1> QED
  BY <1>1, <1>2, <1>3, <1>4, <1>5 DEF IInv

-----------------------------------------------------------------------------
(* update_page, proofs and replaced ranges *)

LEMMA LeafUnder ==
  ASSUME NEW l \in Leaves, NEW m \in Leaves, l \in Under[m]
  PROVE  l = m
<1>1. l \in Dense /\ m \in Dense /\ l[2] = 0 /\ m[2] = 0 /\ l[3] \in Nat
  BY LeafFacts
<1>2. l[1] = m[1] /\ l[3] \div 2^0 = m[3]
  BY <1>1, UnderLeaves DEF Under
<1>3. l[3] \div 1 = l[3]
  <2>1. \A x \in Nat : x \div 1 = x
    OBVIOUS
  <2> QED
    BY <1>1, <2>1
<1>4. l = <<l[1], l[2], l[3]>> /\ m = <<m[1], m[2], m[3]>>
  BY <1>1, NodeFacts
<1> QED
  BY <1>1, <1>2, <1>3, <1>4, PowersAssumption

\* Bubbling up the hash of one leaf leaves a dense tree that is all hashed.
LEMMA BubbledDenseFacts ==
  ASSUME NEW l \in Leaves, NEW h, dht = [n \in Dense |-> dht[n]], DenseGood, NEW t, t = BubbledDense(l, h)
  PROVE  /\ t = [n \in Dense |-> t[n]] /\ t[l] = h
         /\ \A n \in Dense : l \notin Under[n] => t[n] = dht[n]
         /\ \A n \in InnerDense : t[n] = ConcatHash(t[Left(n)], t[Right(n)])
<1>1. PICK given : given = [dht EXCEPT ![l] = h]
  OBVIOUS
<1>2. PICK Given : Given = {n \in Dense : n = l \/ l \notin Under[n]}
  OBVIOUS
<1>3. Leaves \subseteq Given /\ l \in Given /\ l \in Dense
  BY <1>2, LeafUnder, LeafFacts
<1>4. t = [n \in Dense |-> t[n]] /\ \A n \in Dense : t[n] = DenseStep(t, given, Given, n)
  <2>1. t = DenseHashed(given, Given)
    BY <1>1, <1>2 DEF BubbledDense
  <2> QED
    BY <1>3, <2>1, DenseHashedFacts
<1>5. t[l] = h
  BY <1>1, <1>3, <1>4 DEF DenseStep
<1>6. ASSUME NEW n \in Dense, l \notin Under[n] PROVE t[n] = dht[n]
  <2>1. n # l /\ n \in Given
    BY <1>2, <1>6, UnderSelf
  <2> QED
    BY <1>1, <1>4, <2>1 DEF DenseStep
<1>7. ASSUME NEW n \in InnerDense PROVE t[n] = ConcatHash(t[Left(n)], t[Right(n)])
  <2>1. n \in Dense /\ n # l /\ Left(n) \in Dense /\ Right(n) \in Dense
    BY ChildFacts DEF InnerDense
  <2>2. CASE l \in Under[n]
    BY <1>2, <1>4, <2>1, <2>2 DEF DenseStep
  <2>3. CASE l \notin Under[n]
    <3>1. l \notin Under[Left(n)] /\ l \notin Under[Right(n)]
      BY <2>3, UnderChildren
    <3>2. t[n] = dht[n] /\ t[Left(n)] = dht[Left(n)] /\ t[Right(n)] = dht[Right(n)]
      BY <1>6, <2>1, <2>3, <3>1
    <3>3. dht[n] = ConcatHash(dht[Left(n)], dht[Right(n)])
      BY DEF DenseGood, Good
    <3> QED
      BY <3>2, <3>3
  <2> QED
    BY <2>2, <2>3
<1> QED
  BY <1>4, <1>5, <1>6, <1>7

\* The way from a range to the root goes through inner nodes, from parent to parent.
LEMMA PathFacts ==
  ASSUME NEW r \in Nodes \ InnerNodes
  PROVE  /\ r \in SparsePath[r] /\ SparsePath[r] \subseteq {r} \cup InnerNodes
         /\ \A c \in SparsePath[r] : Sparse[c].parent \in SparsePath[r] \cup {0}
<1>1. SparsePath[r] = {m \in Nodes : \A S \in SUBSET Nodes :
         r \in S /\ (\A c \in S : Sparse[c].parent \in S \cup {0}) => m \in S}
  BY DEF SparsePath
<1>2. r \in SparsePath[r]
  BY <1>1
<1>3. SparsePath[r] \subseteq {r} \cup InnerNodes
  <2>1. PICK S : S = {r} \cup InnerNodes
    OBVIOUS
  <2>2. S \in SUBSET Nodes /\ r \in S
    BY <2>1, SparseFacts
  <2>3. \A c \in S : Sparse[c].parent \in S \cup {0}
    BY <2>1, <2>2, SparseFacts
  <2> QED
    BY <1>1, <2>1, <2>2, <2>3
<1>4. ASSUME NEW c \in SparsePath[r], Sparse[c].parent # 0 PROVE Sparse[c].parent \in SparsePath[r]
  <2>1. c \in Nodes
    BY <1>1
  <2>2. Sparse[c].parent \in Nodes
    BY <1>4, <2>1, SparseFacts
  <2>3. ASSUME NEW S \in SUBSET Nodes, r \in S, \A d \in S : Sparse[d].parent \in S \cup {0}
        PROVE  Sparse[c].parent \in S
    <3>1. c \in S
      BY <1>1, <2>3
    <3> QED
      BY <1>4, <2>3, <3>1
  <2> QED
    BY <1>1, <2>2, <2>3
<1> QED
  BY <1>2, <1>3, <1>4

LEMMA BubbledSparseFacts ==
  ASSUME NEW ar \in Ranges, NEW root, sn = [n \in Nodes |-> sn[n]], SparseAllGood, NEW t, t = BubbledSparse(ar, root)
  PROVE  /\ t = [n \in Nodes |-> t[n]] /\ t[RangeNode(ar)] = root
         /\ \A br \in Ranges : br # ar => t[RangeNode(br)] = sn[RangeNode(br)]
         /\ \A n \in InnerNodes : t[n] = ConcatHash(SparseSide(t, n, Sparse[n].left), SparseSide(t, n, Sparse[n].right))
<1>1. PICK r : r = RangeNode(ar)
  OBVIOUS
<1>2. PICK given : given = [sn EXCEPT ![r] = root]
  OBVIOUS
<1>3. PICK Given : Given = Nodes \ (SparsePath[r] \ {r})
  OBVIOUS
<1>4. r \in Nodes \ InnerNodes
  BY <1>1, RangeFacts
<1>5. /\ r \in SparsePath[r] /\ SparsePath[r] \subseteq {r} \cup InnerNodes
      /\ \A c \in SparsePath[r] : Sparse[c].parent \in SparsePath[r] \cup {0}
  BY <1>4, PathFacts
<1>6. Nodes \ InnerNodes \subseteq Given
  BY <1>3, <1>5
<1>7. t = [n \in Nodes |-> t[n]] /\ \A n \in Nodes : t[n] = SparseStep(t, given, Given, n)
  <2>1. t = SparseHashed(given, Given)
    BY <1>1, <1>2, <1>3 DEF BubbledSparse
  <2> QED
    BY <1>6, <2>1, SparseHashedFacts
<1>8. t[r] = root
  BY <1>2, <1>4, <1>6, <1>7 DEF SparseStep
<1>9. \A n \in Nodes : n \in Given /\ n # r => t[n] = sn[n]
  BY <1>2, <1>7 DEF SparseStep
<1>10. \A br \in Ranges : br # ar => t[RangeNode(br)] = sn[RangeNode(br)]
  <2> SUFFICES ASSUME NEW br \in Ranges, br # ar PROVE t[RangeNode(br)] = sn[RangeNode(br)]
    OBVIOUS
  <2>1. RangeNode(br) \in Nodes \ InnerNodes
    BY RangeFacts
  <2>2. RangeNode(br) # r
    BY <1>1, RangeFacts DEF RangeNode
  <2> QED
    BY <1>6, <1>9, <2>1, <2>2
<1>11. ASSUME NEW n \in InnerNodes
       PROVE  t[n] = ConcatHash(SparseSide(t, n, Sparse[n].left), SparseSide(t, n, Sparse[n].right))
  <2>1. n \in Nodes /\ n # r /\ n # 0
    BY <1>4, SparseFacts
  <2>2. CASE n \in SparsePath[r]
    BY <1>3, <1>7, <2>1, <2>2 DEF SparseStep
  <2>3. CASE n \notin SparsePath[r]
    <3>1. t[n] = sn[n]
      BY <1>3, <1>9, <2>1, <2>3
    <3>2. ASSUME NEW c \in {Sparse[n].left, Sparse[n].right} PROVE SparseSide(t, n, c) = HashOf(c, Sparse[n].level - 1)
      <4>1. CASE c = 0
        BY <4>1 DEF SparseSide, HashOf
      <4>2. CASE c # 0
        <5>1. c \in Nodes /\ Sparse[c].parent = n
          BY <4>2, SparseFacts
        <5>2. c \notin SparsePath[r]
          BY <1>5, <2>1, <2>3, <5>1
        <5>3. t[c] = sn[c]
          BY <1>3, <1>5, <1>9, <5>1, <5>2
        <5> QED
          BY <4>2, <5>3 DEF SparseSide, HashOf
      <4> QED
        BY <4>1, <4>2
    <3>3. SparseGood(n)
      BY DEF SparseAllGood
    <3> QED
      BY <3>1, <3>2, <3>3 DEF SparseGood
  <2> QED
    BY <2>2, <2>3
<1> QED
  BY <1>1, <1>7, <1>8, <1>10, <1>11

\* A tree whose hashes are all true may be left at any moment.
LEMMA TrueIsIdle ==
  ASSUME AllTrue, CacheOk, DOMAIN batch = {}
  PROVE  IdleInv
<1>1. \A ar \in Ranges : Built(ar)
  BY DEF AllTrue, DenseGood, LeavesOk, Built
<1>2. \A l \in Pages : LeafOk(l) /\ CacheFits(l)
  BY PageFacts DEF AllTrue, LeavesOk, CacheOk
<1> QED
  BY <1>1, <1>2 DEF IdleInv

LEMMA RecordedWriteTrue ==
  ASSUME IInv, NEW l \in Pages, NEW c \in Contents, RecordedWrite(l, c)
  PROVE  AllTrue' /\ CacheOk' /\ dht' = [n \in Dense |-> dht'[n]] /\ sn' = [n \in Nodes |-> sn'[n]]
<1>1. /\ pc = "idle" /\ synced /\ mem' = [mem EXCEPT ![l] = c] /\ cached' = [cached EXCEPT ![l] = c]
  BY DEF RecordedWrite
<1>2. TypeOK /\ dht = [n \in Dense |-> dht[n]] /\ sn = [n \in Nodes |-> sn[n]] /\ AllTrue /\ CacheOk
  BY <1>1 DEF IInv
<1>3. /\ mem'[l] = c /\ cached'[l] = c
      /\ \A m \in Pages : m # l => mem'[m] = mem[m] /\ cached'[m] = cached[m]
  BY <1>1, <1>2 DEF TypeOK
<1>4. CacheOk'
  BY <1>2, <1>3 DEF CacheOk, CacheFits
<1>5. l \in Leaves /\ l \in Dense /\ l[1] \in Ranges
  BY PageFacts, LeafFacts
<1>6. LeafHash(l)' = PageHash(c) /\ \A m \in Leaves : m # l => LeafHash(m)' = LeafHash(m)
  BY <1>3 DEF LeafHash
<1>7. CASE dht[l] = PageHash(c)
  <2>1. UNCHANGED <<dht, sn>>
    BY <1>7 DEF RecordedWrite
  <2>2. LeavesOk'
    BY <1>2, <1>6, <1>7, <2>1 DEF AllTrue, LeavesOk, LeafOk
  <2>3. DenseGood' /\ SparseAllGood' /\ RangesJoined'
    BY <1>2, <2>1 DEF AllTrue, DenseGood, Good, SparseAllGood, SparseGood, HashOf, RangesJoined, Root
  <2> QED
    BY <1>2, <1>4, <2>1, <2>2, <2>3 DEF AllTrue
<1>8. CASE dht[l] # PageHash(c)
  <2>1. /\ dht' = BubbledDense(l, PageHash(c))
        /\ sn' = BubbledSparse(l[1], BubbledDense(l, PageHash(c))[<<l[1], LevelCount[l[1]] - 1, 0>>])
    BY <1>8 DEF RecordedWrite
  <2>2. /\ dht' = [n \in Dense |-> dht'[n]] /\ dht'[l] = PageHash(c)
        /\ \A n \in Dense : l \notin Under[n] => dht'[n] = dht[n]
        /\ \A n \in InnerDense : dht'[n] = ConcatHash(dht'[Left(n)], dht'[Right(n)])
    BY <1>2, <1>5, <2>1, BubbledDenseFacts DEF AllTrue
  <2>3. sn' = BubbledSparse(l[1], Root(l[1])')
    BY <2>1 DEF Root
  <2>4. /\ sn' = [n \in Nodes |-> sn'[n]] /\ sn'[RangeNode(l[1])] = Root(l[1])'
        /\ \A br \in Ranges : br # l[1] => sn'[RangeNode(br)] = sn[RangeNode(br)]
        /\ \A n \in InnerNodes :
             sn'[n] = ConcatHash(SparseSide(sn', n, Sparse[n].left), SparseSide(sn', n, Sparse[n].right))
    BY <1>2, <1>5, <2>3, BubbledSparseFacts DEF AllTrue
  <2>5. LeavesOk'
    <3>1. ASSUME NEW m \in Leaves PROVE dht'[m] = LeafHash(m)'
      <4>1. CASE m = l
        BY <1>6, <2>2, <4>1
      <4>2. CASE m # l
        <5>1. l \notin Under[m] /\ m \in Dense
          BY <1>5, <4>2, LeafUnder, LeafFacts
        <5>2. dht[m] = LeafHash(m)
          BY <1>2 DEF AllTrue, LeavesOk, LeafOk
        <5> QED
          BY <1>6, <2>2, <4>2, <5>1, <5>2
      <4> QED
        BY <4>1, <4>2
    <3> QED
      BY <3>1 DEF LeavesOk, LeafOk
  <2>6. DenseGood'
    BY <2>2 DEF DenseGood, Good
  <2>7. SparseAllGood'
    BY <2>4 DEF SparseAllGood, SparseGood, HashOf, SparseSide
  <2>8. RangesJoined'
    <3>1. ASSUME NEW br \in Ranges, br # l[1] PROVE sn'[RangeNode(br)] = Root(br)'
      <4>1. PICK n : n = <<br, LevelCount[br] - 1, 0>>
        OBVIOUS
      <4>2. n \in Dense /\ n[1] = br
        BY <4>1, RootFacts
      <4>3. l \notin Under[n]
        BY <3>1, <4>2, UnderLeaves
      <4>4. dht'[n] = dht[n] /\ sn[RangeNode(br)] = dht[n]
        BY <1>2, <2>2, <4>1, <4>2, <4>3 DEF AllTrue, RangesJoined, Root
      <4> QED
        BY <2>4, <3>1, <4>1, <4>4 DEF Root
    <3> QED
      BY <2>4, <3>1 DEF RangesJoined
  <2> QED
    BY <1>4, <2>2, <2>4, <2>5, <2>6, <2>7, <2>8 DEF AllTrue
<1> QED
  BY <1>7, <1>8

LEMMA RecordedWriteKeeps ==
  ASSUME IInv, NEW l \in Pages, NEW c \in Contents, RecordedWrite(l, c)
  PROVE  IInv'
<1>1. /\ pc = "idle" /\ pc' = "idle" /\ synced /\ synced' /\ served' = <<>>
      /\ mem' = [mem EXCEPT ![l] = c] /\ dirty' = dirty \cup {l} /\ cached' = [cached EXCEPT ![l] = c]
      /\ UNCHANGED <<marked, todo, batch, changed, level, queue, pending, last>>
  BY DEF RecordedWrite, loop, IInv
<1>2. TypeOK /\ IdleInv /\ marked = {}
  BY <1>1 DEF IInv
<1>3. AllTrue' /\ CacheOk' /\ dht' = [n \in Dense |-> dht'[n]] /\ sn' = [n \in Nodes |-> sn'[n]]
  BY RecordedWriteTrue
<1>4. TypeOK'
  <2>1. /\ mem' \in [Pages -> Contents] /\ cached' \in [Pages -> Contents \cup {NoCopy}]
        /\ dirty' \subseteq Leaves
    BY <1>1, <1>2, PageFacts DEF TypeOK
  <2>2. DOMAIN dht' = Dense /\ DOMAIN sn' = Nodes
    BY <1>3
  <2> QED
    BY <1>1, <1>2, <2>1, <2>2 DEF TypeOK
<1>5. DOMAIN batch' = {}
  BY <1>1, <1>2 DEF IdleInv
<1>6. IdleInv'
  <2>1. AllTrue /\ CacheOk /\ DOMAIN batch = {} => IdleInv
    BY TrueIsIdle
  <2>2. (AllTrue /\ CacheOk /\ DOMAIN batch = {} => IdleInv)'
    BY TrueIsIdle, PTL
  <2> QED
    BY <1>3, <1>5, <2>2
<1>7. SparseAllGood'
  BY <1>3 DEF AllTrue
<1> QED
  BY <1>1, <1>2, <1>3, <1>4, <1>6, <1>7 DEF IInv

LEMMA GetProofKeeps ==
  ASSUME IInv, NEW l \in Pages, GetProof(l)
  PROVE  IInv'
<1>1. /\ pc = "idle" /\ pc' = "idle" /\ synced /\ synced' /\ served' = <<l, PageHash(cached'[l])>>
      /\ UNCHANGED <<mem, dirty, sn, marked, todo, batch, changed, level, queue, pending, last>>
  BY DEF GetProof, loop, IInv
<1>2. TypeOK /\ dht = [n \in Dense |-> dht[n]] /\ sn = [n \in Nodes |-> sn[n]] /\ AllTrue /\ CacheOk /\ IdleInv
      /\ marked = {}
  BY <1>1 DEF IInv
<1>3. dht[l] = PageHash(mem[l]) /\ l \in Dense
  BY <1>2, PageFacts DEF AllTrue, LeavesOk, LeafOk, LeafHash
<1>4. dht' = dht
  BY <1>2, <1>3 DEF GetProof, Missed
<1>5. cached' \in [Pages -> Contents \cup {NoCopy}] /\ cached'[l] = mem[l]
      /\ \A m \in Pages : cached'[m] = cached[m] \/ cached'[m] = mem[m]
  <2>1. cached[l] \in {NoCopy, mem[l]} /\ mem[l] \in Contents /\ cached \in [Pages -> Contents \cup {NoCopy}]
    BY <1>2 DEF CacheOk, CacheFits, TypeOK
  <2>2. CASE cached[l] # NoCopy /\ cached' = cached
    BY <2>1, <2>2
  <2>3. CASE cached' = [cached EXCEPT ![l] = mem[l]]
    BY <2>1, <2>3
  <2> QED
    BY <2>2, <2>3 DEF GetProof, Missed
<1>6. CacheOk' /\ \A m \in Pages : CacheFits(m) => CacheFits(m)'
  BY <1>1, <1>2, <1>5 DEF CacheOk, CacheFits
<1>7. AllTrue' /\ SparseAllGood'
  BY <1>1, <1>2, <1>4 DEF AllTrue, LeavesOk, LeafOk, LeafHash, DenseGood, Good, SparseAllGood, SparseGood, HashOf,
                          RangesJoined, Root
<1>8. TypeOK'
  BY <1>1, <1>2, <1>4, <1>5 DEF TypeOK
<1>9. IdleInv'
  <2>1. \A ar \in Ranges : (Fresh(ar) \/ Built(ar))'
    BY <1>1, <1>2, <1>4 DEF IdleInv, Fresh, Built, Good, LeafOk, LeafHash
  <2>2. \A m \in Pages : (m \in dirty \/ (LeafOk(m) /\ CacheFits(m)))'
    BY <1>1, <1>2, <1>4, <1>6 DEF IdleInv, LeafOk, LeafHash
  <2> QED
    BY <1>1, <1>2, <2>1, <2>2 DEF IdleInv
<1>10. served'[1] = l /\ served'[2] = PageHash(mem'[l])
  BY <1>1, <1>5
<1> QED
  BY <1>1, <1>2, <1>4, <1>6, <1>7, <1>8, <1>9, <1>10 DEF IInv

\* A replaced range is fresh, or has the hashes of its new memory; all of it is dirty.
LEMMA ReplaceKeeps ==
  ASSUME IInv, NEW ar \in Replaceable, NEW c \in Contents, NEW kind \in {"new", "dht"}, Replace(ar, c, kind)
  PROVE  IInv'
<1>1. /\ pc = "idle" /\ pc' = "idle" /\ synced' = FALSE /\ served' = <<>>
      /\ mem' = [l \in Pages |-> IF l[1] = ar THEN c ELSE mem[l]]
      /\ dht' = [n \in Dense |-> IF n[1] # ar THEN dht[n]
                                 ELSE IF kind = "new" THEN ZeroHash ELSE TrueDense(mem')[n]]
      /\ dirty' = dirty \cup LeavesOf(ar)
      /\ UNCHANGED <<sn, marked, cached, todo, batch, changed, level, queue, pending, last>>
  BY DEF Replace, ReplacedDirty, loop
<1>2. TypeOK /\ sn = [n \in Nodes |-> sn[n]] /\ IdleInv /\ marked = {} /\ (SparseFresh \/ SparseAllGood)
  BY <1>1 DEF IInv
<1>3. ar \in Ranges /\ LeavesOf(ar) \subseteq Leaves
  BY LayoutAssumption DEF Leaves
<1>4. \A l \in Leaves : l[1] = ar => l \in dirty'
  BY <1>1, LeafFacts
<1>5. \A n \in Dense : n[1] # ar => dht'[n] = dht[n]
  BY <1>1
<1>6. \A l \in Pages : l[1] # ar => mem'[l] = mem[l]
  BY <1>1
<1>7. TypeOK'
  <2>1. mem' \in [Pages -> Contents]
    BY <1>1, <1>2 DEF TypeOK
  <2> QED
    BY <1>1, <1>2, <1>3, <2>1 DEF TypeOK
<1>8. ASSUME NEW br \in Ranges, br # ar PROVE (Fresh(br) \/ Built(br))'
  <2>1. CASE Fresh(br)
    BY <1>1, <1>5, <1>8, <2>1 DEF Fresh
  <2>2. CASE Built(br)
    <3>1. ASSUME NEW n \in InnerDense, n[1] = br PROVE Good(n)'
      <4>1. /\ n \in Dense /\ Left(n) \in Dense /\ Right(n) \in Dense
            /\ Left(n)[1] = br /\ Right(n)[1] = br
        BY <3>1, ChildFacts
      <4>2. dht'[n] = dht[n] /\ dht'[Left(n)] = dht[Left(n)] /\ dht'[Right(n)] = dht[Right(n)]
        BY <1>5, <1>8, <3>1, <4>1
      <4> QED
        BY <2>2, <3>1, <4>2 DEF Built, Good
    <3>2. ASSUME NEW l \in Leaves \ Pages, l[1] = br PROVE LeafOk(l)'
      BY <1>5, <1>8, <2>2, <3>2, PageFacts DEF Built, LeafOk, LeafHash
    <3> QED
      BY <3>1, <3>2 DEF Built
  <2> QED
    BY <1>2, <2>1, <2>2 DEF IdleInv
<1>9. (Fresh(ar) \/ Built(ar))'
  <2>1. CASE kind = "new"
    BY <1>1, <1>4, <2>1 DEF Fresh
  <2>2. CASE kind = "dht"
    <3>1. PICK t : t = TrueDense(mem')
      OBVIOUS
    <3>2. PICK given : given = [l \in Leaves |-> IF l \in Pages THEN PageHash(mem'[l]) ELSE PristineHash[0]]
      OBVIOUS
    <3>3. \A n \in Dense : t[n] = DenseStep(t, given, Leaves, n)
      <4>1. t = DenseHashed(given, Leaves)
        BY <3>1, <3>2 DEF TrueDense
      <4> QED
        BY <4>1, DenseHashedFacts
    <3>4. \A n \in Dense : n[1] = ar => dht'[n] = t[n]
      BY <1>1, <2>2, <3>1
    <3>5. ASSUME NEW n \in InnerDense, n[1] = ar PROVE Good(n)'
      <4>1. /\ n \in Dense /\ n \notin Leaves /\ Left(n) \in Dense /\ Right(n) \in Dense
            /\ Left(n)[1] = ar /\ Right(n)[1] = ar
        BY <3>5, ChildFacts DEF InnerDense
      <4>2. t[n] = ConcatHash(t[Left(n)], t[Right(n)])
        BY <3>3, <4>1 DEF DenseStep
      <4> QED
        BY <3>4, <3>5, <4>1, <4>2 DEF Good
    <3>6. ASSUME NEW l \in Leaves \ Pages, l[1] = ar PROVE LeafOk(l)'
      <4>1. l \in Dense /\ t[l] = PristineHash[0]
        BY <3>2, <3>3, PageFacts DEF DenseStep
      <4> QED
        BY <3>4, <3>6, <4>1 DEF LeafOk, LeafHash
    <3> QED
      BY <3>5, <3>6 DEF Built
  <2> QED
    BY <2>1, <2>2
<1>10. ASSUME NEW l \in Pages PROVE (l \in dirty \/ (LeafOk(l) /\ CacheFits(l)))'
  <2>1. l \in Leaves /\ l \in Dense
    BY PageFacts
  <2>2. CASE l[1] = ar
    BY <1>4, <2>1, <2>2
  <2>3. CASE l[1] # ar
    BY <1>1, <1>2, <1>5, <1>6, <2>1, <2>3 DEF IdleInv, LeafOk, LeafHash, CacheFits
  <2> QED
    BY <2>2, <2>3
<1>11. IdleInv'
  BY <1>1, <1>2, <1>8, <1>9, <1>10 DEF IdleInv
<1>12. (SparseFresh \/ SparseAllGood)'
  BY <1>1, <1>2, KeepsSparse
<1>13. dht' = [n \in Dense |-> dht'[n]]
  BY <1>1
<1> QED
  BY <1>1, <1>2, <1>7, <1>11, <1>12, <1>13 DEF IInv

-----------------------------------------------------------------------------
(* The theorems *)

LEMMA NextIInv ==
  ASSUME Resumable, IInv, [Next]_vars
  PROVE  IInv'
<1>1. CASE UNCHANGED vars
  <2>1. UNCHANGED <<mem, dht, dirty, sn, marked, cached, pc, todo, batch, changed, level,
                    queue, pending, last, synced, served>>
    BY <1>1 DEF vars
  <2>2. TypeOK' = TypeOK
    BY <2>1 DEF TypeOK
  <2>3. AllTrue' = AllTrue /\ CacheOk' = CacheOk /\ RangesJoined' = RangesJoined
    BY <2>1, KeepsTrue DEF RangesJoined, Root
  <2>4. SparseFresh' = SparseFresh /\ SparseAllGood' = SparseAllGood /\ \A n : SparseGood(n)' = SparseGood(n)
    BY <2>1, KeepsSparse
  <2>5. /\ \A l : LeafOk(l)' = LeafOk(l) /\ CacheFits(l)' = CacheFits(l) /\ Good(l)' = Good(l)
        /\ \A n : DirtyNode(n)' = DirtyNode(n)
    BY <2>1 DEF LeafOk, LeafHash, CacheFits, Good, DirtyNode
  <2>6. IdleInv' = IdleInv
    BY <2>1 DEF IdleInv, Fresh, Built, LeafOk, LeafHash, CacheFits, Good
  <2>7. Unseen' = Unseen /\ Sticky' = Sticky
    BY <2>1 DEF Sticky, Unseen, Lent, LeafOk, LeafHash
  <2>8. WalkInv' = WalkInv
    BY <2>1, <2>5, <2>7 DEF WalkInv, Touched
  <2>9. DenseInv' = DenseInv /\ DoneInv' = DoneInv
    BY <2>1, <2>3, <2>5 DEF DenseInv, DoneInv, LeavesOk, DenseGood
  <2>10. QueueInv' = QueueInv
    BY <2>1, <2>3, <2>4 DEF QueueInv, Waiting
  <2> QED
    BY <2>1, <2>2, <2>3, <2>4, <2>6, <2>8, <2>9, <2>10 DEF IInv
<1>2. CASE Next
  <2>1. CASE UpdateStep
    BY <2>1, WalkPageKeeps, BatchFullKeeps, HashPageKeeps, ReturnPageKeeps, EndBatchKeeps, DenseLevelKeeps,
       SyncRangesKeeps, PopNodeKeeps, EndSparseKeeps, CleanRangeKeeps, EndUpdateKeeps DEF UpdateStep
  <2>2. CASE BeginUpdate
    BY <2>2, BeginUpdateKeeps
  <2>3. CASE \E l \in Pages, c \in Contents : Write(l, c) \/ RecordedWrite(l, c)
    BY <2>3, WriteKeeps, RecordedWriteKeeps
  <2>4. CASE \E l \in Pages : GetProof(l)
    BY <2>4, GetProofKeeps
  <2>5. CASE \E ar \in Replaceable, c \in Contents, kind \in Backings : Replace(ar, c, kind)
    BY <2>5, ReplaceKeeps DEF Resumable
  <2>6. CASE Crash
    BY <2>6, CrashKeeps DEF Resumable
  <2> QED
    BY <1>2, <2>1, <2>2, <2>3, <2>4, <2>5, <2>6 DEF Next
<1> QED
  BY <1>1, <1>2

\* What is out of date between operations is where the next update looks for it.
LEMMA IInvHashesTrue ==
  ASSUME IInv
  PROVE  HashesTrue
<1>1. TypeOK
  BY DEF IInv
<1>2. UpdatedHashesTrue
  BY TrueHashes DEF IInv, UpdatedHashesTrue
<1>3. StalePagesDirty
  <2> SUFFICES ASSUME pc = "idle", NEW l \in Pages, dht[l] # PageHash(mem[l]) PROVE l \in dirty
    BY DEF StalePagesDirty
  <2> QED
    BY DEF IInv, IdleInv, LeafOk, LeafHash
<1>4. StaleNodesReached
  <2> SUFFICES ASSUME pc = "idle", NEW n \in InnerDense
               PROVE  \/ Good(n)
                      \/ DirtyNode(n) /\ \E l \in dirty \cap Pages : l[1] = n[1] /\ dht[l] # PageHash(mem[l])
    BY DEF StaleNodesReached, InnerDense, Good
  <2>1. n \in Dense /\ n[1] \in Ranges
    BY NodeFacts DEF InnerDense
  <2>2. CASE Built(n[1])
    BY <2>2 DEF Built
  <2>3. CASE Fresh(n[1])
    <3>1. DirtyNode(n)
      <4>1. PICK l \in Under[n] : l \in Leaves /\ l[1] = n[1]
        BY <2>1, UnderSome, UnderLeaves
      <4>2. l \in dirty
        BY <2>3, <4>1, LeafFacts DEF Fresh
      <4> QED
        BY <4>1, <4>2 DEF DirtyNode
    <3>2. PICK l : l = <<n[1], 0, 0>>
      OBVIOUS
    <3>3. l \in Pages /\ l \in Leaves /\ l \in Dense /\ l[1] = n[1]
      BY <2>1, <3>2, PageFacts
    <3>4. l \in dirty /\ dht[l] = ZeroHash
      BY <2>3, <3>3 DEF Fresh
    <3>5. dht[l] # PageHash(mem[l])
      BY <3>4, NotZero
    <3> QED
      BY <3>1, <3>3, <3>4, <3>5
  <2> QED
    BY <2>1, <2>2, <2>3 DEF IInv, IdleInv
<1> QED
  BY <1>1, <1>2, <1>3, <1>4 DEF HashesTrue

LEMMA IInvProofsCurrent ==
  ASSUME IInv
  PROVE  ProofsCurrent
<1> SUFFICES ASSUME served # <<>> PROVE served[2] = PageHash(mem[served[1]]) /\ served[2] = dht[served[1]]
  BY DEF ProofsCurrent
<1>1. synced /\ served[1] \in Pages /\ served[2] = PageHash(mem[served[1]]) /\ AllTrue
  BY DEF IInv
<1>2. dht[served[1]] = PageHash(mem[served[1]])
  BY <1>1, PageFacts DEF AllTrue, LeavesOk, LeafOk, LeafHash
<1> QED
  BY <1>1, <1>2

\* What the phases of update() keep: the walk, the levels of the dense trees
\* and the queue of the sparse tree leave nothing out of date behind them.
THEOREM InductiveInvariant == ASSUME Resumable PROVE Spec => []IInv
BY InitIInv, NextIInv, PTL DEF Spec

\* Where a killed update can be resumed and every replacement is marked dirty,
\* the hashes that get_root_hash(), get_node_hash() and get_proof() return are
\* the Merkle hashes of the memory, and what is out of date between operations
\* is dirty and in a range the next update() finds changed.
THEOREM HashesAreTrue == ASSUME Resumable PROVE Spec => []HashesTrue
BY InductiveInvariant, IInvHashesTrue, PTL

\* There a proof below page level, from the page cache or from a page hashed
\* on a miss, is about the page as it is and fits the hashes above it.
THEOREM ProofsStayCurrent == ASSUME Resumable PROVE Spec => []ProofsCurrent
BY InductiveInvariant, IInvProofsCurrent, PTL
=============================================================================
