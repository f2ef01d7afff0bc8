-------------------------- MODULE AccessLogProofs --------------------------
(***************************************************************************)
(* Recorders and verifiers of access logs agree, for every program, every  *)
(* response and every damage done to a log.  The argument has four parts:  *)
(*   - bubble_up reaches a root hash from one node, along one path, only;  *)
(*   - the requests of the three programs are about whole nodes, and keep  *)
(*     the words of memory that the programs rely on;                      *)
(*   - an access as it is recorded passes its check, and an access that    *)
(*     passes a check tells the truth about memory, whatever it was;       *)
(*   - so the verifier walks through the memories of the recording.        *)
(* The last needs a history: the memory and the values read before every   *)
(* access, which neither the machine nor the log keeps.                    *)
(***************************************************************************)
EXTENDS AccessLog, SequenceTheorems, WellFoundedInduction, TLAPS

----------------------------------------------------------------------------
(* The hash tree: nodes, siblings and bubble_up                             *)
\* A function on the leaves.
OnLeaves(t) == t = [l \in Leaves |-> t[l]]

\* Where the nodes of 2^h leaves start.
Aligned(h) == {j \in Leaves : j % 2^h = 0}

\* The powers of two that sizes of nodes are.
LEMMA Powers == 2^0 = 1 /\ 2^1 = 2 /\ 2^2 = 4 /\ 2^3 = 8 /\ 2^4 = 16
  OBVIOUS

\* What the function in HashNode is.
IsHashed(N, t) ==
  N = [h \in 0..Height |-> [i \in {j \in Leaves : j % 2^h = 0} |->
         IF h = 0 THEN t[i] ELSE <<N[h-1][i], N[h-1][i + 2^(h-1)]>>]]

\* There is one: five levels, one upon the other.
LEMMA HashedExists ==
  ASSUME NEW t
  PROVE  \E N : IsHashed(N, t)
<1> DEFINE n0 == [i \in Aligned(0) |-> t[i]]
           n1 == [i \in Aligned(1) |-> <<n0[i], n0[i + 2^0]>>]
           n2 == [i \in Aligned(2) |-> <<n1[i], n1[i + 2^1]>>]
           n3 == [i \in Aligned(3) |-> <<n2[i], n2[i + 2^2]>>]
           n4 == [i \in Aligned(4) |-> <<n3[i], n3[i + 2^3]>>]
           N == [h \in 0..Height |-> IF h = 0 THEN n0 ELSE IF h = 1 THEN n1 ELSE IF h = 2 THEN n2
                                     ELSE IF h = 3 THEN n3 ELSE n4]
<1> HIDE DEF n0, n1, n2, n3, n4
<1>1. N[0] = n0 /\ N[1] = n1 /\ N[2] = n2 /\ N[3] = n3 /\ N[4] = n4
  BY DEF Height
<1>2. N = [h \in 0..Height |-> N[h]]
  OBVIOUS
<1> HIDE DEF N
<1> DEFINE Body(h) == [i \in Aligned(h) |-> IF h = 0 THEN t[i] ELSE <<N[h-1][i], N[h-1][i + 2^(h-1)]>>]
<1>3. N[0] = Body(0)
  BY <1>1 DEF n0
<1>4. N[1] = Body(1)
  BY <1>1 DEF n1
<1>5. N[2] = Body(2)
  BY <1>1 DEF n2
<1>6. N[3] = Body(3)
  BY <1>1 DEF n3
<1>7. N[4] = Body(4)
  BY <1>1 DEF n4
<1> HIDE DEF Body
<1>8. \A h \in 0..Height : N[h] = Body(h)
  BY <1>3, <1>4, <1>5, <1>6, <1>7 DEF Height
<1>9. N = [h \in 0..Height |-> Body(h)]
  BY <1>2, <1>8
<1> QED
  BY <1>9 DEF Body, IsHashed, Aligned

\* HashNode gives the leaf itself at height 0, and the pair of its halves above.
LEMMA HashNodeFacts ==
  ASSUME NEW t
  PROVE  /\ \A i \in Leaves : HashNode(t)[0][i] = t[i]
         /\ \A h \in 0..3 : \A i \in Aligned(h + 1) :
              HashNode(t)[h + 1][i] = <<HashNode(t)[h][i], HashNode(t)[h][i + 2^h]>>
<1>1. PICK N : N = HashNode(t)
  OBVIOUS
<1>2. N = CHOOSE u : IsHashed(u, t)
  BY <1>1 DEF HashNode, IsHashed
<1>3. IsHashed(N, t)
  BY <1>2, HashedExists
<1>4. \A h \in 0..Height : N[h] = [i \in Aligned(h) |-> IF h = 0 THEN t[i] ELSE <<N[h-1][i], N[h-1][i + 2^(h-1)]>>]
  BY <1>3 DEF IsHashed, Aligned
<1>5. Aligned(0) = Leaves
  BY Powers DEF Aligned, Leaves
<1>6. \A i \in Leaves : N[0][i] = t[i]
  BY <1>4, <1>5 DEF Height
<1>7. ASSUME NEW h \in 0..3, NEW i \in Aligned(h + 1)
      PROVE  N[h + 1][i] = <<N[h][i], N[h][i + 2^h]>>
  <2>1. h + 1 \in 0..Height /\ h + 1 # 0 /\ (h + 1) - 1 = h
    BY DEF Height
  <2>2. N[h + 1] = [j \in Aligned(h + 1) |-> <<N[h][j], N[h][j + 2^h]>>]
    BY <1>4, <2>1
  <2> QED
    BY <2>2
<1> QED
  BY <1>1, <1>6, <1>7

\* The path from a leaf up: the node above it at a level, and its sibling.
At(leaf, l) == (leaf \div 2^l) * 2^l
Bit(leaf, l) == (leaf \div 2^l) % 2 = 1
Sibling(leaf, l) == IF Bit(leaf, l) THEN At(leaf, l) - 2^l ELSE At(leaf, l) + 2^l

\* A node and its sibling start where nodes of their height do, and are the halves of the node above.
LEMMA PathFacts ==
  ASSUME NEW leaf \in Leaves, NEW l \in 0..3
  PROVE  /\ At(leaf, l) \in Aligned(l) /\ Sibling(leaf, l) \in Aligned(l)
         /\ At(leaf, l + 1) \in Aligned(l + 1)
         /\ Bit(leaf, l) => At(leaf, l + 1) = Sibling(leaf, l) /\ At(leaf, l) = Sibling(leaf, l) + 2^l
         /\ ~Bit(leaf, l) => At(leaf, l + 1) = At(leaf, l) /\ Sibling(leaf, l) = At(leaf, l) + 2^l
<1>1. CASE l = 0
  BY <1>1, Powers DEF At, Bit, Sibling, Aligned, Leaves
<1>2. CASE l = 1
  BY <1>2, Powers DEF At, Bit, Sibling, Aligned, Leaves
<1>3. CASE l = 2
  BY <1>3, Powers DEF At, Bit, Sibling, Aligned, Leaves
<1>4. CASE l = 3
  BY <1>4, Powers DEF At, Bit, Sibling, Aligned, Leaves
<1> QED
  BY <1>1, <1>2, <1>3, <1>4

\* One turn of bubble_up.
Join(leaf, l, s, x) == IF Bit(leaf, l) THEN <<s, x>> ELSE <<x, s>>

Up1(leaf, h, sib, x) == Join(leaf, h, sib[1], x)
Up2(leaf, h, sib, x) == Join(leaf, h + 1, sib[2], Up1(leaf, h, sib, x))
Up3(leaf, h, sib, x) == Join(leaf, h + 2, sib[3], Up2(leaf, h, sib, x))
Up4(leaf, h, sib, x) == Join(leaf, h + 3, sib[4], Up3(leaf, h, sib, x))

\* What the function in bubble_up is.
IsClimb(U, leaf, h, sib, x, n) ==
  U = [k \in 0..n |-> IF k = 0 THEN x ELSE Join(leaf, h + k - 1, sib[k], U[k-1])]

\* There is one: at most four turns.
LEMMA ClimbExists ==
  ASSUME NEW leaf, NEW h \in 0..2, NEW sib, NEW x, NEW n \in 0..4
  PROVE  \E U : IsClimb(U, leaf, h, sib, x, n)
<1> DEFINE u1 == Up1(leaf, h, sib, x)
           u2 == Up2(leaf, h, sib, x)
           u3 == Up3(leaf, h, sib, x)
           u4 == Up4(leaf, h, sib, x)
           U == [k \in 0..n |-> IF k = 0 THEN x ELSE IF k = 1 THEN u1 ELSE IF k = 2 THEN u2
                                ELSE IF k = 3 THEN u3 ELSE u4]
<1>1. /\ u1 = Join(leaf, h + 1 - 1, sib[1], x) /\ u2 = Join(leaf, h + 2 - 1, sib[2], u1)
      /\ u3 = Join(leaf, h + 3 - 1, sib[3], u2) /\ u4 = Join(leaf, h + 4 - 1, sib[4], u3)
  <2>1. h + 1 - 1 = h /\ h + 2 - 1 = h + 1 /\ h + 3 - 1 = h + 2 /\ h + 4 - 1 = h + 3
    OBVIOUS
  <2> QED
    BY <2>1 DEF Up1, Up2, Up3, Up4
<1> HIDE DEF u1, u2, u3, u4
<1>2. U = [k \in 0..n |-> U[k]] /\ U[0] = x
  OBVIOUS
<1>3. \A k \in 1..n : U[k] = Join(leaf, h + k - 1, sib[k], U[k-1])
  <2> SUFFICES ASSUME NEW k \in 1..n
               PROVE  U[k] = Join(leaf, h + k - 1, sib[k], U[k-1])
    OBVIOUS
  <2>1. CASE k = 1
    BY <1>1, <2>1
  <2>2. CASE k = 2
    BY <1>1, <2>2
  <2>3. CASE k = 3
    BY <1>1, <2>3
  <2>4. CASE k = 4
    BY <1>1, <2>4
  <2> QED
    BY <2>1, <2>2, <2>3, <2>4
<1> HIDE DEF U
<1>4. \A k \in 0..n : U[k] = IF k = 0 THEN x ELSE Join(leaf, h + k - 1, sib[k], U[k-1])
  <2> SUFFICES ASSUME NEW k \in 0..n
               PROVE  U[k] = IF k = 0 THEN x ELSE Join(leaf, h + k - 1, sib[k], U[k-1])
    OBVIOUS
  <2>1. CASE k = 0
    BY <1>2, <2>1
  <2>2. CASE k # 0
    <3>1. k \in 1..n
      BY <2>2
    <3> QED
      BY <1>3, <2>2, <3>1
  <2> QED
    BY <2>1, <2>2
<1> QED
  BY <1>2, <1>4 DEF IsClimb

\* bubble_up is as many turns as there are siblings.
LEMMA BubbleUp ==
  ASSUME NEW leaf, NEW h \in 0..2, NEW sib, NEW x, NEW n \in 2..4, Len(sib) = n
  PROVE  bubble_up(leaf, h, sib, x) =
           IF n = 4 THEN Up4(leaf, h, sib, x) ELSE IF n = 3 THEN Up3(leaf, h, sib, x) ELSE Up2(leaf, h, sib, x)
<1> DEFINE U == CHOOSE u : IsClimb(u, leaf, h, sib, x, Len(sib))
<1>1. bubble_up(leaf, h, sib, x) = U[Len(sib)]
  BY DEF bubble_up, IsClimb, Join, Bit
<1>2. \E u : IsClimb(u, leaf, h, sib, x, Len(sib))
  <2>1. n \in 0..4
    OBVIOUS
  <2>2. \E u : IsClimb(u, leaf, h, sib, x, n)
    BY <2>1, ClimbExists
  <2> QED
    BY <2>2
<1>3. IsClimb(U, leaf, h, sib, x, Len(sib))
  BY <1>2
<1> HIDE DEF U
<1>4. IsClimb(U, leaf, h, sib, x, n) /\ bubble_up(leaf, h, sib, x) = U[n]
  BY <1>1, <1>3
<1>5. U[0] = x /\ \A k \in 1..n : U[k] = Join(leaf, h + k - 1, sib[k], U[k-1])
  BY <1>4 DEF IsClimb
<1>6. U[1] = Up1(leaf, h, sib, x) /\ U[2] = Up2(leaf, h, sib, x)
  <2>1. U[1] = Join(leaf, h + 1 - 1, sib[1], U[0]) /\ h + 1 - 1 = h
    BY <1>5
  <2>2. U[2] = Join(leaf, h + 2 - 1, sib[2], U[1]) /\ h + 2 - 1 = h + 1
    BY <1>5
  <2> QED
    BY <1>5, <2>1, <2>2 DEF Up1, Up2
<1>7. n \in 3..4 => U[3] = Up3(leaf, h, sib, x)
  <2>1. n \in 3..4 => U[3] = Join(leaf, h + 3 - 1, sib[3], U[2]) /\ h + 3 - 1 = h + 2
    BY <1>5
  <2> QED
    BY <1>6, <2>1 DEF Up3
<1>8. n = 4 => U[4] = Up4(leaf, h, sib, x)
  <2>1. n = 4 => U[4] = Join(leaf, h + 4 - 1, sib[4], U[3]) /\ h + 4 - 1 = h + 3
    BY <1>5
  <2> QED
    BY <1>7, <2>1 DEF Up4
<1>9. CASE n = 4
  BY <1>4, <1>8, <1>9
<1>10. CASE n = 3
  BY <1>4, <1>7, <1>10
<1>11. CASE n = 2
  BY <1>4, <1>6, <1>11
<1> QED
  BY <1>9, <1>10, <1>11

\* A turn of bubble_up with the true sibling leads to the true node above, and with no other.
LEMMA JoinNode ==
  ASSUME NEW t, NEW leaf \in Leaves, NEW l \in 0..3, NEW s, NEW x
  PROVE  Join(leaf, l, s, x) = HashNode(t)[l + 1][At(leaf, l + 1)]
           <=> x = HashNode(t)[l][At(leaf, l)] /\ s = HashNode(t)[l][Sibling(leaf, l)]
<1>1. HashNode(t)[l + 1][At(leaf, l + 1)] =
        <<HashNode(t)[l][At(leaf, l + 1)], HashNode(t)[l][At(leaf, l + 1) + 2^l]>>
  BY PathFacts, HashNodeFacts
<1>2. CASE Bit(leaf, l)
  <2>1. At(leaf, l + 1) = Sibling(leaf, l) /\ At(leaf, l) = Sibling(leaf, l) + 2^l
    BY <1>2, PathFacts
  <2> QED
    BY <1>1, <1>2, <2>1 DEF Join
<1>3. CASE ~Bit(leaf, l)
  <2>1. At(leaf, l + 1) = At(leaf, l) /\ Sibling(leaf, l) = At(leaf, l) + 2^l
    BY <1>3, PathFacts
  <2> QED
    BY <1>1, <1>3, <2>1 DEF Join
<1> QED
  BY <1>2, <1>3

\* Every path ends at the root.
LEMMA Root == ASSUME NEW t, NEW leaf \in Leaves PROVE RootOf(t) = HashNode(t)[4][At(leaf, 4)]
<1>1. At(leaf, 4) = 0
  BY Powers DEF At, Leaves
<1> QED
  BY <1>1 DEF RootOf, Height

\* The siblings given are those of the node of 2^h leaves at leaf.
SiblingsOf(sib, t, leaf, h) ==
  Len(sib) = 4 - h /\ \A k \in 1..(4 - h) : sib[k] = HashNode(t)[h + k - 1][Sibling(leaf, h + k - 1)]

\* bubble_up reaches the root hash of a tree only from the node of the tree, along the siblings of
\* the tree: hashes do not collide.
LEMMA BubbleNode ==
  ASSUME NEW t, NEW leaf \in Leaves, NEW h \in 0..2, NEW sib, NEW x, Len(sib) = 4 - h
  PROVE  bubble_up(leaf, h, sib, x) = RootOf(t)
           <=> x = HashNode(t)[h][At(leaf, h)] /\ SiblingsOf(sib, t, leaf, h)
<1> DEFINE N(l) == HashNode(t)[l][At(leaf, l)]
           S(l) == HashNode(t)[l][Sibling(leaf, l)]
<1>1. \A l \in 0..3 : \A s, y : Join(leaf, l, s, y) = N(l + 1) <=> y = N(l) /\ s = S(l)
  BY JoinNode
<1>2. RootOf(t) = N(4)
  BY Root
<1>3. SiblingsOf(sib, t, leaf, h) <=> \A k \in 1..(4 - h) : sib[k] = S(h + k - 1)
  BY DEF SiblingsOf
<1>4. \A n \in 2..4 : Len(sib) = n => bubble_up(leaf, h, sib, x) =
           IF n = 4 THEN Up4(leaf, h, sib, x) ELSE IF n = 3 THEN Up3(leaf, h, sib, x) ELSE Up2(leaf, h, sib, x)
  BY BubbleUp
<1> HIDE DEF N, S
<1>5. CASE h = 0
  <2>1. Up1(leaf, 0, sib, x) = N(1) <=> x = N(0) /\ sib[1] = S(0)
    BY <1>1 DEF Up1
  <2>2. Up2(leaf, 0, sib, x) = N(2) <=> Up1(leaf, 0, sib, x) = N(1) /\ sib[2] = S(1)
    BY <1>1 DEF Up2
  <2>3. Up3(leaf, 0, sib, x) = N(3) <=> Up2(leaf, 0, sib, x) = N(2) /\ sib[3] = S(2)
    BY <1>1 DEF Up3
  <2>4. Up4(leaf, 0, sib, x) = N(4) <=> Up3(leaf, 0, sib, x) = N(3) /\ sib[4] = S(3)
    BY <1>1 DEF Up4
  <2>5. (\A k \in 1..(4 - h) : sib[k] = S(h + k - 1)) <=> sib[1] = S(0) /\ sib[2] = S(1) /\ sib[3] = S(2) /\ sib[4] = S(3)
    <3>1. (\A k \in 1..(4 - h) : sib[k] = S(h + k - 1)) => sib[1] = S(0) /\ sib[2] = S(1) /\ sib[3] = S(2) /\ sib[4] = S(3)
      <4>1. 0 + 1 - 1 = 0 /\ 0 + 2 - 1 = 1 /\ 0 + 3 - 1 = 2 /\ 0 + 4 - 1 = 3 /\ {1, 2, 3, 4} \subseteq 1..(4 - 0)
        OBVIOUS
      <4> QED
        BY <1>5, <4>1
    <3> QED
      BY <1>5, <3>1
  <2>6. bubble_up(leaf, h, sib, x) = Up4(leaf, 0, sib, x)
    <3>1. Len(sib) = 4
      BY <1>5
    <3> QED
      BY <1>4, <1>5, <3>1
  <2>7. HashNode(t)[h][At(leaf, h)] = N(0)
    BY <1>5 DEF N
  <2> QED
    BY <1>2, <1>3, <2>1, <2>2, <2>3, <2>4, <2>5, <2>6, <2>7
<1>6. CASE h = 1
  <2>1. Up1(leaf, 1, sib, x) = N(2) <=> x = N(1) /\ sib[1] = S(1)
    BY <1>1 DEF Up1
  <2>2. Up2(leaf, 1, sib, x) = N(3) <=> Up1(leaf, 1, sib, x) = N(2) /\ sib[2] = S(2)
    BY <1>1 DEF Up2
  <2>3. Up3(leaf, 1, sib, x) = N(4) <=> Up2(leaf, 1, sib, x) = N(3) /\ sib[3] = S(3)
    BY <1>1 DEF Up3
  <2>5. (\A k \in 1..(4 - h) : sib[k] = S(h + k - 1)) <=> sib[1] = S(1) /\ sib[2] = S(2) /\ sib[3] = S(3)
    <3>1. (\A k \in 1..(4 - h) : sib[k] = S(h + k - 1)) => sib[1] = S(1) /\ sib[2] = S(2) /\ sib[3] = S(3)
      <4>1. 1 + 1 - 1 = 1 /\ 1 + 2 - 1 = 2 /\ 1 + 3 - 1 = 3 /\ {1, 2, 3} \subseteq 1..(4 - 1)
        OBVIOUS
      <4> QED
        BY <1>6, <4>1
    <3> QED
      BY <1>6, <3>1
  <2>6. bubble_up(leaf, h, sib, x) = Up3(leaf, 1, sib, x)
    <3>1. Len(sib) = 3
      BY <1>6
    <3> QED
      BY <1>4, <1>6, <3>1
  <2>7. HashNode(t)[h][At(leaf, h)] = N(1)
    BY <1>6 DEF N
  <2> QED
    BY <1>2, <1>3, <2>1, <2>2, <2>3, <2>5, <2>6, <2>7
<1>7. CASE h = 2
  <2>1. Up1(leaf, 2, sib, x) = N(3) <=> x = N(2) /\ sib[1] = S(2)
    BY <1>1 DEF Up1
  <2>2. Up2(leaf, 2, sib, x) = N(4) <=> Up1(leaf, 2, sib, x) = N(3) /\ sib[2] = S(3)
    BY <1>1 DEF Up2
  <2>5. (\A k \in 1..(4 - h) : sib[k] = S(h + k - 1)) <=> sib[1] = S(2) /\ sib[2] = S(3)
    <3>1. (\A k \in 1..(4 - h) : sib[k] = S(h + k - 1)) => sib[1] = S(2) /\ sib[2] = S(3)
      <4>1. 2 + 1 - 1 = 2 /\ 2 + 2 - 1 = 3 /\ {1, 2} \subseteq 1..(4 - 2)
        OBVIOUS
      <4> QED
        BY <1>7, <4>1
    <3> QED
      BY <1>7, <3>1
  <2>6. bubble_up(leaf, h, sib, x) = Up2(leaf, 2, sib, x)
    <3>1. Len(sib) = 2
      BY <1>7
    <3> QED
      BY <1>4, <1>7, <3>1
  <2>7. HashNode(t)[h][At(leaf, h)] = N(2)
    BY <1>7 DEF N
  <2> QED
    BY <1>2, <1>3, <2>1, <2>2, <2>5, <2>6, <2>7
<1> QED
  BY <1>5, <1>6, <1>7

\* A function on 1..n is a sequence of length n.
LEMMA FcnIsSeq ==
  ASSUME NEW n \in Nat, NEW S, NEW f \in [1..n -> S]
  PROVE  f \in Seq(S) /\ Len(f) = n
  OBVIOUS

\* Two nodes have the same leaves.
Alike(t, u, l, i, j) == \A k \in 0..(2^l - 1) : t[i + k] = u[j + k]

\* A node depends on its leaves only.
LEMMA SameNodes ==
  ASSUME NEW t, NEW u
  PROVE  \A l \in 0..4 : \A i, j \in Aligned(l) : Alike(t, u, l, i, j) => HashNode(t)[l][i] = HashNode(u)[l][j]
<1> USE DEF Alike
<1> DEFINE Agree(l, i, j) == Alike(t, u, l, i, j)
           Same(l) == \A i, j \in Aligned(l) : Agree(l, i, j) => HashNode(t)[l][i] = HashNode(u)[l][j]
<1>1. Same(0)
  <2> SUFFICES ASSUME NEW i \in Aligned(0), NEW j \in Aligned(0), Agree(0, i, j)
               PROVE  HashNode(t)[0][i] = HashNode(u)[0][j]
    OBVIOUS
  <2>1. i \in Leaves /\ j \in Leaves /\ 0 \in 0..(2^0 - 1) /\ i + 0 = i /\ j + 0 = j
    BY Powers DEF Aligned, Leaves
  <2>2. t[i] = u[j]
    BY <2>1
  <2> QED
    BY <2>1, <2>2, HashNodeFacts
<1>2. ASSUME NEW l \in 0..3, Same(l)
      PROVE  Same(l + 1)
  <2> SUFFICES ASSUME NEW i \in Aligned(l + 1), NEW j \in Aligned(l + 1), Agree(l + 1, i, j)
               PROVE  HashNode(t)[l + 1][i] = HashNode(u)[l + 1][j]
    OBVIOUS
  <2>1. PICK w \in Nat : w = 2^l /\ 2^(l + 1) = 2 * w /\ w >= 1
    <3>1. CASE l = 0
      BY <3>1, Powers
    <3>2. CASE l = 1
      BY <3>2, Powers
    <3>3. CASE l = 2
      BY <3>3, Powers
    <3>4. CASE l = 3
      BY <3>4, Powers
    <3> QED
      BY <3>1, <3>2, <3>3, <3>4
  <2>2. \A p \in Aligned(l + 1) : p \in Aligned(l) /\ p + 2^l \in Aligned(l) /\ p \in Nat
    <3>1. CASE l = 0
      BY <3>1, Powers DEF Aligned, Leaves
    <3>2. CASE l = 1
      BY <3>2, Powers DEF Aligned, Leaves
    <3>3. CASE l = 2
      BY <3>3, Powers DEF Aligned, Leaves
    <3>4. CASE l = 3
      BY <3>4, Powers DEF Aligned, Leaves
    <3> QED
      BY <3>1, <3>2, <3>3, <3>4
  <2>3. Agree(l, i, j)
    BY <2>1, <2>2
  <2>4. Agree(l, i + 2^l, j + 2^l)
    <3> SUFFICES ASSUME NEW k \in 0..(2^l - 1)
                 PROVE  t[(i + 2^l) + k] = u[(j + 2^l) + k]
      OBVIOUS
    <3>1. w + k \in 0..(2^(l + 1) - 1) /\ i + (w + k) = (i + 2^l) + k /\ j + (w + k) = (j + 2^l) + k
      BY <2>1, <2>2
    <3> QED
      BY <3>1
  <2>5. HashNode(t)[l][i] = HashNode(u)[l][j] /\ HashNode(t)[l][i + 2^l] = HashNode(u)[l][j + 2^l]
    BY <1>2, <2>2, <2>3, <2>4
  <2>6. /\ HashNode(t)[l + 1][i] = <<HashNode(t)[l][i], HashNode(t)[l][i + 2^l]>>
        /\ HashNode(u)[l + 1][j] = <<HashNode(u)[l][j], HashNode(u)[l][j + 2^l]>>
    <3>1. HashNode(t)[l + 1][i] = <<HashNode(t)[l][i], HashNode(t)[l][i + 2^l]>>
      BY HashNodeFacts
    <3>2. HashNode(u)[l + 1][j] = <<HashNode(u)[l][j], HashNode(u)[l][j + 2^l]>>
      BY HashNodeFacts
    <3> QED
      BY <3>1, <3>2
  <2> QED
    BY <2>5, <2>6
<1> HIDE DEF Same
<1>3. Same(1)
  <2>1. 0 + 1 = 1
    OBVIOUS
  <2> QED
    BY <1>1, <1>2, <2>1
<1>4. Same(2)
  <2>1. 1 + 1 = 2
    OBVIOUS
  <2> QED
    BY <1>3, <1>2, <2>1
<1>5. Same(3)
  <2>1. 2 + 1 = 3
    OBVIOUS
  <2> QED
    BY <1>4, <1>2, <2>1
<1>6. Same(4)
  <2>1. 3 + 1 = 4
    OBVIOUS
  <2> QED
    BY <1>5, <1>2, <2>1
<1>7. \A l \in 0..4 : Same(l)
  BY <1>1, <1>3, <1>4, <1>5, <1>6, \A l \in 0..4 : l \in {0, 1, 2, 3, 4}
<1> QED
  BY <1>7 DEF Same

\* A node that starts at leaf is the node above it at its own height.
LEMMA AtAligned ==
  ASSUME NEW h \in 0..2, NEW leaf \in Aligned(h)
  PROVE  leaf \in Leaves /\ At(leaf, h) = leaf /\ leaf + 2^h - 1 \in Leaves
<1>1. CASE h = 0
  BY <1>1, Powers DEF At, Aligned, Leaves
<1>2. CASE h = 1
  BY <1>2, Powers DEF At, Aligned, Leaves
<1>3. CASE h = 2
  BY <1>3, Powers DEF At, Aligned, Leaves
<1> QED
  BY <1>1, <1>2, <1>3

\* The siblings above a node have none of its leaves.
LEMMA SiblingsApart ==
  ASSUME NEW h \in 0..2, NEW leaf \in Aligned(h), NEW l \in h..3, NEW k \in 0..(2^l - 1)
  PROVE  Sibling(leaf, l) + k \in Leaves \ (leaf..(leaf + 2^h - 1))
<1>1. CASE h = 0
  <2>1. CASE l = 0
    BY <1>1, <2>1, Powers DEF Sibling, Bit, At, Aligned, Leaves
  <2>2. CASE l = 1
    BY <1>1, <2>2, Powers DEF Sibling, Bit, At, Aligned, Leaves
  <2>3. CASE l = 2
    BY <1>1, <2>3, Powers DEF Sibling, Bit, At, Aligned, Leaves
  <2>4. CASE l = 3
    BY <1>1, <2>4, Powers DEF Sibling, Bit, At, Aligned, Leaves
  <2> QED
    BY <1>1, <2>1, <2>2, <2>3, <2>4
<1>2. CASE h = 1
  <2>2. CASE l = 1
    BY <1>2, <2>2, Powers DEF Sibling, Bit, At, Aligned, Leaves
  <2>3. CASE l = 2
    BY <1>2, <2>3, Powers DEF Sibling, Bit, At, Aligned, Leaves
  <2>4. CASE l = 3
    BY <1>2, <2>4, Powers DEF Sibling, Bit, At, Aligned, Leaves
  <2> QED
    BY <1>2, <2>2, <2>3, <2>4
<1>3. CASE h = 2
  <2>3. CASE l = 2
    BY <1>3, <2>3, Powers DEF Sibling, Bit, At, Aligned, Leaves
  <2>4. CASE l = 3
    BY <1>3, <2>4, Powers DEF Sibling, Bit, At, Aligned, Leaves
  <2> QED
    BY <1>3, <2>3, <2>4
<1> QED
  BY <1>1, <1>2, <1>3

\* A change within a node leaves its siblings alone.
LEMMA SiblingsKept ==
  ASSUME NEW h \in 0..2, NEW leaf \in Aligned(h), NEW t, NEW u, NEW sib, SiblingsOf(sib, t, leaf, h),
         \A l \in Leaves \ (leaf..(leaf + 2^h - 1)) : t[l] = u[l]
  PROVE  SiblingsOf(sib, u, leaf, h)
<1>1. ASSUME NEW l \in h..3
      PROVE  HashNode(t)[l][Sibling(leaf, l)] = HashNode(u)[l][Sibling(leaf, l)]
  <2>1. Sibling(leaf, l) \in Aligned(l) /\ l \in 0..4
    <3>1. l \in 0..3 /\ l \in 0..4
      OBVIOUS
    <3>2. leaf \in Leaves
      BY AtAligned
    <3> QED
      BY <3>1, <3>2, PathFacts
  <2>2. Alike(t, u, l, Sibling(leaf, l), Sibling(leaf, l))
    BY SiblingsApart DEF Alike
  <2> QED
    BY <2>1, <2>2, SameNodes
<1>2. \A k \in 1..(4 - h) : h + k - 1 \in h..3
  OBVIOUS
<1> QED
  BY <1>1, <1>2 DEF SiblingsOf

\* Siblings gives the siblings of the node.
LEMMA SiblingsFacts ==
  ASSUME NEW h \in 0..2, NEW leaf \in Leaves, NEW t
  PROVE  /\ SiblingsOf(Siblings(t, leaf, h), t, leaf, h)
         /\ \E S : Siblings(t, leaf, h) \in Seq(S)
<1> DEFINE s == Siblings(t, leaf, h)
           S == {s[k] : k \in 1..(4 - h)}
<1>1. s = [k \in 1..(4 - h) |-> HashNode(t)[h + k - 1][Sibling(leaf, h + k - 1)]]
  <2>1. \A l \in 0..3 : At(leaf, l) \div 2^l = leaf \div 2^l
    <3> SUFFICES ASSUME NEW l \in 0..3 PROVE At(leaf, l) \div 2^l = leaf \div 2^l
      OBVIOUS
    <3>1. CASE l = 0
      BY <3>1, Powers DEF At, Leaves
    <3>2. CASE l = 1
      BY <3>2, Powers DEF At, Leaves
    <3>3. CASE l = 2
      BY <3>3, Powers DEF At, Leaves
    <3>4. CASE l = 3
      BY <3>4, Powers DEF At, Leaves
    <3> QED
      BY <3>1, <3>2, <3>3, <3>4
  <2>2. \A k \in 1..(4 - h) : h + k - 1 \in 0..3
    OBVIOUS
  <2>3. s = [k \in 1..(4 - h) |->
               HashNode(t)[h + k - 1][IF (At(leaf, h + k - 1) \div 2^(h + k - 1)) % 2 = 1
                                      THEN At(leaf, h + k - 1) - 2^(h + k - 1)
                                      ELSE At(leaf, h + k - 1) + 2^(h + k - 1)]]
    BY DEF Siblings, At, Height
  <2>4. \A k \in 1..(4 - h) :
          (IF (At(leaf, h + k - 1) \div 2^(h + k - 1)) % 2 = 1
             THEN At(leaf, h + k - 1) - 2^(h + k - 1) ELSE At(leaf, h + k - 1) + 2^(h + k - 1))
            = Sibling(leaf, h + k - 1)
    BY <2>1, <2>2 DEF Sibling, Bit
  <2> QED
    BY <2>3, <2>4
<1> HIDE DEF s
<1>2. s \in [1..(4 - h) -> S]
  BY <1>1
<1>3. s \in Seq(S) /\ Len(s) = 4 - h
  <2> HIDE DEF S
  <2>1. 4 - h \in Nat
    OBVIOUS
  <2> QED
    BY <1>2, <2>1, FcnIsSeq
<1> QED
  BY <1>1, <1>3 DEF SiblingsOf, s

\* What is known of the heights of accesses.
LEMMA HeightFacts ==
  ASSUME NEW h \in 0..2
  PROVE  0 \in Aligned(h) /\ h \in 0..4 /\ 2^h \in 1..4
<1>1. CASE h = 0
  BY <1>1, Powers DEF Aligned, Leaves
<1>2. CASE h = 1
  BY <1>2, Powers DEF Aligned, Leaves
<1>3. CASE h = 2
  BY <1>3, Powers DEF Aligned, Leaves
<1> QED
  BY <1>1, <1>2, <1>3

\* The hashes of the leaves of a memory, and its root.
HashOf(m) == [l \in Leaves |-> HashLeaf(m[l])]
RootAt(m) == RootOf(HashOf(m))

\* Data read from the leaves of a node hashes to the node.
LEMMA DataHash ==
  ASSUME NEW h \in 0..2, NEW leaf \in Aligned(h), NEW m, NEW data, Len(data) = 2^h,
         \A k \in 0..(2^h - 1) : m[leaf + k] = data[k + 1]
  PROVE  get_hash(data, h) = HashNode(HashOf(m))[h][leaf]
<1> DEFINE p == [i \in Leaves |-> HashLeaf(IF i < Len(data) THEN data[i + 1] ELSE <<0, 0>>)]
<1>1. get_hash(data, h) = HashNode(p)[h][0]
  BY DEF get_hash
<1>2. 0 \in Aligned(h) /\ h \in 0..4 /\ 2^h \in 1..4
  BY HeightFacts
<1>3. Alike(p, HashOf(m), h, 0, leaf)
  <2> SUFFICES ASSUME NEW k \in 0..(2^h - 1)
               PROVE  p[0 + k] = HashOf(m)[leaf + k]
    BY DEF Alike
  <2>1. k \in Leaves /\ 0 + k = k /\ k < Len(data) /\ leaf + k \in Leaves
    <3>1. leaf \in Leaves /\ leaf + 2^h - 1 \in Leaves
      BY AtAligned
    <3> QED
      BY <1>2, <3>1 DEF Leaves
  <2>2. p[k] = HashLeaf(data[k + 1])
    BY <2>1
  <2>3. HashOf(m)[leaf + k] = HashLeaf(data[k + 1])
    BY <2>1 DEF HashOf
  <2> QED
    BY <2>1, <2>2, <2>3
<1> HIDE DEF p
<1> QED
  BY <1>1, <1>2, <1>3, SameNodes

\* What is read of a node has its size and hashes to it.
LEMMA ReadFacts ==
  ASSUME NEW h \in 0..2, NEW leaf \in Aligned(h), NEW m
  PROVE  /\ Len(ReadMemory(m, leaf, h)) = 2^h
         /\ get_hash(ReadMemory(m, leaf, h), h) = HashNode(HashOf(m))[h][leaf]
         /\ h = 0 => ReadMemory(m, leaf, h) = <<m[leaf]>>
<1> DEFINE d == ReadMemory(m, leaf, h)
           S == {d[k] : k \in 1..2^h}
<1>1. d = [k \in 1..2^h |-> m[leaf + k - 1]]
  BY DEF ReadMemory
<1>2. 2^h \in Nat
  <2>1. 2^h \in 1..4
    BY HeightFacts
  <2> QED
    BY <2>1
<1> HIDE DEF d
<1>3. Len(d) = 2^h
  <2>1. d \in [1..2^h -> S]
    BY <1>1
  <2> HIDE DEF S
  <2> QED
    BY <1>2, <2>1, FcnIsSeq
<1>4. leaf \in Nat
  BY DEF Aligned, Leaves
<1>5. \A k \in 0..(2^h - 1) : m[leaf + k] = d[k + 1]
  <2> SUFFICES ASSUME NEW k \in 0..(2^h - 1) PROVE m[leaf + k] = d[k + 1]
    OBVIOUS
  <2>1. k + 1 \in 1..2^h /\ leaf + (k + 1) - 1 = leaf + k
    BY <1>2, <1>4
  <2> QED
    BY <1>1, <2>1
<1>6. h = 0 => d = <<m[leaf]>>
  <2>1. leaf + 1 - 1 = leaf
    BY <1>4
  <2> QED
    BY <1>1, <2>1, Powers
<1>7. get_hash(d, h) = HashNode(HashOf(m))[h][leaf]
  BY <1>3, <1>5, DataHash
<1> QED
  BY <1>3, <1>6, <1>7 DEF d

\* The hash of a leaf's data determines the data.
LEMMA LeafHash ==
  ASSUME NEW d, Len(d) = 1
  PROVE  get_hash(d, 0) = <<d[1]>>
<1> DEFINE m == [l \in Leaves |-> d[1]]
<1>1. 0 \in Aligned(0) /\ 0 \in Leaves /\ Len(d) = 2^0
  BY Powers DEF Aligned, Leaves
<1>2. \A k \in 0..(2^0 - 1) : m[0 + k] = d[k + 1]
  BY <1>1, Powers
<1>3. m[0] = d[1]
  BY <1>1
<1> HIDE DEF m
<1>4. get_hash(d, 0) = HashNode(HashOf(m))[0][0]
  BY <1>1, <1>2, DataHash
<1>5. HashNode(HashOf(m))[0][0] = HashOf(m)[0]
  BY <1>1, HashNodeFacts
<1> QED
  BY <1>1, <1>3, <1>4, <1>5 DEF HashOf, HashLeaf

\* Hashes of nodes of one, two and four leaves, as terms.
Term0(x) == \E a : x = <<a>>
Term1(x) == \E a, b : x = <<a, b>> /\ Term0(a) /\ Term0(b)
Term2(x) == \E a, b : x = <<a, b>> /\ Term1(a) /\ Term1(b)
OfHeight(x, h) == IF h = 0 THEN Term0(x) ELSE IF h = 1 THEN Term1(x) ELSE Term2(x)

\* No hash is that of nodes of two heights, and none is the empty one.
LEMMA TermsApart ==
  ASSUME NEW x, NEW g \in 0..2, NEW h \in 0..2, OfHeight(x, g), OfHeight(x, h)
  PROVE  g = h /\ x # <<>>
<1>1. ~(Term0(x) /\ Term1(x)) /\ ~(Term0(x) /\ Term2(x))
  BY DEF Term0, Term1, Term2
<1>2. ~(Term1(x) /\ Term2(x))
  <2> SUFFICES ASSUME Term1(x), Term2(x) PROVE FALSE
    OBVIOUS
  <2>1. PICK a, b : x = <<a, b>> /\ Term0(a)
    BY DEF Term1
  <2>2. PICK c, d : x = <<c, d>> /\ Term1(c)
    BY DEF Term2
  <2>3. a = c
    BY <2>1, <2>2
  <2> QED
    BY <2>1, <2>2, <2>3 DEF Term0, Term1
<1>3. ~Term0(<<>>) /\ ~Term1(<<>>) /\ ~Term2(<<>>)
  BY DEF Term0, Term1, Term2
<1> QED
  BY <1>1, <1>2, <1>3 DEF OfHeight

\* The nodes of a tree have the height they are at.
LEMMA NodeHeight ==
  ASSUME NEW m, NEW h \in 0..2, NEW i \in Aligned(h)
  PROVE  OfHeight(HashNode(HashOf(m))[h][i], h)
<1> DEFINE N(l, j) == HashNode(HashOf(m))[l][j]
<1>1. \A j \in Leaves : N(0, j) = HashOf(m)[j]
  BY HashNodeFacts
<1>2. \A j \in Aligned(1) : N(1, j) = <<N(0, j), N(0, j + 2^0)>>
  <2>1. 0 \in 0..3 /\ 0 + 1 = 1
    OBVIOUS
  <2> QED
    BY <2>1, HashNodeFacts
<1>3. \A j \in Aligned(2) : N(2, j) = <<N(1, j), N(1, j + 2^1)>>
  <2>1. 1 \in 0..3 /\ 1 + 1 = 2
    OBVIOUS
  <2> QED
    BY <2>1, HashNodeFacts
<1> HIDE DEF N
<1>4. \A j \in Leaves : Term0(N(0, j))
  BY <1>1 DEF HashOf, HashLeaf, Term0
<1>5. \A j \in Aligned(1) : Term1(N(1, j))
  <2>1. \A j \in Aligned(1) : j \in Leaves /\ j + 2^0 \in Leaves
    BY Powers DEF Aligned, Leaves
  <2> QED
    BY <1>2, <1>4, <2>1 DEF Term1
<1>6. \A j \in Aligned(2) : Term2(N(2, j))
  <2>1. \A j \in Aligned(2) : j \in Aligned(1) /\ j + 2^1 \in Aligned(1)
    BY Powers DEF Aligned, Leaves
  <2> QED
    BY <1>3, <1>5, <2>1 DEF Term2
<1>7. OfHeight(N(h, i), h)
  BY <1>4, <1>5, <1>6, AtAligned DEF OfHeight
<1> QED
  BY <1>7 DEF N

\* So have the hashes of data.
LEMMA DataHeight ==
  ASSUME NEW h \in 0..2, NEW data
  PROVE  OfHeight(get_hash(data, h), h)
<1> DEFINE m == [i \in Leaves |-> IF i < Len(data) THEN data[i + 1] ELSE <<0, 0>>]
<1>1. HashOf(m) = [i \in Leaves |-> HashLeaf(IF i < Len(data) THEN data[i + 1] ELSE <<0, 0>>)]
  BY DEF HashOf
<1>2. get_hash(data, h) = HashNode(HashOf(m))[h][0]
  BY <1>1 DEF get_hash
<1>3. 0 \in Aligned(h)
  BY HeightFacts
<1> HIDE DEF m
<1> QED
  BY <1>2, <1>3, NodeHeight

----------------------------------------------------------------------------
(* Requests and what they make of memory                                    *)
\* A set of naturals has a least member.
LEMMA LeastNat ==
  ASSUME NEW T, T \subseteq Nat, T # {}
  PROVE  \E x \in T : \A y \in T : x <= y
<1>1. PICK x \in T : \A y \in T : ~(<<y, x>> \in OpToRel(<, Nat))
  BY NatLessThanWellFounded, WFMin, Zenon
<1>2. \A y \in T : ~(y < x)
  BY <1>1 DEF OpToRel
<1> QED
  BY <1>2

\* What a request makes of memory.
After(m, r) ==
  IF r.t # "write" THEN m
  ELSE IF r.size < 0 THEN WriteWord(m, r.addr, r.data[1])
  ELSE WriteData(m, r.addr \div 2, r.data)

\* The requests that the programs make.
IsRead(r) == r.t = "read" /\ r.size = -1 /\ r.addr \in 0..31
IsWrite(r) == r.t = "write" /\ r.size = -1 /\ r.addr \in 0..31
IsNode(r) == /\ r.t = "write" /\ r.size \in 0..2 /\ Len(r.data) = 2^r.size
             /\ \E leaf \in Aligned(r.size) : r.addr = 2 * leaf
IsRevert(r) == r.t = "revert" /\ r.size = 0 /\ r.addr = 2 * REVERT_LEAF
RequestOK(r) == IsRead(r) \/ IsWrite(r) \/ IsNode(r) \/ IsRevert(r)

\* The node a request is about.
Leaf(r) == r.addr \div 2
NodeOf(r) == Leaf(r)..(Leaf(r) + 2^AccessHeight(r.size) - 1)

\* A request is about a node of up to four leaves, where adjust_access finds it.
LEMMA LeafFacts ==
  ASSUME NEW r, RequestOK(r)
  PROVE  /\ AccessHeight(r.size) \in 0..2 /\ Leaf(r) \in Aligned(AccessHeight(r.size)) /\ Leaf(r) \in Leaves
         /\ adjust_access(r.addr, r.size) = Leaf(r)
         /\ ~IsNode(r) => AccessHeight(r.size) = 0
         /\ r.t \in {"read", "write", "revert"} /\ r.size \in -1..2
<1>1. CASE r.size = -1 /\ r.addr \in 0..31 /\ r.t \in {"read", "write"}
  BY <1>1, Powers DEF AccessHeight, adjust_access, Leaf, Aligned, Leaves, IsNode
<1>2. CASE IsRevert(r)
  BY <1>2, Powers DEF AccessHeight, adjust_access, Leaf, Aligned, Leaves, IsNode, IsRevert, REVERT_LEAF
<1>3. CASE IsNode(r)
  <2>1. PICK leaf \in Aligned(r.size) : r.addr = 2 * leaf
    BY <1>3 DEF IsNode
  <2>2. leaf \in 0..15 /\ (2 * leaf) \div 2 = leaf
    BY DEF Aligned, Leaves
  <2>3. (leaf \div 2^r.size) * 2^r.size = leaf
    BY <1>3, AtAligned DEF At, IsNode
  <2>4. r.size \in 0..2 /\ ~(r.size < 0) /\ AccessHeight(r.size) = r.size
    BY <1>3 DEF IsNode, AccessHeight
  <2> QED
    BY <1>3, <2>1, <2>2, <2>3, <2>4 DEF adjust_access, Leaf, Leaves, IsNode
<1> QED
  BY <1>1, <1>2, <1>3 DEF RequestOK, IsRead, IsWrite

\* The data of a node lands on its leaves.
Lands(m, r) == \A k \in 0..(2^r.size - 1) : After(m, r)[Leaf(r) + k] = r.data[k + 1]

\* A request changes its own node only.
LEMMA AfterFacts ==
  ASSUME NEW m, OnLeaves(m), NEW r, RequestOK(r)
  PROVE  /\ OnLeaves(After(m, r))
         /\ \A l \in Leaves \ NodeOf(r) : After(m, r)[l] = m[l]
         /\ r.t # "write" => After(m, r) = m
         /\ IsWrite(r) => After(m, r)[Leaf(r)] = [m[Leaf(r)] EXCEPT ![1 + (r.addr % 2)] = r.data[1]]
         /\ IsNode(r) => Lands(m, r)
<1>1. CASE r.t # "write"
  BY <1>1 DEF After, IsWrite, IsNode
<1>2. CASE IsWrite(r)
  <2>1. After(m, r) = [m EXCEPT ![Leaf(r)][1 + (r.addr % 2)] = r.data[1]]
    BY <1>2 DEF After, WriteWord, Leaf, IsWrite
  <2>2. NodeOf(r) = {Leaf(r)} /\ Leaf(r) \in Leaves
    BY <1>2, LeafFacts, Powers DEF NodeOf, IsWrite, AccessHeight, Leaves
  <2>3. DOMAIN m = Leaves
    BY DEF OnLeaves
  <2>4. After(m, r) = [l \in Leaves |-> IF l = Leaf(r) THEN [m[Leaf(r)] EXCEPT ![1 + (r.addr % 2)] = r.data[1]] ELSE m[l]]
    BY <2>1, <2>2, <2>3 DEF OnLeaves
  <2>5. ~IsNode(r)
    <3>1. r.size = -1 /\ -1 \notin 0..2
      BY <1>2 DEF IsWrite
    <3> QED
      BY <3>1 DEF IsNode
  <2> QED
    BY <1>2, <2>2, <2>4, <2>5 DEF OnLeaves, IsWrite
<1>3. CASE IsNode(r)
  <2>1. PICK n \in 1..4 : n = 2^r.size /\ Len(r.data) = n
    BY <1>3, HeightFacts DEF IsNode
  <2>2. After(m, r) = [l \in Leaves |-> IF l \in Leaf(r)..(Leaf(r) + n - 1) THEN r.data[l - Leaf(r) + 1] ELSE m[l]]
    BY <1>3, <2>1 DEF After, WriteData, Leaf, IsNode
  <2>3. NodeOf(r) = Leaf(r)..(Leaf(r) + n - 1)
    BY <1>3, <2>1 DEF NodeOf, IsNode, AccessHeight
  <2>4. Leaf(r) \in Leaves /\ Leaf(r) + n - 1 \in Leaves
    <3>1. AccessHeight(r.size) = r.size
      BY <1>3 DEF IsNode, AccessHeight
    <3>2. r.size \in 0..2 /\ Leaf(r) \in Aligned(r.size)
      BY <1>3, <3>1, LeafFacts DEF IsNode
    <3> QED
      BY <2>1, <3>2, AtAligned
  <2>5. \A k \in 0..(n - 1) : /\ Leaf(r) + k \in Leaf(r)..(Leaf(r) + n - 1) /\ Leaf(r) + k \in Leaves
                              /\ (Leaf(r) + k) - Leaf(r) + 1 = k + 1
    <3>1. PICK a \in 0..15 : a = Leaf(r) /\ a + n - 1 \in 0..15
      BY <2>4 DEF Leaves
    <3>2. \A b \in 0..15 : b + n - 1 \in 0..15 => \A k \in 0..(n - 1) :
            b + k \in b..(b + n - 1) /\ b + k \in 0..15 /\ (b + k) - b + 1 = k + 1
      OBVIOUS
    <3>3. \A k \in 0..(n - 1) : a + k \in a..(a + n - 1) /\ a + k \in 0..15 /\ (a + k) - a + 1 = k + 1
      BY <3>1, <3>2
    <3> QED
      BY <3>1, <3>3 DEF Leaves
  <2>6. Lands(m, r)
    BY <2>1, <2>2, <2>5 DEF Lands
  <2> QED
    BY <1>3, <2>2, <2>3, <2>6 DEF OnLeaves, IsWrite, IsNode
<1> QED
  BY <1>1, <1>2, <1>3 DEF RequestOK, IsRead, IsRevert

\* What the function in Effect is.
IsEffect(E, all, m, n) == E = [i \in 0..n |-> IF i = 0 THEN m ELSE After(E[i - 1], all[i])]

\* There is one, by a least counterexample: it can always be continued.
LEMMA EffectGoesOn ==
  ASSUME NEW all, NEW m, NEW n \in Nat, NEW E, IsEffect(E, all, m, n)
  PROVE  \E F : IsEffect(F, all, m, n + 1)
<1> DEFINE F == [i \in 0..(n + 1) |-> IF i <= n THEN E[i] ELSE After(E[n], all[n + 1])]
<1>1. F = [i \in 0..(n + 1) |-> F[i]]
  OBVIOUS
<1>2. \A i \in 0..n : F[i] = E[i]
  OBVIOUS
<1>3. F[n + 1] = After(E[n], all[n + 1])
  OBVIOUS
<1> HIDE DEF F
<1>4. \A i \in 0..(n + 1) : F[i] = IF i = 0 THEN m ELSE After(F[i - 1], all[i])
  <2> SUFFICES ASSUME NEW i \in 0..(n + 1)
               PROVE  F[i] = IF i = 0 THEN m ELSE After(F[i - 1], all[i])
    OBVIOUS
  <2>1. CASE i = n + 1
    <3>1. i # 0 /\ i - 1 = n /\ n \in 0..n
      BY <2>1
    <3> QED
      BY <1>2, <1>3, <2>1, <3>1
  <2>2. CASE i \in 1..n
    <3>1. i - 1 \in 0..n /\ i \in 0..n /\ i # 0
      BY <2>2
    <3> QED
      BY <1>2, <3>1 DEF IsEffect
  <2>3. CASE i = 0
    BY <1>2, <2>3 DEF IsEffect
  <2> QED
    BY <2>1, <2>2, <2>3
<1> QED
  BY <1>1, <1>4 DEF IsEffect

\* Hence for every number of requests.
LEMMA EffectExists ==
  ASSUME NEW all, NEW m, NEW n \in Nat
  PROVE  \E E : IsEffect(E, all, m, n)
<1> DEFINE T == {k \in Nat : ~\E E : IsEffect(E, all, m, k)}
<1>1. T \subseteq Nat /\ \A k \in Nat : k \notin T => \E E : IsEffect(E, all, m, k)
  OBVIOUS
<1>2. 0 \notin T
  <2>1. IsEffect([i \in 0..0 |-> m], all, m, 0)
    BY DEF IsEffect
  <2> QED
    BY <2>1
<1>3. \A k \in Nat : k \notin T => k + 1 \notin T
  BY <1>1, EffectGoesOn
<1> HIDE DEF T
<1>4. ASSUME NEW k \in T, \A y \in T : k <= y PROVE FALSE
  <2>1. k - 1 \in Nat /\ (k - 1) + 1 = k /\ k - 1 \notin T
    BY <1>1, <1>2, <1>4
  <2> QED
    BY <1>3, <2>1
<1>5. T = {}
  BY <1>1, <1>4, LeastNat
<1> QED
  BY <1>1, <1>5

\* The memories in between.
EffectRun(E, all, m, n) ==
  Effect(all, m) = E[n] /\ E[0] = m /\ \A i \in 1..n : E[i] = After(E[i - 1], all[i])

\* Effect carries the requests out one after the other.
LEMMA EffectFacts ==
  ASSUME NEW all, NEW m, NEW n \in Nat, Len(all) = n
  PROVE  \E E : EffectRun(E, all, m, n)
<1> DEFINE E == CHOOSE F : IsEffect(F, all, m, Len(all))
<1>1. Effect(all, m) = E[Len(all)]
  BY DEF Effect, IsEffect, After
<1>2. IsEffect(E, all, m, Len(all))
  <2>1. \E F : IsEffect(F, all, m, n)
    BY EffectExists
  <2>2. \E F : IsEffect(F, all, m, Len(all))
    BY <2>1
  <2> QED
    BY <2>2
<1> HIDE DEF E
<1>3. IsEffect(E, all, m, n) /\ Effect(all, m) = E[n]
  BY <1>1, <1>2
<1>4. E[0] = m /\ \A i \in 1..n : E[i] = After(E[i - 1], all[i])
  BY <1>3 DEF IsEffect
<1> QED
  BY <1>3, <1>4 DEF EffectRun

\* The effect of one request.
LEMMA EffectOne == ASSUME NEW r, NEW m PROVE Effect(<<r>>, m) = After(m, r)
<1>1. Len(<<r>>) = 1 /\ <<r>>[1] = r
  OBVIOUS
<1>2. PICK E : EffectRun(E, <<r>>, m, 1)
  BY <1>1, EffectFacts
<1>3. E[1] = After(E[1 - 1], <<r>>[1]) /\ Effect(<<r>>, m) = E[1] /\ E[0] = m
  BY <1>2 DEF EffectRun
<1> QED
  BY <1>1, <1>2, <1>3

----------------------------------------------------------------------------
(* Accesses as they are recorded, damaged and checked                       *)
AccessFields == {"type", "addr", "size", "sib", "rhash", "read", "whash", "written"}

\* The access that the recorder of request r makes of memory m.
Good(a, m, r) ==
  LET h == AccessHeight(r.size)
      writes == r.t = "write"
  IN /\ DOMAIN a = AccessFields
     /\ a.type = IF writes THEN "write" ELSE "read"
     /\ a.addr = r.addr /\ a.size = r.size
     /\ a.sib = Siblings(HashOf(m), Leaf(r), h)
     /\ a.rhash = HashNode(HashOf(m))[h][Leaf(r)]
     /\ a.whash = IF writes THEN {HashNode(HashOf(After(m, r)))[h][Leaf(r)]} ELSE {}
     /\ a.read \subseteq {ReadMemory(m, Leaf(r), h)} /\ (~IsNode(r) => a.read # {})
     /\ a.written \subseteq IF writes THEN {ReadMemory(After(m, r), Leaf(r), h)} ELSE {}
     /\ IsWrite(r) => a.written # {}

\* Pages hold whole nodes, so a tree brought up to date for the page written is up to date.
LEMMA OnePage ==
  ASSUME NEW m, OnLeaves(m), NEW r, RequestOK(r)
  PROVE  \A l \in Leaves : PageOf(l) # PageOf(Leaf(r)) => After(m, r)[l] = m[l]
<1>1. \A l \in Leaves : PageOf(l) # PageOf(Leaf(r)) => l \notin NodeOf(r)
  <2>1. PICK h \in 0..2 : h = AccessHeight(r.size) /\ Leaf(r) \in Aligned(h)
    BY LeafFacts
  <2>2. CASE h = 0
    BY <2>1, <2>2, Powers DEF NodeOf, PageOf, Leaves, Aligned
  <2>3. CASE h = 1
    BY <2>1, <2>3, Powers DEF NodeOf, PageOf, Leaves, Aligned
  <2>4. CASE h = 2
    BY <2>1, <2>4, Powers DEF NodeOf, PageOf, Leaves, Aligned
  <2> QED
    BY <2>2, <2>3, <2>4
<1> QED
  BY <1>1, AfterFacts

\* So a tree that is brought up to date for the page of the request is the tree of the new memory.
LEMMA UpdatedTree ==
  ASSUME NEW m, OnLeaves(m), NEW r, RequestOK(r)
  PROVE  Updated(After(m, r), HashOf(m), {PageOf(Leaf(r))}) = HashOf(After(m, r))
  BY OnePage DEF Updated, HashOf

\* The recorders make such an access, carry the request out and keep their tree up to date.
LEMMA RecordGood ==
  ASSUME OnLeaves(mem), tree = HashOf(mem), NEW r, RequestOK(r), rec.op = "send" => ~IsRevert(r)
  PROVE  /\ Good(Entry(r).a, mem, r)
         /\ Entry(r).mem = After(mem, r) /\ Entry(r).tree = HashOf(After(mem, r))
<1> DEFINE h == AccessHeight(r.size)
           m2 == After(mem, r)
           N == HashNode(HashOf(mem))[h][Leaf(r)]
           N2 == HashNode(HashOf(m2))[h][Leaf(r)]
           R == ReadMemory(mem, Leaf(r), h)
           R2 == ReadMemory(m2, Leaf(r), h)
<1>1. /\ h \in 0..2 /\ Leaf(r) \in Aligned(h) /\ Leaf(r) \in Leaves /\ adjust_access(r.addr, r.size) = Leaf(r)
      /\ ~IsNode(r) => h = 0
      /\ r.t \in {"read", "write", "revert"}
  BY LeafFacts
<1>2. Updated(m2, tree, {PageOf(Leaf(r))}) = HashOf(m2)
  BY UpdatedTree
<1>3. get_hash(R, h) = N /\ get_hash(R2, h) = N2
  BY <1>1, ReadFacts
<1>4. ~IsNode(r) => tree[Leaf(r)] = N
  BY <1>1, HashNodeFacts
<1>5. r.t # "write" => m2 = mem
  BY AfterFacts
<1>6. Effect(<<r>>, mem) = m2
  BY EffectOne
<1>7. CASE rec.op = "send" /\ r.t = "read"
  <2>1. Entry(r) = log_read(r) /\ ~IsNode(r) /\ ~IsWrite(r)
    BY <1>7 DEF Entry, IsNode, IsWrite
  <2>2. h = 0
    BY <1>1, <2>1
  <2> QED
    BY <1>1, <1>3, <1>5, <1>7, <2>1, <2>2 DEF log_read, Leaf, Good, AccessFields
<1>8. CASE rec.op = "send" /\ IsWrite(r)
  <2>1. Entry(r) = log_before_write_write_and_update(r) /\ r.t = "write" /\ ~IsNode(r) /\ r.size = -1
    <3>1. r.t = "write" /\ r.size = -1 /\ -1 \notin 0..2 /\ r.size < 0
      BY <1>8 DEF IsWrite
    <3>2. ~IsNode(r)
      BY <3>1 DEF IsNode
    <3> QED
      BY <1>8, <3>1, <3>2 DEF Entry
  <2>2. h = 0
    BY <1>1, <2>1
  <2>3. m2 = WriteWord(mem, r.addr, r.data[1])
    BY <2>1 DEF After
  <2>4. R = <<mem[Leaf(r)]>> /\ R2 = <<m2[Leaf(r)]>>
    BY <1>1, <2>2, ReadFacts
  <2>5. ReplaceWord(R, r.addr, r.data[1]) = R2
    <3>1. ReplaceWord(R, r.addr, r.data[1]) = <<[mem[Leaf(r)] EXCEPT ![1 + (r.addr % 2)] = r.data[1]]>>
      BY <2>4 DEF ReplaceWord
    <3> QED
      BY <1>8, <2>4, <3>1, AfterFacts
  <2> HIDE DEF R, R2, m2, N, N2
  <2>6. Entry(r) = [a |-> [type |-> "write", addr |-> r.addr, size |-> r.size, sib |-> Siblings(HashOf(mem), Leaf(r), 0),
             rhash |-> N, read |-> {R}, whash |-> {N2}, written |-> {R2}],
             mem |-> m2, tree |-> HashOf(m2)]
    BY <1>2, <1>3, <2>1, <2>2, <2>3, <2>5 DEF log_before_write_write_and_update, Leaf, R
  <2> QED
    BY <2>1, <2>2, <2>6 DEF Good, AccessFields, R, R2, m2, N, N2
<1>9. CASE rec.op = "send" /\ IsNode(r)
  <2>1. Entry(r) = log_write_memory_with_padding(r) /\ r.t = "write" /\ ~IsWrite(r)
    BY <1>9 DEF Entry, IsNode, IsWrite
  <2>2. h = r.size
    BY <1>9 DEF IsNode, AccessHeight
  <2>3. m2 = WriteData(mem, Leaf(r), r.data)
    BY <1>9 DEF After, IsNode, Leaf
  <2> HIDE DEF m2, N, N2
  <2>4. Entry(r) = [a |-> [type |-> "write", addr |-> r.addr, size |-> r.size, sib |-> Siblings(HashOf(mem), Leaf(r), h),
             rhash |-> N, read |-> If(rec.large, R), whash |-> {N2}, written |-> If(rec.large, R2)],
             mem |-> m2, tree |-> HashOf(m2)]
    BY <1>2, <1>3, <2>1, <2>2, <2>3 DEF log_write_memory_with_padding, Leaf, N
  <2>5. If(rec.large, R) \subseteq {R} /\ If(rec.large, R2) \subseteq {R2}
    BY DEF If
  <2> HIDE DEF h, R, R2
  <2> QED
    BY <1>9, <2>1, <2>4, <2>5 DEF Good, AccessFields, h, R, R2, m2, N, N2
<1>10. CASE rec.op # "send" /\ r.t # "write"
  <2>1. Entry(r) = log_read_word_access(r) /\ ~IsNode(r) /\ ~IsWrite(r)
    BY <1>10 DEF Entry, IsNode, IsWrite
  <2>2. h = 0
    BY <1>1, <2>1
  <2> QED
    BY <1>1, <1>4, <1>5, <1>10, <2>1, <2>2 DEF log_read_word_access, Good, AccessFields
<1>11. CASE rec.op # "send" /\ r.t = "write"
  <2>1. Entry(r) = log_write_access(r)
    BY <1>11 DEF Entry
  <2>2. r.size < 0 <=> IsWrite(r)
    BY <1>11 DEF RequestOK, IsRead, IsWrite, IsNode, IsRevert
  <2> HIDE DEF m2, N, N2
  <2>3. Entry(r) = [a |-> [type |-> "write", addr |-> r.addr, size |-> r.size, sib |-> Siblings(HashOf(mem), Leaf(r), h),
             rhash |-> N, read |-> If(r.size < 0 \/ rec.large, R), whash |-> {N2}, written |-> If(r.size < 0 \/ rec.large, R2)],
             mem |-> m2, tree |-> HashOf(m2)]
    BY <1>1, <1>2, <1>6, <2>1 DEF log_write_access, N, N2
  <2>4. /\ If(r.size < 0 \/ rec.large, R) \subseteq {R} /\ If(r.size < 0 \/ rec.large, R2) \subseteq {R2}
        /\ IsWrite(r) => If(r.size < 0 \/ rec.large, R) # {} /\ If(r.size < 0 \/ rec.large, R2) # {}
    BY <2>2 DEF If
  <2>5. ~IsNode(r) => IsWrite(r)
    BY <1>11 DEF RequestOK, IsRead, IsRevert
  <2> HIDE DEF h, R, R2
  <2> QED
    BY <1>11, <2>3, <2>4, <2>5 DEF Good, AccessFields, h, R, R2, m2, N, N2
<1>12. rec.op = "send" => r.t = "read" \/ IsWrite(r) \/ IsNode(r)
  BY DEF RequestOK, IsRead
<1> QED
  BY <1>7, <1>8, <1>9, <1>10, <1>11, <1>12

IsSeq(s) == \E S : s \in Seq(S)

\* What is known of a sequence, and of one more element of it.
LEMMA IsSeqFacts ==
  ASSUME NEW s, IsSeq(s)
  PROVE  /\ Len(s) \in Nat /\ DOMAIN s = 1..Len(s)
         /\ \A x : /\ IsSeq(Append(s, x)) /\ Len(Append(s, x)) = Len(s) + 1 /\ Append(s, x)[Len(s) + 1] = x
                   /\ \A k \in 1..Len(s) : Append(s, x)[k] = s[k]
<1>1. PICK S : s \in Seq(S)
  BY DEF IsSeq
<1>2. Len(s) \in Nat /\ DOMAIN s = 1..Len(s)
  BY <1>1
<1>3. ASSUME NEW x
      PROVE  /\ IsSeq(Append(s, x)) /\ Len(Append(s, x)) = Len(s) + 1 /\ Append(s, x)[Len(s) + 1] = x
             /\ \A k \in 1..Len(s) : Append(s, x)[k] = s[k]
  <2>1. s \in Seq(S \cup {x}) /\ x \in S \cup {x}
    BY <1>1
  <2>2. Append(s, x) \in Seq(S \cup {x})
    BY <2>1
  <2> QED
    BY <2>1, <2>2 DEF IsSeq
<1> QED
  BY <1>2, <1>3

\* What damage leaves of an access: the height its siblings and its written hash belong to, which
\* is not above that of its size.
Shape(a) ==
  /\ DOMAIN a = AccessFields
  /\ a.size \in Int /\ a.size >= -1
  /\ \A d \in a.read : IsSeq(d) /\ a.read = {d}
  /\ \E g \in 0..2 : /\ g <= AccessHeight(a.size) /\ IsSeq(a.sib) /\ Len(a.sib) = 4 - g
                     /\ \A x \in a.whash : x = <<>> \/ OfHeight(x, g)

\* Accesses as they are recorded have this shape.
LEMMA GoodShape ==
  ASSUME NEW m, NEW r, RequestOK(r), NEW a, Good(a, m, r)
  PROVE  Shape(a)
<1> DEFINE h == AccessHeight(r.size)
<1>1. h \in 0..2 /\ Leaf(r) \in Aligned(h) /\ Leaf(r) \in Leaves /\ r.size \in -1..2
  BY LeafFacts
<1> HIDE DEF h
<1>2. a.sib = Siblings(HashOf(m), Leaf(r), h) /\ a.size = r.size /\ DOMAIN a = AccessFields
  BY DEF Good, h
<1>3. IsSeq(a.sib) /\ Len(a.sib) = 4 - h
  <2>1. SiblingsOf(a.sib, HashOf(m), Leaf(r), h) /\ \E S : a.sib \in Seq(S)
    BY <1>1, <1>2, SiblingsFacts
  <2> QED
    BY <2>1 DEF IsSeq, SiblingsOf
<1>4. \A x \in a.whash : OfHeight(x, h)
  <2>1. \A x \in a.whash : x = HashNode(HashOf(After(m, r)))[h][Leaf(r)]
    BY DEF Good, h
  <2> QED
    BY <1>1, <2>1, NodeHeight
<1>5. \A d \in a.read : IsSeq(d) /\ a.read = {d}
  <2>1. a.read \subseteq {ReadMemory(m, Leaf(r), h)}
    BY DEF Good, h
  <2>2. IsSeq(ReadMemory(m, Leaf(r), h))
    <3> DEFINE d == ReadMemory(m, Leaf(r), h)
               S == {d[k] : k \in 1..2^h}
    <3>1. d = [k \in 1..2^h |-> m[Leaf(r) + k - 1]]
      BY DEF ReadMemory
    <3>2. 2^h \in Nat
      <4>1. 2^h \in 1..4
        BY <1>1, HeightFacts
      <4> QED
        BY <4>1
    <3> HIDE DEF d
    <3>3. d \in [1..2^h -> S]
      BY <3>1
    <3> HIDE DEF S
    <3>4. IsSeq(d)
      BY <3>2, <3>3, FcnIsSeq DEF IsSeq
    <3> QED
      BY <3>4 DEF d
  <2> QED
    BY <2>1, <2>2
<1>6. a.size \in Int /\ a.size >= -1 /\ h <= AccessHeight(a.size)
  BY <1>1, <1>2 DEF h
<1> QED
  BY <1>1, <1>2, <1>3, <1>4, <1>5, <1>6 DEF Shape

\* What damage may make of one access.
Hit(a) ==
  {[a EXCEPT !.type = IF @ = "read" THEN "write" ELSE "read"], [a EXCEPT !.addr = (@ + 2) % 32],
   [a EXCEPT !.addr = (@ + 1) % 32], [a EXCEPT !.size = @ + 1], [a EXCEPT !.rhash = <<>>],
   [a EXCEPT !.sib[1] = <<>>], [a EXCEPT !.read = {}], [a EXCEPT !.whash = {}], [a EXCEPT !.written = {}],
   [a EXCEPT !.whash = {<<>>}], [a EXCEPT !.read = {AlteredData(d) : d \in @}],
   [a EXCEPT !.written = {AlteredData(d) : d \in @}], [a EXCEPT !.read = {Append(d, <<0, 0>>) : d \in @}]}

\* A change of the first element leaves a sequence of the same length.
LEMMA FirstChanged ==
  ASSUME NEW s, IsSeq(s), NEW x
  PROVE  IsSeq([s EXCEPT ![1] = x]) /\ Len([s EXCEPT ![1] = x]) = Len(s)
<1>1. PICK S : s \in Seq(S)
  BY DEF IsSeq
<1>2. s \in Seq(S \cup {x}) /\ Len(s) \in Nat
  BY <1>1
<1>3. CASE Len(s) = 0
  <2>1. s = <<>> /\ [s EXCEPT ![1] = x] = <<>>
    BY <1>2, <1>3
  <2> QED
    BY <1>1, <2>1 DEF IsSeq
<1>4. CASE Len(s) >= 1
  <2>1. 1 \in 1..Len(s)
    BY <1>2, <1>4
  <2>2. [s EXCEPT ![1] = x] \in Seq(S \cup {x}) /\ Len([s EXCEPT ![1] = x]) = Len(s)
    BY <1>2, <2>1, ExceptSeq
  <2> QED
    BY <2>2 DEF IsSeq
<1> QED
  BY <1>2, <1>3, <1>4

\* Damage to one access leaves its shape.
LEMMA HitShape ==
  ASSUME NEW a, Shape(a), NEW b \in Hit(a)
  PROVE  Shape(b)
<1>0. DOMAIN a = {"type", "addr", "size", "sib", "rhash", "read", "whash", "written"}
  BY DEF Shape, AccessFields
<1>1. PICK g \in 0..2 : /\ g <= AccessHeight(a.size) /\ IsSeq(a.sib) /\ Len(a.sib) = 4 - g
                        /\ \A x \in a.whash : x = <<>> \/ OfHeight(x, g)
  BY DEF Shape
<1>2. a.size \in Int /\ a.size >= -1 /\ \A d \in a.read : IsSeq(d) /\ a.read = {d}
  BY DEF Shape
<1>3. DOMAIN b = DOMAIN a
  BY DEF Hit
<1>4. b.size = a.size \/ b.size = a.size + 1
  BY <1>0 DEF Hit
<1>5. b.sib = a.sib \/ b.sib = [a.sib EXCEPT ![1] = <<>>]
  BY <1>0 DEF Hit
<1>6. b.whash = a.whash \/ b.whash = {} \/ b.whash = {<<>>}
  BY <1>0 DEF Hit
<1>7. b.read = a.read \/ b.read = {} \/ b.read = {AlteredData(d) : d \in a.read}
        \/ b.read = {Append(d, <<0, 0>>) : d \in a.read}
  BY <1>0 DEF Hit
<1>8. b.size \in Int /\ b.size >= -1 /\ g <= AccessHeight(b.size)
  BY <1>1, <1>2, <1>4 DEF AccessHeight
<1>10. IsSeq(b.sib) /\ Len(b.sib) = 4 - g
  <2>1. IsSeq([a.sib EXCEPT ![1] = <<>>]) /\ Len([a.sib EXCEPT ![1] = <<>>]) = Len(a.sib)
    BY <1>1, FirstChanged
  <2> QED
    BY <1>1, <1>5, <2>1
<1>11. \A x \in b.whash : x = <<>> \/ OfHeight(x, g)
  BY <1>1, <1>6
<1>12. \A d : IsSeq(d) => IsSeq(AlteredData(d)) /\ IsSeq(Append(d, <<0, 0>>))
  <2> SUFFICES ASSUME NEW d, IsSeq(d) PROVE IsSeq(AlteredData(d)) /\ IsSeq(Append(d, <<0, 0>>))
    OBVIOUS
  <2>1. PICK x : AlteredData(d) = [d EXCEPT ![1] = x]
    BY DEF AlteredData
  <2>2. IsSeq([d EXCEPT ![1] = x])
    BY FirstChanged
  <2>3. IsSeq(Append(d, <<0, 0>>))
    BY IsSeqFacts
  <2> QED
    BY <2>1, <2>2, <2>3
<1>13. \A d \in b.read : IsSeq(d) /\ b.read = {d}
  <2>1. ASSUME NEW d \in a.read
        PROVE  /\ {AlteredData(e) : e \in a.read} = {AlteredData(d)}
               /\ {Append(e, <<0, 0>>) : e \in a.read} = {Append(d, <<0, 0>>)}
    BY <1>2, <2>1
  <2>2. CASE b.read = a.read \/ b.read = {}
    BY <1>2, <2>2
  <2>3. CASE b.read = {AlteredData(d) : d \in a.read}
    <3> SUFFICES ASSUME NEW e \in b.read PROVE IsSeq(e) /\ b.read = {e}
      OBVIOUS
    <3>1. PICK d \in a.read : e = AlteredData(d)
      BY <2>3
    <3> QED
      BY <1>2, <1>12, <2>1, <2>3, <3>1
  <2>4. CASE b.read = {Append(d, <<0, 0>>) : d \in a.read}
    <3> SUFFICES ASSUME NEW e \in b.read PROVE IsSeq(e) /\ b.read = {e}
      OBVIOUS
    <3>1. PICK d \in a.read : e = Append(d, <<0, 0>>)
      BY <2>4
    <3> QED
      BY <1>2, <1>12, <2>1, <2>4, <3>1
  <2> QED
    BY <1>7, <2>2, <2>3, <2>4
<1> QED
  BY <1>0, <1>3, <1>8, <1>10, <1>11, <1>13 DEF Shape, AccessFields

\* A log of such accesses, and what damage makes of it.
Shaped(s) == \E S : s \in Seq(S) /\ \A x \in S : Shape(x)

\* Damage to a log leaves the shape of its accesses.
LEMMA DamageShaped ==
  ASSUME NEW s, Shaped(s), NEW u \in DamagedAccesses(s)
  PROVE  Shaped(u)
<1>1. PICK S : s \in Seq(S) /\ \A x \in S : Shape(x)
  BY DEF Shaped
<1>2. \/ \E k \in DOMAIN s : u = SubSeq(s, 1, k - 1) \o SubSeq(s, k + 1, Len(s))
      \/ \E k \in DOMAIN s : u = SubSeq(s, 1, k) \o SubSeq(s, k, Len(s))
      \/ \E k \in DOMAIN s : \E b \in Hit(s[k]) : u = [s EXCEPT ![k] = b]
  <2>1. DamagedAccesses(s) = {SubSeq(s, 1, k - 1) \o SubSeq(s, k + 1, Len(s)) : k \in DOMAIN s}
          \cup {SubSeq(s, 1, k) \o SubSeq(s, k, Len(s)) : k \in DOMAIN s}
          \cup UNION {{[s EXCEPT ![k] = b] : b \in Hit(s[k])} : k \in DOMAIN s}
    BY DEF DamagedAccesses, Hit
  <2> QED
    BY <2>1
<1>3. CASE \E k \in DOMAIN s : u = SubSeq(s, 1, k - 1) \o SubSeq(s, k + 1, Len(s))
  <2>1. PICK k \in DOMAIN s : u = SubSeq(s, 1, k - 1) \o SubSeq(s, k + 1, Len(s))
    BY <1>3
  <2>2. k \in 1..Len(s) /\ Len(s) \in Nat
    BY <1>1
  <2>3. SubSeq(s, 1, k - 1) \in Seq(S) /\ SubSeq(s, k + 1, Len(s)) \in Seq(S)
    BY <1>1, <2>2
  <2>4. u \in Seq(S)
    BY <2>1, <2>3
  <2> QED
    BY <1>1, <2>4 DEF Shaped
<1>4. CASE \E k \in DOMAIN s : u = SubSeq(s, 1, k) \o SubSeq(s, k, Len(s))
  <2>1. PICK k \in DOMAIN s : u = SubSeq(s, 1, k) \o SubSeq(s, k, Len(s))
    BY <1>4
  <2>2. k \in 1..Len(s) /\ Len(s) \in Nat
    BY <1>1
  <2>3. SubSeq(s, 1, k) \in Seq(S) /\ SubSeq(s, k, Len(s)) \in Seq(S)
    BY <1>1, <2>2
  <2>4. u \in Seq(S)
    BY <2>1, <2>3
  <2> QED
    BY <1>1, <2>4 DEF Shaped
<1>5. CASE \E k \in DOMAIN s : \E b \in Hit(s[k]) : u = [s EXCEPT ![k] = b]
  <2>0. PICK k \in DOMAIN s : \E b \in Hit(s[k]) : u = [s EXCEPT ![k] = b]
    BY <1>5
  <2>1. PICK b \in Hit(s[k]) : u = [s EXCEPT ![k] = b]
    BY <2>0
  <2>2. s[k] \in S
    BY <1>1
  <2>3. Shape(b)
    BY <1>1, <2>2, HitShape
  <2>4. u \in Seq(S \cup {b})
    BY <1>1, <2>1
  <2> QED
    BY <1>1, <2>3, <2>4 DEF Shaped
<1> QED
  BY <1>2, <1>3, <1>4, <1>5

\* The node that r writes, as it is written.
LEMMA WrittenNode ==
  ASSUME NEW m, OnLeaves(m), NEW r, IsNode(r)
  PROVE  get_hash(r.data, r.size) = HashNode(HashOf(After(m, r)))[r.size][Leaf(r)]
<1>1. RequestOK(r) /\ r.size \in 0..2 /\ AccessHeight(r.size) = r.size /\ Len(r.data) = 2^r.size
  BY DEF RequestOK, IsNode, AccessHeight
<1>2. Leaf(r) \in Aligned(r.size)
  BY <1>1, LeafFacts
<1>3. \A k \in 0..(2^r.size - 1) : After(m, r)[Leaf(r) + k] = r.data[k + 1]
  <2>1. Lands(m, r)
    BY <1>1, AfterFacts
  <2> QED
    BY <2>1 DEF Lands
<1> QED
  BY <1>1, <1>2, <1>3, DataHash

\* A word that r writes, as it is written.
LEMMA WrittenWord ==
  ASSUME NEW m, OnLeaves(m), NEW r, IsWrite(r), NEW d, IsSeq(d), Len(d) = 1, d[1] = m[Leaf(r)]
  PROVE  /\ ReplaceWord(d, r.addr, r.data[1]) = <<After(m, r)[Leaf(r)]>>
         /\ get_hash(ReplaceWord(d, r.addr, r.data[1]), 0) = HashNode(HashOf(After(m, r)))[0][Leaf(r)]
<1> DEFINE w == After(m, r)[Leaf(r)]
<1>1. RequestOK(r)
  BY DEF RequestOK
<1>2. w = [m[Leaf(r)] EXCEPT ![1 + (r.addr % 2)] = r.data[1]]
  BY <1>1, AfterFacts
<1>3. d = <<m[Leaf(r)]>>
  BY DEF IsSeq
<1>4. ReplaceWord(d, r.addr, r.data[1]) = <<w>>
  BY <1>2, <1>3 DEF ReplaceWord
<1>5. Len(<<w>>) = 1 /\ <<w>>[1] = w
  OBVIOUS
<1>6. get_hash(<<w>>, 0) = <<w>>
  BY <1>5, LeafHash
<1>7. Leaf(r) \in Leaves
  BY <1>1, LeafFacts
<1>8. HashNode(HashOf(After(m, r)))[0][Leaf(r)] = HashOf(After(m, r))[Leaf(r)]
  BY <1>7, HashNodeFacts
<1>9. HashOf(After(m, r))[Leaf(r)] = <<w>>
  BY <1>7 DEF HashOf, HashLeaf
<1> QED
  BY <1>4, <1>6, <1>8, <1>9

\* What verification at memory m has to see in an access for request r.
Tells(a, m, r) ==
  /\ a.addr = r.addr /\ a.size = r.size
  /\ a.rhash = HashNode(HashOf(m))[AccessHeight(r.size)][Leaf(r)]
  /\ SiblingsOf(a.sib, HashOf(m), Leaf(r), AccessHeight(r.size))
  /\ r.t = "write" => a.whash = {HashNode(HashOf(After(m, r)))[AccessHeight(r.size)][Leaf(r)]}
  /\ r.t # "write" => \E d : a.read = {d} /\ d[1] = m[Leaf(r)]

\* A check that passes sees it, in whatever is left of an access.
LEMMA Sound ==
  ASSUME NEW m, OnLeaves(m), NEW r, RequestOK(r), NEW a, Shape(a), ver.root = RootAt(m),
         log.op = "send" => ~IsRevert(r), Checked(a, r)
  PROVE  Tells(a, m, r)
<1> DEFINE h == AccessHeight(r.size)
           N == HashNode(HashOf(m))[h][Leaf(r)]
           N2 == HashNode(HashOf(After(m, r)))[h][Leaf(r)]
<1>1. /\ h \in 0..2 /\ Leaf(r) \in Aligned(h) /\ Leaf(r) \in Leaves /\ adjust_access(r.addr, r.size) = Leaf(r)
      /\ ~IsNode(r) => h = 0
      /\ r.t \in {"read", "write", "revert"} /\ r.size \in -1..2
  BY LeafFacts
<1>2. check_access_range(a, r) /\ check_access_siblings_and_read_hash(a)
  BY DEF Checked, check_read_word_access, check_write_access, check_write_word_access, check_read, check_write,
         check_write_memory_with_padding
<1>3. a.addr = r.addr /\ a.size = r.size
  BY <1>2 DEF check_access_range
<1>4. bubble_up(Leaf(r), h, a.sib, a.rhash) = RootOf(HashOf(m))
  BY <1>1, <1>2, <1>3 DEF check_access_siblings_and_read_hash, verify, RootAt
<1>5. \A d \in a.read : Len(d) = 2^h /\ IsSeq(d) /\ a.read = {d}
  BY <1>2, <1>3 DEF check_access_siblings_and_read_hash, make_proof, Shape
<1>6. r.size < 0 <=> ~IsNode(r) /\ ~IsRevert(r)
  BY DEF RequestOK, IsRead, IsWrite, IsNode, IsRevert
<1>7. IsNode(r) => a.whash = {get_hash(r.data, r.size)} /\ r.t = "write"
  <2>1. IsNode(r) => r.t = "write" /\ ~(r.size < 0)
    BY DEF IsNode
  <2> QED
    BY <2>1 DEF Checked, check_write_access, check_write_memory_with_padding
<1>8. ~IsNode(r) => \E d \in a.read : a.rhash = get_hash(d, AccessHeight(a.size)) \/ a.rhash = get_hash(d, 0)
  <2>1. ~IsNode(r) => r.t = "read" \/ IsWrite(r) \/ IsRevert(r)
    BY DEF RequestOK, IsRead
  <2>2. IsWrite(r) => r.t = "write" /\ r.size < 0
    BY DEF IsWrite
  <2>3. IsRevert(r) => r.t = "revert" /\ log.op # "send"
    BY DEF IsRevert
  <2> QED
    BY <2>1, <2>2, <2>3 DEF Checked, check_read_word_access, check_write_word_access, check_read, check_write, check_read_data
<1>9. PICK g \in 0..2 : /\ g <= h /\ Len(a.sib) = 4 - g
                        /\ \A x \in a.whash : x = <<>> \/ OfHeight(x, g)
  BY <1>3 DEF Shape
<1>10. g = h
  <2>1. CASE ~IsNode(r)
    BY <1>1, <1>9, <2>1
  <2>2. CASE IsNode(r)
    <3>1. r.size \in 0..2 /\ h = r.size
      BY <2>2 DEF IsNode, AccessHeight
    <3>2. OfHeight(get_hash(r.data, r.size), h)
      BY <3>1, DataHeight
    <3>3. get_hash(r.data, r.size) # <<>>
      BY <1>1, <3>2, TermsApart
    <3>4. OfHeight(get_hash(r.data, r.size), g)
      BY <1>7, <1>9, <2>2, <3>3
    <3> QED
      BY <1>1, <3>2, <3>4, TermsApart
  <2> QED
    BY <2>1, <2>2
<1>11. Len(a.sib) = 4 - h /\ At(Leaf(r), h) = Leaf(r)
  BY <1>1, <1>9, <1>10, AtAligned
<1>12. a.rhash = N /\ SiblingsOf(a.sib, HashOf(m), Leaf(r), h)
  <2>1. a.rhash = HashNode(HashOf(m))[h][At(Leaf(r), h)] /\ SiblingsOf(a.sib, HashOf(m), Leaf(r), h)
    BY <1>1, <1>4, <1>11, BubbleNode
  <2> QED
    BY <1>11, <2>1
<1>13. ~IsNode(r) => \E d : a.read = {d} /\ IsSeq(d) /\ Len(d) = 1 /\ d[1] = m[Leaf(r)]
  <2> SUFFICES ASSUME ~IsNode(r) PROVE \E d : a.read = {d} /\ IsSeq(d) /\ Len(d) = 1 /\ d[1] = m[Leaf(r)]
    OBVIOUS
  <2>1. PICK d \in a.read : a.rhash = get_hash(d, 0)
    BY <1>1, <1>3, <1>8
  <2>2. a.read = {d} /\ IsSeq(d) /\ Len(d) = 1
    BY <1>1, <1>5, Powers
  <2>3. <<d[1]>> = N
    BY <1>12, <2>1, <2>2, LeafHash
  <2>4. N = HashOf(m)[Leaf(r)]
    BY <1>1, HashNodeFacts
  <2>5. HashOf(m)[Leaf(r)] = <<m[Leaf(r)]>>
    BY <1>1 DEF HashOf, HashLeaf
  <2>6. d[1] = m[Leaf(r)]
    BY <2>3, <2>4, <2>5
  <2> QED
    BY <2>2, <2>6
<1>14. r.t # "write" => \E d : a.read = {d} /\ d[1] = m[Leaf(r)]
  BY <1>13 DEF IsNode
<1>15. r.t = "write" => a.whash = {N2}
  <2>1. CASE IsNode(r)
    <3>1. h = r.size
      BY <2>1 DEF IsNode, AccessHeight
    <3> QED
      BY <1>7, <2>1, <3>1, WrittenNode
  <2>2. CASE IsWrite(r)
    <3>1. ~IsNode(r) /\ r.size < 0 /\ r.t = "write" /\ h = 0
      <4>1. r.size < 0 /\ r.t = "write"
        BY <2>2 DEF IsWrite
      <4> QED
        BY <1>1, <1>6, <4>1
    <3>2. PICK d : a.read = {d} /\ IsSeq(d) /\ Len(d) = 1 /\ d[1] = m[Leaf(r)]
      BY <1>13, <3>1
    <3>3. a.whash = {get_hash(ReplaceWord(d, r.addr, r.data[1]), 0)}
      <4>1. check_write(a, r) \/ check_write_word_access(a, r)
        BY <3>1 DEF Checked
      <4> QED
        BY <3>2, <4>1 DEF check_write, check_write_word_access
    <3> QED
      BY <2>2, <3>1, <3>2, <3>3, WrittenWord
  <2> QED
    BY <2>1, <2>2 DEF RequestOK, IsRead, IsRevert
<1> QED
  BY <1>3, <1>12, <1>14, <1>15 DEF Tells

\* The root that the verifier goes on with is that of the memory after the request.
LEMMA NewRoot ==
  ASSUME NEW m, OnLeaves(m), NEW r, RequestOK(r), NEW a, Tells(a, m, r), r.t = "write"
  PROVE  \A x \in a.whash : bubble_up(Leaf(r), AccessHeight(r.size), a.sib, x) = RootAt(After(m, r))
<1> DEFINE h == AccessHeight(r.size)
<1>1. h \in 0..2 /\ Leaf(r) \in Aligned(h) /\ Leaf(r) \in Leaves /\ At(Leaf(r), h) = Leaf(r)
  BY LeafFacts, AtAligned
<1>2. \A l \in Leaves \ (Leaf(r)..(Leaf(r) + 2^h - 1)) : HashOf(m)[l] = HashOf(After(m, r))[l]
  <2>1. \A l \in Leaves \ NodeOf(r) : After(m, r)[l] = m[l]
    BY AfterFacts
  <2> QED
    BY <2>1 DEF NodeOf, HashOf
<1>3. SiblingsOf(a.sib, HashOf(m), Leaf(r), h)
  BY DEF Tells
<1> HIDE DEF h
<1>4. SiblingsOf(a.sib, HashOf(After(m, r)), Leaf(r), h)
  BY <1>1, <1>2, <1>3, SiblingsKept
<1>5. Len(a.sib) = 4 - h
  BY <1>3 DEF SiblingsOf
<1>6. \A x \in a.whash : x = HashNode(HashOf(After(m, r)))[h][At(Leaf(r), h)]
  BY <1>1 DEF Tells, h
<1>7. \A x \in a.whash : bubble_up(Leaf(r), h, a.sib, x) = RootOf(HashOf(After(m, r)))
  <2> SUFFICES ASSUME NEW x \in a.whash
               PROVE  bubble_up(Leaf(r), h, a.sib, x) = RootOf(HashOf(After(m, r)))
    OBVIOUS
  <2>1. bubble_up(Leaf(r), h, a.sib, x) = RootOf(HashOf(After(m, r)))
          <=> x = HashNode(HashOf(After(m, r)))[h][At(Leaf(r), h)] /\ SiblingsOf(a.sib, HashOf(After(m, r)), Leaf(r), h)
    BY <1>1, <1>5, BubbleNode
  <2> QED
    BY <1>4, <1>6, <2>1
<1> QED
  BY <1>7 DEF RootAt, h

\* An access as it was recorded passes its check.
LEMMA GoodChecked ==
  ASSUME NEW m, OnLeaves(m), NEW r, RequestOK(r), NEW a, Good(a, m, r), ver.root = RootAt(m),
         log.op = "send" => ~IsRevert(r), IsWrite(r) => 1 + (r.addr % 2) \in DOMAIN m[Leaf(r)]
  PROVE  Checked(a, r)
<1> DEFINE h == AccessHeight(r.size)
           m2 == After(m, r)
           N == HashNode(HashOf(m))[h][Leaf(r)]
           N2 == HashNode(HashOf(m2))[h][Leaf(r)]
           R == ReadMemory(m, Leaf(r), h)
           R2 == ReadMemory(m2, Leaf(r), h)
<1>1. /\ h \in 0..2 /\ Leaf(r) \in Aligned(h) /\ Leaf(r) \in Leaves /\ adjust_access(r.addr, r.size) = Leaf(r)
      /\ ~IsNode(r) => h = 0
      /\ r.t \in {"read", "write", "revert"}
  BY LeafFacts
<1>2. a.addr = r.addr /\ a.size = r.size /\ a.rhash = N /\ AccessHeight(a.size) = h
  BY DEF Good
<1>3. a.read \subseteq {R} /\ (~IsNode(r) => a.read # {})
  BY DEF Good
<1>4. r.t = "write" => a.type = "write" /\ a.whash = {N2} /\ a.written \subseteq {R2} /\ (IsWrite(r) => a.written # {})
  BY DEF Good
<1>5. r.t # "write" => a.type = "read" /\ a.whash = {} /\ a.written = {}
  BY DEF Good
<1>6. Len(R) = 2^h /\ get_hash(R, h) = N /\ (h = 0 => R = <<m[Leaf(r)]>>)
  BY <1>1, ReadFacts
<1>7. Len(R2) = 2^h /\ get_hash(R2, h) = N2 /\ (h = 0 => R2 = <<m2[Leaf(r)]>>)
  BY <1>1, ReadFacts
<1>8. check_access_range(a, r)
  BY <1>2 DEF check_access_range
<1>9. check_access_siblings_and_read_hash(a)
  <2>1. make_proof(a)
    <3>1. a.read = {} \/ a.read = {R}
      BY <1>3
    <3>2. a.written = {} \/ a.written = {R2}
      BY <1>4, <1>5
    <3> HIDE DEF R, R2, h
    <3> QED
      BY <1>2, <1>6, <1>7, <3>1, <3>2 DEF make_proof
  <2>2. a.sib = Siblings(HashOf(m), Leaf(r), h)
    BY DEF Good
  <2>3. SiblingsOf(a.sib, HashOf(m), Leaf(r), h)
    BY <1>1, <2>2, SiblingsFacts
  <2>4. Len(a.sib) = 4 - h /\ At(Leaf(r), h) = Leaf(r)
    BY <1>1, <2>3, AtAligned DEF SiblingsOf
  <2>5. bubble_up(Leaf(r), h, a.sib, a.rhash) = RootOf(HashOf(m))
    <3>1. a.rhash = HashNode(HashOf(m))[h][At(Leaf(r), h)]
      BY <1>2, <2>4
    <3>2. bubble_up(Leaf(r), h, a.sib, a.rhash) = RootOf(HashOf(m))
            <=> a.rhash = HashNode(HashOf(m))[h][At(Leaf(r), h)] /\ SiblingsOf(a.sib, HashOf(m), Leaf(r), h)
      <4> HIDE DEF h
      <4> QED
        BY <1>1, <2>4, BubbleNode
    <3> QED
      BY <2>3, <3>1, <3>2
  <2>6. verify(a, ver.root)
    BY <1>1, <1>2, <2>5 DEF verify, RootAt
  <2> QED
    BY <2>1, <2>6 DEF check_access_siblings_and_read_hash
<1> HIDE DEF R, R2, N, N2, m2, h
<1>10. check_read_data_if_there(a)
  BY <1>2, <1>3, <1>6 DEF check_read_data_if_there
<1>11. r.t = "write" => check_written_data_if_there(a)
  BY <1>2, <1>4, <1>7 DEF check_written_data_if_there
<1>12. ~IsNode(r) => check_read_data(a) /\ a.read = {R}
  BY <1>2, <1>3, <1>6 DEF check_read_data
<1>13. CASE r.t # "write"
  <2>1. ~IsNode(r) /\ h = 0
    BY <1>1, <1>13 DEF IsNode
  <2>2. check_access_type(a, "read")
    BY <1>5, <1>13 DEF check_access_type
  <2>3. check_read_word_access(a, r)
    BY <1>8, <1>9, <1>12, <2>1, <2>2 DEF check_read_word_access
  <2>4. check_read(a, r)
    BY <1>2, <1>5, <1>6, <1>8, <1>9, <1>12, <1>13, <2>1, Powers DEF check_read
  <2>5. log.op = "send" => r.t = "read"
    BY <1>13 DEF RequestOK, IsRead, IsWrite, IsNode
  <2> QED
    BY <1>1, <1>13, <2>3, <2>4, <2>5 DEF Checked
<1>14. CASE IsNode(r)
  <2>1. r.t = "write" /\ r.size \in 0..2 /\ ~(r.size < 0) /\ h = r.size
    BY <1>14 DEF IsNode, AccessHeight, h
  <2>2. get_hash(r.data, r.size) = N2
    BY <1>14, <2>1, WrittenNode DEF N2, m2
  <2>3. check_access_type(a, "write")
    BY <1>4, <2>1 DEF check_access_type
  <2>4. check_write_access(a, r)
    BY <1>4, <1>8, <1>9, <1>10, <1>11, <2>1, <2>2, <2>3 DEF check_write_access
  <2>5. check_write_memory_with_padding(a, r)
    BY <1>4, <1>8, <1>9, <1>10, <1>11, <2>1, <2>2 DEF check_write_memory_with_padding
  <2> QED
    BY <2>1, <2>4, <2>5 DEF Checked
<1>15. CASE IsWrite(r)
  <2>1. r.t = "write" /\ r.size < 0
    BY <1>15 DEF IsWrite
  <2>2. ~IsNode(r) /\ h = 0
    <3>1. r.size \notin 0..2
      BY <2>1
    <3>2. ~IsNode(r)
      BY <3>1 DEF IsNode
    <3> QED
      BY <1>1, <3>2
  <2>3. a.read = {R} /\ R = <<m[Leaf(r)]>> /\ a.written = {R2} /\ R2 = <<m2[Leaf(r)]>> /\ a.whash = {N2}
    BY <1>4, <1>6, <1>7, <1>12, <1>15, <2>1, <2>2
  <2>4. IsSeq(R) /\ Len(R) = 1 /\ R[1] = m[Leaf(r)] /\ Len(R2) = 1
    <3>1. R \in Seq({m[Leaf(r)]}) /\ R2 \in Seq({m2[Leaf(r)]})
      BY <2>3
    <3> QED
      BY <2>3, <3>1 DEF IsSeq
  <2>5. ReplaceWord(R, r.addr, r.data[1]) = R2 /\ get_hash(ReplaceWord(R, r.addr, r.data[1]), 0) = N2
    BY <1>15, <2>2, <2>3, <2>4, WrittenWord DEF m2, N2
  <2>6. check_access_type(a, "write")
    BY <1>4, <2>1 DEF check_access_type
  <2>7. check_write_word_access(a, r)
    BY <1>8, <1>9, <1>11, <1>12, <2>1, <2>2, <2>3, <2>5, <2>6 DEF check_write_word_access
  <2>8. GetWord(R2, r.addr) = r.data[1]
    <3>1. m2[Leaf(r)] = [m[Leaf(r)] EXCEPT ![1 + (r.addr % 2)] = r.data[1]]
      BY <1>15, AfterFacts DEF m2
    <3>2. m2[Leaf(r)][1 + (r.addr % 2)] = r.data[1]
      BY <1>15, <3>1
    <3> QED
      BY <2>3, <3>2 DEF GetWord
  <2>9. check_write(a, r)
    <3>1. a.rhash = get_hash(R, 0) /\ a.whash = {get_hash(R2, 0)}
      BY <1>2, <1>6, <2>2, <2>3, <2>5
    <3> QED
      BY <1>4, <1>8, <1>9, <2>1, <2>3, <2>4, <2>5, <2>8, <3>1 DEF check_write
  <2> QED
    BY <2>1, <2>7, <2>9 DEF Checked
<1> QED
  BY <1>13, <1>14, <1>15 DEF RequestOK, IsRead, IsRevert

----------------------------------------------------------------------------
(* The requests of the three programs                                       *)
\* The requests of an instruction and of the step it is part of.
InsnRequests(got) ==
  {Rd(RAM_WORD), Rd(X), Wr(X, got[5]), Wr(RAM_WORD, 1 - got[5]), WrNode(TLB_LEAF, 0, <<<<got[5], 1>>>>),
   Wr(PC, (got[3] + 1) % 4), Wr(HALT, 1), Wr(CYCLE, got[1] + 1), Throw}

\* An instruction makes one to three requests.
LEMMA InsnFacts ==
  ASSUME NEW got
  PROVE  executeInsn(got) \in Seq(InsnRequests(got)) /\ Len(executeInsn(got)) \in 1..3
<1> DEFINE S == InsnRequests(got)
           A == Wr(PC, (got[3] + 1) % 4)
           r1 == Rd(RAM_WORD)
           r2 == Rd(X)
           w1 == Wr(X, got[5])
           w2 == Wr(RAM_WORD, 1 - got[5])
           w3 == WrNode(TLB_LEAF, 0, <<<<got[5], 1>>>>)
           w4 == Wr(HALT, 1)
<1>1. A \in S /\ r1 \in S /\ r2 \in S /\ w1 \in S /\ w2 \in S /\ w3 \in S /\ w4 \in S /\ Throw \in S
  BY DEF InsnRequests
<1>2. \/ \E x \in S : executeInsn(got) = <<x>>
      \/ \E x \in S : executeInsn(got) = <<x>> \o <<>>
      \/ \E x, y, z \in S : executeInsn(got) = <<x>> \o (<<y>> \o <<z>>)
  <2> HIDE DEF S
  <2>1. \/ executeInsn(got) = <<r1>> \o <<>>
        \/ executeInsn(got) = <<r1>> \o (<<w1>> \o <<A>>)
        \/ executeInsn(got) = <<r2>> \o <<>>
        \/ executeInsn(got) = <<r2>> \o (<<w2>> \o <<A>>)
        \/ executeInsn(got) = <<r2>> \o (<<w3>> \o <<A>>)
        \/ executeInsn(got) = <<A>>
        \/ executeInsn(got) = <<w4>>
        \/ executeInsn(got) = <<Throw>>
    <3>1. \/ executeInsn(got) = <<r1>> \o (IF Len(got) < 5 THEN <<>> ELSE <<w1>> \o <<A>>)
          \/ executeInsn(got) = <<r2>> \o (IF Len(got) < 5 THEN <<>> ELSE <<w2>> \o <<A>>)
          \/ executeInsn(got) = <<r2>> \o (IF Len(got) < 5 THEN <<>> ELSE <<w3>> \o <<A>>)
          \/ executeInsn(got) = <<A>>
          \/ executeInsn(got) = <<w4>>
          \/ executeInsn(got) = <<Throw>>
      BY DEF executeInsn, LOAD, STORE, TLB, PUTCHAR, HALTING
    <3> HIDE DEF A, r1, r2, w1, w2, w3, w4
    <3> QED
      BY <3>1
  <2> HIDE DEF A, r1, r2, w1, w2, w3, w4
  <2> QED
    BY <1>1, <2>1, Zenon
<1> HIDE DEF S, A, r1, r2, w1, w2, w3, w4
<1>3. \A x, y, z \in S : <<x>> \in Seq(S) /\ Len(<<x>>) = 1 /\ <<x>> \o <<>> \in Seq(S) /\ Len(<<x>> \o <<>>) = 1
         /\ <<x>> \o (<<y>> \o <<z>>) \in Seq(S) /\ Len(<<x>> \o (<<y>> \o <<z>>)) = 3
  OBVIOUS
<1>4. executeInsn(got) \in Seq(S) /\ Len(executeInsn(got)) \in 1..3
  <2>1. CASE \E x \in S : executeInsn(got) = <<x>>
    BY <1>3, <2>1
  <2>2. CASE \E x \in S : executeInsn(got) = <<x>> \o <<>>
    BY <1>3, <2>2
  <2>3. CASE \E x, y, z \in S : executeInsn(got) = <<x>> \o (<<y>> \o <<z>>)
    BY <1>3, <2>3
  <2> QED
    BY <1>2, <2>1, <2>2, <2>3
<1> QED
  BY <1>4 DEF S

\* The first four requests of a step are reads; the fourth depends on the third.
IsStep(got, s) ==
  /\ Len(s) \in Nat
  /\ \A k \in 1..Len(s) : /\ k = 1 => s[k] = Rd(CYCLE)
                          /\ k = 2 => s[k] = Rd(HALT)
                          /\ k = 3 => s[k] = Rd(PC)
                          /\ k = 4 => s[k] = Rd(UARCH_RAM + got[3])
                          /\ k >= 5 => s[k] \in InsnRequests(got)

\* uarch_step makes such requests.
LEMMA StepFacts == ASSUME NEW got PROVE IsStep(got, uarch_step(got))
<1> DEFINE s == uarch_step(got)
           a == Rd(CYCLE)
           b == Rd(HALT)
           c == Rd(PC)
           d == Rd(UARCH_RAM + got[3])
           insn == executeInsn(got)
           e == Wr(CYCLE, got[1] + 1)
           S == InsnRequests(got)
<1>1. insn \in Seq(S) /\ Len(insn) \in 1..3 /\ e \in S
  BY InsnFacts DEF InsnRequests
<1>2. \/ s = <<a>> \o <<>>
      \/ s = <<a>> \o (<<b>> \o <<>>)
      \/ s = <<a>> \o (<<b>> \o (<<c>> \o <<>>))
      \/ s = <<a>> \o (<<b>> \o (<<c>> \o (<<d>> \o <<>>)))
      \/ s = <<a>> \o (<<b>> \o (<<c>> \o (<<d>> \o (insn \o <<>>))))
      \/ s = <<a>> \o (<<b>> \o (<<c>> \o (<<d>> \o (insn \o <<e>>))))
  BY DEF uarch_step
<1> DEFINE P(q) == /\ Len(q) \in Nat
                   /\ \A i \in 1..Len(q) : /\ i = 1 => q[i] = a
                                           /\ i = 2 => q[i] = b
                                           /\ i = 3 => q[i] = c
                                           /\ i = 4 => q[i] = d
                                           /\ i >= 5 => q[i] \in S
<1> HIDE DEF s, a, b, c, d, insn, e, S
<1>3. P(<<a>> \o <<>>) /\ P(<<a>> \o (<<b>> \o <<>>)) /\ P(<<a>> \o (<<b>> \o (<<c>> \o <<>>)))
  <2>1. P(<<a>> \o <<>>)
    OBVIOUS
  <2>2. P(<<a>> \o (<<b>> \o <<>>))
    OBVIOUS
  <2>3. P(<<a>> \o (<<b>> \o (<<c>> \o <<>>)))
    OBVIOUS
  <2> HIDE DEF P
  <2> QED
    BY <2>1, <2>2, <2>3
<1>4. P(<<a>> \o (<<b>> \o (<<c>> \o (<<d>> \o <<>>))))
  OBVIOUS
<1>5. ASSUME NEW t \in Seq(S)
      PROVE  P(<<a>> \o (<<b>> \o (<<c>> \o (<<d>> \o t))))
  <2> DEFINE q == <<a>> \o (<<b>> \o (<<c>> \o (<<d>> \o t)))
             T == S \cup {a, b, c, d}
  <2>1. t \in Seq(T) /\ <<a>> \in Seq(T) /\ <<b>> \in Seq(T) /\ <<c>> \in Seq(T) /\ <<d>> \in Seq(T)
    OBVIOUS
  <2> HIDE DEF T
  <2>2. <<d>> \o t \in Seq(T) /\ Len(<<d>> \o t) = Len(t) + 1
    BY <2>1
  <2>3. (<<c>> \o (<<d>> \o t)) \in Seq(T) /\ Len(<<c>> \o (<<d>> \o t)) = Len(t) + 2
    BY <2>1, <2>2
  <2>4. (<<b>> \o (<<c>> \o (<<d>> \o t))) \in Seq(T) /\ Len(<<b>> \o (<<c>> \o (<<d>> \o t))) = Len(t) + 3
    BY <2>1, <2>3
  <2>5. Len(q) = Len(t) + 4 /\ Len(t) \in Nat
    BY <2>1, <2>4
  <2>6. q[1] = a /\ q[2] = b /\ q[3] = c /\ q[4] = d
    BY <2>1, <2>2, <2>3, <2>4
  <2>7. \A i \in 1..Len(t) : q[i + 4] = t[i]
    BY <2>1, <2>2, <2>3, <2>4
  <2> HIDE DEF q
  <2>8. ASSUME NEW i \in 1..Len(q), i >= 5
        PROVE  q[i] \in S
    <3>1. i - 4 \in 1..Len(t) /\ (i - 4) + 4 = i
      BY <2>5, <2>8
    <3>2. q[i] = t[i - 4]
      BY <2>7, <3>1
    <3> QED
      BY <3>1, <3>2
  <2>9. P(q)
    BY <2>5, <2>6, <2>8
  <2> QED
    BY <2>9 DEF q
<1>6. insn \o <<>> \in Seq(S) /\ insn \o <<e>> \in Seq(S)
  BY <1>1
<1>7. P(s)
  <2> HIDE DEF P
  <2> QED
    BY <1>2, <1>3, <1>4, <1>5, <1>6
<1> QED
  BY <1>7 DEF IsStep, s, a, b, c, d, S

IsReset(s) ==
  /\ Len(s) \in 2..4
  /\ s[1] = WrNode(0, 2, PristineUarch) /\ s[2] = Rd(IFLAGS_Y)
  /\ Len(s) >= 3 => s[3] = Rd(TOHOST)
  /\ Len(s) >= 4 => s[4] = Revert

\* uarch_reset_state makes such requests.
LEMMA ResetFacts == ASSUME NEW got PROVE IsReset(uarch_reset_state(got))
<1> DEFINE s == uarch_reset_state(got)
           w == WrNode(0, 2, PristineUarch)
           a == Rd(IFLAGS_Y)
           b == Rd(TOHOST)
           c == Revert
<1>1. \/ s = <<w, a>> \o <<>>
      \/ s = <<w, a>> \o (<<b>> \o <<>>)
      \/ s = <<w, a>> \o (<<b>> \o <<c>>)
  BY DEF uarch_reset_state
<1> DEFINE P(q) == /\ Len(q) \in 2..4
                   /\ q[1] = w /\ q[2] = a /\ (Len(q) >= 3 => q[3] = b) /\ (Len(q) >= 4 => q[4] = c)
<1> HIDE DEF s, w, a, b, c
<1>2. P(<<w, a>> \o <<>>)
  OBVIOUS
<1>3. P(<<w, a>> \o (<<b>> \o <<>>))
  OBVIOUS
<1>4. P(<<w, a>> \o (<<b>> \o <<c>>))
  OBVIOUS
<1>5. P(s)
  <2> HIDE DEF P
  <2> QED
    BY <1>1, <1>2, <1>3, <1>4
<1> QED
  BY <1>5 DEF IsReset, s, w, a, b, c

\* Powers of two, as far as a response can be long.
LEMMA PowersTyped == \A g \in 0..8 : 2^g \in Nat
<1> SUFFICES ASSUME NEW g \in 0..8 PROVE 2^g \in Nat
  OBVIOUS
<1>0. CASE g = 0
  BY <1>0
<1>1. CASE g = 1
  BY <1>1
<1>2. CASE g = 2
  BY <1>2
<1>3. CASE g = 3
  BY <1>3
<1>4. CASE g = 4
  BY <1>4
<1>5. CASE g = 5
  BY <1>5
<1>6. CASE g = 6
  BY <1>6
<1>7. CASE g = 7
  BY <1>7
<1>8. CASE g = 8
  BY <1>8
<1> QED
  BY <1>0, <1>1, <1>2, <1>3, <1>4, <1>5, <1>6, <1>7, <1>8

\* A response fits the leaves written for it, and one of up to four words the receive buffer.
LEMMA LogFacts ==
  ASSUME NEW n \in 1..512
  PROVE  WriteLog2(n) \in 0..8 /\ (n <= 4 => WriteLog2(n) <= 1)
<1> DEFINE P(h) == 2 * 2^h >= n /\ \A g \in 0..(h - 1) : 2 * 2^g < n
           T == {h \in 0..8 : 2 * 2^h >= n}
           W == WriteLog2(n)
<1>1. \E h \in 0..8 : P(h)
  <2>1. 8 \in T
    <3>1. 2 * 2^8 >= n /\ 8 \in 0..8
      OBVIOUS
    <3> QED
      BY <3>1
  <2>2. T \subseteq Nat /\ T # {}
    <3>1. T \subseteq 0..8
      BY Zenon
    <3> HIDE DEF T
    <3> QED
      BY <2>1, <3>1
  <2>3. PICK h \in T : \A y \in T : h <= y
    <3> HIDE DEF T
    <3> QED
      BY <2>2, LeastNat
  <2>4. h \in 0..8 /\ 2 * 2^h >= n
    OBVIOUS
  <2>5. ASSUME NEW g \in 0..(h - 1) PROVE 2 * 2^g < n
    <3>1. g \in 0..8 /\ g < h
      BY <2>4
    <3>2. ~(2 * 2^g >= n)
      BY <2>3, <3>1
    <3>3. 2^g \in Nat
      BY <3>1, PowersTyped
    <3>4. PICK x \in Nat : x = 2^g
      BY <3>3
    <3>5. ~(2 * x >= n)
      BY <3>2, <3>4
    <3>6. 2 * x < n
      BY <3>5
    <3> QED
      BY <3>4, <3>6
  <2> QED
    BY <2>4, <2>5
<1>2. W = CHOOSE h \in 0..8 : P(h)
  BY DEF WriteLog2
<1> HIDE DEF W, P
<1>3. W \in 0..8 /\ P(W)
  BY <1>1, <1>2
<1>4. ASSUME n <= 4, W > 1 PROVE FALSE
  <2>1. 1 \in 0..(W - 1)
    BY <1>3, <1>4
  <2>2. 2 * 2^1 < n
    BY <1>3, <2>1 DEF P
  <2> QED
    BY <1>4, <2>2
<1>5. n <= 4 => W <= 1
  BY <1>3, <1>4
<1> QED
  BY <1>3, <1>5 DEF W

\* Where a response starts to write, and what it writes after the revert root hash.
First(i) == IF i.reason = ADVANCE THEN 3 ELSE 2
SavesRoot(i) == WrNode(REVERT_LEAF, 0, <<<<i.revert>>>>)
FitsBuffer(i) == i.len > 0 /\ ~(WriteLog2(i.len) > RX_LOG2)
Fills(i) == WrNode(RX_LEAF, WriteLog2(i.len), Padded(i.len, WriteLog2(i.len)))
TellsGuest(i) == Wr(FROMHOST, 10 * i.reason + i.len)

IsSend(i, s) ==
  /\ Len(s) \in 1..6 /\ DOMAIN s = 1..Len(s)
  /\ Len(s) >= 1 => s[1] = Rd(IFLAGS_Y)
  /\ i.reason = ADVANCE /\ Len(s) >= 2 => s[2] = Rd(TOHOST)
  /\ Len(s) >= First(i) => s[First(i)] = SavesRoot(i) /\ Len(s) > First(i) /\ s[Len(s)] = Wr(IFLAGS_Y, 0)
  /\ \A k \in 1..Len(s) : k > First(i) =>
       s[k] = TellsGuest(i) \/ s[k] = Wr(IFLAGS_Y, 0) \/ (FitsBuffer(i) /\ s[k] = Fills(i))

\* send_cmio_response makes such requests; a response that the machine waits for, and that fits the
\* buffer, is written.
LEMMA SendFacts ==
  ASSUME NEW i, i.len \in 0..512, NEW got
  PROVE  /\ IsSend(i, send_cmio_response(i, got))
         /\ Len(got) = 2 /\ got[1] # 0 /\ (i.reason = ADVANCE => got[2] = ACCEPTED) /\ i.len <= 4
              => Len(send_cmio_response(i, got)) >= First(i)
<1> DEFINE s == send_cmio_response(i, got)
           a == Rd(IFLAGS_Y)
           b == Rd(TOHOST)
           v == SavesRoot(i)
           p == Fills(i)
           x == TellsGuest(i)
           y == Wr(IFLAGS_Y, 0)
           short == (<<v>> \o <<>>) \o <<x, y>>
           long == (<<v>> \o <<p>>) \o <<x, y>>
           adv == i.reason = ADVANCE
           ok == Len(got) = 2 /\ got[1] # 0 /\ (i.reason = ADVANCE => got[2] = ACCEPTED) /\ i.len <= 4
<1>1. i.len <= 4 => ~(i.len > 0 /\ WriteLog2(i.len) > RX_LOG2)
  <2>1. i.len \in 1..512 /\ i.len <= 4 => WriteLog2(i.len) \in 0..8 /\ WriteLog2(i.len) <= 1
    BY LogFacts
  <2> QED
    BY <2>1 DEF RX_LOG2
<1>2. \/ s = <<a>> \o <<>> /\ ~ok
      \/ s = <<a>> \o short /\ ~adv
      \/ s = <<a>> \o long /\ ~adv /\ FitsBuffer(i)
      \/ s = <<a>> \o (<<b>> \o <<>>) /\ adv /\ ~ok
      \/ s = <<a>> \o (<<b>> \o short) /\ adv
      \/ s = <<a>> \o (<<b>> \o long) /\ adv /\ FitsBuffer(i)
  <2> DEFINE full == i.len > 0 /\ WriteLog2(i.len) > RX_LOG2
             answer == IF full THEN <<>> ELSE <<v>> \o (IF i.len = 0 THEN <<>> ELSE <<p>>) \o <<x, y>>
             none == Len(got) < 1 \/ got[1] = 0
             refused == Len(got) < 2 \/ got[2] # ACCEPTED
  <2>1. s = <<a>> \o IF none THEN <<>>
                     ELSE IF ~adv THEN answer ELSE <<b>> \o IF refused THEN <<>> ELSE answer
    BY DEF send_cmio_response, SavesRoot, Fills, TellsGuest
  <2>2. /\ full => answer = <<>> /\ ~ok
        /\ ~full => answer = short \/ (answer = long /\ FitsBuffer(i))
    <3>1. ok => ~full
      BY <1>1
    <3>2. ~full /\ i.len # 0 => FitsBuffer(i)
      BY DEF FitsBuffer
    <3> HIDE DEF full, ok, v, p, x, y
    <3>3. /\ full => answer = <<>>
          /\ ~full /\ i.len = 0 => answer = short
          /\ ~full /\ i.len # 0 => answer = long
      BY Zenon
    <3> QED
      BY <3>1, <3>2, <3>3, Zenon
  <2>3. (none => ~ok) /\ (adv /\ refused => ~ok)
    OBVIOUS
  <2> HIDE DEF s, a, b, adv, ok, short, long, full, answer, none, refused
  <2> QED
    BY <2>1, <2>2, <2>3
<1>3. First(i) = IF adv THEN 3 ELSE 2
  BY DEF First
<1> DEFINE P(q) == /\ Len(q) \in 1..6 /\ DOMAIN q = 1..Len(q)
                   /\ Len(q) >= 1 => q[1] = a
                   /\ adv /\ Len(q) >= 2 => q[2] = b
                   /\ Len(q) >= First(i) => q[First(i)] = v /\ Len(q) > First(i) /\ q[Len(q)] = y
                   /\ \A k \in 1..Len(q) : k > First(i) => q[k] = x \/ q[k] = y \/ (FitsBuffer(i) /\ q[k] = p)
                   /\ ok => Len(q) >= First(i)
<1> HIDE DEF s, a, b, v, p, x, y, adv, ok
<1>4. ~ok => P(<<a>> \o <<>>)
  BY <1>3
<1>5. ~adv => P(<<a>> \o short)
  BY <1>3
<1>6. ~adv /\ FitsBuffer(i) => P(<<a>> \o long)
  BY <1>3
<1>7. adv /\ ~ok => P(<<a>> \o (<<b>> \o <<>>))
  BY <1>3
<1>8. adv => P(<<a>> \o (<<b>> \o short))
  BY <1>3
<1>9. adv /\ FitsBuffer(i) => P(<<a>> \o (<<b>> \o long))
  BY <1>3
<1>10. P(s)
  <2> HIDE DEF P, short, long
  <2> QED
    BY <1>2, <1>4, <1>5, <1>6, <1>7, <1>8, <1>9
<1> QED
  BY <1>10 DEF s, a, b, v, p, x, y, adv, ok, IsSend

\* The words of memory that the programs rely on: all leaves but that of the revert root hash have
\* two, and the program counter is one of the four instructions.
Typed(m) ==
  /\ OnLeaves(m)
  /\ \A l \in Leaves \ {REVERT_LEAF} : DOMAIN m[l] = 1..2
  /\ m[1][1] \in 0..3

\* What a request writes keeps them.
Keeps(r) ==
  /\ IsWrite(r) => Leaf(r) # REVERT_LEAF /\ (r.addr = PC => r.data[1] \in 0..3)
  /\ IsNode(r) => \A l \in NodeOf(r) \ {REVERT_LEAF} :
       /\ DOMAIN r.data[l - Leaf(r) + 1] = 1..2
       /\ l = 1 => r.data[l - Leaf(r) + 1][1] \in 0..3

\* A request that keeps the types of memory leaves a memory of that type.
LEMMA TypedAfter ==
  ASSUME NEW m, Typed(m), NEW r, RequestOK(r), Keeps(r)
  PROVE  Typed(After(m, r))
<1> DEFINE n == After(m, r)
<1>1. OnLeaves(m) /\ (\A l \in Leaves \ {REVERT_LEAF} : DOMAIN m[l] = 1..2) /\ m[1][1] \in 0..3
  BY DEF Typed
<1>2. OnLeaves(n) /\ \A l \in Leaves \ NodeOf(r) : n[l] = m[l]
  BY <1>1, AfterFacts
<1>3. CASE r.t # "write"
  <2>1. n = m
    BY <1>1, <1>3, AfterFacts
  <2> QED
    BY <2>1
<1>4. CASE IsWrite(r)
  <2>1. n[Leaf(r)] = [m[Leaf(r)] EXCEPT ![1 + (r.addr % 2)] = r.data[1]]
    BY <1>1, <1>4, AfterFacts
  <2>2. NodeOf(r) = {Leaf(r)} /\ Leaf(r) \in Leaves
    BY <1>4, LeafFacts, Powers DEF NodeOf, IsWrite, AccessHeight, Leaves
  <2>3. Leaf(r) # REVERT_LEAF /\ (r.addr = PC => r.data[1] \in 0..3) /\ r.addr \in 0..31
    BY <1>4 DEF Keeps, IsWrite
  <2> HIDE DEF n
  <2>4. \A l \in Leaves \ {REVERT_LEAF} : DOMAIN n[l] = 1..2
    BY <1>1, <1>2, <2>1, <2>2, <2>3
  <2>5. n[1][1] \in 0..3
    <3>0. 1 \in Leaves /\ 1 \in Leaves \ {REVERT_LEAF}
      BY DEF Leaves, REVERT_LEAF
    <3>1. CASE Leaf(r) # 1
      BY <1>1, <1>2, <2>2, <3>0, <3>1
    <3>2. CASE Leaf(r) = 1
      <4>1. r.addr \in {2, 3}
        BY <2>3, <3>2 DEF Leaf
      <4>2. n[1] = [m[1] EXCEPT ![1 + (r.addr % 2)] = r.data[1]] /\ 1 \in DOMAIN m[1]
        BY <1>1, <2>1, <3>0, <3>2
      <4> QED
        BY <1>1, <2>3, <4>1, <4>2 DEF PC
    <3> QED
      BY <3>1, <3>2
  <2> QED
    BY <1>2, <2>4, <2>5 DEF Typed, n
<1>5. CASE IsNode(r)
  <2>1. Lands(m, r)
    BY <1>1, <1>5, AfterFacts
  <2>2. AccessHeight(r.size) = r.size /\ r.size \in 0..2
    BY <1>5 DEF IsNode, AccessHeight
  <2>3. PICK w \in 1..4 : w = 2^r.size
    BY <2>2, HeightFacts
  <2>4. Leaf(r) \in 0..15
    BY LeafFacts DEF Leaves
  <2>5. ASSUME NEW l \in NodeOf(r) PROVE n[l] = r.data[l - Leaf(r) + 1]
    <3>1. l \in Leaf(r)..(Leaf(r) + w - 1)
      BY <2>2, <2>3, <2>5 DEF NodeOf
    <3>2. l - Leaf(r) \in 0..(w - 1) /\ Leaf(r) + (l - Leaf(r)) = l
      BY <2>4, <3>1
    <3> QED
      BY <2>1, <2>3, <3>2 DEF Lands
  <2>6. \A l \in NodeOf(r) \ {REVERT_LEAF} :
       /\ DOMAIN r.data[l - Leaf(r) + 1] = 1..2
       /\ l = 1 => r.data[l - Leaf(r) + 1][1] \in 0..3
    BY <1>5 DEF Keeps
  <2> HIDE DEF n
  <2>7. \A l \in Leaves \ {REVERT_LEAF} : DOMAIN n[l] = 1..2
    BY <1>1, <1>2, <2>5, <2>6
  <2>8. n[1][1] \in 0..3
    <3>0. 1 \in Leaves /\ 1 # REVERT_LEAF
      BY DEF Leaves, REVERT_LEAF
    <3>1. CASE 1 \in NodeOf(r)
      BY <2>5, <2>6, <3>0, <3>1
    <3>2. CASE 1 \notin NodeOf(r)
      BY <1>1, <1>2, <3>0, <3>2
    <3> QED
      BY <3>1, <3>2
  <2> QED
    BY <1>2, <2>7, <2>8 DEF Typed, n
<1> QED
  BY <1>3, <1>4, <1>5 DEF RequestOK, IsRead, IsRevert

\* A request that leaves the revert root hash alone.
Spares(r) == r.t = "write" => REVERT_LEAF \notin NodeOf(r)

\* Reads of a word,
LEMMA RdOK ==
  ASSUME NEW n \in 0..31
  PROVE  LET r == Rd(n) IN RequestOK(r) /\ Keeps(r) /\ Spares(r) /\ r.t = "read" /\ r.addr = n
  BY DEF Rd, RequestOK, IsRead, Keeps, IsWrite, IsNode, Spares

\* writes of a word,
LEMMA WrOK ==
  ASSUME NEW n \in 0..31, n \div 2 # REVERT_LEAF, NEW v, n = PC => v \in 0..3
  PROVE  LET r == Wr(n, v) IN RequestOK(r) /\ Keeps(r) /\ Spares(r) /\ r.t = "write"
<1> DEFINE r == Wr(n, v)
<1>1. r.t = "write" /\ r.addr = n /\ r.size = -1 /\ r.data = <<v>> /\ r.data[1] = v
  BY DEF Wr
<1> HIDE DEF r
<1>2. IsWrite(r) /\ Leaf(r) = n \div 2
  BY <1>1 DEF IsWrite, Leaf
<1>3. ~IsNode(r)
  <2>1. -1 \notin 0..2
    OBVIOUS
  <2> QED
    BY <1>1, <2>1 DEF IsNode
<1>4. NodeOf(r) = {n \div 2}
  BY <1>1, <1>2, Powers DEF NodeOf, AccessHeight
<1>5. RequestOK(r) /\ Keeps(r) /\ Spares(r) /\ r.t = "write"
  BY <1>1, <1>2, <1>3, <1>4 DEF RequestOK, Keeps, Spares
<1> QED
  BY <1>5 DEF r

\* and writes of a node.
LEMMA NodeOK ==
  ASSUME NEW h \in 0..2, NEW leaf \in Aligned(h), NEW d, Len(d) = 2^h,
         \A k \in 0..(2^h - 1) : leaf + k # REVERT_LEAF =>
           DOMAIN d[k + 1] = 1..2 /\ (leaf + k = 1 => d[k + 1][1] \in 0..3)
  PROVE  LET r == WrNode(leaf, h, d)
         IN RequestOK(r) /\ Keeps(r) /\ r.t = "write" /\ IsNode(r) /\ r.data = d /\ NodeOf(r) = leaf..(leaf + 2^h - 1)
<1> DEFINE r == WrNode(leaf, h, d)
<1>1. r.t = "write" /\ r.addr = 2 * leaf /\ r.size = h /\ r.data = d
  BY DEF WrNode
<1> HIDE DEF r
<1>2. IsNode(r) /\ RequestOK(r)
  BY <1>1 DEF IsNode, RequestOK
<1>3. leaf \in 0..15
  BY DEF Aligned, Leaves
<1>4. Leaf(r) = leaf /\ AccessHeight(r.size) = h
  BY <1>1, <1>3 DEF Leaf, AccessHeight
<1>5. NodeOf(r) = leaf..(leaf + 2^h - 1)
  BY <1>1, <1>4 DEF NodeOf
<1>6. ~IsWrite(r)
  BY <1>1 DEF IsWrite
<1>7. PICK w \in 1..4 : w = 2^h
  BY HeightFacts
<1>8. ASSUME NEW l \in NodeOf(r) \ {REVERT_LEAF}
      PROVE  DOMAIN r.data[l - Leaf(r) + 1] = 1..2 /\ (l = 1 => r.data[l - Leaf(r) + 1][1] \in 0..3)
  <2>0. l \in leaf..(leaf + w - 1)
    BY <1>5, <1>7, <1>8
  <2>1. l - leaf \in 0..(w - 1) /\ leaf + (l - leaf) = l
    BY <1>3, <2>0
  <2>2. l - leaf \in 0..(2^h - 1)
    BY <1>7, <2>1
  <2>3. l # REVERT_LEAF
    BY <1>8
  <2> QED
    BY <1>1, <1>4, <2>1, <2>2, <2>3
<1>9. Keeps(r)
  BY <1>6, <1>8 DEF Keeps
<1> QED
  BY <1>1, <1>2, <1>5, <1>9 DEF r

\* The nodes that the programs write.
LEMMA TlbOK ==
  ASSUME NEW g
  PROVE  LET r == WrNode(TLB_LEAF, 0, <<<<g, 1>>>>) IN RequestOK(r) /\ Keeps(r) /\ Spares(r) /\ r.t = "write"
<1> DEFINE d == <<<<g, 1>>>>
<1>1. 0 \in 0..2 /\ 7 \in Aligned(0) /\ Len(d) = 2^0
  BY Powers DEF Aligned, Leaves
<1>2. \A k \in 0..(2^0 - 1) : 7 + k # REVERT_LEAF => DOMAIN d[k + 1] = 1..2 /\ (7 + k = 1 => d[k + 1][1] \in 0..3)
  <2>1. d[1] = <<g, 1>> /\ DOMAIN <<g, 1>> = 1..2 /\ \A k \in 0..(2^0 - 1) : k = 0 /\ k + 1 = 1
    BY Powers
  <2> QED
    BY <2>1
<1> HIDE DEF d
<1>3. LET r == WrNode(7, 0, d)
      IN RequestOK(r) /\ Keeps(r) /\ r.t = "write" /\ IsNode(r) /\ r.data = d /\ NodeOf(r) = 7..(7 + 2^0 - 1)
  BY <1>1, <1>2, NodeOK
<1>4. 6 \notin 7..(7 + 2^0 - 1)
  OBVIOUS
<1> QED
  BY <1>3, <1>4 DEF Spares, TLB_LEAF, REVERT_LEAF, d

\* The write of the revert root hash.
LEMMA SavesOK ==
  ASSUME NEW i
  PROVE  LET r == SavesRoot(i)
         IN RequestOK(r) /\ Keeps(r) /\ r.t = "write" /\ IsNode(r) /\ r.data = <<<<i.revert>>>> /\ NodeOf(r) = {REVERT_LEAF}
<1> DEFINE d == <<<<i.revert>>>>
<1>1. 0 \in 0..2 /\ 6 \in Aligned(0) /\ Len(d) = 2^0
  BY Powers DEF Aligned, Leaves
<1>2. \A k \in 0..(2^0 - 1) : 6 + k # REVERT_LEAF => DOMAIN d[k + 1] = 1..2 /\ (6 + k = 1 => d[k + 1][1] \in 0..3)
  BY Powers DEF REVERT_LEAF
<1> HIDE DEF d
<1>3. LET r == WrNode(6, 0, d)
      IN RequestOK(r) /\ Keeps(r) /\ r.t = "write" /\ IsNode(r) /\ r.data = d /\ NodeOf(r) = 6..(6 + 2^0 - 1)
  BY <1>1, <1>2, NodeOK
<1>4. 6..(6 + 2^0 - 1) = {6}
  OBVIOUS
<1> QED
  BY <1>3, <1>4 DEF SavesRoot, REVERT_LEAF, d

\* The write of the pristine microarchitecture state.
LEMMA ResetOK ==
  LET r == WrNode(0, 2, PristineUarch) IN RequestOK(r) /\ Keeps(r) /\ Spares(r) /\ r.t = "write"
<1> DEFINE d == PristineUarch
<1>0. /\ Len(d) = 4 /\ d[1] = <<0, 0>> /\ d[2] = <<0, 0>>
      /\ d[3] = <<prog[1], prog[2]>> /\ d[4] = <<prog[3], prog[4]>>
  BY DEF PristineUarch
<1>1. 2 \in 0..2 /\ 0 \in Aligned(2) /\ Len(d) = 2^2
  BY <1>0, Powers DEF Aligned, Leaves
<1>2. \A k \in 0..(2^2 - 1) : 0 + k # REVERT_LEAF => DOMAIN d[k + 1] = 1..2 /\ (0 + k = 1 => d[k + 1][1] \in 0..3)
  <2>1. \A k \in 0..(2^2 - 1) : (k + 1 = 1 \/ k + 1 = 2 \/ k + 1 = 3 \/ k + 1 = 4) /\ (0 + k = 1 => k + 1 = 2)
    BY Powers
  <2>2. \A x, y : DOMAIN <<x, y>> = 1..2
    OBVIOUS
  <2>3. d[2][1] = 0 /\ 0 \in 0..3
    BY <1>0
  <2> HIDE DEF d
  <2> QED
    BY <1>0, <2>1, <2>2, <2>3
<1> HIDE DEF d
<1>3. LET r == WrNode(0, 2, d)
      IN RequestOK(r) /\ Keeps(r) /\ r.t = "write" /\ IsNode(r) /\ r.data = d /\ NodeOf(r) = 0..(0 + 2^2 - 1)
  BY <1>1, <1>2, NodeOK
<1>4. 6 \notin 0..(0 + 2^2 - 1)
  OBVIOUS
<1> QED
  BY <1>3, <1>4 DEF Spares, REVERT_LEAF, d

\* The write of the receive buffer.
LEMMA FillsOK ==
  ASSUME NEW i, i.len \in 0..512, FitsBuffer(i)
  PROVE  LET r == Fills(i) IN RequestOK(r) /\ Keeps(r) /\ Spares(r) /\ r.t = "write"
<1> DEFINE h == WriteLog2(i.len)
           d == Padded(i.len, h)
<1>1. h \in 0..1 /\ h \in 0..2
  <2>1. i.len \in 1..512
    BY DEF FitsBuffer
  <2>2. h \in 0..8
    BY <2>1, LogFacts
  <2>3. ~(h > 1)
    BY DEF FitsBuffer, RX_LOG2
  <2> QED
    BY <2>2, <2>3
<1>2. 8 \in Aligned(h)
  <2> HIDE DEF h
  <2>1. CASE h = 0
    BY <2>1, Powers DEF Aligned, Leaves
  <2>2. CASE h = 1
    BY <2>2, Powers DEF Aligned, Leaves
  <2> QED
    BY <1>1, <2>1, <2>2
<1>3. PICK w \in 1..4 : w = 2^h
  BY <1>1, HeightFacts
<1> HIDE DEF h
<1>4. d = [k \in 1..w |-> <<IF 2 * k - 1 <= i.len THEN 1 ELSE 0, IF 2 * k <= i.len THEN 1 ELSE 0>>]
  BY <1>3 DEF Padded
<1> HIDE DEF d
<1>5. Len(d) = 2^h
  <2> DEFINE S == {d[k] : k \in 1..w}
  <2>1. d \in [1..w -> S] /\ w \in Nat
    BY <1>4
  <2> HIDE DEF S
  <2> QED
    BY <1>3, <2>1, FcnIsSeq
<1>6. \A k \in 1..w : DOMAIN d[k] = 1..2
  BY <1>4
<1>7. \A k \in 0..(2^h - 1) : 8 + k # REVERT_LEAF => DOMAIN d[k + 1] = 1..2 /\ (8 + k = 1 => d[k + 1][1] \in 0..3)
  <2>1. \A k \in 0..(w - 1) : k + 1 \in 1..w /\ 8 + k # 1
    OBVIOUS
  <2> QED
    BY <1>3, <1>6, <2>1
<1>8. LET r == WrNode(8, h, d)
      IN RequestOK(r) /\ Keeps(r) /\ r.t = "write" /\ IsNode(r) /\ r.data = d /\ NodeOf(r) = 8..(8 + 2^h - 1)
  BY <1>1, <1>2, <1>5, <1>7, NodeOK
<1>9. 6 \notin 8..(8 + 2^h - 1)
  <2>1. 6 \notin 8..(8 + w - 1)
    OBVIOUS
  <2> QED
    BY <1>3, <2>1
<1> QED
  BY <1>8, <1>9 DEF Spares, REVERT_LEAF, Fills, RX_LEAF, d, h

\* The read of the revert root hash.
LEMMA RevertOK == RequestOK(Revert) /\ Keeps(Revert) /\ Spares(Revert) /\ Revert.t = "revert" /\ IsRevert(Revert)
  BY DEF Revert, RequestOK, IsRevert, Keeps, IsWrite, IsNode, Spares

Ops == {"step", "reset", "send"}

\* A program that asks for its k-th access has read got: the first four accesses of a step are
\* reads, the third one of the program counter, and a response reads before it writes.
Reached(op, i, got, k) ==
  /\ IsSeq(got) /\ Len(got) < k
  /\ op = "step" => /\ k <= 5 => Len(got) = k - 1
                    /\ k >= 4 => Len(got) >= 3 /\ got[3] \in 0..3
  /\ op = "send" => Len(got) < First(i)

\* What its k-th access may be.
Asked(op, i, got, k, r) ==
  /\ r.t = "throw" \/ (RequestOK(r) /\ Keeps(r))
  /\ r.t = "throw" => op = "step"
  /\ r.t = "revert" => IsRevert(r) /\ op = "reset" /\ Len(Requests(op, i, got)) = k
  /\ op # "send" => Spares(r)
  /\ op = "send" /\ ~Spares(r) => r = SavesRoot(i)
  /\ op = "send" /\ r.t # "read" /\ k = Len(got) + 1 => r = SavesRoot(i)
  /\ op = "send" /\ r.t = "read" => k < First(i)
  /\ op = "step" /\ k <= 4 => r.t = "read"
  /\ op = "step" /\ k = 3 => r = Rd(PC)

\* The k-th request of a response: reads, the revert root hash, and the rest.
SendPart(i, k, r) ==
  /\ k < First(i) => r.t = "read" /\ Spares(r)
  /\ k = First(i) => r.t = "write" /\ r = SavesRoot(i)
  /\ k > First(i) => r.t = "write" /\ Spares(r)

\* Every request of a response is one of these.
LEMMA SendOK ==
  ASSUME NEW i, i.len \in 0..512, NEW s, IsSend(i, s), NEW k \in 1..Len(s)
  PROVE  RequestOK(s[k]) /\ Keeps(s[k]) /\ SendPart(i, k, s[k])
<1> DEFINE r == s[k]
<1>1. First(i) \in 2..3 /\ (i.reason = ADVANCE <=> First(i) = 3)
  BY DEF First
<1>2. Len(s) \in 1..6
  BY DEF IsSend
<1>3. /\ k < First(i) => r = Rd(IFLAGS_Y) \/ r = Rd(TOHOST)
      /\ k = First(i) => r = SavesRoot(i)
      /\ k > First(i) => r = TellsGuest(i) \/ r = Wr(IFLAGS_Y, 0) \/ (FitsBuffer(i) /\ r = Fills(i))
  BY <1>1, <1>2 DEF IsSend
<1> HIDE DEF r
<1>4. k < First(i) => RequestOK(r) /\ Keeps(r) /\ Spares(r) /\ r.t = "read"
  <2>1. IFLAGS_Y \in 0..31 /\ TOHOST \in 0..31
    BY DEF IFLAGS_Y, TOHOST
  <2>2. k < First(i) => \E n \in 0..31 : r = Rd(n)
    BY <1>3, <2>1
  <2>3. ASSUME NEW n \in 0..31, r = Rd(n) PROVE RequestOK(r) /\ Keeps(r) /\ Spares(r) /\ r.t = "read"
    BY <2>3, RdOK
  <2> QED
    BY <2>2, <2>3
<1>5. k = First(i) => RequestOK(r) /\ Keeps(r) /\ r.t = "write" /\ r = SavesRoot(i)
  BY <1>3, SavesOK
<1>6. k > First(i) => RequestOK(r) /\ Keeps(r) /\ r.t = "write" /\ Spares(r)
  <2> SUFFICES ASSUME k > First(i) PROVE RequestOK(r) /\ Keeps(r) /\ r.t = "write" /\ Spares(r)
    OBVIOUS
  <2>1. CASE r = TellsGuest(i)
    BY <2>1, WrOK DEF TellsGuest, FROMHOST, PC, REVERT_LEAF
  <2>2. CASE r = Wr(IFLAGS_Y, 0)
    BY <2>2, WrOK DEF IFLAGS_Y, PC, REVERT_LEAF
  <2>3. CASE FitsBuffer(i) /\ r = Fills(i)
    BY <2>3, FillsOK
  <2> QED
    BY <1>3, <2>1, <2>2, <2>3
<1>7. RequestOK(r) /\ Keeps(r) /\ SendPart(i, k, r)
  BY <1>1, <1>4, <1>5, <1>6 DEF SendPart
<1> QED
  BY <1>7 DEF r

\* What a program asks for, wherever it has got.
LEMMA Program ==
  ASSUME NEW op \in Ops, NEW i, op = "send" => i.len \in 0..512, NEW got, NEW k \in Nat \ {0},
         Reached(op, i, got, k), k <= Len(Requests(op, i, got))
  PROVE  Asked(op, i, got, k, Requests(op, i, got)[k])
<1> DEFINE s == Requests(op, i, got)
           r == s[k]
<1>1. CASE op = "step"
  <2>1. s = uarch_step(got)
    BY <1>1 DEF Requests
  <2>2. IsSeq(got) /\ (k <= 5 => Len(got) = k - 1) /\ (k >= 4 => Len(got) >= 3 /\ got[3] \in 0..3)
    BY <1>1 DEF Reached
  <2>3. /\ k = 1 => r = Rd(CYCLE)
        /\ k = 2 => r = Rd(HALT)
        /\ k = 3 => r = Rd(PC)
        /\ k = 4 => r = Rd(UARCH_RAM + got[3])
        /\ k >= 5 => r \in InsnRequests(got)
    <3>1. IsStep(got, s)
      BY <2>1, StepFacts
    <3>2. k \in 1..Len(s)
      BY <3>1 DEF IsStep
    <3> HIDE DEF s
    <3> QED
      BY <3>1, <3>2 DEF IsStep
  <2>4. CASE k <= 4
    <3> HIDE DEF r, s
    <3>1. \E n \in 0..31 : r = Rd(n)
      <4>1. k = 1 \/ k = 2 \/ k = 3 \/ k = 4
        BY <2>4
      <4>2. k = 4 => UARCH_RAM + got[3] \in 0..31
        <5>1. k = 4 => k >= 4
          OBVIOUS
        <5>2. k = 4 => got[3] \in 0..3
          BY <2>2, <5>1
        <5>3. \A x \in 0..3 : UARCH_RAM + x \in 0..31
          BY DEF UARCH_RAM
        <5> QED
          BY <5>2, <5>3
      <4>3. CYCLE \in 0..31 /\ HALT \in 0..31 /\ PC \in 0..31
        BY DEF CYCLE, HALT, PC
      <4> QED
        BY <2>3, <4>1, <4>2, <4>3
    <3>2. PICK n \in 0..31 : r = Rd(n)
      BY <3>1
    <3>3. RequestOK(r) /\ Keeps(r) /\ Spares(r) /\ r.t = "read"
      BY <3>2, RdOK
    <3>4. Asked(op, i, got, k, r)
      BY <1>1, <2>3, <2>4, <3>3 DEF Asked
    <3> QED
      BY <3>4 DEF r, s
  <2>5. CASE k >= 5
    <3>1. \/ r = Throw
          \/ \E n \in 0..31 : r = Rd(n)
          \/ \E n \in 0..31 : \E v : n \div 2 # REVERT_LEAF /\ (n = PC => v \in 0..3) /\ r = Wr(n, v)
          \/ r = WrNode(TLB_LEAF, 0, <<<<got[5], 1>>>>)
      <4>1. r \in InsnRequests(got)
        BY <2>3, <2>5
      <4>2. (got[3] + 1) % 4 \in 0..3
        BY <2>2, <2>5
      <4> HIDE DEF r
      <4>3. CASE r = Rd(RAM_WORD) \/ r = Rd(X)
        BY <4>3 DEF RAM_WORD, X
      <4>4. CASE r = Wr(X, got[5])
        BY <4>4 DEF X, PC, REVERT_LEAF
      <4>5. CASE r = Wr(RAM_WORD, 1 - got[5])
        BY <4>5 DEF RAM_WORD, PC, REVERT_LEAF
      <4>6. CASE r = Wr(PC, (got[3] + 1) % 4)
        BY <4>2, <4>6 DEF PC, REVERT_LEAF
      <4>7. CASE r = Wr(HALT, 1)
        BY <4>7 DEF HALT, PC, REVERT_LEAF
      <4>8. CASE r = Wr(CYCLE, got[1] + 1)
        BY <4>8 DEF CYCLE, PC, REVERT_LEAF
      <4> QED
        BY <4>1, <4>3, <4>4, <4>5, <4>6, <4>7, <4>8 DEF InsnRequests
    <3>2. r.t = "throw" \/ (RequestOK(r) /\ Keeps(r) /\ Spares(r) /\ r.t \in {"read", "write"})
      <4> HIDE DEF r
      <4>1. CASE r = Throw
        BY <4>1 DEF Throw
      <4>2. CASE \E n \in 0..31 : r = Rd(n)
        <5>1. PICK n \in 0..31 : r = Rd(n)
          BY <4>2
        <5> QED
          BY <5>1, RdOK
      <4>3. CASE \E n \in 0..31 : \E v : n \div 2 # REVERT_LEAF /\ (n = PC => v \in 0..3) /\ r = Wr(n, v)
        BY <4>3, WrOK
      <4>4. CASE r = WrNode(TLB_LEAF, 0, <<<<got[5], 1>>>>)
        BY <4>4, TlbOK
      <4> QED
        BY <3>1, <4>1, <4>2, <4>3, <4>4
    <3> HIDE DEF r, s
    <3> QED
      <4>1. Asked(op, i, got, k, r)
        BY <1>1, <2>5, <3>2 DEF Asked, Spares
      <4> QED
        BY <4>1 DEF r, s
  <2> QED
    BY <2>4, <2>5
<1>2. CASE op = "reset"
  <2>1. s = uarch_reset_state(got)
    BY <1>2 DEF Requests
  <2>2. IsReset(s)
    BY <2>1, ResetFacts
  <2>3. Len(s) \in 2..4 /\ k <= Len(s)
    BY <2>2 DEF IsReset
  <2>4. /\ k \in 1..4
        /\ k = 1 => r = WrNode(0, 2, PristineUarch)
        /\ k = 2 => r = Rd(IFLAGS_Y)
        /\ k = 3 => r = Rd(TOHOST)
        /\ k = 4 => r = Revert
    <3> HIDE DEF s
    <3>1. PICK n \in 2..4 : n = Len(s)
      BY <2>3
    <3>2. k \in 1..4 /\ k <= n
      BY <2>3, <3>1
    <3>3. s[1] = WrNode(0, 2, PristineUarch) /\ s[2] = Rd(IFLAGS_Y) /\ (n >= 3 => s[3] = Rd(TOHOST)) /\ (n >= 4 => s[4] = Revert)
      BY <2>2, <3>1 DEF IsReset
    <3> QED
      BY <3>2, <3>3
  <2>5. k = 4 => Len(s) = k
    <3> HIDE DEF s
    <3>1. PICK n \in 2..4 : n = Len(s)
      BY <2>3
    <3>2. k = 4 => n = k
      BY <2>3, <3>1
    <3> QED
      BY <3>1, <3>2
  <2>6. Rd(IFLAGS_Y).t = "read" /\ RequestOK(Rd(IFLAGS_Y)) /\ Keeps(Rd(IFLAGS_Y)) /\ Spares(Rd(IFLAGS_Y))
    BY RdOK DEF IFLAGS_Y
  <2>7. Rd(TOHOST).t = "read" /\ RequestOK(Rd(TOHOST)) /\ Keeps(Rd(TOHOST)) /\ Spares(Rd(TOHOST))
    BY RdOK DEF TOHOST
  <2>8. RequestOK(r) /\ Keeps(r) /\ Spares(r) /\ r.t # "throw" /\ (r.t = "revert" => k = 4 /\ IsRevert(r))
    <3> HIDE DEF r
    <3>1. CASE k = 1
      BY <2>4, <3>1, ResetOK
    <3>2. CASE k = 2
      BY <2>4, <2>6, <3>2
    <3>3. CASE k = 3
      BY <2>4, <2>7, <3>3
    <3>4. CASE k = 4
      BY <2>4, <3>4, RevertOK
    <3> QED
      BY <2>4, <3>1, <3>2, <3>3, <3>4
  <2>9. Len(Requests(op, i, got)) = k \/ k # 4
    BY <2>5
  <2> HIDE DEF r, s
  <2>10. Asked(op, i, got, k, r)
    BY <1>2, <2>8, <2>9 DEF Asked
  <2> QED
    BY <2>10 DEF r, s
<1>3. CASE op = "send"
  <2>1. s = send_cmio_response(i, got)
    BY <1>3 DEF Requests
  <2>2. IsSend(i, s)
    BY <1>3, <2>1, SendFacts
  <2>3. First(i) \in 2..3 /\ Len(got) \in Nat /\ Len(got) < k /\ Len(got) < First(i)
    BY <1>3, IsSeqFacts DEF First, Reached
  <2>4. k \in 1..Len(s)
    BY <2>2 DEF IsSend
  <2>5. RequestOK(r) /\ Keeps(r) /\ SendPart(i, k, r)
    BY <1>3, <2>2, <2>4, SendOK
  <2> HIDE DEF s, r
  <2>9. Asked(op, i, got, k, r)
    BY <1>3, <2>3, <2>5 DEF Asked, SendPart
  <2> QED
    BY <2>9 DEF r, s
<1> QED
  BY <1>1, <1>2, <1>3 DEF Ops

\* One access later it has still read what Reached says.
LEMMA ReachedNext ==
  ASSUME NEW op \in Ops, NEW i, NEW got, NEW k \in Nat \ {0}, NEW r, NEW v,
         Reached(op, i, got, k), Asked(op, i, got, k, r), op = "step" /\ k = 3 => v \in 0..3
  PROVE  Reached(op, i, IF r.t = "read" THEN Append(got, v) ELSE got, k + 1)
<1>1. IsSeq(got) /\ Len(got) < k
  BY DEF Reached
<1>2. /\ Len(got) \in Nat /\ IsSeq(Append(got, v)) /\ Len(Append(got, v)) = Len(got) + 1
      /\ Append(got, v)[Len(got) + 1] = v /\ \A j \in 1..Len(got) : Append(got, v)[j] = got[j]
  BY <1>1, IsSeqFacts
<1>3. CASE r.t = "read"
  <2>1. op = "step" /\ k + 1 <= 5 => Len(Append(got, v)) = k
    BY <1>2 DEF Reached
  <2>2. op = "step" /\ k + 1 >= 4 => Len(Append(got, v)) >= 3 /\ Append(got, v)[3] \in 0..3
    <3>1. CASE k = 3
      BY <1>2, <3>1 DEF Reached
    <3>2. CASE k >= 4
      BY <1>2, <3>2 DEF Reached
    <3> QED
      BY <3>1, <3>2
  <2>3. op = "send" => Len(Append(got, v)) < First(i)
    <3>1. op = "send" => k < First(i) /\ First(i) \in 2..3
      BY <1>3 DEF Asked, First
    <3> QED
      BY <1>1, <1>2, <3>1
  <2>4. Len(Append(got, v)) < k + 1 /\ k + 1 - 1 = k
    BY <1>1, <1>2
  <2> QED
    BY <1>2, <1>3, <2>1, <2>2, <2>3, <2>4 DEF Reached
<1>4. CASE r.t # "read"
  <2>1. op = "step" => k >= 5
    BY <1>4 DEF Asked
  <2>2. Len(got) < k + 1
    BY <1>1, <1>2
  <2> QED
    BY <1>1, <1>4, <2>1, <2>2 DEF Reached
<1> QED
  BY <1>3, <1>4

----------------------------------------------------------------------------
(* The history of a recording                                               *)
\* The requests of a program on a machine with pristine microarchitecture RAM p.
RequestsOf(p, op, i, got) ==
  CASE op = "step" -> uarch_step(got)
    [] op = "reset" ->
         <<WrNode(0, 2, <<<<0, 0>>, <<0, 0>>, <<p[1], p[2]>>, <<p[3], p[4]>>>>), Rd(IFLAGS_Y)>> \o
           IF Len(got) < 1 \/ got[1] = 0 THEN <<>>
           ELSE <<Rd(TOHOST)>> \o IF Len(got) < 2 \/ got[2] # REJECTED THEN <<>> ELSE <<Revert>>
    [] op = "send" -> send_cmio_response(i, got)

\* RequestsOf is Requests with the program as an argument.
LEMMA SameRequests == ASSUME NEW op, NEW i, NEW got PROVE RequestsOf(prog, op, i, got) = Requests(op, i, got)
  BY DEF RequestsOf, Requests, uarch_reset_state, PristineUarch

OpOK(op, i) == op \in Ops /\ (op = "send" => i.len \in 0..512)

\* A program makes finitely many requests.
LEMMA RequestsLen ==
  ASSUME NEW op, NEW i, OpOK(op, i), NEW got
  PROVE  Len(RequestsOf(prog, op, i, got)) \in Nat
<1>1. RequestsOf(prog, op, i, got) = Requests(op, i, got)
  BY SameRequests
<1>2. CASE op = "step"
  BY <1>1, <1>2, StepFacts DEF Requests, IsStep
<1>3. CASE op = "reset"
  <2>1. Len(uarch_reset_state(got)) \in 2..4
    BY ResetFacts DEF IsReset
  <2> QED
    BY <1>1, <1>3, <2>1 DEF Requests
<1>4. CASE op = "send"
  <2>1. Len(send_cmio_response(i, got)) \in 1..6
    BY <1>4, SendFacts DEF IsSend, OpOK
  <2> QED
    BY <1>1, <1>4, <2>1 DEF Requests
<1> QED
  BY <1>2, <1>3, <1>4 DEF OpOK, Ops

\* The k-th request that a program makes when it has read got, and what the access recorded for it
\* and the memory and the reads after it are.
Asks(p, op, i, got, k) == RequestsOf(p, op, i, got)[k]
ReadWord(m, r) == m[Leaf(r)][1 + (r.addr % 2)]
GotAfter(m, got, r) == IF r.t = "read" THEN Append(got, ReadWord(m, r)) ELSE got
Recorded(p, op, i, a, k, m, got) ==
  LET r == Asks(p, op, i, got, k)
  IN k <= Len(RequestsOf(p, op, i, got)) /\ r.t # "throw" /\ Good(a, m, r)

\* The history of a recording: memory M[k] and reads G[k] before the k-th access.
Trace(p, op, i, acc, M, G, n) ==
  /\ \A k \in 1..(n + 1) : Typed(M[k]) /\ Reached(op, i, G[k], k)
  /\ \A k \in 1..n : LET r == Asks(p, op, i, G[k], k)
                     IN /\ Recorded(p, op, i, acc[k], k, M[k], G[k])
                        /\ M[k + 1] = After(M[k], r) /\ G[k + 1] = GotAfter(M[k], G[k], r)
                        /\ r.t = "revert" => k = n

\* Program, of RequestsOf.
LEMMA AsksFacts ==
  ASSUME NEW op, NEW i, OpOK(op, i), NEW got, NEW k \in Nat \ {0}, Reached(op, i, got, k),
         k <= Len(RequestsOf(prog, op, i, got))
  PROVE  Asked(op, i, got, k, Asks(prog, op, i, got, k))
<1>1. RequestsOf(prog, op, i, got) = Requests(op, i, got)
  BY SameRequests
<1>2. op \in Ops /\ (op = "send" => i.len \in 0..512) /\ k <= Len(Requests(op, i, got))
  BY <1>1 DEF OpOK
<1>3. Asked(op, i, got, k, Requests(op, i, got)[k])
  BY <1>2, Program
<1> QED
  BY <1>1, <1>3 DEF Asks

\* One access later.
LEMMA OneOn ==
  ASSUME NEW op, NEW i, OpOK(op, i), NEW got, NEW k \in Nat \ {0}, Reached(op, i, got, k), NEW m, Typed(m),
         k <= Len(RequestsOf(prog, op, i, got)), NEW r, r = Asks(prog, op, i, got, k), r.t # "throw"
  PROVE  Typed(After(m, r)) /\ Reached(op, i, GotAfter(m, got, r), k + 1)
<1>1. Asked(op, i, got, k, r)
  BY AsksFacts
<1>2. RequestOK(r) /\ Keeps(r)
  BY <1>1 DEF Asked
<1>3. Typed(After(m, r))
  BY <1>2, TypedAfter
<1>4. op = "step" /\ k = 3 => ReadWord(m, r) \in 0..3
  <2> SUFFICES ASSUME op = "step", k = 3 PROVE ReadWord(m, r) \in 0..3
    OBVIOUS
  <2>1. r = Rd(PC)
    BY <1>1 DEF Asked
  <2>2. Leaf(r) = 1 /\ r.addr % 2 = 0
    BY <2>1 DEF Rd, PC, Leaf
  <2> QED
    BY <2>2 DEF ReadWord, Typed
<1>5. Reached(op, i, IF r.t = "read" THEN Append(got, ReadWord(m, r)) ELSE got, k + 1)
  BY <1>1, <1>4, ReachedNext DEF OpOK
<1> QED
  BY <1>3, <1>5 DEF GotAfter

\* The trace of no access.
Opens(M, G, p, op, i, acc, m) == Trace(p, op, i, acc, M, G, 0) /\ M[1] = m /\ G[1] = <<>>

\* It exists.
LEMMA TraceStart ==
  ASSUME NEW p, NEW op, NEW i, NEW m, Typed(m), NEW acc
  PROVE  \E M, G : Opens(M, G, p, op, i, acc, m)
<1> DEFINE M == [k \in 1..1 |-> m]
           G == [k \in 1..1 |-> <<>>]
<1>1. M[1] = m /\ G[1] = <<>>
  OBVIOUS
<1>2. Reached(op, i, <<>>, 1)
  <2>1. <<>> \in Seq({}) /\ Len(<<>>) = 0 /\ First(i) \in 2..3
    BY DEF First
  <2> QED
    BY <2>1 DEF Reached, IsSeq
<1> HIDE DEF M, G
<1>3. \A k \in 1..(0 + 1) : Typed(M[k]) /\ Reached(op, i, G[k], k)
  <2>1. \A k \in 1..(0 + 1) : k = 1
    OBVIOUS
  <2> QED
    BY <1>1, <1>2, <2>1
<1>4. 1..0 = {}
  OBVIOUS
<1>5. Trace(p, op, i, acc, M, G, 0)
  BY <1>3, <1>4 DEF Trace
<1> QED
  BY <1>1, <1>5 DEF Opens

\* The trace of one access more.
Longer(M, G, n, M2, G2, m, got) ==
  /\ \A k \in 1..(n + 1) : M2[k] = M[k] /\ G2[k] = G[k]
  /\ M2[n + 2] = m /\ G2[n + 2] = got

\* A recorded access makes a trace longer, and a revert is its end.
LEMMA TraceGrows ==
  ASSUME NEW op, NEW i, OpOK(op, i), NEW acc, IsSeq(acc), NEW n \in Nat, Len(acc) = n, NEW M, NEW G,
         Trace(prog, op, i, acc, M, G, n), NEW a, Recorded(prog, op, i, a, n + 1, M[n + 1], G[n + 1]),
         NEW r, r = Asks(prog, op, i, G[n + 1], n + 1)
  PROVE  \E M2, G2 : /\ Longer(M, G, n, M2, G2, After(M[n + 1], r), GotAfter(M[n + 1], G[n + 1], r))
                     /\ Trace(prog, op, i, Append(acc, a), M2, G2, n + 1)
<1> DEFINE m == After(M[n + 1], r)
           got == GotAfter(M[n + 1], G[n + 1], r)
           M2 == [k \in 1..(n + 2) |-> IF k <= n + 1 THEN M[k] ELSE m]
           G2 == [k \in 1..(n + 2) |-> IF k <= n + 1 THEN G[k] ELSE got]
           A == Append(acc, a)
<1>1. (\A k \in 1..(n + 1) : M2[k] = M[k] /\ G2[k] = G[k]) /\ M2[n + 2] = m /\ G2[n + 2] = got
  OBVIOUS
<1>2. (\A k \in 1..n : A[k] = acc[k]) /\ A[n + 1] = a
  BY IsSeqFacts
<1> HIDE DEF M2, G2, A
<1>3. n + 1 \in 1..(n + 1) /\ (n + 1) + 1 = n + 2 /\ n + 1 \in Nat \ {0}
  OBVIOUS
<1>4. Typed(M[n + 1]) /\ Reached(op, i, G[n + 1], n + 1)
  BY <1>3 DEF Trace
<1>5. n + 1 <= Len(RequestsOf(prog, op, i, G[n + 1])) /\ r.t # "throw"
  BY DEF Recorded
<1>6. Typed(m) /\ Reached(op, i, got, n + 2)
  <2>1. Typed(m) /\ Reached(op, i, got, (n + 1) + 1)
    BY <1>3, <1>4, <1>5, OneOn
  <2> QED
    BY <1>3, <2>1
<1> HIDE DEF m, got
<1>7. ASSUME NEW k \in 1..((n + 1) + 1) PROVE Typed(M2[k]) /\ Reached(op, i, G2[k], k)
  <2>1. CASE k = n + 2
    BY <1>1, <1>6, <2>1
  <2>2. CASE k \in 1..(n + 1)
    BY <1>1, <2>2 DEF Trace
  <2> QED
    BY <2>1, <2>2
\* nothing follows a revert
<1>8. ASSUME NEW k \in 1..n, Asks(prog, op, i, G[k], k).t = "revert" PROVE FALSE
  <2>1. k = n /\ k \in Nat \ {0} /\ k \in 1..(n + 1)
    BY <1>8 DEF Trace
  <2>2. Recorded(prog, op, i, acc[k], k, M[k], G[k]) /\ G[k + 1] = GotAfter(M[k], G[k], Asks(prog, op, i, G[k], k))
    BY DEF Trace
  <2>3. k <= Len(RequestsOf(prog, op, i, G[k])) /\ G[k + 1] = G[k]
    BY <1>8, <2>2 DEF Recorded, GotAfter
  <2>4. Reached(op, i, G[k], k)
    BY <2>1 DEF Trace
  <2>5. Asked(op, i, G[k], k, Asks(prog, op, i, G[k], k))
    BY <2>1, <2>3, <2>4, AsksFacts
  <2>6. Len(RequestsOf(prog, op, i, G[k])) = k
    BY <1>8, <2>5, SameRequests DEF Asked
  <2>7. n + 1 <= Len(RequestsOf(prog, op, i, G[n]))
    BY <1>5, <2>1, <2>3
  <2>8. n + 1 <= n
    BY <2>1, <2>6, <2>7
  <2> QED
    BY <2>8
<1>9. ASSUME NEW k \in 1..(n + 1)
      PROVE  LET q == Asks(prog, op, i, G2[k], k)
             IN /\ Recorded(prog, op, i, A[k], k, M2[k], G2[k])
                /\ M2[k + 1] = After(M2[k], q) /\ G2[k + 1] = GotAfter(M2[k], G2[k], q)
                /\ q.t = "revert" => k = n + 1
  <2>1. CASE k = n + 1
    BY <1>1, <1>2, <1>3, <2>1 DEF m, got
  <2>2. CASE k \in 1..n
    <3>1. k + 1 \in 1..(n + 1)
      BY <2>2
    <3>2. M2[k] = M[k] /\ G2[k] = G[k] /\ M2[k + 1] = M[k + 1] /\ G2[k + 1] = G[k + 1] /\ A[k] = acc[k]
      BY <1>1, <1>2, <2>2, <3>1
    <3>3. /\ Recorded(prog, op, i, acc[k], k, M[k], G[k])
          /\ M[k + 1] = After(M[k], Asks(prog, op, i, G[k], k))
          /\ G[k + 1] = GotAfter(M[k], G[k], Asks(prog, op, i, G[k], k))
      BY <2>2 DEF Trace
    <3>4. Asks(prog, op, i, G[k], k).t # "revert"
      BY <1>8, <2>2
    <3> QED
      BY <3>2, <3>3, <3>4
  <2> QED
    BY <2>1, <2>2
<1>10. Trace(prog, op, i, A, M2, G2, n + 1)
  BY <1>7, <1>9 DEF Trace
<1>11. Longer(M, G, n, M2, G2, m, got)
  BY <1>1 DEF Longer
<1> QED
  BY <1>10, <1>11 DEF m, got, A

----------------------------------------------------------------------------
(* The inductive invariant                                                  *)
\* What a response that the host may send makes of memory.
LEMMA Responds ==
  ASSUME Typed(mem), NEW i \in Responses, check_pending_cmio_request(i), NEW all,
         all = send_cmio_response(Narrowed(i), <<Word(IFLAGS_Y), Word(TOHOST)>>)
  PROVE  /\ Typed(Effect(all, mem)) /\ Effect(all, mem)[IFLAGS_Y \div 2][1] = 0
         /\ Effect(all, mem)[REVERT_LEAF] = <<i.revert>>
         /\ \A l \in Leaves : PageOf(l) \notin PagesWritten(all) => Effect(all, mem)[l] = mem[l]
<1>1. i.len \in 0..512 /\ i.len <= 4 /\ Narrowed(i) = i
  <2>1. i.len \in Nat /\ LenModulus \in 5..512
    BY InputsAssumption DEF Responses
  <2>2. i.len <= 2 * 2^1
    BY DEF check_pending_cmio_request, RX_LOG2
  <2>3. i.len <= 4
    BY <2>2, Powers
  <2>4. i.len % LenModulus = i.len
    BY <2>1, <2>3
  <2>5. Narrowed(i) = i
    BY <2>4 DEF Narrowed, Responses
  <2> QED
    BY <2>1, <2>3, <2>5
<1>2. IsSend(i, all) /\ Len(all) >= First(i)
  <2> DEFINE got == <<Word(IFLAGS_Y), Word(TOHOST)>>
  <2>1. Len(got) = 2 /\ got[1] # 0 /\ (i.reason = ADVANCE => got[2] = ACCEPTED)
    BY DEF check_pending_cmio_request
  <2> HIDE DEF got
  <2>2. all = send_cmio_response(i, got)
    BY <1>1 DEF got
  <2> QED
    BY <1>1, <2>1, <2>2, SendFacts
<1>3. PICK n \in 1..6 : n = Len(all)
  BY <1>2 DEF IsSend
<1>4. First(i) \in 2..3 /\ n > First(i) /\ all[First(i)] = SavesRoot(i) /\ all[n] = Wr(IFLAGS_Y, 0) /\ DOMAIN all = 1..n
  BY <1>2, <1>3 DEF IsSend, First
<1>5. PICK E : EffectRun(E, all, mem, n)
  <2>1. n \in Nat /\ Len(all) = n
    BY <1>3
  <2> QED
    BY <2>1, EffectFacts
<1>6. Effect(all, mem) = E[n] /\ E[0] = mem /\ \A j \in 1..n : E[j] = After(E[j - 1], all[j])
  BY <1>5 DEF EffectRun
<1>7. \A k \in 1..n : RequestOK(all[k]) /\ Keeps(all[k]) /\ SendPart(i, k, all[k])
  BY <1>1, <1>2, <1>3, SendOK
<1> DEFINE P(j) == /\ Typed(E[j])
                   /\ j >= First(i) => E[j][REVERT_LEAF] = <<i.revert>>
                   /\ \A l \in Leaves : PageOf(l) \notin PagesWritten(all) => E[j][l] = mem[l]
<1>8. P(0)
  BY <1>4, <1>6
<1>9. ASSUME NEW j \in 1..n, P(j - 1) PROVE P(j)
  <2> DEFINE r == all[j]
             m == E[j - 1]
  <2>1. E[j] = After(m, r) /\ RequestOK(r) /\ Keeps(r) /\ SendPart(i, j, r) /\ Typed(m) /\ OnLeaves(m)
    BY <1>6, <1>7, <1>9 DEF Typed
  <2>2. r.t = "write" => PageOf(Leaf(r)) \in PagesWritten(all)
    BY <1>4 DEF PagesWritten, Leaf
  <2> HIDE DEF r, m
  <2>3. Typed(E[j])
    BY <2>1, TypedAfter
  <2>4. \A l \in Leaves : PageOf(l) \notin PagesWritten(all) => E[j][l] = m[l]
    <3>1. r.t # "write" => E[j] = m
      BY <2>1, AfterFacts
    <3>2. \A l \in Leaves : PageOf(l) # PageOf(Leaf(r)) => E[j][l] = m[l]
      BY <2>1, OnePage
    <3> QED
      BY <2>2, <3>1, <3>2
  <2>5. j >= First(i) => E[j][REVERT_LEAF] = <<i.revert>>
    <3>1. CASE j = First(i)
      <4>1. r = SavesRoot(i)
        BY <1>4, <3>1 DEF r
      <4>2. IsNode(r) /\ r.data = <<<<i.revert>>>> /\ r.size = 0 /\ Leaf(r) = 6
        BY <4>1, SavesOK DEF SavesRoot, WrNode, Leaf, REVERT_LEAF
      <4>3. Lands(m, r)
        BY <2>1, <4>2, AfterFacts
      <4>4. 0 \in 0..(2^0 - 1)
        OBVIOUS
      <4>5. After(m, r)[Leaf(r) + 0] = r.data[0 + 1]
        BY <4>2, <4>3, <4>4 DEF Lands
      <4> QED
        BY <2>1, <4>2, <4>5 DEF REVERT_LEAF
    <3>2. CASE j > First(i)
      <4>1. r.t = "write" /\ Spares(r)
        BY <2>1, <3>2 DEF SendPart
      <4>2. REVERT_LEAF \in Leaves \ NodeOf(r)
        BY <4>1 DEF Spares, REVERT_LEAF, Leaves
      <4>3. E[j][REVERT_LEAF] = m[REVERT_LEAF]
        <5>1. \A l \in Leaves \ NodeOf(r) : After(m, r)[l] = m[l]
          BY <2>1, AfterFacts
        <5> QED
          BY <2>1, <4>2, <5>1
      <4>4. j - 1 >= First(i)
        BY <1>4, <3>2
      <4> QED
        BY <1>9, <4>3, <4>4 DEF m
    <3> QED
      BY <1>4, <3>1, <3>2
  <2>6. \A l \in Leaves : PageOf(l) \notin PagesWritten(all) => E[j][l] = mem[l]
    BY <1>9, <2>4 DEF m
  <2> QED
    BY <2>3, <2>5, <2>6
<1> HIDE DEF P
<1>10. \A j \in 0..n : P(j)
  <2> DEFINE T == {j \in 0..n : ~P(j)}
  <2>1. T \subseteq Nat /\ \A j \in 0..n : j \notin T => P(j)
    OBVIOUS
  <2>2. ASSUME NEW j \in T, \A y \in T : j <= y PROVE FALSE
    <3>1. j \in 1..n
      BY <1>8
    <3>2. j - 1 \in 0..n /\ j - 1 \notin T
      BY <2>2, <3>1
    <3> QED
      BY <1>9, <2>1, <3>1, <3>2
  <2> HIDE DEF T
  <2> QED
    BY <2>1, <2>2, LeastNat
<1>11. P(n) /\ P(n - 1)
  BY <1>10
<1>12. E[n][IFLAGS_Y \div 2][1] = 0
  <2> DEFINE r == Wr(IFLAGS_Y, 0)
             m == E[n - 1]
  <2>1. IsWrite(r) /\ RequestOK(r) /\ Leaf(r) = 4 /\ r.addr % 2 = 0 /\ r.data[1] = 0
    BY DEF Wr, IsWrite, RequestOK, Leaf, IFLAGS_Y
  <2>2. Typed(m) /\ E[n] = After(m, r)
    BY <1>4, <1>6, <1>11 DEF P
  <2>3. OnLeaves(m) /\ DOMAIN m[4] = 1..2
    BY <2>2 DEF Typed, Leaves, REVERT_LEAF
  <2> HIDE DEF r, m
  <2>4. After(m, r)[4] = [m[4] EXCEPT ![1 + 0] = 0]
    <3>1. After(m, r)[Leaf(r)] = [m[Leaf(r)] EXCEPT ![1 + (r.addr % 2)] = r.data[1]]
      BY <2>1, <2>3, AfterFacts
    <3> QED
      BY <2>1, <3>1
  <2> QED
    BY <2>2, <2>3, <2>4 DEF IFLAGS_Y
<1>13. n >= First(i)
  BY <1>4
<1> QED
  BY <1>6, <1>11, <1>12, <1>13 DEF P

\* The tree knows every page that is not dirty.
Clean == \A l \in Leaves : PageOf(l) \notin dirty => tree[l] = HashLeaf(mem[l])

\* The revert root hash in memory is the root when the last input was sent, except while the
\* recording of a response has written it and the response is not complete.
Revertible == sentRoot # {} => mem[REVERT_LEAF][1] \in sentRoot
Sent ==
  IF rec # <<>> /\ rec.op = "send"
  THEN IF Len(rec.accesses) = Len(rec.got)
       THEN Revertible /\ \A k \in DOMAIN rec.accesses : rec.accesses[k].type = "read"
       ELSE /\ mem[REVERT_LEAF][1] = rec.input.revert
            /\ ~\A k \in DOMAIN rec.accesses : rec.accesses[k].type = "read"
  ELSE Revertible

\* A program ended by a revert, and the root it ends with.
Reverted(p, op, i, G, n) == n > 0 /\ Asks(p, op, i, G[n], n).t = "revert"
RootBefore(p, op, i, M, G, n, k) ==
  IF k = n + 1 /\ Reverted(p, op, i, G, n) THEN M[n][REVERT_LEAF][1] ELSE RootAt(M[k])

\* A recording has the history of its accesses.
History(M, G, n) ==
  /\ Trace(prog, rec.op, rec.input, rec.accesses, M, G, n)
  /\ rec.before = RootAt(M[1]) /\ mem = M[n + 1] /\ rec.got = G[n + 1]
  /\ rec.revert = IF Reverted(prog, rec.op, rec.input, G, n) THEN {M[n][REVERT_LEAF][1]} ELSE {}
RecFields == {"op", "input", "large", "before", "got", "accesses", "revert"}
RecordInv ==
  rec # <<>> =>
    /\ DOMAIN rec = RecFields /\ OpOK(rec.op, rec.input) /\ IsSeq(rec.accesses)
    /\ dirty = {} /\ tree = HashOf(mem) /\ ver = <<>>
    /\ \E M, G : History(M, G, Len(rec.accesses))

\* A verification follows the history of the accesses that were recorded, whatever has become of
\* them, and never rejects them as they were.
Follows(n, acc, M, G) ==
  /\ IsSeq(acc) /\ Len(acc) = n
  /\ Trace(prog, log.op, log.input, acc, M, G, n)
  /\ Len(RequestsOf(prog, log.op, log.input, G[n + 1])) <= n
  /\ log.after = RootBefore(prog, log.op, log.input, M, G, n, n + 1)
  /\ log.damage = 0 => log.accesses = acc /\ ver.status # "rejected"
  /\ ver.status # "rejected" =>
       /\ ver.next \in 1..(n + 1) /\ ver.got = G[ver.next]
       /\ ver.root = RootBefore(prog, log.op, log.input, M, G, n, ver.next)
  /\ ver.status = "accepted" => ver.next = n + 1
LogFields == {"op", "input", "before", "accesses", "after", "reverted", "damage"}
VerFields == {"root", "next", "got", "status"}
VerifyInv ==
  ver # <<>> =>
    /\ rec = <<>> /\ DOMAIN ver = VerFields /\ ver.status \in {"running", "accepted", "rejected"}
    /\ DOMAIN log = LogFields /\ OpOK(log.op, log.input) /\ log.damage \in Nat /\ Shaped(log.accesses)
    /\ \E n \in Nat : \E acc, M, G : Follows(n, acc, M, G)

IInv ==
  /\ Typed(mem) /\ Clean
  /\ Sent
  /\ RecordInv
  /\ VerifyInv
  /\ ver = <<>> => log = <<>>
  /\ RejectedReverts

\* A root hash that is asked for is that of memory.
LEMMA Hashed ==
  ASSUME Clean
  PROVE  Updated(mem, tree, dirty) = HashOf(mem) /\ get_root_hash = RootAt(mem)
  BY DEF Clean, Updated, HashOf, get_root_hash, RootAt

\* The data of a recorded read.
LEMMA GoodData ==
  ASSUME NEW a, NEW m, NEW r, RequestOK(r), ~IsNode(r), Good(a, m, r)
  PROVE  (CHOOSE d \in a.read : TRUE) = <<m[Leaf(r)]>>
<1>1. AccessHeight(r.size) = 0 /\ Leaf(r) \in Aligned(0)
  BY LeafFacts
<1>2. a.read = {ReadMemory(m, Leaf(r), 0)}
  BY <1>1 DEF Good
<1>3. ReadMemory(m, Leaf(r), 0) = <<m[Leaf(r)]>>
  <2>1. 0 \in 0..2
    OBVIOUS
  <2> QED
    BY <1>1, <2>1, ReadFacts
<1> QED
  BY <1>2, <1>3

\* The invariant holds of a new machine.
LEMMA InitInv == ASSUME Init PROVE IInv
<1>1. rec = <<>> /\ ver = <<>> /\ log = <<>> /\ sentRoot = {} /\ dirty = {} /\ tree = [l \in Leaves |-> HashLeaf(mem[l])]
  BY DEF Init
<1>2. mem = [l \in Leaves |-> IF l \in 0..3 THEN PristineUarch[l + 1]
                             ELSE IF l = IFLAGS_Y \div 2 THEN <<1, ACCEPTED>>
                             ELSE IF l = REVERT_LEAF THEN <<<<>>>> ELSE <<0, 0>>]
  BY DEF Init
<1>3. \A l \in 0..3 : DOMAIN PristineUarch[l + 1] = 1..2
  <2>1. \A x, y : DOMAIN <<x, y>> = 1..2
    OBVIOUS
  <2>2. /\ PristineUarch[1] = <<0, 0>> /\ PristineUarch[2] = <<0, 0>>
        /\ PristineUarch[3] = <<prog[1], prog[2]>> /\ PristineUarch[4] = <<prog[3], prog[4]>>
    BY DEF PristineUarch
  <2>3. \A l \in 0..3 : l + 1 = 1 \/ l + 1 = 2 \/ l + 1 = 3 \/ l + 1 = 4
    OBVIOUS
  <2> QED
    BY <2>1, <2>2, <2>3
<1>4. PristineUarch[1 + 1] = <<0, 0>>
  BY DEF PristineUarch
<1>5. OnLeaves(mem)
  BY <1>2 DEF OnLeaves
<1>6. \A l \in Leaves \ {REVERT_LEAF} : DOMAIN mem[l] = 1..2
  BY <1>2, <1>3
<1>7. mem[1][1] \in 0..3
  <2>1. 1 \in Leaves /\ 1 \in 0..3
    BY DEF Leaves
  <2>2. mem[1] = <<0, 0>>
    BY <1>2, <1>4, <2>1
  <2> QED
    BY <2>2
<1>8. Clean
  BY <1>1 DEF Clean
<1> QED
  BY <1>1, <1>5, <1>6, <1>7, <1>8 DEF IInv, Typed, Sent, Revertible, RecordInv, VerifyInv, RejectedReverts

\* Operations on an idle machine.
LEMMA IdleInv ==
  ASSUME Idle, IInv, rec' = rec, ver' = ver, log' = log, Typed(mem'), Clean', Revertible'
  PROVE  IInv'
<1>1. rec' = <<>> /\ ver' = <<>> /\ log' = <<>>
  BY DEF Idle, IInv
<1> QED
  BY <1>1 DEF IInv, Sent, RecordInv, VerifyInv, RejectedReverts

\* machine::send_cmio_response keeps it: the revert root hash is written with the input,
LEMMA HostSendInv == ASSUME IInv, HostSend PROVE IInv'
<1>1. PICK i \in Responses :
       /\ check_pending_cmio_request(i)
       /\ LET all == send_cmio_response(Narrowed(i), <<Word(IFLAGS_Y), Word(TOHOST)>>)
          IN /\ mem' = Effect(all, mem)
             /\ tree' = Updated(mem, tree, dirty)
             /\ dirty' = PagesWritten(all)
       /\ sentRoot' = IF i.reason = ADVANCE THEN {get_root_hash} ELSE {}
  BY DEF HostSend
<1>2. PICK all : all = send_cmio_response(Narrowed(i), <<Word(IFLAGS_Y), Word(TOHOST)>>)
  OBVIOUS
<1>3. mem' = Effect(all, mem) /\ tree' = HashOf(mem) /\ dirty' = PagesWritten(all)
  BY <1>1, <1>2, Hashed DEF IInv
<1>4. /\ Typed(mem') /\ mem'[REVERT_LEAF] = <<i.revert>>
      /\ \A l \in Leaves : PageOf(l) \notin dirty' => mem'[l] = mem[l]
  BY <1>1, <1>2, <1>3, Responds DEF IInv
<1>5. Clean'
  BY <1>3, <1>4 DEF Clean, HashOf
<1>6. Revertible'
  BY <1>1, <1>4 DEF Revertible, check_pending_cmio_request
<1> QED
  BY <1>4, <1>5, <1>6, IdleInv DEF HostSend

\* and so does the machine when it runs.
LEMMA RunInv == ASSUME IInv, Run PROVE IInv'
<1>1. PICK tohost \in {ACCEPTED, REJECTED} : mem' = WriteWord(WriteWord(mem, IFLAGS_Y, 1), TOHOST, tohost)
  BY DEF Run
<1> DEFINE r == Wr(IFLAGS_Y, 1)
           q == Wr(TOHOST, tohost)
           m == After(mem, r)
<1>2. m = WriteWord(mem, IFLAGS_Y, 1) /\ mem' = After(m, q)
  BY <1>1 DEF After, Wr
<1>3. RequestOK(r) /\ Keeps(r) /\ Spares(r) /\ r.t = "write" /\ Leaf(r) = 4
  <2>1. IFLAGS_Y \in 0..31 /\ IFLAGS_Y \div 2 # REVERT_LEAF /\ IFLAGS_Y # PC /\ r.addr = IFLAGS_Y
    BY DEF IFLAGS_Y, REVERT_LEAF, PC, Wr
  <2>2. Leaf(r) = 4
    BY <2>1 DEF Leaf, IFLAGS_Y
  <2> QED
    BY <2>1, <2>2, WrOK
<1>4. RequestOK(q) /\ Keeps(q) /\ Spares(q) /\ q.t = "write" /\ Leaf(q) = 4
  <2>1. TOHOST \in 0..31 /\ TOHOST \div 2 # REVERT_LEAF /\ TOHOST # PC /\ q.addr = TOHOST
    BY DEF TOHOST, REVERT_LEAF, PC, Wr
  <2>2. Leaf(q) = 4
    BY <2>1 DEF Leaf, TOHOST
  <2> QED
    BY <2>1, <2>2, WrOK
<1> HIDE DEF r, q, m
<1>5. Typed(mem) /\ OnLeaves(mem)
  BY DEF IInv, Typed
<1>6. Typed(m) /\ OnLeaves(m)
  BY <1>3, <1>5, TypedAfter DEF Typed, m
<1>7. Typed(mem')
  BY <1>2, <1>4, <1>6, TypedAfter
<1>8. \A l \in Leaves : PageOf(l) # PageOf(4) => mem'[l] = mem[l]
  <2>1. \A l \in Leaves : PageOf(l) # PageOf(4) => m[l] = mem[l]
    BY <1>3, <1>5, OnePage DEF m
  <2>2. \A l \in Leaves : PageOf(l) # PageOf(4) => After(m, q)[l] = m[l]
    BY <1>4, <1>6, OnePage
  <2> QED
    BY <1>2, <2>1, <2>2
<1>9. mem'[REVERT_LEAF] = mem[REVERT_LEAF]
  <2>1. REVERT_LEAF \in Leaves \ NodeOf(r) /\ REVERT_LEAF \in Leaves \ NodeOf(q)
    BY <1>3, <1>4 DEF Spares, Leaves, REVERT_LEAF
  <2>2. \A l \in Leaves \ NodeOf(r) : m[l] = mem[l]
    BY <1>3, <1>5, AfterFacts DEF m
  <2>3. \A l \in Leaves \ NodeOf(q) : After(m, q)[l] = m[l]
    BY <1>4, <1>6, AfterFacts
  <2> QED
    BY <1>2, <2>1, <2>2, <2>3
<1>10. Clean'
  <2>1. tree' = tree /\ dirty' = dirty \cup {PageOf(4)}
    BY DEF Run, IFLAGS_Y
  <2> QED
    BY <1>8, <2>1 DEF Clean, IInv
<1>11. Revertible'
  <2>1. Revertible /\ sentRoot' = sentRoot
    BY DEF Run, Idle, IInv, Sent
  <2> QED
    BY <1>9, <2>1 DEF Revertible
<1> QED
  BY <1>7, <1>10, <1>11, IdleInv DEF Run

----------------------------------------------------------------------------
(* The steps of recorders and verifiers                                     *)
\* A recording starts with a tree that is up to date and an empty history.
LEMMA StartInv ==
  ASSUME IInv, NEW op, NEW i, OpOK(op, i), NEW large, StartLog(op, i, large)
  PROVE  IInv'
<1>1. /\ rec = <<>> /\ ver = <<>> /\ log = <<>> /\ mem' = mem /\ prog' = prog /\ log' = log /\ ver' = ver /\ sentRoot' = sentRoot
      /\ tree' = HashOf(mem) /\ dirty' = {} /\ Typed(mem)
  BY Hashed DEF StartLog, Idle, IInv
<1>2. rec' = [op |-> op, input |-> i, large |-> large, before |-> RootAt(mem), got |-> <<>>, accesses |-> <<>>, revert |-> {}]
  BY Hashed DEF StartLog, IInv
<1>3. DOMAIN rec' = RecFields /\ IsSeq(rec'.accesses) /\ Len(rec'.accesses) = 0 /\ Len(rec'.got) = 0
  <2>1. <<>> \in Seq({})
    OBVIOUS
  <2> QED
    BY <1>2, <2>1 DEF RecFields, IsSeq
<1>4. PICK M, G : Trace(prog, op, i, <<>>, M, G, 0) /\ M[1] = mem /\ G[1] = <<>>
  <2>1. Typed(mem)
    BY <1>1
  <2>2. \E M, G : Opens(M, G, prog, op, i, <<>>, mem)
    BY <2>1, TraceStart
  <2> QED
    BY <2>2 DEF Opens
<1>5. 0 + 1 = 1 /\ ~(0 > 0)
  OBVIOUS
<1>6. History(M, G, 0)'
  BY <1>1, <1>2, <1>4, <1>5 DEF History, Reverted
<1>7. RecordInv'
  BY <1>1, <1>2, <1>3, <1>6 DEF RecordInv
<1>8. Clean'
  BY <1>1 DEF Clean, HashOf
<1>9. Revertible'
  BY <1>1 DEF IInv, Sent, Revertible
<1>10. Sent'
  BY <1>2, <1>3, <1>9 DEF Sent
<1> QED
  BY <1>1, <1>7, <1>8, <1>10 DEF IInv, VerifyInv, RejectedReverts

\* What is known of the access that is to be recorded.
LEMMA NextAccess ==
  ASSUME IInv, Recording, NEW n, n = Len(rec.accesses), NEW M, NEW G, History(M, G, n)
  PROVE  /\ n \in Nat /\ OpOK(rec.op, rec.input) /\ IsSeq(rec.accesses)
         /\ n + 1 <= Len(RequestsOf(prog, rec.op, rec.input, G[n + 1]))
         /\ Request = Asks(prog, rec.op, rec.input, G[n + 1], n + 1)
         /\ Reached(rec.op, rec.input, G[n + 1], n + 1) /\ rec.got = G[n + 1] /\ mem = M[n + 1]
         /\ Asked(rec.op, rec.input, rec.got, n + 1, Request)
<1>1. OpOK(rec.op, rec.input) /\ IsSeq(rec.accesses) /\ rec.got = G[n + 1] /\ mem = M[n + 1]
  BY DEF IInv, RecordInv, Recording, History
<1>2. n \in Nat
  BY <1>1, IsSeqFacts
<1>3. Pending = RequestsOf(prog, rec.op, rec.input, G[n + 1])
  BY <1>1, SameRequests DEF Pending
<1>4. n + 1 <= Len(RequestsOf(prog, rec.op, rec.input, G[n + 1])) /\ n + 1 \in Nat \ {0} /\ n + 1 \in 1..(n + 1)
  <2>1. Len(RequestsOf(prog, rec.op, rec.input, G[n + 1])) \in Nat
    BY <1>1, RequestsLen
  <2> QED
    BY <1>2, <1>3, <2>1 DEF Recording
<1>5. Request = Asks(prog, rec.op, rec.input, G[n + 1], n + 1)
  BY <1>3 DEF Request, Asks
<1>6. Reached(rec.op, rec.input, G[n + 1], n + 1)
  BY <1>4 DEF History, Trace
<1>7. Asked(rec.op, rec.input, G[n + 1], n + 1, Asks(prog, rec.op, rec.input, G[n + 1], n + 1))
  BY <1>1, <1>4, <1>6, AsksFacts
<1> QED
  BY <1>1, <1>2, <1>4, <1>5, <1>6, <1>7

\* A recorded access makes the history longer.
LEMMA RecordAccessInv == ASSUME IInv, RecordAccess PROVE IInv'
<1>0. rec # <<>> /\ Recording /\ Request.t # "throw"
  BY DEF RecordAccess, Recording
<1>1. /\ DOMAIN rec = RecFields /\ dirty = {} /\ tree = HashOf(mem) /\ ver = <<>> /\ log = <<>>
      /\ Typed(mem) /\ OnLeaves(mem)
  BY <1>0 DEF IInv, RecordInv, Typed
<1>2. PICK n : n = Len(rec.accesses)
  OBVIOUS
<1>3. PICK M, G : History(M, G, n)
  BY <1>0, <1>2 DEF IInv, RecordInv
<1>4. PICK r : r = Request
  OBVIOUS
<1>5. PICK op, i : op = rec.op /\ i = rec.input
  OBVIOUS
<1>6. /\ n \in Nat /\ OpOK(op, i) /\ IsSeq(rec.accesses)
      /\ n + 1 <= Len(RequestsOf(prog, op, i, G[n + 1]))
      /\ r = Asks(prog, op, i, G[n + 1], n + 1)
      /\ Reached(op, i, G[n + 1], n + 1) /\ rec.got = G[n + 1] /\ mem = M[n + 1]
      /\ Asked(op, i, rec.got, n + 1, r)
  BY <1>0, <1>2, <1>3, <1>4, <1>5, NextAccess
<1>7. RequestOK(r) /\ Keeps(r) /\ (op = "send" => ~IsRevert(r)) /\ r.t # "throw"
  BY <1>0, <1>4, <1>6 DEF Asked, IsRevert
<1>8. PICK a : a = Entry(r).a
  OBVIOUS
<1>9. Good(a, mem, r) /\ Entry(r).mem = After(mem, r) /\ Entry(r).tree = HashOf(After(mem, r))
  BY <1>1, <1>5, <1>7, <1>8, RecordGood
<1>10. PICK data : data = CHOOSE d \in a.read : TRUE
  OBVIOUS
<1>11. r.t \in {"read", "revert"} => data = <<mem[Leaf(r)]>>
  <2>1. r.t \in {"read", "revert"} => ~IsNode(r)
    BY DEF IsNode
  <2> QED
    BY <1>7, <1>9, <1>10, <2>1, GoodData
<1>12. /\ mem' = After(mem, r) /\ tree' = HashOf(After(mem, r))
       /\ rec' = [rec EXCEPT !.accesses = Append(@, a),
                              !.got = IF r.t = "read" THEN Append(@, GetWord(data, r.addr)) ELSE @,
                              !.revert = IF r.t = "revert" THEN {data[1][1]} ELSE @]
       /\ dirty' = dirty /\ prog' = prog /\ log' = log /\ ver' = ver /\ sentRoot' = sentRoot
  BY <1>4, <1>8, <1>9, <1>10 DEF RecordAccess
<1>13. /\ DOMAIN rec' = RecFields /\ rec'.op = op /\ rec'.input = i /\ rec'.before = rec.before
       /\ rec'.accesses = Append(rec.accesses, a)
       /\ rec'.got = (IF r.t = "read" THEN Append(rec.got, GetWord(data, r.addr)) ELSE rec.got)
       /\ rec'.revert = (IF r.t = "revert" THEN {data[1][1]} ELSE rec.revert)
  BY <1>1, <1>5, <1>12 DEF RecFields
<1>14. rec'.got = GotAfter(mem, rec.got, r)
  <2>1. r.t = "read" => GetWord(data, r.addr) = ReadWord(mem, r)
    BY <1>11 DEF GetWord, ReadWord
  <2> QED
    BY <1>13, <2>1 DEF GotAfter
<1>15. Recorded(prog, op, i, a, n + 1, M[n + 1], G[n + 1])
  BY <1>6, <1>7, <1>9 DEF Recorded
<1>16. PICK M2, G2 : /\ Longer(M, G, n, M2, G2, After(M[n + 1], r), GotAfter(M[n + 1], G[n + 1], r))
                     /\ Trace(prog, op, i, Append(rec.accesses, a), M2, G2, n + 1)
  <2>1. Trace(prog, op, i, rec.accesses, M, G, n)
    BY <1>3, <1>5 DEF History
  <2> QED
    BY <1>2, <1>6, <1>15, <2>1, TraceGrows
<1>17. /\ M2[n + 2] = mem' /\ G2[n + 2] = rec'.got /\ (n + 1) + 1 = n + 2
       /\ M2[1] = M[1] /\ M2[n + 1] = mem /\ G2[n + 1] = G[n + 1]
  <2>1. 1 \in 1..(n + 1) /\ n + 1 \in 1..(n + 1) /\ (n + 1) + 1 = n + 2
    BY <1>6
  <2> QED
    BY <1>6, <1>12, <1>14, <1>16, <2>1 DEF Longer
<1>18. Len(rec'.accesses) = n + 1 /\ IsSeq(rec'.accesses)
  BY <1>2, <1>6, <1>13, IsSeqFacts
<1>19. rec'.revert = IF Reverted(prog, op, i, G2, n + 1) THEN {M2[n + 1][REVERT_LEAF][1]} ELSE {}
  <2>1. Reverted(prog, op, i, G2, n + 1) <=> r.t = "revert"
    BY <1>6, <1>17 DEF Reverted
  <2>2. CASE r.t = "revert"
    <3>1. IsRevert(r)
      BY <1>6, <2>2 DEF Asked
    <3>2. Leaf(r) = REVERT_LEAF
      BY <3>1 DEF IsRevert, Leaf, REVERT_LEAF
    <3>3. data[1][1] = mem[REVERT_LEAF][1]
      BY <1>11, <2>2, <3>2
    <3> QED
      BY <1>13, <1>17, <2>1, <2>2, <3>3
  <2>3. CASE r.t # "revert"
    <3>1. ~Reverted(prog, op, i, G, n)
      <4> SUFFICES ASSUME n > 0 PROVE Asks(prog, op, i, G[n], n).t # "revert"
        BY DEF Reverted
      <4>1. n \in 1..n /\ n \in 1..(n + 1) /\ n \in 1..((n + 1) + 1) /\ n # n + 1 /\ G2[n] = G[n]
        BY <1>6, <1>16 DEF Longer
      <4>2. Asks(prog, op, i, G2[n], n).t = "revert" => n = n + 1
        BY <1>16, <4>1 DEF Trace
      <4> QED
        BY <4>1, <4>2
    <3> QED
      BY <1>3, <1>5, <1>13, <2>1, <2>3, <3>1 DEF History
  <2> QED
    BY <2>2, <2>3
<1>20. History(M2, G2, n + 1)'
  BY <1>3, <1>12, <1>13, <1>16, <1>17, <1>19 DEF History
<1>21. RecordInv'
  BY <1>1, <1>6, <1>12, <1>13, <1>18, <1>20 DEF RecordInv
<1>22. Typed(mem')
  BY <1>1, <1>7, <1>12, TypedAfter
<1>23. Clean'
  BY <1>12 DEF Clean, HashOf
<1>24. rec' # <<>>
  BY <1>13 DEF RecFields
\* the revert root hash
<1>25. Spares(r) => mem'[REVERT_LEAF] = mem[REVERT_LEAF]
  <2> SUFFICES ASSUME Spares(r) PROVE After(mem, r)[REVERT_LEAF] = mem[REVERT_LEAF]
    BY <1>12
  <2>1. CASE r.t = "write"
    <3>1. REVERT_LEAF \in Leaves \ NodeOf(r)
      BY <2>1 DEF Spares, Leaves, REVERT_LEAF
    <3>2. \A l \in Leaves \ NodeOf(r) : After(mem, r)[l] = mem[l]
      BY <1>1, <1>7, AfterFacts
    <3> QED
      BY <3>1, <3>2
  <2>2. CASE r.t # "write"
    BY <1>1, <1>7, <2>2, AfterFacts
  <2> QED
    BY <2>1, <2>2
<1>26. CASE op # "send"
  <2>1. Spares(r)
    BY <1>6, <1>26 DEF Asked
  <2>2. Revertible
    BY <1>5, <1>26 DEF IInv, Sent
  <2>3. Revertible'
    BY <1>12, <1>25, <2>1, <2>2 DEF Revertible
  <2>4. Sent'
    BY <1>13, <1>26, <2>3 DEF Sent
  <2> QED
    BY <1>1, <1>12, <1>21, <1>22, <1>23, <2>4 DEF IInv, VerifyInv, RejectedReverts
<1>27. CASE op = "send"
  <2>1. /\ DOMAIN rec.accesses = 1..n /\ DOMAIN rec'.accesses = 1..(n + 1) /\ rec'.accesses[n + 1] = a
        /\ \A k \in 1..n : rec'.accesses[k] = rec.accesses[k]
    BY <1>2, <1>6, <1>13, <1>18, IsSeqFacts
  <2>2. Len(rec.got) \in Nat /\ IsSeq(rec.got) /\ Len(rec.got) <= n
    BY <1>6, IsSeqFacts DEF Reached
  <2>3. a.type = IF r.t = "write" THEN "write" ELSE "read"
    BY <1>9 DEF Good
  <2>4. r.t = "read" \/ r.t = "write"
    BY <1>6, <1>7, <1>27 DEF RequestOK, IsRead, IsWrite, IsNode
  <2>5. CASE r.t = "read"
    <3>1. Len(rec'.got) = Len(rec.got) + 1
      BY <1>14, <2>2, <2>5, IsSeqFacts DEF GotAfter
    <3>2. Len(rec'.accesses) = Len(rec'.got) <=> n = Len(rec.got)
      BY <1>6, <1>18, <2>2, <3>1
    <3>3. mem' = mem
      BY <1>1, <1>7, <1>12, <2>5, AfterFacts
    <3>4. (\A k \in DOMAIN rec'.accesses : rec'.accesses[k].type = "read")
            <=> \A k \in DOMAIN rec.accesses : rec.accesses[k].type = "read"
      <4>1. a.type = "read"
        BY <2>3, <2>5
      <4>2. \A k \in 1..(n + 1) : k \in 1..n \/ k = n + 1
        BY <1>6
      <4>3. \A k \in 1..n : k \in 1..(n + 1)
        BY <1>6
      <4> QED
        BY <2>1, <4>1, <4>2, <4>3
    <3>5. Sent'
      BY <1>0, <1>2, <1>5, <1>12, <1>13, <1>24, <1>27, <3>2, <3>3, <3>4 DEF IInv, Sent, Revertible
    <3> QED
      BY <1>1, <1>12, <1>21, <1>22, <1>23, <3>5 DEF IInv, VerifyInv, RejectedReverts
  <2>6. CASE r.t = "write"
    <3>1. rec'.got = rec.got /\ Len(rec'.accesses) # Len(rec'.got)
      BY <1>6, <1>14, <1>18, <2>2, <2>6 DEF GotAfter
    <3>2. ~\A k \in DOMAIN rec'.accesses : rec'.accesses[k].type = "read"
      <4>1. a.type # "read" /\ n + 1 \in 1..(n + 1)
        BY <1>6, <2>3, <2>6
      <4> QED
        BY <2>1, <4>1
    <3>3. mem'[REVERT_LEAF][1] = i.revert
      <4>1. CASE r = SavesRoot(i)
        <5>1. IsNode(r) /\ r.data = <<<<i.revert>>>> /\ r.size = 0 /\ Leaf(r) = 6
          BY <4>1, SavesOK DEF SavesRoot, WrNode, Leaf, REVERT_LEAF
        <5>2. Lands(mem, r)
          BY <1>1, <1>7, <5>1, AfterFacts
        <5>3. 0 \in 0..(2^0 - 1)
          OBVIOUS
        <5>4. After(mem, r)[Leaf(r) + 0] = r.data[0 + 1]
          BY <5>1, <5>2, <5>3 DEF Lands
        <5> QED
          BY <1>12, <5>1, <5>4 DEF REVERT_LEAF
      <4>2. CASE r # SavesRoot(i)
        <5>1. Spares(r) /\ n + 1 # Len(rec.got) + 1
          BY <1>6, <1>27, <2>6, <4>2 DEF Asked
        <5>2. n # Len(rec.got)
          BY <5>1
        <5>3. mem[REVERT_LEAF][1] = i.revert
          BY <1>0, <1>2, <1>5, <1>27, <5>2 DEF IInv, Sent
        <5> QED
          BY <1>25, <5>1, <5>3
      <4> QED
        BY <4>1, <4>2
    <3>4. Sent'
      BY <1>13, <1>24, <1>27, <3>1, <3>2, <3>3 DEF Sent
    <3> QED
      BY <1>1, <1>12, <1>21, <1>22, <1>23, <3>4 DEF IInv, VerifyInv, RejectedReverts
  <2> QED
    BY <2>4, <2>5, <2>6
<1> QED
  BY <1>26, <1>27

\* Only a step throws, which has left the revert root hash alone.
LEMMA RecordThrowInv == ASSUME IInv, RecordThrow PROVE IInv'
<1>1. rec # <<>> /\ Recording /\ Request.t = "throw"
  BY DEF RecordThrow, Recording
<1>2. PICK n : n = Len(rec.accesses)
  OBVIOUS
<1>3. PICK M, G : History(M, G, n)
  BY <1>1, <1>2 DEF IInv, RecordInv
<1>4. Asked(rec.op, rec.input, rec.got, n + 1, Request)
  BY <1>1, <1>2, <1>3, NextAccess
<1>5. rec.op = "step"
  BY <1>1, <1>4 DEF Asked
<1>6. Revertible /\ log = <<>> /\ ver = <<>>
  BY <1>1, <1>5 DEF IInv, Sent, RecordInv
<1> QED
  BY <1>6 DEF RecordThrow, IInv, Clean, Sent, Revertible, RecordInv, VerifyInv, RejectedReverts

\* Every request of a trace.
LEMMA InTrace ==
  ASSUME NEW op, NEW i, OpOK(op, i), NEW acc, NEW M, NEW G, NEW n \in Nat, Trace(prog, op, i, acc, M, G, n),
         NEW k \in 1..n, NEW r, r = Asks(prog, op, i, G[k], k)
  PROVE  /\ k <= Len(RequestsOf(prog, op, i, G[k]))
         /\ RequestOK(r) /\ Keeps(r) /\ Good(acc[k], M[k], r) /\ Typed(M[k]) /\ OnLeaves(M[k])
         /\ (r.t = "revert" => op = "reset" /\ IsRevert(r) /\ k = n)
         /\ M[k + 1] = After(M[k], r) /\ G[k + 1] = GotAfter(M[k], G[k], r)
<1>1. k \in 1..(n + 1) /\ k \in Nat \ {0}
  OBVIOUS
<1>2. Typed(M[k]) /\ Reached(op, i, G[k], k)
  BY <1>1 DEF Trace
<1>3. /\ Recorded(prog, op, i, acc[k], k, M[k], G[k]) /\ (r.t = "revert" => k = n)
      /\ M[k + 1] = After(M[k], r) /\ G[k + 1] = GotAfter(M[k], G[k], r)
  BY DEF Trace
<1>4. k <= Len(RequestsOf(prog, op, i, G[k])) /\ r.t # "throw" /\ Good(acc[k], M[k], r)
  BY <1>3 DEF Recorded
<1>5. Asked(op, i, G[k], k, r)
  BY <1>1, <1>2, <1>4, AsksFacts
<1> QED
  BY <1>2, <1>3, <1>4, <1>5 DEF Asked, Typed

\* A recording that is complete hands its history to the verification.
LEMMA RecordFinishInv == ASSUME IInv, RecordFinish PROVE IInv'
<1>1. /\ rec # <<>> /\ DOMAIN rec = RecFields /\ dirty = {} /\ tree = HashOf(mem) /\ ver = <<>> /\ log = <<>>
      /\ OpOK(rec.op, rec.input) /\ IsSeq(rec.accesses) /\ Typed(mem) /\ Clean
  BY DEF IInv, RecordInv, RecordFinish
<1>2. PICK n : n = Len(rec.accesses)
  OBVIOUS
<1>3. PICK M, G : History(M, G, n)
  BY <1>1, <1>2 DEF IInv, RecordInv
<1>4. PICK op, i, acc : op = rec.op /\ i = rec.input /\ acc = rec.accesses
  OBVIOUS
<1>5. n \in Nat /\ IsSeq(acc) /\ Len(acc) = n /\ DOMAIN acc = 1..n /\ OpOK(op, i)
  BY <1>1, <1>2, <1>4, IsSeqFacts
<1>6. /\ Trace(prog, op, i, acc, M, G, n)
      /\ rec.before = RootAt(M[1]) /\ mem = M[n + 1] /\ rec.got = G[n + 1]
      /\ rec.revert = IF Reverted(prog, op, i, G, n) THEN {M[n][REVERT_LEAF][1]} ELSE {}
  BY <1>3, <1>4 DEF History
<1>7. Len(RequestsOf(prog, op, i, G[n + 1])) <= n
  <2>1. Pending = RequestsOf(prog, op, i, G[n + 1])
    BY <1>4, <1>6, SameRequests DEF Pending
  <2>2. Len(RequestsOf(prog, op, i, G[n + 1])) \in Nat
    BY <1>5, RequestsLen
  <2>3. ~(n < Len(Pending))
    BY <1>1, <1>2 DEF RecordFinish, Recording
  <2> QED
    BY <1>5, <2>1, <2>2, <2>3
<1>8. get_root_hash = RootAt(mem) /\ Updated(mem, tree, dirty) = HashOf(mem)
  BY <1>1, Hashed
<1>9. PICK after : after = RootBefore(prog, op, i, M, G, n, n + 1)
  OBVIOUS
<1>10. after = IF rec.revert # {} THEN CHOOSE h \in rec.revert : TRUE ELSE get_root_hash
  <2>1. CASE Reverted(prog, op, i, G, n)
    BY <1>6, <1>9, <2>1 DEF RootBefore
  <2>2. CASE ~Reverted(prog, op, i, G, n)
    BY <1>6, <1>8, <1>9, <2>2 DEF RootBefore
  <2> QED
    BY <2>1, <2>2
<1>11. /\ log' = [op |-> op, input |-> i, before |-> rec.before, accesses |-> acc, after |-> after,
                  reverted |-> rec.revert # {}, damage |-> 0]
       /\ ver' = [root |-> rec.before, next |-> 1, got |-> <<>>, status |-> "running"]
       /\ tree' = HashOf(mem) /\ dirty' = {} /\ rec' = <<>> /\ mem' = mem /\ prog' = prog
  BY <1>4, <1>8, <1>10 DEF RecordFinish
<1>12. G[1] = <<>>
  <2>1. 1 \in 1..(n + 1)
    BY <1>5
  <2>2. IsSeq(G[1]) /\ Len(G[1]) < 1
    BY <1>6, <2>1 DEF Trace, Reached
  <2>3. Len(G[1]) \in Nat
    BY <2>2, IsSeqFacts
  <2> QED
    BY <2>2, <2>3 DEF IsSeq
<1>13. rec.before = RootBefore(prog, op, i, M, G, n, 1)
  <2>1. 1 = n + 1 => ~(n > 0)
    BY <1>5
  <2> QED
    BY <1>6, <2>1 DEF RootBefore, Reverted
<1>14. Shaped(acc)
  <2> DEFINE S == {acc[k] : k \in 1..n}
  <2>1. acc \in Seq(S)
    <3>1. PICK T : acc \in Seq(T)
      BY <1>5 DEF IsSeq
    <3>2. acc = [k \in 1..n |-> acc[k]]
      BY <1>5, <3>1
    <3>3. acc \in [1..n -> S]
      BY <3>2
    <3> HIDE DEF S
    <3> QED
      BY <1>5, <3>3, FcnIsSeq
  <2>2. ASSUME NEW k \in 1..n PROVE Shape(acc[k])
    <3>1. RequestOK(Asks(prog, op, i, G[k], k)) /\ Good(acc[k], M[k], Asks(prog, op, i, G[k], k))
      BY <1>5, <1>6, InTrace
    <3> QED
      BY <3>1, GoodShape
  <2> QED
    BY <2>1, <2>2 DEF Shaped
<1>15. Follows(n, acc, M, G)'
  <2>1. 1 \in 1..(n + 1)
    BY <1>5
  <2> QED
    BY <1>5, <1>6, <1>7, <1>9, <1>11, <1>12, <1>13, <2>1 DEF Follows
<1>16. VerifyInv'
  <2>1. /\ DOMAIN ver' = VerFields /\ DOMAIN log' = LogFields /\ log'.damage \in Nat /\ log'.accesses = acc
        /\ ver'.status \in {"running", "accepted", "rejected"} /\ log'.op = op /\ log'.input = i
    BY <1>11 DEF VerFields, LogFields
  <2> QED
    BY <1>5, <1>11, <1>14, <1>15, <2>1 DEF VerifyInv
<1>17. ver' # <<>>
  BY <1>11
<1>18. Clean'
  BY <1>11 DEF Clean, HashOf
<1>19. sentRoot' = IF op # "send" \/ \A k \in DOMAIN rec.accesses : rec.accesses[k].type = "read"
                   THEN sentRoot
                   ELSE IF i.reason = ADVANCE /\ i.revert = rec.before THEN {rec.before} ELSE {}
  BY <1>4 DEF RecordFinish
<1>20. Revertible'
  <2>1. CASE op # "send"
    BY <1>4, <1>11, <1>19, <2>1 DEF IInv, Sent, Revertible
  <2>2. CASE op = "send" /\ \A k \in DOMAIN rec.accesses : rec.accesses[k].type = "read"
    BY <1>1, <1>4, <1>11, <1>19, <2>2 DEF IInv, Sent, Revertible
  <2>3. CASE op = "send" /\ ~\A k \in DOMAIN rec.accesses : rec.accesses[k].type = "read"
    <3>1. mem[REVERT_LEAF][1] = i.revert
      BY <1>1, <1>4, <2>3 DEF IInv, Sent
    <3> QED
      BY <1>11, <1>19, <2>3, <3>1 DEF Revertible
  <2> QED
    BY <2>1, <2>2, <2>3
<1>21. RejectedReverts'
  <2> SUFFICES ASSUME log'.reverted, sentRoot' # {} PROVE log'.after \in sentRoot'
    BY DEF RejectedReverts
  <2>1. Reverted(prog, op, i, G, n)
    BY <1>6, <1>11
  <2>2. n \in 1..n /\ Asks(prog, op, i, G[n], n).t = "revert"
    BY <1>5, <2>1 DEF Reverted
  <2>3. PICK r : r = Asks(prog, op, i, G[n], n)
    OBVIOUS
  <2>4. M[n + 1] = M[n]
    <3>1. M[n + 1] = After(M[n], r)
      BY <1>6, <2>2, <2>3 DEF Trace
    <3> QED
      BY <2>2, <2>3, <3>1 DEF After
  <2>5. log'.after = mem'[REVERT_LEAF][1]
    BY <1>6, <1>9, <1>11, <2>1, <2>4 DEF RootBefore
  <2> QED
    BY <1>20, <2>5 DEF Revertible
<1> QED
  BY <1>1, <1>11, <1>16, <1>17, <1>18, <1>20, <1>21 DEF IInv, Sent, RecordInv

\* Damage leaves the history of the recording as it was, and the shape of the accesses.
LEMMA DamageInv == ASSUME IInv, Damage PROVE IInv'
<1>1. ver # <<>> /\ ver.status = "running"
  BY DEF Damage
<1>2. /\ rec = <<>> /\ DOMAIN log = LogFields /\ OpOK(log.op, log.input) /\ log.damage \in Nat /\ Shaped(log.accesses)
  BY <1>1 DEF IInv, VerifyInv
<1>3. PICK s \in DamagedAccesses(log.accesses) : log' = [log EXCEPT !.accesses = s, !.damage = @ + 1]
  BY DEF Damage
<1>4. /\ DOMAIN log' = LogFields /\ log'.op = log.op /\ log'.input = log.input /\ log'.after = log.after
      /\ log'.reverted = log.reverted /\ log'.accesses = s /\ log'.damage = log.damage + 1
  BY <1>2, <1>3 DEF LogFields
<1>5. Shaped(s)
  BY <1>2, DamageShaped
<1>6. log'.damage \in Nat /\ log'.damage # 0
  BY <1>2, <1>4
<1>7. PICK n \in Nat : \E acc, M, G : Follows(n, acc, M, G)
  BY <1>1 DEF IInv, VerifyInv
<1>8. PICK acc, M, G : Follows(n, acc, M, G)
  BY <1>7
<1>9. mem' = mem /\ tree' = tree /\ dirty' = dirty /\ prog' = prog /\ rec' = rec /\ ver' = ver /\ sentRoot' = sentRoot
  BY DEF Damage
<1>10. Follows(n, acc, M, G)'
  BY <1>4, <1>6, <1>8, <1>9 DEF Follows
<1>11. VerifyInv'
  BY <1>1, <1>2, <1>4, <1>5, <1>6, <1>9, <1>10 DEF VerifyInv, IInv
<1>12. RejectedReverts'
  <2>1. log # <<>>
    <3>1. "op" \in DOMAIN log /\ DOMAIN <<>> = {}
      BY <1>2 DEF LogFields
    <3> QED
      BY <3>1
  <2> QED
    BY <1>4, <1>9, <2>1 DEF RejectedReverts, IInv
<1> QED
  BY <1>1, <1>2, <1>9, <1>11, <1>12 DEF IInv, Clean, Sent, Revertible, RecordInv

\* A running verification asks for what was recorded, and for nothing more.
LEMMA VerifierAt ==
  ASSUME IInv, Verifying, NEW n \in Nat, NEW acc, NEW M, NEW G, Follows(n, acc, M, G), NEW k, k = ver.next
  PROVE  /\ k \in 1..(n + 1) /\ OpOK(log.op, log.input) /\ Shaped(log.accesses)
         /\ Trace(prog, log.op, log.input, acc, M, G, n)
         /\ Expected = RequestsOf(prog, log.op, log.input, G[k]) /\ Len(Expected) \in Nat
         /\ k <= Len(Expected) <=> k <= n
         /\ ver.got = G[k] /\ ver.root = RootBefore(prog, log.op, log.input, M, G, n, k)
<1>1. OpOK(log.op, log.input) /\ Shaped(log.accesses) /\ ver # <<>> /\ ver.status = "running"
  BY DEF IInv, VerifyInv, Verifying
<1>2. /\ Trace(prog, log.op, log.input, acc, M, G, n) /\ k \in 1..(n + 1) /\ ver.got = G[k]
      /\ ver.root = RootBefore(prog, log.op, log.input, M, G, n, k)
      /\ Len(RequestsOf(prog, log.op, log.input, G[n + 1])) <= n
  BY <1>1 DEF Follows
<1>3. Expected = RequestsOf(prog, log.op, log.input, G[k])
  BY <1>2, SameRequests DEF Expected
<1>4. Len(RequestsOf(prog, log.op, log.input, G[k])) \in Nat
  BY <1>1, RequestsLen
<1>5. ASSUME k <= n PROVE k <= Len(Expected)
  <2>1. k \in 1..n
    BY <1>2, <1>5
  <2>2. PICK r : r = Asks(prog, log.op, log.input, G[k], k)
    OBVIOUS
  <2> QED
    BY <1>1, <1>2, <1>3, <2>1, <2>2, InTrace
<1>6. ASSUME ~(k <= n) PROVE ~(k <= Len(Expected))
  <2>1. k = n + 1
    BY <1>2, <1>6
  <2> QED
    BY <1>2, <1>3, <1>4, <2>1
<1> QED
  BY <1>1, <1>2, <1>3, <1>4, <1>5, <1>6

\* What the verifier takes from an access that tells of the memory.
LEMMA ToldData ==
  ASSUME NEW a, NEW m, NEW r, Tells(a, m, r), r.t # "write", NEW data, data = CHOOSE d \in a.read : TRUE
  PROVE  data[1] = m[Leaf(r)]
<1>1. PICK d : a.read = {d} /\ d[1] = m[Leaf(r)]
  BY DEF Tells
<1>2. data = d
  BY <1>1
<1> QED
  BY <1>1, <1>2

\* The root it goes on with after a write.
LEMMA ToldRoot ==
  ASSUME NEW m, OnLeaves(m), NEW r, RequestOK(r), NEW a, Tells(a, m, r), r.t = "write"
  PROVE  bubble_up(adjust_access(a.addr, a.size), AccessHeight(a.size), a.sib, CHOOSE h \in a.whash : TRUE)
           = RootAt(After(m, r))
<1>1. a.addr = r.addr /\ a.size = r.size /\ adjust_access(r.addr, r.size) = Leaf(r)
  BY LeafFacts DEF Tells
<1>2. PICK x : a.whash = {x}
  BY DEF Tells
<1>3. PICK y : y = CHOOSE h \in a.whash : TRUE
  OBVIOUS
<1>4. y \in a.whash
  BY <1>2, <1>3
<1>5. bubble_up(Leaf(r), AccessHeight(r.size), a.sib, y) = RootAt(After(m, r))
  BY <1>4, NewRoot
<1> QED
  BY <1>1, <1>3, <1>5

\* An access of the recording, as it was recorded, passes.
LEMMA RecordedPasses ==
  ASSUME NEW a, NEW m, Typed(m), NEW r, RequestOK(r), Keeps(r), Good(a, m, r), ver.root = RootAt(m),
         log.op = "send" => ~IsRevert(r)
  PROVE  Checked(a, r)
<1>1. IsWrite(r) => 1 + (r.addr % 2) \in DOMAIN m[Leaf(r)]
  <2> HAVE IsWrite(r)
  <2>1. Leaf(r) \in Leaves \ {REVERT_LEAF}
    BY LeafFacts DEF Keeps
  <2>2. DOMAIN m[Leaf(r)] = 1..2
    BY <2>1 DEF Typed
  <2>3. 1 + (r.addr % 2) \in 1..2
    BY DEF IsWrite
  <2> QED
    BY <2>2, <2>3
<1> QED
  BY <1>1, GoodChecked DEF Typed

\* A check that passes takes the verification one access on in the history, and an access as it was
\* recorded passes.
LEMMA VerifyAccessInv == ASSUME IInv, VerifyAccess PROVE IInv'
<1>1. Verifying /\ ver # <<>> /\ ver.status = "running"
  BY DEF VerifyAccess, Verifying
<1>2. PICK n \in Nat : \E acc, M, G : Follows(n, acc, M, G)
  BY <1>1 DEF IInv, VerifyInv
<1>3. PICK acc, M, G : Follows(n, acc, M, G)
  BY <1>2
<1>4. PICK k, op, i : k = ver.next /\ op = log.op /\ i = log.input
  OBVIOUS
<1>5. /\ k \in 1..(n + 1) /\ OpOK(op, i) /\ Shaped(log.accesses)
      /\ Trace(prog, op, i, acc, M, G, n)
      /\ Expected = RequestsOf(prog, op, i, G[k])
      /\ k <= Len(Expected) <=> k <= n
      /\ ver.got = G[k] /\ ver.root = RootBefore(prog, op, i, M, G, n, k)
  BY <1>1, <1>3, <1>4, VerifierAt
<1>6. k \in 1..n /\ k + 1 \in 1..(n + 1)
  BY <1>4, <1>5 DEF VerifyAccess
<1>7. PICK r, a, data : r = Expected[k] /\ a = log.accesses[k] /\ data = CHOOSE d \in a.read : TRUE
  OBVIOUS
<1>8. r = Asks(prog, op, i, G[k], k)
  BY <1>5, <1>7 DEF Asks
<1>9. PICK m : m = M[k]
  OBVIOUS
<1>10. /\ RequestOK(r) /\ Keeps(r) /\ Good(acc[k], m, r) /\ Typed(m) /\ OnLeaves(m)
       /\ (r.t = "revert" => op = "reset" /\ IsRevert(r) /\ k = n)
       /\ M[k + 1] = After(m, r) /\ G[k + 1] = GotAfter(m, G[k], r)
  BY <1>5, <1>6, <1>8, <1>9, InTrace
<1>11. ver.root = RootAt(m)
  BY <1>5, <1>6, <1>9 DEF RootBefore
<1>12. op = "send" => ~IsRevert(r)
  BY <1>10 DEF IsRevert
<1>13. PICK bad \in BOOLEAN : bad <=> (k > Len(log.accesses) \/ ~Checked(a, r))
  OBVIOUS
<1>14. PICK root : root = CASE r.t = "read" -> ver.root
                            [] r.t = "revert" -> data[1][1]
                            [] OTHER -> bubble_up(adjust_access(a.addr, a.size), AccessHeight(a.size), a.sib,
                                                  CHOOSE h \in a.whash : TRUE)
  OBVIOUS
<1>15. /\ ver' = IF bad THEN [ver EXCEPT !.status = "rejected"]
                 ELSE [ver EXCEPT !.next = k + 1,
                         !.got = IF r.t = "read" THEN Append(ver.got, GetWord(data, r.addr)) ELSE ver.got,
                         !.root = root]
       /\ mem' = mem /\ tree' = tree /\ dirty' = dirty /\ prog' = prog /\ rec' = rec /\ log' = log
       /\ sentRoot' = sentRoot
  BY <1>4, <1>7, <1>13, <1>14 DEF VerifyAccess
<1>16. DOMAIN ver = VerFields /\ DOMAIN log = LogFields /\ rec = <<>> /\ log.damage \in Nat
  BY <1>1 DEF IInv, VerifyInv
<1>17. ver' # <<>> /\ DOMAIN ver' = VerFields /\ ver'.status \in {"running", "rejected"}
  <2>1. DOMAIN ver' = VerFields /\ ver'.status \in {"running", "rejected"}
    BY <1>1, <1>15, <1>16 DEF VerFields
  <2>2. "next" \in DOMAIN ver' /\ DOMAIN <<>> = {}
    BY <2>1 DEF VerFields
  <2> QED
    BY <2>1, <2>2
<1>18. Follows(n, acc, M, G)'
  <2>1. CASE bad
    <3>1. log.damage # 0
      <4> SUFFICES ASSUME log.damage = 0 PROVE FALSE
        OBVIOUS
      <4>1. log.accesses = acc /\ IsSeq(acc) /\ Len(acc) = n
        BY <1>3 DEF Follows
      <4>2. ~(k > Len(log.accesses)) /\ a = acc[k]
        BY <1>6, <1>7, <4>1
      <4>3. Checked(a, r)
        BY <1>4, <1>10, <1>11, <1>12, <4>2, RecordedPasses
      <4> QED
        BY <1>13, <2>1, <4>2, <4>3
    <3>2. ver'.status = "rejected"
      BY <1>15, <1>16, <2>1 DEF VerFields
    <3> QED
      BY <1>3, <1>15, <3>1, <3>2 DEF Follows
  <2>2. CASE ~bad
    <3>1. /\ ver'.next = k + 1 /\ ver'.root = root /\ ver'.status = "running"
          /\ ver'.got = IF r.t = "read" THEN Append(ver.got, GetWord(data, r.addr)) ELSE ver.got
      BY <1>1, <1>15, <1>16, <2>2 DEF VerFields
    <3>2. Checked(a, r) /\ ~(k > Len(log.accesses))
      BY <1>13, <2>2
    <3>3. Shape(a)
      <4>1. PICK S : log.accesses \in Seq(S) /\ \A x \in S : Shape(x)
        BY <1>5 DEF Shaped
      <4>2. a \in S
        BY <1>6, <1>7, <3>2, <4>1
      <4> QED
        BY <4>1, <4>2
    <3>4. Tells(a, m, r)
      BY <1>4, <1>10, <1>11, <1>12, <3>2, <3>3, Sound
    <3>5. r.t # "write" => data[1] = m[Leaf(r)]
      BY <1>7, <3>4, ToldData
    <3>6. ver'.got = G[k + 1]
      <4>1. r.t = "read" => GetWord(data, r.addr) = ReadWord(m, r)
        BY <3>5 DEF GetWord, ReadWord
      <4> QED
        BY <1>5, <1>10, <3>1, <4>1 DEF GotAfter
    <3>7. root = RootBefore(prog, op, i, M, G, n, k + 1)
      <4>1. CASE r.t = "revert"
        <5>1. k = n /\ Leaf(r) = REVERT_LEAF
          BY <1>10, <4>1 DEF IsRevert, Leaf, REVERT_LEAF
        <5>2. root = m[REVERT_LEAF][1]
          BY <1>14, <3>5, <4>1, <5>1
        <5>3. Reverted(prog, op, i, G, n)
          BY <1>6, <1>8, <4>1, <5>1 DEF Reverted
        <5> QED
          BY <1>9, <5>1, <5>2, <5>3 DEF RootBefore
      <4>2. CASE r.t # "revert"
        <5>1. ~(k + 1 = n + 1 /\ Reverted(prog, op, i, G, n))
          BY <1>6, <1>8, <4>2 DEF Reverted
        <5>2. RootBefore(prog, op, i, M, G, n, k + 1) = RootAt(After(m, r))
          BY <1>10, <5>1 DEF RootBefore
        <5>3. CASE r.t = "read"
          BY <1>10, <1>11, <1>14, <5>2, <5>3 DEF After
        <5>4. CASE r.t = "write"
          BY <1>10, <1>14, <3>4, <5>2, <5>4, ToldRoot
        <5> QED
          BY <1>10, <4>2, <5>3, <5>4, LeafFacts
      <4> QED
        BY <4>1, <4>2
    <3> QED
      BY <1>3, <1>4, <1>6, <1>15, <3>1, <3>6, <3>7 DEF Follows
  <2> QED
    BY <2>1, <2>2
<1>19. VerifyInv'
  BY <1>4, <1>5, <1>15, <1>16, <1>17, <1>18 DEF VerifyInv
<1> QED
  BY <1>15, <1>16, <1>17, <1>19 DEF IInv, Clean, Sent, Revertible, RecordInv, RejectedReverts

\* The verifier ends where the history does.
LEMMA FinishInv == ASSUME IInv, finish PROVE IInv'
<1>1. Verifying /\ ver # <<>> /\ ver.status = "running"
  BY DEF finish, Verifying
<1>2. PICK n \in Nat : \E acc, M, G : Follows(n, acc, M, G)
  BY <1>1 DEF IInv, VerifyInv
<1>3. PICK acc, M, G : Follows(n, acc, M, G)
  BY <1>2
<1>4. PICK k, op, i : k = ver.next /\ op = log.op /\ i = log.input
  OBVIOUS
<1>5. /\ k \in 1..(n + 1) /\ OpOK(op, i) /\ Shaped(log.accesses) /\ Len(Expected) \in Nat
      /\ k <= Len(Expected) <=> k <= n
  BY <1>1, <1>3, <1>4, VerifierAt
<1>6. k = n + 1
  BY <1>4, <1>5 DEF finish
<1>7. PICK s : s = IF k = Len(log.accesses) + 1 THEN "accepted" ELSE "rejected"
  OBVIOUS
<1>8. /\ ver' = [ver EXCEPT !.status = s]
      /\ mem' = mem /\ tree' = tree /\ dirty' = dirty /\ prog' = prog /\ rec' = rec /\ log' = log
      /\ sentRoot' = sentRoot
  BY <1>4, <1>7 DEF finish
<1>9. DOMAIN ver = VerFields /\ DOMAIN log = LogFields /\ rec = <<>> /\ log.damage \in Nat
  BY <1>1 DEF IInv, VerifyInv
<1>10. /\ DOMAIN ver' = VerFields /\ ver'.status = s /\ ver'.next = k /\ ver'.got = ver.got /\ ver'.root = ver.root
  BY <1>4, <1>8, <1>9 DEF VerFields
<1>11. ver' # <<>>
  <2>1. "next" \in DOMAIN ver' /\ DOMAIN <<>> = {}
    BY <1>10 DEF VerFields
  <2> QED
    BY <2>1
<1>12. log.damage = 0 => s = "accepted"
  BY <1>3, <1>6, <1>7 DEF Follows
<1>13. Follows(n, acc, M, G)'
  BY <1>1, <1>3, <1>4, <1>6, <1>8, <1>10, <1>12 DEF Follows
<1>14. VerifyInv'
  BY <1>4, <1>5, <1>7, <1>8, <1>9, <1>10, <1>11, <1>13 DEF VerifyInv
<1> QED
  BY <1>8, <1>9, <1>11, <1>14 DEF IInv, Clean, Sent, Revertible, RecordInv, RejectedReverts

\* The verdict is given.
LEMMA DoneInv == ASSUME IInv, Done PROVE IInv'
<1>1. rec = <<>> /\ rec' = <<>>
  BY DEF IInv, VerifyInv, Done
<1> QED
  BY <1>1 DEF Done, IInv, Clean, Sent, Revertible, RecordInv, VerifyInv, RejectedReverts

\* Every step keeps the invariant.
LEMMA StepInv == ASSUME IInv, [Next]_vars PROVE IInv'
<1>1. CASE HostSend
  BY <1>1, HostSendInv
<1>2. CASE Run
  BY <1>2, RunInv
<1>3. CASE log_step_uarch
  <2>1. OpOK("step", <<>>)
    BY DEF OpOK, Ops
  <2>2. PICK large : StartLog("step", <<>>, large)
    BY <1>3 DEF log_step_uarch
  <2> QED
    BY <2>1, <2>2, StartInv
<1>4. CASE log_reset_uarch
  <2>1. OpOK("reset", <<>>)
    BY DEF OpOK, Ops
  <2>2. PICK large : StartLog("reset", <<>>, large)
    BY <1>4 DEF log_reset_uarch
  <2> QED
    BY <2>1, <2>2, StartInv
<1>5. CASE log_send_cmio_response
  <2>1. PICK i \in Responses, large \in BOOLEAN : StartLog("send", Narrowed(i), large)
    BY <1>5 DEF log_send_cmio_response
  <2>2. i.len \in Nat /\ LenModulus \in 5..512
    BY InputsAssumption DEF Responses
  <2>3. i.len % LenModulus \in 0..512
    BY <2>2
  <2>4. Narrowed(i).len = i.len % LenModulus
    BY DEF Narrowed, Responses
  <2>5. OpOK("send", Narrowed(i))
    BY <2>3, <2>4 DEF OpOK, Ops
  <2> QED
    BY <2>1, <2>5, StartInv
<1>6. CASE RecordAccess
  BY <1>6, RecordAccessInv
<1>7. CASE RecordThrow
  BY <1>7, RecordThrowInv
<1>8. CASE RecordFinish
  BY <1>8, RecordFinishInv
<1>9. CASE Damage
  BY <1>9, DamageInv
<1>10. CASE VerifyAccess
  BY <1>10, VerifyAccessInv
<1>11. CASE finish
  BY <1>11, FinishInv
<1>12. CASE Done
  BY <1>12, DoneInv
<1>13. CASE UNCHANGED vars
  <2>1. /\ mem' = mem /\ tree' = tree /\ dirty' = dirty /\ prog' = prog /\ rec' = rec /\ log' = log /\ ver' = ver
        /\ sentRoot' = sentRoot
    BY <1>13 DEF vars
  <2>2. RecordInv'
    BY <2>1 DEF IInv, RecordInv, History
  <2>3. VerifyInv'
    BY <2>1 DEF IInv, VerifyInv, Follows
  <2> QED
    BY <2>1, <2>2, <2>3 DEF IInv, Clean, Sent, Revertible, RejectedReverts
<1> QED
  BY <1>1, <1>2, <1>3, <1>4, <1>5, <1>6, <1>7, <1>8, <1>9, <1>10, <1>11, <1>12, <1>13 DEF Next

\* The invariant holds for every set of programs, every length of response and every bound on
\* operations and damage.
THEOREM InductiveInvariant == Spec => []IInv
<1>1. Init => IInv
  BY InitInv
<1>2. IInv /\ [Next]_vars => IInv'
  BY StepInv
<1> QED
  BY <1>1, <1>2, PTL DEF Spec

\* A verdict is that of the history.
LEMMA VerdictRoot ==
  ASSUME IInv, Verdict
  PROVE  /\ ver.status = "accepted" => ver.root = log.after
         /\ log.damage = 0 => ver.status = "accepted"
<1>1. PICK n \in Nat : \E acc, M, G : Follows(n, acc, M, G)
  BY DEF IInv, VerifyInv, Verdict
<1>2. PICK acc, M, G : Follows(n, acc, M, G)
  BY <1>1
<1>3. ver.status \in {"accepted", "rejected"}
  BY DEF IInv, VerifyInv, Verdict
<1> QED
  BY <1>2, <1>3 DEF Follows

\* A log that log_step_uarch, log_reset_uarch or log_send_cmio_response made is accepted by its
\* verifier with the root hash that the recorder returned, and a reset after a rejected input goes back to
\* the root hash before the input.
THEOREM LogsAreAccepted == Spec => []LogsAccepted
<1>1. IInv => LogsAccepted
  BY VerdictRoot DEF LogsAccepted, RecordedAccepted, IInv
<1> QED
  BY <1>1, InductiveInvariant, PTL

\* Whatever was lost, repeated or changed in a log, and however often, a verifier that accepts it
\* ends at the root hash of the machine it was recorded from.
THEOREM DamageIsHarmless == Spec => []DamagedHarmless
<1>1. IInv => DamagedHarmless
  BY VerdictRoot DEF DamagedHarmless
<1> QED
  BY <1>1, InductiveInvariant, PTL

\* A response that check_pending_cmio_request lets through is never ignored by send_cmio_response.
THEOREM ResponsesTakeEffect == Spec => SendTakesEffect
<1>1. IInv /\ [Next]_vars => [HostSend => mem'[IFLAGS_Y \div 2][1] = 0]_vars
  <2> SUFFICES ASSUME IInv, HostSend PROVE mem'[IFLAGS_Y \div 2][1] = 0
    OBVIOUS
  <2>1. PICK i \in Responses : /\ check_pending_cmio_request(i)
                               /\ mem' = Effect(send_cmio_response(Narrowed(i), <<Word(IFLAGS_Y), Word(TOHOST)>>), mem)
    BY DEF HostSend
  <2>2. PICK all : all = send_cmio_response(Narrowed(i), <<Word(IFLAGS_Y), Word(TOHOST)>>)
    OBVIOUS
  <2>3. Typed(mem)
    BY DEF IInv
  <2>4. Effect(all, mem)[IFLAGS_Y \div 2][1] = 0
    BY <2>1, <2>2, <2>3, Responds
  <2> QED
    BY <2>1, <2>2, <2>4
<1> QED
  BY <1>1, InductiveInvariant, PTL DEF Spec, SendTakesEffect
============================================================================
