---------------------- MODULE PageHashTreeCacheProofs ----------------------
(***************************************************************************)
(* Whatever the sizes of the cache, of memory and of a page, and wherever  *)
(* its owners are killed: the structures of the page hash-tree cache agree *)
(* between borrows, no borrower is refused unless some owner was killed,   *)
(* and a hit served without reading memory is about the page as it is.     *)
(***************************************************************************)
EXTENDS PageHashTreeCache, SequenceTheorems, WellFoundedInduction, TLAPS

PCs == {"idle", "borrow", "flag", "paddr", "lent", "none", "next", "hash", "flush"}
Entry == [paddr : Pages, borrowed : BOOLEAN, page : [Words -> Values], leaf : [Words -> Values],
          root : [Words -> Values], queue : SUBSET Words]
Borrow == [page : Pages, entry : 0 .. NumEntries, hit : BOOLEAN, for : {"none", "update", "proof"}]

Types ==
  /\ mem \in [Pages -> [Words -> Values]] /\ dirty \subseteq Pages
  /\ ent \in [Entries -> Entry]
  /\ lru \in Seq(Entries) /\ Len(lru) <= NumEntries
  /\ map \in [Pages -> 0 .. NumEntries]
  /\ todo \subseteq Pages
  /\ batch \in Seq([entry : Entries, stage : {"lent", "queued", "hashed"}])
  /\ pc \in PCs
  /\ cur \in Borrow
  /\ proof \in {<<>>} \cup (Pages \X [Words -> Values])
  /\ failed \in BOOLEAN /\ killed \in BOOLEAN

\* What each value of pc says of the call in progress.
Control ==
  /\ pc = "idle" => cur = Idle /\ batch = <<>> /\ todo = {}
  /\ pc \in {"borrow", "flag", "paddr", "lent", "none"} => cur.for # "none"
  /\ pc = "flush" => cur.for = "proof"
  /\ pc = "next" => cur = Idle
  /\ pc = "hash" => IF todo = {} THEN cur = Idle ELSE cur.for = "update"
  /\ cur.for = "update" => cur.page \in todo
  /\ cur.for = "proof" => todo = {} /\ batch = <<>> /\ dirty = {}
  /\ pc \in {"flag", "paddr", "lent", "flush"} =>
       cur.entry \in 1 .. Len(lru) /\ map[cur.page] = cur.entry
  /\ pc = "flag" => ~ent[cur.entry].borrowed
  /\ pc \in {"flag", "paddr"} => ~cur.hit
  /\ pc \in {"paddr", "lent", "flush"} => ent[cur.entry].borrowed
  /\ pc \in {"lent", "flush"} => ent[cur.entry].paddr = cur.page
  /\ pc = "none" => \E e \in Entries : ent[e].borrowed

\* The entry whose two stores are still to come has the address it will have.
PaddrOf(e) == IF pc \in {"flag", "paddr"} /\ e = cur.entry THEN cur.page ELSE ent[e].paddr

Lists ==
  /\ IsInjective(lru) /\ ToSet(lru) = 1 .. Len(lru)
  /\ \A e \in Entries : e > Len(lru) => ent[e] = FreeEntry
  /\ \A p \in Pages : map[p] # 0 => map[p] <= Len(lru) /\ PaddrOf(map[p]) = p
  /\ \A e \in 1 .. Len(lru) : (killed => PaddrOf(e) # 0) => map[PaddrOf(e)] = e
  /\ \A e, f \in 1 .. Len(lru) :
       e # f /\ ent[e].paddr = ent[f].paddr =>
         /\ ent[e].paddr = 0
         /\ killed \/ (pc \in {"flag", "paddr"} /\ cur.entry \in {e, f})

\* The batch holds borrowed entries, each once and not the one being borrowed,
\* for pages that are not still to come; and unless an owner was killed nothing
\* else is borrowed.
Lent ==
  /\ \A i \in DOMAIN batch :
       /\ batch[i].entry <= Len(lru) /\ ent[batch[i].entry].borrowed
       /\ ent[batch[i].entry].paddr \notin todo
       /\ pc \in {"flag", "paddr", "lent"} => batch[i].entry # cur.entry
  /\ \A i, j \in DOMAIN batch : batch[i].entry = batch[j].entry => i = j
  /\ ~killed => \A e \in Entries : ent[e].borrowed =>
       \/ \E i \in DOMAIN batch : batch[i].entry = e
       \/ pc \in {"paddr", "lent", "flush"} /\ e = cur.entry

Hashed(e) == ent[e].leaf = ent[e].page /\ ent[e].root = ent[e].leaf /\ ent[e].queue = {}
Queued(e) == /\ \A w \in Words \ ent[e].queue : ent[e].leaf[w] = ent[e].page[w]
             /\ ent[e].queue = {} => ent[e].root = ent[e].leaf

\* The hashes of an entry are those of its copy, but for the words queued.
Hashes ==
  /\ \A e \in Entries : ~ent[e].borrowed => Hashed(e)
  /\ \A i \in DOMAIN batch : IF batch[i].stage = "queued" THEN Queued(batch[i].entry)
                                                         ELSE Hashed(batch[i].entry)
  /\ pc \in {"paddr", "lent"} => Hashed(cur.entry)
  /\ pc = "flush" => Queued(cur.entry)

\* The pages that may differ from their copies: an update has dealt with those
\* it no longer has to do.
Stale == IF pc \in {"next", "hash"} \/ cur.for = "update" THEN dirty \cap todo ELSE dirty

\* Copies that are not stale are true copies, those with the address of unused
\* entries only when they are mapped.
Copies ==
  /\ \A e \in 1 .. Len(lru) :
       ~ent[e].borrowed /\ ent[e].paddr \notin Stale \cup {0} => ent[e].page = mem[ent[e].paddr]
  /\ map[0] # 0 /\ 0 \notin Stale /\ ~ent[map[0]].borrowed /\ ~(pc = "flag" /\ cur.entry = map[0]) =>
       ent[map[0]].page = mem[0]
  /\ \A i \in DOMAIN batch : batch[i].stage # "lent" =>
       ent[batch[i].entry].page = mem[ent[batch[i].entry].paddr]
  /\ pc = "flush" \/ (pc = "lent" /\ cur.for = "proof" /\ cur.hit) =>
       ent[cur.entry].page = mem[cur.page]

IInv == Types /\ Control /\ Lists /\ Lent /\ Hashes /\ Copies /\ NeverFails /\ ProofsCurrent

-----------------------------------------------------------------------------
(* The LRU list *)

\* What RemoveAt and a prepended element leave at each place.
LEMMA RemoveAtElements ==
  ASSUME NEW S, NEW s \in Seq(S), NEW L \in Nat, L = Len(s), NEW k \in 1 .. L
  PROVE  /\ RemoveAt(s, k) \in Seq(S) /\ Len(RemoveAt(s, k)) = L - 1
         /\ \A i \in 1 .. L - 1 : RemoveAt(s, k)[i] = IF i < k THEN s[i] ELSE s[i + 1]
<1> DEFINE a == SubSeq(s, 1, k - 1)
           b == SubSeq(s, k + 1, L)
           c == a \o b
<1>1. a \in Seq(S) /\ Len(a) = k - 1 /\ \A i \in 1 .. k - 1 : a[i] = s[i]
  OBVIOUS
<1>2. b \in Seq(S) /\ Len(b) = L - k /\ \A i \in 1 .. L - k : b[i] = s[i + k]
  OBVIOUS
<1> HIDE DEF a, b
<1>3. a \in Seq(S) /\ b \in Seq(S)
  BY <1>1, <1>2
<1>4. /\ c \in Seq(S) /\ Len(c) = Len(a) + Len(b)
      /\ \A i \in 1 .. Len(a) + Len(b) : c[i] = IF i <= Len(a) THEN a[i] ELSE b[i - Len(a)]
  BY <1>3, ConcatProperties
<1>5. RemoveAt(s, k) = c
  BY DEF RemoveAt, a, b
<1> HIDE DEF c
<1>6. ASSUME NEW i \in 1 .. L - 1 PROVE c[i] = IF i < k THEN s[i] ELSE s[i + 1]
  <2>0. i \in 1 .. Len(a) + Len(b) /\ Len(a) = k - 1 /\ (i <= Len(a) <=> i < k)
    BY <1>1, <1>2
  <2>1. CASE i < k
    <3>1. c[i] = a[i] /\ i \in 1 .. k - 1
      BY <1>4, <2>0, <2>1
    <3> QED
      BY <1>1, <2>1, <3>1
  <2>2. CASE ~(i < k)
    <3>1. c[i] = b[i - (k - 1)] /\ i - (k - 1) \in 1 .. L - k
      <4>1. c[i] = b[i - Len(a)]
        BY <1>4, <2>0, <2>2
      <4> QED
        BY <2>0, <2>2, <4>1
    <3>2. (i - (k - 1)) + k = i + 1
      OBVIOUS
    <3> QED
      BY <1>2, <2>2, <3>1, <3>2
  <2> QED
    BY <2>1, <2>2
<1>7. Len(a) + Len(b) = L - 1
  BY <1>1, <1>2
<1> QED
  BY <1>4, <1>5, <1>6, <1>7, Zenon

LEMMA PrependElements ==
  ASSUME NEW S, NEW s \in Seq(S), NEW L \in Nat, L = Len(s), NEW e \in S
  PROVE  /\ <<e>> \o s \in Seq(S) /\ Len(<<e>> \o s) = L + 1
         /\ \A i \in 1 .. L + 1 : (<<e>> \o s)[i] = IF i = 1 THEN e ELSE s[i - 1]
OBVIOUS

\* Where the element at place i of the list was before the one at k moved to the
\* front: a permutation of the places.
Origin(k, i) == IF i = 1 THEN k ELSE IF i <= k THEN i - 1 ELSE i

LEMMA OriginPermutes ==
  ASSUME NEW L \in Nat, NEW k \in 1 .. L
  PROVE  /\ \A i \in 1 .. L : Origin(k, i) \in 1 .. L
         /\ \A i, j \in 1 .. L : Origin(k, i) = Origin(k, j) => i = j
         /\ \A i \in 1 .. L : \E j \in 1 .. L : Origin(k, j) = i
<1>1. \A i \in 1 .. L : Origin(k, i) \in 1 .. L
  BY DEF Origin
<1>2. ASSUME NEW i \in 1 .. L, NEW j \in 1 .. L, Origin(k, i) = Origin(k, j) PROVE i = j
  <2>1. CASE i = 1
    BY <1>2, <2>1 DEF Origin
  <2>2. CASE j = 1
    BY <1>2, <2>2 DEF Origin
  <2>3. CASE i # 1 /\ j # 1
    BY <1>2, <2>3 DEF Origin
  <2> QED
    BY <2>1, <2>2, <2>3
<1>3. ASSUME NEW i \in 1 .. L PROVE \E j \in 1 .. L : Origin(k, j) = i
  <2>1. CASE i < k
    <3>1. i + 1 \in 1 .. L /\ Origin(k, i + 1) = i
      BY <2>1 DEF Origin
    <3> QED
      BY <3>1
  <2>2. CASE i = k
    BY <2>2 DEF Origin
  <2>3. CASE i > k
    BY <2>3 DEF Origin
  <2> QED
    BY <2>1, <2>2, <2>3
<1> QED
  BY <1>1, <1>2, <1>3

\* A list that has each of 1 .. L once still does when the element at k is moved
\* to the front.
EachOnce(s, L) == /\ \A i, j \in 1 .. L : s[i] = s[j] => i = j
                  /\ \A x \in 1 .. L : \E i \in 1 .. L : s[i] = x
                  /\ \A i \in 1 .. L : s[i] \in 1 .. L
Moved(s, t, k, L) == \A i \in 1 .. L : t[i] = s[Origin(k, i)]

LEMMA MovedToFront ==
  ASSUME NEW L \in Nat, NEW s, NEW t, NEW k \in 1 .. L, EachOnce(s, L), Moved(s, t, k, L)
  PROVE  EachOnce(t, L)
<1> USE DEF EachOnce, Moved
<1>1. /\ \A i \in 1 .. L : Origin(k, i) \in 1 .. L
      /\ \A i, j \in 1 .. L : Origin(k, i) = Origin(k, j) => i = j
      /\ \A i \in 1 .. L : \E j \in 1 .. L : Origin(k, j) = i
  BY OriginPermutes
<1>2. ASSUME NEW i \in 1 .. L, NEW j \in 1 .. L, t[i] = t[j] PROVE i = j
  <2>1. s[Origin(k, i)] = s[Origin(k, j)] /\ Origin(k, i) \in 1 .. L /\ Origin(k, j) \in 1 .. L
    BY <1>1, <1>2
  <2>2. Origin(k, i) = Origin(k, j)
    BY <2>1
  <2> QED
    BY <1>1, <2>2
<1>3. ASSUME NEW x \in 1 .. L PROVE \E i \in 1 .. L : t[i] = x
  <2>1. PICK i \in 1 .. L : s[i] = x
    OBVIOUS
  <2>2. PICK j \in 1 .. L : Origin(k, j) = i
    BY <1>1
  <2> QED
    BY <2>1, <2>2
<1>4. ASSUME NEW i \in 1 .. L PROVE t[i] \in 1 .. L
  <2>1. t[i] = s[Origin(k, i)] /\ Origin(k, i) \in 1 .. L
    BY <1>1
  <2> HIDE DEF Origin
  <2> QED
    BY <2>1
<1> QED
  BY <1>2, <1>3, <1>4

\* Moving an entry of the list, or the next unused one, to the front gives a
\* list of the used entries, each once.
LEMMA ToFrontLists ==
  ASSUME lru \in Seq(Entries), IsInjective(lru), ToSet(lru) = 1 .. Len(lru),
         NEW e \in Entries, NEW n \in Nat,
         n = IF e <= Len(lru) THEN Len(lru) ELSE Len(lru) + 1,
         e <= n
  PROVE  /\ ToFront(e) \in Seq(Entries) /\ Len(ToFront(e)) = n
         /\ IsInjective(ToFront(e)) /\ ToSet(ToFront(e)) = 1 .. n
<1> DEFINE L == Len(lru)
           t == ToFront(e)
<1>1. L \in Nat /\ DOMAIN lru = 1 .. L
  OBVIOUS
<1>2. EachOnce(lru, L)
  <2>1. \A i, j \in 1 .. L : lru[i] = lru[j] => i = j
    BY <1>1 DEF IsInjective
  <2>2. \A i \in 1 .. L : lru[i] \in 1 .. L
    BY <1>1 DEF ToSet
  <2>3. \A x \in 1 .. L : \E i \in 1 .. L : lru[i] = x
    BY <1>1 DEF ToSet
  <2> QED
    BY <2>1, <2>2, <2>3 DEF EachOnce
<1>3. ASSUME NEW m \in Nat, t \in Seq(Entries), Len(t) = m, EachOnce(t, m)
      PROVE  IsInjective(t) /\ ToSet(t) = 1 .. m
  <2>1. DOMAIN t = 1 .. m
    <3> HIDE DEF t
    <3> QED
      BY <1>3
  <2> HIDE DEF t
  <2>2. IsInjective(t)
    BY <1>3, <2>1 DEF IsInjective, EachOnce
  <2>3. ToSet(t) = 1 .. m
    <3>1. ToSet(t) = {t[i] : i \in 1 .. m}
      BY <2>1 DEF ToSet
    <3> QED
      BY <1>3, <3>1 DEF EachOnce
  <2> QED
    BY <2>2, <2>3
<1>4. CASE e <= L
  <2>1. e \in 1 .. L /\ e \in ToSet(lru)
    BY <1>1, <1>4 DEF Entries
  <2> DEFINE k == CHOOSE i \in DOMAIN lru : lru[i] = e
  <2>2. k \in 1 .. L /\ lru[k] = e
    BY <1>1, <1>2, <2>1 DEF EachOnce
  <2>3. t = <<e>> \o RemoveAt(lru, k)
    BY <2>1 DEF ToFront
  <2> HIDE DEF k, L
  <2>4. /\ RemoveAt(lru, k) \in Seq(Entries) /\ Len(RemoveAt(lru, k)) = L - 1
        /\ \A i \in 1 .. L - 1 : RemoveAt(lru, k)[i] = IF i < k THEN lru[i] ELSE lru[i + 1]
    BY <1>1, <2>2, RemoveAtElements DEF L
  <2> DEFINE r == RemoveAt(lru, k)
             M == L - 1
  <2>5. M \in Nat
    BY <1>1, <2>2
  <2> HIDE DEF r, M
  <2>6. /\ t \in Seq(Entries) /\ Len(t) = M + 1
        /\ \A i \in 1 .. M + 1 : t[i] = IF i = 1 THEN e ELSE r[i - 1]
    BY <2>3, <2>4, <2>5, PrependElements DEF r, M
  <2> HIDE DEF t
  <2>7. M + 1 = L
    BY <1>1 DEF M
  <2>8. Moved(lru, t, k, L)
    <3> SUFFICES ASSUME NEW i \in 1 .. L, i # 1
                 PROVE  t[i] = lru[Origin(k, i)]
      BY <2>2, <2>6, <2>7 DEF Origin, Moved
    <3>1. t[i] = r[i - 1] /\ i - 1 \in 1 .. L - 1 /\ (i - 1) + 1 = i /\ (i - 1 < k <=> i <= k)
      BY <1>1, <2>2, <2>6, <2>7
    <3> QED
      BY <2>4, <3>1 DEF r, Origin
  <2>9. EachOnce(t, L)
    BY <1>1, <1>2, <2>2, <2>8, MovedToFront
  <2>10. n = L
    BY <1>4 DEF L
  <2> QED
    BY <1>1, <1>3, <2>6, <2>7, <2>9, <2>10 DEF t
<1>5. CASE ~(e <= L)
  <2>1. e = L + 1 /\ e \notin ToSet(lru) /\ n = L + 1
    BY <1>1, <1>5 DEF Entries
  <2>2. t = <<e>> \o lru
    BY <2>1 DEF ToFront
  <2> HIDE DEF L
  <2>3. /\ t \in Seq(Entries) /\ Len(t) = L + 1
        /\ \A i \in 1 .. L + 1 : t[i] = IF i = 1 THEN e ELSE lru[i - 1]
    <3>1. L = Len(lru) /\ L \in Nat
      BY <1>1 DEF L
    <3> HIDE DEF t
    <3> QED
      BY <2>2, <3>1, PrependElements
  <2> HIDE DEF t
  <2>4. \A i \in 2 .. L + 1 : t[i] = lru[i - 1] /\ i - 1 \in 1 .. L /\ t[i] \in 1 .. L
    <3> SUFFICES ASSUME NEW i \in 2 .. L + 1 PROVE t[i] = lru[i - 1] /\ i - 1 \in 1 .. L /\ t[i] \in 1 .. L
      OBVIOUS
    <3>1. i \in 1 .. L + 1 /\ i # 1 /\ i - 1 \in 1 .. L
      BY <1>1
    <3> QED
      BY <1>2, <2>3, <3>1 DEF EachOnce
  <2>5. t[1] = L + 1
    BY <1>1, <2>1, <2>3
  <2>6. ASSUME NEW i \in 1 .. L + 1, NEW j \in 1 .. L + 1, t[i] = t[j] PROVE i = j
    <3>1. CASE i = 1 \/ j = 1
      BY <1>1, <2>4, <2>5, <2>6, <3>1
    <3>2. CASE i # 1 /\ j # 1
      <4>1. i \in 2 .. L + 1 /\ j \in 2 .. L + 1
        BY <1>1, <3>2
      <4>2. i - 1 = j - 1
        BY <1>2, <2>4, <2>6, <4>1 DEF EachOnce
      <4> QED
        BY <4>1, <4>2
    <3> QED
      BY <3>1, <3>2
  <2>7. ASSUME NEW x \in 1 .. L + 1 PROVE \E i \in 1 .. L + 1 : t[i] = x
    <3>1. CASE x = L + 1
      BY <1>1, <2>5, <3>1
    <3>2. CASE x # L + 1
      <4>1. PICK i \in 1 .. L : lru[i] = x
        BY <1>1, <1>2, <3>2 DEF EachOnce
      <4>2. i + 1 \in 2 .. L + 1 /\ (i + 1) - 1 = i
        BY <1>1
      <4>3. t[i + 1] = x
        BY <2>4, <4>1, <4>2
      <4> QED
        BY <1>1, <4>2, <4>3
    <3> QED
      BY <3>1, <3>2
  <2>8. \A i \in 1 .. L + 1 : t[i] \in 1 .. L + 1
    BY <1>1, <2>4, <2>5
  <2>9. L + 1 \in Nat
    BY <1>1
  <2>10. EachOnce(t, L + 1)
    BY <2>6, <2>7, <2>8 DEF EachOnce
  <2> QED
    BY <1>3, <2>1, <2>3, <2>9, <2>10 DEF t
<1> QED
  BY <1>4, <1>5

LEMMA ToFrontUsed ==
  ASSUME Types, Lists, NEW e \in 1 .. Len(lru)
  PROVE  /\ ToFront(e) \in Seq(Entries) /\ Len(ToFront(e)) = Len(lru)
         /\ IsInjective(ToFront(e)) /\ ToSet(ToFront(e)) = 1 .. Len(lru)
<1>1. Len(lru) \in Nat /\ e \in Entries /\ e <= Len(lru)
  BY CacheAssumption DEF Types, Entries
<1> DEFINE n == IF e <= Len(lru) THEN Len(lru) ELSE Len(lru) + 1
<1>2. n = Len(lru) /\ n \in Nat /\ e <= n
  BY <1>1
<1> HIDE DEF n
<1>3. n = IF e <= Len(lru) THEN Len(lru) ELSE Len(lru) + 1
  BY DEF n
<1>4. /\ ToFront(e) \in Seq(Entries) /\ Len(ToFront(e)) = n
      /\ IsInjective(ToFront(e)) /\ ToSet(ToFront(e)) = 1 .. n
  BY <1>1, <1>2, <1>3, ToFrontLists DEF Types, Lists
<1> QED
  BY <1>2, <1>4

LEMMA ToFrontNew ==
  ASSUME Types, Lists, Len(lru) < NumEntries
  PROVE  /\ ToFront(Len(lru) + 1) \in Seq(Entries) /\ Len(ToFront(Len(lru) + 1)) = Len(lru) + 1
         /\ IsInjective(ToFront(Len(lru) + 1)) /\ ToSet(ToFront(Len(lru) + 1)) = 1 .. Len(lru) + 1
<1> DEFINE e == Len(lru) + 1
           n == IF e <= Len(lru) THEN Len(lru) ELSE Len(lru) + 1
<1>1. Len(lru) \in Nat /\ e \in Entries
  BY CacheAssumption DEF Types, Entries
<1>2. n = Len(lru) + 1 /\ n \in Nat /\ e <= n
  BY <1>1
<1> HIDE DEF n
<1>3. n = IF e <= Len(lru) THEN Len(lru) ELSE Len(lru) + 1
  BY DEF n
<1> HIDE DEF e
<1>4. /\ ToFront(e) \in Seq(Entries) /\ Len(ToFront(e)) = n
      /\ IsInjective(ToFront(e)) /\ ToSet(ToFront(e)) = 1 .. n
  BY <1>1, <1>2, <1>3, ToFrontLists DEF Types, Lists
<1> QED
  BY <1>2, <1>4 DEF e

-----------------------------------------------------------------------------
(* One lemma per action *)

\* What the type invariant says of one entry.
LEMMA EntryTypes ==
  ASSUME Types, NEW e \in Entries
  PROVE  /\ ent[e] \in Entry /\ ent[e].paddr \in Pages /\ ent[e].borrowed \in BOOLEAN
         /\ ent[e].page \in [Words -> Values] /\ ent[e].leaf \in [Words -> Values]
         /\ ent[e].root \in [Words -> Values] /\ ent[e].queue \subseteq Words
BY DEF Types, Entry

\* The stores into an entry, and into the borrow in progress, keep their types.
LEMMA EntryUpdates ==
  ASSUME NEW r \in Entry, NEW b \in BOOLEAN, NEW p \in Pages
  PROVE  /\ [r EXCEPT !.borrowed = b] \in Entry /\ [r EXCEPT !.paddr = p] \in Entry
         /\ [r EXCEPT !.queue = {}] \in Entry
BY DEF Entry

LEMMA BorrowUpdates ==
  ASSUME NEW c \in Borrow, NEW e \in 0 .. NumEntries, NEW b \in BOOLEAN
  PROVE  /\ [c EXCEPT !.entry = e, !.hit = b] \in Borrow /\ [c EXCEPT !.entry = e, !.hit = b].page = c.page
         /\ [c EXCEPT !.entry = e, !.hit = b].entry = e /\ [c EXCEPT !.entry = e, !.hit = b].hit = b
         /\ [c EXCEPT !.entry = e, !.hit = b].for = c.for
BY DEF Borrow

LEMMA BatchTypes ==
  ASSUME Types, NEW i \in DOMAIN batch
  PROVE  /\ batch[i] \in [entry : Entries, stage : {"lent", "queued", "hashed"}]
         /\ batch[i].entry \in Entries /\ batch[i].stage \in {"lent", "queued", "hashed"}
<1>1. batch[i] \in [entry : Entries, stage : {"lent", "queued", "hashed"}]
  <2>1. i \in 1 .. Len(batch)
    BY DEF Types
  <2> QED
    BY <2>1, ElementOfSeq DEF Types
<1> QED
  BY <1>1

LEMMA BorrowTypes ==
  ASSUME Types
  PROVE  /\ cur \in Borrow /\ cur.page \in Pages /\ cur.entry \in 0 .. NumEntries
         /\ cur.hit \in BOOLEAN /\ cur.for \in {"none", "update", "proof"}
BY DEF Types, Borrow

LEMMA UsedTypes ==
  ASSUME Types
  PROVE  /\ Len(lru) \in Nat /\ Len(lru) <= NumEntries
         /\ \A e \in 1 .. Len(lru) : e \in Entries
         /\ \A p \in Pages : map[p] # 0 => map[p] \in Entries
BY CacheAssumption DEF Types, Entries

LEMMA Constants == /\ NumEntries \in Nat /\ Entries \subseteq Nat /\ 0 \notin Entries
                   /\ Pages \subseteq Nat /\ 0 \in Pages /\ FreeEntry.paddr = 0
                   /\ Idle \in Borrow /\ Idle.page = 0 /\ Idle.entry = 0 /\ Idle.for = "none" /\ Idle.hit = FALSE
                   /\ FreeEntry \in Entry /\ FreeEntry.borrowed = FALSE /\ FreeEntry.queue = {}
                   /\ FreeEntry.page = PristinePage /\ FreeEntry.leaf = PristinePage
                   /\ FreeEntry.root = PristinePage /\ PristinePage \in [Words -> Values]
BY CacheAssumption DEF Entries, Pages, FreeEntry, Idle, Borrow, Entry, PristinePage, Zero

-----------------------------------------------------------------------------
(* Each action keeps the inductive invariant. *)

LEMMA WriteKeeps ==
  ASSUME IInv, NEW p \in Pages, NEW w \in Words, NEW v \in Values, Write(p, w, v), UNCHANGED killed
  PROVE  IInv'
<1>1. Types'
  BY CacheAssumption DEF Write, IInv, Types, Control, Idle, Entries, Entry, Pages, PCs
<1>2. Control'
  BY CacheAssumption DEF Write, IInv, Types, Control, Lists, Idle, Entries, Entry, Pages, PCs
<1>3. Lists'
  BY DEF Write, IInv, Types, Control, Lists, Idle, PaddrOf
<1>4. Lent'
  BY DEF Write, IInv, Types, Control, Lent, Idle
<1>5. Hashes'
  BY DEF Write, IInv, Types, Control, Hashes, Idle, Hashed, Queued
<1>6. Copies'
  <2>1. /\ pc = "idle" /\ cur = Idle /\ batch = <<>> /\ dirty' = dirty \cup {p}
        /\ UNCHANGED <<pc, cur, batch, ent, lru, map, todo>>
    BY DEF IInv, Write, Control
  <2>2. Stale = dirty /\ Stale' = dirty \cup {p}
    BY <2>1, Constants DEF Stale
  <2>3. \A q \in Pages : q # p => mem'[q] = mem[q]
    BY DEF IInv, Types, Write
  <2>4. ASSUME NEW e \in 1 .. Len(lru), ~ent[e].borrowed, ent[e].paddr \notin Stale' \cup {0}
        PROVE  ent[e].page = mem'[ent[e].paddr]
    <3>1. e \in Entries
      BY Constants DEF IInv, Types, Entries
    <3> QED
      BY <2>2, <2>3, <2>4, <3>1, EntryTypes DEF IInv, Copies
  <2>5. map[0] # 0 /\ 0 \notin Stale' /\ ~ent[map[0]].borrowed => ent[map[0]].page = mem'[0]
    BY <2>1, <2>2, <2>3, Constants DEF IInv, Copies
  <2>6. \A i \in DOMAIN batch' : batch'[i].stage = "lent"
    BY <2>1
  <2> QED
    BY <2>1, <2>4, <2>5, <2>6 DEF Copies
<1>7. NeverFails'
  BY DEF Write, IInv, Control, NeverFails
<1>8. ProofsCurrent'
  BY DEF Write, ProofsCurrent
<1> QED
  BY <1>1, <1>2, <1>3, <1>4, <1>5, <1>6, <1>7, <1>8 DEF IInv

\* An exception leaves a cache whose lists and entries are as they were: sound
\* again once the call is over, when an owner was killed before.
LEMMA ThrowKeeps ==
  ASSUME IInv, pc = "borrow", killed, Throw, UNCHANGED <<mem, dirty, ent, lru, map, proof, killed>>
  PROVE  IInv'
<1>1. /\ pc' = "idle" /\ cur' = Idle /\ todo' = {} /\ batch' = <<>> /\ failed' = TRUE
      /\ UNCHANGED <<mem, dirty, ent, lru, map, proof, killed>>
  BY DEF Throw
<1>2. Types'
  BY <1>1, Constants, EmptySeq DEF IInv, Types, PCs, Idle
<1>3. Control'
  BY <1>1, Constants DEF Control
<1>4. Lists'
  BY <1>1 DEF IInv, Lists, PaddrOf
<1>5. Lent'
  BY <1>1 DEF Lent
<1>6. Hashes'
  BY <1>1 DEF IInv, Hashes, Hashed
<1>7. Copies'
  <2>1. Stale \subseteq Stale' /\ Stale' = dirty
    BY <1>1, Constants DEF Stale
  <2>2. \A i \in DOMAIN batch' : batch'[i].stage = "lent"
    BY <1>1
  <2> QED
    BY <1>1, <2>1, <2>2 DEF IInv, Copies
<1>8. NeverFails'
  BY <1>1 DEF NeverFails
<1>9. ProofsCurrent'
  BY <1>1 DEF IInv, ProofsCurrent
<1> QED
  BY <1>2, <1>3, <1>4, <1>5, <1>6, <1>7, <1>8, <1>9 DEF IInv

LEMMA BorrowHitKeeps ==
  ASSUME IInv, BorrowHit, UNCHANGED killed
  PROVE  IInv'
<1>0. PICK x \in Entries : x = map[cur.page]
  BY UsedTypes, BorrowTypes DEF IInv, BorrowHit
<1>1. /\ pc = "borrow" /\ x # 0 /\ x \in 1 .. Len(lru) /\ x \in Entries /\ cur.page \in Pages
      /\ ent[x].paddr = cur.page /\ cur.for \in {"update", "proof"}
  BY <1>0, Constants, BorrowTypes, UsedTypes DEF IInv, BorrowHit, Control, Lists, PaddrOf
<1>2. CASE ent[x].borrowed
  <2>1. killed
    <3> SUFFICES ASSUME ~killed PROVE FALSE
      BY DEF IInv, Types
    <3>1. PICK i \in DOMAIN batch : batch[i].entry = x
      BY <1>1, <1>2 DEF IInv, Lent
    <3>2. cur.page \notin todo
      BY <1>1, <3>1 DEF IInv, Lent
    <3>3. cur.for = "proof"
      BY <1>1, <3>2 DEF IInv, Control
    <3> QED
      BY <3>1, <3>3 DEF IInv, Control
  <2> QED
    BY <1>0, <1>1, <1>2, <2>1, ThrowKeeps DEF BorrowHit
<1>3. CASE ~ent[x].borrowed
  <2>1. /\ lru' = ToFront(x) /\ ent' = [ent EXCEPT ![x].borrowed = TRUE]
        /\ cur' = [cur EXCEPT !.entry = x, !.hit = TRUE] /\ pc' = "lent"
        /\ UNCHANGED <<todo, batch, failed, mem, dirty, map, proof, killed>>
    BY <1>0, <1>3 DEF BorrowHit
  <2>2. /\ lru' \in Seq(Entries) /\ Len(lru') = Len(lru)
        /\ IsInjective(lru') /\ ToSet(lru') = 1 .. Len(lru)
    BY <1>1, <2>1, ToFrontUsed DEF IInv
  <2>3. /\ ent' \in [Entries -> Entry] /\ ent'[x] = [ent[x] EXCEPT !.borrowed = TRUE]
        /\ \A e \in Entries : e # x => ent'[e] = ent[e]
    <3>1. ent \in [Entries -> Entry] /\ [ent[x] EXCEPT !.borrowed = TRUE] \in Entry
      BY EntryTypes, EntryUpdates DEF IInv, Types
    <3> QED
      BY <2>1, <3>1
  <2>4. /\ ent'[x].borrowed = TRUE /\ ent'[x].paddr = cur.page
        /\ ent'[x].page = ent[x].page /\ ent'[x].leaf = ent[x].leaf /\ ent'[x].root = ent[x].root
        /\ ent'[x].queue = ent[x].queue /\ \A e \in Entries : ent'[e].paddr = ent[e].paddr
    BY <1>1, <2>3, EntryTypes DEF IInv, Entry
  <2>5. cur' \in Borrow /\ cur'.page = cur.page /\ cur'.entry = x /\ cur'.hit = TRUE /\ cur'.for = cur.for
    <3>1. cur \in Borrow /\ x \in 0 .. NumEntries
      BY DEF IInv, Types, Entries
    <3> QED
      BY <2>1, <3>1, BorrowUpdates
  <2>6. Types'
    BY <2>1, <2>2, <2>3, <2>5 DEF IInv, Types, PCs
  <2>7. Control'
    BY <1>0, <1>1, <2>1, <2>2, <2>4, <2>5 DEF IInv, Control
  <2>8. Lists'
    <3>1. \A e \in Entries : e > Len(lru') => ent'[e] = FreeEntry
      BY <1>1, <2>2, <2>3, Constants DEF IInv, Lists, Types
    <3>2. \A e \in 1 .. Len(lru) : e \in Entries
      BY Constants DEF IInv, Types, Entries
    <3>3. \A e \in Entries : PaddrOf(e) = ent[e].paddr /\ PaddrOf(e)' = ent[e].paddr
      BY <1>1, <2>1, <2>4 DEF PaddrOf
    <3>4. \A q \in Pages : map[q] # 0 => map[q] \in Entries
      BY Constants DEF IInv, Types, Entries
    <3>5. \A q \in Pages : map'[q] # 0 => map'[q] <= Len(lru') /\ PaddrOf(map[q])' = q
      BY <1>1, <2>1, <2>2, <2>4, <3>4 DEF IInv, Lists, PaddrOf
    <3>6. \A e \in 1 .. Len(lru') : (killed' => PaddrOf(e)' # 0) => map'[PaddrOf(e)'] = e
      BY <2>1, <2>2, <3>2, <3>3 DEF IInv, Lists
    <3>7. \A e, f \in 1 .. Len(lru') : e # f /\ ent'[e].paddr = ent'[f].paddr => ent'[e].paddr = 0 /\ killed'
      BY <1>1, <2>1, <2>2, <2>4, <3>2 DEF IInv, Lists
    <3> QED
      BY <2>2, <3>1, <3>5, <3>6, <3>7 DEF Lists
  <2>9. Lent'
    <3>1. \A i \in DOMAIN batch : batch[i].entry \in Entries /\ batch[i].entry # x
      BY <1>1, <1>3, BatchTypes DEF IInv, Lent
    <3> QED
      BY <1>1, <2>1, <2>2, <2>3, <2>4, <2>5, <3>1 DEF IInv, Lent, Types
  <2>10. Hashes'
    <3>1. \A i \in DOMAIN batch : batch[i].entry \in Entries /\ batch[i].entry # x
      BY <1>1, <1>3, BatchTypes DEF IInv, Lent
    <3>2. Hashed(x)'
      BY <1>1, <1>3, <2>4 DEF IInv, Hashes, Hashed
    <3> QED
      BY <1>1, <2>1, <2>3, <2>4, <2>5, <3>1, <3>2 DEF IInv, Hashes, Hashed, Queued
  <2>11. Copies'
    <3>1. \A i \in DOMAIN batch : batch[i].entry \in Entries /\ batch[i].entry # x
      BY <1>1, <1>3, BatchTypes DEF IInv, Lent
    <3>2. Stale' = Stale
      BY <1>1, <2>1, <2>5 DEF Stale
    <3>3. \A e \in 1 .. Len(lru) : e \in Entries
      BY Constants DEF IInv, Types, Entries
    <3>4. \A e \in 1 .. Len(lru') : ~ent'[e].borrowed /\ ent'[e].paddr \notin Stale' \cup {0} =>
                                      ent'[e].page = mem'[ent'[e].paddr]
      BY <2>1, <2>2, <2>3, <2>4, <3>2, <3>3 DEF IInv, Copies
    <3>5. map'[0] # 0 /\ 0 \notin Stale' /\ ~ent'[map'[0]].borrowed => ent'[map'[0]].page = mem'[0]
      <4>1. map[0] # 0 => map[0] \in Entries
        BY Constants DEF IInv, Types, Entries
      <4> QED
        BY <1>1, <2>1, <2>3, <2>4, <3>2, <4>1 DEF IInv, Copies
    <3>6. \A i \in DOMAIN batch' : batch'[i].stage # "lent" =>
            ent'[batch'[i].entry].page = mem'[ent'[batch'[i].entry].paddr]
      BY <2>1, <2>3, <3>1 DEF IInv, Copies
    <3>7. cur.for = "proof" => ent[x].page = mem[cur.page]
      <4> SUFFICES ASSUME cur.for = "proof" PROVE ent[x].page = mem[cur.page]
        OBVIOUS
      <4>1. Stale = {}
        BY <1>1 DEF IInv, Control, Stale
      <4>2. cur.page # 0 => ent[x].page = mem[cur.page]
        BY <1>1, <1>3, <4>1 DEF IInv, Copies
      <4>3. cur.page = 0 => ent[x].page = mem[cur.page]
        BY <1>0, <1>1, <1>3, <4>1 DEF IInv, Copies
      <4> QED
        BY <4>2, <4>3
    <3> QED
      BY <2>1, <2>4, <2>5, <3>4, <3>5, <3>6, <3>7 DEF Copies
  <2>12. NeverFails' /\ ProofsCurrent'
    BY <2>1 DEF IInv, NeverFails, ProofsCurrent
  <2> QED
    BY <2>6, <2>7, <2>8, <2>9, <2>10, <2>11, <2>12 DEF IInv
<1> QED
  BY <1>2, <1>3

LEMMA BorrowMissKeeps ==
  ASSUME IInv, BorrowMiss, UNCHANGED killed
  PROVE  IInv'
<1> DEFINE fresh == Len(lru) < NumEntries
<1>1. PICK x : x = IF fresh THEN Len(lru) + 1 ELSE lru[Len(lru)]
  OBVIOUS
<1>2. PICK n : n = IF fresh THEN Len(lru) + 1 ELSE Len(lru)
  OBVIOUS
<1>3. PICK q : q = cur.page
  OBVIOUS
<1>4. /\ pc = "borrow" /\ q \in Pages /\ map[q] = 0 /\ cur.for \in {"update", "proof"} /\ cur.page = q
  BY <1>3, BorrowTypes DEF IInv, BorrowMiss, Control
<1>5. /\ x \in Entries /\ n \in Nat /\ x <= n /\ n <= NumEntries /\ Len(lru) <= n
      /\ fresh => x = Len(lru) + 1 /\ n = x /\ ent[x] = FreeEntry
      /\ ~fresh => x \in 1 .. Len(lru) /\ n = Len(lru) /\ Len(lru) = NumEntries
      /\ \A e \in 1 .. n : e # x => e \in 1 .. Len(lru)
  <2>1. CASE fresh
    <3>1. x = Len(lru) + 1 /\ n = x /\ x \in Entries /\ n \in Nat /\ n <= NumEntries /\ Len(lru) \in Nat
      BY <1>1, <1>2, <2>1, UsedTypes, Constants DEF IInv, Entries
    <3>2. ent[x] = FreeEntry
      BY <3>1 DEF IInv, Lists
    <3> HIDE DEF fresh
    <3> QED
      BY <2>1, <3>1, <3>2
  <2>2. CASE ~fresh
    <3>1. n = Len(lru) /\ x = lru[Len(lru)] /\ Len(lru) = NumEntries /\ NumEntries \in Nat \ {0}
      BY <1>1, <1>2, <2>2, UsedTypes, CacheAssumption DEF IInv
    <3>2. x \in Entries
      BY <3>1, UsedTypes, ElementOfSeq DEF IInv, Types
    <3>3. x \in 1 .. Len(lru)
      BY <3>1, <3>2 DEF Entries
    <3> HIDE DEF fresh
    <3> QED
      BY <2>2, <3>1, <3>2, <3>3
  <2> QED
    BY <2>1, <2>2
<1> HIDE DEF fresh
<1>6. CASE ent[x].borrowed
  <2>1. ~fresh
    BY <1>5, <1>6, Constants
  <2>2. /\ pc' = "none" /\ UNCHANGED <<cur, todo, batch, failed, ent, lru, map, mem, dirty, proof, killed>>
    BY <1>1, <1>6, <2>1 DEF BorrowMiss, fresh
  <2>3. Types'
    BY <2>2 DEF IInv, Types, PCs
  <2>4. Control'
    BY <1>4, <1>5, <1>6, <2>2 DEF IInv, Control
  <2>5. Lists'
    BY <1>4, <2>2 DEF IInv, Lists, PaddrOf
  <2>6. Lent'
    BY <1>4, <2>2 DEF IInv, Lent
  <2>7. Hashes'
    BY <1>4, <2>2 DEF IInv, Hashes, Hashed, Queued
  <2>8. Copies'
    <3>1. Stale' = Stale
      BY <1>4, <2>2 DEF Stale
    <3> QED
      BY <1>4, <2>2, <3>1 DEF IInv, Copies
  <2>9. NeverFails'
    <3> SUFFICES ASSUME cur.for = "proof", ~killed PROVE FALSE
      BY <2>2 DEF IInv, NeverFails
    <3>1. PICK i \in DOMAIN batch : batch[i].entry = x
      BY <1>4, <1>5, <1>6 DEF IInv, Lent
    <3> QED
      BY <3>1 DEF IInv, Control
  <2>10. ProofsCurrent'
    BY <2>2 DEF IInv, ProofsCurrent
  <2> QED
    BY <2>3, <2>4, <2>5, <2>6, <2>7, <2>8, <2>9, <2>10 DEF IInv
<1>7. CASE ~ent[x].borrowed
  <2>1. /\ lru' = ToFront(x) /\ map' = Remapped(x, q) /\ cur' = [cur EXCEPT !.entry = x, !.hit = FALSE]
        /\ pc' = "flag" /\ UNCHANGED <<ent, todo, batch, failed, mem, dirty, proof, killed>>
    BY <1>1, <1>3, <1>7 DEF BorrowMiss, fresh
  <2>2. lru' \in Seq(Entries) /\ Len(lru') = n /\ IsInjective(lru') /\ ToSet(lru') = 1 .. n
    BY <1>5, <2>1, ToFrontUsed, ToFrontNew DEF IInv, fresh
  <2>3. cur' \in Borrow /\ cur'.page = q /\ cur'.entry = x /\ cur'.hit = FALSE /\ cur'.for = cur.for
    <3>1. cur \in Borrow /\ x \in 0 .. NumEntries
      BY <1>5, BorrowTypes DEF IInv, Entries
    <3> QED
      BY <1>4, <2>1, <3>1, BorrowUpdates
  <2>4. /\ map' \in [Pages -> 0 .. NumEntries] /\ map'[q] = x
        /\ \A p \in Pages : p # q => map'[p] = IF ~fresh /\ p = ent[x].paddr THEN 0 ELSE map[p]
    <3>1. map' = [p \in Pages |-> IF p = q THEN x
                                  ELSE IF ~fresh /\ p = ent[x].paddr THEN 0 ELSE map[p]]
      <4>1. ~fresh <=> Len(lru) = NumEntries
        BY UsedTypes, Constants DEF IInv, fresh
      <4> QED
        BY <2>1, <4>1 DEF Remapped
    <3>2. x \in 0 .. NumEntries /\ 0 \in 0 .. NumEntries /\ map \in [Pages -> 0 .. NumEntries]
      BY <1>5, Constants DEF IInv, Types, Entries
    <3> QED
      BY <1>4, <3>1, <3>2
  <2>5. \A p \in Pages : p # q /\ map'[p] # 0 => map'[p] = map[p] /\ map[p] # x /\ map[p] <= Len(lru) /\ map[p] \in Entries /\ ent[map[p]].paddr = p
    <3> SUFFICES ASSUME NEW p \in Pages, p # q, map'[p] # 0
                 PROVE  map'[p] = map[p] /\ map[p] # x /\ map[p] <= Len(lru) /\ map[p] \in Entries /\ ent[map[p]].paddr = p
      OBVIOUS
    <3>1. map'[p] = map[p] /\ (fresh \/ p # ent[x].paddr)
      BY <2>4
    <3>2. map[p] <= Len(lru) /\ map[p] \in Entries /\ ent[map[p]].paddr = p
      BY <1>4, <3>1, UsedTypes DEF IInv, Lists, PaddrOf
    <3>3. map[p] # x
      BY <1>5, <3>1, <3>2, UsedTypes DEF IInv
    <3> QED
      BY <3>1, <3>2, <3>3
  <2>6. Types'
    BY <1>5, <2>1, <2>2, <2>3, <2>4 DEF IInv, Types, PCs
  <2>7. Control'
    BY <1>4, <1>5, <1>7, <2>1, <2>2, <2>3, <2>4 DEF IInv, Control, Entries
  <2>8. Lists'
    <3>1. \A e \in Entries : e > Len(lru') => ent'[e] = FreeEntry
      BY <1>5, <2>1, <2>2, UsedTypes, Constants DEF IInv, Lists
    <3>2. PaddrOf(x)' = q /\ \A e : e # x => PaddrOf(e)' = ent[e].paddr
      BY <2>1, <2>3 DEF PaddrOf
    <3>3. \A p \in Pages : map'[p] # 0 => map'[p] <= Len(lru') /\ PaddrOf(map[p])' = p
      <4> SUFFICES ASSUME NEW p \in Pages, map'[p] # 0 PROVE map'[p] <= Len(lru') /\ PaddrOf(map[p])' = p
        OBVIOUS
      <4>1. CASE p = q
        BY <1>5, <2>1, <2>2, <2>3, <2>4, <4>1 DEF PaddrOf
      <4>2. CASE p # q
        BY <1>5, <2>1, <2>2, <2>3, <2>5, <4>2, UsedTypes, Constants DEF IInv, PaddrOf
      <4> QED
        BY <4>1, <4>2
    <3>4. ASSUME NEW e \in 1 .. Len(lru'), killed' => PaddrOf(e)' # 0 PROVE map'[PaddrOf(e)'] = e
      <4>1. CASE e = x
        BY <2>4, <3>2, <4>1
      <4>2. CASE e # x
        <5>1. e \in 1 .. Len(lru) /\ PaddrOf(e)' = ent[e].paddr /\ e \in Entries /\ ent[e].paddr \in Pages
          BY <1>5, <2>2, <3>2, <4>2, UsedTypes, EntryTypes DEF IInv
        <5>2. map[ent[e].paddr] = e
          BY <1>4, <2>1, <3>4, <5>1 DEF IInv, Lists, PaddrOf
        <5>3. ent[e].paddr # q
          BY <1>4, <5>1, <5>2, Constants
        <5>4. fresh \/ ent[e].paddr # ent[x].paddr
          <6> SUFFICES ASSUME ~fresh, ent[e].paddr = ent[x].paddr PROVE FALSE
            OBVIOUS
          <6>1. x \in 1 .. Len(lru)
            BY <1>5
          <6>2. ent[e].paddr = 0 /\ killed
            BY <1>4, <4>2, <5>1, <6>1 DEF IInv, Lists
          <6> QED
            BY <2>1, <3>4, <5>1, <6>2
        <5> QED
          BY <2>4, <5>1, <5>2, <5>3, <5>4
      <4> QED
        BY <4>1, <4>2
    <3>5. ASSUME NEW e \in 1 .. Len(lru'), NEW f \in 1 .. Len(lru'), e # f, ent'[e].paddr = ent'[f].paddr
          PROVE  ent'[e].paddr = 0 /\ (killed' \/ (pc' \in {"flag", "paddr"} /\ cur'.entry \in {e, f}))
      <4>1. CASE e \in 1 .. Len(lru) /\ f \in 1 .. Len(lru)
        BY <1>4, <2>1, <3>5, <4>1 DEF IInv, Lists
      <4>2. CASE ~(e \in 1 .. Len(lru) /\ f \in 1 .. Len(lru))
        <5>1. x \in {e, f} /\ fresh
          BY <1>5, <2>2, <4>2
        <5> QED
          BY <1>5, <2>1, <2>3, <3>5, <5>1, Constants
      <4> QED
        BY <4>1, <4>2
    <3> QED
      BY <2>2, <3>1, <3>3, <3>4, <3>5 DEF Lists
  <2>9. Lent'
    <3>1. \A i \in DOMAIN batch : batch[i].entry # x /\ batch[i].entry \in Entries /\ batch[i].entry <= n
      <4> SUFFICES ASSUME NEW i \in DOMAIN batch
                   PROVE  batch[i].entry # x /\ batch[i].entry \in Entries /\ batch[i].entry <= n
        OBVIOUS
      <4>1. batch[i].entry \in Entries /\ batch[i].entry <= Len(lru) /\ ent[batch[i].entry].borrowed
        BY BatchTypes DEF IInv, Lent
      <4>2. batch[i].entry \in Nat /\ Len(lru) \in Nat
        BY <4>1, UsedTypes, Constants DEF IInv
      <4>3. batch[i].entry <= n
        BY <1>5, <4>1, <4>2
      <4> QED
        BY <1>7, <4>1, <4>3
    <3> QED
      BY <1>4, <2>1, <2>2, <2>3, <3>1 DEF IInv, Lent
  <2>10. Hashes'
    BY <1>4, <2>1 DEF IInv, Hashes, Hashed, Queued
  <2>11. Copies'
    <3>1. Stale' = Stale
      BY <1>4, <2>1, <2>3 DEF Stale
    <3>2. \A e \in 1 .. Len(lru') : ~ent'[e].borrowed /\ ent'[e].paddr \notin Stale' \cup {0} =>
                                      ent'[e].page = mem'[ent'[e].paddr]
      BY <1>5, <2>1, <2>2, <3>1, Constants DEF IInv, Copies
    <3>3. map'[0] # 0 /\ 0 \notin Stale' /\ ~ent'[map'[0]].borrowed /\ ~(pc' = "flag" /\ cur'.entry = map'[0]) =>
            ent'[map'[0]].page = mem'[0]
      BY <1>4, <2>1, <2>3, <2>4, <2>5, <3>1, Constants DEF IInv, Copies
    <3> QED
      BY <2>1, <3>2, <3>3 DEF IInv, Copies
  <2>12. NeverFails' /\ ProofsCurrent'
    BY <2>1 DEF IInv, NeverFails, ProofsCurrent
  <2> QED
    BY <2>6, <2>7, <2>8, <2>9, <2>10, <2>11, <2>12 DEF IInv
<1> QED
  BY <1>6, <1>7

LEMMA SetBorrowedKeeps ==
  ASSUME IInv, SetBorrowed, UNCHANGED killed
  PROVE  IInv'
<1>1. PICK x \in Entries : x = cur.entry /\ x \in 1 .. Len(lru)
  BY UsedTypes DEF IInv, SetBorrowed, Control
<1>2. /\ pc = "flag" /\ pc' = "paddr" /\ ~ent[x].borrowed /\ cur.entry = x
      /\ ent' = [ent EXCEPT ![x].borrowed = TRUE]
      /\ UNCHANGED <<mem, dirty, lru, map, todo, batch, cur, proof, failed, killed>>
  BY <1>1 DEF IInv, Control, SetBorrowed
<1>3. /\ ent' \in [Entries -> Entry] /\ ent'[x] = [ent[x] EXCEPT !.borrowed = TRUE]
      /\ \A e \in Entries : e # x => ent'[e] = ent[e]
  <2>1. ent \in [Entries -> Entry] /\ [ent[x] EXCEPT !.borrowed = TRUE] \in Entry
    BY EntryTypes, EntryUpdates DEF IInv, Types
  <2> QED
    BY <1>2, <2>1
<1>4. /\ ent'[x].borrowed = TRUE /\ ent'[x].page = ent[x].page /\ ent'[x].leaf = ent[x].leaf
      /\ ent'[x].root = ent[x].root /\ ent'[x].queue = ent[x].queue
      /\ \A e \in Entries : ent'[e].paddr = ent[e].paddr
  BY <1>3, EntryTypes DEF IInv, Entry
<1>5. \A i \in DOMAIN batch : batch[i].entry \in Entries /\ batch[i].entry # x
  BY <1>2, BatchTypes DEF IInv, Lent
<1>6. Types'
  BY <1>2, <1>3 DEF IInv, Types, PCs
<1>7. Control'
  BY <1>1, <1>2, <1>4 DEF IInv, Control
<1>8. Lists'
  <2>1. \A e \in Entries : PaddrOf(e)' = PaddrOf(e)
    BY <1>2, <1>4 DEF PaddrOf
  <2>2. \A e \in Entries : e > Len(lru) => ent'[e] = FreeEntry
    BY <1>1, <1>3, UsedTypes, Constants DEF IInv, Lists
  <2>3. \A p \in Pages : map[p] # 0 => map[p] <= Len(lru) /\ PaddrOf(map[p])' = p
    BY <1>2, <1>4, UsedTypes DEF IInv, Lists, PaddrOf
  <2>4. \A e \in 1 .. Len(lru) : (killed => PaddrOf(e)' # 0) => map[PaddrOf(e)'] = e
    BY <2>1, UsedTypes DEF IInv, Lists
  <2>5. \A e, f \in 1 .. Len(lru) : e # f /\ ent'[e].paddr = ent'[f].paddr =>
          ent'[e].paddr = 0 /\ (killed \/ cur.entry \in {e, f})
    BY <1>4, UsedTypes DEF IInv, Lists
  <2> QED
    BY <1>2, <2>2, <2>3, <2>4, <2>5 DEF IInv, Lists
<1>9. Lent'
  BY <1>2, <1>3, <1>4, <1>5 DEF IInv, Lent
<1>10. Hashes'
  <2>1. Hashed(x)'
    BY <1>2, <1>4 DEF IInv, Hashes, Hashed
  <2> QED
    BY <1>2, <1>3, <1>5, <2>1 DEF IInv, Hashes, Hashed, Queued
<1>11. Copies'
  <2>1. Stale' = Stale
    BY <1>2 DEF Stale
  <2>2. \A e \in 1 .. Len(lru) : ~ent'[e].borrowed /\ ent'[e].paddr \notin Stale \cup {0} =>
                                   ent'[e].page = mem[ent'[e].paddr]
    BY <1>3, <1>4, UsedTypes DEF IInv, Copies
  <2>3. map[0] # 0 /\ 0 \notin Stale /\ ~ent'[map[0]].borrowed => ent'[map[0]].page = mem[0]
    BY <1>2, <1>3, <1>4, UsedTypes, Constants DEF IInv, Copies
  <2>4. \A i \in DOMAIN batch : batch[i].stage # "lent" =>
          ent'[batch[i].entry].page = mem[ent'[batch[i].entry].paddr]
    BY <1>3, <1>5 DEF IInv, Copies
  <2> QED
    BY <1>2, <2>1, <2>2, <2>3, <2>4 DEF Copies
<1>12. NeverFails' /\ ProofsCurrent'
  BY <1>2 DEF IInv, NeverFails, ProofsCurrent
<1> QED
  BY <1>6, <1>7, <1>8, <1>9, <1>10, <1>11, <1>12 DEF IInv

LEMMA SetPaddrKeeps ==
  ASSUME IInv, SetPaddr, UNCHANGED killed
  PROVE  IInv'
<1>1. PICK x \in Entries : x = cur.entry /\ x \in 1 .. Len(lru)
  BY UsedTypes DEF IInv, SetPaddr, Control
<1>2. PICK q \in Pages : q = cur.page
  BY BorrowTypes DEF IInv
<1>3. /\ pc = "paddr" /\ pc' = "lent" /\ ent[x].borrowed /\ cur.entry = x /\ cur.page = q
      /\ ent' = [ent EXCEPT ![x].paddr = q] /\ ~cur.hit
      /\ UNCHANGED <<mem, dirty, lru, map, todo, batch, cur, proof, failed, killed>>
  BY <1>1, <1>2 DEF IInv, Control, SetPaddr
<1>4. /\ ent' \in [Entries -> Entry] /\ ent'[x] = [ent[x] EXCEPT !.paddr = q]
      /\ \A e \in Entries : e # x => ent'[e] = ent[e]
  <2>1. ent \in [Entries -> Entry] /\ [ent[x] EXCEPT !.paddr = q] \in Entry
    BY EntryTypes, EntryUpdates DEF IInv, Types
  <2> QED
    BY <1>3, <2>1
<1>5. /\ ent'[x].paddr = q /\ ent'[x].page = ent[x].page /\ ent'[x].leaf = ent[x].leaf
      /\ ent'[x].root = ent[x].root /\ ent'[x].queue = ent[x].queue
      /\ \A e \in Entries : ent'[e].borrowed = ent[e].borrowed
  BY <1>4, EntryTypes DEF IInv, Entry
<1>6. \A i \in DOMAIN batch : batch[i].entry \in Entries /\ batch[i].entry # x
  BY <1>3, BatchTypes DEF IInv, Lent
<1>7. Types'
  BY <1>3, <1>4 DEF IInv, Types, PCs
<1>8. Control'
  BY <1>1, <1>3, <1>5 DEF IInv, Control
<1>9. Lists'
  <2>1. PaddrOf(x) = q /\ \A e \in Entries : e # x => PaddrOf(e) = ent[e].paddr
    BY <1>3 DEF PaddrOf
  <2>2. \A e \in Entries : PaddrOf(e)' = PaddrOf(e) /\ ent'[e].paddr = PaddrOf(e)
    BY <1>3, <1>4, <1>5, <2>1 DEF PaddrOf
  <2>3. \A e \in Entries : e > Len(lru) => ent'[e] = FreeEntry
    BY <1>1, <1>4, UsedTypes, Constants DEF IInv, Lists
  <2>4. \A p \in Pages : map[p] # 0 => map[p] <= Len(lru) /\ PaddrOf(map[p])' = p
    BY <1>3, <2>2, UsedTypes DEF IInv, Lists, PaddrOf
  <2>5. \A e \in 1 .. Len(lru) : (killed => PaddrOf(e)' # 0) => map[PaddrOf(e)'] = e
    BY <2>2, UsedTypes DEF IInv, Lists
  <2>6. ASSUME NEW e \in 1 .. Len(lru), NEW f \in 1 .. Len(lru), e # f, ent'[e].paddr = ent'[f].paddr
        PROVE  ent'[e].paddr = 0 /\ killed
    <3>1. PaddrOf(e) = PaddrOf(f) /\ ent'[e].paddr = PaddrOf(e)
      BY <2>2, <2>6, UsedTypes DEF IInv
    <3>2. ~(killed => PaddrOf(e) # 0)
      BY <2>6, <3>1 DEF IInv, Lists
    <3> QED
      BY <3>1, <3>2
  <2> QED
    BY <1>3, <2>3, <2>4, <2>5, <2>6 DEF IInv, Lists
<1>10. Lent'
  BY <1>3, <1>4, <1>5, <1>6 DEF IInv, Lent
<1>11. Hashes'
  <2>1. Hashed(x)'
    BY <1>3, <1>5 DEF IInv, Hashes, Hashed
  <2>2. \A e \in Entries : ~ent'[e].borrowed => Hashed(e)'
    BY <1>3, <1>4, <1>5 DEF IInv, Hashes, Hashed
  <2> QED
    BY <1>3, <1>4, <1>6, <2>1, <2>2 DEF IInv, Hashes, Hashed, Queued
<1>12. Copies'
  <2>1. Stale' = Stale
    BY <1>3 DEF Stale
  <2>2. \A e \in 1 .. Len(lru) : ~ent'[e].borrowed /\ ent'[e].paddr \notin Stale \cup {0} =>
                                   ent'[e].page = mem[ent'[e].paddr]
    BY <1>3, <1>4, <1>5, UsedTypes DEF IInv, Copies
  <2>3. map[0] # 0 /\ 0 \notin Stale /\ ~ent'[map[0]].borrowed => ent'[map[0]].page = mem[0]
    BY <1>3, <1>4, <1>5, UsedTypes, Constants DEF IInv, Copies
  <2>4. \A i \in DOMAIN batch : batch[i].stage # "lent" =>
          ent'[batch[i].entry].page = mem[ent'[batch[i].entry].paddr]
    BY <1>4, <1>6 DEF IInv, Copies
  <2> QED
    BY <1>3, <2>1, <2>2, <2>3, <2>4 DEF Copies
<1>13. NeverFails' /\ ProofsCurrent'
  BY <1>3 DEF IInv, NeverFails, ProofsCurrent
<1> QED
  BY <1>7, <1>8, <1>9, <1>10, <1>11, <1>12, <1>13 DEF IInv

\* The steps that leave the entries, the lists and the pages alone.
Untouched == UNCHANGED <<mem, ent, lru, map, failed, killed>>

LEMMA UntouchedLists ==
  ASSUME IInv, Untouched, pc \notin {"flag", "paddr"}, pc' \notin {"flag", "paddr"}
  PROVE  Lists'
BY DEF IInv, Lists, PaddrOf, Untouched

LEMMA BeginUpdateKeeps ==
  ASSUME IInv, BeginUpdate, UNCHANGED killed
  PROVE  IInv'
<1>1. /\ pc = "idle" /\ cur = Idle /\ batch = <<>> /\ pc' = "next" /\ proof' = <<>> /\ failed' = FALSE
      /\ todo' = dirty \cup {0}
      /\ UNCHANGED <<mem, dirty, ent, lru, map, batch, cur, killed>>
  BY DEF IInv, Control, BeginUpdate, AlwaysDirty
<1>2. Types'
  BY <1>1, Constants DEF IInv, Types, PCs
<1>3. Control'
  BY <1>1, Constants DEF Control
<1>4. Lists'
  BY <1>1 DEF IInv, Lists, PaddrOf
<1>5. Lent'
  BY <1>1 DEF IInv, Lent
<1>6. Hashes'
  BY <1>1 DEF IInv, Hashes, Hashed
<1>7. Copies'
  <2>1. Stale' = Stale
    BY <1>1, Constants DEF Stale
  <2> QED
    BY <1>1, <2>1 DEF IInv, Copies
<1>8. NeverFails' /\ ProofsCurrent'
  BY <1>1 DEF NeverFails, ProofsCurrent
<1> QED
  BY <1>2, <1>3, <1>4, <1>5, <1>6, <1>7, <1>8 DEF IInv

LEMMA NextPageKeeps ==
  ASSUME IInv, NextPage, UNCHANGED killed
  PROVE  IInv'
<1>1. PICK p \in todo : cur' = [Idle EXCEPT !.page = p, !.for = "update"]
  BY DEF NextPage
<1>2. /\ pc = "next" /\ cur = Idle /\ pc' = "borrow" /\ p \in Pages
      /\ UNCHANGED <<mem, dirty, ent, lru, map, todo, batch, proof, failed, killed>>
  BY <1>1 DEF IInv, Types, Control, NextPage
<1>3. cur' \in Borrow /\ cur'.page = p /\ cur'.for = "update"
  BY <1>1, <1>2, Constants DEF Borrow, Idle
<1>4. Types'
  BY <1>2, <1>3 DEF IInv, Types, PCs
<1>5. Control'
  BY <1>1, <1>2, <1>3 DEF Control
<1>6. Lists'
  BY <1>2, UntouchedLists DEF Untouched
<1>7. Lent'
  BY <1>2 DEF IInv, Lent
<1>8. Hashes'
  <2>1. \A e : (Hashed(e)' <=> Hashed(e)) /\ (Queued(e)' <=> Queued(e))
    BY <1>2 DEF Hashed, Queued
  <2> QED
    BY <1>2, <2>1 DEF IInv, Hashes
<1>9. Copies'
  <2>1. Stale' = Stale
    BY <1>2, <1>3 DEF Stale
  <2> QED
    BY <1>2, <2>1 DEF IInv, Copies
<1>10. NeverFails' /\ ProofsCurrent'
  BY <1>2 DEF IInv, NeverFails, ProofsCurrent
<1> QED
  BY <1>4, <1>5, <1>6, <1>7, <1>8, <1>9, <1>10 DEF IInv

LEMMA LastBatchKeeps ==
  ASSUME IInv, LastBatch, UNCHANGED killed
  PROVE  IInv'
<1>1. /\ pc = "next" /\ cur = Idle /\ pc' = "hash" /\ todo = {}
      /\ UNCHANGED <<mem, dirty, ent, lru, map, todo, batch, cur, proof, failed, killed>>
  BY DEF IInv, Control, LastBatch
<1>2. Types'
  BY <1>1 DEF IInv, Types, PCs
<1>3. Control'
  BY <1>1, Constants DEF Control
<1>4. Lists'
  BY <1>1, UntouchedLists DEF Untouched
<1>5. Lent'
  BY <1>1 DEF IInv, Lent
<1>6. Hashes'
  <2>1. \A e : (Hashed(e)' <=> Hashed(e)) /\ (Queued(e)' <=> Queued(e))
    BY <1>1 DEF Hashed, Queued
  <2> QED
    BY <1>1, <2>1 DEF IInv, Hashes
<1>7. Copies'
  <2>1. Stale' = Stale
    BY <1>1 DEF Stale
  <2> QED
    BY <1>1, <2>1 DEF IInv, Copies
<1>8. NeverFails' /\ ProofsCurrent'
  BY <1>1 DEF IInv, NeverFails, ProofsCurrent
<1> QED
  BY <1>2, <1>3, <1>4, <1>5, <1>6, <1>7, <1>8 DEF IInv

LEMMA EndBatchKeeps ==
  ASSUME IInv, EndBatch, UNCHANGED killed
  PROVE  IInv'
<1>1. /\ pc = "hash" /\ batch = <<>> /\ pc' = (IF todo = {} THEN "idle" ELSE "borrow")
      /\ dirty' = (IF todo = {} THEN {} ELSE dirty)
      /\ IF todo = {} THEN cur = Idle ELSE cur.for = "update"
      /\ UNCHANGED <<mem, ent, lru, map, todo, batch, cur, proof, failed, killed>>
  BY DEF IInv, Control, EndBatch
<1>2. Types'
  BY <1>1 DEF IInv, Types, PCs
<1>3. Control'
  BY <1>1, Constants DEF IInv, Control
<1>4. Lists'
  BY <1>1, UntouchedLists DEF Untouched
<1>5. Lent'
  BY <1>1 DEF IInv, Lent
<1>6. Hashes'
  BY <1>1 DEF IInv, Hashes, Hashed
<1>7. Copies'
  <2>1. Stale' = Stale
    BY <1>1, Constants DEF Stale
  <2> QED
    BY <1>1, <2>1 DEF IInv, Copies
<1>8. NeverFails' /\ ProofsCurrent'
  BY <1>1 DEF IInv, NeverFails, ProofsCurrent
<1> QED
  BY <1>2, <1>3, <1>4, <1>5, <1>6, <1>7, <1>8 DEF IInv

LEMMA BeginProofKeeps ==
  ASSUME IInv, NEW p \in Pages, BeginProof(p), UNCHANGED killed
  PROVE  IInv'
<1>1. /\ pc = "idle" /\ cur = Idle /\ batch = <<>> /\ todo = {} /\ dirty = {}
      /\ pc' = "borrow" /\ proof' = <<>> /\ cur' = [Idle EXCEPT !.page = p, !.for = "proof"]
      /\ UNCHANGED <<mem, dirty, ent, lru, map, todo, batch, failed, killed>>
  BY DEF IInv, Control, BeginProof
<1>2. cur' \in Borrow /\ cur'.page = p /\ cur'.for = "proof"
  BY <1>1, Constants DEF Borrow, Idle
<1>3. Types'
  BY <1>1, <1>2 DEF IInv, Types, PCs
<1>4. Control'
  BY <1>1, <1>2 DEF Control
<1>5. Lists'
  BY <1>1, UntouchedLists DEF Untouched
<1>6. Lent'
  BY <1>1 DEF IInv, Lent
<1>7. Hashes'
  BY <1>1 DEF IInv, Hashes, Hashed
<1>8. Copies'
  <2>1. Stale' = Stale
    BY <1>1, <1>2, Constants DEF Stale
  <2> QED
    BY <1>1, <2>1 DEF IInv, Copies
<1>9. NeverFails' /\ ProofsCurrent'
  BY <1>1 DEF IInv, NeverFails, ProofsCurrent
<1> QED
  BY <1>3, <1>4, <1>5, <1>6, <1>7, <1>8, <1>9 DEF IInv

LEMMA AddToBatchKeeps ==
  ASSUME IInv, AddToBatch, UNCHANGED killed
  PROVE  IInv'
<1>1. PICK x \in Entries : x = cur.entry /\ x \in 1 .. Len(lru)
  BY UsedTypes DEF IInv, AddToBatch, Control
<1>2. PICK q \in Pages : q = cur.page
  BY BorrowTypes DEF IInv
<1>3. PICK n \in Nat : n = Len(batch)
  BY DEF IInv, Types
<1>4. /\ pc = "lent" /\ pc' = "next" /\ ent[x].borrowed /\ ent[x].paddr = q /\ Hashed(x)
      /\ cur.entry = x /\ cur.page = q /\ cur.for = "update" /\ cur' = Idle
      /\ todo' = todo \ {q} /\ batch' = Append(batch, [entry |-> x, stage |-> "lent"])
      /\ UNCHANGED <<mem, dirty, ent, lru, map, proof, failed, killed>>
  BY <1>1, <1>2 DEF IInv, Control, Hashes, AddToBatch
<1>5. /\ batch' \in Seq([entry : Entries, stage : {"lent", "queued", "hashed"}])
      /\ DOMAIN batch = 1 .. n /\ DOMAIN batch' = 1 .. n + 1
      /\ batch'[n + 1] = [entry |-> x, stage |-> "lent"]
      /\ \A i \in 1 .. n : batch'[i] = batch[i]
  <2>1. [entry |-> x, stage |-> "lent"] \in [entry : Entries, stage : {"lent", "queued", "hashed"}]
    OBVIOUS
  <2> QED
    BY <1>3, <1>4, <2>1, AppendProperties DEF IInv, Types
<1>6. /\ batch'[n + 1].entry = x /\ batch'[n + 1].stage = "lent"
      /\ \A i \in 1 .. n + 1 : i \in 1 .. n \/ i = n + 1
  BY <1>5
<1>7. \A i \in 1 .. n : batch[i].entry # x /\ batch[i].entry \in Entries
  BY <1>4, <1>5, BatchTypes DEF IInv, Lent
<1>8. Types'
  BY <1>4, <1>5, Constants DEF IInv, Types, PCs
<1>9. Control'
  BY <1>4, Constants DEF Control
<1>10. Lists'
  BY <1>4, UntouchedLists DEF Untouched
<1>11. Lent'
  <2>1. \A i \in 1 .. n + 1 : batch'[i].entry <= Len(lru) /\ ent[batch'[i].entry].borrowed
                              /\ ent[batch'[i].entry].paddr \notin todo \ {q}
    BY <1>1, <1>4, <1>5, <1>6 DEF IInv, Lent
  <2>2. ASSUME NEW i \in 1 .. n + 1, NEW j \in 1 .. n + 1, batch'[i].entry = batch'[j].entry
        PROVE  i = j
    BY <1>5, <1>6, <1>7, <2>2 DEF IInv, Lent
  <2>3. ~killed => \A e \in Entries : ent[e].borrowed => \E i \in 1 .. n + 1 : batch'[i].entry = e
    <3> SUFFICES ASSUME ~killed, NEW e \in Entries, ent[e].borrowed, e # x
                 PROVE  \E i \in 1 .. n + 1 : batch'[i].entry = e
      BY <1>6
    <3>1. PICK i \in 1 .. n : batch[i].entry = e
      BY <1>4, <1>5 DEF IInv, Lent
    <3> QED
      BY <1>5, <3>1
  <2> QED
    BY <1>4, <1>5, <2>1, <2>2, <2>3 DEF Lent
<1>12. Hashes'
  <2>1. \A e : (Hashed(e)' <=> Hashed(e)) /\ (Queued(e)' <=> Queued(e))
    BY <1>4 DEF Hashed, Queued
  <2>2. \A i \in 1 .. n + 1 : IF batch'[i].stage = "queued" THEN Queued(batch'[i].entry)
                                                           ELSE Hashed(batch'[i].entry)
    BY <1>4, <1>5, <1>6 DEF IInv, Hashes
  <2>3. \A i \in 1 .. n + 1 : IF batch'[i].stage = "queued" THEN Queued(batch[i].entry)'
                                                           ELSE Hashed(batch[i].entry)'
    BY <1>4, <2>2 DEF Hashed, Queued
  <2> QED
    BY <1>4, <1>5, <2>1, <2>3 DEF IInv, Hashes
<1>13. Copies'
  <2>1. Stale' = Stale \ {q}
    BY <1>4 DEF Stale
  <2>2. \A e \in 1 .. Len(lru) : ~ent[e].borrowed /\ ent[e].paddr \notin Stale' \cup {0} =>
                                   ent[e].page = mem[ent[e].paddr]
    <3> SUFFICES ASSUME NEW e \in 1 .. Len(lru), ~ent[e].borrowed, ent[e].paddr = q, q # 0 PROVE FALSE
      BY <2>1 DEF IInv, Copies
    <3>1. e # x /\ pc \notin {"flag", "paddr"}
      BY <1>4
    <3> QED
      BY <1>1, <1>4, <3>1 DEF IInv, Lists
  <2>3. map[0] # 0 /\ 0 \notin Stale' /\ ~ent[map[0]].borrowed => ent[map[0]].page = mem[0]
    <3> SUFFICES ASSUME map[0] # 0, ~ent[map[0]].borrowed, q = 0 PROVE FALSE
      BY <1>4, <2>1 DEF IInv, Copies
    <3>1. map[q] = x
      BY <1>4 DEF IInv, Control
    <3> QED
      BY <1>4, <3>1
  <2>4. \A i \in 1 .. n + 1 : batch'[i].stage # "lent" =>
          ent[batch'[i].entry].page = mem[ent[batch'[i].entry].paddr]
    BY <1>5, <1>6 DEF IInv, Copies
  <2> QED
    BY <1>4, <1>5, <2>2, <2>3, <2>4 DEF Copies
<1>14. NeverFails' /\ ProofsCurrent'
  BY <1>4 DEF IInv, NeverFails, ProofsCurrent
<1> QED
  BY <1>8, <1>9, <1>10, <1>11, <1>12, <1>13, <1>14 DEF IInv

LEMMA RunOutKeeps ==
  ASSUME IInv, RunOut, UNCHANGED killed
  PROVE  IInv'
<1>1. pc = "none" /\ cur.for = "update" /\ todo # {}
  BY DEF IInv, Control, RunOut
<1>2. CASE batch # <<>>
  <2>1. /\ pc' = "hash"
        /\ UNCHANGED <<ent, lru, map, cur, todo, batch, failed, mem, dirty, proof, killed>>
    BY <1>2 DEF RunOut
  <2>2. Types'
    BY <2>1 DEF IInv, Types, PCs
  <2>3. Control'
    BY <1>1, <2>1 DEF IInv, Control
  <2>4. Lists'
    BY <1>1, <2>1, UntouchedLists DEF Untouched
  <2>5. Lent'
    BY <1>1, <2>1 DEF IInv, Lent
  <2>6. Hashes'
    <3>1. \A e : (Hashed(e)' <=> Hashed(e)) /\ (Queued(e)' <=> Queued(e))
      BY <2>1 DEF Hashed, Queued
    <3> QED
      BY <2>1, <3>1 DEF IInv, Hashes
  <2>7. Copies'
    <3>1. Stale' = Stale
      BY <1>1, <2>1 DEF Stale
    <3> QED
      BY <1>1, <2>1, <3>1 DEF IInv, Copies
  <2>8. NeverFails' /\ ProofsCurrent'
    BY <2>1 DEF IInv, NeverFails, ProofsCurrent
  <2> QED
    BY <2>2, <2>3, <2>4, <2>5, <2>6, <2>7, <2>8 DEF IInv
<1>3. CASE batch = <<>>
  <2>1. /\ pc' = "idle" /\ cur' = Idle /\ todo' = {} /\ batch' = <<>> /\ failed' = TRUE
        /\ ent' = [e \in Entries |-> FreeEntry] /\ lru' = <<>> /\ map' = [p \in Pages |-> 0]
        /\ UNCHANGED <<mem, dirty, proof, killed>>
    BY <1>3 DEF RunOut, Throw
  <2>2. killed
    <3> SUFFICES ASSUME ~killed PROVE FALSE
      BY DEF IInv, Types
    <3>1. PICK e \in Entries : ent[e].borrowed
      BY <1>1 DEF IInv, Control
    <3>2. \E i \in DOMAIN batch : batch[i].entry = e
      BY <1>1, <3>1 DEF IInv, Lent
    <3> QED
      BY <1>3, <3>2
  <2>3. /\ ent' \in [Entries -> Entry] /\ lru' \in Seq(Entries) /\ Len(lru') = 0
        /\ map' \in [Pages -> 0 .. NumEntries] /\ \A e \in Entries : ent'[e] = FreeEntry
        /\ \A p \in Pages : map'[p] = 0
    BY <2>1, Constants
  <2>4. Types'
    BY <2>1, <2>3, Constants DEF IInv, Types, PCs
  <2>5. Control'
    BY <2>1, Constants DEF Control
  <2>6. Lists'
    <3>1. IsInjective(lru') /\ ToSet(lru') = {} /\ 1 .. Len(lru') = {}
      BY <2>1 DEF IsInjective, ToSet
    <3> QED
      BY <2>3, <3>1 DEF Lists
  <2>7. Lent'
    BY <2>1, <2>2 DEF Lent
  <2>8. Hashes'
    BY <2>1, <2>3, Constants DEF Hashes, Hashed
  <2>9. Copies'
    <3>1. 1 .. Len(lru') = {} /\ map'[0] = 0
      BY <2>3, Constants
    <3> QED
      BY <2>1, <3>1 DEF Copies
  <2>10. NeverFails' /\ ProofsCurrent'
    BY <2>1, <2>2 DEF IInv, NeverFails, ProofsCurrent
  <2> QED
    BY <2>4, <2>5, <2>6, <2>7, <2>8, <2>9, <2>10 DEF IInv
<1> QED
  BY <1>2, <1>3

\* Enqueueing an entry whose hashes are those of its copy makes it a copy of the
\* page whose hashes are right but for the words in its queue.
LEMMA EnqueuedEntry ==
  ASSUME Types, NEW e \in Entries, Hashed(e), NEW r, r = Enqueued(e)
  PROVE  /\ r \in Entry /\ r.paddr = ent[e].paddr /\ r.borrowed = ent[e].borrowed
         /\ r.page = mem[ent[e].paddr]
         /\ \A w \in Words \ r.queue : r.leaf[w] = r.page[w]
         /\ r.queue = {} => r.root = r.leaf
<1> DEFINE m == mem[ent[e].paddr]
           s == ent[e]
<1>1. m \in [Words -> Values] /\ s \in Entry /\ PristinePage \in [Words -> Values]
  BY EntryTypes, Constants DEF Types
<1>2. s.leaf = s.page /\ s.root = s.leaf /\ s.queue = {} /\ s.queue \subseteq Words
  BY DEF Hashed
<1>3. CASE m = PristinePage
  <2>1. r = [s EXCEPT !.page = PristinePage, !.leaf = PristinePage, !.root = PristinePage]
    BY <1>3 DEF Enqueued
  <2> HIDE DEF s, m
  <2>2. /\ r \in Entry /\ r.paddr = s.paddr /\ r.borrowed = s.borrowed /\ r.page = PristinePage
        /\ r.leaf = PristinePage /\ r.root = PristinePage
    BY <1>1, <2>1 DEF Entry
  <2> QED
    BY <1>3, <2>2 DEF s, m
<1>4. CASE m # PristinePage
  <2> DEFINE q == {w \in Words : m[w] # s.page[w]}
  <2>1. r = [s EXCEPT !.page = m, !.queue = q]
    BY <1>4 DEF Enqueued
  <2>2. q \subseteq Words /\ \A w \in Words \ q : m[w] = s.page[w]
    OBVIOUS
  <2> HIDE DEF s, m, q
  <2>3. /\ r \in Entry /\ r.paddr = s.paddr /\ r.borrowed = s.borrowed /\ r.page = m
        /\ r.leaf = s.leaf /\ r.root = s.root /\ r.queue = q
    BY <1>1, <2>1, <2>2 DEF Entry
  <2>4. /\ \A w \in Words \ r.queue : r.leaf[w] = r.page[w]
        /\ r.queue = {} => r.root = r.leaf
    BY <1>2, <2>2, <2>3
  <2> QED
    BY <2>3, <2>4 DEF s, m
<1> QED
  BY <1>3, <1>4

\* Flushing it makes all its hashes those of its copy.
LEMMA FlushedEntry ==
  ASSUME Types, NEW e \in Entries, Queued(e), NEW r, r = Flushed(e)
  PROVE  /\ r \in Entry /\ r.paddr = ent[e].paddr /\ r.borrowed = ent[e].borrowed
         /\ r.page = ent[e].page /\ r.leaf = r.page /\ r.root = r.leaf /\ r.queue = {}
<1> DEFINE s == ent[e]
           leaves == [w \in Words |-> IF w \in s.queue THEN s.page[w] ELSE s.leaf[w]]
           root == IF s.queue = {} THEN s.root ELSE leaves
<1>1. /\ s \in Entry /\ s.page \in [Words -> Values] /\ s.leaf \in [Words -> Values]
      /\ s.root \in [Words -> Values] /\ s.queue \subseteq Words
  BY EntryTypes
<1>2. \A w \in Words \ s.queue : s.leaf[w] = s.page[w]
  BY DEF Queued
<1>3. s.queue = {} => s.root = s.leaf
  BY DEF Queued
<1>4. r = [s EXCEPT !.leaf = leaves, !.queue = {}, !.root = root]
  BY DEF Flushed
<1> HIDE DEF s
<1>5. leaves = s.page
  <2>1. \A w \in Words : leaves[w] = s.page[w]
    BY <1>2
  <2> QED
    BY <1>1, <2>1
<1>6. s.queue = {} => leaves = s.leaf
  BY <1>1
<1>7. root = leaves
  BY <1>3, <1>6
<1> HIDE DEF leaves, root
<1>8. r = [s EXCEPT !.leaf = s.page, !.queue = {}, !.root = s.page]
  BY <1>4, <1>5, <1>7
<1>9. /\ r \in Entry /\ r.paddr = s.paddr /\ r.borrowed = s.borrowed
      /\ r.page = s.page /\ r.leaf = s.page /\ r.root = s.page /\ r.queue = {}
  BY <1>1, <1>8 DEF Entry
<1> QED
  BY <1>9 DEF s

\* The lists do not depend on what is done to an entry in use, its address kept.
LEMMA RehashedLists ==
  ASSUME IInv, NEW x \in 1 .. Len(lru), \A e \in Entries : e # x => ent'[e] = ent[e],
         ent'[x].paddr = ent[x].paddr,
         pc \notin {"flag", "paddr"}, pc' \notin {"flag", "paddr"}, UNCHANGED <<lru, map, killed>>
  PROVE  Lists'
<1>1. \A e \in Entries : PaddrOf(e) = ent[e].paddr /\ PaddrOf(e)' = ent[e].paddr /\ ent'[e].paddr = ent[e].paddr
  BY DEF PaddrOf
<1>2. \A e \in Entries : e > Len(lru) => ent'[e] = FreeEntry
  BY UsedTypes, Constants DEF IInv, Lists
<1>3. \A p \in Pages : map[p] # 0 => map[p] <= Len(lru) /\ PaddrOf(map[p])' = p
  BY UsedTypes, <1>1 DEF IInv, Lists, PaddrOf
<1>4. \A e \in 1 .. Len(lru) : (killed => PaddrOf(e)' # 0) => map[PaddrOf(e)'] = e
  BY <1>1, UsedTypes DEF IInv, Lists
<1>5. \A e, f \in 1 .. Len(lru) : e # f /\ ent'[e].paddr = ent'[f].paddr => ent'[e].paddr = 0 /\ killed
  BY <1>1, UsedTypes DEF IInv, Lists
<1> QED
  BY <1>2, <1>3, <1>4, <1>5 DEF IInv, Lists

LEMMA HashEntryKeeps ==
  ASSUME IInv, NEW i \in DOMAIN batch, HashEntry(i), UNCHANGED killed
  PROVE  IInv'
<1> DEFINE B == [entry : Entries, stage : {"lent", "queued", "hashed"}]
<1>1. PICK x \in Entries : x = batch[i].entry /\ x \in 1 .. Len(lru) /\ ent[x].borrowed
  <2>1. batch[i].entry \in Entries /\ batch[i].entry <= Len(lru) /\ ent[batch[i].entry].borrowed
    BY BatchTypes DEF IInv, Lent
  <2> QED
    BY <2>1, UsedTypes DEF IInv, Entries
<1>2. PICK r, next :
        /\ \/ batch[i].stage = "lent" /\ r = Enqueued(x) /\ next = "queued"
           \/ batch[i].stage = "queued" /\ r = Flushed(x) /\ next = "hashed"
        /\ ent' = [ent EXCEPT ![x] = r] /\ batch' = [batch EXCEPT ![i].stage = next]
  BY <1>1 DEF HashEntry
<1>3. /\ pc = "hash" /\ cur.for # "proof"
      /\ UNCHANGED <<mem, dirty, lru, map, todo, pc, cur, proof, failed, killed>>
  BY Constants DEF IInv, Control, HashEntry
<1>4. /\ r \in Entry /\ r.paddr = ent[x].paddr /\ r.borrowed = ent[x].borrowed
      /\ r.page = mem[ent[x].paddr]
      /\ next = "queued" => /\ \A w \in Words \ r.queue : r.leaf[w] = r.page[w]
                            /\ r.queue = {} => r.root = r.leaf
      /\ next = "hashed" => r.leaf = r.page /\ r.root = r.leaf /\ r.queue = {}
      /\ next \in {"queued", "hashed"}
  <2>1. CASE batch[i].stage = "lent"
    <3>1. Hashed(x)
      BY <1>1, <2>1 DEF IInv, Hashes
    <3>2. r = Enqueued(x) /\ next = "queued"
      BY <1>2, <2>1
    <3> QED
      BY <3>1, <3>2, EnqueuedEntry DEF IInv
  <2>2. CASE batch[i].stage = "queued"
    <3>1. Queued(x) /\ ent[x].page = mem[ent[x].paddr]
      BY <1>1, <2>2 DEF IInv, Hashes, Copies
    <3>2. r = Flushed(x) /\ next = "hashed"
      BY <1>2, <2>2
    <3> QED
      BY <3>1, <3>2, FlushedEntry DEF IInv
  <2> QED
    BY <1>2, <2>1, <2>2
<1>5. /\ ent' \in [Entries -> Entry] /\ ent'[x] = r /\ \A e \in Entries : e # x => ent'[e] = ent[e]
      /\ \A e \in Entries : ent'[e].paddr = ent[e].paddr /\ ent'[e].borrowed = ent[e].borrowed
  BY <1>2, <1>4 DEF IInv, Types
<1>6. /\ batch' \in Seq(B) /\ DOMAIN batch' = DOMAIN batch
      /\ \A j \in DOMAIN batch : batch'[j].entry = batch[j].entry
      /\ batch'[i].stage = next /\ \A j \in DOMAIN batch : j # i => batch'[j].stage = batch[j].stage
  <2>1. batch \in Seq(B) /\ i \in 1 .. Len(batch) /\ [batch[i] EXCEPT !.stage = next] \in B
    <3>1. batch \in Seq(B) /\ i \in 1 .. Len(batch)
      BY DEF IInv, Types
    <3>2. batch[i] \in B /\ next \in {"lent", "queued", "hashed"}
      BY <1>4, BatchTypes DEF IInv
    <3> QED
      BY <3>1, <3>2
  <2>2. /\ DOMAIN batch' = DOMAIN batch /\ batch'[i] = [batch[i] EXCEPT !.stage = next]
        /\ \A j \in DOMAIN batch : j # i => batch'[j] = batch[j]
    BY <1>2
  <2>3. batch'[i].entry = batch[i].entry /\ batch'[i].stage = next
    BY <2>2, BatchTypes DEF IInv
  <2>4. batch' = [batch EXCEPT ![i] = [batch[i] EXCEPT !.stage = next]]
    BY <1>2
  <2>5. batch' \in Seq(B)
    BY <2>1, <2>4, ExceptSeq
  <2> QED
    BY <2>2, <2>3, <2>5
<1>7. \A j \in DOMAIN batch : batch[j].entry \in Entries /\ (j # i => batch[j].entry # x)
  BY <1>1, BatchTypes DEF IInv, Lent
<1>8. Types'
  BY <1>3, <1>5, <1>6 DEF IInv, Types
<1>9. Control'
  BY <1>3, Constants DEF IInv, Control
<1>10. Lists'
  BY <1>1, <1>3, <1>5, RehashedLists
<1>11. Lent'
  <2>1. \A j \in DOMAIN batch' : /\ batch'[j].entry <= Len(lru) /\ ent'[batch'[j].entry].borrowed
                                  /\ ent'[batch'[j].entry].paddr \notin todo
    BY <1>5, <1>6, <1>7 DEF IInv, Lent
  <2>2. \A j, k \in DOMAIN batch' : batch'[j].entry = batch'[k].entry => j = k
    BY <1>6 DEF IInv, Lent
  <2>3. ~killed => \A e \in Entries : ent'[e].borrowed => \E j \in DOMAIN batch' : batch'[j].entry = e
    BY <1>3, <1>5, <1>6 DEF IInv, Lent
  <2> QED
    BY <1>3, <2>1, <2>2, <2>3 DEF Lent
<1>12. Hashes'
  <2>1. \A e \in Entries : ~ent'[e].borrowed => Hashed(e)'
    BY <1>1, <1>5 DEF IInv, Hashes, Hashed
  <2>2. ASSUME NEW j \in DOMAIN batch'
        PROVE  IF batch'[j].stage = "queued" THEN Queued(batch[j].entry)' ELSE Hashed(batch[j].entry)'
    <3>1. CASE j = i
      <4>1. batch'[j].entry = x /\ batch'[j].stage = next
        BY <1>1, <1>6, <3>1
      <4>2. CASE next = "queued"
        BY <1>4, <1>5, <4>1, <4>2 DEF Queued
      <4>3. CASE next = "hashed"
        BY <1>4, <1>5, <4>1, <4>3 DEF Hashed
      <4> QED
        BY <1>4, <4>2, <4>3
    <3>2. CASE j # i
      <4>1. /\ j \in DOMAIN batch /\ batch'[j].entry = batch[j].entry /\ batch'[j].stage = batch[j].stage
            /\ ent'[batch[j].entry] = ent[batch[j].entry]
        BY <1>5, <1>6, <1>7, <2>2, <3>2
      <4> QED
        BY <4>1 DEF IInv, Hashes, Hashed, Queued
    <3> QED
      BY <3>1, <3>2
  <2> QED
    BY <1>3, <2>1, <2>2 DEF Hashes
<1>13. Copies'
  <2>1. Stale' = Stale
    BY <1>3 DEF Stale
  <2>2. \A e \in 1 .. Len(lru) : ~ent'[e].borrowed /\ ent'[e].paddr \notin Stale \cup {0} =>
                                   ent'[e].page = mem[ent'[e].paddr]
    BY <1>1, <1>5, UsedTypes DEF IInv, Copies
  <2>3. map[0] # 0 /\ 0 \notin Stale /\ ~ent'[map[0]].borrowed => ent'[map[0]].page = mem[0]
    BY <1>1, <1>3, <1>5, UsedTypes, Constants DEF IInv, Copies
  <2>4. \A j \in DOMAIN batch : batch'[j].stage # "lent" =>
          ent'[batch'[j].entry].page = mem[ent'[batch'[j].entry].paddr]
    BY <1>1, <1>4, <1>5, <1>6, <1>7 DEF IInv, Copies
  <2> QED
    BY <1>3, <1>6, <2>1, <2>2, <2>3, <2>4 DEF Copies
<1>14. NeverFails' /\ ProofsCurrent'
  BY <1>3 DEF IInv, NeverFails, ProofsCurrent
<1> QED
  BY <1>8, <1>9, <1>10, <1>11, <1>12, <1>13, <1>14 DEF IInv

LEMMA ReturnEntryKeeps ==
  ASSUME IInv, ReturnEntry, UNCHANGED killed
  PROVE  IInv'
<1> DEFINE B == [entry : Entries, stage : {"lent", "queued", "hashed"}]
<1>1. PICK n \in Nat : Len(batch) = n + 1 /\ DOMAIN batch = 1 .. n + 1
  <2>1. Len(batch) \in Nat /\ Len(batch) # 0 /\ DOMAIN batch = 1 .. Len(batch)
    BY DEF IInv, Types, ReturnEntry
  <2>2. Len(batch) - 1 \in Nat /\ Len(batch) = (Len(batch) - 1) + 1
    BY <2>1
  <2> QED
    BY <2>1, <2>2
<1>2. /\ pc = "hash" /\ Joined /\ cur.for # "proof"
      /\ ent' = Returned(batch[1].entry) /\ batch' = Tail(batch)
      /\ UNCHANGED <<mem, dirty, lru, map, todo, pc, cur, proof, failed, killed>>
  BY <1>1, Constants DEF IInv, Types, Control, ReturnEntry
<1>3. /\ batch' \in Seq(B) /\ DOMAIN batch' = 1 .. n /\ \A j \in 1 .. n : batch'[j] = batch[j + 1]
      /\ \A j \in 1 .. n : j + 1 \in 1 .. n + 1 /\ j + 1 # 1
      /\ \A j \in 1 .. n + 1 : j # 1 => j - 1 \in 1 .. n /\ (j - 1) + 1 = j
  <2>1. batch \in Seq(B) /\ batch # <<>>
    BY DEF IInv, Types, ReturnEntry
  <2>2. /\ Tail(batch) \in Seq(B) /\ Len(Tail(batch)) = Len(batch) - 1
        /\ \A j \in 1 .. Len(Tail(batch)) : Tail(batch)[j] = batch[j + 1]
    BY <2>1, HeadTailProperties
  <2>3. Len(batch') = n
    BY <1>1, <1>2, <2>2
  <2>4. DOMAIN batch' = 1 .. n
    <3>1. batch' \in Seq(B)
      BY <1>2, <2>2
    <3> QED
      BY <2>3, <3>1
  <2> QED
    BY <1>2, <2>2, <2>3, <2>4
<1>4. 1 \in DOMAIN batch
  BY <1>1
<1>5. PICK x \in Entries : x = batch[1].entry /\ x \in 1 .. Len(lru) /\ ent[x].borrowed
  <2>1. batch[1].entry \in Entries /\ batch[1].entry <= Len(lru) /\ ent[batch[1].entry].borrowed
    BY <1>4, BatchTypes DEF IInv, Lent
  <2> QED
    BY <2>1, UsedTypes DEF IInv, Entries
<1>6. Hashed(x) /\ ent[x].page = mem[ent[x].paddr]
  BY <1>2, <1>4, <1>5 DEF IInv, Hashes, Copies, Joined
<1>7. /\ ent' \in [Entries -> Entry] /\ ent'[x] = [ent[x] EXCEPT !.borrowed = FALSE]
      /\ \A e \in Entries : e # x => ent'[e] = ent[e]
  <2>1. ent \in [Entries -> Entry] /\ [ent[x] EXCEPT !.borrowed = FALSE] \in Entry
    BY EntryTypes, EntryUpdates DEF IInv, Types
  <2> QED
    BY <1>2, <1>5, <2>1 DEF Returned
<1>8. /\ ent'[x].borrowed = FALSE /\ ent'[x].page = ent[x].page /\ ent'[x].leaf = ent[x].leaf
      /\ ent'[x].root = ent[x].root /\ ent'[x].queue = ent[x].queue
      /\ \A e \in Entries : ent'[e].paddr = ent[e].paddr
  BY <1>7, EntryTypes DEF IInv, Entry
<1>9. \A j \in 1 .. n : batch'[j].entry \in Entries /\ batch'[j].entry # x
  <2> SUFFICES ASSUME NEW j \in 1 .. n PROVE batch'[j].entry \in Entries /\ batch'[j].entry # x
    OBVIOUS
  <2>1. batch'[j] = batch[j + 1] /\ j + 1 \in DOMAIN batch /\ j + 1 # 1
    BY <1>1, <1>3
  <2> QED
    BY <1>4, <1>5, <2>1, BatchTypes DEF IInv, Lent
<1>10. Types'
  BY <1>2, <1>3, <1>7 DEF IInv, Types
<1>11. Control'
  BY <1>2, Constants DEF IInv, Control
<1>12. Lists'
  BY <1>2, <1>5, <1>7, <1>8, RehashedLists
<1>13. Lent'
  <2>1. \A j \in 1 .. n : batch'[j].entry <= Len(lru) /\ ent'[batch'[j].entry].borrowed
                          /\ ent'[batch'[j].entry].paddr \notin todo
    <3> SUFFICES ASSUME NEW j \in 1 .. n
                 PROVE  batch'[j].entry <= Len(lru) /\ ent'[batch'[j].entry].borrowed
                        /\ ent'[batch'[j].entry].paddr \notin todo
      OBVIOUS
    <3>1. batch'[j] = batch[j + 1] /\ j + 1 \in DOMAIN batch
      BY <1>1, <1>3
    <3>2. ent'[batch'[j].entry] = ent[batch'[j].entry]
      BY <1>7, <1>9
    <3> QED
      BY <3>1, <3>2 DEF IInv, Lent
  <2>2. ASSUME NEW j \in 1 .. n, NEW k \in 1 .. n, batch'[j].entry = batch'[k].entry PROVE j = k
    <3>1. /\ j + 1 \in DOMAIN batch /\ k + 1 \in DOMAIN batch
          /\ batch[j + 1].entry = batch[k + 1].entry
      BY <1>1, <1>3, <2>2
    <3>2. j + 1 = k + 1
      BY <3>1 DEF IInv, Lent
    <3> QED
      BY <3>2
  <2>3. ~killed => \A e \in Entries : ent'[e].borrowed => \E j \in 1 .. n : batch'[j].entry = e
    <3> SUFFICES ASSUME ~killed, NEW e \in Entries, ent'[e].borrowed
                 PROVE  \E j \in 1 .. n : batch'[j].entry = e
      OBVIOUS
    <3>1. e # x /\ ent[e].borrowed
      BY <1>7, <1>8
    <3>2. PICK k \in 1 .. n + 1 : batch[k].entry = e
      BY <1>1, <1>2, <3>1 DEF IInv, Lent
    <3>3. k # 1
      BY <1>5, <3>1, <3>2
    <3>4. k - 1 \in 1 .. n /\ (k - 1) + 1 = k
      BY <1>3, <3>3
    <3>5. batch'[k - 1].entry = e
      BY <1>3, <3>2, <3>4
    <3> QED
      BY <3>4, <3>5
  <2>4. DOMAIN batch' = 1 .. n /\ pc' = "hash" /\ lru' = lru /\ todo' = todo /\ killed' = killed
    BY <1>2, <1>3
  <2> QED
    BY <2>1, <2>2, <2>3, <2>4 DEF Lent
<1>14. Hashes'
  <2>1. \A e \in Entries : ~ent'[e].borrowed => Hashed(e)'
    BY <1>6, <1>7, <1>8 DEF IInv, Hashes, Hashed
  <2>2. ASSUME NEW j \in 1 .. n
        PROVE  IF batch'[j].stage = "queued" THEN Queued(batch[j].entry)' ELSE Hashed(batch[j].entry)'
    <3>1. batch'[j] = batch[j + 1] /\ j + 1 \in DOMAIN batch
      BY <1>1, <1>3
    <3>2. ent'[batch'[j].entry] = ent[batch'[j].entry]
      BY <1>7, <1>9
    <3> QED
      BY <3>1, <3>2 DEF IInv, Hashes, Hashed, Queued
  <2> QED
    BY <1>2, <1>3, <2>1, <2>2 DEF Hashes
<1>15. Copies'
  <2>1. Stale' = Stale
    BY <1>2 DEF Stale
  <2>2. \A e \in 1 .. Len(lru) : ~ent'[e].borrowed /\ ent'[e].paddr \notin Stale \cup {0} =>
                                   ent'[e].page = mem[ent'[e].paddr]
    BY <1>6, <1>7, <1>8, UsedTypes DEF IInv, Copies
  <2>3. map[0] # 0 /\ 0 \notin Stale /\ ~ent'[map[0]].borrowed => ent'[map[0]].page = mem[0]
    <3>1. CASE map[0] = x
      <4>1. ent[x].paddr = 0
        BY <1>2, <3>1, Constants DEF IInv, Lists, PaddrOf
      <4> QED
        BY <1>6, <1>8, <3>1, <4>1
    <3>2. CASE map[0] # x
      BY <1>2, <1>7, <3>2, UsedTypes, Constants DEF IInv, Copies
    <3> QED
      BY <3>1, <3>2
  <2>4. \A j \in 1 .. n : batch'[j].stage # "lent" =>
          ent'[batch'[j].entry].page = mem[ent'[batch'[j].entry].paddr]
    <3> SUFFICES ASSUME NEW j \in 1 .. n, batch'[j].stage # "lent"
                 PROVE  ent'[batch'[j].entry].page = mem[ent'[batch'[j].entry].paddr]
      OBVIOUS
    <3>1. batch'[j] = batch[j + 1] /\ j + 1 \in DOMAIN batch
      BY <1>1, <1>3
    <3>2. ent'[batch'[j].entry] = ent[batch'[j].entry]
      BY <1>7, <1>9
    <3> QED
      BY <3>1, <3>2 DEF IInv, Copies
  <2> QED
    BY <1>2, <1>3, <2>1, <2>2, <2>3, <2>4 DEF Copies
<1>16. NeverFails' /\ ProofsCurrent'
  BY <1>2 DEF IInv, NeverFails, ProofsCurrent
<1> QED
  BY <1>10, <1>11, <1>12, <1>13, <1>14, <1>15, <1>16 DEF IInv

LEMMA EnqueueProofKeeps ==
  ASSUME IInv, EnqueueProof, UNCHANGED killed
  PROVE  IInv'
<1>1. PICK x \in Entries : x = cur.entry /\ x \in 1 .. Len(lru)
  BY UsedTypes DEF IInv, EnqueueProof, Control
<1>2. PICK r : r = Enqueued(x)
  OBVIOUS
<1>3. /\ pc = "lent" /\ pc' = "flush" /\ ent[x].borrowed /\ cur.entry = x /\ cur.for = "proof"
      /\ ent[x].paddr = cur.page /\ Hashed(x) /\ batch = <<>> /\ map[cur.page] = x
      /\ ent' = [ent EXCEPT ![x] = r]
      /\ UNCHANGED <<mem, dirty, lru, map, todo, batch, cur, proof, failed, killed>>
  BY <1>1, <1>2 DEF IInv, Control, Hashes, EnqueueProof
<1>4. /\ r \in Entry /\ r.paddr = ent[x].paddr /\ r.borrowed = ent[x].borrowed
      /\ r.page = mem[ent[x].paddr]
      /\ \A w \in Words \ r.queue : r.leaf[w] = r.page[w]
      /\ r.queue = {} => r.root = r.leaf
  BY <1>2, <1>3, EnqueuedEntry DEF IInv
<1>5. /\ ent' \in [Entries -> Entry] /\ ent'[x] = r /\ \A e \in Entries : e # x => ent'[e] = ent[e]
      /\ \A e \in Entries : ent'[e].paddr = ent[e].paddr /\ ent'[e].borrowed = ent[e].borrowed
  BY <1>3, <1>4 DEF IInv, Types
<1>6. Types'
  BY <1>3, <1>5 DEF IInv, Types, PCs
<1>7. Control'
  BY <1>1, <1>3, <1>5 DEF IInv, Control
<1>8. Lists'
  BY <1>1, <1>3, <1>5, RehashedLists
<1>9. Lent'
  BY <1>3, <1>5 DEF IInv, Lent
<1>10. Hashes'
  <2>1. \A e \in Entries : ~ent'[e].borrowed => Hashed(e)'
    BY <1>3, <1>5 DEF IInv, Hashes, Hashed
  <2> QED
    BY <1>3, <1>4, <1>5, <2>1 DEF Hashes, Queued
<1>11. Copies'
  <2>1. Stale' = Stale
    BY <1>3 DEF Stale
  <2>2. \A e \in 1 .. Len(lru) : ~ent'[e].borrowed /\ ent'[e].paddr \notin Stale \cup {0} =>
                                   ent'[e].page = mem[ent'[e].paddr]
    BY <1>3, <1>5, UsedTypes DEF IInv, Copies
  <2>3. map[0] # 0 /\ 0 \notin Stale /\ ~ent'[map[0]].borrowed => ent'[map[0]].page = mem[0]
    BY <1>3, <1>5, UsedTypes, Constants DEF IInv, Copies
  <2> QED
    BY <1>3, <1>4, <1>5, <2>1, <2>2, <2>3 DEF Copies
<1>12. NeverFails' /\ ProofsCurrent'
  BY <1>3 DEF IInv, NeverFails, ProofsCurrent
<1> QED
  BY <1>6, <1>7, <1>8, <1>9, <1>10, <1>11, <1>12 DEF IInv

LEMMA FlushProofKeeps ==
  ASSUME IInv, FlushProof, UNCHANGED killed
  PROVE  IInv'
<1>1. PICK x \in Entries : x = cur.entry /\ x \in 1 .. Len(lru)
  BY UsedTypes DEF IInv, FlushProof, Control
<1>2. PICK r : r = Flushed(x)
  OBVIOUS
<1>3. /\ pc = "flush" /\ pc' = "lent" /\ ent[x].borrowed /\ cur.entry = x /\ cur.for = "proof"
      /\ ent[x].paddr = cur.page /\ Queued(x) /\ batch = <<>> /\ map[cur.page] = x
      /\ ent[x].page = mem[cur.page]
      /\ ent' = [ent EXCEPT ![x] = r] /\ cur' = [cur EXCEPT !.hit = TRUE]
      /\ UNCHANGED <<mem, dirty, lru, map, todo, batch, proof, failed, killed>>
  BY <1>1, <1>2 DEF IInv, Control, Hashes, Copies, FlushProof
<1>4. /\ r \in Entry /\ r.paddr = ent[x].paddr /\ r.borrowed = ent[x].borrowed
      /\ r.page = ent[x].page /\ r.leaf = r.page /\ r.root = r.leaf /\ r.queue = {}
  BY <1>2, <1>3, FlushedEntry DEF IInv
<1>5. /\ ent' \in [Entries -> Entry] /\ ent'[x] = r /\ \A e \in Entries : e # x => ent'[e] = ent[e]
      /\ \A e \in Entries : ent'[e].paddr = ent[e].paddr /\ ent'[e].borrowed = ent[e].borrowed
  BY <1>3, <1>4 DEF IInv, Types
<1>6. cur' \in Borrow /\ cur'.page = cur.page /\ cur'.entry = x /\ cur'.for = cur.for
  BY <1>3, BorrowTypes DEF IInv, Borrow
<1>7. Types'
  BY <1>3, <1>5, <1>6 DEF IInv, Types, PCs
<1>8. Control'
  BY <1>1, <1>3, <1>5, <1>6 DEF IInv, Control
<1>9. Lists'
  BY <1>1, <1>3, <1>5, RehashedLists
<1>10. Lent'
  BY <1>3, <1>5, <1>6 DEF IInv, Lent
<1>11. Hashes'
  <2>1. \A e \in Entries : ~ent'[e].borrowed => Hashed(e)'
    BY <1>3, <1>5 DEF IInv, Hashes, Hashed
  <2> QED
    BY <1>3, <1>4, <1>5, <1>6, <2>1 DEF Hashes, Hashed
<1>12. Copies'
  <2>1. Stale' = Stale
    BY <1>3, <1>6 DEF Stale
  <2>2. \A e \in 1 .. Len(lru) : ~ent'[e].borrowed /\ ent'[e].paddr \notin Stale \cup {0} =>
                                   ent'[e].page = mem[ent'[e].paddr]
    BY <1>3, <1>5, UsedTypes DEF IInv, Copies
  <2>3. map[0] # 0 /\ 0 \notin Stale /\ ~ent'[map[0]].borrowed => ent'[map[0]].page = mem[0]
    BY <1>3, <1>5, UsedTypes, Constants DEF IInv, Copies
  <2> QED
    BY <1>3, <1>4, <1>5, <1>6, <2>1, <2>2, <2>3 DEF Copies
<1>13. NeverFails' /\ ProofsCurrent'
  BY <1>3 DEF IInv, NeverFails, ProofsCurrent
<1> QED
  BY <1>7, <1>8, <1>9, <1>10, <1>11, <1>12, <1>13 DEF IInv

LEMMA ServeProofKeeps ==
  ASSUME IInv, ServeProof, UNCHANGED killed
  PROVE  IInv'
<1>1. PICK x \in Entries : x = cur.entry /\ x \in 1 .. Len(lru)
  BY UsedTypes DEF IInv, ServeProof, Control
<1>2. PICK q \in Pages : q = cur.page
  BY BorrowTypes DEF IInv
<1>3. /\ pc = "lent" /\ pc' = "idle" /\ ent[x].borrowed /\ cur.entry = x /\ cur.page = q
      /\ cur.for = "proof" /\ ent[x].paddr = q /\ Hashed(x) /\ batch = <<>> /\ todo = {}
      /\ ent[x].page = mem[q] /\ dirty = {}
      /\ proof' = <<q, ent[x].root>> /\ ent' = [ent EXCEPT ![x].borrowed = FALSE] /\ cur' = Idle
      /\ UNCHANGED <<mem, dirty, lru, map, todo, batch, failed, killed>>
  BY <1>1, <1>2 DEF IInv, Control, Hashes, Copies, ServeProof, Returned
<1>4. /\ ent' \in [Entries -> Entry] /\ ent'[x] = [ent[x] EXCEPT !.borrowed = FALSE]
      /\ \A e \in Entries : e # x => ent'[e] = ent[e]
  <2>1. ent \in [Entries -> Entry] /\ [ent[x] EXCEPT !.borrowed = FALSE] \in Entry
    BY EntryTypes, EntryUpdates DEF IInv, Types
  <2> QED
    BY <1>3, <2>1
<1>5. /\ ent'[x].borrowed = FALSE /\ ent'[x].page = ent[x].page /\ ent'[x].leaf = ent[x].leaf
      /\ ent'[x].root = ent[x].root /\ ent'[x].queue = ent[x].queue
      /\ \A e \in Entries : ent'[e].paddr = ent[e].paddr
  BY <1>4, EntryTypes DEF IInv, Entry
<1>6. proof' \in Pages \X [Words -> Values] /\ proof'[1] = q /\ proof'[2] = mem[q]
  BY <1>3, EntryTypes DEF IInv, Hashed
<1>7. Types'
  BY <1>3, <1>4, <1>6, Constants DEF IInv, Types, PCs
<1>8. Control'
  BY <1>3, Constants DEF Control
<1>9. Lists'
  BY <1>1, <1>3, <1>4, <1>5, RehashedLists
<1>10. Lent'
  BY <1>3, <1>4, <1>5 DEF IInv, Lent
<1>11. Hashes'
  BY <1>3, <1>4, <1>5 DEF IInv, Hashes, Hashed
<1>12. Copies'
  <2>1. Stale' = {} /\ Stale = {}
    BY <1>3, Constants DEF Stale
  <2>2. \A e \in 1 .. Len(lru) : ~ent'[e].borrowed /\ ent'[e].paddr # 0 => ent'[e].page = mem[ent'[e].paddr]
    BY <1>3, <1>4, <1>5, <2>1, UsedTypes DEF IInv, Copies
  <2>3. map[0] # 0 /\ ~ent'[map[0]].borrowed => ent'[map[0]].page = mem[0]
    <3>1. CASE map[0] = x
      <4>1. ent[x].paddr = 0
        BY <1>3, <3>1, Constants DEF IInv, Lists, PaddrOf
      <4> QED
        BY <1>3, <1>5, <3>1, <4>1
    <3>2. CASE map[0] # x
      BY <1>3, <1>4, <2>1, <3>2, UsedTypes, Constants DEF IInv, Copies
    <3> QED
      BY <3>1, <3>2
  <2> QED
    BY <1>3, <2>1, <2>2, <2>3 DEF Copies
<1>13. NeverFails'
  BY <1>3 DEF IInv, NeverFails
<1>14. ProofsCurrent'
  BY <1>3, <1>6 DEF ProofsCurrent
<1> QED
  BY <1>7, <1>8, <1>9, <1>10, <1>11, <1>12, <1>13, <1>14 DEF IInv

\* A nonempty set of natural numbers has a least element.
LEMMA LeastNat ==
  ASSUME NEW T, T \subseteq Nat, T # {}
  PROVE  \E x \in T : \A y \in T : x <= y
<1>1. PICK x \in T : \A y \in T : ~(<<y, x>> \in OpToRel(<, Nat))
  BY NatLessThanWellFounded, WFMin, Zenon
<1>2. \A y \in T : ~(y < x)
  BY <1>1 DEF OpToRel
<1> QED
  BY <1>2

\* The map a new owner builds finds an entry with the address, when there is one.
LEMMA ReopenedFinds ==
  ASSUME Types, Lists, NEW p \in Pages
  PROVE  /\ Reopened(p) # 0 => Reopened(p) \in 1 .. Len(lru) /\ ent[Reopened(p)].paddr = p
         /\ \A e \in 1 .. Len(lru) : ent[e].paddr = p => Reopened(p) # 0
         /\ Reopened(p) \in 0 .. NumEntries
<1> DEFINE at == {i \in DOMAIN lru : ent[lru[i]].paddr = p}
           k == CHOOSE i \in at : \A j \in at : i <= j
<1>1. DOMAIN lru = 1 .. Len(lru) /\ Len(lru) \in Nat /\ at \subseteq Nat
  BY DEF Types
<1>2. \A i \in 1 .. Len(lru) : lru[i] \in 1 .. Len(lru)
  BY <1>1 DEF Lists, ToSet
<1>3. \A e \in 1 .. Len(lru) : \E i \in 1 .. Len(lru) : lru[i] = e
  BY <1>1 DEF Lists, ToSet
<1>4. Reopened(p) = IF at = {} THEN 0 ELSE lru[k]
  BY DEF Reopened
<1>5. at # {} => k \in at
  <2> SUFFICES ASSUME at # {} PROVE k \in at
    OBVIOUS
  <2>1. \E i \in at : \A j \in at : i <= j
    <3> HIDE DEF at
    <3> QED
      BY <1>1, LeastNat
  <2> QED
    BY <2>1
<1>6. at # {} => lru[k] \in 1 .. Len(lru) /\ ent[lru[k]].paddr = p
  BY <1>1, <1>2, <1>5
<1>7. \A e \in 1 .. Len(lru) : ent[e].paddr = p => at # {}
  BY <1>1, <1>3
<1> HIDE DEF at, k
<1>8. \A e \in 1 .. Len(lru) : e \in 0 .. NumEntries /\ e # 0
  BY UsedTypes, Constants
<1> QED
  BY <1>4, <1>6, <1>7, <1>8, Constants

\* An unused entry is one to the next owner too.
LEMMA FreeReopened == [FreeEntry EXCEPT !.queue = {}] = FreeEntry
<1>1. \A r \in Entry : r.queue = {} => [r EXCEPT !.queue = {}] = r
  BY DEF Entry
<1> QED
  BY <1>1, Constants

\* An owner killed anywhere leaves files the next one starts well from.
LEMMA CrashKeeps ==
  ASSUME IInv, Crash
  PROVE  IInv'
<1>1. /\ pc' = "idle" /\ cur' = Idle /\ todo' = {} /\ batch' = <<>> /\ proof' = <<>> /\ failed' = FALSE
      /\ map' = [p \in Pages |-> Reopened(p)] /\ ent' = [e \in Entries |-> ReopenedEntry(e)]
      /\ dirty' = dirty \cup {0} /\ killed' = (killed \/ pc # "idle") /\ UNCHANGED <<mem, lru>>
  BY DEF Crash, AlwaysDirty
<1>2. ~killed' => ~killed /\ pc = "idle" /\ batch = <<>>
  BY <1>1 DEF IInv, Control, Types
<1>3. /\ ent' \in [Entries -> Entry]
      /\ \A e \in Entries : /\ ent'[e].paddr = ent[e].paddr /\ ent'[e].borrowed = ent[e].borrowed
                            /\ ent'[e].page = ent[e].page /\ ent'[e].leaf = ent[e].leaf
                            /\ ent'[e].root = ent[e].root /\ ent'[e].queue = {}
                            /\ ent[e] = FreeEntry => ent'[e] = FreeEntry
  <2>1. ASSUME NEW e \in Entries
        PROVE  /\ ent'[e] \in Entry /\ ent'[e].paddr = ent[e].paddr /\ ent'[e].borrowed = ent[e].borrowed
               /\ ent'[e].page = ent[e].page /\ ent'[e].leaf = ent[e].leaf
               /\ ent'[e].root = ent[e].root /\ ent'[e].queue = {}
               /\ ent[e] = FreeEntry => ent'[e] = FreeEntry
    <3>1. ent'[e] = [ent[e] EXCEPT !.queue = {}] /\ ent[e] \in Entry
      BY <1>1, EntryTypes DEF IInv, ReopenedEntry
    <3>2. ent[e] = FreeEntry => ent'[e] = FreeEntry
      BY <3>1, FreeReopened, Zenon
    <3> QED
      BY <3>1, <3>2 DEF Entry
  <2> QED
    BY <1>1, <2>1
<1>4. \A p \in Pages : /\ map'[p] # 0 => map'[p] \in 1 .. Len(lru) /\ ent[map'[p]].paddr = p
                       /\ \A e \in 1 .. Len(lru) : ent[e].paddr = p => map'[p] # 0
                       /\ map'[p] \in 0 .. NumEntries
  BY <1>1, ReopenedFinds DEF IInv
<1>5. map' \in [Pages -> 0 .. NumEntries]
  BY <1>1, <1>4
<1>6. Types'
  BY <1>1, <1>2, <1>3, <1>5, Constants, EmptySeq DEF IInv, Types, PCs
<1>7. Control'
  BY <1>1, Constants DEF Control
<1>8. Lists'
  <2>1. \A e, f \in 1 .. Len(lru) : e # f /\ ent[e].paddr = ent[f].paddr => ent[e].paddr = 0 /\ killed'
    BY <1>1 DEF IInv, Lists
  <2>2. \A e \in 1 .. Len(lru) : PaddrOf(e)' = ent[e].paddr /\ ent'[e].paddr = ent[e].paddr
                                 /\ ent[e].paddr \in Pages
    BY <1>1, <1>3, UsedTypes, EntryTypes DEF IInv, PaddrOf
  <2>3. \A e \in Entries : e > Len(lru) => ent'[e] = FreeEntry
    BY <1>3 DEF IInv, Lists
  <2>4. \A p \in Pages : map'[p] # 0 => map'[p] <= Len(lru) /\ PaddrOf(map[p])' = p
    <3> SUFFICES ASSUME NEW p \in Pages, map'[p] # 0
                 PROVE  map'[p] <= Len(lru) /\ PaddrOf(map[p])' = p
      OBVIOUS
    <3>1. map'[p] \in 1 .. Len(lru) /\ ent[map'[p]].paddr = p
      BY <1>4
    <3>2. ent'[map'[p]].paddr = p
      BY <2>2, <3>1
    <3> QED
      BY <1>1, <3>1, <3>2, UsedTypes DEF IInv, PaddrOf
  <2>5. \A e \in 1 .. Len(lru) : (killed' => PaddrOf(e)' # 0) => map'[PaddrOf(e)'] = e
    <3> SUFFICES ASSUME NEW e \in 1 .. Len(lru), killed' => ent[e].paddr # 0
                 PROVE  map'[ent[e].paddr] = e
      BY <2>2
    <3>1. /\ map'[ent[e].paddr] \in 1 .. Len(lru)
          /\ ent[map'[ent[e].paddr]].paddr = ent[e].paddr
      BY <1>4, <2>2
    <3> QED
      BY <2>1, <3>1
  <2>6. \A e, f \in 1 .. Len(lru) :
          e # f /\ ent'[e].paddr = ent'[f].paddr => ent'[e].paddr = 0 /\ killed'
    BY <2>1, <2>2
  <2>7. lru' = lru /\ IsInjective(lru) /\ ToSet(lru) = 1 .. Len(lru)
    BY <1>1 DEF IInv, Lists
  <2> QED
    BY <2>3, <2>4, <2>5, <2>6, <2>7 DEF Lists
<1>9. Lent'
  BY <1>1, <1>2, <1>3 DEF IInv, Lent
<1>10. Hashes'
  BY <1>1, <1>3 DEF IInv, Hashes, Hashed
<1>11. Copies'
  <2>1. Stale' = dirty \cup {0} /\ Stale \subseteq dirty
    BY <1>1, Constants DEF Stale
  <2>2. \A e \in 1 .. Len(lru) : ~ent'[e].borrowed /\ ent'[e].paddr \notin Stale' \cup {0} =>
                                   ent'[e].page = mem[ent'[e].paddr]
    BY <1>3, <2>1, UsedTypes DEF IInv, Copies
  <2> QED
    BY <1>1, <2>1, <2>2 DEF Copies
<1>12. NeverFails' /\ ProofsCurrent'
  BY <1>1 DEF NeverFails, ProofsCurrent
<1> QED
  BY <1>6, <1>7, <1>8, <1>9, <1>10, <1>11, <1>12 DEF IInv

-----------------------------------------------------------------------------
(* The theorems *)

LEMMA InitIInv == Init => IInv
<1> SUFFICES ASSUME Init PROVE IInv
  OBVIOUS
<1> USE DEF Init
<1>1. /\ ent \in [Entries -> Entry] /\ \A e \in Entries : ent[e] = FreeEntry
  BY Constants
<1>2. Types
  <2>1. map \in [Pages -> 0 .. NumEntries] /\ dirty \subseteq Pages /\ todo \subseteq Pages
    BY Constants
  <2>2. lru \in Seq(Entries) /\ Len(lru) = 0 /\ 0 <= NumEntries
    BY Constants
  <2>3. cur \in Borrow
    BY Constants
  <2>4. pc \in PCs /\ failed \in BOOLEAN /\ killed \in BOOLEAN
    BY DEF PCs
  <2>5. mem \in [Pages -> [Words -> Values]] /\ proof = <<>> /\ batch = <<>>
    OBVIOUS
  <2> HIDE DEF Init
  <2> QED
    BY <1>1, <2>1, <2>2, <2>3, <2>4, <2>5, EmptySeq DEF Types
<1>3. Control
  BY Constants DEF Control
<1>4. Lists
  <2>1. IsInjective(lru) /\ ToSet(lru) = {} /\ 1 .. Len(lru) = {} /\ Len(lru) = 0
    BY DEF IsInjective, ToSet
  <2> QED
    BY <1>1, <2>1 DEF Lists
<1>5. Lent
  BY <1>1, Constants DEF Lent
<1>6. Hashes
  BY <1>1, Constants DEF Hashes, Hashed
<1>7. Copies
  BY Constants DEF Copies
<1>8. NeverFails /\ ProofsCurrent
  BY DEF NeverFails, ProofsCurrent
<1> QED
  BY <1>2, <1>3, <1>4, <1>5, <1>6, <1>7, <1>8 DEF IInv

LEMMA NextIInv == IInv /\ [Next]_vars => IInv'
<1> SUFFICES ASSUME IInv, [Next]_vars PROVE IInv'
  OBVIOUS
<1>1. CASE Step /\ UNCHANGED killed
  BY <1>1, BorrowHitKeeps, BorrowMissKeeps, SetBorrowedKeeps, SetPaddrKeeps, NextPageKeeps,
     AddToBatchKeeps, RunOutKeeps, LastBatchKeeps, HashEntryKeeps, ReturnEntryKeeps, EndBatchKeeps,
     EnqueueProofKeeps, FlushProofKeeps, ServeProofKeeps DEF Step
<1>2. CASE Call /\ UNCHANGED killed
  BY <1>2, WriteKeeps, BeginUpdateKeeps, BeginProofKeeps DEF Call
<1>3. CASE Crash
  BY <1>3, CrashKeeps
<1>4. CASE UNCHANGED vars
  BY <1>4 DEF vars, IInv, Types, Control, Lists, PaddrOf, Lent, Hashes, Hashed, Queued, Stale,
              Copies, NeverFails, ProofsCurrent
<1> QED
  BY <1>1, <1>2, <1>3, <1>4 DEF Next

LEMMA IInvConsistent == IInv => CacheConsistent
<1> SUFFICES ASSUME IInv PROVE CacheConsistent
  OBVIOUS
<1>1. TypeOK
  <2>1. \A i \in DOMAIN batch : batch[i].entry \in Entries
    BY BatchTypes DEF IInv
  <2>2. \A e \in Entries : /\ ent[e].paddr \in Pages /\ ent[e].borrowed \in BOOLEAN /\ ent[e].queue \subseteq Words
                           /\ {ent[e].page, ent[e].leaf, ent[e].root} \subseteq [Words -> Values]
    BY EntryTypes DEF IInv
  <2> QED
    BY <2>1, <2>2 DEF IInv, Types, TypeOK
<1>2. ListsAgree
  <2> SUFFICES ASSUME pc \in {"idle", "next", "hash"}, NEW p \in Pages, NEW e \in Entries,
                      killed => p # FreeEntry.paddr
               PROVE  map[p] = e <=> e <= Len(lru) /\ ent[e].paddr = p
    BY DEF IInv, Lists, ListsAgree
  <2>1. \A f \in Entries : PaddrOf(f) = ent[f].paddr
    BY DEF PaddrOf
  <2>2. e <= Len(lru) => e \in 1 .. Len(lru)
    BY UsedTypes DEF IInv, Entries
  <2> QED
    BY <2>1, <2>2, Constants DEF IInv, Lists
<1>3. ReturnedEntriesConsistent
  BY DEF IInv, Hashes, Hashed, ReturnedEntriesConsistent
<1> QED
  BY <1>1, <1>2, <1>3 DEF CacheConsistent

\* Every reachable state of the cache, with the borrow in progress taken for done
\* or not done as its pc says, satisfies the inductive invariant: the conjuncts
\* about the control, the three structures, who has borrowed what, the hashes of
\* the entries and how far their copies are true.
THEOREM InductiveInvariant == Spec => []IInv
BY InitIInv, NextIInv, PTL DEF Spec

\* Between borrows the LRU list, the array and the map agree, and an entry that
\* nobody has borrowed holds the hashes of its own copy of the page, for any
\* numbers of pages and entries and although owners are killed at any step.
THEOREM CacheIsConsistent == Spec => []CacheConsistent
BY InductiveInvariant, IInvConsistent, PTL

\* Unless an owner was killed inside a call, borrow_entry() never throws and an
\* update or a proof always gets an entry, even from a cache of one entry.
THEOREM BorrowersAreServed == Spec => []NeverFails
<1>1. IInv => NeverFails
  BY DEF IInv
<1> QED
  BY <1>1, InductiveInvariant, PTL

\* A proof below page level is about the page as it is in memory, also when it
\* was served from a hit, which reads no memory.
THEOREM ProofsAreCurrent == Spec => []ProofsCurrent
<1>1. IInv => ProofsCurrent
  BY DEF IInv
<1> QED
  BY <1>1, InductiveInvariant, PTL
=============================================================================
