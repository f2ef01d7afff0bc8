------------------------------ MODULE HashTree ------------------------------
(***************************************************************************)
(* The machine's hash_tree: per address range a dense tree of hashes over  *)
(* its pages, kept next to the range's dirty_page_tree, and above them one *)
(* sparse tree.  update() rehashes dirty pages in parallel batches, then   *)
(* the dense trees of the ranges that changed level by level, then the     *)
(* sparse tree through a priority queue, and cleans the dirty pages of the *)
(* ranges that changed.  Proofs below page level come from the page cache. *)
(*                                                                         *)
(* Dense node <<ar, level, i>>: node i of one level of the tree of range   *)
(* ar, as to_index() places it; level 0 are the pages, past LeafCount[ar]  *)
(* pads.  Dirty pages are the set that DirtyPageTree implements, and a     *)
(* borrow succeeds as PageHashTreeCache shows.  Hashes are injective terms.*)
(***************************************************************************)
EXTENDS Integers, Sequences, FiniteSets, FiniteSetsExt

CONSTANTS Contents,       \* what a page can hold, 0 for a pristine page
          LevelCount,     \* levels of the dense tree of every range
          LeafCount,      \* pages of every range
          Sparse,         \* node -> [left, right, parent, level], from create_nodes
          Capacity,       \* entries of the page cache
          Replaceable,    \* ranges that are not protected or read-only
          Backings,       \* kinds of replacement of a range: see Replace
          CrashPoints     \* values of pc at which the process may be killed

Ranges == DOMAIN LevelCount
NodesOf(ar, k) == {<<ar, k, i>> : i \in 0 .. 2^(LevelCount[ar] - 1 - k) - 1}
Dense == UNION {UNION {NodesOf(ar, k) : k \in 0 .. LevelCount[ar] - 1} : ar \in Ranges}
LeavesOf(ar) == NodesOf(ar, 0)
Leaves == UNION {LeavesOf(ar) : ar \in Ranges}
Pages == {l \in Leaves : l[3] < LeafCount[l[1]]}

Left(n) == <<n[1], n[2] - 1, 2 * n[3]>>
Right(n) == <<n[1], n[2] - 1, 2 * n[3] + 1>>
Under == [n \in Dense |-> {l \in LeavesOf(n[1]) : l[3] \div 2^n[2] = n[3]}]

\* Sparse node 1 is the root, ranges come next, 0 stands for a pristine subtree.
Nodes == DOMAIN Sparse
RangeNode(ar) == ar + 1
InnerNodes == Nodes \ {RangeNode(ar) : ar \in Ranges}
RootLevel == Sparse[1].level
Children(n) == {Sparse[n].left, Sparse[n].right} \ {0}

\* What create_nodes() builds: above the ranges a tree that has no node
\* without a range under it.
ASSUME LayoutAssumption ==
  /\ 0 \in Contents /\ Contents \subseteq Nat /\ Capacity >= 1
  /\ LevelCount \in Seq(Nat \ {0}) /\ Replaceable \subseteq Ranges
  /\ RootLevel \in Nat /\ Nodes \subseteq Nat \ {0}
  /\ \A ar \in Ranges : /\ LeafCount[ar] \in 1 .. 2^(LevelCount[ar] - 1)
                        /\ RangeNode(ar) \in Nodes
                        /\ Sparse[RangeNode(ar)].level = LevelCount[ar] - 1
  /\ \A n \in Nodes : /\ Sparse[n].level \in 0 .. RootLevel
                      /\ Sparse[n].parent \in InnerNodes \cup {0}
                      /\ Sparse[n].parent # 0 => n \in Children(Sparse[n].parent)
  /\ \A n \in InnerNodes : /\ Children(n) # {} /\ Children(n) \subseteq Nodes
                           /\ \A c \in Children(n) : /\ Sparse[c].parent = n
                                                     /\ Sparse[c].level + 1 = Sparse[n].level

\* update() writes the hash of a page long before those of the nodes above it,
\* and the page cache is not told of a replaced range: an update that is killed
\* in between, or a replacement whose dirty-page file has all pages clean, has
\* hashes or copies of pages that no later update mends.  This excludes them.
Resumable == CrashPoints \subseteq {"idle", "sync", "clean"} /\ Backings \subseteq {"new", "dht"}

\* Powers of two, as far as the trees are high.
ASSUME PowersAssumption ==
  2^0 = 1 /\ \A j \in 0 .. RootLevel : 2^j \in Nat \ {0} /\ 2^(j + 1) = 2 * 2^j

-----------------------------------------------------------------------------
(* Hashes *)

ZeroHash == <<>>            \* 32 zero bytes, the hash of nothing
PageHash(c) == <<c>>
ConcatHash(a, b) == <<a, b>>

PristineHash[level \in 0 .. RootLevel] ==
  IF level = 0 THEN PageHash(0) ELSE ConcatHash(PristineHash[level - 1], PristineHash[level - 1])

NoCopy == -1

VARIABLES mem,      \* contents of the pages
          dht,      \* dense_hash_tree of every range
          dirty,    \* dirty leaves of every dirty_page_tree
          sn,       \* hash of every sparse node
          marked,   \* sparse nodes whose marked flag is set
          cached,   \* copy of a page held by the page cache
          pc, todo, batch, changed, level, queue, pending, last,
          synced,   \* no write since the tree was last updated
          served    \* last proof: page and target hash

vars == <<mem, dht, dirty, sn, marked, cached, pc, todo, batch, changed, level,
          queue, pending, last, synced, served>>
disk == <<mem, dht, dirty, sn, marked, cached>>
loop == <<todo, batch, changed, level, queue, pending, last>>

NotRunning == /\ todo = {} /\ batch = <<>> /\ changed = {} /\ level = 0
              /\ queue = {} /\ pending = {} /\ last = -1

Init ==
  /\ mem \in [Pages -> Contents]
  /\ dht = [n \in Dense |-> ZeroHash]
  /\ dirty = Leaves
  /\ sn = [n \in Nodes |-> ZeroHash] /\ marked = {}
  /\ cached = [l \in Pages |-> NoCopy]
  /\ pc = "idle" /\ NotRunning
  /\ synced = FALSE /\ served = <<>>

Write(l, c) ==
  /\ pc = "idle" /\ mem[l] # c
  /\ mem' = [mem EXCEPT ![l] = c]
  /\ dirty' = dirty \cup {l}
  /\ synced' = FALSE /\ served' = <<>>
  /\ UNCHANGED <<dht, sn, marked, cached, pc, loop>>

-----------------------------------------------------------------------------
(* update_dirty_pages and return_updated_dirty_pages *)

BeginUpdate ==
  /\ pc = "idle"
  /\ todo' = dirty
  /\ pc' = "pages"
  /\ served' = <<>>
  /\ UNCHANGED <<disk, batch, changed, level, queue, pending, last, synced>>

\* Ranges and pages are walked in the order of their addresses.
Before(l, m) == l[1] < m[1] \/ (l[1] = m[1] /\ l[3] < m[3])
Foremost(S) == CHOOSE l \in S : \A m \in S \ {l} : Before(l, m)

\* Pads get the pristine hash on the spot, pages enter the batch.
WalkPage ==
  /\ pc = "pages" /\ todo # {} /\ Cardinality(DOMAIN batch) < Capacity
  /\ LET l == Foremost(todo) IN
     /\ todo' = todo \ {l}
     /\ IF l \in Pages
          THEN /\ batch' = [m \in DOMAIN batch \cup {l} |-> IF m = l THEN "lent" ELSE batch[m]]
               /\ UNCHANGED dht
          ELSE /\ dht' = [dht EXCEPT ![l] = PristineHash[0]]
               /\ UNCHANGED batch
  /\ UNCHANGED <<mem, dirty, sn, marked, cached, pc, changed, level, queue, pending, last,
                 synced, served>>

BatchFull ==
  /\ pc = "pages" /\ (todo = {} \/ Cardinality(DOMAIN batch) = Capacity)
  /\ pc' = "hash"
  /\ UNCHANGED <<disk, loop, synced, served>>

\* One page of the parallel loop; the outcome is whether its hash changed.
HashPage(l) ==
  /\ pc = "hash" /\ batch[l] = "lent"
  /\ LET h == PageHash(mem[l]) IN
     /\ cached' = [cached EXCEPT ![l] = mem[l]]
     /\ batch' = [batch EXCEPT ![l] = IF dht[l] # h THEN "changed" ELSE "same"]
     /\ dht' = [dht EXCEPT ![l] = h]
  /\ UNCHANGED <<mem, dirty, sn, marked, pc, todo, changed, level, queue, pending, last,
                 synced, served>>

\* A page that did not change is marked clean, the range of one that did is noted.
BadSettled(l) == changed' = changed \cup {l[1]} /\ dirty' = dirty \ {l}
Settled(l) ==
  IF batch[l] = "changed" THEN changed' = changed \cup {l[1]} /\ UNCHANGED dirty
  ELSE dirty' = dirty \ {l} /\ UNCHANGED changed

ReturnPage ==
  /\ pc \in {"hash", "return"} /\ DOMAIN batch # {}
  /\ \A l \in DOMAIN batch : batch[l] # "lent"
  /\ LET l == Foremost(DOMAIN batch) IN
     /\ Settled(l)
     /\ batch' = [m \in DOMAIN batch \ {l} |-> batch[m]]
  /\ pc' = "return"
  /\ UNCHANGED <<mem, dht, sn, marked, cached, todo, level, queue, pending, last, synced, served>>

\* The walk over dirty pages goes on where it was; it does not start again.
BadResumed == dirty
Resumed == todo

EndBatch ==
  /\ pc \in {"hash", "return"} /\ DOMAIN batch = {}
  /\ todo' = Resumed
  /\ \/ todo' # {} /\ pc' = "pages" /\ UNCHANGED level
     \/ todo' = {} /\ pc' = "dense" /\ level' = 1
  /\ UNCHANGED <<disk, batch, changed, queue, pending, last, synced, served>>

-----------------------------------------------------------------------------
(* update_dense_trees *)

DirtyNode(n) == Under[n] \cap dirty # {}

\* The dirty nodes of one level of every changed range: they are hashed in
\* parallel from the level below and do not read one another.
Rehash(k) == {n \in Dense : n[1] \in changed /\ n[2] = k /\ DirtyNode(n)}

DenseLevel ==
  /\ pc = "dense"
  /\ IF \E ar \in changed : level < LevelCount[ar]
       THEN /\ dht' = [n \in Dense |-> IF n \in Rehash(level)
                                         THEN ConcatHash(dht[Left(n)], dht[Right(n)]) ELSE dht[n]]
            /\ level' = level + 1 /\ pc' = pc
       ELSE pc' = "sync" /\ level' = 0 /\ UNCHANGED dht
  /\ UNCHANGED <<mem, dirty, sn, marked, cached, todo, batch, changed, queue, pending, last,
                 synced, served>>

-----------------------------------------------------------------------------
(* update_sparse_tree *)

Root(ar) == dht[<<ar, LevelCount[ar] - 1, 0>>]

BadParents(S) == {Sparse[n].parent : n \in S}
Parents(S) == {Sparse[n].parent : n \in S} \ {0}

\* Both loops: copy the roots of changed ranges, and of ranges whose node does
\* not match for another reason, and enqueue the parents.
Unsynced == changed \cup {ar \in Ranges : sn[RangeNode(ar)] # Root(ar)}

SyncRanges ==
  /\ pc = "sync"
  /\ LET up == Parents({RangeNode(ar) : ar \in Unsynced}) \ marked IN
     /\ sn' = [n \in Nodes |-> IF \E ar \in Unsynced : n = RangeNode(ar)
                                 THEN Root(n - 1) ELSE sn[n]]
     /\ marked' = marked \cup up
     /\ queue' = up
  /\ last' = -1 /\ pending' = {}
  /\ pc' = "sparse"
  /\ UNCHANGED <<mem, dht, dirty, cached, todo, batch, changed, level, synced, served>>

HashOf(n, k) == IF n = 0 THEN PristineHash[k] ELSE sn[n]

\* What the SIMD queue writes when it is flushed (a queue that fills up is
\* flushed early; the nodes in it are of one level, so that changes nothing).
Flushed(S) ==
  [n \in Nodes |-> IF n \in S
     THEN ConcatHash(HashOf(Sparse[n].left, Sparse[n].level - 1),
                     HashOf(Sparse[n].right, Sparse[n].level - 1))
     ELSE sn[n]]

\* Least level first, then least index.
Top == CHOOSE n \in queue : \A m \in queue :
          Sparse[n].level < Sparse[m].level \/ (Sparse[n].level = Sparse[m].level /\ n <= m)

BadCrossing(n) == FALSE
Crossing(n) == last # Sparse[n].level

\* Pop a node, enqueue it to be hashed and its parent to be visited; nodes of
\* another level are flushed first.
PopNode ==
  /\ pc = "sparse" /\ queue # {}
  /\ LET n == Top
         up == Parents({n}) \ (marked \ {n})
     IN  /\ marked' = (marked \ {n}) \cup up
         /\ queue' = (queue \ {n}) \cup up
         /\ sn' = IF Crossing(n) THEN Flushed(pending) ELSE sn
         /\ pending' = IF Crossing(n) THEN {n} ELSE pending \cup {n}
         /\ last' = Sparse[n].level
  /\ UNCHANGED <<mem, dht, dirty, cached, pc, todo, batch, changed, level, synced, served>>

EndSparse ==
  /\ pc = "sparse" /\ queue = {}
  /\ sn' = Flushed(pending)
  /\ pending' = {} /\ last' = -1
  /\ pc' = "clean"
  /\ UNCHANGED <<mem, dht, dirty, marked, cached, todo, batch, changed, level, queue, synced, served>>

\* update() cleans the ranges that changed, one after the other, and returns.
Cleaned == LeavesOf(Min(changed))

CleanRange ==
  /\ pc = "clean" /\ changed # {}
  /\ dirty' = dirty \ Cleaned
  /\ changed' = changed \ {Min(changed)}
  /\ UNCHANGED <<mem, dht, sn, marked, cached, pc, todo, batch, level, queue, pending, last,
                 synced, served>>

EndUpdate ==
  /\ pc = "clean" /\ changed = {}
  /\ pc' = "idle" /\ synced' = TRUE
  /\ UNCHANGED <<disk, loop, served>>

-----------------------------------------------------------------------------
(* Other operations on the tree *)

\* The dense tree whose nodes outside Given are hashed from their children.
DenseHashed(given, Given) ==
  LET t[n \in Dense] == IF n \in Given THEN given[n] ELSE ConcatHash(t[Left(n)], t[Right(n)])
  IN  t

\* The same for the sparse tree.
SparseHashed(given, Given) ==
  LET t[n \in Nodes] ==
        IF n \in Given THEN given[n]
        ELSE LET side(c) == IF c = 0 THEN PristineHash[Sparse[n].level - 1] ELSE t[c]
             IN  ConcatHash(side(Sparse[n].left), side(Sparse[n].right))
  IN  t

\* From every node the way to the root: what every set with the node and with
\* the parents of its members has.
SparsePath ==
  [n \in Nodes |-> {m \in Nodes : \A S \in SUBSET Nodes :
     n \in S /\ (\A c \in S : Sparse[c].parent \in S \cup {0}) => m \in S}]

\* update_page: bubble the new hash of one leaf up the dense and sparse trees.
BubbledDense(l, h) == DenseHashed([dht EXCEPT ![l] = h], {n \in Dense : n = l \/ l \notin Under[n]})

BubbledSparse(ar, root) ==
  LET node == RangeNode(ar)
  IN  SparseHashed([sn EXCEPT ![node] = root], Nodes \ (SparsePath[node] \ {node}))

\* A write while an access log is recorded, on an up-to-date tree: the word is
\* written and update_page() follows.  The page stays marked dirty.
RecordedWrite(l, c) ==
  /\ pc = "idle" /\ synced
  /\ mem' = [mem EXCEPT ![l] = c]
  /\ dirty' = dirty \cup {l}
  /\ cached' = [cached EXCEPT ![l] = c]
  /\ IF dht[l] = PageHash(c) THEN UNCHANGED <<dht, sn>>
     ELSE /\ dht' = BubbledDense(l, PageHash(c))
          /\ sn' = BubbledSparse(l[1], BubbledDense(l, PageHash(c))[<<l[1], LevelCount[l[1]] - 1, 0>>])
  /\ served' = <<>>
  /\ UNCHANGED <<marked, pc, loop, synced>>

\* get_proof below page level, on an up-to-date tree: a hit is served from the
\* entry, a miss (the page was never cached, or was evicted) hashes the page.
BadMissed(l) ==      \* the recycled entry is served as it was
  \E m \in Pages : cached' = [cached EXCEPT ![l] = cached[m]] /\ UNCHANGED dht
Missed(l) ==
  /\ cached' = [cached EXCEPT ![l] = mem[l]]
  /\ dht' = [dht EXCEPT ![l] = PageHash(mem[l])]

GetProof(l) ==
  /\ pc = "idle" /\ synced
  /\ \/ cached[l] # NoCopy /\ UNCHANGED <<cached, dht>>
     \/ Missed(l)
  /\ served' = <<l, PageHash(cached'[l])>>
  /\ UNCHANGED <<mem, dirty, sn, marked, pc, loop, synced>>

\* replace_memory_range: new memory, with
\*   "new"   new hash and dirty files: no hashes, all dirty
\*   "dht"   the hash file of a stored machine: right hashes, all dirty
\*   "clean" hash and dirty files of a stored machine: right hashes, all clean
TrueDense(m) ==
  DenseHashed([l \in Leaves |-> IF l \in Pages THEN PageHash(m[l]) ELSE PristineHash[0]], Leaves)

BadReplacedDirty(ar, kind) == IF kind = "new" THEN dirty ELSE dirty \ LeavesOf(ar)
ReplacedDirty(ar, kind) ==
  IF kind = "clean" THEN dirty \ LeavesOf(ar) ELSE dirty \cup LeavesOf(ar)

Replace(ar, c, kind) ==
  /\ pc = "idle"
  /\ mem' = [l \in Pages |-> IF l[1] = ar THEN c ELSE mem[l]]
  /\ dht' = [n \in Dense |-> IF n[1] # ar THEN dht[n]
                             ELSE IF kind = "new" THEN ZeroHash ELSE TrueDense(mem')[n]]
  /\ dirty' = ReplacedDirty(ar, kind)
  /\ synced' = FALSE /\ served' = <<>>
  /\ UNCHANGED <<sn, marked, cached, pc, loop>>

\* The process is killed and another one opens the same files, all shared.
Crash ==
  /\ pc \in CrashPoints
  /\ pc' = "idle"
  /\ todo' = {} /\ batch' = <<>> /\ changed' = {} /\ level' = 0
  /\ queue' = {} /\ pending' = {} /\ last' = -1
  /\ synced' = FALSE /\ served' = <<>>
  /\ UNCHANGED disk

UpdateStep == \/ WalkPage \/ BatchFull \/ \E l \in DOMAIN batch : HashPage(l)
              \/ ReturnPage \/ EndBatch
              \/ DenseLevel \/ SyncRanges \/ PopNode \/ EndSparse \/ CleanRange \/ EndUpdate

Next == \/ UpdateStep
        \/ BeginUpdate
        \/ \E l \in Pages, c \in Contents : Write(l, c) \/ RecordedWrite(l, c)
        \/ \E l \in Pages : GetProof(l)
        \/ \E ar \in Replaceable, c \in Contents, kind \in Backings : Replace(ar, c, kind)
        \/ Crash

\* update() never blocks.
Spec == Init /\ [][Next]_vars /\ WF_vars(UpdateStep)

-----------------------------------------------------------------------------
(* Properties *)

TypeOK ==
  /\ mem \in [Pages -> Contents]
  /\ DOMAIN dht = Dense /\ DOMAIN sn = Nodes
  /\ dirty \subseteq Leaves /\ todo \subseteq Leaves /\ DOMAIN batch \subseteq Pages
  /\ marked \subseteq InnerNodes /\ queue \subseteq InnerNodes /\ pending \subseteq InnerNodes
  /\ changed \subseteq Ranges
  /\ cached \in [Pages -> Contents \cup {NoCopy}]

TrueSparse ==
  SparseHashed([n \in Nodes \ InnerNodes |-> TrueDense(mem)[<<n - 1, LevelCount[n - 1] - 1, 0>>]], Nodes \ InnerNodes)

\* After an update, and after every write recorded since, the hash of every
\* node get_node_hash() and get_proof() can return, the root's among them, is
\* the Merkle hash of the memory under it.
UpdatedHashesTrue ==
  synced => /\ sn = TrueSparse
            /\ dht = TrueDense(mem)

\* What verify() checks: a page whose hash is out of date is marked dirty.
StalePagesDirty == pc = "idle" => \A l \in Pages : dht[l] # PageHash(mem[l]) => l \in dirty

\* Between operations a dense node that is not the hash of its children is
\* dirty, and its range has a dirty page whose hash is out of date: the next
\* update, which rehashes only the dirty nodes of ranges in which it changes
\* the hash of a page, gets to it.
StaleNodesReached ==
  pc = "idle" => \A n \in Dense \ Leaves :
    \/ dht[n] = ConcatHash(dht[Left(n)], dht[Right(n)])
    \/ DirtyNode(n) /\ \E l \in dirty \cap Pages : l[1] = n[1] /\ dht[l] # PageHash(mem[l])

\* The hashes are true and stay so: what is out of date between operations is
\* where the next update looks for it, across batches, replacements and restarts.
HashesTrue == TypeOK /\ UpdatedHashesTrue /\ StalePagesDirty /\ StaleNodesReached

\* A proof below page level is about the page as it is and fits the hashes above.
ProofsCurrent ==
  served # <<>> => served[2] = PageHash(mem[served[1]]) /\ served[2] = dht[served[1]]

\* update() returns.
UpdatesEnd == [](pc # "idle" => <>(pc = "idle"))
=============================================================================
