-------------------------- MODULE PageHashTreeCache --------------------------
(***************************************************************************)
(* The page_hash_tree_cache: a fixed array of entries, each a copy of a    *)
(* page and the hash tree of that copy, lent to whoever hashes the page,   *)
(* and recycled least recently used first.  Entries and LRU list live in a *)
(* file that may be mapped shared; the map from addresses to entries is    *)
(* rebuilt when the file is opened.                                        *)
(*                                                                         *)
(* The borrowers are the two of hash_tree: the update, which borrows an    *)
(* entry per dirty page until the cache has none left, hashes the batch in *)
(* parallel and returns it, and the proof, which borrows one entry and     *)
(* trusts it without looking at memory when it is a hit.                   *)
(*                                                                         *)
(* Hashes are injective: the hash of a word is the word, the root of a     *)
(* page is the function from words to their hashes.                        *)
(***************************************************************************)
EXTENDS Integers, Sequences, FiniteSets, SequencesExt

CONSTANTS MaxPage,      \* pages are 0 .. MaxPage
          NumEntries,   \* phtc_size
          Words,        \* the words of a page
          Values,       \* what a word can hold
          CrashPoints   \* values of pc at which the process may be killed

Pages == 0 .. MaxPage
Entries == 1 .. NumEntries
Zero == 0
PristinePage == [w \in Words |-> Zero]

\* Page 0 holds the shadow registers, which every update takes for dirty.
AlwaysDirty == {0}

ASSUME CacheAssumption == NumEntries \in Nat \ {0} /\ MaxPage \in Nat /\ Zero \in Values

VARIABLES mem,      \* the pages themselves
          dirty,    \* pages written since the last update
          ent,      \* m_entries
          lru,      \* m_lru, most recently used first
          map,      \* m_map: entry of a page, 0 when it has none
          todo,     \* dirty pages the update has still to borrow, lowest first
          batch,    \* entries lent to the update, with the stage each is at
          pc, cur,  \* the borrow in progress: for which page and entry
          proof,    \* last proof served: page and root hash, or <<>>
          failed,   \* a runtime_error was thrown, or there was nothing to lend
          killed    \* history: some owner was killed inside an operation

vars == <<mem, dirty, ent, lru, map, todo, batch, pc, cur, proof, failed, killed>>

Idle == [page |-> 0, entry |-> 0, hit |-> FALSE, for |-> "none"]

FreeEntry == [paddr |-> 0, borrowed |-> FALSE, page |-> PristinePage,
              leaf |-> PristinePage, root |-> PristinePage, queue |-> {}]

Init ==
  /\ mem \in [Pages -> [Words -> Values]]
  /\ dirty = Pages
  /\ ent = [e \in Entries |-> FreeEntry]
  /\ lru = <<>>
  /\ map = [p \in Pages |-> 0]
  /\ todo = {} /\ batch = <<>>
  /\ pc = "idle" /\ cur = Idle
  /\ proof = <<>> /\ failed = FALSE /\ killed = FALSE

Write(p, w, v) ==
  /\ pc = "idle" /\ mem[p][w] # v
  /\ mem' = [mem EXCEPT ![p][w] = v]
  /\ dirty' = dirty \cup {p}
  /\ proof' = <<>>
  /\ UNCHANGED <<ent, lru, map, todo, batch, pc, cur, failed>>

-----------------------------------------------------------------------------
(* borrow_entry *)

\* Pushed without being unlinked.
BadToFront(e) == <<e>> \o lru
ToFront(e) ==
  <<e>> \o (IF e \in ToSet(lru) THEN RemoveAt(lru, CHOOSE i \in DOMAIN lru : lru[i] = e) ELSE lru)

\* The exception leaves hash_tree; what was lent stays lent.
Throw == failed' = TRUE /\ pc' = "idle" /\ cur' = Idle /\ todo' = {} /\ batch' = <<>>

BorrowHit ==
  /\ pc = "borrow" /\ map[cur.page] # 0
  /\ LET e == map[cur.page] IN
     IF ent[e].borrowed
       THEN Throw /\ UNCHANGED <<ent, lru>>
       ELSE /\ lru' = ToFront(e)
            /\ ent' = [ent EXCEPT ![e].borrowed = TRUE]
            /\ cur' = [cur EXCEPT !.entry = e, !.hit = TRUE]
            /\ pc' = "lent"
            /\ UNCHANGED <<todo, batch, failed>>
  /\ UNCHANGED <<mem, dirty, map, proof>>

\* The map after entry e is given to page q: an evicted page loses its entry.
BadRemapped(e, q) == [map EXCEPT ![q] = e]
Remapped(e, q) ==
  [p \in Pages |-> IF p = q THEN e
                   ELSE IF Len(lru) = NumEntries /\ p = ent[e].paddr THEN 0 ELSE map[p]]

\* A miss takes the next unused entry, or evicts the least recently used one.
BorrowMiss ==
  /\ pc = "borrow" /\ map[cur.page] = 0
  /\ LET e == IF Len(lru) < NumEntries THEN Len(lru) + 1 ELSE lru[Len(lru)] IN
     IF ent[e].borrowed
       THEN /\ IF Len(lru) < NumEntries THEN Throw
               ELSE pc' = "none" /\ UNCHANGED <<cur, todo, batch, failed>>
            /\ UNCHANGED <<ent, lru, map>>
       ELSE /\ lru' = ToFront(e)
            /\ map' = Remapped(e, cur.page)
            /\ cur' = [cur EXCEPT !.entry = e, !.hit = FALSE]
            /\ pc' = "flag"
            /\ UNCHANGED <<ent, todo, batch, failed>>
  /\ UNCHANGED <<mem, dirty, proof>>

\* set_borrowed(true) and set_paddr_page(), two stores into the file.
BadSetBorrowed ==
  /\ pc = "flag" /\ pc' = "paddr"
  /\ UNCHANGED <<mem, dirty, ent, lru, map, todo, batch, cur, proof, failed>>
SetBorrowed ==
  /\ pc = "flag"
  /\ ent' = [ent EXCEPT ![cur.entry].borrowed = TRUE]
  /\ pc' = "paddr"
  /\ UNCHANGED <<mem, dirty, lru, map, todo, batch, cur, proof, failed>>

SetPaddr ==
  /\ pc = "paddr"
  /\ ent' = [ent EXCEPT ![cur.entry].paddr = cur.page]
  /\ pc' = "lent"
  /\ UNCHANGED <<mem, dirty, lru, map, todo, batch, cur, proof, failed>>

-----------------------------------------------------------------------------
(* enqueue_hash_entry and simd_page_hasher::flush, on one entry. *)

\* A pristine page resets the entry; otherwise the words that differ from the
\* entry's copy are copied and queued, to be hashed by the flush.
BadEnqueued(e) ==
  LET page == mem[ent[e].paddr] IN
  [ent[e] EXCEPT !.page = page,
                 !.queue = IF page = PristinePage THEN {} ELSE {w \in Words : page[w] # ent[e].page[w]}]
Enqueued(e) ==
  LET page == mem[ent[e].paddr] IN
  IF page = PristinePage
    THEN [ent[e] EXCEPT !.page = PristinePage, !.leaf = PristinePage, !.root = PristinePage]
    ELSE [ent[e] EXCEPT !.page = page, !.queue = {w \in Words : page[w] # ent[e].page[w]}]

Flushed(e) ==
  LET leaves == [w \in Words |-> IF w \in ent[e].queue THEN ent[e].page[w] ELSE ent[e].leaf[w]]
  IN  [ent[e] EXCEPT !.leaf = leaves, !.queue = {},
                     !.root = IF ent[e].queue = {} THEN @ ELSE leaves]

-----------------------------------------------------------------------------
(* hash_tree::update_dirty_pages *)

BeginUpdate ==
  /\ pc = "idle"
  /\ todo' = dirty \cup AlwaysDirty
  /\ pc' = "next"
  /\ proof' = <<>> /\ failed' = FALSE
  /\ UNCHANGED <<mem, dirty, ent, lru, map, batch, cur>>

NextPage ==
  /\ pc = "next"
  /\ \E p \in todo : /\ \A q \in todo : p <= q
                     /\ cur' = [Idle EXCEPT !.page = p, !.for = "update"]
  /\ pc' = "borrow"
  /\ UNCHANGED <<mem, dirty, ent, lru, map, todo, batch, proof, failed>>

AddToBatch ==
  /\ pc = "lent" /\ cur.for = "update"
  /\ batch' = Append(batch, [entry |-> cur.entry, stage |-> "lent"])
  /\ todo' = todo \ {cur.page}
  /\ pc' = "next" /\ cur' = Idle
  /\ UNCHANGED <<mem, dirty, ent, lru, map, proof, failed>>

\* The cache ran out of entries to lend: hash and return the batch, then try
\* again; when nothing comes back from an empty batch, the update fails and
\* kills the cache with clear().
RunOut ==
  /\ pc = "none" /\ cur.for = "update"
  /\ IF batch # <<>>
       THEN pc' = "hash" /\ UNCHANGED <<ent, lru, map, cur, todo, batch, failed>>
       ELSE Throw /\ ent' = [e \in Entries |-> FreeEntry] /\ lru' = <<>>
                  /\ map' = [p \in Pages |-> 0]
  /\ UNCHANGED <<mem, dirty, proof>>

LastBatch ==
  /\ pc = "next" /\ todo = {}
  /\ pc' = "hash"
  /\ UNCHANGED <<mem, dirty, ent, lru, map, todo, batch, cur, proof, failed>>

\* The parallel loop: the threads enqueue and flush their entries in any order.
HashEntry(i) ==
  /\ pc = "hash"
  /\ LET e == batch[i].entry IN
     \/ /\ batch[i].stage = "lent"
        /\ ent' = [ent EXCEPT ![e] = Enqueued(e)]
        /\ batch' = [batch EXCEPT ![i].stage = "queued"]
     \/ /\ batch[i].stage = "queued"
        /\ ent' = [ent EXCEPT ![e] = Flushed(e)]
        /\ batch' = [batch EXCEPT ![i].stage = "hashed"]
  /\ UNCHANGED <<mem, dirty, lru, map, todo, pc, cur, proof, failed>>

Joined == \A i \in DOMAIN batch : batch[i].stage = "hashed"

BadReturned(e) == ent
Returned(e) == [ent EXCEPT ![e].borrowed = FALSE]

ReturnEntry ==
  /\ pc = "hash" /\ Joined /\ batch # <<>>
  /\ ent' = Returned(Head(batch).entry)
  /\ batch' = Tail(batch)
  /\ UNCHANGED <<mem, dirty, lru, map, todo, pc, cur, proof, failed>>

EndBatch ==
  /\ pc = "hash" /\ batch = <<>>
  /\ \/ /\ todo # {} /\ pc' = "borrow" /\ UNCHANGED dirty
     \/ /\ todo = {} /\ pc' = "idle" /\ dirty' = {}
  /\ UNCHANGED <<mem, ent, lru, map, todo, batch, cur, proof, failed>>

-----------------------------------------------------------------------------
(* hash_tree::get_page_proof, after machine::get_proof updated the tree. *)

BeginProof(p) ==
  /\ pc = "idle" /\ dirty = {}
  /\ cur' = [Idle EXCEPT !.page = p, !.for = "proof"]
  /\ pc' = "borrow"
  /\ proof' = <<>>
  /\ UNCHANGED <<mem, dirty, ent, lru, map, todo, batch, failed>>

\* A miss hashes the page first; a hit is trusted.
EnqueueProof ==
  /\ pc = "lent" /\ cur.for = "proof" /\ ~cur.hit
  /\ ent' = [ent EXCEPT ![cur.entry] = Enqueued(cur.entry)]
  /\ pc' = "flush"
  /\ UNCHANGED <<mem, dirty, lru, map, todo, batch, cur, proof, failed>>

FlushProof ==
  /\ pc = "flush"
  /\ ent' = [ent EXCEPT ![cur.entry] = Flushed(cur.entry)]
  /\ pc' = "lent" /\ cur' = [cur EXCEPT !.hit = TRUE]
  /\ UNCHANGED <<mem, dirty, lru, map, todo, batch, proof, failed>>

ServeProof ==
  /\ pc = "lent" /\ cur.for = "proof" /\ cur.hit
  /\ proof' = <<cur.page, ent[cur.entry].root>>
  /\ ent' = Returned(cur.entry)
  /\ pc' = "idle" /\ cur' = Idle
  /\ UNCHANGED <<mem, dirty, lru, map, todo, batch, failed>>

-----------------------------------------------------------------------------
\* The process is killed and another one opens the same files.  The map is
\* rebuilt from the LRU list; of two entries with one address the first stays.
Reopened(p) ==
  LET at == {i \in DOMAIN lru : ent[lru[i]].paddr = p}
  IN  IF at = {} THEN 0 ELSE lru[CHOOSE i \in at : \A j \in at : i <= j]

\* Entries are taken as they are in the file, borrowed flags included.
ReopenedEntry(e) == [ent[e] EXCEPT !.queue = {}]

Crash ==
  /\ pc \in CrashPoints
  /\ map' = [p \in Pages |-> Reopened(p)]
  /\ todo' = {} /\ batch' = <<>> /\ pc' = "idle" /\ cur' = Idle
  /\ proof' = <<>> /\ failed' = FALSE
  /\ ent' = [e \in Entries |-> ReopenedEntry(e)]
  /\ dirty' = dirty \cup AlwaysDirty
  /\ killed' = (killed \/ pc # "idle")
  /\ UNCHANGED <<mem, lru>>

Step == \/ BorrowHit \/ BorrowMiss \/ SetBorrowed \/ SetPaddr
        \/ NextPage \/ AddToBatch \/ RunOut \/ LastBatch
        \/ \E i \in DOMAIN batch : HashEntry(i)
        \/ ReturnEntry \/ EndBatch
        \/ EnqueueProof \/ FlushProof \/ ServeProof

Call == \/ \E p \in Pages, w \in Words, v \in Values : Write(p, w, v)
        \/ BeginUpdate
        \/ \E p \in Pages : BeginProof(p)

Next == \/ (Step \/ Call) /\ UNCHANGED killed
        \/ Crash

Spec == Init /\ [][Next]_vars
-----------------------------------------------------------------------------
(* Properties *)

TypeOK ==
  /\ mem \in [Pages -> [Words -> Values]] /\ dirty \subseteq Pages
  /\ \A e \in Entries :
       /\ ent[e].paddr \in Pages /\ ent[e].borrowed \in BOOLEAN /\ ent[e].queue \subseteq Words
       /\ {ent[e].page, ent[e].leaf, ent[e].root} \subseteq [Words -> Values]
  /\ lru \in Seq(Entries) /\ Len(lru) <= NumEntries
  /\ map \in [Pages -> 0 .. NumEntries]
  /\ todo \subseteq Pages
  /\ \A i \in DOMAIN batch : batch[i].entry \in Entries
  /\ failed \in BOOLEAN

\* The list, the array and the map agree between borrows: the used entries are
\* a prefix of m_entries, which borrow_entry() relies on when it takes
\* m_entries[m_lru.size()], each in the list once, mapped from its address and
\* from no other.  A borrow cut short can leave two entries with the address of
\* page 0, which unused entries have, and with no other address.
ListsAgree ==
  /\ IsInjective(lru) /\ ToSet(lru) = 1 .. Len(lru)
  /\ pc \in {"idle", "next", "hash"} =>
       \A p \in Pages, e \in Entries :
         (killed => p # FreeEntry.paddr) => (map[p] = e <=> e <= Len(lru) /\ ent[e].paddr = p)

\* "In theory, we have now returned all borrowed cache entries": unless a
\* process was killed inside an operation, no borrower of hash_tree finds an
\* entry already borrowed or nothing to lend (which a proof only asserts),
\* however small the cache.
NeverFails == failed \/ (pc = "none" /\ cur.for = "proof") => killed

\* An entry nobody has borrowed holds the hash tree of its own copy of the
\* page, in the file too, so that the words it later skips as unchanged have
\* the right hashes.
ReturnedEntriesConsistent ==
  \A e \in Entries : ~ent[e].borrowed => ent[e].leaf = ent[e].page /\ ent[e].root = ent[e].leaf

\* The cache can be trusted between borrows: its three structures agree, and the
\* entries in it hold the hashes of what they are copies of.
CacheConsistent == TypeOK /\ ListsAgree /\ ReturnedEntriesConsistent

\* A proof below page level is about the page as it is, although a cache hit
\* is served without reading memory.
ProofsCurrent == proof # <<>> => proof[2] = mem[proof[1]]
=============================================================================
