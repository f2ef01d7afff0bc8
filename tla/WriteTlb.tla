------------------------------ MODULE WriteTlb ------------------------------
(***************************************************************************)
(* How the machine knows which pages its hash tree must rehash.  Stores of *)
(* the guest that hit the write TLB touch memory and mark nothing: a page  *)
(* is marked dirty when it leaves the TLB, and when the tree is updated    *)
(* every page in the TLB is.  A slot has a shadow (part of the hashed,     *)
(* stored state) and a hot copy with a host pointer, which starts          *)
(* unverified and is filled from the shadow the first time it is looked at.*)
(*                                                                         *)
(* The update itself is the one of HashTree: it rehashes the dirty pages   *)
(* and cleans them.  collect_mcycle_root_hashes() tracks writes by itself, *)
(* page by page, and updates the tree without looking at the TLB.          *)
(***************************************************************************)
EXTENDS Integers, FiniteSets

CONSTANTS Pages,        \* pages covered by the hash tree
          Always,       \* those of the shadow registers and the shadow TLB
          Drive,        \* those of a range that can be replaced
          VAddrs,       \* virtual pages
          Sharings,     \* sets of pages that may be those of the shared ranges
          Slots,        \* slots of the write TLB
          SlotOf        \* tlb_slot_index

Memory == Pages \ Always
Invalid == -1           \* TLB_INVALID_PAGE
Unverified == -2        \* TLB_UNVERIFIED_PAGE
NoPage == -1            \* where a slot that is empty or does not verify leads

ASSUME WriteTlbAssumption ==
  /\ Always \subseteq Pages /\ Drive \subseteq Memory /\ NoPage \notin Pages
  /\ Sharings \subseteq SUBSET Pages
  /\ VAddrs \subseteq Nat /\ SlotOf \in [VAddrs -> Slots]

VARIABLES stale,    \* pages whose memory changed since they were last hashed
          dirty,    \* pages marked dirty in their dirty_page_tree
          hot,      \* penumbra.tlb[TLB_WRITE]; live: is the host pointer still mapped?
          shadow,   \* shadow.tlb[TLB_WRITE]
          ctx,      \* context.dirty_pages of a collection in progress
          mode,     \* "idle", or "collect" inside collect_mcycle_root_hashes()
          synced,   \* nothing ran since the tree was updated
          alive     \* no store went through an unmapped host pointer

vars == <<stale, dirty, hot, shadow, ctx, mode, synced, alive>>

Empty == [va |-> Invalid, page |-> NoPage]
NoHot == [va |-> Invalid, page |-> NoPage, live |-> TRUE]
Unseen == [va |-> Unverified, page |-> NoPage, live |-> TRUE]
Mapping(va, p) == [va |-> va, page |-> p]
HotMapping(va, p) == [va |-> va, page |-> p, live |-> TRUE]

\* A new machine: nothing hashed, all dirty, TLB empty, nothing in the hot TLB.
Init ==
  /\ stale = Pages /\ dirty = Pages
  /\ shadow = [s \in Slots |-> Empty]
  /\ hot = [s \in Slots |-> Unseen]
  /\ ctx = {} /\ mode = "idle" /\ synced = FALSE /\ alive = TRUE

-----------------------------------------------------------------------------
\* init_hot_tlb_slot: an unverified slot is filled from its shadow if that verifies.
Verified(s) ==
  IF hot[s].va # Unverified THEN hot[s]
  ELSE IF shadow[s].va # Invalid /\ shadow[s].page \in Memory
    THEN HotMapping(shadow[s].va, shadow[s].page)
  ELSE NoHot

\* mark_write_tlb_dirty_page: the page it marks, if any.
Marked(s) == IF Verified(s).va = Invalid THEN {} ELSE {shadow[s].page}

\* The page a slot is about to lose is marked before the slot is overwritten.
BadOutgoing(s) == {}
Outgoing(s) == Marked(s)

\* A store on a TLB hit.  The page of an unmapped host pointer is gone: the
\* process dies.
StoreHit(va) ==
  LET s == SlotOf[va]
      h == Verified(s)
  IN  /\ alive /\ h.va = va
      /\ hot' = [hot EXCEPT ![s] = h]
      /\ alive' = h.live
      /\ stale' = stale \cup Always \cup (IF h.live THEN {h.page} ELSE {})
      /\ ctx' = IF mode = "collect" THEN ctx \cup {h.page} ELSE ctx
      /\ synced' = FALSE
      /\ UNCHANGED <<dirty, shadow, mode>>

\* What a collection notes of the pages it writes.
BadTracked(W) == W \ Memory
Tracked(W) == W

\* A store on a miss: the walk may set bits in page-table entries of the pages
\* in ptes, then the slot is replaced and the store done.
StoreMiss(va, p, ptes) ==
  LET s == SlotOf[va]
  IN  /\ alive /\ Verified(s).va # va
      /\ hot' = [hot EXCEPT ![s] = HotMapping(va, p)]
      /\ shadow' = [shadow EXCEPT ![s] = Mapping(va, p)]
      /\ stale' = stale \cup Always \cup ptes \cup {p}
      /\ IF mode = "collect"
           THEN /\ ctx' = ctx \cup Tracked(ptes \cup {p} \cup Always)
                /\ dirty' = dirty \cup Outgoing(s)
           ELSE /\ dirty' = dirty \cup Outgoing(s) \cup ptes
                /\ UNCHANGED ctx
      /\ synced' = FALSE
      /\ UNCHANGED <<mode, alive>>

\* A store on a miss that ends in a device or in an exception: the slot stays,
\* but it was looked at.
StoreElsewhere(va, ptes) ==
  LET s == SlotOf[va]
  IN  /\ alive /\ Verified(s).va # va
      /\ hot' = [hot EXCEPT ![s] = Verified(s)]
      /\ stale' = stale \cup Always \cup ptes
      /\ IF mode = "collect" THEN ctx' = ctx \cup Tracked(ptes) /\ UNCHANGED dirty
         ELSE dirty' = dirty \cup ptes /\ UNCHANGED ctx
      /\ synced' = FALSE
      /\ UNCHANGED <<shadow, mode, alive>>

\* flush_tlb_set: every slot is overwritten by an invalid one.
Flush ==
  /\ alive
  /\ hot' = [s \in Slots |-> NoHot]
  /\ shadow' = [s \in Slots |-> Empty]
  /\ dirty' = dirty \cup UNION {Outgoing(s) : s \in Slots}
  /\ stale' = stale \cup Always
  /\ ctx' = IF mode = "collect" THEN ctx \cup Tracked(Always) ELSE ctx
  /\ synced' = FALSE
  /\ UNCHANGED <<mode, alive>>

\* A slot written by the microarchitecture: the hot copy waits for verification.
WriteUnverified(s, slot) ==
  /\ alive /\ mode = "idle"
  /\ hot' = [hot EXCEPT ![s] = Unseen]
  /\ shadow' = [shadow EXCEPT ![s] = slot]
  /\ dirty' = dirty \cup Outgoing(s)
  /\ stale' = stale \cup Always
  /\ synced' = FALSE
  /\ UNCHANGED <<ctx, mode, alive>>

\* write_word (the microarchitecture's stores), write_memory and fill_memory.
WriteWord(p) ==
  /\ alive /\ mode = "idle"
  /\ stale' = stale \cup {p}
  /\ dirty' = dirty \cup {p}
  /\ synced' = FALSE
  /\ UNCHANGED <<hot, shadow, ctx, mode, alive>>

-----------------------------------------------------------------------------
(* The host *)

\* Overwriting the whole shadow restores another machine's registers and TLB:
\* pages of the old TLB are marked first, and no hot slot survives.
BadRefreshed == hot
Refreshed == [s \in Slots |-> Unseen]

WriteShadow(slots) ==
  /\ alive /\ mode = "idle"
  /\ dirty' = dirty \cup UNION {Marked(s) : s \in Slots}
  /\ shadow' = slots
  /\ hot' = Refreshed
  /\ stale' = stale \cup Always
  /\ synced' = FALSE
  /\ UNCHANGED <<ctx, mode, alive>>

\* store() and load of a machine that was itself loaded when new.  Ranges that
\* are not shared are stored as they were then, the others, with their trees
\* and dirty flags, as they are: nothing is marked on the way, and the hot TLB
\* is new.  The same happens to files mapped shared when a machine is destroyed.
Reopened == [s \in Slots |-> Unseen]

Reopen(shared) ==
  /\ alive /\ mode = "idle"
  /\ stale' = (stale \cap shared) \cup (Pages \ shared)
  /\ dirty' = (dirty \cap shared) \cup (Pages \ shared)
  /\ shadow' = IF Always \subseteq shared THEN shadow ELSE [s \in Slots |-> Empty]
  /\ hot' = Reopened
  /\ synced' = FALSE
  /\ UNCHANGED <<ctx, mode, alive>>

\* replace_memory_range, with new tree files or with clean ones of a stored machine.
Replace(clean) ==
  /\ alive /\ mode = "idle"
  /\ IF clean THEN stale' = stale \ Drive /\ dirty' = dirty \ Drive
     ELSE stale' = stale \cup Drive /\ dirty' = dirty \cup Drive
  /\ hot' = [s \in Slots |-> IF hot[s].page \in Drive THEN [hot[s] EXCEPT !.live = FALSE] ELSE hot[s]]
  /\ synced' = FALSE
  /\ UNCHANGED <<shadow, ctx, mode, alive>>

\* hash_tree::update on the pages marked dirty.
Rehash(marked) == stale' = stale \ marked /\ dirty' = {} /\ synced' = TRUE

\* update_hash_tree, which get_root_hash(), get_proof() and others start with.
UpdateTree ==
  /\ hot' = [s \in Slots |-> Verified(s)]
  /\ Rehash(dirty \cup Always \cup UNION {Marked(s) : s \in Slots})

GetRootHash ==
  /\ alive /\ mode = "idle"
  /\ UpdateTree
  /\ UNCHANGED <<shadow, ctx, mode, alive>>

BeginCollect ==
  /\ alive /\ mode = "idle"
  /\ UpdateTree
  /\ mode' = "collect" /\ ctx' = {}
  /\ UNCHANGED <<shadow, alive>>

\* The end of a period: the interpreter wrote mcycle, which notes the shadow
\* pages; the noted pages are marked, the tree is updated and its root taken.
Forgotten == {}
CollectHash ==
  /\ alive /\ mode = "collect"
  /\ Rehash(dirty \cup ctx \cup Always)
  /\ ctx' = Forgotten
  /\ UNCHANGED <<hot, shadow, mode, alive>>

\* The loop returns only after a period was closed or before one began.
EndCollect ==
  /\ alive /\ mode = "collect" /\ synced
  /\ mode' = "idle"
  /\ UNCHANGED <<stale, dirty, hot, shadow, ctx, synced, alive>>

ShadowSlot == [va : VAddrs \cup {Invalid}, page : Memory \cup {NoPage}]

\* Where a walk finds page-table entries to set bits in: at most one page here.
PteSets == {{}} \cup {{q} : q \in Memory}

Next ==
  \/ \E va \in VAddrs : StoreHit(va)
  \/ \E va \in VAddrs, p \in Memory, ptes \in PteSets : StoreMiss(va, p, ptes)
  \/ \E va \in VAddrs, ptes \in PteSets : StoreElsewhere(va, ptes)
  \/ Flush
  \/ \E s \in Slots, slot \in ShadowSlot : WriteUnverified(s, slot)
  \/ \E p \in Memory : WriteWord(p)
  \/ \E slots \in [Slots -> ShadowSlot] : WriteShadow(slots)
  \/ \E shared \in Sharings : Reopen(shared)
  \/ \E clean \in BOOLEAN : Replace(clean)
  \/ GetRootHash \/ BeginCollect \/ CollectHash \/ EndCollect

Spec == Init /\ [][Next]_vars

-----------------------------------------------------------------------------
(* Properties *)

TypeOK ==
  /\ stale \subseteq Pages /\ dirty \subseteq Pages /\ ctx \subseteq Pages
  /\ hot \in [Slots -> [va : VAddrs \cup {Invalid, Unverified}, page : Memory \cup {NoPage}, live : BOOLEAN]]
  /\ shadow \in [Slots -> ShadowSlot]
  /\ mode \in {"idle", "collect"} /\ synced \in BOOLEAN /\ alive \in BOOLEAN
  /\ mode = "idle" => ctx = {}

\* "could not mark dirty page for a TLB entry: TLB is corrupt" is never thrown,
\* and a hit writes the page that will be marked: a hot slot that can hit has
\* the mapping of its shadow, in a memory range.
HotAgreesWithShadow ==
  \A s \in Slots : hot[s].va \in VAddrs =>
     hot[s].va = shadow[s].va /\ hot[s].page = shadow[s].page /\ hot[s].page \in Memory

\* What verify_hash_tree() checks at any moment: a page changed since it was
\* hashed is marked dirty, or will be when the write TLB is looked at or the
\* shadow is taken for dirty, or is noted by the collection in progress.
NoWriteLost ==
  \A p \in stale : \/ p \in dirty \/ p \in Always \/ p \in ctx
                   \/ \E s \in Slots : p \in Marked(s)

\* A root hash, taken by update_hash_tree() or by a collection that never looks
\* at the TLB, covers every write before it.
RootCoversWrites == synced => stale = {}
=============================================================================
