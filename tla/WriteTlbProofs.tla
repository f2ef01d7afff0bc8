--------------------------- MODULE WriteTlbProofs ---------------------------
(***************************************************************************)
(* Whatever the sizes of the TLB and of memory: no write is lost between   *)
(* two updates of the hash tree, and a root hash covers every write before *)
(* it, also when it is taken by a collection that never looks at the TLB.  *)
(***************************************************************************)
EXTENDS WriteTlb, TLAPS

\* NoWriteLost is not enough inside a collection, whose updates ignore the TLB:
\* there a stale page is marked, noted or of the shadow.  And what a collection
\* noted is gone when it returns.
CollectionTracks == mode = "collect" => stale \subseteq dirty \cup ctx \cup Always
NotesSpent == synced => ctx = {}

IInv == /\ TypeOK /\ HotAgreesWithShadow /\ NoWriteLost /\ RootCoversWrites
        /\ CollectionTracks /\ NotesSpent

\* The hypothesis of the theorems: where a memory range is shared the processor,
\* whose shadow TLB knows the pages written last, is shared too.
SafeSharing == \A shared \in Sharings : Always \subseteq shared \/ shared \cap Memory = {}

HotSlot == [va : VAddrs \cup {Invalid, Unverified}, page : Memory \cup {NoPage}, live : BOOLEAN]

\* What looking at a slot (init_hot_tlb_slot, then mark_write_tlb_dirty_page)
\* gives: a slot that is invalid, or that has the mapping of its shadow, in
\* memory, and whose page is the one marked.
LEMMA Looked ==
  ASSUME TypeOK, HotAgreesWithShadow, NEW s \in Slots
  PROVE  /\ Verified(s) \in HotSlot
         /\ Verified(s).va = Invalid => Marked(s) = {}
         /\ Verified(s).va # Invalid =>
              /\ Verified(s).va \in VAddrs /\ Verified(s).va = shadow[s].va
              /\ Verified(s).page = shadow[s].page /\ shadow[s].page \in Memory
              /\ Marked(s) = {Verified(s).page}
         /\ Marked(s) \subseteq Memory
<1>1. hot[s] \in HotSlot /\ shadow[s] \in ShadowSlot
  BY DEF TypeOK, HotSlot
<1>2. Invalid \notin VAddrs /\ Unverified \notin VAddrs
  BY WriteTlbAssumption DEF Invalid, Unverified
<1>3. CASE hot[s].va # Unverified
  <2>1. Verified(s) = hot[s]
    BY <1>3 DEF Verified
  <2>2. hot[s].va # Invalid => hot[s].va \in VAddrs
    BY <1>1, <1>3 DEF HotSlot
  <2> QED
    BY <1>1, <1>2, <2>1, <2>2 DEF HotAgreesWithShadow, Marked
<1>4. CASE hot[s].va = Unverified /\ shadow[s].va # Invalid /\ shadow[s].page \in Memory
  <2>1. Verified(s) = HotMapping(shadow[s].va, shadow[s].page)
    BY <1>4 DEF Verified
  <2> QED
    BY <1>1, <1>2, <1>4, <2>1 DEF HotMapping, ShadowSlot, HotSlot, Marked
<1>5. CASE hot[s].va = Unverified /\ ~(shadow[s].va # Invalid /\ shadow[s].page \in Memory)
  <2>1. Verified(s) = NoHot
    BY <1>5 DEF Verified
  <2> QED
    BY <2>1 DEF NoHot, HotSlot, Marked
<1> QED
  BY <1>3, <1>4, <1>5

\* A page in the TLB is still marked when the slot is looked at later, if its
\* shadow is the same and its hot copy was kept, looked at or forgotten.
LEMMA StaysMarked ==
  ASSUME TypeOK, HotAgreesWithShadow, NEW s \in Slots,
         shadow'[s] = shadow[s],
         hot'[s].va \in {hot[s].va, Verified(s).va, Unverified}
  PROVE  Marked(s) \subseteq Marked(s)'
<1>1. CASE Marked(s) = {}
  BY <1>1
<1>2. CASE Marked(s) # {}
  <2>1. /\ Verified(s).va # Invalid /\ Marked(s) = {shadow[s].page}
        /\ shadow[s].va = Verified(s).va /\ shadow[s].page \in Memory
    BY <1>2, Looked
  <2>2. hot[s].va = Unverified \/ hot[s].va = Verified(s).va
    BY DEF Verified
  <2>3. (Verified(s).va)' # Invalid
    <3>1. CASE hot'[s].va = Unverified
      <4>1. Verified(s)' = HotMapping(shadow[s].va, shadow[s].page)
        BY <2>1, <3>1 DEF Verified
      <4> QED
        BY <2>1, <4>1 DEF HotMapping
    <3>2. CASE hot'[s].va # Unverified
      BY <2>1, <2>2, <3>2 DEF Verified
    <3> QED
      BY <3>1, <3>2
  <2> QED
    BY <2>1, <2>3 DEF Marked
<1> QED
  BY <1>1, <1>2

InTlb == UNION {Marked(s) : s \in Slots}

LEMMA NoWriteLostMeans ==
  /\ NoWriteLost <=> stale \subseteq dirty \cup Always \cup ctx \cup InTlb
  /\ NoWriteLost' <=> stale' \subseteq dirty' \cup Always \cup ctx' \cup InTlb'
BY DEF NoWriteLost, InTlb

\* The parts of TypeOK, to be shown one by one.
HotTyped == hot \in [Slots -> HotSlot]
ShadowTyped == shadow \in [Slots -> ShadowSlot]
SetsTyped == stale \subseteq Pages /\ dirty \subseteq Pages /\ ctx \subseteq Pages
ModeTyped == /\ mode \in {"idle", "collect"} /\ synced \in BOOLEAN /\ alive \in BOOLEAN
             /\ mode = "idle" => ctx = {}

LEMMA TypeParts ==
  /\ TypeOK <=> HotTyped /\ ShadowTyped /\ SetsTyped /\ ModeTyped
  /\ TypeOK' <=> HotTyped' /\ ShadowTyped' /\ SetsTyped' /\ ModeTyped'
BY DEF TypeOK, HotTyped, ShadowTyped, SetsTyped, ModeTyped, HotSlot

LEMMA InitInv == Init => IInv
<1> SUFFICES ASSUME Init PROVE IInv
  OBVIOUS
<1> USE WriteTlbAssumption
<1>1. TypeOK
  BY DEF Init, TypeOK, Empty, Unseen, ShadowSlot, Memory
<1>2. HotAgreesWithShadow
  BY DEF Init, HotAgreesWithShadow, Unseen, Unverified
<1> QED
  BY <1>1, <1>2 DEF Init, IInv, NoWriteLost, RootCoversWrites, CollectionTracks, NotesSpent

LEMMA StoreHitKeeps ==
  ASSUME IInv, NEW va \in VAddrs, StoreHit(va)
  PROVE  IInv'
<1> DEFINE s == SlotOf[va]
<1>1. s \in Slots /\ Invalid # va
  BY WriteTlbAssumption DEF Invalid
<1>2. /\ Verified(s) \in HotSlot /\ Verified(s).va = va
      /\ va = shadow[s].va /\ Verified(s).page = shadow[s].page /\ Verified(s).page \in Memory
      /\ Marked(s) = {Verified(s).page}
  BY <1>1, Looked DEF IInv, StoreHit
<1>3. hot' = [hot EXCEPT ![s] = Verified(s)] /\ shadow' = shadow
  BY DEF StoreHit
<1>4. TypeOK'
  <2> USE TypeParts DEF IInv
  <2>1. HotTyped' /\ ShadowTyped'
    BY <1>1, <1>2, <1>3 DEF HotTyped, ShadowTyped
  <2>2. SetsTyped'
    BY <1>2, WriteTlbAssumption DEF SetsTyped, StoreHit, Memory
  <2>3. ModeTyped'
    BY <1>2 DEF ModeTyped, StoreHit, HotSlot
  <2> QED
    BY <2>1, <2>2, <2>3
<1>5. HotAgreesWithShadow'
  BY <1>1, <1>2, <1>3 DEF IInv, TypeOK, HotAgreesWithShadow
<1>6. ASSUME NEW t \in Slots PROVE Marked(t) \subseteq Marked(t)'
  BY <1>1, <1>3, StaysMarked DEF IInv, TypeOK
<1>7. InTlb \subseteq InTlb' /\ Verified(s).page \in InTlb'
  BY <1>1, <1>2, <1>6 DEF InTlb
<1>8. NoWriteLost'
  BY <1>7, NoWriteLostMeans DEF IInv, StoreHit
<1>9. CollectionTracks'
  BY DEF IInv, StoreHit, CollectionTracks
<1> QED
  BY <1>4, <1>5, <1>8, <1>9 DEF IInv, StoreHit, RootCoversWrites, NotesSpent

LEMMA StoreMissKeeps ==
  ASSUME IInv, NEW va \in VAddrs, NEW p \in Memory, NEW ptes \in PteSets, StoreMiss(va, p, ptes)
  PROVE  IInv'
<1> DEFINE s == SlotOf[va]
<1>1. s \in Slots /\ Invalid # va /\ Unverified # va
  BY WriteTlbAssumption DEF Invalid, Unverified
<1>2. ptes \subseteq Memory
  BY DEF PteSets
<1>3. /\ hot' = [hot EXCEPT ![s] = HotMapping(va, p)]
      /\ shadow' = [shadow EXCEPT ![s] = Mapping(va, p)]
  BY DEF StoreMiss
<1>4. Outgoing(s) = Marked(s) /\ Marked(s) \subseteq Memory
  BY <1>1, Looked DEF IInv, Outgoing
<1>5. TypeOK'
  <2> USE TypeParts DEF IInv
  <2>1. HotMapping(va, p) \in HotSlot /\ Mapping(va, p) \in ShadowSlot
    BY DEF HotMapping, Mapping, HotSlot, ShadowSlot
  <2>2. HotTyped' /\ ShadowTyped'
    BY <1>1, <1>3, <2>1 DEF HotTyped, ShadowTyped
  <2>3. SetsTyped'
    BY <1>2, <1>4, WriteTlbAssumption DEF SetsTyped, StoreMiss, Memory, Tracked
  <2>4. ModeTyped'
    BY DEF ModeTyped, StoreMiss
  <2> QED
    BY <2>2, <2>3, <2>4
<1>6. HotAgreesWithShadow'
  BY <1>1, <1>3 DEF IInv, TypeOK, HotAgreesWithShadow, HotMapping, Mapping
<1>7. ASSUME NEW t \in Slots, t # s PROVE Marked(t) \subseteq Marked(t)'
  BY <1>1, <1>3, <1>7, StaysMarked DEF IInv, TypeOK
<1>8. Marked(s)' = {p}
  BY <1>1, <1>3 DEF Marked, Verified, IInv, TypeOK, HotMapping, Mapping
<1>9. InTlb \subseteq InTlb' \cup Marked(s) /\ p \in InTlb'
  BY <1>1, <1>7, <1>8 DEF InTlb
<1>10. stale' = stale \cup Always \cup ptes \cup {p} /\ dirty \cup Marked(s) \subseteq dirty'
  BY <1>4 DEF StoreMiss
<1>11. ctx \subseteq ctx' /\ ptes \subseteq dirty' \cup ctx'
  BY DEF StoreMiss, Tracked
<1>12. NoWriteLost'
  BY <1>9, <1>10, <1>11, NoWriteLostMeans DEF IInv
<1>13. CollectionTracks'
  BY <1>10 DEF IInv, StoreMiss, CollectionTracks, Tracked
<1> QED
  BY <1>5, <1>6, <1>12, <1>13 DEF IInv, StoreMiss, RootCoversWrites, NotesSpent

LEMMA StoreElsewhereKeeps ==
  ASSUME IInv, NEW va \in VAddrs, NEW ptes \in PteSets, StoreElsewhere(va, ptes)
  PROVE  IInv'
<1> DEFINE s == SlotOf[va]
<1>1. s \in Slots
  BY WriteTlbAssumption
<1>2. ptes \subseteq Memory
  BY DEF PteSets
<1>3. hot' = [hot EXCEPT ![s] = Verified(s)] /\ shadow' = shadow
  BY DEF StoreElsewhere
<1>4. /\ Verified(s) \in HotSlot
      /\ Verified(s).va \in VAddrs => /\ Verified(s).va = shadow[s].va
                                     /\ Verified(s).page = shadow[s].page /\ Verified(s).page \in Memory
  BY <1>1, Looked, WriteTlbAssumption DEF IInv, Invalid
<1>5. TypeOK'
  <2> USE TypeParts DEF IInv
  <2>1. HotTyped' /\ ShadowTyped'
    BY <1>1, <1>3, <1>4 DEF HotTyped, ShadowTyped
  <2>2. SetsTyped'
    BY <1>2, WriteTlbAssumption DEF SetsTyped, StoreElsewhere, Memory, Tracked
  <2>3. ModeTyped'
    BY DEF ModeTyped, StoreElsewhere
  <2> QED
    BY <2>1, <2>2, <2>3
<1>6. HotAgreesWithShadow'
  BY <1>1, <1>3, <1>4 DEF IInv, TypeOK, HotAgreesWithShadow
<1>7. ASSUME NEW t \in Slots PROVE Marked(t) \subseteq Marked(t)'
  BY <1>1, <1>3, StaysMarked DEF IInv, TypeOK
<1>8. InTlb \subseteq InTlb'
  BY <1>7 DEF InTlb
<1>9. NoWriteLost'
  BY <1>8, NoWriteLostMeans DEF IInv, StoreElsewhere, Tracked
<1>10. CollectionTracks'
  BY DEF IInv, StoreElsewhere, CollectionTracks, Tracked
<1> QED
  BY <1>5, <1>6, <1>9, <1>10 DEF IInv, StoreElsewhere, RootCoversWrites, NotesSpent

LEMMA FlushKeeps ==
  ASSUME IInv, Flush
  PROVE  IInv'
<1>1. hot' = [s \in Slots |-> NoHot] /\ shadow' = [s \in Slots |-> Empty]
  BY DEF Flush
<1>2. ASSUME NEW s \in Slots PROVE Outgoing(s) = Marked(s) /\ Marked(s) \subseteq Memory
  BY Looked DEF IInv, Outgoing
<1>3. dirty' = dirty \cup InTlb /\ InTlb \subseteq Memory
  BY <1>2 DEF Flush, InTlb
<1>4. TypeOK'
  <2> USE TypeParts DEF IInv
  <2>1. HotTyped' /\ ShadowTyped'
    BY <1>1 DEF HotTyped, ShadowTyped, NoHot, Empty, HotSlot, ShadowSlot
  <2>2. SetsTyped'
    BY <1>3, WriteTlbAssumption DEF SetsTyped, Flush, Memory, Tracked
  <2>3. ModeTyped'
    BY DEF ModeTyped, Flush
  <2> QED
    BY <2>1, <2>2, <2>3
<1>5. HotAgreesWithShadow'
  BY <1>1, WriteTlbAssumption DEF HotAgreesWithShadow, NoHot, Invalid
<1>6. NoWriteLost'
  BY <1>3, NoWriteLostMeans DEF IInv, Flush, Tracked
<1>7. CollectionTracks'
  BY <1>3 DEF IInv, Flush, CollectionTracks, Tracked
<1> QED
  BY <1>4, <1>5, <1>6, <1>7 DEF IInv, Flush, RootCoversWrites, NotesSpent

LEMMA WriteUnverifiedKeeps ==
  ASSUME IInv, NEW s \in Slots, NEW slot \in ShadowSlot, WriteUnverified(s, slot)
  PROVE  IInv'
<1>1. hot' = [hot EXCEPT ![s] = Unseen] /\ shadow' = [shadow EXCEPT ![s] = slot]
  BY DEF WriteUnverified
<1>2. Outgoing(s) = Marked(s) /\ Marked(s) \subseteq Memory
  BY Looked DEF IInv, Outgoing
<1>3. TypeOK'
  <2> USE TypeParts DEF IInv
  <2>1. HotTyped' /\ ShadowTyped'
    BY <1>1 DEF HotTyped, ShadowTyped, Unseen, HotSlot
  <2>2. SetsTyped' /\ ModeTyped'
    BY <1>2, WriteTlbAssumption DEF SetsTyped, ModeTyped, WriteUnverified, Memory
  <2> QED
    BY <2>1, <2>2
<1>4. HotAgreesWithShadow'
  BY <1>1, WriteTlbAssumption DEF IInv, TypeOK, HotAgreesWithShadow, Unseen, Unverified
<1>5. ASSUME NEW t \in Slots, t # s PROVE Marked(t) \subseteq Marked(t)'
  BY <1>1, <1>5, StaysMarked DEF IInv, TypeOK
<1>6. InTlb \subseteq InTlb' \cup Marked(s)
  BY <1>5 DEF InTlb
<1>7. NoWriteLost'
  BY <1>2, <1>6, NoWriteLostMeans DEF IInv, WriteUnverified
<1> QED
  BY <1>3, <1>4, <1>7
  DEF IInv, WriteUnverified, RootCoversWrites, CollectionTracks, NotesSpent

LEMMA WriteWordKeeps ==
  ASSUME IInv, NEW p \in Memory, WriteWord(p)
  PROVE  IInv'
<1>1. TypeOK'
  BY DEF IInv, TypeOK, WriteWord, Memory
<1>2. HotAgreesWithShadow' /\ InTlb' = InTlb
  BY DEF IInv, HotAgreesWithShadow, WriteWord, InTlb, Marked, Verified
<1>3. NoWriteLost'
  BY <1>2, NoWriteLostMeans DEF IInv, WriteWord
<1> QED
  BY <1>1, <1>2, <1>3
  DEF IInv, WriteWord, RootCoversWrites, CollectionTracks, NotesSpent

\* Nothing can hit in a TLB of which no slot was looked at yet.
LEMMA UnseenAgrees ==
  ASSUME hot' = [s \in Slots |-> Unseen]
  PROVE  HotAgreesWithShadow' /\ HotTyped'
BY WriteTlbAssumption DEF HotAgreesWithShadow, HotTyped, HotSlot, Unseen, Unverified

LEMMA WriteShadowKeeps ==
  ASSUME IInv, NEW slots \in [Slots -> ShadowSlot], WriteShadow(slots)
  PROVE  IInv'
<1>1. hot' = [s \in Slots |-> Unseen] /\ shadow' = slots
  BY DEF WriteShadow, Refreshed
<1>2. dirty' = dirty \cup InTlb /\ InTlb \subseteq Memory
  <2>1. ASSUME NEW s \in Slots PROVE Marked(s) \subseteq Memory
    BY Looked DEF IInv
  <2> QED
    BY <2>1 DEF WriteShadow, InTlb
<1>3. TypeOK'
  <2> USE TypeParts DEF IInv
  <2>1. HotTyped' /\ ShadowTyped'
    BY <1>1, UnseenAgrees DEF ShadowTyped
  <2>2. SetsTyped' /\ ModeTyped'
    BY <1>2, WriteTlbAssumption DEF SetsTyped, ModeTyped, WriteShadow, Memory
  <2> QED
    BY <2>1, <2>2
<1>4. NoWriteLost'
  BY <1>2, NoWriteLostMeans DEF IInv, WriteShadow
<1> QED
  BY <1>1, <1>3, <1>4, UnseenAgrees
  DEF IInv, WriteShadow, RootCoversWrites, CollectionTracks, NotesSpent

LEMMA ReopenKeeps ==
  ASSUME SafeSharing, IInv, NEW shared \in Sharings, Reopen(shared)
  PROVE  IInv'
<1>1. hot' = [s \in Slots |-> Unseen]
  BY DEF Reopen, Reopened
<1>2. NoWriteLost'
  <2>1. CASE Always \subseteq shared
    <3>1. shadow' = shadow
      BY <2>1 DEF Reopen
    <3>2. ASSUME NEW s \in Slots PROVE Marked(s) \subseteq Marked(s)'
      BY <1>1, <3>1, StaysMarked DEF IInv, Unseen
    <3>3. InTlb \subseteq InTlb'
      BY <3>2 DEF InTlb
    <3> QED
      BY <3>3, NoWriteLostMeans DEF IInv, Reopen
  <2>2. CASE shared \cap Memory = {}
    BY <2>2, NoWriteLostMeans DEF IInv, TypeOK, Reopen, Memory
  <2> QED
    BY <2>1, <2>2 DEF SafeSharing
<1>3. TypeOK'
  <2> USE TypeParts DEF IInv
  <2>1. HotTyped'
    BY <1>1, UnseenAgrees
  <2>2. ShadowTyped'
    BY DEF ShadowTyped, Reopen, Empty, ShadowSlot
  <2>3. SetsTyped' /\ ModeTyped'
    BY DEF SetsTyped, ModeTyped, Reopen
  <2> QED
    BY <2>1, <2>2, <2>3
<1> QED
  BY <1>1, <1>2, <1>3, UnseenAgrees
  DEF IInv, Reopen, RootCoversWrites, CollectionTracks, NotesSpent

LEMMA ReplaceKeeps ==
  ASSUME IInv, NEW clean \in BOOLEAN, Replace(clean)
  PROVE  IInv'
<1>1. shadow' = shadow /\ \A s \in Slots : /\ hot'[s] \in HotSlot
                                           /\ hot'[s].va = hot[s].va /\ hot'[s].page = hot[s].page
  BY DEF Replace, IInv, TypeOK, HotSlot
<1>2. DOMAIN hot' = Slots /\ hot' = [s \in Slots |-> hot'[s]]
  BY DEF Replace
<1>3. TypeOK'
  <2> USE TypeParts DEF IInv
  <2>1. HotTyped' /\ ShadowTyped'
    BY <1>1, <1>2 DEF HotTyped, ShadowTyped
  <2>2. SetsTyped' /\ ModeTyped'
    BY WriteTlbAssumption DEF SetsTyped, ModeTyped, Replace, Memory
  <2> QED
    BY <2>1, <2>2
<1>4. HotAgreesWithShadow'
  BY <1>1 DEF IInv, HotAgreesWithShadow
<1>5. ASSUME NEW s \in Slots PROVE Marked(s) \subseteq Marked(s)'
  BY <1>1, StaysMarked DEF IInv
<1>6. InTlb \subseteq InTlb'
  BY <1>5 DEF InTlb
<1>7. NoWriteLost'
  BY <1>6, NoWriteLostMeans DEF IInv, Replace
<1> QED
  BY <1>3, <1>4, <1>7 DEF IInv, Replace, RootCoversWrites, CollectionTracks, NotesSpent

\* Outside a collection the pages marked by update_hash_tree() are all the
\* stale ones, and looking at a slot changes nothing of what it means.
LEMMA UpdateRehashesAll ==
  ASSUME IInv, mode = "idle", UpdateTree, shadow' = shadow
  PROVE  stale' = {} /\ dirty' = {} /\ synced' /\ HotTyped' /\ HotAgreesWithShadow'
<1>1. /\ hot' = [s \in Slots |-> Verified(s)]
      /\ stale' = stale \ (dirty \cup Always \cup InTlb) /\ dirty' = {} /\ synced'
  BY DEF UpdateTree, Rehash, InTlb
<1>2. stale' = {}
  <2>1. ctx = {} /\ stale \subseteq dirty \cup Always \cup ctx \cup InTlb
    BY NoWriteLostMeans DEF IInv, TypeOK
  <2> QED
    BY <1>1, <2>1
<1>3. ASSUME NEW s \in Slots
      PROVE  /\ Verified(s) \in HotSlot
             /\ Verified(s).va \in VAddrs =>
                  /\ Verified(s).va = shadow[s].va
                  /\ Verified(s).page = shadow[s].page /\ Verified(s).page \in Memory
  BY Looked, WriteTlbAssumption DEF IInv, Invalid
<1> QED
  BY <1>1, <1>2, <1>3 DEF HotTyped, HotAgreesWithShadow

LEMMA GetRootHashKeeps ==
  ASSUME IInv, GetRootHash
  PROVE  IInv'
<1>1. stale' = {} /\ dirty' = {} /\ synced' /\ HotTyped' /\ HotAgreesWithShadow'
  BY UpdateRehashesAll DEF GetRootHash
<1>2. TypeOK'
  <2>1. synced' \in BOOLEAN
    BY DEF GetRootHash, UpdateTree, Rehash
  <2> QED
    BY <1>1, <2>1, TypeParts DEF IInv, ShadowTyped, SetsTyped, ModeTyped, GetRootHash
<1> QED
  BY <1>1, <1>2
  DEF IInv, TypeOK, GetRootHash, NoWriteLost, RootCoversWrites, CollectionTracks, NotesSpent

LEMMA BeginCollectKeeps ==
  ASSUME IInv, BeginCollect
  PROVE  IInv'
<1>1. stale' = {} /\ dirty' = {} /\ synced' /\ HotTyped' /\ HotAgreesWithShadow'
  BY UpdateRehashesAll DEF BeginCollect
<1>2. TypeOK'
  <2>1. synced' \in BOOLEAN
    BY DEF BeginCollect, UpdateTree, Rehash
  <2> QED
    BY <1>1, <2>1, TypeParts DEF IInv, ShadowTyped, SetsTyped, ModeTyped, BeginCollect
<1> QED
  BY <1>1, <1>2
  DEF IInv, BeginCollect, NoWriteLost, RootCoversWrites, CollectionTracks, NotesSpent

LEMMA CollectHashKeeps ==
  ASSUME IInv, CollectHash
  PROVE  IInv'
<1>1. stale' = {} /\ dirty' = {} /\ ctx' = {}
  BY DEF IInv, CollectionTracks, CollectHash, Rehash, Forgotten
<1>2. TypeOK'
  BY <1>1 DEF IInv, TypeOK, CollectHash, Rehash
<1>3. HotAgreesWithShadow'
  BY DEF IInv, HotAgreesWithShadow, CollectHash
<1> QED
  BY <1>1, <1>2, <1>3
  DEF IInv, NoWriteLost, RootCoversWrites, CollectionTracks, NotesSpent

LEMMA EndCollectKeeps ==
  ASSUME IInv, EndCollect
  PROVE  IInv'
<1>1. stale' = {} /\ ctx' = {}
  BY DEF IInv, RootCoversWrites, NotesSpent, EndCollect
<1>2. TypeOK'
  BY <1>1 DEF IInv, TypeOK, EndCollect
<1> QED
  BY <1>1, <1>2
  DEF IInv, EndCollect, HotAgreesWithShadow, NoWriteLost, RootCoversWrites, CollectionTracks, NotesSpent

LEMMA StepInv ==
  ASSUME SafeSharing
  PROVE  IInv /\ [Next]_vars => IInv'
<1> SUFFICES ASSUME IInv, [Next]_vars PROVE IInv'
  OBVIOUS
<1>1. CASE UNCHANGED vars
  BY <1>1 DEF vars, IInv, TypeOK, HotAgreesWithShadow, NoWriteLost, RootCoversWrites,
              CollectionTracks, NotesSpent, Marked, Verified
<1>2. CASE \E va \in VAddrs : StoreHit(va)
  BY <1>2, StoreHitKeeps
<1>3. CASE \E va \in VAddrs, p \in Memory, ptes \in PteSets : StoreMiss(va, p, ptes)
  BY <1>3, StoreMissKeeps
<1>4. CASE \E va \in VAddrs, ptes \in PteSets : StoreElsewhere(va, ptes)
  BY <1>4, StoreElsewhereKeeps
<1>5. CASE \E s \in Slots, slot \in ShadowSlot : WriteUnverified(s, slot)
  BY <1>5, WriteUnverifiedKeeps
<1>6. CASE \E p \in Memory : WriteWord(p)
  BY <1>6, WriteWordKeeps
<1>7. CASE \E slots \in [Slots -> ShadowSlot] : WriteShadow(slots)
  BY <1>7, WriteShadowKeeps
<1>8. CASE \E clean \in BOOLEAN : Replace(clean)
  BY <1>8, ReplaceKeeps
<1>9. CASE \E shared \in Sharings : Reopen(shared)
  BY <1>9, ReopenKeeps
<1>10. CASE Flush
  BY <1>10, FlushKeeps
<1>11. CASE GetRootHash \/ BeginCollect \/ CollectHash \/ EndCollect
  BY <1>11, GetRootHashKeeps, BeginCollectKeeps, CollectHashKeeps, EndCollectKeeps
<1> QED
  BY <1>1, <1>2, <1>3, <1>4, <1>5, <1>6, <1>7, <1>8, <1>9, <1>10, <1>11 DEF Next

LEMMA Invariant ==
  ASSUME SafeSharing
  PROVE  Spec => []IInv
BY InitInv, StepInv, PTL DEF Spec

\* The types of the TLBs, the sets of pages and the mode of the machine.
THEOREM TypeCorrect ==
  ASSUME SafeSharing
  PROVE  Spec => []TypeOK
<1>1. IInv => TypeOK
  BY DEF IInv
<1> QED
  BY <1>1, Invariant, PTL

\* mark_write_tlb_dirty_page() never finds a corrupt TLB, and a store that hits
\* writes the page that will be marked.
THEOREM TlbAgrees ==
  ASSUME SafeSharing
  PROVE  Spec => []HotAgreesWithShadow
<1>1. IInv => HotAgreesWithShadow
  BY DEF IInv
<1> QED
  BY <1>1, Invariant, PTL

\* Although stores mark nothing, a page changed since it was hashed is always
\* known: dirty, in the write TLB, of the shadow, or noted by the collection.
THEOREM WritesKnown ==
  ASSUME SafeSharing
  PROVE  Spec => []NoWriteLost
<1>1. IInv => NoWriteLost
  BY DEF IInv
<1> QED
  BY <1>1, Invariant, PTL

\* get_root_hash(), and each hash of collect_mcycle_root_hashes(), is taken when
\* no page has changed since it was hashed.
THEOREM RootsCoverWrites ==
  ASSUME SafeSharing
  PROVE  Spec => []RootCoversWrites
<1>1. IInv => RootCoversWrites
  BY DEF IInv
<1> QED
  BY <1>1, Invariant, PTL
=============================================================================
