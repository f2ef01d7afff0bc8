------------------------------ MODULE StepLog ------------------------------
(* The log of a step of many cycles: the pages the interpreter touches are  *)
(* copied as they are first touched (record-step-state-access), written to  *)
(* a file with the hashes of everything else, and replayed from the file    *)
(* (replay-step-state-access).  Driven by machine::log_step and             *)
(* machine::verify_step.                                                    *)
(*                                                                          *)
(* Eight pages: the registers, the shadow TLB, the PMAs, a page table, code *)
(* and three pages of data.  Recorder and replayer run one interpreter over *)
(* two state accessors: an accessor is a record with the pages it can       *)
(* reach, the pages saved, the hot TLB and whether it threw.  Hashes are    *)
(* their own preimages: <<page>> for a page, <<left, right>> for a node.    *)
EXTENDS Integers, Sequences, FiniteSets, TLC

CONSTANTS Codes,        \* contents of the code page: sequences of instructions
          Counts,       \* numbers of cycles of a step
          McycleMax,    \* largest mcycle
          MaxSteps      \* bound: steps recorded

VARIABLES mem,          \* page -> its words
          hot,          \* the machine's hot TLB
          rec,          \* the step being recorded, or <<>>
          log,          \* the file, or <<>>
          rep,          \* the replay under way, or <<>>
          asked,        \* root when the host last answered a yield (history)
          steps
vars == <<mem, hot, rec, log, rep, asked, steps>>

Height == 3
Pages == 0..7
REGS == 0               \* <<mcycle, iflagsY, tohost, revert root hash>> and two unused words
SHADOW_TLB == 1         \* <<vpage, page>> of two slots
PMAS == 2               \* <<first, last>> page of the memory
PTES == 3               \* virtual page -> page
CODE == 4
MCYCLE == 1
IFLAGS_Y == 2
TOHOST == 3
REVERT == 4

Slots == {0, 1}
Unverified == <<>>
Invalid == <<9>>        \* TLB_INVALID_PAGE
ACCEPTED == 1
REJECTED == 2

\* Instructions: <<store, vpage, word>>, <<copy, from, to>>, <<flush>>, <<yield, tohost>>
STORE == 1
COPY == 2
FLUSH == 3
YIELD == 4
----------------------------------------------------------------------------
(* State accessors                                                          *)

\* Recording, a page is copied before it changes
touch_page(st, p) == [st EXCEPT !.saved = IF p \in DOMAIN @ THEN @ ELSE (p :> st.mem[p]) @@ @]

\* Replaying, a page that is not in the log throws
find_page(st, p) == [st EXCEPT !.ok = @ /\ p \in DOMAIN st.mem]

Reach(st, p) == IF st.kind = "record" THEN touch_page(st, p) ELSE find_page(st, p)

Word(st, p, i) == IF p \in DOMAIN st.mem THEN st.mem[p][i] ELSE 0
WriteWord(st, p, i, v) == IF p \in DOMAIN st.mem THEN [st EXCEPT !.mem[p][i] = v] ELSE st

read_reg(st, r) == Word(st, REGS, r)
write_reg(st, r, v) == WriteWord(Reach(st, REGS), REGS, r, v)

VPage(slot) == 2 * slot + 1
PPage(slot) == 2 * slot + 2

\* A memory range covers the page a TLB slot or a walk leads to
read_pma(st) == Reach(st, PMAS)
InPma(st, p) == p \in Word(st, PMAS, 1)..Word(st, PMAS, 2)

\* An unverified slot of the hot TLB is checked against the PMAs and promoted, or made invalid
init_hot_tlb_slot(st, slot) ==
  LET s1 == read_pma(Reach(st, SHADOW_TLB))
      v == Word(s1, SHADOW_TLB, VPage(slot))
      p == Word(s1, SHADOW_TLB, PPage(slot))
  IN IF v = Invalid[1] \/ ~InPma(s1, p) THEN [s1 EXCEPT !.hot[slot] = Invalid]
     ELSE [Reach(s1, p) EXCEPT !.hot[slot] = <<v, p>>]

BadRecordWriteTlb(st, slot, v, p) ==
  LET s1 == Reach(st, SHADOW_TLB)
      s2 == WriteWord(WriteWord(s1, SHADOW_TLB, VPage(slot), v), SHADOW_TLB, PPage(slot), p)
      s3 == IF v = Invalid[1] THEN s2 ELSE Reach(s2, p)
  IN IF st.kind = "record" THEN [s3 EXCEPT !.hot[slot] = IF v = Invalid[1] THEN Invalid ELSE <<v, p>>] ELSE s3

\* Recording, a new entry is verified; replaying, it is read again from the log when next used
write_tlb(st, slot, v, p) ==
  LET s1 == Reach(st, SHADOW_TLB)
      s2 == IF v = Invalid[1] THEN s1 ELSE Reach(s1, p)
      s3 == WriteWord(WriteWord(s2, SHADOW_TLB, VPage(slot), v), SHADOW_TLB, PPage(slot), p)
  IN [s3 EXCEPT !.hot[slot] = IF st.kind = "replay" THEN Unverified
                              ELSE IF v = Invalid[1] THEN Invalid ELSE <<v, p>>]

\* The page of a virtual page, from the TLB or from the page table: {} is a fault
Translate(st, v) ==
  LET slot == v % 2
      Walked(s2, p) ==
        IF InPma(s2, p) THEN [st |-> write_tlb(Reach(s2, p), slot, v, p), page |-> {p}]
        ELSE [st |-> s2, page |-> {}]
      Walk(s2) == Walked(s2, Word(s2, PTES, v + 1))
      Lookup(s1) ==
        IF s1.hot[slot] # Invalid /\ s1.hot[slot][1] = v
        THEN [st |-> Reach(Reach(s1, SHADOW_TLB), s1.hot[slot][2]), page |-> {s1.hot[slot][2]}]
        ELSE Walk(read_pma(Reach(s1, PTES)))
  IN Lookup(IF st.hot[slot] = Unverified THEN init_hot_tlb_slot(st, slot) ELSE st)

\* One instruction; an access that faults changes nothing else
Execute(st, insn) ==
  LET Put(t, word) == IF t.page = {} THEN t.st ELSE WriteWord(t.st, CHOOSE p \in t.page : TRUE, 1, word)
      Copy(f, t) == Put(t, Word(t.st, CHOOSE p \in f.page : TRUE, 1))
      Got(f) == IF f.page = {} THEN f.st ELSE Copy(f, Translate(f.st, insn[3]))
  IN CASE insn[1] = STORE -> Put(Translate(st, insn[2]), insn[3])
       [] insn[1] = COPY -> Got(Translate(st, insn[2]))
       [] insn[1] = FLUSH -> write_tlb(write_tlb(st, 0, Invalid[1], 0), 1, Invalid[1], 0)
       [] insn[1] = YIELD -> write_reg(write_reg(st, IFLAGS_Y, 1), TOHOST, insn[2])

\* interpret: it stops at its end or in a manual yield, which it looks at before each cycle
Stopped(st, end) == ~st.ok \/ read_reg(st, IFLAGS_Y) # 0 \/ read_reg(st, MCYCLE) >= end

Cycle(st) ==
  LET s1 == Reach(Reach(st, REGS), CODE)
      mcycle == read_reg(s1, MCYCLE)
      s2 == IF s1.ok THEN Execute(s1, Word(s1, CODE, mcycle + 1)) ELSE s1
  IN write_reg(s2, MCYCLE, mcycle + 1)

saturating_add(a, b) == IF a + b > McycleMax THEN McycleMax ELSE a + b

is_rejected_manual_yield(st) == read_reg(st, IFLAGS_Y) # 0 /\ read_reg(st, TOHOST) = REJECTED
----------------------------------------------------------------------------
(* Hashes                                                                   *)

\* merkle_tree_hash and concat_hash, for hash functions 0 and 1
HashPage(fn, data) == IF fn = 0 THEN <<data>> ELSE <<data, fn, fn>>

NodesOf(m) ==
  LET N[h \in 0..Height] ==
        [i \in {j \in Pages : j % 2^h = 0} |->
           IF h = 0 THEN HashPage(0, m[i]) ELSE <<N[h-1][i], N[h-1][i + 2^(h-1)]>>]
  IN N

RootOf(m) == NodesOf(m)[Height][0]

\* Hashes of the largest subtrees without a touched page, from left to right
get_sibling_hashes(touched, m) ==
  LET N == NodesOf(m)
      S[h \in 0..Height] ==
        [i \in {j \in Pages : j % 2^h = 0} |->
           IF touched \cap (i..(i + 2^h - 1)) = {} THEN <<N[h][i]>>
           ELSE IF h = 0 THEN <<>> ELSE S[h-1][i] \o S[h-1][i + 2^(h-1)]]
  IN S[Height][0]

\* The root of the pages of a log and its siblings, <<hash>>, or <<>> when they do not fit:
\* indices is the sequence of page indices, hashes the hashes of those pages
compute_root_hash(indices, hashes, sibs) ==
  LET \* from node i of 2^h pages with n pages and k siblings used: <<hash, n, k>> or <<>>
      C[h \in 0..Height] ==
        [i \in Pages, n \in 0..Len(indices), k \in 0..Len(sibs) |->
           IF n = Len(indices) \/ i + 2^h <= indices[n + 1]
           THEN IF k = Len(sibs) THEN <<>> ELSE <<sibs[k + 1], n, k + 1>>
           ELSE IF h = 0 THEN <<hashes[n + 1], n + 1, k>>
           ELSE LET l == C[h-1][i, n, k]
                    r == C[h-1][i + 2^(h-1), l[2], l[3]]
                IN IF l = <<>> \/ r = <<>> THEN <<>> ELSE <<<<l[1], r[1]>>, r[2], r[3]>>]
      all == C[Height][0, 0, 0]
  IN IF all = <<>> \/ all[2] # Len(indices) \/ all[3] # Len(sibs) THEN <<>> ELSE <<all[1]>>
----------------------------------------------------------------------------
(* The recorder                                                             *)

\* log_step starts with every slot of the hot TLB unverified
LogStep ==
  /\ rec = <<>> /\ log = <<>>
  /\ steps < MaxSteps
  /\ hot' = [s \in Slots |-> Unverified]
  /\ \E count \in Counts :
       rec' = [before |-> RootOf(mem), count |-> count, end |-> saturating_add(mem[REGS][MCYCLE], count),
               saved |-> (REGS :> mem[REGS])]
  /\ steps' = steps + 1
  /\ UNCHANGED <<mem, log, rep, asked>>

Recorder == [kind |-> "record", mem |-> mem, saved |-> rec.saved, hot |-> hot, ok |-> TRUE]

RecordCycle ==
  /\ rec # <<>>
  /\ ~Stopped(Recorder, rec.end)
  /\ \E st \in {Cycle(Recorder)} :
       /\ mem' = st.mem
       /\ hot' = st.hot
       /\ rec' = [rec EXCEPT !.saved = st.saved]
  /\ UNCHANGED <<log, rep, asked, steps>>

Ascending(S) == CHOOSE s \in [1..Cardinality(S) -> S] : \A i, j \in DOMAIN s : i < j => s[i] < s[j]

BadFinish ==
  /\ rec # <<>>
  /\ Stopped(Recorder, rec.end)
  /\ LET idx == Ascending(DOMAIN rec.saved)
         after == RootOf(mem)
     IN log' = [before |-> rec.before, count |-> rec.count, after |-> after, fn |-> 0,
                pages |-> [i \in DOMAIN idx |-> [index |-> idx[i], data |-> rec.saved[idx[i]], scratch |-> 0]],
                sibs |-> get_sibling_hashes(DOMAIN rec.saved, mem),
                known |-> [before |-> rec.before, count |-> rec.count, after |-> after], damaged |-> FALSE]
  /\ rec' = <<>>
  /\ UNCHANGED <<mem, hot, rep, asked, steps>>

\* finish writes the file.  A machine that rejected its input has the revert root hash after the
\* step.  The field known is what the caller knows of the step without the file.
finish ==
  /\ rec # <<>>
  /\ Stopped(Recorder, rec.end)
  /\ LET idx == Ascending(DOMAIN rec.saved)
         after == IF is_rejected_manual_yield(Recorder) THEN mem[REGS][REVERT] ELSE RootOf(mem)
     IN log' = [before |-> rec.before, count |-> rec.count, after |-> after, fn |-> 0,
                pages |-> [i \in DOMAIN idx |-> [index |-> idx[i], data |-> rec.saved[idx[i]], scratch |-> 0]],
                sibs |-> get_sibling_hashes(DOMAIN rec.saved, mem),
                known |-> [before |-> rec.before, count |-> rec.count, after |-> after], damaged |-> FALSE]
  /\ rec' = <<>>
  /\ UNCHANGED <<mem, hot, rep, asked, steps>>
----------------------------------------------------------------------------
(* One change to the file before it is replayed                             *)

AlteredPage(p, d) == [d EXCEPT ![1] = IF p = CODE THEN <<STORE, 0, 7>> ELSE IF p = REGS THEN 1 ELSE 8]

Without(s, k) == SubSeq(s, 1, k - 1) \o SubSeq(s, k + 1, Len(s))

Changed(l) == log' = [l EXCEPT !.damaged = TRUE]

Damage ==
  /\ log # <<>> /\ rep = <<>> /\ ~log.damaged
  /\ \/ Changed([log EXCEPT !.before = <<>>])
     \/ Changed([log EXCEPT !.after = <<>>])
     \/ Changed([log EXCEPT !.count = @ + 1])
     \/ \E fn \in 1..2 : Changed([log EXCEPT !.fn = fn])
     \/ Changed([log EXCEPT !.sibs = Append(@, <<>>)])
     \/ \E k \in DOMAIN log.sibs : \/ Changed([log EXCEPT !.sibs = Without(@, k)])
                                   \/ Changed([log EXCEPT !.sibs[k] = <<>>])
     \/ \E k \in DOMAIN log.pages :
          \/ Changed([log EXCEPT !.pages = Without(@, k)])
          \/ Changed([log EXCEPT !.pages[k].index = (@ + 1) % 8])
          \/ Changed([log EXCEPT !.pages[k].scratch = 1])
          \/ Changed([log EXCEPT !.pages[k].data = AlteredPage(log.pages[k].index, @)])
  /\ UNCHANGED <<mem, hot, rec, rep, asked, steps>>
----------------------------------------------------------------------------
(* The replayer                                                             *)

Indices(pages) == [i \in DOMAIN pages |-> pages[i].index]

\* The constructor and the checks of verify_step
WellFormed ==
  /\ log.fn \in {0, 1}
  /\ log.pages # <<>>
  /\ \A i \in DOMAIN log.pages : i > 1 => log.pages[i - 1].index < log.pages[i].index
  /\ \A i \in DOMAIN log.pages : log.pages[i].scratch = 0
  /\ compute_root_hash(Indices(log.pages), [i \in DOMAIN log.pages |-> HashPage(log.fn, log.pages[i].data)],
                       log.sibs) = <<log.before>>
  /\ log.before = log.known.before
  /\ log.count = log.known.count
  /\ \E i \in DOMAIN log.pages : log.pages[i].index = REGS

verify_step ==
  /\ log # <<>> /\ rep = <<>>
  /\ rep' = IF ~WellFormed THEN [verdict |-> "refused"]
            ELSE LET m == [p \in {log.pages[i].index : i \in DOMAIN log.pages} |->
                             LET i == CHOOSE k \in DOMAIN log.pages : log.pages[k].index = p IN log.pages[i].data]
                 IN [verdict |-> "running", mem |-> m, hot |-> [s \in Slots |-> Unverified], ok |-> TRUE,
                     end |-> saturating_add(m[REGS][MCYCLE], log.count)]
  /\ UNCHANGED <<mem, hot, rec, log, asked, steps>>

Replayer == [kind |-> "replay", mem |-> rep.mem, saved |-> <<>>, hot |-> rep.hot, ok |-> rep.ok]
Replaying == rep # <<>> /\ rep.verdict = "running"

ReplayCycle ==
  /\ Replaying
  /\ ~Stopped(Replayer, rep.end)
  /\ \E st \in {Cycle(Replayer)} :
       rep' = [rep EXCEPT !.mem = st.mem, !.hot = st.hot, !.ok = st.ok]
  /\ UNCHANGED <<mem, hot, rec, log, asked, steps>>

BadReplayFinish ==
  /\ Replaying
  /\ Stopped(Replayer, rep.end)
  /\ rep' = [verdict |-> IF rep.ok THEN "accepted" ELSE "refused", root |-> log.after]
  /\ UNCHANGED <<mem, hot, rec, log, asked, steps>>

\* The root hash obtained must be the one in the header
ReplayFinish ==
  /\ Replaying
  /\ Stopped(Replayer, rep.end)
  /\ LET idx == Indices(log.pages)
         root == IF is_rejected_manual_yield(Replayer) THEN <<rep.mem[REGS][REVERT]>>
                 ELSE compute_root_hash(idx, [i \in DOMAIN idx |-> HashPage(log.fn, rep.mem[idx[i]])], log.sibs)
     IN rep' = [verdict |-> IF rep.ok /\ root = <<log.after>> THEN "accepted" ELSE "refused", root |-> log.after]
  /\ UNCHANGED <<mem, hot, rec, log, asked, steps>>

\* The verdict is read, the file removed
Forget ==
  /\ rep # <<>> /\ rep.verdict # "running"
  /\ rep' = <<>>
  /\ log' = <<>>
  /\ UNCHANGED <<mem, hot, rec, asked, steps>>

\* The host answers a yield: the machine will run again, with its root recorded to go back to
Answer ==
  /\ rec = <<>> /\ log = <<>>
  /\ mem[REGS][IFLAGS_Y] # 0
  /\ mem[REGS][TOHOST] = ACCEPTED
  /\ mem' = [mem EXCEPT ![REGS] = [@ EXCEPT ![IFLAGS_Y] = 0, ![REVERT] = RootOf(mem)]]
  /\ asked' = RootOf(mem)
  /\ UNCHANGED <<hot, rec, log, rep, steps>>
----------------------------------------------------------------------------
Init ==
  /\ \E code \in Codes, v \in {0, 9}, p \in {3, 5, 7} :
       mem = (REGS :> <<0, 0, 0, <<>>, 0, 0>>) @@ (SHADOW_TLB :> <<v, p, 9, 0>>) @@ (PMAS :> <<3, 6>>)
             @@ (PTES :> <<5, 6, 7, 3>>) @@ (CODE :> code) @@ [d \in 5..7 |-> <<d>>]
  /\ hot = [s \in Slots |-> Unverified]
  /\ rec = <<>> /\ log = <<>> /\ rep = <<>> /\ asked = <<>> /\ steps = 0

Next == \/ LogStep \/ RecordCycle \/ finish \/ Damage \/ verify_step \/ ReplayCycle \/ ReplayFinish
        \/ Forget \/ Answer

Spec == Init /\ [][Next]_vars
----------------------------------------------------------------------------
(* Properties                                                               *)

Verdict == rep # <<>> /\ rep.verdict # "running"

\* A recorded step replays to the root hash its recorder found: every page the interpreter needs
\* is in the file as it was before the step, with the TLB read from memory at its first use.
StepReplays == Verdict /\ ~log.damaged => rep.verdict = "accepted"

\* A file that was changed in one place is refused, unless it still proves the step that was made.
StepDamageHarmless == Verdict /\ rep.verdict = "accepted" => rep.root = log.known.after

\* The root hash after a step that ends in the rejection of an input is the one the machine had
\* when it yielded for that input, however many steps ago.
RevertRoot ==
  log # <<>> /\ ~log.damaged /\ mem[REGS][IFLAGS_Y] # 0 /\ mem[REGS][TOHOST] = REJECTED
     => log.after = asked

\* Recorder, file and replay agree on the root hash after a step, that of a rejected input too.
StepsProved == StepReplays /\ RevertRoot
=============================================================================
