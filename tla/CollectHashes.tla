--------------------------- MODULE CollectHashes ---------------------------
(***************************************************************************)
(* The collections of root hashes along the timeline of a machine          *)
(* (machine.cpp, collect_mcycle_root_hashes and                            *)
(* collect_uarch_cycle_root_hashes): after every period of cycles, in      *)
(* bundles that a call hands to the next as a back tree, and after every   *)
(* cycle of the microarchitecture.  The back tree comes first.             *)
(*                                                                         *)
(* A program says when the machine stops for good (fix, and how: kind),    *)
(* where it yields to the host and goes on (breaks), and where the host    *)
(* fails to write its console (errors).  Cycle c writes page c % 3; a root *)
(* hash is the memory the hash tree has seen.  Cycles have Width bits.     *)
(***************************************************************************)
EXTENDS Integers, Sequences, FiniteSets

LOCAL INSTANCE FiniteSetsExt
LOCAL INSTANCE SequencesExt

Width == 3
UINT64_MAX == 2^Width - 1
Refused == "refused"

saturating_add(x, y, top) == IF y > top \/ x > top - y THEN top ELSE x + y

-----------------------------------------------------------------------------
(* The tree that leaves are added to from the left (back-merkle-tree.cpp): *)
(* it keeps the number of leaves and, for each bit of that number that is  *)
(* one, the hash of a subtree of that many leaves.  A hash is a term: two  *)
(* hashes are equal only if the trees under them are.                      *)

Has(count, i) == (count \div 2^i) % 2 = 1
Concat(left, right) == <<left, right>>

Levels(t) == 0..t.log2
MaxLeaves(t) == 2^t.log2
Full(t) == t.count >= MaxLeaves(t)
NewTree(log2) == [log2 |-> log2, count |-> 0, context |-> [i \in 0..log2 |-> <<>>]]
\* clear leaves the context as it is.
Clear(t) == [t EXCEPT !.count = 0]

\* Carry the hash right, of 2^i leaves, up to a level that has no subtree.
RECURSIVE Carry(_, _, _)
Carry(t, i, right) ==
  IF i > t.log2 THEN [level |-> i, context |-> t.context]
  ELSE IF Has(t.count, i) THEN Carry(t, i + 1, Concat(t.context[i], right))
  ELSE [level |-> i, context |-> [t.context EXCEPT ![i] = right]]

PushBack(t, leaf) == [t EXCEPT !.context = Carry(t, 0, leaf).context, !.count = @ + 1]

MakePadHashes(leaf, log2) ==
  LET h[i \in 0..log2] == IF i = 0 THEN leaf ELSE Concat(h[i - 1], h[i - 1])
  IN  h

\* First fill the subtrees there are, from the smallest, then add the rest.
RECURSIVE FillFrom(_, _, _, _)
FillFrom(t, n, j, pads) ==
  LET c == Carry(t, j, pads[j])
  IN  IF j > t.log2 \/ 2^j > n THEN [tree |-> t, left |-> n]
      ELSE IF Has(t.count, j)
        THEN FillFrom([t EXCEPT !.context = c.context, !.count = @ + 2^j], n - 2^j,
                      IF c.level > t.log2 THEN j ELSE c.level, pads)
      ELSE FillFrom(t, n, j + 1, pads)
\* The smallest tree would stay where it is.
BadPadBack(t, n, pads) ==
  [t EXCEPT !.context = [i \in Levels(t) |-> IF Has(n, i) THEN pads[i] ELSE @[i]], !.count = @ + n]
PadBack(t, n, pads) ==
  LET f == FillFrom(t, n, 0, pads)
  IN  [f.tree EXCEPT !.context = [i \in Levels(t) |-> IF Has(f.left, i) THEN pads[i] ELSE @[i]],
                     !.count = @ + f.left]

RootHash(t) == t.context[t.log2]

\* The hashes in use, and a tree made from them again.
GetContext(t) ==
  LET used[i \in -1..t.log2] ==
        IF i = -1 THEN <<>> ELSE IF Has(t.count, i) THEN Append(used[i - 1], t.context[i]) ELSE used[i - 1]
  IN  used[t.log2]
Unpack(log2, count, packed) ==
  LET place(i) == CHOOSE j \in 0..Len(packed) : j = Len(SelectSeq([k \in 1..(i + 1) |-> Has(count, k - 1)], LAMBDA b : b))
  IN  [log2 |-> log2, count |-> count,
       context |-> [i \in 0..log2 |-> IF Has(count, i) THEN packed[place(i)] ELSE <<>>]]

\* A hash of one leaf has one part, other hashes two.
Leaf(n) == <<n>>

\* The Merkle tree of 2^log2 leaves.
RECURSIVE MerkleTree(_, _)
MerkleTree(leaves, log2) ==
  LET half == 2^(log2 - 1)
  IN  IF log2 = 0 THEN leaves[1]
      ELSE Concat(MerkleTree(SubSeq(leaves, 1, half), log2 - 1),
                  MerkleTree(SubSeq(leaves, half + 1, 2 * half), log2 - 1))

\* m leaves are pushed into a tree used before, n are padded, the context is
\* packed and unpacked (a full tree cannot be unpacked), p more are pushed and
\* the rest padded: the root is that of the tree of those leaves.
BackTreeCorrect(log2, m, n, p) ==
  LET Push(t, from, to) == LET pushed[k \in from..(to + 1)] ==
                                 IF k = from THEN t ELSE PushBack(pushed[k - 1], Leaf(k - 1))
                           IN  pushed[to + 1]
      pads == MakePadHashes(Leaf(0), log2)
      used == PadBack(NewTree(log2), 2^log2, MakePadHashes(Leaf(-1), log2))
      t1 == PadBack(Push(Clear(used), 1, m), n, pads)
      t2 == IF Full(t1) THEN t1 ELSE Unpack(log2, t1.count, GetContext(t1))
      t3 == Push(t2, m + n + 1, m + n + p)
      t4 == PadBack(t3, 2^log2 - t3.count, pads)
      leaves == [k \in 1..(2^log2) |-> IF k <= m \/ k \in (m + n + 1)..(m + n + p) THEN Leaf(k) ELSE Leaf(0)]
  IN  Full(t4) /\ RootHash(t4) = MerkleTree(leaves, log2)

-----------------------------------------------------------------------------
(* The machine: its cycle, why it stopped ("no" while it runs), memory.    *)

Pages == 0..2
Memory(c) == [p \in Pages |-> Max({0} \cup {j \in 1..c : j % 3 = p})]
RevertRootHash == <<-1>>

\* is_rejected_manual_yield and the fixed points of the machine at cycle c.
Stop(prog, c) == IF c >= prog.fix THEN prog.kind ELSE "no"
Rejected(prog, c) == Stop(prog, c) = "rejected"
FixedPoint(prog, c) == Stop(prog, c) # "no" \/ c = UINT64_MAX
Canonical(prog, c, tree) == IF Rejected(prog, c) THEN RevertRootHash ELSE tree

\* interpret_with_console: to the target or the first thing that happens on
\* the way.  An error is thrown after the cycle that caused it.
Interpret(prog, c, target) ==
  LET happens == {e \in prog.breaks \cup prog.errors \cup {prog.fix} : c < e /\ e <= target}
      e == IF happens = {} THEN target ELSE Min(happens)
  IN  [mcycle |-> e,
       reason |-> CASE Stop(prog, e) = "halted" -> "halted"
                    [] Stop(prog, e) \in {"accepted", "rejected"} -> "yielded_manually"
                    [] Stop(prog, e) = "no" /\ e > c /\ e \in prog.errors -> "error"
                    [] Stop(prog, e) = "no" /\ e > c /\ e \in prog.breaks -> "yielded_automatically"
                    [] OTHER -> "reached_target_mcycle",
       dirty |-> {j % 3 : j \in (c + 1)..e}]

\* update: the tree sees the pages it was told of.
Updated(tree, pages, c) == [p \in Pages |-> IF p \in pages THEN Memory(c)[p] ELSE tree[p]]

-----------------------------------------------------------------------------
(* The state of a collection: the machine's cycle and tree, the pages its  *)
(* state access has noted, and what it will return.                        *)

\* A root hash goes to the back tree; a full one becomes a bundle.
Appended(s, hash) ==
  LET t == PushBack(s.back, hash)
  IN  IF Full(t) THEN [s EXCEPT !.back = Clear(t), !.hashes = Append(@, RootHash(t))]
      ELSE [s EXCEPT !.back = t]
Bundled(s, t) == [s EXCEPT !.back = Clear(t), !.hashes = Append(@, RootHash(t))]
\* The rest of the bundle there is, if any, then a bundle of nothing else.
PaddedWith(s, hash) ==
  LET log2 == s.back.log2
      pads == MakePadHashes(hash, log2)
      left == 2^log2 - s.back.count
      t == IF s.back.count = 0 THEN s ELSE Bundled(s, PadBack(s.back, left, pads))
  IN  [t EXCEPT !.hashes = Append(@, pads[log2])]

\* Variant: an error forgets the pages written before it.
BadRetried(s, run) == [s EXCEPT !.mcycle = run.mcycle, !.dirty = {}]
\* After a console error the interpreter is called again, with the same target.
Retried(s, run) == [s EXCEPT !.mcycle = run.mcycle, !.dirty = @ \cup run.dirty]

Phase(call, reached) ==
  ((((reached - call.start) % call.period) + call.phase) % 2^Width) % call.period

FirstTarget(call) == saturating_add(call.start, call.period - call.phase, call.end)

RECURSIVE Loop(_, _, _, _)
Loop(prog, call, s, target) ==
  LET run == Interpret(prog, s.mcycle, target)
      t == [s EXCEPT !.mcycle = run.mcycle, !.reason = run.reason, !.dirty = {},
                     !.tree = Updated(@, s.dirty \cup run.dirty, run.mcycle),
                     !.phase = Phase(call, run.mcycle), !.fixed = FixedPoint(prog, run.mcycle)]
      hash == Canonical(prog, t.mcycle, t.tree)
      u == IF t.phase = 0 \/ t.fixed THEN [Appended(t, hash) EXCEPT !.root = hash] ELSE t
  IN  IF run.reason = "error" THEN Loop(prog, call, Retried(s, run), target)
      ELSE IF t.fixed \/ t.reason # "reached_target_mcycle" \/ target = call.end THEN u
      ELSE Loop(prog, call, u, saturating_add(target, call.period, call.end))

\* call: start, end, period, phase and the back tree of the call before.
collect_mcycle_root_hashes(prog, call, tree) ==
  LET stop == Stop(prog, call.start)
      s == [mcycle |-> call.start, tree |-> tree, dirty |-> {}, phase |-> call.phase, hashes |-> <<>>,
            back |-> call.back, fixed |-> FALSE, root |-> <<>>, reason |-> "reached_target_mcycle"]
      target == FirstTarget(call)
      t == IF call.start < target THEN Loop(prog, call, s, target) ELSE s
  IN  IF call.end < call.start \/ call.period = 0 \/ call.phase >= call.period THEN Refused
      ELSE IF stop # "no"
        THEN [s EXCEPT !.back = Clear(@), !.reason = IF stop = "halted" THEN stop ELSE "yielded_manually"]
      ELSE IF t.fixed /\ t.back.log2 > 0 THEN PaddedWith(t, t.root)
      ELSE t

-----------------------------------------------------------------------------
(* The microarchitecture.  The cycle after c takes Cycles(c) of its cycles *)
(* (at a fixed point it finds nothing to do in as many); the first writes  *)
(* the cycle's page, each a word of its own state.                         *)

Cycles(c) == 1 + (c % 3)
UarchWords == 3..4
Words == Pages \cup UarchWords
UarchMemory(c, k, fixed) ==
  [w \in Words |-> IF w \in Pages THEN Memory(IF fixed \/ k = 0 THEN c ELSE c + 1)[w]
                   ELSE Max({0} \cup {j \in 1..k : w = 3 + (j % 2)})]
UarchWrites(c, k, fixed) ==
  {3 + (k % 2)} \cup IF k = 1 /\ ~fixed THEN {(c + 1) % 3} ELSE {}
Seen(tree, words, mem) == [w \in Words |-> IF w \in words THEN mem[w] ELSE tree[w]]

\* append_uarch_cycle_root_hash and append_uarch_reset_root_hash.
append_uarch_reset_root_hash(s, halt, reset) ==
  LET log2 == s.back.log2
      t == PaddedWith(s, halt)
      last == PushBack(PadBack(t.back, 2^log2 - 1, MakePadHashes(halt, log2)), reset)
      u == IF log2 > 0 THEN Bundled(t, last) ELSE [s EXCEPT !.hashes = Append(@, reset)]
  IN  [u EXCEPT !.resets = Append(@, Len(u.hashes) - 1)]
append_revert_uarch_tail_period(s, tail) ==
  LET t == FoldLeft(Appended, s, Front(tail))
  IN  append_uarch_reset_root_hash(t, tail[Len(tail) - 1], Last(tail))

\* Variant: the words to reset are those of the last cycle.
BadToReset(s, words) == words \cap UarchWords
ToReset(s, words) == s.toReset \cup (words \cap UarchWords)

RECURSIVE UarchCycles(_, _, _, _)
UarchCycles(c, s, k, fixed) ==
  LET words == UarchWrites(c, k, fixed)
      tree == Seen(s.tree, words, UarchMemory(c, k, fixed))
  IN  IF k > Cycles(c) THEN s
      ELSE UarchCycles(c, [Appended(s, tree) EXCEPT !.tree = tree, !.toReset = ToReset(s, words)], k + 1, fixed)

\* One cycle of the machine and the reset, of the words that are dirty.
RECURSIVE UarchLoop(_, _, _, _, _)
UarchLoop(prog, end, s, fixed, tail) ==
  LET t == UarchCycles(s.mcycle, s, 1, fixed)
      c == IF fixed THEN s.mcycle ELSE s.mcycle + 1
      tree == Seen(t.tree, t.toReset, UarchMemory(c, 0, TRUE))
      rejected == Rejected(prog, c)
      u == [append_uarch_reset_root_hash(t, t.tree, IF rejected THEN RevertRootHash ELSE tree) EXCEPT
              !.mcycle = c, !.tree = tree, !.toReset = {},
              !.reason = CASE Stop(prog, c) = "halted" -> "halted"
                           [] Stop(prog, c) \in {"accepted", "rejected"} -> "yielded_manually"
                           [] Stop(prog, c) = "no" /\ ~fixed /\ c \in prog.breaks -> "yielded_automatically"
                           [] OTHER -> @]
  IN  IF u.reason = "yielded_automatically" THEN u
      ELSE IF rejected THEN append_revert_uarch_tail_period(u, tail)
      ELSE IF fixed \/ (~FixedPoint(prog, c) /\ c = end) THEN u
      ELSE UarchLoop(prog, end, u, FixedPoint(prog, c), tail)

collect_uarch_cycle_root_hashes(prog, start, end, log2, tail) ==
  LET fixed == FixedPoint(prog, start)
      s == [mcycle |-> start, tree |-> UarchMemory(start, 0, TRUE), toReset |-> {}, hashes |-> <<>>,
            resets |-> <<>>, back |-> NewTree(log2), reason |-> "reached_target_mcycle"]
  IN  IF end < start THEN Refused
      ELSE IF (Rejected(prog, start) \/ ~fixed) /\ (Len(tail) < 2 \/ Last(tail) # RevertRootHash) THEN Refused
      ELSE IF Rejected(prog, start)
        THEN [append_revert_uarch_tail_period(s, tail) EXCEPT !.reason = "yielded_manually"]
      ELSE IF fixed \/ start < end THEN UarchLoop(prog, end, s, fixed, tail)
      ELSE s

-----------------------------------------------------------------------------
(* What they should return.                                                *)

RECURSIVE Bundles(_, _)
Bundles(leaves, log2) ==
  IF Len(leaves) < 2^log2 THEN <<>>
  ELSE <<MerkleTree(SubSeq(leaves, 1, 2^log2), log2)>> \o Bundles(SubSeq(leaves, 2^log2 + 1, Len(leaves)), log2)
Repeat(x, n) == [i \in 1..n |-> x]
Remaining(n, k) == (k - (n % k)) % k

\* The leaves of the timeline from cycle 0 to end: the hash at every multiple
\* of the period before the machine stops, then the hash it stops with,
\* repeated to the end of the bundle and for one bundle more.
Timeline(prog, end, period, log2) ==
  LET last == Min({prog.fix, UINT64_MAX})
      stops == last <= end
      n == IF stops THEN (last - 1) \div period ELSE end \div period
      final == IF Rejected(prog, last) THEN RevertRootHash ELSE Memory(last)
      pads == IF log2 = 0 THEN 0 ELSE Remaining(n + 1, 2^log2) + 2^log2
  IN  [k \in 1..n |-> Memory(k * period)] \o IF stops THEN Repeat(final, 1 + pads) ELSE <<>>

\* The calls for the ends in cuts, each again until it reaches its end or the
\* machine stops, with the phase and the back tree the one before returned.
RECURSIVE InCalls(_, _, _, _)
InCalls(prog, period, s, cuts) ==
  LET r == collect_mcycle_root_hashes(prog, [start |-> s.mcycle, end |-> Head(cuts), period |-> period,
                                             phase |-> s.phase, back |-> s.back], s.tree)
      t == [r EXCEPT !.hashes = s.hashes \o @]
  IN  IF cuts = <<>> THEN s
      ELSE InCalls(prog, period, t, IF r.reason = "yielded_automatically" THEN cuts ELSE Tail(cuts))

\* However a collection is cut into calls, and whatever breaks and errors there
\* are on the way, its bundles are those of the timeline, and what is left of
\* it is in the back tree and the phase.
CollectsTimeline(prog, period, log2, cuts, end) ==
  LET s == InCalls(prog, period,
             [mcycle |-> 0, phase |-> 0, back |-> NewTree(log2), tree |-> Memory(0), hashes |-> <<>>], cuts)
      leaves == Timeline(prog, end, period, log2)
      left == Len(leaves) % 2^log2
  IN  /\ s.hashes = Bundles(leaves, log2)
      /\ s.mcycle = Min({end, prog.fix})
      /\ s.phase = s.mcycle % period
      /\ s.back.count = left
      /\ GetContext(s.back) = GetContext(FoldLeft(PushBack, NewTree(log2), SubSeq(leaves, Len(leaves) - left + 1, Len(leaves))))

\* The leaves of one machine cycle: one for every cycle of the
\* microarchitecture, repetitions of the last to the end of the bundle and for
\* a bundle more, and in the bundle after it, last, the hash after the reset.
Period(cycles, reset, log2) ==
  cycles \o (IF log2 = 0 THEN <<>>
             ELSE Repeat(Last(cycles), Remaining(Len(cycles), 2^log2) + 2 * 2^log2 - 1)) \o <<reset>>
TailComplete(tail) == Len(tail) >= 2 /\ Last(tail) = RevertRootHash
\* One bundle after another, of the cycles from start to the end, to a yield,
\* or to the fixed point and one cycle over it, which is the cycle of the
\* machine to revert to if the input was rejected: a call that could need the
\* tail of that machine is refused without it.
CollectsUarch(prog, start, end, log2, tail) ==
  LET r == collect_uarch_cycle_root_hashes(prog, start, end, log2, tail)
      c(k) == start + k
      reset(d) == UarchMemory(d, 0, TRUE)
      cycle(d, fixed) == Period([k \in 1..Cycles(d) |-> UarchMemory(d, k, fixed)],
                                IF fixed THEN reset(d)
                                ELSE IF Rejected(prog, d + 1) THEN RevertRootHash ELSE reset(d + 1), log2)
      last == Min({prog.fix, UINT64_MAX, end} \cup {b \in prog.breaks : b > start /\ b < prog.fix})
      over == IF Rejected(prog, Max({start, last}))
                THEN <<Period(Front(tail), RevertRootHash, log2)>>
              ELSE IF FixedPoint(prog, Max({start, last})) THEN <<cycle(Max({start, last}), TRUE)>>
              ELSE <<>>
      yields == last \in prog.breaks /\ start < last /\ last < prog.fix
      periods == [k \in 1..(IF last > start THEN last - start ELSE 0) |-> cycle(c(k - 1), FALSE)]
                 \o IF yields THEN <<>> ELSE over
  IN  IF end < start \/ ((~FixedPoint(prog, start) \/ Rejected(prog, start)) /\ ~TailComplete(tail))
        THEN r = Refused
      ELSE /\ r.hashes = Bundles(FlattenSeq(periods), log2)
           /\ r.resets = [i \in 1..Len(periods) |-> Len(FlattenSeq(SubSeq(periods, 1, i))) \div 2^log2 - 1]
           /\ r.mcycle = Max({start, last})
           /\ r.back.count = 0
=============================================================================
