----------------------------- MODULE Translate -----------------------------
(***************************************************************************)
(* The walk of the page tables (translate-virtual-address.hpp), with page  *)
(* numbers of a virtual address of one bit each and two levels of tables.  *)
(* A physical page is a number; a table is a page whose two entries are in *)
(* mem, if it is in RAM.  An entry is a record: valid, a reserved bit set, *)
(* its permissions, whether it is a user page, accessed, dirty, and the    *)
(* page it names.                                                          *)
(***************************************************************************)
EXTENDS Integers, Sequences

LEVELS == 2

Fault(mem) == [ok |-> FALSE, page |-> 0, mem |-> mem]
\* The privilege a data access has.
EffectivePrv(c, access) == IF access # "X" /\ c.mprv THEN c.mpp ELSE c.prv

\* Permissions of a leaf: what the mode, and the combinations of bits, allow.
Permits(c, prv, pte, access) ==
  /\ pte.xwr \notin {{"W"}, {"W", "X"}}
  /\ IF prv = "S" THEN pte.u => (access # "X" /\ c.sum) ELSE pte.u
  /\ access \in pte.xwr \union (IF c.mxr /\ "X" \in pte.xwr THEN {"R"} ELSE {})

RECURSIVE Lookup(_, _, _, _, _, _)
\* vpn is the sequence of the address's page numbers, the largest first; i is
\* how many levels the walk has gone down, to the table at page table.
Lookup(c, prv, mem, vpn, access, t) ==
  LET at == <<t.table, vpn[t.i + 1]>>
      pte == mem[at]
      below == 2^(LEVELS - 1 - t.i)
      low == LET n[k \in 0..LEVELS] == IF k = 0 THEN 0 ELSE 2 * n[k - 1] + vpn[k] IN n[LEVELS] % below
      used == [pte EXCEPT !.a = TRUE, !.d = @ \/ access = "W"]
  IN  IF t.i = LEVELS \/ at \notin DOMAIN mem THEN Fault(mem)
      ELSE IF ~pte.v \/ pte.reserved THEN Fault(mem)
      ELSE IF pte.xwr # {}
        THEN IF Permits(c, prv, pte, access) /\ pte.ppn % below = 0
               THEN [ok |-> TRUE, page |-> low + pte.ppn, mem |-> [mem EXCEPT ![at] = used]]
               ELSE Fault(mem)
      ELSE Lookup(c, prv, mem, vpn, access, [i |-> t.i + 1, table |-> pte.ppn])

\* A supervisor could execute user pages when it may read them.
Badtranslate_virtual_address(c, mem, v, access) ==
  LET prv == EffectivePrv(c, access)
      p == IF access = "X" THEN "R" ELSE access
  IN  IF prv = "M" \/ c.mode = "bare" THEN [ok |-> TRUE, page |-> v.flat, mem |-> mem]
      ELSE IF c.mode # "paged" \/ ~v.canonical THEN Fault(mem)
      ELSE Lookup(c, prv, mem, v.vpn, p, [i |-> 0, table |-> c.root])
\* v.flat is the address as a physical page; v.canonical, whether the bits above
\* the page numbers are copies of the first of them.
translate_virtual_address(c, mem, v, access) ==
  LET prv == EffectivePrv(c, access)
  IN  IF prv = "M" \/ c.mode = "bare" THEN [ok |-> TRUE, page |-> v.flat, mem |-> mem]
      ELSE IF c.mode # "paged" \/ ~v.canonical THEN Fault(mem)
      ELSE Lookup(c, prv, mem, v.vpn, access, [i |-> 0, table |-> c.root])

-----------------------------------------------------------------------------
\* The manual: the entries on the way from the root to level i are pointers, the
\* one at level i is a leaf that the access is allowed on.
Path(mem, root, vpn, i) ==
  LET p[k \in 0..i] == IF k = 0 THEN <<root, vpn[1]>> ELSE <<mem[p[k - 1]].ppn, vpn[k + 1]>>
  IN  p
Pointer(pte) == pte.v /\ ~pte.reserved /\ pte.xwr = {}
LeafAllows(c, prv, pte, access) ==
  /\ pte.v /\ ~pte.reserved
  /\ "W" \in pte.xwr => "R" \in pte.xwr
  /\ access \in pte.xwr \/ (access = "R" /\ c.mxr /\ "X" \in pte.xwr)
  /\ prv = "U" => pte.u
  /\ (prv = "S" /\ pte.u) => c.sum /\ access # "X"
\* An access that is allowed gets the page the leaf names, of a superpage the
\* one the rest of the address picks, and leaves the entry accessed, and dirty
\* after a write; one that is not changes nothing.
TranslationCorrect(c, mem, v, access) ==
  LET r == translate_virtual_address(c, mem, v, access)
      prv == IF access = "X" \/ ~c.mprv THEN c.prv ELSE c.mpp
      reached(i) == /\ \A k \in 0..(i - 1) : /\ Path(mem, c.root, v.vpn, k)[k] \in DOMAIN mem
                                             /\ Pointer(mem[Path(mem, c.root, v.vpn, k)[k]])
                    /\ Path(mem, c.root, v.vpn, i)[i] \in DOMAIN mem
      leaf(i) == mem[Path(mem, c.root, v.vpn, i)[i]]
      good(i) == reached(i) /\ LeafAllows(c, prv, leaf(i), access) /\ (i = 0 => leaf(i).ppn % 2 = 0)
      paged == prv # "M" /\ c.mode = "paged" /\ v.canonical
  IN  IF prv = "M" \/ c.mode = "bare" THEN r = [ok |-> TRUE, page |-> v.flat, mem |-> mem]
      ELSE IF paged /\ \E i \in 0..1 : good(i)
        THEN LET i == CHOOSE k \in 0..1 : good(k)
                 at == Path(mem, c.root, v.vpn, i)[i]
             IN  /\ r.ok /\ r.page = leaf(i).ppn + (IF i = 0 THEN v.vpn[2] ELSE 0)
                 /\ r.mem[at].a /\ (access = "W" => r.mem[at].d)
                 /\ \A x \in DOMAIN mem : r.mem[x] = [mem[x] EXCEPT !.a = r.mem[x].a, !.d = r.mem[x].d]
                 /\ \A x \in DOMAIN mem \ {at} : r.mem[x] = mem[x]
                 /\ (leaf(i).d \/ access # "W") => r.mem[at].d = leaf(i).d
      ELSE ~r.ok /\ r.mem = mem
=============================================================================
