----------------------------- MODULE AccessLog -----------------------------
(* Access logs: the recorders and the verifiers of a microarchitecture step *)
(* (uarch-record-state-access, uarch-replay-state-access), of a             *)
(* microarchitecture reset and of a CMIO response (record- and              *)
(* replay-send-cmio-state-access), with the operations of machine.cpp that  *)
(* drive them.                                                              *)
(*                                                                          *)
(* Memory is 16 hash tree leaves of two words.  A hash is its own preimage: *)
(* <<data>> for a leaf, <<left, right>> for a node, so hashes never collide.*)
(* The three logged programs are given as the requests they make, as a      *)
(* function of the values their reads returned (got): recorder and verifier *)
(* run the same program, as in the code, where both instantiate one         *)
(* template.                                                                *)
EXTENDS Integers, Sequences, FiniteSets

CONSTANTS Programs,     \* pristine microarchitecture RAMs: sequences of four instructions
          Inputs,       \* responses the host may send, as their lengths in words
          LenModulus,   \* one more than the longest length that the core is told (2^32 bytes)
          CycleMax,     \* UARCH_CYCLE_MAX
          MaxOps,       \* bound: operations on the machine
          MaxDamage     \* bound: changes made to one log

\* The core can be told of a response longer than the receive buffer, which is four words;
\* WriteLog2 knows responses of up to 256 leaves, far more than the buffer holds.
ASSUME InputsAssumption == Inputs \subseteq Nat /\ LenModulus \in 5..512

VARIABLES mem,          \* leaf -> its words
          tree,         \* leaf -> its hash, as last brought up to date
          dirty,        \* pages written since
          prog,         \* pristine microarchitecture RAM of this build
          rec,          \* the recording under way, or <<>>
          log,          \* the log handed to a verifier, or <<>>
          ver,          \* the verification under way, or <<>>
          sentRoot,     \* root when the last advance input was sent, as {} or {root}
          ops
vars == <<mem, tree, dirty, prog, rec, log, ver, sentRoot, ops>>

Height == 4
Leaves == 0..15
PageOf(leaf) == leaf \div 4
Junk == 9               \* a word no program writes

\* Word addresses: 2 * leaf + word.  The microarchitecture state is the node of leaves 0 to 3.
CYCLE == 0
HALT == 1
PC == 2
X == 3
UARCH_RAM == 4
IFLAGS_Y == 8
TOHOST == 9
FROMHOST == 10
RAM_WORD == 11
REVERT_LEAF == 6
TLB_LEAF == 7
RX_LEAF == 8
RX_LOG2 == 1            \* the receive buffer is two leaves

\* Instructions of the microarchitecture, by what they access
LOAD == 1
STORE == 2
TLB == 3
PUTCHAR == 4
HALTING == 5
ILLEGAL == 6

\* Values of tohost in a manual yield
ACCEPTED == 1
REJECTED == 2
\* Reasons of a response
ADVANCE == 1
INSPECT == 2

----------------------------------------------------------------------------
(* Hashes and proofs                                                        *)

HashLeaf(data) == <<data>>

\* Hash of the node of 2^h leaves that starts at leaf i
HashNode(leafHash) ==
  LET N[h \in 0..Height] ==
        [i \in {j \in Leaves : j % 2^h = 0} |->
           IF h = 0 THEN leafHash[i] ELSE <<N[h-1][i], N[h-1][i + 2^(h-1)]>>]
  IN N

RootOf(leafHash) == HashNode(leafHash)[Height][0]

\* Hash of a piece of data: a sequence of 2^h leaves
get_hash(data, h) == HashNode([i \in Leaves |-> HashLeaf(IF i < Len(data) THEN data[i + 1] ELSE <<0, 0>>)])[h][0]

\* Sibling hashes of the node of 2^h leaves at leaf, from the target up
Siblings(leafHash, leaf, h) ==
  LET N == HashNode(leafHash)
  IN [k \in 1..(Height - h) |->
        LET l == h + k - 1
            at == (leaf \div 2^l) * 2^l
        IN N[l][IF (at \div 2^l) % 2 = 1 THEN at - 2^l ELSE at + 2^l]]

bubble_up(leaf, h, sib, target) ==
  LET Up[k \in 0..Len(sib)] ==
        IF k = 0 THEN target
        ELSE IF (leaf \div 2^(h + k - 1)) % 2 = 1 THEN <<sib[k], Up[k-1]>> ELSE <<Up[k-1], sib[k]>>
  IN Up[Len(sib)]

\* The leaf of an access: its address aligned down to its natural size
adjust_access(addr, h) == IF h < 0 THEN addr \div 2 ELSE ((addr \div 2) \div (2^h)) * 2^h
AccessHeight(h) == IF h < 0 THEN 0 ELSE h

ReadMemory(m, leaf, h) == [k \in 1..2^h |-> m[leaf + k - 1]]

GetWord(data, addr) == data[1][1 + (addr % 2)]
ReplaceWord(data, addr, v) == [data EXCEPT ![1][1 + (addr % 2)] = v]

\* A proof is made only when the data logged has the size of the access
make_proof(a) ==
  LET Fits(d) == d = {} \/ \E x \in d : Len(x) = 2^AccessHeight(a.size)
  IN Fits(a.read) /\ Fits(a.written)

verify(a, root) ==
  bubble_up(adjust_access(a.addr, a.size), AccessHeight(a.size), a.sib, a.rhash) = root
----------------------------------------------------------------------------
(* The logged programs                                                      *)

Rd(addr) == [t |-> "read", addr |-> addr, size |-> -1, data |-> <<>>]
Wr(addr, v) == [t |-> "write", addr |-> addr, size |-> -1, data |-> <<v>>]
WrNode(leaf, h, data) == [t |-> "write", addr |-> 2 * leaf, size |-> h, data |-> data]
Revert == [t |-> "revert", addr |-> 2 * REVERT_LEAF, size |-> 0, data |-> <<>>]
Throw == [t |-> "throw", addr |-> 0, size |-> 0, data |-> <<>>]

PristineUarch == <<<<0, 0>>, <<0, 0>>, <<prog[1], prog[2]>>, <<prog[3], prog[4]>>>>

\* Requests of the instruction read, after the four reads that fetch it
executeInsn(got) ==
  LET advancePc == <<Wr(PC, (got[3] + 1) % 4)>>
  IN CASE got[4] = LOAD -> <<Rd(RAM_WORD)>> \o IF Len(got) < 5 THEN <<>> ELSE <<Wr(X, got[5])>> \o advancePc
       [] got[4] = STORE -> <<Rd(X)>> \o IF Len(got) < 5 THEN <<>> ELSE <<Wr(RAM_WORD, 1 - got[5])>> \o advancePc
       [] got[4] = TLB -> <<Rd(X)>> \o IF Len(got) < 5 THEN <<>>
                                        ELSE <<WrNode(TLB_LEAF, 0, <<<<got[5], 1>>>>)>> \o advancePc
       [] got[4] = PUTCHAR -> advancePc
       [] got[4] = HALTING -> <<Wr(HALT, 1)>>
       [] OTHER -> <<Throw>>

uarch_step(got) ==
  <<Rd(CYCLE)>> \o
    IF Len(got) < 1 \/ got[1] >= CycleMax THEN <<>>
    ELSE <<Rd(HALT)>> \o
      IF Len(got) < 2 \/ got[2] # 0 THEN <<>>
      ELSE <<Rd(PC)>> \o
        IF Len(got) < 3 THEN <<>>
        ELSE <<Rd(UARCH_RAM + got[3])>> \o
          IF Len(got) < 4 THEN <<>>
          ELSE LET insn == executeInsn(got)
                   \* an instruction still waiting for a read ends with that read
                   waiting == insn[Len(insn)].t # "write"
               IN insn \o IF waiting THEN <<>> ELSE <<Wr(CYCLE, got[1] + 1)>>

uarch_reset_state(got) ==
  <<WrNode(0, 2, PristineUarch), Rd(IFLAGS_Y)>> \o
    IF Len(got) < 1 \/ got[1] = 0 THEN <<>>
    ELSE <<Rd(TOHOST)>> \o IF Len(got) < 2 \/ got[2] # REJECTED THEN <<>> ELSE <<Revert>>

\* Padding a response of n words: log2 of the leaves written
WriteLog2(n) == CHOOSE h \in 0..8 : 2 * 2^h >= n /\ \A g \in 0..(h - 1) : 2 * 2^g < n
Padded(n, h) == [k \in 1..2^h |-> <<IF 2 * k - 1 <= n THEN 1 ELSE 0, IF 2 * k <= n THEN 1 ELSE 0>>]

\* The host's length has 64 bits and that of the core 32: the call drops the others.
Narrowed(i) == [i EXCEPT !.len = @ % LenModulus]

send_cmio_response(i, got) ==
  <<Rd(IFLAGS_Y)>> \o
    IF Len(got) < 1 \/ got[1] = 0 THEN <<>>
    ELSE LET answer ==
               IF i.len > 0 /\ WriteLog2(i.len) > RX_LOG2 THEN <<>>
               ELSE <<WrNode(REVERT_LEAF, 0, <<<<i.revert>>>>)>>
                    \o (IF i.len = 0 THEN <<>>
                        ELSE <<WrNode(RX_LEAF, WriteLog2(i.len), Padded(i.len, WriteLog2(i.len)))>>)
                    \o <<Wr(FROMHOST, 10 * i.reason + i.len), Wr(IFLAGS_Y, 0)>>
         IN IF i.reason # ADVANCE THEN answer
            ELSE <<Rd(TOHOST)>> \o IF Len(got) < 2 \/ got[2] # ACCEPTED THEN <<>> ELSE answer

Requests(op, i, got) ==
  CASE op = "step" -> uarch_step(got)
    [] op = "reset" -> uarch_reset_state(got)
    [] op = "send" -> send_cmio_response(i, got)
----------------------------------------------------------------------------
(* The machine                                                              *)

\* update_hash_tree: every dirty page is hashed again
Updated(m, t, d) == [l \in Leaves |-> IF PageOf(l) \in d THEN HashLeaf(m[l]) ELSE t[l]]
get_root_hash == RootOf(Updated(mem, tree, dirty))

WriteData(m, leaf, data) == [l \in Leaves |-> IF l \in leaf..(leaf + Len(data) - 1) THEN data[l - leaf + 1] ELSE m[l]]
WriteWord(m, addr, v) == [m EXCEPT ![addr \div 2][1 + (addr % 2)] = v]
Word(addr) == mem[addr \div 2][1 + (addr % 2)]

Idle == rec = <<>> /\ ver = <<>> /\ ops < MaxOps

BadCheckPending(i) ==
  /\ Word(IFLAGS_Y) # 0
  /\ i.len <= 2 * 2^RX_LOG2 + 1
  /\ i.reason = ADVANCE => Word(TOHOST) = ACCEPTED /\ i.revert = get_root_hash

BadCheckRevert(i) ==
  /\ Word(IFLAGS_Y) # 0
  /\ i.len <= 2 * 2^RX_LOG2
  /\ i.reason = ADVANCE => Word(TOHOST) = ACCEPTED

check_pending_cmio_request(i) ==
  /\ Word(IFLAGS_Y) # 0
  /\ i.len <= 2 * 2^RX_LOG2
  /\ i.reason = ADVANCE => Word(TOHOST) = ACCEPTED /\ i.revert = get_root_hash

\* What the writes among the requests make of memory
Effect(all, m) ==
  LET E[n \in 0..Len(all)] ==
        IF n = 0 THEN m
        ELSE IF all[n].t # "write" THEN E[n - 1]
        ELSE IF all[n].size < 0 THEN WriteWord(E[n - 1], all[n].addr, all[n].data[1])
        ELSE WriteData(E[n - 1], all[n].addr \div 2, all[n].data)
  IN E[Len(all)]

PagesWritten(all) == {PageOf(all[n].addr \div 2) : n \in {k \in DOMAIN all : all[k].t = "write"}}

Responses == [reason : {ADVANCE, INSPECT}, len : Inputs, revert : {get_root_hash, <<>>}]

\* machine::send_cmio_response: refused, with nothing changed, or carried out
HostSend ==
  /\ Idle
  /\ \E i \in Responses :
       /\ check_pending_cmio_request(i)
       /\ LET all == send_cmio_response(Narrowed(i), <<Word(IFLAGS_Y), Word(TOHOST)>>)
          IN /\ mem' = Effect(all, mem)
             /\ tree' = Updated(mem, tree, dirty)
             /\ dirty' = PagesWritten(all)
       /\ sentRoot' = IF i.reason = ADVANCE THEN {get_root_hash} ELSE {}
  /\ ops' = ops + 1
  /\ UNCHANGED <<prog, rec, log, ver>>

\* The machine runs, with a reset microarchitecture, until it yields: it answered the input
Run ==
  /\ Idle
  /\ Word(CYCLE) = 0
  /\ Word(IFLAGS_Y) = 0
  /\ \E tohost \in {ACCEPTED, REJECTED} :
       mem' = WriteWord(WriteWord(mem, IFLAGS_Y, 1), TOHOST, tohost)
  /\ dirty' = dirty \cup {PageOf(IFLAGS_Y \div 2)}
  /\ ops' = ops + 1
  /\ UNCHANGED <<tree, prog, rec, log, ver, sentRoot>>
----------------------------------------------------------------------------
(* The recorders                                                            *)

\* Start of log_step_uarch, log_reset_uarch and log_send_cmio_response
StartLog(op, i, large) ==
  /\ Idle
  /\ tree' = Updated(mem, tree, dirty)
  /\ dirty' = {}
  /\ rec' = [op |-> op, input |-> i, large |-> large, before |-> get_root_hash, got |-> <<>>,
             accesses |-> <<>>, revert |-> {}]
  /\ ops' = ops + 1
  /\ UNCHANGED <<mem, prog, log, ver, sentRoot>>

log_step_uarch == \E large \in BOOLEAN : StartLog("step", <<>>, large)
log_reset_uarch == \E large \in BOOLEAN : StartLog("reset", <<>>, large)
log_send_cmio_response == \E i \in Responses, large \in BOOLEAN : StartLog("send", Narrowed(i), large)

Pending == Requests(rec.op, rec.input, rec.got)
Request == Pending[Len(rec.accesses) + 1]
Recording == rec # <<>> /\ Len(rec.accesses) < Len(Pending)

If(large, data) == IF large THEN {data} ELSE {}

\* A read of a word, or of the revert root hash, by the microarchitecture
log_read_word_access(r) ==
  LET leaf == adjust_access(r.addr, r.size)
  IN [a |-> [type |-> "read", addr |-> r.addr, size |-> r.size, sib |-> Siblings(tree, leaf, 0),
             rhash |-> tree[leaf], read |-> {ReadMemory(mem, leaf, 0)}, whash |-> {}, written |-> {}],
      mem |-> mem, tree |-> tree]

BadLogWriteStale(r) ==
  LET leaf == adjust_access(r.addr, r.size)
      h == AccessHeight(r.size)
      small == r.size < 0
      m2 == Effect(<<r>>, mem)
      t2 == Updated(m2, tree, {PageOf(RX_LEAF)})
  IN [a |-> [type |-> "write", addr |-> r.addr, size |-> r.size, sib |-> Siblings(tree, leaf, h),
             rhash |-> HashNode(tree)[h][leaf], read |-> If(small \/ rec.large, ReadMemory(mem, leaf, h)),
             whash |-> {HashNode(t2)[h][leaf]}, written |-> If(small \/ rec.large, ReadMemory(m2, leaf, h))],
      mem |-> m2, tree |-> t2]

\* A write of a word, of a TLB slot or of the whole state, by the microarchitecture: hashes
\* come from the tree, brought up to date for the pages written, data from memory
log_write_access(r) ==
  LET leaf == adjust_access(r.addr, r.size)
      h == AccessHeight(r.size)
      small == r.size < 0
      m2 == Effect(<<r>>, mem)
      t2 == Updated(m2, tree, {PageOf(leaf)})
  IN [a |-> [type |-> "write", addr |-> r.addr, size |-> r.size, sib |-> Siblings(tree, leaf, h),
             rhash |-> HashNode(tree)[h][leaf], read |-> If(small \/ rec.large, ReadMemory(mem, leaf, h)),
             whash |-> {HashNode(t2)[h][leaf]}, written |-> If(small \/ rec.large, ReadMemory(m2, leaf, h))],
      mem |-> m2, tree |-> t2]

\* A read of a word by a CMIO response: the read hash is that of the data
log_read(r) ==
  LET leaf == r.addr \div 2
      data == ReadMemory(mem, leaf, 0)
  IN [a |-> [type |-> "read", addr |-> r.addr, size |-> r.size, sib |-> Siblings(tree, leaf, 0),
             rhash |-> get_hash(data, 0), read |-> {data}, whash |-> {}, written |-> {}],
      mem |-> mem, tree |-> tree]

\* A write of a word by a CMIO response: data and hashes are made before it happens
log_before_write_write_and_update(r) ==
  LET leaf == r.addr \div 2
      data == ReadMemory(mem, leaf, 0)
      new == ReplaceWord(data, r.addr, r.data[1])
      m2 == WriteWord(mem, r.addr, r.data[1])
  IN [a |-> [type |-> "write", addr |-> r.addr, size |-> r.size, sib |-> Siblings(tree, leaf, 0),
             rhash |-> get_hash(data, 0), read |-> {data}, whash |-> {get_hash(new, 0)}, written |-> {new}],
      mem |-> m2, tree |-> Updated(m2, tree, {PageOf(leaf)})]

\* The revert root hash or the receive buffer, written by a CMIO response
log_write_memory_with_padding(r) ==
  LET leaf == r.addr \div 2
      m2 == WriteData(mem, leaf, r.data)
      new == ReadMemory(m2, leaf, r.size)
  IN [a |-> [type |-> "write", addr |-> r.addr, size |-> r.size, sib |-> Siblings(tree, leaf, r.size),
             rhash |-> HashNode(tree)[r.size][leaf], read |-> If(rec.large, ReadMemory(mem, leaf, r.size)),
             whash |-> {get_hash(new, r.size)}, written |-> If(rec.large, new)],
      mem |-> m2, tree |-> Updated(m2, tree, {PageOf(leaf)})]

Entry(r) ==
  IF rec.op = "send"
  THEN IF r.t = "read" THEN log_read(r)
       ELSE IF r.size < 0 THEN log_before_write_write_and_update(r) ELSE log_write_memory_with_padding(r)
  ELSE IF r.t = "write" THEN log_write_access(r) ELSE log_read_word_access(r)

RecordAccess ==
  /\ Recording
  /\ Request.t # "throw"
  /\ LET e == Entry(Request)
         data == CHOOSE d \in e.a.read : TRUE
     IN /\ mem' = e.mem
        /\ tree' = e.tree
        /\ rec' = [rec EXCEPT !.accesses = Append(@, e.a),
                              !.got = IF Request.t = "read" THEN Append(@, GetWord(data, Request.addr)) ELSE @,
                              !.revert = IF Request.t = "revert" THEN {data[1][1]} ELSE @]
  /\ UNCHANGED <<dirty, prog, log, ver, sentRoot, ops>>

\* The program throws (an unsupported instruction): there is no log
RecordThrow ==
  /\ Recording
  /\ Request.t = "throw"
  /\ rec' = <<>>
  /\ UNCHANGED <<mem, tree, dirty, prog, log, ver, sentRoot, ops>>

\* The program returns.  The root hash after it is that of the machine, or the revert root hash
RecordFinish ==
  /\ rec # <<>>
  /\ ~Recording
  /\ log' = [op |-> rec.op, input |-> rec.input, before |-> rec.before, accesses |-> rec.accesses,
             after |-> IF rec.revert # {} THEN CHOOSE h \in rec.revert : TRUE ELSE get_root_hash,
             reverted |-> rec.revert # {}, damage |-> 0]
  /\ tree' = Updated(mem, tree, dirty)
  /\ dirty' = {}
  /\ rec' = <<>>
  /\ ver' = [root |-> rec.before, next |-> 1, got |-> <<>>, status |-> "running"]
  /\ sentRoot' = IF rec.op # "send" \/ \A k \in DOMAIN rec.accesses : rec.accesses[k].type = "read"
                 THEN sentRoot
                 ELSE IF rec.input.reason = ADVANCE /\ rec.input.revert = rec.before THEN {rec.before} ELSE {}
  /\ UNCHANGED <<mem, prog, ops>>
----------------------------------------------------------------------------
(* What may happen to a log between the recorder and a verifier             *)

AlteredData(data) == [data EXCEPT ![1] = IF Len(@) = 1 THEN <<<<>>>> ELSE [@ EXCEPT ![1] = Junk]]

DamagedAccesses(s) ==
  {SubSeq(s, 1, k - 1) \o SubSeq(s, k + 1, Len(s)) : k \in DOMAIN s}
    \cup {SubSeq(s, 1, k) \o SubSeq(s, k, Len(s)) : k \in DOMAIN s}
    \cup UNION {LET a == s[k] IN
           {[s EXCEPT ![k] = b] : b \in
             {[a EXCEPT !.type = IF @ = "read" THEN "write" ELSE "read"], [a EXCEPT !.addr = (@ + 2) % 32],
              [a EXCEPT !.addr = (@ + 1) % 32], [a EXCEPT !.size = @ + 1], [a EXCEPT !.rhash = <<>>],
              [a EXCEPT !.sib[1] = <<>>], [a EXCEPT !.read = {}], [a EXCEPT !.whash = {}], [a EXCEPT !.written = {}],
              [a EXCEPT !.whash = {<<>>}], [a EXCEPT !.read = {AlteredData(d) : d \in @}],
              [a EXCEPT !.written = {AlteredData(d) : d \in @}], [a EXCEPT !.read = {Append(d, <<0, 0>>) : d \in @}]}}
         : k \in DOMAIN s}

Damage ==
  /\ ver # <<>>
  /\ ver.status = "running" /\ ver.next = 1
  /\ log.damage < MaxDamage
  /\ \E s \in DamagedAccesses(log.accesses) \ {log.accesses} :
       log' = [log EXCEPT !.accesses = s, !.damage = @ + 1]
  /\ UNCHANGED <<mem, tree, dirty, prog, rec, ver, sentRoot, ops>>
----------------------------------------------------------------------------
(* The verifiers                                                            *)

check_access_type(a, type) == a.type = type /\ (type = "read" => a.written = {} /\ a.whash = {})
check_access_range(a, r) == a.addr = r.addr /\ a.size = r.size
check_access_siblings_and_read_hash(a) == make_proof(a) /\ verify(a, ver.root)
check_read_data(a) == \E d \in a.read : a.rhash = get_hash(d, AccessHeight(a.size))
check_read_data_if_there(a) == \A d \in a.read : a.rhash = get_hash(d, AccessHeight(a.size))
check_written_data_if_there(a) == \A d \in a.written : a.whash = {get_hash(d, AccessHeight(a.size))}

check_read_word_access(a, r) ==
  /\ check_access_type(a, "read")
  /\ check_access_range(a, r)
  /\ check_access_siblings_and_read_hash(a)
  /\ check_read_data(a)

check_write_access(a, r) ==
  /\ check_access_type(a, "write")
  /\ check_access_range(a, r)
  /\ check_access_siblings_and_read_hash(a)
  /\ a.whash = {get_hash(r.data, r.size)}
  /\ check_read_data_if_there(a)
  /\ check_written_data_if_there(a)

BadCheckWriteWord(a, r) ==
  /\ check_access_type(a, "write")
  /\ check_access_range(a, r)
  /\ check_access_siblings_and_read_hash(a)
  /\ check_read_data(a)
  /\ a.whash # {}

check_write_word_access(a, r) ==
  /\ check_access_type(a, "write")
  /\ check_access_range(a, r)
  /\ check_access_siblings_and_read_hash(a)
  /\ check_read_data(a)
  /\ \E d \in a.read : a.whash = {get_hash(ReplaceWord(d, r.addr, r.data[1]), 0)}
  /\ check_written_data_if_there(a)

\* The checks of a CMIO response: written data of a word must be there, and differ from the
\* data read by the word only
check_read(a, r) ==
  /\ a.type = "read"
  /\ check_access_range(a, r)
  /\ \E d \in a.read : Len(d) = 1 /\ a.rhash = get_hash(d, 0)
  /\ check_access_siblings_and_read_hash(a)

check_write(a, r) ==
  /\ a.type = "write"
  /\ check_access_range(a, r)
  /\ \E d \in a.read, w \in a.written :
       /\ Len(d) = 1 /\ Len(w) = 1
       /\ a.rhash = get_hash(d, 0)
       /\ a.whash = {get_hash(w, 0)}
       /\ GetWord(w, r.addr) = r.data[1]
       /\ w = ReplaceWord(d, r.addr, r.data[1])
  /\ check_access_siblings_and_read_hash(a)

check_write_memory_with_padding(a, r) ==
  /\ a.type = "write"
  /\ check_access_range(a, r)
  /\ check_read_data_if_there(a)
  /\ a.whash = {get_hash(r.data, r.size)}
  /\ check_written_data_if_there(a)
  /\ check_access_siblings_and_read_hash(a)

Checked(a, r) ==
  /\ r.t # "throw"
  /\ IF log.op = "send"
     THEN IF r.t = "read" THEN check_read(a, r)
          ELSE IF r.size < 0 THEN check_write(a, r) ELSE check_write_memory_with_padding(a, r)
     ELSE IF r.t # "write" THEN check_read_word_access(a, r)
          ELSE IF r.size < 0 THEN check_write_word_access(a, r) ELSE check_write_access(a, r)

Expected == Requests(log.op, log.input, ver.got)
Verifying == ver # <<>> /\ ver.status = "running"

VerifyAccess ==
  /\ Verifying
  /\ ver.next <= Len(Expected)
  /\ LET r == Expected[ver.next]
         a == log.accesses[ver.next]
         data == CHOOSE d \in a.read : TRUE
     IN ver' = IF ver.next > Len(log.accesses) \/ ~Checked(a, r) THEN [ver EXCEPT !.status = "rejected"]
               ELSE [ver EXCEPT !.next = @ + 1,
                       !.got = IF r.t = "read" THEN Append(@, GetWord(data, r.addr)) ELSE @,
                       !.root = CASE r.t = "read" -> @
                                  [] r.t = "revert" -> data[1][1]
                                  [] OTHER -> bubble_up(adjust_access(a.addr, a.size), AccessHeight(a.size), a.sib,
                                                        CHOOSE h \in a.whash : TRUE)]
  /\ UNCHANGED <<mem, tree, dirty, prog, rec, log, sentRoot, ops>>

finish ==
  /\ Verifying
  /\ ver.next > Len(Expected)
  /\ ver' = [ver EXCEPT !.status = IF ver.next = Len(log.accesses) + 1 THEN "accepted" ELSE "rejected"]
  /\ UNCHANGED <<mem, tree, dirty, prog, rec, log, sentRoot, ops>>

\* The caller has the verdict
Done ==
  /\ ver # <<>>
  /\ ver.status # "running"
  /\ ver' = <<>>
  /\ log' = <<>>
  /\ UNCHANGED <<mem, tree, dirty, prog, rec, sentRoot, ops>>
----------------------------------------------------------------------------
Init ==
  /\ prog \in Programs
  /\ mem = [l \in Leaves |-> IF l \in 0..3 THEN PristineUarch[l + 1]
                             ELSE IF l = IFLAGS_Y \div 2 THEN <<1, ACCEPTED>>
                             ELSE IF l = REVERT_LEAF THEN <<<<>>>> ELSE <<0, 0>>]
  /\ tree = [l \in Leaves |-> HashLeaf(mem[l])]
  /\ dirty = {} /\ rec = <<>> /\ log = <<>> /\ ver = <<>> /\ sentRoot = {} /\ ops = 0

Next == \/ HostSend \/ Run \/ log_step_uarch \/ log_reset_uarch \/ log_send_cmio_response
        \/ RecordAccess \/ RecordThrow \/ RecordFinish \/ Damage \/ VerifyAccess \/ finish \/ Done

Spec == Init /\ [][Next]_vars
----------------------------------------------------------------------------
(* Properties                                                               *)

Verdict == ver # <<>> /\ ver.status # "running"

\* A log the recorders make is accepted, and its verification ends at the root hash the
\* recorder returns: that of the machine, or the revert root hash when the machine rejected its
\* input.  (Recorders take hashes from a tree they update page by page, verifiers from the log.)
RecordedAccepted ==
  Verdict /\ log.damage = 0 => ver.status = "accepted" /\ ver.root = log.after

\* A log of which entries were lost, repeated or changed is refused, or what changed does not
\* matter: verification never ends at another root hash.
DamagedHarmless == Verdict /\ ver.status = "accepted" => ver.root = log.after

\* A reset of the microarchitecture after the machine rejected an input that the host sent goes
\* back to the root hash the machine had when the input was sent.
RejectedReverts == log # <<>> /\ log.reverted /\ sentRoot # {} => log.after \in sentRoot

\* A response the host is allowed to send always takes effect: the core, which turns what it
\* cannot do into nothing, never ignores it.
SendTakesEffect ==
  [][HostSend => mem'[IFLAGS_Y \div 2][1] = 0]_vars

\* Logs agree with the machine they were recorded from: accepted as they are, and back at the
\* root hash before the input when it was rejected.
LogsAccepted == RecordedAccepted /\ RejectedReverts
=============================================================================
