-------------------------------- MODULE Arith --------------------------------
(***************************************************************************)
(* The pure computations of the machine, each against a definition of what *)
(* it should return: floating point (Ieee754), the integer instructions of *)
(* the interpreter and of the microarchitecture (Isa), the fields of an    *)
(* instruction (Decode), page tables (Translate), hashes (Hashers), the    *)
(* base64, JSON and the arguments and answers of JSON-RPC requests         *)
(* (Codec), collections of hashes and their trees (CollectHashes), control *)
(* and status registers (Csr) and the instructions of the floating-point   *)
(* unit (FloatInsn).  A step is a call of the operation with the first     *)
(* operand, and moves to the next one; the properties say of each step     *)
(* what the call returns, whatever the other operands.                     *)
(***************************************************************************)
EXTENDS Ieee754, Isa, TLC

CONSTANTS
  Last,          \* the largest first operand
  Floats2,       \* second operands of floating-point operations
  Floats3,       \* third operands, and first two, of fused operations
  IntSizes,      \* sizes of integers that floats are converted to and from
  HashLengths,   \* lengths of messages to hash
  Operands       \* second operands, and immediates, of instructions

D == INSTANCE Decode
T == INSTANCE Translate
H == INSTANCE Hashers
C == INSTANCE Codec
Col == INSTANCE CollectHashes
Reg == INSTANCE Csr
FI == INSTANCE FloatInsn

VARIABLES op, a
vars == <<op, a>>

Bit1(v, k) == Shr(v, k) % 2

FloatOps == {"fadd", "fmul", "fdiv", "fsqrt", "fma", "fcvt"} \X F32!Modes
OtherOps == {"order", "decode", "translate", "keccak", "sha256", "simd", "tree", "base64", "rpc", "collect", "csr", "finsn"} \union Arithmetic \union ArithmeticW \union UarchOps \union CompressedOps
Calls == FloatOps \union {<<o, "none">> : o \in OtherOps} \union {<<"json", t>> : t \in C!Types}
Init == a = 0 /\ op \in Calls
Next == a <= (IF op[1] = "json" THEN 0 ELSE Last) /\ a' = a + 1 /\ UNCHANGED op
Spec == Init /\ [][Next]_vars

-----------------------------------------------------------------------------
\* Every operation returns the float nearest to the exact result in the
\* direction of the rounding mode, and raises inexact, overflow, underflow,
\* division by zero and invalid exactly when it should.
FloatRounded ==
  LET rm == op[2]
  IN  CASE op[1] = "fadd" -> \A b \in Floats2 : AddCorrect(a, b, rm)
        [] op[1] = "fmul" -> \A b \in Floats2 : MulCorrect(a, b, rm)
        [] op[1] = "fdiv" -> \A b \in Floats2 : DivCorrect(a, b, rm)
        [] op[1] = "fsqrt" -> SqrtCorrect(a, rm)
        [] op[1] = "fma" -> a \in Floats3 =>
             \A b \in {x \in Floats3 : ~Neg(x)}, c \in Floats3 : FmaCorrect(a, b, c, rm)
        [] OTHER -> TRUE

\* Comparisons, minima and classes follow the order of the numbers, NaNs and
\* signed zeros as RISC-V has them.
FloatOrdered ==
  op[1] = "order" => ClassCorrect(a) /\ WidenCorrect(a) /\ \A b \in Floats2 : OrderCorrect(a, b)

\* A conversion to or from an integer, or to the smaller format, rounds, and
\* saturates, as an operation does.
FloatConverted ==
  op[1] = "fcvt" =>
    /\ \A size \in IntSizes, unsigned \in BOOLEAN :
         /\ ToIntCorrect(a, op[2], size, unsigned)
         /\ \A i \in {x \in {a, 2 * a + 1, 16 * a + 7} : x < 2^size} : FromIntCorrect(i, op[2], size, unsigned)
    /\ \A low \in 0..63 : NarrowCorrect(64 * a + low, op[2])

-----------------------------------------------------------------------------
\* A quotient and a remainder: together they give the dividend back; the
\* remainder is smaller than the divisor and has the sign of the dividend.
Divides(x, y, q, r, least, allOnes) ==
  IF y = 0 THEN q = allOnes /\ r = x
  ELSE IF x = least /\ y = -1 THEN q = x /\ r = 0
  ELSE x = y * q + r /\ Abs(r) < Abs(y) /\ (r = 0 \/ (r < 0) = (x < 0))

\* The instructions of one width on x and y, as signed numbers of n bits.
ArithmeticSound(R(_), b, n, w) ==
  LET x == S(a, n)
      y == S(b, n)
      s(o) == S(R(o), XLEN)
      u(o) == U(R(o), n)
      k == b % n
  IN  /\ U(s("ADD"), n) = U(x + y, n) /\ U(s("SUB"), n) = U(x - y, n) /\ U(s("MUL"), n) = U(x * y, n)
      /\ Divides(x, y, s("DIV"), s("REM"), -(2^(n - 1)), -1)
      /\ Divides(U(a, n), U(b, n), u("DIVU"), u("REMU"), -1, 2^n - 1)
      /\ \A j \in 0..(n - 1) :
           /\ Bit1(u("SLL"), j) = IF j < k THEN 0 ELSE Bit1(a, j - k)
           /\ Bit1(u("SRL"), j) = IF j + k < n THEN Bit1(a, j + k) ELSE 0
           /\ Bit1(u("SRA"), j) = Bit1(a, IF j + k < n THEN j + k ELSE n - 1)
      \* A word is sign-extended.
      /\ w => \A o \in {"ADD", "SUB", "MUL", "DIV", "DIVU", "REM", "REMU", "SLL", "SRL", "SRA"} :
                s(o) \in -(2^(n - 1))..(2^(n - 1) - 1)

\* States in which an instruction is executed: x8 holds the first operand, x9
\* the second, and x2 points into memory; bytes differ from place to place.
Memory == [addr \in 0..(2^XLEN - 1) |-> U((addr * addr) \div 3, BYTE)]
State(b) == [pc |-> 64, mem |-> Memory, x |-> 0 :> 0 @@ 1 :> 5 @@ 2 :> b @@ 8 :> a @@ 9 :> b]

\* An atomic operation is a load, an operation and a store.
AmoSound(f, n, b) ==
  LET s == State(b)
      loaded == Execute(s, [op |-> IF n = 4 THEN "LW" ELSE "LD", rd |-> 8, rs1 |-> 2, rs2 |-> 0, imm |-> 0])
      m == loaded.x[8]
      r == IF n = 4 THEN Word(a) ELSE a
      v == CASE f = "SWAP" -> r
             [] f \in {"ADD", "XOR", "AND", "OR"} -> execute_arithmetic(f, m, r)
             [] f = "MIN" -> IF Taken("BLT", m, r) THEN m ELSE r
             [] f = "MAX" -> IF Taken("BLT", m, r) THEN r ELSE m
             [] f = "MINU" -> IF Taken("BLTU", m, r) THEN m ELSE r
             [] f = "MAXU" -> IF Taken("BLTU", m, r) THEN r ELSE m
      stored == Execute([s EXCEPT !.x[8] = v],
                        [op |-> IF n = 4 THEN "SW" ELSE "SD", rd |-> 0, rs1 |-> 2, rs2 |-> 8, imm |-> 0])
  IN  Execute(s, [op |-> "AMO", f |-> f, bytes |-> n, rd |-> 8, rs1 |-> 2, rs2 |-> 8, imm |-> 0])
        = [loaded EXCEPT !.mem = stored.mem]

\* Instructions compute what the manual says: division by zero and the overflow
\* of division, products in two halves, shifts, sign extension of words, atomic operations.
AluCorrect ==
  op[1] = "ADD" =>
    \A b \in Operands :
      LET wide(o) == execute_arithmetic(o, a, b)
          word(o) == execute_arithmetic_W(CASE o = "DIVU" -> "DIVUW" [] o = "REMU" -> "REMUW"
                       [] o = "ADD" -> "ADDW" [] o = "SUB" -> "SUBW" [] o = "MUL" -> "MULW" [] o = "DIV" -> "DIVW"
                       [] o = "REM" -> "REMW" [] o = "SLL" -> "SLLW" [] o = "SRL" -> "SRLW" [] o = "SRA" -> "SRAW", a, b)
          low == wide("MUL")
      IN  /\ ArithmeticSound(wide, b, XLEN, FALSE)
          /\ ArithmeticSound(word, b, WLEN, TRUE)
          /\ S(wide("MULH"), XLEN) * 2^XLEN + low = S(a, XLEN) * S(b, XLEN)
          /\ S(wide("MULHSU"), XLEN) * 2^XLEN + low = S(a, XLEN) * b
          /\ wide("MULHU") * 2^XLEN + low = a * b
          /\ \A f \in Amos, n \in {4, 8} : Aligned(b, n) => AmoSound(f, n, b)

-----------------------------------------------------------------------------
Insn(rd, rs1, rs2, imm) == [op |-> op[1], rd |-> rd, rs1 |-> rs1, rs2 |-> rs2, imm |-> imm]
SignedImm(b) == S(b, XLEN)

\* The microarchitecture, which runs the interpreter compiled for it, and the
\* interpreter itself execute the instructions they share alike, though one
\* reads and writes memory by words and has no integers but Solidity's.
UarchAgrees ==
  op[1] \in UarchOps =>
    \A b \in Operands, rd \in {0, 8, 9}, rs2 \in {8, 9} :
      LET i == Insn(rd, 8, rs2, SignedImm(b))
          access == op[1] \in Loads \union Stores
      IN  (access => Aligned(X(a + SignedImm(b)), Bytes(op[1]))) =>
             executeInsn(State(b), i) = Execute(State(b), i)

\* What the manual says a compressed instruction stands for.
Expansion(b) ==
  LET o == op[1]
      e(p, rd, rs1, rs2, imm) == [op |-> p, rd |-> rd, rs1 |-> rs1, rs2 |-> rs2, imm |-> imm]
      shamt == b % XLEN
  IN  CASE o \in {"C_SUB", "C_XOR", "C_OR", "C_AND", "C_SUBW", "C_ADDW", "C_MUL"} ->
             e(CASE o = "C_SUB" -> "SUB" [] o = "C_XOR" -> "XOR" [] o = "C_OR" -> "OR" [] o = "C_AND" -> "AND"
                 [] o = "C_SUBW" -> "SUBW" [] o = "C_ADDW" -> "ADDW" [] o = "C_MUL" -> "MUL", 8, 8, 9, 0)
        [] o = "C_NOP" -> e("ADDI", 0, 0, 0, 0)
        [] o = "C_ADDI" -> e("ADDI", 8, 8, 0, SignedImm(b))
        [] o = "C_ADDIW" -> e("ADDIW", 8, 8, 0, SignedImm(b))
        [] o = "C_LI" -> e("ADDI", 8, 0, 0, SignedImm(b))
        [] o = "C_LUI" -> e("LUI", 8, 0, 0, SignedImm(b))
        [] o = "C_ADDI16SP" -> e("ADDI", 2, 2, 0, SignedImm(b))
        [] o = "C_ADDI4SPN" -> e("ADDI", 8, 2, 0, b)
        [] o \in {"C_SRLI", "C_SRAI", "C_SLLI"} ->
             e(CASE o = "C_SRLI" -> "SRLI" [] o = "C_SRAI" -> "SRAI" [] o = "C_SLLI" -> "SLLI", 8, 8, 0, shamt)
        [] o = "C_ANDI" -> e("ANDI", 8, 8, 0, SignedImm(b))
        [] o = "C_NOT" -> e("XORI", 8, 8, 0, -1)
        [] o = "C_ZEXT_B" -> e("ANDI", 8, 8, 0, 2^BYTE - 1)
        [] o = "C_J" -> e("JAL", 0, 0, 0, SignedImm(b))
        [] o = "C_BEQZ" -> e("BEQ", 0, 8, 0, SignedImm(b))
        [] o = "C_BNEZ" -> e("BNE", 0, 8, 0, SignedImm(b))
        [] o = "C_JR" -> e("JALR", 0, 8, 0, 0)
        [] o = "C_JALR" -> e("JALR", 1, 8, 0, 0)
        [] o = "C_MV" -> e("ADD", 8, 0, 9, 0)
        [] o = "C_ADD" -> e("ADD", 8, 8, 9, 0)
        [] o \in {"C_LW", "C_LWSP"} -> e("LW", 8, IF o = "C_LW" THEN 8 ELSE 2, 0, shamt)
        [] o \in {"C_LD", "C_LDSP"} -> e("LD", 8, IF o = "C_LD" THEN 8 ELSE 2, 0, shamt)
        [] o \in {"C_SW", "C_SWSP"} -> e("SW", 0, IF o = "C_SW" THEN 8 ELSE 2, 9, shamt)
        [] o \in {"C_SD", "C_SDSP"} -> e("SD", 0, IF o = "C_SD" THEN 8 ELSE 2, 9, shamt)
        [] o = "C_LBU" -> e("LBU", 8, 8, 0, shamt)
        [] o = "C_LHU" -> e("LHU", 8, 8, 0, shamt)
        [] o = "C_LH" -> e("LH", 8, 8, 0, shamt)
        [] o = "C_SB" -> e("SB", 0, 8, 9, shamt)
        [] o = "C_SH" -> e("SH", 0, 8, 9, shamt)
        \* These three have no instruction of their own: two shifts stand for one.
        [] o \in {"C_SEXT_B", "C_ZEXT_H", "C_SEXT_H", "C_ZEXT_W"} -> e("SLLI", 8, 8, 0,
             XLEN - (IF o = "C_SEXT_B" THEN 1 ELSE IF o = "C_ZEXT_W" THEN 4 ELSE 2) * BYTE)

\* A compressed instruction does what the instruction it stands for does, except
\* that the next one, and the address it links to, are two bytes on.
CompressedExpands ==
  op[1] \in CompressedOps =>
    \A b \in Operands :
      LET i == [Insn(8, 8, 9, SignedImm(b)) EXCEPT
                  !.imm = IF op[1] \in CMemoryOps \union {"C_SRLI", "C_SRAI", "C_SLLI"} THEN b % XLEN
                          ELSE IF op[1] = "C_ADDI4SPN" THEN b ELSE @]
          e == Expansion(b)
          s == State(b)
          t == ExecuteC(s, i)
          u == Execute(s, e)
          v == IF op[1] \in {"C_SEXT_B", "C_ZEXT_H", "C_SEXT_H", "C_ZEXT_W"}
                 THEN Execute(u, [e EXCEPT !.op = IF op[1] \in {"C_SEXT_B", "C_SEXT_H"} THEN "SRAI" ELSE "SRLI"])
                 ELSE u
          jumped == op[1] \in {"C_J", "C_JR", "C_JALR"} \/ (op[1] = "C_BEQZ" /\ a = 0) \/ (op[1] = "C_BNEZ" /\ a # 0)
          access == op[1] \in CMemoryOps
      IN  (access => Aligned(X(s.x[e.rs1] + e.imm), Bytes(op[1]))) =>
            /\ t.mem = v.mem
            /\ t.x = IF op[1] = "C_JALR" THEN [v.x EXCEPT ![1] = X(s.pc + 2)] ELSE v.x
            /\ t.pc = IF jumped THEN u.pc ELSE X(s.pc + 2)

-----------------------------------------------------------------------------
\* The fields of an instruction are the bits the manual names, in its order,
\* and immediates are sign-extended: of words whose bits are those of the
\* operand at some place, the others all zero or all one.
FieldsDecoded ==
  op[1] = "decode" =>
    \A at \in {0, 4, 8, 12, 16, 20, 24} :
      LET w == {at + k : k \in {j \in 0..7 : Bit1(a, j) = 1}}
      IN  D!FieldsCorrect(w) /\ D!FieldsCorrect((0..31) \ w)

\* The entry whose bits are those of the operand, which names the page ppn.
Entry(ppn) ==
  [v |-> Bit1(a, 0) = 1, reserved |-> Bit1(a, 7) = 1, u |-> Bit1(a, 4) = 1, a |-> Bit1(a, 5) = 1,
   d |-> Bit1(a, 6) = 1, ppn |-> ppn,
   xwr |-> {p \in {"R", "W", "X"} : Bit1(a, CASE p = "R" -> 1 [] p = "W" -> 2 [] p = "X" -> 3) = 1}]
Pointer(ppn) ==
  [v |-> TRUE, reserved |-> FALSE, u |-> FALSE, a |-> FALSE, d |-> FALSE, ppn |-> ppn, xwr |-> {}]
\* Page tables with that entry at either level, of an aligned page or not; the
\* root, page 0, has one, and page 1 two; other pages are not in memory.
Tables ==
  {<<0, 0>> :> Pointer(1) @@ <<0, 1>> :> Pointer(9) @@ <<1, 0>> :> Pointer(0) @@ <<1, 1>> :> Entry(5),
   <<0, 0>> :> Entry(4) @@ <<0, 1>> :> Entry(1) @@ <<1, 0>> :> Entry(7) @@ <<1, 1>> :> Entry(6)}
Contexts ==
  {[prv |-> p, mprv |-> FALSE, mpp |-> "M", sum |-> s, mxr |-> x, mode |-> m, root |-> 0] :
     p \in {"S", "U"}, s \in BOOLEAN, x \in BOOLEAN, m \in {"paged", "bare", "other"}}
  \union {[prv |-> "M", mprv |-> v, mpp |-> p, sum |-> s, mxr |-> x, mode |-> "paged", root |-> 0] :
     v \in BOOLEAN, p \in {"U", "S", "M"}, s \in BOOLEAN, x \in BOOLEAN}

\* A virtual address translates as the manual says, whatever its tables, the
\* privilege and the modifiers of it.
Translates ==
  op[1] = "translate" =>
    \A c \in Contexts, mem \in Tables, i \in 0..1, j \in 0..1, access \in {"R", "W", "X"}, canonical \in BOOLEAN :
      T!TranslationCorrect(c, mem, [vpn |-> <<i, j>>, flat |-> 2 * i + j, canonical |-> canonical], access)

-----------------------------------------------------------------------------
Message(n) == [k \in 1..n |-> U(17 * k + n, 8)]
InTwo(m, n) == <<SubSeq(m, 1, n), SubSeq(m, n + 1, Len(m))>>

\* The hash of a message in two parts, as nodes of the hash tree are hashed, is
\* the one the standard gives the two together, at the edges of blocks too.
HashesStandard ==
  /\ (op[1] = "keccak" /\ a \in HashLengths) =>
       H!Keccak(InTwo(Message(a), a \div 2)) = H!StandardKeccak(Message(a))
  /\ (op[1] = "sha256" /\ a \in HashLengths) =>
       /\ H!Sha(InTwo(Message(a), a \div 2)) = H!StandardSha(Message(a))
       /\ a = 0 => H!Sha(<<H!Abc>>) = H!AbcSha

\* Entries that are queued and flushed in batches are each hashed once, to the
\* result they came with, however many there are and whatever the lanes.
LanesCovered ==
  (op[1] = "simd" /\ a <= 50) =>
    \A lanes \in {8, 16}, queue \in {8, 32} :
      LET queued[k \in 0..a] ==
            IF k = 0 THEN [queue |-> <<>>, hashed |-> <<>>]
            ELSE H!Enqueue(queued[k - 1], [data |-> k, result |-> -k], lanes, queue, lanes)
          h == H!Flush(queued[a], lanes).hashed
      IN  Len(h) = a /\ H!ToSet(h) = {<<k, -k>> : k \in 1..a}

\* However leaves are pushed, padded, packed and pushed again, the root of a
\* full tree is that of the tree of its leaves.
TreesComplete ==
  (op[1] = "tree" /\ a <= 8) =>
    \A n \in 0..(8 - a) : \A p \in 0..(8 - a - n) : Col!BackTreeCorrect(3, a, n, p)

\* Data survives base64, and structures survive JSON.
Transmitted ==
  /\ (op[1] = "base64" /\ a <= 24) =>
       C!Base64Correct(Message(a)) /\ C!Base64Correct([k \in 1..(a % 4) |-> 255])
  /\ op[1] = "json" => C!RoundTrip(op[2])

Params == {<<"none">>, <<"other">>} \union {<<"object", k>> : k \in SUBSET (0..4)} \union {<<"array", n>> : n \in 0..5}
Entries == [wellFormed : BOOLEAN, id : {"none", "valid", "invalid"}, succeeds : BOOLEAN]
Batches == {<<>>} \union [1..1 -> Entries] \union [1..2 -> Entries]

\* The server takes a call with the arguments it was given or refuses it, and
\* gives every request of a batch that asks for an answer one, in order.
RequestsAnswered ==
  op[1] = "rpc" =>
    /\ a < 16 => \A p \in Params : C!ArgumentsCounted([i \in 1..4 |-> Bit1(a, i - 1) = 1], p)
    /\ a = 16 => \A v \in {"post", "get", "options"}, r \in BOOLEAN, ok \in BOOLEAN, b \in Batches :
                    /\ C!BatchAnswered(v, r, ok, TRUE, b)
                    /\ Len(b) = 1 => C!BatchAnswered(v, r, ok, FALSE, b)

\* The program that stops at some cycle, or never, in some way.
Program(breaks, errors) ==
  [fix |-> 1 + (a % 8), kind |-> <<"halted", "accepted", "rejected">>[1 + a \div 8], breaks |-> breaks, errors |-> errors]
Cuts == {<<>>} \union [1..1 -> 1..7]
Tails ==
  LET r == Col!RevertRootHash
  IN  {<<>>, <<r>>, <<<<1>>, r>>, <<<<1>>, <<2>>, <<3>>, r>>, <<<<1>>, <<2>>, <<3>>>>}

\* The hashes collected along the timeline, in however many calls, whatever
\* yields and console errors there are on the way and wherever it ends, are
\* those at the multiples of the period, the fixed point's repeated after it.
TimelineCollected ==
  (op[1] = "collect" /\ a < 24) =>
    \A log2 \in 0..2, period \in 1..4, cuts \in Cuts, end \in 1..7 :
      \A breaks \in {{}, {2}, {3, 4}}, errors \in {{}, {1}, {5, 6}} :
        (cuts = <<>> \/ cuts[Len(cuts)] <= end) =>
          Col!CollectsTimeline(Program(breaks, errors), period, log2, Append(cuts, end), end)

\* Those of the microarchitecture are the hashes after each of its cycles and
\* then after its reset, of a whole memory, though only the words noted as
\* written are reset and hashed; a rejected input ends with the reverted
\* machine's, and a call that might need those is refused without them.
UarchTimelineCollected ==
  (op[1] = "collect" /\ a < 24) =>
    \A log2 \in 0..2, start \in 0..7, end \in 0..7, breaks \in {{}, {2}, {3, 4}}, tail \in Tails :
      Col!CollectsUarch(Program(breaks, {}), start, end, log2, tail)

-----------------------------------------------------------------------------
\* Registers whose fields are those of the operand, at a privilege.  Only the
\* machine mode has MPRV, which returns to other modes clear.
CsrStates ==
  {[prv |-> p, mcycle |-> 13, icycleinstret |-> a % 16, kept |-> {"code", "read", "write"}, lrsc |-> TRUE,
    r |-> [reg \in Reg!Registers |-> Reg!WARL(reg,
             CASE reg = "mstatus" ->
                    (UNION {IF Bit1(a, 0) = 1 /\ p = 3 THEN Reg!MPRV ELSE {}, IF Bit1(a, 1) = 1 THEN Reg!SUM ELSE Reg!MXR,
                      IF Bit1(a, 2) = 1 THEN Reg!FS ELSE {}, IF Bit1(a, 3) = 1 THEN UNION {Reg!TVM, Reg!TSR, Reg!SPP} ELSE Reg!SPIE,
                      IF Bit1(a, 4) = 1 THEN Reg!MIE ELSE UNION {Reg!SIE, Reg!MPIE}, IF Bit1(a, 5) = 1 THEN Reg!MPP ELSE IF Bit1(a, 2) = 1 THEN {11} ELSE {}})
               [] reg = "mideleg" -> IF Bit1(a, 6) = 1 THEN Reg!MIP_S_RW_MASK ELSE {5}
               [] reg = "mip" -> {1, 3, 9}
               [] reg = "mie" -> {3, 5, 9}
               [] reg \in {"mcounteren", "scounteren"} -> {k \in 0..2 : Bit1(a, k) = 1}
               [] reg = "satp" -> {63}
               [] reg = "fcsr" -> {0, 6}
               [] OTHER -> {4})]] : p \in {0, 1, 3}}
CsrValues == {{}, Reg!ALL, {12}, {13, 63}, {0, 1, 3}, {17, 11}, {5, 9, 60, 63}, {18, 62}}
CsrCalls(s) ==
  {Reg!execute_csr_RW(s, c, v, rd) : c \in Reg!Csrs, v \in CsrValues, rd \in BOOLEAN}
  \union {Reg!execute_csr_SC(s, c, v, v = {}, set) : c \in Reg!Csrs, v \in CsrValues, set \in BOOLEAN}

\* After an instruction on a control register, a return or a trap, a TLB has no
\* translation that the new registers would not give, and no interrupt that it
\* enables waits.  (A trap and a return within the machine mode under MPRV are
\* the exception: they change MPP and flush nothing.)
CsrsTakeEffect ==
  (op[1] = "csr" /\ a < 128) =>
    \A s \in CsrStates :
      /\ \A t \in CsrCalls(s) : Reg!TakesEffect(s, t)
      /\ Reg!MPRV \subseteq s.r["mstatus"] \/
           \A t \in {Reg!execute_SRET(s), Reg!execute_MRET(s), Reg!Trap(s, TRUE), Reg!Trap(s, FALSE)} : Reg!TakesEffect(s, t)

\* No instruction changes registers above its privilege or of bits that are not
\* delegated, or makes a value illegal; a register can be saved and restored.
CsrsConfined ==
  (op[1] = "csr" /\ a < 128) =>
    \A s \in CsrStates :
      /\ \A t \in CsrCalls(s) : Reg!Confined(s, t)
      /\ \A c \in Reg!Csrs, v \in CsrValues : Reg!Restores(s, c, v)

-----------------------------------------------------------------------------
\* Registers that hold the operand, boxed or as part of a larger number, and
\* some other float of either format.
FloatStates ==
  {[on |-> on, flags |-> {"NX"}, frm |-> frm, x |-> (0 :> 0 @@ 1 :> 9 @@ 2 :> 16383 - a), mem |-> 64 * a + 3, accessible |-> on,
    f |-> (1 :> x @@ 2 :> y @@ 3 :> 77 @@ 4 :> 16383)] :
      on \in BOOLEAN, frm \in {1, 6}, x \in {FI!float_box("S", a), 64 * a + 5},
      y \in {FI!float_box("S", v) : v \in {0, 64, 125}} \union {8191, 2^13 + 129}}
FloatInsnsOf(o) ==
  {[op |-> o, fmt |-> fmt, rm |-> rm, sel |-> sel, rd |-> rd, rs1 |-> 1, rs2 |-> 2, rs3 |-> 2, long |-> rm # 3, unsigned |-> sel = 1] :
     fmt \in {"S", "D"}, rm \in {0, 3, 5, 7}, sel \in {0, 1, 2, 5}, rd \in {0, 1, 2} \ IF o \in {"FCVT_TO_INT", "FCMP", "FMV_FCLASS"} THEN {} ELSE {0}}

\* Every instruction of the floating-point unit respects the boxes, the flags,
\* the rounding mode and the unit's being off.
FloatInsnsDisciplined ==
  (op[1] = "finsn" /\ a \in Floats3 /\ a % 4 # 2) =>
    \A s \in FloatStates, o \in FI!FloatInsns : \A i \in FloatInsnsOf(o) : FI!Disciplined(s, i)

\* Instructions that say the same in other words have the same result.
FloatInsnsAgree ==
  (op[1] = "finsn" /\ a \in Floats3 /\ a % 4 # 2) =>
    \A s \in FloatStates : \A i \in {j \in FloatInsnsOf("FADD") : j.sel = 0 /\ j.rd = 1} : FI!Agree(s, i)

-----------------------------------------------------------------------------
\* Floating point: soft-float.hpp returns the right number, order, class or
\* conversion with the right flags, and the instructions of the interpreter
\* pass values, modes and flags to it and back as the manual has them.
FloatsCorrect ==
  [][FloatRounded /\ FloatOrdered /\ FloatConverted /\ FloatInsnsDisciplined /\ FloatInsnsAgree]_vars

\* Integer instructions: decoded, expanded and executed as the manual says, by
\* the interpreter and by the microarchitecture alike.
InstructionsCorrect == [][AluCorrect /\ CompressedExpands /\ FieldsDecoded /\ UarchAgrees]_vars

\* Privilege: an access is allowed exactly when the page tables allow it, a
\* change of the registers that decide takes effect at once, whatever is
\* cached, and only those may make one who are entitled to.
PrivilegeRespected == [][Translates /\ CsrsTakeEffect /\ CsrsConfined]_vars

\* Hashes: both functions are the standard ones, and every entry of a batch
\* is hashed, whatever the lanes of the processor.
HashesCorrect == [][HashesStandard /\ LanesCovered]_vars

\* Collections: the hashes of a timeline, and the tree that bundles them, do
\* not depend on how the collection was cut, padded or interrupted.
HashesCollected == [][TreesComplete /\ TimelineCollected /\ UarchTimelineCollected]_vars

\* Remote calls: arguments and structures arrive as they were sent, and every
\* request that wants an answer has one.
CallsTransmitted == [][Transmitted /\ RequestsAnswered]_vars
=============================================================================
