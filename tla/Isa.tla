-------------------------------- MODULE Isa --------------------------------
(***************************************************************************)
(* What an instruction does to the program counter, the integer registers  *)
(* and memory: as interpret.cpp executes it and, for those it has, as the  *)
(* microarchitecture of uarch-step.cpp does.  A state is [pc, x, mem];     *)
(* registers and bytes hold their unsigned values.  A byte has BYTE bits   *)
(* (eight in the code), and everything else is in proportion: a word has   *)
(* four bytes and a register eight.  An instruction is decoded:            *)
(* [op, rd, rs1, rs2, imm].                                                *)
(***************************************************************************)
EXTENDS Integers, FiniteSets, Bitwise

CONSTANT BYTE

ASSUME ByteAssumption == BYTE \in Nat \ {0}

XLEN == 8 * BYTE
WLEN == 4 * BYTE

\* Casts: the value of v as an unsigned and as a signed integer of n bits, and a
\* register that holds the latter.
U(v, n) == v % 2^n
S(v, n) == IF U(v, n) >= 2^(n - 1) THEN U(v, n) - 2^n ELSE U(v, n)
X(v) == U(v, XLEN)
Sext(v, n) == X(S(v, n))
Word(v) == Sext(v, WLEN)
Bool(p) == IF p THEN 1 ELSE 0
Shl(v, k, n) == U(U(v, n) * 2^k, n)
Shr(v, k) == v \div 2^k

\* Integer division rounds toward zero in C++, down in TLA+.
Abs(v) == IF v < 0 THEN -v ELSE v
Quot(a, b) == (Abs(a) \div Abs(b)) * IF (a < 0) # (b < 0) THEN -1 ELSE 1
Rem(a, b) == a - b * Quot(a, b)

WriteX(s, rd, v) == IF rd = 0 THEN s ELSE [s EXCEPT !.x[rd] = v]
Advance(s, n) == [s EXCEPT !.pc = X(@ + n)]
Jump(s, pc) == [s EXCEPT !.pc = pc]

-----------------------------------------------------------------------------
\* interpret.cpp

\* Division, on n-bit integers.
Div(a, b, n) ==
  LET sa == S(a, n)
      sb == S(b, n)
  IN  IF sb = 0 THEN X(-1)
      ELSE IF sb = -1 /\ sa = -(2^(n - 1)) THEN X(sa) ELSE X(Quot(sa, sb))

\* Without the special case, the remainder of the most negative number by -1 is
\* undefined: what the divider leaves is taken to be the dividend.
RemainderWith(a, b, n, overflow) ==
  LET sa == S(a, n)
      sb == S(b, n)
  IN  IF sb = 0 THEN X(sa)
      ELSE IF sb = -1 /\ sa = -(2^(n - 1)) THEN overflow ELSE X(Rem(sa, sb))
BadRemainder(a, b, n) == RemainderWith(a, b, n, X(S(a, n)))
Remainder(a, b, n) == RemainderWith(a, b, n, 0)

DivU(a, b) == IF b = 0 THEN X(-1) ELSE a \div b
RemU(a, b) == IF b = 0 THEN a ELSE a % b

Multiply(op, a, b) ==
  CASE op = "MUL" -> X(S(a, XLEN) * S(b, XLEN))
    [] op = "MULH" -> X(Shr(S(a, XLEN) * S(b, XLEN), XLEN))
    [] op = "MULHSU" -> X(Shr(S(a, XLEN) * b, XLEN))
    [] op = "MULHU" -> Shr(a * b, XLEN)

execute_arithmetic(op, a, b) ==
  LET shift == b % XLEN
  IN  CASE op = "ADD" -> X(a + b)
        [] op = "SUB" -> X(a - b)
        [] op = "SLL" -> Shl(a, shift, XLEN)
        [] op = "SLT" -> Bool(S(a, XLEN) < S(b, XLEN))
        [] op = "SLTU" -> Bool(a < b)
        [] op = "XOR" -> a ^^ b
        [] op = "SRL" -> Shr(a, shift)
        [] op = "SRA" -> X(Shr(S(a, XLEN), shift))
        [] op = "OR" -> a | b
        [] op = "AND" -> a & b
        [] op \in {"MUL", "MULH", "MULHSU", "MULHU"} -> Multiply(op, a, b)
        [] op = "DIV" -> Div(a, b, XLEN)
        [] op = "DIVU" -> DivU(a, b)
        [] op = "REM" -> Remainder(a, b, XLEN)
        [] op = "REMU" -> RemU(a, b)

\* The instructions on words.
DivideW(op, a, b) ==
  LET ua == U(a, WLEN)
      ub == U(b, WLEN)
  IN  CASE op = "DIVW" -> Div(a, b, WLEN)
        [] op = "DIVUW" -> IF ub = 0 THEN X(-1) ELSE Word(ua \div ub)
        [] op = "REMW" -> Remainder(a, b, WLEN)
        [] op = "REMUW" -> IF ub = 0 THEN Word(ua) ELSE Word(ua % ub)
execute_arithmetic_W(op, a, b) ==
  LET ua == U(a, WLEN)
      shift == b % WLEN
  IN  CASE op = "ADDW" -> Word(S(a, WLEN) + S(b, WLEN))
        [] op = "SUBW" -> Word(S(a, WLEN) - S(b, WLEN))
        [] op = "SLLW" -> Word(Shl(ua, shift, WLEN))
        [] op = "SRLW" -> Word(Shr(ua, shift))
        [] op = "SRAW" -> Word(Shr(S(a, WLEN), shift))
        [] op = "MULW" -> Word(S(a, WLEN) * S(b, WLEN))
        [] OTHER -> DivideW(op, a, b)

execute_arithmetic_immediate(op, a, imm) ==
  CASE op = "ADDI" -> X(S(a, XLEN) + imm)
    [] op = "SLTI" -> Bool(S(a, XLEN) < imm)
    [] op = "SLTIU" -> Bool(a < X(imm))
    [] op = "XORI" -> a ^^ X(imm)
    [] op = "ORI" -> a | X(imm)
    [] op = "ANDI" -> a & X(imm)
    [] op = "SLLI" -> Shl(a, imm % XLEN, XLEN)
    [] op = "SRLI" -> Shr(a, imm % XLEN)
    [] op = "SRAI" -> X(Shr(S(a, XLEN), imm % XLEN))

execute_arithmetic_immediate_W(op, a, imm) ==
  CASE op = "ADDIW" -> Word(S(a, WLEN) + imm)
    [] op = "SLLIW" -> Word(Shl(a, imm % WLEN, WLEN))
    [] op = "SRLIW" -> Word(Shr(U(a, WLEN), imm % WLEN))
    [] op = "SRAIW" -> Word(Shr(S(a, WLEN), imm % WLEN))

\* Bytes read and written by a load, a store or an atomic operation.
Bytes(op) ==
  CASE op \in {"LB", "LBU", "SB", "C_LBU", "C_SB"} -> 1
    [] op \in {"LH", "LHU", "SH", "C_LH", "C_LHU", "C_SH"} -> 2
    [] op \in {"LW", "LWU", "SW", "C_LW", "C_SW", "C_LWSP", "C_SWSP"} -> 4
    [] OTHER -> 8
Unsigned == {"LBU", "LHU", "LWU", "C_LBU", "C_LHU"}
Aligned(addr, n) == addr % n = 0

\* Memory is little-endian.
ReadMem(mem, addr, n) ==
  LET byte(k) == IF k < n THEN mem[X(addr + k)] * 2^(k * BYTE) ELSE 0
  IN  byte(0) + byte(1) + byte(2) + byte(3) + byte(4) + byte(5) + byte(6) + byte(7)
WriteMem(mem, addr, n, v) ==
  [a \in DOMAIN mem |-> IF a \in addr..(addr + n - 1) THEN U(Shr(v, (a - addr) * BYTE), BYTE) ELSE mem[a]]

execute_L(s, op, rd, addr) ==
  LET v == ReadMem(s.mem, addr, Bytes(op))
  IN  WriteX(s, rd, IF op \in Unsigned THEN v ELSE Sext(v, Bytes(op) * BYTE))
execute_S(s, op, addr, v) == [s EXCEPT !.mem = WriteMem(@, addr, Bytes(op), v)]

\* m is the value in memory and r that of the register, n bits each.
AmoValue(f, m, r, n) ==
  CASE f = "SWAP" -> r
    [] f = "ADD" -> U(S(m, n) + S(r, n), n)
    [] f = "XOR" -> m ^^ r
    [] f = "AND" -> m & r
    [] f = "OR" -> m | r
    [] f = "MIN" -> IF S(m, n) < S(r, n) THEN m ELSE r
    [] f = "MAX" -> IF S(m, n) > S(r, n) THEN m ELSE r
    [] f = "MINU" -> IF m < r THEN m ELSE r
    [] f = "MAXU" -> IF m > r THEN m ELSE r

execute_AMO(s, i) ==
  LET addr == s.x[i.rs1]
      m == ReadMem(s.mem, addr, i.bytes)
      v == AmoValue(i.f, m, U(s.x[i.rs2], i.bytes * BYTE), i.bytes * BYTE)
  IN  WriteX([s EXCEPT !.mem = WriteMem(@, addr, i.bytes, v)], i.rd, Sext(m, i.bytes * BYTE))

Taken(op, a, b) ==
  CASE op = "BEQ" -> a = b
    [] op = "BNE" -> a # b
    [] op = "BLT" -> S(a, XLEN) < S(b, XLEN)
    [] op = "BGE" -> S(a, XLEN) >= S(b, XLEN)
    [] op = "BLTU" -> a < b
    [] op = "BGEU" -> a >= b

execute_branch(s, i) ==
  IF Taken(i.op, s.x[i.rs1], s.x[i.rs2]) THEN Jump(s, X(s.pc + i.imm)) ELSE Advance(s, 4)

\* The target of JALR is read before the link is written.
LuiJal(s, i) ==
  LET linked == WriteX(s, i.rd, X(s.pc + 4))
  IN  CASE i.op = "LUI" -> Advance(WriteX(s, i.rd, X(i.imm)), 4)
        [] i.op = "AUIPC" -> Advance(WriteX(s, i.rd, X(s.pc + i.imm)), 4)
        [] i.op = "JAL" -> Jump(linked, X(s.pc + i.imm))
        [] i.op = "JALR" -> Jump(linked, 2 * (X(s.x[i.rs1] + i.imm) \div 2))

Arithmetic == {"ADD", "SUB", "SLL", "SLT", "SLTU", "XOR", "SRL", "SRA", "OR", "AND", "MUL", "MULH",
               "MULHSU", "MULHU", "DIV", "DIVU", "REM", "REMU"}
ArithmeticW == {"ADDW", "SUBW", "SLLW", "SRLW", "SRAW", "MULW", "DIVW", "DIVUW", "REMW", "REMUW"}
Immediate == {"ADDI", "SLTI", "SLTIU", "XORI", "ORI", "ANDI", "SLLI", "SRLI", "SRAI"}
ImmediateW == {"ADDIW", "SLLIW", "SRLIW", "SRAIW"}
Loads == {"LB", "LBU", "LH", "LHU", "LW", "LWU", "LD"}
Stores == {"SB", "SH", "SW", "SD"}
Branches == {"BEQ", "BNE", "BLT", "BGE", "BLTU", "BGEU"}
Jumps == {"LUI", "AUIPC", "JAL", "JALR"}
Amos == {"SWAP", "ADD", "XOR", "AND", "OR", "MIN", "MAX", "MINU", "MAXU"}

Execute(s, i) ==
  LET a == s.x[i.rs1]
      b == s.x[i.rs2]
  IN  CASE i.op \in Arithmetic -> Advance(WriteX(s, i.rd, execute_arithmetic(i.op, a, b)), 4)
        [] i.op \in ArithmeticW -> Advance(WriteX(s, i.rd, execute_arithmetic_W(i.op, a, b)), 4)
        [] i.op \in Immediate -> Advance(WriteX(s, i.rd, execute_arithmetic_immediate(i.op, a, i.imm)), 4)
        [] i.op \in ImmediateW -> Advance(WriteX(s, i.rd, execute_arithmetic_immediate_W(i.op, a, i.imm)), 4)
        [] i.op \in Loads -> Advance(execute_L(s, i.op, i.rd, X(a + i.imm)), 4)
        [] i.op \in Stores -> Advance(execute_S(s, i.op, X(a + i.imm), b), 4)
        [] i.op \in Branches -> execute_branch(s, i)
        [] i.op \in Jumps -> LuiJal(s, i)
        [] i.op = "AMO" -> Advance(execute_AMO(s, i), 4)

-----------------------------------------------------------------------------
\* interpret.cpp, compressed instructions: two bytes each.  x2 is the stack
\* pointer, x1 holds the return address.

execute_C_L(s, op, rd, rs1, imm) == Advance(execute_L(s, op, rd, X(s.x[rs1] + imm)), 2)
execute_C_S(s, op, rs2, rs1, imm) == Advance(execute_S(s, op, X(s.x[rs1] + imm), s.x[rs2]), 2)

CLoadStore(s, i) ==
  IF i.op \in {"C_LW", "C_LD"} THEN execute_C_L(s, i.op, i.rd, i.rs1, i.imm)
  ELSE execute_C_S(s, i.op, i.rs2, i.rs1, i.imm)

CLoadStoreShort(s, i) ==
  IF i.op \in {"C_LBU", "C_LHU", "C_LH"} THEN execute_C_L(s, i.op, i.rd, i.rs1, i.imm)
  ELSE execute_C_S(s, i.op, i.rs2, i.rs1, i.imm)

CLoadSp(s, i) == execute_C_L(s, i.op, i.rd, 2, i.imm)
CStoreSp(s, i) == execute_C_S(s, i.op, i.rs2, 2, i.imm)

CImmediate(s, i) ==
  LET set(rd, v) == Advance(WriteX(s, rd, v), 2)
  IN  CASE i.op = "C_NOP" -> Advance(s, 2)
        [] i.op = "C_ADDI" -> set(i.rd, X(S(s.x[i.rd], XLEN) + i.imm))
        [] i.op = "C_ADDIW" -> set(i.rd, Word(S(s.x[i.rd], WLEN) + i.imm))
        [] i.op = "C_LI" -> set(i.rd, X(i.imm))
        [] i.op = "C_ADDI16SP" -> set(2, X(S(s.x[2], XLEN) + i.imm))
        [] i.op = "C_LUI" -> set(i.rd, X(i.imm))
        [] i.op = "C_SRLI" -> set(i.rs1, Shr(s.x[i.rs1], i.imm))
        [] i.op = "C_SRAI" -> set(i.rs1, X(Shr(S(s.x[i.rs1], XLEN), i.imm)))
        [] i.op = "C_ANDI" -> set(i.rs1, s.x[i.rs1] & X(i.imm))

C_ADDI4SPN(s, i) == Advance(WriteX(s, i.rd, X(S(s.x[2], XLEN) + i.imm)), 2)
C_SLLI(s, i) == Advance(WriteX(s, i.rd, Shl(s.x[i.rd], i.imm, XLEN)), 2)

execute_C_arithmetic(s, i) ==
  LET a == s.x[i.rs1]
      b == s.x[i.rs2]
      v == CASE i.op = "C_SUB" -> X(a - b)
             [] i.op = "C_XOR" -> a ^^ b
             [] i.op = "C_OR" -> a | b
             [] i.op = "C_AND" -> a & b
             [] i.op = "C_SUBW" -> Word(S(a, WLEN) - S(b, WLEN))
             [] i.op = "C_ADDW" -> Word(S(a, WLEN) + S(b, WLEN))
             [] i.op = "C_MUL" -> X(S(a, XLEN) * S(b, XLEN))
  IN  Advance(WriteX(s, i.rs1, v), 2)

CExtend(s, i) ==
  LET a == s.x[i.rs1]
      v == CASE i.op = "C_ZEXT_B" -> U(a, BYTE)
             [] i.op = "C_SEXT_B" -> Sext(a, BYTE)
             [] i.op = "C_ZEXT_H" -> U(a, 2 * BYTE)
             [] i.op = "C_SEXT_H" -> Sext(a, 2 * BYTE)
             [] i.op = "C_ZEXT_W" -> U(a, WLEN)
             [] i.op = "C_NOT" -> X(-1 - a)
  IN  Advance(WriteX(s, i.rs1, v), 2)

CBranch(s, i) ==
  LET taken == CASE i.op = "C_J" -> TRUE
                 [] i.op = "C_BEQZ" -> s.x[i.rs1] = 0
                 [] i.op = "C_BNEZ" -> s.x[i.rs1] # 0
  IN  IF taken THEN Jump(s, X(s.pc + i.imm)) ELSE Advance(s, 2)

CMoveWith(s, i, next) ==
  LET target == 2 * (s.x[i.rs1] \div 2)
  IN  CASE i.op = "C_JR" -> Jump(s, target)
        [] i.op = "C_JALR" -> Jump(WriteX(s, 1, next), target)
        [] i.op = "C_MV" -> Advance(WriteX(s, i.rd, s.x[i.rs2]), 2)
        [] i.op = "C_ADD" -> Advance(WriteX(s, i.rd, X(s.x[i.rd] + s.x[i.rs2])), 2)
\* JALR would link to the instruction four bytes on.
BadCMove(s, i) == CMoveWith(s, i, X(s.pc + 4))
CMove(s, i) == CMoveWith(s, i, X(s.pc + 2))

CArithmeticOps == {"C_SUB", "C_XOR", "C_OR", "C_AND", "C_SUBW", "C_ADDW", "C_MUL"}
CExtendOps == {"C_ZEXT_B", "C_SEXT_B", "C_ZEXT_H", "C_SEXT_H", "C_ZEXT_W", "C_NOT"}
CImmediateOps == {"C_NOP", "C_ADDI", "C_ADDIW", "C_LI", "C_ADDI16SP", "C_LUI", "C_SRLI", "C_SRAI", "C_ANDI"}
CMemoryOps == {"C_LW", "C_LD", "C_SW", "C_SD", "C_LBU", "C_LHU", "C_LH", "C_SB", "C_SH",
               "C_LWSP", "C_LDSP", "C_SWSP", "C_SDSP"}
CompressedOps == CArithmeticOps \union CExtendOps \union CImmediateOps \union CMemoryOps
                   \union {"C_ADDI4SPN", "C_SLLI", "C_J", "C_BEQZ", "C_BNEZ", "C_JR", "C_JALR", "C_MV", "C_ADD"}

ExecuteC(s, i) ==
  CASE i.op \in {"C_LW", "C_LD", "C_SW", "C_SD"} -> CLoadStore(s, i)
    [] i.op \in {"C_LBU", "C_LHU", "C_LH", "C_SB", "C_SH"} -> CLoadStoreShort(s, i)
    [] i.op \in {"C_LWSP", "C_LDSP"} -> CLoadSp(s, i)
    [] i.op \in {"C_SWSP", "C_SDSP"} -> CStoreSp(s, i)
    [] i.op \in CImmediateOps -> CImmediate(s, i)
    [] i.op = "C_ADDI4SPN" -> C_ADDI4SPN(s, i)
    [] i.op = "C_SLLI" -> C_SLLI(s, i)
    [] i.op \in CArithmeticOps -> execute_C_arithmetic(s, i)
    [] i.op \in CExtendOps -> CExtend(s, i)
    [] i.op \in {"C_J", "C_BEQZ", "C_BNEZ"} -> CBranch(s, i)
    [] i.op \in {"C_JR", "C_JALR", "C_MV", "C_ADD"} -> CMove(s, i)

-----------------------------------------------------------------------------
\* uarch-step.cpp, with the integer types of Solidity.  Memory is read and
\* written one aligned register-sized word at a time.

uint64ShiftRight(v, count) == Shr(v, count % XLEN)
uint64ShiftLeft(v, count) == Shl(v, count % XLEN, XLEN)
int64ShiftRight(v, count) == Shr(v, count % XLEN)
uint32ShiftRight(v, count) == Shr(v, count % WLEN)
uint32ShiftLeft(v, count) == Shl(v, count % WLEN, WLEN)
int32ShiftRight(v, count) == Shr(v, count % WLEN)
int32ToUint64(v) == X(v)
uint64ToInt32(v) == S(v, WLEN)

readWord(s, addr) == ReadMem(s.mem, addr, 8)
writeWord(s, addr, v) == [s EXCEPT !.mem = WriteMem(@, addr, 8, v)]

\* readUint32, readUint16, readUint8, with n the number of bytes.
readUint(s, addr, n) ==
  U(uint64ShiftRight(readWord(s, addr - (addr % 8)), (addr % 8) * BYTE), n * BYTE)

\* The mask would not be moved to its place.
BadcopyBits(from, count, to, offset) ==
  LET erase == uint64ShiftLeft(1, count) - 1
  IN  uint64ShiftLeft(from, offset) | (to & X(-1 - erase))

copyBits(from, count, to, offset) ==
  LET erase == uint64ShiftLeft(1, count) - 1
  IN  uint64ShiftLeft(from, offset) | (to & X(-1 - uint64ShiftLeft(erase, offset)))

\* writeUint32, writeUint16, writeUint8.
writeUint(s, addr, n, v) ==
  LET palign == addr - (addr % 8)
  IN  writeWord(s, palign, copyBits(U(v, n * BYTE), n * BYTE, readWord(s, palign), (addr % 8) * BYTE))

\* Shifts by an immediate, and the logical right shift of words.
UarchShift(op, a, b) ==
  CASE op = "SLLI" -> uint64ShiftLeft(a, b)
    [] op = "SLLIW" -> int32ToUint64(S(uint32ShiftLeft(U(a, WLEN), b), WLEN))
    [] op = "SRLI" -> uint64ShiftRight(a, b)
    [] op \in {"SRLIW", "SRLW"} -> int32ToUint64(S(uint32ShiftRight(U(a, WLEN), U(b, WLEN)), WLEN))
    [] op = "SRAI" -> X(int64ShiftRight(S(a, XLEN), b))
    [] op = "SRAIW" -> int32ToUint64(int32ShiftRight(uint64ToInt32(a), b))

UarchImmediate(op, a, imm) ==
  CASE op = "ADDI" -> X(S(a, XLEN) + imm)
    [] op = "ADDIW" -> int32ToUint64(S(uint64ToInt32(a) + imm, WLEN))
    [] op = "SLTI" -> Bool(S(a, XLEN) < imm)
    [] op = "SLTIU" -> Bool(a < int32ToUint64(imm))
    [] op = "XORI" -> a ^^ int32ToUint64(imm)
    [] op = "ORI" -> a | int32ToUint64(imm)
    [] op = "ANDI" -> a & int32ToUint64(imm)
    [] OTHER -> UarchShift(op, a, imm)

UarchLogic(op, a, b) ==
  CASE op = "XOR" -> a ^^ b
    [] op = "SRL" -> uint64ShiftRight(a, b)
    [] op = "SRA" -> X(int64ShiftRight(S(a, XLEN), U(b, WLEN)))
    [] op = "SRAW" -> int32ToUint64(int32ShiftRight(uint64ToInt32(a), U(b, WLEN)))
    [] op = "OR" -> a | b
    [] op = "AND" -> a & b

UarchArithmetic(op, a, b) ==
  CASE op = "ADD" -> X(a + b)
    [] op = "ADDW" -> int32ToUint64(S(uint64ToInt32(a) + uint64ToInt32(b), WLEN))
    [] op = "SUB" -> X(a - b)
    [] op = "SUBW" -> int32ToUint64(S(uint64ToInt32(a) - uint64ToInt32(b), WLEN))
    [] op = "SLL" -> uint64ShiftLeft(a, U(b, WLEN))
    [] op = "SLLW" -> int32ToUint64(S(uint32ShiftLeft(U(a, WLEN), U(b, WLEN)), WLEN))
    [] op = "SLT" -> Bool(S(a, XLEN) < S(b, XLEN))
    [] op = "SLTU" -> Bool(a < b)
    [] op = "SRLW" -> UarchShift(op, a, b)
    [] OTHER -> UarchLogic(op, a, b)

UarchBranch(s, i) ==
  LET a == s.x[i.rs1]
      b == s.x[i.rs2]
      taken == CASE i.op = "BEQ" -> a = b
                 [] i.op = "BNE" -> a # b
                 [] i.op = "BLT" -> S(a, XLEN) < S(b, XLEN)
                 [] i.op = "BGE" -> S(a, XLEN) >= S(b, XLEN)
                 [] i.op = "BLTU" -> a < b
                 [] i.op = "BGEU" -> a >= b
  IN  IF taken THEN Jump(s, X(s.pc + i.imm)) ELSE Advance(s, 4)

UarchLoad(s, i) ==
  LET v == readUint(s, X(s.x[i.rs1] + i.imm), Bytes(i.op))
  IN  Advance(WriteX(s, i.rd, IF i.op \in Unsigned THEN v ELSE Sext(v, Bytes(i.op) * BYTE)), 4)

UarchStore(s, i) == Advance(writeUint(s, X(s.x[i.rs1] + i.imm), Bytes(i.op), s.x[i.rs2]), 4)
\* LD and SD need no part of a word.
UarchDouble(s, i) ==
  LET addr == X(s.x[i.rs1] + i.imm)
  IN  Advance(IF i.op = "LD" THEN WriteX(s, i.rd, readWord(s, addr)) ELSE writeWord(s, addr, s.x[i.rs2]), 4)

UarchUpper(s, i) ==
  LET linked == WriteX(s, i.rd, X(s.pc + 4))
  IN  CASE i.op = "LUI" -> Advance(WriteX(s, i.rd, int32ToUint64(i.imm)), 4)
        [] i.op = "AUIPC" -> Advance(WriteX(s, i.rd, X(s.pc + i.imm)), 4)
        [] i.op = "JAL" -> Jump(linked, X(s.pc + i.imm))
        [] i.op = "JALR" -> Jump(linked, X(s.x[i.rs1] + i.imm) & X(-2))

UarchArithmeticOps == {"ADD", "ADDW", "SUB", "SUBW", "SLL", "SLLW", "SLT", "SLTU", "XOR", "SRL", "SRLW",
                       "SRA", "SRAW", "OR", "AND"}

executeInsn(s, i) ==
  CASE i.op \in UarchArithmeticOps -> Advance(WriteX(s, i.rd, UarchArithmetic(i.op, s.x[i.rs1], s.x[i.rs2])), 4)
    [] i.op \in Immediate \union ImmediateW -> Advance(WriteX(s, i.rd, UarchImmediate(i.op, s.x[i.rs1], i.imm)), 4)
    [] i.op \in Branches -> UarchBranch(s, i)
    [] i.op \in {"LD", "SD"} -> UarchDouble(s, i)
    [] i.op \in Loads \ {"LD"} -> UarchLoad(s, i)
    [] i.op \in Stores \ {"SD"} -> UarchStore(s, i)
    [] i.op \in Jumps -> UarchUpper(s, i)
UarchOps == UarchArithmeticOps \union Immediate \union ImmediateW \union Branches \union Loads \union Stores \union Jumps

=============================================================================
