------------------------------- MODULE Decode -------------------------------
(***************************************************************************)
(* The fields of an instruction.  A 32-bit word is the set of its bits     *)
(* that are one: shifts move the members, masks intersect with a set.      *)
(***************************************************************************)
EXTENDS Integers, FiniteSets

Word32 == 0..31
Shl(w, k) == {b + k : b \in w} \intersect Word32
Shr(w, k) == {b - k : b \in w} \intersect Word32
\* Of a signed word.
Sar(w, k) == Shr(w, k) \union (IF 31 \in w THEN (32 - k)..31 ELSE {})
Field(w, k, n) == Shr(w, k) \intersect 0..(n - 1)

-----------------------------------------------------------------------------
\* interpret.cpp

insn_get_id(w) == w \intersect ((0..11) \union (12..15))
insn_get_rd(w) == Field(w, 7, 5)
insn_get_rs1(w) == Field(w, 15, 5)
insn_get_rs2(w) == Field(w, 20, 5)
insn_get_rs3(w) == Shr(w, 27)
insn_get_funct3(w) == Field(w, 12, 3)
insn_get_funct7(w) == Shr(w, 25)
insn_I_get_imm(w) == Sar(w, 20)
insn_I_get_uimm(w) == Shr(w, 20)
insn_U_get_imm(w) == w \intersect 12..31
insn_B_get_imm(w) ==
  Shl(Sar(w, 31), 12) \union Shl(Shr(Shl(w, 1), 26), 5) \union Shl(Shr(Shl(w, 20), 28), 1)
    \union Shl(Shr(Shl(w, 24), 31), 11)
\* Bits 19 to 12 would not be cut off from those above.
Badinsn_J_get_imm(w) ==
  Shl(Sar(w, 31), 20) \union Shl(Shr(Shl(w, 1), 22), 1) \union Shl(Shr(Shl(w, 11), 31), 11)
    \union Shl(Shr(w, 12), 12)
insn_J_get_imm(w) ==
  Shl(Sar(w, 31), 20) \union Shl(Shr(Shl(w, 1), 22), 1) \union Shl(Shr(Shl(w, 11), 31), 11)
    \union Shl(Shr(Shl(w, 12), 24), 12)
insn_S_get_imm(w) == Sar(w \intersect 25..31, 20) \union Field(w, 7, 5)
insn_get_CIW_CL_rd_CS_CA_rs2(w) == Field(w, 2, 3) \union {3}
insn_get_CL_CS_CA_CB_rs1(w) == Field(w, 7, 3) \union {3}
insn_get_CR_CSS_rs2(w) == Field(w, 2, 5)
insn_get_C_J_imm(w) ==
  (Sar(Shl(w, 19), 20) \ 0..10) \union (Shr(w, 7) \intersect {4}) \union (Shr(w, 1) \intersect {8, 9})
    \union (Shl(w, 2) \intersect {10}) \union (Shr(w, 1) \intersect {6}) \union (Shl(w, 1) \intersect {7})
    \union (Shr(w, 2) \intersect 1..3) \union (Shl(w, 3) \intersect {5})
insn_get_C_BEQZ_BNEZ_imm(w) ==
  (Sar(Shl(w, 19), 23) \ 0..7) \union (Shr(w, 7) \intersect {3, 4}) \union (Shl(w, 1) \intersect {6, 7})
    \union (Shr(w, 2) \intersect {1, 2}) \union (Shl(w, 3) \intersect {5})
insn_get_CL_CS_imm(w) == (Shr(w, 7) \intersect 3..5) \union (Shl(w, 1) \intersect {6, 7})
insn_get_CI_CB_imm(w) == (Shr(w, 7) \intersect {5}) \union (Shr(w, 2) \intersect 0..4)
insn_get_CI_CB_imm_se(w) == (Sar(Shl(w, 19), 26) \ 0..4) \union (Shr(w, 2) \intersect 0..4)
insn_get_C_LW_C_SW_imm(w) ==
  (Shr(w, 7) \intersect 3..5) \union (Shr(w, 4) \intersect {2}) \union (Shl(w, 1) \intersect {6})
insn_get_C_LS_B_uimm(w) == (Shr(w, 6) \intersect {0}) \union (Shr(w, 4) \intersect {1})
insn_get_C_LS_H_uimm(w) == Shr(w, 4) \intersect {1}
insn_get_CIW_imm(w) ==
  (Shr(w, 7) \intersect {4, 5}) \union (Shr(w, 1) \intersect 6..9) \union (Shr(w, 4) \intersect {2})
    \union (Shr(w, 2) \intersect {3})
insn_get_C_ADDI16SP_imm(w) ==
  (Sar(Shl(w, 19), 22) \ 0..8) \union (Shr(w, 2) \intersect {4}) \union (Shl(w, 1) \intersect {6})
    \union (Shl(w, 4) \intersect {7, 8}) \union (Shl(w, 3) \intersect {5})
insn_get_C_LUI_imm(w) == (Sar(Shl(w, 19), 14) \ 0..16) \union (Shl(w, 10) \intersect 12..16)
insn_get_C_FLDSP_LDSP_imm(w) ==
  (Shr(w, 7) \intersect {5}) \union (Shl(w, 4) \intersect 6..8) \union (Shr(w, 2) \intersect {3, 4})
insn_get_C_LWSP_imm(w) ==
  (Shr(w, 7) \intersect {5}) \union (Shl(w, 4) \intersect {6, 7}) \union (Shr(w, 2) \intersect 2..4)
insn_get_C_FSDSP_SDSP_imm(w) == (Shr(w, 7) \intersect 3..5) \union (Shr(w, 1) \intersect 6..8)
insn_get_C_SWSP_imm(w) == (Shr(w, 7) \intersect 2..5) \union (Shr(w, 1) \intersect {6, 7})

-----------------------------------------------------------------------------
\* uarch-step.cpp

operandRd(w) == Shr(Shl(w, 20), 27)
operandRs1(w) == Shr(Shl(w, 12), 27)
operandRs2(w) == Shr(Shl(w, 7), 27)
operandImm12(w) == Sar(w, 20)
operandImm20(w) == Shl(Shr(w, 12), 12)
operandJimm20(w) ==
  Shl(Sar(w, 31), 20) \union Shl(Shr(Shl(w, 1), 22), 1) \union Shl(Shr(Shl(w, 11), 31), 11)
    \union Shl(Shr(Shl(w, 12), 24), 12)
operandShamt5(w) == Shr(Shl(w, 7), 27)
operandShamt6(w) == Shr(Shl(w, 6), 26)
operandSbimm12(w) ==
  Shl(Sar(w, 31), 12) \union Shl(Shr(Shl(w, 1), 26), 5) \union Shl(Shr(Shl(w, 20), 28), 1)
    \union Shl(Shr(Shl(w, 24), 31), 11)
operandSimm12(w) == Shl(Sar(w, 25), 5) \union Shr(Shl(w, 20), 27)

-----------------------------------------------------------------------------
\* The manual: an immediate is a list of ranges <<from, to, n>>: n bits of the
\* instruction, from bit from on, are those of the immediate from bit to on.
\* If sign is a bit of the instruction, it is copied to all bits from the last.
I == [ranges |-> {<<20, 0, 12>>}, sign |-> 31]
SType == [ranges |-> {<<7, 0, 5>>, <<25, 5, 7>>}, sign |-> 31]
B == [ranges |-> {<<8, 1, 4>>, <<25, 5, 6>>, <<7, 11, 1>>, <<31, 12, 1>>}, sign |-> 31]
UType == [ranges |-> {<<12, 12, 20>>}, sign |-> -1]
J == [ranges |-> {<<21, 1, 10>>, <<20, 11, 1>>, <<12, 12, 8>>, <<31, 20, 1>>}, sign |-> 31]
CJ == [ranges |-> {<<3, 1, 3>>, <<11, 4, 1>>, <<2, 5, 1>>, <<7, 6, 1>>, <<6, 7, 1>>, <<9, 8, 2>>, <<8, 10, 1>>,
                   <<12, 11, 1>>}, sign |-> 12]
CB == [ranges |-> {<<3, 1, 2>>, <<10, 3, 2>>, <<2, 5, 1>>, <<5, 6, 2>>, <<12, 8, 1>>}, sign |-> 12]
CD == [ranges |-> {<<10, 3, 3>>, <<5, 6, 2>>}, sign |-> -1]
CI == [ranges |-> {<<2, 0, 5>>, <<12, 5, 1>>}, sign |-> -1]
CISigned == [CI EXCEPT !.sign = 12]
CW == [ranges |-> {<<10, 3, 3>>, <<6, 2, 1>>, <<5, 6, 1>>}, sign |-> -1]
CByte == [ranges |-> {<<6, 0, 1>>, <<5, 1, 1>>}, sign |-> -1]
CHalf == [ranges |-> {<<5, 1, 1>>}, sign |-> -1]
CIW == [ranges |-> {<<11, 4, 2>>, <<7, 6, 4>>, <<6, 2, 1>>, <<5, 3, 1>>}, sign |-> -1]
C16SP == [ranges |-> {<<6, 4, 1>>, <<2, 5, 1>>, <<5, 6, 1>>, <<3, 7, 2>>, <<12, 9, 1>>}, sign |-> 12]
CLUI == [ranges |-> {<<2, 12, 5>>, <<12, 17, 1>>}, sign |-> 12]
CLDSP == [ranges |-> {<<5, 3, 2>>, <<12, 5, 1>>, <<2, 6, 3>>}, sign |-> -1]
CLWSP == [ranges |-> {<<4, 2, 3>>, <<12, 5, 1>>, <<2, 6, 2>>}, sign |-> -1]
CSDSP == [ranges |-> {<<10, 3, 3>>, <<7, 6, 3>>}, sign |-> -1]
CSWSP == [ranges |-> {<<9, 2, 4>>, <<7, 6, 2>>}, sign |-> -1]
Plain(k, n) == [ranges |-> {<<k, 0, n>>}, sign |-> -1]

Decoded(w, layout) ==
  LET last == CHOOSE t \in {r[2] + r[3] - 1 : r \in layout.ranges} : \A r \in layout.ranges : r[2] + r[3] - 1 <= t
  IN  {k \in Word32 : \/ \E r \in layout.ranges : k \in r[2]..(r[2] + r[3] - 1) /\ r[1] + k - r[2] \in w
                      \/ layout.sign \in w /\ k >= last}

\* Each field is what the manual says of any instruction, uncompressed and, for
\* a word whose upper half may hold the next one, compressed.
FieldsCorrect(w) ==
  /\ insn_get_rd(w) = Decoded(w, Plain(7, 5)) /\ insn_get_rs1(w) = Decoded(w, Plain(15, 5))
  /\ insn_get_rs2(w) = Decoded(w, Plain(20, 5)) /\ insn_get_rs3(w) = Decoded(w, Plain(27, 5))
  /\ insn_get_funct3(w) = Decoded(w, Plain(12, 3)) /\ insn_get_funct7(w) = Decoded(w, Plain(25, 7))
  /\ insn_get_id(w) = Decoded(w, Plain(0, 16)) /\ insn_I_get_uimm(w) = Decoded(w, Plain(20, 12))
  /\ insn_I_get_imm(w) = Decoded(w, I) /\ insn_U_get_imm(w) = Decoded(w, UType)
  /\ insn_B_get_imm(w) = Decoded(w, B) /\ insn_J_get_imm(w) = Decoded(w, J) /\ insn_S_get_imm(w) = Decoded(w, SType)
  /\ insn_get_CIW_CL_rd_CS_CA_rs2(w) = Decoded(w, Plain(2, 3)) \union {3}
  /\ insn_get_CL_CS_CA_CB_rs1(w) = Decoded(w, Plain(7, 3)) \union {3}
  /\ insn_get_CR_CSS_rs2(w) = Decoded(w, Plain(2, 5))
  /\ insn_get_C_J_imm(w) = Decoded(w, CJ) /\ insn_get_C_BEQZ_BNEZ_imm(w) = Decoded(w, CB)
  /\ insn_get_CL_CS_imm(w) = Decoded(w, CD) /\ insn_get_CI_CB_imm(w) = Decoded(w, CI)
  /\ insn_get_CI_CB_imm_se(w) = Decoded(w, CISigned) /\ insn_get_C_LW_C_SW_imm(w) = Decoded(w, CW)
  /\ insn_get_C_LS_B_uimm(w) = Decoded(w, CByte) /\ insn_get_C_LS_H_uimm(w) = Decoded(w, CHalf)
  /\ insn_get_CIW_imm(w) = Decoded(w, CIW) /\ insn_get_C_ADDI16SP_imm(w) = Decoded(w, C16SP)
  /\ insn_get_C_LUI_imm(w) = Decoded(w, CLUI) /\ insn_get_C_FLDSP_LDSP_imm(w) = Decoded(w, CLDSP)
  /\ insn_get_C_LWSP_imm(w) = Decoded(w, CLWSP) /\ insn_get_C_FSDSP_SDSP_imm(w) = Decoded(w, CSDSP)
  /\ insn_get_C_SWSP_imm(w) = Decoded(w, CSWSP)
  /\ operandRd(w) = Decoded(w, Plain(7, 5)) /\ operandRs1(w) = Decoded(w, Plain(15, 5))
  /\ operandRs2(w) = Decoded(w, Plain(20, 5)) /\ operandImm12(w) = Decoded(w, I)
  /\ operandImm20(w) = Decoded(w, UType) /\ operandJimm20(w) = Decoded(w, J)
  /\ operandShamt5(w) = Decoded(w, Plain(20, 5)) /\ operandShamt6(w) = Decoded(w, Plain(20, 6))
  /\ operandSbimm12(w) = Decoded(w, B) /\ operandSimm12(w) = Decoded(w, SType)
=============================================================================
