----------------------------- MODULE FloatInsn -----------------------------
(***************************************************************************)
(* The instructions of the F and D extensions (interpret.cpp): which parts *)
(* of the state an instruction reads and writes around the operations of   *)
(* SoftFloat.  A register holds a float of the larger format; one of the   *)
(* smaller is boxed, its high bits all one.                                *)
(*                                                                         *)
(* A state has the floating-point unit on or off, the accrued flags, the   *)
(* dynamic rounding mode, the registers f and x, and a word of memory that *)
(* can or cannot be accessed.  Integer registers have as many bits as the  *)
(* larger format, words as many as the smaller.                            *)
(***************************************************************************)
EXTENDS Ieee754

FLEN == F64!F_SIZE
WORD == F32!F_SIZE
Size(fmt) == IF fmt = "S" THEN WORD ELSE FLEN
SIGN_MASK(fmt) == 2^(Size(fmt) - 1)
Negated(fmt, v) == (v + SIGN_MASK(fmt)) % 2^Size(fmt)
QNaN(fmt) == IF fmt = "S" THEN F32!F_QNAN ELSE F64!F_QNAN
Low(v) == v % 2^WORD
SignExtended(v, size) == IF v >= 2^(size - 1) THEN v + 2^FLEN - 2^size ELSE v

float_box(fmt, v) == IF fmt = "S" THEN v + 2^FLEN - 2^WORD ELSE v
\* Variant: a value that is not boxed is taken as it is.
Badfloat_unbox(fmt, v) == IF fmt = "D" THEN v ELSE Low(v)
float_unbox(fmt, v) ==
  IF fmt = "D" THEN v ELSE IF v \div 2^WORD = 2^(FLEN - WORD) - 1 THEN Low(v) ELSE QNaN("S")

\* The modes by number; seven is the mode of fcsr.
FRM_DYN == 7
ModeName == <<"RNE", "RTZ", "RDN", "RUP", "RMM">>
insn_get_rm(s, i) == IF i.rm = FRM_DYN THEN s.frm ELSE i.rm
FRM_RMM == 4

Illegal(s) == [ok |-> FALSE, s |-> s]
Done(s) == [ok |-> TRUE, s |-> s]
WriteX(s, rd, v) == IF rd = 0 THEN s ELSE [s EXCEPT !.x[rd] = v]
Operand(s, i, r) == float_unbox(i.fmt, s.f[r])
\* The result of an operation goes to a register, its flags to the others.
Accrue(s, flags) == [s EXCEPT !.flags = @ \union flags]
ToF(s, fmt, rd, r) == Done(Accrue([s EXCEPT !.f[rd] = float_box(fmt, r.r)], r.f))
Mode(s, i) == ModeName[insn_get_rm(s, i) + 1]
ModeLegal(s, i) == insn_get_rm(s, i) <= FRM_RMM

-----------------------------------------------------------------------------
\* Operations with a result r that is rounded, of any number of operands.
execute_float_op_rm(s, i, r) == IF ModeLegal(s, i) THEN ToF(s, i.fmt, i.rd, r) ELSE Illegal(s)
\* rs2 selects nothing here, and has to be zero.
execute_float_unary_op_rm(s, i, r) == IF i.sel = 0 THEN execute_float_op_rm(s, i, r) ELSE Illegal(s)

execute_FS(s, i) ==
  IF ~s.accessible THEN Illegal(s)
  ELSE Done([s EXCEPT !.mem = IF i.fmt = "S" THEN @ - Low(@) + Low(s.f[i.rs2]) ELSE s.f[i.rs2]])
execute_FL(s, i) ==
  IF ~s.accessible THEN Illegal(s)
  ELSE Done([s EXCEPT !.f[i.rd] = float_box(i.fmt, IF i.fmt = "S" THEN Low(s.mem) ELSE s.mem)])

fma(fmt, a, b, c, rm) == IF fmt = "S" THEN F32!fma(a, b, c, rm) ELSE F64!fma(a, b, c, rm)
add(fmt, a, b, rm) == IF fmt = "S" THEN F32!add(a, b, rm) ELSE F64!add(a, b, rm)
mul(fmt, a, b, rm) == IF fmt = "S" THEN F32!mul(a, b, rm) ELSE F64!mul(a, b, rm)
div(fmt, a, b, rm) == IF fmt = "S" THEN F32!div(a, b, rm) ELSE F64!div(a, b, rm)

FusedOps == {"FMADD", "FMSUB", "FNMADD", "FNMSUB"}
execute_fused(s, i) ==
  LET a == Operand(s, i, i.rs1)
      b == Operand(s, i, i.rs2)
      c == Operand(s, i, i.rs3)
      n(v) == Negated(i.fmt, v)
      op(x, y) == fma(i.fmt, x, b, y, Mode(s, i))
  IN  execute_float_op_rm(s, i, CASE i.op = "FMADD" -> op(a, c)
                                  [] i.op = "FMSUB" -> op(a, n(c))
                                  [] i.op = "FNMADD" -> op(n(a), n(c))
                                  [] i.op = "FNMSUB" -> op(n(a), c))
ArithmeticOps == {"FADD", "FSUB", "FMUL", "FDIV"}
execute_arithmetic_op(s, i) ==
  LET a == Operand(s, i, i.rs1)
      b == Operand(s, i, i.rs2)
      rm == Mode(s, i)
  IN  execute_float_op_rm(s, i, CASE i.op = "FADD" -> add(i.fmt, a, b, rm)
                                  [] i.op = "FSUB" -> add(i.fmt, a, Negated(i.fmt, b), rm)
                                  [] i.op = "FMUL" -> mul(i.fmt, a, b, rm)
                                  [] i.op = "FDIV" -> div(i.fmt, a, b, rm))

Classes ==
  <<"NINF", "NNORMAL", "NSUBNORMAL", "NZERO", "PZERO", "PSUBNORMAL", "PNORMAL", "PINF", "SNAN", "QNAN">>
ClassBit(class) == 2^((CHOOSE k \in 1..10 : Classes[k] = class) - 1)
execute_FCLASS(s, i) ==
  LET a == Operand(s, i, i.rs1)
  IN  Done(WriteX(s, i.rd, ClassBit(IF i.fmt = "S" THEN F32!fclass(a) ELSE F64!fclass(a))))
execute_float_binary_op(s, i, r) == ToF(s, i.fmt, i.rd, r)
execute_float_cmp_op(s, i, r) == Done(WriteX(Accrue(s, r.f), i.rd, IF r.r THEN 1 ELSE 0))

\* funct3 selects among these; other values of it are illegal.
SignOf(fmt, v) == v \div SIGN_MASK(fmt)
WithSign(fmt, v, sign) == (v % SIGN_MASK(fmt)) + sign * SIGN_MASK(fmt)
execute_FSGN(s, i) ==
  LET a == Operand(s, i, i.rs1)
      mine == SignOf(i.fmt, a)
      other == SignOf(i.fmt, Operand(s, i, i.rs2))
      sign == CASE i.sel = 0 -> other [] i.sel = 1 -> 1 - other [] i.sel = 2 -> (mine + other) % 2
  IN  IF i.sel > 2 THEN Illegal(s)
      ELSE execute_float_binary_op(s, i, [f |-> {}, r |-> WithSign(i.fmt, a, sign)])
execute_FMINMAX(s, i) ==
  LET a == Operand(s, i, i.rs1)
      b == Operand(s, i, i.rs2)
  IN  IF i.sel > 1 THEN Illegal(s)
      ELSE execute_float_binary_op(s, i,
             CASE i.sel = 0 -> IF i.fmt = "S" THEN F32!min(a, b) ELSE F64!min(a, b)
               [] i.sel = 1 -> IF i.fmt = "S" THEN F32!max(a, b) ELSE F64!max(a, b))

\* Conversions: between formats, to and from integers of size bits.
execute_FCVT_F_F(s, i) ==
  execute_float_op_rm(s, i,
    IF i.fmt = "D" THEN sfloat_cvt_f32_f64(float_unbox("S", s.f[i.rs1]))
    ELSE sfloat_cvt_f64_f32(s.f[i.rs1], Mode(s, i)))
ToInt(fmt, a, rm, size, unsigned) ==
  IF fmt = "S" THEN F32!cvt_f_i(a, rm, size, unsigned) ELSE F64!cvt_f_i(a, rm, size, unsigned)
FromInt(fmt, n, rm, size, unsigned) ==
  IF fmt = "S" THEN F32!cvt_i_f(n, rm, size, unsigned) ELSE F64!cvt_i_f(n, rm, size, unsigned)
execute_FCVT_X_F(s, i, r) ==
  IF ModeLegal(s, i) THEN Done(WriteX(Accrue(s, r.f), i.rd, r.r)) ELSE Illegal(s)
execute_FCVT_F_X(s, i, r) == execute_float_op_rm(s, i, r)

execute_FSQRT(s, i) ==
  LET a == Operand(s, i, i.rs1)
  IN  execute_float_unary_op_rm(s, i, IF i.fmt = "S" THEN F32!sqrt(a, Mode(s, i)) ELSE F64!sqrt(a, Mode(s, i)))
execute_FCMP(s, i) ==
  LET a == Operand(s, i, i.rs1)
      b == Operand(s, i, i.rs2)
  IN  IF i.sel > 2 THEN Illegal(s)
      ELSE execute_float_cmp_op(s, i,
             CASE i.sel = 0 -> IF i.fmt = "S" THEN F32!le(a, b) ELSE F64!le(a, b)
               [] i.sel = 1 -> IF i.fmt = "S" THEN F32!lt(a, b) ELSE F64!lt(a, b)
               [] i.sel = 2 -> IF i.fmt = "S" THEN F32!eq(a, b) ELSE F64!eq(a, b))

\* A word, signed or not, is sign-extended; i.long: as many bits as a register.
IntSize(i) == IF i.long THEN FLEN ELSE WORD
execute_FCVT_to_int(s, i) ==
  LET r == ToInt(i.fmt, Operand(s, i, i.rs1), Mode(s, i), IntSize(i), i.unsigned)
  IN  execute_FCVT_X_F(s, i, [r EXCEPT !.r = SignExtended(@ % 2^IntSize(i), IntSize(i))])
execute_FCVT_from_int(s, i) ==
  execute_FCVT_F_X(s, i, FromInt(i.fmt, s.x[i.rs1] % 2^IntSize(i), Mode(s, i), IntSize(i), i.unsigned))

execute_FMV_F_X(s, i) ==
  IF i.sel # 0 THEN Illegal(s)
  ELSE Done([s EXCEPT !.f[i.rd] = float_box(i.fmt, IF i.fmt = "S" THEN Low(s.x[i.rs1]) ELSE s.x[i.rs1])])
\* Variant: the word would be zero-extended.
Badexecute_FMV_X_F(s, i) == Done(WriteX(s, i.rd, IF i.fmt = "S" THEN Low(s.f[i.rs1]) ELSE s.f[i.rs1]))
execute_FMV_X_F(s, i) ==
  Done(WriteX(s, i.rd, IF i.fmt = "S" THEN SignExtended(Low(s.f[i.rs1]), WORD) ELSE s.f[i.rs1]))
execute_FMV_FCLASS(s, i) ==
  IF i.sel = 0 THEN execute_FMV_X_F(s, i) ELSE IF i.sel = 1 THEN execute_FCLASS(s, i) ELSE Illegal(s)

ConversionOps == {"FCVT_F_F", "FCVT_TO_INT", "FCVT_FROM_INT", "FMV_F_X", "FMV_FCLASS"}
execute_FCVT_FMV_FCLASS(s, i) ==
  CASE i.op = "FCVT_F_F" -> execute_FCVT_F_F(s, i)
    [] i.op = "FCVT_TO_INT" -> execute_FCVT_to_int(s, i)
    [] i.op = "FCVT_FROM_INT" -> execute_FCVT_from_int(s, i)
    [] i.op = "FMV_F_X" -> execute_FMV_F_X(s, i)
    [] i.op = "FMV_FCLASS" -> execute_FMV_FCLASS(s, i)
SelectedOps == {"FSGN", "FMINMAX", "FSQRT", "FCMP"}
execute_FD(s, i) ==
  CASE i.op \in ArithmeticOps -> execute_arithmetic_op(s, i)
    [] i.op = "FSGN" -> execute_FSGN(s, i)
    [] i.op = "FMINMAX" -> execute_FMINMAX(s, i)
    [] i.op = "FSQRT" -> execute_FSQRT(s, i)
    [] i.op = "FCMP" -> execute_FCMP(s, i)
    [] i.op \in ConversionOps -> execute_FCVT_FMV_FCLASS(s, i)
FloatInsns == UNION {FusedOps, ArithmeticOps, SelectedOps, ConversionOps, {"FL", "FS"}}
ExecuteFloat(s, i) ==
  IF ~s.on THEN Illegal(s)
  ELSE IF i.op \in FusedOps THEN execute_fused(s, i)
  ELSE IF i.op = "FL" THEN execute_FL(s, i)
  ELSE IF i.op = "FS" THEN execute_FS(s, i)
  ELSE execute_FD(s, i)

-----------------------------------------------------------------------------
(* What the instructions promise together.                                 *)

Boxed(v) == IF v >= 2^FLEN - 2^WORD THEN v ELSE 2^FLEN - 2^WORD + QNaN("S")
\* All operands of the smaller format boxed, or none of it.
Canonical(s, i) == [s EXCEPT !.f = [r \in DOMAIN s.f |-> IF i.fmt = "S" THEN Boxed(s.f[r]) ELSE s.f[r]]]
Raw(i) == i.op \in {"FL", "FS", "FMV_F_X"} \/ (i.op = "FMV_FCLASS" /\ i.sel = 0)
RoundsByMode(i) == i.op \in UNION {FusedOps, ArithmeticOps, {"FSQRT", "FCVT_F_F", "FCVT_TO_INT", "FCVT_FROM_INT"}}
Do(s, i) == ExecuteFloat(s, i).s
With(i, o, rd, rs1, rs2, sel) == [i EXCEPT !.op = o, !.rd = rd, !.rs1 = rs1, !.rs2 = rs2, !.sel = sel]

\* An instruction that is illegal changes nothing; any other only adds flags,
\* leaves the mode, writes one register, and leaves boxes in it; a value that
\* is not boxed counts as a NaN, except where it is only moved; it is illegal
\* when the unit is off or the mode it rounds by does not exist, and the mode
\* it does not round by makes no difference.
Disciplined(s, i) ==
  LET t == ExecuteFloat(s, i)
      moved == {r \in DOMAIN s.f : t.s.f[r] # s.f[r]}
  IN  /\ ~t.ok => t.s = s
      /\ ~s.on => ~t.ok
      /\ s.flags \subseteq t.s.flags /\ t.s.frm = s.frm
      /\ moved \subseteq {i.rd}
      /\ t.s.x[0] = 0 /\ (t.s.mem # s.mem => i.op = "FS")
      /\ i.fmt = "S" /\ i.op # "FCVT_F_F" => \A r \in moved : Boxed(t.s.f[r]) = t.s.f[r]
      /\ ~Raw(i) /\ ~(i.op = "FCVT_F_F") =>
           LET u == ExecuteFloat(Canonical(s, i), i)
           IN  u.ok = t.ok /\ u.s.x = t.s.x /\ u.s.flags = t.s.flags /\ (t.ok /\ moved # {} => u.s.f[i.rd] = t.s.f[i.rd])
      /\ s.on => IF RoundsByMode(i)
                   THEN t.ok => insn_get_rm(s, i) <= FRM_RMM
                   ELSE t.s = [ExecuteFloat([s EXCEPT !.frm = 7 - @], i).s EXCEPT !.frm = s.frm]

\* Instructions in other words: a subtraction adds the negation that FSGNJN
\* makes, the fused ones are FMADD of other operands, what is stored or moved
\* comes back the same, a comparison agrees with the minimum.
Agree(s, i) ==
  LET F(t, rd) == t.f[rd]
      neg(rs) == Do(s, With(i, "FSGN", 4, rs, rs, 1))
      fadd(t, rs2) == Do(t, With(i, "FADD", 3, 1, rs2, 0))
      fused(t, o, rs1, rs2, rs3) == Do(t, [With(i, o, 3, rs1, rs2, 0) EXCEPT !.rs3 = rs3])
      both == Do(neg(2), With(i, "FSGN", 1, 1, 1, 0))
      stored == Do(s, With(i, "FS", 0, 1, 2, 0))
      inX == Do(s, With(i, "FMV_FCLASS", 1, 2, 2, 0))
      cmp == Do(s, With(i, "FCMP", 1, 1, 2, 1))
      least == Do(s, With(i, "FMINMAX", 3, 1, 2, 0))
      wide == Do(s, [With(i, "FCVT_F_F", 3, 1, 2, 0) EXCEPT !.fmt = "D"])
      narrow == Do(wide, [With(i, "FCVT_F_F", 3, 3, 2, 0) EXCEPT !.fmt = "S"])
      same(t, u) == F(t, 3) = F(u, 3) /\ t.flags = u.flags
  IN  s.on /\ insn_get_rm(s, i) <= FRM_RMM =>
        /\ same(Do(s, With(i, "FSUB", 3, 1, 2, 0)), fadd(neg(2), 4))
        /\ same(fused(s, "FMSUB", 1, 2, 2), fused(neg(2), "FMADD", 1, 2, 4))
        /\ same(fused(s, "FNMSUB", 1, 2, 2), fused(neg(2), "FMADD", 1, 4, 2))
        /\ same(fused(s, "FNMADD", 1, 2, 2), fused(neg(2), "FMADD", 1, 4, 4))
        /\ s.accessible =>
             Do(stored, With(i, "FL", 3, 1, 2, 0)).f[3] = IF i.fmt = "S" THEN float_box("S", Low(s.f[2])) ELSE s.f[2]
        /\ Do(inX, With(i, "FMV_F_X", 3, 1, 2, 0)).f[3] = IF i.fmt = "S" THEN float_box("S", Low(s.f[2])) ELSE s.f[2]
        /\ inX.x[1] = SignExtended(inX.x[1] % 2^Size(i.fmt), Size(i.fmt))
        /\ cmp.x[1] = 1 => F(least, 3) = float_box(i.fmt, float_unbox(i.fmt, s.f[1]))
        /\ wide.flags = s.flags => F(narrow, 3) = Boxed(s.f[1]) \/ F32!isnan(Low(Boxed(s.f[1])))
=============================================================================
