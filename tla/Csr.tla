-------------------------------- MODULE Csr --------------------------------
(***************************************************************************)
(* Control and status registers (interpret.cpp, riscv-warl.hpp): what an   *)
(* instruction reads and writes of them, for which privilege, which TLBs a *)
(* write flushes and when the interpreter has to look at interrupts again. *)
(* Traps and returns, which change mstatus too, are here as well.          *)
(*                                                                         *)
(* The value of a register is the set of its bits that are one; counters   *)
(* are numbers of CYCLELEN bits.  A state has the privilege, the counters, *)
(* the registers, the TLBs that kept their entries, and whether an address *)
(* is reserved (ilrsc).                                                    *)
(***************************************************************************)
EXTENDS Integers, FiniteSets

PRV_U == 0
PRV_S == 1
PRV_HS == 2
PRV_M == 3

SIE == {1}
MIE == {3}
SPIE == {5}
MPIE == {7}
SPP == {8}
VS == 9..10
MPP == 11..12
FS == 13..14
XS == 15..16
MPRV == {17}
SUM == {18}
MXR == {19}
TVM == {20}
TW == {21}
TSR == {22}
UXL == 32..33
SD == {63}
MSTATUS_W_MASK == UNION {SIE, MIE, SPIE, MPIE, SPP, MPP, FS, MPRV, SUM, MXR, TVM, TW, TSR}
MSTATUS_R_MASK == UNION {MSTATUS_W_MASK, {6}, VS, UXL, 34..37, SD}
SSTATUS_W_MASK == UNION {SIE, SPIE, SPP, FS, SUM, MXR}
SSTATUS_R_MASK == UNION {SSTATUS_W_MASK, {6}, VS, XS, UXL, SD}
MIP_S_RW_MASK == {1, 5, 9}
MIP_RW_MASK == {1, 3, 5, 7, 9, 11}
MEDELEG_W_MASK == (0..15) \ {10, 11, 14}
COUNTEREN_RW_MASK == 0..2
FFLAGS == 0..4
FRM == 5..7
SATP_MODE == 60..63
SATP_RW_MASK == (0..43) \union SATP_MODE    \* no bit of an ASID is implemented
SATP_MODES == {{}, {63}, {63, 60}}          \* bare, Sv39, Sv48
ALL == 0..63

CYCLELEN == 4
Cycle(n) == n % 2^CYCLELEN
Number(bits) == LET n[k \in 0..CYCLELEN] == IF k = 0 THEN 0 ELSE n[k - 1] + IF k - 1 \in bits THEN 2^(k - 1) ELSE 0
                IN  n[CYCLELEN]
Bits(n) == {k \in 0..(CYCLELEN - 1) : (n \div 2^k) % 2 = 1}
RTC_FREQ_DIV == 4

Field(val, mask) == val \intersect mask
Assign(old, val, mask) == (old \ mask) \union (val \intersect mask)
Prv(bits, field, low) == (IF low \in Field(bits, field) THEN 1 ELSE 0) + IF low + 1 \in Field(bits, field) THEN 2 ELSE 0
Mpp(bits) == Prv(bits, MPP, 11)

\* Legal values: reads and writes of a register go through these.
WARL_mstatus(bits) ==
  LET v == Field(bits, MSTATUS_R_MASK)
      w == IF Mpp(v) = PRV_HS THEN v \ MPP ELSE v
  IN  IF Field(w, FS) # {} THEN w \union FS \union SD ELSE w \ SD
WARL(reg, bits) ==
  CASE reg = "mstatus" -> WARL_mstatus(bits)
    [] reg \in {"menvcfg", "senvcfg"} -> Field(bits, {0})
    [] reg = "medeleg" -> Field(bits, MEDELEG_W_MASK)
    [] reg = "mideleg" -> Field(bits, MIP_S_RW_MASK)
    [] reg \in {"mie", "mip"} -> Field(bits, MIP_RW_MASK)
    [] reg \in {"mtvec", "stvec"} -> bits \ {0, 1}
    [] reg \in {"mepc", "sepc"} -> bits \ {0}
    [] reg \in {"mcounteren", "scounteren"} -> Field(bits, COUNTEREN_RW_MASK)
    [] reg = "satp" -> IF Field(bits, SATP_MODE) \in SATP_MODES THEN Field(bits, SATP_RW_MASK) ELSE {}
    [] reg = "fcsr" -> Field(bits, FFLAGS \union FRM)
    [] OTHER -> bits

-----------------------------------------------------------------------------
(* Registers by the privilege their address has.                           *)

UserCsrs == {"fflags", "frm", "fcsr", "cycle", "time", "instret"}
SupervisorPlain == {"senvcfg", "stvec", "scounteren", "sscratch", "sepc", "scause", "stval"}
SupervisorCsrs == SupervisorPlain \union {"sstatus", "sie", "sip", "satp"}
MachinePlain == {"menvcfg", "medeleg", "mideleg", "mie", "mtvec", "mcounteren", "mscratch", "mepc", "mcause", "mtval"}
Identity == {"mvendorid", "marchid", "mimpid"}
\* Performance counters, their events and triggers, and what else is always zero.
ZeroCsrs == {"mhpmcounter", "mhpmevent", "mcountinhibit", "tselect"}
ReadOnlyZeroCsrs == {"mhartid", "mconfigptr"}
MachineCsrs == MachinePlain \union {"mstatus", "mip", "misa", "mcycle", "minstret"} \union Identity \union ZeroCsrs \union ReadOnlyZeroCsrs
Csrs == UserCsrs \union SupervisorCsrs \union MachineCsrs \union {"invalid"}
Registers == SupervisorPlain \union MachinePlain \union Identity \union {"mstatus", "mip", "misa", "satp", "fcsr"}

csr_is_read_only(csr) == csr \in {"cycle", "time", "instret"} \union Identity \union ReadOnlyZeroCsrs
csr_prv(csr) == IF csr \in MachineCsrs THEN PRV_M ELSE IF csr \in SupervisorCsrs THEN PRV_S ELSE PRV_U

\* A read gives the set of values it may return: none if it fails.
rdcounteren(s, bit) ==
  /\ s.prv <= PRV_S => bit \in s.r["mcounteren"]
  /\ s.prv < PRV_S => bit \in s.r["scounteren"]
Minstret(s) == Bits(Cycle(s.mcycle - s.icycleinstret))
ReadCounter(s, csr) ==
  CASE csr = "cycle" -> IF rdcounteren(s, 0) THEN {Bits(s.mcycle)} ELSE {}
    [] csr = "instret" -> IF rdcounteren(s, 2) THEN {Minstret(s)} ELSE {}
    [] csr = "time" -> IF rdcounteren(s, 1) THEN {Bits(s.mcycle \div RTC_FREQ_DIV)} ELSE {}
ReadSupervisor(s, csr) ==
  CASE csr = "sstatus" -> {Field(s.r["mstatus"], SSTATUS_R_MASK)}
    [] csr = "sie" -> {Field(s.r["mie"], s.r["mideleg"])}
    [] csr = "sip" -> {Field(s.r["mip"], s.r["mideleg"])}
    [] csr = "satp" -> IF s.prv = PRV_S /\ TVM \subseteq s.r["mstatus"] THEN {} ELSE {s.r["satp"]}
    [] OTHER -> {s.r[csr]}
ReadMachine(s, csr) ==
  CASE csr = "mcycle" -> {Bits(s.mcycle)}
    [] csr = "minstret" -> {Minstret(s)}
    [] OTHER -> {s.r[csr]}
ReadFloat(s, csr) ==
  IF Field(s.r["mstatus"], FS) = {} THEN {}
  ELSE CASE csr = "fflags" -> {Field(s.r["fcsr"], FFLAGS)}
         [] csr = "frm" -> {{k - 5 : k \in Field(s.r["fcsr"], FRM)}}
         [] csr = "fcsr" -> {s.r["fcsr"]}
read_csr(s, csr) ==
  IF csr_prv(csr) > s.prv \/ csr = "invalid" THEN {}
  ELSE IF csr \in {"fflags", "frm", "fcsr"} THEN ReadFloat(s, csr)
  ELSE IF csr \in {"cycle", "instret", "time"} THEN ReadCounter(s, csr)
  ELSE IF csr \in SupervisorCsrs THEN ReadSupervisor(s, csr)
  ELSE IF csr \in ZeroCsrs \union ReadOnlyZeroCsrs THEN {{}}
  ELSE ReadMachine(s, csr)

-----------------------------------------------------------------------------
(* A write gives the state after it and a status.                          *)

Failure(s) == [status |-> "failure", s |-> s]
Written(s, reg, bits, status) == [status |-> status, s |-> [s EXCEPT !.r[reg] = WARL(reg, bits)]]
Flushed(s, tlbs) == [s EXCEPT !.kept = @ \ tlbs]
Changed(old, new, mask) == Field(old, mask) # Field(new, mask)

\* Variant: a new MPP counts only when MPRV changes with it.
BadFlushes(old, new) ==
  (IF Changed(old, new, MXR \union SUM) THEN {"read"} ELSE {})
  \union IF Changed(old, new, SUM \union MPRV) THEN {"read", "write"} ELSE {}
\* The TLBs a change of mstatus flushes.
Flushes(old, new) ==
  (IF Changed(old, new, MXR) THEN {"read"} ELSE {})
  \union IF Changed(old, new, SUM \union MPRV) \/ (MPRV \subseteq new /\ Changed(old, new, MPP))
           THEN {"read", "write"} ELSE {}
write_csr_mstatus(s, val) ==
  LET old == Field(s.r["mstatus"], MSTATUS_R_MASK)
      legal == IF Mpp(val) = PRV_HS THEN val \ MPP ELSE val
      merged == Assign(old, legal, MSTATUS_W_MASK)
      new == IF Field(merged, FS) # {} THEN merged \union FS \union SD ELSE merged \ SD
  IN  Written(Flushed(s, Flushes(old, new)), "mstatus", new,
              IF Changed(old, new, SIE \union MIE) THEN "serve_interrupts" ELSE "success")
write_csr_satp(s, val) ==
  LET new == Field(val, SATP_RW_MASK)
      moves == Changed(s.r["satp"], new, SATP_MODE)
  IN  IF s.prv = PRV_S /\ TVM \subseteq s.r["mstatus"] THEN Failure(s)
      ELSE IF Field(val, SATP_MODE) \notin SATP_MODES THEN [status |-> "success", s |-> s]
      ELSE Written(IF moves THEN Flushed(s, {"code", "read", "write"}) ELSE s, "satp", new,
                   IF moves THEN "flush_fetch" ELSE "success")

\* Variant: a supervisor writes every bit it could be delegated.
BadWriteSupervisor(s, csr, val) ==
  CASE csr = "sstatus" -> write_csr_mstatus(s, Assign(s.r["mstatus"], val, SSTATUS_W_MASK))
    [] csr = "sie" -> Written(s, "mie", Assign(s.r["mie"], val, MIP_S_RW_MASK), "serve_interrupts")
    [] csr = "sip" -> Written(s, "mip", Assign(s.r["mip"], val, MIP_S_RW_MASK), "serve_interrupts")
    [] csr = "satp" -> write_csr_satp(s, val)
    [] OTHER -> Written(s, csr, val, "success")
WriteSupervisor(s, csr, val) ==
  CASE csr = "sstatus" -> write_csr_mstatus(s, Assign(s.r["mstatus"], val, SSTATUS_W_MASK))
    [] csr = "sie" -> Written(s, "mie", Assign(s.r["mie"], val, s.r["mideleg"]), "serve_interrupts")
    [] csr = "sip" -> Written(s, "mip", Assign(s.r["mip"], val, s.r["mideleg"]), "serve_interrupts")
    [] csr = "satp" -> write_csr_satp(s, val)
    [] OTHER -> Written(s, csr, val, "success")
WriteMachine(s, csr, val) ==
  CASE csr = "minstret" ->
         [status |-> "success", s |-> [s EXCEPT !.icycleinstret = Cycle(s.mcycle + 1 - Number(val))]]
    [] csr = "mcycle" -> Failure(s)
    [] csr = "mip" -> Written(s, "mip", Assign(s.r["mip"], val, MIP_S_RW_MASK), "serve_interrupts")
    [] csr \in {"mideleg", "mie"} -> Written(s, csr, val, "serve_interrupts")
    [] OTHER -> Written(s, csr, val, "success")
WriteFloat(s, csr, val) ==
  LET old == s.r["fcsr"]
  IN  IF Field(s.r["mstatus"], FS) = {} THEN Failure(s)
      ELSE Written(s, "fcsr",
             CASE csr = "fflags" -> Assign(old, val, FFLAGS)
               [] csr = "frm" -> Assign(old, {k + 5 : k \in val}, FRM)
               [] csr = "fcsr" -> val, "success")
write_csr(s, csr, val) ==
  IF csr_is_read_only(csr) \/ csr_prv(csr) > s.prv \/ csr = "invalid" THEN Failure(s)
  ELSE IF csr \in {"fflags", "frm", "fcsr"} THEN WriteFloat(s, csr, val)
  ELSE IF csr = "mstatus" THEN write_csr_mstatus(s, val)
  ELSE IF csr \in SupervisorCsrs THEN WriteSupervisor(s, csr, val)
  ELSE IF csr \in ZeroCsrs \union {"misa"} THEN [status |-> "success", s |-> s]
  ELSE WriteMachine(s, csr, val)

-----------------------------------------------------------------------------
(* An instruction leaves a state, a status, and what it writes to rd: the  *)
(* values it may be, none if it writes nothing.                            *)

Illegal(s) == [status |-> "failure", s |-> s, rd |-> {}]
\* readsRd: rd is not x0.
execute_csr_RW(s, csr, rs1val, readsRd) ==
  LET read == read_csr(s, csr)
      w == write_csr(s, csr, rs1val)
  IN  IF (readsRd /\ read = {}) \/ w.status = "failure" THEN Illegal(s)
      ELSE [status |-> w.status, s |-> w.s, rd |-> IF readsRd THEN read ELSE {}]
\* sets: CSRRS, or else CSRRC; rs1zero: rs1 is x0, or the immediate zero.
execute_csr_SC(s, csr, rs1val, rs1zero, sets) ==
  LET read == read_csr(s, csr)
      old == UNION read
      w == write_csr(s, csr, IF sets THEN old \union rs1val ELSE old \ rs1val)
  IN  IF read = {} THEN Illegal(s)
      ELSE IF rs1zero THEN [status |-> "success", s |-> s, rd |-> read]
      ELSE IF w.status = "failure" THEN Illegal(s)
      ELSE [status |-> w.status, s |-> w.s, rd |-> read]

set_prv(s, prv) == IF s.prv = prv THEN s ELSE [Flushed(s, {"code", "read", "write"}) EXCEPT !.prv = prv, !.lrsc = FALSE]
Move(bits, from, to) == (bits \ to) \union IF from \subseteq bits THEN to ELSE {}
PrvBits(prv, low) == (IF prv % 2 = 1 THEN {low} ELSE {}) \union IF prv >= 2 THEN {low + 1} ELSE {}
execute_SRET(s) ==
  LET m == s.r["mstatus"]
      spp == IF SPP \subseteq m THEN PRV_S ELSE PRV_U
      new == (Move(m, SPIE, SIE) \union SPIE) \ (SPP \union MPRV)
  IN  IF s.prv < PRV_S \/ (s.prv = PRV_S /\ TSR \subseteq m) THEN Illegal(s)
      ELSE [status |-> "serve_interrupts", s |-> set_prv(Written(s, "mstatus", new, "").s, spp), rd |-> {}]
execute_MRET(s) ==
  LET m == s.r["mstatus"]
      mpp == Mpp(m)
      new == (Move(m, MPIE, MIE) \union MPIE) \ (MPP \union IF mpp < PRV_M THEN MPRV ELSE {})
  IN  IF s.prv < PRV_M THEN Illegal(s)
      ELSE [status |-> "serve_interrupts", s |-> set_prv(Written(s, "mstatus", new, "").s, mpp), rd |-> {}]
\* raise_exception, delegated or not: registers of the trap are left out.
Trap(s, delegated) ==
  LET m == s.r["mstatus"]
      counted == [s EXCEPT !.icycleinstret = Cycle(@ + 1)]
      toS == (Move(m, SIE, SPIE) \ (SPP \union SIE)) \union (IF s.prv = PRV_S THEN SPP ELSE {})
      toM == (Move(m, MIE, MPIE) \ (MPP \union MIE)) \union PrvBits(s.prv, 11)
  IN  [status |-> "serve_interrupts", rd |-> {},
       s |-> IF delegated /\ s.prv <= PRV_S THEN set_prv(Written(counted, "mstatus", toS, "").s, PRV_S)
             ELSE set_prv(Written(counted, "mstatus", toM, "").s, PRV_M)]

-----------------------------------------------------------------------------
(* What registers promise.                                                 *)

\* What a translation depends on besides the tables.
EffectivePrv(s) == IF MPRV \subseteq s.r["mstatus"] THEN Mpp(s.r["mstatus"]) ELSE s.prv
Context(s, tlb) ==
  LET m == s.r["mstatus"]
      mode == Field(s.r["satp"], SATP_MODE)
  IN  CASE tlb = "code" -> <<s.prv, mode>>
        [] tlb = "read" -> <<EffectivePrv(s), mode, Field(m, SUM), Field(m, MXR)>>
        [] tlb = "write" -> <<EffectivePrv(s), mode, Field(m, SUM)>>
Deliverable(s) ==
  LET m == s.r["mstatus"]
      pending == s.r["mip"] \intersect s.r["mie"]
  IN  CASE s.prv = PRV_M -> IF MIE \subseteq m THEN pending \ s.r["mideleg"] ELSE {}
        [] s.prv = PRV_S -> IF SIE \subseteq m THEN pending ELSE pending \ s.r["mideleg"]
        [] OTHER -> pending

\* A TLB keeps entries only of the context they were made in; the code it has
\* at hand is fetched again if its TLB is flushed; interrupts are looked at
\* again if one becomes deliverable; no reservation outlives a change of privilege.
TakesEffect(s, t) ==
  /\ \A tlb \in t.s.kept : Context(s, tlb) = Context(t.s, tlb)
  /\ t.s.kept # s.kept /\ "code" \notin t.s.kept => t.status # "success"
  /\ ~(Deliverable(t.s) \subseteq Deliverable(s)) => t.status = "serve_interrupts"
  /\ t.s.prv # s.prv => ~t.s.lrsc

\* Values stay legal; an instruction changes nothing above its privilege, and
\* nothing at all if it fails.
Confined(s, t) ==
  LET differ(reg, mask) == Changed(s.r[reg], t.s.r[reg], ALL \ mask)
  IN  /\ \A reg \in Registers : t.s.r[reg] = WARL(reg, t.s.r[reg])
      /\ t.status = "failure" => t.s = s
      /\ s.prv = PRV_S =>
           /\ ~differ("mstatus", SSTATUS_W_MASK \union SD)
           /\ ~differ("mie", s.r["mideleg"]) /\ ~differ("mip", s.r["mideleg"])
           /\ \A reg \in (MachinePlain \ {"mie"}) \union {"misa"} : ~differ(reg, {})
           /\ t.s.icycleinstret = s.icycleinstret
      /\ s.prv = PRV_U => \A reg \in Registers \ {"fcsr"} : ~differ(reg, {})

\* What is written is what the next instruction reads, though mcycle has moved;
\* a register that is swapped out and swapped in again has changed nothing.
Restores(s, csr, val) ==
  LET t == execute_csr_RW(s, csr, val, TRUE)
      next == [t.s EXCEPT !.mcycle = Cycle(@ + 1)]
      u == execute_csr_RW(next, csr, UNION t.rd, TRUE)
  IN  t.status # "failure" /\ read_csr(next, csr) # {} =>
        /\ u.s.r = s.r
        /\ csr = "minstret" => u.rd = {Bits(Number(val))}
        /\ csr = "fcsr" \/ csr \in {"sscratch", "mscratch", "scause", "mcause"} => u.rd = {WARL(csr, val)}
=============================================================================
