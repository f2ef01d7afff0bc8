-------------------------- MODULE InterpreterProofs --------------------------
(***************************************************************************)
(* For any number of devices, any tick length and any guest: external      *)
(* interrupts are neither lost nor invented, the assertion of the inner    *)
(* loop holds, and a run can be cut at any instruction.                    *)
(***************************************************************************)
EXTENDS Interpreter, WellFoundedInduction, TLAPS

-----------------------------------------------------------------------------
\* Facts of arithmetic about ticks.

\* A number has one quotient and remainder.
LEMMA Remainder ==
  ASSUME NEW d \in Nat \ {0}, NEW q \in Int, NEW s \in 0..(d-1)
  PROVE  (d * q + s) % d = s
<1> DEFINE n == d * q + s
<1>1. n \in Int
  OBVIOUS
<1>2. n = d * (n \div d) + (n % d) /\ n % d \in 0..(d-1) /\ n \div d \in Int
  BY <1>1
<1>3. PICK p \in Int, r \in 0..(d-1) : n = d * p + r /\ r = n % d
  BY <1>2
<1>4. CASE p < q
  <2>1. p + 1 <= q
    BY <1>4
  <2>2. d * (p + 1) <= d * q
    BY <2>1
  <2> QED
    BY <1>3, <2>2
<1>5. CASE q < p
  <2>1. q + 1 <= p
    BY <1>5
  <2>2. d * (q + 1) <= d * p
    BY <2>1
  <2> QED
    BY <1>3, <2>2
<1> QED
  BY <1>3, <1>4, <1>5

\* No tick falls strictly between a cycle and its next tick, which is the same
\* for all the cycles in between.
LEMMA NoTickBetween ==
  ASSUME NEW a \in Nat, NEW b \in Nat, a < b, b < NextTick(a)
  PROVE  ~rtc_is_tick(b) /\ NextTick(b) = NextTick(a)
<1> DEFINE d == RTC_FREQ_DIV
<1>1. d \in Nat \ {0}
  BY InterpreterAssumption
<1>2. a = d * (a \div d) + (a % d) /\ a % d \in 0..(d-1) /\ a \div d \in Int
  BY <1>1
<1>3. PICK q \in Int, r \in 0..(d-1) : a = d * q + r /\ r = a % d
  BY <1>2
<1>4. b = d * q + (r + (b - a)) /\ r + (b - a) \in 0..(d-1)
  <2> HIDE DEF d
  <2>1. b < a + (d - r)
    BY <1>3 DEF NextTick, d
  <2> QED
    BY <1>1, <1>3, <2>1
<1>5. b % d = r + (b - a)
  <2> HIDE DEF d
  <2> QED
    BY <1>1, <1>4, Remainder
<1>6. b % d # 0
  BY <1>1, <1>3, <1>5
<1> QED
  BY <1>1, <1>3, <1>5, <1>6 DEF NextTick, rtc_is_tick

LEMMA NextTickType == ASSUME NEW a \in Nat PROVE NextTick(a) \in Nat /\ a < NextTick(a)
<1> DEFINE d == RTC_FREQ_DIV
<1>1. d \in Nat \ {0}
  BY InterpreterAssumption
<1>2. a % d \in 0..(d-1)
  BY <1>1
<1> QED
  BY <1>1, <1>2 DEF NextTick

\* Some line is the highest of those not being served.
LEMMA Highest ==
  ASSUME NEW S \in SUBSET (1..PLIC_MAX_IRQ), S # {}
  PROVE  Max(S) \in S
<1> DEFINE N == PLIC_MAX_IRQ
           T == {n \in Nat : n <= N /\ N - n \in S}
           R == {ss \in Nat \X Nat : ss[1] < ss[2]}
<1>1. N \in Nat /\ S \subseteq 1..N
  BY PlicAssumption
<1>2. PICK s \in S : TRUE
  OBVIOUS
<1>3. N - s \in T /\ T \subseteq Nat
  <2>1. N - s \in Nat /\ N - s <= N /\ N - (N - s) = s
    BY <1>1, <1>2
  <2> QED
    BY <1>2, <2>1
<1>4. PICK n \in T : \A m \in T : ~(<<m, n>> \in R)
  <2>1. IsWellFoundedOn(R, Nat)
    BY NatLessThanWellFounded DEF OpToRel
  <2> HIDE DEF T, R
  <2> QED
    BY <1>3, <2>1, WFMin
<1>5. \A m \in T : n <= m
  <2> SUFFICES ASSUME NEW m \in T PROVE ~(m < n)
    BY <1>3
  <2>1. m \in Nat /\ n \in Nat
    BY <1>3
  <2> HIDE DEF T
  <2> QED
    BY <1>4, <2>1
<1>6. N - n \in S /\ n \in Nat
  OBVIOUS
<1>7. \A y \in S : N - n >= y
  <2> SUFFICES ASSUME NEW y \in S PROVE N - n >= y
    OBVIOUS
  <2>1. N - y \in Nat /\ N - y <= N /\ N - (N - y) = y
    BY <1>1
  <2>2. N - y \in T
    BY <2>1
  <2>3. n <= N - y
    BY <1>5, <2>2
  <2> HIDE DEF N, T
  <2> QED
    BY <1>1, <1>6, <2>1, <2>3
<1> QED
  BY <1>6, <1>7 DEF Max

-----------------------------------------------------------------------------
\* Types.

LEMMA SetIrqType ==
  ASSUME PlicTypeOK, NEW m \in SUBSET Irqs, NEW D \in SUBSET Devices,
         NEW bits \in SUBSET IntBits, SetIrq(m, D, bits)
  PROVE  PlicTypeOK'
BY DEF PlicTypeOK, SetIrq, Raised, External, Irqs

LEMMA ResetIrqType ==
  ASSUME PlicTypeOK, NEW d \in Devices, NEW bits \in SUBSET IntBits, ResetIrq(d, bits)
  PROVE  PlicTypeOK'
BY DEF PlicTypeOK, ResetIrq, Raised, Lowered, External, Irqs

LEMMA ClaimType == ASSUME PlicTypeOK, Claim PROVE PlicTypeOK'
<1>1. CASE girqpend \ girqsrvd = {}
  BY <1>1 DEF PlicTypeOK, Claim
<1>2. CASE girqpend \ girqsrvd # {}
  <2>1. girqpend \ girqsrvd \in SUBSET (1..PLIC_MAX_IRQ)
    BY PlicAssumption DEF PlicTypeOK
  <2>2. Max(girqpend \ girqsrvd) \in Devices
    BY <1>2, <2>1, Highest DEF PlicTypeOK
  <2> QED
    BY <1>2, <2>2 DEF PlicTypeOK, Claim, Lowered, External, Irqs
<1> QED
  BY <1>1, <1>2

LEMMA CompleteType ==
  ASSUME PlicTypeOK, NEW d \in Devices, Complete(d) PROVE PlicTypeOK'
BY DEF PlicTypeOK, Complete, Raised, Lowered, External, Irqs

\* The part of the state that the loops do not own.
CpuTypeOK ==
  /\ prv \in Modes /\ mstatus \in Mstatus
  /\ mie \in SUBSET Irqs /\ mideleg \in SUBSET Supervisor /\ mtimecmp \in Nat

LoopTypeOK ==
  /\ phase \in {"host", "outer", "inner"}
  /\ mcycle \in Nat /\ mcycle_end \in 0..MaxCycle /\ tick_end \in 0..MaxCycle
  /\ iflags \in SUBSET {"H", "X", "Y"} /\ unreproducible \in BOOLEAN

LEMMA TypeParts == TypeOK <=> LoopTypeOK /\ CpuTypeOK /\ PlicTypeOK
BY DEF TypeOK, LoopTypeOK, CpuTypeOK

LEMMA ContinueType == ASSUME LoopTypeOK, NEW c \in Nat, Continue(c) PROVE LoopTypeOK'
BY DEF LoopTypeOK, Continue

LEMMA ServeType == ASSUME LoopTypeOK, NEW c \in Nat, ServeInterrupts(c) PROVE LoopTypeOK'
BY DEF LoopTypeOK, ServeInterrupts

LEMMA ServesIfType == ASSUME LoopTypeOK, NEW x \in BOOLEAN, ServesIf(x) PROVE LoopTypeOK'
<1>1. mcycle \in Nat
  BY DEF LoopTypeOK
<1> QED
  BY <1>1, ContinueType, ServeType DEF ServesIf

LEMMA ReturnType ==
  ASSUME LoopTypeOK, NEW c \in Nat, NEW flags \in SUBSET {"H", "X", "Y"}, NEW status,
         ReturnToHost(c, flags, status)
  PROVE  LoopTypeOK'
BY DEF LoopTypeOK, ReturnToHost

LEMMA RaiseType ==
  ASSUME prv \in Modes, mstatus \in Mstatus, NEW deleg \in BOOLEAN, deleg => prv # "M",
         RaiseException(deleg)
  PROVE  prv' \in Modes /\ mstatus' \in Mstatus
BY DEF RaiseException, Mstatus, Modes

-----------------------------------------------------------------------------
\* What every instruction does to the loops.

\* Nothing it does can make an interrupt deliverable...
Quiet ==
  /\ mip' \subseteq mip /\ mie' = mie /\ mideleg' = mideleg /\ prv' = prv
  /\ mstatus'.mie = mstatus.mie /\ mstatus'.sie = mstatus.sie

\* ...or it traps, which masks the interrupts of the mode it goes to.
Trapped ==
  /\ mip' = mip /\ mie' = mie /\ mideleg' = mideleg
  /\ \/ prv' = "M" /\ ~mstatus'.mie
     \/ prv # "M" /\ prv' = "S" /\ ~mstatus'.sie

\* An instruction that stays in the inner loop is one or the other.
Stays ==
  /\ mcycle' \in Nat /\ mcycle' > mcycle /\ tick_end' = tick_end
  /\ mcycle_end' = mcycle_end /\ unreproducible' = unreproducible
  /\ ~unreproducible => mcycle' = mcycle + 1
  /\ phase' = "host" => reason' # "reached_target_mcycle"
  /\ phase' # "host" => iflags' = iflags
  /\ phase' = "inner" => Quiet \/ Trapped

LEMMA StaysContinue ==
  ASSUME LoopTypeOK, NEW c \in Nat, mcycle <= c, ~unreproducible => c = mcycle, phase # "host",
         Continue(c), Quiet \/ Trapped
  PROVE  Stays
BY DEF LoopTypeOK, Continue, Stays

LEMMA StaysServe ==
  ASSUME LoopTypeOK, NEW c \in Nat, mcycle <= c, ~unreproducible => c = mcycle,
         ServeInterrupts(c)
  PROVE  Stays
BY DEF LoopTypeOK, ServeInterrupts, Stays

LEMMA StaysServesIf ==
  ASSUME LoopTypeOK, phase # "host", NEW x \in BOOLEAN, ServesIf(x), x \/ Quiet PROVE Stays
<1>1. mcycle \in Nat /\ mcycle <= mcycle
  BY DEF LoopTypeOK
<1> QED
  BY <1>1, StaysContinue, StaysServe DEF ServesIf

LEMMA StaysReturn ==
  ASSUME LoopTypeOK, NEW c \in Nat, mcycle <= c, ~unreproducible => c = mcycle,
         NEW flags \in SUBSET {"H", "X", "Y"}, NEW status, status # "reached_target_mcycle",
         ReturnToHost(c, flags, status)
  PROVE  Stays
<1>1. \/ "H" \in flags
      \/ "H" \notin flags /\ "Y" \in flags
      \/ flags = {"X"}
      \/ flags = {}
  OBVIOUS
<1> QED
  BY <1>1 DEF LoopTypeOK, ReturnToHost, Stays

\* A device with nothing to report leaves mip alone.
LEMMA SilentDevice ==
  ASSUME NEW d \in Devices, NEW bits, SetIrq(mip, {d}, bits), int_status'[d] = {}
  PROVE  mip' = mip
BY DEF SetIrq

LEMMA AckQuiet ==
  ASSUME NEW d \in Devices, NEW bits, ResetIrq(d, bits), int_status'[d] = {}
  PROVE  mip' \subseteq mip
BY DEF ResetIrq, Lowered

LEMMA Instructions ==
  ASSUME TypeOK, Instruction
  PROVE  TypeOK' /\ Executing /\ Stays
<1>1. LoopTypeOK /\ CpuTypeOK /\ PlicTypeOK /\ mcycle \in Nat /\ mcycle <= mcycle
  BY TypeParts DEF LoopTypeOK
<1>2. Executing /\ phase # "host"
  BY DEF Instruction, Plain, Exception, WriteMstatus, WriteMie, WriteMip, WriteMideleg, Sret, Mret, Wfi,
         WriteMsip, WriteMtimecmp, ReadClaim, WriteComplete, NotifyDevice, AckDevice, WriteTohost,
         Executing
<1>2a. mip \in SUBSET Irqs /\ prv \in Modes /\ mstatus \in Mstatus /\ mideleg \in SUBSET Irqs
  BY <1>1 DEF PlicTypeOK, CpuTypeOK, Supervisor, Irqs
<1> DEFINE Goal == LoopTypeOK' /\ CpuTypeOK' /\ PlicTypeOK' /\ Executing /\ Stays
<1> SUFFICES Goal
  BY TypeParts DEF TypeOK, LoopTypeOK, CpuTypeOK
<1> USE InterpreterAssumption
<1>3. CASE Plain
  <2>1. Quiet
    BY <1>3 DEF Plain, csrVars, Quiet
  <2> QED
    BY <1>1, <1>2, <1>3, <2>1, ContinueType, StaysContinue
    DEF Plain, csrVars, plicVars, CpuTypeOK, PlicTypeOK
<1>4. ASSUME NEW deleg \in BOOLEAN, Exception(deleg) PROVE Goal
  <2>1. Trapped
    BY <1>2a, <1>4 DEF Exception, RaiseException, Trapped, Mstatus
  <2>2. prv' \in Modes /\ mstatus' \in Mstatus
    BY <1>2a, <1>4, RaiseType DEF Exception
  <2> QED
    BY <1>1, <1>2, <1>4, <2>1, <2>2, ContinueType, StaysContinue
    DEF Exception, plicVars, CpuTypeOK, PlicTypeOK
<1>5. ASSUME NEW v \in MstatusValues, WriteMstatus(v) PROVE Goal
  <2> DEFINE x == mstatus'.mie # mstatus.mie \/ mstatus'.sie # mstatus.sie
  <2>1. ServesIf(x) /\ (x \/ Quiet)
    BY <1>5 DEF WriteMstatus, Quiet
  <2>2. v \in Mstatus
    OBVIOUS
  <2>3. mstatus' \in Mstatus
    BY <1>2a, <1>5, <2>2 DEF WriteMstatus, Mstatus
  <2>4. Stays /\ LoopTypeOK'
    BY <1>1, <1>2, <2>1, StaysServesIf, ServesIfType
  <2> QED
    BY <1>1, <1>2, <1>5, <2>3, <2>4 DEF WriteMstatus, plicVars, CpuTypeOK, PlicTypeOK
<1>6. ASSUME NEW v \in MieValues, WriteMie(v) PROVE Goal
  <2>1. mie' \in SUBSET Irqs
    BY <1>1, <1>2, <1>2a, <1>6 DEF WriteMie, CpuTypeOK
  <2>2. Stays /\ LoopTypeOK'
    BY <1>1, <1>2, <1>6, StaysServesIf, ServesIfType DEF WriteMie
  <2> QED
    BY <1>1, <1>2, <1>6, <2>1, <2>2 DEF WriteMie, plicVars, CpuTypeOK, PlicTypeOK
<1>7. ASSUME NEW v \in MipValues, WriteMip(v) PROVE Goal
  <2>1. mip' \in SUBSET Irqs
    BY <1>2a, <1>7 DEF WriteMip
  <2>2. Stays /\ LoopTypeOK'
    BY <1>1, <1>2, <1>7, StaysServesIf, ServesIfType DEF WriteMip
  <2> QED
    BY <1>1, <1>2, <1>7, <2>1, <2>2 DEF WriteMip, csrVars, plicVars, CpuTypeOK, PlicTypeOK
<1>8. ASSUME NEW v \in MidelegValues, WriteMideleg(v) PROVE Goal
  <2>1. Stays /\ LoopTypeOK'
    BY <1>1, <1>2, <1>8, StaysServesIf, ServesIfType DEF WriteMideleg
  <2> QED
    BY <1>1, <1>2, <1>8, <2>1 DEF WriteMideleg, plicVars, CpuTypeOK, PlicTypeOK
<1>9. CASE Sret
  <2>1. Stays /\ LoopTypeOK'
    BY <1>1, <1>2, <1>9, StaysServesIf, ServesIfType DEF Sret
  <2>2. prv' \in Modes /\ mstatus' \in Mstatus
    BY <1>2a, <1>9 DEF Sret, Mstatus, Modes
  <2> QED
    BY <1>1, <1>2, <1>9, <2>1, <2>2 DEF Sret, plicVars, CpuTypeOK, PlicTypeOK
<1>10. CASE Mret
  <2>1. Stays /\ LoopTypeOK'
    BY <1>1, <1>2, <1>10, StaysServesIf, ServesIfType DEF Mret
  <2>2. prv' \in Modes /\ mstatus' \in Mstatus
    BY <1>2a, <1>10 DEF Mret, Mstatus, Modes
  <2> QED
    BY <1>1, <1>2, <1>10, <2>1, <2>2 DEF Mret, plicVars, CpuTypeOK, PlicTypeOK
<1>11. ASSUME NEW c \in mcycle..MaxCycle, NEW D \in SUBSET Devices, NEW bits \in SomeBits,
              NEW refill \in BOOLEAN, Wfi(c, D, bits, refill)
       PROVE  Goal
  <2>1. c \in Nat /\ mcycle <= c /\ (~unreproducible => c = mcycle)
    BY <1>1, <1>11 DEF Wfi
  <2>2. PlicTypeOK'
    BY <1>1, <1>2, <1>2a, <1>11, SetIrqType DEF Wfi, SomeBits
  <2>3. CASE D = {}
    <3>1. Continue(c) /\ mip' = mip
      BY <1>11, <2>3 DEF Wfi, SetIrq
    <3>2. Quiet
      BY <1>11, <3>1 DEF Wfi, csrVars, Quiet
    <3> QED
      BY <1>1, <1>2, <1>11, <2>1, <2>2, <3>1, <3>2, ContinueType, StaysContinue DEF Wfi, csrVars, CpuTypeOK
  <2>4. CASE D # {} /\ refill
    <3>1. ReturnToHost(c, iflags, "console_input") /\ iflags \in SUBSET {"H", "X", "Y"}
      BY <1>1, <1>2, <1>11, <2>4 DEF Wfi, LoopTypeOK
    <3> QED
      BY <1>1, <1>2, <1>11, <2>1, <2>2, <3>1, ReturnType, StaysReturn DEF Wfi, csrVars, CpuTypeOK
  <2>5. CASE D # {} /\ ~refill
    <3>1. ServeInterrupts(c)
      BY <1>11, <2>5 DEF Wfi
    <3> QED
      BY <1>1, <1>2, <1>11, <2>1, <2>2, <3>1, ServeType, StaysServe DEF Wfi, csrVars, CpuTypeOK
  <2> QED
    BY <2>3, <2>4, <2>5
<1>12. ASSUME NEW set \in BOOLEAN, WriteMsip(set) PROVE Goal
  <2>1. ServesIf(set) /\ (set \/ Quiet)
    BY <1>12 DEF WriteMsip, Quiet, csrVars
  <2>2. Stays /\ LoopTypeOK'
    BY <1>1, <1>2, <2>1, StaysServesIf, ServesIfType
  <2>3. mip' \in SUBSET Irqs
    BY <1>2a, <1>12 DEF WriteMsip, Irqs
  <2> QED
    BY <1>1, <1>2, <1>12, <2>2, <2>3 DEF WriteMsip, csrVars, plicVars, CpuTypeOK, PlicTypeOK
<1>13. ASSUME NEW v \in TimeCmpValues, WriteMtimecmp(v) PROVE Goal
  <2>1. Continue(mcycle) /\ Quiet
    BY <1>13 DEF WriteMtimecmp, Quiet
  <2> QED
    BY <1>1, <1>2, <1>2a, <1>13, <2>1, ContinueType, StaysContinue
    DEF WriteMtimecmp, plicVars, CpuTypeOK, PlicTypeOK
<1>14. CASE ReadClaim
  <2>1. mip' \subseteq mip
    BY <1>14 DEF ReadClaim, Claim, Lowered
  <2>2. Continue(mcycle) /\ Quiet
    BY <1>14, <2>1 DEF ReadClaim, Quiet, csrVars
  <2> QED
    BY <1>1, <1>2, <1>14, <2>2, ClaimType, ContinueType, StaysContinue DEF ReadClaim, csrVars, CpuTypeOK
<1>15. ASSUME NEW d \in Devices, WriteComplete(d) PROVE Goal
  <2> DEFINE x == girqpend \ girqsrvd' # {}
  <2>1. ServesIf(x) /\ (x \/ Quiet)
    BY <1>15 DEF WriteComplete, Complete, Raised, Lowered, Quiet, csrVars
  <2>2. Stays /\ LoopTypeOK'
    BY <1>1, <1>2, <2>1, StaysServesIf, ServesIfType
  <2> QED
    BY <1>1, <1>2, <1>15, <2>2, CompleteType DEF WriteComplete, csrVars, CpuTypeOK
<1>16. ASSUME NEW d \in Devices, NEW bits \in SUBSET IntBits, NEW flush \in BOOLEAN,
              NotifyDevice(d, bits, flush)
       PROVE  Goal
  <2>1. PlicTypeOK'
    BY <1>1, <1>2, <1>2a, <1>16, SetIrqType DEF NotifyDevice
  <2>2. CASE flush
    <3>1. ReturnToHost(mcycle, iflags, "console_output") /\ iflags \in SUBSET {"H", "X", "Y"}
      BY <1>1, <1>2, <1>16, <2>2 DEF NotifyDevice, LoopTypeOK
    <3> QED
      BY <1>1, <1>2, <1>16, <2>1, <3>1, ReturnType, StaysReturn DEF NotifyDevice, csrVars, CpuTypeOK
  <2>3. CASE ~flush
    <3> DEFINE x == int_status'[d] # {}
    <3>1. ServesIf(x) /\ (x \/ Quiet)
      BY <1>16, <2>3, SilentDevice DEF NotifyDevice, Quiet, csrVars
    <3>2. Stays /\ LoopTypeOK'
      BY <1>1, <1>2, <3>1, StaysServesIf, ServesIfType
    <3> QED
      BY <1>1, <1>2, <1>16, <2>1, <3>2 DEF NotifyDevice, csrVars, CpuTypeOK
  <2> QED
    BY <2>2, <2>3
<1>17. ASSUME NEW d \in Devices, NEW bits \in SUBSET IntBits, AckDevice(d, bits)
       PROVE  Goal
  <2> DEFINE x == int_status'[d] # {}
  <2>1. ServesIf(x) /\ (x \/ Quiet)
    BY <1>17, AckQuiet DEF AckDevice, Quiet, csrVars
  <2>2. Stays /\ LoopTypeOK'
    BY <1>1, <1>2, <2>1, StaysServesIf, ServesIfType
  <2> QED
    BY <1>1, <1>2, <1>17, <2>2, ResetIrqType DEF AckDevice, csrVars, CpuTypeOK
<1>18. ASSUME NEW f \in SUBSET {"H", "X", "Y"}, NEW status, status # "reached_target_mcycle",
              WriteTohost(f, status)
       PROVE  Goal
  <2>1. iflags \union f \in SUBSET {"H", "X", "Y"}
    BY <1>1 DEF LoopTypeOK
  <2> QED
    BY <1>1, <1>2, <1>18, <2>1, ReturnType, StaysReturn
    DEF WriteTohost, csrVars, plicVars, CpuTypeOK, PlicTypeOK
<1> QED
  BY <1>3, <1>4, <1>5, <1>6, <1>7, <1>8, <1>9, <1>10, <1>11, <1>12, <1>13, <1>14, <1>15,
     <1>16, <1>17, <1>18
  DEF Instruction

-----------------------------------------------------------------------------
\* The loops.

\* What the inner loop may rely on: its span ends by the next tick, the timer was
\* looked at if it began at one, and nothing is pending that it should serve.
\* AssertNoBrk alone is not preserved: that an exception to S-mode leaves nothing
\* pending needs that nothing for M-mode was pending before it.
SpanEndsByTick == Executing => tick_end <= NextTick(mcycle)
TimerSet == Executing /\ rtc_is_tick(mcycle) /\ Expired => "MTIP" \in mip
NothingPending == phase = "inner" /\ LowDelegated => Pending(mip) = {}
FlagsClear == phase # "host" => iflags = {}

IInv == /\ TypeOK /\ SpanEndsByTick /\ TimerSet
        /\ NothingPending /\ AssertNoBrk /\ FlagsClear

LEMMA PriorityOrder ==
  ASSUME NEW S \in SUBSET Irqs, S # {}
  PROVE  \E i \in 1..6 : /\ HighestPriority(S) = Priority[i] /\ Priority[i] \in S
                        /\ \A j \in 1..(i-1) : Priority[j] \notin S
<1>1. \E i \in 1..6 : Priority[i] \in S /\ \A j \in 1..(i-1) : Priority[j] \notin S
  <2>1. /\ Priority[1] = "MEIP" /\ Priority[2] = "MSIP" /\ Priority[3] = "MTIP"
        /\ Priority[4] = "SEIP" /\ Priority[5] = "SSIP" /\ Priority[6] = "STIP"
    BY DEF Priority
  <2>2. CASE Priority[1] \in S
    BY <2>2
  <2>3. CASE Priority[1] \notin S /\ Priority[2] \in S
    BY <2>3
  <2>4. CASE Priority[1] \notin S /\ Priority[2] \notin S /\ Priority[3] \in S
    BY <2>4
  <2>5. CASE /\ Priority[1] \notin S /\ Priority[2] \notin S /\ Priority[3] \notin S
             /\ Priority[4] \in S
    BY <2>5
  <2>6. CASE /\ Priority[1] \notin S /\ Priority[2] \notin S /\ Priority[3] \notin S
             /\ Priority[4] \notin S /\ Priority[5] \in S
    BY <2>6
  <2>7. CASE /\ Priority[1] \notin S /\ Priority[2] \notin S /\ Priority[3] \notin S
             /\ Priority[4] \notin S /\ Priority[5] \notin S
    <3>1. Priority[6] \in S
      BY <2>1, <2>7 DEF Irqs
    <3> QED
      BY <2>7, <3>1
  <2> QED
    BY <2>2, <2>3, <2>4, <2>5, <2>6, <2>7
<1> QED
  BY <1>1 DEF HighestPriority

\* What is pending for another mode after an interrupt is raised to S-mode comes
\* later in Priority, and so is delegated too if the lowest are.
LEMMA OneLevelAtATime ==
  ASSUME NEW S \in SUBSET Irqs, mideleg \in SUBSET Supervisor, LowDelegated,
         HighestPriority(S) \in mideleg, S # {}
  PROVE  S \subseteq mideleg
<1>1. PICK i \in 1..6 : /\ HighestPriority(S) = Priority[i] /\ Priority[i] \in S
                        /\ \A j \in 1..(i-1) : Priority[j] \notin S
  BY PriorityOrder
<1>2. /\ Priority[1] = "MEIP" /\ Priority[2] = "MSIP" /\ Priority[3] = "MTIP"
      /\ Priority[4] = "SEIP" /\ Priority[5] = "SSIP" /\ Priority[6] = "STIP"
  BY DEF Priority
<1>3. i \in 4..6
  <2>1. Priority[i] \in Supervisor
    BY <1>1
  <2> QED
    BY <1>2, <2>1 DEF Supervisor
<1>4. ASSUME NEW x \in S PROVE x \in mideleg
  <2>1. PICK j \in 1..6 : x = Priority[j]
    BY <1>2 DEF Irqs
  <2>2. j >= i
    BY <1>1, <2>1
  <2>3. CASE j = i
    BY <1>1, <2>1, <2>3
  <2>4. CASE j > i
    <3>1. j \in 5..6
      BY <1>3, <2>4
    <3>2. Priority[j] \in Supervisor
      BY <1>2, <3>1 DEF Supervisor
    <3> QED
      BY <1>1, <2>1, <2>4, <3>2 DEF LowDelegated
  <2> QED
    BY <2>2, <2>3, <2>4
<1> QED
  BY <1>4

LEMMA OuterLoopStep ==
  ASSUME TypeOK, FlagsClear, NEW D \in SUBSET Devices, NEW bits \in SomeBits, OuterLoop(D, bits)
  PROVE  IInv'
<1>1. LoopTypeOK /\ CpuTypeOK /\ PlicTypeOK /\ mcycle \in Nat /\ mcycle_end \in 0..MaxCycle
  BY TypeParts DEF LoopTypeOK
<1> DEFINE ticked == IF rtc_is_tick(mcycle) /\ Expired THEN mip \union {"MTIP"} ELSE mip
<1>2. ticked \in SUBSET Irqs /\ SetIrq(ticked, D, bits) /\ bits \in SUBSET IntBits
  BY <1>1 DEF OuterLoop, PlicTypeOK, Irqs, SomeBits
<1>3. PlicTypeOK' /\ ticked \subseteq mip'
  <2>1. PlicTypeOK'
    BY <1>1, <1>2, SetIrqType
  <2>2. ticked \subseteq mip'
    BY <1>2 DEF SetIrq, Raised
  <2> QED
    BY <2>1, <2>2
<1>4. NextTick(mcycle) \in Nat /\ mcycle < NextTick(mcycle)
  BY <1>1, NextTickType
<1>5. LoopTypeOK' /\ SpanEndsByTick' /\ FlagsClear'
  <2>1. mcycle' = mcycle /\ tick_end' \in 0..MaxCycle /\ tick_end' <= NextTick(mcycle)
    BY <1>1, <1>4, InterpreterAssumption DEF OuterLoop, TickEnd, Lesser
  <2>2. NextTick(mcycle)' = NextTick(mcycle)
    BY <2>1 DEF NextTick
  <2> QED
    BY <1>1, <2>1, <2>2 DEF OuterLoop, LoopTypeOK, SpanEndsByTick, FlagsClear
<1>6. TimerSet'
  <2>1. rtc_is_tick(mcycle)' = rtc_is_tick(mcycle) /\ Expired' = Expired
    BY DEF OuterLoop, rtc_is_tick, Expired, rtc_time_to_cycle
  <2> QED
    BY <1>3, <2>1 DEF TimerSet
<1>7. CpuTypeOK' /\ NothingPending' /\ AssertNoBrk'
  <2> DEFINE P == mip' \intersect mie \intersect EnabledIn(prv, mstatus, mideleg)
  <2>1. /\ prv \in Modes /\ mstatus \in Mstatus /\ mideleg \in SUBSET Supervisor
        /\ mip' \in SUBSET Irqs /\ mie' = mie /\ mideleg' = mideleg /\ mtimecmp' = mtimecmp
    BY <1>1, <1>3 DEF OuterLoop, CpuTypeOK, PlicTypeOK
  <2>2. iflags' = {} /\ P \in SUBSET Irqs
    BY <1>5, <2>1 DEF OuterLoop, FlagsClear
  <2>3. CASE P = {}
    <3>1. prv' = prv /\ mstatus' = mstatus
      BY <2>3 DEF OuterLoop, RaiseInterruptIfAny, Pending
    <3>2. Pending(mip)' = {}
      BY <2>1, <2>3, <3>1 DEF Pending
    <3> QED
      BY <1>1, <2>1, <2>2, <3>1, <3>2 DEF CpuTypeOK, NothingPending, AssertNoBrk
  <2>4. CASE P # {}
    <3> DEFINE deleg == prv # "M" /\ HighestPriority(P) \in mideleg
    <3>1. RaiseException(deleg)
      BY <2>4 DEF OuterLoop, RaiseInterruptIfAny, Pending
    <3>2. prv' \in Modes /\ mstatus' \in Mstatus
      BY <2>1, <3>1, RaiseType
    <3>3. CASE deleg
      <4>1. prv' = "S" /\ mstatus'.sie = FALSE
        BY <2>1, <3>1, <3>3 DEF RaiseException, Mstatus
      <4>2. Pending(mip)' = (mip' \intersect mie) \intersect (Irqs \ mideleg)
        BY <2>1, <4>1 DEF Pending, EnabledIn
      <4>3. LowDelegated' = LowDelegated
        BY <2>1 DEF LowDelegated
      <4>4. LowDelegated => P \subseteq mideleg
        BY <2>1, <2>2, <2>4, <3>3, OneLevelAtATime
      <4>5. (mip' \intersect mie) \intersect (Irqs \ mideleg) \subseteq P
        BY <2>1, <3>3 DEF EnabledIn, Modes
      <4>6. NothingPending'
        BY <4>2, <4>3, <4>4, <4>5 DEF NothingPending
      <4>7. AssertNoBrk'
        BY <2>1, <2>2, <4>1, <4>2 DEF AssertNoBrk
      <4> QED
        BY <1>1, <2>1, <3>2, <4>6, <4>7 DEF CpuTypeOK
    <3>4. CASE ~deleg
      <4>1. prv' = "M" /\ mstatus'.mie = FALSE
        BY <2>1, <3>1, <3>4 DEF RaiseException, Mstatus
      <4>2. Pending(mip)' = {}
        BY <4>1 DEF Pending, EnabledIn
      <4> QED
        BY <1>1, <2>1, <2>2, <3>2, <4>2 DEF CpuTypeOK, NothingPending, AssertNoBrk
    <3> QED
      BY <3>3, <3>4
  <2> QED
    BY <2>3, <2>4
<1>8. TypeOK'
  BY <1>3, <1>5, <1>7 DEF TypeOK, LoopTypeOK, CpuTypeOK
<1> QED
  BY <1>5, <1>6, <1>7, <1>8 DEF IInv

\* An instruction that stays in the inner loop leaves nothing to serve.
LEMMA InstructionStep == ASSUME IInv, Instruction PROVE IInv'
<1>1. TypeOK /\ TypeOK' /\ Executing /\ Stays
  BY Instructions DEF IInv
<1>2. mcycle \in Nat /\ tick_end \in Nat /\ iflags = {} /\ phase = "inner"
  BY <1>1, InterpreterAssumption DEF TypeOK, IInv, FlagsClear, Executing
<1>3. phase' \in {"host", "outer", "inner"}
  BY <1>1 DEF TypeOK
<1>4. FlagsClear'
  BY <1>1, <1>2 DEF Stays, FlagsClear
<1>5. CASE phase' # "inner"
  BY <1>1, <1>4, <1>5 DEF IInv, SpanEndsByTick, TimerSet, Executing, NothingPending, AssertNoBrk
<1>6. CASE phase' = "inner"
  <2>1. mcycle' \in Nat /\ mcycle < mcycle' /\ tick_end' = tick_end /\ iflags' = {}
    BY <1>1, <1>2, <1>6 DEF Stays
  <2>2. SpanEndsByTick' /\ TimerSet'
    <3>1. CASE mcycle' < tick_end
      <4>1. mcycle' < NextTick(mcycle)
        <5>1. tick_end <= NextTick(mcycle) /\ NextTick(mcycle) \in Nat
          BY <1>1, <1>2, NextTickType DEF IInv, SpanEndsByTick
        <5> QED
          BY <1>2, <2>1, <3>1, <5>1
      <4>2. ~rtc_is_tick(mcycle') /\ NextTick(mcycle') = NextTick(mcycle)
        BY <1>2, <2>1, <4>1, NoTickBetween
      <4>3. ~rtc_is_tick(mcycle)' /\ NextTick(mcycle)' = NextTick(mcycle)
        BY <4>2 DEF rtc_is_tick, NextTick
      <4> QED
        BY <1>1, <2>1, <4>3 DEF IInv, SpanEndsByTick, TimerSet
    <3>2. CASE ~(mcycle' < tick_end)
      BY <2>1, <3>2 DEF SpanEndsByTick, TimerSet, Executing
    <3> QED
      BY <3>1, <3>2
  <2>3. /\ prv \in Modes /\ mip \in SUBSET Irqs /\ mideleg \in SUBSET Irqs
        /\ prv' \in Modes /\ mip' \in SUBSET Irqs
    BY <1>1 DEF TypeOK, PlicTypeOK, Supervisor, Irqs
  <2>4. CASE Quiet
    <3>1. EnabledIn(prv, mstatus, mideleg)' = EnabledIn(prv, mstatus, mideleg)
      BY <2>3, <2>4 DEF Quiet, EnabledIn, Modes
    <3>2. Pending(mip)' \subseteq Pending(mip) /\ LowDelegated' = LowDelegated
      BY <2>4, <3>1 DEF Quiet, Pending, LowDelegated
    <3> QED
      BY <1>1, <1>2, <1>4, <2>1, <2>2, <2>4, <3>2 DEF IInv, NothingPending, AssertNoBrk, Quiet
  <2>5. CASE Trapped /\ prv' = "M" /\ ~mstatus'.mie
    <3>1. Pending(mip)' = {}
      BY <2>5 DEF Pending, EnabledIn
    <3> QED
      BY <1>1, <1>4, <2>1, <2>2, <3>1 DEF IInv, NothingPending, AssertNoBrk
  <2>6. CASE Trapped /\ prv # "M" /\ prv' = "S" /\ ~mstatus'.sie
    <3>1. Pending(mip)' = (mip \intersect mie) \intersect (Irqs \ mideleg)
      BY <2>6 DEF Trapped, Pending, EnabledIn
    <3>2. (mip \intersect mie) \intersect (Irqs \ mideleg) \subseteq Pending(mip)
      BY <2>3, <2>6 DEF Pending, EnabledIn, Modes
    <3>3. LowDelegated' = LowDelegated /\ mideleg' = mideleg
      BY <2>6 DEF Trapped, LowDelegated
    <3>4. NothingPending'
      BY <1>2, <3>1, <3>2, <3>3 DEF IInv, NothingPending
    <3>5. AssertNoBrk'
      BY <2>1, <2>6, <3>1, <3>3 DEF AssertNoBrk
    <3> QED
      BY <1>1, <1>4, <2>2, <3>4, <3>5 DEF IInv
  <2> QED
    BY <1>1, <1>6, <2>4, <2>5, <2>6 DEF Stays, Trapped
<1> QED
  BY <1>5, <1>6

\* Outside the inner loop only the types and the flags are left.
LEMMA OutsideInner ==
  ASSUME TypeOK, FlagsClear, phase # "inner" PROVE IInv
BY DEF IInv, SpanEndsByTick, TimerSet, Executing, NothingPending, AssertNoBrk

LEMMA OtherSteps == ASSUME IInv, InnerEnd \/ LoopEnd \/ Host PROVE IInv'
<1>1. LoopTypeOK /\ CpuTypeOK /\ PlicTypeOK /\ FlagsClear
  BY TypeParts DEF IInv
<1> DEFINE Goal == TypeOK' /\ FlagsClear' /\ phase' # "inner"
<1> SUFFICES Goal
  BY DEF IInv, TypeOK, SpanEndsByTick, TimerSet, Executing, NothingPending, AssertNoBrk, FlagsClear
<1>2. CASE InnerEnd
  BY <1>1, <1>2 DEF InnerEnd, csrVars, plicVars, FlagsClear, TypeOK, LoopTypeOK, CpuTypeOK, PlicTypeOK
<1>3. CASE LoopEnd
  BY <1>1, <1>3 DEF LoopEnd, csrVars, plicVars, FlagsClear, TypeOK, LoopTypeOK, CpuTypeOK, PlicTypeOK
<1>4. ASSUME NEW end \in 0..MaxCycle, Interpret(end) PROVE Goal
  <2>1. CpuTypeOK' /\ PlicTypeOK'
    BY <1>1, <1>4 DEF Interpret, csrVars, plicVars, CpuTypeOK, PlicTypeOK
  <2>2. phase = "host" /\ mcycle' = mcycle /\ mcycle_end' = end /\ tick_end' = tick_end
        /\ unreproducible' = unreproducible
    BY <1>4 DEF Interpret
  <2>3. \/ phase' = "host" /\ iflags' = iflags
        \/ phase' = "outer" /\ iflags' = {}
    <3>1. \/ "H" \in iflags
          \/ "H" \notin iflags /\ "Y" \in iflags
          \/ iflags \intersect {"H", "Y"} = {} /\ mcycle = end
          \/ iflags \intersect {"H", "Y"} = {} /\ mcycle < end
      BY <1>1, <1>4 DEF Interpret, LoopTypeOK
    <3> QED
      BY <1>4, <2>2, <3>1 DEF Interpret
  <2>4. LoopTypeOK' /\ FlagsClear' /\ phase' # "inner"
    BY <1>1, <2>2, <2>3 DEF LoopTypeOK, FlagsClear
  <2> QED
    BY <2>1, <2>4 DEF TypeOK, LoopTypeOK, CpuTypeOK
<1>5. ASSUME NEW d \in Devices, NEW bits \in SomeBits, HostEvent(d, bits) PROVE Goal
  <2>1. mip \in SUBSET Irqs /\ bits \in SUBSET IntBits
    BY <1>1 DEF PlicTypeOK, SomeBits
  <2>2. PlicTypeOK'
    BY <1>1, <1>5, <2>1, SetIrqType DEF HostEvent
  <2>3. phase = "host" /\ phase' = "host" /\ LoopTypeOK' /\ CpuTypeOK'
    BY <1>1, <1>5 DEF HostEvent, loopVars, csrVars, LoopTypeOK, CpuTypeOK
  <2> QED
    BY <2>2, <2>3 DEF TypeOK, LoopTypeOK, CpuTypeOK, FlagsClear
<1>6. CASE HostResume
  BY <1>1, <1>6 DEF HostResume, csrVars, plicVars, FlagsClear, TypeOK, LoopTypeOK, CpuTypeOK, PlicTypeOK
<1> QED
  BY <1>2, <1>3, <1>4, <1>5, <1>6 DEF Host

LEMMA Initially == ASSUME Init PROVE IInv
<1>1. TypeOK
  BY InterpreterAssumption DEF Init, PlicInit, TypeOK, PlicTypeOK
<1> QED
  BY <1>1, OutsideInner DEF Init, FlagsClear

LEMMA Inductive == ASSUME IInv, [Next]_vars PROVE IInv'
<1>1. CASE UNCHANGED vars
  BY <1>1
  DEF vars, loopVars, csrVars, plicVars, IInv, TypeOK, PlicTypeOK, SpanEndsByTick, TimerSet,
      NothingPending, AssertNoBrk, FlagsClear, Executing, Expired, rtc_is_tick, rtc_time_to_cycle,
      NextTick, Pending, EnabledIn, LowDelegated
<1>2. ASSUME NEW D \in SUBSET Devices, NEW bits \in SomeBits, OuterLoop(D, bits) PROVE IInv'
  BY <1>2, OuterLoopStep DEF IInv
<1> QED
  BY <1>1, <1>2, InstructionStep, OtherSteps DEF Next, Loop

LEMMA Invariance == Spec => []IInv
<1>1. Init => IInv
  BY Initially
<1>2. IInv /\ [Next]_vars => IInv'
  BY Inductive
<1> QED
  BY <1>1, <1>2, PTL DEF Spec

(* Every register keeps its type, and the bits of mip, mideleg and         *)
(* girqsrvd stay those that exist, whatever the guest writes.              *)
THEOREM TypeCorrect == Spec => []TypeOK
<1>1. IInv => TypeOK
  BY DEF IInv
<1> QED
  BY <1>1, Invariance, PTL

(* assert_no_brk, compiled out of release builds, holds for every guest:   *)
(* in the inner loop no interrupt of the current mode is pending and no    *)
(* flag that stops the machine is set.                                     *)
THEOREM NoBreakPending == Spec => []AssertNoBrk
<1>1. IInv => AssertNoBrk
  BY DEF IInv
<1> QED
  BY <1>1, Invariance, PTL

(* Cutting a run at any instruction of the inner loop and calling          *)
(* interpret() again sets no interrupt and raises none, for every guest    *)
(* that delegates the interrupts of lowest priority only: the              *)
(* microarchitecture, which cuts every cycle, agrees with the interpreter. *)
THEOREM RunsSplit == Spec => []RunsCanBeCut
<1>1. IInv => RunsCanBeCut
  BY DEF IInv, RunsCanBeCut, NothingToServe, Executing, TimerSet, NothingPending, FlagsClear
<1> QED
  BY <1>1, Invariance, PTL

-----------------------------------------------------------------------------
\* External interrupts.

LEMMA SetIrqReaches ==
  ASSUME PlicTypeOK, LinesReachTheHart, NEW m, "MEIP" \in m <=> "MEIP" \in mip,
         NEW D \in SUBSET Devices, NEW bits \in SUBSET IntBits, SetIrq(m, D, bits)
  PROVE  LinesReachTheHart'
<1>1. /\ int_status' = [d \in Devices |-> int_status[d] \union IF d \in D THEN bits ELSE {}]
      /\ girqpend' = girqpend \union {d \in D : int_status'[d] # {}} /\ girqsrvd' = girqsrvd
  BY DEF SetIrq
<1>2. \A d \in Devices : d \in girqpend' <=> int_status'[d] # {}
  BY <1>1 DEF LinesReachTheHart
<1>3. CASE \A d \in D : int_status'[d] = {}
  <2>1. mip' = m /\ girqpend' = girqpend
    BY <1>1, <1>3 DEF SetIrq
  <2> QED
    BY <1>1, <1>2, <2>1 DEF LinesReachTheHart
<1>4. CASE ~(\A d \in D : int_status'[d] = {})
  <2>1. mip' = Raised(m, girqpend', girqsrvd)
    BY <1>4 DEF SetIrq
  <2>2. girqpend \subseteq girqpend'
    BY <1>1
  <2> QED
    BY <1>1, <1>2, <2>1, <2>2 DEF LinesReachTheHart, Raised, External
<1> QED
  BY <1>3, <1>4

LEMMA ResetIrqReaches ==
  ASSUME PlicTypeOK, LinesReachTheHart, NEW d \in Devices, NEW bits \in SUBSET IntBits,
         ResetIrq(d, bits)
  PROVE  LinesReachTheHart'
<1>1. int_status' = [int_status EXCEPT ![d] = @ \ bits] /\ girqsrvd' = girqsrvd
  BY DEF ResetIrq
<1>2. \A e \in Devices \ {d} : int_status'[e] = int_status[e]
  BY <1>1 DEF PlicTypeOK
<1>3. CASE int_status'[d] = {}
  <2>1. girqpend' = girqpend \ {d} /\ mip' = Lowered(mip, girqpend', girqsrvd)
    BY <1>3 DEF ResetIrq
  <2> QED
    BY <1>1, <1>2, <1>3, <2>1 DEF LinesReachTheHart, Lowered, External
<1>4. CASE int_status'[d] # {}
  <2>1. girqpend' = girqpend \union {d} /\ mip' = Raised(mip, girqpend', girqsrvd)
    BY <1>4 DEF ResetIrq
  <2> QED
    BY <1>1, <1>2, <1>4, <2>1 DEF LinesReachTheHart, Raised, External
<1> QED
  BY <1>3, <1>4

LEMMA ClaimReaches == ASSUME PlicTypeOK, LinesReachTheHart, Claim PROVE LinesReachTheHart'
BY DEF Claim, LinesReachTheHart, Lowered, External

LEMMA CompleteReaches ==
  ASSUME PlicTypeOK, LinesReachTheHart, NEW d \in Devices, Complete(d) PROVE LinesReachTheHart'
BY DEF Complete, LinesReachTheHart, Raised, Lowered, External

\* The steps that do not reach the devices leave MEIP alone.
LEMMA SameLines ==
  ASSUME LinesReachTheHart, UNCHANGED plicVars, "MEIP" \in mip' <=> "MEIP" \in mip
  PROVE  LinesReachTheHart'
BY DEF LinesReachTheHart, plicVars

LEMMA LinesStep ==
  ASSUME TypeOK, LinesReachTheHart, [Next]_vars PROVE LinesReachTheHart'
<1>1. PlicTypeOK /\ mideleg \in SUBSET Supervisor
  BY DEF TypeOK
<1>2. ASSUME NEW bits \in SomeBits PROVE bits \in SUBSET IntBits
  BY DEF SomeBits
<1>3. CASE UNCHANGED vars
  BY <1>3, SameLines DEF vars
<1>4. CASE InnerEnd \/ LoopEnd \/ HostResume \/ Plain \/ Sret \/ Mret
  BY <1>4, SameLines DEF InnerEnd, LoopEnd, HostResume, Plain, Sret, Mret
<1>5. ASSUME NEW D \in SUBSET Devices, NEW bits \in SomeBits, OuterLoop(D, bits)
      PROVE  LinesReachTheHart'
  <2> DEFINE ticked == IF rtc_is_tick(mcycle) /\ Expired THEN mip \union {"MTIP"} ELSE mip
  <2>1. SetIrq(ticked, D, bits) /\ ("MEIP" \in ticked <=> "MEIP" \in mip)
    BY <1>5 DEF OuterLoop
  <2> QED
    BY <1>1, <1>2, <2>1, SetIrqReaches
<1>6. CASE \E end \in 0..MaxCycle : Interpret(end)
  BY <1>6, SameLines DEF Interpret
<1>7. ASSUME NEW d \in Devices, NEW bits \in SomeBits, HostEvent(d, bits) PROVE LinesReachTheHart'
  BY <1>1, <1>2, <1>7, SetIrqReaches DEF HostEvent
<1>8. CASE \/ \E deleg \in BOOLEAN : Exception(deleg)
           \/ \E v \in MstatusValues : WriteMstatus(v)
           \/ \E v \in MieValues : WriteMie(v)
           \/ \E v \in MidelegValues : WriteMideleg(v)
           \/ \E f, status : WriteTohost(f, status)
  BY <1>8, SameLines DEF Exception, WriteMstatus, WriteMie, WriteMideleg, WriteTohost
<1>9. CASE \E v \in MipValues : WriteMip(v)
  <2>1. UNCHANGED plicVars /\ ("MEIP" \in mip' <=> "MEIP" \in mip)
    BY <1>1, <1>9 DEF WriteMip, Supervisor
  <2> QED
    BY <2>1, SameLines
<1>10. CASE \E set \in BOOLEAN : WriteMsip(set)
  BY <1>10, SameLines DEF WriteMsip
<1>11. CASE \E v \in TimeCmpValues : WriteMtimecmp(v)
  BY <1>11, SameLines DEF WriteMtimecmp
<1>12. ASSUME NEW c, NEW D \in SUBSET Devices, NEW bits \in SomeBits, NEW refill,
              Wfi(c, D, bits, refill)
       PROVE  LinesReachTheHart'
  BY <1>1, <1>2, <1>12, SetIrqReaches DEF Wfi
<1>13. CASE ReadClaim
  BY <1>1, <1>13, ClaimReaches DEF ReadClaim
<1>14. ASSUME NEW d \in Devices, WriteComplete(d) PROVE LinesReachTheHart'
  BY <1>1, <1>14, CompleteReaches DEF WriteComplete
<1>15. ASSUME NEW d \in Devices, NEW bits \in SUBSET IntBits, NEW flush, NotifyDevice(d, bits, flush)
       PROVE  LinesReachTheHart'
  BY <1>1, <1>15, SetIrqReaches DEF NotifyDevice
<1>16. ASSUME NEW d \in Devices, NEW bits \in SUBSET IntBits, AckDevice(d, bits)
       PROVE  LinesReachTheHart'
  BY <1>1, <1>16, ResetIrqReaches DEF AckDevice
<1>17. CASE Instruction
  BY <1>4, <1>8, <1>9, <1>10, <1>11, <1>12, <1>13, <1>14, <1>15, <1>16, <1>17 DEF Instruction
<1> QED
  BY <1>3, <1>4, <1>5, <1>6, <1>7, <1>17 DEF Next, Loop, Host

(* However the devices, the driver and the host interleave events, claims, *)
(* completions, acknowledgements and resets, a line is asserted exactly    *)
(* while its device has something to report and MEIP set exactly while an  *)
(* asserted line is not being served.                                      *)
THEOREM LinesCorrect == Spec => []LinesReachTheHart
<1>1. Init => LinesReachTheHart
  BY DEF Init, PlicInit, LinesReachTheHart
<1>2. TypeOK /\ LinesReachTheHart /\ [Next]_vars => LinesReachTheHart'
  BY LinesStep
<1> QED
  BY <1>1, <1>2, TypeCorrect, PTL DEF Spec

-----------------------------------------------------------------------------
\* Runs of a reproducible machine end where they were told to.

\* Inside a run, mcycle and the end of the inner loop are not past the target.
NotPast ==
  ~unreproducible => /\ phase # "host" => mcycle <= mcycle_end
                     /\ phase = "inner" => tick_end <= mcycle_end

LEMMA TargetStep ==
  ASSUME TypeOK, NotPast, TargetReached, [Next]_vars PROVE NotPast' /\ TargetReached'
<1>1. /\ mcycle \in Nat /\ mcycle_end \in Nat /\ tick_end \in Nat
      /\ phase \in {"host", "outer", "inner"} /\ iflags \in SUBSET {"H", "X", "Y"}
  BY InterpreterAssumption DEF TypeOK
<1>2. CASE UNCHANGED vars
  BY <1>2 DEF vars, loopVars, NotPast, TargetReached
<1>3. CASE InnerEnd
  BY <1>3 DEF InnerEnd, NotPast, TargetReached
<1>4. CASE LoopEnd
  BY <1>1, <1>4 DEF LoopEnd, NotPast, TargetReached
<1>5. ASSUME NEW D \in SUBSET Devices, NEW bits \in SomeBits, OuterLoop(D, bits)
      PROVE  NotPast' /\ TargetReached'
  <2>1. NextTick(mcycle) \in Nat
    BY <1>1, NextTickType
  <2>2. tick_end' <= mcycle_end
    BY <1>1, <1>5, <2>1 DEF OuterLoop, TickEnd, Lesser
  <2> QED
    BY <1>1, <1>5, <2>2 DEF OuterLoop, NotPast, TargetReached
<1>6. CASE Instruction
  <2>1. Executing /\ Stays
    BY <1>6, Instructions
  <2>2. TypeOK'
    BY <1>6, Instructions
  <2>3. ~unreproducible => mcycle' <= mcycle_end' /\ tick_end' <= mcycle_end'
    BY <1>1, <2>1 DEF Executing, Stays, NotPast
  <2> QED
    BY <2>1, <2>2, <2>3 DEF Stays, NotPast, TargetReached
<1>7. ASSUME NEW end \in 0..MaxCycle, Interpret(end) PROVE NotPast' /\ TargetReached'
  <2>1. phase = "host" /\ mcycle' = mcycle /\ mcycle_end' = end
    BY <1>7 DEF Interpret
  <2>2. \/ "H" \in iflags
        \/ "H" \notin iflags /\ "Y" \in iflags
        \/ iflags \intersect {"H", "Y"} = {} /\ mcycle = end
        \/ iflags \intersect {"H", "Y"} = {} /\ mcycle < end
    BY <1>1, <1>7 DEF Interpret
  <2>3. \/ phase' = "host" /\ reason' \in {"halted", "yielded_manually"}
        \/ phase' = "host" /\ mcycle = end
        \/ phase' = "outer" /\ mcycle < end
    BY <1>7, <2>1, <2>2 DEF Interpret
  <2> QED
    BY <1>1, <2>1, <2>3 DEF NotPast, TargetReached
<1>8. CASE \E d \in Devices, bits \in SomeBits : HostEvent(d, bits)
  BY <1>8 DEF HostEvent, loopVars, NotPast, TargetReached
<1>9. CASE HostResume
  BY <1>9 DEF HostResume, NotPast, TargetReached
<1> QED
  BY <1>2, <1>3, <1>4, <1>5, <1>6, <1>7, <1>8, <1>9 DEF Next, Loop, Host

(* A run of a reproducible machine that returns reached_target_mcycle is   *)
(* at its target, the assert at the end of interpret(): no span of the     *)
(* inner loop and no break of it passes the target.                        *)
THEOREM TargetsReached == Spec => []TargetReached
<1>1. Init => NotPast /\ TargetReached
  BY DEF Init, NotPast, TargetReached
<1>2. TypeOK /\ NotPast /\ TargetReached /\ [Next]_vars => (NotPast /\ TargetReached)'
  BY TargetStep
<1> QED
  BY <1>1, <1>2, TypeCorrect, PTL DEF Spec
=============================================================================
