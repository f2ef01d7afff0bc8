----------------------------- MODULE Interpreter -----------------------------
(***************************************************************************)
(* interpret(): the loops that run the guest until mcycle_end, and when    *)
(* interrupts are looked at.  The outer loop sets the timer interrupt at a *)
(* tick, polls the host and raises the pending interrupt of highest        *)
(* priority; the inner loop then runs instructions and looks at no         *)
(* interrupt until the next tick, unless an instruction that may have made *)
(* one deliverable breaks it.  The host may end a run at any cycle and     *)
(* start another, and the microarchitecture runs one cycle at a time: the  *)
(* guest must not be able to tell.                                         *)
(*                                                                         *)
(* Registers, memory, pc and the causes of traps are left out: an          *)
(* instruction is what it does to interrupts, privilege and the loops.     *)
(* The default build is modelled, not EVENT_DRIVEN_INTERPRETER_DEADLINES.  *)
(***************************************************************************)
EXTENDS Plic, Sequences

CONSTANTS RTC_FREQ_DIV,     \* cycles between ticks
          CycleModulus,     \* 2^64 in the code: where times a tick wrap around
          MaxCycle,         \* bound: no run is asked to go further
          MstatusValues,    \* what the guest writes to mstatus, mie, mip, sip,
          MieValues,        \* mideleg and mtimecmp, and what the configuration
          MipValues,        \* gives them at first
          MidelegValues,
          TimeCmpValues

Modes == {"U", "S", "M"}
Supervisor == {"SEIP", "SSIP", "STIP"}      \* MIP_S_RW_MASK
Mstatus == [mie : BOOLEAN, sie : BOOLEAN, mpie : BOOLEAN, spie : BOOLEAN,
            mpp : Modes, spp : {"U", "S"}]

ASSUME InterpreterAssumption ==
  /\ RTC_FREQ_DIV \in Nat \ {0} /\ CycleModulus \in Nat \ {0} /\ MaxCycle \in Nat
  /\ MstatusValues \subseteq Mstatus
  /\ MieValues \subseteq SUBSET Irqs /\ MipValues \subseteq SUBSET Irqs
  /\ MidelegValues \subseteq SUBSET Supervisor      \* WARL_mideleg
  /\ TimeCmpValues \subseteq Nat

VARIABLES phase,            \* "host", or in interpret(): "outer" or "inner" loop
          mcycle,
          mcycle_end,
          tick_end,         \* mcycle_tick_end
          prv, mstatus, mie, mideleg,
          mtimecmp,
          iflags,           \* which of H, X and Y are set
          reason,           \* interpreter_break_reason of the last run
          unreproducible    \* iunrep, fixed by the configuration

loopVars == <<phase, mcycle, mcycle_end, tick_end, iflags, reason>>
csrVars == <<prv, mstatus, mie, mideleg, mtimecmp>>
vars == <<loopVars, csrVars, mip, plicVars, unreproducible>>

Init ==
  /\ phase = "host" /\ mcycle = 0 /\ mcycle_end = 0 /\ tick_end = 0
  /\ iflags = {} /\ reason = "reached_target_mcycle"
  /\ prv \in Modes /\ mstatus \in MstatusValues
  /\ mie \in MieValues /\ mideleg \in MidelegValues /\ mtimecmp \in TimeCmpValues
  /\ mip = {} /\ PlicInit
  /\ unreproducible \in BOOLEAN

-----------------------------------------------------------------------------
\* Traps and interrupts.

rtc_time_to_cycle(time) == (time * RTC_FREQ_DIV) % CycleModulus

rtc_is_tick(cycle) == cycle % RTC_FREQ_DIV = 0

\* set_rtc_interrupt.
Expired == LET c == rtc_time_to_cycle(mtimecmp) IN c <= mcycle /\ c # 0

\* The switch of get_pending_irq_mask.
EnabledIn(p, st, deleg) ==
  CASE p = "M" -> IF st.mie THEN Irqs \ deleg ELSE {}
    [] p = "S" -> IF st.sie THEN Irqs ELSE Irqs \ deleg
    [] p = "U" -> Irqs

Pending(m) == m \intersect mie \intersect EnabledIn(prv, mstatus, mideleg)

Priority == <<"MEIP", "MSIP", "MTIP", "SEIP", "SSIP", "STIP">>

\* get_highest_priority_irq_num.
HighestPriority(S) ==
  Priority[CHOOSE i \in 1..6 : Priority[i] \in S /\ \A j \in 1..(i-1) : Priority[j] \notin S]

BadRaiseException(deleg) ==
  IF deleg
    THEN /\ mstatus' = [mstatus EXCEPT !.spie = mstatus.sie, !.spp = prv]
         /\ prv' = "S"
    ELSE /\ mstatus' = [mstatus EXCEPT !.mpie = mstatus.mie, !.mpp = prv, !.mie = FALSE]
         /\ prv' = "M"

\* raise_exception, from a mode that delegates (deleg) or to M-mode.
RaiseException(deleg) ==
  IF deleg
    THEN /\ mstatus' = [mstatus EXCEPT !.spie = mstatus.sie, !.spp = prv, !.sie = FALSE]
         /\ prv' = "S"
    ELSE /\ mstatus' = [mstatus EXCEPT !.mpie = mstatus.mie, !.mpp = prv, !.mie = FALSE]
         /\ prv' = "M"

\* raise_interrupt_if_any, with the interrupts pending after the tick and the poll.
RaiseInterruptIfAny(m) ==
  IF Pending(m) = {}
    THEN UNCHANGED <<prv, mstatus>>
    ELSE RaiseException(prv # "M" /\ HighestPriority(Pending(m)) \in mideleg)

-----------------------------------------------------------------------------
\* The loops.

\* interpret(), of run(), log_step() or one cycle of the microarchitecture.
Interpret(end) ==
  /\ phase = "host" /\ mcycle <= end
  /\ mcycle_end' = end
  /\ CASE "H" \in iflags -> reason' = "halted" /\ UNCHANGED <<phase, iflags>>
       [] "H" \notin iflags /\ "Y" \in iflags ->
            reason' = "yielded_manually" /\ UNCHANGED <<phase, iflags>>
       [] iflags \intersect {"H", "Y"} = {} /\ mcycle = end ->
            reason' = "reached_target_mcycle" /\ UNCHANGED <<phase, iflags>>
       [] iflags \intersect {"H", "Y"} = {} /\ mcycle < end ->
            phase' = "outer" /\ iflags' = {} /\ UNCHANGED reason
  /\ UNCHANGED <<mcycle, tick_end, csrVars, mip, plicVars, unreproducible>>

Lesser(a, b) == IF a <= b THEN a ELSE b

BadNextTick(cycle) == cycle + RTC_FREQ_DIV

\* The next cycle at which the timer must be looked at.
NextTick(cycle) == cycle + (RTC_FREQ_DIV - (cycle % RTC_FREQ_DIV))

BadTickEnd(cycle, end) == NextTick(cycle)

\* mcycle_tick_end.
TickEnd(cycle, end) == Lesser(end, NextTick(cycle))

\* One turn of the outer loop, up to the inner one.  D are the devices that a
\* poll at a tick finds with events.
OuterLoop(D, bits) ==
  /\ phase = "outer" /\ mcycle < mcycle_end
  /\ D # {} => unreproducible /\ rtc_is_tick(mcycle)
  /\ LET ticked == IF rtc_is_tick(mcycle) /\ Expired THEN mip \union {"MTIP"} ELSE mip
     IN  SetIrq(ticked, D, bits) /\ RaiseInterruptIfAny(mip')
  /\ tick_end' = TickEnd(mcycle, mcycle_end)
  /\ phase' = "inner"
  /\ UNCHANGED <<mcycle, mcycle_end, iflags, reason, mie, mideleg, mtimecmp, unreproducible>>

\* The inner loop reached its end.
InnerEnd ==
  /\ phase = "inner" /\ mcycle >= tick_end
  /\ phase' = "outer"
  /\ UNCHANGED <<mcycle, mcycle_end, tick_end, iflags, reason, csrVars, mip, plicVars, unreproducible>>

\* The outer loop reached its end: interpret() returns.
LoopEnd ==
  /\ phase = "outer" /\ mcycle >= mcycle_end
  /\ phase' = "host" /\ reason' = "reached_target_mcycle"
  /\ UNCHANGED <<mcycle, mcycle_end, tick_end, iflags, csrVars, mip, plicVars, unreproducible>>

Executing == phase = "inner" /\ mcycle < tick_end

BadServeInterrupts(cycle) ==
  /\ mcycle' = cycle /\ phase' = "outer"
  /\ UNCHANGED <<mcycle_end, tick_end, iflags, reason, unreproducible>>

\* The end of an instruction that began, or after a wait, is at this cycle.
Continue(cycle) ==
  /\ mcycle' = cycle + 1
  /\ UNCHANGED <<phase, mcycle_end, tick_end, iflags, reason, unreproducible>>

ServeInterrupts(cycle) ==
  /\ mcycle' = cycle + 1 /\ phase' = "outer"
  /\ UNCHANGED <<mcycle_end, tick_end, iflags, reason, unreproducible>>

\* The flags decide what interpret() returns, then the status of the instruction.
ReturnToHost(cycle, flags, otherwise) ==
  /\ mcycle' = cycle + 1 /\ phase' = "host" /\ iflags' = flags
  /\ reason' = CASE "H" \in flags -> "halted"
                 [] "H" \notin flags /\ "Y" \in flags -> "yielded_manually"
                 [] flags = {"X"} -> "yielded_automatically"
                 [] flags = {} -> otherwise
  /\ UNCHANGED <<mcycle_end, tick_end, unreproducible>>

-----------------------------------------------------------------------------
\* Instructions, by what they do to privilege and interrupts.

\* An instruction that does neither.
Plain ==
  /\ Executing /\ Continue(mcycle)
  /\ UNCHANGED <<csrVars, mip, plicVars>>

\* An instruction, or its fetch, that raises an exception.
Exception(deleg) ==
  /\ Executing /\ (deleg => prv # "M")
  /\ RaiseException(deleg)
  /\ Continue(mcycle)
  /\ UNCHANGED <<mie, mideleg, mtimecmp, mip, plicVars>>

\* Break the inner loop if the instruction may have made an interrupt deliverable.
ServesIf(changed) == IF changed THEN ServeInterrupts(mcycle) ELSE Continue(mcycle)

\* write_csr_mstatus, and through it write_csr_sstatus.
WriteMstatus(v) ==
  /\ Executing /\ prv # "U"
  /\ mstatus' = IF prv = "M" THEN v
                ELSE [mstatus EXCEPT !.sie = v.sie, !.spie = v.spie, !.spp = v.spp]
  /\ ServesIf(mstatus'.mie # mstatus.mie \/ mstatus'.sie # mstatus.sie)
  /\ UNCHANGED <<prv, mie, mideleg, mtimecmp, mip, plicVars>>

\* write_csr_mie and write_csr_sie.
WriteMie(v) ==
  /\ Executing /\ prv # "U"
  /\ mie' = IF prv = "M" THEN v ELSE (mie \ mideleg) \union (v \intersect mideleg)
  /\ ServesIf(TRUE)
  /\ UNCHANGED <<prv, mstatus, mideleg, mtimecmp, mip, plicVars>>

\* write_csr_mip and write_csr_sip.
WriteMip(v) ==
  /\ Executing /\ prv # "U"
  /\ LET mask == IF prv = "M" THEN Supervisor ELSE mideleg
     IN  mip' = (mip \ mask) \union (v \intersect mask)
  /\ ServesIf(TRUE)
  /\ UNCHANGED <<csrVars, plicVars>>

\* write_csr_mideleg.
WriteMideleg(v) ==
  /\ Executing /\ prv = "M"
  /\ mideleg' = v
  /\ ServesIf(TRUE)
  /\ UNCHANGED <<prv, mstatus, mie, mtimecmp, mip, plicVars>>

\* execute_SRET.
Sret ==
  /\ Executing /\ prv # "U"
  /\ mstatus' = [mstatus EXCEPT !.sie = mstatus.spie, !.spie = TRUE, !.spp = "U"]
  /\ prv' = mstatus.spp
  /\ ServesIf(TRUE)
  /\ UNCHANGED <<mie, mideleg, mtimecmp, mip, plicVars>>

\* execute_MRET.
Mret ==
  /\ Executing /\ prv = "M"
  /\ mstatus' = [mstatus EXCEPT !.mie = mstatus.mpie, !.mpie = TRUE, !.mpp = "U"]
  /\ prv' = mstatus.mpp
  /\ ServesIf(TRUE)
  /\ UNCHANGED <<mie, mideleg, mtimecmp, mip, plicVars>>

\* How long execute_WFI may wait.
WaitEnd == Lesser(rtc_time_to_cycle(mtimecmp), mcycle_end)

\* execute_WFI, and poll_external_interrupts: an unreproducible machine waits for
\* its devices and lets the cycles pass.  Input for the console goes to the host.
Wfi(cycle, D, bits, refill) ==
  /\ Executing /\ prv # "U"
  /\ IF unreproducible /\ WaitEnd > mcycle
       THEN cycle \in mcycle..WaitEnd
       ELSE cycle = mcycle /\ D = {}
  /\ SetIrq(mip, D, bits)
  /\ CASE D = {} -> ~refill /\ Continue(cycle)
       [] D # {} /\ refill -> ReturnToHost(cycle, iflags, "console_input")
       [] D # {} /\ ~refill -> ServeInterrupts(cycle)
  /\ UNCHANGED csrVars

-----------------------------------------------------------------------------
\* Instructions that access a device.

\* CLINT: msip0.
WriteMsip(set) ==
  /\ Executing
  /\ mip' = IF set THEN mip \union {"MSIP"} ELSE mip \ {"MSIP"}
  /\ ServesIf(set)
  /\ UNCHANGED <<csrVars, plicVars>>

\* CLINT: mtimecmp.  The timer looks at it at the next tick.
WriteMtimecmp(v) ==
  /\ Executing
  /\ mtimecmp' = v /\ mip' = mip \ {"MTIP"}
  /\ Continue(mcycle)
  /\ UNCHANGED <<prv, mstatus, mie, mideleg, plicVars>>

\* PLIC: claim_complete, read and written.
ReadClaim ==
  /\ Executing /\ Claim /\ Continue(mcycle)
  /\ UNCHANGED csrVars

WriteComplete(d) ==
  /\ Executing /\ Complete(d)
  /\ ServesIf(girqpend \ girqsrvd' # {})
  /\ UNCHANGED csrVars

\* VirtIO: a queue notification or DRIVER_OK.  The device may use buffers or fail,
\* and may want its console output flushed.
NotifyDevice(d, bits, flush) ==
  /\ Executing /\ SetIrq(mip, {d}, bits)
  /\ IF flush THEN ReturnToHost(mcycle, iflags, "console_output")
              ELSE ServesIf(int_status'[d] # {})
  /\ UNCHANGED csrVars

\* VirtIO: InterruptACK, or a reset, which clears every bit.
AckDevice(d, bits) ==
  /\ Executing /\ ResetIrq(d, bits)
  /\ ServesIf(int_status'[d] # {})
  /\ UNCHANGED csrVars

\* HTIF: halt, a manual or automatic yield (flag), a soft yield, console I/O.
WriteTohost(flag, status) ==
  /\ Executing
  /\ ReturnToHost(mcycle, iflags \union flag, status)
  /\ UNCHANGED <<csrVars, mip, plicVars>>

-----------------------------------------------------------------------------
\* Between runs.

\* push_network_packet, complete_block_read and the like.
HostEvent(d, bits) ==
  /\ phase = "host" /\ SetIrq(mip, {d}, bits)
  /\ UNCHANGED <<loopVars, csrVars, unreproducible>>

\* send_cmio_response lets a machine that yielded manually go on.
HostResume ==
  /\ phase = "host" /\ "Y" \in iflags
  /\ iflags' = iflags \ {"Y"}
  /\ UNCHANGED <<phase, mcycle, mcycle_end, tick_end, reason, csrVars, mip, plicVars, unreproducible>>

SomeBits == SUBSET IntBits \ {{}}

Instruction ==
  \/ Plain
  \/ \E deleg \in BOOLEAN : Exception(deleg)
  \/ \E v \in MstatusValues : WriteMstatus(v)
  \/ \E v \in MieValues : WriteMie(v)
  \/ \E v \in MipValues : WriteMip(v)
  \/ \E v \in MidelegValues : WriteMideleg(v)
  \/ Sret \/ Mret
  \/ \E c \in mcycle..MaxCycle, D \in SUBSET Devices, bits \in SomeBits, refill \in BOOLEAN :
       Wfi(c, D, bits, refill)
  \/ \E set \in BOOLEAN : WriteMsip(set)
  \/ \E v \in TimeCmpValues : WriteMtimecmp(v)
  \/ ReadClaim
  \/ \E d \in Devices : WriteComplete(d)
  \/ \E d \in Devices, bits \in SUBSET IntBits, flush \in BOOLEAN : NotifyDevice(d, bits, flush)
  \/ \E d \in Devices, bits \in SUBSET IntBits : AckDevice(d, bits)
  \/ \E f \in {"H", "X", "Y"} : WriteTohost({f}, "none")
  \/ \E s \in {"yielded_softly", "console_output", "console_input"} : WriteTohost({}, s)

Loop == InnerEnd \/ LoopEnd \/ \E D \in SUBSET Devices, bits \in SomeBits : OuterLoop(D, bits)

Host ==
  \/ \E end \in 0..MaxCycle : Interpret(end)
  \/ \E d \in Devices, bits \in SomeBits : HostEvent(d, bits)
  \/ HostResume

Next == Loop \/ Instruction \/ Host

\* interpret() is one thread that never blocks: once called, it goes on.
Spec == Init /\ [][Next]_vars /\ WF_vars(Loop \/ Instruction)

-----------------------------------------------------------------------------
TypeOK ==
  /\ phase \in {"host", "outer", "inner"}
  /\ mcycle \in Nat /\ mcycle_end \in 0..MaxCycle /\ tick_end \in 0..MaxCycle
  /\ prv \in Modes /\ mstatus \in Mstatus
  /\ mie \in SUBSET Irqs /\ mideleg \in SUBSET Supervisor /\ mtimecmp \in Nat
  /\ iflags \in SUBSET {"H", "X", "Y"} /\ unreproducible \in BOOLEAN
  /\ PlicTypeOK

(* assert_no_brk, which only debug builds check: in the inner loop no      *)
(* interrupt that the current mode would take itself is pending, and no    *)
(* flag that should have stopped the machine is set.                       *)
AssertNoBrk ==
  phase = "inner" =>
    /\ iflags = {}
    /\ Pending(mip) \intersect (IF prv = "M" THEN Irqs ELSE mideleg) = {}

\* Every interrupt that is delegated comes after those that are not in Priority.
LowDelegated ==
  \A i, j \in 1..6 : i < j /\ Priority[i] \in mideleg /\ Priority[j] \in Supervisor
                      => Priority[j] \in mideleg

\* A turn of the outer loop here would find nothing to do.
NothingToServe ==
  /\ rtc_is_tick(mcycle) /\ Expired => "MTIP" \in mip
  /\ Pending(mip) = {} /\ iflags = {}

(* Where a run is cut does not matter.  At every instruction boundary of   *)
(* the inner loop, returning to the host and calling interpret() again,    *)
(* which goes through the outer loop, would set no interrupt and raise     *)
(* none: no instruction that makes an interrupt deliverable forgets to     *)
(* break the loop, and no tick falls inside it.  So one long run, runs of  *)
(* log_step() and one cycle at a time on the microarchitecture agree.  It  *)
(* needs the delegated interrupts to be those of lowest priority.          *)
RunsCanBeCut == Executing /\ LowDelegated => NothingToServe

(* A run that returns because it reached its target is at its target, in a *)
(* machine that is reproducible (the assert at the end of interpret()).    *)
TargetReached ==
  ~unreproducible /\ phase = "host" /\ reason = "reached_target_mcycle" => mcycle = mcycle_end

(* Every call to interpret() returns: every turn of the loops that is not  *)
(* the last advances mcycle towards mcycle_end.                            *)
RunReturns == phase # "host" ~> phase = "host"

=============================================================================
