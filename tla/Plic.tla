-------------------------------- MODULE Plic --------------------------------
(***************************************************************************)
(* External interrupts: the VirtIO devices, each with an interrupt status  *)
(* and a line into the platform-level interrupt controller, and the        *)
(* controller, which keeps the lines that are pending (girqpend) and the   *)
(* claims the driver has not completed (girqsrvd).  It drives the external *)
(* bits of mip.  The operators are the effects of the device callbacks;    *)
(* which instruction or poll of the interpreter makes them is in           *)
(* Interpreter.                                                            *)
(***************************************************************************)
EXTENDS Integers, FiniteSetsExt

CONSTANTS PLIC_MAX_IRQ, \* the lines are 1..PLIC_MAX_IRQ
          Devices,      \* VirtIO devices, named by their interrupt lines
          IntBits       \* bits of a device's InterruptStatus

ASSUME PlicAssumption == PLIC_MAX_IRQ \in Nat /\ Devices \subseteq 1..PLIC_MAX_IRQ

VARIABLES mip,          \* interrupts pending at the hart
          girqpend,     \* lines asserted
          girqsrvd,     \* lines claimed and not completed
          int_status    \* InterruptStatus of each device

plicVars == <<girqpend, girqsrvd, int_status>>

Irqs == {"MEIP", "MSIP", "MTIP", "SEIP", "SSIP", "STIP"}
External == {"MEIP", "SEIP"}

PlicInit ==
  /\ girqpend = {} /\ girqsrvd = {}
  /\ int_status = [d \in Devices |-> {}]

-----------------------------------------------------------------------------
\* The tail of plic_set_pending_irq and of a completion.
Raised(m, pend, srvd) == IF pend \ srvd # {} THEN m \union External ELSE m

BadLowered(m, pend, srvd) == IF pend = {} THEN m \ External ELSE m

\* The tail of plic_reset_pending_irq and of a claim.
Lowered(m, pend, srvd) == IF pend \ srvd = {} THEN m \ External ELSE m

\* set_irq of every device of D, in one poll or for one queue; m is mip before.
SetIrq(m, D, bits) ==
  /\ int_status' = [d \in Devices |-> int_status[d] \union IF d \in D THEN bits ELSE {}]
  /\ girqpend' = girqpend \union {d \in D : int_status'[d] # {}}
  /\ mip' = IF \A d \in D : int_status'[d] = {} THEN m ELSE Raised(m, girqpend', girqsrvd)
  /\ UNCHANGED girqsrvd

\* reset_irq.
ResetIrq(d, bits) ==
  /\ int_status' = [int_status EXCEPT ![d] = @ \ bits]
  /\ IF int_status'[d] = {}
       THEN /\ girqpend' = girqpend \ {d}
            /\ mip' = Lowered(mip, girqpend', girqsrvd)
       ELSE /\ girqpend' = girqpend \union {d}
            /\ mip' = Raised(mip, girqpend', girqsrvd)
  /\ UNCHANGED girqsrvd

\* plic_read_claim_complete: the highest line pending and not being served.
Claim ==
  /\ IF girqpend \ girqsrvd = {}
       THEN UNCHANGED <<girqsrvd, mip>>
       ELSE /\ girqsrvd' = girqsrvd \union {Max(girqpend \ girqsrvd)}
            /\ mip' = Lowered(mip, girqpend, girqsrvd')
  /\ UNCHANGED <<girqpend, int_status>>

\* plic_write_claim_complete, of a valid line.
Complete(d) ==
  /\ girqsrvd' = girqsrvd \ {d}
  /\ mip' = Lowered(Raised(mip, girqpend, girqsrvd'), girqpend, girqsrvd')
  /\ UNCHANGED <<girqpend, int_status>>

-----------------------------------------------------------------------------
PlicTypeOK ==
  /\ mip \in SUBSET Irqs
  /\ girqpend \in SUBSET Devices /\ girqsrvd \in SUBSET Devices
  /\ int_status \in [Devices -> SUBSET IntBits]

(* No external interrupt is lost and none is invented.  A line is asserted *)
(* exactly while its device has something to report, and MEIP, which the   *)
(* guest cannot write, is set exactly while some asserted line is not      *)
(* being served: claims, completions, acknowledgements, resets and new     *)
(* events of several devices may come in any order.                        *)
LinesReachTheHart ==
  /\ \A d \in Devices : d \in girqpend <=> int_status[d] # {}
  /\ "MEIP" \in mip <=> girqpend \ girqsrvd # {}
=============================================================================
