--------------------------- MODULE MCInterpreter ---------------------------
(* Instances of Interpreter small enough for TLC.                          *)
EXTENDS Interpreter

\* Interrupts off and on, with a return to a lower mode that turns them on.
SmallMstatus ==
  {[mie |-> e, sie |-> e, mpie |-> TRUE, spie |-> TRUE, mpp |-> "S", spp |-> "U"] : e \in BOOLEAN}
AllIrqs == {Irqs}
TwoMips == {{}, {"SEIP", "SSIP"}}
\* All, the lowest only, and the highest only.
SomeMidelegs == {Supervisor, {"SSIP", "STIP"}, {"SEIP"}}
=============================================================================
