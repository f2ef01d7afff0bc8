----------------------------- MODULE MCWriteTlb -----------------------------
(* Instance of WriteTlb for TLC: two slots shared by three virtual pages.    *)
EXTENDS WriteTlb

\* Everything, nothing, or everything but the drive is shared.
WithProcessor == {Pages, {}, Pages \ Drive}
TwoSlots == [va \in 0 .. 2 |-> va % 2]
=============================================================================
