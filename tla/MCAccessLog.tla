---------------------------- MODULE MCAccessLog ----------------------------
(* Two microarchitecture programs that between them hold every kind of      *)
(* instruction; responses that are empty, of a leaf and a half, one word    *)
(* longer than the receive buffer, and so long that the core is told of     *)
(* three words only.                                                        *)
EXTENDS AccessLog

MCPrograms == {<<STORE, TLB, LOAD, HALTING>>, <<LOAD, PUTCHAR, ILLEGAL, STORE>>}
MCInputs == {0, 3, 5, 11}
=============================================================================
