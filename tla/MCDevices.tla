------------------------------ MODULE MCDevices ------------------------------
(* Every kind of device, with rings of two and indices that wrap at four.  *)
EXTENDS Devices

Buf(len, write, ram) ==
  [len |-> len, write |-> write, ram |-> ram, type |-> "in", sector |-> TRUE, serial |-> 0]
Header(type, sector) == [Buf(1, FALSE, TRUE) EXCEPT !.type = type, !.sector = sector]

MCChains ==
  [kind \in Kinds, q \in Queues |->
     CASE kind = "block" /\ q = 0 ->
            {<<Header("in", TRUE), Buf(2, TRUE, TRUE)>>,
             <<Header("out", TRUE), Buf(1, FALSE, FALSE), Buf(1, TRUE, TRUE)>>,
             <<Header("flush", FALSE), Buf(1, TRUE, TRUE)>>}
       [] kind \in {"net_host", "net_user", "net_tap"} /\ q = 0 ->
            {<<Buf(1, TRUE, TRUE), Buf(1, TRUE, TRUE)>>}
       [] kind \in {"net_host", "net_user", "net_tap"} /\ q = 1 -> {<<Buf(2, FALSE, TRUE)>>}
       [] kind = "console" /\ q = 0 -> {<<Buf(1, TRUE, TRUE)>>}
       [] kind = "console" /\ q = 1 -> {<<Buf(1, FALSE, TRUE)>>, <<Buf(2, FALSE, TRUE)>>}
       [] OTHER -> {}]

MCMaxPublish == [kind \in Kinds |-> CASE kind = "block" -> 4 [] kind = "console" -> 2 [] OTHER -> 3]
MCMaxResets == [kind \in Kinds |-> IF kind = "block" THEN 1 ELSE 0]

MCDests == [kind \in Kinds |-> IF kind = "htif" THEN {"null", "stream", "file", "buffer"} ELSE {"stream"}]
MCSources == [kind \in Kinds |-> IF kind = "htif" THEN {"null", "stream", "file", "buffer"} ELSE {"stream"}]

MCAreas ==
  [kind \in Kinds |-> {Areas} \union IF kind = "console" THEN {} ELSE {{"desc", "avail"}}]
=============================================================================
