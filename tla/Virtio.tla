------------------------------- MODULE Virtio -------------------------------
(***************************************************************************)
(* The transport all VirtIO devices share: status and interrupt registers, *)
(* and the split rings through which driver and device pass buffers.       *)
(*                                                                         *)
(* A device and the memory it shares with its driver are one record s:     *)
(*   kind        which device it is                                        *)
(*   status      bits of device_status                                     *)
(*   driver_ok   the copy of DRIVER_OK the device goes by                  *)
(*   features    driver_features equals device_features                    *)
(*   int_status  bits of InterruptStatus                                   *)
(*   queue[q]    registers: num, ready, last_used_idx, and addr, which of  *)
(*               the three ring areas lie in RAM                           *)
(*   mem[q]      guest memory: avail and used indices, the rings, and the  *)
(*               descriptor table                                          *)
(*   dev         what the kind of device keeps                             *)
(* The handlers are operators from s to s: the driver's writes and the     *)
(* host's calls, which are the actions, are in Devices.  Offsets, widths,  *)
(* config_generation and the selector registers are left out.              *)
(***************************************************************************)
EXTENDS Integers, Sequences, SequencesExt

CONSTANTS IdxModulus,   \* 2^16 in the code: where ring indices wrap around
          Queues, Desc  \* queue numbers, descriptor indices

ASSUME VirtioAssumption == IdxModulus \in Nat \ {0}

Areas == {"desc", "avail", "used"}
StatusBits == {"FEATURES_OK", "DRIVER_OK", "NEEDS_RESET"}

-----------------------------------------------------------------------------
\* Rings and descriptors.

BadSlot(vq, idx) == idx

\* Where an index falls in a ring; a size of zero masks nothing.
Slot(vq, idx) == IF vq.num = 0 THEN idx ELSE idx % vq.num

TotalLen(chain) == FoldLeft(LAMBDA n, b : n + b.len, 0, chain)

\* get_desc_rw_avail_len: no read buffer comes after a write buffer.
RwAvailLen(s, q, d) ==
  LET chain == s.mem[q].table[d]
      writable(b) == b.write
      readable(b) == ~b.write
  IN  [ok |-> /\ "desc" \in s.queue[q].addr
              /\ \A i, j \in DOMAIN chain : i < j /\ chain[i].write => chain[j].write,
       read |-> TotalLen(SelectSeq(chain, readable)),
       write |-> TotalLen(SelectSeq(chain, writable))]

\* The loop of read_desc_mem and of write_desc_mem over the buffers of its
\* direction: which byte of which buffer each byte asked for is, and whether
\* the walk got that far.
Walk(bufs, start, len) ==
  LET Turn(w, b) ==
        LET from == IF w.off > start THEN w.off ELSE start
            to == IF w.off + b.len < start + len THEN w.off + b.len ELSE start + len
        IN  IF w.done THEN w
            ELSE [off  |-> w.off + b.len,
                  got  |-> w.got \o [i \in 1..(IF to > from THEN to - from ELSE 0) |->
                                       [buf |-> b, at |-> from - w.off + i - 1]],
                  done |-> to >= start + len]
  IN  FoldLeft(Turn, [off |-> 0, got |-> <<>>, done |-> FALSE], bufs)

\* Whether a transfer succeeds: every byte is there and in RAM.
Transfer(s, q, bufs, start, len) ==
  len = 0 \/ /\ "desc" \in s.queue[q].addr
             /\ LET w == Walk(bufs, start, len)
                IN  w.done /\ \A i \in DOMAIN w.got : w.got[i].buf.ram

ReadDescMem(s, q, d, start, len) ==
  LET readable(b) == ~b.write
  IN  Transfer(s, q, SelectSeq(s.mem[q].table[d], readable), start, len)

WriteDescMem(s, q, d, start, len) ==
  LET writable(b) == b.write
  IN  Transfer(s, q, SelectSeq(s.mem[q].table[d], writable), start, len)

BadConsumeDesc(s, q, d, len) ==
  LET vq == s.queue[q]
      next == vq.last_used + 1
  IN  IF "used" \notin vq.addr THEN [ok |-> FALSE, s |-> s]
      ELSE [ok |-> TRUE,
            s |-> [s EXCEPT !.mem[q].elems[Slot(vq, vq.last_used)] = [id |-> d, len |-> len],
                            !.mem[q].used = next,
                            !.queue[q].last_used = next]]

\* consume_desc: the element first, then the index the driver looks at.
ConsumeDesc(s, q, d, len) ==
  LET vq == s.queue[q]
      next == (vq.last_used + 1) % IdxModulus
  IN  IF "used" \notin vq.addr THEN [ok |-> FALSE, s |-> s]
      ELSE [ok |-> TRUE,
            s |-> [s EXCEPT !.mem[q].elems[Slot(vq, vq.last_used)] = [id |-> d, len |-> len],
                            !.mem[q].used = next,
                            !.queue[q].last_used = next]]

-----------------------------------------------------------------------------
\* Interrupts.  The line into the PLIC follows int_status: see Plic.

SetIrq(s, bits) == [s EXCEPT !.int_status = @ \union bits]

ResetIrq(s, bits) == [s EXCEPT !.int_status = @ \ bits]

BadNotifyQueueUsed(s) == IF s.driver_ok /\ s.int_status = {} THEN SetIrq(s, {"used"}) ELSE s

NotifyQueueUsed(s) == IF s.driver_ok THEN SetIrq(s, {"used"}) ELSE s

NotifyConfigChange(s) == IF s.driver_ok THEN SetIrq(s, {"config"}) ELSE s

NotifyDeviceNeedsReset(s) ==
  NotifyConfigChange([s EXCEPT !.status = @ \union {"NEEDS_RESET"}])

-----------------------------------------------------------------------------
\* Queues.

\* prepare_queue_write: the buffer to write next, of length 0 if there is none.
PrepareQueueWrite(s, q) ==
  LET vq == s.queue[q]
      m == s.mem[q]
      d == m.ring[Slot(vq, vq.last_used)]
      rw == RwAvailLen(s, q, d)
  IN  CASE vq.ready = 0 -> [ok |-> TRUE, desc |-> 0, len |-> 0]
        [] vq.ready # 0 /\ "avail" \notin vq.addr -> [ok |-> FALSE, desc |-> 0, len |-> 0]
        [] vq.ready # 0 /\ "avail" \in vq.addr ->
             IF vq.last_used = m.avail THEN [ok |-> TRUE, desc |-> 0, len |-> 0]
             ELSE [ok |-> rw.ok, desc |-> d, len |-> IF rw.ok THEN rw.write ELSE 0]

\* on_device_queue_notify, before its loop: whether it looks at the ring.
NotifyBegin(s, q) ==
  LET live == s.driver_ok /\ s.queue[q].ready # 0
      readable == "avail" \in s.queue[q].addr
  IN  [s |-> IF live /\ ~readable THEN NotifyDeviceNeedsReset(s) ELSE s,
       go |-> live /\ readable, flush |-> FALSE]

\* One turn of the loop up to index last; r is what the device answers for the
\* buffer at the head, of lengths rw.
NotifyTurn(t, q, last, rw, r) ==
  IF ~t.go \/ t.s.queue[q].last_used = last THEN [t EXCEPT !.go = FALSE]
  ELSE IF ~rw.ok THEN [t EXCEPT !.s = NotifyDeviceNeedsReset(t.s), !.go = FALSE]
  ELSE [s |-> r.s, go |-> r.go, flush |-> t.flush \/ r.flush]

\* Hand the device every buffer made available before it began, until the
\* device wants no more.  Available is the device's on_device_queue_available:
\* its result, and whether console output is due.
QueueNotify(s, q, Available(_, _, _, _, _)) ==
  LET last == s.mem[q].avail
      Turn(t) ==
        LET d == t.s.mem[q].ring[Slot(t.s.queue[q], t.s.queue[q].last_used)]
            rw == RwAvailLen(t.s, q, d)
        IN  NotifyTurn(t, q, last, rw, Available(t.s, q, d, rw.read, rw.write))
      Turns[n \in 0..IdxModulus] == IF n = 0 THEN NotifyBegin(s, q) ELSE Turn(Turns[n - 1])
  IN  Turns[IdxModulus]

-----------------------------------------------------------------------------
\* Registers.

NoQueue == [num |-> 0, ready |-> 0, last_used |-> 0, addr |-> {}]

\* reset: a write of zero to Status, which leaves dev of the device's own state.
Reset(s, dev) ==
  [s EXCEPT !.dev = dev, !.status = {}, !.driver_ok = FALSE,
            !.features = FALSE, !.int_status = {}, !.queue = [q \in Queues |-> NoQueue]]

\* Any other write to Status, up to the call of on_device_ok.
WriteStatus(s, v) ==
  LET enabling == v \ s.status
      t == [s EXCEPT !.status = v]
  IN  IF "FEATURES_OK" \in enabling /\ ~s.features THEN s
      ELSE IF "DRIVER_OK" \notin enabling THEN t
      ELSE IF "NEEDS_RESET" \in s.status THEN SetIrq(t, {"config"})
      ELSE [t EXCEPT !.driver_ok = TRUE]

\* DriverFeatures, both halves.
WriteDriverFeatures(s, all) == [s EXCEPT !.features = all]

\* QueueNum ignores what is not a power of two.
WriteQueueNum(s, q, n) ==
  IF n \in {0} \union {2^k : k \in 0..10} THEN [s EXCEPT !.queue[q].num = n] ELSE s

WriteQueueReady(s, q, val) == [s EXCEPT !.queue[q].ready = IF val = 1 THEN 1 ELSE 0]

\* QueueDesc, QueueAvail and QueueUsed, low and high.
WriteQueueAddr(s, q, areas) == [s EXCEPT !.queue[q].addr = areas]
=============================================================================
