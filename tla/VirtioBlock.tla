----------------------------- MODULE VirtioBlock -----------------------------
(***************************************************************************)
(* The VirtIO block device, which has no disk of its own.  It exports the  *)
(* request of a buffer to the host, leaves the buffer at the head of the   *)
(* ring, and goes on when the host completes the request, which it names   *)
(* by an id.  s.dev holds pending (m_pending_requests), requests           *)
(* (m_host_requests), next_id and, as a ghost, era: the resets so far.     *)
(*                                                                         *)
(* Lengths are in units: the header is one, the status one.  The first     *)
(* buffer of a chain carries the type and whether the sector is one of the *)
(* disk; where the data goes is left out.                                  *)
(***************************************************************************)
EXTENDS Virtio

BlockHeaderSize == 1
BlockStatusSize == 1

BlockInit == [pending |-> <<>>, requests |-> <<>>, next_id |-> 1, era |-> 0]

\* do_on_device_reset.
BlockReset(dev) == [dev EXCEPT !.pending = <<>>, !.requests = <<>>, !.next_id = 1, !.era = @ + 1]

\* Write a status in place of the host, for a request it will not see.
BlockRefuse(s, q, d, write) ==
  LET c == ConsumeDesc(s, q, d, BlockStatusSize)
  IN  IF WriteDescMem(s, q, d, write - BlockStatusSize, BlockStatusSize) /\ c.ok
        THEN [s |-> NotifyQueueUsed(c.s), go |-> TRUE, flush |-> FALSE]
        ELSE [s |-> NotifyDeviceNeedsReset(s), go |-> FALSE, flush |-> FALSE]

BlockStop(s) == [s |-> s, go |-> FALSE, flush |-> FALSE]

\* Give the buffer a request and export it to the host.
BlockExport(s, q, d, read, write) ==
  LET header == s.mem[q].table[d][1]
      len == IF header.type = "in" THEN write - BlockStatusSize ELSE read - BlockHeaderSize
      s1 == [s EXCEPT !.dev.next_id = @ + 1]
      request == [id |-> s.dev.next_id, type |-> header.type, len |-> len, era |-> s.dev.era]
      s2 == [s1 EXCEPT
               !.dev.pending = Append(@, [request |-> request, desc |-> d,
                                          status_off |-> IF header.type = "in" THEN len ELSE 0]),
               !.dev.requests = Append(@, request)]
  IN  IF ~ReadDescMem(s, q, d, 0, BlockHeaderSize) THEN BlockStop(NotifyDeviceNeedsReset(s))
      ELSE IF ~header.sector THEN BlockRefuse(s, q, d, write)
      ELSE CASE header.type = "out" ->
                  BlockStop(IF ReadDescMem(s, q, d, BlockHeaderSize, len) THEN s2
                            ELSE NotifyDeviceNeedsReset(s1))
             [] header.type \in {"in", "flush"} -> BlockStop(s2)
             [] OTHER -> BlockRefuse(s1, q, d, write)

BadBlockAvailable(s, q, d, read, write) ==
  IF q # 0 \/ read < BlockHeaderSize \/ write < BlockStatusSize
    THEN BlockStop(NotifyDeviceNeedsReset(s))
  ELSE BlockExport(s, q, d, read, write)

\* do_on_device_queue_available: one request at a time.
BlockAvailable(s, q, d, read, write) ==
  IF q # 0 \/ read < BlockHeaderSize \/ write < BlockStatusSize
    THEN BlockStop(NotifyDeviceNeedsReset(s))
  ELSE IF s.dev.pending # <<>> THEN BlockStop(s)
  ELSE BlockExport(s, q, d, read, write)

\* take_host_request, of every request: take_block_requests.
BlockTake(s) == [s EXCEPT !.dev.requests = <<>>]

\* Write the data and the status of the request in flight, and use its buffer.
BlockFinish(s, id, len, ok) ==
  LET p == Head(s.dev.pending)
      reads == ok /\ p.request.type = "in"
      c == ConsumeDesc(s, 0, p.desc, BlockStatusSize + IF reads THEN len ELSE 0)
  IN  IF s.dev.pending = <<>> \/ p.request.id # id THEN [s |-> s, ok |-> FALSE]
      ELSE IF reads /\ len # p.request.len THEN [s |-> s, ok |-> FALSE]
      ELSE IF \/ reads /\ ~WriteDescMem(s, 0, p.desc, 0, len)
              \/ ~WriteDescMem(s, 0, p.desc, p.status_off, BlockStatusSize)
              \/ ~c.ok
        THEN [s |-> NotifyDeviceNeedsReset(s), ok |-> FALSE]
      ELSE [s |-> [c.s EXCEPT !.dev.pending = Tail(@)], ok |-> TRUE]

BadComplete(s, id, len, ok) ==
  LET f == BlockFinish(s, id, len, ok)
  IN  IF f.ok THEN [f EXCEPT !.s = NotifyQueueUsed(f.s)] ELSE f

\* complete, and through it complete_read, complete_operation (len -1) and
\* fail_operation (ok is FALSE).  The buffers that came meanwhile are next.
Complete(s, id, len, ok) ==
  LET Resume(f) == IF f.ok THEN [f EXCEPT !.s = NotifyQueueUsed(QueueNotify(f.s, 0, BlockAvailable).s)] ELSE f
  IN  Resume(BlockFinish(s, id, len, ok))
=============================================================================
