------------------------------ MODULE VirtioNet ------------------------------
(***************************************************************************)
(* The VirtIO network devices.  The host-backed one keeps two bounded      *)
(* queues of packets that the host fills and empties between runs; the     *)
(* other takes packets from a carrier, slirp or a TAP interface, whenever  *)
(* it is polled.  s.dev holds receive and transmit (for a carrier, what    *)
(* waits in it and what it was given), and whether a write to the TAP      *)
(* interface would block.                                                  *)
(*                                                                         *)
(* A packet is a record of a serial number and a length, in units; the     *)
(* VirtIO header is one unit.                                              *)
(***************************************************************************)
EXTENDS Virtio

CONSTANTS MaxFrame,         \* the longest frame a device takes
          MaxQueuedPackets  \* packets a queue of the device, or slirp, keeps

NetHeaderSize == 1
ReceiveQ == 0
TransmitQ == 1

NetInit == [receive |-> <<>>, transmit |-> <<>>, blocked |-> FALSE]

NetStop(s) == [s |-> s, go |-> FALSE, flush |-> FALSE]
NetGo(s) == [s |-> s, go |-> TRUE, flush |-> FALSE]

\* The packet in a buffer of the transmit queue.
PacketOf(s, d, read) == [serial |-> s.mem[TransmitQ].table[d][1].serial, len |-> read - NetHeaderSize]

-----------------------------------------------------------------------------
\* The host-backed device.

HostNetReset(dev) == NetInit

\* Write the first packet of the queue to a buffer.
PutPacket(s, d, write) ==
  LET packet == Head(s.dev.receive)
      len == NetHeaderSize + packet.len
      c == ConsumeDesc(s, ReceiveQ, d, len)
  IN  IF \/ packet.len > MaxFrame \/ write < len
         \/ ~WriteDescMem(s, ReceiveQ, d, 0, NetHeaderSize)
         \/ ~WriteDescMem(s, ReceiveQ, d, NetHeaderSize, packet.len)
         \/ ~c.ok
        THEN NetStop(NotifyDeviceNeedsReset(s))
      ELSE NetGo(NotifyQueueUsed(c.s))

BadReceiveOne(s, d, write) == IF s.dev.receive = <<>> THEN NetStop(s) ELSE PutPacket(s, d, write)

\* receive_one: the packet leaves the queue once the guest has it.
ReceiveOne(s, d, write) ==
  LET p == PutPacket(s, d, write)
  IN  IF s.dev.receive = <<>> THEN NetStop(s)
      ELSE IF p.go THEN NetGo([p.s EXCEPT !.dev.receive = Tail(@)]) ELSE p

\* transmit_one: the buffer is used even if the queue has no room for the packet.
TransmitOne(s, d, read) ==
  LET c == ConsumeDesc(s, TransmitQ, d, 0)
      room == Len(s.dev.transmit) < MaxQueuedPackets
  IN  IF \/ read < NetHeaderSize \/ read - NetHeaderSize > MaxFrame
         \/ ~ReadDescMem(s, TransmitQ, d, NetHeaderSize, read - NetHeaderSize)
         \/ ~c.ok
        THEN NetStop(NotifyDeviceNeedsReset(s))
      ELSE NetGo(NotifyQueueUsed(
             [c.s EXCEPT !.dev.transmit = IF room THEN Append(@, PacketOf(s, d, read)) ELSE @]))

HostNetAvailable(s, q, d, read, write) ==
  CASE q = ReceiveQ -> ReceiveOne(s, d, write)
    [] q = TransmitQ -> TransmitOne(s, d, read)
    [] OTHER -> NetStop(NotifyDeviceNeedsReset(s))

BadDeliverReceivePackets(s) == s

\* deliver_receive_packets, also do_on_device_ok.
DeliverReceivePackets(s) ==
  IF ~s.driver_ok \/ s.dev.receive = <<>> THEN s
  ELSE QueueNotify(s, ReceiveQ, HostNetAvailable).s

\* push_receive_packet: a full queue loses its oldest packet.
PushReceivePacket(s, packet) ==
  LET room == IF Len(s.dev.receive) = MaxQueuedPackets THEN Tail(s.dev.receive)
              ELSE s.dev.receive
  IN  IF packet.len = 0 \/ packet.len > MaxFrame THEN s
      ELSE DeliverReceivePackets([s EXCEPT !.dev.receive = Append(room, packet)])

\* take_network_packets.
TakeTransmitPackets(s) == [s EXCEPT !.dev.transmit = <<>>]

\* clear_network_packets.
ClearPackets(s) == [s EXCEPT !.dev = NetInit]

-----------------------------------------------------------------------------
\* The device with a carrier.

\* do_net_reset: the carrier keeps its state.
CarrierReset(dev) == dev

\* slirp_send_packet, or the queue of the TAP interface: what the network sends.
CarrierSend(s, packet) ==
  IF Len(s.dev.receive) >= MaxQueuedPackets \/ packet.len > MaxFrame THEN s
  ELSE [s EXCEPT !.dev.receive = Append(@, packet)]

\* net_read_packet_from_host: the packet is gone from the carrier whether or
\* not it fits the buffer.
CarrierRead(s, d, write) ==
  LET packet == Head(s.dev.receive)
      taken == [s EXCEPT !.dev.receive = Tail(@)]
  IN  IF s.dev.receive = <<>> THEN [ok |-> TRUE, s |-> s, len |-> 0]
      ELSE IF NetHeaderSize + packet.len > write THEN [ok |-> TRUE, s |-> taken, len |-> 0]
      ELSE IF ~WriteDescMem(s, ReceiveQ, d, NetHeaderSize, packet.len)
        THEN [ok |-> FALSE, s |-> taken, len |-> 0]
      ELSE [ok |-> TRUE, s |-> taken, len |-> NetHeaderSize + packet.len]

\* read_next_packet_from_host.
ReadNextPacket(s) ==
  LET Use(t, c) == IF c.ok THEN NetGo(NotifyQueueUsed(c.s)) ELSE NetStop(NotifyDeviceNeedsReset(t))
      Give(desc, r) ==
        IF ~r.ok THEN NetStop(NotifyDeviceNeedsReset(r.s))
        ELSE IF r.len <= NetHeaderSize THEN NetStop(r.s)
        ELSE IF ~WriteDescMem(r.s, ReceiveQ, desc, 0, NetHeaderSize)
          THEN NetStop(NotifyDeviceNeedsReset(r.s))
        ELSE Use(r.s, ConsumeDesc(r.s, ReceiveQ, desc, r.len))
      Fill(p) ==
        IF ~p.ok THEN NetStop(NotifyDeviceNeedsReset(s))
        ELSE IF p.len = 0 THEN NetStop(s)
        ELSE Give(p.desc, CarrierRead(s, p.desc, p.len))
  IN  Fill(PrepareQueueWrite(s, ReceiveQ))

\* do_poll_selected: packets, until there are no more or no room for them.
NetPoll(s) ==
  LET Turn(t) == IF t.go THEN ReadNextPacket(t.s) ELSE t
      Turns[n \in 0..(MaxQueuedPackets + 1)] == IF n = 0 THEN NetGo(s) ELSE Turn(Turns[n - 1])
      End(t) == [s |-> t[MaxQueuedPackets + 1].s, got |-> t[1].go]
  IN  IF s.driver_ok /\ s.dev.receive # <<>> THEN End(Turns) ELSE [s |-> s, got |-> FALSE]

\* net_write_packet_to_host: one too long is dropped, and its buffer used.  A
\* write to the TAP interface that would block adds -1 to the unsigned count of
\* bytes written, which ends the loop that should try again.
CarrierWrite(s, d, read) ==
  LET len == read - NetHeaderSize
  IN  IF len < 0 \/ len > MaxFrame THEN [ok |-> TRUE, s |-> s]
      ELSE IF ~ReadDescMem(s, TransmitQ, d, NetHeaderSize, len) THEN [ok |-> FALSE, s |-> s]
      ELSE IF s.kind = "net_tap" /\ s.dev.blocked THEN [ok |-> TRUE, s |-> s]
      ELSE [ok |-> TRUE, s |-> [s EXCEPT !.dev.transmit = Append(@, PacketOf(s, d, read))]]

\* write_next_packet_to_host.
WriteNextPacket(s, q, d, read) ==
  LET Use(t, c) == IF c.ok THEN NetGo(c.s) ELSE NetStop(NotifyDeviceNeedsReset(t))
      Sent(w) == IF w.ok THEN Use(w.s, ConsumeDesc(w.s, q, d, 0)) ELSE NetStop(NotifyDeviceNeedsReset(w.s))
  IN  Sent(CarrierWrite(s, d, read))

\* do_on_device_queue_available: what is sent may be answered at once.
CarrierAvailable(s, q, d, read, write) ==
  LET Polled(p) == [s |-> p.s, go |-> p.got, flush |-> FALSE]
      Answered(w) == IF w.go THEN NetGo(NetPoll(w.s).s) ELSE w
  IN  CASE q = ReceiveQ -> Polled(NetPoll(s))
        [] q = TransmitQ -> Answered(WriteNextPacket(s, q, d, read))
        [] OTHER -> NetStop(NotifyDeviceNeedsReset(s))
=============================================================================
