------------------------------- MODULE Devices -------------------------------
(***************************************************************************)
(* One device, its driver, and the host.  The device is a VirtIO device of *)
(* some kind, or the HTIF console, which shares the console with the       *)
(* VirtIO one.  While the machine runs, the driver writes registers,       *)
(* publishes buffers and notifies; between runs the host takes and         *)
(* completes requests, moves packets and characters, and changes the       *)
(* console; the network acts at any time.                                  *)
(*                                                                         *)
(* The driver keeps to the VirtIO specification where the rings are        *)
(* concerned: it sets queues up before DRIVER_OK, publishes only           *)
(* descriptors the device does not hold, and leaves a device that asked    *)
(* for a reset alone until it resets it.  It may do anything else, and its *)
(* buffers and rings may lie outside of RAM.                               *)
(***************************************************************************)
EXTENDS VirtioBlock, VirtioNet, Console, FiniteSets

CONSTANTS Kinds,          \* kinds of device
          Num,            \* the size of the queues the driver sets up
          AreaChoices,    \* AreaChoices[kind]: which ring areas lie in RAM
          Chains,         \* Chains[kind, queue]: what the driver publishes
          Dests, Sources, \* where the console may be pointed
          MaxPublish, MaxSent, MaxGiven, MaxResets    \* bounds

VARIABLES s,              \* the device: see Virtio
          phase,          \* "guest", "host", or what the run loop has to do
          held,           \* block requests the host took and did not answer
          kicked,         \* avail index at the last notification the device heard
          seen,           \* used index at the last acknowledgement
          sent, given,    \* serial numbers of what the guest and the host sent last
          hostGot, guestGot,  \* what reached the other side
          excused,        \* characters were lost and the host knows why
          failed,         \* the device asked for a reset at some time
          published, resets

ghosts == <<kicked, seen, published, resets>>
data == <<sent, given, hostGot, guestGot, excused>>
vars == <<s, phase, held, ghosts, data, failed>>

QueuesOf(kind) == IF kind = "block" THEN {0} ELSE IF kind = "htif" THEN {} ELSE {0, 1}
Consoles == {"console", "htif"}
Carriers == {"net_user", "net_tap"}

NoMem == [avail |-> 0, used |-> 0, ring |-> [i \in 0..(IdxModulus-1) |-> 0],
          elems |-> [i \in 0..(IdxModulus-1) |-> [id |-> 0, len |-> 0]],
          table |-> [d \in Desc |-> <<>>]]

DevInit(kind) ==
  CASE kind = "block" -> {BlockInit}
    [] kind \in {"net_host"} \union Carriers -> {NetInit}
    [] kind \in Consoles ->
         {[console |-> [dest |-> to, source |-> from, mode |-> m, out |-> <<>>, in |-> <<>>,
                        closed |-> from = "null"],
           stdin_ready |-> FALSE, size |-> 0] :
            to \in Dests[kind], from \in Sources[kind], m \in {"every_line"}}

Init ==
  /\ \E kind \in Kinds : \E dev \in DevInit(kind) :
       s = [kind |-> kind, status |-> {}, driver_ok |-> FALSE, features |-> FALSE,
            int_status |-> {}, queue |-> [q \in Queues |-> NoQueue],
            mem |-> [q \in Queues |-> NoMem], dev |-> dev]
  /\ phase = "host" /\ held = {}
  /\ kicked = [q \in Queues |-> 0] /\ seen = [q \in Queues |-> 0]
  /\ sent = 0 /\ given = 0 /\ hostGot = <<>> /\ guestGot = <<>> /\ excused = FALSE
  /\ failed = FALSE /\ published = 0 /\ resets = 0

-----------------------------------------------------------------------------
\* The virtual functions of the device.

OnDeviceReset(dev) ==
  CASE s.kind = "block" -> BlockReset(dev)
    [] s.kind = "net_host" -> HostNetReset(dev)
    [] s.kind \in Carriers -> CarrierReset(dev)
    [] s.kind \in Consoles -> ConsoleReset(dev)

OnDeviceOk(t) ==
  CASE t.kind = "net_host" -> DeliverReceivePackets(t)
    [] t.kind = "console" -> NotifyConsoleSize(t, 1)
    [] OTHER -> t

Available(t, q, d, read, write) ==
  CASE t.kind = "block" -> BlockAvailable(t, q, d, read, write)
    [] t.kind = "net_host" -> HostNetAvailable(t, q, d, read, write)
    [] t.kind \in Carriers -> CarrierAvailable(t, q, d, read, write)
    [] t.kind = "console" -> ConsoleAvailable(t, q, d, read, write)

\* The serial numbers a step took out of the queue of packets for the guest.
Received(before, after) ==
  LET mine(p) == p \notin Range(after)
      serials == SelectSeq(before, mine)
  IN  [i \in DOMAIN serials |-> serials[i].serial]

\* Packets the guest received in this step, from those that waited before.
PacketsReceived(waiting) ==
  guestGot' = IF s'.kind \in {"net_host"} \union Carriers
              THEN guestGot \o Received(waiting, s'.dev.receive) ELSE guestGot

-----------------------------------------------------------------------------
\* The driver.

Virtio == s.kind # "htif" /\ phase = "guest"

\* A driver that finds the device reset zeroes its rings and writes the
\* registers in the order of the VirtIO specification.  A device that does not
\* accept the features does not become live.
DriverInit(areas, features) ==
  LET SetUp(t, q) == WriteQueueReady(WriteQueueAddr(WriteQueueNum(t, q, Num), q, areas), q, 1)
      negotiated == WriteStatus(WriteDriverFeatures(s, features), {"FEATURES_OK"})
      ready == FoldLeft(SetUp, negotiated, SetToSeq(QueuesOf(s.kind)))
      live == WriteStatus(ready, {"FEATURES_OK", "DRIVER_OK"})
  IN  /\ Virtio /\ s.status = {}
      /\ s' = IF live.driver_ok THEN OnDeviceOk(live) ELSE live
      /\ PacketsReceived(IF s.kind = "block" \/ s.kind \in Consoles THEN <<>> ELSE s.dev.receive)
      /\ UNCHANGED <<phase, held, ghosts, sent, given, hostGot, excused>>

\* A driver that resets the device takes its rings back.
DriverReset ==
  /\ Virtio /\ resets < MaxResets[s.kind]
  /\ s' = [Reset(s, OnDeviceReset(s.dev)) EXCEPT !.mem = [q \in Queues |-> NoMem]]
  /\ kicked' = [q \in Queues |-> 0] /\ seen' = [q \in Queues |-> 0]
  /\ resets' = resets + 1
  /\ UNCHANGED <<phase, held, published, data>>

StopQueue(q) ==
  /\ Virtio /\ q \in QueuesOf(s.kind)
  /\ s' = WriteQueueReady(s, q, 0)
  /\ UNCHANGED <<phase, held, ghosts, data>>

\* Where the driver finds an index in its rings.
RingSlot(idx) == (idx % IdxModulus) % Num

\* The descriptors between the used and the avail index.
InFlight(q) ==
  {s.mem[q].ring[RingSlot(s.mem[q].used + i)] :
     i \in 0..(((s.mem[q].avail - s.mem[q].used) % IdxModulus) - 1)}

\* The driver makes a buffer available.  What it sends is numbered.
Publish(q, d, chain) ==
  LET slot == RingSlot(s.mem[q].avail)
      data_len == IF s.kind = "console" THEN TotalLen(chain) ELSE 1
      numbers == q = 1
  IN  /\ Virtio /\ q \in QueuesOf(s.kind) /\ s.queue[q].num = Num
      /\ published < MaxPublish[s.kind] /\ published' = published + 1
      /\ d \notin InFlight(q) /\ "NEEDS_RESET" \notin s.status
      /\ numbers => sent + data_len <= MaxSent
      /\ sent' = IF numbers THEN sent + data_len ELSE sent
      /\ s' = [s EXCEPT !.mem[q].table[d] =
                          [chain EXCEPT ![1] = IF numbers THEN [@ EXCEPT !.serial = sent + 1] ELSE @],
                        !.mem[q].ring[slot] = d,
                        !.mem[q].avail = (@ + 1) % IdxModulus]
      /\ UNCHANGED <<phase, held, kicked, seen, resets, given, hostGot, guestGot, excused>>

\* QueueNotify.  A notification of more characters than the console promises to
\* hold may lose some.
Notify(q) ==
  LET heard == s.driver_ok /\ s.queue[q].ready # 0
      chars(d) == TotalLen(s.mem[q].table[d])
      many == \E d, e \in InFlight(q) : d # e /\ chars(d) + chars(e) > IoBufSize
      big == \E d \in InFlight(q) : chars(d) > IoBufSize
  IN  /\ Virtio /\ q \in QueuesOf(s.kind) /\ "NEEDS_RESET" \notin s.status
      /\ \E n \in {QueueNotify(s, q, Available)} : s' = n.s /\ phase' = IF n.flush THEN "flush" ELSE phase
      /\ kicked' = IF heard THEN [kicked EXCEPT ![q] = s.mem[q].avail] ELSE kicked
      /\ PacketsReceived(IF s.kind = "block" \/ s.kind \in Consoles THEN <<>> ELSE s.dev.receive)
      /\ excused' = (excused \/ (s.kind = "console" /\ q = 1 /\ (many \/ big)))
      /\ hostGot' = IF s.kind \in Carriers
                    THEN [i \in DOMAIN s'.dev.transmit |-> s'.dev.transmit[i].serial] ELSE hostGot
      /\ UNCHANGED <<held, seen, published, resets, sent, given>>

\* InterruptACK, of a driver that then looks at its used rings.
Acknowledge ==
  /\ Virtio /\ s.int_status # {}
  /\ s' = ResetIrq(s, s.int_status)
  /\ seen' = [q \in Queues |-> s.mem[q].used]
  /\ UNCHANGED <<phase, held, kicked, published, resets, data>>

-----------------------------------------------------------------------------
\* The interpreter polls, at a tick or while the guest waits.

PollNetwork ==
  /\ phase = "guest" /\ s.kind \in Carriers
  /\ s' = NetPoll(s).s
  /\ PacketsReceived(s.dev.receive)
  /\ UNCHANGED <<phase, held, ghosts, sent, given, hostGot, excused>>

PollConsole(waits, size, ready) ==
  LET char(ch) == ch # EndOfTransmission
  IN  /\ phase = "guest" /\ s.kind = "console"
      /\ \E p \in {ConsolePoll(ConsolePrepare(s, waits), size, ready)} :
           /\ s' = p.s
           /\ guestGot' = guestGot \o SelectSeq(p.chars, char)
           /\ phase' = IF p.refill /\ waits THEN "refill" ELSE phase
      /\ UNCHANGED <<held, ghosts, sent, given, hostGot, excused>>

\* HTIF: putchar.
HtifPutchar ==
  LET p == PutChars(s.dev.console, <<sent + 1>>)
  IN  /\ phase = "guest" /\ s.kind = "htif" /\ sent < MaxSent
      /\ sent' = sent + 1
      /\ s' = [s EXCEPT !.dev.console = p.c]
      /\ phase' = IF p.flush THEN "flush" ELSE phase
      /\ UNCHANGED <<held, ghosts, given, hostGot, guestGot, excused>>

\* HTIF: getchar.
HtifGetchar ==
  LET g == GetChars(s.dev.console, 1)
      char(ch) == ch # EndOfTransmission
  IN  /\ phase = "guest" /\ s.kind = "htif"
      /\ s' = [s EXCEPT !.dev.console = g.c]
      /\ guestGot' = guestGot \o SelectSeq(g.chars, char)
      /\ phase' = IF g.refill THEN "refill" ELSE phase
      /\ UNCHANGED <<held, ghosts, sent, given, hostGot, excused>>

-----------------------------------------------------------------------------
\* interpret_with_console, when the interpreter breaks for the console.

\* What the host could give next.
Supply == [i \in 1..(MaxGiven - given) |-> given + i]

\* What the host got so far, while it has to be everything.
Record(chars) == IF excused' THEN <<>> ELSE hostGot \o chars

RunFlush ==
  /\ phase = "flush"
  /\ IF s.dev.console.dest = "buffer"
       THEN phase' = "host" /\ UNCHANGED <<s, hostGot, excused>>
       ELSE \E f \in FlushOutput(s.dev.console) :
              /\ s' = [s EXCEPT !.dev.console = f.c]
              /\ phase' = IF f.thrown THEN "host" ELSE "guest"
              /\ excused' = (excused \/ f.lost \/ OutputSpace(f.c) < IoBufSize)
              /\ hostGot' = Record(f.chars)
  /\ UNCHANGED <<held, ghosts, sent, given, guestGot>>

RunRefill ==
  /\ phase = "refill"
  /\ IF s.dev.console.source = "buffer"
       THEN phase' = "host" /\ UNCHANGED <<s, given>>
       ELSE \E r \in RefillInput(s.dev.console, Supply) :
              /\ s' = [s EXCEPT !.dev.console = r.c]
              /\ given' = given + Len(r.chars)
              /\ phase' = IF r.thrown THEN "host" ELSE "guest"
  /\ UNCHANGED <<held, ghosts, sent, hostGot, guestGot, excused>>

Return ==
  /\ phase = "guest" /\ phase' = "host"
  /\ UNCHANGED <<s, held, ghosts, data>>

-----------------------------------------------------------------------------
\* The host, between runs.

\* A host that runs the machine again with its output going nowhere, or still
\* in the buffer, knows what to expect.
Run ==
  /\ phase = "host" /\ phase' = "guest"
  /\ excused' = (excused \/ (/\ s.kind \in Consoles
                             /\ \/ s.dev.console.dest = "null"
                                \/ OutputSpace(s.dev.console) < IoBufSize))
  /\ UNCHANGED <<s, held, ghosts, sent, given, hostGot, guestGot>>

\* cm_take_block_requests.
TakeBlockRequests ==
  /\ phase = "host" /\ s.kind = "block" /\ s.dev.requests # <<>>
  /\ s' = BlockTake(s) /\ held' = held \union Range(s.dev.requests)
  /\ UNCHANGED <<phase, ghosts, data>>

\* cm_complete_block_read, cm_complete_block_operation, cm_fail_block_operation,
\* of a request the host took.
Answer(h, len, ok) ==
  /\ phase = "host" /\ s.kind = "block" /\ h \in held
  /\ \E c \in {Complete(s, h.id, len, ok)} :
       /\ s' = c.s
       /\ held' = IF c.ok THEN held \ {h} ELSE held
       /\ kicked' = IF c.ok THEN [kicked EXCEPT ![0] = s.mem[0].avail] ELSE kicked
  /\ excused' = (excused \/ h.era # s.dev.era)
  /\ UNCHANGED <<phase, seen, published, resets, sent, given, hostGot, guestGot>>

\* cm_push_network_packet.  Delivered is what is missing from the queue as it was
\* when the packet had been added, without the oldest one if that made room.
PushPacket(len) ==
  LET packet == [serial |-> given + 1, len |-> len]
      room == IF Len(s.dev.receive) = MaxQueuedPackets THEN Tail(s.dev.receive) ELSE s.dev.receive
  IN  /\ phase = "host" /\ s.kind = "net_host" /\ given < MaxGiven
      /\ given' = given + 1
      /\ s' = PushReceivePacket(s, packet)
      /\ guestGot' = IF s' = s THEN guestGot
                     ELSE guestGot \o Received(Append(room, packet), s'.dev.receive)
      /\ UNCHANGED <<phase, held, ghosts, sent, hostGot, excused>>

\* cm_visit_network_packets and cm_clear_network_packets.
TakePackets ==
  /\ phase = "host" /\ s.kind = "net_host"
  /\ s' = TakeTransmitPackets(s)
  /\ hostGot' = hostGot \o [i \in DOMAIN s.dev.transmit |-> s.dev.transmit[i].serial]
  /\ UNCHANGED <<phase, held, ghosts, sent, given, guestGot, excused>>

ClearAllPackets ==
  /\ phase = "host" /\ s.kind = "net_host" /\ s.dev # NetInit
  /\ s' = ClearPackets(s)
  /\ UNCHANGED <<phase, held, ghosts, data>>

\* The network, at any time.
NetworkSends(len) ==
  /\ s.kind \in Carriers /\ given < MaxGiven
  /\ given' = given + 1
  /\ s' = CarrierSend(s, [serial |-> given + 1, len |-> len])
  /\ UNCHANGED <<phase, held, ghosts, sent, hostGot, guestGot, excused>>

TapBlocks(b) ==
  /\ s.kind = "net_tap" /\ s' = [s EXCEPT !.dev.blocked = b]
  /\ UNCHANGED <<phase, held, ghosts, data>>

\* read_console_output, write_console_input and set_runtime_config.
ReadConsoleOutput(n) ==
  LET f == ReadOutput(s.dev.console, n)
  IN  /\ phase = "host" /\ s.kind \in Consoles /\ s.dev.console.dest = "buffer"
      /\ s' = [s EXCEPT !.dev.console = f.c]
      /\ UNCHANGED <<phase, held, ghosts, sent, given, guestGot, excused>>
      /\ hostGot' = Record(f.chars)

WriteConsoleInput(n) ==
  LET w == WriteInput(s.dev.console, [i \in 1..n |-> given + i])
  IN  /\ phase = "host" /\ s.kind \in Consoles /\ s.dev.console.source = "buffer"
      /\ given + n <= MaxGiven
      /\ s' = [s EXCEPT !.dev.console = w.c] /\ given' = given + w.n
      /\ UNCHANGED <<phase, held, ghosts, sent, hostGot, guestGot, excused>>

SetConsoleConfig(dest, source) ==
  /\ phase = "host" /\ s.kind \in Consoles
  /\ \E o \in ReopenOutput(s.dev.console, dest) :
     \E i \in IF o.thrown THEN {NotRefilled(o.c, TRUE)} ELSE ReopenInput(o.c, source, Supply) :
       /\ s' = [s EXCEPT !.dev.console = i.c]
       /\ given' = given + Len(i.chars)
       /\ excused' = (excused \/ o.lost)
       /\ hostGot' = Record(o.chars)
  /\ UNCHANGED <<phase, held, ghosts, sent, guestGot>>

-----------------------------------------------------------------------------
Driver ==
  \/ DriverReset \/ Acknowledge
  \/ \E a \in AreaChoices[s.kind], f \in BOOLEAN : DriverInit(a, f)
  \/ \E q \in Queues : StopQueue(q) \/ Notify(q)
  \/ \E q \in Queues, d \in Desc : \E c \in Chains[s.kind, q] : Publish(q, d, c)

Interpreter ==
  \/ PollNetwork \/ HtifPutchar \/ HtifGetchar \/ RunFlush \/ RunRefill \/ Return
  \/ \E waits, ready \in BOOLEAN, size \in 1..2 : PollConsole(waits, size, ready)

Host ==
  \/ Run \/ TakeBlockRequests \/ TakePackets \/ ClearAllPackets
  \/ \E h \in held, len \in -1..2, ok \in BOOLEAN : Answer(h, len, ok)
  \/ \E len \in 0..(MaxFrame + 1) : PushPacket(len)
  \/ \E len \in 1..(MaxFrame + 1) : NetworkSends(len)
  \/ \E b \in BOOLEAN : TapBlocks(b)
  \/ \E n \in 1..2 : ReadConsoleOutput(n) \/ WriteConsoleInput(n)
  \/ s.kind \in Consoles /\ \E dest \in Dests[s.kind], source \in Sources[s.kind] : SetConsoleConfig(dest, source)

Next ==
  /\ Driver \/ Interpreter \/ Host
  /\ failed' = (failed \/ "NEEDS_RESET" \in s'.status)

Spec == Init /\ [][Next]_vars

-----------------------------------------------------------------------------
TypeOK ==
  /\ s.status \subseteq StatusBits /\ s.driver_ok \in BOOLEAN
  /\ s.int_status \subseteq {"used", "config"}
  /\ \A q \in Queues :
       /\ s.queue[q].num \in {0, Num} /\ s.queue[q].ready \in 0..1
       /\ s.queue[q].last_used \in 0..(IdxModulus - 1) /\ s.queue[q].addr \subseteq Areas
       /\ s.mem[q].avail \in 0..(IdxModulus - 1) /\ s.mem[q].used \in 0..(IdxModulus - 1)
  /\ phase \in {"guest", "host", "flush", "refill"}

\* The used index moved on from a to b.
Moved(a, b) == (b - a) % IdxModulus

(* Buffers come back to the driver in the order it published them, each    *)
(* once, and none it did not publish: over a wrap of the ring indices,     *)
(* with several buffers used by one handler, and with completions and      *)
(* polls that come between notifications (virtq::consume_desc and all its  *)
(* callers).                                                               *)
UsedInOrder ==
  [][\A q \in Queues :
       LET m == s.mem[q]
           n == Moved(m.used, s'.mem[q].used)
       IN  s'.mem[q] # NoMem =>
             /\ n <= Moved(m.used, m.avail)
             /\ \A i \in 0..(n - 1) :
                  LET slot == RingSlot(m.used + i)
                  IN  s'.mem[q].elems[slot].id = m.ring[slot]]_vars

\* Queues whose used buffers the device announces.
Announced(kind) == IF kind = "net_host" THEN {0, 1} ELSE {0}

(* No used buffer goes unannounced: while the driver has not acknowledged  *)
(* an interrupt since the device used a buffer, the bit is set, so that a  *)
(* driver that sleeps until the interrupt does not sleep on finished work. *)
UsedAnnounced ==
  s.driver_ok => \A q \in Announced(s.kind) : s.mem[q].used # seen[q] => "used" \in s.int_status

(* The request at the host is the one at the head of the ring, and the     *)
(* host is asked for it once: a guest that notifies again while it waits,  *)
(* or a completion that finds more buffers, exports no request twice and   *)
(* completes none out of order (the comments in                            *)
(* do_on_device_queue_available).                                          *)
OneRequestAtAHost ==
  s.kind = "block" /\ ~excused =>
    /\ Len(s.dev.pending) <= 1
    /\ \A i \in DOMAIN s.dev.pending :
         LET p == s.dev.pending[i]
         IN  /\ p.desc = s.mem[0].ring[RingSlot(s.queue[0].last_used)]
             /\ s.mem[0].used # s.mem[0].avail
             /\ Range(s.dev.requests) \union {h \in held : h.era = s.dev.era} \subseteq {p.request}
    /\ s.dev.pending = <<>> => s.dev.requests = <<>>

(* Packets do not wait in the device for a guest that has room for them:   *)
(* once a driver has notified of its buffers, either they are used up or   *)
(* no packet waits, whichever came first and whoever came last             *)
(* (deliver_receive_packets, receive_one).                                 *)
ReceiveFlows ==
  /\ s.kind = "net_host" /\ s.driver_ok /\ s.queue[0].ready = 1 /\ ~failed
  /\ kicked[0] = s.mem[0].avail /\ s.mem[0].used # s.mem[0].avail
  => s.dev.receive = <<>>

Increasing(seq) == \A i, j \in DOMAIN seq : i < j => seq[i] < seq[j]
Serials(packets) == [i \in DOMAIN packets |-> packets[i].serial]

(* Packets are never delivered twice or out of order, though queues at     *)
(* their limits lose some, in both directions and for every kind of        *)
(* network device, and each buffer the guest gets back has a packet of its *)
(* own.                                                                    *)
PacketsInOrder ==
  s.kind \in {"net_host"} \union Carriers /\ ~failed =>
    /\ Increasing(guestGot \o Serials(s.dev.receive))
    /\ resets = 0 => Len(guestGot) % IdxModulus = s.mem[0].used
    /\ s.kind = "net_host" => Increasing(hostGot \o Serials(s.dev.transmit))
    /\ s.kind \in Carriers => Increasing(Serials(s.dev.transmit))

(* Every character the guest wrote reaches the host once and in order,     *)
(* over flushes cut short, errors, and changes of destination, unless the  *)
(* host broke the pipe, resumed without making room, or pointed the        *)
(* console nowhere, or a notification carried more than the console        *)
(* promises to hold.                                                       *)
OutputKept ==
  s.kind \in Consoles /\ ~excused /\ ~failed =>
    LET got == hostGot \o s.dev.console.out
    IN  /\ \A i \in DOMAIN got : got[i] = i
        /\ s.mem[1].used = s.mem[1].avail => Len(got) = sent

(* Every character the host gave reaches the guest once and in order: none *)
(* is lost in a buffer of the guest that is full, in a partial write to    *)
(* the input, or when the source changes.                                  *)
InputKept ==
  s.kind \in Consoles /\ ~failed
  => guestGot \o s.dev.console.in = [i \in 1..given |-> i]

(* A block request that the device heard of is not forgotten: it is with   *)
(* the host, or the one before it is.  So a host that answers what it      *)
(* takes serves them all, also those published while another was in        *)
(* flight, of which no later notification tells the device (the end of     *)
(* complete).                                                              *)
BlockRequestsServed ==
  /\ s.kind = "block" /\ s.driver_ok /\ s.queue[0].ready = 1 /\ ~failed /\ ~excused
  /\ s.mem[0].used # kicked[0]
  => s.dev.pending # <<>>

(* Nothing waits for a party that thinks it has nothing to do: the driver  *)
(* hears of every used buffer, the host of every request, and packets go   *)
(* to buffers as soon as there are any.                                    *)
NothingWaits == TypeOK /\ UsedAnnounced /\ BlockRequestsServed /\ ReceiveFlows

(* Requests and packets pass through a device once each and in order.      *)
NothingReordered == OneRequestAtAHost /\ PacketsInOrder

(* Characters pass through a console once each and in order, both ways.    *)
CharactersKept == OutputKept /\ InputKept
=============================================================================
