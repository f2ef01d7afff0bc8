------------------------------- MODULE Console -------------------------------
(***************************************************************************)
(* machine_console: the buffers between the console of the guest and the   *)
(* host.  The guest only ever moves characters to and from the buffers;    *)
(* a full output buffer or an empty input buffer breaks the interpreter,   *)
(* and the machine flushes or refills outside of it, where an I/O error    *)
(* can be reported.                                                        *)
(*                                                                         *)
(* A console is a record: dest and source, where output goes and input     *)
(* comes from ("stream" is stdout, stderr, stdin or a descriptor); mode,   *)
(* when to flush; out and in, the characters buffered; closed, input is at *)
(* its end.  Characters are numbers, the even ones newlines, 0 the end of  *)
(* transmission.  An operation whose outcome the host decides is the set   *)
(* of its outcomes.  The VirtIO device that uses a console comes second.   *)
(***************************************************************************)
EXTENDS Virtio

CONSTANTS OutputSize, InputSize,  \* sizes of the buffers
          IoBufSize               \* VIRTIO_CONSOLE_IO_BUF_SIZE

EndOfTransmission == 0
IsNewline(ch) == ch % 2 = 0

Smaller(a, b) == IF a <= b THEN a ELSE b
Cut(seq, n) == SubSeq(seq, 1, n)
Rest(seq, n) == SubSeq(seq, n + 1, Len(seq))

\* available_output_buffer_space and available_input_buffer_space.
OutputSpace(c) == OutputSize - Len(c.out)
InputSpace(c) == InputSize - Len(c.in)

\* is_input_ready.
InputReady(c) == c.in # <<>> \/ c.closed

\* append_output: too much output pushes out the oldest.
AppendOutput(c, buf) ==
  LET excess == Len(c.out) + Len(buf) - OutputSize
      kept == IF excess > 0 THEN Rest(c.out, Smaller(excess, Len(c.out))) ELSE c.out
      taken == Cut(buf, Smaller(Len(buf), OutputSize - Len(kept)))
  IN  [c |-> [c EXCEPT !.out = kept \o taken], taken |-> taken]

\* putchars.
PutChars(c, buf) ==
  LET a == AppendOutput(c, buf)
  IN  IF buf = <<>> \/ c.dest = "null" THEN [c |-> c, flush |-> FALSE]
      ELSE [c |-> a.c, flush |-> \/ OutputSpace(a.c) = 0
                                 \/ c.mode = "every_char"
                                 \/ c.mode = "every_line" /\ \E i \in DOMAIN a.taken : IsNewline(a.taken[i])]

\* getchars of up to n characters.
GetChars(c, n) ==
  LET k == Smaller(n, Len(c.in))
      rest == [c EXCEPT !.in = Rest(@, k)]
  IN  IF c.closed THEN [c |-> c, chars |-> [i \in 1..n |-> EndOfTransmission], refill |-> FALSE]
      ELSE [c |-> rest, chars |-> Cut(c.in, k), refill |-> rest.in = <<>>]

\* poll and poll_selected; ready is what the host says of a stream.
PollInput(c, ready) ==
  CASE c.closed \/ c.source = "null" -> FALSE
    [] ~c.closed /\ c.source = "stream" -> ready
    [] ~c.closed /\ c.source = "file" -> TRUE
    [] ~c.closed /\ c.source = "buffer" -> c.in = <<>>

-----------------------------------------------------------------------------
\* Outcomes: the console, the characters the host took or gave, whether an
\* exception was thrown, and whether the host knows that output is lost.
Flushed(c, n, thrown) ==
  [c |-> [c EXCEPT !.out = Rest(@, n)], chars |-> Cut(c.out, n), thrown |-> thrown, lost |-> FALSE]
Swallowed(c) == [c |-> [c EXCEPT !.out = <<>>], chars |-> <<>>, thrown |-> FALSE, lost |-> TRUE]

BadFlushOutput(c) ==
  IF c.out = <<>> \/ c.dest = "buffer" THEN {Flushed(c, 0, FALSE)}
  ELSE {[Flushed(c, n, FALSE) EXCEPT !.c.out = <<>>] : n \in 1..Len(c.out)}

\* flush_output.  A write may be short or fail, and so may the flush of a file
\* after its write; a broken pipe swallows all of it.
FlushOutput(c) ==
  IF c.out = <<>> THEN {Flushed(c, 0, FALSE)}
  ELSE CASE c.dest = "null" -> {Swallowed(c)}
         [] c.dest = "buffer" -> {Flushed(c, 0, FALSE)}
         [] c.dest = "stream" ->
              {Flushed(c, n, FALSE) : n \in 0..Len(c.out)} \union {Swallowed(c), Flushed(c, 0, TRUE)}
         [] c.dest = "file" ->
              {Flushed(c, n, t) : n \in 1..Len(c.out), t \in BOOLEAN}
                \union {Swallowed(c), Flushed(c, 0, TRUE)}

NotRefilled(c, thrown) == [c |-> c, chars |-> <<>>, thrown |-> thrown]
Refilled(c, buf) == [c |-> [c EXCEPT !.in = buf], chars |-> buf, thrown |-> FALSE]
InputClosed(c, thrown) == [c |-> [c EXCEPT !.closed = TRUE], chars |-> <<>>, thrown |-> thrown]

\* refill_input, from a host that has the characters of supply to give.
RefillInput(c, supply) ==
  LET some == {Refilled(c, Cut(supply, n)) : n \in 1..Smaller(InputSize, Len(supply))}
      end == {InputClosed(c, FALSE), InputClosed(c, TRUE)}
  IN  IF c.in # <<>> \/ c.closed \/ c.source \in {"null", "buffer"} THEN {NotRefilled(c, FALSE)}
      ELSE CASE c.source = "stream" -> {NotRefilled(c, FALSE)} \union some \union end
             [] c.source = "file" -> some \union end

\* read_output of up to n characters, and write_input.
ReadOutput(c, n) == Flushed(c, Smaller(n, Len(c.out)), FALSE)

BadWriteInput(c, buf) == [c |-> [c EXCEPT !.in = Cut(@ \o buf, InputSize)], n |-> Len(buf)]

WriteInput(c, buf) ==
  LET n == Smaller(Len(buf), InputSpace(c))
  IN  [c |-> [c EXCEPT !.in = @ \o Cut(buf, n)], n |-> n]

-----------------------------------------------------------------------------
\* set_config, to another destination or source, in the steps that can fail.

CloseOutput(c) == [c EXCEPT !.dest = "null"]
CloseInput(c) == [c EXCEPT !.source = "null", !.closed = TRUE]

\* flush_output, close_output, and open_output, which may throw.
ReopenOutput(c, dest) ==
  IF c.dest = dest THEN {Flushed(c, 0, FALSE)}
  ELSE UNION {IF f.thrown THEN {f}
              ELSE {[f EXCEPT !.c = [CloseOutput(f.c) EXCEPT !.dest = dest]],
                    [f EXCEPT !.c = CloseOutput(f.c), !.thrown = TRUE]} : f \in FlushOutput(c)}

\* close_input, and open_input, which may throw and ends in refill_input.
ReopenInput(c, source, supply) ==
  IF c.source = source THEN {NotRefilled(c, FALSE)}
  ELSE {NotRefilled(CloseInput(c), TRUE)}
         \union RefillInput([CloseInput(c) EXCEPT !.source = source, !.closed = source = "null"], supply)

-----------------------------------------------------------------------------
(* The VirtIO console: the guest's output is put in the buffer of the      *)
(* console when it notifies, the host's input is handed to the guest when  *)
(* the device is polled.  s.dev holds the console, stdin_ready, and the    *)
(* size of the terminal that the configuration space shows.                *)

CReceiveQ == 0
CTransmitQ == 1

\* do_on_device_reset.
ConsoleReset(dev) == [dev EXCEPT !.stdin_ready = FALSE]

\* The characters of a buffer of the transmit queue.
CharsOf(s, d, read) == [i \in 1..read |-> s.mem[CTransmitQ].table[d][1].serial + i - 1]

\* write_next_chars_to_host, in chunks; a flush is asked for when the buffer
\* might not hold the next one.
WriteNextCharsToHost(s, q, d, read) ==
  LET chars == CharsOf(s, d, read)
      Fail(t) == [t EXCEPT !.s = NotifyDeviceNeedsReset(t.s), !.go = FALSE]
      Put(t, p) == [t EXCEPT !.s.dev.console = p.c,
                             !.flush = @ \/ p.flush \/ OutputSpace(p.c) < IoBufSize]
      Chunk(t, k) ==
        LET off == (k - 1) * IoBufSize
            len == Smaller(IoBufSize, read - off)
        IN  IF ~t.go THEN t
            ELSE IF ~ReadDescMem(s, q, d, off, len) THEN Fail(t)
            ELSE Put(t, PutChars(t.s.dev.console, SubSeq(chars, off + 1, off + len)))
      Chunks == [k \in 1..((read + IoBufSize - 1) \div IoBufSize) |-> k]
      Use(t, c) == IF c.ok THEN [t EXCEPT !.s = c.s] ELSE Fail(t)
      End(t) == IF t.go THEN Use(t, ConsumeDesc(t.s, q, d, 0)) ELSE t
  IN  End(FoldLeft(Chunk, [s |-> s, go |-> TRUE, flush |-> FALSE], Chunks))

\* do_on_device_queue_available.
ConsoleAvailable(s, q, d, read, write) ==
  CASE q = CReceiveQ -> [s |-> s, go |-> FALSE, flush |-> FALSE]
    [] q = CTransmitQ -> WriteNextCharsToHost(s, q, d, read)
    [] OTHER -> [s |-> NotifyDeviceNeedsReset(s), go |-> FALSE, flush |-> FALSE]

\* write_next_chars_to_guest, and the characters it handed over.  The buffer of
\* the guest is looked at before the input is consumed.
WriteNextCharsToGuest(s) ==
  LET None(t) == [s |-> t, chars |-> <<>>]
      Use(t, c, chars) ==
        IF c.ok THEN [s |-> NotifyQueueUsed(c.s), chars |-> chars] ELSE None(NotifyDeviceNeedsReset(t))
      Give(t, desc, chars) ==
        IF chars = <<>> THEN None(t)
        ELSE IF ~WriteDescMem(t, CReceiveQ, desc, 0, Len(chars)) THEN None(NotifyDeviceNeedsReset(t))
        ELSE Use(t, ConsumeDesc(t, CReceiveQ, desc, Len(chars)), chars)
      Take(desc, g) == Give([s EXCEPT !.dev.console = g.c], desc, g.chars)
      Fill(p) ==
        IF ~p.ok THEN None(NotifyDeviceNeedsReset(s))
        ELSE IF p.len = 0 THEN None(s)
        ELSE Take(p.desc, GetChars(s.dev.console, Smaller(p.len, IoBufSize)))
  IN  IF s.driver_ok THEN Fill(PrepareQueueWrite(s, CReceiveQ)) ELSE None(s)

\* notify_console_size_to_guest, also do_on_device_ok.
NotifyConsoleSize(s, size) ==
  IF size = s.dev.size THEN s ELSE NotifyConfigChange([s EXCEPT !.dev.size = size])

\* do_prepare_select: input waits until the guest waits for an interrupt, which
\* is when the poll has time to wait.
ConsolePrepare(s, waits) ==
  IF s.driver_ok /\ waits THEN [s EXCEPT !.dev.stdin_ready = TRUE] ELSE s

\* do_poll_selected, and the characters it handed over; ready is what the host
\* says of a stream.  The machine refills the input when refill is set.
ConsolePoll(s, size, ready) ==
  LET s1 == NotifyConsoleSize(s, size)
      More(t, w) == [s |-> w.s, chars |-> t.chars \o w.chars, go |-> w.chars # <<>>]
      Turn(t) == IF t.go THEN More(t, WriteNextCharsToGuest(t.s)) ELSE t
      Turns[n \in 0..IdxModulus] ==
        IF n = 0 THEN [s |-> s1, chars |-> <<>>, go |-> InputReady(s1.dev.console)]
        ELSE Turn(Turns[n - 1])
      End(t) == [s |-> t.s, chars |-> t.chars,
                 refill |-> /\ PollInput(t.s.dev.console, ready)
                            /\ s1 # s \/ t.chars # <<>> \/ ~InputReady(t.s.dev.console)]
  IN  IF s.driver_ok /\ s.dev.stdin_ready THEN End(Turns[IdxModulus])
      ELSE [s |-> s, chars |-> <<>>, refill |-> FALSE]
=============================================================================
