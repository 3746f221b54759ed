------------------------------ MODULE AudioTime ------------------------------
(***************************************************************************)
(* The audio objects that keep time (src/Dsp*.cpp): ramps, the envelope,   *)
(* those that play and read tables, delay lines, and the named buses.      *)
(* What an object asks of the context's clock is in "does": a message at   *)
(* an outlet to send now, to schedule or to cancel.  Times are in samples. *)
(***************************************************************************)
EXTENDS AudioSignals

LOCAL INSTANCE SequencesExt

CONSTANT Fine                   \* an index at the inlet of [tabread4~] counts in 1 / Fine

Scheduled(outlet, m, at) == [kind |-> "send", outlet |-> outlet, message |-> m, at |-> at]
Send(outlet, m, at) == <<"send", Scheduled(outlet, m, at)>>
Schedule(outlet, m, at) == <<"schedule", Scheduled(outlet, m, at)>>
Cancel(outlet, m, at) == <<"cancel", Scheduled(outlet, m, at)>>

Comes(e) == e.kind = "send"

\* utils::millisecondsToSamples; a number of samples that is not whole is for vd~ only
Samples(ms) == (ms * SampleRate) \div 1000

-----------------------------------------------------------------------------
(* Ramps: left is numSamplesToTarget, last is lastOutputSample.              *)

Ramp(s, from) == [k \in Block |-> s.last + (k - from) * s.slope]

LinePiece(s, io, from, to) ==
  CASE s.left <= 0 -> Fills([s EXCEPT !.last = s.target], io, from, to, [k \in Block |-> s.target])
    [] s.left > 0 /\ s.left < to - from ->
         Fills([s EXCEPT !.last = s.target, !.left = 0], io, from, to,
               [k \in Block |-> IF k < from + s.left THEN Ramp(s, from)[k] ELSE s.target])
    [] OTHER -> Fills([s EXCEPT !.last = @ + (to - from) * s.slope, !.left = @ - (to - from)],
                      io, from, to, Ramp(s, from))

DspLine(s, e, io) ==
  CASE IsNew(e) -> Idle([target |-> 0, slope |-> 0, left |-> 0, last |-> 0], io)
    [] HearsFloat(e, 1) /\ Len(e.message) = 1 ->
         LET x == get_float(e.message, 1)
         IN  Idle([target |-> x, slope |-> 0, left |-> 0, last |-> x], io)
    [] HearsFloat(e, 1) /\ is_float(e.message, 2) ->
         LET x == get_float(e.message, 1)
             ms == get_float(e.message, 2)
             left == Samples(IF ms < 1 THEN 1 ELSE ms)
         IN  Idle([s EXCEPT !.target = x, !.left = left, !.slope = Math("/", x - s.last, left)], io)
    [] Processes(e) /\ e.to > e.from -> LinePiece(s, io, e.from, e.to)
    [] OTHER -> Idle(s, io)

Level(s) == [s EXCEPT !.left = 0, !.slope = 0]
updatePathWithMessage(s, m) ==
  LET x == get_float(m, 1)
      left == Samples(get_float(m, 2))
  IN  IF left = 0 THEN [s EXCEPT !.target = x, !.left = 0, !.last = x, !.slope = 0]
      ELSE [s EXCEPT !.target = x, !.left = left, !.slope = Math("/", x - s.last, left)]

\* mutant: what was promised for later is still done
NothingLater(s, at) == {}

\* the messages in wait that are not before the first one later than at
Later(s, at) == {n \in DOMAIN s.waiting : \E k \in 1..n : at < s.waiting[k].at}
Cancels(s, which) ==
  LET numbers == SetToSortSeq(which, <)
  IN  [n \in DOMAIN numbers |-> Cancel(1, s.waiting[numbers[n]].message, s.waiting[numbers[n]].at)]
Without(s, which) ==
  [s EXCEPT !.waiting = SubSeq(@, 1, Len(@) - Cardinality(which))]

(***************************************************************************)
(* [vline~]: target, time and delay.  The samples of a ramp are written on *)
(* another platform only: here they are what the buffer held.              *)
(***************************************************************************)
DspVariableLine(s, e, io) ==
  CASE IsNew(e) -> Idle([target |-> 0, slope |-> 0, left |-> 0, last |-> 0, waiting |-> << >>], io)
    [] HearsFloat(e, 1) ->
         LET delay == Samples(float_or(e.message, 3, 0))
             at == e.at + delay
             path == <<Float(get_float(e.message, 1)), Float(float_or(e.message, 2, 0))>>
             which == Later(s, at)
             rest == Without(s, which)
         IN  IF delay = 0
             THEN [Idle(updatePathWithMessage(rest, path), io) EXCEPT !.does = Cancels(s, which)]
             ELSE [Idle([rest EXCEPT !.waiting = Append(@, [at |-> at, message |-> path])], io)
                     EXCEPT !.does = Append(Cancels(s, which), Schedule(1, path, at))]
    [] Hears(e, 1) /\ is_symbol_str(e.message, 1, "stop") ->
         [Idle(Level(Without(s, DOMAIN s.waiting)), io) EXCEPT !.does = Cancels(s, DOMAIN s.waiting)]
    [] Comes(e) -> Idle(updatePathWithMessage(
                          [s EXCEPT !.waiting = RemoveFirst(@, [at |-> e.due, message |-> e.message])],
                          e.message), io)
    [] Processes(e) ->
         LET n == e.to - e.from
         IN  CASE s.left <= 0 -> Fills(s, io, e.from, e.to, [k \in Block |-> s.last])
               [] s.left > 0 /\ n < s.left ->
                    Idle([s EXCEPT !.last = io.out[1][e.to - 1] + s.slope, !.left = @ - n], io)
               [] OTHER ->
                    Fills([s EXCEPT !.slope = 0, !.last = s.target, !.left = 0], io,
                          e.from + s.left, e.to, [k \in Block |-> s.target])
    [] OTHER -> Idle(s, io)

-----------------------------------------------------------------------------
(* [env~]: the buffer is filled block by block from its start, round and     *)
(* round, and reported when exactly an interval of samples has come.         *)

ToBlocks(n) == IF (n % BlockSize) * 2 <= BlockSize THEN n - (n % BlockSize)
                                                   ELSE n - (n % BlockSize) + BlockSize
AtLeastABlock(n) == IF n < BlockSize THEN BlockSize ELSE n

\* each square by the weight of its place in the buffer, wherever the window begins
SumOfSquares(s, buffer) ==
  LET sum[n \in 0..s.window] ==
        IF n = 0 THEN 0
        ELSE sum[n - 1] + buffer[n - 1] * buffer[n - 1] * Math("hanning", n - 1, s.window)
  IN  sum[s.window]

WindowWith(s, io, to) ==
  [k \in DOMAIN s.buffer |-> IF k \in s.received..s.received + to - 1 THEN io.in[1][k - s.received]
                                                                     ELSE s.buffer[k]]

EnvelopeOf(s, io, to) == SumOfSquares(s, WindowWith(s, io, to))

DspEnvelope(s, e, io) ==
  CASE IsNew(e) ->
         LET window == float_or(e.message, 1, 1024)
             interval == CASE is_float(e.message, 2) /\ is_float(e.message, 1) -> get_float(e.message, 2)
                           [] is_float(e.message, 1) -> ToBlocks(window \div 2)
                           [] OTHER -> window \div 2
             size == AtLeastABlock(window)
         IN  Idle([window |-> size, interval |-> AtLeastABlock(interval),
                   buffer |-> [k \in 0..((size + BlockSize - 1) \div BlockSize) * BlockSize - 1 |-> e.memory],
                   received |-> 0, since |-> 0], io)
    [] Processes(e) ->
         LET received == s.received + e.to
             since == s.since + e.to
             report == Math("dB", EnvelopeOf(s, io, e.to), 1)
         IN  [Idle([s EXCEPT !.buffer = WindowWith(s, io, e.to),
                             !.received = IF received >= s.window THEN 0 ELSE received,
                             !.since = IF since = s.interval THEN 0 ELSE since], io)
                EXCEPT !.does = IF since # s.interval THEN << >>
                                ELSE <<Schedule(1, <<Float(IF report < 0 THEN 0 ELSE report)>>, 0)>>]
    [] OTHER -> Idle(s, io)

-----------------------------------------------------------------------------
(* Tables.  The object of a name finds its table when it is registered.      *)

NoTable == "none"
Named(m) == IF is_symbol(m, 1) THEN get_symbol(m, 1) ELSE NoTable
SetsTable(e, inlet) == Hears(e, inlet) /\ is_symbol_str(e.message, 1, "set") /\ is_symbol(e.message, 2)
Finds(s, e, io) ==
  [s EXCEPT !.table = IF get_symbol(e.message, 2) \in DOMAIN io.tables THEN get_symbol(e.message, 2)
                                                                     ELSE NoTable]

\* the message that was promised for the end of what is playing
Outstanding(s) == IF s.outgoing = << >> THEN << >> ELSE <<Cancel(2, <<Bang>>, s.outgoing[1])>>

\* mutant: the bang of the play before is left
PlayTwice(s, io, start, duration, at) ==
  LET length == Len(io.tables[s.table])
      asked == IF duration = -1 THEN length ELSE start + duration
      end == IF asked > length THEN length ELSE asked
  IN  CASE start < 0 \/ duration < -1 -> Idle(s, io)
        [] start \in 0..length - 1 /\ duration >= -1 ->
             [Idle([s EXCEPT !.current = start, !.end = end, !.outgoing = <<at + end - start>>], io)
                EXCEPT !.does = <<Schedule(2, <<Bang>>, at + end - start)>>]
        [] OTHER -> Idle([s EXCEPT !.current = length], io)

playTable(s, io, start, duration, at) ==
  LET length == Len(io.tables[s.table])
      asked == IF duration = -1 THEN length ELSE start + duration
      end == IF asked > length THEN length ELSE asked
  IN  CASE start < 0 \/ duration < -1 -> Idle(s, io)
        [] start \in 0..length - 1 /\ duration >= -1 ->
             [Idle([s EXCEPT !.current = start, !.end = end, !.outgoing = <<at + end - start>>], io)
                EXCEPT !.does = Append(Outstanding(s), Schedule(2, <<Bang>>, at + end - start))]
        [] OTHER -> [Idle([s EXCEPT !.current = length, !.outgoing = << >>], io)
                       EXCEPT !.does = Outstanding(s)]

\* a table that was made shorter while it plays
Clipped(s, io) ==
  IF Len(io.tables[s.table]) < s.end THEN [s EXCEPT !.end = Len(io.tables[s.table])] ELSE s

\* when nothing is left, the whole block is silenced, the samples before the piece too
PlayPiece(s, io, from, to) ==
  LET remaining == s.end - s.current
      table == io.tables[s.table]
  IN  IF remaining <= 0 THEN Fills(s, io, 0, BlockSize, Zero)
      ELSE Fills([s EXCEPT !.current = @ + (to - from)], io, from, to,
                 [k \in Block |-> IF k - from < remaining THEN table[s.current + k - from + 1] ELSE 0])

DspTablePlay(s, e, io) ==
  CASE IsNew(e) -> Idle([table |-> Named(e.message), current |-> 0, end |-> 0, outgoing |-> << >>], io)
    [] HearsFloat(e, 1) -> playTable(s, io, get_float(e.message, 1), float_or(e.message, 2, -1), e.at)
    [] Hears(e, 1) /\ is_bang(e.message, 1) -> playTable(s, io, 0, -1, e.at)
    [] SetsTable(e, 1) -> Idle(Finds(s, e, io), io)
    [] Comes(e) -> [Idle([s EXCEPT !.outgoing = << >>], io) EXCEPT !.does = <<<<"send", e>>>>]
    [] Processes(e) /\ s.table # NoTable -> PlayPiece(Clipped(s, io), io, e.from, e.to)
    [] OTHER -> Idle(s, io)

\* the value at x, the first and the last value outside
Looked(table, x) ==
  CASE x <= 0 -> table[1] [] x >= Len(table) -> table[Len(table)] [] OTHER -> table[x + 1]

Reads(s, e, io, samples) ==
  CASE IsNew(e) -> Idle([table |-> Named(e.message), offset |-> 0], io)
    [] SetsTable(e, 1) -> Idle(Finds(s, e, io), io)
    [] HearsFloat(e, 2) -> Idle([s EXCEPT !.offset = get_float(e.message, 1)], io)
    [] Processes(e) /\ s.table # NoTable -> Fills(s, io, e.from, e.to, samples)
    [] OTHER -> Idle(s, io)

DspTableRead(s, e, io) ==
  Reads(s, e, io, [k \in Block |-> Looked(io.tables[s.table], Towards0(io.in[1][k] + s.offset, 1))])

\* between two values of the table
Interpolated(table, xf) ==
  LET xi == Towards0(xf, Fine)
  IN  IF xi \in 1..Len(table) - 2
        THEN table[xi + 1] + Math("/", (table[xi + 2] - table[xi + 1]) * (xf - xi * Fine), Fine)
        ELSE Looked(table, xi)

DspTableRead4(s, e, io) ==
  Reads(s, e, io, [k \in Block |-> Interpolated(io.tables[s.table], io.in[1][k] + s.offset)])

-----------------------------------------------------------------------------
(* Delay lines.  io.line is the [delwrite~] of the object's name.            *)

DelayLine(name, length) == [name |-> name, length |-> length, head |-> 0]
Silent(length) == <<[k \in 0..length |-> 0]>>

\* of the longest delay, a sample that is begun counts
WholeSamples(ms) == -((-(ms * SampleRate)) \div 1000)

\* a block more than the delay, in whole blocks
LineLength(samples) ==
  IF samples % BlockSize # 0 THEN ((samples \div BlockSize) + 2) * BlockSize ELSE samples + BlockSize

\* the last place repeats the first
DspDelayWrite(s, e, io) ==
  CASE IsNew(e) ->
         IF is_symbol(e.message, 1) /\ is_float(e.message, 2)
           THEN LET length == LineLength(WholeSamples(get_float(e.message, 2)))
                IN  [Idle(DelayLine(get_symbol(e.message, 1), length), io) EXCEPT !.out = Silent(length)]
           ELSE [Idle(DelayLine(NoTable, 0), io) EXCEPT !.out = << >>]
    [] Processes(e) ->
         [Idle([s EXCEPT !.head = IF @ + e.to >= s.length THEN 0 ELSE @ + e.to], io)
            EXCEPT !.out[1] = [k \in DOMAIN @ |->
              CASE k \in s.head..s.head + e.to - 1 -> io.in[1][k - s.head]
                [] k = s.length /\ s.head = 0 -> io.in[1][0]
                [] OTHER -> io.out[1][k]]]
    [] OTHER -> Idle(s, io)

DelayReceiver(name, delay) == [name |-> name, delayInSamples |-> delay]

\* mutant: an index before the line is left there
ToTheStart(index, line) == IF index < 0 THEN 0 ELSE index

\* an index before the line is behind its end
Around(index, line) == IF index < 0 THEN index + line.length ELSE index

\* a message is queued and not handled: the delay is that of the construction
DspDelayRead(s, e, io) ==
  CASE IsNew(e) -> Idle(IF is_symbol(e.message, 1) /\ is_float(e.message, 2)
                          THEN DelayReceiver(get_symbol(e.message, 1), Samples(get_float(e.message, 2)))
                          ELSE DelayReceiver(NoTable, 0), io)
    [] Processes(e) ->
         LET first == Around(io.line.head - e.to - s.delayInSamples, io.line)
             inBuffer == io.line.length - first
         IN  Fills(s, io, 0, e.to, [k \in Block |->
               io.line.buffer[IF first > io.line.length - e.to /\ k >= inBuffer THEN k - inBuffer ELSE first + k]])
    [] OTHER -> Idle(s, io)

\* delays are in thousandths of a sample
DelayAt(x, line) ==
  CASE x < 0 -> 0 [] x * SampleRate > line.length * 1000 -> line.length * 1000 [] OTHER -> x * SampleRate

TargetIndex(k, x, line) ==
  LET index == (line.head - BlockSize + k) * 1000 - DelayAt(x, line)
  IN  IF index < 0 THEN index + line.length * 1000 ELSE index

\* the whole block in each piece
DspVariableDelay(s, e, io) ==
  CASE IsNew(e) -> Idle(DelayReceiver(Named(e.message), 0), io)
    [] Processes(e) ->
         Fills(s, io, 0, BlockSize, [k \in Block |->
           LET index == TargetIndex(k, io.in[1][k], io.line)
               x0 == index \div 1000
               y0 == io.line.buffer[x0]
           IN  y0 + Math("/", (io.line.buffer[x0 + 1] - y0) * (index % 1000), 1000)])
    [] OTHER -> Idle(s, io)

-----------------------------------------------------------------------------
(* Named buses.  io.throws are the buffers of the [throw~]s of a name, in    *)
(* the order in which they were registered; io.remote is that of the         *)
(* [send~], and the zero buffer while there is none.                         *)

Copies(s, e, io, samples) ==
  CASE IsNew(e) -> Idle([name |-> Named(e.message)], io)
    [] Processes(e) -> Fills(s, io, 0, e.to, samples)
    [] OTHER -> Idle(s, io)

DspThrow(s, e, io) == Copies(s, e, io, io.in[1])
DspSend(s, e, io) == Copies(s, e, io, io.in[1])
DspReceive(s, e, io) == Copies(s, e, io, io.remote)

processMany(throws) == FoldLeft(LAMBDA sum, thrown : [k \in Block |-> sum[k] + thrown[k]], Zero, throws)

DspCatch(s, e, io) ==
  Copies(s, e, io, CASE io.throws = << >> -> Zero
                     [] Len(io.throws) = 1 -> io.throws[1]
                     [] OTHER -> processMany(io.throws))

-----------------------------------------------------------------------------
(* Beside the signal: messages of the block, and the channels of the host.   *)

\* mutant: the first sample of the block
SnapshotOfTheFirst(s, e, io) ==
  IF Hears(e, 1) /\ is_bang(e.message, 1)
    THEN [Idle(s, io) EXCEPT !.does = <<Send(1, <<Float(io.in[1][0])>>, e.at)>>]
    ELSE Idle(NoFields, io)

\* the sample at the message's place in the block
DspSnapshot(s, e, io) ==
  IF Hears(e, 1) /\ is_bang(e.message, 1)
    THEN [Idle(s, io) EXCEPT !.does = <<Send(1, <<Float(io.in[1][e.at - io.now])>>, e.at)>>]
    ELSE Idle(NoFields, io)

DspPrint(s, e, io) ==
  CASE IsNew(e) -> Idle([name |-> Named(e.message)], io)
    [] Hears(e, 1) /\ is_bang(e.message, 1) -> [Idle(s, io) EXCEPT !.does =
         <<Send(1, [k \in 1..BlockSize |-> Float(io.in[1][k - 1])], e.at)>>]
    [] OTHER -> Idle(s, io)

\* a bang for the start of the next block
DspBang(s, e, io) ==
  IF Processes(e) THEN [Idle(s, io) EXCEPT !.does = <<Schedule(1, <<Bang>>, 0)>>] ELSE Idle(NoFields, io)

\* the channels of the host are written to by every [dac~] and read by every [adc~]
DspAdc(io) == io.input
DspDac(s, e, io) ==
  IF Processes(e) THEN [Idle(s, io) EXCEPT !.out = [n \in DOMAIN io.out |-> [k \in Block |->
                                                      io.out[n][k] + io.in[n][k]]]]
                  ELSE Idle(NoFields, io)
DspInlet(io) == io.in[1]
DspOutlet(io) == io.in[1]
=============================================================================
