---------------------------- MODULE AudioSignals ----------------------------
(***************************************************************************)
(* The audio objects that compute a sample from those at their inlets      *)
(* (src/Dsp*.cpp): one operator for each class, its constructor, its       *)
(* process_message and its process function.                               *)
(*                                                                         *)
(*   Class(s, e, io)   with the fields s of the object and what is at its  *)
(*                     inlets and outlets io, returns what event e makes   *)
(*                     of the fields and of the outlets' buffers.          *)
(*                                                                         *)
(* An event is the construction, a message at an inlet, or a piece of the  *)
(* block to process: a block is cut at its messages.  Samples are integers *)
(* and a block is a function of 0..BlockSize - 1; inlets and outlets are   *)
(* those of the code plus one.  The build is that of an x86 with SSE4.     *)
(***************************************************************************)
EXTENDS MessageArithmetic

CONSTANTS BlockSize,                \* samples of a block
          SampleRate,               \* samples of a second
          Coefficients(_, _, _)     \* of a filter, its frequency and its q

ASSUME AudioAssumption == BlockSize \in Nat \ {0} /\ BlockSize % 8 = 0 /\ SampleRate \in Nat \ {0}

Block == 0..BlockSize - 1
Zero == [k \in Block |-> 0]

Construct(arguments, memory) == [kind |-> "new", message |-> arguments, memory |-> memory]
Process(from, to) == [kind |-> "process", from |-> from, to |-> to]
Receive(inlet, m, at) == [kind |-> "message", inlet |-> inlet, message |-> m, at |-> at]

IsNew(e) == e.kind = "new"
Hears(e, inlet) == e.kind = "message" /\ e.inlet = inlet
HearsFloat(e, inlet) == Hears(e, inlet) /\ is_float(e.message, 1)
Processes(e) == e.kind = "process"

\* what an event did: nothing, or samples were written to the first outlet
Idle(s, io) == [state |-> s, out |-> io.out, does |-> << >>]
Written(block, from, to, samples) ==
  [k \in DOMAIN block |-> IF k \in from..to - 1 THEN samples[k] ELSE block[k]]
Fills(s, io, from, to, samples) ==
  [Idle(s, io) EXCEPT !.out[1] = Written(@, from, to, samples)]

-----------------------------------------------------------------------------
(* Two operands: two signals, or a signal and the constant of the right      *)
(* inlet.                                                                    *)

Operand(s, io, k) == IF io.connected = {1, 2} THEN io.in[2][k] ELSE s.constant

Operates(s, e, io, samples, from, to) ==
  CASE IsNew(e) -> Idle([constant |-> float_or(e.message, 1, 0)], io)
    [] HearsFloat(e, 2) -> Idle([s EXCEPT !.constant = get_float(e.message, 1)], io)
    [] Processes(e) -> Fills(s, io, IF io.connected = {1, 2} THEN 0 ELSE from, to, samples)
    [] OTHER -> Idle(s, io)

\* with a constant the piece is (fromIndex, fromIndex): nothing is written
DspAdd(s, e, io) ==
  Operates(s, e, io, [k \in Block |-> io.in[1][k] + Operand(s, io, k)],
           e.from, IF io.connected = {1, 2} THEN e.to ELSE e.from)

\* mutant: the constant is used on the whole block
SubtractWhole(s, e, io) ==
  Operates(s, e, io, [k \in Block |-> io.in[1][k] - Operand(s, io, k)], 0, BlockSize)

DspSubtract(s, e, io) ==
  Operates(s, e, io, [k \in Block |-> io.in[1][k] - Operand(s, io, k)], e.from, e.to)

DspMultiply(s, e, io) ==
  Operates(s, e, io, [k \in Block |-> io.in[1][k] * Operand(s, io, k)], e.from, e.to)

DspDivide(s, e, io) ==
  IF HearsFloat(e, 2) /\ get_float(e.message, 1) = 0
    THEN Idle([s EXCEPT !.constant = 1], io)
    ELSE Operates(s, e, io, [k \in Block |-> Math("/", io.in[1][k], Operand(s, io, k))], e.from, e.to)

Least(x, y) == IF x <= y THEN x ELSE y
DspMinimum(s, e, io) ==
  Operates(s, e, io, [k \in Block |-> Least(io.in[1][k], Operand(s, io, k))], e.from, e.to)

DspImplicitAdd(io) == [k \in Block |-> io.in[1][k] + io.in[2][k]]

\* the process function for two signals has no body
DspLog(s, e, io) ==
  CASE IsNew(e) -> Idle([base |-> float_or(e.message, 1, 0)], io)    \* 0: natural
    [] HearsFloat(e, 2) -> Idle(IF get_float(e.message, 1) <= 0 THEN s
                                ELSE [s EXCEPT !.base = get_float(e.message, 1)], io)
    [] Processes(e) /\ io.connected # {1, 2} ->
         Fills(s, io, e.from, e.to,
               [k \in Block |-> Math("log~", Floored(io.in[1][k], -1000, io.in[1][k]), s.base)])
    [] OTHER -> Idle(s, io)

DspClip(s, e, io) ==
  CASE IsNew(e) -> Idle([lowerBound |-> float_or(e.message, 1, -1),
                         upperBound |-> float_or(e.message, 2, 1)], io)
    [] HearsFloat(e, 2) -> Idle([s EXCEPT !.lowerBound = get_float(e.message, 1)], io)
    [] HearsFloat(e, 3) -> Idle([s EXCEPT !.upperBound = get_float(e.message, 1)], io)
    [] Processes(e) -> Fills(s, io, e.from, e.to,
         [k \in Block |-> CASE io.in[1][k] < s.lowerBound -> s.lowerBound
                            [] io.in[1][k] > s.upperBound -> s.upperBound
                            [] OTHER -> io.in[1][k]])
    [] OTHER -> Idle(s, io)

DspSignal(s, e, io) ==
  CASE IsNew(e) -> Idle([constant |-> float_or(e.message, 1, 0)], io)
    [] HearsFloat(e, 1) -> Idle([s EXCEPT !.constant = get_float(e.message, 1)], io)
    [] Processes(e) -> Fills(s, io, e.from, e.to, [k \in Block |-> s.constant])
    [] OTHER -> Idle(s, io)

-----------------------------------------------------------------------------
(* Of the whole block: these take no messages.                               *)

Whole(s, e, io, samples) ==
  IF Processes(e) THEN Fills(s, io, 0, e.to, samples) ELSE Idle(NoFields, io)

DspSqrt(s, e, io) ==
  Whole(s, e, io, [k \in Block |-> Math("sqrt", IF io.in[1][k] > 0 THEN io.in[1][k] ELSE 0, 1)])
DspReciprocalSqrt(s, e, io) ==
  Whole(s, e, io, [k \in Block |-> Math("rsqrt", Floored(io.in[1][k], 0, io.in[1][k]), 1)])
DspWrap(s, e, io) == Whole(s, e, io, [k \in Block |-> Math("fraction", io.in[1][k], 1)])
DspCosine(s, e, io) ==
  Whole(s, e, io, [k \in Block |-> Math("cos_table", Magnitude(io.in[1][k]), SampleRate)])
DspNoise(s, e, io) == Whole(s, e, io, io.random)
DspRfft(s, e, io) == Idle(NoFields, io)         \* of another platform
DspRifft(s, e, io) == Idle(NoFields, io)

\* the filter of its process function is a comment: silence at the left outlet
DspVCF(s, e, io) ==
  CASE IsNew(e) -> Idle([q |-> 1], io)
    [] HearsFloat(e, 3) -> Idle([s EXCEPT !.q = get_float(e.message, 1)], io)
    [] Processes(e) -> Fills(s, io, e.from, e.to, Zero)
    [] OTHER -> Idle(s, io)

-----------------------------------------------------------------------------
(* Oscillators.  The phase is a vector of unsigned 16 bit indices that is    *)
(* moved as a whole; samples before or after a whole vector are computed one *)
(* by one, with a step that is taken from the vector's increment.            *)

Unsigned(x) == x % 65536
Short(x) == ((x + 32768) % 65536) - 32768
Step(frequency) == Short(Math("step", frequency, SampleRate))
CosTable(index) == Math("cos_table", Unsigned(index), 65536)

\* samples up to the next vector of the block
UpTo(size, from) == (size - (from % size)) % size

\* a piece that ends before its first whole vector does not come back from the loop:
\* it has no value here
OscSupports(from, to) == to - from >= UpTo(8, from)

\* the fields behind a piece: what the head advanced is lost
Advanced(s, from, to) ==
  LET odd == Unsigned(8 * s.step) \div 8
      n == to - from - UpTo(8, from)
      vectors == Unsigned(s.index + (n - (n % 8)) * s.step)
  IN  IF n % 8 = 0 THEN [s EXCEPT !.index = vectors]
      ELSE [s EXCEPT !.index = Unsigned(vectors + (n % 8) * odd), !.spacing = odd]

OscSample(s, from, to, k) ==
  LET odd == Unsigned(8 * s.step) \div 8
      head == UpTo(8, from)
      j == k - from - head
      n == to - from - head
  IN  CASE j < 0 -> CosTable(s.index + (k - from) * odd)
        [] j \in 0..n - (n % 8) - 1 -> CosTable(s.index + (j % 8) * s.spacing + (j - (j % 8)) * s.step)
        [] OTHER -> CosTable(s.index + (n - (n % 8)) * s.step + (j - (n - (n % 8))) * odd)

DspOsc(s, e, io) ==
  CASE IsNew(e) -> LET step == Step(float_or(e.message, 1, 0))
                   IN  Idle([step |-> step, spacing |-> step, index |-> 0], io)
    [] HearsFloat(e, 1) -> LET step == Step(Magnitude(get_float(e.message, 1)))
                           IN  Idle([s EXCEPT !.step = step, !.spacing = step], io)
    [] Processes(e) /\ OscSupports(e.from, e.to) ->
         Fills(Advanced(s, e.from, e.to), io, e.from, e.to,
               [k \in Block |-> OscSample(s, e.from, e.to, k)])
    [] ~Processes(e) /\ ~IsNew(e) /\ ~HearsFloat(e, 1) -> Idle(s, io)

(***************************************************************************)
(* [phasor~]: four indices, which nothing initialises; memory is what was  *)
(* there.  The index of the samples outside whole vectors is read from the *)
(* vector only for one or three of them, and is not initialised otherwise. *)
(***************************************************************************)
PhasorScalar(s, io, from, to) ==
  LET odd == Unsigned(4 * s.step) \div 4
      head == UpTo(4, from)
      n == to - from - head
      n4 == n - (n % 4)
      first == IF head = 3 THEN s.indicies[0] ELSE s.memory
      start == [l \in 0..3 |-> IF head = 0 THEN s.indicies[l] ELSE Unsigned(first + (head + l) * odd)]
      last == CASE n % 4 = 3 -> s.indicies[3]
                [] head > 0 -> first + head * odd
                [] OTHER -> s.memory
  IN  Fills([s EXCEPT !.indicies = [l \in 0..3 |->
                IF n % 4 = 0 THEN Unsigned(start[l] + n4 * s.step)
                             ELSE Unsigned(last + ((n % 4) + l) * odd)]],
            io, from, to,
            [k \in Block |-> LET j == k - from - head IN
               CASE j < 0 -> Unsigned(first + (k - from) * odd)
                 [] j \in 0..n4 - 1 -> Unsigned(start[j % 4] + (j - (j % 4)) * s.step)
                 [] OTHER -> Unsigned(last + (j - n4) * odd)])

\* the sum of the steps at the inlet
PhasorSignal(s, io) ==
  LET total[k \in Block] == (IF k = 0 THEN s.indicies[3] ELSE total[k - 1]) + Step(io.in[1][k])
  IN  Fills([s EXCEPT !.indicies = [l \in 0..3 |-> Unsigned(total[BlockSize - 4 + l])]], io, 0, BlockSize,
            [k \in Block |-> Unsigned(total[k])])

DspPhasor(s, e, io) ==
  CASE IsNew(e) -> Idle([step |-> Step(float_or(e.message, 1, 0)),
                         indicies |-> [l \in 0..3 |-> e.memory], memory |-> e.memory], io)
    [] HearsFloat(e, 1) -> Idle([s EXCEPT !.step = Step(get_float(e.message, 1))], io)
    [] Processes(e) /\ 1 \in io.connected -> PhasorSignal(s, io)
    [] Processes(e) /\ 1 \notin io.connected /\ e.to - e.from >= UpTo(4, e.from) ->
         PhasorScalar(s, io, e.from, e.to)
    [] ~Processes(e) /\ ~IsNew(e) /\ ~HearsFloat(e, 1) -> Idle(s, io)

-----------------------------------------------------------------------------
(* Filters: b[1..3] of the input, b[4..5] of the output, and the last two    *)
(* samples of each.  A "clear" forgets the input's, and writes to the block. *)

\* both with the two samples before the piece
FilterInput(s, io, from, to) ==
  [k \in from - 2..to - 1 |-> IF k = from - 1 THEN s.x1 ELSE IF k = from - 2 THEN s.x2 ELSE io.in[1][k]]
FilterOutput(s, x, from, to) ==
  LET y[k \in from - 2..to - 1] ==
        IF k = from - 1 THEN s.y1 ELSE IF k = from - 2 THEN s.y2
        ELSE s.b[1] * x[k] + s.b[2] * x[k - 1] + s.b[3] * x[k - 2] - s.b[4] * y[k - 1] - s.b[5] * y[k - 2]
  IN  y

\* mutant: what the output was is forgotten between pieces
FilterForgets(s, e, io) ==
  LET x == FilterInput(s, io, e.from, e.to)
      y == FilterOutput([s EXCEPT !.y1 = 0, !.y2 = 0], x, e.from, e.to)
  IN  Fills([s EXCEPT !.x1 = x[e.to - 1], !.x2 = x[e.to - 2]], io, e.from, e.to, y)

DspFilter(s, e, io) ==
  LET x == FilterInput(s, io, e.from, e.to)
      y == FilterOutput(s, x, e.from, e.to)
  IN  Fills([s EXCEPT !.x1 = x[e.to - 1], !.x2 = x[e.to - 2], !.y1 = y[e.to - 1], !.y2 = y[e.to - 2]],
            io, e.from, e.to, y)

Taps(b) == [b |-> b, x1 |-> 0, x2 |-> 0, y1 |-> 0, y2 |-> 0]
Cleared(s, io) ==
  [Idle([s EXCEPT !.x1 = 0, !.x2 = 0], io) EXCEPT !.out[1][0] = 0, !.out[1][1] = 0]
Clears(e) == Hears(e, 1) /\ is_symbol_str(e.message, 1, "clear")

\* at most half the sample rate, and a frequency for one below zero
Frequency(fc, below) ==
  CASE 2 * fc > SampleRate -> SampleRate \div 2 [] fc < 0 -> below [] OTHER -> fc

DspLowpassFilter(s, e, io) ==
  CASE IsNew(e) -> Idle(Taps(Coefficients("lop~", Frequency(float_or(e.message, 1, SampleRate \div 2), 0), 0)), io)
    [] HearsFloat(e, 2) -> Idle([s EXCEPT !.b = Coefficients("lop~", Frequency(get_float(e.message, 1), 0), 0)], io)
    [] Clears(e) -> Cleared(s, io)
    [] Processes(e) -> DspFilter(s, e, io)
    [] OTHER -> Idle(s, io)

DspHighpassFilter(s, e, io) ==
  CASE IsNew(e) -> Idle(Taps(Coefficients("hip~", Frequency(float_or(e.message, 1, 0), 10), 0)), io)
    [] HearsFloat(e, 2) -> Idle([s EXCEPT !.b = Coefficients("hip~", Frequency(get_float(e.message, 1), 10), 0)], io)
    [] Clears(e) -> Cleared(s, io)
    [] Processes(e) -> DspFilter(s, e, io)
    [] OTHER -> Idle(s, io)

Resonance(q) == IF q < 0 THEN 0 ELSE q

\* a new frequency or q is computed with the arguments of the object for the other one
DspBandpassFilter(s, e, io) ==
  CASE IsNew(e) -> LET fc == float_or(e.message, 1, SampleRate \div 2)
                       q == float_or(e.message, 2, 1)
                   IN  Idle(Taps(Coefficients("bp~", Frequency(fc, 0), Resonance(q)))
                              @@ [fc |-> fc, q |-> q], io)
    [] HearsFloat(e, 2) -> Idle([s EXCEPT !.b =
         Coefficients("bp~", Frequency(get_float(e.message, 1), 0), Resonance(s.q))], io)
    [] HearsFloat(e, 3) -> Idle([s EXCEPT !.b =
         Coefficients("bp~", Frequency(s.fc, 0), Resonance(get_float(e.message, 1)))], io)
    [] Clears(e) -> Cleared(s, io)
    [] Processes(e) -> DspFilter(s, e, io)
    [] OTHER -> Idle(s, io)
=============================================================================
