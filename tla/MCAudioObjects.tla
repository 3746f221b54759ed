---------------------------- MODULE MCAudioObjects ----------------------------
(***************************************************************************)
(* Patches of audio objects for TLC, and what each of them has to be heard *)
(* as.  A block has 8 samples, and a sample takes 2 ms.  What the host     *)
(* speaks and the messages of a block are chosen anew for each block.      *)
(***************************************************************************)
EXTENDS AudioObjects

LOCAL INSTANCE SequencesExt
LOCAL INSTANCE FiniteSetsExt

MCMath(name, x, y) ==
  CASE name = "/" -> IF y = 0 THEN 0 ELSE Towards0(x, y)
    [] name = "sqrt" -> CHOOSE r \in 0..x : r * r <= x /\ (r + 1) * (r + 1) > x
    [] name = "fraction" -> x % 4
    [] name = "hanning" -> x * (y - 1 - x)
    [] OTHER -> x

MCCoefficients(class, fc, q) ==
  CASE class = "lop~" -> <<1 + (fc % 2), 0, 0, -1, 0>>
    [] class = "hip~" -> <<1 + (fc % 2), -1 - (fc % 2), 0, -1, 0>>
    [] class = "bp~" -> <<1 + (q % 2), 0, -1, 1, 1 - (fc % 2)>>

F(x) == <<Float(x)>>
S(s) == <<Symbol(s)>>
Bangs == <<Bang>>

\* samples of a block
Flat(x) == [k \in Block |-> x]
Rising(x) == [k \in Block |-> x + k]
Pulse(at, x) == [k \in Block |-> IF k = at THEN x ELSE 0]
Mono(samples) == <<samples, Zero>>

\* objects as <<class, arguments, wires of each inlet>>
AudioPatch(name, objects, says, scores) ==
  [name |-> name, class |-> [o \in DOMAIN objects |-> objects[o][1]],
   arguments |-> [o \in DOMAIN objects |-> objects[o][2]],
   wires |-> [o \in DOMAIN objects |-> objects[o][3]],
   inputs |-> says, scores |-> scores,
   tables |-> [n \in {} |-> << >>], changes |-> {}, noise |-> {Zero}, memory |-> 77]
WithTable(p, table, shorter) ==
  [p EXCEPT !.tables = [n \in {"t"} |-> table], !.changes = {<<"t", shorter>>, <<"t", table>>}]

From(o) == << <<o, 1>> >>
Left == << <<1, 1>> >>      \* of an [adc~] that is the first object
RightOf1 == << <<1, 2>> >>
Mic == <<"adc~", << >>, << >> >>
Silence == {<<Zero, Zero>>}
NoScore == { << >> }

\* one message of those at one of these samples, or none
One(object, inlet, samples, messages) ==
  {<< <<k, object, inlet, m>> >> : k \in samples, m \in messages} \cup NoScore

Operands == AudioPatch("operands",
  << Mic, <<"-~", F(1), <<Left>>>>, <<"*~", F(2), <<From(2)>>>>, <<"clip~", F(-4) \o F(9), <<From(3)>>>>,
     <<"min~", F(6), <<From(4)>>>>, <<"sig~", F(3), << >>>>, <<"dac~", << >>, <<From(5), From(6)>>>> >>,
  {Mono(Rising(0)), Mono(Rising(-5))},
  { << >>, << <<0, 2, 2, F(3)>>, <<5, 4, 3, F(5)>> >>, << <<3, 2, 2, F(-1)>>, <<3, 6, 1, F(9)>>, <<3, 2, 2, F(2)>> >>,
    << <<4, 3, 2, F(-1)>>, <<6, 4, 2, F(0)>>, <<7, 5, 2, F(1)>> >> })

TwoSignals == AudioPatch("two signals",
  << Mic, <<"+~", << >>, <<Left, RightOf1>>>>, <<"/~", F(2), <<From(2)>>>>, <<"*~", << >>, <<Left, RightOf1>>>>,
     <<"dac~", << >>, <<From(3), From(4) \o From(2)>>>> >>,
  {<<Rising(1), Flat(2)>>, <<Flat(4), Rising(-3)>>},
  One(3, 2, {2, 7}, {F(0), F(3)}) \cup One(4, 2, {3}, {F(5)}))

Delay == AudioPatch("delay",
  << Mic, <<"delwrite~", S("d") \o F(22), <<Left>>>>, <<"delread~", S("d") \o F(22), << >>>>,
     <<"vd~", S("d"), <<RightOf1>>>>, <<"dac~", << >>, <<From(3), From(4)>>>> >>,
  {<<Rising(2), Flat(10)>>, <<Pulse(3, 8), Flat(13)>>, <<Rising(20), Flat(0)>>}, NoScore)

Echo == AudioPatch("echo",
  << Mic, <<"delread~", S("d") \o F(22), << >>>>, <<"delwrite~", S("d") \o F(32), <<Left \o From(2)>>>>,
     <<"dac~", << >>, <<Left \o From(2), << >>>>>> >>,
  {Mono(Rising(2)), Mono(Pulse(6, 8))}, NoScore)

Buses == AudioPatch("buses",
  << Mic, <<"throw~", S("a"), <<Left>>>>, <<"throw~", S("a"), <<RightOf1>>>>, <<"throw~", S("b"), <<Left>>>>,
     <<"throw~", S("a"), <<Left>>>>, <<"catch~", S("a"), << >>>>, <<"catch~", S("c"), << >>>>,
     <<"catch~", S("b"), << >>>>, <<"receive~", S("s"), << >>>>,
     <<"send~", S("s"), <<RightOf1>>>>, <<"receive~", S("s"), << >>>>, <<"-~", << >>, <<From(11), From(9)>>>>,
     <<"dac~", << >>, <<From(6) \o From(7) \o From(8), From(12)>>>> >>,
  {<<Rising(1), Flat(5)>>, <<Flat(2), Rising(3)>>}, NoScore)

Ramps == AudioPatch("line",
  << <<"line~", << >>, << >>>>, <<"dac~", << >>, <<From(1), << >>>>>> >>, Silence,
  One(1, 1, {0, 3}, {F(24) \o F(24), F(0) \o F(6), F(12) \o F(8)})
    \cup { << <<2, 1, 1, F(5)>>, <<4, 1, 1, S("x")>>, <<6, 1, 1, F(9) \o F(8)>> >> })

Paths == AudioPatch("vline",
  << <<"vline~", << >>, << >>>>, <<"dac~", << >>, <<From(1), << >>>>>> >>, Silence,
  One(1, 1, {1, 5}, {F(7) \o F(0) \o F(24), F(9) \o F(4) \o F(10)})
    \cup One(1, 1, {3}, {F(5), S("stop"), F(4) \o F(6)}))

Oscillators == AudioPatch("oscillators",
  << Mic, <<"osc~", F(100), << >>>>, <<"phasor~", << >>, <<RightOf1>>>>, <<"dac~", << >>, <<From(2), From(3)>>>> >>,
  {<<Zero, Rising(9000)>>, <<Zero, Flat(-100)>>}, One(2, 1, {0}, {F(9001), F(-30000), F(7)}))

Phasors == AudioPatch("phasor",
  << <<"phasor~", F(10), << >>>>, <<"dac~", << >>, <<From(1), << >>>>>> >>, Silence,
  One(1, 1, {0, 4}, {F(-2000), F(9), F(16384)}))

Filters == AudioPatch("filters",
  << Mic, <<"lop~", F(10), <<Left>>>>, <<"bp~", F(10) \o F(1), <<Left>>>>, <<"dac~", << >>, <<From(2), From(3)>>>> >>,
  {Mono(Rising(1)), Mono(Pulse(5, 3))},
  { << >>, << <<3, 2, 2, F(11)>>, <<4, 3, 3, F(2)>> >>, << <<0, 2, 2, F(4)>>, <<1, 3, 3, F(1)>>, <<1, 2, 2, F(5)>> >> })

HighPass == AudioPatch("highpass",
  << Mic, <<"hip~", F(10), <<Left>>>>, <<"dac~", << >>, <<From(2), << >>>>>> >>,
  {Mono(Rising(1)), Mono(Pulse(5, 3))}, One(2, 2, {1, 3, 6}, {F(-1), F(13)}))

Player == WithTable(AudioPatch("tabplay",
  << <<"tabplay~", S("t"), << >>>>, <<"dac~", << >>, <<From(1), << >>>>>> >>, Silence,
  One(1, 1, {0, 3}, {Bangs, F(4) \o F(5)}) \cup { << <<1, 1, 1, F(2) \o F(3)>>, <<6, 1, 1, Bangs>> >> }),
  [n \in 1..11 |-> 100 + n], [n \in 1..6 |-> 200 + n])

Readers == WithTable(AudioPatch("tabread",
  << Mic, <<"tabread~", S("t"), <<Left>>>>, <<"tabread4~", S("t"), <<RightOf1>>>>,
     <<"dac~", << >>, <<From(2), From(3)>>>> >>,
  {<<Rising(-2), Rising(0)>>, <<Rising(5), Rising(9)>>},
  One(2, 2, {3}, {F(2)}) \cup One(3, 2, {4}, {F(1)}) \cup One(2, 1, {2}, {S("set") \o S("u")})),
  [n \in 1..9 |-> 10 * n], [n \in 1..4 |-> 0 - 20 * n])

Envelopes == AudioPatch("env",
  << Mic, <<"env~", F(16), <<Left>>>>, <<"env~", F(8) \o F(16), <<Left>>>>, <<"env~", F(5), <<Left>>>>,
     <<"env~", F(12), <<Left>>>>, <<"env~", F(16) \o F(12), <<Left>>>> >>,
  {Mono(Rising(1)), Mono(Pulse(5, 9)), Mono(Zero)}, NoScore)

Meters == AudioPatch("meters",
  << Mic, <<"snapshot~", << >>, <<Left>>>>, <<"print~", << >>, <<Left>>>>, <<"bang~", << >>, << >>>> >>,
  {Mono(Rising(1)), Mono(Pulse(5, 9))},
  { << <<2, 2, 1, Bangs>>, <<5, 3, 1, Bangs>>, <<5, 2, 1, Bangs>> >>, << <<7, 2, 1, Bangs>> >>,
    << <<0, 2, 1, Bangs>>, <<0, 2, 1, S("x")>> >> })

Functions == [AudioPatch("functions",
  << Mic, <<"sqrt~", << >>, <<Left>>>>, <<"cos~", << >>, <<From(2)>>>>, <<"noise~", << >>, << >>>>,
     <<"wrap~", << >>, <<From(4)>>>>, <<"rsqrt~", << >>, <<Left>>>>, <<"log~", F(2), <<From(6)>>>>,
     <<"vcf~", << >>, <<Left, Left>>>>, <<"rfft~", << >>, <<Left>>>>, <<"rifft~", << >>, <<From(9), From(9)>>>>,
     <<"inlet~", << >>, <<From(3)>>>>, <<"outlet~", << >>, <<From(11)>>>>,
     <<"dac~", << >>, <<From(12) \o From(8) \o From(10), From(5)>>>> >>,
  {Mono(Rising(-4)), Mono(Flat(9))},
  One(7, 2, {3}, {F(0), F(10)}) \cup One(8, 3, {2}, {F(1)}))
  EXCEPT !.noise = {Flat(1), Rising(-3)}]

AllPatches == {Operands, TwoSignals, Delay, Echo, Buses, Ramps, Paths, Oscillators, Phasors, Filters, HighPass,
               Player, Readers, Envelopes, Meters, Functions}

\* [env~] needs one more: its buffer is filled, and then half of it again
BlocksOf(p) == IF p.name = "env" THEN 4 ELSE 3

-----------------------------------------------------------------------------
Plays(name) == patch.name = name /\ place = -1
SamplesHeard == 1..now                                  \* heard so far; sample t is of time t - 1
BlockOf(at) == at \div BlockSize

FromHost(o, inlet, until) ==
  SelectSeq(asked, LAMBDA m : m.of = o /\ m.inlet = inlet /\ m.at <= until)
LatestFloat(o, inlet, until, default) ==
  LET floats == SelectSeq(FromHost(o, inlet, until), LAMBDA m : is_float(m.message, 1))
  IN  IF floats = << >> THEN default ELSE get_float(floats[Len(floats)].message, 1)
Past(samples, t) == IF t \in DOMAIN samples THEN samples[t] ELSE 0

(***************************************************************************)
(* Each sample is computed with the operands that the last message before  *)
(* it has set: it is not to be heard that the block is processed in pieces *)
(* (DspObject::process_functionMessage), whatever the messages are and     *)
(* however many come at one sample; and with two signals the constant is   *)
(* out of the computation (onInletConnectionUpdate).                       *)
(***************************************************************************)
EachSampleByItsMessages ==
  /\ Plays("operands") => \A t \in SamplesHeard :
       LET Set(o, inlet, default) == LatestFloat(o, inlet, t - 1, default)
           x == (spoken[1][t] - Set(2, 2, 1)) * Set(3, 2, 2)
           lower == Set(4, 2, -4)
           upper == Set(4, 3, 9)
           clipped == CASE x < lower -> lower [] x > upper -> upper [] OTHER -> x
       IN  /\ heard[1][t] = (IF clipped < Set(5, 2, 6) THEN clipped ELSE Set(5, 2, 6))
           /\ heard[2][t] = Set(6, 1, 3)
  /\ Plays("two signals") => \A t \in SamplesHeard :
       LET sum == spoken[1][t] + spoken[2][t]
           divisor == LatestFloat(3, 2, t - 1, 2)
       IN  /\ heard[1][t] = Towards0(sum, IF divisor = 0 THEN 1 ELSE divisor)
           /\ heard[2][t] = spoken[1][t] * spoken[2][t] + sum

(***************************************************************************)
(* What is heard from a delay line is what was written the delay before,   *)
(* to the sample, however the line is wrapped, for the longest delay too;  *)
(* a delay between two samples lies between them.  Where the line is read  *)
(* before it is written, as in a feedback loop, the delay is a block more. *)
(***************************************************************************)
DelayedExactly ==
  /\ Plays("delay") => \A t \in SamplesHeard :
       LET ms == spoken[2][t]
           a == Past(spoken[1], t - (ms \div 2))
           b == Past(spoken[1], t - ((ms + 1) \div 2))
       IN  /\ heard[1][t] = Past(spoken[1], t - 11)
           /\ heard[2][t] = b + Towards0(a - b, 2)
  /\ Plays("echo") => \A t \in SamplesHeard :
       heard[1][t] = spoken[1][t] + Past(heard[1], t - 11 - BlockSize)

(***************************************************************************)
(* A [catch~] plays the sum of all [throw~]s of its name and of no other,  *)
(* those of this block; a [receive~] plays the [send~] of its name, the    *)
(* block before if it is processed before it.                              *)
(***************************************************************************)
BusesSum ==
  Plays("buses") => \A t \in SamplesHeard :
    /\ heard[1][t] = 2 * spoken[1][t] + spoken[2][t] + spoken[1][t]
    /\ t > BlockSize => heard[2][t] = spoken[2][t] - spoken[2][t - BlockSize]

(***************************************************************************)
(* A ramp of [line~] is at its target when its time is over, and stays     *)
(* there until the next message; on the way there no step is larger than   *)
(* the slope.  So it is in whatever pieces the ramp is computed.           *)
(***************************************************************************)
Ramping(m) == is_float(m.message, 1)
TimeOf(m) == IF Len(m.message) = 1 THEN 0 ELSE get_float(m.message, 2) \div 2
LineArrives ==
  Plays("line") => \A t \in SamplesHeard :
    LET ramps == SelectSeq(FromHost(1, 1, t - 1), Ramping)
        ramp == ramps[Len(ramps)]
        since == t - 1 - ramp.at
        first == heard[1][ramp.at + 1]
    IN  ramps # << >> =>
          IF since >= TimeOf(ramp) THEN heard[1][t] = get_float(ramp.message, 1)
          ELSE heard[1][t] = first + since * Towards0(get_float(ramp.message, 1) - first, TimeOf(ramp))

(***************************************************************************)
(* [vline~] is at the target of the last message in effect, when its delay *)
(* and its time are over: a message takes away what was promised for later *)
(* than itself, and a "stop" all that was promised.  (A delayed message    *)
(* takes effect at the start of its block, at the earliest of the next.)   *)
(***************************************************************************)
Path(n) == is_float(asked[n].message, 1)
Promise(n) == asked[n].at + (IF Len(asked[n].message) = 3 THEN get_float(asked[n].message, 3) \div 2 ELSE 0)
Immediate(n) == Promise(n) = asked[n].at
Effective(n) ==
  CASE Immediate(n) -> asked[n].at
    [] BlockOf(Promise(n)) = BlockOf(asked[n].at) -> (BlockOf(asked[n].at) + 1) * BlockSize
    [] OTHER -> BlockOf(Promise(n)) * BlockSize
Overtaken(n) ==
  \E k \in n + 1..Len(asked) :
    /\ BlockOf(asked[k].at) < BlockOf(Effective(n))
    /\ Path(k) => Promise(k) < Promise(n)
Earlier(k, n) ==
  \/ Effective(k) < Effective(n)
  \/ /\ Effective(k) = Effective(n)
     /\ \/ ~Immediate(k) /\ Immediate(n)
        \/ Immediate(k) = Immediate(n) /\ (Promise(k) < Promise(n) \/ (Promise(k) = Promise(n) /\ k < n))
VlineArrives ==
  Plays("vline") => \A t \in SamplesHeard :
    LET inEffect == {k \in DOMAIN asked : ~Overtaken(k) /\ Effective(k) < t}
        last == CHOOSE n \in inEffect : \A k \in inEffect \ {n} : Earlier(k, n)
        time == IF Len(asked[last].message) = 1 THEN 0 ELSE get_float(asked[last].message, 2) \div 2
    IN  inEffect # {} /\ Path(last) /\ Effective(last) + time < t
          => heard[1][t] = get_float(asked[last].message, 1)

(***************************************************************************)
(* The phase of an oscillator is never lost: between two samples it moves  *)
(* by the step of the frequency of that time, modulo a turn, over pieces   *)
(* and blocks (of whole vectors); so does that of a [phasor~], which moves *)
(* with its inlet, and that of one without, whose vector moves as a whole. *)
(***************************************************************************)
OscillatorsKeepPhase ==
  /\ Plays("oscillators") => \A t \in 2..now :
       /\ heard[1][t] = Unsigned(heard[1][t - 1] + Magnitude(LatestFloat(2, 1, t - 2, 100)))
       /\ heard[2][t] = Unsigned(heard[2][t - 1] + spoken[2][t])
  /\ Plays("phasor") => \A t \in 5..now :
       heard[1][t] = Unsigned(heard[1][t - 4] + 4 * LatestFloat(1, 1, t - 5, 10))

(***************************************************************************)
(* A filter is one recurrence over all samples: its memory is carried over *)
(* pieces and blocks, and a message changes its coefficients from its own  *)
(* sample on.  [bp~] takes the argument it was made with for the one of    *)
(* frequency and q that the last message does not give.                    *)
(***************************************************************************)
Filtered(b, x, y, t) ==
  b[1] * Past(x, t) + b[2] * Past(x, t - 1) + b[3] * Past(x, t - 2) - b[4] * Past(y, t - 1) - b[5] * Past(y, t - 2)
BandPass(t) ==
  LET news == SelectSeq(asked, LAMBDA m : m.of = 3 /\ m.at < t)
      last == news[Len(news)]
  IN  CASE news = << >> -> MCCoefficients("bp~", 10, 1)
        [] news # << >> /\ last.inlet = 2 -> MCCoefficients("bp~", get_float(last.message, 1), 1)
        [] OTHER -> MCCoefficients("bp~", 10, get_float(last.message, 1))
FilterIsSeamless ==
  /\ Plays("filters") => \A t \in SamplesHeard :
       /\ heard[1][t] = Filtered(MCCoefficients("lop~", LatestFloat(2, 2, t - 1, 10), 0), spoken[1], heard[1], t)
       /\ heard[2][t] = Filtered(BandPass(t), spoken[1], heard[2], t)
  /\ Plays("highpass") => \A t \in SamplesHeard :
       LET fc == LatestFloat(2, 2, t - 1, 10)
       IN  heard[1][t] = Filtered(MCCoefficients("hip~", IF fc < 0 THEN 10 ELSE fc, 0), spoken[1], heard[1], t)

-----------------------------------------------------------------------------
\* the table in a block, and all that it was up to then
TableAt(block) ==
  LET changes == SelectSeq(asked, LAMBDA m : m.kind = "table" /\ m.at <= block)
  IN  IF changes = << >> THEN patch.tables["t"] ELSE changes[Len(changes)].message
First(t) == BlockOf(t - 1) * BlockSize              \* of the block of sample t
PlaysAsked(until) == SelectSeq(asked, LAMBDA m : m.kind = "in" /\ m.at <= until)
StartOf(play) == IF is_bang(play.message, 1) THEN 0 ELSE get_float(play.message, 1)
SmallerOf(x, y) == IF x < y THEN x ELSE y
EndWhenAsked(play) ==
  LET length == Len(TableAt(First(play.at + 1)))
  IN  IF is_bang(play.message, 1) THEN length ELSE SmallerOf(length, StartOf(play) + get_float(play.message, 2))

(***************************************************************************)
(* [tabplay~] plays what the last message has asked for, of the table as   *)
(* it is in the block, and then silence: also when the table is made       *)
(* shorter while it plays, it never reads behind it.  What comes before    *)
(* another message in its block may be silenced.                           *)
(***************************************************************************)
PlaysTheTable ==
  Plays("tabplay") => \A t \in SamplesHeard :
    LET plays == PlaysAsked(t - 1)
        play == plays[Len(plays)]
        index == StartOf(play) + (t - 1 - play.at)
        blocks == {n * BlockSize : n \in BlockOf(play.at)..BlockOf(t - 1)}
        playing == /\ plays # << >> /\ index < EndWhenAsked(play)
                   /\ \A block \in blocks : index < Len(TableAt(block))
        played == IF playing THEN TableAt(First(t))[index + 1] ELSE 0
        another == \E n \in DOMAIN asked : asked[n].kind = "in" /\ asked[n].at \in t..First(t) + BlockSize - 1
    IN  heard[1][t] = played \/ (another /\ heard[1][t] = 0)

(***************************************************************************)
(* A play ends with one bang, in the block in which it ends (one later if  *)
(* it ends in that of its message); none comes of a play that another one  *)
(* in a block before has interrupted, and none comes twice.                *)
(***************************************************************************)
BangsAtTheEnd ==
  Plays("tabplay") => \A block \in {n * BlockSize : n \in 0..(now \div BlockSize) - 1} :
    LET plays == PlaysAsked(now)
        BangOf(play) == LET end == BlockOf(play.at + EndWhenAsked(play) - StartOf(play))
                        IN  BlockSize * (IF end = BlockOf(play.at) THEN end + 1 ELSE end)
        ends == {n \in DOMAIN plays : /\ BangOf(plays[n]) = block
                                      /\ \A k \in n + 1..Len(plays) : plays[k].at >= block}
    IN  Len(SelectSeq(sent, LAMBDA m : m.block = block /\ m.outlet = 2)) = Cardinality(ends)

(***************************************************************************)
(* The readers read the table as it is in the block, its first or last     *)
(* value beyond its ends; [tabread4~] between two values behind the first. *)
(***************************************************************************)
ReadsTheTable ==
  Plays("tabread") => \A t \in SamplesHeard :
    LET table == TableAt(First(t))
        At(index) == table[IF index < 0 THEN 1 ELSE SmallerOf(index + 1, Len(table))]
        fine == spoken[2][t] + LatestFloat(3, 2, t - 1, 0)
        a == At(fine \div Fine)
        b == At((fine \div Fine) + 1)
    IN  /\ FromHost(2, 1, t - 1) = << >>
             => heard[1][t] = At(spoken[1][t] + LatestFloat(2, 2, t - 1, 0))
        /\ heard[2][t] = a + (IF fine < Fine THEN 0 ELSE Towards0((b - a) * (fine % Fine), Fine))

-----------------------------------------------------------------------------
SumOf(times, Value(_)) == FoldSet(LAMBDA t, sum : sum + Value(t), 0, times)
SentBy(o, block) == SelectSeq(sent, LAMBDA m : m.of = o /\ m.block = block)

(***************************************************************************)
(* [env~] reports once an interval, in the block after it, if the interval *)
(* is of whole blocks, and never if it is not (two arguments are not       *)
(* rounded).  What it reports is of the last samples, as many as fill      *)
(* whole blocks of the window, and of no older one; but each is weighed by *)
(* its place in the buffer: the Hanning window begins with the oldest of   *)
(* them only when the buffer has just been filled to its end, and lies     *)
(* turned round elsewhere, in every second report if the interval is half  *)
(* the window; and of a window that is not of whole blocks the samples     *)
(* behind it in the buffer are left out.                                   *)
(***************************************************************************)
EnvelopeOfTheWindow ==
  Plays("env") => \A o \in 2..6, block \in {n * BlockSize : n \in 0..(now \div BlockSize) - 1} :
    LET window == CASE o \in {2, 6} -> 16 [] o = 5 -> 12 [] OTHER -> 8
        interval == CASE o = 3 -> 16 [] o = 6 -> 12 [] OTHER -> 8
        ring == IF o \in {3, 4} THEN 8 ELSE 16
        PlaceOf(t) == (t - 1) % ring
        Weighed(t) == spoken[1][t] * spoken[1][t] * Math("hanning", PlaceOf(t), window)
        energy == SumOf({t \in block - ring + 1..block : PlaceOf(t) < window}, Weighed)
        reports == SentBy(o, block)
    IN  /\ Len(reports) = (IF block > 0 /\ interval % BlockSize = 0 /\ block % interval = 0 THEN 1 ELSE 0)
        /\ reports # << >> /\ block >= ring => reports[1].message = F(energy)

(***************************************************************************)
(* A snapshot is of the sample at which it was asked for, though messages  *)
(* are sent before the block is computed; [print~] sends the whole block,  *)
(* and [bang~] one bang a block.                                           *)
(***************************************************************************)
SnapshotIsOfItsSample ==
  Plays("meters") =>
    LET bangs == SelectSeq(asked, LAMBDA m : m.of = 2 /\ is_bang(m.message, 1))
        snapshots == SelectSeq(sent, LAMBDA m : m.of = 2)
    IN  /\ [n \in DOMAIN snapshots |-> <<snapshots[n].at, snapshots[n].message>>]
             = [n \in DOMAIN bangs |-> <<bangs[n].at, F(spoken[1][bangs[n].at + 1])>>]
        /\ \A n \in DOMAIN sent : sent[n].of = 3 => \A k \in 1..BlockSize :
             get_float(sent[n].message, k) = spoken[1][sent[n].block + k]
        /\ \A block \in {n * BlockSize : n \in 1..(now \div BlockSize) - 1} : Len(SentBy(4, block)) = 1

\* A message is sent in the block of its time, whenever it was scheduled:
\* no object hears of a sample that is not of the block (Context::process).
SentInItsBlock ==
  \A n \in DOMAIN sent : sent[n].at \in sent[n].block..sent[n].block + BlockSize - 1

-----------------------------------------------------------------------------
(***************************************************************************)
(* What is written to a delay line or a bus is what is read from it, from  *)
(* the sample and the block that are asked for and from no other.          *)
(***************************************************************************)
WrittenIsHeard == DelayedExactly /\ BusesSum

(***************************************************************************)
(* A ramp is where it was sent when its time is over, whatever it was told *)
(* on the way: that of [line~], and those that [vline~] has scheduled.     *)
(***************************************************************************)
RampsArrive == LineArrives /\ VlineArrives

(***************************************************************************)
(* What an object remembers from sample to sample, a phase or the last     *)
(* inputs and outputs, is carried over pieces and blocks: they cannot be   *)
(* heard.                                                                  *)
(***************************************************************************)
SeamlessOverPieces == OscillatorsKeepPhase /\ FilterIsSeamless

(***************************************************************************)
(* A table is played and read as it is in the block, also when it becomes  *)
(* shorter meanwhile, and each play that comes to its end says so once.    *)
(***************************************************************************)
TablesAsTheyAre == PlaysTheTable /\ BangsAtTheEnd /\ ReadsTheTable

(***************************************************************************)
(* What an audio object tells of its signal is of the samples it was asked *)
(* about, though messages are sent before the audio of their block is      *)
(* computed, and it tells it in the block of its time.                     *)
(***************************************************************************)
ToldOfItsSamples == EnvelopeOfTheWindow /\ SnapshotIsOfItsSample /\ SentInItsBlock
=============================================================================
