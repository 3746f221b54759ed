--------------------------- MODULE AudioTime_proof ---------------------------
(***************************************************************************)
(* Proofs about what the objects compute (MessageArithmetic, AudioSignals, *)
(* AudioTime), for every number, block size and sample rate: the quotients *)
(* and ranges of the message objects, and of the audio objects that what   *)
(* they remember is carried over pieces and blocks.                        *)
(***************************************************************************)
EXTENDS AudioTime, OrderedQueue_proof

\* what an object answers
Answer(outcome) == get_float(outcome.send[1].message, 1)

-----------------------------------------------------------------------------
LEMMA FloatIs ==
  ASSUME NEW x
  PROVE  is_float(<<Float(x)>>, 1) /\ get_float(<<Float(x)>>, 1) = x /\ ~is_bang(<<Float(x)>>, 1)
BY DEF is_float, is_bang, get_float, get_type, Float, Bang

LEMMA AnswerIs ==
  ASSUME NEW s, NEW x
  PROVE  Answer(Sends(s, 1, <<Float(x)>>)) = x
<1>1. Sends(s, 1, <<Float(x)>>).send = <<[to |-> <<"outlet", 1>>, message |-> <<Float(x)>>, by |-> "copy"]>>
  BY DEF Sends, Quiet
<1>2. Sends(s, 1, <<Float(x)>>).send[1].message = <<Float(x)>>
  BY <1>1
<1> HIDE DEF Sends, Float
<1> QED  BY <1>2, FloatIs DEF Answer

(* The quotient and the remainder of C. *)
LEMMA TruncatedIs ==
  ASSUME NEW x \in Int, NEW c \in Int \ {0}
  PROVE  /\ Towards0(x, c) \in Int /\ CRemainder(x, c) \in Int
         /\ x = c * Towards0(x, c) + CRemainder(x, c)
         /\ x >= 0 => CRemainder(x, c) \in 0..Magnitude(c) - 1
         /\ x <= 0 => -CRemainder(x, c) \in 0..Magnitude(c) - 1
<1> DEFINE a == Magnitude(x)
           b == Magnitude(c)
           m == a \div b
           n == a % b
<1>1. a \in Nat /\ b \in Nat \ {0}
  BY DEF Magnitude
<1> HIDE DEF a, b
<1>2. m \in Int /\ n \in 0..b - 1 /\ a = b * m + n
  BY ONLY <1>1
<1>3. Towards0(x, c) = IF (x < 0) = (c < 0) THEN m ELSE -m
  BY DEF Towards0, a, b
<1>4. (x >= 0 => a = x) /\ (x < 0 => a = -x) /\ (c > 0 => b = c) /\ (c < 0 => b = -c)
  BY DEF Magnitude, a, b
<1> HIDE DEF m, n
<1>5. CASE x >= 0 /\ c > 0
  <2>1. Towards0(x, c) = m  BY <1>3, <1>5
  <2>2. a = x /\ b = c  BY <1>4, <1>5
  <2>3. CRemainder(x, c) = n  BY <1>2, <2>1, <2>2 DEF CRemainder
  <2> QED  BY <1>2, <1>5, <2>1, <2>2, <2>3 DEF b
<1>6. CASE x >= 0 /\ c < 0
  <2>1. Towards0(x, c) = -m  BY <1>3, <1>6
  <2>2. a = x /\ b = -c  BY <1>4, <1>6
  <2>3. CRemainder(x, c) = n  BY <1>2, <2>1, <2>2 DEF CRemainder
  <2> QED  BY <1>2, <1>6, <2>1, <2>2, <2>3 DEF b
<1>7. CASE x < 0 /\ c > 0
  <2>1. Towards0(x, c) = -m  BY <1>3, <1>7
  <2>2. a = -x /\ b = c  BY <1>4, <1>7
  <2>3. CRemainder(x, c) = -n  BY <1>2, <2>1, <2>2 DEF CRemainder
  <2> QED  BY <1>2, <1>7, <2>1, <2>2, <2>3 DEF b
<1>8. CASE x < 0 /\ c < 0
  <2>1. Towards0(x, c) = m  BY <1>3, <1>8
  <2>2. a = -x /\ b = -c  BY <1>4, <1>8
  <2>3. CRemainder(x, c) = -n  BY <1>2, <2>1, <2>2 DEF CRemainder
  <2> QED  BY <1>2, <1>8, <2>1, <2>2, <2>3 DEF b
<1> QED  BY <1>5, <1>6, <1>7, <1>8

-----------------------------------------------------------------------------
(***************************************************************************)
(* Delay lines.  A signal is a function of time, silent before time 0.     *)
(* After now samples the line holds, up to its head, what came since it    *)
(* last began at its front, and behind its head what came before; the      *)
(* place behind its end repeats its front.                                 *)
(***************************************************************************)
Signals == {x \in [Int -> Int] : \A t \in Int : t < 0 => x[t] = 0}
BlockOf(signal, n) == [k \in Block |-> signal[n * BlockSize + k]]

\* the line that a [delwrite~] leaves for the objects of its name
LineBehind(outcome) ==
  [buffer |-> outcome.out[1], head |-> outcome.state.head, length |-> outcome.state.length]

WholeBlocks(n) == \E m \in Nat \ {0} : n = m * BlockSize

LineKeeps(line, signal, now) ==
  /\ line.length \in Nat /\ line.head \in Nat
  /\ WholeBlocks(line.length) /\ WholeBlocks(line.length - line.head)
  /\ line.buffer \in [0..line.length -> Int]
  /\ \A j \in 0..line.length - 1 :
       line.buffer[j] = signal[now - line.head + j - (IF j < line.head THEN 0 ELSE line.length)]
  /\ line.buffer[line.length] = line.buffer[0]

LEMMA BlockSizeIs == BlockSize \in Nat \ {0} /\ SampleRate \in Nat \ {0}
BY AudioAssumption

LEMMA Blocks ==
  /\ \A n \in Int : WholeBlocks(n) => n >= BlockSize
  /\ \A n \in Int : WholeBlocks(n) /\ n > BlockSize => WholeBlocks(n - BlockSize)
<1> USE BlockSizeIs
<1>1. ASSUME NEW n \in Int, WholeBlocks(n)
      PROVE  n >= BlockSize /\ (n > BlockSize => WholeBlocks(n - BlockSize))
  <2>1. PICK m \in Nat \ {0} : n = m * BlockSize
    BY <1>1 DEF WholeBlocks
  <2>2. CASE m = 1
    BY <2>1, <2>2
  <2>3. CASE m # 1
    <3> DEFINE p == m - 1
    <3>1. p \in Nat \ {0}
      BY <2>3
    <3>2. p * BlockSize \in Nat /\ p * BlockSize = n - BlockSize
      BY <2>1
    <3> HIDE DEF p
    <3> QED  BY <3>1, <3>2 DEF WholeBlocks
  <2> QED  BY <2>2, <2>3
<1> QED  BY <1>1

(* What is as long as a delay and a block more, in whole blocks. *)
LEMMA LineLengthIs ==
  ASSUME NEW d \in Nat
  PROVE  LineLength(d) \in Nat /\ WholeBlocks(LineLength(d)) /\ d + BlockSize <= LineLength(d)
<1> USE BlockSizeIs
<1> DEFINE q == d \div BlockSize
           r == d % BlockSize
<1>1. q \in Nat /\ r \in 0..BlockSize - 1 /\ d = (BlockSize * q) + r
  OBVIOUS
<1>2. LineLength(d) = IF r # 0 THEN (q + 2) * BlockSize ELSE d + BlockSize
  BY DEF LineLength
<1> HIDE DEF q, r
<1>3. CASE r # 0
  <2> DEFINE p == q + 2
  <2>1. p \in Nat \ {0}
    BY <1>1
  <2>2. p * BlockSize = (BlockSize * q) + BlockSize + BlockSize /\ p * BlockSize \in Nat
    BY <1>1
  <2>3. LineLength(d) = p * BlockSize
    BY <1>1, <1>2, <1>3, <2>2
  <2>4. d + BlockSize <= p * BlockSize
    BY <1>1, <1>3, <2>2
  <2> HIDE DEF p
  <2>5. WholeBlocks(p * BlockSize)
    BY <2>1 DEF WholeBlocks
  <2> QED  BY <2>2, <2>3, <2>4, <2>5
<1>4. CASE r = 0
  <2> DEFINE p == q + 1
  <2>1. p \in Nat \ {0}
    BY <1>1
  <2>2. p * BlockSize = (BlockSize * q) + BlockSize /\ p * BlockSize \in Nat
    BY <1>1
  <2>3. LineLength(d) = p * BlockSize
    BY <1>1, <1>2, <1>4, <2>2
  <2>4. d + BlockSize <= p * BlockSize
    BY <1>1, <1>4, <2>2
  <2> HIDE DEF p
  <2>5. WholeBlocks(p * BlockSize)
    BY <2>1 DEF WholeBlocks
  <2> QED  BY <2>2, <2>3, <2>4, <2>5
<1> QED  BY <1>3, <1>4

LEMMA WholeSamplesIs ==
  ASSUME NEW ms \in Nat
  PROVE  WholeSamples(ms) \in Nat /\ ms * SampleRate <= 1000 * WholeSamples(ms)
<1> DEFINE a == ms * SampleRate
<1>1. a \in Nat
  BY BlockSizeIs
<1> HIDE DEF a
<1>2. -((-a) \div 1000) \in Nat /\ a <= 1000 * (-((-a) \div 1000))
  BY <1>1
<1> QED  BY <1>2 DEF WholeSamples, a

LEMMA FillsIs ==
  ASSUME NEW s, NEW io, NEW from, NEW to, NEW samples, 1 \in DOMAIN io.out
  PROVE  /\ Fills(s, io, from, to, samples).state = s
         /\ Fills(s, io, from, to, samples).out = [io.out EXCEPT ![1] = Written(io.out[1], from, to, samples)]
         /\ Fills(s, io, from, to, samples).out[1] = Written(io.out[1], from, to, samples)
BY DEF Fills, Idle

(* A new line is silent. *)
LEMMA NewLine ==
  ASSUME NEW name, NEW ms \in Nat, NEW memory, NEW io, NEW signal \in Signals
  PROVE  LET made == DspDelayWrite(NoFields, Construct(<<Symbol(name), Float(ms)>>, memory), io)
         IN  /\ made.state = DelayLine(name, LineLength(WholeSamples(ms)))
             /\ made.out = Silent(LineLength(WholeSamples(ms)))
             /\ LineKeeps(LineBehind(made), signal, 0)
<1> DEFINE m == <<Symbol(name), Float(ms)>>
           e == Construct(m, memory)
           length == LineLength(WholeSamples(ms))
           made == DspDelayWrite(NoFields, e, io)
           line == LineBehind(made)
<1>1. IsNew(e) /\ ~Processes(e) /\ e.message = m
  BY DEF IsNew, Construct, Processes
<1>2. is_symbol(m, 1) /\ is_float(m, 2) /\ get_symbol(m, 1) = name /\ get_float(m, 2) = ms
  BY DEF is_symbol, is_float, get_type, get_symbol, get_float, Symbol, Float
<1> HIDE DEF e, m
<1>3. made = [Idle(DelayLine(name, length), io) EXCEPT !.out = Silent(length)]
  BY <1>1, <1>2 DEF DspDelayWrite
<1>4. made.state = DelayLine(name, length) /\ made.out = Silent(length)
  BY <1>3 DEF Idle
<1>5. WholeSamples(ms) \in Nat
  BY WholeSamplesIs
<1>6. length \in Nat /\ WholeBlocks(length)
  BY <1>5, LineLengthIs
<1> HIDE DEF length, made
<1>7. line.length = length /\ line.head = 0 /\ line.buffer = [k \in 0..length |-> 0]
  BY <1>4 DEF LineBehind, DelayLine, Silent
<1>8. ASSUME NEW j \in 0..length - 1
      PROVE  line.buffer[j] = signal[0 - 0 + j - (IF j < 0 THEN 0 ELSE length)]
  BY <1>6, <1>7 DEF Signals
<1>9. length >= BlockSize
  BY <1>6, Blocks
<1> HIDE DEF line
<1>10. LineKeeps(line, signal, 0)
  BY <1>6, <1>7, <1>8, <1>9, BlockSizeIs DEF LineKeeps
<1> QED  BY <1>4, <1>10 DEF e, m, made, line, length

(* A block is written where the one before has ended. *)
LEMMA LineIsWritten ==
  ASSUME NEW name, NEW length \in Nat, NEW head \in Nat, NEW now \in Nat,
         NEW buffer, NEW io, NEW signal \in Signals, NEW n \in Nat, now = n * BlockSize,
         io.out = <<buffer>>, io.in[1] = BlockOf(signal, n),
         LineKeeps([buffer |-> buffer, head |-> head, length |-> length], signal, now)
  PROVE  LET s == [name |-> name, length |-> length, head |-> head]
             written == DspDelayWrite(s, Process(0, BlockSize), io)
             next == LineBehind(written)
         IN  /\ written.state = [name |-> name, length |-> length, head |-> next.head]
             /\ written.out = <<next.buffer>>
             /\ next.length = length
             /\ LineKeeps(next, signal, now + BlockSize)
<1> DEFINE s == [name |-> name, length |-> length, head |-> head]
           e == Process(0, BlockSize)
           written == DspDelayWrite(s, e, io)
           next == LineBehind(written)
           after == [k \in 0..length |->
              CASE k \in head..head + BlockSize - 1 -> signal[now + (k - head)]
                [] k = length /\ head = 0 -> signal[now]
                [] OTHER -> buffer[k]]
           moved == IF head + BlockSize >= length THEN 0 ELSE head + BlockSize
<1> USE BlockSizeIs
<1>1. /\ WholeBlocks(length) /\ WholeBlocks(length - head)
      /\ buffer \in [0..length -> Int] /\ buffer[length] = buffer[0]
      /\ \A j \in 0..length - 1 : buffer[j] = signal[now - head + j - (IF j < head THEN 0 ELSE length)]
  BY DEF LineKeeps
<1>2. ~IsNew(e) /\ Processes(e) /\ e.to = BlockSize
  BY DEF IsNew, Processes, Process
<1>3. \A k \in Block : io.in[1][k] = signal[now + k]
  BY DEF BlockOf
<1>4. signal \in [Int -> Int]
  BY DEF Signals
<1> HIDE DEF e
<1>5. written = [Idle([s EXCEPT !.head = moved], io)
            EXCEPT !.out[1] = [k \in DOMAIN buffer |->
              CASE k \in s.head..s.head + e.to - 1 -> io.in[1][k - s.head]
                [] k = s.length /\ s.head = 0 -> io.in[1][0]
                [] OTHER -> io.out[1][k]]]
  BY <1>2 DEF DspDelayWrite, Idle
<1>6. [k \in DOMAIN buffer |->
              CASE k \in s.head..s.head + e.to - 1 -> io.in[1][k - s.head]
                [] k = s.length /\ s.head = 0 -> io.in[1][0]
                [] OTHER -> io.out[1][k]] = after
  <2>1. DOMAIN buffer = 0..length
    BY <1>1
  <2>2. ASSUME NEW k \in head..head + BlockSize - 1
        PROVE  io.in[1][k - head] = signal[now + (k - head)]
    <3>1. k - head \in Block
      BY DEF Block
    <3> QED  BY <1>3, <3>1
  <2>3. io.in[1][0] = signal[now]
    <3>1. 0 \in Block
      BY DEF Block
    <3> QED  BY <1>3, <3>1
  <2>4. s.head = head /\ s.length = length /\ io.out[1] = buffer
    OBVIOUS
  <2> QED  BY <1>2, <2>1, <2>2, <2>3, <2>4
<1> HIDE DEF after, moved
<1>7. /\ written.state = [name |-> name, length |-> length, head |-> moved]
      /\ written.out = <<after>>
  <2> DEFINE idle == Idle([s EXCEPT !.head = moved], io)
  <2>1. idle.out = <<buffer>> /\ idle.state = [name |-> name, length |-> length, head |-> moved]
    BY DEF Idle
  <2>2. DOMAIN idle = {"state", "out", "does"}
    BY DEF Idle
  <2>3. written = [idle EXCEPT !.out[1] = after]
    BY <1>5, <1>6
  <2> HIDE DEF idle, written
  <2>4. written.state = idle.state
    BY <2>2, <2>3
  <2>5. written.out = [idle.out EXCEPT ![1] = after]
    BY <2>2, <2>3
  <2>6. written.out = <<after>>
    BY <2>1, <2>5
  <2> QED  BY <2>1, <2>4, <2>6
<1> HIDE DEF written
<1>8. next.head = moved /\ next.length = length /\ next.buffer = after
  BY <1>7 DEF LineBehind
<1>9. length >= BlockSize /\ length - head >= BlockSize
  BY <1>1, Blocks
<1>10. /\ moved \in Nat /\ WholeBlocks(length - moved)
       /\ moved = IF head + BlockSize = length THEN 0 ELSE head + BlockSize
  BY <1>1, <1>9, Blocks DEF moved
<1>11. after \in [0..length -> Int]
  <2>1. ASSUME NEW k \in 0..length
        PROVE  after[k] \in Int
    <3>1. CASE k \in head..head + BlockSize - 1
      BY <1>4, <3>1 DEF after
    <3>2. CASE k \notin head..head + BlockSize - 1 /\ k = length /\ head = 0
      BY <1>4, <3>2 DEF after
    <3>3. CASE k \notin head..head + BlockSize - 1 /\ ~(k = length /\ head = 0)
      BY <1>1, <3>3 DEF after
    <3> QED  BY <3>1, <3>2, <3>3
  <2>2. after = [k \in 0..length |-> after[k]]
    BY DEF after
  <2> QED  BY ONLY <2>1, <2>2
<1>12. after[length] = after[0]
  <2>1. CASE head = 0 /\ length = BlockSize
    BY <1>1, <1>9, <2>1 DEF after
  <2>2. CASE head # 0
    BY <1>1, <1>9, <2>2 DEF after
  <2>3. CASE head = 0 /\ length # BlockSize
    BY <1>1, <1>9, <2>3 DEF after
  <2> QED  BY <2>1, <2>2, <2>3
<1>13. ASSUME NEW j \in 0..length - 1
       PROVE  after[j] = signal[now + BlockSize - moved + j - (IF j < moved THEN 0 ELSE length)]
  <2>1. CASE j \in head..head + BlockSize - 1
    <3>1. after[j] = signal[now + (j - head)]
      BY <1>9, <2>1 DEF after
    <3>2. now + (j - head) = now + BlockSize - moved + j - (IF j < moved THEN 0 ELSE length)
      BY <1>10, <2>1
    <3> QED  BY <3>1, <3>2
  <2>2. CASE j \notin head..head + BlockSize - 1
    <3>1. after[j] = buffer[j]
      BY <1>9, <2>2 DEF after
    <3>2. now - head + j - (IF j < head THEN 0 ELSE length)
             = now + BlockSize - moved + j - (IF j < moved THEN 0 ELSE length)
      BY <1>10, <1>9, <2>2
    <3> QED  BY <1>1, <3>1, <3>2
  <2> QED  BY <2>1, <2>2
<1> HIDE DEF next, s
<1>14. LineKeeps(next, signal, now + BlockSize)
  <2>1. WholeBlocks(next.length) /\ WholeBlocks(next.length - next.head)
    BY <1>1, <1>8, <1>10
  <2>2. \A j \in 0..next.length - 1 :
          next.buffer[j] = signal[now + BlockSize - next.head + j - (IF j < next.head THEN 0 ELSE next.length)]
    BY <1>8, <1>13
  <2>3. next.buffer \in [0..next.length -> Int] /\ next.buffer[next.length] = next.buffer[0]
    BY <1>8, <1>11, <1>12
  <2>4. next.length \in Nat /\ next.head \in Nat
    BY <1>8, <1>10
  <2> QED  BY <2>1, <2>2, <2>3, <2>4, SMTT(30) DEF LineKeeps
<1> QED  BY <1>7, <1>8, <1>14 DEF next, written, s, e

(* A [delwrite~] that writes a signal: the outcomes of its construction and *)
(* of each block, with what is at its inlet and outlet.                     *)
Writes(outcomes, at, name, longest, memory, signal) ==
  /\ outcomes[0] = DspDelayWrite(NoFields, Construct(<<Symbol(name), Float(longest)>>, memory), at[0])
  /\ \A n \in Nat :
       /\ at[n + 1].in[1] = BlockOf(signal, n)
       /\ at[n + 1].out = outcomes[n].out
       /\ outcomes[n + 1] = DspDelayWrite(outcomes[n].state, Process(0, BlockSize), at[n + 1])

LEMMA LineHolds ==
  ASSUME NEW outcomes, NEW at, NEW name, NEW longest \in Nat, NEW memory, NEW signal \in Signals,
         Writes(outcomes, at, name, longest, memory, signal)
  PROVE  \A n \in Nat : /\ LineBehind(outcomes[n]).length = LineLength(WholeSamples(longest))
                        /\ LineKeeps(LineBehind(outcomes[n]), signal, n * BlockSize)
<1> DEFINE line(n) == LineBehind(outcomes[n])
           length == LineLength(WholeSamples(longest))
           Good(n) == /\ outcomes[n].state = [name |-> name, length |-> length, head |-> line(n).head]
                      /\ outcomes[n].out = <<line(n).buffer>>
                      /\ line(n).length = length
                      /\ LineKeeps(line(n), signal, n * BlockSize)
<1>1. WholeSamples(longest) \in Nat
  BY WholeSamplesIs
<1>2. length \in Nat
  BY <1>1, LineLengthIs
<1>3. Good(0)
  <2> DEFINE made == DspDelayWrite(NoFields, Construct(<<Symbol(name), Float(longest)>>, memory), at[0])
  <2>1. outcomes[0] = made
    BY DEF Writes
  <2>2. /\ made.state = DelayLine(name, length)
        /\ made.out = Silent(length)
        /\ LineKeeps(LineBehind(made), signal, 0)
    BY NewLine
  <2>3. 0 * BlockSize = 0
    BY BlockSizeIs
  <2> HIDE DEF made, length
  <2>4. line(0).head = 0 /\ line(0).length = length /\ line(0).buffer = [k \in 0..length |-> 0]
    BY <2>1, <2>2 DEF LineBehind, DelayLine, Silent
  <2> QED  BY <2>1, <2>2, <2>3, <2>4 DEF DelayLine, Silent
<1>4. ASSUME NEW n \in Nat, Good(n)
      PROVE  Good(n + 1)
  <2> DEFINE s == [name |-> name, length |-> length, head |-> line(n).head]
             written == DspDelayWrite(s, Process(0, BlockSize), at[n + 1])
  <2>1. /\ at[n + 1].in[1] = BlockOf(signal, n)
        /\ at[n + 1].out = <<line(n).buffer>>
        /\ outcomes[n + 1] = written
    BY <1>4 DEF Writes
  <2>2. line(n) = [buffer |-> line(n).buffer, head |-> line(n).head, length |-> length]
    BY <1>4 DEF LineBehind
  <2>3. line(n).head \in Nat
    BY <1>4 DEF LineKeeps
  <2> DEFINE now == n * BlockSize
  <2>4. now \in Nat /\ (n + 1) * BlockSize = now + BlockSize
    BY BlockSizeIs
  <2>5. LineKeeps([buffer |-> line(n).buffer, head |-> line(n).head, length |-> length], signal, now)
    BY <1>4, <2>2
  <2>7. now = n * BlockSize
    OBVIOUS
  <2> HIDE DEF length, now
  <2>6. /\ written.state = [name |-> name, length |-> length, head |-> LineBehind(written).head]
        /\ written.out = <<LineBehind(written).buffer>>
        /\ LineBehind(written).length = length
        /\ LineKeeps(LineBehind(written), signal, now + BlockSize)
    <3> DEFINE buffer == line(n).buffer
               head == line(n).head
               io == at[n + 1]
    <3>1. io.out = <<buffer>> /\ io.in[1] = BlockOf(signal, n) /\ head \in Nat
      BY <2>1, <2>3
    <3>2. LineKeeps([buffer |-> buffer, head |-> head, length |-> length], signal, now)
      BY <2>5
    <3> HIDE DEF buffer, head, io
    <3>3. LET w == DspDelayWrite([name |-> name, length |-> length, head |-> head], Process(0, BlockSize), io)
          IN  /\ w.state = [name |-> name, length |-> length, head |-> LineBehind(w).head]
              /\ w.out = <<LineBehind(w).buffer>>
              /\ LineBehind(w).length = length
              /\ LineKeeps(LineBehind(w), signal, now + BlockSize)
      BY <1>2, <2>4, <2>7, <3>1, <3>2, LineIsWritten
    <3> QED  BY <3>3 DEF head, io
  <2> HIDE DEF written, s
  <2> QED  BY <2>1, <2>4, <2>6
<1> DEFINE bad == {n \in Nat : ~Good(n)}
<1> HIDE DEF Good
<1>5. bad = {}
  <2>1. SUFFICES ASSUME bad # {} PROVE FALSE
    OBVIOUS
  <2>2. PICK n \in bad : \A k \in bad : n <= k
    BY <2>1, LeastNatural
  <2>3. n \in Nat /\ ~Good(n) /\ n # 0
    BY <1>3
  <2>4. n - 1 \in Nat /\ n - 1 \notin bad
    BY <2>2, <2>3
  <2>5. Good(n - 1) /\ (n - 1) + 1 = n
    BY <2>3, <2>4
  <2> QED  BY <1>4, <2>3, <2>4, <2>5
<1> QED  BY <1>5 DEF Good

(* A delay that is not longer than the longest fits into the line. *)
LEMMA SamplesFit ==
  ASSUME NEW longest \in Nat, NEW ms \in 0..longest
  PROVE  /\ Samples(ms) \in Nat /\ Samples(ms) <= WholeSamples(longest)
         /\ ms * SampleRate \in Nat /\ ms * SampleRate <= 1000 * WholeSamples(longest)
<1> USE BlockSizeIs
<1>1. ms * SampleRate \in Nat /\ longest * SampleRate \in Nat /\ ms * SampleRate <= longest * SampleRate
  OBVIOUS
<1>2. Samples(ms) \in Nat /\ 1000 * Samples(ms) <= ms * SampleRate
  BY <1>1 DEF Samples
<1>3. WholeSamples(longest) \in Nat /\ longest * SampleRate <= 1000 * WholeSamples(longest)
  BY WholeSamplesIs
<1>4. ms * SampleRate <= 1000 * WholeSamples(longest)
  BY <1>1, <1>3
<1>5. Samples(ms) <= WholeSamples(longest)
  BY <1>1, <1>2, <1>3, <1>4
<1> QED  BY <1>1, <1>2, <1>4, <1>5

(* A place d samples and a block behind the head holds what came then. *)
LEMMA ReadBehind ==
  ASSUME NEW line, NEW signal \in Signals, NEW now \in Nat, LineKeeps(line, signal, now),
         NEW d \in Nat, d + BlockSize <= line.length, NEW k \in Block
  PROVE  LET first == Around(line.head - BlockSize - d, line)
             inBuffer == line.length - first
             place == IF first > line.length - BlockSize /\ k >= inBuffer THEN k - inBuffer ELSE first + k
         IN  line.buffer[place] = signal[now - BlockSize + k - d]
<1> USE BlockSizeIs
<1> DEFINE head == line.head
           length == line.length
           first == Around(head - BlockSize - d, line)
           inBuffer == length - first
           place == IF first > length - BlockSize /\ k >= inBuffer THEN k - inBuffer ELSE first + k
<1>1. /\ length \in Nat /\ head \in Nat /\ k \in 0..BlockSize - 1
      /\ \A j \in 0..length - 1 :
           line.buffer[j] = signal[now - head + j - (IF j < head THEN 0 ELSE length)]
      /\ WholeBlocks(length - head)
  BY DEF LineKeeps, Block
<1>5. length - head >= BlockSize
  BY <1>1, Blocks
<1>2. first = IF head - BlockSize - d < 0 THEN head - BlockSize - d + length ELSE head - BlockSize - d
  BY DEF Around
<1> HIDE DEF head, length, first
<1>3. d + BlockSize <= length
  BY DEF length
<1>4. /\ place \in 0..length - 1
      /\ now - head + place - (IF place < head THEN 0 ELSE length) = now - BlockSize + k - d
  BY <1>1, <1>2, <1>3, <1>5
<1> QED  BY <1>1, <1>4 DEF place, inBuffer, first, length, head

(***************************************************************************)
(* What a [delread~] plays is what the [delwrite~] of its name has         *)
(* written, to the sample as long ago as it is asked for, wherever the     *)
(* line is wrapped, for each delay up to the longest one and silence       *)
(* before the first sample; a block longer where the line is read before   *)
(* it is written (n counts the blocks that were written), for every block  *)
(* size and sample rate (DspDelayWrite.cpp:57-78, DspDelayRead.cpp:62-85). *)
(***************************************************************************)
THEOREM DelaysToTheSample ==
  ASSUME NEW outcomes, NEW at, NEW name, NEW longest \in Nat, NEW memory, NEW signal \in Signals,
         Writes(outcomes, at, name, longest, memory, signal),
         NEW n \in Nat, NEW ms \in 0..longest, NEW k \in Block,
         NEW io, 1 \in DOMAIN io.out, io.out[1] \in [Block -> Int], io.line = LineBehind(outcomes[n])
  PROVE  LET made == DspDelayRead(NoFields, Construct(<<Symbol(name), Float(ms)>>, memory), io)
             read == DspDelayRead(made.state, Process(0, BlockSize), io)
         IN  read.out[1][k] = signal[(n - 1) * BlockSize + k - Samples(ms)]
<1> DEFINE m == <<Symbol(name), Float(ms)>>
           new == Construct(m, memory)
           e == Process(0, BlockSize)
           made == DspDelayRead(NoFields, new, io)
           d == Samples(ms)
           s == DelayReceiver(name, d)
           line == LineBehind(outcomes[n])
           first == Around(line.head - BlockSize - d, line)
           inBuffer == line.length - first
           place(j) == IF first > line.length - BlockSize /\ j >= inBuffer THEN j - inBuffer ELSE first + j
<1>1. made.state = s
  <2>1. IsNew(new) /\ ~Processes(new) /\ new.message = m
    BY DEF IsNew, Construct, Processes
  <2>2. is_symbol(m, 1) /\ is_float(m, 2) /\ get_symbol(m, 1) = name /\ get_float(m, 2) = ms
    BY DEF is_symbol, is_float, get_type, get_symbol, get_float, Symbol, Float
  <2> HIDE DEF new, m
  <2>3. made = Idle(s, io)
    BY <2>1, <2>2 DEF DspDelayRead
  <2> QED  BY <2>3 DEF Idle
<1>2. d \in Nat /\ d + BlockSize <= LineLength(WholeSamples(longest))
  <2>1. d \in Nat /\ d <= WholeSamples(longest) /\ WholeSamples(longest) \in Nat
    <3>1. WholeSamples(longest) \in Nat
      BY WholeSamplesIs
    <3>2. Samples(ms) \in Nat /\ Samples(ms) <= WholeSamples(longest)
      BY SamplesFit
    <3> QED  BY <3>1, <3>2
  <2>2. /\ LineLength(WholeSamples(longest)) \in Nat
        /\ WholeSamples(longest) + BlockSize <= LineLength(WholeSamples(longest))
    BY <2>1, LineLengthIs
  <2> QED  BY <2>1, <2>2, BlockSizeIs
<1>3. line.length = LineLength(WholeSamples(longest)) /\ LineKeeps(line, signal, n * BlockSize)
  BY LineHolds
<1> DEFINE now == n * BlockSize
<1>4. now \in Nat /\ (n - 1) * BlockSize = now - BlockSize
  BY BlockSizeIs
<1>7. line.length = LineLength(WholeSamples(longest)) /\ LineKeeps(line, signal, now)
  BY <1>3
<1> HIDE DEF d, now, line
<1>8. d + BlockSize <= line.length
  BY <1>2, <1>7
<1>5. line.buffer[place(k)] = signal[now - BlockSize + k - d]
  <2>1. signal \in Signals /\ k \in Block /\ d \in Nat
    BY <1>2
  <2> QED  BY ONLY <1>4, <1>7, <1>8, <2>1, ReadBehind
<1>6. DspDelayRead(s, e, io).out[1][k] = line.buffer[place(k)]
  <2>1. ~IsNew(e) /\ Processes(e) /\ e.to = BlockSize
    BY DEF IsNew, Processes, Process
  <2>2. s.delayInSamples = d
    BY DEF DelayReceiver
  <2>3. io.line = line
    BY DEF line
  <2> HIDE DEF e, s
  <2>4. DspDelayRead(s, e, io) = Fills(s, io, 0, BlockSize, [j \in Block |-> line.buffer[place(j)]])
    BY <2>1, <2>2, <2>3 DEF DspDelayRead
  <2> HIDE DEF place
  <2>5. DspDelayRead(s, e, io).out[1] = Written(io.out[1], 0, BlockSize, [j \in Block |-> line.buffer[place(j)]])
    <3> DEFINE samples == [j \in Block |-> line.buffer[place(j)]]
    <3>1. 1 \in DOMAIN io.out
      OBVIOUS
    <3>2. DspDelayRead(s, e, io) = Fills(s, io, 0, BlockSize, samples)
      BY <2>4
    <3> HIDE DEF samples
    <3>3. Fills(s, io, 0, BlockSize, samples).out[1] = Written(io.out[1], 0, BlockSize, samples)
      BY <3>1 DEF Fills, Idle
    <3>4. DspDelayRead(s, e, io).out[1] = Written(io.out[1], 0, BlockSize, samples)
      BY <3>2, <3>3
    <3> QED  BY <3>4 DEF samples
  <2>6. k \in 0..BlockSize - 1 /\ k \in DOMAIN io.out[1]
    BY DEF Block
  <2>7. Written(io.out[1], 0, BlockSize, [j \in Block |-> line.buffer[place(j)]])[k] = line.buffer[place(k)]
    BY <2>6 DEF Written
  <2> QED  BY <2>5, <2>7
<1>9. DspDelayRead(made.state, e, io).out[1][k] = signal[(n - 1) * BlockSize + k - d]
  BY <1>1, <1>4, <1>5, <1>6
<1> QED  BY <1>9 DEF d, made, e, new, m

(* The samples on both sides of a moment D thousandths of a sample before. *)
LEMMA ReadBetween ==
  ASSUME NEW line, NEW signal \in Signals, NEW now \in Nat, LineKeeps(line, signal, now),
         NEW D \in Nat, D + 1000 * BlockSize <= 1000 * line.length, NEW k \in Block
  PROVE  LET moment == 1000 * (now - BlockSize + k) - D
             behind == (line.head - BlockSize + k) * 1000 - D
             index == IF behind < 0 THEN behind + line.length * 1000 ELSE behind
         IN  /\ line.buffer[index \div 1000] = signal[moment \div 1000]
             /\ index % 1000 = moment % 1000
             /\ line.buffer[(index \div 1000) + 1] \in Int /\ signal[(moment \div 1000) + 1] \in Int
             /\ index % 1000 # 0 =>
                  line.buffer[(index \div 1000) + 1] = signal[(moment \div 1000) + 1]
<1> USE BlockSizeIs
<1> DEFINE head == line.head
           length == line.length
           moment == 1000 * (now - BlockSize + k) - D
           behind == (head - BlockSize + k) * 1000 - D
           index == IF behind < 0 THEN behind + length * 1000 ELSE behind
           lap == IF behind < 0 THEN length ELSE 0
           x0 == index \div 1000
           t == moment \div 1000
           f == index % 1000
<1>1. /\ length \in Nat /\ head \in Nat /\ k \in 0..BlockSize - 1
      /\ \A j \in 0..length - 1 :
           line.buffer[j] = signal[now - head + j - (IF j < head THEN 0 ELSE length)]
      /\ line.buffer[length] = line.buffer[0]
      /\ WholeBlocks(length - head)
  BY DEF LineKeeps, Block
<1>2. length - head >= BlockSize
  BY <1>1, Blocks
<1>3. D + 1000 * BlockSize <= 1000 * length
  OBVIOUS
<1> HIDE DEF head, length
<1>4. behind \in Int /\ index \in Int /\ moment \in Int /\ lap \in Nat
  BY <1>1
<1>5. index = moment + 1000 * (head - now + lap)
  BY <1>1
<1> HIDE DEF index, moment
<1>6. x0 = t + (head - now + lap) /\ f = moment % 1000 /\ t \in Int /\ x0 \in Int /\ f \in 0..999
      /\ index = (1000 * x0) + f
  <2>1. now \in Nat
    OBVIOUS
  <2>2. head - now + lap \in Int
    BY ONLY <1>1, <1>4, <2>1
  <2> DEFINE laps == head - now + lap
  <2>3. index = moment + (1000 * laps) /\ laps \in Int /\ moment \in Int
    BY <1>4, <1>5, <2>2
  <2> HIDE DEF laps
  <2>4. /\ index \div 1000 = (moment \div 1000) + laps /\ index % 1000 = moment % 1000
        /\ moment \div 1000 \in Int /\ index \div 1000 \in Int /\ index % 1000 \in 0..999
        /\ index = (1000 * (index \div 1000)) + (index % 1000)
    BY ONLY <2>3, SMTT(30)
  <2> QED  BY ONLY <2>4, SMTT(30) DEF x0, t, f, laps
<1> HIDE DEF x0, t, f
<1>7. /\ x0 \in 0..length - 1
      /\ (x0 < head) <=> behind >= 0
      /\ f # 0 /\ behind >= 0 => x0 + 1 < head
      /\ f # 0 /\ x0 + 1 = length => head > 0
  BY <1>1, <1>2, <1>3, <1>6, SMTT(30) DEF index
<1>8. line.buffer[x0] = signal[t]
  <2>1. now - head + x0 - (IF x0 < head THEN 0 ELSE length) = t
    BY <1>1, <1>6, <1>7
  <2> QED  BY <1>1, <1>7, <2>1
<1>9. ASSUME f # 0
      PROVE  line.buffer[x0 + 1] = signal[t + 1]
  <2>1. CASE x0 + 1 <= length - 1
    <3>1. now - head + (x0 + 1) - (IF x0 + 1 < head THEN 0 ELSE length) = t + 1
      BY <1>1, <1>6, <1>7, <1>9, <2>1
    <3> QED  BY <1>1, <1>6, <1>7, <2>1, <3>1, SMTT(30)
  <2>2. CASE x0 + 1 = length
    <3>1. head > 0 /\ behind < 0 /\ lap = length /\ 0 \in 0..length - 1
      BY <1>1, <1>2, <1>7, <1>9, <2>2
    <3>2. now - head + 0 - 0 = t + 1
      BY <1>1, <1>6, <2>2, <3>1
    <3>3. line.buffer[0] = signal[now - head + 0 - 0]
      BY <1>1, <3>1
    <3> QED  BY <1>1, <2>2, <3>2, <3>3
  <2> QED  BY <1>1, <1>7, <2>1, <2>2
<1>10. f = moment % 1000
  BY <1>6
<1>12. line.buffer[x0 + 1] \in Int /\ signal[t + 1] \in Int
  <2>1. line.buffer \in [0..length -> Int] /\ signal \in [Int -> Int]
    BY ZenonT(30) DEF LineKeeps, Signals, length
  <2>2. x0 + 1 \in 0..length /\ t + 1 \in Int
    BY <1>1, <1>6, <1>7
  <2> QED  BY <2>1, <2>2, ZenonT(30)
<1>11. /\ line.buffer[index \div 1000] = signal[moment \div 1000]
       /\ index % 1000 = moment % 1000
       /\ line.buffer[(index \div 1000) + 1] \in Int /\ signal[(moment \div 1000) + 1] \in Int
       /\ index % 1000 # 0 => line.buffer[(index \div 1000) + 1] = signal[(moment \div 1000) + 1]
  BY <1>8, <1>9, <1>10, <1>12 DEF x0, t, f
<1> QED  BY <1>11 DEF index, moment, head, length

(***************************************************************************)
(* What a [vd~] plays lies between the two samples that were written next  *)
(* to the moment it is asked for, in proportion; no delay up to the        *)
(* longest one, whole or between two samples, and no wrap of the line      *)
(* makes it read another (DspVariableDelay.cpp:80-98).                     *)
(***************************************************************************)
THEOREM DelaysBetweenSamples ==
  ASSUME NEW outcomes, NEW at, NEW name, NEW longest \in Nat, NEW memory, NEW signal \in Signals,
         Writes(outcomes, at, name, longest, memory, signal),
         NEW n \in Nat, NEW k \in Block, NEW s,
         NEW io, 1 \in DOMAIN io.out, io.out[1] \in [Block -> Int], io.line = LineBehind(outcomes[n]),
         io.in[1][k] \in 0..longest
  PROVE  LET moment == 1000 * ((n - 1) * BlockSize + k) - io.in[1][k] * SampleRate
             before == signal[moment \div 1000]
             after == signal[(moment \div 1000) + 1]
         IN  DspVariableDelay(s, Process(0, BlockSize), io).out[1][k]
               = before + Math("/", (after - before) * (moment % 1000), 1000)
<1> USE BlockSizeIs
<1> DEFINE e == Process(0, BlockSize)
           line == LineBehind(outcomes[n])
           x == io.in[1][k]
           D == x * SampleRate
           now == n * BlockSize
           index == TargetIndex(k, x, line)
           value(j) == LET p == TargetIndex(j, io.in[1][j], io.line)
                           y0 == io.line.buffer[p \div 1000]
                       IN  y0 + Math("/", (io.line.buffer[(p \div 1000) + 1] - y0) * (p % 1000), 1000)
<1>1. now \in Nat /\ (n - 1) * BlockSize = now - BlockSize
  OBVIOUS
<1>2. line.length = LineLength(WholeSamples(longest)) /\ LineKeeps(line, signal, now)
  BY LineHolds
<1>3. D \in Nat /\ D <= 1000 * WholeSamples(longest)
  BY ONLY SamplesFit, x \in 0..longest, longest \in Nat
<1>4. /\ LineLength(WholeSamples(longest)) \in Nat /\ WholeSamples(longest) \in Nat
      /\ WholeSamples(longest) + BlockSize <= LineLength(WholeSamples(longest))
  BY WholeSamplesIs, LineLengthIs
<1>5. line.length \in Nat /\ D + 1000 * BlockSize <= 1000 * line.length
  BY <1>2, <1>3, <1>4
<1>6. DspVariableDelay(s, e, io).out[1][k] = value(k)
  <2>1. ~IsNew(e) /\ Processes(e)
    BY DEF IsNew, Processes, Process
  <2> HIDE DEF e
  <2>2. DspVariableDelay(s, e, io) = Fills(s, io, 0, BlockSize, [j \in Block |-> value(j)])
    BY <2>1 DEF DspVariableDelay
  <2> HIDE DEF value
  <2>3. DspVariableDelay(s, e, io).out[1] = Written(io.out[1], 0, BlockSize, [j \in Block |-> value(j)])
    <3> DEFINE samples == [j \in Block |-> value(j)]
    <3>1. 1 \in DOMAIN io.out
      OBVIOUS
    <3>2. DspVariableDelay(s, e, io) = Fills(s, io, 0, BlockSize, samples)
      BY <2>2
    <3> HIDE DEF samples
    <3>3. Fills(s, io, 0, BlockSize, samples).out[1] = Written(io.out[1], 0, BlockSize, samples)
      BY <3>1 DEF Fills, Idle
    <3>4. DspVariableDelay(s, e, io).out[1] = Written(io.out[1], 0, BlockSize, samples)
      BY <3>2, <3>3
    <3> QED  BY <3>4 DEF samples
  <2>4. k \in 0..BlockSize - 1 /\ k \in DOMAIN io.out[1]
    BY DEF Block
  <2>5. Written(io.out[1], 0, BlockSize, [j \in Block |-> value(j)])[k] = value(k)
    BY <2>4 DEF Written
  <2> QED  BY <2>3, <2>5
<1>7. value(k) = line.buffer[index \div 1000]
           + Math("/", (line.buffer[(index \div 1000) + 1] - line.buffer[index \div 1000]) * (index % 1000), 1000)
  OBVIOUS
<1> HIDE DEF line, D, now, value, e
<1>8. index = LET behind == (line.head - BlockSize + k) * 1000 - D
              IN  IF behind < 0 THEN behind + line.length * 1000 ELSE behind
  <2>1. x \in Nat
    OBVIOUS
  <2>2. DelayAt(x, line) = D
    BY <1>5, <2>1 DEF DelayAt, D
  <2> QED  BY <2>2 DEF TargetIndex
<1> HIDE DEF index
<1>9. LET moment == 1000 * (now - BlockSize + k) - D
          behind == (line.head - BlockSize + k) * 1000 - D
          index0 == IF behind < 0 THEN behind + line.length * 1000 ELSE behind
      IN  /\ line.buffer[index0 \div 1000] = signal[moment \div 1000]
          /\ index0 % 1000 = moment % 1000
          /\ line.buffer[(index0 \div 1000) + 1] \in Int /\ signal[(moment \div 1000) + 1] \in Int
          /\ index0 % 1000 # 0 => line.buffer[(index0 \div 1000) + 1] = signal[(moment \div 1000) + 1]
  <2>1. LineKeeps(line, signal, now)
    BY <1>2
  <2>2. now \in Nat /\ D \in Nat /\ D + 1000 * BlockSize <= 1000 * line.length
    BY <1>1, <1>3, <1>5
  <2>3. signal \in Signals /\ k \in Block
    OBVIOUS
  <2> QED  BY ONLY <2>1, <2>2, <2>3, ReadBetween
<1> DEFINE moment == 1000 * (now - BlockSize + k) - D
           y0 == line.buffer[index \div 1000]
           y1 == line.buffer[(index \div 1000) + 1]
           f == index % 1000
           after == signal[(moment \div 1000) + 1]
<1>10. /\ y0 = signal[moment \div 1000] /\ f = moment % 1000
       /\ y1 \in Int /\ after \in Int /\ (f # 0 => y1 = after)
  BY <1>8, <1>9
<1>11. y0 \in Int /\ f \in 0..999
  <2>1. moment \in Int
    BY <1>1, <1>3, BlockSizeIs DEF Block
  <2> HIDE DEF moment
  <2>2. moment \div 1000 \in Int /\ moment % 1000 \in 0..999
    BY <2>1
  <2> QED  BY <1>10, <2>2 DEF Signals
<1>12. moment = 1000 * ((n - 1) * BlockSize + k) - x * SampleRate
  BY <1>1 DEF D
<1> HIDE DEF moment, y0, y1, f, after
<1>13. (y1 - y0) * f = (after - y0) * f
  <2>1. CASE f = 0
    BY <1>10, <1>11, <2>1
  <2>2. CASE f # 0
    BY <1>10, <2>2
  <2> QED  BY <2>1, <2>2
<1>14. value(k) = y0 + Math("/", (y1 - y0) * f, 1000)
  BY <1>7 DEF y0, y1, f
<1>15. value(k) = signal[moment \div 1000]
                    + Math("/", (after - signal[moment \div 1000]) * (moment % 1000), 1000)
  BY <1>10, <1>13, <1>14
<1>16. DspVariableDelay(s, e, io).out[1][k]
         = signal[moment \div 1000]
             + Math("/", (signal[(moment \div 1000) + 1] - signal[moment \div 1000]) * (moment % 1000), 1000)
  BY ONLY <1>6, <1>15 DEF after
<1> QED  BY ONLY <1>12, <1>16, SMTT(30) DEF e

-----------------------------------------------------------------------------
(***************************************************************************)
(* Filters.  x is what has come to the inlet since the filter was made and *)
(* y the recurrence over all of it; at time t the filter remembers the     *)
(* last two samples of each.                                               *)
(***************************************************************************)
Recurrence(b, x, y) ==
  \A t \in Nat : y[t] = b[1] * x[t] + b[2] * x[t - 1] + b[3] * x[t - 2] - b[4] * y[t - 1] - b[5] * y[t - 2]

Remembered(s, x, y, t) ==
  s.x1 = x[t - 1] /\ s.x2 = x[t - 2] /\ s.y1 = y[t - 1] /\ s.y2 = y[t - 2]

Tapped == [b : [1..5 -> Int], x1 : Int, x2 : Int, y1 : Int, y2 : Int]

\* a piece and the two samples before it are those of the signal
Carries(piece, signal, t, from, to) ==
  \A k \in from - 2..to - 1 : piece[k] = signal[t + (k - from)]

(* The output is what the recurrence says: nothing else satisfies it. *)
LEMMA OutputIs ==
  ASSUME NEW s \in Tapped, NEW x \in [Int -> Int], NEW y \in [Int -> Int], Recurrence(s.b, x, y),
         NEW t \in Nat, NEW from \in Nat, NEW to \in Nat, from <= to, Remembered(s, x, y, t),
         NEW input, Carries(input, x, t, from, to)
  PROVE  Carries(FilterOutput(s, input, from, to), y, t, from, to)
<1> DEFINE S == from - 2..to - 1
           Rule(g, k) == IF k = from - 1 THEN s.y1 ELSE IF k = from - 2 THEN s.y2
                         ELSE s.b[1] * input[k] + s.b[2] * input[k - 1] + s.b[3] * input[k - 2]
                                - s.b[4] * g[k - 1] - s.b[5] * g[k - 2]
           output == FilterOutput(s, input, from, to)
           right == [k \in S |-> y[t + (k - from)]]
<1>1. output = CHOOSE g : g = [k \in S |-> Rule(g, k)]
  BY DEF FilterOutput
<1>2. ASSUME NEW g, NEW k \in S, k >= from, g[k - 1] = y[t + (k - from) - 1], g[k - 2] = y[t + (k - from) - 2]
      PROVE  Rule(g, k) = y[t + (k - from)]
  <2>1. input[k] = x[t + (k - from)]
    BY DEF Carries
  <2>2. input[k - 1] = x[t + (k - from) - 1]
    <3>1. k - 1 \in S /\ t + ((k - 1) - from) = t + (k - from) - 1
      BY <1>2
    <3> QED  BY <3>1 DEF Carries
  <2>3. input[k - 2] = x[t + (k - from) - 2]
    <3>1. k - 2 \in S /\ t + ((k - 2) - from) = t + (k - from) - 2
      BY <1>2
    <3> QED  BY <3>1 DEF Carries
  <2>4. t + (k - from) \in Nat
    BY <1>2
  <2>5. k # from - 1 /\ k # from - 2
    BY <1>2
  <2> QED  BY <1>2, <2>1, <2>2, <2>3, <2>4, <2>5 DEF Recurrence
<1>3. y[t + ((from - 1) - from)] = s.y1 /\ y[t + ((from - 2) - from)] = s.y2
  <2>1. t + ((from - 1) - from) = t - 1 /\ t + ((from - 2) - from) = t - 2
    OBVIOUS
  <2> QED  BY <2>1 DEF Remembered
<1>4. right = [k \in S |-> Rule(right, k)]
  <2>1. ASSUME NEW k \in S
        PROVE  y[t + (k - from)] = Rule(right, k)
    <3>1. CASE k = from - 1
      BY <1>3, <3>1
    <3>2. CASE k = from - 2
      BY <1>3, <3>2
    <3>3. CASE k >= from
      <4>1. k - 1 \in S /\ k - 2 \in S
        BY <3>3
      <4>2. /\ t + ((k - 1) - from) = t + (k - from) - 1
            /\ t + ((k - 2) - from) = t + (k - from) - 2
        OBVIOUS
      <4>3. right[k - 1] = y[t + (k - from) - 1] /\ right[k - 2] = y[t + (k - from) - 2]
        BY <4>1, <4>2
      <4> HIDE DEF right, Rule
      <4> QED  BY <1>2, <3>3, <4>3
    <3> QED  BY <3>1, <3>2, <3>3
  <2> HIDE DEF Rule
  <2> QED  BY <2>1
<1>5. output = [k \in S |-> Rule(output, k)]
  <2> HIDE DEF Rule, right
  <2> QED  BY <1>1, <1>4
<1> DEFINE bad == {i \in Nat : i - 2 + from \in S /\ output[i - 2 + from] # y[t + ((i - 2 + from) - from)]}
<1>6. bad = {}
  <2>1. SUFFICES ASSUME bad # {} PROVE FALSE
    OBVIOUS
  <2>2. PICK i \in bad : \A j \in bad : i <= j
    BY <2>1, LeastNatural
  <2> DEFINE k == i - 2 + from
  <2>3. i \in Nat /\ k \in S /\ output[k] # y[t + (k - from)]
    BY <2>2
  <2>4. output[k] = Rule(output, k)
    <3> HIDE DEF Rule, k, output
    <3> QED  BY <1>5, <2>3
  <2>5. CASE k = from - 1
    BY <1>3, <2>3, <2>4, <2>5
  <2>6. CASE k = from - 2
    BY <1>3, <2>3, <2>4, <2>6
  <2>7. CASE k >= from
    <3>1. i - 1 \in Nat /\ i - 2 \in Nat /\ ~(i <= i - 1) /\ ~(i <= i - 2)
      BY <2>3, <2>7
    <3>2. i - 1 \notin bad /\ i - 2 \notin bad
      BY <2>2, <3>1
    <3>3. /\ (i - 1) - 2 + from = k - 1 /\ (i - 2) - 2 + from = k - 2
          /\ t + ((k - 1) - from) = t + (k - from) - 1
          /\ t + ((k - 2) - from) = t + (k - from) - 2
          /\ k - 1 \in S /\ k - 2 \in S
      BY <2>3, <2>7
    <3> HIDE DEF k, output
    <3>4. output[k - 1] = y[t + (k - from) - 1] /\ output[k - 2] = y[t + (k - from) - 2]
      BY <3>1, <3>2, <3>3
    <3> HIDE DEF Rule
    <3> QED  BY <1>2, <2>3, <2>4, <2>7, <3>4
  <2> QED  BY <2>3, <2>5, <2>6, <2>7
<1> HIDE DEF output
<1>7. ASSUME NEW k \in S
      PROVE  output[k] = y[t + (k - from)]
  <2>1. k - from + 2 \in Nat /\ (k - from + 2) - 2 + from = k
    OBVIOUS
  <2>2. k - from + 2 \notin bad
    BY <1>6
  <2> QED  BY <2>1, <2>2
<1> QED  BY <1>7 DEF output, Carries

(***************************************************************************)
(* A filter computes one recurrence over all samples: a piece is what the  *)
(* recurrence says of its samples, and the filter behind it remembers what *)
(* the next piece needs.  Cuts, and the ends of blocks, are not heard.     *)
(* (DspFilter.cpp:42-69)                                                   *)
(***************************************************************************)
THEOREM FilterIsOneRecurrence ==
  ASSUME NEW s \in Tapped, NEW x \in [Int -> Int], NEW y \in [Int -> Int], Recurrence(s.b, x, y),
         NEW t \in Nat, NEW from \in Nat, NEW to \in Nat, from <= to, to <= BlockSize,
         Remembered(s, x, y, t),
         NEW io, 1 \in DOMAIN io.out, io.out[1] \in [Block -> Int],
         \A k \in from..to - 1 : io.in[1][k] = x[t + (k - from)]
  PROVE  LET r == DspFilter(s, Process(from, to), io)
         IN  /\ r.state \in Tapped /\ r.state.b = s.b
             /\ Remembered(r.state, x, y, t + (to - from))
             /\ \A k \in Block : r.out[1][k] = IF k \in from..to - 1 THEN y[t + (k - from)] ELSE io.out[1][k]
<1> DEFINE e == Process(from, to)
           input == FilterInput(s, io, from, to)
           output == FilterOutput(s, input, from, to)
           after == [s EXCEPT !.x1 = input[to - 1], !.x2 = input[to - 2],
                              !.y1 = output[to - 1], !.y2 = output[to - 2]]
           r == DspFilter(s, e, io)
<1>1. Carries(input, x, t, from, to)
  <2>1. ASSUME NEW k \in from - 2..to - 1
        PROVE  input[k] = x[t + (k - from)]
    <3>1. input[k] = IF k = from - 1 THEN s.x1 ELSE IF k = from - 2 THEN s.x2 ELSE io.in[1][k]
      BY DEF FilterInput
    <3>2. CASE k = from - 1
      <4>1. t + (k - from) = t - 1
        BY <3>2
      <4> QED  BY <3>1, <3>2, <4>1 DEF Remembered
    <3>3. CASE k = from - 2
      <4>1. t + (k - from) = t - 2 /\ k # from - 1
        BY <3>3
      <4> QED  BY <3>1, <3>3, <4>1 DEF Remembered
    <3>4. CASE k \in from..to - 1
      <4>1. k # from - 1 /\ k # from - 2
        BY <3>4
      <4> QED  BY <3>1, <3>4, <4>1
    <3>5. k = from - 1 \/ k = from - 2 \/ k \in from..to - 1
      OBVIOUS
    <3> QED  BY <3>2, <3>3, <3>4, <3>5, ZenonT(30)
  <2> HIDE DEF input
  <2> QED  BY <2>1 DEF Carries
<1> HIDE DEF input
<1>2. Carries(output, y, t, from, to)
  BY <1>1, OutputIs
<1> HIDE DEF output
<1>3. e.from = from /\ e.to = to
  BY DEF Process
<1>4. r = Fills(after, io, from, to, output)
  <2> HIDE DEF e
  <2> QED  BY <1>3 DEF DspFilter, input, output
<1>5. r.state = after /\ r.out = [io.out EXCEPT ![1] = Written(io.out[1], from, to, output)]
      /\ r.out[1] = Written(io.out[1], from, to, output)
  BY <1>4, FillsIs
<1> HIDE DEF r
<1> DEFINE u == t + (to - from)
<1>6. /\ input[to - 1] = x[u - 1] /\ input[to - 2] = x[u - 2]
      /\ output[to - 1] = y[u - 1] /\ output[to - 2] = y[u - 2]
  <2>1. /\ to - 1 \in from - 2..to - 1 /\ t + ((to - 1) - from) = u - 1
        /\ to - 2 \in from - 2..to - 1 /\ t + ((to - 2) - from) = u - 2
    OBVIOUS
  <2> HIDE DEF u
  <2> QED  BY <1>1, <1>2, <2>1 DEF Carries
<1>7. u \in Nat /\ u - 1 \in Int /\ u - 2 \in Int
  OBVIOUS
<1> HIDE DEF u
<1>8. /\ after.b = s.b /\ after \in Tapped
      /\ after.x1 = x[u - 1] /\ after.x2 = x[u - 2] /\ after.y1 = y[u - 1] /\ after.y2 = y[u - 2]
  BY <1>6, <1>7 DEF Tapped
<1> HIDE DEF after
<1>9. Remembered(r.state, x, y, u)
  BY <1>5, <1>8 DEF Remembered
<1>10. ASSUME NEW k \in Block
       PROVE  r.out[1][k] = IF k \in from..to - 1 THEN y[t + (k - from)] ELSE io.out[1][k]
  <2>1. r.out[1][k] = IF k \in from..to - 1 THEN output[k] ELSE io.out[1][k]
    BY <1>5 DEF Written
  <2>2. k \in from..to - 1 => k \in from - 2..to - 1
    OBVIOUS
  <2> QED  BY <1>2, <2>1, <2>2 DEF Carries
<1> QED  BY <1>5, <1>8, <1>9, <1>10 DEF u, r, e

-----------------------------------------------------------------------------
(***************************************************************************)
(* Ramps.  A ramp is what a [line~] holds when it begins: after j samples  *)
(* it is at RampAt(ramp, j), and its fields say where it is.               *)
(***************************************************************************)
Ramps == [target : Int, slope : Int, left : Nat, last : Int]

RampAt(ramp, j) == IF j < ramp.left THEN ramp.last + j * ramp.slope ELSE ramp.target

OnRamp(s, ramp, j) ==
  /\ s.target = ramp.target /\ s.slope = ramp.slope
  /\ s.left = IF j < ramp.left THEN ramp.left - j ELSE 0
  /\ j < ramp.left => s.last = ramp.last + j * ramp.slope

LEMMA Distributes ==
  ASSUME NEW a \in Int, NEW b \in Int, NEW c \in Int
  PROVE  a * c \in Int /\ b * c \in Int /\ (a + b) * c = (a * c) + (b * c)
OBVIOUS

(***************************************************************************)
(* A ramp of [line~] is one ramp in whatever pieces it is computed: each   *)
(* sample is by the slope behind the one before, the target is reached     *)
(* when the time is over, in the middle of a piece or at its end, and kept *)
(* from then on (DspLine.cpp:71-120).                                      *)
(***************************************************************************)
THEOREM RampIsSeamless ==
  ASSUME NEW ramp \in Ramps, NEW s \in Ramps, NEW j \in Nat, OnRamp(s, ramp, j),
         NEW from \in Nat, NEW to \in Nat, from <= to, to <= BlockSize,
         NEW io, 1 \in DOMAIN io.out, io.out[1] \in [Block -> Int]
  PROVE  LET r == DspLine(s, Process(from, to), io)
         IN  /\ r.state \in Ramps /\ OnRamp(r.state, ramp, j + (to - from))
             /\ \A k \in Block :
                  r.out[1][k] = IF k \in from..to - 1 THEN RampAt(ramp, j + (k - from)) ELSE io.out[1][k]
<1> USE BlockSizeIs
<1> DEFINE e == Process(from, to)
           r == DspLine(s, e, io)
           n == to - from
<1>0. /\ s.target \in Int /\ s.slope \in Int /\ s.left \in Nat /\ s.last \in Int
      /\ ramp.target \in Int /\ ramp.slope \in Int /\ ramp.left \in Nat /\ ramp.last \in Int
  BY DEF Ramps
<1>1. ~IsNew(e) /\ ~HearsFloat(e, 1) /\ Processes(e) /\ e.from = from /\ e.to = to
  BY DEF IsNew, HearsFloat, Hears, Processes, Process
<1> HIDE DEF e
<1>2. CASE from = to
  <2>1. r = Idle(s, io)
    BY <1>1, <1>2 DEF DspLine
  <2>2. r.state = s /\ r.out = io.out
    BY <2>1 DEF Idle
  <2>3. j + (to - from) = j /\ \A k \in Block : k \notin from..to - 1
    BY <1>2 DEF Block
  <2> HIDE DEF r
  <2>4. \A k \in Block :
          r.out[1][k] = IF k \in from..to - 1 THEN RampAt(ramp, j + (k - from)) ELSE io.out[1][k]
    BY <2>2, <2>3
  <2>5. OnRamp(r.state, ramp, j + (to - from))
    BY <2>2, <2>3
  <2> QED  BY <2>2, <2>4, <2>5 DEF r, e
<1>3. CASE from < to
  <2>1. r = LinePiece(s, io, from, to)
    BY <1>1, <1>3 DEF DspLine
  <2> HIDE DEF r
  <2> SUFFICES /\ r.state \in Ramps /\ OnRamp(r.state, ramp, j + n)
               /\ \A k \in Block : /\ k \in from..to - 1 => r.out[1][k] = RampAt(ramp, j + (k - from))
                                   /\ k \notin from..to - 1 => r.out[1][k] = io.out[1][k]
    BY DEF r, e
  <2>2. n \in Nat \ {0} /\ j + n \in Nat
    BY <1>3
  <2> HIDE DEF n
  <2>3. CASE s.left <= 0
    <3> DEFINE after == [s EXCEPT !.last = s.target]
               samples == [k \in Block |-> s.target]
    <3>1. r = Fills(after, io, from, to, samples)
      BY <1>0, <2>1, <2>3 DEF LinePiece
    <3>2. ~(j < ramp.left) /\ s.left = 0
      BY <1>0, <2>3 DEF OnRamp
    <3>3. after \in Ramps /\ OnRamp(after, ramp, j + n)
      BY <1>0, <2>2, <3>2 DEF Ramps, OnRamp
    <3>4. ASSUME NEW k \in Block, k \in from..to - 1
          PROVE  samples[k] = RampAt(ramp, j + (k - from))
      BY <1>0, <3>2, <3>4 DEF OnRamp, RampAt
    <3> HIDE DEF after, samples
    <3>5. r.state = after /\ r.out[1] = Written(io.out[1], from, to, samples)
      BY <3>1 DEF Fills, Idle
    <3> QED  BY <3>3, <3>4, <3>5 DEF Written
  <2>4. CASE s.left > 0 /\ s.left < to - from
    <3> DEFINE after == [s EXCEPT !.last = s.target, !.left = 0]
               samples == [k \in Block |-> IF k < from + s.left THEN Ramp(s, from)[k] ELSE s.target]
    <3>1. r = Fills(after, io, from, to, samples)
      BY <1>0, <2>1, <2>4 DEF LinePiece
    <3>2. j < ramp.left /\ s.left = ramp.left - j /\ s.last = ramp.last + j * ramp.slope
          /\ s.target = ramp.target /\ s.slope = ramp.slope
      BY <1>0, <2>4 DEF OnRamp
    <3>3. after \in Ramps /\ OnRamp(after, ramp, j + n)
      <4>1. after.target = s.target /\ after.slope = s.slope /\ after.left = 0 /\ after \in Ramps
        BY <1>0 DEF Ramps
      <4>2. ~(j + n < ramp.left)
        BY <1>0, <2>4, <3>2 DEF n
      <4> HIDE DEF after
      <4> QED  BY <3>2, <4>1, <4>2 DEF OnRamp
    <3>4. ASSUME NEW k \in Block, k \in from..to - 1
          PROVE  samples[k] = RampAt(ramp, j + (k - from))
      <4>1. k - from \in Nat /\ (k < from + s.left <=> j + (k - from) < ramp.left)
        BY <1>0, <3>2, <3>4
      <4>2. (j + (k - from)) * ramp.slope = (j * ramp.slope) + ((k - from) * ramp.slope)
            /\ j * ramp.slope \in Int /\ (k - from) * ramp.slope \in Int
        BY <1>0, <4>1, Distributes
      <4>3. Ramp(s, from)[k] = ramp.last + (j * ramp.slope) + ((k - from) * ramp.slope)
        BY <3>2, <1>0 DEF Ramp
      <4>4. Ramp(s, from)[k] = ramp.last + ((j + (k - from)) * ramp.slope)
        BY <1>0, <4>2, <4>3
      <4> QED  BY <3>2, <4>1, <4>4 DEF RampAt
    <3> HIDE DEF after, samples
    <3>5. r.state = after /\ r.out[1] = Written(io.out[1], from, to, samples)
      BY <3>1 DEF Fills, Idle
    <3> QED  BY <3>3, <3>4, <3>5 DEF Written
  <2>5. CASE s.left > 0 /\ ~(s.left < to - from)
    <3> DEFINE after == [s EXCEPT !.last = @ + (to - from) * s.slope, !.left = @ - (to - from)]
               samples == Ramp(s, from)
    <3>1. r = Fills(after, io, from, to, samples)
      <4>1. ~(s.left <= 0)
        BY <1>0, <2>5
      <4> QED  BY <2>1, <2>5, <4>1 DEF LinePiece
    <3>2. j < ramp.left /\ s.left = ramp.left - j /\ s.last = ramp.last + j * ramp.slope
          /\ s.target = ramp.target /\ s.slope = ramp.slope
      BY <1>0, <2>5 DEF OnRamp
    <3>3. after \in Ramps /\ OnRamp(after, ramp, j + n)
      <4>1. (j + n) * ramp.slope = (j * ramp.slope) + (n * ramp.slope)
            /\ j * ramp.slope \in Int /\ n * ramp.slope \in Int
        BY <1>0, <2>2, Distributes
      <4>2. after.target = s.target /\ after.slope = s.slope
            /\ after.last = s.last + (n * ramp.slope) /\ after.left = s.left - n
        BY <3>2 DEF n, Ramps
      <4>3. after \in Ramps
        <5>1. s.last + (to - from) * s.slope \in Int
          BY <1>0
        <5>2. s.left - (to - from) \in Nat
          BY <1>0, <2>5
        <5> QED  BY <5>1, <5>2 DEF Ramps
      <4>4. n <= s.left
        BY <1>0, <2>5 DEF n
      <4> HIDE DEF after
      <4>5. /\ after.left = IF j + n < ramp.left THEN ramp.left - (j + n) ELSE 0
            /\ after.last = ramp.last + ((j + n) * ramp.slope)
        <5>1. ramp.left - (j + n) = s.left - n /\ (~(j + n < ramp.left) => s.left - n = 0)
          <6>1. s.left = ramp.left - j /\ s.left \in Int /\ ramp.left \in Int /\ j \in Int /\ n \in Int
            BY <1>0, <2>2, <3>2
          <6> QED  BY ONLY <4>4, <6>1
        <5> DEFINE a == j * ramp.slope
                   b == n * ramp.slope
                   c == (j + n) * ramp.slope
        <5>2. a \in Int /\ b \in Int /\ c = a + b /\ s.last = ramp.last + a /\ after.last = s.last + b
          BY <3>2, <4>1, <4>2
        <5> HIDE DEF a, b, c
        <5>3. after.last = ramp.last + c
          BY <1>0, <5>2
        <5> QED  BY <4>2, <5>1, <5>3 DEF c
      <4> QED  BY <3>2, <4>2, <4>3, <4>5 DEF OnRamp
    <3>4. ASSUME NEW k \in Block, k \in from..to - 1
          PROVE  samples[k] = RampAt(ramp, j + (k - from))
      <4>1. k - from \in Nat /\ j + (k - from) < ramp.left
        BY <1>0, <2>5, <3>2, <3>4
      <4>2. (j + (k - from)) * ramp.slope = (j * ramp.slope) + ((k - from) * ramp.slope)
            /\ j * ramp.slope \in Int /\ (k - from) * ramp.slope \in Int
        BY <1>0, <4>1, Distributes
      <4>3. Ramp(s, from)[k] = ramp.last + (j * ramp.slope) + ((k - from) * ramp.slope)
        BY <3>2, <1>0 DEF Ramp
      <4>4. Ramp(s, from)[k] = ramp.last + ((j + (k - from)) * ramp.slope)
        BY <1>0, <4>2, <4>3
      <4> QED  BY <4>1, <4>4 DEF RampAt
    <3> HIDE DEF after, samples
    <3>5. r.state = after /\ r.out[1] = Written(io.out[1], from, to, samples)
      BY <3>1 DEF Fills, Idle
    <3> QED  BY <3>3, <3>4, <3>5 DEF Written
  <2> QED  BY <1>0, <2>3, <2>4, <2>5
<1> QED  BY <1>2, <1>3

-----------------------------------------------------------------------------
(***************************************************************************)
(* The message objects that divide.                                        *)
(***************************************************************************)
LEMMA QuotientsAreUnique ==
  ASSUME NEW d \in Nat \ {0}, NEW q \in Int, NEW p \in Int,
         NEW r \in 0..d - 1, NEW t \in 0..d - 1, (d * q) + r = (d * p) + t
  PROVE  q = p /\ r = t
<1> DEFINE e == q - p
<1>1. e \in Int /\ d * e \in Int /\ d * e = t - r
  <2>1. d * q \in Int /\ d * p \in Int /\ d * (q - p) = (d * q) - (d * p)
    OBVIOUS
  <2> QED  BY <2>1
<1>2. e = 0 <=> q = p
  OBVIOUS
<1> HIDE DEF e
<1>3. e > 0 => d * e >= d
  BY ONLY <1>1, d \in Nat \ {0}
<1>4. e < 0 => d * e <= -d
  BY ONLY <1>1, d \in Nat \ {0}
<1>5. e = 0
  BY <1>1, <1>3, <1>4
<1>6. d * e = 0
  BY ONLY <1>5, d \in Nat \ {0}
<1> QED  BY <1>1, <1>2, <1>5, <1>6

(* [div] rounds downwards, negative numbers included. *)
LEMMA DownwardsIs ==
  ASSUME NEW x \in Int, NEW d \in Nat \ {0}
  PROVE  LET q == Towards0(Shifted(x, d), d)
         IN  q \in Int /\ x - (d * q) \in 0..d - 1
<1> DEFINE f == Shifted(x, d)
           q == Towards0(f, d)
           r == CRemainder(f, d)
<1>1. f \in Int /\ d \in Int \ {0} /\ Magnitude(d) = d
  BY DEF Shifted, Magnitude
<1>2. f = IF x < 0 THEN x - (d - 1) ELSE x
  BY DEF Shifted
<1> HIDE DEF f
<1>3. /\ q \in Int /\ r \in Int /\ f = d * q + r
      /\ f >= 0 => r \in 0..d - 1
      /\ f <= 0 => -r \in 0..d - 1
  BY <1>1, TruncatedIs
<1> HIDE DEF q, r
<1> DEFINE p == d * q
<1>4. p \in Int /\ f = p + r
  BY <1>3
<1> HIDE DEF p
<1>5. x - p \in 0..d - 1
  BY <1>1, <1>2, <1>3, <1>4
<1> QED  BY <1>3, <1>5 DEF p, q, f

(***************************************************************************)
(* [mod], [div] and [%] by the same number, which may be negative, agree   *)
(* on every number: what [div] leaves is what [mod] answers, never below   *)
(* 0, and [%] differs from it by the divisor at most, with the sign of     *)
(* what came (MessageModulus.cpp, MessageDiv.cpp, MessageRemainder.cpp).   *)
(***************************************************************************)
THEOREM QuotientsAgree ==
  ASSUME NEW x \in Int, NEW c \in Int \ {0}, NEW last \in Int, NEW before
  PROVE  LET m == <<Float(x)>>
             d == Magnitude(c)
             mod == Answer(MessageModulus([constant |-> c, last |-> last], 1, m))
             div == Answer(MessageDiv(MessageDiv(before, 2, <<Float(c)>>).state, 1, m))
             rem == Answer(MessageRemainder([constant |-> c], 1, m))
         IN  /\ mod \in 0..d - 1 /\ div \in Int /\ x = (d * div) + mod
             /\ rem \in {mod, mod - d} /\ (x >= 0 => rem >= 0) /\ (x <= 0 => rem <= 0)
<1> DEFINE m == <<Float(x)>>
           d == Magnitude(c)
           modulus == MessageModulus([constant |-> c, last |-> last], 1, m)
           divided == MessageDiv(MessageDiv(before, 2, <<Float(c)>>).state, 1, m)
           remains == MessageRemainder([constant |-> c], 1, m)
           r == CRemainder(x, c)
           t == Towards0(x, c)
           q == Towards0(Shifted(x, d), d)
           up == IF r < 0 THEN r + d ELSE r
<1>1. is_float(m, 1) /\ ~is_bang(m, 1) /\ get_float(m, 1) = x /\ is_float(<<Float(c)>>, 1) /\ get_float(<<Float(c)>>, 1) = c
  BY FloatIs
<1>2. d \in Nat \ {0}
  BY DEF Magnitude
<1> HIDE DEF m, Float
<1>3. Answer(modulus) = up
  <2> DEFINE s == [constant |-> c, last |-> last]
  <2>1. s.constant = c /\ c # 0
    OBVIOUS
  <2> HIDE DEF s
  <2> DEFINE left == IF s.constant = 0 THEN 0 ELSE CRemainder(get_float(m, 1), s.constant)
             value == IF left < 0 THEN left + Magnitude(s.constant) ELSE left
  <2>2. MessageModulus(s, 1, m) = Remembers(s, 1, m, up)
    <3>1. value = up
      BY <1>1, <2>1
    <3>2. MessageModulus(s, 1, m) = Remembers(s, 1, m, value)
      BY DEF MessageModulus
    <3> HIDE DEF value, up
    <3> QED  BY <3>1, <3>2
  <2> HIDE DEF up
  <2>3. Remembers(s, 1, m, up) = Sends([s EXCEPT !.last = up], 1, <<Float(up)>>)
    BY <1>1 DEF Remembers, New
  <2>4. Answer(MessageModulus(s, 1, m)) = up
    BY <2>2, <2>3, AnswerIs
  <2> QED  BY <2>4 DEF s
<1>4. Answer(remains) = r
  <2>1. remains = Sends([constant |-> c], 1, <<Float(r)>>)
    BY <1>1 DEF MessageRemainder, Function, New
  <2> HIDE DEF remains, r
  <2> QED  BY <2>1, AnswerIs
<1>5. Answer(divided) = q
  <2>1. Divisor(c) = d
    BY DEF Divisor
  <2>2. MessageDiv(before, 2, <<Float(c)>>).state = [constant |-> d]
    BY <1>1, <2>1 DEF MessageDiv, New, Quiet
  <2> HIDE DEF d
  <2>3. divided = Sends([constant |-> d], 1, <<Float(q)>>)
    BY <1>1, <2>2 DEF MessageDiv, Function, New
  <2> HIDE DEF divided, q
  <2> QED  BY <2>3, AnswerIs
<1>6. /\ t \in Int /\ r \in Int /\ x = c * t + r
      /\ x >= 0 => r \in 0..d - 1
      /\ x <= 0 => -r \in 0..d - 1
  BY TruncatedIs
<1>7. q \in Int /\ x - (d * q) \in 0..d - 1
  BY <1>2, DownwardsIs
<1>8. up \in 0..d - 1 /\ (r = up \/ r = up - d)
  <2> HIDE DEF d, r
  <2> QED  BY <1>2, <1>6
<1>9. PICK p \in Int : x = (d * p) + up
  <2>1. c * t = d * (IF c < 0 THEN -t ELSE t) /\ d * (IF c < 0 THEN -t ELSE t) \in Int
    <3> HIDE DEF t
    <3>1. CASE c < 0
      BY <1>6, <3>1 DEF Magnitude
    <3>2. CASE ~(c < 0)
      BY <1>6, <3>2 DEF Magnitude
    <3> QED  BY <3>1, <3>2
  <2> DEFINE u == IF c < 0 THEN -t ELSE t
  <2>2. u \in Int /\ x = (d * u) + r /\ d * u \in Int
    BY <1>6, <2>1
  <2> HIDE DEF u, d, r, t
  <2>3. d * (u - 1) = (d * u) - d /\ u - 1 \in Int
    BY <1>2, <2>2
  <2>4. x = (d * (IF r < 0 THEN u - 1 ELSE u)) + up
    <3>1. CASE r < 0
      BY <1>2, <1>6, <2>2, <2>3, <3>1
    <3>2. CASE ~(r < 0)
      BY <2>2, <3>2
    <3> QED  BY <3>1, <3>2
  <2>5. (IF r < 0 THEN u - 1 ELSE u) \in Int
    BY <2>2, <2>3
  <2> QED  BY <2>4, <2>5
<1> HIDE DEF modulus, divided, remains, r, t, q, up, d
<1>10. q = p /\ x - (d * q) = up
  <2> DEFINE v == x - (d * q)
  <2>1. v \in 0..d - 1 /\ (d * q) + v = (d * p) + up
    <3>1. d * q \in Int
      BY <1>2, <1>7
    <3> QED  BY <1>7, <1>9, <3>1
  <2> HIDE DEF v
  <2>2. q = p /\ v = up
    BY <1>2, <1>7, <1>8, <2>1, QuotientsAreUnique
  <2> QED  BY <2>2 DEF v
<1>11. (x >= 0 => r >= 0) /\ (x <= 0 => r <= 0)
  BY <1>2, <1>6
<1> QED  BY <1>3, <1>4, <1>5, <1>7, <1>8, <1>9, <1>10, <1>11 DEF m, d, modulus, divided, remains

-----------------------------------------------------------------------------
(***************************************************************************)
(* Oscillators.  An oscillator that began at the phase start and has       *)
(* computed j samples stands at start + j * step.                          *)
(***************************************************************************)
Oscillators == [step : Int, spacing : Int, index : Int]

InPhase(s, step, start, j) ==
  /\ s \in Oscillators /\ s.step = step /\ s.spacing = step
  /\ Unsigned(s.index) = Unsigned(start + (j * step))

LEMMA RemainderIs ==
  ASSUME NEW a \in Int, NEW d \in Nat \ {0}
  PROVE  a % d \in Int /\ (a % d) % d = a % d
<1> DEFINE r == a % d
<1>1. r \in 0..d - 1
  OBVIOUS
<1> HIDE DEF r
<1>2. r % d = r
  BY <1>1
<1> QED  BY <1>1, <1>2 DEF r

LEMMA RemaindersAdd ==
  ASSUME NEW a \in Int, NEW b \in Int, NEW c \in Int, NEW d \in Nat \ {0}, a % d = b % d
  PROVE  (a + c) % d = (b + c) % d
<1> DEFINE Q(x) == x \div d
           R(x) == x % d
<1>1. ASSUME NEW x \in Int
      PROVE  Q(x) \in Int /\ R(x) \in 0..d - 1 /\ x = (d * Q(x)) + R(x) /\ d * Q(x) \in Int
  BY <1>1
<1>2. /\ Q(a) \in Int /\ R(a) \in 0..d - 1 /\ a = (d * Q(a)) + R(a) /\ d * Q(a) \in Int
      /\ Q(b) \in Int /\ R(b) \in 0..d - 1 /\ b = (d * Q(b)) + R(b) /\ d * Q(b) \in Int
      /\ Q(a + c) \in Int /\ R(a + c) \in 0..d - 1 /\ a + c = (d * Q(a + c)) + R(a + c) /\ d * Q(a + c) \in Int
      /\ Q(b + c) \in Int /\ R(b + c) \in 0..d - 1 /\ b + c = (d * Q(b + c)) + R(b + c) /\ d * Q(b + c) \in Int
      /\ R(a) = R(b)
  <2>1. a + c \in Int /\ b + c \in Int
    OBVIOUS
  <2> HIDE DEF Q, R
  <2> QED  BY <1>1, <2>1 DEF R
<1> HIDE DEF Q, R
<1> DEFINE p == Q(b + c) + (Q(a) - Q(b))
<1>3. p \in Int /\ d * p = (d * Q(b + c)) + ((d * Q(a)) - (d * Q(b)))
  BY <1>2
<1> HIDE DEF p
<1>4. (d * Q(a + c)) + R(a + c) = (d * p) + R(b + c)
  BY <1>2, <1>3
<1>5. R(a + c) = R(b + c)
  <2> DEFINE q == Q(a + c)
             r == R(a + c)
             v == R(b + c)
  <2>1. q \in Int /\ r \in 0..d - 1 /\ v \in 0..d - 1 /\ (d * q) + r = (d * p) + v
    BY <1>2, <1>4
  <2> HIDE DEF q, r, v
  <2>2. r = v
    BY <1>3, <2>1, QuotientsAreUnique
  <2> QED  BY <2>2 DEF r, v
<1> QED  BY <1>5 DEF R

LEMMA UnsignedIs ==
  ASSUME NEW a \in Int
  PROVE  Unsigned(a) \in Int /\ Unsigned(Unsigned(a)) = Unsigned(a)
<1> DEFINE d == 65536
<1>1. d \in Nat \ {0}
  OBVIOUS
<1>2. ASSUME NEW x
      PROVE  Unsigned(x) = x % d
  BY DEF Unsigned
<1> HIDE DEF d
<1> QED  BY <1>1, <1>2, RemainderIs

LEMMA UnsignedAdds ==
  ASSUME NEW a \in Int, NEW b \in Int, NEW c \in Int, Unsigned(a) = Unsigned(b)
  PROVE  Unsigned(a + c) = Unsigned(b + c)
<1> DEFINE d == 65536
<1>1. d \in Nat \ {0}
  OBVIOUS
<1>2. ASSUME NEW x
      PROVE  Unsigned(x) = x % d
  BY DEF Unsigned
<1> HIDE DEF d
<1>3. a % d = b % d
  BY <1>2
<1>4. (a + c) % d = (b + c) % d
  BY <1>1, <1>3, RemaindersAdd
<1> QED  BY <1>2, <1>4

LEMMA WholeVectors ==
  ASSUME NEW from \in Nat, from % 8 = 0, NEW to \in Nat, to % 8 = 0, from <= to
  PROVE  /\ UpTo(8, from) = 0 /\ (to - from) % 8 = 0
         /\ OscSupports(from, to)
<1>1. (8 - (from % 8)) % 8 = 0
  OBVIOUS
<1>2. UpTo(8, from) = 0
  BY <1>1 DEF UpTo
<1>3. (to - from) % 8 = 0
  OBVIOUS
<1> QED  BY <1>2, <1>3 DEF OscSupports

(***************************************************************************)
(* Where an [osc~] is asked for whole vectors, a block or the pieces of a  *)
(* block, it is one oscillation: each sample is the cosine of a phase that *)
(* moves by the step from sample to sample, over the ends of vectors,      *)
(* pieces and blocks and over the end of the unsigned index                *)
(* (DspOsc.cpp:95-166).                                                    *)
(***************************************************************************)
THEOREM PhaseIsKept ==
  ASSUME NEW step \in Int, NEW start \in Int, NEW j \in Nat, NEW s, InPhase(s, step, start, j),
         NEW from \in Nat, from % 8 = 0, NEW to \in Nat, to % 8 = 0, from <= to, to <= BlockSize,
         NEW io, 1 \in DOMAIN io.out, io.out[1] \in [Block -> Int]
  PROVE  LET r == DspOsc(s, Process(from, to), io)
         IN  /\ InPhase(r.state, step, start, j + (to - from))
             /\ \A k \in Block :
                  r.out[1][k] = IF k \in from..to - 1 THEN CosTable(start + ((j + (k - from)) * step))
                                                      ELSE io.out[1][k]
<1> USE BlockSizeIs
<1> DEFINE e == Process(from, to)
           r == DspOsc(s, e, io)
           n == to - from
           after == Advanced(s, from, to)
           samples == [k \in Block |-> OscSample(s, from, to, k)]
<1>1. ~IsNew(e) /\ ~HearsFloat(e, 1) /\ Processes(e) /\ e.from = from /\ e.to = to
  BY DEF IsNew, HearsFloat, Hears, Processes, Process
<1>2. UpTo(8, from) = 0 /\ n % 8 = 0 /\ OscSupports(from, to)
  BY WholeVectors
<1>3. r = Fills(after, io, from, to, samples)
  <2> HIDE DEF e
  <2> QED  BY <1>1, <1>2 DEF DspOsc
<1>4. s \in Oscillators /\ s.step = step /\ s.spacing = step /\ s.index \in Int
      /\ Unsigned(s.index) = Unsigned(start + (j * step))
  BY DEF InPhase, Oscillators
<1>5. n \in Nat /\ j * step \in Int
  OBVIOUS
<1>6. ASSUME NEW i \in Int
      PROVE  /\ i * step \in Int
             /\ Unsigned(s.index + (i * step)) = Unsigned(start + ((j + i) * step))
  <2>1. (j + i) * step = (j * step) + (i * step) /\ i * step \in Int
    BY Distributes
  <2> DEFINE a == j * step
             b == i * step
  <2>2. a \in Int /\ b \in Int /\ start + a \in Int /\ (start + a) + b = start + ((j + i) * step)
    BY <2>1
  <2> HIDE DEF a, b
  <2>3. Unsigned(s.index + b) = Unsigned((start + a) + b)
    <3>1. Unsigned(s.index) = Unsigned(start + a)
      BY <1>4 DEF a
    <3> QED  BY <1>4, <2>2, <3>1, UnsignedAdds, ZenonT(30)
  <2> QED  BY <2>1, <2>2, <2>3 DEF b
<1>7. InPhase(after, step, start, j + n)
  <2>1. after = [s EXCEPT !.index = Unsigned(s.index + n * s.step)]
    <3>1. n - UpTo(8, from) = n /\ n - (n % 8) = n
      BY <1>2, <1>5
    <3> QED  BY <1>2, <3>1 DEF Advanced
  <2>2. n * step \in Int /\ Unsigned(s.index + (n * step)) = Unsigned(start + ((j + n) * step))
    <3>1. n \in Int
      BY <1>5
    <3> HIDE DEF n
    <3> QED  BY <3>1, <1>6
  <2> DEFINE b == n * step
  <2>3. Unsigned(s.index + b) \in Int /\ Unsigned(Unsigned(s.index + b)) = Unsigned(s.index + b)
    <3>1. s.index + b \in Int
      BY <1>4, <2>2
    <3> QED  BY <3>1, UnsignedIs
  <2>4. after.step = step /\ after.spacing = step /\ after.index = Unsigned(s.index + b)
        /\ after \in Oscillators
    <3>1. n * s.step = b
      BY <1>4
    <3> HIDE DEF b, n
    <3>2. Unsigned(s.index + b) \in Int
      BY <2>3
    <3> QED  BY <1>4, <2>1, <3>1, <3>2 DEF Oscillators
  <2> HIDE DEF after
  <2> QED  BY <2>2, <2>3, <2>4 DEF InPhase
<1>8. ASSUME NEW k \in Block, k \in from..to - 1
      PROVE  OscSample(s, from, to, k) = CosTable(start + ((j + (k - from)) * step))
  <2> DEFINE i == k - from
             m == i - (i % 8)
  <2>1. i \in 0..n - 1 /\ i % 8 \in Int /\ m \in Int /\ (i % 8) + m = i
    <3>1. k \in Int
      BY DEF Block
    <3>2. i \in 0..n - 1 /\ i \in Nat
      BY <1>8, <3>1
    <3> HIDE DEF i
    <3> QED  BY <3>2
  <2>2. OscSample(s, from, to, k) = CosTable(s.index + (i % 8) * s.spacing + m * s.step)
    <3>1. k - from - UpTo(8, from) = i /\ to - from - UpTo(8, from) = n /\ n - (n % 8) - 1 = n - 1
      <4>1. i - 0 = i /\ n - 0 = n
        BY <1>5, <2>1
      <4> QED  BY <1>2, <1>5, <4>1
    <3>2. ~(i < 0) /\ i \in 0..n - 1
      BY <2>1
    <3> HIDE DEF i, n
    <3> QED  BY <3>1, <3>2 DEF OscSample
  <2>3. (i % 8) * step \in Int /\ m * step \in Int /\ i * step = ((i % 8) * step) + (m * step)
    <3> DEFINE p == i % 8
    <3> HIDE DEF p, m
    <3> QED  BY <2>1, Distributes DEF p
  <2>4. s.index + (i % 8) * s.spacing + m * s.step = s.index + (i * step)
    <3> DEFINE p == (i % 8) * step
               q == m * step
    <3>1. p \in Int /\ q \in Int /\ i * step = p + q
      BY <2>3
    <3>2. (i % 8) * s.spacing = p /\ m * s.step = q
      BY <1>4
    <3> HIDE DEF p, q, m, i
    <3> QED  BY <1>4, <3>1, <3>2
  <2>5. Unsigned(s.index + (i * step)) = Unsigned(start + ((j + i) * step))
    <3>1. i \in Int
      BY <2>1
    <3> HIDE DEF i
    <3> QED  BY <3>1, <1>6
  <2> HIDE DEF m
  <2> QED  BY <2>2, <2>4, <2>5 DEF CosTable
<1> HIDE DEF after
<1>9. r.state = after /\ r.out[1] = Written(io.out[1], from, to, samples)
  BY <1>3 DEF Fills, Idle
<1>10. ASSUME NEW k \in Block
       PROVE  r.out[1][k] = IF k \in from..to - 1 THEN CosTable(start + ((j + (k - from)) * step))
                                                  ELSE io.out[1][k]
  BY <1>8, <1>9 DEF Written
<1> QED  BY <1>7, <1>9, <1>10 DEF r, e, n

-----------------------------------------------------------------------------
(***************************************************************************)
(* Tables.  A [tabplay~] that plays from start up to end has played j      *)
(* samples; behind the end its index does not matter.                      *)
(***************************************************************************)
Players == [table : STRING, current : Nat, end : Nat, outgoing : Seq(Nat)]

Playing(s, start, end, j) ==
  /\ s.end = end
  /\ IF start + j < end THEN s.current = start + j ELSE s.current >= end

PlayedAt(table, start, end, j) == IF start + j < end THEN table[start + j + 1] ELSE 0

(***************************************************************************)
(* What is played from a table is the table from the start to the end that *)
(* were asked for, each value once and none beyond, in whatever pieces it  *)
(* is computed, and then silence (DspTablePlay.cpp:112-150).  The samples  *)
(* before a piece stay, or are silenced with the rest of the block.        *)
(***************************************************************************)
THEOREM TablePlaysThrough ==
  ASSUME NEW s \in Players, s.table # NoTable, NEW start \in Nat, NEW end \in Nat, NEW j \in Nat,
         Playing(s, start, end, j),
         NEW from \in Nat, NEW to \in Nat, from <= to, to <= BlockSize,
         NEW io, io.tables[s.table] \in Seq(Int), end <= Len(io.tables[s.table]),
         1 \in DOMAIN io.out, io.out[1] \in [Block -> Int]
  PROVE  LET r == DspTablePlay(s, Process(from, to), io)
         IN  /\ r.state \in Players /\ r.state.table = s.table
             /\ Playing(r.state, start, end, j + (to - from))
             /\ \A k \in Block :
                  IF k \in from..to - 1
                    THEN r.out[1][k] = PlayedAt(io.tables[s.table], start, end, j + (k - from))
                    ELSE r.out[1][k] = io.out[1][k] \/ (start + j >= end /\ r.out[1][k] = 0)
             /\ \A i \in Nat : start + i < end => start + i + 1 \in DOMAIN io.tables[s.table]
<1> USE BlockSizeIs
<1> DEFINE e == Process(from, to)
           r == DspTablePlay(s, e, io)
           table == io.tables[s.table]
           n == to - from
           remaining == s.end - s.current
<1>1. ~IsNew(e) /\ ~HearsFloat(e, 1) /\ ~Hears(e, 1) /\ ~SetsTable(e, 1) /\ ~Comes(e)
      /\ Processes(e) /\ e.from = from /\ e.to = to
  BY DEF IsNew, HearsFloat, Hears, SetsTable, Comes, Processes, Process
<1> HIDE DEF e
<1>2. s.table \in STRING /\ s.current \in Nat /\ s.end \in Nat /\ s.outgoing \in Seq(Nat) /\ s.end = end
  BY DEF Players, Playing
<1>3. Len(table) \in Nat /\ DOMAIN table = 1..Len(table)
  OBVIOUS
<1>4. r = PlayPiece(s, io, from, to)
  <2>1. Clipped(s, io) = s
    BY <1>2, <1>3 DEF Clipped
  <2> QED  BY <1>1, <2>1 DEF DspTablePlay
<1> HIDE DEF r
<1>5. \A i \in Nat : start + i < end => start + i + 1 \in DOMAIN table
  BY <1>3
<1> HIDE DEF table
<1>6. n \in Nat /\ j + n \in Nat
  OBVIOUS
<1>7. \A k \in Block : k \in Int /\ (k \in from..to - 1 => k - from \in Nat /\ k - from < n)
  BY DEF Block
<1> HIDE DEF n
<1>8. CASE remaining <= 0
  <2>1. r = Fills(s, io, 0, BlockSize, Zero)
    BY <1>4, <1>8 DEF PlayPiece
  <2>2. r.state = s /\ r.out[1] = Written(io.out[1], 0, BlockSize, Zero)
    BY <2>1 DEF Fills, Idle
  <2>3. s.current >= end /\ start + j >= end
    BY <1>2, <1>8 DEF Playing
  <2>4. ASSUME NEW i \in Nat
        PROVE  ~(start + (j + i) < end)
    BY <2>3
  <2>5. Playing(s, start, end, j + n)
    BY <1>2, <1>6, <2>3, <2>4 DEF Playing
  <2>6. ASSUME NEW k \in Block
        PROVE  /\ r.out[1][k] = 0
               /\ k \in from..to - 1 => PlayedAt(table, start, end, j + (k - from)) = 0
    <3>1. k \in 0..BlockSize - 1
      BY DEF Block
    <3>2. r.out[1][k] = 0
      BY <2>2, <3>1 DEF Written, Zero
    <3>3. k \in from..to - 1 => PlayedAt(table, start, end, j + (k - from)) = 0
      BY <1>7, <2>4 DEF PlayedAt
    <3> QED  BY <3>2, <3>3
  <2> QED  BY <1>5, <2>2, <2>3, <2>5, <2>6 DEF r, e, n, table
<1>9. CASE ~(remaining <= 0)
  <2> DEFINE after == [s EXCEPT !.current = @ + (to - from)]
             samples == [k \in Block |-> IF k - from < remaining THEN table[s.current + k - from + 1] ELSE 0]
  <2>1. r = Fills(after, io, from, to, samples)
    BY <1>4, <1>9 DEF PlayPiece, table
  <2>2. s.current = start + j /\ start + j < end
    BY <1>2, <1>9 DEF Playing
  <2>3. after \in Players /\ after.table = s.table /\ Playing(after, start, end, j + n)
    <3>1. after.table = s.table /\ after.end = s.end /\ after.current = s.current + n
      BY DEF Players, n
    <3>2. after \in Players
      <4>1. s.current + (to - from) \in Nat
        BY <1>2
      <4> QED  BY <1>2, <4>1 DEF Players
    <3> HIDE DEF after
    <3>3. IF start + (j + n) < end THEN after.current = start + (j + n) ELSE after.current >= end
      BY <1>6, <2>2, <3>1
    <3> QED  BY <1>2, <3>1, <3>2, <3>3 DEF Playing
  <2>4. ASSUME NEW k \in Block, k \in from..to - 1
        PROVE  samples[k] = PlayedAt(table, start, end, j + (k - from))
    <3>1. /\ k - from < remaining <=> start + (j + (k - from)) < end
          /\ s.current + k - from + 1 = start + (j + (k - from)) + 1
      <4>1. k \in Int /\ s.current \in Nat /\ s.end = end
        BY <1>2, <1>7
      <4>2. from \in Nat /\ start \in Nat /\ j \in Nat /\ end \in Nat
        OBVIOUS
      <4> QED  BY ONLY <2>2, <4>1, <4>2, SMTT(30)
    <3> QED  BY <3>1 DEF PlayedAt
  <2> HIDE DEF after, samples
  <2>5. r.state = after /\ r.out[1] = Written(io.out[1], from, to, samples)
    BY <2>1 DEF Fills, Idle
  <2>6. ASSUME NEW k \in Block
        PROVE  /\ k \in from..to - 1 => r.out[1][k] = PlayedAt(table, start, end, j + (k - from))
               /\ k \notin from..to - 1 => r.out[1][k] = io.out[1][k]
    BY <2>4, <2>5 DEF Written
  <2> QED  BY <1>5, <2>3, <2>5, <2>6 DEF r, e, n, table
<1> QED  BY <1>8, <1>9

(***************************************************************************)
(* Playing begins where it was asked to, and ends after the samples that   *)
(* were asked for (-1: all) but not behind the end of the table.           *)
(***************************************************************************)
LEMMA PlayBegins ==
  ASSUME NEW s \in Players, NEW start \in Nat, NEW duration \in Nat \cup {-1}, NEW at, NEW io,
         io.tables[s.table] \in Seq(Int), start < Len(io.tables[s.table])
  PROVE  LET length == Len(io.tables[s.table])
             end == IF duration = -1 \/ start + duration > length THEN length ELSE start + duration
         IN  end <= length /\ Playing(playTable(s, io, start, duration, at).state, start, end, 0)
<1> DEFINE length == Len(io.tables[s.table])
           end == IF duration = -1 \/ start + duration > length THEN length ELSE start + duration
           asked == IF duration = -1 THEN length ELSE start + duration
           r == playTable(s, io, start, duration, at)
<1>1. length \in Nat /\ start \in 0..length - 1 /\ duration >= -1
      /\ ~(start < 0) /\ ~(duration < -1)
  OBVIOUS
<1>2. end = (IF asked > length THEN length ELSE asked) /\ end \in Nat /\ start <= end /\ end <= length
  BY <1>1
<1>3. r.state.current = start /\ r.state.end = IF asked > length THEN length ELSE asked
  BY <1>1 DEF playTable, Idle, Players
<1> HIDE DEF r, end, asked
<1>4. Playing(r.state, start, end, 0)
  BY <1>1, <1>2, <1>3 DEF Playing
<1> QED  BY <1>2, <1>4 DEF r, end
=============================================================================
