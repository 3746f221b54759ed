----------------------- MODULE ArrayArithmetic_proof -----------------------
(***************************************************************************)
(* Proofs about ArrayArithmetic, for buffers of every size and for every   *)
(* range in them: which ranges the optimised builds get right, and which   *)
(* of their loads are aligned.                                             *)
(***************************************************************************)
EXTENDS ArrayArithmetic, TLAPS

\* the samples of the head, and those that are left behind it: of a range that ends
\* inside the head less than none
Lead == IF call.build = "SSE" THEN (-call.startIndex) % 4 ELSE 0
Left == (call.endIndex - call.startIndex) - Lead

\* the samples of the body, when it is not missed
BodyStart == call.startIndex + Lead
BodyStop == BodyStart + (IF call.build = "plain" THEN Left ELSE FourTimes(Left))

\* how far the input pointer stays behind
Lag == IF call.form = "constant" THEN Lead ELSE 0

\* what a sample of the range is written to
Value(j) ==
  IF call.form = "constant" /\ (IF j \in BodyStart..BodyStop - 1 THEN Lead # 0 ELSE ~call.inPlace)
    THEN "wrong" ELSE "right"

\* the samples that the output pointer has passed, or the whole range
Written ==
  samples = [j \in Indices |-> IF j \in call.startIndex..out - 1 THEN Value(j) ELSE "old"]
WrittenWhole ==
  samples = [j \in Indices |-> IF j \in call.startIndex..call.endIndex - 1 THEN Value(j) ELSE "old"]

(***************************************************************************)
(* The inductive invariant.  Of a range that contains its head, what is    *)
(* written and what is to come make up the range.  Of one that does not,   *)
(* the count of the body is below 0 and only goes down, so that the body   *)
(* ends nowhere but behind the buffer.                                     *)
(***************************************************************************)
InCall ==
  stage # "idle" => call \in Calls /\ call.startIndex <= call.endIndex

InHead ==
  stage = "head" =>
    /\ call.build = "SSE"
    /\ in = call.startIndex /\ out = call.startIndex
    /\ n = call.endIndex - call.startIndex
    /\ samples = Untouched

InBody ==
  stage = "body" =>
    /\ n = Left /\ out \in Nat /\ out >= BodyStart /\ in = out - Lag
    /\ n4 \in Int /\ (call.build # "plain" => n4 % 4 = 0)
    /\ call.build = "SSE" => Aligned(out)
    /\ IF Left >= 0 THEN n4 >= 0 /\ out = BodyStop - n4 /\ Written ELSE n4 < 0

InTail ==
  stage = "tail" =>
    /\ call.build # "plain" /\ Left >= 0
    /\ n = Left /\ out = BodyStop /\ in = out - Lag
    /\ Written

AtEnd ==
  /\ stage = "done" => Left >= 0 /\ WrittenWhole
  /\ stage = "overrun" => Left < 0

IInv ==
  /\ stage \in {"idle", "head", "body", "tail", "done", "overrun"}
  /\ InCall /\ InHead /\ InBody /\ InTail /\ AtEnd

-----------------------------------------------------------------------------
LEMMA CallFields ==
  ASSUME IInv, stage # "idle"
  PROVE  /\ call.build \in {"plain", "SSE", "NEON"} /\ call.form \in Forms
         /\ call.startIndex \in Nat /\ call.endIndex \in Nat /\ Size \in Nat
         /\ call.startIndex <= call.endIndex /\ call.endIndex <= Size
<1>1. call \in Calls /\ call.startIndex <= call.endIndex
  BY DEF IInv, InCall
<1>2. Size \in Nat /\ Builds \subseteq {"plain", "SSE", "NEON"}
  BY ArrayArithmeticAssumption
<1>3. /\ call.build \in Builds /\ call.form \in Forms
      /\ call.startIndex \in 0..Size /\ call.endIndex \in 0..Size
  BY <1>1 DEF Calls
<1>4. call.build \in {"plain", "SSE", "NEON"}
  BY <1>2, <1>3
<1>5. call.startIndex \in Nat /\ call.endIndex \in Nat /\ call.endIndex <= Size
  BY <1>2, <1>3
<1> QED  BY <1>1, <1>2, <1>3, <1>4, <1>5

LEMMA FourTimesIs ==
  ASSUME NEW m \in Int
  PROVE  /\ FourTimes(m) \in Int /\ FourTimes(m) % 4 = 0
         /\ FourTimes(m) + (m % 4) = m /\ m % 4 \in 0..3
         /\ m >= 0 => FourTimes(m) >= 0
         /\ m < 0 => FourTimes(m) < 0
BY DEF FourTimes

(* The parts of a range. *)
LEMMA Parts ==
  ASSUME IInv, stage # "idle"
  PROVE  /\ Lead \in 0..3 /\ Left \in Int /\ BodyStart \in Nat /\ BodyStop \in Int
         /\ Lag \in 0..3
         /\ BodyStart + Left = call.endIndex
         /\ call.build # "SSE" => Lead = 0
         /\ call.build = "SSE" => Aligned(BodyStart) /\ (Lead = 0 <=> Aligned(call.startIndex))
         /\ call.build = "plain" => BodyStop = call.endIndex
         /\ call.build # "plain" => BodyStop + (Left % 4) = call.endIndex /\ Left % 4 \in 0..3
         /\ Left >= 0 => BodyStart <= BodyStop /\ BodyStop <= call.endIndex
         /\ Left < 0 => call.build = "SSE" /\ Lead # 0
<1> DEFINE s == call.startIndex
           e == call.endIndex
<1>1. s \in Nat /\ e \in Nat /\ s <= e
  BY CallFields
<1> HIDE DEF s, e
<1>2. Lead = (IF call.build = "SSE" THEN (-s) % 4 ELSE 0) /\ Left = (e - s) - Lead
      /\ BodyStart = s + Lead
  BY DEF Lead, Left, BodyStart, s, e
<1>3. (-s) % 4 \in 0..3 /\ (s + ((-s) % 4)) % 4 = 0 /\ ((-s) % 4 = 0 <=> s % 4 = 0)
  BY <1>1
<1>4. Lead \in 0..3 /\ Left \in Int /\ BodyStart \in Nat /\ BodyStart + Left = e
  BY <1>1, <1>2, <1>3
<1>5. Lag \in 0..3
  BY <1>4 DEF Lag
<1>6. call.build = "SSE" => Aligned(BodyStart) /\ (Lead = 0 <=> Aligned(s))
  BY <1>2, <1>3 DEF Aligned
<1> DEFINE l == Left
           f == FourTimes(l)
<1>7. f \in Int /\ f + (l % 4) = l /\ l % 4 \in 0..3 /\ (l >= 0 => f >= 0)
  <2>1. l \in Int
    BY <1>4
  <2> HIDE DEF l
  <2> QED  BY <2>1 DEF FourTimes
<1> HIDE DEF f
<1>8. BodyStop = BodyStart + (IF call.build = "plain" THEN l ELSE f)
  BY DEF BodyStop, f
<1>9. BodyStop \in Int
  BY <1>4, <1>7, <1>8
<1>10. call.build = "plain" => BodyStop = e
  BY <1>4, <1>8
<1>11. call.build # "plain" => BodyStop + (l % 4) = e /\ l % 4 \in 0..3
  BY <1>4, <1>7, <1>8
<1>12. l >= 0 => BodyStart <= BodyStop /\ BodyStop <= e
  BY <1>4, <1>7, <1>8
<1>13. l < 0 => call.build = "SSE" /\ Lead # 0
  BY <1>1, <1>2
<1>14. call.build # "SSE" => Lead = 0
  BY <1>2
<1> QED  BY <1>4, <1>5, <1>6, <1>9, <1>10, <1>11, <1>12, <1>13, <1>14 DEF s, e

LEMMA SameCall ==
  ASSUME call' = call
  PROVE  /\ Lead' = Lead /\ Left' = Left /\ BodyStart' = BodyStart /\ BodyStop' = BodyStop
         /\ Lag' = Lag
BY DEF Lead, Left, BodyStart, BodyStop, Lag, FourTimes

(* Writing on from where it has got to. *)
LEMMA WriteOn ==
  ASSUME call' = call, call.startIndex \in Nat, out \in Nat, call.startIndex <= out, Written,
         NEW k \in Nat, out' = out + k,
         samples' = [j \in Indices |-> IF j \in out..out + k - 1 THEN Value(j) ELSE samples[j]]
  PROVE  Written' /\ (out' = call.endIndex => WrittenWhole')
<1> DEFINE v(j) == Value(j)
           s == call.startIndex
           a == out
           b == out + k
<1>1. samples = [j \in Indices |-> IF j \in s..a - 1 THEN v(j) ELSE "old"]
  BY DEF Written
<1>2. samples' = [j \in Indices |-> IF j \in a..b - 1 THEN v(j) ELSE samples[j]]
  OBVIOUS
<1>3. s \in Nat /\ s <= a /\ a \in Nat /\ b \in Nat /\ a <= b
  OBVIOUS
<1> HIDE DEF v, s, a, b
<1>4. \A j \in Indices : samples'[j] = IF j \in s..b - 1 THEN v(j) ELSE "old"
  <2> TAKE j \in Indices
  <2>1. j \in Int
    BY ArrayArithmeticAssumption DEF Indices
  <2> QED  BY <1>1, <1>2, <1>3, <2>1
<1>5. samples' = [j \in Indices |-> IF j \in s..b - 1 THEN v(j) ELSE "old"]
  BY <1>2, <1>4
<1>6. b = out'
  BY DEF b
<1> QED
  BY <1>5, <1>6 DEF Written, WrittenWhole, v, s, Value, BodyStart, BodyStop, Lead, Left, FourTimes

LEMMA WrittenStays ==
  ASSUME call' = call, samples' = samples, out' = out, Written
  PROVE  Written' /\ (out = call.endIndex => WrittenWhole')
BY DEF Written, WrittenWhole, Value, BodyStart, BodyStop, Lead, Left, FourTimes

(* What a sample that still is what it was is written to. *)
LEMMA FirstWrite ==
  ASSUME Written, call.startIndex \in Nat, out \in Nat, in = out - Lag,
         Lead \in Nat, NEW j \in Indices, j >= out
  PROVE  /\ FromInput(j) = IF call.form = "constant" /\ Lead # 0
                             THEN "wrong" ELSE "right"
         /\ FromOutput(j) = IF call.inPlace THEN "right" ELSE "wrong"
<1>1. j \in Int /\ j \notin call.startIndex..out - 1
  BY ArrayArithmeticAssumption DEF Indices
<1>2. samples[j] = "old"
  BY <1>1 DEF Written
<1>3. in = out <=> Lag = 0
  BY DEF Lag
<1> QED  BY <1>2, <1>3 DEF FromInput, FromOutput, Lag

-----------------------------------------------------------------------------
LEMMA BeginKeeps ==
  ASSUME Begin
  PROVE  IInv'
<1> DEFINE s == call'.startIndex
           e == call'.endIndex
<1>1. /\ call' \in Calls /\ s <= e /\ in' = s /\ out' = s /\ n' = e - s
      /\ samples' = Untouched
  BY DEF Begin
<1>2. s \in Nat /\ e \in Nat
  <2>1. Size \in Nat /\ s \in 0..Size /\ e \in 0..Size
    BY <1>1, ArrayArithmeticAssumption DEF Calls
  <2> QED  BY <2>1
<1>3. call'.build \in {"plain", "SSE", "NEON"}
  <2>1. call'.build \in Builds
    BY <1>1 DEF Calls
  <2> QED  BY <2>1, ArrayArithmeticAssumption
<1>4. CASE call'.build = "SSE"
  <2>1. stage' = "head"
    BY <1>4 DEF Begin
  <2> QED  BY <1>1, <1>4, <2>1 DEF IInv, InCall, InHead, InBody, InTail, AtEnd, Untouched
<1>5. CASE call'.build # "SSE"
  <2>1. stage' = "body" /\ n4' = IF call'.build = "NEON" THEN FourTimes(n') ELSE n'
    BY <1>5 DEF Begin
  <2>2. Lead' = 0 /\ Left' = n' /\ BodyStart' = s /\ Lag' = 0 /\ n' \in Nat
    BY <1>1, <1>2, <1>5 DEF Lead, Left, BodyStart, Lag
  <2>3. n4' \in Int /\ n4' >= 0 /\ (call'.build # "plain" => n4' % 4 = 0)
    <3>1. CASE call'.build = "NEON"
      <4>1. PICK m \in Nat : m = n'
        BY <2>2
      <4>2. n4' = FourTimes(m)
        BY <2>1, <3>1, <4>1
      <4> QED  BY <4>2, FourTimesIs
    <3>2. CASE call'.build = "plain"
      BY <2>1, <2>2, <3>2
    <3> QED  BY <1>3, <1>5, <3>1, <3>2
  <2>4. BodyStop' = s + n4'
    BY <1>3, <1>5, <2>1, <2>2 DEF BodyStop, FourTimes
  <2>5. Written'
    <3>1. \A j \in Indices : j \notin s..s - 1
      BY <1>2
    <3> QED  BY <1>1, <3>1 DEF Written, Untouched
  <2>6. InBody'
    <3>1. out' >= BodyStart' /\ in' = out' - Lag' /\ out' = BodyStop' - n4'
      BY <1>1, <1>2, <2>2, <2>3, <2>4
    <3>2. Left' >= 0 /\ n' = Left' /\ out' \in Nat
      BY <1>1, <1>2, <2>2
    <3> QED  BY <1>5, <2>3, <2>5, <3>1, <3>2 DEF InBody
  <2> QED  BY <1>1, <2>1, <2>6 DEF IInv, InCall, InHead, InTail, AtEnd
<1> QED  BY <1>4, <1>5

(* The steps of a call, as far as they have to do with the range. *)
LEMMA HeadKeeps ==
  ASSUME IInv, Head
  PROVE  IInv'
<1> DEFINE s == call.startIndex
           e == call.endIndex
           k == (-s) % 4
<1>1. /\ stage = "head" /\ call' = call /\ n' = n - k /\ n4' = FourTimes(n - k)
      /\ Scalar(k, "body")
  BY DEF Head
<1>2. call.build = "SSE" /\ in = s /\ out = s /\ n = e - s /\ samples = Untouched
  BY <1>1 DEF IInv, InHead
<1>3. /\ s \in Nat /\ e \in Nat /\ Size \in Nat /\ s <= e /\ e <= Size
      /\ call \in Calls
  BY <1>1, CallFields DEF IInv, InCall
<1>4. k = Lead /\ Left = (e - s) - Lead /\ BodyStart = s + Lead
  BY <1>2 DEF Lead, Left, BodyStart
<1>5. /\ Lead \in 0..3 /\ Left \in Int /\ Aligned(BodyStart) /\ BodyStart + Left = e
      /\ Lag \in 0..3
  BY <1>1, <1>2, Parts
<1>6. /\ Lead' = Lead /\ Left' = Left /\ BodyStart' = BodyStart /\ BodyStop' = BodyStop
      /\ Lag' = Lag
  BY <1>1, SameCall
<1> HIDE DEF s, e, k
<1>7. CASE s + Lead > Size
  <2>1. stage' = "overrun"
    BY <1>1, <1>2, <1>4, <1>7 DEF Scalar, Write
  <2>2. Left < 0
    BY <1>3, <1>4, <1>5, <1>7
  <2> QED  BY <1>1, <1>3, <1>6, <2>1, <2>2 DEF IInv, InCall, InHead, InBody, InTail, AtEnd, s, e
<1>8. CASE ~(s + Lead > Size)
  <2>1. /\ stage' = "body" /\ out' = s + Lead
        /\ in' = IF call.form = "constant" THEN s + 0 ELSE s + Lead
        /\ samples' = [j \in Indices |->
                         IF j \in s..s + Lead - 1
                           THEN IF call.form = "constant" THEN FromOutput(j) ELSE FromInput(j)
                           ELSE samples[j]]
    BY <1>1, <1>2, <1>4, <1>8 DEF Scalar, Write
  <2>2. out' = BodyStart /\ out' \in Nat /\ in' = out' - Lag
    BY <1>3, <1>4, <1>5, <2>1 DEF Lag
  <2>3. n' = Left /\ n4' = FourTimes(Left)
    BY <1>1, <1>2, <1>4
  <2>4. n4' \in Int /\ n4' % 4 = 0 /\ (Left >= 0 => n4' >= 0) /\ (Left < 0 => n4' < 0)
    BY <1>5, <2>3 DEF FourTimes
  <2>5. BodyStop = BodyStart + n4'
    BY <1>2, <2>3 DEF BodyStop
  <2>6. Written
    <3>1. \A j \in Indices : j \notin s..s - 1
      BY <1>3
    <3> QED  BY <1>2, <3>1 DEF Written, Untouched, s
  <2>7. ASSUME Left >= 0 PROVE Written'
    <3>1. ASSUME NEW j \in Indices, j \in s..s + Lead - 1
          PROVE  (IF call.form = "constant" THEN FromOutput(j) ELSE FromInput(j)) = Value(j)
      <4>1. j >= s /\ j \notin BodyStart..BodyStop - 1
        BY <1>3, <1>4, <1>5, <3>1
      <4>2. in = out - Lag \/ call.form = "constant"
        BY <1>2, <1>3 DEF Lag
      <4>3. samples[j] = "old"
        BY <1>2 DEF Untouched
      <4> QED  BY <1>2, <4>1, <4>3 DEF Value, FromOutput, FromInput
    <3>2. samples' = [j \in Indices |-> IF j \in s..s + Lead - 1 THEN Value(j) ELSE samples[j]]
      BY <2>1, <3>1
    <3>3. out \in Nat /\ out = call.startIndex /\ call.startIndex <= out /\ Lead \in Nat
      BY <1>2, <1>3, <1>5 DEF s
    <3> QED  BY <1>1, <1>2, <2>1, <2>6, <3>2, <3>3, WriteOn DEF s
  <2>8. InBody'
    BY <1>1, <1>2, <1>5, <1>6, <2>2, <2>3, <2>4, <2>5, <2>7 DEF InBody
  <2> QED  BY <1>1, <1>3, <2>1, <2>8 DEF IInv, InCall, InHead, InTail, AtEnd, s, e
<1> QED  BY <1>7, <1>8

LEMMA BodyKeeps ==
  ASSUME IInv, Body
  PROVE  IInv'
<1> DEFINE w == Width
<1>1. /\ stage = "body" /\ n4 # 0 /\ call' = call /\ n' = n
      /\ Write(w, FromInput, w, "body")
      /\ n4' = IF out + w <= Size THEN n4 - w ELSE n4
  BY DEF Body
<1>2. /\ n = Left /\ out \in Nat /\ out >= BodyStart /\ in = out - Lag
      /\ n4 \in Int /\ (call.build # "plain" => n4 % 4 = 0)
      /\ call.build = "SSE" => Aligned(out)
      /\ Left >= 0 => n4 >= 0 /\ out = BodyStop - n4 /\ Written
      /\ ~(Left >= 0) => n4 < 0
  BY <1>1 DEF IInv, InBody
<1>3. /\ call.startIndex \in Nat /\ call.endIndex \in Nat /\ Size \in Nat
      /\ call.endIndex <= Size /\ call \in Calls /\ call.startIndex <= call.endIndex
      /\ call.form \in Forms
  BY <1>1, CallFields DEF IInv, InCall
<1>4. /\ Lead \in 0..3 /\ Left \in Int /\ BodyStart \in Nat /\ BodyStop \in Int /\ Lag \in 0..3
      /\ Left >= 0 => BodyStart <= BodyStop /\ BodyStop <= call.endIndex
      /\ Left < 0 => call.build = "SSE"
      /\ BodyStart = call.startIndex + Lead
  BY <1>1, Parts DEF BodyStart
<1>5. /\ Lead' = Lead /\ Left' = Left /\ BodyStart' = BodyStart /\ BodyStop' = BodyStop
      /\ Lag' = Lag
  BY <1>1, SameCall
<1>6. w \in {1, 4} /\ (call.build # "plain" => w = 4)
  BY DEF Width
<1> HIDE DEF w
<1>7. CASE out + w > Size
  <2>1. stage' = "overrun"
    BY <1>1, <1>7 DEF Write
  <2>2. ~(Left >= 0)
    <3> SUFFICES ASSUME Left >= 0 PROVE FALSE
      OBVIOUS
    <3>1. n4 >= w
      <4>1. n4 > 0
        BY <1>1, <1>2
      <4>2. CASE call.build = "plain"
        <5>1. w = 1
          BY <4>2 DEF w, Width
        <5> QED  BY <1>2, <4>1, <5>1
      <4>3. CASE call.build # "plain"
        BY <1>2, <1>6, <4>1, <4>3
      <4> QED  BY <4>2, <4>3
    <3> QED  BY <1>2, <1>3, <1>4, <1>6, <1>7, <3>1
  <2> QED
    BY <1>1, <1>3, <1>4, <1>5, <2>1, <2>2 DEF IInv, InCall, InHead, InBody, InTail, AtEnd
<1>8. CASE ~(out + w > Size)
  <2>1. /\ stage' = "body" /\ out' = out + w /\ in' = in + w
        /\ samples' = [j \in Indices |-> IF j \in out..out + w - 1 THEN FromInput(j) ELSE samples[j]]
    BY <1>1, <1>8 DEF Write
  <2>2. n4' = n4 - w /\ n4' \in Int
    BY <1>1, <1>2, <1>3, <1>6, <1>8
  <2>3. out' \in Nat /\ out' >= BodyStart /\ in' = out' - Lag
    BY <1>2, <1>4, <1>6, <2>1
  <2>4. call.build # "plain" => n4' % 4 = 0
    BY <1>2, <1>6, <2>2
  <2>5. call.build = "SSE" => Aligned(out)'
    BY <1>2, <1>6, <2>1 DEF Aligned
  <2>6. ASSUME Left >= 0 PROVE n4' >= 0 /\ out' = BodyStop - n4' /\ Written'
    <3>1. n4 >= w
      <4>1. n4 > 0
        BY <1>1, <1>2, <2>6
      <4>2. CASE call.build = "plain"
        <5>1. w = 1
          BY <4>2 DEF w, Width
        <5> QED  BY <1>2, <4>1, <5>1
      <4>3. CASE call.build # "plain"
        BY <1>2, <1>6, <4>1, <4>3
      <4> QED  BY <4>2, <4>3
    <3>2. n4' >= 0 /\ out' = BodyStop - n4' /\ out + w <= BodyStop
      BY <1>2, <1>4, <1>6, <2>1, <2>2, <2>6, <3>1
    <3>3. ASSUME NEW j \in Indices, j \in out..out + w - 1
          PROVE  FromInput(j) = Value(j)
      <4>1. j >= out /\ j \in BodyStart..BodyStop - 1
        BY <1>2, <1>4, <1>6, <3>2, <3>3
      <4>2. FromInput(j) = IF call.form = "constant" /\ Lead # 0 THEN "wrong" ELSE "right"
        BY <1>2, <1>3, <1>4, <2>6, <4>1, FirstWrite
      <4> QED  BY <4>1, <4>2 DEF Value
    <3>4. samples' = [j \in Indices |-> IF j \in out..out + w - 1 THEN Value(j) ELSE samples[j]]
      BY <2>1, <3>3
    <3>5. call.startIndex <= out /\ w \in Nat
      BY <1>2, <1>3, <1>4, <1>6
    <3>6. Written'
      BY <1>1, <1>2, <1>3, <2>1, <2>6, <3>4, <3>5, WriteOn
    <3> QED  BY <3>2, <3>6
  <2>7. ~(Left >= 0) => n4' < 0
    BY <1>2, <1>6, <2>2
  <2>8. InBody'
    BY <1>1, <1>2, <1>5, <2>2, <2>3, <2>4, <2>5, <2>6, <2>7 DEF InBody
  <2> QED  BY <1>1, <1>3, <2>1, <2>8 DEF IInv, InCall, InHead, InTail, AtEnd
<1> QED  BY <1>7, <1>8

LEMMA BodyEndKeeps ==
  ASSUME IInv, BodyEnd
  PROVE  IInv'
<1>1. /\ stage = "body" /\ n4 = 0 /\ UNCHANGED <<call, in, out, n, n4, samples>>
      /\ stage' = IF call.build = "plain" THEN "done" ELSE "tail"
  BY DEF BodyEnd
<1>2. /\ call \in Calls /\ call.startIndex <= call.endIndex
      /\ call.build = "plain" => BodyStop = call.endIndex
      /\ BodyStop \in Int /\ Left \in Int
  BY <1>1, Parts DEF IInv, InCall
<1>3. Left >= 0 /\ out = BodyStop /\ Written /\ n = Left /\ in = out - Lag
  BY <1>1, <1>2 DEF IInv, InBody
<1>4. /\ Lead' = Lead /\ Left' = Left /\ BodyStart' = BodyStart /\ BodyStop' = BodyStop
      /\ Lag' = Lag
  BY <1>1, SameCall
<1>5. Written' /\ (out = call.endIndex => WrittenWhole')
  BY <1>1, <1>3, WrittenStays
<1> QED
  BY <1>1, <1>2, <1>3, <1>4, <1>5 DEF IInv, InCall, InHead, InBody, InTail, AtEnd

LEMMA TailKeeps ==
  ASSUME IInv, Tail
  PROVE  IInv'
<1> DEFINE k == n % 4
<1>1. stage = "tail" /\ call' = call /\ Scalar(k, "done")
  BY DEF Tail
<1>2. /\ call.build # "plain" /\ Left >= 0 /\ n = Left /\ out = BodyStop /\ in = out - Lag
      /\ Written
  BY <1>1 DEF IInv, InTail
<1>3. /\ call.startIndex \in Nat /\ call.endIndex \in Nat /\ Size \in Nat
      /\ call.endIndex <= Size /\ call \in Calls /\ call.startIndex <= call.endIndex
  BY <1>1, CallFields DEF IInv, InCall
<1>4. /\ Lead \in Nat /\ Left \in Int /\ BodyStart \in Nat /\ BodyStop \in Int
      /\ BodyStart <= BodyStop /\ BodyStop + k = call.endIndex /\ k \in 0..3
      /\ call.startIndex <= BodyStart
  <2>1. BodyStart = call.startIndex + Lead
    BY DEF BodyStart
  <2> QED  BY <1>1, <1>2, <1>3, <2>1, Parts
<1> HIDE DEF k
<1>5. out \in Nat /\ call.startIndex <= out /\ out + k = call.endIndex /\ ~(out + k > Size)
  BY <1>2, <1>3, <1>4
<1>6. /\ stage' = "done" /\ out' = out + k
      /\ samples' = [j \in Indices |->
                       IF j \in out..out + k - 1
                         THEN IF call.form = "constant" THEN FromOutput(j) ELSE FromInput(j)
                         ELSE samples[j]]
  BY <1>1, <1>5 DEF Scalar, Write
<1>7. ASSUME NEW j \in Indices, j \in out..out + k - 1
      PROVE  (IF call.form = "constant" THEN FromOutput(j) ELSE FromInput(j)) = Value(j)
  <2>1. j >= out /\ j \notin BodyStart..BodyStop - 1
    BY <1>2, <1>4, <1>5, <1>7
  <2>2. /\ FromInput(j) = IF call.form = "constant" /\ Lead # 0 THEN "wrong" ELSE "right"
        /\ FromOutput(j) = IF call.inPlace THEN "right" ELSE "wrong"
    BY <1>2, <1>3, <1>4, <1>5, <2>1, FirstWrite
  <2> QED  BY <2>1, <2>2 DEF Value
<1>8. samples' = [j \in Indices |-> IF j \in out..out + k - 1 THEN Value(j) ELSE samples[j]]
  BY <1>6, <1>7
<1>9. k \in Nat /\ out' = call.endIndex
  BY <1>4, <1>5, <1>6
<1>10. WrittenWhole'
  BY <1>1, <1>2, <1>3, <1>5, <1>6, <1>8, <1>9, WriteOn
<1>11. Left' = Left
  BY <1>1, SameCall
<1> QED
  BY <1>1, <1>2, <1>3, <1>6, <1>10, <1>11 DEF IInv, InCall, InHead, InBody, InTail, AtEnd

LEMMA InitInvariant == Init => IInv
BY DEF Init, IInv, InCall, InHead, InBody, InTail, AtEnd

LEMMA NextInvariant == IInv /\ [Next]_vars => IInv'
<1> SUFFICES ASSUME IInv, [Next]_vars PROVE IInv'
  OBVIOUS
<1>1. CASE Return
  BY <1>1 DEF Return, IInv, InCall, InHead, InBody, InTail, AtEnd
<1>2. CASE UNCHANGED vars
  BY <1>2 DEF vars, IInv, InCall, InHead, InBody, InTail, AtEnd, Written, WrittenWhole, Untouched,
              Value, BodyStart, BodyStop, Lead, Left, Lag, FourTimes, Aligned
<1> QED
  BY <1>1, <1>2, BeginKeeps, HeadKeeps, BodyKeeps, BodyEndKeeps, TailKeeps DEF Next

LEMMA Invariance == Spec => []IInv
BY InitInvariant, NextInvariant, PTL DEF Spec

-----------------------------------------------------------------------------
(* Which of the calls that come to their end have written the right values. *)

LEMMA WholeIsRight ==
  ASSUME IInv, stage = "done"
  PROVE  Right <=> \A j \in call.startIndex..call.endIndex - 1 : Value(j) = "right"
<1> DEFINE R == call.startIndex..call.endIndex - 1
<1>1. samples = [j \in Indices |-> IF j \in R THEN Value(j) ELSE "old"]
  BY DEF IInv, AtEnd, WrittenWhole
<1>2. R \subseteq Indices
  BY CallFields DEF Indices
<1>3. Right <=> \A j \in Indices : samples[j] = IF j \in R THEN "right" ELSE "old"
  BY DEF Right
<1> HIDE DEF R
<1>4. Right <=> \A j \in R : Value(j) = "right"
  BY <1>1, <1>2, <1>3
<1> QED  BY <1>4 DEF R

LEMMA DoneIsSupported ==
  ASSUME IInv, stage = "done"
  PROVE  Right <=> RangeIsSupported
<1> DEFINE s == call.startIndex
           e == call.endIndex
           R == s..e - 1
           head == call.build = "SSE" /\ ~Aligned(s)
<1>1. /\ s \in Nat /\ e \in Nat /\ s <= e
  BY CallFields
<1>2. /\ Lead \in 0..3 /\ Left \in Int /\ BodyStart \in Nat /\ BodyStop \in Int
      /\ BodyStart + Left = e /\ BodyStart = s + Lead
      /\ call.build # "SSE" => Lead = 0
      /\ call.build = "SSE" => (Lead = 0 <=> Aligned(s))
      /\ call.build = "plain" => BodyStop = e
      /\ call.build # "plain" => BodyStop + (Left % 4) = e /\ Left % 4 \in 0..3
      /\ BodyStart <= BodyStop /\ BodyStop <= e
      /\ Left >= 0
  BY Parts DEF IInv, AtEnd, BodyStart
<1>3. Right <=> \A j \in R : Value(j) = "right"
  BY WholeIsRight
<1>4. head <=> Lead # 0
  BY <1>2
<1>5. call.build = "SSE" => HeadEnd = BodyStart
  BY DEF HeadEnd, BodyStart, Lead
<1>6. (e - s) % 4 = 0 <=> (Lead + Left) % 4 = 0
  BY <1>1, <1>2
<1>7. RangeIsSupported <=>
        (call.form = "constant" /\ ScalarSteps => call.inPlace /\ (head => e < BodyStart + 4))
  BY <1>1, <1>2, <1>5 DEF RangeIsSupported
<1>8. ScalarSteps <=> head \/ (call.build # "plain" /\ Left % 4 # 0)
  <2>1. CASE Lead = 0
    BY <1>2, <1>4, <1>6, <2>1 DEF ScalarSteps, Aligned
  <2>2. CASE Lead # 0
    BY <1>4, <2>2 DEF ScalarSteps
  <2> QED  BY <2>1, <2>2
<1> HIDE DEF s, e, head
<1>9. \A j : Value(j) = "right" <=>
        ~(call.form = "constant" /\ (IF j \in BodyStart..BodyStop - 1 THEN Lead # 0 ELSE ~call.inPlace))
  BY DEF Value
<1>10. ASSUME RangeIsSupported PROVE Right
  <2> SUFFICES ASSUME NEW j \in R, call.form = "constant"
               PROVE  IF j \in BodyStart..BodyStop - 1 THEN Lead = 0 ELSE call.inPlace
    BY <1>3, <1>9
  <2>1. CASE ~ScalarSteps
    <3>1. Lead = 0 /\ BodyStop = e /\ BodyStart = s
      BY <1>1, <1>2, <1>4, <1>8, <2>1
    <3> QED  BY <3>1
  <2>2. CASE ScalarSteps
    <3>1. call.inPlace /\ (head => e < BodyStart + 4)
      BY <1>7, <1>10, <2>2
    <3>2. ASSUME Lead # 0 PROVE j \notin BodyStart..BodyStop - 1
      <4>1. Left < 4 /\ call.build # "plain"
        BY <1>1, <1>2, <1>4, <3>1, <3>2
      <4>2. Left % 4 = Left
        BY <1>2, <4>1
      <4>3. BodyStop = BodyStart
        BY <1>1, <1>2, <4>1, <4>2
      <4> QED  BY <1>2, <4>3
    <3> QED  BY <3>1, <3>2
  <2> QED  BY <2>1, <2>2
<1>11. ASSUME ~RangeIsSupported PROVE ~Right
  <2>1. call.form = "constant" /\ ScalarSteps /\ ~(call.inPlace /\ (head => e < BodyStart + 4))
    BY <1>7, <1>11
  <2>2. CASE call.inPlace
    <3>1. Lead # 0 /\ e >= BodyStart + 4 /\ call.build # "plain"
      BY <1>1, <1>2, <1>4, <2>1, <2>2
    <3>2. BodyStart \in R /\ BodyStart \in BodyStart..BodyStop - 1
      BY <1>1, <1>2, <3>1
    <3>3. Value(BodyStart) # "right"
      BY <1>9, <2>1, <3>1, <3>2
    <3> QED  BY <1>3, <3>2, <3>3
  <2>3. CASE ~call.inPlace
    <3>1. CASE Lead # 0
      <4>1. s \in R /\ s \notin BodyStart..BodyStop - 1
        BY <1>1, <1>2, <3>1
      <4>2. Value(s) # "right"
        BY <1>9, <2>1, <2>3, <4>1
      <4> QED  BY <1>3, <4>1, <4>2
    <3>2. CASE Lead = 0
      <4>1. call.build # "plain" /\ Left % 4 # 0
        BY <1>4, <1>8, <2>1, <3>2
      <4>2. e - 1 \in R /\ e - 1 \notin BodyStart..BodyStop - 1
        BY <1>1, <1>2, <3>2, <4>1
      <4>3. Value(e - 1) # "right"
        BY <1>9, <2>1, <2>3, <4>2
      <4> QED  BY <1>3, <4>2, <4>3
    <3> QED  BY <3>1, <3>2
  <2> QED  BY <2>2, <2>3
<1> QED  BY <1>10, <1>11

(***************************************************************************)
(* The ranges of RangeIsSupported, and no others, are computed rightly, in *)
(* each build and in a buffer of any size (ArrayArithmetic.h:46-508).      *)
(***************************************************************************)
THEOREM SupportedExactly == Spec => []RightWhereSupported
<1>1. ASSUME IInv PROVE RightWhereSupported
  <2>1. CASE stage = "done"
    BY <1>1, <2>1, DoneIsSupported DEF RightWhereSupported
  <2>2. CASE stage = "overrun"
    <3>1. ~Right
      BY <2>2 DEF Right
    <3>2. Left < 0 /\ call.build = "SSE" /\ Lead # 0 /\ ~Aligned(call.startIndex)
      BY <1>1, <2>2, Parts DEF IInv, AtEnd
    <3>3. HeadEnd = BodyStart /\ BodyStart + Left = call.endIndex
          /\ BodyStart \in Nat /\ Left \in Int
      BY <1>1, <2>2, <3>2, Parts DEF HeadEnd, BodyStart, Lead
    <3>4. ~(call.endIndex >= HeadEnd)
      BY <3>2, <3>3
    <3> QED  BY <3>1, <3>2, <3>4 DEF RightWhereSupported, RangeIsSupported
  <2>3. CASE stage \notin {"done", "overrun"}
    BY <2>3 DEF RightWhereSupported
  <2> QED  BY <2>1, <2>2, <2>3
<1> QED  BY <1>1, Invariance, PTL

(***************************************************************************)
(* The address of an aligned load is aligned, but for the constant form    *)
(* behind a head, and there it never is.                                   *)
(***************************************************************************)
THEOREM LoadsAlignedExactly == Spec => []LoadsAreAligned
<1>1. ASSUME IInv PROVE LoadsAreAligned
  <2> SUFFICES ASSUME stage = "body", call.build = "SSE", call.form # "fill"
               PROVE  Aligned(in) <=> call.form = "vector" \/ Aligned(call.startIndex)
    BY DEF LoadsAreAligned
  <2>1. in = out - Lag /\ out \in Nat /\ Aligned(out)
    BY <1>1 DEF IInv, InBody
  <2>2. Lead \in 0..3 /\ (Lead = 0 <=> Aligned(call.startIndex)) /\ call.form \in Forms
    BY <1>1, Parts, CallFields
  <2>3. CASE call.form = "vector"
    <3>1. Lag = 0
      BY <2>3 DEF Lag
    <3> QED  BY <2>1, <2>3, <3>1
  <2>4. CASE call.form = "constant"
    <3>1. Lag = Lead
      BY <2>4 DEF Lag
    <3>2. (out - Lead) % 4 = 0 <=> Lead = 0
      BY <2>1, <2>2 DEF Aligned
    <3> QED  BY <2>1, <2>2, <2>4, <3>1, <3>2 DEF Aligned
  <2> QED  BY <2>2, <2>3, <2>4 DEF Forms
<1> QED  BY <1>1, Invariance, PTL
=============================================================================
