-------------------------- MODULE ArrayArithmetic --------------------------
(***************************************************************************)
(* ArrayArithmetic (src/ArrayArithmetic.h): output[j] = f(input[j]) for    *)
(* the samples j of a range, as the builds do it: one by one, or four at a *)
(* time between a scalar head (SSE only) and a scalar tail.                *)
(*                                                                         *)
(* add, subtract, multiply and divide differ in f alone.  They have a form *)
(* for two inputs, "vector", and one for an input and a "constant"; "fill" *)
(* has no input.  What matters of a sample of the output is whether it     *)
(* still is what it was, or has the right value, or a wrong one.           *)
(***************************************************************************)
EXTENDS Integers

CONSTANTS Size,    \* samples in a buffer
          Builds   \* of "plain", "SSE", "NEON"

ASSUME ArrayArithmeticAssumption ==
  Size \in Nat /\ Builds \subseteq {"plain", "SSE", "NEON"}

Forms == {"vector", "constant", "fill"}
Indices == 0..Size - 1

VARIABLES call,      \* [build, form, inPlace, startIndex, endIndex]
          stage,     \* "idle", "head", "body", "tail", "done", or "overrun": written
                     \* outside of the buffer
          in, out,   \* the pointers, as indices
          n, n4,     \* the local variables
          samples    \* of the output

vars == <<call, stage, in, out, n, n4, samples>>

Calls == [build : Builds, form : Forms, inPlace : BOOLEAN,
          startIndex : 0..Size, endIndex : 0..Size]

Untouched == [j \in Indices |-> "old"]
NoCall == [build |-> "plain", form |-> "fill", inPlace |-> FALSE,
           startIndex |-> 0, endIndex |-> 0]

Init ==
  /\ call = NoCall
  /\ stage = "idle"
  /\ in = 0 /\ out = 0
  /\ n = 0 /\ n4 = 0
  /\ samples = Untouched

-----------------------------------------------------------------------------
(* Writing k samples from out on, and advancing the pointers *)

Write(k, value(_), kIn, next) ==
  IF out + k > Size
    THEN stage' = "overrun" /\ UNCHANGED <<in, out, samples>>
    ELSE /\ samples' = [j \in Indices |->
                          IF j \in out..out + k - 1 THEN value(j) ELSE samples[j]]
         /\ out' = out + k
         /\ in' = in + kIn
         /\ stage' = next

\* f of the input sample that is read while sample j is written
FromInput(j) ==
  IF \/ call.form = "fill"
     \/ in = out /\ (call.inPlace => samples[j] = "old") THEN "right" ELSE "wrong"

\* "*output++ += constant": f of the output sample itself
FromOutput(j) ==
  IF call.inPlace /\ samples[j] = "old" THEN "right" ELSE "wrong"

(***************************************************************************)
(* k cases of the head or the tail, which fall through.  The constant form *)
(* neither reads nor advances its input.                                   *)
(***************************************************************************)
Scalar(k, next) ==
  IF call.form = "constant" THEN Write(k, FromOutput, 0, next)
  ELSE Write(k, FromInput, k, next)

FourTimes(m) == 4 * (m \div 4)    \* m & 0xFFFFFFFC, of a negative m too

-----------------------------------------------------------------------------
(* The call *)

Begin ==
  /\ stage = "idle"
  /\ call' \in Calls
  /\ call'.startIndex <= call'.endIndex
  /\ in' = call'.startIndex
  /\ out' = call'.startIndex
  /\ n' = call'.endIndex - call'.startIndex
  /\ IF call'.build = "SSE" THEN stage' = "head" /\ n4' = 0
     ELSE stage' = "body" /\ n4' = IF call'.build = "NEON" THEN FourTimes(n') ELSE n'
  /\ samples' = Untouched

\* mutant: the head goes up to the alignment of the range's length
HeadByLength ==
  /\ stage = "head"
  /\ LET k == (-n) % 4 IN
       Scalar(k, "body") /\ n' = n - k /\ n4' = FourTimes(n - k)
  /\ UNCHANGED call

\* up to the next index that is a multiple of four, whatever the range
Head ==
  /\ stage = "head"
  /\ LET k == (-call.startIndex) % 4 IN
       Scalar(k, "body") /\ n' = n - k /\ n4' = FourTimes(n - k)
  /\ UNCHANGED call

Width == IF call.build = "plain" THEN 1 ELSE 4

Body ==
  /\ stage = "body"
  /\ n4 # 0
  /\ Write(Width, FromInput, Width, "body")
  /\ n4' = IF out + Width <= Size THEN n4 - Width ELSE n4
  /\ UNCHANGED <<call, n>>

BodyEnd ==
  /\ stage = "body"
  /\ n4 = 0
  /\ stage' = IF call.build = "plain" THEN "done" ELSE "tail"
  /\ UNCHANGED <<call, in, out, n, n4, samples>>

Tail ==
  /\ stage = "tail"
  /\ Scalar(n % 4, "done")    \* n & 0x3
  /\ UNCHANGED <<call, n, n4>>

Return ==
  /\ stage \in {"done", "overrun"}
  /\ stage' = "idle"
  /\ call' = NoCall
  /\ in' = 0 /\ out' = 0 /\ n' = 0 /\ n4' = 0
  /\ samples' = Untouched

Next == Begin \/ Head \/ Body \/ BodyEnd \/ Tail \/ Return

Spec == Init /\ [][Next]_vars

-----------------------------------------------------------------------------
\* the samples of the range have their values and the others were not touched
Right ==
  /\ stage = "done"
  /\ \A j \in Indices :
       samples[j] = IF j \in call.startIndex..call.endIndex - 1 THEN "right" ELSE "old"

Aligned(index) == index % 4 = 0

\* where the SSE head ends, whatever the end of the range
HeadEnd == call.startIndex + ((-call.startIndex) % 4)

ScalarSteps ==
  \/ call.build = "SSE" /\ ~Aligned(call.startIndex)
  \/ call.build # "plain" /\ ~Aligned(call.endIndex - call.startIndex)

(***************************************************************************)
(* The ranges that the optimised code gets right are known exactly: with   *)
(* two inputs and in fill, those that contain the whole head; with a       *)
(* constant, those without scalar steps, or, when the output is the input, *)
(* without a body behind the head.                                         *)
(***************************************************************************)
RangeIsSupported ==
  /\ call.build = "SSE" /\ ~Aligned(call.startIndex) => call.endIndex >= HeadEnd
  /\ call.form = "constant" /\ ScalarSteps =>
       /\ call.inPlace
       /\ call.build = "SSE" /\ ~Aligned(call.startIndex) => call.endIndex < HeadEnd + 4

RightWhereSupported == stage \in {"done", "overrun"} => (Right <=> RangeIsSupported)

(***************************************************************************)
(* The aligned load _mm_load_ps is used where its address is aligned, but  *)
(* for the constant form with a head, which leaves its input pointer       *)
(* behind ("input vectors can be (16-byte) unaligned", ArrayArithmetic.h:  *)
(* 40, is not kept there).                                                 *)
(***************************************************************************)
LoadsAreAligned ==
  stage = "body" /\ call.build = "SSE" /\ call.form # "fill" /\ n4 # 0 =>
    (Aligned(in) <=> call.form = "vector" \/ Aligned(call.startIndex))
=============================================================================
