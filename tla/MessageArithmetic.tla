-------------------------- MODULE MessageArithmetic --------------------------
(***************************************************************************)
(* The arithmetic message objects (src/Message*.cpp): one operator for     *)
(* each class, its constructor and its process_message.                    *)
(*                                                                         *)
(*   Class(s, i, m)   with the fields s of the object, message m at inlet  *)
(*                    i, returns the outcome of the call: the fields       *)
(*                    behind it and what was sent.  The call at inlet New  *)
(*                    is the constructor, m the arguments.                 *)
(*                                                                         *)
(* Floats are integers, and Math stands for the functions of the C library *)
(* and for the quotients; inlets are those of the code plus one.           *)
(***************************************************************************)
EXTENDS Atoms

CONSTANT Math(_, _, _)          \* of a function's name and its two arguments

New == 0

\* what a call did: sent nothing, sent m, or sent m and has to go on
Quiet(s) == [state |-> s, send |-> << >>, more |-> FALSE, heap |-> << >>]
Sends(s, outlet, m) == [Quiet(s) EXCEPT !.send = 
                                     <<[to |-> <<"outlet", outlet>>, message |-> m, by |-> "copy"]>>]
SendsOn(s, outlet, m) == [Sends(s, outlet, m) EXCEPT !.more = TRUE]
\* the message that came, not a copy of it; the object's own
Forwards(s, outlet) == [Sends(s, outlet, << >>) EXCEPT !.send[1].by = "reference"]
SendsOwn(s, outlet) == [Sends(s, outlet, << >>) EXCEPT !.send[1].by = "own"]

\* integer division and remainder of C: towards zero, with the sign of x
Magnitude(x) == IF x < 0 THEN -x ELSE x
Towards0(x, c) == IF (x < 0) = (c < 0) THEN Magnitude(x) \div Magnitude(c)
                                       ELSE -(Magnitude(x) \div Magnitude(c))
CRemainder(x, c) == x - c * Towards0(x, c)
Truth(b) == IF b THEN 1 ELSE 0

-----------------------------------------------------------------------------
(* One operand.                                                              *)

Function(s, m, value) ==
  IF is_float(m, 1) THEN Sends(s, 1, <<Float(value)>>) ELSE Quiet(s)

NoFields == << >>
Converts(s, i, m, value) == IF i = New THEN Quiet(NoFields) ELSE Function(s, m, value)

MessageAbsoluteValue(s, i, m) == Converts(s, i, m, Magnitude(get_float(m, 1)))
MessageArcTangent(s, i, m) == Converts(s, i, m, Math("atan", get_float(m, 1), 1))
MessageCosine(s, i, m) == Converts(s, i, m, Math("cos", get_float(m, 1), 1))
MessageSine(s, i, m) == Converts(s, i, m, Math("sin", get_float(m, 1), 1))
MessageTangent(s, i, m) == Converts(s, i, m, Math("tan", get_float(m, 1), 1))
MessageExp(s, i, m) == Converts(s, i, m, Math("exp", get_float(m, 1), 1))

\* where the function has no value there is a value for it
Floored(x, floor, value) == IF x <= 0 THEN floor ELSE value

MessageSqrt(s, i, m) ==
  Converts(s, i, m, IF get_float(m, 1) < 0 THEN 0 ELSE Math("sqrt", get_float(m, 1), 1))
MessageLog(s, i, m) ==
  Converts(s, i, m, Floored(get_float(m, 1), -1000, Math("log", get_float(m, 1), 1)))
MessageMidiToFrequency(s, i, m) == Converts(s, i, m, Math("mtof", get_float(m, 1), 1))
MessageFrequencyToMidi(s, i, m) ==
  Converts(s, i, m, Floored(get_float(m, 1), -1500, Math("ftom", get_float(m, 1), 1)))
MessageDbToPow(s, i, m) ==
  Converts(s, i, m, Floored(get_float(m, 1), 0, Math("dbtopow", get_float(m, 1), 1)))
MessageDbToRms(s, i, m) ==
  Converts(s, i, m, Floored(get_float(m, 1), 0, Math("dbtorms", get_float(m, 1), 1)))
MessagePowToDb(s, i, m) ==
  Converts(s, i, m, Floored(get_float(m, 1), 0, Math("powtodb", get_float(m, 1), 1)))
MessageRmsToDb(s, i, m) ==
  Converts(s, i, m, Floored(get_float(m, 1), 0, Math("rmstodb", get_float(m, 1), 1)))

-----------------------------------------------------------------------------
(* Two operands: a float at the left inlet is computed with the constant,    *)
(* and the result is sent again for a bang; the right inlet is cold.         *)

Right(s, m) == Quiet(IF is_float(m, 1) THEN [s EXCEPT !.constant = get_float(m, 1)] ELSE s)

Remembers(s, i, m, value) ==
  CASE i = New -> Quiet([constant |-> float_or(m, 1, 0), last |-> 0])
    [] i = 1 /\ is_float(m, 1) -> Sends([s EXCEPT !.last = value], 1, <<Float(value)>>)
    [] i = 1 /\ is_bang(m, 1) -> Sends(s, 1, <<Float(s.last)>>)
    [] i = 2 -> Right(s, m)
    [] OTHER -> Quiet(s)

MessageAdd(s, i, m) == Remembers(s, i, m, get_float(m, 1) + s.constant)
MessageSubtract(s, i, m) == Remembers(s, i, m, get_float(m, 1) - s.constant)
MessageMultiply(s, i, m) == Remembers(s, i, m, get_float(m, 1) * s.constant)
MessageDivide(s, i, m) ==
  Remembers(s, i, m, IF s.constant = 0 THEN 0 ELSE Math("/", get_float(m, 1), s.constant))
MessagePow(s, i, m) == Remembers(s, i, m, Math("pow", get_float(m, 1), s.constant))
MessageMaximum(s, i, m) ==
  Remembers(s, i, m, IF get_float(m, 1) > s.constant THEN get_float(m, 1) ELSE s.constant)
MessageMinimum(s, i, m) ==
  Remembers(s, i, m, IF get_float(m, 1) < s.constant THEN get_float(m, 1) ELSE s.constant)
MessageEqualsEquals(s, i, m) == Remembers(s, i, m, Truth(get_float(m, 1) = s.constant))
MessageNotEquals(s, i, m) == Remembers(s, i, m, Truth(get_float(m, 1) # s.constant))
MessageLessThan(s, i, m) == Remembers(s, i, m, Truth(get_float(m, 1) < s.constant))
MessageGreaterThan(s, i, m) == Remembers(s, i, m, Truth(get_float(m, 1) > s.constant))

MessageLessThanOrEqualTo(s, i, m) == Remembers(s, i, m, Truth(get_float(m, 1) <= s.constant))
MessageGreaterThanOrEqualTo(s, i, m) == Remembers(s, i, m, Truth(get_float(m, 1) >= s.constant))

\* mutant: the remainder is left with the sign of C
ModulusOfC(s, i, m) ==
  Remembers(s, i, m, IF s.constant = 0 THEN 0 ELSE CRemainder(get_float(m, 1), s.constant))

\* [mod]: the remainder of C, brought between 0 and the constant; that of 0 is 0
MessageModulus(s, i, m) ==
  LET remainder == IF s.constant = 0 THEN 0 ELSE CRemainder(get_float(m, 1), s.constant)
  IN  Remembers(s, i, m, IF remainder < 0 THEN remainder + Magnitude(s.constant) ELSE remainder)

\* [%] and [atan2] remember no result; [%] is that of C
MessageRemainder(s, i, m) ==
  CASE i = New -> Quiet([constant |-> float_or(m, 1, 0)])
    [] i = 1 -> Function(s, m, IF s.constant = 0 THEN 0 ELSE CRemainder(get_float(m, 1), s.constant))
    [] OTHER -> Right(s, m)

MessageArcTangent2(s, i, m) ==
  CASE i = New -> Quiet([constant |-> float_or(m, 1, 0)])
    [] i = 1 -> Function(s, m, Math("atan2", get_float(m, 1), s.constant))
    [] OTHER -> Right(s, m)

Shifted(f, constant) == IF f < 0 THEN f - (constant - 1) ELSE f

\* [div]: by a positive constant, downwards
Divisor(x) == IF x = 0 THEN 1 ELSE Magnitude(x)
MessageDiv(s, i, m) ==
  CASE i = New -> Quiet([constant |-> Divisor(float_or(m, 1, 1))])
    [] i = 1 -> Function(s, m, Towards0(Shifted(get_float(m, 1), s.constant), s.constant))
    [] OTHER -> Quiet(IF is_float(m, 1) THEN [constant |-> Divisor(get_float(m, 1))] ELSE s)

\* [&&] and [||] keep both operands and compute at a bang too; no argument is taken
Logical(s, i, m, value) ==
  CASE i = New -> Quiet([left |-> 0, right |-> 0])
    [] i = 1 /\ (is_float(m, 1) \/ is_bang(m, 1)) ->
         Sends([s EXCEPT !.left = float_or(m, 1, @)], 1, <<Float(value)>>)
    [] i = 2 -> Quiet([s EXCEPT !.right = float_or(m, 1, @)])
    [] OTHER -> Quiet(s)
MessageLogicalAnd(s, i, m) ==
  Logical(s, i, m, Truth(float_or(m, 1, s.left) # 0 /\ s.right # 0))
MessageLogicalOr(s, i, m) ==
  Logical(s, i, m, Truth(float_or(m, 1, s.left) # 0 \/ s.right # 0))

MessageClip(s, i, m) ==
  CASE i = New -> Quiet(IF is_float(m, 1) THEN [lower |-> get_float(m, 1), upper |-> float_or(m, 2, 0)]
                                          ELSE [lower |-> 0, upper |-> 0])
    [] i = 1 -> LET x == get_float(m, 1)
                IN  Function(s, m, IF x < s.lower THEN s.lower ELSE IF x > s.upper THEN s.upper ELSE x)
    [] i = 2 -> Quiet([s EXCEPT !.lower = float_or(m, 1, @)])
    [] OTHER -> Quiet([s EXCEPT !.upper = float_or(m, 1, @)])

(***************************************************************************)
(* [wrap]: the loops that bring a value into the range never end where the *)
(* range is empty.  (Given more than two arguments the bounds are not      *)
(* initialised: no patch does so.)                                         *)
(***************************************************************************)
Between(a, b) == IF b < a THEN [lower |-> b, upper |-> a] ELSE [lower |-> a, upper |-> b]
Terminates(s, x) == s.upper > s.lower \/ (s.lower <= x /\ x < s.upper)

Wrapped(s, x) == s.lower + ((x - s.lower) % (s.upper - s.lower))
MessageWrap(s, i, m) ==
  CASE i = New -> Quiet(IF Len(m) < 2 THEN [lower |-> 0, upper |-> float_or(m, 1, 1)]
                                      ELSE Between(float_or(m, 1, 0), float_or(m, 2, 1)))
    [] i = 1 /\ is_float(m, 1) ->
         IF Terminates(s, get_float(m, 1)) THEN Sends(s, 1, <<Float(Wrapped(s, get_float(m, 1)))>>)
                                           ELSE [Quiet(s) EXCEPT !.more = TRUE]
    [] i = 2 /\ is_float(m, 1) ->
         Quiet(CASE Len(m) = 1 -> Between(get_float(m, 1), 0)
                 [] Len(m) = 2 -> Between(get_float(m, 1), float_or(m, 2, 0))
                 [] OTHER -> Between(s.lower, s.upper))
    [] OTHER -> Quiet(s)

-----------------------------------------------------------------------------
(* [float] and [int] hold a number; the value at the left inlet replaces it. *)

Holds(s, i, m) ==
  CASE i = New -> Quiet([constant |-> float_or(m, 1, 0)])
    [] i = 1 /\ (is_float(m, 1) \/ is_bang(m, 1)) ->
         LET x == float_or(m, 1, s.constant) IN Sends([constant |-> x], 1, <<Float(x)>>)
    [] i = 2 -> Right(s, m)
    [] OTHER -> Quiet(s)

MessageFloat(s, i, m) == Holds(s, i, m)
MessageInteger(s, i, m) == Holds(s, i, m)
=============================================================================
