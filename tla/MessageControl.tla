--------------------------- MODULE MessageControl ---------------------------
(***************************************************************************)
(* The message objects that keep, order, select and collect (src/Message*. *)
(* cpp), one operator for each class as in MessageArithmetic.  A class     *)
(* that sends more than once in a call is called with the number of sends  *)
(* behind it: between two sends the receivers run, and may call back.      *)
(***************************************************************************)
EXTENDS MessageArithmetic

CONSTANTS SampleRate,
          SYMBOL_BUFFER_LENGTH,
          Forever,              \* bound: the sends of an [until] started by a bang
          Drawn                 \* bound: what [random] may draw without a maximum

More(outcome, more) == [outcome EXCEPT !.more = more]
SendsToName(s, name, m) ==
  [Quiet(s) EXCEPT !.send = <<[to |-> <<"name", name>>, message |-> m, by |-> "copy"]>>]

\* the first element of the message that equals the atom; 0 where there is none
FirstEqual(message, m) ==
  IF m # << >> /\ \E j \in DOMAIN message : atom_is_equal_to(message, j, m[1])
    THEN CHOOSE j \in DOMAIN message :
           /\ atom_is_equal_to(message, j, m[1])
           /\ \A l \in 1..j - 1 : ~atom_is_equal_to(message, l, m[1])
    ELSE 0

-----------------------------------------------------------------------------
(* A value that is kept.                                                     *)

\* mutant: the value is kept behind the send
ChangeKeepsLate(s, i, m, k) ==
  CASE i = New -> Quiet([prev |-> float_or(m, 1, 0)])
    [] k = 1 -> Quiet([prev |-> get_float(m, 1)])
    [] is_float(m, 1) -> IF get_float(m, 1) = s.prev THEN Quiet(s) ELSE SendsOn(s, 1, <<m[1]>>)
    [] OTHER -> Quiet(s)

MessageChange(s, i, m, k) ==
  CASE i = New -> Quiet([prev |-> float_or(m, 1, 0)])
    [] is_float(m, 1) -> IF get_float(m, 1) = s.prev THEN Quiet(s)
                         ELSE Sends([prev |-> get_float(m, 1)], 1, <<m[1]>>)
    [] is_bang(m, 1) -> Sends(s, 1, <<Float(s.prev)>>)
    [] is_symbol_str(m, 1, "set") -> Quiet([prev |-> float_or(m, 2, s.prev)])
    [] OTHER -> Quiet(s)

Switched(s, x) == IF x = 0 THEN [s EXCEPT !.isOn = FALSE] ELSE [isOn |-> TRUE, onOutput |-> x]
MessageToggle(s, i, m) ==
  LET Out(t) == Sends(t, 1, <<Float(IF t.isOn THEN t.onOutput ELSE 0)>>)
  IN  CASE i = New -> Quiet([isOn |-> FALSE, onOutput |-> 1])
        [] is_float(m, 1) -> Out(Switched(s, get_float(m, 1)))
        [] is_bang(m, 1) -> Out([s EXCEPT !.isOn = ~@])
        [] is_symbol_str(m, 1, "set") /\ is_float(m, 2) -> Quiet(Switched(s, get_float(m, 2)))
        [] OTHER -> Quiet(s)

\* copy_string: a symbol that does not fit leaves the one that is there
Copied(s, symbol) == IF Len(symbol) < SYMBOL_BUFFER_LENGTH THEN [symbol |-> symbol] ELSE s
MessageSymbol(s, i, m) ==
  LET t == IF is_symbol(m, 1) THEN Copied(s, get_symbol(m, 1)) ELSE s
  IN  CASE i = New -> Quiet(IF is_symbol(m, 1) THEN t ELSE [symbol |-> ""])
        [] i = 1 /\ (is_symbol(m, 1) \/ is_bang(m, 1)) -> Sends(t, 1, <<Symbol(t.symbol)>>)
        [] i = 2 -> Quiet(t)
        [] OTHER -> Quiet(s)

\* [makefilename]: the format is what stands before its conversion
MessageMakefilename(s, i, m) ==
  CASE i = New -> Quiet([format |-> IF is_symbol(m, 1) THEN get_symbol(m, 1) ELSE ""])
    [] is_float(m, 1) -> Sends(s, 1, <<Symbol(s.format \o ToString(get_float(m, 1)))>>)
    [] is_symbol_str(m, 1, "set") /\ is_symbol(m, 2) -> Quiet([format |-> get_symbol(m, 2)])
    [] is_symbol(m, 1) -> Sends(s, 1, <<Symbol(s.format \o get_symbol(m, 1))>>)
    [] OTHER -> Quiet(s)

\* what [random] may do: any number up to its maximum
MessageRandom(s, i, m) ==
  CASE i = New -> {Quiet([max_inc |-> float_or(m, 1, 2) - 1])}
    [] i = 1 /\ is_bang(m, 1) -> {Sends(s, 1, <<Float(x)>>) :
                                    x \in IF s.max_inc >= 0 THEN 0..s.max_inc ELSE Drawn}
    [] i = 2 /\ is_float(m, 1) ->
         {Quiet([max_inc |-> IF get_float(m, 1) > 1 THEN get_float(m, 1) - 1 ELSE 0])}
    [] OTHER -> {Quiet(s)}

-----------------------------------------------------------------------------
(* Order.                                                                    *)

MessageSwap(s, i, m, k) ==
  CASE i = New -> Quiet([left |-> 0, right |-> float_or(m, 1, 0)])
    [] i = 1 /\ k = 1 -> Sends(s, 1, <<Float(s.right)>>)
    [] i = 1 /\ (is_float(m, 1) \/ is_bang(m, 1)) ->
         LET x == float_or(m, 1, s.left) IN SendsOn([s EXCEPT !.left = x], 2, <<Float(x)>>)
    [] i = 2 -> Quiet([s EXCEPT !.right = float_or(m, 1, @)])
    [] OTHER -> Quiet(s)

\* what [trigger] sends for an atom at an outlet of a type
Cast(m, type) ==
  CASE get_type(m, 1) = "float" -> CASE type \in {"anything", "float"} -> <<m[1]>>
                                     [] type = "symbol" -> <<Symbol("float")>>
                                     [] OTHER -> <<Bang>>
    [] get_type(m, 1) = "symbol" -> CASE type = "anything" -> <<m[1]>>
                                      [] type \in {"float", "symbol"} -> << >>
                                      [] OTHER -> <<Bang>>
    [] get_type(m, 1) = "bang" -> CASE type = "float" -> <<Float(0)>>
                                    [] type = "symbol" -> <<Symbol("symbol")>>
                                    [] OTHER -> <<Bang>>
    [] OTHER -> <<Bang>>

\* mutant: the outlets of [trigger] from left to right
LeftToRight(s, k) == k + 1

\* the outlet of [trigger]'s send with that number
RightToLeft(s, k) == Len(s.cast) - k

MessageTrigger(s, i, m, k) ==
  LET outlet == RightToLeft(s, k)
      atom == Cast(m, get_type(s.cast, outlet))
  IN  CASE i = New -> Quiet([cast |-> resolve_symbols_to_type(m)])
        [] Len(s.cast) = 0 -> Quiet(s)
        [] OTHER -> More(IF atom = << >> THEN Quiet(s) ELSE Sends(s, outlet, atom),
                         k + 1 < Len(s.cast))

\* the test of [until]'s loop: its right inlet may have set the bound to 0
UntilGoesOn(s, k) == k < s.maxIterations

MessageUntil(s, i, m, k) ==
  LET started == CASE k > 0 -> s
                   [] is_float(m, 1) -> [maxIterations |-> get_float(m, 1)]
                   [] is_bang(m, 1) -> [maxIterations |-> Forever]
                   [] OTHER -> s
  IN  CASE i = 1 -> IF UntilGoesOn(started, k) THEN SendsOn(started, 1, <<Bang>>) ELSE Quiet(started)
        [] OTHER -> Quiet(IF is_bang(m, 1) THEN [maxIterations |-> 0] ELSE s)

\* its constructor leaves the bound as it finds it
NewUntil == {Quiet([maxIterations |-> n]) : n \in {0, Forever}}

MessageStripNote(s, i, m, k) ==
  CASE i = New -> Quiet(NoFields)
    [] i = 1 /\ k = 1 -> Sends(s, 1, <<m[1]>>)
    [] i = 1 /\ is_float(m, 1) /\ float_or(m, 2, 0) > 0 -> SendsOn(s, 2, <<m[2]>>)
    [] OTHER -> Quiet(s)

\* the name that the host's note finds it by is a receiver's; channel 0 is omni
MessageNotein(s, i, m, k) ==
  LET first == IF s.channel = 0 THEN 3 ELSE 2
  IN  CASE i = New -> Quiet([channel |-> IF float_or(m, 1, 0) \in 1..16 THEN get_float(m, 1) ELSE 0])
        [] OTHER -> More(Sends(s, first - k, <<m[first - k]>>), first - k > 1)
=============================================================================
