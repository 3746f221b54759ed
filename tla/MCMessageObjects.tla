--------------------------- MODULE MCMessageObjects ---------------------------
(***************************************************************************)
(* Patches of message objects for TLC, one or two for each hazard, and     *)
(* what each of them has to print.  Messages enter at a [receive].  A      *)
(* property about one patch holds of the others because it names its own.  *)
(***************************************************************************)
EXTENDS MessageObjects

LOCAL INSTANCE SequencesExt

NaN == 99999

MCMath(name, x, y) ==
  CASE name = "/" -> IF y = 0 THEN NaN ELSE Towards0(x, y)
    [] name = "pow" -> CASE y < 0 -> NaN [] y = 0 -> 1 [] OTHER -> x ^ y
    [] name = "sqrt" -> IF x < 0 THEN NaN ELSE CHOOSE r \in 0..x : r * r <= x /\ (r + 1) * (r + 1) > x
    [] name \in {"log", "ftom", "dbtopow", "dbtorms", "powtodb", "rmstodb"} -> IF x <= 0 THEN NaN ELSE x
    [] OTHER -> x

F(x) == <<Float(x)>>
S(s) == <<Symbol(s)>>
Words(s, m) == <<Symbol(s)>> \o m

\* objects as <<class, arguments>>, connections as <<object, outlet, object, inlet>>
NoTables == [n \in {} |-> << >>]
NoNames == NoTables
Built(objects, connections, hears, tables, receivers) ==
  [name |-> "", class |-> [o \in DOMAIN objects |-> objects[o][1]],
   arguments |-> [o \in DOMAIN objects |-> objects[o][2]],
   wires |-> [o \in DOMAIN objects |-> [outlet \in 1..4 |->
                LET mine == SelectSeq(connections, LAMBDA c : c[1] = o /\ c[2] = outlet)
                IN  [n \in DOMAIN mine |-> <<mine[n][3], mine[n][4]>>]]],
   inputs |-> hears, tables |-> tables, receivers |-> receivers]
Plain(objects, connections, hears) == Built(objects, connections, hears, NoTables, NoNames)

At1(messages) == {<<1, 1, m>> : m \in messages}
At2(messages) == {<<2, 1, m>> : m \in messages}
Rec == <<"r", S("in")>>
Out == <<"print", << >> >>
Bin(class, x) == <<class, F(x)>>

Numbers == {F(x) : x \in {-4, -1, 0, 3}}

MCPatch(name) ==
  CASE
  \* 3 <- 1 and 2; the loop of a counter, its number printed first
       name = "counter" ->
         Plain(<<Rec, Rec, <<"f", << >> >>, Bin("+", 1), Out>>,
               <<<<1, 1, 3, 1>>, <<2, 1, 3, 2>>, <<3, 1, 5, 1>>, <<3, 1, 4, 1>>, <<4, 1, 3, 2>>>>,
               At1({<<Bang>>, F(5)}) \cup At2({F(2)}))
    [] name = "square" ->
         Plain(<<Rec, <<"t", <<Symbol("f"), Symbol("f")>> >>, Bin("*", 0), Out>>,
               <<<<1, 1, 2, 1>>, <<2, 1, 3, 1>>, <<2, 2, 3, 2>>, <<3, 1, 4, 1>>>>, At1(Numbers))
    [] name = "until" ->
         Plain(<<Rec, <<"t", <<Symbol("b"), Symbol("b")>> >>, <<"f", F(0)>>, <<"until", << >> >>,
                 <<"i", << >> >>, Bin("+", 1), <<"sel", F(3)>>, Out>>,
               <<<<1, 1, 2, 1>>, <<2, 2, 3, 1>>, <<3, 1, 5, 2>>, <<2, 1, 4, 1>>, <<4, 1, 5, 1>>, <<5, 1, 6, 1>>,
                 <<6, 1, 8, 1>>, <<6, 1, 5, 2>>, <<6, 1, 7, 1>>, <<7, 1, 4, 2>>>>,
               At1({<<Bang>>}))
    [] name = "change" ->
         Plain(<<Rec, <<"change", << >> >>, Out, Bin("+", 0), <<"symbol", << >> >>, <<"makefilename", S("n-")>>>>,
               <<<<1, 1, 2, 1>>, <<2, 1, 3, 1>>, <<2, 1, 4, 1>>, <<4, 1, 2, 1>>, <<2, 1, 6, 1>>, <<6, 1, 5, 1>>>>,
               At1(Numbers \cup {Words("set", F(3))}))
    [] name = "pack" ->
         Plain(<<Rec, Rec, <<"pack", <<Symbol("f"), Symbol("f")>> >>, <<"unpack", <<Symbol("f"), Symbol("f")>> >>,
                 <<"swap", F(0)>>, Bin("-", 0), Out>>,
               <<<<1, 1, 3, 1>>, <<2, 1, 3, 2>>, <<3, 1, 4, 1>>, <<4, 1, 5, 1>>, <<4, 2, 5, 2>>,
                 <<5, 1, 6, 1>>, <<5, 2, 6, 2>>, <<6, 1, 7, 1>>>>,
               At1({<<Bang>>, F(7)}) \cup At2({F(2), F(5)}))
    [] name = "division" ->
         Plain(<<Rec, <<"t", <<Symbol("f"), Symbol("f"), Symbol("f")>> >>, Bin("mod", 3), Bin("div", 3), Bin("%", 3), Out>>,
               <<<<1, 1, 2, 1>>, <<2, 1, 3, 1>>, <<2, 2, 4, 1>>, <<2, 3, 5, 1>>,
                 <<3, 1, 6, 1>>, <<4, 1, 6, 1>>, <<5, 1, 6, 1>>>>,
               At1({F(x) : x \in -4..4}))
    [] name = "compare" ->
         Plain(<<Rec, Rec, Bin("<", 0), Bin("==", 0), Bin(">", 0), Bin("<=", 0), Bin("!=", 0), Bin(">=", 0), Bin("min", 0),
                 Bin("max", 0), Out>>,
               [n \in 1..8 |-> <<1, 1, n + 2, 1>>] \o [n \in 1..8 |-> <<2, 1, n + 2, 2>>]
                 \o [n \in 1..8 |-> <<n + 2, 1, 11, 1>>],
               At1({F(-1), F(3)}) \cup At2({F(3), F(2)}))
    [] name = "logic" ->
         Plain(<<Rec, Rec, <<"&&", << >> >>, <<"||", << >> >>, <<"tgl", << >> >>, Out>>,
               <<<<1, 1, 3, 1>>, <<2, 1, 3, 2>>, <<1, 1, 4, 1>>, <<2, 1, 4, 2>>,
                 <<3, 1, 6, 1>>, <<4, 1, 5, 1>>, <<5, 1, 6, 1>>>>,
               At1({F(2), F(0), <<Bang>>}) \cup At2({F(0), F(1)}))
    [] name = "functions" ->
         Plain(<<Rec, Out>> \o [n \in 1..18 |->
                 << <<"sqrt", "log", "mtof", "ftom", "dbtopow", "dbtorms", "powtodb", "rmstodb", "/",
                      "abs", "atan", "atan2", "cos", "sin", "tan", "exp", "pow", "list length">>[n], << >> >>],
               [n \in 1..18 |-> <<1, 1, n + 2, 1>>] \o [n \in 1..18 |-> <<n + 2, 1, 2, 1>>],
               At1({F(-4), F(0), F(4)}))
    [] name = "ranges" ->
         Plain(<<Rec, <<"clip", F(-1) \o F(2)>>, <<"wrap", F(-1) \o F(3)>>, <<"random", F(2)>>, Out>>,
               <<<<1, 1, 2, 1>>, <<1, 1, 3, 1>>, <<1, 1, 4, 1>>, <<2, 1, 5, 1>>, <<3, 1, 5, 1>>, <<4, 1, 5, 1>>>>,
               At1(Numbers \cup {<<Bang>>}))
    [] name = "route" ->
         Plain(<<Rec, <<"route", F(1) \o S("a")>>, Bin("moses", 2), <<"sel", F(4)>>, <<"spigot", F(1)>>, Out>>,
               <<<<1, 1, 2, 1>>, <<2, 1, 6, 1>>, <<2, 2, 6, 1>>, <<2, 3, 3, 1>>, <<3, 1, 6, 1>>, <<3, 2, 4, 1>>,
                 <<4, 1, 6, 1>>, <<4, 2, 5, 1>>, <<5, 1, 6, 1>>>>,
               At1({F(1) \o F(9), S("a") \o S("b"), F(0), F(4), F(3)}))
    [] name = "lists" ->
         Plain(<<Rec, Rec, <<"list", F(8)>>, <<"list", S("trim")>>, <<"list", S("length")>>, Out>>,
               <<<<1, 1, 3, 1>>, <<2, 1, 3, 2>>, <<3, 1, 4, 1>>, <<4, 1, 6, 1>>, <<4, 1, 5, 1>>, <<5, 1, 6, 1>>>>,
               At1({<<Bang>>, F(1), F(1) \o S("a")}) \cup At2({<<Bang>>, F(5) \o F(6)}))
    [] name = "split" ->
         Plain(<<Rec, Rec, <<"list", Words("split", F(0))>>, <<"list", Words("prepend", F(4))>>, Out>>,
               <<<<1, 1, 3, 1>>, <<2, 1, 3, 2>>, <<3, 2, 4, 1>>, <<3, 3, 5, 1>>, <<3, 1, 5, 1>>, <<4, 1, 5, 1>>>>,
               At1({F(1), S("a"), F(1) \o F(2)}) \cup At2({F(1), F(-1)}))
    [] name = "box" ->
         Built(<<Rec, <<"msg", F(1) \o S(",") \o <<Dollar(1), Symbol("b"), Symbol(";"), Symbol("far"), Dollar(1)>> >>,
                 <<"r", S("far")>>, <<"msg", S(";") \o S("far") \o S("d")>>, Out>>,
               <<<<1, 1, 2, 1>>, <<2, 1, 5, 1>>, <<3, 1, 5, 1>>, <<1, 1, 4, 1>>, <<4, 1, 5, 1>>>>,
               At1({F(7), S("a")}), NoTables, [n \in {"far"} |-> <<<<3, 1>>>>])
    [] name = "table" ->
         Built(<<Rec, Rec, Rec, <<"tabwrite", S("t")>>, <<"tabread", S("t")>>, <<"table", Words("t", F(1))>>, Out>>,
               <<<<1, 1, 4, 1>>, <<2, 1, 4, 2>>, <<3, 1, 5, 1>>, <<5, 1, 7, 1>>>>,
               {<<1, 1, F(7)>>, <<2, 1, F(0)>>, <<2, 1, F(1)>>, <<3, 1, F(0)>>, <<3, 1, F(1)>>,
                <<6, 1, Words("resize", F(1))>>, <<6, 1, Words("resize", F(2))>>},
               [n \in {"t"} |-> <<0>>], NoNames)
    [] name = "files" ->
         Built(<<Rec, <<"soundfiler", << >> >>, <<"table", Words("t", F(2))>>, <<"tabread", S("t")>>, <<"switch~", << >> >>, Out,
                 <<"samplerate~", << >> >>, <<"table", Words("u", F(1))>>, <<"v", S("x")>>, <<"bng", << >> >> >>,
               <<<<1, 1, 2, 1>>, <<2, 1, 6, 1>>, <<1, 1, 4, 1>>, <<1, 1, 5, 1>>, <<4, 1, 6, 1>>, <<1, 1, 7, 1>>, <<7, 1, 6, 1>>,
                 <<1, 1, 9, 1>>, <<1, 1, 10, 1>> >>,
               At1({Words("read", S("-resize") \o S("long") \o S("t") \o S("u")), Words("read", S("short") \o S("t")),
                    Words("read", S("none") \o S("t")), <<Bang>>, S("t")})
                 \cup {<<3, 1, Words("normalize", << >>)>>},
               [n \in {"t", "u"} |-> IF n = "t" THEN <<0, 0>> ELSE <<0>>], NoNames)
    [] name = "notes" ->
         Plain(<<<<"notein", << >> >>, <<"notein", F(2)>>, <<"stripnote", << >> >>, Out, <<"inlet", << >> >>, <<"outlet", << >> >>,
                 <<"text", << >> >>, <<"declare", << >> >>, <<"openpanel", << >> >>, <<"v", S("x")>> >>,
               <<<<1, 1, 3, 1>>, <<1, 2, 3, 2>>, <<2, 1, 4, 1>>, <<3, 1, 4, 1>>, <<5, 1, 6, 1>>, <<6, 1, 4, 1>>, <<5, 1, 10, 1>>>>,
               {<<1, 1, F(60) \o F(v) \o F(1)>> : v \in {0, 9}} \cup {<<2, 1, F(64) \o F(8) \o F(2)>>, <<5, 1, F(1)>>})
    [] name = "adds" ->
         Plain(<<Rec, Bin("+", 0), Out>>, <<<<1, 1, 2, 1>>, <<2, 1, 3, 1>>>>, At1({F(3) \o F(4)}))

MCNames ==
  {"counter", "square", "until", "change", "pack", "division", "compare", "logic", "functions",
   "ranges", "route", "lists", "split", "box", "table", "files", "notes"}
Titled(names) == {[MCPatch(n) EXCEPT !.name = n] : n \in names}
MCPatches == Titled(MCNames)
Adds == Titled({"adds"})

MCFiles == [n \in {"long", "short"} |-> IF n = "long" THEN <<<<1, 2, 3>>, <<4, 5, 6>>>> ELSE <<<<9>>>>]

-----------------------------------------------------------------------------
Of(name) == patch.name = name /\ AtRest
Heard == [n \in DOMAIN printed |-> printed[n][2]]
HeardFloats == [n \in DOMAIN printed |-> printed[n][2][1][2]]
FloatOf(n) == inputs[n][3][1][2]
IsBangAt(n) == inputs[n][3] = <<Bang>>

\* the last input before n at that object; 0 where there is none
LastAt(o, n) == LET before == {j \in 1..n : inputs[j][1] = o}
                IN  IF before = {} THEN 0 ELSE CHOOSE j \in before : \A l \in before : l <= j

(***************************************************************************)
(* A counter prints once for each message at its left inlet, and never     *)
(* more, in the middle of a cascade either: the number given, or one more  *)
(* than the one before.  The right inlet of [float] (MessageFloat.cpp:     *)
(* 50-55) sends nothing, or the loop would not end.                        *)
(***************************************************************************)
Counted(n) ==
  LET told[j \in 0..n] ==
        IF j = 0 THEN [next |-> 0, out |-> << >>]
        ELSE IF inputs[j][1] = 2 THEN [told[j - 1] EXCEPT !.next = FloatOf(j)]
        ELSE LET x == IF IsBangAt(j) THEN told[j - 1].next ELSE FloatOf(j)
             IN  [next |-> x + 1, out |-> Append(told[j - 1].out, x)]
  IN  told[n].out
CountsUp ==
  patch.name = "counter" =>
    /\ Len(printed) <= Len(inputs)
    /\ AtRest => HeardFloats = Counted(Len(inputs))

(***************************************************************************)
(* [trigger] serves its right outlet first (MessageTrigger.cpp), so that a *)
(* cold inlet has its operand when the hot one computes.                   *)
(***************************************************************************)
SquaresItsInput ==
  Of("square") => HeardFloats = [n \in DOMAIN inputs |-> FloatOf(n) * FloatOf(n)]

(***************************************************************************)
(* A bang at the right inlet of [until], sent from inside its own loop,    *)
(* ends the loop with the send that is under way (MessageUntil.cpp).       *)
(***************************************************************************)
UntilStops ==
  Of("until") => HeardFloats = [n \in 1..3 * Len(inputs) |-> ((n - 1) % 3) + 1]

(***************************************************************************)
(* What goes into [pack] comes out of [unpack] from the right to the left  *)
(* and through [swap] into a subtraction with both operands of one list:   *)
(* each number printed is right less left of what was last put in.         *)
(***************************************************************************)
Parcel(n) ==
  LET left == LET at == {j \in 1..n : inputs[j][1] = 1 /\ ~IsBangAt(j)} IN IF at = {} THEN 0 ELSE 7
      right == IF LastAt(2, n) = 0 THEN 0 ELSE FloatOf(LastAt(2, n))
  IN  right - left
PackRoundTrip ==
  Of("pack") =>
    LET sent == SelectSeq([n \in DOMAIN inputs |-> n], LAMBDA n : inputs[n][1] = 1)
    IN  HeardFloats = [k \in DOMAIN sent |-> Parcel(sent[k])]

(***************************************************************************)
(* [mod] and [div] by the same number belong together, negative numbers    *)
(* included: x = 3 div + mod, with mod in 0 .. 2; [%] keeps the sign of x  *)
(* (MessageModulus.cpp, MessageDiv.cpp, MessageRemainder.cpp).             *)
(***************************************************************************)
DivisionAgrees ==
  Of("division") =>
    \A n \in DOMAIN inputs :
      LET rem == HeardFloats[3 * n - 2]
          div == HeardFloats[3 * n - 1]
          mod == HeardFloats[3 * n]
      IN  /\ mod \in 0..2 /\ FloatOf(n) = 3 * div + mod
          /\ rem \in {mod, mod - 3} /\ rem * FloatOf(n) >= 0

(***************************************************************************)
(* The six comparisons of two numbers and their minimum and maximum are    *)
(* consistent with each other, whatever was put in last on either side.    *)
(***************************************************************************)
ComparisonsAgree ==
  Of("compare") =>
    \A n \in 0..(Len(printed) \div 8) - 1 :
      LET h(j) == HeardFloats[8 * n + j]
      IN  /\ h(1) + h(2) + h(3) = 1
          /\ h(4) = h(1) + h(2) /\ h(5) = h(1) + h(3) /\ h(6) = h(2) + h(3)
          /\ h(7) = h(8) <=> h(2) = 1

(***************************************************************************)
(* No object hands on a number that is none: the logarithms, the roots and *)
(* the quotients answer where the C library has no value.                  *)
(***************************************************************************)
InDomain == \A n \in DOMAIN printed : \A j \in DOMAIN printed[n][2] :
              is_float(printed[n][2], j) => get_float(printed[n][2], j) # NaN

\* [clip], [wrap] and [random] stay in their ranges (MessageClip.cpp, MessageWrap.cpp, MessageRandom.cpp)
StaysInRange == patch.name = "ranges" => \A n \in DOMAIN printed : HeardFloats[n] \in -1..2

(***************************************************************************)
(* A message finds one way through the objects that sort: the outlet of    *)
(* the first [route] that knows its first word takes the rest of it, the   *)
(* others hand it on whole, and [select] answers a match with a bang.      *)
(***************************************************************************)
RoutedOnce ==
  Of("route") =>
    Heard = [n \in DOMAIN inputs |->
               LET m == inputs[n][3]
               IN  IF Len(m) > 1 THEN Tail(m) ELSE IF m = F(4) THEN <<Bang>> ELSE m]

(***************************************************************************)
(* A bang is a list without elements for the objects that join and count   *)
(* lists, and a join of two of them is a bang again.                       *)
(***************************************************************************)
Joined(n) ==
  LET without(m) == IF m = <<Bang>> THEN << >> ELSE m
      behind == IF LastAt(2, n) = 0 THEN F(8) ELSE without(inputs[LastAt(2, n)][3])
      list == without(inputs[n][3]) \o behind
  IN  <<IF list = << >> THEN <<Bang>> ELSE list, F(Len(list))>>
ListsAreJoined ==
  Of("lists") =>
    LET sent == SelectSeq([n \in DOMAIN inputs |-> n], LAMBDA n : inputs[n][1] = 1)
    IN  Heard = FlattenSeq([k \in DOMAIN sent |-> Joined(sent[k])])

(***************************************************************************)
(* A message box sends what is before the first semicolon from its outlet, *)
(* in its order, before anything goes to a named receiver; every piece is  *)
(* one message of one word (MessageMessageBox.cpp).                        *)
(***************************************************************************)
LocalBeforeRemote ==
  Of("box") =>
    Heard = FlattenSeq([n \in DOMAIN inputs |->
              LET text(words) == S(ToString(words))
                  a == inputs[n][3][1]
              IN  <<text(F(1)), text(<<a, Symbol("b")>>), text(<<a>>), <<Bang>>, text(S("d"))>>])

(***************************************************************************)
(* [tabread] answers with the last number that [tabwrite] put at that      *)
(* place, through the resizes between: a place that was cut off and is     *)
(* there again holds 0, and one past the end is neither read nor written.  *)
(***************************************************************************)
Told(n) ==
  LET told[j \in 0..n] ==
        IF j = 0 THEN [table |-> <<0>>, index |-> 0, out |-> << >>]
        ELSE LET t == told[j - 1]
                 x == FloatOf(j)
             IN  CASE inputs[j][1] = 1 -> IF t.index < Len(t.table) THEN [t EXCEPT !.table[t.index + 1] = x] ELSE t
                   [] inputs[j][1] = 2 -> [t EXCEPT !.index = x]
                   [] inputs[j][1] = 3 -> IF x < Len(t.table) THEN [t EXCEPT !.out = Append(@, t.table[x + 1])] ELSE t
                   [] OTHER -> [t EXCEPT !.table = [l \in 1..inputs[j][3][2][2] |-> IF l <= Len(@) THEN @[l] ELSE 0]]
  IN  told[n].out
ReadsWhatWasWritten == Of("table") => HeardFloats = Told(Len(inputs))

(***************************************************************************)
(* What a message sets off happens in its turn, at any depth of sends: the *)
(* right outlet and all that follows from it before the left one, a cold   *)
(* inlet without a send, a loop ended by what it has sent itself, and what *)
(* a box sends by its outlet before what it sends by name.  The numbers    *)
(* that are printed tell each of these orders from any other.              *)
(***************************************************************************)
SendsInTurn == CountsUp /\ SquaresItsInput /\ UntilStops /\ PackRoundTrip /\ LocalBeforeRemote

(***************************************************************************)
(* Objects that compute from the same numbers agree with each other, and   *)
(* none leaves its range or its domain, negative numbers, zero and the     *)
(* ends of the ranges included.                                            *)
(***************************************************************************)
NumbersAgree == DivisionAgrees /\ ComparisonsAgree /\ InDomain /\ StaysInRange

(***************************************************************************)
(* The elements of a list are neither lost nor doubled nor moved on its    *)
(* way through the objects that sort, join and count lists, a bang being   *)
(* the list without any.                                                   *)
(***************************************************************************)
ListsArriveWhole == RoutedOnce /\ ListsAreJoined

(***************************************************************************)
(* A list at the left inlet of an object with several inlets is            *)
(* distributed over them, from the right (message/object/mod.rs:136-143    *)
(* and the comment of line 174): (3 4) at [+] prints 7.                    *)
(***************************************************************************)
ListAdds == Of("adds") => HeardFloats = [n \in DOMAIN inputs |-> 7]
=============================================================================
