--------------------------- MODULE MessageObjects ---------------------------
(***************************************************************************)
(* A patch of message objects.  A message is sent depth first: each        *)
(* receiver of an outlet is called in the order of the connections, sends  *)
(* its own messages, and returns, before the next one is called            *)
(* (Object::receive_message and send_message, src/message/object/mod.rs;   *)
(* connection/list.rs).  todo is that stack of calls: its head is the call *)
(* that runs next, with the number of sends it has behind it.  The stack   *)
(* of a cascade that comes back to an object holds that object twice, and  *)
(* the fields of the object change under the call that waits.              *)
(*                                                                         *)
(* The clock stands still in a cascade.  The host sends a message when     *)
(* the cascade of the one before has come to its end.                      *)
(***************************************************************************)
EXTENDS MessageLists

CONSTANTS Patches,              \* records of class, arguments, wires, inputs, tables, receivers
          MaxInputs,            \* bound: messages from the host
          MaxPrinted            \* bound: what [print] has written when the run is cut

VARIABLES patch,                \* that which runs
          state, heap, todo,
          inputs, printed       \* history: what the host sent, what was printed

vars == <<patch, state, heap, todo, inputs, printed>>

\* the names under which a class may be created
Label(name) ==
  CASE name \in {"b", "bng"} -> "bang"
    [] name \in {"f", "nbx", "hsl", "vsl"} -> "float"
    [] name = "i" -> "int"
    [] name = "r" -> "receive"
    [] name = "sel" -> "select"
    [] name = "t" -> "trigger"
    [] name = "tgl" -> "toggle"
    [] name = "v" -> "value"
    [] OTHER -> name

\* what a call may do, by the class of the object
Arithmetic(class, s, i, m) ==
  CASE class = "+" -> MessageAdd(s, i, m)
    [] class = "-" -> MessageSubtract(s, i, m)
    [] class = "*" -> MessageMultiply(s, i, m)
    [] class = "/" -> MessageDivide(s, i, m)
    [] class = "pow" -> MessagePow(s, i, m)
    [] class = "max" -> MessageMaximum(s, i, m)
    [] class = "min" -> MessageMinimum(s, i, m)
    [] class = "==" -> MessageEqualsEquals(s, i, m)
    [] class = "!=" -> MessageNotEquals(s, i, m)
    [] class = "<" -> MessageLessThan(s, i, m)
    [] class = ">" -> MessageGreaterThan(s, i, m)
    [] class = "<=" -> MessageLessThanOrEqualTo(s, i, m)
    [] class = ">=" -> MessageGreaterThanOrEqualTo(s, i, m)
    [] class = "mod" -> MessageModulus(s, i, m)
    [] class = "%" -> MessageRemainder(s, i, m)
    [] class = "div" -> MessageDiv(s, i, m)
    [] class = "&&" -> MessageLogicalAnd(s, i, m)
    [] class = "||" -> MessageLogicalOr(s, i, m)
    [] class = "clip" -> MessageClip(s, i, m)
    [] class = "wrap" -> MessageWrap(s, i, m)
    [] class = "float" -> MessageFloat(s, i, m)
    [] class = "int" -> MessageInteger(s, i, m)
    [] class = "atan2" -> MessageArcTangent2(s, i, m)
    [] class = "abs" -> MessageAbsoluteValue(s, i, m)
    [] class = "atan" -> MessageArcTangent(s, i, m)
    [] class = "cos" -> MessageCosine(s, i, m)
    [] class = "sin" -> MessageSine(s, i, m)
    [] class = "tan" -> MessageTangent(s, i, m)
    [] class = "exp" -> MessageExp(s, i, m)
    [] class = "sqrt" -> MessageSqrt(s, i, m)
    [] class = "log" -> MessageLog(s, i, m)
    [] class = "mtof" -> MessageMidiToFrequency(s, i, m)
    [] class = "ftom" -> MessageFrequencyToMidi(s, i, m)
    [] class = "dbtopow" -> MessageDbToPow(s, i, m)
    [] class = "dbtorms" -> MessageDbToRms(s, i, m)
    [] class = "powtodb" -> MessagePowToDb(s, i, m)
    [] class = "rmstodb" -> MessageRmsToDb(s, i, m)

Control(class, s, i, m, k) ==
  CASE class = "change" -> MessageChange(s, i, m, k)
    [] class = "toggle" -> MessageToggle(s, i, m)
    [] class = "symbol" -> MessageSymbol(s, i, m)
    [] class = "makefilename" -> MessageMakefilename(s, i, m)
    [] class = "swap" -> MessageSwap(s, i, m, k)
    [] class = "trigger" -> MessageTrigger(s, i, m, k)
    [] class = "until" -> MessageUntil(s, i, m, k)
    [] class = "stripnote" -> MessageStripNote(s, i, m, k)
    [] class = "notein" -> MessageNotein(s, i, m, k)
    [] class = "inlet" -> MessageInlet(s, i, m)
    [] class = "outlet" -> MessageOutlet(s, i, m)
    [] class = "receive" -> MessageReceive(s, i, m)
    [] class = "list trim" -> MessageListTrim(s, i, m)
    [] class = "spigot" -> MessageSpigot(s, i, m)
    [] class = "moses" -> MessageMoses(s, i, m)
    [] class = "route" -> MessageRoute(s, i, m)
    [] class = "select" -> MessageSelect(s, i, m)
    [] class = "bang" -> MessageBang(s, i, m)
    [] class = "pack" -> MessagePack(s, i, m)
    [] class = "unpack" -> MessageUnpack(s, i, m, k)
    [] class = "list split" -> MessageListSplit(s, i, m, k)
    [] class = "list append" -> MessageListAppend(s, i, m)
    [] class = "list prepend" -> MessageListPrepend(s, i, m)
    [] class = "list length" -> MessageListLength(s, i, m)
    [] class = "msg" -> MessageMessageBox(s, i, m, k)
    [] class = "print" -> MessagePrint(s, i, m)
    [] class = "text" -> MessageText(s, i, m)
    [] class = "declare" -> MessageDeclare(s, i, m)
    [] class = "openpanel" -> MessageOpenPanel(s, i, m)
    [] class = "samplerate~" -> MessageSamplerate(s, i, m)

Shared(class, s, i, m, h) ==
  CASE class = "switch~" -> MessageSwitch(s, i, m, h)
    [] class = "value" -> MessageValue(s, i, m, h)
    [] class = "table" -> MessageTable(s, i, m, h)
    [] class = "tabread" -> MessageTableRead(s, i, m, h)
    [] class = "tabwrite" -> MessageTableWrite(s, i, m, h)
    [] class = "soundfiler" -> MessageSoundfiler(s, i, m, h)

ArithmeticClasses ==
  {"+", "-", "*", "/", "pow", "max", "min", "==", "!=", "<", ">", "<=", ">=", "mod", "%", "div",
   "&&", "||", "clip", "wrap", "float", "int", "atan2", "abs", "atan", "cos", "sin", "tan", "exp",
   "sqrt", "log", "mtof", "ftom", "dbtopow", "dbtorms", "powtodb", "rmstodb"}
SharedClasses == {"switch~", "value", "table", "tabread", "tabwrite", "soundfiler"}

Outcomes(class, s, i, m, k, h) ==
  CASE class \in ArithmeticClasses -> {Arithmetic(class, s, i, m)}
    [] class \in SharedClasses -> {Shared(class, s, i, m, h)}
    [] class = "random" -> MessageRandom(s, i, m)
    [] class = "until" /\ i = New -> NewUntil
    [] OTHER -> {Control(class, s, i, m, k)}

\* the inlets of an object, as its constructor says
Inlets(class, s) ==
  CASE class \in {"receive", "notein", "table", "text", "declare"} -> 0
    [] class = "clip" -> 3
    [] class = "pack" -> Len(s.outgoing)
    [] class = "select" -> IF Len(s.selector) < 2 THEN 2 ELSE 1
    [] class \in {"+", "-", "*", "/", "pow", "max", "min", "==", "!=", "<", ">", "<=", ">=", "mod", "%",
                  "div", "&&", "||", "wrap", "float", "int", "atan2", "symbol", "random", "swap", "until",
                  "stripnote", "spigot", "moses", "list split", "list append", "list prepend", "tabwrite"} -> 2
    [] OTHER -> 1

should_distribute_message_to_inlets(class) == class \notin {"list append", "tabwrite"}

-----------------------------------------------------------------------------
Objects == DOMAIN patch.class
Nobody == 0

\* an object of the patch file: a [list] is of the class that its first word says
Created(p, o) ==
  IF p.class[o] = "list" THEN NewList(p.arguments[o])
                         ELSE [class |-> Label(p.class[o]), arguments |-> p.arguments[o]]
Class(o) == Created(patch, o).class
AtRest == todo = << >>

Call(to, inlet, m, of) == [to |-> to, inlet |-> inlet, message |-> m, of |-> of, done |-> 0]

\* the message that a call reads: that of the [pack] which sends it, if there is one
Read(call) == IF call.of = Nobody THEN call.message ELSE state[call.of].outgoing

\* a table is made with its arguments: its name and its length
NewHeap(p) == [values |-> [n \in {} |-> 0], tables |-> p.tables, switched |-> TRUE, panicked |-> FALSE]

Constructed(p, o) ==
  Outcomes(Created(p, o).class, NoFields, New, Created(p, o).arguments, 0, NewHeap(p))

Init ==
  /\ patch \in Patches
  /\ heap = NewHeap(patch)
  /\ \E started \in NewUntil :
       state = [o \in Objects |->
                  IF Class(o) = "until" THEN started.state
                  ELSE (CHOOSE r \in Constructed(patch, o) : TRUE).state]
  /\ todo = << >>
  /\ inputs = << >>
  /\ printed = << >>

-----------------------------------------------------------------------------
(***************************************************************************)
(* The calls that a send makes, in the order of the connections.  A        *)
(* message is handed on by reference: one that a [pack] keeps stays its.   *)
(***************************************************************************)
Sent(call, send) ==
  LET targets == IF send.to[1] = "name" THEN patch.receivers[send.to[2]]
                 ELSE patch.wires[call.to][send.to[2]]
      m == IF send.by = "reference" THEN call.message ELSE send.message
      of == CASE send.by = "own" -> call.to
              [] send.by = "reference" -> call.of
              [] OTHER -> Nobody
  IN  [n \in DOMAIN targets |-> Call(targets[n][1], targets[n][2], m, of)]

\* receive_message's test
Distributes(call) ==
  /\ call.done = 0 /\ call.inlet = 1
  /\ Inlets(Class(call.to), state[call.to]) > 1
  /\ Len(Read(call)) > 1
  /\ should_distribute_message_to_inlets(Class(call.to))

\* (from..to).rev(), which holds nothing where from is not below to
Reversed(from, to) == [n \in 1..(IF to > from THEN to - from ELSE 0) |-> to - n]

\* the elements of a list as messages of their own, at the inlets of that range
Distributed(call) ==
  LET m == Read(call)
      inlets == Inlets(Class(call.to), state[call.to])
      range == Reversed(IF Len(m) < inlets THEN Len(m) ELSE inlets, 0)
  IN  [n \in DOMAIN range |-> Call(call.to, range[n] + 1, <<m[range[n] + 1]>>, Nobody)]

\* an element that is neither a float nor a symbol is left out
Distribute ==
  /\ ~AtRest
  /\ Distributes(Head(todo))
  /\ todo' = SelectSeq(Distributed(Head(todo)), LAMBDA c : get_type(c.message, 1) \in {"float", "symbol"})
                \o Tail(todo)
  /\ UNCHANGED <<patch, state, heap, inputs, printed>>

\* process_message, from one send to the next
process_message ==
  /\ ~AtRest /\ ~heap.panicked
  /\ ~Distributes(Head(todo))
  /\ Len(printed) < MaxPrinted
  /\ LET call == Head(todo)
         o == call.to
     IN  \E r \in Outcomes(Class(o), state[o], call.inlet, Read(call), call.done, heap) :
           /\ state' = [state EXCEPT ![o] = r.state]
           /\ heap' = IF r.heap = << >> THEN heap ELSE r.heap[1]
           /\ todo' = (IF r.send = << >> THEN << >> ELSE Sent(call, r.send[1]))
                         \o (IF r.more THEN <<[call EXCEPT !.done = @ + 1]>> ELSE << >>)
                         \o Tail(todo)
           /\ printed' = IF Class(o) = "print" THEN Append(printed, <<o, Read(call)>>) ELSE printed
  /\ UNCHANGED <<patch, inputs>>

\* a message of the host, for an object that hears it
Input ==
  /\ AtRest /\ ~heap.panicked
  /\ Len(inputs) < MaxInputs
  /\ \E input \in patch.inputs :
       /\ inputs' = Append(inputs, input)
       /\ todo' = <<Call(input[1], input[2], input[3], Nobody)>>
  /\ UNCHANGED <<patch, state, heap, printed>>

Next == Input \/ Distribute \/ process_message

Spec == Init /\ [][Next]_vars /\ WF_vars(Distribute \/ process_message)

-----------------------------------------------------------------------------
(***************************************************************************)
(* A cascade comes to its end: the loop of a patch is cut by the cold      *)
(* inlets, by [change], which keeps the value before it sends it, and by   *)
(* the right inlet of [until].                                             *)
(***************************************************************************)
EventuallyAtRest == []<>(AtRest \/ heap.panicked)
=============================================================================
