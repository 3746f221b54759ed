---------------------------- MODULE MessageLists ----------------------------
(***************************************************************************)
(* The message objects that pass, sort, build and take apart lists, and    *)
(* those that reach the rest of the graph (src/Message*.cpp), one operator *)
(* for each class as in MessageArithmetic.  The values, tables and switch  *)
(* that the objects share are in heap; table is that of its name.          *)
(***************************************************************************)
EXTENDS MessageControl

LOCAL INSTANCE SequencesExt
LOCAL INSTANCE FiniteSetsExt
LOCAL INSTANCE Functions

CONSTANTS Files                 \* a file's name -> its channels, each a sequence of samples

None == "none"
Shares(outcome, heap) == [outcome EXCEPT !.heap = <<heap>>]

\* the classes that hand on whatever comes: [inlet], [outlet], [receive], [list trim]
MessageInlet(s, i, m) == IF i = New THEN Quiet(NoFields) ELSE Forwards(s, 1)
MessageOutlet(s, i, m) == IF i = New THEN Quiet(NoFields) ELSE Forwards(s, 1)
MessageReceive(s, i, m) == IF i = New THEN Quiet(NoFields) ELSE Forwards(s, 1)
MessageListTrim(s, i, m) == IF i = New THEN Quiet(NoFields) ELSE Forwards(s, 1)

MessageSpigot(s, i, m) ==
  CASE i = New -> Quiet([constant |-> float_or(m, 1, 0)])
    [] i = 1 -> IF s.constant # 0 THEN Forwards(s, 1) ELSE Quiet(s)
    [] OTHER -> Right(s, m)

MessageMoses(s, i, m) ==
  CASE i = New -> Quiet([constant |-> float_or(m, 1, 0)])
    [] i = 1 /\ is_float(m, 1) -> Forwards(s, IF get_float(m, 1) < s.constant THEN 1 ELSE 2)
    [] i = 2 -> Right(s, m)
    [] OTHER -> Quiet(s)

\* mutant: the element that chose the outlet is sent too
RouteWhole(s, i, m) ==
  IF i = New THEN Quiet([route |-> m])
  ELSE LET j == FirstEqual(s.route, m)
       IN  IF j = 0 THEN Forwards(s, Len(s.route) + 1) ELSE Sends(s, j, m)

MessageRoute(s, i, m) ==
  IF i = New THEN Quiet([route |-> m])
  ELSE LET j == FirstEqual(s.route, m)
       IN  IF j = 0 THEN Forwards(s, Len(s.route) + 1) ELSE Sends(s, j, Tail(m))

MessageSelect(s, i, m) ==
  LET j == FirstEqual(s.selector, m)
  IN  CASE i = New -> Quiet([selector |-> m])
        [] i = 1 -> IF j = 0 THEN Forwards(s, Len(s.selector) + 1) ELSE Sends(s, j, <<Bang>>)
        [] OTHER -> Quiet(s)             \* the selector cannot be set

MessageBang(s, i, m) == IF i = New THEN Quiet(NoFields) ELSE Sends(s, 1, <<Bang>>)

-----------------------------------------------------------------------------
(* [pack] sends the message that it keeps, and not a copy: what comes back   *)
(* to its inlets while it is sent changes it under those still to hear it.   *)

MessagePack(s, i, m) ==
  LET stored == IF is_bang(m, 1) THEN s ELSE [s EXCEPT !.outgoing[i] = m[1]]
  IN  CASE i = New -> Quiet([outgoing |-> resolve_symbols_to_type(m)])
        [] \/ is_bang(m, 1)
           \/ get_type(m, 1) \in {"float", "symbol"} /\ get_type(s.outgoing, i) = get_type(m, 1) ->
             IF i = 1 THEN SendsOwn(stored, 1) ELSE Quiet(stored)
        [] OTHER -> Quiet(s)

(***************************************************************************)
(* [unpack]: element after element from the right.  At an outlet for       *)
(* anything a bang resends the message of the stack, that of the element   *)
(* before or none that was initialised: Anything stands for it.            *)
(***************************************************************************)
MessageUnpack(s, i, m, k) ==
  LET elements == IF Len(s.template) < Len(m) THEN Len(s.template) ELSE Len(m)
      j == elements - k
      type == get_type(s.template, j)
  IN  CASE i = New -> Quiet([template |-> IF Len(m) < 2 THEN <<Anything, Anything>>
                                                        ELSE resolve_symbols_to_type(m)])
        [] elements = 0 -> Quiet(s)
        [] OTHER -> More(CASE type = "anything" /\ get_type(m, j) \notin {"float", "symbol"} ->
                                Sends(s, j, <<Anything>>)
                           [] type \in {get_type(m, j), "anything"} /\ type \notin {"bang", "list"} ->
                                Sends(s, j, <<m[j]>>)
                           [] OTHER -> Quiet(s),
                         k + 1 < elements)

(***************************************************************************)
(* [list split] reads its index again behind its first send: the elements  *)
(* past the end of the message are whatever the memory holds.              *)
(***************************************************************************)
MessageListSplit(s, i, m, k) ==
  LET at(j) == IF j \in DOMAIN m THEN m[j] ELSE Anything
  IN  CASE i = New -> Quiet([splitIndex |-> float_or(m, 1, 0)])
        [] i = 1 /\ k = 1 -> Sends(s, 1, [j \in 1..s.splitIndex |-> at(j)])
        [] i = 1 -> IF Len(m) <= s.splitIndex THEN Forwards(s, 3)
                    ELSE SendsOn(s, 2, SubSeq(m, s.splitIndex + 1, Len(m)))
        [] OTHER -> Quiet(IF ~is_float(m, 1) THEN s
                          ELSE [splitIndex |-> IF get_float(m, 1) < 0 THEN 0 ELSE get_float(m, 1)])

\* a bang is the list without elements
Elements(m) == IF is_bang(m, 1) THEN << >> ELSE m

MessageListAppend(s, i, m) ==
  CASE i = New -> Quiet([append |-> m])
    [] i = 1 -> Sends(s, 1, IF Elements(m) \o s.append = << >> THEN <<Bang>> ELSE Elements(m) \o s.append)
    [] OTHER -> Quiet([append |-> Elements(m)])

MessageListPrepend(s, i, m) ==
  CASE i = New -> Quiet([prepend |-> m])
    [] i = 1 -> Sends(s, 1, s.prepend \o m)
    [] OTHER -> Quiet([prepend |-> m])

MessageListLength(s, i, m) ==
  IF i = New THEN Quiet(NoFields) ELSE Sends(s, 1, <<Float(Len(Elements(m)))>>)

\* the class of [list ...]
NewList(m) ==
  IF is_symbol(m, 1) /\ get_symbol(m, 1) \in {"append", "prepend", "split"}
    THEN [class |-> "list " \o get_symbol(m, 1), arguments |-> Tail(m)]
  ELSE IF is_symbol_str(m, 1, "trim") \/ is_symbol_str(m, 1, "length")
    THEN [class |-> "list " \o get_symbol(m, 1), arguments |-> m]
  ELSE [class |-> "list append", arguments |-> m]

-----------------------------------------------------------------------------
(* The message box.  The text of the file, with the semicolon at its end, is *)
(* cut at the separators; every piece is one symbol, its arguments put in.   *)
(* The first piece may be empty, which makes a bang of it.                   *)

Pieces(m, separator) ==
  LET cuts == SetToSortSeq({0, Len(m) + 1} \cup {j \in DOMAIN m : m[j] = separator}, <)
  IN  [n \in 1..Len(cuts) - 1 |-> SubSeq(m, cuts[n] + 1, cuts[n + 1] - 1)]

Phrase(words, arguments) ==
  IF words = << >> THEN <<Bang>> ELSE <<Symbol(ToString(resolve_string(words, arguments)))>>

InOrder(local, remote) == local \o remote

MessageMessageBox(s, i, m, k) ==
  LET pieces == Pieces(m, Symbol(";"))
      locals == Pieces(pieces[1], Symbol(","))
      each == s.messages[k + 1]
  IN  CASE i = New ->
             Quiet([messages |-> InOrder([n \in DOMAIN locals |-> [name |-> None, words |-> locals[n]]],
                                         [n \in 1..Len(pieces) - 1 |->
                                            [name |-> get_symbol(pieces[n + 1], 1), words |-> Tail(pieces[n + 1])]])])
        [] OTHER ->
             More(IF each.name = None THEN Sends(s, 1, Phrase(each.words, m))
                                      ELSE SendsToName(s, each.name, Phrase(each.words, m)),
                  k + 1 < Len(s.messages))

-----------------------------------------------------------------------------
(* The objects that write to the host or to the graph.                       *)

MessagePrint(s, i, m) == Quiet(IF i = New THEN NoFields ELSE s)
MessageText(s, i, m) == Quiet(IF i = New THEN NoFields ELSE s)
MessageDeclare(s, i, m) == Quiet(IF i = New THEN NoFields ELSE s)
MessageOpenPanel(s, i, m) == Quiet(IF i = New THEN NoFields ELSE s)

MessageSamplerate(s, i, m) ==
  CASE i = New -> Quiet(NoFields)
    [] is_bang(m, 1) -> Sends(s, 1, <<Float(SampleRate)>>)
    [] OTHER -> Quiet(s)

\* [switch~] turns the audio of its graph on and off
MessageSwitch(s, i, m, heap) ==
  CASE i = New -> Quiet(NoFields)
    [] is_float(m, 1) -> Shares(Quiet(s), [heap EXCEPT !.switched = get_float(m, 1) # 0])
    [] OTHER -> Quiet(s)

\* a value is written only where there is one of that name: nothing puts one there
set_value_for_name(heap, name, x) ==
  IF name \in DOMAIN heap.values THEN [heap EXCEPT !.values[name] = x]
                                 ELSE [heap EXCEPT !.panicked = TRUE]

MessageValue(s, i, m, heap) ==
  CASE i = New -> Quiet([name |-> get_symbol(m, 1)])
    [] is_float(m, 1) -> Shares(Quiet(s), set_value_for_name(heap, s.name, get_float(m, 1)))
    [] is_bang(m, 1) /\ s.name \in DOMAIN heap.values -> Sends(s, 1, <<Float(heap.values[s.name])>>)
    [] OTHER -> Quiet(s)

-----------------------------------------------------------------------------
(* Tables.  A reader keeps the name, and the table that had it when the name *)
(* was set; the table may be resized between two accesses.                   *)

\* mutant: the new portion of the buffer is not cleared
Longer(buffer, n) == [j \in 1..n |-> IF j \in DOMAIN buffer THEN buffer[j] ELSE buffer[1]]

resizeBuffer(buffer, n) ==
  IF n > 0 THEN [j \in 1..n |-> IF j \in DOMAIN buffer THEN buffer[j] ELSE 0] ELSE buffer

Within(buffer, index) == index >= 0 /\ index < Len(buffer)

SumOf(buffer) == FoldFunction(+, 0, buffer)

\* to the given sum, of the magnitude that the sum has
Normalized(buffer, sum, to) == [j \in DOMAIN buffer |-> Math("/", buffer[j] * to, Magnitude(sum))]

MessageTable(s, i, m, heap) ==
  LET buffer == heap.tables[s.name]
  IN  CASE i = New -> Quiet([name |-> get_symbol(m, 1)])
        [] is_symbol_str(m, 1, "normalize") /\ SumOf(buffer) # 0 ->
             Shares(Quiet(s), [heap EXCEPT !.tables[s.name] = Normalized(buffer, SumOf(buffer), float_or(m, 2, 1))])
        [] is_symbol_str(m, 1, "resize") /\ is_float(m, 2) ->
             Shares(Quiet(s), [heap EXCEPT !.tables[s.name] = resizeBuffer(buffer, get_float(m, 2))])
        [] OTHER -> Quiet(s)

\* a name for which there is no table leaves the object without one
Table(heap, name) == IF name \in DOMAIN heap.tables THEN name ELSE None
Named(s, m, heap) ==
  IF is_symbol_str(m, 1, "set") /\ is_symbol(m, 2)
    THEN Quiet([s EXCEPT !.table = Table(heap, get_symbol(m, 2))]) ELSE Quiet(s)

MessageTableRead(s, i, m, heap) ==
  CASE i = New -> Quiet([table |-> Table(heap, get_symbol(m, 1))])
    [] is_float(m, 1) -> IF s.table # None /\ Within(heap.tables[s.table], get_float(m, 1))
                           THEN Sends(s, 1, <<Float(heap.tables[s.table][get_float(m, 1) + 1])>>)
                           ELSE Quiet(s)
    [] OTHER -> Named(s, m, heap)

MessageTableWrite(s, i, m, heap) ==
  CASE i = New -> Quiet([table |-> Table(heap, get_symbol(m, 1)), index |-> 0])
    [] i = 1 /\ is_float(m, 1) ->
         IF s.table # None /\ Within(heap.tables[s.table], s.index)
           THEN Shares(Quiet(s), [heap EXCEPT !.tables[s.table][s.index + 1] = get_float(m, 1)])
           ELSE Quiet(s)
    [] i = 2 -> Quiet([s EXCEPT !.index = float_or(m, 1, @)])
    [] OTHER -> Named(s, m, heap)

(***************************************************************************)
(* [soundfiler]: read [-resize] file table [table].  Every sample of a     *)
(* channel is written, past the end of a table that is shorter: no file of *)
(* a run is longer than the table it is read into without -resize.         *)
(***************************************************************************)
Resizes(m) == is_symbol_str(m, 2, "-resize")
Operand(m, j) == get_symbol(m, IF Resizes(m) THEN j + 2 ELSE j + 1)
FilledWith(buffer, samples, resize) ==
  LET table == IF resize THEN resizeBuffer(buffer, Len(samples)) ELSE buffer
  IN  [j \in DOMAIN table |-> IF j \in DOMAIN samples THEN samples[j] ELSE table[j]]

MessageSoundfiler(s, i, m, heap) ==
  LET operands == Len(m) - (IF Resizes(m) THEN 2 ELSE 1)
      channels == Files[Operand(m, 1)]
      first == Operand(m, 2)
      filled == [heap EXCEPT !.tables[first] = FilledWith(@, channels[1], Resizes(m))]
      second == IF operands >= 3 /\ Len(channels) > 1 THEN Table(heap, Operand(m, 3)) ELSE None
      both == IF second = None THEN filled
              ELSE [filled EXCEPT !.tables[second] = FilledWith(@, channels[2], Resizes(m))]
  IN  CASE i = New -> Quiet(NoFields)
        [] /\ is_symbol_str(m, 1, "read") /\ operands >= 2
           /\ Table(heap, first) # None /\ Operand(m, 1) \in DOMAIN Files ->
             Shares(Sends(s, 1, <<Float(Len(channels[1]))>>), both)
        [] OTHER -> Quiet(s)
=============================================================================
