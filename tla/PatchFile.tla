----------------------------- MODULE PatchFile -----------------------------
(***************************************************************************)
(* A patch is read from a file, with the abstractions it names, attached   *)
(* to the context and edited: PdFileParser (src/PdFileParser.cpp) and the  *)
(* calls of the host (src/ZenGarden.cpp) on the graphs of PdGraph.         *)
(*                                                                         *)
(* A file is its lines and whether the last one lacks its newline.  A line *)
(* is a record with an "op": what its first words say, "more" for a line   *)
(* that goes on with the one before, "blank" for an empty one.             *)
(***************************************************************************)
EXTENDS PdGraph, FiniteSets
LOCAL INSTANCE SequencesExt
LOCAL INSTANCE Bags

CONSTANTS Scenarios,     \* bound: [roots, database, files, extras], see TypeOK
          MaxCalls       \* bound: calls of the host once a patch is read

VARIABLES scenario,      \* the files that there are
          pending,       \* the patches that the host has not yet loaded
          heap,
          parsers,       \* the calls of execute under way, the innermost last
          calls,         \* bound
          missing,       \* history: what was not found, and where one should have looked
          attachments    \* history: a bag, how often each object has come into an attached graph

vars == <<scenario, pending, heap, parsers, calls, missing, attachments>>

Stopped == heap.panicked \/ heap.undefined

TypeOK ==
  /\ scenario \in Scenarios
  /\ Len(pending) <= Len(scenario.roots)
  /\ calls \in 0..MaxCalls
  /\ IsABag(attachments) /\ BagToSet(attachments) \subseteq DOMAIN heap.objects
  /\ \A o \in DOMAIN heap.objects :
       LET object == heap.objects[o] IN
       /\ object.kind \in DOMAIN Classes \cup {"graph"}
       /\ object.home \in Graphs(heap) \cup {NONE}
       /\ \A s \in Range(object.sources) : s \in DOMAIN heap.objects
  /\ \A g \in Graphs(heap) :
       LET graph == heap.graphs[g] IN
       /\ Range(graph.inlets) \cup Range(graph.outlets) \subseteq Range(graph.nodes)
       /\ \A o \in Range(graph.nodes) : heap.objects[o].home = g
  /\ \A p \in DOMAIN parsers : parsers[p].graph \in Graphs(heap) \cup {NONE}

-----------------------------------------------------------------------------
(* The text: nextLine and nextMessage.                                       *)

Blank == [op |-> "blank"]

nextLine(text) ==
  IF text.rest = << >> THEN [text EXCEPT !.line = Blank, !.isDone = TRUE]
  ELSE [text EXCEPT !.line = Head(text.rest), !.rest = Tail(text.rest)]

\* a line without a newline is not seen
Opened(file) ==
  LET lines == IF file.open THEN Front(file.lines) ELSE file.lines
  IN [nextLine([line |-> Blank, rest |-> lines, isDone |-> FALSE]) EXCEPT !.isDone = FALSE]

\* how many lines go on with the current one
Following(text) ==
  LET Ends == {n \in 0..Len(text.rest) : n = Len(text.rest) \/ text.rest[n + 1].op # "more"}
  IN CHOOSE n \in Ends : \A m \in Ends : n <= m

\* mutant: what goes on is left out
MessageOfOneLine(text) == IF text.isDone THEN << >> ELSE <<text.line>>

\* the lines of the next message, and the text behind it; none ends execute
MessageAt(text) ==
  IF text.isDone THEN << >>
  ELSE IF text.line = Blank /\ Following(text) = 0 THEN << >>
  ELSE <<text.line>> \o SubSeq(text.rest, 1, Following(text))

\* mutant: an empty line before one that goes on with it is not passed
StaysAtBlank(text) ==
  IF text.isDone \/ text.line = Blank THEN text
  ELSE nextLine([text EXCEPT !.rest = SubSeq(@, Following(text) + 1, Len(@))])

nextMessage(text) ==
  IF text.isDone THEN text
  ELSE nextLine([text EXCEPT !.rest = SubSeq(@, Following(text) + 1, Len(@))])

-----------------------------------------------------------------------------
(* execute, one message at a time.                                           *)

Parser(text, graph, init, isSubPatch) ==
  [text |-> text, graph |-> graph, init |-> init, isSubPatch |-> isSubPatch,
   lastArrayCreated |-> NONE, lastArrayCreatedIndex |-> 0]

Top == parsers[Len(parsers)]
Current == MessageAt(Top.text)
At(op) == parsers # << >> /\ ~Stopped /\ Current # << >> /\ Current[1].op = op
Read(parser) == [parser EXCEPT !.text = nextMessage(@)]

\* the parser goes on with the next message
Continue(parser) == [parsers EXCEPT ![Len(parsers)] = Read(parser)]
Arguments == heap.graphs[Top.graph].arguments
InitMessage(words) == from_string(resolve_string(words, Arguments))

Init ==
  /\ scenario \in Scenarios
  /\ pending = scenario.roots
  /\ heap = EmptyHeap
  /\ parsers = << >>
  /\ calls = 0
  /\ missing = {}
  /\ attachments = EmptyBag

\* zg_context_new_graph_from_file, from the directory of the patches
Root == <<"patches">>

zg_context_new_graph_from_file ==
  /\ ~Stopped
  /\ parsers = << >>
  /\ pending # << >>
  /\ parsers' = <<Parser(Opened(Head(pending)), NONE, << >>, TRUE)>>
  /\ pending' = Tail(pending)
  /\ UNCHANGED <<scenario, heap, calls, missing, attachments>>

\* what the patch shows at that place of its graph
Write(h, g, o) == [h EXCEPT !.graphs[g].written = Append(@, o)]

\* #N canvas: a patch of its own, a subpatch, or what an abstraction makes of itself
canvas ==
  LET parser == Top
      numbered == get_next_graph_id(heap)
      id == numbered.global_graph_id
      g == Len(heap.objects) + 1
  IN
  /\ At("canvas")
  /\ \/ /\ parser.graph = NONE
        /\ heap' = addDeclarePath(NewGraph(numbered, NONE, << >>, id, FALSE), g, <<TRUE, Root>>)
     \/ /\ parser.graph # NONE
        /\ parser.isSubPatch
        /\ heap' = addObject(NewGraph(heap, parser.graph, Arguments,
                                      heap.graphs[parser.graph].id, TRUE), parser.graph, g)
     \/ /\ parser.graph # NONE
        /\ ~parser.isSubPatch
        /\ heap' = addObject(NewGraph(numbered, parser.graph, parser.init, id, FALSE),
                             parser.graph, g)
  /\ parsers' = Continue([parser EXCEPT !.graph = g, !.isSubPatch = TRUE])
  /\ UNCHANGED <<scenario, pending, calls, missing, attachments>>

\* history: what a name of the form $0-... goes on with
Local(words) ==
  IF Len(words) = 1 /\ get_type(words, 1) = "$" /\ words[1][2] = 1 /\ Len(words[1]) = 3
    THEN words[1][3] ELSE ""

\* an object that the parser makes and adds to the graph
Made(h, label, words, init, x) ==
  LET g == Top.graph
      o == Len(h.objects) + 1
      name == IF is_symbol(init, 1) THEN get_symbol(init, 1) ELSE ""
      new == NewObject(h, label, name, Local(words), g, x)
  IN Write(addObject(new, g, o), g, o)

Makes(label, words, init, x) ==
  /\ heap' = Made(heap, label, words, init, x)
  /\ parsers' = Continue(Top)
  /\ UNCHANGED <<scenario, pending, calls, missing, attachments>>

\* where Pure Data would look: in every directory declared in this patch or around it
RECURSIVE InstanceOf(_)
InstanceOf(g) == IF heap.graphs[g].subpatch THEN InstanceOf(heap.objects[g].home) ELSE g
RECURSIVE Visible(_)
Visible(g) ==
  LET instance == InstanceOf(g)
      own == UNION {heap.graphs[f].declared : f \in {e \in Graphs(heap) : InstanceOf(e) = instance}}
  IN IF IsRoot(heap, instance) THEN own \cup {Root}
     ELSE own \cup Visible(heap.objects[instance].home)

\* the label as it stands in the file is what an abstraction is looked for by
Label(word) == resolve_string(<<word>>, Arguments)[1]

obj ==
  LET line == Current[1]
      label == Label(line.label)
      init == InitMessage(line.init)
      kind == IF label[1] = "float" THEN "float" ELSE label[2]
      inDatabase == line.label \in DOMAIN scenario.database
      found == findFilePath(heap, Top.graph, DOMAIN scenario.files, line.label)
      Enter(text) == /\ parsers' = Append(Continue(Top), Parser(text, Top.graph, init, FALSE))
                     /\ heap' = Write(heap, Top.graph, Len(heap.objects) + 1)
                     /\ UNCHANGED <<scenario, pending, calls, missing, attachments>>
  IN
  /\ At("obj")
  /\ \/ kind \in DOMAIN Classes /\ Makes(kind, line.init, init, line.x)
     \/ kind \notin DOMAIN Classes /\ inDatabase /\ Enter(Opened(scenario.database[line.label]))
     \/ /\ kind \notin DOMAIN Classes /\ ~inDatabase /\ found # << >>
        /\ Enter(Opened(scenario.files[<<found[1], line.label>>]))
     \/ /\ kind \notin DOMAIN Classes /\ ~inDatabase /\ found = << >>
        /\ parsers' = Continue(Top)
        /\ heap' = Write(heap, Top.graph, NONE)
        /\ missing' = missing \cup {[label |-> line.label, where |-> Visible(Top.graph)]}
        /\ UNCHANGED <<scenario, pending, calls, attachments>>

box ==
  \/ At("msg") /\ Makes("message", << >>, InitMessage(<<Symbol("text")>>), 0)
  \/ At("floatatom") /\ Makes("float", << >>, <<Float(0)>>, 0)
  \/ At("symbolatom") /\ Makes("symbol", << >>, <<Symbol("")>>, 0)
  \/ At("text") /\ Makes("text", << >>, <<Symbol("text")>>, 0)

\* beyond the last object the iterators are not defined
connect ==
  LET line == Current[1]
      nodes == heap.graphs[Top.graph].nodes
      defined == {line.from, line.to} \subseteq DOMAIN nodes
  IN
  /\ At("connect")
  /\ heap' = IF ~defined THEN Undefined(heap)
             ELSE addConnection([heap EXCEPT !.graphs[Top.graph].wires = @ \cup
                                   {<<nodes[line.from], line.outlet, nodes[line.to], line.inlet>>}],
                                nodes[line.from], line.outlet, nodes[line.to], line.inlet)
  /\ parsers' = Continue(Top)
  /\ UNCHANGED <<scenario, pending, calls, missing, attachments>>

restore ==
  LET home == heap.objects[Top.graph].home IN
  /\ At("restore")
  /\ heap' = Write(heap, home, Top.graph)
  /\ parsers' = Continue([Top EXCEPT !.graph = home])
  /\ UNCHANGED <<scenario, pending, calls, missing, attachments>>

declare ==
  LET path == Current[1].path IN
  /\ At("declare")
  /\ heap' = addDeclarePath(
               [heap EXCEPT !.graphs[Top.graph].declared = @ \cup
                  {IF path[1] THEN path[2] ELSE Root \o path[2]}], Top.graph, path)
  /\ parsers' = Continue(Top)
  /\ UNCHANGED <<scenario, pending, calls, missing, attachments>>

array ==
  LET words == Current[1].init IN
  /\ At("array")
  /\ heap' = Made(heap, "table", words, InitMessage(words), 0)
  /\ parsers' = Continue([Top EXCEPT !.lastArrayCreated = Len(heap.objects) + 1,
                                     !.lastArrayCreatedIndex = 0])
  /\ UNCHANGED <<scenario, pending, calls, missing, attachments>>

\* the values of a message, over all of its lines
Values == FlattenSeq([n \in DOMAIN Current |-> Current[n].values])

\* from the index on, as far as the buffer goes
Fill(buffer, index, values) ==
  [j \in DOMAIN buffer |-> IF j - index + 1 \in 1..Len(values) THEN values[j - index + 1]
                           ELSE buffer[j]]

\* #A: into the array that the parser made last, until as much as it holds was written
fill ==
  LET index == Current[1].index
      buffer == heap.objects[Top.lastArrayCreated].buffer
      written == Top.lastArrayCreatedIndex
                   + Cardinality({j \in DOMAIN buffer : j - index + 1 \in 1..Len(Values)})
      full == written = Len(buffer)
  IN
  /\ At("A")
  /\ \/ /\ Top.lastArrayCreated = NONE
        /\ parsers' = Continue(Top)
        /\ UNCHANGED heap
     \/ /\ Top.lastArrayCreated # NONE
        /\ heap' = [heap EXCEPT !.objects[Top.lastArrayCreated].buffer = Fill(@, index, Values)]
        /\ parsers' = Continue([Top EXCEPT !.lastArrayCreated = IF full THEN NONE ELSE @,
                                           !.lastArrayCreatedIndex = IF full THEN 0 ELSE written])
  /\ UNCHANGED <<scenario, pending, calls, missing, attachments>>

\* #X coords, a message of another kind, or what follows an empty line
ignored ==
  /\ At("coords") \/ At("blank")
  /\ parsers' = Continue(Top)
  /\ UNCHANGED <<scenario, pending, heap, calls, missing, attachments>>

\* execute returns; the host adds the directory to its patch once more
return ==
  /\ parsers # << >> /\ ~Stopped
  /\ Current = << >>
  /\ heap' = IF Len(parsers) > 1 THEN heap ELSE addDeclarePath(heap, Top.graph, <<TRUE, Root>>)
  /\ parsers' = Front(parsers)
  /\ UNCHANGED <<scenario, pending, calls, missing, attachments>>

execute ==
  canvas \/ obj \/ box \/ connect \/ restore \/ declare \/ array \/ fill \/ ignored \/ return

-----------------------------------------------------------------------------
(* The host, once all patches are read.  It names objects that there are,    *)
(* and leaves the inlets and outlets of a graph alone.                       *)

Call ==
  /\ ~Stopped /\ parsers = << >> /\ pending = << >>
  /\ calls < MaxCalls
  /\ calls' = calls + 1
  /\ UNCHANGED <<scenario, pending, parsers, missing>>

Roots == {g \in Graphs(heap) \cap Alive(heap) : IsRoot(heap, g)}

attach_graph(g) ==
  /\ Call
  /\ heap' = attach_to_context(heap, g, TRUE)

unattach_graph(g) ==
  /\ Call
  /\ heap' = attach_to_context(heap, g, FALSE)

zg_object_remove(o) ==
  /\ Call
  /\ heap.objects[o].kind \notin Lets
  /\ heap' = removeObject(heap, o)

\* the destructor alone: what takes the graph out of the context is a comment
zg_graph_delete(g) ==
  /\ Call
  /\ heap' = Delete(heap, g)

\* a connection that the patch has, or had: <<from, outlet, to, inlet>>
Wires == UNION {heap.graphs[g].wires : g \in Graphs(heap) \cap Alive(heap)}
Connected(c) ==
  /\ {c[1], c[3]} \subseteq Alive(heap)
  /\ c[2] <= get_num_outlets(heap, c[1]) /\ c[4] <= get_num_inlets(heap, c[3])
  /\ LET end == OutletOf(heap, c[1], c[2])
         lists == heap.objects[end[1]].outgoing[end[2]]
     IN <<c[3], c[4]>> \in Range(lists[get_connection_type(heap, c[1], c[2])])

zg_graph_remove_connection(c) ==
  /\ Call
  /\ Connected(c)
  /\ heap' = removeConnection(heap, c[1], c[2], c[3], c[4])

zg_graph_add_connection(c) ==
  /\ Call
  /\ {c[1], c[3]} \subseteq Alive(heap)
  /\ heap' = addConnection(heap, c[1], c[2], c[3], c[4])

\* an object that is described by the scenario: <<label, name>>
zg_graph_add_new_object(g, new) ==
  /\ Call
  /\ heap' = addObject(NewObject(heap, new[1], new[2], "", g, 0), g, Len(heap.objects) + 1)

Edit ==
  \/ \E g \in Roots : attach_graph(g) \/ unattach_graph(g) \/ zg_graph_delete(g)
  \/ \E o \in Alive(heap) \ Roots : zg_object_remove(o)
  \/ \E c \in Wires : zg_graph_add_connection(c) \/ zg_graph_remove_connection(c)
  \/ \E g \in Graphs(heap) \cap Alive(heap), new \in scenario.extras :
        zg_graph_add_new_object(g, new)

\* a member of an attached graph, which it still is when it was deleted with the graph
IsMember(h, o) ==
  LET home == h.objects[o].home IN
  home # NONE /\ h.graphs[home].attached /\ o \in Range(h.graphs[home].nodes)
Joined == {o \in DOMAIN heap'.objects : IsMember(heap', o)
                                         /\ (o \in DOMAIN heap.objects => ~IsMember(heap, o))}

Host == Edit /\ attachments' = attachments (+) SetToBag(Joined)

Load == zg_context_new_graph_from_file \/ execute

Next == Load \/ Host

\* reading is one call of the host: it comes to its end
Spec == Init /\ [][Next]_vars /\ WF_vars(Load)

-----------------------------------------------------------------------------
(***************************************************************************)
(* The number that a connection gives for an object is its place in the    *)
(* patch as it was drawn: boxes, subpatches, arrays and abstractions take  *)
(* their places in nodeList in the order of the file, with nothing between *)
(* them that the file does not show, where everything was found.           *)
(***************************************************************************)
IndicesAsWritten ==
  parsers = << >> /\ calls = 0 /\ ~Stopped =>
    \A g \in Graphs(heap) :
      NONE \notin Range(heap.graphs[g].written) => heap.graphs[g].nodes = heap.graphs[g].written

\* what the other end calls an inlet or an outlet: the graph's, for [inlet] and [outlet]
Position(list, let) == CHOOSE p \in DOMAIN list : list[p] = let
InletName(o, i) ==
  LET home == heap.objects[o].home IN
  IF heap.objects[o].kind \in {"inlet", "inlet~"}
    THEN <<home, Position(heap.graphs[home].inlets, o)>> ELSE <<o, i>>
OutletName(o, k) ==
  LET home == heap.objects[o].home IN
  IF heap.objects[o].kind \in {"outlet", "outlet~"}
    THEN <<home, Position(heap.graphs[home].outlets, o)>> ELSE <<o, k>>

Times(list, e) == Cardinality({j \in DOMAIN list : list[j] = e})
Boxes == {o \in Alive(heap) : ~IsGraph(heap, o)}

\* the inlet takes what the outlet sends
Matching(p, k, o) ==
  LET sends == ClassOf(heap, p).outlets[k] IN
  CASE heap.objects[o].kind = "inlet" -> sends = MESSAGE
    [] heap.objects[o].kind = "inlet~" -> sends = DSP
    [] OTHER -> sends = MESSAGE \/ ClassOf(heap, o).audio

(***************************************************************************)
(* A connection between an outlet and an inlet of its type is known to     *)
(* both of its ends, and as often at one as at the other: through the      *)
(* [inlet]s and [outlet]s of subpatches, which store it in the place of    *)
(* their graph, and whatever was connected and removed in between.  One    *)
(* that is refused because of its type is known to the sending end alone.  *)
(***************************************************************************)
BothEndsAgree ==
  ~Stopped => \A p, o \in Boxes :
    \A k \in DOMAIN heap.objects[p].outgoing, i \in DOMAIN heap.objects[o].incoming :
      LET type == ClassOf(heap, p).outlets[k] IN
      Times(heap.objects[o].incoming[i][type], OutletName(p, k)) =
        IF Matching(p, k, o) THEN Times(heap.objects[p].outgoing[k][type], InletName(o, i)) ELSE 0

(***************************************************************************)
(* An outlet sends to no object that was removed: its connections went     *)
(* with the object, also those to a subpatch as a whole.  The exception is *)
(* a connection that a graph refused because of its type.                  *)
(***************************************************************************)
NothingSentToTheDead ==
  ~Stopped => \A p \in Boxes : \A k \in DOMAIN heap.objects[p].outgoing :
    LET type == ClassOf(heap, p).outlets[k] IN
    \A e \in Range(heap.objects[p].outgoing[k][type]) :
      Accepts(heap, e[1], e[2], type) => heap.objects[e[1]].alive

Attached == {o \in Alive(heap) : heap.objects[o].home # NONE
                                   /\ heap.graphs[heap.objects[o].home].attached}
TableReaders == {"tabread", "tabwrite", "tabplay~", "tabread~", "tabread4~"}
DelayReaders == {"delread~", "vd~"}
OfKind(kinds) == {o \in Attached : heap.objects[o].kind \in kinds}
Namesakes(o, q) == NameOf(heap, o) = NameOf(heap, q)

(***************************************************************************)
(* Those who read a table or a delay line find the one of their name, and  *)
(* a catch~ hears each throw~ of its name, whichever of the two was        *)
(* attached first, in whichever graph, and after graphs were detached and  *)
(* attached again.                                                         *)
(***************************************************************************)
NamesMeet ==
  ~Stopped =>
    /\ \A r \in OfKind(TableReaders), t \in OfKind({"table"}) :
          Namesakes(r, t) => heap.objects[r].sources = <<t>>
    /\ \A r \in OfKind(DelayReaders), d \in OfKind({"delwrite~"}) :
          Namesakes(r, d) => heap.objects[r].sources = <<d>>
    /\ \A c \in OfKind({"catch~"}), t \in OfKind({"throw~"}) :
          Namesakes(c, t) => t \in Range(heap.objects[c].sources)
    /\ \A o \in Attached : \A s \in Range(heap.objects[o].sources) : Namesakes(o, s)

(***************************************************************************)
(* What an object reads is what the registries hold under its name at that *)
(* moment, the first of them or all of them in order, whatever was         *)
(* attached, detached, removed and deleted before.                         *)
(***************************************************************************)
SourcesAreRegistered ==
  ~Stopped => \A o \in Attached :
    LET sources == heap.objects[o].sources
        kind == heap.objects[o].kind
    IN  /\ kind \in TableReaders => sources = Find(heap, heap.tables, NameOf(heap, o))
        /\ kind \in DelayReaders => sources = Find(heap, heap.delay_lines, NameOf(heap, o))
        /\ kind = "catch~" => sources = OfName(heap, heap.throws, NameOf(heap, o))
        /\ kind = "receive~" => sources = Find(heap, heap.sends, NameOf(heap, o))

(***************************************************************************)
(* Of a table reader or a receive~ the registries hold one entry while it  *)
(* is in an attached graph and none afterwards, but for those that went    *)
(* with their graph: the destructor takes nothing out (graph.rs:83-86).    *)
(* Of all other kinds unregisterObject takes nothing out, though its       *)
(* caller names throw~ (graph.rs:175): there is an entry for each time the *)
(* object was attached, also when it was detached, removed or deleted      *)
(* since, and a throw~ that was attached twice is heard twice.             *)
(***************************************************************************)
EntriesAsAttached ==
  ~Stopped => \A o \in DOMAIN heap.objects :
    LET kind == heap.objects[o].kind
        Present == IF IsMember(heap, o) THEN 1 ELSE 0
        Once(list, kinds) == Times(list, o) = (IF kind \in kinds THEN Present ELSE 0)
        Kept(list, kinds) == Times(list, o) = (IF kind \in kinds THEN CopiesIn(o, attachments) ELSE 0)
    IN  /\ Once(heap.table_receivers, TableReaders) /\ Once(heap.receives, {"receive~"})
        /\ Kept(heap.tables, {"table"}) /\ Kept(heap.remotes, {"table", "receive"})
        /\ Kept(heap.delay_lines, {"delwrite~"}) /\ Kept(heap.delay_receivers, DelayReaders)
        /\ Kept(heap.throws, {"throw~"}) /\ Kept(heap.catches, {"catch~"})

(***************************************************************************)
(* A name that begins with $0 is shared by the whole of a patch or of one  *)
(* instance of an abstraction, its subpatches included, and by nobody      *)
(* else.                                                                   *)
(***************************************************************************)
PrivateNames ==
  \A o, q \in {b \in Boxes : heap.objects[b].private # ""} :
    Namesakes(o, q) <=>
      /\ heap.objects[o].private = heap.objects[q].private
      /\ InstanceOf(heap.objects[o].home) = InstanceOf(heap.objects[q].home)

(***************************************************************************)
(* An abstraction that was not found is in none of the directories that    *)
(* were declared until then in the patch around it, in any of its          *)
(* subpatches, or further out.                                             *)
(***************************************************************************)
MissingIsMissing ==
  \A m \in missing, directory \in DOMAIN scenario.files :
    directory[2] = m.label => directory[1] \notin m.where

(***************************************************************************)
(* A table holds what the lines of its array say, over several lines and   *)
(* several messages, with other objects and subpatches in between.         *)
(***************************************************************************)
TablesAsWritten ==
  parsers = << >> /\ pending = << >> =>
    \A o \in DOMAIN heap.objects :
      NameOf(heap, o) \in DOMAIN scenario.tables /\ heap.objects[o].kind = "table" =>
        heap.objects[o].buffer = scenario.tables[NameOf(heap, o)]

\* lines that take a place in a graph, and those of a file before a blank one that ends it
TakesPlace(line) ==
  line.op \in {"obj", "msg", "floatatom", "symbolatom", "text", "array", "restore"}
BeforeTheEnd(file) ==
  LET lines == IF file.open THEN Front(file.lines) ELSE file.lines
      GoesOn(n) == n < Len(lines) /\ lines[n + 1].op = "more"
      Ends == {n \in DOMAIN lines : lines[n] = Blank /\ ~GoesOn(n)}
  IN  IF Ends = {} THEN lines
      ELSE SubSeq(lines, 1, (CHOOSE n \in Ends : \A m \in Ends : n <= m) - 1)

(***************************************************************************)
(* Each line of a file takes its place in memory, up to the first blank    *)
(* line that is not continued, and nothing behind it does: half of a patch *)
(* may be lost there without a word, and always a last line without its    *)
(* line break (PdFileParser.cpp:82 and 95).                                *)
(***************************************************************************)
ReadUpToABlank ==
  parsers = << >> /\ pending = << >> /\ calls = 0 /\ ~Stopped
    /\ scenario.database = << >> /\ scenario.files = << >> =>
    LET roots == SetToSortSeq({g \in Graphs(heap) : IsRoot(heap, g)}, <)
        Places(root) == FlattenSeq([g \in DOMAIN heap.objects |->
                          IF IsGraph(heap, g) /\ InstanceOf(g) = root THEN heap.graphs[g].written
                          ELSE << >>])
    IN  /\ Len(roots) = Len(scenario.roots)
        /\ \A n \in DOMAIN roots :
             Len(Places(roots[n])) = Len(SelectSeq(BeforeTheEnd(scenario.roots[n]), TakesPlace))

(***************************************************************************)
(* The graphs are what the files say: objects in their places, tables with *)
(* their values, names private to their instance, nothing missing that a   *)
(* declared directory has, and everything up to the line that ends them.   *)
(***************************************************************************)
ReadAsWritten ==
  IndicesAsWritten /\ TablesAsWritten /\ PrivateNames /\ MissingIsMissing /\ ReadUpToABlank

(***************************************************************************)
(* The connections of all objects are those of one patch: the two ends of  *)
(* each agree, and none leads to an object that is gone.                   *)
(***************************************************************************)
ConnectionsAreWhole == BothEndsAgree /\ NothingSentToTheDead

(***************************************************************************)
(* The registries of the context hold those who were attached to it: who   *)
(* has a name meets his namesakes, reads what is registered and nothing    *)
(* else, and leaves the registries when he leaves if his kind is one that  *)
(* they let go.                                                            *)
(***************************************************************************)
RegistriesAreTrue == NamesMeet /\ SourcesAreRegistered /\ EntriesAsAttached

(***************************************************************************)
(* Every patch is read to its end, with the abstractions in it, unless the *)
(* program ends before.                                                    *)
(***************************************************************************)
EventuallyLoaded == <>(Stopped \/ (parsers = << >> /\ pending = << >>))
=============================================================================
