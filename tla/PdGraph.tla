------------------------------ MODULE PdGraph ------------------------------
(***************************************************************************)
(* The objects of a graph, their connections, and what the context knows   *)
(* of them by name: PdGraph (src/pd/graph.rs, C++), the lists of           *)
(* connections of message::Object and DspObject, and the registries of     *)
(* pd::Context.  The registries are comments in context.rs that spell out  *)
(* the calls; they are performed here.                                     *)
(*                                                                         *)
(* A heap holds the objects in the order of their creation; a graph is one *)
(* of them.  Indices are those of the code plus one.                       *)
(***************************************************************************)
EXTENDS Atoms
LOCAL INSTANCE SequencesExt
LOCAL INSTANCE FiniteSetsExt

CONSTANTS OutputChannels,         \* of the context
          DefaultBufferLength     \* DEFAULT_BUFFER_LENGTH of a table

NONE == 0

\* an audio object or not, its inlets, and what each outlet sends
Class(audio, inlets, outlets) == [audio |-> audio, inlets |-> inlets, outlets |-> outlets]
MESSAGE == "MESSAGE"
DSP == "DSP"

Classes ==
  "float" :> Class(FALSE, 2, <<MESSAGE>>) @@ "symbol" :> Class(FALSE, 2, <<MESSAGE>>) @@
  "print" :> Class(FALSE, 1, << >>) @@ "text" :> Class(FALSE, 0, << >>) @@
  "message" :> Class(FALSE, 1, <<MESSAGE>>) @@ "receive" :> Class(FALSE, 0, <<MESSAGE>>) @@
  "table" :> Class(FALSE, 0, << >>) @@ "tabread" :> Class(FALSE, 1, <<MESSAGE>>) @@
  "tabwrite" :> Class(FALSE, 2, << >>) @@ "tabplay~" :> Class(TRUE, 1, <<DSP, MESSAGE>>) @@
  "tabread4~" :> Class(TRUE, 2, <<DSP>>) @@ "tabread~" :> Class(TRUE, 2, <<DSP>>) @@
  "delwrite~" :> Class(TRUE, 1, << >>) @@ "delread~" :> Class(TRUE, 1, <<DSP>>) @@
  "vd~" :> Class(TRUE, 1, <<DSP>>) @@ "throw~" :> Class(TRUE, 1, << >>) @@
  "catch~" :> Class(TRUE, 0, <<DSP>>) @@ "send~" :> Class(TRUE, 1, << >>) @@
  "receive~" :> Class(TRUE, 1, <<DSP>>) @@ "osc~" :> Class(TRUE, 2, <<DSP>>) @@
  "dac~" :> Class(TRUE, OutputChannels, << >>) @@
  "inlet" :> Class(FALSE, 1, <<MESSAGE>>) @@ "outlet" :> Class(FALSE, 1, <<MESSAGE>>) @@
  "inlet~" :> Class(TRUE, 1, <<DSP>>) @@ "outlet~" :> Class(TRUE, 1, <<DSP>>)

Lets == {"inlet", "inlet~", "outlet", "outlet~"}

EmptyHeap ==
  [objects |-> << >>, graphs |-> << >>,
   remotes |-> << >>, tables |-> << >>, table_receivers |-> << >>,
   delay_lines |-> << >>, delay_receivers |-> << >>, throws |-> << >>,
   catches |-> << >>, sends |-> << >>, receives |-> << >>,
   global_graph_id |-> 0, panicked |-> FALSE, undefined |-> FALSE]

Panic(h) == [h EXCEPT !.panicked = TRUE]
Undefined(h) == [h EXCEPT !.undefined = TRUE]

IsGraph(h, o) == h.objects[o].kind = "graph"
ClassOf(h, o) == Classes[h.objects[o].kind]
Graphs(h) == {g \in DOMAIN h.objects : IsGraph(h, g)}
IsRoot(h, g) == h.objects[g].home = NONE
Alive(h) == {o \in DOMAIN h.objects : h.objects[o].alive}

get_num_inlets(h, o) ==
  IF IsGraph(h, o) THEN Len(h.graphs[o].inlets) ELSE ClassOf(h, o).inlets
get_num_outlets(h, o) ==
  IF IsGraph(h, o) THEN Len(h.graphs[o].outlets) ELSE Len(ClassOf(h, o).outlets)

-----------------------------------------------------------------------------
(* Connections.  An inlet or outlet of a graph is that of the [inlet] or     *)
(* [outlet] inside; each end stores the other as it was named.  An object    *)
(* keeps a list for each type (the tests of the type are comments in         *)
(* mod.rs:232 and 246, and performed here), one that is no audio object has  *)
(* none for audio.                                                           *)

Unconnected == [MESSAGE |-> << >>, DSP |-> << >>]
Keeps(h, o, type) == type = MESSAGE \/ ClassOf(h, o).audio

\* the object that stores the connections of an inlet or outlet, and where
InletOf(h, o, i) == IF IsGraph(h, o) THEN <<h.graphs[o].inlets[i], 1>> ELSE <<o, i>>
OutletOf(h, o, k) == IF IsGraph(h, o) THEN <<h.graphs[o].outlets[k], 1>> ELSE <<o, k>>

get_connection_type(h, o, k) ==
  LET end == OutletOf(h, o, k) IN ClassOf(h, end[1]).outlets[end[2]]

\* get_incoming_connections, get_outgoing_connections: both lists
Both(lists) == lists.MESSAGE \o lists.DSP
Incoming(h, o, i) == LET end == InletOf(h, o, i) IN Both(h.objects[end[1]].incoming[end[2]])
Outgoing(h, o, k) == LET end == OutletOf(h, o, k) IN Both(h.objects[end[1]].outgoing[end[2]])

\* a graph refuses a connection of another type than its [inlet] or [inlet~]
Accepts(h, to, i, type) ==
  IsGraph(h, to) => h.objects[h.graphs[to].inlets[i]].kind =
                      (IF type = DSP THEN "inlet~" ELSE "inlet")

add_connection_from_object_to_inlet(h, to, i, from, k) ==
  LET type == get_connection_type(h, from, k)
      end == InletOf(h, to, i)
  IN IF ~Accepts(h, to, i, type) \/ ~Keeps(h, end[1], type) THEN h
     ELSE [h EXCEPT !.objects[end[1]].incoming[end[2]][type] = Append(@, <<from, k>>)]

add_connection_to_object_from_outlet(h, from, k, to, i) ==
  LET end == OutletOf(h, from, k)
  IN [h EXCEPT !.objects[end[1]].outgoing[end[2]][get_connection_type(h, from, k)] =
        Append(@, <<to, i>>)]

\* mutant: only the receiving end is told
addConnectionOneEnd(h, from, k, to, i) ==
  IF k > get_num_outlets(h, from) \/ i > get_num_inlets(h, to) THEN h
  ELSE add_connection_from_object_to_inlet(h, to, i, from, k)

addConnection(h, from, k, to, i) ==
  IF k > get_num_outlets(h, from) \/ i > get_num_inlets(h, to) THEN h
  ELSE add_connection_to_object_from_outlet(
         add_connection_from_object_to_inlet(h, to, i, from, k), from, k, to, i)

\* connection::List::remove: the last connection takes the place of the first equal one
SwapRemoved(list, entry) ==
  LET pos == CHOOSE p \in DOMAIN list : list[p] = entry /\ \A q \in 1..p - 1 : list[q] # entry
  IN Front([list EXCEPT ![pos] = Last(list)])

\* of an audio list all that are equal go; a message connection must be there
Unstored(h, end, side, type, entry) ==
  LET list == h.objects[end[1]][side][end[2]][type] IN
  IF ~Keeps(h, end[1], type) THEN h
  ELSE IF type = DSP
    THEN [h EXCEPT !.objects[end[1]][side][end[2]].DSP = SelectSeq(@, LAMBDA e : e # entry)]
  ELSE IF entry \notin Range(list) THEN Panic(h)
  ELSE [h EXCEPT !.objects[end[1]][side][end[2]].MESSAGE = SwapRemoved(@, entry)]

\* what a graph refused is still sent to: a call on one that was deleted is not defined
removeConnection(h, from, k, to, i) ==
  LET type == get_connection_type(h, from, k)
      heard == Unstored(h, InletOf(h, to, i), "incoming", type, <<from, k>>)
  IN IF ~h.objects[from].alive \/ ~h.objects[to].alive THEN Undefined(h)
     ELSE Unstored(heard, OutletOf(h, from, k), "outgoing", type, <<to, i>>)

-----------------------------------------------------------------------------
(* Registries.  Those who read a table or a delay line, a receive~ and a     *)
(* catch~ hold pointers to what they read: their sources.                    *)

NameOf(h, o) == h.objects[o].name
OfName(h, list, name) == SelectSeq(list, LAMBDA o : NameOf(h, o) = name)

\* get_table, get_delay_line, get_dsp_catch, get_dsp_send: the first of that name
Find(h, list, name) ==
  LET found == OfName(h, list, name) IN IF found = << >> THEN << >> ELSE <<Head(found)>>

SetSources(h, receivers, sources) ==
  FoldLeft(LAMBDA a, o : [a EXCEPT !.objects[o].sources = sources], h, receivers)

Tell(h, list, o, sources) == SetSources(h, OfName(h, list, NameOf(h, o)), sources)

\* mutant: those who were there before are not told
RegisterTableSilently(h, o) ==
  IF Find(h, h.tables, NameOf(h, o)) # << >> THEN Panic(h)
  ELSE [h EXCEPT !.tables = Append(@, o)]

register_table(h, o) ==
  IF Find(h, h.tables, NameOf(h, o)) # << >> THEN Panic(h)
  ELSE Tell([h EXCEPT !.tables = Append(@, o)], h.table_receivers, o, <<o>>)

register_table_receiver(h, o) ==
  SetSources([h EXCEPT !.table_receivers = Append(@, o)], <<o>>, Find(h, h.tables, NameOf(h, o)))

register_delay_line(h, o) ==
  IF Find(h, h.delay_lines, NameOf(h, o)) # << >> THEN Panic(h)
  ELSE Tell([h EXCEPT !.delay_lines = Append(@, o)], h.delay_receivers, o, <<o>>)

register_delay_receiver(h, o) ==
  SetSources([h EXCEPT !.delay_receivers = Append(@, o)], <<o>>,
             Find(h, h.delay_lines, NameOf(h, o)))

\* add_throw looks for no duplicates
register_dsp_throw(h, o) ==
  LET catch == Find(h, h.catches, NameOf(h, o))
      listed == [h EXCEPT !.throws = Append(@, o)]
  IN IF catch = << >> THEN listed
     ELSE [listed EXCEPT !.objects[catch[1]].sources = Append(@, o)]

register_dsp_catch(h, o) ==
  IF Find(h, h.catches, NameOf(h, o)) # << >> THEN Panic(h)
  ELSE SetSources([h EXCEPT !.catches = Append(@, o)], <<o>>,
                  OfName(h, h.throws, NameOf(h, o)))

\* the test is the wrong way round: a name that is new is a duplicate
register_dsp_send(h, o) ==
  IF Find(h, h.sends, NameOf(h, o)) = << >> THEN Panic(h)
  ELSE Tell([h EXCEPT !.sends = Append(@, o)], h.receives, o, <<o>>)

register_dsp_receive(h, o) ==
  LET send == Find(h, h.sends, NameOf(h, o))
      listed == [h EXCEPT !.receives = Append(@, o)]
  IN IF send = << >> THEN listed ELSE SetSources(listed, <<o>>, send)

register_remote_message_receiver(h, o) == [h EXCEPT !.remotes = Append(@, o)]

registerObject(h, o) ==
  LET kind == h.objects[o].kind IN
  CASE kind = "receive" -> register_remote_message_receiver(h, o)
    [] kind = "table" -> register_table(register_remote_message_receiver(h, o), o)
    [] kind \in {"tabread", "tabwrite", "tabplay~", "tabread~", "tabread4~"} ->
         register_table_receiver(h, o)
    [] kind = "catch~" -> register_dsp_catch(h, o)
    [] kind = "throw~" -> register_dsp_throw(h, o)
    [] kind \in {"delread~", "vd~"} -> register_delay_receiver(h, o)
    [] kind = "delwrite~" -> register_delay_line(h, o)
    [] kind = "send~" -> register_dsp_send(h, o)
    [] kind = "receive~" -> register_dsp_receive(h, o)
    [] OTHER -> h

Without(list, o) == SelectSeq(list, LAMBDA p : p # o)

\* Set::erase is unimplemented
unregister_remote_message_receiver(h, o) ==
  IF OfName(h, h.remotes, NameOf(h, o)) = << >> THEN h ELSE Panic(h)

unregister_table_receiver(h, o) ==
  SetSources([h EXCEPT !.table_receivers = Without(@, o)], <<o>>, << >>)

unregister_dsp_send(h, o) ==
  Tell([h EXCEPT !.sends = Without(@, o)], h.receives, o, << >>)

unregister_dsp_receive(h, o) ==
  SetSources([h EXCEPT !.receives = Without(@, o)], <<o>>, << >>)

\* a table, a delay line and its readers, a throw~ and a catch~ stay
unregisterObject(h, o) ==
  LET kind == h.objects[o].kind IN
  CASE kind = "receive" -> unregister_remote_message_receiver(h, o)
    [] kind \in {"tabread", "tabwrite", "tabplay~", "tabread~", "tabread4~"} ->
         unregister_table_receiver(h, o)
    [] kind = "send~" -> unregister_dsp_send(h, o)
    [] kind = "receive~" -> unregister_dsp_receive(h, o)
    [] OTHER -> h

-----------------------------------------------------------------------------
(* Objects of a graph.                                                       *)

\* the object that comes next, which no list holds yet
NewObject(h, kind, name, private, home, x) ==
  [h EXCEPT !.objects = Append(@,
     [kind |-> kind, name |-> name, private |-> private, home |-> home, x |-> x,
      alive |-> TRUE, sources |-> << >>,
      buffer |-> IF kind = "table" /\ name # "" THEN [j \in 1..DefaultBufferLength |-> 0]
                 ELSE << >>,
      incoming |-> [i \in 1..Classes[kind].inlets |-> Unconnected],
      outgoing |-> [k \in 1..Len(Classes[kind].outlets) |-> Unconnected]])]

\* addLetObjectToLetList, with the coordinate of the graph itself, which is 0
AddLet(h, list, let) ==
  LET Later == {p \in DOMAIN list : h.objects[list[p]].x > 0}
      pos == IF Later = {} THEN Len(list) + 1 ELSE CHOOSE p \in Later : \A q \in Later : p <= q
  IN InsertAt(list, pos, let)

\* mutant: an inlet or outlet is listed as such only
addObjectLetsApart(h, g, o) ==
  CASE h.objects[o].kind \in {"inlet", "inlet~"} ->
         [h EXCEPT !.graphs[g].inlets = AddLet(h, @, o)]
    [] h.objects[o].kind \in {"outlet", "outlet~"} ->
         [h EXCEPT !.graphs[g].outlets = AddLet(h, @, o)]
    [] OTHER -> LET listed == [h EXCEPT !.graphs[g].nodes = Append(@, o)]
                IN IF h.graphs[g].attached THEN registerObject(listed, o) ELSE listed

addObject(h, g, o) ==
  LET listed == [h EXCEPT !.graphs[g].nodes = Append(@, o)] IN
  CASE h.objects[o].kind \in {"inlet", "inlet~"} ->
         [listed EXCEPT !.graphs[g].inlets = AddLet(h, @, o)]
    [] h.objects[o].kind \in {"outlet", "outlet~"} ->
         [listed EXCEPT !.graphs[g].outlets = AddLet(h, @, o)]
    [] OTHER -> IF h.graphs[g].attached THEN registerObject(listed, o) ELSE listed

\* each connection of the object, one after the other, as the lists stand at each inlet
Disconnected(h, o) ==
  LET AtInlet(a, i) == FoldLeft(LAMBDA b, c : removeConnection(b, c[1], c[2], o, i), a,
                                Incoming(a, o, i))
      AtOutlet(a, k) == FoldLeft(LAMBDA b, c : removeConnection(b, o, k, c[1], c[2]), a,
                                 Outgoing(a, o, k))
      inlets == FoldLeft(AtInlet, h, [i \in 1..get_num_inlets(h, o) |-> i])
  IN FoldLeft(AtOutlet, inlets, [k \in 1..get_num_outlets(h, o) |-> k])

\* the destructor of a graph deletes its objects and registers nothing out
RECURSIVE Contents(_, _)
Contents(h, o) ==
  IF ~IsGraph(h, o) THEN {o}
  ELSE {o} \cup UNION {Contents(h, p) : p \in Range(h.graphs[o].nodes)}

Delete(h, o) ==
  FoldSet(LAMBDA p, a : [a EXCEPT !.objects[p].alive = FALSE], h, Contents(h, o))

removeObject(h, o) ==
  LET free == Disconnected(h, o)
      unlisted == [free EXCEPT !.graphs[h.objects[o].home].nodes = Without(@, o)]
  IN Delete(unregisterObject(unlisted, o), o)

(* attach_to_context: object by object, a subgraph where it stands.          *)
RECURSIVE attach_to_context(_, _, _)
attach_to_context(h, g, isAttached) ==
  LET Attach(a, o) ==
        LET registered == IF isAttached THEN registerObject(a, o) ELSE unregisterObject(a, o)
        IN IF IsGraph(a, o) THEN attach_to_context(registered, o, isAttached) ELSE registered
  IN IF h.graphs[g].attached = isAttached THEN h
     ELSE FoldLeft(Attach, [h EXCEPT !.graphs[g].attached = isAttached], h.graphs[g].nodes)

-----------------------------------------------------------------------------
(* Graphs and the directories they search.  A path is <<full, names>>, a     *)
(* directory the names of a full path.                                       *)

\* a graph of its own id, or a subpatch with the id of the graph around it
NewGraph(h, parent, arguments, id, subpatch) ==
  LET g == Len(h.objects) + 1
      made == [h EXCEPT !.objects = Append(@,
                 [kind |-> "graph", name |-> "", private |-> FALSE, home |-> parent, x |-> 0,
                  alive |-> TRUE, sources |-> << >>, buffer |-> << >>,
                  incoming |-> << >>, outgoing |-> << >>])]
  IN [made EXCEPT !.graphs = @ @@
        (g :> [nodes |-> << >>, inlets |-> << >>, outlets |-> << >>, attached |-> FALSE,
               arguments |-> <<Float(id)>> \o arguments, id |-> id, subpatch |-> subpatch,
               directories |-> << >>, written |-> << >>, declared |-> {}, wires |-> {}])]

get_next_graph_id(h) == [h EXCEPT !.global_graph_id = @ + 1]

\* DeclareList::addPath; a relative path is put behind the first of the list
addPath(h, g, path) ==
  LET list == h.graphs[g].directories IN
  IF path[1] THEN [h EXCEPT !.graphs[g].directories = Append(@, path[2])]
  ELSE IF list = << >> THEN Undefined(h)
  ELSE [h EXCEPT !.graphs[g].directories = Append(@, list[1] \o path[2])]

RECURSIVE addDeclarePath(_, _, _)
addDeclarePath(h, g, path) ==
  IF ~IsRoot(h, g) /\ h.graphs[g].id = h.graphs[h.objects[g].home].id
    THEN addDeclarePath(h, h.objects[g].home, path)
  ELSE addPath(h, g, path)

\* the first directory that holds the file; files is the set of <<directory, label>>
RECURSIVE findFilePath(_, _, _, _)
findFilePath(h, g, files, label) ==
  LET found == SelectSeq(h.graphs[g].directories, LAMBDA d : <<d, label>> \in files)
  IN IF found # << >> THEN <<Head(found)>>
     ELSE IF IsRoot(h, g) THEN << >>
     ELSE findFilePath(h, h.objects[g].home, files, label)
=============================================================================
