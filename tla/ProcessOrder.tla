---------------------------- MODULE ProcessOrder ----------------------------
(***************************************************************************)
(* The order in which the audio objects of nested graphs are processed,    *)
(* and the buffers they are given on the way: get_process_order of         *)
(* DspObject, DspInlet, DspOutlet and PdGraph, and                         *)
(* compute_deep_local_process_order of PdGraph.                            *)
(*                                                                         *)
(* Connections are kept in the order of the addConnection calls; the lists *)
(* of an inlet and of an outlet are read off them.  All are audio          *)
(* connections.  Inlets and outlets are numbered from 1.                   *)
(***************************************************************************)
EXTENDS Integers, Sequences, FiniteSets, SequencesExt

CONSTANTS Plain,         \* objects that process audio: osc~, *~, dac~ ...
          Graphs, Root,  \* the graphs, and the one that is attached
          nodeList,      \* of each graph: its objects, in order
          inletList,     \* of each graph: its inlet~ objects
          outletList,    \* of each graph: its outlet~ objects
          numInlets, numOutlets,    \* of each plain object
          Candidates,    \* bound: the connections that the patch may contain
          Patches,       \* bound: the connections of the patch when it is loaded
          MaxEdits       \* bound: connections added and removed, attachments

Inlets  == UNION {Range(inletList[g]) : g \in Graphs}      \* inlet~ objects
Outlets == UNION {Range(outletList[g]) : g \in Graphs}     \* outlet~ objects
Objects == Plain \cup Inlets \cup Outlets                  \* all but the graphs

NumInlets(o)  == IF o \in Plain THEN numInlets[o] ELSE 1
NumOutlets(o) == IF o \in Plain THEN numOutlets[o] ELSE 1

GraphOf(o) == CHOOSE g \in Graphs : o \in Range(nodeList[g])

\* the buffer pool, as it is used here: counts far from the limit of unsigned
Pool == INSTANCE BufferPool WITH CountRange <- 2^16, MaxBuffers <- 0, MaxUses <- 0,
                                 buffers <- 0, uses <- 0
zeroBuffer == Pool!zeroBuffer
NULL == -1

VARIABLES connections,   \* [from, outlet, to, inlet], in the order they were made
          dsp,           \* what ordering leaves in the objects: is_ordered, the buffers of
                         \* inlets and outlets, the pool, and each graph's dspNodeList
          attached,
          ordered,       \* history: nothing was connected since the last ordering
          edits          \* history

vars == <<connections, dsp, attached, ordered, edits>>

-----------------------------------------------------------------------------
(* Connections.  To a graph is to its inlet~, from it is from its outlet~,   *)
(* but each end stores the other one as it was named.                        *)

Source(c) == IF c.from \in Graphs THEN outletList[c.from][c.outlet] ELSE c.from
Target(c) == IF c.to \in Graphs THEN inletList[c.to][c.inlet] ELSE c.to
TargetInlet(c) == IF c.to \in Graphs THEN 1 ELSE c.inlet
SourceOutlet(c) == IF c.from \in Graphs THEN 1 ELSE c.outlet

Incoming(o, i) == SelectSeq(connections, LAMBDA c : Target(c) = o /\ TargetInlet(c) = i)
Outgoing(o, k) == SelectSeq(connections, LAMBDA c : Source(c) = o /\ SourceOutlet(c) = k)

\* DspObject::is_leaf_node, and DspOutlet's
DspLeaf(o) == o \in Outlets \/ \A k \in 1..NumOutlets(o) : Outgoing(o, k) = << >>

\* PdGraph::is_leaf_node: not a leaf as soon as one of its outlets is one
is_leaf_node(o) ==
  IF o \in Graphs THEN \A k \in DOMAIN outletList[o] : ~DspLeaf(outletList[o][k])
  ELSE DspLeaf(o)

-----------------------------------------------------------------------------
(* Buffers at inlets and outlets.  An item of a process list is an object,   *)
(* a graph, or an implicit [+~~], which is only known by its three buffers.  *)

Add(in1, in2, out) == [kind |-> "+~~", in1 |-> in1, in2 |-> in2, out |-> out]
Item(o) == [kind |-> "object", object |-> o]

\* a connection from a +~~, with the buffer in place of the outlet
FromAdd(b) == [from |-> "+~~", outlet |-> b]

RECURSIVE OutletBuffer(_, _, _)
OutletBuffer(o, k, s) ==
  CASE o = "+~~"      -> k
    [] o \in Graphs   -> OutletBuffer(outletList[o][k], 1, s)
    [] o \in Plain    -> s.outlet[o][k]
    [] OTHER          -> IF s.inlet[o][1] = NULL THEN zeroBuffer ELSE s.inlet[o][1]

(***************************************************************************)
(* set_dsp_buffer_at_inlet.  An inlet~ or outlet~ reserves the buffer for  *)
(* each of its connections and hands it on to their inlets.                *)
(***************************************************************************)
RECURSIVE SetInlet(_, _, _, _)
SetInlet(o, i, b, s) ==
  LET set == [s EXCEPT !.inlet[o][i] = b]
      out == Outgoing(o, 1)
  IN IF o \in Plain THEN set
     ELSE FoldLeft(LAMBDA t, c : SetInlet(Target(c), TargetInlet(c), b, t),
                   [set EXCEPT !.pool = Pool!reserveBuffer(@, b, Len(out))], out)

ReleaseBuffer(s, b) == [s EXCEPT !.pool = Pool!releaseBuffer(@, b)]
Push(s, g, item) == [s EXCEPT !.list[g] = Append(@, item)]

-----------------------------------------------------------------------------
(***************************************************************************)
(* get_process_order.  A call returns the objects to be processed first;   *)
(* splicing those lists in the order of the calls is appending each object *)
(* to its graph's list when its own call ends.                             *)
(***************************************************************************)
RECURSIVE Order(_, _), ComputeDeep(_, _)

\* what an inlet~ is fed by is processed before its graph, in the graph around it
ListOf(o) == IF o \in Inlets THEN GraphOf(GraphOf(o)) ELSE GraphOf(o)

\* the +~~ objects for the second and later connections of an inlet
AddRight(g, right, acc) ==
  LET s == Order(right.from, acc.s)
      b1 == OutletBuffer(acc.left.from, acc.left.outlet, s)
      b2 == OutletBuffer(right.from, right.outlet, s)
      released == ReleaseBuffer(ReleaseBuffer(s, b1), b2)
      out == Pool!NextBuffer(released.pool)
  IN [s |-> Push([released EXCEPT !.pool = Pool!getBuffer(@, 1)], g, Add(b1, b2, out)),
      left |-> FromAdd(out)]

ResolveInlet(o, i, s) ==
  LET in == Incoming(o, i) IN
  IF in = << >> THEN SetInlet(o, i, zeroBuffer, s)
  ELSE LET acc == FoldLeft(LAMBDA a, c : AddRight(ListOf(o), c, a),
                           [s |-> Order(in[1].from, s), left |-> in[1]], Tail(in))
       IN SetInlet(o, i, OutletBuffer(acc.left.from, acc.left.outlet, acc.s), acc.s)

\* getBuffer for an outlet, with the number of its connections
SetOutlet(o, k, s) ==
  [s EXCEPT !.outlet[o][k] = Pool!NextBuffer(s.pool),
            !.pool = Pool!getBuffer(@, Len(Outgoing(o, k)))]

Upto(n) == [j \in 1..n |-> j]

\* mutant: an inlet's buffer is released as soon as the inlet is resolved
OrderDspReleasesEarly(o, s) ==
  IF o \in s.ordered THEN s ELSE
  LET resolved == FoldLeft(LAMBDA t, i :
                             LET u == ResolveInlet(o, i, t) IN ReleaseBuffer(u, u.inlet[o][i]),
                           [s EXCEPT !.ordered = @ \cup {o}], Upto(NumInlets(o)))
  IN IF o \in Plain
       THEN Push(FoldLeft(LAMBDA t, k : SetOutlet(o, k, t), resolved, Upto(NumOutlets(o))),
                 GraphOf(o), Item(o))
       ELSE resolved

\* DspObject::get_process_order, also called for an inlet~ from outside
OrderDsp(o, s) ==
  IF o \in s.ordered THEN s ELSE
  LET resolved == FoldLeft(LAMBDA t, i : ResolveInlet(o, i, t),
                           [s EXCEPT !.ordered = @ \cup {o}], Upto(NumInlets(o)))
      released == FoldLeft(LAMBDA t, i : ReleaseBuffer(t, t.inlet[o][i]),
                           resolved, Upto(NumInlets(o)))
  IN IF o \in Plain
       THEN Push(FoldLeft(LAMBDA t, k : SetOutlet(o, k, t), released, Upto(NumOutlets(o))),
                 GraphOf(o), Item(o))
       ELSE released

\* PdGraph::get_process_order: what feeds the inlets, then the graph's own order
OrderGraph(g, s) ==
  IF g \in s.ordered THEN s ELSE
  LET fed == FoldLeft(LAMBDA t, o : OrderDsp(o, t),
                      [s EXCEPT !.ordered = @ \cup {g}], inletList[g])
      deep == ComputeDeep(g, fed)
  IN IF deep.list[g] # << >> THEN Push(deep, GraphOf(g), Item(g)) ELSE deep

\* DspInlet::get_process_order adds nothing
Order(o, s) ==
  IF o \in Graphs THEN OrderGraph(o, s)
  ELSE IF o \in Inlets THEN s ELSE OrderDsp(o, s)

\* mutant: the flags of an earlier ordering stay
ComputeDeepKeepsFlags(g, s) ==
  FoldLeft(LAMBDA t, o : Order(o, t), [s EXCEPT !.list[g] = << >>],
           SelectSeq(nodeList[g], is_leaf_node))

(* compute_deep_local_process_order: forget the old order, then order the    *)
(* tree above each leaf.                                                     *)
ComputeDeep(g, s) ==
  FoldLeft(LAMBDA t, o : Order(o, t),
           [s EXCEPT !.ordered = @ \ Range(nodeList[g]), !.list[g] = << >>],
           SelectSeq(nodeList[g], is_leaf_node))

-----------------------------------------------------------------------------
(* One audio block: each item of the list reads its inlet buffers and writes *)
(* its outlet buffers.  What a buffer holds is the set of outlets whose      *)
(* signals are summed in it.                                                 *)

RECURSIVE Run(_, _, _)
Run(s, g, m) ==
  FoldLeft(
    LAMBDA t, item :
      IF item.kind = "+~~"
        THEN [t EXCEPT !.memory[item.out] = t.memory[item.in1] \cup t.memory[item.in2]]
      ELSE IF item.object \in Graphs THEN Run(s, item.object, t)
      ELSE LET o == item.object IN
           [memory |-> [b \in DOMAIN t.memory |->
                          IF \E k \in 1..NumOutlets(o) : s.outlet[o][k] = b
                            THEN {<<o, k>> : k \in {j \in 1..NumOutlets(o) :
                                                      s.outlet[o][j] = b}}
                            ELSE t.memory[b]],
            heard |-> [t.heard EXCEPT
                         ![o] = [i \in 1..NumInlets(o) |-> t.memory[s.inlet[o][i]]]],
            times |-> [t.times EXCEPT ![o] = @ + 1]],
    m, s.list[g])

\* before the block: silence in the zero buffer, the last block's audio elsewhere
Stale == {"stale"}

Block ==
  Run(dsp, Root,
      [memory |-> [b \in zeroBuffer..dsp.pool.total |->
                     IF b = zeroBuffer THEN {} ELSE Stale],
       heard |-> [o \in Plain |-> [i \in 1..NumInlets(o) |-> {}]],
       times |-> [o \in Plain |-> 0]])

-----------------------------------------------------------------------------
Init ==
  /\ connections \in Patches
  /\ dsp = [ordered |-> {},
            inlet |-> [o \in Objects |-> [i \in 1..NumInlets(o) |-> NULL]],
            outlet |-> [o \in Plain |-> [k \in 1..NumOutlets(o) |-> NULL]],
            pool |-> Pool!EmptyPool,
            list |-> [g \in Graphs |-> << >>]]
  /\ attached = FALSE
  /\ ordered = FALSE
  /\ edits = 0

Edit == edits < MaxEdits /\ edits' = edits + 1

\* addConnection: the call that reorders is commented out (graph.rs:447)
addConnection(c) ==
  /\ Edit
  /\ c \notin Range(connections)
  /\ connections' = Append(connections, c)
  /\ ordered' = FALSE
  /\ UNCHANGED <<dsp, attached>>

removeConnection(c) ==
  /\ Edit
  /\ c \in Range(connections)
  /\ connections' = SelectSeq(connections, LAMBDA d : d # c)
  /\ ordered' = FALSE
  /\ UNCHANGED <<dsp, attached>>

\* Context::attach_graph: attach_to_context(true), then the order of the root
attach_graph ==
  /\ Edit
  /\ ~attached
  /\ attached' = TRUE
  /\ dsp' = ComputeDeep(Root, dsp)
  /\ ordered' = TRUE
  /\ UNCHANGED connections

unattach_graph ==
  /\ Edit
  /\ attached
  /\ attached' = FALSE
  /\ UNCHANGED <<connections, dsp, ordered>>

Next ==
  \/ \E c \in Candidates : addConnection(c) \/ removeConnection(c)
  \/ attach_graph
  \/ unattach_graph

Spec == Init /\ [][Next]_vars

-----------------------------------------------------------------------------
(***************************************************************************)
(* What should be heard at an inlet: the outlets of plain objects that are *)
(* connected to it, directly or through inlet~ and outlet~.                *)
(***************************************************************************)
RECURSIVE Sources(_, _)
Sources(o, i) ==
  UNION {IF Source(c) \in Plain THEN {<<Source(c), SourceOutlet(c)>>}
         ELSE Sources(Source(c), 1) : c \in Range(Incoming(o, i))}

Hears ==
  LET block == Block IN
    \A o \in Plain : block.times[o] > 0 =>
      \A i \in 1..NumInlets(o) : block.heard[o][i] = Sources(o, i)

(***************************************************************************)
(* Every object that is processed reads, at each inlet, exactly the sum of *)
(* the signals connected to it, computed in this very block: the order,    *)
(* the +~~ objects, the passing on through inlet~ and outlet~ and the      *)
(* reuse of buffers work together, on first and on repeated ordering.      *)
(***************************************************************************)
HearsItsSources == ordered => Hears

\* what asks for an object: a leaf of a graph asks for itself, and an object for
\* what it reads from, in the root and in each graph that is asked for
RECURSIVE Demanded(_)
Demanded(o) ==
  /\ GraphOf(o) = Root \/ Demanded(GraphOf(o))
  /\ is_leaf_node(o) \/ \E c \in Range(connections) : c.from = o /\ Demanded(c.to)

(***************************************************************************)
(* An object is processed exactly once in each block when something asks   *)
(* for it, and not at all otherwise, whatever the flags that an earlier    *)
(* ordering left behind and however many paths lead to it.                 *)
(***************************************************************************)
DemandedOnce ==
  ordered => LET block == Block IN
    \A o \in Plain : block.times[o] = IF Demanded(o) THEN 1 ELSE 0
=============================================================================
