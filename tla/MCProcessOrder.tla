--------------------------- MODULE MCProcessOrder ---------------------------
(***************************************************************************)
(* A root graph with two sources, a mixer and a subgraph; the subgraph has *)
(* an inlet~, an outlet~ and an object between them.                       *)
(***************************************************************************)
EXTENDS ProcessOrder

MCPlain == {"osc", "noise", "times", "dac", "filter"}
MCGraphs == {"root", "sub"}
MCNodes == [root |-> <<"times", "sub", "osc", "dac", "noise">>,
            sub |-> <<"filter", "inlet", "outlet">>]
MCInlets == [root |-> << >>, sub |-> <<"inlet">>]
MCOutlets == [root |-> << >>, sub |-> <<"outlet">>]
MCNumInlets == [osc |-> 0, noise |-> 0, times |-> 2, dac |-> 1, filter |-> 2]
MCNumOutlets == [osc |-> 1, noise |-> 1, times |-> 1, dac |-> 0, filter |-> 1]

Wire(f, k, t, i) == [from |-> f, outlet |-> k, to |-> t, inlet |-> i]

MCWireList == <<Wire("osc", 1, "times", 1), Wire("noise", 1, "times", 1),
                Wire("osc", 1, "times", 2), Wire("osc", 1, "sub", 1),
                Wire("noise", 1, "sub", 1), Wire("sub", 1, "times", 2),
                Wire("times", 1, "dac", 1), Wire("sub", 1, "dac", 1),
                Wire("inlet", 1, "filter", 1), Wire("filter", 1, "outlet", 1),
                Wire("inlet", 1, "outlet", 1)>>

MCWires == Range(MCWireList)

\* nothing; everything; and the subgraph between two oscillators and the mixer
MCPatches == {<< >>, MCWireList,
              <<Wire("osc", 1, "times", 1), Wire("osc", 1, "sub", 1),
                Wire("noise", 1, "sub", 1), Wire("inlet", 1, "filter", 1),
                Wire("filter", 1, "outlet", 1), Wire("sub", 1, "times", 2),
                Wire("times", 1, "dac", 1)>>}
=============================================================================
