--------------------------- MODULE MCTimedObjects ---------------------------
(***************************************************************************)
(* A small instance of TimedObjects: a bang and a float for the pipe.  The *)
(* patches put the three that keep bangs together, and the line beside     *)
(* what starts and what interrupts it.                                     *)
(***************************************************************************)
EXTENDS TimedObjects

MCPipeAtoms == {<<Bang>>, <<1>>}
MCPatches == {Metros \cup DelayObjects \cup Pipes, Lines \cup Loadbangs \cup Clocks, Lines \cup DelayObjects}
MCArguments == [o \in Timed |-> IF o \in Metros \cup Lines THEN 1 ELSE 2]
=============================================================================
