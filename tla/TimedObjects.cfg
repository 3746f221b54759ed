CONSTANTS
  Metros = {m1}
  DelayObjects = {d1}
  Pipes = {p1}
  Lines = {l1}
  Loadbangs = {b1}
  Clocks = {c1}
  Patches <- MCPatches
  Levels = {0, 8}
  Intervals = {1, 2}
  Bang = Bang
  Arguments <- MCArguments
  PipeAtoms <- MCPipeAtoms
  MaxListSize = 3
  Tick = 1
  MaxCalls = 3
  MaxBlocks = 3
  MaxDepth = 2
SPECIFICATION Spec
INVARIANTS KeptAreQueued RunsWhenStarted OrderedAtRest
PROPERTY RampsWithoutJumps ImplementsAlarms
CHECK_DEADLOCK FALSE
