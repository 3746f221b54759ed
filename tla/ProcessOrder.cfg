CONSTANTS
  Plain <- MCPlain
  Graphs <- MCGraphs
  Root = "root"
  nodeList <- MCNodes
  inletList <- MCInlets
  outletList <- MCOutlets
  numInlets <- MCNumInlets
  numOutlets <- MCNumOutlets
  Candidates <- MCWires
  Patches <- MCPatches
  MaxEdits = 5
SPECIFICATION Spec
INVARIANTS HearsItsSources DemandedOnce
CHECK_DEADLOCK FALSE
