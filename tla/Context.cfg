CONSTANTS
  Objects = {o1}
  Outlets = {0}
  AtomLists <- MCAtomLists
  MaxListSize = 3
  BlockSize = 64
  SampleRate = 32000
  Delays = {0, 1}
  None = None
  MaxTime = 4
  MaxCalls = 4
  MaxBlocks = 3
SPECIFICATION FairSpec
INVARIANTS TypeOK QueueOrdered SentWithinBlock
PROPERTIES SendsInOrder ImplementsAgenda EventuallySent
