CONSTANTS
  Objects = {o1}
  Outlets = {0}
  AtomLists <- MCBangOnly
  MaxListSize = 2
  BlockSize = 64
  SampleRate = 32000
  Delays = {0, 1}
  None = None
  MaxTime = 3
  MaxCalls = 2
  MaxBlocks = 2
  MaxPending = 2
SPECIFICATION DspSpec
INVARIANTS AwakeWithMessages
PROPERTY BlockIsTiled
