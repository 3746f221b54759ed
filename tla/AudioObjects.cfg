CONSTANTS
  BlockSize = 8
  SampleRate = 500
  Fine = 2
  MaxBlocks <- BlocksOf
  Math <- MCMath
  Coefficients <- MCCoefficients
  Patches <- AllPatches
SPECIFICATION Spec
CHECK_DEADLOCK FALSE
INVARIANTS EachSampleByItsMessages WrittenIsHeard RampsArrive SeamlessOverPieces
  TablesAsTheyAre ToldOfItsSamples
