SPECIFICATION Spec
CONSTANTS
  Math <- MCMath
  Patches <- Adds
  Files <- MCFiles
  SampleRate = 44100
  SYMBOL_BUFFER_LENGTH = 8
  Forever = 5
  Drawn = {0, 1}
  MaxInputs = 3
  MaxPrinted = 80
CHECK_DEADLOCK FALSE
INVARIANT ListAdds
