SPECIFICATION Spec
CONSTANTS
  Math <- MCMath
  Patches <- MCPatches
  Files <- MCFiles
  SampleRate = 44100
  SYMBOL_BUFFER_LENGTH = 8
  Forever = 5
  Drawn = {0, 1}
  MaxInputs = 3
  MaxPrinted = 80
INVARIANTS SendsInTurn NumbersAgree ListsArriveWhole ReadsWhatWasWritten
PROPERTY EventuallyAtRest
CHECK_DEADLOCK FALSE
