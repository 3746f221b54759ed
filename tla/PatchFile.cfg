CONSTANTS
  OutputChannels = 2
  DefaultBufferLength = 4
  Scenarios <- MCScenarios
  MaxCalls = 4
SPECIFICATION Spec
CHECK_DEADLOCK FALSE
PROPERTY EventuallyLoaded
INVARIANTS TypeOK ReadAsWritten ConnectionsAreWhole RegistriesAreTrue
