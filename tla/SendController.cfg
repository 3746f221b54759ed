CONSTANTS
  Receivers <- MCReceivers
  nameOf <- MCNameOf
  Names = {"a", "b", "c", "pd"}
  System = "pd"
  SendStackSize = 2
  SetSize = 3
  MaxPending = 3
SPECIFICATION Spec
INVARIANTS ArrivesUnderItsName
CHECK_DEADLOCK FALSE
