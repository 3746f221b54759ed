CONSTANTS
  CountRange = 4
  MaxBuffers = 4
  MaxUses = 2
SPECIFICATION Spec
INVARIANTS TypeOK NextIsUnused EachInOnePlace
PROPERTY ReturnedWithLastUse
