\* Two devices, one retired key kept, one crash.
CONSTANTS
  Device = {a, b}
  MaxRetired = 1
  MaxEpoch = 3
  MaxSeq = 1
  MaxKeys = 3
  MaxFaults = 1
SPECIFICATION Spec
INVARIANTS
  TypeOK
  
  
  BundlesAreValid
PROPERTIES
  NewKeyIsUnverified
  RotationKeepsTail
SYMMETRY Symmetry
CHECK_DEADLOCK FALSE
