\* A new key is installed on both sides, and the chat stays open.
CONSTANTS
  Device = {a, b}
  MaxRetired = 1
  MaxEpoch = 3
  MaxSeq = 1
  MaxKeys = 3
  MaxFaults = 1
SPECIFICATION Spec
INVARIANTS
  CurrentIsTaken
SYMMETRY Symmetry
CHECK_DEADLOCK FALSE
