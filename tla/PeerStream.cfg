\* Both channels, with restarts, clears and history requests.
CONSTANTS
  MaxEpoch = 2
  MaxSeq = 4
  Window = 2
  MaxFaults = 2
SPECIFICATION Spec
INVARIANTS
  TypeOK
  
  
  
  PublicLosesNothing
PROPERTIES
  LatchHolds
CHECK_DEADLOCK FALSE
