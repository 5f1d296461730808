\* Loss, duplication, reordering and resets; crashes in sends and receives.
CONSTANTS
  Alice = alice
  Bob = bob
  Session = {2, 3, 4, 5}
  Spare = {1, 6}
  MaxEpoch = 5
  MaxSent = 2
  MaxTime = 2
  MaxFaults = 2
SPECIFICATION Spec
INVARIANTS
  TypeOK
  NeverRewinds
  
  ExchangeConverges
PROPERTIES
  EpochsOnlyGrow
CHECK_DEADLOCK FALSE
