\* A crash between the two saves of a restart.
CONSTANTS
  Alice = alice
  Bob = bob
  Session = {2, 3, 4, 5}
  Spare = {1, 6}
  MaxEpoch = 5
  MaxSent = 3
  MaxTime = 2
  MaxFaults = 2
SPECIFICATION RestartCrashSpec
INVARIANT NeverRewinds
CHECK_DEADLOCK FALSE
