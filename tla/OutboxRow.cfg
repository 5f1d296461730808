\* A message with a copy for each of two devices; no restart, no outage.
CONSTANTS
  m1 = m1
  m2 = m2
  r1 = r1
  r2 = r2
  Messages = {m1}
  Records = {r1, r2}
  MessageOf <- MCCopiesMessageOf
  KindsOf <- MCCopiesKindsOf
  Drains = {d1}
  MaxAttempts = 1
  MaxFaults = 0
  None = None
SPECIFICATION Spec
INVARIANT RowTellsDelivery
CHECK_DEADLOCK FALSE
