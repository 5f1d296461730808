\* A chat message and a control message, two retries after the first send, two
\* wakes at work at once, one restart or outage.
CONSTANTS
  m1 = m1
  m2 = m2
  r1 = r1
  r2 = r2
  Messages = {m1, m2}
  Records = {r1, r2}
  MessageOf <- MCMessageOf
  KindsOf <- MCKindsOf
  Drains = {d1, d2}
  MaxAttempts = 2
  MaxFaults = 1
  None = None
SPECIFICATION FairSpec
INVARIANTS
  TypeOK
  OneHolder
  StoppedIsGone
  NoFalseDelivered
PROPERTIES
  PendingSettles
  KeepsPromise
CHECK_DEADLOCK FALSE
