SPECIFICATION FairSpec
CONSTANTS
  a = a
  b1 = b1
  b2 = b2
  A = A
  B = B
  FromA = 2
  FromB = 1
  Devices = {a, b1}
  Accounts = {A, B}
  Owner <- OwnerVal
  Calls = {1, 2}
  Placer <- PlacerVal
  Invitee <- InviteeVal
  MaxFaults = 1
  MaxRestarts = 1
INVARIANTS
  TypeOK
  OneActiveCall
  LiveMatchesStore
  EndsMeet
PROPERTIES
  EndedIsFinal
  CallsSettle
CHECK_DEADLOCK FALSE
