SPECIFICATION Spec
CONSTANTS
  a = a
  b1 = b1
  b2 = b2
  A = A
  B = B
  FromA = 2
  FromB = 1
  Devices = {a, b1, b2}
  Accounts = {A, B}
  Owner <- OwnerVal
  Calls = {2}
  Placer <- PlacerVal
  Invitee <- InviteeVal
  MaxFaults = 0
  MaxRestarts = 1
INVARIANT EndsMeet
CHECK_DEADLOCK FALSE
