\* Two requests that share a kind, of one caller or of two; both lanes.
CONSTANTS
  a = a
  b = b
  Audio = Audio
  Camera = Camera
  Request = {1, 2}
  Caller = {a, b}
  Setups <- MCSetups
SPECIFICATION FairSpec
INVARIANTS
  TypeOK
  OpensInTurn
PROPERTY LetGoIsFree
CHECK_DEADLOCK FALSE
