SPECIFICATION Spec
CONSTANTS
    O = O
    A = A
    M = M
    X = X
    Accounts = {O, A, M, X}
    Owner = O
    StartMembers = {O, A, M}
    StartAdmins = {A}
    Open = TRUE
    MaxMembers = 4
    Lag = 1
    MaxChanges = 2
    MaxInvites = 1
INVARIANTS
    TypeOK
    
    RemovedReturnsByKeepers
    GoesOutBySay
    NothingToAsk
PROPERTIES
    OneStatementAnEpoch
    FoldKeepsRoster
CHECK_DEADLOCK FALSE
