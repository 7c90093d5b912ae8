SPECIFICATION Spec
SYMMETRY RequestSymmetry
CONSTANTS
    q1 = q1
    q2 = q2
    Requests <- TwoRequests
    TicksPerSecond = 2
    AccessLife = 3
    RefreshLife = 4
    MaxTokens = 3
    MaxTime = 5
    MaxWait = 1
    MaxLosses = 1
INVARIANTS
    TypeOK
    LogoutHolds
    NoMintAfterLogout
    SessionEnds
