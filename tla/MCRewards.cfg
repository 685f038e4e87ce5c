SPECIFICATION Spec
CONSTANTS
    Users = {u1, u2}
    Tokens = {t1}
    None = None
    RewardAmounts = {0, 2, 6}
    ShareAmounts = {1, 2}
    SCALAR_7 = 3
    U64_MAX = 4
    MaxTime = 3
    MaxExpiration = 4
    MaxShares = 3
    MaxBalance = 8
SYMMETRY MCSymmetry
INVARIANTS
    TypeOK
    AccountsBehindIndex
    RewardsCovered
    RewardsFunded
PROPERTIES
    RewardsEarnedOverTime
    HoldersEarnTheirPart
