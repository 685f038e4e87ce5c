SPECIFICATION Spec
CONSTANTS
    Users = {u1, u2}
    Tokens = {t1}
    None = None
    RewardAmounts = {0, 5, 8}
    ShareAmounts = {1, 2}
    SCALAR_7 = 3
    U64_MAX = 6
    MaxTime = 3
    MaxExpiration = 4
    MaxShares = 3
    MaxBalance = 13
SYMMETRY MCSymmetry
PROPERTY
    NothingForTheGap
