SPECIFICATION Spec
CONSTANTS
    Users = {u1, u2}
    Tokens = {t1, t2}
    None = None
    RewardAmounts = {0, 5}
    ShareAmounts = {1, 2}
    SCALAR_7 = 3
    U64_MAX = 6
    MaxTime = 3
    MaxExpiration = 3
    MaxShares = 2
    MaxBalance = 10
SYMMETRY MCSymmetry
INVARIANT
    RewardsCovered
