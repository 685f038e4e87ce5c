SPECIFICATION Spec
CONSTANTS
    Users = {u1}
    Amounts = {2, 6, 40}
    FeeConfigs <- MCFeeConfigs
    BRates = {15, 20, 22}
    PoolPaysZero = TRUE
    SCALAR_7 = 10
    SCALAR_12 = 20
    SECONDS_PER_YEAR = 4
    MaxTime = 2
    MaxBTokens = 8
    MaxShares = 8
INVARIANT
    FlatRateSupplemented
