SPECIFICATION Spec
CONSTANTS
    Users = {u1}
    Amounts = {11}
    FeeConfigs <- MCFeeConfigs
    BRates = {97, 103, 121}
    PoolPaysZero = TRUE
    SCALAR_7 = 10
    SCALAR_12 = 100
    SECONDS_PER_YEAR = 4
    MaxTime = 2
    MaxBTokens = 22
    MaxShares = 22
INVARIANTS
    TakeRateKept
    CapRespected
    FixedRateKept
