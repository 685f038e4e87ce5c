SPECIFICATION FairSpec
CONSTANTS
    Users = {u1, u2}
    Amounts = {3, 40}
    FeeConfigs <- MCFeeConfigs
    BRates = {15, 20}
    PoolPaysZero = FALSE
    SCALAR_7 = 10
    SCALAR_12 = 20
    SECONDS_PER_YEAR = 4
    MaxTime = 1
    MaxBTokens = 6
    MaxShares = 5
PROPERTY
    HoldersGetOut
