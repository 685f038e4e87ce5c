SPECIFICATION ContractSpec
CONSTANTS
    Users = {u1, u2}
    Amounts = {2, 40}
    FeeConfigs <- MCFeeConfigs
    BRates = {20, 22}
    PoolPaysZero = TRUE
    SCALAR_7 = 10
    SCALAR_12 = 20
    SECONDS_PER_YEAR = 4
    MaxTime = 1
    MaxBTokens = 2
    MaxShares = 2
    Tokens = {t1, t2}
    RoleHolders = {a1, a2}
    PoolAddress = pool1
    None = None
    Signatures <- MCSignatures
    RewardAmounts = {2}
    U64_MAX = 6
    MaxExpiration = 2
    MaxBalance = 2
VIEW MCView
SYMMETRY MCSymmetry
PROPERTIES
    ImplementsRewards
    NothingWithoutConsent
    EventsTellTheLedger
