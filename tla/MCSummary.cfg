SPECIFICATION Spec
CONSTANTS
    SCALAR_7 = 10000
    SCALAR_12 = 10000
    SECONDS_PER_YEAR = 2
    Reserves <- MCReserves
    ReserveConfigs <- MCReserveConfigs
    BackstopRates <- MCBackstopRates
    FeeConfigs <- MCFeeConfigs
    TestSetups <- MCTestSetups
    TestTolerance = 4
    None = None
    MaxTime = 1
INVARIANTS
    TypeOK
    EstimatesAsTested
    CurveMeetsAtKinks
PROPERTIES
    EstimateFollowsDebt
    EstimateIsEarned
