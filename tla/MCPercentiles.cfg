\* Every order of asking for percentiles and chances, of ensembles too small,
\* just large enough and larger than needed.
SPECIFICATION Spec
CONSTANTS
    BaseData <- MCBaseData
    Points = {1, 2}
    Limits = {1, 3}
    Middles <- MCMiddles
    Sizes = {1, 2, 5, 9, 10, 11, 51}
    Factors = {0, 1, 3, 6}
INVARIANTS
    OnlyTheLowestNeedsTen
    PercentilesSeparate
    PercentilesAgreeWithChances
    NearAgreesWithTheRest
