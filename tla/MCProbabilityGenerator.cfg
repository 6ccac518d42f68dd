\* The generation loop with any two things out of the ordinary at once: options,
\* axis, number of members, inputs, symbols that cannot be selected, the sink.
SPECIFICATION MCSpec
CONSTANTS
    MaxTroubles = 2
    Excluded <- ExcludeAtMostOne
    Axes <- MCAxes
    Files <- MCFiles
    Configurations <- MCConfigurations
    InOffset <- MCOffset
    Rejectable <- Refusable
    Unselectable = {12}
    Temps = {1, 2}
INVARIANTS
    TypeOK
    NothingFromUnfinishedSteps
    TemperatureBetweenMinAndMax
PROPERTIES
    EveryDueTimeIsSettled
    DeliversEveryProduct
