\* The sink with times every half hour.
SPECIFICATION Spec
CONSTANTS
    WeatherData <- Parameters
    Translations <- OwnVariables
    DimensionLists <- Dimensions
    FileVariables = {{}}
    Axis <- HalfHours
    Hours = {6}
    HourLength = 2
    MinuteLength = 1
    IntMax = 127
    NoDimension = "none"
INVARIANTS
    EveryWriteKept
