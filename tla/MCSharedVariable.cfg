\* The sink with the cloud cover and its percentiles in one variable, as in the
\* default parameter file.
SPECIFICATION Spec
CONSTANTS
    WeatherData <- Parameters
    Translations <- OneVariable
    DimensionLists <- Dimensions
    FileVariables = {{}}
    Axis <- Times
    Hours = {20}
    HourLength = 2
    MinuteLength = 1
    IntMax = 127
    NoDimension = "none"
INVARIANTS
    EveryWriteKept
