\* The sink when the number of hours is not given and becomes the largest int.
SPECIFICATION Spec
CONSTANTS
    WeatherData <- Parameters
    Translations <- OwnVariables
    DimensionLists <- Dimensions
    FileVariables = {{}}
    Axis <- Times
    Hours = {127}
    HourLength = 2
    MinuteLength = 1
    IntMax = 127
    NoDimension = "none"
INVARIANTS
    HorizonRespected
