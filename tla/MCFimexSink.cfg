\* The sink from its constructor to the file, with one thing out of the ordinary
\* in the parameter file or the source, and ends before, at and after times.
SPECIFICATION MCSpec
CONSTANTS
    WeatherData <- Parameters
    Translations <- MCTranslations
    DimensionLists <- MCDimensionLists
    FileVariables = {{}}
    Axis <- Times
    Hours = {0, 6, 10, 20}
    HourLength = 2
    MinuteLength = 1
    IntMax = 127
    NoDimension = "none"
    Documents <- MCDocuments
    Sources <- MCSources
    Garbage <- MCGarbage
INVARIANTS
    SinkTypeOK
    EveryWriteKept
    FileHoldsExactlyTheWrites
    SinkStartsAsAssumed
    HorizonRespectedIfCounted
    EveryVariableKeepsItsSource
