\* The whole program: command lines good and bad, files with one input missing
\* or unfit, a sink that refuses some fields, failures to open, make and write.
SPECIFICATION Spec
CONSTANTS
    CommandLines <- MCCommandLines
    SourceAxis <- Times
    HourLength = 2
    MinuteLength = 1
    SourceFiles <- MCFiles
    Unselectable = {6}
    Temps = {1}
    SourceOffsets <- MCInOffset
    Writes <- MCRejectable
    SinkTranslations <- MCTranslations
    ExtraDimensions <- MCDimensionLists
    TakenNames <- MCTakenNames
    NoDimension = "none"
    IntMax = 127
INVARIANTS
    FileHoldsTheForecast
    NoFieldMissesTheAxis
    FileOnlyAfterTheLoop
    CommandLineDecides
PROPERTIES
    SinkIsUsedAsExpected
    ProgramEnds
