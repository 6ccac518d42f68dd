\* The symbol, certainty and values of one point, for every ensemble of up to
\* five members and fractions inside and at the ends of their range, and of two
\* points, with parameters that have fewer or more members or points.
SPECIFICATION MCSpec
CONSTANTS
    Ensembles <- MCEnsembles
    Fractions <- MCFractions
    Data <- MCData
    Weathers <- MCWeathers
    Precipitations <- MCPrecipitations
    Requests <- MCRequests
    Sizes = {1, 2, 3, 4, 5}
INVARIANTS
    FieldTypeOK
    MostFrequentOfItsClass
    EveryEnsembleGetsASymbol
    CertaintyOfItsClass
    ValueOfTheSelectedWeather
    FieldsBelongTogether
    WholeFieldsOnly
