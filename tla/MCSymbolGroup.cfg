\* A dry symbol, and members of other dry symbols that are not near it.
SPECIFICATION Spec
CONSTANTS
    Ensembles <- MCEnsembles
    Fractions <- Default
    Data <- MCData
    Sizes = {3}
INVARIANTS
    MedianOfTheSymbolGroup
