\* Half of the members wet, and the fraction needed is a half.
SPECIFICATION Spec
CONSTANTS
    Ensembles <- MCEnsembles
    Fractions <- Default
    Data <- MCData
    Sizes = {2}
INVARIANTS
    WetWhenFractionReached
