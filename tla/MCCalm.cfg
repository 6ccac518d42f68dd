\* Two members, one or both of them calm.
SPECIFICATION Spec
CONSTANTS
    Samples <- MCSamples
    NaN = NaN
    Forces = {0, 3}
    Members = 2
INVARIANTS
    SelectsAWind
