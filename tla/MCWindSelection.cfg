\* One grid point with calms and winds on both sides of 12 m/s, 3 m/s apart.
SPECIFICATION Spec
CONSTANTS
    Samples <- MCSamples
    NaN = NaN
    Forces = {0, 3, 10, 13}
    Members = 3
INVARIANTS
    TypeOK
    MedianUnlessCalm
    CertaintyFromAllMembers
