--------------------------- MODULE MCWindSelection ---------------------------
(* Small ensembles of winds.                                                *)
EXTENDS WindSelection

CONSTANTS
    Forces,      \* in m/s
    Members      \* the largest number of members

\* In 22.5 degrees: one for each member.
Directions == {-7, 0, 8}

MCSamples ==
    UNION {[1..n -> [force : {MetrePerSecond * f : f \in Forces}, direction : Directions]] :
           n \in 1 .. Members}

=============================================================================
