-------------------------- MODULE MCSymbolSelection --------------------------
(* Small ensembles.                                                         *)
EXTENDS SymbolSelection

CONSTANTS Sizes  \* numbers of members

Half == [num |-> 1, den |-> 2]
Third == [num |-> 1, den |-> 3]
None == [num |-> 0, den |-> 1]
All == [num |-> 1, den |-> 1]

MCFractions == {Half, Third, None, All}
Default == {Half}

\* The order of the members does not matter to the counts: by code.
MCEnsembles ==
    UNION {{q \in [1..n -> Symbol] : \A i \in 1 .. n - 1 : q[i] <= q[i + 1]} : n \in Sizes}

\* Values that do not follow the order of the codes.
MCData == UNION {{[i \in 1..n |-> i * i], [i \in 1..n |-> (3 * i) % 5]} : n \in Sizes}

=============================================================================
