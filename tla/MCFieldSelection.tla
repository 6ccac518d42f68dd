--------------------------- MODULE MCFieldSelection ---------------------------
(* Every ensemble of one point, and small grids.                            *)
EXTENDS FieldSelection

CONSTANTS Sizes  \* numbers of members

Half == [num |-> 1, den |-> 2]
Third == [num |-> 1, den |-> 3]
None == [num |-> 0, den |-> 1]
All == [num |-> 1, den |-> 1]

MCFractions == {Half, Third, None, All}

-----------------------------------------------------------------------------
(* One point.  The order of the members does not matter to the counts: by    *)
(* code, and values that do not follow the order of the codes.               *)

Rising(n) == {q \in [1..n -> Symbol] : \A k \in 1 .. n - 1 : q[k] <= q[k + 1]}

MCEnsembles == UNION {Rising(n) : n \in Sizes}

MCData == UNION {{[k \in 1..n |-> k * k], [k \in 1..n |-> (3 * k) % 5]} : n \in Sizes}

\* A collection of fields of one point.
Fields(q) == [m \in DOMAIN q |-> <<q[m]>>]

OnePoint == {Fields(q) : q \in MCEnsembles}

-----------------------------------------------------------------------------
(* Three members on two points, with codes that count for each other and     *)
(* codes that do not.                                                         *)

TwoPoints == [1..3 -> [1..2 -> {Cloud, PartlyCloud, LightRain, Drizzle}]]

MCWeathers == OnePoint \cup TwoPoints

\* Values that go down with the members at one point and up at the other.
Slanted(n, g) == [m \in 1..n |-> [k \in 1..g |-> IF k = 1 THEN 10 - m ELSE 20 * k + m]]

\* As many members and points as the codes, or more or fewer of either.
TwoPointRequests ==
    {<<Slanted(3, 2), Slanted(3, 3)>>, <<Slanted(3, 1), Slanted(3, 2)>>,
     <<Slanted(2, 2), Slanted(3, 2), Slanted(4, 2)>>}

MCRequests == {<<Fields(q)>> : q \in MCData} \cup TwoPointRequests

Shaped(n, g) == [m \in 1..n |-> [k \in 1..g |-> 0]]

MCPrecipitations ==
    {Shaped(n, 1) : n \in Sizes} \cup
    {Shaped(3, 2), Shaped(2, 2), Shaped(4, 3)}

\* On two points one thing is not as usual: the parameters or the precipitation.
MCInit ==
    /\ \/ /\ weather \in OnePoint
          /\ requests \in {<<Fields(q)>> : q \in {r \in MCData : Len(r) = Len(weather)}}
          /\ precipitation = Shaped(Len(weather), 1)
       \/ /\ weather \in TwoPoints
          /\ requests \in TwoPointRequests
          /\ precipitation = Shaped(3, 2)
          /\ precipFraction = Half
       \/ /\ weather \in TwoPoints /\ weather[1] = weather[2]
          /\ requests \in TwoPointRequests
          /\ precipitation \in {Shaped(2, 2), Shaped(3, 1), Shaped(4, 3)}
          /\ precipFraction = Half
    /\ FieldInit

MCSpec == MCInit /\ [][FieldNext]_<<fieldVars, vars>>

=============================================================================
