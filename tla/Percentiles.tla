----------------------------- MODULE Percentiles -----------------------------
(***************************************************************************)
(* BasicPercentileGenerator: percentiles of an ensemble, point by point,    *)
(* read from a copy that is sorted across the members when the first one is *)
(* asked for, the chance of exceeding a limit, counted in the original, and *)
(* the chance of being near the selected temperature, which the generator   *)
(* of temperatures, a kind of it, counts there too. The generators ask for  *)
(* them in their own orders, and the results end up in one file.            *)
(*                                                                          *)
(* A chance is a number of members; values are whole numbers, and what is   *)
(* compared with the mean of two of them is counted in halves.              *)
(***************************************************************************)
EXTENDS Integers, Sequences, FiniteSets

CONSTANTS
    BaseData,  \* the ensembles a generator may be made for: members' fields
    Points,    \* grid points
    Limits,    \* limits whose exceeding is asked for
    Middles    \* pairs of members that may be the middle ones of those whose
               \* symbol is the selected one; a member twice for an odd number

Percentile == {10, 25, 50, 75, 90}
Deviation == {3, 5}  \* in halves: 1.5 and 2.5 degrees

\* A grid has points; a field without any would not be told from OutOfRange.
ASSUME PointsAssumption == Points # {}
ASSUME BaseDataAssumption == BaseData \subseteq Seq([Points -> Int]) \ {<< >>}
ASSUME LimitsAssumption == Limits \subseteq Int
ASSUME MiddlesAssumption ==
    /\ Middles \subseteq (Nat \ {0}) \X (Nat \ {0})
    /\ <<1, 1>> \in Middles

VARIABLES
    baseData_,
    sortedData_,  \* empty until it is needed
    temperature_, \* the selected value of every point, in halves
    percentiles,  \* history: results of the getters called so far
    chances,      \* history: results of probabilityOfValueAbove so far
    near          \* history: results of getTemperatureDeviationProbability

vars == <<baseData_, sortedData_, temperature_, percentiles, chances, near>>

Size == Len(baseData_)
OutOfRange == << >>  \* no field: std::out_of_range is thrown

-----------------------------------------------------------------------------
\* A member whose value is the k-th, from one, at a point.
Ranked(data, k, g) ==
    CHOOSE m \in DOMAIN data :
        /\ Cardinality({i \in DOMAIN data : data[i][g] < data[m][g]}) < k
        /\ Cardinality({i \in DOMAIN data : data[i][g] <= data[m][g]}) >= k

\* Bug variant of Sorted: every member by itself, its points in order.
SortedWithinMembers(data) ==
    [k \in DOMAIN data |->
        [g \in Points |->
            CHOOSE v \in {data[k][h] : h \in Points} :
                /\ Cardinality({h \in Points : data[k][h] < v}) < g
                /\ Cardinality({h \in Points : data[k][h] <= v}) >= g]]

\* algorithm::sort: the members in order, at every point by itself.
Sorted(data) ==
    [k \in DOMAIN data |-> [g \in Points |-> data[Ranked(data, k, g)][g]]]

\* Bug variant of Index: the members are numbered from one.
IndexFromOne(p) == (Size * p) \div 100 + 1

\* The index each getter computes, from zero; the first is one lower and, being
\* unsigned, out of range when there is nothing to take one from.
Index(p) == IF p = 10 THEN Size \div 10 - 1 ELSE (Size * p) \div 100

\* std::vector::at
At(data, i) == IF i \in 0 .. Len(data) - 1 THEN data[i + 1] ELSE OutOfRange

Add(f, k, v) == [x \in DOMAIN f \cup {k} |-> IF x = k THEN v ELSE f[x]]

Init ==
    /\ baseData_ \in BaseData
    /\ sortedData_ = << >>
    /\ percentiles = [p \in {} |-> OutOfRange]
    /\ \E middle \in [Points -> {m \in Middles : {m[1], m[2]} \subseteq DOMAIN baseData_}] :
          temperature_ = [g \in Points |->
              baseData_[middle[g][1]][g] + baseData_[middle[g][2]][g]]
    /\ chances = [v \in {} |-> 0]
    /\ near = [d \in {} |-> 0]

\* Sorts a copy the first time.
getSortedData_ ==
    /\ sortedData_' = IF sortedData_ = << >> THEN Sorted(baseData_) ELSE sortedData_
    /\ UNCHANGED baseData_

\* get10Percentile and its like.
getPercentile(p) ==
    /\ getSortedData_
    /\ percentiles' = Add(percentiles, p, At(sortedData_', Index(p)))
    /\ UNCHANGED <<temperature_, chances, near>>

\* Bug variant of chanceOfValueAbove: reaching the limit is enough.
ChanceOfReaching(g, limit) == Cardinality({m \in DOMAIN baseData_ : baseData_[m][g] >= limit})

chanceOfValueAbove(g, limit) ==
    Cardinality({m \in DOMAIN baseData_ : baseData_[m][g] > limit})

probabilityOfValueAbove(limit) ==
    /\ chances' = Add(chances, limit, [g \in Points |-> chanceOfValueAbove(g, limit)])
    /\ UNCHANGED <<baseData_, sortedData_, temperature_, percentiles, near>>

\* Bug variant of nearCount: a member at the deviation itself does not count.
NearCountWithin(g, deviation) ==
    LET t == temperature_[g]
    IN  Cardinality({m \in DOMAIN baseData_ :
            2 * baseData_[m][g] \in t - deviation + 1 .. t + deviation - 1})

nearCount(g, deviation) ==
    LET t == temperature_[g]
    IN  Cardinality({m \in DOMAIN baseData_ :
            2 * baseData_[m][g] \in t - deviation .. t + deviation})

getTemperatureDeviationProbability(deviation) ==
    /\ near' = Add(near, deviation, [g \in Points |-> nearCount(g, deviation)])
    /\ UNCHANGED <<baseData_, sortedData_, temperature_, percentiles, chances>>

Next == \/ \E p \in Percentile : getPercentile(p)
        \/ \E v \in Limits : probabilityOfValueAbove(v)
        \/ \E d \in Deviation : getTemperatureDeviationProbability(d)

Spec == Init /\ [][Next]_vars

-----------------------------------------------------------------------------
(* Properties *)

Returned == {p \in DOMAIN percentiles : percentiles[p] # OutOfRange}

\* INVARIANT: a getter fails only for the 10 percentile, of an ensemble with
\* less than ten members.
OnlyTheLowestNeedsTen ==
    \A p \in DOMAIN percentiles :
        percentiles[p] = OutOfRange <=> p = 10 /\ Size < 10

\* INVARIANT: at every point the percentiles do not fall as they go up, and
\* each is a value of the point's own members that separates the share of
\* members it is named for.
PercentilesSeparate ==
    \A p \in Returned, g \in Points :
        LET below == {m \in DOMAIN baseData_ : baseData_[m][g] < percentiles[p][g]}
            above == {m \in DOMAIN baseData_ : baseData_[m][g] > percentiles[p][g]}
        IN  /\ Cardinality(below) + Cardinality(above) < Size
            /\ 100 * Cardinality(below) <= p * Size
            /\ 100 * Cardinality(above) < (100 - p) * Size + 100
            /\ \A q \in Returned : p < q => percentiles[p][g] <= percentiles[q][g]

\* INVARIANT: percentiles and chances, taken from different copies of the data,
\* do not contradict each other: where a percentile exceeds a limit, at least
\* the share of members above the percentile exceeds it, and where it does not,
\* at most as many as can be above it.
PercentilesAgreeWithChances ==
    \A p \in Returned, v \in DOMAIN chances, g \in Points :
        IF percentiles[p][g] > v
        THEN 100 * chances[v][g] >= (100 - p) * Size
        ELSE 100 * chances[v][g] < (100 - p) * Size + 100

\* INVARIANT: the certainty of the temperature does not contradict the
\* percentiles and chances in the same file: if two percentiles are near the
\* temperature, so are more members than the share between the two; and the
\* near members all exceed a limit far below it, none a limit far above it.
NearAgreesWithTheRest ==
    \A d \in DOMAIN near, g \in Points :
        LET t == temperature_[g]
            IsNear(p) == 2 * percentiles[p][g] \in t - d .. t + d
        IN  /\ \A p, q \in Returned :
                  p < q /\ IsNear(p) /\ IsNear(q) => 100 * near[d][g] > (q - p) * Size
            /\ \A v \in DOMAIN chances :
                  /\ 2 * v < t - d => near[d][g] <= chances[v][g]
                  /\ 2 * v >= t + d => near[d][g] <= Size - chances[v][g]

=============================================================================
