-------------------------- MODULE PercentilesProofs --------------------------
(* Proofs about percentiles, chances and certainties, for ensembles of every *)
(* size with any values, and every order in which they are asked for.        *)
EXTENDS Percentiles, OrderStatistics

-----------------------------------------------------------------------------
(* Arithmetic of the indices *)

\* Rounding down takes off less than one; the 10 percentile is one lower.
LEMMA IndexBounds ==
    ASSUME Size \in Nat \ {0}, NEW p \in Percentile
    PROVE  /\ Index(p) \in Int
           /\ 100 * Index(p) <= p * Size
           /\ 100 * Index(p) > p * Size - (IF p = 10 THEN 200 ELSE 100)
           /\ p = 10 => Index(p) = (Size \div 10) - 1
<1> DEFINE n == Size
<1>1. n \in Nat /\ n > 0
  OBVIOUS
<1> HIDE DEF n
<1>2. CASE p = 10
  <2>1. Index(p) = n \div 10 - 1
    BY <1>2 DEF Index, n
  <2>2. n \div 10 \in Int /\ 10 * (n \div 10) <= n /\ 10 * (n \div 10) > n - 10
    BY <1>1
  <2> QED
    BY <1>1, <1>2, <2>1, <2>2 DEF n
<1>3. CASE p # 10
  <2> DEFINE t == n * p
  <2>1. Index(p) = t \div 100 /\ p \in Nat /\ t \in Nat
    BY <1>1, <1>3 DEF Index, n, Percentile
  <2>2. p * n = t
    BY <1>1, <2>1
  <2> HIDE DEF t
  <2>3. t \div 100 \in Int /\ 100 * (t \div 100) <= t /\ 100 * (t \div 100) > t - 100
    BY <2>1
  <2> QED
    BY <1>1, <1>3, <2>1, <2>2, <2>3 DEF n
<1> QED
  BY <1>2, <1>3

\* A getter finds its member in every ensemble, except that one of less than
\* ten members has no 10 percentile.
LEMMA IndexInside ==
    ASSUME Size \in Nat \ {0}, NEW p \in Percentile
    PROVE  Index(p) \in 0 .. Size - 1 <=> ~(p = 10 /\ Size < 10)
<1> DEFINE n == Size
<1>1. n \in Nat /\ n > 0
  OBVIOUS
<1> HIDE DEF n
<1>2. CASE p = 10
  <2>1. Index(p) = n \div 10 - 1
    BY <1>2 DEF Index, n
  <2>2. n \div 10 - 1 \in 0 .. n - 1 <=> ~(n < 10)
    BY <1>1
  <2> QED
    BY <1>2, <2>1, <2>2 DEF n
<1>3. CASE p # 10
  <2>1. Index(p) = (n * p) \div 100 /\ p \in {25, 50, 75, 90}
    BY <1>3 DEF Index, n, Percentile
  <2>2. \A q \in {25, 50, 75, 90} : (n * q) \div 100 \in 0 .. n - 1
    BY <1>1
  <2> QED
    BY <1>1, <1>3, <2>1, <2>2 DEF n
<1> QED
  BY <1>2, <1>3

LEMMA IndexRises ==
    ASSUME Size \in Nat \ {0}, NEW p \in Percentile, NEW q \in Percentile, p < q
    PROVE  Index(p) <= Index(q)
<1> DEFINE n == Size
           I == Index(p)
           J == Index(q)
<1>1. /\ I \in Int /\ J \in Int /\ n \in Nat /\ n > 0
      /\ 100 * I <= p * n /\ 100 * J > q * n - 100
  BY IndexBounds DEF Percentile
<1> HIDE DEF n, I, J
<1>2. p \in {10, 25, 50, 75, 90} /\ q \in {10, 25, 50, 75, 90}
  BY DEF Percentile
<1>3. p * n <= q * n
  BY <1>1, <1>2
<1>4. p * n \in Int /\ q * n \in Int
  BY <1>1, <1>2
<1> HIDE DEF n
<1>5. 100 * I < 100 * J + 100
  BY <1>1, <1>3, <1>4
<1> QED
  BY <1>1, <1>5 DEF I, J

-----------------------------------------------------------------------------
(* The sorted copy *)

LEMMA Members ==
    ASSUME baseData_ \in BaseData
    PROVE  /\ Size \in Nat \ {0} /\ DOMAIN baseData_ = 1 .. Size
           /\ IsFiniteSet(DOMAIN baseData_) /\ Cardinality(DOMAIN baseData_) = Size
           /\ \A m \in DOMAIN baseData_, g \in Points : baseData_[m][g] \in Int
<1>1. baseData_ \in Seq([Points -> Int]) /\ baseData_ # << >>
  BY BaseDataAssumption
<1>2. Size \in Nat \ {0} /\ DOMAIN baseData_ = 1 .. Size
  BY <1>1 DEF Size
<1>3. IsFiniteSet(1 .. Size) /\ Cardinality(1 .. Size) = Size
  BY <1>2, FS_Interval
<1>4. \A m \in DOMAIN baseData_ : baseData_[m] \in [Points -> Int]
  BY <1>1, <1>2 DEF Size
<1> QED
  BY <1>2, <1>3, <1>4

\* The member found for a rank has it.
LEMMA RankedMember ==
    ASSUME baseData_ \in BaseData, NEW k \in 1 .. Size, NEW g \in Points
    PROVE  LET m == Ranked(baseData_, k, g)
           IN  /\ m \in DOMAIN baseData_
               /\ Cardinality({i \in DOMAIN baseData_ : baseData_[i][g] < baseData_[m][g]}) < k
               /\ Cardinality({i \in DOMAIN baseData_ : baseData_[i][g] <= baseData_[m][g]}) >= k
<1> DEFINE M == DOMAIN baseData_
           v == [i \in M |-> baseData_[i][g]]
<1>1. /\ IsFiniteSet(M) /\ \A i \in M : v[i] \in Int
      /\ k \in 1 .. Cardinality(M)
  BY Members
<1>2. \E m \in M : /\ Cardinality({i \in M : v[i] < v[m]}) < k
                  /\ Cardinality({i \in M : v[i] <= v[m]}) >= k
  <2>1. \E m \in M : HasRank(M, v, k, m)
    <3> HIDE DEF M, v
    <3> QED
      BY <1>1, RankExists
  <2> HIDE DEF M, v
  <2> QED
    BY <2>1 DEF HasRank
<1>3. \A m \in M : /\ {i \in M : v[i] < v[m]} = {i \in M : baseData_[i][g] < baseData_[m][g]}
                  /\ {i \in M : v[i] <= v[m]} = {i \in M : baseData_[i][g] <= baseData_[m][g]}
  OBVIOUS
<1>4. \E m \in M :
          /\ Cardinality({i \in M : baseData_[i][g] < baseData_[m][g]}) < k
          /\ Cardinality({i \in M : baseData_[i][g] <= baseData_[m][g]}) >= k
  BY <1>2, <1>3
<1> QED
  BY <1>4 DEF Ranked

PercentileField(p) == At(Sorted(baseData_), Index(p))

\* A percentile that is returned is, at every point, a value of one of the
\* members, with as many below it as its index says at most, and with it more.
LEMMA PercentileRanks ==
    ASSUME baseData_ \in BaseData, NEW p \in Percentile, PercentileField(p) # OutOfRange,
           NEW g \in Points
    PROVE  LET x == PercentileField(p)[g]
               M == DOMAIN baseData_
           IN  /\ Index(p) \in 0 .. Size - 1
               /\ \E m \in M : baseData_[m][g] = x
               /\ Cardinality({i \in M : baseData_[i][g] < x}) <= Index(p)
               /\ Cardinality({i \in M : baseData_[i][g] <= x}) > Index(p)
<1> DEFINE M == DOMAIN baseData_
           k == Index(p) + 1
           m == Ranked(baseData_, k, g)
<1>1. M = 1 .. Size /\ Size \in Nat \ {0} /\ Len(Sorted(baseData_)) = Size
  BY Members DEF Sorted
<1>2. Index(p) \in 0 .. Size - 1
  BY <1>1 DEF PercentileField, At
<1>3. k \in 1 .. Size
  BY <1>1, <1>2
<1>4. PercentileField(p)[g] = baseData_[m][g]
  BY <1>1, <1>2, <1>3 DEF PercentileField, At, Sorted
<1>5. /\ m \in M
      /\ Cardinality({i \in M : baseData_[i][g] < baseData_[m][g]}) < k
      /\ Cardinality({i \in M : baseData_[i][g] <= baseData_[m][g]}) >= k
  BY <1>3, RankedMember
<1> HIDE DEF m
<1>6. baseData_[m][g] \in Int
  BY <1>5, Members
<1>7. \A S \in SUBSET M : Cardinality(S) \in Nat
  BY Members, FS_Subset, FS_CardinalityType
<1>8. /\ Cardinality({i \in M : baseData_[i][g] < baseData_[m][g]}) \in Nat
      /\ Cardinality({i \in M : baseData_[i][g] <= baseData_[m][g]}) \in Nat
  BY <1>7
<1>9. /\ Cardinality({i \in M : baseData_[i][g] < baseData_[m][g]}) <= Index(p)
      /\ Cardinality({i \in M : baseData_[i][g] <= baseData_[m][g]}) > Index(p)
  BY <1>2, <1>5, <1>8
<1> QED
  BY <1>2, <1>4, <1>5, <1>9

-----------------------------------------------------------------------------
(* What has been returned *)

\* The copy, once it is there, is the sorted original, so that every result is
\* what the original data say, whenever it was asked for.
ResultInv ==
    /\ baseData_ \in BaseData
    /\ sortedData_ \in {<< >>, Sorted(baseData_)}
    /\ temperature_ \in [Points -> Int]
    /\ DOMAIN percentiles \subseteq Percentile
    /\ DOMAIN chances \subseteq Int
    /\ DOMAIN near \subseteq Deviation
    /\ \A p \in DOMAIN percentiles : percentiles[p] = PercentileField(p)
    /\ \A v \in DOMAIN chances : chances[v] = [g \in Points |-> chanceOfValueAbove(g, v)]
    /\ \A d \in DOMAIN near : near[d] = [g \in Points |-> nearCount(g, d)]

LEMMA ResultInvHolds == Spec => []ResultInv
<1>1. ASSUME Init PROVE ResultInv
  <2>1. PICK middle \in [Points -> {m \in Middles : {m[1], m[2]} \subseteq DOMAIN baseData_}] :
            temperature_ = [g \in Points |->
                baseData_[middle[g][1]][g] + baseData_[middle[g][2]][g]]
    BY <1>1 DEF Init
  <2>2. baseData_ \in BaseData
    BY <1>1 DEF Init
  <2>3. \A g \in Points : /\ baseData_[middle[g][1]][g] \in Int
                          /\ baseData_[middle[g][2]][g] \in Int
    BY <2>1, <2>2, Members
  <2>4. temperature_ \in [Points -> Int]
    BY <2>1, <2>3
  <2> QED
    BY <1>1, <2>4 DEF Init, ResultInv
<1>2. ASSUME ResultInv, [Next]_vars PROVE ResultInv'
  <2>1. ASSUME UNCHANGED <<baseData_, temperature_>>
        PROVE  /\ Sorted(baseData_)' = Sorted(baseData_)
               /\ \A p : PercentileField(p)' = PercentileField(p)
               /\ \A g, x : chanceOfValueAbove(g, x)' = chanceOfValueAbove(g, x)
               /\ \A g, x : nearCount(g, x)' = nearCount(g, x)
    BY <2>1 DEF Sorted, Ranked, PercentileField, At, Index, Size, chanceOfValueAbove, nearCount
  <2>2. ASSUME NEW p \in Percentile, getPercentile(p) PROVE ResultInv'
    <3>1. /\ UNCHANGED <<baseData_, temperature_, chances, near>>
          /\ sortedData_' = Sorted(baseData_)
          /\ percentiles' = Add(percentiles, p, At(sortedData_', Index(p)))
      BY <1>2, <2>2 DEF getPercentile, getSortedData_, ResultInv
    <3> QED
      BY <1>2, <2>1, <3>1 DEF ResultInv, Add, PercentileField
  <2>3. ASSUME NEW v \in Limits, probabilityOfValueAbove(v) PROVE ResultInv'
    <3>1. v \in Int
      BY LimitsAssumption
    <3> QED
      BY <1>2, <2>1, <2>3, <3>1 DEF probabilityOfValueAbove, ResultInv, Add
  <2>4. ASSUME NEW d \in Deviation, getTemperatureDeviationProbability(d) PROVE ResultInv'
    BY <1>2, <2>1, <2>4 DEF getTemperatureDeviationProbability, ResultInv, Add
  <2>5. CASE UNCHANGED vars
    BY <1>2, <2>1, <2>5 DEF vars, ResultInv
  <2> QED
    BY <1>2, <2>2, <2>3, <2>4, <2>5 DEF Next
<1> QED
  BY <1>1, <1>2, PTL DEF Spec

\* A getter fails only for the 10 percentile, of an ensemble with less than
\* ten members, in whatever order the getters are called.
THEOREM OnlyTheLowestFails == Spec => []OnlyTheLowestNeedsTen
<1>1. ASSUME ResultInv PROVE OnlyTheLowestNeedsTen
  <2> SUFFICES ASSUME NEW p \in DOMAIN percentiles
               PROVE  percentiles[p] = OutOfRange <=> p = 10 /\ Size < 10
    BY DEF OnlyTheLowestNeedsTen
  <2>1. p \in Percentile /\ percentiles[p] = At(Sorted(baseData_), Index(p))
    BY <1>1 DEF ResultInv, PercentileField
  <2>2. Size \in Nat \ {0} /\ Len(Sorted(baseData_)) = Size /\ DOMAIN baseData_ = 1 .. Size
    BY <1>1, Members DEF ResultInv, Sorted
  <2>3. ASSUME Index(p) \in 0 .. Size - 1
        PROVE  At(Sorted(baseData_), Index(p)) # OutOfRange
    <3>1. Index(p) + 1 \in DOMAIN baseData_
      BY <2>2, <2>3
    <3>2. DOMAIN At(Sorted(baseData_), Index(p)) = Points
      BY <2>2, <2>3, <3>1 DEF At, Sorted
    <3> QED
      BY <3>2, PointsAssumption DEF OutOfRange
  <2>4. Index(p) \notin 0 .. Size - 1 => At(Sorted(baseData_), Index(p)) = OutOfRange
    BY <2>2 DEF At
  <2> QED
    BY <2>1, <2>2, <2>3, <2>4, IndexInside
<1> QED
  BY <1>1, ResultInvHolds, PTL

-----------------------------------------------------------------------------
(* What the results say of each other *)

\* The members below, at and above a value at one point.
LEMMA SidesAtPoint ==
    ASSUME baseData_ \in BaseData, NEW g \in Points, NEW x \in Int
    PROVE  LET M == DOMAIN baseData_
           IN  /\ Cardinality({i \in M : baseData_[i][g] < x})
                     + Cardinality({i \in M : baseData_[i][g] >= x}) = Size
               /\ Cardinality({i \in M : baseData_[i][g] <= x})
                     + Cardinality({i \in M : baseData_[i][g] > x}) = Size
               /\ \A S \in SUBSET M : /\ IsFiniteSet(S) /\ Cardinality(S) \in 0 .. Size
                                     /\ \A T \in SUBSET S : Cardinality(T) <= Cardinality(S)
<1> DEFINE M == DOMAIN baseData_
           v == [i \in M |-> baseData_[i][g]]
<1>1. IsFiniteSet(M) /\ Cardinality(M) = Size /\ \A i \in M : v[i] \in Int
  BY Members
<1>2. /\ \A S \in SUBSET M : IsFiniteSet(S) /\ Cardinality(S) \in 0 .. Size
      /\ Cardinality({i \in M : v[i] < x}) + Cardinality({i \in M : v[i] >= x}) = Size
      /\ Cardinality({i \in M : v[i] <= x}) + Cardinality({i \in M : v[i] > x}) = Size
  <2> HIDE DEF M, v
  <2> QED
    BY <1>1, SidesOfAValue
<1>3. /\ {i \in M : v[i] < x} = {i \in M : baseData_[i][g] < x}
      /\ {i \in M : v[i] >= x} = {i \in M : baseData_[i][g] >= x}
      /\ {i \in M : v[i] <= x} = {i \in M : baseData_[i][g] <= x}
      /\ {i \in M : v[i] > x} = {i \in M : baseData_[i][g] > x}
  OBVIOUS
<1>4. \A S \in SUBSET M : \A T \in SUBSET S : Cardinality(T) <= Cardinality(S)
  BY <1>2, FS_Subset
<1> QED
  BY <1>2, <1>3, <1>4

\* The counts on both sides of a percentile, in terms of its index.
LEMMA SidesOfAPercentile ==
    ASSUME ResultInv, NEW p \in Returned, NEW g \in Points
    PROVE  LET x == percentiles[p][g]
               M == DOMAIN baseData_
           IN  /\ p \in Percentile /\ x \in Int /\ Index(p) \in 0 .. Size - 1
               /\ Size \in Nat \ {0}
               /\ Cardinality({i \in M : baseData_[i][g] < x}) \in 0 .. Index(p)
               /\ Cardinality({i \in M : baseData_[i][g] > x}) \in 0 .. Size - 1 - Index(p)
               /\ Cardinality({i \in M : baseData_[i][g] <= x}) \in Index(p) + 1 .. Size
               /\ Cardinality({i \in M : baseData_[i][g] >= x}) \in Size - Index(p) .. Size
               /\ Cardinality({i \in M : baseData_[i][g] < x})
                     + Cardinality({i \in M : baseData_[i][g] > x}) < Size
<1> DEFINE x == percentiles[p][g]
           M == DOMAIN baseData_
           Below == Cardinality({i \in M : baseData_[i][g] < x})
           UpTo == Cardinality({i \in M : baseData_[i][g] <= x})
           Above == Cardinality({i \in M : baseData_[i][g] > x})
           From == Cardinality({i \in M : baseData_[i][g] >= x})
           I == Index(p)
<1>1. /\ p \in Percentile /\ percentiles[p] = PercentileField(p)
      /\ PercentileField(p) # OutOfRange /\ baseData_ \in BaseData
  BY DEF Returned, ResultInv
<1>2. /\ I \in 0 .. Size - 1 /\ Below <= I /\ UpTo > I
      /\ \E m \in M : baseData_[m][g] = x
  BY <1>1, PercentileRanks
<1>3. Size \in Nat \ {0} /\ x \in Int
  BY <1>1, <1>2, Members
<1>4. Below + From = Size /\ UpTo + Above = Size
  BY <1>1, <1>3, SidesAtPoint
<1>5. Below \in 0 .. Size /\ UpTo \in 0 .. Size /\ Above \in 0 .. Size /\ From \in 0 .. Size
  <2>1. \A S \in SUBSET M : Cardinality(S) \in 0 .. Size
    BY <1>1, <1>3, SidesAtPoint
  <2> QED
    BY <2>1
<1> HIDE DEF Below, UpTo, Above, From, I, x
<1>6. /\ Below \in 0 .. I /\ Above \in 0 .. Size - 1 - I /\ UpTo \in I + 1 .. Size
      /\ From \in Size - I .. Size /\ Below + Above < Size
  BY <1>2, <1>3, <1>4, <1>5
<1> QED
  BY <1>1, <1>2, <1>3, <1>6 DEF Below, UpTo, Above, From, I, x

\* Percentiles do not fall as they go up: otherwise those not above the higher
\* one would all be below the lower one, which are fewer.
LEMMA PercentilesRise ==
    ASSUME ResultInv, NEW p \in Returned, NEW q \in Returned, p < q, NEW g \in Points
    PROVE  percentiles[p][g] <= percentiles[q][g]
<1> DEFINE x == percentiles[p][g]
           y == percentiles[q][g]
           M == DOMAIN baseData_
           Below == {i \in M : baseData_[i][g] < x}
           UpTo == {i \in M : baseData_[i][g] <= y}
<1>1. /\ p \in Percentile /\ x \in Int /\ Index(p) \in 0 .. Size - 1 /\ Size \in Nat \ {0}
      /\ Cardinality(Below) \in 0 .. Index(p)
  BY SidesOfAPercentile
<1>2. /\ q \in Percentile /\ y \in Int /\ Index(q) \in 0 .. Size - 1
      /\ Cardinality(UpTo) \in Index(q) + 1 .. Size
  BY SidesOfAPercentile
<1>3. baseData_ \in BaseData
  BY DEF ResultInv
<1>4. SUFFICES ASSUME y < x PROVE FALSE
  BY <1>1, <1>2
<1>5. UpTo \subseteq Below
  BY <1>1, <1>3, <1>4, <1>2, Members
<1>6. Cardinality(UpTo) <= Cardinality(Below)
  <2>1. Below \in SUBSET M
    OBVIOUS
  <2> QED
    BY <1>1, <1>3, <1>5, <2>1, SidesAtPoint
<1>7. Index(p) <= Index(q)
  BY <1>1, <1>2, IndexRises
<1> HIDE DEF Below, UpTo
<1> QED
  BY <1>1, <1>6, <1>7, <1>2

\* At every point a percentile is a value of a member, separates the share of
\* members it is named for, and does not exceed a higher one.
THEOREM PercentilesDoSeparate == Spec => []PercentilesSeparate
<1>1. ASSUME ResultInv PROVE PercentilesSeparate
  <2> SUFFICES ASSUME NEW p \in Returned, NEW g \in Points
               PROVE  LET below == {m \in DOMAIN baseData_ : baseData_[m][g] < percentiles[p][g]}
                          above == {m \in DOMAIN baseData_ : baseData_[m][g] > percentiles[p][g]}
                      IN  /\ Cardinality(below) + Cardinality(above) < Size
                          /\ 100 * Cardinality(below) <= p * Size
                          /\ 100 * Cardinality(above) < (100 - p) * Size + 100
    BY ZenonT(30), <1>1, PercentilesRise DEF PercentilesSeparate
  <2> DEFINE Below == Cardinality({i \in DOMAIN baseData_ : baseData_[i][g] < percentiles[p][g]})
             Above == Cardinality({i \in DOMAIN baseData_ : baseData_[i][g] > percentiles[p][g]})
             n == Size
             I == Index(p)
  <2>1. /\ p \in Percentile /\ n \in Nat \ {0} /\ I \in 0 .. n - 1
        /\ Below \in 0 .. I /\ Above \in 0 .. n - 1 - I /\ Below + Above < n
    BY <1>1, SidesOfAPercentile
  <2>2. 100 * I <= p * n /\ 100 * I > p * n - 200
    BY <2>1, IndexBounds DEF Percentile
  <2> HIDE DEF Below, Above, n, I
  <2>3. p \in {10, 25, 50, 75, 90}
    BY <2>1 DEF Percentile
  <2>4. p * n \in Int /\ (100 - p) * n = 100 * n - p * n
    BY <2>1, <2>3
  <2> DEFINE t == p * n
  <2>5. /\ 100 * I <= t /\ 100 * I > t - 200
        /\ t \in Int /\ (100 - p) * n = 100 * n - t
    BY <2>2, <2>4
  <2> HIDE DEF t
  <2>6. 100 * Below <= t /\ 100 * Above < (100 * n - t) + 100
    BY <2>1, <2>5
  <2> QED
    BY <2>1, <2>5, <2>6 DEF Below, Above, n, t
<1> QED
  BY <1>1, ResultInvHolds, PTL

\* Percentiles and chances, though taken from different copies and at different
\* times, do not contradict each other.
THEOREM PercentilesAndChancesAgree == Spec => []PercentilesAgreeWithChances
<1>1. ASSUME ResultInv PROVE PercentilesAgreeWithChances
  <2> SUFFICES ASSUME NEW p \in Returned, NEW v \in DOMAIN chances, NEW g \in Points
               PROVE  IF percentiles[p][g] > v
                      THEN 100 * chances[v][g] >= (100 - p) * Size
                      ELSE 100 * chances[v][g] < (100 - p) * Size + 100
    BY DEF PercentilesAgreeWithChances
  <2> DEFINE x == percentiles[p][g]
             M == DOMAIN baseData_
             From == {i \in M : baseData_[i][g] >= x}
             Above == {i \in M : baseData_[i][g] > x}
             Exceeding == {i \in M : baseData_[i][g] > v}
             n == Size
             I == Index(p)
  <2>1. /\ p \in Percentile /\ x \in Int /\ n \in Nat \ {0} /\ I \in 0 .. n - 1
        /\ Cardinality(From) \in n - I .. n /\ Cardinality(Above) \in 0 .. n - 1 - I
    BY <1>1, SidesOfAPercentile
  <2>2. 100 * I <= p * n /\ 100 * I > p * n - 200
    BY <2>1, IndexBounds DEF Percentile
  <2>3. baseData_ \in BaseData /\ v \in Int /\ chances[v][g] = Cardinality(Exceeding)
    BY <1>1 DEF ResultInv, chanceOfValueAbove
  <2>4. \A m \in M : baseData_[m][g] \in Int
    BY <2>3, Members
  <2>5. /\ From \in SUBSET M /\ Above \in SUBSET M /\ Exceeding \in SUBSET M
        /\ x > v => From \subseteq Exceeding
        /\ ~(x > v) => Exceeding \subseteq Above
    BY <2>1, <2>3, <2>4
  <2>6. /\ Cardinality(Exceeding) \in 0 .. n
        /\ x > v => Cardinality(From) <= Cardinality(Exceeding)
        /\ ~(x > v) => Cardinality(Exceeding) <= Cardinality(Above)
    BY <2>1, <2>3, <2>5, SidesAtPoint
  <2> HIDE DEF x, M, From, Above, Exceeding, n, I
  <2>7. p \in {10, 25, 50, 75, 90}
    BY <2>1 DEF Percentile
  <2>8. p * n \in Int /\ (100 - p) * n = 100 * n - p * n
    BY <2>1, <2>7
  <2>9. IF x > v THEN 100 * Cardinality(Exceeding) >= (100 - p) * n
                 ELSE 100 * Cardinality(Exceeding) < (100 - p) * n + 100
    BY <2>1, <2>2, <2>6, <2>8
  <2> QED
    BY <2>3, <2>9 DEF x, n
<1> QED
  BY <1>1, ResultInvHolds, PTL

\* Between two percentiles, both included, there are more members than the
\* share between the two.
LEMMA MembersBetween ==
    ASSUME ResultInv, NEW p \in Returned, NEW q \in Returned, p < q, NEW g \in Points
    PROVE  100 * Cardinality({i \in DOMAIN baseData_ : /\ percentiles[p][g] <= baseData_[i][g]
                                                    /\ baseData_[i][g] <= percentiles[q][g]})
               > (q - p) * Size
<1> DEFINE x == percentiles[p][g]
           y == percentiles[q][g]
           M == DOMAIN baseData_
           Below == {i \in M : baseData_[i][g] < x}
           UpTo == {i \in M : baseData_[i][g] <= y}
           Between == {i \in M : x <= baseData_[i][g] /\ baseData_[i][g] <= y}
           n == Size
           I == Index(p)
           J == Index(q)
<1>1. /\ p \in Percentile /\ x \in Int /\ I \in 0 .. n - 1 /\ n \in Nat \ {0}
      /\ Cardinality(Below) \in 0 .. I
  BY SidesOfAPercentile
<1>2. /\ q \in Percentile /\ y \in Int /\ J \in 0 .. n - 1
      /\ Cardinality(UpTo) \in J + 1 .. n
  BY SidesOfAPercentile
<1>3. baseData_ \in BaseData /\ \A i \in M : baseData_[i][g] \in Int
  BY Members DEF ResultInv
<1>4. 100 * I <= p * n /\ 100 * J > q * n - 100
  BY <1>1, <1>2, IndexBounds DEF Percentile
<1>5. UpTo \subseteq Below \cup Between
  BY <1>1, <1>2, <1>3
<1>6. Cardinality(UpTo) <= Cardinality(Below) + Cardinality(Between)
  <2>1. /\ Below \in SUBSET M /\ Between \in SUBSET M
        /\ Below \cap Between \in SUBSET M /\ Below \cup Between \in SUBSET M
    OBVIOUS
  <2>2. \A S \in SUBSET M : /\ IsFiniteSet(S) /\ Cardinality(S) \in 0 .. n
                           /\ \A T \in SUBSET S : Cardinality(T) <= Cardinality(S)
    BY <1>1, <1>3, SidesAtPoint
  <2> HIDE DEF Below, Between, UpTo, M, n
  <2>3. Cardinality(UpTo) <= Cardinality(Below \cup Between)
    BY <1>5, <2>1, <2>2
  <2>4. Cardinality(Below \cup Between)
            = Cardinality(Below) + Cardinality(Between) - Cardinality(Below \cap Between)
    BY <2>1, <2>2, FS_Union
  <2>5. /\ Cardinality(Below) \in Nat /\ Cardinality(Between) \in Nat
        /\ Cardinality(Below \cap Between) \in Nat /\ Cardinality(UpTo) \in Int
    BY <1>1, <1>2, <2>1, <2>2
  <2> QED
    BY <2>3, <2>4, <2>5
<1>7. Cardinality(Between) \in 0 .. n
  BY <1>1, <1>3, SidesAtPoint
<1> DEFINE s == p * n
           t == q * n
<1>8. /\ 100 * I <= s /\ 100 * J > t - 100
      /\ s \in Int /\ t \in Int /\ (q - p) * n = t - s
  BY <1>1, <1>2, <1>4 DEF Percentile
<1> HIDE DEF Below, UpTo, Between, n, I, J, s, t
<1>9. 100 * Cardinality(Between) > t - s
  BY <1>1, <1>2, <1>6, <1>7, <1>8
<1> QED
  BY <1>8, <1>9 DEF Between, n

\* The certainty of the temperature agrees with percentiles and chances, for
\* any value that may be given as the selected temperature.
THEOREM CertaintyAgrees == Spec => []NearAgreesWithTheRest
<1>1. ASSUME ResultInv PROVE NearAgreesWithTheRest
  <2> SUFFICES ASSUME NEW d \in DOMAIN near, NEW g \in Points
               PROVE  LET t == temperature_[g]
                          IsNear(p) == 2 * percentiles[p][g] \in t - d .. t + d
                      IN  /\ \A p, q \in Returned :
                                p < q /\ IsNear(p) /\ IsNear(q) =>
                                    100 * near[d][g] > (q - p) * Size
                          /\ \A v \in DOMAIN chances :
                                /\ 2 * v < t - d => near[d][g] <= chances[v][g]
                                /\ 2 * v >= t + d => near[d][g] <= Size - chances[v][g]
    BY DEF NearAgreesWithTheRest
  <2> DEFINE M == DOMAIN baseData_
             t == temperature_[g]
             Near == {m \in M : 2 * baseData_[m][g] \in t - d .. t + d}
  <2>1. /\ baseData_ \in BaseData /\ t \in Int /\ d \in Int
        /\ near[d][g] = Cardinality(Near)
    BY <1>1 DEF ResultInv, nearCount, Deviation
  <2>2. Size \in Nat \ {0} /\ \A m \in M : baseData_[m][g] \in Int
    BY <2>1, Members
  <2>3. \A S \in SUBSET M : /\ Cardinality(S) \in 0 .. Size
                           /\ \A T \in SUBSET S : Cardinality(T) <= Cardinality(S)
    BY <2>1, SidesAtPoint
  <2>4. ASSUME NEW p \in Returned, NEW q \in Returned, p < q,
               2 * percentiles[p][g] \in t - d .. t + d,
               2 * percentiles[q][g] \in t - d .. t + d
        PROVE  100 * Cardinality(Near) > (q - p) * Size
    <3> DEFINE Between == {i \in M : /\ percentiles[p][g] <= baseData_[i][g]
                                      /\ baseData_[i][g] <= percentiles[q][g]}
    <3>1. percentiles[p][g] \in Int /\ p \in Percentile
      BY <1>1, SidesOfAPercentile
    <3>2. percentiles[q][g] \in Int /\ q \in Percentile
      BY <1>1, SidesOfAPercentile
    <3>3. Between \subseteq Near
      BY <2>1, <2>2, <2>4, <3>1, <3>2
    <3>4. 100 * Cardinality(Between) > (q - p) * Size
      BY <1>1, <2>4, MembersBetween
    <3>5. /\ Cardinality(Between) <= Cardinality(Near)
          /\ Cardinality(Between) \in Nat /\ Cardinality(Near) \in Nat
      BY <2>2, <2>3, <3>3
    <3> DEFINE r == (q - p) * Size
    <3>6. r \in Int /\ 100 * Cardinality(Between) > r
      BY <2>2, <3>1, <3>2, <3>4 DEF Percentile
    <3> HIDE DEF Between, Near, r
    <3>7. 100 * Cardinality(Near) > r
      BY <3>5, <3>6
    <3> QED
      BY <3>7 DEF r
  <2>5. ASSUME NEW v \in DOMAIN chances
        PROVE  /\ 2 * v < t - d => Cardinality(Near) <= chances[v][g]
               /\ 2 * v >= t + d => Cardinality(Near) <= Size - chances[v][g]
    <3> DEFINE Exceeding == {m \in M : baseData_[m][g] > v}
               UpTo == {m \in M : baseData_[m][g] <= v}
    <3>1. v \in Int /\ chances[v][g] = Cardinality(Exceeding)
      BY <1>1 DEF ResultInv, chanceOfValueAbove
    <3>2. /\ Cardinality(UpTo) + Cardinality(Exceeding) = Size
          /\ Cardinality(UpTo) \in 0 .. Size /\ Cardinality(Exceeding) \in 0 .. Size
      BY <2>1, <3>1, SidesAtPoint
    <3>3. /\ 2 * v < t - d => Near \subseteq Exceeding
          /\ 2 * v >= t + d => Near \subseteq UpTo
      BY <2>1, <2>2, <3>1
    <3>4. /\ 2 * v < t - d => Cardinality(Near) <= Cardinality(Exceeding)
          /\ 2 * v >= t + d => Cardinality(Near) <= Cardinality(UpTo)
      BY <2>3, <3>3
    <3>5. Cardinality(UpTo) = Size - Cardinality(Exceeding)
      <4> HIDE DEF UpTo, Exceeding
      <4> QED
        BY <2>2, <3>2
    <3> QED
      BY <3>1, <3>4, <3>5
  <2> QED
    BY <2>1, <2>4, <2>5
<1> QED
  BY <1>1, ResultInvHolds, PTL

=============================================================================
