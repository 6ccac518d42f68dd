------------------------ MODULE SymbolSelectionProofs ------------------------
(* Proofs about the selection of a symbol and of the most probable value at *)
(* a point, for ensembles of every size and every fraction, and about how   *)
(* the loops go over the points, for grids of every size.                   *)
EXTENDS FieldSelection, OrderStatistics, FiniteSetTheorems, SequenceTheorems, TLAPS

\* An ensemble has members, finitely many, and its symbols occur in it.
LEMMA Ensemble ==
    ASSUME symbols \in Seq(Symbol) \ {<< >>}
    PROVE  /\ Len(symbols) \in Nat \ {0} /\ Member = 1 .. Len(symbols)
           /\ IsFiniteSet(Member) /\ Cardinality(Member) = Len(symbols)
           /\ Range(symbols) \subseteq Symbol
           /\ \A S \in SUBSET Member :
                 /\ Cardinality(S) \in 0 .. Len(symbols)
                 /\ Cardinality(S) = 0 <=> S = {}
                 /\ Cardinality(S) = Len(symbols) => S = Member
<1>1. Len(symbols) \in Nat \ {0} /\ Member = 1 .. Len(symbols)
  BY DEF Member
<1>2. IsFiniteSet(Member) /\ Cardinality(Member) = Len(symbols)
  BY <1>1, FS_Interval
<1>3. Range(symbols) \subseteq Symbol
  BY <1>1 DEF Range, Member
<1>4. ASSUME NEW S \in SUBSET Member
      PROVE  /\ Cardinality(S) \in 0 .. Len(symbols)
             /\ Cardinality(S) = 0 <=> S = {}
             /\ Cardinality(S) = Len(symbols) => S = Member
  <2>1. /\ IsFiniteSet(S) /\ Cardinality(S) <= Cardinality(Member)
        /\ Cardinality(Member) = Cardinality(S) => S = Member
    BY <1>2, FS_Subset
  <2>2. Cardinality(S) \in Nat /\ (Cardinality(S) = 0 <=> S = {})
    BY <2>1, FS_CardinalityType, FS_EmptySet
  <2> QED
    BY <1>1, <1>2, <2>1, <2>2
<1> QED
  BY <1>1, <1>2, <1>3, <1>4

LEMMA CountOfSymbols ==
    ASSUME symbols \in Seq(Symbol) \ {<< >>}, NEW s
    PROVE  /\ Count(s) \in Nat
           /\ s \in Range(symbols) <=> Count(s) > 0
<1> DEFINE S == {m \in Member : symbols[m] = s}
<1>1. s \in Range(symbols) <=> S # {}
  BY DEF Range, Member
<1>2. Cardinality(S) \in 0 .. Len(symbols) /\ (Cardinality(S) = 0 <=> S = {})
  BY Ensemble
<1>3. Len(symbols) \in Nat
  BY Ensemble
<1>4. Count(s) = Cardinality(S)
  BY DEF Count
<1> HIDE DEF S
<1> QED
  BY <1>1, <1>2, <1>3, <1>4

\* The entries passed are those with the lower codes; ret is the first of the
\* most frequent candidates among them, and count how often it occurs.
LoopInv ==
    /\ visited \subseteq Range(symbols)
    /\ \A s \in visited, r \in Range(symbols) \ visited : s < r
    /\ ret = Error => count = 0
    /\ ret # Error => ret \in visited /\ Candidate(ret) /\ count = Count(ret)
    /\ \A s \in visited : Candidate(s) =>
          Count(s) < count \/ (Count(s) = count /\ ret <= s)

SelectInv ==
    /\ symbols \in Seq(Symbol) \ {<< >>}
    /\ precipFraction \in [num : Nat, den : Nat \ {0}]
    /\ LoopInv
    /\ pc # "select" => Range(symbols) \subseteq visited
    /\ pc \in {"consider", "done"} => ret # Error
    /\ pc = "logic_error" => ret = Error

LEMMA Codes == Symbol \subseteq Nat \ {Error}
BY DEF Symbol, Dry, Wet, Error, Sun, LightCloud, PartlyCloud, Cloud, LightRainSun,
       LightRain, Rain, DrizzleSun, RainSun, Drizzle

\* What the counts and the class are made of does not change.
LEMMA InputsStay ==
    ASSUME UNCHANGED inputs
    PROVE  /\ \A s : Count(s)' = Count(s) /\ Candidate(s)' = Candidate(s)
           /\ isRain' = isRain /\ precipitationCount' = precipitationCount
           /\ symbols' = symbols /\ precipFraction' = precipFraction
           /\ UpToHalf' = UpToHalf
BY DEF inputs, Count, Candidate, isRain, precipitationCount, numMembers, Member, UpToHalf,
       hasPrecipitation

\* The loop looks at one entry more.
LEMMA LoopStep ==
    ASSUME SelectInv, NextEntry
    PROVE  LoopInv'
<1>1. PICK s \in Range(symbols) \ visited :
          /\ \A r \in Range(symbols) \ visited : s <= r
          /\ visited' = visited \cup {s}
          /\ ret' = IF Preferred(s) THEN s ELSE ret
          /\ count' = IF Preferred(s) THEN Count(s) ELSE count
  BY DEF NextEntry, Entries
<1>2. UNCHANGED inputs /\ LoopInv /\ symbols \in Seq(Symbol) \ {<< >>}
  BY DEF NextEntry, SelectInv
<1>3. /\ \A r : Count(r) \in Nat /\ (r \in Range(symbols) => Count(r) > 0)
      /\ \A r \in Range(symbols) : r \in Nat /\ r # Error
  BY <1>2, CountOfSymbols, Ensemble, Codes
<1>4. Preferred(s) <=> count < Count(s) /\ Candidate(s)
  BY <1>1 DEF Preferred, Candidate
<1>5. count \in Nat /\ ret \in Nat
  BY <1>2, <1>3 DEF LoopInv, Error
<1>6. visited' \subseteq Range(symbols)
  BY <1>1, <1>2 DEF LoopInv
<1>7. \A q \in visited', r \in Range(symbols) \ visited' : q < r
  BY <1>1, <1>2, <1>3 DEF LoopInv
<1>8. CASE Preferred(s)
  <2>1. ret' = s /\ count' = Count(s) /\ Candidate(s) /\ count < Count(s)
    BY <1>1, <1>4, <1>8
  <2>2. \A q \in visited : Candidate(q) => Count(q) < Count(s)
    BY <1>2, <1>3, <1>5, <2>1 DEF LoopInv
  <2> QED
    BY <1>1, <1>2, <1>3, <1>6, <1>7, <2>1, <2>2, InputsStay DEF LoopInv
<1>9. CASE ~Preferred(s)
  <2>1. ret' = ret /\ count' = count
    BY <1>1, <1>9
  <2>2. Candidate(s) => Count(s) <= count
    BY <1>3, <1>4, <1>5, <1>9
  <2>3. ret # Error => ret < s
    BY <1>1, <1>2 DEF LoopInv
  <2>4. Candidate(s) => ret # Error
    BY <1>1, <1>2, <1>3, <2>2 DEF LoopInv
  <2>5. Candidate(s) => Count(s) < count \/ (Count(s) = count /\ ret <= s)
    BY <1>1, <1>3, <1>5, <2>2, <2>3, <2>4
  <2> QED
    BY <1>1, <1>2, <1>3, <1>6, <1>7, <2>1, <2>5, InputsStay DEF LoopInv
<1> QED
  BY <1>8, <1>9

LEMMA SelectInvNext ==
    ASSUME SelectInv, [Next]_vars
    PROVE  SelectInv'
<1>1. CASE NextEntry
  BY <1>1, LoopStep DEF NextEntry, inputs, SelectInv
<1>2. ASSUME UNCHANGED <<inputs, visited, ret, count>>
      PROVE  LoopInv'
  BY <1>2, InputsStay DEF SelectInv, LoopInv
<1>3. CASE Selected \/ InternalError
  BY <1>2, <1>3 DEF Selected, InternalError, Entries, inputs, SelectInv
<1>4. CASE Consider
  BY <1>2, <1>4 DEF Consider, inputs, SelectInv
<1>5. CASE Median
  BY <1>2, <1>5 DEF Median, inputs, SelectInv
<1>6. CASE UNCHANGED vars
  BY <1>2, <1>6 DEF vars, inputs, SelectInv
<1> QED
  BY <1>1, <1>3, <1>4, <1>5, <1>6 DEF Next, Terminated

LEMMA SelectInvHolds == Spec => []SelectInv
<1>1. Init => SelectInv
  BY EnsemblesAssumption, FractionsAssumption DEF Init, SelectInv, LoopInv
<1> QED
  BY <1>1, SelectInvNext, PTL DEF Spec

LEMMA LoopSelects == SelectInv => MostFrequentOfItsClass
<1> SUFFICES ASSUME SelectInv PROVE MostFrequentOfItsClass
  OBVIOUS
<1>1. symbols \in Seq(Symbol) \ {<< >>} /\ LoopInv
  BY DEF SelectInv
<1>2. ASSUME pc # "select", NEW s \in Symbol, Candidate(s)
      PROVE  Count(s) < count \/ (Count(s) = count /\ ret <= s)
  BY <1>1, <1>2 DEF SelectInv, LoopInv, Candidate
<1>3. CASE pc \in {"consider", "done"}
  BY <1>1, <1>2, <1>3 DEF SelectInv, LoopInv, MostFrequentOfItsClass
<1>4. CASE pc = "logic_error"
  <2>1. count = 0
    BY <1>1, <1>4 DEF SelectInv, LoopInv
  <2>2. \A s \in Symbol : ~Candidate(s)
    BY <1>1, <1>2, <1>4, <2>1, CountOfSymbols DEF Candidate, SelectInv, Error
  <2> QED
    BY <1>4, <2>2 DEF MostFrequentOfItsClass
<1> QED
  BY <1>3, <1>4 DEF MostFrequentOfItsClass

\* The loop over the map, which remembers one symbol and one count, selects
\* the first of the most frequent symbols of the class that is to be shown,
\* and fails only if the class has no members.
THEOREM SelectsTheMostFrequent == Spec => []MostFrequentOfItsClass
BY LoopSelects, SelectInvHolds, PTL

-----------------------------------------------------------------------------
(* Every ensemble gets a symbol *)

\* The class that is to be shown has members, for fractions up to a half: one
\* more than the number of members is in the denominator, which does not
\* matter until all members have precipitation, and then leaves at least half.
LEMMA ClassHasMembers ==
    ASSUME symbols \in Seq(Symbol) \ {<< >>},
           precipFraction \in [num : Nat, den : Nat \ {0}], UpToHalf
    PROVE  \E s \in Symbol : Candidate(s)
<1> DEFINE W == {m \in Member : hasPrecipitation(symbols[m])}
           n == Len(symbols)
           c == precipitationCount
           f == precipFraction.num
           d == precipFraction.den
<1>1. W \subseteq Member /\ c = Cardinality(W)
  BY DEF precipitationCount
<1>2. n \in Nat \ {0} /\ c \in 0 .. n /\ (c = 0 <=> W = {}) /\ (c = n => W = Member)
  <2> HIDE DEF W, c
  <2> QED
    BY <1>1, Ensemble
<1>3. f \in Nat /\ d \in Nat /\ d > 0 /\ 0 < f /\ 2 * f <= d
  BY DEF UpToHalf
<1>4. isRain <=> c * d >= f * (n + 1)
  BY DEF isRain, numMembers
<1>5. \A m \in Member : symbols[m] \in Symbol /\ symbols[m] \in Range(symbols)
  BY Ensemble DEF Range, Member
<1> HIDE DEF n, c, f, d
<1>6. CASE isRain
  <2>1. c # 0
    <3>1. f * (n + 1) > 0
      <4>1. f >= 1 /\ n + 1 \in Nat /\ n + 1 > 0
        BY <1>2, <1>3
      <4> QED
        BY <1>3, <4>1
    <3>2. 0 * d = 0
      BY <1>3
    <3> QED
      BY <1>2, <1>3, <1>4, <1>6, <3>1, <3>2
  <2>2. PICK m \in W : TRUE
    BY <1>2, <2>1
  <2>3. Candidate(symbols[m])
    BY <1>5, <1>6, <2>2 DEF Candidate, hasPrecipitation
  <2> QED
    BY <1>5, <2>2, <2>3
<1>7. CASE ~isRain
  <2>1. c # n
    <3>1. SUFFICES ASSUME c = n PROVE n * d >= f * (n + 1)
      BY <1>4, <1>7
    <3>2. 2 * (f * (n + 1)) = (2 * f) * (n + 1)
      BY <1>2, <1>3
    <3>3. (2 * f) * (n + 1) <= d * (n + 1)
      BY <1>2, <1>3
    <3>4. d * (n + 1) <= d * (2 * n)
      BY <1>2, <1>3
    <3>5. d * (2 * n) = 2 * (n * d)
      BY <1>2, <1>3
    <3>6. f * (n + 1) \in Nat /\ d * (n + 1) \in Nat /\ n * d \in Nat
      BY <1>2, <1>3
    <3> QED
      BY <3>2, <3>3, <3>4, <3>5, <3>6
  <2>2. W # Member
    BY <1>1, <2>1, Ensemble DEF n
  <2>3. PICK m \in Member : ~hasPrecipitation(symbols[m])
    BY <1>1, <2>2
  <2>4. Candidate(symbols[m])
    BY <1>5, <1>7, <2>3 DEF Candidate, hasPrecipitation, isRain
  <2> QED
    BY <1>5, <2>3, <2>4
<1> QED
  BY <1>6, <1>7

\* With the default fraction, or a smaller one, no ensemble makes the
\* selection fail, however many members it has.
THEOREM DefaultFractionSuffices == Spec => []EveryEnsembleGetsASymbol
<1>1. SelectInv /\ MostFrequentOfItsClass => EveryEnsembleGetsASymbol
  BY ClassHasMembers DEF SelectInv, MostFrequentOfItsClass, EveryEnsembleGetsASymbol
<1> QED
  BY <1>1, SelectInvHolds, SelectsTheMostFrequent, PTL

-----------------------------------------------------------------------------
(* The certainty *)

\* The table stays within a class, and every symbol counts for itself.
LEMMA NearbyIsAlike ==
    ASSUME NEW s \in Symbol
    PROVE  /\ s \in nearby[s]
           /\ \A t \in nearby[s] : t \in Symbol /\ hasPrecipitation(t) = hasPrecipitation(s)
<1>1. /\ Sun \in nearby[Sun] /\ nearby[Sun] \subseteq Dry
      /\ LightCloud \in nearby[LightCloud] /\ nearby[LightCloud] \subseteq Dry
      /\ PartlyCloud \in nearby[PartlyCloud] /\ nearby[PartlyCloud] \subseteq Dry
      /\ Cloud \in nearby[Cloud] /\ nearby[Cloud] \subseteq Dry
  BY DEF nearby, Symbol, Dry, Wet, Sun, LightCloud, PartlyCloud, Cloud, LightRainSun,
         LightRain, Rain, DrizzleSun, RainSun, Drizzle
<1>2. /\ DrizzleSun \in nearby[DrizzleSun] /\ nearby[DrizzleSun] \subseteq Wet
      /\ LightRainSun \in nearby[LightRainSun] /\ nearby[LightRainSun] \subseteq Wet
      /\ RainSun \in nearby[RainSun] /\ nearby[RainSun] \subseteq Wet
  BY DEF nearby, Symbol, Dry, Wet, Sun, LightCloud, PartlyCloud, Cloud, LightRainSun,
         LightRain, Rain, DrizzleSun, RainSun, Drizzle
<1>3. /\ Drizzle \in nearby[Drizzle] /\ nearby[Drizzle] \subseteq Wet
      /\ LightRain \in nearby[LightRain] /\ nearby[LightRain] \subseteq Wet
      /\ Rain \in nearby[Rain] /\ nearby[Rain] \subseteq Wet
  BY DEF nearby, Symbol, Dry, Wet, Sun, LightCloud, PartlyCloud, Cloud, LightRainSun,
         LightRain, Rain, DrizzleSun, RainSun, Drizzle
<1>4. \A t \in Dry : t \notin Wet
  BY DEF Dry, Wet, Sun, LightCloud, PartlyCloud, Cloud, LightRainSun,
         LightRain, Rain, DrizzleSun, RainSun, Drizzle
<1>5. CASE s \in Dry
  <2>1. s \in nearby[s] /\ nearby[s] \subseteq Dry
    BY <1>1, <1>5 DEF Dry
  <2> QED
    BY <1>4, <1>5, <2>1 DEF hasPrecipitation, Symbol
<1>6. CASE s \in Wet
  <2>1. s \in nearby[s] /\ nearby[s] \subseteq Wet
    BY <1>2, <1>3, <1>6 DEF Wet
  <2> QED
    BY <1>6, <2>1 DEF hasPrecipitation, Symbol
<1> QED
  BY <1>5, <1>6 DEF Symbol

\* What getProbabilityOf adds up for a symbol.
LEMMA SummedAreAlike ==
    ASSUME symbols \in Seq(Symbol) \ {<< >>}, NEW s \in Symbol
    PROVE  /\ getProbabilityOf(s) \in Nat
           /\ getProbabilityOf(s) <= Cardinality({m \in Member :
                  /\ hasPrecipitation(symbols[m]) = hasPrecipitation(s)
                  /\ symbols[m] \notin LeftOut})
           /\ s \notin LeftOut => getProbabilityOf(s) >= Count(s)
<1> DEFINE S == {m \in Member : symbols[m] \in Summed \cap nearby[s]}
           C == {m \in Member : /\ hasPrecipitation(symbols[m]) = hasPrecipitation(s)
                                /\ symbols[m] \notin LeftOut}
           T == {m \in Member : symbols[m] = s}
<1>0. Summed = Symbol \ LeftOut
  BY DEF Summed, LeftOut, Symbol, Dry, Wet, Sun, LightCloud, PartlyCloud, Cloud,
         LightRainSun, LightRain, Rain, DrizzleSun, RainSun, Drizzle
<1>1. S \subseteq C /\ (s \notin LeftOut => T \subseteq S)
  BY <1>0, NearbyIsAlike
<1>2. IsFiniteSet(Member) /\ S \subseteq Member /\ C \subseteq Member /\ T \subseteq Member
  BY Ensemble
<1>3. getProbabilityOf(s) = Cardinality(S) /\ Count(s) = Cardinality(T)
  BY DEF getProbabilityOf, Count
<1> HIDE DEF S, C, T
<1>4. /\ IsFiniteSet(S) /\ IsFiniteSet(C)
      /\ Cardinality(S) \in Nat /\ Cardinality(C) \in Nat /\ Cardinality(T) \in Nat
  BY <1>2, FS_Subset, FS_CardinalityType
<1>5. Cardinality(S) <= Cardinality(C)
  BY <1>1, <1>4, FS_Subset
<1>6. s \notin LeftOut => Cardinality(T) <= Cardinality(S)
  BY <1>1, <1>4, FS_Subset
<1> QED
  BY <1>3, <1>4, <1>5, <1>6 DEF C

CertaintyInv == pc \in {"consider", "done"} => certainty = getProbabilityOf(ret)

LEMMA CertaintyInvNext ==
    ASSUME CertaintyInv, [Next]_vars
    PROVE  CertaintyInv'
<1>1. symbols' = symbols => \A s : getProbabilityOf(s)' = getProbabilityOf(s)
  BY DEF getProbabilityOf, Member
<1>2. CASE NextEntry \/ InternalError
  BY <1>2 DEF NextEntry, InternalError, CertaintyInv
<1>3. CASE Selected
  <2>1. symbols' = symbols /\ ret' = ret /\ certainty' = getProbabilityOf(ret)
    BY <1>3 DEF Selected, inputs
  <2>2. getProbabilityOf(ret)' = getProbabilityOf(ret)
    BY <2>1 DEF getProbabilityOf, Member
  <2> QED
    BY <2>1, <2>2 DEF CertaintyInv
<1>4. ASSUME UNCHANGED <<symbols, ret, certainty>>,
             pc \in {"consider", "done"} \/ pc' \notin {"consider", "done"}
      PROVE  CertaintyInv'
  <2>1. getProbabilityOf(ret)' = getProbabilityOf(ret)
    BY <1>4 DEF getProbabilityOf, Member
  <2> QED
    BY <1>4, <2>1 DEF CertaintyInv
<1>5. CASE Consider \/ Median
  BY <1>4, <1>5 DEF Consider, Median, inputs
<1>6. CASE UNCHANGED vars
  BY <1>4, <1>6 DEF vars, inputs
<1> QED
  BY <1>2, <1>3, <1>5, <1>6 DEF Next, Terminated

LEMMA CertaintyAlike == SelectInv /\ CertaintyInv => CertaintyOfItsClass
<1> SUFFICES ASSUME SelectInv, CertaintyInv, pc \in {"consider", "done"}
             PROVE  CertaintyOfItsClass
  BY DEF CertaintyOfItsClass
<1>1. symbols \in Seq(Symbol) \ {<< >>} /\ ret \in Symbol
  BY Ensemble DEF SelectInv, LoopInv
<1> QED
  BY <1>1, SummedAreAlike DEF CertaintyInv, CertaintyOfItsClass

\* The certainty published with a symbol counts members of its own class only,
\* and no fewer than have the symbol, for ensembles of every size, but for the
\* three symbols that are left out of every sum.
THEOREM CertaintyStaysInClass == Spec => []CertaintyOfItsClass
<1>1. Init => CertaintyInv
  BY DEF Init, CertaintyInv
<1>2. CertaintyInv /\ [Next]_vars => CertaintyInv'
  BY CertaintyInvNext
<1> QED
  BY <1>1, <1>2, CertaintyAlike, SelectInvHolds, PTL DEF Spec

-----------------------------------------------------------------------------
(* The value *)

\* An element of a sorted sequence, which is modelled by its rank, exists.
LEMMA SortedElement ==
    ASSUME NEW q \in Seq(Int), NEW n \in 0 .. Len(q) - 1
    PROVE  /\ SortedAt(q, n) \in Int
           /\ Cardinality({i \in DOMAIN q : q[i] < SortedAt(q, n)}) <= n
           /\ Cardinality({i \in DOMAIN q : q[i] <= SortedAt(q, n)}) > n
<1> DEFINE Ok(v) == /\ Cardinality({i \in DOMAIN q : q[i] < v}) <= n
                    /\ Cardinality({i \in DOMAIN q : q[i] <= v}) > n
<1>1. /\ DOMAIN q = 1 .. Len(q) /\ Len(q) \in Nat
      /\ \A i \in DOMAIN q : q[i] \in Int
  OBVIOUS
<1>2. IsFiniteSet(DOMAIN q) /\ Cardinality(DOMAIN q) = Len(q)
  BY SequenceSize
<1>3. n + 1 \in 1 .. Cardinality(DOMAIN q)
  BY <1>1, <1>2
<1>4. PICK m \in DOMAIN q :
          /\ Cardinality({i \in DOMAIN q : q[i] < q[m]}) < n + 1
          /\ Cardinality({i \in DOMAIN q : q[i] <= q[m]}) >= n + 1
  <2>1. \E m \in DOMAIN q : HasRank(DOMAIN q, q, n + 1, m)
    BY <1>1, <1>2, <1>3, RankExists
  <2> QED
    BY <2>1 DEF HasRank
<1>5. \A S \in SUBSET DOMAIN q : Cardinality(S) \in Nat
  BY <1>2, FS_Subset, FS_CardinalityType
<1>6. q[m] \in Range(q) /\ Ok(q[m])
  <2> DEFINE a == Cardinality({i \in DOMAIN q : q[i] < q[m]})
             b == Cardinality({i \in DOMAIN q : q[i] <= q[m]})
  <2>1. a \in Nat /\ b \in Nat
    <3> DEFINE A == {i \in DOMAIN q : q[i] < q[m]}
               B == {i \in DOMAIN q : q[i] <= q[m]}
    <3>1. A \in SUBSET DOMAIN q /\ B \in SUBSET DOMAIN q
      OBVIOUS
    <3> HIDE DEF A, B
    <3>2. Cardinality(A) \in Nat /\ Cardinality(B) \in Nat
      BY <1>5, <3>1
    <3> QED
      BY <3>2 DEF A, B
  <2>2. a < n + 1 /\ b >= n + 1
    BY <1>4
  <2> HIDE DEF a, b
  <2>3. a <= n /\ b > n
    BY <2>1, <2>2
  <2> QED
    BY <2>3 DEF a, b, Range
<1>7. SortedAt(q, n) = CHOOSE v \in Range(q) : Ok(v)
  BY DEF SortedAt
<1>8. SortedAt(q, n) \in Range(q) /\ Ok(SortedAt(q, n))
  <2> HIDE DEF Ok
  <2> QED
    BY <1>6, <1>7
<1>9. SortedAt(q, n) \in Int
  BY <1>1, <1>8 DEF Range
<1> QED
  BY <1>8, <1>9

\* On either side of the median is at least half of the sequence.
LEMMA MedianHalves ==
    ASSUME NEW q \in Seq(Int), q # << >>
    PROVE  /\ medianTwice(q) \in Int
           /\ 2 * Cardinality({i \in DOMAIN q : 2 * q[i] <= medianTwice(q)}) >= Len(q)
           /\ 2 * Cardinality({i \in DOMAIN q : 2 * q[i] >= medianTwice(q)}) >= Len(q)
<1> DEFINE M == DOMAIN q
           n == Len(q)
           half == n \div 2
           a == SortedAt(q, half)
           b == SortedAt(q, half - 1)
           UpTo(v) == {i \in M : q[i] <= v}
           Under(v) == {i \in M : q[i] < v}
           From(v) == {i \in M : q[i] >= v}
           Below == {i \in M : 2 * q[i] <= medianTwice(q)}
           Above == {i \in M : 2 * q[i] >= medianTwice(q)}
<1>1. /\ M = 1 .. n /\ n \in Nat \ {0}
      /\ \A i \in M : q[i] \in Int
  OBVIOUS
<1>2. IsFiniteSet(M) /\ Cardinality(M) = n
  BY SMTT(30), SequenceSize
<1>3. half \in 0 .. n - 1 /\ n % 2 \in {0, 1} /\ n = 2 * half + (n % 2)
  BY <1>1, Halving
<1>4. \A S \in SUBSET M : Cardinality(S) \in 0 .. n
  <2>1. \A S \in SUBSET M : IsFiniteSet(S) /\ Cardinality(S) <= Cardinality(M)
    BY <1>2, FS_Subset
  <2> QED
    BY <1>2, <2>1, FS_CardinalityType
<1>5. /\ a \in Int /\ Cardinality(Under(a)) <= half /\ Cardinality(UpTo(a)) > half
      /\ Cardinality(Under(a)) \in Nat /\ Cardinality(UpTo(a)) \in Nat
  <2>1. half \in 0 .. Len(q) - 1
    BY <1>3
  <2>2. Cardinality(Under(a)) \in Nat /\ Cardinality(UpTo(a)) \in Nat
    BY <1>4
  <2> QED
    BY <2>1, <2>2, SortedElement
<1>6. Cardinality(Under(a)) + Cardinality(From(a)) = n
  BY <1>1, <1>2, <1>5, SidesOfAValue
<1>7. Cardinality(From(a)) \in Nat
  BY <1>4
<1>8. \A S, T \in SUBSET M : S \subseteq T => Cardinality(S) <= Cardinality(T)
  <2>1. \A T \in SUBSET M : IsFiniteSet(T)
    BY <1>2, FS_Subset
  <2> QED
    BY <2>1, FS_Subset
<1>9. CASE n % 2 = 1
  <2>1. medianTwice(q) = 2 * a
    BY <1>9 DEF medianTwice
  <2>2. Below = UpTo(a) /\ Above = From(a)
    BY <1>1, <1>5, <2>1
  <2> DEFINE x == Cardinality(UpTo(a))
             y == Cardinality(From(a))
             z == Cardinality(Under(a))
  <2>3. Cardinality(Below) = x /\ Cardinality(Above) = y
    BY <2>2
  <2>4. x \in Nat /\ y \in Nat /\ z \in Nat /\ x > half /\ z <= half /\ z + y = n
    BY <1>5, <1>6, <1>7
  <2>5. medianTwice(q) \in Int
    BY <1>5, <2>1
  <2> HIDE DEF x, y, z, n, half, a, Below, Above
  <2>6. 2 * x >= n /\ 2 * y >= n
    BY SMTT(30), <1>3, <1>9, <2>4
  <2> QED
    BY <2>3, <2>5, <2>6 DEF Below, Above, n
<1>10. CASE n % 2 = 0
  <2>1. medianTwice(q) = a + b
    BY <1>10 DEF medianTwice
  <2>2. half >= 1 /\ half - 1 \in 0 .. n - 1
    <3> HIDE DEF half, n
    <3> QED
      BY <1>1, <1>3, <1>10
  <2>3. /\ b \in Int /\ Cardinality(Under(b)) <= half - 1 /\ Cardinality(UpTo(b)) > half - 1
        /\ Cardinality(Under(b)) \in Nat /\ Cardinality(UpTo(b)) \in Nat
    <3>1. Cardinality(Under(b)) \in Nat /\ Cardinality(UpTo(b)) \in Nat
      BY <1>4
    <3> QED
      BY <2>2, <3>1, SortedElement
  <2>4. b <= a
    <3> SUFFICES ASSUME a < b PROVE FALSE
      BY <1>5, <2>3
    <3>1. UpTo(a) \subseteq Under(b)
      BY <1>1, <1>5, <2>3
    <3>2. Cardinality(UpTo(a)) <= Cardinality(Under(b))
      BY <1>8, <3>1
    <3> HIDE DEF UpTo, Under, half, a, b
    <3> QED
      BY <1>3, <1>5, <2>3, <3>2
  <2>5. UpTo(b) \subseteq Below /\ From(a) \subseteq Above
    <3> HIDE DEF a, b
    <3>1. \A i \in M : /\ q[i] <= b => 2 * q[i] <= a + b
                       /\ q[i] >= a => 2 * q[i] >= a + b
      BY SMTT(30), <1>1, <1>5, <2>3, <2>4
    <3> QED
      BY <2>1, <3>1
  <2> DEFINE x == Cardinality(Below)
             y == Cardinality(Above)
             u == Cardinality(UpTo(b))
             w == Cardinality(From(a))
             z == Cardinality(Under(a))
  <2>6. u <= x /\ w <= y
    BY <1>8, <2>5
  <2>7. x \in Nat /\ y \in Nat
    BY <1>4
  <2>8. u \in Nat /\ w \in Nat /\ z \in Nat /\ u > half - 1 /\ z <= half /\ z + w = n
    BY <1>5, <1>6, <1>7, <2>3
  <2>9. medianTwice(q) \in Int
    BY <1>5, <2>1, <2>3
  <2> HIDE DEF x, y, u, w, z, n, half, a, b, Below, Above
  <2>10. 2 * x >= n /\ 2 * y >= n
    BY SMTT(30), <1>3, <1>10, <2>6, <2>7, <2>8
  <2> QED
    BY <2>9, <2>10 DEF x, y, Below, Above, n
<1> QED
  BY <1>3, <1>9, <1>10

\* The members passed whose symbol is near the selected one.
LikeUpTo(k) == {m \in 1 .. k : symbols[m] \in nearby[ret]}

\* The relevant values are those of these members, each of them once.
Enumerated ==
    /\ member \in 0 .. Len(symbols)
    /\ relevant \in Seq(Int)
    /\ \E e : Enumerates(e, relevant, data, LikeUpTo(member))

PointInputs ==
    /\ symbols \in Seq(Symbol) \ {<< >>}
    /\ data \in Seq(Int) /\ Len(data) = Len(symbols)

LEMMA NothingEnumerated ==
    ASSUME PointInputs, member = 0, relevant = << >>
    PROVE  Enumerated
<1>1. LikeUpTo(member) = {}
  BY DEF LikeUpTo
<1>2. Len(symbols) \in Nat
  BY Ensemble DEF PointInputs
<1>3. \E e : Enumerates(e, relevant, data, LikeUpTo(member))
  BY <1>1, EmptyEnumeration
<1> QED
  BY <1>2, <1>3 DEF Enumerated

\* getProbableValue looks at one member more.
LEMMA EnumeratedConsider ==
    ASSUME PointInputs, Enumerated, Consider
    PROVE  Enumerated'
<1> DEFINE k == member + 1
           like == symbols[k] \in nearby[ret]
<1>1. /\ member < Len(symbols) /\ member' = k
      /\ relevant' = IF like THEN Append(relevant, data[k]) ELSE relevant
      /\ UNCHANGED <<symbols, data, ret>>
  BY DEF Consider, symbolInfluencesSelection, inputs
<1>2. /\ member \in Nat /\ Len(symbols) \in Nat /\ k \in 1 .. Len(symbols)
      /\ data[k] \in Int /\ relevant \in Seq(Int)
  BY <1>1, Ensemble DEF PointInputs, Enumerated
<1>3. LikeUpTo(member)' = LikeUpTo(member) \cup (IF like THEN {k} ELSE {})
  BY <1>1, <1>2 DEF LikeUpTo
<1>4. PICK e : Enumerates(e, relevant, data, LikeUpTo(member))
  BY DEF Enumerated
<1>5. k \notin LikeUpTo(member)
  BY <1>2 DEF LikeUpTo
<1>6. member' \in 0 .. Len(symbols')
  BY <1>1, <1>2
<1> HIDE DEF k
<1>7. relevant' \in Seq(Int)
  BY <1>1, <1>2
<1>8. \E f : Enumerates(f, relevant', data', LikeUpTo(member)')
  <2>1. CASE ~like
    <3>1. relevant' = relevant /\ data' = data /\ LikeUpTo(member)' = LikeUpTo(member)
      BY <1>1, <1>3, <2>1
    <3> QED
      BY <1>4, <3>1
  <2>2. CASE like
    <3>1. /\ relevant' = Append(relevant, data[k]) /\ data' = data
          /\ LikeUpTo(member)' = LikeUpTo(member) \cup {k}
      BY <1>1, <1>3, <2>2
    <3>2. PICK f : Enumerates(f, Append(relevant, data[k]), data, LikeUpTo(member) \cup {k})
      BY <1>2, <1>4, <1>5, LongerEnumeration
    <3> QED
      BY <3>1, <3>2
  <2> QED
    BY <2>1, <2>2
<1> QED
  BY <1>6, <1>7, <1>8 DEF Enumerated

\* Once all members are passed there is a relevant one: the one that has the
\* selected symbol.
LEMMA SomeAreRelevant ==
    ASSUME PointInputs, Enumerated, member = Len(symbols),
           ret \in Range(symbols)
    PROVE  relevant # << >>
<1>1. Member = 1 .. Len(symbols) /\ ret \in Symbol
  BY Ensemble DEF PointInputs
<1>2. PICK m \in Member : symbols[m] = ret
  BY DEF Range, Member
<1>3. m \in LikeUpTo(member)
  BY <1>1, <1>2, NearbyIsAlike DEF LikeUpTo
<1>4. PICK e : Enumerates(e, relevant, data, LikeUpTo(member))
  BY DEF Enumerated
<1>5. DOMAIN relevant # {}
  BY <1>3, <1>4 DEF Enumerates
<1> QED
  BY <1>5

\* The median of the relevant values is one of the members'.
LEMMA ValueHalves ==
    ASSUME PointInputs, Enumerated, member = Len(symbols), relevant # << >>,
           NEW v, v = medianTwice(relevant)
    PROVE  LET like == {m \in Member : symbols[m] \in nearby[ret]}
               below == {m \in like : 2 * data[m] <= v}
               above == {m \in like : 2 * data[m] >= v}
           IN  /\ like # {}
               /\ 2 * Cardinality(below) >= Cardinality(like)
               /\ 2 * Cardinality(above) >= Cardinality(like)
<1> DEFINE like == {m \in Member : symbols[m] \in nearby[ret]}
           below == {m \in like : 2 * data[m] <= v}
           above == {m \in like : 2 * data[m] >= v}
           I == DOMAIN relevant
           J == {i \in I : 2 * relevant[i] <= v}
           K == {i \in I : 2 * relevant[i] >= v}
<1>1. IsFiniteSet(Member) /\ LikeUpTo(member) = like
  BY Ensemble DEF PointInputs, LikeUpTo
<1>2. IsFiniteSet(like) /\ \A m \in like : data[m] \in Int
  BY <1>1, FS_Subset, Ensemble DEF PointInputs
<1>3. PICK e : Enumerates(e, relevant, data, like)
  BY <1>1 DEF Enumerated
<1>4. I # {} /\ Len(relevant) \in Nat /\ Cardinality(I) = Len(relevant)
  <2>1. relevant \in Seq(Int)
    BY DEF Enumerated
  <2>2. Len(relevant) \in Nat /\ Cardinality(I) = Len(relevant)
    BY <2>1, SequenceSize
  <2>3. Len(relevant) # 0 /\ I = 1 .. Len(relevant)
    BY <2>1
  <2> QED
    BY <2>2, <2>3, FS_EmptySet
<1> HIDE DEF like
<1>5. /\ \A i \in I : relevant[i] = data[e[i]] /\ e[i] \in like
      /\ like \subseteq like
  BY <1>3 DEF Enumerates
<1>6. J \subseteq I /\ below \subseteq like /\ \A i \in I : i \in J <=> e[i] \in below
  BY <1>5
<1>7. K \subseteq I /\ above \subseteq like /\ \A i \in I : i \in K <=> e[i] \in above
  BY <1>5
<1> HIDE DEF J, K, below, above
<1>10. /\ Cardinality(I) = Cardinality(like)
       /\ Cardinality(J) = Cardinality(below)
       /\ Cardinality(K) = Cardinality(above)
  BY <1>2, <1>3, <1>5, <1>6, <1>7, CountedAlike
<1>8. 2 * Cardinality(J) >= Len(relevant) /\ 2 * Cardinality(K) >= Len(relevant)
  BY MedianHalves DEF Enumerated, J, K
<1>9. like # {}
  BY <1>3, <1>4 DEF Enumerates
<1> HIDE DEF I
<1>11. /\ 2 * Cardinality(below) >= Cardinality(like)
       /\ 2 * Cardinality(above) >= Cardinality(like)
  BY <1>4, <1>8, <1>10
<1> QED
  BY <1>9, <1>11 DEF below, above, like

\* Nothing is pushed before a symbol is selected; the value is the median.
ValueInv ==
    /\ PointInputs
    /\ Enumerated
    /\ pc \in {"select", "logic_error"} => member = 0 /\ relevant = << >>
    /\ pc = "done" => /\ member = Len(symbols) /\ relevant # << >>
                      /\ value = medianTwice(relevant)
    /\ pc # "runtime_error"

LEMMA ValueInvInit == Init => ValueInv
<1> SUFFICES ASSUME Init PROVE ValueInv
  OBVIOUS
<1>1. PointInputs
  BY EnsemblesAssumption, DataAssumption DEF Init, PointInputs
<1>2. Enumerated
  BY <1>1, NothingEnumerated DEF Init
<1> QED
  BY <1>1, <1>2 DEF Init, ValueInv

LEMMA ValueInvNext ==
    ASSUME ValueInv, SelectInv, [Next]_vars
    PROVE  ValueInv'
<1>1. PointInputs'
  <2>1. UNCHANGED inputs
    BY DEF Next, NextEntry, Selected, InternalError, Consider, Median, Terminated, vars, inputs
  <2> QED
    BY <2>1 DEF inputs, ValueInv, PointInputs
<1>2. ASSUME UNCHANGED <<symbols, data, ret, member, relevant>>
      PROVE  Enumerated'
  <2>1. LikeUpTo(member)' = LikeUpTo(member)
    BY <1>2 DEF LikeUpTo
  <2> QED
    BY <1>2, <2>1 DEF ValueInv, Enumerated
<1>3. CASE NextEntry
  <2>1. member' = 0 /\ relevant' = << >> /\ pc' = "select"
    BY <1>3 DEF NextEntry, ValueInv
  <2>2. LikeUpTo(member)' = {}
    BY <2>1 DEF LikeUpTo
  <2>3. \E e : Enumerates(e, relevant', data', LikeUpTo(member)')
    BY <2>1, <2>2, EmptyEnumeration
  <2>4. Len(symbols') \in Nat
    BY <1>1 DEF PointInputs
  <2>5. Enumerated'
    BY <2>1, <2>3, <2>4 DEF Enumerated
  <2> QED
    BY <1>1, <2>1, <2>5 DEF ValueInv
<1>4. CASE Selected
  BY <1>1, <1>2, <1>4 DEF Selected, inputs, ValueInv
<1>5. CASE InternalError
  BY <1>1, <1>2, <1>5 DEF InternalError, inputs, ValueInv
<1>6. CASE Consider
  <2>1. Enumerated'
    BY <1>6, EnumeratedConsider DEF ValueInv
  <2> QED
    BY <1>1, <1>6, <2>1 DEF Consider, ValueInv
<1>7. CASE Median
  <2>1. Enumerated'
    BY <1>2, <1>7 DEF Median, inputs
  <2>2. ret \in Range(symbols) /\ member = Len(symbols)
    BY <1>7 DEF Median, SelectInv, LoopInv
  <2>3. relevant # << >>
    BY <2>2, SomeAreRelevant DEF ValueInv
  <2>4. /\ UNCHANGED <<symbols, member, relevant>>
        /\ pc' = "done" /\ value' = medianTwice(relevant)
    BY <1>7, <2>3 DEF Median, inputs
  <2>5. medianTwice(relevant') = medianTwice(relevant)
    BY <2>4
  <2> QED
    BY <1>1, <2>1, <2>2, <2>3, <2>4, <2>5 DEF ValueInv
<1>8. CASE UNCHANGED vars
  <2>1. Enumerated'
    BY <1>2, <1>8 DEF vars
  <2> QED
    BY <1>1, <1>8, <2>1 DEF vars, ValueInv
<1> QED
  BY <1>3, <1>4, <1>5, <1>6, <1>7, <1>8 DEF Next, Terminated

\* The most probable value of a parameter lies in the middle of the values of
\* the members whose weather is near the selected symbol, of which there is
\* always one: getProbableValue never throws, however large the ensemble is.
THEOREM ValueIsOfTheSelectedWeather == Spec => []ValueOfTheSelectedWeather
<1>1. Init => ValueInv
  BY ValueInvInit
<1>2. ValueInv /\ SelectInv /\ [Next]_vars => ValueInv'
  BY ValueInvNext
<1>3. ValueInv => ValueOfTheSelectedWeather
  <2> SUFFICES ASSUME ValueInv PROVE ValueOfTheSelectedWeather
    OBVIOUS
  <2>1. pc = "done" => MedianOver({m \in Member : symbols[m] \in nearby[ret]}, value)
    BY ValueHalves DEF ValueInv, MedianOver
  <2> QED
    BY <2>1 DEF ValueInv, ValueOfTheSelectedWeather
<1> QED
  BY <1>1, <1>2, <1>3, SelectInvHolds, PTL DEF Spec

-----------------------------------------------------------------------------
(* Fields *)

\* The codes of the members at a point, and the values of a parameter.
At(collection, g) == [m \in DOMAIN collection |-> collection[m][g]]

GivenFields ==
    /\ weather \in Seq(Seq(Symbol) \ {<< >>}) \ {<< >>}
    /\ \A m \in DOMAIN weather : Len(weather[m]) = PointCount
    /\ requests \in Seq(Seq(Seq(Int)))
    /\ precipFraction \in Fractions

\* The points at which the members' symbols have been written.
Written(g) ==
    \/ phase = "values"
    \/ phase = "symbols" /\ g <= point
    \/ phase = "symbols" /\ pc # "idle" /\ g = point + 1

SymbolsWritten ==
    /\ point \in 0 .. PointCount
    /\ allSymbols \in [DOMAIN weather -> [1 .. PointCount -> Nat]]
    /\ \A m \in DOMAIN weather, g \in 1 .. PointCount :
          Written(g) => allSymbols[m][g] = weather[m][g]

AtSymbol ==
    phase = "symbols" =>
        /\ pc \in {"idle", "select", "consider"}
        /\ dataOut = << >> /\ fields = << >>
        /\ pc # "idle" =>
              /\ point < PointCount
              /\ symbols = At(weather, point + 1)
              /\ visited \subseteq Range(symbols)
              /\ ret = Error \/ ret \in Range(symbols)
              /\ pc = "consider" => ret # Error

SymbolsKept ==
    /\ phase \in {"symbols", "values", "failed", "saved"}
    /\ symbolOut \in Seq(Symbol) /\ certaintyOut \in Seq(Nat) /\ certainty \in Nat
    /\ Len(symbolOut) \in 0 .. PointCount /\ Len(certaintyOut) = Len(symbolOut)
    /\ phase = "symbols" => Len(symbolOut) = point
    /\ phase \in {"values", "saved"} => Len(symbolOut) = PointCount
    /\ \A g \in DOMAIN symbolOut : \E m \in DOMAIN weather : weather[m][g] = symbolOut[g]

AtValue ==
    phase = "values" =>
        /\ pc \in {"idle", "consider", "done"}
        /\ pc # "idle" =>
              /\ Len(fields) < Len(requests) /\ point < PointCount
              /\ SameSize /\ Complete(parameter, point)
              /\ symbols = At(weather, point + 1)
              /\ data = At(parameter, point + 1)
              /\ ret = symbolOut[point + 1]
              /\ visited = {} /\ count = 0
              /\ Enumerated
              /\ pc = "consider" => value = 0
              /\ pc = "done" => /\ member = Len(symbols) /\ relevant # << >>
                                /\ value = medianTwice(relevant)

\* v is a median of a parameter over the members like the symbol of the point.
MedianAt(collection, g, v) ==
    LET like == Like(g, symbolOut[g])
        below == {m \in like : 2 * collection[m][g] <= v}
        above == {m \in like : 2 * collection[m][g] >= v}
    IN  /\ 2 * Cardinality(below) >= Cardinality(like)
        /\ 2 * Cardinality(above) >= Cardinality(like)

ValuesKept ==
    /\ dataOut \in Seq(Int)
    /\ Len(dataOut) \in 0 .. PointCount
    /\ phase = "values" => Len(dataOut) = point
    /\ phase = "values" /\ point > 0 =>
          /\ Len(fields) < Len(requests) /\ Len(parameter) = Len(weather)
          /\ \A m \in DOMAIN parameter : point <= Len(parameter[m])
    /\ phase = "values" => \A g \in DOMAIN dataOut : MedianAt(parameter, g, dataOut[g])

FieldsKept ==
    /\ fields \in Seq(Seq(Int)) /\ Len(fields) <= Len(requests)
    /\ \A n \in DOMAIN fields :
          /\ Fits(requests[n]) /\ Len(fields[n]) = PointCount
          /\ \A g \in DOMAIN fields[n] : MedianAt(requests[n], g, fields[n][g])

FieldInv ==
    /\ GivenFields /\ SymbolsWritten /\ AtSymbol /\ SymbolsKept
    /\ AtValue /\ ValuesKept /\ FieldsKept

\* The values a cross container goes over, and whether all can be had.
LEMMA CrossElements ==
    ASSUME NEW S, NEW c \in Seq(S), NEW g \in Int
    PROVE  Elements(c, g) = At(c, g + 1)
<1>1. DOMAIN c = 1 .. Len(c) /\ Len(c) \in Nat
  OBVIOUS
<1>2. Distance(end(c, g), begin(g)) = Len(c)
  BY <1>1 DEF Distance, end, begin
<1>3. ASSUME NEW m \in 1 .. Len(c)
      PROVE  Value(c, Moved(begin(g), m - 1)) = c[m][g + 1]
  <2>1. Moved(begin(g), m - 1) = [constIndex_ |-> g, toIterateIndex_ |-> m - 1]
    BY <1>3 DEF Moved, begin
  <2>2. m - 1 + 1 = m
    BY <1>3
  <2> QED
    BY <2>1, <2>2 DEF Value
<1> QED
  BY <1>1, <1>2, <1>3 DEF Elements, At

LEMMA CrossComplete ==
    ASSUME NEW S, NEW c \in Seq(Seq(S)), NEW g \in Nat
    PROVE  Complete(c, g) <=> \A m \in DOMAIN c : g < Len(c[m])
<1>1. /\ DOMAIN c = 1 .. Len(c) /\ Len(c) \in Nat
      /\ \A m \in DOMAIN c : Len(c[m]) \in Nat
  OBVIOUS
<1>2. ASSUME NEW m \in 0 .. Len(c) - 1
      PROVE  InRange(c, Moved(begin(g), m)) <=> g < Len(c[m + 1])
  <2>1. Moved(begin(g), m) = [constIndex_ |-> g, toIterateIndex_ |-> m]
    BY <1>2 DEF Moved, begin
  <2>2. m + 1 \in DOMAIN c
    BY <1>1, <1>2
  <2>3. Len(c[m + 1]) \in Nat
    BY <1>1, <2>2
  <2> QED
    BY <1>2, <2>1, <2>3 DEF InRange
<1>3. \A m \in DOMAIN c : m - 1 \in 0 .. Len(c) - 1 /\ m - 1 + 1 = m
  BY <1>1
<1>4. \A m \in 0 .. Len(c) - 1 : m + 1 \in DOMAIN c
  BY <1>1
<1> QED
  BY <1>2, <1>3, <1>4 DEF Complete

\* The given collections have members and points.
LEMMA Grid ==
    ASSUME GivenFields
    PROVE  /\ PointCount \in Nat \ {0}
           /\ Len(weather) \in Nat \ {0} /\ DOMAIN weather = 1 .. Len(weather)
           /\ \A m \in DOMAIN weather, g \in 1 .. PointCount : weather[m][g] \in Symbol
           /\ \A g \in 1 .. PointCount :
                 /\ At(weather, g) \in Seq(Symbol) \ {<< >>}
                 /\ Len(At(weather, g)) = Len(weather)
                 /\ \A s \in Range(At(weather, g)) :
                       s \in Symbol /\ \E m \in DOMAIN weather : weather[m][g] = s
<1>1. /\ Len(weather) \in Nat \ {0} /\ DOMAIN weather = 1 .. Len(weather)
      /\ \A m \in DOMAIN weather : weather[m] \in Seq(Symbol) \ {<< >>}
  BY DEF GivenFields
<1>2. PointCount \in Nat \ {0}
  <2>1. weather[1] \in Seq(Symbol) \ {<< >>}
    BY <1>1
  <2> QED
    BY <2>1 DEF PointCount
<1>3. ASSUME NEW m \in DOMAIN weather, NEW g \in 1 .. PointCount
      PROVE  weather[m][g] \in Symbol
  <2>1. Len(weather[m]) = PointCount /\ weather[m] \in Seq(Symbol)
    BY <1>1 DEF GivenFields
  <2> QED
    BY <2>1, ElementOfSeq
<1>4. ASSUME NEW g \in 1 .. PointCount
      PROVE  /\ At(weather, g) \in Seq(Symbol) \ {<< >>}
             /\ Len(At(weather, g)) = Len(weather)
             /\ \A s \in Range(At(weather, g)) :
                   s \in Symbol /\ \E m \in DOMAIN weather : weather[m][g] = s
  <2>1. At(weather, g) \in [1 .. Len(weather) -> Symbol]
    BY <1>1, <1>3 DEF At
  <2>2. At(weather, g) \in Seq(Symbol)
    BY <1>1, <2>1, SeqDef
  <2>3. Len(At(weather, g)) = Len(weather)
    BY <1>1, <2>1, <2>2
  <2>4. At(weather, g) # << >>
    BY <1>1, <2>3
  <2>5. \A s \in Range(At(weather, g)) : \E m \in DOMAIN weather : weather[m][g] = s
    BY DEF Range, At
  <2> QED
    BY <1>3, <2>2, <2>3, <2>4, <2>5
<1> QED
  BY <1>1, <1>2, <1>3, <1>4

LEMMA SymbolsAtPoint ==
    ASSUME GivenFields, SymbolsWritten
    PROVE  /\ Len(allSymbols) = Len(weather)
           /\ \A g \in 1 .. PointCount : Written(g) => Elements(allSymbols, g - 1) = At(weather, g)
<1>1. /\ PointCount \in Nat \ {0}
      /\ Len(weather) \in Nat \ {0} /\ DOMAIN weather = 1 .. Len(weather)
  BY Grid
<1>2. allSymbols \in [1 .. Len(weather) -> [1 .. PointCount -> Nat]]
  BY <1>1 DEF SymbolsWritten
<1>3. allSymbols \in Seq([1 .. PointCount -> Nat])
  BY <1>1, <1>2, SeqDef
<1>4. Len(allSymbols) = Len(weather)
  BY <1>1, <1>2, <1>3
<1>5. ASSUME NEW g \in 1 .. PointCount, Written(g)
      PROVE  Elements(allSymbols, g - 1) = At(weather, g)
  <2>1. g - 1 \in Int /\ g - 1 + 1 = g
    BY <1>1, <1>5
  <2>2. Elements(allSymbols, g - 1) = At(allSymbols, g)
    BY <1>3, <2>1, CrossElements
  <2>3. At(allSymbols, g) = At(weather, g)
    BY <1>1, <1>2, <1>5 DEF At, SymbolsWritten
  <2> QED
    BY <2>2, <2>3
<1> QED
  BY <1>4, <1>5

LEMMA FieldInvInit == FieldInit => FieldInv
<1> SUFFICES ASSUME FieldInit PROVE FieldInv
  OBVIOUS
<1>1. GivenFields
  BY FieldAssumption DEF FieldInit, GivenFields, PointCount
<1>2. SymbolsWritten
  <2>1. /\ PointCount \in Nat \ {0} /\ DOMAIN weather = 1 .. Len(weather)
    BY <1>1, Grid
  <2>2. allSymbols = [m \in DOMAIN weather |-> [g \in 1 .. PointCount |-> 0]]
    BY <2>1 DEF FieldInit, getEqualSizeBlobCollection, getBlobCollection, PointCount
  <2>3. \A g \in 1 .. PointCount : ~Written(g)
    BY <2>1 DEF FieldInit, Written
  <2> QED
    BY <2>1, <2>2, <2>3 DEF FieldInit, SymbolsWritten
<1>3. Len(<< >>) = 0 /\ DOMAIN << >> = {}
  OBVIOUS
<1>4. SymbolsKept
  BY <1>1, <1>3, Grid DEF FieldInit, SymbolsKept
<1>5. ValuesKept
  BY <1>1, <1>3, Grid DEF FieldInit, ValuesKept
<1>6. FieldsKept
  <2>1. Len(requests) \in Nat
    BY <1>1 DEF GivenFields
  <2> QED
    BY <1>3, <2>1 DEF FieldInit, FieldsKept
<1>7. AtSymbol /\ AtValue
  BY DEF FieldInit, AtSymbol, AtValue
<1> QED
  BY <1>1, <1>2, <1>4, <1>5, <1>6, <1>7 DEF FieldInv

-----------------------------------------------------------------------------
(* Steps that select the symbols. *)

\* What is given stays, and so does what the fields that are kept are about.
LEMMA FieldsStay ==
    ASSUME FieldInv, [FieldNext]_<<fieldVars, vars>>
    PROVE  /\ UNCHANGED <<weather, requests, precipFraction>>
           /\ GivenFields'
<1>1. UNCHANGED <<weather, requests, precipFraction>>
  BY DEF FieldNext, GetSymbols, OutOfRange, Select, NoSymbol, StoreSymbol, SymbolsStored,
         BeginPoint, Choose, StoreValue, ParameterStored, ParameterFails, SaveAll,
         NextParameter, Over, NextEntry, Selected, InternalError, Consider, Median, fieldVars,
         givenVars, vars, inputs
<1> QED
  BY <1>1 DEF FieldInv, GivenFields, PointCount

\* Kept fields: nothing of them changes but that one may be added.
LEMMA KeptStays ==
    ASSUME UNCHANGED <<weather, requests, symbolOut>>
    PROVE  /\ PointCount' = PointCount
           /\ \A c, g, v : MedianAt(c, g, v)' = MedianAt(c, g, v)
           /\ \A c : Fits(c)' = Fits(c)
           /\ \A c, g : At(c, g)' = At(c, g)
BY DEF PointCount, MedianAt, Like, Fits, At

LEMMA FieldsKeptStays ==
    ASSUME FieldsKept, UNCHANGED <<weather, requests, symbolOut, fields>>
    PROVE  FieldsKept'
<1>1. \A c, g, v : MedianAt(c, g, v)' = MedianAt(c, g, v)
  BY DEF MedianAt, Like
<1> QED
  BY <1>1 DEF FieldsKept, Fits, PointCount

LEMMA ValuesKeptStays ==
    ASSUME ValuesKept, UNCHANGED <<weather, requests, symbolOut, fields, dataOut, point, phase>>
    PROVE  ValuesKept'
<1>1. \A c, g, v : MedianAt(c, g, v)' = MedianAt(c, g, v)
  BY DEF MedianAt, Like
<1>2. parameter' = parameter /\ PointCount' = PointCount
  BY DEF parameter, PointCount
<1> QED
  BY <1>1, <1>2 DEF ValuesKept

\* While symbols are selected there are no values.
LEMMA NoValuesYet ==
    ASSUME FieldInv, GivenFields', phase = "symbols", phase' \in {"symbols", "failed"},
           UNCHANGED <<dataOut, fields>>
    PROVE  AtValue' /\ ValuesKept' /\ FieldsKept'
<1>1. /\ Len(<< >>) = 0 /\ DOMAIN << >> = {} /\ dataOut' = << >> /\ fields' = << >>
      /\ << >> \in Seq(Int) /\ << >> \in Seq(Seq(Int))
  BY DEF FieldInv, AtSymbol
<1>2. Len(requests') \in Nat /\ PointCount' \in Nat
  BY Grid DEF GivenFields
<1> QED
  BY <1>1, <1>2 DEF AtValue, ValuesKept, FieldsKept

LEMMA FieldInvGetSymbols ==
    ASSUME FieldInv, GetSymbols
    PROVE  FieldInv'
<1>1. /\ phase = "symbols" /\ pc = "idle" /\ point < PointCount
      /\ allSymbols' = WithSymbols /\ symbols' = Elements(allSymbols', point)
      /\ pc' = "select" /\ visited' = {} /\ ret' = Error
      /\ UNCHANGED <<weather, requests, precipFraction, symbolOut, certaintyOut, dataOut, fields,
                     phase, point, certainty>>
  BY DEF GetSymbols, givenVars
<1>2. GivenFields' /\ PointCount' = PointCount
  BY <1>1 DEF FieldInv, GivenFields, PointCount
<1>3. /\ point \in 0 .. PointCount /\ PointCount \in Nat
      /\ allSymbols \in [DOMAIN weather -> [1 .. PointCount -> Nat]]
      /\ DOMAIN weather = 1 .. Len(weather) /\ Len(weather) \in Nat
      /\ \A m \in DOMAIN weather, g \in 1 .. PointCount : weather[m][g] \in Nat
  BY Grid, Codes DEF FieldInv, SymbolsWritten
<1>4. point + 1 \in 1 .. PointCount
  BY <1>1, <1>3
<1>5. ASSUME NEW m \in DOMAIN weather
      PROVE  Value(weather, Moved(begin(point), m - 1)) = weather[m][point + 1]
  <2>1. Moved(begin(point), m - 1) = [constIndex_ |-> point, toIterateIndex_ |-> m - 1]
    BY <1>3, <1>5 DEF Moved, begin
  <2>2. m - 1 + 1 = m
    BY <1>3, <1>5
  <2> QED
    BY <2>1, <2>2 DEF Value
<1>6. allSymbols' =
          [m \in DOMAIN weather |-> [allSymbols[m] EXCEPT ![point + 1] = weather[m][point + 1]]]
  BY <1>1, <1>5 DEF WithSymbols
<1>7. /\ allSymbols' \in [DOMAIN weather -> [1 .. PointCount -> Nat]]
      /\ \A m \in DOMAIN weather, g \in 1 .. PointCount :
            allSymbols'[m][g] = IF g = point + 1 THEN weather[m][g] ELSE allSymbols[m][g]
  BY <1>3, <1>4, <1>6
<1>8. \A g \in 1 .. PointCount : Written(g)' => g = point + 1 \/ Written(g)
  BY <1>1, <1>3 DEF Written
<1>9. SymbolsWritten'
  BY <1>1, <1>2, <1>3, <1>7, <1>8 DEF FieldInv, SymbolsWritten
<1>10. symbols' = At(weather, point + 1)
  <2>1. Elements(allSymbols', point) = At(allSymbols', point + 1)
    <3>1. allSymbols' \in Seq([1 .. PointCount -> Nat])
      BY <1>3, <1>7, SeqDef
    <3> QED
      BY <1>3, <3>1, CrossElements
  <2>2. At(allSymbols', point + 1) = At(weather, point + 1)
    BY <1>4, <1>7 DEF At
  <2> QED
    BY <1>1, <2>1, <2>2
<1>11. AtSymbol'
  <2>1. symbols' = At(weather', point' + 1)
    BY <1>1, <1>10
  <2> QED
    BY <1>1, <1>2, <2>1 DEF FieldInv, AtSymbol, At
<1>12. SymbolsKept'
  BY <1>1, <1>2 DEF FieldInv, SymbolsKept
<1> QED
  BY <1>1, <1>2, <1>9, <1>11, <1>12, NoValuesYet DEF FieldInv

\* Where the symbols of the members, once written, are looked at.
LEMMA WrittenStays ==
    ASSUME SymbolsWritten, UNCHANGED <<weather, allSymbols, point>>,
           \A g \in 1 .. PointCount : Written(g)' => Written(g)
    PROVE  SymbolsWritten'
<1>1. PointCount' = PointCount
  BY DEF PointCount
<1> QED
  BY <1>1 DEF SymbolsWritten

LEMMA FieldInvSelect ==
    ASSUME FieldInv, Select
    PROVE  FieldInv'
<1>1. /\ phase = "symbols" /\ (NextEntry \/ Selected)
      /\ UNCHANGED <<weather, requests, allSymbols, symbolOut, certaintyOut, dataOut, fields,
                     phase, point>>
  BY DEF Select, fieldVars, givenVars
<1>2. /\ pc = "select" /\ UNCHANGED <<symbols, precipFraction>>
  BY <1>1 DEF NextEntry, Selected, inputs
<1>3. GivenFields' /\ PointCount' = PointCount
  BY <1>1, <1>2 DEF FieldInv, GivenFields, PointCount
<1>4. /\ point < PointCount /\ symbols = At(weather, point + 1)
      /\ visited \subseteq Range(symbols)
      /\ ret = Error \/ ret \in Range(symbols)
  BY <1>1, <1>2 DEF FieldInv, AtSymbol
<1>5. SymbolsWritten'
  <2>1. \A g \in 1 .. PointCount : Written(g)' => Written(g)
    BY <1>1, <1>2 DEF Written
  <2> QED
    BY <1>1, <2>1, WrittenStays DEF FieldInv
<1>6. symbols \in Seq(Symbol) \ {<< >>}
  <2>1. point + 1 \in 1 .. PointCount
    BY <1>4, Grid DEF FieldInv, SymbolsWritten
  <2> QED
    BY <1>4, <2>1, Grid DEF FieldInv
<1>7. CASE NextEntry
  <2>1. PICK s \in Range(symbols) \ visited :
            visited' = visited \cup {s} /\ ret' = IF Preferred(s) THEN s ELSE ret
    BY <1>7 DEF NextEntry, Entries
  <2>2. pc' = pc /\ certainty' = certainty
    BY <1>7 DEF NextEntry
  <2>3. AtSymbol'
    BY <1>1, <1>2, <1>3, <1>4, <2>1, <2>2 DEF FieldInv, AtSymbol, At
  <2>4. SymbolsKept'
    BY <1>1, <1>3, <2>2 DEF FieldInv, SymbolsKept
  <2> QED
    BY <1>1, <1>3, <1>5, <2>3, <2>4, NoValuesYet DEF FieldInv
<1>8. CASE Selected
  <2>1. /\ pc' = "consider" /\ ret # Error /\ certainty' = getProbabilityOf(ret)
        /\ UNCHANGED <<visited, ret>>
    BY <1>8 DEF Selected
  <2>2. certainty' \in Nat
    <3>1. getProbabilityOf(ret) \in 0 .. Len(symbols) /\ Len(symbols) \in Nat
      BY <1>6, Ensemble DEF getProbabilityOf
    <3> QED
      BY <2>1, <3>1
  <2>3. AtSymbol'
    BY <1>1, <1>2, <1>3, <1>4, <2>1 DEF FieldInv, AtSymbol, At
  <2>4. SymbolsKept'
    BY <1>1, <1>3, <2>2 DEF FieldInv, SymbolsKept
  <2> QED
    BY <1>1, <1>3, <1>5, <2>3, <2>4, NoValuesYet DEF FieldInv
<1> QED
  BY <1>1, <1>7, <1>8

\* The loop fails: nothing is made.
LEMMA FieldInvFailed ==
    ASSUME FieldInv, OutOfRange \/ NoSymbol
    PROVE  FieldInv'
<1>1. /\ phase = "symbols" /\ phase' = "failed"
      /\ UNCHANGED <<weather, requests, precipFraction, allSymbols, symbolOut, certaintyOut,
                     dataOut, fields, point, certainty>>
  BY DEF OutOfRange, NoSymbol, InternalError, givenVars, vars, inputs
<1>2. GivenFields' /\ PointCount' = PointCount
  BY <1>1 DEF FieldInv, GivenFields, PointCount
<1>3. SymbolsWritten'
  <2>1. \A g \in 1 .. PointCount : Written(g)' => Written(g)
    BY <1>1 DEF Written
  <2> QED
    BY <1>1, <2>1, WrittenStays DEF FieldInv
<1>4. AtSymbol'
  BY <1>1 DEF AtSymbol
<1>5. SymbolsKept'
  BY <1>1, <1>2 DEF FieldInv, SymbolsKept
<1> QED
  BY <1>1, <1>2, <1>3, <1>4, <1>5, NoValuesYet DEF FieldInv

LEMMA FieldInvStoreSymbol ==
    ASSUME FieldInv, StoreSymbol
    PROVE  FieldInv'
<1>1. /\ phase = "symbols" /\ pc = "consider" /\ pc' = "idle" /\ point' = point + 1
      /\ symbolOut' = Append(symbolOut, ret) /\ certaintyOut' = Append(certaintyOut, certainty)
      /\ UNCHANGED <<weather, requests, precipFraction, allSymbols, dataOut, fields, phase,
                     certainty>>
  BY DEF StoreSymbol, givenVars, inputs
<1>2. GivenFields' /\ PointCount' = PointCount
  BY <1>1 DEF FieldInv, GivenFields, PointCount
<1>3. /\ point \in Nat /\ PointCount \in Nat /\ point < PointCount
      /\ symbols = At(weather, point + 1) /\ ret \in Range(symbols)
      /\ symbolOut \in Seq(Symbol) /\ certaintyOut \in Seq(Nat) /\ certainty \in Nat
      /\ Len(symbolOut) = point /\ Len(certaintyOut) = point
  BY <1>1, Grid DEF FieldInv, SymbolsWritten, AtSymbol, SymbolsKept
<1>4. point + 1 \in 1 .. PointCount /\ point + 1 \in 0 .. PointCount
  BY <1>3
<1>5. ret \in Symbol /\ \E m \in DOMAIN weather : weather[m][point + 1] = ret
  BY <1>3, <1>4, Grid DEF FieldInv
<1>6. SymbolsWritten'
  <2>1. \A g \in 1 .. PointCount : Written(g)' => Written(g)
    BY <1>1, <1>3 DEF Written
  <2> QED
    BY <1>1, <1>2, <1>4, <2>1 DEF FieldInv, SymbolsWritten
<1>7. AtSymbol'
  BY <1>1 DEF FieldInv, AtSymbol
<1>8. SymbolsKept'
  <2>1. /\ symbolOut' \in Seq(Symbol) /\ Len(symbolOut') = point + 1
        /\ certaintyOut' \in Seq(Nat) /\ Len(certaintyOut') = point + 1
    BY <1>1, <1>3, <1>5
  <2>2. \A g \in DOMAIN symbolOut' :
            \/ g \in DOMAIN symbolOut /\ symbolOut'[g] = symbolOut[g]
            \/ g = point + 1 /\ symbolOut'[g] = ret
    BY <1>1, <1>3
  <2>3. \A g \in DOMAIN symbolOut' : \E m \in DOMAIN weather : weather[m][g] = symbolOut'[g]
    BY <1>5, <2>2 DEF FieldInv, SymbolsKept
  <2> QED
    BY <1>1, <1>2, <1>3, <1>4, <2>1, <2>3 DEF SymbolsKept
<1> QED
  BY <1>1, <1>2, <1>6, <1>7, <1>8, NoValuesYet DEF FieldInv

LEMMA FieldInvSymbolsStored ==
    ASSUME FieldInv, SymbolsStored
    PROVE  FieldInv'
<1>1. /\ phase = "symbols" /\ pc = "idle" /\ point = PointCount
      /\ phase' = "values" /\ point' = 0 /\ pc' = pc
      /\ UNCHANGED <<weather, requests, precipFraction, allSymbols, symbolOut, certaintyOut,
                     dataOut, fields, certainty>>
  BY DEF SymbolsStored, givenVars, vars, inputs
<1>2. GivenFields' /\ PointCount' = PointCount
  BY <1>1 DEF FieldInv, GivenFields, PointCount
<1>3. /\ PointCount \in Nat /\ dataOut = << >> /\ fields = << >> /\ Len(requests) \in Nat
  BY <1>1, Grid DEF FieldInv, AtSymbol, GivenFields
<1>4. SymbolsWritten'
  <2>1. \A g \in 1 .. PointCount : Written(g)
    BY <1>1, <1>3 DEF Written
  <2> QED
    BY <1>1, <1>2, <1>3, <2>1 DEF FieldInv, SymbolsWritten
<1>5. AtSymbol' /\ AtValue'
  BY <1>1 DEF AtSymbol, AtValue
<1>6. SymbolsKept'
  BY <1>1, <1>2 DEF FieldInv, SymbolsKept
<1>7. ValuesKept' /\ FieldsKept'
  <2>1. Len(<< >>) = 0 /\ DOMAIN << >> = {} /\ << >> \in Seq(Int) /\ << >> \in Seq(Seq(Int))
    OBVIOUS
  <2> QED
    BY <1>1, <1>2, <1>3, <2>1 DEF ValuesKept, FieldsKept
<1> QED
  BY <1>2, <1>4, <1>5, <1>6, <1>7 DEF FieldInv

-----------------------------------------------------------------------------
(* Steps that select the values. *)

\* The symbols are all there and stay.
LEMMA SymbolsStay ==
    ASSUME FieldInv, phase = "values", phase' = "values", point' \in 0 .. PointCount,
           UNCHANGED <<weather, requests, precipFraction, allSymbols, symbolOut, certaintyOut>>,
           certainty' \in Nat
    PROVE  GivenFields' /\ SymbolsWritten' /\ AtSymbol' /\ SymbolsKept' /\ PointCount' = PointCount
<1>1. GivenFields' /\ PointCount' = PointCount
  BY DEF FieldInv, GivenFields, PointCount
<1>2. SymbolsWritten'
  BY <1>1 DEF FieldInv, SymbolsWritten, Written
<1>3. AtSymbol' /\ SymbolsKept'
  BY <1>1 DEF FieldInv, AtSymbol, SymbolsKept
<1> QED
  BY <1>1, <1>2, <1>3

\* What is looked at in the round of a point: the values of SymbolSelection.
LEMMA InRound ==
    ASSUME FieldInv, phase = "values", pc # "idle"
    PROVE  /\ PointInputs /\ Enumerated
           /\ ret \in Range(symbols)
           /\ point + 1 \in 1 .. PointCount /\ point \in Nat
           /\ parameter \in Seq(Seq(Int)) /\ Len(parameter) = Len(weather)
           /\ \A m \in DOMAIN parameter : point + 1 <= Len(parameter[m])
           /\ symbols = At(weather, point + 1) /\ data = At(parameter, point + 1)
           /\ ret = symbolOut[point + 1]
<1>1. /\ Len(fields) < Len(requests) /\ point < PointCount
      /\ SameSize /\ Complete(parameter, point)
      /\ symbols = At(weather, point + 1) /\ data = At(parameter, point + 1)
      /\ ret = symbolOut[point + 1] /\ Enumerated
  BY DEF FieldInv, AtValue
<1>2. /\ PointCount \in Nat \ {0} /\ point \in 0 .. PointCount
      /\ Len(weather) \in Nat \ {0} /\ DOMAIN weather = 1 .. Len(weather)
  BY Grid DEF FieldInv, SymbolsWritten
<1>3. point + 1 \in 1 .. PointCount /\ point \in Nat
  BY <1>1, <1>2
<1>4. parameter \in Seq(Seq(Int))
  <2>1. /\ requests \in Seq(Seq(Seq(Int))) /\ fields \in Seq(Seq(Int))
    BY DEF FieldInv, GivenFields, FieldsKept
  <2>2. Len(fields) + 1 \in 1 .. Len(requests)
    BY <1>1, <2>1
  <2> QED
    BY <2>1, <2>2, ElementOfSeq DEF parameter
<1>5. Len(parameter) = Len(weather) /\ DOMAIN parameter = 1 .. Len(weather)
  <2>1. Len(parameter) = Len(weather)
    BY <1>1, SymbolsAtPoint DEF SameSize, FieldInv
  <2> QED
    BY <1>4, <2>1
<1>6. \A m \in DOMAIN parameter : parameter[m] \in Seq(Int) /\ point < Len(parameter[m])
  BY <1>1, <1>3, <1>4, CrossComplete
<1>7. \A m \in DOMAIN parameter : point + 1 <= Len(parameter[m])
                                  /\ parameter[m][point + 1] \in Int
  <2>1. ASSUME NEW m \in DOMAIN parameter
        PROVE  point + 1 \in 1 .. Len(parameter[m]) /\ parameter[m] \in Seq(Int)
    BY <1>3, <1>6
  <2>2. \A m \in DOMAIN parameter : parameter[m][point + 1] \in Int
    BY <2>1, ElementOfSeq
  <2> QED
    BY <2>1, <2>2
<1>8. data \in Seq(Int) /\ Len(data) = Len(weather)
  <2>1. data \in [1 .. Len(weather) -> Int]
    BY <1>1, <1>5, <1>7 DEF At
  <2>2. data \in Seq(Int)
    BY <1>2, <2>1, SeqDef
  <2> QED
    BY <1>2, <2>1, <2>2
<1>9. symbols \in Seq(Symbol) \ {<< >>} /\ Len(symbols) = Len(weather)
  BY <1>1, <1>3, Grid DEF FieldInv
<1>10. ret \in Range(symbols)
  <2>1. point + 1 \in DOMAIN symbolOut
    BY <1>3 DEF FieldInv, SymbolsKept
  <2>2. PICK m \in DOMAIN weather : weather[m][point + 1] = ret
    BY <1>1, <2>1 DEF FieldInv, SymbolsKept
  <2> QED
    BY <1>1, <2>2 DEF At, Range
<1> QED
  BY <1>1, <1>3, <1>4, <1>5, <1>7, <1>8, <1>9, <1>10 DEF PointInputs

LEMMA FieldInvBeginPoint ==
    ASSUME FieldInv, BeginPoint
    PROVE  FieldInv'
<1>1. /\ phase = "values" /\ pc = "idle" /\ Len(fields) < Len(requests) /\ point < PointCount
      /\ SameSize /\ Complete(parameter, point)
      /\ symbols' = Elements(allSymbols, point) /\ data' = Elements(parameter, point)
      /\ ret' = symbolOut[point + 1] /\ certainty' = certaintyOut[point + 1]
      /\ visited' = {} /\ count' = 0
      /\ member' = 0 /\ relevant' = << >> /\ value' = 0 /\ pc' = "consider"
      /\ UNCHANGED <<weather, requests, precipFraction, allSymbols, symbolOut, certaintyOut,
                     dataOut, fields, phase, point>>
  BY DEF BeginPoint, fieldVars, givenVars
<1>2. /\ PointCount \in Nat \ {0} /\ point \in 0 .. PointCount
  BY Grid DEF FieldInv, SymbolsWritten
<1>3. point + 1 \in 1 .. PointCount /\ point + 1 - 1 = point /\ point \in Nat
  BY <1>1, <1>2
<1>4. symbols' = At(weather, point + 1)
  <2>1. Written(point + 1)
    BY <1>1 DEF Written
  <2>2. Elements(allSymbols, point + 1 - 1) = At(weather, point + 1)
    BY <1>3, <2>1, SymbolsAtPoint DEF FieldInv
  <2> QED
    BY <1>1, <1>3, <2>2
<1>5. data' = At(parameter, point + 1)
  <2>1. parameter \in Seq(Seq(Int))
    <3>1. /\ requests \in Seq(Seq(Seq(Int))) /\ fields \in Seq(Seq(Int))
      BY DEF FieldInv, GivenFields, FieldsKept
    <3>2. Len(fields) + 1 \in 1 .. Len(requests)
      BY <1>1, <3>1
    <3> QED
      BY <3>1, <3>2, ElementOfSeq DEF parameter
  <2> QED
    BY <1>1, <1>3, <2>1, CrossElements
<1>6. certainty' \in Nat
  <2>1. certaintyOut \in Seq(Nat) /\ point + 1 \in 1 .. Len(certaintyOut)
    BY <1>1, <1>3 DEF FieldInv, SymbolsKept
  <2> QED
    BY <1>1, <2>1, ElementOfSeq
<1>7. GivenFields' /\ SymbolsWritten' /\ AtSymbol' /\ SymbolsKept' /\ PointCount' = PointCount
  BY <1>1, <1>2, <1>6, SymbolsStay
<1>8. Enumerated'
  <2>1. LikeUpTo(member)' = {}
    BY <1>1 DEF LikeUpTo
  <2>2. \E e : Enumerates(e, relevant', data', LikeUpTo(member)')
    BY <1>1, <2>1, EmptyEnumeration
  <2>3. Len(symbols') \in Nat
    BY <1>3, <1>4, Grid DEF FieldInv
  <2>4. << >> \in Seq(Int)
    OBVIOUS
  <2> QED
    BY <1>1, <2>2, <2>3, <2>4 DEF Enumerated
<1>9. AtValue'
  <2>1. parameter' = parameter /\ SameSize' = SameSize
    BY <1>1 DEF parameter, SameSize
  <2>2. Complete(parameter, point)' = Complete(parameter, point)
    BY <1>1, <2>1 DEF Complete, InRange, Moved, begin
  <2>3. At(weather, point + 1)' = At(weather, point + 1)
    BY <1>1 DEF At
  <2>4. At(parameter, point + 1)' = At(parameter, point + 1)
    BY <1>1, <2>1 DEF At
  <2> QED
    BY <1>1, <1>4, <1>5, <1>7, <1>8, <2>1, <2>2, <2>3, <2>4 DEF AtValue
<1>10. ValuesKept' /\ FieldsKept'
  BY <1>1, ValuesKeptStays, FieldsKeptStays DEF FieldInv
<1> QED
  BY <1>7, <1>9, <1>10 DEF FieldInv

LEMMA FieldInvChoose ==
    ASSUME FieldInv, Choose
    PROVE  FieldInv'
<1>1. /\ phase = "values" /\ (Consider \/ Median)
      /\ UNCHANGED <<weather, requests, allSymbols, symbolOut, certaintyOut, dataOut, fields,
                     phase, point>>
  BY DEF Choose, fieldVars, givenVars
<1>2. /\ pc = "consider" /\ value = 0
      /\ UNCHANGED <<symbols, precipFraction, data, visited, ret, count, certainty>>
  BY <1>1 DEF Consider, Median, inputs, FieldInv, AtValue
<1>3. /\ PointInputs /\ Enumerated /\ ret \in Range(symbols)
  BY <1>1, <1>2, InRound
<1>4. GivenFields' /\ SymbolsWritten' /\ AtSymbol' /\ SymbolsKept' /\ PointCount' = PointCount
  <2>1. point' \in 0 .. PointCount /\ certainty' \in Nat
    BY <1>1, <1>2 DEF FieldInv, SymbolsWritten, SymbolsKept
  <2> QED
    BY <1>1, <1>2, <2>1, SymbolsStay
<1>5. ValuesKept' /\ FieldsKept'
  BY <1>1, ValuesKeptStays, FieldsKeptStays DEF FieldInv
<1>6. /\ parameter' = parameter /\ SameSize' = SameSize
      /\ Complete(parameter, point)' = Complete(parameter, point)
      /\ At(weather, point + 1)' = At(weather, point + 1)
      /\ At(parameter, point + 1)' = At(parameter, point + 1)
  <2>1. parameter' = parameter /\ SameSize' = SameSize
    BY <1>1 DEF parameter, SameSize
  <2>2. Complete(parameter, point)' = Complete(parameter, point)
    BY <1>1, <2>1 DEF Complete, InRange, Moved, begin
  <2>3. At(weather, point + 1)' = At(weather, point + 1)
    BY <1>1 DEF At
  <2>4. At(parameter, point + 1)' = At(parameter, point + 1)
    BY <1>1, <2>1 DEF At
  <2> QED
    BY <2>1, <2>2, <2>3, <2>4
<1>7. /\ Len(fields) < Len(requests) /\ point < PointCount
      /\ SameSize /\ Complete(parameter, point)
      /\ symbols = At(weather, point + 1) /\ data = At(parameter, point + 1)
      /\ ret = symbolOut[point + 1] /\ visited = {} /\ count = 0
  BY <1>1, <1>2 DEF FieldInv, AtValue
<1>8. CASE Consider
  <2>1. Enumerated'
    BY <1>3, <1>8, EnumeratedConsider
  <2>2. pc' = pc /\ value' = value
    BY <1>8 DEF Consider
  <2>3. AtValue'
    BY <1>1, <1>2, <1>4, <1>6, <1>7, <2>1, <2>2 DEF AtValue
  <2> QED
    BY <1>4, <1>5, <2>3 DEF FieldInv
<1>9. CASE Median
  <2>1. member = Len(symbols) /\ UNCHANGED <<member, relevant>>
    BY <1>9 DEF Median
  <2>2. relevant # << >>
    BY <1>3, <2>1, SomeAreRelevant
  <2>3. pc' = "done" /\ value' = medianTwice(relevant)
    BY <1>9, <2>2 DEF Median
  <2>4. Enumerated'
    <3>1. LikeUpTo(member)' = LikeUpTo(member)
      BY <1>2, <2>1 DEF LikeUpTo
    <3> QED
      BY <1>2, <1>3, <2>1, <3>1 DEF Enumerated
  <2>5. medianTwice(relevant') = medianTwice(relevant) /\ Len(symbols') = Len(symbols)
    BY <1>2, <2>1
  <2>6. AtValue'
    BY <1>1, <1>2, <1>4, <1>6, <1>7, <2>1, <2>2, <2>3, <2>4, <2>5 DEF AtValue
  <2> QED
    BY <1>4, <1>5, <2>6 DEF FieldInv
<1> QED
  BY <1>1, <1>8, <1>9

\* The median of the members at the point is a median over the collections.
LEMMA MedianOfThePoint ==
    ASSUME FieldInv, phase = "values", pc = "done"
    PROVE  value \in Int /\ MedianAt(parameter, point + 1, value)
<1> DEFINE g == point + 1
<1>1. /\ PointInputs /\ Enumerated
      /\ parameter \in Seq(Seq(Int)) /\ Len(parameter) = Len(weather)
      /\ symbols = At(weather, g) /\ data = At(parameter, g) /\ ret = symbolOut[g]
  BY InRound
<1>2. /\ member = Len(symbols) /\ relevant # << >> /\ value = medianTwice(relevant)
  BY DEF FieldInv, AtValue
<1>3. value \in Int
  BY <1>1, <1>2, MedianHalves DEF Enumerated
<1>4. LET like == {m \in Member : symbols[m] \in nearby[ret]}
          below == {m \in like : 2 * data[m] <= value}
          above == {m \in like : 2 * data[m] >= value}
      IN  /\ 2 * Cardinality(below) >= Cardinality(like)
          /\ 2 * Cardinality(above) >= Cardinality(like)
  BY <1>1, <1>2, ValueHalves
<1>5. DOMAIN weather = 1 .. Len(weather) /\ DOMAIN parameter = DOMAIN weather
  BY <1>1, Grid DEF FieldInv
<1>6. {m \in Member : symbols[m] \in nearby[ret]} = Like(g, symbolOut[g])
  BY <1>1 DEF Member, At, Like
<1>7. \A m \in Like(g, symbolOut[g]) : data[m] = parameter[m][g]
  BY <1>1, <1>5 DEF Like, At
<1>8. /\ {m \in Like(g, symbolOut[g]) : 2 * data[m] <= value}
             = {m \in Like(g, symbolOut[g]) : 2 * parameter[m][g] <= value}
      /\ {m \in Like(g, symbolOut[g]) : 2 * data[m] >= value}
             = {m \in Like(g, symbolOut[g]) : 2 * parameter[m][g] >= value}
  BY <1>7
<1>9. MedianAt(parameter, g, value)
  BY <1>4, <1>6, <1>8 DEF MedianAt
<1> QED
  BY <1>3, <1>9

LEMMA FieldInvStoreValue ==
    ASSUME FieldInv, StoreValue
    PROVE  FieldInv'
<1>1. /\ phase = "values" /\ pc = "done" /\ pc' = "idle" /\ point' = point + 1
      /\ dataOut' = Append(dataOut, value)
      /\ UNCHANGED <<weather, requests, precipFraction, allSymbols, symbolOut, certaintyOut,
                     fields, phase, certainty>>
  BY DEF StoreValue, givenVars, inputs
<1>2. /\ point + 1 \in 1 .. PointCount /\ point \in Nat
      /\ parameter \in Seq(Seq(Int)) /\ Len(parameter) = Len(weather)
      /\ \A m \in DOMAIN parameter : point + 1 <= Len(parameter[m])
  BY <1>1, InRound
<1>3. value \in Int /\ MedianAt(parameter, point + 1, value)
  BY <1>1, MedianOfThePoint
<1>4. /\ dataOut \in Seq(Int) /\ Len(dataOut) = point
      /\ \A g \in DOMAIN dataOut : MedianAt(parameter, g, dataOut[g])
      /\ Len(fields) < Len(requests)
  BY <1>1 DEF FieldInv, ValuesKept, AtValue
<1>5. GivenFields' /\ SymbolsWritten' /\ AtSymbol' /\ SymbolsKept' /\ PointCount' = PointCount
  <2>1. point' \in 0 .. PointCount /\ certainty' \in Nat
    <3>1. PointCount \in Nat
      BY Grid DEF FieldInv
    <3> QED
      BY <1>1, <1>2, <3>1 DEF FieldInv, SymbolsKept
  <2> QED
    BY <1>1, <2>1, SymbolsStay
<1>6. AtValue'
  BY <1>1 DEF AtValue
<1>7. FieldsKept'
  BY <1>1, FieldsKeptStays DEF FieldInv
<1>8. ValuesKept'
  <2>1. parameter' = parameter /\ \A c, g, v : MedianAt(c, g, v)' = MedianAt(c, g, v)
    BY <1>1 DEF parameter, MedianAt, Like
  <2>2. /\ dataOut' \in Seq(Int) /\ Len(dataOut') = point + 1
        /\ \A g \in DOMAIN dataOut' :
              \/ g \in DOMAIN dataOut /\ dataOut'[g] = dataOut[g]
              \/ g = point + 1 /\ dataOut'[g] = value
    BY <1>1, <1>3, <1>4
  <2>3. \A g \in DOMAIN dataOut' : MedianAt(parameter, g, dataOut'[g])
    BY <1>3, <1>4, <2>2
  <2>4. \A m \in DOMAIN parameter' : point' <= Len(parameter'[m])
    BY <1>1, <1>2, <2>1
  <2>5. Len(parameter') = Len(weather') /\ Len(fields') < Len(requests')
    BY <1>1, <1>2, <1>4, <2>1
  <2>6. \A g \in DOMAIN dataOut' : MedianAt(parameter, g, dataOut[g])'
    BY <2>1, <2>3
  <2> QED
    BY <1>1, <1>2, <1>5, <2>2, <2>4, <2>5, <2>6 DEF ValuesKept
<1> QED
  BY <1>5, <1>6, <1>7, <1>8 DEF FieldInv

\* A field is kept and the next parameter is begun.
LEMMA FieldInvNextParameter ==
    ASSUME FieldInv, phase = "values", Len(fields) < Len(requests),
           NEW field \in Seq(Int), NextParameter(field),
           Fits(parameter), Len(field) = PointCount,
           \A g \in DOMAIN field : MedianAt(parameter, g, field[g])
    PROVE  FieldInv'
<1>1. /\ fields' = Append(fields, field) /\ dataOut' = << >> /\ point' = 0 /\ pc' = "idle"
      /\ UNCHANGED <<weather, requests, precipFraction, allSymbols, symbolOut, certaintyOut,
                     phase, certainty>>
  BY DEF NextParameter, givenVars, inputs
<1>2. PointCount \in Nat /\ certainty \in Nat
  BY Grid DEF FieldInv, SymbolsKept
<1>3. GivenFields' /\ SymbolsWritten' /\ AtSymbol' /\ SymbolsKept' /\ PointCount' = PointCount
  <2>1. point' \in 0 .. PointCount /\ certainty' \in Nat
    BY <1>1, <1>2
  <2> QED
    BY <1>1, <2>1, SymbolsStay
<1>4. AtValue'
  BY <1>1 DEF AtValue
<1>5. ValuesKept'
  <2>1. Len(<< >>) = 0 /\ DOMAIN << >> = {} /\ << >> \in Seq(Int)
    OBVIOUS
  <2> QED
    BY <1>1, <1>2, <1>3, <2>1 DEF ValuesKept
<1>6. FieldsKept'
  <2>1. /\ fields \in Seq(Seq(Int)) /\ Len(fields) \in Nat /\ Len(requests) \in Nat
        /\ \A n \in DOMAIN fields :
              /\ Fits(requests[n]) /\ Len(fields[n]) = PointCount
              /\ \A g \in DOMAIN fields[n] : MedianAt(requests[n], g, fields[n][g])
    BY DEF FieldInv, FieldsKept, GivenFields
  <2>2. /\ \A c : Fits(c)' = Fits(c)
        /\ \A c, g, v : MedianAt(c, g, v)' = MedianAt(c, g, v)
    BY <1>1 DEF Fits, MedianAt, Like, PointCount
  <2>3. /\ fields' \in Seq(Seq(Int)) /\ Len(fields') = Len(fields) + 1
        /\ \A n \in DOMAIN fields' :
              \/ n \in DOMAIN fields /\ fields'[n] = fields[n]
              \/ n = Len(fields) + 1 /\ fields'[n] = field
    BY <1>1, <2>1
  <2>4. Len(fields') <= Len(requests')
    BY <1>1, <2>1, <2>3
  <2>5. \A n \in DOMAIN fields' :
            /\ Fits(requests[n]) /\ Len(fields'[n]) = PointCount
            /\ \A g \in DOMAIN fields'[n] : MedianAt(requests[n], g, fields'[n][g])
    <3> TAKE n \in DOMAIN fields'
    <3>1. CASE n \in DOMAIN fields /\ fields'[n] = fields[n]
      BY <2>1, <3>1
    <3>2. CASE n = Len(fields) + 1 /\ fields'[n] = field
      <4>1. requests[n] = parameter
        BY <3>2 DEF parameter
      <4> QED
        BY <3>2, <4>1
    <3> QED
      BY <2>3, <3>1, <3>2
  <2>6. \A n \in DOMAIN fields' :
            /\ Fits(requests[n])' /\ Len(fields'[n]) = PointCount'
            /\ \A g \in DOMAIN fields'[n] : MedianAt(requests[n], g, fields[n][g])'
    BY <1>1, <1>3, <2>2, <2>5
  <2> QED
    BY <1>1, <2>3, <2>4, <2>6 DEF FieldsKept
<1> QED
  BY <1>3, <1>4, <1>5, <1>6 DEF FieldInv

\* The parameter at hand, and that it fits if all its points can be had.
LEMMA AtHand ==
    ASSUME FieldInv, phase = "values", Len(fields) < Len(requests)
    PROVE  /\ parameter \in Seq(Seq(Int))
           /\ PointCount \in Nat \ {0} /\ point \in 0 .. PointCount
           /\ SameSize <=> Len(parameter) = Len(weather)
           /\ Complete(parameter, point) <=> \A m \in DOMAIN parameter : point < Len(parameter[m])
           /\ \A m \in DOMAIN parameter : Len(parameter[m]) \in Nat
<1>1. parameter \in Seq(Seq(Int))
  <2>1. /\ requests \in Seq(Seq(Seq(Int))) /\ fields \in Seq(Seq(Int))
    BY DEF FieldInv, GivenFields, FieldsKept
  <2>2. Len(fields) + 1 \in 1 .. Len(requests)
    BY <2>1
  <2> QED
    BY <2>1, <2>2, ElementOfSeq DEF parameter
<1>2. PointCount \in Nat \ {0} /\ point \in 0 .. PointCount
  BY Grid DEF FieldInv, SymbolsWritten
<1>3. SameSize <=> Len(parameter) = Len(weather)
  BY SymbolsAtPoint DEF SameSize, FieldInv
<1>4. point \in Nat
  BY <1>2
<1>5. Complete(parameter, point) <=> \A m \in DOMAIN parameter : point < Len(parameter[m])
  BY <1>1, <1>4, CrossComplete
<1>6. \A m \in DOMAIN parameter : Len(parameter[m]) \in Nat
  BY <1>1
<1> QED
  BY <1>1, <1>2, <1>3, <1>5, <1>6

LEMMA FieldInvParameterStored ==
    ASSUME FieldInv, ParameterStored
    PROVE  FieldInv'
<1>1. /\ phase = "values" /\ Len(fields) < Len(requests) /\ point = PointCount
      /\ NextParameter(dataOut)
  BY DEF ParameterStored
<1>2. PointCount \in Nat \ {0}
  BY <1>1, AtHand
<1>3. Fits(parameter)
  <2>1. /\ Len(parameter) = Len(weather)
        /\ \A m \in DOMAIN parameter : point <= Len(parameter[m])
    BY <1>1, <1>2 DEF FieldInv, ValuesKept
  <2>2. \A m \in DOMAIN parameter : Len(parameter[m]) \in Nat
    BY <1>1, AtHand
  <2> QED
    BY <1>1, <1>2, <2>1, <2>2 DEF Fits
<1>4. /\ dataOut \in Seq(Int) /\ Len(dataOut) = PointCount
      /\ \A g \in DOMAIN dataOut : MedianAt(parameter, g, dataOut[g])
  BY <1>1 DEF FieldInv, ValuesKept
<1> QED
  BY <1>1, <1>3, <1>4, FieldInvNextParameter

\* Where a parameter fails, it is because it does not fit.
LEMMA FailsWithoutFit ==
    ASSUME FieldInv, ParameterFails
    PROVE  /\ phase = "values" /\ pc = "idle" /\ Len(fields) < Len(requests)
           /\ ~Fits(parameter)
<1>1. /\ phase = "values" /\ pc = "idle" /\ Len(fields) < Len(requests) /\ point < PointCount
      /\ ~(SameSize /\ Complete(parameter, point))
  BY DEF ParameterFails, FieldInv, AtValue
<1>2. CASE ~SameSize
  BY <1>1, <1>2, AtHand DEF Fits
<1>3. CASE ~Complete(parameter, point)
  <2>1. PICK m \in DOMAIN parameter : ~(point < Len(parameter[m]))
    BY <1>1, <1>3, AtHand
  <2>2. Len(parameter[m]) \in Nat /\ PointCount \in Nat /\ point \in Nat
    BY <1>1, AtHand
  <2>3. ~(Len(parameter[m]) >= PointCount)
    BY <1>1, <2>1, <2>2
  <2> QED
    BY <1>1, <2>3 DEF Fits
<1> QED
  BY <1>1, <1>2, <1>3

\* The time step ends, lost or saved; nothing else changes.
LEMMA FieldInvEnded ==
    ASSUME FieldInv, ParameterFails \/ SaveAll
    PROVE  FieldInv'
<1>1. /\ phase = "values" /\ phase' \in {"failed", "saved"}
      /\ UNCHANGED <<weather, requests, precipFraction, allSymbols, symbolOut, certaintyOut,
                     dataOut, fields, point, certainty>>
  BY DEF ParameterFails, SaveAll, FieldInv, AtValue, givenVars, vars, inputs
<1>2. GivenFields' /\ PointCount' = PointCount
  BY <1>1 DEF FieldInv, GivenFields, PointCount
<1>3. SymbolsWritten'
  <2>1. \A g \in 1 .. PointCount : Written(g)' => Written(g)
    BY <1>1 DEF Written
  <2> QED
    BY <1>1, <2>1, WrittenStays DEF FieldInv
<1>4. AtSymbol' /\ AtValue'
  BY <1>1 DEF AtSymbol, AtValue
<1>5. SymbolsKept'
  BY <1>1, <1>2 DEF FieldInv, SymbolsKept
<1>6. ValuesKept'
  BY <1>1, <1>2 DEF FieldInv, ValuesKept
<1>7. FieldsKept'
  BY <1>1, FieldsKeptStays DEF FieldInv
<1> QED
  BY <1>2, <1>3, <1>4, <1>5, <1>6, <1>7 DEF FieldInv

LEMMA FieldInvNext ==
    FieldInv /\ [FieldNext]_<<fieldVars, vars>> => FieldInv'
<1> SUFFICES ASSUME FieldInv, [FieldNext]_<<fieldVars, vars>>
             PROVE  FieldInv'
  OBVIOUS
<1>1. CASE UNCHANGED <<fieldVars, vars>>
  <2>1. UNCHANGED <<weather, requests, precipFraction, allSymbols, symbolOut, certaintyOut, dataOut,
                    fields, phase, point, symbols, data, pc, visited, ret, count, certainty,
                    member, relevant, value>>
    BY <1>1 DEF fieldVars, givenVars, vars
  <2>2. GivenFields' /\ SymbolsWritten' /\ SymbolsKept'
    BY <2>1 DEF FieldInv, GivenFields, SymbolsWritten, Written, SymbolsKept, PointCount
  <2>3. AtSymbol'
    BY <2>1 DEF FieldInv, AtSymbol, At, PointCount
  <2>4. AtValue'
    <3>1. LikeUpTo(member)' = LikeUpTo(member)
      BY <2>1 DEF LikeUpTo
    <3>2. Enumerated => Enumerated'
      BY <2>1, <3>1 DEF Enumerated
    <3>3. parameter' = parameter /\ SameSize' = SameSize /\ PointCount' = PointCount
      BY <2>1 DEF parameter, SameSize, PointCount
    <3>4. Complete(parameter, point)' = Complete(parameter, point)
      BY <2>1, <3>3 DEF Complete, InRange, Moved, begin
    <3>5. /\ At(weather, point + 1)' = At(weather, point + 1)
          /\ At(parameter, point + 1)' = At(parameter, point + 1)
      BY <2>1, <3>3 DEF At
    <3>6. medianTwice(relevant') = medianTwice(relevant)
      BY <2>1
    <3> QED
      BY <2>1, <3>2, <3>3, <3>4, <3>5, <3>6 DEF FieldInv, AtValue
  <2>5. ValuesKept' /\ FieldsKept'
    BY <2>1, ValuesKeptStays, FieldsKeptStays DEF FieldInv
  <2> QED
    BY <2>2, <2>3, <2>4, <2>5 DEF FieldInv
<1> QED
  BY <1>1, FieldInvGetSymbols, FieldInvSelect, FieldInvFailed, FieldInvStoreSymbol,
     FieldInvSymbolsStored, FieldInvBeginPoint, FieldInvChoose, FieldInvStoreValue,
     FieldInvParameterStored, FieldInvEnded DEF FieldNext, Over

LEMMA FieldInvHolds == FieldSpec => []FieldInv
BY FieldInvInit, FieldInvNext, PTL DEF FieldSpec

\* The value a field has at a point is a median of its own parameter at this
\* point, over the members whose weather there is like the symbol published for
\* the point: the loops over points, members and parameters never get out of
\* step with each other.
THEOREM FieldsMatch == FieldSpec => []FieldsBelongTogether
<1>1. FieldInv => FieldsBelongTogether
  BY DEF FieldInv, SymbolsKept, FieldsKept, FieldsBelongTogether, MedianAt
<1> QED
  BY <1>1, FieldInvHolds, PTL

\* Every variable has its type, and those of SymbolSelection have theirs in
\* every round, for grids and ensembles of every size: a symbol and a certainty
\* for each point passed, never more fields than parameters, and values that
\* are counted from the point the loop is at.
THEOREM FieldTypes == FieldSpec => []FieldTypeOK
<1>1. FieldInv => FieldTypeOK
  <2> SUFFICES ASSUME FieldInv PROVE FieldTypeOK
    OBVIOUS
  <2>1. /\ phase \in {"symbols", "values", "failed", "saved"} /\ point \in 0 .. PointCount
        /\ Len(symbolOut) \in 0 .. PointCount /\ Len(certaintyOut) = Len(symbolOut)
        /\ phase = "symbols" => Len(symbolOut) = point
        /\ phase = "values" => Len(symbolOut) = PointCount /\ Len(dataOut) = point
        /\ Len(dataOut) \in 0 .. PointCount
        /\ Len(fields) <= Len(requests)
    BY DEF FieldInv, SymbolsWritten, SymbolsKept, ValuesKept, FieldsKept
  <2>2. ASSUME phase = "symbols", pc # "idle"
        PROVE  symbols \in Seq(Symbol) \ {<< >>} /\ visited \subseteq Range(symbols)
    <3>1. /\ point < PointCount /\ symbols = At(weather, point + 1)
          /\ visited \subseteq Range(symbols)
      BY <2>2 DEF FieldInv, AtSymbol
    <3>2. point + 1 \in 1 .. PointCount
      BY <3>1, Grid DEF FieldInv, SymbolsWritten
    <3> QED
      BY <3>1, <3>2, Grid DEF FieldInv
  <2>3. ASSUME phase = "values", pc # "idle"
        PROVE  TypeOK
    <3>1. PointInputs /\ Enumerated /\ ret \in Range(symbols)
      BY <2>3, InRound
    <3>2. ret \in Symbol
      BY <3>1, Ensemble DEF PointInputs
    <3>3. /\ pc \in {"consider", "done"} /\ visited = {} /\ count = 0
          /\ pc = "consider" => value = 0
      BY <2>3 DEF FieldInv, AtValue
    <3>4. value \in Int
      BY <2>3, <3>3, MedianOfThePoint
    <3>5. precipFraction \in Fractions /\ certainty \in Nat
      BY DEF FieldInv, GivenFields, SymbolsKept
    <3> QED
      BY <3>1, <3>2, <3>3, <3>4, <3>5 DEF TypeOK, PointInputs, Enumerated
  <2> QED
    BY <2>1, <2>2, <2>3 DEF FieldTypeOK
<1> QED
  BY <1>1, FieldInvHolds, PTL

-----------------------------------------------------------------------------
(* Every point of a field *)

\* What selectSymbol looks at, for a point of the field.
CountAt(g, s) == Cardinality({m \in DOMAIN weather : weather[m][g] = s})

RainAt(g) ==
    Cardinality({m \in DOMAIN weather : hasPrecipitation(weather[m][g])}) * precipFraction.den
        >= precipFraction.num * (Len(weather) + 1)

CandidateAt(g, s) ==
    (\E m \in DOMAIN weather : weather[m][g] = s) /\ hasPrecipitation(s) = RainAt(g)

ProbabilityAt(g, s) ==
    Cardinality({m \in DOMAIN weather : weather[m][g] \in Summed \cap nearby[s]})

\* What the point is published with.
PublishedAt(g, s, n) ==
    /\ CandidateAt(g, s)
    /\ \A t \in Symbol : CandidateAt(g, t) =>
          CountAt(g, t) < CountAt(g, s) \/ (CountAt(g, t) = CountAt(g, s) /\ s <= t)
    /\ n = ProbabilityAt(g, s)

\* Every round begins like a run of SymbolSelection and stays like one until its
\* symbol is stored; a round for values begins with the symbol and the certainty
\* that were.
RoundInv ==
    /\ phase = "symbols" /\ pc # "idle" => SelectInv /\ CertaintyInv
    /\ phase = "values" /\ pc # "idle" => certainty = certaintyOut[point + 1]
    /\ phase \in {"failed", "saved"} => pc = "idle" \/ (pc = "logic_error" /\ SelectInv)
    /\ \A g \in DOMAIN symbolOut : PublishedAt(g, symbolOut[g], certaintyOut[g])

LEMMA PointOfTheField ==
    ASSUME GivenFields, NEW g \in 1 .. PointCount, symbols = At(weather, g)
    PROVE  \A s : /\ Count(s) = CountAt(g, s)
                  /\ Candidate(s) <=> CandidateAt(g, s)
                  /\ getProbabilityOf(s) = ProbabilityAt(g, s)
<1>1. /\ Member = DOMAIN weather /\ Len(symbols) = Len(weather)
      /\ \A m \in Member : symbols[m] = weather[m][g]
  BY Grid DEF Member, At
<1>2. \A s : Count(s) = CountAt(g, s) /\ getProbabilityOf(s) = ProbabilityAt(g, s)
  BY <1>1 DEF Count, CountAt, getProbabilityOf, ProbabilityAt
<1>3. {m \in Member : hasPrecipitation(symbols[m])}
          = {m \in DOMAIN weather : hasPrecipitation(weather[m][g])}
  BY <1>1
<1>4. isRain <=> RainAt(g)
  BY <1>1, <1>3 DEF isRain, RainAt, precipitationCount, numMembers
<1>5. \A s : s \in Range(symbols) <=> \E m \in DOMAIN weather : weather[m][g] = s
  BY <1>1 DEF Range, Member
<1> QED
  BY <1>2, <1>4, <1>5 DEF Candidate, CandidateAt, hasPrecipitation, isRain, RainAt

LEMMA PublishedStays ==
    ASSUME UNCHANGED <<weather, precipFraction>>
    PROVE  \A g, s, n : PublishedAt(g, s, n)' = PublishedAt(g, s, n)
BY DEF PublishedAt, CandidateAt, CountAt, ProbabilityAt, RainAt

LEMMA RoundInvInit == FieldInit => RoundInv
<1>1. DOMAIN << >> = {}
  OBVIOUS
<1> QED
  BY <1>1 DEF FieldInit, RoundInv

\* A round begins.
LEMMA RoundInvGetSymbols ==
    ASSUME FieldInv, FieldInv', RoundInv, GetSymbols
    PROVE  RoundInv'
<1>1. /\ phase = "symbols" /\ phase' = "symbols" /\ pc' = "select"
      /\ visited' = {} /\ ret' = Error /\ count' = 0
      /\ UNCHANGED <<weather, precipFraction, point, symbolOut, certaintyOut>>
  BY DEF GetSymbols, givenVars
<1>2. symbols' \in Seq(Symbol) \ {<< >>}
  <2>1. /\ point' < PointCount' /\ symbols' = At(weather, point + 1)'
    BY <1>1 DEF FieldInv, AtSymbol
  <2>2. PointCount' = PointCount /\ At(weather, point + 1)' = At(weather, point + 1)
    BY <1>1 DEF PointCount, At
  <2>3. point + 1 \in 1 .. PointCount
    BY <1>1, <2>1, <2>2, Grid DEF FieldInv, SymbolsWritten
  <2> QED
    BY <2>1, <2>2, <2>3, Grid DEF FieldInv
<1>3. precipFraction' \in [num : Nat, den : Nat \ {0}]
  BY <1>1, FractionsAssumption DEF FieldInv, GivenFields
<1>4. SelectInv' /\ CertaintyInv'
  BY <1>1, <1>2, <1>3 DEF SelectInv, LoopInv, CertaintyInv
<1> QED
  BY <1>1, <1>4, PublishedStays DEF RoundInv

\* A step of SymbolSelection.
LEMMA RoundInvSelect ==
    ASSUME RoundInv, Select \/ NoSymbol
    PROVE  RoundInv'
<1>1. /\ phase = "symbols" /\ pc = "select"
      /\ UNCHANGED <<weather, precipFraction, symbolOut, certaintyOut>>
  BY DEF Select, NoSymbol, NextEntry, Selected, InternalError, fieldVars, givenVars, inputs
<1>2. Next
  BY DEF Select, NoSymbol, Next
<1>3. SelectInv' /\ CertaintyInv'
  BY <1>1, <1>2, SelectInvNext, CertaintyInvNext DEF RoundInv
<1>4. CASE Select
  <2>1. phase' = "symbols"
    BY <1>1, <1>4 DEF Select, fieldVars
  <2> QED
    BY <1>1, <1>3, <2>1, PublishedStays DEF RoundInv
<1>5. CASE NoSymbol
  <2>1. phase' = "failed" /\ pc' = "logic_error"
    BY <1>5 DEF NoSymbol, InternalError
  <2> QED
    BY <1>1, <1>3, <2>1, PublishedStays DEF RoundInv
<1> QED
  BY <1>4, <1>5

\* A round ends: what was selected for the ensemble was selected for the point.
LEMMA RoundInvStoreSymbol ==
    ASSUME FieldInv, RoundInv, StoreSymbol
    PROVE  RoundInv'
<1>1. /\ phase = "symbols" /\ phase' = "symbols" /\ pc = "consider" /\ pc' = "idle"
      /\ symbolOut' = Append(symbolOut, ret) /\ certaintyOut' = Append(certaintyOut, certainty)
      /\ UNCHANGED <<weather, precipFraction>>
  BY DEF StoreSymbol, givenVars, inputs
<1>2. /\ symbolOut \in Seq(Symbol) /\ Len(symbolOut) = point
      /\ certaintyOut \in Seq(Nat) /\ Len(certaintyOut) = point
      /\ point < PointCount /\ symbols = At(weather, point + 1)
  BY <1>1 DEF FieldInv, AtSymbol, SymbolsKept
<1>3. point \in Nat /\ point + 1 \in 1 .. PointCount
  BY <1>2, Grid DEF FieldInv, SymbolsWritten
<1>4. PublishedAt(point + 1, ret, certainty)
  <2>1. \A s : /\ Count(s) = CountAt(point + 1, s)
               /\ Candidate(s) <=> CandidateAt(point + 1, s)
               /\ getProbabilityOf(s) = ProbabilityAt(point + 1, s)
    BY <1>2, <1>3, PointOfTheField DEF FieldInv
  <2>2. MostFrequentOfItsClass /\ certainty = getProbabilityOf(ret)
    BY <1>1, LoopSelects DEF RoundInv, CertaintyInv
  <2> QED
    BY <1>1, <2>1, <2>2 DEF MostFrequentOfItsClass, PublishedAt
<1>5. \A g \in DOMAIN symbolOut' :
         \/ /\ g \in DOMAIN symbolOut
            /\ symbolOut'[g] = symbolOut[g] /\ certaintyOut'[g] = certaintyOut[g]
         \/ g = point + 1 /\ symbolOut'[g] = ret /\ certaintyOut'[g] = certainty
  BY <1>1, <1>2
<1>6. \A g \in DOMAIN symbolOut' : PublishedAt(g, symbolOut'[g], certaintyOut'[g])
  BY <1>4, <1>5 DEF RoundInv
<1>7. \A g, s, n : PublishedAt(g, s, n)' = PublishedAt(g, s, n)
  BY <1>1, PublishedStays
<1>8. \A g \in DOMAIN symbolOut' : PublishedAt(g, symbolOut[g], certaintyOut[g])'
  BY <1>6, <1>7
<1> QED
  BY <1>1, <1>8 DEF RoundInv

LEMMA RoundInvNext ==
    ASSUME FieldInv, FieldInv', RoundInv, [FieldNext]_<<fieldVars, vars>>
    PROVE  RoundInv'
<1>1. UNCHANGED <<weather, precipFraction>>
  BY FieldsStay
<1>2. CASE OutOfRange \/ SymbolsStored
  BY <1>1, <1>2, PublishedStays DEF OutOfRange, SymbolsStored, vars, RoundInv
<1>3. CASE BeginPoint \/ Choose
  <2>1. /\ phase = "values" /\ UNCHANGED <<phase, point, symbolOut, certaintyOut>>
    BY <1>3 DEF BeginPoint, Choose, fieldVars
  <2>2. certainty' = certaintyOut'[point' + 1]
    BY <1>3, <2>1 DEF BeginPoint, Choose, Consider, Median, RoundInv
  <2> QED
    BY <1>1, <2>1, <2>2, PublishedStays DEF RoundInv
<1>4. CASE StoreValue \/ ParameterStored \/ ParameterFails \/ SaveAll
  <2>1. /\ phase' \in {"values", "failed", "saved"} /\ pc' = "idle"
        /\ UNCHANGED <<symbolOut, certaintyOut>>
    BY <1>4, FailsWithoutFit
       DEF StoreValue, ParameterStored, ParameterFails, SaveAll, NextParameter, vars
  <2> QED
    BY <1>1, <2>1, PublishedStays DEF RoundInv
<1>5. CASE UNCHANGED <<fieldVars, vars>>
  <2>1. /\ UNCHANGED <<phase, point, symbolOut, certaintyOut, pc, certainty>>
        /\ UNCHANGED vars
    BY <1>5 DEF fieldVars, vars
  <2>2. (SelectInv => SelectInv') /\ (CertaintyInv => CertaintyInv')
    BY <2>1, SelectInvNext, CertaintyInvNext
  <2> QED
    BY <1>1, <2>1, <2>2, PublishedStays DEF RoundInv
<1> QED
  BY <1>2, <1>3, <1>4, <1>5, RoundInvGetSymbols, RoundInvSelect, RoundInvStoreSymbol
     DEF FieldNext, Over

LEMMA RoundInvHolds == FieldSpec => []RoundInv
BY FieldInvHolds, FieldInvInit, RoundInvInit, RoundInvNext, PTL DEF FieldSpec

\* In the round of a point for a parameter its symbol and certainty are those of
\* the point.
LEMMA RoundOfValues ==
    ASSUME FieldInv, RoundInv, phase = "values", pc # "idle"
    PROVE  /\ MostFrequentOfItsClass /\ certainty = getProbabilityOf(ret)
           /\ symbols \in Seq(Symbol) \ {<< >>} /\ ret \in Symbol
           /\ pc \in {"consider", "done"}
<1>1. /\ PointInputs /\ ret \in Range(symbols) /\ point + 1 \in 1 .. PointCount
      /\ symbols = At(weather, point + 1) /\ ret = symbolOut[point + 1]
  BY InRound
<1>2. symbols \in Seq(Symbol) \ {<< >>} /\ ret \in Symbol
  BY <1>1, Ensemble DEF PointInputs
<1>3. pc \in {"consider", "done"}
  BY DEF FieldInv, AtValue
<1>4. PublishedAt(point + 1, ret, certainty)
  <2>1. point + 1 \in DOMAIN symbolOut
    BY <1>1 DEF FieldInv, SymbolsKept
  <2> QED
    BY <1>1, <2>1 DEF RoundInv
<1>5. \A s : /\ Count(s) = CountAt(point + 1, s)
             /\ Candidate(s) <=> CandidateAt(point + 1, s)
             /\ getProbabilityOf(s) = ProbabilityAt(point + 1, s)
  BY <1>1, PointOfTheField DEF FieldInv
<1> QED
  BY <1>2, <1>3, <1>4, <1>5 DEF PublishedAt, MostFrequentOfItsClass

\* What holds at a single point holds in every round of the loops over points and
\* parameters, for the symbols when they are selected and again when the values
\* are, by which time only what was published is left of them.
THEOREM PointsOfAField ==
    FieldSpec => [](/\ MostFrequentOfItsClass /\ EveryEnsembleGetsASymbol
                    /\ CertaintyOfItsClass /\ ValueOfTheSelectedWeather)
<1>1. FieldInv /\ RoundInv => MostFrequentOfItsClass /\ EveryEnsembleGetsASymbol
  <2> SUFFICES ASSUME FieldInv, RoundInv
               PROVE  MostFrequentOfItsClass /\ EveryEnsembleGetsASymbol
    OBVIOUS
  <2>1. ASSUME SelectInv PROVE MostFrequentOfItsClass /\ EveryEnsembleGetsASymbol
    BY <2>1, LoopSelects, ClassHasMembers
       DEF SelectInv, MostFrequentOfItsClass, EveryEnsembleGetsASymbol
  <2>2. ASSUME pc = "idle" PROVE MostFrequentOfItsClass /\ EveryEnsembleGetsASymbol
    BY <2>2 DEF MostFrequentOfItsClass, EveryEnsembleGetsASymbol
  <2>3. ASSUME phase = "values", pc # "idle"
        PROVE  MostFrequentOfItsClass /\ EveryEnsembleGetsASymbol
    BY <2>3, RoundOfValues DEF EveryEnsembleGetsASymbol
  <2> QED
    BY <2>1, <2>2, <2>3 DEF FieldInv, SymbolsKept, RoundInv
<1>2. FieldInv /\ RoundInv => CertaintyOfItsClass
  <2> SUFFICES ASSUME FieldInv, RoundInv, pc \in {"consider", "done"}
               PROVE  CertaintyOfItsClass
    BY DEF CertaintyOfItsClass
  <2>1. CASE phase = "symbols"
    BY <2>1, CertaintyAlike DEF RoundInv
  <2>2. CASE phase = "values"
    BY <2>2, RoundOfValues, SummedAreAlike DEF CertaintyOfItsClass
  <2>3. phase \notin {"failed", "saved"}
    BY DEF RoundInv
  <2> QED
    BY <2>1, <2>2, <2>3 DEF FieldInv, SymbolsKept
<1>3. FieldInv /\ RoundInv => ValueOfTheSelectedWeather
  <2> SUFFICES ASSUME FieldInv, RoundInv PROVE ValueOfTheSelectedWeather
    OBVIOUS
  <2>1. pc # "runtime_error"
    BY DEF FieldInv, SymbolsKept, AtSymbol, AtValue, RoundInv
  <2>2. pc = "done" => /\ PointInputs /\ Enumerated /\ member = Len(symbols)
                       /\ relevant # << >> /\ value = medianTwice(relevant)
    <3>1. pc = "done" => phase = "values"
      BY DEF FieldInv, SymbolsKept, AtSymbol, RoundInv
    <3> QED
      BY <3>1, InRound DEF FieldInv, AtValue
  <2>3. pc = "done" => MedianOver({m \in Member : symbols[m] \in nearby[ret]}, value)
    BY <2>2, ValueHalves DEF MedianOver
  <2> QED
    BY <2>1, <2>3 DEF ValueOfTheSelectedWeather
<1> QED
  BY <1>1, <1>2, <1>3, FieldInvHolds, RoundInvHolds, PTL

-----------------------------------------------------------------------------
(* How a time step ends *)

\* The members of the weather have the first n points of the precipitation.
CoversUpTo(n) ==
    n > 0 => \A m \in DOMAIN weather :
                m \in DOMAIN precipitation /\ Len(precipitation[m]) >= n

\* What the loops passed did fit.
OutcomeInv ==
    /\ precipitation \in Seq(Seq(Nat))
    /\ phase = "symbols" => CoversUpTo(IF pc = "idle" THEN point ELSE point + 1)
    /\ phase \in {"values", "saved"} => PrecipitationCovers
    /\ phase = "saved" => Len(fields) = Len(requests)
    /\ phase = "failed" /\ UpToHalf => ~EverythingFits

LEMMA ReadableCovers ==
    ASSUME GivenFields, precipitation \in Seq(Seq(Nat)), point \in Nat
    PROVE  Readable <=> CoversUpTo(point + 1)
<1>1. /\ Len(weather) \in Nat /\ DOMAIN weather = 1 .. Len(weather)
      /\ Len(precipitation) \in Nat /\ DOMAIN precipitation = 1 .. Len(precipitation)
      /\ \A m \in DOMAIN precipitation : Len(precipitation[m]) \in Nat
  BY Grid
<1>2. ASSUME NEW m \in 0 .. Len(weather) - 1
      PROVE  InRange(precipitation, Moved(begin(point), m))
                 <=> m + 1 \in DOMAIN precipitation /\ Len(precipitation[m + 1]) >= point + 1
  <2>1. Moved(begin(point), m) = [constIndex_ |-> point, toIterateIndex_ |-> m]
    BY <1>1, <1>2 DEF Moved, begin
  <2>2. /\ m + 1 \in DOMAIN precipitation <=> m < Len(precipitation)
        /\ m + 1 \in DOMAIN precipitation => Len(precipitation[m + 1]) \in Nat
    BY <1>1, <1>2
  <2> QED
    BY <1>1, <1>2, <2>1, <2>2 DEF InRange
<1>3. /\ \A m \in DOMAIN weather : m - 1 \in 0 .. Len(weather) - 1 /\ m - 1 + 1 = m
      /\ \A m \in 0 .. Len(weather) - 1 : m + 1 \in DOMAIN weather
  BY <1>1
<1>4. ASSUME Readable, NEW m \in DOMAIN weather
      PROVE  m \in DOMAIN precipitation /\ Len(precipitation[m]) >= point + 1
  <2>1. m - 1 \in 0 .. Len(weather) - 1 /\ m - 1 + 1 = m
    BY <1>3
  <2>2. InRange(precipitation, Moved(begin(point), m - 1))
    BY <1>4, <2>1 DEF Readable
  <2> QED
    BY <1>2, <2>1, <2>2
<1>5. point + 1 > 0
  OBVIOUS
<1>6. CoversUpTo(point + 1) => Readable
  BY <1>2, <1>3, <1>5 DEF Readable, CoversUpTo
<1> QED
  BY <1>4, <1>6 DEF CoversUpTo

LEMMA OutcomeStays ==
    ASSUME UNCHANGED <<weather, precipitation, requests>>
    PROVE  /\ \A n : CoversUpTo(n)' = CoversUpTo(n)
           /\ PrecipitationCovers' = PrecipitationCovers
           /\ EverythingFits' = EverythingFits
BY DEF CoversUpTo, PrecipitationCovers, EverythingFits, Fits, PointCount

LEMMA OutcomeInvInit == FieldInit => OutcomeInv
BY FieldAssumption DEF FieldInit, OutcomeInv, CoversUpTo

\* Each way to lose the time step has something that does not fit.
LEMMA LostForAReason ==
    ASSUME FieldInv, RoundInv, OutcomeInv, UpToHalf,
           OutOfRange \/ NoSymbol \/ ParameterFails
    PROVE  ~EverythingFits
<1>1. CASE OutOfRange
  <2>1. ~CoversUpTo(point + 1) /\ point < PointCount /\ point \in Nat /\ PointCount \in Nat
    <3>1. point \in Nat /\ PointCount \in Nat
      BY Grid DEF FieldInv, SymbolsWritten
    <3> QED
      BY <1>1, <3>1, ReadableCovers DEF OutOfRange, FieldInv, OutcomeInv
  <2>2. \A m \in DOMAIN precipitation : Len(precipitation[m]) \in Nat
    BY DEF OutcomeInv
  <2>3. PrecipitationCovers => CoversUpTo(point + 1)
    BY <2>1, <2>2 DEF PrecipitationCovers, CoversUpTo
  <2> QED
    BY <2>1, <2>3 DEF EverythingFits
<1>2. CASE NoSymbol
  <2>1. /\ phase = "symbols" /\ pc = "select" /\ Entries \subseteq visited /\ ret = Error
    BY <1>2 DEF NoSymbol, InternalError
  <2>2. /\ LoopInv /\ symbols \in Seq(Symbol) \ {<< >>}
        /\ precipFraction \in [num : Nat, den : Nat \ {0}]
    BY <2>1 DEF RoundInv, SelectInv
  <2>3. PICK s \in Symbol : Candidate(s)
    BY <2>2, ClassHasMembers
  <2>4. s \in visited /\ Count(s) > 0
    BY <2>1, <2>2, <2>3, CountOfSymbols DEF Candidate, Entries
  <2> QED
    BY <2>1, <2>2, <2>3, <2>4, CountOfSymbols DEF LoopInv, Error
<1>3. CASE ParameterFails
  <2>1. Len(fields) < Len(requests) /\ ~Fits(parameter)
    BY <1>3, FailsWithoutFit
  <2>2. /\ Len(fields) \in Nat /\ Len(requests) \in Nat /\ DOMAIN requests = 1 .. Len(requests)
    BY DEF FieldInv, FieldsKept, GivenFields
  <2>3. Len(fields) + 1 \in DOMAIN requests
    BY <2>1, <2>2
  <2> QED
    BY <2>1, <2>3 DEF EverythingFits, parameter
<1> QED
  BY <1>1, <1>2, <1>3

LEMMA OutcomeInvNext ==
    ASSUME FieldInv, RoundInv, OutcomeInv, [FieldNext]_<<fieldVars, vars>>
    PROVE  OutcomeInv'
<1>1. UNCHANGED <<weather, precipitation, requests, precipFraction>>
  BY DEF FieldNext, GetSymbols, OutOfRange, Select, NoSymbol, StoreSymbol, SymbolsStored,
         BeginPoint, Choose, StoreValue, ParameterStored, ParameterFails, SaveAll,
         NextParameter, Over, NextEntry, Selected, InternalError, Consider, Median, fieldVars,
         givenVars, vars, inputs
<1>2. /\ \A n : CoversUpTo(n)' = CoversUpTo(n)
      /\ PrecipitationCovers' = PrecipitationCovers /\ EverythingFits' = EverythingFits
      /\ UpToHalf' = UpToHalf
  BY <1>1, OutcomeStays DEF UpToHalf
<1>3. precipitation' \in Seq(Seq(Nat))
  BY <1>1 DEF OutcomeInv
<1>4. CASE GetSymbols
  <2>1. /\ phase = "symbols" /\ UNCHANGED <<phase, point>> /\ pc' = "select" /\ Readable
    BY <1>4 DEF GetSymbols
  <2>2. point \in Nat
    BY Grid DEF FieldInv, SymbolsWritten
  <2>3. CoversUpTo(point + 1)
    BY <2>1, <2>2, ReadableCovers DEF FieldInv, OutcomeInv
  <2> QED
    BY <1>2, <1>3, <2>1, <2>3 DEF OutcomeInv
<1>5. CASE OutOfRange \/ NoSymbol \/ ParameterFails
  <2>1. phase' = "failed"
    BY <1>5 DEF OutOfRange, NoSymbol, ParameterFails
  <2> QED
    BY <1>2, <1>3, <1>5, <2>1, LostForAReason DEF OutcomeInv
<1>6. CASE Select \/ StoreSymbol
  <2>1. /\ phase = "symbols" /\ phase' = phase /\ pc # "idle"
        /\ \/ point' = point /\ pc' # "idle"
           \/ point' = point + 1 /\ pc' = "idle"
    BY <1>6 DEF Select, StoreSymbol, NextEntry, Selected, fieldVars
  <2>2. CoversUpTo(point + 1)
    BY <2>1 DEF OutcomeInv
  <2> QED
    BY <1>2, <1>3, <2>1, <2>2 DEF OutcomeInv
<1>7. CASE SymbolsStored
  <2>1. phase = "symbols" /\ pc = "idle" /\ point = PointCount /\ phase' = "values"
    BY <1>7 DEF SymbolsStored
  <2>2. PointCount \in Nat \ {0}
    BY Grid DEF FieldInv
  <2>3. PrecipitationCovers
    BY <2>1, <2>2 DEF OutcomeInv, CoversUpTo, PrecipitationCovers
  <2> QED
    BY <1>2, <1>3, <2>1, <2>3 DEF OutcomeInv
<1>8. CASE BeginPoint \/ Choose \/ StoreValue \/ ParameterStored
  <2>1. phase = "values" /\ phase' = "values"
    BY <1>8 DEF BeginPoint, Choose, StoreValue, ParameterStored, NextParameter, fieldVars
  <2> QED
    BY <1>2, <1>3, <2>1 DEF OutcomeInv
<1>9. CASE SaveAll
  <2>1. phase = "values" /\ phase' = "saved" /\ Len(fields) = Len(requests) /\ UNCHANGED fields
    BY <1>9 DEF SaveAll
  <2> QED
    BY <1>1, <1>2, <1>3, <2>1 DEF OutcomeInv
<1>10. CASE UNCHANGED <<fieldVars, vars>>
  <2>1. UNCHANGED <<phase, pc, point, fields>>
    BY <1>10 DEF fieldVars, vars
  <2> QED
    BY <1>1, <1>2, <1>3, <2>1 DEF OutcomeInv
<1> QED
  BY <1>4, <1>5, <1>6, <1>7, <1>8, <1>9, <1>10 DEF FieldNext, Over

LEMMA OutcomeInvHolds == FieldSpec => []OutcomeInv
BY OutcomeInvInit, OutcomeInvNext, FieldInvHolds, RoundInvHolds, PTL DEF FieldSpec

\* A time step is saved whole or not at all: with the symbols and every
\* parameter on the whole grid, only if all of them and the precipitation fit
\* the weather, and with the default fraction of wet members it is lost only if
\* one of them does not: whatever the size of the ensemble, the size of the
\* grid and the number of parameters.
THEOREM FieldsAreWhole == FieldSpec => []WholeFieldsOnly
<1>1. FieldInv /\ OutcomeInv => WholeFieldsOnly
  <2> SUFFICES ASSUME FieldInv, OutcomeInv PROVE WholeFieldsOnly
    OBVIOUS
  <2>1. ASSUME phase = "saved"
        PROVE  /\ EverythingFits
               /\ Len(symbolOut) = PointCount /\ Len(certaintyOut) = PointCount
               /\ Len(fields) = Len(requests)
               /\ \A n \in DOMAIN fields : Len(fields[n]) = PointCount
    <3>1. PrecipitationCovers /\ Len(fields) = Len(requests)
      BY <2>1 DEF OutcomeInv
    <3>2. Len(symbolOut) = PointCount /\ Len(certaintyOut) = PointCount
      BY <2>1 DEF FieldInv, SymbolsKept
    <3>3. \A n \in DOMAIN fields : Fits(requests[n]) /\ Len(fields[n]) = PointCount
      BY DEF FieldInv, FieldsKept
    <3>4. DOMAIN fields = DOMAIN requests
      BY <3>1 DEF FieldInv, FieldsKept, GivenFields
    <3> QED
      BY <3>1, <3>2, <3>3, <3>4 DEF EverythingFits
  <2>2. phase = "failed" /\ UpToHalf => ~EverythingFits
    BY DEF OutcomeInv
  <2> QED
    BY <2>1, <2>2 DEF WholeFieldsOnly
<1> QED
  BY <1>1, FieldInvHolds, OutcomeInvHolds, PTL

=============================================================================
