------------------------- MODULE WindSelectionProofs -------------------------
(* Proofs about the selection of a wind, for ensembles of every size and     *)
(* every relevant weather.                                                    *)
EXTENDS WindSelection, OrderStatistics, FiniteSetTheorems, SequenceTheorems,
        TLAPS

\* The winds of the members: forces are even numbers, an average of two whole.
GivenInv ==
    /\ samples \in Seq(Wind) \ {<< >>}
    /\ \A m \in Member : samples[m].force % 2 = 0
    /\ influencing \subseteq Member /\ influencing # {}

\* The relevant members by force, each of them once.
Ordered(q) ==
    /\ q \in [1 .. Cardinality(influencing) -> influencing]
    /\ \A i, j \in DOMAIN q : q[i] = q[j] => i = j
    /\ \A i, j \in DOMAIN q : i < j => samples[q[i]].force <= samples[q[j]].force

WindInv ==
    /\ GivenInv
    /\ pc \in {"sort", "select", "rate", "done"}
    /\ IF pc = "sort" THEN sorted = << >> ELSE Ordered(sorted)
    /\ selectedWind = IF Chosen THEN median ELSE NaN
    /\ forceProbability = IF pc = "done" THEN getForceProbability ELSE 0

LEMMA GivenHolds == Init => GivenInv
<1> SUFFICES ASSUME Init PROVE GivenInv
  OBVIOUS
<1>1. /\ samples \in Seq(Wind) \ {<< >>}
      /\ \A m \in DOMAIN samples : samples[m].force % 2 = 0
  BY SamplesAssumption DEF Init
<1> QED
  BY <1>1 DEF Init, GivenInv, Member

\* What is known of the members, and of the sets of them that are counted.
LEMMA Members ==
    ASSUME GivenInv
    PROVE  /\ Len(samples) \in Nat \ {0} /\ Member = 1 .. Len(samples)
           /\ IsFiniteSet(Member) /\ Cardinality(Member) = Len(samples)
           /\ \A m \in Member : samples[m] \in Wind
                                /\ samples[m].force \in Nat
           /\ \A S \in SUBSET Member :
                 IsFiniteSet(S) /\ Cardinality(S) \in 0 .. Len(samples)
           /\ \A S, T \in SUBSET Member :
                 S \subseteq T => Cardinality(S) <= Cardinality(T)
           /\ Cardinality(influencing) \in Nat \ {0}
<1>1. /\ Len(samples) \in Nat \ {0} /\ Member = 1 .. Len(samples)
      /\ \A m \in Member : samples[m] \in Wind
  BY DEF GivenInv, Member
<1>2. \A w \in Wind : w.force \in Nat
  BY DEF Wind
<1>3. IsFiniteSet(Member) /\ Cardinality(Member) = Len(samples)
  BY SequenceSize DEF GivenInv, Member
<1>4. \A S \in SUBSET Member : IsFiniteSet(S) /\ Cardinality(S) <= Len(samples)
                               /\ Cardinality(S) \in Nat
  BY <1>3, FS_Subset, FS_CardinalityType
<1>5. \A S, T \in SUBSET Member : S \subseteq T => Cardinality(S) <= Cardinality(T)
  BY <1>4, FS_Subset
<1>6. Cardinality(influencing) # 0
  BY <1>4, FS_EmptySet DEF GivenInv
<1>7. \A S \in SUBSET Member : Cardinality(S) \in 0 .. Len(samples)
  BY <1>1, <1>4
<1> QED
  BY <1>1, <1>2, <1>3, <1>4, <1>5, <1>6, <1>7 DEF GivenInv

LEMMA WindInvNext == WindInv /\ [Next]_vars => WindInv'
<1> SUFFICES ASSUME WindInv, [Next]_vars PROVE WindInv'
  OBVIOUS
<1>1. UNCHANGED <<samples, influencing>>
  BY DEF Next, Sort, Select, Rate, Terminated, vars
<1>2. GivenInv'
  BY <1>1 DEF WindInv, GivenInv, Member
<1>3. \A q : Ordered(q) = Ordered(q)'
  BY <1>1 DEF Ordered
<1>4. CASE Sort
  <2> DEFINE n == Cardinality(influencing)
  <2>1. /\ sorted' \in [1 .. n -> influencing]
        /\ \A i, j \in DOMAIN sorted' :
              i < j => /\ sorted'[i] # sorted'[j]
                       /\ samples[sorted'[i]].force <= samples[sorted'[j]].force
    BY <1>4 DEF Sort
  <2>2. DOMAIN sorted' = 1 .. n /\ n \in Nat
    BY <2>1, Members DEF WindInv
  <2>3. ASSUME NEW i \in 1 .. n, NEW j \in 1 .. n, sorted'[i] = sorted'[j]
        PROVE  i = j
    <3> HIDE DEF n
    <3>1. ~(i < j) /\ ~(j < i)
      BY <2>1, <2>2, <2>3
    <3> QED
      BY <2>2, <3>1
  <2>4. Ordered(sorted')
    BY <2>1, <2>2, <2>3 DEF Ordered
  <2>5. Ordered(sorted)'
    BY <1>1, <2>4 DEF Ordered
  <2> QED
    BY <1>2, <1>4, <2>5 DEF Sort, WindInv, Chosen
<1>5. CASE Select
  <2>1. /\ selectedWind' = median /\ pc' = "rate" /\ pc = "select"
        /\ UNCHANGED <<samples, influencing, sorted, forceProbability>>
    BY <1>5 DEF Select
  <2>2. median' = median
    BY <2>1 DEF median, At, elementCount
  <2>3. Ordered(sorted)'
    BY <2>1 DEF WindInv, Ordered
  <2> QED
    BY <1>2, <2>1, <2>2, <2>3 DEF WindInv, Chosen
<1>6. CASE Rate
  <2>1. /\ forceProbability' = getForceProbability
        /\ pc' = "done" /\ pc = "rate"
        /\ UNCHANGED <<samples, influencing, sorted, selectedWind>>
    BY <1>6 DEF Rate
  <2>2. median' = median
    BY <2>1 DEF median, At, elementCount
  <2>3. getForceProbability' = getForceProbability
    BY <2>1 DEF getForceProbability, Member, deviation
  <2>4. Ordered(sorted)'
    BY <2>1 DEF WindInv, Ordered
  <2> QED
    BY <1>2, <2>1, <2>2, <2>3, <2>4 DEF WindInv, Chosen
<1>7. CASE UNCHANGED vars
  <2>1. UNCHANGED <<samples, influencing, pc, sorted, selectedWind, forceProbability>>
    BY <1>7 DEF vars
  <2>2. median' = median
    BY <2>1 DEF median, At, elementCount
  <2>3. getForceProbability' = getForceProbability
    BY <2>1 DEF getForceProbability, Member, deviation
  <2>4. Ordered(sorted)' = Ordered(sorted)
    BY <2>1 DEF Ordered
  <2> QED
    BY <1>2, <2>1, <2>2, <2>3, <2>4 DEF WindInv, Chosen
<1> QED
  BY <1>4, <1>5, <1>6, <1>7 DEF Next, Terminated

LEMMA WindInvHolds == Spec => []WindInv
<1>1. Init => WindInv
  BY GivenHolds DEF Init, WindInv, Chosen
<1> QED
  BY <1>1, WindInvNext, PTL DEF Spec

-----------------------------------------------------------------------------
(* The selected wind *)

\* The sorted members: as many as are relevant, and each of them occurs.
LEMMA SortedMembers ==
    ASSUME GivenInv, Ordered(sorted)
    PROVE  /\ elementCount = Cardinality(influencing) /\ elementCount \in Nat \ {0}
           /\ DOMAIN sorted = 1 .. elementCount
           /\ \A i \in 1 .. elementCount : sorted[i] \in influencing
           /\ \A i, j \in 1 .. elementCount : sorted[i] = sorted[j] => i = j
           /\ \A i, j \in 1 .. elementCount :
                 i <= j => samples[sorted[i]].force <= samples[sorted[j]].force
           /\ sorted \in Seq(influencing)
<1> DEFINE n == Cardinality(influencing)
<1>1. n \in Nat \ {0}
  BY Members
<1> HIDE DEF n
<1>2. sorted \in [1 .. n -> influencing]
  BY DEF Ordered, n
<1>3. sorted \in Seq(influencing) /\ Len(sorted) = n
  <2>1. sorted \in Seq(influencing)
    BY <1>1, <1>2, SeqDef
  <2> QED
    BY <1>1, <1>2, <2>1
<1>4. \A i \in 1 .. n : sorted[i] \in influencing /\ samples[sorted[i]].force \in Nat
  BY <1>2, Members DEF GivenInv
<1>5. DOMAIN sorted = 1 .. n
  BY <1>2
<1>6. ASSUME NEW i \in 1 .. n, NEW j \in 1 .. n, i <= j
      PROVE  samples[sorted[i]].force <= samples[sorted[j]].force
  <2>1. CASE i = j
    BY <1>4, <2>1
  <2>2. CASE i # j
    <3>1. i < j
      BY <1>1, <1>6, <2>2
    <3> QED
      BY <1>5, <3>1 DEF Ordered
  <2> QED
    BY <2>1, <2>2
<1>7. \A i, j \in 1 .. n : sorted[i] = sorted[j] => i = j
  BY <1>5 DEF Ordered
<1> QED
  BY <1>1, <1>3, <1>4, <1>5, <1>6, <1>7 DEF elementCount, n

\* Up to half of the members come before a position and from it on.
LEMMA UpToPosition ==
    ASSUME GivenInv, Ordered(sorted), NEW T \in SUBSET influencing,
           NEW k \in 1 .. elementCount
    PROVE  /\ (\A i \in 1 .. k : sorted[i] \in T) => Cardinality(T) >= k
           /\ (\A i \in k .. elementCount : sorted[i] \in T)
                  => Cardinality(T) >= elementCount - k + 1
<1>1. elementCount \in Nat /\ \A i, j \in 1 .. elementCount : sorted[i] = sorted[j] => i = j
  BY SortedMembers
<1>2. IsFiniteSet(T)
  BY Members DEF GivenInv
<1>3. \A i \in 1 .. k : i \in 1 .. elementCount
  BY <1>1
<1>4. \A i \in k .. elementCount : i \in 1 .. elementCount
  BY <1>1
<1>5. k \in Int /\ 1 <= k + 1 /\ k <= elementCount + 1 /\ k - 1 + 1 = k
  BY <1>1
<1>6. (\A i \in 1 .. k : sorted[i] \in T) => Cardinality(T) >= k - 1 + 1
  <2>1. 1 \in Int /\ \A i, j \in 1 .. k : sorted[i] = sorted[j] => i = j
    BY <1>1, <1>3
  <2> QED
    BY <1>2, <1>5, <2>1, StretchInside
<1>7. (\A i \in k .. elementCount : sorted[i] \in T)
          => Cardinality(T) >= elementCount - k + 1
  BY <1>1, <1>2, <1>4, <1>5, StretchInside
<1> QED
  BY <1>5, <1>6, <1>7

\* The average of two even numbers is between them.
LEMMA Average ==
    ASSUME NEW a \in Nat, NEW b \in Nat, a % 2 = 0, b % 2 = 0, a <= b
    PROVE  LET c == (b + a) \div 2 IN c \in Nat /\ a <= c /\ c <= b
OBVIOUS

\* What the median is: the middle wind, or the one before scaled to the
\* average force, or no wind, if that one is a calm.
LEMMA MedianWind ==
    ASSUME GivenInv, Ordered(sorted)
    PROVE  LET half == elementCount \div 2
               low == samples[sorted[half]]
               high == samples[sorted[half + 1]]
           IN  /\ elementCount % 2 = 1 => median = high
               /\ elementCount % 2 = 0 =>
                     /\ half \in 1 .. elementCount - 1
                     /\ low.force = 0 => median = NaN
                     /\ low.force # 0 =>
                           /\ median \in Wind
                           /\ median.direction = low.direction
                           /\ low.force <= median.force /\ median.force <= high.force
<1> DEFINE n == elementCount
           half == n \div 2
           low == samples[sorted[half]]
           high == samples[sorted[half + 1]]
           average == (high.force + low.force) \div 2
<1>1. n \in Nat \ {0} /\ \A i \in 1 .. n : sorted[i] \in Member
  BY SortedMembers DEF GivenInv
<1>2. half \in 0 .. n - 1 /\ n = 2 * half + (n % 2)
  BY <1>1, Halving
<1> HIDE DEF half, n
<1>3. n % 2 = 1 => median = samples[sorted[half + 1]]
  BY DEF median, At, half, n
<1>4. CASE n % 2 = 0
  <2>1. half \in 1 .. n - 1 /\ half \in 1 .. n /\ half + 1 \in 1 .. n /\ half - 1 + 1 = half
    BY <1>1, <1>2, <1>4
  <2>2. /\ low \in Wind /\ low.force \in Nat /\ high.force \in Nat
        /\ low.force % 2 = 0 /\ high.force % 2 = 0
    BY <1>1, <2>1, Members DEF GivenInv
  <2>3. low.force <= high.force
    <3>1. half <= half + 1
      BY <2>1
    <3> QED
      BY <2>1, <3>1, SortedMembers DEF n
  <2>4. median = scaledTo(low, average)
    BY <1>4, <2>1 DEF median, At, half, n
  <2> HIDE DEF low, high
  <2>5. average \in Nat /\ low.force <= average /\ average <= high.force
    BY <2>2, <2>3, Average
  <2> HIDE DEF average
  <2>6. low.force = 0 => median = NaN
    BY <2>4 DEF scaledTo
  <2>7. ASSUME low.force # 0
        PROVE  /\ median \in Wind /\ median.direction = low.direction
               /\ median.force = average
    <3>1. median = [low EXCEPT !.force = average]
      BY <2>4, <2>7 DEF scaledTo
    <3> QED
      BY <2>2, <2>5, <3>1 DEF Wind
  <2> QED
    BY <1>1, <1>4, <2>1, <2>5, <2>6, <2>7 DEF low, high, half, n
<1> QED
  BY <1>1, <1>2, <1>3, <1>4 DEF half, n

\* What is selected is a wind, unless it is not a number.
LEMMA MedianIsAWind ==
    ASSUME GivenInv, Ordered(sorted), median # NaN
    PROVE  median \in Wind
<1>1. /\ elementCount \in Nat \ {0}
      /\ \A i \in 1 .. elementCount : samples[sorted[i]] \in Wind
  BY SortedMembers, Members DEF GivenInv
<1>2. elementCount \div 2 \in 0 .. elementCount - 1 /\ elementCount % 2 \in {0, 1}
  BY <1>1, Halving
<1>3. CASE elementCount % 2 = 1
  <2>1. elementCount \div 2 + 1 \in 1 .. elementCount
    BY <1>1, <1>2
  <2> QED
    BY <1>1, <1>3, <2>1, MedianWind
<1>4. CASE elementCount % 2 = 0
  BY <1>4, MedianWind
<1> QED
  BY <1>2, <1>3, <1>4

LEMMA MedianHalvesTheRelevant ==
    ASSUME WindInv
    PROVE  MedianUnlessCalm
<1> SUFFICES ASSUME Chosen PROVE MedianUnlessCalm
  BY DEF MedianUnlessCalm, MedianOfRelevant
<1> DEFINE n == elementCount
           half == n \div 2
           v == selectedWind
           below == {m \in influencing : samples[m].force <= v.force}
           above == {m \in influencing : samples[m].force >= v.force}
           calm == {m \in influencing : samples[m].force = 0}
           f(i) == samples[sorted[i]].force
<1>1. GivenInv /\ Ordered(sorted) /\ v = median
  BY DEF WindInv, Chosen
<1>2. /\ n = Cardinality(influencing) /\ n \in Nat \ {0}
      /\ \A i \in 1 .. n : /\ sorted[i] \in influencing
                           /\ samples[sorted[i]] \in Wind /\ samples[sorted[i]] # NaN
                           /\ f(i) \in Nat
      /\ \A i, j \in 1 .. n : i <= j => f(i) <= f(j)
  BY <1>1, SortedMembers, Members, NaNAssumption DEF GivenInv
<1>3. half \in 0 .. n - 1 /\ n = 2 * half + (n % 2) /\ n % 2 \in {0, 1}
  BY <1>2, Halving
<1>4. \A T \in SUBSET influencing : Cardinality(T) \in Nat
  BY <1>1, Members DEF GivenInv
<1>5. CASE n % 2 = 1
  <2>1. v = samples[sorted[half + 1]] /\ half + 1 \in 1 .. n
    <3>1. half + 1 \in 1 .. n
      <4> HIDE DEF half, n
      <4> QED
        BY <1>2, <1>3
    <3> QED
      BY <1>1, <1>5, <3>1, MedianWind
  <2>2. v # NaN /\ v.force = f(half + 1)
    BY <1>2, <2>1
  <2>3. \A i \in 1 .. half + 1 : sorted[i] \in below
    <3> SUFFICES ASSUME NEW i \in 1 .. half + 1 PROVE sorted[i] \in below
      OBVIOUS
    <3>1. i \in 1 .. n /\ i <= half + 1
      <4> HIDE DEF half, n
      <4> QED
        BY <1>2, <2>1
    <3> QED
      BY <1>2, <2>1, <2>2, <3>1
  <2>4. \A i \in half + 1 .. n : sorted[i] \in above
    <3> SUFFICES ASSUME NEW i \in half + 1 .. n PROVE sorted[i] \in above
      OBVIOUS
    <3>1. i \in 1 .. n /\ half + 1 <= i
      <4> HIDE DEF half, n
      <4> QED
        BY <1>2, <2>1
    <3> QED
      BY <1>2, <2>1, <2>2, <3>1
  <2>5. Cardinality(below) >= half + 1 /\ Cardinality(above) >= n - (half + 1) + 1
    <3>1. below \in SUBSET influencing /\ above \in SUBSET influencing
      OBVIOUS
    <3> HIDE DEF below, above
    <3> QED
      BY <1>1, <2>1, <2>3, <2>4, <3>1, UpToPosition
  <2>6. sorted[half + 1] \in below /\ samples[sorted[half + 1]].direction = v.direction
    BY <1>2, <2>1, <2>2
  <2>7. Cardinality(below) \in Nat /\ Cardinality(above) \in Nat
    BY <1>4
  <2>8. 2 * Cardinality(below) >= n /\ 2 * Cardinality(above) >= n
    <3> HIDE DEF below, above, half, n
    <3>1. n \in Nat /\ half \in Nat /\ n = 2 * half + 1
      BY <1>2, <1>3, <1>5
    <3> QED
      BY <2>5, <2>7, <3>1
  <2>9. /\ 2 * Cardinality(below) >= Cardinality(influencing)
        /\ 2 * Cardinality(above) >= Cardinality(influencing)
        /\ \E m \in below : samples[m].direction = v.direction
    BY <1>2, <2>6, <2>8
  <2> QED
    BY <2>2, <2>9 DEF MedianUnlessCalm, MedianOfRelevant
<1>6. CASE n % 2 = 0
  <2> DEFINE low == samples[sorted[half]]
             high == samples[sorted[half + 1]]
  <2>1. /\ half \in 1 .. n - 1
        /\ low.force = 0 => v = NaN
        /\ low.force # 0 =>
              /\ v \in Wind /\ v.direction = low.direction
              /\ low.force <= v.force /\ v.force <= high.force
    BY <1>1, <1>6, MedianWind
  <2>2. /\ half \in 1 .. n /\ half + 1 \in 1 .. n /\ half <= half + 1
        /\ \A i \in 1 .. half : i \in 1 .. n /\ i <= half
        /\ \A i \in half + 1 .. n : i \in 1 .. n /\ half + 1 <= i
    <3> HIDE DEF half, n
    <3> QED
      BY <1>2, <2>1
  <2>3. f(half) \in Nat /\ f(half + 1) \in Nat /\ f(half) = low.force /\ f(half + 1) = high.force
    BY <1>2, <2>2
  <2>4. CASE low.force = 0
    <3>1. v = NaN
      BY <2>1, <2>4
    <3>2. \A i \in 1 .. half : sorted[i] \in calm
      <4> SUFFICES ASSUME NEW i \in 1 .. half PROVE sorted[i] \in calm
        OBVIOUS
      <4>1. i \in 1 .. n /\ f(i) <= f(half) /\ f(i) \in Nat /\ sorted[i] \in influencing
        BY <1>2, <2>2
      <4>2. f(i) = 0
        <5> HIDE DEF f
        <5> QED
          BY <2>3, <2>4, <4>1
      <4> QED
        BY <4>1, <4>2
    <3>3. Cardinality(calm) >= half
      <4>1. calm \in SUBSET influencing
        OBVIOUS
      <4> HIDE DEF calm
      <4> QED
        BY <1>1, <2>2, <3>2, <4>1, UpToPosition
    <3>4. Cardinality(calm) \in Nat
      BY <1>4
    <3>5. 2 * Cardinality(calm) >= n
      <4> HIDE DEF calm, half, n
      <4> QED
        BY <1>2, <1>3, <1>6, <2>1, <3>3, <3>4
    <3> QED
      BY <1>2, <3>1, <3>5 DEF MedianUnlessCalm, MedianOfRelevant
  <2>5. CASE low.force # 0
    <3>1. /\ v \in Wind /\ v.force \in Nat /\ v.direction = low.direction
          /\ f(half) <= v.force /\ v.force <= f(half + 1)
      BY <2>1, <2>3, <2>5 DEF Wind
    <3>2. v # NaN
      BY <3>1, NaNAssumption
    <3>3. \A i \in 1 .. half : sorted[i] \in below
      <4> SUFFICES ASSUME NEW i \in 1 .. half PROVE sorted[i] \in below
        OBVIOUS
      <4>1. i \in 1 .. n /\ f(i) <= f(half) /\ f(i) \in Nat /\ sorted[i] \in influencing
        BY <1>2, <2>2
      <4>2. f(i) <= v.force
        <5> HIDE DEF f
        <5> QED
          BY <2>3, <3>1, <4>1
      <4> QED
        BY <4>1, <4>2
    <3>4. \A i \in half + 1 .. n : sorted[i] \in above
      <4> SUFFICES ASSUME NEW i \in half + 1 .. n PROVE sorted[i] \in above
        OBVIOUS
      <4>1. i \in 1 .. n /\ f(half + 1) <= f(i) /\ f(i) \in Nat /\ sorted[i] \in influencing
        BY <1>2, <2>2
      <4>2. f(i) >= v.force
        <5> HIDE DEF f
        <5> QED
          BY <2>3, <3>1, <4>1
      <4> QED
        BY <4>1, <4>2
    <3>5. Cardinality(below) >= half /\ Cardinality(above) >= n - (half + 1) + 1
      <4>1. below \in SUBSET influencing /\ above \in SUBSET influencing
        OBVIOUS
      <4> HIDE DEF below, above
      <4> QED
        BY <1>1, <2>2, <3>3, <3>4, <4>1, UpToPosition
    <3>6. sorted[half] \in below /\ samples[sorted[half]].direction = v.direction
      <4>1. half \in 1 .. half
        BY <2>2
      <4> QED
        BY <3>1, <3>3, <4>1
    <3>7. Cardinality(below) \in Nat /\ Cardinality(above) \in Nat
      BY <1>4
    <3>8. 2 * Cardinality(below) >= n /\ 2 * Cardinality(above) >= n
      <4> HIDE DEF below, above, half, n
      <4> QED
        BY <1>2, <1>3, <1>6, <2>1, <3>5, <3>7
    <3>9. /\ 2 * Cardinality(below) >= Cardinality(influencing)
          /\ 2 * Cardinality(above) >= Cardinality(influencing)
          /\ \E m \in below : samples[m].direction = v.direction
      BY <1>2, <3>6, <3>8
    <3> QED
      BY <3>2, <3>9 DEF MedianUnlessCalm, MedianOfRelevant
  <2> QED
    BY <2>4, <2>5
<1> QED
  BY <1>3, <1>5, <1>6

\* For every ensemble the selected wind lies in the middle of the relevant
\* forces and comes from a relevant member that is not stronger; it is no wind
\* at all only if at least half of the relevant members are calm.
THEOREM TheWindIsAMedian == Spec => []MedianUnlessCalm
BY WindInvHolds, MedianHalvesTheRelevant, PTL

-----------------------------------------------------------------------------
(* The certainties *)

\* For every ensemble the certainty is taken from all members, relevant or not:
\* those within 2 m/s of the selected force count, none more than 3 m/s away
\* does, and where the selected wind is not a number no member does.
THEOREM CertaintiesFromAllMembers == Spec => []CertaintyFromAllMembers
<1>1. WindInv => CertaintyFromAllMembers
  <2> SUFFICES ASSUME WindInv, pc = "done"
               PROVE  CertaintyFromAllMembers
    BY DEF CertaintyFromAllMembers
  <2> DEFINE near == {m \in Member : almost_equal_force(samples[m], selectedWind, deviation)}
  <2>1. GivenInv /\ (selectedWind # NaN => selectedWind \in Wind)
    BY MedianIsAWind DEF WindInv, Chosen
  <2>2. forceProbability = Cardinality(near)
    BY DEF WindInv, getForceProbability
  <2>3. CASE selectedWind = NaN
    <3>1. near = {}
      BY <2>3 DEF almost_equal_force
    <3> QED
      BY <2>2, <2>3, <3>1, FS_EmptySet DEF CertaintyFromAllMembers
  <2>4. CASE selectedWind # NaN
    <3>1. \A m \in Member : Abs(samples[m].force - selectedWind.force) \in Int
      <4>1. \A m \in Member : samples[m].force \in Nat
        BY <2>1, Members
      <4>2. selectedWind.force \in Nat
        BY <2>1, <2>4 DEF Wind
      <4>3. \A x, y \in Int : Abs(x - y) \in Int
        BY DEF Abs
      <4> QED
        BY <4>1, <4>2, <4>3
    <3>2. deviation \in {4, 6}
      BY DEF deviation, MetrePerSecond
    <3>3. Within(2) \subseteq near /\ near \subseteq Within(3)
      BY <2>4, <3>1, <3>2 DEF Within, almost_equal_force, MetrePerSecond
    <3>4. near \in SUBSET Member /\ Within(2) \in SUBSET Member /\ Within(3) \in SUBSET Member
      BY DEF Within
    <3> HIDE DEF near
    <3>5. /\ Cardinality(Within(2)) <= Cardinality(near)
          /\ Cardinality(near) <= Cardinality(Within(3))
          /\ \A S \in {near, Within(2), Within(3)} : Cardinality(S) \in 0 .. Len(samples)
          /\ Len(samples) \in Nat
      BY <2>1, <3>3, <3>4, Members
    <3> QED
      BY <2>2, <2>4, <3>5 DEF CertaintyFromAllMembers
  <2> QED
    BY <2>3, <2>4
<1> QED
  BY <1>1, WindInvHolds, PTL

\* Every variable has its type, whatever winds the members have: the selected
\* force is not negative, and the count does not exceed the number of members.
THEOREM WindTypes == Spec => []TypeOK
<1>1. WindInv => TypeOK
  <2> SUFFICES ASSUME WindInv PROVE TypeOK
    OBVIOUS
  <2>1. GivenInv
    BY DEF WindInv
  <2>2. samples \in Seq(Wind)
    BY <2>1 DEF GivenInv
  <2>3. sorted \in Seq(influencing)
    <3>1. CASE pc = "sort"
      BY <3>1 DEF WindInv
    <3>2. CASE pc # "sort"
      BY <2>1, <3>2, SortedMembers DEF WindInv
    <3> QED
      BY <3>1, <3>2
  <2>4. selectedWind \in Wind \cup {NaN}
    BY <2>1, MedianIsAWind DEF WindInv, Chosen
  <2>5. forceProbability \in 0 .. Len(samples)
    <3>1. getForceProbability \in 0 .. Len(samples)
      BY <2>1, Members DEF getForceProbability
    <3> QED
      BY <2>1, <3>1, Members DEF WindInv
  <2> QED
    BY <2>1, <2>2, <2>3, <2>4, <2>5 DEF WindInv, GivenInv, TypeOK
<1> QED
  BY <1>1, WindInvHolds, PTL

=============================================================================
