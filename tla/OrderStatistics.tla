--------------------------- MODULE OrderStatistics ---------------------------
(* Facts about a finite set of members that have integer values: how many    *)
(* are below, at and above a value, and that the member of a given rank, as  *)
(* which sorting is modelled, exists.                                        *)
EXTENDS Integers, Sequences, FiniteSets, FiniteSetTheorems, TLAPS

LEMMA LeastNatural ==
    ASSUME NEW T, T \subseteq Nat, T # {}
    PROVE  \E n \in T : \A m \in T : n <= m
<1>1. PICK n \in T : \A m \in T : <<m, n>> \notin OpToRel(<, Nat)
  BY NatLessThanWellFounded, WFMin
<1>2. \A m \in T : ~(m < n)
  BY <1>1 DEF OpToRel
<1> QED
  BY <1>2

\* Of finitely many members one has the least value: the one that the fewest
\* others are below.
LEMMA LeastMember ==
    ASSUME NEW M, IsFiniteSet(M), M # {}, NEW v, \A i \in M : v[i] \in Int
    PROVE  \E i \in M : \A j \in M : v[i] <= v[j]
<1> DEFINE Under(i) == {j \in M : v[j] < v[i]}
           Counts == {Cardinality(Under(i)) : i \in M}
<1>1. \A i \in M : IsFiniteSet(Under(i)) /\ Cardinality(Under(i)) \in Nat
  BY FS_Subset, FS_CardinalityType
<1>2. PICK i \in M : \A j \in M : Cardinality(Under(i)) <= Cardinality(Under(j))
  <2>1. Counts \subseteq Nat /\ Counts # {}
    BY <1>1
  <2>2. PICK n \in Counts : \A m \in Counts : n <= m
    BY <2>1, LeastNatural
  <2> QED
    BY <2>2
<1>3. ASSUME NEW j \in M, v[j] < v[i]
      PROVE  FALSE
  <2>1. Under(j) \subseteq Under(i) /\ j \in Under(i) /\ j \notin Under(j)
    BY <1>3
  <2>2. Cardinality(Under(j)) <= Cardinality(Under(i))
        /\ Cardinality(Under(j)) # Cardinality(Under(i))
    BY <1>1, <2>1, FS_Subset
  <2> HIDE DEF Under
  <2> QED
    BY <1>1, <1>2, <2>2
<1> QED
  BY <1>3

LEMMA GreatestMember ==
    ASSUME NEW M, IsFiniteSet(M), M # {}, NEW v, \A i \in M : v[i] \in Int
    PROVE  \E i \in M : \A j \in M : v[j] <= v[i]
<1> DEFINE w == [i \in M |-> -v[i]]
<1>1. \A i \in M : w[i] \in Int /\ w[i] = -v[i]
  OBVIOUS
<1> HIDE DEF w
<1>2. PICK i \in M : \A j \in M : w[i] <= w[j]
  BY <1>1, LeastMember
<1>3. \A j \in M : v[j] <= v[i]
  BY <1>1, <1>2
<1> QED
  BY <1>3

\* The members on both sides of a value, and with the value.
LEMMA SidesOfAValue ==
    ASSUME NEW M, IsFiniteSet(M), NEW v, \A i \in M : v[i] \in Int, NEW x \in Int
    PROVE  /\ \A S \in SUBSET M : IsFiniteSet(S) /\ Cardinality(S) \in 0 .. Cardinality(M)
           /\ Cardinality({i \in M : v[i] < x}) + Cardinality({i \in M : v[i] >= x})
                  = Cardinality(M)
           /\ Cardinality({i \in M : v[i] <= x}) + Cardinality({i \in M : v[i] > x})
                  = Cardinality(M)
<1>1. \A S \in SUBSET M : /\ IsFiniteSet(S) /\ Cardinality(S) \in 0 .. Cardinality(M)
                          /\ Cardinality(M \ S) = Cardinality(M) - Cardinality(S)
  <2> SUFFICES ASSUME NEW S \in SUBSET M
               PROVE  /\ IsFiniteSet(S) /\ Cardinality(S) \in 0 .. Cardinality(M)
                      /\ Cardinality(M \ S) = Cardinality(M) - Cardinality(S)
    OBVIOUS
  <2>1. IsFiniteSet(S) /\ Cardinality(S) <= Cardinality(M)
    BY FS_Subset
  <2>2. Cardinality(S) \in Nat /\ Cardinality(M) \in Nat
    BY <2>1, FS_CardinalityType
  <2>3. M \cap S = S
    OBVIOUS
  <2>4. Cardinality(M \ S) = Cardinality(M) - Cardinality(S)
    BY <2>3, FS_Difference
  <2> QED
    BY <2>1, <2>2, <2>4
<1>2. /\ {i \in M : v[i] >= x} = M \ {i \in M : v[i] < x}
      /\ {i \in M : v[i] > x} = M \ {i \in M : v[i] <= x}
  OBVIOUS
<1>3. Cardinality(M) \in Nat
  BY FS_CardinalityType
<1> DEFINE A == {i \in M : v[i] < x}
           B == {i \in M : v[i] <= x}
<1>4. A \in SUBSET M /\ B \in SUBSET M
  OBVIOUS
<1>5. /\ Cardinality(A) \in 0 .. Cardinality(M) /\ Cardinality(B) \in 0 .. Cardinality(M)
      /\ Cardinality(M \ A) = Cardinality(M) - Cardinality(A)
      /\ Cardinality(M \ B) = Cardinality(M) - Cardinality(B)
  <2> HIDE DEF A, B
  <2> QED
    BY <1>1, <1>4
<1>6. Cardinality(A) + Cardinality(M \ A) = Cardinality(M)
      /\ Cardinality(B) + Cardinality(M \ B) = Cardinality(M)
  <2> HIDE DEF A, B
  <2> QED
    BY <1>3, <1>5
<1> QED
  BY <1>1, <1>2, <1>6

\* A member of rank k: fewer than k are below it, at least k not above it.
HasRank(M, v, k, m) ==
    /\ Cardinality({i \in M : v[i] < v[m]}) < k
    /\ Cardinality({i \in M : v[i] <= v[m]}) >= k

LEMMA RankExists ==
    ASSUME NEW M, IsFiniteSet(M), NEW v, \A i \in M : v[i] \in Int,
           NEW k \in 1 .. Cardinality(M)
    PROVE  \E m \in M : HasRank(M, v, k, m)
<1> DEFINE UpTo(m) == {i \in M : v[i] <= v[m]}
           Under(m) == {i \in M : v[i] < v[m]}
           Enough == {m \in M : Cardinality(UpTo(m)) >= k}
<1>1. \A S \in SUBSET M : IsFiniteSet(S) /\ Cardinality(S) \in Nat
  BY FS_Subset, FS_CardinalityType
<1>2. Cardinality(M) \in Nat
  BY FS_CardinalityType
<1>3. M # {}
  BY <1>2, FS_EmptySet
<1>4. PICK top \in M : \A j \in M : v[j] <= v[top]
  BY <1>3, GreatestMember
<1>5. Enough # {}
  <2>1. UpTo(top) = M
    BY <1>4
  <2>2. Cardinality(UpTo(top)) >= k
    BY <1>2, <2>1
  <2> QED
    BY <2>2
<1>6. PICK m \in Enough : \A j \in Enough : v[m] <= v[j]
  <2>1. IsFiniteSet(Enough) /\ \A i \in Enough : v[i] \in Int
    BY <1>1
  <2> HIDE DEF Enough
  <2> QED
    BY <1>5, <2>1, LeastMember
<1>7. Cardinality(Under(m)) < k
  <2>1. CASE Under(m) = {}
    BY <2>1, FS_EmptySet
  <2>2. CASE Under(m) # {}
    <3>1. PICK j \in Under(m) : \A i \in Under(m) : v[i] <= v[j]
      <4>1. IsFiniteSet(Under(m)) /\ \A i \in Under(m) : v[i] \in Int
        BY <1>1
      <4> HIDE DEF Under
      <4> QED
        BY <2>2, <4>1, GreatestMember
    <3>2. UpTo(j) = Under(m) /\ j \notin Enough
      BY <1>6, <3>1
    <3>3. ~(Cardinality(Under(m)) >= k) /\ Cardinality(Under(m)) \in Nat
      BY <1>1, <3>2
    <3> HIDE DEF Under
    <3> QED
      BY <3>3
  <2> QED
    BY <2>1, <2>2
<1> QED
  BY <1>6, <1>7 DEF HasRank

\* Sets whose members are matched one to one have as many.
LEMMA Matched ==
    ASSUME NEW S, NEW T, IsFiniteSet(T), NEW e,
           \A x \in S : e[x] \in T,
           \A x, y \in S : e[x] = e[y] => x = y,
           \A z \in T : \E x \in S : e[x] = z
    PROVE  Cardinality(S) = Cardinality(T)
<1> DEFINE f == [x \in S |-> e[x]]
<1>1. f \in [S -> T] /\ DOMAIN f = S /\ \A x \in S : f[x] = e[x]
  OBVIOUS
<1> HIDE DEF f
<1>2. f \in Injection(S, T)
  BY <1>1 DEF Injection, IsInjective
<1>3. f \in Surjection(S, T)
  BY <1>1 DEF Surjection
<1> QED
  BY <1>2, <1>3, FS_Injection

\* The positions of a sequence, and the middle ones.
LEMMA SequenceSize ==
    ASSUME NEW X, NEW q \in Seq(X)
    PROVE  /\ Len(q) \in Nat /\ DOMAIN q = 1 .. Len(q)
           /\ IsFiniteSet(DOMAIN q) /\ Cardinality(DOMAIN q) = Len(q)
<1>1. DOMAIN q = 1 .. Len(q) /\ Len(q) \in Nat
  OBVIOUS
<1>2. Len(q) \in Int /\ (1 > Len(q) <=> Len(q) = 0)
  BY <1>1
<1>3. \A b \in Int : IsFiniteSet(1 .. b) /\ Cardinality(1 .. b) = IF 1 > b THEN 0 ELSE b - 1 + 1
  BY FS_Interval
<1>4. Cardinality(1 .. Len(q)) = IF Len(q) = 0 THEN 0 ELSE Len(q) - 1 + 1
  BY <1>2, <1>3
<1> QED
  BY <1>1, <1>2, <1>3, <1>4

LEMMA Halving ==
    \A n \in Nat \ {0} :
        n \div 2 \in 0 .. n - 1 /\ n % 2 \in {0, 1} /\ n = 2 * (n \div 2) + (n % 2)
OBVIOUS

\* A stretch of positions whose members are all in T.
LEMMA StretchInside ==
    ASSUME NEW a \in Int, NEW b \in Int, a <= b + 1, NEW e, NEW T, IsFiniteSet(T),
           \A i, j \in a .. b : e[i] = e[j] => i = j,
           \A i \in a .. b : e[i] \in T
    PROVE  Cardinality(T) >= b - a + 1
<1> DEFINE S == a .. b
           U == {e[i] : i \in S}
<1>1. Cardinality(S) = IF a > b THEN 0 ELSE b - a + 1
  BY FS_Interval
<1>2. Cardinality(S) = b - a + 1
  BY <1>1
<1>3. U \subseteq T
  OBVIOUS
<1>4. IsFiniteSet(U) /\ Cardinality(U) <= Cardinality(T)
  BY <1>3, FS_Subset
<1>5. /\ \A i \in S : e[i] \in U
      /\ \A i, j \in S : e[i] = e[j] => i = j
      /\ \A m \in U : \E i \in S : e[i] = m
  OBVIOUS
<1>6. Cardinality(U) \in Nat /\ Cardinality(T) \in Nat
  BY <1>4, FS_CardinalityType
<1> HIDE DEF S, U
<1>7. Cardinality(S) = Cardinality(U)
  BY <1>4, <1>5, Matched
<1> QED
  BY <1>2, <1>4, <1>6, <1>7

\* q lists the values d of the members S, each of them once: e says whose.
Enumerates(e, q, d, S) ==
    /\ e \in [DOMAIN q -> S]
    /\ \A i, j \in DOMAIN q : e[i] = e[j] => i = j
    /\ \A m \in S : \E i \in DOMAIN q : e[i] = m
    /\ \A i \in DOMAIN q : q[i] = d[e[i]]

LEMMA EmptyEnumeration ==
    ASSUME NEW d
    PROVE  \E e : Enumerates(e, << >>, d, {})
<1>1. DOMAIN << >> = {}
  OBVIOUS
<1>2. [i \in {} |-> 0] \in [{} -> {}]
  OBVIOUS
<1>3. Enumerates([i \in {} |-> 0], << >>, d, {})
  BY <1>1, <1>2 DEF Enumerates
<1> QED
  BY <1>3

\* The value of one more member is pushed.
LEMMA LongerEnumeration ==
    ASSUME NEW q \in Seq(Int), NEW d, NEW S, NEW e, Enumerates(e, q, d, S),
           NEW k, k \notin S, d[k] \in Int
    PROVE  \E f : Enumerates(f, Append(q, d[k]), d, S \cup {k})
<1> DEFINE n == Len(q)
           r == Append(q, d[k])
           f == [i \in 1 .. n + 1 |-> IF i = n + 1 THEN k ELSE e[i]]
<1>1. DOMAIN q = 1 .. n /\ n \in Nat
  OBVIOUS
<1>2. /\ r \in Seq(Int) /\ DOMAIN r = 1 .. n + 1 /\ r[n + 1] = d[k]
      /\ \A i \in 1 .. n : r[i] = q[i]
  OBVIOUS
<1>3. /\ e \in [1 .. n -> S]
      /\ \A i, j \in 1 .. n : e[i] = e[j] => i = j
      /\ \A m \in S : \E i \in 1 .. n : e[i] = m
      /\ \A i \in 1 .. n : q[i] = d[e[i]]
  BY <1>1 DEF Enumerates
<1>4. \A i \in 1 .. n : f[i] = e[i] /\ f[i] \in S
  BY <1>1, <1>3
<1>5. f[n + 1] = k /\ f \in [1 .. n + 1 -> S \cup {k}]
  BY <1>1, <1>3
<1>6. /\ \A i \in 1 .. n + 1 : i \in 1 .. n \/ i = n + 1
      /\ \A i \in 1 .. n : i \in 1 .. n + 1
      /\ n + 1 \in 1 .. n + 1
  BY <1>1
<1> HIDE DEF n, f, r
<1>7. \A i, j \in 1 .. n + 1 : f[i] = f[j] => i = j
  BY <1>3, <1>4, <1>5, <1>6
<1>8. \A m \in S \cup {k} : \E i \in 1 .. n + 1 : f[i] = m
  <2>1. \A m \in S : \E i \in 1 .. n + 1 : f[i] = m
    BY <1>3, <1>4, <1>6
  <2>2. \E i \in 1 .. n + 1 : f[i] = k
    BY <1>5, <1>6
  <2> QED
    BY <2>1, <2>2
<1>9. \A i \in 1 .. n + 1 : r[i] = d[f[i]]
  BY <1>2, <1>3, <1>4, <1>5, <1>6
<1>10. Enumerates(f, r, d, S \cup {k})
  BY <1>2, <1>5, <1>7, <1>8, <1>9 DEF Enumerates
<1> QED
  BY <1>10 DEF r

\* As many positions as members are singled out.
LEMMA CountedAlike ==
    ASSUME NEW q, NEW d, NEW S, IsFiniteSet(S), NEW e, Enumerates(e, q, d, S),
           NEW A, A \subseteq DOMAIN q, NEW B, B \subseteq S,
           \A i \in DOMAIN q : i \in A <=> e[i] \in B
    PROVE  Cardinality(A) = Cardinality(B)
<1>1. /\ \A i \in A : e[i] \in B
      /\ \A i, j \in A : e[i] = e[j] => i = j
      /\ \A m \in B : \E i \in A : e[i] = m
  BY DEF Enumerates
<1>2. IsFiniteSet(B)
  BY FS_Subset
<1> QED
  BY <1>1, <1>2, Matched

=============================================================================
