---------------------- MODULE GeneratedDataReaderProofs ----------------------
(* Proofs about the sink, for every translation, time axis and end.         *)
EXTENDS GeneratedDataReader, FiniteSetTheorems, TLAPS

-----------------------------------------------------------------------------
(* Places *)

\* The positions of the values of an extra dimension are those of a buffer,
\* and different values have different positions.
LEMMA PositionsOfValues ==
    ASSUME NEW D, D \subseteq Nat, IsFiniteSet(D), NEW x \in D
    PROVE  /\ Cardinality({v \in D : v < x}) \in 0 .. Cardinality(D) - 1
           /\ \A y \in D : y # x =>
                 Cardinality({v \in D : v < x}) # Cardinality({v \in D : v < y})
<1> DEFINE Below(y) == {v \in D : v < y}
<1>0. \A a, b, c \in D : a < b /\ b < c => a < c
  BY D \subseteq Nat
<1>1. \A y \in Nat : IsFiniteSet(Below(y)) /\ Cardinality(Below(y)) \in Nat
  BY FS_Subset, FS_CardinalityType
<1>2. Cardinality(D) \in Nat
  BY FS_CardinalityType
<1>3. ASSUME NEW y \in D, NEW S, IsFiniteSet(S), Below(y) \subseteq S, y \in S
      PROVE  Cardinality(Below(y)) < Cardinality(S)
  <2>1. Cardinality(Below(y)) <= Cardinality(S)
    BY <1>3, FS_Subset
  <2>2. y \notin Below(y)
    OBVIOUS
  <2>3. Below(y) # S
    BY <1>3, <2>2
  <2>4. Cardinality(Below(y)) # Cardinality(S)
    BY <1>3, <2>3, FS_Subset
  <2> HIDE DEF Below
  <2>5. Cardinality(S) \in Nat /\ Cardinality(Below(y)) \in Nat
    BY <1>1, <1>3, FS_CardinalityType
  <2> QED
    BY <2>1, <2>4, <2>5
<1>4. Cardinality(Below(x)) < Cardinality(D)
  BY <1>3
<1>5. ASSUME NEW y \in D, y # x
      PROVE  Cardinality(Below(x)) # Cardinality(Below(y))
  <2>1. CASE x < y
    <3>1. Below(x) \subseteq Below(y) /\ x \in Below(y)
      BY <2>1, <1>0
    <3>2. Cardinality(Below(x)) < Cardinality(Below(y))
      BY <3>1, <1>1, <1>3
    <3> HIDE DEF Below
    <3> QED
      BY <3>2, <1>1
  <2>2. CASE y < x
    <3>1. Below(y) \subseteq Below(x) /\ y \in Below(x)
      BY <2>2, <1>0
    <3>2. Cardinality(Below(y)) < Cardinality(Below(x))
      BY <3>1, <1>1, <1>3
    <3> HIDE DEF Below
    <3> QED
      BY <3>2, <1>1
  <2> QED
    BY <2>1, <2>2, <1>5
<1>6. Cardinality(Below(x)) \in 0 .. Cardinality(D) - 1
  <2> HIDE DEF Below
  <2> QED
    BY <1>1, <1>2, <1>4
<1> QED
  BY <1>5, <1>6

\* A parameter that has a place has it inside the buffer made for it.
LEMMA PlaceInsideBuffer ==
    ASSUME extraDimensions_ \in DimensionLists, NEW p \in DOMAIN translation_, HasValue(p)
    PROVE  getOutputBufferIndex_(p) \in 0 .. Fields(translation_[p].dimension) - 1
<1>1. CASE ~hasExtraDimension(p)
  BY <1>1 DEF getOutputBufferIndex_, hasExtraDimension, Fields
<1>2. CASE hasExtraDimension(p)
  <2> DEFINE D == extraDimensions_[translation_[p].dimension]
             x == translation_[p].value
  <2>1. translation_[p].dimension \in DOMAIN extraDimensions_
    BY <1>2 DEF HasValue, HasDimension
  <2>2. D \subseteq Nat /\ IsFiniteSet(D) /\ x \in D
    BY <1>2, <2>1, TranslationAssumption DEF HasValue
  <2>3. /\ getOutputBufferIndex_(p) = Cardinality({v \in D : v < x})
        /\ Fields(translation_[p].dimension) = Cardinality(D)
    BY <1>2 DEF getOutputBufferIndex_, hasExtraDimension, Fields
  <2> HIDE DEF D, x
  <2>4. Cardinality({v \in D : v < x}) \in 0 .. Cardinality(D) - 1
    BY <2>2, PositionsOfValues
  <2> QED
    BY <2>3, <2>4
<1> QED
  BY <1>1, <1>2

\* Without clashes, two parameters of one variable are in different positions.
LEMMA PlacesDiffer ==
    ASSUME extraDimensions_ \in DimensionLists, NoClash(translation_),
           NEW p \in DOMAIN translation_, NEW q \in DOMAIN translation_,
           p # q, cfName(p) = cfName(q), HasValue(p), HasValue(q)
    PROVE  getOutputBufferIndex_(p) # getOutputBufferIndex_(q)
<1> DEFINE D == extraDimensions_[translation_[p].dimension]
           x == translation_[p].value
           y == translation_[q].value
<1>1. /\ translation_[p].dimension = translation_[q].dimension
      /\ hasExtraDimension(p) /\ hasExtraDimension(q)
      /\ x # y
  BY DEF NoClash, cfName, hasExtraDimension
<1>2. translation_[p].dimension \in DOMAIN extraDimensions_
  BY <1>1 DEF HasValue, HasDimension
<1>3. D \subseteq Nat /\ IsFiniteSet(D) /\ x \in D /\ y \in D
  BY <1>1, <1>2, TranslationAssumption DEF HasValue
<1>4. /\ getOutputBufferIndex_(p) = Cardinality({v \in D : v < x})
      /\ getOutputBufferIndex_(q) = Cardinality({v \in D : v < y})
  BY <1>1 DEF getOutputBufferIndex_
<1> HIDE DEF D, x, y
<1>5. \A z \in D : z # x =>
          Cardinality({v \in D : v < x}) # Cardinality({v \in D : v < z})
  BY <1>3, PositionsOfValues
<1> QED
  BY <1>1, <1>3, <1>4, <1>5

-----------------------------------------------------------------------------
(* Times *)

LEMMA AxisIsOrdered ==
    \A i, j \in DOMAIN Axis : Axis[i] \in Nat /\ (Axis[i] = Axis[j] => i = j)
<1>1. Len(Axis) \in Nat /\ DOMAIN Axis = 1 .. Len(Axis) /\ \A i \in DOMAIN Axis : Axis[i] \in Nat
  BY TimeAssumption
<1> QED
  BY <1>1, TimeAssumption

LEMMA OffsetIsWhole ==
    ASSUME translation_ \in Translations, NEW p \in DOMAIN translation_
    PROVE  HourLength * translation_[p].offset \in Nat
<1>1. translation_[p].offset \in Nat /\ HourLength \in Nat
  BY TranslationAssumption, TimeAssumption DEF Specification
<1> QED
  BY <1>1

LEMMA SmallRemainder ==
    \A x, y \in Nat : x < y => x % y = x
OBVIOUS

\* Without minutes the conversion loses nothing.
LEMMA TimeIsConverted ==
    ASSUME translation_ \in Translations, NoMinutes,
           NEW p \in DOMAIN translation_, NEW i \in DOMAIN Axis
    PROVE  wantedTime(p, i) = ValidTime(p, i)
<1> DEFINE t == ValidTime(p, i)
           rest == t % HourLength
<1>1. t \in Nat
  <2> DEFINE x == HourLength * translation_[p].offset
  <2>1. x \in Nat /\ Axis[i] \in Nat /\ t = Axis[i] + x
    BY OffsetIsWhole, AxisIsOrdered DEF ValidTime
  <2> HIDE DEF x
  <2> QED
    BY <2>1
<1>2. rest < MinuteLength
  BY DEF NoMinutes
<1>3. wantedTime(p, i) = t - (rest - (rest % MinuteLength))
  BY DEF wantedTime, get_seconds_since_epoch
<1>4. rest \in Nat /\ MinuteLength \in Nat
  <2> HIDE DEF t
  <2> QED
    BY <1>1, TimeAssumption
<1> HIDE DEF t, rest
<1>5. rest % MinuteLength = rest
  BY <1>2, <1>4, SmallRemainder
<1> QED
  BY <1>1, <1>3, <1>4, <1>5 DEF t

\* The index is that of the time the field is valid for.
LEMMA ValidTimeIsFound ==
    ASSUME translation_ \in Translations, NoMinutes,
           NEW p \in DOMAIN translation_, NEW i \in DOMAIN Axis, InAxis(p, i)
    PROVE  /\ getValidTimeIndex_(p, i) + 1 \in DOMAIN Axis
           /\ Axis[getValidTimeIndex_(p, i) + 1] = ValidTime(p, i)
           /\ getValidTimeIndex_(p, i) \in Nat
<1> DEFINE k == CHOOSE j \in DOMAIN Axis : Axis[j] = ValidTime(p, i)
<1>1. \E j \in DOMAIN Axis : Axis[j] = ValidTime(p, i)
  BY TimeIsConverted DEF InAxis, Range
<1>2. k \in DOMAIN Axis /\ Axis[k] = ValidTime(p, i)
  BY <1>1
<1>3. getValidTimeIndex_(p, i) = k - 1
  BY TimeIsConverted DEF getValidTimeIndex_
<1>4. DOMAIN Axis = 1 .. Len(Axis) /\ Len(Axis) \in Nat
  BY TimeAssumption
<1> HIDE DEF k
<1> QED
  BY <1>2, <1>3, <1>4

\* Two working times never give one parameter the same index.
LEMMA TimesDiffer ==
    ASSUME translation_ \in Translations, NoMinutes, NEW p \in DOMAIN translation_,
           NEW i \in DOMAIN Axis, NEW j \in DOMAIN Axis,
           InAxis(p, i), InAxis(p, j),
           getValidTimeIndex_(p, i) = getValidTimeIndex_(p, j)
    PROVE  i = j
<1>1. ValidTime(p, i) = ValidTime(p, j)
  BY ValidTimeIsFound
<1>2. Axis[i] = Axis[j]
  <2>1. Axis[i] \in Nat /\ Axis[j] \in Nat
    BY AxisIsOrdered
  <2> DEFINE x == HourLength * translation_[p].offset
  <2>2. x \in Nat
    BY OffsetIsWhole
  <2>3. Axis[i] + x = Axis[j] + x
    BY <1>1 DEF ValidTime
  <2> HIDE DEF x
  <2> QED
    BY <2>1, <2>2, <2>3
<1> QED
  BY <1>2, AxisIsOrdered

-----------------------------------------------------------------------------
(* No write is lost *)

\* Every buffer has the size of a parameter of its variable.
BuffersAreSized ==
    \A b \in DOMAIN data_ : \E q \in DOMAIN translation_ :
        b[1] = cfName(q) /\ DOMAIN data_[b] = 0 .. Fields(translation_[q].dimension) - 1

\* What was stored had a time in the axis and a value in its dimension.
StoredHavePlaces ==
    \A w \in stored : /\ w = <<w[1], w[2]>>
                      /\ w[1] \in DOMAIN translation_ /\ w[2] \in DOMAIN Axis
                      /\ InAxis(w[1], w[2]) /\ HasValue(w[1])

KeptInv == /\ translation_ \in Translations /\ extraDimensions_ \in DimensionLists
           /\ NoClash(translation_) /\ NoMinutes =>
                 BuffersAreSized /\ StoredHavePlaces /\ EveryWriteKept

\* The places of a write depend on the parameter file alone.
LEMMA PlacesStay ==
    ASSUME translation_' = translation_, extraDimensions_' = extraDimensions_
    PROVE  /\ \A p, i : /\ ValidTime(p, i)' = ValidTime(p, i)
                        /\ InAxis(p, i)' = InAxis(p, i)
                        /\ Buffer(p, i)' = Buffer(p, i)
           /\ \A p : /\ HasValue(p)' = HasValue(p)
                     /\ cfName(p)' = cfName(p)
                     /\ getOutputBufferIndex_(p)' = getOutputBufferIndex_(p)
<1>1. \A p, i : ValidTime(p, i)' = ValidTime(p, i)
  BY DEF ValidTime
<1>2. \A p, i : InAxis(p, i)' = InAxis(p, i) /\ wantedTime(p, i)' = wantedTime(p, i)
  BY <1>1 DEF InAxis, wantedTime, get_seconds_since_epoch
<1>3. \A p : cfName(p)' = cfName(p)
  BY DEF cfName
<1>4. \A p, i : Buffer(p, i)' = Buffer(p, i)
  BY <1>2, <1>3 DEF Buffer, getValidTimeIndex_
<1>5. \A p : HasValue(p)' = HasValue(p)
  BY DEF HasValue, HasDimension, hasExtraDimension
<1>6. \A p : getOutputBufferIndex_(p)' = getOutputBufferIndex_(p)
  BY DEF getOutputBufferIndex_, hasExtraDimension
<1> QED
  BY <1>1, <1>2, <1>3, <1>4, <1>5, <1>6

\* The buffer add works on, found or made, has the size of its parameter.
LEMMA BufferForFits ==
    ASSUME translation_ \in Translations, NoClash(translation_), BuffersAreSized,
           NEW p \in DOMAIN translation_, NEW i
    PROVE  DOMAIN BufferFor(p, i) = 0 .. Fields(translation_[p].dimension) - 1
<1>1. CASE Buffer(p, i) \notin DOMAIN data_
  BY <1>1 DEF BufferFor
<1>2. CASE Buffer(p, i) \in DOMAIN data_
  <2>1. PICK q \in DOMAIN translation_ :
            /\ Buffer(p, i)[1] = cfName(q)
            /\ DOMAIN data_[Buffer(p, i)] = 0 .. Fields(translation_[q].dimension) - 1
    BY <1>2 DEF BuffersAreSized
  <2>2. Buffer(p, i)[1] = cfName(p)
    BY DEF Buffer
  <2>3. translation_[p].dimension = translation_[q].dimension
    BY ZenonT(30), <2>1, <2>2 DEF NoClash, cfName
  <2> QED
    BY <1>2, <2>1, <2>3 DEF BufferFor
<1> QED
  BY <1>1, <1>2

\* A write elsewhere, or a new buffer, leaves what was stored where it was.
LEMMA OtherPlacesKept ==
    ASSUME EveryWriteKept, NEW b, NEW contents, data_' = SetBuffer(b, contents),
           translation_' = translation_, extraDimensions_' = extraDimensions_,
           NEW w \in stored,
           PlaceOf(w)[1] = b =>
               /\ PlaceOf(w)[2] \in DOMAIN contents
               /\ contents[PlaceOf(w)[2]] = Written(w[1], w[2])
    PROVE  (/\ PlaceOf(w)[1] \in DOMAIN data_
            /\ PlaceOf(w)[2] \in DOMAIN data_[PlaceOf(w)[1]]
            /\ data_[PlaceOf(w)[1]][PlaceOf(w)[2]] = Written(w[1], w[2]))'
<1>1. PlaceOf(w)' = PlaceOf(w)
  BY PlacesStay DEF PlaceOf
<1> DEFINE c == PlaceOf(w)[1]
           n == PlaceOf(w)[2]
<1>2. c \in DOMAIN data_ /\ n \in DOMAIN data_[c] /\ data_[c][n] = Written(w[1], w[2])
  BY DEF EveryWriteKept
<1> HIDE DEF c, n
<1>3. c \in DOMAIN data_' /\ data_'[c] = IF c = b THEN contents ELSE data_[c]
  BY <1>2 DEF SetBuffer
<1>4. n \in DOMAIN data_'[c] /\ data_'[c][n] = Written(w[1], w[2])
  BY <1>2, <1>3 DEF c, n
<1>5. Written(w[1], w[2])' = Written(w[1], w[2])
  BY DEF Written
<1> QED
  BY <1>1, <1>3, <1>4, <1>5 DEF c, n

\* A step that changes none of the buffers and the history.
LEMMA KeptInvStutters ==
    ASSUME KeptInv, UNCHANGED <<translation_, extraDimensions_, data_, stored, overrun>>
    PROVE  KeptInv'
<1>1. translation_' \in Translations /\ extraDimensions_' \in DimensionLists
  BY DEF KeptInv
<1>2. ASSUME (NoClash(translation_) /\ NoMinutes)'
      PROVE  (BuffersAreSized /\ StoredHavePlaces /\ EveryWriteKept)'
  <2>1. NoClash(translation_) /\ NoMinutes
    BY <1>2, PlacesStay DEF NoClash, NoMinutes
  <2>2. BuffersAreSized'
    BY <2>1, PlacesStay DEF KeptInv, BuffersAreSized, Fields
  <2>3. StoredHavePlaces'
    BY <2>1, PlacesStay DEF KeptInv, StoredHavePlaces
  <2>4. EveryWriteKept'
    BY <2>1, PlacesStay DEF KeptInv, EveryWriteKept, PlaceOf, Written
  <2> QED
    BY <2>2, <2>3, <2>4
<1> QED
  BY <1>1, <1>2 DEF KeptInv

\* A failed write that made a buffer.
LEMMA KeptInvAddFindsNoPlace ==
    ASSUME KeptInv, NEW p \in Parameter, NEW i \in DOMAIN Axis, AddFindsNoPlace(p, i)
    PROVE  KeptInv'
<1> USE DEF KeptInv
<1>1. /\ translation_' = translation_ /\ extraDimensions_' = extraDimensions_
      /\ stored' = stored /\ overrun' = overrun
      /\ data_' = SetBuffer(Buffer(p, i), BufferFor(p, i))
      /\ p \in DOMAIN translation_
  BY DEF AddFindsNoPlace, Found, Called, Translated
<1>2. ASSUME (NoClash(translation_) /\ NoMinutes)'
      PROVE  (BuffersAreSized /\ StoredHavePlaces /\ EveryWriteKept)'
  <2>1. /\ NoClash(translation_) /\ NoMinutes
        /\ BuffersAreSized /\ StoredHavePlaces /\ EveryWriteKept
    BY <1>1, <1>2, PlacesStay DEF NoClash, NoMinutes
  <2>2. Buffer(p, i)[1] = cfName(p)
    BY DEF Buffer
  <2>3. DOMAIN BufferFor(p, i) = 0 .. Fields(translation_[p].dimension) - 1
    BY <1>1, <2>1, BufferForFits
  <2>4. BuffersAreSized'
    BY <1>1, <2>1, <2>2, <2>3, PlacesStay DEF BuffersAreSized, SetBuffer, Fields
  <2>5. StoredHavePlaces'
    BY <1>1, <2>1, PlacesStay DEF StoredHavePlaces
  <2>6. \A w \in stored : PlaceOf(w)[1] = Buffer(p, i) =>
            /\ PlaceOf(w)[2] \in DOMAIN BufferFor(p, i)
            /\ BufferFor(p, i)[PlaceOf(w)[2]] = Written(w[1], w[2])
    BY <2>1 DEF EveryWriteKept, BufferFor
  <2>7. \A w \in stored : (/\ PlaceOf(w)[1] \in DOMAIN data_
                           /\ PlaceOf(w)[2] \in DOMAIN data_[PlaceOf(w)[1]]
                           /\ data_[PlaceOf(w)[1]][PlaceOf(w)[2]] = Written(w[1], w[2]))'
    BY <1>1, <2>1, <2>6, OtherPlacesKept
  <2>8. EveryWriteKept'
    BY <1>1, <2>1, <2>7 DEF EveryWriteKept
  <2> QED
    BY <2>4, <2>5, <2>8
<1> QED
  BY <1>1, <1>2

\* A field that is copied, whether it counts as stored or the name of its
\* variable turns out to be taken: it stays inside its buffer, and the writes
\* stored before in that buffer are at other positions, or are the same write.
LEMMA KeptInvCopy ==
    ASSUME KeptInv, NEW p \in Parameter, NEW i \in DOMAIN Axis,
           UNCHANGED <<translation_, extraDimensions_>>,
           Found(p, i), HasValue(p), Copy(p, i),
           stored' = stored \/ stored' = stored \cup {<<p, i>>}
    PROVE  KeptInv'
<1> USE DEF KeptInv
<1> DEFINE n == getOutputBufferIndex_(p)
           old == BufferFor(p, i)
           new == [old EXCEPT ![n] = Written(p, i)]
<1>1. /\ translation_' = translation_ /\ extraDimensions_' = extraDimensions_
      /\ data_' = SetBuffer(Buffer(p, i), IF n \in DOMAIN old THEN new ELSE old)
      /\ overrun' = IF n \in DOMAIN old THEN overrun ELSE overrun \cup {<<p, i>>}
      /\ p \in DOMAIN translation_ /\ InAxis(p, i) /\ HasValue(p)
  BY DEF Found, Translated, Copy
<1>2. ASSUME (NoClash(translation_) /\ NoMinutes)'
      PROVE  (BuffersAreSized /\ StoredHavePlaces /\ EveryWriteKept)'
  <2>1. /\ NoClash(translation_) /\ NoMinutes
        /\ BuffersAreSized /\ StoredHavePlaces /\ EveryWriteKept
    BY <1>1, <1>2, PlacesStay DEF NoClash, NoMinutes
  <2>2. DOMAIN old = 0 .. Fields(translation_[p].dimension) - 1
    BY <1>1, <2>1, BufferForFits
  <2>3. n \in DOMAIN old
    BY <1>1, <2>2, PlaceInsideBuffer
  <2> HIDE DEF n, old
  <2>4. data_' = SetBuffer(Buffer(p, i), new) /\ overrun' = overrun
    BY <1>1, <2>3
  <2>5. DOMAIN new = DOMAIN old /\ new[n] = Written(p, i)
        /\ \A m \in DOMAIN old : m # n => new[m] = old[m]
    BY <2>3
  <2> HIDE DEF new
  <2>6. Buffer(p, i)[1] = cfName(p)
    BY DEF Buffer
  <2>7. BuffersAreSized'
    BY <1>1, <2>1, <2>2, <2>4, <2>5, <2>6, PlacesStay DEF BuffersAreSized, SetBuffer, Fields
  <2>8. StoredHavePlaces'
    BY <1>1, <2>1, PlacesStay DEF StoredHavePlaces
  <2>9. ASSUME NEW w \in stored, PlaceOf(w)[1] = Buffer(p, i)
        PROVE  /\ PlaceOf(w)[2] \in DOMAIN new
               /\ new[PlaceOf(w)[2]] = Written(w[1], w[2])
    <3>1. /\ w[1] \in DOMAIN translation_ /\ w[2] \in DOMAIN Axis
          /\ InAxis(w[1], w[2]) /\ HasValue(w[1])
      BY <2>1 DEF StoredHavePlaces
    <3>2. /\ PlaceOf(w)[2] = getOutputBufferIndex_(w[1])
          /\ cfName(w[1]) = cfName(p)
          /\ getValidTimeIndex_(w[1], w[2]) = getValidTimeIndex_(p, i)
      BY <2>9 DEF PlaceOf, Buffer
    <3>3. PlaceOf(w)[2] \in DOMAIN old /\ old[PlaceOf(w)[2]] = Written(w[1], w[2])
      BY <2>1, <2>9 DEF EveryWriteKept, old, BufferFor
    <3>4. CASE w[1] = p
      <4>1. w[2] = i
        BY <1>1, <2>1, <3>1, <3>2, <3>4, TimesDiffer
      <4> QED
        BY <2>5, <3>2, <3>3, <3>4, <4>1 DEF n
    <3>5. CASE w[1] # p
      <4>1. PlaceOf(w)[2] # n
        BY <1>1, <2>1, <3>1, <3>2, <3>5, PlacesDiffer DEF n
      <4> QED
        BY <2>5, <3>3, <4>1
    <3> QED
      BY <3>4, <3>5
  <2>10. ASSUME NEW w \in stored
         PROVE  (/\ PlaceOf(w)[1] \in DOMAIN data_
                 /\ PlaceOf(w)[2] \in DOMAIN data_[PlaceOf(w)[1]]
                 /\ data_[PlaceOf(w)[1]][PlaceOf(w)[2]] = Written(w[1], w[2]))'
    BY <1>1, <2>1, <2>4, <2>9, OtherPlacesKept
  <2>11. (/\ PlaceOf(<<p, i>>)[1] \in DOMAIN data_
          /\ PlaceOf(<<p, i>>)[2] \in DOMAIN data_[PlaceOf(<<p, i>>)[1]]
          /\ data_[PlaceOf(<<p, i>>)[1]][PlaceOf(<<p, i>>)[2]] = Written(p, i))'
    <3>1. PlaceOf(<<p, i>>)'[1] = Buffer(p, i) /\ PlaceOf(<<p, i>>)'[2] = n
      BY <1>1, PlacesStay DEF PlaceOf, n
    <3>2. Buffer(p, i) \in DOMAIN data_' /\ data_'[Buffer(p, i)] = new
      BY <2>4 DEF SetBuffer
    <3> QED
      BY <2>3, <2>5, <3>1, <3>2 DEF Written
  <2>12. EveryWriteKept'
    BY <1>1, <2>1, <2>4, <2>10, <2>11 DEF EveryWriteKept, Written
  <2> QED
    BY <2>7, <2>8, <2>12
<1> QED
  BY <1>1, <1>2

\* Every call of add, and the flush, preserves it.
LEMMA KeptInvNext ==
    ASSUME KeptInv, [Next]_vars
    PROVE  KeptInv'
<1>1. ASSUME NEW p \in Parameter, NEW i \in DOMAIN Axis,
             AddFails(p, i) \/ AddIgnores(p, i) \/ AddFindsNoDimension(p, i)
      PROVE  KeptInv'
  BY <1>1, KeptInvStutters DEF AddFails, AddIgnores, AddFindsNoDimension, Throws, Called
<1>2. ASSUME NEW p \in Parameter, NEW i \in DOMAIN Axis, AddFindsNoPlace(p, i)
      PROVE  KeptInv'
  BY <1>2, KeptInvAddFindsNoPlace
<1>3. ASSUME NEW p \in Parameter, NEW i \in DOMAIN Axis,
             AddStores(p, i) \/ AddFindsNameTaken(p, i)
      PROVE  KeptInv'
  BY <1>3, KeptInvCopy DEF AddStores, AddFindsNameTaken, Called
<1>4. CASE Flush
  BY <1>4, KeptInvStutters DEF Flush
<1>5. CASE UNCHANGED vars
  BY <1>5, KeptInvStutters DEF vars
<1> QED
  BY <1>1, <1>2, <1>3, <1>4, <1>5 DEF Next, Add, Terminated

\* Under a translation without clashes, at times without minutes, nothing that
\* add stores is ever lost or put outside its buffer, whatever is written, in whatever order.
THEOREM NoWriteIsLost == Spec => [](NoClash(translation_) /\ NoMinutes => EveryWriteKept)
<1>1. Init => KeptInv
  BY DEF Init, KeptInv, BuffersAreSized, StoredHavePlaces, EveryWriteKept
<1>2. KeptInv /\ [Next]_vars => KeptInv'
  BY KeptInvNext
<1>3. KeptInv => (NoClash(translation_) /\ NoMinutes => EveryWriteKept)
  BY DEF KeptInv
<1> QED
  BY <1>1, <1>2, <1>3, PTL DEF Spec

-----------------------------------------------------------------------------
(* The end of the forecast *)

\* The user's number of hours fits in an int when it is turned into seconds.
HoursFit == HourLength * numberOfHours <= IntMax

LEMMA NoOverflow ==
    ASSUME NEW x \in 0 .. IntMax
    PROVE  Int32(x) = x
<1> DEFINE M == IntMax + 1
<1>1. IntMax \in Nat
  BY TimeAssumption
<1>2. x + M \in Nat /\ 2 * M \in Nat /\ x + M < 2 * M /\ x + IntMax + 1 = x + M
  BY <1>1
<1>3. Int32(x) = ((x + M) % (2 * M)) - M
  BY <1>2 DEF Int32
<1> HIDE DEF M
<1>4. (x + M) % (2 * M) = x + M
  BY <1>2, SmallRemainder
<1>5. (x + M) - M = x
  BY <1>1 DEF M
<1> QED
  BY <1>3, <1>4, <1>5

\* The times up to the last one are a beginning of the axis, so that counting
\* them decides about each index.
LEMMA CountDecides ==
    ASSUME NEW k \in DOMAIN Axis, lastTime \in Int
    PROVE  k - 1 < CountedSteps <=> Axis[k] <= lastTime
<1> DEFINE Upto == {i \in DOMAIN Axis : Axis[i] <= lastTime}
<1>1. DOMAIN Axis = 1 .. Len(Axis) /\ Len(Axis) \in Nat
      /\ \A i \in DOMAIN Axis : Axis[i] \in Nat
  BY TimeAssumption
<1>2. IsFiniteSet(DOMAIN Axis) /\ IsFiniteSet(1 .. k) /\ IsFiniteSet(1 .. k - 1)
  BY <1>1, FS_Interval
<1>3. Cardinality(1 .. k) = k /\ Cardinality(1 .. k - 1) = k - 1
  <2>1. k \in Int /\ k - 1 \in Int /\ k >= 1
    BY <1>1
  <2>2. \A b \in Int : Cardinality(1 .. b) = IF 1 > b THEN 0 ELSE b - 1 + 1
    BY FS_Interval
  <2>3. Cardinality(1 .. k) = IF 1 > k THEN 0 ELSE k - 1 + 1
    BY <2>1, <2>2
  <2>4. Cardinality(1 .. k - 1) = IF 1 > k - 1 THEN 0 ELSE (k - 1) - 1 + 1
    BY <2>1, <2>2
  <2> QED
    BY <2>1, <2>3, <2>4
<1>4. IsFiniteSet(Upto) /\ Cardinality(Upto) \in Nat
  <2>1. Upto \subseteq DOMAIN Axis
    OBVIOUS
  <2> HIDE DEF Upto
  <2> QED
    BY <1>2, <2>1, FS_Subset, FS_CardinalityType
<1>5. CASE Axis[k] <= lastTime
  <2>1. ASSUME NEW i \in 1 .. k PROVE i \in Upto
    <3>1. i \in DOMAIN Axis /\ (i < k \/ i = k)
      BY <1>1
    <3>2. Axis[i] <= Axis[k]
      BY <1>1, <3>1, TimeAssumption
    <3> QED
      BY <1>1, <1>5, <3>1, <3>2
  <2>2. 1 .. k \subseteq Upto
    BY <2>1
  <2>3. Cardinality(1 .. k) <= Cardinality(Upto)
    BY <1>4, <2>2, FS_Subset
  <2> QED
    BY <1>1, <1>3, <1>4, <1>5, <2>3 DEF CountedSteps
<1>6. CASE ~(Axis[k] <= lastTime)
  <2>1. ASSUME NEW i \in Upto PROVE i \in 1 .. k - 1
    <3>1. i \in 1 .. Len(Axis) /\ k \in 1 .. Len(Axis) /\ Axis[i] <= lastTime
      BY <1>1
    <3>2. ~(k < i) /\ k # i
      BY <1>1, <1>6, <3>1, TimeAssumption
    <3> QED
      BY <1>1, <3>1, <3>2
  <2>2. Upto \subseteq 1 .. k - 1
    BY <2>1
  <2>3. Cardinality(Upto) <= Cardinality(1 .. k - 1)
    BY <1>2, <2>2, FS_Subset
  <2> QED
    BY <1>1, <1>3, <1>4, <1>6, <2>3 DEF CountedSteps
<1> QED
  BY <1>5, <1>6

\* As long as nothing overflows the sink wants a field exactly when it is
\* valid no later than the end.
LEMMA WantedUntilTheEnd ==
    ASSUME numberOfHours \in Hours, HoursFit, wantedNumberOfTimeSteps_ = CountedSteps,
           translation_ \in Translations, NoMinutes,
           NEW p \in DOMAIN translation_, NEW i \in DOMAIN Axis, InAxis(p, i)
    PROVE  /\ Wanted(p, i) => ValidTime(p, i) <= lastGenerateTime
           /\ ~Wanted(p, i) => ValidTime(p, i) > lastGenerateTime
<1>1. HourLength * numberOfHours \in 0 .. IntMax
  <2>1. HourLength \in Nat /\ numberOfHours \in Nat /\ IntMax \in Nat
    BY TimeAssumption
  <2>2. HourLength * numberOfHours \in Nat
    BY <2>1
  <2> QED
    BY <2>1, <2>2 DEF HoursFit
<1>2. lastTime = lastGenerateTime
  BY <1>1, NoOverflow DEF lastTime, lastGenerateTime
<1>3. lastTime \in Int
  <2>1. Axis[1] \in Nat
    BY TimeAssumption
  <2> DEFINE x == HourLength * numberOfHours
  <2>2. lastTime = Axis[1] + x /\ x \in 0 .. IntMax
    BY <1>1, <1>2 DEF lastGenerateTime
  <2> HIDE DEF x
  <2> QED
    BY <2>1, <2>2, TimeAssumption
<1> DEFINE k == getValidTimeIndex_(p, i) + 1
<1>4. k \in DOMAIN Axis /\ Axis[k] = ValidTime(p, i) /\ k - 1 = getValidTimeIndex_(p, i)
  BY ValidTimeIsFound
<1> HIDE DEF k
<1>5. k - 1 < CountedSteps <=> Axis[k] <= lastTime
  BY <1>3, <1>4, CountDecides
<1>6. Axis[k] \in Nat
  BY <1>4, TimeAssumption
<1>7. ~(k - 1 < CountedSteps) => Axis[k] > lastTime
  BY <1>3, <1>5, <1>6
<1> QED
  BY <1>2, <1>4, <1>5, <1>7 DEF Wanted

HorizonInv == /\ numberOfHours \in Hours
              /\ translation_ \in Translations
              /\ wantedNumberOfTimeSteps_ = CountedSteps
              /\ stored \cup dropped \subseteq Write
              /\ HoursFit /\ NoMinutes => HorizonRespected

\* What add decides does not depend on earlier calls.
LEMMA EndStays ==
    ASSUME UNCHANGED <<translation_, extraDimensions_, numberOfHours, wantedNumberOfTimeSteps_>>
    PROVE  /\ CountedSteps' = CountedSteps /\ lastGenerateTime' = lastGenerateTime
           /\ HoursFit' = HoursFit /\ NoMinutes' = NoMinutes
           /\ \A p, i : ValidTime(p, i)' = ValidTime(p, i)
<1>1. lastTime' = lastTime
  BY DEF lastTime, Int32
<1> QED
  BY <1>1, PlacesStay DEF CountedSteps, lastGenerateTime, HoursFit, NoMinutes

\* Every call of add, and the flush, preserves it.
LEMMA HorizonInvNext ==
    ASSUME HorizonInv, [Next]_vars
    PROVE  HorizonInv'
<1>1. UNCHANGED <<translation_, extraDimensions_, numberOfHours, wantedNumberOfTimeSteps_>>
  BY DEF Next, Add, AddFails, AddIgnores, AddFindsNoDimension, AddFindsNoPlace,
         AddFindsNameTaken, AddStores, Throws, Called, Flush, Terminated, vars
<1>2. SUFFICES ASSUME HoursFit, NoMinutes
               PROVE  HorizonRespected' /\ (stored \cup dropped \subseteq Write)'
  <2>1. numberOfHours' \in Hours /\ translation_' \in Translations
        /\ (wantedNumberOfTimeSteps_ = CountedSteps)'
    BY <1>1, EndStays DEF HorizonInv
  <2>2. (stored \cup dropped \subseteq Write)'
    BY DEF HorizonInv, Next, Add, AddFails, AddIgnores, AddFindsNoDimension,
           AddFindsNoPlace, AddFindsNameTaken, AddStores, Throws, Called, Flush,
           Terminated, vars, Write
  <2> QED
    BY <1>1, <1>2, <2>1, <2>2, EndStays DEF HorizonInv
<1>3. CASE UNCHANGED <<stored, dropped>>
  BY <1>1, <1>2, <1>3, EndStays DEF HorizonInv, HorizonRespected, Write
<1>4. ASSUME NEW p \in Parameter, NEW i \in DOMAIN Axis, AddIgnores(p, i)
      PROVE  HorizonRespected' /\ (stored \cup dropped \subseteq Write)'
  <2>1. ValidTime(p, i) > lastGenerateTime
    BY <1>2, <1>4, WantedUntilTheEnd DEF AddIgnores, Found, Translated, HorizonInv
  <2> QED
    BY <1>1, <1>2, <1>4, <2>1, EndStays DEF AddIgnores, HorizonInv, HorizonRespected, Write
<1>5. ASSUME NEW p \in Parameter, NEW i \in DOMAIN Axis, AddStores(p, i)
      PROVE  HorizonRespected' /\ (stored \cup dropped \subseteq Write)'
  <2>1. ValidTime(p, i) <= lastGenerateTime
    BY <1>2, <1>5, WantedUntilTheEnd DEF AddStores, Found, Translated, HorizonInv
  <2> QED
    BY <1>1, <1>2, <1>5, <2>1, EndStays DEF AddStores, HorizonInv, HorizonRespected, Write
<1> QED
  BY <1>3, <1>4, <1>5 DEF Next, Add, AddFails, AddFindsNoDimension, AddFindsNoPlace,
     AddFindsNameTaken, Throws, Called, Flush, Terminated, vars

\* If the number of hours fits in an int and no field is valid at a time with
\* minutes, add leaves a field out exactly when
\* it is valid after the end the user asked for.
THEOREM FieldsUntilTheEnd == Spec => [](HoursFit /\ NoMinutes => HorizonRespected)
<1>1. Init => HorizonInv
  BY DEF Init, HorizonInv, HorizonRespected
<1>2. HorizonInv /\ [Next]_vars => HorizonInv'
  BY HorizonInvNext
<1>3. HorizonInv => (HoursFit /\ NoMinutes => HorizonRespected)
  BY DEF HorizonInv
<1> QED
  BY <1>1, <1>2, <1>3, PTL DEF Spec

-----------------------------------------------------------------------------
(* The file *)

\* Registered are the variables of the stored writes, and they are in the file.
RegisteredWhenStored ==
    /\ DOMAIN parameters_ = {cfName(w[1]) : w \in stored}
    /\ DOMAIN parameters_ \subseteq cdm_

\* A variable has the shape of each of its parameters.
OneShape ==
    \A q \in DOMAIN translation_ :
        cfName(q) \in DOMAIN parameters_ => parameters_[cfName(q)] = translation_[q].dimension

\* A field in the buffer b, at n, is one of the writes and has its place there.
FieldOf(writes, b, n, field) ==
    \E w \in writes : PlaceOf(w) = <<b, n>> /\ field = Written(w[1], w[2])

\* The name is registered, or can be.  To a name that another variable has
\* fields are copied without being stored; it can never be registered.
CanBeWritten(c) == c \in DOMAIN parameters_ \/ c \notin cdm_

OnlyWrites ==
    \A b \in DOMAIN data_ : CanBeWritten(b[1]) =>
        \A n \in DOMAIN data_[b] : data_[b][n] = Blank \/ FieldOf(stored, b, n, data_[b][n])

ContentInv == NoClash(translation_) => RegisteredWhenStored /\ OneShape /\ OnlyWrites

\* The file is what getDataSlice answers, and nothing happens after the flush.
FlushedInv ==
    flushed =>
        file = [c \in DOMAIN parameters_ |->
                  [pos \in 0 .. wantedNumberOfTimeSteps_ - 1 |-> getDataSlice(c, pos)]]

LEMMA FieldsStay ==
    ASSUME UNCHANGED <<translation_, extraDimensions_>>
    PROVE  /\ Blank' = Blank
           /\ \A b, n : FieldOf(stored, b, n, data_[b][n])' = FieldOf(stored', b, n, data_'[b][n])
BY PlacesStay DEF Blank, FieldOf, PlaceOf, Written

\* Only a name that can be written comes to be registered, and what its buffers
\* hold was stored.
LEMMA OnlyWritesStay ==
    ASSUME OnlyWrites, NEW p \in DOMAIN translation_, NEW i, NEW contents,
           UNCHANGED <<translation_, extraDimensions_>>,
           data_' = SetBuffer(Buffer(p, i), contents),
           stored \subseteq stored',
           \A c : CanBeWritten(c)' => CanBeWritten(c),
           CanBeWritten(cfName(p)) =>
               \A n \in DOMAIN contents :
                   contents[n] = Blank \/ FieldOf(stored', Buffer(p, i), n, contents[n])
    PROVE  OnlyWrites'
<1>1. Buffer(p, i)[1] = cfName(p)
  BY DEF Buffer
<1>2. DOMAIN data_' = DOMAIN data_ \cup {Buffer(p, i)}
      /\ \A b \in DOMAIN data_' :
            data_'[b] = IF b = Buffer(p, i) THEN contents ELSE data_[b]
  BY DEF SetBuffer
<1>3. ASSUME NEW b \in DOMAIN data_', CanBeWritten(b[1]), NEW n \in DOMAIN data_'[b]
      PROVE  data_'[b][n] = Blank \/ FieldOf(stored', b, n, data_'[b][n])
  <2>1. CASE b = Buffer(p, i)
    BY <1>1, <1>2, <1>3, <2>1
  <2>2. CASE b # Buffer(p, i)
    <3>1. b \in DOMAIN data_ /\ data_'[b] = data_[b]
      BY <1>2, <1>3, <2>2
    <3>2. data_[b][n] = Blank \/ FieldOf(stored, b, n, data_[b][n])
      BY <1>3, <3>1 DEF OnlyWrites
    <3> QED
      BY <3>1, <3>2 DEF FieldOf
  <2> QED
    BY <2>1, <2>2
<1> QED
  BY <1>3, FieldsStay DEF OnlyWrites

\* The buffer add works on holds what was stored in it.
LEMMA BufferForHoldsWrites ==
    ASSUME OnlyWrites, NEW p, NEW i, CanBeWritten(cfName(p)), NEW n \in DOMAIN BufferFor(p, i)
    PROVE  BufferFor(p, i)[n] = Blank \/ FieldOf(stored, Buffer(p, i), n, BufferFor(p, i)[n])
<1>1. Buffer(p, i)[1] = cfName(p)
  BY DEF Buffer
<1>2. CASE Buffer(p, i) \in DOMAIN data_
  BY <1>1, <1>2 DEF OnlyWrites, BufferFor
<1>3. CASE Buffer(p, i) \notin DOMAIN data_
  BY <1>3 DEF BufferFor
<1> QED
  BY <1>2, <1>3

\* A step that changes nothing the file is made of.
LEMMA ContentInvStutters ==
    ASSUME ContentInv,
           UNCHANGED <<translation_, extraDimensions_, data_, cdm_, parameters_, stored>>
    PROVE  ContentInv'
<1>1. NoClash(translation_)' => NoClash(translation_)
  BY DEF NoClash
<1>2. RegisteredWhenStored => RegisteredWhenStored'
  <2>1. {cfName(w[1]) : w \in stored}' = {cfName(w[1]) : w \in stored}
    BY PlacesStay
  <2> QED
    BY <2>1 DEF RegisteredWhenStored
<1>3. OneShape => OneShape'
  BY PlacesStay DEF OneShape
<1>4. OnlyWrites => OnlyWrites'
  <2>1. \A c : CanBeWritten(c)' = CanBeWritten(c)
    BY DEF CanBeWritten
  <2> QED
    BY <2>1, FieldsStay DEF OnlyWrites
<1> QED
  BY <1>1, <1>2, <1>3, <1>4 DEF ContentInv

LEMMA ContentInvAdd ==
    ASSUME ContentInv, NEW p \in Parameter, NEW i \in DOMAIN Axis, Add(p, i)
    PROVE  ContentInv'
<1>1. UNCHANGED <<translation_, extraDimensions_>>
  BY DEF Add, AddFails, AddIgnores, AddFindsNoDimension, AddFindsNoPlace,
         AddFindsNameTaken, AddStores, Throws, Called
<1> SUFFICES ASSUME NoClash(translation_)'
             PROVE  RegisteredWhenStored' /\ OneShape' /\ OnlyWrites'
  BY DEF ContentInv
<1>2. /\ NoClash(translation_)
      /\ RegisteredWhenStored /\ OneShape /\ OnlyWrites
  BY <1>1 DEF NoClash, ContentInv
<1>3. CASE AddFails(p, i) \/ AddIgnores(p, i) \/ AddFindsNoDimension(p, i)
  <2>1. UNCHANGED <<data_, cdm_, parameters_, stored>>
    BY <1>3 DEF AddFails, AddIgnores, AddFindsNoDimension, Throws
  <2> QED
    BY <1>1, <2>1, ContentInvStutters DEF ContentInv
<1>4. ASSUME UNCHANGED <<cdm_, parameters_, stored>>
      PROVE  /\ RegisteredWhenStored' /\ OneShape'
             /\ \A c : CanBeWritten(c)' = CanBeWritten(c)
  BY <1>1, <1>2, <1>4, PlacesStay DEF RegisteredWhenStored, OneShape, CanBeWritten
<1>5. CASE AddFindsNoPlace(p, i)
  <2>1. /\ UNCHANGED <<cdm_, parameters_, stored>> /\ p \in DOMAIN translation_
        /\ data_' = SetBuffer(Buffer(p, i), BufferFor(p, i))
    BY <1>5 DEF AddFindsNoPlace, Found, Translated
  <2>2. CanBeWritten(cfName(p)) =>
            \A n \in DOMAIN BufferFor(p, i) :
                \/ BufferFor(p, i)[n] = Blank
                \/ FieldOf(stored', Buffer(p, i), n, BufferFor(p, i)[n])
    BY <1>2, <2>1, BufferForHoldsWrites
  <2>3. OnlyWrites'
    BY <1>1, <1>2, <1>4, <2>1, <2>2, OnlyWritesStay
  <2> QED
    BY <1>4, <2>1, <2>3
<1>6. CASE AddFindsNameTaken(p, i)
  <2>1. /\ UNCHANGED <<cdm_, parameters_, stored>> /\ p \in DOMAIN translation_
        /\ ~CanBeWritten(cfName(p))
    BY <1>6 DEF AddFindsNameTaken, Found, Translated, NameTaken, CanBeWritten
  <2>2. PICK contents : data_' = SetBuffer(Buffer(p, i), contents)
    BY <1>6 DEF AddFindsNameTaken, Copy
  <2>3. OnlyWrites'
    BY <1>1, <1>2, <1>4, <2>1, <2>2, OnlyWritesStay
  <2> QED
    BY <1>4, <2>1, <2>3
<1>7. CASE AddStores(p, i)
  <2> DEFINE n == getOutputBufferIndex_(p)
             old == BufferFor(p, i)
             new == IF n \in DOMAIN old THEN [old EXCEPT ![n] = Written(p, i)] ELSE old
  <2>1. /\ p \in DOMAIN translation_
        /\ CanBeWritten(cfName(p))
        /\ data_' = SetBuffer(Buffer(p, i), new)
        /\ stored' = stored \cup {<<p, i>>}
        /\ DOMAIN parameters_' = DOMAIN parameters_ \cup {cfName(p)}
        /\ \A d \in DOMAIN parameters_' :
              parameters_'[d] = IF d \in DOMAIN parameters_ THEN parameters_[d]
                                ELSE translation_[p].dimension
        /\ cdm_' = cdm_ \cup {cfName(p)}
    BY <1>7 DEF AddStores, Found, Translated, NameTaken, CanBeWritten, Copy, Register
  <2>2. \A q : cfName(q)' = cfName(q)
    BY <1>1, PlacesStay
  <2>3. RegisteredWhenStored'
    <3>1. {cfName(w[1]) : w \in stored}' = {cfName(w[1]) : w \in stored} \cup {cfName(p)}
      <4>1. {cfName(w[1]) : w \in stored}' = {cfName(w[1]) : w \in stored'}
        BY <2>2
      <4>2. stored' = stored \cup {<<p, i>>} /\ cfName(<<p, i>>[1]) = cfName(p)
        BY <2>1
      <4>3. {cfName(w[1]) : w \in stored'} = {cfName(w[1]) : w \in stored} \cup {cfName(p)}
        BY ONLY <4>2
      <4> QED
        BY <4>1, <4>3
    <3> QED
      BY <1>2, <2>1, <3>1 DEF RegisteredWhenStored
  <2>4. OneShape'
    <3>1. ASSUME NEW q \in DOMAIN translation_, cfName(q) \in DOMAIN parameters_'
          PROVE  parameters_'[cfName(q)] = translation_[q].dimension
      <4>1. CASE cfName(q) \in DOMAIN parameters_
        BY <1>2, <2>1, <3>1, <4>1 DEF OneShape
      <4>2. CASE cfName(q) \notin DOMAIN parameters_
        <5>1. cfName(q) = cfName(p)
          BY <2>1, <3>1, <4>2
        <5>2. translation_[q].dimension = translation_[p].dimension
          BY <1>2, <2>1, <5>1 DEF NoClash, cfName
        <5> QED
          BY <2>1, <3>1, <4>2, <5>2
      <4> QED
        BY <4>1, <4>2
    <3> QED
      BY <1>1, <2>2, <3>1 DEF OneShape
  <2>5. \A d : CanBeWritten(d)' => CanBeWritten(d)
    BY <2>1 DEF CanBeWritten
  <2>6. FieldOf(stored', Buffer(p, i), n, Written(p, i))
    <3>1. <<p, i>> \in stored' /\ <<p, i>>[1] = p /\ <<p, i>>[2] = i
      BY <2>1
    <3>2. PlaceOf(<<p, i>>) = <<Buffer(p, i), n>>
      BY <3>1 DEF PlaceOf
    <3> QED
      BY <3>1, <3>2 DEF FieldOf
  <2>7. \A m \in DOMAIN old : old[m] = Blank \/ FieldOf(stored', Buffer(p, i), m, old[m])
    <3>1. \A m \in DOMAIN old : old[m] = Blank \/ FieldOf(stored, Buffer(p, i), m, old[m])
      BY <1>2, <2>1, BufferForHoldsWrites
    <3> QED
      BY <2>1, <3>1 DEF FieldOf
  <2>8. \A m \in DOMAIN new : /\ m \in DOMAIN old
                              /\ new[m] = old[m] \/ (m = n /\ new[m] = Written(p, i))
    OBVIOUS
  <2> HIDE DEF n, old, new
  <2>9. \A m \in DOMAIN new : new[m] = Blank \/ FieldOf(stored', Buffer(p, i), m, new[m])
    BY <2>6, <2>7, <2>8
  <2>10. OnlyWrites'
    BY <1>1, <1>2, <2>1, <2>5, <2>9, OnlyWritesStay
  <2> QED
    BY <2>3, <2>4, <2>10
<1> QED
  BY <1>3, <1>5, <1>6, <1>7 DEF Add

LEMMA ContentInvNext ==
    ASSUME ContentInv, [Next]_vars
    PROVE  ContentInv'
<1>1. CASE Flush \/ UNCHANGED vars
  BY <1>1, ContentInvStutters DEF Flush, vars
<1> QED
  BY <1>1, ContentInvAdd DEF Next, Terminated

LEMMA FlushedInvNext ==
    ASSUME FlushedInv, [Next]_vars
    PROVE  FlushedInv'
<1>1. CASE UNCHANGED vars
  BY <1>1 DEF vars, FlushedInv, getDataSlice, Fields, Fill
<1>2. CASE Flush
  BY <1>2 DEF Flush, FlushedInv, getDataSlice, Fields, Fill
<1>3. ASSUME NEW p \in Parameter, NEW i \in DOMAIN Axis, Expected(p, i), Add(p, i)
      PROVE  FlushedInv'
  <2>1. ~flushed /\ flushed' = flushed
    BY <1>3 DEF Expected, Add, AddFails, AddIgnores, AddFindsNoDimension, AddFindsNoPlace,
                AddFindsNameTaken, AddStores, Throws, Called
  <2> QED
    BY <2>1 DEF FlushedInv
<1> QED
  BY <1>1, <1>2, <1>3 DEF Next, Terminated

\* What getDataSlice makes of buffers that hold nothing but what was stored,
\* and all of it.
LEMMA FileIsWhatWasStored ==
    ASSUME BuffersAreSized, EveryWriteKept, FlushedInv,
           RegisteredWhenStored, OneShape, OnlyWrites
    PROVE  FileHoldsExactlyTheWrites
<1> SUFFICES ASSUME flushed PROVE FileHoldsExactlyTheWrites
  BY DEF FileHoldsExactlyTheWrites
<1>1. file = [c \in DOMAIN parameters_ |->
                [pos \in 0 .. wantedNumberOfTimeSteps_ - 1 |-> getDataSlice(c, pos)]]
  BY DEF FlushedInv
<1>2. ASSUME NEW c \in DOMAIN parameters_, NEW pos \in 0 .. wantedNumberOfTimeSteps_ - 1
      PROVE  /\ DOMAIN getDataSlice(c, pos) = 0 .. Fields(parameters_[c]) - 1
             /\ \A n \in DOMAIN getDataSlice(c, pos) :
                   LET here == {w \in stored : PlaceOf(w) = <<<<c, pos>>, n>>}
                   IN  IF here = {} THEN getDataSlice(c, pos)[n] \in {Blank, Fill}
                       ELSE \A w \in here : getDataSlice(c, pos)[n] = Written(w[1], w[2])
  <2> DEFINE b == <<c, pos>>
  <2>1. CASE b \in DOMAIN data_
    <3>1. getDataSlice(c, pos) = data_[b]
      BY <2>1 DEF getDataSlice
    <3>2. DOMAIN data_[b] = 0 .. Fields(parameters_[c]) - 1
      <4>1. PICK q \in DOMAIN translation_ :
                b[1] = cfName(q) /\ DOMAIN data_[b] = 0 .. Fields(translation_[q].dimension) - 1
        BY <2>1 DEF BuffersAreSized
      <4> QED
        BY <1>2, <4>1 DEF OneShape
    <3>3. ASSUME NEW n \in DOMAIN data_[b], NEW w \in stored, PlaceOf(w) = <<b, n>>
          PROVE  data_[b][n] = Written(w[1], w[2])
      <4>1. PlaceOf(w)[1] = b /\ PlaceOf(w)[2] = n
        BY <3>3
      <4> HIDE DEF b
      <4> QED
        BY <4>1 DEF EveryWriteKept
    <3>4. ASSUME NEW n \in DOMAIN data_[b], ~\E w \in stored : PlaceOf(w) = <<b, n>>
          PROVE  data_[b][n] = Blank
      <4>1. CanBeWritten(b[1])
        BY <1>2 DEF CanBeWritten
      <4> HIDE DEF b
      <4> QED
        BY <2>1, <3>4, <4>1 DEF OnlyWrites, FieldOf
    <3> QED
      BY <3>1, <3>2, <3>3, <3>4
  <2>2. CASE b \notin DOMAIN data_
    <3>1. /\ DOMAIN getDataSlice(c, pos) = 0 .. Fields(parameters_[c]) - 1
          /\ \A n \in DOMAIN getDataSlice(c, pos) : getDataSlice(c, pos)[n] = Fill
      BY <2>2 DEF getDataSlice
    <3>2. \A w \in stored : PlaceOf(w)[1] # b
      BY <2>2 DEF EveryWriteKept
    <3>3. \A n, w : w \in stored => PlaceOf(w) # <<b, n>>
      BY <3>2
    <3> QED
      BY <3>1, <3>3
  <2> QED
    BY <2>1, <2>2
<1>3. /\ DOMAIN file = DOMAIN parameters_
      /\ \A c \in DOMAIN parameters_ :
            /\ DOMAIN file[c] = 0 .. wantedNumberOfTimeSteps_ - 1
            /\ \A pos \in 0 .. wantedNumberOfTimeSteps_ - 1 : file[c][pos] = getDataSlice(c, pos)
  BY <1>1
<1>4. ASSUME NEW c \in DOMAIN file, NEW pos \in DOMAIN file[c]
      PROVE  /\ DOMAIN file[c][pos] = 0 .. Fields(parameters_[c]) - 1
             /\ \A n \in DOMAIN file[c][pos] :
                   LET here == {w \in stored : PlaceOf(w) = <<<<c, pos>>, n>>}
                   IN  IF here = {} THEN file[c][pos][n] \in {Blank, Fill}
                       ELSE \A w \in here : file[c][pos][n] = Written(w[1], w[2])
  <2>1. c \in DOMAIN parameters_ /\ pos \in 0 .. wantedNumberOfTimeSteps_ - 1
    BY <1>3, <1>4
  <2>2. file[c][pos] = getDataSlice(c, pos)
    BY <1>3, <2>1
  <2> QED
    BY <1>2, <2>1, <2>2
<1>5. DOMAIN file = {cfName(w[1]) : w \in stored}
  BY <1>3 DEF RegisteredWhenStored
<1> QED
  BY <1>3, <1>4, <1>5 DEF FileHoldsExactlyTheWrites

\* Under a translation without clashes, at times without minutes, the file has
\* exactly the variables that were written, each with a slice of its own size
\* for every wanted time, and in the slices the stored fields and no others, whichever
\* writes were refused on the way and whatever names were taken.
THEOREM FileIsTheForecast ==
    Spec => [](NoClash(translation_) /\ NoMinutes => FileHoldsExactlyTheWrites)
<1> DEFINE Inv == KeptInv /\ ContentInv /\ FlushedInv
<1>1. Init => Inv
  BY DEF Init, KeptInv, BuffersAreSized, StoredHavePlaces, EveryWriteKept,
         ContentInv, RegisteredWhenStored, OneShape, OnlyWrites, FlushedInv
<1>2. Inv /\ [Next]_vars => Inv'
  BY KeptInvNext, ContentInvNext, FlushedInvNext
<1>3. Inv => (NoClash(translation_) /\ NoMinutes => FileHoldsExactlyTheWrites)
  BY FileIsWhatWasStored DEF KeptInv, ContentInv
<1> QED
  BY <1>1, <1>2, <1>3, PTL DEF Spec

-----------------------------------------------------------------------------
(* Types *)

LEMMA RankIsAPosition ==
    ASSUME NEW p \in Parameter
    PROVE  Rank(p) \in 0 .. Len(WeatherData)
<1>1. \E r \in DOMAIN WeatherData : WeatherData[r] = p
  BY DEF Parameter
<1>2. Rank(p) \in DOMAIN WeatherData
  BY <1>1 DEF Rank
<1>3. DOMAIN WeatherData = 1 .. Len(WeatherData) /\ Len(WeatherData) \in Nat
  BY TranslationAssumption
<1> QED
  BY <1>2, <1>3

LEMMA CountIsANumber == CountedSteps \in Nat
<1> DEFINE Upto == {i \in DOMAIN Axis : Axis[i] <= lastTime}
<1>1. DOMAIN Axis = 1 .. Len(Axis) /\ Len(Axis) \in Nat
  BY TimeAssumption
<1>2. IsFiniteSet(DOMAIN Axis)
  BY <1>1, FS_Interval
<1>3. Upto \subseteq DOMAIN Axis
  OBVIOUS
<1>4. CountedSteps = Cardinality(Upto)
  BY DEF CountedSteps
<1> HIDE DEF Upto
<1> QED
  BY <1>2, <1>3, <1>4, FS_Subset, FS_CardinalityType

\* A time that is in the axis has an index there, minutes or not.
LEMMA IndexIsANumber ==
    ASSUME NEW p, NEW i, InAxis(p, i)
    PROVE  getValidTimeIndex_(p, i) \in Nat
<1> DEFINE k == CHOOSE j \in DOMAIN Axis : Axis[j] = wantedTime(p, i)
<1>1. \E j \in DOMAIN Axis : Axis[j] = wantedTime(p, i)
  BY DEF InAxis, Range
<1>2. k \in DOMAIN Axis
  BY <1>1
<1>3. getValidTimeIndex_(p, i) = k - 1
  BY DEF getValidTimeIndex_
<1>4. DOMAIN Axis = 1 .. Len(Axis) /\ Len(Axis) \in Nat
  BY TimeAssumption
<1> HIDE DEF k
<1> QED
  BY <1>2, <1>3, <1>4

\* A buffer, and what may become of it.
IsBuffer(b, contents) ==
    \E p \in DOMAIN translation_ :
        /\ b[1] = cfName(p)
        /\ b[2] \in 0 .. wantedNumberOfTimeSteps_ - 1
        /\ contents \in [0 .. Fields(translation_[p].dimension) - 1 -> Contents]

LEMMA BufferForIsABuffer ==
    ASSUME TypeOK, NEW p \in Parameter, NEW i \in DOMAIN Axis, Found(p, i), Wanted(p, i)
    PROVE  IsBuffer(Buffer(p, i), BufferFor(p, i))
<1>1. Buffer(p, i)[1] = cfName(p) /\ Buffer(p, i)[2] = getValidTimeIndex_(p, i)
      /\ p \in DOMAIN translation_
  BY DEF Buffer, Found, Translated
<1>2. getValidTimeIndex_(p, i) \in 0 .. wantedNumberOfTimeSteps_ - 1
  BY IndexIsANumber DEF Found, Wanted, TypeOK
<1>3. CASE Buffer(p, i) \in DOMAIN data_
  BY <1>3 DEF TypeOK, IsBuffer, BufferFor
<1>4. CASE Buffer(p, i) \notin DOMAIN data_
  <2>1. BufferFor(p, i) \in [0 .. Fields(translation_[p].dimension) - 1 -> Contents]
    BY <1>4 DEF BufferFor, Contents
  <2> QED
    BY <1>1, <1>2, <2>1 DEF IsBuffer
<1> QED
  BY <1>3, <1>4

LEMMA BuffersStay ==
    ASSUME TypeOK, UNCHANGED <<translation_, extraDimensions_, wantedNumberOfTimeSteps_>>,
           NEW b, NEW contents, IsBuffer(b, contents), data_' = SetBuffer(b, contents)
    PROVE  (\A c \in DOMAIN data_ : IsBuffer(c, data_[c]))'
<1>1. \A c \in DOMAIN data_ : IsBuffer(c, data_[c])
  BY DEF TypeOK, IsBuffer
<1>2. \A c \in DOMAIN data_' : IsBuffer(c, data_'[c])
  BY <1>1 DEF SetBuffer
<1>3. \A c : IsBuffer(c, data_[c])' = IsBuffer(c, data_'[c])
  BY PlacesStay DEF IsBuffer, Fields, Contents, Write, Written, Blank, Fill
<1> QED
  BY <1>2, <1>3

LEMMA TypeOKAdd ==
    ASSUME TypeOK, NEW p \in Parameter, NEW i \in DOMAIN Axis, Add(p, i) \/ Throws(p, i)
    PROVE  TypeOK'
<1>1. /\ UNCHANGED <<translation_, extraDimensions_, numberOfHours,
                     wantedNumberOfTimeSteps_, flushed>>
      /\ last' = <<i, Rank(p)>>
      /\ stored' \cup dropped' \cup overrun'
              \subseteq stored \cup dropped \cup overrun \cup {<<p, i>>}
  BY DEF Add, AddFails, AddIgnores, AddFindsNoDimension, AddFindsNoPlace,
         AddFindsNameTaken, AddStores, Throws, Called, Copy
<1>2. last' \in (0 .. Len(Axis)) \X (0 .. Len(WeatherData))
  <2>1. DOMAIN Axis = 1 .. Len(Axis) /\ Len(Axis) \in Nat
    BY TimeAssumption
  <2> QED
    BY <1>1, <2>1, RankIsAPosition
<1>3. stored' \cup dropped' \cup overrun' \subseteq Write
  BY <1>1 DEF TypeOK, Write
<1>4. (\A b \in DOMAIN data_ : IsBuffer(b, data_[b]))'
  <2>1. CASE data_' = data_
    <3>1. \A b \in DOMAIN data_ : IsBuffer(b, data_[b])
      BY DEF TypeOK, IsBuffer
    <3> QED
      BY <1>1, <2>1, <3>1, PlacesStay
         DEF IsBuffer, Fields, Contents, Write, Written, Blank, Fill
  <2>2. CASE AddFindsNoPlace(p, i)
    BY <1>1, <2>2, BufferForIsABuffer, BuffersStay DEF AddFindsNoPlace
  <2>3. CASE AddFindsNameTaken(p, i) \/ AddStores(p, i)
    <3> DEFINE n == getOutputBufferIndex_(p)
               old == BufferFor(p, i)
               new == IF n \in DOMAIN old THEN [old EXCEPT ![n] = Written(p, i)] ELSE old
    <3>1. data_' = SetBuffer(Buffer(p, i), new) /\ IsBuffer(Buffer(p, i), old)
      BY <2>3, BufferForIsABuffer DEF AddFindsNameTaken, AddStores, Copy
    <3>2. Written(p, i) \in Contents
      <4>1. <<p, i>> \in Write /\ <<p, i>>[1] = p /\ <<p, i>>[2] = i
        BY DEF Write
      <4> QED
        BY <4>1 DEF Contents
    <3> HIDE DEF old, n
    <3>3. IsBuffer(Buffer(p, i), new)
      BY <3>1, <3>2 DEF IsBuffer
    <3> HIDE DEF new
    <3> QED
      BY <1>1, <3>1, <3>3, BuffersStay
  <2> QED
    BY <2>1, <2>2, <2>3 DEF Add, AddFails, AddIgnores, AddFindsNoDimension, Throws
<1>5. /\ listed' \subseteq {cfName(q) : q \in DOMAIN translation_}'
      /\ {b[1] : b \in DOMAIN data_'} \cup DOMAIN parameters_' \subseteq listed'
      /\ DOMAIN parameters_' \subseteq cdm_'
  <2>1. /\ listed \subseteq {cfName(q) : q \in DOMAIN translation_}
        /\ \A b \in DOMAIN data_ : b[1] \in listed
        /\ DOMAIN parameters_ \subseteq listed \cap cdm_
    BY DEF TypeOK
  <2>2. {cfName(q) : q \in DOMAIN translation_}' = {cfName(q) : q \in DOMAIN translation_}
    BY <1>1, PlacesStay
  <2>3. listed' = IF p \in DOMAIN translation_ THEN listed \cup {cfName(p)} ELSE listed
    BY DEF Add, AddFails, AddIgnores, AddFindsNoDimension, AddFindsNoPlace,
           AddFindsNameTaken, AddStores, Throws, Called, Translated
  <2>4. /\ \/ data_' = data_
           \/ p \in DOMAIN translation_ /\ DOMAIN data_' = DOMAIN data_ \cup {Buffer(p, i)}
        /\ \/ UNCHANGED <<cdm_, parameters_>>
           \/ /\ p \in DOMAIN translation_
              /\ DOMAIN parameters_' = DOMAIN parameters_ \cup {cfName(p)}
              /\ cdm_' = cdm_ \cup {cfName(p)}
    BY DEF Add, AddFails, AddIgnores, AddFindsNoDimension, AddFindsNoPlace, AddFindsNameTaken,
           AddStores, Throws, Found, Translated, Register, Copy, SetBuffer
  <2>5. Buffer(p, i)[1] = cfName(p)
    BY DEF Buffer
  <2>6. \A b \in DOMAIN data_' : b[1] \in listed'
    BY <2>1, <2>3, <2>4, <2>5
  <2> QED
    BY <2>1, <2>2, <2>3, <2>4, <2>6
<1> QED
  BY <1>1, <1>2, <1>3, <1>4, <1>5 DEF TypeOK, IsBuffer, Write

LEMMA TypeOKNext ==
    ASSUME TypeOK, [Next]_vars
    PROVE  TypeOK'
<1>1. ASSUME UNCHANGED <<translation_, extraDimensions_, numberOfHours,
                         wantedNumberOfTimeSteps_, data_, cdm_, listed, parameters_, last,
                         stored, dropped, overrun>>,
             flushed' \in BOOLEAN
      PROVE  TypeOK'
  <2>1. \A b \in DOMAIN data_ : IsBuffer(b, data_[b])
    BY DEF TypeOK, IsBuffer
  <2>2. (\A b \in DOMAIN data_ : IsBuffer(b, data_[b]))'
    BY <1>1, <2>1, PlacesStay DEF IsBuffer, Fields, Contents, Write, Written, Blank, Fill
  <2>3. {cfName(q) : q \in DOMAIN translation_}' = {cfName(q) : q \in DOMAIN translation_}
    BY <1>1, PlacesStay
  <2> QED
    BY <1>1, <2>2, <2>3 DEF TypeOK, IsBuffer, Write
<1>2. CASE Flush \/ UNCHANGED vars
  BY <1>1, <1>2 DEF Flush, vars, TypeOK
<1> QED
  BY <1>2, TypeOKAdd DEF Next, Terminated

-----------------------------------------------------------------------------
(* What the program needs to know of the file. *)

\* Every stored write that was wanted is at its place in the file, and there
\* is nothing else in it.
LEMMA FileInPlaces ==
    ASSUME KeptInv, ContentInv, FlushedInv, HorizonInv, NoClash(translation_), NoMinutes,
           flushed, \A w \in stored : Wanted(w[1], w[2])
    PROVE  /\ DOMAIN file = {cfName(w[1]) : w \in stored}
           /\ \A w \in stored :
                 file[cfName(w[1])][getValidTimeIndex_(w[1], w[2])][getOutputBufferIndex_(w[1])]
                     = Written(w[1], w[2])
           /\ \A c \in DOMAIN file : \A pos \in DOMAIN file[c] :
                 Range(file[c][pos]) \subseteq
                     {Blank, Fill} \cup {Written(w[1], w[2]) : w \in stored}
<1>1. BuffersAreSized /\ StoredHavePlaces /\ EveryWriteKept
      /\ RegisteredWhenStored /\ OneShape /\ OnlyWrites
  BY DEF KeptInv, ContentInv
<1>2. FileHoldsExactlyTheWrites
  BY <1>1, FileIsWhatWasStored
<1>3. ASSUME NEW c \in DOMAIN file, NEW pos \in DOMAIN file[c], NEW n \in DOMAIN file[c][pos],
             NEW w \in stored, PlaceOf(w) = <<<<c, pos>>, n>>
      PROVE  file[c][pos][n] = Written(w[1], w[2])
  <2> DEFINE here == {v \in stored : PlaceOf(v) = <<<<c, pos>>, n>>}
  <2>1. IF here = {} THEN file[c][pos][n] \in {Blank, Fill}
        ELSE \A v \in here : file[c][pos][n] = Written(v[1], v[2])
    BY <1>2 DEF FileHoldsExactlyTheWrites
  <2>2. w \in here
    BY <1>3
  <2> QED
    BY <2>1, <2>2
<1>4. ASSUME NEW w \in stored
      PROVE  file[cfName(w[1])][getValidTimeIndex_(w[1], w[2])][getOutputBufferIndex_(w[1])]
                 = Written(w[1], w[2])
  <2>0. PICK c, pos, n : /\ c = cfName(w[1])
                         /\ pos = getValidTimeIndex_(w[1], w[2])
                         /\ n = getOutputBufferIndex_(w[1])
    OBVIOUS
  <2>1. w[1] \in DOMAIN translation_ /\ w[2] \in DOMAIN Axis /\ InAxis(w[1], w[2])
        /\ HasValue(w[1])
    BY <1>1 DEF StoredHavePlaces
  <2>2. c \in DOMAIN file
    BY <1>2, <2>0 DEF FileHoldsExactlyTheWrites
  <2>3. pos \in 0 .. wantedNumberOfTimeSteps_ - 1
    <3>1. pos \in Nat /\ pos < wantedNumberOfTimeSteps_
      BY <2>0, <2>1, ValidTimeIsFound DEF KeptInv, Wanted
    <3>2. wantedNumberOfTimeSteps_ \in Nat
      BY CountIsANumber DEF HorizonInv
    <3> QED
      BY <3>1, <3>2
  <2>4. pos \in DOMAIN file[c] /\ DOMAIN file[c][pos] = 0 .. Fields(parameters_[c]) - 1
    BY <1>2, <2>2, <2>3 DEF FileHoldsExactlyTheWrites
  <2>5. parameters_[c] = translation_[w[1]].dimension
    BY <1>1, <2>0, <2>1 DEF RegisteredWhenStored, OneShape
  <2>6. n \in DOMAIN file[c][pos]
    BY <2>0, <2>1, <2>4, <2>5, PlaceInsideBuffer DEF KeptInv
  <2>7. PlaceOf(w) = <<<<c, pos>>, n>>
    BY <2>0 DEF PlaceOf, Buffer
  <2>8. file[c][pos][n] = Written(w[1], w[2])
    <3>1. \A x \in DOMAIN file[c] : \A y \in DOMAIN file[c][x] :
             PlaceOf(w) = <<<<c, x>>, y>> => file[c][x][y] = Written(w[1], w[2])
      BY <1>3, <2>2
    <3>2. \A y \in DOMAIN file[c][pos] :
             PlaceOf(w) = <<<<c, pos>>, y>> => file[c][pos][y] = Written(w[1], w[2])
      BY <3>1, <2>4
    <3> QED
      BY <3>2, <2>6, <2>7
  <2> QED
    BY <2>0, <2>8
<1>5. ASSUME NEW c \in DOMAIN file, NEW pos \in DOMAIN file[c], NEW n \in DOMAIN file[c][pos]
      PROVE  file[c][pos][n] \in {Blank, Fill} \cup {Written(w[1], w[2]) : w \in stored}
  <2> DEFINE here == {w \in stored : PlaceOf(w) = <<<<c, pos>>, n>>}
  <2>1. IF here = {} THEN file[c][pos][n] \in {Blank, Fill}
        ELSE \A w \in here : file[c][pos][n] = Written(w[1], w[2])
    BY <1>2 DEF FileHoldsExactlyTheWrites
  <2> QED
    BY <2>1
<1> QED
  BY <1>2, <1>4, <1>5 DEF FileHoldsExactlyTheWrites, Range

=============================================================================
