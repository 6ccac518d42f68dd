--------------------------- MODULE SymbolSelection ---------------------------
(***************************************************************************)
(* One grid point of getSymbolCertainty and getProbableValues: from the     *)
(* weather symbols of the members a symbol is selected, its certainty is    *)
(* summed up, and the value of a parameter is the median over the members   *)
(* whose symbol is near the selected one.                                   *)
(*                                                                          *)
(* Abstractions.  The members' symbols come from the weather symbol library *)
(* and are any of the ten of the table; values are whole numbers, in any    *)
(* order.  A certainty is a number of members, 100/Len(symbols) per cent    *)
(* each; the fraction of wet members is compared exactly, not in float.     *)
(***************************************************************************)
EXTENDS Integers, Sequences, FiniteSets, Functions

CONSTANTS
    Ensembles,  \* the symbols a point's members may have, sequences of codes
    Fractions,  \* values of the option precipFraction, [num |-> , den |-> ]
    Data        \* values of the parameter, sequences

\* weather_symbol::Code
Error == 0
Sun == 1
LightCloud == 2
PartlyCloud == 3
Cloud == 4
LightRainSun == 5
LightRain == 9
Rain == 10
DrizzleSun == 40
RainSun == 41
Drizzle == 46

Dry == {Sun, LightCloud, PartlyCloud, Cloud}
Wet == {LightRainSun, LightRain, Rain, DrizzleSun, RainSun, Drizzle}
Symbol == Dry \cup Wet

hasPrecipitation(s) == s \in Wet

ASSUME EnsemblesAssumption == Ensembles \subseteq Seq(Symbol) \ {<< >>}
ASSUME FractionsAssumption == Fractions \subseteq [num : Nat, den : Nat \ {0}]
ASSUME DataAssumption == Data \subseteq Seq(Int)

\* The table of getProbabilityFactor: whose members count for a symbol.
nearby ==
    [s \in Symbol |->
        CASE s = Sun -> {Sun, LightCloud}
          [] s = LightCloud -> {Sun, LightCloud, PartlyCloud}
          [] s = PartlyCloud -> {LightCloud, PartlyCloud, Cloud}
          [] s = Cloud -> {PartlyCloud, Cloud}
          [] s = DrizzleSun -> {DrizzleSun, LightRainSun, Drizzle}
          [] s = LightRainSun -> {DrizzleSun, LightRainSun, RainSun, LightRain}
          [] s = RainSun -> {LightRainSun, RainSun, Rain}
          [] s = Drizzle -> {DrizzleSun, Drizzle, LightRain}
          [] s = LightRain -> {LightRainSun, Drizzle, LightRain, Rain}
          [] s = Rain -> {RainSun, LightRain, Rain}]

\* Bug variant of Summed: one symbol more is missing.
SummedWithoutCloud == {Sun, LightCloud, PartlyCloud, LightRainSun, LightRain, Rain}

\* The symbols getProbabilityOf adds up: not all of the table.
Summed == {Sun, LightCloud, PartlyCloud, Cloud, LightRainSun, LightRain, Rain}

VARIABLES
    symbols,         \* allSymbols at this point: one code per member
    precipFraction,
    data,            \* dataIn at this point: one value per member
    pc,
    visited,         \* entries of symbolProbability the loop has passed
    ret, count,      \* the locals of selectSymbol
    certainty,       \* certaintyOut, in members
    member,          \* members getProbableValue has passed
    relevant,        \* values pushed so far
    value            \* twice the median, 0 before it is known

inputs == <<symbols, precipFraction, data>>
vars == <<symbols, precipFraction, data, pc, visited, ret, count, certainty,
          member, relevant, value>>

Member == DOMAIN symbols
Count(s) == Cardinality({m \in Member : symbols[m] = s})

-----------------------------------------------------------------------------
Init ==
    /\ symbols \in Ensembles
    /\ precipFraction \in Fractions
    /\ data \in Data
    /\ Len(data) = Len(symbols)      \* checked by getProbableValues
    /\ pc = "select"
    /\ visited = {}
    /\ ret = Error /\ count = 0
    /\ certainty = 0
    /\ member = 0
    /\ relevant = << >>
    /\ value = 0

precipitationCount == Cardinality({m \in Member : hasPrecipitation(symbols[m])})

\* stop - start + 1
numMembers == Len(symbols) + 1

\* Bug variant of isRain: more than the fraction.
IsRainAbove == precipitationCount * precipFraction.den > precipFraction.num * numMembers

\* fraction >= precipFraction
isRain == precipitationCount * precipFraction.den >= precipFraction.num * numMembers

\* Bug variant of Preferred: among the most frequent, the last one.
PreferredLast(s) == count <= Count(s) /\ hasPrecipitation(s) = isRain

Preferred(s) == count < Count(s) /\ hasPrecipitation(s) = isRain

\* Bug variant of Entries: reading symbolProbability[ret] makes an entry.
EntriesWithError == Range(symbols) \cup {Error}

\* The keys of symbolProbability.
Entries == Range(symbols)

\* selectSymbol looks at one entry of the map, which is ordered by code.
NextEntry ==
    /\ pc = "select"
    /\ \E s \in Entries \ visited :
          /\ \A r \in Entries \ visited : s <= r
          /\ visited' = visited \cup {s}
          /\ ret' = IF Preferred(s) THEN s ELSE ret
          /\ count' = IF Preferred(s) THEN Count(s) ELSE count
    /\ UNCHANGED <<inputs, pc, certainty, member, relevant, value>>

getProbabilityOf(s) ==
    Cardinality({m \in Member : symbols[m] \in Summed \cap nearby[s]})

\* The symbol and its certainty are stored.
Selected ==
    /\ pc = "select"
    /\ Entries \subseteq visited
    /\ ret # Error
    /\ certainty' = getProbabilityOf(ret)
    /\ pc' = "consider"
    /\ UNCHANGED <<inputs, visited, ret, count, member, relevant, value>>

\* No symbol was selected: getProbabilityFactor has no entry for Error.
InternalError ==
    /\ pc = "select"
    /\ Entries \subseteq visited
    /\ ret = Error
    /\ pc' = "logic_error"
    /\ UNCHANGED <<inputs, visited, ret, count, certainty, member, relevant, value>>

symbolInfluencesSelection(query) == query \in nearby[ret]

\* Bug variant of Consider: dataBegin stays when the symbol is not relevant.
ConsiderLagging ==
    /\ pc = "consider"
    /\ member < Len(symbols)
    /\ member' = member + 1
    /\ relevant' = IF symbolInfluencesSelection(symbols[member'])
                   THEN Append(relevant, data[Len(relevant) + 1]) ELSE relevant
    /\ UNCHANGED <<inputs, pc, visited, ret, count, certainty, value>>

\* getProbableValue looks at one member.
Consider ==
    /\ pc = "consider"
    /\ member < Len(symbols)
    /\ member' = member + 1
    /\ relevant' = IF symbolInfluencesSelection(symbols[member'])
                   THEN Append(relevant, data[member']) ELSE relevant
    /\ UNCHANGED <<inputs, pc, visited, ret, count, certainty, value>>

\* Element n, from zero, of a sequence once it is sorted.
SortedAt(q, n) ==
    CHOOSE v \in Range(q) :
        /\ Cardinality({i \in DOMAIN q : q[i] < v}) <= n
        /\ Cardinality({i \in DOMAIN q : q[i] <= v}) > n

\* Twice the median: the middle element, or the two in the middle.
medianTwice(q) ==
    LET half == Len(q) \div 2
    IN  IF Len(q) % 2 = 1 THEN 2 * SortedAt(q, half)
        ELSE SortedAt(q, half) + SortedAt(q, half - 1)

\* With no relevant value "Internal error" is thrown.
Median ==
    /\ pc = "consider"
    /\ member = Len(symbols)
    /\ IF relevant = << >>
       THEN pc' = "runtime_error" /\ UNCHANGED value
       ELSE pc' = "done" /\ value' = medianTwice(relevant)
    /\ UNCHANGED <<inputs, visited, ret, count, certainty, member, relevant>>

Terminated == pc \in {"done", "logic_error", "runtime_error"} /\ UNCHANGED vars

Next == \/ NextEntry \/ Selected \/ InternalError
        \/ Consider \/ Median
        \/ Terminated

Spec == Init /\ [][Next]_vars

-----------------------------------------------------------------------------
(* Properties *)

\* Every variable has its type; only entries of the map are visited.
TypeOK ==
    /\ symbols \in Seq(Symbol) \ {<< >>} /\ precipFraction \in Fractions
    /\ data \in Seq(Int) /\ Len(data) = Len(symbols)
    /\ pc \in {"select", "consider", "done", "logic_error", "runtime_error"}
    /\ visited \subseteq Range(symbols)
    /\ ret \in Symbol \cup {Error}
    /\ count \in Nat /\ certainty \in Nat
    /\ member \in 0 .. Len(symbols)
    /\ relevant \in Seq(Int) /\ value \in Int

\* The members' symbols of the class, dry or wet, that is to be shown.
Candidate(s) == s \in Range(symbols) /\ hasPrecipitation(s) = isRain

\* INVARIANT: the selected symbol is one that members have, of the class that
\* is to be shown, and among the symbols of the class it is the most frequent,
\* the one with the lowest code if there are several; without one the class
\* has no members.
MostFrequentOfItsClass ==
    /\ pc \in {"consider", "done"} =>
          /\ Candidate(ret)
          /\ \A s \in Symbol : Candidate(s) =>
                Count(s) < Count(ret) \/ (Count(s) = Count(ret) /\ ret <= s)
    /\ pc = "logic_error" => ~\E s \in Symbol : Candidate(s)

\* The fractions for which a symbol always exists; the default is the largest.
UpToHalf == 0 < precipFraction.num /\ 2 * precipFraction.num <= precipFraction.den

\* INVARIANT: with the default fraction, or a smaller one, every ensemble gets
\* a symbol: "Internal error" is not reached, which would cost the time step
\* everything, the waves included.
EveryEnsembleGetsASymbol == UpToHalf => pc # "logic_error"

\* In the table of near symbols, but in no sum: members with these count for
\* nothing, not even where theirs is the selected symbol.
LeftOut == {DrizzleSun, RainSun, Drizzle}

\* INVARIANT: the certainty of a symbol counts no member of the other class, and
\* at least the members that have the symbol itself; but a symbol that is left
\* out is never counted, and these three are all.
CertaintyOfItsClass ==
    pc \in {"consider", "done"} =>
        /\ certainty <= Cardinality({m \in Member :
                            /\ hasPrecipitation(symbols[m]) = hasPrecipitation(ret)
                            /\ symbols[m] \notin LeftOut})
        /\ ret \notin LeftOut => certainty >= Count(ret)

\* v/2 is a median of the values of these members, and there are such members.
MedianOver(members, v) ==
    LET below == {m \in members : 2 * data[m] <= v}
        above == {m \in members : 2 * data[m] >= v}
    IN  /\ members # {}
        /\ 2 * Cardinality(below) >= Cardinality(members)
        /\ 2 * Cardinality(above) >= Cardinality(members)

\* INVARIANT: the most probable value is a median over the members whose symbol
\* is near the selected one, and there is always at least one.
ValueOfTheSelectedWeather ==
    /\ pc # "runtime_error"
    /\ pc = "done" => MedianOver({m \in Member : symbols[m] \in nearby[ret]}, value)

\* INVARIANT, contradicted by the code: the returned values are the median of
\* all input values with the same weather symbol group, rain or no rain.
MedianOfTheSymbolGroup ==
    pc = "done" =>
        MedianOver({m \in Member : hasPrecipitation(symbols[m]) = hasPrecipitation(ret)}, value)

\* INVARIANT, contradicted by the code: a symbol has precipitation when the
\* fraction of members with precipitation reaches precipFraction.
WetWhenFractionReached ==
    pc = "done" /\ precipitationCount * precipFraction.den
                       >= precipFraction.num * Len(symbols)
        => hasPrecipitation(ret)

=============================================================================
