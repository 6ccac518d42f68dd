---------------------------- MODULE WindSelection ----------------------------
(***************************************************************************)
(* One grid point of getWindProbabilities: the wind is selected among the   *)
(* members with relevant weather by the median of the forces, and rated by  *)
(* how many of all members are near it.                                     *)
(*                                                                          *)
(* Abstractions.  A wind is given by its force and its direction instead of *)
(* its two components: sorting, scaling and comparing need nothing else.    *)
(* Forces are in half metres per second, members' in even numbers of them,  *)
(* so that an average of two is whole; a direction is only carried along,   *)
(* as the program rates a wind by its force alone.                          *)
(***************************************************************************)
EXTENDS Integers, Sequences, FiniteSets

CONSTANTS
    Samples,  \* the winds a point's members may have, sequences of winds
    NaN       \* the wind whose components are not numbers

MetrePerSecond == 2

Wind == [force : Nat, direction : Int]

ASSUME SamplesAssumption ==
    \A q \in Samples :
        /\ q \in Seq(Wind) \ {<< >>}
        /\ \A m \in DOMAIN q : q[m].force % 2 = 0
ASSUME NaNAssumption == NaN \notin Wind

VARIABLES
    samples,     \* wind data at this point: one wind per member
    influencing, \* members whose symbol is near the selected one
    pc,
    sorted,      \* "relevant", once sorted by force: the members in order
    selectedWind,
    forceProbability  \* in members

vars == <<samples, influencing, pc, sorted, selectedWind, forceProbability>>

Member == DOMAIN samples

-----------------------------------------------------------------------------
(* Wind *)

\* The components times force / own force: infinity times zero for a calm.
scaledTo(w, force) == IF w.force = 0 THEN NaN ELSE [w EXCEPT !.force = force]

Abs(x) == IF x < 0 THEN -x ELSE x

\* Comparing with a wind that is not a number is false.
almost_equal_force(a, b, delta) ==
    /\ b # NaN
    /\ Abs(a.force - b.force) <= delta

-----------------------------------------------------------------------------
Init ==
    /\ samples \in Samples
    /\ influencing \in (SUBSET Member) \ {{}}
    /\ pc = "sort"
    /\ sorted = << >>
    /\ selectedWind = NaN
    /\ forceProbability = 0

\* std::sort by force: members of equal force come in any order.
Sort ==
    /\ pc = "sort"
    /\ sorted' \in {q \in [1 .. Cardinality(influencing) -> influencing] :
                       \A i, j \in DOMAIN q :
                           i < j => /\ q[i] # q[j]
                                    /\ samples[q[i]].force <= samples[q[j]].force}
    /\ pc' = "select"
    /\ UNCHANGED <<samples, influencing, selectedWind, forceProbability>>

\* Element i of relevant, from zero.
At(i) == samples[sorted[i + 1]]

elementCount == Len(sorted)

\* Bug variant of median: direction of the stronger of the two.
MedianOfStronger ==
    IF elementCount % 2 = 1 THEN At(elementCount \div 2)
    ELSE scaledTo(At(elementCount \div 2),
                  (At(elementCount \div 2).force + At(elementCount \div 2 - 1).force) \div 2)

\* Bug variant of median: half of the difference.
MedianOfDifference ==
    IF elementCount % 2 = 1 THEN At(elementCount \div 2)
    ELSE scaledTo(At(elementCount \div 2 - 1),
                  (At(elementCount \div 2 - 1).force - At(elementCount \div 2).force) \div 2)

\* The middle wind or, of two in the middle, the first scaled to the average.
median ==
    IF elementCount % 2 = 1 THEN At(elementCount \div 2)
    ELSE scaledTo(At(elementCount \div 2 - 1),
                  (At(elementCount \div 2).force + At(elementCount \div 2 - 1).force) \div 2)

Select ==
    /\ pc = "select"
    /\ selectedWind' = median
    /\ pc' = "rate"
    /\ UNCHANGED <<samples, influencing, sorted, forceProbability>>

\* 2 m/s, and 3 for a wind that is not below 12: one that is not a number is not.
deviation ==
    (IF selectedWind # NaN /\ selectedWind.force < 12 * MetrePerSecond THEN 2 ELSE 3)
        * MetrePerSecond

\* Bug variant of getForceProbability: among the relevant members only.
ForceProbabilityOfRelevant ==
    Cardinality({m \in influencing : almost_equal_force(samples[m], selectedWind, deviation)})

getForceProbability ==
    Cardinality({m \in Member : almost_equal_force(samples[m], selectedWind, deviation)})

\* getWindProbability, by way of getOverallProbability: the force alone.
Rate ==
    /\ pc = "rate"
    /\ forceProbability' = getForceProbability
    /\ pc' = "done"
    /\ UNCHANGED <<samples, influencing, sorted, selectedWind>>

Terminated == pc = "done" /\ UNCHANGED vars

Next == Sort \/ Select \/ Rate \/ Terminated

Spec == Init /\ [][Next]_vars

-----------------------------------------------------------------------------
(* Properties *)

\* Every variable has its type: the force of the selected wind is not negative,
\* and no more members are counted than there are.
TypeOK ==
    /\ samples \in Seq(Wind) /\ influencing \subseteq Member
    /\ pc \in {"sort", "select", "rate", "done"}
    /\ sorted \in Seq(influencing)
    /\ selectedWind \in Wind \cup {NaN}
    /\ forceProbability \in 0 .. Len(samples)

Chosen == pc \in {"rate", "done"}

\* The force of the selected wind lies in the middle of those it was selected
\* from, and its direction is that of one of them that is not stronger.
MedianOfRelevant ==
    Chosen /\ selectedWind # NaN =>
        LET below == {m \in influencing : samples[m].force <= selectedWind.force}
            above == {m \in influencing : samples[m].force >= selectedWind.force}
        IN  /\ 2 * Cardinality(below) >= Cardinality(influencing)
            /\ 2 * Cardinality(above) >= Cardinality(influencing)
            /\ \E m \in below : samples[m].direction = selectedWind.direction

\* INVARIANT: the selected wind is such a median; where there is none to be
\* had, because the components are not numbers, the weaker half is calm.
MedianUnlessCalm ==
    /\ MedianOfRelevant
    /\ Chosen /\ selectedWind = NaN =>
          2 * Cardinality({m \in influencing : samples[m].force = 0})
              >= Cardinality(influencing)

\* The members whose force is within that many m/s of the selected one.
Within(limit) ==
    {m \in Member :
        Abs(samples[m].force - selectedWind.force) <= limit * MetrePerSecond}

\* INVARIANT: the certainty is taken from all members, relevant or not: those
\* within 2 m/s all count, and none that is more than 3 m/s away. A wind that is
\* not a number is near no member at all, not even those it was made from.
CertaintyFromAllMembers ==
    pc = "done" =>
        IF selectedWind = NaN THEN forceProbability = 0
        ELSE forceProbability \in Cardinality(Within(2)) .. Cardinality(Within(3))

\* INVARIANT, contradicted by the code: a wind is always selected.
SelectsAWind == Chosen => selectedWind # NaN

=============================================================================
