----------------------- MODULE MCProbabilityGenerator -----------------------
(* A small instance of the generation loop: everything that may be unusual    *)
(* is combined with everything else, two things at a time.                    *)
EXTENDS GeneratorDelivery

CONSTANTS
    MaxTroubles, \* things that are unusual in one execution, see Troubles
    Excluded     \* the sets of groups a configuration may exclude

ASSUME MaxTroubles \in Nat \ {0} /\ Excluded \subseteq SUBSET Group

\* Every six hours with a gap: the first and the last time lack the time six
\* hours later, the second has it, and the last one is not due.  Two other
\* axes: one without times, one where every time is due.
UsualAxis == <<0, 12, 18>>
MCAxes == {UsualAxis, << >>, <<0, 6>>}

Ensemble(n) == [kind |-> "ensemble", members |-> n]

\* The others have nine members, too few for the 10 percentile, or ten, which
\* is enough.
Deviations == {[kind |-> "absent", members |-> 0],
               [kind |-> "noEnsemble", members |-> 0],
               Ensemble(0), Ensemble(11)}

\* All files in which at most n inputs deviate from the others.
FilesWith(n, common) ==
    UNION {{[p \in Input |-> IF p \in D THEN d[p] ELSE common] :
               d \in [D -> Deviations]} :
           D \in {S \in SUBSET Input : Cardinality(S) <= n}}

MCFiles == FilesWith(MaxTroubles, Ensemble(10)) \cup FilesWith(MaxTroubles - 1, Ensemble(9))

\* Nothing, one group, or everything but the waves excluded.
ExcludeAtMostOne == {{}, Group \ {"waves"}} \cup {{g} : g \in Group}

MCConfigurations ==
    [excluded : Excluded,
     excludePercentiles : BOOLEAN,
     excludeSimplifiedProbabilities : BOOLEAN,
     numberOfHoursToGenerate : {13}]

\* The sink takes the other temperatures.
Refusable == {<<"Temperature", 12>>}

MCOffset == [p \in Input |-> IF p = "PrecipitationInTo" THEN 6 ELSE 0]

\* How much is out of the ordinary: options given, an axis or a number of
\* members that is not the usual one, inputs that differ from the other inputs
\* of their file, times without symbols, outputs the sink refuses.
One(unusual) == IF unusual THEN 1 ELSE 0

Troubles ==
    One(conf.excluded # {}) + One(conf.excludePercentiles)
    + One(conf.excludeSimplifiedProbabilities)
    + One(validTimes # UsualAxis) + One(\E p \in Input : file[p] = Ensemble(9))
    + Cardinality({p \in Input : file[p] \in Deviations})
    + Cardinality(unselectable) + Cardinality(rejected)

MCInit == Init /\ Troubles <= MaxTroubles
MCSpec == MCInit /\ [][Next]_vars /\ WF_vars(Next)

=============================================================================
