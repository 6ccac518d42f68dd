-------------------------- MODULE GeneratorDelivery --------------------------
(***************************************************************************)
(* What each valid time should get, said without the control flow of       *)
(* ProbabilityGenerator::work, and the claim that the code's sequence of   *)
(* calls, exceptions and writes delivers exactly that.                     *)
(***************************************************************************)
EXTENDS ProbabilityGenerator

Present(p) == file[p].kind # "absent"

Readable(p, t) ==
    /\ file[p].kind = "ensemble"
    /\ file[p].members > 0
    /\ t + InOffset[p] \in Range(validTimes)

InputGroup(p) ==
    CASE p \in {"CloudCover", "LowCloudCover", "MediumCloudCover",
                "HighCloudCover"} -> "clouds"
      [] p \in {"Temperature", "TemperatureMin", "TemperatureMax"} -> "temperature"
      [] p \in {"WindU", "WindV"} -> "wind"
      [] p \in {"PrecipitationInFrom", "PrecipitationInTo"} -> "precipitation"
      [] p = "AirPressure" -> "pressure"
      [] p = "RelativeHumidity" -> "humidity"
      [] p = "SignificantWaveHeight" -> "waves"

\* A group is made if it is included; all but waves also need the symbols.
Made(group) ==
    /\ group \notin conf.excluded
    /\ group = "waves" \/ "symbols" \notin conf.excluded

\* Inputs that are read only for their selected value.
SelectedOnly == {"LowCloudCover", "MediumCloudCover", "HighCloudCover",
                 "TemperatureMin", "TemperatureMax", "AirPressure",
                 "RelativeHumidity"}

\* Inputs whose absence keeps an input from being read.
Forerunners(p) ==
    CASE p = "MediumCloudCover" -> {"LowCloudCover"}
      [] p = "HighCloudCover" -> {"LowCloudCover", "MediumCloudCover"}
      [] p = "WindV" -> {"WindU"}
      [] OTHER -> {}

Read(p) ==
    /\ Made(InputGroup(p))
    /\ p \in SelectedOnly => Simplified
    /\ \A q \in Forerunners(p) : Present(q)

\* Wind is computed once both components are there, on the members of U.
Base(p) == IF p = "WindV" THEN "WindU" ELSE p

UsedForSelection(p) ==
    \/ p \in {"Temperature", "PrecipitationInTo"}
    \/ p \in SelectedOnly \cup {"CloudCover", "WindV"} /\ Simplified

UsedForPercentiles(p) ==
    /\ p \in {"CloudCover", "Temperature", "WindV", "PrecipitationInTo",
              "SignificantWaveHeight"}
    /\ Percentiles

\* p is there, is read and cannot be used: the whole time step is lost.
Spoils(p, t) ==
    /\ Read(p)
    /\ Present(p)
    /\ \/ ~Readable(p, t)
       \/ UsedForSelection(p) /\ file[Base(p)].members # file["CloudCover"].members
       \/ UsedForPercentiles(p) /\ file[Base(p)].members < 10

SymbolsPossible(t) ==
    /\ \A p \in {"CloudCover", "PrecipitationInFrom", "PrecipitationInTo"} :
          Readable(p, t)
    /\ Readable("CloudCover", t + SymbolRange)
    /\ file["PrecipitationInTo"].members \in
           file["CloudCover"].members .. file["PrecipitationInFrom"].members
    /\ t \notin unselectable

\* The group of an output, whether it is a percentile, and the inputs it needs.
Recipe(o) ==
       CASE o \in {"YrSymbol", "ProbabilityOfYrSymbol"} -> <<"symbols", FALSE, {}>>
         [] o = "CloudCover" -> <<"clouds", FALSE, {}>>
         [] o = "CloudCoverPercentiles" -> <<"clouds", TRUE, {}>>
         [] o \in {"LowCloudCover", "MediumCloudCover", "HighCloudCover"} ->
               <<"clouds", FALSE, {o} \cup Forerunners(o)>>
         [] o \in {"Temperature", "TemperatureProbabilities"} ->
               <<"temperature", FALSE, {"Temperature"}>>
         [] o = "TemperaturePercentiles" -> <<"temperature", TRUE, {"Temperature"}>>
         [] o \in {"TemperatureMin", "TemperatureMax"} -> <<"temperature", FALSE, {o}>>
         [] o = "Wind" -> <<"wind", FALSE, {"WindU", "WindV"}>>
         [] o = "WindPercentiles" -> <<"wind", TRUE, {"WindU", "WindV"}>>
         [] o = "PrecipitationOut" -> <<"precipitation", FALSE, {}>>
         [] o = "PrecipitationPercentiles" -> <<"precipitation", TRUE, {}>>
         [] o = "AirPressure" -> <<"pressure", FALSE, {o}>>
         [] o = "RelativeHumidity" -> <<"humidity", FALSE, {o}>>
         [] o = "SignificantWaveHeightPercentiles" ->
               <<"waves", TRUE, {"SignificantWaveHeight"}>>

Lost(t) ==
    \/ Made("symbols") /\ ~SymbolsPossible(t)
    \/ \E p \in Input : Spoils(p, t)

Product(t) ==
    IF Lost(t) THEN {}
    ELSE {o \in Output :
            /\ <<o, t>> \notin rejected
            /\ Made(Recipe(o)[1])
            /\ IF Recipe(o)[2] THEN Percentiles ELSE Simplified
            /\ \A p \in Recipe(o)[3] : Present(p)}

-----------------------------------------------------------------------------
\* The positions of the axis that lie before the last time to generate; the
\* axis is the one of the cloud cover.
Due(i) == Present("CloudCover") /\ \A j \in 1..i : validTimes[j] < lastGenerateTime

DueCount == Cardinality({i \in DOMAIN validTimes : Due(i)})

Settled == {i \in DOMAIN outcome : outcome[i] # "pending"}

Delivery == INSTANCE ForecastDelivery WITH
    promise <- [i \in 1..DueCount |-> Product(validTimes[i])],
    settled <- Cardinality(Settled),
    published <- {w \in Settled \X Output : <<w[2], validTimes[w[1]]>> \in DOMAIN sink}

(* PROPERTY: the generation loop delivers what ForecastDelivery promises:  *)
(* each due time gets exactly its product, all of it or nothing, whatever  *)
(* goes wrong at this or at any other time, and the loop gets to the end.  *)
DeliversEveryProduct == Delivery!Spec

=============================================================================
