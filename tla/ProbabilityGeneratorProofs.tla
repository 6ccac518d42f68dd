--------------------- MODULE ProbabilityGeneratorProofs ---------------------
(* Theorems about the generation loop, for every time axis, file,          *)
(* configuration and set of refused writes.                                *)
EXTENDS GeneratorDelivery, OrderStatistics

Thermal == {"Temperature", "TemperatureMin", "TemperatureMax"}

-----------------------------------------------------------------------------
(* What each generate function can store. *)

LEMMA StoredBySymbols ==
    ASSUME NEW t PROVE Stored(generateSymbols_(t)) \subseteq {"YrSymbol", "ProbabilityOfYrSymbol"}
  BY DEF Stored, Reached, generateSymbols_, Do

LEMMA StoredByClouds ==
    ASSUME NEW t
    PROVE Stored(generateClouds_(t)) \subseteq
              {"CloudCover", "CloudCoverPercentiles", "LowCloudCover",
               "MediumCloudCover", "HighCloudCover"}
  BY DEF Stored, Reached, generateClouds_, Do

LEMMA StoredByTemperature ==
    ASSUME NEW t
    PROVE Stored(generateTemperature_(t)) \subseteq
              {"Temperature", "TemperaturePercentiles", "TemperatureProbabilities"}
  BY DEF Stored, Reached, generateTemperature_, Do

LEMMA StoredByTemperatureMin ==
    ASSUME NEW t PROVE Stored(generateTemperatureMin_(t)) \subseteq {"TemperatureMin"}
  BY DEF Stored, Reached, generateTemperatureMin_, Do

LEMMA StoredByTemperatureMax ==
    ASSUME NEW t PROVE Stored(generateTemperatureMax_(t)) \subseteq {"TemperatureMax"}
  BY DEF Stored, Reached, generateTemperatureMax_, Do

LEMMA StoredByTheOthers ==
    ASSUME NEW t
    PROVE /\ Stored(generateWind_(t)) \subseteq {"Wind", "WindPercentiles"}
          /\ Stored(generatePrecipitation_(t)) \subseteq
                 {"PrecipitationOut", "PrecipitationPercentiles"}
          /\ Stored(generateAirPressure_(t)) \subseteq {"AirPressure"}
          /\ Stored(generateHumidity_(t)) \subseteq {"RelativeHumidity"}
          /\ Stored(generateWaves_(t)) \subseteq {"SignificantWaveHeightPercentiles"}
  <1>1. Stored(generateWind_(t)) \subseteq {"Wind", "WindPercentiles"}
    BY DEF Stored, Reached, generateWind_, Do
  <1>2. Stored(generatePrecipitation_(t)) \subseteq
            {"PrecipitationOut", "PrecipitationPercentiles"}
    BY DEF Stored, Reached, generatePrecipitation_, Do
  <1>3. Stored(generateAirPressure_(t)) \subseteq {"AirPressure"}
    BY DEF Stored, Reached, generateAirPressure_, Do
  <1>4. Stored(generateHumidity_(t)) \subseteq {"RelativeHumidity"}
    BY DEF Stored, Reached, generateHumidity_, Do
  <1>5. Stored(generateWaves_(t)) \subseteq {"SignificantWaveHeightPercentiles"}
    BY DEF Stored, Reached, generateWaves_, Do
  <1>6. QED BY <1>1, <1>2, <1>3, <1>4, <1>5

LEMMA OutputMembers ==
    Output = {"CloudCover", "YrSymbol", "ProbabilityOfYrSymbol",
              "Temperature", "TemperatureMin", "TemperatureMax",
              "TemperaturePercentiles", "TemperatureProbabilities",
              "Wind", "WindPercentiles",
              "PrecipitationOut", "PrecipitationPercentiles",
              "AirPressure", "RelativeHumidity",
              "LowCloudCover", "MediumCloudCover", "HighCloudCover",
              "CloudCoverPercentiles", "SignificantWaveHeightPercentiles"}
  BY DEF Output, WeatherData

-----------------------------------------------------------------------------
(* The calls of work() all do one of two things: store and go on, or leave. *)

\* The code at "here" goes on to "next" with some of "outputs" stored.
GoesOn(here, outputs, next) ==
    pc = here /\ \E S \in SUBSET outputs : Continue(S, next)

LEMMA GenerateGoesOnOrLeaves ==
    ASSUME NEW here, NEW next, NEW group, NEW code, NEW outputs,
           Stored(code) \subseteq outputs,
           Generate(here, next, group, code)
    PROVE GoesOn(here, outputs, next) \/ (pc = here /\ Leave("aborted"))
  BY DEF Generate, GoesOn

\* Every call of work() except saveAll_.
LEMMA CallStep ==
    ASSUME SymbolsFail \/ Symbols \/ Clouds \/ Temperature \/ TemperatureMin
           \/ TemperatureMax \/ Wind \/ Precipitation \/ AirPressure
           \/ Humidity \/ Waves
    PROVE \/ pc \in Call \ {"saveAll", "saving"} /\ \E how \in {"noSymbols", "aborted"} : Leave(how)
          \/ GoesOn("symbols", Output \ Thermal, "clouds")
          \/ GoesOn("clouds", Output \ Thermal, "temperature")
          \/ GoesOn("temperature", (Output \ Thermal) \cup {"Temperature"}, "temperatureMin")
          \/ GoesOn("temperatureMin", {"TemperatureMin"}, "temperatureMax")
          \/ GoesOn("temperatureMax", {"TemperatureMax"}, "wind")
          \/ GoesOn("wind", Output \ Thermal, "precipitation")
          \/ GoesOn("precipitation", Output \ Thermal, "pressure")
          \/ GoesOn("pressure", Output \ Thermal, "humidity")
          \/ GoesOn("humidity", Output \ Thermal, "waves")
          \/ GoesOn("waves", Output \ Thermal, "saveAll")
  <1>1. CASE SymbolsFail
    BY <1>1 DEF SymbolsFail, Call
  <1>2. CASE Symbols
    <2>1. Stored(generateSymbols_(Now)) \subseteq Output \ Thermal
      BY StoredBySymbols, OutputMembers DEF Thermal
    <2>2. QED BY <1>2, <2>1 DEF Symbols, GoesOn
  <1>3. CASE Clouds
    <2>1. Stored(generateClouds_(Now)) \subseteq Output \ Thermal
      BY StoredByClouds, OutputMembers DEF Thermal
    <2>2. QED BY <1>3, <2>1, GenerateGoesOnOrLeaves DEF Clouds, Call
  <1>4. CASE Temperature
    <2>1. Stored(generateTemperature_(Now)) \subseteq (Output \ Thermal) \cup {"Temperature"}
      BY StoredByTemperature, OutputMembers DEF Thermal
    <2>2. QED BY <1>4, <2>1, GenerateGoesOnOrLeaves DEF Temperature, Call
  <1>5. CASE TemperatureMin
    BY <1>5, StoredByTemperatureMin, GenerateGoesOnOrLeaves DEF TemperatureMin, Call
  <1>6. CASE TemperatureMax
    BY <1>6, StoredByTemperatureMax, GenerateGoesOnOrLeaves DEF TemperatureMax, Call
  <1>7. CASE Wind
    <2>1. Stored(generateWind_(Now)) \subseteq Output \ Thermal
      BY StoredByTheOthers, OutputMembers DEF Thermal
    <2>2. QED BY <1>7, <2>1, GenerateGoesOnOrLeaves DEF Wind, Call
  <1>8. CASE Precipitation
    <2>1. Stored(generatePrecipitation_(Now)) \subseteq Output \ Thermal
      BY StoredByTheOthers, OutputMembers DEF Thermal
    <2>2. QED BY <1>8, <2>1, GenerateGoesOnOrLeaves DEF Precipitation, Call
  <1>9. CASE AirPressure
    <2>1. Stored(generateAirPressure_(Now)) \subseteq Output \ Thermal
      BY StoredByTheOthers, OutputMembers DEF Thermal
    <2>2. QED BY <1>9, <2>1, GenerateGoesOnOrLeaves DEF AirPressure, Call
  <1>10. CASE Humidity
    <2>1. Stored(generateHumidity_(Now)) \subseteq Output \ Thermal
      BY StoredByTheOthers, OutputMembers DEF Thermal
    <2>2. QED BY <1>10, <2>1, GenerateGoesOnOrLeaves DEF Humidity, Call
  <1>11. CASE Waves
    <2>1. Stored(generateWaves_(Now)) \subseteq Output \ Thermal
      BY StoredByTheOthers, OutputMembers DEF Thermal
    <2>2. QED BY <1>11, <2>1, GenerateGoesOnOrLeaves DEF Waves, Call
  <1>12. QED BY <1>1, <1>2, <1>3, <1>4, <1>5, <1>6, <1>7, <1>8, <1>9, <1>10, <1>11

-----------------------------------------------------------------------------
(* Type correctness. *)

LEMMA ContinueKeepsType ==
    ASSUME TypeOK, pc \in Call \ {"saving"}, NEW S \in SUBSET Output,
           NEW next \in Call \ {"saving"}, Continue(S, next)
    PROVE TypeOK'
  <1>1. PICK v \in Temps : toSave' = Collect(S, v)
    BY DEF Continue
  <1>2. v \in Int
    BY ChoicesAssumption
  <1>3. DOMAIN toSave' = DOMAIN toSave \cup S
    BY <1>1 DEF Collect
  <1>4. \A o \in DOMAIN toSave' : toSave'[o] \in Int
    BY <1>1, <1>2, <1>3 DEF TypeOK, Collect, Stores, MinOf, MaxOf, Field
  <1>5. QED
    BY <1>3, <1>4 DEF TypeOK, Continue, inputs

LEMMA LeaveKeepsType ==
    ASSUME TypeOK, pc \in Call, unsaved = {},
           NEW how \in {"noSymbols", "aborted", "saved"}, Leave(how)
    PROVE TypeOK'
  BY DEF TypeOK, Leave, inputs, Nothing, Call

LEMMA StepKeepsType == TypeOK /\ [Next]_vars => TypeOK'
  <1> SUFFICES ASSUME TypeOK, [Next]_vars PROVE TypeOK'
    OBVIOUS
  <1>1. CASE NoDataFound
    BY <1>1 DEF TypeOK, NoDataFound, inputs, Call
  <1>2. CASE NextTime
    <2>1. step' \in 0..Len(validTimes) /\ step' # 0
      BY <1>2, AxesAssumption DEF TypeOK, NextTime, MoreToDo
    <2>2. pc' \in {"symbols", "waves"} /\ toSave' = Nothing /\ unsaved' = {}
      BY <1>2 DEF NextTime, AtLoopTest, TypeOK
    <2>3. QED BY <1>2, <2>1, <2>2 DEF TypeOK, NextTime, inputs, Nothing, Call
  <1>3. CASE Finish
    BY <1>3 DEF TypeOK, Finish, AtLoopTest, inputs, Call
  <1>4. CASE SymbolsFail \/ Symbols \/ Clouds \/ Temperature \/ TemperatureMin
             \/ TemperatureMax \/ Wind \/ Precipitation \/ AirPressure
             \/ Humidity \/ Waves
    <2>1. CASE /\ pc \in Call \ {"saveAll", "saving"}
               /\ \E how \in {"noSymbols", "aborted"} : Leave(how)
      BY <2>1, LeaveKeepsType DEF TypeOK
    <2>2. \A here, next \in Call \ {"saving"}, outputs \in SUBSET Output :
             GoesOn(here, outputs, next) => TypeOK'
      BY ContinueKeepsType DEF GoesOn
    <2>3. /\ Output \ Thermal \in SUBSET Output
          /\ (Output \ Thermal) \cup {"Temperature"} \in SUBSET Output
          /\ {"TemperatureMin"} \in SUBSET Output
          /\ {"TemperatureMax"} \in SUBSET Output
      BY OutputMembers
    <2>4. {"symbols", "clouds", "temperature", "temperatureMin", "temperatureMax",
           "wind", "precipitation", "pressure", "humidity", "waves", "saveAll"}
             = Call \ {"saving"}
      BY DEF Call
    <2>5. QED BY <1>4, <2>1, <2>2, <2>3, <2>4, CallStep
  <1>5. CASE SaveAll
    BY <1>5 DEF TypeOK, SaveAll, inputs, Call
  <1>6. CASE Write
    <2>1. PICK o \in unsaved :
             /\ unsaved' = unsaved \ {o}
             /\ \/ sink' = sink
                \/ DOMAIN sink' = DOMAIN sink \cup {<<o, Now>>}
      BY <1>6 DEF Write
    <2>2. Now \in Nat
      BY <1>6, AxesAssumption DEF TypeOK, Write, Now, Call
    <2>3. QED BY <1>6, <2>1, <2>2 DEF TypeOK, Write, inputs, Call
  <1>7. CASE Saved
    BY <1>7, LeaveKeepsType DEF Saved, Call
  <1>8. CASE Terminated \/ UNCHANGED vars
    BY <1>8 DEF Terminated, TypeOK, vars
  <1>9. QED
    BY <1>1, <1>2, <1>3, <1>4, <1>5, <1>6, <1>7, <1>8 DEF Next

LEMMA InitType == Init => TypeOK
  BY AxesAssumption, ChoicesAssumption DEF Init, TypeOK, Nothing, Call

(* Every variable keeps its type: in particular the loop never walks off   *)
(* the time axis, and saveAll_ only writes what has been collected.        *)
THEOREM TypeCorrect == Spec => []TypeOK
  <1>1. QED BY InitType, StepKeepsType, PTL DEF Spec

-----------------------------------------------------------------------------
(* The inductive invariant.  What is in the sink came from saveAll_ of a    *)
(* step that is now over or writing, and what saveAll_ writes is consistent *)
(* because the temperature is stored before the minimum and the maximum.    *)

\* Times not yet settled, the current one included, are pending.
PendingAhead ==
    \A i \in DOMAIN validTimes :
        (i > step \/ (i = step /\ pc \in Call)) => outcome[i] = "pending"

\* TAN and TAX are not stored before the temperature had its chance.
TemperatureFirst ==
    /\ pc \in {"symbols", "clouds", "temperature"} => DOMAIN toSave \cap Thermal = {}
    /\ pc = "temperatureMin" =>
           DOMAIN toSave \cap {"TemperatureMin", "TemperatureMax"} = {}
    /\ pc = "temperatureMax" => "TemperatureMax" \notin DOMAIN toSave

\* The collected temperatures are consistent.
CollectedBetween ==
    "Temperature" \in DOMAIN toSave =>
        /\ "TemperatureMin" \in DOMAIN toSave =>
               toSave["TemperatureMin"] <= toSave["Temperature"]
        /\ "TemperatureMax" \in DOMAIN toSave =>
               toSave["Temperature"] <= toSave["TemperatureMax"]

\* What the sink has for the time being saved is what was collected for it.
SinkHasCollected ==
    pc = "saving" =>
        \A o \in Output : <<o, Now>> \in DOMAIN sink =>
            o \in DOMAIN toSave /\ sink[<<o, Now>>] = toSave[o]

IInv ==
    /\ TypeOK
    /\ PendingAhead
    /\ TemperatureFirst
    /\ CollectedBetween
    /\ SinkHasCollected
    /\ NothingFromUnfinishedSteps
    /\ TemperatureBetweenMinAndMax

LEMMA InitIInv == Init => IInv
  <1> SUFFICES ASSUME Init PROVE IInv
    OBVIOUS
  <1>1. TypeOK
    BY InitType
  <1>2. DOMAIN sink = {} /\ DOMAIN toSave = {}
    BY DEF Init, Nothing
  <1>3. QED
    BY <1>1, <1>2 DEF Init, IInv, PendingAhead, TemperatureFirst, CollectedBetween,
       SinkHasCollected, NothingFromUnfinishedSteps, TemperatureBetweenMinAndMax, Call

\* Steps that leave the sink alone keep what is said of the sink.
LEMMA QuietStepKeepsSink ==
    ASSUME IInv, UNCHANGED <<validTimes, sink>>,
           pc # "saving", pc' # "saving",
           \A i \in DOMAIN validTimes : outcome[i] = "saved" => outcome'[i] = "saved"
    PROVE SinkHasCollected' /\ NothingFromUnfinishedSteps' /\ TemperatureBetweenMinAndMax'
  BY DEF IInv, SinkHasCollected, NothingFromUnfinishedSteps, TemperatureBetweenMinAndMax

\* A step that stores other outputs than the temperatures keeps them apart.
LEMMA StoreOthers ==
    ASSUME IInv, NEW S \in SUBSET (Output \ Thermal), NEW next, Continue(S, next)
    PROVE /\ CollectedBetween'
          /\ \A o \in Thermal : o \in DOMAIN toSave' <=> o \in DOMAIN toSave
  <1>1. PICK v \in Temps : toSave' = Collect(S, v)
    BY DEF Continue
  <1>2. /\ \A o \in Thermal : o \in DOMAIN toSave' <=> o \in DOMAIN toSave
        /\ \A o \in Thermal \cap DOMAIN toSave : toSave'[o] = toSave[o]
    BY <1>1 DEF Collect
  <1>3. QED
    BY <1>2 DEF IInv, CollectedBetween, Thermal

LEMMA StoreTemperature ==
    ASSUME IInv, pc = "temperature", NEW next,
           NEW S \in SUBSET ((Output \ Thermal) \cup {"Temperature"}), Continue(S, next)
    PROVE /\ CollectedBetween'
          /\ DOMAIN toSave' \cap {"TemperatureMin", "TemperatureMax"} = {}
  <1>1. PICK v \in Temps : toSave' = Collect(S, v)
    BY DEF Continue
  <1>2. DOMAIN toSave' \cap {"TemperatureMin", "TemperatureMax"} = {}
    BY <1>1 DEF Collect, IInv, TemperatureFirst, Thermal
  <1>3. QED BY <1>2 DEF CollectedBetween

LEMMA StoreTemperatureMin ==
    ASSUME IInv, pc = "temperatureMin", NEW next,
           NEW S \in SUBSET {"TemperatureMin"}, Continue(S, next)
    PROVE /\ CollectedBetween'
          /\ "TemperatureMax" \notin DOMAIN toSave'
  <1>1. PICK v \in Temps : toSave' = Collect(S, v)
    BY DEF Continue
  <1>2. v \in Int
    BY ChoicesAssumption
  <1>3. "TemperatureMax" \notin DOMAIN toSave'
    BY <1>1 DEF Collect, IInv, TemperatureFirst
  <1>4. CASE S = {}
    <2>1. toSave' = [o \in DOMAIN toSave |-> toSave[o]]
      BY <1>1, <1>4 DEF Collect
    <2>2. QED BY <1>3, <2>1 DEF IInv, TemperatureFirst, CollectedBetween
  <1>5. CASE S = {"TemperatureMin"}
    <2>1. "Temperature" \in DOMAIN toSave' =>
             /\ "Temperature" \in DOMAIN toSave
             /\ toSave'["Temperature"] = toSave["Temperature"]
             /\ toSave["Temperature"] \in Int
             /\ toSave'["TemperatureMin"] = MinOf(v, toSave["Temperature"])
      BY <1>1, <1>5 DEF Collect, Stores, IInv, TypeOK
    <2>2. QED BY <1>2, <1>3, <2>1 DEF CollectedBetween, MinOf
  <1>6. QED BY <1>3, <1>4, <1>5

LEMMA StoreTemperatureMax ==
    ASSUME IInv, pc = "temperatureMax", NEW next,
           NEW S \in SUBSET {"TemperatureMax"}, Continue(S, next)
    PROVE CollectedBetween'
  <1>1. PICK v \in Temps : toSave' = Collect(S, v)
    BY DEF Continue
  <1>2. v \in Int
    BY ChoicesAssumption
  <1>3. CASE S = {}
    <2>1. toSave' = [o \in DOMAIN toSave |-> toSave[o]]
      BY <1>1, <1>3 DEF Collect
    <2>2. QED BY <2>1 DEF IInv, CollectedBetween
  <1>4. CASE S = {"TemperatureMax"}
    <2>1. "Temperature" \in DOMAIN toSave' =>
             /\ "Temperature" \in DOMAIN toSave
             /\ toSave'["Temperature"] = toSave["Temperature"]
             /\ toSave["Temperature"] \in Int
             /\ toSave'["TemperatureMax"] = MaxOf(v, toSave["Temperature"])
             /\ "TemperatureMin" \in DOMAIN toSave' =>
                    /\ "TemperatureMin" \in DOMAIN toSave
                    /\ toSave'["TemperatureMin"] = toSave["TemperatureMin"]
      BY <1>1, <1>4 DEF Collect, Stores, IInv, TypeOK
    <2>2. QED BY <1>2, <2>1 DEF IInv, CollectedBetween, MaxOf
  <1>5. QED BY <1>3, <1>4

\* Going on to the next call keeps the invariant.
LEMMA GoingOnKeepsIInv ==
    ASSUME IInv, TypeOK', NEW S, NEW next \in Call \ {"saving"}, Continue(S, next),
           pc \in Call \ {"saving"}, CollectedBetween', TemperatureFirst'
    PROVE IInv'
  <1>1. /\ UNCHANGED <<validTimes, step, sink, outcome>>
        /\ pc' = next
    BY DEF Continue, inputs
  <1>2. PendingAhead'
    BY <1>1 DEF IInv, PendingAhead
  <1>3. SinkHasCollected' /\ NothingFromUnfinishedSteps' /\ TemperatureBetweenMinAndMax'
    BY <1>1, QuietStepKeepsSink
  <1>4. QED BY <1>2, <1>3 DEF IInv

\* Leaving work() keeps the invariant.
LEMMA LeavingKeepsIInv ==
    ASSUME IInv, TypeOK', pc \in Call,
           NEW how \in {"noSymbols", "aborted", "saved"}, Leave(how),
           pc = "saving" => how = "saved"
    PROVE IInv'
  <1>1. /\ UNCHANGED <<validTimes, step, sink>>
        /\ pc' = "next" /\ toSave' = Nothing
        /\ outcome' = [outcome EXCEPT ![step] = how]
    BY DEF Leave, inputs
  <1>2. step \in DOMAIN validTimes /\ outcome[step] = "pending"
    BY AxesAssumption DEF IInv, TypeOK, PendingAhead
  <1>3. PendingAhead'
    BY <1>1, <1>2 DEF IInv, PendingAhead, TypeOK, Call
  <1>4. TemperatureFirst' /\ CollectedBetween' /\ SinkHasCollected'
    BY <1>1 DEF TemperatureFirst, CollectedBetween, SinkHasCollected, Nothing
  <1>5. NothingFromUnfinishedSteps'
    <2> SUFFICES ASSUME NEW i \in DOMAIN validTimes, outcome'[i] # "saved"
                 PROVE \A o \in Output : <<o, validTimes[i]>> \notin DOMAIN sink
      BY <1>1 DEF NothingFromUnfinishedSteps
    <2>1. outcome[i] # "saved"
      BY <1>1, <1>2 DEF IInv, TypeOK
    <2>2. ~(i = step /\ pc = "saving")
      BY <1>1, <1>2 DEF IInv, TypeOK
    <2>3. QED BY <2>1, <2>2 DEF IInv, NothingFromUnfinishedSteps
  <1>6. TemperatureBetweenMinAndMax'
    BY <1>1 DEF IInv, TemperatureBetweenMinAndMax
  <1>7. QED BY <1>3, <1>4, <1>5, <1>6 DEF IInv

\* saveAll_ writes one entry: it belongs to the current time and to no other.
LEMMA WritingKeepsIInv ==
    ASSUME IInv, TypeOK', Write
    PROVE IInv'
  <1>1. /\ UNCHANGED <<validTimes, step, toSave, outcome, pc>>
        /\ pc = "saving"
    BY DEF Write, inputs
  <1>2. step \in DOMAIN validTimes
    BY <1>1, AxesAssumption DEF IInv, TypeOK, Call
  <1>3. PICK o \in unsaved :
           sink' = IF <<o, Now>> \in rejected THEN sink
                   ELSE [k \in DOMAIN sink \cup {<<o, Now>>} |->
                           IF k = <<o, Now>> THEN toSave[o] ELSE sink[k]]
    BY DEF Write
  <1>4. o \in DOMAIN toSave /\ o \in Output
    BY DEF IInv, TypeOK
  <1>5. \A p, t : (t # Now \/ p # o) =>
            /\ <<p, t>> \in DOMAIN sink' <=> <<p, t>> \in DOMAIN sink
            /\ <<p, t>> \in DOMAIN sink => sink'[<<p, t>>] = sink[<<p, t>>]
    BY <1>3
  <1>6. <<o, Now>> \in DOMAIN sink' => <<o, Now>> \in rejected \/ sink'[<<o, Now>>] = toSave[o]
    BY <1>3
  <1>7. PendingAhead' /\ TemperatureFirst' /\ CollectedBetween'
    BY <1>1 DEF IInv, PendingAhead, TemperatureFirst, CollectedBetween
  <1>8. Now' = Now
    BY <1>1 DEF Now
  <1>9. \A p \in Output : <<p, Now>> \in DOMAIN sink' =>
            p \in DOMAIN toSave /\ sink'[<<p, Now>>] = toSave[p]
    <2> SUFFICES ASSUME NEW p \in Output, <<p, Now>> \in DOMAIN sink'
                 PROVE p \in DOMAIN toSave /\ sink'[<<p, Now>>] = toSave[p]
      OBVIOUS
    <2>1. CASE p # o
      BY <1>1, <1>5, <2>1 DEF IInv, SinkHasCollected
    <2>2. CASE p = o /\ <<o, Now>> \notin rejected
      BY <1>3, <1>4, <2>2
    <2>3. CASE p = o /\ <<o, Now>> \in rejected
      BY <1>1, <1>3, <2>3 DEF IInv, SinkHasCollected
    <2>4. QED BY <2>1, <2>2, <2>3
  <1>10. SinkHasCollected'
    BY <1>1, <1>8, <1>9 DEF SinkHasCollected
  <1>11. NothingFromUnfinishedSteps'
    <2> SUFFICES ASSUME NEW i \in DOMAIN validTimes, outcome[i] # "saved",
                        ~(i = step /\ pc = "saving" /\ outcome[i] = "pending"),
                        NEW p \in Output
                 PROVE <<p, validTimes[i]>> \notin DOMAIN sink'
      BY <1>1 DEF NothingFromUnfinishedSteps
    <2>1. i # step
      BY <1>1, <1>2 DEF IInv, PendingAhead, Call
    <2>2. validTimes[i] # Now
      BY <1>2, <2>1, AxesAssumption DEF IInv, TypeOK, Now
    <2>3. <<p, validTimes[i]>> \notin DOMAIN sink
      BY DEF IInv, NothingFromUnfinishedSteps
    <2>4. QED BY <1>5, <2>2, <2>3
  <1>12. TemperatureBetweenMinAndMax'
    <2> SUFFICES ASSUME NEW t \in Range(validTimes), <<"Temperature", t>> \in DOMAIN sink'
                 PROVE  /\ <<"TemperatureMin", t>> \in DOMAIN sink' =>
                               sink'[<<"TemperatureMin", t>>] <= sink'[<<"Temperature", t>>]
                        /\ <<"TemperatureMax", t>> \in DOMAIN sink' =>
                               sink'[<<"Temperature", t>>] <= sink'[<<"TemperatureMax", t>>]
      BY <1>1 DEF TemperatureBetweenMinAndMax
    <2>1. CASE t # Now
      BY <1>5, <2>1 DEF IInv, TemperatureBetweenMinAndMax
    <2>2. CASE t = Now
      BY <1>9, <2>2, OutputMembers DEF IInv, CollectedBetween
    <2>3. QED BY <2>1, <2>2
  <1>13. QED BY <1>7, <1>10, <1>11, <1>12 DEF IInv

LEMMA StepKeepsIInv == IInv /\ [Next]_vars => IInv'
  <1> SUFFICES ASSUME IInv, [Next]_vars PROVE IInv'
    OBVIOUS
  <1>0. TypeOK'
    BY StepKeepsType DEF IInv
  <1>1. CASE NoDataFound \/ Finish
    <2>1. /\ UNCHANGED <<validTimes, step, sink, toSave, outcome>>
          /\ pc \in {"start", "next"} /\ pc' \in {"done", "failed"}
      BY <1>1 DEF NoDataFound, Finish, AtLoopTest, inputs
    <2>2. PendingAhead' /\ TemperatureFirst' /\ CollectedBetween'
      BY <2>1 DEF IInv, PendingAhead, TemperatureFirst, CollectedBetween, Call
    <2>3. QED BY <1>0, <2>1, <2>2, QuietStepKeepsSink DEF IInv
  <1>2. CASE NextTime
    <2>1. /\ UNCHANGED <<validTimes, sink, outcome>>
          /\ pc \in {"start", "next"} /\ pc' \in {"symbols", "waves"}
          /\ step' = step + 1 /\ toSave' = Nothing
      BY <1>2 DEF NextTime, AtLoopTest, inputs
    <2>2. PendingAhead'
      BY <2>1, AxesAssumption DEF IInv, PendingAhead, TypeOK
    <2>3. TemperatureFirst' /\ CollectedBetween'
      BY <2>1 DEF TemperatureFirst, CollectedBetween, Nothing
    <2>4. QED BY <1>0, <2>1, <2>2, <2>3, QuietStepKeepsSink DEF IInv
  <1>3. CASE SymbolsFail \/ Symbols \/ Clouds \/ Temperature \/ TemperatureMin
             \/ TemperatureMax \/ Wind \/ Precipitation \/ AirPressure
             \/ Humidity \/ Waves
    <2>1. CASE /\ pc \in Call \ {"saveAll", "saving"}
               /\ \E how \in {"noSymbols", "aborted"} : Leave(how)
      BY <1>0, <2>1, LeavingKeepsIInv
    <2>2. ASSUME NEW here \in Call \ {"temperature", "temperatureMin", "temperatureMax", "saving"},
                 NEW next \in Call \ {"symbols", "temperatureMin", "temperatureMax", "saving"},
                 next = "temperature" => here = "clouds",
                 next = "clouds" => here = "symbols",
                 GoesOn(here, Output \ Thermal, next)
          PROVE IInv'
      <3>1. PICK S \in SUBSET (Output \ Thermal) : pc = here /\ Continue(S, next)
        BY <2>2 DEF GoesOn
      <3>2. pc' = next
        BY <3>1 DEF Continue
      <3>3. CollectedBetween' /\ TemperatureFirst'
        BY <2>2, <3>1, <3>2, StoreOthers DEF IInv, TemperatureFirst, Thermal
      <3>4. QED BY <1>0, <2>2, <3>1, <3>3, GoingOnKeepsIInv
    <2>3. CASE GoesOn("temperature", (Output \ Thermal) \cup {"Temperature"}, "temperatureMin")
      <3>1. PICK S \in SUBSET ((Output \ Thermal) \cup {"Temperature"}) :
               pc = "temperature" /\ Continue(S, "temperatureMin")
        BY <2>3 DEF GoesOn
      <3>2. CollectedBetween' /\ TemperatureFirst'
        BY <3>1, StoreTemperature DEF Continue, TemperatureFirst
      <3>3. QED BY <1>0, <3>1, <3>2, GoingOnKeepsIInv DEF Call
    <2>4. CASE GoesOn("temperatureMin", {"TemperatureMin"}, "temperatureMax")
      <3>1. PICK S \in SUBSET {"TemperatureMin"} :
               pc = "temperatureMin" /\ Continue(S, "temperatureMax")
        BY <2>4 DEF GoesOn
      <3>2. CollectedBetween' /\ TemperatureFirst'
        BY <3>1, StoreTemperatureMin DEF Continue, TemperatureFirst
      <3>3. QED BY <1>0, <3>1, <3>2, GoingOnKeepsIInv DEF Call
    <2>5. CASE GoesOn("temperatureMax", {"TemperatureMax"}, "wind")
      <3>1. PICK S \in SUBSET {"TemperatureMax"} :
               pc = "temperatureMax" /\ Continue(S, "wind")
        BY <2>5 DEF GoesOn
      <3>2. CollectedBetween' /\ TemperatureFirst'
        BY <3>1, StoreTemperatureMax DEF Continue, TemperatureFirst
      <3>3. QED BY <1>0, <3>1, <3>2, GoingOnKeepsIInv DEF Call
    <2>6. QED BY <1>3, <2>1, <2>2, <2>3, <2>4, <2>5, CallStep DEF Call
  <1>4. CASE SaveAll
    <2>1. /\ UNCHANGED <<validTimes, step, sink, toSave, outcome>>
          /\ pc = "saveAll" /\ pc' = "saving"
      BY <1>4 DEF SaveAll, inputs
    <2>2. PendingAhead' /\ TemperatureFirst' /\ CollectedBetween'
      BY <2>1 DEF IInv, PendingAhead, TemperatureFirst, CollectedBetween, Call
    <2>3. step \in DOMAIN validTimes /\ outcome[step] = "pending"
      BY <2>1, AxesAssumption DEF IInv, TypeOK, PendingAhead, Call
    <2>4. \A o \in Output : <<o, Now>> \notin DOMAIN sink
      BY <2>1, <2>3 DEF IInv, NothingFromUnfinishedSteps, Now
    <2>5. SinkHasCollected'
      BY <2>1, <2>4 DEF SinkHasCollected, Now
    <2>6. NothingFromUnfinishedSteps' /\ TemperatureBetweenMinAndMax'
      BY <2>1 DEF IInv, NothingFromUnfinishedSteps, TemperatureBetweenMinAndMax
    <2>7. QED BY <1>0, <2>2, <2>5, <2>6 DEF IInv
  <1>5. CASE Write
    BY <1>0, <1>5, WritingKeepsIInv
  <1>6. CASE Saved
    BY <1>0, <1>6, LeavingKeepsIInv DEF Saved, Call
  <1>7. CASE Terminated \/ UNCHANGED vars
    BY <1>7 DEF Terminated, vars, IInv, TypeOK, PendingAhead, TemperatureFirst,
       CollectedBetween, SinkHasCollected, NothingFromUnfinishedSteps,
       TemperatureBetweenMinAndMax, Now
  <1>8. QED
    BY <1>1, <1>2, <1>3, <1>4, <1>5, <1>6, <1>7 DEF Next

LEMMA InductiveInvariant == Spec => []IInv
  <1>1. QED BY InitIInv, StepKeepsIInv, PTL DEF Spec

(* A time step is all or nothing: whatever input is missing, malformed or  *)
(* too small, a step that is not saved leaves no field in the sink.        *)
THEOREM AllOrNothing == Spec => []NothingFromUnfinishedSteps
  <1>1. IInv => NothingFromUnfinishedSteps
    BY DEF IInv
  <1>2. QED BY <1>1, InductiveInvariant, PTL

(* The temperature published for a time never lies outside the minimum and *)
(* the maximum published for it.                                           *)
THEOREM TemperaturesAreConsistent == Spec => []TemperatureBetweenMinAndMax
  <1>1. IInv => TemperatureBetweenMinAndMax
    BY DEF IInv
  <1>2. QED BY <1>1, InductiveInvariant, PTL

-----------------------------------------------------------------------------
(* What the statements of a call come to: the first that fails ends it.    *)

LEMMA FirstFailure ==
    ASSUME NEW code, NEW n \in Nat, DOMAIN code = 1..n, Failing(code) # {}
    PROVE  \E k \in Failing(code) :
              /\ \A j \in Failing(code) : k <= j
              /\ Ending(code) = code[k].status
              /\ Reached(code) = 1..k-1
<1>1. Failing(code) \subseteq Nat
  BY DEF Failing
<1>2. PICK k \in Failing(code) : \A j \in Failing(code) : k <= j
  BY <1>1, LeastNatural
<1>3. \A i \in Failing(code) : (\A j \in Failing(code) : i <= j) => i = k
  BY <1>1, <1>2
<1>4. Ending(code) = code[k].status
  BY <1>2, <1>3 DEF Ending
<1>5. Reached(code) = 1..k-1
  BY <1>1, <1>2 DEF Reached, Failing
<1> QED
  BY <1>2, <1>4, <1>5

\* The code that begins with the statement d and goes on with rest.
Follows(code, d, rest, n) ==
    /\ n \in Nat /\ DOMAIN rest = 1..n /\ DOMAIN code = 1..n+1
    /\ code[1] = d
    /\ \A i \in 1..n : code[i + 1] = rest[i]

LEMMA NothingToDo == Ending(<< >>) = "ok" /\ Stored(<< >>) = {}
<1>1. DOMAIN << >> = {}
  OBVIOUS
<1> QED
  BY <1>1 DEF Ending, Stored, Failing, Reached

\* What code comes to is what its first statement d and then rest come to.
Unfolds(code, d, rest) ==
    /\ Ending(code) = IF d.status = "ok" THEN Ending(rest) ELSE d.status
    /\ Stored(code) = IF d.status = "ok" THEN d.writes \cup Stored(rest) ELSE {}

LEMMA FirstStatement ==
    ASSUME NEW code, NEW d, NEW rest, NEW n, Follows(code, d, rest, n)
    PROVE  Unfolds(code, d, rest)
<1> USE DEF Follows, Unfolds
<1>1. CASE d.status # "ok"
  <2>1. 1 \in Failing(code)
    BY <1>1 DEF Failing
  <2>2. PICK k \in Failing(code) :
            /\ \A j \in Failing(code) : k <= j
            /\ Ending(code) = code[k].status
            /\ Reached(code) = 1..k-1
    BY <2>1, FirstFailure
  <2>3. k = 1
    BY <2>1, <2>2 DEF Failing
  <2> QED
    BY <1>1, <2>2, <2>3 DEF Stored
<1>2. CASE d.status = "ok"
  <2>1. \A i \in 1..n : i + 1 \in Failing(code) <=> i \in Failing(rest)
    BY DEF Failing
  <2>2. 1 \notin Failing(code)
    BY <1>2 DEF Failing
  <2>3. \A j \in Failing(code) : j - 1 \in Failing(rest) /\ j - 1 \in 1..n /\ j = (j - 1) + 1
    BY <2>2 DEF Failing
  <2>4. \A j \in Failing(rest) : j + 1 \in Failing(code) /\ j \in 1..n
    BY <2>1 DEF Failing
  <2>5. Ending(code) = Ending(rest)
    <3>1. CASE Failing(rest) = {}
      BY <2>3, <3>1 DEF Ending
    <3>2. CASE Failing(rest) # {}
      <4>1. PICK k \in Failing(rest) :
                (\A j \in Failing(rest) : k <= j) /\ Ending(rest) = rest[k].status
        BY <3>2, FirstFailure
      <4>2. PICK l \in Failing(code) :
                (\A j \in Failing(code) : l <= j) /\ Ending(code) = code[l].status
        BY <2>4, <4>1, FirstFailure
      <4>3. l = k + 1
        BY <2>3, <2>4, <4>1, <4>2
      <4> QED
        BY <2>4, <4>1, <4>2, <4>3
    <3> QED
      BY <3>1, <3>2
  <2>6. \A i \in 1..n : i + 1 \in Reached(code) <=> i \in Reached(rest)
    BY <2>3, <2>4 DEF Reached
  <2>7. 1 \in Reached(code)
    BY <2>3 DEF Reached
  <2>8. Reached(code) \subseteq 1..n+1 /\ Reached(rest) \subseteq 1..n
    BY DEF Reached
  <2>9. Stored(code) = d.writes \cup Stored(rest)
    <3>1. ASSUME NEW o \in Stored(code) PROVE o \in d.writes \cup Stored(rest)
      <4>1. PICK i \in Reached(code) : o \in code[i].writes
        BY <3>1 DEF Stored
      <4>2. CASE i = 1
        BY <4>1, <4>2
      <4>3. CASE i # 1
        <5>1. i - 1 \in 1..n /\ i = (i - 1) + 1
          BY <2>8, <4>1, <4>3
        <5>2. i - 1 \in Reached(rest) /\ o \in rest[i - 1].writes
          BY <2>6, <4>1, <5>1
        <5> QED
          BY <5>2 DEF Stored
      <4> QED
        BY <4>2, <4>3
    <3>2. d.writes \subseteq Stored(code)
      BY <2>7 DEF Stored
    <3>3. ASSUME NEW o \in Stored(rest) PROVE o \in Stored(code)
      <4>1. PICK i \in Reached(rest) : o \in rest[i].writes
        BY <3>3 DEF Stored
      <4>2. i \in 1..n
        BY <2>8
      <4>3. i + 1 \in Reached(code) /\ o \in code[i + 1].writes
        BY <2>6, <4>1, <4>2
      <4> QED
        BY <4>3 DEF Stored
    <3> QED
      BY <3>1, <3>2, <3>3
  <2> QED
    BY <1>2, <2>5, <2>9
<1> QED
  BY <1>1, <1>2

LEMMA OneAfterTheOther ==
    ASSUME NEW a, NEW b, NEW c, NEW d, NEW e, NEW f, NEW g, NEW h
    PROVE  /\ Unfolds(<<a, b, c, d, e, f, g, h>>, a, <<b, c, d, e, f, g, h>>)
           /\ Unfolds(<<b, c, d, e, f, g, h>>, b, <<c, d, e, f, g, h>>)
           /\ Unfolds(<<c, d, e, f, g, h>>, c, <<d, e, f, g, h>>)
           /\ Unfolds(<<d, e, f, g, h>>, d, <<e, f, g, h>>)
           /\ Unfolds(<<e, f, g, h>>, e, <<f, g, h>>)
           /\ Unfolds(<<f, g, h>>, f, <<g, h>>)
           /\ Unfolds(<<g, h>>, g, <<h>>)
           /\ Unfolds(<<h>>, h, << >>)
<1>1. Unfolds(<<a, b, c, d, e, f, g, h>>, a, <<b, c, d, e, f, g, h>>)
  <2>1. Follows(<<a, b, c, d, e, f, g, h>>, a, <<b, c, d, e, f, g, h>>, 7)
    BY DEF Follows
  <2> QED
    BY <2>1, FirstStatement
<1>2. Unfolds(<<b, c, d, e, f, g, h>>, b, <<c, d, e, f, g, h>>)
  <2>1. Follows(<<b, c, d, e, f, g, h>>, b, <<c, d, e, f, g, h>>, 6)
    BY DEF Follows
  <2> QED
    BY <2>1, FirstStatement
<1>3. Unfolds(<<c, d, e, f, g, h>>, c, <<d, e, f, g, h>>)
  <2>1. Follows(<<c, d, e, f, g, h>>, c, <<d, e, f, g, h>>, 5)
    BY DEF Follows
  <2> QED
    BY <2>1, FirstStatement
<1>4. Unfolds(<<d, e, f, g, h>>, d, <<e, f, g, h>>)
  <2>1. Follows(<<d, e, f, g, h>>, d, <<e, f, g, h>>, 4)
    BY DEF Follows
  <2> QED
    BY <2>1, FirstStatement
<1>5. Unfolds(<<e, f, g, h>>, e, <<f, g, h>>)
  <2>1. Follows(<<e, f, g, h>>, e, <<f, g, h>>, 3)
    BY DEF Follows
  <2> QED
    BY <2>1, FirstStatement
<1>6. Unfolds(<<f, g, h>>, f, <<g, h>>)
  <2>1. Follows(<<f, g, h>>, f, <<g, h>>, 2)
    BY DEF Follows
  <2> QED
    BY <2>1, FirstStatement
<1>7. Unfolds(<<g, h>>, g, <<h>>)
  <2>1. Follows(<<g, h>>, g, <<h>>, 1)
    BY DEF Follows
  <2> QED
    BY <2>1, FirstStatement
<1>8. Unfolds(<<h>>, h, << >>)
  <2>1. Follows(<<h>>, h, << >>, 0)
    BY DEF Follows
  <2> QED
    BY <2>1, FirstStatement
<1> QED
  BY <1>1, <1>2, <1>3, <1>4, <1>5, <1>6, <1>7, <1>8

-----------------------------------------------------------------------------
(* What the reader and the selections answer. *)

LEMMA Reading ==
    ASSUME file \in [Input -> Entry], NEW p \in Input, NEW t
    PROVE  /\ getData_(p, t) = "ok" <=> Readable(p, t)
           /\ getData_(p, t) = "DataNotAvailable" <=> ~Present(p)
<1>1. file[p].kind \in {"absent", "noEnsemble", "ensemble"} /\ file[p].members \in Nat
  BY DEF Entry
<1> QED
  BY <1>1 DEF getData_, Readable, Present

LEMMA Selecting ==
    ASSUME file \in [Input -> Entry], NEW p \in Input, NEW t
    PROVE  /\ Simple(p, t) = "ok" <=>
                  Readable(p, t) /\ file[p].members = file["CloudCover"].members
           /\ Simple(p, t) = "DataNotAvailable" <=> ~Present(p)
<1>1. Readable(p, t) => Present(p)
  BY DEF Readable, Present
<1> QED
  BY <1>1, Reading DEF Simple, Probable

LEMMA Cutting ==
    ASSUME file \in [Input -> Entry], NEW p \in Input
    PROVE  /\ PercentilesOf(p) = "ok" <=> ~(file[p].members < 10)
           /\ PercentilesOf(p) # "DataNotAvailable"
<1>1. file[p].members \in Nat
  BY DEF Entry
<1> QED
  BY <1>1 DEF PercentilesOf

-----------------------------------------------------------------------------
(* Each call against what it should give: it fails when one of its inputs  *)
(* spoils the time, and otherwise stores what is planned of its outputs.   *)

\* o belongs to the product of every time that is not lost, refused writes apart.
Planned(o) ==
    /\ Made(Recipe(o)[1])
    /\ IF Recipe(o)[2] THEN Percentiles ELSE Simplified
    /\ \A p \in Recipe(o)[3] : Present(p)

CloudInputs == {"CloudCover", "LowCloudCover", "MediumCloudCover", "HighCloudCover"}
CloudOutputs == CloudInputs \cup {"CloudCoverPercentiles"}

LEMMA Flags == Simplified \in BOOLEAN /\ Percentiles \in BOOLEAN
  BY DEF Simplified, Percentiles

LEMMA CloudsGive ==
    ASSUME file \in [Input -> Entry], NEW t, Made("clouds"), Present("CloudCover")
    PROVE  /\ Handled(generateClouds_(t)) <=> \A p \in CloudInputs : ~Spoils(p, t)
           /\ Handled(generateClouds_(t)) =>
                 Stored(generateClouds_(t)) = {o \in CloudOutputs : Planned(o)}
<1> DEFINE g == getData_("CloudCover", t)
           s == Probable("CloudCover")
           c == PercentilesOf("CloudCover")
           l == Simple("LowCloudCover", t)
           m == Simple("MediumCloudCover", t)
           h == Simple("HighCloudCover", t)
           d1 == Do(TRUE, g, {})
           d2 == Do(Simplified, s, {"CloudCover"})
           d3 == Do(Percentiles, c, {"CloudCoverPercentiles"})
           d4 == Do(Simplified, l, {"LowCloudCover"})
           d5 == Do(Simplified, m, {"MediumCloudCover"})
           d6 == Do(Simplified, h, {"HighCloudCover"})
<1>1. generateClouds_(t) = <<d1, d2, d3, d4, d5, d6>>
  BY DEF generateClouds_
<1>2. /\ d1.status = g
      /\ d1.writes = {}
      /\ d2.status = IF Simplified THEN s ELSE "ok"
      /\ d2.writes = IF Simplified THEN {"CloudCover"} ELSE {}
      /\ d3.status = IF Percentiles THEN c ELSE "ok"
      /\ d3.writes = IF Percentiles THEN {"CloudCoverPercentiles"} ELSE {}
      /\ d4.status = IF Simplified THEN l ELSE "ok"
      /\ d4.writes = IF Simplified THEN {"LowCloudCover"} ELSE {}
      /\ d5.status = IF Simplified THEN m ELSE "ok"
      /\ d5.writes = IF Simplified THEN {"MediumCloudCover"} ELSE {}
      /\ d6.status = IF Simplified THEN h ELSE "ok"
      /\ d6.writes = IF Simplified THEN {"HighCloudCover"} ELSE {}
  BY DEF Do
<1> HIDE DEF g, s, c, l, m, h, d1, d2, d3, d4, d5, d6
<1>3. /\ Unfolds(<<d1, d2, d3, d4, d5, d6>>, d1, <<d2, d3, d4, d5, d6>>)
      /\ Unfolds(<<d2, d3, d4, d5, d6>>, d2, <<d3, d4, d5, d6>>)
      /\ Unfolds(<<d3, d4, d5, d6>>, d3, <<d4, d5, d6>>)
      /\ Unfolds(<<d4, d5, d6>>, d4, <<d5, d6>>)
      /\ Unfolds(<<d5, d6>>, d5, <<d6>>)
      /\ Unfolds(<<d6>>, d6, << >>)
  BY OneAfterTheOther
<1>4. s = "ok"
  BY DEF Probable, s
<1>5. /\ g = "ok" <=> Readable("CloudCover", t)
      /\ g # "DataNotAvailable"
      /\ c = "ok" <=> ~(file["CloudCover"].members < 10)
      /\ c # "DataNotAvailable"
  BY Reading, Cutting DEF g, c, Input
<1>6. Handled(generateClouds_(t)) <=>
         /\ g = "ok"
         /\ Percentiles => c = "ok"
         /\ Simplified => l \in {"ok", "DataNotAvailable"}
         /\ Simplified /\ l = "ok" => m \in {"ok", "DataNotAvailable"}
         /\ Simplified /\ l = "ok" /\ m = "ok" => h \in {"ok", "DataNotAvailable"}
  BY <1>1, <1>2, <1>3, <1>4, <1>5, NothingToDo DEF Handled, Unfolds
<1>7. ASSUME Handled(generateClouds_(t)), NEW o
      PROVE  o \in Stored(generateClouds_(t)) <=>
                \/ o = "CloudCover" /\ Simplified
                \/ o = "CloudCoverPercentiles" /\ Percentiles
                \/ o = "LowCloudCover" /\ Simplified /\ l = "ok"
                \/ o = "MediumCloudCover" /\ Simplified /\ l = "ok" /\ m = "ok"
                \/ o = "HighCloudCover" /\ Simplified /\ l = "ok" /\ m = "ok" /\ h = "ok"
  BY <1>1, <1>2, <1>3, <1>4, <1>6, <1>7, NothingToDo DEF Unfolds
<1>8. /\ l = "ok" <=> /\ Readable("LowCloudCover", t)
                      /\ file["LowCloudCover"].members = file["CloudCover"].members
      /\ l = "DataNotAvailable" <=> ~Present("LowCloudCover")
      /\ m = "ok" <=> /\ Readable("MediumCloudCover", t)
                      /\ file["MediumCloudCover"].members = file["CloudCover"].members
      /\ m = "DataNotAvailable" <=> ~Present("MediumCloudCover")
      /\ h = "ok" <=> /\ Readable("HighCloudCover", t)
                      /\ file["HighCloudCover"].members = file["CloudCover"].members
      /\ h = "DataNotAvailable" <=> ~Present("HighCloudCover")
  BY Selecting DEF l, m, h, Input
<1>9. /\ Spoils("CloudCover", t) <=>
             \/ ~Readable("CloudCover", t)
             \/ Percentiles /\ file["CloudCover"].members < 10
      /\ Spoils("LowCloudCover", t) <=>
             /\ Simplified /\ Present("LowCloudCover")
             /\ \/ ~Readable("LowCloudCover", t)
                \/ file["LowCloudCover"].members # file["CloudCover"].members
      /\ Spoils("MediumCloudCover", t) <=>
             /\ Simplified /\ Present("LowCloudCover") /\ Present("MediumCloudCover")
             /\ \/ ~Readable("MediumCloudCover", t)
                \/ file["MediumCloudCover"].members # file["CloudCover"].members
      /\ Spoils("HighCloudCover", t) <=>
             /\ Simplified /\ Present("LowCloudCover") /\ Present("MediumCloudCover")
             /\ Present("HighCloudCover")
             /\ \/ ~Readable("HighCloudCover", t)
                \/ file["HighCloudCover"].members # file["CloudCover"].members
  BY DEF Spoils, Read, InputGroup, SelectedOnly, Forerunners, UsedForSelection,
     UsedForPercentiles, Base
<1>10. Handled(generateClouds_(t)) <=> \A p \in CloudInputs : ~Spoils(p, t)
  BY <1>5, <1>6, <1>8, <1>9 DEF CloudInputs
<1>11. /\ Planned("CloudCover") <=> Simplified
       /\ Planned("CloudCoverPercentiles") <=> Percentiles
       /\ Planned("LowCloudCover") <=> Simplified /\ Present("LowCloudCover")
       /\ Planned("MediumCloudCover") <=>
              Simplified /\ Present("LowCloudCover") /\ Present("MediumCloudCover")
       /\ Planned("HighCloudCover") <=>
              /\ Simplified
              /\ Present("LowCloudCover") /\ Present("MediumCloudCover")
               /\ Present("HighCloudCover")
  BY DEF Planned, Recipe, Forerunners
<1>12. ASSUME Handled(generateClouds_(t))
       PROVE  Stored(generateClouds_(t)) = {o \in CloudOutputs : Planned(o)}
  BY <1>6, <1>7, <1>8, <1>11, <1>12, Reading DEF CloudOutputs, CloudInputs
<1> QED
  BY <1>10, <1>12

TemperatureOutputs == {"Temperature", "TemperaturePercentiles", "TemperatureProbabilities"}

LEMMA TemperatureGives ==
    ASSUME file \in [Input -> Entry], NEW t, Made("temperature")
    PROVE  /\ Handled(generateTemperature_(t)) <=> \A p \in {"Temperature"} : ~Spoils(p, t)
           /\ Handled(generateTemperature_(t)) =>
                 Stored(generateTemperature_(t)) = {o \in TemperatureOutputs : Planned(o)}
<1> DEFINE s == Simple("Temperature", t)
           c == PercentilesOf("Temperature")
           d1 == Do(TRUE, s, {})
           d2 == Do(Simplified, "ok", {"Temperature"})
           d3 == Do(Percentiles, c, {"TemperaturePercentiles"})
           d4 == Do(Simplified, "ok", {"TemperatureProbabilities"})
<1>1. generateTemperature_(t) = <<d1, d2, d3, d4>>
  BY DEF generateTemperature_
<1>2. /\ d1.status = s
      /\ d1.writes = {}
      /\ d2.status = IF Simplified THEN "ok" ELSE "ok"
      /\ d2.writes = IF Simplified THEN {"Temperature"} ELSE {}
      /\ d3.status = IF Percentiles THEN c ELSE "ok"
      /\ d3.writes = IF Percentiles THEN {"TemperaturePercentiles"} ELSE {}
      /\ d4.status = IF Simplified THEN "ok" ELSE "ok"
      /\ d4.writes = IF Simplified THEN {"TemperatureProbabilities"} ELSE {}
  BY DEF Do
<1> HIDE DEF s, c, d1, d2, d3, d4
<1>3. /\ Unfolds(<<d1, d2, d3, d4>>, d1, <<d2, d3, d4>>)
      /\ Unfolds(<<d2, d3, d4>>, d2, <<d3, d4>>)
      /\ Unfolds(<<d3, d4>>, d3, <<d4>>)
      /\ Unfolds(<<d4>>, d4, << >>)
  BY OneAfterTheOther
<1>4. Handled(generateTemperature_(t)) <=>
         s = "DataNotAvailable" \/ (s = "ok" /\ (Percentiles => c = "ok"))
  <2>1. c # "DataNotAvailable"
    BY Cutting DEF c, Input
  <2> QED
    BY <1>1, <1>2, <1>3, <2>1, NothingToDo DEF Handled, Unfolds
<1>5. ASSUME Handled(generateTemperature_(t)), NEW o
      PROVE  o \in Stored(generateTemperature_(t)) <=>
                /\ s = "ok"
                /\ \/ o = "Temperature" /\ Simplified
                   \/ o = "TemperaturePercentiles" /\ Percentiles
                   \/ o = "TemperatureProbabilities" /\ Simplified
  BY <1>1, <1>2, <1>3, <1>4, <1>5, NothingToDo DEF Unfolds
<1>6. /\ s = "ok" <=> /\ Readable("Temperature", t)
                      /\ file["Temperature"].members = file["CloudCover"].members
      /\ s = "DataNotAvailable" <=> ~Present("Temperature")
      /\ c = "ok" <=> ~(file["Temperature"].members < 10)
  BY Selecting, Cutting DEF s, c, Input
<1>7. Spoils("Temperature", t) <=>
         /\ Present("Temperature")
         /\ \/ ~Readable("Temperature", t)
            \/ file["Temperature"].members # file["CloudCover"].members
            \/ Percentiles /\ file["Temperature"].members < 10
  BY DEF Spoils, Read, InputGroup, SelectedOnly, Forerunners, UsedForSelection,
     UsedForPercentiles, Base
<1>8. /\ Planned("Temperature") <=> Simplified /\ Present("Temperature")
      /\ Planned("TemperaturePercentiles") <=> Percentiles /\ Present("Temperature")
      /\ Planned("TemperatureProbabilities") <=> Simplified /\ Present("Temperature")
  BY DEF Planned, Recipe
<1>9. Handled(generateTemperature_(t)) <=> \A p \in {"Temperature"} : ~Spoils(p, t)
  BY <1>4, <1>6, <1>7
<1>10. ASSUME Handled(generateTemperature_(t))
       PROVE  Stored(generateTemperature_(t)) = {o \in TemperatureOutputs : Planned(o)}
  BY <1>4, <1>5, <1>6, <1>8, <1>10, Reading DEF TemperatureOutputs
<1> QED
  BY <1>9, <1>10

\* A call of one statement.
LEMMA OneStatement ==
    ASSUME NEW d
    PROVE  /\ Ending(<<d>>) = d.status
           /\ Stored(<<d>>) = IF d.status = "ok" THEN d.writes ELSE {}
<1>1. Unfolds(<<d>>, d, << >>)
  BY OneAfterTheOther
<1> QED
  BY <1>1, NothingToDo DEF Unfolds

LEMMA TemperatureMinGives ==
    ASSUME file \in [Input -> Entry], NEW t, Made("temperature")
    PROVE  /\ Handled(generateTemperatureMin_(t)) <=> \A p \in {"TemperatureMin"} : ~Spoils(p, t)
           /\ Handled(generateTemperatureMin_(t)) =>
                 Stored(generateTemperatureMin_(t)) = {o \in {"TemperatureMin"} : Planned(o)}
<1> DEFINE d == Do(Simplified, Simple("TemperatureMin", t), {"TemperatureMin"})
<1>1. /\ d.status = IF Simplified THEN Simple("TemperatureMin", t) ELSE "ok"
      /\ d.writes = IF Simplified THEN {"TemperatureMin"} ELSE {}
  BY DEF Do
<1>2. generateTemperatureMin_(t) = <<d>>
  BY DEF generateTemperatureMin_
<1> HIDE DEF d
<1>3. /\ Handled(generateTemperatureMin_(t)) <=>
             (Simplified => Simple("TemperatureMin", t) \in {"ok", "DataNotAvailable"})
      /\ Stored(generateTemperatureMin_(t)) =
             IF Simplified /\ Simple("TemperatureMin", t) = "ok" THEN {"TemperatureMin"} ELSE {}
  BY <1>1, <1>2, OneStatement DEF Handled
<1>4. Spoils("TemperatureMin", t) <=>
         /\ Simplified /\ Present("TemperatureMin")
         /\ \/ ~Readable("TemperatureMin", t)
            \/ file["TemperatureMin"].members # file["CloudCover"].members
  BY DEF Spoils, Read, InputGroup, SelectedOnly, Forerunners, UsedForSelection,
     UsedForPercentiles, Base
<1>5. Planned("TemperatureMin") <=> Simplified /\ Present("TemperatureMin")
  BY DEF Planned, Recipe, Forerunners
<1> QED
  BY <1>3, <1>4, <1>5, Selecting DEF Input

LEMMA TemperatureMaxGives ==
    ASSUME file \in [Input -> Entry], NEW t, Made("temperature")
    PROVE  /\ Handled(generateTemperatureMax_(t)) <=> \A p \in {"TemperatureMax"} : ~Spoils(p, t)
           /\ Handled(generateTemperatureMax_(t)) =>
                 Stored(generateTemperatureMax_(t)) = {o \in {"TemperatureMax"} : Planned(o)}
<1> DEFINE d == Do(Simplified, Simple("TemperatureMax", t), {"TemperatureMax"})
<1>1. /\ d.status = IF Simplified THEN Simple("TemperatureMax", t) ELSE "ok"
      /\ d.writes = IF Simplified THEN {"TemperatureMax"} ELSE {}
  BY DEF Do
<1>2. generateTemperatureMax_(t) = <<d>>
  BY DEF generateTemperatureMax_
<1> HIDE DEF d
<1>3. /\ Handled(generateTemperatureMax_(t)) <=>
             (Simplified => Simple("TemperatureMax", t) \in {"ok", "DataNotAvailable"})
      /\ Stored(generateTemperatureMax_(t)) =
             IF Simplified /\ Simple("TemperatureMax", t) = "ok" THEN {"TemperatureMax"} ELSE {}
  BY <1>1, <1>2, OneStatement DEF Handled
<1>4. Spoils("TemperatureMax", t) <=>
         /\ Simplified /\ Present("TemperatureMax")
         /\ \/ ~Readable("TemperatureMax", t)
            \/ file["TemperatureMax"].members # file["CloudCover"].members
  BY DEF Spoils, Read, InputGroup, SelectedOnly, Forerunners, UsedForSelection,
     UsedForPercentiles, Base
<1>5. Planned("TemperatureMax") <=> Simplified /\ Present("TemperatureMax")
  BY DEF Planned, Recipe, Forerunners
<1> QED
  BY <1>3, <1>4, <1>5, Selecting DEF Input

LEMMA AirPressureGives ==
    ASSUME file \in [Input -> Entry], NEW t, Made("pressure")
    PROVE  /\ Handled(generateAirPressure_(t)) <=> \A p \in {"AirPressure"} : ~Spoils(p, t)
           /\ Handled(generateAirPressure_(t)) =>
                 Stored(generateAirPressure_(t)) = {o \in {"AirPressure"} : Planned(o)}
<1> DEFINE d == Do(Simplified, Simple("AirPressure", t), {"AirPressure"})
<1>1. /\ d.status = IF Simplified THEN Simple("AirPressure", t) ELSE "ok"
      /\ d.writes = IF Simplified THEN {"AirPressure"} ELSE {}
  BY DEF Do
<1>2. generateAirPressure_(t) = <<d>>
  BY DEF generateAirPressure_
<1> HIDE DEF d
<1>3. /\ Handled(generateAirPressure_(t)) <=>
             (Simplified => Simple("AirPressure", t) \in {"ok", "DataNotAvailable"})
      /\ Stored(generateAirPressure_(t)) =
             IF Simplified /\ Simple("AirPressure", t) = "ok" THEN {"AirPressure"} ELSE {}
  BY <1>1, <1>2, OneStatement DEF Handled
<1>4. Spoils("AirPressure", t) <=>
         /\ Simplified /\ Present("AirPressure")
         /\ \/ ~Readable("AirPressure", t)
            \/ file["AirPressure"].members # file["CloudCover"].members
  BY DEF Spoils, Read, InputGroup, SelectedOnly, Forerunners, UsedForSelection,
     UsedForPercentiles, Base
<1>5. Planned("AirPressure") <=> Simplified /\ Present("AirPressure")
  BY DEF Planned, Recipe, Forerunners
<1> QED
  BY <1>3, <1>4, <1>5, Selecting DEF Input

LEMMA HumidityGives ==
    ASSUME file \in [Input -> Entry], NEW t, Made("humidity")
    PROVE  /\ Handled(generateHumidity_(t)) <=> \A p \in {"RelativeHumidity"} : ~Spoils(p, t)
           /\ Handled(generateHumidity_(t)) =>
                 Stored(generateHumidity_(t)) = {o \in {"RelativeHumidity"} : Planned(o)}
<1> DEFINE d == Do(Simplified, Simple("RelativeHumidity", t), {"RelativeHumidity"})
<1>1. /\ d.status = IF Simplified THEN Simple("RelativeHumidity", t) ELSE "ok"
      /\ d.writes = IF Simplified THEN {"RelativeHumidity"} ELSE {}
  BY DEF Do
<1>2. generateHumidity_(t) = <<d>>
  BY DEF generateHumidity_
<1> HIDE DEF d
<1>3. /\ Handled(generateHumidity_(t)) <=>
             (Simplified => Simple("RelativeHumidity", t) \in {"ok", "DataNotAvailable"})
      /\ Stored(generateHumidity_(t)) =
             IF Simplified /\ Simple("RelativeHumidity", t) = "ok" THEN {"RelativeHumidity"} ELSE {}
  BY <1>1, <1>2, OneStatement DEF Handled
<1>4. Spoils("RelativeHumidity", t) <=>
         /\ Simplified /\ Present("RelativeHumidity")
         /\ \/ ~Readable("RelativeHumidity", t)
            \/ file["RelativeHumidity"].members # file["CloudCover"].members
  BY DEF Spoils, Read, InputGroup, SelectedOnly, Forerunners, UsedForSelection,
     UsedForPercentiles, Base
<1>5. Planned("RelativeHumidity") <=> Simplified /\ Present("RelativeHumidity")
  BY DEF Planned, Recipe, Forerunners
<1> QED
  BY <1>3, <1>4, <1>5, Selecting DEF Input

LEMMA WindGives ==
    ASSUME file \in [Input -> Entry], NEW t, Made("wind")
    PROVE  /\ Handled(generateWind_(t)) <=> \A p \in {"WindU", "WindV"} : ~Spoils(p, t)
           /\ Handled(generateWind_(t)) =>
                 Stored(generateWind_(t)) = {o \in {"Wind", "WindPercentiles"} : Planned(o)}
<1> DEFINE u == getData_("WindU", t)
           v == getData_("WindV", t)
           s == Probable("WindU")
           c == PercentilesOf("WindU")
           d1 == Do(TRUE, u, {})
           d2 == Do(TRUE, v, {})
           d3 == Do(Simplified, s, {"Wind"})
           d4 == Do(Percentiles, c, {"WindPercentiles"})
<1>1. generateWind_(t) = <<d1, d2, d3, d4>>
  BY DEF generateWind_
<1>2. /\ d1.status = u
      /\ d1.writes = {}
      /\ d2.status = v
      /\ d2.writes = {}
      /\ d3.status = IF Simplified THEN s ELSE "ok"
      /\ d3.writes = IF Simplified THEN {"Wind"} ELSE {}
      /\ d4.status = IF Percentiles THEN c ELSE "ok"
      /\ d4.writes = IF Percentiles THEN {"WindPercentiles"} ELSE {}
  BY DEF Do
<1> HIDE DEF u, v, s, c, d1, d2, d3, d4
<1>3. /\ Unfolds(<<d1, d2, d3, d4>>, d1, <<d2, d3, d4>>)
      /\ Unfolds(<<d2, d3, d4>>, d2, <<d3, d4>>)
      /\ Unfolds(<<d3, d4>>, d3, <<d4>>)
      /\ Unfolds(<<d4>>, d4, << >>)
  BY OneAfterTheOther
<1>4. s # "DataNotAvailable" /\ (s = "ok" <=> file["WindU"].members = file["CloudCover"].members)
  BY DEF Probable, s
<1>5. /\ u = "ok" <=> Readable("WindU", t)
      /\ u = "DataNotAvailable" <=> ~Present("WindU")
      /\ v = "ok" <=> Readable("WindV", t)
      /\ v = "DataNotAvailable" <=> ~Present("WindV")
      /\ c = "ok" <=> ~(file["WindU"].members < 10)
      /\ c # "DataNotAvailable"
  BY Reading, Cutting DEF u, v, c, Input
<1>6. Handled(generateWind_(t)) <=>
         \/ u = "DataNotAvailable"
         \/ u = "ok" /\ v = "DataNotAvailable"
         \/ /\ u = "ok" /\ v = "ok"
            /\ Simplified => s = "ok"
            /\ Percentiles => c = "ok"
  BY <1>1, <1>2, <1>3, <1>4, <1>5, NothingToDo DEF Handled, Unfolds
<1>7. ASSUME Handled(generateWind_(t)), NEW o
      PROVE  o \in Stored(generateWind_(t)) <=>
                /\ u = "ok" /\ v = "ok"
                /\ \/ o = "Wind" /\ Simplified
                   \/ o = "WindPercentiles" /\ Percentiles
  BY <1>1, <1>2, <1>3, <1>6, <1>7, NothingToDo DEF Unfolds
<1>8. /\ Spoils("WindU", t) <=> Present("WindU") /\ ~Readable("WindU", t)
      /\ Spoils("WindV", t) <=>
             /\ Present("WindU") /\ Present("WindV")
             /\ \/ ~Readable("WindV", t)
                \/ Simplified /\ file["WindU"].members # file["CloudCover"].members
                \/ Percentiles /\ file["WindU"].members < 10
  BY DEF Spoils, Read, InputGroup, SelectedOnly, Forerunners, UsedForSelection,
     UsedForPercentiles, Base
<1>9. /\ Planned("Wind") <=> Simplified /\ Present("WindU") /\ Present("WindV")
      /\ Planned("WindPercentiles") <=> Percentiles /\ Present("WindU") /\ Present("WindV")
  BY DEF Planned, Recipe
<1>10. /\ Readable("WindU", t) => Present("WindU")
       /\ Readable("WindV", t) => Present("WindV")
  BY DEF Readable, Present
<1>11. Handled(generateWind_(t)) <=> \A p \in {"WindU", "WindV"} : ~Spoils(p, t)
  BY <1>4, <1>5, <1>6, <1>8, <1>10
<1>12. ASSUME Handled(generateWind_(t))
       PROVE  Stored(generateWind_(t)) = {o \in {"Wind", "WindPercentiles"} : Planned(o)}
  BY <1>5, <1>6, <1>7, <1>9, <1>10, <1>12
<1> QED
  BY <1>11, <1>12

PrecipitationInputs == {"PrecipitationInFrom", "PrecipitationInTo"}
PrecipitationOutputs == {"PrecipitationOut", "PrecipitationPercentiles"}

LEMMA PrecipitationGives ==
    ASSUME file \in [Input -> Entry], NEW t, Made("precipitation"),
           SymbolsPossible(t)
    PROVE  /\ Handled(generatePrecipitation_(t)) <=> \A p \in PrecipitationInputs : ~Spoils(p, t)
           /\ Handled(generatePrecipitation_(t)) =>
                 Stored(generatePrecipitation_(t)) = {o \in PrecipitationOutputs : Planned(o)}
<1> DEFINE f == getData_("PrecipitationInFrom", t)
           g == getData_("PrecipitationInTo", t)
           e == Difference
           s == Probable("PrecipitationInTo")
           c == PercentilesOf("PrecipitationInTo")
           d1 == Do(TRUE, f, {})
           d2 == Do(TRUE, g, {})
           d3 == Do(TRUE, e, {})
           d4 == Do(TRUE, s, {})
           d5 == Do(Simplified, "ok", {"PrecipitationOut"})
           d6 == Do(Percentiles, c, {"PrecipitationPercentiles"})
<1>1. generatePrecipitation_(t) = <<d1, d2, d3, d4, d5, d6>>
  BY DEF generatePrecipitation_
<1>2. /\ d1.status = f
      /\ d1.writes = {}
      /\ d2.status = g
      /\ d2.writes = {}
      /\ d3.status = e
      /\ d3.writes = {}
      /\ d4.status = s
      /\ d4.writes = {}
      /\ d5.status = IF Simplified THEN "ok" ELSE "ok"
      /\ d5.writes = IF Simplified THEN {"PrecipitationOut"} ELSE {}
      /\ d6.status = IF Percentiles THEN c ELSE "ok"
      /\ d6.writes = IF Percentiles THEN {"PrecipitationPercentiles"} ELSE {}
  BY DEF Do
<1> HIDE DEF f, g, e, s, c, d1, d2, d3, d4, d5, d6
<1>3. /\ Unfolds(<<d1, d2, d3, d4, d5, d6>>, d1, <<d2, d3, d4, d5, d6>>)
      /\ Unfolds(<<d2, d3, d4, d5, d6>>, d2, <<d3, d4, d5, d6>>)
      /\ Unfolds(<<d3, d4, d5, d6>>, d3, <<d4, d5, d6>>)
      /\ Unfolds(<<d4, d5, d6>>, d4, <<d5, d6>>)
      /\ Unfolds(<<d5, d6>>, d5, <<d6>>)
      /\ Unfolds(<<d6>>, d6, << >>)
  BY OneAfterTheOther
<1>4. /\ Readable("PrecipitationInFrom", t) /\ Readable("PrecipitationInTo", t)
      /\ Present("PrecipitationInFrom") /\ Present("PrecipitationInTo")
  BY DEF SymbolsPossible, Readable, Present
<1>5. f = "ok" /\ g = "ok"
  BY <1>4, Reading DEF f, g, Input
<1>6. e = "ok"
  BY DEF SymbolsPossible, Difference, Entry, Input, e
<1>7. /\ s # "DataNotAvailable"
      /\ s = "ok" <=> file["PrecipitationInTo"].members = file["CloudCover"].members
  BY DEF Probable, s
<1>8. /\ c # "DataNotAvailable"
      /\ c = "ok" <=> ~(file["PrecipitationInTo"].members < 10)
  BY Cutting DEF c, Input
<1>9. Handled(generatePrecipitation_(t)) <=> s = "ok" /\ (Percentiles => c = "ok")
  BY <1>1, <1>2, <1>3, <1>5, <1>6, <1>7, <1>8, NothingToDo DEF Handled, Unfolds
<1>10. ASSUME Handled(generatePrecipitation_(t)), NEW o
       PROVE  o \in Stored(generatePrecipitation_(t)) <=>
                 \/ o = "PrecipitationOut" /\ Simplified
                 \/ o = "PrecipitationPercentiles" /\ Percentiles
  BY <1>1, <1>2, <1>3, <1>5, <1>6, <1>9, <1>10, NothingToDo DEF Unfolds
<1>11. /\ ~Spoils("PrecipitationInFrom", t)
       /\ Spoils("PrecipitationInTo", t) <=>
              \/ file["PrecipitationInTo"].members # file["CloudCover"].members
              \/ Percentiles /\ file["PrecipitationInTo"].members < 10
  BY <1>4 DEF Spoils, Read, InputGroup, SelectedOnly, Forerunners, UsedForSelection,
     UsedForPercentiles, Base
<1>12. /\ Planned("PrecipitationOut") <=> Simplified
       /\ Planned("PrecipitationPercentiles") <=> Percentiles
  BY DEF Planned, Recipe
<1>13. Handled(generatePrecipitation_(t)) <=> \A p \in PrecipitationInputs : ~Spoils(p, t)
  BY <1>7, <1>8, <1>9, <1>11 DEF PrecipitationInputs
<1>14. ASSUME Handled(generatePrecipitation_(t))
       PROVE  Stored(generatePrecipitation_(t)) = {o \in PrecipitationOutputs : Planned(o)}
  BY <1>10, <1>12, <1>14 DEF PrecipitationOutputs
<1> QED
  BY <1>13, <1>14

LEMMA WavesGive ==
    ASSUME file \in [Input -> Entry], NEW t, Made("waves")
    PROVE  /\ Handled(generateWaves_(t)) <=> \A p \in {"SignificantWaveHeight"} : ~Spoils(p, t)
           /\ Handled(generateWaves_(t)) =>
                 Stored(generateWaves_(t))
                     = {o \in {"SignificantWaveHeightPercentiles"} : Planned(o)}
<1> DEFINE g == getData_("SignificantWaveHeight", t)
           c == PercentilesOf("SignificantWaveHeight")
           d1 == Do(TRUE, g, {})
           d2 == Do(Percentiles, c, {"SignificantWaveHeightPercentiles"})
<1>1. generateWaves_(t) = <<d1, d2>>
  BY DEF generateWaves_
<1>2. /\ d1.status = g
      /\ d1.writes = {}
      /\ d2.status = IF Percentiles THEN c ELSE "ok"
      /\ d2.writes = IF Percentiles THEN {"SignificantWaveHeightPercentiles"} ELSE {}
  BY DEF Do
<1> HIDE DEF g, c, d1, d2
<1>3. /\ Unfolds(<<d1, d2>>, d1, <<d2>>)
      /\ Unfolds(<<d2>>, d2, << >>)
  BY OneAfterTheOther
<1>4. /\ g = "ok" <=> Readable("SignificantWaveHeight", t)
      /\ g = "DataNotAvailable" <=> ~Present("SignificantWaveHeight")
      /\ c # "DataNotAvailable"
      /\ c = "ok" <=> ~(file["SignificantWaveHeight"].members < 10)
  BY Reading, Cutting DEF g, c, Input
<1>5. Handled(generateWaves_(t)) <=>
         g = "DataNotAvailable" \/ (g = "ok" /\ (Percentiles => c = "ok"))
  BY <1>1, <1>2, <1>3, <1>4, NothingToDo DEF Handled, Unfolds
<1>6. ASSUME Handled(generateWaves_(t)), NEW o
      PROVE  o \in Stored(generateWaves_(t)) <=>
                g = "ok" /\ Percentiles /\ o = "SignificantWaveHeightPercentiles"
  BY <1>1, <1>2, <1>3, <1>5, <1>6, NothingToDo DEF Unfolds
<1>7. Spoils("SignificantWaveHeight", t) <=>
         /\ Present("SignificantWaveHeight")
         /\ \/ ~Readable("SignificantWaveHeight", t)
            \/ Percentiles /\ file["SignificantWaveHeight"].members < 10
  BY DEF Spoils, Read, InputGroup, SelectedOnly, Forerunners, UsedForSelection,
     UsedForPercentiles, Base
<1>8. Planned("SignificantWaveHeightPercentiles") <=>
         Percentiles /\ Present("SignificantWaveHeight")
  BY DEF Planned, Recipe
<1>9. Handled(generateWaves_(t)) <=> \A p \in {"SignificantWaveHeight"} : ~Spoils(p, t)
  BY <1>4, <1>5, <1>7
<1>10. ASSUME Handled(generateWaves_(t))
       PROVE  Stored(generateWaves_(t)) = {o \in {"SignificantWaveHeightPercentiles"} : Planned(o)}
  BY <1>4, <1>5, <1>6, <1>8, <1>10
<1> QED
  BY <1>9, <1>10

LEMMA SymbolsGive ==
    ASSUME file \in [Input -> Entry], NEW t, Made("symbols")
    PROVE  /\ Ending(generateSymbols_(t)) = "ok" <=> SymbolsPossible(t)
           /\ Ending(generateSymbols_(t)) = "ok" =>
                 Stored(generateSymbols_(t))
                     = {o \in {"YrSymbol", "ProbabilityOfYrSymbol"} : Planned(o)}
<1> DEFINE a == getData_("CloudCover", t)
           b == getData_("CloudCover", t + SymbolRange)
           f == getData_("PrecipitationInFrom", t)
           g == getData_("PrecipitationInTo", t)
           e == Difference
           m == PrecipitationOfEveryMember
           s == selectSymbols(t)
           d1 == Do(TRUE, a, {})
           d2 == Do(TRUE, b, {})
           d3 == Do(TRUE, f, {})
           d4 == Do(TRUE, g, {})
           d5 == Do(TRUE, e, {})
           d6 == Do(TRUE, m, {})
           d7 == Do(TRUE, s, {})
           d8 == Do(Simplified, "ok", {"YrSymbol", "ProbabilityOfYrSymbol"})
<1>1. generateSymbols_(t) = <<d1, d2, d3, d4, d5, d6, d7, d8>>
  BY DEF generateSymbols_
<1>2. /\ d1.status = a
      /\ d1.writes = {}
      /\ d2.status = b
      /\ d2.writes = {}
      /\ d3.status = f
      /\ d3.writes = {}
      /\ d4.status = g
      /\ d4.writes = {}
      /\ d5.status = e
      /\ d5.writes = {}
      /\ d6.status = m
      /\ d6.writes = {}
      /\ d7.status = s
      /\ d7.writes = {}
      /\ d8.status = IF Simplified THEN "ok" ELSE "ok"
      /\ d8.writes = IF Simplified THEN {"YrSymbol", "ProbabilityOfYrSymbol"} ELSE {}
  BY DEF Do
<1> HIDE DEF a, b, f, g, e, m, s, d1, d2, d3, d4, d5, d6, d7, d8
<1>3. /\ Unfolds(<<d1, d2, d3, d4, d5, d6, d7, d8>>, d1, <<d2, d3, d4, d5, d6, d7, d8>>)
      /\ Unfolds(<<d2, d3, d4, d5, d6, d7, d8>>, d2, <<d3, d4, d5, d6, d7, d8>>)
      /\ Unfolds(<<d3, d4, d5, d6, d7, d8>>, d3, <<d4, d5, d6, d7, d8>>)
      /\ Unfolds(<<d4, d5, d6, d7, d8>>, d4, <<d5, d6, d7, d8>>)
      /\ Unfolds(<<d5, d6, d7, d8>>, d5, <<d6, d7, d8>>)
      /\ Unfolds(<<d6, d7, d8>>, d6, <<d7, d8>>)
      /\ Unfolds(<<d7, d8>>, d7, <<d8>>)
      /\ Unfolds(<<d8>>, d8, << >>)
  BY OneAfterTheOther
<1>4. /\ a = "ok" <=> Readable("CloudCover", t)
      /\ b = "ok" <=> Readable("CloudCover", t + SymbolRange)
      /\ f = "ok" <=> Readable("PrecipitationInFrom", t)
      /\ g = "ok" <=> Readable("PrecipitationInTo", t)
  BY Reading DEF a, b, f, g, Input
<1>5. /\ e = "ok" <=> file["PrecipitationInTo"].members <= file["PrecipitationInFrom"].members
      /\ m = "ok" <=> file["CloudCover"].members <= file["PrecipitationInTo"].members
      /\ s = "ok" <=> t \notin unselectable
  BY DEF Difference, PrecipitationOfEveryMember, selectSymbols, e, m, s
<1>6. /\ file["CloudCover"].members \in Nat
      /\ file["PrecipitationInTo"].members \in Nat
      /\ file["PrecipitationInFrom"].members \in Nat
  BY DEF Entry, Input
<1>7. Ending(generateSymbols_(t)) = "ok" <=>
         a = "ok" /\ b = "ok" /\ f = "ok" /\ g = "ok" /\ e = "ok" /\ m = "ok" /\ s = "ok"
  BY <1>1, <1>2, <1>3, NothingToDo DEF Unfolds
<1>8. ASSUME Ending(generateSymbols_(t)) = "ok"
      PROVE  Stored(generateSymbols_(t)) =
                IF Simplified THEN {"YrSymbol", "ProbabilityOfYrSymbol"} ELSE {}
  BY <1>1, <1>2, <1>3, <1>7, <1>8, NothingToDo DEF Unfolds
<1>9. Ending(generateSymbols_(t)) = "ok" <=> SymbolsPossible(t)
  BY <1>4, <1>5, <1>6, <1>7 DEF SymbolsPossible
<1>10. /\ Planned("YrSymbol") <=> Simplified
       /\ Planned("ProbabilityOfYrSymbol") <=> Simplified
  BY DEF Planned, Recipe
<1> QED
  BY <1>8, <1>9, <1>10

-----------------------------------------------------------------------------
(* The calls in the order work() makes them. *)

Work == Call \ {"saveAll", "saving"}

Turn == [symbols |-> 1, clouds |-> 2, temperature |-> 3, temperatureMin |-> 4,
         temperatureMax |-> 5, wind |-> 6, precipitation |-> 7, pressure |-> 8,
         humidity |-> 9, waves |-> 10, saveAll |-> 11, saving |-> 12]

\* The outputs a call makes, and the inputs that can make it fail.
Makes == [symbols |-> {"YrSymbol", "ProbabilityOfYrSymbol"}, clouds |-> CloudOutputs,
          temperature |-> TemperatureOutputs,
          temperatureMin |-> {"TemperatureMin"}, temperatureMax |-> {"TemperatureMax"},
          wind |-> {"Wind", "WindPercentiles"}, precipitation |-> PrecipitationOutputs,
          pressure |-> {"AirPressure"}, humidity |-> {"RelativeHumidity"},
          waves |-> {"SignificantWaveHeightPercentiles"}]
Reads == [symbols |-> {}, clouds |-> CloudInputs, temperature |-> {"Temperature"},
          temperatureMin |-> {"TemperatureMin"}, temperatureMax |-> {"TemperatureMax"},
          wind |-> {"WindU", "WindV"}, precipitation |-> PrecipitationInputs,
          pressure |-> {"AirPressure"}, humidity |-> {"RelativeHumidity"},
          waves |-> {"SignificantWaveHeight"}]

Breaks(call, t) ==
    \/ call = "symbols" /\ Made("symbols") /\ ~SymbolsPossible(t)
    \/ \E p \in Reads[call] : Spoils(p, t)

PlannedOf(call) == {o \in Makes[call] : Planned(o)}

\* What the calls before the turn n have stored.
Collected(n) == {o \in Output : Planned(o) /\ \E c \in Work : Turn[c] < n /\ o \in Makes[c]}

LEMMA EveryInputIsRead == \A p \in Input : \E c \in Work : p \in Reads[c]
  BY DEF Input, Work, Call, Reads, CloudInputs, PrecipitationInputs

LEMMA EveryOutputIsMade ==
    /\ \A o \in Output : \E c \in Work : o \in Makes[c]
    /\ \A c \in Work : Makes[c] \subseteq Output
<1>1. \A o \in Output : \E c \in Work : o \in Makes[c]
  BY OutputMembers DEF Work, Call, Makes, CloudInputs, CloudOutputs, TemperatureOutputs,
     PrecipitationOutputs
<1>2. \A c \in Work : Makes[c] \subseteq Output
  BY OutputMembers DEF Work, Call, Makes, CloudInputs, CloudOutputs, TemperatureOutputs,
     PrecipitationOutputs
<1> QED
  BY <1>1, <1>2

LEMMA Turns ==
    /\ \A c \in Call : Turn[c] \in 1..12
    /\ \A c \in Work : Turn[c] < 11
    /\ \A c, d \in Call : Turn[c] = Turn[d] => c = d
  BY DEF Turn, Work, Call

\* A time is lost when one of the calls breaks.
LEMMA LostWhenACallBreaks ==
    ASSUME NEW t
    PROVE  Lost(t) <=> \E c \in Work : Breaks(c, t)
<1>1. \A c \in Work : Reads[c] \subseteq Input
  BY DEF Input, Work, Call, Reads, CloudInputs, PrecipitationInputs
<1>2. "symbols" \in Work
  BY DEF Work, Call
<1> QED
  BY <1>1, <1>2, EveryInputIsRead DEF Lost, Breaks

\* The group whose exclusion leaves the call out.
GroupOf == [symbols |-> "symbols", clouds |-> "clouds", temperature |-> "temperature",
            temperatureMin |-> "temperature", temperatureMax |-> "temperature",
            wind |-> "wind", precipitation |-> "precipitation", pressure |-> "pressure",
            humidity |-> "humidity", waves |-> "waves"]

LEMMA GroupsOfCalls ==
    ASSUME NEW c \in Work
    PROVE  /\ \A p \in Reads[c] : p \in Input /\ InputGroup(p) = GroupOf[c]
           /\ \A o \in Makes[c] : Recipe(o)[1] = GroupOf[c]
<1>1. \A p \in Reads[c] : p \in Input /\ InputGroup(p) = GroupOf[c]
  BY DEF Input, Work, Call, Reads, CloudInputs, PrecipitationInputs, InputGroup, GroupOf
<1>2. \A o \in Makes[c] : Recipe(o)[1] = GroupOf[c]
  BY DEF Work, Call, Makes, CloudInputs, CloudOutputs, TemperatureOutputs,
     PrecipitationOutputs, Recipe, GroupOf
<1> QED
  BY <1>1, <1>2

LEMMA NotCalled ==
    ASSUME NEW c \in Work, ~Made(GroupOf[c]), NEW t
    PROVE  ~Breaks(c, t) /\ PlannedOf(c) = {}
<1>1. PlannedOf(c) = {}
  BY GroupsOfCalls DEF PlannedOf, Planned
<1>2. \A p \in Reads[c] : ~Spoils(p, t)
  BY GroupsOfCalls DEF Spoils, Read
<1>3. c = "symbols" => GroupOf[c] = "symbols"
  BY DEF GroupOf
<1> QED
  BY <1>1, <1>2, <1>3 DEF Breaks

-----------------------------------------------------------------------------
(* While work() makes its calls, what has been collected is what is planned *)
(* of the calls made, and none of those had a reason to fail.               *)

\* Without the symbols only the waves are made.
SymbolsFirst == pc \in Work \ {"waves"} => "symbols" \notin conf.excluded

CollectedSoFar ==
    pc \in Call =>
        /\ DOMAIN toSave = Collected(Turn[pc])
        /\ \A c \in Work : Turn[c] < Turn[pc] => ~Breaks(c, Now)

\* A call that is made stores what is planned of it and goes on, or breaks.
Delivers(c) ==
    /\ pc = c
    /\ \/ Breaks(c, Now) /\ \E how \in {"noSymbols", "aborted"} : Leave(how)
       \/ /\ ~Breaks(c, Now)
          /\ \E next \in Call \ {"saving"} :
                Turn[next] = Turn[c] + 1 /\ Continue(PlannedOf(c), next)

LEMMA GroupDelivers ==
    ASSUME NEW c \in Work \ {"symbols"}, NEW next \in Call \ {"saving"}, NEW code,
           Turn[next] = Turn[c] + 1, Generate(c, next, GroupOf[c], code),
           SymbolsFirst,
           Made(GroupOf[c]) => /\ Handled(code) <=> \A p \in Reads[c] : ~Spoils(p, Now)
                               /\ Handled(code) => Stored(code) = PlannedOf(c)
    PROVE  Delivers(c)
<1>1. pc = c
  BY DEF Generate
<1>2. Made(GroupOf[c]) <=> Called(GroupOf[c])
  <2>1. c # "waves" => "symbols" \notin conf.excluded
    BY <1>1 DEF SymbolsFirst
  <2>2. c = "waves" => GroupOf[c] = "waves"
    BY DEF GroupOf
  <2> QED
    BY <2>1, <2>2 DEF Made, Called
<1>3. CASE ~Called(GroupOf[c])
  <2>1. ~Breaks(c, Now) /\ PlannedOf(c) = {}
    BY <1>2, <1>3, NotCalled
  <2>2. Continue({}, next)
    BY <1>3 DEF Generate
  <2> QED
    BY <1>1, <2>1, <2>2 DEF Delivers
<1>4. CASE Called(GroupOf[c]) /\ Handled(code)
  <2>1. ~Breaks(c, Now) /\ Stored(code) = PlannedOf(c)
    BY <1>2, <1>4 DEF Breaks
  <2>2. Continue(Stored(code), next)
    BY <1>4 DEF Generate
  <2> QED
    BY <1>1, <2>1, <2>2 DEF Delivers
<1>5. CASE Called(GroupOf[c]) /\ ~Handled(code)
  <2>1. Breaks(c, Now)
    BY <1>2, <1>5 DEF Breaks
  <2>2. Leave("aborted")
    BY <1>5 DEF Generate
  <2> QED
    BY <1>1, <2>1, <2>2 DEF Delivers
<1> QED
  BY <1>3, <1>4, <1>5

LEMMA CallDelivers ==
    ASSUME TypeOK, SymbolsFirst, CollectedSoFar, Present("CloudCover"),
           SymbolsFail \/ Symbols \/ Clouds \/ Temperature \/ TemperatureMin
           \/ TemperatureMax \/ Wind \/ Precipitation \/ AirPressure
           \/ Humidity \/ Waves
    PROVE  \E c \in Work : Delivers(c)
<1>0. file \in [Input -> Entry]
  BY DEF TypeOK
<1>1. CASE SymbolsFail \/ Symbols
  <2>1. pc = "symbols" /\ "symbols" \in Work /\ Made("symbols")
    BY <1>1 DEF SymbolsFail, Symbols, SymbolsFirst, Work, Call, Made
  <2>2. /\ Ending(generateSymbols_(Now)) = "ok" <=> SymbolsPossible(Now)
        /\ Ending(generateSymbols_(Now)) = "ok" =>
              Stored(generateSymbols_(Now)) =
                  {o \in {"YrSymbol", "ProbabilityOfYrSymbol"} : Planned(o)}
    BY <1>0, <2>1, SymbolsGive
  <2>3. PlannedOf("symbols") = {o \in {"YrSymbol", "ProbabilityOfYrSymbol"} : Planned(o)}
    BY DEF PlannedOf, Makes
  <2>4. Breaks("symbols", Now) <=> ~SymbolsPossible(Now)
    BY <2>1 DEF Breaks, Reads
  <2>5. "clouds" \in Call \ {"saving"} /\ Turn["clouds"] = Turn["symbols"] + 1
    BY DEF Call, Turn
  <2>6. CASE SymbolsFail
    BY <2>1, <2>2, <2>4, <2>6 DEF SymbolsFail, Delivers
  <2>7. CASE Symbols
    BY <2>1, <2>2, <2>3, <2>4, <2>5, <2>7 DEF Symbols, Delivers
  <2> QED
    BY <1>1, <2>6, <2>7
<1>2. CASE Clouds
  <2>1. Made("clouds") =>
           /\ Handled(generateClouds_(Now)) <=> \A p \in Reads["clouds"] : ~Spoils(p, Now)
           /\ Handled(generateClouds_(Now)) => Stored(generateClouds_(Now)) = PlannedOf("clouds")
    BY <1>0, CloudsGive DEF PlannedOf, Makes, Reads
  <2>2. /\ "clouds" \in Work \ {"symbols"} /\ "temperature" \in Call \ {"saving"}
        /\ Turn["temperature"] = Turn["clouds"] + 1 /\ GroupOf["clouds"] = "clouds"
    BY DEF Work, Call, Turn, GroupOf
  <2> QED
    BY <1>2, <2>1, <2>2, GroupDelivers DEF Clouds
<1>3. CASE Temperature
  <2>1. Made("temperature") =>
           /\ Handled(generateTemperature_(Now)) <=>
                  \A p \in Reads["temperature"] : ~Spoils(p, Now)
           /\ Handled(generateTemperature_(Now)) =>
                  Stored(generateTemperature_(Now)) = PlannedOf("temperature")
    BY <1>0, TemperatureGives DEF PlannedOf, Makes, Reads
  <2>2. /\ "temperature" \in Work \ {"symbols"} /\ "temperatureMin" \in Call \ {"saving"}
        /\ Turn["temperatureMin"] = Turn["temperature"] + 1
        /\ GroupOf["temperature"] = "temperature"
    BY DEF Work, Call, Turn, GroupOf
  <2> QED
    BY <1>3, <2>1, <2>2, GroupDelivers DEF Temperature
<1>4. CASE TemperatureMin
  <2>1. Made("temperature") =>
           /\ Handled(generateTemperatureMin_(Now)) <=>
                  \A p \in Reads["temperatureMin"] : ~Spoils(p, Now)
           /\ Handled(generateTemperatureMin_(Now)) =>
                  Stored(generateTemperatureMin_(Now)) = PlannedOf("temperatureMin")
    BY <1>0, TemperatureMinGives DEF PlannedOf, Makes, Reads
  <2>2. /\ "temperatureMin" \in Work \ {"symbols"} /\ "temperatureMax" \in Call \ {"saving"}
        /\ Turn["temperatureMax"] = Turn["temperatureMin"] + 1
        /\ GroupOf["temperatureMin"] = "temperature"
    BY DEF Work, Call, Turn, GroupOf
  <2> QED
    BY <1>4, <2>1, <2>2, GroupDelivers DEF TemperatureMin
<1>5. CASE TemperatureMax
  <2>1. Made("temperature") =>
           /\ Handled(generateTemperatureMax_(Now)) <=>
                  \A p \in Reads["temperatureMax"] : ~Spoils(p, Now)
           /\ Handled(generateTemperatureMax_(Now)) =>
                  Stored(generateTemperatureMax_(Now)) = PlannedOf("temperatureMax")
    BY <1>0, TemperatureMaxGives DEF PlannedOf, Makes, Reads
  <2>2. /\ "temperatureMax" \in Work \ {"symbols"} /\ "wind" \in Call \ {"saving"}
        /\ Turn["wind"] = Turn["temperatureMax"] + 1
        /\ GroupOf["temperatureMax"] = "temperature"
    BY DEF Work, Call, Turn, GroupOf
  <2> QED
    BY <1>5, <2>1, <2>2, GroupDelivers DEF TemperatureMax
<1>6. CASE Wind
  <2>1. Made("wind") =>
           /\ Handled(generateWind_(Now)) <=> \A p \in Reads["wind"] : ~Spoils(p, Now)
           /\ Handled(generateWind_(Now)) => Stored(generateWind_(Now)) = PlannedOf("wind")
    BY <1>0, WindGives DEF PlannedOf, Makes, Reads
  <2>2. /\ "wind" \in Work \ {"symbols"} /\ "precipitation" \in Call \ {"saving"}
        /\ Turn["precipitation"] = Turn["wind"] + 1 /\ GroupOf["wind"] = "wind"
    BY DEF Work, Call, Turn, GroupOf
  <2> QED
    BY <1>6, <2>1, <2>2, GroupDelivers DEF Wind
<1>7. CASE Precipitation
  <2>0. Made("precipitation") => SymbolsPossible(Now)
    <3>1. pc = "precipitation" /\ "symbols" \in Work /\ pc \in Call
          /\ Turn["symbols"] < Turn["precipitation"]
      BY <1>7 DEF Precipitation, Generate, Work, Call, Turn
    <3>2. ~Breaks("symbols", Now)
      BY <3>1 DEF CollectedSoFar
    <3>3. Made("precipitation") => Made("symbols")
      BY DEF Made
    <3> QED
      BY <3>2, <3>3 DEF Breaks
  <2>1. Made("precipitation") =>
           /\ Handled(generatePrecipitation_(Now)) <=>
                  \A p \in Reads["precipitation"] : ~Spoils(p, Now)
           /\ Handled(generatePrecipitation_(Now)) =>
                  Stored(generatePrecipitation_(Now)) = PlannedOf("precipitation")
    BY <1>0, <2>0, PrecipitationGives DEF PlannedOf, Makes, Reads
  <2>2. /\ "precipitation" \in Work \ {"symbols"} /\ "pressure" \in Call \ {"saving"}
        /\ Turn["pressure"] = Turn["precipitation"] + 1
        /\ GroupOf["precipitation"] = "precipitation"
    BY DEF Work, Call, Turn, GroupOf
  <2> QED
    BY <1>7, <2>1, <2>2, GroupDelivers DEF Precipitation
<1>8. CASE AirPressure
  <2>1. Made("pressure") =>
           /\ Handled(generateAirPressure_(Now)) <=> \A p \in Reads["pressure"] : ~Spoils(p, Now)
           /\ Handled(generateAirPressure_(Now)) =>
                  Stored(generateAirPressure_(Now)) = PlannedOf("pressure")
    BY <1>0, AirPressureGives DEF PlannedOf, Makes, Reads
  <2>2. /\ "pressure" \in Work \ {"symbols"} /\ "humidity" \in Call \ {"saving"}
        /\ Turn["humidity"] = Turn["pressure"] + 1 /\ GroupOf["pressure"] = "pressure"
    BY DEF Work, Call, Turn, GroupOf
  <2> QED
    BY <1>8, <2>1, <2>2, GroupDelivers DEF AirPressure
<1>9. CASE Humidity
  <2>1. Made("humidity") =>
           /\ Handled(generateHumidity_(Now)) <=> \A p \in Reads["humidity"] : ~Spoils(p, Now)
           /\ Handled(generateHumidity_(Now)) =>
                  Stored(generateHumidity_(Now)) = PlannedOf("humidity")
    BY <1>0, HumidityGives DEF PlannedOf, Makes, Reads
  <2>2. /\ "humidity" \in Work \ {"symbols"} /\ "waves" \in Call \ {"saving"}
        /\ Turn["waves"] = Turn["humidity"] + 1 /\ GroupOf["humidity"] = "humidity"
    BY DEF Work, Call, Turn, GroupOf
  <2> QED
    BY <1>9, <2>1, <2>2, GroupDelivers DEF Humidity
<1>10. CASE Waves
  <2>1. Made("waves") =>
           /\ Handled(generateWaves_(Now)) <=> \A p \in Reads["waves"] : ~Spoils(p, Now)
           /\ Handled(generateWaves_(Now)) => Stored(generateWaves_(Now)) = PlannedOf("waves")
    BY <1>0, WavesGive DEF PlannedOf, Makes, Reads
  <2>2. /\ "waves" \in Work \ {"symbols"} /\ "saveAll" \in Call \ {"saving"}
        /\ Turn["saveAll"] = Turn["waves"] + 1 /\ GroupOf["waves"] = "waves"
    BY DEF Work, Call, Turn, GroupOf
  <2> QED
    BY <1>10, <2>1, <2>2, GroupDelivers DEF Waves
<1> QED
  BY <1>1, <1>2, <1>3, <1>4, <1>5, <1>6, <1>7, <1>8, <1>9, <1>10

-----------------------------------------------------------------------------
(* The sink holds the product of every settled time. *)

\* While a time is saved, the sink has what has been written of it.
SinkHasTheWritten ==
    pc = "saving" =>
        \A o \in Output : <<o, Now>> \in DOMAIN sink <=>
            o \in DOMAIN toSave \ unsaved /\ <<o, Now>> \notin rejected

SettledGetTheirProduct ==
    \A i \in DOMAIN validTimes : outcome[i] # "pending" =>
        \A o \in Output : <<o, validTimes[i]>> \in DOMAIN sink <=> o \in Product(validTimes[i])

\* The times behind the loop are settled, and were due.
SettledBehind ==
    /\ step # 0 => Due(step)
    /\ pc = "next" => step # 0
    /\ \A i \in 1..step : i < step \/ pc \notin Call => outcome[i] # "pending"

\* The loop ends when no due time is left.
NoDueTimeLeft == pc = "done" => \A i \in DOMAIN validTimes : Due(i) => i <= step

DeliveryInv ==
    /\ IInv
    /\ SymbolsFirst
    /\ CollectedSoFar
    /\ SinkHasTheWritten
    /\ SettledGetTheirProduct
    /\ SettledBehind
    /\ NoDueTimeLeft

LEMMA InitDeliveryInv == Init => DeliveryInv
<1> SUFFICES ASSUME Init PROVE DeliveryInv
  OBVIOUS
<1>1. IInv
  BY InitIInv
<1>2. pc = "start" /\ step = 0 /\ \A i \in DOMAIN validTimes : outcome[i] = "pending"
  BY DEF Init
<1> QED
  BY <1>1, <1>2 DEF DeliveryInv, SymbolsFirst, CollectedSoFar, SinkHasTheWritten,
     SettledGetTheirProduct, SettledBehind, NoDueTimeLeft, Work, Call

\* What a time should get depends on the inputs only.
LEMMA InputsDecide ==
    ASSUME UNCHANGED inputs
    PROVE  /\ \A i : Due(i)' <=> Due(i)
           /\ \A t : Product(t)' = Product(t)
           /\ \A c, t : Breaks(c, t)' <=> Breaks(c, t)
           /\ \A o : Planned(o)' <=> Planned(o)
           /\ \A n : Collected(n)' = Collected(n)
<1> USE DEF inputs
<1>1. \A p : Present(p)' <=> Present(p)
  BY DEF Present
<1>2. \A i : Due(i)' <=> Due(i)
  BY <1>1 DEF Due, lastGenerateTime
<1>3. \A p, t : Readable(p, t)' <=> Readable(p, t)
  BY DEF Readable
<1>4. \A g : Made(g)' <=> Made(g)
  BY DEF Made
<1>5. (Simplified' <=> Simplified) /\ (Percentiles' <=> Percentiles)
  BY DEF Simplified, Percentiles
<1>6. \A p : Read(p)' <=> Read(p)
  BY <1>1, <1>4, <1>5 DEF Read
<1>7. \A p : /\ UsedForSelection(p)' <=> UsedForSelection(p)
             /\ UsedForPercentiles(p)' <=> UsedForPercentiles(p)
  BY <1>5 DEF UsedForSelection, UsedForPercentiles
<1>8. \A p, t : Spoils(p, t)' <=> Spoils(p, t)
  BY <1>1, <1>3, <1>6, <1>7 DEF Spoils
<1>9. \A t : SymbolsPossible(t)' <=> SymbolsPossible(t)
  BY <1>3 DEF SymbolsPossible
<1>10. \A t : Lost(t)' <=> Lost(t)
  BY <1>4, <1>8, <1>9 DEF Lost
<1>11. \A t : Product(t)' = Product(t)
  <2>1. \A o, t : o \in Product(t)' <=> o \in Product(t)
    BY <1>1, <1>4, <1>5, <1>10 DEF Product
  <2> QED
    BY <2>1, <1>10 DEF Product
<1>12. \A c, t : Breaks(c, t)' <=> Breaks(c, t)
  BY <1>4, <1>8, <1>9 DEF Breaks
<1>13. \A o : Planned(o)' <=> Planned(o)
  BY <1>1, <1>4, <1>5 DEF Planned
<1>14. \A n : Collected(n)' = Collected(n)
  BY <1>13 DEF Collected
<1> QED
  BY <1>2, <1>11, <1>12, <1>13, <1>14

LEMMA GoingOnKeepsDelivery ==
    ASSUME DeliveryInv, IInv', NEW c \in Work, pc = c, ~Breaks(c, Now),
           NEW next \in Call \ {"saving"}, Turn[next] = Turn[c] + 1,
           Continue(PlannedOf(c), next)
    PROVE  DeliveryInv'
<1>1. /\ UNCHANGED <<inputs, step, unsaved, sink, outcome>>
      /\ pc' = next
      /\ DOMAIN toSave' = DOMAIN toSave \cup PlannedOf(c)
  BY DEF Continue, Collect
<1>2. Now' = Now
  BY <1>1 DEF Now, inputs
<1>3. c \in Call /\ next \in Call
  BY DEF Work
<1>4. \A d \in Work : Turn[d] < Turn[next] <=> Turn[d] < Turn[c] \/ d = c
  <2>1. \A d \in Work : d \in Call
    BY DEF Work
  <2> QED
    BY <1>3, <2>1, Turns
<1>5. SymbolsFirst'
  <2>1. next \in Work \ {"waves"} => c # "waves"
    BY DEF Work, Call, Turn
  <2> QED
    BY <1>1, <2>1 DEF DeliveryInv, SymbolsFirst, inputs
<1>6. CollectedSoFar'
  <2>1. DOMAIN toSave = Collected(Turn[c]) /\ \A d \in Work : Turn[d] < Turn[c] => ~Breaks(d, Now)
    BY <1>3 DEF DeliveryInv, CollectedSoFar
  <2>2. PlannedOf(c) = {o \in Output : Planned(o) /\ o \in Makes[c]}
    BY EveryOutputIsMade DEF PlannedOf
  <2>3. DOMAIN toSave \cup PlannedOf(c) = Collected(Turn[next])
    BY <1>4, <2>1, <2>2 DEF Collected
  <2>4. \A d \in Work : Turn[d] < Turn[next] => ~Breaks(d, Now)
    BY <1>4, <2>1
  <2> QED
    BY <1>1, <1>2, <2>3, <2>4, InputsDecide DEF CollectedSoFar
<1>7. SinkHasTheWritten' /\ NoDueTimeLeft'
  BY <1>1 DEF SinkHasTheWritten, NoDueTimeLeft, Call
<1>8. SettledGetTheirProduct'
  BY <1>1, InputsDecide DEF DeliveryInv, SettledGetTheirProduct, inputs
<1>9. SettledBehind'
  BY <1>1, <1>3, InputsDecide DEF DeliveryInv, SettledBehind, Call
<1> QED
  BY <1>5, <1>6, <1>7, <1>8, <1>9 DEF DeliveryInv

\* However work() ends, it has given the time its product.
LEMMA EndingKeepsDelivery ==
    ASSUME DeliveryInv, IInv', pc \in Call, NEW how \in {"noSymbols", "aborted", "saved"},
           Leave(how),
           \A o \in Output : <<o, Now>> \in DOMAIN sink <=> o \in Product(Now)
    PROVE  DeliveryInv'
<1>1. /\ UNCHANGED <<inputs, step, unsaved, sink>>
      /\ pc' = "next"
      /\ outcome' = [outcome EXCEPT ![step] = how]
  BY DEF Leave
<1>2. /\ step \in 1..Len(validTimes) /\ step \in DOMAIN validTimes
      /\ DOMAIN outcome = DOMAIN validTimes
  BY AxesAssumption DEF DeliveryInv, IInv, TypeOK
<1>3. \A i \in DOMAIN validTimes : outcome'[i] = IF i = step THEN how ELSE outcome[i]
  BY <1>1, <1>2
<1>4. SettledGetTheirProduct'
  BY <1>1, <1>3, InputsDecide DEF DeliveryInv, SettledGetTheirProduct, Now, inputs
<1>5. SettledBehind'
  <2>1. \A i \in 1..step : i \in DOMAIN validTimes
    BY <1>2, AxesAssumption DEF DeliveryInv, IInv, TypeOK
  <2>2. \A i \in 1..step : outcome'[i] # "pending"
    BY <1>2, <1>3, <2>1 DEF DeliveryInv, SettledBehind
  <2>3. Due(step)' /\ step' = step /\ step # 0
    BY <1>1, <1>2, InputsDecide DEF DeliveryInv, SettledBehind
  <2> QED
    BY <1>1, <2>2, <2>3 DEF SettledBehind
<1>6. SymbolsFirst' /\ CollectedSoFar' /\ SinkHasTheWritten' /\ NoDueTimeLeft'
  BY <1>1 DEF SymbolsFirst, CollectedSoFar, SinkHasTheWritten, NoDueTimeLeft, Work, Call
<1> QED
  BY <1>4, <1>5, <1>6 DEF DeliveryInv

LEMMA FailingKeepsDelivery ==
    ASSUME DeliveryInv, IInv', NEW c \in Work, pc = c, Breaks(c, Now),
           NEW how \in {"noSymbols", "aborted"}, Leave(how)
    PROVE  DeliveryInv'
<1>1. Product(Now) = {}
  BY LostWhenACallBreaks DEF Product
<1>2. pc \in Call /\ pc # "saving"
  BY DEF Work
<1>3. step \in DOMAIN validTimes /\ outcome[step] = "pending"
  BY <1>2, AxesAssumption DEF DeliveryInv, IInv, TypeOK, PendingAhead
<1>4. \A o \in Output : <<o, Now>> \notin DOMAIN sink
  BY <1>2, <1>3 DEF DeliveryInv, IInv, NothingFromUnfinishedSteps, Now
<1> QED
  BY <1>1, <1>2, <1>4, EndingKeepsDelivery

LEMMA SavedKeepsDelivery ==
    ASSUME DeliveryInv, IInv', Saved
    PROVE  DeliveryInv'
<1>1. pc = "saving" /\ pc \in Call /\ unsaved = {} /\ Leave("saved")
  BY DEF Saved, Call
<1>2. /\ DOMAIN toSave = Collected(Turn["saving"])
      /\ \A c \in Work : Turn[c] < Turn["saving"] => ~Breaks(c, Now)
  BY <1>1 DEF DeliveryInv, CollectedSoFar
<1>3. \A c \in Work : Turn[c] < Turn["saving"]
  BY DEF Turn, Work, Call
<1>4. ~Lost(Now)
  BY <1>2, <1>3, LostWhenACallBreaks
<1>5. DOMAIN toSave = {o \in Output : Planned(o)}
  BY <1>2, <1>3, EveryOutputIsMade DEF Collected
<1>6. Product(Now) = {o \in Output : <<o, Now>> \notin rejected /\ Planned(o)}
  BY <1>4 DEF Product, Planned
<1>7. \A o \in Output : <<o, Now>> \in DOMAIN sink <=> o \in Product(Now)
  BY <1>1, <1>5, <1>6 DEF DeliveryInv, SinkHasTheWritten
<1> QED
  BY <1>1, <1>7, EndingKeepsDelivery

LEMMA NextTimeKeepsDelivery ==
    ASSUME DeliveryInv, IInv', NextTime
    PROVE  DeliveryInv'
<1>1. /\ UNCHANGED <<inputs, unsaved, sink, outcome>>
      /\ pc' = IF "symbols" \in conf.excluded THEN "waves" ELSE "symbols"
      /\ step' = step + 1 /\ toSave' = Nothing
      /\ pc \in {"start", "next"}
      /\ pc = "start" => Present("CloudCover")
      /\ step < Len(validTimes) /\ validTimes[step + 1] < lastGenerateTime
  BY DEF NextTime, AtLoopTest, TimesFound, MoreToDo, Present
<1>2. step \in Nat /\ pc' \in Call
  BY <1>1 DEF DeliveryInv, IInv, TypeOK, Call
<1>3. Due(step + 1)
  <2>1. Present("CloudCover")
    BY <1>1 DEF DeliveryInv, SettledBehind, Due
  <2>2. \A j \in 1..step : validTimes[j] < lastGenerateTime
    BY <1>2 DEF DeliveryInv, SettledBehind, Due
  <2>3. \A j \in 1..step + 1 : j \in 1..step \/ j = step + 1
    BY <1>2
  <2> QED
    BY <1>1, <2>1, <2>2, <2>3 DEF Due
<1>4. SettledBehind'
  <2>1. \A i \in 1..step + 1 : i < step + 1 => i \in 1..step /\ outcome[i] # "pending"
    BY <1>1, <1>2 DEF DeliveryInv, SettledBehind, Call
  <2> QED
    BY <1>1, <1>2, <1>3, <2>1, InputsDecide DEF SettledBehind, Call
<1>5. SymbolsFirst'
  BY <1>1 DEF SymbolsFirst, inputs
<1>6. CollectedSoFar'
  <2>1. DOMAIN toSave' = {}
    BY <1>1 DEF Nothing
  <2>2. CASE pc' = "symbols"
    <3>1. \A c \in Work : ~(Turn[c] < Turn["symbols"])
      BY DEF Turn, Work, Call
    <3> QED
      BY <2>1, <2>2, <3>1 DEF CollectedSoFar, Collected
  <2>3. CASE pc' = "waves" /\ "symbols" \in conf.excluded
    <3>1. \A c \in Work : Turn[c] < Turn["waves"] => GroupOf[c] # "waves"
      BY DEF Turn, Work, Call, GroupOf
    <3>2. \A c \in Work : Turn[c] < Turn["waves"] => ~Made(GroupOf[c])
      BY <2>3, <3>1 DEF Made
    <3>3. \A c \in Work : Turn[c] < Turn["waves"] =>
             (\A t : ~Breaks(c, t)) /\ PlannedOf(c) = {}
      BY <3>2, NotCalled
    <3>4. Collected(Turn["waves"]) = {}
      BY <3>3 DEF Collected, PlannedOf
    <3>5. \A c \in Work : Turn[c] < Turn["waves"] => \A t : ~Breaks(c, t)'
      BY <1>1, <3>3, InputsDecide
    <3>6. \A c \in Work : Turn[c] < Turn["waves"] => ~Breaks(c, Now)'
      <4>1. \A c, t : Breaks(c, t)' <=> Breaks(c, t)
        BY <1>1, InputsDecide
      <4>2. \A c : Breaks(c, Now)' <=> Breaks(c, validTimes[step + 1])
        BY <1>1, <4>1 DEF Now, inputs
      <4> QED
        BY <3>3, <4>2
    <3> QED
      BY <1>1, <2>1, <2>3, <3>4, <3>6, InputsDecide DEF CollectedSoFar
  <2> QED
    BY <1>1, <2>2, <2>3
<1>7. SinkHasTheWritten' /\ NoDueTimeLeft'
  BY <1>1 DEF SinkHasTheWritten, NoDueTimeLeft
<1>8. SettledGetTheirProduct'
  BY <1>1, InputsDecide DEF DeliveryInv, SettledGetTheirProduct, inputs
<1> QED
  BY <1>4, <1>5, <1>6, <1>7, <1>8 DEF DeliveryInv

LEMMA FinishKeepsDelivery ==
    ASSUME DeliveryInv, IInv', Finish \/ NoDataFound
    PROVE  DeliveryInv'
<1>1. /\ UNCHANGED <<inputs, step, toSave, unsaved, sink, outcome>>
      /\ pc \in {"start", "next"} /\ pc' \in {"done", "failed"}
      /\ pc' = "done" => ~MoreToDo
  BY DEF Finish, NoDataFound, AtLoopTest
<1>2. NoDueTimeLeft'
  <2> SUFFICES ASSUME pc' = "done", NEW i \in DOMAIN validTimes, Due(i) PROVE i <= step
    BY <1>1, InputsDecide DEF NoDueTimeLeft, inputs
  <2>1. i \in 1..Len(validTimes) /\ step \in 0..Len(validTimes)
    BY AxesAssumption DEF DeliveryInv, IInv, TypeOK
  <2>2. ASSUME i > step PROVE FALSE
    <3>1. step < Len(validTimes) /\ step + 1 \in 1..i
      BY <2>1, <2>2
    <3>2. ~(validTimes[step + 1] < lastGenerateTime)
      BY <1>1, <3>1 DEF MoreToDo
    <3> QED
      BY <3>1, <3>2 DEF Due
  <2> QED
    BY <2>1, <2>2
<1>3. SettledBehind'
  BY <1>1, InputsDecide DEF DeliveryInv, SettledBehind, Call
<1>4. SettledGetTheirProduct'
  BY <1>1, InputsDecide DEF DeliveryInv, SettledGetTheirProduct, inputs
<1>5. SymbolsFirst' /\ CollectedSoFar' /\ SinkHasTheWritten'
  BY <1>1 DEF SymbolsFirst, CollectedSoFar, SinkHasTheWritten, Work, Call
<1> QED
  BY <1>2, <1>3, <1>4, <1>5 DEF DeliveryInv

LEMMA SaveAllKeepsDelivery ==
    ASSUME DeliveryInv, IInv', SaveAll
    PROVE  DeliveryInv'
<1>1. /\ UNCHANGED <<inputs, step, toSave, sink, outcome>>
      /\ pc = "saveAll" /\ pc' = "saving" /\ unsaved' = DOMAIN toSave
  BY DEF SaveAll
<1>2. Now' = Now
  BY <1>1 DEF Now, inputs
<1>3. CollectedSoFar'
  <2>1. \A c \in Work : Turn[c] < Turn["saveAll"] /\ Turn[c] < Turn["saving"]
    BY DEF Turn, Work, Call
  <2>2. Collected(Turn["saveAll"]) = Collected(Turn["saving"])
    BY <2>1 DEF Collected
  <2>3. /\ DOMAIN toSave = Collected(Turn["saving"])
        /\ \A c \in Work : ~Breaks(c, Now)
    BY <1>1, <2>1, <2>2 DEF DeliveryInv, CollectedSoFar, Call
  <2> QED
    BY <1>1, <1>2, <2>3, InputsDecide DEF CollectedSoFar
<1>4. SinkHasTheWritten'
  <2>1. step \in DOMAIN validTimes /\ outcome[step] = "pending"
    BY <1>1, AxesAssumption DEF DeliveryInv, IInv, TypeOK, PendingAhead, Call
  <2>2. \A o \in Output : <<o, Now>> \notin DOMAIN sink
    BY <1>1, <2>1 DEF DeliveryInv, IInv, NothingFromUnfinishedSteps, Now
  <2> QED
    BY <1>1, <1>2, <2>2 DEF SinkHasTheWritten
<1>5. SettledGetTheirProduct'
  BY <1>1, InputsDecide DEF DeliveryInv, SettledGetTheirProduct, inputs
<1>6. SettledBehind'
  BY <1>1, InputsDecide DEF DeliveryInv, SettledBehind, Call
<1>7. SymbolsFirst' /\ NoDueTimeLeft'
  BY <1>1 DEF SymbolsFirst, NoDueTimeLeft, Work
<1> QED
  BY <1>3, <1>4, <1>5, <1>6, <1>7 DEF DeliveryInv

LEMMA WriteKeepsDelivery ==
    ASSUME DeliveryInv, IInv', Write
    PROVE  DeliveryInv'
<1>1. /\ UNCHANGED <<inputs, pc, step, toSave, outcome>>
      /\ pc = "saving"
  BY DEF Write
<1>2. PICK o \in unsaved :
         /\ unsaved' = unsaved \ {o}
         /\ sink' = IF <<o, Now>> \in rejected THEN sink
                    ELSE [k \in DOMAIN sink \cup {<<o, Now>>} |->
                            IF k = <<o, Now>> THEN toSave[o] ELSE sink[k]]
  BY DEF Write
<1>3. Now' = Now
  BY <1>1 DEF Now, inputs
<1>4. o \in DOMAIN toSave /\ step \in DOMAIN validTimes /\ outcome[step] = "pending"
  BY <1>1, AxesAssumption DEF DeliveryInv, IInv, TypeOK, PendingAhead, Call
<1>5. \A k : k \in DOMAIN sink' <=>
             k \in DOMAIN sink \/ (k = <<o, Now>> /\ <<o, Now>> \notin rejected)
  BY <1>2
<1>6. SinkHasTheWritten'
  <2> SUFFICES ASSUME NEW p \in Output
               PROVE  <<p, Now>> \in DOMAIN sink' <=>
                          p \in DOMAIN toSave \ (unsaved \ {o}) /\ <<p, Now>> \notin rejected
    BY <1>1, <1>2, <1>3 DEF SinkHasTheWritten, inputs
  <2>1. <<p, Now>> \in DOMAIN sink <=> p \in DOMAIN toSave \ unsaved /\ <<p, Now>> \notin rejected
    BY <1>1 DEF DeliveryInv, SinkHasTheWritten
  <2>2. <<p, Now>> = <<o, Now>> <=> p = o
    OBVIOUS
  <2> QED
    BY <1>4, <1>5, <2>1, <2>2
<1>7. SettledGetTheirProduct'
  <2> SUFFICES ASSUME NEW i \in DOMAIN validTimes, outcome[i] # "pending", NEW p \in Output
               PROVE  <<p, validTimes[i]>> \in DOMAIN sink' <=> p \in Product(validTimes[i])
    BY <1>1, InputsDecide DEF SettledGetTheirProduct, inputs
  <2>1. validTimes[i] # Now
    BY <1>4, AxesAssumption DEF DeliveryInv, IInv, TypeOK, Now
  <2>2. <<p, validTimes[i]>> # <<o, Now>>
    BY <2>1
  <2> QED
    BY <1>5, <2>2 DEF DeliveryInv, SettledGetTheirProduct
<1>8. CollectedSoFar'
  BY <1>1, <1>3, InputsDecide DEF DeliveryInv, CollectedSoFar
<1>9. SettledBehind'
  BY <1>1, InputsDecide DEF DeliveryInv, SettledBehind
<1>10. SymbolsFirst' /\ NoDueTimeLeft'
  BY <1>1 DEF SymbolsFirst, NoDueTimeLeft, Work
<1> QED
  BY <1>6, <1>7, <1>8, <1>9, <1>10 DEF DeliveryInv

LEMMA StepKeepsDelivery == DeliveryInv /\ [Next]_vars => DeliveryInv'
<1> SUFFICES ASSUME DeliveryInv, [Next]_vars PROVE DeliveryInv'
  OBVIOUS
<1>0. IInv'
  BY StepKeepsIInv DEF DeliveryInv
<1>1. CASE NextTime
  BY <1>0, <1>1, NextTimeKeepsDelivery
<1>2. CASE Finish \/ NoDataFound
  BY <1>0, <1>2, FinishKeepsDelivery
<1>3. CASE SymbolsFail \/ Symbols \/ Clouds \/ Temperature \/ TemperatureMin
           \/ TemperatureMax \/ Wind \/ Precipitation \/ AirPressure
           \/ Humidity \/ Waves
  <2>1. Present("CloudCover")
    <3>1. pc \in Call
      BY <1>3, CallStep DEF GoesOn, Call
    <3> QED
      BY <3>1 DEF DeliveryInv, IInv, TypeOK, SettledBehind, Due
  <2>2. PICK c \in Work : Delivers(c)
    BY <1>3, <2>1, CallDelivers DEF DeliveryInv, IInv
  <2> QED
    BY <1>0, <2>2, GoingOnKeepsDelivery, FailingKeepsDelivery DEF Delivers
<1>4. CASE SaveAll
  BY <1>0, <1>4, SaveAllKeepsDelivery
<1>5. CASE Write
  BY <1>0, <1>5, WriteKeepsDelivery
<1>6. CASE Saved
  BY <1>0, <1>6, SavedKeepsDelivery
<1>7. CASE Terminated \/ UNCHANGED vars
  <2>1. UNCHANGED inputs /\ UNCHANGED <<pc, step, toSave, unsaved, sink, outcome>>
    BY <1>7 DEF Terminated, vars, inputs
  <2>2. Now' = Now
    BY <2>1 DEF Now, inputs
  <2>3. SymbolsFirst' /\ CollectedSoFar' /\ SinkHasTheWritten'
    BY <2>1, <2>2, InputsDecide DEF DeliveryInv, SymbolsFirst, CollectedSoFar,
       SinkHasTheWritten, inputs
  <2>4. SettledGetTheirProduct' /\ SettledBehind' /\ NoDueTimeLeft'
    BY <2>1, InputsDecide DEF DeliveryInv, SettledGetTheirProduct, SettledBehind,
       NoDueTimeLeft, inputs
  <2> QED
    BY <1>0, <2>3, <2>4 DEF DeliveryInv
<1> QED
  BY <1>1, <1>2, <1>3, <1>4, <1>5, <1>6, <1>7 DEF Next

-----------------------------------------------------------------------------
(* The loop implements ForecastDelivery, as far as safety goes. *)

\* The fields the sink has of the settled times, by position.
Sent == {w \in Settled \X Output : <<w[2], validTimes[w[1]]>> \in DOMAIN sink}

LEMMA SettledCount ==
    ASSUME DeliveryInv
    PROVE  /\ Settled = 1..(IF pc \in Call THEN step - 1 ELSE step)
           /\ Cardinality(Settled) = IF pc \in Call THEN step - 1 ELSE step
<1> DEFINE n == IF pc \in Call THEN step - 1 ELSE step
<1>1. /\ step \in 0..Len(validTimes) /\ DOMAIN outcome = DOMAIN validTimes
      /\ DOMAIN validTimes = 1..Len(validTimes) /\ Len(validTimes) \in Nat
      /\ pc \in Call => step # 0
  BY AxesAssumption DEF DeliveryInv, IInv, TypeOK
<1>2. n \in Nat /\ n <= Len(validTimes)
  BY <1>1
<1>3. \A i \in 1..Len(validTimes) : outcome[i] # "pending" <=> i <= n
  <2> SUFFICES ASSUME NEW i \in 1..Len(validTimes) PROVE outcome[i] # "pending" <=> i <= n
    OBVIOUS
  <2>1. i > step \/ (i = step /\ pc \in Call) => outcome[i] = "pending"
    BY <1>1 DEF DeliveryInv, IInv, PendingAhead
  <2>2. i < step \/ (i = step /\ pc \notin Call) => outcome[i] # "pending"
    BY <1>1 DEF DeliveryInv, SettledBehind
  <2> QED
    BY <1>1, <2>1, <2>2
<1>4. Settled = 1..n
  BY <1>1, <1>2, <1>3 DEF Settled
<1> HIDE DEF n
<1>5. Cardinality(1..n) = n
  BY <1>2, FS_Interval
<1> QED
  BY <1>4, <1>5 DEF n

LEMMA DueUntilNow ==
    ASSUME DeliveryInv, step # 0
    PROVE  DueCount \in Nat /\ step \in 1..DueCount
<1> DEFINE D == {i \in DOMAIN validTimes : Due(i)}
<1>1. /\ step \in 1..Len(validTimes) /\ step \in Nat /\ Len(validTimes) \in Nat
      /\ DOMAIN validTimes = 1..Len(validTimes)
  BY AxesAssumption DEF DeliveryInv, IInv, TypeOK
<1>2. IsFiniteSet(1..Len(validTimes)) /\ Cardinality(1..step) = step
  BY <1>1, FS_Interval
<1>3. IsFiniteSet(D) /\ Cardinality(D) \in Nat
  <2>1. D \subseteq 1..Len(validTimes)
    BY <1>1
  <2> HIDE DEF D
  <2> QED
    BY <1>2, <2>1, FS_Subset, FS_CardinalityType
<1>4. 1..step \subseteq D
  <2>1. Present("CloudCover") /\ \A j \in 1..step : validTimes[j] < lastGenerateTime
    BY DEF DeliveryInv, SettledBehind, Due
  <2>2. ASSUME NEW i \in 1..step PROVE i \in D
    <3>1. \A j \in 1..i : j \in 1..step
      BY <1>1, <2>2
    <3> QED
      BY <1>1, <2>1, <3>1 DEF Due
  <2> QED
    BY <2>2
<1> HIDE DEF D
<1>5. step <= Cardinality(D)
  BY <1>2, <1>3, <1>4, FS_Subset
<1>6. DueCount = Cardinality(D)
  BY DEF DueCount, D
<1> QED
  BY <1>1, <1>3, <1>5, <1>6

\* A step of the loop settles nothing, or ends work().
LEMMA SettlingSteps ==
    ASSUME TypeOK, [Next]_vars
    PROVE  /\ UNCHANGED inputs
           /\ \/ outcome' = outcome /\ (sink' = sink \/ Write)
              \/ /\ pc \in Call /\ sink' = sink
                 /\ \E how \in {"noSymbols", "aborted", "saved"} : Leave(how)
<1>1. CASE NextTime \/ Finish \/ NoDataFound \/ SaveAll
  BY <1>1 DEF NextTime, Finish, NoDataFound, SaveAll, inputs
<1>2. CASE SymbolsFail \/ Symbols \/ Clouds \/ Temperature \/ TemperatureMin
           \/ TemperatureMax \/ Wind \/ Precipitation \/ AirPressure
           \/ Humidity \/ Waves
  <2>1. CASE pc \in Call \ {"saveAll", "saving"} /\ \E how \in {"noSymbols", "aborted"} : Leave(how)
    BY <2>1 DEF Leave
  <2>2. \A here, outputs, next : GoesOn(here, outputs, next) =>
            UNCHANGED inputs /\ outcome' = outcome /\ sink' = sink
    BY DEF GoesOn, Continue
  <2> QED
    BY <1>2, <2>1, <2>2, CallStep
<1>3. CASE Write
  BY <1>3 DEF Write
<1>4. CASE Saved
  BY <1>4 DEF Saved, Leave, Call
<1>5. CASE Terminated \/ UNCHANGED vars
  BY <1>5 DEF Terminated, vars, inputs
<1> QED
  BY <1>1, <1>2, <1>3, <1>4, <1>5 DEF Next

LEMMA SettlingNothing ==
    ASSUME DeliveryInv, UNCHANGED inputs, outcome' = outcome, sink' = sink \/ Write
    PROVE  Settled' = Settled /\ Sent' = Sent
<1>1. Settled' = Settled
  BY DEF Settled
<1>2. CASE sink' = sink
  BY <1>1, <1>2 DEF Sent, inputs
<1>3. CASE Write
  <2>1. step \in DOMAIN validTimes /\ outcome[step] = "pending"
    BY <1>3, AxesAssumption DEF Write, DeliveryInv, IInv, TypeOK, PendingAhead, Call
  <2>2. \A k : k[2] # Now => (k \in DOMAIN sink' <=> k \in DOMAIN sink)
    <3>1. \E o : \A k : k \in DOMAIN sink' => k \in DOMAIN sink \/ k = <<o, Now>>
      BY <1>3 DEF Write
    <3>2. \A k : k \in DOMAIN sink => k \in DOMAIN sink'
      BY <1>3 DEF Write
    <3> QED
      BY <3>1, <3>2
  <2>3. \A i \in Settled : validTimes[i] # Now
    BY <2>1, AxesAssumption DEF Settled, DeliveryInv, IInv, TypeOK, Now
  <2>4. \A w \in Settled \X Output :
            <<w[2], validTimes[w[1]]>> \in DOMAIN sink'
                 <=> <<w[2], validTimes[w[1]]>> \in DOMAIN sink
    BY <2>2, <2>3
  <2> QED
    BY <1>1, <2>4 DEF Sent, inputs
<1> QED
  BY <1>1, <1>2, <1>3

LEMMA SettlingOne ==
    ASSUME DeliveryInv, DeliveryInv', pc \in Call, UNCHANGED inputs, sink' = sink,
           NEW how \in {"noSymbols", "aborted", "saved"}, Leave(how)
    PROVE  /\ step \in 1..DueCount /\ DueCount \in Nat
           /\ Cardinality(Settled) = step - 1 /\ step \in Nat
           /\ Cardinality(Settled)' = step
           /\ Sent' = Sent \cup ({step} \X Product(validTimes[step]))
<1>1. step # 0 /\ step' = step /\ pc' = "next" /\ step \in Nat
  BY DEF Leave, DeliveryInv, IInv, TypeOK
<1>2. step \in 1..DueCount /\ DueCount \in Nat
  BY <1>1, DueUntilNow
<1>3. Cardinality(Settled) = step - 1 /\ Settled = 1..(step - 1)
  BY SettledCount
<1>4. DeliveryInv => Settled = 1..(IF pc \in Call THEN step - 1 ELSE step)
                     /\ Cardinality(Settled) = IF pc \in Call THEN step - 1 ELSE step
  BY SettledCount
<1>5. step \in DOMAIN validTimes /\ DOMAIN outcome = DOMAIN validTimes
  BY <1>1, AxesAssumption DEF DeliveryInv, IInv, TypeOK
<1>6. outcome' = [outcome EXCEPT ![step] = how]
  BY DEF Leave
<1>7. Settled' = 1..step
  <2>1. Settled' = Settled \cup {step}
    BY <1>5, <1>6 DEF Settled
  <2> QED
    BY <1>1, <1>3, <2>1
<1>8. Cardinality(Settled') = step
  <2>1. Cardinality(1..step) = step
    BY <1>1, FS_Interval
  <2> QED
    BY <1>7, <2>1
<1>9. \A o \in Output : <<o, validTimes[step]>> \in DOMAIN sink <=> o \in Product(validTimes[step])
  <2>1. outcome'[step] # "pending"
    BY <1>5, <1>6
  <2> QED
    BY <1>5, <2>1, InputsDecide DEF DeliveryInv, SettledGetTheirProduct, inputs
<1>10. Product(validTimes[step]) \subseteq Output
  BY DEF Product
<1>11. Sent' = Sent \cup ({step} \X Product(validTimes[step]))
  <2>1. Sent' = {w \in (1..step) \X Output : <<w[2], validTimes[w[1]]>> \in DOMAIN sink}
    BY <1>7 DEF Sent, inputs
  <2>2. Sent = {w \in (1..(step - 1)) \X Output : <<w[2], validTimes[w[1]]>> \in DOMAIN sink}
    BY <1>3 DEF Sent
  <2>3. 1..step = (1..(step - 1)) \cup {step}
    BY <1>1
  <2>4. \A w : w \in Sent' <=>
           \/ w \in Sent
           \/ w \in {step} \X Output /\ <<w[2], validTimes[step]>> \in DOMAIN sink
    BY <2>1, <2>2, <2>3
  <2>5. \A w : w \in {step} \X Product(validTimes[step]) <=>
                  w \in {step} \X Output /\ <<w[2], validTimes[step]>> \in DOMAIN sink
    BY <1>9, <1>10
  <2> QED
    BY <2>4, <2>5
<1> QED
  BY <1>1, <1>2, <1>3, <1>8, <1>11

LEMMA StepSettles ==
    ASSUME DeliveryInv, DeliveryInv', [Next]_vars
    PROVE  [Delivery!Settle]_(Delivery!dvars)
<1> DEFINE promised == [i \in 1..DueCount |-> Product(validTimes[i])]
<1>1. /\ UNCHANGED inputs
      /\ \/ outcome' = outcome /\ (sink' = sink \/ Write)
         \/ /\ pc \in Call /\ sink' = sink
            /\ \E how \in {"noSymbols", "aborted", "saved"} : Leave(how)
  BY SettlingSteps DEF DeliveryInv, IInv
<1>2. CASE outcome' = outcome /\ (sink' = sink \/ Write)
  <2>1. Settled' = Settled /\ Sent' = Sent
    BY <1>1, <1>2, SettlingNothing
  <2> QED
    BY <2>1 DEF Delivery!dvars, Sent
<1>3. CASE pc \in Call /\ sink' = sink /\ \E how \in {"noSymbols", "aborted", "saved"} : Leave(how)
  <2>1. /\ step \in 1..DueCount /\ DueCount \in Nat
        /\ Cardinality(Settled) = step - 1 /\ step \in Nat
        /\ Cardinality(Settled)' = step
        /\ Sent' = Sent \cup ({step} \X Product(validTimes[step]))
    BY <1>1, <1>3, SettlingOne
  <2>2. Len(promised) = DueCount /\ promised[step] = Product(validTimes[step])
    BY <2>1
  <2>3. (step - 1) + 1 = step /\ step - 1 < DueCount
    BY <2>1
  <2> HIDE DEF promised
  <2>4. /\ Cardinality(Settled) < Len(promised)
        /\ Cardinality(Settled)' = Cardinality(Settled) + 1
        /\ Sent' = Sent \cup ({Cardinality(Settled) + 1} \X promised[Cardinality(Settled) + 1])
    BY <2>1, <2>2, <2>3
  <2>5. Delivery!Settle
    BY <2>4 DEF Delivery!Settle, Sent, promised
  <2> QED
    BY <2>5
<1> QED
  BY <1>1, <1>2, <1>3

LEMMA InitDelivers == Init => Delivery!Init
<1> SUFFICES ASSUME Init PROVE Delivery!Init
  OBVIOUS
<1>1. Settled = {}
  BY DEF Init, Settled
<1>2. Cardinality(Settled) = 0
  BY <1>1, FS_EmptySet
<1>3. Sent = {}
  BY <1>1 DEF Sent
<1> QED
  BY <1>2, <1>3 DEF Delivery!Init, Sent

LEMMA DeliveryInvariant == Spec => []DeliveryInv
<1> QED
  BY InitDeliveryInv, StepKeepsDelivery, PTL DEF Spec

(* The loop implements ForecastDelivery in all but its fairness: it settles *)
(* the due times one after the other, and a time that is settled has got    *)
(* exactly its product, whatever failed at this or at another time.         *)
THEOREM LoopImplementsDelivery == Spec => Delivery!Init /\ [][Delivery!Settle]_(Delivery!dvars)
<1>1. DeliveryInv /\ DeliveryInv' /\ [Next]_vars => [Delivery!Settle]_(Delivery!dvars)
  BY StepSettles
<1> QED
  BY <1>1, InitDelivers, DeliveryInvariant, PTL DEF Spec

-----------------------------------------------------------------------------
(* What the program needs to know of the loop, beyond DeliveryInv. *)

\* Nothing is in the sink that is left out on purpose.
OnlyPlanned == \A w \in DOMAIN sink : w[1] \in Output /\ Planned(w[1])

LEMMA StepKeepsPlanned == DeliveryInv /\ OnlyPlanned /\ [Next]_vars => OnlyPlanned'
<1> SUFFICES ASSUME DeliveryInv, OnlyPlanned, [Next]_vars PROVE OnlyPlanned'
  OBVIOUS
<1>1. TypeOK
  BY DEF DeliveryInv, IInv
<1>2. UNCHANGED inputs
  BY <1>1, SettlingSteps
<1>3. \A o : Planned(o)' <=> Planned(o)
  BY <1>2, InputsDecide
<1>4. CASE sink' = sink
  BY <1>3, <1>4 DEF OnlyPlanned
<1>5. CASE Write
  <2>1. PICK o \in unsaved :
           sink' = IF <<o, Now>> \in rejected THEN sink
                   ELSE [k \in DOMAIN sink \cup {<<o, Now>>} |->
                           IF k = <<o, Now>> THEN toSave[o] ELSE sink[k]]
    BY <1>5 DEF Write
  <2>2. \A k \in DOMAIN sink' : k \in DOMAIN sink \/ k = <<o, Now>>
    BY <2>1
  <2>3. pc \in Call
    BY <1>5 DEF Write, Call
  <2>4. o \in Output /\ Planned(o)
    BY <1>1, <2>3 DEF DeliveryInv, CollectedSoFar, Collected, TypeOK
  <2> QED
    BY <1>3, <2>2, <2>4 DEF OnlyPlanned
<1> QED
  BY <1>1, <1>4, <1>5, SettlingSteps

\* The loop stays at a time until it has saved it, and then goes on to the next.
LEMMA StepsGoForward ==
    ASSUME TypeOK, [Next]_vars
    PROVE  \/ step' = step + 1
           \/ /\ step' = step
              /\ pc' \in Call \ {"saving"} => pc \in Call \ {"saving"}
              /\ pc' = "saving" => pc \in Call /\ (pc = "saving" => unsaved' \subseteq unsaved)
<1>1. CASE NextTime
  BY <1>1 DEF NextTime
<1>2. CASE Finish \/ NoDataFound
  BY <1>2 DEF Finish, NoDataFound, Call
<1>3. CASE SymbolsFail \/ Symbols \/ Clouds \/ Temperature \/ TemperatureMin
           \/ TemperatureMax \/ Wind \/ Precipitation \/ AirPressure
           \/ Humidity \/ Waves
  <2>1. \A how : Leave(how) => step' = step /\ pc' = "next"
    BY DEF Leave
  <2>2. \A outputs : \A here, next \in Call \ {"saving"} :
            GoesOn(here, outputs, next) => step' = step /\ pc' = next /\ pc = here
    BY DEF GoesOn, Continue
  <2> QED
    BY <1>3, <2>1, <2>2, CallStep DEF Call
<1>4. CASE SaveAll
  BY <1>4 DEF SaveAll, Call
<1>5. CASE Write
  BY <1>5 DEF Write, Call
<1>6. CASE Saved
  BY <1>6 DEF Saved, Leave, Call
<1>7. CASE Terminated \/ UNCHANGED vars
  BY <1>7 DEF Terminated, vars, Call
<1> QED
  BY <1>1, <1>2, <1>3, <1>4, <1>5, <1>6, <1>7 DEF Next

\* What is collected was made from inputs whose times the axis has.
LEMMA TimesOfTheInputs ==
    ASSUME DeliveryInv, pc = "saving", NEW o \in DOMAIN toSave
    PROVE  /\ \A p \in Recipe(o)[3] : Now + InOffset[p] \in Range(validTimes)
           /\ Recipe(o)[1] # "waves" =>
                 /\ \A p \in {"CloudCover", "PrecipitationInFrom", "PrecipitationInTo"} :
                       Now + InOffset[p] \in Range(validTimes)
                 /\ Now + SymbolRange + InOffset["CloudCover"] \in Range(validTimes)
<1>1. o \in Output /\ Planned(o) /\ \A c \in Work : ~Breaks(c, Now)
  <2>1. pc \in Call /\ \A c \in Work : Turn[c] < Turn["saving"]
    <3>1. Turn["saving"] = 12 /\ pc \in Call
      BY DEF Turn, Call
    <3>2. \A c \in Work : Turn[c] \in 1..12 /\ Turn[c] < 11
      BY Turns DEF Work
    <3> QED
      BY <3>1, <3>2
  <2> QED
    BY <2>1 DEF DeliveryInv, CollectedSoFar, Collected
<1>2. ~Lost(Now)
  BY <1>1, LostWhenACallBreaks
<1>3. \A p \in Recipe(o)[3] : p \in Input /\ Read(p) /\ Present(p)
  <2>1. \A p \in Recipe(o)[3] : Present(p)
    BY <1>1 DEF Planned
  <2>2. PICK c \in Work : o \in Makes[c]
    BY <1>1, EveryOutputIsMade
  <2>3. /\ Recipe(o)[3] \subseteq Reads[c]
        /\ \A p \in Recipe(o)[3] : /\ p \in SelectedOnly => Recipe(o)[2] = FALSE
                                   /\ Forerunners(p) \subseteq Recipe(o)[3]
    BY <1>1, <2>2, OutputMembers DEF Work, Call, Makes, Reads, Recipe, Forerunners, SelectedOnly,
       CloudInputs, CloudOutputs, TemperatureOutputs, PrecipitationInputs, PrecipitationOutputs
  <2>4. \A p \in Recipe(o)[3] : p \in Input /\ InputGroup(p) = Recipe(o)[1]
    BY <2>2, <2>3, GroupsOfCalls
  <2>5. \A p \in Recipe(o)[3] : p \in SelectedOnly => Simplified
    BY <1>1, <2>3 DEF Planned
  <2> QED
    BY <1>1, <2>1, <2>3, <2>4, <2>5 DEF Read, Planned
<1>4. \A p \in Recipe(o)[3] : Readable(p, Now)
  BY <1>2, <1>3 DEF Lost, Spoils
<1>5. Recipe(o)[1] # "waves" => SymbolsPossible(Now)
  BY <1>1, <1>2 DEF Lost, Planned, Made
<1> QED
  BY <1>4, <1>5 DEF SymbolsPossible, Readable

=============================================================================
