------------------------ MODULE ProbabilityGenerator ------------------------
(***************************************************************************)
(* The generation loop of eps2probandltf: ProbabilityGeneratorControl      *)
(* walks the valid times of an ensemble file, and for each of them a       *)
(* ProbabilityGenerator reads the source, collects one field per output in *)
(* toSave_ and hands the collection to the sink at the very end.           *)
(*                                                                         *)
(* The program is sequential.  What makes it hard to test is its error     *)
(* handling: every generate*_ function may stop half way, with one of      *)
(* several exceptions, and each is treated differently by work().          *)
(*                                                                         *)
(* Abstractions.  A file entry is described by what the reader tells apart *)
(* (variable absent, no ensemble dimension, number of members).  A field   *)
(* is one grid point: the generators loop over the points independently.   *)
(* Only the temperature fields carry a value.  Outputs that are always     *)
(* made together count as one, see WeatherParameters.  Times are in hours. *)
(***************************************************************************)
EXTENDS WeatherParameters, Integers, FiniteSets, Functions

CONSTANTS
    Axes,           \* the time axes a file may have, each a sequence of hours
    Files,          \* the contents a file may have, see Entry
    Configurations, \* the generator configurations, see Configuration
    Rejectable,     \* writes the sink may refuse, <<output, time>>: no translation
                    \* for the output, or no such time in the file
    Unselectable,   \* times at which some grid point may get no symbol
    Temps,          \* the values a selected temperature can take
    InOffset        \* time_offset of each input parameter

-----------------------------------------------------------------------------
\* What a source file holds for one input parameter.
Entry == [kind : {"absent", "noEnsemble", "ensemble"}, members : Nat]

Configuration == [excluded : SUBSET Group,
                  excludePercentiles : BOOLEAN,
                  excludeSimplifiedProbabilities : BOOLEAN,
                  numberOfHoursToGenerate : Nat]

Field == 0              \* a field whose values no property tells apart
Value == Temps \cup {Field}

\* Hard-coded in generateSymbols_, independently of InOffset.
SymbolRange == 6

ASSUME AxesAssumption ==
    \A a \in Axes : /\ a \in Seq(Nat)
                    /\ \A i, j \in DOMAIN a : a[i] = a[j] => i = j
ASSUME ChoicesAssumption ==
    /\ Files \subseteq [Input -> Entry]
    /\ Configurations \subseteq Configuration
    /\ Rejectable \subseteq Output \X Nat
    /\ Temps \subseteq Int /\ Temps # {}
    /\ InOffset \in [Input -> Nat]

VARIABLES
    conf,         \* conf_, fixed when the program starts
    validTimes,   \* source_.getValidTimes()
    file,         \* what the source holds for every input
    unselectable, \* times at which selectSymbol finds no symbol somewhere
    rejected,     \* writes the sink throws on
    pc,           \* the call work() is about to make
    step,         \* position of "it" in validTimes, 0 before the loop
    toSave,       \* toSave_ of the current ProbabilityGenerator
    unsaved,      \* what saveAll_ has still to write
    sink,         \* accepted writes: <<output, time>> -> value
    outcome       \* history: how work() ended at each position of the axis

inputs == <<conf, validTimes, file, unselectable, rejected>>
vars == <<conf, validTimes, file, unselectable, rejected,
          pc, step, toSave, unsaved, sink, outcome>>

-----------------------------------------------------------------------------
(* Reading and computing: the status a piece of code ends with. *)

Now == validTimes[step]

Simplified  == ~conf.excludeSimplifiedProbabilities
Percentiles == ~conf.excludePercentiles

Called(group) == group \notin conf.excluded

lastGenerateTime == validTimes[1] + conf.numberOfHoursToGenerate

\* Bug variant of getData_: the search for the time stops at the last one.
DataOfLastTime(p, t) ==
    CASE file[p].kind = "absent" -> "DataNotAvailable"
      [] file[p].kind = "noEnsemble" -> "runtime_error"
      [] file[p].kind = "ensemble" /\ file[p].members = 0 -> "runtime_error"
      [] OTHER -> "ok"

\* FimexSource::getData and the emptiness check of getData_.
getData_(p, t) ==
    CASE file[p].kind = "absent" -> "DataNotAvailable"
      [] file[p].kind = "noEnsemble" -> "runtime_error"
      [] /\ file[p].kind = "ensemble"
         /\ t + InOffset[p] \notin Range(validTimes) -> "out_of_range"
      [] /\ file[p].kind = "ensemble"
         /\ t + InOffset[p] \in Range(validTimes)
         /\ file[p].members = 0 -> "runtime_error"
      [] OTHER -> "ok"

\* getProbableValues: every member needs a symbol, and symbols has as many
\* members as cloud cover.
Probable(p) ==
    IF file[p].members = file["CloudCover"].members THEN "ok" ELSE "runtime_error"

\* The 10 percentile is at((size * 0.1) - 1), which underflows below ten members.
PercentilesOf(p) ==
    IF file[p].members \div 10 >= 1 THEN "ok" ELSE "out_of_range"

\* getPrecipitationSum_ reads From with at() for every member of To.
Difference ==
    IF file["PrecipitationInTo"].members <= file["PrecipitationInFrom"].members
    THEN "ok" ELSE "out_of_range"

\* getSymbols walks the cloud cover and looks up the precipitation of every
\* member through a CrossContainer, which reads with at().
PrecipitationOfEveryMember ==
    IF file["CloudCover"].members <= file["PrecipitationInTo"].members
    THEN "ok" ELSE "out_of_range"

\* A grid point without a symbol (Error) makes getProbabilityFactor throw.
selectSymbols(t) == IF t \in unselectable THEN "logic_error" ELSE "ok"

\* One statement of a generate function: when it is reached, it ends with a
\* status and, if that is "ok", has put some outputs in toSave_.
Do(when, status, outputs) ==
    [status |-> IF when THEN status ELSE "ok",
     writes |-> IF when THEN outputs ELSE {}]

\* generateSimple_: read, select, store.
Simple(p, t) == IF getData_(p, t) = "ok" THEN Probable(p) ELSE getData_(p, t)

Failing(code) == {i \in DOMAIN code : code[i].status # "ok"}
Reached(code) == {i \in DOMAIN code : \A j \in Failing(code) : i < j}
Ending(code) ==
    IF Failing(code) = {} THEN "ok"
    ELSE code[CHOOSE i \in Failing(code) : \A j \in Failing(code) : i <= j].status
Stored(code) == UNION {code[i].writes : i \in Reached(code)}

-----------------------------------------------------------------------------
(* The generate functions, as the statements they execute at time t. *)

generateSymbols_(t) == <<
    Do(TRUE, getData_("CloudCover", t), {}),
    Do(TRUE, getData_("CloudCover", t + SymbolRange), {}),
    Do(TRUE, getData_("PrecipitationInFrom", t), {}),
    Do(TRUE, getData_("PrecipitationInTo", t), {}),
    Do(TRUE, Difference, {}),
    Do(TRUE, PrecipitationOfEveryMember, {}),
    Do(TRUE, selectSymbols(t), {}),
    Do(Simplified, "ok", {"YrSymbol", "ProbabilityOfYrSymbol"}) >>

generateClouds_(t) == <<
    Do(TRUE, getData_("CloudCover", t), {}),
    Do(Simplified, Probable("CloudCover"), {"CloudCover"}),
    Do(Percentiles, PercentilesOf("CloudCover"), {"CloudCoverPercentiles"}),
    Do(Simplified, Simple("LowCloudCover", t), {"LowCloudCover"}),
    Do(Simplified, Simple("MediumCloudCover", t), {"MediumCloudCover"}),
    Do(Simplified, Simple("HighCloudCover", t), {"HighCloudCover"}) >>

generateTemperature_(t) == <<
    Do(TRUE, Simple("Temperature", t), {}),
    Do(Simplified, "ok", {"Temperature"}),
    Do(Percentiles, PercentilesOf("Temperature"), {"TemperaturePercentiles"}),
    Do(Simplified, "ok", {"TemperatureProbabilities"}) >>

generateTemperatureMin_(t) == <<
    Do(Simplified, Simple("TemperatureMin", t), {"TemperatureMin"}) >>

generateTemperatureMax_(t) == <<
    Do(Simplified, Simple("TemperatureMax", t), {"TemperatureMax"}) >>

generateWind_(t) == <<
    Do(TRUE, getData_("WindU", t), {}),
    Do(TRUE, getData_("WindV", t), {}),
    Do(Simplified, Probable("WindU"), {"Wind"}),
    Do(Percentiles, PercentilesOf("WindU"), {"WindPercentiles"}) >>

generatePrecipitation_(t) == <<
    Do(TRUE, getData_("PrecipitationInFrom", t), {}),
    Do(TRUE, getData_("PrecipitationInTo", t), {}),
    Do(TRUE, Difference, {}),
    Do(TRUE, Probable("PrecipitationInTo"), {}),
    Do(Simplified, "ok", {"PrecipitationOut"}),
    Do(Percentiles, PercentilesOf("PrecipitationInTo"),
       {"PrecipitationPercentiles"}) >>

generateAirPressure_(t) == <<
    Do(Simplified, Simple("AirPressure", t), {"AirPressure"}) >>

generateHumidity_(t) == <<
    Do(Simplified, Simple("RelativeHumidity", t), {"RelativeHumidity"}) >>

generateWaves_(t) == <<
    Do(TRUE, getData_("SignificantWaveHeight", t), {}),
    Do(Percentiles, PercentilesOf("SignificantWaveHeight"),
       {"SignificantWaveHeightPercentiles"}) >>

-----------------------------------------------------------------------------
(* toSave_ and the sink *)

Nothing == [o \in {} |-> Field]

MinOf(a, b) == IF a <= b THEN a ELSE b
MaxOf(a, b) == IF a <= b THEN b ELSE a

\* Bug variant of Stores: TAX corrected with std::min, copied from TAN.
StoresTwoMinima(o, v) ==
    IF o \in {"TemperatureMin", "TemperatureMax"} /\ "Temperature" \in DOMAIN toSave
    THEN MinOf(v, toSave["Temperature"])
    ELSE IF o \in {"Temperature", "TemperatureMin", "TemperatureMax"} THEN v
    ELSE Field

\* What is stored for output o when v is the value selected for its field.
\* TAN and TAX are corrected, in the function that makes them, against the
\* temperature found in toSave_; without one they stay as selected.
Stores(o, v) ==
    IF o = "Temperature" THEN v
    ELSE IF o = "TemperatureMin"
         THEN IF "Temperature" \in DOMAIN toSave
              THEN MinOf(v, toSave["Temperature"]) ELSE v
    ELSE IF o = "TemperatureMax"
         THEN IF "Temperature" \in DOMAIN toSave
              THEN MaxOf(v, toSave["Temperature"]) ELSE v
    ELSE Field

Collect(outputs, v) ==
    [o \in DOMAIN toSave \cup outputs |->
        IF o \in outputs THEN Stores(o, v) ELSE toSave[o]]

-----------------------------------------------------------------------------
(* ProbabilityGeneratorControl::work *)

Init ==
    /\ conf \in Configurations
    /\ validTimes \in Axes
    /\ file \in Files
    \* with fewer V than U members the code reads outside its arrays: not modelled
    /\ file["WindV"].members \in {0} \cup {n \in Nat : n >= file["WindU"].members}
    /\ unselectable \in SUBSET Unselectable
    /\ rejected \in SUBSET Rejectable
    /\ pc = "start"
    /\ step = 0
    /\ toSave = Nothing
    /\ unsaved = {}
    /\ sink = [k \in {} |-> Field]
    /\ outcome = [i \in DOMAIN validTimes |-> "pending"]

\* The time axis is that of the cloud cover.
TimesFound == file["CloudCover"].kind # "absent" /\ validTimes # << >>

\* Without times an exception reaches main, which returns without flushing the
\* sink.
NoDataFound ==
    /\ pc = "start"
    /\ ~TimesFound
    /\ pc' = "failed"
    /\ UNCHANGED <<inputs, step, toSave, unsaved, sink, outcome>>

\* Bug variant of MoreToDo: tests the time just done, not the next one.
MoreToDoOffByOne == IF step = 0 THEN TRUE ELSE validTimes[step] < lastGenerateTime

\* Bug variant of MoreToDo: the last time is included.
MoreToDoUpTo == step < Len(validTimes) /\ validTimes[step + 1] <= lastGenerateTime

\* The test of the for loop, on the position it would look at next.
MoreToDo == step < Len(validTimes) /\ validTimes[step + 1] < lastGenerateTime

AtLoopTest == \/ pc = "start" /\ TimesFound
              \/ pc = "next"

NextTime ==
    /\ AtLoopTest
    /\ MoreToDo
    /\ step' = step + 1
    /\ toSave' = Nothing
    /\ pc' = IF "symbols" \in conf.excluded THEN "waves" ELSE "symbols"
    /\ UNCHANGED <<inputs, unsaved, sink, outcome>>

Finish ==
    /\ AtLoopTest
    /\ ~MoreToDo
    /\ pc' = "done"
    /\ UNCHANGED <<inputs, step, toSave, unsaved, sink, outcome>>

-----------------------------------------------------------------------------
(* ProbabilityGenerator::work *)

\* Bug variant of Leave: an exception ends the calls but not work().
LeaveThenSave(how) ==
    /\ pc' = IF how = "aborted" THEN "saveAll" ELSE "next"
    /\ toSave' = IF how = "aborted" THEN toSave ELSE Nothing
    /\ outcome' = [outcome EXCEPT ![step] = how]
    /\ UNCHANGED <<inputs, step, unsaved, sink>>

\* Bug variant of Leave: the control loop does not catch the exception.
LeaveTheLoop(how) ==
    /\ pc' = IF how = "aborted" THEN "failed" ELSE "next"
    /\ toSave' = Nothing
    /\ outcome' = [outcome EXCEPT ![step] = how]
    /\ UNCHANGED <<inputs, step, unsaved, sink>>

\* Bug variant of Leave: a time that failed is tried again.
LeaveAndRetry(how) ==
    /\ pc' = "next"
    /\ toSave' = Nothing
    /\ step' = IF how = "aborted" THEN step - 1 ELSE step
    /\ outcome' = [outcome EXCEPT ![step] = how]
    /\ UNCHANGED <<inputs, unsaved, sink>>

\* work() is left, one way or the other: the generator and its toSave_ are gone.
Leave(how) ==
    /\ pc' = "next"
    /\ toSave' = Nothing
    /\ outcome' = [outcome EXCEPT ![step] = how]
    /\ UNCHANGED <<inputs, step, unsaved, sink>>

Continue(outputs, next) ==
    /\ \E v \in Temps : toSave' = Collect(outputs, v)
    /\ pc' = next
    /\ UNCHANGED <<inputs, step, unsaved, sink, outcome>>

\* Any exception out of generateSymbols_ is logged and ends work().
SymbolsFail ==
    /\ pc = "symbols"
    /\ Ending(generateSymbols_(Now)) # "ok"
    /\ Leave("noSymbols")

Symbols ==
    /\ pc = "symbols"
    /\ Ending(generateSymbols_(Now)) = "ok"
    /\ Continue(Stored(generateSymbols_(Now)), "clouds")

\* Bug variant of Handled: missing data is like any other exception.
HandledNone(code) == Ending(code) = "ok"

\* HANDLE_EXCEPTIONS: missing data is a warning, what was stored before it
\* stays; any other exception is rethrown and caught by the control loop.
Handled(code) == Ending(code) \in {"ok", "DataNotAvailable"}

Generate(here, next, group, code) ==
    /\ pc = here
    /\ \/ ~Called(group) /\ Continue({}, next)
       \/ Called(group) /\ Handled(code) /\ Continue(Stored(code), next)
       \/ Called(group) /\ ~Handled(code) /\ Leave("aborted")

Clouds == Generate("clouds", "temperature", "clouds", generateClouds_(Now))
Temperature == Generate("temperature", "temperatureMin", "temperature",
                        generateTemperature_(Now))
TemperatureMin == Generate("temperatureMin", "temperatureMax", "temperature",
                           generateTemperatureMin_(Now))
TemperatureMax == Generate("temperatureMax", "wind", "temperature",
                           generateTemperatureMax_(Now))
Wind == Generate("wind", "precipitation", "wind", generateWind_(Now))
Precipitation == Generate("precipitation", "pressure", "precipitation",
                          generatePrecipitation_(Now))
AirPressure == Generate("pressure", "humidity", "pressure",
                        generateAirPressure_(Now))
Humidity == Generate("humidity", "waves", "humidity", generateHumidity_(Now))
Waves == Generate("waves", "saveAll", "waves", generateWaves_(Now))

\* saveAll_ starts its iteration over toSave_, a std::map in enum order.
SaveAll ==
    /\ pc = "saveAll"
    /\ pc' = "saving"
    /\ unsaved' = DOMAIN toSave
    /\ UNCHANGED <<inputs, step, toSave, sink, outcome>>

Rank(o) == CHOOSE i \in DOMAIN WeatherData : WeatherData[i] = o

\* One write; whatever the sink throws is logged and the iteration goes on.
Write ==
    /\ pc = "saving"
    /\ \E o \in unsaved :
          /\ \A p \in unsaved : Rank(o) <= Rank(p)
          /\ unsaved' = unsaved \ {o}
          /\ sink' = IF <<o, Now>> \in rejected THEN sink
                     ELSE [k \in DOMAIN sink \cup {<<o, Now>>} |->
                             IF k = <<o, Now>> THEN toSave[o] ELSE sink[k]]
    /\ UNCHANGED <<inputs, pc, step, toSave, outcome>>

Saved ==
    /\ pc = "saving"
    /\ unsaved = {}
    /\ Leave("saved")

\* The program has ended.
Terminated == pc \in {"done", "failed"} /\ UNCHANGED vars

Next ==
    \/ NoDataFound \/ NextTime \/ Finish
    \/ SymbolsFail \/ Symbols
    \/ Clouds \/ Temperature \/ TemperatureMin \/ TemperatureMax \/ Wind
    \/ Precipitation \/ AirPressure \/ Humidity \/ Waves
    \/ SaveAll \/ Write \/ Saved
    \/ Terminated

\* The program is one thread that is never blocked: it keeps taking steps.
Spec == Init /\ [][Next]_vars /\ WF_vars(Next)

-----------------------------------------------------------------------------
(* Properties *)

Call == {"symbols", "clouds", "temperature", "temperatureMin", "temperatureMax",
         "wind", "precipitation", "pressure", "humidity", "waves", "saveAll",
         "saving"}

\* Every variable has its type; inside work(), "it" points into the axis.
TypeOK ==
    /\ conf \in Configurations
    /\ validTimes \in Axes
    /\ file \in [Input -> Entry]
    /\ unselectable \in SUBSET Unselectable
    /\ rejected \in SUBSET (Output \X Nat)
    /\ pc \in Call \cup {"start", "next", "done", "failed"}
    /\ step \in 0..Len(validTimes)
    /\ pc \in Call => step # 0
    /\ DOMAIN toSave \in SUBSET Output
    /\ \A o \in DOMAIN toSave : toSave[o] \in Int
    /\ unsaved \in SUBSET DOMAIN toSave
    /\ pc # "saving" => unsaved = {}
    /\ DOMAIN sink \in SUBSET (Output \X Nat)
    /\ outcome \in [DOMAIN validTimes ->
                      {"pending", "noSymbols", "aborted", "saved"}]

\* INVARIANT: a time step is all or nothing.  One that ended without
\* saveAll_, because the symbols failed or because some generate function
\* rethrew, has left nothing in the sink, although it had already collected
\* fields; nor has one that was not reached.
NothingFromUnfinishedSteps ==
    \A i \in DOMAIN validTimes :
        \/ outcome[i] = "saved"
        \/ i = step /\ pc = "saving" /\ outcome[i] = "pending"
        \/ \A o \in Output : <<o, validTimes[i]>> \notin DOMAIN sink

\* INVARIANT: what is published for one time is consistent: where the
\* temperature is published beside the daily minimum or maximum, it lies
\* between them, whatever values the three selections came up with and
\* whichever of their inputs were missing.
TemperatureBetweenMinAndMax ==
    \A t \in Range(validTimes) :
        <<"Temperature", t>> \in DOMAIN sink =>
            /\ <<"TemperatureMin", t>> \in DOMAIN sink =>
                   sink[<<"TemperatureMin", t>>] <= sink[<<"Temperature", t>>]
            /\ <<"TemperatureMax", t>> \in DOMAIN sink =>
                   sink[<<"Temperature", t>>] <= sink[<<"TemperatureMax", t>>]

\* PROPERTY: no failure ends the loop early: once there are times, every one
\* before the last time to generate gets settled.
EveryDueTimeIsSettled ==
    <>[](\A i \in DOMAIN validTimes :
            TimesFound /\ (\A j \in 1..i : validTimes[j] < lastGenerateTime) =>
                outcome[i] # "pending")

=============================================================================
