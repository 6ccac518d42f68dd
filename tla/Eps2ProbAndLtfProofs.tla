------------------------ MODULE Eps2ProbAndLtfProofs ------------------------
(* Theorems about the program, from those about the loop and the sink.      *)
EXTENDS Eps2ProbAndLtf, FiniteSetTheorems, SequenceTheorems, TLAPS

LoopFacts == INSTANCE ProbabilityGeneratorProofs WITH
    Axes <- {SourceAxis},
    Files <- SourceFiles,
    InOffset <- SourceOffsets,
    Rejectable <- Writes,
    Configurations <- {Control(cl) : cl \in CommandLines}

\* Loop and LoopFacts are two instances of the same definitions.
LEMMA SameNext == Loop!Next => LoopFacts!Next
  BY DEF Loop!Input, LoopFacts!Input, Loop!WeatherData, LoopFacts!WeatherData, Loop!Output,
     LoopFacts!Output, Loop!Group, LoopFacts!Group, Loop!Field, LoopFacts!Field,
     Loop!SymbolRange, LoopFacts!SymbolRange, Loop!inputs, LoopFacts!inputs, Loop!vars,
     LoopFacts!vars, Loop!Now, LoopFacts!Now, Loop!Simplified, LoopFacts!Simplified,
     Loop!Percentiles, LoopFacts!Percentiles, Loop!Called, LoopFacts!Called,
     Loop!lastGenerateTime, LoopFacts!lastGenerateTime, Loop!getData_, LoopFacts!getData_,
     Loop!Probable, LoopFacts!Probable, Loop!PercentilesOf, LoopFacts!PercentilesOf,
     Loop!Difference, LoopFacts!Difference, Loop!PrecipitationOfEveryMember,
     LoopFacts!PrecipitationOfEveryMember, Loop!selectSymbols, LoopFacts!selectSymbols,
     Loop!Do, LoopFacts!Do, Loop!Simple, LoopFacts!Simple, Loop!Failing, LoopFacts!Failing,
     Loop!Reached, LoopFacts!Reached, Loop!Ending, LoopFacts!Ending, Loop!Stored,
     LoopFacts!Stored, Loop!generateSymbols_, LoopFacts!generateSymbols_, Loop!generateClouds_,
     LoopFacts!generateClouds_, Loop!generateTemperature_, LoopFacts!generateTemperature_,
     Loop!generateTemperatureMin_, LoopFacts!generateTemperatureMin_,
     Loop!generateTemperatureMax_, LoopFacts!generateTemperatureMax_, Loop!generateWind_,
     LoopFacts!generateWind_, Loop!generatePrecipitation_, LoopFacts!generatePrecipitation_,
     Loop!generateAirPressure_, LoopFacts!generateAirPressure_, Loop!generateHumidity_,
     LoopFacts!generateHumidity_, Loop!generateWaves_, LoopFacts!generateWaves_, Loop!Nothing,
     LoopFacts!Nothing, Loop!MinOf, LoopFacts!MinOf, Loop!MaxOf, LoopFacts!MaxOf, Loop!Stores,
     LoopFacts!Stores, Loop!Collect, LoopFacts!Collect, Loop!Init, LoopFacts!Init,
     Loop!TimesFound, LoopFacts!TimesFound, Loop!NoDataFound, LoopFacts!NoDataFound,
     Loop!MoreToDo, LoopFacts!MoreToDo, Loop!AtLoopTest, LoopFacts!AtLoopTest, Loop!NextTime,
     LoopFacts!NextTime, Loop!Finish, LoopFacts!Finish, Loop!Leave, LoopFacts!Leave,
     Loop!Continue, LoopFacts!Continue, Loop!SymbolsFail, LoopFacts!SymbolsFail, Loop!Symbols,
     LoopFacts!Symbols, Loop!Handled, LoopFacts!Handled, Loop!Generate, LoopFacts!Generate,
     Loop!Clouds, LoopFacts!Clouds, Loop!Temperature, LoopFacts!Temperature,
     Loop!TemperatureMin, LoopFacts!TemperatureMin, Loop!TemperatureMax,
     LoopFacts!TemperatureMax, Loop!Wind, LoopFacts!Wind, Loop!Precipitation,
     LoopFacts!Precipitation, Loop!AirPressure, LoopFacts!AirPressure, Loop!Humidity,
     LoopFacts!Humidity, Loop!Waves, LoopFacts!Waves, Loop!SaveAll, LoopFacts!SaveAll,
     Loop!Rank, LoopFacts!Rank, Loop!Write, LoopFacts!Write, Loop!Saved, LoopFacts!Saved,
     Loop!Terminated, LoopFacts!Terminated, Loop!Next, LoopFacts!Next, Loop!Range,
     LoopFacts!Range

\* What the command line gives to the loop and the sink.
LEMMA ControlType ==
    ASSUME NEW w \in CommandLines
    PROVE  /\ Control(w).excluded \subseteq Group
           /\ Control(w).excludePercentiles \in BOOLEAN
           /\ Control(w).excludeSimplifiedProbabilities \in BOOLEAN
           /\ Control(w).numberOfHoursToGenerate \in 0 .. IntMax
           /\ Control(w) = [excluded |-> Control(w).excluded,
                            excludePercentiles |-> Control(w).excludePercentiles,
                            excludeSimplifiedProbabilities |->
                                Control(w).excludeSimplifiedProbabilities,
                            numberOfHoursToGenerate |-> Control(w).numberOfHoursToGenerate]
<1>1. Stored(w).timesteps \in Seq(0 .. IntMax)
  <2>1. Stored(w).timesteps = IF w.file.kind = "text" /\ "timesteps" \notin Final(w)
                              THEN w.file.options.timesteps ELSE w.options.timesteps
    BY DEF Stored, Option
  <2>2. w.options.timesteps \in Seq(0 .. IntMax)
    BY ProgramAssumption DEF CommandLine, Text
  <2>3. w.file.kind = "text" => w.file.options.timesteps \in Seq(0 .. IntMax)
    BY ProgramAssumption DEF CommandLine, Text
  <2> QED
    BY <2>1, <2>2, <2>3
<1>2. Stored(w).timesteps # << >> => Stored(w).timesteps[1] \in 0 .. IntMax
  <2>1. \A s \in Seq(0 .. IntMax) : s # << >> => s[1] \in 0 .. IntMax
    <3> SUFFICES ASSUME NEW s \in Seq(0 .. IntMax), s # << >> PROVE s[1] \in 0 .. IntMax
      OBVIOUS
    <3>1. Len(s) \in Nat \ {0}
      BY EmptySeq
    <3>2. 1 \in 1 .. Len(s)
      BY <3>1
    <3> QED
      BY <3>2, ElementOfSeq
  <2> QED
    BY <1>1, <2>1
<1>3. Control(w).numberOfHoursToGenerate \in 0 .. IntMax
  BY <1>2, ProgramAssumption DEF Control
<1> QED
  BY <1>3 DEF Control, Excluded

LEMMA LoopAxes ==
    \A a \in {SourceAxis} : /\ a \in Seq(Nat)
                            /\ \A i, j \in DOMAIN a : a[i] = a[j] => i = j
<1>1. SourceAxis \in Seq(Nat) /\ \A i \in DOMAIN SourceAxis : SourceAxis[i] \in Nat
  BY ProgramAssumption
<1>2. \A i, j \in DOMAIN SourceAxis : i \in Nat /\ j \in Nat
  BY <1>1
<1>3. \A i, j \in DOMAIN SourceAxis : SourceAxis[i] = SourceAxis[j] => i = j
  BY <1>1, <1>2, ProgramAssumption
<1> QED
  BY <1>1, <1>3

LEMMA LoopChoices ==
    /\ SourceFiles \subseteq [LoopFacts!Input -> LoopFacts!Entry]
    /\ {Control(cl) : cl \in CommandLines} \subseteq LoopFacts!Configuration
    /\ Writes \subseteq LoopFacts!Output \X Nat
    /\ Temps \subseteq Int /\ Temps # {}
    /\ SourceOffsets \in [LoopFacts!Input -> Nat]
<1>1. Input = LoopFacts!Input /\ Output = LoopFacts!Output /\ Group = LoopFacts!Group
      /\ Loop!Entry = LoopFacts!Entry
  BY DEF Input, LoopFacts!Input, Output, LoopFacts!Output, WeatherData, LoopFacts!WeatherData,
     Group, LoopFacts!Group, Loop!Entry, LoopFacts!Entry
<1>2. Writes \subseteq Output \X Nat
  BY ProgramAssumption DEF Range
<1>3. \A w \in CommandLines : Control(w) \in LoopFacts!Configuration
  <2> SUFFICES ASSUME NEW w \in CommandLines PROVE Control(w) \in LoopFacts!Configuration
    OBVIOUS
  <2>1. Control(w).numberOfHoursToGenerate \in Nat
    BY ControlType
  <2> QED
    BY <1>1, <2>1, ControlType DEF LoopFacts!Configuration
<1> QED
  BY <1>1, <1>2, <1>3, FilesAssumption

LEMMA LoopStep == LoopFacts!DeliveryInv /\ [LoopFacts!Next]_LoopFacts!vars => LoopFacts!DeliveryInv'
  BY LoopFacts!StepKeepsDelivery, LoopAxes, LoopChoices

LEMMA LoopStart == LoopFacts!Init => LoopFacts!DeliveryInv
  BY LoopFacts!InitDeliveryInv, LoopAxes, LoopChoices

LEMMA SameInit == Loop!Init => LoopFacts!Init
  BY DEF Loop!Init, LoopFacts!Init, Loop!Input, LoopFacts!Input, Loop!Output, LoopFacts!Output,
     Loop!WeatherData, LoopFacts!WeatherData, Loop!Nothing, LoopFacts!Nothing, Loop!Field,
     LoopFacts!Field

-----------------------------------------------------------------------------
(* The program runs the loop, and is done with it before there is a file. *)

ProgramInv ==
    /\ LoopFacts!DeliveryInv
    /\ commandLine \in CommandLines
    /\ validTimes = SourceAxis /\ conf = Control(commandLine)
    /\ output # "none" => pc = "done"
    /\ status = "success" => output = "complete" \/ commandLine.help

LEMMA ProgramRunsTheLoop ==
    ASSUME [Next]_vars
    PROVE  [LoopFacts!Next]_(LoopFacts!vars) /\ UNCHANGED commandLine
<1>1. CASE Generate
  BY <1>1, SameNext DEF Generate, programVars
<1>2. CASE WriteField
  <2>1. Loop!Next
    BY <1>2 DEF WriteField, Loop!Next
  <2> QED
    BY <1>2, <2>1, SameNext DEF WriteField, programVars
<1>3. CASE UNCHANGED loopVars /\ UNCHANGED commandLine
  BY <1>3 DEF loopVars, LoopFacts!vars
<1>4. CASE \/ ShowHelp \/ WrongLogLevel \/ WrongOption \/ Configured \/ OpenSource
           \/ MakeSink \/ CannotStart \/ LoopFails \/ FlushSink \/ FlushFails \/ Ended
           \/ UNCHANGED vars
  <2>1. UNCHANGED loopVars /\ UNCHANGED commandLine
    BY <1>4 DEF ShowHelp, WrongLogLevel, WrongOption, Configured, OpenSource, MakeSink,
       CannotStart, LoopFails, FlushSink, FlushFails, Ended, GoTo, Exit, vars, programVars
  <2> QED
    BY <1>3, <2>1
<1> QED
  BY <1>1, <1>2, <1>4 DEF Next

LEMMA ProgramStart == Init => ProgramInv
<1> SUFFICES ASSUME Init PROVE ProgramInv
  OBVIOUS
<1>1. Loop!Init
  BY DEF Init
<1>2. validTimes = SourceAxis
  BY <1>1 DEF Loop!Init
<1> QED
  BY <1>1, <1>2, SameInit, LoopStart DEF Init, ProgramInv

LEMMA ProgramStep == ProgramInv /\ [Next]_vars => ProgramInv'
<1> SUFFICES ASSUME ProgramInv, [Next]_vars PROVE ProgramInv'
  OBVIOUS
<1>1. [LoopFacts!Next]_(LoopFacts!vars) /\ UNCHANGED commandLine
  BY ProgramRunsTheLoop
<1>2. LoopFacts!DeliveryInv'
  BY <1>1, LoopStep DEF ProgramInv
<1>3. LoopFacts!TypeOK
  BY DEF ProgramInv, LoopFacts!DeliveryInv, LoopFacts!IInv
<1>4. UNCHANGED LoopFacts!inputs
  BY <1>1, <1>3, LoopAxes, LoopChoices, LoopFacts!SettlingSteps
<1>5. validTimes' = SourceAxis /\ conf' = Control(commandLine')
  BY <1>1, <1>4 DEF ProgramInv, LoopFacts!inputs
<1>6. /\ output' # "none" => pc' = "done"
      /\ status' = "success" => output' = "complete" \/ commandLine'.help
  <2>1. CASE Generate
    BY <2>1 DEF Generate, programVars, ProgramInv
  <2>2. CASE WriteField
    BY <1>3, <2>2 DEF WriteField, programVars, ProgramInv, LoopFacts!TypeOK
  <2>3. CASE FlushSink \/ FlushFails
    BY <2>3 DEF FlushSink, FlushFails, LoopEnded, Exit, loopVars
  <2>4. CASE \/ ShowHelp \/ WrongLogLevel \/ WrongOption \/ Configured \/ OpenSource
             \/ MakeSink \/ CannotStart \/ LoopFails \/ Ended \/ UNCHANGED vars
    BY <1>1, <2>4 DEF ShowHelp, WrongLogLevel, WrongOption, Configured, OpenSource, MakeSink,
       CannotStart, LoopFails, Ended, GoTo, Exit, vars, programVars, loopVars, ProgramInv
  <2> QED
    BY <2>1, <2>2, <2>3, <2>4 DEF Next
<1> QED
  BY <1>1, <1>2, <1>5, <1>6 DEF ProgramInv

LEMMA ProgramInvariant == Spec => []ProgramInv
<1> QED
  BY ProgramStart, ProgramStep, PTL DEF Spec

LEMMA SameDue == \A i : Loop!Due(i) <=> LoopFacts!Due(i)
  BY DEF Loop!Due, LoopFacts!Due, Loop!Present, LoopFacts!Present,
     Loop!lastGenerateTime, LoopFacts!lastGenerateTime

(* There is a file, complete or not, only once every due time has been      *)
(* settled, and success without one only for who asked for help.            *)
THEOREM FileComesLast == Spec => []FileOnlyAfterTheLoop
<1>1. ProgramInv => FileOnlyAfterTheLoop
  <2> SUFFICES ASSUME ProgramInv PROVE FileOnlyAfterTheLoop
    OBVIOUS
  <2>1. ASSUME output # "none", NEW i \in DOMAIN SourceAxis, Loop!Due(i)
        PROVE  outcome[i] # "pending"
    <3>1. pc = "done" /\ i \in DOMAIN validTimes /\ LoopFacts!Due(i)
      BY <2>1, SameDue DEF ProgramInv
    <3>2. i <= step
      BY <3>1 DEF ProgramInv, LoopFacts!DeliveryInv, LoopFacts!NoDueTimeLeft
    <3>3. i \in Nat /\ 1 <= i /\ step \in Nat
      BY <3>1, LoopAxes DEF ProgramInv, LoopFacts!DeliveryInv, LoopFacts!IInv, LoopFacts!TypeOK
    <3>4. i \in 1..step
      BY <3>2, <3>3
    <3> QED
      BY <3>1, <3>4 DEF ProgramInv, LoopFacts!DeliveryInv, LoopFacts!SettledBehind, LoopFacts!Call
  <2> QED
    BY <2>1 DEF FileOnlyAfterTheLoop, ProgramInv
<1> QED
  BY <1>1, ProgramInvariant, PTL

-----------------------------------------------------------------------------
(* The command line. *)

SinkInv == ProgramInv /\ LoopFacts!OnlyPlanned

LEMMA SinkInvariant == Spec => []SinkInv
<1>1. Init => SinkInv
  <2> SUFFICES ASSUME Init PROVE LoopFacts!OnlyPlanned
    BY ProgramStart DEF SinkInv
  <2>1. sink = [k \in {} |-> Loop!Field]
    BY DEF Init, Loop!Init
  <2> QED
    BY <2>1 DEF LoopFacts!OnlyPlanned
<1>2. SinkInv /\ [Next]_vars => SinkInv'
  <2> SUFFICES ASSUME SinkInv, [Next]_vars PROVE SinkInv'
    OBVIOUS
  <2>1. [LoopFacts!Next]_(LoopFacts!vars)
    BY ProgramRunsTheLoop
  <2>2. LoopFacts!OnlyPlanned'
    BY <2>1, LoopAxes, LoopChoices, LoopFacts!StepKeepsPlanned DEF SinkInv, ProgramInv
  <2> QED
    BY <2>2, ProgramStep DEF SinkInv
<1> QED
  BY <1>1, <1>2, PTL DEF Spec

LEMMA SameRecipe == \A o \in Output : Loop!Recipe(o) = LoopFacts!Recipe(o)
                                      /\ LoopFacts!Recipe(o)[1] \in Group
<1>1. Output = {"CloudCover", "YrSymbol", "ProbabilityOfYrSymbol",
                "Temperature", "TemperatureMin", "TemperatureMax",
                "TemperaturePercentiles", "TemperatureProbabilities",
                "Wind", "WindPercentiles", "PrecipitationOut", "PrecipitationPercentiles",
                "AirPressure", "RelativeHumidity", "LowCloudCover", "MediumCloudCover",
                "HighCloudCover", "CloudCoverPercentiles", "SignificantWaveHeightPercentiles"}
  BY DEF Output, WeatherData
<1>2. \A o \in Output : Loop!Recipe(o) = LoopFacts!Recipe(o)
  BY <1>1 DEF Loop!Recipe, LoopFacts!Recipe, Loop!Forerunners, LoopFacts!Forerunners
<1>3. \A o \in Output : LoopFacts!Recipe(o)[1] \in Group
  BY <1>1 DEF LoopFacts!Recipe, Group
<1> QED
  BY <1>2, <1>3

(* What the command line excludes is not written unless it is included      *)
(* again, and its list is the only one if it has one.                       *)
THEOREM CommandLinePrevails == Spec => []CommandLineDecides
<1>1. SinkInv => CommandLineDecides
  <2> SUFFICES ASSUME SinkInv PROVE CommandLineDecides
    OBVIOUS
  <2> DEFINE own == commandLine.options
             included == Named(own.include) \cup
                             IF commandLine.file.kind = "text"
                             THEN Named(commandLine.file.options.include) ELSE {}
             st == Stored(commandLine)
  <2>1. conf.excluded = Group \cap (Named(st.exclude) \ Named(st.include))
    BY DEF SinkInv, ProgramInv, Control, Excluded
  <2>2. /\ st.exclude = IF commandLine.file.kind = "text" /\ "exclude" \notin Final(commandLine)
                        THEN commandLine.file.options.exclude ELSE own.exclude
        /\ st.include = IF commandLine.file.kind = "text" /\ "include" \notin Final(commandLine)
                        THEN commandLine.file.options.include ELSE own.include
    BY DEF Stored, Option
  <2>3. own.exclude # << >> => st.exclude = own.exclude
    <3>1. own.exclude # << >> => "exclude" \in Final(commandLine)
      BY DEF Final, Option
    <3> QED
      BY <2>2, <3>1
  <2>4. Named(st.include) \subseteq included
    BY <2>2
  <2>5. ASSUME NEW w \in DOMAIN sink
        PROVE  Loop!Recipe(w[1])[1] \notin Named(own.exclude) \ included
    <3> DEFINE g == Loop!Recipe(w[1])[1]
    <3>1. w[1] \in LoopFacts!Output /\ LoopFacts!Planned(w[1])
      BY DEF SinkInv, LoopFacts!OnlyPlanned
    <3>2. w[1] \in Output
      BY <3>1 DEF Output, LoopFacts!Output, WeatherData, LoopFacts!WeatherData
    <3>3. g \in Group /\ g = LoopFacts!Recipe(w[1])[1]
      BY <3>2, SameRecipe
    <3>4. g \notin conf.excluded
      BY <3>1, <3>3 DEF LoopFacts!Planned, LoopFacts!Made
    <3>5. own.exclude = << >> => Named(own.exclude) = {}
      BY DEF Named, Range
    <3> QED
      BY <2>1, <2>3, <2>4, <3>3, <3>4, <3>5
  <2>6. own.exclude # << >> => conf.excluded \subseteq Named(own.exclude)
    BY <2>1, <2>3
  <2> QED
    BY <2>5, <2>6 DEF CommandLineDecides
<1> QED
  BY <1>1, SinkInvariant, PTL

-----------------------------------------------------------------------------
(* The loop calls the sink as GeneratedDataReader expects it. *)

\* The call of add that comes next is later than the last one: of a later time,
\* or of the same time and a later parameter.
CallsInOrder ==
    /\ last \in Nat \X Nat /\ last[1] <= step
    /\ pc \in LoopFacts!Call \ {"saving"} => last[1] < step
    /\ pc = "saving" =>
          last[1] < step \/ \A o \in unsaved : last[2] < Reader!Rank(o)

UseInv ==
    /\ ProgramInv
    /\ numberOfHours = conf.numberOfHoursToGenerate
    /\ flushed => phase = "ended"
    /\ CallsInOrder

\* The enum names every parameter once.
LEMMA Ranks ==
    /\ Reader!Parameter = Output
    /\ \A o \in Output : Reader!Rank(o) \in Nat /\ Reader!Rank(o) = Loop!Rank(o)
    /\ \A o, p \in Output : Reader!Rank(o) = Reader!Rank(p) => o = p
<1>1. Reader!Parameter = Output
  BY DEF Reader!Parameter, Output
<1>2. \A o \in Output : Reader!Rank(o) = Loop!Rank(o)
  BY DEF Reader!Rank, Loop!Rank, Loop!WeatherData, WeatherData
<1>3. ASSUME NEW o \in Output
      PROVE  Reader!Rank(o) \in DOMAIN WeatherData /\ WeatherData[Reader!Rank(o)] = o
  <2>1. \E i \in DOMAIN WeatherData : WeatherData[i] = o
    BY DEF Output
  <2> QED
    BY <2>1 DEF Reader!Rank
<1>4. DOMAIN WeatherData \subseteq Nat
  BY DEF WeatherData
<1> QED
  BY <1>1, <1>2, <1>3, <1>4

LEMMA UseStart == Init => UseInv
<1> SUFFICES ASSUME Init PROVE UseInv
  OBVIOUS
<1>1. last = <<0, 0>> /\ ~flushed
  BY DEF Init, Reader!Init
<1>2. pc = "start" /\ step = 0
  BY DEF Init, Loop!Init
<1> QED
  BY <1>1, <1>2, ProgramStart DEF Init, UseInv, CallsInOrder, LoopFacts!Call

\* What the call is that a write of the loop makes.
LEMMA WriteCallsTheSink ==
    ASSUME UseInv, WriteField
    PROVE  \E p \in unsaved :
              /\ p \in Output /\ step \in DOMAIN SourceAxis
              /\ pc = "saving" /\ UNCHANGED <<pc, step>>
              /\ unsaved' = unsaved \ {p}
              /\ \A o \in unsaved : Reader!Rank(p) <= Reader!Rank(o)
              /\ Reader!Add(p, step)
<1>0. LoopFacts!TypeOK /\ validTimes = SourceAxis
  BY DEF UseInv, ProgramInv, LoopFacts!DeliveryInv, LoopFacts!IInv
<1>1. PICK p \in unsaved :
         /\ \A o \in unsaved : Loop!Rank(p) <= Loop!Rank(o)
         /\ unsaved' = unsaved \ {p}
  BY DEF WriteField, Loop!Write
<1>2. pc = "saving" /\ UNCHANGED <<pc, step>>
  BY DEF WriteField, Loop!Write
<1>3. unsaved \subseteq Output
  <2>1. LoopFacts!Output = Output
    BY DEF LoopFacts!Output, Output, LoopFacts!WeatherData, WeatherData
  <2> QED
    BY <1>0, <2>1 DEF LoopFacts!TypeOK
<1>4. step \in DOMAIN SourceAxis
  BY <1>0, <1>2, LoopAxes DEF LoopFacts!TypeOK, LoopFacts!Call
<1>5. Reader!Add(p, step)
  <2>1. \E q \in unsaved \ unsaved' : Reader!Add(q, step)
    BY DEF WriteField
  <2> QED
    BY <1>1, <2>1
<1> QED
  BY <1>1, <1>2, <1>3, <1>4, <1>5, Ranks

LEMMA AddCalls ==
    ASSUME NEW p, NEW i, Reader!Add(p, i)
    PROVE  /\ last' = <<i, Reader!Rank(p)>>
           /\ UNCHANGED <<numberOfHours, flushed, outputFile>>
  BY DEF Reader!Add, Reader!AddFails, Reader!AddIgnores, Reader!AddFindsNoDimension,
     Reader!AddFindsNoPlace, Reader!AddFindsNameTaken, Reader!AddStores, Reader!Throws,
     Reader!Called

LEMMA UseStep == UseInv /\ [Next]_vars => UseInv'
<1> SUFFICES ASSUME UseInv, [Next]_vars PROVE UseInv'
  OBVIOUS
<1>1. ProgramInv'
  BY ProgramStep DEF UseInv
<1>2. /\ LoopFacts!TypeOK
      /\ LoopFacts!TypeOK'
      /\ [LoopFacts!Next]_(LoopFacts!vars)
  BY <1>1, ProgramRunsTheLoop DEF UseInv, ProgramInv, LoopFacts!DeliveryInv, LoopFacts!IInv
<1>3. conf' = conf
  BY <1>2, LoopAxes, LoopChoices, LoopFacts!SettlingSteps DEF LoopFacts!inputs
<1>4. step \in Nat
  BY <1>2, LoopAxes DEF UseInv, ProgramInv, LoopFacts!TypeOK
<1>5. CASE WriteField
  <2>1. PICK p \in unsaved :
           /\ p \in Output /\ step \in DOMAIN SourceAxis
           /\ pc = "saving" /\ UNCHANGED <<pc, step>>
           /\ unsaved' = unsaved \ {p}
           /\ \A o \in unsaved : Reader!Rank(p) <= Reader!Rank(o)
           /\ Reader!Add(p, step)
    BY <1>5, WriteCallsTheSink
  <2>2. last' = <<step, Reader!Rank(p)>> /\ UNCHANGED <<numberOfHours, flushed>>
    BY <2>1, AddCalls
  <2>3. phase' = phase
    BY <1>5 DEF WriteField, programVars
  <2>4. unsaved \subseteq Output
    <3>1. LoopFacts!Output = Output
      BY DEF LoopFacts!Output, Output, LoopFacts!WeatherData, WeatherData
    <3> QED
      BY <1>2, <3>1 DEF LoopFacts!TypeOK
  <2>5. \A o \in unsaved' : Reader!Rank(p) < Reader!Rank(o)
    BY <2>1, <2>4, Ranks
  <2>6. CallsInOrder'
    BY <1>4, <2>1, <2>2, <2>5, Ranks DEF CallsInOrder
  <2> QED
    BY <1>1, <1>3, <2>2, <2>3, <2>6 DEF UseInv
<1>6. CASE Generate
  <2>1. /\ UNCHANGED <<numberOfHours, flushed, last, phase>>
        /\ unsaved = {}
    BY <1>6 DEF Generate, programVars, sinkVars
  <2>2. \/ step' = step + 1
        \/ /\ step' = step
           /\ pc' \in LoopFacts!Call \ {"saving"} => pc \in LoopFacts!Call \ {"saving"}
           /\ pc' = "saving" => /\ pc \in LoopFacts!Call
                                /\ pc = "saving" => unsaved' \subseteq unsaved
    BY <1>2, LoopAxes, LoopChoices, LoopFacts!StepsGoForward
  <2>3. CallsInOrder'
    <3>1. last \in Nat \X Nat /\ last[1] <= step /\ last[1] \in Nat
      BY DEF UseInv, CallsInOrder
    <3>2. CASE step' = step + 1
      <4>1. last[1] < step'
        BY <1>4, <3>1, <3>2
      <4> QED
        BY <2>1, <3>1, <4>1, <3>2, <1>4 DEF CallsInOrder
    <3>3. CASE step' # step + 1
      <4>1. step' = step
        BY <2>2, <3>3
      <4>2. pc' \in LoopFacts!Call \ {"saving"} => last'[1] < step'
        BY <2>1, <2>2, <3>3, <4>1 DEF UseInv, CallsInOrder
      <4>3. pc' = "saving" =>
               last'[1] < step' \/ \A o \in unsaved' : last'[2] < Reader!Rank(o)
        BY <2>1, <2>2, <3>3, <4>1 DEF UseInv, CallsInOrder
      <4> QED
        BY <2>1, <3>1, <4>1, <4>2, <4>3 DEF CallsInOrder
    <3> QED
      BY <3>2, <3>3
  <2> QED
    BY <1>1, <1>3, <2>1, <2>3 DEF UseInv
<1>7. CASE FlushSink
  <2>1. phase' = "ended" /\ UNCHANGED <<numberOfHours, last, pc, step, unsaved>>
    BY <1>7 DEF FlushSink, Exit, Reader!Flush, loopVars
  <2>2. CallsInOrder'
    BY <2>1 DEF UseInv, CallsInOrder
  <2> QED
    BY <1>1, <1>3, <2>1, <2>2 DEF UseInv
<1>8. CASE \/ ShowHelp \/ WrongLogLevel \/ WrongOption \/ Configured \/ OpenSource
           \/ MakeSink \/ CannotStart \/ LoopFails \/ FlushFails \/ Ended \/ UNCHANGED vars
  <2>1. UNCHANGED <<numberOfHours, flushed, last, pc, step, unsaved>>
    BY <1>8 DEF ShowHelp, WrongLogLevel, WrongOption, Configured, OpenSource, MakeSink,
       CannotStart, LoopFails, FlushFails, Ended, vars, loopVars, sinkVars
  <2>2. phase = "ended" => phase' = "ended"
    BY <1>8 DEF ShowHelp, WrongLogLevel, WrongOption, Configured, OpenSource, MakeSink,
       CannotStart, LoopFails, FlushFails, Ended, Exit, GoTo, vars, programVars
  <2>3. CallsInOrder'
    BY <2>1 DEF UseInv, CallsInOrder
  <2> QED
    BY <1>1, <1>3, <2>1, <2>2, <2>3 DEF UseInv
<1> QED
  BY <1>5, <1>6, <1>7, <1>8 DEF Next

\* A time the loop is at lies before the end in the units of the sink as well.
LEMMA DueForTheSink ==
    ASSUME UseInv, step # 0
    PROVE  SinkAxis[step] < Reader!lastGenerateTime
<1>0. LoopFacts!TypeOK /\ validTimes = SourceAxis
  BY DEF UseInv, ProgramInv, LoopFacts!DeliveryInv, LoopFacts!IInv
<1>1. /\ step \in DOMAIN SourceAxis /\ 1 \in DOMAIN SourceAxis /\ step \in 1..step
      /\ SourceAxis \in Seq(Nat)
  BY <1>0, LoopAxes DEF LoopFacts!TypeOK
<1>2. SourceAxis[step] < SourceAxis[1] + conf.numberOfHoursToGenerate
  <2>1. LoopFacts!Due(step)
    BY DEF UseInv, ProgramInv, LoopFacts!DeliveryInv, LoopFacts!SettledBehind
  <2> QED
    BY <1>0, <1>1, <2>1 DEF LoopFacts!Due, LoopFacts!lastGenerateTime
<1>3. /\ SourceAxis[step] \in Nat /\ SourceAxis[1] \in Nat /\ HourLength \in Nat \ {0}
      /\ conf.numberOfHoursToGenerate \in Nat
  <2>1. commandLine \in CommandLines /\ conf = Control(commandLine)
    BY DEF UseInv, ProgramInv
  <2> QED
    BY <1>1, <2>1, ControlType, ProgramAssumption
<1>4. \A a, b, n \in Nat : \A h \in Nat \ {0} : a < b + n => h * a < h * b + h * n
  <2>1. \A a, b \in Nat : \A h \in Nat \ {0} : a < b => h * a < h * b
    OBVIOUS
  <2>2. \A b, n, h \in Nat : h * (b + n) = h * b + h * n /\ b + n \in Nat
    OBVIOUS
  <2> QED
    BY <2>1, <2>2
<1>5. HourLength * SourceAxis[step] < HourLength * SourceAxis[1] + HourLength * numberOfHours
  BY <1>2, <1>3, <1>4 DEF UseInv
<1> QED
  BY <1>1, <1>5 DEF Reader!lastGenerateTime, SinkAxis

LEMMA UseInvariant == Spec => []UseInv
  BY UseStart, UseStep, PTL DEF Spec

LEMMA ProgramUsesTheSink == UseInv /\ [Next]_vars => [Reader!Next]_(Reader!vars)
<1> SUFFICES ASSUME UseInv, [Next]_vars PROVE [Reader!Next]_(Reader!vars)
  OBVIOUS
<1>1. CASE WriteField
  <2>1. PICK p \in unsaved :
           /\ p \in Output /\ step \in DOMAIN SourceAxis
           /\ pc = "saving" /\ UNCHANGED <<pc, step>>
           /\ unsaved' = unsaved \ {p}
           /\ \A o \in unsaved : Reader!Rank(p) <= Reader!Rank(o)
           /\ Reader!Add(p, step)
    BY <1>1, WriteCallsTheSink
  <2>2. p \in Reader!Parameter /\ step \in DOMAIN SinkAxis
    BY <2>1, Ranks DEF SinkAxis
  <2>3. phase = "loop" /\ ~flushed
    BY <1>1 DEF WriteField, UseInv
  <2>4. last[1] < step \/ (last[1] = step /\ last[2] < Reader!Rank(p))
    <3>1. last[1] \in Nat /\ last[1] <= step /\ step \in Nat
      BY <2>1, LoopAxes DEF UseInv, CallsInOrder
    <3> QED
      BY <2>1, <3>1 DEF UseInv, CallsInOrder
  <2>5. SinkAxis[step] < Reader!lastGenerateTime
    <3>1. step # 0
      BY <2>1, LoopAxes
    <3> QED
      BY <3>1, DueForTheSink
  <2>6. Reader!Expected(p, step)
    BY <2>3, <2>4, <2>5 DEF Reader!Expected
  <2> QED
    BY <2>1, <2>2, <2>6 DEF Reader!Next
<1>2. CASE FlushSink
  BY <1>2 DEF FlushSink, Reader!Next
<1>3. CASE \/ ShowHelp \/ WrongLogLevel \/ WrongOption \/ Configured \/ OpenSource
           \/ MakeSink \/ CannotStart \/ Generate \/ LoopFails \/ FlushFails \/ Ended
           \/ UNCHANGED vars
  BY <1>3 DEF ShowHelp, WrongLogLevel, WrongOption, Configured, OpenSource, MakeSink,
     CannotStart, Generate, LoopFails, FlushFails, Ended, vars, sinkVars, Reader!vars
<1> QED
  BY <1>1, <1>2, <1>3 DEF Next

(* The loop calls the sink as GeneratedDataReader expects: in the order of   *)
(* times and parameters, for times before the end, never after flush.        *)
THEOREM SinkIsUsedInOrder == Spec => SinkIsUsedAsExpected
<1>1. Init => Reader!Init
  BY DEF Init
<1> QED
  BY <1>1, UseInvariant, ProgramUsesTheSink, PTL DEF Spec, SinkIsUsedAsExpected, Reader!Spec

-----------------------------------------------------------------------------
(* The sink of the program is the one of GeneratedDataReaderProofs. *)

ReaderFacts == INSTANCE GeneratedDataReaderProofs WITH
    Translations <- SinkTranslations,
    DimensionLists <- ExtraDimensions,
    FileVariables <- TakenNames,
    Axis <- SinkAxis,
    Hours <- {Control(cl).numberOfHoursToGenerate : cl \in CommandLines},
    file <- outputFile

LEMMA SameCardinality == \A S : Reader!Cardinality(S) = ReaderFacts!Cardinality(S)
  BY Zenon DEF Reader!Cardinality, ReaderFacts!Cardinality

\* Reader and ReaderFacts are two instances of the same definitions.
LEMMA SamePlaces ==
    /\ Reader!Parameter = ReaderFacts!Parameter
    /\ Reader!lastGenerateTime = ReaderFacts!lastGenerateTime
    /\ Reader!CountedSteps = ReaderFacts!CountedSteps
    /\ \A d : Reader!Fields(d) = ReaderFacts!Fields(d)
    /\ \A p : /\ Reader!getOutputBufferIndex_(p) = ReaderFacts!getOutputBufferIndex_(p)
              /\ Reader!HasDimension(p) <=> ReaderFacts!HasDimension(p)
              /\ Reader!HasValue(p) <=> ReaderFacts!HasValue(p)
              /\ Reader!NameTaken(p) <=> ReaderFacts!NameTaken(p)
              /\ Reader!cfName(p) = ReaderFacts!cfName(p)
              /\ Reader!Rank(p) = ReaderFacts!Rank(p)
    /\ \A p, i : /\ Reader!ValidTime(p, i) = ReaderFacts!ValidTime(p, i)
                 /\ Reader!InAxis(p, i) <=> ReaderFacts!InAxis(p, i)
                 /\ Reader!Found(p, i) <=> ReaderFacts!Found(p, i)
                 /\ Reader!Buffer(p, i) = ReaderFacts!Buffer(p, i)
                 /\ Reader!Written(p, i) = ReaderFacts!Written(p, i)
                 /\ Reader!Wanted(p, i) <=> ReaderFacts!Wanted(p, i)
    /\ Reader!Blank = ReaderFacts!Blank /\ Reader!Fill = ReaderFacts!Fill
<1>1. /\ Reader!Parameter = ReaderFacts!Parameter
      /\ Reader!lastGenerateTime = ReaderFacts!lastGenerateTime
      /\ \A p : /\ Reader!hasExtraDimension(p) <=> ReaderFacts!hasExtraDimension(p)
                /\ Reader!cfName(p) = ReaderFacts!cfName(p)
                /\ Reader!Rank(p) = ReaderFacts!Rank(p)
      /\ \A p, i : Reader!ValidTime(p, i) = ReaderFacts!ValidTime(p, i)
      /\ Reader!Blank = ReaderFacts!Blank /\ Reader!Fill = ReaderFacts!Fill
      /\ \A p, i : Reader!Written(p, i) = ReaderFacts!Written(p, i)
  BY DEF Reader!Parameter, ReaderFacts!Parameter, Reader!lastGenerateTime,
     ReaderFacts!lastGenerateTime, Reader!hasExtraDimension, ReaderFacts!hasExtraDimension,
     Reader!cfName, ReaderFacts!cfName, Reader!Rank, ReaderFacts!Rank,
     Reader!ValidTime, ReaderFacts!ValidTime, Reader!Blank, ReaderFacts!Blank,
     Reader!Fill, ReaderFacts!Fill, Reader!Written, ReaderFacts!Written
<1>2. Reader!CountedSteps = ReaderFacts!CountedSteps
  <2>1. Reader!lastTime = ReaderFacts!lastTime
    BY DEF Reader!lastTime, ReaderFacts!lastTime, Reader!Int32, ReaderFacts!Int32
  <2> QED
    BY <2>1, SameCardinality DEF Reader!CountedSteps, ReaderFacts!CountedSteps
<1>3. \A d : Reader!Fields(d) = ReaderFacts!Fields(d)
  BY SameCardinality DEF Reader!Fields, ReaderFacts!Fields
<1>4. \A p : /\ Reader!getOutputBufferIndex_(p) = ReaderFacts!getOutputBufferIndex_(p)
             /\ Reader!HasDimension(p) <=> ReaderFacts!HasDimension(p)
             /\ Reader!HasValue(p) <=> ReaderFacts!HasValue(p)
             /\ Reader!NameTaken(p) <=> ReaderFacts!NameTaken(p)
  BY <1>1, SameCardinality DEF Reader!getOutputBufferIndex_, ReaderFacts!getOutputBufferIndex_,
     Reader!HasDimension, ReaderFacts!HasDimension, Reader!HasValue, ReaderFacts!HasValue,
     Reader!NameTaken, ReaderFacts!NameTaken
<1>5. \A p, i : Reader!wantedTime(p, i) = ReaderFacts!wantedTime(p, i)
  BY <1>1 DEF Reader!wantedTime, ReaderFacts!wantedTime, Reader!get_seconds_since_epoch,
     ReaderFacts!get_seconds_since_epoch
<1>6. \A p, i : Reader!getValidTimeIndex_(p, i) = ReaderFacts!getValidTimeIndex_(p, i)
  BY <1>5 DEF Reader!getValidTimeIndex_, ReaderFacts!getValidTimeIndex_
<1>7. \A p, i : /\ Reader!InAxis(p, i) <=> ReaderFacts!InAxis(p, i)
                /\ Reader!Found(p, i) <=> ReaderFacts!Found(p, i)
  BY <1>5 DEF Reader!InAxis, ReaderFacts!InAxis, Reader!Range, ReaderFacts!Range,
     Reader!Found, ReaderFacts!Found, Reader!Translated, ReaderFacts!Translated
<1>8. \A p, i : /\ Reader!Buffer(p, i) = ReaderFacts!Buffer(p, i)
                /\ Reader!Wanted(p, i) <=> ReaderFacts!Wanted(p, i)
  BY <1>1, <1>6 DEF Reader!Buffer, ReaderFacts!Buffer, Reader!Wanted, ReaderFacts!Wanted
<1> QED
  BY <1>1, <1>2, <1>3, <1>4, <1>7, <1>8

LEMMA SameAdd == \A p, i : Reader!Add(p, i) => ReaderFacts!Add(p, i)
<1> SUFFICES ASSUME NEW p, NEW i, Reader!Add(p, i) PROVE ReaderFacts!Add(p, i)
  OBVIOUS
<1>1. Reader!BufferFor(p, i) = ReaderFacts!BufferFor(p, i)
  BY SamePlaces DEF Reader!BufferFor, ReaderFacts!BufferFor
<1>2. \A b, contents : Reader!SetBuffer(b, contents) = ReaderFacts!SetBuffer(b, contents)
  BY DEF Reader!SetBuffer, ReaderFacts!SetBuffer
<1>3. Reader!Copy(p, i) => ReaderFacts!Copy(p, i)
  BY <1>1, <1>2, SamePlaces DEF Reader!Copy, ReaderFacts!Copy
<1>4. Reader!Called(p, i) => ReaderFacts!Called(p, i)
  BY SamePlaces DEF Reader!Called, ReaderFacts!Called, Reader!Translated, ReaderFacts!Translated,
     Reader!cfName, ReaderFacts!cfName
<1>5. Reader!Register(p) => ReaderFacts!Register(p)
  BY SamePlaces DEF Reader!Register, ReaderFacts!Register
<1>6. Reader!Throws(p, i) => ReaderFacts!Throws(p, i)
  BY <1>4 DEF Reader!Throws, ReaderFacts!Throws
<1> QED
  BY <1>1, <1>2, <1>3, <1>4, <1>5, <1>6, SamePlaces
  DEF Reader!Add, ReaderFacts!Add, Reader!AddFails, ReaderFacts!AddFails,
     Reader!AddIgnores, ReaderFacts!AddIgnores,
     Reader!AddFindsNoDimension, ReaderFacts!AddFindsNoDimension,
     Reader!AddFindsNoPlace, ReaderFacts!AddFindsNoPlace,
     Reader!AddFindsNameTaken, ReaderFacts!AddFindsNameTaken,
     Reader!AddStores, ReaderFacts!AddStores

LEMMA SameReader ==
    /\ Reader!Init => ReaderFacts!Init
    /\ [Reader!Next]_(Reader!vars) => [ReaderFacts!Next]_(ReaderFacts!vars)
<1>1. Reader!Init => ReaderFacts!Init
  BY SamePlaces DEF Reader!Init, ReaderFacts!Init
<1>2. \A p, i : Reader!Expected(p, i) => ReaderFacts!Expected(p, i)
  BY SamePlaces DEF Reader!Expected, ReaderFacts!Expected
<1>3. \A c, pos : Reader!getDataSlice(c, pos) = ReaderFacts!getDataSlice(c, pos)
  BY SamePlaces DEF Reader!getDataSlice, ReaderFacts!getDataSlice
<1>4. Reader!Flush => ReaderFacts!Flush
  BY <1>3 DEF Reader!Flush, ReaderFacts!Flush
<1>5. UNCHANGED Reader!vars => UNCHANGED ReaderFacts!vars
  BY DEF Reader!vars, ReaderFacts!vars
<1> QED
  BY <1>1, <1>2, <1>4, <1>5, SameAdd, SamePlaces DEF Reader!Next, ReaderFacts!Next,
     Reader!Terminated, ReaderFacts!Terminated

LEMMA SinkTranslationsFit ==
    /\ WeatherData \in Seq(ReaderFacts!Parameter)
    /\ \A r, s \in DOMAIN WeatherData :
          WeatherData[r] = WeatherData[s] => r = s
    /\ \A tr \in SinkTranslations :
          DOMAIN tr \subseteq ReaderFacts!Parameter /\ ReaderFacts!Specification(tr)
    /\ \A dims \in ExtraDimensions :
          /\ NoDimension \notin DOMAIN dims
          /\ \A d \in DOMAIN dims : dims[d] \subseteq Nat /\ ReaderFacts!IsFiniteSet(dims[d])
<1>1. ReaderFacts!Parameter = Output
  BY DEF ReaderFacts!Parameter, Output
<1>2. WeatherData \in Seq(Output)
  BY DEF WeatherData, Output
<1>3. \A r, s \in DOMAIN WeatherData : WeatherData[r] = WeatherData[s] => r = s
  BY DEF WeatherData
<1>4. \A S : ReaderFacts!IsFiniteSet(S) <=> IsFiniteSet(S)
  BY Zenon DEF ReaderFacts!IsFiniteSet, IsFiniteSet
<1>5. \A tr \in SinkTranslations :
          DOMAIN tr \subseteq ReaderFacts!Parameter /\ ReaderFacts!Specification(tr)
  BY <1>1, FilesAssumption DEF Reader!Specification, ReaderFacts!Specification
<1>6. \A dims \in ExtraDimensions :
          /\ NoDimension \notin DOMAIN dims
          /\ \A d \in DOMAIN dims : dims[d] \subseteq Nat /\ ReaderFacts!IsFiniteSet(dims[d])
  BY <1>4, FilesAssumption
<1> QED
  BY <1>1, <1>2, <1>3, <1>5, <1>6

LEMMA SinkTimesFit ==
    /\ SinkAxis \in Seq(Nat) /\ SinkAxis # << >>
    /\ \A i, j \in DOMAIN SinkAxis : i < j => SinkAxis[i] < SinkAxis[j]
    /\ {Control(cl).numberOfHoursToGenerate : cl \in CommandLines} \subseteq 0 .. IntMax
    /\ HourLength \in Nat \ {0} /\ MinuteLength \in Nat \ {0}
    /\ IntMax \in Nat
<1>1. /\ SourceAxis \in Seq(Nat) /\ SourceAxis # << >>
      /\ \A i, j \in DOMAIN SourceAxis : i < j => SourceAxis[i] < SourceAxis[j]
      /\ HourLength \in Nat \ {0}
  BY ProgramAssumption
<1>2. DOMAIN SinkAxis = DOMAIN SourceAxis
      /\ \A i \in DOMAIN SourceAxis : SinkAxis[i] = HourLength * SourceAxis[i]
  BY DEF SinkAxis
<1>3. \A i \in DOMAIN SourceAxis : SourceAxis[i] \in Nat
  BY <1>1
<1>4. \A a, b \in Nat : \A h \in Nat \ {0} : h * a \in Nat /\ (a < b => h * a < h * b)
  OBVIOUS
<1>5. SinkAxis \in Seq(Nat)
  <2>1. DOMAIN SourceAxis = 1 .. Len(SourceAxis) /\ Len(SourceAxis) \in Nat
    BY <1>1
  <2>2. SinkAxis \in [1 .. Len(SourceAxis) -> Nat]
    BY <1>1, <1>3, <1>4, <2>1 DEF SinkAxis
  <2> QED
    BY <2>1, <2>2, SeqDef
<1>6. \A i, j \in DOMAIN SinkAxis : i < j => SinkAxis[i] < SinkAxis[j]
  BY <1>1, <1>2, <1>3, <1>4
<1>7. SinkAxis # << >>
  BY <1>1, <1>2
<1> QED
  BY <1>5, <1>6, <1>7, ControlType, ProgramAssumption

SinkUseInv ==
    /\ UseInv
    /\ ReaderFacts!KeptInv /\ ReaderFacts!ContentInv
    /\ ReaderFacts!FlushedInv /\ ReaderFacts!HorizonInv

LEMMA SinkUseStart == Init => SinkUseInv
<1> SUFFICES ASSUME Init PROVE SinkUseInv
  OBVIOUS
<1>1. ReaderFacts!Init
  BY SameReader DEF Init
<1>2. ReaderFacts!KeptInv /\ ReaderFacts!HorizonInv
  BY <1>1 DEF ReaderFacts!Init, ReaderFacts!KeptInv, ReaderFacts!BuffersAreSized,
     ReaderFacts!StoredHavePlaces, ReaderFacts!EveryWriteKept, ReaderFacts!HorizonInv,
     ReaderFacts!HorizonRespected
<1>3. ReaderFacts!ContentInv /\ ReaderFacts!FlushedInv
  BY <1>1 DEF ReaderFacts!Init, ReaderFacts!ContentInv, ReaderFacts!RegisteredWhenStored,
     ReaderFacts!OneShape, ReaderFacts!OnlyWrites, ReaderFacts!FlushedInv
<1> QED
  BY <1>2, <1>3, UseStart DEF SinkUseInv

LEMMA SinkUseStep == SinkUseInv /\ [Next]_vars => SinkUseInv'
<1> SUFFICES ASSUME SinkUseInv, [Next]_vars PROVE SinkUseInv'
  OBVIOUS
<1>1. [ReaderFacts!Next]_(ReaderFacts!vars)
  BY ProgramUsesTheSink, SameReader DEF SinkUseInv
<1>2. ReaderFacts!KeptInv'
  BY <1>1, SinkTranslationsFit, SinkTimesFit, ReaderFacts!KeptInvNext DEF SinkUseInv
<1>3. ReaderFacts!ContentInv'
  BY <1>1, SinkTranslationsFit, SinkTimesFit, ReaderFacts!ContentInvNext DEF SinkUseInv
<1>4. ReaderFacts!FlushedInv'
  BY <1>1, SinkTranslationsFit, SinkTimesFit, ReaderFacts!FlushedInvNext DEF SinkUseInv
<1>5. ReaderFacts!HorizonInv'
  BY <1>1, SinkTranslationsFit, SinkTimesFit, ReaderFacts!HorizonInvNext DEF SinkUseInv
<1> QED
  BY <1>2, <1>3, <1>4, <1>5, UseStep DEF SinkUseInv

LEMMA SinkUseInvariant == Spec => []SinkUseInv
  BY SinkUseStart, SinkUseStep, PTL DEF Spec

-----------------------------------------------------------------------------
(* Times of the source are whole hours. *)

LEMMA WholeHoursHaveNoRest == \A h \in Nat \ {0} : \A x \in Nat : (h * x) % h = 0
<1> SUFFICES ASSUME NEW h \in Nat \ {0}, NEW x \in Nat PROVE (h * x) % h = 0
  OBVIOUS
<1> DEFINE q == (h * x) \div h
           r == (h * x) % h
<1>1. q \in Int /\ r \in 0 .. h - 1 /\ h * x = h * q + r
  OBVIOUS
<1> HIDE DEF q, r
<1>2. h * (x - q) = r
  BY <1>1
<1>3. \A d \in Int : d >= 1 => h * d >= h
  OBVIOUS
<1>4. \A d \in Int : d <= -1 => h * d <= -h
  OBVIOUS
<1>5. x - q \in Int
  BY <1>1
<1>6. ~(x - q >= 1) /\ ~(x - q <= -1)
  BY <1>1, <1>2, <1>3, <1>4, <1>5
<1>7. x - q = 0
  BY <1>5, <1>6
<1>8. r = 0
  BY <1>2, <1>7
<1> QED
  BY <1>8 DEF r

LEMMA ValidTimes ==
    ASSUME translation_ \in SinkTranslations, NEW p \in DOMAIN translation_,
           NEW i \in DOMAIN SourceAxis
    PROVE  /\ SourceAxis[i] \in Nat /\ translation_[p].offset \in Nat
           /\ ReaderFacts!ValidTime(p, i)
                  = HourLength * (SourceAxis[i] + translation_[p].offset)
<1>1. SourceAxis[i] \in Nat /\ translation_[p].offset \in Nat /\ HourLength \in Nat
  BY FilesAssumption, ProgramAssumption DEF Reader!Specification
<1>2. \A a, b, h \in Nat : h * a + h * b = h * (a + b)
  OBVIOUS
<1> QED
  BY <1>1, <1>2 DEF ReaderFacts!ValidTime, SinkAxis

LEMMA NothingHasMinutes ==
    ASSUME translation_ \in SinkTranslations
    PROVE  ReaderFacts!NoMinutes
<1> SUFFICES ASSUME NEW p \in DOMAIN translation_, NEW i \in DOMAIN SinkAxis
             PROVE  ReaderFacts!ValidTime(p, i) % HourLength < MinuteLength
  BY DEF ReaderFacts!NoMinutes
<1>1. i \in DOMAIN SourceAxis
  BY DEF SinkAxis
<1>2. SourceAxis[i] + translation_[p].offset \in Nat
  BY <1>1, ValidTimes
<1>3. ReaderFacts!ValidTime(p, i) = HourLength * (SourceAxis[i] + translation_[p].offset)
  BY <1>1, ValidTimes
<1>4. ReaderFacts!ValidTime(p, i) % HourLength = 0
  BY <1>2, <1>3, WholeHoursHaveNoRest, ProgramAssumption
<1> QED
  BY <1>4, ProgramAssumption

(* If every output has the offset of something it is made from, its valid    *)
(* time is in the axis: work would have failed on that time before.          *)
THEOREM FieldsHaveTimes == Spec => [](OffsetsOfInputs => NoFieldMissesTheAxis)
<1>1. SinkUseInv => (OffsetsOfInputs => NoFieldMissesTheAxis)
  <2> SUFFICES ASSUME SinkUseInv, OffsetsOfInputs, NEW o \in unsaved, Reader!Translated(o)
               PROVE  Reader!InAxis(o, step)
    BY DEF NoFieldMissesTheAxis
  <2>1. LoopFacts!TypeOK /\ validTimes = SourceAxis /\ LoopFacts!DeliveryInv
    BY DEF SinkUseInv, UseInv, ProgramInv, LoopFacts!DeliveryInv, LoopFacts!IInv
  <2>2. pc = "saving" /\ o \in DOMAIN toSave /\ o \in Output
    <3>1. LoopFacts!Output = Output
      BY DEF LoopFacts!Output, Output, LoopFacts!WeatherData, WeatherData
    <3> QED
      BY <2>1, <3>1 DEF LoopFacts!TypeOK
  <2>3. step \in DOMAIN SourceAxis /\ LoopFacts!Now = SourceAxis[step]
    BY <2>1, <2>2, LoopAxes DEF LoopFacts!TypeOK, LoopFacts!Call, LoopFacts!Now
  <2>4. translation_ \in SinkTranslations /\ o \in DOMAIN translation_
    BY DEF SinkUseInv, ReaderFacts!KeptInv, Reader!Translated
  <2> DEFINE d == translation_[o].offset
  <2>5. d \in OffsetsRead(o) /\ d \in Nat /\ SourceAxis[step] \in Nat
    BY <2>3, <2>4, ValidTimes DEF OffsetsOfInputs
  <2>6. /\ \A p \in LoopFacts!Recipe(o)[3] :
              SourceAxis[step] + SourceOffsets[p] \in Range(SourceAxis)
        /\ LoopFacts!Recipe(o)[1] # "waves" =>
              /\ \A p \in {"CloudCover", "PrecipitationInFrom", "PrecipitationInTo"} :
                    SourceAxis[step] + SourceOffsets[p] \in Range(SourceAxis)
              /\ SourceAxis[step] + LoopFacts!SymbolRange + SourceOffsets["CloudCover"]
                    \in Range(SourceAxis)
    <3>1. LoopFacts!Range(SourceAxis) = Range(SourceAxis)
      BY DEF LoopFacts!Range, Range
    <3> QED
      BY <2>1, <2>2, <2>3, <3>1, LoopAxes, LoopChoices, LoopFacts!TimesOfTheInputs
  <2>7. SourceOffsets["CloudCover"] \in Nat
    BY FilesAssumption DEF Input
  <2>8. LoopFacts!SymbolRange = 6 /\ Loop!SymbolRange = 6
    BY DEF LoopFacts!SymbolRange, Loop!SymbolRange
  <2>9. SourceAxis[step] + d \in Range(SourceAxis)
    BY <2>2, <2>5, <2>6, <2>7, <2>8, SameRecipe DEF OffsetsRead
  <2>10. PICK k \in DOMAIN SourceAxis : SourceAxis[k] = SourceAxis[step] + d
    BY <2>9 DEF Range
  <2>11. SinkAxis[k] = ReaderFacts!ValidTime(o, step) /\ k \in DOMAIN SinkAxis
    BY <2>3, <2>4, <2>10, ValidTimes DEF SinkAxis
  <2>12. ReaderFacts!wantedTime(o, step) = ReaderFacts!ValidTime(o, step)
    <3>1. step \in DOMAIN SinkAxis
      BY <2>3 DEF SinkAxis
    <3> QED
      BY <2>4, <3>1, NothingHasMinutes, SinkTranslationsFit, SinkTimesFit,
         ReaderFacts!TimeIsConverted
  <2>13. ReaderFacts!InAxis(o, step)
    BY <2>11, <2>12 DEF ReaderFacts!InAxis, ReaderFacts!Range
  <2> QED
    BY <2>13, SamePlaces
<1> QED
  BY <1>1, SinkUseInvariant, PTL

-----------------------------------------------------------------------------
(* The loop and the sink agree about what is in the file. *)

\* What the loop takes for a write that is refused is one that add answers
\* with an exception, now and for the rest of the run: a name that is taken at
\* the beginning stays so, and one that is not is never taken by another.
RefusedByTheSink ==
    \A p \in Output, i \in DOMAIN SourceAxis :
        <<p, SourceAxis[i]>> \in rejected <=>
            \/ ~ReaderFacts!Found(p, i)
            \/ /\ ReaderFacts!Wanted(p, i)
               /\ ~ReaderFacts!HasValue(p) \/ ReaderFacts!NameTaken(p)

\* Of what the loop has written the sink has stored what is wanted.
StoredWhenWanted ==
    \A p \in Output, i \in DOMAIN SourceAxis :
        <<p, i>> \in stored <=>
            <<p, SourceAxis[i]>> \in DOMAIN sink /\ ReaderFacts!Wanted(p, i)

FileInv ==
    /\ SinkUseInv
    /\ RefusedByTheSink
    /\ StoredWhenWanted
    /\ output = "complete" => flushed

LEMMA FileStart == Init => FileInv
<1> SUFFICES ASSUME Init PROVE FileInv
  OBVIOUS
<1>1. SinkUseInv /\ output = "none"
  BY SinkUseStart DEF Init
<1>2. Reader!Init /\ sink = [k \in {} |-> Loop!Field]
  BY DEF Init, Loop!Init
<1>3. StoredWhenWanted
  BY <1>2 DEF Reader!Init, StoredWhenWanted
<1>4. DOMAIN parameters_ = {}
  BY <1>2 DEF Reader!Init
<1>5. ASSUME NEW p \in Output, NEW i \in DOMAIN SourceAxis
      PROVE  <<p, SourceAxis[i]>> \in rejected <=>
                \/ ~ReaderFacts!Found(p, i)
                \/ /\ ReaderFacts!Wanted(p, i)
                   /\ ~ReaderFacts!HasValue(p) \/ ReaderFacts!NameTaken(p)
  <2>1. Reader!NameTaken(p) <=> Reader!cfName(p) \in cdm_
    BY <1>4 DEF Reader!NameTaken
  <2>2. <<p, SourceAxis[i]>> \in Writes
    BY ProgramAssumption DEF Range
  <2>3. \A j \in DOMAIN SourceAxis : SourceAxis[j] = SourceAxis[i] => j = i
    BY LoopAxes
  <2>4. rejected = {w \in Writes :
                      \E j \in DOMAIN SourceAxis : SourceAxis[j] = w[2] /\ Refused(w[1], j)}
    BY DEF Init
  <2>5. <<p, SourceAxis[i]>> \in rejected <=> Refused(p, i)
    BY <2>2, <2>3, <2>4
  <2> QED
    BY <2>1, <2>5, SamePlaces DEF Refused
<1> QED
  BY <1>1, <1>3, <1>5 DEF FileInv, RefusedByTheSink

\* What add decides is decided from the beginning.
LEMMA AddKeepsRefusals ==
    ASSUME UNCHANGED <<translation_, extraDimensions_, wantedNumberOfTimeSteps_>>
    PROVE  /\ \A p, i : /\ ReaderFacts!Found(p, i)' <=> ReaderFacts!Found(p, i)
                        /\ ReaderFacts!Wanted(p, i)' <=> ReaderFacts!Wanted(p, i)
           /\ \A p : /\ ReaderFacts!HasValue(p)' <=> ReaderFacts!HasValue(p)
                     /\ ReaderFacts!cfName(p)' = ReaderFacts!cfName(p)
<1>1. \A p, i : ReaderFacts!wantedTime(p, i)' = ReaderFacts!wantedTime(p, i)
  BY DEF ReaderFacts!wantedTime, ReaderFacts!get_seconds_since_epoch, ReaderFacts!ValidTime
<1>2. \A p, i : /\ ReaderFacts!Found(p, i)' <=> ReaderFacts!Found(p, i)
                /\ ReaderFacts!Wanted(p, i)' <=> ReaderFacts!Wanted(p, i)
  BY <1>1 DEF ReaderFacts!Found, ReaderFacts!Wanted, ReaderFacts!Translated,
     ReaderFacts!InAxis, ReaderFacts!getValidTimeIndex_, ReaderFacts!Range
<1>3. \A p : /\ ReaderFacts!HasValue(p)' <=> ReaderFacts!HasValue(p)
             /\ ReaderFacts!cfName(p)' = ReaderFacts!cfName(p)
  BY DEF ReaderFacts!HasValue, ReaderFacts!HasDimension, ReaderFacts!hasExtraDimension,
     ReaderFacts!cfName
<1> QED
  BY <1>2, <1>3

\* What a call of add stores, and whose names are taken after it.
LEMMA AddStoresOrNot ==
    ASSUME NEW p, NEW i, ReaderFacts!Add(p, i)
    PROVE  /\ UNCHANGED <<translation_, extraDimensions_, wantedNumberOfTimeSteps_>>
           /\ \A q : ReaderFacts!NameTaken(q)' <=> ReaderFacts!NameTaken(q)
           /\ stored' = IF /\ ReaderFacts!Found(p, i) /\ ReaderFacts!Wanted(p, i)
                           /\ ReaderFacts!HasValue(p) /\ ~ReaderFacts!NameTaken(p)
                        THEN stored \cup {<<p, i>>} ELSE stored
<1>1. UNCHANGED <<translation_, extraDimensions_, wantedNumberOfTimeSteps_>>
  BY DEF ReaderFacts!Add, ReaderFacts!AddFails, ReaderFacts!AddIgnores,
     ReaderFacts!AddFindsNoDimension, ReaderFacts!AddFindsNoPlace,
     ReaderFacts!AddFindsNameTaken, ReaderFacts!AddStores, ReaderFacts!Throws,
     ReaderFacts!Called
<1>2. CASE ReaderFacts!AddStores(p, i)
  <2>1. /\ parameters_' = [c \in DOMAIN parameters_ \cup {ReaderFacts!cfName(p)} |->
                              IF c \in DOMAIN parameters_ THEN parameters_[c]
                              ELSE translation_[p].dimension]
        /\ cdm_' = cdm_ \cup {ReaderFacts!cfName(p)}
        /\ stored' = stored \cup {<<p, i>>}
        /\ ReaderFacts!Found(p, i) /\ ReaderFacts!Wanted(p, i)
        /\ ReaderFacts!HasValue(p) /\ ~ReaderFacts!NameTaken(p)
    BY <1>2 DEF ReaderFacts!AddStores, ReaderFacts!Register
  <2>2. DOMAIN parameters_' = DOMAIN parameters_ \cup {ReaderFacts!cfName(p)}
    BY <2>1
  <2>3. \A q : ReaderFacts!cfName(q)' = ReaderFacts!cfName(q)
    BY <1>1, AddKeepsRefusals
  <2>4. \A q : ReaderFacts!NameTaken(q)' <=> ReaderFacts!NameTaken(q)
    BY <2>1, <2>2, <2>3 DEF ReaderFacts!NameTaken
  <2> QED
    BY <1>1, <2>1, <2>4
<1>3. CASE ~ReaderFacts!AddStores(p, i)
  <2>1. /\ UNCHANGED <<cdm_, parameters_, stored>>
        /\ ~(/\ ReaderFacts!Found(p, i) /\ ReaderFacts!Wanted(p, i)
             /\ ReaderFacts!HasValue(p) /\ ~ReaderFacts!NameTaken(p))
    BY <1>3 DEF ReaderFacts!Add, ReaderFacts!AddFails, ReaderFacts!AddIgnores,
       ReaderFacts!AddFindsNoDimension, ReaderFacts!AddFindsNoPlace,
       ReaderFacts!AddFindsNameTaken, ReaderFacts!Throws, ReaderFacts!HasValue
  <2>2. \A q : ReaderFacts!NameTaken(q)' <=> ReaderFacts!NameTaken(q)
    BY <1>1, <2>1, AddKeepsRefusals DEF ReaderFacts!NameTaken
  <2> QED
    BY <1>1, <2>1, <2>2
<1> QED
  BY <1>2, <1>3

LEMMA WriteKeepsFileInv ==
    ASSUME FileInv, WriteField
    PROVE  RefusedByTheSink' /\ StoredWhenWanted'
<1>0. UseInv /\ validTimes = SourceAxis /\ LoopFacts!TypeOK
  BY DEF FileInv, SinkUseInv, UseInv, ProgramInv, LoopFacts!DeliveryInv, LoopFacts!IInv
<1>1. PICK p \in unsaved :
         /\ p \in Output /\ step \in DOMAIN SourceAxis
         /\ pc = "saving" /\ UNCHANGED <<pc, step>>
         /\ unsaved' = unsaved \ {p}
         /\ \A o \in unsaved : Reader!Rank(p) <= Reader!Rank(o)
         /\ Reader!Add(p, step)
  BY <1>0, WriteCallsTheSink
<1>2. PICK o \in unsaved :
         /\ unsaved' = unsaved \ {o}
         /\ sink' = IF <<o, Loop!Now>> \in rejected THEN sink
                    ELSE [k \in DOMAIN sink \cup {<<o, Loop!Now>>} |->
                             IF k = <<o, Loop!Now>> THEN toSave[o] ELSE sink[k]]
  BY DEF WriteField, Loop!Write
<1>3. o = p /\ Loop!Now = SourceAxis[step]
  BY <1>0, <1>1, <1>2 DEF Loop!Now
<1>4. rejected' = rejected
  BY DEF WriteField, Loop!Write, Loop!inputs
<1>5. /\ UNCHANGED <<translation_, extraDimensions_, wantedNumberOfTimeSteps_>>
      /\ \A q : ReaderFacts!NameTaken(q)' <=> ReaderFacts!NameTaken(q)
      /\ stored' = IF /\ ReaderFacts!Found(p, step) /\ ReaderFacts!Wanted(p, step)
                      /\ ReaderFacts!HasValue(p) /\ ~ReaderFacts!NameTaken(p)
                   THEN stored \cup {<<p, step>>} ELSE stored
  BY <1>1, SameAdd, AddStoresOrNot
<1>6. /\ \A q, i : /\ ReaderFacts!Found(q, i)' <=> ReaderFacts!Found(q, i)
                   /\ ReaderFacts!Wanted(q, i)' <=> ReaderFacts!Wanted(q, i)
      /\ \A q : ReaderFacts!HasValue(q)' <=> ReaderFacts!HasValue(q)
  BY <1>5, AddKeepsRefusals
<1>7. RefusedByTheSink'
  BY <1>4, <1>5, <1>6 DEF FileInv, RefusedByTheSink
<1>8. ASSUME NEW q \in Output, NEW i \in DOMAIN SourceAxis
      PROVE  <<q, i>> \in stored' <=>
                <<q, SourceAxis[i]>> \in DOMAIN sink' /\ ReaderFacts!Wanted(q, i)
  <2>1. <<q, i>> \in stored <=>
           <<q, SourceAxis[i]>> \in DOMAIN sink /\ ReaderFacts!Wanted(q, i)
    BY DEF FileInv, StoredWhenWanted
  <2>2. <<q, SourceAxis[i]>> \in DOMAIN sink' <=>
           \/ <<q, SourceAxis[i]>> \in DOMAIN sink
           \/ <<p, SourceAxis[step]>> \notin rejected
              /\ <<q, SourceAxis[i]>> = <<p, SourceAxis[step]>>
    BY <1>2, <1>3
  <2>3. <<q, SourceAxis[i]>> = <<p, SourceAxis[step]>> <=> <<q, i>> = <<p, step>>
    BY <1>1, LoopAxes
  <2>4. <<p, SourceAxis[step]>> \in rejected <=>
           \/ ~ReaderFacts!Found(p, step)
           \/ /\ ReaderFacts!Wanted(p, step)
              /\ ~ReaderFacts!HasValue(p) \/ ReaderFacts!NameTaken(p)
    BY <1>1 DEF FileInv, RefusedByTheSink
  <2>5. CASE <<q, i>> = <<p, step>>
    <3>1. q = p /\ i = step
      BY <2>5
    <3>2. <<q, i>> \in stored' <=>
             \/ <<q, i>> \in stored
             \/ /\ ReaderFacts!Found(p, step) /\ ReaderFacts!Wanted(p, step)
                /\ ReaderFacts!HasValue(p) /\ ~ReaderFacts!NameTaken(p)
      BY <1>5, <3>1
    <3> QED
      BY <2>1, <2>2, <2>3, <2>4, <2>5, <3>1, <3>2
  <2>6. CASE <<q, i>> # <<p, step>>
    <3>1. <<q, i>> \in stored' <=> <<q, i>> \in stored
      BY <1>5, <2>6
    <3> QED
      BY <2>1, <2>2, <2>3, <2>6, <3>1
  <2> QED
    BY <2>5, <2>6
<1>9. StoredWhenWanted'
  BY <1>6, <1>8 DEF StoredWhenWanted
<1> QED
  BY <1>7, <1>9

LEMMA FileStep == FileInv /\ [Next]_vars => FileInv'
<1> SUFFICES ASSUME FileInv, [Next]_vars PROVE FileInv'
  OBVIOUS
<1>1. SinkUseInv' /\ LoopFacts!TypeOK
  BY SinkUseStep DEF FileInv, SinkUseInv, UseInv, ProgramInv, LoopFacts!DeliveryInv,
     LoopFacts!IInv
<1>2. UNCHANGED LoopFacts!inputs /\ (sink' = sink \/ LoopFacts!Write)
  BY <1>1, ProgramRunsTheLoop, LoopAxes, LoopChoices, LoopFacts!SettlingSteps
<1>3. rejected' = rejected
  BY <1>2 DEF LoopFacts!inputs
<1>4. ASSUME UNCHANGED <<translation_, extraDimensions_, wantedNumberOfTimeSteps_,
                         cdm_, parameters_, stored, sink>>
      PROVE  RefusedByTheSink' /\ StoredWhenWanted'
  <2>1. /\ \A q, i : /\ ReaderFacts!Found(q, i)' <=> ReaderFacts!Found(q, i)
                     /\ ReaderFacts!Wanted(q, i)' <=> ReaderFacts!Wanted(q, i)
        /\ \A q : /\ ReaderFacts!HasValue(q)' <=> ReaderFacts!HasValue(q)
                  /\ ReaderFacts!cfName(q)' = ReaderFacts!cfName(q)
    BY <1>4, AddKeepsRefusals
  <2>2. \A q : ReaderFacts!NameTaken(q)' <=> ReaderFacts!NameTaken(q)
    BY <1>4, <2>1 DEF ReaderFacts!NameTaken
  <2>3. RefusedByTheSink'
    BY <1>3, <2>1, <2>2 DEF FileInv, RefusedByTheSink
  <2>4. StoredWhenWanted'
    BY <1>4, <2>1 DEF FileInv, StoredWhenWanted
  <2> QED
    BY <2>3, <2>4
<1>5. CASE WriteField
  <2>1. UNCHANGED <<output, flushed>>
    <3>1. \E p : Reader!Add(p, step)
      BY <1>5 DEF WriteField
    <3> QED
      BY <1>5, <3>1, AddCalls DEF WriteField, programVars
  <2> QED
    BY <1>1, <1>5, <2>1, WriteKeepsFileInv DEF FileInv
<1>6. CASE Generate
  <2>1. sink' = sink
    BY <1>2, <1>6 DEF Generate, LoopFacts!Write
  <2>2. UNCHANGED sinkVars /\ output' = output
    BY <1>6 DEF Generate, programVars
  <2> QED
    BY <1>1, <1>4, <2>1, <2>2 DEF FileInv, sinkVars
<1>7. CASE FlushSink
  BY <1>1, <1>4, <1>7 DEF FlushSink, Reader!Flush, loopVars, FileInv
<1>8. CASE FlushFails
  BY <1>1, <1>4, <1>8 DEF FlushFails, loopVars, sinkVars, FileInv
<1>9. CASE \/ ShowHelp \/ WrongLogLevel \/ WrongOption \/ Configured \/ OpenSource
           \/ MakeSink \/ CannotStart \/ LoopFails \/ Ended \/ UNCHANGED vars
  <2>1. UNCHANGED sinkVars /\ UNCHANGED loopVars /\ output' = output
    BY <1>9 DEF ShowHelp, WrongLogLevel, WrongOption, Configured, OpenSource, MakeSink,
       CannotStart, LoopFails, Ended, Exit, GoTo, vars, programVars
  <2> QED
    BY <1>1, <1>4, <2>1 DEF FileInv, sinkVars, loopVars
<1> QED
  BY <1>5, <1>6, <1>7, <1>8, <1>9 DEF Next

LEMMA FileInvariant == Spec => []FileInv
  BY FileStart, FileStep, PTL DEF Spec

\* Loop and LoopFacts are two instances of the same definitions.
LEMMA SameProduct == \A t : Loop!Product(t) = LoopFacts!Product(t)
<1>1. /\ Loop!Output = Output /\ LoopFacts!Output = Output
      /\ Loop!Input = LoopFacts!Input
  BY DEF Loop!Output, LoopFacts!Output, Output, Loop!WeatherData, LoopFacts!WeatherData,
     WeatherData, Loop!Input, LoopFacts!Input
<1>2. /\ \A p : Loop!Present(p) <=> LoopFacts!Present(p)
      /\ \A p, t : Loop!Readable(p, t) <=> LoopFacts!Readable(p, t)
      /\ \A g : Loop!Made(g) <=> LoopFacts!Made(g)
      /\ Loop!Simplified <=> LoopFacts!Simplified
      /\ Loop!Percentiles <=> LoopFacts!Percentiles
  BY DEF Loop!Present, LoopFacts!Present, Loop!Readable, LoopFacts!Readable, Loop!Range,
     LoopFacts!Range, Loop!Made, LoopFacts!Made, Loop!Simplified, LoopFacts!Simplified,
     Loop!Percentiles, LoopFacts!Percentiles
<1>3. \A p : /\ Loop!InputGroup(p) = LoopFacts!InputGroup(p)
             /\ Loop!Forerunners(p) = LoopFacts!Forerunners(p)
             /\ Loop!Base(p) = LoopFacts!Base(p)
  BY DEF Loop!InputGroup, LoopFacts!InputGroup, Loop!Forerunners, LoopFacts!Forerunners,
     Loop!Base, LoopFacts!Base
<1>4. Loop!SelectedOnly = LoopFacts!SelectedOnly
  BY DEF Loop!SelectedOnly, LoopFacts!SelectedOnly
<1>5. \A p : /\ Loop!Read(p) <=> LoopFacts!Read(p)
             /\ Loop!UsedForSelection(p) <=> LoopFacts!UsedForSelection(p)
             /\ Loop!UsedForPercentiles(p) <=> LoopFacts!UsedForPercentiles(p)
  BY <1>2, <1>3, <1>4 DEF Loop!Read, LoopFacts!Read, Loop!UsedForSelection,
     LoopFacts!UsedForSelection, Loop!UsedForPercentiles, LoopFacts!UsedForPercentiles
<1>6. \A p, t : Loop!Spoils(p, t) <=> LoopFacts!Spoils(p, t)
  BY <1>2, <1>3, <1>5 DEF Loop!Spoils, LoopFacts!Spoils
<1>7. \A t : Loop!SymbolsPossible(t) <=> LoopFacts!SymbolsPossible(t)
  BY <1>2 DEF Loop!SymbolsPossible, LoopFacts!SymbolsPossible, Loop!SymbolRange,
     LoopFacts!SymbolRange
<1>8. \A t : Loop!Lost(t) <=> LoopFacts!Lost(t)
  BY <1>1, <1>2, <1>6, <1>7 DEF Loop!Lost, LoopFacts!Lost
<1>9. \A t, o : o \in Loop!Product(t) <=> o \in LoopFacts!Product(t)
  BY <1>1, <1>2, <1>8, SameRecipe DEF Loop!Product, LoopFacts!Product
<1>10. \A t : /\ Loop!Product(t) \subseteq Output
              /\ LoopFacts!Product(t) \subseteq Output
  BY <1>1 DEF Loop!Product, LoopFacts!Product
<1> QED
  BY <1>9, <1>10

\* When the loop is done the sink has stored what was promised.
LEMMA StoredIsPromised ==
    ASSUME FileInv, pc = "done", ReaderFacts!HoursFit
    PROVE  stored = Promised
<1>1. /\ LoopFacts!DeliveryInv /\ LoopFacts!TypeOK /\ validTimes = SourceAxis
      /\ LoopFacts!PendingAhead /\ LoopFacts!NothingFromUnfinishedSteps
  BY DEF FileInv, SinkUseInv, UseInv, ProgramInv, LoopFacts!DeliveryInv, LoopFacts!IInv
<1>2. /\ ReaderFacts!HorizonInv /\ translation_ \in SinkTranslations
      /\ ReaderFacts!NoMinutes /\ ReaderFacts!HorizonRespected
  BY NothingHasMinutes DEF FileInv, SinkUseInv, ReaderFacts!HorizonInv
<1>3. LoopFacts!Output = Output /\ ReaderFacts!Parameter = Output
      /\ DOMAIN SinkAxis = DOMAIN SourceAxis
  BY DEF LoopFacts!Output, Output, LoopFacts!WeatherData, WeatherData, ReaderFacts!Parameter,
     SinkAxis
<1>4. step \in 0 .. Len(SourceAxis) /\ \A i \in DOMAIN SourceAxis : i \in Nat /\ 1 <= i
  BY <1>1, LoopAxes DEF LoopFacts!TypeOK
<1>5. ASSUME NEW p \in Output, NEW i \in DOMAIN SourceAxis
      PROVE  <<p, i>> \in stored <=> <<p, i>> \in Promised
  <2>1. outcome[i] # "pending" =>
           (<<p, SourceAxis[i]>> \in DOMAIN sink <=> p \in Loop!Product(SourceAxis[i]))
    BY <1>1, <1>3, SameProduct DEF LoopFacts!DeliveryInv, LoopFacts!SettledGetTheirProduct
  <2>2. <<p, i>> \in stored <=>
           <<p, SourceAxis[i]>> \in DOMAIN sink /\ ReaderFacts!Wanted(p, i)
    BY DEF FileInv, StoredWhenWanted
  <2>3. ASSUME <<p, i>> \in stored PROVE <<p, i>> \in Promised
    <3>1. outcome[i] = "saved"
      BY <1>1, <1>3, <2>2, <2>3 DEF LoopFacts!NothingFromUnfinishedSteps
    <3>2. i <= step
      BY <1>1, <1>4, <3>1 DEF LoopFacts!PendingAhead
    <3>3. LoopFacts!Due(step)
      BY <1>1, <1>4, <3>2 DEF LoopFacts!DeliveryInv, LoopFacts!SettledBehind
    <3>4. Loop!Due(i)
      <4>1. 1 .. i \subseteq 1 .. step
        BY <1>4, <3>2
      <4>2. LoopFacts!Due(i)
        BY <3>3, <4>1 DEF LoopFacts!Due
      <4> QED
        BY <4>2, SameDue
    <3>5. p \in Loop!Product(SourceAxis[i])
      BY <2>1, <2>2, <2>3, <3>1
    <3>6. ReaderFacts!ValidTime(p, i) <= ReaderFacts!lastGenerateTime
      BY <1>2, <2>3 DEF ReaderFacts!HorizonRespected
    <3> QED
      BY <3>4, <3>5, <3>6, SamePlaces DEF Promised
  <2>4. ASSUME <<p, i>> \in Promised PROVE <<p, i>> \in stored
    <3>1. /\ LoopFacts!Due(i) /\ p \in Loop!Product(SourceAxis[i])
          /\ ReaderFacts!ValidTime(p, i) <= ReaderFacts!lastGenerateTime
      BY <2>4, SameDue, SamePlaces DEF Promised
    <3>2. i \in 1 .. step
      BY <1>1, <1>4, <3>1 DEF LoopFacts!DeliveryInv, LoopFacts!NoDueTimeLeft
    <3>3. outcome[i] # "pending"
      BY <1>1, <3>2 DEF LoopFacts!DeliveryInv, LoopFacts!SettledBehind, LoopFacts!Call
    <3>4. <<p, SourceAxis[i]>> \in DOMAIN sink
      BY <2>1, <3>1, <3>3
    <3>5. ReaderFacts!Found(p, i)
      <4>1. <<p, SourceAxis[i]>> \notin rejected
        BY <3>1 DEF Loop!Product
      <4> QED
        BY <4>1 DEF FileInv, RefusedByTheSink
    <3>6. p \in DOMAIN translation_ /\ ReaderFacts!InAxis(p, i)
      BY <3>5 DEF ReaderFacts!Found, ReaderFacts!Translated
    <3>7. ~ReaderFacts!Wanted(p, i) =>
             ReaderFacts!ValidTime(p, i) > ReaderFacts!lastGenerateTime
      <4>1. i \in DOMAIN SinkAxis
        BY <1>3
      <4> QED
        BY <1>2, <3>6, <4>1, SinkTranslationsFit, SinkTimesFit, ReaderFacts!WantedUntilTheEnd
        DEF ReaderFacts!HorizonInv
    <3>8. /\ ReaderFacts!ValidTime(p, i) \in Int /\ ReaderFacts!lastGenerateTime \in Int
      <4>1. numberOfHours \in Nat /\ SinkAxis[1] \in Nat
        BY SinkTimesFit, <1>2 DEF ReaderFacts!HorizonInv
      <4>2. SourceAxis[i] + translation_[p].offset \in Nat
            /\ ReaderFacts!ValidTime(p, i) = HourLength * (SourceAxis[i] + translation_[p].offset)
        BY <1>2, <3>6, ValidTimes
      <4> QED
        BY SMTT(30), <4>1, <4>2, ProgramAssumption DEF ReaderFacts!lastGenerateTime
    <3>9. ReaderFacts!Wanted(p, i)
      BY <3>1, <3>7, <3>8
    <3> QED
      BY <2>2, <3>4, <3>9
  <2> QED
    BY <2>3, <2>4
<1>6. stored \subseteq Output \X DOMAIN SourceAxis
  BY <1>2, <1>3 DEF ReaderFacts!HorizonInv, ReaderFacts!Write
<1>7. Promised \subseteq Output \X DOMAIN SourceAxis
  BY DEF Promised
<1> QED
  BY <1>5, <1>6, <1>7

(* If no two outputs have the same place and the hours fit in an int, a      *)
(* program that has succeeded has written the promised fields to their       *)
(* places and nothing else, whatever was missing or refused on the way.      *)
THEOREM FileIsWhatWasPromised ==
    Spec => [](Reader!NoClash(translation_) /\ HourLength * numberOfHours <= IntMax
                   => FileHoldsTheForecast)
<1>1. FileInv => (Reader!NoClash(translation_) /\ HourLength * numberOfHours <= IntMax
                      => FileHoldsTheForecast)
  <2> SUFFICES ASSUME FileInv, Reader!NoClash(translation_),
                      HourLength * numberOfHours <= IntMax, output = "complete"
               PROVE  FileHoldsTheForecast
    BY DEF FileHoldsTheForecast
  <2>1. pc = "done" /\ flushed
    BY DEF FileInv, SinkUseInv, UseInv, ProgramInv
  <2>2. stored = Promised
    BY <2>1, StoredIsPromised DEF ReaderFacts!HoursFit
  <2>3. ReaderFacts!NoClash(translation_)
    BY DEF Reader!NoClash, ReaderFacts!NoClash
  <2>4. translation_ \in SinkTranslations /\ ReaderFacts!NoMinutes
    BY NothingHasMinutes DEF FileInv, SinkUseInv, ReaderFacts!HorizonInv
  <2>5. \A w \in stored : ReaderFacts!Wanted(w[1], w[2])
    <3>1. \A w \in stored : w[1] \in Output /\ w[2] \in DOMAIN SourceAxis /\ w = <<w[1], w[2]>>
      BY <2>2 DEF Promised
    <3> QED
      BY <3>1 DEF FileInv, StoredWhenWanted
  <2>6. /\ DOMAIN outputFile = {ReaderFacts!cfName(w[1]) : w \in stored}
        /\ \A w \in stored :
              outputFile[ReaderFacts!cfName(w[1])][ReaderFacts!getValidTimeIndex_(w[1], w[2])]
                        [ReaderFacts!getOutputBufferIndex_(w[1])]
                  = ReaderFacts!Written(w[1], w[2])
        /\ \A c \in DOMAIN outputFile : \A pos \in DOMAIN outputFile[c] :
              ReaderFacts!Range(outputFile[c][pos]) \subseteq
                  {ReaderFacts!Blank, ReaderFacts!Fill}
                      \cup {ReaderFacts!Written(w[1], w[2]) : w \in stored}
    BY <2>1, <2>3, <2>4, <2>5, SinkTranslationsFit, SinkTimesFit, ReaderFacts!FileInPlaces
    DEF FileInv, SinkUseInv
  <2>7. DOMAIN outputFile = {Reader!cfName(w[1]) : w \in Promised}
    BY <2>2, <2>6, SamePlaces
  <2>8. ASSUME NEW w \in Promised
        PROVE  outputFile[Reader!PlaceOf(w)[1][1]][Reader!PlaceOf(w)[1][2]][Reader!PlaceOf(w)[2]]
                   = Reader!Written(w[1], w[2])
    <3>1. /\ Reader!PlaceOf(w)[1] = ReaderFacts!Buffer(w[1], w[2])
          /\ Reader!PlaceOf(w)[2] = ReaderFacts!getOutputBufferIndex_(w[1])
      BY SamePlaces DEF Reader!PlaceOf
    <3>2. /\ ReaderFacts!Buffer(w[1], w[2])[1] = ReaderFacts!cfName(w[1])
          /\ ReaderFacts!Buffer(w[1], w[2])[2] = ReaderFacts!getValidTimeIndex_(w[1], w[2])
      BY DEF ReaderFacts!Buffer
    <3> QED
      BY <2>2, <2>6, <3>1, <3>2, SamePlaces
  <2>9. ASSUME NEW c \in DOMAIN outputFile, NEW pos \in DOMAIN outputFile[c]
        PROVE  Range(outputFile[c][pos]) \subseteq
                   {Reader!Blank, Reader!Fill}
                       \cup {Reader!Written(w[1], w[2]) : w \in Promised}
    <3>1. Range(outputFile[c][pos]) = ReaderFacts!Range(outputFile[c][pos])
      BY DEF Range, ReaderFacts!Range
    <3>2. {Reader!Written(w[1], w[2]) : w \in Promised}
              = {ReaderFacts!Written(w[1], w[2]) : w \in stored}
      BY <2>2, SamePlaces
    <3> QED
      BY ZenonT(30), <2>6, <3>1, <3>2, SamePlaces
  <2> QED
    BY <2>7, <2>8, <2>9 DEF FileHoldsTheForecast
<1> QED
  BY <1>1, FileInvariant, PTL

=============================================================================
