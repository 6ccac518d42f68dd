-------------------------- MODULE MCEps2ProbAndLtf --------------------------
(* A small instance of the program.                                        *)
EXTENDS Eps2ProbAndLtf, TLC

-----------------------------------------------------------------------------
(* Command lines *)

Nothing ==
    [fileType |-> << >>, timesteps |-> << >>, excludePercentiles |-> << >>,
     excludeSimplifiedProbabilities |-> << >>, exclude |-> << >>, include |-> << >>,
     logLevel |-> << >>]

NoFile == [kind |-> "missing", parsed |-> TRUE, unfit |-> {}, options |-> Nothing]
File(options) == [NoFile EXCEPT !.kind = "text", !.options = options]

\* As etc/eps2probandltf.conf.
NoWaves == File([Nothing EXCEPT !.exclude = <<"waves">>, !.fileType = <<"felt">>])

Ordinary ==
    [parsed |-> TRUE, unfit |-> {}, help |-> FALSE, file |-> NoFile,
     options |-> [Nothing EXCEPT !.timesteps = <<9>>]]

\* Ends between two times, on a time, before the first, after the last.
Ends == {[Ordinary EXCEPT !.options.timesteps = <<h>>] : h \in {0, 6, 9, 30}}

\* Excluded, included again, and both in the two places.
Lists ==
    {[Ordinary EXCEPT !.options.exclude = <<"all">>,
                      !.options.include = <<"symbols", "precipitation">>],
     [Ordinary EXCEPT !.options.exclude = <<"symbols">>],
     [Ordinary EXCEPT !.options.exclude = <<"wind", "waves">>, !.options.include = <<"waves">>,
                      !.options.excludeSimplifiedProbabilities = <<TRUE>>],
     [Ordinary EXCEPT !.options.exclude = <<"clouds">>, !.options.include = <<"cloud">>],
     [Ordinary EXCEPT !.file = NoWaves],
     [Ordinary EXCEPT !.file = NoWaves, !.options.exclude = <<"temperature", "humidity">>],
     [Ordinary EXCEPT !.file = NoWaves, !.options.include = <<"waves">>],
     [Ordinary EXCEPT !.options.exclude = <<"wind", "pressure">>,
                      !.file = File([Nothing EXCEPT !.include = <<"wind">>,
                                                    !.excludePercentiles = <<TRUE>>])]}

\* Only the option that the command line gives is not looked at in the file.
Faults ==
    {[Ordinary EXCEPT !.parsed = FALSE, !.help = TRUE],
     [Ordinary EXCEPT !.unfit = {"timesteps"}],
     [Ordinary EXCEPT !.help = TRUE, !.options.exclude = <<"cloud">>],
     [Ordinary EXCEPT !.file.kind = "unusable"],
     [Ordinary EXCEPT !.file = [NoWaves EXCEPT !.parsed = FALSE]],
     [Ordinary EXCEPT !.file = [NoWaves EXCEPT !.unfit = {"fileType"}], !.help = TRUE],
     [Ordinary EXCEPT !.file = [NoWaves EXCEPT !.unfit = {"timesteps"}]],
     [Ordinary EXCEPT !.options.logLevel = <<"loud">>]}

MCCommandLines == Ends \cup Lists \cup Faults

-----------------------------------------------------------------------------
(* Source files: ten members, or one input that has none or other ones. *)

Times == <<0, 6, 12, 18>>

Members(n) == [kind |-> "ensemble", members |-> n]
Absent == [kind |-> "absent", members |-> 0]

Whole == [p \in Input |-> Members(10)]
Missed == {"CloudCover", "PrecipitationInTo", "LowCloudCover", "Temperature",
           "WindV", "SignificantWaveHeight"}

MCFiles ==
    {Whole} \cup {[Whole EXCEPT ![p] = Absent] : p \in Missed}
            \cup {[Whole EXCEPT !["LowCloudCover"] = Members(9)],
                  [Whole EXCEPT !["AirPressure"] = [kind |-> "noEnsemble", members |-> 0]]}

\* The precipitation is accumulated: the amount of six hours is read at their end.
MCInOffset == [p \in Input |-> IF p = "PrecipitationInTo" THEN 6 ELSE 0]

MCRejectable == Output \X Range(Times)

-----------------------------------------------------------------------------
(* Translations as in eps2probandltf-1.1.parameters.xml. *)

Later == {"YrSymbol", "ProbabilityOfYrSymbol", "PrecipitationOut",
          "PrecipitationPercentiles"}

Shape(p) ==
    CASE p \in {"CloudCoverPercentiles", "WindPercentiles"} -> "percentile"
      [] p = "TemperatureProbabilities" -> "deviation"
      [] OTHER -> "none"

\* Two quantities share a variable, at different percentiles; the pressure is
\* not translated.
Usual ==
    [p \in Output \ {"AirPressure"} |->
        [cfName |-> IF Shape(p) = "percentile" THEN "percentiles" ELSE p,
         offset |-> IF p \in Later THEN 6 ELSE 0,
         dimension |-> Shape(p),
         value |-> CASE p = "CloudCoverPercentiles" -> 10
                     [] p = "WindPercentiles" -> 90
                     [] p = "TemperatureProbabilities" -> 15
                     [] OTHER -> 0]]

\* A value its dimension does not list, a dimension that is not declared, and
\* a name the file has for something else.
Misplaced ==
    [Usual EXCEPT !["TemperatureProbabilities"].value = 20,
                  !["WindPercentiles"].cfName = "winds",
                  !["WindPercentiles"].dimension = "percent",
                  !["RelativeHumidity"].cfName = "height"]

MCTranslations == {Usual, Misplaced}

MCDimensionLists == {"percentile" :> {10, 90} @@ "deviation" :> {15, 25}}

MCTakenNames == {{"time", "height", "percentile", "deviation"}}

-----------------------------------------------------------------------------
\* The hypotheses of the theorems FieldsHaveTimes and FileIsWhatWasPromised.
ASSUME HypothesesHold ==
    /\ OffsetsOfInputs
    /\ \A tr \in SinkTranslations : Reader!NoClash(tr)
    /\ \A cl \in CommandLines :
          HourLength * Control(cl).numberOfHoursToGenerate <= IntMax

=============================================================================
