------------------------ MODULE MCGeneratedDataReader ------------------------
(* Small translations in the manner of the files under etc/.                *)
EXTENDS GeneratedDataReader

Parameters == <<"CloudCover", "YrSymbol", "Temperature", "Cloud10", "Cloud90">>

Plain(c, hours) == [cfName |-> c, offset |-> hours, dimension |-> "none", value |-> 0]
Percentile(c, v) == [cfName |-> c, offset |-> 0, dimension |-> "percentile", value |-> v]

\* As eps2probandltf-1.1.parameters.xml: the percentiles of the cloud cover
\* have a variable of their own, symbols are valid six hours later.  The
\* temperature is not translated.
SeparateVariables ==
    [p \in {"CloudCover", "YrSymbol", "Cloud10", "Cloud90"} |->
        CASE p = "CloudCover" -> Plain("cloud_area_fraction", 0)
          [] p = "YrSymbol" -> Plain("weather_symbol", 6)
          [] p = "Cloud10" -> Percentile("cloud_area_fraction_percentiles", 10)
          [] p = "Cloud90" -> Percentile("cloud_area_fraction_percentiles", 90)]

\* The same with a percentile that its dimension does not list.
MissingValue == [SeparateVariables EXCEPT !["Cloud10"].value = 20]

\* As eps2probandltf.parameters.xml: one variable for all of them.
SharedVariable ==
    [SeparateVariables EXCEPT
        !["Cloud10"].cfName = "cloud_area_fraction",
        !["Cloud90"].cfName = "cloud_area_fraction"]

OwnVariables == {SeparateVariables, MissingValue}
OneVariable == {SharedVariable}

Dimensions == {[d \in {"percentile"} |-> {10, 90}]}

\* Half hours: 0, 6, 9 and 12 hours.  Nothing is valid six hours after 9 or 12.
Times == <<0, 12, 18, 24>>

\* 0, half past 0, 1, half past 1.
HalfHours == <<0, 1, 2, 3>>

=============================================================================
