-------------------------- MODULE WeatherParameters --------------------------
(* The parameters the program reads and writes, as the source names them.   *)
EXTENDS Sequences

Input == {"CloudCover", "PrecipitationInFrom", "PrecipitationInTo",
          "LowCloudCover", "MediumCloudCover", "HighCloudCover",
          "Temperature", "TemperatureMin", "TemperatureMax",
          "WindU", "WindV", "AirPressure", "RelativeHumidity",
          "SignificantWaveHeight"}

\* The outputs in the order of enum WeatherData.  The percentiles of one
\* quantity, WindU/WindV/WindProbability and the two temperature deviation
\* probabilities are always made together and count as one.
WeatherData == <<"CloudCover", "YrSymbol", "ProbabilityOfYrSymbol",
    "Temperature", "TemperatureMin", "TemperatureMax",
    "TemperaturePercentiles", "TemperatureProbabilities",
    "Wind", "WindPercentiles",
    "PrecipitationOut", "PrecipitationPercentiles",
    "AirPressure", "RelativeHumidity",
    "LowCloudCover", "MediumCloudCover", "HighCloudCover",
    "CloudCoverPercentiles", "SignificantWaveHeightPercentiles">>

Output == {WeatherData[i] : i \in DOMAIN WeatherData}

\* What may be excluded from a forecast, or included in it.
Group == {"symbols", "clouds", "temperature", "wind", "precipitation",
          "pressure", "waves", "humidity"}

=============================================================================
