# eps2probandltf in TLA+

eps2probandltf reads an ensemble weather forecast (many equally probable
forecasts, the *members*), and turns it into one deterministic forecast with
probabilities: a selected weather symbol and its certainty, selected values of
other parameters, percentiles and chances of exceeding limits. It is a
sequential batch program; what makes it hard to test is not concurrency but
error handling (ten kinds of products, each of which may fail in several ways
at each of many times, and must not harm the others), bookkeeping shared by parts
that do not check each other (times, offsets, horizon, places in the file), and
arithmetic at boundaries (small ensembles, halves, calm winds).

This directory holds TLA+ modules translated from the C++ source in
`src/src`, TLC configurations that check them, and proofs for TLAPS.
`PROJECT.json` lists the components, the runs, the line ranges each definition
stands for, the hazards and the disagreements found.

## The system

```
 main ── ProbabilityGenerationConfiguration     options, exclude/include, hours
  │
  ├── FimexSource ──────────── ParameterTranslation     file -> ensembles
  │       ▲ getValidTimes, getData
  ├── ProbabilityGeneratorControl::work          loop over valid times
  │       └── ProbabilityGenerator::work         one time: ten generate functions,
  │               │                              toSave_, saveAll_
  │               ├── SymbolGenerator, symbol, weatherSymbolProbability
  │               ├── algorithm (most probable value, medians)
  │               ├── wind/  temperature/  precipitation/  percentile/
  │               ▼ write
  └── FimexSink ── GeneratedDataReader ── ParameterTranslation   fields -> file
          flush
```

| Part | State | Operations | Makes it correct |
|---|---|---|---|
| main | the statement it has reached | configure, open, loop, flush, exit | a file appears only after the loop; success means a complete file or help; it ends |
| configuration | the options stored so far, excluded groups | constructor | the command line prevails over the configuration file; one meaning for exclude and include in any order; wrong options end the program before anything is opened |
| generation loop (`ProbabilityGeneratorControl`) | position in the valid times | `work` | every time before the end is settled, whatever happens at other times |
| generator of one time (`ProbabilityGenerator`) | `toSave_` | `generate*_`, `saveAll_` | a time is published whole or not at all; the published values agree with each other; exactly what can be made is made |
| source (`FimexSource`) | none (the file) | `getValidTimes`, `getData` | each unfit input ends in the exception the generator expects |
| sink (`FimexSink`, `GeneratedDataReader`) | description of the new file, buffers by variable and time, registered variables, number of wanted steps | constructor, `add`, `getDataSlice`, `flush` | a sink that could be made knows its horizon; no field is lost or misplaced; exactly the fields after the horizon are left out; slices have their size; every variable is written from where it was taken |
| parameter translation | specifications, dimensions, extra and transferred variables | constructor, `get`, `dimensionValues` | every parameter has a place of its own; a file with an unfit element is refused |
| symbol selection | the symbols of all members and points | `getSymbols`, `selectSymbol`, `getProbabilityOf`, `getSymbolCertainty` | the most frequent symbol of the dominating class; its certainty counts the members like it |
| most probable value | none | `getProbableValue`, `getProbableValues` | the median over the members with a symbol like the selected one; fields are whole, and belong together point by point |
| containers | an iterator's two indices | `CrossContainer`, its iterators | the view of a point shows that point of every member |
| wind | none | selection, certainty of the force | a selected wind exists and is a median; its certainty counts every member near it |
| percentiles, chances, temperature probabilities | sorted copy, made once | getters | they separate the members as named and do not contradict each other |

Interactions: all calls are synchronous and made by one thread. The generator
calls the source and the sink; both answer with a result or an exception. The
source and sink share the `CDMReader` of the input file (the sink reads the time
axis from it) and each its own `ParameterTranslation` of the same XML file. The
generator objects share the ensembles: the percentile generators keep a copy
they sort, and one they do not for chances.

`getSymbolCertainty` and `getProbableValues` walk the same collections of fields
(a field for every member) point by point through `CrossContainer` views.

Hard behaviours: exceptions part way through a function that has stored fields
already (`HANDLE_EXCEPTIONS` swallows one type and rethrows the others); an early
return for symbols that skips the save; the end of the horizon computed twice, by
loop and sink, with offsets in between; buffers created by the first field that
needs them; integer arithmetic at the limits; undefined values in
uninitialized members. There is no concurrency, no messaging, no retry, and
nothing is persisted before the flush, so no crash recovery.

## The modules

| Module | Models | Code |
|---|---|---|
| `WeatherParameters` | the parameters | `WeatherData.h` |
| `ProbabilityGenerator` | the loop and one time of it | `ProbabilityGeneratorControl.cpp`, `ProbabilityGenerator.cpp`, `FimexSource.cpp` |
| `ForecastDelivery` | abstract: every due time is settled in order and gets its product at once | – |
| `GeneratorDelivery` | what the product of a time is, without control flow, and the refinement mapping | – |
| `ParameterTranslation` | operators: what is read from a parameter file, and which are refused | `ParameterTranslation.cpp` |
| `GeneratedDataReader` | the sink once it is made | `GeneratedDataReader.cpp`, `FimexSink.cpp`, `localtime.cpp` |
| `FimexSink` | the whole life of the sink: extends `GeneratedDataReader` by the constructor and the source it copies from | `GeneratedDataReader.cpp`, `FimexSink.cpp` |
| `Configuration` | operators: command line and configuration file merged, and what results | `ProbabilityGenerationConfiguration.cpp`, `FileType.h` |
| `Eps2ProbAndLtf` | the program: composes `GeneratorDelivery` and `GeneratedDataReader` with main and `Configuration` | `main.cpp` |
| `SymbolSelection` | one grid point: symbol, certainty, most probable value | `SymbolGenerator.h`, `symbol.cpp`, `weatherSymbolProbability.*`, `algorithm.t.h` |
| `CrossContainer` | operators: one point of a collection seen as a container | `CrossContainer.*`, `dataTypes.h` |
| `FieldSelection` | whole fields: composes `SymbolSelection` with the loops over points and parameters | `symbol.cpp`, `SymbolGenerator.h`, `algorithm.t.h`, `SimpleProbabilityGenerator.cpp` |
| `WindSelection` | one grid point: wind and its certainty | `Wind.*`, `windInternal.cpp`, `generateWind.cpp`, `algorithm.t.h` |
| `Percentiles` | percentiles, chances of exceeding and of being near | `BasicPercentileGenerator.*`, `ccAlgorithm.h`, `temperature/*` |
| `OrderStatistics` | lemmas: members of a finite set by the rank of their values | – |
| `ProbabilityGeneratorProofs`, `GeneratedDataReaderProofs`, `FimexSinkProofs`, `PercentilesProofs`, `WindSelectionProofs` | theorems about the module of that name | – |
| `SymbolSelectionProofs` | theorems about `SymbolSelection` and `FieldSelection` | – |
| `Eps2ProbAndLtfProofs` | theorems about the program; uses instances of the loop's and the sink's proofs | – |
| `MC*` | instances for TLC | – |

Operators whose name ends a "Bug variant of X" comment are the mistakes the
properties are tried against; no specification uses them.

### ProbabilityGenerator

`pc` is the call `work()` is about to make; each `generate*_` is one action. Its
body is a sequence of statements (`Do`), each with a status (an exception, or
"ok") and the outputs it puts in `toSave`; the action executes the statements up
to the first that fails. `Handled` is `HANDLE_EXCEPTIONS`: after
`DataNotAvailable` the function ends and the outputs stored so far stay; after
any other exception `work` is left (`Leave("aborted")`) and the control loop
catches. `Write` is one iteration of `saveAll_`. `sink` is what has been
accepted; `outcome` is a history of how each time ended.

Abstractions: a file entry is what the reader tells apart (absent, without
ensemble dimension, number of members); only the three temperatures have values;
parameters that are always stored together are one. The precipitation and the
cloud cover are read through `at`: with fewer members of one of them the functions end
in an exception (`PrecipitationOfEveryMember`), which the control loop catches.
Files in which the second wind component has fewer members than the first are
excluded in `Init`: there the code reads outside an array.

### ParameterTranslation

A document is a record of its elements by kind. Its constructor keeps nothing when it
throws, so reading is not stepwise: `Fit` says which documents are refused (each
conjunct is one of the functions the constructor calls), and the other
operators what is taken from the others: values of one dimension declared
in several elements are put together, a missing time offset is none, an empty attribute
counts as missing, and elements of parameters the program does not know are never looked at.

### GeneratedDataReader

`data_` maps a variable and a time index to a buffer; a field is the write it
came from. The ways `add` can end are actions of their own: `AddFails` and
`AddFindsNoDimension` (nothing is done), `AddIgnores` (after the horizon),
`AddFindsNoPlace` (after creating the buffer), `AddFindsNameTaken` (after copying
the field) and `AddStores`. Each of them knows the list of its variable from then on
(`listed`), even where nothing is put in it: `getDataSlice` looks for that.
`Int32` wraps like the `int` in which the constructor computes the horizon.
`get_seconds_since_epoch` leaves out the minutes, as the code does.
`Expected` is the order in which the loop calls `add`: an assumption here,
which `Eps2ProbAndLtf` checks. The module begins with a sink as its constructor
leaves it; `FimexSink` checks that.

### FimexSink

`phase` is the part of the constructor that comes next: `ReadTranslation`, one
`TransferVariable` per variable of the source, `AddExtras`, `FindAxes`; each may end in
"failed". `wantedNumberOfTimeSteps_` begins as any of `Garbage`, and is set where
the unlimited dimension is met first. `AnsweredFrom` is the first half of
`getDataSlice`, which decides by the name alone where a slice comes from.
Fimex is external: its `CDM` takes no name twice, and its writer asks for the
slices of every variable without data of its own (`Writable`). Without an unlimited time there is
nothing to slice by, and what the writer then does is left open (`FlushFails`).

### Configuration and Eps2ProbAndLtf

A command line and a configuration file are texts: the values they give to each
option. `Stored` is the map after both were stored (an option keeps the values of the
first text that gives it, values the second gives are not even parsed); the
other operators are what the constructor reads from the map.

`phase` is the statement of main. A write of the loop is one step with `add` of
the sink. The sets of refused writes that the loop allows nondeterministically are here
defined by the sink (`Refused`). Opening the source, the sink, and flushing may fail at any
time: which sinks can be made is the subject of `FimexSink`. Both parts are instances:
the loop counts hours and the sink units of `HourLength` to the hour.

### FieldSelection and CrossContainer

`FieldSelection` runs the actions of `SymbolSelection` once per point to select
symbols, and then once per parameter and point to select values. In between, `GetSymbols`
and `BeginPoint` load the point's values through `CrossContainer`'s
operators, with indices from zero as in the code, and `StoreSymbol` and `StoreValue` append the result. A
parameter with other members, or with fewer points, ends in an exception that is not
`DataNotAvailable` (`ParameterFails`): `HANDLE_EXCEPTIONS` rethrows it, `work` is left before `saveAll_`, and
the whole time step is lost. Otherwise `SaveAll` ends it. Weather codes come from the library, so the code a
member gets at a point is an input.

### SymbolSelection, WindSelection, Percentiles

One grid point (two for the percentiles, to see that points stay apart), the loops of the code
as actions. Values are whole numbers; certainties are counts of members;
what is compared with a mean is counted in halves. Wind components are replaced
by force and direction, with `NaN` for what the division by a zero force makes. Only the
force is rated: `getDirectionProbability` and the difference of directions it needs are called by
tests alone.

## What is checked

Passing runs; every invariant and property also fails for a mutant of the code
listed in `PROJECT.json`.

| Run | Question | Bounds |
|---|---|---|
| `loop` | With anything two things wrong at once: is a time all or nothing, are temperatures consistent, is every due time settled, does the code deliver exactly `Product`? | three axes (a gap, none, every time due), 14 inputs with up to two that deviate in four ways, no or one group or all but waves excluded, one time without symbols, one refused write, two temperatures; 53,000 states |
| `sink` | Can the sink be made, does it then start as `GeneratedDataReader` assumes, no write lost, horizon exact, file complete, every variable from its source | four parameters, two of which share a variable by an extra dimension and one has an offset; the usual parameter file, ten that are refused and ten with one odd place or name; the usual source and seven others (time not unlimited or not a variable, no axes, a dimension of the same name as one declared, two projections, another variable on time); three values of the uninitialized member; four times with a gap; ends before, at, between and after times; any of the calls the loop may make. One of document and source at a time is not as usual, or a parameter has the name of the first of two projections; 125,821 states |
| `symbols` | Which symbol, when is there one, what does its certainty count, which values go with it, do fields belong together, is a time step whole or lost | one point: every multiset of one to five of the ten symbols, two orders of values; fractions of 0, a third, a half and 1. Two points: three members with every assignment of four symbols, up to three parameters in turn of the same, fewer and more members and points, and precipitation of other shapes; 739,276 states |
| `wind` | Median unless calm; the certainty counts all members near it | every ensemble of up to three members with forces of 0, 3, 10 and 13 m/s and three directions, every subset of them relevant; 58,692 states |
| `percentiles` | Percentiles, chances and near counts agree, in every order of calls | ensembles of 1, 2, 5, 9, 10, 11 and 51 members on two points, rising, falling and with equal values; every order of five percentiles, two limits and two deviations; 45,000 states |
| `program` | Does the file hold the forecast; does the command line prevail; do loop and sink use each other as each assumes; when is there a file; does the program end | twenty command lines (ends before, on and between times, lists in one or both places, values that do not fit in either), nine source files, two parameter files (one with a value, a dimension and a name that are not to be had), four times; 14,068 states |

The bounds suffice because the grid points and the times are handled
independently except through the mechanisms the instances contain: an offset to
another time, a shared variable, the horizon, `toSave_` and the exception of
another function. Two deviations at a time show every pair of them; the proofs
cover the rest for the safety invariants.

Fairness: `WF_vars(Next)` in `ProbabilityGenerator`, `ForecastDelivery` and
`Eps2ProbAndLtf`. The program is one thread and no call blocks, so it keeps
taking steps. Safety runs of the other modules state no fairness, and liveness
is not asked of them.

### Disagreements shown (runs that expect a violation)

| Run | What it shows |
|---|---|
| `shared_variable` | the default parameter file gives the cloud cover and its percentiles one variable: percentiles overwrite the cloud cover or end outside the buffer |
| `unlimited_hours` | without `timesteps`, 60 * 60 * INT_MAX overflows and the sink leaves out every field |
| `half_hours` | minutes are dropped when a time is looked up: the field of half past overwrites the one of the hour (for input with such times) |
| `wet_fraction` | "fraction of samples that must have precip" divides by one more than there are samples: exactly a half of an even number is dry |
| `symbol_group` | "the median of all input values with the same weather symbol group (rain or no rain)" leaves out members of the group whose symbol is not near: the partly cloudy one where two are sunny |
| `calm` | the mean of two middle winds of which the lower is calm is not a number |

Shown by a property that holds: `CertaintyOfItsClass` says that the members with drizzle, drizzle with
sun or rain with sun never count, not even where theirs is the selected symbol, although
`weatherSymbolProbability.h:59` promises "the probability of a given symbol" and the table of near symbols
has them. The certainty of drizzle that every member has is 0.

Not worth a run, but met on the way: the test data in
`BasicPercentileGenerator.t.h` says index 46 for 51 members where the code takes 45;
`doc/spec.html` gives a table of weights where the code counts members as near
or not, and derives one certainty of the wind from force and direction where
the code looks only at the force; `--include` "overrides a previous call" but is
applied after every exclude wherever it stands, one in the configuration file
after those of the command line; a parameter file without `cloud_cover`, which the
schema allows, makes the constructor of the sink throw, although a comment there
(`GeneratedDataReader.cpp:127`) leaves checking to the writes; `--log-file` is read and not used.

## What is proved

Each theorem is about every value of the constants that satisfies the assumptions
named in the modules. `Spec`, `SinkSpec` and `FieldSpec` are the specifications the runs check.

| Theorem | Statement |
|---|---|
| **Loop**, `ProbabilityGeneratorProofs` | |
| `TypeCorrect` | `Spec => []TypeOK` |
| `AllOrNothing` | `Spec => []NothingFromUnfinishedSteps` |
| `TemperaturesAreConsistent` | `Spec => []TemperatureBetweenMinAndMax` |
| `LoopImplementsDelivery` | the safety part of `DeliversEveryProduct`: the loop begins like `ForecastDelivery`, and each of its steps settles the next due time with exactly its product, or is a stutter |
| **Sink**, `GeneratedDataReaderProofs` | |
| `NoWriteIsLost` | if no two parameters have the same place and no time has minutes, no stored field is overwritten or outside its buffer |
| `FieldsUntilTheEnd` | if the hours fit and no time has minutes, exactly the fields after the horizon are left out |
| `FileIsTheForecast` | under the conditions of `NoWriteIsLost`, `FileHoldsExactlyTheWrites` |
| **Whole sink**, `FimexSinkProofs` | |
| `SinkStarts` | if the source's time is unlimited, a sink that could be made has counted its steps and has every declared variable, whatever was in memory |
| `SinkKeepsWrites`, `SinkRespectsTheHorizon`, `SinkFileIsTheForecast` | the three theorems about the sink for its whole life, for any document and source |
| `NamesKeepTheirOrigin` | `SinkSpec => []EveryVariableKeepsItsSource` |
| `SinkTypes` | `SinkSpec => []SinkTypeOK` |
| **Program**, `Eps2ProbAndLtfProofs` | |
| `FileComesLast` | `Spec => []FileOnlyAfterTheLoop` |
| `CommandLinePrevails` | `Spec => []CommandLineDecides` |
| `SinkIsUsedInOrder` | `Spec => SinkIsUsedAsExpected`: hiding the rest, the program is a specification of `GeneratedDataReader` |
| `FieldsHaveTimes` | if every output has the offset of something it is made from, `NoFieldMissesTheAxis` |
| `FileIsWhatWasPromised` | if no two outputs have the same place and the hours fit, `FileHoldsTheForecast` |
| **Symbols and fields**, `SymbolSelectionProofs` | |
| `SelectsTheMostFrequent`, `DefaultFractionSuffices`, `CertaintyStaysInClass`, `ValueIsOfTheSelectedWeather` | at one point: `MostFrequentOfItsClass`, `EveryEnsembleGetsASymbol`, `CertaintyOfItsClass`, `ValueOfTheSelectedWeather` |
| `PointsOfAField` | all four in every round of the loops over points and parameters |
| `FieldsAreWhole`, `FieldsMatch`, `FieldTypes` | `WholeFieldsOnly`, `FieldsBelongTogether`, `FieldTypeOK` |
| **Wind**, `WindSelectionProofs` | |
| `TheWindIsAMedian`, `CertaintiesFromAllMembers`, `WindTypes` | `MedianUnlessCalm`, `CertaintyFromAllMembers`, `TypeOK` |
| **Percentiles**, `PercentilesProofs` | |
| `OnlyTheLowestFails`, `PercentilesDoSeparate`, `PercentilesAndChancesAgree`, `CertaintyAgrees` | `OnlyTheLowestNeedsTen`, `PercentilesSeparate`, `PercentilesAgreeWithChances`, `NearAgreesWithTheRest` |

Arguments:

- **Loop.** `IInv` strengthens the first invariants
  by: times not reached yet are pending and have nothing in the sink
  (`PendingAhead`); the temperature is in `toSave` before the minimum and
  maximum are (`TemperatureFirst`), which the correction relies on; what is collected is
  consistent (`CollectedBetween`); and while saving, the sink holds of this time
  exactly what was collected with the collected value (`SinkHasCollected`). Without the last
  two a write could publish a minimum beside a temperature it was not corrected
  against. The lemmas `StoredBy...` say which outputs each function can store;
  the step lemmas split into going on, leaving and writing.
- **Refinement.** `Product` says what a time gets without saying in which
  order the functions run, so the induction has to know what each of them contributes.
  For each there is a lemma (`CloudsGive`, `WavesGive` and so on): it is
  handled exactly if no input it reads spoils it, and then stores
  exactly the planned outputs of its own. `CollectedSoFar` adds these up in the order of
  `Turn`; `SinkHasTheWritten` and `SettledGetTheirProduct` carry them over to the sink, for
  this time and the times before. `DeliveryInv` is the conjunction, and `StepSettles` the step.
- **Sink.** Two stored writes have different places:
  of one variable by the order of the values on the extra dimension
  (`PositionsOfValues`, counting smaller values is injective), of other times
  because adding an offset and looking up the time is injective (`TimesDiffer`).
  `KeptInv` adds that a buffer has the size of the dimension of a parameter of its
  variable (`BuffersAreSized`), which all of them share, so that the index is
  inside, and that what was stored had a time in the axis and a value on its
  dimension (`StoredHavePlaces`), without which places would mean nothing. The horizon: the axis is ordered, so
  the number of times up to the end is the first index beyond it (`CountDecides`).
  `ContentInv` is the converse of `KeptInv`: nothing but a write
  is in a buffer whose variable will be in the file, and a variable is registered once one of its
  fields is stored. A name that is taken leaves its field in a
  buffer of a variable the file does not have, which is why `ContentInv`
  is only about names that can be written.
- **Constructor.** `StartInv` follows the loop over the source's
  variables: whoever brings the time's dimension along has counted, and once
  the time variable has been passed it has brought it along, because a variable
  with the name of a dimension is always transferred. While the constructor runs nothing is
  written (`BuildInv`), every later step is one of `GeneratedDataReader` or throws
  (`StepsOfTheReader`), so that its invariants carry over. `OriginInv` follows every name
  from where it is declared: a dimension of the document, a variable copied from the source, the
  projection, or a parameter. No name is declared twice, because the `CDM` would have thrown. The
  decision to copy a variable is made before the last projection is known, and `getDataSlice` makes it again
  afterwards: `CopiedSoFar` says that it is the same but for a projection before the last
  (`ForgottenProjection`). Such a projection is answered by an exception, which ends the flush, or, if a
  parameter of its name was refused, with fields; `EveryVariableKeepsItsSource` names these cases and
  the names asked for in vain (`AskedInVain`), and says that there are no others.
- **Program.** The proofs of the parts are instantiated (`LoopFacts`, `ReaderFacts`) rather than
  repeated; `SameNext`, `SamePlaces` and `SameReader` say that the instances are those of the program.
  `ProgramInv` is `DeliveryInv` with where main is, `UseInv` that the last call of `add` was for a
  field the loop has written before the one it is about to write (`CallsInOrder`): this makes each
  write a step the sink expects. `FileInv` relates the two parts: the loop's set of refused
  writes, chosen when the program starts, is what the sink refuses now (`RefusedByTheSink`), because a
  name that is free stays so for its own parameters; and of what the loop has written
  the sink has stored what is within its horizon (`StoredWhenWanted`). At the end of the
  loop, `DeliveryInv` says what the loop has written, hence what is stored
  (`StoredIsPromised`), and the lemma `FileInPlaces` about the sink where it is in the file.
- **Symbols and fields.** The loop invariant `SelectInv`: so far the
  best of the entries passed, in the order of codes. A symbol exists since the class
  chosen by the fraction has a member (`ClassHasMembers`). `Enumerated`: the values pushed so
  far are those of the relevant members passed, each once. `FieldInv` follows the
  collections through their views: what was written to the shared collection of symbols up to
  this point is the weather of the members (`SymbolsWritten`), and what a field has so far are
  medians over the right members (`ValuesKept`). `RoundInv` keeps, for the rounds in which values
  are selected, that the symbol and the certainty read back are those selected before,
  although nothing else of that selection is left.
- **Order statistics.** `OrderStatistics` has the facts about members and ranks that symbols,
  winds and percentiles share. There is no induction: that a member of every rank exists
  (`RankExists`) follows from a least counterexample. `CountedAlike` lets a
  sequence be counted by the members its elements come from.
- **Wind.** `WindInv`: what was sorted are the relevant members by their force, each of them once. The
  median then halves them (`MedianHalvesTheRelevant`), and is not a number only if
  the lower middle wind is calm. Who is near it lies between two sets of members that do not depend on
  which limit is taken (`Within`), and a wind that is not a number is near nobody.
- **Percentiles.** Indices rise with the percentile and stay inside (`IndexRises`,
  `IndexInside`), where C++'s conversion to an integer is a floor; `SidesOfAPercentile` counts the members on
  either side of an index, from which the agreement with chances and with the
  members near a value follows by comparing sets. `ResultInv`: what getters returned is what
  they would return now, so that their order does not matter.

Assumptions. Of the constants: their types; an axis without equal times (loop), in
rising order (sink, program); a file the code can read (`Init`); ensembles with members,
fields of the weather with the same number of points for every member; variables of
the source that have names and dimensions (`SinkAssumption`). TLC evaluates them
in the passing runs. Where a theorem needs more it says so in its statement, and each of these
hypotheses is the negation of a disagreement above or of a mistake in a parameter file:

- `NoClash`: no two parameters have the same place (`shared_variable`);
- `NoMinutes`: the axis has whole hours (`half_hours`); in the program it always has;
- `HoursFit`: the hours are given and small enough for an `int` (`unlimited_hours`: the default is not);
- `OffsetsOfInputs`: an output has the offset of something the loop looks up before it makes it,
  as in the files that come with the program.

`MCEps2ProbAndLtf` has TLC evaluate that its instance satisfies those of `FileIsWhatWasPromised` and
`FieldsHaveTimes` (`HypothesesHold`), so that they are not void.

Only model-checked: `EveryDueTimeIsSettled`, `ProgramEnds` and that `ForecastDelivery`'s fairness is
implemented, since liveness and ENABLED are out of the prover's reach. Every
other property of a passing run is proved. Sorting is external: `Sorted`,
`SortedAt` and the order of the winds say by ranks what the library does, and the proofs rest on that.

## What is not modelled

- The syntax of XML and of the command line: documents and texts are given by
  their elements and values. Names of files, and a negative number of hours, which
  the option would accept.
- Attributes of variables, beyond whether they are whole. (An attribute with an empty value is
  one that is missing here; `getAttribute_` follows a null pointer for it, which is undefined.)
- What the writer of Fimex does with a description without an unlimited dimension.
- Scaling of values, logging, help texts, conversion of times from and to strings.
- The weather symbol library and Fimex: external, by how the code uses them.
- Differences of accumulated precipitation and their clipping at zero: one
  assignment per value, with no decision that depends on it.
- A second wind component with fewer members than the first (excluded by `Init`).
- Code no part of the program uses: `generateSymbols` in
  `SymbolGenerator.cpp`, `getDirectionProbability` in `windInternal.cpp`, `for_each`, `transform` and
  `agregate` in `ccAlgorithm.h`.

## Plan

Done: the loop, its abstract specification, the sink with its constructor and the
parameter file, the configuration, the program, and the numeric modules from
points to fields; theorems for every safety property of the passing runs and the
safety part of the refinement.

Next, where proofs could still say more:

1. That a program with the default of hours writes an empty file: the run `unlimited_hours`
   for every axis, from the wrapped horizon.
2. That the bound of each disagreement is tight: `NoClash` is necessary as well as sufficient for
   `EveryWriteKept` once two parameters of the same place have been stored.
3. That exclude and include do not depend on the order in which the command line gives them.
4. That `CrossContainer`'s views of different points do not overlap, as a statement of its own.
