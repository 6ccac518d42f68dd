------------------------- MODULE GeneratedDataReader -------------------------
(***************************************************************************)
(* The sink: FimexSink hands every field to GeneratedDataReader::add, which *)
(* keeps the fields of the whole forecast in memory, and at the end writes  *)
(* the file by asking the reader for the slices of its variables.           *)
(*                                                                          *)
(* Several parameters may share one variable of the file (cfName): each     *)
(* then has its own value of an extra dimension, as the percentiles have.   *)
(* All that keeps them apart is the arithmetic of add.                      *)
(*                                                                          *)
(* Abstractions.  Every field has the same number of grid points, so a      *)
(* buffer is a function from the positions along the extra dimension to     *)
(* whole fields; a field is the write it came from.  Times are whole        *)
(* numbers, HourLength of them to the hour and MinuteLength to the minute;  *)
(* working times are given by their position in the time axis.  The sink    *)
(* begins here as its constructor leaves it, see FimexSink; no parameter    *)
(* has a dimension of the source as its extra dimension.                    *)
(***************************************************************************)
EXTENDS ParameterTranslation

CONSTANTS
    WeatherData,      \* the parameters in the order of the enum
    Translations,     \* the translations a parameter file may give
    DimensionLists,   \* the extra dimensions it may give, with their values
    FileVariables,    \* the variables the file may have before any write
    Axis,             \* the "time" variable of the source, from its position 1
    Hours,            \* values the option for the number of hours may have
    HourLength,       \* units of time in an hour, 3600 in the code
    MinuteLength,     \* units of time in a minute, 60 in the code
    IntMax            \* the largest int

Parameter == {WeatherData[r] : r \in DOMAIN WeatherData}

\* The time offset in hours and the value on the extra dimension, which the
\* file need not have declared.
Specification(tr) == \A p \in DOMAIN tr : tr[p].offset \in Nat /\ tr[p].value \in Nat

ASSUME TranslationAssumption ==
    /\ WeatherData \in Seq(Parameter)
    /\ \A r, s \in DOMAIN WeatherData : WeatherData[r] = WeatherData[s] => r = s
    /\ \A tr \in Translations : DOMAIN tr \subseteq Parameter /\ Specification(tr)
    /\ \A dims \in DimensionLists :
          /\ NoDimension \notin DOMAIN dims
          /\ \A d \in DOMAIN dims : dims[d] \subseteq Nat /\ IsFiniteSet(dims[d])

ASSUME TimeAssumption ==
    /\ Axis \in Seq(Nat) /\ Axis # << >>
    /\ \A i, j \in DOMAIN Axis : i < j => Axis[i] < Axis[j]
    /\ Hours \subseteq 0..IntMax
    /\ HourLength \in Nat \ {0} /\ MinuteLength \in Nat \ {0}
    /\ IntMax \in Nat

VARIABLES
    translation_,               \* cf names and places of the parameters
    extraDimensions_,           \* the values of each extra dimension
    numberOfHours,              \* the option, INT_MAX unless given
    wantedNumberOfTimeSteps_,
    data_,                      \* <<cfName, time index>> -> buffer
    cdm_,                       \* the variables the file has
    listed,                     \* the names data_ has a list of buffers for
    parameters_,                \* registered cfName -> its extra dimension
    last,                       \* where saveAll_ is: <<working time, rank>>
    file,                       \* the flushed file: cfName -> slices
    flushed,
    stored,                     \* history: writes that were copied into a buffer
    dropped,                    \* history: writes that returned without storing
    overrun                     \* history: writes copied outside their buffer

vars == <<translation_, extraDimensions_, numberOfHours, wantedNumberOfTimeSteps_,
          data_, cdm_, listed, parameters_, last, file, flushed, stored, dropped, overrun>>

-----------------------------------------------------------------------------
(* The time axis *)

\* Two's complement: what an int holds after overflowing (in the builds made).
Int32(x) == ((x + IntMax + 1) % (2 * (IntMax + 1))) - (IntMax + 1)

\* Constructor: 60 * 60 * wantedNumberOfHours is computed in int.
lastTime == Axis[1] + Int32(HourLength * numberOfHours)

\* Bug variant of CountedSteps: the last time itself is left out.
CountedStepsBefore == Cardinality({i \in DOMAIN Axis : Axis[i] < lastTime})

CountedSteps == Cardinality({i \in DOMAIN Axis : Axis[i] <= lastTime})

\* The control loop goes on while the time is before this one.
lastGenerateTime == Axis[1] + HourLength * numberOfHours

ValidTime(p, i) == Axis[i] + HourLength * translation_[p].offset

\* The seconds of the whole hours and the seconds of the minute: the minutes
\* in between are left out.
get_seconds_since_epoch(t) ==
    t - ((t % HourLength) - ((t % HourLength) % MinuteLength))

wantedTime(p, i) == get_seconds_since_epoch(ValidTime(p, i))

\* getValidTimeIndex_, counting from zero.
getValidTimeIndex_(p, i) == (CHOOSE k \in DOMAIN Axis : Axis[k] = wantedTime(p, i)) - 1

-----------------------------------------------------------------------------
(* Places *)

hasExtraDimension(p) == translation_[p].dimension # NoDimension

\* The number of fields along an extra dimension, or without one.
Fields(d) == IF d = NoDimension THEN 1 ELSE Cardinality(extraDimensions_[d])

\* The file has the extra dimension of p, or p has none.
HasDimension(p) == hasExtraDimension(p) => translation_[p].dimension \in DOMAIN extraDimensions_

\* ... and the dimension has the value of p.
HasValue(p) ==
    /\ HasDimension(p)
    /\ hasExtraDimension(p) =>
          translation_[p].value \in extraDimensions_[translation_[p].dimension]

\* Bug variant of getOutputBufferIndex_: the values are counted from one.
OutputBufferIndexFromOne(p) ==
    IF hasExtraDimension(p)
    THEN Cardinality({v \in extraDimensions_[translation_[p].dimension] :
                         v <= translation_[p].value})
    ELSE 0

\* getOutputBufferIndex_: the position of the value in the ordered set.
getOutputBufferIndex_(p) ==
    IF hasExtraDimension(p)
    THEN Cardinality({v \in extraDimensions_[translation_[p].dimension] :
                         v < translation_[p].value})
    ELSE 0

cfName(p) == translation_[p].cfName
Buffer(p, i) == <<cfName(p), getValidTimeIndex_(p, i)>>

Blank == <<"blank">>         \* what createData puts in a buffer
Fill == <<"fill">>           \* -32767
Written(p, i) == <<p, i>>    \* the field of p that was made for time i

\* The buffer of p at time i, created if it is not there yet.
BufferFor(p, i) ==
    IF Buffer(p, i) \in DOMAIN data_ THEN data_[Buffer(p, i)]
    ELSE [n \in 0 .. Fields(translation_[p].dimension) - 1 |-> Blank]

SetBuffer(b, contents) ==
    [k \in DOMAIN data_ \cup {b} |-> IF k = b THEN contents ELSE data_[k]]

-----------------------------------------------------------------------------
Init ==
    /\ translation_ \in Translations
    /\ extraDimensions_ \in DimensionLists
    /\ numberOfHours \in Hours
    /\ wantedNumberOfTimeSteps_ = CountedSteps
    /\ data_ = [b \in {} |-> << >>]
    /\ cdm_ \in FileVariables
    /\ listed = {}
    /\ parameters_ = [c \in {} |-> NoDimension]
    /\ last = <<0, 0>>
    /\ file = [c \in {} |-> << >>]
    /\ flushed = FALSE
    /\ stored = {}
    /\ dropped = {}
    /\ overrun = {}

Rank(p) == CHOOSE r \in DOMAIN WeatherData : WeatherData[r] = p

\* The calls of add the generator makes: working times in order while they are
\* before lastGenerateTime, and the parameters of one time in enum order.
Expected(p, i) ==
    /\ ~flushed
    /\ last[1] < i \/ (last[1] = i /\ last[2] < Rank(p))
    /\ Axis[i] < lastGenerateTime

Translated(p) == p \in DOMAIN translation_

\* Once p is translated there is a list for its name, whatever happens next.
Called(p, i) ==
    /\ last' = <<i, Rank(p)>>
    /\ listed' = IF Translated(p) THEN listed \cup {cfName(p)} ELSE listed
    /\ UNCHANGED <<translation_, extraDimensions_, numberOfHours,
                   wantedNumberOfTimeSteps_, file, flushed>>

InAxis(p, i) == wantedTime(p, i) \in Range(Axis)

\* The list of the variable can have the wanted size, and p has an index in it.
Found(p, i) == Translated(p) /\ wantedNumberOfTimeSteps_ >= 0 /\ InAxis(p, i)

\* Bug variant of Wanted: the index may be the size.
WantedUpTo(p, i) == getValidTimeIndex_(p, i) <= wantedNumberOfTimeSteps_

Wanted(p, i) == getValidTimeIndex_(p, i) < wantedNumberOfTimeSteps_

\* addVariable takes no name twice, whoever used it first.
NameTaken(p) == cfName(p) \notin DOMAIN parameters_ /\ cfName(p) \in cdm_

\* An exception before a buffer was made.
Throws(p, i) ==
    /\ Called(p, i)
    /\ UNCHANGED <<data_, cdm_, parameters_, stored, dropped, overrun>>

\* The translation does not know p, the list cannot be resized, or the file has
\* no such time.
AddFails(p, i) == ~Found(p, i) /\ Throws(p, i)

\* The time is not wanted in the file: silently left out.
AddIgnores(p, i) ==
    /\ Called(p, i)
    /\ Found(p, i) /\ ~Wanted(p, i)
    /\ dropped' = dropped \cup {<<p, i>>}
    /\ UNCHANGED <<data_, cdm_, parameters_, stored, overrun>>

\* The extra dimension was never declared: there is no size for a buffer.
AddFindsNoDimension(p, i) ==
    Found(p, i) /\ Wanted(p, i) /\ ~HasDimension(p) /\ Throws(p, i)

\* The extra dimension lacks the value: an exception, after the buffer was made.
AddFindsNoPlace(p, i) ==
    /\ Called(p, i)
    /\ Found(p, i) /\ Wanted(p, i) /\ HasDimension(p) /\ ~HasValue(p)
    /\ data_' = SetBuffer(Buffer(p, i), BufferFor(p, i))
    /\ UNCHANGED <<cdm_, parameters_, stored, dropped, overrun>>

\* The field is copied to its place, inside the buffer or, if the buffer was
\* made for a variable without this dimension, outside it.
Copy(p, i) ==
    LET n == getOutputBufferIndex_(p)
        old == BufferFor(p, i)
    IN  /\ data_' = SetBuffer(Buffer(p, i),
                              IF n \in DOMAIN old THEN [old EXCEPT ![n] = Written(p, i)]
                              ELSE old)
        /\ overrun' = IF n \in DOMAIN old THEN overrun ELSE overrun \cup {<<p, i>>}

\* Another variable has the name: the field is copied, to a list nobody asks
\* for, before the exception.
AddFindsNameTaken(p, i) ==
    /\ Called(p, i)
    /\ Found(p, i) /\ Wanted(p, i) /\ HasValue(p) /\ NameTaken(p)
    /\ Copy(p, i)
    /\ UNCHANGED <<cdm_, parameters_, stored, dropped>>

\* The first write to a variable determines its shape.
Register(p) ==
    /\ parameters_' = [c \in DOMAIN parameters_ \cup {cfName(p)} |->
                          IF c \in DOMAIN parameters_ THEN parameters_[c]
                          ELSE translation_[p].dimension]
    /\ cdm_' = cdm_ \cup {cfName(p)}

AddStores(p, i) ==
    /\ Called(p, i)
    /\ Found(p, i) /\ Wanted(p, i) /\ HasValue(p) /\ ~NameTaken(p)
    /\ Copy(p, i)
    /\ Register(p)
    /\ stored' = stored \cup {<<p, i>>}
    /\ UNCHANGED dropped

Add(p, i) ==
    \/ AddFails(p, i) \/ AddIgnores(p, i)
    \/ AddFindsNoDimension(p, i) \/ AddFindsNoPlace(p, i) \/ AddFindsNameTaken(p, i)
    \/ AddStores(p, i)

\* Bug variant of getDataSlice: a missing slice without the extra dimension.
OneField(c, pos) ==
    IF <<c, pos>> \in DOMAIN data_ THEN data_[<<c, pos>>] ELSE [n \in {0} |-> Fill]

getDataSlice(c, pos) ==
    IF <<c, pos>> \in DOMAIN data_ THEN data_[<<c, pos>>]
    ELSE [n \in 0 .. Fields(parameters_[c]) - 1 |-> Fill]

\* FimexSink::flush: every registered variable, slice by slice.
Flush ==
    /\ ~flushed
    /\ flushed' = TRUE
    /\ file' = [c \in DOMAIN parameters_ |->
                  [pos \in 0 .. wantedNumberOfTimeSteps_ - 1 |-> getDataSlice(c, pos)]]
    /\ UNCHANGED <<translation_, extraDimensions_, numberOfHours,
                   wantedNumberOfTimeSteps_, data_, cdm_, listed, parameters_, last,
                   stored, dropped, overrun>>

Terminated == flushed /\ UNCHANGED vars

Next ==
    \/ \E p \in Parameter, i \in DOMAIN Axis : Expected(p, i) /\ Add(p, i)
    \/ Flush
    \/ Terminated

Spec == Init /\ [][Next]_vars

-----------------------------------------------------------------------------
(* Properties *)

Write == Parameter \X DOMAIN Axis
Contents == {Blank, Fill} \cup {Written(w[1], w[2]) : w \in Write}

\* The place of a stored write: its buffer and its position there.
PlaceOf(w) == <<Buffer(w[1], w[2]), getOutputBufferIndex_(w[1])>>

\* Every variable has its type; a buffer is in the list of its variable and has
\* a place for every position of the extra dimension of one of its parameters.
TypeOK ==
    /\ translation_ \in Translations
    /\ extraDimensions_ \in DimensionLists
    /\ numberOfHours \in Hours
    /\ wantedNumberOfTimeSteps_ \in Int
    /\ \A b \in DOMAIN data_ :
          \E p \in DOMAIN translation_ :
              /\ b[1] = cfName(p)
              /\ b[2] \in 0 .. wantedNumberOfTimeSteps_ - 1
              /\ data_[b] \in [0 .. Fields(translation_[p].dimension) - 1 -> Contents]
    /\ listed \subseteq {cfName(p) : p \in DOMAIN translation_}
    /\ {b[1] : b \in DOMAIN data_} \cup DOMAIN parameters_ \subseteq listed
    /\ DOMAIN parameters_ \subseteq cdm_
    /\ last \in (0 .. Len(Axis)) \X (0 .. Len(WeatherData))
    /\ flushed \in BOOLEAN
    /\ stored \cup dropped \cup overrun \subseteq Write

\* A translation in which no two parameters have the same place: those that
\* share a variable have different values on one extra dimension.
NoClash(tr) ==
    \A p, q \in DOMAIN tr :
        p # q /\ tr[p].cfName = tr[q].cfName =>
            /\ tr[p].dimension = tr[q].dimension
            /\ tr[p].dimension # NoDimension
            /\ tr[p].value # tr[q].value

\* No field is valid at a time with minutes.
NoMinutes ==
    \A p \in DOMAIN translation_, i \in DOMAIN Axis :
        ValidTime(p, i) % HourLength < MinuteLength

\* INVARIANT: no write ends outside its buffer, and none is overwritten by a
\* later one: as long as the forecast is in memory every stored field is
\* found where add put it.  It depends on the translation, see NoClash, and on
\* the times, see NoMinutes.
EveryWriteKept ==
    /\ overrun = {}
    /\ \A w \in stored :
          /\ PlaceOf(w)[1] \in DOMAIN data_
          /\ PlaceOf(w)[2] \in DOMAIN data_[PlaceOf(w)[1]]
          /\ data_[PlaceOf(w)[1]][PlaceOf(w)[2]] = Written(w[1], w[2])

\* INVARIANT: add leaves a field out exactly when the time it is valid for is
\* later than the end the user asked for; the number of time steps is counted
\* by the sink, the time steps are walked by the generator, and the offsets
\* of the parameters come in between.
HorizonRespected ==
    /\ \A w \in stored : ValidTime(w[1], w[2]) <= lastGenerateTime
    /\ \A w \in dropped : ValidTime(w[1], w[2]) > lastGenerateTime

\* INVARIANT: the file has, for every variable that was written and every
\* time that is wanted, a slice of the size the variable was registered with;
\* the slice holds the fields stored for it in their places and no others.
FileHoldsExactlyTheWrites ==
    flushed =>
        /\ DOMAIN file = {cfName(w[1]) : w \in stored}
        /\ \A c \in DOMAIN file :
              /\ DOMAIN file[c] = 0 .. wantedNumberOfTimeSteps_ - 1
              /\ \A pos \in DOMAIN file[c] :
                    /\ DOMAIN file[c][pos] = 0 .. Fields(parameters_[c]) - 1
                    /\ \A n \in DOMAIN file[c][pos] :
                          LET here == {w \in stored : PlaceOf(w) = <<<<c, pos>>, n>>}
                          IN  IF here = {} THEN file[c][pos][n] \in {Blank, Fill}
                              ELSE \A w \in here : file[c][pos][n] = Written(w[1], w[2])

=============================================================================
