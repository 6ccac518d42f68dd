------------------------------ MODULE FimexSink ------------------------------
(***************************************************************************)
(* The life of the sink: its constructor, which reads the parameter file,   *)
(* copies variables of the source into the description of the new file      *)
(* (cdm_), adds those the parameter file declares, and looks for the        *)
(* spatial axes; then the calls of add and flush of GeneratedDataReader.    *)
(*                                                                          *)
(* GeneratedDataReader begins after the constructor and takes for granted   *)
(* what it left.  Here that is checked, for documents and sources in which  *)
(* names clash, elements are missing or unfit, and time has any dimension.  *)
(*                                                                          *)
(* External: a source file, and what Fimex's CDM refuses, which is a second *)
(* variable or dimension of one name.  An unlimited dimension is that of    *)
(* time.  Attributes are not shown, see ParameterTranslation.               *)
(***************************************************************************)
EXTENDS GeneratedDataReader

CONSTANTS
    Documents,        \* the parameter files, see ParameterTranslation
    Sources,          \* what the source file may look like, see SourceFile
    Garbage           \* what a word of memory may hold before it is written

\* The variables in the order of the source: their names, the dimensions they
\* have, and whether the name begins with projection_; the dimensions of the
\* file; whether time is the unlimited one; the names of the variables whose
\* horizontal axes are found.
SourceVariable == [name : STRING, shape : SUBSET STRING, projection : BOOLEAN]
SourceFile ==
    [variables : Seq(SourceVariable), dimensions : SUBSET STRING,
     unlimited : BOOLEAN, withAxes : SUBSET STRING]

\* projectionVariable_ before a projection is met; no variable has this name.
NoName == ""

ASSUME SinkAssumption ==
    /\ Garbage \subseteq Int
    /\ \A doc \in Documents : Fit(doc, Parameter) =>
          /\ translations_(doc, Parameter) \in Translations
          /\ dimensionValues(doc) \in DimensionLists
    /\ Sources \subseteq SourceFile
    /\ \A src \in Sources :
          /\ \A i \in DOMAIN src.variables :
                /\ src.variables[i].name # NoName
                /\ src.variables[i].shape \subseteq src.dimensions
          /\ \A i, j \in DOMAIN src.variables :
                src.variables[i].name = src.variables[j].name => i = j

VARIABLES
    document,           \* the parameter file
    source,             \* the file sourceReader_ reads
    phase,              \* what the constructor is about to do
    position,           \* the source variable it looks at
    projectionVariable_,
    cdmDimensions       \* the dimensions the new file has

constructorVars == <<document, source, phase, position, projectionVariable_, cdmDimensions>>
sinkVars == <<constructorVars, vars>>

-----------------------------------------------------------------------------
Time == "time"

\* Bug variant of isDimension: dimensions must be listed to be transferred.
NotADimension(name) == FALSE

isDimension(name) == name \in source.dimensions

shouldTransferFromSourceToSink_(name, projection) ==
    \/ name \in directTransferVariables(document)
    \/ name = projection
    \/ isDimension(name)

SourceNames == {source.variables[i].name : i \in DOMAIN source.variables}

SinkInit ==
    /\ document \in Documents
    /\ source \in Sources
    /\ phase = "read"
    /\ position = 1
    /\ projectionVariable_ = NoName
    /\ cdmDimensions = {}
    /\ translation_ = [p \in {} |-> << >>]
    /\ extraDimensions_ = [d \in {} |-> {}]
    /\ numberOfHours \in Hours
    /\ wantedNumberOfTimeSteps_ \in Garbage
    /\ data_ = [b \in {} |-> << >>]
    /\ cdm_ = {}
    /\ listed = {}
    /\ parameters_ = [c \in {} |-> NoDimension]
    /\ last = <<0, 0>>
    /\ file = [c \in {} |-> << >>]
    /\ flushed = FALSE
    /\ stored = {}
    /\ dropped = {}
    /\ overrun = {}

\* What the constructor never touches.
StillEmpty ==
    UNCHANGED <<document, source, numberOfHours, data_, listed, parameters_, last, file,
                flushed, stored, dropped, overrun>>

\* translation_ is the first member whose constructor may throw.
ReadTranslation ==
    /\ phase = "read"
    /\ IF Fit(document, Parameter)
       THEN /\ translation_' = translations_(document, Parameter)
            /\ extraDimensions_' = dimensionValues(document)
            /\ phase' = "transfer"
       ELSE phase' = "failed" /\ UNCHANGED <<translation_, extraDimensions_>>
    /\ UNCHANGED <<position, projectionVariable_, cdmDimensions, cdm_, wantedNumberOfTimeSteps_>>
    /\ StillEmpty

\* One round of the loop over the source's variables.  The steps to write are
\* counted where the unlimited dimension is met for the first time.
TransferVariable ==
    /\ phase = "transfer" /\ position \in DOMAIN source.variables
    /\ LET v == source.variables[position]
           taken == shouldTransferFromSourceToSink_(v.name, projectionVariable_')
           counts == taken /\ source.unlimited /\ Time \in v.shape \ cdmDimensions
       IN  /\ projectionVariable_' = IF v.projection THEN v.name ELSE projectionVariable_
           /\ cdmDimensions' = IF taken THEN cdmDimensions \cup v.shape ELSE cdmDimensions
           /\ cdm_' = IF taken THEN cdm_ \cup {v.name} ELSE cdm_
           /\ wantedNumberOfTimeSteps_' = IF counts THEN CountedSteps
                                          ELSE wantedNumberOfTimeSteps_
           \* getData(dim.getName())
           /\ phase' = IF counts /\ Time \notin SourceNames THEN "failed" ELSE phase
    /\ position' = position + 1
    /\ UNCHANGED <<translation_, extraDimensions_>>
    /\ StillEmpty

\* The extra dimensions, a variable for each of them, and the extra variables.
AddExtras ==
    /\ phase = "transfer" /\ position \notin DOMAIN source.variables
    /\ cdmDimensions' = cdmDimensions \cup DOMAIN extraDimensions_
    /\ cdm_' = cdm_ \cup DOMAIN extraDimensions_ \cup extraVariables(document)
    /\ phase' = IF /\ DOMAIN extraDimensions_ \cap (cdmDimensions \cup cdm_) = {}
                   /\ extraVariables(document) \cap (cdm_ \cup DOMAIN extraDimensions_) = {}
                THEN "axes" ELSE "failed"
    /\ UNCHANGED <<position, projectionVariable_, translation_, extraDimensions_,
                   wantedNumberOfTimeSteps_>>
    /\ StillEmpty

\* The search ends with an exception at a parameter without a translation, and
\* without axes at the end.
AxesFound ==
    \E r \in DOMAIN WeatherData :
        /\ \A s \in 1 .. r : Translated(WeatherData[s])
        /\ cfName(WeatherData[r]) \in source.withAxes

FindAxes ==
    /\ phase = "axes"
    /\ phase' = IF AxesFound THEN "started" ELSE "failed"
    /\ UNCHANGED <<position, projectionVariable_, cdmDimensions, cdm_, translation_,
                   extraDimensions_, wantedNumberOfTimeSteps_>>
    /\ StillEmpty

\* Bug variant of AnsweredFrom: the fields are looked at before the source.
AnsweredFromFieldsFirst(name) ==
    IF name \in listed THEN "fields"
    ELSE IF shouldTransferFromSourceToSink_(name, projectionVariable_)
    THEN IF name \in SourceNames THEN "source" ELSE "exception"
    ELSE IF name \in DOMAIN extraDimensions_ THEN "dimension"
    ELSE "exception"

\* What getDataSlice answers for a variable with: a variable of the source, the
\* list of fields that has the name, if only fill values, the values of an extra
\* dimension, or an exception.
AnsweredFrom(name) ==
    IF shouldTransferFromSourceToSink_(name, projectionVariable_)
    THEN IF name \in SourceNames THEN "source" ELSE "exception"
    ELSE IF name \in listed THEN "fields"
    ELSE IF name \in DOMAIN extraDimensions_ THEN "dimension"
    ELSE "exception"

\* The source has times that can be cut off at the end the user asked for.
TimeIsUnlimited ==
    /\ source.unlimited
    /\ \E i \in DOMAIN source.variables :
          source.variables[i].name = Time /\ Time \in source.variables[i].shape

-----------------------------------------------------------------------------
Use(action) == phase = "started" /\ action /\ UNCHANGED constructorVars

\* Fields are for times of the source, but to find them in it, add has to ask for
\* a variable with the name time.
WriteField ==
    Use(\E p \in Parameter, i \in DOMAIN Axis :
            /\ Expected(p, i)
            /\ IF Time \in SourceNames THEN Add(p, i) ELSE Throws(p, i))

\* The writer asks for all variables but those that carry their data themselves.
Writable ==
    /\ TimeIsUnlimited
    /\ \A name \in cdm_ \ extraVariables(document) : AnsweredFrom(name) # "exception"

FlushAll == Writable /\ Use(Flush)

\* A slice that cannot be had is an exception out of flush; without an unlimited
\* time there are no slices, and Fimex does what it does.
FlushFails ==
    /\ phase = "started" /\ ~flushed
    /\ ~Writable
    /\ phase' = "failed"
    /\ UNCHANGED <<document, source, position, projectionVariable_, cdmDimensions, vars>>

Over == (phase = "failed" \/ flushed) /\ UNCHANGED sinkVars

SinkNext ==
    \/ ReadTranslation \/ TransferVariable \/ AddExtras \/ FindAxes
    \/ WriteField \/ FlushAll \/ FlushFails
    \/ Over

SinkSpec == SinkInit /\ [][SinkNext]_sinkVars

-----------------------------------------------------------------------------
(* Properties *)

\* Every variable has its type, those of GeneratedDataReader once it is made.
SinkTypeOK ==
    /\ document \in Documents /\ source \in Sources
    /\ phase \in {"read", "transfer", "axes", "started", "failed"}
    /\ position \in 1 .. Len(source.variables) + 1
    /\ projectionVariable_ \in SourceNames \cup {NoName}
    /\ phase = "started" => TypeOK

\* INVARIANT: a sink that could be made is as GeneratedDataReader takes it to
\* be: its time steps are counted, whatever was in memory and whichever
\* variables the parameter file asks for, if the source's time is unlimited;
\* it has the times of the fields as a variable; and every variable declared
\* in the parameter file is in the file.
SinkStartsAsAssumed ==
    phase = "started" /\ TimeIsUnlimited =>
        /\ wantedNumberOfTimeSteps_ = CountedSteps
        /\ {Time} \cup DOMAIN extraDimensions_ \cup extraVariables(document) \subseteq cdm_

\* INVARIANT: HorizonRespected, where the source lets the sink count.
HorizonRespectedIfCounted == TimeIsUnlimited => HorizonRespected

\* Where a variable was taken from when it was described.
Origin(name) ==
    IF name \in DOMAIN parameters_ THEN "fields"
    ELSE IF name \in DOMAIN extraDimensions_ THEN "dimension"
    ELSE "source"

\* The parameter file asks the source for the name, or the name is that of a
\* dimension of the source, and the source has no such variable.
AskedInVain(name) ==
    shouldTransferFromSourceToSink_(name, projectionVariable_) /\ name \notin SourceNames

\* A projection that was copied before another one was met.
ForgottenProjection(name) ==
    /\ name # projectionVariable_
    /\ \E i \in DOMAIN source.variables :
          source.variables[i].name = name /\ source.variables[i].projection

\* INVARIANT: getDataSlice decides anew for every slice, by name, where a variable
\* comes from, in another order than the variables were described in.  It finds
\* where each was taken from, whatever names the parameter file and the source
\* use twice, but for these: what it cannot get, which ends the flush, is a
\* name asked for in vain or a projection before the last one; and what it gets
\* from fields that were refused is only such a projection or an extra dimension.
\* An extra variable carries its data itself.
EveryVariableKeepsItsSource ==
    phase = "started" =>
        \A name \in cdm_ \ extraVariables(document) :
            \/ AnsweredFrom(name) = Origin(name)
            \/ /\ AnsweredFrom(name) = "exception"
               /\ AskedInVain(name) \/ ForgottenProjection(name)
            \/ /\ AnsweredFrom(name) = "fields"
               /\ name \in listed \ DOMAIN parameters_
               /\ name \in DOMAIN extraDimensions_ \/ ForgottenProjection(name)

=============================================================================
