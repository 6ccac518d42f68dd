--------------------------- MODULE Eps2ProbAndLtf ---------------------------
(***************************************************************************)
(* The program: main reads its options, opens the source, makes the sink,   *)
(* runs the generation loop, every write of which is a call of the sink's   *)
(* add, and flushes the sink if nothing went wrong.                         *)
(*                                                                          *)
(* The generation loop and the sink are the modules ProbabilityGenerator    *)
(* and GeneratedDataReader.  Each assumes something of the other: the loop, *)
(* that some writes are refused, and the sink, in which order it is called. *)
(* Here the parts meet, and what one assumes is what the other does.        *)
(*                                                                          *)
(* The loop counts in hours, the sink in units of its own, HourLength to    *)
(* the hour.  The source file has times: without one, the sink's            *)
(* constructor would read outside its array.  The parts are in their first  *)
(* states from the beginning; nobody looks at them before they are made.    *)
(***************************************************************************)
EXTENDS Configuration, FiniteSets

CONSTANTS
    CommandLines,     \* see CommandLine in Configuration
    SourceAxis,       \* the times of the source file, in hours
    SourceFiles,      \* what it may hold, see Files in ProbabilityGenerator
    SourceOffsets,    \* InOffset of ProbabilityGenerator
    Unselectable, Temps,
    Writes,           \* every write the loop may make
    SinkTranslations, \* see GeneratedDataReader, like the following
    ExtraDimensions,  \* DimensionLists of GeneratedDataReader
    TakenNames,       \* FileVariables of GeneratedDataReader
    NoDimension, HourLength, MinuteLength

VARIABLES
    commandLine,
    phase,      \* the statement main has reached
    status,     \* how the program ended
    output,     \* the file sink.file
    conf, validTimes, file, unselectable, rejected,
    pc, step, toSave, unsaved, sink, outcome,
    translation_, extraDimensions_, numberOfHours, wantedNumberOfTimeSteps_,
    data_, cdm_, listed, parameters_, last, outputFile, flushed, stored, dropped, overrun

programVars == <<commandLine, phase, status, output>>
loopVars == <<conf, validTimes, file, unselectable, rejected, pc, step, toSave,
              unsaved, sink, outcome>>
sinkVars == <<translation_, extraDimensions_, numberOfHours, wantedNumberOfTimeSteps_,
              data_, cdm_, listed, parameters_, last, outputFile, flushed, stored, dropped,
              overrun>>
vars == <<programVars, loopVars, sinkVars>>

-----------------------------------------------------------------------------
Loop == INSTANCE GeneratorDelivery WITH
    Axes <- {SourceAxis},
    Files <- SourceFiles,
    InOffset <- SourceOffsets,
    Rejectable <- Writes,
    Configurations <- {Control(cl) : cl \in CommandLines}

\* The axis in the units of the sink.
SinkAxis == [i \in DOMAIN SourceAxis |-> HourLength * SourceAxis[i]]

Reader == INSTANCE GeneratedDataReader WITH
    Translations <- SinkTranslations,
    DimensionLists <- ExtraDimensions,
    FileVariables <- TakenNames,
    Axis <- SinkAxis,
    Hours <- {Control(cl).numberOfHoursToGenerate : cl \in CommandLines},
    file <- outputFile

ASSUME ProgramAssumption ==
    /\ \A w \in CommandLines : CommandLine(w)
    /\ SourceAxis \in Seq(Nat) \ {<< >>}
    /\ \A i, j \in DOMAIN SourceAxis : i < j => SourceAxis[i] < SourceAxis[j]
    /\ Writes = Output \X Range(SourceAxis)
    /\ IntMax \in Nat
    /\ HourLength \in Nat \ {0} /\ MinuteLength \in Nat \ {0}

\* What the parts assume of the files: what a source may hold, and what a
\* parameter specification may say.
ASSUME FilesAssumption ==
    /\ SourceFiles \subseteq [Input -> Loop!Entry]
    /\ SourceOffsets \in [Input -> Nat]
    /\ Temps \subseteq Int /\ Temps # {}
    /\ \A tr \in SinkTranslations : DOMAIN tr \subseteq Output /\ Reader!Specification(tr)
    /\ \A dims \in ExtraDimensions :
          /\ NoDimension \notin DOMAIN dims
          /\ \A d \in DOMAIN dims : dims[d] \subseteq Nat /\ IsFiniteSet(dims[d])

\* The writes that add answers with an exception, given the variables the file
\* begins with: only those can take a name, the others are written under theirs.
Refused(p, i) ==
    \/ ~Reader!Found(p, i)
    \/ Reader!Wanted(p, i) /\ (~Reader!HasValue(p) \/ Reader!cfName(p) \in cdm_)

Init ==
    /\ commandLine \in CommandLines
    /\ phase = "options"
    /\ status = "running"
    /\ output = "none"
    /\ conf = Control(commandLine)
    /\ numberOfHours = conf.numberOfHoursToGenerate
    /\ Reader!Init
    /\ rejected = {w \in Writes :
                      \E i \in DOMAIN SourceAxis : SourceAxis[i] = w[2] /\ Refused(w[1], i)}
    /\ Loop!Init

-----------------------------------------------------------------------------
(* main *)

GoTo(next) == phase' = next /\ UNCHANGED <<commandLine, status, output>>

Exit(how) ==
    /\ phase' = "ended"
    /\ status' = how
    /\ UNCHANGED commandLine

ShowHelp ==
    /\ phase = "options"
    /\ Readable(commandLine) /\ commandLine.help
    /\ Exit("success")
    /\ UNCHANGED <<output, loopVars, sinkVars>>

WrongLogLevel ==
    /\ phase = "options"
    /\ Readable(commandLine) /\ ~commandLine.help
    /\ ~KnownLevel(commandLine)
    /\ Exit("failure")
    /\ UNCHANGED <<output, loopVars, sinkVars>>

Accepted ==
    /\ Readable(commandLine) /\ ~commandLine.help /\ KnownLevel(commandLine)
    /\ Known(Stored(commandLine).exclude) /\ Known(Stored(commandLine).include)

\* main does not catch what the constructor of the configuration throws.
WrongOption ==
    /\ phase = "options"
    /\ \/ ~Readable(commandLine)
       \/ /\ ~commandLine.help /\ KnownLevel(commandLine)
          /\ ~Known(Stored(commandLine).exclude) \/ ~Known(Stored(commandLine).include)
    /\ Exit("aborted")
    /\ UNCHANGED <<output, loopVars, sinkVars>>

Configured ==
    /\ phase = "options"
    /\ Accepted
    /\ GoTo("source")
    /\ UNCHANGED <<loopVars, sinkVars>>

OpenSource ==
    /\ phase = "source"
    /\ GoTo("sink")
    /\ UNCHANGED <<loopVars, sinkVars>>

MakeSink ==
    /\ phase = "sink"
    /\ GoTo("loop")
    /\ UNCHANGED <<loopVars, sinkVars>>

\* The parameter specification or the file cannot be read; its type, which is
\* not initialized unless given and then whatever was in memory, is not the
\* file's or none at all; the sink finds no spatial dimensions.
CannotStart ==
    /\ phase \in {"source", "sink"}
    /\ Exit("failure")
    /\ UNCHANGED <<output, loopVars, sinkVars>>

\* Bug variant of LoopEnded: flushes after every time.
LoopEndedOnce == pc \in {"next", "done"}

LoopEnded == pc = "done"

\* The loop, as long as it does not write.
Generate ==
    /\ phase = "loop"
    /\ pc \notin {"done", "failed"} /\ unsaved = {}
    /\ Loop!Next
    /\ UNCHANGED <<programVars, sinkVars>>

\* FimexSink::write, called by saveAll_.
WriteField ==
    /\ phase = "loop"
    /\ unsaved # {}
    /\ Loop!Write
    /\ \E p \in unsaved \ unsaved' : Reader!Add(p, step)
    /\ UNCHANGED programVars

\* Without a time axis work throws, and main does not get to flush.
LoopFails ==
    /\ phase = "loop"
    /\ pc = "failed"
    /\ Exit("failure")
    /\ UNCHANGED <<output, loopVars, sinkVars>>

FlushSink ==
    /\ phase = "loop"
    /\ LoopEnded
    /\ Reader!Flush
    /\ output' = "complete"
    /\ Exit("success")
    /\ UNCHANGED loopVars

FlushFails ==
    /\ phase = "loop"
    /\ LoopEnded
    /\ output' = "incomplete"
    /\ Exit("failure")
    /\ UNCHANGED <<loopVars, sinkVars>>

Ended == phase = "ended" /\ UNCHANGED vars

Next ==
    \/ ShowHelp \/ WrongLogLevel \/ WrongOption \/ Configured
    \/ OpenSource \/ MakeSink \/ CannotStart
    \/ Generate \/ LoopFails \/ WriteField
    \/ FlushSink \/ FlushFails
    \/ Ended

\* The program is one thread that is never blocked.
Spec == Init /\ [][Next]_vars /\ WF_vars(Next)

-----------------------------------------------------------------------------
(* Properties *)

\* What GeneratorDelivery promises for the due times, and is valid in time.
Promised ==
    {w \in Output \X DOMAIN SourceAxis :
        /\ Loop!Due(w[2])
        /\ w[1] \in Loop!Product(SourceAxis[w[2]])
        /\ Reader!ValidTime(w[1], w[2]) <= Reader!lastGenerateTime}

\* INVARIANT: when the program has succeeded, the file holds every promised
\* field in the slice of its valid time and at its value of the extra
\* dimension, holds no other field, and has no variable without one.
FileHoldsTheForecast ==
    output = "complete" =>
        /\ DOMAIN outputFile = {Reader!cfName(w[1]) : w \in Promised}
        /\ \A w \in Promised :
              LET place == Reader!PlaceOf(w)
              IN  outputFile[place[1][1]][place[1][2]][place[2]]
                      = Reader!Written(w[1], w[2])
        /\ \A c \in DOMAIN outputFile : \A pos \in DOMAIN outputFile[c] :
              Range(outputFile[c][pos]) \subseteq
                  {Reader!Blank, Reader!Fill} \cup {Reader!Written(w[1], w[2]) : w \in Promised}

\* The offsets at which work looks up a time of the axis before it makes o: of
\* the inputs o is made from and, except for the waves, of those of the symbols.
OffsetsRead(o) ==
    LET own == {SourceOffsets[p] : p \in Loop!Recipe(o)[3]}
        ofSymbols == {SourceOffsets["CloudCover"], SourceOffsets["PrecipitationInFrom"],
                      SourceOffsets["PrecipitationInTo"],
                      Loop!SymbolRange + SourceOffsets["CloudCover"]}
    IN  IF Loop!Recipe(o)[1] = "waves" THEN own ELSE own \cup ofSymbols

\* Every output has the offset of something it is made from, as in the
\* parameter files that come with the program.
OffsetsOfInputs ==
    \A tr \in SinkTranslations : \A o \in DOMAIN tr : tr[o].offset \in OffsetsRead(o)

\* INVARIANT: no field is made for a time the file does not have.  The offset
\* of an output is that of an input it is made from or, for the symbols, the
\* range they look ahead, and those were found in the axis.
NoFieldMissesTheAxis ==
    \A p \in unsaved : Reader!Translated(p) => Reader!InAxis(p, step)

\* INVARIANT: a file, complete or not, is only there once every due time has
\* been settled, and the program succeeds without one only if it was asked for
\* help.
FileOnlyAfterTheLoop ==
    /\ output # "none" =>
          \A i \in DOMAIN SourceAxis : Loop!Due(i) => outcome[i] # "pending"
    /\ status = "success" => output = "complete" \/ commandLine.help

\* INVARIANT: what the command line says about a group goes, whatever the
\* configuration file says: nothing of a group it excludes is written, unless
\* an include of either brings it back, and with a list of its own nothing is
\* left out for the list in the file: lists of the two are not put together.
CommandLineDecides ==
    LET own == commandLine.options
        included == Named(own.include) \cup
                        IF commandLine.file.kind = "text"
                        THEN Named(commandLine.file.options.include) ELSE {}
    IN  /\ \A w \in DOMAIN sink :
              Loop!Recipe(w[1])[1] \notin Named(own.exclude) \ included
        /\ own.exclude # << >> => conf.excluded \subseteq Named(own.exclude)

\* PROPERTY: the sink is called as GeneratedDataReader expects it to be: in the
\* order of times and parameters, for times that are due, and not after flush.
SinkIsUsedAsExpected == Reader!Spec

\* PROPERTY: the program ends.
ProgramEnds == <>(status # "running")

=============================================================================
