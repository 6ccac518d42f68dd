--------------------------- MODULE FimexSinkProofs ---------------------------
(* Proofs about the whole life of the sink: its constructor leaves what the *)
(* theorems about GeneratedDataReader begin with, for every parameter file, *)
(* source and content of the memory.                                        *)
EXTENDS FimexSink, GeneratedDataReaderProofs

-----------------------------------------------------------------------------
(* Where the constructor leads *)

\* What the constructor knows of an unlimited time, part by part.  A variable
\* of the source that has been passed and is the time has brought its
\* dimension along, and whoever brings it along counts the steps.
StartInv ==
    /\ document \in Documents /\ source \in Sources
    /\ phase \in {"read", "transfer", "axes", "started", "failed"}
    /\ position \in Nat \ {0}
    /\ phase = "read" => position = 1 /\ cdmDimensions = {}
    /\ TimeIsUnlimited =>
          /\ phase = "transfer" =>
                /\ Time \in cdmDimensions => wantedNumberOfTimeSteps_ = CountedSteps
                /\ \A i \in DOMAIN source.variables :
                      /\ i < position
                      /\ source.variables[i].name = Time
                      /\ Time \in source.variables[i].shape
                      => Time \in cdmDimensions /\ Time \in cdm_
          /\ phase \in {"axes", "started"} =>
                /\ wantedNumberOfTimeSteps_ = CountedSteps
                /\ {Time} \cup DOMAIN extraDimensions_ \cup extraVariables(document) \subseteq cdm_

\* The number of steps to count, and whether there is an unlimited time, do
\* not change while the sink lives.
LEMMA SourceStays ==
    ASSUME source' = source, numberOfHours' = numberOfHours
    PROVE  TimeIsUnlimited' = TimeIsUnlimited /\ CountedSteps' = CountedSteps
<1>1. lastTime' = lastTime
  BY DEF lastTime, Int32
<1> QED
  BY <1>1 DEF TimeIsUnlimited, CountedSteps

LEMMA SourcesAreFiles ==
    ASSUME NEW src \in Sources
    PROVE  /\ src.variables \in Seq(SourceVariable)
           /\ DOMAIN src.variables = 1 .. Len(src.variables) /\ Len(src.variables) \in Nat
           /\ \A i \in DOMAIN src.variables : src.variables[i].shape \subseteq src.dimensions
<1>1. src \in SourceFile
  BY SinkAssumption
<1>2. src.variables \in Seq(SourceVariable)
  BY <1>1 DEF SourceFile
<1> QED
  BY <1>2, SinkAssumption

LEMMA StartInvTransferVariable ==
    ASSUME StartInv, TransferVariable
    PROVE  StartInv'
<1> DEFINE v == source.variables[position]
           taken == shouldTransferFromSourceToSink_(v.name, projectionVariable_')
           counts == taken /\ source.unlimited /\ Time \in v.shape \ cdmDimensions
<1>1. /\ phase = "transfer" /\ position \in DOMAIN source.variables
      /\ cdmDimensions' = IF taken THEN cdmDimensions \cup v.shape ELSE cdmDimensions
      /\ cdm_' = IF taken THEN cdm_ \cup {v.name} ELSE cdm_
      /\ wantedNumberOfTimeSteps_' = IF counts THEN CountedSteps ELSE wantedNumberOfTimeSteps_
      /\ phase' = IF counts /\ Time \notin SourceNames THEN "failed" ELSE phase
      /\ position' = position + 1
      /\ UNCHANGED <<document, source, numberOfHours, extraDimensions_>>
  BY DEF TransferVariable, StillEmpty
<1>2. TimeIsUnlimited' = TimeIsUnlimited /\ CountedSteps' = CountedSteps
  BY <1>1, SourceStays
<1>3. v.name = Time /\ Time \in v.shape => taken
  BY <1>1, SourcesAreFiles DEF StartInv, shouldTransferFromSourceToSink_, isDimension
<1> HIDE DEF taken
<1>4. ASSUME TimeIsUnlimited, phase' = "transfer"
      PROVE  /\ Time \in cdmDimensions' => wantedNumberOfTimeSteps_' = CountedSteps
             /\ \A i \in DOMAIN source.variables :
                   /\ i < position'
                   /\ source.variables[i].name = Time
                   /\ Time \in source.variables[i].shape
                   => Time \in cdmDimensions' /\ Time \in cdm_'
  <2>1. Time \in cdmDimensions => wantedNumberOfTimeSteps_ = CountedSteps
    BY <1>1, <1>4 DEF StartInv
  <2>2. Time \in cdmDimensions' => wantedNumberOfTimeSteps_' = CountedSteps
    BY <1>1, <1>4, <2>1 DEF TimeIsUnlimited
  <2>3. ASSUME NEW i \in DOMAIN source.variables, i < position',
               source.variables[i].name = Time, Time \in source.variables[i].shape
        PROVE  Time \in cdmDimensions' /\ Time \in cdm_'
    <3>1. CASE i < position
      BY <1>1, <1>4, <2>3, <3>1 DEF StartInv
    <3>2. CASE ~(i < position)
      <4>1. i \in Nat /\ position \in Nat
        BY SourcesAreFiles DEF StartInv
      <4>2. i = position
        BY <1>1, <2>3, <3>2, <4>1
      <4> QED
        BY <1>1, <1>3, <2>3, <4>2
    <3> QED
      BY <3>1, <3>2
  <2> QED
    BY <2>2, <2>3
<1>5. phase' \in {"transfer", "failed"} /\ position' \in Nat \ {0}
  BY <1>1 DEF StartInv
<1> QED
  BY <1>1, <1>2, <1>4, <1>5 DEF StartInv

\* The last part of the copying: the time has been met by then.
LEMMA StartInvAddExtras ==
    ASSUME StartInv, AddExtras
    PROVE  StartInv'
<1>1. /\ phase = "transfer" /\ position \notin DOMAIN source.variables
      /\ cdm_' = cdm_ \cup DOMAIN extraDimensions_ \cup extraVariables(document)
      /\ phase' \in {"axes", "failed"}
      /\ UNCHANGED <<document, source, position, numberOfHours, extraDimensions_,
                     wantedNumberOfTimeSteps_>>
  BY DEF AddExtras, StillEmpty
<1>2. TimeIsUnlimited' = TimeIsUnlimited /\ CountedSteps' = CountedSteps
  BY <1>1, SourceStays
<1>3. ASSUME TimeIsUnlimited
      PROVE  wantedNumberOfTimeSteps_ = CountedSteps /\ Time \in cdm_
  <2>1. PICK i \in DOMAIN source.variables :
            source.variables[i].name = Time /\ Time \in source.variables[i].shape
    BY <1>3 DEF TimeIsUnlimited
  <2>2. i < position
    <3>1. /\ DOMAIN source.variables = 1 .. Len(source.variables)
          /\ Len(source.variables) \in Nat /\ position \in Nat \ {0}
      BY SourcesAreFiles DEF StartInv
    <3> QED
      BY <1>1, <3>1
  <2> QED
    BY <1>1, <1>3, <2>1, <2>2 DEF StartInv
<1>4. extraVariables(document)' = extraVariables(document)
  BY <1>1 DEF extraVariables
<1> QED
  BY <1>1, <1>2, <1>3, <1>4 DEF StartInv

\* Calls of add and flush leave the number of steps alone, and no variable is
\* ever taken away.
LEMMA CallsKeepTheStart ==
    ASSUME WriteField \/ FlushAll \/ FlushFails \/ Over
    PROVE  /\ UNCHANGED <<document, source, position, cdmDimensions, translation_,
                          extraDimensions_, numberOfHours, wantedNumberOfTimeSteps_>>
           /\ cdm_ \subseteq cdm_'
           /\ phase' = phase \/ phase' = "failed"
           /\ phase \in {"started", "failed"} \/ flushed
<1>1. CASE WriteField
  <2>1. PICK p \in Parameter, i \in DOMAIN Axis : Add(p, i) \/ Throws(p, i)
    BY <1>1 DEF WriteField, Use
  <2>2. cdm_ \subseteq cdm_' /\ Called(p, i)
    BY <2>1 DEF Add, AddFails, AddIgnores, AddFindsNoDimension, AddFindsNoPlace,
                AddFindsNameTaken, AddStores, Throws, Register
  <2> QED
    BY <1>1, <2>2 DEF WriteField, Use, Called, constructorVars
<1>2. CASE FlushAll
  BY <1>2 DEF FlushAll, Use, Flush, constructorVars
<1>3. CASE FlushFails
  BY <1>3 DEF FlushFails, vars
<1>4. CASE Over
  BY <1>4 DEF Over, sinkVars, constructorVars, vars
<1> QED
  BY <1>1, <1>2, <1>3, <1>4

LEMMA StartInvNext ==
    ASSUME StartInv, [SinkNext]_sinkVars
    PROVE  StartInv'
<1>1. ASSUME /\ UNCHANGED <<document, source, position, cdmDimensions, extraDimensions_,
                            numberOfHours, wantedNumberOfTimeSteps_>>
             /\ cdm_ \subseteq cdm_'
             /\ \/ phase' = phase
                \/ phase' = "failed"
                \/ phase = "axes" /\ phase' = "started"
             /\ phase' \in {"read", "transfer", "axes", "started", "failed"}
      PROVE  StartInv'
  <2>1. TimeIsUnlimited' = TimeIsUnlimited /\ CountedSteps' = CountedSteps
    BY <1>1, SourceStays
  <2>2. extraVariables(document)' = extraVariables(document)
    BY <1>1 DEF extraVariables
  <2> QED
    BY <1>1, <2>1, <2>2 DEF StartInv
<1>2. CASE ReadTranslation
  <2>1. /\ phase = "read" /\ phase' \in {"transfer", "failed"}
        /\ UNCHANGED <<document, source, position, cdmDimensions, numberOfHours>>
    BY <1>2 DEF ReadTranslation, StillEmpty
  <2>2. DOMAIN source.variables \subseteq Nat \ {0}
    BY SourcesAreFiles DEF StartInv
  <2> QED
    BY <2>1, <2>2, SourceStays DEF StartInv
<1>3. CASE TransferVariable
  BY <1>3, StartInvTransferVariable
<1>4. CASE AddExtras
  BY <1>4, StartInvAddExtras
<1>5. CASE FindAxes
  BY <1>1, <1>5 DEF FindAxes, StillEmpty
<1>6. CASE WriteField \/ FlushAll \/ FlushFails \/ Over
  BY <1>1, <1>6, CallsKeepTheStart DEF StartInv
<1>7. CASE UNCHANGED sinkVars
  BY <1>1, <1>7 DEF StartInv, sinkVars, constructorVars, vars
<1> QED
  BY <1>2, <1>3, <1>4, <1>5, <1>6, <1>7 DEF SinkNext

\* A sink that could be made knows its horizon and has the times and every
\* declared variable in its file, whatever was in memory and whichever
\* variables the parameter file asks for, if the time of the source is unlimited.
THEOREM SinkStarts == SinkSpec => []SinkStartsAsAssumed
<1>1. SinkInit => StartInv
  BY DEF SinkInit, StartInv
<1>2. StartInv /\ [SinkNext]_sinkVars => StartInv'
  BY StartInvNext
<1>3. StartInv => SinkStartsAsAssumed
  BY DEF StartInv, SinkStartsAsAssumed
<1> QED
  BY <1>1, <1>2, <1>3, PTL DEF SinkSpec

-----------------------------------------------------------------------------
(* Writes *)

\* Nothing has been written, as before and when the constructor fails, and as
\* it leaves a sink; GeneratedDataReader's invariants take what was read from
\* the parameter file for granted from there on.
NothingYet == /\ stored = {} /\ dropped = {} /\ overrun = {}
              /\ data_ = [b \in {} |-> << >>]

FromTheFile == translation_ \in Translations /\ extraDimensions_ \in DimensionLists

BuildInv ==
    /\ document \in Documents
    /\ phase \in {"read", "transfer", "axes"} => NothingYet
    /\ phase \in {"transfer", "axes", "started"} => FromTheFile

\* What the constructor does is none of this.
LEMMA ConstructorWritesNothing ==
    ASSUME BuildInv, ReadTranslation \/ TransferVariable \/ AddExtras \/ FindAxes
    PROVE  BuildInv' /\ NothingYet /\ NothingYet' /\ numberOfHours' = numberOfHours
           /\ phase' # "read"
<1>1. /\ phase \in {"read", "transfer", "axes"}
      /\ UNCHANGED <<document, numberOfHours, data_, stored, dropped, overrun>>
  BY DEF ReadTranslation, TransferVariable, AddExtras, FindAxes, StillEmpty
<1>2. NothingYet /\ NothingYet'
  BY <1>1 DEF BuildInv, NothingYet
<1>3. phase' # "read" /\ (phase' \in {"transfer", "axes", "started"} => FromTheFile')
  <2>1. CASE ReadTranslation
    BY <2>1, SinkAssumption DEF ReadTranslation, BuildInv, FromTheFile
  <2>2. CASE TransferVariable
    BY <2>2 DEF TransferVariable, BuildInv, FromTheFile
  <2>3. CASE AddExtras
    BY <2>3 DEF AddExtras, BuildInv, FromTheFile
  <2>4. CASE FindAxes
    BY <2>4 DEF FindAxes, BuildInv, FromTheFile
  <2> QED
    BY <2>1, <2>2, <2>3, <2>4
<1> QED
  BY <1>1, <1>2, <1>3 DEF BuildInv

\* Every step after the constructor is a step of GeneratedDataReader, or one
\* in which a write or the flush ends in an exception.
LEMMA StepsOfTheReader ==
    ASSUME WriteField \/ FlushAll \/ FlushFails \/ Over
    PROVE  \/ Next
           \/ UNCHANGED <<translation_, extraDimensions_, numberOfHours,
                           wantedNumberOfTimeSteps_, data_, stored, dropped, overrun>>
<1>1. CASE WriteField
  BY <1>1 DEF WriteField, Use, Next, Throws, Called
<1>2. CASE FlushAll \/ FlushFails \/ Over
  BY <1>2 DEF FlushAll, Use, Next, FlushFails, Over, sinkVars, vars
<1> QED
  BY <1>1, <1>2

LEMMA BuildInvNext ==
    ASSUME BuildInv, [SinkNext]_sinkVars
    PROVE  BuildInv'
<1>1. CASE ReadTranslation \/ TransferVariable \/ AddExtras \/ FindAxes
  BY <1>1, ConstructorWritesNothing
<1>2. CASE WriteField \/ FlushAll \/ FlushFails
  <2>1. phase = "started" /\ phase' \in {"started", "failed"}
    BY <1>2 DEF WriteField, FlushAll, FlushFails, Use, constructorVars
  <2> QED
    BY <1>2, <2>1, CallsKeepTheStart DEF BuildInv, FromTheFile
<1>3. CASE UNCHANGED sinkVars
  BY <1>3 DEF BuildInv, FromTheFile, NothingYet, sinkVars, constructorVars, vars
<1> QED
  BY <1>1, <1>2, <1>3 DEF SinkNext, Over

WritesInv == BuildInv /\ (NothingYet \/ KeptInv)

LEMMA WritesInvNext ==
    ASSUME WritesInv, [SinkNext]_sinkVars
    PROVE  WritesInv'
<1>1. BuildInv'
  BY BuildInvNext DEF WritesInv
<1>2. CASE ReadTranslation \/ TransferVariable \/ AddExtras \/ FindAxes
  BY <1>1, <1>2, ConstructorWritesNothing DEF WritesInv
<1>3. CASE WriteField \/ FlushAll
  <2>1. FromTheFile
    BY <1>3 DEF WritesInv, BuildInv, WriteField, FlushAll, Use
  <2>2. KeptInv
    BY <2>1 DEF WritesInv, FromTheFile, NothingYet, KeptInv, BuffersAreSized,
                StoredHavePlaces, EveryWriteKept
  <2>3. KeptInv'
    BY <1>3, <2>2, StepsOfTheReader, KeptInvNext, KeptInvStutters
  <2> QED
    BY <1>1, <2>3 DEF WritesInv
<1>4. CASE FlushFails \/ UNCHANGED sinkVars
  <2>1. UNCHANGED vars
    BY <1>4 DEF FlushFails, sinkVars
  <2>2. CASE NothingYet
    BY <1>1, <2>1, <2>2 DEF WritesInv, NothingYet, vars
  <2>3. CASE KeptInv
    BY <1>1, <2>1, <2>3, KeptInvNext DEF WritesInv
  <2> QED
    BY <2>2, <2>3 DEF WritesInv
<1> QED
  BY <1>2, <1>3, <1>4 DEF SinkNext, Over

\* Where a sink can be made at all, its writes are kept as GeneratedDataReader
\* keeps them: with no two parameters in one place, and no times with minutes,
\* none is lost or ends outside its buffer, however names clash and whichever
\* writes are refused.
THEOREM SinkKeepsWrites ==
    SinkSpec => [](NoClash(translation_) /\ NoMinutes => EveryWriteKept)
<1>1. SinkInit => WritesInv
  BY DEF SinkInit, WritesInv, BuildInv, NothingYet
<1>2. WritesInv /\ [SinkNext]_sinkVars => WritesInv'
  BY WritesInvNext
<1>3. WritesInv => (NoClash(translation_) /\ NoMinutes => EveryWriteKept)
  BY DEF WritesInv, NothingYet, KeptInv, EveryWriteKept
<1> QED
  BY <1>1, <1>2, <1>3, PTL DEF SinkSpec

-----------------------------------------------------------------------------
(* The end of the forecast *)

\* Once a sink is made, its end is that of GeneratedDataReader.
EndInv ==
    /\ StartInv /\ BuildInv
    /\ numberOfHours \in Hours
    /\ TimeIsUnlimited => NothingYet \/ HorizonInv

\* A sink that could count its steps leaves a field out exactly when it is
\* valid after the end the user asked for, unless the hours overflow or there are times
\* with minutes; whichever variables the parameter file has transferred.
THEOREM SinkRespectsTheHorizon ==
    SinkSpec => [](HoursFit /\ NoMinutes => HorizonRespectedIfCounted)
<1>1. SinkInit => EndInv
  BY DEF SinkInit, EndInv, StartInv, BuildInv, NothingYet
<1>2. EndInv /\ [SinkNext]_sinkVars => EndInv'
  <2> SUFFICES ASSUME EndInv, [SinkNext]_sinkVars PROVE EndInv'
    OBVIOUS
  <2>1. StartInv' /\ BuildInv'
    BY StartInvNext, BuildInvNext DEF EndInv
  <2>2. CASE ReadTranslation \/ TransferVariable \/ AddExtras \/ FindAxes
    BY <2>1, <2>2, ConstructorWritesNothing DEF EndInv
  <2>3. CASE WriteField \/ FlushAll \/ FlushFails \/ Over
    <3>1. UNCHANGED <<source, numberOfHours>> /\ TimeIsUnlimited' = TimeIsUnlimited
      BY <2>3, CallsKeepTheStart, SourceStays
    <3>2. ASSUME TimeIsUnlimited PROVE (NothingYet \/ HorizonInv)'
      <4>1. CASE WriteField \/ FlushAll
        <5>1. phase = "started"
          BY <4>1 DEF WriteField, FlushAll, Use
        <5>2. HorizonInv
          BY <3>2, <5>1 DEF EndInv, StartInv, BuildInv, FromTheFile, NothingYet,
                            HorizonInv, HorizonRespected
        <5>3. CASE Next
          BY <5>2, <5>3, HorizonInvNext
        <5>4. CASE UNCHANGED <<translation_, extraDimensions_, numberOfHours,
                               wantedNumberOfTimeSteps_, data_, stored, dropped, overrun>>
          BY <5>2, <5>4, EndStays DEF HorizonInv, HorizonRespected, Write
        <5> QED
          BY <4>1, <5>3, <5>4, StepsOfTheReader
      <4>2. CASE FlushFails \/ Over
        <5>1. UNCHANGED vars
          BY <4>2 DEF FlushFails, Over, sinkVars
        <5>2. CASE NothingYet
          BY <5>1, <5>2 DEF NothingYet, vars
        <5>3. CASE HorizonInv
          BY <5>1, <5>3, HorizonInvNext
        <5> QED
          BY <3>2, <5>2, <5>3 DEF EndInv
      <4> QED
        BY <2>3, <4>1, <4>2
    <3> QED
      BY <2>1, <3>1, <3>2 DEF EndInv
  <2>4. CASE UNCHANGED sinkVars
    <3>1. UNCHANGED vars /\ TimeIsUnlimited' = TimeIsUnlimited
      BY <2>4, SourceStays DEF sinkVars, constructorVars, vars
    <3>2. CASE NothingYet
      BY <2>1, <3>1, <3>2 DEF EndInv, NothingYet, vars
    <3>3. CASE HorizonInv
      BY <2>1, <3>1, <3>3, HorizonInvNext DEF EndInv, vars
    <3> QED
      BY <2>1, <3>1, <3>2, <3>3 DEF EndInv, vars
  <2> QED
    BY <2>2, <2>3, <2>4 DEF SinkNext
<1>3. EndInv => (HoursFit /\ NoMinutes => HorizonRespectedIfCounted)
  BY DEF EndInv, NothingYet, HorizonInv, HorizonRespectedIfCounted, HorizonRespected
<1> QED
  BY <1>1, <1>2, <1>3, PTL DEF SinkSpec

-----------------------------------------------------------------------------
(* The file *)

\* The constructor leaves nothing a file could be made of.
SinkFileInv ==
    /\ WritesInv /\ ContentInv /\ FlushedInv
    /\ phase \in {"read", "transfer", "axes"} => DOMAIN parameters_ = {} /\ ~flushed

\* A call of add that throws before anything is done changes nothing the file
\* is made of.
LEMMA ThrowsKeepsTheFile ==
    ASSUME ContentInv, FlushedInv, NEW p, NEW i, Throws(p, i)
    PROVE  ContentInv' /\ FlushedInv'
<1>1. UNCHANGED <<translation_, extraDimensions_, wantedNumberOfTimeSteps_, data_, cdm_,
                  parameters_, stored, file, flushed>>
  BY DEF Throws, Called
<1> QED
  BY <1>1, ContentInvStutters DEF FlushedInv, getDataSlice, Fields, Fill

LEMMA SinkFileInvNext ==
    ASSUME SinkFileInv, WritesInv', [SinkNext]_sinkVars
    PROVE  SinkFileInv'
<1>1. CASE ReadTranslation \/ TransferVariable \/ AddExtras \/ FindAxes
  <2>1. NothingYet'
    BY <1>1, ConstructorWritesNothing DEF SinkFileInv, WritesInv
  <2>2. DOMAIN parameters_' = {} /\ ~flushed'
    BY <1>1 DEF ReadTranslation, TransferVariable, AddExtras, FindAxes, StillEmpty, SinkFileInv
  <2>3. ContentInv'
    BY <2>1, <2>2 DEF NothingYet, ContentInv, RegisteredWhenStored, OneShape, OnlyWrites
  <2> QED
    BY <2>2, <2>3 DEF SinkFileInv, FlushedInv
<1>2. CASE WriteField \/ FlushAll
  <2>1. phase' = "started"
    BY <1>2 DEF WriteField, FlushAll, Use, constructorVars
  <2>2. CASE Next
    BY <2>1, <2>2, ContentInvNext, FlushedInvNext DEF SinkFileInv
  <2>3. ASSUME NEW p, NEW i, Throws(p, i) PROVE SinkFileInv'
    BY <2>1, <2>3, ThrowsKeepsTheFile DEF SinkFileInv
  <2> QED
    BY <1>2, <2>2, <2>3 DEF WriteField, FlushAll, Use, Next
<1>3. CASE FlushFails \/ UNCHANGED sinkVars
  <2>1. UNCHANGED vars /\ phase' \in {phase, "failed"}
    BY <1>3 DEF FlushFails, sinkVars, constructorVars
  <2>2. flushed' = flushed /\ parameters_' = parameters_
    BY <2>1 DEF vars
  <2> QED
    BY <2>1, <2>2, ContentInvNext, FlushedInvNext DEF SinkFileInv
<1> QED
  BY <1>1, <1>2, <1>3 DEF SinkNext, Over

\* Whatever the parameter file, the source and the memory were, the file that
\* is written has exactly what was stored, if no two parameters have one place
\* and there are no times with minutes.
THEOREM SinkFileIsTheForecast ==
    SinkSpec => [](NoClash(translation_) /\ NoMinutes => FileHoldsExactlyTheWrites)
<1>1. SinkInit => SinkFileInv
  BY DEF SinkInit, SinkFileInv, WritesInv, BuildInv, NothingYet, ContentInv,
         RegisteredWhenStored, OneShape, OnlyWrites, FlushedInv
<1>2. SinkFileInv /\ [SinkNext]_sinkVars => SinkFileInv'
  BY WritesInvNext, SinkFileInvNext DEF SinkFileInv
<1>3. SinkFileInv => (NoClash(translation_) /\ NoMinutes => FileHoldsExactlyTheWrites)
  <2> SUFFICES ASSUME SinkFileInv, NoClash(translation_), NoMinutes
               PROVE  FileHoldsExactlyTheWrites
    OBVIOUS
  <2>1. BuffersAreSized /\ EveryWriteKept
    BY DEF SinkFileInv, WritesInv, NothingYet, KeptInv, BuffersAreSized, EveryWriteKept
  <2> QED
    BY <2>1, FileIsWhatWasStored DEF SinkFileInv, ContentInv
<1> QED
  BY <1>1, <1>2, <1>3, PTL DEF SinkSpec

-----------------------------------------------------------------------------
(* Where each variable comes from *)

Declared == DOMAIN extraDimensions_ \cup extraVariables(document)

\* What getDataSlice will take from the source.
FromSource(name) ==
    name \in SourceNames /\ shouldTransferFromSourceToSink_(name, projectionVariable_)

\* The projection, if one is known, is a variable that has been passed.
ProjectionIsPassed ==
    \/ projectionVariable_ = NoName
    \/ \E j \in DOMAIN source.variables :
          /\ j < position
          /\ source.variables[j].projection
          /\ source.variables[j].name = projectionVariable_

\* What was copied from the source, but for a projection that is none anymore,
\* is what getDataSlice takes from it.
Copied(name) == name \in SourceNames /\ (FromSource(name) \/ ForgottenProjection(name))

\* By then: the projection may become known, or another one, in between.
CopiedSoFar ==
    /\ \A name \in cdm_ : Copied(name)
    /\ \A i \in DOMAIN source.variables :
          i < position /\ FromSource(source.variables[i].name) => source.variables[i].name \in cdm_

\* From the end of the copying on: what comes from the source is in the file
\* and nothing else has its name.
OriginsKnown ==
    /\ \A name \in cdm_ : Copied(name) \/ name \in Declared \/ name \in DOMAIN parameters_
    /\ \A name \in SourceNames : FromSource(name) =>
          name \in cdm_ /\ name \notin Declared /\ name \notin DOMAIN parameters_

OriginInv ==
    /\ phase = "read" => projectionVariable_ = NoName /\ cdm_ = {}
    /\ phase \in {"read", "transfer", "axes"} => DOMAIN parameters_ = {}
    /\ DOMAIN parameters_ \subseteq listed
    /\ ProjectionIsPassed
    /\ phase = "transfer" => CopiedSoFar
    /\ phase \in {"axes", "started"} => OriginsKnown

\* What comes from the source depends on the two files and the projection alone.
LEMMA OriginsStay ==
    ASSUME document' = document, source' = source
    PROVE  /\ SourceNames' = SourceNames
           /\ extraVariables(document)' = extraVariables(document)
           /\ \A name, projection :
                 shouldTransferFromSourceToSink_(name, projection)'
                     = shouldTransferFromSourceToSink_(name, projection)
BY DEF SourceNames, extraVariables, shouldTransferFromSourceToSink_, isDimension,
       directTransferVariables

LEMMA OriginInvReadTranslation ==
    ASSUME StartInv, OriginInv, ReadTranslation
    PROVE  OriginInv'
<1>1. /\ phase = "read" /\ phase' \in {"transfer", "failed"}
      /\ UNCHANGED <<document, source, position, projectionVariable_, cdm_, listed, parameters_>>
  BY DEF ReadTranslation, StillEmpty
<1>2. DOMAIN parameters_ = {} /\ cdm_ = {} /\ position = 1
  BY <1>1 DEF OriginInv, StartInv
<1>3. ProjectionIsPassed'
  BY <1>1 DEF OriginInv, ProjectionIsPassed
<1>4. CopiedSoFar'
  <2>1. DOMAIN source.variables \subseteq Nat \ {0}
    BY SourcesAreFiles DEF StartInv
  <2> QED
    BY <1>1, <1>2, <2>1 DEF CopiedSoFar
<1> QED
  BY <1>1, <1>2, <1>3, <1>4 DEF OriginInv

LEMMA OriginInvTransferVariable ==
    ASSUME StartInv, OriginInv, TransferVariable
    PROVE  OriginInv'
<1> DEFINE v == source.variables[position]
           taken == shouldTransferFromSourceToSink_(v.name, projectionVariable_')
<1>1. /\ phase = "transfer" /\ phase' \in {"transfer", "failed"}
      /\ position \in DOMAIN source.variables /\ position' = position + 1
      /\ projectionVariable_' = IF v.projection THEN v.name ELSE projectionVariable_
      /\ cdm_' = IF taken THEN cdm_ \cup {v.name} ELSE cdm_
      /\ UNCHANGED <<document, source, listed, parameters_>>
  BY DEF TransferVariable, StillEmpty
<1>2. /\ DOMAIN source.variables \subseteq Nat /\ position \in Nat
      /\ \A i \in DOMAIN source.variables : source.variables[i].name # NoName
      /\ \A i, j \in DOMAIN source.variables :
            source.variables[i].name = source.variables[j].name => i = j
  BY SourcesAreFiles, SinkAssumption DEF StartInv
<1>3. ProjectionIsPassed'
  <2>1. CASE v.projection
    BY <1>1, <1>2, <2>1 DEF ProjectionIsPassed
  <2>2. CASE ~v.projection
    BY <1>1, <1>2, <2>2 DEF OriginInv, ProjectionIsPassed
  <2> QED
    BY <2>1, <2>2
<1>4. /\ CopiedSoFar /\ ProjectionIsPassed
      /\ \A i \in DOMAIN source.variables : source.variables[i].name \in SourceNames
      /\ \A name \in SourceNames : name # NoName
  BY <1>1, <1>2 DEF OriginInv, SourceNames
<1>5. /\ SourceNames' = SourceNames
      /\ \A name : FromSource(name)' <=>
            (name \in SourceNames /\ shouldTransferFromSourceToSink_(name, projectionVariable_'))
      /\ \A name : ForgottenProjection(name)' <=>
            /\ name # projectionVariable_'
            /\ \E i \in DOMAIN source.variables :
                  source.variables[i].name = name /\ source.variables[i].projection
  BY <1>1, OriginsStay DEF FromSource, ForgottenProjection
\* The projection that was is one, if another takes its place.
<1>6. ASSUME NEW name \in SourceNames, Copied(name)
      PROVE  Copied(name)'
  <2>1. CASE name = projectionVariable_'
    BY <1>5, <1>6, <2>1 DEF Copied, shouldTransferFromSourceToSink_
  <2>2. CASE name # projectionVariable_' /\ name = projectionVariable_
    <3>1. \E i \in DOMAIN source.variables :
              source.variables[i].name = name /\ source.variables[i].projection
      BY <1>4, <2>2 DEF ProjectionIsPassed
    <3> QED
      BY <1>5, <2>2, <3>1 DEF Copied
  <2>3. CASE name # projectionVariable_' /\ name # projectionVariable_
    BY <1>5, <1>6, <2>3 DEF Copied, FromSource, ForgottenProjection,
                            shouldTransferFromSourceToSink_
  <2> QED
    BY <2>1, <2>2, <2>3
<1>7. ASSUME NEW name, name = v.name, taken
      PROVE  Copied(name)'
  BY <1>1, <1>4, <1>5, <1>7 DEF Copied
<1>8. \A name \in cdm_' : Copied(name)'
  <2> TAKE name \in cdm_'
  <2>1. CASE name \in cdm_
    BY <1>4, <1>6, <2>1 DEF CopiedSoFar, Copied
  <2>2. CASE name \notin cdm_
    BY <1>1, <1>7, <2>2
  <2> QED
    BY <2>1, <2>2
<1>9. ASSUME NEW i \in DOMAIN source.variables, i < position',
             FromSource(source.variables[i].name)'
      PROVE  source.variables[i].name \in cdm_'
  <2>1. CASE i = position
    BY <1>1, <1>5, <1>9, <2>1
  <2>2. CASE i # position
    <3>1. i < position /\ source.variables[i].name # v.name
      BY <1>1, <1>2, <1>9, <2>2
    <3>2. FromSource(source.variables[i].name)
      BY <1>1, <1>5, <1>9, <3>1 DEF FromSource, shouldTransferFromSourceToSink_
    <3> QED
      BY <1>1, <1>4, <3>1, <3>2 DEF CopiedSoFar
  <2> QED
    BY <2>1, <2>2
<1> HIDE DEF taken
<1>10. CopiedSoFar'
  BY <1>1, <1>8, <1>9 DEF CopiedSoFar
<1> QED
  BY <1>1, <1>3, <1>10 DEF OriginInv

LEMMA OriginInvAddExtras ==
    ASSUME StartInv, OriginInv, AddExtras
    PROVE  OriginInv'
<1>1. /\ phase = "transfer" /\ position \notin DOMAIN source.variables
      /\ cdm_' = cdm_ \cup Declared
      /\ phase' \in {"axes", "failed"}
      /\ phase' = "axes" => Declared \cap cdm_ = {}
      /\ UNCHANGED <<document, source, position, projectionVariable_, extraDimensions_,
                     listed, parameters_>>
  BY DEF AddExtras, StillEmpty, Declared
<1>2. /\ SourceNames' = SourceNames /\ Declared' = Declared
      /\ \A name : FromSource(name)' = FromSource(name) /\ Copied(name)' = Copied(name)
  BY <1>1, OriginsStay DEF Declared, FromSource, Copied, ForgottenProjection
<1>3. ProjectionIsPassed'
  BY <1>1 DEF OriginInv, ProjectionIsPassed
<1>4. ASSUME phase' = "axes" PROVE OriginsKnown'
  <2>1. CopiedSoFar /\ DOMAIN parameters_ = {}
    BY <1>1 DEF OriginInv
  <2>2. \A i \in DOMAIN source.variables : i < position
    <3>1. /\ DOMAIN source.variables = 1 .. Len(source.variables)
          /\ Len(source.variables) \in Nat /\ position \in Nat \ {0}
      BY SourcesAreFiles DEF StartInv
    <3> QED
      BY <1>1, <3>1
  <2>3. \A name \in SourceNames : FromSource(name) => name \in cdm_
    BY <2>1, <2>2 DEF CopiedSoFar, SourceNames
  <2> QED
    BY <1>1, <1>2, <1>4, <2>1, <2>3 DEF OriginsKnown, CopiedSoFar
<1> QED
  BY <1>1, <1>3, <1>4 DEF OriginInv

\* A write adds a variable only under a name nobody has, and there is a list for it.
LEMMA OriginInvAdd ==
    ASSUME OriginInv, phase = "started", UNCHANGED constructorVars,
           NEW p \in Parameter, NEW i \in DOMAIN Axis, Add(p, i) \/ Throws(p, i)
    PROVE  OriginInv'
<1>1. /\ UNCHANGED <<document, source, phase, position, projectionVariable_,
                     translation_, extraDimensions_>>
      /\ listed' = IF Translated(p) THEN listed \cup {cfName(p)} ELSE listed
      /\ ProjectionIsPassed /\ OriginsKnown /\ DOMAIN parameters_ \subseteq listed
  BY DEF OriginInv, constructorVars, Add, AddFails, AddIgnores, AddFindsNoDimension,
         AddFindsNoPlace, AddFindsNameTaken, AddStores, Throws, Called
<1>2. /\ SourceNames' = SourceNames /\ Declared' = Declared
      /\ \A name : FromSource(name)' = FromSource(name) /\ Copied(name)' = Copied(name)
  BY <1>1, OriginsStay DEF Declared, FromSource, Copied, ForgottenProjection
<1>3. ProjectionIsPassed'
  BY <1>1 DEF ProjectionIsPassed
<1>4. CASE AddStores(p, i)
  <2>1. /\ p \in DOMAIN translation_
        /\ DOMAIN parameters_' = DOMAIN parameters_ \cup {cfName(p)}
        /\ cdm_' = cdm_ \cup {cfName(p)}
        /\ cfName(p) \in DOMAIN parameters_ \/ cfName(p) \notin cdm_
    BY <1>4 DEF AddStores, Found, Translated, Register, NameTaken
  <2>2. DOMAIN parameters_' \subseteq listed'
    BY <1>1, <2>1 DEF Translated
  <2>3. OriginsKnown'
    BY <1>1, <1>2, <2>1 DEF OriginsKnown
  <2> QED
    BY <1>1, <1>3, <2>2, <2>3 DEF OriginInv
<1>5. CASE ~AddStores(p, i)
  <2>1. UNCHANGED <<cdm_, parameters_>>
    BY <1>5 DEF Add, AddFails, AddIgnores, AddFindsNoDimension, AddFindsNoPlace,
                AddFindsNameTaken, Throws
  <2>2. OriginsKnown'
    BY <1>1, <1>2, <2>1 DEF OriginsKnown
  <2> QED
    BY <1>1, <1>3, <2>1, <2>2 DEF OriginInv
<1> QED
  BY <1>4, <1>5

LEMMA OriginInvNext ==
    ASSUME StartInv, OriginInv, [SinkNext]_sinkVars
    PROVE  OriginInv'
<1>1. ASSUME UNCHANGED <<document, source, position, projectionVariable_, extraDimensions_,
                         cdm_, listed, parameters_>>,
             \/ phase' = phase
             \/ phase' = "failed"
             \/ phase = "axes" /\ phase' = "started"
      PROVE  OriginInv'
  <2>1. /\ SourceNames' = SourceNames /\ Declared' = Declared
        /\ \A name : FromSource(name)' = FromSource(name) /\ Copied(name)' = Copied(name)
    BY <1>1, OriginsStay DEF Declared, FromSource, Copied, ForgottenProjection
  <2>2. /\ ProjectionIsPassed' = ProjectionIsPassed /\ OriginsKnown' = OriginsKnown
        /\ CopiedSoFar' = CopiedSoFar
    BY <1>1, <2>1 DEF ProjectionIsPassed, OriginsKnown, CopiedSoFar
  <2> QED
    BY <1>1, <2>2 DEF OriginInv
<1>2. CASE ReadTranslation
  BY <1>2, OriginInvReadTranslation
<1>3. CASE TransferVariable
  BY <1>3, OriginInvTransferVariable
<1>4. CASE AddExtras
  BY <1>4, OriginInvAddExtras
<1>5. CASE FindAxes
  BY <1>1, <1>5 DEF FindAxes, StillEmpty
<1>6. CASE WriteField
  <2>1. PICK p \in Parameter, i \in DOMAIN Axis : Add(p, i) \/ Throws(p, i)
    BY <1>6 DEF WriteField, Use
  <2>2. phase = "started" /\ UNCHANGED constructorVars
    BY <1>6 DEF WriteField, Use
  <2> QED
    BY <2>1, <2>2, OriginInvAdd
<1>7. CASE FlushAll
  BY <1>1, <1>7 DEF FlushAll, Use, Flush, constructorVars
<1>8. CASE FlushFails \/ Over \/ UNCHANGED sinkVars
  BY <1>1, <1>8 DEF FlushFails, Over, sinkVars, constructorVars, vars
<1> QED
  BY <1>2, <1>3, <1>4, <1>5, <1>6, <1>7, <1>8 DEF SinkNext

\* What the source is asked for is in the file from the source, or the source
\* has not got it; what it is not asked for is found in one of the two other
\* places, unless it was copied as a projection.
LEMMA OriginsAreFound ==
    ASSUME OriginInv
    PROVE  EveryVariableKeepsItsSource
<1> DEFINE Kept(name) ==
               \/ AnsweredFrom(name) = Origin(name)
               \/ /\ AnsweredFrom(name) = "exception"
                  /\ AskedInVain(name) \/ ForgottenProjection(name)
               \/ /\ AnsweredFrom(name) = "fields"
                  /\ name \in listed \ DOMAIN parameters_
                  /\ name \in DOMAIN extraDimensions_ \/ ForgottenProjection(name)
<1> SUFFICES ASSUME phase = "started", NEW name \in cdm_ \ extraVariables(document)
             PROVE  Kept(name)
  BY DEF EveryVariableKeepsItsSource
<1> DEFINE asks == shouldTransferFromSourceToSink_(name, projectionVariable_)
<1>1. OriginsKnown /\ DOMAIN parameters_ \subseteq listed
  BY DEF OriginInv
<1>2. CASE asks /\ name \in SourceNames
  <2>1. FromSource(name)
    BY <1>2 DEF FromSource
  <2>2. Origin(name) = "source"
    BY <1>1, <2>1 DEF OriginsKnown, FromSource, Origin, Declared
  <2> QED
    BY <1>2, <2>2 DEF AnsweredFrom
<1>3. CASE asks /\ name \notin SourceNames
  BY <1>3 DEF AnsweredFrom, AskedInVain
<1>4. CASE ~asks
  <2>1. ~FromSource(name)
    BY <1>4 DEF FromSource
  <2>2. \/ ForgottenProjection(name)
        \/ name \in DOMAIN extraDimensions_
        \/ name \in DOMAIN parameters_
    BY <1>1, <2>1 DEF OriginsKnown, Copied, Declared
  <2>3. CASE name \in DOMAIN parameters_
    BY <1>1, <1>4, <2>3 DEF AnsweredFrom, Origin
  <2>4. CASE name \notin DOMAIN parameters_ /\ name \in DOMAIN extraDimensions_
    BY <1>4, <2>4 DEF AnsweredFrom, Origin
  <2>5. CASE /\ name \notin DOMAIN parameters_ /\ name \notin DOMAIN extraDimensions_
             /\ ForgottenProjection(name)
    BY <1>4, <2>5 DEF AnsweredFrom
  <2> QED
    BY <2>2, <2>3, <2>4, <2>5
<1> QED
  BY <1>2, <1>3, <1>4

\* When the file is written, each of its variables comes from where it was taken
\* when it was described, or the flush ends for one of the two reasons the code
\* has, or an extra dimension or an earlier projection comes as fill values: for
\* every parameter file and source, whatever names they use twice and however
\* many projections there are.
THEOREM NamesKeepTheirOrigin == SinkSpec => []EveryVariableKeepsItsSource
<1> DEFINE Inv == StartInv /\ OriginInv
<1>1. SinkInit => Inv
  BY DEF SinkInit, StartInv, OriginInv, ProjectionIsPassed
<1>2. Inv /\ [SinkNext]_sinkVars => Inv'
  BY StartInvNext, OriginInvNext
<1>3. Inv => EveryVariableKeepsItsSource
  BY OriginsAreFound
<1> QED
  BY <1>1, <1>2, <1>3, PTL DEF SinkSpec

-----------------------------------------------------------------------------
(* Types *)

TypeInv ==
    /\ StartInv /\ BuildInv /\ OriginInv
    /\ numberOfHours \in Hours /\ wantedNumberOfTimeSteps_ \in Int
    /\ position \in 1 .. Len(source.variables) + 1
    /\ phase \in {"read", "transfer", "axes"} =>
          DOMAIN parameters_ = {} /\ listed = {} /\ last = <<0, 0>> /\ flushed = FALSE
    /\ phase = "started" => TypeOK

\* A sink as its constructor leaves it.
LEMMA SinkIsMadeTyped ==
    ASSUME NothingYet, FromTheFile, numberOfHours \in Hours, wantedNumberOfTimeSteps_ \in Int,
           DOMAIN parameters_ = {}, listed = {}, last = <<0, 0>>, flushed = FALSE
    PROVE  TypeOK
<1>1. last \in (0 .. Len(Axis)) \X (0 .. Len(WeatherData))
  <2>1. Len(Axis) \in Nat /\ Len(WeatherData) \in Nat
    BY TimeAssumption, TranslationAssumption
  <2> QED
    BY <2>1
<1>2. DOMAIN data_ = {} /\ stored \cup dropped \cup overrun = {}
  BY DEF NothingYet
<1> QED
  BY <1>1, <1>2 DEF FromTheFile, TypeOK

LEMMA TypeInvNext ==
    ASSUME TypeInv, [SinkNext]_sinkVars
    PROVE  TypeInv'
<1>1. StartInv' /\ BuildInv' /\ OriginInv'
  BY StartInvNext, BuildInvNext, OriginInvNext DEF TypeInv
<1>2. Len(source.variables) \in Nat /\ DOMAIN source.variables = 1 .. Len(source.variables)
  BY SourcesAreFiles DEF TypeInv, StartInv
<1>3. CASE ReadTranslation \/ TransferVariable \/ AddExtras \/ FindAxes
  <2>1. /\ phase \in {"read", "transfer", "axes"}
        /\ UNCHANGED <<source, numberOfHours, listed, parameters_, last, flushed>>
        /\ wantedNumberOfTimeSteps_' \in {wantedNumberOfTimeSteps_, CountedSteps}
        /\ \/ position' = position
           \/ position \in DOMAIN source.variables /\ position' = position + 1
    BY <1>3 DEF ReadTranslation, TransferVariable, AddExtras, FindAxes, StillEmpty
  <2>2. wantedNumberOfTimeSteps_' \in Int
    BY <2>1, CountIsANumber DEF TypeInv
  <2>3. position' \in 1 .. Len(source.variables)' + 1
    BY <1>2, <2>1 DEF TypeInv
  <2>4. DOMAIN parameters_' = {} /\ listed' = {} /\ last' = <<0, 0>> /\ flushed' = FALSE
    BY <2>1 DEF TypeInv
  <2>5. phase' = "started" => TypeOK'
    <3> SUFFICES ASSUME phase' = "started" PROVE TypeOK'
      OBVIOUS
    <3>1. CASE FindAxes
      <4>1. phase = "axes" /\ UNCHANGED vars
        BY <3>1 DEF FindAxes, StillEmpty, vars
      <4>2. NothingYet /\ FromTheFile
        BY <4>1 DEF TypeInv, BuildInv
      <4>3. TypeOK
        BY <4>1, <4>2, SinkIsMadeTyped DEF TypeInv
      <4> QED
        BY <4>1, <4>3, TypeOKNext
    <3>2. CASE ReadTranslation \/ TransferVariable \/ AddExtras
      BY <3>2 DEF ReadTranslation, TransferVariable, AddExtras
    <3> QED
      BY <1>3, <3>1, <3>2
  <2> QED
    BY <1>1, <2>1, <2>2, <2>3, <2>4, <2>5 DEF TypeInv
<1>4. CASE WriteField \/ FlushAll \/ FlushFails \/ Over
  <2>1. /\ UNCHANGED <<source, position, numberOfHours, wantedNumberOfTimeSteps_>>
        /\ phase' = phase \/ phase' = "failed"
    BY <1>4, CallsKeepTheStart
  <2>2. phase \in {"started", "failed"} \/ flushed
    BY <1>4, CallsKeepTheStart
  <2>3. phase' = "started" => TypeOK'
    <3> SUFFICES ASSUME phase' = "started" PROVE TypeOK'
      OBVIOUS
    <3>1. TypeOK
      BY <2>1 DEF TypeInv
    <3>2. CASE WriteField
      <4>1. PICK p \in Parameter, i \in DOMAIN Axis : Add(p, i) \/ Throws(p, i)
        BY <3>2 DEF WriteField, Use
      <4> QED
        BY <3>1, <4>1, TypeOKAdd
    <3>3. CASE FlushAll \/ FlushFails \/ Over
      <4>1. [Next]_vars
        BY <3>3 DEF FlushAll, Use, Next, FlushFails, Over, sinkVars
      <4> QED
        BY <3>1, <4>1, TypeOKNext
    <3> QED
      BY <1>4, <3>2, <3>3
  <2>4. phase' \notin {"read", "transfer", "axes"}
    BY <2>1, <2>2 DEF TypeInv, StartInv
  <2> QED
    BY <1>1, <2>1, <2>3, <2>4 DEF TypeInv
<1>5. CASE UNCHANGED sinkVars
  <2>1. UNCHANGED <<source, phase, position>> /\ UNCHANGED vars
    BY <1>5 DEF sinkVars, constructorVars
  <2>2. phase = "started" => TypeOK'
    BY <2>1, TypeOKNext DEF TypeInv
  <2> QED
    BY <1>1, <2>1, <2>2 DEF TypeInv, vars
<1> QED
  BY <1>3, <1>4, <1>5 DEF SinkNext

\* The sink keeps its types, whatever the memory held when it was made.
THEOREM SinkTypes == SinkSpec => []SinkTypeOK
<1>1. SinkInit => TypeInv
  <2> SUFFICES ASSUME SinkInit PROVE TypeInv
    OBVIOUS
  <2>1. Len(source.variables) \in Nat
    BY SourcesAreFiles DEF SinkInit
  <2> QED
    BY <2>1, SinkAssumption
       DEF SinkInit, TypeInv, StartInv, BuildInv, NothingYet, OriginInv, ProjectionIsPassed
<1>2. TypeInv /\ [SinkNext]_sinkVars => TypeInv'
  BY TypeInvNext
<1>3. TypeInv => SinkTypeOK
  BY DEF TypeInv, StartInv, OriginInv, ProjectionIsPassed, SourceNames, SinkTypeOK
<1> QED
  BY <1>1, <1>2, <1>3, PTL DEF SinkSpec

=============================================================================
