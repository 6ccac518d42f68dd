---------------------------- MODULE FieldSelection ----------------------------
(***************************************************************************)
(* getSymbolCertainty and getProbableValues on whole fields: SymbolSelection*)
(* is what they do at one point, and this is how they go over the points.   *)
(* First every point gets its symbol, by way of the symbols of all members, *)
(* which are kept.  With them one parameter after the other gets a value at *)
(* every point.  An exception here is none of the kind the generator goes on*)
(* after: it ends the time step, and what was selected before it is lost.   *)
(*                                                                          *)
(* The parameters come from variables of the file that have members and     *)
(* grids of their own: nobody compares the grids, and the members only when *)
(* values are selected.                                                     *)
(*                                                                          *)
(* Abstractions.  Where weather has the code the library gives for the cloud*)
(* cover and the precipitation of a member, the code asks the library, once *)
(* it could read both.  A selected value is twice what it is in the file.   *)
(***************************************************************************)
EXTENDS SymbolSelection, CrossContainer

CONSTANTS
    Weathers,       \* collections of codes, one per member and point
    Precipitations, \* collections whose values do not matter
    Requests        \* sequences of collections: the parameters to be selected

ASSUME FieldAssumption ==
    /\ Weathers \subseteq Seq(Seq(Symbol) \ {<< >>}) \ {<< >>}
    /\ \A w \in Weathers : \A m \in DOMAIN w : Len(w[m]) = Len(w[1])
    /\ Precipitations \subseteq Seq(Seq(Nat))
    /\ Requests \subseteq Seq(Seq(Seq(Int)))

VARIABLES
    weather, precipitation,
    allSymbols,             \* the members' symbols, filled point by point
    symbolOut, certaintyOut,
    requests,
    dataOut,                \* the field of the parameter at hand
    fields,                 \* toSave_: the results so far
    phase,
    point                   \* at which the loop is

givenVars == <<weather, precipitation, requests>>
fieldVars == <<givenVars, allSymbols, symbolOut, certaintyOut, dataOut, fields, phase, point>>

\* allSymbols[0].size(), that of cloudCover
PointCount == Len(weather[1])

\* dataIn
parameter == requests[Len(fields) + 1]

FieldInit ==
    /\ weather \in Weathers
    /\ precipitation \in Precipitations
    /\ requests \in Requests
    /\ precipFraction \in Fractions
    /\ allSymbols = getEqualSizeBlobCollection(weather)
    /\ symbolOut = << >> /\ certaintyOut = << >>
    /\ dataOut = << >> /\ fields = << >>
    /\ phase = "symbols" /\ point = 0
    /\ pc = "idle"
    /\ symbols = << >> /\ data = << >>
    /\ visited = {} /\ ret = Error /\ count = 0 /\ certainty = 0
    /\ member = 0 /\ relevant = << >> /\ value = 0

-----------------------------------------------------------------------------
(* getSymbolCertainty *)

\* getSymbols walks the members of the cloud cover and reads as many of the
\* precipitation.
Readable ==
    \A m \in 0 .. Len(weather) - 1 : InRange(precipitation, Moved(begin(point), m))

\* allSymbols once getSymbols has written the codes of the point to it.
WithSymbols ==
    [m \in DOMAIN weather |->
        [allSymbols[m] EXCEPT ![point + 1] = Value(weather, Moved(begin(point), m - 1))]]

\* A round of the loop begins: the symbols of the members at this point.
GetSymbols ==
    /\ phase = "symbols" /\ pc = "idle" /\ point < PointCount
    /\ Readable
    /\ allSymbols' = WithSymbols
    /\ symbols' = Elements(allSymbols', point)
    /\ pc' = "select"
    /\ visited' = {} /\ ret' = Error /\ count' = 0
    /\ UNCHANGED <<givenVars, symbolOut, certaintyOut, dataOut, fields, phase, point,
                   precipFraction, data, certainty, member, relevant, value>>

OutOfRange ==
    /\ phase = "symbols" /\ pc = "idle" /\ point < PointCount
    /\ ~Readable
    /\ phase' = "failed"
    /\ UNCHANGED <<givenVars, allSymbols, symbolOut, certaintyOut, dataOut, fields, point, vars>>

\* selectSymbol, getProbabilityOf
Select ==
    /\ phase = "symbols"
    /\ NextEntry \/ Selected
    /\ UNCHANGED fieldVars

\* For Error there is no probability.
NoSymbol ==
    /\ phase = "symbols"
    /\ InternalError
    /\ phase' = "failed"
    /\ UNCHANGED <<givenVars, allSymbols, symbolOut, certaintyOut, dataOut, fields, point>>

\* Where SymbolSelection goes on to the values, the loop goes on to the next point.
StoreSymbol ==
    /\ phase = "symbols" /\ pc = "consider"
    /\ symbolOut' = Append(symbolOut, ret)
    /\ certaintyOut' = Append(certaintyOut, certainty)
    /\ point' = point + 1
    /\ pc' = "idle"
    /\ UNCHANGED <<givenVars, allSymbols, dataOut, fields, phase, inputs, visited, ret, count,
                   certainty, member, relevant, value>>

SymbolsStored ==
    /\ phase = "symbols" /\ pc = "idle" /\ point = PointCount
    /\ phase' = "values" /\ point' = 0
    /\ UNCHANGED <<givenVars, allSymbols, symbolOut, certaintyOut, dataOut, fields, vars>>

-----------------------------------------------------------------------------
(* getProbableValues *)

SameSize == Len(allSymbols) = Len(parameter)

\* A round of the loop begins: everything of SymbolSelection is that of this
\* point again.
BeginPoint ==
    /\ phase = "values" /\ pc = "idle"
    /\ Len(fields) < Len(requests) /\ point < PointCount
    /\ SameSize /\ Complete(parameter, point)
    /\ symbols' = Elements(allSymbols, point)
    /\ data' = Elements(parameter, point)
    /\ ret' = symbolOut[point + 1]
    /\ certainty' = certaintyOut[point + 1]
    /\ visited' = {} /\ count' = 0
    /\ member' = 0 /\ relevant' = << >> /\ value' = 0
    /\ pc' = "consider"
    /\ UNCHANGED <<fieldVars, precipFraction>>

\* getProbableValue
Choose ==
    /\ phase = "values"
    /\ Consider \/ Median
    /\ UNCHANGED fieldVars

StoreValue ==
    /\ phase = "values" /\ pc = "done"
    /\ dataOut' = Append(dataOut, value)
    /\ point' = point + 1
    /\ pc' = "idle"
    /\ UNCHANGED <<givenVars, allSymbols, symbolOut, certaintyOut, fields, phase, inputs, visited,
                   ret, count, certainty, member, relevant, value>>

NextParameter(field) ==
    /\ fields' = Append(fields, field)
    /\ dataOut' = << >> /\ point' = 0 /\ pc' = "idle"
    /\ UNCHANGED <<givenVars, allSymbols, symbolOut, certaintyOut, phase, inputs, visited,
                   ret, count, certainty, member, relevant, value>>

ParameterStored ==
    /\ phase = "values" /\ pc = "idle"
    /\ Len(fields) < Len(requests) /\ point = PointCount
    /\ NextParameter(dataOut)

\* Bug variant of ParameterFails: as with missing data, the next parameter follows.
ParameterFailsAlone ==
    /\ phase = "values"
    /\ pc = "idle" /\ Len(fields) < Len(requests) /\ point < PointCount
    /\ ~(SameSize /\ Complete(parameter, point))
    /\ NextParameter(dataOut)

\* The sizes differ; the first relevant member has no such point, and there is
\* always a relevant one; or there is none after all.  The generator rethrows.
ParameterFails ==
    /\ phase = "values"
    /\ \/ /\ pc = "idle" /\ Len(fields) < Len(requests) /\ point < PointCount
          /\ ~(SameSize /\ Complete(parameter, point))
       \/ pc = "runtime_error"
    /\ phase' = "failed"
    /\ UNCHANGED <<givenVars, allSymbols, symbolOut, certaintyOut, dataOut, fields, point, vars>>

\* The symbols and the fields reach the sink together.
SaveAll ==
    /\ phase = "values" /\ pc = "idle" /\ Len(fields) = Len(requests)
    /\ phase' = "saved"
    /\ UNCHANGED <<givenVars, allSymbols, symbolOut, certaintyOut, dataOut, fields, point, vars>>

Over ==
    /\ phase \in {"failed", "saved"}
    /\ UNCHANGED <<fieldVars, vars>>

FieldNext ==
    \/ GetSymbols \/ OutOfRange \/ Select \/ NoSymbol \/ StoreSymbol \/ SymbolsStored
    \/ BeginPoint \/ Choose \/ StoreValue \/ ParameterStored \/ ParameterFails
    \/ SaveAll \/ Over

FieldSpec == FieldInit /\ [][FieldNext]_<<fieldVars, vars>>

-----------------------------------------------------------------------------
(* Properties *)

\* Every variable has its type, those of SymbolSelection while it is at a point.
FieldTypeOK ==
    /\ phase \in {"symbols", "values", "failed", "saved"}
    /\ point \in 0 .. PointCount
    /\ Len(symbolOut) \in 0 .. PointCount /\ Len(certaintyOut) = Len(symbolOut)
    /\ phase = "symbols" => Len(symbolOut) = point
    /\ phase = "values" => Len(symbolOut) = PointCount /\ Len(dataOut) = point
    /\ Len(dataOut) \in 0 .. PointCount
    /\ Len(fields) <= Len(requests)
    /\ pc = "idle" \/ (phase = "symbols" => symbols \in Seq(Symbol) \ {<< >>}
                                             /\ visited \subseteq Range(symbols))
    /\ pc = "idle" \/ (phase = "values" => TypeOK)

\* The members a symbol stands for at a point, counted from one.
Like(g, s) == {m \in DOMAIN weather : weather[m][g] \in nearby[s]}

\* INVARIANT: fields belong together point by point: in every field the value
\* of a point is a median of the parameter's own values at this point, over the
\* members whose weather at this point is like the symbol published for it.
\* The collections are walked in different loops, through different views.
FieldsBelongTogether ==
    /\ \A g \in DOMAIN symbolOut :
          \E m \in DOMAIN weather : weather[m][g] = symbolOut[g]
    /\ \A n \in DOMAIN fields :
          \A g \in DOMAIN fields[n] :
              LET like == Like(g, symbolOut[g])
                  below == {m \in like : 2 * requests[n][m][g] <= fields[n][g]}
                  above == {m \in like : 2 * requests[n][m][g] >= fields[n][g]}
              IN  /\ 2 * Cardinality(below) >= Cardinality(like)
                  /\ 2 * Cardinality(above) >= Cardinality(like)

\* A collection with the members of the weather, and all its points.
Fits(collection) ==
    /\ Len(collection) = Len(weather)
    /\ \A m \in DOMAIN collection : Len(collection[m]) >= PointCount

\* More members and points do no harm to the precipitation.
PrecipitationCovers ==
    \A m \in DOMAIN weather : m \in DOMAIN precipitation /\ Len(precipitation[m]) >= PointCount

EverythingFits == PrecipitationCovers /\ \A n \in DOMAIN requests : Fits(requests[n])

\* INVARIANT: a time step is saved whole, with the symbols and every parameter
\* on the whole grid, or not at all.  One variable of the file that does not fit
\* the weather is enough to lose it, and with the default fraction of wet
\* members nothing else is.
WholeFieldsOnly ==
    /\ phase = "saved" =>
          /\ EverythingFits
          /\ Len(symbolOut) = PointCount /\ Len(certaintyOut) = PointCount
          /\ Len(fields) = Len(requests)
          /\ \A n \in DOMAIN fields : Len(fields[n]) = PointCount
    /\ phase = "failed" /\ UpToHalf => ~EverythingFits

=============================================================================
