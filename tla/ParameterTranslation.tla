------------------------ MODULE ParameterTranslation ------------------------
(***************************************************************************)
(* Reading a parameter file: what ParameterTranslation's constructor makes  *)
(* of the elements of an XML document, and the documents it refuses.        *)
(*                                                                          *)
(* The constructor looks for one kind of element after the other, and the   *)
(* first thing it does not like ends it with an exception; nobody sees what *)
(* it had read by then.  So a document is either Fit, and then has the      *)
(* contents given here, or is refused.                                      *)
(*                                                                          *)
(* A document is a record of the sequences of its elements, each with the   *)
(* attributes that are read; numbers are natural, or one of the two below.  *)
(* Attributes that describe a variable are read like the others but only    *)
(* handed on, so an element just says whether they are whole.               *)
(***************************************************************************)
EXTENDS Integers, Sequences, FiniteSets, Functions

CONSTANTS
    NoDimension       \* stands for "no extra dimension"

NotGiven == -1
NotANumber == -2

\* getAttribute_: an attribute that is empty counts as one that is missing.
Given(name) == name # ""

\* getValue: a number that is missing, or is none, is an exception.
IsNumber(value) == value \notin {NotGiven, NotANumber}

Dimension == [cfName : STRING, values : Seq(Int), whole : BOOLEAN]
ExtraVariable == [cfName : STRING, numbers : BOOLEAN, whole : BOOLEAN]
Place == [cfName : STRING, value : Int]
ParameterElement ==
    [identifier : STRING, cfName : STRING, offset : Int, places : Seq(Place),
     whole : BOOLEAN]

\* The elements of a document by their kind; parsed is FALSE for a file that is
\* not there, is a directory or is not XML.
Document ==
    [parsed : BOOLEAN, globals : BOOLEAN, transfers : Seq(STRING),
     dimensions : Seq(Dimension), variables : Seq(ExtraVariable),
     parameters : Seq(ParameterElement)]

-----------------------------------------------------------------------------
addGlobalAttributes_(doc) == doc.globals

\* Elements without a name are not taken.
addDirectTransferVariables_(doc) == \A name \in Range(doc.transfers) : Given(name)

addExtraDimensions_(doc) ==
    \A e \in Range(doc.dimensions) :
        /\ Given(e.cfName) /\ e.whole
        /\ \A v \in Range(e.values) : IsNumber(v)

addExtraVariables_(doc) ==
    \A e \in Range(doc.variables) : Given(e.cfName) /\ e.whole /\ e.numbers

\* The elements of one parameter.
Nodes(doc, p) == {i \in DOMAIN doc.parameters : doc.parameters[i].identifier = p}

\* At most one element, on at most one extra dimension.  A time offset that is
\* missing is none; one that is no number is refused.
addParameters_(doc, p) ==
    /\ Cardinality(Nodes(doc, p)) <= 1
    /\ \A i \in Nodes(doc, p) :
          LET e == doc.parameters[i]
          IN  /\ Given(e.cfName) /\ e.whole
              /\ e.offset # NotANumber
              /\ Len(e.places) <= 1
              /\ \A place \in Range(e.places) : Given(place.cfName) /\ IsNumber(place.value)

\* The document is read without an exception; elements of parameters the
\* program does not know are never looked for.
Fit(doc, known) ==
    /\ doc.parsed
    /\ addGlobalAttributes_(doc)
    /\ addDirectTransferVariables_(doc)
    /\ addExtraDimensions_(doc)
    /\ addExtraVariables_(doc)
    /\ \A p \in known : addParameters_(doc, p)

-----------------------------------------------------------------------------
directTransferVariables(doc) == Range(doc.transfers)

\* Elements for the same dimension put their values together.
dimensionValues(doc) ==
    [d \in {e.cfName : e \in Range(doc.dimensions)} |->
        UNION {Range(e.values) : e \in {f \in Range(doc.dimensions) : f.cfName = d}}]

extraVariables(doc) == {e.cfName : e \in Range(doc.variables)}

FimexDataSpecification(e) ==
    [cfName |-> e.cfName,
     offset |-> IF e.offset = NotGiven THEN 0 ELSE e.offset,
     dimension |-> IF e.places = << >> THEN NoDimension ELSE e.places[1].cfName,
     value |-> IF e.places = << >> THEN 0 ELSE e.places[1].value]

translations_(doc, known) ==
    [p \in {q \in known : Nodes(doc, q) # {}} |->
        FimexDataSpecification(doc.parameters[CHOOSE i \in Nodes(doc, p) : TRUE])]

=============================================================================
