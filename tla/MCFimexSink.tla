----------------------------- MODULE MCFimexSink -----------------------------
(* Small parameter files in the manner of those under etc/, and sources for  *)
(* them: the usual ones, and others with one thing that is not as usual.     *)
EXTENDS FimexSink

Parameters == <<"CloudCover", "YrSymbol", "Cloud10", "Cloud90">>

-----------------------------------------------------------------------------
(* Parameter files *)

Plain(p, c, hours) ==
    [identifier |-> p, cfName |-> c, offset |-> hours, places |-> << >>, whole |-> TRUE]
Percentile(p, v) ==
    [Plain(p, "percentiles", NotGiven) EXCEPT
        !.places = <<[cfName |-> "percentile", value |-> v]>>]

\* The dimension is declared in two parts; one element is of no known parameter.
Usual ==
    [parsed |-> TRUE, globals |-> TRUE,
     transfers |-> <<"height">>,
     dimensions |-> <<[cfName |-> "percentile", values |-> <<90>>, whole |-> TRUE],
                      [cfName |-> "percentile", values |-> <<10, 90>>, whole |-> TRUE]>>,
     variables |-> <<[cfName |-> "bounds", numbers |-> TRUE, whole |-> TRUE]>>,
     parameters |-> <<Plain("CloudCover", "clouds", NotGiven), Plain("YrSymbol", "symbol", 6),
                      Percentile("Cloud10", 10), Percentile("Cloud90", 90),
                      Plain("Fog", "fog", NotANumber)>>]

With(r, e) == [Usual EXCEPT !.parameters[r] = e]
Symbol(c) == With(2, Plain("YrSymbol", c, 6))

\* Refused when it is read.
Unfit ==
    {[Usual EXCEPT !.parsed = FALSE], [Usual EXCEPT !.globals = FALSE],
     [Usual EXCEPT !.transfers = <<"">>],
     [Usual EXCEPT !.dimensions[1].values = <<NotANumber>>],
     [Usual EXCEPT !.variables[1].numbers = FALSE],
     Symbol(""),
     With(2, Plain("YrSymbol", "symbol", NotANumber)),
     With(2, Plain("CloudCover", "clouds", 0)),
     With(3, [Percentile("Cloud10", 10) EXCEPT !.places = @ \o @]),
     With(3, Percentile("Cloud10", NotGiven))}

\* Read, but a place or a name is not what it should be.
Odd ==
    {With(3, Percentile("Cloud10", 20)),
     [Usual EXCEPT !.dimensions = << >>],
     [Usual EXCEPT !.dimensions[1].cfName = "x"],
     [Usual EXCEPT !.transfers = <<"height", "symbol">>],
     Symbol("height"), Symbol("bounds"), Symbol("percentile"), Symbol("projection_2"),
     With(1, Plain("Fog", "clouds", 0)), With(2, Plain("Fog", "symbol", 0))}

MCDocuments == {Usual} \cup Unfit \cup Odd

MCTranslations == {translations_(doc, Range(Parameters)) : doc \in MCDocuments \ Unfit}
MCDimensionLists == {dimensionValues(doc) : doc \in MCDocuments \ Unfit}

-----------------------------------------------------------------------------
(* Sources *)

Variable(name, shape) == [name |-> name, shape |-> shape, projection |-> FALSE]
Projection(name) == [name |-> name, shape |-> {}, projection |-> TRUE]

Ordinary ==
    [variables |-> <<Variable("clouds", {"time", "x"}), Projection("projection_1"),
                     Variable("height", {"x"}), Variable("time", {"time"}),
                     Variable("x", {"x"})>>,
     dimensions |-> {"time", "x"}, unlimited |-> TRUE, withAxes |-> {"clouds", "symbol"}]

\* The second variable is the last projection.
TwoProjections == [Ordinary EXCEPT !.variables[1] = Projection("projection_2")]

MCSources ==
    {Ordinary, TwoProjections,
     [Ordinary EXCEPT !.unlimited = FALSE],
     [Ordinary EXCEPT !.withAxes = {}],
     [Ordinary EXCEPT !.dimensions = @ \cup {"percentile"}],
     [Ordinary EXCEPT !.variables[3].shape = {"time", "x"}],
     [Ordinary EXCEPT !.variables[4] = Variable("hour", {"time"})],
     [Ordinary EXCEPT !.variables[3].shape = {"time", "x"},
                      !.variables[4] = Variable("hour", {"time"})]}

\* Half hours: 0, 6, 9 and 12 hours.  Nothing is valid six hours after 9 or 12.
Times == <<0, 12, 18, 24>>

\* Too few, none or some of the steps.
MCGarbage == {-1, 0, 2}

\* One thing is not as usual, and then the end is before the last time; or the
\* symbols have the name of the first of two projections.
MCInit ==
    /\ SinkInit
    /\ \/ document = Usual \/ source = Ordinary
       \/ document = Symbol("projection_2") /\ source = TwoProjections
    /\ (document = Usual /\ source = Ordinary) \/ numberOfHours = 10

MCSpec == MCInit /\ [][SinkNext]_sinkVars

=============================================================================
