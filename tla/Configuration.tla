---------------------------- MODULE Configuration ----------------------------
(***************************************************************************)
(* ProbabilityGenerationConfiguration: what the program is told to do.  The *)
(* command line and then the configuration file are stored in one map, in   *)
(* which an option keeps the values it has got from the one that gave it    *)
(* first, and only then the values are looked at.                           *)
(*                                                                          *)
(* Abstractions.  A text is the values it gives to each option, in order,   *)
(* and the set of the options whose values cannot be interpreted, those     *)
(* that stand there twice and may not included.  Names of files are left    *)
(* out.                                                                     *)
(***************************************************************************)
EXTENDS WeatherParameters, Integers, Functions

CONSTANTS
    IntMax            \* the largest int

Option == {"fileType", "timesteps", "excludePercentiles", "excludeSimplifiedProbabilities",
           "exclude", "include", "logLevel"}

\* parsed is FALSE if there is something that is no option at all.
Text(t) ==
    /\ t.parsed \in BOOLEAN
    /\ t.unfit \subseteq Option
    /\ DOMAIN t.options = Option
    /\ \A option \in {"exclude", "include"} : t.options[option] \in Seq(STRING)
    /\ t.options.fileType \in Seq({"wdb", "felt", "netcdf"})
    /\ t.options.logLevel \in Seq(STRING)
    /\ t.options.timesteps \in Seq(0 .. IntMax)
    /\ t.options.excludePercentiles \in Seq(BOOLEAN)
    /\ t.options.excludeSimplifiedProbabilities \in Seq(BOOLEAN)

\* A command line, with the configuration file the program finds: there need not
\* be one at the default place; one that is named must not be missing or a directory.
CommandLine(w) ==
    /\ Text(w)
    /\ w.help \in BOOLEAN                  \* --help or --version
    /\ w.file.kind \in {"missing", "unusable", "text"}
    /\ w.file.kind = "text" => Text(w.file)

\* store: what is final from an earlier call is skipped, fit or not.
Final(t) == {option \in Option : t.options[option] # << >>} \cup t.unfit
store(t, final) == t.parsed /\ t.unfit \subseteq final

\* Bug variant of Stored: the configuration file goes before the command line.
StoredFileFirst(w) ==
    [option \in Option |->
        IF w.file.kind = "text" /\ w.file.options[option] # << >> THEN w.file.options[option]
        ELSE w.options[option]]

\* The values in the map; none for an option that is not there.
Stored(w) ==
    [option \in Option |->
        IF w.file.kind = "text" /\ option \notin Final(w) THEN w.file.options[option]
        ELSE w.options[option]]

\* Both can be stored; only then anything is looked at.
Readable(w) ==
    /\ store(w, {})
    /\ w.file.kind # "unusable"
    /\ w.file.kind = "text" => store(w.file, Final(w))

KnownLevel(w) ==
    Range(Stored(w).logLevel) \subseteq {"off", "fatal", "error", "warn", "info", "debug"}

Named(words) == IF "all" \in Range(words) THEN Group ELSE Range(words)

\* The groups that are marked: everything excluded is, before anything is included
\* again.  A name that is not a group marks nothing, see Known.
Excluded(w) == Group \cap (Named(Stored(w).exclude) \ Named(Stored(w).include))

Known(words) == Range(words) \subseteq Group \cup {"all"}

Control(w) ==
    [excluded |-> Excluded(w),
     excludePercentiles |-> Stored(w).excludePercentiles = <<TRUE>>,
     excludeSimplifiedProbabilities |-> Stored(w).excludeSimplifiedProbabilities = <<TRUE>>,
     numberOfHoursToGenerate |->
         IF Stored(w).timesteps = << >> THEN IntMax ELSE Stored(w).timesteps[1]]

=============================================================================
