----------------------------- MODULE CommandLine -----------------------------
(***************************************************************************)
(* parse_cli_args and main of src/main.cpp: the arguments are read from    *)
(* left to right into CliOptions, and main picks the handler.  All         *)
(* spellings of an option are modelled; any other string is an argument    *)
(* for the command.                                                        *)
(***************************************************************************)
EXTENDS Integers, FiniteSetsExt, SequencesExt

CONSTANTS
  ArgumentLists,  \* what may follow the program's name
  NoValue         \* an option that was not given

ASSUME ArgumentsAssumption == ArgumentLists \subseteq Seq(STRING) /\ NoValue \notin STRING

\* True of TLA+, but not known to the provers.
ASSUME LiteralsAreStrings == {"", "."} \subseteq STRING

HelpWords == {"-h", "--help", "help"}
VersionWords == {"-V", "--version", "version"}
QuietFlags == {"-q", "--quiet"}
VerboseFlags == {"-v", "--verbose"}
JsonFlags == {"--json"}
OutputOptions == {"-o", "--output"}
AlgorithmOptions == {"-a", "--algo", "--algorithm"}
AlgorithmNames == {"rle", "huffman", "auto"}

Options == HelpWords \cup VersionWords \cup QuietFlags \cup VerboseFlags \cup JsonFlags
             \cup OutputOptions \cup AlgorithmOptions

VARIABLES
  args,    \* the arguments
  idx,     \* the next one to read
  opt,     \* CliOptions
  stage,   \* "parsing", "parsed", "refused" or "dispatched"
  outcome  \* what main does: print something or call a handler

vars == <<args, idx, opt, stage, outcome>>

CliOptions ==
  [command : STRING, target : STRING,
   output : STRING \cup {NoValue}, algorithm : STRING \cup {NoValue},
   json : BOOLEAN, quiet : BOOLEAN, verbose : BOOLEAN, help : BOOLEAN, version : BOOLEAN]

NoOptions ==
  [command |-> "", target |-> "", output |-> NoValue, algorithm |-> NoValue,
   json |-> FALSE, quiet |-> FALSE, verbose |-> FALSE, help |-> FALSE, version |-> FALSE]

ParseInit ==
  /\ args \in ArgumentLists
  /\ idx = 1
  /\ opt = NoOptions
  /\ stage = "parsing"
  /\ outcome = "none"

Reading(words) == stage = "parsing" /\ idx <= Len(args) /\ args[idx] \in words

Finish(p) == stage' = p /\ UNCHANGED <<args, outcome>>

Advance(n) == idx' = idx + n /\ UNCHANGED <<args, stage, outcome>>

-----------------------------------------------------------------------------
\* Nothing after a help or version word is read.
AskHelp ==
  /\ Reading(HelpWords)
  /\ opt' = [opt EXCEPT !.help = TRUE]
  /\ Finish("parsed")
  /\ UNCHANGED idx

AskVersion ==
  /\ Reading(VersionWords)
  /\ opt' = [opt EXCEPT !.version = TRUE]
  /\ Finish("parsed")
  /\ UNCHANGED idx

\* Mutant: a flag takes the next argument with it.
SetFlagAndSkip ==
  /\ \/ Reading(QuietFlags) /\ opt' = [opt EXCEPT !.quiet = TRUE]
     \/ Reading(VerboseFlags) /\ opt' = [opt EXCEPT !.verbose = TRUE]
     \/ Reading(JsonFlags) /\ opt' = [opt EXCEPT !.json = TRUE]
  /\ Advance(2)

SetFlag ==
  /\ \/ Reading(QuietFlags) /\ opt' = [opt EXCEPT !.quiet = TRUE]
     \/ Reading(VerboseFlags) /\ opt' = [opt EXCEPT !.verbose = TRUE]
     \/ Reading(JsonFlags) /\ opt' = [opt EXCEPT !.json = TRUE]
  /\ Advance(1)

\* Mutant: the value is read again as an argument.
TakeOutputOnly ==
  /\ Reading(OutputOptions) /\ idx < Len(args)
  /\ opt' = [opt EXCEPT !.output = args[idx + 1]]
  /\ Advance(1)

\* Whatever follows is the value, also another option.
TakeOutput ==
  /\ Reading(OutputOptions) /\ idx < Len(args)
  /\ opt' = [opt EXCEPT !.output = args[idx + 1]]
  /\ Advance(2)

TakeAlgorithm ==
  /\ Reading(AlgorithmOptions) /\ idx < Len(args)
  /\ opt' = [opt EXCEPT !.algorithm = args[idx + 1]]
  /\ Advance(2)

MissingValue ==
  /\ Reading(OutputOptions \cup AlgorithmOptions) /\ idx = Len(args)
  /\ Finish("refused")
  /\ UNCHANGED <<idx, opt>>

\* An argument that is no option.
ReadingPositional == stage = "parsing" /\ idx <= Len(args) /\ args[idx] \notin Options

TakeCommand ==
  /\ ReadingPositional /\ opt.command = ""
  /\ opt' = [opt EXCEPT !.command = args[idx]]
  /\ Advance(1)

TakeTarget ==
  /\ ReadingPositional /\ opt.command # "" /\ opt.target = ""
  /\ opt' = [opt EXCEPT !.target = args[idx]]
  /\ Advance(1)

\* Mutant: the name of an algorithm replaces the one given before.
IsLegacyAlgorithmAlways == args[idx] \in AlgorithmNames

\* "lacuna compress input.txt rle"
IsLegacyAlgorithm == opt.algorithm = NoValue /\ args[idx] \in AlgorithmNames

TakeLegacyAlgorithm ==
  /\ ReadingPositional /\ opt.command # "" /\ opt.target # "" /\ IsLegacyAlgorithm
  /\ opt' = [opt EXCEPT !.algorithm = args[idx]]
  /\ Advance(1)

Unexpected ==
  /\ ReadingPositional /\ opt.command # "" /\ opt.target # "" /\ ~IsLegacyAlgorithm
  /\ Finish("refused")
  /\ UNCHANGED <<idx, opt>>

EndOfArguments ==
  /\ stage = "parsing" /\ idx > Len(args)
  /\ Finish("parsed")
  /\ UNCHANGED <<idx, opt>>

-----------------------------------------------------------------------------
Handlers == {"compress", "decompress", "info", "benchmark"}

\* The names main knows a handler by.
Names(handler) ==
  CASE handler = "compress" -> {"compress", "c"}
    [] handler = "decompress" -> {"decompress", "d"}
    [] handler = "info" -> {"info", "i"}
    [] handler = "benchmark" -> {"benchmark", "bench", "b"}

Choice ==
  IF opt.version THEN "version"
  ELSE IF opt.help THEN "help"
  ELSE IF opt.command = "" THEN "onboarding"
  ELSE IF \E handler \in Handlers : opt.command \in Names(handler)
    THEN CHOOSE handler \in Handlers : opt.command \in Names(handler)
  ELSE "unknown command"

\* The directory a benchmark without target works on.
WorkingDirectory == "."

Dispatch ==
  /\ stage = "parsed"
  /\ outcome' = Choice
  /\ opt' = IF Choice = "benchmark" /\ opt.target = ""
              THEN [opt EXCEPT !.target = WorkingDirectory]
              ELSE opt
  /\ stage' = "dispatched"
  /\ UNCHANGED <<args, idx>>

ParseNext ==
  \/ AskHelp \/ AskVersion
  \/ SetFlag
  \/ TakeOutput \/ TakeAlgorithm \/ MissingValue
  \/ TakeCommand \/ TakeTarget \/ TakeLegacyAlgorithm \/ Unexpected
  \/ EndOfArguments
  \/ Dispatch

ParseSpec == ParseInit /\ [][ParseNext]_vars

-----------------------------------------------------------------------------
ParseTypeOK ==
  /\ args \in ArgumentLists
  /\ idx \in 1 .. Len(args) + 1
  /\ opt \in CliOptions
  /\ stage \in {"parsing", "parsed", "refused", "dispatched"}
  /\ outcome \in Handlers \cup {"none", "version", "help", "onboarding", "unknown command"}

\* What a command line means, said without reading it step by step.  A value is
\* what follows an option that takes one and is not a value itself.
IsValue[p \in 1 .. Len(args)] ==
  p > 1 /\ args[p - 1] \in OutputOptions \cup AlgorithmOptions /\ ~IsValue[p - 1]

\* All of these are sets of positions; n bounds them from above.
Bare(words, n) == {p \in 1 .. n - 1 : args[p] \in words /\ ~IsValue[p]}

ValuesOf(options, n) == {p \in 2 .. n - 1 : args[p - 1] \in options /\ IsValue[p]}

Positionals(n) == {p \in 1 .. n - 1 : args[p] \notin Options /\ ~IsValue[p]}

First(positions) == {p \in positions : \A q \in positions : p <= q}

\* Command and target are the first two that are not empty.
Named(n) == {p \in Positionals(n) : args[p] # ""}

CommandPlace(n) == First(Named(n))

TargetPlace(n) == First(Named(n) \ CommandPlace(n))

Extras(n) == {p \in Positionals(n) : \E q \in TargetPlace(n) : q < p}

\* The positions that name an algorithm: values of -a, and a third argument.
AlgorithmsGiven(n) == ValuesOf(AlgorithmOptions, n) \cup Extras(n)

WordAt(places) == IF places = {} THEN "" ELSE args[Min(places)]

LastOf(positions) == IF positions = {} THEN NoValue ELSE args[Max(positions)]

End == Len(args) + 1

\* What stands before the first help or version word counts.
Stop == Min(Bare(HelpWords \cup VersionWords, End) \cup {End})

\* Refused are an option without its value and an argument too many: anything
\* behind the target but the name of an algorithm where none was given yet.
IsRefused ==
  \/ Stop = End /\ Len(args) \in Bare(OutputOptions \cup AlgorithmOptions, End)
  \/ \E p \in Extras(Stop) :
       args[p] \notin AlgorithmNames \/ \E q \in AlgorithmsGiven(Stop) : q < p

\* A command line is refused exactly when the definition above says so, and
\* never for what stands behind a help word (main.cpp:138-151, 165-171).
RefusedForCause == stage # "parsing" => (stage = "refused" <=> IsRefused)

\* What the handler gets is what was written: values are never taken for
\* arguments or options, flags count wherever they stand, the last value given
\* for an option is used, and empty arguments are skipped (main.cpp:110-174).
\* Who asks for help or the version runs no command, and gets what is asked for
\* first (main.cpp:114-121, 504-512).
ReadAsWritten ==
  /\ outcome # "none" /\ Stop # End =>
       outcome = IF args[Stop] \in HelpWords THEN "help" ELSE "version"
  /\ outcome \in Handlers =>
       LET command == WordAt(CommandPlace(End))
           target == WordAt(TargetPlace(End))
       IN  /\ opt.quiet = (Bare(QuietFlags, End) # {})
           /\ opt.verbose = (Bare(VerboseFlags, End) # {})
           /\ opt.json = (Bare(JsonFlags, End) # {})
           /\ opt.output = LastOf(ValuesOf(OutputOptions, End))
           /\ opt.algorithm = LastOf(AlgorithmsGiven(End))
           /\ opt.command = command /\ command \in Names(outcome)
           /\ opt.target = target \/ (target = "" /\ outcome = "benchmark" /\ opt.target = ".")
=============================================================================
