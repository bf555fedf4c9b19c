---------------------------- MODULE CommandLine ----------------------------
(***************************************************************************)
(* src/src/main.asm and src/src/cli.asm: from the argument vector to one   *)
(* call of a command, or to the usage text.  The decimal parser of         *)
(* --max-depth runs a digit at a time, on words that wrap.                 *)
(***************************************************************************)
EXTENDS CheckedRanges, Sequences

CONSTANTS Vectors,         \* the argument vectors under study, without argv[0]
          SignedMax,       \* the largest signed word
          DefaultDepth,    \* GADGET_DEFAULT_MAX_DEPTH
          DepthLimit       \* GADGET_MAX_DEPTH_LIMIT

(***************************************************************************)
(* An argument is its text and, for the parser, its characters: a digit or *)
(* NotDigit.                                                               *)
(***************************************************************************)
NotDigit == -1
Argument == [text : STRING, chars : Seq({NotDigit} \cup 0 .. 9)]

CommandLineAssumption ==
    /\ SignedMax \in Nat /\ WordMax = 2 * SignedMax + 1
    /\ DepthLimit \in 1 .. SignedMax
    /\ DefaultDepth \in 1 .. DepthLimit
    /\ Vectors \subseteq Seq(Argument)

VARIABLES args, pc,
          at,              \* RDI of cli_parse_u64: characters read
          rax,             \* the accumulated value
          outcome          \* what the process does, once it is decided

vars == <<args, pc, at, rax, outcome>>

-----------------------------------------------------------------------------
Argc == Len(args) + 1
Is(i, text) == args[i].text = text        \* cstr_eq
IsFlag(i) == Is(i, "--max-depth") \/ Is(i, "--format")

Undecided == [does |-> "undecided"]
Usage(exit) == [does |-> "usage", exit |-> exit]
Version == [does |-> "version", exit |-> 0]
Run(command, format, depth, i) ==
    [does |-> "run", command |-> command, format |-> format, depth |-> depth, target |-> i]

Decide(result) == pc' = "done" /\ outcome' = result /\ UNCHANGED <<args, at, rax>>

Scans == Argc >= 2 /\ (Is(1, "gadgets") \/ Is(1, "analyze"))

\* Where the digits of --max-depth are, and where the format is.
OneFlagDepth == Argc = 5 /\ Is(2, "--max-depth")
OneFlagFormat == Argc = 5 /\ ~Is(2, "--max-depth") /\ Is(2, "--format")
FormatThenDepth == Argc = 7 /\ Is(2, "--format") /\ Is(4, "--max-depth")
DepthThenFormat == Argc = 7 /\ ~Is(2, "--format") /\ Is(2, "--max-depth") /\ Is(4, "--format")

ParsesDepth == OneFlagDepth \/ FormatThenDepth \/ DepthThenFormat
DepthAt == IF FormatThenDepth THEN 5 ELSE 3
FormatAt == IF DepthThenFormat THEN 5 ELSE 3

Chars == args[DepthAt].chars

-----------------------------------------------------------------------------
\* The commands without options; info and mitigations look at one argument only.
Dispatch ==
    /\ pc = "dispatch"
    /\ \/ Argc < 2 /\ Decide(Usage(2))
       \/ Argc >= 2 /\ Is(1, "help") /\ Decide(Usage(0))
       \/ Argc >= 2 /\ Is(1, "version") /\ Decide(Version)
       \/ \E command \in {"info", "mitigations"} :
             /\ Argc >= 2 /\ Is(1, command)
             /\ Decide(IF Argc < 3 THEN Usage(2) ELSE Run(command, "text", 0, 2))
       \/ /\ Argc >= 2
          /\ ~Scans
          /\ \A known \in {"help", "version", "info", "mitigations"} : ~Is(1, known)
          /\ Decide(Usage(2))

\* gadgets and analyze take three, five or seven words, and no others.
WrongShape ==
    /\ pc = "dispatch"
    /\ Scans
    /\ \/ Argc \notin {3, 5, 7}
       \/ Argc = 3 /\ IsFlag(2)
       \/ Argc = 5 /\ ~OneFlagDepth /\ ~OneFlagFormat
       \/ Argc = 7 /\ ~FormatThenDepth /\ ~DepthThenFormat
    /\ Decide(Usage(2))

DefaultRun ==
    /\ pc = "dispatch"
    /\ Scans
    /\ Argc = 3 /\ ~IsFlag(2)
    /\ Decide(Run(args[1].text, "text", DefaultDepth, 2))

FormatOf(i, depth, target) ==
    IF Is(i, "json") \/ Is(i, "text")
    THEN Run(args[1].text, args[i].text, depth, target)
    ELSE Usage(2)

FormatRun ==
    /\ pc = "dispatch"
    /\ Scans
    /\ OneFlagFormat
    /\ Decide(FormatOf(3, DefaultDepth, 4))

BeginParse ==
    /\ pc = "dispatch"
    /\ Scans
    /\ ParsesDepth
    /\ at' = 0 /\ rax' = 0
    /\ pc' = "parse"
    /\ UNCHANGED <<args, outcome>>

-----------------------------------------------------------------------------
\* imul sets OF when the signed product does not fit.
Signed(word) == IF word > SignedMax THEN word - (WordMax + 1) ELSE word
\* Defect: the overflow of the product is not looked at.
TimesTenUnchecked(word) == FALSE

TimesTenOverflows(word) == 10 * Signed(word) > SignedMax \/ 10 * Signed(word) < -(SignedMax + 1)

ReadsDigit ==
    /\ at < Len(Chars)
    /\ Chars[at + 1] # NotDigit
    /\ ~TimesTenOverflows(rax)
    /\ ~Carries(WordProduct(rax, 10), Chars[at + 1])

ParseDigit ==
    /\ pc = "parse"
    /\ ReadsDigit
    /\ rax' = WordSum(WordProduct(rax, 10), Chars[at + 1])
    /\ at' = at + 1
    /\ UNCHANGED <<args, pc, outcome>>

ParseFails ==
    /\ pc = "parse"
    /\ IF at < Len(Chars) THEN ~ReadsDigit ELSE at = 0
    /\ Decide(Usage(2))

DepthRefused ==
    /\ pc = "parse"
    /\ at = Len(Chars) /\ at # 0
    /\ rax = 0 \/ rax > DepthLimit
    /\ Decide(Usage(2))

DepthAccepted ==
    /\ pc = "parse"
    /\ at = Len(Chars) /\ at # 0
    /\ ~(rax = 0 \/ rax > DepthLimit)
    /\ Decide(IF OneFlagDepth THEN Run(args[1].text, "text", rax, 4)
              ELSE FormatOf(FormatAt, rax, 6))

Init ==
    /\ args \in Vectors
    /\ pc = "dispatch" /\ at = 0 /\ rax = 0
    /\ outcome = Undecided

Step == Dispatch \/ WrongShape \/ DefaultRun \/ FormatRun \/ BeginParse
        \/ ParseDigit \/ ParseFails \/ DepthRefused \/ DepthAccepted

-----------------------------------------------------------------------------
(***************************************************************************)
(* The command line of docs/cli-contract.md, as a grammar: a command, at   *)
(* most one --format and one --max-depth in either order, and the target.  *)
(* Numbers are numbers here, with no width.                                *)
(***************************************************************************)
PrefixValues(chars) ==
    LET value[n \in 0 .. Len(chars)] == IF n = 0 THEN 0 ELSE 10 * value[n - 1] + chars[n]
    IN  value

DecimalValue(chars) == PrefixValues(chars)[Len(chars)]

IsDepth(argument) ==
    /\ argument.chars # <<>>
    /\ \A i \in DOMAIN argument.chars : argument.chars[i] # NotDigit
    /\ DecimalValue(argument.chars) \in 1 .. DepthLimit

IsFormat(argument) == argument.text \in {"json", "text"}

ValidOption(i) ==
    \/ Is(i, "--max-depth") /\ IsDepth(args[i + 1])
    \/ Is(i, "--format") /\ IsFormat(args[i + 1])

OptionStarts == {i \in 2 .. Len(args) - 1 : i % 2 = 0}

Sentence ==
    /\ Scans
    /\ Len(args) \in {2, 4, 6}
    /\ \A i \in OptionStarts : ValidOption(i)
    /\ \A i, j \in OptionStarts : i # j => args[i].text # args[j].text
    /\ Len(args) = 2 => ~IsFlag(2)

ValueOf(flag, default, Read(_)) ==
    LET uses == {i \in OptionStarts : Is(i, flag)}
    IN  IF uses = {} THEN default ELSE Read(args[(CHOOSE i \in uses : TRUE) + 1])

Meaning ==
    IF Sentence
    THEN Run(args[1].text,
             ValueOf("--format", "text", LAMBDA a : a.text),
             ValueOf("--max-depth", DefaultDepth, LAMBDA a : DecimalValue(a.chars)),
             Len(args))
    ELSE Usage(2)

(***************************************************************************)
(* The branches of main.asm accept exactly the sentences of the grammar,   *)
(* and hand the command the format, the depth and the target that were     *)
(* written, whichever order the flags come in.                             *)
(***************************************************************************)
AnswersTheGrammar == pc = "done" /\ Scans => outcome = Meaning
=============================================================================
