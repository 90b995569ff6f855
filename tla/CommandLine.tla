---------------------------- MODULE CommandLine ----------------------------
(***************************************************************************)
(* What the server and the display make of their command lines: getopt     *)
(* takes the options one after the other, the program reads their values,  *)
(* the names of the teams behind getopt's back, and validates the whole.   *)
(*                                                                         *)
(* An argument is a word, or a flag and what is written against it:        *)
(* [flag |-> "x", word |-> "10"] is "-x10", [flag |-> "x", word |->        *)
(* "empty"] is "-x", and [flag |-> "none", word |-> "10"] is "10".         *)
(***************************************************************************)
EXTENDS Integers, Sequences

CONSTANTS
    Words,        \* what an argument may be without its dash and letter, nothing included
    Stol,         \* the number std::stol reads at the start of a word, 0 if it throws
    Lines,        \* the command lines, without the program's name
    LocalHost,    \* "127.0.0.1"
    IntSpan,      \* 2^32: how many values an int has
    PortSpan,     \* 2^16: how many values a port has
    MinSide,      \* 10
    MaxSide,      \* 42
    MaxClients,   \* 20
    MaxTeams,     \* 8
    DefaultFreq   \* 100

NumberFlags == {"p", "x", "y", "c", "f"}

\* "dash" is "-" alone, "end" is "--", "other" any letter neither program knows.
Argument ==
    [flag : NumberFlags \cup {"n", "h", "other", "none", "dash", "end", "help"}, word : Words]

ASSUME CommandLineAssumption ==
    /\ {"empty", "GRAPHIC", LocalHost} \subseteq Words /\ Stol \in [Words -> Int]
    /\ Lines \subseteq Seq(Argument)
    /\ {IntSpan, PortSpan, DefaultFreq} \subseteq Nat \ {0}
    /\ {MinSide, MaxSide, MaxClients, MaxTeams} \subseteq Nat

VARIABLES
    program,  \* "server" or "gui"
    argv,     \* the command line
    optind,   \* getopt's place in it
    config,   \* ServerConfig or GuiConfig, a member per letter
    reading   \* "usage", "options", "validate"; then "help", "refused" or "accepted"

commandLineVars == <<program, argv, optind, config, reading>>

Plain(word) == [flag |-> "none", word |-> word]

ServerFlags == NumberFlags \cup {"n"}
GuiFlags    == {"p", "h"}
Flags       == IF program = "server" THEN ServerFlags ELSE GuiFlags

ServerConfig == [p |-> 0, x |-> 0, y |-> 0, n |-> <<>>, c |-> 0, f |-> DefaultFreq]
GuiConfig    == [p |-> 0, h |-> Plain(LocalHost)]

CommandLineInit ==
    /\ program \in {"server", "gui"} /\ argv \in Lines
    /\ config = IF program = "server" THEN ServerConfig ELSE GuiConfig
    /\ optind = 1 /\ reading = "usage"

\* Wherever it stands, a value or a name included.
AsksForHelp == \E i \in DOMAIN argv : argv[i].flag = "help"

HandleUsage ==
    /\ reading = "usage"
    /\ reading' = IF AsksForHelp THEN "help" ELSE "options"
    /\ UNCHANGED <<program, argv, optind, config>>

-----------------------------------------------------------------------------
(* getopt.  It passes over what is not an option; what it permutes lies    *)
(* behind optind, so the copy the wrapper keeps is right from there on.    *)

Passed(a) == a.flag \in {"none", "dash"}

Reaches(i) == ~Passed(argv[i]) /\ \A k \in optind .. i - 1 : Passed(argv[k])

\* The option at i has the rest of its argument for a value, or the next one, whatever that is.
HasValue(i) == argv[i].word # "empty" \/ i < Len(argv)
OptArg(i)   == IF argv[i].word # "empty" THEN Plain(argv[i].word) ELSE argv[i + 1]
After(i)    == IF argv[i].word # "empty" THEN i + 1 ELSE i + 2

NextOption(i, flags) ==
    reading = "options" /\ Reaches(i) /\ argv[i].flag \in flags \cap Flags /\ HasValue(i)

\* What is given behind a dash is no positive number.
ToInt(n)  == ((n + IntSpan \div 2) % IntSpan) - IntSpan \div 2
Number(a) == IF a.flag = "none" THEN ToInt(Stol[a.word]) ELSE 0

\* A port has 16 bits, the other numbers 32.
Stored(flag, n) == IF flag = "p" THEN n % PortSpan ELSE n

ReadNumber(i) ==
    /\ NextOption(i, NumberFlags) /\ Number(OptArg(i)) > 0
    /\ config' = [config EXCEPT ![argv[i].flag] = Stored(argv[i].flag, Number(OptArg(i)))]
    /\ optind' = After(i)
    /\ UNCHANGED <<program, argv, reading>>

RefuseNumber(i) ==
    /\ NextOption(i, NumberFlags) /\ Number(OptArg(i)) <= 0
    /\ reading' = "refused"
    /\ UNCHANGED <<program, argv, optind, config>>

ReadMachine(i) ==
    /\ NextOption(i, {"h"})
    /\ config' = [config EXCEPT !.h = OptArg(i)]
    /\ optind' = After(i)
    /\ UNCHANGED <<program, argv, reading>>

\* The words from the one after the option up to the next dash.
MultiArgs_WithoutFirst(i, end) == SubSeq(argv, After(i), end - 1)

MultiArgs(i, end) == <<OptArg(i)>> \o SubSeq(argv, After(i), end - 1)

IsName(a) == a.flag = "none" /\ a.word # "empty"

ReadNames(i) ==
    /\ NextOption(i, {"n"})
    /\ \E end \in After(i) .. Len(argv) + 1 :
          /\ \A k \in After(i) .. end - 1 : IsName(argv[k])
          /\ end <= Len(argv) => argv[end].flag # "none"
          /\ config' = [config EXCEPT !.n = MultiArgs(i, end)]
          /\ optind' = end
    /\ UNCHANGED <<program, argv, reading>>

\* getMultiArgs looks at the first character of each word: an empty one throws.
RefuseNames(i) ==
    /\ NextOption(i, {"n"})
    /\ \E end \in After(i) .. Len(argv) :
          /\ \A k \in After(i) .. end - 1 : IsName(argv[k])
          /\ argv[end] = Plain("empty")
    /\ reading' = "refused"
    /\ UNCHANGED <<program, argv, optind, config>>

RefuseOption(i) ==
    /\ reading = "options" /\ Reaches(i) /\ argv[i].flag # "end"
    /\ argv[i].flag \notin Flags \/ ~HasValue(i)
    /\ reading' = "refused"
    /\ UNCHANGED <<program, argv, optind, config>>

EndOfOptions ==
    /\ reading = "options"
    /\ \/ \A i \in optind .. Len(argv) : Passed(argv[i])
       \/ \E i \in optind .. Len(argv) : Reaches(i) /\ argv[i].flag = "end"
    /\ reading' = "validate"
    /\ UNCHANGED <<program, argv, optind, config>>

-----------------------------------------------------------------------------
(* Validation.                                                             *)

ServerFits(c) ==
    /\ c.p > 0 /\ c.x > 0 /\ c.y > 0 /\ c.c > 0
    /\ Len(c.n) <= MaxTeams /\ c.c <= MaxClients
    /\ {c.x, c.y} \subseteq MinSide .. MaxSide
    /\ c.n # <<>> /\ \A k \in DOMAIN c.n : c.n[k] # Plain("GRAPHIC")

GuiFits_Unchecked(c) == TRUE

GuiFits(c) == c.p > 0

Fits(c) == IF program = "server" THEN ServerFits(c) ELSE GuiFits(c)

Validate ==
    /\ reading = "validate"
    /\ reading' = IF Fits(config) THEN "accepted" ELSE "refused"
    /\ UNCHANGED <<program, argv, optind, config>>

CommandLineNext ==
    \/ HandleUsage \/ EndOfOptions \/ Validate
    \/ \E i \in optind .. Len(argv) :
          \/ ReadNumber(i) \/ RefuseNumber(i) \/ ReadMachine(i)
          \/ ReadNames(i) \/ RefuseNames(i) \/ RefuseOption(i)

CommandLineSpec == CommandLineInit /\ [][CommandLineNext]_commandLineVars

-----------------------------------------------------------------------------
(* Properties.                                                             *)

\* What is accepted is what the rest of the server takes for granted: a map with sides
\* within the limits, a frequency that is not 0, and for both programs a port that is not
\* 0 either, though a number is found positive before it is cut to the width of a port.
ConfigIsPlayable ==
    reading = "accepted" =>
        /\ config.p \in 1 .. PortSpan - 1
        /\ program = "server" =>
              /\ {config.x, config.y} \subseteq (MinSide .. MaxSide) \ {0}
              /\ config.c \in 1 .. MaxClients /\ config.f \in Nat \ {0}
              /\ Len(config.n) \in 1 .. MaxTeams

\* A line is in form if every flag is known and followed by what it needs, and its numbers fit.
Given(flag) == {i \in DOMAIN argv : argv[i].flag = flag}
Value(i)    == IF argv[i].word # "empty" THEN argv[i].word ELSE argv[i + 1].word

InForm ==
    /\ \A i \in DOMAIN argv :
          IF argv[i].flag = "none" THEN argv[i].word # "empty"
          ELSE argv[i].flag \in Flags /\ (argv[i].word # "empty" \/ (i < Len(argv) /\ argv[i + 1].flag = "none"))
    /\ \A flag \in NumberFlags : \A i \in Given(flag) :
          /\ Stol[Value(i)] < IntSpan \div 2 /\ Stol[Value(i)] >= -(IntSpan \div 2)
          /\ flag = "p" => Stol[Value(i)] < PortSpan

\* The last of several flags counts, and a flag that is not given leaves its default.
Meant(flag, default, Read(_)) ==
    IF Given(flag) = {} THEN default
    ELSE Read(CHOOSE i \in Given(flag) : \A k \in Given(flag) : k <= i)

NumberAt(i)  == Stol[Value(i)]
MachineAt(i) == Plain(Value(i))

NamesAt(i) ==
    LET end == CHOOSE n \in 0 .. Len(argv) - i :
                   /\ \A k \in i + 1 .. i + n : argv[k].flag = "none"
                   /\ i + n = Len(argv) \/ argv[i + n + 1].flag # "none"
        own == IF argv[i].word = "empty" THEN <<>> ELSE <<MachineAt(i)>>
    IN own \o SubSeq(argv, i + 1, i + end)

MeantConfig ==
    [letter \in DOMAIN config |->
        CASE letter = "n" -> Meant("n", <<>>, NamesAt)
          [] letter = "h" -> Meant("h", Plain(LocalHost), MachineAt)
          [] letter = "f" -> Meant("f", DefaultFreq, NumberAt)
          [] OTHER -> Meant(letter, 0, NumberAt)]

\* A line in form is accepted exactly if all its numbers are positive and what it says is
\* valid, and then the program has what it says: in whichever order the flags come, with
\* words nobody asked for between them, and with the names of the teams, which getopt
\* never sees, taken neither for more nor for less than they are.
LineMeansWhatItSays ==
    reading \in {"refused", "accepted"} /\ InForm =>
        /\ reading = "accepted" <=>
              /\ \A flag \in NumberFlags : \A i \in Given(flag) : NumberAt(i) > 0
              /\ Fits(MeantConfig)
        /\ reading = "accepted" => config = MeantConfig

=============================================================================
