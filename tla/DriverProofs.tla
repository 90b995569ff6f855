---------------------------- MODULE DriverProofs ----------------------------
(***************************************************************************)
(* The small programs around the game, each on its own.                    *)
(*                                                                         *)
(* The clock of the server (GameLoop) keeps time for every frequency,      *)
(* every resolution of the clock and however long the events of a turn     *)
(* take.  The checked property speaks of the moment at which ticks are     *)
(* made up for.  LoopInv carries it round the turn: how far the clock may  *)
(* be ahead of the target at each of its steps, and until when poll sleeps.*)
(*                                                                         *)
(* Of a command line (CommandLine) what is accepted is fit to play with:   *)
(* the assumptions World and GameLoop make on their constants are those    *)
(* that the program checks.  And it is what the line says: the invariant   *)
(* says it of the arguments getopt has come past.                          *)
(*                                                                         *)
(* The orders of the AI's geometry (Steering) lead a player where they are *)
(* meant to, on a board of any size: TileInv and JoinInv say, at each      *)
(* order carried out, where the remaining ones still have to lead.         *)
(*                                                                         *)
(* The connection of an AI implements CommandPipe, for any number of       *)
(* commands, any limit on those that wait and any number of lines that     *)
(* nobody asked for: AnswersArePaired.  What the steps do not say by       *)
(* themselves, and PairingInv adds: nothing is held before the handshake   *)
(* is over, a number stands for one command wherever it is kept, and a     *)
(* line about a level that answers something answers an Incantation.       *)
(* Without the last the reader could drop it.                              *)
(***************************************************************************)
EXTENDS GameLoop, CommandLine, Steering, Connection, WellFoundedInduction, SequenceTheorems, TLAPS

-----------------------------------------------------------------------------
(* The clock.                                                              *)

LoopTypeOK ==
    /\ now \in Nat /\ seen \in Nat /\ born \in Nat /\ nextTickTarget \in Nat
    /\ freq \in Freqs
    /\ due \in {-1} \cup 1 .. MaxDue
    /\ pc \in {"top", "poll", "ticks", "events", "flush"}
    /\ wake \in {-1} \cup Nat
    /\ cut \in BOOLEAN

\* poll sleeps without a limit exactly when nobody lives.
WakeInv ==
    /\ pc = "poll" => (wake = -1 <=> due = -1)
    /\ pc = "ticks" => wake # -1
    /\ pc = "events" /\ wake = -1 => due = -1

\* How far time is ahead of the target, unless an exception got in the way.
PunctualInv ==
    ~cut =>
        /\ pc \in {"top", "poll", "flush"} => now < nextTickTarget + HandlingTime
        /\ pc = "poll" /\ due # -1 => wake < TargetTime + HandlingTime
        /\ pc = "ticks" /\ due # -1 => seen < TargetTime + HandlingTime
        /\ pc = "events" /\ wake # -1 => now < nextTickTarget
        /\ due # -1 => born < nextTickTarget + HandlingTime

LoopInv ==
    /\ LoopTypeOK
    /\ born <= now
    /\ pc \in {"ticks", "events"} => seen = now
    /\ WakeInv
    /\ PunctualInv

LoopSpec == LoopInit /\ [][LoopNext]_clock

-----------------------------------------------------------------------------
(* The unit of time, whatever it is rounded to, is a natural number; only  *)
(* that much of the division is needed.                                    *)

LEMMA UnitIsNatural ==
    ASSUME NEW f \in Freqs
    PROVE  TimeUnit(f) \in Nat
BY GameLoopAssumption DEF TimeUnit

LEMMA TimesNatural ==
    ASSUME NEW u \in Nat, NEW d \in Nat
    PROVE  /\ u * d \in Nat
           /\ u * (d + 1) = u * d + u
OBVIOUS

LEMMA SoonEnough ==
    ASSUME NEW a \in Nat, NEW b \in Nat, NEW h \in Nat, h >= 1
    PROVE  /\ a <= b => a < b + h
           /\ \A c \in Nat : c <= a /\ a < b + h => c < b + h
OBVIOUS

LEMMA LoopInitInv == LoopInit => LoopInv
<1> SUFFICES ASSUME LoopInit PROVE LoopInv
  OBVIOUS
<1>1. nextTickTarget \in Nat
  BY UnitIsNatural DEF LoopInit
<1>2. LoopTypeOK
  BY <1>1 DEF LoopInit, LoopTypeOK
<1>3. PunctualInv
  BY <1>1, GameLoopAssumption DEF LoopInit, PunctualInv
<1> QED
  BY <1>2, <1>3 DEF LoopInit, LoopInv, WakeInv

LEMMA LoopStep == LoopInv /\ [LoopNext]_clock => LoopInv'
<1> SUFFICES ASSUME LoopInv, [LoopNext]_clock PROVE LoopInv'
  OBVIOUS
<1> USE GameLoopAssumption
<1> DEFINE u == TimeUnit(freq)
<1>0. HandlingTime \in Nat /\ HandlingTime >= 1
  OBVIOUS
<1>1. \A f \in Freqs : TimeUnit(f) \in Nat
  BY UnitIsNatural
<1>2. u \in Nat
  BY <1>1 DEF LoopInv, LoopTypeOK
<1>3. due # -1 => /\ u * (due - 1) \in Nat
                  /\ TargetTime = nextTickTarget + u * (due - 1)
  BY <1>2, TimesNatural DEF TargetTime, LoopInv, LoopTypeOK
<1> HIDE DEF u
<1>4. CASE Top
  <2>1. TargetTime' = TargetTime
    BY <1>4 DEF Top, TargetTime
  <2> QED
    BY <1>2, <1>3, <1>4, <2>1 DEF Top, LoopInv, LoopTypeOK, WakeInv, PunctualInv
<1>5. CASE PollNetwork
  <2>1. TargetTime' = TargetTime
    BY <1>5 DEF PollNetwork, TargetTime
  <2> QED
    BY <1>2, <1>3, <1>5, <2>1 DEF PollNetwork, LoopInv, LoopTypeOK, WakeInv, PunctualInv
<1>6. CASE WorldUpdate
  <2>0. seen \in Nat /\ nextTickTarget \in Nat
    BY DEF LoopInv, LoopTypeOK
  <2>1. nextTickTarget' = nextTickTarget + u
    BY <1>6 DEF WorldUpdate, Advance, u
  <2>2. LoopTypeOK'
    BY <1>2, <1>6, <2>1 DEF WorldUpdate, Passes, Happens, LoopInv, LoopTypeOK
  <2>3. ~cut /\ due' # -1 => seen < TargetTime' + HandlingTime
    <3> SUFFICES ASSUME ~cut, due' # -1 PROVE seen < TargetTime' + HandlingTime
      OBVIOUS
    <3>1. u * (due' - 1) \in Nat /\ TargetTime' = nextTickTarget' + u * (due' - 1)
      BY <1>2, <1>6, <2>2, TimesNatural DEF WorldUpdate, TargetTime, LoopTypeOK, u
    <3>2. due # -1 /\ seen < nextTickTarget + u * (due - 1) + HandlingTime
      BY <1>3, <1>6 DEF WorldUpdate, Passes, Happens, LoopInv, LoopTypeOK, PunctualInv
    <3>3. CASE due > 1
      <4>1. due' \in {due - 1, due} /\ due \in Nat /\ due - 2 \in Nat /\ due - 1 = (due - 2) + 1
        BY <1>6, <3>3 DEF WorldUpdate, Passes, LoopInv, LoopTypeOK
      <4> DEFINE d == due - 2
      <4> HIDE DEF d
      <4>2. due - 1 = d + 1 /\ d \in Nat
        BY <4>1 DEF d
      <4>3. u * (d + 1) = u * d + u /\ u * d \in Nat
        BY <1>2, <4>2, TimesNatural
      <4>4. u * (due - 1) = u * d + u
        BY <4>2, <4>3
      <4>5. CASE due' = due - 1
        <5>1. u * (due' - 1) = u * d
          BY <4>1, <4>5 DEF d
        <5> QED
          BY <1>2, <2>0, <2>1, <3>1, <3>2, <4>4, <4>3, <5>1
      <4>6. CASE due' = due
        <5>1. u * (due' - 1) = u * (due - 1)
          BY <4>6
        <5> QED
          BY <1>0, <1>2, <2>0, <2>1, <3>1, <3>2, <4>4, <4>3, <5>1
      <4> QED
        BY <4>1, <4>5, <4>6
    <3>4. CASE ~(due > 1)
      <4>1. due = 1 /\ u * (due - 1) = 0
        BY <1>2, <3>2, <3>4 DEF LoopInv, LoopTypeOK
      <4> QED
        BY <1>2, <2>0, <2>1, <3>1, <3>2, <4>1
    <3> QED
      BY <3>3, <3>4
  <2>4. ~cut /\ due' # -1 => born < nextTickTarget' + HandlingTime
    BY <1>2, <1>6, <2>1 DEF WorldUpdate, Passes, Happens, LoopInv, LoopTypeOK, PunctualInv
  <2> QED
    BY <1>6, <2>2, <2>3, <2>4 DEF WorldUpdate, LoopInv, LoopTypeOK, WakeInv, PunctualInv
<1>7. CASE UpdateThrows
  BY <1>2, <1>7 DEF UpdateThrows, Happens, LoopInv, LoopTypeOK, WakeInv, PunctualInv
<1>8. CASE TicksDone
  BY <1>2, <1>8 DEF TicksDone, LoopInv, LoopTypeOK, WakeInv, PunctualInv
<1>9. CASE Events
  <2>1. freq' \in Freqs /\ now' \in Nat /\ now <= now'
    BY <1>9 DEF Events, Handle, LoopInv, LoopTypeOK
  <2>2. nextTickTarget' \in Nat /\ (wake = -1 => now' <= nextTickTarget')
    BY <1>1, <1>9, <2>1 DEF Events, ResetTarget, LoopInv, LoopTypeOK
  <2>3. LoopTypeOK'
    BY <1>9, <2>1, <2>2 DEF Events, Handle, LoopInv, LoopTypeOK
  <2>4. born' <= now'
    BY <1>9, <2>1 DEF Events, Handle, LoopInv, LoopTypeOK
  <2>5. ~cut' => now' < nextTickTarget' + HandlingTime
    <3>1. CASE wake = -1
      <4>1. now' < nextTickTarget' + HandlingTime
        BY <1>0, <2>1, <2>2, <3>1, SoonEnough
      <4> QED
        BY <4>1
    <3>2. CASE wake # -1
      <4>1. now' <= now + HandlingTime /\ nextTickTarget' = nextTickTarget
        BY <1>9, <3>2 DEF Events, Handle, ResetTarget, LoopInv, LoopTypeOK
      <4>2. ~cut' => now < nextTickTarget
        BY <1>9, <3>2, Zenon DEF Events, LoopInv, PunctualInv
      <4>3. now \in Nat /\ nextTickTarget \in Nat
        BY DEF LoopInv, LoopTypeOK
      <4> QED
        BY <2>1, <4>1, <4>2, <4>3
    <3> QED
      BY <3>1, <3>2
  <2>6. PunctualInv'
    <3>1. now' < nextTickTarget' + HandlingTime => born' < nextTickTarget' + HandlingTime
      BY <1>0, <2>3, <2>4, SoonEnough DEF LoopTypeOK
    <3> QED
      BY <1>9, <2>5, <3>1 DEF Events, PunctualInv
  <2> QED
    BY <1>9, <2>3, <2>4, <2>6 DEF Events, LoopInv, WakeInv
<1>10. CASE EventsThrow
  <2>1. now' \in Nat /\ now <= now'
    BY <1>10 DEF EventsThrow, Handle, LoopInv, LoopTypeOK
  <2>2. LoopTypeOK'
    BY <1>10, <2>1 DEF EventsThrow, Handle, LoopInv, LoopTypeOK
  <2>3. born' <= now'
    BY <1>10, <2>1 DEF EventsThrow, Handle, LoopInv, LoopTypeOK
  <2>4. ~cut' => now' < nextTickTarget' + HandlingTime
    <3>1. now' <= now + HandlingTime /\ nextTickTarget' = nextTickTarget
      BY <1>10 DEF EventsThrow, Handle, LoopInv, LoopTypeOK
    <3>2. ~cut' => now < nextTickTarget
      BY <1>10, Zenon DEF EventsThrow, LoopInv, PunctualInv
    <3>3. now \in Nat /\ nextTickTarget \in Nat
      BY DEF LoopInv, LoopTypeOK
    <3> QED
      BY <2>1, <3>1, <3>2, <3>3
  <2>5. PunctualInv'
    <3>1. now' < nextTickTarget' + HandlingTime => born' < nextTickTarget' + HandlingTime
      BY <1>0, <2>2, <2>3, SoonEnough DEF LoopTypeOK
    <3> QED
      BY <1>10, <2>4, <3>1 DEF EventsThrow, PunctualInv
  <2> QED
    BY <1>10, <2>2, <2>3, <2>5 DEF EventsThrow, LoopInv, WakeInv
<1>11. CASE Flush
  BY <1>11 DEF Flush, LoopInv, LoopTypeOK, WakeInv, PunctualInv
<1>12. CASE UNCHANGED clock
  BY <1>12 DEF clock, LoopInv, LoopTypeOK, WakeInv, PunctualInv, TargetTime
<1> QED
  BY <1>4, <1>5, <1>6, <1>7, <1>8, <1>9, <1>10, <1>11, <1>12 DEF LoopNext

\* Core::loop never sleeps through what happens to a player, nor makes one live
\* through the time before it was born, by as much as the events of one turn take.
THEOREM ClockCorrect == LoopSpec => []TicksComeInTime
<1>1. LoopInv => TicksComeInTime
  <2> SUFFICES ASSUME LoopInv PROVE TicksComeInTime
    OBVIOUS
  <2>1. due = 1 => TargetTime = nextTickTarget
    <3>1. TimeUnit(freq) \in Nat
      BY UnitIsNatural DEF LoopInv, LoopTypeOK
    <3> QED
      BY <3>1 DEF TargetTime, LoopInv, LoopTypeOK
  <2> QED
    BY <2>1, GameLoopAssumption
    DEF LoopInv, LoopTypeOK, PunctualInv, TicksComeInTime, IdleTimeIsNotReplayed, HappensOnTime
<1> QED
  BY <1>1, LoopInitInv, LoopStep, PTL DEF LoopSpec

-----------------------------------------------------------------------------
(* Command lines: what is accepted.                                        *)

\* Only what validate leaves unchecked has to be carried along: a frequency is positive
\* from the start, and a port has 16 bits.
ConfigTypes ==
    /\ program \in {"server", "gui"}
    /\ program = "server" =>
          config \in [p : 0 .. PortSpan - 1, x : Int, y : Int, c : Int, f : Nat \ {0}, n : Seq(Argument)]
    /\ program = "gui" => config \in [p : 0 .. PortSpan - 1, h : Argument]

ConfigInv == /\ argv \in Seq(Argument) /\ optind \in Nat \ {0}
             /\ ConfigTypes /\ ConfigIsPlayable

\* An option's value is an argument of the line, or the rest of one.
LEMMA ValuesAreArguments ==
    ASSUME ConfigInv, NEW i \in optind .. Len(argv), HasValue(i)
    PROVE  /\ i \in DOMAIN argv /\ argv[i] \in Argument
           /\ OptArg(i) \in Argument /\ After(i) \in Nat \ {0} /\ After(i) <= Len(argv) + 1
<1>1. i \in 1 .. Len(argv) /\ argv \in Seq(Argument) /\ Len(argv) \in Nat
  BY DEF ConfigInv
<1>2. argv[i] \in Argument
  BY <1>1
<1>3. CASE argv[i].word # "empty"
  <2>1. Plain(argv[i].word) \in Argument
    BY <1>2 DEF Argument, Plain
  <2> QED BY <1>1, <1>2, <1>3, <2>1 DEF OptArg, After
<1>4. CASE argv[i].word = "empty"
  <2>1. i + 1 \in 1 .. Len(argv)
    BY <1>1, <1>4 DEF HasValue
  <2>2. argv[i + 1] \in Argument
    BY <1>1, <2>1
  <2> QED BY <1>1, <1>2, <1>4, <2>1, <2>2 DEF OptArg, After
<1> QED BY <1>3, <1>4

\* A number that is found positive is one, and what is stored of it is in range.
LEMMA NumbersAreStored ==
    ASSUME NEW a \in Argument, NEW flag \in NumberFlags, Number(a) > 0
    PROVE  /\ Number(a) \in Nat \ {0}
           /\ flag = "p" => Stored(flag, Number(a)) \in 0 .. PortSpan - 1
           /\ flag # "p" => Stored(flag, Number(a)) \in Nat \ {0}
<1>1. Number(a) \in Int
  <2>1. a.word \in Words
    BY DEF Argument
  <2>2. Stol[a.word] \in Int /\ IntSpan \in Nat \ {0}
    BY <2>1, CommandLineAssumption
  <2>3. IntSpan \div 2 \in Int /\ (Stol[a.word] + IntSpan \div 2) % IntSpan \in Int
    BY <2>2
  <2> QED BY <2>2, <2>3 DEF Number, ToInt
<1>2. \A n \in Nat : n % PortSpan \in 0 .. PortSpan - 1
  BY CommandLineAssumption
<1> QED BY <1>1, <1>2 DEF Stored

LEMMA ConfigStep ==
    ASSUME ConfigInv, [CommandLineNext]_commandLineVars
    PROVE  ConfigInv'
<1>1. argv \in Seq(Argument) /\ optind \in Nat \ {0} /\ ConfigTypes /\ ConfigIsPlayable
  BY DEF ConfigInv
<1>2. argv' = argv /\ program' = program
  BY DEF CommandLineNext, HandleUsage, EndOfOptions, Validate, ReadNumber, RefuseNumber,
         ReadMachine, ReadNames, RefuseNames, RefuseOption, commandLineVars
<1>3. ASSUME config' = config, optind' = optind, reading' # "accepted" \/ reading' = reading
      PROVE  ConfigInv'
  BY <1>1, <1>2, <1>3 DEF ConfigInv, ConfigTypes, ConfigIsPlayable
<1>4. ASSUME reading = "options", reading' = reading, optind' \in Nat \ {0}, ConfigTypes'
      PROVE  ConfigInv'
  BY <1>1, <1>2, <1>4 DEF ConfigInv, ConfigIsPlayable
<1>5. ASSUME NEW i \in optind .. Len(argv), ReadNumber(i)
      PROVE  ConfigInv'
  <2>1. HasValue(i) /\ argv[i].flag \in NumberFlags /\ argv[i].flag \in Flags
    BY <1>5 DEF ReadNumber, NextOption
  <2>2. OptArg(i) \in Argument /\ After(i) \in Nat \ {0}
    BY <2>1, ValuesAreArguments
  <2>3. /\ argv[i].flag = "p" => Stored(argv[i].flag, Number(OptArg(i))) \in 0 .. PortSpan - 1
        /\ argv[i].flag # "p" => Stored(argv[i].flag, Number(OptArg(i))) \in Nat \ {0}
    BY <1>5, <2>1, <2>2, NumbersAreStored DEF ReadNumber
  <2>4. config' = [config EXCEPT ![argv[i].flag] = Stored(argv[i].flag, Number(OptArg(i)))]
    BY <1>5 DEF ReadNumber
  <2>5. ConfigTypes'
    <3>1. CASE program = "server"
      <4>1. argv[i].flag \in {"p", "x", "y", "c", "f"}
        BY <2>1 DEF NumberFlags
      <4> QED BY <1>1, <1>2, <2>3, <2>4, <3>1, <4>1 DEF ConfigTypes
    <3>2. CASE program = "gui"
      <4>1. argv[i].flag = "p"
        BY <2>1, <3>2 DEF Flags, GuiFlags, NumberFlags
      <4> QED BY <1>1, <1>2, <2>3, <2>4, <3>2, <4>1 DEF ConfigTypes
    <3> QED BY <1>1, <3>1, <3>2 DEF ConfigTypes
  <2> QED BY <1>4, <1>5, <2>2, <2>5 DEF ReadNumber, NextOption
<1>6. ASSUME NEW i \in optind .. Len(argv), ReadMachine(i)
      PROVE  ConfigInv'
  <2>1. HasValue(i) /\ argv[i].flag = "h" /\ argv[i].flag \in Flags
    BY <1>6 DEF ReadMachine, NextOption
  <2>2. OptArg(i) \in Argument /\ After(i) \in Nat \ {0}
    BY <2>1, ValuesAreArguments
  <2>3. program = "gui"
    BY <1>1, <2>1 DEF Flags, ServerFlags, NumberFlags, ConfigTypes
  <2>4. ConfigTypes'
    BY <1>1, <1>2, <1>6, <2>2, <2>3 DEF ConfigTypes, ReadMachine
  <2> QED BY <1>4, <1>6, <2>2, <2>4 DEF ReadMachine, NextOption
<1>7. ASSUME NEW i \in optind .. Len(argv), ReadNames(i)
      PROVE  ConfigInv'
  <2>1. HasValue(i) /\ argv[i].flag = "n" /\ argv[i].flag \in Flags
    BY <1>7 DEF ReadNames, NextOption
  <2>2. OptArg(i) \in Argument /\ After(i) \in Nat \ {0} /\ After(i) <= Len(argv) + 1
    BY <2>1, ValuesAreArguments
  <2>3. program = "server"
    BY <1>1, <2>1 DEF Flags, GuiFlags, ConfigTypes
  <2>4. PICK end \in After(i) .. Len(argv) + 1 :
            config' = [config EXCEPT !.n = MultiArgs(i, end)] /\ optind' = end
    BY <1>7 DEF ReadNames
  <2>5. end \in Nat \ {0} /\ end - 1 <= Len(argv)
    BY <1>1, <2>2, <2>4
  <2>6. SubSeq(argv, After(i), end - 1) \in Seq(Argument)
    BY <1>1, <2>2, <2>5
  <2>7. MultiArgs(i, end) \in Seq(Argument)
    BY <2>2, <2>6 DEF MultiArgs
  <2>8. ConfigTypes'
    BY <1>1, <1>2, <2>3, <2>4, <2>7 DEF ConfigTypes
  <2> QED BY <1>4, <1>7, <2>4, <2>5, <2>8 DEF ReadNames, NextOption
<1>8. ASSUME Validate PROVE ConfigInv'
  <2>1. config' = config /\ optind' = optind /\ (reading' = "accepted" => Fits(config))
    BY <1>8 DEF Validate
  <2>2. ConfigTypes'
    BY <1>1, <1>2, <2>1 DEF ConfigTypes
  <2>3. ConfigIsPlayable'
    <3> SUFFICES ASSUME reading' = "accepted"
                 PROVE  /\ config.p \in 1 .. PortSpan - 1
                        /\ program = "server" =>
                              /\ {config.x, config.y} \subseteq (MinSide .. MaxSide) \ {0}
                              /\ config.c \in 1 .. MaxClients /\ config.f \in Nat \ {0}
                              /\ Len(config.n) \in 1 .. MaxTeams
      BY <1>2, <2>1 DEF ConfigIsPlayable
    <3>1. CASE program = "gui"
      BY <1>1, <2>1, <3>1 DEF Fits, GuiFits, ConfigTypes
    <3>2. CASE program = "server"
      <4>1. /\ config.p > 0 /\ config.x > 0 /\ config.y > 0 /\ config.c > 0
            /\ Len(config.n) <= MaxTeams /\ config.c <= MaxClients
            /\ {config.x, config.y} \subseteq MinSide .. MaxSide /\ config.n # <<>>
        BY <2>1, <3>2 DEF Fits, ServerFits
      <4>2. /\ config.p \in 0 .. PortSpan - 1 /\ config.c \in Int /\ config.f \in Nat \ {0}
            /\ config.x \in Int /\ config.y \in Int /\ config.n \in Seq(Argument)
        BY <1>1, <3>2 DEF ConfigTypes
      <4>3. MinSide \in Nat /\ MaxSide \in Nat /\ MaxClients \in Nat /\ MaxTeams \in Nat /\ PortSpan \in Nat
        BY CommandLineAssumption
      <4>4. {config.x, config.y} \subseteq (MinSide .. MaxSide) \ {0}
        BY <4>1, <4>2, <4>3
      <4>5. Len(config.n) \in 1 .. MaxTeams
        BY <4>1, <4>2, <4>3
      <4>6. config.p \in 1 .. PortSpan - 1 /\ config.c \in 1 .. MaxClients
        BY <4>1, <4>2, <4>3
      <4> QED BY <4>2, <4>4, <4>5, <4>6
    <3> QED BY <1>1, <3>1, <3>2 DEF ConfigTypes
  <2> QED BY <1>1, <1>2, <2>1, <2>2, <2>3 DEF ConfigInv
<1>9. ASSUME NEW i \in optind .. Len(argv), RefuseNumber(i) \/ RefuseNames(i) \/ RefuseOption(i)
      PROVE  ConfigInv'
  BY <1>3, <1>9 DEF RefuseNumber, RefuseNames, RefuseOption
<1>10. CASE HandleUsage \/ EndOfOptions \/ UNCHANGED commandLineVars
  BY <1>3, <1>10 DEF HandleUsage, EndOfOptions, commandLineVars
<1> QED BY <1>5, <1>6, <1>7, <1>8, <1>9, <1>10 DEF CommandLineNext

\* For every command line and every width of the numbers: what the server and the display
\* accept is what they are built for, so that nothing World or GameLoop assumes of a map, a
\* list of teams or a frequency is left to whoever types it.
THEOREM CommandLineCorrect == CommandLineSpec => []ConfigIsPlayable
<1>1. CommandLineInit => ConfigInv
  <2> SUFFICES ASSUME CommandLineInit PROVE ConfigInv
    OBVIOUS
  <2>1. argv \in Seq(Argument) /\ optind = 1 /\ reading = "usage"
    BY CommandLineAssumption DEF CommandLineInit
  <2>2. Plain(LocalHost) \in Argument
    BY CommandLineAssumption DEF Argument, Plain
  <2>3. ConfigTypes
    BY <2>2, CommandLineAssumption
       DEF CommandLineInit, ConfigTypes, ServerConfig, GuiConfig
  <2> QED BY <2>1, <2>3 DEF ConfigInv, ConfigIsPlayable
<1>2. ConfigInv /\ [CommandLineNext]_commandLineVars => ConfigInv'
  BY ConfigStep
<1>3. ConfigInv => ConfigIsPlayable
  BY DEF ConfigInv
<1> QED BY <1>1, <1>2, <1>3, PTL DEF CommandLineSpec

-----------------------------------------------------------------------------
(* Command lines: what is accepted is what the line says.                  *)

\* The flags getopt has come past.
Before(flag) == {i \in Given(flag) : i < optind}

SoFar(flag, default, Read(_)) ==
    \/ Before(flag) = {} /\ config[flag] = default
    \/ \E i \in Before(flag) : (\A k \in Before(flag) : k <= i) /\ config[flag] = Read(i)

ReadSoFar ==
    /\ \A flag \in NumberFlags \cap Flags :
          /\ SoFar(flag, IF flag = "f" THEN DefaultFreq ELSE 0, NumberAt)
          /\ \A i \in Before(flag) : NumberAt(i) > 0
    /\ "n" \in Flags => SoFar("n", <<>>, NamesAt)
    /\ "h" \in Flags => SoFar("h", Plain(LocalHost), MachineAt)

NothingLeft == \A i \in DOMAIN argv : i >= optind => argv[i].flag = "none"

MeaningInv ==
    /\ argv \in Seq(Argument) /\ optind \in Nat \ {0}
    /\ program \in {"server", "gui"}
    /\ DOMAIN config = Flags /\ config = [letter \in Flags |-> config[letter]]
    /\ reading \in {"usage", "options", "validate", "help", "refused", "accepted"}
    /\ InForm /\ reading \in {"usage", "options", "validate"} => ReadSoFar
    /\ InForm /\ reading = "validate" => NothingLeft
    /\ LineMeansWhatItSays

LEMMA SmallRemainder ==
    ASSUME NEW m \in Nat \ {0}, NEW n \in 0 .. m - 1
    PROVE  n % m = n
OBVIOUS

LEMMA SpansArePositive == IntSpan \in Nat \ {0} /\ PortSpan \in Nat \ {0}
BY CommandLineAssumption

\* A flag in form has a word for its value, its own or the next.
LEMMA FlagsInForm ==
    ASSUME MeaningInv, InForm, NEW i \in DOMAIN argv, argv[i].flag # "none"
    PROVE  /\ argv[i].flag \in Flags /\ argv[i].flag \notin {"dash", "end", "other", "help"}
           /\ HasValue(i) /\ OptArg(i) = Plain(Value(i))
           /\ Value(i) \in Words
           /\ After(i) \in {i + 1, i + 2}
           /\ After(i) = i + 2 => argv[i].word = "empty" /\ i + 1 \in DOMAIN argv /\ argv[i + 1].flag = "none"
           /\ After(i) = i + 1 => argv[i].word # "empty"
<1>1. argv \in Seq(Argument) /\ i \in 1 .. Len(argv) /\ argv[i] \in Argument
  BY DEF MeaningInv
<1>2. argv[i].flag \in Flags /\ (argv[i].word # "empty" \/ (i < Len(argv) /\ argv[i + 1].flag = "none"))
  BY DEF InForm
<1>3. argv[i].flag \notin {"dash", "end", "other", "help"}
  BY <1>2 DEF Flags, ServerFlags, GuiFlags, NumberFlags
<1>4. CASE argv[i].word # "empty"
  BY <1>1, <1>2, <1>3, <1>4 DEF HasValue, OptArg, Value, After, Argument, Plain
<1>5. CASE argv[i].word = "empty"
  <2>1. i + 1 \in DOMAIN argv /\ argv[i + 1] \in Argument /\ i < Len(argv) /\ argv[i + 1].flag = "none"
    BY <1>1, <1>2, <1>5
  <2>2. argv[i + 1] = Plain(argv[i + 1].word)
    BY <2>1 DEF Argument, Plain
  <2> QED
    BY <1>1, <1>2, <1>3, <1>5, <2>1, <2>2 DEF HasValue, OptArg, Value, After, Argument, Plain
<1> QED
  BY <1>4, <1>5

\* What std::stol reads is stored as it is, if it fits.
LEMMA NumbersFit ==
    ASSUME MeaningInv, InForm, NEW i \in DOMAIN argv, argv[i].flag \in NumberFlags
    PROVE  /\ NumberAt(i) \in Int
           /\ Number(OptArg(i)) = NumberAt(i)
           /\ NumberAt(i) > 0 => Stored(argv[i].flag, NumberAt(i)) = NumberAt(i)
<1>1. OptArg(i) = Plain(Value(i)) /\ Value(i) \in Words
  BY FlagsInForm DEF NumberFlags
<1>2. Stol[Value(i)] \in Int /\ IntSpan \in Nat \ {0} /\ PortSpan \in Nat \ {0}
  BY <1>1, CommandLineAssumption, SpansArePositive
<1>3. /\ Stol[Value(i)] < IntSpan \div 2 /\ Stol[Value(i)] >= -(IntSpan \div 2)
      /\ argv[i].flag = "p" => Stol[Value(i)] < PortSpan
  BY DEF InForm, Given
<1>4. ToInt(Stol[Value(i)]) = Stol[Value(i)]
  <2> DEFINE half == IntSpan \div 2
             n    == Stol[Value(i)]
  <2>1. half \in Nat /\ 2 * half <= IntSpan
    BY <1>2
  <2>2. n + half \in 0 .. IntSpan - 1
    BY <1>2, <1>3, <2>1
  <2>3. (n + half) % IntSpan = n + half
    BY <1>2, <2>2, SmallRemainder
  <2> QED
    BY <1>2, <2>1, <2>3 DEF ToInt
<1>5. Number(OptArg(i)) = NumberAt(i)
  BY <1>1, <1>4 DEF Number, NumberAt, Plain
<1>6. ASSUME NumberAt(i) > 0 PROVE Stored(argv[i].flag, NumberAt(i)) = NumberAt(i)
  <2>1. argv[i].flag = "p" => NumberAt(i) \in 0 .. PortSpan - 1
    BY <1>2, <1>3, <1>6 DEF NumberAt
  <2>2. argv[i].flag = "p" => NumberAt(i) % PortSpan = NumberAt(i)
    BY <1>2, <2>1, SmallRemainder
  <2> QED
    BY <2>2 DEF Stored
<1> QED
  BY <1>2, <1>5, <1>6 DEF NumberAt

\* The same line means the same.
LEMMA SameMeaning ==
    ASSUME argv' = argv, program' = program, DOMAIN config' = DOMAIN config
    PROVE  /\ InForm' <=> InForm
           /\ Flags' = Flags
           /\ MeantConfig' = MeantConfig
           /\ Fits(MeantConfig)' <=> Fits(MeantConfig)
           /\ \A flag : Given(flag)' = Given(flag)
           /\ \A i : NumberAt(i)' = NumberAt(i) /\ MachineAt(i)' = MachineAt(i) /\ NamesAt(i)' = NamesAt(i)
           /\ \A i : Value(i)' = Value(i)
<1>1. Flags' = Flags
  BY DEF Flags
<1>2. \A flag : Given(flag)' = Given(flag)
  BY DEF Given
<1>3. \A i : Value(i)' = Value(i)
  BY DEF Value
<1>4. \A i : NumberAt(i)' = NumberAt(i) /\ MachineAt(i)' = MachineAt(i)
  BY <1>3 DEF NumberAt, MachineAt
<1>5. \A i : NamesAt(i)' = NamesAt(i)
  BY <1>4 DEF NamesAt
<1>6. InForm' <=> InForm
  BY <1>1, <1>2, <1>3 DEF InForm
<1>7. MeantConfig' = MeantConfig
  BY DEF MeantConfig, Meant, Given, NamesAt, MachineAt, NumberAt, Value
<1>8. Fits(MeantConfig)' <=> Fits(MeantConfig)
  BY <1>7 DEF Fits
<1> QED
  BY <1>1, <1>2, <1>3, <1>4, <1>5, <1>6, <1>7, <1>8

LEMMA SameSoFar ==
    ASSUME ReadSoFar, UNCHANGED <<program, argv, optind, config>>
    PROVE  ReadSoFar'
<1>1. /\ Flags' = Flags /\ \A flag : Given(flag)' = Given(flag)
      /\ \A i : NumberAt(i)' = NumberAt(i) /\ MachineAt(i)' = MachineAt(i) /\ NamesAt(i)' = NamesAt(i)
  BY SameMeaning
<1>2. \A flag : Before(flag)' = Before(flag)
  BY <1>1 DEF Before
<1>3. ASSUME NEW flag \in NumberFlags \cap Flags
      PROVE  /\ SoFar(flag, IF flag = "f" THEN DefaultFreq ELSE 0, NumberAt)'
             /\ \A i \in Before(flag)' : NumberAt(i)' > 0
  <2>1. /\ SoFar(flag, IF flag = "f" THEN DefaultFreq ELSE 0, NumberAt)
        /\ \A i \in Before(flag) : NumberAt(i) > 0
    BY DEF ReadSoFar
  <2> QED
    BY <1>1, <1>2, <2>1 DEF SoFar
<1>4. "n" \in Flags => SoFar("n", <<>>, NamesAt)'
  BY <1>1, <1>2 DEF ReadSoFar, SoFar
<1>5. "h" \in Flags => SoFar("h", Plain(LocalHost), MachineAt)'
  BY <1>1, <1>2 DEF ReadSoFar, SoFar
<1> QED
  BY <1>1, <1>3, <1>4, <1>5 DEF ReadSoFar

\* Reading the option at i, of all the flags that one is come past.
LEMMA PastOption ==
    ASSUME MeaningInv, InForm, NEW i \in optind .. Len(argv), Reaches(i), argv' = argv,
           optind' \in Nat, optind' > i,
           \A k \in DOMAIN argv : k > i /\ k < optind' => argv[k].flag = "none",
           NEW flag, flag # "none"
    PROVE  Before(flag)' = IF argv[i].flag = flag THEN Before(flag) \cup {i} ELSE Before(flag)
<1>1. argv \in Seq(Argument) /\ optind \in Nat \ {0} /\ i \in DOMAIN argv /\ DOMAIN argv \subseteq Nat
  BY DEF MeaningInv
<1>2. \A k \in DOMAIN argv : k >= optind /\ k < i => argv[k].flag = "none"
  <2> TAKE k \in DOMAIN argv
  <2> SUFFICES ASSUME k >= optind, k < i, argv[k].flag # "none" PROVE FALSE
    OBVIOUS
  <2>1. Passed(argv[k])
    BY <1>1 DEF Reaches
  <2>2. argv[k].flag = "dash"
    BY <2>1 DEF Passed
  <2> QED
    BY <2>2, FlagsInForm
<1>3. Before(flag)' = {k \in Given(flag) : k < optind'}
  BY DEF Before, Given
<1>4. \A k \in Given(flag) : k < optind' <=> k < optind \/ k = i
  BY <1>1, <1>2 DEF Given
<1>5. i \in Given(flag) <=> argv[i].flag = flag
  BY <1>1 DEF Given
<1> QED
  BY <1>3, <1>4, <1>5 DEF Before

\* What an option gives replaces what was, and nothing else does.
LEMMA OptionCounts ==
    ASSUME MeaningInv, InForm, NEW i \in optind .. Len(argv), Reaches(i), argv' = argv, program' = program,
           DOMAIN config' = DOMAIN config,
           optind' \in Nat, optind' > i,
           \A k \in DOMAIN argv : k > i /\ k < optind' => argv[k].flag = "none",
           \A flag \in Flags : flag # argv[i].flag => config'[flag] = config[flag],
           argv[i].flag \in NumberFlags => config'[argv[i].flag] = NumberAt(i) /\ NumberAt(i) > 0,
           argv[i].flag = "n" => config'.n = NamesAt(i),
           argv[i].flag = "h" => config'.h = MachineAt(i),
           ReadSoFar
    PROVE  ReadSoFar'
<1>1. \A flag : flag # "none" => Before(flag)' = IF argv[i].flag = flag THEN Before(flag) \cup {i} ELSE Before(flag)
  BY PastOption
<1>2. /\ Flags' = Flags
      /\ \A k : NumberAt(k)' = NumberAt(k) /\ MachineAt(k)' = MachineAt(k) /\ NamesAt(k)' = NamesAt(k)
  BY SameMeaning
<1>3. \A flag : \A k \in Before(flag) : k <= i
  BY DEF Before, Given, MeaningInv
<1>4. ASSUME NEW flag \in NumberFlags \cap Flags
      PROVE  /\ SoFar(flag, IF flag = "f" THEN DefaultFreq ELSE 0, NumberAt)'
             /\ \A k \in Before(flag)' : NumberAt(k)' > 0
  <2>1. flag # "none"
    BY DEF NumberFlags
  <2>2. /\ SoFar(flag, IF flag = "f" THEN DefaultFreq ELSE 0, NumberAt)
        /\ \A k \in Before(flag) : NumberAt(k) > 0
    BY DEF ReadSoFar
  <2>3. CASE argv[i].flag = flag
    <3>1. Before(flag)' = Before(flag) \cup {i} /\ config'[flag] = NumberAt(i) /\ NumberAt(i) > 0
      BY <1>1, <2>1, <2>3
    <3>2. \A k \in Before(flag)' : k <= i
      BY <1>3, <3>1, i <= i
    <3> QED
      BY <1>2, <2>2, <3>1, <3>2 DEF SoFar
  <2>4. CASE argv[i].flag # flag
    <3>1. Before(flag)' = Before(flag) /\ config'[flag] = config[flag]
      BY <1>1, <2>1, <2>4
    <3> QED
      BY <1>2, <2>2, <3>1 DEF SoFar
  <2> QED
    BY <2>3, <2>4
<1>5. ASSUME "n" \in Flags
      PROVE  SoFar("n", <<>>, NamesAt)'
  <2>2. SoFar("n", <<>>, NamesAt)
    BY <1>5 DEF ReadSoFar
  <2>3. CASE argv[i].flag = "n"
    <3>1. Before("n")' = Before("n") \cup {i} /\ config'["n"] = NamesAt(i)
      BY <1>1, <2>3
    <3>2. \A k \in Before("n")' : k <= i
      BY <1>3, <3>1, i <= i
    <3> QED
      BY <1>2, <3>1, <3>2 DEF SoFar
  <2>4. CASE argv[i].flag # "n"
    <3>1. Before("n")' = Before("n") /\ config'["n"] = config["n"]
      BY <1>1, <1>5, <2>4
    <3> QED
      BY <1>2, <2>2, <3>1 DEF SoFar
  <2> QED
    BY <2>3, <2>4
<1>6. ASSUME "h" \in Flags
      PROVE  SoFar("h", Plain(LocalHost), MachineAt)'
  <2>2. SoFar("h", Plain(LocalHost), MachineAt)
    BY <1>6 DEF ReadSoFar
  <2>3. CASE argv[i].flag = "h"
    <3>1. Before("h")' = Before("h") \cup {i} /\ config'["h"] = MachineAt(i)
      BY <1>1, <2>3
    <3>2. \A k \in Before("h")' : k <= i
      BY <1>3, <3>1, i <= i
    <3> QED
      BY <1>2, <3>1, <3>2 DEF SoFar
  <2>4. CASE argv[i].flag # "h"
    <3>1. Before("h")' = Before("h") /\ config'["h"] = config["h"]
      BY <1>1, <1>6, <2>4
    <3> QED
      BY <1>2, <2>2, <3>1 DEF SoFar
  <2> QED
    BY <2>3, <2>4
<1> QED
  BY <1>2, <1>4, <1>5, <1>6 DEF ReadSoFar

LEMMA HeadAndRest ==
    ASSUME NEW S, NEW s \in Seq(S), NEW a \in 1 .. Len(s), NEW b \in a .. Len(s)
    PROVE  <<s[a]>> \o SubSeq(s, a + 1, b) = SubSeq(s, a, b)
OBVIOUS

\* The names getMultiArgs finds are those that the line gives.
LEMMA NamesAreRead ==
    ASSUME MeaningInv, InForm, NEW i \in DOMAIN argv, argv[i].flag = "n",
           NEW end \in After(i) .. Len(argv) + 1,
           \A k \in After(i) .. end - 1 : IsName(argv[k]),
           end <= Len(argv) => argv[end].flag # "none"
    PROVE  MultiArgs(i, end) = NamesAt(i)
<1>1. argv \in Seq(Argument) /\ i \in 1 .. Len(argv) /\ Len(argv) \in Nat
  BY DEF MeaningInv
<1>2. /\ HasValue(i) /\ OptArg(i) = Plain(Value(i)) /\ After(i) \in {i + 1, i + 2}
      /\ After(i) = i + 2 => argv[i].word = "empty" /\ i + 1 \in DOMAIN argv /\ argv[i + 1].flag = "none"
      /\ After(i) = i + 1 => argv[i].word # "empty"
  BY FlagsInForm
<1>3. end \in Nat /\ end > i /\ end <= Len(argv) + 1
  BY <1>1, <1>2
<1>4. \A k \in i + 1 .. end - 1 : argv[k].flag = "none"
  BY <1>1, <1>2, <1>3 DEF IsName
<1> DEFINE Ends(n) == /\ \A k \in i + 1 .. i + n : argv[k].flag = "none"
                      /\ i + n = Len(argv) \/ argv[i + n + 1].flag # "none"
           last == end - 1 - i
<1>0. i \in Int /\ i >= 1 /\ i <= Len(argv)
  BY <1>1
<1>5. last \in 0 .. Len(argv) - i /\ i + last = end - 1 /\ i + last + 1 = end
  BY ONLY <1>0, <1>1, <1>3, Len(argv) \in Nat
<1>6. Ends(last)
  <2>1. end - 1 = Len(argv) \/ end <= Len(argv)
    <3>1. Len(argv) \in Nat
      BY <1>1
    <3> QED
      BY ONLY <1>3, <3>1
  <2> HIDE DEF last
  <2> QED
    BY <1>3, <1>4, <1>5, <2>1
<1>7. ASSUME NEW n \in 0 .. Len(argv) - i, Ends(n) PROVE n = last
  <2>1. CASE n < last
    <3>1. n \in Int /\ n >= 0
      BY <1>1
    <3>2. i + n + 1 \in i + 1 .. end - 1 /\ i + n # Len(argv)
      BY ONLY <1>0, <1>1, <1>3, <2>1, <3>1
    <3> QED
      BY <1>4, <1>7, <3>2
  <2>2. CASE n > last
    <3>1. n \in Int /\ n <= Len(argv) - i
      BY <1>1
    <3>2. end \in i + 1 .. i + n /\ end <= Len(argv)
      BY ONLY <1>0, <1>1, <1>3, <2>2, <3>1
    <3> QED
      BY <1>7, <3>2
  <2> QED
    BY <1>1, <1>5, <2>1, <2>2
<1>8. (CHOOSE n \in 0 .. Len(argv) - i : Ends(n)) = last
  <2> HIDE DEF last, Ends
  <2> QED
    BY <1>5, <1>6, <1>7
<1> DEFINE own == IF argv[i].word = "empty" THEN <<>> ELSE <<MachineAt(i)>>
<1>9. NamesAt(i) = own \o SubSeq(argv, i + 1, i + last)
  BY <1>8 DEF NamesAt
<1>10. MultiArgs(i, end) = <<OptArg(i)>> \o SubSeq(argv, After(i), end - 1)
  BY DEF MultiArgs
<1>11. CASE argv[i].word # "empty"
  <2>1. OptArg(i) = MachineAt(i) /\ After(i) = i + 1
    BY <1>2, <1>11 DEF MachineAt
  <2> QED
    BY <1>5, <1>9, <1>10, <1>11, <2>1
<1>12. CASE argv[i].word = "empty"
  <2>1. OptArg(i) = argv[i + 1] /\ After(i) = i + 2 /\ end - 1 >= i + 1
    BY <1>1, <1>2, <1>12 DEF OptArg, After
  <2>2. <<argv[i + 1]>> \o SubSeq(argv, i + 2, end - 1) = SubSeq(argv, i + 1, end - 1)
    <3>1. i + 1 \in 1 .. Len(argv) /\ end - 1 \in i + 1 .. Len(argv) /\ i + 1 + 1 = i + 2
      BY ONLY <1>0, <1>1, <1>3, <2>1
    <3>2. <<argv[i + 1]>> \o SubSeq(argv, i + 1 + 1, end - 1) = SubSeq(argv, i + 1, end - 1)
      BY ONLY <1>1, <3>1, HeadAndRest
    <3> QED
      BY <3>1, <3>2
  <2>3. <<>> \o SubSeq(argv, i + 1, end - 1) = SubSeq(argv, i + 1, end - 1)
    BY <1>1, <1>3
  <2> QED
    BY <1>5, <1>9, <1>10, <1>12, <2>1, <2>2, <2>3
<1> QED
  BY <1>11, <1>12

\* Once the options are over, the last of each flag has been read.
LEMMA AllIsRead ==
    ASSUME MeaningInv, InForm, ReadSoFar, NothingLeft
    PROVE  /\ config = MeantConfig
           /\ \A flag \in NumberFlags : \A i \in Given(flag) : NumberAt(i) > 0
<1>1. argv \in Seq(Argument) /\ optind \in Nat /\ DOMAIN argv \subseteq Nat /\ DOMAIN config = Flags
  BY DEF MeaningInv
<1>2. ASSUME NEW flag, flag # "none" PROVE Given(flag) = Before(flag) /\ Given(flag) \subseteq Nat
  BY <1>1, <1>2 DEF Given, Before, NothingLeft
<1>3. ASSUME NEW flag \in Flags, flag # "none", NEW default, NEW Read(_), SoFar(flag, default, Read)
      PROVE  config[flag] = Meant(flag, default, Read)
  <2>1. CASE Before(flag) = {} /\ config[flag] = default
    BY <1>2, <1>3, <2>1 DEF Meant
  <2>2. CASE \E i \in Before(flag) : (\A k \in Before(flag) : k <= i) /\ config[flag] = Read(i)
    <3>1. PICK i \in Given(flag) : (\A k \in Given(flag) : k <= i) /\ config[flag] = Read(i)
      BY <1>2, <1>3, <2>2
    <3>2. \A j \in Given(flag) : (\A k \in Given(flag) : k <= j) => j = i
      BY <1>2, <1>3, <3>1
    <3>3. (CHOOSE j \in Given(flag) : \A k \in Given(flag) : k <= j) = i
      BY <3>1, <3>2
    <3> QED
      BY <3>1, <3>3 DEF Meant
  <2> QED
    BY <1>3, <2>1, <2>2 DEF SoFar
<1>4. ASSUME NEW flag \in NumberFlags, flag \in Flags
      PROVE  config[flag] = Meant(flag, IF flag = "f" THEN DefaultFreq ELSE 0, NumberAt)
  BY <1>3, <1>4 DEF ReadSoFar, NumberFlags
<1>5. "n" \in Flags => config["n"] = Meant("n", <<>>, NamesAt)
  BY <1>3 DEF ReadSoFar
<1>6. "h" \in Flags => config["h"] = Meant("h", Plain(LocalHost), MachineAt)
  BY <1>3 DEF ReadSoFar
<1>7. ASSUME NEW letter \in Flags PROVE config[letter] = MeantConfig[letter]
  <2>1. letter \in NumberFlags \cup {"n", "h"}
    BY DEF Flags, ServerFlags, GuiFlags, NumberFlags
  <2>2. CASE letter = "n"
    BY <1>1, <1>5, <2>2 DEF MeantConfig
  <2>3. CASE letter = "h"
    BY <1>1, <1>6, <2>3 DEF MeantConfig
  <2>4. CASE letter = "f"
    BY <1>1, <1>4, <2>4 DEF MeantConfig, NumberFlags
  <2>5. CASE letter \in {"p", "x", "y", "c"}
    BY <1>1, <1>4, <2>5 DEF MeantConfig, NumberFlags
  <2> QED
    BY <2>1, <2>2, <2>3, <2>4, <2>5 DEF NumberFlags
<1>8. MeantConfig = [letter \in Flags |-> MeantConfig[letter]]
  BY <1>1 DEF MeantConfig
<1>9. config = [letter \in Flags |-> config[letter]]
  BY DEF MeaningInv
<1>10. config = MeantConfig
  BY <1>7, <1>8, <1>9
<1>11. ASSUME NEW flag \in NumberFlags, NEW i \in Given(flag) PROVE NumberAt(i) > 0
  <2>1. flag # "none" /\ i \in DOMAIN argv /\ argv[i].flag = flag
    BY DEF NumberFlags, Given
  <2>2. flag \in Flags
    BY <2>1, FlagsInForm
  <2> QED
    BY <1>2, <2>1, <2>2 DEF ReadSoFar
<1> QED
  BY <1>10, <1>11

\* An option is read: in form, it is come past.
LEMMA ReadingKeepsMeaning ==
    ASSUME MeaningInv, NEW i \in optind .. Len(argv), reading = "options", reading' = reading,
           argv' = argv, program' = program, Reaches(i), argv[i].flag \in Flags, argv[i].flag # "none",
           optind' \in Nat, optind' > i,
           NEW new, config' = [config EXCEPT ![argv[i].flag] = new],
           InForm =>
              /\ \A k \in DOMAIN argv : k > i /\ k < optind' => argv[k].flag = "none"
              /\ argv[i].flag \in NumberFlags => new = NumberAt(i) /\ NumberAt(i) > 0
              /\ argv[i].flag = "n" => new = NamesAt(i)
              /\ argv[i].flag = "h" => new = MachineAt(i)
    PROVE  MeaningInv'
<1>1. DOMAIN config = Flags /\ config = [letter \in Flags |-> config[letter]] /\ program \in {"server", "gui"}
  BY DEF MeaningInv
<1>2. /\ DOMAIN config' = Flags /\ config' = [letter \in Flags |-> config'[letter]]
      /\ config'[argv[i].flag] = new /\ \A flag \in Flags : flag # argv[i].flag => config'[flag] = config[flag]
  BY <1>1
<1>3. InForm' <=> InForm
  BY <1>1, <1>2, SameMeaning
<1>4. Flags' = Flags
  BY DEF Flags
<1>5. InForm => ReadSoFar'
  <2> SUFFICES ASSUME InForm PROVE ReadSoFar'
    OBVIOUS
  <2>1. ReadSoFar
    BY DEF MeaningInv
  <2>2. /\ argv[i].flag \in NumberFlags => config'[argv[i].flag] = NumberAt(i) /\ NumberAt(i) > 0
        /\ argv[i].flag = "n" => config'.n = NamesAt(i)
        /\ argv[i].flag = "h" => config'.h = MachineAt(i)
    BY <1>2
  <2>3. DOMAIN config' = DOMAIN config
    BY <1>1, <1>2
  <2> QED
    BY <1>2, <2>1, <2>2, <2>3, OptionCounts
<1>6. LineMeansWhatItSays'
  BY DEF LineMeansWhatItSays
<1>7. optind' \in Nat \ {0} /\ argv' \in Seq(Argument)
  BY DEF MeaningInv
<1> QED
  BY <1>1, <1>2, <1>3, <1>4, <1>5, <1>6, <1>7 DEF MeaningInv

LEMMA NumbersKeepMeaning ==
    ASSUME MeaningInv, NEW i \in optind .. Len(argv), ReadNumber(i) \/ RefuseNumber(i)
    PROVE  MeaningInv'
<1>1. /\ argv \in Seq(Argument) /\ optind \in Nat \ {0} /\ i \in DOMAIN argv /\ i \in Nat
      /\ DOMAIN config = Flags
  BY DEF MeaningInv
<1>2. /\ reading = "options" /\ Reaches(i) /\ argv[i].flag \in NumberFlags /\ argv[i].flag \in Flags
      /\ argv[i].flag # "none" /\ argv' = argv /\ program' = program
  BY DEF ReadNumber, RefuseNumber, NextOption, NumberFlags
<1>3. CASE ReadNumber(i)
  <2> DEFINE new == Stored(argv[i].flag, Number(OptArg(i)))
  <2>1. /\ config' = [config EXCEPT ![argv[i].flag] = new] /\ optind' = After(i) /\ reading' = reading
        /\ Number(OptArg(i)) > 0
    BY <1>3 DEF ReadNumber
  <2>2. After(i) \in Nat /\ After(i) > i
    BY <1>1 DEF After
  <2>3. ASSUME InForm
        PROVE  /\ \A k \in DOMAIN argv : k > i /\ k < optind' => argv[k].flag = "none"
               /\ new = NumberAt(i) /\ NumberAt(i) > 0
    <3>1. new = NumberAt(i) /\ NumberAt(i) > 0
      BY <1>1, <1>2, <2>1, <2>3, NumbersFit
    <3>2. /\ After(i) \in {i + 1, i + 2}
          /\ After(i) = i + 2 => argv[i + 1].flag = "none"
      BY <1>1, <1>2, <2>3, FlagsInForm
    <3> QED
      BY <1>1, <2>1, <3>1, <3>2
  <2>4. argv[i].flag # "n" /\ argv[i].flag # "h"
    BY <1>2 DEF NumberFlags
  <2> HIDE DEF new
  <2> QED
    BY <1>2, <2>1, <2>2, <2>3, <2>4, ReadingKeepsMeaning
<1>4. CASE RefuseNumber(i)
  <2>1. reading' = "refused" /\ UNCHANGED <<program, argv, optind, config>> /\ Number(OptArg(i)) <= 0
    BY <1>4 DEF RefuseNumber
  <2>2. InForm' <=> InForm
    BY <2>1, SameMeaning
  <2>3. ASSUME InForm PROVE ~ \A flag \in NumberFlags : \A k \in Given(flag) : NumberAt(k) > 0
    <3>1. NumberAt(i) = Number(OptArg(i)) /\ NumberAt(i) \in Int
      BY <1>1, <1>2, <2>3, NumbersFit
    <3>2. i \in Given(argv[i].flag)
      BY <1>1 DEF Given
    <3>3. ~(NumberAt(i) > 0)
      BY <2>1, <3>1
    <3> QED
      BY <1>2, <3>2, <3>3
  <2>4. ASSUME InForm' PROVE ~ \A flag \in NumberFlags : \A k \in Given(flag)' : NumberAt(k)' > 0
    BY <2>1, <2>2, <2>3, <2>4, SameMeaning
  <2>5. LineMeansWhatItSays'
    BY <2>1, <2>4 DEF LineMeansWhatItSays
  <2> QED
    BY <2>1, <2>5 DEF MeaningInv, Flags
<1> QED
  BY <1>3, <1>4

LEMMA MachineKeepsMeaning ==
    ASSUME MeaningInv, NEW i \in optind .. Len(argv), ReadMachine(i)
    PROVE  MeaningInv'
<1>1. argv \in Seq(Argument) /\ optind \in Nat \ {0} /\ i \in DOMAIN argv /\ i \in Nat
  BY DEF MeaningInv
<1>2. /\ reading = "options" /\ Reaches(i) /\ argv[i].flag = "h" /\ argv[i].flag \in Flags
      /\ argv' = argv /\ program' = program
      /\ config' = [config EXCEPT ![argv[i].flag] = OptArg(i)] /\ optind' = After(i) /\ reading' = reading
  BY DEF ReadMachine, NextOption
<1>3. After(i) \in Nat /\ After(i) > i
  BY <1>1 DEF After
<1>4. ASSUME InForm
      PROVE  /\ \A k \in DOMAIN argv : k > i /\ k < optind' => argv[k].flag = "none"
             /\ OptArg(i) = MachineAt(i)
  <2>1. /\ After(i) \in {i + 1, i + 2} /\ OptArg(i) = Plain(Value(i))
        /\ After(i) = i + 2 => argv[i + 1].flag = "none"
    BY <1>1, <1>2, <1>4, FlagsInForm
  <2> QED
    BY <1>1, <1>2, <2>1 DEF MachineAt
<1>5. argv[i].flag \notin NumberFlags /\ argv[i].flag # "n" /\ argv[i].flag # "none"
  BY <1>2 DEF NumberFlags
<1> DEFINE new == OptArg(i)
<1>6. config' = [config EXCEPT ![argv[i].flag] = new] /\ (InForm => new = MachineAt(i))
  BY <1>2, <1>4
<1> HIDE DEF new
<1> QED
  BY <1>2, <1>3, <1>4, <1>5, <1>6, ReadingKeepsMeaning

LEMMA NamesKeepMeaning ==
    ASSUME MeaningInv, NEW i \in optind .. Len(argv), ReadNames(i)
    PROVE  MeaningInv'
<1>1. argv \in Seq(Argument) /\ optind \in Nat \ {0} /\ i \in DOMAIN argv /\ i \in Nat
  BY DEF MeaningInv
<1>2. /\ reading = "options" /\ Reaches(i) /\ argv[i].flag = "n" /\ argv[i].flag \in Flags
      /\ argv' = argv /\ program' = program /\ reading' = reading
  BY DEF ReadNames, NextOption
<1>3. PICK end \in After(i) .. Len(argv) + 1 :
         /\ \A k \in After(i) .. end - 1 : IsName(argv[k])
         /\ end <= Len(argv) => argv[end].flag # "none"
         /\ config' = [config EXCEPT !.n = MultiArgs(i, end)]
         /\ optind' = end
  BY DEF ReadNames
<1>4. After(i) \in Nat /\ After(i) > i
  BY <1>1 DEF After
<1>5. optind' \in Nat /\ optind' > i
  BY <1>1, <1>3, <1>4
<1>6. ASSUME InForm
      PROVE  /\ \A k \in DOMAIN argv : k > i /\ k < optind' => argv[k].flag = "none"
             /\ MultiArgs(i, end) = NamesAt(i)
  <2>1. /\ After(i) \in {i + 1, i + 2}
        /\ After(i) = i + 2 => argv[i + 1].flag = "none"
    BY <1>1, <1>2, <1>6, FlagsInForm
  <2>2. MultiArgs(i, end) = NamesAt(i)
    BY <1>1, <1>2, <1>3, <1>6, NamesAreRead
  <2>3. \A k \in DOMAIN argv : k > i /\ k < optind' => argv[k].flag = "none"
    <3> TAKE k \in DOMAIN argv
    <3> SUFFICES ASSUME k > i, k < end PROVE argv[k].flag = "none"
      BY <1>3
    <3>1. k \in Nat /\ end \in Int
      BY <1>1, <1>4
    <3>2. k = i + 1 \/ k \in i + 2 .. end - 1
      BY <1>1, <3>1
    <3>3. k \in After(i) .. end - 1 \/ (k = i + 1 /\ After(i) = i + 2)
      BY <1>1, <2>1, <3>1, <3>2
    <3> QED
      BY <1>3, <2>1, <3>3 DEF IsName
  <2> QED
    BY <2>2, <2>3
<1>7. argv[i].flag \notin NumberFlags /\ argv[i].flag # "h" /\ argv[i].flag # "none"
  BY <1>2 DEF NumberFlags
<1> DEFINE new == MultiArgs(i, end)
<1>8. config' = [config EXCEPT ![argv[i].flag] = new] /\ (InForm => new = NamesAt(i))
  BY <1>2, <1>3, <1>6
<1> HIDE DEF new
<1> QED
  BY <1>2, <1>5, <1>6, <1>7, <1>8, ReadingKeepsMeaning

\* What else is refused is not in form.
LEMMA RefusalsKeepMeaning ==
    ASSUME MeaningInv, NEW i \in optind .. Len(argv), RefuseNames(i) \/ RefuseOption(i)
    PROVE  MeaningInv'
<1>1. /\ argv \in Seq(Argument) /\ optind \in Nat \ {0} /\ i \in DOMAIN argv /\ i \in Nat
  BY DEF MeaningInv
<1>2. reading' = "refused" /\ UNCHANGED <<program, argv, optind, config>>
  BY DEF RefuseNames, RefuseOption
<1>3. ~InForm
  <2> SUFFICES ASSUME InForm PROVE FALSE
    OBVIOUS
  <2>1. CASE RefuseNames(i)
    <3>1. PICK end \in After(i) .. Len(argv) : argv[end] = Plain("empty")
      BY <2>1 DEF RefuseNames
    <3>2. end \in DOMAIN argv
      BY <1>1, <3>1 DEF After
    <3> QED
      BY <3>1, <3>2 DEF InForm, Plain
  <2>2. CASE RefuseOption(i)
    <3>1. Reaches(i) /\ (argv[i].flag \notin Flags \/ ~HasValue(i))
      BY <2>2 DEF RefuseOption
    <3>2. argv[i].flag # "none"
      BY <3>1 DEF Reaches, Passed
    <3> QED
      BY <1>1, <3>1, <3>2, FlagsInForm
  <2> QED
    BY <2>1, <2>2
<1>4. ~InForm'
  BY <1>2, <1>3, SameMeaning
<1> QED
  BY <1>2, <1>4 DEF MeaningInv, Flags, LineMeansWhatItSays

LEMMA EndKeepsMeaning ==
    ASSUME MeaningInv, EndOfOptions
    PROVE  MeaningInv'
<1>1. argv \in Seq(Argument) /\ optind \in Nat \ {0}
  BY DEF MeaningInv
<1>2. reading = "options" /\ reading' = "validate" /\ UNCHANGED <<program, argv, optind, config>>
  BY DEF EndOfOptions
<1>3. InForm' <=> InForm
  BY <1>2, SameMeaning
<1>4. ASSUME InForm PROVE NothingLeft
  <2>1. ~ \E i \in optind .. Len(argv) : Reaches(i) /\ argv[i].flag = "end"
    <3> SUFFICES ASSUME NEW i \in optind .. Len(argv), argv[i].flag = "end" PROVE FALSE
      OBVIOUS
    <3>1. i \in DOMAIN argv
      BY <1>1
    <3> QED
      BY <1>4, <3>1, FlagsInForm
  <2>2. \A i \in optind .. Len(argv) : Passed(argv[i])
    BY <2>1 DEF EndOfOptions
  <2> SUFFICES ASSUME NEW i \in DOMAIN argv, i >= optind PROVE argv[i].flag = "none"
    BY DEF NothingLeft
  <2>3. Passed(argv[i])
    BY <1>1, <2>2
  <2>4. argv[i].flag # "dash"
    BY <1>4, FlagsInForm
  <2> QED
    BY <2>3, <2>4 DEF Passed
<1>5. InForm' => ReadSoFar' /\ NothingLeft'
  <2> SUFFICES ASSUME InForm PROVE ReadSoFar' /\ NothingLeft'
    BY <1>3
  <2>1. ReadSoFar /\ NothingLeft
    BY <1>2, <1>4 DEF MeaningInv
  <2>2. ReadSoFar'
    BY <1>2, <2>1, SameSoFar
  <2> QED
    BY <1>2, <2>1, <2>2 DEF NothingLeft
<1> QED
  BY <1>2, <1>5 DEF MeaningInv, Flags, LineMeansWhatItSays

LEMMA ValidateKeepsMeaning ==
    ASSUME MeaningInv, Validate
    PROVE  MeaningInv'
<1>1. /\ reading = "validate" /\ UNCHANGED <<program, argv, optind, config>>
      /\ reading' = IF Fits(config) THEN "accepted" ELSE "refused"
  BY DEF Validate
<1>2. /\ InForm' <=> InForm /\ MeantConfig' = MeantConfig /\ (Fits(MeantConfig)' <=> Fits(MeantConfig))
      /\ \A flag : Given(flag)' = Given(flag)
      /\ \A i : NumberAt(i)' = NumberAt(i)
  BY <1>1, SameMeaning
<1>3. ASSUME InForm
      PROVE  /\ config = MeantConfig
             /\ \A flag \in NumberFlags : \A i \in Given(flag) : NumberAt(i) > 0
  BY <1>1, <1>3, AllIsRead DEF MeaningInv
<1>4. LineMeansWhatItSays'
  <2> SUFFICES ASSUME InForm
               PROVE  /\ reading' = "accepted" <=>
                            /\ \A flag \in NumberFlags : \A i \in Given(flag) : NumberAt(i) > 0
                            /\ Fits(MeantConfig)
                      /\ reading' = "accepted" => config = MeantConfig
    BY <1>1, <1>2 DEF LineMeansWhatItSays
  <2> QED
    BY <1>1, <1>3
<1> QED
  BY <1>1, <1>4 DEF MeaningInv, Flags

LEMMA UsageKeepsMeaning ==
    ASSUME MeaningInv, HandleUsage
    PROVE  MeaningInv'
<1>1. reading = "usage" /\ reading' \in {"help", "options"} /\ UNCHANGED <<program, argv, optind, config>>
  BY DEF HandleUsage
<1>2. Flags' = Flags /\ (InForm' <=> InForm)
  BY <1>1, SameMeaning
<1>3. InForm => ReadSoFar'
  BY <1>1, SameSoFar DEF MeaningInv
<1> QED
  BY <1>1, <1>2, <1>3 DEF MeaningInv, LineMeansWhatItSays

LEMMA RestKeepsMeaning ==
    ASSUME MeaningInv, UNCHANGED commandLineVars
    PROVE  MeaningInv'
<1>1. UNCHANGED <<program, argv, optind, config, reading>>
  BY DEF commandLineVars
<1>2. /\ Flags' = Flags /\ (InForm' <=> InForm) /\ \A flag : Given(flag)' = Given(flag)
      /\ MeantConfig' = MeantConfig /\ (Fits(MeantConfig)' <=> Fits(MeantConfig))
      /\ \A i : NumberAt(i)' = NumberAt(i)
  BY <1>1, SameMeaning
<1>3. InForm /\ reading \in {"usage", "options", "validate"} => ReadSoFar'
  BY <1>1, SameSoFar DEF MeaningInv
<1>4. NothingLeft' <=> NothingLeft
  BY <1>1 DEF NothingLeft
<1>5. LineMeansWhatItSays'
  BY <1>1, <1>2 DEF MeaningInv, LineMeansWhatItSays
<1> QED
  BY <1>1, <1>2, <1>3, <1>4, <1>5 DEF MeaningInv

\* For every command line: one that is in form is accepted exactly if what it says is
\* valid, and the program then has what it says, the last of several flags and all the
\* names of the teams, in whichever order they come (ArgumentParser::getOption,
\* getMultiArgs).
THEOREM CommandLineMeaning == CommandLineSpec => []LineMeansWhatItSays
<1>1. CommandLineInit => MeaningInv
  <2> SUFFICES ASSUME CommandLineInit PROVE MeaningInv
    OBVIOUS
  <2>1. argv \in Seq(Argument) /\ optind = 1 /\ reading = "usage" /\ program \in {"server", "gui"}
    BY CommandLineAssumption DEF CommandLineInit
  <2>2. \A flag : Before(flag) = {}
    BY <2>1 DEF Before, Given
  <2>3. /\ DOMAIN config = Flags /\ config = [letter \in Flags |-> config[letter]]
        /\ \A flag \in NumberFlags \cap Flags : config[flag] = IF flag = "f" THEN DefaultFreq ELSE 0
        /\ "n" \in Flags => config["n"] = <<>>
        /\ "h" \in Flags => config["h"] = Plain(LocalHost)
    <3>1. CASE program = "server"
      BY <3>1 DEF CommandLineInit, ServerConfig, Flags, ServerFlags, NumberFlags
    <3>2. CASE program = "gui"
      BY <3>2 DEF CommandLineInit, GuiConfig, Flags, GuiFlags, NumberFlags
    <3> QED
      BY <2>1, <3>1, <3>2
  <2>4. ASSUME NEW flag \in NumberFlags \cap Flags
        PROVE  /\ SoFar(flag, IF flag = "f" THEN DefaultFreq ELSE 0, NumberAt)
               /\ \A i \in Before(flag) : NumberAt(i) > 0
    BY <2>2, <2>3 DEF SoFar
  <2>5. "n" \in Flags => SoFar("n", <<>>, NamesAt)
    BY <2>2, <2>3 DEF SoFar
  <2>6. "h" \in Flags => SoFar("h", Plain(LocalHost), MachineAt)
    BY <2>2, <2>3 DEF SoFar
  <2>7. ReadSoFar
    BY <2>4, <2>5, <2>6 DEF ReadSoFar
  <2> QED
    BY <2>1, <2>3, <2>7 DEF MeaningInv, LineMeansWhatItSays
<1>2. MeaningInv /\ [CommandLineNext]_commandLineVars => MeaningInv'
  <2> SUFFICES ASSUME MeaningInv, [CommandLineNext]_commandLineVars PROVE MeaningInv'
    OBVIOUS
  <2>1. CASE HandleUsage
    BY <2>1, UsageKeepsMeaning
  <2>2. CASE EndOfOptions
    BY <2>2, EndKeepsMeaning
  <2>3. CASE Validate
    BY <2>3, ValidateKeepsMeaning
  <2>4. ASSUME NEW i \in optind .. Len(argv), ReadNumber(i) \/ RefuseNumber(i) PROVE MeaningInv'
    BY <2>4, NumbersKeepMeaning
  <2>5. ASSUME NEW i \in optind .. Len(argv), ReadMachine(i) PROVE MeaningInv'
    BY <2>5, MachineKeepsMeaning
  <2>6. ASSUME NEW i \in optind .. Len(argv), ReadNames(i) PROVE MeaningInv'
    BY <2>6, NamesKeepMeaning
  <2>7. ASSUME NEW i \in optind .. Len(argv), RefuseNames(i) \/ RefuseOption(i) PROVE MeaningInv'
    BY <2>7, RefusalsKeepMeaning
  <2>8. CASE UNCHANGED commandLineVars
    BY <2>8, RestKeepsMeaning
  <2> QED
    BY <2>1, <2>2, <2>3, <2>4, <2>5, <2>6, <2>7, <2>8 DEF CommandLineNext
<1>3. MeaningInv => LineMeansWhatItSays
  BY DEF MeaningInv
<1> QED
  BY <1>1, <1>2, <1>3, PTL DEF CommandLineSpec

-----------------------------------------------------------------------------
(* The torus.                                                              *)

LEMMA ModRange ==
    ASSUME NEW W \in Nat, W > 0, NEW v \in Int
    PROVE  v % W \in 0 .. W - 1 /\ \E k \in Int : v = k * W + (v % W)
<1>1. v % W \in 0 .. W - 1
  OBVIOUS
<1>2. v = W * (v \div W) + (v % W) /\ v \div W \in Int
  BY Z3
<1> DEFINE k == v \div W
           r == v % W
<1>3. r \in Int /\ k \in Int /\ v = W * k + r
  BY <1>1, <1>2
<1> HIDE DEF k, r
<1>4. v = k * W + r
  <2>1. W * k = k * W
    BY <1>3
  <2> QED
    BY ONLY <1>3, <2>1
<1>5. \E j \in Int : v = j * W + r
  BY <1>3, <1>4, Zenon
<1> QED
  BY <1>1, <1>5 DEF r

LEMMA ModOf ==
    ASSUME NEW W \in Nat, W > 0, NEW v \in Int, NEW r \in 0 .. W - 1, NEW k \in Int, v = k * W + r
    PROVE  v % W = r
  BY SMTT(30)

Wraps(W, v, u) == ((v % W) + u) % W = (v + u) % W

LEMMA ModSum ==
    ASSUME NEW W \in Nat, W > 0, NEW v \in Int, NEW u \in Int
    PROVE  Wraps(W, v, u)
<1> DEFINE m == v % W
           r == (v + u) % W
<1>1. m \in 0 .. W - 1 /\ \E k \in Int : v = k * W + m
  BY ModRange
<1>2. r \in 0 .. W - 1 /\ \E k \in Int : v + u = k * W + r
  BY ModRange
<1> HIDE DEF m, r
<1>3. PICK a \in Int : v = a * W + m
  BY <1>1
<1>4. PICK b \in Int : v + u = b * W + r
  BY <1>2
<1>5. m + u = (b - a) * W + r
  BY <1>1, <1>2, <1>3, <1>4
<1>6. (m + u) % W = r
  <2>1. m + u \in Int /\ b - a \in Int
    BY <1>1
  <2> HIDE DEF m
  <2> QED
    BY <1>2, <1>5, <2>1, ModOf
<1> QED
  BY <1>6 DEF m, r, Wraps

LEMMA ModSame ==
    ASSUME NEW W \in Nat, W > 0, NEW v \in 0 .. W - 1
    PROVE  v % W = v
  OBVIOUS

LEMMA OnMapIn == ASSUME NEW x \in Int, NEW y \in Int PROVE OnMap(x, y) \in Pos
<1>1. x % Width \in 0 .. Width - 1 /\ y % Height \in 0 .. Height - 1
  BY SteeringAssumption, ModRange
<1> QED
  BY <1>1 DEF OnMap, Pos

Continues(x, y, u, w) == OnMap(OnMap(x, y).x + u, OnMap(x, y).y + w) = OnMap(x + u, y + w)

LEMMA OnMapTwice ==
    ASSUME NEW x \in Int, NEW y \in Int, NEW u \in Int, NEW w \in Int
    PROVE  Continues(x, y, u, w)
<1>1. Wraps(Width, x, u) /\ Wraps(Height, y, w)
  BY SteeringAssumption, ModSum
<1> QED
  BY <1>1 DEF OnMap, Wraps, Continues

LEMMA OnMapSame == ASSUME NEW p \in Pos PROVE OnMap(p.x, p.y) = p
<1>1. p.x \in 0 .. Width - 1 /\ p.y \in 0 .. Height - 1 /\ p = [x |-> p.x, y |-> p.y]
  BY DEF Pos
<1>2. p.x % Width = p.x /\ p.y % Height = p.y
  BY <1>1, SteeringAssumption, ModSame
<1> QED
  BY <1>1, <1>2 DEF OnMap

\* The vectors of the tables, by orientation.
MoveX(d) == CASE d = 1 -> 1 [] d = 3 -> -1 [] OTHER -> 0
MoveY(d) == CASE d = 0 -> -1 [] d = 2 -> 1 [] OTHER -> 0

LEMMA Moves ==
    ASSUME NEW p, NEW d \in Dirs, NEW n \in Int
    PROVE  Step(p, playerMove, d, n) = OnMap(p.x + n * MoveX(d), p.y + n * MoveY(d))
<1>1. playerMove[d + 1][1] = MoveX(d) /\ playerMove[d + 1][2] = MoveY(d)
  BY DEF Dirs, playerMove, MoveX, MoveY
<1> QED
  BY <1>1 DEF Step

LEMMA MoveInts == ASSUME NEW d \in Dirs PROVE MoveX(d) \in Int /\ MoveY(d) \in Int
  BY DEF MoveX, MoveY

LEMMA StepIn ==
    ASSUME NEW p \in Pos, NEW d \in Dirs, NEW n \in Int
    PROVE  Step(p, playerMove, d, n) \in Pos
<1>1. p.x \in Int /\ p.y \in Int
  BY SteeringAssumption DEF Pos
<1>2. p.x + n * MoveX(d) \in Int /\ p.y + n * MoveY(d) \in Int
  BY <1>1, MoveInts
<1> QED
  BY <1>2, Moves, OnMapIn

LEMMA StepNone ==
    ASSUME NEW p \in Pos, NEW d \in Dirs
    PROVE  Step(p, playerMove, d, 0) = p
<1>1. p.x \in Int /\ p.y \in Int
  BY SteeringAssumption DEF Pos
<1>2. p.x + 0 * MoveX(d) = p.x /\ p.y + 0 * MoveY(d) = p.y
  BY <1>1, MoveInts
<1> QED
  BY <1>2, Moves, OnMapSame

LEMMA StepsAdd ==
    ASSUME NEW p \in Pos, NEW d \in Dirs, NEW a \in Int, NEW b \in Int
    PROVE  Step(Step(p, playerMove, d, a), playerMove, d, b) = Step(p, playerMove, d, a + b)
<1> DEFINE mx == MoveX(d)
           my == MoveY(d)
           x  == p.x + a * mx
           y  == p.y + a * my
           q  == OnMap(x, y)
<1>1. p.x \in Int /\ p.y \in Int /\ mx \in Int /\ my \in Int
  BY SteeringAssumption, MoveInts DEF Pos
<1>2. Step(p, playerMove, d, a) = q
  BY Moves
<1>3. Step(q, playerMove, d, b) = OnMap(q.x + b * mx, q.y + b * my)
  BY Moves
<1>4. Step(p, playerMove, d, a + b) = OnMap(p.x + (a + b) * mx, p.y + (a + b) * my)
  BY Moves
<1> HIDE DEF mx, my
<1>5. x \in Int /\ y \in Int /\ b * mx \in Int /\ b * my \in Int
  BY <1>1
<1>6. p.x + (a + b) * mx = x + b * mx /\ p.y + (a + b) * my = y + b * my
  BY <1>1
<1> HIDE DEF x, y
<1>7. OnMap(q.x + b * mx, q.y + b * my) = OnMap(x + b * mx, y + b * my)
  <2>1. Continues(x, y, b * mx, b * my)
    BY <1>5, OnMapTwice
  <2> QED
    BY <2>1 DEF Continues
<1> QED
  BY <1>2, <1>3, <1>4, <1>6, <1>7 DEF mx, my

-----------------------------------------------------------------------------
(* The tiles of Look, row after row: the one of an index.                  *)

\* Of some natural numbers one is the least.
LEMMA LeastNat ==
    ASSUME NEW T, T \subseteq Nat, T # {}
    PROVE  \E x \in T : \A y \in T : x <= y
<1> DEFINE R == {ss \in Nat \X Nat : ss[1] < ss[2]}
<1>1. IsWellFoundedOn(R, Nat)
  BY NatLessThanWellFounded DEF OpToRel
<1>2. \A x, y \in Nat : <<y, x>> \in R <=> y < x
  OBVIOUS
<1> HIDE DEF R
<1>3. PICK x \in T : \A y \in T : ~ (<<y, x>> \in R)
  BY <1>1, WFMin
<1>4. ASSUME NEW y \in T PROVE x <= y
  <2>1. x \in Nat /\ y \in Nat /\ ~ (y < x)
    BY <1>2, <1>3
  <2> QED
    BY ONLY <2>1
<1> QED
  BY <1>4

Sq(n) == n * n

LEMMA SqUp == ASSUME NEW a \in Nat, NEW b \in Nat, a <= b PROVE Sq(a) \in Nat /\ Sq(a) <= Sq(b)
<1>1. a * a <= a * b /\ a * b <= b * b /\ a * a \in Nat /\ a * b \in Nat /\ b * b \in Nat
  OBVIOUS
<1> QED
  BY ONLY <1>1 DEF Sq

LEMMA SqNext ==
    ASSUME NEW a \in Nat
    PROVE  Sq(a) \in Nat /\ Sq(a + 1) = Sq(a) + 2 * a + 1 /\ a <= Sq(a)
<1>1. (a + 1) * (a + 1) = a * a + 2 * a + 1 /\ a * a \in Nat
  OBVIOUS
<1>2. a <= a * a
  <2>1. CASE a = 0
    BY <2>1
  <2>2. CASE a >= 1
    BY <2>2
  <2> QED
    BY <2>1, <2>2
<1> QED
  BY <1>1, <1>2 DEF Sq

RowBetween(r, index) == Sq(r) <= index /\ index < Sq(r + 1)

LEMMA RowExists == ASSUME NEW index \in Nat PROVE \E r \in 0 .. index : RowBetween(r, index)
<1> DEFINE T == {r \in Nat : index < Sq(r + 1)}
<1>1. index \in T
  <2>1. Sq(index) \in Nat /\ Sq(index + 1) = Sq(index) + 2 * index + 1
    BY SqNext
  <2> QED
    BY <2>1
<1>2. PICK r \in T : \A q \in T : r <= q
  <2>1. T \subseteq Nat /\ T # {}
    BY <1>1
  <2> HIDE DEF T
  <2> QED
    BY <2>1, LeastNat
<1>3. r \in Nat /\ index < Sq(r + 1)
  BY <1>2
<1>4. Sq(r) <= index
  <2>1. CASE r = 0
    BY <2>1 DEF Sq
  <2>2. CASE r > 0
    <3>1. r - 1 \in Nat /\ ~ (r <= r - 1) /\ (r - 1) + 1 = r
      BY <1>3, <2>2
    <3>2. ~ (index < Sq(r))
      BY <1>2, <3>1
    <3>3. Sq(r) \in Nat
      BY <1>3, SqNext
    <3> QED
      BY <3>2, <3>3
  <2> QED
    BY <1>3, <2>1, <2>2
<1>5. r <= index
  <2>1. r <= Sq(r) /\ Sq(r) \in Nat
    BY <1>3, SqNext
  <2> QED
    BY <1>3, <1>4, <2>1
<1> QED
  BY <1>3, <1>4, <1>5 DEF RowBetween

LEMMA RowOnly ==
    ASSUME NEW index \in Nat, NEW r \in Nat, NEW q \in Nat, RowBetween(r, index), RowBetween(q, index)
    PROVE  r = q
<1>1. Sq(r) \in Nat /\ Sq(q) \in Nat /\ Sq(r + 1) \in Nat /\ Sq(q + 1) \in Nat
  BY SqNext
<1>2. ASSUME r + 1 <= q PROVE FALSE
  BY <1>1, <1>2, SqUp DEF RowBetween
<1>3. ASSUME q + 1 <= r PROVE FALSE
  BY <1>1, <1>3, SqUp DEF RowBetween
<1> QED
  BY <1>2, <1>3

LEMMA RowOfIs ==
    ASSUME NEW index \in Nat
    PROVE  RowOf(index) \in Nat /\ RowBetween(RowOf(index), index)
<1>1. RowOf(index) = CHOOSE r \in 0 .. index : RowBetween(r, index)
  BY DEF RowOf, RowBetween, Sq
<1>2. RowOf(index) \in 0 .. index /\ RowBetween(RowOf(index), index)
  BY <1>1, RowExists
<1> QED
  BY <1>2

LEMMA RowOfOnly ==
    ASSUME NEW index \in Nat, NEW r \in Nat, RowBetween(r, index)
    PROVE  RowOf(index) = r
  BY RowOfIs, RowOnly

\* Element k of the rows one after another, row i of which has 2 * i - 1 elements.
Element(row, k) == row[RowOf(k - 1) + 1][k - Sq(RowOf(k - 1))]

Rows(S, row, i, s) ==
    s \in Seq(S) /\ Len(s) = Sq(i) /\ \A k \in 1 .. Sq(i) : s[k] = Element(row, k)

LEMMA FirstRow ==
    ASSUME NEW S, NEW row, row[1] \in Seq(S), Len(row[1]) = 1
    PROVE  Rows(S, row, 1, row[1])
<1>1. Sq(1) = 1 /\ Sq(0) = 0 /\ Sq(0 + 1) = 1
  BY DEF Sq
<1>2. RowOf(0) = 0
  BY <1>1, RowOfOnly DEF RowBetween
<1>3. \A k \in 1 .. 1 : row[1][k] = Element(row, k)
  BY <1>1, <1>2 DEF Element
<1> QED
  BY <1>1, <1>3 DEF Rows

LEMMA OneRowMore ==
    ASSUME NEW S, NEW row, NEW i \in Nat, NEW s, Rows(S, row, i, s),
           row[i + 1] \in Seq(S), Len(row[i + 1]) = 2 * i + 1
    PROVE  Rows(S, row, i + 1, s \o row[i + 1])
<1> DEFINE t == row[i + 1]
           a == Sq(i)
           v == s \o t
<1>1. a \in Nat /\ Sq(i + 1) = a + 2 * i + 1 /\ s \in Seq(S) /\ Len(s) = a
  BY SqNext DEF Rows
<1>2. t \in Seq(S) /\ Len(t) = 2 * i + 1
  OBVIOUS
<1> HIDE DEF t, a
<1>3. /\ v \in Seq(S) /\ Len(v) = Len(s) + Len(t)
      /\ \A k \in 1 .. Len(s) + Len(t) : v[k] = IF k <= Len(s) THEN s[k] ELSE t[k - Len(s)]
  BY <1>1, <1>2, ConcatProperties
<1>4. Len(v) = a + 2 * i + 1
  BY <1>1, <1>2, <1>3
<1>5. ASSUME NEW k \in 1 .. a + 2 * i + 1 PROVE v[k] = Element(row, k)
  <2>1. k \in 1 .. Len(s) + Len(t)
    BY <1>1, <1>2, <1>5
  <2>2. CASE k <= a
    <3>1. k \in 1 .. a
      BY <1>1, <2>2
    <3>2. s[k] = Element(row, k)
      BY <3>1 DEF Rows, a
    <3> QED
      BY <1>1, <1>3, <2>1, <2>2, <3>2
  <2>3. CASE ~ (k <= a)
    <3>1. k - 1 \in Nat /\ a <= k - 1 /\ k - 1 < a + 2 * i + 1
      BY <1>1, <2>3
    <3>2. RowOf(k - 1) = i
      <4>1. RowBetween(i, k - 1)
        BY <1>1, <3>1 DEF RowBetween, a
      <4> QED
        BY <3>1, <4>1, RowOfOnly
    <3>3. v[k] = t[k - a]
      BY <1>1, <1>3, <2>1, <2>3
    <3> QED
      BY <3>2, <3>3 DEF Element, t, a
  <2> QED
    BY <2>2, <2>3
<1> QED
  BY <1>1, <1>3, <1>4, <1>5 DEF Rows, t

RowsAt(S, row, n) == \A i \in 1 .. n : row[i] \in Seq(S) /\ Len(row[i]) = 2 * i - 1

LEMMA RowAt ==
    ASSUME NEW S, NEW row, NEW n \in Nat, RowsAt(S, row, n), NEW i \in Nat, i > 0, i <= n
    PROVE  row[i] \in Seq(S) /\ Len(row[i]) = 2 * i - 1
<1>1. i \in 1 .. n
  OBVIOUS
<1> QED
  BY <1>1 DEF RowsAt

LEMMA RowAt1 ==
    ASSUME NEW S, NEW row, NEW n \in Nat, RowsAt(S, row, n), n > 0
    PROVE  row[1] \in Seq(S) /\ Len(row[1]) = 1
<1> DEFINE i == 1
<1>1. i \in Nat /\ i > 0 /\ i <= n /\ 2 * i - 1 = 1
  OBVIOUS
<1> HIDE DEF i
<1>2. row[i] \in Seq(S) /\ Len(row[i]) = 2 * i - 1
  BY <1>1, RowAt
<1> QED
  BY <1>1, <1>2 DEF i

\* What FlattenSeq builds, row by row.
Built(row, n, f) == f = [i \in 1 .. n |-> IF i = 1 THEN row[i] ELSE f[i - 1] \o row[i]]

LEMMA BuiltIs ==
    ASSUME NEW S, NEW row, NEW n \in Nat, n > 0,
           RowsAt(S, row, n),
           NEW f, Built(row, n, f)
    PROVE  \A i \in 1 .. n : Rows(S, row, i, f[i])
<1> DEFINE Bad == {i \in 1 .. n : ~ Rows(S, row, i, f[i])}
<1>1. SUFFICES ASSUME Bad # {} PROVE FALSE
  OBVIOUS
<1>2. PICK i \in Bad : \A j \in Bad : i <= j
  <2>1. Bad \subseteq Nat
    OBVIOUS
  <2> HIDE DEF Bad
  <2> QED
    BY <1>1, <2>1, LeastNat
<1>3. i \in 1 .. n /\ ~ Rows(S, row, i, f[i])
  OBVIOUS
<1>4. f[i] = IF i = 1 THEN row[i] ELSE f[i - 1] \o row[i]
  BY <1>3 DEF Built
<1>5. CASE i = 1
  <2>1. row[1] \in Seq(S) /\ Len(row[1]) = 1 /\ f[1] = row[1]
    <3>1. row[1] \in Seq(S) /\ Len(row[1]) = 1
      BY RowAt1
    <3> QED
      BY <1>4, <1>5, <3>1
  <2> QED
    BY <1>3, <1>5, <2>1, FirstRow
<1>6. CASE i # 1
  <2> DEFINE j == i - 1
  <2>1. j \in Nat /\ j \in 1 .. n /\ j + 1 = i /\ ~ (i <= j)
    BY <1>3, <1>6
  <2>2. Rows(S, row, j, f[j])
    BY <1>2, <2>1
  <2>3. row[i] \in Seq(S) /\ Len(row[i]) = 2 * i - 1 /\ 2 * i - 1 = 2 * j + 1
    BY <1>3, RowAt
  <2>4. f[i] = f[j] \o row[i]
    BY <1>4, <1>6
  <2> HIDE DEF j
  <2>5. row[j + 1] \in Seq(S) /\ Len(row[j + 1]) = 2 * j + 1
    BY <2>1, <2>3
  <2>6. Rows(S, row, j + 1, f[j] \o row[j + 1])
    BY <2>1, <2>2, <2>5, OneRowMore
  <2> QED
    BY <1>3, <2>1, <2>4, <2>6
<1> QED
  BY <1>3, <1>5, <1>6

\* Such a function there is.
LEMMA BuiltExists ==
    ASSUME NEW S, NEW row, NEW n \in Nat, n > 0,
           RowsAt(S, row, n)
    PROVE  \E f : Built(row, n, f)
<1> DEFINE upTo(i) == [k \in 1 .. Sq(i) |-> Element(row, k)]
           f == [i \in 1 .. n |-> upTo(i)]
           rhs == [i \in 1 .. n |-> IF i = 1 THEN row[i] ELSE f[i - 1] \o row[i]]
<1>1. ASSUME NEW i \in Nat, NEW s, Rows(S, row, i, s)
      PROVE  s = upTo(i)
  <2>1. Sq(i) \in Nat /\ s \in Seq(S) /\ Len(s) = Sq(i) /\ \A k \in 1 .. Sq(i) : s[k] = Element(row, k)
    BY <1>1, SqNext DEF Rows
  <2>2. s = [k \in 1 .. Sq(i) |-> s[k]]
    BY <2>1
  <2> QED
    BY <2>1, <2>2
<1>2. ASSUME NEW i \in 1 .. n PROVE upTo(i) = rhs[i] /\ Rows(S, row, i, upTo(i))
  <2> DEFINE Bad == {j \in 1 .. n : ~ (upTo(j) = rhs[j] /\ Rows(S, row, j, upTo(j)))}
  <2>1. SUFFICES ASSUME Bad # {} PROVE FALSE
    OBVIOUS
  <2>2. PICK j \in Bad : \A h \in Bad : j <= h
    <3> HIDE DEF upTo, rhs
    <3>1. Bad \subseteq Nat
      OBVIOUS
    <3> HIDE DEF Bad
    <3> QED
      BY <2>1, <3>1, LeastNat
  <2>3. j \in 1 .. n /\ ~ (upTo(j) = rhs[j] /\ Rows(S, row, j, upTo(j)))
    OBVIOUS
  <2>4. CASE j = 1
    <3>0. row[1] \in Seq(S) /\ Len(row[1]) = 1 /\ 1 \in 1 .. n
      BY RowAt1
    <3>1. row[1] \in Seq(S) /\ Len(row[1]) = 1 /\ rhs[1] = row[1]
      BY <3>0
    <3>2. Rows(S, row, 1, row[1])
      BY <3>1, FirstRow
    <3> QED
      BY <1>1, <2>3, <2>4, <3>1, <3>2
  <2>5. CASE j # 1
    <3>1. j - 1 \in Nat /\ j - 1 \in 1 .. n /\ (j - 1) + 1 = j /\ ~ (j <= j - 1)
      <4>1. j \in 1 .. n
        BY <2>3
      <4> QED
        BY ONLY <2>5, <4>1, n \in Nat
    <3>2. Rows(S, row, j - 1, upTo(j - 1))
      BY <2>2, <3>1
    <3>3. f[j - 1] = upTo(j - 1)
      BY <3>1
    <3>4. rhs[j] = f[j - 1] \o row[j]
      BY <2>3, <2>5
    <3> HIDE DEF upTo, f, rhs, Bad
    <3>5. row[j] \in Seq(S) /\ Len(row[j]) = 2 * (j - 1) + 1
      <4>1. j \in Nat /\ j > 0 /\ j <= n /\ 2 * j - 1 = 2 * (j - 1) + 1
        BY <2>3
      <4> QED
        BY <4>1, RowAt
    <3>6. Rows(S, row, (j - 1) + 1, upTo(j - 1) \o row[(j - 1) + 1])
      BY <3>1, <3>2, <3>5, OneRowMore
    <3>7. Rows(S, row, j, rhs[j])
      BY <3>1, <3>3, <3>4, <3>6
    <3>8. rhs[j] = upTo(j)
      BY <1>1, <2>3, <3>7
    <3> QED
      BY <2>3, <3>7, <3>8
  <2> QED
    BY <2>4, <2>5
<1>3. \A i \in 1 .. n : f[i] = rhs[i]
  BY <1>2
<1>4. f = rhs
  BY <1>3
<1> QED
  BY <1>4 DEF Built

LEMMA FlattenIs ==
    ASSUME NEW S, NEW row, NEW n \in Nat, n > 0, row \in Seq(Seq(S)), Len(row) = n,
           RowsAt(S, row, n)
    PROVE  Rows(S, row, n, FlattenSeq(row))
<1> DEFINE f == CHOOSE g : Built(row, n, g)
<1>1. Built(row, n, f)
  BY BuiltExists, Zenon
<1>2. FlattenSeq(row) = f[n]
  BY DEF FlattenSeq, Built
<1> HIDE DEF f
<1> QED
  BY <1>1, <1>2, BuiltIs

RightOf(d) == (d + 1) % 4

LEMMA Turns ==
    ASSUME NEW d \in Dirs
    PROVE  /\ RightOf(d) \in Dirs /\ (d + 3) % 4 \in Dirs /\ (d + 2) % 4 \in Dirs
           /\ MoveX((d + 3) % 4) = -MoveX(RightOf(d)) /\ MoveY((d + 3) % 4) = -MoveY(RightOf(d))
           /\ MoveX((d + 2) % 4) = -MoveX(d) /\ MoveY((d + 2) % 4) = -MoveY(d)
<1>1. d = 0 \/ d = 1 \/ d = 2 \/ d = 3
  BY DEF Dirs
<1> QED
  BY <1>1 DEF Dirs, RightOf, MoveX, MoveY

LEMMA RightMoves ==
    ASSUME NEW p, NEW d \in Dirs, NEW n \in Int
    PROVE  Step(p, rightTile, d, n) = OnMap(p.x + n * MoveX(RightOf(d)), p.y + n * MoveY(RightOf(d)))
<1>1. d = 0 \/ d = 1 \/ d = 2 \/ d = 3
  BY DEF Dirs
<1>2. rightTile[d + 1][1] = MoveX(RightOf(d)) /\ rightTile[d + 1][2] = MoveY(RightOf(d))
  BY <1>1 DEF rightTile, RightOf, MoveX, MoveY
<1> QED
  BY <1>2 DEF Step

LEMMA DiagonalMoves ==
    ASSUME NEW p, NEW d \in Dirs, NEW n \in Int
    PROVE  Step(p, diagonalLeftMove, d, n) =
             OnMap(p.x + n * (MoveX(d) - MoveX(RightOf(d))), p.y + n * (MoveY(d) - MoveY(RightOf(d))))
<1>1. d = 0 \/ d = 1 \/ d = 2 \/ d = 3
  BY DEF Dirs
<1>2. diagonalLeftMove[d + 1][1] = MoveX(d) - MoveX(RightOf(d))
      /\ diagonalLeftMove[d + 1][2] = MoveY(d) - MoveY(RightOf(d))
  BY <1>1 DEF diagonalLeftMove, RightOf, MoveX, MoveY
<1> QED
  BY <1>2 DEF Step

\* The tile of an index: so many rows ahead, so many columns to the right.
Tile(p, d, r, dx) ==
    OnMap((p.x + r * MoveX(d)) + dx * MoveX(RightOf(d)), (p.y + r * MoveY(d)) + dx * MoveY(RightOf(d)))

LEMMA PosInts == ASSUME NEW p \in Pos PROVE p.x \in Int /\ p.y \in Int
  BY SteeringAssumption DEF Pos

LEMMA LookTile ==
    ASSUME NEW p \in Pos, NEW d \in Dirs, NEW r \in Nat, NEW c \in Nat
    PROVE  /\ Step(p, diagonalLeftMove, d, r) \in Pos
           /\ Step(Step(p, diagonalLeftMove, d, r), rightTile, d, c) = Tile(p, d, r, c - r)
           /\ Step(Step(p, diagonalLeftMove, d, r), rightTile, d, c) \in Pos
<1> DEFINE mx == MoveX(d)
           my == MoveY(d)
           rx == MoveX(RightOf(d))
           ry == MoveY(RightOf(d))
           x  == p.x + r * (mx - rx)
           y  == p.y + r * (my - ry)
           q  == OnMap(x, y)
<1>1. p.x \in Int /\ p.y \in Int /\ mx \in Int /\ my \in Int /\ rx \in Int /\ ry \in Int
  BY MoveInts, Turns, PosInts
<1>2. Step(p, diagonalLeftMove, d, r) = q
  BY DiagonalMoves
<1>3. Step(q, rightTile, d, c) = OnMap(q.x + c * rx, q.y + c * ry)
  BY RightMoves
<1>4. Tile(p, d, r, c - r) = OnMap((p.x + r * mx) + (c - r) * rx, (p.y + r * my) + (c - r) * ry)
  BY DEF Tile
<1> HIDE DEF mx, my, rx, ry
<1>5. x \in Int /\ y \in Int /\ c * rx \in Int /\ c * ry \in Int
  BY <1>1
<1>6. (p.x + r * mx) + (c - r) * rx = x + c * rx /\ (p.y + r * my) + (c - r) * ry = y + c * ry
  BY <1>1
<1> HIDE DEF x, y
<1>7. Continues(x, y, c * rx, c * ry)
  BY <1>5, OnMapTwice
<1>8. q \in Pos /\ OnMap(x + c * rx, y + c * ry) \in Pos
  BY <1>5, OnMapIn
<1> QED
  BY <1>2, <1>3, <1>4, <1>6, <1>7, <1>8 DEF Continues

\* Where orders end that go r tiles ahead, turn and go on.
LEMMA BentTile ==
    ASSUME NEW p \in Pos, NEW d \in Dirs, NEW r \in Nat, NEW dx \in Int
    PROVE  /\ dx = 0 => Step(p, playerMove, d, r) = Tile(p, d, r, dx)
           /\ dx > 0 => Step(Step(p, playerMove, d, r), playerMove, (d + 1) % 4, dx) = Tile(p, d, r, dx)
           /\ dx < 0 => Step(Step(p, playerMove, d, r), playerMove, (d + 3) % 4, -dx) = Tile(p, d, r, dx)
<1> DEFINE rx == MoveX(RightOf(d))
           ry == MoveY(RightOf(d))
           x  == p.x + r * MoveX(d)
           y  == p.y + r * MoveY(d)
           q  == OnMap(x, y)
<1>1. p.x \in Int /\ p.y \in Int /\ MoveX(d) \in Int /\ MoveY(d) \in Int /\ rx \in Int /\ ry \in Int
  BY MoveInts, Turns, PosInts
<1>2. Step(p, playerMove, d, r) = q
  BY Moves
<1>3. Step(q, playerMove, RightOf(d), dx) = OnMap(q.x + dx * rx, q.y + dx * ry)
  BY Moves, Turns
<1>4. Step(q, playerMove, (d + 3) % 4, -dx)
        = OnMap(q.x + (-dx) * MoveX((d + 3) % 4), q.y + (-dx) * MoveY((d + 3) % 4))
  <2>1. -dx \in Int /\ (d + 3) % 4 \in Dirs
    BY Turns
  <2> QED
    BY ONLY <2>1, Moves
<1>5. MoveX((d + 3) % 4) = -rx /\ MoveY((d + 3) % 4) = -ry
  BY Turns
<1>6. Tile(p, d, r, dx) = OnMap(x + dx * rx, y + dx * ry)
  BY DEF Tile
<1>7. x \in Int /\ y \in Int
  BY <1>1
<1> HIDE DEF rx, ry, x, y
<1>8. (-dx) * (-rx) = dx * rx /\ (-dx) * (-ry) = dx * ry /\ dx * rx \in Int /\ dx * ry \in Int
      /\ (dx = 0 => x + dx * rx = x /\ y + dx * ry = y)
  BY <1>1, <1>7
<1>9. Continues(x, y, dx * rx, dx * ry)
  BY <1>7, <1>8, OnMapTwice
<1>10. Step(q, playerMove, RightOf(d), dx) = Tile(p, d, r, dx)
  BY <1>3, <1>6, <1>9 DEF Continues
<1>11. Step(q, playerMove, (d + 3) % 4, -dx) = Tile(p, d, r, dx)
  BY <1>4, <1>5, <1>6, <1>8, <1>9 DEF Continues
<1>12. dx = 0 => q = Tile(p, d, r, dx)
  BY <1>6, <1>8
<1> HIDE DEF q
<1> QED
  BY <1>2, <1>10, <1>11, <1>12 DEF RightOf

LEMMA LookIs ==
    ASSUME NEW p \in Pos, NEW d \in Dirs, NEW level \in Nat, NEW index \in Nat, index < Sq(level + 1)
    PROVE  LET r == RowOf(index)
           IN  /\ r \in Nat /\ Sq(r) <= index /\ index - Sq(r) <= 2 * r
               /\ LookPos(p, d, level)[index + 1] = Tile(p, d, r, index - (Sq(r) + r))
               /\ LookPos(p, d, level)[index + 1] \in Pos
<1> DEFINE n == level + 1
           r == RowOf(index)
           c == index - Sq(r)
           row == [i \in 1 .. n |-> LookRow(p, d, i - 1)]
<1>1. r \in Nat /\ RowBetween(r, index) /\ Sq(r) \in Nat /\ Sq(r + 1) = Sq(r) + 2 * r + 1
  BY RowOfIs, SqNext
<1>2. c \in 0 .. 2 * r
  BY <1>1 DEF RowBetween
<1>3. r < n
  <2>1. ~ (level + 1 <= r)
    BY <1>1, SqUp, SqNext DEF RowBetween
  <2> QED
    BY <1>1, <2>1
<1>4. ASSUME NEW i \in Nat
      PROVE  /\ LookRow(p, d, i) \in Seq(Pos) /\ Len(LookRow(p, d, i)) = 2 * i + 1
             /\ \A j \in 1 .. 2 * i + 1 : LookRow(p, d, i)[j] = Tile(p, d, i, (j - 1) - i)
  <2> DEFINE left == Step(p, diagonalLeftMove, d, i)
  <2>1. \A j \in 1 .. 2 * i + 1 : Step(left, rightTile, d, j - 1) \in Pos
                                  /\ Step(left, rightTile, d, j - 1) = Tile(p, d, i, (j - 1) - i)
    <3> SUFFICES ASSUME NEW j \in 1 .. 2 * i + 1
                 PROVE  Step(left, rightTile, d, j - 1) \in Pos
                        /\ Step(left, rightTile, d, j - 1) = Tile(p, d, i, (j - 1) - i)
      OBVIOUS
    <3> DEFINE k == j - 1
    <3>1. k \in Nat
      OBVIOUS
    <3> HIDE DEF k
    <3>2. Step(left, rightTile, d, k) \in Pos /\ Step(left, rightTile, d, k) = Tile(p, d, i, k - i)
      BY <3>1, LookTile
    <3> QED
      BY <3>2 DEF k
  <2>2. LookRow(p, d, i) = [j \in 1 .. 2 * i + 1 |-> Step(left, rightTile, d, j - 1)]
    BY DEF LookRow
  <2> HIDE DEF left
  <2> DEFINE at(j) == Step(left, rightTile, d, j - 1)
             len == 2 * i + 1
  <2>3. len \in Nat /\ LookRow(p, d, i) = [j \in 1 .. len |-> at(j)] /\ \A j \in 1 .. len : at(j) \in Pos
    BY <2>1, <2>2
  <2> HIDE DEF at, len
  <2>4. LookRow(p, d, i) \in Seq(Pos) /\ Len(LookRow(p, d, i)) = len
        /\ \A j \in 1 .. len : LookRow(p, d, i)[j] = at(j)
    BY <2>3
  <2> QED
    BY <2>1, <2>4 DEF at, len
<1> HIDE DEF c
<1>5. ASSUME NEW i \in 1 .. n PROVE row[i] \in Seq(Pos) /\ Len(row[i]) = 2 * i - 1
  <2>1. i - 1 \in Nat /\ 2 * (i - 1) + 1 = 2 * i - 1 /\ row[i] = LookRow(p, d, i - 1)
    OBVIOUS
  <2> QED
    BY <1>4, <2>1
<1>6. n \in Nat /\ n > 0 /\ row \in Seq(Seq(Pos)) /\ Len(row) = n
  <2>1. \A i \in 1 .. n : row[i] \in Seq(Pos)
    BY <1>5
  <2>2. n \in Nat /\ n > 0
    OBVIOUS
  <2> DEFINE at(i) == LookRow(p, d, i - 1)
  <2>3. row = [i \in 1 .. n |-> at(i)] /\ \A i \in 1 .. n : at(i) \in Seq(Pos)
    BY <2>1
  <2> HIDE DEF row, at, n
  <2> QED
    BY <2>2, <2>3
<1>7. r + 1 \in 1 .. n /\ row[r + 1] = LookRow(p, d, r)
  <2>1. r + 1 \in 1 .. n /\ (r + 1) - 1 = r
    BY <1>1, <1>3
  <2> QED
    BY <2>1
<1> HIDE DEF row
<1>8. Rows(Pos, row, n, FlattenSeq(row))
  <2>1. RowsAt(Pos, row, n)
    BY <1>5 DEF RowsAt
  <2> HIDE DEF n
  <2> QED
    BY <1>6, <2>1, FlattenIs
<1>9. LookPos(p, d, level) = FlattenSeq(row)
  BY DEF LookPos, row
<1>10. index + 1 \in 1 .. Sq(n) /\ (index + 1) - 1 = index
  <2>1. Sq(n) \in Nat
    BY SqNext
  <2> QED
    BY <2>1
<1>11. LookPos(p, d, level)[index + 1] = Element(row, index + 1)
  BY <1>8, <1>9, <1>10 DEF Rows
<1>12. Element(row, index + 1) = LookRow(p, d, r)[(index + 1) - Sq(r)]
  BY <1>7, <1>10 DEF Element
<1>13. (index + 1) - Sq(r) = c + 1 /\ c \in Nat /\ c + 1 \in 1 .. 2 * r + 1 /\ (c + 1) - 1 = c
  <2>1. (index + 1) - Sq(r) = c + 1
    BY <1>1 DEF c
  <2> QED
    BY <1>1, <1>2, <2>1
<1>14. LookRow(p, d, r)[c + 1] = Tile(p, d, r, c - r) /\ LookRow(p, d, r)[c + 1] \in Pos
  <2>1. LookRow(p, d, r)[c + 1] = Tile(p, d, r, ((c + 1) - 1) - r)
    BY <1>1, <1>4, <1>13
  <2>2. LookRow(p, d, r) \in Seq(Pos) /\ Len(LookRow(p, d, r)) = 2 * r + 1
    BY <1>1, <1>4
  <2> QED
    BY <1>13, <2>1, <2>2
<1>15. c - r = index - (Sq(r) + r) /\ index - Sq(r) = c
  BY <1>1 DEF c
<1> QED
  BY <1>1, <1>2, <1>11, <1>12, <1>13, <1>14, <1>15 DEF RowBetween

-----------------------------------------------------------------------------
(* To a tile: the plan always ends there.                                  *)

Straight(n) ==
    /\ Len(plan) = n /\ \A i \in 1 .. n : plan[i] = "Forward"
    /\ Step(here, playerMove, way, n) = goal

TurnBy(t) == IF t = 3 THEN "Left" ELSE "Right"

Bent(a, t, b) ==
    /\ Len(plan) = a + 1 + b /\ plan[a + 1] = TurnBy(t)
    /\ \A i \in 1 .. a + 1 + b : i # a + 1 => plan[i] = "Forward"
    /\ Step(Step(here, playerMove, way, a), playerMove, (way + t) % 4, b) = goal

TileInv ==
    errand = "tile" /\ ~pushed =>
       (\E n \in Nat : Straight(n)) \/ (\E a, b \in Nat, t \in {1, 3} : Bent(a, t, b))

SteeringTypeOK ==
    /\ here \in Pos /\ way \in Dirs /\ goal \in Pos
    /\ plan \in Seq({"Forward", "Left", "Right"})
    /\ errand \in {"tile", "join"}
    /\ target \in {NoTarget} \cup 0 .. 8
    /\ mark \in Int /\ limit \in Int
    /\ moved \in BOOLEAN /\ pushed \in BOOLEAN

LEMMA AheadIs == ASSUME NEW p, NEW d PROVE Ahead(p, d) = Step(p, playerMove, d, 1)
  BY DEF Ahead

LEMMA AheadIn == ASSUME NEW p \in Pos, NEW d \in Dirs PROVE Ahead(p, d) \in Pos
  BY StepIn, AheadIs

LEMMA TileReached ==
    ASSUME SteeringTypeOK, TileInv, plan = <<>>, ~pushed, errand = "tile"
    PROVE  here = goal
<1>1. Len(plan) = 0 /\ here \in Pos /\ way \in Dirs
  BY DEF SteeringTypeOK
<1>2. CASE \E n \in Nat : Straight(n)
  <2>1. Step(here, playerMove, way, 0) = goal
    BY <1>1, <1>2 DEF Straight
  <2> QED
    BY <1>1, <2>1, StepNone
<1>3. CASE \E a, b \in Nat, t \in {1, 3} : Bent(a, t, b)
  BY <1>1, <1>3 DEF Bent
<1> QED
  BY <1>2, <1>3 DEF TileInv

LEMMA TailOf ==
    ASSUME NEW S, NEW s \in Seq(S), s # <<>>, NEW n \in Nat, Len(s) = n
    PROVE  /\ n > 0 /\ Head(s) = s[1] /\ Tail(s) \in Seq(S) /\ Len(Tail(s)) = n - 1
           /\ \A i \in 1 .. n - 1 : Tail(s)[i] = s[i + 1]
<1>1. n > 0 /\ Head(s) = s[1]
  OBVIOUS
<1>2. Tail(s) \in Seq(S) /\ Len(Tail(s)) = Len(s) - 1 /\ \A i \in 1 .. Len(Tail(s)) : Tail(s)[i] = s[i + 1]
  BY HeadTailProperties
<1> QED
  BY <1>1, <1>2

\* An order of a plan to a tile.
LEMMA TileOrder ==
    ASSUME SteeringTypeOK, TileInv, errand = "tile", ~pushed,
           NEW order, Executes(order),
           order = "Forward" => here' = Ahead(here, way) /\ way' = way,
           order = "Left" => way' = (way + 3) % 4 /\ here' = here,
           order = "Right" => way' = (way + 1) % 4 /\ here' = here
    PROVE  TileInv'
<1> DEFINE S == {"Forward", "Left", "Right"}
<1>1. /\ plan \in Seq(S) /\ plan # <<>> /\ Head(plan) = order /\ plan' = Tail(plan) /\ goal' = goal
      /\ here \in Pos /\ way \in Dirs
  BY DEF Executes, SteeringTypeOK
<1>2. ASSUME NEW n \in Nat, Straight(n) PROVE \E m \in Nat : Straight(m)'
  <2>1. /\ n > 0 /\ plan[1] = order /\ Len(plan') = n - 1
        /\ \A i \in 1 .. n - 1 : plan'[i] = plan[i + 1]
    <3>1. Len(plan) = n
      BY <1>2 DEF Straight
    <3> QED
      BY <1>1, <3>1, TailOf
  <2>2. order = "Forward" /\ here' = Step(here, playerMove, way, 1) /\ way' = way
    BY <1>2, <2>1, AheadIs DEF Straight
  <2>3. \A i \in 1 .. n - 1 : plan'[i] = "Forward"
    <3>1. ASSUME NEW i \in 1 .. n - 1 PROVE plan'[i] = "Forward"
      <4>1. i + 1 \in 1 .. n
        BY <2>1
      <4> QED
        BY <1>2, <2>1, <4>1 DEF Straight
    <3> QED
      BY <3>1
  <2>4. Step(here', playerMove, way', n - 1) = goal'
    <3>1. 1 \in Int /\ n - 1 \in Int /\ 1 + (n - 1) = n
      BY <2>1
    <3>2. Step(Step(here, playerMove, way, 1), playerMove, way, n - 1)
            = Step(here, playerMove, way, 1 + (n - 1))
      BY ONLY <1>1, <3>1, StepsAdd
    <3>3. Step(here, playerMove, way, n) = goal
      BY <1>2 DEF Straight
    <3> QED
      BY <1>1, <2>2, <3>1, <3>2, <3>3
  <2>5. n - 1 \in Nat /\ Straight(n - 1)'
    BY <2>1, <2>3, <2>4 DEF Straight
  <2> QED
    BY <2>5
<1>3. ASSUME NEW a \in Nat, NEW b \in Nat, NEW t \in {1, 3}, Bent(a, t, b)
      PROVE  (\E m \in Nat : Straight(m)') \/ (\E c \in Nat : Bent(c, t, b)')
  <2>1. /\ plan[1] = order /\ Len(plan') = a + b
        /\ \A i \in 1 .. a + b : plan'[i] = plan[i + 1]
    <3>1. Len(plan) = a + 1 + b /\ a + 1 + b \in Nat /\ (a + 1 + b) - 1 = a + b
      BY <1>3 DEF Bent
    <3> QED
      BY <1>1, <3>1, TailOf
  <2>2. CASE a = 0
    <3>1. order = TurnBy(t) /\ here' = here /\ way' = (way + t) % 4
      BY <1>3, <2>1, <2>2 DEF Bent, TurnBy
    <3>2. \A i \in 1 .. b : plan'[i] = "Forward"
      <4>1. ASSUME NEW i \in 1 .. b PROVE plan'[i] = "Forward"
        <5>1. i \in 1 .. a + b /\ i + 1 \in 1 .. a + 1 + b /\ i + 1 # a + 1
          BY <2>2
        <5> QED
          BY <1>3, <2>1, <5>1 DEF Bent
      <4> QED
        BY <4>1
    <3>3. Step(here', playerMove, way', b) = goal'
      <4>1. Step(here, playerMove, way, 0) = here
        BY <1>1, StepNone
      <4>2. Step(Step(here, playerMove, way, 0), playerMove, (way + t) % 4, b) = goal
        BY <1>3, <2>2 DEF Bent
      <4> QED
        BY <1>1, <3>1, <4>1, <4>2
    <3>4. Len(plan') = b
      BY <2>1, <2>2
    <3>5. Straight(b)'
      BY <3>2, <3>3, <3>4 DEF Straight
    <3> QED
      BY <3>5
  <2>3. CASE a > 0
    <3> DEFINE c == a - 1
    <3>1. c \in Nat /\ c + 1 = a /\ c + 1 + b = a + b /\ 1 + c = a
      BY <2>3
    <3>2. 1 \in 1 .. a + 1 + b /\ 1 # a + 1
      BY <2>3
    <3>3. order = "Forward" /\ here' = Step(here, playerMove, way, 1) /\ way' = way
      BY <1>3, <2>1, <3>2, AheadIs DEF Bent
    <3>4. plan'[c + 1] = TurnBy(t)
      <4>1. a \in 1 .. a + b
        BY <2>3
      <4> QED
        BY <1>3, <2>1, <3>1, <4>1 DEF Bent
    <3>5. \A i \in 1 .. c + 1 + b : i # c + 1 => plan'[i] = "Forward"
      <4>1. ASSUME NEW i \in 1 .. a + b, i # a PROVE plan'[i] = "Forward"
        <5>1. i + 1 \in 1 .. a + 1 + b /\ i + 1 # a + 1
          BY <4>1
        <5> QED
          BY <1>3, <2>1, <5>1 DEF Bent
      <4> QED
        BY <3>1, <4>1
    <3>6. Step(Step(here', playerMove, way', c), playerMove, (way' + t) % 4, b) = goal'
      <4>1. 1 \in Int /\ c \in Int
        BY <3>1
      <4> HIDE DEF c
      <4>2. Step(Step(here, playerMove, way, 1), playerMove, way, c) = Step(here, playerMove, way, 1 + c)
        BY ONLY <1>1, <4>1, StepsAdd
      <4>3. Step(Step(here, playerMove, way, a), playerMove, (way + t) % 4, b) = goal
        BY <1>3 DEF Bent
      <4> QED
        BY <1>1, <3>1, <3>3, <4>2, <4>3
    <3>7. Len(plan') = c + 1 + b
      BY <2>1, <3>1
    <3>8. Bent(c, t, b)'
      BY <3>4, <3>5, <3>6, <3>7 DEF Bent
    <3> QED
      BY <3>1, <3>8
  <2> QED
    BY <2>2, <2>3
<1>4. (\E m \in Nat : Straight(m)') \/ (\E c, b \in Nat, t \in {1, 3} : Bent(c, t, b)')
  BY <1>2, <1>3 DEF TileInv
<1> QED
  BY <1>4 DEF TileInv

LEMMA RepeatIs ==
    ASSUME NEW o, NEW n \in Nat
    PROVE  Repeat(o, n) \in Seq({o}) /\ Len(Repeat(o, n)) = n /\ \A i \in 1 .. n : Repeat(o, n)[i] = o
  BY DEF Repeat

Orders == {"Forward", "Left", "Right"}

BentShape(q, a, b, o) ==
    /\ q \in Seq(Orders) /\ Len(q) = a + 1 + b /\ q[a + 1] = o
    /\ \A i \in 1 .. a + 1 + b : i # a + 1 => q[i] = "Forward"

LEMMA BentPlan ==
    ASSUME NEW a \in Nat, NEW b \in Nat, NEW o \in Orders, NEW f \in Seq(Orders), NEW g \in Seq(Orders),
           Len(f) = a, Len(g) = b,
           \A i \in 1 .. a : f[i] = "Forward", \A i \in 1 .. b : g[i] = "Forward",
           NEW q, q = (f \o <<o>>) \o g
    PROVE  BentShape(q, a, b, o)
<1> DEFINE m == <<o>>
           h == f \o m
<1>1. m \in Seq(Orders) /\ Len(m) = 1 /\ m[1] = o
  OBVIOUS
<1> HIDE DEF m
<1>2. /\ h \in Seq(Orders) /\ Len(h) = a + 1
      /\ \A i \in 1 .. a + 1 : h[i] = IF i <= a THEN f[i] ELSE m[i - a]
  <2>1. /\ h \in Seq(Orders) /\ Len(h) = Len(f) + Len(m)
        /\ \A i \in 1 .. Len(f) + Len(m) : h[i] = IF i <= Len(f) THEN f[i] ELSE m[i - Len(f)]
    BY <1>1, ConcatProperties
  <2> QED
    BY ONLY <1>1, <2>1, Len(f) = a
<1>3. q = h \o g
  BY DEF m, h
<1> HIDE DEF h
<1>4. /\ q \in Seq(Orders) /\ Len(q) = a + 1 + b
      /\ \A i \in 1 .. a + 1 + b : q[i] = IF i <= a + 1 THEN h[i] ELSE g[i - (a + 1)]
  <2>1. /\ q \in Seq(Orders) /\ Len(q) = Len(h) + Len(g)
        /\ \A i \in 1 .. Len(h) + Len(g) : q[i] = IF i <= Len(h) THEN h[i] ELSE g[i - Len(h)]
    BY ONLY <1>2, <1>3, g \in Seq(Orders), ConcatProperties
  <2> QED
    BY ONLY <1>2, <2>1, Len(g) = b
<1>5. q[a + 1] = o
  <2>1. a + 1 \in 1 .. a + 1 + b /\ a + 1 <= a + 1 /\ a + 1 \in 1 .. a + 1 /\ ~ (a + 1 <= a) /\ (a + 1) - a = 1
    OBVIOUS
  <2> QED
    BY ONLY <1>1, <1>2, <1>4, <2>1
<1>6. ASSUME NEW i \in 1 .. a + 1 + b, i # a + 1 PROVE q[i] = "Forward"
  <2>1. CASE i <= a
    <3>1. i \in 1 .. a /\ i \in 1 .. a + 1 /\ i <= a + 1
      BY <2>1
    <3>2. q[i] = f[i]
      BY ONLY <1>2, <1>4, <1>6, <2>1, <3>1
    <3> QED
      BY <3>1, <3>2
  <2>2. CASE ~ (i <= a)
    <3>1. i - (a + 1) \in 1 .. b /\ ~ (i <= a + 1)
      BY <1>6, <2>2
    <3>2. q[i] = g[i - (a + 1)]
      BY ONLY <1>4, <1>6, <3>1
    <3> QED
      BY <3>1, <3>2
  <2> QED
    BY <2>1, <2>2
<1> QED
  BY <1>4, <1>5, <1>6 DEF BentShape

LEMMA ChooseStep ==
    ASSUME SteeringTypeOK, ChoosesTile
    PROVE  TileInv' /\ goal' \in Pos /\ plan' \in Seq(Orders)
<1>1. PICK index \in 1 .. (SeenLevel + 1) * (SeenLevel + 1) - 1 :
         goal' = LookPos(here, way, SeenLevel)[index + 1] /\ plan' = move_to_tile(index)
  BY DEF ChoosesTile
<1>2. here \in Pos /\ way \in Dirs /\ here' = here /\ way' = way
  BY DEF SteeringTypeOK, ChoosesTile
<1> DEFINE r  == RowOf(index)
           dx == index - (Sq(r) + r)
           ahead == Repeat("Forward", r)
           aside == Repeat("Forward", Abs(dx))
           bend  == IF dx = 0 THEN <<>> ELSE <<IF dx < 0 THEN "Left" ELSE "Right">>
<1>3. SeenLevel \in Nat /\ index \in Nat /\ index < Sq(SeenLevel + 1)
  <2>1. SeenLevel \in Nat
    BY SteeringAssumption
  <2>2. (SeenLevel + 1) * (SeenLevel + 1) = Sq(SeenLevel + 1) /\ Sq(SeenLevel + 1) \in Nat
    BY <2>1, SqNext DEF Sq
  <2>3. index \in 1 .. Sq(SeenLevel + 1) - 1
    BY <2>2
  <2> QED
    BY <2>1, <2>2, <2>3
<1>4. r \in Nat /\ goal' = Tile(here, way, r, dx) /\ goal' \in Pos
  BY <1>1, <1>2, <1>3, LookIs
<1>5. plan' = (ahead \o bend) \o aside
  BY <1>1 DEF move_to_tile, Sq
<1>6. dx \in Int /\ Abs(dx) \in Nat
  BY <1>3, <1>4, SqNext DEF Abs
<1>7. /\ ahead \in Seq(Orders) /\ Len(ahead) = r /\ \A i \in 1 .. r : ahead[i] = "Forward"
  <2>1. ahead \in Seq({"Forward"}) /\ Len(ahead) = r /\ \A i \in 1 .. r : ahead[i] = "Forward"
    BY <1>4, RepeatIs
  <2> HIDE DEF ahead, r
  <2> QED
    BY <2>1 DEF Orders
<1>8. /\ aside \in Seq(Orders) /\ Len(aside) = Abs(dx)
      /\ \A i \in 1 .. Abs(dx) : aside[i] = "Forward"
  <2> DEFINE n == Abs(dx)
  <2> HIDE DEF n
  <2>1. Repeat("Forward", n) \in Seq({"Forward"}) /\ Len(Repeat("Forward", n)) = n
        /\ \A i \in 1 .. n : Repeat("Forward", n)[i] = "Forward"
    BY <1>6, RepeatIs DEF n
  <2>2. Repeat("Forward", n) \in Seq(Orders)
    BY <2>1 DEF Orders
  <2> QED
    BY <2>1, <2>2 DEF n
<1> HIDE DEF ahead, aside, r, dx
<1>9. CASE dx = 0
  <2>1. Abs(dx) = 0 /\ bend = <<>>
    BY <1>9 DEF Abs
  <2>2. aside = <<>>
    BY <1>8, <2>1
  <2>3. plan' = ahead
    BY <1>5, <1>7, <2>1, <2>2
  <2>4. Step(here, playerMove, way, r) = goal'
    BY <1>2, <1>4, <1>6, <1>9, BentTile
  <2>5. Straight(r)'
    BY <1>2, <1>7, <2>3, <2>4 DEF Straight
  <2> QED
    BY <1>4, <1>7, <2>3, <2>5 DEF TileInv
<1>10. CASE dx > 0
  <2>1. Abs(dx) = dx /\ bend = <<"Right">> /\ dx \in Nat
    BY <1>6, <1>10 DEF Abs
  <2>2. plan' = (ahead \o <<"Right">>) \o aside
    BY <1>5, <2>1
  <2>3. BentShape(plan', r, dx, "Right")
    <3>1. "Right" \in Orders /\ Len(aside) = dx /\ \A i \in 1 .. dx : aside[i] = "Forward"
      BY <1>8, <2>1 DEF Orders
    <3>2. aside \in Seq(Orders)
      BY <1>8
    <3> QED
      BY ONLY <1>4, <1>7, <2>1, <2>2, <3>1, <3>2, BentPlan
  <2>4. Step(Step(here, playerMove, way, r), playerMove, (way + 1) % 4, dx) = goal'
    BY <1>2, <1>4, <1>6, <1>10, BentTile
  <2>5. Bent(r, 1, dx)'
    BY <1>2, <2>3, <2>4 DEF Bent, TurnBy, BentShape
  <2> QED
    BY <1>4, <2>1, <2>3, <2>5 DEF TileInv, BentShape
<1>11. CASE dx < 0
  <2> DEFINE n == -dx
  <2>1. Abs(dx) = n /\ bend = <<"Left">> /\ n \in Nat
    BY <1>6, <1>11 DEF Abs
  <2>2. plan' = (ahead \o <<"Left">>) \o aside
    BY <1>5, <1>11, <2>1
  <2>3. Step(Step(here, playerMove, way, r), playerMove, (way + 3) % 4, n) = goal'
    BY <1>2, <1>4, <1>6, <1>11, BentTile
  <2> HIDE DEF n
  <2>4. BentShape(plan', r, n, "Left")
    <3>1. "Left" \in Orders /\ Len(aside) = n /\ \A i \in 1 .. n : aside[i] = "Forward"
      BY <1>8, <2>1 DEF Orders
    <3>2. aside \in Seq(Orders)
      BY <1>8
    <3> QED
      BY ONLY <1>4, <1>7, <2>1, <2>2, <3>1, <3>2, BentPlan
  <2>5. Bent(r, 3, n)'
    BY <1>2, <2>3, <2>4 DEF Bent, TurnBy, BentShape
  <2> QED
    BY <1>4, <2>1, <2>4, <2>5 DEF TileInv, BentShape
<1> QED
  BY <1>4, <1>6, <1>9, <1>10, <1>11

-----------------------------------------------------------------------------
(* To a leader: a step towards the bearing shortens one axis by one.       *)

LEMMA Halves ==
    ASSUME NEW W \in Nat, W > 0
    PROVE  W \div 2 \in Nat /\ 2 * (W \div 2) <= W /\ W <= 2 * (W \div 2) + 1
  OBVIOUS

LEMMA AxisCloser ==
    ASSUME NEW W \in Nat, W > 0, NEW u \in 0 .. W - 1, NEW v \in 0 .. W - 1, NEW w \in 0 .. W - 1
    PROVE  /\ Shortest(v - u, W) > 0 /\ (w = u + 1 \/ (u = W - 1 /\ w = 0))
                => Abs(Shortest(w - v, W)) = Abs(Shortest(u - v, W)) - 1
           /\ Shortest(v - u, W) < 0 /\ (w = u - 1 \/ (u = 0 /\ w = W - 1))
                => Abs(Shortest(w - v, W)) = Abs(Shortest(u - v, W)) - 1
<1> DEFINE h == W \div 2
<1>1. h \in Nat /\ 2 * h <= W /\ W <= 2 * h + 1
  BY Halves
<1> HIDE DEF h
<1>2. /\ u \in Int /\ v \in Int /\ w \in Int /\ W \in Int /\ h \in Int
      /\ 0 <= u /\ u < W /\ 0 <= v /\ v < W /\ 0 <= w /\ w < W
  BY <1>1
<1> DEFINE Sh(n) == IF n > h THEN n - W ELSE IF n < -h THEN n + W ELSE n
           Ab(n) == IF n < 0 THEN -n ELSE n
<1>3. ASSUME NEW n \in Int PROVE Shortest(n, W) = Sh(n) /\ Sh(n) \in Int
  BY <1>1, <1>2 DEF Shortest, h
<1>4. ASSUME NEW n \in Int PROVE Abs(n) = Ab(n)
  BY DEF Abs
<1>5. v - u \in Int /\ w - v \in Int /\ u - v \in Int
  BY <1>2
<1>6. /\ Shortest(v - u, W) = Sh(v - u)
      /\ Abs(Shortest(w - v, W)) = Ab(Sh(w - v))
      /\ Abs(Shortest(u - v, W)) = Ab(Sh(u - v))
  <2> HIDE DEF Sh, Ab
  <2> QED
    BY <1>3, <1>4, <1>5
<1>7. Sh(v - u) > 0 /\ (w = u + 1 \/ (u = W - 1 /\ w = 0)) => Ab(Sh(w - v)) = Ab(Sh(u - v)) - 1
  BY ONLY <1>1, <1>2
<1>8. Sh(v - u) < 0 /\ (w = u - 1 \/ (u = 0 /\ w = W - 1)) => Ab(Sh(w - v)) = Ab(Sh(u - v)) - 1
  BY ONLY <1>1, <1>2
<1> QED
  BY ONLY <1>6, <1>7, <1>8

LEMMA OneOver ==
    ASSUME NEW W \in Nat, W > 0, NEW u \in 0 .. W - 1
    PROVE  /\ (u + 1) % W \in 0 .. W - 1 /\ ((u + 1) % W = u + 1 \/ (u = W - 1 /\ (u + 1) % W = 0))
           /\ (u - 1) % W \in 0 .. W - 1 /\ ((u - 1) % W = u - 1 \/ (u = 0 /\ (u - 1) % W = W - 1))
<1>1. (u + 1) % W \in 0 .. W - 1 /\ (u - 1) % W \in 0 .. W - 1
  OBVIOUS
<1>2. (u + 1) % W = u + 1 \/ (u = W - 1 /\ (u + 1) % W = 0)
  <2> DEFINE v == u + 1
  <2>1. v \in 0 .. W - 1 \/ v = W
    OBVIOUS
  <2>2. v = W => u = W - 1
    OBVIOUS
  <2> HIDE DEF v
  <2>3. v \in 0 .. W - 1 => v % W = v
    BY ModSame
  <2>4. W % W = 0
    OBVIOUS
  <2>5. v % W = v \/ (u = W - 1 /\ v % W = 0)
    BY ONLY <2>1, <2>2, <2>3, <2>4
  <2> QED
    BY ONLY <2>5 DEF v
<1>3. (u - 1) % W = u - 1 \/ (u = 0 /\ (u - 1) % W = W - 1)
  <2> DEFINE v == u - 1
  <2>1. v \in 0 .. W - 1 \/ (u = 0 /\ v = -1)
    <3>1. u \in Int /\ 0 <= u /\ u < W /\ W \in Int
      OBVIOUS
    <3> QED
      BY ONLY <3>1
  <2> HIDE DEF v
  <2>2. v \in 0 .. W - 1 => v % W = v
    BY ModSame
  <2>3. (-1) % W = W - 1
    <3> DEFINE r == W - 1
    <3>1. r \in 0 .. W - 1 /\ -1 = (-1) * W + r /\ -1 \in Int
      OBVIOUS
    <3> HIDE DEF r
    <3>2. (-1) % W = r
      BY ONLY W \in Nat, W > 0, <3>1, ModOf
    <3> QED
      BY <3>2 DEF r
  <2>4. v % W = v \/ (u = 0 /\ v % W = W - 1)
    BY ONLY <2>1, <2>2, <2>3
  <2> QED
    BY ONLY <2>4 DEF v
<1> QED
  BY <1>1, <1>2, <1>3

\* How far the shortest vector to g points along orientation d.
Towards(g, p, d) ==
    Shortest(g.x - p.x, Width) * MoveX(d) + Shortest(g.y - p.y, Height) * MoveY(d)

LEMMA ShortestInt ==
    ASSUME NEW W \in Nat, W > 0, NEW v \in Int
    PROVE  Shortest(v, W) \in Int /\ Abs(Shortest(v, W)) \in Nat
<1>1. W \div 2 \in Nat
  BY Halves
<1> QED
  BY <1>1 DEF Shortest, Abs

LEMMA ShortestWithin ==
    ASSUME NEW W \in Nat, W > 0, NEW u \in 0 .. W - 1, NEW v \in 0 .. W - 1
    PROVE  Abs(Shortest(u - v, W)) <= W
<1>1. W \div 2 \in Nat /\ 2 * (W \div 2) <= W
  BY Halves
<1> QED
  BY <1>1 DEF Shortest, Abs

LEMMA PosRange ==
    ASSUME NEW p \in Pos
    PROVE  /\ p.x \in 0 .. Width - 1 /\ p.y \in 0 .. Height - 1
           /\ Width \in Nat /\ Width > 0 /\ Height \in Nat /\ Height > 0
  BY SteeringAssumption DEF Pos

LEMMA WalkWithin ==
    ASSUME NEW p \in Pos, NEW q \in Pos
    PROVE  Walk(p, q) \in Int /\ Walk(p, q) <= Width + Height
<1> DEFINE a == Abs(Shortest(p.x - q.x, Width))
           b == Abs(Shortest(p.y - q.y, Height))
<1>1. /\ p.x \in 0 .. Width - 1 /\ p.y \in 0 .. Height - 1
      /\ q.x \in 0 .. Width - 1 /\ q.y \in 0 .. Height - 1
      /\ Width \in Nat /\ Width > 0 /\ Height \in Nat /\ Height > 0
  BY PosRange
<1>2. p.x - q.x \in Int /\ p.y - q.y \in Int
  BY <1>1
<1>3. a \in Nat /\ b \in Nat
  BY <1>1, <1>2, ShortestInt
<1>4. a <= Width /\ b <= Height
  BY <1>1, ShortestWithin
<1>5. Walk(p, q) = a + b
  BY DEF Walk
<1> HIDE DEF a, b
<1> QED
  BY <1>1, <1>3, <1>4, <1>5

LEMMA StepCloser ==
    ASSUME NEW p \in Pos, NEW g \in Pos, NEW d \in Dirs, Towards(g, p, d) > 0
    PROVE  Walk(Ahead(p, d), g) = Walk(p, g) - 1
<1> DEFINE W == Width
           H == Height
           q == Ahead(p, d)
           sx == Shortest(g.x - p.x, W)
           sy == Shortest(g.y - p.y, H)
           ax == Abs(Shortest(p.x - g.x, W))
           ay == Abs(Shortest(p.y - g.y, H))
           bx == Abs(Shortest(q.x - g.x, W))
           by == Abs(Shortest(q.y - g.y, H))
<1>1. /\ p.x \in 0 .. W - 1 /\ p.y \in 0 .. H - 1 /\ g.x \in 0 .. W - 1 /\ g.y \in 0 .. H - 1
      /\ W \in Nat /\ W > 0 /\ H \in Nat /\ H > 0
  BY PosRange
<1>2. g.x - p.x \in Int /\ g.y - p.y \in Int /\ p.x - g.x \in Int /\ p.y - g.y \in Int
  BY <1>1
<1>3. sx \in Int /\ sy \in Int /\ ax \in Nat /\ ay \in Nat
  BY <1>1, <1>2, ShortestInt
<1>4. q.x = (p.x + 1 * MoveX(d)) % W /\ q.y = (p.y + 1 * MoveY(d)) % H
  BY AheadIs, Moves DEF OnMap
<1>5. Walk(q, g) = bx + by /\ Walk(p, g) = ax + ay
  BY DEF Walk
<1>6. sx * MoveX(d) + sy * MoveY(d) > 0
  BY DEF Towards
<1>7. p.x % W = p.x /\ p.y % H = p.y
  BY <1>1, ModSame
<1>8. d = 0 \/ d = 1 \/ d = 2 \/ d = 3
  BY DEF Dirs
<1>9. ASSUME d \in {1, 3} PROVE by = ay /\ bx = ax - 1
  <2>1. MoveY(d) = 0 /\ p.y + 1 * MoveY(d) = p.y
    BY <1>1, <1>9 DEF MoveY
  <2>2. q.y = p.y
    BY <1>4, <1>7, <2>1
  <2>3. CASE d = 1
    <3>1. MoveX(d) = 1 /\ p.x + 1 * MoveX(d) = p.x + 1 /\ sx > 0
      <4>1. MoveX(d) = 1
        BY <2>3 DEF MoveX
      <4> QED
        BY <1>1, <1>3, <1>6, <2>1, <4>1
    <3>2. q.x \in 0 .. W - 1 /\ (q.x = p.x + 1 \/ (p.x = W - 1 /\ q.x = 0))
      BY <1>1, <1>4, <3>1, OneOver
    <3> HIDE DEF q, W, H
    <3>3. bx = ax - 1
      BY <1>1, <3>1, <3>2, AxisCloser
    <3> QED
      BY <2>2, <3>3
  <2>4. CASE d = 3
    <3>1. MoveX(d) = -1 /\ p.x + 1 * MoveX(d) = p.x - 1 /\ sx < 0
      <4>1. MoveX(d) = -1
        BY <2>4 DEF MoveX
      <4> QED
        BY <1>1, <1>3, <1>6, <2>1, <4>1
    <3>2. q.x \in 0 .. W - 1 /\ (q.x = p.x - 1 \/ (p.x = 0 /\ q.x = W - 1))
      BY <1>1, <1>4, <3>1, OneOver
    <3> HIDE DEF q, W, H
    <3>3. bx = ax - 1
      BY <1>1, <3>1, <3>2, AxisCloser
    <3> QED
      BY <2>2, <3>3
  <2> QED
    BY <1>9, <2>3, <2>4
<1>10. ASSUME d \in {0, 2} PROVE bx = ax /\ by = ay - 1
  <2>1. MoveX(d) = 0 /\ p.x + 1 * MoveX(d) = p.x
    BY <1>1, <1>10 DEF MoveX
  <2>2. q.x = p.x
    BY <1>4, <1>7, <2>1
  <2>3. CASE d = 2
    <3>1. MoveY(d) = 1 /\ p.y + 1 * MoveY(d) = p.y + 1 /\ sy > 0
      <4>1. MoveY(d) = 1
        BY <2>3 DEF MoveY
      <4> QED
        BY <1>1, <1>3, <1>6, <2>1, <4>1
    <3>2. q.y \in 0 .. H - 1 /\ (q.y = p.y + 1 \/ (p.y = H - 1 /\ q.y = 0))
      BY <1>1, <1>4, <3>1, OneOver
    <3> HIDE DEF q, W, H
    <3>3. by = ay - 1
      BY <1>1, <3>1, <3>2, AxisCloser
    <3> QED
      BY <2>2, <3>3
  <2>4. CASE d = 0
    <3>1. MoveY(d) = -1 /\ p.y + 1 * MoveY(d) = p.y - 1 /\ sy < 0
      <4>1. MoveY(d) = -1
        BY <2>4 DEF MoveY
      <4> QED
        BY <1>1, <1>3, <1>6, <2>1, <4>1
    <3>2. q.y \in 0 .. H - 1 /\ (q.y = p.y - 1 \/ (p.y = 0 /\ q.y = H - 1))
      BY <1>1, <1>4, <3>1, OneOver
    <3> HIDE DEF q, W, H
    <3>3. by = ay - 1
      BY <1>1, <3>1, <3>2, AxisCloser
    <3> QED
      BY <2>2, <3>3
  <2> QED
    BY <1>10, <2>3, <2>4
<1> HIDE DEF q, ax, ay, bx, by
<1> QED
  BY <1>3, <1>5, <1>8, <1>9, <1>10 DEF q

\* A bearing tells the side on which the leader is.
LEMMA SectorTells ==
    ASSUME NEW front \in Int, NEW left \in Int, front # 0 \/ left # 0,
           NEW s, s = Sector(front, left)
    PROVE  /\ s \in 1 .. 8
           /\ s \in {1, 2, 8} => front > 0
           /\ s = 5 => front < 0
           /\ s \in {3, 4} => left > 0
           /\ s \in {6, 7} => left < 0
<1>1. ASSUME NEW a \in Int, NEW b \in Int, Along(a, b) PROVE a # 0
  <2>1. ASSUME a = 0 PROVE FALSE
    <3> DEFINE n == Abs(a) + Abs(b)
    <3>1. n \in Int /\ n * n < 2 * 0 * 0
      BY <1>1, <2>1 DEF Along, Abs
    <3> HIDE DEF n
    <3>2. n * n >= 0 /\ 2 * 0 * 0 = 0
      BY <3>1
    <3> QED
      BY <3>1, <3>2
  <2> QED
    BY <2>1
<1>2. ASSUME NEW a \in Int, a # 0 PROVE Along(a, 0)
  <2> DEFINE n == Abs(a)
  <2>1. Abs(0) = 0 /\ n \in Nat /\ n # 0 /\ (n = a \/ n = -a)
    BY <1>2 DEF Abs
  <2>2. n + Abs(0) = n /\ a * a = n * n
    BY <2>1
  <2>3. n * n > 0 /\ 2 * a * a = 2 * (a * a) /\ a * a \in Int
    BY <2>1
  <2>4. n * n < 2 * a * a
    BY <2>1, <2>2, <2>3
  <2> QED
    BY <2>2, <2>4 DEF Along
<1>3. Along(front, left) => front # 0
  BY <1>1
<1>4. Along(left, front) => left # 0
  BY <1>1
<1>5. left = 0 => Along(front, left)
  BY <1>2
<1>6. front = 0 => Along(left, front)
  BY <1>2
<1>7. \/ Along(front, left) /\ s = IF front > 0 THEN 1 ELSE 5
      \/ Along(left, front) /\ s = IF left > 0 THEN 3 ELSE 7
      \/ ~ Along(front, left) /\ ~ Along(left, front)
         /\ s = IF front > 0 THEN (IF left > 0 THEN 2 ELSE 8) ELSE (IF left > 0 THEN 4 ELSE 6)
  BY DEF Sector
<1> QED
  BY <1>3, <1>4, <1>5, <1>6, <1>7

LEMMA BearingTells ==
    ASSUME NEW g \in Pos, NEW p \in Pos, NEW d \in Dirs, NEW s, s = GetDirection(g, p, d)
    PROVE  /\ s \in 0 .. 8
           /\ s \in {1, 2, 8} => Towards(g, p, d) > 0
           /\ s \in {3, 4} => Towards(g, p, (d + 3) % 4) > 0
           /\ s = 5 => Towards(g, p, (d + 2) % 4) > 0
           /\ s \in {6, 7} => Towards(g, p, (d + 1) % 4) > 0
<1> DEFINE vx == Shortest(g.x - p.x, Width)
           vy == Shortest(g.y - p.y, Height)
           front == vx * MoveX(d) + vy * MoveY(d)
           right == vx * MoveX(RightOf(d)) + vy * MoveY(RightOf(d))
<1>1. /\ p.x \in 0 .. Width - 1 /\ p.y \in 0 .. Height - 1
      /\ g.x \in 0 .. Width - 1 /\ g.y \in 0 .. Height - 1
      /\ Width \in Nat /\ Width > 0 /\ Height \in Nat /\ Height > 0
  BY PosRange
<1>2. g.x - p.x \in Int /\ g.y - p.y \in Int
  BY <1>1
<1>3. vx \in Int /\ vy \in Int
  BY <1>1, <1>2, ShortestInt
<1>4. d = 0 \/ d = 1 \/ d = 2 \/ d = 3
  BY DEF Dirs
<1>5. /\ playerMove[d + 1][1] = MoveX(d) /\ playerMove[d + 1][2] = MoveY(d)
      /\ rightTile[d + 1][1] = MoveX(RightOf(d)) /\ rightTile[d + 1][2] = MoveY(RightOf(d))
  <2>1. /\ playerMove[d + 1][1] = MoveX(d) /\ playerMove[d + 1][2] = MoveY(d)
    BY <1>4 DEF playerMove, MoveX, MoveY
  <2>2. rightTile[d + 1][1] = MoveX(RightOf(d)) /\ rightTile[d + 1][2] = MoveY(RightOf(d))
    BY <1>4 DEF rightTile, RightOf, MoveX, MoveY
  <2> QED
    BY <2>1, <2>2
<1>6. s = IF vx = 0 /\ vy = 0 THEN 0 ELSE Sector(front, -right)
  BY <1>5 DEF GetDirection
<1>7. Towards(g, p, d) = front /\ Towards(g, p, RightOf(d)) = right
  BY DEF Towards
<1>8. Towards(g, p, (d + 3) % 4) = vx * (-MoveX(RightOf(d))) + vy * (-MoveY(RightOf(d)))
      /\ Towards(g, p, (d + 2) % 4) = vx * (-MoveX(d)) + vy * (-MoveY(d))
  BY Turns DEF Towards
<1>9. /\ MoveX(d) \in Int /\ MoveY(d) \in Int
      /\ MoveX(RightOf(d)) \in Int /\ MoveY(RightOf(d)) \in Int
  BY MoveInts, Turns
<1>10. vx # 0 \/ vy # 0 => front # 0 \/ right # 0
  <2>1. \/ /\ MoveX(d) = 0 /\ MoveY(RightOf(d)) = 0
           /\ MoveY(d) \in {-1, 1} /\ MoveX(RightOf(d)) \in {-1, 1}
        \/ /\ MoveY(d) = 0 /\ MoveX(RightOf(d)) = 0
           /\ MoveX(d) \in {-1, 1} /\ MoveY(RightOf(d)) \in {-1, 1}
    BY <1>4 DEF RightOf, MoveX, MoveY
  <2> HIDE DEF vx, vy
  <2> QED
    BY <1>3, <2>1
<1> HIDE DEF vx, vy
<1>11. front \in Int /\ right \in Int
  BY <1>3, <1>9
<1>12. Towards(g, p, (d + 3) % 4) = -right /\ Towards(g, p, (d + 2) % 4) = -front
  <2>1. vx * (-MoveX(RightOf(d))) + vy * (-MoveY(RightOf(d))) = -right
    BY <1>3, <1>9
  <2>2. vx * (-MoveX(d)) + vy * (-MoveY(d)) = -front
    BY <1>3, <1>9
  <2> QED
    BY <1>8, <2>1, <2>2
<1> HIDE DEF front, right
<1>13. CASE vx = 0 /\ vy = 0
  BY <1>6, <1>13
<1>14. CASE vx # 0 \/ vy # 0
  <2> DEFINE left == -right
  <2>1. left \in Int /\ (front # 0 \/ left # 0) /\ s = Sector(front, left)
    BY <1>6, <1>10, <1>11, <1>14
  <2> HIDE DEF left
  <2>2. /\ s \in 1 .. 8
        /\ s \in {1, 2, 8} => front > 0
        /\ s = 5 => front < 0
        /\ s \in {3, 4} => left > 0
        /\ s \in {6, 7} => left < 0
    BY <1>11, <2>1, SectorTells
  <2>3. (front < 0 => -front > 0) /\ (left < 0 => right > 0)
    BY <1>11 DEF left
  <2> QED
    BY <1>7, <1>12, <2>2, <2>3 DEF left, RightOf
<1> QED
  BY <1>13, <1>14

\* Where the orders of move_one_step_toward end.
Leads(p) == Walk(p, goal) <= limit

StepPlanned ==
    \/ plan = <<>> /\ Leads(here)
    \/ plan = <<"Forward">> /\ Leads(Ahead(here, way))
    \/ plan = <<"Left", "Forward">> /\ Leads(Ahead(here, (way + 3) % 4))
    \/ plan = <<"Right", "Forward">> /\ Leads(Ahead(here, (way + 1) % 4))
    \/ plan = <<"Right", "Right", "Forward">> /\ Leads(Ahead(here, (way + 2) % 4))

JoinInv ==
    errand = "join" /\ ~pushed =>
       /\ StepPlanned
       /\ target # NoTarget /\ ~moved => target = GetDirection(goal, here, way) /\ mark = Walk(here, goal)

SteeringInv == SteeringTypeOK /\ TileInv /\ JoinInv

LEMMA JoinOrder ==
    ASSUME SteeringInv, errand = "join",
           NEW order, Executes(order),
           order = "Forward" => here' = Ahead(here, way) /\ way' = way,
           order = "Left" => way' = (way + 3) % 4 /\ here' = here,
           order = "Right" => way' = (way + 1) % 4 /\ here' = here
    PROVE  JoinInv'
<1> SUFFICES ASSUME ~pushed PROVE StepPlanned' /\ moved'
  BY DEF JoinInv, Executes
<1>1. /\ plan # <<>> /\ Head(plan) = order /\ plan' = Tail(plan) /\ moved'
      /\ goal' = goal /\ limit' = limit
  BY DEF Executes
<1>2. StepPlanned /\ way \in Dirs
  BY DEF SteeringInv, JoinInv, SteeringTypeOK
<1>3. \A p : Leads(p)' <=> Walk(p, goal) <= limit
  BY <1>1 DEF Leads
<1>4. CASE plan = <<"Forward">> /\ Leads(Ahead(here, way))
  <2>1. order = "Forward" /\ plan' = <<>>
    BY <1>1, <1>4
  <2>2. here' = Ahead(here, way)
    BY <2>1
  <2>3. Leads(here)'
    BY <1>1, <1>4, <2>2 DEF Leads
  <2> QED
    BY <1>1, <2>1, <2>3 DEF StepPlanned
<1>5. CASE plan = <<"Left", "Forward">> /\ Leads(Ahead(here, (way + 3) % 4))
  <2>1. order = "Left" /\ plan' = <<"Forward">>
    BY <1>1, <1>5
  <2>2. here' = here /\ way' = (way + 3) % 4
    BY <2>1
  <2>3. Leads(Ahead(here, way))'
    BY <1>1, <1>5, <2>2 DEF Leads
  <2> QED
    BY <1>1, <2>1, <2>3 DEF StepPlanned
<1>6. CASE plan = <<"Right", "Forward">> /\ Leads(Ahead(here, (way + 1) % 4))
  <2>1. order = "Right" /\ plan' = <<"Forward">>
    BY <1>1, <1>6
  <2>2. here' = here /\ way' = (way + 1) % 4
    BY <2>1
  <2>3. Leads(Ahead(here, way))'
    BY <1>1, <1>6, <2>2 DEF Leads
  <2> QED
    BY <1>1, <2>1, <2>3 DEF StepPlanned
<1>7. CASE plan = <<"Right", "Right", "Forward">> /\ Leads(Ahead(here, (way + 2) % 4))
  <2>1. order = "Right" /\ plan' = <<"Right", "Forward">>
    BY <1>1, <1>7
  <2>2. here' = here /\ way' = (way + 1) % 4
    BY <2>1
  <2>3. (way' + 1) % 4 = (way + 2) % 4
    BY <1>2, <2>2 DEF Dirs
  <2>4. Leads(Ahead(here, (way + 1) % 4))'
    BY <1>1, <1>7, <2>2, <2>3 DEF Leads
  <2> QED
    BY <1>1, <2>1, <2>4 DEF StepPlanned
<1> QED
  BY <1>1, <1>2, <1>4, <1>5, <1>6, <1>7 DEF StepPlanned

LEMMA OrderStep ==
    ASSUME SteeringInv, NEW order \in Orders, Executes(order),
           order = "Forward" => here' = Ahead(here, way) /\ way' = way,
           order = "Left" => way' = (way + 3) % 4 /\ here' = here,
           order = "Right" => way' = (way + 1) % 4 /\ here' = here
    PROVE  SteeringInv'
<1>1. SteeringTypeOK'
  <2>1. here \in Pos /\ way \in Dirs /\ plan \in Seq({"Forward", "Left", "Right"}) /\ plan # <<>>
    BY DEF SteeringInv, SteeringTypeOK, Executes
  <2>2. here' \in Pos /\ way' \in Dirs
    BY <2>1, AheadIn, Turns DEF Orders, RightOf
  <2>3. Tail(plan) \in Seq({"Forward", "Left", "Right"})
    BY <2>1
  <2> QED
    BY <2>2, <2>3 DEF SteeringInv, SteeringTypeOK, Executes
<1>2. TileInv'
  <2>1. CASE errand = "tile" /\ ~pushed
    BY <2>1, TileOrder DEF SteeringInv
  <2>2. CASE ~ (errand = "tile" /\ ~pushed)
    BY <2>2 DEF TileInv, Executes
  <2> QED
    BY <2>1, <2>2
<1>3. JoinInv'
  <2>1. CASE errand = "join"
    BY <2>1, JoinOrder
  <2>2. CASE errand # "join"
    BY <2>2 DEF JoinInv, Executes
  <2> QED
    BY <2>1, <2>2
<1> QED
  BY <1>1, <1>2, <1>3 DEF SteeringInv

LEMMA HearStep == ASSUME SteeringInv, HearsLeader PROVE SteeringInv'
<1>1. /\ here \in Pos /\ goal \in Pos /\ way \in Dirs
      /\ errand = "join" /\ target' = GetDirection(goal, here, way) /\ mark' = Walk(here, goal)
      /\ moved' = FALSE
      /\ here' = here /\ way' = way /\ goal' = goal /\ plan' = plan /\ errand' = errand
      /\ limit' = limit /\ pushed' = pushed
  BY DEF SteeringInv, SteeringTypeOK, HearsLeader
<1>2. target' \in 0 .. 8 /\ mark' \in Int
  BY <1>1, BearingTells, WalkWithin
<1>3. SteeringTypeOK'
  BY <1>1, <1>2 DEF SteeringInv, SteeringTypeOK
<1>4. StepPlanned' <=> StepPlanned
  BY <1>1 DEF StepPlanned, Leads
<1>5. JoinInv'
  BY <1>1, <1>4 DEF SteeringInv, JoinInv
<1> QED
  BY <1>1, <1>3, <1>5 DEF SteeringInv, TileInv

LEMMA ShortSeqs ==
    ASSUME NEW S, NEW f \in S, NEW l \in S, NEW r \in S
    PROVE  /\ <<>> \in Seq(S) /\ <<f>> \in Seq(S) /\ <<l, f>> \in Seq(S)
           /\ <<r, f>> \in Seq(S) /\ <<r, r, f>> \in Seq(S)
  OBVIOUS

LEMMA FollowStep == ASSUME SteeringInv, FollowsTarget PROVE SteeringInv'
<1>1. /\ here \in Pos /\ goal \in Pos /\ way \in Dirs /\ target \in 1 .. 8
      /\ errand = "join" /\ plan' = move_one_step_toward(target) /\ target' = NoTarget
      /\ limit' = IF moved THEN Width + Height ELSE mark - 1
      /\ here' = here /\ way' = way /\ goal' = goal /\ errand' = errand
      /\ mark' = mark /\ moved' = moved /\ pushed' = pushed /\ mark \in Int
  BY DEF SteeringInv, SteeringTypeOK, FollowsTarget, NoTarget
<1>2. Width \in Nat /\ Height \in Nat
  BY SteeringAssumption
<1>3. /\ way \in Dirs /\ (way + 1) % 4 \in Dirs /\ (way + 2) % 4 \in Dirs /\ (way + 3) % 4 \in Dirs
  BY <1>1, Turns DEF RightOf
<1>4. /\ target \in {1, 2, 8} => plan' = <<"Forward">>
      /\ target \in {3, 4} => plan' = <<"Left", "Forward">>
      /\ target = 5 => plan' = <<"Right", "Right", "Forward">>
      /\ target \in {6, 7} => plan' = <<"Right", "Forward">>
  BY <1>1 DEF move_one_step_toward
<1>5. target \in {1, 2, 8} \/ target \in {3, 4} \/ target = 5 \/ target \in {6, 7}
  BY <1>1
<1>6. SteeringTypeOK'
  <2> DEFINE S == {"Forward", "Left", "Right"}
  <2>0. "Forward" \in S /\ "Left" \in S /\ "Right" \in S
    OBVIOUS
  <2> HIDE DEF S
  <2>1. plan' \in Seq(S)
    BY <1>4, <1>5, <2>0, ShortSeqs
  <2>3. plan' \in Seq({"Forward", "Left", "Right"})
    BY <2>1 DEF S
  <2>2. limit' \in Int
    BY <1>1, <1>2
  <2> QED
    BY <1>1, <2>2, <2>3 DEF SteeringInv, SteeringTypeOK
<1>7. ASSUME ~pushed PROVE StepPlanned'
  <2>1. ASSUME NEW d \in Dirs, Towards(goal, here, d) > 0 \/ moved
        PROVE  Leads(Ahead(here, d))'
    <3>1. Ahead(here, d) \in Pos
      BY <1>1, AheadIn
    <3>2. CASE moved
      <4>1. Walk(Ahead(here, d), goal) <= Width + Height
        BY <1>1, <3>1, WalkWithin
      <4> QED
        BY <1>1, <3>2, <4>1 DEF Leads
    <3>3. CASE ~ moved
      <4>1. mark = Walk(here, goal)
        BY <1>1, <1>7, <3>3 DEF SteeringInv, JoinInv, NoTarget
      <4>2. Walk(Ahead(here, d), goal) = Walk(here, goal) - 1
        BY <1>1, <2>1, <3>3, StepCloser
      <4>3. limit' = mark - 1
        BY <1>1, <3>3
      <4>4. Walk(Ahead(here, d), goal) <= limit'
        BY <1>1, <4>1, <4>2, <4>3
      <4> QED
        BY <1>1, <4>4 DEF Leads
    <3> QED
      BY <3>2, <3>3
  <2>2. ASSUME ~ moved PROVE target = GetDirection(goal, here, way)
    BY <1>1, <1>7, <2>2 DEF SteeringInv, JoinInv, NoTarget
  <2>3. \/ moved
        \/ /\ target \in {1, 2, 8} => Towards(goal, here, way) > 0
           /\ target \in {3, 4} => Towards(goal, here, (way + 3) % 4) > 0
           /\ target = 5 => Towards(goal, here, (way + 2) % 4) > 0
           /\ target \in {6, 7} => Towards(goal, here, (way + 1) % 4) > 0
    BY <1>1, <2>2, BearingTells
  <2>4. /\ target \in {1, 2, 8} => Leads(Ahead(here, way))'
        /\ target \in {3, 4} => Leads(Ahead(here, (way + 3) % 4))'
        /\ target = 5 => Leads(Ahead(here, (way + 2) % 4))'
        /\ target \in {6, 7} => Leads(Ahead(here, (way + 1) % 4))'
    <3> DEFINE d1 == (way + 1) % 4
               d2 == (way + 2) % 4
               d3 == (way + 3) % 4
    <3>1. d1 \in Dirs /\ d2 \in Dirs /\ d3 \in Dirs
      BY <1>3
    <3>2. d1' = d1 /\ d2' = d2 /\ d3' = d3
      BY <1>1
    <3> HIDE DEF d1, d2, d3
    <3>3. \/ moved
          \/ /\ target \in {1, 2, 8} => Towards(goal, here, way) > 0
             /\ target \in {3, 4} => Towards(goal, here, d3) > 0
             /\ target = 5 => Towards(goal, here, d2) > 0
             /\ target \in {6, 7} => Towards(goal, here, d1) > 0
      BY <2>3 DEF d1, d2, d3
    <3>4. target \in {1, 2, 8} => Leads(Ahead(here, way))'
      BY <1>1, <2>1, <3>3
    <3>5. target \in {3, 4} => Walk(Ahead(here', d3), goal') <= limit'
      BY <1>1, <2>1, <3>1, <3>3 DEF Leads
    <3>6. target = 5 => Walk(Ahead(here', d2), goal') <= limit'
      BY <1>1, <2>1, <3>1, <3>3 DEF Leads
    <3>7. target \in {6, 7} => Walk(Ahead(here', d1), goal') <= limit'
      BY <1>1, <2>1, <3>1, <3>3 DEF Leads
    <3> QED
      BY <1>1, <3>4, <3>5, <3>6, <3>7 DEF Leads, d1, d2, d3
  <2> QED
    BY <1>4, <1>5, <2>4 DEF StepPlanned
<1>8. JoinInv'
  BY <1>1, <1>7 DEF JoinInv
<1> QED
  BY <1>1, <1>6, <1>8 DEF SteeringInv, TileInv

LEMMA EjectStep == ASSUME SteeringInv, IsEjected PROVE SteeringInv'
<1>1. pushed' = TRUE /\ moved' = TRUE
      /\ way' = way /\ goal' = goal /\ plan' = plan /\ errand' = errand
      /\ target' = target /\ mark' = mark /\ limit' = limit
  BY DEF IsEjected
<1>2. here' \in Pos
  BY AheadIn DEF SteeringInv, SteeringTypeOK, IsEjected
<1> QED
  BY <1>1, <1>2 DEF SteeringInv, SteeringTypeOK, TileInv, JoinInv

LEMMA ChosenStep == ASSUME SteeringInv, ChoosesTile PROVE SteeringInv'
<1>1. TileInv' /\ goal' \in Pos /\ plan' \in Seq({"Forward", "Left", "Right"})
  BY ChooseStep DEF SteeringInv, Orders
<1>2. /\ errand = "tile" /\ errand' = errand /\ pushed' = FALSE /\ here' = here /\ way' = way
      /\ target' = target /\ mark' = mark /\ limit' = limit /\ moved' = moved
  BY DEF ChoosesTile
<1> QED
  BY <1>1, <1>2 DEF SteeringInv, SteeringTypeOK, JoinInv

LEMMA SteeringStarts == SteeringInit => SteeringInv
<1> SUFFICES ASSUME SteeringInit PROVE SteeringInv
  OBVIOUS
<1>1. here \in Pos /\ way \in Dirs /\ goal \in Pos /\ errand \in {"tile", "join"} /\ plan = <<>>
      /\ target = NoTarget /\ mark = 0 /\ limit = Width + Height /\ moved = FALSE /\ pushed = FALSE
  BY OnMapIn DEF SteeringInit
<1>2. SteeringTypeOK
  <2> DEFINE S == {"Forward", "Left", "Right"}
  <2> HIDE DEF S
  <2>1. plan \in Seq(S)
    BY <1>1
  <2>2. limit \in Int /\ mark \in Int
    BY <1>1, SteeringAssumption
  <2> QED
    BY <1>1, <2>1, <2>2 DEF SteeringTypeOK, S
<1>3. TileInv
  <2>1. ASSUME errand = "tile" PROVE Straight(0)
    <3>1. goal = here
      BY <2>1 DEF SteeringInit
    <3>2. Step(here, playerMove, way, 0) = goal
      BY <1>1, <3>1, StepNone
    <3> QED
      BY <1>1, <3>2 DEF Straight
  <2> QED
    BY <2>1 DEF TileInv
<1>4. JoinInv
  <2>1. Leads(here)
    BY <1>1, WalkWithin DEF Leads
  <2> QED
    BY <1>1, <2>1 DEF JoinInv, StepPlanned
<1> QED
  BY <1>2, <1>3, <1>4 DEF SteeringInv

LEMMA SteeringInvKept == SteeringInv /\ [SteeringNext]_steeringVars => SteeringInv'
<1> SUFFICES ASSUME SteeringInv, [SteeringNext]_steeringVars PROVE SteeringInv'
  OBVIOUS
<1>1. CASE Forward
  BY <1>1, OrderStep DEF Forward, Orders
<1>2. CASE Left
  BY <1>2, OrderStep DEF Left, Orders
<1>3. CASE Right
  BY <1>3, OrderStep DEF Right, Orders
<1>4. CASE ChoosesTile
  BY <1>4, ChosenStep
<1>5. CASE HearsLeader
  BY <1>5, HearStep
<1>6. CASE FollowsTarget
  BY <1>6, FollowStep
<1>7. CASE IsEjected
  BY <1>7, EjectStep
<1>8. CASE UNCHANGED steeringVars
  <2>1. StepPlanned' <=> StepPlanned
    BY <1>8 DEF steeringVars, StepPlanned, Leads
  <2>2. TileInv'
    BY <1>8 DEF SteeringInv, TileInv, Straight, Bent, steeringVars
  <2> QED
    BY <1>8, <2>1, <2>2 DEF SteeringInv, SteeringTypeOK, JoinInv, steeringVars
<1> QED
  BY <1>1, <1>2, <1>3, <1>4, <1>5, <1>6, <1>7, <1>8 DEF SteeringNext

\* On a map of any size and whatever the level lets it see, the orders of move_to_tile end
\* on the tile that Look listed under that index, and a bearing heard since the last order
\* brings the player one tile nearer to the leader (ai/src/Trantorian.py, move_to_tile and
\* move_one_step_toward; Player::getLookPos, Broadcast's direction).
THEOREM OrdersLeadThere == SteeringSpec => []GetsThere
<1>1. SteeringInv => GetsThere
  <2> SUFFICES ASSUME SteeringInv, plan = <<>>, ~pushed
               PROVE  IF errand = "tile" THEN here = goal ELSE Walk(here, goal) <= limit
    BY DEF GetsThere
  <2>1. CASE errand = "tile"
    BY <2>1, TileReached DEF SteeringInv
  <2>2. CASE errand = "join"
    BY <2>2 DEF SteeringInv, JoinInv, StepPlanned, Leads
  <2> QED
    BY <2>1, <2>2 DEF SteeringInv, SteeringTypeOK
<1> QED
  BY <1>1, SteeringStarts, SteeringInvKept, PTL DEF SteeringSpec

-----------------------------------------------------------------------------
(* The connection of an AI implements CommandPipe.                         *)

ConnectionSpec == ConnectionInit /\ [][ConnectionNext]_connectionVars

LineKinds ==
    {"welcome", "number", "size", "refused", "answer", "underway", "level", "message", "dead"}

LineSet  == [kind : LineKinds, for : 0 .. MaxAsked]
Requests == [cmd : {"Look", "Incantation"}, id : 1 .. MaxAsked]

QueueTypes ==
    /\ stream \in Seq(LineSet)
    /\ srv \in Seq(Requests) /\ queue \in Seq(Requests) /\ active \in Seq(Requests)
    /\ responses \in Seq(0 .. MaxAsked)
    /\ next_id \in 0 .. MaxAsked /\ unasked \in Nat

Held == ToSet(srv) \cup ToSet(active) \cup ToSet(queue)

OneCommandPerId == \A r, q \in Held : r.id <= next_id /\ (r.id = q.id => r = q)

LevelsAnswerRituals ==
    \A l \in ToSet(stream) : l.kind = "level" /\ l.for # 0 =>
        l.for <= next_id /\ \A r \in Held : r.id = l.for => r.cmd = "Incantation"

RitualIsOwed == ritual = "own" => srv # <<>> /\ Head(srv).cmd = "Incantation"

NothingBefore ==
    /\ stage # "up" => srv = <<>> /\ active = <<>> /\ queue = <<>> /\ responses = <<>> /\ ~running
    /\ stage \in {"welcome", "number"} => stream # <<>>

PairingInv ==
    /\ QueueTypes
    /\ OneCommandPerId
    /\ LevelsAnswerRituals
    /\ RitualIsOwed
    /\ NothingBefore

-----------------------------------------------------------------------------
(* The elements of sequences.                                              *)

LEMMA TailElements ==
    ASSUME NEW T, NEW s \in Seq(T), s # <<>>
    PROVE  /\ Tail(s) \in Seq(T) /\ Head(s) \in T /\ Head(s) \in ToSet(s)
           /\ ToSet(Tail(s)) \subseteq ToSet(s)
  BY DEF ToSet

LEMMA AppendElements ==
    ASSUME NEW T, NEW s \in Seq(T), NEW e \in T
    PROVE  Append(s, e) \in Seq(T) /\ ToSet(Append(s, e)) = ToSet(s) \cup {e}
<1>1. Append(s, e) \in Seq(T)
  OBVIOUS
<1>2. ToSet(Append(s, e)) \subseteq ToSet(s) \cup {e}
  BY DEF ToSet
<1>3. \A i \in DOMAIN s : i \in DOMAIN Append(s, e) /\ Append(s, e)[i] = s[i]
  OBVIOUS
<1>4. Len(s) + 1 \in DOMAIN Append(s, e) /\ Append(s, e)[Len(s) + 1] = e
  OBVIOUS
<1>5. ToSet(s) \subseteq ToSet(Append(s, e)) /\ e \in ToSet(Append(s, e))
  BY <1>3, <1>4 DEF ToSet
<1> QED BY <1>1, <1>2, <1>5

LEMMA ConcatElements ==
    ASSUME NEW T, NEW s \in Seq(T), NEW t \in Seq(T)
    PROVE  s \o t \in Seq(T) /\ ToSet(s \o t) \subseteq ToSet(s) \cup ToSet(t)
<1>1. s \o t \in Seq(T)
  OBVIOUS
<1> SUFFICES ASSUME NEW i \in DOMAIN (s \o t) PROVE (s \o t)[i] \in ToSet(s) \cup ToSet(t)
  BY <1>1 DEF ToSet
<1>2. CASE i <= Len(s)
  BY <1>2 DEF ToSet
<1>3. CASE i > Len(s)
  <2>1. i - Len(s) \in DOMAIN t /\ (s \o t)[i] = t[i - Len(s)]
    BY <1>3
  <2> QED BY <2>1 DEF ToSet
<1> QED BY <1>2, <1>3

LEMMA ConcatPlaces ==
    ASSUME NEW T, NEW s \in Seq(T), NEW t \in Seq(T)
    PROVE  /\ s \o t \in Seq(T) /\ Len(s \o t) = Len(s) + Len(t)
           /\ \A k \in 1 .. Len(s) : (s \o t)[k] = s[k]
           /\ \A k \in 1 .. Len(t) : (s \o t)[Len(s) + k] = t[k]
<1>1. s \o t \in Seq(T) /\ Len(s \o t) = Len(s) + Len(t)
  OBVIOUS
<1>2. \A k \in 1 .. Len(s) : (s \o t)[k] = s[k]
  OBVIOUS
<1>3. \A k \in 1 .. Len(t) : (s \o t)[Len(s) + k] = t[k]
  OBVIOUS
<1> QED BY <1>1, <1>2, <1>3

LEMMA SubSeqElements ==
    ASSUME NEW T, NEW s \in Seq(T), NEW a \in Nat \ {0}, NEW b \in 0 .. Len(s)
    PROVE  SubSeq(s, a, b) \in Seq(T) /\ ToSet(SubSeq(s, a, b)) \subseteq ToSet(s)
<1>1. \A i \in a .. b : i \in DOMAIN s
  OBVIOUS
<1>2. SubSeq(s, a, b) \in Seq(T)
  BY <1>1
<1> SUFFICES ASSUME NEW i \in DOMAIN SubSeq(s, a, b) PROVE SubSeq(s, a, b)[i] \in ToSet(s)
  BY <1>2 DEF ToSet
<1>3. a + i - 1 \in DOMAIN s /\ SubSeq(s, a, b)[i] = s[a + i - 1]
  OBVIOUS
<1> QED BY <1>3 DEF ToSet

-----------------------------------------------------------------------------
(* What a step does to the order: an answer is given, arrives, is read and *)
(* is paired; a line that is no answer comes and goes; commands are sent.  *)

ReadOnes == Seq(0 .. MaxAsked)

LEMMA AnswersOfTail ==
    ASSUME NEW lines \in Seq(LineSet), lines # <<>>
    PROVE  \A i : i \in Answers(Tail(lines)) <=> i \in Nat \ {0} /\ i + 1 \in Answers(lines)
<1>1. Len(Tail(lines)) = Len(lines) - 1 /\ \A i \in DOMAIN Tail(lines) : Tail(lines)[i] = lines[i + 1]
  OBVIOUS
<1>2. DOMAIN Tail(lines) = 1 .. Len(lines) - 1
  OBVIOUS
<1> QED BY <1>1, <1>2 DEF Answers

IsAnswer(l) == l.kind = "answer" \/ (l.kind = "level" /\ l.for # 0)

LEMMA AnswersOfAppend ==
    ASSUME NEW lines \in Seq(LineSet), NEW l \in LineSet
    PROVE  /\ \A i \in Answers(lines) : i \in 1 .. Len(lines) /\ Append(lines, l)[i] = lines[i]
           /\ Append(lines, l)[Len(lines) + 1] = l
           /\ IsAnswer(l) => Answers(Append(lines, l)) = Answers(lines) \cup {Len(lines) + 1}
           /\ ~IsAnswer(l) => Answers(Append(lines, l)) = Answers(lines)
<1> DEFINE new == Append(lines, l)
<1>1. /\ DOMAIN new = 1 .. Len(lines) + 1 /\ DOMAIN lines = 1 .. Len(lines)
      /\ \A i \in DOMAIN lines : new[i] = lines[i]
      /\ new[Len(lines) + 1] = l /\ Len(lines) \in Nat
  OBVIOUS
<1> HIDE DEF new
<1>2. \A i \in DOMAIN lines : i \in Answers(new) <=> i \in Answers(lines)
  BY <1>1 DEF Answers
<1>3. Len(lines) + 1 \in Answers(new) <=> IsAnswer(l)
  BY <1>1 DEF Answers, IsAnswer
<1>4. \A i \in Answers(new) : i \in DOMAIN lines \/ i = Len(lines) + 1
  BY <1>1 DEF Answers
<1>5. Answers(lines) \subseteq DOMAIN lines
  BY DEF Answers
<1>6. IsAnswer(l) => Answers(new) = Answers(lines) \cup {Len(lines) + 1}
  BY <1>2, <1>3, <1>4, <1>5
<1>7. ~IsAnswer(l) => Answers(new) = Answers(lines)
  BY <1>2, <1>3, <1>4, <1>5
<1> QED BY <1>1, <1>5, <1>6, <1>7 DEF new

\* What InOrder says once it is known how many lines there are and where.
Aligned(n, at, read, lines, owed, requests) ==
    /\ n \in Nat /\ Len(requests) = Len(read) + n + Len(owed)
    /\ \A k \in 1 .. Len(read) : read[k] = requests[k].id
    /\ at \in [1 .. n -> Answers(lines)]
    /\ \A j, k \in 1 .. n : j < k => at[j] < at[k]
    /\ \A i \in Answers(lines) : \E k \in 1 .. n : at[k] = i
    /\ \A k \in 1 .. n : lines[at[k]].for = requests[Len(read) + k].id
    /\ \A k \in 1 .. Len(owed) : owed[k].id = requests[Len(read) + n + k].id

LEMMA Unfold ==
    ASSUME NEW read \in ReadOnes, NEW lines \in Seq(LineSet), NEW owed \in Seq(Requests),
           NEW requests \in Seq(Requests), InOrder(read, lines, owed, requests)
    PROVE  \E n, at : Aligned(n, at, read, lines, owed, requests)
<1>1. /\ DOMAIN read = 1 .. Len(read) /\ DOMAIN owed = 1 .. Len(owed)
      /\ \A n \in 0 .. Len(requests) : n \in Nat
  BY DEF ReadOnes
<1>2. PICK n \in 0 .. Len(requests) :
        /\ Len(requests) = Len(read) + n + Len(owed)
        /\ \A k \in DOMAIN read : read[k] = requests[k].id
        /\ \E at \in [1 .. n -> Answers(lines)] :
              /\ \A j, k \in 1 .. n : j < k => at[j] < at[k]
              /\ Answers(lines) = {at[k] : k \in 1 .. n}
              /\ \A k \in 1 .. n : lines[at[k]].for = requests[Len(read) + k].id
        /\ \A k \in DOMAIN owed : owed[k].id = requests[Len(read) + n + k].id
  BY Zenon DEF InOrder
<1>3. PICK at \in [1 .. n -> Answers(lines)] :
              /\ \A j, k \in 1 .. n : j < k => at[j] < at[k]
              /\ Answers(lines) = {at[k] : k \in 1 .. n}
              /\ \A k \in 1 .. n : lines[at[k]].for = requests[Len(read) + k].id
  BY <1>2
<1>4. \A i \in Answers(lines) : \E k \in 1 .. n : at[k] = i
  BY <1>3
<1>5. Aligned(n, at, read, lines, owed, requests)
  BY <1>1, <1>2, <1>3, <1>4 DEF Aligned
<1> QED BY <1>5

LEMMA Fold ==
    ASSUME NEW read \in ReadOnes, NEW lines \in Seq(LineSet), NEW owed \in Seq(Requests),
           NEW requests \in Seq(Requests), NEW n, NEW at,
           Aligned(n, at, read, lines, owed, requests)
    PROVE  InOrder(read, lines, owed, requests)
<1>1. /\ DOMAIN read = 1 .. Len(read) /\ DOMAIN owed = 1 .. Len(owed)
      /\ n \in 0 .. Len(requests)
  BY DEF ReadOnes, Aligned
<1>2. Answers(lines) = {at[k] : k \in 1 .. n}
  BY DEF Aligned
<1> QED BY <1>1, <1>2 DEF InOrder, Aligned

\* The server answers its first command.
LEMMA AnswerComes ==
    ASSUME NEW read \in ReadOnes, NEW lines \in Seq(LineSet), NEW owed \in Seq(Requests),
           NEW requests \in Seq(Requests), InOrder(read, lines, owed, requests), owed # <<>>,
           NEW kind \in {"answer", "level"}
    PROVE  InOrder(read, Append(lines, Line(kind, Head(owed).id)), Tail(owed), requests)
<1> DEFINE l == Line(kind, Head(owed).id)
           new == Append(lines, l)
           rest == Tail(owed)
<1>1. l \in LineSet /\ IsAnswer(l) /\ l.for = owed[1].id
  <2>1. Head(owed) = owed[1] /\ owed[1] \in Requests
    OBVIOUS
  <2>2. owed[1].id \in 1 .. MaxAsked
    BY <2>1 DEF Requests
  <2> QED BY <2>1, <2>2, ConnectionAssumption DEF Line, LineSet, LineKinds, IsAnswer
<1>2. PICK n, at : Aligned(n, at, read, lines, owed, requests)
  BY Unfold
<1>3. /\ n \in Nat /\ Len(read) \in Nat /\ Len(lines) \in Nat /\ Len(owed) \in Nat \ {0}
      /\ Len(rest) = Len(owed) - 1 /\ Len(requests) = Len(read) + n + Len(owed)
      /\ \A k \in 1 .. Len(rest) : rest[k] = owed[k + 1]
      /\ rest \in Seq(Requests) /\ new \in Seq(LineSet)
  BY <1>1, <1>2 DEF Aligned, ReadOnes
<1>4. /\ \A i \in Answers(lines) : i \in 1 .. Len(lines) /\ new[i] = lines[i]
      /\ Answers(new) = Answers(lines) \cup {Len(lines) + 1} /\ new[Len(lines) + 1] = l
  BY <1>1, AnswersOfAppend
<1> HIDE DEF new, rest, l
<1> DEFINE at2 == [k \in 1 .. n + 1 |-> IF k = n + 1 THEN Len(lines) + 1 ELSE at[k]]
<1>5. /\ \A k \in 1 .. n + 1 : k = n + 1 \/ k \in 1 .. n
      /\ \A k \in 1 .. n : at2[k] = at[k] /\ at[k] \in Answers(lines)
      /\ at2[n + 1] = Len(lines) + 1 /\ DOMAIN at2 = 1 .. n + 1
      /\ \A k \in 1 .. n : k \in 1 .. n + 1
  <2>1. n \in Nat /\ \A k \in 1 .. n : at[k] \in Answers(lines)
    BY <1>2, <1>3 DEF Aligned
  <2>2. /\ \A k \in 1 .. n + 1 : k = n + 1 \/ k \in 1 .. n
        /\ \A k \in 1 .. n : k \in 1 .. n + 1 /\ k # n + 1
        /\ n + 1 \in 1 .. n + 1
    BY ONLY <2>1
  <2>3. \A k \in 1 .. n : at2[k] = at[k]
    BY <2>2
  <2>4. at2[n + 1] = Len(lines) + 1 /\ DOMAIN at2 = 1 .. n + 1
    BY <2>2
  <2> QED
    BY <2>1, <2>2, <2>3, <2>4
<1>6. at2 \in [1 .. n + 1 -> Answers(new)]
  BY <1>4, <1>5
<1> HIDE DEF at2
<1>7. ASSUME NEW j \in 1 .. n + 1, NEW k \in 1 .. n + 1, j < k PROVE at2[j] < at2[k]
  <2>1. j \in 1 .. n
    BY <1>3, <1>7
  <2>2. CASE k = n + 1
    <3>1. at2[j] \in 1 .. Len(lines) /\ at2[k] = Len(lines) + 1
      BY <1>4, <1>5, <2>1, <2>2
    <3> QED BY <1>3, <3>1
  <2>3. CASE k \in 1 .. n
    BY <1>2, <1>5, <1>7, <2>1, <2>3 DEF Aligned
  <2> QED BY <1>5, <2>2, <2>3
<1>8. \A i \in Answers(new) : \E k \in 1 .. n + 1 : at2[k] = i
  <2>1. n + 1 \in 1 .. n + 1
    BY <1>3
  <2> QED BY <1>2, <1>4, <1>5, <2>1 DEF Aligned
<1>9. ASSUME NEW k \in 1 .. n + 1 PROVE new[at2[k]].for = requests[Len(read) + k].id
  <2>1. CASE k = n + 1
    <3>1. owed[1].id = requests[Len(read) + n + 1].id
      BY <1>2, <1>3 DEF Aligned
    <3>2. Len(read) + n + 1 = Len(read) + k
      BY <1>3, <2>1
    <3> QED BY <1>1, <1>4, <1>5, <2>1, <3>1, <3>2
  <2>2. CASE k \in 1 .. n
    <3>1. lines[at[k]].for = requests[Len(read) + k].id
      BY <1>2, <2>2 DEF Aligned
    <3>2. at2[k] = at[k] /\ new[at[k]] = lines[at[k]]
      BY <1>4, <1>5, <2>2
    <3> QED
      BY <3>1, <3>2, Zenon
  <2> QED BY <1>5, <2>1, <2>2
<1>10. ASSUME NEW k \in 1 .. Len(rest) PROVE rest[k].id = requests[Len(read) + (n + 1) + k].id
  <2>1. k + 1 \in 1 .. Len(owed) /\ Len(read) + n + (k + 1) = Len(read) + (n + 1) + k
    BY <1>3
  <2>2. owed[k + 1].id = requests[Len(read) + n + (k + 1)].id
    BY <1>2, <2>1 DEF Aligned
  <2> QED BY <1>3, <2>1, <2>2
<1>11. Len(requests) = Len(read) + (n + 1) + Len(rest) /\ n + 1 \in Nat
  BY <1>3
<1>12. Aligned(n + 1, at2, read, new, rest, requests)
  BY <1>2, <1>6, <1>7, <1>8, <1>9, <1>10, <1>11 DEF Aligned
<1>13. InOrder(read, new, rest, requests)
  BY <1>3, <1>12, Fold
<1> QED BY <1>13 DEF new, rest, l

\* A line that is no answer comes, or is read.
LEMMA OtherComes ==
    ASSUME NEW read \in ReadOnes, NEW lines \in Seq(LineSet), NEW owed \in Seq(Requests),
           NEW requests \in Seq(Requests), InOrder(read, lines, owed, requests),
           NEW l \in LineSet, ~IsAnswer(l)
    PROVE  InOrder(read, Append(lines, l), owed, requests)
<1> DEFINE new == Append(lines, l)
<1>1. PICK n, at : Aligned(n, at, read, lines, owed, requests)
  BY Unfold
<1>2. /\ \A i \in Answers(lines) : new[i] = lines[i]
      /\ Answers(new) = Answers(lines) /\ new \in Seq(LineSet)
  BY AnswersOfAppend
<1> HIDE DEF new
<1>3. Aligned(n, at, read, new, owed, requests)
  BY <1>1, <1>2 DEF Aligned
<1>4. InOrder(read, new, owed, requests)
  BY <1>2, <1>3, Fold
<1> QED BY <1>4 DEF new

LEMMA OtherIsRead ==
    ASSUME NEW read \in ReadOnes, NEW lines \in Seq(LineSet), NEW owed \in Seq(Requests),
           NEW requests \in Seq(Requests), InOrder(read, lines, owed, requests),
           lines # <<>>, ~IsAnswer(Head(lines))
    PROVE  InOrder(read, Tail(lines), owed, requests)
<1> DEFINE new == Tail(lines)
<1>1. PICK n, at : Aligned(n, at, read, lines, owed, requests)
  BY Unfold
<1>2. /\ new \in Seq(LineSet) /\ Len(lines) \in Nat /\ DOMAIN lines = 1 .. Len(lines)
      /\ \A i \in DOMAIN new : new[i] = lines[i + 1] /\ i \in Nat \ {0}
      /\ Head(lines) = lines[1] /\ n \in Nat
      /\ \A i : i \in Answers(new) <=> i \in Nat \ {0} /\ i + 1 \in Answers(lines)
  BY <1>1, AnswersOfTail DEF Aligned
<1>3. /\ \A i \in Answers(new) : i \in DOMAIN new
      /\ \A i \in Answers(lines) : i \in 1 .. Len(lines) /\ i # 1
  BY <1>2 DEF Answers, IsAnswer
<1> DEFINE at2 == [k \in 1 .. n |-> at[k] - 1]
<1>4. ASSUME NEW i \in Answers(lines)
      PROVE  i - 1 \in Answers(new) /\ (i - 1) + 1 = i /\ new[i - 1] = lines[i] /\ i \in Nat
  <2>1. i - 1 \in Nat \ {0} /\ (i - 1) + 1 = i
    BY <1>2, <1>3
  <2>2. i - 1 \in Answers(new)
    BY <1>2, <2>1
  <2> QED BY <1>2, <1>3, <2>1, <2>2
<1> HIDE DEF new
<1>5. \A k \in 1 .. n : at2[k] = at[k] - 1 /\ at[k] \in Answers(lines)
  BY <1>1 DEF Aligned
<1>6. at2 \in [1 .. n -> Answers(new)]
  BY <1>4, <1>5
<1>7. ASSUME NEW j \in 1 .. n, NEW k \in 1 .. n, j < k PROVE at2[j] < at2[k]
  <2>1. at[j] < at[k]
    BY <1>1, <1>7 DEF Aligned
  <2> QED BY <1>4, <1>5, <2>1
<1>8. ASSUME NEW i \in Answers(new) PROVE \E k \in 1 .. n : at2[k] = i
  <2>1. i + 1 \in Answers(lines) /\ (i + 1) - 1 = i
    BY <1>2
  <2>2. PICK k \in 1 .. n : at[k] = i + 1
    BY <1>1, <2>1 DEF Aligned
  <2> QED BY <1>5, <2>1, <2>2
<1>9. ASSUME NEW k \in 1 .. n PROVE new[at2[k]].for = requests[Len(read) + k].id
  BY <1>1, <1>4, <1>5 DEF Aligned
<1> HIDE DEF at2
<1>10. Aligned(n, at2, read, new, owed, requests)
  BY <1>1, <1>6, <1>7, <1>8, <1>9 DEF Aligned
<1>11. InOrder(read, new, owed, requests)
  BY <1>2, <1>10, Fold
<1> QED BY <1>11 DEF new

\* An answer is read: it is the one to the first request that has none.
LEMMA AnswerIsRead ==
    ASSUME NEW read \in ReadOnes, NEW lines \in Seq(LineSet), NEW owed \in Seq(Requests),
           NEW requests \in Seq(Requests), InOrder(read, lines, owed, requests),
           lines # <<>>, IsAnswer(Head(lines))
    PROVE  /\ InOrder(Append(read, Head(lines).for), Tail(lines), owed, requests)
           /\ \E k \in DOMAIN requests : requests[k].id = Head(lines).for
<1> DEFINE new == Tail(lines)
           more == Append(read, Head(lines).for)
<1>1. PICK n, at : Aligned(n, at, read, lines, owed, requests)
  BY Unfold
<1>2. /\ new \in Seq(LineSet) /\ Len(lines) \in Nat /\ DOMAIN lines = 1 .. Len(lines)
      /\ 1 \in DOMAIN lines /\ Len(new) = Len(lines) - 1 /\ DOMAIN new = 1 .. Len(new)
      /\ \A i \in DOMAIN new : new[i] = lines[i + 1] /\ i \in Nat \ {0}
      /\ Head(lines) = lines[1] /\ n \in Nat
      /\ \A i : i \in Answers(new) <=> i \in Nat \ {0} /\ i + 1 \in Answers(lines)
  BY <1>1, AnswersOfTail DEF Aligned
<1>3. /\ \A i \in Answers(new) : i \in DOMAIN new
      /\ \A i \in Answers(lines) : i \in 1 .. Len(lines)
      /\ 1 \in Answers(lines)
  BY <1>2 DEF Answers, IsAnswer
<1>4. Head(lines).for \in 0 .. MaxAsked
  <2>1. Head(lines) \in LineSet
    BY TailElements
  <2> QED BY <2>1 DEF LineSet
<1>5. /\ more \in ReadOnes /\ Len(more) = Len(read) + 1 /\ more[Len(read) + 1] = Head(lines).for
      /\ Len(read) \in Nat /\ \A k \in 1 .. Len(read) : more[k] = read[k]
      /\ Len(owed) \in Nat
  BY <1>4 DEF ReadOnes
<1> HIDE DEF new, more
<1>6. /\ \A k \in 1 .. n : at[k] \in Answers(lines)
      /\ \A j, k \in 1 .. n : j < k => at[j] < at[k]
      /\ \A i \in Answers(lines) : \E k \in 1 .. n : at[k] = i
  BY <1>1 DEF Aligned
<1>7. 1 \in 1 .. n /\ at[1] = 1
  <2>1. PICK k \in 1 .. n : at[k] = 1
    BY <1>3, <1>6
  <2>2. k = 1
    <3> SUFFICES ASSUME k # 1 PROVE FALSE
      OBVIOUS
    <3>1. 1 \in 1 .. n /\ 1 < k
      BY <1>2
    <3>2. at[1] < at[k] /\ at[1] \in 1 .. Len(lines)
      BY <1>3, <1>6, <3>1
    <3> QED BY <1>2, <2>1, <3>2
  <2> QED BY <2>1, <2>2
<1>8. lines[1].for = requests[Len(read) + 1].id
  BY <1>1, <1>7 DEF Aligned
<1> DEFINE at2 == [k \in 1 .. n - 1 |-> at[k + 1] - 1]
<1>9. ASSUME NEW i \in Answers(lines), i # 1
      PROVE  i - 1 \in Answers(new) /\ (i - 1) + 1 = i /\ new[i - 1] = lines[i] /\ i \in Nat
  <2>1. i - 1 \in Nat \ {0} /\ (i - 1) + 1 = i
    BY <1>2, <1>3, <1>9
  <2>2. i - 1 \in Answers(new)
    BY <1>2, <2>1
  <2> QED BY <1>2, <1>3, <2>1, <2>2
<1>10. ASSUME NEW k \in 1 .. n - 1
       PROVE  /\ k + 1 \in 1 .. n /\ at2[k] = at[k + 1] - 1
              /\ at[k + 1] \in Answers(lines) /\ at[k + 1] # 1
  <2>1. k + 1 \in 1 .. n /\ 1 < k + 1
    BY <1>2
  <2>2. at[1] < at[k + 1] /\ at[k + 1] \in 1 .. Len(lines)
    BY <1>3, <1>6, <1>7, <2>1
  <2> QED BY <1>2, <1>6, <1>7, <2>1, <2>2
<1>11. at2 \in [1 .. n - 1 -> Answers(new)]
  BY <1>9, <1>10
<1>12. ASSUME NEW j \in 1 .. n - 1, NEW k \in 1 .. n - 1, j < k PROVE at2[j] < at2[k]
  <2>1. at[j + 1] < at[k + 1]
    <3>1. j + 1 < k + 1
      BY <1>2, <1>12
    <3> QED BY <1>6, <1>10, <3>1
  <2> QED BY <1>9, <1>10, <2>1
<1>13. ASSUME NEW i \in Answers(new) PROVE \E k \in 1 .. n - 1 : at2[k] = i
  <2>1. i + 1 \in Answers(lines) /\ (i + 1) - 1 = i /\ i + 1 # 1
    BY <1>2
  <2>2. PICK k \in 1 .. n : at[k] = i + 1
    BY <1>6, <2>1
  <2>3. k - 1 \in 1 .. n - 1 /\ (k - 1) + 1 = k
    BY <1>2, <1>7, <2>1, <2>2
  <2>4. at2[k - 1] = i
    BY <1>10, <2>1, <2>2, <2>3
  <2> QED BY <2>3, <2>4
<1> HIDE DEF at2
<1>14. ASSUME NEW k \in 1 .. n - 1 PROVE new[at2[k]].for = requests[Len(more) + k].id
  <2>1. lines[at[k + 1]].for = requests[Len(read) + (k + 1)].id
    BY <1>1, <1>10 DEF Aligned
  <2>2. Len(read) + (k + 1) = Len(more) + k
    BY <1>5
  <2> QED BY <1>9, <1>10, <2>1, <2>2
<1>15. ASSUME NEW k \in 1 .. Len(more) PROVE more[k] = requests[k].id
  <2>1. CASE k \in 1 .. Len(read)
    BY <1>1, <1>5, <2>1 DEF Aligned
  <2>2. CASE k = Len(read) + 1
    BY <1>2, <1>5, <1>8, <2>2
  <2> QED BY <1>5, <2>1, <2>2
<1>16. /\ n - 1 \in Nat /\ Len(requests) = Len(more) + (n - 1) + Len(owed)
       /\ Len(more) + (n - 1) = Len(read) + n
  BY <1>1, <1>2, <1>5, <1>7 DEF Aligned
<1>17. \A k \in 1 .. Len(owed) : owed[k].id = requests[Len(more) + (n - 1) + k].id
  BY <1>1, <1>16 DEF Aligned
<1>18. Aligned(n - 1, at2, more, new, owed, requests)
  BY <1>11, <1>12, <1>13, <1>14, <1>15, <1>16, <1>17 DEF Aligned
<1>19. InOrder(more, new, owed, requests)
  BY <1>2, <1>5, <1>18, Fold
<1>20. Len(read) + 1 \in DOMAIN requests
  BY <1>5, <1>16
<1> QED BY <1>2, <1>8, <1>19, <1>20 DEF new, more

\* The answer that was read first is for the request that was sent first.
LEMMA AnswerIsPaired ==
    ASSUME NEW read \in ReadOnes, NEW lines \in Seq(LineSet), NEW owed \in Seq(Requests),
           NEW requests \in Seq(Requests), InOrder(read, lines, owed, requests), read # <<>>
    PROVE  /\ requests # <<>> /\ Head(read) = Head(requests).id
           /\ InOrder(Tail(read), lines, owed, Tail(requests))
<1> DEFINE less == Tail(read)
           rest == Tail(requests)
<1>1. PICK n, at : Aligned(n, at, read, lines, owed, requests)
  BY Unfold
<1>2. /\ Len(read) \in Nat \ {0} /\ n \in Nat /\ Len(owed) \in Nat /\ Len(requests) \in Nat
      /\ Len(requests) = Len(read) + n + Len(owed) /\ less \in ReadOnes
      /\ Len(less) = Len(read) - 1 /\ Head(read) = read[1]
      /\ \A k \in 1 .. Len(less) : less[k] = read[k + 1]
  BY <1>1 DEF Aligned, ReadOnes
<1>3. Len(requests) # 0
  BY <1>2
<1>4. /\ requests # <<>> /\ rest \in Seq(Requests) /\ Len(rest) = Len(requests) - 1
      /\ \A k \in 1 .. Len(rest) : rest[k] = requests[k + 1]
      /\ Head(requests) = requests[1]
  BY <1>3
<1> HIDE DEF less, rest
<1>5. 1 \in 1 .. Len(read)
  BY <1>2
<1>6. read[1] = requests[1].id
  BY <1>1, <1>5 DEF Aligned
<1>7. ASSUME NEW k \in 1 .. Len(less) PROVE less[k] = rest[k].id
  <2>1. k + 1 \in 1 .. Len(read) /\ k \in 1 .. Len(rest)
    BY <1>2, <1>4
  <2> QED BY <1>1, <1>2, <1>4, <2>1 DEF Aligned
<1>8. ASSUME NEW k \in 1 .. n PROVE lines[at[k]].for = rest[Len(less) + k].id
  <2>1. Len(less) + k \in 1 .. Len(rest) /\ (Len(less) + k) + 1 = Len(read) + k
    BY <1>2, <1>4
  <2>2. rest[Len(less) + k] = requests[Len(read) + k]
    BY <1>4, <2>1
  <2> QED BY <1>1, <2>2 DEF Aligned
<1>9. ASSUME NEW k \in 1 .. Len(owed) PROVE owed[k].id = rest[Len(less) + n + k].id
  <2>1. Len(less) + n + k \in 1 .. Len(rest) /\ (Len(less) + n + k) + 1 = Len(read) + n + k
    BY <1>2, <1>4
  <2>2. rest[Len(less) + n + k] = requests[Len(read) + n + k]
    BY <1>4, <2>1
  <2> QED BY <1>1, <2>2 DEF Aligned
<1>10. Len(rest) = Len(less) + n + Len(owed)
  BY <1>2, <1>4
<1>11. Aligned(n, at, less, lines, owed, rest)
  BY <1>1, <1>7, <1>8, <1>9, <1>10 DEF Aligned
<1>12. InOrder(less, lines, owed, rest)
  BY <1>2, <1>4, <1>11, Fold
<1> QED BY <1>2, <1>4, <1>6, <1>12 DEF less, rest

\* What is sent is owed.
LEMMA RequestsAreSent ==
    ASSUME NEW read \in ReadOnes, NEW lines \in Seq(LineSet), NEW owed \in Seq(Requests),
           NEW requests \in Seq(Requests), InOrder(read, lines, owed, requests),
           NEW sent \in Seq(Requests)
    PROVE  /\ InOrder(read, lines, owed \o sent, requests \o sent)
           /\ Len(owed) <= Len(requests)
<1> DEFINE more == owed \o sent
           all == requests \o sent
<1>1. PICK n, at : Aligned(n, at, read, lines, owed, requests)
  BY Unfold
<1>2. /\ Len(read) \in Nat /\ n \in Nat /\ Len(owed) \in Nat /\ Len(requests) \in Nat /\ Len(sent) \in Nat
      /\ Len(requests) = Len(read) + n + Len(owed)
  BY <1>1 DEF Aligned, ReadOnes
<1>3. /\ all \in Seq(Requests) /\ Len(all) = Len(requests) + Len(sent)
      /\ \A k \in 1 .. Len(requests) : all[k] = requests[k]
      /\ \A k \in 1 .. Len(sent) : all[Len(requests) + k] = sent[k]
      /\ more \in Seq(Requests) /\ Len(more) = Len(owed) + Len(sent)
      /\ \A k \in 1 .. Len(owed) : more[k] = owed[k]
      /\ \A k \in 1 .. Len(sent) : more[Len(owed) + k] = sent[k]
  BY ConcatPlaces
<1> HIDE DEF more, all
<1>4. ASSUME NEW k \in 1 .. Len(read) PROVE read[k] = all[k].id
  <2>1. k \in 1 .. Len(requests)
    BY <1>2
  <2> QED BY <1>1, <1>3, <2>1 DEF Aligned
<1>5. ASSUME NEW k \in 1 .. n PROVE lines[at[k]].for = all[Len(read) + k].id
  <2>1. Len(read) + k \in 1 .. Len(requests)
    BY <1>2
  <2> QED BY <1>1, <1>3, <2>1 DEF Aligned
<1>6. ASSUME NEW k \in 1 .. Len(more) PROVE more[k].id = all[Len(read) + n + k].id
  <2>1. CASE k \in 1 .. Len(owed)
    <3>1. Len(read) + n + k \in 1 .. Len(requests)
      BY <1>2, <2>1
    <3> QED BY <1>1, <1>3, <2>1, <3>1 DEF Aligned
  <2>2. CASE k \notin 1 .. Len(owed)
    <3>1. /\ k - Len(owed) \in 1 .. Len(sent) /\ Len(owed) + (k - Len(owed)) = k
          /\ Len(requests) + (k - Len(owed)) = Len(read) + n + k
      BY <1>2, <1>3, <2>2
    <3> QED BY <1>3, <3>1
  <2> QED BY <2>1, <2>2
<1>7. Len(all) = Len(read) + n + Len(more)
  BY <1>2, <1>3
<1>8. Aligned(n, at, read, lines, more, all)
  BY <1>1, <1>4, <1>5, <1>6, <1>7 DEF Aligned
<1>9. InOrder(read, lines, more, all)
  BY <1>3, <1>8, Fold
<1>10. Len(owed) <= Len(requests)
  BY <1>2
<1> QED BY <1>9, <1>10 DEF more, all

\* A line that answers nothing and looks as if it did is never in order.
LEMMA StraysAreSeen ==
    ASSUME NEW read \in ReadOnes, NEW lines \in Seq(LineSet), NEW owed \in Seq(Requests),
           NEW requests \in Seq(Requests),
           (\E i \in Answers(lines) : lines[i].for = 0) \/ (\E i \in DOMAIN read : read[i] = 0)
    PROVE  ~InOrder(read, lines, owed, requests)
<1> SUFFICES ASSUME InOrder(read, lines, owed, requests) PROVE FALSE
  OBVIOUS
<1>1. PICK n, at : Aligned(n, at, read, lines, owed, requests)
  BY Unfold
<1>2. /\ Len(read) \in Nat /\ n \in Nat /\ Len(owed) \in Nat /\ Len(requests) \in Nat
      /\ Len(requests) = Len(read) + n + Len(owed) /\ DOMAIN read = 1 .. Len(read)
  BY <1>1 DEF Aligned, ReadOnes
<1>3. \A k \in 1 .. Len(requests) : requests[k].id # 0
  <2> SUFFICES ASSUME NEW k \in 1 .. Len(requests) PROVE requests[k].id # 0
    OBVIOUS
  <2>1. requests[k] \in Requests
    OBVIOUS
  <2> QED BY <2>1, ConnectionAssumption DEF Requests
<1>4. CASE \E i \in Answers(lines) : lines[i].for = 0
  <2>1. PICK i \in Answers(lines) : lines[i].for = 0
    BY <1>4
  <2>2. PICK k \in 1 .. n : at[k] = i
    BY <1>1 DEF Aligned
  <2>3. Len(read) + k \in 1 .. Len(requests)
    BY <1>2
  <2> QED BY <1>1, <1>3, <2>1, <2>2, <2>3 DEF Aligned
<1>5. CASE \E i \in DOMAIN read : read[i] = 0
  <2>1. PICK i \in 1 .. Len(read) : read[i] = 0
    BY <1>2, <1>5
  <2>2. i \in 1 .. Len(requests)
    BY <1>2
  <2> QED BY <1>1, <1>3, <2>1, <2>2 DEF Aligned
<1> QED BY <1>4, <1>5

\* Before anything is asked nothing is to come.
LEMMA NothingComes ==
    ASSUME NEW lines \in Seq(LineSet)
    PROVE  InOrder(<<>>, lines, <<>>, <<>>) <=> Answers(lines) = {}
<1>1. <<>> \in ReadOnes /\ <<>> \in Seq(Requests) /\ Len(<<>>) = 0
  BY DEF ReadOnes
<1>2. ASSUME InOrder(<<>>, lines, <<>>, <<>>) PROVE Answers(lines) = {}
  <2>1. PICK n, at : Aligned(n, at, <<>>, lines, <<>>, <<>>)
    BY <1>1, <1>2, Unfold
  <2>2. n = 0
    BY <1>1, <2>1 DEF Aligned
  <2>3. 1 .. n = {}
    BY <2>2
  <2> QED BY <2>1, <2>3 DEF Aligned
<1>3. ASSUME Answers(lines) = {} PROVE InOrder(<<>>, lines, <<>>, <<>>)
  <2> DEFINE at == [k \in 1 .. 0 |-> 0]
  <2>1. at \in [1 .. 0 -> Answers(lines)] /\ 1 .. 0 = {}
    OBVIOUS
  <2>2. Aligned(0, at, <<>>, lines, <<>>, <<>>)
    BY <1>1, <1>3, <2>1 DEF Aligned
  <2> QED BY <1>1, <2>2, Fold
<1> QED BY <1>2, <1>3

-----------------------------------------------------------------------------
(* Steps of CommandPipe.                                                   *)

InStep == InOrder(responses, stream, srv, active)
Asked  == IdsOf(active \o queue)

LEMMA InStepIsBoolean == InStep \in BOOLEAN /\ InStep' \in BOOLEAN
  BY DEF InStep, InOrder

\* A step that nobody asks or answers in may only bring the two sides back in step.
LEMMA QuietStep ==
    ASSUME UNCHANGED <<Asked, response_buffer, unasked>>, InStep => InStep'
    PROVE  [Pipe!PipeNext]_(Pipe!pipe)
<1>1. CASE InStep' = InStep
  <2>1. UNCHANGED <<Asked, response_buffer, InStep, unasked>>
    BY <1>1
  <2> QED BY <2>1 DEF Pipe!pipe, Asked, InStep
<1>2. CASE InStep' # InStep
  <2>1. ~InStep /\ InStep' = TRUE
    BY <1>2, InStepIsBoolean
  <2>2. Pipe!Recover
    BY <2>1 DEF Pipe!Recover, Asked, InStep
  <2> QED BY <2>2 DEF Pipe!PipeNext
<1> QED BY <1>1, <1>2

LEMMA StrayStep ==
    ASSUME UNCHANGED <<Asked, response_buffer>>, unasked' = unasked + 1, ~InStep'
    PROVE  [Pipe!PipeNext]_(Pipe!pipe)
<1>1. InStep' = FALSE
  BY InStepIsBoolean
<1>2. Pipe!Stray
  BY <1>1 DEF Pipe!Stray, Asked, InStep
<1> QED BY <1>2 DEF Pipe!PipeNext

-----------------------------------------------------------------------------
(* The invariant, for steps that hand in nothing new.                      *)

\* Commands only leave, and a line that comes is none about a level, or one about the
\* level of a ritual.
LEMMA NothingNew ==
    ASSUME OneCommandPerId, LevelsAnswerRituals, Held' \subseteq Held, UNCHANGED next_id,
           \A l \in ToSet(stream') : l.kind = "level" /\ l.for # 0 =>
              \/ l \in ToSet(stream)
              \/ l.for <= next_id /\ \A r \in Held : r.id = l.for => r.cmd = "Incantation"
    PROVE  OneCommandPerId' /\ LevelsAnswerRituals'
<1>1. OneCommandPerId'
  <2> SUFFICES ASSUME NEW r \in Held', NEW q \in Held'
               PROVE  r.id <= next_id' /\ (r.id = q.id => r = q)
    BY DEF OneCommandPerId
  <2> QED BY DEF OneCommandPerId
<1>2. LevelsAnswerRituals'
  <2> SUFFICES ASSUME NEW l \in ToSet(stream'), l.kind = "level", l.for # 0
               PROVE  l.for <= next_id' /\ \A r \in Held' : r.id = l.for => r.cmd = "Incantation"
    BY DEF LevelsAnswerRituals
  <2> QED BY DEF LevelsAnswerRituals
<1> QED BY <1>1, <1>2

\* The server sends a line, and may be done with a command.
LEMMA ServerSends ==
    ASSUME PairingInv, NEW l \in LineSet, stream' = Append(stream, l), clientRest, unasked' \in Nat,
           srv' = srv \/ (srv # <<>> /\ srv' = Tail(srv)),
           l.kind = "level" /\ l.for # 0 =>
              l.for <= next_id /\ \A r \in Held : r.id = l.for => r.cmd = "Incantation"
    PROVE  /\ QueueTypes' /\ OneCommandPerId' /\ LevelsAnswerRituals' /\ NothingBefore'
           /\ UNCHANGED <<Asked, response_buffer>>
<1>1. QueueTypes /\ NothingBefore /\ OneCommandPerId /\ LevelsAnswerRituals
  BY DEF PairingInv
<1>2. UNCHANGED <<stage, queue, active, responses, response_buffer, next_id, running>>
  BY DEF clientRest
<1>3. stream' \in Seq(LineSet) /\ ToSet(stream') = ToSet(stream) \cup {l} /\ stream' # <<>>
  BY <1>1, AppendElements DEF QueueTypes
<1>4. srv' \in Seq(Requests) /\ ToSet(srv') \subseteq ToSet(srv)
  BY <1>1, TailElements DEF QueueTypes
<1>5. QueueTypes'
  BY <1>1, <1>2, <1>3, <1>4 DEF QueueTypes
<1>6. Held' \subseteq Held
  BY <1>2, <1>4 DEF Held
<1>7. OneCommandPerId' /\ LevelsAnswerRituals'
  BY <1>1, <1>2, <1>3, <1>6, NothingNew
<1>8. NothingBefore'
  BY <1>1, <1>2, <1>3 DEF NothingBefore
<1> QED BY <1>2, <1>5, <1>7, <1>8 DEF Asked

\* The line answers the first command the server has.
LEMMA ServerAnswers ==
    ASSUME PairingInv, NEW kind \in {"answer", "level"}, srv # <<>>, Sends(kind, Head(srv).id),
           srv' = Tail(srv), clientRest, UNCHANGED unasked,
           kind = "level" => Head(srv).cmd = "Incantation", ritual' # "own"
    PROVE  PairingInv' /\ [Pipe!PipeNext]_(Pipe!pipe)
<1> DEFINE l == Line(kind, Head(srv).id)
<1>1. QueueTypes /\ OneCommandPerId
  BY DEF PairingInv
<1>2. Head(srv) \in Requests /\ Head(srv) \in ToSet(srv)
  BY <1>1, TailElements DEF QueueTypes
<1>3. Head(srv) \in Held /\ Head(srv).id \in 1 .. MaxAsked
  BY <1>2 DEF Held, Requests
<1>4. l \in LineSet /\ l.kind = kind /\ l.for = Head(srv).id /\ stream' = Append(stream, l)
  BY <1>3 DEF Line, LineSet, LineKinds, Sends
<1>5. Head(srv).id <= next_id /\ \A r \in Held : r.id = Head(srv).id => r = Head(srv)
  BY <1>1, <1>3 DEF OneCommandPerId
<1>6. unasked' \in Nat
  BY <1>1 DEF QueueTypes
<1>7. /\ QueueTypes' /\ OneCommandPerId' /\ LevelsAnswerRituals' /\ NothingBefore'
      /\ UNCHANGED <<Asked, response_buffer>>
  BY <1>4, <1>5, <1>6, ServerSends
<1>8. RitualIsOwed'
  BY DEF RitualIsOwed
<1>9. InStep => InStep'
  <2> SUFFICES ASSUME InOrder(responses, stream, srv, active)
               PROVE  InOrder(responses, stream', srv', active)
    BY DEF InStep, clientRest
  <2>1. InOrder(responses, Append(stream, l), Tail(srv), active)
    BY <1>1, AnswerComes DEF QueueTypes, ReadOnes
  <2> QED BY <1>4, <2>1
<1>10. [Pipe!PipeNext]_(Pipe!pipe)
  BY <1>7, <1>9, QuietStep
<1> QED BY <1>7, <1>8, <1>10 DEF PairingInv

\* The line answers no command: it takes the two sides out of step if it looks like an
\* answer, and is counted then.
LEMMA ServerTells ==
    ASSUME PairingInv, NEW kind \in LineKinds, Sends(kind, 0), UNCHANGED srv, clientRest,
           unasked' = IF kind = "answer" THEN unasked + 1 ELSE unasked,
           ritual' = "own" => ritual = "own" \/ (srv # <<>> /\ Head(srv).cmd = "Incantation")
    PROVE  PairingInv' /\ [Pipe!PipeNext]_(Pipe!pipe)
<1> DEFINE l == Line(kind, 0)
<1>1. QueueTypes /\ RitualIsOwed
  BY DEF PairingInv
<1>2. l \in LineSet /\ l.kind = kind /\ l.for = 0 /\ stream' = Append(stream, l)
  BY ConnectionAssumption DEF Line, LineSet, Sends
<1>3. unasked' \in Nat
  BY <1>1 DEF QueueTypes
<1>4. /\ QueueTypes' /\ OneCommandPerId' /\ LevelsAnswerRituals' /\ NothingBefore'
      /\ UNCHANGED <<Asked, response_buffer>>
  BY <1>2, <1>3, ServerSends
<1>5. RitualIsOwed'
  BY <1>1 DEF RitualIsOwed
<1>6. IsAnswer(l) <=> kind = "answer"
  BY <1>2 DEF IsAnswer
<1>7. /\ responses \in ReadOnes /\ stream \in Seq(LineSet) /\ srv \in Seq(Requests) /\ active \in Seq(Requests)
      /\ stream' \in Seq(LineSet) /\ responses' = responses /\ active' = active
  BY <1>1, <1>4 DEF QueueTypes, ReadOnes, clientRest
<1> HIDE DEF l
<1>8. CASE kind = "answer"
  <2>1. Len(stream) + 1 \in Answers(stream') /\ stream'[Len(stream) + 1].for = 0
    BY <1>2, <1>6, <1>7, <1>8, AnswersOfAppend
  <2>2. ~InOrder(responses', stream', srv', active')
    BY <1>7, <2>1, StraysAreSeen
  <2> QED BY <1>4, <1>5, <1>8, <2>2, StrayStep DEF PairingInv, InStep
<1>9. CASE kind # "answer"
  <2>1. InStep => InStep'
    BY <1>2, <1>6, <1>7, <1>9, OtherComes DEF InStep
  <2> QED BY <1>4, <1>5, <1>9, <2>1, QuietStep DEF PairingInv
<1> QED BY <1>8, <1>9

LEMMA ServerStep ==
    ASSUME PairingInv,
           AnswersCommand \/ OwnRitualEnds \/ IsFrozen \/ TheirRitualEnds \/ SendsNews
    PROVE  PairingInv' /\ [Pipe!PipeNext]_(Pipe!pipe)
<1> USE DEF LineKinds
<1>1. CASE AnswersCommand
  <2>1. CASE Sends("answer", Head(srv).id) /\ srv' = Tail(srv) /\ UNCHANGED ritual
    BY <1>1, <2>1, ServerAnswers DEF AnswersCommand
  <2>2. CASE /\ Head(srv).cmd = "Incantation"
             /\ Sends("underway", 0) /\ ritual' = "own" /\ UNCHANGED srv
    BY <1>1, <2>2, ServerTells DEF AnswersCommand
  <2> QED BY <1>1, <2>1, <2>2 DEF AnswersCommand
<1>2. CASE OwnRitualEnds
  <2>1. srv # <<>> /\ Head(srv).cmd = "Incantation"
    BY <1>2 DEF OwnRitualEnds, PairingInv, RitualIsOwed
  <2> QED BY <1>2, <2>1, ServerAnswers DEF OwnRitualEnds
<1>3. CASE IsFrozen
  BY <1>3, ServerTells DEF IsFrozen
<1>4. CASE TheirRitualEnds
  BY <1>4, ServerTells DEF TheirRitualEnds
<1>5. CASE SendsNews
  BY <1>5, ServerTells DEF SendsNews
<1> QED BY <1>1, <1>2, <1>3, <1>4, <1>5

-----------------------------------------------------------------------------
(* The handshake: nothing is asked yet, so the two sides are in step while *)
(* no line looks like an answer.                                           *)

LEMMA HandshakeKeeps ==
    ASSUME PairingInv, stage # "up", UNCHANGED callerVars, UNCHANGED serverVars,
           UNCHANGED <<active, responses>>, running' => stage' = "up",
           stream' \in Seq(LineSet), unasked' \in Nat,
           stage' \in {"welcome", "number"} => stream' # <<>>,
           \A l \in ToSet(stream') : l.kind = "level" /\ l.for # 0 => l \in ToSet(stream)
    PROVE  /\ PairingInv' /\ UNCHANGED <<Asked, response_buffer>>
           /\ InStep <=> Answers(stream) = {}
           /\ InStep' <=> Answers(stream') = {}
<1>1. /\ QueueTypes /\ OneCommandPerId /\ LevelsAnswerRituals /\ RitualIsOwed
      /\ srv = <<>> /\ active = <<>> /\ queue = <<>> /\ responses = <<>>
  BY DEF PairingInv, NothingBefore
<1>2. UNCHANGED <<srv, ritual, queue, active, responses, response_buffer, next_id>>
  BY DEF callerVars, serverVars
<1>3. QueueTypes'
  BY <1>1, <1>2 DEF QueueTypes
<1>4. Held' = Held
  BY <1>2 DEF Held
<1>5. OneCommandPerId' /\ LevelsAnswerRituals'
  BY <1>1, <1>2, <1>4, NothingNew
<1>6. RitualIsOwed' /\ NothingBefore'
  BY <1>1, <1>2 DEF RitualIsOwed, NothingBefore
<1>7. stream \in Seq(LineSet)
  BY <1>1 DEF QueueTypes
<1>8. InStep <=> Answers(stream) = {}
  BY <1>1, <1>7, NothingComes DEF InStep
<1>9. InStep' <=> Answers(stream') = {}
  BY <1>1, <1>2, NothingComes DEF InStep
<1> QED BY <1>2, <1>3, <1>5, <1>6, <1>8, <1>9 DEF PairingInv, Asked

LEMMA FreshLines ==
    ASSUME NEW kind \in LineKinds \ {"answer", "level"}
    PROVE  /\ <<Line(kind, 0)>> \in Seq(LineSet) /\ <<Line(kind, 0)>> # <<>>
           /\ Answers(<<Line(kind, 0)>>) = {}
           /\ \A l \in ToSet(<<Line(kind, 0)>>) : l.kind # "level"
<1>1. Line(kind, 0) \in LineSet /\ Line(kind, 0).kind = kind
  BY ConnectionAssumption DEF Line, LineSet
<1>2. DOMAIN <<Line(kind, 0)>> = {1} /\ <<Line(kind, 0)>>[1] = Line(kind, 0)
  OBVIOUS
<1> QED BY <1>1, <1>2 DEF Answers, ToSet

LEMMA NumberAndSize ==
    LET two == <<Line("number", 0), Line("size", 0)>> IN
    /\ two \in Seq(LineSet) /\ two # <<>> /\ Answers(two) = {}
    /\ \A l \in ToSet(two) : l.kind # "level"
<1> DEFINE two == <<Line("number", 0), Line("size", 0)>>
<1>1. /\ Line("number", 0) \in LineSet /\ Line("number", 0).kind = "number"
      /\ Line("size", 0) \in LineSet /\ Line("size", 0).kind = "size"
  BY ConnectionAssumption DEF Line, LineSet, LineKinds
<1>2. DOMAIN two = {1, 2} /\ two[1] = Line("number", 0) /\ two[2] = Line("size", 0)
  OBVIOUS
<1>3. two \in Seq(LineSet) /\ two # <<>>
  BY <1>1
<1> HIDE DEF two
<1>4. Answers(two) = {} /\ \A l \in ToSet(two) : l.kind # "level"
  BY <1>1, <1>2 DEF Answers, ToSet
<1> QED BY <1>3, <1>4 DEF two

\* What is left of a stream whose first lines are forgotten has only the answers it had.
LEMMA AnswersOfRest ==
    ASSUME NEW lines \in Seq(LineSet), NEW n \in 1 .. Len(lines), Answers(lines) = {}
    PROVE  Answers(SubSeq(lines, n + 1, Len(lines))) = {}
<1> DEFINE kept == SubSeq(lines, n + 1, Len(lines))
<1>1. \A i \in DOMAIN kept : n + i \in DOMAIN lines /\ kept[i] = lines[n + i]
  OBVIOUS
<1> HIDE DEF kept
<1>2. Answers(kept) = {}
  BY <1>1 DEF Answers
<1> QED BY <1>2 DEF kept

LEMMA HearsSizeStep ==
    ASSUME PairingInv, HearsSize
    PROVE  PairingInv' /\ [Pipe!PipeNext]_(Pipe!pipe)
<1>1. stream \in Seq(LineSet) /\ unasked \in Nat
  BY DEF PairingInv, QueueTypes
<1>2. /\ stage # "up" /\ stage' = "up" /\ UNCHANGED callerVars /\ UNCHANGED serverVars
      /\ UNCHANGED <<active, responses>>
  BY DEF HearsSize
<1>3. PICK n \in 1 .. Len(stream) :
          LET kept == SubSeq(stream, n + 1, Len(stream)) IN
          \/ stream' = kept /\ UNCHANGED unasked
          \/ /\ kept # <<>>
             /\ stream' = <<Line("answer", 0)>> \o Tail(kept)
             /\ unasked' = unasked + (IF Head(kept) = Line("answer", 0) THEN 0 ELSE 1)
  BY DEF HearsSize
<1> DEFINE kept == SubSeq(stream, n + 1, Len(stream))
<1>4. n + 1 \in Nat \ {0} /\ Len(stream) \in 0 .. Len(stream)
  BY <1>1
<1>5. kept \in Seq(LineSet) /\ ToSet(kept) \subseteq ToSet(stream)
  BY <1>1, <1>4, SubSeqElements
<1>6. Answers(stream) = {} => Answers(kept) = {}
  BY <1>1, AnswersOfRest
<1> HIDE DEF kept
<1>7. CASE stream' = kept /\ UNCHANGED unasked
  <2>1. /\ PairingInv' /\ UNCHANGED <<Asked, response_buffer>>
        /\ InStep <=> Answers(stream) = {}
        /\ InStep' <=> Answers(stream') = {}
    BY <1>1, <1>2, <1>5, <1>7, HandshakeKeeps
  <2> QED BY <1>6, <1>7, <2>1, QuietStep
<1>8. CASE /\ kept # <<>>
           /\ stream' = <<Line("answer", 0)>> \o Tail(kept)
           /\ unasked' = unasked + (IF Head(kept) = Line("answer", 0) THEN 0 ELSE 1)
  <2> DEFINE a == Line("answer", 0)
             rest == Tail(kept)
  <2>1. a \in LineSet /\ a.kind = "answer" /\ a.for = 0
    BY ConnectionAssumption DEF Line, LineSet, LineKinds
  <2>2. rest \in Seq(LineSet) /\ ToSet(rest) \subseteq ToSet(kept)
    BY <1>5, <1>8, TailElements
  <2> HIDE DEF a, rest
  <2>3. /\ <<a>> \in Seq(LineSet) /\ ToSet(<<a>>) = {a} /\ DOMAIN <<a>> = 1 .. 1 /\ <<a>>[1] = a
        /\ Len(<<a>>) = 1
    BY <2>1 DEF ToSet
  <2>4. /\ stream' \in Seq(LineSet) /\ ToSet(stream') \subseteq {a} \cup ToSet(kept)
        /\ 1 \in DOMAIN stream' /\ stream'[1] = a
    <3>1. stream' = <<a>> \o rest
      BY <1>8 DEF a, rest
    <3>2. stream' \in Seq(LineSet) /\ ToSet(stream') \subseteq ToSet(<<a>>) \cup ToSet(rest)
      BY <2>2, <2>3, <3>1, ConcatElements
    <3>3. /\ Len(stream') = 1 + Len(rest) /\ stream'[1] = a
      BY <2>2, <2>3, <3>1, ConcatPlaces
    <3>4. Len(rest) \in Nat
      BY <2>2
    <3>5. DOMAIN stream' = 1 .. Len(stream')
      BY <3>2
    <3> QED BY <2>2, <2>3, <3>2, <3>3, <3>4, <3>5
  <2>5. 1 \in Answers(stream') /\ stream'[1].for = 0
    BY <2>1, <2>4 DEF Answers
  <2>6. unasked' \in Nat
    BY <1>1, <1>8
  <2>7. /\ PairingInv' /\ UNCHANGED <<Asked, response_buffer>>
        /\ InStep <=> Answers(stream) = {}
        /\ InStep' <=> Answers(stream') = {}
    <3>1. \A l \in ToSet(stream') : l.kind = "level" /\ l.for # 0 => l \in ToSet(stream)
      BY <1>5, <2>1, <2>4
    <3> QED BY <1>1, <1>2, <2>4, <2>6, <3>1, HandshakeKeeps
  <2>8. ~InStep'
    BY <2>5, <2>7
  <2>9. CASE Head(kept) = a
    <3>1. 1 \in DOMAIN kept /\ kept[1] = a
      BY <1>5, <1>8, <2>9
    <3>2. 1 \in Answers(kept)
      BY <2>1, <3>1 DEF Answers
    <3>3. ~InStep
      BY <1>6, <2>7, <3>2
    <3>4. UNCHANGED unasked
      BY <1>1, <1>8, <2>9 DEF a
    <3> QED BY <2>7, <3>3, <3>4, QuietStep
  <2>10. CASE Head(kept) # a
    <3>1. unasked' = unasked + 1
      BY <1>8, <2>10 DEF a
    <3> QED BY <2>7, <2>8, <3>1, StrayStep
  <2> QED BY <2>9, <2>10
<1> QED BY <1>3, <1>7, <1>8 DEF kept

LEMMA HandshakeStep ==
    ASSUME PairingInv, HearsWelcome \/ IsRefused \/ HearsNumber \/ HearsSize
    PROVE  PairingInv' /\ [Pipe!PipeNext]_(Pipe!pipe)
<1>1. stream \in Seq(LineSet) /\ unasked \in Nat /\ (stage # "up" => ~running)
  BY DEF PairingInv, QueueTypes, NothingBefore
<1>2. ASSUME stage # "up", UNCHANGED callerVars, UNCHANGED serverVars,
             UNCHANGED <<running, active, responses, unasked>>,
             stream' \in Seq(LineSet), stage' \in {"welcome", "number"} => stream' # <<>>,
             \A l \in ToSet(stream') : l.kind = "level" /\ l.for # 0 => l \in ToSet(stream),
             Answers(stream) = {} => Answers(stream') = {}
      PROVE  PairingInv' /\ [Pipe!PipeNext]_(Pipe!pipe)
  <2>1. /\ PairingInv' /\ UNCHANGED <<Asked, response_buffer>>
        /\ InStep <=> Answers(stream) = {}
        /\ InStep' <=> Answers(stream') = {}
    BY <1>1, <1>2, HandshakeKeeps
  <2> QED BY <1>2, <2>1, QuietStep
<1>3. CASE HearsWelcome
  <2>1. CASE stream' = <<Line("number", 0), Line("size", 0)>>
    BY <1>2, <1>3, <2>1, NumberAndSize DEF HearsWelcome
  <2>2. CASE stream' = <<Line("refused", 0)>>
    <3>1. "refused" \in LineKinds \ {"answer", "level"}
      BY DEF LineKinds
    <3> QED BY <1>2, <1>3, <2>2, <3>1, FreshLines DEF HearsWelcome
  <2> QED BY <1>3, <2>1, <2>2 DEF HearsWelcome
<1>4. CASE IsRefused
  <2>1. CASE stage' = "welcome" /\ stream' = <<Line("welcome", 0)>>
    <3>1. "welcome" \in LineKinds \ {"answer", "level"}
      BY DEF LineKinds
    <3> QED BY <1>2, <1>4, <2>1, <3>1, FreshLines DEF IsRefused
  <2>2. CASE stage' = "out" /\ stream' = <<>>
    <3>1. stream' \in Seq(LineSet) /\ ToSet(stream') = {} /\ Answers(stream') = {}
      BY <2>2 DEF ToSet, Answers
    <3> QED BY <1>2, <1>4, <2>2, <3>1 DEF IsRefused
  <2> QED BY <1>4, <2>1, <2>2 DEF IsRefused
<1>5. CASE HearsNumber
  <2>1. stage = "number" /\ stream # <<>> /\ stream' = Tail(stream)
    BY <1>5 DEF HearsNumber, PairingInv, NothingBefore
  <2>2. stream' \in Seq(LineSet) /\ ToSet(stream') \subseteq ToSet(stream)
    BY <1>1, <2>1, TailElements
  <2>3. Answers(stream) = {} => Answers(stream') = {}
    BY <1>1, <2>1, AnswersOfTail
  <2> QED BY <1>2, <1>5, <2>2, <2>3 DEF HearsNumber
<1>6. CASE HearsSize
  BY <1>6, HearsSizeStep
<1> QED BY <1>3, <1>4, <1>5, <1>6

-----------------------------------------------------------------------------
(* The reader.                                                             *)

\* It is up, and its line is gone.
LEMMA ReaderKeeps ==
    ASSUME PairingInv, NEW kind, Reads(kind), readerRest, UNCHANGED stage,
           running' => running, responses' \in Seq(0 .. MaxAsked), unasked' \in Nat
    PROVE  /\ PairingInv' /\ UNCHANGED <<Asked, response_buffer, srv, active>>
           /\ stream # <<>> /\ stream' = Tail(stream) /\ Head(stream) \in LineSet
           /\ Head(stream) \in ToSet(stream) /\ Head(stream).kind = kind
<1>1. QueueTypes /\ OneCommandPerId /\ LevelsAnswerRituals /\ RitualIsOwed /\ NothingBefore
  BY DEF PairingInv
<1>2. /\ UNCHANGED <<srv, ritual, queue, active, response_buffer, next_id>>
      /\ running /\ stream # <<>> /\ stream' = Tail(stream) /\ Head(stream).kind = kind
  BY DEF readerRest, serverVars, Reads
<1>3. /\ stream' \in Seq(LineSet) /\ ToSet(stream') \subseteq ToSet(stream)
      /\ Head(stream) \in LineSet /\ Head(stream) \in ToSet(stream)
  BY <1>1, <1>2, TailElements DEF QueueTypes
<1>4. QueueTypes'
  BY <1>1, <1>2, <1>3 DEF QueueTypes
<1>5. Held' = Held
  BY <1>2 DEF Held
<1>6. OneCommandPerId' /\ LevelsAnswerRituals'
  BY <1>1, <1>2, <1>3, <1>5, NothingNew
<1>7. stage = "up"
  BY <1>1, <1>2 DEF NothingBefore
<1>8. RitualIsOwed' /\ NothingBefore'
  BY <1>1, <1>2, <1>7 DEF RitualIsOwed, NothingBefore
<1> QED BY <1>2, <1>3, <1>4, <1>6, <1>8 DEF PairingInv, Asked

\* A line that is none of the answers does not change what is to come.
LEMMA OtherIsSkipped ==
    ASSUME PairingInv, UNCHANGED <<responses, srv, active>>,
           stream # <<>>, stream' = Tail(stream), ~IsAnswer(Head(stream))
    PROVE  InStep => InStep'
<1>1. /\ responses \in ReadOnes /\ stream \in Seq(LineSet) /\ srv \in Seq(Requests) /\ active \in Seq(Requests)
  BY DEF PairingInv, QueueTypes, ReadOnes
<1> QED BY <1>1, OtherIsRead DEF InStep

LEMMA ReadLevelStep ==
    ASSUME PairingInv, ReadLevel
    PROVE  PairingInv' /\ [Pipe!PipeNext]_(Pipe!pipe)
<1> DEFINE l == Head(stream)
<1>1. /\ responses \in ReadOnes /\ stream \in Seq(LineSet) /\ srv \in Seq(Requests) /\ active \in Seq(Requests)
      /\ unasked \in Nat
  BY DEF PairingInv, QueueTypes, ReadOnes
<1>2. /\ Reads("level") /\ readerRest /\ UNCHANGED <<stage, running>>
  BY DEF ReadLevel, readerRest
<1>3. l \in LineSet /\ l \in ToSet(stream) /\ l.for \in 0 .. MaxAsked /\ stream # <<>> /\ l.kind = "level"
  <2>1. stream # <<>> /\ l.kind = "level"
    BY <1>2 DEF Reads
  <2>2. l \in LineSet /\ l \in ToSet(stream)
    BY <1>1, <2>1, TailElements
  <2> QED BY <2>1, <2>2 DEF LineSet
<1>4. responses' \in Seq(0 .. MaxAsked) /\ unasked' \in Nat
  <2>1. CASE HasIncantation
    <3>1. responses' = Append(responses, l.for) /\ unasked' = unasked + (IF l.for = 0 THEN 1 ELSE 0)
      BY <2>1 DEF ReadLevel
    <3> QED BY <1>1, <1>3, <3>1 DEF ReadOnes
  <2>2. CASE ~HasIncantation
    BY <1>1, <2>2 DEF ReadLevel, ReadOnes
  <2> QED BY <2>1, <2>2
<1>5. /\ PairingInv' /\ UNCHANGED <<Asked, response_buffer, srv, active>> /\ stream' = Tail(stream)
  BY <1>2, <1>4, ReaderKeeps
<1> HIDE DEF l
<1>6. CASE l.for = 0
  <2>1. CASE HasIncantation
    <3>1. responses' = Append(responses, 0) /\ unasked' = unasked + 1
      BY <1>6, <2>1 DEF ReadLevel, l
    <3>2. responses' \in ReadOnes /\ stream' \in Seq(LineSet) /\ srv' \in Seq(Requests) /\ active' \in Seq(Requests)
      BY <1>5 DEF PairingInv, QueueTypes, ReadOnes
    <3>3. Len(responses) + 1 \in DOMAIN responses' /\ responses'[Len(responses) + 1] = 0
      BY <1>1, <3>1 DEF ReadOnes
    <3>4. ~InStep'
      BY <3>2, <3>3, StraysAreSeen DEF InStep
    <3> QED BY <1>5, <3>1, <3>4, StrayStep
  <2>2. CASE ~HasIncantation
    <3>1. UNCHANGED <<responses, unasked>>
      BY <2>2 DEF ReadLevel
    <3>2. ~IsAnswer(Head(stream))
      BY <1>3, <1>6 DEF IsAnswer, l
    <3>3. InStep => InStep'
      BY <1>3, <1>5, <3>1, <3>2, OtherIsSkipped
    <3> QED BY <1>5, <3>1, <3>3, QuietStep
  <2> QED BY <2>1, <2>2
<1>7. CASE l.for # 0
  <2>1. IsAnswer(Head(stream))
    BY <1>3, <1>7 DEF IsAnswer, l
  <2>2. ASSUME InStep
        PROVE  /\ InOrder(Append(responses, l.for), Tail(stream), srv, active)
               /\ HasIncantation
    <3>1. /\ InOrder(Append(responses, l.for), Tail(stream), srv, active)
          /\ \E k \in DOMAIN active : active[k].id = l.for
      BY <1>1, <1>3, <2>1, <2>2, AnswerIsRead DEF InStep, l
    <3>2. PICK k \in DOMAIN active : active[k].id = l.for
      BY <3>1
    <3>3. active[k] \in ToSet(active) /\ active[k] \in Held
      BY DEF Held, ToSet
    <3>4. active[k].cmd = "Incantation"
      BY <1>3, <1>7, <3>2, <3>3 DEF PairingInv, LevelsAnswerRituals
    <3> QED BY <3>1, <3>3, <3>4 DEF HasIncantation
  <2>3. UNCHANGED unasked
    <3>1. CASE HasIncantation
      BY <1>1, <1>7, <3>1 DEF ReadLevel, l
    <3>2. CASE ~HasIncantation
      BY <3>2 DEF ReadLevel
    <3> QED BY <3>1, <3>2
  <2>4. InStep => InStep'
    <3> SUFFICES ASSUME InStep PROVE InStep'
      OBVIOUS
    <3>1. responses' = Append(responses, l.for)
      BY <2>2 DEF ReadLevel, l
    <3> QED BY <1>5, <2>2, <3>1 DEF InStep
  <2> QED BY <1>5, <2>3, <2>4, QuietStep
<1> QED BY <1>6, <1>7

LEMMA ReaderStep ==
    ASSUME PairingInv, ReadAnswer \/ ReadLevel \/ ReadPending \/ ReadMessage \/ ReadDead
    PROVE  PairingInv' /\ [Pipe!PipeNext]_(Pipe!pipe)
<1>1. responses \in Seq(0 .. MaxAsked) /\ unasked \in Nat /\ stream \in Seq(LineSet)
      /\ srv \in Seq(Requests) /\ active \in Seq(Requests)
  BY DEF PairingInv, QueueTypes
<1>2. ASSUME NEW kind \in {"underway", "message", "dead"}, Reads(kind), readerRest, UNCHANGED stage,
             running' => running, UNCHANGED <<responses, unasked>>
      PROVE  PairingInv' /\ [Pipe!PipeNext]_(Pipe!pipe)
  <2>1. /\ PairingInv' /\ UNCHANGED <<Asked, response_buffer, srv, active>>
        /\ stream # <<>> /\ stream' = Tail(stream) /\ Head(stream).kind = kind
    BY <1>1, <1>2, ReaderKeeps
  <2>2. ~IsAnswer(Head(stream))
    BY <2>1 DEF IsAnswer
  <2>3. InStep => InStep'
    BY <1>2, <2>1, <2>2, OtherIsSkipped
  <2> QED BY <1>2, <2>1, <2>3, QuietStep
<1>3. CASE ReadAnswer
  <2>1. /\ Reads("answer") /\ readerRest /\ UNCHANGED <<stage, running, unasked>>
        /\ responses' = Append(responses, Head(stream).for)
    BY <1>3 DEF ReadAnswer, readerRest
  <2>2. Head(stream) \in LineSet /\ stream # <<>>
    BY <1>1, <2>1, TailElements DEF Reads
  <2>3. responses' \in Seq(0 .. MaxAsked)
    BY <1>1, <2>1, <2>2 DEF LineSet
  <2>4. /\ PairingInv' /\ UNCHANGED <<Asked, response_buffer, srv, active>>
        /\ stream' = Tail(stream) /\ Head(stream).kind = "answer"
    BY <1>1, <2>1, <2>3, ReaderKeeps
  <2>5. IsAnswer(Head(stream))
    BY <2>4 DEF IsAnswer
  <2>6. InStep => InStep'
    BY <1>1, <2>1, <2>2, <2>4, <2>5, AnswerIsRead DEF InStep, ReadOnes
  <2> QED BY <2>1, <2>4, <2>6, QuietStep
<1>4. CASE ReadLevel
  BY <1>4, ReadLevelStep
<1>5. CASE ReadPending
  BY <1>2, <1>5 DEF ReadPending, readerRest
<1>6. CASE ReadMessage
  BY <1>2, <1>6 DEF ReadMessage, readerRest
<1>7. CASE ReadDead
  BY <1>2, <1>7 DEF ReadDead, readerRest
<1> QED BY <1>3, <1>4, <1>5, <1>6, <1>7

-----------------------------------------------------------------------------
(* The thread that sends and pairs, and the caller.                        *)

\* The numbers of a queue, when it gets longer and when its first goes.
LEMMA IdsInOrder ==
    ASSUME NEW q \in Seq(Requests)
    PROVE  /\ \A r \in Requests : IdsOf(Append(q, r)) = Append(IdsOf(q), r.id)
           /\ q # <<>> => /\ IdsOf(q) # <<>> /\ Head(IdsOf(q)) = Head(q).id
                          /\ IdsOf(Tail(q)) = Tail(IdsOf(q))
<1>1. /\ IdsOf(q) = [i \in 1 .. Len(q) |-> q[i].id] /\ Len(q) \in Nat
      /\ IdsOf(q) \in Seq(1 .. MaxAsked) /\ Len(IdsOf(q)) = Len(q)
  <2>1. \A i \in 1 .. Len(q) : q[i] \in Requests
    OBVIOUS
  <2>2. \A i \in 1 .. Len(q) : q[i].id \in 1 .. MaxAsked
    BY <2>1 DEF Requests
  <2>3. Len(q) \in Nat /\ IdsOf(q) = [i \in 1 .. Len(q) |-> q[i].id]
    BY DEF IdsOf
  <2>4. IdsOf(q) \in [1 .. Len(q) -> 1 .. MaxAsked]
    BY <2>2, <2>3
  <2>5. IdsOf(q) \in Seq(1 .. MaxAsked) /\ Len(IdsOf(q)) = Len(q)
    BY <2>3, <2>4
  <2> QED BY <2>3, <2>5
<1>2. ASSUME NEW r \in Requests PROVE IdsOf(Append(q, r)) = Append(IdsOf(q), r.id)
  <2> DEFINE a == Append(q, r)
             b == Append(IdsOf(q), r.id)
  <2>1. /\ a \in Seq(Requests) /\ Len(a) = Len(q) + 1 /\ a[Len(q) + 1] = r
        /\ \A i \in 1 .. Len(q) : a[i] = q[i]
    OBVIOUS
  <2>2. r.id \in 1 .. MaxAsked
    BY DEF Requests
  <2>3. /\ b \in Seq(1 .. MaxAsked) /\ Len(b) = Len(q) + 1 /\ b[Len(q) + 1] = r.id
        /\ \A i \in 1 .. Len(q) : b[i] = q[i].id
    BY <1>1, <2>2
  <2> HIDE DEF a, b
  <2>4. IdsOf(a) = [i \in 1 .. Len(q) + 1 |-> a[i].id]
    BY <2>1 DEF IdsOf
  <2>5. b = [i \in 1 .. Len(q) + 1 |-> b[i]]
    BY <2>3
  <2>6. \A i \in 1 .. Len(q) + 1 : a[i].id = b[i]
    <3> SUFFICES ASSUME NEW i \in 1 .. Len(q) + 1 PROVE a[i].id = b[i]
      OBVIOUS
    <3>1. i = Len(q) + 1 \/ i \in 1 .. Len(q)
      BY <1>1
    <3> QED BY <2>1, <2>3, <3>1
  <2> QED BY <2>4, <2>5, <2>6 DEF a, b
<1>3. ASSUME q # <<>>
      PROVE  /\ IdsOf(q) # <<>> /\ Head(IdsOf(q)) = Head(q).id
             /\ IdsOf(Tail(q)) = Tail(IdsOf(q))
  <2>1. Len(q) # 0 /\ 1 \in 1 .. Len(q)
    BY <1>1, <1>3
  <2>2. IdsOf(q) # <<>> /\ Head(IdsOf(q)) = IdsOf(q)[1] /\ Head(q) = q[1]
    BY <1>1, <2>1
  <2>3. IdsOf(q)[1] = q[1].id
    BY <1>1, <2>1
  <2> DEFINE a == Tail(q)
             b == Tail(IdsOf(q))
  <2>4. /\ a \in Seq(Requests) /\ Len(a) = Len(q) - 1
        /\ \A i \in 1 .. Len(q) - 1 : a[i] = q[i + 1]
    BY <1>3, <2>1
  <2>5. /\ b \in Seq(1 .. MaxAsked) /\ Len(b) = Len(q) - 1
        /\ \A i \in 1 .. Len(q) - 1 : b[i] = IdsOf(q)[i + 1]
    BY <1>1, <2>2
  <2> HIDE DEF a, b
  <2>6. IdsOf(a) = [i \in 1 .. Len(q) - 1 |-> a[i].id] /\ b = [i \in 1 .. Len(q) - 1 |-> b[i]]
    BY <2>4, <2>5 DEF IdsOf
  <2>7. \A i \in 1 .. Len(q) - 1 : a[i].id = b[i]
    <3> SUFFICES ASSUME NEW i \in 1 .. Len(q) - 1 PROVE a[i].id = b[i]
      OBVIOUS
    <3>1. i + 1 \in 1 .. Len(q)
      BY <1>1
    <3>2. IdsOf(q)[i + 1] = q[i + 1].id
      BY <1>1, <3>1
    <3> QED BY <2>4, <2>5, <3>2
  <2> QED BY <2>2, <2>3, <2>6, <2>7 DEF a, b
<1> QED BY <1>2, <1>3

LEMMA ConcatEnds ==
    ASSUME NEW T, NEW s \in Seq(T), NEW t \in Seq(T)
    PROVE  /\ s # <<>> => s \o t # <<>> /\ Head(s \o t) = Head(s) /\ Tail(s \o t) = Tail(s) \o t
           /\ \A e \in T : s \o Append(t, e) = Append(s \o t, e)
<1>1. ASSUME s # <<>> PROVE s \o t # <<>> /\ Head(s \o t) = Head(s) /\ Tail(s \o t) = Tail(s) \o t
  BY <1>1
<1>2. \A e \in T : s \o Append(t, e) = Append(s \o t, e)
  OBVIOUS
<1> QED BY <1>1, <1>2

LEMMA PairStep ==
    ASSUME PairingInv, PairAnswer
    PROVE  PairingInv' /\ [Pipe!PipeNext]_(Pipe!pipe)
<1>1. /\ responses \in ReadOnes /\ responses \in Seq(0 .. MaxAsked)
      /\ stream \in Seq(LineSet) /\ srv \in Seq(Requests) /\ active \in Seq(Requests) /\ queue \in Seq(Requests)
      /\ QueueTypes /\ OneCommandPerId /\ LevelsAnswerRituals /\ RitualIsOwed
  BY DEF PairingInv, QueueTypes, ReadOnes
<1>2. /\ stage = "up" /\ responses # <<>> /\ responses' = Tail(responses)
      /\ UNCHANGED <<stage, stream, queue, running, next_id, unasked, srv, ritual>>
  BY DEF PairAnswer, serverVars
<1>3. responses' \in Seq(0 .. MaxAsked) /\ Head(responses) \in 0 .. MaxAsked
  BY <1>1, <1>2, TailElements
<1>4. active' \in Seq(Requests) /\ ToSet(active') \subseteq ToSet(active)
  <2>1. CASE active = <<>>
    BY <1>1, <2>1 DEF PairAnswer
  <2>2. CASE active # <<>>
    BY <1>1, <2>2, TailElements DEF PairAnswer
  <2> QED BY <2>1, <2>2
<1>5. QueueTypes'
  BY <1>1, <1>2, <1>3, <1>4 DEF QueueTypes
<1>6. Held' \subseteq Held
  BY <1>2, <1>4 DEF Held
<1>7. OneCommandPerId' /\ LevelsAnswerRituals'
  BY <1>1, <1>2, <1>6, NothingNew
<1>8. PairingInv'
  BY <1>1, <1>2, <1>5, <1>7 DEF PairingInv, RitualIsOwed, NothingBefore
<1>9. InStep => /\ active # <<>> /\ Head(responses) = Head(active).id
                /\ InOrder(Tail(responses), stream, srv, Tail(active))
  BY <1>1, <1>2, AnswerIsPaired DEF InStep
<1>10. CASE active = <<>>
  <2>1. UNCHANGED <<Asked, response_buffer, unasked>>
    BY <1>2, <1>10 DEF PairAnswer, Asked
  <2>2. ~InStep
    BY <1>9, <1>10
  <2> QED BY <1>8, <2>1, <2>2, QuietStep
<1>11. CASE active # <<>>
  <2>1. /\ active' = Tail(active)
        /\ response_buffer' = response_buffer \cup {<<Head(active).id, Head(responses)>>}
    BY <1>11 DEF PairAnswer, Paired
  <2>2. active \o queue \in Seq(Requests) /\ active \o queue # <<>>
        /\ Head(active \o queue) = Head(active) /\ Tail(active \o queue) = Tail(active) \o queue
    BY <1>1, <1>11, ConcatEnds
  <2>3. Asked # <<>> /\ Head(Asked) = Head(active).id /\ Asked' = Tail(Asked)
    <3>1. Asked' = IdsOf(Tail(active \o queue))
      BY <1>2, <2>1, <2>2 DEF Asked
    <3> QED BY <2>2, <3>1, IdsInOrder DEF Asked
  <2>4. InStep => Head(responses) = Head(Asked) /\ InStep'
    BY <1>2, <1>9, <2>1, <2>3 DEF InStep
  <2>5. Pipe!Answer(Head(responses))
    BY <1>2, <2>1, <2>3, <2>4 DEF Pipe!Answer, Asked, InStep
  <2>6. Head(responses) \in 1 .. MaxAsked \cup {0}
    BY <1>3, ConnectionAssumption
  <2> QED BY <1>8, <2>5, <2>6 DEF Pipe!PipeNext
<1> QED BY <1>10, <1>11

\* What has been taken from the queue and what is left of it are what it was.
LEMMA QueueSplits ==
    ASSUME NEW q \in Seq(Requests), NEW n \in 0 .. Len(q)
    PROVE  /\ SubSeq(q, 1, n) \in Seq(Requests) /\ ToSet(SubSeq(q, 1, n)) \subseteq ToSet(q)
           /\ SubSeq(q, n + 1, Len(q)) \in Seq(Requests)
           /\ ToSet(SubSeq(q, n + 1, Len(q))) \subseteq ToSet(q)
           /\ Len(SubSeq(q, 1, n)) = n
           /\ SubSeq(q, 1, n) \o SubSeq(q, n + 1, Len(q)) = q
<1>1. n + 1 \in Nat \ {0} /\ Len(q) \in 0 .. Len(q) /\ 1 \in Nat \ {0} /\ Len(q) \in Nat
  OBVIOUS
<1>2. /\ SubSeq(q, 1, n) \in Seq(Requests) /\ ToSet(SubSeq(q, 1, n)) \subseteq ToSet(q)
      /\ SubSeq(q, n + 1, Len(q)) \in Seq(Requests)
      /\ ToSet(SubSeq(q, n + 1, Len(q))) \subseteq ToSet(q)
  BY <1>1, SubSeqElements
<1>3. Len(SubSeq(q, 1, n)) = n
  OBVIOUS
<1>4. SubSeq(q, 1, n) \o SubSeq(q, n + 1, Len(q)) = SubSeq(q, 1, Len(q))
  <2>1. 1 \in 1 .. Len(q) + 1 /\ n \in 1 - 1 .. Len(q) /\ Len(q) \in n .. Len(q)
    BY <1>1
  <2> QED BY ONLY <2>1, ConcatAdjacentSubSeq, q \in Seq(Requests)
<1>5. SubSeq(q, 1, Len(q)) = q
  BY SubSeqFull
<1> QED BY <1>2, <1>3, <1>4, <1>5

LEMMA SendStep ==
    ASSUME PairingInv, SendCmdBuffer
    PROVE  PairingInv' /\ [Pipe!PipeNext]_(Pipe!pipe)
<1>1. /\ responses \in ReadOnes /\ stream \in Seq(LineSet) /\ srv \in Seq(Requests)
      /\ active \in Seq(Requests) /\ queue \in Seq(Requests)
      /\ QueueTypes /\ OneCommandPerId /\ LevelsAnswerRituals /\ RitualIsOwed
  BY DEF PairingInv, QueueTypes, ReadOnes
<1>2. PICK n \in 0 .. Len(queue) :
          LET sent == SubSeq(queue, 1, n)
              rest == SubSeq(queue, n + 1, Len(queue))
          IN /\ Len(active) + n <= MaxPending
             /\ active' = active \o sent
             /\ queue' = IF rest # <<>> /\ Len(active) + n < MaxPending THEN Undo(rest) ELSE rest
             /\ srv' = LET all == srv \o sent
                       IN SubSeq(all, 1, IF Len(all) < MaxPending THEN Len(all) ELSE MaxPending)
  BY DEF SendCmdBuffer
<1> DEFINE sent == SubSeq(queue, 1, n)
           rest == SubSeq(queue, n + 1, Len(queue))
           all == srv \o sent
           top == IF Len(all) < MaxPending THEN Len(all) ELSE MaxPending
<1>3. /\ UNCHANGED <<stage, stream, ritual, responses, response_buffer, running, next_id, unasked>>
      /\ running
  BY DEF SendCmdBuffer
<1>4. /\ active' = active \o sent /\ queue' = rest /\ srv' = SubSeq(all, 1, top)
      /\ Len(active) + n <= MaxPending
  BY <1>2 DEF Undo
<1>5. /\ sent \in Seq(Requests) /\ rest \in Seq(Requests) /\ sent \o rest = queue /\ Len(sent) = n
      /\ ToSet(sent) \subseteq ToSet(queue) /\ ToSet(rest) \subseteq ToSet(queue)
  BY <1>1, QueueSplits
<1> HIDE DEF sent, rest
<1>6. /\ all \in Seq(Requests) /\ Len(all) = Len(srv) + n /\ ToSet(all) \subseteq ToSet(srv) \cup ToSet(sent)
      /\ active' \in Seq(Requests) /\ ToSet(active') \subseteq ToSet(active) \cup ToSet(sent)
  BY <1>1, <1>4, <1>5, ConcatElements, ConcatPlaces
<1>7. top \in 0 .. Len(all) /\ (all # <<>> => top >= 1) /\ Len(all) \in Nat
  <2>1. Len(all) \in Nat /\ (all # <<>> => Len(all) # 0)
    BY <1>6
  <2> HIDE DEF all
  <2> QED BY <2>1, ConnectionAssumption
<1> HIDE DEF all, top
<1>8. srv' \in Seq(Requests) /\ ToSet(srv') \subseteq ToSet(all)
  BY <1>4, <1>6, <1>7, SubSeqElements
<1>9. QueueTypes'
  BY <1>1, <1>3, <1>4, <1>5, <1>6, <1>8 DEF QueueTypes
<1>10. Held' \subseteq Held
  BY <1>4, <1>5, <1>6, <1>8 DEF Held
<1>11. OneCommandPerId' /\ LevelsAnswerRituals'
  BY <1>1, <1>3, <1>10, NothingNew
<1>12. RitualIsOwed'
  <2> SUFFICES ASSUME ritual = "own" PROVE srv' # <<>> /\ Head(srv').cmd = "Incantation"
    BY <1>3 DEF RitualIsOwed
  <2>1. srv # <<>> /\ Head(srv).cmd = "Incantation"
    BY <1>1 DEF RitualIsOwed
  <2>2. all # <<>> /\ Head(all) = Head(srv)
    BY <1>1, <1>5, <2>1, ConcatEnds DEF all
  <2>3. top >= 1 /\ top \in 0 .. Len(all)
    BY <1>7, <2>2
  <2>4. Len(srv') = top /\ srv'[1] = all[1]
    BY <1>4, <1>6, <1>7, <2>3
  <2>5. srv' # <<>> /\ Head(srv') = Head(all)
    BY <1>6, <1>8, <2>2, <2>3, <2>4
  <2> QED BY <2>1, <2>2, <2>5
<1>13. PairingInv'
  BY <1>1, <1>3, <1>9, <1>11, <1>12 DEF PairingInv, NothingBefore
<1>14. UNCHANGED <<Asked, response_buffer, unasked>>
  <2>0. active \in Seq(Requests) /\ sent \in Seq(Requests) /\ rest \in Seq(Requests)
    BY <1>1, <1>5 DEF QueueTypes
  <2>1. (active \o sent) \o rest = active \o (sent \o rest)
    BY ONLY <2>0, ConcatAssociative
  <2>2. active' \o queue' = active \o queue
    BY <1>4, <1>5, <2>1
  <2> QED BY <1>3, <2>2 DEF Asked
<1>15. InStep => InStep'
  <2> SUFFICES ASSUME InStep PROVE InStep'
    OBVIOUS
  <2>1. InOrder(responses, stream, all, active \o sent) /\ Len(srv) <= Len(active)
    BY <1>1, <1>5, RequestsAreSent DEF InStep, all
  <2>2. Len(all) <= MaxPending
    BY <1>1, <1>4, <1>6, <2>1, ConnectionAssumption
  <2>3. top = Len(all)
    BY <1>7, <2>2, ConnectionAssumption DEF top
  <2>4. srv' = all
    BY <1>4, <1>6, <2>3, SubSeqFull
  <2> QED BY <1>3, <1>4, <2>1, <2>4 DEF InStep
<1> QED BY <1>13, <1>14, <1>15, QuietStep

LEMMA AskStep ==
    ASSUME PairingInv, NEW cmd \in {"Look", "Incantation"}, SendCommand(cmd)
    PROVE  PairingInv' /\ [Pipe!PipeNext]_(Pipe!pipe)
<1> DEFINE r == Request(cmd, next_id + 1)
<1>1. /\ responses \in ReadOnes /\ stream \in Seq(LineSet) /\ srv \in Seq(Requests)
      /\ active \in Seq(Requests) /\ queue \in Seq(Requests) /\ next_id \in 0 .. MaxAsked
      /\ QueueTypes /\ OneCommandPerId /\ LevelsAnswerRituals /\ RitualIsOwed /\ NothingBefore
  BY DEF PairingInv, QueueTypes, ReadOnes
<1>2. /\ UNCHANGED <<stage, stream, ritual, srv, active, responses, response_buffer, running, unasked>>
      /\ running /\ next_id < MaxAsked /\ next_id' = next_id + 1 /\ queue' = Append(queue, r)
  BY DEF SendCommand, serverVars
<1>3. next_id + 1 \in 1 .. MaxAsked
  BY <1>1, <1>2, ConnectionAssumption
<1>4. r \in Requests /\ r.id = next_id + 1
  BY <1>3 DEF Request, Requests
<1> HIDE DEF r
<1>5. queue' \in Seq(Requests) /\ ToSet(queue') = ToSet(queue) \cup {r}
  BY <1>1, <1>2, <1>4, AppendElements
<1>6. QueueTypes'
  BY <1>1, <1>2, <1>3, <1>5 DEF QueueTypes
<1>7. Held' = Held \cup {r}
  BY <1>2, <1>5 DEF Held
<1>8. \A q \in Held : q.id \in 1 .. MaxAsked /\ q.id <= next_id
  <2>1. \A q \in Held : q \in Requests
    BY <1>1 DEF Held, ToSet
  <2> QED BY <1>1, <2>1 DEF Requests, OneCommandPerId
<1>9. OneCommandPerId'
  <2> SUFFICES ASSUME NEW p \in Held \cup {r}, NEW q \in Held \cup {r}
               PROVE  p.id <= next_id + 1 /\ (p.id = q.id => p = q)
    BY <1>2, <1>7 DEF OneCommandPerId
  <2>1. \A h \in Held : h.id <= next_id + 1 /\ h.id # r.id
    BY <1>1, <1>4, <1>8
  <2>2. r.id <= next_id + 1
    BY <1>1, <1>4
  <2> QED BY <1>1, <2>1, <2>2 DEF OneCommandPerId
<1>10. LevelsAnswerRituals'
  <2> SUFFICES ASSUME NEW l \in ToSet(stream), l.kind = "level", l.for # 0
               PROVE  /\ l.for <= next_id + 1
                      /\ \A q \in Held \cup {r} : q.id = l.for => q.cmd = "Incantation"
    BY <1>2, <1>7 DEF LevelsAnswerRituals
  <2>1. l.for <= next_id /\ \A q \in Held : q.id = l.for => q.cmd = "Incantation"
    BY <1>1 DEF LevelsAnswerRituals
  <2>2. l \in LineSet
    BY <1>1 DEF ToSet
  <2>3. l.for \in 0 .. MaxAsked
    BY <2>2 DEF LineSet
  <2>4. l.for <= next_id + 1 /\ r.id # l.for
    BY <1>1, <1>4, <2>1, <2>3
  <2> QED BY <2>1, <2>4
<1>11. PairingInv'
  BY <1>1, <1>2, <1>6, <1>9, <1>10 DEF PairingInv, RitualIsOwed, NothingBefore
<1>12. Asked' = Append(Asked, next_id + 1)
  <2>1. active \o queue' = Append(active \o queue, r)
    BY <1>1, <1>2, <1>4, ConcatEnds
  <2>2. active \o queue \in Seq(Requests)
    BY <1>1, ConcatElements
  <2>3. IdsOf(Append(active \o queue, r)) = Append(IdsOf(active \o queue), r.id)
    BY <1>4, <2>2, IdsInOrder
  <2> QED BY <1>2, <1>4, <2>1, <2>3 DEF Asked
<1>13. InStep' = InStep
  BY <1>2 DEF InStep
<1>14. Pipe!Ask(next_id + 1)
  BY <1>2, <1>12, <1>13 DEF Pipe!Ask, Asked, InStep
<1> QED BY <1>3, <1>11, <1>14 DEF Pipe!PipeNext

LEMMA CallerStep ==
    ASSUME PairingInv, GetCommandResponse \/ GetNews \/ UNCHANGED connectionVars
    PROVE  PairingInv' /\ [Pipe!PipeNext]_(Pipe!pipe)
<1>1. UNCHANGED <<stage, stream, srv, ritual, queue, active, responses, next_id, unasked>>
      /\ (running' => running)
  <2>1. UNCHANGED <<stage, stream, srv, ritual, queue, active, responses, next_id, unasked>>
    BY DEF GetCommandResponse, GetNews, connectionVars, serverVars
  <2>2. CASE GetNews
    <3>1. running' = (running /\ "dead" \notin ToSet(events))
      BY <2>2 DEF GetNews
    <3>2. running' => running
      BY <3>1, Zenon
    <3> QED BY <2>1, <3>2
  <2>3. CASE GetCommandResponse \/ UNCHANGED connectionVars
    BY <2>1, <2>3 DEF GetCommandResponse, connectionVars
  <2> QED BY <2>2, <2>3
<1>2. PairingInv'
  <2>1. Held' = Held
    BY <1>1 DEF Held
  <2>2. QueueTypes' /\ RitualIsOwed' /\ NothingBefore'
    BY <1>1 DEF PairingInv, QueueTypes, RitualIsOwed, NothingBefore
  <2>3. OneCommandPerId' /\ LevelsAnswerRituals'
    BY <1>1, <2>1, NothingNew DEF PairingInv
  <2> QED BY <2>2, <2>3 DEF PairingInv
<1>3. InStep' = InStep /\ Asked' = Asked
  BY <1>1 DEF InStep, Asked
<1>4. CASE UNCHANGED response_buffer
  BY <1>1, <1>2, <1>3, <1>4, QuietStep
<1>5. CASE GetCommandResponse
  <2>1. PICK r \in response_buffer : response_buffer' = response_buffer \ {r}
    BY <1>5 DEF GetCommandResponse
  <2>2. Pipe!Fetch(r)
    BY <1>1, <1>3, <2>1 DEF Pipe!Fetch, Asked, InStep
  <2> QED BY <1>2, <2>1, <2>2 DEF Pipe!PipeNext
<1> QED BY <1>4, <1>5 DEF GetNews, connectionVars

-----------------------------------------------------------------------------
(* Theorems.                                                               *)

LEMMA PairingStart == ConnectionInit => PairingInv /\ Pipe!PipeInit
<1> SUFFICES ASSUME ConnectionInit PROVE PairingInv /\ Pipe!PipeInit
  OBVIOUS
<1>1. /\ stage = "welcome" /\ stream = <<Line("welcome", 0)>> /\ srv = <<>> /\ ritual = "none"
      /\ queue = <<>> /\ active = <<>> /\ responses = <<>> /\ response_buffer = {}
      /\ running = FALSE /\ next_id = 0 /\ unasked = 0
  BY DEF ConnectionInit
<1>2. "welcome" \in LineKinds \ {"answer", "level"}
  BY DEF LineKinds
<1>3. /\ stream \in Seq(LineSet) /\ stream # <<>> /\ Answers(stream) = {}
      /\ \A l \in ToSet(stream) : l.kind # "level"
  BY <1>1, <1>2, FreshLines
<1>4. Held = {}
  BY <1>1 DEF Held, ToSet
<1>5. PairingInv
  BY <1>1, <1>3, <1>4, ConnectionAssumption
  DEF PairingInv, QueueTypes, OneCommandPerId, LevelsAnswerRituals, RitualIsOwed, NothingBefore
<1>6. InStep = TRUE
  BY <1>1, <1>3, NothingComes, InStepIsBoolean DEF InStep
<1>7. Asked = <<>>
  BY <1>1 DEF Asked, IdsOf
<1> QED BY <1>1, <1>5, <1>6, <1>7 DEF Pipe!PipeInit, Asked, InStep

LEMMA PairingStep ==
    PairingInv /\ [ConnectionNext]_connectionVars => PairingInv' /\ [Pipe!PipeNext]_(Pipe!pipe)
  BY ServerStep, HandshakeStep, ReaderStep, PairStep, SendStep, AskStep, CallerStep DEF ConnectionNext

\* However many commands are handed in, with whatever lines in between that nobody asked
\* for: every command is answered in its turn, with its own answer as long as no line has
\* been taken for one that is none.
THEOREM PairingCorrect == ConnectionSpec => AnswersArePaired
<1>1. ConnectionSpec => Pipe!PipeInit /\ [][Pipe!PipeNext]_(Pipe!pipe)
  BY PairingStart, PairingStep, PTL DEF ConnectionSpec
<1> QED BY <1>1 DEF AnswersArePaired, Pipe!PipeSpec

=============================================================================
