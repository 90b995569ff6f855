------------------------------- MODULE Player -------------------------------
(***************************************************************************)
(* One player as the tick cycle sees it (server/src/game/Player.cpp): the  *)
(* life counter, the queue of commands, the command being carried out and  *)
(* the buffer of answers that Core flushes to the client.                  *)
(*                                                                         *)
(* The rest of the server is the environment: messages pushed by other     *)
(* players (eject, broadcast), rituals led by others that freeze and raise *)
(* this one, and what lies on the tile, which decides whether Take and     *)
(* Incantation succeed.  One step is one call made by Core or World.       *)
(***************************************************************************)
EXTENDS Integers, Sequences, FiniteSets

CONSTANTS
    kNbLifeTickFood,    \* ticks that one unit of food lasts
    kNbStartFood,       \* units of food a player hatches with
    kMaxNbCmd,          \* commands a player may have accepted and unanswered
    kNbLevel,           \* levels that can be left; kNbLevel + 1 is the last one
    requiredTicks,      \* ICommand::requiredTicks, per kind of command
    MaxAccepted,        \* bound: commands accepted over the life of a player
    MaxBuffer,          \* bound: outside messages stop at this many in the buffer
    MaxFood,            \* bound: Take finds nothing once this much food is held
    MaxRituals          \* bound: rituals of others a player is enrolled in at once

\* Inventory stands for every timed command that always starts and answers once:
\* Forward, Right, Left, Look, Inventory, Broadcast, Fork and Eject.  Take and
\* Set are those of food, the one resource this module tells apart.
Kinds == {"Connect_nbr", "Unknown", "Inventory", "Take", "Set", "Incantation"}

ASSUME PlayerAssumption ==
    /\ kNbLifeTickFood \in Nat \ {0} /\ kNbStartFood \in Nat
    /\ kMaxNbCmd \in Nat \ {0} /\ kNbLevel \in Nat \ {0}
    /\ requiredTicks \in [Kinds -> Nat]
    /\ \A k \in Kinds : requiredTicks[k] = 0 <=> k \in {"Connect_nbr", "Unknown"}
    /\ {MaxAccepted, MaxBuffer, MaxFood, MaxRituals} \subseteq Nat

VARIABLES
    lifeTick,           \* _lifeTick
    food,               \* _inventory[Food]
    isDead,             \* _isDead
    commands,           \* _commands
    currentCommand,     \* _currentCommand, a sequence of at most one command
    cmdTick,            \* _cmdTick
    isNewCommand,       \* _isNewCommand
    isIncanting,        \* _isIncanting
    level,              \* _level
    buffersResponses,   \* _buffersResponses
    enrolled,           \* rituals of other players that list this one
    accepted,           \* history: commands accepted so far, which numbers them
    flushed,            \* history: answers flushed so far
    due                 \* history: ticks left to the current command by the clock

vars == <<lifeTick, food, isDead, commands, currentCommand, cmdTick, isNewCommand,
          isIncanting, level, buffersResponses, enrolled, accepted, flushed, due>>

queueVars == <<commands, currentCommand, cmdTick, isNewCommand, accepted, due>>

-----------------------------------------------------------------------------
(* A command carries its number; an answer names the command it is for.    *)
(* Other messages are not the answer to anything the player asked.         *)

Cmd(n, k)   == [n |-> n, kind |-> k]
Reply(c)    == [to |-> c.n, text |-> "reply"]
Message(t)  == [to |-> 0, text |-> t]

Command  == [n : Nat, kind : Kinds]
Response == [to : Nat, text : {"reply", "event", "underway", "level", "ko", "dead"}]

Init ==
    /\ lifeTick = kNbLifeTickFood /\ food = kNbStartFood /\ isDead = FALSE
    /\ commands = <<>> /\ currentCommand = <<>> /\ cmdTick = 0
    /\ isNewCommand = FALSE /\ isIncanting = FALSE /\ level = 1
    /\ buffersResponses = <<>>
    /\ enrolled = 0 /\ accepted = 0 /\ flushed = 0 /\ due = 0

-----------------------------------------------------------------------------
(* ICommand::start and ICommand::execute.                                  *)

\* getCondition().at(level - 1) is out of range at the last level.
Throws(c, lvl) == c.kind = "Incantation" /\ lvl > kNbLevel

\* start returns false: the argument or the command is unknown, the item is not
\* there, the ritual lacks players or stones.
MayRefuse(c, f, lvl) ==
    \/ c.kind \in {"Unknown", "Take"}
    \/ c.kind = "Set" /\ f = 0
    \/ c.kind = "Incantation" /\ ~Throws(c, lvl)

MayStart(c, f, lvl) ==
    \/ c.kind \in {"Connect_nbr", "Inventory", "Take"}
    \/ c.kind = "Set" /\ f > 0
    \/ c.kind = "Incantation" /\ ~Throws(c, lvl)

AtOnce(c, f, lvl) == MayRefuse(c, f, lvl) \/ requiredTicks[c.kind] = 0

Answers_OfStarted(done, f, lvl) ==
    LET kept == SelectSeq(done, LAMBDA c : ~MayRefuse(c, f, lvl))
    IN  [i \in DOMAIN kept |-> Reply(kept[i])]

\* A refused command is answered "ko", an instantaneous one by what it answers.
Answers(done, f, lvl) == [i \in DOMAIN done |-> Reply(done[i])]

Underway(c) == IF c.kind = "Incantation" THEN <<Message("underway")>> ELSE <<>>

\* The loop of tryStartNextCommand over the queue q with the answers so far in
\* out, as the set of its outcomes: the first k commands are refused or take no tick
\* and answer at once; then the queue is empty, or the next command starts its
\* ticks, or it throws and stays current with no tick to go.  The flag isNewCommand
\* is written by every start that succeeds; update has cleared it before.
DrainQueue(q, out, f, lvl, isMidTick) ==
    LET reached == {k \in 0 .. Len(q) : \A i \in 1 .. k : AtOnce(q[i], f, lvl)}
        answers(k) == out \o Answers(SubSeq(q, 1, k), f, lvl)
        isNew(k) == IF \E i \in 1 .. k : ~MayRefuse(q[i], f, lvl)
                    THEN isMidTick ELSE isNewCommand /\ isMidTick
        starts(c) == MayStart(c, f, lvl) /\ requiredTicks[c.kind] > 0
    IN  {[commands |-> <<>>, current |-> <<>>, ticks |-> 0, due |-> 0,
          isNew |-> isNew(k), out |-> answers(k)] :
            k \in {k \in reached : k = Len(q)}}
        \cup
        {[commands |-> SubSeq(q, k + 2, Len(q)), current |-> <<q[k + 1]>>,
          ticks |-> requiredTicks[q[k + 1].kind],
          due |-> requiredTicks[q[k + 1].kind] + (IF isMidTick THEN 1 ELSE 0),
          isNew |-> isMidTick, out |-> answers(k) \o Underway(q[k + 1])] :
            k \in {k \in reached : k < Len(q) /\ starts(q[k + 1])}}
        \cup
        {[commands |-> SubSeq(q, k + 2, Len(q)), current |-> <<q[k + 1]>>, ticks |-> 0, due |-> 0,
          isNew |-> isNew(k), out |-> answers(k)] :
            k \in {k \in reached : k < Len(q) /\ Throws(q[k + 1], lvl)}}

TryStartNextCommand(q, out, f, lvl, isMidTick) ==
    \E r \in DrainQueue(q, out, f, lvl, isMidTick) :
        /\ commands' = r.commands /\ currentCommand' = r.current
        /\ cmdTick' = r.ticks /\ due' = r.due /\ isNewCommand' = r.isNew
        /\ buffersResponses' = r.out

-----------------------------------------------------------------------------
(* World::pushCommandToPlayer: pushCommand, then tryStartNextCommand.      *)
(* Beyond the limit pushCommand throws TooMuchCmd and the player is as it  *)
(* was.  Neither looks at isDead or at isIncanting.                        *)

Load == Len(commands) + Len(currentCommand)

\* tryStartNextCommand(world, true), with the queue q.
TryStartMidTick(q) ==
    IF cmdTick > 0 \/ currentCommand # <<>>
    THEN /\ commands' = q
         /\ UNCHANGED <<currentCommand, cmdTick, isNewCommand, due, buffersResponses>>
    ELSE TryStartNextCommand(q, buffersResponses, food, level, TRUE)

HasRoom == Load < kMaxNbCmd

PushCommand_NoStart(k) ==
    /\ accepted < MaxAccepted /\ HasRoom
    /\ accepted' = accepted + 1
    /\ commands' = Append(commands, Cmd(accepted + 1, k))
    /\ UNCHANGED <<currentCommand, cmdTick, isNewCommand, due, buffersResponses>>
    /\ UNCHANGED <<lifeTick, food, isDead, isIncanting, level, enrolled, flushed>>

PushCommand(k) ==
    /\ accepted < MaxAccepted /\ HasRoom
    /\ accepted' = accepted + 1
    /\ TryStartMidTick(Append(commands, Cmd(accepted + 1, k)))
    /\ UNCHANGED <<lifeTick, food, isDead, isIncanting, level, enrolled, flushed>>

-----------------------------------------------------------------------------
(* Player::update, one action per way through it.                          *)

Hungry == lifeTick <= 1

\* What life and food are once this tick is lived through; Starve if neither is left.
Digest_KeepsCounter == IF Hungry THEN [life |-> 1, food |-> food - 1]
                                 ELSE [life |-> lifeTick - 1, food |-> food]

Digest == IF Hungry THEN [life |-> kNbLifeTickFood, food |-> food - 1]
                    ELSE [life |-> lifeTick - 1, food |-> food]

Survives == ~isDead /\ ~(Hungry /\ food = 0)

\* The command keeps its ticks on the tick that follows a start between ticks.
Elapsed_Always == IF cmdTick > 0 THEN cmdTick - 1 ELSE 0

Elapsed == IF ~isNewCommand /\ cmdTick > 0 THEN cmdTick - 1 ELSE cmdTick

\* No food when life runs out: kill, which drops every answer still in the buffer.
UpdateStarve ==
    /\ ~isDead /\ Hungry /\ food = 0
    /\ isDead' = TRUE /\ lifeTick' = 0
    /\ buffersResponses' = <<Message("dead")>>
    /\ UNCHANGED <<food, isIncanting, level, enrolled, flushed, queueVars>>

\* A participant of another's ritual lives on but does not work.
UpdateFrozen ==
    /\ Survives /\ isIncanting
    /\ lifeTick' = Digest.life /\ food' = Digest.food
    /\ UNCHANGED <<isDead, isIncanting, level, enrolled, flushed, buffersResponses, queueVars>>

UpdateWait ==
    /\ Survives /\ ~isIncanting /\ Elapsed > 0
    /\ lifeTick' = Digest.life /\ food' = Digest.food
    /\ cmdTick' = Elapsed /\ isNewCommand' = FALSE
    /\ due' = due - 1
    /\ UNCHANGED <<isDead, isIncanting, level, enrolled, flushed, buffersResponses,
                   commands, currentCommand, accepted>>

\* execute of the current command, with f units of food left after this tick: the
\* food and the level it leaves, with its answer.
Outcomes(c, f) ==
    CASE c.kind = "Take"        -> {[food |-> f, level |-> level]}
                                   \cup {[food |-> g, level |-> level] : g \in {f + 1} \cap 0 .. MaxFood}
      [] c.kind = "Set"         -> {[food |-> IF f > 0 THEN f - 1 ELSE 0, level |-> level]}
      [] c.kind = "Incantation" -> {[food |-> f, level |-> l] : l \in {level, level + 1}}
      [] OTHER                  -> {[food |-> f, level |-> level]}

UpdateExecute ==
    /\ Survives /\ ~isIncanting /\ Elapsed = 0 /\ currentCommand # <<>>
    /\ LET c == currentCommand[1] IN
          /\ ~Throws(c, level)
          /\ \E o \in Outcomes(c, Digest.food) :
                /\ food' = o.food /\ level' = o.level
                /\ TryStartNextCommand(commands, Append(buffersResponses, Reply(c)), o.food, o.level, FALSE)
    /\ lifeTick' = Digest.life
    /\ UNCHANGED <<isDead, isIncanting, enrolled, flushed, accepted>>

\* execute of an Incantation at the last level throws: the command stays current.
UpdateThrow ==
    /\ Survives /\ ~isIncanting /\ Elapsed = 0 /\ currentCommand # <<>>
    /\ Throws(currentCommand[1], level)
    /\ lifeTick' = Digest.life /\ food' = Digest.food
    /\ cmdTick' = 0 /\ isNewCommand' = FALSE /\ due' = 0
    /\ UNCHANGED <<isDead, isIncanting, level, enrolled, flushed, buffersResponses,
                   commands, currentCommand, accepted>>

UpdateIdle ==
    /\ Survives /\ ~isIncanting /\ Elapsed = 0 /\ currentCommand = <<>>
    /\ lifeTick' = Digest.life /\ food' = Digest.food
    /\ TryStartNextCommand(commands, buffersResponses, Digest.food, level, FALSE)
    /\ UNCHANGED <<isDead, isIncanting, level, enrolled, flushed, accepted>>

Update == UpdateStarve \/ UpdateFrozen \/ UpdateWait \/ UpdateExecute \/ UpdateThrow \/ UpdateIdle

-----------------------------------------------------------------------------
(* What others do to this player.                                          *)

\* addResponse by a broadcast or an eject of someone else; the dead hear too.
Hear ==
    /\ Len(buffersResponses) < MaxBuffer
    /\ buffersResponses' = Append(buffersResponses, Message("event"))
    /\ UNCHANGED <<lifeTick, food, isDead, isIncanting, level, enrolled, flushed, queueVars>>

\* Incantation::start of another player picks this one, whatever it is doing.
Enroll ==
    /\ enrolled < MaxRituals /\ level <= kNbLevel /\ Len(buffersResponses) < MaxBuffer
    /\ enrolled' = enrolled + 1 /\ isIncanting' = TRUE
    /\ buffersResponses' = Append(buffersResponses, Message("underway"))
    /\ UNCHANGED <<lifeTick, food, isDead, level, flushed, queueVars>>

\* Incantation::execute of the other player, for this one; levelUp is capped.
Release_Uncapped(success) ==
    /\ enrolled > 0 /\ Len(buffersResponses) < MaxBuffer
    /\ enrolled' = enrolled - 1 /\ isIncanting' = FALSE
    /\ level' = IF success THEN level + 1 ELSE level
    /\ buffersResponses' = Append(buffersResponses, Message(IF success THEN "level" ELSE "ko"))
    /\ UNCHANGED <<lifeTick, food, isDead, flushed, queueVars>>

Release(success) ==
    /\ enrolled > 0 /\ Len(buffersResponses) < MaxBuffer
    /\ enrolled' = enrolled - 1 /\ isIncanting' = FALSE
    /\ level' = IF success /\ level <= kNbLevel THEN level + 1 ELSE level
    /\ buffersResponses' = Append(buffersResponses, Message(IF success THEN "level" ELSE "ko"))
    /\ UNCHANGED <<lifeTick, food, isDead, flushed, queueVars>>

\* Player::responses, from getAllResponsesBuffer in Core's flush.
Responses ==
    /\ buffersResponses # <<>>
    /\ buffersResponses' = <<>>
    /\ flushed' = flushed + Cardinality({i \in DOMAIN buffersResponses : buffersResponses[i].to # 0})
    /\ UNCHANGED <<lifeTick, food, isDead, isIncanting, level, enrolled, queueVars>>

\* World::getNextExecutionTick, for one player.
NextExecutionTick_LifeOnly == lifeTick

NextExecutionTick ==
    IF cmdTick > 0 /\ cmdTick < lifeTick THEN cmdTick
    ELSE IF cmdTick = 0 /\ (currentCommand # <<>> \/ commands # <<>>) THEN 1
    ELSE lifeTick

Next ==
    \/ \E k \in Kinds : PushCommand(k)
    \/ Update
    \/ Hear
    \/ Enroll
    \/ \E success \in BOOLEAN : Release(success)
    \/ Responses

Spec == Init /\ [][Next]_vars

-----------------------------------------------------------------------------
(* Properties.                                                             *)

TypeOK ==
    /\ lifeTick \in 0 .. kNbLifeTickFood /\ food \in Nat /\ isDead \in BOOLEAN
    /\ commands \in Seq(Command) /\ currentCommand \in Seq(Command)
    /\ Len(currentCommand) <= 1
    /\ cmdTick \in Nat /\ isNewCommand \in BOOLEAN /\ isIncanting \in BOOLEAN
    /\ level \in 1 .. kNbLevel + 1
    /\ buffersResponses \in Seq(Response)
    /\ {enrolled, accepted, flushed, due} \subseteq Nat

\* At most kMaxNbCmd commands are accepted and unanswered, the one being carried out
\* included.
QueueIsBounded == Load <= kMaxNbCmd

\* Nothing waits in the queue of a player that does nothing, and ticks are only counted
\* for a command there is.
NoLostWakeup ==
    /\ currentCommand = <<>> => commands = <<>>
    /\ cmdTick > 0 => currentCommand # <<>>

\* pushCommand bounds what a client can queue, and tryStartNextCommand is called from
\* every place that can leave the player idle, mid-tick or at the end of a command,
\* refused, instantaneous or timed: the queue never grows beyond what was promised, and
\* nothing is left in it unanswered until the client happens to send another command.
QueueIsServed == QueueIsBounded /\ NoLostWakeup

\* The answers in the buffer are those to the commands first + 1 .. last, each once and in order.
AnswersRun(buffer, first, last) ==
    LET answers == {i \in DOMAIN buffer : buffer[i].to # 0} IN
    /\ first <= last
    /\ {buffer[i].to : i \in answers} = first + 1 .. last
    /\ \A i, j \in answers : i < j => buffer[i].to < buffer[j].to

\* The AI matches answers to commands by order alone: until the player dies, the
\* answers not yet flushed, the current command and the queue are together all the
\* commands accepted since the last flush, each once and in the order accepted,
\* whichever of them were refused, instantaneous, failed or frozen meanwhile.
RepliesInOrder ==
    \/ isDead
    \/ /\ AnswersRun(buffersResponses, flushed, accepted - Load)
       /\ \A i \in DOMAIN currentCommand : currentCommand[i].n = accepted - Load + i
       /\ \A i \in DOMAIN commands : commands[i].n = accepted - Len(commands) + i

\* Life is counted in two places, lifeTick and food.  A tick costs exactly one of
\* it whatever else happens in that tick; food taken or put down at the end of a
\* command is the only other change, and a player dies when the last unit is spent.
Life == lifeTick + kNbLifeTickFood * food

Transfer == IF currentCommand = <<>> THEN {0}
            ELSE CASE currentCommand[1].kind = "Take" -> {0, kNbLifeTickFood}
                   [] currentCommand[1].kind = "Set"  -> {0, -kNbLifeTickFood}
                   [] OTHER                           -> {0}

TickCostsOneLife ==
    [][Update => /\ Life' - Life + 1 \in Transfer
                 /\ isDead' <=> Life' = 0]_vars

\* A command that starts its ticks is answered after exactly requiredTicks updates
\* in which its player is not frozen, or one more when it started between two
\* ticks: neither early, nor late, nor earlier for having waited in the queue.
\* (An Incantation whose execute throws is the exception.)
CommandsTakeTheirTime ==
    [][due > 0 /\ ~isDead' =>
          IF currentCommand' = currentCommand
          THEN due' > 0 \/ Throws(currentCommand[1], level)
          ELSE due = 1]_vars

\* Core sleeps until the announced tick and replays the updates it slept through:
\* before that tick an update changes nothing a client or another player can see,
\* and never brings the next event closer than one tick per update.
SleepMissesNothing ==
    [][Update /\ NextExecutionTick > 1 =>
          /\ UNCHANGED <<food, isDead, commands, currentCommand, level, buffersResponses>>
          /\ NextExecutionTick' >= NextExecutionTick - 1]_vars

\* docs/server/game_engine.md:39-40: an accepted command either starts its ticks
\* or is refused with an immediate "ko".  The code throws instead when a player at
\* the last level starts an Incantation: the command stays, with no tick to go.
StartedOrRefused == currentCommand # <<>> => cmdTick > 0

=============================================================================
