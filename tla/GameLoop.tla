------------------------------ MODULE GameLoop ------------------------------
(***************************************************************************)
(* The clock of the server (server/src/Core.cpp): how long Core::loop      *)
(* sleeps, which ticks of the game it then makes up for, and what a        *)
(* spectator's sst and an exception do to that.  Of the world only the     *)
(* number of ticks until something happens to a living player is kept      *)
(* (World::getNextExecutionTick); module Player says what those ticks do,  *)
(* module Server what the events of a turn do.                             *)
(***************************************************************************)
EXTENDS Integers

CONSTANTS
    Millis,         \* how many of the clock's units make a second: 1000 in the code
    Freqs,          \* the frequencies -f and sst give: any positive number
    MaxDue,         \* bound: the longest a player waits for something, in ticks
    HandlingTime,   \* the longest the events of one turn take
    MaxNow          \* bound: when the clock of the model stops

ASSUME GameLoopAssumption ==
    /\ Millis \in Nat /\ Freqs \subseteq Nat \ {0}
    /\ MaxDue \in Nat /\ HandlingTime \in Nat \ {0} /\ MaxNow \in Nat

VARIABLES
    now,            \* steady_clock::now()
    nextTickTarget, \* when the next tick is due
    freq,           \* ServerConfig::freq
    due,            \* getNextExecutionTick: ticks to the next happening, or -1
    pc,             \* "top", "poll", "ticks", "events" or "flush"
    wake,           \* when poll times out, -1 for never
    seen,           \* the time processGameTick has read
    born,           \* history: when there was somebody alive again
    cut             \* history: an exception cut a tick short, or the turn after nobody lived

clock == <<now, nextTickTarget, freq, due, pc, wake, seen, born, cut>>

\* static_cast<int>(1.0F / freq * 1000), which in float is this for every frequency.
TimeUnit(f) == Millis \div f

LoopInit ==
    /\ now = 0 /\ seen = 0 /\ born = 0
    /\ freq \in Freqs
    /\ nextTickTarget = TimeUnit(freq)
    /\ due = -1 /\ wake = -1 /\ pc = "top" /\ cut = FALSE

\* Until the tick in which something happens; 0 when that is past.
TargetTime_OneMore == nextTickTarget + TimeUnit(freq) * due

TargetTime == nextTickTarget + TimeUnit(freq) * (due - 1)

Top ==
    /\ pc = "top" /\ pc' = "poll"
    /\ wake' = IF due = -1 THEN -1 ELSE IF now < TargetTime THEN TargetTime ELSE now
    /\ UNCHANGED <<now, nextTickTarget, freq, due, seen, born, cut>>

\* poll returns at its timeout, or before it when there is traffic.
PollNetwork ==
    /\ pc = "poll"
    /\ now' \in now .. (IF wake = -1 THEN MaxNow ELSE wake)
    /\ now' <= MaxNow
    /\ pc' = IF wake = -1 THEN "events" ELSE "ticks"
    /\ seen' = now'
    /\ UNCHANGED <<nextTickTarget, freq, due, wake, born, cut>>

Advance_Forgotten == UNCHANGED nextTickTarget

Advance == nextTickTarget' = nextTickTarget + TimeUnit(freq)

\* In the tick in which something happens, what comes next is anything; nobody comes back
\* to life.
Happens == due' \in IF due = -1 THEN {-1} ELSE {-1} \cup 1 .. MaxDue

\* A tick less to wait, unless what is waited for stands still: the command of a frozen
\* player, one that was started after the last tick, or everything after the end of the game.
Passes == due' \in {due - 1, due}

\* One turn of the loop of processGameTick: World::update, then the target.
WorldUpdate ==
    /\ pc = "ticks" /\ seen >= nextTickTarget
    /\ IF due > 1 THEN Passes ELSE Happens
    /\ Advance
    /\ UNCHANGED <<now, freq, pc, wake, seen, born, cut>>

\* World::update throws: the target stays, though some players have been updated,
\* and the turn is over.
UpdateThrows ==
    /\ pc = "ticks" /\ seen >= nextTickTarget
    /\ Happens
    /\ pc' = "top" /\ cut' = TRUE
    /\ UNCHANGED <<now, nextTickTarget, freq, wake, seen, born>>

TicksDone ==
    /\ pc = "ticks" /\ seen < nextTickTarget
    /\ pc' = "events"
    /\ UNCHANGED <<now, nextTickTarget, freq, due, wake, seen, born, cut>>

\* What the events of a turn can do: players join and leave, commands start.
\* Handling them takes its time.
Handle ==
    /\ now' \in now .. now + HandlingTime /\ now' <= MaxNow
    /\ due' \in {-1} \cup 1 .. MaxDue
    /\ born' = IF due = -1 /\ due' # -1 THEN now' ELSE born

ResetTarget_Never == UNCHANGED nextTickTarget

\* Only the branch that slept without a limit sets the target anew.
ResetTarget == IF wake = -1 THEN nextTickTarget' = now' + TimeUnit(freq') ELSE UNCHANGED nextTickTarget

Events ==
    /\ pc = "events" /\ pc' = "flush"
    /\ Handle
    /\ freq' \in Freqs      \* sst, or nothing
    /\ ResetTarget
    /\ cut' = (cut /\ wake # -1)
    /\ UNCHANGED <<wake, seen>>

EventsThrow ==
    /\ pc = "events" /\ pc' = "top"
    /\ Handle
    /\ cut' = (cut \/ wake = -1)
    /\ UNCHANGED <<nextTickTarget, freq, wake, seen>>

\* The flushes, whether they throw or not.
Flush ==
    /\ pc = "flush" /\ pc' = "top"
    /\ UNCHANGED <<now, nextTickTarget, freq, due, wake, seen, born, cut>>

LoopNext ==
    \/ Top \/ PollNetwork \/ WorldUpdate \/ UpdateThrows \/ TicksDone
    \/ Events \/ EventsThrow \/ Flush

\* The loop itself goes on; nothing makes the network speak.
LoopFairness == WF_clock(WorldUpdate) /\ WF_clock(TicksDone)

-----------------------------------------------------------------------------
(* Properties.                                                             *)

\* Making up for lost ticks comes to an end, unless the frequency is above the
\* resolution of the clock: then the unit is 0 and the target never gets beyond now.
CatchUpEnds == (pc = "ticks" /\ TimeUnit(freq) > 0) ~> (pc # "ticks")

\* A player is not made to live through the time when nobody lived: a tick is due
\* before it was born by less than the events of a turn take, except after an exception in
\* the turn that let it in: that exception keeps the target from being set anew.
IdleTimeIsNotReplayed ==
    pc = "ticks" /\ due # -1 /\ ~cut => born - nextTickTarget < HandlingTime

\* The tick in which something happens to a player is not slept through: it is late by
\* less than the events of the turn before took, whatever woke the server before.
\* (After an update that threw, players updated before it are ahead of the target.)
HappensOnTime ==
    pc = "ticks" /\ due = 1 /\ seen >= nextTickTarget /\ ~cut =>
        seen - nextTickTarget < HandlingTime

\* Ticks come neither before their time nor long after it.
TicksComeInTime == IdleTimeIsNotReplayed /\ HappensOnTime

=============================================================================
