---------------------------- MODULE Incantation ----------------------------
(***************************************************************************)
(* Rituals (server/src/command/Incantation.cpp) among several players of   *)
(* one world, as World::update runs them: who is listed, who is frozen,    *)
(* what is checked when a ritual starts and what when it ends, and what    *)
(* happens when players move, die, leave or start rituals meanwhile.       *)
(*                                                                         *)
(* World::update visits the living players one after the other in the      *)
(* order of a hash table; "todo" holds those the current pass has still to *)
(* visit.  Messages are handled between passes.  Once a team has won,      *)
(* World::update does nothing any more, though messages are still handled. *)
(***************************************************************************)
EXTENDS Integers, FiniteSets

CONSTANTS
    Players, Tiles,
    kNbLevel,           \* levels that can be left
    nbPlayer,           \* getCondition()[level - 1].nbPlayer
    Stones,             \* getCondition()[level - 1].resources, as one kind of stone
    requiredTicks,      \* Incantation::kTimeLimit
    TeamOf,             \* the team that lists each player
    kNbPlayerToWin,     \* how many of a team at the last level end the game
    MaxStones           \* bound: stones a tile holds

ASSUME IncantationAssumption ==
    /\ kNbLevel \in Nat \ {0}
    /\ nbPlayer \in [1 .. kNbLevel -> Nat \ {0}]
    /\ Stones \in [1 .. kNbLevel -> Nat]
    /\ requiredTicks \in Nat \ {0}
    /\ kNbPlayerToWin \in Nat \ {0}
    /\ MaxStones \in Nat

VARIABLES
    present,            \* the keys of World::_playerList
    dead,               \* Player::_isDead
    pos,                \* Player::_pos
    level,              \* Player::_level
    isIncanting,        \* Player::_isIncanting
    ritual,             \* the Incantation each player carries out: the players
                        \* listed (_vecPlayerIds) and the updates still to go
    ground,             \* Tile::resources
    todo,               \* players the pass of World::update has still to visit
    isGameEnd,          \* World::_isGameEnd
    orphans             \* history: players listed by a ritual that vanished

vars == <<present, dead, pos, level, isIncanting, ritual, ground, todo, isGameEnd, orphans>>

NoRitual == [team |-> {}, left |-> 0]
Busy(p)  == ritual[p].team # {}

Init ==
    /\ present = Players /\ dead = {}
    /\ pos \in [Players -> Tiles]
    /\ level = [p \in Players |-> 1]
    /\ isIncanting = [p \in Players |-> FALSE]
    /\ ritual = [p \in Players |-> NoRitual]
    /\ ground \in [Tiles -> 0 .. MaxStones]
    /\ todo = {} /\ isGameEnd = FALSE /\ orphans = {}

-----------------------------------------------------------------------------
(* Incantation::start.                                                     *)

\* trySelectParticipantsByFood: any players of the same level on the same tile,
\* frozen, busy or dead ones too.  Which of them have the most food is left open.
Candidates(p) == {q \in present \ {p} : pos[q] = pos[p] /\ level[q] = level[p]}

Selections(p) ==
    {S \in SUBSET (Candidates(p) \cup {p}) : p \in S /\ Cardinality(S) = nbPlayer[level[p]]}

EnoughStones(p) == ground[pos[p]] >= Stones[level[p]]

\* start succeeds or throws, evaluated in the state the call leaves everything
\* else in; "free" is who is frozen before it.
Start(p, free, ticks) ==
    \/ /\ level'[p] <= kNbLevel /\ EnoughStones(p)'
       /\ \E S \in Selections(p)' :
             /\ ritual' = [ritual EXCEPT ![p] = [team |-> S, left |-> ticks]]
             /\ isIncanting' = [q \in Players |-> q \in S \ {p} \/ free[q]]
    \/ /\ level'[p] > kNbLevel
       /\ ritual' = [ritual EXCEPT ![p] = [team |-> {p}, left |-> 0]]
       /\ isIncanting' = free

\* The commands tryStartNextCommand goes on with may include an Incantation.
MayStart(p, free) ==
    \/ ritual' = [ritual EXCEPT ![p] = NoRitual] /\ isIncanting' = free
    \/ Start(p, free, requiredTicks)

\* A message starts a ritual between two passes when its player has no command;
\* the first update afterwards does not count.
StartMidTick(p) ==
    /\ todo = {} /\ p \in present /\ ~Busy(p)
    /\ UNCHANGED <<present, dead, pos, level, ground, todo, isGameEnd, orphans>>
    /\ Start(p, isIncanting, requiredTicks + 1)

-----------------------------------------------------------------------------
(* World::update.                                                          *)

\* The pass starts; stones may have grown on a tile (addItemsToMap).
BeginPass ==
    /\ todo = {} /\ ~isGameEnd
    /\ todo' = present \ dead
    /\ \/ UNCHANGED ground
       \/ \E t \in Tiles : ground[t] < MaxStones /\ ground' = [ground EXCEPT ![t] = @ + 1]
    /\ UNCHANGED <<present, dead, pos, level, isIncanting, ritual, isGameEnd, orphans>>

\* checkGameEnd, after the last player of a pass that no exception has left.
Won ==
    \E p \in Players :
       Cardinality({q \in present \ dead : TeamOf[q] = TeamOf[p] /\ level[q] = kNbLevel + 1}) >= kNbPlayerToWin

GoOn(p) ==
    /\ todo' = todo \ {p}
    /\ isGameEnd' = (todo = {p} /\ Won')

\* An exception thrown under p leaves World::update: the others miss this tick.
Leave == todo' = {} /\ UNCHANGED isGameEnd

Visited(p) == IF ritual'[p].team # {} /\ ritual'[p].left = 0 THEN Leave ELSE GoOn(p)

Starve(p) ==
    /\ p \in todo
    /\ dead' = dead \cup {p}
    /\ UNCHANGED <<present, pos, level, isIncanting, ritual, ground, orphans>>
    /\ GoOn(p)

UpdateFrozen(p) ==
    /\ p \in todo /\ isIncanting[p]
    /\ UNCHANGED <<present, dead, pos, level, isIncanting, ritual, ground, orphans>>
    /\ GoOn(p)

\* Any other command ends, or none; then the next one of the queue may be a ritual.
Forward(p, t) == pos' = [pos EXCEPT ![p] = t] /\ UNCHANGED ground

Eject(p, t) ==
    /\ pos' = [q \in Players |-> IF q \in present \ {p} /\ pos[q] = pos[p] THEN t ELSE pos[q]]
    /\ UNCHANGED ground

Set(p)  == ground[pos[p]] < MaxStones /\ ground' = [ground EXCEPT ![pos[p]] = @ + 1] /\ UNCHANGED pos
Take(p) == ground[pos[p]] > 0 /\ ground' = [ground EXCEPT ![pos[p]] = @ - 1] /\ UNCHANGED pos

UpdateOther(p) ==
    /\ p \in todo /\ ~isIncanting[p] /\ ~Busy(p)
    /\ \/ UNCHANGED <<pos, ground>>
       \/ \E t \in Tiles : Forward(p, t) \/ Eject(p, t)
       \/ Set(p) \/ Take(p)
    /\ UNCHANGED <<present, dead, level, orphans>>
    /\ MayStart(p, isIncanting)
    /\ Visited(p)

Elapsed_StaysNew(left) == left

Elapsed(left) == left - 1

UpdateRitual(p) ==
    /\ p \in todo /\ ~isIncanting[p] /\ ritual[p].left > 1
    /\ ritual' = [ritual EXCEPT ![p].left = Elapsed(@)]
    /\ UNCHANGED <<present, dead, pos, level, isIncanting, ground, orphans>>
    /\ GoOn(p)

-----------------------------------------------------------------------------
(* Incantation::execute.                                                   *)

\* levelUp, for everyone listed.
Raised_Uncapped(S) == [q \in Players |-> IF q \in S THEN level[q] + 1 ELSE level[q]]

Raised(S) == [q \in Players |-> IF q \in S /\ level[q] <= kNbLevel THEN level[q] + 1 ELSE level[q]]

\* setIncanting(false), for everyone listed that is still there.
Freed_NotOnFailure(S, success) == [q \in Players |-> isIncanting[q] /\ (q \notin S \/ ~success)]

Freed(S, success) == [q \in Players |-> isIncanting[q] /\ q \notin S]

\* The stones are checked where the leader stands now and for the level it has
\* now; the players listed are only checked to be in _playerList.
Fulfilled_NotRechecked(p) == ritual[p].team \subseteq present

Fulfilled(p) == EnoughStones(p) /\ ritual[p].team \subseteq present

Ends(p) == p \in todo /\ ~isIncanting[p] /\ Busy(p) /\ ritual[p].left <= 1

Succeed(p) ==
    /\ Ends(p) /\ level[p] <= kNbLevel /\ Fulfilled(p)
    /\ ground' = [ground EXCEPT ![pos[p]] = @ - Stones[level[p]]]
    /\ level' = Raised(ritual[p].team)
    /\ UNCHANGED <<present, dead, pos, orphans>>
    /\ MayStart(p, Freed(ritual[p].team, TRUE))
    /\ Visited(p)

Fail(p) ==
    /\ Ends(p) /\ level[p] <= kNbLevel /\ ~Fulfilled(p)
    /\ UNCHANGED <<present, dead, pos, level, ground, orphans>>
    /\ MayStart(p, Freed(ritual[p].team, FALSE))
    /\ Visited(p)

\* checkIncantationRequirements is out of range: the ritual never ends.
Throw(p) ==
    /\ Ends(p) /\ level[p] > kNbLevel
    /\ ritual' = [ritual EXCEPT ![p].left = 0]
    /\ UNCHANGED <<present, dead, pos, level, isIncanting, ground, orphans>>
    /\ Leave

-----------------------------------------------------------------------------
\* World::removePlayer: the client left or its death was announced.  Nobody is
\* told: those frozen by its ritual stay frozen.
RemovePlayer(p) ==
    /\ todo = {} /\ p \in present
    /\ present' = present \ {p} /\ dead' = dead \ {p}
    /\ isIncanting' = [isIncanting EXCEPT ![p] = FALSE]
    /\ ritual' = [ritual EXCEPT ![p] = NoRitual]
    /\ orphans' = (orphans \cup ritual[p].team) \ {p}
    /\ UNCHANGED <<pos, level, ground, todo, isGameEnd>>

Visit(p) ==
    \/ Starve(p) \/ UpdateFrozen(p) \/ UpdateOther(p) \/ UpdateRitual(p)
    \/ Succeed(p) \/ Fail(p) \/ Throw(p)

Next ==
    \/ BeginPass
    \/ \E p \in Players : StartMidTick(p) \/ Visit(p) \/ RemovePlayer(p)

\* Core calls World::update forever, and until the game ends each call visits every player.
Fairness == WF_vars(BeginPass) /\ WF_vars(\E p \in Players : Visit(p))

Spec == Init /\ [][Next]_vars /\ Fairness

-----------------------------------------------------------------------------
(* Properties.                                                             *)

TypeOK ==
    /\ present \subseteq Players /\ dead \subseteq present
    /\ todo \subseteq present \ dead /\ orphans \subseteq Players
    /\ pos \in [Players -> Tiles] /\ ground \in [Tiles -> 0 .. MaxStones]
    /\ level \in [Players -> 1 .. kNbLevel + 1]
    /\ isIncanting \in [Players -> BOOLEAN]
    /\ ritual \in [Players -> [team : SUBSET Players, left : 0 .. requiredTicks + 1]]
    /\ isGameEnd \in BOOLEAN

\* Rituals overlap, their leaders are ejected, their stones taken and their players
\* raised by other rituals: still every level gained is paid for with the stones
\* that a leader's tile holds at that moment, for the level the leader has then.
Promise == INSTANCE Elevation
ElevationIsEarned == Promise!Spec

\* A frozen player is listed by a ritual that will free it, or by one whose leader
\* is gone: setIncanting(true) and setIncanting(false) always come in pairs.
FrozenOnlyByRituals ==
    \A q \in present : isIncanting[q] =>
        q \in orphans \/ \E p \in present \ {q} : q \in ritual[p].team

\* A ritual ends one way or the other, unless its leader dies or is itself frozen by
\* someone else's ritual, a leader past the last level throws out of every pass, or a
\* team has won: World::update then returns at once and no ritual ends any more.
Jammed == \E p \in present : Busy(p) /\ level[p] > kNbLevel

RitualsEnd ==
    \A p \in Players :
       Busy(p) ~> ~Busy(p) \/ isIncanting[p] \/ p \in dead \/ Jammed \/ isGameEnd

\* Two rituals whose leaders froze each other can never end: both leaders stay
\* frozen until they starve.
NoMutualFreeze ==
    ~ \E p, q \in present : /\ p # q /\ isIncanting[p] /\ isIncanting[q]
                            /\ q \in ritual[p].team /\ p \in ritual[q].team

=============================================================================
