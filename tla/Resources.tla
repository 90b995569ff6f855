----------------------------- MODULE Resources -----------------------------
(***************************************************************************)
(* What there is in the world of the server and when the game is won       *)
(* (server/src/game/World.cpp, server/src/command/Take.cpp, Set.cpp,       *)
(* Incantation.cpp): items on the ground and in the bags, eaten, taken,    *)
(* put down and burnt, grown again every few updates.  A command looks     *)
(* when it starts and acts when it ends, and others act in between.  One   *)
(* step is the visit of one player by World::update.  When a command ends  *)
(* and who is frozen are for modules Player and Incantation: here any      *)
(* command may end at any visit.                                           *)
(***************************************************************************)
EXTENDS Integers, FiniteSets

CONSTANTS
    Folk, SideOf,           \* the players there may be, and their teams
    Spots,                  \* the tiles
    Wares,                  \* the kinds of items, "food" among them
    Quantity,               \* densityItem times the number of tiles
    kNbStartFood,
    Burns,                  \* what a ritual of two burns
    TopLevel,               \* kNbLevel + 1
    kNbPlayerToWin, kNbTicksToRespawn,
    MaxCalls                \* bound: calls of World::update

\* New players are below the last level.
ASSUME ResourcesAssumption ==
    /\ IsFiniteSet(Folk)
    /\ IsFiniteSet(Spots) /\ Spots # {}
    /\ "food" \in Wares
    /\ Quantity \in [Wares -> Nat]
    /\ Burns \in [Wares -> Nat]
    /\ kNbStartFood \in Nat
    /\ TopLevel \in Nat /\ TopLevel > 1
    /\ kNbPlayerToWin \in Nat /\ kNbPlayerToWin > 0

VARIABLES
    world,      \* Tile::resources (stock), _playerList (people); history: items made less those
                \* eaten, burnt or gone with a player (made), and those who left (gone)
    season,     \* respawnTicks; history: the calls of World::update so far
    visiting,   \* the players the call under way has still to visit, and CheckEnd after them
    won,        \* _isGameEnd
    past        \* history: the world when it was won; whether an exception cut the last call

resourceVars == <<world, season, visiting, won, past>>

CheckEnd  == "checkGameEnd"
NoCommand == [does |-> "nothing"]
Nobody    == [p \in {} |-> "nobody"]
NotYet    == "not yet"

\* Items one by one: the nth of those at t, for a count of items at every t.
Units(count)   == UNION {{t} \X (1 .. count[t]) : t \in DOMAIN count}
Amount(count)  == Cardinality(Units(count))

OnGround(w, k) == Amount([t \in Spots |-> w.stock[t][k]])
InBags(w, k)   == Amount([p \in DOMAIN w.people |-> w.people[p].bag[k]])
TileOf(w, p)   == w.stock[w.people[p].tile]
AtTop(w, p)    == w.people[p].level = TopLevel

Hatched(t) == [bag |-> [k \in Wares |-> IF k = "food" THEN kNbStartFood ELSE 0],
               tile |-> t, level |-> 1, dead |-> FALSE, command |-> NoCommand]

\* Fills up what is missing on the ground, each item anywhere; what is in bags is not counted.
Missing(w, k) == IF Quantity[k] > OnGround(w, k) THEN Quantity[k] - OnGround(w, k) ELSE 0

AddItemsToMap(w) ==
    LET filled(k) == OnGround(w, k) + Missing(w, k)
        grows(g)  == \A k \in Wares :
                        /\ OnGround([stock |-> g], k) = filled(k)
                        /\ \A t \in Spots : g[t][k] >= w.stock[t][k]
    IN  {[w EXCEPT !.stock = g, !.made = [k \in Wares |-> @[k] + Missing(w, k)]] :
            g \in {g \in [Spots -> [Wares -> UNION {0 .. filled(k) : k \in Wares}]] : grows(g)}}

\* The worlds the constructor makes.
NewWorlds ==
    AddItemsToMap([stock |-> [t \in Spots |-> [k \in Wares |-> 0]], people |-> Nobody,
                   made |-> [k \in Wares |-> 0], gone |-> {}])

ResourcesInit ==
    /\ world \in NewWorlds
    /\ season = [ticks |-> 0, calls |-> 0]
    /\ visiting = {} /\ won = FALSE /\ past = [world |-> NotYet, cut |-> FALSE]

-----------------------------------------------------------------------------
(* The commands that deal with items, and those that move; "move" stands   *)
(* for Forward, for Eject and for every other.                             *)

\* n items of kind k from the bag of p to its tile
Put(w, p, k, n) ==
    [w EXCEPT !.people[p].bag[k] = @ - n, !.stock[w.people[p].tile][k] = @ + n]

CanTake(w, p, k) == TileOf(w, p)[k] > 0
CanSet(w, p, k)  == w.people[p].bag[k] > 0

ExecuteTake_Trusting(w, p, k) == Put(w, p, k, -1)

ExecuteTake(w, p, k) == IF CanTake(w, p, k) THEN Put(w, p, k, -1) ELSE w

ExecuteSet(w, p, k) == IF CanSet(w, p, k) THEN Put(w, p, k, 1) ELSE w

HasEnoughResources(w, p) == \A k \in Wares : TileOf(w, p)[k] >= Burns[k]

ExecuteIncantation(w, p, ids) ==
    IF HasEnoughResources(w, p) /\ ids \subseteq DOMAIN w.people
    THEN [w EXCEPT !.stock[w.people[p].tile] = [k \in Wares |-> @[k] - Burns[k]],
                   !.made = [k \in Wares |-> @[k] - Burns[k]],
                   !.people = [q \in DOMAIN w.people |->
                               IF q \in ids /\ ~AtTop(w, q) THEN [w.people[q] EXCEPT !.level = @ + 1]
                               ELSE w.people[q]]]
    ELSE w

Others(w, p)     == {q \in DOMAIN w.people \ {p} : w.people[q].tile = w.people[p].tile}
Moved(w, who, t) ==
    [w EXCEPT !.people = [q \in DOMAIN w.people |-> IF q \in who THEN [w.people[q] EXCEPT !.tile = t]
                                                    ELSE w.people[q]]]

\* What there may be once the command of p is carried out.
Execute(w, p) ==
    LET c    == w.people[p].command
        idle == [w EXCEPT !.people[p].command = NoCommand]
    IN  CASE c.does = "take"   -> {ExecuteTake(idle, p, c.what)}
          [] c.does = "set"    -> {ExecuteSet(idle, p, c.what)}
          [] c.does = "ritual" -> {ExecuteIncantation(idle, p, c.ids)}
          [] c.does = "move"   -> UNION {{Moved(idle, {p}, t), Moved(idle, Others(w, p), t)} : t \in Spots}
          [] OTHER             -> {idle}

\* Commands for which start returns true.  At the last level the start of a ritual
\* throws, and leaves it the current command.
Startable(w, p) ==
    LET partners == {q \in Others(w, p) : w.people[q].level = w.people[p].level}
    IN  {[does |-> "move"]}
        \cup {[does |-> "take", what |-> k] : k \in {k \in Wares : CanTake(w, p, k)}}
        \cup {[does |-> "set", what |-> k] : k \in {k \in Wares : CanSet(w, p, k)}}
        \cup {[does |-> "ritual", ids |-> {p} \cup s] :
                 s \in IF AtTop(w, p) THEN {{}}
                       ELSE {{q} : q \in {q \in partners : HasEnoughResources(w, p)}}}

TryStartNextCommand(w, p) == {[w EXCEPT !.people[p].command = c] : c \in Startable(w, p)}

\* Neither start nor execute of a ritual survives the last level: there is no condition
\* to look up.
Throws(w, p) == AtTop(w, p) /\ w.people[p].command.does = "ritual"

-----------------------------------------------------------------------------
(* World::update.                                                          *)

BeginUpdate ==
    /\ visiting = {} /\ ~won /\ season.calls < MaxCalls
    /\ LET grows == season.ticks + 1 = kNbTicksToRespawn IN
          /\ world' \in IF grows THEN AddItemsToMap(world) ELSE {world}
          /\ season' = [ticks |-> IF grows THEN 0 ELSE season.ticks + 1, calls |-> season.calls + 1]
    /\ visiting' = {p \in DOMAIN world.people : ~world.people[p].dead} \cup {CheckEnd}
    /\ UNCHANGED <<won, past>>

\* Life goes on, on some ticks by a unit of food, and to its end without one.
Lives(w, p) ==
    {w} \cup (IF w.people[p].bag["food"] > 0
              THEN {[w EXCEPT !.people[p].bag["food"] = @ - 1, !.made["food"] = @ - 1]}
              ELSE {[w EXCEPT !.people[p].dead = TRUE]})

\* Player::update: the command goes on, or ends and the next one starts.  An exception
\* leaves the others unvisited and checkGameEnd uncalled.
UpdatePlayer(p) ==
    /\ p \in visiting \ {CheckEnd}
    /\ \E w \in Lives(world, p) :
          LET atWork == ~w.people[p].dead
              ends   == IF atWork /\ ~Throws(w, p) THEN Execute(w, p) ELSE {}
              threw(v) == /\ visiting' = {} /\ past' = [past EXCEPT !.cut = TRUE]
                          /\ world' = v
          IN  \/ world' \in {w} \cup ends /\ visiting' = visiting \ {p} /\ UNCHANGED past
              \/ atWork /\ Throws(w, p) /\ threw(w)
              \/ \E v \in UNION {TryStartNextCommand(x, p) : x \in ends} :
                    \/ ~Throws(v, p) /\ world' = v /\ visiting' = visiting \ {p} /\ UNCHANGED past
                    \/ Throws(v, p) /\ threw(v)
    /\ UNCHANGED <<season, won>>

Champions(w, side) == {p \in DOMAIN w.people : SideOf[p] = side /\ ~w.people[p].dead /\ AtTop(w, p)}
HasWinner(w)       == \E p \in Folk : Cardinality(Champions(w, SideOf[p])) >= kNbPlayerToWin

CheckGameEnd ==
    /\ visiting = {CheckEnd} /\ visiting' = {}
    /\ won' = HasWinner(world)
    /\ past' = [world |-> IF HasWinner(world) THEN world ELSE NotYet, cut |-> FALSE]
    /\ UNCHANGED <<world, season>>

-----------------------------------------------------------------------------
(* Between the updates: players join, leave and ask, also after the end.   *)

\* An id is given once.  Players can move at once, so that one tile with eggs is enough.
Join(p) ==
    /\ visiting = {} /\ p \notin DOMAIN world.people \cup world.gone
    /\ world' = [world EXCEPT !.people = [q \in DOMAIN @ \cup {p} |-> IF q = p THEN Hatched(CHOOSE t \in Spots : TRUE) ELSE @[q]],
                              !.made["food"] = @ + kNbStartFood]
    /\ UNCHANGED <<season, visiting, won, past>>

\* removePlayer: the bag goes with the player.
Leave(p) ==
    /\ visiting = {} /\ p \in DOMAIN world.people
    /\ world' = [world EXCEPT !.people = [q \in DOMAIN @ \ {p} |-> @[q]], !.gone = @ \cup {p},
                              !.made = [k \in Wares |-> @[k] - world.people[p].bag[k]]]
    /\ UNCHANGED <<season, visiting, won, past>>

\* pushCommandToPlayer finds the player idle.  Neither death nor the end of the game is looked at.
Ask(p) ==
    /\ visiting = {} /\ p \in DOMAIN world.people
    /\ world.people[p].command = NoCommand
    /\ world' \in TryStartNextCommand(world, p)
    /\ UNCHANGED <<season, visiting, won, past>>

ResourcesNext ==
    \/ BeginUpdate \/ CheckGameEnd
    \/ \E p \in Folk : UpdatePlayer(p) \/ Join(p) \/ Leave(p) \/ Ask(p)

-----------------------------------------------------------------------------
(* Properties.                                                             *)

\* Take, Set and rituals look when they start and act when they end.  Whatever others
\* took, burnt or put down in between, an item is in one place: ground and bags add up to
\* what was made, and no count, unsigned in the code, goes below nothing.
ItemsAddUp ==
    \A k \in Wares :
        /\ OnGround(world, k) + InBags(world, k) = world.made[k]
        /\ \A t \in Spots : world.stock[t][k] >= 0
        /\ \A p \in DOMAIN world.people : world.people[p].bag[k] >= 0

\* A team that has its players at the last level has won by the end of the update that
\* brought the last of them there, unless an exception cut that update short; and what
\* players own, where they stand and what lies about are what they were then.
EndIsSeenAndFinal ==
    /\ visiting = {} /\ ~past.cut /\ HasWinner(world) => won
    /\ won => /\ world.stock = past.world.stock
              /\ \A p \in DOMAIN world.people \cap DOMAIN past.world.people :
                    [world.people[p] EXCEPT !.command = NoCommand] =
                    [past.world.people[p] EXCEPT !.command = NoCommand]

\* Items are neither made nor lost by commands that cross, and a victory is seen and final.
ResourcesHold == ItemsAddUp /\ EndIsSeenAndFinal

=============================================================================
