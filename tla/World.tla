------------------------------- MODULE World -------------------------------
(***************************************************************************)
(* Who is where in the world the server keeps (server/src/game/World.cpp,  *)
(* Team.cpp and the movement half of Player.cpp): teams and their slots,   *)
(* eggs, players, and the per-tile lists of ids that mirror both.          *)
(*                                                                         *)
(* The server is single threaded: every operation below is one call made   *)
(* by Core or by a command that completes, and runs to its end before the  *)
(* next one.  The clock of a player, its command queue and its answers     *)
(* belong to module Player; what lies on the ground belongs to Incantation *)
(* and to the resource modules.                                            *)
(***************************************************************************)
EXTENDS Integers, Sequences, FiniteSets, Functions

CONSTANTS
    Width, Height,      \* ServerConfig::width and ::height
    Names,              \* what a team may be called
    TeamNames,          \* ServerConfig::teamNames, in the order of the -n option
    ClientLimit,        \* ServerConfig::clientLimit
    MaxId,              \* bound: ids handed out before forks stop
    MaxPendingEvents    \* bound: no operation starts once this many events wait

ASSUME WorldAssumption ==
    /\ Width \in Nat \ {0} /\ Height \in Nat \ {0}
    /\ TeamNames \in Seq(Names)
    /\ ClientLimit \in Nat
    /\ MaxId \in Nat /\ MaxPendingEvents \in Nat

\* validate() never compares the names given to -n with one another, so this is
\* a hypothesis of the results below and not an assumption of the module.
DistinctTeamNames == IsInjective(TeamNames)

VARIABLES
    newId,          \* _newId, shared by eggs and players
    teamSlots,      \* Team::_nbTeamSlots, per team name
    teamPlayers,    \* Team::_listPlayerId, per team name
    vecEggs,        \* _vecEggs: egg id -> position and team
    playerList,     \* _playerList: player id -> position and orientation
    tilePlayers,    \* Tile::players, per tile index
    tileEggs,       \* Tile::eggs, per tile index
    guiEvents       \* _guiEvents, the events not yet flushed to the spectators

vars == <<newId, teamSlots, teamPlayers, vecEggs, playerList, tilePlayers,
          tileEggs, guiEvents>>

-----------------------------------------------------------------------------
(* Geometry.  Orientations count clockwise from NORTH = 0.                 *)

Teams == Range(TeamNames)
Dirs  == 0 .. 3
Pos   == [x : 0 .. Width - 1, y : 0 .. Height - 1]
Tiles == 0 .. Width * Height - 1

TileIndex(p)    == p.y * Width + p.x
TilePosition(i) == [x |-> i % Width, y |-> i \div Width]

playerMove == [d \in Dirs |-> CASE d = 0 -> [dx |-> 0, dy |-> -1]
                                [] d = 1 -> [dx |-> 1, dy |-> 0]
                                [] d = 2 -> [dx |-> 0, dy |-> 1]
                                [] d = 3 -> [dx |-> -1, dy |-> 0]]

Ahead_NoWrap(p, d) == [x |-> p.x + playerMove[d].dx, y |-> p.y + playerMove[d].dy]

\* moveForward computes in int, moveWithOrientation in size_t where adding -1
\* wraps and adding the width wraps back: both are this step on the torus.
Ahead(p, d) == [x |-> (p.x + playerMove[d].dx + Width) % Width,
                y |-> (p.y + playerMove[d].dy + Height) % Height]

(* Spectator events.  "ppo" and "edi" carry a set: the run of messages one *)
(* call emits for different players or eggs.                               *)
Ppo(S)          == [type |-> "ppo", seen |-> S]
Edi(S)          == [type |-> "edi", eggs |-> S]
Enw(e, id, p)   == [type |-> "enw", egg |-> e, player |-> id, pos |-> p]
Pex(id)         == [type |-> "pex", player |-> id]
Pdi(id)         == [type |-> "pdi", player |-> id]
Sighting(id, s) == [id |-> id, pos |-> s.pos, dir |-> s.dir]

Event == [type : {"ppo"}, seen : SUBSET [id : Nat, pos : Pos, dir : Dirs]]
         \cup [type : {"edi"}, eggs : SUBSET Nat]
         \cup [type : {"enw"}, egg : Nat, player : Nat, pos : Pos]
         \cup [type : {"pex", "pdi"}, player : Nat]

-----------------------------------------------------------------------------
(* The constructor: every team starts with ClientLimit eggs on tiles drawn *)
(* at random, ids counted up over the list of names.                       *)

FirstEggs == 0 .. Len(TeamNames) * ClientLimit - 1
FirstTeam(e) == TeamNames[(e \div ClientLimit) + 1]

SetSpawnEggs(spot) ==
    /\ vecEggs = [e \in FirstEggs |-> [pos |-> TilePosition(spot[e]), team |-> FirstTeam(e)]]
    /\ tileEggs = [i \in Tiles |-> {e \in FirstEggs : spot[e] = i}]

Init ==
    /\ newId = Len(TeamNames) * ClientLimit
    /\ teamSlots = [t \in Teams |-> ClientLimit]
    /\ teamPlayers = [t \in Teams |-> {}]
    /\ \E spot \in [FirstEggs -> Tiles] : SetSpawnEggs(spot)
    /\ playerList = [id \in {} |-> 0]
    /\ tilePlayers = [i \in Tiles |-> {}]
    /\ guiEvents = <<>>

EggsOf(t) == {e \in DOMAIN vecEggs : vecEggs[e].team = t}

\* Team::availableSlot, before it is truncated to an unsigned number.
AvailableSlot(t) == teamSlots[t] - Cardinality(teamPlayers[t])

Room == Len(guiEvents) < MaxPendingEvents

-----------------------------------------------------------------------------
(* Operations.                                                             *)

\* An egg leaves _vecEggs (getTeamEgg, eject) and its tile (eraseEggFromTile).
EraseEggs_OffTileOnly(S, i) ==
    /\ tileEggs' = [tileEggs EXCEPT ![i] = @ \ S]
    /\ UNCHANGED vecEggs

EraseEggs(S, i) ==
    /\ vecEggs' = Restrict(vecEggs, DOMAIN vecEggs \ S)
    /\ tileEggs' = [tileEggs EXCEPT ![i] = @ \ S]

\* The Player constructor, called with the id and the position of the egg.
Hatch_AtOrigin(e, d) == [pos |-> TilePosition(0), dir |-> d]

Hatch(e, d) == [pos |-> vecEggs[e].pos, dir |-> d]

\* World::spawnPlayer: some egg of the team hatches (the first one in the order
\* of an unordered_map) and the player takes the id and the place of its egg.
SpawnPlayer(t) ==
    /\ Room
    /\ \E e \in EggsOf(t), d \in Dirs :
          /\ EraseEggs({e}, TileIndex(vecEggs[e].pos))
          /\ teamPlayers' = [teamPlayers EXCEPT ![t] = @ \cup {e}]
          /\ playerList' = [id \in DOMAIN playerList \cup {e} |->
                              IF id = e THEN Hatch(e, d) ELSE playerList[id]]
          /\ tilePlayers' = [tilePlayers EXCEPT ![TileIndex(Hatch(e, d).pos)] = @ \cup {e}]
    /\ UNCHANGED <<newId, teamSlots, guiEvents>>

\* removePlayerFromTeam and Team::removeFromTeam: the slot goes with the player.
RemovePlayerFromTeam_SlotOnly(id) ==
    /\ teamSlots' = [t \in Teams |-> IF id \in teamPlayers[t] THEN teamSlots[t] - 1
                                                              ELSE teamSlots[t]]
    /\ UNCHANGED teamPlayers

RemovePlayerFromTeam(id) ==
    /\ teamPlayers' = [t \in Teams |-> teamPlayers[t] \ {id}]
    /\ teamSlots' = [t \in Teams |-> IF id \in teamPlayers[t] THEN teamSlots[t] - 1
                                                              ELSE teamSlots[t]]

\* World::removePlayer, for a client that left and for a dead player.
RemovePlayer(id) ==
    /\ Room
    /\ playerList' = Restrict(playerList, DOMAIN playerList \ {id})
    /\ RemovePlayerFromTeam(id)
    /\ tilePlayers' = [tilePlayers EXCEPT ![TileIndex(playerList[id].pos)] = @ \ {id}]
    /\ guiEvents' = Append(guiEvents, Pdi(id))
    /\ UNCHANGED <<newId, vecEggs, tileEggs>>

MoveAll_StaysListed(S, d) ==
    /\ playerList' = [id \in DOMAIN playerList |->
                        IF id \in S THEN [playerList[id] EXCEPT !.pos = Ahead(@, d)]
                                    ELSE playerList[id]]
    /\ tilePlayers' = [i \in Tiles |->
                         tilePlayers[i] \cup {id \in S : TileIndex(playerList'[id].pos) = i}]

\* Everyone in S takes one step in direction d and is filed under the new tile
\* (updatePositionOnMap, once per player).
MoveAll(S, d) ==
    LET dest(id) == Ahead(playerList[id].pos, d) IN
    /\ playerList' = [id \in DOMAIN playerList |->
                        IF id \in S THEN [playerList[id] EXCEPT !.pos = dest(id)]
                                    ELSE playerList[id]]
    /\ tilePlayers' = [i \in Tiles |->
                         {id \in tilePlayers[i] :
                            id \in S => TileIndex(playerList[id].pos) # i}
                         \cup {id \in S : TileIndex(dest(id)) = i}]

\* What a spectator is told of the players in S after the call.
Sightings_BeforeTheCall(S) == {Sighting(id, playerList[id]) : id \in S}

Sightings(S) == {Sighting(id, playerList'[id]) : id \in S}

\* Forward::execute.
Forward(id) ==
    /\ Room
    /\ MoveAll({id}, playerList[id].dir)
    /\ guiEvents' = Append(guiEvents, Ppo(Sightings({id})))
    /\ UNCHANGED <<newId, teamSlots, teamPlayers, vecEggs, tileEggs>>

\* Left::execute turns by 3, Right::execute by 1.
Turn(id, quarters) ==
    /\ Room
    /\ playerList' = [playerList EXCEPT ![id].dir = (@ + quarters) % 4]
    /\ guiEvents' = Append(guiEvents, Ppo(Sightings({id})))
    /\ UNCHANGED <<newId, teamSlots, teamPlayers, vecEggs, tilePlayers, tileEggs>>

\* World::eject: everybody else on the tile is pushed along the ejecting
\* player's orientation, and every egg on the tile is destroyed.
Eject(id) ==
    LET i      == TileIndex(playerList[id].pos)
        pushed == tilePlayers[i] \ {id}
        broken == tileEggs[i]
    IN /\ Room
       /\ MoveAll(pushed, playerList[id].dir)
       /\ EraseEggs(broken, i)
       /\ guiEvents' = guiEvents \o <<Ppo(Sightings(pushed)), Edi(broken), Pex(id)>>
       /\ UNCHANGED <<newId, teamSlots, teamPlayers>>

AddNewTeamSlot_Forgotten(t) == UNCHANGED teamSlots

AddNewTeamSlot(t) == teamSlots' = [teamSlots EXCEPT ![t] = @ + 1]

\* World::layEgg, when a Fork completes: a new egg of the layer's team and one
\* more slot for it.  getPlayerTeam finds the team by looking for the player;
\* for a player of no team nothing happens.
LayEgg(id) ==
    /\ Room
    /\ newId < MaxId
    /\ IF \A t \in Teams : id \notin teamPlayers[t] THEN UNCHANGED <<newId, vecEggs, tileEggs, guiEvents, teamSlots>>
       ELSE \E t \in Teams :
          LET p == playerList[id].pos IN
          /\ id \in teamPlayers[t]
          /\ vecEggs' = [e \in DOMAIN vecEggs \cup {newId} |->
                           IF e = newId THEN [pos |-> p, team |-> t] ELSE vecEggs[e]]
          /\ tileEggs' = [tileEggs EXCEPT ![TileIndex(p)] = @ \cup {newId}]
          /\ guiEvents' = Append(guiEvents, Enw(newId, id, p))
          /\ AddNewTeamSlot(t)
          /\ newId' = newId + 1
    /\ UNCHANGED <<teamPlayers, playerList, tilePlayers>>

GetAndClearGuiEvents ==
    /\ guiEvents # <<>>
    /\ guiEvents' = <<>>
    /\ UNCHANGED <<newId, teamSlots, teamPlayers, vecEggs, playerList, tilePlayers, tileEggs>>

Next ==
    \/ \E t \in Teams : SpawnPlayer(t)
    \/ \E id \in DOMAIN playerList :
          \/ RemovePlayer(id)
          \/ Forward(id)
          \/ Turn(id, 3)
          \/ Turn(id, 1)
          \/ Eject(id)
          \/ LayEgg(id)
    \/ GetAndClearGuiEvents

Spec == Init /\ [][Next]_vars

-----------------------------------------------------------------------------
(* Properties.                                                             *)

TypeOK ==
    /\ newId \in Nat
    /\ teamSlots \in [Teams -> Int]
    /\ teamPlayers \in [Teams -> SUBSET Nat]
    /\ vecEggs \in [DOMAIN vecEggs -> [pos : Pos, team : Teams]]
    /\ playerList \in [DOMAIN playerList -> [pos : Pos, dir : Dirs]]
    /\ tilePlayers \in [Tiles -> SUBSET Nat]
    /\ tileEggs \in [Tiles -> SUBSET Nat]
    /\ guiEvents \in Seq(Event)

\* The lists of ids on the tiles say exactly what _playerList and _vecEggs say.
\* A stale id left on a tile makes the next Eject or Look there throw from
\* _playerList.at(), and an egg listed twice could hatch twice.
TilesMirrorWorld ==
    \A i \in Tiles :
        /\ tilePlayers[i] = {id \in DOMAIN playerList : TileIndex(playerList[id].pos) = i}
        /\ tileEggs[i] = {e \in DOMAIN vecEggs : TileIndex(vecEggs[e].pos) = i}

\* Every player is in exactly one team and teams list nobody else: checkGameEnd
\* reads _playerList.at() for every listed id, on every tick.
TeamsPartitionPlayers ==
    /\ DOMAIN playerList = UNION {teamPlayers[t] : t \in Teams}
    /\ \A t, u \in Teams : t # u => teamPlayers[t] \cap teamPlayers[u] = {}

\* An id names one thing: an egg, a player, or nothing any more.
IdsAreUnambiguous ==
    /\ DOMAIN playerList \cap DOMAIN vecEggs = {}
    /\ DOMAIN playerList \cup DOMAIN vecEggs \subseteq 0 .. newId - 1

\* Each egg of a team has a slot of its own, so the number the handshake and
\* Connect_nbr report never falls short of the eggs left to hatch, and
\* availableSlot(), an unsigned subtraction, never wraps.
EverySlotIsBacked ==
    \A t \in Teams : AvailableSlot(t) >= Cardinality(EggsOf(t))

\* README.md:76: clientsNb is the "number of authorized clients per team"; forks add
\* to it.  A team whose name is given twice has its eggs twice and its slots once.
AuthorizedClients == \A t \in Teams : Cardinality(teamPlayers[t]) <= teamSlots[t]

\* An id never comes back: what appears is a fresh egg, or the player hatched
\* from an egg that disappears, in its place and in its team.
OnlyEggsHatch ==
    [][/\ \A e \in DOMAIN vecEggs' \ DOMAIN vecEggs : e >= newId
       /\ \A id \in DOMAIN playerList' \ DOMAIN playerList :
             /\ id \in DOMAIN vecEggs \ DOMAIN vecEggs'
             /\ playerList'[id].pos = vecEggs[id].pos
             /\ id \in teamPlayers'[vecEggs[id].team]]_vars

\* Nobody ever moves further than one tile along one axis of the torus, and only
\* the spectators who are told about it see it: a move that is not announced
\* leaves every display wrong until the player moves again.
MovesAreAnnounced ==
    [][\A id \in DOMAIN playerList \cap DOMAIN playerList' :
          playerList'[id] # playerList[id] =>
             /\ \/ playerList'[id].pos = playerList[id].pos
                \/ \E d \in Dirs : playerList'[id].pos = Ahead(playerList[id].pos, d)
             /\ \E k \in Len(guiEvents) + 1 .. Len(guiEvents') :
                   /\ guiEvents'[k].type = "ppo"
                   /\ Sighting(id, playerList'[id]) \in guiEvents'[k].seen]_vars

=============================================================================
