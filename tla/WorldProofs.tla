---------------------------- MODULE WorldProofs ----------------------------
(***************************************************************************)
(* Proofs about module World: for every size of the map, every list of     *)
(* team names and every number of clients.                                 *)
(***************************************************************************)
EXTENDS World, FiniteSetTheorems, SequenceTheorems, TLAPS

USE WorldAssumption

-----------------------------------------------------------------------------
(* Geometry.                                                               *)

\* The position of a tile and the index of a position undo each other
\* (getTilePosition, getTileIndex).
LEMMA TileRoundTrip ==
    ASSUME NEW i \in Tiles
    PROVE  TilePosition(i) \in Pos /\ TileIndex(TilePosition(i)) = i
<1>1. i \in Nat /\ i < Width * Height
  BY DEF Tiles
<1>2. i % Width \in 0 .. Width - 1 /\ i \div Width \in Nat
  BY <1>1
<1>3. i = Width * (i \div Width) + (i % Width)
  BY <1>1
<1>4. i \div Width <= Height - 1
  <2> DEFINE q == i \div Width
  <2>1. SUFFICES ASSUME q >= Height PROVE FALSE
    BY <1>2
  <2>2. Width * q >= Width * Height
    BY <2>1, <1>2
  <2> QED BY <2>2, <1>1, <1>2, <1>3
<1> QED BY <1>2, <1>3, <1>4 DEF TilePosition, TileIndex, Pos

\* The index of a position on the map is the index of a tile.
LEMMA TileIndexInTiles ==
    ASSUME NEW p \in Pos
    PROVE  TileIndex(p) \in Tiles
<1>1. p.x \in 0 .. Width - 1 /\ p.y \in 0 .. Height - 1
  BY DEF Pos
<1>2. p.y * Width <= (Height - 1) * Width
  BY <1>1
<1>3. (Height - 1) * Width = Width * Height - Width
  OBVIOUS
<1>4. p.y * Width \in Nat /\ Width * Height \in Nat
  BY <1>1
<1> QED BY <1>1, <1>2, <1>3, <1>4 DEF TileIndex, Tiles

\* A step ahead stays on the map.
LEMMA AheadOnMap ==
    ASSUME NEW p \in Pos, NEW d \in Dirs
    PROVE  Ahead(p, d) \in Pos
<1>1. playerMove[d].dx \in Int /\ playerMove[d].dy \in Int
  BY DEF playerMove, Dirs
<1>2. p.x \in Int /\ p.y \in Int
  BY DEF Pos
<1>3. \A u, v \in Int : \A n \in Nat \ {0} : (u + v + n) % n \in 0 .. n - 1
  OBVIOUS
<1>4. (p.x + playerMove[d].dx + Width) % Width \in 0 .. Width - 1
  BY <1>1, <1>2, <1>3
<1>5. (p.y + playerMove[d].dy + Height) % Height \in 0 .. Height - 1
  BY <1>1, <1>2, <1>3
<1> QED BY <1>4, <1>5 DEF Ahead, Pos

-----------------------------------------------------------------------------
(* The first eggs.                                                         *)

\* setSpawnEggs gives the k-th name the ids from (k-1) * ClientLimit on.
LEMMA FirstEggOwner ==
    ASSUME NEW e \in FirstEggs
    PROVE  /\ ClientLimit > 0
           /\ (e \div ClientLimit) + 1 \in DOMAIN TeamNames
           /\ (e \div ClientLimit) * ClientLimit <= e
           /\ e < (e \div ClientLimit) * ClientLimit + ClientLimit
<1> DEFINE n == Len(TeamNames)
           q == e \div ClientLimit
<1>1. n \in Nat /\ e \in Nat /\ e < n * ClientLimit /\ ClientLimit > 0
  BY DEF FirstEggs
<1>2. q \in Nat /\ e = ClientLimit * q + (e % ClientLimit) /\ e % ClientLimit \in 0 .. ClientLimit - 1
  BY <1>1
<1>3. q < n
  <2>1. SUFFICES ASSUME q >= n PROVE FALSE
    BY <1>1, <1>2
  <2>2. ClientLimit * q >= ClientLimit * n
    BY <2>1, <1>1, <1>2
  <2> QED BY <2>2, <1>1, <1>2
<1> QED BY <1>1, <1>2, <1>3

\* When no name is given twice, a team starts with at most ClientLimit eggs.
LEMMA FirstEggsOfTeam ==
    ASSUME DistinctTeamNames, NEW t \in Teams
    PROVE  Cardinality({e \in FirstEggs : FirstTeam(e) = t}) <= ClientLimit
<1> DEFINE S == {e \in FirstEggs : FirstTeam(e) = t}
<1>1. PICK k \in DOMAIN TeamNames : TeamNames[k] = t
  BY DEF Teams, Range
<1> DEFINE a == (k - 1) * ClientLimit
<1>2. a \in Int /\ k \in Int
  OBVIOUS
<1>3. S \subseteq a .. a + ClientLimit - 1
  <2> SUFFICES ASSUME NEW e \in S PROVE e \in a .. a + ClientLimit - 1
    OBVIOUS
  <2>1. (e \div ClientLimit) + 1 = k
    BY FirstEggOwner, <1>1 DEF FirstTeam, DistinctTeamNames, IsInjective
  <2>2. e \in Int /\ ClientLimit > 0 /\ e \div ClientLimit \in Int
    BY FirstEggOwner DEF FirstEggs
  <2>3. e \div ClientLimit = k - 1
    BY <2>1, <2>2, <1>2
  <2>4. a <= e /\ e < a + ClientLimit
    BY <2>3, FirstEggOwner
  <2> QED BY <2>4, <2>2, <1>2
<1> HIDE DEF a
<1> DEFINE b == a + ClientLimit - 1
<1>4. b \in Int /\ (a > b => ClientLimit = 0) /\ (a <= b => b - a + 1 = ClientLimit)
  BY <1>2
<1>5. IsFiniteSet(a .. b) /\ Cardinality(a .. b) = IF a > b THEN 0 ELSE b - a + 1
  <2> HIDE DEF b
  <2> QED BY <1>2, <1>4, FS_Interval
<1>6. IsFiniteSet(a .. b) /\ Cardinality(a .. b) = ClientLimit
  <2> HIDE DEF b
  <2> QED BY <1>2, <1>4, <1>5
<1>7. Cardinality(S) <= Cardinality(a .. b)
  BY <1>3, <1>6, FS_Subset
<1> QED BY <1>6, <1>7

-----------------------------------------------------------------------------
(* The structure: types, tiles, teams and ids.                             *)

StructInv ==
    /\ TypeOK
    /\ TilesMirrorWorld
    /\ TeamsPartitionPlayers
    /\ IdsAreUnambiguous

LEMMA StructInit == Init => StructInv
<1> SUFFICES ASSUME Init PROVE StructInv
  OBVIOUS
<1> USE DEF Init
<1>1. PICK spot \in [FirstEggs -> Tiles] : SetSpawnEggs(spot)
  OBVIOUS
<1>2. DOMAIN vecEggs = FirstEggs /\ FirstEggs \subseteq 0 .. newId - 1
  BY <1>1 DEF SetSpawnEggs, FirstEggs
<1>3. \A e \in FirstEggs : /\ vecEggs[e] = [pos |-> TilePosition(spot[e]), team |-> FirstTeam(e)]
                           /\ vecEggs[e].pos \in Pos
                           /\ TileIndex(vecEggs[e].pos) = spot[e]
                           /\ vecEggs[e].team \in Teams
  <2> SUFFICES ASSUME NEW e \in FirstEggs
               PROVE  /\ vecEggs[e] = [pos |-> TilePosition(spot[e]), team |-> FirstTeam(e)]
                      /\ vecEggs[e].pos \in Pos
                      /\ TileIndex(vecEggs[e].pos) = spot[e]
                      /\ vecEggs[e].team \in Teams
    OBVIOUS
  <2>1. FirstTeam(e) \in Teams
    BY FirstEggOwner DEF FirstTeam, Teams, Range
  <2>2. spot[e] \in Tiles
    OBVIOUS
  <2> QED BY <1>1, <2>1, <2>2, TileRoundTrip DEF SetSpawnEggs
<1>4. newId \in Nat
  OBVIOUS
<1>5. TypeOK
  <2>1. vecEggs \in [DOMAIN vecEggs -> [pos : Pos, team : Teams]]
    <3>1. vecEggs = [e \in FirstEggs |-> vecEggs[e]]
      BY <1>1 DEF SetSpawnEggs
    <3> QED BY <1>2, <1>3, <3>1
  <2>2. tileEggs \in [Tiles -> SUBSET Nat]
    BY <1>1 DEF SetSpawnEggs, FirstEggs
  <2> QED BY <1>4, <2>1, <2>2 DEF TypeOK
<1>6. TilesMirrorWorld
  BY <1>1, <1>2, <1>3 DEF TilesMirrorWorld, SetSpawnEggs
<1>7. TeamsPartitionPlayers /\ IdsAreUnambiguous
  BY <1>2 DEF TeamsPartitionPlayers, IdsAreUnambiguous
<1> QED BY <1>5, <1>6, <1>7 DEF StructInv

\* What leaves the players' ids and the teams alone leaves the partition alone.
LEMMA SameTeams ==
    ASSUME TeamsPartitionPlayers, teamPlayers' = teamPlayers, DOMAIN playerList' = DOMAIN playerList
    PROVE  TeamsPartitionPlayers'
<1>1. TeamsPartitionPlayers' <=>
         /\ DOMAIN playerList' = UNION {teamPlayers'[t] : t \in Teams}
         /\ \A t, u \in Teams : t # u => teamPlayers'[t] \cap teamPlayers'[u] = {}
  BY DEF TeamsPartitionPlayers
<1> QED BY <1>1, Zenon DEF TeamsPartitionPlayers

\* A hatching egg leaves its tile and its place in _vecEggs to the player.
LEMMA SpawnPlayerStruct ==
    ASSUME StructInv, NEW t \in Teams, SpawnPlayer(t)
    PROVE  StructInv'
<1> USE DEF StructInv, TypeOK
<1>1. PICK e \in EggsOf(t), d \in Dirs :
         LET i == TileIndex(vecEggs[e].pos) IN
         /\ vecEggs' = Restrict(vecEggs, DOMAIN vecEggs \ {e})
         /\ tileEggs' = [tileEggs EXCEPT ![i] = @ \ {e}]
         /\ teamPlayers' = [teamPlayers EXCEPT ![t] = @ \cup {e}]
         /\ playerList' = [id \in DOMAIN playerList \cup {e} |->
                             IF id = e THEN [pos |-> vecEggs[e].pos, dir |-> d]
                                       ELSE playerList[id]]
         /\ tilePlayers' = [tilePlayers EXCEPT ![i] = @ \cup {e}]
  BY DEF SpawnPlayer, EraseEggs, Hatch
<1> DEFINE i == TileIndex(vecEggs[e].pos)
<1>2. UNCHANGED <<newId, teamSlots, guiEvents>>
  BY DEF SpawnPlayer
<1>3. /\ e \in DOMAIN vecEggs /\ vecEggs[e].pos \in Pos /\ e \in Nat
      /\ i \in Tiles /\ e \notin DOMAIN playerList
  BY TileIndexInTiles DEF EggsOf, IdsAreUnambiguous
<1>4. /\ DOMAIN vecEggs' = DOMAIN vecEggs \ {e}
      /\ \A f \in DOMAIN vecEggs' : vecEggs'[f] = vecEggs[f]
      /\ vecEggs' \in [DOMAIN vecEggs' -> [pos : Pos, team : Teams]]
  BY <1>1 DEF Restrict
<1>5. /\ DOMAIN playerList' = DOMAIN playerList \cup {e}
      /\ \A id \in DOMAIN playerList : playerList'[id] = playerList[id]
      /\ playerList'[e].pos = vecEggs[e].pos
      /\ playerList' \in [DOMAIN playerList' -> [pos : Pos, dir : Dirs]]
  BY <1>1, <1>3
<1>6. TypeOK'
  BY <1>1, <1>2, <1>3, <1>4, <1>5
<1>7. TilesMirrorWorld'
  <2> SUFFICES ASSUME NEW j \in Tiles
               PROVE  /\ tilePlayers'[j] = {id \in DOMAIN playerList' : TileIndex(playerList'[id].pos) = j}
                      /\ tileEggs'[j] = {f \in DOMAIN vecEggs' : TileIndex(vecEggs'[f].pos) = j}
    BY DEF TilesMirrorWorld
  <2>1. /\ tilePlayers[j] = {id \in DOMAIN playerList : TileIndex(playerList[id].pos) = j}
        /\ tileEggs[j] = {f \in DOMAIN vecEggs : TileIndex(vecEggs[f].pos) = j}
    BY DEF TilesMirrorWorld
  <2>2. /\ tilePlayers'[j] = IF j = i THEN tilePlayers[j] \cup {e} ELSE tilePlayers[j]
        /\ tileEggs'[j] = IF j = i THEN tileEggs[j] \ {e} ELSE tileEggs[j]
    BY <1>1, <1>3
  <2> QED BY <2>1, <2>2, <1>3, <1>4, <1>5
<1>8. TeamsPartitionPlayers'
  BY <1>1, <1>3, <1>5 DEF TeamsPartitionPlayers
<1>9. IdsAreUnambiguous'
  BY <1>2, <1>3, <1>4, <1>5 DEF IdsAreUnambiguous
<1> QED BY <1>6, <1>7, <1>8, <1>9

\* A removed player leaves its team and its tile.
LEMMA RemovePlayerStruct ==
    ASSUME StructInv, NEW p \in DOMAIN playerList, RemovePlayer(p)
    PROVE  StructInv'
<1> USE DEF StructInv, TypeOK
<1> DEFINE i == TileIndex(playerList[p].pos)
<1>1. /\ p \in Nat /\ playerList[p].pos \in Pos /\ i \in Tiles
      /\ \A t \in Teams : p \in teamPlayers[t] => teamSlots[t] - 1 \in Int
  BY TileIndexInTiles DEF IdsAreUnambiguous
<1>2. /\ DOMAIN playerList' = DOMAIN playerList \ {p}
      /\ \A id \in DOMAIN playerList' : playerList'[id] = playerList[id]
      /\ playerList' \in [DOMAIN playerList' -> [pos : Pos, dir : Dirs]]
  BY DEF RemovePlayer, Restrict
<1>3. UNCHANGED <<newId, vecEggs, tileEggs>>
  BY DEF RemovePlayer
<1>4. /\ teamPlayers' = [t \in Teams |-> teamPlayers[t] \ {p}]
      /\ teamSlots' \in [Teams -> Int]
      /\ tilePlayers' = [tilePlayers EXCEPT ![i] = @ \ {p}]
  BY <1>1 DEF RemovePlayer, RemovePlayerFromTeam
<1>5. guiEvents' \in Seq(Event)
  BY <1>1 DEF RemovePlayer, Event, Pdi
<1>6. TypeOK'
  BY <1>2, <1>3, <1>4, <1>5
<1>7. TilesMirrorWorld'
  <2> SUFFICES ASSUME NEW j \in Tiles
               PROVE  /\ tilePlayers'[j] = {id \in DOMAIN playerList' : TileIndex(playerList'[id].pos) = j}
                      /\ tileEggs'[j] = {f \in DOMAIN vecEggs' : TileIndex(vecEggs'[f].pos) = j}
    BY DEF TilesMirrorWorld
  <2>1. /\ tilePlayers[j] = {id \in DOMAIN playerList : TileIndex(playerList[id].pos) = j}
        /\ tileEggs[j] = {f \in DOMAIN vecEggs : TileIndex(vecEggs[f].pos) = j}
    BY DEF TilesMirrorWorld
  <2>2. tilePlayers'[j] = IF j = i THEN tilePlayers[j] \ {p} ELSE tilePlayers[j]
    BY <1>1, <1>4
  <2> QED BY <2>1, <2>2, <1>2, <1>3
<1>8. TeamsPartitionPlayers'
  <2>1. \A t \in Teams : teamPlayers'[t] = teamPlayers[t] \ {p}
    BY <1>4
  <2>2. \A id : id \in DOMAIN playerList' <=> \E t \in Teams : id \in teamPlayers'[t]
    BY <2>1, <1>2 DEF TeamsPartitionPlayers
  <2>3. DOMAIN playerList' = UNION {teamPlayers'[t] : t \in Teams}
    <3>1. \A id : id \in UNION {teamPlayers'[t] : t \in Teams} <=> \E t \in Teams : id \in teamPlayers'[t]
      OBVIOUS
    <3> QED BY <3>1, <2>2
  <2> QED BY <2>1, <2>3 DEF TeamsPartitionPlayers
<1>9. IdsAreUnambiguous'
  BY <1>2, <1>3 DEF IdsAreUnambiguous
<1> QED BY <1>6, <1>7, <1>8, <1>9

\* Moving a set of players files each of them under the tile it moved to.
LEMMA MoveAllStruct ==
    ASSUME StructInv, NEW S \in SUBSET DOMAIN playerList, NEW d \in Dirs, MoveAll(S, d)
    PROVE  /\ DOMAIN playerList' = DOMAIN playerList
           /\ playerList' \in [DOMAIN playerList' -> [pos : Pos, dir : Dirs]]
           /\ tilePlayers' \in [Tiles -> SUBSET Nat]
           /\ \A j \in Tiles :
                 tilePlayers'[j] = {id \in DOMAIN playerList' : TileIndex(playerList'[id].pos) = j}
           /\ Sightings(S) \in SUBSET [id : Nat, pos : Pos, dir : Dirs]
<1> USE DEF StructInv, TypeOK
<1> DEFINE dest(id) == Ahead(playerList[id].pos, d)
<1>1. \A id \in DOMAIN playerList : dest(id) \in Pos
  BY AheadOnMap
<1> HIDE DEF dest
<1>2. playerList' = [id \in DOMAIN playerList |->
                       IF id \in S THEN [playerList[id] EXCEPT !.pos = dest(id)]
                                   ELSE playerList[id]]
  BY DEF MoveAll, dest
<1>3. /\ DOMAIN playerList' = DOMAIN playerList
      /\ \A id \in DOMAIN playerList :
            /\ playerList'[id] \in [pos : Pos, dir : Dirs]
            /\ id \in S => playerList'[id].pos = dest(id)
            /\ id \notin S => playerList'[id] = playerList[id]
  BY <1>1, <1>2
<1>4. playerList' \in [DOMAIN playerList' -> [pos : Pos, dir : Dirs]]
  BY <1>2, <1>3
<1>5. DOMAIN playerList \subseteq Nat
  BY DEF IdsAreUnambiguous
<1>6. tilePlayers' = [i \in Tiles |->
                        {id \in tilePlayers[i] : id \in S => TileIndex(playerList[id].pos) # i}
                        \cup {id \in S : TileIndex(dest(id)) = i}]
  BY DEF MoveAll, dest
<1>7. ASSUME NEW j \in Tiles
      PROVE  tilePlayers'[j] = {id \in DOMAIN playerList' : TileIndex(playerList'[id].pos) = j}
  <2>1. tilePlayers[j] = {id \in DOMAIN playerList : TileIndex(playerList[id].pos) = j}
    BY DEF TilesMirrorWorld
  <2>2. tilePlayers'[j] = {id \in tilePlayers[j] : id \notin S} \cup {id \in S : TileIndex(dest(id)) = j}
    BY <1>6, <2>1
  <2> QED BY <2>1, <2>2, <1>3
<1>8. tilePlayers' \in [Tiles -> SUBSET Nat]
  BY <1>5, <1>6
<1>9. Sightings(S) \in SUBSET [id : Nat, pos : Pos, dir : Dirs]
  BY <1>3, <1>5 DEF Sightings, Sighting
<1> QED BY <1>3, <1>4, <1>7, <1>8, <1>9

LEMMA ForwardStruct ==
    ASSUME StructInv, NEW p \in DOMAIN playerList, Forward(p)
    PROVE  StructInv'
<1> USE DEF StructInv, TypeOK
<1>1. MoveAll({p}, playerList[p].dir) /\ playerList[p].dir \in Dirs
  BY DEF Forward
<1>2. /\ UNCHANGED <<newId, teamSlots, teamPlayers, vecEggs, tileEggs>>
      /\ guiEvents' = Append(guiEvents, Ppo(Sightings({p})))
  BY DEF Forward
<1>3. /\ DOMAIN playerList' = DOMAIN playerList
      /\ playerList' \in [DOMAIN playerList' -> [pos : Pos, dir : Dirs]]
      /\ tilePlayers' \in [Tiles -> SUBSET Nat]
      /\ \A j \in Tiles :
            tilePlayers'[j] = {id \in DOMAIN playerList' : TileIndex(playerList'[id].pos) = j}
      /\ Sightings({p}) \in SUBSET [id : Nat, pos : Pos, dir : Dirs]
  BY <1>1, MoveAllStruct
<1>4. guiEvents' \in Seq(Event)
  <2>1. Ppo(Sightings({p})) \in Event
    BY <1>3 DEF Event, Ppo
  <2> QED BY <1>2, <2>1
<1>5. TypeOK'
  BY <1>2, <1>3, <1>4
<1>6. TilesMirrorWorld'
  BY <1>2, <1>3 DEF TilesMirrorWorld
<1>7. TeamsPartitionPlayers' /\ IdsAreUnambiguous'
  BY <1>2, <1>3, SameTeams DEF IdsAreUnambiguous
<1> QED BY <1>5, <1>6, <1>7

LEMMA TurnStruct ==
    ASSUME StructInv, NEW p \in DOMAIN playerList, NEW q \in Nat, Turn(p, q)
    PROVE  StructInv'
<1> USE DEF StructInv, TypeOK
<1>1. p \in Nat /\ (playerList[p].dir + q) % 4 \in Dirs
  <2>1. p \in Nat /\ playerList[p].dir \in Dirs
    BY DEF IdsAreUnambiguous
  <2>2. \A a \in Nat : a % 4 \in Dirs
    BY DEF Dirs
  <2>3. playerList[p].dir + q \in Nat
    BY <2>1 DEF Dirs
  <2> QED BY <2>1, <2>2, <2>3
<1>2. /\ UNCHANGED <<newId, teamSlots, teamPlayers, vecEggs, tilePlayers, tileEggs>>
      /\ playerList' = [playerList EXCEPT ![p].dir = (@ + q) % 4]
  BY DEF Turn
<1>3. /\ DOMAIN playerList' = DOMAIN playerList
      /\ \A id \in DOMAIN playerList' : playerList'[id].pos = playerList[id].pos
      /\ playerList' \in [DOMAIN playerList' -> [pos : Pos, dir : Dirs]]
  BY <1>1, <1>2
<1>4. guiEvents' \in Seq(Event)
  <2>1. Sighting(p, playerList'[p]) \in [id : Nat, pos : Pos, dir : Dirs]
    BY <1>1, <1>3 DEF Sighting
  <2>2. Ppo(Sightings({p})) \in Event
    BY <2>1 DEF Sightings, Event, Ppo
  <2> QED BY <2>2 DEF Turn
<1>5. TypeOK'
  BY <1>2, <1>3, <1>4
<1>6. TilesMirrorWorld'
  <2> SUFFICES ASSUME NEW j \in Tiles
               PROVE  tilePlayers[j] = {id \in DOMAIN playerList' : TileIndex(playerList'[id].pos) = j}
    BY <1>2 DEF TilesMirrorWorld
  <2> QED BY <1>3 DEF TilesMirrorWorld
<1>7. TeamsPartitionPlayers' /\ IdsAreUnambiguous'
  BY <1>2, <1>3, SameTeams DEF IdsAreUnambiguous
<1> QED BY <1>5, <1>6, <1>7

\* Everyone on the tile is pushed off it and the eggs there go, from the tile
\* and from _vecEggs alike.
LEMMA EjectStruct ==
    ASSUME StructInv, NEW p \in DOMAIN playerList, Eject(p)
    PROVE  StructInv'
<1> USE DEF StructInv, TypeOK
<1> DEFINE i == TileIndex(playerList[p].pos)
           pushed == tilePlayers[i] \ {p}
           broken == tileEggs[i]
<1>1. p \in Nat /\ i \in Tiles /\ playerList[p].dir \in Dirs
  BY TileIndexInTiles DEF IdsAreUnambiguous
<1>2. /\ MoveAll(pushed, playerList[p].dir)
      /\ vecEggs' = Restrict(vecEggs, DOMAIN vecEggs \ broken)
      /\ tileEggs' = [tileEggs EXCEPT ![i] = @ \ broken]
      /\ guiEvents' = guiEvents \o <<Ppo(Sightings(pushed)), Edi(broken), Pex(p)>>
      /\ UNCHANGED <<newId, teamSlots, teamPlayers>>
  BY DEF Eject, EraseEggs
<1>3. pushed \in SUBSET DOMAIN playerList /\ broken \in SUBSET Nat
  BY <1>1 DEF TilesMirrorWorld
<1> HIDE DEF pushed
<1>4. /\ DOMAIN playerList' = DOMAIN playerList
      /\ playerList' \in [DOMAIN playerList' -> [pos : Pos, dir : Dirs]]
      /\ tilePlayers' \in [Tiles -> SUBSET Nat]
      /\ \A j \in Tiles :
            tilePlayers'[j] = {id \in DOMAIN playerList' : TileIndex(playerList'[id].pos) = j}
      /\ Sightings(pushed) \in SUBSET [id : Nat, pos : Pos, dir : Dirs]
  BY <1>1, <1>2, <1>3, MoveAllStruct
<1>5. /\ DOMAIN vecEggs' = DOMAIN vecEggs \ broken
      /\ \A e \in DOMAIN vecEggs' : vecEggs'[e] = vecEggs[e]
      /\ vecEggs' \in [DOMAIN vecEggs' -> [pos : Pos, team : Teams]]
  BY <1>2 DEF Restrict
<1>6. guiEvents' \in Seq(Event)
  <2>1. Ppo(Sightings(pushed)) \in Event /\ Edi(broken) \in Event /\ Pex(p) \in Event
    BY <1>1, <1>3, <1>4 DEF Event, Ppo, Edi, Pex
  <2> QED BY <1>2, <2>1
<1>7. TypeOK'
  BY <1>1, <1>2, <1>3, <1>4, <1>5, <1>6
<1>8. TilesMirrorWorld'
  <2> SUFFICES ASSUME NEW j \in Tiles
               PROVE  tileEggs'[j] = {e \in DOMAIN vecEggs' : TileIndex(vecEggs'[e].pos) = j}
    BY <1>4 DEF TilesMirrorWorld
  <2>1. /\ tileEggs[j] = {e \in DOMAIN vecEggs : TileIndex(vecEggs[e].pos) = j}
        /\ broken = {e \in DOMAIN vecEggs : TileIndex(vecEggs[e].pos) = i}
    BY <1>1 DEF TilesMirrorWorld
  <2>2. tileEggs'[j] = IF j = i THEN {} ELSE tileEggs[j]
    BY <1>1, <1>2
  <2> QED BY <2>1, <2>2, <1>5
<1>9. TeamsPartitionPlayers' /\ IdsAreUnambiguous'
  BY <1>2, <1>4, <1>5, SameTeams DEF IdsAreUnambiguous
<1> QED BY <1>7, <1>8, <1>9

\* Whoever lays an egg has a team: the early return of layEgg is never taken.
LEMMA LayersHaveTeams ==
    ASSUME StructInv, NEW p \in DOMAIN playerList
    PROVE  \E t \in Teams : p \in teamPlayers[t]
BY DEF StructInv, TeamsPartitionPlayers

\* A laid egg gets the next id, which nothing has had before.
LEMMA LayEggStruct ==
    ASSUME StructInv, NEW p \in DOMAIN playerList, LayEgg(p)
    PROVE  StructInv'
<1> USE DEF StructInv, TypeOK
<1> DEFINE i == TileIndex(playerList[p].pos)
<1>1. p \in Nat /\ playerList[p].pos \in Pos /\ i \in Tiles
  BY TileIndexInTiles DEF IdsAreUnambiguous
<1>2. PICK t \in Teams :
         /\ vecEggs' = [e \in DOMAIN vecEggs \cup {newId} |->
                          IF e = newId THEN [pos |-> playerList[p].pos, team |-> t] ELSE vecEggs[e]]
         /\ tileEggs' = [tileEggs EXCEPT ![i] = @ \cup {newId}]
         /\ guiEvents' = Append(guiEvents, Enw(newId, p, playerList[p].pos))
         /\ teamSlots' = [teamSlots EXCEPT ![t] = @ + 1]
  BY LayersHaveTeams DEF LayEgg, AddNewTeamSlot
<1>3. newId' = newId + 1 /\ UNCHANGED <<teamPlayers, playerList, tilePlayers>>
  BY LayersHaveTeams DEF LayEgg
<1>4. newId \notin DOMAIN vecEggs /\ newId \notin DOMAIN playerList
  BY DEF IdsAreUnambiguous
<1>5. /\ DOMAIN vecEggs' = DOMAIN vecEggs \cup {newId}
      /\ \A e \in DOMAIN vecEggs : vecEggs'[e] = vecEggs[e]
      /\ vecEggs'[newId].pos = playerList[p].pos
      /\ vecEggs' \in [DOMAIN vecEggs' -> [pos : Pos, team : Teams]]
  BY <1>1, <1>2, <1>4
<1>6. guiEvents' \in Seq(Event)
  BY <1>1, <1>2 DEF Event, Enw
<1>7. TypeOK'
  <2>1. newId' \in Nat /\ teamSlots' \in [Teams -> Int] /\ teamPlayers' \in [Teams -> SUBSET Nat]
    BY <1>2, <1>3
  <2>2. tileEggs' \in [Tiles -> SUBSET Nat] /\ tilePlayers' \in [Tiles -> SUBSET Nat]
    BY <1>2, <1>3
  <2>3. playerList' \in [DOMAIN playerList' -> [pos : Pos, dir : Dirs]]
    BY <1>3
  <2> QED BY <2>1, <2>2, <2>3, <1>5, <1>6
<1>8. TilesMirrorWorld'
  <2> SUFFICES ASSUME NEW j \in Tiles
               PROVE  tileEggs'[j] = {e \in DOMAIN vecEggs' : TileIndex(vecEggs'[e].pos) = j}
    BY <1>3 DEF TilesMirrorWorld
  <2>1. tileEggs[j] = {e \in DOMAIN vecEggs : TileIndex(vecEggs[e].pos) = j}
    BY DEF TilesMirrorWorld
  <2>2. tileEggs'[j] = IF j = i THEN tileEggs[j] \cup {newId} ELSE tileEggs[j]
    BY <1>1, <1>2
  <2> QED BY <2>1, <2>2, <1>4, <1>5
<1>9. TeamsPartitionPlayers' /\ IdsAreUnambiguous'
  BY <1>3, <1>4, <1>5, SameTeams DEF IdsAreUnambiguous
<1> QED BY <1>7, <1>8, <1>9

\* Every step keeps the structure.
LEMMA StructNext == StructInv /\ [Next]_vars => StructInv'
<1> SUFFICES ASSUME StructInv, [Next]_vars PROVE StructInv'
  OBVIOUS
<1>1. CASE \E t \in Teams : SpawnPlayer(t)
  BY <1>1, SpawnPlayerStruct
<1>2. ASSUME NEW p \in DOMAIN playerList,
             \/ RemovePlayer(p) \/ Forward(p) \/ Turn(p, 3) \/ Turn(p, 1) \/ Eject(p) \/ LayEgg(p)
      PROVE  StructInv'
  BY <1>2, RemovePlayerStruct, ForwardStruct, TurnStruct, EjectStruct, LayEggStruct
<1>3. CASE \/ GetAndClearGuiEvents \/ UNCHANGED vars
  <2>1. /\ UNCHANGED <<newId, teamSlots, teamPlayers, vecEggs, playerList, tilePlayers, tileEggs>>
        /\ guiEvents' = <<>> \/ guiEvents' = guiEvents
    BY <1>3 DEF GetAndClearGuiEvents, vars
  <2>2. TypeOK'
    <3>1. guiEvents' \in Seq(Event)
      <4>1. guiEvents \in Seq(Event) /\ <<>> \in Seq(Event)
        BY DEF StructInv, TypeOK
      <4> QED BY <2>1, <4>1
    <3>2. /\ vecEggs' \in [DOMAIN vecEggs' -> [pos : Pos, team : Teams]]
          /\ playerList' \in [DOMAIN playerList' -> [pos : Pos, dir : Dirs]]
      BY <2>1 DEF StructInv, TypeOK
    <3> QED BY <2>1, <3>1, <3>2 DEF StructInv, TypeOK
  <2>3. TilesMirrorWorld'
    BY <2>1 DEF StructInv, TilesMirrorWorld
  <2>4. TeamsPartitionPlayers' /\ IdsAreUnambiguous'
    BY <2>1, SameTeams DEF StructInv, IdsAreUnambiguous
  <2> QED BY <2>2, <2>3, <2>4 DEF StructInv
<1> QED BY <1>1, <1>2, <1>3 DEF Next

\* Whatever the options and the order of the calls, the lists on the tiles, the
\* teams and the ids agree with the players and the eggs there are.
THEOREM StructureCorrect ==
    Spec => [](TypeOK /\ TilesMirrorWorld /\ TeamsPartitionPlayers /\ IdsAreUnambiguous)
<1>1. StructInv => TypeOK /\ TilesMirrorWorld /\ TeamsPartitionPlayers /\ IdsAreUnambiguous
  BY DEF StructInv
<1> QED BY StructInit, StructNext, <1>1, PTL DEF Spec

\* The types of the world's tables: every position is on the map, every team a given one.
COROLLARY WorldTypesCorrect == Spec => []TypeOK
  BY StructureCorrect, PTL

\* The ids listed on a tile are those of the players and the eggs that are there, so no
\* look-up of a listed id can fail.
COROLLARY TilesCorrect == Spec => []TilesMirrorWorld
  BY StructureCorrect, PTL

\* Every player is in exactly one team and teams list nobody who has left: what
\* checkGameEnd reads of every listed id is there on every tick.
COROLLARY TeamsCorrect == Spec => []TeamsPartitionPlayers
  BY StructureCorrect, PTL

\* The one counter for eggs and players never makes an id stand for two of them.
COROLLARY IdsCorrect == Spec => []IdsAreUnambiguous
  BY StructureCorrect, PTL

-----------------------------------------------------------------------------
(* The slots.  EverySlotIsBacked is inductive once the structure is known:  *)
(* the structure says that the counted sets are finite, that the egg that   *)
(* hatches is not yet a player, and that a new egg is not yet an egg.       *)

SlotInv == StructInv /\ EverySlotIsBacked

LEMMA CountsAreFinite ==
    ASSUME StructInv, NEW t \in Teams
    PROVE  /\ IsFiniteSet(teamPlayers[t]) /\ Cardinality(teamPlayers[t]) \in Nat
           /\ IsFiniteSet(EggsOf(t)) /\ Cardinality(EggsOf(t)) \in Nat
           /\ teamSlots[t] \in Int
<1>1. newId - 1 \in Int
  BY DEF StructInv, TypeOK
<1>2. IsFiniteSet(0 .. newId - 1)
  BY <1>1, FS_Interval
<1>3. teamPlayers[t] \in SUBSET (0 .. newId - 1)
  BY DEF StructInv, TeamsPartitionPlayers, IdsAreUnambiguous
<1>4. EggsOf(t) \in SUBSET (0 .. newId - 1)
  BY DEF StructInv, IdsAreUnambiguous, EggsOf
<1>5. IsFiniteSet(teamPlayers[t]) /\ IsFiniteSet(EggsOf(t))
  BY <1>2, <1>3, <1>4, FS_Subset
<1>6. teamSlots[t] \in Int
  BY DEF StructInv, TypeOK
<1> QED BY <1>5, <1>6, FS_CardinalityType

LEMMA SlotInit ==
    ASSUME DistinctTeamNames, Init
    PROVE  EverySlotIsBacked
<1> SUFFICES ASSUME NEW t \in Teams PROVE AvailableSlot(t) >= Cardinality(EggsOf(t))
  BY DEF EverySlotIsBacked
<1>1. EggsOf(t) = {e \in FirstEggs : FirstTeam(e) = t}
  BY DEF Init, SetSpawnEggs, EggsOf
<1>2. Cardinality(EggsOf(t)) <= ClientLimit
  BY <1>1, FirstEggsOfTeam
<1>3. Cardinality(EggsOf(t)) \in Nat
  BY StructInit, CountsAreFinite
<1>4. teamSlots[t] = ClientLimit /\ teamPlayers[t] = {}
  BY DEF Init
<1> QED BY <1>2, <1>3, <1>4, FS_EmptySet DEF AvailableSlot

\* Nothing changes for a team whose players, slots and eggs stay.
LEMMA SlotSame ==
    ASSUME SlotInv, NEW t \in Teams, teamPlayers'[t] = teamPlayers[t],
           teamSlots'[t] = teamSlots[t], EggsOf(t)' = EggsOf(t)
    PROVE  (AvailableSlot(t) >= Cardinality(EggsOf(t)))'
<1>1. AvailableSlot(t) >= Cardinality(EggsOf(t))
  BY DEF SlotInv, EverySlotIsBacked
<1>2. AvailableSlot(t)' = AvailableSlot(t)
  BY DEF AvailableSlot
<1> QED BY <1>1, <1>2

LEMMA SpawnPlayerSlot ==
    ASSUME SlotInv, NEW t \in Teams, SpawnPlayer(t)
    PROVE  EverySlotIsBacked'
<1>1. PICK e \in EggsOf(t) :
         /\ vecEggs' = Restrict(vecEggs, DOMAIN vecEggs \ {e})
         /\ teamPlayers' = [teamPlayers EXCEPT ![t] = @ \cup {e}]
  BY DEF SpawnPlayer, EraseEggs
<1>2. teamSlots' = teamSlots
  BY DEF SpawnPlayer
<1>3. \A u \in Teams : EggsOf(u)' = EggsOf(u) \ {e}
  BY <1>1 DEF EggsOf, Restrict
<1>4. e \notin teamPlayers[t] /\ teamPlayers \in [Teams -> SUBSET Nat]
  BY DEF SlotInv, StructInv, TypeOK, TeamsPartitionPlayers, IdsAreUnambiguous, EggsOf
<1> SUFFICES ASSUME NEW u \in Teams PROVE (AvailableSlot(u) >= Cardinality(EggsOf(u)))'
  BY DEF EverySlotIsBacked
<1>5. CASE u = t
  <2>1. teamPlayers'[u] = teamPlayers[u] \cup {e}
    BY <1>1, <1>4, <1>5
  <2>2. Cardinality(teamPlayers'[u]) = Cardinality(teamPlayers[u]) + 1
    BY <2>1, <1>4, <1>5, CountsAreFinite, FS_AddElement DEF SlotInv
  <2>3. Cardinality(EggsOf(u) \ {e}) = Cardinality(EggsOf(u)) - 1
    BY <1>1, <1>5, CountsAreFinite, FS_RemoveElement DEF SlotInv
  <2>4. teamSlots[u] - Cardinality(teamPlayers[u]) >= Cardinality(EggsOf(u))
    BY DEF SlotInv, EverySlotIsBacked, AvailableSlot
  <2>5. AvailableSlot(u)' = teamSlots[u] - (Cardinality(teamPlayers[u]) + 1)
    BY <2>2, <1>2 DEF AvailableSlot
  <2>6. Cardinality(EggsOf(u))' = Cardinality(EggsOf(u)) - 1
    BY <2>3, <1>3
  <2> QED BY <2>4, <2>5, <2>6, CountsAreFinite DEF SlotInv
<1>6. CASE u # t
  <2>1. EggsOf(u)' = EggsOf(u)
    BY <1>1, <1>3, <1>6 DEF EggsOf
  <2> QED BY <2>1, <1>1, <1>2, <1>4, <1>6, SlotSame
<1> QED BY <1>5, <1>6

LEMMA RemovePlayerSlot ==
    ASSUME SlotInv, NEW p \in DOMAIN playerList, RemovePlayer(p)
    PROVE  EverySlotIsBacked'
<1>1. vecEggs' = vecEggs
  BY DEF RemovePlayer
<1>2. \A u \in Teams : EggsOf(u)' = EggsOf(u)
  BY <1>1 DEF EggsOf
<1> SUFFICES ASSUME NEW u \in Teams PROVE (AvailableSlot(u) >= Cardinality(EggsOf(u)))'
  BY DEF EverySlotIsBacked
<1>3. /\ teamPlayers'[u] = teamPlayers[u] \ {p}
      /\ teamSlots'[u] = IF p \in teamPlayers[u] THEN teamSlots[u] - 1 ELSE teamSlots[u]
  BY DEF RemovePlayer, RemovePlayerFromTeam
<1>4. CASE p \in teamPlayers[u]
  <2>1. Cardinality(teamPlayers'[u]) = Cardinality(teamPlayers[u]) - 1
    <3>1. IsFiniteSet(teamPlayers[u])
      BY CountsAreFinite DEF SlotInv
    <3>2. Cardinality(teamPlayers[u] \ {p}) = Cardinality(teamPlayers[u]) - 1
      BY <3>1, <1>4, FS_RemoveElement
    <3> QED BY <3>2, <1>3
  <2>2. teamSlots[u] - Cardinality(teamPlayers[u]) >= Cardinality(EggsOf(u))
    BY DEF SlotInv, EverySlotIsBacked, AvailableSlot
  <2>3. AvailableSlot(u)' = (teamSlots[u] - 1) - (Cardinality(teamPlayers[u]) - 1)
    BY <2>1, <1>3, <1>4 DEF AvailableSlot
  <2>4. Cardinality(EggsOf(u))' = Cardinality(EggsOf(u))
    BY <1>2
  <2> QED BY <2>2, <2>3, <2>4, CountsAreFinite DEF SlotInv
<1>5. CASE p \notin teamPlayers[u]
  BY <1>2, <1>3, <1>5, SlotSame
<1> QED BY <1>4, <1>5

LEMMA EjectSlot ==
    ASSUME SlotInv, NEW p \in DOMAIN playerList, Eject(p)
    PROVE  EverySlotIsBacked'
<1> SUFFICES ASSUME NEW u \in Teams PROVE (AvailableSlot(u) >= Cardinality(EggsOf(u)))'
  BY DEF EverySlotIsBacked
<1>1. EggsOf(u)' \in SUBSET EggsOf(u)
  BY DEF Eject, EraseEggs, EggsOf, Restrict
<1>2. Cardinality(EggsOf(u)') <= Cardinality(EggsOf(u)) /\ Cardinality(EggsOf(u)') \in Nat
  BY <1>1, CountsAreFinite, FS_Subset, FS_CardinalityType DEF SlotInv
<1>3. AvailableSlot(u)' = AvailableSlot(u)
  BY DEF Eject, AvailableSlot
<1>4. AvailableSlot(u) >= Cardinality(EggsOf(u)) /\ AvailableSlot(u) \in Int
  BY CountsAreFinite DEF SlotInv, EverySlotIsBacked, AvailableSlot
<1> QED BY <1>2, <1>3, <1>4, CountsAreFinite DEF SlotInv

LEMMA LayEggSlot ==
    ASSUME SlotInv, NEW p \in DOMAIN playerList, LayEgg(p)
    PROVE  EverySlotIsBacked'
<1>1. PICK t \in Teams :
         /\ vecEggs' = [e \in DOMAIN vecEggs \cup {newId} |->
                          IF e = newId THEN [pos |-> playerList[p].pos, team |-> t] ELSE vecEggs[e]]
         /\ teamSlots' = [teamSlots EXCEPT ![t] = @ + 1]
  BY LayersHaveTeams DEF LayEgg, AddNewTeamSlot, SlotInv
<1>2. teamPlayers' = teamPlayers
  BY DEF LayEgg
<1>3. newId \notin DOMAIN vecEggs /\ teamSlots \in [Teams -> Int]
  BY DEF SlotInv, StructInv, TypeOK, IdsAreUnambiguous
<1> SUFFICES ASSUME NEW u \in Teams PROVE (AvailableSlot(u) >= Cardinality(EggsOf(u)))'
  BY DEF EverySlotIsBacked
<1>4. CASE u = t
  <2>1. EggsOf(u)' = EggsOf(u) \cup {newId} /\ newId \notin EggsOf(u)
    BY <1>1, <1>3, <1>4 DEF EggsOf
  <2>2. Cardinality(EggsOf(u) \cup {newId}) = Cardinality(EggsOf(u)) + 1
    BY <2>1, CountsAreFinite, FS_AddElement DEF SlotInv
  <2>3. AvailableSlot(u)' = (teamSlots[u] + 1) - Cardinality(teamPlayers[u])
    BY <1>1, <1>2, <1>3, <1>4 DEF AvailableSlot
  <2>4. teamSlots[u] - Cardinality(teamPlayers[u]) >= Cardinality(EggsOf(u))
    BY DEF SlotInv, EverySlotIsBacked, AvailableSlot
  <2>5. Cardinality(EggsOf(u))' = Cardinality(EggsOf(u)) + 1
    BY <2>1, <2>2
  <2> QED BY <2>3, <2>4, <2>5, CountsAreFinite DEF SlotInv
<1>5. CASE u # t
  <2>1. EggsOf(u)' = EggsOf(u)
    BY <1>1, <1>3, <1>5 DEF EggsOf
  <2> QED BY <2>1, <1>1, <1>2, <1>3, <1>5, SlotSame
<1> QED BY <1>4, <1>5

LEMMA SlotNext == SlotInv /\ [Next]_vars => SlotInv'
<1> SUFFICES ASSUME SlotInv, [Next]_vars PROVE EverySlotIsBacked'
  BY StructNext DEF SlotInv
<1>1. CASE \E t \in Teams : SpawnPlayer(t)
  BY <1>1, SpawnPlayerSlot
<1>2. ASSUME NEW p \in DOMAIN playerList, RemovePlayer(p) \/ Eject(p) \/ LayEgg(p)
      PROVE  EverySlotIsBacked'
  BY <1>2, RemovePlayerSlot, EjectSlot, LayEggSlot
<1>3. ASSUME NEW p \in DOMAIN playerList, Forward(p) \/ Turn(p, 3) \/ Turn(p, 1)
      PROVE  UNCHANGED <<teamSlots, teamPlayers, vecEggs>>
  BY <1>3 DEF Forward, Turn
<1>4. CASE \/ \E p \in DOMAIN playerList : Forward(p) \/ Turn(p, 3) \/ Turn(p, 1)
           \/ GetAndClearGuiEvents
           \/ UNCHANGED vars
  <2>1. teamSlots' = teamSlots /\ teamPlayers' = teamPlayers /\ vecEggs' = vecEggs
    BY <1>3, <1>4 DEF GetAndClearGuiEvents, vars
  <2>2. \A u \in Teams : EggsOf(u)' = EggsOf(u)
    BY <2>1 DEF EggsOf
  <2> QED BY <2>1, <2>2, SlotSame DEF EverySlotIsBacked
<1> QED BY <1>1, <1>2, <1>4 DEF Next

\* When no team name is given twice on the command line, a team always has at
\* least as many free slots as eggs: availableSlot() never wraps around and the
\* handshake and Connect_nbr never announce less than what can still connect.
THEOREM SlotsCorrect ==
    ASSUME DistinctTeamNames
    PROVE  Spec => []EverySlotIsBacked
<1>1. Init => SlotInv
  BY StructInit, SlotInit DEF SlotInv
<1>2. SlotInv => EverySlotIsBacked
  BY DEF SlotInv
<1> QED BY <1>1, <1>2, SlotNext, PTL DEF Spec

-----------------------------------------------------------------------------
(* Ids.                                                                    *)

\* One step: what is new in _vecEggs is fresh, what is new in _playerList is an
\* egg that hatched where it lay, into its own team.
HatchStep ==
    /\ \A e \in DOMAIN vecEggs' \ DOMAIN vecEggs : e >= newId
    /\ \A id \in DOMAIN playerList' \ DOMAIN playerList :
          /\ id \in DOMAIN vecEggs \ DOMAIN vecEggs'
          /\ playerList'[id].pos = vecEggs[id].pos
          /\ id \in teamPlayers'[vecEggs[id].team]

LEMMA HatchNext == StructInv /\ [Next]_vars => [HatchStep]_vars
<1> SUFFICES ASSUME StructInv, Next PROVE HatchStep
  OBVIOUS
<1>1. ASSUME NEW t \in Teams, SpawnPlayer(t) PROVE HatchStep
  <2>1. PICK e \in EggsOf(t), d \in Dirs :
           /\ vecEggs' = Restrict(vecEggs, DOMAIN vecEggs \ {e})
           /\ teamPlayers' = [teamPlayers EXCEPT ![t] = @ \cup {e}]
           /\ playerList' = [id \in DOMAIN playerList \cup {e} |->
                               IF id = e THEN [pos |-> vecEggs[e].pos, dir |-> d]
                                         ELSE playerList[id]]
    BY <1>1 DEF SpawnPlayer, EraseEggs, Hatch
  <2>2. DOMAIN vecEggs' = DOMAIN vecEggs \ {e}
    BY <2>1 DEF Restrict
  <2>3. DOMAIN playerList' \ DOMAIN playerList \subseteq {e} /\ playerList'[e].pos = vecEggs[e].pos
    BY <2>1
  <2>4. e \in DOMAIN vecEggs /\ vecEggs[e].team = t /\ e \in teamPlayers'[t]
    BY <2>1 DEF EggsOf, StructInv, TypeOK
  <2> QED BY <2>2, <2>3, <2>4 DEF HatchStep
<1>2. ASSUME NEW p \in DOMAIN playerList, RemovePlayer(p) PROVE HatchStep
  BY <1>2 DEF RemovePlayer, Restrict, HatchStep
<1>3. ASSUME NEW p \in DOMAIN playerList, Forward(p) PROVE HatchStep
  BY <1>3 DEF Forward, MoveAll, HatchStep
<1>4. ASSUME NEW p \in DOMAIN playerList, Turn(p, 3) \/ Turn(p, 1) PROVE HatchStep
  BY <1>4 DEF Turn, HatchStep
<1>5. ASSUME NEW p \in DOMAIN playerList, Eject(p) PROVE HatchStep
  BY <1>5 DEF Eject, EraseEggs, MoveAll, Restrict, HatchStep
<1>6. ASSUME NEW p \in DOMAIN playerList, LayEgg(p) PROVE HatchStep
  <2>1. DOMAIN vecEggs' = DOMAIN vecEggs \cup {newId} /\ playerList' = playerList /\ newId \in Nat
    BY <1>6, LayersHaveTeams DEF LayEgg, StructInv, TypeOK
  <2> QED BY <2>1 DEF HatchStep
<1>7. CASE GetAndClearGuiEvents
  BY <1>7 DEF GetAndClearGuiEvents, HatchStep
<1> QED BY <1>1, <1>2, <1>3, <1>4, <1>5, <1>6, <1>7 DEF Next

\* No id is ever handed out twice, and every player comes out of an egg of its
\* own team on the tile where the egg lay.
THEOREM HatchingCorrect == Spec => OnlyEggsHatch
<1>1. [HatchStep]_vars <=>
        [/\ \A e \in DOMAIN vecEggs' \ DOMAIN vecEggs : e >= newId
         /\ \A id \in DOMAIN playerList' \ DOMAIN playerList :
               /\ id \in DOMAIN vecEggs \ DOMAIN vecEggs'
               /\ playerList'[id].pos = vecEggs[id].pos
               /\ id \in teamPlayers'[vecEggs[id].team]]_vars
  BY DEF HatchStep
<1> QED BY <1>1, StructInit, StructNext, HatchNext, PTL DEF Spec, OnlyEggsHatch

-----------------------------------------------------------------------------
(* Moves.                                                                  *)

\* One step: who moved or turned did so by at most one tile, and a spectator event
\* of this step says where it is now.
MoveStep ==
    \A id \in DOMAIN playerList \cap DOMAIN playerList' :
       playerList'[id] # playerList[id] =>
          /\ \/ playerList'[id].pos = playerList[id].pos
             \/ \E d \in Dirs : playerList'[id].pos = Ahead(playerList[id].pos, d)
          /\ \E k \in Len(guiEvents) + 1 .. Len(guiEvents') :
                /\ guiEvents'[k].type = "ppo"
                /\ Sighting(id, playerList'[id]) \in guiEvents'[k].seen

\* The event that tells of the players in S comes right behind what was waiting.
LEMMA AnnouncedNext ==
    ASSUME NEW before \in Seq(Event), NEW after, NEW told, NEW more \in Seq(Event),
           Ppo(told) \in Event, after = before \o (<<Ppo(told)>> \o more), NEW s \in told
    PROVE  \E k \in Len(before) + 1 .. Len(after) : after[k].type = "ppo" /\ s \in after[k].seen
<1> DEFINE e == Ppo(told)
           k == Len(before) + 1
<1>1. e.type = "ppo" /\ e.seen = told
  BY DEF Ppo
<1> HIDE DEF e
<1>2. <<e>> \in Seq(Event) /\ Len(<<e>>) = 1 /\ <<e>>[1] = e
  BY DEF e
<1>3. /\ Len(before) \in Nat /\ Len(more) \in Nat
      /\ <<e>> \o more \in Seq(Event) /\ Len(<<e>> \o more) = 1 + Len(more)
      /\ (<<e>> \o more)[1] = e
  BY <1>2, ConcatProperties, LenProperties
<1>4. after = before \o (<<e>> \o more)
  BY DEF e
<1>5. Len(after) = Len(before) + (1 + Len(more)) /\ after[k] = (<<e>> \o more)[k - Len(before)]
  BY <1>3, <1>4, ConcatProperties
<1>6. k - Len(before) = 1 /\ k \in Len(before) + 1 .. Len(after)
  BY <1>3, <1>5
<1>7. after[k] = e
  BY <1>3, <1>5, <1>6
<1> QED BY <1>1, <1>6, <1>7

LEMMA AppendAsConcat ==
    ASSUME NEW before \in Seq(Event), NEW e \in Event
    PROVE  Append(before, e) = before \o (<<e>> \o <<>>)
<1>1. <<e>> \in Seq(Event)
  OBVIOUS
<1>2. <<e>> \o <<>> = <<e>>
  BY <1>1, ConcatEmptySeq
<1> QED BY <1>2, AppendIsConcat

\* Players moved together by one call are announced by the event that call emits.
LEMMA MoveAllAnnounced ==
    ASSUME StructInv, NEW S \in SUBSET DOMAIN playerList, NEW d \in Dirs, MoveAll(S, d),
           NEW more \in Seq(Event), guiEvents' = guiEvents \o (<<Ppo(Sightings(S))>> \o more)
    PROVE  MoveStep
<1> SUFFICES ASSUME NEW id \in DOMAIN playerList, playerList'[id] # playerList[id]
             PROVE  /\ playerList'[id].pos = Ahead(playerList[id].pos, d)
                    /\ \E k \in Len(guiEvents) + 1 .. Len(guiEvents') :
                          /\ guiEvents'[k].type = "ppo"
                          /\ Sighting(id, playerList'[id]) \in guiEvents'[k].seen
  BY DEF MoveStep
<1>1. playerList' = [i \in DOMAIN playerList |->
                       IF i \in S THEN [playerList[i] EXCEPT !.pos = Ahead(playerList[i].pos, d)]
                                  ELSE playerList[i]]
  BY DEF MoveAll
<1>2. id \in S /\ playerList'[id] = [playerList[id] EXCEPT !.pos = Ahead(playerList[id].pos, d)]
  BY <1>1
<1>3. playerList[id] \in [pos : Pos, dir : Dirs]
  BY DEF StructInv, TypeOK
<1>4. playerList'[id].pos = Ahead(playerList[id].pos, d)
  BY <1>2, <1>3
<1>5. Sighting(id, playerList'[id]) \in Sightings(S)
  BY <1>2 DEF Sightings
<1>6. Ppo(Sightings(S)) \in Event
  BY MoveAllStruct DEF Event, Ppo
<1>7. guiEvents \in Seq(Event)
  BY DEF StructInv, TypeOK
<1>8. \E k \in Len(guiEvents) + 1 .. Len(guiEvents') :
         guiEvents'[k].type = "ppo" /\ Sighting(id, playerList'[id]) \in guiEvents'[k].seen
  BY <1>5, <1>6, <1>7, AnnouncedNext
<1> QED BY <1>4, <1>8

LEMMA TurnAnnounced ==
    ASSUME StructInv, NEW p \in DOMAIN playerList, NEW n \in {1, 3}, Turn(p, n)
    PROVE  MoveStep
<1> SUFFICES ASSUME NEW id \in DOMAIN playerList, playerList'[id] # playerList[id]
             PROVE  /\ playerList'[id].pos = playerList[id].pos
                    /\ \E k \in Len(guiEvents) + 1 .. Len(guiEvents') :
                          /\ guiEvents'[k].type = "ppo"
                          /\ Sighting(id, playerList'[id]) \in guiEvents'[k].seen
  BY DEF MoveStep
<1>1. playerList' = [playerList EXCEPT ![p].dir = (@ + n) % 4]
  BY DEF Turn
<1>2. id = p /\ playerList[p] \in [pos : Pos, dir : Dirs]
  BY <1>1 DEF StructInv, TypeOK
<1>3. playerList'[id].pos = playerList[id].pos
  BY <1>1, <1>2
<1>4. Sighting(id, playerList'[id]) \in Sightings({p})
  BY <1>2 DEF Sightings
<1>5. Ppo(Sightings({p})) \in Event
  <2>1. p \in Nat
    BY DEF StructInv, TypeOK, IdsAreUnambiguous
  <2>2. playerList'[p] \in [pos : Pos, dir : Dirs]
    <3>1. DOMAIN playerList' = DOMAIN playerList
      BY <1>1
    <3>2. StructInv'
      BY TurnStruct
    <3> QED BY <3>1, <3>2 DEF StructInv, TypeOK
  <2>3. Sighting(p, playerList'[p]) \in [id : Nat, pos : Pos, dir : Dirs]
    BY <2>1, <2>2 DEF Sighting
  <2> QED BY <2>3 DEF Ppo, Event, Sightings
<1>6. guiEvents \in Seq(Event) /\ <<>> \in Seq(Event)
  BY DEF StructInv, TypeOK
<1>7. guiEvents' = guiEvents \o (<<Ppo(Sightings({p}))>> \o <<>>)
  BY <1>5, <1>6, AppendAsConcat DEF Turn
<1>8. \E k \in Len(guiEvents) + 1 .. Len(guiEvents') :
         guiEvents'[k].type = "ppo" /\ Sighting(id, playerList'[id]) \in guiEvents'[k].seen
  BY <1>4, <1>5, <1>6, <1>7, AnnouncedNext
<1> QED BY <1>3, <1>8

LEMMA MoveNext == StructInv /\ [Next]_vars => [MoveStep]_vars
<1> SUFFICES ASSUME StructInv, Next PROVE MoveStep
  OBVIOUS
<1>1. ASSUME NEW t \in Teams, SpawnPlayer(t) PROVE MoveStep
  <2>1. PICK e \in EggsOf(t) :
           \A id \in DOMAIN playerList : id # e => playerList'[id] = playerList[id]
    BY <1>1 DEF SpawnPlayer
  <2>2. e \notin DOMAIN playerList
    BY DEF StructInv, IdsAreUnambiguous, EggsOf
  <2> QED BY <2>1, <2>2 DEF MoveStep
<1>2. ASSUME NEW p \in DOMAIN playerList, RemovePlayer(p) PROVE MoveStep
  BY <1>2 DEF RemovePlayer, Restrict, MoveStep
<1>3. ASSUME NEW p \in DOMAIN playerList, Forward(p) PROVE MoveStep
  <2>1. playerList[p].dir \in Dirs /\ guiEvents \in Seq(Event) /\ <<>> \in Seq(Event)
    BY DEF StructInv, TypeOK
  <2>2. MoveAll({p}, playerList[p].dir) /\ guiEvents' = Append(guiEvents, Ppo(Sightings({p})))
    BY <1>3 DEF Forward
  <2>3. Ppo(Sightings({p})) \in Event
    BY <2>1, <2>2, MoveAllStruct DEF Event, Ppo
  <2>4. guiEvents' = guiEvents \o (<<Ppo(Sightings({p}))>> \o <<>>)
    BY <2>1, <2>2, <2>3, AppendAsConcat
  <2> QED BY <2>1, <2>2, <2>4, MoveAllAnnounced
<1>4. ASSUME NEW p \in DOMAIN playerList, Turn(p, 3) \/ Turn(p, 1) PROVE MoveStep
  BY <1>4, TurnAnnounced
<1>5. ASSUME NEW p \in DOMAIN playerList, Eject(p) PROVE MoveStep
  <2> DEFINE i == TileIndex(playerList[p].pos)
             pushed == tilePlayers[i] \ {p}
             broken == tileEggs[i]
             more == <<Edi(broken), Pex(p)>>
  <2>1. /\ MoveAll(pushed, playerList[p].dir)
        /\ guiEvents' = guiEvents \o <<Ppo(Sightings(pushed)), Edi(broken), Pex(p)>>
    BY <1>5 DEF Eject
  <2>2. /\ playerList[p].dir \in Dirs /\ i \in Tiles /\ p \in Nat
        /\ pushed \in SUBSET DOMAIN playerList /\ broken \in SUBSET Nat
    BY TileIndexInTiles DEF StructInv, TypeOK, TilesMirrorWorld, IdsAreUnambiguous
  <2>3. Edi(broken) \in Event /\ Pex(p) \in Event
    BY <2>2 DEF Event, Edi, Pex
  <2>4. more \in Seq(Event)
    BY <2>3
  <2>5. <<Ppo(Sightings(pushed)), Edi(broken), Pex(p)>> = <<Ppo(Sightings(pushed))>> \o more
    BY <2>3
  <2> HIDE DEF pushed, more
  <2> QED BY <2>1, <2>2, <2>4, <2>5, MoveAllAnnounced
<1>6. ASSUME NEW p \in DOMAIN playerList, LayEgg(p) PROVE MoveStep
  BY <1>6 DEF LayEgg, MoveStep
<1>7. CASE GetAndClearGuiEvents
  BY <1>7 DEF GetAndClearGuiEvents, MoveStep
<1> QED BY <1>1, <1>2, <1>3, <1>4, <1>5, <1>6, <1>7 DEF Next

\* A player moves one tile at a time along one axis of the torus, and every move and
\* every turn is announced to the spectators by the call that makes it.
THEOREM MovesCorrect == Spec => MovesAreAnnounced
<1>1. [MoveStep]_vars <=>
        [\A id \in DOMAIN playerList \cap DOMAIN playerList' :
           playerList'[id] # playerList[id] =>
              /\ \/ playerList'[id].pos = playerList[id].pos
                 \/ \E d \in Dirs : playerList'[id].pos = Ahead(playerList[id].pos, d)
              /\ \E k \in Len(guiEvents) + 1 .. Len(guiEvents') :
                    /\ guiEvents'[k].type = "ppo"
                    /\ Sighting(id, playerList'[id]) \in guiEvents'[k].seen]_vars
  BY DEF MoveStep
<1> QED BY <1>1, StructInit, StructNext, MoveNext, PTL DEF Spec, MovesAreAnnounced

=============================================================================
