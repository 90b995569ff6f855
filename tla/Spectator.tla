----------------------------- MODULE Spectator -----------------------------
(***************************************************************************)
(* What a spectator is told and what it makes of it.                       *)
(*                                                                         *)
(* Left, the server: the world with what lies in it, the events every      *)
(* change announces (_guiEvents), and the snapshot a spectator gets when   *)
(* it joins (Core::sendGuiInitialState).  Right, the display: TileManager  *)
(* and PlayerManager of gui/src/graphics/scene, which apply one line after *)
(* the other.  Between them the wire, a stream.                            *)
(*                                                                         *)
(* Events wait in _guiEvents for the flush at the end of a turn of the     *)
(* loop, or of a later turn when an exception cuts it short, while the     *)
(* snapshot and the answers to queries go straight to the wire: they       *)
(* overtake what is waiting.                                               *)
(***************************************************************************)
EXTENDS Geometry, Protocol

CONSTANTS
    TeamNames,      \* ServerConfig::teamNames
    Kinds,          \* the kinds of items kept, among ResourceNames
    StartBag,       \* what a player carries when it is hatched
    MaxOps,         \* bound: operations of the server and queries together
    MaxGround       \* bound: items of a kind on a tile before respawn stops

VARIABLES
    players,        \* player id -> position, orientation, level, team and bag
    eggs,           \* egg id -> position and team
    ground,         \* tile -> kind -> how many
    frozen,         \* the players with _isIncanting set
    rituals,        \* leader of a running ritual -> its participants and level
    newId,          \* the next id for an egg
    pending,        \* _guiEvents
    wire,           \* sent to the spectator and not yet applied
    joined,         \* the spectator is in state GUI
    view,           \* what the spectator shows
    ops,            \* operations so far
    past            \* history: how the spectator joined, and what became of rituals

world == <<players, eggs, ground, frozen, rituals, newId>>
spectatorVars == <<world, pending, wire, joined, view, ops, past>>

NoItems == [k \in Kinds |-> 0]
Teams == Range(TeamNames)
At(p) == {id \in DOMAIN players : players[id].pos = p}

\* getCondition: how many players, and how many items of each of ResourceNames.
NbPlayer  == <<1, 2, 2, 4, 4, 6, 6>>
Resources == << <<0, 1, 0, 0, 0, 0, 0>>, <<0, 1, 1, 1, 0, 0, 0>>, <<0, 2, 0, 1, 0, 2, 0>>,
                <<0, 1, 1, 2, 0, 1, 0>>, <<0, 1, 2, 1, 3, 0, 0>>, <<0, 1, 2, 3, 0, 1, 0>>,
                <<0, 2, 2, 2, 2, 2, 1>> >>
Need(level, k) == Resources[level][CHOOSE i \in 1 .. 7 : ResourceNames[i] = k]

-----------------------------------------------------------------------------
(* The messages, built from the state they announce.                       *)

Place(p)   == [x |-> p.x, y |-> p.y]
Who(id)    == [playerId |-> id]
Pnw(id, p, level) == Message("pnw", Who(id) @@ Place(p.pos) @@ [orientation |-> p.dir + 1,
                                     level |-> level, teamName |-> p.team])
Pin(id, p) == Message("pin", Who(id) @@ Place(p.pos) @@ p.bag)
Ppo(id, p) == Message("ppo", Who(id) @@ Place(p.pos) @@ [orientation |-> p.dir + 1])
Plv(id, p) == Message("plv", Who(id) @@ [level |-> p.level])
Pdi(id)    == Message("pdi", Who(id))
Pgt(id, k) == Message("pgt", Who(id) @@ [resourceId |-> k])
Pdr(id, k) == Message("pdr", Who(id) @@ [resourceId |-> k])
Bct(p, g)  == Message("bct", Place(p) @@ g[p])
Enw(e, layer, p) == Message("enw", [eggId |-> e, playerId |-> layer] @@ Place(p))
Ebo(e)     == Message("ebo", [eggId |-> e])
Edi(e)     == Message("edi", [eggId |-> e])
Pic(p, level, S) == Message("pic", Place(p) @@ [level |-> level, playerIds |-> S])
Pie(p, ok) == Message("pie", Place(p) @@ [incantationResult |-> ok])
Tna(t)     == Message("tna", [teamName |-> t])
Msz        == Message("msz", [width |-> Width, height |-> Height])

InOrder(S, Line(_)) == LET s == SetToSeq(S) IN [i \in DOMAIN s |-> Line(s[i])]

-----------------------------------------------------------------------------
(* The display.                                                            *)

NoView == [sized |-> FALSE, teams |-> <<>>, players |-> [id \in {} |-> 0], eggs |-> EmptyBag,
           initial |-> {}, ground |-> [p \in Pos |-> NoItems], rituals |-> <<>>]

OnView(v, a) == v.sized /\ [x |-> a.x, y |-> a.y] \in Pos
Known(v, id)   == id \in DOMAIN v.players
Spot(a)        == [x |-> a.x, y |-> a.y]
ItemsOf(a)     == [k \in Kinds |-> a[k]]
ValidTurn(a)   == a.orientation \in 1 .. 4
Put(f, i, x)   == (i :> x) @@ f

HandleMapSize(v, a) == [v EXCEPT !.sized = TRUE, !.ground = [p \in Pos |-> NoItems]]

HandleTileContent_OnlyOnce(v, a) ==
    IF OnView(v, a) /\ v.ground[Spot(a)] = NoItems THEN [v EXCEPT !.ground[Spot(a)] = ItemsOf(a)] ELSE v

HandleTileContent(v, a) ==
    IF OnView(v, a) THEN [v EXCEPT !.ground[Spot(a)] = ItemsOf(a)] ELSE v

EnsureTeamExist(v, t) == IF t \in Range(v.teams) THEN v ELSE [v EXCEPT !.teams = Append(@, t)]

HandleTeamName(v, a) == EnsureTeamExist(v, a.teamName)

\* Several players on a tile stand in a circle, each on its seat <<place, of how many>>;
\* in the order of their ids here, of teams and arrivals in the code.
RecalculateTileOffsets(shown, p) ==
    LET here == {id \in DOMAIN shown : shown[id].pos = p}
        seat(id) == <<Cardinality({j \in here : j < id}), Cardinality(here)>>
    IN [id \in DOMAIN shown |-> IF id \in here THEN [shown[id] EXCEPT !.seat = seat(id)] ELSE shown[id]]

\* Team::addPlayer keeps a player it knows, with its bag.
HandlePlayerConnected(v, a) ==
    IF ~OnView(v, a) \/ ~ValidTurn(a) THEN v
    ELSE [EnsureTeamExist(v, a.teamName) EXCEPT !.players =
            RecalculateTileOffsets(Put(@, a.playerId,
                [pos |-> Spot(a), dir |-> a.orientation - 1, level |-> IF a.level > 1 THEN a.level ELSE 1,
                 team |-> a.teamName, seat |-> <<0, 1>>,
                 bag |-> IF Known(v, a.playerId) THEN v.players[a.playerId].bag ELSE NoItems]), Spot(a))]

HandlePlayerPosition_NotTurned(v, a) ==
    IF ~OnView(v, a) \/ ~ValidTurn(a) \/ ~Known(v, a.playerId) THEN v
    ELSE [v EXCEPT !.players[a.playerId].pos = Spot(a)]

HandlePlayerPosition(v, a) ==
    IF ~OnView(v, a) \/ ~ValidTurn(a) \/ ~Known(v, a.playerId) THEN v
    ELSE LET old  == v.players[a.playerId].pos
             here == [v.players EXCEPT ![a.playerId].pos = Spot(a), ![a.playerId].dir = a.orientation - 1]
         IN [v EXCEPT !.players = RecalculateTileOffsets(RecalculateTileOffsets(here, old), Spot(a))]

HandlePlayerLevel(v, a) ==
    IF a.level < 1 \/ ~Known(v, a.playerId) THEN v ELSE [v EXCEPT !.players[a.playerId].level = a.level]

\* Moves the player, but nobody's seat.
HandlePlayerInventory(v, a) ==
    IF ~OnView(v, a) \/ ~Known(v, a.playerId) THEN v
    ELSE [v EXCEPT !.players[a.playerId].pos = Spot(a), !.players[a.playerId].bag = ItemsOf(a)]

HandleIncantationStart(v, a) ==
    IF ~OnView(v, a) \/ a.level < 1 \/ a.playerIds = {} THEN v
    ELSE [v EXCEPT !.rituals = Append(@, [pos |-> Spot(a), level |-> a.level, ids |-> a.playerIds])]

\* The first ritual shown on that tile ends, whichever it was for the server.
HandleIncantationEnd_LeaderOnly(v, a) ==
    LET here == {i \in DOMAIN v.rituals : v.rituals[i].pos = Spot(a)}
    IN IF here = {} THEN v ELSE [v EXCEPT !.rituals = RemoveAt(@, Min(here))]

HandleIncantationEnd(v, a) ==
    LET here == {i \in DOMAIN v.rituals : v.rituals[i].pos = Spot(a)}
        r    == v.rituals[Min(here)]
        up(id) == IF a.incantationResult /\ id \in r.ids
                  THEN [v.players[id] EXCEPT !.level = IF @ > r.level + 1 THEN @ ELSE r.level + 1]
                  ELSE v.players[id]
    IN IF here = {} THEN v
       ELSE [v EXCEPT !.players = [id \in DOMAIN @ |-> up(id)], !.rituals = RemoveAt(@, Min(here))]

Fewer(n) == IF n > 0 THEN n - 1 ELSE 0

\* On a map without tiles tileAt finds none and nothing is moved.
HandleResourceDropped(v, a) ==
    IF ~Known(v, a.playerId) THEN v
    ELSE [v EXCEPT !.players[a.playerId].bag[a.resourceId] = Fewer(@),
                   !.ground[v.players[a.playerId].pos][a.resourceId] = @ + 1]

HandleResourceCollected(v, a) ==
    IF ~Known(v, a.playerId) THEN v
    ELSE [v EXCEPT !.players[a.playerId].bag[a.resourceId] = @ + 1,
                   !.ground[v.players[a.playerId].pos][a.resourceId] = Fewer(@)]

HandlePlayerDeath(v, a) ==
    IF ~Known(v, a.playerId) THEN v
    ELSE [v EXCEPT !.players = RecalculateTileOffsets([id \in DOMAIN @ \ {a.playerId} |-> @[id]],
                                                      v.players[a.playerId].pos)]

\* The eggs of all teams, as a bag: Team::addEgg appends without looking.
Egg(e, p, t) == [id |-> e, pos |-> p, team |-> t]
Without(S, e) == {g \in S : g.id # e}
RemoveEggs(b, ids) == Restrict(b, {g \in DOMAIN b : g.id \notin ids})

\* The eggs of the snapshot come without a team: they are dealt out to the
\* teams in the order of their ids, in equal shares.
RedistributeInitialEggs(v) ==
    LET ids    == SetToSortSeq({g.id : g \in v.initial}, <)
        n      == Len(ids)
        spot(e) == (CHOOSE g \in v.initial : g.id = e).pos
        team(i) == v.teams[((i - 1) * Len(v.teams)) \div n + 1]
    IN IF v.teams = <<>> THEN v
       ELSE [v EXCEPT !.eggs = RemoveEggs(@, Range(ids))
                               (+) SetToBag({Egg(ids[i], spot(ids[i]), team(i)) : i \in 1 .. n})]

HandleEggLaid(v, a) ==
    IF ~OnView(v, a) THEN v
    ELSE IF a.playerId < 0
    THEN RedistributeInitialEggs([v EXCEPT !.initial =
            Without(@, a.eggId) \cup {[id |-> a.eggId, pos |-> Spot(a)]}])
    ELSE IF ~Known(v, a.playerId) THEN v
    ELSE [v EXCEPT !.eggs = @ (+) SetToBag({Egg(a.eggId, Spot(a), v.players[a.playerId].team)})]

HandleEggRemoved(v, a) == [v EXCEPT !.initial = Without(@, a.eggId), !.eggs = RemoveEggs(@, {a.eggId})]

\* EventDispatcher::dispatch to the handlers WorldManager registers.
Apply(v, m) ==
    CASE m.tag = "msz" -> HandleMapSize(v, m.args)
      [] m.tag = "bct" -> HandleTileContent(v, m.args)
      [] m.tag = "tna" -> HandleTeamName(v, m.args)
      [] m.tag = "pnw" -> HandlePlayerConnected(v, m.args)
      [] m.tag = "ppo" -> HandlePlayerPosition(v, m.args)
      [] m.tag = "plv" -> HandlePlayerLevel(v, m.args)
      [] m.tag = "pin" -> HandlePlayerInventory(v, m.args)
      [] m.tag = "pic" -> HandleIncantationStart(v, m.args)
      [] m.tag = "pie" -> HandleIncantationEnd(v, m.args)
      [] m.tag = "pdr" -> HandleResourceDropped(v, m.args)
      [] m.tag = "pgt" -> HandleResourceCollected(v, m.args)
      [] m.tag = "pdi" -> HandlePlayerDeath(v, m.args)
      [] m.tag = "enw" -> HandleEggLaid(v, m.args)
      [] m.tag \in {"ebo", "edi"} -> HandleEggRemoved(v, m.args)
      [] OTHER -> v

-----------------------------------------------------------------------------
(* The server.                                                             *)

\* Two states it can be in: nobody has joined yet, or two players have met.
Init_Fresh ==
    /\ players = [id \in {} |-> 0]
    /\ eggs = [e \in 0 .. 1 |-> [pos |-> OnMap(e, 0), team |-> TeamNames[e + 1]]]
    /\ newId = 2

Init_Met ==
    /\ players = [id \in 0 .. 1 |-> [pos |-> OnMap(0, 0), dir |-> id, level |-> 2,
                                     team |-> TeamNames[id + 1], bag |-> StartBag]]
    /\ eggs = [e \in {2} |-> [pos |-> OnMap(1, 0), team |-> TeamNames[1]]]
    /\ newId = 3

SpectatorInit ==
    /\ Init_Fresh \/ Init_Met
    /\ ground = [p \in Pos |-> [k \in Kinds |-> IF (k = "linemate") = (p.x = 0) THEN 1 ELSE 0]]
    /\ rituals = [id \in {} |-> 0] /\ frozen = {}
    /\ pending = <<>> /\ wire = <<>> /\ view = NoView /\ joined = FALSE
    /\ ops = 0
    /\ past = [inStep |-> TRUE, fresh |-> TRUE, clear |-> TRUE, twice |-> {}]

\* Every operation announces what it did.  Bound: the spectator has read what
\* was sent; the order of the lines is all that matters to it, not their pace.
Announce(lines) ==
    /\ ops < MaxOps /\ wire = <<>>
    /\ ops' = ops + 1
    /\ pending' = pending \o lines
    /\ UNCHANGED <<wire, joined, view>>

\* Nobody joined when only first eggs existed, or never any more.
Stale == past' = [past EXCEPT !.fresh = @ /\ joined]

\* spawnPlayer, then Core::sendGuiNewGamePlayerData; the level is the literal 1.
Hatch(e, d) ==
    LET p == [pos |-> eggs[e].pos, dir |-> d, level |-> 1, team |-> eggs[e].team, bag |-> StartBag]
    IN /\ players' = Put(players, e, p)
       /\ eggs' = [f \in DOMAIN eggs \ {e} |-> eggs[f]]
       /\ Announce(<<Pnw(e, p, 1), Pin(e, p), Ebo(e)>>)
       /\ Stale
       /\ UNCHANGED <<ground, frozen, rituals, newId>>

Busy(id) == id \in DOMAIN rituals

\* A leader that goes takes its ritual along, without a pie.
RemovePlayer(id) ==
    /\ players' = [j \in DOMAIN players \ {id} |-> players[j]]
    /\ rituals' = [l \in DOMAIN rituals \ {id} |-> rituals[l]]
    /\ frozen' = frozen \ {id}
    /\ past' = [past EXCEPT !.clear = @ /\ ~Busy(id)]
    /\ Announce(<<Pdi(id)>>)
    /\ UNCHANGED <<eggs, ground, newId>>

Free(id) == ~Busy(id) /\ id \notin frozen

Forward(id) ==
    LET p == [players[id] EXCEPT !.pos = Ahead(@, players[id].dir)]
    IN /\ Free(id)
       /\ players' = [players EXCEPT ![id] = p]
       /\ Announce(<<Ppo(id, p)>>)
       /\ UNCHANGED <<eggs, ground, frozen, rituals, newId, past>>

Turn(id) ==
    LET p == [players[id] EXCEPT !.dir = (@ + 1) % 4]
    IN /\ Free(id)
       /\ players' = [players EXCEPT ![id] = p]
       /\ Announce(<<Ppo(id, p)>>)
       /\ UNCHANGED <<eggs, ground, frozen, rituals, newId, past>>

\* Eggs of the tile go, the others on it are pushed; "pex" changes nothing shown.
Eject(id) ==
    LET pushed == At(players[id].pos) \ {id}
        broken == {e \in DOMAIN eggs : eggs[e].pos = players[id].pos}
        dest(j) == [players[j] EXCEPT !.pos = Ahead(@, players[id].dir)]
        seen(j) == Ppo(j, dest(j))
    IN /\ Free(id)
       /\ players' = [j \in DOMAIN players |-> IF j \in pushed THEN dest(j) ELSE players[j]]
       /\ eggs' = [e \in DOMAIN eggs \ broken |-> eggs[e]]
       /\ past' = [past EXCEPT !.clear = @ /\ \A j \in pushed : ~Busy(j),
                               !.fresh = @ /\ (joined \/ broken = {})]
       /\ Announce(InOrder(pushed, seen) \o InOrder(broken, Edi))
       /\ UNCHANGED <<ground, frozen, rituals, newId>>

LayEgg(id) ==
    LET p == players[id].pos
    IN /\ Free(id)
       /\ eggs' = Put(eggs, newId, [pos |-> p, team |-> players[id].team])
       /\ newId' = newId + 1
       /\ Announce(<<Enw(newId, id, p)>>)
       /\ Stale
       /\ UNCHANGED <<players, ground, frozen, rituals>>

\* removeItemOnGround announces the tile before the player is said to take.
Take(id, k) ==
    LET p == players[id].pos
        g == [ground EXCEPT ![p][k] = @ - 1]
        q == [players[id] EXCEPT !.bag[k] = @ + 1]
    IN /\ Free(id) /\ ground[p][k] > 0
       /\ ground' = g
       /\ players' = [players EXCEPT ![id] = q]
       /\ Announce(<<Bct(p, g), Pgt(id, k), Pin(id, q)>>)
       /\ UNCHANGED <<eggs, frozen, rituals, newId, past>>

Set(id, k) ==
    LET p == players[id].pos
        g == [ground EXCEPT ![p][k] = @ + 1]
        q == [players[id] EXCEPT !.bag[k] = @ - 1]
    IN /\ Free(id) /\ players[id].bag[k] > 0
       /\ ground' = g
       /\ players' = [players EXCEPT ![id] = q]
       /\ Announce(<<Pdr(id, k), Bct(p, g), Pin(id, q)>>)
       /\ UNCHANGED <<eggs, frozen, rituals, newId, past>>

\* The pin of Player::update has no phiras: it is announced as 0.
Eat(id) ==
    LET q == [players[id] EXCEPT !.bag.food = @ - 1]
    IN /\ players[id].bag.food > 0
       /\ players' = [players EXCEPT ![id] = q]
       /\ Announce(<<Pin(id, [q EXCEPT !.bag.phiras = 0])>>)
       /\ UNCHANGED <<eggs, ground, frozen, rituals, newId, past>>

Stones(p, level) == \A k \in Kinds : ground[p][k] >= Need(level, k)

\* Incantation::start.  A frozen player may lead a ritual of its own.
StartRitual(id, S) ==
    LET p == players[id]
        others == {j \in At(p.pos) \ {id} : players[j].level = p.level}
    IN /\ ~Busy(id) /\ p.level <= 7
       /\ S \subseteq others /\ Cardinality(S) = NbPlayer[p.level] - 1
       /\ Stones(p.pos, p.level)
       /\ frozen' = frozen \cup S
       /\ rituals' = Put(rituals, id, [ids |-> S \cup {id}, level |-> p.level])
       /\ past' = [past EXCEPT !.clear = @ /\ \A l \in DOMAIN rituals : players[l].pos # p.pos]
       /\ Announce(<<Pic(p.pos, p.level, S \cup {id})>>)
       /\ UNCHANGED <<players, eggs, ground, newId>>

\* Incantation::execute, of a leader nobody has frozen.  Stones of the kinds not
\* kept may be missing too.  Only the leader's level is announced.
EndRitual(id, stones) ==
    LET p  == players[id]
        ok == stones /\ Stones(p.pos, p.level) /\ rituals[id].ids \subseteq DOMAIN players
        g  == [ground EXCEPT ![p.pos] = [k \in Kinds |-> @[k] - Need(p.level, k)]]
        raised == [j \in DOMAIN players |->
                     IF j \in rituals[id].ids THEN [players[j] EXCEPT !.level = @ + 1] ELSE players[j]]
    IN /\ Busy(id) /\ id \notin frozen
       /\ rituals' = [l \in DOMAIN rituals \ {id} |-> rituals[l]]
       /\ frozen' = frozen \ rituals[id].ids
       /\ IF ok THEN /\ ground' = g /\ players' = raised
                     /\ Announce(<<Bct(p.pos, g), Plv(id, raised[id]), Pie(p.pos, TRUE)>>)
                ELSE /\ UNCHANGED <<ground, players>>
                     /\ Announce(<<Pie(p.pos, FALSE)>>)
       /\ UNCHANGED <<eggs, newId, past>>

\* addItemsToMap, one item of it.
Respawn(p, k) ==
    LET g == [ground EXCEPT ![p][k] = @ + 1]
    IN /\ ground[p][k] < MaxGround
       /\ ground' = g
       /\ Announce(<<Bct(p, g)>>)
       /\ UNCHANGED <<players, eggs, frozen, rituals, newId, past>>

-----------------------------------------------------------------------------
(* The spectator joins, is sent what is announced, asks, and is shown it.  *)

\* sendGuiNewPlayerData.
PlayerData(id) == <<Pnw(id, players[id], players[id].level), Pin(id, players[id]), Plv(id, players[id])>>

\* sendGuiInitialState; the frequency ("sgt") belongs to module GameLoop.
Snapshot ==
    LET bct(p) == Bct(p, ground)
        enw(e) == Enw(e, -1, eggs[e].pos)
    IN <<Msz>> \o InOrder(Pos, bct) \o [i \in DOMAIN TeamNames |-> Tna(TeamNames[i])]
       \o FlattenSeq(InOrder(DOMAIN players, PlayerData)) \o InOrder(DOMAIN eggs, enw)

\* "clear" forgets what befell the rituals before this moment only if no event
\* of theirs is still to come.
Join ==
    /\ ~joined
    /\ joined' = TRUE
    /\ wire' = wire \o Snapshot
    /\ past' = [inStep |-> pending = <<>>, fresh |-> past.fresh /\ players = [id \in {} |-> 0],
                clear |-> rituals = [id \in {} |-> 0] /\ (pending = <<>> \/ past.clear),
                twice |-> {m.args.eggId : m \in {n \in Range(pending) : n.tag = "enw"}}]
    /\ UNCHANGED <<world, pending, view, ops>>

FlushGuiResponses ==
    /\ pending # <<>>
    /\ pending' = <<>>
    /\ wire' = IF joined THEN wire \o pending ELSE wire
    /\ UNCHANGED <<world, joined, view, ops, past>>

\* What pin, plv, ppo and bct answer; "sbp" for what does not exist.
Reply(line) ==
    LET m  == Parse(ParsedFromClient, line)
        id == m.args.playerId
    IN IF \/ m.tag \in {"pin", "plv", "ppo"} /\ id \notin DOMAIN players
          \/ m.tag = "bct" /\ Spot(m.args) \notin Pos
       THEN Message("sbp", NoArgs)
       ELSE CASE m.tag = "pin" -> Pin(id, players[id])
              [] m.tag = "plv" -> Plv(id, players[id])
              [] m.tag = "ppo" -> Ppo(id, players[id])
              [] m.tag = "bct" -> Bct(Spot(m.args), ground)

\* The inspectors ask about a player or a tile shown; the answer is immediate.
Query ==
    /\ joined /\ pending # <<>> /\ wire = <<>>
    /\ ops < MaxOps /\ ops' = ops + 1
    /\ \E m \in [tag : {"pin", "plv", "ppo"}, args : [playerId : DOMAIN view.players]]
                \cup [tag : {"bct"}, args : Pos] :
          /\ wire' = <<Reply(Build(EmittedByClient, m))>>
          /\ past' = [past EXCEPT !.inStep = @ /\ m.tag \in {"plv", "bct"}]
    /\ UNCHANGED <<world, pending, joined, view>>

\* Client::update: every line received is dispatched before the next frame.
Update ==
    /\ wire # <<>>
    /\ view' = FoldLeft(Apply, view, wire)
    /\ wire' = <<>>
    /\ UNCHANGED <<world, pending, joined, ops, past>>

Operation ==
    \/ \E e \in DOMAIN eggs : Hatch(e, 0)
    \/ \E id \in DOMAIN players :
          \/ RemovePlayer(id) \/ Forward(id) \/ Turn(id) \/ Eject(id) \/ LayEgg(id) \/ Eat(id)
          \/ \E k \in Kinds : Take(id, k) \/ Set(id, k)
          \/ \E S \in SUBSET DOMAIN players : StartRitual(id, S)
          \/ \E stones \in BOOLEAN : EndRitual(id, stones)
    \/ \E p \in Pos, k \in Kinds : Respawn(p, k)

SpectatorNext == Operation \/ Join \/ FlushGuiResponses \/ Query \/ Update

-----------------------------------------------------------------------------
(* Properties: what the display shows once it has applied all that is      *)
(* under way, compared with the world.                                     *)

Caught == FoldLeft(Apply, view, wire \o pending)

Shown(f, g(_)) == [id \in DOMAIN f |-> g(f[id])]

\* Every player is shown on its tile, in its orientation and under its team, with what
\* it carries (except the phiras that the pin of a meal leaves out), nobody else is, and
\* no two players of a tile are drawn on the same seat, whatever the snapshot and the
\* answers overtook.
PlayersCatchUp ==
    LET shown == Caught.players
        where(p) == <<p.pos, p.dir, p.team>>
        same(s, t) == IF s[2] = 1 \/ t[2] = 1 THEN s[2] = t[2] ELSE s[1] * t[2] = t[1] * s[2]
        carried(id, k) == \/ shown[id].bag[k] = players[id].bag[k]
                          \/ k = "phiras" /\ shown[id].bag[k] = 0
    IN joined => /\ Shown(shown, where) = Shown(players, where)
                 /\ \A id \in DOMAIN players, k \in Kinds : carried(id, k)
                 /\ \A i, j \in DOMAIN shown :
                       i # j /\ shown[i].pos = shown[j].pos => ~same(shown[i].seat, shown[j].seat)

\* Exactly the eggs that exist are shown, where they are and once each; a spectator who
\* joined between the laying and the flush that tells of it has the egg from the snapshot
\* and from the "enw", and may hold it twice.  A spectator who was there before the first
\* of them hatched, broke or was laid shows them under their team.
EggsCatchUp ==
    LET real == {Egg(e, eggs[e].pos, eggs[e].team) : e \in DOMAIN eggs}
        shown == Caught.eggs
        bare(S) == {<<g.id, g.pos>> : g \in S}
        copies(e) == MapThenSumSet(LAMBDA g : shown[g], {g \in DOMAIN shown : g.id = e})
    IN joined => /\ bare(DOMAIN shown) = bare(real)
                 /\ \A e \in DOMAIN eggs : copies(e) \in {1} \cup {n \in {2} : e \in past.twice}
                 /\ past.fresh => shown = SetToBag(real)

\* Hatching, laying, breaking, joining and leaving move ids between the two tables: the
\* living and the unborn are shown as they are, whatever the snapshot and the answers to
\* queries overtook.
FolkCatchUp == PlayersCatchUp /\ EggsCatchUp

\* The ground is shown as it is, but for one item too few after a Take: "pgt" takes
\* it a second time from the tile that "bct" had already set.  A snapshot or an
\* answer that overtook events is excepted: it moves a player ahead of its "pdr"
\* and "pgt", which then hit the wrong tile.
GroundCatchesUp ==
    LET shown == Caught.ground
    IN joined /\ past.inStep =>
          \A p \in Pos, k \in Kinds : shown[p][k] \in {ground[p][k] - 1, ground[p][k]}

\* Followers learn their level from "pic" and "pie" alone, and rituals are told apart
\* by tile: levels are right as long as every ritual began before the spectator's
\* eyes, was alone on its tile, and its leader stayed to end it.
LevelsCatchUp ==
    LET shown == Caught.players
    IN joined /\ past.clear => \A id \in DOMAIN players : shown[id].level = players[id].level

=============================================================================
