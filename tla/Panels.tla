------------------------------- MODULE Panels -------------------------------
(***************************************************************************)
(* The panels of the display that listen to the server on their own, past  *)
(* the mirror of the world: the two inspectors, the statistics, the event  *)
(* log and the speed control (gui/src/ui/menus).  They ask the server      *)
(* questions, and hear answers, broadcasts and late events on one stream.  *)
(***************************************************************************)
EXTENDS Integers, SequencesExt, FiniteSetsExt

CONSTANTS
    Numbers,            \* the players there may be, 0 and 1 from the start
    TeamOf,         \* their teams
    Speeds,         \* frequencies; numbers
    SliderMax,      \* the largest of them the slider reaches
    MaxLogs,        \* rows the event log keeps
    MaxEvents,      \* bound: events of the world
    MaxClicks,      \* bound: what the user does
    MaxDone,        \* bound: both together
    MaxFall         \* bound: half hearts that fade between two lines about the food

ASSUME PanelsAssumption ==
    /\ {0, 1} \subseteq Numbers /\ Numbers \subseteq Nat /\ IsFiniteSet(Numbers)
    /\ Speeds \subseteq Nat \ {0} /\ Speeds # {} /\ SliderMax \in Speeds
    /\ {MaxLogs, MaxEvents, MaxClicks, MaxDone, MaxFall} \subseteq Nat /\ MaxLogs > 0

VARIABLES
    folk,           \* the living players -> level, tile, food, and whether a ritual froze them
    laid,           \* the eggs
    heap,           \* how much food lies on each of two tiles
    rites,          \* leader of a ritual -> where it began, and with whom (itself: alone)
    freq,           \* ServerConfig::freq
    due,            \* _guiEvents
    line,           \* sent to the display and not yet read
    asked,          \* sent to the server and not yet answered
    sheet,          \* PlayerInspectorUI: _targetPlayerId (-1 is none), its texts, _foodFloat in
                    \* halves; history: halves faded since the last line about the food
    tile,           \* TileInspectorUI: _targetGridPosition, its text, the ritual of the scanner
    stats,          \* GlobalStatsUI: _players, _teams and _eggs
    rows,           \* _logRows
    slider,         \* WorldControlUI: the knob, the number beside it, and _isDragging
    done,           \* what was spent of the bounds
    story           \* next ids; history: followers no line named, a level told late, all rows, a drag
                    \* given up, a ritual told on the tile since it was chosen, tiles of stray rituals

server  == <<folk, laid, heap, rites, freq>>
panels  == <<sheet, tile, stats, rows, slider>>
panelVars == <<server, due, line, asked, panels, done, story>>

Tiles == 1 .. 2
TeamsOf == {TeamOf[i] : i \in Numbers}
VictoryLevel == 8

\* map[i] = x of std::map and std::unordered_map.
Entered(f, i, x) == [j \in DOMAIN f \cup {i} |-> IF j = i THEN x ELSE f[j]]

StartFood == 10

PositionOf(i) == <<"ppo", i, folk'[i].tile>>
FoodOf(i)     == <<"pin", i, folk'[i].food>>
LevelOf(i)    == <<"plv", i, folk'[i].level>>
Newcomer(i)   == <<"pnw", i, folk'[i].level>>
ContentOf(t)  == <<"bct", t, heap'[t]>>

PanelsInit ==
    /\ \E ritual \in BOOLEAN :
          /\ folk = [i \in {0, 1} |-> [level |-> VictoryLevel - 1, tile |-> 1, food |-> StartFood,
                                       frozen |-> ritual /\ i = 1]]
          /\ rites = [l \in {i \in {0} : ritual} |-> [at |-> 1, with |-> 1]]
    /\ laid = {0} /\ heap = [t \in Tiles |-> 0]
    /\ freq = Min(Speeds) /\ due = <<>> /\ line = <<>> /\ asked = <<>>
    /\ sheet = [id |-> -1, level |-> 0, tile |-> 0, food |-> 0, fell |-> 0]
    /\ tile = [at |-> -1, heap |-> 0, ritual |-> FALSE]
    /\ stats = [level |-> [i \in {} |-> 0], team |-> [t \in TeamsOf |-> [population |-> 0, level8Count |-> 0]],
                eggs |-> {}]
    /\ rows = << <<"Initialized", 0, 0>> >> /\ slider = [knob |-> Min(Speeds), text |-> Min(Speeds), held |-> FALSE]
    /\ done = [joined |-> FALSE, events |-> 0, clicks |-> 0]
    /\ story = [newId |-> 2, newEgg |-> 1, followers |-> {}, late |-> FALSE, rows |-> rows, givenUp |-> FALSE,
                heard |-> FALSE, stray |-> {}]

-----------------------------------------------------------------------------
(* The server, as far as the panels are told of it.                        *)

Happens ==
    /\ done.events < MaxEvents /\ done.events + done.clicks < MaxDone
    /\ done' = [done EXCEPT !.events = @ + 1]

Event(lines) ==
    /\ Happens /\ due' = due \o lines
    /\ UNCHANGED <<freq, line, asked, panels>>

\* The tiles of the leaders in L, where a ritual goes on that no line will end.
Stray(L) == {rites[l].at : l \in L \cap DOMAIN rites}

\* A step ahead, or a push, which nobody is too busy for: a ritual ends where its leader is.
Walk(i) ==
    /\ folk' = [folk EXCEPT ![i].tile = 3 - @]
    /\ story' = [story EXCEPT !.stray = @ \cup (IF i \in DOMAIN rites THEN Tiles ELSE {})]
    /\ Event(<<PositionOf(i)>>) /\ UNCHANGED <<laid, heap, rites>>

\* A leader's ritual goes with it.
Starve(i) ==
    /\ folk' = [j \in DOMAIN folk \ {i} |-> folk[j]]
    /\ rites' = [l \in DOMAIN rites \ {i} |-> rites[l]]
    /\ story' = [story EXCEPT !.stray = @ \cup Stray({i})]
    /\ Event(<< <<"pdi", i, 0>> >>) /\ UNCHANGED <<laid, heap>>

Lay ==
    /\ laid' = laid \cup {story.newEgg} /\ folk' = folk
    /\ story' = [story EXCEPT !.newEgg = @ + 1]
    /\ Event(<< <<"enw", story.newEgg, 0>> >>) /\ UNCHANGED <<heap, rites>>

\* Numbers count up; a player that is gone never comes back.  (Its first "pin" is read before
\* anybody can ask for another, and left out here and in the snapshot.)
HatchEgg(e, i) ==
    /\ i = story.newId /\ laid' = laid \ {e}
    /\ folk' = Entered(folk, i, [level |-> 1, tile |-> 1, food |-> StartFood, frozen |-> FALSE])
    /\ story' = [story EXCEPT !.newId = @ + 1]
    /\ Event(<<Newcomer(i), <<"ebo", e, 0>> >>) /\ UNCHANGED <<heap, rites>>

Digest(i) ==
    /\ folk[i].food > 0 /\ folk' = [folk EXCEPT ![i].food = @ - 1]
    /\ Event(<<FoodOf(i)>>) /\ UNCHANGED <<laid, heap, rites, story>>

AtEase(i) == i \notin DOMAIN rites /\ ~folk[i].frozen

\* n is 1 for a Take of food, -1 for a Set.
Handle(i, n) ==
    LET t == folk[i].tile IN
    /\ AtEase(i) /\ heap' = [heap EXCEPT ![t] = @ - n] /\ heap'[t] \in {0, 1} /\ folk[i].food + n >= 0
    /\ folk' = [folk EXCEPT ![i].food = @ + n]
    /\ Event(<<ContentOf(t), FoodOf(i)>>) /\ UNCHANGED <<laid, rites, story>>

Regrow(t) ==
    /\ heap[t] = 0 /\ heap' = [heap EXCEPT ![t] = 1] /\ folk' = folk
    /\ Event(<<ContentOf(t)>>) /\ UNCHANGED <<laid, rites, story>>

\* Who is frozen may lead a ritual too.  Where another goes on, the end of either is taken for both.
Gather(l, other) ==
    LET t == folk[l].tile IN
    /\ l \notin DOMAIN rites /\ folk[l].level < VictoryLevel
    /\ folk[other].level = folk[l].level /\ folk[other].tile = t
    /\ rites' = Entered(rites, l, [at |-> t, with |-> other])
    /\ folk' = [folk EXCEPT ![other].frozen = @ \/ other # l]
    /\ story' = [story EXCEPT !.stray = @ \cup (Stray(DOMAIN rites) \cap {t})]
    /\ Event(<< <<"pic", t, 1>> >>) /\ UNCHANGED <<laid, heap>>

\* A ritual lifts everybody who took part; only its leader is announced.
Conclude(l, success) ==
    LET both == {l, rites[l].with}
        up(i) == IF success /\ folk[i].level < VictoryLevel THEN folk[i].level + 1 ELSE folk[i].level
    IN
    /\ ~folk[l].frozen /\ success => both \subseteq DOMAIN folk /\ folk[l].level < VictoryLevel
    /\ folk' = [i \in DOMAIN folk |->
                  IF i \in both THEN [folk[i] EXCEPT !.level = up(i), !.frozen = FALSE] ELSE folk[i]]
    /\ rites' = [m \in DOMAIN rites \ {l} |-> rites[m]]
    /\ story' = IF success THEN [story EXCEPT !.followers = (@ \cup both) \ {l}] ELSE story
    /\ Event((IF success THEN <<LevelOf(l)>> ELSE <<>>) \o << <<"pie", folk[l].tile, 0>> >>)
    /\ UNCHANGED <<laid, heap>>

\* What any spectator sets is answered to all of them, at once.
OtherSets(v) ==
    /\ Happens /\ freq' = v
    /\ line' = IF done.joined THEN Append(line, <<"sst", v, 0>>) ELSE line
    /\ UNCHANGED <<folk, laid, heap, rites, due, asked, panels, story>>

FlushLines ==
    /\ due # <<>> /\ due' = <<>>
    /\ line' = IF done.joined THEN line \o due ELSE line
    /\ UNCHANGED <<server, asked, panels, done, story>>

Outdated(i) == \E n \in DOMAIN due : due[n][1] = "plv" /\ due[n][2] = i /\ due[n][3] < folk[i].level

\* What is due has not been sent when the snapshot is, which already shows its effect.
SendSnapshot ==
    /\ ~done.joined /\ done' = [done EXCEPT !.joined = TRUE] /\ UNCHANGED server
    /\ line' = << <<"sgt", freq, 0>> >> \o SetToSeq({Newcomer(i) : i \in DOMAIN folk})
               \o SetToSeq({<<"enw", e, 0>> : e \in laid})
    /\ story' = [story EXCEPT !.followers = {i \in DOMAIN folk : Outdated(i)}]
    /\ UNCHANGED <<due, asked, panels>>

\* Answers overtake what is due; a dead player has none.
Answer(q) ==
    LET about == q[2] IN
    /\ freq' = IF q[1] = "sst" THEN about ELSE freq
    /\ UNCHANGED <<folk, laid, heap, rites>>
    /\ line' = Append(line,
          IF q[1] \in {"pin", "plv", "ppo"} /\ about \notin DOMAIN folk THEN <<"sbp", 0, 0>>
          ELSE CASE q[1] = "sst" -> q [] q[1] = "bct" -> ContentOf(about)
                 [] q[1] = "pin" -> FoodOf(about) [] q[1] = "plv" -> LevelOf(about)
                 [] q[1] = "ppo" -> PositionOf(about))

Serve ==
    /\ asked # <<>> /\ Answer(Head(asked)) /\ asked' = Tail(asked)
    /\ LET i == Head(asked)[2]
       IN story' = IF Head(asked)[1] = "plv" /\ i \in DOMAIN folk /\ ~Outdated(i)
                   THEN [story EXCEPT !.followers = @ \ {i}] ELSE story
    /\ UNCHANGED <<due, panels, done>>

-----------------------------------------------------------------------------
(* What each panel makes of a line.                                        *)

OnPlayerSheet(m) ==
    IF m[2] # sheet.id THEN sheet
    ELSE CASE m[1] = "pin" -> [sheet EXCEPT !.food = 2 * m[3], !.fell = 0]
           [] m[1] = "plv" -> [sheet EXCEPT !.level = m[3]]
           [] m[1] = "ppo" -> [sheet EXCEPT !.tile = m[3]]
           [] OTHER -> sheet

\* PlayerInspectorUI::updateHearts: ten hearts of the colour of the tens, over them the ones
\* in the next colour, and a half; halves are counted.
Colours == <<"empty", "red", "yellow", "orange", "green", "blue", "purple">>

UpdateHearts(halves) ==
    LET full == halves \div 2
        row  == Min({full \div 10, 5})
    IN [base |-> Colours[row + 1], over |-> Colours[row + 2], whole |-> full % 10, half |-> halves % 2]

OnTileInspector(m) ==
    IF m[2] # tile.at THEN tile
    ELSE CASE m[1] = "bct" -> [tile EXCEPT !.heap = m[3]]
           [] m[1] = "pic" -> [tile EXCEPT !.ritual = TRUE]
           [] m[1] = "pie" -> [tile EXCEPT !.ritual = FALSE]
           [] OTHER -> tile

\* A player it knows is not counted again.
OnPnwReceived(s, i, level) ==
    IF i \in DOMAIN s.level THEN s
    ELSE [s EXCEPT !.level = Entered(@, i, level), !.team[TeamOf[i]].population = @ + 1,
                   !.team[TeamOf[i]].level8Count = @ + (IF level >= VictoryLevel THEN 1 ELSE 0)]

OnPlvReceived(s, i, level) ==
    IF i \notin DOMAIN s.level THEN s
    ELSE [s EXCEPT !.level[i] = level,
            !.team[TeamOf[i]].level8Count = @ + (IF level >= VictoryLevel /\ s.level[i] < VictoryLevel THEN 1 ELSE 0)]

OnPdiReceived_CountsOn(s, i) ==
    IF i \notin DOMAIN s.level THEN s
    ELSE [s EXCEPT !.level = [j \in DOMAIN @ \ {i} |-> @[j]], !.team[TeamOf[i]].population = @ - 1]

OnPdiReceived(s, i) ==
    IF i \notin DOMAIN s.level THEN s
    ELSE [s EXCEPT !.level = [j \in DOMAIN @ \ {i} |-> @[j]], !.team[TeamOf[i]].population = @ - 1,
            !.team[TeamOf[i]].level8Count = @ - (IF s.level[i] >= VictoryLevel THEN 1 ELSE 0)]

OnStats(m) ==
    CASE m[1] = "pnw" -> OnPnwReceived(stats, m[2], m[3])
      [] m[1] = "plv" -> OnPlvReceived(stats, m[2], m[3])
      [] m[1] = "pdi" -> OnPdiReceived(stats, m[2])
      [] m[1] = "enw" -> [stats EXCEPT !.eggs = @ \cup {m[2]}]
      [] m[1] = "ebo" -> [stats EXCEPT !.eggs = @ \ {m[2]}]
      [] OTHER -> stats

Logged == {"pnw", "pdi", "enw", "ebo"}

AddLogLine(log, m) ==
    IF m[1] \notin Logged THEN log
    ELSE LET longer == Append(log, m) IN IF Len(longer) > MaxLogs THEN Tail(longer) ELSE longer

Clamped(v) == IF v > SliderMax THEN SliderMax ELSE v

\* The number follows the server even under a hand that holds the knob.
OnSpeed(m) ==
    IF m[1] \notin {"sgt", "sst"} THEN slider
    ELSE [slider EXCEPT !.text = m[2], !.knob = IF slider.held THEN @ ELSE Clamped(m[2])]

ReadLine ==
    /\ line # <<>> /\ line' = Tail(line)
    /\ LET m == Head(line)
       IN /\ sheet' = OnPlayerSheet(m) /\ tile' = OnTileInspector(m) /\ stats' = OnStats(m)
          /\ rows' = AddLogLine(rows, m) /\ slider' = OnSpeed(m)
          /\ story' = [story EXCEPT !.rows = IF m[1] \in Logged THEN Append(@, m) ELSE @,
                        !.heard = @ \/ (m[1] \in {"pic", "pie"} /\ m[2] = tile.at),
                        !.late = @ \/ (m[1] = "plv" /\ m[2] \in DOMAIN stats.level /\ m[3] < stats.level[m[2]])]
    /\ UNCHANGED <<server, due, asked, done>>

\* PlayerInspectorUI::update lets the food fade from frame to frame, at the speed told last by "sgt".
Fade ==
    /\ sheet.food > 0 /\ sheet.fell < MaxFall
    /\ sheet' = [sheet EXCEPT !.food = @ - 1, !.fell = @ + 1]
    /\ UNCHANGED <<server, due, line, asked, tile, stats, rows, slider, done, story>>

-----------------------------------------------------------------------------
(* The user.                                                               *)

UserDoes ==
    /\ done.clicks < MaxClicks /\ done.events + done.clicks < MaxDone
    /\ done' = [done EXCEPT !.clicks = @ + 1]
    /\ UNCHANGED <<server, due, line, stats, rows>>

\* The old values stay until the answers come.
OnPlayerClicked(i) ==
    /\ i \in DOMAIN stats.level
    /\ sheet' = [sheet EXCEPT !.id = i]
    /\ asked' = asked \o << <<"pin", i, 0>>, <<"plv", i, 0>>, <<"ppo", i, 0>> >>
    /\ UserDoes /\ UNCHANGED <<tile, slider, story>>

OnTileClicked(t) ==
    /\ tile' = [tile EXCEPT !.at = t] /\ asked' = Append(asked, <<"bct", t, 0>>)
    /\ story' = [story EXCEPT !.heard = FALSE]
    /\ done.joined /\ UserDoes /\ UNCHANGED <<sheet, slider>>

\* setVisible(false) of either inspector.
CloseEither ==
    /\ \/ sheet.id # -1 /\ sheet' = [sheet EXCEPT !.id = -1] /\ tile' = tile
       \/ tile.at # -1 /\ tile' = [tile EXCEPT !.at = -1] /\ sheet' = sheet
    /\ UserDoes /\ UNCHANGED <<asked, slider, story>>

DragSpeed(v) ==
    /\ done.joined /\ ~slider.held /\ v <= SliderMax
    /\ slider' = [knob |-> v, text |-> v, held |-> TRUE]
    /\ UserDoes /\ UNCHANGED <<asked, sheet, tile, story>>

\* A knob let go of sends its value, unless the cursor was captured meanwhile.
LetGo(captured) ==
    /\ slider.held /\ slider' = [slider EXCEPT !.held = FALSE]
    /\ asked' = IF captured THEN asked ELSE Append(asked, <<"sst", slider.knob, 0>>)
    /\ story' = IF captured THEN [story EXCEPT !.givenUp = TRUE] ELSE story
    /\ UNCHANGED <<server, due, line, stats, rows, done, sheet, tile>>

PanelsNext ==
    \/ \E i \in DOMAIN folk : Walk(i) \/ Starve(i) \/ Digest(i) \/ (\E n \in {-1, 1} : Handle(i, n))
    \/ \E i, j \in DOMAIN folk : Gather(i, j)
    \/ \E l \in DOMAIN rites, success \in BOOLEAN : Conclude(l, success)
    \/ Lay \/ \E e \in laid, i \in Numbers : HatchEgg(e, i)
    \/ \E t \in Tiles : Regrow(t) \/ OnTileClicked(t)
    \/ \E v \in Speeds : OtherSets(v) \/ DragSpeed(v)
    \/ FlushLines \/ SendSnapshot \/ Serve \/ ReadLine \/ Fade
    \/ \E i \in Numbers : OnPlayerClicked(i)
    \/ CloseEither
    \/ \E captured \in BOOLEAN : LetGo(captured)

PanelsSpec == PanelsInit /\ [][PanelsNext]_panelVars

-----------------------------------------------------------------------------
(* Properties.                                                             *)

Quiet == done.joined /\ due = <<>> /\ line = <<>> /\ asked = <<>>

\* The half hearts a picture stands for (sixty hearts look like fifty again).
HalvesOf(shown) ==
    LET tens == CHOOSE n \in DOMAIN Colours : Colours[n] = shown.base
    IN 20 * (tens - 1) + 2 * shown.whole + shown.half

\* Once everything said has been read, the inspectors describe what they name: a living player
\* where it stands, with its level unless a ritual it only followed raised it since (no line says
\* so), and with a heart for each food it has but for what has faded since the last line about
\* it; a tile with the food on it.
InspectorsTrue ==
    /\ sheet.id \in DOMAIN folk =>
          /\ sheet.tile = folk[sheet.id].tile
          /\ sheet.id \notin story.followers => sheet.level = folk[sheet.id].level
          /\ folk[sheet.id].food < 60 => HalvesOf(UpdateHearts(sheet.food)) + sheet.fell = 2 * folk[sheet.id].food
    /\ tile.at \in Tiles => tile.heap = heap[tile.at]

\* The scanner tells whether a ritual goes on there, once a line about one there came: until then
\* it keeps what it told of another tile.  Where two rituals met, and where one lost its leader
\* or had it pushed away, a line too few or too many came.
ScannerTrue ==
    tile.at \in Tiles \ story.stray /\ story.heard =>
        (tile.ritual <=> \E l \in DOMAIN rites : rites[l].at = tile.at)

\* The statistics add up to the world, although the snapshot and the events due at that
\* moment name the same players and eggs twice.  (The count of level 8 does not when a level
\* is told after a later one: falling below 8 takes nothing away, and rising again counts.)
StatsAddUp ==
    /\ stats.eggs = laid
    /\ \A t \in TeamsOf :
          LET mine == {i \in DOMAIN folk : TeamOf[i] = t} IN
          /\ stats.team[t].population = Cardinality(mine)
          /\ mine \cap story.followers = {} /\ ~story.late =>
                stats.team[t].level8Count = Cardinality({i \in mine : folk[i].level >= VictoryLevel})

\* The speed shown is the server's, unless a drag was given up.
SpeedShown == slider.held \/ story.givenUp \/ (slider.text = freq /\ slider.knob = Clamped(freq))

\* The log is the last lines, in the order they came.
LogIsTail == rows = SubSeq(story.rows, Max({1, Len(story.rows) - MaxLogs + 1}), Len(story.rows))

\* What the panels tell of the world is so once all that is on its way has been heard,
\* whichever answers overtook which events; the log at every moment.
PanelsCatchUp == /\ LogIsTail
                 /\ Quiet => InspectorsTrue /\ ScannerTrue /\ StatsAddUp /\ SpeedShown

=============================================================================
