# Zappy in TLA+

Zappy is a game: a server keeps a toroidal world called Trantor in which teams of
autonomous players (the AI clients) eat, collect stones and hold rituals to rise from
level 1 to level 8, while spectators (the GUI) watch. This directory is a formal model of it.
The modules are translated from the code, TLC checks them on small instances, and TLAPS
proves what matters most for every value of the constants: the invariants of the server's tables,
players, items, clock, rituals and clients, what command lines mean and where an AI's orders lead, two refinements,
and the display's stream of lines, panels, motion, screens, settings and sounds.

Paths below are relative to the repository; C++ paths without a directory are under
`server/src/`.

## The system

### Components

| Component | State | Operations | What makes it correct |
|---|---|---|---|
| **World** (`game/World.cpp`, `Team.cpp`) | players, eggs, teams with slots and member lists, the ids each tile lists, one id counter, pending spectator events | spawn, remove, forward, turn, eject, fork | the tables never contradict one another; slots never fall short of eggs; moves are announced |
| **Player** (`game/Player.cpp`, `command/*.cpp`) | life counter, food, command queue, current command and its ticks, answers, level, frozen flag | pushCommand, update (eat, starve, count down, execute, start the next), responses | answers once, in order, on time; life is conserved; the announced wake-up misses nothing |
| **Incantation** (`command/Incantation.cpp`) | the players each ritual lists | start (select, freeze), execute (recheck, raise or fail, thaw) | levels are paid for; whoever is frozen is thawed |
| **World: resources** (`World.cpp:49-70`, `323-372`) | what lies on the tiles | respawn, Take, Set, consumption, end of game | nothing appears or is lost but by these |
| **Core** (`Core.cpp`) | phase of the turn, state and player per client, next tick's time | poll, tick, handshake, commands, disconnections, both flushes | clients and players match; every answer goes out; the departed leave |
| **SessionManager** (`network/src/SessionManager.cpp`) | open descriptors, read and write buffers, event queue | poll, accept, read, write, send, disconnect | a reused descriptor is not mistaken for its former user |
| **Sockets** (`network/src/socket/`) | a descriptor each | wrappers of system calls | - |
| **Command factory, Look, Broadcast** (`command/`) | none | parse a line, list tiles, compute a direction | order of the tiles, direction of the sound |
| **Spectator commands** (`guiCommand/`) | none, but `sst` sets the frequency | answers to queries | - |
| **Emitter, Parser** (`shared/src/protocol/`) | none | one line to and from a value | round trip |
| **Command lines** (`parser/`) | the place in the arguments, the configuration so far | read options, take names, validate | what is accepted is what the line says, and playable |
| **AI connection** (`ai/src/Connection.py`) | commands pending, answers, events and broadcasts read | send, receive, sort, pair | an answer is paired with its command |
| **AI state machine** (`ai/src/fsm/`, `Trantorian.py`) | state, leader, what the team is known to hold | survive, gather, join, evolve | teams gather and rituals happen |
| **GUI network** (`gui/src/network/`, `gui/src/Core.cpp`) | read buffer, where the frame is | connect, read, dispatch, draw | every line once, in order, before the next frame |
| **GUI mirror** (`gui/src/graphics/scene/`, `game/`) | copy of players, eggs, tiles; the way of each figure | apply lines, move figures | the copy agrees with the world |
| **GUI screens and cameras** (`Render.cpp`, `FirstPerson.cpp`, `PauseMenu.cpp`, `GameOverUI.cpp`) | mode, cursor, menu, followed player, first person | keys, buttons, clicks, deaths, frames | one owner of cursor and camera; never paused without a menu |
| **GUI arrangement** (`UIGridManager.cpp`, `UIGamePanel.cpp`) | places, links, heights, scroll | drag, resize, stack, fold, save, restore | panels never cover each other, and come back where they were |
| **GUI panels** (`gui/src/ui/menus/`) | what inspectors, statistics and log show | lines, answers, clicks, the speed slider | they agree with the world once all is heard |
| **GUI settings** (`SettingsMenu.cpp`, `SettingsManager.cpp`) | settings, volumes, video mode, file | change, mute, bind, confirm, revert, save | what is set is what is heard, shown and saved |
| **GUI sound** (`AudioManager.cpp`) | active sounds, volumes, frequency, listener | play, renew once per frame, end | heard from where the camera is, never too loud |
| **GUI drawing** (models, textures, text) | none | draw | - |

### How they interact

The server is one thread. `Core::loop` (`Core.cpp:81-117`) repeats a turn:

1. `pollNetwork` waits for the network, no longer than until the next tick at which some
   player does something (`World::getNextExecutionTick`), and for ever if nobody lives. It
   reads and writes sockets and appends CONNECTED, RECEIVED and DISCONNECTED events to a queue.
2. `processGameTick` calls `World::update` once per elapsed time unit; that calls
   `Player::update` of every living player in the order of a hash table.
3. `processNetworkEvents` handles the queue: handshakes, commands for players, queries
   of spectators, disconnections.
4. `flushPlayerResponses` sends each player's answers and removes the dead;
   `flushGuiResponses` sends the pending events to the spectators.

An exception anywhere in the turn is logged and the turn is over (`Core.cpp:113-115`).
Players act on each other only through the world: an eject moves others, a broadcast adds to
their answers, a ritual freezes and raises those it lists. AI and GUI clients are processes of
their own behind the socket.

An AI has two threads of its own next to the one that plays: one reads lines and sorts them into queues,
one sends commands and pairs answers with them (`Connection.py`). The playing thread goes round a state
machine (`FSM.py`) that waits for the answer to each command; players know of each other only what
they broadcast. The spectator's program is one thread: it dispatches every complete line to the mirror,
the panels, the log and the screens, in the order they subscribed, and then draws a frame. Its queries are
answered at once, ahead of events that wait for the flush.

### What is hard

There are no locks and no threads in the server, so its difficulties are those of a single
loop with many parties: operations that edit several tables in a row; commands that start now
and end many ticks later, in a world changed meanwhile; two places that start commands
and three that answer them; a sleep computed from what players are going to do; an event queue
that names clients by descriptors the kernel reuses; buffers with limits; and exceptions
that abandon a turn half way. On the clients' side they are those of copies and guesses: answers without
numbers, events that a snapshot or an answer overtakes, bearings that are old when they are used, frames
that fall between lines, and several handlers for one click. `PROJECT.json` lists each such hazard at its line, with the
properties that look at it.

## Modules

| Module | Models | Extended or instantiated by |
|---|---|---|
| `World` | teams, slots, eggs, positions, tiles, spectator events | `MCWorld`, `WorldProofs` |
| `Player` | one player under the tick cycle, the others as its environment | `MCPlayer`, `PlayerProofs` |
| `Elevation` | abstract: what rituals promise | `Incantation` (refinement) |
| `Incantation` | rituals of several players within the passes of `World::update` | `MCIncantation`, `IncantationProofs` |
| `Server` | Core's turns over SessionManager's connections | `MCServer`, `ServerProofs` |
| `Resources` | items on the ground and in bags, respawn, end of the game | `MCDrivers`, `ResourcesProofs` |
| `GameLoop` | the clock of `Core::loop`, `sst` | `MCDrivers`, `DriverProofs` |
| `Geometry` | the torus: moves, Look's tiles, a broadcast's direction | `Steering` |
| `CommandPipe` | abstract: what an AI relies on for its answers | `Connection` (refinement) |
| `Connection` | `Connection.py`: three threads, one stream | `MCDrivers`, `DriverProofs` |
| `AITeam` | the state machines of a team and their broadcasts | `MCDrivers` |
| `Steering` | one AI's way to a tile or to its leader | `MCDrivers`, `DriverProofs` |
| `Spectator` | the world, what it announces, and the display's copy of it | `MCGui` |
| `Protocol` | what Emitter writes and Parser reads | `LineStream` |
| `LineStream` | from the socket's bytes to dispatched lines and frames | `MCGui`, `DisplayProofs` |
| `Motion` | how a figure travels | `MCGui`, `DisplayProofs` |
| `Screens` | cursor, cameras, menus, modes | `MCGui`, `DisplayProofs` |
| `Layout`, `Stacking` | the grid of panels; their places frame by frame | `MCGui`, `ArrangementProofs` (`Stacking` extends `Layout`) |
| `Panels` | inspectors, statistics, log, speed slider | `MCGui`, `DisplayProofs` |
| `Settings` | menu, volumes, video mode, file | `MCGui`, `DisplayProofs` |
| `Sounds` | what is heard and from where, frame by frame | `MCGui`, `DisplayProofs` |
| `CommandLine` | getopt's walk, values, names and validation, of both programs | `MCDrivers`, `DriverProofs` |
| `WorldProofs`, `PlayerProofs`, `IncantationProofs`, `ServerProofs`, `ResourcesProofs`, `DriverProofs`, `DisplayProofs`, `ArrangementProofs` | theorems and their proofs | |

`MCWorld`, `MCPlayer`, `MCIncantation` and `MCServer` only give the constants their values;
`MCDrivers`, which also builds the command lines, and `MCGui` put parts that share no variable into one run each: the variable `part` is chosen at the start, and
in a behaviour only that part moves. So a run costs the sum of its parts, not their product; where parts do
interact, the interaction is inside one module (`Spectator` holds the world and the display, `AITeam` the
whole team, `Connection` the server's side of the stream).

### World

One action per operation of the table: `SpawnPlayer`, `RemovePlayer`, `Forward`, `Turn`,
`Eject`, `LayEgg`, and the flush of the events. Each action is the whole call: for instance
`Eject` moves every other player of the tile (`_playerList` and both tile lists),
destroys the eggs of the tile in `_vecEggs` and on the tile, and appends `ppo`, `edi` and `pex`
in the order of the code. Sets stand for the id vectors on tiles and teams, because the code
only appends, erases and searches; a run of messages one call emits is one event
with the set of what it says. `teamSlots` is an integer, so that the unsigned wrap of
`availableSlot` would show as a negative number. The first eggs lie on any tiles, and their
number and order follow `setSpawnEggs`, a name given twice included.

### Player

One action per call that reaches the player: `PushCommand` (with the start of the command when
the player is idle), `Hear`, `Enroll` and `Release` (the rituals of others), `Responses`, and one
action per way through `Player::update`: `UpdateStarve`, `UpdateFrozen`, `UpdateWait`,
`UpdateExecute`, `UpdateThrow`, `UpdateIdle`. Commands are numbered as they are accepted and an
answer carries the number of its command, so that the order of answers can be stated.
Six kinds stand for the thirteen commands: those that differ in how they start and answer.
Whether the tile allows a Take or a ritual is left open. `DrainQueue` is the loop of
`tryStartNextCommand`, as the set of its outcomes. A command that throws
(`getCondition().at(level - 1)` at the last level) is modelled as the code leaves it: current,
with no ticks, throwing again at every update. History variables: `accepted` and `flushed`
number commands and answers, `due` is the clock's own count of the ticks left.

### Elevation and Incantation

`Incantation` keeps for each player its ritual (whom it lists, the updates left), who is
frozen, levels, positions, and stones of one kind. `World::update` is not atomic here: `BeginPass` lists
the living players in `todo`, and one `Visit` per player follows, in any order, since
the code walks a hash table and visits change what later visits see. Messages come
between passes (`StartMidTick`, `RemovePlayer`). The selection by food in
`trySelectParticipantsByFood` is any set of the right size that holds the leader. An exception under a
visit empties `todo`, as it leaves `World::update`. The end of a pass that no exception has left is `checkGameEnd`; after a
victory no pass begins, and the rituals under way stay as they are (`isGameEnd`, an exception of `RitualsEnd`).

`Elevation` has four variables and says what a ritual promises: a level is gained only
with the stones a player's own level asks for taken from its own tile, by everyone
listed and by one level at most. `ElevationIsEarned` is that specification with the variables of
`Incantation` put for its own.

### Server

`phase` says where the turn is; every step of it is an action, and so is the handling of one
event. Connections are numbered as they are accepted; `client[f]` is the connection open on
descriptor `f`, and a player is numbered by the connection that hatched it, so that a descriptor
used by two connections in turn can be told apart although the code cannot. All messages have size
one. `SendThrows` is a write buffer at its limit: the client is disconnected, an event is queued,
and the exception ends the turn after any subset of the other clients was served (the code walks a
hash table). What a tick does to players is the environment: it answers, adds, kills or throws.

### Resources

A command looks when it starts and acts when it ends; `UpdatePlayer` is one player's visit in
`World::update` and may end the current command, start the next, feed or starve the player, while
`Ask`, `Join` and `Leave` come between the calls. Bags go with the players who leave. `made` is the ledger: what
`addItemsToMap` put down less what was eaten, burnt or carried away. A ritual at the last level throws
at start and at every update after it, which leaves the rest unvisited and `checkGameEnd` uncalled
(`past.cut`). When a command ends, and who is frozen, is decided in `Player` and `Incantation`; here it may
happen at any visit.

### GameLoop

Of the world only the ticks until something happens are kept (`due`). `Top` computes the timeout, `PollNetwork` sleeps
at most that long, `WorldUpdate` is one turn of the catch-up loop, `Events` the handling of the network,
which takes time itself, at most `HandlingTime` in a turn, and may change the frequency. The time unit is rounded down as in the code.

### Connection and CommandPipe

One action per critical section: the reader takes one line (`ReadAnswer`, `ReadLevel`, `ReadMessage`, ...), the
sender sends what the window allows or pairs the oldest answer with the oldest request, the caller hands in
commands, fetches answers or stops waiting, which changes nothing: the answer stays under its number. The server's
side keeps the commands it has not answered and the ritual its player is in. What the rituals of others send
("ko" to participants of a failed one, "Current level" while an own Incantation waits) looks like an
answer and is one to the reader: these are the strays. `CommandPipe` says that answers come in order and each to its
own command until a stray comes, and afterwards at least in order; `AnswersArePaired` is that
specification with `Connection`'s variables put for its own.

### AITeam and Steering

A turn of `FiniteStateMachine.run` is a step that processes any number of the broadcasts on their way and sends its own.
`Free` stands for the three states that neither remember nor tell anything. Where the stones of a ritual are (`laid`: in the bag, down on the tile, left there for good)
is kept apart from the flag `stones_placed` by which the AI remembers them: `StonesComeBack` compares the two, and names the three ways in which stones stay behind. `Steering` carries out the orders of
`move_to_tile` and `move_one_step_toward` one by one, with ejections and new calls of the leader in between, on what `Geometry` says
Look and Broadcast report.

### Spectator, Protocol, LineStream, Motion

`Spectator` has on its left the world with the events each operation announces, on its right the handlers of `PlayerManager`,
`TileManager` and `WorldManager`; `Apply` is what a line does to the display. Its properties compare the world with what the
display will show when everything under way has been applied (`Caught`), so they are invariants and need no
fairness. The eggs of the display are a bag, since `Team::addEgg` appends without looking, and `EggsCatchUp` names the eggs a late joiner is told of twice. `past` is history: whether the snapshot came in step with the events, before the first egg, and so on, to name the cases in which
the code's display stays wrong. `Protocol` has one table for the writer and one for the reader, taken from different functions.
`LineStream` cuts the stream anywhere; `link` says whether the connection is open, closed by the server or broken, and a `recv` that fails hides for one frame whatever is buffered. `Motion` moves a figure by thirds of a tile.

### Screens, Layout, Stacking, Panels, Settings

`Screens` goes through the phases of `Render::update` in order, so that what the keyboard did is seen by the buttons and what
these did by the scene. `Layout` is the logical grid: `Press`, drags and resizes with the push of whole stacks, `ApplyLayouts` for the restart.
`Stacking` is what a frame makes of it: heights approach their targets, and every linked panel takes its place from
the one above, one link per frame. World control has an update of its own (`Lock`): it is pinned to the bottom of the screen and draws nobody along. `Panels` hears the same lines as the mirror, in the same order, and the answers
to its own queries (`pin`, `plv` and `ppo` of a player, `bct` of a tile). On the server's side players walk, eat, take and set food, hold rituals and starve, and another
spectator sets the speed, which is told to all; the hearts fade from frame to frame (`Fade`), half a heart at a time, and `fell` counts what has faded since the last line about the food. `Settings` covers the menu from a slider to the file, with a write that may fail.

### Sounds

A frame is `ReadLines`, in which sounds begin, `EscapeKey` and `MovePlayers`, the user's clicks, `UpdateView`, which moves the
camera and the listener after it unless the world is paused, and `UpdateAudio`, which renews what raylib was told of each sound. The scene is a line
the camera looks across one way or the other; volumes are in thirtieths and scaled by the square of the range, so that the falling off
of `spatialVolume` stays in the integers; a vector of sounds is a set of slots, since their order says nothing. The first frame lies before
the initial state: a world paused in it is heard from the origin until it goes on.

### CommandLine

An argument is a word, or a flag with what is written against it. `NextOption` is getopt's step over what it permutes, `MultiArgs` the names
`getMultiArgs` takes from the copy of the arguments made before, moving `optind` past them. Numbers are read as `std::stol` does, then cut to the width
of an int and of a port; the widths are constants, because TLC's own integers have 32 bits.

## Runs

| Run | Question | Answer |
|---|---|---|
| `world` | Do the tables stay consistent whatever the order of hatching, moving, ejecting, forking and leaving? Are moves announced? | yes |
| `world_twins` | Are there never more players in a team than slots (`README.md:76`)? | no, if a team name is given twice |
| `player` | Is every command answered once, in order, in its time? Is life conserved? May Core sleep as long as it does? | yes |
| `player_last_level` | Does every accepted command start or get an immediate "ko" (`docs/server/game_engine.md:39-40`)? | no, an Incantation at level 8 |
| `incantation` | Do overlapping rituals implement `Elevation`? Is everyone frozen accounted for? Do rituals end? | yes, with the exceptions the properties name |
| `incantation_freeze` | Can two rituals block each other? | yes |
| `server` | With exceptions anywhere, do clients and players match, are reused descriptors safe, do the departed leave? | yes |
| `drivers` | Do ticks come in time? Do items add up, are victories seen? Are answers paired (refinement of `CommandPipe`)? Do players get to their leader, do teams free themselves? Is an accepted configuration what its line says, and fit to play with? | yes, with the exceptions the properties name |
| `gui` | Does each part of the display agree with what it shows, whatever the order of lines, answers, frames, keys and clicks? Is every sound heard as it is from where the camera is? | yes, with the exceptions the properties name |
| `first_person` | Does first person look ahead in every frame (`docs/gui/rendering.md:102-103`)? | no, following goes on in it |
| `pause_menu` | Does the world stand still while the pause menu is visible (`docs/gui/rendering.md:88-92`)? | no, a click on the first-person button under the menu sets it going |
| `server_flush` | Is every answer flushed in the end (`docs/server/core.md:15`)? | no, after an exception with nobody left alive |

### Bounds

- `world`: a 3 x 2 torus (on the axis of length 2 opposite moves meet, on that of length 3 they do
  not), two teams of one egg each, ids up to `MaxId` = 3 so one fork, and `MaxPendingEvents` = 1: a
  call happens only when the spectators were told of the last one, which loses nothing, since no
  operation reads the events. Three players or eggs suffice for an eject that moves one player
  and destroys an egg of another team. The proofs remove these bounds.
- `player`: food lasts 4 ticks and commands 1, 2 or 3, so that eating and dying fall before, at and
  after the end of a command; a limit of 3 unanswered commands and 5 accepted in all, so the
  queue is full and refilled; one level to leave, so the last level is reached;
  `MaxBuffer` = 1 stops the messages of others, never answers; two rituals of others at once,
  because freezing twice and thawing once is possible.
- `incantation`: three players, the fewest for rituals of two and three players to overlap; two tiles;
  two levels to leave, so a level can be reached in passing; a ritual lasts one update, or two when it
  starts between passes, which is where an off-by-one would show. At most one stone on a tile:
  two rituals compete for it.
- `server`: two descriptors and three connections, so that a descriptor is reused while another client
  is there; buffers of one message, one unanswered command; a client sends only while fewer than
  `MaxQueue` = 3 events wait and none of them is a line of its own (`MaxLines` = 1), which
  keeps two lines of one client out of the same turn and nothing else.

- `drivers`: frequencies on both sides of the clock's resolution (4 units to a second; 5 Hz rounds to a unit of 0) and
  waits of up to 3 ticks; two players, two tiles, two kinds of items of which there is one each, so that both want the last
  one, two calls of `World::update` with a respawn in the second, one level to leave and two winners needed, so that a
  victory, a victory cut by an exception and life after the end all occur; a window of 2 commands (the code's is 10), 3
  commands in all and one stray line; a team of two, the fewest that can wait for each other, two levels to rise, each with the stones for one ritual,
  a timeout of 2 turns (the code's is longer; only that it exists matters); a 4 x 3 map with a short and a long way round on
  each axis; the events of a turn take at most `HandlingTime` = 2.
- sounds, in `gui`: two sounds at a time, of the world, whose pitch follows its command, or of a button (a sound of the world that follows the frequency alone has the pitch of the music), a map of three tiles with one of padding, full volume up to a distance of 1
  and none from 3 on, so that the camera passes both; three lines or clicks, enough for a sound, its silencing and a pause on top.
- command lines, in `drivers`: an int ends at 31 and a port at 15, sides are 2 to 4, at most 3 clients and 2 teams, and the words include numbers beyond each of
  these, so that a number is cut to 0, to a negative one and to a fitting one; all orders of the four parts a server needs, with one thing put anywhere.
- `gui`: for the mirror a 2 x 1 map, up to three operations or queries, before, during or after the snapshot, two teams, items at
  most one of a kind on a tile; for the stream reads of up to 3 bytes and lines of 1 or 2 bytes (`MaxLine`), so that a line comes in pieces
  and two come at once; two players to look at; four panels on a 4 x 7 grid with three presses of the mouse, enough to put a panel on a stack
  and shrink the one above; a stack of three panels listed from the bottom up, the worst order, with World control in the column beside it, placed above where it is pinned (a panel under World control is left to the proof); two changes of a setting
  among every kind of control; three events and clicks for the panels, two of a kind, half a heart to fade, and a snapshot at any moment, with or without a ritual under way; two orders for a figure on a 3 x 2 map, so that a wrap is interrupted.

Deadlock is not checked, since each of these systems may stop: a world may be extinct, a player
dead, and poll waits for ever when no client is left.

### Fairness

- `Incantation`: weak fairness of beginning a pass and of visiting. `Core::loop` never returns and
  `World::update` visits every living player unless an exception is thrown; that such an exception keeps
  players from their turn is what `Jammed` names in `RitualsEnd`. Players owe nothing.
- `Server`: weak fairness of the loop itself, which is one thread that goes on whenever poll returns;
  poll(-1) with nobody alive is not enabled, so nothing is assumed of it. Strong fairness of a tick that
  succeeds: `World::update` can throw only while a player whose command throws is alive, and such a
  player starves since its life is counted before its command. The network has no fairness at all.
- `GameLoop`: weak fairness of `WorldUpdate` and of leaving the catch-up loop: `processGameTick` is a loop that nothing outside can hold
  up. Nothing makes the network speak, and nothing is assumed of it.
- `AITeam`: weak fairness, for each player that lives, of a turn that processes all the broadcasts on their way (`beat` marks such a turn, since
  several outcomes of it may leave the state unchanged). `run` goes round as long as the player lives and what is broadcast arrives,
  because the server keeps it in the buffer of the receiver. Nobody is forced to have food, to find stones or to succeed.
- The parts of `gui` and the other parts of `drivers` have safety properties only.

## Proofs

Every theorem is about the specification a run checks, without the bounds of the run; each component has one inductive invariant, and the
properties follow from it. Beyond what a property says, each of them states the fact that the code relies on without saying so:

| Module | Theorems | What the invariant adds to the properties |
|---|---|---|
| `WorldProofs` | `WorldTypesCorrect`, `TilesCorrect` and `TeamsCorrect` with `IdsCorrect` (together `StructureCorrect`), `SlotsCorrect`, `HatchingCorrect`, `MovesCorrect` | nothing but each other: the tiles are right after a move only if no id stands for two things, a hatched player joins one team only if its id was no player's (`StructInv`); `SlotInv` adds that the counted sets are finite |
| `PlayerProofs` | `PlayerTypesCorrect`, `QueueCorrect`, `OrderCorrect`, `LifeCorrect`, `TimeCorrect`, `SleepCorrect` | the meaning of `cmdTick` (`CountdownInv`), the numbering of the queue (`NumberInv`), that the living have life left (`AliveInv`), and that what is answered so far is a run of numbers (`OrderInv`) |
| `ResourcesProofs` | `ItemsAndTheEnd` | of the items, that what lies on the ground and what is in the bags is what was made (`Balanced`); of the end, that whoever won is still there or counted among those who left (`UpdateInv`) |
| `DriverProofs` | `ClockCorrect`, `CommandLineCorrect`, `CommandLineMeaning`, `OrdersLeadThere`, `PairingCorrect` | how far time may be ahead of `nextTickTarget` at each step of a turn, and until when poll sleeps (`PunctualInv`, `WakeInv`); the types of what has been read so far (`ConfigInv`), and that each setting is what the arguments before `optind` say (`ReadSoFar`); where the orders still to be carried out would lead from here (`TileInv`, `JoinInv`); of an AI's connection, that nothing is held before the handshake is over, a number stands for one command wherever it is kept, and a line about a level that answers something answers an Incantation (`PairingInv`) |
| `IncantationProofs` | `RitualTypesCorrect`, `FreezingCorrect`, `ElevationCorrect` | whoever leads a ritual is listed by it (`LeadersAreListed`) |
| `ServerProofs` | `ServerTypesCorrect`, `PlayersCorrect`, `DepartureCorrect`, `CommandsCorrect` | the order of the event queue: the events of a descriptor come connection after connection (`Ordered`), none from before its player (`Behind`) or after the open one (`Latest`), and what a closed connection said is followed by its disconnection (`Followed`) |
| `DisplayProofs` | `MotionCorrect`, `ScreensCorrect`, `SettingsCorrect`, `SoundsCorrect`, `LinesCorrect`, `PanelsCorrect` | that a figure is on the map wherever a line finds it (`BodyInv`); a closed menu has written its file (`WrittenInv`) and the window shows the mode while it waits (`ModesAgree`); a sound without a place always has the volume of the moment (`SoundOK`) and nobody pauses once the camera has moved (`ViewInv`); what is buffered and on its way are the lines from the first that is not dispatched to the last that was sent, each up to its end (`WholeLines`); what a panel shows of a thing is right, or will be by the last line on its way about it, or has been asked for (`PanelsInv`) |
| `ArrangementProofs` | `LayoutCorrect` | of the grid, that a panel that is carried waits where it was, and that while one is stretched the grid is the one of the press but for that panel and the stack below it, pushed as far as it has grown (`HandInv`); of the frames, that after so many calm ones each panel is in place that has no more panels higher on the grid (`PlacesInv`); of the log, that its panel has room for rows (`LogInv`) |

Two of these theorems are refinements. `ElevationCorrect`: every visit, start and removal of `Incantation` maps to a step of `Elevation` or to none; one lemma for each
way a ritual ends, and the stones taken are those the players' own levels ask for because the leader is one of the listed. `PairingCorrect`:
`Connection` implements `CommandPipe`; its abstract state is computed from what the three threads hold (`InOrder` puts the answers read, on the way and owed in one line with the requests).
Five of the proofs are about data of any size, where the property of a sum, a square of tiles, a line or a queue is not settled by one step. `ItemsAndTheEnd` never computes the sums:
items are counted by the cardinality of the set of `Units`, pairs of a place or a bag and a number, so that an item moved is an element
exchanged. `OrdersLeadThere` needs the arithmetic of the torus (`ModSum`), the row of a tile's number in a Look (`RowOfIs`, by the squares), the tiles Look lists row after row
(`LookIs`), and that the sector in which a call is heard tells a step that comes nearer (`SectorTells`, `StepCloser`), over the edges of the map too. `PanelsCorrect` is about three queues (lines due, lines sent, questions asked) of any length: it only speaks of the first and the last line of a kind in a
sequence (`FirstIn`, `LastIn`), of none (`Silent`) and of one that comes after another (`OnlyAfter`), and what holds of `s \o t` follows from `s` and `t` (`Concatenated`);
so neither of them has to be folded. An event goes to the end of what is due and is the last line about its thing (`DueKeeps`); an answer goes between sent and due,
where it is right, or a later line is (`ServeKeeps`); the snapshot repeats what is due (`SnapshotKeeps`). What the scanner tells needs a fact about the server: where no ritual is stray, at most one goes on, with its leader on the tile (`RitesInv`). Where a recursion is reasoned about
(`FlattenIs`, `RowExists`), it is by the least counterexample. `LinesCorrect` has the lines come through whole for every cut of the stream; that each is then read as it was written (`AllArrive`) is a formula
about the two tables of `Protocol` without any variable, which TLC evaluates, and the theorem takes it as the premise of that part.
`LayoutCorrect` is about folds over the list of panels (`ApplyLayouts`, `ResizeStack`, `Frame`). `FoldRuns` turns a fold into a run in which each panel has its turn
(`Passes`), provided the step stays in some set; what a turn does (`Turn`, `TurnPlaces`) is then carried from turn to turn. The list may have the panels of a stack in any order, so a
frame need not bring all of them into place: it brings those one link further down (`FramePlaces`), counted by the panels that stand higher (`Rank`), whence the
frame for each link. How far a panel is drawn up, the recursion in `PanelsSettle`, exists because panels above have lower rows (`DrawnUpExists`) and is unique by the least counterexample (`DrawnIs`).
`RepliesInOrder` is stated with a run of numbers (`AnswersRun`), not by filtering a sequence, so that it can be reasoned about.

The proofs go by action: one lemma for each that changes something, under it a step for each conjunct it can disturb. What actions
share is a lemma of its own: `MoveAllStruct` for the tiles under Forward and Eject, `DrainQueueKeeps` for the loop of `tryStartNextCommand`, and in `ServerProofs`
`QueueInv` of any queue, connections and players, so that an action can be taken apart into the steps it makes on them.

They assume the named assumptions on the constants and nothing else; TLC evaluates these in the runs:

- `WorldAssumption`: a map of at least one tile, team names a sequence. `DistinctTeamNames` is a hypothesis of `SlotsCorrect` alone, and necessary, as `world_twins` shows.
- `PlayerAssumption`: a unit of food lasts at least a tick, the queue holds at least one command, and exactly Connect_nbr and unknown words take no time.
- `IncantationAssumption`: rituals need players, stones are counted, a ritual takes time.
- `ServerAssumption`: finitely many descriptors, and limits above 0.
- `GameLoopAssumption`: frequencies above 0 and a turn whose events take at most `HandlingTime`. That the program has such a frequency and a map of at least one tile is `CommandLineCorrect`.
- `ConnectionAssumption`: a window of at least one command.
- `MotionAssumption`: a map of at least one tile. `SettingsAssumption`: the settings of the model are among those that are saved. `SoundsAssumption`: volumes, frequencies and distances are natural numbers.
- `LayoutAssumption` and `DefaultsAccepted`: the default rectangles are accepted by `addPanel`. `StackingAssumption`: the panels stand on the grid, at least two of them, and each is linked to at most one above and one below; `LinkedOneToOne`
  proves that of panels that are apart and at least two rows high, and no drag makes one lower than that (`handleMouseDrag`). `LogHasRoom` is a hypothesis of `LayoutCorrect` alone, and necessary: the panel of the log is higher than its header and margin.
- `PanelsAssumption`: two players at the start, finitely many, frequencies above 0, and a log of at least one row.
- `CommandLineAssumption`: the widths are above 0; nothing is assumed of the lines.
- `ResourcesAssumption`: at least one tile, finitely many tiles and players, and counts that are natural numbers. `SteeringAssumption`: a map of at least one tile. `StreamAssumption`: the sizes are natural numbers.

Only model-checked:

- All liveness (`RitualsEnd`, `DepartedAreRemoved`, `CatchUpEnds`, `TeamSortsItselfOut`): the prover does not do fairness.
- `Spectator`: its properties speak of what the display shows when everything under way has been applied, a fold over lines.
- `AllArrive` of `Protocol`, a premise of `LinesCorrect`: a computation over its tables.
- `AITeam`: `TeamSortsItselfOut` is liveness but for its first part, `StonesComeBack`.

## What the checks found

- A team name given twice gets twice its eggs and one set of slots; `availableSlot` wraps.
- At level 8, Incantation throws out of `start` with the command already current: no answer,
  and every later `World::update` throws for as long as the player lives.
- Two leaders on a tile can freeze each other; neither ritual ever completes.
- An exception skips the flushes of its turn; if nobody lives then, the answers wait in poll(-1).
- In first person every frame still ends with the camera pointed by following.
- A button under the pause menu hears clicks too: the inspector's takes the user to first person and sets the world going, the menu still there.

Each is a run of its own, and a finding in `PROJECT.json` with the sentence of the docs it contradicts.

Smaller things met on the way, where no document promises otherwise; the properties name them as exceptions:

- A leader raised by another's ritual while its own is running completes its own for the level it has by then: the stones are checked
  anew, the number of players is not.
- After a victory `World::update` returns at once: rituals under way never end, and their players stay frozen.
- After a Take the display shows one item too few on the tile until its next `bct`; a query answered at the wrong
  moment moves that to another tile.
- A spectator that joins late shows eggs of the snapshot under shares it guesses, and misses the levels of rituals
  begun before. The events still waiting when it joins are sent to it after the snapshot. If they hold the `enw` of an
  egg, the mirror has that egg twice until it hatches, since `Team::addEgg` appends without looking. If they hold the `pic` of a
  ritual whose leader was removed before the join, that ritual stays on its tile in the mirror, and the next `pie`
  there raises the players of a ritual that never ended. `LevelsCatchUp` excepts it (`past.clear`): runs of
  `Spectator` alone with seven operations reach it, those of `MCGui` do not.
- A `pin` that overtakes a `ppo` moves a player without seating its old tile mates anew; the `pin` of a meal leaves the phiras out.
- `eject: north` never matches the AI's pattern for a bearing in digits and is taken for an answer; so is the "ko" a failed ritual sends
  its participants. Such a shift lasts until the two sides are in step again.
- A sound that was saved is not given to the audio system at the next start until a volume is touched.
- Closing an inspector by its cross folds it too, so it opens folded the next time. A folded panel lets a wider one be drawn
  up over its neighbour.
- When `recv` fails, `tryPopMessage` swallows the exception and finds nothing: one frame is drawn while received lines wait, and the next read
  finds the end. Lines still in the buffer at the end of the connection are never dispatched.
- The tile inspector's scanner keeps what it told of the tile before until a `pic` or `pie` names the new one. Where two rituals met on a tile, the end of
  either is shown as the end of both; a ritual whose leader died or was pushed away stays shown, or its end is shown elsewhere.
- The hearts fade at the speed told last by `sgt`: `AInspectorUI` does not hear `sst`, so they fade too slowly or too fast after a change of speed, until
  the next `pin` sets them right.
- A panel that the arrangement puts under World control is linked to it, but `WorldControlUI::update` draws nothing along: the panel stays where it is.
- An AI forgets the stones it laid for its own ritual when another ritual raises it, when it dies, and when the server refuses to give one back: they stay on the ground.
- A port of 70000 becomes 4464 without a word, since it is cut to 16 bits before it is checked; words that belong to no option are ignored; a team may have an
  empty name or the name of another; the messages say "smaller than 20" and "larger than 10" where 20, 10 and 42 are accepted. `LineMeansWhatItSays`
  takes the widths into account, so it does not call this wrong.
- The log can be made two rows high, which at 720 lines is its header and nothing else: no row is in sight then.
- Escape in the middle of a drag leaves the next press unchecked; sixty units of food look like fifty.
- A frequency above 1000 makes the time unit 0 ms: `World::update` is then called for ever within one turn.
- With a player at the last level that asks for another ritual, the victory of a team is not announced while that player's exception
  comes before `checkGameEnd`.

### Sentences of the docs the code does not follow, without a run of their own

- `docs/gui/audio.md:20`: instances of a sound can get a random shift of the pitch. `AudioManager` sets the pitch from the sound and the frequency alone; `SoundsHold` states that one.
- `docs/gui/core.md:52`: positions of active sounds are updated once per frame. A sound stays where it began; only the listener moves.
- `docs/gui/world.md:26`: a death triggers an animation and then the removal. `PlayerManager` removes the player at `pdi` itself, and the mirror with it.
- `docs/ai/states/evolve.md:10` starts a ritual once the players are gathered; neither it nor any other document says what the number must be when the ritual ends (see above).

## Not modelled, and why

- Drawing (models, textures, text, shaders): no state of its own. Which event plays which sound, and hiding the interface as a whole.
- The wording of usage and errors of the command lines, and what libc's getopt prints itself.
- The wrappers of system calls other than `ClientSocket`'s reading: their results are inputs of `Server`'s poll.
- Sizes in bytes: buffers are counted in messages, so the snapshot of a map too large for a buffer is not seen.
- Of the AI: which resource is gathered first, what Look tells of the way there, and the map an AI draws of it.
- `World::clearAllResourcesAndEggs`, which only unit tests call.

## Plan

Theorems worth proving next: `StonesComeBack` of `AITeam`, which needs no fairness; and `PlayersCatchUp` (a part of `FolkCatchUp`) for one line at a time, as a simulation between the world's operations and the handlers.
