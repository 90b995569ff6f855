------------------------------ MODULE Screens ------------------------------
(***************************************************************************)
(* Who has the mouse, the camera and the keyboard of a spectator           *)
(* (gui/src/graphics/Render.cpp, FirstPerson.cpp, gui/src/ui/menus/        *)
(* PauseMenu.cpp, GameOverUI.cpp and the target of PlayerInspectorUI.cpp). *)
(*                                                                         *)
(* A frame goes through its phases in the order of Render::update.  Every  *)
(* visible component hears of a click, so one that hits a button of the    *)
(* pause menu may hit the panel under it as well: a phase each.            *)
(***************************************************************************)
EXTENDS Integers, FiniteSets

CONSTANT Watched    \* the players a spectator may look at, by id

VARIABLES
    living,     \* the players WorldManager knows
    uiMode,     \* Render::_uiMode
    updateMode, \* Render::_updateMode
    cursor,     \* the cursor is free
    pauseMenu,  \* visible, and whether the settings are shown
    config,     \* the grid of panels is in configuration mode
    gameOver,   \* GameOverUI is visible
    eyes,       \* FirstPerson::_playerId
    follow,     \* Render::_followedPlayerId
    inspector,  \* PlayerInspectorUI: visible, target, and visible before configuration
    aim,        \* who pointed the camera last
    hot,        \* the cursor was free when the buttons were updated
    phase,      \* where the frame is
    late        \* history: the game is over and the cursor has not been seen to since

screenVars == <<living, uiMode, updateMode, cursor, pauseMenu, config, gameOver, eyes,
                follow, inspector, aim, hot, phase, late>>

NoPlayer == -1

ScreensInit ==
    /\ living = Watched
    /\ uiMode = FALSE /\ updateMode = "All" /\ cursor = TRUE
    /\ pauseMenu = [visible |-> FALSE, settings |-> FALSE]
    /\ config = FALSE /\ gameOver = FALSE
    /\ eyes = NoPlayer /\ follow = NoPlayer
    /\ inspector = [visible |-> FALSE, target |-> NoPlayer, before |-> FALSE]
    /\ aim = "free" /\ hot = FALSE /\ phase = "network" /\ late = FALSE

In(name, next) == phase = name /\ phase' = next

\* Render::updateCursorState, after everything else the step changes.
UpdateCursorState ==
    /\ cursor' = (eyes' # NoPlayer \/ pauseMenu'.visible \/ gameOver' \/ uiMode')
    /\ late' = FALSE

SameCursor == UNCHANGED <<cursor, late>>

\* UIButton::update: under a captured cursor no button is hovered; ::handleEvent goes by
\* what update has seen, even if the cursor has been captured or freed since.
ButtonsLook == hot' = cursor'
Clickable == hot

-----------------------------------------------------------------------------
(* The inspector, whose clicks and closing steer the camera.               *)

\* events::PlayerClicked, as the inspector and Render hear it.
ClickPlayer(id) ==
    /\ inspector' = [inspector EXCEPT !.visible = TRUE, !.target = id]
    /\ follow' = id

\* PlayerInspectorUI::setVisible(false): PlayerUnselected, then no target.
HideInspector_KeepsFollowing(before) ==
    /\ inspector' = [visible |-> FALSE, target |-> NoPlayer, before |-> before]
    /\ UNCHANGED follow

HideInspector(before) ==
    /\ inspector' = [visible |-> FALSE, target |-> NoPlayer, before |-> before]
    /\ follow' = IF inspector.target # NoPlayer THEN NoPlayer ELSE follow

\* UIGamePanel::setConfigMode: every panel is shown, then as it was before.
EnterConfig ==
    /\ config' = TRUE
    /\ inspector' = [inspector EXCEPT !.visible = TRUE, !.before = inspector.visible]
    /\ UNCHANGED follow

LeaveConfig ==
    /\ config' = FALSE
    /\ IF inspector.before THEN UNCHANGED <<inspector, follow>> ELSE HideInspector(FALSE)

\* Map::handleRequestCyclePlayer: by id, from the first when the target is gone.
Neighbour(id, dir) ==
    LET rank(j) == Cardinality({k \in living : k < j})
        n       == Cardinality(living)
        here    == IF id \in living THEN rank(id) ELSE 0
    IN CHOOSE j \in living : rank(j) = (here + dir) % n

-----------------------------------------------------------------------------
(* The phases of a frame.                                                  *)

\* Client::update, before the frame: players die, the game ends ("seg").
Network ==
    /\ In("network", "escape")
    /\ living' \in SUBSET living
    /\ gameOver' \in {gameOver, TRUE}
    /\ late' = (late \/ (gameOver' /\ ~gameOver))
    /\ UNCHANGED <<uiMode, updateMode, cursor, pauseMenu, config, eyes, follow, inspector, aim, hot>>

\* A phase in which the user does nothing, or nothing is in reach.
Idle ==
    /\ \/ In("escape", "alt") \/ In("alt", "eyes")
       \/ In("over", "pause") \/ In("pause", "grid") \/ In("grid", "scene")
    /\ UNCHANGED <<living, uiMode, updateMode, cursor, pauseMenu, config, gameOver, eyes,
                   follow, inspector, aim, hot, late>>

EscapeFirstPerson ==
    /\ In("escape", "alt") /\ ~pauseMenu.settings
    /\ eyes # NoPlayer /\ eyes' = NoPlayer
    /\ UNCHANGED <<living, uiMode, updateMode, pauseMenu, config, gameOver, follow, inspector, aim, hot>>
    /\ UpdateCursorState

EscapeConfig ==
    /\ In("escape", "alt") /\ ~pauseMenu.settings
    /\ eyes = NoPlayer /\ config
    /\ LeaveConfig
    /\ uiMode' = FALSE /\ updateMode' = "All"
    /\ UNCHANGED <<living, pauseMenu, gameOver, eyes, aim, hot>>
    /\ UpdateCursorState

EscapePause ==
    /\ In("escape", "alt") /\ ~pauseMenu.settings
    /\ eyes = NoPlayer /\ ~config
    /\ pauseMenu' = [visible |-> ~pauseMenu.visible, settings |-> FALSE]
    /\ updateMode' = IF pauseMenu.visible THEN "All" ELSE "PauseMenuOnly"
    /\ UNCHANGED <<living, uiMode, config, gameOver, eyes, follow, inspector, aim, hot>>
    /\ UpdateCursorState

HandleAltKey ==
    /\ In("alt", "eyes")
    /\ eyes = NoPlayer /\ ~config
    /\ uiMode' = ~uiMode
    /\ UNCHANGED <<living, updateMode, pauseMenu, config, gameOver, eyes, follow, inspector, aim, hot>>
    /\ UpdateCursorState

\* FirstPerson::update, then UIManager::update, where buttons look at the cursor.
UpdateFirstPerson ==
    /\ In("eyes", "over")
    /\ UNCHANGED <<living, uiMode, updateMode, pauseMenu, config, gameOver, follow, inspector>>
    /\ IF eyes # NoPlayer /\ eyes \notin living
       THEN eyes' = NoPlayer /\ UpdateCursorState /\ UNCHANGED aim
       ELSE UNCHANGED eyes /\ SameCursor /\ aim' = IF eyes # NoPlayer THEN "eyes" ELSE aim
    /\ ButtonsLook

Spectate ==
    /\ In("over", "pause") /\ gameOver /\ Clickable
    /\ gameOver' = FALSE
    /\ UNCHANGED <<living, uiMode, updateMode, pauseMenu, config, eyes, follow, inspector, aim, hot>>
    /\ UpdateCursorState

Resume ==
    /\ In("pause", "grid") /\ pauseMenu.visible /\ ~pauseMenu.settings /\ Clickable
    /\ pauseMenu' = [visible |-> FALSE, settings |-> FALSE]
    /\ updateMode' = "All"
    /\ UNCHANGED <<living, uiMode, config, gameOver, eyes, follow, inspector, aim, hot>>
    /\ UpdateCursorState

\* The button of the settings, and their Back.
ToggleSettings ==
    /\ In("pause", "grid") /\ pauseMenu.visible /\ Clickable
    /\ pauseMenu' = [pauseMenu EXCEPT !.settings = ~@]
    /\ UNCHANGED <<living, uiMode, updateMode, config, gameOver, eyes, follow, inspector, aim, hot>>
    /\ SameCursor

\* The world stays paused while the panels are arranged.
UIConfig ==
    /\ In("pause", "grid") /\ pauseMenu.visible /\ ~pauseMenu.settings /\ Clickable
    /\ EnterConfig
    /\ uiMode' = TRUE
    /\ pauseMenu' = [visible |-> FALSE, settings |-> FALSE]
    /\ UNCHANGED <<living, updateMode, gameOver, eyes, aim, hot>>
    /\ SameCursor

CloseInspector ==
    /\ In("grid", "scene") /\ ~config /\ inspector.visible /\ Clickable
    /\ HideInspector(inspector.before)
    /\ UNCHANGED <<living, uiMode, updateMode, pauseMenu, config, gameOver, eyes, aim, hot>>
    /\ SameCursor

CyclePlayer(dir) ==
    /\ In("grid", "scene") /\ ~config /\ inspector.visible /\ inspector.target # NoPlayer
    /\ living # {}
    /\ ClickPlayer(Neighbour(inspector.target, dir))
    /\ UNCHANGED <<living, uiMode, updateMode, pauseMenu, config, gameOver, eyes, aim, hot>>
    /\ SameCursor

\* The callback unpauses the world, even from under the pause menu.
RequestFirstPerson ==
    /\ In("grid", "scene") /\ ~config /\ inspector.visible /\ Clickable
    /\ inspector.target \in living
    /\ eyes' = inspector.target /\ aim' = "eyes"
    /\ uiMode' = FALSE /\ updateMode' = "All"
    /\ UNCHANGED <<living, pauseMenu, config, gameOver, follow, inspector, hot>>
    /\ UpdateCursorState

\* Keys and mouse move the free camera; around a followed player the mouse turns it.
\* Where it then is matters less here than who has put it there.
UpdateFreeCamera   == aim' = "free"
UpdateFollowCamera == aim' = "follow"

\* updateCameraState: a followed player draws the camera, one that is gone is let go.
CameraState ==
    IF follow # NoPlayer
    THEN IF follow \in living THEN UpdateFollowCamera /\ UNCHANGED follow
                              ELSE follow' = NoPlayer /\ UNCHANGED aim
    ELSE /\ UNCHANGED follow
         /\ IF ~uiMode /\ eyes = NoPlayer THEN UpdateFreeCamera ELSE UNCHANGED aim

Scene ==
    /\ In("scene", "network")
    /\ IF updateMode = "PauseMenuOnly" THEN UNCHANGED <<follow, aim>> ELSE CameraState
    /\ UNCHANGED <<living, uiMode, updateMode, pauseMenu, config, gameOver, eyes, inspector, hot>>
    /\ SameCursor

\* updateInteraction: the scene hears of a click that hits no component of the interface.
SceneHears == uiMode /\ eyes = NoPlayer /\ ~pauseMenu.visible /\ ~gameOver

SceneClick(id) ==
    /\ In("scene", "network")
    /\ updateMode = "All" /\ SceneHears
    /\ ClickPlayer(id)
    /\ aim' = IF follow \in living THEN "follow" ELSE aim
    /\ UNCHANGED <<living, uiMode, updateMode, pauseMenu, config, gameOver, eyes, hot>>
    /\ SameCursor

ScreensNext ==
    \/ Network \/ Idle
    \/ EscapeFirstPerson \/ EscapeConfig \/ EscapePause \/ HandleAltKey
    \/ UpdateFirstPerson \/ Spectate
    \/ Resume \/ ToggleSettings \/ UIConfig
    \/ CloseInspector \/ RequestFirstPerson \/ CyclePlayer(1) \/ CyclePlayer(-1)
    \/ Scene \/ (\E id \in living : SceneClick(id))

-----------------------------------------------------------------------------
(* Properties.                                                             *)

\* The camera follows the player the inspector shows, and nobody once it is closed
\* (docs/gui/rendering.md: "Follow mode stops when the Player Inspector UI is closed,
\* or when the followed player dies"); between the death and the end of the frame,
\* or as long as the world is paused, the follower still has the dead one's id.
FollowedIsInspected ==
    /\ follow # NoPlayer => inspector.visible /\ inspector.target = follow
    /\ inspector.target \in living => follow = inspector.target

\* The world stands still only under the pause menu or while panels are arranged:
\* no sequence of keys, buttons and deaths leaves it paused with nothing on the screen.
\* The converse does not hold (MenuPausesWorld).
PausedUnderMenu == updateMode = "PauseMenuOnly" => pauseMenu.visible \/ config

\* The cursor is free whenever something on the screen needs it; only the end of the
\* game comes up with a captured cursor, and stays out of reach until the next key.
CursorIsFree ==
    /\ uiMode \/ pauseMenu.visible \/ eyes # NoPlayer => cursor
    /\ gameOver => cursor \/ late

\* The three agree whatever the order of keys, clicks, deaths and the end of the game.
ScreensAgree == FollowedIsInspected /\ PausedUnderMenu /\ CursorIsFree

\* docs/gui/rendering.md: "While the pause menu is visible: ... _updateMode is PauseMenuOnly".
MenuPausesWorld == pauseMenu.visible => updateMode = "PauseMenuOnly"

\* docs/gui/rendering.md of first-person mode: "points camera in the player's rendered
\* direction" and "updates every frame so the camera follows movement and rotation".
FirstPersonLooksAhead == phase = "network" /\ eyes # NoPlayer => aim = "eyes"

=============================================================================
