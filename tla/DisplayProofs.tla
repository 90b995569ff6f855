---------------------------- MODULE DisplayProofs ----------------------------
(***************************************************************************)
(* Theorems about six parts of the display that share no state: how a      *)
(* figure travels (module Motion), who has the mouse, the camera and the   *)
(* keyboard (module Screens), what is set, heard, shown and saved (module  *)
(* Settings), from where a sound is heard (module Sounds), how lines come  *)
(* out of the stream of the socket (module LineStream), and what the       *)
(* panels make of them (module Panels).                                    *)
(***************************************************************************)
EXTENDS Motion, Screens, Settings, Sounds, LineStream, Panels,
        FiniteSetTheorems, WellFoundedInduction, SequenceTheorems, TLAPS

-----------------------------------------------------------------------------
(* Motion.  A figure rests at the centre of its tile; one under way is     *)
(* bound for there, or for the tile next to the edge with that centre to   *)
(* be put down at.  What the property lacks is that a figure that does not *)
(* leave the map is on it, wherever a line finds it: only from there does  *)
(* one tile more stay near.                                                *)

MotionSpec == MotionInit /\ [][MotionNext]_motionVars

OnIt(p) == p[1] \in 0 .. (Columns - 1) * TILE_SIZE /\ p[2] \in 0 .. (Rows - 1) * TILE_SIZE
Near(p) == p[1] \in -TILE_SIZE .. Columns * TILE_SIZE /\ p[2] \in -TILE_SIZE .. Rows * TILE_SIZE

BodyInv ==
    /\ moving \in BOOLEAN
    /\ ~moving => body = Centre(spot)
    /\ moving => Centre(spot) = IF wrapped = <<>> THEN future ELSE wrapped[1]
    /\ \/ wrapped = <<>> /\ OnIt(body) /\ OnIt(future)
       \/ moving /\ wrapped = <<Centre(spot)>> /\ Near(body) /\ Near(future)

FacingInv ==
    /\ facing \in 0 .. 3 /\ angle \in 0 .. 7 /\ turning \in BOOLEAN
    /\ ~turning => angle = AngleForOrientation(facing)

MotionInv == spot \in Cells /\ BodyInv /\ FacingInv

LEMMA CentreOnMap ==
    ASSUME NEW s \in Cells
    PROVE  OnIt(Centre(s))
<1>1. s[1] \in 0 .. Columns - 1 /\ s[2] \in 0 .. Rows - 1
  BY DEF Cells
<1>2. s[1] * TILE_SIZE \in 0 .. (Columns - 1) * TILE_SIZE /\ s[2] * TILE_SIZE \in 0 .. (Rows - 1) * TILE_SIZE
  BY <1>1, MotionAssumption DEF TILE_SIZE
<1> QED BY <1>2 DEF OnIt, Centre

LEMMA OnMapIsNear ==
    ASSUME NEW p, OnIt(p)
    PROVE  Near(p)
  BY MotionAssumption DEF OnIt, Near, TILE_SIZE

LEMMA WayIsShort ==
    ASSUME NEW s
    PROVE  WayOut(s) \in {<<-1, 0>>, <<1, 0>>, <<0, -1>>, <<0, 1>>, <<0, 0>>}
  BY DEF WayOut

\* A way out leads one tile further along one axis.
LEMMA OneTileOut ==
    ASSUME NEW p, OnIt(p), NEW way \in {<<-1, 0>>, <<1, 0>>, <<0, -1>>, <<0, 1>>, <<0, 0>>}
    PROVE  Near(<<p[1] + TILE_SIZE * way[1], p[2] + TILE_SIZE * way[2]>>)
<1>1. way[1] \in {-1, 0, 1} /\ way[2] \in {-1, 0, 1}
  OBVIOUS
<1>2. ASSUME NEW a \in Int, NEW w \in {-1, 0, 1}, NEW n \in Nat \ {0}, a \in 0 .. (n - 1) * 4
      PROVE  a + 4 * w \in -4 .. n * 4
  BY <1>2
<1> QED BY <1>1, <1>2, MotionAssumption DEF OnIt, Near, TILE_SIZE

\* Where the figure is when a line finds it: a wrap under way is completed.
LEMMA FoundOnMap ==
    ASSUME MotionInv
    PROVE  OnIt(Landed)
  BY CentreOnMap DEF MotionInv, BodyInv, Landed

LEMMA UpdatePositionKeeps ==
    ASSUME MotionInv, NEW s \in Cells, UpdatePlayerPosition(s)
    PROVE  spot' = s /\ BodyInv'
<1> DEFINE from == Landed
<1>1. OnIt(from) /\ OnIt(Centre(s))
  BY FoundOnMap, CentreOnMap
<1>2. body' = from /\ spot' = s
  BY DEF UpdatePlayerPosition
<1>3. CASE WayOut(s) # <<0, 0>>
  <2>1. SetWrappedFuturePosition(from, WayOut(s), Centre(s))
    BY <1>3 DEF UpdatePlayerPosition
  <2>2. Near(future')
    BY <1>1, <2>1, WayIsShort, OneTileOut DEF SetWrappedFuturePosition
  <2>3. moving' = TRUE /\ wrapped' = <<Centre(s)>> /\ wrapped' # <<>> /\ wrapped'[1] = Centre(s)
    BY <2>1 DEF SetWrappedFuturePosition
  <2> HIDE DEF from
  <2> QED BY <1>1, <1>2, <2>2, <2>3, OnMapIsNear DEF BodyInv
<1>4. CASE WayOut(s) = <<0, 0>>
  <2>1. SetFuturePosition(from, Centre(s))
    BY <1>4 DEF UpdatePlayerPosition
  <2> HIDE DEF from
  <2>2. future' = Centre(s) /\ wrapped' = <<>> /\ moving' = (from # Centre(s))
    BY <2>1 DEF SetFuturePosition
  <2> QED BY <1>1, <1>2, <2>2 DEF BodyInv
<1> QED BY <1>3, <1>4

\* The angles are eighths of a turn: no difference means the same angle.
LEMMA NoTurnLeft ==
    ASSUME NEW from \in 0 .. 7, NEW to \in 0 .. 7, ShortestAngleDelta(from, to) = 0
    PROVE  from = to
<1>1. (to - from) % 8 \in 0 .. 7
  OBVIOUS
<1>2. (to - from) % 8 = 0
  BY <1>1 DEF ShortestAngleDelta
<1> QED BY <1>2

LEMMA TurnKeeps ==
    ASSUME MotionInv, NEW d \in 0 .. 3, TurnToOrientation(d)
    PROVE  FacingInv'
<1>1. angle \in 0 .. 7 /\ AngleForOrientation(d) \in 0 .. 7
  BY DEF MotionInv, FacingInv, AngleForOrientation
<1>2. /\ facing' = d /\ angle' = angle
      /\ turning' = (ShortestAngleDelta(angle, AngleForOrientation(d)) # 0)
  BY DEF TurnToOrientation
<1> QED BY <1>1, <1>2, NoTurnLeft DEF FacingInv

LEMMA RotationKeeps ==
    ASSUME MotionInv, NEW e \in {1, 2}, UpdateRotation(e), facing' = facing
    PROVE  FacingInv'
<1>1. angle \in 0 .. 7 /\ AngleForOrientation(facing) \in 0 .. 7 /\ turning \in BOOLEAN
  BY DEF MotionInv, FacingInv, AngleForOrientation
<1>2. ~turning => angle = AngleForOrientation(facing)
  BY DEF MotionInv, FacingInv
<1>3. \A k \in Int : k % 8 \in 0 .. 7
  OBVIOUS
<1>4. (angle + e) % 8 \in 0 .. 7 /\ (angle + (-e)) % 8 \in 0 .. 7
  BY <1>1, <1>3
<1>5. facing \in 0 .. 3
  BY DEF MotionInv, FacingInv
<1> QED BY <1>1, <1>2, <1>4, <1>5 DEF UpdateRotation, FacingInv

\* A figure that goes from a towards b stays between them and goes no further than n.
LEMMA TowardStaysBetween ==
    ASSUME NEW lo \in Int, NEW hi \in Int, NEW a \in lo .. hi, NEW b \in lo .. hi, NEW n \in Nat
    PROVE  Toward(a, b, n) \in lo .. hi /\ n - Apart(Toward(a, b, n), a) \in Nat
  BY DEF Toward, Apart

LEMMA PhysicalKeeps ==
    ASSUME MotionInv, NEW n \in {1, 3}, UpdatePhysicalPosition(n), spot' = spot
    PROVE  BodyInv'
<1>1. OnIt(Centre(spot))
  BY CentreOnMap DEF MotionInv
<1>2. CASE ~moving
  BY <1>2 DEF MotionInv, BodyInv, UpdatePhysicalPosition
<1>3. CASE moving /\ Distance(body, future) <= n
  <2>1. /\ body' = (IF wrapped = <<>> THEN future ELSE wrapped[1])
        /\ future' = body' /\ wrapped' = <<>> /\ moving' = FALSE
    BY <1>3 DEF UpdatePhysicalPosition
  <2>2. body' = Centre(spot)
    BY <1>3, <2>1 DEF MotionInv, BodyInv
  <2> QED BY <1>1, <2>1, <2>2 DEF BodyInv
<1>4. CASE moving /\ ~(Distance(body, future) <= n)
  <2> DEFINE x == Toward(body[1], future[1], n)
             y == Toward(body[2], future[2], n - Apart(x, body[1]))
  <2>1. UNCHANGED <<future, wrapped, moving>> /\ body' = <<x, y>>
    BY <1>4 DEF UpdatePhysicalPosition
  <2>2. ASSUME NEW l1 \in Int, NEW h1 \in Int, NEW l2 \in Int, NEW h2 \in Int,
               body[1] \in l1 .. h1, future[1] \in l1 .. h1, body[2] \in l2 .. h2, future[2] \in l2 .. h2
        PROVE  body'[1] \in l1 .. h1 /\ body'[2] \in l2 .. h2
    <3>1. n \in Nat
      OBVIOUS
    <3>2. x \in l1 .. h1 /\ n - Apart(x, body[1]) \in Nat
      BY <2>2, <3>1, TowardStaysBetween
    <3> HIDE DEF x
    <3>3. y \in l2 .. h2
      BY <2>2, <3>2, TowardStaysBetween
    <3> QED BY <2>1, <3>2, <3>3
  <2>3. OnIt(body) /\ OnIt(future) => OnIt(body')
    <3>1. 0 \in Int /\ (Columns - 1) * TILE_SIZE \in Int /\ (Rows - 1) * TILE_SIZE \in Int
      BY MotionAssumption DEF TILE_SIZE
    <3> QED BY <2>2, <3>1 DEF OnIt
  <2>4. Near(body) /\ Near(future) => Near(body')
    <3>1. -TILE_SIZE \in Int /\ Columns * TILE_SIZE \in Int /\ Rows * TILE_SIZE \in Int
      BY MotionAssumption DEF TILE_SIZE
    <3> QED BY <2>2, <3>1 DEF Near
  <2>5. moving' /\ Centre(spot') = IF wrapped' = <<>> THEN future' ELSE wrapped'[1]
    BY <1>4, <2>1 DEF MotionInv, BodyInv
  <2>6. \/ wrapped = <<>> /\ OnIt(body) /\ OnIt(future)
        \/ moving /\ wrapped = <<Centre(spot)>> /\ Near(body) /\ Near(future)
    BY DEF MotionInv, BodyInv
  <2>7. \/ wrapped' = <<>> /\ OnIt(body') /\ OnIt(future')
        \/ moving' /\ wrapped' = <<Centre(spot')>> /\ Near(body') /\ Near(future')
    BY <2>1, <2>3, <2>4, <2>6
  <2> QED BY <2>5, <2>7 DEF BodyInv
<1> QED BY <1>2, <1>3, <1>4 DEF MotionInv, BodyInv

LEMMA MotionStep == MotionInv /\ [MotionNext]_motionVars => MotionInv'
<1> SUFFICES ASSUME MotionInv, [MotionNext]_motionVars PROVE MotionInv'
  OBVIOUS
<1>1. ASSUME NEW s \in Cells, NEW d \in 0 .. 3, Position(s, d) PROVE MotionInv'
  BY <1>1, UpdatePositionKeeps, TurnKeeps DEF Position, MotionInv
<1>2. ASSUME NEW s \in Cells, NEW d \in 0 .. 3, Connected(s, d) PROVE MotionInv'
  <2>1. BodyInv'
    BY <1>2, CentreOnMap DEF Connected, BodyInv
  <2>2. AngleForOrientation(d) \in 0 .. 7
    BY DEF AngleForOrientation
  <2>3. FacingInv'
    BY <1>2, <2>2 DEF Connected, FacingInv
  <2> QED BY <1>2, <2>1, <2>3 DEF Connected, MotionInv
<1>3. ASSUME NEW s \in Cells, Inventory(s) PROVE MotionInv'
  <2>1. FacingInv'
    BY <1>3 DEF Inventory, MotionInv, FacingInv
  <2> QED BY <1>3, <2>1, UpdatePositionKeeps DEF Inventory, MotionInv
<1>4. ASSUME NEW n \in {1, 3}, NEW e \in {1, 2}, Move(n, e) PROVE MotionInv'
  BY <1>4, RotationKeeps, PhysicalKeeps DEF Move, MotionInv
<1>5. CASE UNCHANGED motionVars
  BY <1>5 DEF motionVars, MotionInv, BodyInv, FacingInv
<1> QED BY <1>1, <1>2, <1>3, <1>4, <1>5 DEF MotionNext

\* On a map of any size, and however the lines about a player fall between the frames:
\* its figure comes to rest where the server last put it and looks where it looks, and
\* never strays further than a tile from the map.
THEOREM MotionCorrect == MotionSpec => []MotionSettles
<1>1. MotionInit => MotionInv
  <2> SUFFICES ASSUME MotionInit PROVE MotionInv
    OBVIOUS
  <2>1. BodyInv
    BY CentreOnMap DEF MotionInit, BodyInv
  <2>2. FacingInv
    <3>1. facing \in 0 .. 3 /\ angle = AngleForOrientation(facing) /\ turning = FALSE
      BY DEF MotionInit
    <3>2. AngleForOrientation(facing) \in 0 .. 7
      BY <3>1 DEF AngleForOrientation
    <3> QED BY <3>1, <3>2 DEF FacingInv
  <2> QED BY <2>1, <2>2 DEF MotionInit, MotionInv
<1>2. MotionInv => MotionSettles
  <2> SUFFICES ASSUME MotionInv PROVE MotionSettles
    OBVIOUS
  <2>1. RestsWhereItIs
    BY DEF MotionInv, BodyInv, FacingInv, RestsWhereItIs
  <2>2. Near(body)
    BY OnMapIsNear DEF MotionInv, BodyInv
  <2> QED BY <2>1, <2>2 DEF Near, StaysNear, MotionSettles
<1> QED BY <1>1, <1>2, MotionStep, PTL DEF MotionSpec

-----------------------------------------------------------------------------
(* Screens.                                                                *)

ScreensSpec == ScreensInit /\ [][ScreensNext]_screenVars

LEMMA ScreensStep == ScreensAgree /\ [ScreensNext]_screenVars => ScreensAgree'
<1> SUFFICES ASSUME ScreensAgree, [ScreensNext]_screenVars PROVE ScreensAgree'
  OBVIOUS
<1> USE DEF ScreensAgree, FollowedIsInspected, PausedUnderMenu, CursorIsFree, UpdateCursorState, SameCursor, In
<1>1. CASE Network
  <2>1. FollowedIsInspected' /\ PausedUnderMenu'
    BY <1>1 DEF Network
  <2>2. CASE gameOver' = TRUE /\ ~gameOver
    BY <1>1, <2>2 DEF Network
  <2>3. CASE ~(gameOver' = TRUE /\ ~gameOver)
    <3>1. gameOver' => gameOver
      BY <1>1, <2>3, Zenon DEF Network
    <3>2. late => late'
      BY <1>1, Zenon DEF Network
    <3> QED BY <1>1, <2>1, <3>1, <3>2 DEF Network
  <2> QED BY <2>2, <2>3
<1>2. CASE Idle
  BY <1>2 DEF Idle
<1>3. CASE EscapeFirstPerson
  BY <1>3 DEF EscapeFirstPerson
<1>4. CASE EscapeConfig
  <2>1. LeaveConfig /\ living' = living
    BY <1>4 DEF EscapeConfig
  <2>2. FollowedIsInspected'
    BY <2>1 DEF LeaveConfig, HideInspector
  <2>3. PausedUnderMenu'
    BY <1>4 DEF EscapeConfig
  <2>4. CursorIsFree'
    BY <1>4, Zenon DEF EscapeConfig
  <2> QED BY <2>2, <2>3, <2>4
<1>5. CASE EscapePause
  BY <1>5 DEF EscapePause
<1>6. CASE HandleAltKey
  BY <1>6 DEF HandleAltKey
<1>7. CASE UpdateFirstPerson
  BY <1>7 DEF UpdateFirstPerson
<1>8. CASE Spectate
  BY <1>8 DEF Spectate
<1>9. CASE Resume
  BY <1>9 DEF Resume
<1>10. CASE ToggleSettings
  BY <1>10 DEF ToggleSettings
<1>11. CASE UIConfig
  BY <1>11 DEF UIConfig, EnterConfig
<1>12. CASE CloseInspector
  BY <1>12 DEF CloseInspector, HideInspector
<1>13. CASE RequestFirstPerson
  BY <1>13 DEF RequestFirstPerson
<1>14. ASSUME NEW dir \in {1, -1}, CyclePlayer(dir) PROVE ScreensAgree'
  BY <1>14 DEF CyclePlayer, ClickPlayer
<1>15. CASE Scene
  BY <1>15 DEF Scene, CameraState
<1>16. ASSUME NEW id \in living, SceneClick(id) PROVE ScreensAgree'
  BY <1>16 DEF SceneClick, SceneHears, ClickPlayer
<1>17. CASE UNCHANGED screenVars
  BY <1>17 DEF screenVars
<1> QED BY <1>1, <1>2, <1>3, <1>4, <1>5, <1>6, <1>7, <1>8, <1>9, <1>10, <1>11, <1>12, <1>13, <1>14,
           <1>15, <1>16, <1>17 DEF ScreensNext

\* For every set of players to look at, and whatever the order of keys, clicks, deaths and
\* the end of the game: the camera follows the player the inspector shows, the world
\* stands still only under a menu, and the cursor is free when something needs it.
THEOREM ScreensCorrect == ScreensSpec => []ScreensAgree
<1>1. ScreensInit => ScreensAgree
  BY DEF ScreensInit, ScreensAgree, FollowedIsInspected, PausedUnderMenu, CursorIsFree
<1> QED BY <1>1, ScreensStep, PTL DEF ScreensSpec

-----------------------------------------------------------------------------
(* Settings.  What the property lacks: a closed menu has written its file, *)
(* and a mode that needs no confirmation is the one last confirmed.        *)

SettingsSpec == SettingsInit /\ [][SettingsNext]_settingsVars

Channels == {"musicVolume", "sfxVolume"}
Properties == ToSet(SaveProperties) \cup {"keybinds"}

ShapeInv ==
    /\ settings = [k \in Properties |-> settings[k]]
    /\ DOMAIN audio = Channels /\ given \in SUBSET Channels
    /\ revert.timer \in {"off", "early", "late"}

ConfirmedInv ==
    /\ DOMAIN accepted = {"mode", "hasty"}
    /\ revert.timer = "off" => accepted.mode = settings.displayMode /\ ~accepted.hasty

ModesAgree ==
    /\ dropdown.index = settings.displayMode
    /\ revert.timer # "off" => window = settings.displayMode

WrittenInv == ~shown /\ ~lost => file = Save(settings)

SettingsInv ==
    /\ ShapeInv
    /\ VolumesAsSet
    /\ OneButtonWaits
    /\ RevertsToAccepted
    /\ ConfirmedInv
    /\ ModesAgree
    /\ WrittenInv

LEMMA PropertyNames ==
    /\ {"masterVolume", "musicVolume", "sfxVolume", "muted", "displayMode", "keybinds"} \subseteq Properties
    /\ ToSet(LoadProperties) = ToSet(SaveProperties)
<1>1. ToSet(LoadProperties) = ToSet(SaveProperties)
  BY DEF LoadProperties, SaveProperties
<1>2. DOMAIN SaveProperties = 1 .. 17
  BY DEF SaveProperties
<1>3. {SaveProperties[1], SaveProperties[2], SaveProperties[3], SaveProperties[4], SaveProperties[5]}
        \subseteq ToSet(SaveProperties)
  BY <1>2 DEF ToSet
<1>4. /\ SaveProperties[1] = "masterVolume" /\ SaveProperties[2] = "musicVolume"
      /\ SaveProperties[3] = "sfxVolume" /\ SaveProperties[4] = "muted"
      /\ SaveProperties[5] = "displayMode"
  BY DEF SaveProperties
<1> QED BY <1>1, <1>3, <1>4 DEF Properties

\* Whatever their values, the settings are the properties that are saved.
LEMMA ChangingShape ==
    ASSUME NEW v, NEW muted, NEW mode, NEW binds
    PROVE  /\ DOMAIN Changing(v, muted, mode, binds) = Properties
           /\ Changing(v, muted, mode, binds) = [k \in Properties |-> Changing(v, muted, mode, binds)[k]]
<1> DEFINE f == Changing(v, muted, mode, binds)
<1>1. DOMAIN f = Properties
  BY DEF Changing, Properties
<1>2. f = [k \in Properties |-> f[k]]
  BY DEF Changing, Properties
<1> QED BY <1>1, <1>2

\* What was written is what comes back.
LEMMA SavedComesBack ==
    ASSUME settings = [k \in Properties |-> settings[k]]
    PROVE  Load(Save(settings), Defaults) = settings
<1>1. DOMAIN Defaults = Properties
  BY ChangingShape DEF Defaults
<1>2. Save(settings) = [k \in Properties |-> settings[k]]
  BY DEF Save, Properties
<1>3. Load(Save(settings), Defaults) = [k \in Properties |-> Save(settings)[k]]
  BY <1>1, <1>2, PropertyNames DEF Load, Properties
<1> QED BY <1>2, <1>3

\* A change of one property leaves the others and their names.
LEMMA OneChange ==
    ASSUME ShapeInv, NEW k \in Properties, NEW v, settings' = [settings EXCEPT ![k] = v]
    PROVE  /\ settings' = [j \in Properties |-> settings'[j]]
           /\ settings'[k] = v
           /\ \A j \in Properties \ {k} : settings'[j] = settings[j]
<1>1. DOMAIN settings = Properties
  BY DEF ShapeInv
<1> QED BY <1>1

\* Only three properties and muted are heard.
LEMMA SameLoudness ==
    ASSUME NEW c \in Channels,
           \A j \in {"masterVolume", "musicVolume", "sfxVolume", "muted"} : settings'[j] = settings[j]
    PROVE  Loudness(settings', c) = Loudness(settings, c)
  BY DEF Loudness, Channels

LEMMA GivenAsSet ==
    ASSUME ShapeInv, VolumesAsSet, NEW S \in SUBSET Channels, GiveVolumes(S),
           \A c \in Channels \ S : Loudness(settings', c) = Loudness(settings, c)
    PROVE  VolumesAsSet' /\ DOMAIN audio' = Channels /\ given' \in SUBSET Channels
<1>1. DOMAIN audio = Channels /\ given \in SUBSET Channels
  BY DEF ShapeInv
<1>2. /\ audio' = [c \in Channels |-> IF c \in S THEN Loudness(settings', c) ELSE audio[c]]
      /\ given' = given \cup S
  BY <1>1 DEF GiveVolumes
<1>3. ASSUME NEW c \in given' PROVE audio'[c] = Loudness(settings', c)
  BY <1>1, <1>2 DEF VolumesAsSet
<1>4. VolumesAsSet'
  BY <1>3 DEF VolumesAsSet
<1> QED BY <1>1, <1>2, <1>4

\* No volume is given, and nothing is heard that has changed.
LEMMA NotHeard ==
    ASSUME VolumesAsSet, UNCHANGED <<audio, given>>, given \in SUBSET Channels,
           \A j \in {"masterVolume", "musicVolume", "sfxVolume", "muted"} : settings'[j] = settings[j]
    PROVE  VolumesAsSet'
<1> SUFFICES ASSUME NEW c \in given' PROVE audio'[c] = Loudness(settings', c)
  BY DEF VolumesAsSet
<1>1. c \in given /\ c \in Channels
  OBVIOUS
<1>2. Loudness(settings', c) = Loudness(settings, c)
  BY <1>1, SameLoudness
<1> QED BY <1>1, <1>2 DEF VolumesAsSet

\* The mode that is set, shown, waiting and accepted is the same afterwards.
LEMMA SameModes ==
    ASSUME RevertsToAccepted, ConfirmedInv, ModesAgree,
           UNCHANGED <<revert, accepted, window>>, dropdown'.index = dropdown.index,
           settings'.displayMode = settings.displayMode
    PROVE  RevertsToAccepted' /\ ConfirmedInv' /\ ModesAgree'
  BY DEF RevertsToAccepted, ConfirmedInv, ModesAgree

\* A release confirms the mode after the first half second.
LEMMA ReleaseConfirms ==
    ASSUME ShapeInv, RevertsToAccepted, ConfirmedInv, ModesAgree,
           revert' = Confirmed, accepted' = Accepted, UNCHANGED window, dropdown'.index = dropdown.index,
           settings'.displayMode = settings.displayMode
    PROVE  /\ RevertsToAccepted' /\ ConfirmedInv' /\ ModesAgree'
           /\ revert'.timer \in {"off", "early", "late"}
<1>1. CASE revert.timer = "late"
  <2>1. revert' = [revert EXCEPT !.timer = "off"] /\ accepted' = [mode |-> settings.displayMode, hasty |-> FALSE]
    BY <1>1 DEF Confirmed, Accepted
  <2>2. revert'.timer \in {"off", "late"}
    BY <1>1, <2>1
  <2> QED BY <1>1, <2>1, <2>2 DEF RevertsToAccepted, ConfirmedInv, ModesAgree
<1>2. CASE revert.timer # "late"
  <2>1. revert'.timer = revert.timer /\ revert'.to = revert.to /\ accepted' = accepted
    BY <1>2 DEF Confirmed, Accepted
  <2> QED BY <2>1 DEF ShapeInv, RevertsToAccepted, ConfirmedInv, ModesAgree
<1> QED BY <1>1, <1>2

LEMMA OpenKeeps == SettingsInv /\ (Open \/ Rebuild \/ UNCHANGED settingsVars) => SettingsInv'
<1> SUFFICES ASSUME SettingsInv, Open \/ Rebuild \/ UNCHANGED settingsVars PROVE SettingsInv'
  OBVIOUS
<1>1. UNCHANGED <<settings, file, lost, audio, given, window, revert, accepted>>
  BY DEF Open, Rebuild, settingsVars
<1>2. /\ dropdown'.index = settings.displayMode /\ waiting' \in {waiting, {}}
      /\ shown' = shown \/ shown'
  BY DEF Open, Rebuild, settingsVars, SettingsInv, ModesAgree
<1>3. ShapeInv' /\ WrittenInv'
  BY <1>1, <1>2 DEF SettingsInv, ShapeInv, WrittenInv, Save
<1>4. VolumesAsSet'
  BY <1>1, NotHeard DEF SettingsInv, ShapeInv
<1>5. OneButtonWaits'
  BY <1>2 DEF SettingsInv, OneButtonWaits
<1>6. RevertsToAccepted' /\ ConfirmedInv' /\ ModesAgree'
  <2>1. dropdown'.index = dropdown.index
    BY <1>2 DEF SettingsInv, ModesAgree
  <2> QED BY <1>1, <2>1, SameModes DEF SettingsInv
<1> QED BY <1>3, <1>4, <1>5, <1>6 DEF SettingsInv

LEMMA CountdownKeeps == SettingsInv /\ Countdown => SettingsInv'
<1> SUFFICES ASSUME SettingsInv, Countdown PROVE SettingsInv'
  OBVIOUS
<1>1. /\ shown' = TRUE /\ UNCHANGED <<audio, given, waiting>> /\ revert.timer # "off" /\ shown
  BY DEF Countdown
<1>2. WrittenInv' /\ OneButtonWaits'
  BY <1>1 DEF SettingsInv, WrittenInv, OneButtonWaits
<1>3. CASE revert.timer = "early"
  <2>1. revert' = [revert EXCEPT !.timer = "late"] /\ UNCHANGED <<settings, window, dropdown, accepted>>
    BY <1>3 DEF Countdown
  <2>2. ShapeInv' /\ RevertsToAccepted' /\ ConfirmedInv' /\ ModesAgree'
    BY <1>1, <1>3, <2>1 DEF SettingsInv, ShapeInv, RevertsToAccepted, ConfirmedInv, ModesAgree
  <2>3. VolumesAsSet'
    BY <1>1, <2>1, NotHeard DEF SettingsInv, ShapeInv
  <2> QED BY <1>2, <2>2, <2>3 DEF SettingsInv
<1>4. CASE revert.timer # "early"
  <2>1. /\ revert' = [revert EXCEPT !.timer = "off"]
        /\ settings' = [settings EXCEPT !.displayMode = revert.to]
        /\ window' = revert.to /\ dropdown' = [dropdown EXCEPT !.index = revert.to]
        /\ accepted' = [mode |-> revert.to, hasty |-> FALSE]
    BY <1>4 DEF Countdown
  <2>2. /\ settings' = [j \in Properties |-> settings'[j]] /\ settings'["displayMode"] = revert.to
        /\ \A j \in Properties \ {"displayMode"} : settings'[j] = settings[j]
    BY <2>1, PropertyNames, OneChange DEF SettingsInv
  <2>3. revert'.timer = "off" /\ dropdown'.index = revert.to
    BY <2>1
  <2>4. ShapeInv'
    BY <1>1, <2>2, <2>3 DEF SettingsInv, ShapeInv
  <2>5. VolumesAsSet'
    BY <1>1, <2>2, PropertyNames, NotHeard DEF SettingsInv, ShapeInv
  <2>6. RevertsToAccepted' /\ ConfirmedInv' /\ ModesAgree'
    BY <2>1, <2>2, <2>3 DEF RevertsToAccepted, ConfirmedInv, ModesAgree
  <2> QED BY <1>2, <2>4, <2>5, <2>6 DEF SettingsInv
<1> QED BY <1>3, <1>4

\* One property changes while the menu is shown; S are the channels that are given.
LEMMA SlideKeeps ==
    ASSUME SettingsInv, NEW handle \in Sliders \cup Views, NEW v, Slide(handle, v)
    PROVE  SettingsInv'
<1> DEFINE S == IF settings.muted \/ handle \in Views THEN {}
                ELSE IF handle = "masterVolume" THEN DOMAIN audio ELSE {handle}
<1>1. /\ shown /\ settings' = [settings EXCEPT ![handle] = v] /\ GiveVolumes(S)
      /\ UNCHANGED <<window, dropdown, revert, accepted, waiting, shown>>
  BY DEF Slide
<1>2. handle \in Properties /\ handle \notin {"muted", "displayMode"} /\ S \in SUBSET Channels
      /\ (handle \in Views => handle \notin {"masterVolume", "musicVolume", "sfxVolume"})
  BY PropertyNames, SettingsAssumption DEF Sliders, Properties, SettingsInv, ShapeInv, Channels
<1>3. /\ settings' = [j \in Properties |-> settings'[j]]
      /\ \A j \in Properties \ {handle} : settings'[j] = settings[j]
  BY <1>1, <1>2, OneChange DEF SettingsInv
<1>4. settings'.muted = settings.muted /\ settings'.displayMode = settings.displayMode
  BY <1>2, <1>3, PropertyNames
<1>5. ASSUME NEW c \in Channels \ S PROVE Loudness(settings', c) = Loudness(settings, c)
  <2>1. CASE settings.muted
    BY <1>4, <2>1 DEF Loudness
  <2>2. CASE ~settings.muted
    <3>1. handle \notin {"masterVolume", c}
      BY <1>2, <2>2 DEF SettingsInv, ShapeInv, Channels
    <3>2. settings'["masterVolume"] = settings["masterVolume"] /\ settings'[c] = settings[c]
      BY <1>3, <3>1, PropertyNames DEF Channels
    <3> QED BY <1>4, <3>2 DEF Loudness
  <2> QED BY <2>1, <2>2
<1> HIDE DEF S
<1>6. VolumesAsSet' /\ DOMAIN audio' = Channels /\ given' \in SUBSET Channels
  BY <1>1, <1>2, <1>5, GivenAsSet DEF SettingsInv
<1>7. ShapeInv' /\ OneButtonWaits' /\ WrittenInv'
  BY <1>1, <1>3, <1>6 DEF SettingsInv, ShapeInv, OneButtonWaits, WrittenInv
<1>8. RevertsToAccepted' /\ ConfirmedInv' /\ ModesAgree'
  BY <1>1, <1>4, SameModes DEF SettingsInv
<1> QED BY <1>6, <1>7, <1>8 DEF SettingsInv

\* A key or the left button is bound while the menu is shown.
LEMMA BindKeeps ==
    ASSUME SettingsInv, shown', waiting' \in SUBSET waiting,
           UNCHANGED <<audio, given, window, dropdown, revert, accepted>>,
           \/ UNCHANGED settings
           \/ \E S, key : Bind(S, key)
    PROVE  SettingsInv'
<1>1. /\ settings' = [j \in Properties |-> settings'[j]]
      /\ \A j \in Properties \ {"keybinds"} : settings'[j] = settings[j]
  <2>1. CASE UNCHANGED settings
    BY <2>1 DEF SettingsInv, ShapeInv
  <2>2. CASE \E S, key : Bind(S, key)
    <3>1. PICK S, key : Bind(S, key)
      BY <2>2
    <3>2. PICK v : settings' = [settings EXCEPT !["keybinds"] = v]
      BY <3>1 DEF Bind
    <3> QED BY <3>2, PropertyNames, OneChange DEF SettingsInv
  <2> QED BY <2>1, <2>2
<1>2. ShapeInv' /\ OneButtonWaits' /\ WrittenInv'
  BY <1>1 DEF SettingsInv, ShapeInv, OneButtonWaits, WrittenInv
<1>3. VolumesAsSet'
  BY <1>1, PropertyNames, NotHeard DEF SettingsInv, ShapeInv
<1>4. RevertsToAccepted' /\ ConfirmedInv' /\ ModesAgree'
  BY <1>1, PropertyNames, SameModes DEF SettingsInv
<1> QED BY <1>2, <1>3, <1>4 DEF SettingsInv

LEMMA PressKeeps ==
    ASSUME SettingsInv,
           (\E target \in Targets : PressMouse(target)) \/ (\E key \in Keys : PressKey(key))
    PROVE  SettingsInv'
<1>1. CASE \E target \in Targets : PressMouse(target)
  <2>1. PICK target \in Targets : PressMouse(target)
    BY <1>1
  <2>2. PICK t : PressOnTab(target, t)
    BY <2>1 DEF PressMouse
  <2>3. shown' /\ UNCHANGED <<audio, given, window, dropdown, revert, accepted>>
    BY <2>1 DEF PressMouse
  <2>4. waiting' \in SUBSET waiting /\ (UNCHANGED settings \/ \E S, key : Bind(S, key))
    BY <2>2 DEF PressOnTab
  <2> QED BY <2>3, <2>4, BindKeeps
<1>2. CASE \E key \in Keys : PressKey(key)
  BY <1>2, BindKeeps DEF PressKey
<1> QED BY <1>1, <1>2

LEMMA BackKeeps == SettingsInv /\ shown /\ ReleaseBack => SettingsInv'
<1> SUFFICES ASSUME SettingsInv, shown, ReleaseBack PROVE SettingsInv'
  OBVIOUS
<1>1. /\ UNCHANGED <<settings, audio, given, window>> /\ waiting' \in {waiting, {}}
      /\ revert' = Confirmed /\ accepted' = Accepted
  BY DEF ReleaseBack
<1>2. dropdown'.index = dropdown.index
  BY DEF ReleaseBack
<1>3. lost' \/ file' = Save(settings')
  BY <1>1 DEF ReleaseBack, Save
<1>4. /\ RevertsToAccepted' /\ ConfirmedInv' /\ ModesAgree'
      /\ revert'.timer \in {"off", "early", "late"}
  BY <1>1, <1>2, ReleaseConfirms DEF SettingsInv
<1>5. WrittenInv'
  BY <1>3 DEF WrittenInv, Save
<1>6. ShapeInv' /\ OneButtonWaits'
  BY <1>1, <1>4 DEF SettingsInv, ShapeInv, OneButtonWaits
<1>7. VolumesAsSet'
  BY <1>1, NotHeard DEF SettingsInv, ShapeInv
<1> QED BY <1>4, <1>5, <1>6, <1>7 DEF SettingsInv

\* Another mode: what it goes back to was accepted, unless it is chosen too soon.
LEMMA ModeKeeps ==
    ASSUME SettingsInv, NEW m, ReleaseMode(m), shown'
    PROVE  SettingsInv'
<1>1. /\ revert' = [timer |-> "early", to |-> settings.displayMode]
      /\ settings' = [settings EXCEPT !["displayMode"] = m]
      /\ window' = m /\ dropdown' = [index |-> m, open |-> FALSE]
      /\ accepted' = [Accepted EXCEPT !.hasty = @ \/ revert.timer = "early"]
      /\ UNCHANGED <<audio, given, waiting>>
  BY DEF ReleaseMode, SelectMode
<1>2. /\ settings' = [j \in Properties |-> settings'[j]] /\ settings'["displayMode"] = m
      /\ \A j \in Properties \ {"displayMode"} : settings'[j] = settings[j]
  BY <1>1, PropertyNames, OneChange DEF SettingsInv
<1>3. revert'.timer = "early" /\ revert'.to = settings.displayMode /\ dropdown'.index = m
  BY <1>1
<1>4. ShapeInv' /\ OneButtonWaits' /\ WrittenInv'
  BY <1>1, <1>2, <1>3 DEF SettingsInv, ShapeInv, OneButtonWaits, WrittenInv
<1>5. VolumesAsSet'
  BY <1>1, <1>2, PropertyNames, NotHeard DEF SettingsInv, ShapeInv
<1>6. ConfirmedInv' /\ ModesAgree'
  <2>1. DOMAIN accepted' = DOMAIN Accepted
    BY <1>1
  <2>2. DOMAIN accepted' = {"mode", "hasty"}
    BY <2>1 DEF Accepted, SettingsInv, ConfirmedInv
  <2> QED BY <1>1, <1>2, <1>3, <2>2 DEF ConfirmedInv, ModesAgree
<1>7. RevertsToAccepted'
  <2>1. CASE revert.timer = "off"
    <3>1. Accepted.mode = settings.displayMode
      BY <2>1 DEF Accepted, SettingsInv, ConfirmedInv
    <3>2. accepted'.mode = Accepted.mode
      BY <1>1
    <3> QED BY <1>3, <3>1, <3>2 DEF RevertsToAccepted
  <2>2. CASE revert.timer = "late"
    <3>1. accepted' = [mode |-> settings.displayMode, hasty |-> FALSE \/ revert.timer = "early"]
      BY <1>1, <2>2 DEF Accepted
    <3> QED BY <1>3, <3>1 DEF RevertsToAccepted
  <2>3. CASE revert.timer = "early"
    <3>1. Accepted = accepted /\ DOMAIN accepted = {"mode", "hasty"}
      BY <2>3 DEF Accepted, SettingsInv, ConfirmedInv
    <3>2. accepted'.hasty
      BY <1>1, <2>3, <3>1
    <3> QED BY <3>2 DEF RevertsToAccepted
  <2> QED BY <2>1, <2>2, <2>3 DEF SettingsInv, ShapeInv
<1> QED BY <1>4, <1>5, <1>6, <1>7 DEF SettingsInv

LEMMA MuteIsNoProperty == "mute" \notin ToSet(SaveProperties)
<1> SUFFICES ASSUME NEW i \in DOMAIN SaveProperties PROVE SaveProperties[i] # "mute"
  BY DEF ToSet
<1>1. i \in 1 .. 17
  BY DEF SaveProperties
<1> QED BY <1>1 DEF SaveProperties

\* What a button or a toggle does to the settings: muting gives both channels their
\* volume, a toggle of the visibility tab is heard by nobody.
LEMMA ToggleHeard ==
    ASSUME SettingsInv, NEW target,
           CASE target = "mute"   -> ToggleMute
             [] target \in Shows -> ToggleShow(target)
             [] OTHER            -> UNCHANGED <<settings, audio, given, changes>>
    PROVE  /\ settings' = [j \in Properties |-> settings'[j]]
           /\ settings'.displayMode = settings.displayMode
           /\ VolumesAsSet' /\ DOMAIN audio' = Channels /\ given' \in SUBSET Channels
<1>1. CASE target = "mute"
  <2>1. ToggleMute
    <3>1. target \notin Shows
      BY <1>1, MuteIsNoProperty, SettingsAssumption
    <3> QED BY <1>1, <3>1
  <2>2. GiveVolumes(Channels)
    BY <2>1 DEF ToggleMute, SettingsInv, ShapeInv
  <2>3. settings' = [settings EXCEPT !["muted"] = ~settings["muted"]]
    BY <2>1 DEF ToggleMute
  <2>4. /\ settings' = [j \in Properties |-> settings'[j]]
        /\ \A j \in Properties \ {"muted"} : settings'[j] = settings[j]
    BY <2>3, PropertyNames, OneChange, Zenon DEF SettingsInv
  <2>5. VolumesAsSet' /\ DOMAIN audio' = Channels /\ given' \in SUBSET Channels
    BY <2>2, GivenAsSet DEF SettingsInv
  <2> QED BY <2>4, <2>5, PropertyNames
<1>2. CASE target # "mute" /\ target \in Shows
  <2>1. settings' = [settings EXCEPT ![target] = ~@] /\ UNCHANGED <<audio, given>>
    BY <1>2 DEF ToggleShow
  <2>2. PICK v : settings' = [settings EXCEPT ![target] = v]
    BY <2>1
  <2>3. /\ target \in Properties
        /\ target \notin {"masterVolume", "musicVolume", "sfxVolume", "muted", "displayMode"}
    BY <1>2, SettingsAssumption DEF Properties
  <2>4. /\ settings' = [j \in Properties |-> settings'[j]]
        /\ \A j \in Properties \ {target} : settings'[j] = settings[j]
    BY <2>2, <2>3, OneChange DEF SettingsInv
  <2>5. \A j \in {"masterVolume", "musicVolume", "sfxVolume", "muted", "displayMode"} :
            settings'[j] = settings[j]
    BY <2>3, <2>4, PropertyNames
  <2>6. VolumesAsSet'
    BY <2>1, <2>5, NotHeard DEF SettingsInv, ShapeInv
  <2> QED BY <2>1, <2>4, <2>5, <2>6 DEF SettingsInv, ShapeInv
<1>3. CASE target # "mute" /\ target \notin Shows
  <2>1. UNCHANGED <<settings, audio, given>>
    BY <1>3
  <2>2. VolumesAsSet'
    BY <2>1, NotHeard DEF SettingsInv, ShapeInv
  <2> QED BY <2>1, <2>2 DEF SettingsInv, ShapeInv
<1> QED BY <1>1, <1>2, <1>3

LEMMA OtherKeeps ==
    ASSUME SettingsInv, NEW target, ReleaseOther(target), shown, UNCHANGED shown
    PROVE  SettingsInv'
<1>1. /\ settings' = [j \in Properties |-> settings'[j]]
      /\ settings'.displayMode = settings.displayMode
      /\ VolumesAsSet' /\ DOMAIN audio' = Channels /\ given' \in SUBSET Channels
  BY ToggleHeard DEF ReleaseOther
<1>2. /\ revert' = Confirmed /\ accepted' = Accepted /\ UNCHANGED window
      /\ dropdown'.index = dropdown.index
  BY DEF ReleaseOther
<1>3. /\ RevertsToAccepted' /\ ConfirmedInv' /\ ModesAgree'
      /\ revert'.timer \in {"off", "early", "late"}
  BY <1>1, <1>2, ReleaseConfirms DEF SettingsInv
<1>4. waiting' \in {waiting, {}, {target}}
  BY DEF ReleaseOther
<1>5. ShapeInv' /\ WrittenInv'
  BY <1>1, <1>3 DEF ShapeInv, WrittenInv
<1>6. OneButtonWaits'
  BY <1>4 DEF SettingsInv, OneButtonWaits
<1> QED BY <1>1, <1>3, <1>5, <1>6 DEF SettingsInv

LEMMA ReleaseKeeps ==
    ASSUME SettingsInv, NEW target, ReleaseMouse(target)
    PROVE  SettingsInv'
<1>1. CASE target = "back"
  BY <1>1, BackKeeps DEF ReleaseMouse
<1>2. CASE target # "back" /\ target \in Modes /\ dropdown.open
  <2>1. ReleaseMode(target) /\ shown
    BY <1>2 DEF ReleaseMouse
  <2>2. shown'
    BY <2>1 DEF ReleaseMode
  <2> QED BY <2>1, <2>2, ModeKeeps
<1>3. CASE target # "back" /\ ~(target \in Modes /\ dropdown.open)
  <2>1. ReleaseOther(target) /\ shown
    BY <1>3 DEF ReleaseMouse
  <2> QED BY <2>1, OtherKeeps DEF ReleaseOther
<1> QED BY <1>1, <1>2, <1>3

LEMMA SettingsStep == SettingsInv /\ [SettingsNext]_settingsVars => SettingsInv'
<1> SUFFICES ASSUME SettingsInv, [SettingsNext]_settingsVars PROVE SettingsInv'
  OBVIOUS
<1>1. CASE Open \/ Rebuild \/ UNCHANGED settingsVars
  BY <1>1, OpenKeeps
<1>2. CASE Countdown
  BY <1>2, CountdownKeeps
<1>3. CASE (\E target \in Targets : PressMouse(target)) \/ (\E key \in Keys : PressKey(key))
  BY <1>3, PressKeeps
<1>4. CASE \E target \in Targets : ReleaseMouse(target)
  BY <1>4, ReleaseKeeps
<1>5. CASE \E handle \in Sliders \cup Views, v \in Volumes : Slide(handle, v)
  BY <1>5, SlideKeeps
<1> QED BY <1>1, <1>2, <1>3, <1>4, <1>5 DEF SettingsNext

LEMMA SettingsStart == SettingsInit => SettingsInv
<1> SUFFICES ASSUME SettingsInit PROVE SettingsInv
  OBVIOUS
<1>1. settings = [k \in Properties |-> settings[k]]
  <2>1. PICK muted \in BOOLEAN, k \in Keys :
            settings = Changing(1, muted, "windowed", [a \in Actions |-> k])
    BY DEF SettingsInit
  <2> DEFINE binds == [a \in Actions |-> k]
  <2> HIDE DEF binds
  <2>2. settings = Changing(1, muted, "windowed", binds)
    BY <2>1 DEF binds
  <2> QED BY <2>2, ChangingShape
<1>2. DOMAIN audio = Channels /\ given = {} /\ waiting = {} /\ file = Save(settings)
  BY DEF SettingsInit, Channels
<1>3. /\ revert = [timer |-> "off", to |-> settings.displayMode]
      /\ accepted = [mode |-> settings.displayMode, hasty |-> FALSE]
      /\ dropdown = [index |-> settings.displayMode, open |-> FALSE]
  BY DEF SettingsInit
<1>4. ShapeInv /\ VolumesAsSet /\ OneButtonWaits /\ WrittenInv
  BY <1>1, <1>2, <1>3 DEF ShapeInv, VolumesAsSet, OneButtonWaits, WrittenInv
<1>5. RevertsToAccepted /\ ConfirmedInv /\ ModesAgree
  BY <1>3 DEF RevertsToAccepted, ConfirmedInv, ModesAgree
<1> QED BY <1>4, <1>5 DEF SettingsInv

\* For all sliders, toggles, modes, actions and keys: what is heard is what is set, one
\* key button waits at most, a mode nobody confirms gives way to the last one that was,
\* and what a closed menu has written is what a restart brings back.
THEOREM SettingsCorrect == SettingsSpec => []SettingsHold
<1>1. SettingsInv => SettingsHold
  <2> SUFFICES ASSUME SettingsInv PROVE SettingsHold
    OBVIOUS
  <2>1. ~shown /\ ~lost => Load(file, Defaults) = settings
    BY SavedComesBack DEF SettingsInv, ShapeInv, WrittenInv
  <2> QED BY <2>1 DEF SettingsInv, SettingsHold, ClosedIsSaved, ModesAgree
<1> QED BY <1>1, SettingsStart, SettingsStep, PTL DEF SettingsSpec

-----------------------------------------------------------------------------
(* Sounds.  What the property lacks: a sound without a place is always as  *)
(* loud as the volume says, since update leaves it alone, and the camera   *)
(* only leaves the listener where the rest of the frame will bring the     *)
(* listener after it: nobody pauses once the camera has moved.             *)

SoundsSpec == SoundsInit /\ [][SoundsNext]_soundVars

PlaceOK(place) == place = <<>> \/ place[1] \in Int

SoundOK(s, v) ==
    /\ s = [id |-> s.id, place |-> s.place, on |-> s.on, volume |-> s.volume, pan |-> s.pan, pitch |-> s.pitch]
    /\ PlaceOK(s.place)
    /\ s.place = <<>> => s.volume = FlatVolume(v) /\ s.pan = 0
    /\ s.volume <= v * Loudest(s.place)

Bearings ==
    /\ camera.at \in Int /\ listener.at \in Int /\ figure \in Int
    /\ last = <<>> \/ last[1] \in Int

ViewType == [followed : BOOLEAN, eyes : BOOLEAN, paused : BOOLEAN]

ViewInv ==
    /\ sight \in ViewType /\ (sight.eyes => ~sight.paused)
    /\ listener = camera \/ (frame = "interface" /\ ~sight.paused)

PlayingInv ==
    /\ volume.sound \in Nat
    /\ music = [volume |-> volume.music, pitch |-> music.pitch]
    /\ playing = [n \in DOMAIN playing |-> playing[n]]
    /\ \A n \in DOMAIN playing : SoundOK(playing[n], volume.sound)

SoundsInv == Bearings /\ ViewInv /\ PlayingInv /\ HeardFromHere

LEMMA Products ==
    ASSUME NEW v \in Nat, NEW q \in Int, NEW a \in Int
    PROVE  v * (3 * (q - a * a)) <= v * (3 * q)
<1>1. a * a \in Nat
  BY SMTT(20)
<1>2. ASSUME NEW w \in Nat, NEW r \in Nat PROVE w * r >= 0
  BY <1>2, SMTT(20)
<1>3. v * (a * a) >= 0
  BY <1>1, <1>2
<1>4. v * (3 * (q - a * a)) = v * (3 * q) - 3 * (v * (a * a))
  BY <1>1, SMTT(20)
<1> DEFINE x == v * (a * a)
           y == v * (3 * q)
<1>5. x \in Int /\ y \in Int
  BY <1>1
<1> HIDE DEF x, y
<1>6. y - 3 * x <= y
  BY <1>3, <1>5 DEF x
<1> QED BY <1>4, <1>6 DEF x, y

LEMMA QuietEnough ==
    ASSUME NEW v \in Nat, NEW place, PlaceOK(place), Bearings
    PROVE  LoudnessAt(v, place) <= v * Loudest(place)
<1> DEFINE range == MaxDistance - FullDistance
<1>1. range \in Int
  BY SoundsAssumption
<1>2. CASE place = <<>>
  <2>1. Loudest(<<>>) \in Int
    BY <1>1 DEF Loudest
  <2> QED BY <1>2, <2>1 DEF LoudnessAt, FlatVolume
<1>3. CASE place # <<>>
  <2> DEFINE amount == Clamp(Away(place[1]) - FullDistance, 0, range)
  <2>1. amount \in Int
    BY <1>1, <1>3, SoundsAssumption DEF PlaceOK, Bearings, Away, Clamp
  <2>2. LoudnessAt(v, place) = v * (3 * (range * range - amount * amount))
    BY <1>3 DEF LoudnessAt, SpatialVolume
  <2>3. Loudest(place) = 3 * (range * range)
    BY <1>3 DEF Loudest
  <2> HIDE DEF amount, range
  <2>4. range * range \in Int
    BY <1>1
  <2> QED BY <2>1, <2>2, <2>3, <2>4, Products
<1> QED BY <1>2, <1>3

LEMMA PlayKeeps ==
    ASSUME SoundsInv, NEW id, NEW place, PlaceOK(place), Play(id, place), UNCHANGED <<music, volume>>
    PROVE  PlayingInv'
<1> DEFINE s == [id |-> id, place |-> place, on |-> TRUE, volume |-> LoudnessAt(volume.sound, place),
                 pan |-> Side(place), pitch |-> PlaybackPitch(id)]
<1>1. PICK n \in Slots \ DOMAIN playing :
         playing' = [k \in DOMAIN playing \cup {n} |-> IF k # n THEN playing[k] ELSE s]
  BY DEF Play
<1>2. SoundOK(s, volume.sound)
  <2>1. s.volume <= volume.sound * Loudest(s.place)
    BY QuietEnough DEF SoundsInv, PlayingInv
  <2>2. s.place = <<>> => s.volume = FlatVolume(volume.sound) /\ s.pan = 0
    BY DEF LoudnessAt, Side
  <2> QED BY <2>1, <2>2 DEF SoundOK
<1> HIDE DEF s
<1>3. \A k \in DOMAIN playing' : SoundOK(playing'[k], volume'.sound)
  BY <1>1, <1>2 DEF SoundsInv, PlayingInv
<1>4. playing' = [k \in DOMAIN playing' |-> playing'[k]]
  BY <1>1
<1> QED BY <1>3, <1>4 DEF SoundsInv, PlayingInv

LEMMA SetVolumesKeeps ==
    ASSUME SoundsInv, NEW sound \in Strengths, NEW ofMusic \in Strengths, SetVolumes(sound, ofMusic)
    PROVE  PlayingInv'
<1>1. /\ volume' = [sound |-> sound, music |-> ofMusic] /\ music' = [music EXCEPT !.volume = ofMusic]
      /\ playing' = [n \in DOMAIN playing |->
                        [playing[n] EXCEPT !.volume = LoudnessAt(sound, playing[n].place)]]
  BY DEF SetVolumes
<1>2. music' = [volume |-> volume'.music, pitch |-> music'.pitch] /\ volume'.sound = sound /\ sound \in Nat
  BY <1>1, SoundsAssumption DEF SoundsInv, PlayingInv
<1>3. ASSUME NEW n \in DOMAIN playing PROVE SoundOK(playing'[n], sound)
  <2> DEFINE s == playing[n]
             t == [s EXCEPT !.volume = LoudnessAt(sound, s.place)]
  <2>1. SoundOK(s, volume.sound) /\ playing'[n] = t
    BY <1>1 DEF SoundsInv, PlayingInv
  <2> HIDE DEF s
  <2>2. t = [id |-> s.id, place |-> s.place, on |-> s.on, volume |-> LoudnessAt(sound, s.place),
             pan |-> s.pan, pitch |-> s.pitch]
    BY <2>1 DEF SoundOK
  <2> HIDE DEF t
  <2>3. t.volume <= sound * Loudest(t.place)
    BY <1>2, <2>1, <2>2, QuietEnough DEF SoundsInv, SoundOK
  <2>4. t.place = <<>> => t.volume = FlatVolume(sound) /\ t.pan = 0
    BY <2>1, <2>2 DEF LoudnessAt, SoundOK
  <2> QED BY <2>1, <2>2, <2>3, <2>4 DEF SoundOK
<1>4. DOMAIN playing' = DOMAIN playing /\ playing' = [n \in DOMAIN playing' |-> playing'[n]]
  BY <1>1
<1> QED BY <1>2, <1>3, <1>4 DEF PlayingInv

\* AudioManager::update leaves a sound with its own volume, or the one of its place.
LEMMA UpdateKeeps ==
    ASSUME SoundsInv, UpdateAudio
    PROVE  PlayingInv' /\ HeardFromHere'
<1> DEFINE rest == {k \in DOMAIN playing : playing[k].on}
<1>1. /\ frame = "audio" /\ music' = [music EXCEPT !.pitch = FrequencyPitch]
      /\ playing' = [n \in rest |-> Renewed(playing[n])]
      /\ UNCHANGED <<volume, frequency, sceneVars>>
  BY DEF UpdateAudio
<1>2. listener' = camera'
  BY <1>1 DEF SoundsInv, ViewInv, sceneVars
<1>3. music' = [volume |-> volume'.music, pitch |-> FrequencyPitch]
  BY <1>1 DEF SoundsInv, PlayingInv
<1>4. ASSUME NEW n \in rest
      PROVE  LET t == playing'[n] IN
             /\ SoundOK(t, volume.sound)
             /\ t.volume = LoudnessAt(volume.sound, t.place) /\ t.pan = Side(t.place)
             /\ t.pitch = PlaybackPitch(t.id)
  <2> DEFINE s == playing[n]
             t == Renewed(s)
  <2>1. SoundOK(s, volume.sound) /\ playing'[n] = t
    BY <1>1 DEF SoundsInv, PlayingInv
  <2> HIDE DEF s
  <2>2. t = [id |-> s.id, place |-> s.place, on |-> s.on,
             volume |-> IF s.place # <<>> THEN LoudnessAt(volume.sound, s.place) ELSE s.volume,
             pan |-> Side(s.place), pitch |-> PlaybackPitch(s.id)]
    BY <2>1 DEF SoundOK, Renewed
  <2> HIDE DEF t
  <2>3. t.volume = LoudnessAt(volume.sound, t.place)
    BY <2>1, <2>2 DEF SoundOK, LoudnessAt
  <2>4. t.volume <= volume.sound * Loudest(t.place)
    BY <2>1, <2>2, <2>3, QuietEnough DEF SoundsInv, PlayingInv, SoundOK
  <2>5. t.place = <<>> => t.volume = FlatVolume(volume.sound) /\ t.pan = 0
    BY <2>2, <2>3 DEF LoudnessAt, Side
  <2> QED BY <2>1, <2>2, <2>3, <2>4, <2>5 DEF SoundOK
<1> HIDE DEF rest
<1>5. DOMAIN playing' = rest /\ playing' = [n \in DOMAIN playing' |-> playing'[n]]
  BY <1>1
<1>6. PlayingInv'
  BY <1>1, <1>3, <1>4, <1>5 DEF SoundsInv, PlayingInv
<1>7. FrequencyPitch' = FrequencyPitch /\ listener' = listener /\ volume' = volume
  BY <1>1 DEF FrequencyPitch, sceneVars
<1>8. \A p : LoudnessAt(volume.sound, p)' = LoudnessAt(volume.sound, p) /\ Side(p)' = Side(p)
  BY <1>7 DEF LoudnessAt, Side, SpatialVolume, SpatialPan, FlatVolume, Away
<1>9. \A id : PlaybackPitch(id)' = PlaybackPitch(id)
  BY <1>1, <1>7 DEF PlaybackPitch
<1>10. HeardFromHere'
  BY <1>2, <1>3, <1>4, <1>5, <1>7, <1>8, <1>9 DEF HeardFromHere
<1> QED BY <1>6, <1>10

LEMMA SoundEndsKeeps ==
    ASSUME SoundsInv, NEW n \in DOMAIN playing, SoundEnds(n)
    PROVE  PlayingInv' /\ HeardFromHere'
<1>1. playing' = [playing EXCEPT ![n].on = FALSE] /\ UNCHANGED <<music, volume, frequency, sceneVars, frame>>
  BY DEF SoundEnds
<1>2. listener' = listener /\ camera' = camera
  BY <1>1 DEF sceneVars
<1>3. DOMAIN playing' = DOMAIN playing
  BY <1>1
<1>4. ASSUME NEW k \in DOMAIN playing
      PROVE  /\ SoundOK(playing'[k], volume.sound)
             /\ playing'[k].id = playing[k].id /\ playing'[k].place = playing[k].place
             /\ playing'[k].volume = playing[k].volume /\ playing'[k].pan = playing[k].pan
             /\ playing'[k].pitch = playing[k].pitch
  <2> DEFINE s == playing[k]
  <2>1. SoundOK(s, volume.sound)
    BY DEF SoundsInv, PlayingInv
  <2>2. playing'[k] = IF k = n THEN [s EXCEPT !.on = FALSE] ELSE s
    BY <1>1
  <2> HIDE DEF s
  <2>3. ASSUME NEW on
        PROVE  [s EXCEPT !.on = on] = [id |-> s.id, place |-> s.place, on |-> on, volume |-> s.volume,
                                       pan |-> s.pan, pitch |-> s.pitch]
    BY <2>1 DEF SoundOK
  <2> DEFINE t == [s EXCEPT !.on = FALSE]
  <2>4. SoundOK(t, volume.sound)
    <3>1. /\ t.id = s.id /\ t.place = s.place /\ t.on = FALSE /\ t.volume = s.volume
          /\ t.pan = s.pan /\ t.pitch = s.pitch
      BY <2>3
    <3>2. t = [id |-> t.id, place |-> t.place, on |-> t.on, volume |-> t.volume, pan |-> t.pan, pitch |-> t.pitch]
      BY <2>3, <3>1
    <3> HIDE DEF t
    <3> QED BY <2>1, <3>1, <3>2 DEF SoundOK
  <2> QED BY <2>1, <2>2, <2>3, <2>4 DEF s
<1>5. PlayingInv'
  <2>1. playing' = [k \in DOMAIN playing' |-> playing'[k]]
    BY <1>1 DEF SoundsInv, PlayingInv
  <2> QED BY <1>1, <1>3, <1>4, <2>1 DEF SoundsInv, PlayingInv
<1>6. FrequencyPitch' = FrequencyPitch
  BY <1>1 DEF FrequencyPitch
<1>7. \A p : LoudnessAt(volume.sound, p)' = LoudnessAt(volume.sound, p) /\ Side(p)' = Side(p)
  BY <1>1, <1>2 DEF LoudnessAt, Side, SpatialVolume, SpatialPan, FlatVolume, Away
<1>8. \A id : PlaybackPitch(id)' = PlaybackPitch(id)
  BY <1>1, <1>6 DEF PlaybackPitch
<1>9. HeardFromHere'
  BY <1>1, <1>2, <1>3, <1>4, <1>6, <1>7, <1>8 DEF SoundsInv, HeardFromHere
<1> QED BY <1>5, <1>9

LEMMA UpdateViewKeeps ==
    ASSUME SoundsInv, UpdateView
    PROVE  Bearings' /\ ViewInv'
<1>1. frame = "interface" /\ frame' = "audio" /\ UNCHANGED <<sight, figure>>
  BY DEF UpdateView
<1>2. CASE sight.paused
  BY <1>1, <1>2 DEF UpdateView, SoundsInv, Bearings, ViewInv
<1>3. CASE ~sight.paused
  <2>1. (FollowPlayer \/ MoveFreely \/ Stay) /\ listener' = camera'
    BY <1>3 DEF UpdateView, SetListener
  <2>2. \A x \in Int : CameraLimits(x) \in Int
    BY SoundsAssumption DEF CameraLimits, Clamp
  <2>3. camera'.at \in Int /\ (last' = <<>> \/ last'[1] \in Int)
    <3>1. CASE FollowPlayer
      <4> DEFINE there == camera.at + figure - IF last = <<>> THEN camera.at ELSE last[1]
      <4>1. there \in Int
        BY DEF SoundsInv, Bearings
      <4>2. PICK zoom \in {0, 1}, way \in {1, -1} :
               camera' = [at |-> IF sight.eyes THEN there ELSE CameraLimits(there + zoom), facing |-> way]
        BY <3>1 DEF FollowPlayer
      <4>3. last' = <<figure>>
        BY <3>1 DEF FollowPlayer
      <4> HIDE DEF there
      <4>4. there + zoom \in Int
        BY <4>1
      <4> QED BY <2>2, <4>1, <4>2, <4>3, <4>4 DEF SoundsInv, Bearings
    <3>2. CASE MoveFreely
      <4>1. PICK step \in {-1, 0, 1}, way \in {1, -1} :
               camera' = [at |-> CameraLimits(camera.at + step), facing |-> way]
        BY <3>2 DEF MoveFreely
      <4>2. camera.at + step \in Int
        BY DEF SoundsInv, Bearings
      <4> QED BY <2>2, <3>2, <4>1, <4>2 DEF MoveFreely, SoundsInv, Bearings
    <3>3. CASE Stay
      BY <3>3 DEF Stay, SoundsInv, Bearings
    <3> QED BY <2>1, <3>1, <3>2, <3>3
  <2> QED BY <1>1, <2>1, <2>3 DEF SoundsInv, Bearings, ViewInv
<1> QED BY <1>2, <1>3

LEMMA SoundsStep == SoundsInv /\ [SoundsNext]_soundVars => SoundsInv'
<1> SUFFICES ASSUME SoundsInv, [SoundsNext]_soundVars PROVE SoundsInv'
  OBVIOUS
<1> DEFINE Steady == UNCHANGED <<camera, listener, figure, last, sight>>
           Silent == UNCHANGED <<playing, music, volume>>
<1>1. Steady /\ frame' = frame => Bearings' /\ ViewInv'
  BY DEF SoundsInv, Bearings, ViewInv
<1>2. Silent => PlayingInv'
  BY DEF SoundsInv, PlayingInv
<1>3. frame' # "heard" => HeardFromHere'
  BY DEF HeardFromHere
<1>4. CASE ReadLines
  <2>1. frame' = "lines" /\ Steady /\ Silent /\ frame = "heard"
    BY <1>4 DEF ReadLines, sceneVars
  <2>2. Bearings' /\ ViewInv'
    BY <2>1 DEF SoundsInv, Bearings, ViewInv
  <2> QED BY <1>2, <1>3, <2>1, <2>2 DEF SoundsInv
<1>5. ASSUME NEW id \in Played, NEW x \in -MapHalf .. MapHalf, PlaySoundAt(id, x) PROVE SoundsInv'
  <2>1. frame' = frame /\ frame = "lines" /\ Steady /\ Play(id, <<x>>) /\ UNCHANGED <<music, volume>>
    BY <1>5 DEF PlaySoundAt, sceneVars
  <2>2. PlaceOK(<<x>>)
    BY SoundsAssumption DEF PlaceOK
  <2>3. PlayingInv'
    BY <2>1, <2>2, PlayKeeps
  <2> QED BY <1>1, <1>3, <2>1, <2>3 DEF SoundsInv
<1>6. ASSUME NEW f \in Frequencies, HandleTimeUnit(f) PROVE SoundsInv'
  <2>1. frame' = frame /\ frame = "lines" /\ Steady /\ Silent
    BY <1>6 DEF HandleTimeUnit, sceneVars
  <2> QED BY <1>1, <1>2, <1>3, <2>1 DEF SoundsInv
<1>7. CASE EscapeKey
  <2>1. frame' = frame /\ frame = "lines" /\ Silent /\ UNCHANGED <<camera, listener, figure, last>>
    BY <1>7 DEF EscapeKey
  <2>2. sight' \in ViewType /\ (sight'.eyes => ~sight'.paused)
    BY <1>7 DEF EscapeKey, SoundsInv, ViewInv, ViewType
  <2>3. Bearings' /\ ViewInv'
    BY <2>1, <2>2 DEF SoundsInv, Bearings, ViewInv
  <2> QED BY <1>2, <1>3, <2>1, <2>3 DEF SoundsInv
<1>8. CASE MovePlayers
  <2>1. frame' = "interface" /\ frame = "lines" /\ Silent /\ UNCHANGED <<listener, last, sight>>
    BY <1>8 DEF MovePlayers
  <2>2. figure' \in Int
    BY <1>8, SoundsAssumption DEF MovePlayers, SoundsInv, Bearings
  <2>3. IF sight.eyes THEN camera'.at = figure' ELSE camera' = camera
    BY <1>8 DEF MovePlayers, LookThrough
  <2>4. Bearings' /\ ViewInv'
    BY <2>1, <2>2, <2>3 DEF SoundsInv, Bearings, ViewInv
  <2> QED BY <1>2, <1>3, <2>1, <2>4 DEF SoundsInv
<1>9. CASE PlayClick
  <2>1. frame' = frame /\ frame = "interface" /\ Steady /\ Play("button_click", <<>>) /\ UNCHANGED <<music, volume>>
    BY <1>9 DEF PlayClick, sceneVars
  <2>2. PlayingInv'
    BY <2>1, PlayKeeps DEF PlaceOK
  <2> QED BY <1>1, <1>3, <2>1, <2>2 DEF SoundsInv
<1>10. ASSUME NEW s \in Strengths, NEW m \in Strengths, SetVolumes(s, m) PROVE SoundsInv'
  <2>1. frame' = frame /\ frame = "interface" /\ Steady
    BY <1>10 DEF SetVolumes, sceneVars
  <2> QED BY <1>1, <1>3, <1>10, <2>1, SetVolumesKeeps DEF SoundsInv
<1>11. ASSUME NEW next \in ViewType, ChangeView(next) PROVE SoundsInv'
  <2>1. /\ frame' = frame /\ frame = "interface" /\ Silent /\ UNCHANGED <<listener, figure>>
        /\ sight' = next /\ (next.paused => sight.paused /\ ~next.eyes)
        /\ last' = <<>> \/ last' = last
    BY <1>11 DEF ChangeView
  <2>2. IF next.eyes /\ ~sight.eyes THEN camera'.at = figure ELSE camera' = camera
    BY <1>11 DEF ChangeView, LookThrough
  <2>3. Bearings'
    BY <2>1, <2>2 DEF SoundsInv, Bearings
  <2>4. ViewInv'
    BY <2>1, <2>2 DEF SoundsInv, ViewInv, ViewType
  <2> QED BY <1>2, <1>3, <2>1, <2>3, <2>4 DEF SoundsInv
<1>12. CASE UpdateView
  <2>1. frame' = "audio" /\ Silent
    BY <1>12 DEF UpdateView
  <2> QED BY <1>2, <1>3, <1>12, <2>1, UpdateViewKeeps DEF SoundsInv
<1>13. CASE UpdateAudio
  <2>1. Steady /\ frame = "audio"
    BY <1>13 DEF UpdateAudio, sceneVars
  <2>2. Bearings' /\ ViewInv'
    BY <2>1 DEF SoundsInv, Bearings, ViewInv
  <2> QED BY <1>13, <2>2, UpdateKeeps DEF SoundsInv
<1>14. ASSUME NEW n \in DOMAIN playing, SoundEnds(n) PROVE SoundsInv'
  <2>1. Steady /\ frame' = frame
    BY <1>14 DEF SoundEnds, sceneVars
  <2> QED BY <1>1, <1>14, <2>1, SoundEndsKeeps DEF SoundsInv
<1>15. CASE UNCHANGED soundVars
  <2>1. Steady /\ Silent /\ frame' = frame /\ frequency' = frequency
    BY <1>15 DEF soundVars
  <2>2. HeardFromHere'
    BY <2>1 DEF SoundsInv, HeardFromHere, FrequencyPitch, PlaybackPitch, LoudnessAt, Side, SpatialVolume,
                SpatialPan, FlatVolume, Away
  <2> QED BY <1>1, <1>2, <2>1, <2>2 DEF SoundsInv
<1> QED BY <1>4, <1>5, <1>6, <1>7, <1>8, <1>9, <1>10, <1>11, <1>12, <1>13, <1>14, <1>15 DEF SoundsNext, ViewType

\* Between two frames every sound is as loud, as far to the side and as high as it is
\* from where the camera is now, paused or not (AudioManager::update, ::setSoundVolume,
\* Render::update), and at no time is one louder than the user wants it.
THEOREM SoundsCorrect == SoundsSpec => []SoundsHold
<1>1. SoundsInit => SoundsInv
  <2> SUFFICES ASSUME SoundsInit PROVE SoundsInv
    OBVIOUS
  <2>1. DOMAIN playing = {}
    BY DEF SoundsInit
  <2>2. playing = [n \in DOMAIN playing |-> playing[n]]
    BY DEF SoundsInit
  <2>3. FrequencyPitch = 100
    BY DEF SoundsInit, FrequencyPitch
  <2> QED BY <2>1, <2>2, <2>3
      DEF SoundsInit, SoundsInv, Bearings, ViewInv, ViewType, PlayingInv, HeardFromHere
<1>2. SoundsInv => SoundsHold
  BY DEF SoundsInv, SoundsHold, NeverLouder, PlayingInv, SoundOK
<1> QED BY <1>1, <1>2, SoundsStep, PTL DEF SoundsSpec

-----------------------------------------------------------------------------
(* LineStream: lines out of a stream of bytes.                              *)

\* Of some natural numbers one is the least.
LEMMA LeastOf ==
    ASSUME NEW T, T \subseteq Nat, T # {}
    PROVE  \E x \in T : \A y \in T : x <= y
<1> DEFINE R == {ss \in Nat \X Nat : ss[1] < ss[2]}
<1>1. IsWellFoundedOn(R, Nat)
  BY NatLessThanWellFounded DEF OpToRel
<1>2. \A x, y \in Nat : <<y, x>> \in R <=> y < x
  OBVIOUS
<1> HIDE DEF R
<1>3. PICK x \in T : \A y \in T : ~ (<<y, x>> \in R)
  BY <1>1, WFMin
<1>4. ASSUME NEW y \in T PROVE x <= y
  <2>1. x \in Nat /\ y \in Nat /\ ~ (y < x)
    BY <1>2, <1>3
  <2> QED
    BY ONLY <2>1
<1> QED
  BY <1>4

-----------------------------------------------------------------------------
(* Lines in a sequence of bytes.                                           *)

Bytes == Seq(Nat)

\* The z bytes of s are what comes after line m, up to the end of line n.
WholeLines(s, z, m, n) ==
    /\ z = 0 => m = n
    /\ z > 0 => z > 1 /\ s[1] = m + 1 /\ s[z] = Newline /\ s[z - 1] = n
    /\ \A i, j \in 1 .. z : i <= j /\ (\A k \in i .. j : s[k] # Newline) => s[j] = s[i]
    /\ \A i \in 1 .. z : s[i] = Newline =>
          i > 1 /\ s[i - 1] # Newline /\ (i < z => s[i + 1] = s[i - 1] + 1)

LEMMA FirstEndIs ==
    ASSUME NEW b \in Bytes, HasLine(b)
    PROVE  /\ FirstEnd(b) \in DOMAIN b /\ b[FirstEnd(b)] = Newline
           /\ \A j \in 1 .. FirstEnd(b) - 1 : b[j] # Newline
<1> DEFINE ends == {k \in DOMAIN b : b[k] = Newline}
<1>1. ends # {} /\ ends \subseteq Nat
  BY DEF HasLine, ToSet, Bytes
<1>2. PICK k \in ends : \A y \in ends : k <= y
  BY <1>1, LeastOf
<1>3. \A j \in 1 .. k - 1 : b[j] # Newline
  BY <1>1, <1>2 DEF Bytes
<1>4. \E e \in DOMAIN b : b[e] = Newline /\ \A j \in 1 .. e - 1 : b[j] # Newline
  BY <1>2, <1>3
<1> QED
  BY <1>4 DEF FirstEnd

\* A line more at the end.
LEMMA LineMore ==
    ASSUME NEW s, NEW z \in Nat, NEW m \in Nat, NEW n \in Nat, WholeLines(s, z, m, n),
           NEW v, NEW len \in Nat, len > 0,
           \A i \in 1 .. z : v[i] = s[i],
           \A i \in z + 1 .. z + len : v[i] = n + 1,
           v[z + len + 1] = Newline
    PROVE  WholeLines(v, z + len + 1, m, n + 1)
<1>1. v[1] = m + 1
  <2>1. CASE z = 0
    BY <2>1 DEF WholeLines
  <2>2. CASE z > 0
    BY <2>2 DEF WholeLines
  <2> QED
    BY <2>1, <2>2
<1>2. \A i, j \in 1 .. z + len + 1 : i <= j /\ (\A k \in i .. j : v[k] # Newline) => v[j] = v[i]
  <2> SUFFICES ASSUME NEW i \in 1 .. z + len + 1, NEW j \in 1 .. z + len + 1, i <= j,
                      \A k \in i .. j : v[k] # Newline
               PROVE  v[j] = v[i]
    OBVIOUS
  <2>1. j # z + len + 1
    OBVIOUS
  <2>2. CASE j <= z
    <3>1. i \in 1 .. z /\ j \in 1 .. z /\ \A k \in i .. j : s[k] # Newline
      BY <2>2
    <3> QED
      BY <3>1 DEF WholeLines
  <2>3. CASE i > z
    BY <2>1, <2>3
  <2>4. CASE i <= z /\ j > z
    <3>1. z > 0 /\ z \in i .. j /\ v[z] = s[z]
      BY <2>4
    <3> QED
      BY <3>1 DEF WholeLines
  <2> QED
    BY <2>2, <2>3, <2>4
<1>3. \A i \in 1 .. z + len + 1 : v[i] = Newline =>
         i > 1 /\ v[i - 1] # Newline /\ (i < z + len + 1 => v[i + 1] = v[i - 1] + 1)
  <2> SUFFICES ASSUME NEW i \in 1 .. z + len + 1, v[i] = Newline
               PROVE  i > 1 /\ v[i - 1] # Newline /\ (i < z + len + 1 => v[i + 1] = v[i - 1] + 1)
    OBVIOUS
  <2>1. CASE i = z + len + 1
    <3>1. i - 1 \in z + 1 .. z + len /\ i > 1
      BY <2>1
    <3>2. v[i - 1] = n + 1
      BY <3>1
    <3> QED
      BY <2>1, <3>1, <3>2 DEF Newline
  <2>2. CASE i \in z + 1 .. z + len
    BY <2>2 DEF Newline
  <2>3. CASE i \in 1 .. z
    <3>1. i > 1 /\ s[i - 1] # Newline /\ (i < z => s[i + 1] = s[i - 1] + 1)
      BY <2>3 DEF WholeLines
    <3>2. v[i - 1] = s[i - 1]
      BY <2>3, <3>1
    <3>3. CASE i < z
      <4>1. v[i + 1] = s[i + 1]
        BY <2>3, <3>3
      <4> QED
        BY <3>1, <3>2, <3>3, <4>1
    <3>4. CASE i = z
      <4>1. s[i - 1] = n /\ v[i + 1] = n + 1
        BY <2>3, <3>4 DEF WholeLines
      <4> QED
        BY <3>1, <3>2, <4>1
    <3> QED
      BY <2>3, <3>3, <3>4
  <2> QED
    BY <2>1, <2>2, <2>3
<1>4. v[z + len] = n + 1 /\ z + len + 1 > 1 /\ (z + len + 1) - 1 = z + len
  OBVIOUS
<1> QED
  BY <1>1, <1>2, <1>3, <1>4 DEF WholeLines

\* The first line less.
LEMMA LineLess ==
    ASSUME NEW s, NEW z \in Nat, NEW m \in Nat, NEW n \in Nat, WholeLines(s, z, m, n),
           NEW e \in 1 .. z, s[e] = Newline, \A j \in 1 .. e - 1 : s[j] # Newline,
           NEW v, \A i \in 1 .. z - e : v[i] = s[i + e]
    PROVE  s[1] = m + 1 /\ WholeLines(v, z - e, m + 1, n)
<1>1. e > 1 /\ s[e - 1] # Newline /\ (e < z => s[e + 1] = s[e - 1] + 1)
  BY DEF WholeLines
<1>2. s[1] = m + 1 /\ s[z] = Newline /\ s[z - 1] = n /\ z > 1
  BY DEF WholeLines
<1>3. s[e - 1] = m + 1
  <2>1. 1 \in 1 .. z /\ e - 1 \in 1 .. z /\ 1 <= e - 1 /\ \A k \in 1 .. e - 1 : s[k] # Newline
    BY <1>1
  <2> QED
    BY <1>2, <2>1 DEF WholeLines
<1>4. z - e = 0 => m + 1 = n
  <2>1. ASSUME z - e = 0 PROVE e = z
    BY <2>1
  <2> QED
    BY <1>2, <1>3, <2>1
<1>5. ASSUME z - e > 0
      PROVE  z - e > 1 /\ v[1] = m + 1 + 1 /\ v[z - e] = Newline /\ v[(z - e) - 1] = n
  <2>1. 1 \in 1 .. z - e /\ z - e \in 1 .. z - e /\ (z - e) + e = z /\ 1 + e = e + 1 /\ e < z
    BY <1>5
  <2>2. v[1] = m + 1 + 1 /\ v[z - e] = Newline
    BY <1>1, <1>2, <1>3, <2>1
  <2>3. z - e # 1
    BY <2>2 DEF Newline
  <2>4. (z - e) - 1 \in 1 .. z - e /\ ((z - e) - 1) + e = z - 1
    BY <1>5, <2>3
  <2> QED
    BY <1>2, <1>5, <2>2, <2>3, <2>4
<1>6. \A i, j \in 1 .. z - e : i <= j /\ (\A k \in i .. j : v[k] # Newline) => v[j] = v[i]
  <2> SUFFICES ASSUME NEW i \in 1 .. z - e, NEW j \in 1 .. z - e, i <= j, \A k \in i .. j : v[k] # Newline
               PROVE  v[j] = v[i]
    OBVIOUS
  <2>1. i + e \in 1 .. z /\ j + e \in 1 .. z /\ i + e <= j + e
    OBVIOUS
  <2>2. ASSUME NEW k \in i + e .. j + e PROVE s[k] # Newline
    <3>1. k - e \in i .. j /\ k - e \in 1 .. z - e /\ (k - e) + e = k
      OBVIOUS
    <3> QED
      BY <3>1
  <2>3. s[j + e] = s[i + e]
    BY <2>1, <2>2 DEF WholeLines
  <2> QED
    BY <2>3
<1>7. \A i \in 1 .. z - e : v[i] = Newline =>
          i > 1 /\ v[i - 1] # Newline /\ (i < z - e => v[i + 1] = v[i - 1] + 1)
  <2> SUFFICES ASSUME NEW i \in 1 .. z - e, v[i] = Newline
               PROVE  i > 1 /\ v[i - 1] # Newline /\ (i < z - e => v[i + 1] = v[i - 1] + 1)
    OBVIOUS
  <2>1. i + e \in 1 .. z /\ s[i + e] = Newline
    OBVIOUS
  <2>2. s[(i + e) - 1] # Newline /\ (i + e < z => s[(i + e) + 1] = s[(i + e) - 1] + 1)
    BY <2>1 DEF WholeLines
  <2>3. i # 1
    <3>1. z - e > 0
      OBVIOUS
    <3> QED
      BY <1>5, <3>1 DEF Newline
  <2>4. i > 1 /\ i - 1 \in 1 .. z - e /\ (i - 1) + e = (i + e) - 1
    BY <2>3
  <2>5. v[i - 1] = s[(i + e) - 1]
    BY <2>4
  <2>6. ASSUME i < z - e PROVE v[i + 1] = v[i - 1] + 1
    <3>1. i + 1 \in 1 .. z - e /\ i + e < z /\ (i + 1) + e = (i + e) + 1
      BY <2>6
    <3>2. v[i + 1] = s[(i + e) + 1]
      BY <3>1
    <3> QED
      BY <2>2, <2>5, <3>1, <3>2
  <2> QED
    BY <2>2, <2>4, <2>5, <2>6
<1> QED
  BY <1>2, <1>4, <1>5, <1>6, <1>7 DEF WholeLines

\* What it says only depends on the bytes.
LEMMA SameLines ==
    ASSUME NEW s, NEW v, NEW z \in Nat, NEW m, NEW n, WholeLines(s, z, m, n), \A i \in 1 .. z : v[i] = s[i]
    PROVE  WholeLines(v, z, m, n)
<1>1. z > 0 => z > 1 /\ v[1] = s[1] /\ v[z] = s[z] /\ v[z - 1] = s[z - 1]
  BY DEF WholeLines
<1>2. \A i, j \in 1 .. z : i <= j /\ (\A k \in i .. j : v[k] # Newline) => v[j] = v[i]
  <2> SUFFICES ASSUME NEW i \in 1 .. z, NEW j \in 1 .. z, i <= j, \A k \in i .. j : v[k] # Newline
               PROVE  v[j] = v[i]
    OBVIOUS
  <2>1. \A k \in i .. j : s[k] # Newline
    OBVIOUS
  <2> QED
    BY <2>1 DEF WholeLines
<1>3. \A i \in 1 .. z : v[i] = Newline =>
          i > 1 /\ v[i - 1] # Newline /\ (i < z => v[i + 1] = v[i - 1] + 1)
  <2> SUFFICES ASSUME NEW i \in 1 .. z, v[i] = Newline
               PROVE  i > 1 /\ v[i - 1] # Newline /\ (i < z => v[i + 1] = v[i - 1] + 1)
    OBVIOUS
  <2>1. i > 1 /\ s[i - 1] # Newline /\ (i < z => s[i + 1] = s[i - 1] + 1)
    BY DEF WholeLines
  <2>2. v[i - 1] = s[i - 1] /\ (i < z => v[i + 1] = s[i + 1])
    BY <2>1
  <2> QED
    BY <2>1, <2>2
<1> QED
  BY <1>1, <1>2, <1>3 DEF WholeLines

-----------------------------------------------------------------------------
(* The bytes on their way: what is buffered, then what is in transit.      *)

\* The bytes of t2 are those of t and a line of len bytes c.
LongerBy(b, t, t2, len, c) ==
    LET z == Len(b) + Len(t)
    IN  /\ t2 \in Bytes /\ Len(t2) = Len(t) + len + 1
        /\ \A i \in 1 .. z : (b \o t2)[i] = (b \o t)[i]
        /\ \A i \in z + 1 .. z + len : (b \o t2)[i] = c
        /\ (b \o t2)[z + len + 1] = Newline

LEMMA LineWritten ==
    ASSUME NEW b \in Bytes, NEW t \in Bytes, NEW word \in Bytes, NEW len \in Nat, NEW c \in Nat,
           Len(word) = len, \A i \in 1 .. len : word[i] = c,
           NEW t2, t2 = (t \o word) \o <<Newline>>
    PROVE  LongerBy(b, t, t2, len, c)
<1>1. word \in Seq(Nat) /\ Len(word) = len /\ \A i \in 1 .. len : word[i] = c
  BY DEF Bytes
<1>2. <<Newline>> \in Seq(Nat) /\ Len(<<Newline>>) = 1 /\ <<Newline>>[1] = Newline
  BY DEF Newline
<1>3. b \in Seq(Nat) /\ t \in Seq(Nat)
  BY DEF Bytes
<1> DEFINE end == <<Newline>>
           w   == t \o word
           p   == Len(b)
           q   == Len(t)
<1>4. p \in Nat /\ q \in Nat
  BY <1>3
<1>5. /\ w \in Seq(Nat) /\ Len(w) = q + len
      /\ \A i \in 1 .. q + len : w[i] = IF i <= q THEN t[i] ELSE word[i - q]
  BY <1>1, <1>3, ConcatProperties
<1>0. t2 = w \o end
  BY DEF w
<1> HIDE DEF w, end
<1>6. /\ t2 \in Seq(Nat) /\ Len(t2) = q + len + 1
      /\ \A i \in 1 .. (q + len) + 1 : t2[i] = IF i <= q + len THEN w[i] ELSE end[i - (q + len)]
  <2>1. end \in Seq(Nat) /\ Len(end) = 1
    BY <1>2 DEF end
  <2>2. w \in Seq(Nat) /\ Len(w) = q + len
    BY <1>5
  <2>3. /\ w \o end \in Seq(Nat) /\ Len(w \o end) = Len(w) + Len(end)
        /\ \A i \in 1 .. Len(w) + Len(end) :
              (w \o end)[i] = IF i <= Len(w) THEN w[i] ELSE end[i - Len(w)]
    BY ONLY <2>1, <2>2, ConcatProperties
  <2> QED
    BY ONLY <1>0, <2>1, <2>2, <2>3
<1>7. \A i \in 1 .. p + (q + len + 1) : (b \o t2)[i] = IF i <= p THEN b[i] ELSE t2[i - p]
  <2>1. b \in Seq(Nat) /\ t2 \in Seq(Nat) /\ Len(t2) = q + len + 1
    BY <1>3, <1>6
  <2> QED
    BY ONLY <2>1, ConcatProperties
<1>8. \A i \in 1 .. p + q : (b \o t)[i] = IF i <= p THEN b[i] ELSE t[i - p]
  BY <1>3, ConcatProperties
<1> DEFINE B(i) == (b \o t2)[i]
           A(i) == (b \o t)[i]
<1>9. ASSUME NEW i \in 1 .. p + q PROVE B(i) = A(i)
  <2>1. i \in 1 .. p + (q + len + 1)
    BY ONLY <1>4, <1>9, len \in Nat
  <2>2. CASE i <= p
    BY <1>7, <1>8, <2>1, <2>2
  <2>3. CASE ~ (i <= p)
    <3>1. i - p \in 1 .. (q + len) + 1 /\ i - p \in 1 .. q + len /\ i - p <= q /\ i - p <= q + len
      BY ONLY <1>4, <1>9, <2>3, len \in Nat
    <3>2. t2[i - p] = w[i - p] /\ w[i - p] = t[i - p]
      BY <1>5, <1>6, <3>1
    <3> QED
      BY <1>7, <1>8, <2>1, <2>3, <3>2
  <2> QED
    BY <2>2, <2>3
<1>10. ASSUME NEW i \in p + q + 1 .. p + q + len PROVE B(i) = c
  <2>1. i \in 1 .. p + (q + len + 1) /\ ~ (i <= p)
    BY ONLY <1>4, <1>10, len \in Nat
  <2>2. i - p \in 1 .. (q + len) + 1 /\ i - p \in 1 .. q + len /\ ~ (i - p <= q) /\ i - p <= q + len
        /\ (i - p) - q \in 1 .. len
    BY ONLY <1>4, <1>10, len \in Nat
  <2>3. t2[i - p] = w[i - p] /\ w[i - p] = word[(i - p) - q]
    BY <1>5, <1>6, <2>2
  <2> QED
    BY <1>1, <1>7, <2>1, <2>2, <2>3
<1>11. B(p + q + len + 1) = Newline
  <2> DEFINE i == p + q + len + 1
  <2>1. i \in 1 .. p + (q + len + 1) /\ ~ (i <= p) /\ i - p \in 1 .. (q + len) + 1
        /\ ~ (i - p <= q + len) /\ (i - p) - (q + len) = 1
    BY ONLY <1>4, len \in Nat
  <2>2. t2[i - p] = end[1] /\ B(i) = t2[i - p]
    BY <1>6, <1>7, <2>1
  <2> QED
    BY <1>2, <2>2 DEF end
<1> QED
  BY <1>6, <1>9, <1>10, <1>11 DEF Bytes, LongerBy

\* The next bytes are received.
LEMMA BytesReceived ==
    ASSUME NEW b \in Bytes, NEW t \in Bytes, NEW k \in 0 .. Len(t)
    PROVE  LET r  == b \o SubSeq(t, 1, k)
               t2 == SubSeq(t, k + 1, Len(t))
           IN  /\ r \in Bytes /\ t2 \in Bytes
               /\ Len(r) + Len(t2) = Len(b) + Len(t)
               /\ \A i \in 1 .. Len(b) + Len(t) : (r \o t2)[i] = (b \o t)[i]
<1>1. b \in Seq(Nat) /\ t \in Seq(Nat) /\ Len(b) \in Nat /\ Len(t) \in Nat
  BY DEF Bytes
<1> DEFINE first == SubSeq(t, 1, k)
           r     == b \o first
           t2    == SubSeq(t, k + 1, Len(t))
<1>2. first \in Seq(Nat) /\ t2 \in Seq(Nat)
  BY <1>1
<1> DEFINE p == Len(b)
           q == Len(t)
<1>3. /\ k \in Nat /\ k <= q /\ q \in Nat /\ p \in Nat
      /\ Len(first) = k /\ \A i \in 1 .. k : first[i] = t[i]
      /\ Len(t2) = q - k /\ \A i \in 1 .. q - k : t2[i] = t[k + i]
  BY <1>1
<1> HIDE DEF first, t2
<1>4. /\ r \in Seq(Nat) /\ Len(r) = p + k
      /\ \A i \in 1 .. p + k : r[i] = IF i <= p THEN b[i] ELSE first[i - p]
  BY <1>1, <1>2, <1>3, ConcatProperties
<1> HIDE DEF r, p, q
<1>5. \A i \in 1 .. (p + k) + (q - k) : (r \o t2)[i] = IF i <= p + k THEN r[i] ELSE t2[i - (p + k)]
  BY <1>2, <1>3, <1>4, ConcatProperties
<1>6. \A i \in 1 .. p + q : (b \o t)[i] = IF i <= p THEN b[i] ELSE t[i - p]
  BY <1>1, ConcatProperties DEF p, q
<1>7. ASSUME NEW i \in 1 .. p + q PROVE (r \o t2)[i] = (b \o t)[i]
  <2>1. i \in 1 .. (p + k) + (q - k)
    BY ONLY <1>3, <1>7
  <2>2. CASE i <= p
    <3>1. i \in 1 .. p + k /\ i <= p + k
      BY ONLY <1>3, <1>7, <2>2
    <3> QED
      BY <1>4, <1>5, <1>6, <2>1, <2>2, <3>1
  <2>3. CASE ~ (i <= p) /\ i <= p + k
    <3>1. i \in 1 .. p + k /\ i - p \in 1 .. k
      BY ONLY <1>3, <1>7, <2>3
    <3>2. first[i - p] = t[i - p]
      BY <1>3, <3>1
    <3> QED
      BY <1>4, <1>5, <1>6, <2>1, <2>3, <3>1, <3>2
  <2>4. CASE ~ (i <= p + k)
    <3>1. i - (p + k) \in 1 .. q - k /\ k + (i - (p + k)) = i - p /\ ~ (i <= p)
      BY ONLY <1>3, <1>7, <2>4
    <3>2. t2[i - (p + k)] = t[i - p]
      BY <1>3, <3>1
    <3> QED
      BY <1>5, <1>6, <2>1, <2>4, <3>1, <3>2
  <2> QED
    BY <2>2, <2>3, <2>4
<1>8. Len(r) + Len(t2) = p + q
  BY <1>3, <1>4
<1> QED
  BY <1>2, <1>4, <1>7, <1>8 DEF Bytes, first, t2, r, p, q

\* A first line is taken out of the buffer.
LEMMA LineTaken ==
    ASSUME NEW r \in Bytes, NEW t \in Bytes, NEW e \in 1 .. Len(r)
    PROVE  LET v == SubSeq(r, e + 1, Len(r))
               z == Len(r) + Len(t)
           IN  /\ v \in Bytes /\ Len(v) + Len(t) = z - e
               /\ \A i \in 1 .. z - e : (v \o t)[i] = (r \o t)[i + e]
<1>1. r \in Seq(Nat) /\ t \in Seq(Nat)
  BY DEF Bytes
<1> DEFINE v == SubSeq(r, e + 1, Len(r))
           p == Len(r)
           q == Len(t)
<1>2. p \in Nat /\ q \in Nat /\ e \in Nat /\ e <= p /\ e >= 1
  BY <1>1
<1>3. v \in Seq(Nat) /\ Len(v) = (IF e + 1 <= p THEN p - (e + 1) + 1 ELSE 0)
      /\ \A i \in 1 .. p - (e + 1) + 1 : v[i] = r[(e + 1) + i - 1]
  <2>1. e + 1 \in Int /\ p \in Int /\ \A i \in e + 1 .. p : r[i] \in Nat
    BY <1>1, <1>2
  <2> QED
    BY <2>1, SubSeqProperties
<1> HIDE DEF v, p, q
<1>4. Len(v) = p - e
  BY <1>2, <1>3
<1>5. ASSUME NEW i \in 1 .. p - e PROVE v[i] = r[i + e]
  <2>1. i \in 1 .. p - (e + 1) + 1 /\ (e + 1) + i - 1 = i + e
    BY ONLY <1>2, <1>5
  <2> QED
    BY <1>3, <2>1
<1>6. \A i \in 1 .. (p - e) + q : (v \o t)[i] = IF i <= p - e THEN v[i] ELSE t[i - (p - e)]
  <2>1. v \in Seq(Nat) /\ t \in Seq(Nat)
    BY <1>1, <1>3
  <2>2. \A i \in 1 .. Len(v) + Len(t) : (v \o t)[i] = IF i <= Len(v) THEN v[i] ELSE t[i - Len(v)]
    BY ONLY <2>1, ConcatProperties
  <2> QED
    BY ONLY <1>4, <2>2 DEF q
<1>7. \A i \in 1 .. p + q : (r \o t)[i] = IF i <= p THEN r[i] ELSE t[i - p]
  BY <1>1, ConcatProperties DEF p, q
<1>8. ASSUME NEW i \in 1 .. (p + q) - e PROVE (v \o t)[i] = (r \o t)[i + e]
  <2>1. i \in 1 .. (p - e) + q /\ i + e \in 1 .. p + q /\ i - (p - e) = (i + e) - p
    BY ONLY <1>2, <1>8
  <2>2. CASE i <= p - e
    <3>1. i \in 1 .. p - e /\ i + e <= p
      BY ONLY <1>2, <1>8, <2>2
    <3> QED
      BY <1>5, <1>6, <1>7, <2>1, <2>2, <3>1
  <2>3. CASE ~ (i <= p - e)
    <3>1. ~ (i + e <= p)
      BY ONLY <1>2, <1>8, <2>3
    <3> QED
      BY <1>6, <1>7, <2>1, <2>3, <3>1
  <2> QED
    BY <2>2, <2>3
<1>9. (p - e) + q = (p + q) - e
  BY ONLY <1>2
<1> QED
  BY <1>3, <1>4, <1>8, <1>9 DEF Bytes, v, p, q

-----------------------------------------------------------------------------
(* The stream.                                                             *)

\* The first line that is not dispatched, less one.
Behind == Len(dispatched) + (IF gui = "connecting" THEN 0 ELSE 1)

LinesSoFar ==
    /\ dispatched = [i \in 1 .. Len(dispatched) |-> i + 1]
    /\ gui = "drawing" => ~HasLine(buffer) \/ link = "failed"

StreamInv ==
    /\ sent \in Nat /\ buffer \in Bytes /\ transit \in Bytes /\ dispatched \in Seq(Nat)
    /\ gui = "connecting" => dispatched = <<>>
    /\ gui # "gone" => WholeLines(buffer \o transit, Len(buffer) + Len(transit), Behind, sent)
    /\ LinesSoFar

LEMMA StreamStarts == StreamInit => StreamInv
<1> SUFFICES ASSUME StreamInit PROVE StreamInv
  OBVIOUS
<1>1. sent = 0 /\ buffer = <<>> /\ transit = <<>> /\ dispatched = <<>> /\ gui = "connecting"
  BY DEF StreamInit
<1>2. Len(<<>>) = 0 /\ <<>> \in Bytes /\ <<>> \in Seq(Nat) /\ Len(<<>>) + Len(<<>>) = 0
  BY DEF Bytes
<1>3. Behind = 0
  BY <1>1, <1>2 DEF Behind
<1>4. WholeLines(buffer \o transit, 0, 0, 0)
  BY DEF WholeLines
<1>5. <<>> = [i \in 1 .. Len(<<>>) |-> i + 1]
  BY <1>2
<1>6. gui # "drawing"
  BY <1>1
<1> QED
  BY <1>1, <1>2, <1>3, <1>4, <1>5, <1>6 DEF StreamInv, LinesSoFar

LEMMA SendStep == ASSUME StreamInv, ServerSends PROVE StreamInv'
<1> USE DEF StreamInv
<1>1. PICK len \in 1 .. MaxLine :
         transit' = transit \o [i \in 1 .. len |-> sent + 1] \o <<Newline>>
  BY DEF ServerSends
<1>2. sent' = sent + 1 /\ buffer' = buffer /\ dispatched' = dispatched /\ gui' = gui /\ link' = link
  BY DEF ServerSends
<1>3. len \in Nat /\ len > 0 /\ sent + 1 \in Nat /\ Behind \in Nat
      /\ Len(buffer) \in Nat /\ Len(transit) \in Nat
  BY StreamAssumption DEF Behind, Bytes
<1> DEFINE z == Len(buffer) + Len(transit)
<1>4. /\ transit' \in Bytes /\ Len(transit') = Len(transit) + len + 1
      /\ \A i \in 1 .. z : (buffer \o transit')[i] = (buffer \o transit)[i]
      /\ \A i \in z + 1 .. z + len : (buffer \o transit')[i] = sent + 1
      /\ (buffer \o transit')[z + len + 1] = Newline
  <2> DEFINE word == [i \in 1 .. len |-> sent + 1]
  <2>1. word \in Bytes /\ Len(word) = len /\ \A i \in 1 .. len : word[i] = sent + 1
    BY <1>3 DEF Bytes
  <2>2. transit' = (transit \o word) \o <<Newline>>
    BY <1>1
  <2>3. buffer \in Bytes /\ transit \in Bytes /\ len \in Nat /\ sent + 1 \in Nat
    BY <1>3
  <2> HIDE DEF word
  <2>4. LongerBy(buffer, transit, transit', len, sent + 1)
    BY ONLY <2>1, <2>2, <2>3, LineWritten
  <2> QED
    BY ONLY <2>4 DEF LongerBy
<1>5. Behind' = Behind
  BY <1>2 DEF Behind
<1>6. ASSUME gui # "gone"
      PROVE  WholeLines(buffer \o transit', z + len + 1, Behind, sent + 1)
  <2>1. WholeLines(buffer \o transit, z, Behind, sent) /\ z \in Nat
    BY <1>3, <1>6
  <2> HIDE DEF z
  <2> DEFINE v == buffer \o transit'
             s == buffer \o transit
  <2>2. /\ \A i \in 1 .. z : v[i] = s[i]
        /\ \A i \in z + 1 .. z + len : v[i] = sent + 1
        /\ v[z + len + 1] = Newline /\ WholeLines(s, z, Behind, sent)
    BY <1>4, <2>1
  <2> HIDE DEF v, s
  <2>3. WholeLines(v, z + len + 1, Behind, sent + 1)
    BY <1>3, <2>1, <2>2, LineMore
  <2> QED
    BY <2>3 DEF v
<1>7. z + len + 1 = Len(buffer) + Len(transit')
  BY <1>3, <1>4
<1>8. LinesSoFar'
  BY <1>2 DEF LinesSoFar, HasLine
<1> HIDE DEF z
<1> QED
  BY <1>2, <1>3, <1>4, <1>5, <1>6, <1>7, <1>8

LEMMA OtherSteps ==
    ASSUME StreamInv, UNCHANGED <<sent, transit, buffer, dispatched>>,
           link' = link \/ link # "failed",
           \/ gui' = gui \/ gui' = "gone" \/ (gui = "drawing" /\ gui' = "updating")
           \/ gui = "updating" /\ gui' = "drawing" /\ link' = "failed"
    PROVE  StreamInv'
<1> USE DEF StreamInv
<1>1. gui' # "gone" => Behind' = Behind /\ gui # "gone"
  BY DEF Behind
<1>2. LinesSoFar'
  BY DEF LinesSoFar, HasLine
<1>3. gui' = "connecting" => dispatched' = <<>>
  OBVIOUS
<1> QED
  BY <1>1, <1>2, <1>3

\* What a call of tryPopMessage leaves on its way, when it does not fail.
LEMMA Popped ==
    ASSUME StreamInv, NEW k \in 0 .. Chunk, TryPop(k), gui # "gone"
    PROVE  /\ sent' = sent
           /\ Found(k) = "overrun" => buffer' \in Bytes /\ transit' \in Bytes
           /\ Found(k) = "nothing" =>
                 /\ buffer' \in Bytes /\ transit' \in Bytes /\ ~ HasLine(buffer')
                 /\ WholeLines(buffer' \o transit', Len(buffer') + Len(transit'), Behind, sent)
           /\ Found(k) = "line" =>
                 /\ buffer' \in Bytes /\ transit' \in Bytes /\ LineOf(Received(k)) = Behind + 1
                 /\ WholeLines(buffer' \o transit', Len(buffer') + Len(transit'), Behind + 1, sent)
<1> USE DEF StreamInv
<1>1. /\ k \in 0 .. Len(transit) /\ sent' = sent
      /\ transit' = SubSeq(transit, k + 1, Len(transit))
      /\ Found(k) = "overrun" => buffer' = buffer
      /\ Found(k) = "nothing" => buffer' = Received(k)
      /\ Found(k) = "line" => buffer' = Rest(Received(k))
  <2>1. k \in Nat /\ k <= Len(transit) /\ Len(transit) \in Nat
    BY StreamAssumption DEF TryPop, Bytes
  <2> QED
    BY <2>1 DEF TryPop
<1> DEFINE r == Received(k)
           s == buffer \o transit
           z == Len(buffer) + Len(transit)
<1>2. /\ r \in Bytes /\ transit' \in Bytes /\ Len(r) + Len(transit') = z
      /\ \A i \in 1 .. z : (r \o transit')[i] = s[i]
  BY <1>1, BytesReceived DEF Received
<1>3. WholeLines(s, z, Behind, sent) /\ z \in Nat /\ sent \in Nat /\ Behind \in Nat
  BY DEF Behind, Bytes
<1>4. Len(r) \in Nat /\ Len(transit') \in Nat
  BY <1>2 DEF Bytes
<1> HIDE DEF r, s, z
<1> DEFINE u == r \o transit'
<1>5. WholeLines(u, z, Behind, sent)
  <2>1. \A i \in 1 .. z : u[i] = s[i]
    BY <1>2
  <2> HIDE DEF u
  <2> QED
    BY <1>3, <2>1, SameLines
<1>6. Found(k) = "nothing" => ~ HasLine(r)
  BY DEF Found, r
<1>7. Found(k) = "line" => HasLine(r)
  BY DEF Found, r
<1>8. ASSUME HasLine(r)
      PROVE  /\ Rest(r) \in Bytes /\ LineOf(r) = Behind + 1
             /\ WholeLines(Rest(r) \o transit', Len(Rest(r)) + Len(transit'), Behind + 1, sent)
  <2> DEFINE e == FirstEnd(r)
             v == Rest(r)
             w == v \o transit'
  <2>1. e \in 1 .. Len(r) /\ r[e] = Newline /\ \A j \in 1 .. e - 1 : r[j] # Newline
    <3>1. r \in Bytes /\ HasLine(r)
      BY <1>2, <1>8
    <3>2. /\ FirstEnd(r) \in DOMAIN r /\ r[FirstEnd(r)] = Newline
          /\ \A j \in 1 .. FirstEnd(r) - 1 : r[j] # Newline
      BY ONLY <3>1, FirstEndIs
    <3>3. DOMAIN r = 1 .. Len(r)
      BY ONLY <3>1 DEF Bytes
    <3> QED
      BY ONLY <3>2, <3>3
  <2> HIDE DEF e
  <2>2. v \in Bytes /\ Len(v) + Len(transit') = z - e /\ \A i \in 1 .. z - e : w[i] = u[i + e]
    BY <1>2, <2>1, LineTaken DEF Rest, e
  <2>3. \A i \in 1 .. Len(r) : u[i] = r[i]
    BY <1>2, ConcatProperties DEF Bytes
  <2> HIDE DEF v, w, u
  <2>4. e \in 1 .. z /\ 1 \in 1 .. Len(r)
    BY <1>2, <1>3, <1>4, <2>1
  <2>5. u[e] = Newline /\ u[1] = r[1]
    BY <2>1, <2>3, <2>4
  <2>6. ASSUME NEW j \in 1 .. e - 1 PROVE u[j] # Newline
    <3>1. j \in 1 .. Len(r)
      BY ONLY <1>4, <2>1, <2>6
    <3> QED
      BY <2>1, <2>3, <3>1
  <2>7. u[1] = Behind + 1 /\ WholeLines(w, z - e, Behind + 1, sent)
    BY <1>3, <1>5, <2>2, <2>4, <2>5, <2>6, LineLess
  <2> QED
    BY <2>2, <2>5, <2>7 DEF v, w, LineOf
<1> QED
  BY <1>1, <1>2, <1>5, <1>6, <1>7, <1>8 DEF r, u

LEMMA ConnectStep == ASSUME StreamInv, NEW k \in 0 .. Chunk, Connect(k) PROVE StreamInv'
<1> USE DEF StreamInv
<1>1. /\ gui = "connecting" /\ TryPop(k) /\ dispatched' = dispatched /\ dispatched = <<>>
      /\ Found(k) \in {"overrun", "line", "nothing"}
      /\ gui' = IF Found(k) = "nothing" THEN gui
                ELSE IF Found(k) = "line" /\ LineOf(Received(k)) = Welcome THEN "updating" ELSE "gone"
  BY DEF Connect, Found
<1>2. /\ sent' = sent /\ buffer' \in Bytes /\ transit' \in Bytes
      /\ Found(k) = "nothing" =>
            WholeLines(buffer' \o transit', Len(buffer') + Len(transit'), Behind, sent)
      /\ Found(k) = "line" =>
            WholeLines(buffer' \o transit', Len(buffer') + Len(transit'), Behind + 1, sent)
  BY <1>1, Popped
<1>3. Behind = 0
  BY <1>1 DEF Behind
<1>4. /\ Found(k) = "nothing" => Behind' = Behind
      /\ gui' = "updating" => Behind' = Behind + 1 /\ Found(k) = "line"
  BY <1>1, <1>3 DEF Behind
<1>5. LinesSoFar'
  BY <1>1 DEF LinesSoFar
<1> QED
  BY <1>1, <1>2, <1>4, <1>5

LEMMA UpdateStep == ASSUME StreamInv, NEW k \in 0 .. Chunk, UpdateClient(k) PROVE StreamInv'
<1> USE DEF StreamInv
<1>1. /\ gui = "updating" /\ TryPop(k) /\ Found(k) \in {"overrun", "line", "nothing"}
      /\ Found(k) = "line" => dispatched' = Append(dispatched, LineOf(Received(k))) /\ gui' = gui
      /\ Found(k) = "nothing" => dispatched' = dispatched /\ gui' = "drawing"
      /\ Found(k) = "overrun" => dispatched' = dispatched /\ gui' = "gone"
  BY DEF UpdateClient, Found
<1>2. /\ sent' = sent /\ buffer' \in Bytes /\ transit' \in Bytes
      /\ Found(k) = "nothing" =>
            /\ ~ HasLine(buffer')
            /\ WholeLines(buffer' \o transit', Len(buffer') + Len(transit'), Behind, sent)
      /\ Found(k) = "line" =>
            /\ LineOf(Received(k)) = Behind + 1
            /\ WholeLines(buffer' \o transit', Len(buffer') + Len(transit'), Behind + 1, sent)
  BY <1>1, Popped
<1>3. Behind = Len(dispatched) + 1 /\ Len(dispatched) \in Nat
  BY <1>1 DEF Behind
<1>4. dispatched = [i \in 1 .. Len(dispatched) |-> i + 1]
  BY DEF LinesSoFar
<1>5. CASE Found(k) = "line"
  <2>1. dispatched' = Append(dispatched, Len(dispatched) + 2) /\ gui' = "updating"
    BY <1>1, <1>2, <1>3, <1>5
  <2> DEFINE d == dispatched
  <2>2. /\ dispatched' \in Seq(Nat) /\ Len(dispatched') = Len(d) + 1
        /\ \A i \in 1 .. Len(d) : dispatched'[i] = d[i]
        /\ dispatched'[Len(d) + 1] = Len(d) + 2
    BY <1>3, <2>1, AppendProperties
  <2>3. dispatched' = [i \in 1 .. Len(dispatched') |-> i + 1]
    <3>1. ASSUME NEW i \in 1 .. Len(dispatched') PROVE dispatched'[i] = i + 1
      <4>1. i \in 1 .. Len(d) \/ i = Len(d) + 1
        BY <1>3, <2>2
      <4>2. ASSUME i \in 1 .. Len(d) PROVE d[i] = i + 1
        BY <1>4, <4>2
      <4> QED
        BY <1>3, <2>2, <4>1, <4>2
    <3>2. dispatched' = [i \in 1 .. Len(dispatched') |-> dispatched'[i]]
      BY <2>2
    <3> QED
      BY <3>1, <3>2
  <2>4. Behind' = Behind + 1
    BY <1>3, <2>1, <2>2 DEF Behind
  <2> QED
    BY <1>2, <1>5, <2>1, <2>2, <2>3, <2>4 DEF LinesSoFar
<1>6. CASE Found(k) = "nothing"
  <2>1. Behind' = Behind /\ gui' = "drawing" /\ dispatched' = dispatched
    BY <1>1, <1>6 DEF Behind
  <2>2. LinesSoFar'
    BY <1>2, <1>4, <1>6, <2>1 DEF LinesSoFar, HasLine
  <2> QED
    BY <1>2, <1>6, <2>1, <2>2
<1>7. CASE Found(k) = "overrun"
  BY <1>1, <1>2, <1>4, <1>7 DEF LinesSoFar
<1> QED
  BY <1>1, <1>5, <1>6, <1>7

LEMMA StreamInvKept == StreamInv /\ [StreamNext]_streamVars => StreamInv'
<1> SUFFICES ASSUME StreamInv, [StreamNext]_streamVars PROVE StreamInv'
  OBVIOUS
<1>1. CASE ServerSends
  BY <1>1, SendStep
<1>2. CASE ServerHangsUp
  BY <1>2, OtherSteps DEF ServerHangsUp
<1>3. CASE Disconnected
  BY <1>3, OtherSteps DEF Disconnected
<1>4. CASE ConnectTimeout
  BY <1>4, OtherSteps DEF ConnectTimeout
<1>8. CASE ConnectionBreaks
  BY <1>8, OtherSteps DEF ConnectionBreaks
<1>9. CASE RecvFails
  BY <1>9, OtherSteps DEF RecvFails
<1>5. CASE RenderFrame
  BY <1>5, OtherSteps DEF RenderFrame
<1>6. CASE \E n \in 0 .. Chunk : Connect(n) \/ UpdateClient(n)
  BY <1>6, ConnectStep, UpdateStep
<1>7. CASE UNCHANGED streamVars
  BY <1>7, OtherSteps DEF streamVars
<1> QED
  BY <1>1, <1>2, <1>3, <1>4, <1>5, <1>6, <1>7, <1>8, <1>9 DEF StreamNext

\* Each line from the first that is not dispatched to the last that was sent is on its way.
LEMMA LinesOnTheirWay ==
    ASSUME NEW s, NEW z \in Nat, NEW m \in Nat, NEW n \in Nat, WholeLines(s, z, m, n)
    PROVE  \A text \in m + 1 .. n : \E i \in 1 .. z : s[i] = text
<1> DEFINE missing == {text \in m + 1 .. n : \A i \in 1 .. z : s[i] # text}
<1> SUFFICES ASSUME missing # {} PROVE FALSE
  OBVIOUS
<1>1. missing \subseteq Nat
  OBVIOUS
<1>2. PICK text \in missing : \A other \in missing : text <= other
  BY <1>1, LeastOf
<1>3. text \in m + 1 .. n /\ \A i \in 1 .. z : s[i] # text
  BY <1>2
<1>4. z > 1 /\ s[1] = m + 1 /\ s[z] = Newline /\ s[z - 1] = n
  BY <1>3 DEF WholeLines
<1>5. text # m + 1
  BY <1>3, <1>4
<1>6. text - 1 \in m + 1 .. n /\ text - 1 \notin missing
  BY <1>2, <1>3, <1>5
<1>7. PICK i \in 1 .. z : s[i] = text - 1
  BY <1>6
<1>8. s[i] # Newline
  BY <1>3, <1>5, <1>7 DEF Newline
<1> DEFINE ends == {k \in i .. z : s[k] = Newline}
<1>9. ends \subseteq Nat /\ z \in ends
  BY <1>4
<1>10. PICK e \in ends : \A k \in ends : e <= k
  BY <1>9, LeastOf
<1>11. e \in i + 1 .. z /\ s[e] = Newline /\ \A k \in i .. e - 1 : s[k] # Newline
  BY <1>8, <1>10
<1>12. s[e - 1] = text - 1
  <2>1. e - 1 \in 1 .. z /\ i <= e - 1
    BY <1>11
  <2> QED
    BY <1>7, <1>11, <2>1 DEF WholeLines
<1>13. CASE e = z
  BY <1>3, <1>4, <1>12, <1>13
<1>14. CASE e # z
  <2>1. e \in 1 .. z /\ e < z /\ e + 1 \in 1 .. z
    BY <1>11, <1>14
  <2>2. s[e + 1] = s[e - 1] + 1
    BY <1>11, <2>1 DEF WholeLines
  <2> QED
    BY <1>3, <1>12, <2>1, <2>2
<1> QED
  BY <1>13, <1>14

LEMMA NoneMissing == StreamInv => LinesComeThroughWhole
<1> SUFFICES ASSUME StreamInv, gui \in {"updating", "drawing"}, NEW text \in Len(dispatched) + 2 .. sent
             PROVE  text \in ToSet(buffer \o transit)
  BY DEF StreamInv, LinesSoFar, LinesComeThroughWhole
<1> DEFINE s == buffer \o transit
           z == Len(buffer) + Len(transit)
<1>1. Behind = Len(dispatched) + 1 /\ Behind \in Nat /\ sent \in Nat
  BY DEF StreamInv, Behind
<1>2. WholeLines(s, z, Behind, sent) /\ z \in Nat /\ DOMAIN s = 1 .. z
  BY ConcatProperties DEF StreamInv, Bytes
<1>3. text \in Behind + 1 .. sent
  BY <1>1
<1> HIDE DEF s, z
<1>4. PICK i \in 1 .. z : s[i] = text
  BY <1>1, <1>2, <1>3, LinesOnTheirWay
<1> QED
  BY <1>2, <1>4 DEF ToSet, s

\* However the server's lines are cut by the socket, the spectator dispatches those after
\* WELCOME once each and in their order, misses none of them before the connection's end,
\* and draws no frame while one it has received waits, but for the one after recv has failed
\* (ClientSocket::tryPopMessage, Client::update).  Whether a line that came through
\* is read as it was written is a question about the two tables of Protocol alone, not
\* about a behaviour: AllArrive has no variable and no constant, and TLC evaluates it.
THEOREM LinesCorrect == StreamSpec => [](LinesComeThroughWhole /\ (AllArrive => LinesComeThrough))
<1>1. StreamInv => LinesComeThroughWhole /\ (AllArrive => LinesComeThrough)
  BY NoneMissing DEF LinesComeThrough, MessagesArriveAsMeant
<1> QED
  BY <1>1, StreamStarts, StreamInvKept, PTL DEF StreamSpec

-----------------------------------------------------------------------------
(* Panels.  Each thing a panel shows is right already, or will be by the   *)
(* last line about it on its way (lines sent, then those due), or has been *)
(* asked for.  So the argument is about sequences of lines: which is the   *)
(* last about a thing, which the first, and that nothing else is said of   *)
(* it; what holds of a sequence follows from its two parts.                *)

Tags == {"Initialized", "pnw", "pin", "plv", "ppo", "pdi", "enw", "ebo", "bct", "pic", "pie", "sgt", "sst", "sbp"}
Msg  == Tags \X Int \X Int

\* No line of s is in A; the last one that is, the first one that is, is in V; one of A
\* comes only after one of P.
Silent(s, A)     == \A n \in DOMAIN s : s[n] \notin A
LastIn(s, A, V)  ==
    \A n \in DOMAIN s : s[n] \in A /\ (\A k \in DOMAIN s : k > n => s[k] \notin A) => s[n] \in V
FirstIn(s, A, V) ==
    \A n \in DOMAIN s : s[n] \in A /\ (\A k \in DOMAIN s : k < n => s[k] \notin A) => s[n] \in V
OnlyFrom(s, G) == \A n \in DOMAIN s : s[n] \in G
OnlyAfter(s, P, A) == \A n \in DOMAIN s : s[n] \in A => \E k \in DOMAIN s : k < n /\ s[k] \in P


LEMMA Joined ==
    ASSUME NEW s \in Seq(Msg), NEW t \in Seq(Msg)
    PROVE  /\ s \o t \in Seq(Msg) /\ Len(s \o t) = Len(s) + Len(t)
           /\ \A n \in DOMAIN s : n \in DOMAIN (s \o t) /\ (s \o t)[n] = s[n]
           /\ \A n \in DOMAIN t : Len(s) + n \in DOMAIN (s \o t) /\ (s \o t)[Len(s) + n] = t[n]
           /\ \A n \in DOMAIN (s \o t) :
                 n \in DOMAIN s \/ (n > Len(s) /\ n - Len(s) \in DOMAIN t /\ (s \o t)[n] = t[n - Len(s)])
<1> DEFINE u == s \o t
           p == Len(s)
           q == Len(t)
<1>1. /\ u \in Seq(Msg) /\ Len(u) = p + q /\ p \in Nat /\ q \in Nat
      /\ DOMAIN u = 1 .. p + q /\ DOMAIN s = 1 .. p /\ DOMAIN t = 1 .. q
  BY ConcatProperties
<1>2. \A i \in 1 .. p + q : u[i] = IF i <= p THEN s[i] ELSE t[i - p]
  BY ONLY s \in Seq(Msg), t \in Seq(Msg), ConcatProperties
<1> HIDE DEF u, p, q
<1>3. \A n \in 1 .. p : n \in 1 .. p + q /\ u[n] = s[n]
  BY <1>1, <1>2
<1>4. \A n \in 1 .. q : p + n \in 1 .. p + q /\ u[p + n] = t[n]
  <2> TAKE n \in 1 .. q
  <2>1. p + n \in 1 .. p + q /\ ~(p + n <= p) /\ (p + n) - p = n
    BY <1>1
  <2> QED
    BY <1>2, <2>1
<1>5. \A n \in 1 .. p + q : n \in 1 .. p \/ (n > p /\ n - p \in 1 .. q /\ u[n] = t[n - p])
  BY <1>1, <1>2
<1> QED
  BY <1>1, <1>3, <1>4, <1>5 DEF u, p, q

LEMMA Regrouped ==
    \A s, t, u \in Seq(Msg) : (s \o t) \o u = s \o (t \o u)
BY ConcatAssociative, SMTT(30)

LEMMA SilentBoth ==
    ASSUME NEW s \in Seq(Msg), NEW t \in Seq(Msg), NEW A
    PROVE  Silent(s \o t, A) <=> Silent(s, A) /\ Silent(t, A)
<1> DEFINE u == s \o t
           p == Len(s)
           q == Len(t)
<1>1. /\ p \in Nat /\ q \in Nat /\ DOMAIN u = 1 .. p + q /\ DOMAIN s = 1 .. p /\ DOMAIN t = 1 .. q
  BY Joined
<1>2. /\ \A n \in 1 .. p : n \in 1 .. p + q /\ u[n] = s[n]
      /\ \A n \in 1 .. q : p + n \in 1 .. p + q /\ u[p + n] = t[n]
      /\ \A n \in 1 .. p + q : n \in 1 .. p \/ (n > p /\ n - p \in 1 .. q /\ u[n] = t[n - p])
  BY <1>1, Joined
<1> HIDE DEF u, p, q
<1>3. Silent(u, A) <=> Silent(s, A) /\ Silent(t, A)
  BY <1>1, <1>2 DEF Silent
<1> QED
  BY <1>3 DEF u

LEMMA LastInBoth ==
    ASSUME NEW s \in Seq(Msg), NEW t \in Seq(Msg), NEW A, NEW V
    PROVE  LastIn(s \o t, A, V) <=> LastIn(t, A, V) /\ (Silent(t, A) => LastIn(s, A, V))
<1> DEFINE u == s \o t
           p == Len(s)
           q == Len(t)
<1>1. /\ p \in Nat /\ q \in Nat /\ DOMAIN u = 1 .. p + q /\ DOMAIN s = 1 .. p /\ DOMAIN t = 1 .. q
  BY Joined
<1>2. /\ \A n \in 1 .. p : n \in 1 .. p + q /\ u[n] = s[n]
      /\ \A n \in 1 .. q : p + n \in 1 .. p + q /\ u[p + n] = t[n]
      /\ \A n \in 1 .. p + q : n \in 1 .. p \/ (n > p /\ n - p \in 1 .. q /\ u[n] = t[n - p])
  BY <1>1, Joined
<1> HIDE DEF u, p, q
<1>3. ASSUME LastIn(u, A, V) PROVE LastIn(t, A, V)
  <2> SUFFICES ASSUME NEW n \in 1 .. q, t[n] \in A, \A k \in 1 .. q : k > n => t[k] \notin A PROVE t[n] \in V
    BY <1>1 DEF LastIn
  <2>1. p + n \in 1 .. p + q /\ u[p + n] = t[n]
    BY <1>2
  <2>2. \A k \in 1 .. p + q : k > p + n => u[k] \notin A
    <3> SUFFICES ASSUME NEW k \in 1 .. p + q, k > p + n PROVE u[k] \notin A
      OBVIOUS
    <3>1. k \notin 1 .. p
      BY <1>1
    <3>2. k - p \in 1 .. q /\ u[k] = t[k - p]
      BY <1>2, <3>1
    <3>3. k - p > n
      BY <1>1
    <3> QED
      BY <3>2, <3>3
  <2> QED
    BY <1>1, <1>3, <2>1, <2>2 DEF LastIn
<1>4. ASSUME LastIn(u, A, V), Silent(t, A) PROVE LastIn(s, A, V)
  <2> SUFFICES ASSUME NEW n \in 1 .. p, s[n] \in A, \A k \in 1 .. p : k > n => s[k] \notin A PROVE s[n] \in V
    BY <1>1 DEF LastIn
  <2>1. \A k \in 1 .. p + q : k > n => u[k] \notin A
    BY <1>1, <1>2, <1>4 DEF Silent
  <2> QED
    BY <1>1, <1>2, <1>4, <2>1 DEF LastIn
<1>5. ASSUME LastIn(t, A, V), Silent(t, A) => LastIn(s, A, V) PROVE LastIn(u, A, V)
  <2> SUFFICES ASSUME NEW n \in 1 .. p + q, u[n] \in A, \A k \in 1 .. p + q : k > n => u[k] \notin A PROVE u[n] \in V
    BY <1>1 DEF LastIn
  <2>1. CASE n \in 1 .. p
    <3>1. Silent(t, A)
      <4> SUFFICES ASSUME NEW k \in 1 .. q PROVE t[k] \notin A
        BY <1>1 DEF Silent
      <4>1. p + k > n
        BY <1>1, <2>1
      <4> QED
        BY <1>2, <4>1
    <3>2. \A k \in 1 .. p : k > n => s[k] \notin A
      BY <1>2
    <3> QED
      BY <1>1, <1>2, <1>5, <2>1, <3>1, <3>2 DEF LastIn
  <2>2. CASE n \notin 1 .. p
    <3>1. n - p \in 1 .. q /\ u[n] = t[n - p]
      BY <1>2, <2>2
    <3>2. \A k \in 1 .. q : k > n - p => t[k] \notin A
      <4> SUFFICES ASSUME NEW k \in 1 .. q, k > n - p PROVE t[k] \notin A
        OBVIOUS
      <4>1. p + k > n
        BY <1>1
      <4> QED
        BY <1>2, <4>1
    <3> QED
      BY <1>1, <1>5, <3>1, <3>2 DEF LastIn
  <2> QED
    BY <2>1, <2>2
<1> QED
  BY <1>3, <1>4, <1>5 DEF u

LEMMA FirstInBoth ==
    ASSUME NEW s \in Seq(Msg), NEW t \in Seq(Msg), NEW A, NEW V
    PROVE  FirstIn(s \o t, A, V) <=> FirstIn(s, A, V) /\ (Silent(s, A) => FirstIn(t, A, V))
<1> DEFINE u == s \o t
           p == Len(s)
           q == Len(t)
<1>1. /\ p \in Nat /\ q \in Nat /\ DOMAIN u = 1 .. p + q /\ DOMAIN s = 1 .. p /\ DOMAIN t = 1 .. q
  BY Joined
<1>2. /\ \A n \in 1 .. p : n \in 1 .. p + q /\ u[n] = s[n]
      /\ \A n \in 1 .. q : p + n \in 1 .. p + q /\ u[p + n] = t[n]
      /\ \A n \in 1 .. p + q : n \in 1 .. p \/ (n > p /\ n - p \in 1 .. q /\ u[n] = t[n - p])
  BY <1>1, Joined
<1> HIDE DEF u, p, q
<1>3. ASSUME FirstIn(s, A, V), Silent(s, A) => FirstIn(t, A, V),
             NEW n \in 1 .. p + q, u[n] \in A, \A k \in 1 .. p + q : k < n => u[k] \notin A
      PROVE  u[n] \in V
  <2>1. CASE n \in 1 .. p
    BY <1>1, <1>2, <1>3, <2>1 DEF FirstIn
  <2>2. CASE n \notin 1 .. p
    <3>1. n - p \in 1 .. q /\ u[n] = t[n - p] /\ n > p
      BY <1>2, <2>2
    <3>2. Silent(s, A)
      <4> SUFFICES ASSUME NEW k \in 1 .. p PROVE s[k] \notin A
        BY <1>1 DEF Silent
      <4>1. k < n
        BY <1>1, <3>1
      <4> QED
        BY <1>2, <1>3, <4>1
    <3>3. \A k \in 1 .. q : k < n - p => t[k] \notin A
      <4> SUFFICES ASSUME NEW k \in 1 .. q, k < n - p PROVE t[k] \notin A
        OBVIOUS
      <4>1. p + k < n
        BY <1>1
      <4> QED
        BY <1>2, <1>3, <4>1
    <3> QED
      BY <1>1, <1>3, <3>1, <3>2, <3>3 DEF FirstIn
  <2> QED
    BY <2>1, <2>2
<1>4. ASSUME FirstIn(u, A, V) PROVE FirstIn(s, A, V)
  <2> SUFFICES ASSUME NEW n \in 1 .. p, s[n] \in A, \A k \in 1 .. p : k < n => s[k] \notin A PROVE s[n] \in V
    BY <1>1 DEF FirstIn
  <2>1. \A k \in 1 .. p + q : k < n => u[k] \notin A
    BY <1>1, <1>2
  <2> QED
    BY <1>1, <1>2, <1>4, <2>1 DEF FirstIn
<1>5. ASSUME FirstIn(u, A, V), Silent(s, A) PROVE FirstIn(t, A, V)
  <2> SUFFICES ASSUME NEW n \in 1 .. q, t[n] \in A, \A k \in 1 .. q : k < n => t[k] \notin A PROVE t[n] \in V
    BY <1>1 DEF FirstIn
  <2>1. \A k \in 1 .. p + q : k < p + n => u[k] \notin A
    <3> SUFFICES ASSUME NEW k \in 1 .. p + q, k < p + n PROVE u[k] \notin A
      OBVIOUS
    <3>1. CASE k \in 1 .. p
      BY <1>1, <1>2, <1>5, <3>1 DEF Silent
    <3>2. CASE k \notin 1 .. p
      <4>1. k - p \in 1 .. q /\ u[k] = t[k - p]
        BY <1>2, <3>2
      <4>2. k - p < n
        BY <1>1
      <4> QED
        BY <4>1, <4>2
    <3> QED
      BY <3>1, <3>2
  <2> QED
    BY <1>1, <1>2, <1>5, <2>1 DEF FirstIn
<1>6. ASSUME FirstIn(s, A, V), Silent(s, A) => FirstIn(t, A, V) PROVE FirstIn(u, A, V)
  BY <1>1, <1>3, <1>6 DEF FirstIn
<1> QED
  BY <1>4, <1>5, <1>6 DEF u

LEMMA OnlyAfterBoth ==
    ASSUME NEW s \in Seq(Msg), NEW t \in Seq(Msg), NEW P, NEW A
    PROVE  OnlyAfter(s \o t, P, A) <=> OnlyAfter(s, P, A) /\ (Silent(s, P) => OnlyAfter(t, P, A))
<1> DEFINE u == s \o t
           p == Len(s)
           q == Len(t)
<1>1. /\ p \in Nat /\ q \in Nat /\ DOMAIN u = 1 .. p + q /\ DOMAIN s = 1 .. p /\ DOMAIN t = 1 .. q
  BY Joined
<1>2. /\ \A n \in 1 .. p : n \in 1 .. p + q /\ u[n] = s[n]
      /\ \A n \in 1 .. q : p + n \in 1 .. p + q /\ u[p + n] = t[n]
      /\ \A n \in 1 .. p + q : n \in 1 .. p \/ (n > p /\ n - p \in 1 .. q /\ u[n] = t[n - p])
  BY <1>1, Joined
<1> HIDE DEF u, p, q
<1>3. ASSUME OnlyAfter(s, P, A), Silent(s, P) => OnlyAfter(t, P, A), NEW n \in 1 .. p + q, u[n] \in A
      PROVE  \E k \in 1 .. p + q : k < n /\ u[k] \in P
  <2>1. CASE n \in 1 .. p
    <3>1. PICK k \in 1 .. p : k < n /\ s[k] \in P
      BY <1>1, <1>2, <1>3, <2>1 DEF OnlyAfter
    <3> QED
      BY <1>2, <3>1
  <2>2. CASE n \notin 1 .. p
    <3>1. n - p \in 1 .. q /\ u[n] = t[n - p] /\ n > p
      BY <1>2, <2>2
    <3>2. CASE Silent(s, P)
      <4>1. PICK k \in 1 .. q : k < n - p /\ t[k] \in P
        BY <1>1, <1>3, <3>1, <3>2 DEF OnlyAfter
      <4>2. p + k < n
        BY <1>1, <4>1
      <4> QED
        BY <1>2, <4>1, <4>2
    <3>3. CASE ~Silent(s, P)
      <4>1. PICK k \in 1 .. p : s[k] \in P
        BY <1>1, <3>3 DEF Silent
      <4>2. k < n
        BY <1>1, <3>1
      <4> QED
        BY <1>2, <4>1, <4>2
    <3> QED
      BY <3>2, <3>3
  <2> QED
    BY <2>1, <2>2
<1>4. ASSUME OnlyAfter(u, P, A) PROVE OnlyAfter(s, P, A)
  <2> SUFFICES ASSUME NEW n \in 1 .. p, s[n] \in A PROVE \E k \in 1 .. p : k < n /\ s[k] \in P
    BY <1>1 DEF OnlyAfter
  <2>1. PICK k \in 1 .. p + q : k < n /\ u[k] \in P
    BY <1>1, <1>2, <1>4 DEF OnlyAfter
  <2>2. k \in 1 .. p
    BY <1>1, <2>1
  <2> QED
    BY <1>2, <2>1, <2>2
<1>5. ASSUME OnlyAfter(u, P, A), Silent(s, P) PROVE OnlyAfter(t, P, A)
  <2> SUFFICES ASSUME NEW n \in 1 .. q, t[n] \in A PROVE \E k \in 1 .. q : k < n /\ t[k] \in P
    BY <1>1 DEF OnlyAfter
  <2>1. PICK k \in 1 .. p + q : k < p + n /\ u[k] \in P
    BY <1>1, <1>2, <1>5 DEF OnlyAfter
  <2>2. k \notin 1 .. p
    BY <1>1, <1>2, <1>5, <2>1 DEF Silent
  <2>3. k - p \in 1 .. q /\ u[k] = t[k - p]
    BY <1>2, <2>2
  <2>4. k - p < n
    BY <1>1, <2>1
  <2> QED
    BY <2>1, <2>3, <2>4
<1>6. ASSUME OnlyAfter(s, P, A), Silent(s, P) => OnlyAfter(t, P, A) PROVE OnlyAfter(u, P, A)
  BY <1>1, <1>3, <1>6 DEF OnlyAfter
<1> QED
  BY <1>4, <1>5, <1>6 DEF u

LEMMA OnlyFromBoth ==
    ASSUME NEW s \in Seq(Msg), NEW t \in Seq(Msg), NEW G
    PROVE  OnlyFrom(s \o t, G) <=> OnlyFrom(s, G) /\ OnlyFrom(t, G)
<1> DEFINE u == s \o t
           p == Len(s)
           q == Len(t)
<1>1. /\ p \in Nat /\ q \in Nat /\ DOMAIN u = 1 .. p + q /\ DOMAIN s = 1 .. p /\ DOMAIN t = 1 .. q
  BY Joined
<1>2. /\ \A n \in 1 .. p : n \in 1 .. p + q /\ u[n] = s[n]
      /\ \A n \in 1 .. q : p + n \in 1 .. p + q /\ u[p + n] = t[n]
      /\ \A n \in 1 .. p + q : n \in 1 .. p \/ (n > p /\ n - p \in 1 .. q /\ u[n] = t[n - p])
  BY <1>1, Joined
<1> HIDE DEF u, p, q
<1>3. OnlyFrom(u, G) <=> OnlyFrom(s, G) /\ OnlyFrom(t, G)
  BY <1>1, <1>2 DEF OnlyFrom
<1> QED
  BY <1>3 DEF u

LEMMA HeadAndTail ==
    ASSUME NEW s \in Seq(Msg), s # <<>>
    PROVE  Head(s) \in Msg /\ Tail(s) \in Seq(Msg) /\ s = <<Head(s)>> \o Tail(s)
<1> DEFINE h == Head(s)
           t == Tail(s)
           n == Len(s)
           u == <<h>> \o t
<1>1. h \in Msg /\ t \in Seq(Msg) /\ Len(t) = n - 1 /\ n \in Nat /\ \A i \in 1 .. Len(t) : t[i] = s[i + 1]
  BY HeadTailProperties
<1>2. h = s[1] /\ <<h>> \in Seq(Msg) /\ Len(<<h>>) = 1 /\ <<h>>[1] = h
  BY <1>1
<1>3. u \in Seq(Msg) /\ Len(u) = Len(<<h>>) + Len(t)
      /\ \A i \in 1 .. Len(<<h>>) + Len(t) : u[i] = IF i <= Len(<<h>>) THEN <<h>>[i] ELSE t[i - Len(<<h>>)]
  <2>1. <<h>> \in Seq(Msg) /\ t \in Seq(Msg)
    BY <1>1, <1>2
  <2> QED
    BY ONLY <2>1, ConcatProperties
<1> DEFINE one == <<h>>
<1>4. one[1] = s[1] /\ Len(one) = 1
  BY <1>2
<1>5. Len(u) = 1 + (n - 1) /\ \A i \in 1 .. 1 + (n - 1) : u[i] = IF i <= 1 THEN one[i] ELSE t[i - 1]
  BY <1>1, <1>3, <1>4
<1> HIDE DEF h, t, n, u, one
<1>6. Len(u) = n
  BY <1>1, <1>5
<1>7. \A i \in 1 .. n : s[i] = u[i]
  <2> TAKE i \in 1 .. n
  <2>1. CASE i = 1
    BY <1>1, <1>4, <1>5, <2>1
  <2>2. CASE i # 1
    <3>1. i - 1 \in 1 .. n - 1 /\ (i - 1) + 1 = i /\ ~(i <= 1) /\ i \in 1 .. 1 + (n - 1)
      BY <1>1, <2>2
    <3>2. u[i] = t[i - 1] /\ t[i - 1] = s[i]
      BY <1>1, <1>5, <3>1
    <3> QED
      BY <3>2
  <2> QED
    BY <2>1, <2>2
<1>8. s = u
  <2>1. Len(s) = Len(u) /\ \A i \in 1 .. Len(s) : s[i] = u[i]
    BY <1>6, <1>7 DEF n
  <2> QED
    BY <1>3, <2>1, SeqEqual
<1> QED
  BY <1>1, <1>8 DEF h, t, u

\* All of it, of u that is s followed by t, and of one line.
Follows(s, t, u) ==
    /\ \A A : Silent(u, A) <=> Silent(s, A) /\ Silent(t, A)
    /\ \A A, V : LastIn(u, A, V) <=> LastIn(t, A, V) /\ (Silent(t, A) => LastIn(s, A, V))
    /\ \A A, V : FirstIn(u, A, V) <=> FirstIn(s, A, V) /\ (Silent(s, A) => FirstIn(t, A, V))
    /\ \A P, A : OnlyAfter(u, P, A) <=> OnlyAfter(s, P, A) /\ (Silent(s, P) => OnlyAfter(t, P, A))
    /\ \A G : OnlyFrom(u, G) <=> OnlyFrom(s, G) /\ OnlyFrom(t, G)

Alone(m, s) ==
    /\ \A A : Silent(s, A) <=> m \notin A
    /\ \A A, V : LastIn(s, A, V) <=> (m \in A => m \in V)
    /\ \A A, V : FirstIn(s, A, V) <=> (m \in A => m \in V)
    /\ \A P, A : OnlyAfter(s, P, A) <=> m \notin A
    /\ \A G : OnlyFrom(s, G) <=> m \in G

LEMMA Concatenated ==
    ASSUME NEW s \in Seq(Msg), NEW t \in Seq(Msg)
    PROVE  s \o t \in Seq(Msg) /\ Follows(s, t, s \o t)
<1> DEFINE u == s \o t
<1>1. u \in Seq(Msg)
  BY Joined
<1>2. \A A : Silent(u, A) <=> Silent(s, A) /\ Silent(t, A)
  BY SilentBoth
<1>3. \A A, V : LastIn(u, A, V) <=> LastIn(t, A, V) /\ (Silent(t, A) => LastIn(s, A, V))
  BY LastInBoth
<1>4. \A A, V : FirstIn(u, A, V) <=> FirstIn(s, A, V) /\ (Silent(s, A) => FirstIn(t, A, V))
  BY FirstInBoth
<1>5. \A P, A : OnlyAfter(u, P, A) <=> OnlyAfter(s, P, A) /\ (Silent(s, P) => OnlyAfter(t, P, A))
  BY OnlyAfterBoth
<1>6. \A G : OnlyFrom(u, G) <=> OnlyFrom(s, G) /\ OnlyFrom(t, G)
  BY OnlyFromBoth
<1> HIDE DEF u
<1>7. Follows(s, t, u)
  BY <1>2, <1>3, <1>4, <1>5, <1>6 DEF Follows
<1> QED
  BY <1>1, <1>7 DEF u

LEMMA OneLine ==
    ASSUME NEW m \in Msg
    PROVE  <<m>> \in Seq(Msg) /\ Alone(m, <<m>>)
<1> DEFINE s == <<m>>
<1>1. DOMAIN s = {1} /\ s[1] = m /\ s \in Seq(Msg)
  OBVIOUS
<1> HIDE DEF s
<1>2. \A A : Silent(s, A) <=> m \notin A
  BY <1>1 DEF Silent
<1>3. \A A, V : LastIn(s, A, V) <=> (m \in A => m \in V)
  BY <1>1 DEF LastIn
<1>4. \A A, V : FirstIn(s, A, V) <=> (m \in A => m \in V)
  BY <1>1 DEF FirstIn
<1>5. \A P, A : OnlyAfter(s, P, A) <=> m \notin A
  BY <1>1 DEF OnlyAfter
<1>6. \A G : OnlyFrom(s, G) <=> m \in G
  BY <1>1 DEF OnlyFrom
<1>7. Alone(m, s)
  BY <1>2, <1>3, <1>4, <1>5, <1>6 DEF Alone
<1> QED
  BY <1>1, <1>7 DEF s

LEMMA TwoLines == ASSUME NEW m \in Msg, NEW n \in Msg PROVE <<m, n>> = <<m>> \o <<n>>
<1> DEFINE s == <<m>>
           r == <<n>>
           t == <<m, n>>
           u == s \o r
<1>1. s \in Seq(Msg) /\ r \in Seq(Msg) /\ t \in Seq(Msg) /\ Len(s) = 1 /\ Len(r) = 1 /\ Len(t) = 2
      /\ s[1] = m /\ r[1] = n /\ t[1] = m /\ t[2] = n
  OBVIOUS
<1> HIDE DEF s, r, t
<1>2. u \in Seq(Msg) /\ Len(u) = 2 /\ u[1] = m /\ u[2] = n
  <2>1. u \in Seq(Msg) /\ Len(u) = Len(s) + Len(r)
        /\ \A i \in 1 .. Len(s) + Len(r) : u[i] = IF i <= Len(s) THEN s[i] ELSE r[i - Len(s)]
    BY <1>1, ConcatProperties
  <2> HIDE DEF u
  <2> QED
    BY <1>1, <2>1
<1> HIDE DEF u
<1>3. t = u
  <2>1. \A i \in 1 .. Len(t) : t[i] = u[i]
    BY <1>1, <1>2
  <2> QED
    BY <1>1, <1>2, <2>1, SeqEqual
<1> QED
  BY <1>3 DEF s, r, t, u

LEMMA ThreeLines ==
    ASSUME NEW k \in Msg, NEW m \in Msg, NEW n \in Msg
    PROVE  <<k, m, n>> = <<k>> \o <<m, n>>
<1> DEFINE s == <<k>>
           r == <<m, n>>
           t == <<k, m, n>>
           u == s \o r
<1>1. s \in Seq(Msg) /\ r \in Seq(Msg) /\ t \in Seq(Msg) /\ Len(s) = 1 /\ Len(r) = 2 /\ Len(t) = 3
      /\ s[1] = k /\ r[1] = m /\ r[2] = n /\ t[1] = k /\ t[2] = m /\ t[3] = n
  OBVIOUS
<1> HIDE DEF s, r, t
<1>2. u \in Seq(Msg) /\ Len(u) = 3 /\ u[1] = k /\ u[2] = m /\ u[3] = n
  <2>1. u \in Seq(Msg) /\ Len(u) = Len(s) + Len(r)
        /\ \A i \in 1 .. Len(s) + Len(r) : u[i] = IF i <= Len(s) THEN s[i] ELSE r[i - Len(s)]
    BY <1>1, ConcatProperties
  <2> HIDE DEF u
  <2> QED
    BY <1>1, <2>1
<1> HIDE DEF u
<1>3. t = u
  <2>1. \A i \in 1 .. Len(t) : t[i] = u[i]
    BY <1>1, <1>2
  <2> QED
    BY <1>1, <1>2, <2>1, SeqEqual
<1> QED
  BY <1>3 DEF s, r, t, u

LEMMA NoLine ==
    /\ <<>> \in Seq(Msg)
    /\ \A A : Silent(<<>>, A)
    /\ \A A, V : LastIn(<<>>, A, V) /\ FirstIn(<<>>, A, V)
    /\ \A P, A : OnlyAfter(<<>>, P, A)
    /\ \A G : OnlyFrom(<<>>, G)
<1>1. DOMAIN <<>> = {} /\ <<>> \in Seq(Msg)
  OBVIOUS
<1> DEFINE s == <<>>
<1> HIDE DEF s
<1>2. DOMAIN s = {}
  BY <1>1 DEF s
<1>3. (\A A : Silent(s, A)) /\ \A G : OnlyFrom(s, G)
  BY <1>2 DEF Silent, OnlyFrom
<1>4. (\A A, V : LastIn(s, A, V) /\ FirstIn(s, A, V)) /\ \A P, A : OnlyAfter(s, P, A)
  BY <1>2 DEF LastIn, FirstIn, OnlyAfter
<1> QED
  BY <1>1, <1>3, <1>4 DEF s

LEMMA SilentSays ==
    ASSUME NEW s, NEW A, Silent(s, A)
    PROVE  (\A V : LastIn(s, A, V) /\ FirstIn(s, A, V)) /\ \A P : OnlyAfter(s, P, A)
BY DEF Silent, LastIn, FirstIn, OnlyAfter

-----------------------------------------------------------------------------
Coming == line \o due

About(tags, i) == {m \in Msg : m[1] \in tags /\ m[2] = i}
Speaks         == {m \in Msg : m[1] \in {"sgt", "sst"}}
Tagged(tag)    == {m \in Msg : m[1] = tag}
Second(v)      == {m \in Msg : m[2] = v}
Third(v)       == {m \in Msg : m[3] = v}

Asks(q) == ~Silent(asked, {q})

-----------------------------------------------------------------------------
(* The invariant.                                                          *)

Hatched == {i \in Numbers : i < story.newId}
EggsLaid == 0 .. story.newEgg - 1

Person  == [level : Int, tile : Tiles, food : Nat, frozen : BOOLEAN]
Sheets  == [id : Hatched \cup {-1}, level : Int, tile : Int, food : Nat, fell : Nat]
Scanned == [at : Tiles \cup {-1}, heap : Int, ritual : BOOLEAN]
Rite    == [at : Tiles, with : Numbers]
Stories == [newId : Nat, newEgg : Nat, followers : SUBSET Numbers, late : BOOLEAN, rows : Seq(Msg),
            givenUp : BOOLEAN, heard : BOOLEAN, stray : SUBSET Tiles]

PanelTypes ==
    /\ DOMAIN folk \subseteq Hatched /\ folk \in [DOMAIN folk -> Person]
    /\ DOMAIN rites \subseteq DOMAIN folk /\ rites \in [DOMAIN rites -> Rite]
    /\ laid \subseteq EggsLaid /\ heap \in [Tiles -> Int] /\ freq \in Speeds
    /\ due \in Seq(Msg) /\ line \in Seq(Msg) /\ asked \in Seq(Msg)
    /\ sheet \in Sheets /\ tile \in Scanned
    /\ DOMAIN stats.level \subseteq Hatched /\ stats.eggs \subseteq EggsLaid
    /\ stats \in [level : [DOMAIN stats.level -> Int], eggs : SUBSET Int,
                  team : [TeamsOf -> [population : Int, level8Count : Int]]]
    /\ slider \in [knob : Speeds, text : Speeds, held : BOOLEAN]
    /\ done \in [joined : BOOLEAN, events : Int, clicks : Int]
    /\ story \in Stories

Player == {"pnw", "pin", "plv", "ppo", "pdi"}

Sound ==
    {m \in Msg :
        /\ m[1] \in Player => m[2] \in Hatched
        /\ m[1] \in {"enw", "ebo"} => m[2] \in EggsLaid
        /\ m[1] = "pdi" => m[2] \notin DOMAIN folk
        /\ m[1] = "plv" /\ m[2] \in DOMAIN folk => m[3] <= folk[m[2]].level
        /\ m[1] = "pin" => m[3] \in Nat
        /\ m[1] \in {"sgt", "sst"} => m[2] \in Speeds
        /\ m[1] = "bct" => m[2] \in Tiles}

ComingInv == OnlyFrom(Coming, Sound)

DueInv == Silent(due, Speaks)

Askable ==
    {q \in Msg :
        /\ q[1] \in {"sst", "bct", "pin", "plv", "ppo"}
        /\ q[1] = "sst" => q[2] \in Speeds
        /\ q[1] = "bct" => q[2] \in Tiles
        /\ q[1] \in {"pin", "plv", "ppo"} => q[2] \in Hatched /\ (q[2] \in DOMAIN folk => q[2] \in DOMAIN stats.level)}

AskedInv == OnlyFrom(asked, Askable)

AloneInv ==
    ~done.joined => /\ line = <<>> /\ asked = <<>> /\ sheet.id = -1 /\ tile.at = -1
                    /\ DOMAIN stats.level = {} /\ stats.eggs = {} /\ ~slider.held

HeapInv ==
    \A t \in Tiles :
        /\ LastIn(Coming, About({"bct"}, t), Third(heap[t]))
        /\ Silent(Coming, About({"bct"}, t)) /\ tile.at = t =>
              tile.heap = heap[t] \/ Asks(<<"bct", t, 0>>)

PlaceInv ==
    \A i \in DOMAIN folk :
        /\ LastIn(Coming, About({"ppo"}, i), Third(folk[i].tile))
        /\ Silent(Coming, About({"ppo"}, i)) /\ sheet.id = i =>
              sheet.tile = folk[i].tile \/ Asks(<<"ppo", i, 0>>)

\* What has faded since the last line about it is counted.
FoodInv ==
    \A i \in DOMAIN folk :
        /\ LastIn(Coming, About({"pin"}, i), Third(folk[i].food))
        /\ Silent(Coming, About({"pin"}, i)) /\ sheet.id = i =>
              sheet.food + sheet.fell = 2 * folk[i].food \/ Asks(<<"pin", i, 0>>)

\* Where no ritual is stray, at most one goes on, and its leader is still there.
Ritual(x) == \E l \in DOMAIN rites : rites[l].at = x

RitesInv ==
    /\ \A l \in DOMAIN rites : rites[l].at = folk[l].tile \/ story.stray = Tiles
    /\ \A l, k \in DOMAIN rites : rites[l].at = rites[k].at => l = k \/ rites[l].at \in story.stray

ScanInv ==
    \A x \in Tiles \ story.stray :
        /\ LastIn(Coming, About({"pic", "pie"}, x), Tagged(IF Ritual(x) THEN "pic" ELSE "pie"))
        /\ Silent(Coming, About({"pic", "pie"}, x)) /\ tile.at = x /\ story.heard => (tile.ritual <=> Ritual(x))

LevelInv ==
    done.joined => \A i \in DOMAIN folk \ story.followers :
        /\ LastIn(Coming, About({"plv"}, i), Third(folk[i].level))
        /\ Silent(Coming, About({"plv"}, i)) =>
              /\ sheet.id = i => sheet.level = folk[i].level \/ Asks(<<"plv", i, 0>>)
              /\ i \in DOMAIN stats.level => stats.level[i] = folk[i].level
              /\ i \notin DOMAIN stats.level => FirstIn(Coming, About({"pnw"}, i), Third(folk[i].level))

OrderInv ==
    done.joined => \A i \in DOMAIN folk \ DOMAIN stats.level :
        OnlyAfter(Coming, About({"pnw"}, i), About({"plv"}, i))

KnownInv ==
    \A i \in Numbers :
        /\ LastIn(Coming, About({"pnw", "pdi"}, i), Tagged(IF i \in DOMAIN folk THEN "pnw" ELSE "pdi"))
        /\ done.joined /\ Silent(Coming, About({"pnw", "pdi"}, i)) =>
              (i \in DOMAIN stats.level <=> i \in DOMAIN folk)

EggInv ==
    \A e \in EggsLaid :
        /\ LastIn(Coming, About({"enw", "ebo"}, e), Tagged(IF e \in laid THEN "enw" ELSE "ebo"))
        /\ done.joined /\ Silent(Coming, About({"enw", "ebo"}, e)) => (e \in stats.eggs <=> e \in laid)

SpeedInv ==
    Silent(asked, Tagged("sst")) =>
        /\ LastIn(Coming, Speaks, Second(freq))
        /\ done.joined /\ Silent(Coming, Speaks) =>
              slider.held \/ story.givenUp \/ (slider.text = freq /\ slider.knob = Clamped(freq))

Mates(t)  == {i \in DOMAIN stats.level : TeamOf[i] = t}
Raised(t) == {i \in DOMAIN stats.level : TeamOf[i] = t /\ stats.level[i] >= VictoryLevel}

CountInv ==
    \A t \in TeamsOf :
        /\ stats.team[t].population = Cardinality(Mates(t))
        /\ ~story.late => stats.team[t].level8Count = Cardinality(Raised(t))

RowsInv ==
    /\ rows \in Seq(Msg) /\ Len(story.rows) > 0
    /\ Len(rows) = (IF Len(story.rows) > MaxLogs THEN MaxLogs ELSE Len(story.rows))
    /\ \A n \in 1 .. Len(rows) : rows[n] = story.rows[n + (Len(story.rows) - Len(rows))]

PanelsInv ==
    /\ PanelTypes /\ ComingInv /\ DueInv /\ AskedInv /\ AloneInv
    /\ HeapInv /\ PlaceInv /\ FoodInv /\ RitesInv /\ ScanInv
    /\ LevelInv /\ OrderInv /\ KnownInv /\ EggInv /\ SpeedInv
    /\ CountInv /\ RowsInv

LEMMA PanelConstants ==
    /\ Numbers \subseteq Nat /\ IsFiniteSet(Numbers) /\ Speeds \subseteq Nat
    /\ MaxLogs \in Nat /\ MaxLogs > 0 /\ SliderMax \in Speeds
BY PanelsAssumption

LEMMA ComingIs == ASSUME PanelTypes PROVE Coming \in Seq(Msg) /\ Follows(line, due, Coming)
BY Concatenated DEF PanelTypes, Coming

-----------------------------------------------------------------------------
(* Something happens, and lines about it are due.                          *)

Due(t) ==
    /\ line' = line /\ due' = due \o t /\ UNCHANGED <<asked, panels, freq>> /\ done'.joined = done.joined
    /\ story'.givenUp = story.givenUp /\ story'.late = story.late /\ story'.rows = story.rows
    /\ story'.heard = story.heard
    /\ Hatched \subseteq Hatched' /\ \A i \in DOMAIN folk' : i \in DOMAIN folk \/ i \notin Hatched
    /\ Sound \subseteq Sound' /\ OnlyFrom(t, Sound') /\ Silent(t, Speaks)

TrueHeap(t) ==
    \A x \in Tiles : LET A == About({"bct"}, x) IN
        LastIn(t, A, Third(heap'[x])) /\ (Silent(t, A) => heap'[x] = heap[x])

TruePlace(t) ==
    \A i \in DOMAIN folk' : LET A == About({"ppo"}, i) IN
        /\ LastIn(t, A, Third(folk'[i].tile))
        /\ i \in DOMAIN folk /\ Silent(t, A) => folk'[i].tile = folk[i].tile

TrueFood(t) ==
    \A i \in DOMAIN folk' : LET A == About({"pin"}, i) IN
        /\ LastIn(t, A, Third(folk'[i].food))
        /\ i \in DOMAIN folk /\ Silent(t, A) => folk'[i].food = folk[i].food

TrueRites(t) ==
    /\ RitesInv'
    /\ \A x \in Tiles \ story'.stray : LET A == About({"pic", "pie"}, x) IN
          /\ LastIn(t, A, Tagged(IF Ritual(x)' THEN "pic" ELSE "pie"))
          /\ Silent(t, A) => x \notin story.stray /\ (Ritual(x)' <=> Ritual(x))

TrueLevel(t) ==
    /\ \A i \in DOMAIN folk' \ story'.followers : LET A == About({"plv"}, i) IN
          /\ LastIn(t, A, Third(folk'[i].level))
          /\ Silent(t, A) => IF i \in DOMAIN folk
                             THEN i \notin story.followers /\ folk'[i].level = folk[i].level
                             ELSE FirstIn(t, About({"pnw"}, i), Third(folk'[i].level))
    /\ \A i \in DOMAIN folk' :
          IF i \in DOMAIN folk THEN Silent(t, About({"pnw"}, i)) ELSE Silent(t, About({"plv"}, i))

TrueKnown(t) ==
    \A i \in Numbers : LET A == About({"pnw", "pdi"}, i) IN
        /\ LastIn(t, A, Tagged(IF i \in DOMAIN folk' THEN "pnw" ELSE "pdi"))
        /\ Silent(t, A) => (i \in DOMAIN folk' <=> i \in DOMAIN folk)

TrueEggs(t) ==
    \A e \in EggsLaid' : LET A == About({"enw", "ebo"}, e) IN
        /\ LastIn(t, A, Tagged(IF e \in laid' THEN "enw" ELSE "ebo"))
        /\ Silent(t, A) => e \in EggsLaid /\ (e \in laid' <=> e \in laid)

Truthful(t) ==
    TrueHeap(t) /\ TruePlace(t) /\ TrueFood(t) /\ TrueRites(t) /\ TrueLevel(t) /\ TrueKnown(t) /\ TrueEggs(t)

LEMMA DueComes ==
    ASSUME PanelTypes, NEW t \in Seq(Msg), line' = line, due' = due \o t
    PROVE  Coming' \in Seq(Msg) /\ Follows(Coming, t, Coming')
<1>1. line \in Seq(Msg) /\ due \in Seq(Msg)
  BY DEF PanelTypes
<1>2. (line \o due) \o t = line \o (due \o t)
  BY ONLY <1>1, t \in Seq(Msg), Regrouped, Zenon
<1>3. Coming' = Coming \o t
  BY <1>2, Zenon DEF Coming
<1>4. Coming \in Seq(Msg)
  BY ComingIs
<1> QED
  BY ONLY <1>3, <1>4, t \in Seq(Msg), Concatenated

\* Nothing is on its way about a player not hatched, and an unknown one is announced.
LEMMA Unheard ==
    ASSUME PanelsInv, NEW i, i \notin Hatched, NEW tags, tags \subseteq Player
    PROVE  Silent(Coming, About(tags, i))
BY DEF PanelsInv, ComingInv, Silent, OnlyFrom, Sound, About, Player

LEMMA Unshown ==
    ASSUME PanelTypes, NEW i \in Numbers, i \notin Hatched
    PROVE  sheet.id # i /\ i \notin DOMAIN stats.level
<1>1. sheet.id \in Hatched \cup {-1} /\ DOMAIN stats.level \subseteq Hatched
  BY DEF PanelTypes, Sheets
<1>2. i \in Nat
  BY PanelConstants
<1> QED
  BY <1>1, <1>2

LEMMA Announcement ==
    ASSUME PanelsInv, done.joined, NEW i \in DOMAIN folk \ DOMAIN stats.level
    PROVE  ~Silent(Coming, About({"pnw"}, i))
<1>1. i \in Numbers
  BY DEF PanelsInv, PanelTypes, Hatched
<1>2. ~Silent(Coming, About({"pnw", "pdi"}, i))
  BY <1>1 DEF PanelsInv, KnownInv
<1>3. PICK n \in DOMAIN Coming : Coming[n] \in About({"pnw", "pdi"}, i)
  BY <1>2 DEF Silent
<1>4. Coming[n] \in Sound
  BY <1>3 DEF PanelsInv, ComingInv, OnlyFrom
<1>5. Coming[n] \in About({"pnw"}, i)
  BY <1>3, <1>4 DEF About, Sound
<1> QED
  BY <1>3, <1>5 DEF Silent

LEMMA DueKeeps ==
    ASSUME PanelsInv, PanelTypes', NEW t \in Seq(Msg), Due(t), Truthful(t)
    PROVE  PanelsInv'
<1>1. Coming' \in Seq(Msg) /\ Follows(Coming, t, Coming') /\ PanelTypes
  BY DueComes DEF Due, PanelsInv
<1>2. ComingInv'
  <2>1. OnlyFrom(Coming, Sound')
    BY DEF OnlyFrom, Due, PanelsInv, ComingInv
  <2> QED
    BY <1>1, <2>1 DEF Follows, Due, ComingInv
<1>3. DueInv'
  <2>1. Follows(due, t, due') /\ Silent(due, Speaks)
    BY Concatenated DEF PanelsInv, PanelTypes, Due, DueInv
  <2> QED
    BY <2>1 DEF Follows, Due, DueInv
<1>4. AskedInv'
  BY DEF PanelsInv, AskedInv, OnlyFrom, Askable, Due, panels
<1>5. AloneInv'
  BY DEF PanelsInv, AloneInv, Due, panels
<1>6. HeapInv'
  <2> SUFFICES ASSUME NEW x \in Tiles
               PROVE  /\ LastIn(Coming', About({"bct"}, x), Third(heap'[x]))
                      /\ Silent(Coming', About({"bct"}, x)) /\ tile.at = x =>
                            tile.heap = heap'[x] \/ Asks(<<"bct", x, 0>>)
    BY DEF HeapInv, Due, panels, Asks
  <2>1. LastIn(t, About({"bct"}, x), Third(heap'[x])) /\ (Silent(t, About({"bct"}, x)) => heap'[x] = heap[x])
    BY DEF Truthful, TrueHeap
  <2>2. /\ LastIn(Coming, About({"bct"}, x), Third(heap[x]))
        /\ Silent(Coming, About({"bct"}, x)) /\ tile.at = x => tile.heap = heap[x] \/ Asks(<<"bct", x, 0>>)
    BY DEF PanelsInv, HeapInv
  <2> QED
    BY <1>1, <2>1, <2>2 DEF Follows
<1>7. PlaceInv'
  <2> SUFFICES ASSUME NEW i \in DOMAIN folk'
               PROVE  /\ LastIn(Coming', About({"ppo"}, i), Third(folk'[i].tile))
                      /\ Silent(Coming', About({"ppo"}, i)) /\ sheet.id = i =>
                            sheet.tile = folk'[i].tile \/ Asks(<<"ppo", i, 0>>)
    BY DEF PlaceInv, Due, panels, Asks
  <2>1. /\ LastIn(t, About({"ppo"}, i), Third(folk'[i].tile))
        /\ i \in DOMAIN folk /\ Silent(t, About({"ppo"}, i)) => folk'[i].tile = folk[i].tile
    BY DEF Truthful, TruePlace
  <2>2. CASE i \in DOMAIN folk
    <3>1. /\ LastIn(Coming, About({"ppo"}, i), Third(folk[i].tile))
          /\ Silent(Coming, About({"ppo"}, i)) /\ sheet.id = i =>
                sheet.tile = folk[i].tile \/ Asks(<<"ppo", i, 0>>)
      BY <2>2 DEF PanelsInv, PlaceInv
    <3> QED
      BY <1>1, <2>1, <2>2, <3>1 DEF Follows
  <2>3. CASE i \notin DOMAIN folk
    <3>1. i \notin Hatched /\ i \in Numbers
      BY <2>3 DEF Due, PanelTypes, Hatched
    <3>2. sheet.id # i
      BY <1>1, <3>1, Unshown
    <3>3. Silent(Coming, About({"ppo"}, i))
      BY <3>1, Unheard DEF Player
    <3> QED
      BY <1>1, <2>1, <3>2, <3>3, SilentSays DEF Follows
  <2> QED
    BY <2>2, <2>3
<1>14. FoodInv'
  <2> SUFFICES ASSUME NEW i \in DOMAIN folk'
               PROVE  /\ LastIn(Coming', About({"pin"}, i), Third(folk'[i].food))
                      /\ Silent(Coming', About({"pin"}, i)) /\ sheet.id = i =>
                            sheet.food + sheet.fell = 2 * folk'[i].food \/ Asks(<<"pin", i, 0>>)
    BY DEF FoodInv, Due, panels, Asks
  <2>1. /\ LastIn(t, About({"pin"}, i), Third(folk'[i].food))
        /\ i \in DOMAIN folk /\ Silent(t, About({"pin"}, i)) => folk'[i].food = folk[i].food
    BY DEF Truthful, TrueFood
  <2>2. CASE i \in DOMAIN folk
    <3>1. /\ LastIn(Coming, About({"pin"}, i), Third(folk[i].food))
          /\ Silent(Coming, About({"pin"}, i)) /\ sheet.id = i =>
                sheet.food + sheet.fell = 2 * folk[i].food \/ Asks(<<"pin", i, 0>>)
      BY <2>2 DEF PanelsInv, FoodInv
    <3> QED
      BY <1>1, <2>1, <2>2, <3>1 DEF Follows
  <2>3. CASE i \notin DOMAIN folk
    <3>1. i \notin Hatched /\ i \in Numbers
      BY <2>3 DEF Due, PanelTypes, Hatched
    <3>2. sheet.id # i
      BY <1>1, <3>1, Unshown
    <3>3. Silent(Coming, About({"pin"}, i))
      BY <3>1, Unheard DEF Player
    <3> QED
      BY <1>1, <2>1, <3>2, <3>3, SilentSays DEF Follows
  <2> QED
    BY <2>2, <2>3
<1>15. RitesInv' /\ ScanInv'
  <2> SUFFICES ASSUME NEW x \in Tiles \ story'.stray
               PROVE  /\ LastIn(Coming', About({"pic", "pie"}, x), Tagged(IF Ritual(x)' THEN "pic" ELSE "pie"))
                      /\ Silent(Coming', About({"pic", "pie"}, x)) /\ tile.at = x /\ story.heard =>
                            (tile.ritual <=> Ritual(x)')
    BY DEF ScanInv, Due, panels, Truthful, TrueRites
  <2> DEFINE A == About({"pic", "pie"}, x)
  <2>1. /\ LastIn(t, A, Tagged(IF Ritual(x)' THEN "pic" ELSE "pie"))
        /\ Silent(t, A) => x \notin story.stray /\ (Ritual(x)' <=> Ritual(x))
    BY DEF Truthful, TrueRites
  <2>2. x \notin story.stray =>
        /\ LastIn(Coming, A, Tagged(IF Ritual(x) THEN "pic" ELSE "pie"))
        /\ Silent(Coming, A) /\ tile.at = x /\ story.heard => (tile.ritual <=> Ritual(x))
    BY DEF PanelsInv, ScanInv
  <2> DEFINE now == Ritual(x)'
             was == Ritual(x)
  <2> HIDE DEF A, now, was
  <2>3. Silent(t, A) => LastIn(Coming, A, Tagged(IF now THEN "pic" ELSE "pie"))
    BY <2>1, <2>2 DEF now, was
  <2>4. /\ LastIn(Coming', A, Tagged(IF now THEN "pic" ELSE "pie"))
        /\ Silent(Coming', A) => Silent(Coming, A) /\ Silent(t, A)
    BY <1>1, <2>1, <2>3 DEF Follows, now
  <2> QED
    BY <2>1, <2>2, <2>4 DEF A, now, was
<1>8. OrderInv'
  <2> SUFFICES ASSUME done.joined, NEW i \in DOMAIN folk', i \notin DOMAIN stats.level
               PROVE  OnlyAfter(Coming', About({"pnw"}, i), About({"plv"}, i))
    BY DEF OrderInv, Due, panels
  <2>1. CASE i \in DOMAIN folk
    <3>1. OnlyAfter(Coming, About({"pnw"}, i), About({"plv"}, i)) /\ ~Silent(Coming, About({"pnw"}, i))
      BY <2>1, Announcement DEF PanelsInv, OrderInv
    <3> QED
      BY <1>1, <3>1 DEF Follows
  <2>2. CASE i \notin DOMAIN folk
    <3>1. i \notin Hatched
      BY <2>2 DEF Due
    <3>2. Silent(Coming, About({"plv"}, i)) /\ Silent(t, About({"plv"}, i))
      BY <2>2, <3>1, Unheard DEF Truthful, TrueLevel, Player
    <3> QED
      BY <1>1, <3>2, SilentSays DEF Follows
  <2> QED
    BY <2>1, <2>2
<1>9. LevelInv'
  <2> SUFFICES ASSUME done.joined, NEW i \in DOMAIN folk' \ story'.followers
               PROVE  /\ LastIn(Coming', About({"plv"}, i), Third(folk'[i].level))
                      /\ Silent(Coming', About({"plv"}, i)) =>
                            /\ sheet.id = i => sheet.level = folk'[i].level \/ Asks(<<"plv", i, 0>>)
                            /\ i \in DOMAIN stats.level => stats.level[i] = folk'[i].level
                            /\ i \notin DOMAIN stats.level =>
                                  FirstIn(Coming', About({"pnw"}, i), Third(folk'[i].level))
    BY DEF LevelInv, Due, panels, Asks
  <2>1. /\ LastIn(t, About({"plv"}, i), Third(folk'[i].level))
        /\ Silent(t, About({"plv"}, i)) =>
              IF i \in DOMAIN folk THEN i \notin story.followers /\ folk'[i].level = folk[i].level
              ELSE FirstIn(t, About({"pnw"}, i), Third(folk'[i].level))
        /\ IF i \in DOMAIN folk THEN Silent(t, About({"pnw"}, i)) ELSE Silent(t, About({"plv"}, i))
    BY DEF Truthful, TrueLevel
  <2>2. CASE ~Silent(t, About({"plv"}, i))
    BY <1>1, <2>1, <2>2 DEF Follows
  <2>3. CASE Silent(t, About({"plv"}, i)) /\ i \in DOMAIN folk
    <3>1. /\ LastIn(Coming, About({"plv"}, i), Third(folk[i].level))
          /\ Silent(Coming, About({"plv"}, i)) =>
                /\ sheet.id = i => sheet.level = folk[i].level \/ Asks(<<"plv", i, 0>>)
                /\ i \in DOMAIN stats.level => stats.level[i] = folk[i].level
                /\ i \notin DOMAIN stats.level => FirstIn(Coming, About({"pnw"}, i), Third(folk[i].level))
      BY <2>1, <2>3 DEF PanelsInv, LevelInv
    <3>2. FirstIn(t, About({"pnw"}, i), Third(folk[i].level))
      BY <2>1, <2>3, SilentSays
    <3> QED
      BY <1>1, <2>1, <2>3, <3>1, <3>2 DEF Follows
  <2>4. CASE Silent(t, About({"plv"}, i)) /\ i \notin DOMAIN folk
    <3>1. i \notin Hatched /\ i \in Numbers
      BY <2>4 DEF Due, PanelTypes, Hatched
    <3>2. sheet.id # i /\ i \notin DOMAIN stats.level
      BY <1>1, <3>1, Unshown
    <3>3. Silent(Coming, About({"plv"}, i)) /\ Silent(Coming, About({"pnw"}, i))
      BY <3>1, Unheard DEF Player
    <3>4. /\ LastIn(Coming, About({"plv"}, i), Third(folk'[i].level))
          /\ FirstIn(Coming, About({"pnw"}, i), Third(folk'[i].level))
      BY <3>3, SilentSays
    <3> QED
      BY <1>1, <2>1, <2>4, <3>2, <3>3, <3>4 DEF Follows
  <2> QED
    BY <2>2, <2>3, <2>4
<1>10. KnownInv'
  <2> SUFFICES ASSUME NEW i \in Numbers
               PROVE  /\ LastIn(Coming', About({"pnw", "pdi"}, i), Tagged(IF i \in DOMAIN folk' THEN "pnw" ELSE "pdi"))
                      /\ done.joined /\ Silent(Coming', About({"pnw", "pdi"}, i)) =>
                            (i \in DOMAIN stats.level <=> i \in DOMAIN folk')
    BY DEF KnownInv, Due, panels
  <2> DEFINE A == About({"pnw", "pdi"}, i)
  <2>1. /\ LastIn(t, A, Tagged(IF i \in DOMAIN folk' THEN "pnw" ELSE "pdi"))
        /\ Silent(t, A) => (i \in DOMAIN folk' <=> i \in DOMAIN folk)
    BY DEF Truthful, TrueKnown
  <2>2. /\ LastIn(Coming, A, Tagged(IF i \in DOMAIN folk THEN "pnw" ELSE "pdi"))
        /\ done.joined /\ Silent(Coming, A) => (i \in DOMAIN stats.level <=> i \in DOMAIN folk)
    BY DEF PanelsInv, KnownInv
  <2> HIDE DEF A
  <2>3. Silent(t, A) => LastIn(Coming, A, Tagged(IF i \in DOMAIN folk' THEN "pnw" ELSE "pdi"))
    BY <2>1, <2>2
  <2>4. /\ LastIn(Coming', A, Tagged(IF i \in DOMAIN folk' THEN "pnw" ELSE "pdi"))
        /\ Silent(Coming', A) => Silent(Coming, A) /\ Silent(t, A)
    BY <1>1, <2>1, <2>3 DEF Follows
  <2> QED
    BY <2>1, <2>2, <2>4 DEF A
<1>11. EggInv'
  <2> SUFFICES ASSUME NEW e \in EggsLaid'
               PROVE  /\ LastIn(Coming', About({"enw", "ebo"}, e), Tagged(IF e \in laid' THEN "enw" ELSE "ebo"))
                      /\ done.joined /\ Silent(Coming', About({"enw", "ebo"}, e)) =>
                            (e \in stats.eggs <=> e \in laid')
    BY DEF EggInv, Due, panels
  <2> DEFINE A == About({"enw", "ebo"}, e)
  <2>1. /\ LastIn(t, A, Tagged(IF e \in laid' THEN "enw" ELSE "ebo"))
        /\ Silent(t, A) => e \in EggsLaid /\ (e \in laid' <=> e \in laid)
    BY DEF Truthful, TrueEggs
  <2>2. e \in EggsLaid =>
        /\ LastIn(Coming, A, Tagged(IF e \in laid THEN "enw" ELSE "ebo"))
        /\ done.joined /\ Silent(Coming, A) => (e \in stats.eggs <=> e \in laid)
    BY DEF PanelsInv, EggInv
  <2> HIDE DEF A
  <2>3. Silent(t, A) => LastIn(Coming, A, Tagged(IF e \in laid' THEN "enw" ELSE "ebo"))
    BY <2>1, <2>2
  <2>4. /\ LastIn(Coming', A, Tagged(IF e \in laid' THEN "enw" ELSE "ebo"))
        /\ Silent(Coming', A) => Silent(Coming, A) /\ Silent(t, A)
    BY <1>1, <2>1, <2>3 DEF Follows
  <2> QED
    BY <2>1, <2>2, <2>4 DEF A
<1>12. SpeedInv'
  <2>1. Silent(t, Speaks) /\ LastIn(t, Speaks, Second(freq))
    BY SilentSays DEF Due
  <2>2. Silent(Coming', Speaks) => Silent(Coming, Speaks)
    BY <1>1 DEF Follows
  <2>3. LastIn(Coming, Speaks, Second(freq)) => LastIn(Coming', Speaks, Second(freq))
    BY <1>1, <2>1 DEF Follows
  <2> QED
    BY <2>2, <2>3 DEF PanelsInv, SpeedInv, Due, panels, Clamped
<1>13. CountInv' /\ RowsInv'
  <2>1. stats' = stats /\ rows' = rows /\ story'.rows = story.rows /\ story'.late = story.late
    BY DEF Due, panels
  <2> QED
    BY <2>1 DEF PanelsInv, CountInv, RowsInv, Mates, Raised
<1> QED
  BY <1>2, <1>3, <1>4, <1>5, <1>6, <1>7, <1>8, <1>9, <1>10, <1>11, <1>12, <1>13, <1>14, <1>15 DEF PanelsInv

\* A line, taken apart.
Means(m, tag, a, b) ==
    /\ m \in Msg /\ m[1] = tag /\ m[2] = a /\ m[3] = b
    /\ \A tags, x : m \in About(tags, x) <=> tag \in tags /\ a = x
    /\ \A v : (m \in Third(v) <=> b = v) /\ (m \in Second(v) <=> a = v) /\ (m \in Tagged(v) <=> tag = v)
    /\ m \in Speaks <=> tag \in {"sgt", "sst"}

LEMMA LineMeans ==
    ASSUME NEW tag \in Tags, NEW a \in Int, NEW b \in Int, NEW m, m = <<tag, a, b>>
    PROVE  Means(m, tag, a, b)
<1>1. m \in Msg /\ m[1] = tag /\ m[2] = a /\ m[3] = b
  BY DEF Msg
<1> QED
  BY <1>1 DEF Means, About, Third, Second, Tagged, Speaks

LEMMA Folks ==
    ASSUME PanelTypes
    PROVE  /\ DOMAIN folk \subseteq Hatched /\ folk \in [DOMAIN folk -> Person]
           /\ Hatched \subseteq Numbers /\ Numbers \subseteq Nat /\ Tiles \subseteq Nat
<1>1. DOMAIN folk \subseteq Hatched /\ folk \in [DOMAIN folk -> Person]
  BY DEF PanelTypes
<1>2. Hatched \subseteq Numbers /\ Numbers \subseteq Nat /\ Tiles \subseteq Nat
  BY PanelConstants DEF Hatched, Tiles
<1> QED
  BY <1>1, <1>2

LEMMA EventTypes ==
    ASSUME PanelTypes, NEW t \in Seq(Msg), Event(t),
           DOMAIN folk' \subseteq Hatched', folk' \in [DOMAIN folk' -> Person],
           DOMAIN rites' \subseteq DOMAIN folk', rites' \in [DOMAIN rites' -> Rite],
           laid' \subseteq EggsLaid', heap' \in [Tiles -> Int],
           story' \in Stories,
           Hatched \subseteq Hatched', EggsLaid \subseteq EggsLaid'
    PROVE  PanelTypes' /\ done'.joined = done.joined
<1>1. due' \in Seq(Msg)
  BY Concatenated DEF PanelTypes, Event
<1>2. done' \in [joined : BOOLEAN, events : Int, clicks : Int] /\ done'.joined = done.joined
  <2>1. done \in [joined : BOOLEAN, events : Int, clicks : Int]
    BY DEF PanelTypes
  <2>2. done' = [done EXCEPT !.events = @ + 1]
    BY DEF Event, Happens
  <2> QED
    BY ONLY <2>1, <2>2
<1>3. sheet' = sheet /\ tile' = tile /\ stats' = stats /\ slider' = slider /\ freq' = freq
      /\ line' = line /\ asked' = asked
  BY DEF Event, panels
<1>4. sheet' \in Sheets' /\ tile' \in Scanned'
  <2>1. sheet \in Sheets /\ tile \in Scanned /\ sheet' = sheet /\ tile' = tile
    BY <1>3 DEF PanelTypes
  <2>2. sheet \in [id : Hatched' \cup {-1}, level : Int, tile : Int, food : Nat, fell : Nat]
    BY <2>1 DEF Sheets
  <2> QED
    BY <2>1, <2>2 DEF Sheets, Scanned
<1>5. DOMAIN stats.level \subseteq Hatched' /\ stats.eggs \subseteq EggsLaid'
  BY DEF PanelTypes
<1>6. story' \in Stories' /\ folk' \in [DOMAIN folk' -> Person'] /\ rites' \in [DOMAIN rites' -> Rite']
  BY DEF Stories, Person, Rite
<1> QED
  BY <1>1, <1>2, <1>3, <1>4, <1>5, <1>6 DEF PanelTypes

\* One line is said, or one and then another.
Pair(m, n, t) ==
    /\ \A A : Silent(t, A) <=> m \notin A /\ n \notin A
    /\ \A A, V : LastIn(t, A, V) <=> (n \in A => n \in V) /\ (n \notin A => (m \in A => m \in V))
    /\ \A A, V : FirstIn(t, A, V) <=> (m \in A => m \in V) /\ (m \notin A => (n \in A => n \in V))
    /\ \A G : OnlyFrom(t, G) <=> m \in G /\ n \in G

LEMMA PairSays ==
    ASSUME NEW m \in Msg, NEW n \in Msg
    PROVE  <<m, n>> \in Seq(Msg) /\ Pair(m, n, <<m, n>>) /\ <<m>> \o <<n>> = <<m, n>>
<1> DEFINE s == <<m>>
           r == <<n>>
           t == <<m, n>>
<1>1. s \in Seq(Msg) /\ Alone(m, s) /\ r \in Seq(Msg) /\ Alone(n, r)
  BY ONLY OneLine, m \in Msg, n \in Msg
<1>2. t = s \o r
  BY ONLY TwoLines, m \in Msg, n \in Msg
<1> HIDE DEF s, r, t
<1>3. t \in Seq(Msg) /\ Follows(s, r, t)
  BY <1>1, <1>2, Concatenated
<1>4. Pair(m, n, t)
  <2>1. \A A : Silent(t, A) <=> m \notin A /\ n \notin A
    BY <1>1, <1>3 DEF Follows, Alone
  <2>2. \A A, V : LastIn(t, A, V) <=> (n \in A => n \in V) /\ (n \notin A => (m \in A => m \in V))
    BY <1>1, <1>3 DEF Follows, Alone
  <2>3. \A A, V : FirstIn(t, A, V) <=> (m \in A => m \in V) /\ (m \notin A => (n \in A => n \in V))
    BY <1>1, <1>3 DEF Follows, Alone
  <2>4. \A G : OnlyFrom(t, G) <=> m \in G /\ n \in G
    BY <1>1, <1>3 DEF Follows, Alone
  <2> QED
    BY <2>1, <2>2, <2>3, <2>4 DEF Pair
<1> QED
  BY <1>2, <1>3, <1>4 DEF s, r, t

LEMMA OneMeans ==
    ASSUME NEW m, NEW tag, NEW a, NEW b, Means(m, tag, a, b)
    PROVE  <<m>> \in Seq(Msg) /\ Pair(m, m, <<m>>)
<1>1. m \in Msg
  BY DEF Means
<1>2. <<m>> \in Seq(Msg) /\ Alone(m, <<m>>)
  BY ONLY <1>1, OneLine
<1> DEFINE t == <<m>>
<1> HIDE DEF t
<1>3. Alone(m, t) => Pair(m, m, t)
  BY DEF Alone, Pair
<1> QED
  BY <1>2, <1>3 DEF t

\* Where nothing that is told of changes.
LEMMA RitesKept ==
    ASSUME PanelsInv, NEW t, rites' = rites, story'.stray = story.stray,
           \A l \in DOMAIN rites : folk'[l].tile = folk[l].tile,
           \A x : Silent(t, About({"pic", "pie"}, x))
    PROVE  TrueRites(t)
<1>1. RitesInv
  BY DEF PanelsInv
<1>2. RitesInv'
  BY <1>1 DEF RitesInv
<1>3. \A x : Ritual(x)' <=> Ritual(x)
  BY DEF Ritual
<1>4. \A x : \A V : LastIn(t, About({"pic", "pie"}, x), V)
  BY SilentSays
<1> QED
  BY <1>2, <1>3, <1>4 DEF TrueRites

LEMMA LevelsKept ==
    ASSUME NEW t, DOMAIN folk' \subseteq DOMAIN folk, story'.followers = story.followers,
           \A i \in DOMAIN folk' : folk'[i].level = folk[i].level,
           \A x : Silent(t, About({"plv"}, x)) /\ Silent(t, About({"pnw"}, x))
    PROVE  TrueLevel(t)
<1>1. \A x : \A V : LastIn(t, About({"plv"}, x), V)
  BY SilentSays
<1> QED
  BY <1>1 DEF TrueLevel

LEMMA FolkKept ==
    ASSUME NEW t, DOMAIN folk' = DOMAIN folk,
           \A x : Silent(t, About({"pnw", "pdi"}, x))
    PROVE  TrueKnown(t)
<1>1. \A x : \A V : LastIn(t, About({"pnw", "pdi"}, x), V)
  BY SilentSays
<1> QED
  BY <1>1 DEF TrueKnown

LEMMA EggsKept ==
    ASSUME NEW t, laid' = laid, EggsLaid' = EggsLaid,
           \A x : Silent(t, About({"enw", "ebo"}, x))
    PROVE  TrueEggs(t)
<1>1. \A x : \A V : LastIn(t, About({"enw", "ebo"}, x), V)
  BY SilentSays
<1> QED
  BY <1>1 DEF TrueEggs

LEMMA HeapKept ==
    ASSUME NEW t, heap' = heap,
           \A x : Silent(t, About({"bct"}, x))
    PROVE  TrueHeap(t)
<1>1. \A x : \A V : LastIn(t, About({"bct"}, x), V)
  BY SilentSays
<1> QED
  BY <1>1 DEF TrueHeap

LEMMA PlacesKept ==
    ASSUME NEW t, \A i \in DOMAIN folk : i \in DOMAIN folk' => folk'[i].tile = folk[i].tile,
           \A x : Silent(t, About({"ppo"}, x))
    PROVE  TruePlace(t)
<1>1. \A x : \A V : LastIn(t, About({"ppo"}, x), V)
  BY SilentSays
<1> QED
  BY <1>1 DEF TruePlace

LEMMA FoodKept ==
    ASSUME NEW t, \A i \in DOMAIN folk : i \in DOMAIN folk' => folk'[i].food = folk[i].food,
           \A x : Silent(t, About({"pin"}, x))
    PROVE  TrueFood(t)
<1>1. \A x : \A V : LastIn(t, About({"pin"}, x), V)
  BY SilentSays
<1> QED
  BY <1>1 DEF TrueFood

\* What becomes of the story where only its stray rituals do.
LEMMA Strays ==
    ASSUME PanelTypes, NEW S, S \subseteq Tiles, story' = [story EXCEPT !.stray = S]
    PROVE  /\ story' \in Stories /\ story'.stray = S /\ story'.followers = story.followers
           /\ story'.newId = story.newId /\ story'.newEgg = story.newEgg /\ story'.late = story.late
           /\ story'.rows = story.rows /\ story'.givenUp = story.givenUp /\ story'.heard = story.heard
           /\ Hatched' = Hatched /\ EggsLaid' = EggsLaid
<1>1. story \in Stories
  BY DEF PanelTypes
<1>2. /\ story' \in Stories /\ story'.stray = S /\ story'.followers = story.followers
      /\ story'.newId = story.newId /\ story'.newEgg = story.newEgg /\ story'.late = story.late
      /\ story'.rows = story.rows /\ story'.givenUp = story.givenUp /\ story'.heard = story.heard
  BY <1>1 DEF Stories
<1>3. Hatched' = Hatched /\ EggsLaid' = EggsLaid
  BY <1>2 DEF Hatched, EggsLaid
<1> QED
  BY <1>2, <1>3

LEMMA WalkKeeps == ASSUME PanelsInv, NEW i \in DOMAIN folk, Walk(i) PROVE PanelsInv'
<1> DEFINE m == PositionOf(i)
           t == <<m>>
           S == story.stray \cup (IF i \in DOMAIN rites THEN Tiles ELSE {})
<1>1. PanelTypes
  BY DEF PanelsInv
<1>2. i \in Int /\ i \in Hatched /\ folk \in [DOMAIN folk -> Person] /\ DOMAIN folk \subseteq Hatched
  BY <1>1, Folks
<1>3. /\ DOMAIN folk' = DOMAIN folk /\ folk' \in [DOMAIN folk -> Person] /\ folk'[i].tile \in Int
      /\ \A j \in DOMAIN folk : folk'[j].level = folk[j].level /\ folk'[j].food = folk[j].food /\ (j # i => folk'[j] = folk[j])
  <2>1. folk' = [folk EXCEPT ![i].tile = 3 - @]
    BY DEF Walk
  <2>2. folk[i] \in Person
    BY <1>2
  <2>3. 3 - folk[i].tile \in 1 .. 2
    BY <2>2 DEF Person, Tiles
  <2> QED
    BY ONLY <1>2, <2>1, <2>3, i \in DOMAIN folk DEF Person, Tiles
<1> HIDE DEF m
<1>4. Means(m, "ppo", i, folk'[i].tile)
  <2>1. m = <<"ppo", i, folk'[i].tile>>
    BY DEF m, PositionOf
  <2>2. "ppo" \in Tags
    BY DEF Tags
  <2> QED
    BY ONLY <1>2, <1>3, <2>1, <2>2, LineMeans
<1>5. t \in Seq(Msg) /\ Pair(m, m, t)
  BY <1>4, OneMeans
<1>6. Event(t) /\ laid' = laid /\ heap' = heap /\ rites' = rites
  BY DEF Walk, m
<1> HIDE DEF m, t
<1>7. /\ story' \in Stories /\ story'.stray = S /\ story'.followers = story.followers
      /\ story'.newId = story.newId /\ story'.newEgg = story.newEgg /\ story'.late = story.late
      /\ story'.rows = story.rows /\ story'.givenUp = story.givenUp /\ story'.heard = story.heard
      /\ Hatched' = Hatched /\ EggsLaid' = EggsLaid
  <2>1. S \subseteq Tiles
    BY <1>1 DEF PanelTypes, Stories
  <2>2. story' = [story EXCEPT !.stray = S]
    BY DEF Walk
  <2> HIDE DEF S
  <2> QED
    BY <1>1, <2>1, <2>2, Strays
<1>8. PanelTypes' /\ done'.joined = done.joined
  <2>1. laid \subseteq EggsLaid /\ heap \in [Tiles -> Int] /\ DOMAIN rites \subseteq DOMAIN folk
        /\ rites \in [DOMAIN rites -> Rite]
    BY <1>1 DEF PanelTypes
  <2> QED
    BY <1>1, <1>2, <1>3, <1>5, <1>6, <1>7, <2>1, EventTypes
<1>9. Sound' = Sound
  BY <1>3, <1>7 DEF Sound
<1>10. Due(t)
  <2>1. m \in Sound'
    BY <1>2, <1>4, <1>7 DEF Means, Sound, Player
  <2> QED
    BY <1>3, <1>4, <1>5, <1>6, <1>7, <1>8, <1>9, <2>1 DEF Due, Event, Means, Pair
<1>11. Truthful(t)
  <2>1. \A x : /\ Silent(t, About({"bct"}, x)) /\ Silent(t, About({"pin"}, x)) /\ Silent(t, About({"pic", "pie"}, x))
               /\ Silent(t, About({"plv"}, x)) /\ Silent(t, About({"pnw"}, x)) /\ Silent(t, About({"pnw", "pdi"}, x))
               /\ Silent(t, About({"enw", "ebo"}, x))
    BY <1>4, <1>5 DEF Pair, Means
  <2>2. TrueHeap(t) /\ TrueFood(t) /\ TrueLevel(t) /\ TrueKnown(t) /\ TrueEggs(t)
    BY <1>3, <1>6, <1>7, <2>1, HeapKept, FoodKept, LevelsKept, FolkKept, EggsKept
  <2>3. TruePlace(t)
    BY <1>3, <1>4, <1>5 DEF TruePlace, Pair, Means
  <2>4. TrueRites(t)
    <3>1. CASE i \notin DOMAIN rites
      <4>1. story'.stray = story.stray
        BY <1>7, <3>1
      <4>2. DOMAIN rites \subseteq DOMAIN folk
        BY <1>1 DEF PanelTypes
      <4>3. \A l \in DOMAIN rites : folk'[l].tile = folk[l].tile
        BY <1>3, <3>1, <4>2
      <4> QED
        BY <1>6, <2>1, <4>1, <4>3, RitesKept
    <3>2. CASE i \in DOMAIN rites
      <4>1. story'.stray = Tiles
        BY <1>1, <1>7, <3>2 DEF PanelTypes, Stories
      <4>2. \A l \in DOMAIN rites : rites[l].at \in Tiles
        BY <1>1 DEF PanelTypes, Rite
      <4> QED
        BY <1>6, <4>1, <4>2 DEF TrueRites, RitesInv
    <3> QED
      BY <3>1, <3>2
  <2> QED
    BY <2>2, <2>3, <2>4 DEF Truthful
<1> QED
  BY <1>5, <1>8, <1>10, <1>11, DueKeeps

LEMMA DigestKeeps == ASSUME PanelsInv, NEW i \in DOMAIN folk, Digest(i) PROVE PanelsInv'
<1> DEFINE m == FoodOf(i)
           t == <<m>>
<1>1. PanelTypes
  BY DEF PanelsInv
<1>2. i \in Int /\ i \in Hatched /\ folk \in [DOMAIN folk -> Person] /\ DOMAIN folk \subseteq Hatched
  BY <1>1, Folks
<1>3. /\ DOMAIN folk' = DOMAIN folk /\ folk' \in [DOMAIN folk -> Person] /\ folk'[i].food \in Nat
      /\ \A j \in DOMAIN folk : folk'[j].level = folk[j].level /\ folk'[j].tile = folk[j].tile /\ (j # i => folk'[j] = folk[j])
  <2>1. folk' = [folk EXCEPT ![i].food = @ - 1] /\ folk[i].food > 0
    BY DEF Digest
  <2>2. folk[i] \in Person
    BY <1>2
  <2>3. folk[i].food - 1 \in Nat
    BY <2>1, <2>2 DEF Person
  <2> QED
    BY ONLY <1>2, <2>1, <2>3, i \in DOMAIN folk DEF Person
<1> HIDE DEF m
<1>4. Means(m, "pin", i, folk'[i].food)
  <2>1. m = <<"pin", i, folk'[i].food>>
    BY DEF m, FoodOf
  <2>2. "pin" \in Tags /\ folk'[i].food \in Int
    BY <1>3 DEF Tags
  <2> QED
    BY ONLY <1>2, <2>1, <2>2, LineMeans
<1>5. t \in Seq(Msg) /\ Pair(m, m, t)
  BY <1>4, OneMeans
<1>6. Event(t) /\ laid' = laid /\ heap' = heap /\ rites' = rites /\ story' = story
  BY DEF Digest, m
<1> HIDE DEF m, t
<1>7. Hatched' = Hatched /\ EggsLaid' = EggsLaid /\ story \in Stories
  BY <1>1, <1>6 DEF Hatched, EggsLaid, PanelTypes
<1>8. PanelTypes' /\ done'.joined = done.joined
  <2>1. laid \subseteq EggsLaid /\ heap \in [Tiles -> Int] /\ DOMAIN rites \subseteq DOMAIN folk
        /\ rites \in [DOMAIN rites -> Rite]
    BY <1>1 DEF PanelTypes
  <2> QED
    BY <1>1, <1>2, <1>3, <1>5, <1>6, <1>7, <2>1, EventTypes
<1>9. Sound' = Sound
  BY <1>3, <1>7 DEF Sound
<1>10. Due(t)
  <2>1. m \in Sound'
    BY <1>2, <1>3, <1>4, <1>7 DEF Means, Sound, Player
  <2> QED
    BY <1>3, <1>4, <1>5, <1>6, <1>7, <1>8, <1>9, <2>1 DEF Due, Event, Means, Pair
<1>11. Truthful(t)
  <2>1. \A x : /\ Silent(t, About({"bct"}, x)) /\ Silent(t, About({"ppo"}, x)) /\ Silent(t, About({"pic", "pie"}, x))
               /\ Silent(t, About({"plv"}, x)) /\ Silent(t, About({"pnw"}, x)) /\ Silent(t, About({"pnw", "pdi"}, x))
               /\ Silent(t, About({"enw", "ebo"}, x))
    BY <1>4, <1>5 DEF Pair, Means
  <2>2. TrueHeap(t) /\ TruePlace(t) /\ TrueLevel(t) /\ TrueKnown(t) /\ TrueEggs(t)
    BY <1>3, <1>6, <1>7, <2>1, HeapKept, PlacesKept, LevelsKept, FolkKept, EggsKept
  <2>3. TrueFood(t)
    BY <1>3, <1>4, <1>5 DEF TrueFood, Pair, Means
  <2>4. TrueRites(t)
    <3>1. DOMAIN rites \subseteq DOMAIN folk
      BY <1>1 DEF PanelTypes
    <3> QED
      BY <1>3, <1>6, <2>1, <3>1, RitesKept
  <2> QED
    BY <2>2, <2>3, <2>4 DEF Truthful
<1> QED
  BY <1>5, <1>8, <1>10, <1>11, DueKeeps

LEMMA HandleKeeps == ASSUME PanelsInv, NEW i \in DOMAIN folk, NEW d \in {-1, 1}, Handle(i, d) PROVE PanelsInv'
<1> DEFINE x == folk[i].tile
           m == ContentOf(x)
           n == FoodOf(i)
           t == <<m, n>>
<1>1. PanelTypes
  BY DEF PanelsInv
<1>2. i \in Int /\ i \in Hatched /\ folk \in [DOMAIN folk -> Person] /\ DOMAIN folk \subseteq Hatched
  BY <1>1, Folks
<1>3. folk[i] \in Person /\ x \in Tiles /\ x \in Int
  <2>1. folk[i] \in Person
    BY <1>2
  <2> QED
    BY <2>1 DEF Person, Tiles
<1>4. /\ DOMAIN folk' = DOMAIN folk /\ folk' \in [DOMAIN folk -> Person] /\ folk'[i].food \in Nat
      /\ \A j \in DOMAIN folk : folk'[j].level = folk[j].level /\ folk'[j].tile = folk[j].tile /\ (j # i => folk'[j] = folk[j])
  <2>1. folk' = [folk EXCEPT ![i].food = @ + d] /\ folk[i].food + d >= 0
    BY DEF Handle
  <2>2. folk[i].food + d \in Nat
    BY <1>3, <2>1 DEF Person
  <2> QED
    BY ONLY <1>2, <2>1, <2>2, i \in DOMAIN folk DEF Person
<1>5. heap' \in [Tiles -> Int] /\ \A y \in Tiles : y # x => heap'[y] = heap[y]
  <2>1. heap \in [Tiles -> Int] /\ heap' = [heap EXCEPT ![x] = @ - d]
    BY <1>1 DEF Handle, PanelTypes
  <2> HIDE DEF x
  <2> QED
    BY ONLY <1>3, <2>1, d \in {-1, 1}
<1> HIDE DEF m, n
<1>6. Means(m, "bct", x, heap'[x]) /\ Means(n, "pin", i, folk'[i].food)
  <2>1. m = <<"bct", x, heap'[x]>> /\ n = <<"pin", i, folk'[i].food>>
    BY DEF m, n, ContentOf, FoodOf
  <2>2. "bct" \in Tags /\ "pin" \in Tags /\ folk'[i].food \in Int
    BY <1>4 DEF Tags
  <2>3. heap'[x] \in Int
    BY <1>3, <1>5
  <2> HIDE DEF x
  <2>4. Means(m, "bct", x, heap'[x])
    BY ONLY <1>3, <2>1, <2>2, <2>3, LineMeans
  <2>5. Means(n, "pin", i, folk'[i].food)
    BY ONLY <1>2, <2>1, <2>2, LineMeans
  <2> QED
    BY <2>4, <2>5
<1>7. t \in Seq(Msg) /\ Pair(m, n, t)
  BY <1>6, PairSays DEF Means
<1>8. Event(t) /\ laid' = laid /\ rites' = rites /\ story' = story
  BY DEF Handle, m, n
<1> HIDE DEF x, m, n, t
<1>9. Hatched' = Hatched /\ EggsLaid' = EggsLaid /\ story \in Stories
  BY <1>1, <1>8 DEF Hatched, EggsLaid, PanelTypes
<1>10. PanelTypes' /\ done'.joined = done.joined
  <2>1. laid \subseteq EggsLaid /\ DOMAIN rites \subseteq DOMAIN folk
        /\ rites \in [DOMAIN rites -> Rite]
    BY <1>1 DEF PanelTypes
  <2> QED
    BY <1>1, <1>2, <1>4, <1>5, <1>7, <1>8, <1>9, <2>1, EventTypes
<1>11. Sound' = Sound
  BY <1>4, <1>9 DEF Sound
<1>12. Due(t)
  <2>1. m \in Sound' /\ n \in Sound'
    BY <1>2, <1>3, <1>4, <1>6, <1>9 DEF Means, Sound, Player
  <2> QED
    BY <1>4, <1>6, <1>7, <1>8, <1>9, <1>10, <1>11, <2>1 DEF Due, Event, Means, Pair
<1>13. Truthful(t)
  <2>1. \A y : /\ Silent(t, About({"ppo"}, y)) /\ Silent(t, About({"pic", "pie"}, y))
               /\ Silent(t, About({"plv"}, y)) /\ Silent(t, About({"pnw"}, y)) /\ Silent(t, About({"pnw", "pdi"}, y))
               /\ Silent(t, About({"enw", "ebo"}, y))
    BY <1>6, <1>7 DEF Pair, Means
  <2>2. TruePlace(t) /\ TrueLevel(t) /\ TrueKnown(t) /\ TrueEggs(t)
    BY <1>4, <1>8, <1>9, <2>1, PlacesKept, LevelsKept, FolkKept, EggsKept
  <2>3. TrueFood(t)
    BY <1>4, <1>6, <1>7 DEF TrueFood, Pair, Means
  <2>4. TrueHeap(t)
    BY <1>3, <1>5, <1>6, <1>7 DEF TrueHeap, Pair, Means
  <2>5. TrueRites(t)
    <3>1. DOMAIN rites \subseteq DOMAIN folk
      BY <1>1 DEF PanelTypes
    <3> QED
      BY <1>4, <1>8, <2>1, <3>1, RitesKept
  <2> QED
    BY <2>2, <2>3, <2>4, <2>5 DEF Truthful
<1> QED
  BY <1>7, <1>10, <1>12, <1>13, DueKeeps

LEMMA RegrowKeeps == ASSUME PanelsInv, NEW x \in Tiles, Regrow(x) PROVE PanelsInv'
<1> DEFINE m == ContentOf(x)
           t == <<m>>
<1>1. PanelTypes /\ x \in Int
  BY DEF PanelsInv, Tiles
<1>2. folk \in [DOMAIN folk -> Person] /\ DOMAIN folk \subseteq Hatched
  BY <1>1, Folks
<1>3. heap' \in [Tiles -> Int] /\ heap'[x] \in Int /\ \A y \in Tiles : y # x => heap'[y] = heap[y]
  <2>1. heap \in [Tiles -> Int] /\ heap' = [heap EXCEPT ![x] = 1]
    BY <1>1 DEF Regrow, PanelTypes
  <2> QED
    BY ONLY <2>1, x \in Tiles
<1> HIDE DEF m
<1>4. Means(m, "bct", x, heap'[x])
  <2>1. m = <<"bct", x, heap'[x]>>
    BY DEF m, ContentOf
  <2>2. "bct" \in Tags
    BY DEF Tags
  <2> QED
    BY ONLY <1>1, <1>3, <2>1, <2>2, LineMeans
<1>5. t \in Seq(Msg) /\ Pair(m, m, t)
  BY <1>4, OneMeans
<1>6. Event(t) /\ laid' = laid /\ folk' = folk /\ rites' = rites /\ story' = story
  BY DEF Regrow, m
<1> HIDE DEF m, t
<1>7. Hatched' = Hatched /\ EggsLaid' = EggsLaid /\ story \in Stories
  BY <1>1, <1>6 DEF Hatched, EggsLaid, PanelTypes
<1>8. PanelTypes' /\ done'.joined = done.joined
  <2>1. laid \subseteq EggsLaid /\ DOMAIN rites \subseteq DOMAIN folk /\ rites \in [DOMAIN rites -> Rite]
    BY <1>1 DEF PanelTypes
  <2> QED
    BY <1>1, <1>2, <1>3, <1>5, <1>6, <1>7, <2>1, EventTypes
<1>9. Sound' = Sound
  BY <1>6, <1>7 DEF Sound
<1>10. Due(t)
  <2>1. m \in Sound'
    BY <1>1, <1>4, <1>7 DEF Means, Sound, Player
  <2> QED
    BY <1>4, <1>5, <1>6, <1>7, <1>8, <1>9, <2>1 DEF Due, Event, Means, Pair
<1>11. Truthful(t)
  <2>1. \A y : /\ Silent(t, About({"ppo"}, y)) /\ Silent(t, About({"pin"}, y)) /\ Silent(t, About({"pic", "pie"}, y))
               /\ Silent(t, About({"plv"}, y)) /\ Silent(t, About({"pnw"}, y)) /\ Silent(t, About({"pnw", "pdi"}, y))
               /\ Silent(t, About({"enw", "ebo"}, y))
    BY <1>4, <1>5 DEF Pair, Means
  <2>2. TruePlace(t) /\ TrueFood(t) /\ TrueLevel(t) /\ TrueKnown(t) /\ TrueEggs(t) /\ TrueRites(t)
    BY <1>6, <1>7, <2>1, PlacesKept, FoodKept, LevelsKept, FolkKept, EggsKept, RitesKept
  <2>3. TrueHeap(t)
    BY <1>3, <1>4, <1>5 DEF TrueHeap, Pair, Means
  <2> QED
    BY <2>2, <2>3 DEF Truthful
<1> QED
  BY <1>5, <1>8, <1>10, <1>11, DueKeeps

LEMMA StarveKeeps == ASSUME PanelsInv, NEW i \in DOMAIN folk, Starve(i) PROVE PanelsInv'
<1> DEFINE m == <<"pdi", i, 0>>
           t == <<m>>
           S == story.stray \cup Stray({i})
<1>1. PanelTypes
  BY DEF PanelsInv
<1>2. i \in Int /\ i \in Hatched /\ folk \in [DOMAIN folk -> Person] /\ DOMAIN folk \subseteq Hatched
  BY <1>1, Folks
<1>3. /\ DOMAIN folk' = DOMAIN folk \ {i} /\ folk' \in [DOMAIN folk' -> Person]
      /\ \A j \in DOMAIN folk' : folk'[j] = folk[j]
  <2>1. folk' = [j \in DOMAIN folk \ {i} |-> folk[j]]
    BY DEF Starve
  <2> QED
    BY ONLY <1>2, <2>1
<1>4. DOMAIN rites \subseteq DOMAIN folk /\ rites \in [DOMAIN rites -> Rite] /\ laid \subseteq EggsLaid
      /\ heap \in [Tiles -> Int] /\ \A l \in DOMAIN rites : rites[l].at \in Tiles
  BY <1>1 DEF PanelTypes, Rite
<1>5. /\ DOMAIN rites' = DOMAIN rites \ {i} /\ rites' \in [DOMAIN rites' -> Rite]
      /\ \A l \in DOMAIN rites' : rites'[l] = rites[l]
  <2>1. rites' = [l \in DOMAIN rites \ {i} |-> rites[l]]
    BY DEF Starve
  <2> QED
    BY ONLY <1>4, <2>1
<1> HIDE DEF m
<1>6. Means(m, "pdi", i, 0)
  <2>1. m = <<"pdi", i, 0>>
    BY DEF m
  <2>2. "pdi" \in Tags /\ 0 \in Int
    BY DEF Tags
  <2> QED
    BY ONLY <1>2, <2>1, <2>2, LineMeans
<1>7. t \in Seq(Msg) /\ Pair(m, m, t)
  BY <1>6, OneMeans
<1>8. Event(t) /\ laid' = laid /\ heap' = heap
  BY DEF Starve, m
<1> HIDE DEF m, t
<1>9. /\ story' \in Stories /\ story'.stray = S /\ story'.followers = story.followers
      /\ story'.newId = story.newId /\ story'.newEgg = story.newEgg /\ story'.late = story.late
      /\ story'.rows = story.rows /\ story'.givenUp = story.givenUp /\ story'.heard = story.heard
      /\ Hatched' = Hatched /\ EggsLaid' = EggsLaid
  <2>1. S \subseteq Tiles
    BY <1>1, <1>4 DEF PanelTypes, Stories, Stray
  <2>2. story' = [story EXCEPT !.stray = S]
    BY DEF Starve
  <2> HIDE DEF S
  <2> QED
    BY <1>1, <2>1, <2>2, Strays
<1>10. PanelTypes' /\ done'.joined = done.joined
  <2>1. DOMAIN rites' \subseteq DOMAIN folk' /\ DOMAIN folk' \subseteq Hatched'
    BY <1>2, <1>3, <1>4, <1>5, <1>9
  <2> QED
    BY <1>1, <1>3, <1>4, <1>5, <1>7, <1>8, <1>9, <2>1, EventTypes
<1>11. Sound \subseteq Sound'
  BY <1>3, <1>9 DEF Sound
<1>12. Due(t)
  <2>1. m \in Sound'
    BY <1>2, <1>3, <1>6, <1>9 DEF Means, Sound, Player
  <2> QED
    BY <1>3, <1>6, <1>7, <1>8, <1>9, <1>10, <1>11, <2>1 DEF Due, Event, Means, Pair
<1>13. Truthful(t)
  <2>1. \A x : /\ Silent(t, About({"bct"}, x)) /\ Silent(t, About({"ppo"}, x)) /\ Silent(t, About({"pin"}, x))
               /\ Silent(t, About({"plv"}, x)) /\ Silent(t, About({"pnw"}, x)) /\ Silent(t, About({"pic", "pie"}, x))
               /\ Silent(t, About({"enw", "ebo"}, x))
    BY <1>6, <1>7 DEF Pair, Means
  <2>2. TrueHeap(t) /\ TruePlace(t) /\ TrueFood(t) /\ TrueLevel(t) /\ TrueEggs(t)
    BY <1>3, <1>8, <1>9, <2>1, HeapKept, PlacesKept, FoodKept, LevelsKept, EggsKept
  <2>3. TrueKnown(t)
    BY <1>3, <1>6, <1>7 DEF TrueKnown, Pair, Means
  <2>4. TrueRites(t)
    <3>1. RitesInv'
      <4>1. RitesInv
        BY DEF PanelsInv
      <4>2. story.stray \subseteq story'.stray /\ (story.stray = Tiles => story'.stray = Tiles)
        BY <1>9 DEF Stories
      <4> QED
        BY <1>3, <1>4, <1>5, <1>10, <4>1, <4>2 DEF RitesInv, PanelTypes
    <3>2. \A x \in Tiles \ story'.stray : x \notin story.stray /\ (Ritual(x)' <=> Ritual(x))
      BY <1>5, <1>9 DEF Ritual, Stray
    <3> QED
      BY <2>1, <3>1, <3>2, SilentSays DEF TrueRites
  <2> QED
    BY <2>2, <2>3, <2>4 DEF Truthful
<1> QED
  BY <1>7, <1>10, <1>12, <1>13, DueKeeps

LEMMA LayKeeps == ASSUME PanelsInv, Lay PROVE PanelsInv'
<1> DEFINE e == story.newEgg
           m == <<"enw", e, 0>>
           t == <<m>>
<1>1. PanelTypes /\ e \in Nat
  BY DEF PanelsInv, PanelTypes, Stories
<1>2. folk \in [DOMAIN folk -> Person] /\ DOMAIN folk \subseteq Hatched
  BY <1>1, Folks
<1> HIDE DEF m
<1>3. Means(m, "enw", e, 0)
  <2>1. m = <<"enw", e, 0>>
    BY DEF m
  <2>2. 0 \in Int /\ e \in Int
    BY <1>1
  <2>3. "enw" \in Tags
    BY DEF Tags
  <2> QED
    BY ONLY <2>1, <2>2, <2>3, LineMeans
<1>4. t \in Seq(Msg) /\ Pair(m, m, t)
  BY <1>3, OneMeans
<1>5. Event(t) /\ laid' = laid \cup {e} /\ folk' = folk /\ heap' = heap /\ rites' = rites
  BY DEF Lay, m
<1>6. /\ story'.followers = story.followers /\ story'.stray = story.stray /\ story'.heard = story.heard
      /\ story'.newId = story.newId /\ story'.newEgg = e + 1 /\ story'.late = story.late
      /\ story'.rows = story.rows /\ story'.givenUp = story.givenUp
      /\ story' \in Stories
  <2>1. story \in Stories
    BY <1>1 DEF PanelTypes
  <2>2. story' = [story EXCEPT !.newEgg = @ + 1]
    BY DEF Lay
  <2> QED
    BY ONLY <2>1, <2>2 DEF Stories
<1>7. Hatched' = Hatched /\ EggsLaid' = EggsLaid \cup {e} /\ e \notin EggsLaid
  BY <1>1, <1>6 DEF Hatched, EggsLaid
<1> HIDE DEF m, t, e
<1>8. PanelTypes' /\ done'.joined = done.joined
  <2>1. laid \subseteq EggsLaid /\ DOMAIN rites \subseteq DOMAIN folk /\ rites \in [DOMAIN rites -> Rite]
        /\ heap \in [Tiles -> Int]
    BY <1>1 DEF PanelTypes
  <2> QED
    BY <1>1, <1>2, <1>4, <1>5, <1>6, <1>7, <2>1, EventTypes
<1>9. Sound \subseteq Sound'
  BY <1>5, <1>7 DEF Sound
<1>10. Due(t)
  <2>1. m \in Sound'
    BY <1>3, <1>7 DEF Means, Sound, Player
  <2> QED
    BY <1>3, <1>4, <1>5, <1>6, <1>7, <1>8, <1>9, <2>1 DEF Due, Event, Means, Pair
<1>11. Truthful(t)
  <2>1. \A y : /\ Silent(t, About({"ppo"}, y)) /\ Silent(t, About({"pin"}, y)) /\ Silent(t, About({"pic", "pie"}, y))
               /\ Silent(t, About({"plv"}, y)) /\ Silent(t, About({"pnw"}, y)) /\ Silent(t, About({"pnw", "pdi"}, y))
               /\ Silent(t, About({"bct"}, y))
    BY <1>3, <1>4 DEF Pair, Means
  <2>2. TrueHeap(t) /\ TruePlace(t) /\ TrueFood(t) /\ TrueLevel(t) /\ TrueKnown(t) /\ TrueRites(t)
    BY <1>5, <1>6, <2>1, HeapKept, PlacesKept, FoodKept, LevelsKept, FolkKept, RitesKept
  <2>3. TrueEggs(t)
    BY <1>3, <1>4, <1>5, <1>7 DEF TrueEggs, Pair, Means
  <2> QED
    BY <2>2, <2>3 DEF Truthful
<1> QED
  BY <1>4, <1>8, <1>10, <1>11, DueKeeps

LEMMA HatchEggKeeps == ASSUME PanelsInv, NEW e \in laid, NEW i \in Numbers, HatchEgg(e, i) PROVE PanelsInv'
<1> DEFINE m == Newcomer(i)
           n == <<"ebo", e, 0>>
           t == <<m, n>>
<1>1. PanelTypes
  BY DEF PanelsInv
<1>2. /\ i \in Nat /\ e \in Int /\ e \in EggsLaid /\ i = story.newId
      /\ folk \in [DOMAIN folk -> Person] /\ DOMAIN folk \subseteq Hatched
  <2>1. laid \subseteq EggsLaid /\ i = story.newId
    BY <1>1 DEF PanelTypes, HatchEgg
  <2>2. e \in Int
    BY <2>1 DEF EggsLaid
  <2> QED
    BY <1>1, <2>1, <2>2, Folks
<1>3. i \notin Hatched /\ i \notin DOMAIN folk
  BY <1>2 DEF Hatched
<1>4. /\ DOMAIN folk' = DOMAIN folk \cup {i} /\ folk' \in [DOMAIN folk' -> Person]
      /\ folk'[i].level = 1 /\ \A j \in DOMAIN folk : folk'[j] = folk[j]
  <2> DEFINE new == [level |-> 1, tile |-> 1, food |-> StartFood, frozen |-> FALSE]
  <2>1. folk' = [j \in DOMAIN folk \cup {i} |-> IF j = i THEN new ELSE folk[j]]
    BY DEF HatchEgg, Entered
  <2>2. new \in Person /\ new.level = 1
    BY DEF Tiles, Person, StartFood
  <2> HIDE DEF new
  <2> QED
    BY ONLY <1>2, <1>3, <2>1, <2>2
<1> HIDE DEF m, n
<1>5. Means(m, "pnw", i, folk'[i].level) /\ Means(n, "ebo", e, 0)
  <2>1. m = <<"pnw", i, folk'[i].level>> /\ n = <<"ebo", e, 0>>
    BY DEF m, n, Newcomer
  <2>2. folk'[i].level \in Int /\ i \in Int /\ 0 \in Int
    BY <1>2, <1>4
  <2>3. "pnw" \in Tags /\ "ebo" \in Tags
    BY DEF Tags
  <2>4. Means(m, "pnw", i, folk'[i].level)
    BY ONLY <2>1, <2>2, <2>3, LineMeans
  <2>5. Means(n, "ebo", e, 0)
    BY ONLY <1>2, <2>1, <2>2, <2>3, LineMeans
  <2> QED
    BY <2>4, <2>5
<1>6. t \in Seq(Msg) /\ Pair(m, n, t)
  BY <1>5, PairSays DEF Means
<1>7. Event(t) /\ laid' = laid \ {e} /\ heap' = heap /\ rites' = rites
  BY DEF HatchEgg, m, n
<1>8. /\ story'.followers = story.followers /\ story'.stray = story.stray /\ story'.heard = story.heard
      /\ story'.newId = i + 1 /\ story'.newEgg = story.newEgg /\ story'.late = story.late
      /\ story'.rows = story.rows /\ story'.givenUp = story.givenUp
      /\ story' \in Stories
  <2>1. story \in Stories
    BY <1>1 DEF PanelTypes
  <2>2. story' = [story EXCEPT !.newId = @ + 1]
    BY DEF HatchEgg
  <2> QED
    BY ONLY <1>2, <2>1, <2>2 DEF Stories
<1>9. Hatched' = Hatched \cup {i} /\ EggsLaid' = EggsLaid
  BY <1>2, <1>8, PanelConstants DEF Hatched, EggsLaid
<1> HIDE DEF m, n, t
<1>10. PanelTypes' /\ done'.joined = done.joined
  <2>1. laid \subseteq EggsLaid /\ DOMAIN rites \subseteq DOMAIN folk /\ rites \in [DOMAIN rites -> Rite]
        /\ heap \in [Tiles -> Int]
    BY <1>1 DEF PanelTypes
  <2>2. DOMAIN folk' \subseteq Hatched' /\ DOMAIN rites' \subseteq DOMAIN folk'
    BY <1>2, <1>4, <1>7, <1>9, <2>1
  <2> QED
    BY <1>1, <1>4, <1>6, <1>7, <1>8, <1>9, <2>1, <2>2, EventTypes
<1>11. Sound \subseteq Sound'
  BY <1>3, <1>4, <1>7, <1>9 DEF Sound, Player
<1>12. Due(t)
  <2>1. m \in Sound' /\ n \in Sound'
    BY <1>2, <1>5, <1>9 DEF Means, Sound, Player
  <2>2. OnlyFrom(t, Sound') /\ Silent(t, Speaks)
    BY <1>5, <1>6, <2>1 DEF Pair, Means
  <2> QED
    BY <1>3, <1>4, <1>7, <1>8, <1>9, <1>10, <1>11, <2>2 DEF Due, Event
<1>13. Truthful(t)
  <2>1. \A y : /\ Silent(t, About({"ppo"}, y)) /\ Silent(t, About({"pin"}, y)) /\ Silent(t, About({"pic", "pie"}, y))
               /\ Silent(t, About({"plv"}, y)) /\ Silent(t, About({"bct"}, y))
    BY <1>5, <1>6 DEF Pair, Means
  <2>2. TrueHeap(t) /\ TruePlace(t) /\ TrueFood(t)
    BY <1>4, <1>7, <2>1, HeapKept, PlacesKept, FoodKept
  <2>3. TrueRites(t)
    <3>1. DOMAIN rites \subseteq DOMAIN folk
      BY <1>1 DEF PanelTypes
    <3> QED
      BY <1>4, <1>7, <1>8, <2>1, <3>1, RitesKept
  <2>4. TrueLevel(t)
    <3>1. \A x : \A V : LastIn(t, About({"plv"}, x), V)
      BY <2>1, SilentSays
    <3>2. FirstIn(t, About({"pnw"}, i), Third(folk'[i].level))
      BY <1>5, <1>6 DEF Pair, Means
    <3>3. \A j \in DOMAIN folk : Silent(t, About({"pnw"}, j))
      BY <1>3, <1>5, <1>6 DEF Pair, Means
    <3> QED
      BY <1>4, <1>8, <2>1, <3>1, <3>2, <3>3 DEF TrueLevel
  <2>5. TrueKnown(t)
    BY <1>3, <1>4, <1>5, <1>6 DEF TrueKnown, Pair, Means
  <2>6. TrueEggs(t)
    BY <1>5, <1>6, <1>7, <1>9 DEF TrueEggs, Pair, Means
  <2> QED
    BY <2>2, <2>3, <2>4, <2>5, <2>6 DEF Truthful
<1> QED
  BY <1>6, <1>10, <1>12, <1>13, DueKeeps

LEMMA GatherKeeps ==
    ASSUME PanelsInv, NEW l \in DOMAIN folk, NEW other \in DOMAIN folk, Gather(l, other) PROVE PanelsInv'
<1> DEFINE x == folk[l].tile
           m == <<"pic", x, 1>>
           t == <<m>>
           new == [at |-> x, with |-> other]
           S == story.stray \cup (Stray(DOMAIN rites) \cap {x})
<1>1. PanelTypes
  BY DEF PanelsInv
<1>2. /\ folk \in [DOMAIN folk -> Person] /\ DOMAIN folk \subseteq Hatched /\ other \in Numbers
      /\ x \in Tiles /\ x \in Int
  <2>1. folk[l] \in Person /\ other \in Numbers
    BY <1>1, Folks
  <2> QED
    BY <1>1, <2>1, Folks DEF Person, Tiles
<1>3. /\ DOMAIN folk' = DOMAIN folk /\ folk' \in [DOMAIN folk -> Person]
      /\ \A j \in DOMAIN folk : folk'[j].level = folk[j].level /\ folk'[j].tile = folk[j].tile
                                /\ folk'[j].food = folk[j].food
  <2>1. folk' = [folk EXCEPT ![other].frozen = @ \/ other # l]
    BY DEF Gather
  <2>2. folk[other] \in Person
    BY <1>2
  <2> DEFINE ice == folk[other].frozen \/ other # l
  <2>3. folk' = [folk EXCEPT ![other].frozen = ice] /\ ice \in BOOLEAN
    BY <2>1, <2>2 DEF Person
  <2> HIDE DEF ice
  <2> QED
    BY ONLY <1>2, <2>3, other \in DOMAIN folk DEF Person
<1>4. DOMAIN rites \subseteq DOMAIN folk /\ rites \in [DOMAIN rites -> Rite] /\ laid \subseteq EggsLaid
      /\ heap \in [Tiles -> Int] /\ \A k \in DOMAIN rites : rites[k].at \in Tiles
  BY <1>1 DEF PanelTypes, Rite
<1>5. /\ DOMAIN rites' = DOMAIN rites \cup {l} /\ rites' \in [DOMAIN rites' -> Rite]
      /\ rites'[l].at = x /\ l \notin DOMAIN rites /\ \A k \in DOMAIN rites : rites'[k] = rites[k]
  <2>1. rites' = [k \in DOMAIN rites \cup {l} |-> IF k = l THEN new ELSE rites[k]] /\ l \notin DOMAIN rites
    BY DEF Gather, Entered
  <2>2. new \in Rite /\ new.at = x
    BY <1>2 DEF Rite
  <2> HIDE DEF new, x
  <2> QED
    BY ONLY <1>4, <2>1, <2>2
<1> HIDE DEF m
<1>6. Means(m, "pic", x, 1)
  <2>1. m = <<"pic", x, 1>>
    BY DEF m
  <2>2. "pic" \in Tags /\ 1 \in Int
    BY DEF Tags
  <2> HIDE DEF x
  <2> QED
    BY ONLY <1>2, <2>1, <2>2, LineMeans
<1>7. t \in Seq(Msg) /\ Pair(m, m, t)
  BY <1>6, OneMeans
<1>8. Event(t) /\ laid' = laid /\ heap' = heap
  BY DEF Gather, m
<1> HIDE DEF m, t
<1>9. /\ story' \in Stories /\ story'.stray = S /\ story'.followers = story.followers
      /\ story'.newId = story.newId /\ story'.newEgg = story.newEgg /\ story'.late = story.late
      /\ story'.rows = story.rows /\ story'.givenUp = story.givenUp /\ story'.heard = story.heard
      /\ Hatched' = Hatched /\ EggsLaid' = EggsLaid
  <2>1. S \subseteq Tiles
    BY <1>1, <1>2 DEF PanelTypes, Stories
  <2>2. story' = [story EXCEPT !.stray = S]
    BY DEF Gather
  <2> HIDE DEF S
  <2> QED
    BY <1>1, <2>1, <2>2, Strays
<1>10. PanelTypes' /\ done'.joined = done.joined
  <2>1. DOMAIN rites' \subseteq DOMAIN folk' /\ DOMAIN folk' \subseteq Hatched'
    BY <1>2, <1>3, <1>4, <1>5, <1>9
  <2> QED
    BY <1>1, <1>3, <1>4, <1>5, <1>7, <1>8, <1>9, <2>1, EventTypes
<1>11. Sound' = Sound
  BY <1>3, <1>9 DEF Sound
<1>12. Due(t)
  <2>1. m \in Sound'
    BY <1>2, <1>6, <1>9 DEF Means, Sound, Player
  <2> QED
    BY <1>3, <1>6, <1>7, <1>8, <1>9, <1>10, <1>11, <2>1 DEF Due, Event, Means, Pair
<1>13. Truthful(t)
  <2>1. \A y : /\ Silent(t, About({"bct"}, y)) /\ Silent(t, About({"ppo"}, y)) /\ Silent(t, About({"pin"}, y))
               /\ Silent(t, About({"plv"}, y)) /\ Silent(t, About({"pnw"}, y)) /\ Silent(t, About({"pnw", "pdi"}, y))
               /\ Silent(t, About({"enw", "ebo"}, y))
    BY <1>6, <1>7 DEF Pair, Means
  <2>2. TrueHeap(t) /\ TruePlace(t) /\ TrueFood(t) /\ TrueLevel(t) /\ TrueKnown(t) /\ TrueEggs(t)
    BY <1>3, <1>8, <1>9, <2>1, HeapKept, PlacesKept, FoodKept, LevelsKept, FolkKept, EggsKept
  <2>3. story.stray \subseteq story'.stray /\ (story.stray = Tiles => story'.stray = Tiles)
    BY <1>9 DEF Stories
  <2>4. \A k \in DOMAIN rites : rites[k].at = x => x \in story'.stray
    BY <1>9 DEF Stray
  <2>5. \A y \in Tiles \ story'.stray : y \notin story.stray
    BY <2>3
  <2>6. RitesInv'
    <3>1. RitesInv
      BY DEF PanelsInv
    <3>2. \A k \in DOMAIN rites' : rites'[k].at = folk'[k].tile \/ story'.stray = Tiles
      <4> TAKE k \in DOMAIN rites'
      <4>1. CASE k = l
        BY <1>3, <1>5, <4>1
      <4>2. CASE k # l
        <5>1. k \in DOMAIN rites /\ rites'[k] = rites[k] /\ folk'[k].tile = folk[k].tile
          BY <1>3, <1>4, <1>5, <4>2
        <5> QED
          BY <2>3, <3>1, <5>1 DEF RitesInv
      <4> QED
        BY <4>1, <4>2
    <3>3. \A k, j \in DOMAIN rites' : rites'[k].at = rites'[j].at => k = j \/ rites'[k].at \in story'.stray
      BY <1>5, <2>3, <2>4, <3>1 DEF RitesInv
    <3> QED
      BY <3>2, <3>3 DEF RitesInv
  <2>7. ASSUME NEW y \in Tiles \ story'.stray
        PROVE  LET A == About({"pic", "pie"}, y) IN
                  /\ LastIn(t, A, Tagged(IF Ritual(y)' THEN "pic" ELSE "pie"))
                  /\ Silent(t, A) => y \notin story.stray /\ (Ritual(y)' <=> Ritual(y))
    <3>1. CASE y = x
      <4>1. Ritual(y)'
        BY <1>5, <3>1 DEF Ritual
      <4> QED
        BY <1>6, <1>7, <3>1, <4>1 DEF Pair, Means
    <3>2. CASE y # x
      <4>1. Silent(t, About({"pic", "pie"}, y))
        BY <1>6, <1>7, <3>2 DEF Pair, Means
      <4>2. Ritual(y)' <=> Ritual(y)
        BY <1>5, <3>2 DEF Ritual
      <4> QED
        BY <2>5, <4>1, <4>2, SilentSays
    <3> QED
      BY <3>1, <3>2
  <2> QED
    BY <2>2, <2>6, <2>7 DEF Truthful, TrueRites
<1> QED
  BY <1>7, <1>10, <1>12, <1>13, DueKeeps

LEMMA ConcludeKeeps ==
    ASSUME PanelsInv, NEW l \in DOMAIN rites, NEW success \in BOOLEAN, Conclude(l, success) PROVE PanelsInv'
<1> DEFINE x == folk[l].tile
           w == rites[l].with
           p == LevelOf(l)
           n == <<"pie", x, 0>>
           m == IF success THEN p ELSE n
           t == (IF success THEN <<p>> ELSE <<>>) \o <<n>>
<1>1. PanelTypes
  BY DEF PanelsInv
<1>2. DOMAIN rites \subseteq DOMAIN folk /\ rites \in [DOMAIN rites -> Rite] /\ laid \subseteq EggsLaid
      /\ heap \in [Tiles -> Int] /\ \A k \in DOMAIN rites : rites[k].at \in Tiles /\ rites[k].with \in Numbers
  BY <1>1 DEF PanelTypes, Rite
<1>3. /\ folk \in [DOMAIN folk -> Person] /\ DOMAIN folk \subseteq Hatched /\ l \in DOMAIN folk /\ w \in Numbers
      /\ x \in Tiles /\ x \in Int /\ l \in Int /\ l \in Hatched /\ l \in Numbers
  <2>1. l \in DOMAIN folk /\ w \in Numbers
    BY <1>2
  <2>2. folk[l] \in Person
    BY <1>1, <2>1, Folks
  <2> QED
    BY <1>1, <2>1, <2>2, Folks DEF Person, Tiles
<1>4. /\ DOMAIN folk' = DOMAIN folk /\ folk' \in [DOMAIN folk -> Person]
      /\ \A j \in DOMAIN folk : /\ folk'[j].tile = folk[j].tile /\ folk'[j].food = folk[j].food
                                /\ folk'[j].level >= folk[j].level
                                /\ success /\ j \notin {l, w} => folk'[j].level = folk[j].level
                                /\ ~success => folk'[j].level = folk[j].level
  <2> DEFINE up(j) == IF success /\ folk[j].level < VictoryLevel THEN folk[j].level + 1 ELSE folk[j].level
  <2>1. folk' = [j \in DOMAIN folk |->
                  IF j \in {l, w} THEN [folk[j] EXCEPT !.level = up(j), !.frozen = FALSE] ELSE folk[j]]
    BY DEF Conclude
  <2>2. \A j \in DOMAIN folk : folk[j] \in Person /\ up(j) \in Int /\ up(j) >= folk[j].level
                               /\ (~success => up(j) = folk[j].level)
    BY <1>3 DEF Person
  <2> HIDE DEF up, w
  <2>3. \A j \in DOMAIN folk :
           /\ folk'[j] \in Person
           /\ folk'[j].tile = folk[j].tile /\ folk'[j].food = folk[j].food
           /\ folk'[j].level >= folk[j].level
           /\ success /\ j \notin {l, w} => folk'[j].level = folk[j].level
           /\ ~success => folk'[j].level = folk[j].level
    <3> TAKE j \in DOMAIN folk
    <3>1. CASE j \in {l, w}
      <4>1. folk'[j] = [folk[j] EXCEPT !.level = up(j), !.frozen = FALSE]
        BY <2>1, <3>1
      <4>2. /\ folk'[j] \in Person /\ folk'[j].level = up(j)
            /\ folk'[j].tile = folk[j].tile /\ folk'[j].food = folk[j].food
        BY ONLY <2>2, <4>1, j \in DOMAIN folk DEF Person
      <4> QED
        BY <2>2, <3>1, <4>2
    <3>2. CASE j \notin {l, w}
      <4>1. folk'[j] = folk[j]
        BY <2>1, <3>2
      <4>2. folk[j].level \in Int
        BY <2>2 DEF Person
      <4> QED
        BY <2>2, <4>1, <4>2
    <3> QED
      BY <3>1, <3>2
  <2> QED
    BY ONLY <2>1, <2>3
<1>5. /\ DOMAIN rites' = DOMAIN rites \ {l} /\ rites' \in [DOMAIN rites' -> Rite]
      /\ \A k \in DOMAIN rites' : rites'[k] = rites[k]
  <2>1. rites' = [k \in DOMAIN rites \ {l} |-> rites[k]]
    BY DEF Conclude
  <2> QED
    BY ONLY <1>2, <2>1
<1> HIDE DEF p, n
<1>6. Means(p, "plv", l, folk'[l].level) /\ Means(n, "pie", x, 0)
  <2>1. p = <<"plv", l, folk'[l].level>> /\ n = <<"pie", x, 0>>
    BY DEF p, n, LevelOf
  <2>2. "plv" \in Tags /\ "pie" \in Tags /\ 0 \in Int
    BY DEF Tags
  <2>3. folk'[l].level \in Int
    <3>1. folk'[l] \in Person
      BY <1>3, <1>4
    <3> QED
      BY <3>1 DEF Person
  <2> HIDE DEF x
  <2>4. Means(p, "plv", l, folk'[l].level)
    BY ONLY <1>3, <2>1, <2>2, <2>3, LineMeans
  <2>5. Means(n, "pie", x, 0)
    BY ONLY <1>3, <2>1, <2>2, LineMeans
  <2> QED
    BY <2>4, <2>5
<1>7. t \in Seq(Msg) /\ Pair(m, n, t)
  <2>1. p \in Msg /\ n \in Msg
    BY <1>6 DEF Means
  <2>2. CASE success
    <3>1. <<p, n>> \in Seq(Msg) /\ Pair(p, n, <<p, n>>) /\ <<p>> \o <<n>> = <<p, n>>
      BY ONLY <2>1, PairSays
    <3>2. t = <<p>> \o <<n>> /\ m = p
      BY <2>2
    <3> HIDE DEF t, m
    <3> QED
      BY <3>1, <3>2
  <2>3. CASE ~success
    <3>1. <<n>> \in Seq(Msg) /\ Pair(n, n, <<n>>)
      BY <1>6, OneMeans
    <3>2. t = <<>> \o <<n>> /\ m = n
      BY <2>3
    <3>3. <<>> \o <<n>> = <<n>>
      BY ONLY <3>1, ConcatEmptySeq
    <3> HIDE DEF t, m
    <3> QED
      BY <3>1, <3>2, <3>3
  <2> QED
    BY <2>2, <2>3
<1>8. Event(t) /\ laid' = laid /\ heap' = heap
  BY DEF Conclude, p, n
<1>9. /\ story'.followers = (IF success THEN (story.followers \cup {l, w}) \ {l} ELSE story.followers)
      /\ story'.stray = story.stray /\ story'.heard = story.heard
      /\ story'.newId = story.newId /\ story'.newEgg = story.newEgg /\ story'.late = story.late
      /\ story'.rows = story.rows /\ story'.givenUp = story.givenUp
      /\ story' \in Stories
  <2>1. story \in Stories
    BY <1>1 DEF PanelTypes
  <2>2. CASE ~success
    BY <2>1, <2>2 DEF Conclude
  <2>3. CASE success
    <3> DEFINE F == (story.followers \cup {l, w}) \ {l}
    <3>1. story' = [story EXCEPT !.followers = F]
      BY <2>3 DEF Conclude
    <3>2. F \subseteq Numbers
      BY <1>3, <2>1 DEF Stories
    <3> HIDE DEF F
    <3>3. /\ story'.followers = F
          /\ story'.stray = story.stray /\ story'.heard = story.heard
          /\ story'.newId = story.newId /\ story'.newEgg = story.newEgg /\ story'.late = story.late
          /\ story'.rows = story.rows /\ story'.givenUp = story.givenUp
          /\ story' \in Stories
      BY ONLY <2>1, <3>1, <3>2 DEF Stories
    <3> QED
      BY <2>3, <3>3 DEF F
  <2> QED
    BY <2>2, <2>3
<1>10. Hatched' = Hatched /\ EggsLaid' = EggsLaid
  BY <1>9 DEF Hatched, EggsLaid
<1> HIDE DEF x, w, m, t
<1>11. PanelTypes' /\ done'.joined = done.joined
  <2>1. DOMAIN rites' \subseteq DOMAIN folk' /\ DOMAIN folk' \subseteq Hatched'
    BY <1>2, <1>3, <1>4, <1>5, <1>10
  <2> QED
    BY <1>1, <1>2, <1>4, <1>5, <1>7, <1>8, <1>9, <1>10, <2>1, EventTypes
<1>12. Sound \subseteq Sound'
  <2> SUFFICES ASSUME NEW k \in Sound PROVE k \in Sound'
    OBVIOUS
  <2>1. k[1] = "plv" /\ k[2] \in DOMAIN folk => k[3] <= folk'[k[2]].level
    <3> SUFFICES ASSUME k[1] = "plv", k[2] \in DOMAIN folk PROVE k[3] <= folk'[k[2]].level
      OBVIOUS
    <3>1. k[3] <= folk[k[2]].level /\ folk'[k[2]].level >= folk[k[2]].level
      BY <1>4 DEF Sound
    <3>2. folk[k[2]] \in Person /\ folk'[k[2]] \in Person
      BY <1>3, <1>4
    <3>3. k[3] \in Int /\ folk[k[2]].level \in Int /\ folk'[k[2]].level \in Int
      BY <3>2 DEF Sound, Msg, Person
    <3> QED
      BY <3>1, <3>3
  <2> QED
    BY <1>4, <1>10, <2>1 DEF Sound
<1>13. Due(t)
  <2>1. n \in Sound'
    BY <1>6 DEF Means, Sound, Player
  <2>2. p \in Sound'
    <3>1. folk'[l] \in Person
      BY <1>3, <1>4
    <3> QED
      BY <1>3, <1>4, <1>6, <1>10, <3>1 DEF Means, Sound, Player, Person
  <2>3. OnlyFrom(t, Sound') /\ Silent(t, Speaks)
    BY <1>6, <1>7, <2>1, <2>2 DEF Pair, Means, m
  <2> QED
    BY <1>4, <1>8, <1>9, <1>10, <1>11, <1>12, <2>3 DEF Due, Event
<1>14. Truthful(t)
  <2>1. \A y : /\ Silent(t, About({"bct"}, y)) /\ Silent(t, About({"ppo"}, y)) /\ Silent(t, About({"pin"}, y))
               /\ Silent(t, About({"pnw"}, y)) /\ Silent(t, About({"pnw", "pdi"}, y))
               /\ Silent(t, About({"enw", "ebo"}, y))
    BY <1>6, <1>7 DEF Pair, Means, m
  <2>2. TrueHeap(t) /\ TruePlace(t) /\ TrueFood(t) /\ TrueKnown(t) /\ TrueEggs(t)
    BY <1>4, <1>8, <1>10, <2>1, HeapKept, PlacesKept, FoodKept, FolkKept, EggsKept
  <2>3. TrueLevel(t)
    <3>1. CASE success
      <4>1. LastIn(t, About({"plv"}, l), Third(folk'[l].level)) /\ ~Silent(t, About({"plv"}, l))
        BY <1>6, <1>7, <3>1 DEF Pair, Means, m
      <4>2. \A j : j # l => Silent(t, About({"plv"}, j))
        BY <1>6, <1>7, <3>1 DEF Pair, Means, m
      <4>3. \A j : j # l => \A V : LastIn(t, About({"plv"}, j), V)
        BY <4>2, SilentSays
      <4>4. \A j \in DOMAIN folk \ story'.followers : j # l => j \notin story.followers /\ folk'[j].level = folk[j].level
        BY <1>4, <1>9, <3>1
      <4> QED
        BY <1>4, <2>1, <4>1, <4>3, <4>4 DEF TrueLevel
    <3>2. CASE ~success
      <4>1. \A j : Silent(t, About({"plv"}, j))
        BY <1>6, <1>7, <3>2 DEF Pair, Means, m
      <4> QED
        BY <1>4, <1>9, <2>1, <3>2, <4>1, LevelsKept
    <3> QED
      BY <3>1, <3>2
  <2>4. RitesInv
    BY DEF PanelsInv
  <2>5. RitesInv'
    BY <1>2, <1>4, <1>5, <1>9, <2>4 DEF RitesInv
  <2>6. ASSUME NEW y \in Tiles \ story'.stray
        PROVE  LET A == About({"pic", "pie"}, y) IN
                  /\ LastIn(t, A, Tagged(IF Ritual(y)' THEN "pic" ELSE "pie"))
                  /\ Silent(t, A) => y \notin story.stray /\ (Ritual(y)' <=> Ritual(y))
    <3>1. rites[l].at = x /\ y \notin story.stray
      BY <1>9, <2>4, <2>6 DEF RitesInv, x
    <3>2. CASE y = x
      <4>1. ~Ritual(y)'
        BY <1>5, <2>4, <3>1, <3>2 DEF Ritual, RitesInv
      <4>2. LastIn(t, About({"pic", "pie"}, y), Tagged("pie")) /\ ~Silent(t, About({"pic", "pie"}, y))
        BY <1>6, <1>7, <3>2 DEF Pair, Means, m
      <4> QED
        BY <4>1, <4>2
    <3>3. CASE y # x
      <4>1. Silent(t, About({"pic", "pie"}, y))
        BY <1>6, <1>7, <3>3 DEF Pair, Means, m
      <4>2. Ritual(y)' <=> Ritual(y)
        BY <1>5, <3>1, <3>3 DEF Ritual
      <4> QED
        BY <3>1, <4>1, <4>2, SilentSays
    <3> QED
      BY <3>2, <3>3
  <2> QED
    BY <2>2, <2>3, <2>5, <2>6 DEF Truthful, TrueRites
<1> QED
  BY <1>7, <1>11, <1>13, <1>14, DueKeeps

-----------------------------------------------------------------------------
(* The stream moves on.                                                    *)

LEMMA FlushKeeps == ASSUME PanelsInv, FlushLines PROVE PanelsInv'
<1>1. /\ UNCHANGED <<folk, laid, heap, rites, freq, asked, sheet, tile, stats, rows, slider, done, story>>
      /\ due' = <<>> /\ line' = IF done.joined THEN line \o due ELSE line
  BY DEF FlushLines, server, panels
<1>2. PanelTypes /\ line \in Seq(Msg) /\ due \in Seq(Msg) /\ line \o due \in Seq(Msg)
  BY Concatenated DEF PanelsInv, PanelTypes
<1>3. due' \in Seq(Msg) /\ line' \in Seq(Msg)
  BY <1>1, <1>2, NoLine
<1>4. PanelTypes' /\ Hatched' = Hatched /\ EggsLaid' = EggsLaid
  BY <1>1, <1>2, <1>3 DEF PanelTypes, Sheets, Hatched, EggsLaid
<1>5. Sound' = Sound /\ Askable' = Askable
  BY <1>1, <1>4 DEF Sound, Askable
<1>6. DueInv' /\ AskedInv' /\ CountInv' /\ RowsInv' /\ RitesInv'
  BY <1>1, <1>5, NoLine DEF PanelsInv, DueInv, AskedInv, CountInv, RowsInv, RitesInv, Mates, Raised
<1>7. CASE done.joined
  <2>1. Coming' = Coming
    BY <1>1, <1>2, <1>7, ConcatEmptySeq DEF Coming
  <2>2. ComingInv' /\ AloneInv'
    BY <1>1, <1>5, <1>7, <2>1 DEF PanelsInv, ComingInv, AloneInv
  <2>3. HeapInv' /\ PlaceInv' /\ LevelInv'
    BY <1>1, <2>1 DEF PanelsInv, HeapInv, PlaceInv, LevelInv, Asks
  <2>4. OrderInv' /\ KnownInv' /\ EggInv' /\ SpeedInv'
    BY <1>1, <1>4, <2>1 DEF PanelsInv, OrderInv, KnownInv, EggInv, SpeedInv, Clamped
  <2>5. FoodInv' /\ ScanInv'
    BY <1>1, <2>1 DEF PanelsInv, FoodInv, ScanInv, Ritual, Asks
  <2> QED
    BY <1>4, <1>6, <2>2, <2>3, <2>4, <2>5 DEF PanelsInv
<1>8. CASE ~done.joined
  <2>1. Coming' = <<>>
    BY <1>1, <1>8, ConcatEmptySeq, NoLine DEF Coming, PanelsInv, AloneInv
  <2>2. ComingInv' /\ AloneInv'
    BY <1>1, <1>8, <2>1, NoLine DEF PanelsInv, ComingInv, AloneInv
  <2>3. tile.at = -1 /\ sheet.id = -1
    BY <1>8 DEF PanelsInv, AloneInv
  <2>4. \A i \in DOMAIN folk : i # -1
    BY <1>2, Folks
  <2>5. HeapInv' /\ PlaceInv' /\ LevelInv'
    BY <1>1, <1>8, <2>1, <2>3, <2>4, NoLine DEF HeapInv, PlaceInv, LevelInv, Tiles
  <2>6. OrderInv' /\ KnownInv' /\ EggInv' /\ SpeedInv'
    BY <1>1, <1>8, <2>1, NoLine DEF OrderInv, KnownInv, EggInv, SpeedInv
  <2>7. FoodInv' /\ ScanInv'
    BY <1>1, <2>1, <2>3, <2>4, NoLine DEF FoodInv, ScanInv, Tiles
  <2> QED
    BY <1>4, <1>6, <2>2, <2>5, <2>6, <2>7 DEF PanelsInv
<1> QED
  BY <1>7, <1>8

\* The user asks for t, and changes what a panel shows.
Wonder(t) ==
    /\ UNCHANGED <<folk, laid, heap, rites, freq, due, line, stats, rows>> /\ asked' = asked \o t
    /\ done' \in [joined : BOOLEAN, events : Int, clicks : Int] /\ done'.joined = done.joined
    /\ story' \in Stories /\ story'.followers = story.followers /\ story'.newId = story.newId
    /\ story'.newEgg = story.newEgg /\ story'.late = story.late /\ story'.rows = story.rows
    /\ story'.stray = story.stray
    /\ t \in Seq(Msg) /\ OnlyFrom(t, Askable)

LEMMA WonderKeeps ==
    ASSUME PanelsInv, NEW t, Wonder(t)
    PROVE  /\ ComingInv' /\ DueInv' /\ AskedInv' /\ OrderInv' /\ KnownInv' /\ EggInv' /\ CountInv' /\ RowsInv' /\ RitesInv'
           /\ Coming' = Coming /\ Hatched' = Hatched /\ PanelTypes /\ asked' \in Seq(Msg)
           /\ \A q : Asks(q) \/ ~Silent(t, {q}) => Asks(q)'
           /\ Silent(asked', Tagged("sst")) <=> Silent(asked, Tagged("sst")) /\ Silent(t, Tagged("sst"))
<1>1. PanelTypes /\ asked \in Seq(Msg)
  BY DEF PanelsInv, PanelTypes
<1>2. asked' \in Seq(Msg) /\ Follows(asked, t, asked')
  BY <1>1, Concatenated DEF Wonder
<1>3. Coming' = Coming /\ Hatched' = Hatched /\ EggsLaid' = EggsLaid
  BY DEF Wonder, Coming, Hatched, EggsLaid
<1>4. Sound' = Sound /\ Askable' = Askable
  BY <1>3 DEF Wonder, Sound, Askable
<1>5. ComingInv' /\ DueInv' /\ AskedInv'
  BY <1>2, <1>3, <1>4 DEF PanelsInv, ComingInv, DueInv, AskedInv, Wonder, Follows
<1>6. OrderInv' /\ KnownInv' /\ EggInv' /\ CountInv'
  BY <1>3 DEF PanelsInv, OrderInv, KnownInv, EggInv, CountInv, Mates, Raised, Wonder
<1>7. RowsInv' /\ RitesInv'
  BY DEF PanelsInv, RowsInv, RitesInv, Wonder
<1>8. \A q : Asks(q) \/ ~Silent(t, {q}) => Asks(q)'
  BY <1>2 DEF Asks, Follows
<1>9. Silent(asked', Tagged("sst")) <=> Silent(asked, Tagged("sst")) /\ Silent(t, Tagged("sst"))
  BY <1>2 DEF Follows
<1> QED
  BY <1>1, <1>2, <1>3, <1>5, <1>6, <1>7, <1>8, <1>9

LEMMA WonderTypes ==
    ASSUME PanelTypes, NEW t, Wonder(t), asked' \in Seq(Msg), Hatched' = Hatched,
           sheet' \in Sheets,
           tile' \in Scanned,
           slider' \in [knob : Speeds, text : Speeds, held : BOOLEAN]
    PROVE  PanelTypes'
<1>1. EggsLaid' = EggsLaid
  BY DEF Wonder, EggsLaid
<1> QED
  BY <1>1 DEF PanelTypes, Wonder, Sheets

LEMMA ClickTypes ==
    ASSUME PanelTypes, UserDoes
    PROVE  /\ UNCHANGED <<folk, laid, heap, rites, freq, due, line, stats, rows>>
           /\ done' \in [joined : BOOLEAN, events : Int, clicks : Int] /\ done'.joined = done.joined
<1>1. done \in [joined : BOOLEAN, events : Int, clicks : Int]
  BY DEF PanelTypes
<1>2. done' = [done EXCEPT !.clicks = @ + 1]
  BY DEF UserDoes
<1>3. done' \in [joined : BOOLEAN, events : Int, clicks : Int] /\ done'.joined = done.joined
  BY ONLY <1>1, <1>2
<1> QED
  BY <1>3 DEF UserDoes, server

LEMMA PlayerClickKeeps == ASSUME PanelsInv, NEW i, OnPlayerClicked(i) PROVE PanelsInv'
<1> DEFINE k == <<"pin", i, 0>>
           m == <<"plv", i, 0>>
           n == <<"ppo", i, 0>>
           t == <<k, m, n>>
<1>1. PanelTypes /\ i \in DOMAIN stats.level
  BY DEF PanelsInv, OnPlayerClicked
<1>2. i \in Hatched
  BY <1>1 DEF PanelTypes
<1>3. i \in Int
  BY <1>1, <1>2, Folks
<1>4. asked' = asked \o t /\ sheet' = [sheet EXCEPT !.id = i]
  BY DEF OnPlayerClicked
<1> HIDE DEF k, m, n
<1>5. k[1] = "pin" /\ k[2] = i /\ m[1] = "plv" /\ m[2] = i /\ n[1] = "ppo" /\ n[2] = i
  BY DEF k, m, n
<1>6. k \in Msg /\ m \in Msg /\ n \in Msg
  BY <1>3 DEF k, m, n, Msg, Tags
<1>7. k \in Askable /\ m \in Askable /\ n \in Askable
  BY <1>1, <1>2, <1>5, <1>6 DEF Askable
<1>8. /\ t \in Seq(Msg) /\ OnlyFrom(t, Askable) /\ ~Silent(t, {k}) /\ ~Silent(t, {m}) /\ ~Silent(t, {n})
      /\ Silent(t, Tagged("sst"))
  <2> DEFINE r == <<m, n>>
  <2>1. r \in Seq(Msg) /\ Pair(m, n, r)
    BY ONLY <1>6, PairSays
  <2>2. <<k>> \in Seq(Msg) /\ Alone(k, <<k>>) /\ t = <<k>> \o r
    BY ONLY <1>6, OneLine, ThreeLines
  <2> HIDE DEF t, r
  <2>3. t \in Seq(Msg) /\ Follows(<<k>>, r, t)
    BY ONLY <2>1, <2>2, Concatenated
  <2> QED
    BY <1>5, <1>7, <2>1, <2>2, <2>3 DEF Follows, Alone, Pair, Tagged
<1> HIDE DEF t
<1>9. Wonder(t)
  <2>1. story' = story /\ story \in Stories
    BY <1>1 DEF OnPlayerClicked, PanelTypes, Stories
  <2>2. UserDoes
    BY DEF OnPlayerClicked
  <2> QED
    BY <1>1, <1>4, <1>8, <2>1, <2>2, ClickTypes DEF Wonder
<1>10. tile' = tile /\ slider' = slider /\ story' = story
  BY DEF OnPlayerClicked
<1>11. sheet' \in Sheets /\ sheet'.id = i
       /\ sheet'.level = sheet.level /\ sheet'.tile = sheet.tile
       /\ sheet'.food = sheet.food /\ sheet'.fell = sheet.fell
  <2>1. sheet \in Sheets
    BY <1>1 DEF PanelTypes
  <2> QED
    BY ONLY <1>2, <1>4, <2>1 DEF Sheets
<1>12. /\ ComingInv' /\ DueInv' /\ AskedInv' /\ OrderInv' /\ KnownInv' /\ EggInv' /\ CountInv' /\ RowsInv' /\ RitesInv'
       /\ Coming' = Coming /\ Hatched' = Hatched /\ asked' \in Seq(Msg)
       /\ \A q : Asks(q) \/ ~Silent(t, {q}) => Asks(q)'
       /\ Silent(asked', Tagged("sst")) <=> Silent(asked, Tagged("sst")) /\ Silent(t, Tagged("sst"))
  BY <1>9, WonderKeeps
<1>13. tile \in Scanned /\ slider \in [knob : Speeds, text : Speeds, held : BOOLEAN]
  BY <1>1 DEF PanelTypes
<1>14. PanelTypes'
  BY <1>1, <1>9, <1>10, <1>11, <1>12, <1>13, WonderTypes
<1>15. AloneInv'
  BY <1>1, <1>9 DEF PanelsInv, AloneInv, Wonder
<1>16. HeapInv'
  BY <1>9, <1>10, <1>12 DEF PanelsInv, HeapInv, Wonder
<1>17. Asks(k)' /\ Asks(m)' /\ Asks(n)'
  BY <1>8, <1>12
<1>18. PlaceInv'
  BY <1>9, <1>11, <1>12, <1>17 DEF PanelsInv, PlaceInv, Wonder, n
<1>19. LevelInv'
  BY <1>9, <1>11, <1>12, <1>17 DEF PanelsInv, LevelInv, Wonder, m
<1>20. SpeedInv'
  BY <1>8, <1>9, <1>10, <1>12 DEF PanelsInv, SpeedInv, Wonder, Clamped
<1>21. FoodInv'
  BY <1>9, <1>11, <1>12, <1>17 DEF PanelsInv, FoodInv, Wonder, k
<1>22. ScanInv'
  BY <1>9, <1>10, <1>12 DEF PanelsInv, ScanInv, Ritual, Wonder
<1> QED
  BY <1>12, <1>14, <1>15, <1>16, <1>18, <1>19, <1>20, <1>21, <1>22 DEF PanelsInv

LEMMA TileClickKeeps == ASSUME PanelsInv, NEW x \in Tiles, OnTileClicked(x) PROVE PanelsInv'
<1> DEFINE m == <<"bct", x, 0>>
           t == <<m>>
<1>1. PanelTypes /\ x \in Int
  BY DEF PanelsInv, Tiles
<1>2. m[1] = "bct" /\ m[2] = x /\ m \in Msg
  BY <1>1 DEF Msg, Tags
<1>3. asked' = Append(asked, m) /\ tile' = [tile EXCEPT !.at = x]
  BY DEF OnTileClicked
<1> HIDE DEF m
<1>4. asked \in Seq(Msg)
  BY <1>1 DEF PanelTypes
<1>5. asked' = asked \o t
  BY ONLY <1>2, <1>3, <1>4, AppendIsConcat
<1>6. t \in Seq(Msg) /\ Alone(m, t)
  BY ONLY <1>2, OneLine
<1> HIDE DEF t
<1>7. OnlyFrom(t, Askable) /\ ~Silent(t, {m}) /\ Silent(t, Tagged("sst"))
  BY <1>2, <1>6 DEF Alone, Askable, Tagged
<1>9. /\ sheet' = sheet /\ slider' = slider /\ done.joined /\ story \in Stories
      /\ story' = [story EXCEPT !.heard = FALSE]
  BY <1>1 DEF OnTileClicked, PanelTypes
<1>8. Wonder(t)
  <2>1. /\ story' \in Stories /\ story'.followers = story.followers /\ story'.newId = story.newId
        /\ story'.newEgg = story.newEgg /\ story'.late = story.late /\ story'.rows = story.rows
        /\ story'.stray = story.stray
    BY ONLY <1>9 DEF Stories
  <2>2. UserDoes
    BY DEF OnTileClicked
  <2> QED
    BY <1>1, <1>5, <1>6, <1>7, <2>1, <2>2, ClickTypes DEF Wonder
<1>10. tile' \in Scanned /\ tile'.at = x
  <2>1. tile \in Scanned
    BY <1>1 DEF PanelTypes
  <2> QED
    BY ONLY <1>3, <2>1, x \in Tiles DEF Scanned
<1>11. /\ ComingInv' /\ DueInv' /\ AskedInv' /\ OrderInv' /\ KnownInv' /\ EggInv' /\ CountInv' /\ RowsInv' /\ RitesInv'
       /\ Coming' = Coming /\ Hatched' = Hatched /\ asked' \in Seq(Msg)
       /\ \A q : Asks(q) \/ ~Silent(t, {q}) => Asks(q)'
       /\ Silent(asked', Tagged("sst")) <=> Silent(asked, Tagged("sst")) /\ Silent(t, Tagged("sst"))
  BY <1>8, WonderKeeps
<1>12. sheet \in Sheets
       /\ slider \in [knob : Speeds, text : Speeds, held : BOOLEAN]
  BY <1>1 DEF PanelTypes
<1>13. PanelTypes'
  BY <1>1, <1>8, <1>9, <1>10, <1>11, <1>12, WonderTypes
<1>14. AloneInv'
  BY <1>8, <1>9 DEF AloneInv, Wonder
<1>15. HeapInv'
  BY <1>7, <1>8, <1>10, <1>11 DEF PanelsInv, HeapInv, Wonder, m
<1>16. PlaceInv' /\ LevelInv'
  BY <1>8, <1>9, <1>11 DEF PanelsInv, PlaceInv, LevelInv, Wonder
<1>17. SpeedInv'
  <2>1. story'.givenUp = story.givenUp
    BY ONLY <1>9 DEF Stories
  <2> QED
    BY <1>7, <1>8, <1>9, <1>11, <2>1 DEF PanelsInv, SpeedInv, Wonder, Clamped
<1>18. FoodInv'
  BY <1>8, <1>9, <1>11 DEF PanelsInv, FoodInv, Wonder
<1>19. ScanInv'
  <2>1. ~story'.heard
    BY ONLY <1>9 DEF Stories
  <2> QED
    BY <1>8, <1>11, <2>1 DEF PanelsInv, ScanInv, Ritual, Wonder
<1> QED
  BY <1>11, <1>13, <1>14, <1>15, <1>16, <1>17, <1>18, <1>19 DEF PanelsInv

LEMMA CloseEitherKeeps == ASSUME PanelsInv, CloseEither PROVE PanelsInv'
<1> DEFINE t == <<>>
<1>1. PanelTypes
  BY DEF PanelsInv
<1>2. /\ asked \in Seq(Msg) /\ asked' = asked /\ sheet \in Sheets /\ tile \in Scanned
      /\ \/ sheet' = [sheet EXCEPT !.id = -1] /\ tile' = tile
         \/ tile' = [tile EXCEPT !.at = -1] /\ sheet' = sheet
  BY <1>1 DEF PanelTypes, CloseEither
<1>3. asked' = asked \o t
  BY ONLY <1>2, ConcatEmptySeq
<1>4. t \in Seq(Msg) /\ OnlyFrom(t, Askable) /\ Silent(t, Tagged("sst"))
  BY ONLY NoLine
<1> HIDE DEF t
<1>5. Wonder(t)
  <2>1. story' = story /\ story \in Stories
    BY <1>1 DEF CloseEither, PanelTypes, Stories
  <2>2. UserDoes
    BY DEF CloseEither
  <2> QED
    BY <1>1, <1>3, <1>4, <2>1, <2>2, ClickTypes DEF Wonder
<1>6. slider' = slider /\ story' = story
  BY DEF CloseEither
<1>7. /\ sheet' \in Sheets /\ (sheet' = sheet \/ sheet'.id = -1)
      /\ tile' \in Scanned /\ (tile' = tile \/ tile'.at = -1)
  BY ONLY <1>2 DEF Sheets, Scanned
<1>8. /\ ComingInv' /\ DueInv' /\ AskedInv' /\ OrderInv' /\ KnownInv' /\ EggInv' /\ CountInv' /\ RowsInv' /\ RitesInv'
      /\ Coming' = Coming /\ Hatched' = Hatched /\ asked' \in Seq(Msg)
      /\ \A q : Asks(q) \/ ~Silent(t, {q}) => Asks(q)'
      /\ Silent(asked', Tagged("sst")) <=> Silent(asked, Tagged("sst")) /\ Silent(t, Tagged("sst"))
  BY <1>5, WonderKeeps
<1>9. slider \in [knob : Speeds, text : Speeds, held : BOOLEAN]
  BY <1>1 DEF PanelTypes
<1>10. PanelTypes'
  BY <1>1, <1>5, <1>6, <1>7, <1>8, <1>9, WonderTypes
<1>11. AloneInv'
  BY <1>2, <1>5, <1>6, <1>7 DEF PanelsInv, AloneInv, Wonder
<1>12. \A x \in Tiles : x # -1
  BY DEF Tiles
<1>13. HeapInv' /\ ScanInv'
  BY <1>5, <1>6, <1>7, <1>8, <1>12 DEF PanelsInv, HeapInv, ScanInv, Ritual, Wonder
<1>14. \A i \in DOMAIN folk : i # -1
  BY <1>1, Folks
<1>15. PlaceInv' /\ LevelInv' /\ FoodInv'
  BY <1>5, <1>6, <1>7, <1>8, <1>14 DEF PanelsInv, PlaceInv, LevelInv, FoodInv, Wonder
<1>16. SpeedInv'
  BY <1>4, <1>5, <1>6, <1>8 DEF PanelsInv, SpeedInv, Wonder, Clamped
<1> QED
  BY <1>8, <1>10, <1>11, <1>13, <1>15, <1>16 DEF PanelsInv

LEMMA FadeKeeps == ASSUME PanelsInv, Fade PROVE PanelsInv'
<1> DEFINE t == <<>>
<1>1. PanelTypes
  BY DEF PanelsInv
<1>2. /\ asked \in Seq(Msg) /\ sheet \in Sheets /\ tile \in Scanned /\ story \in Stories
      /\ slider \in [knob : Speeds, text : Speeds, held : BOOLEAN]
      /\ done \in [joined : BOOLEAN, events : Int, clicks : Int]
  BY <1>1 DEF PanelTypes
<1>3. /\ UNCHANGED <<folk, laid, heap, rites, freq, due, line, asked, tile, stats, rows, slider, done, story>>
      /\ sheet.food > 0 /\ sheet' = [sheet EXCEPT !.food = @ - 1, !.fell = @ + 1]
  BY DEF Fade, server
<1>4. /\ sheet' \in Sheets /\ sheet'.id = sheet.id /\ sheet'.level = sheet.level /\ sheet'.tile = sheet.tile
      /\ sheet'.food + sheet'.fell = sheet.food + sheet.fell
  <2>1. /\ sheet.food \in Nat /\ sheet.fell \in Nat /\ sheet.food > 0
        /\ sheet' = [sheet EXCEPT !.food = sheet.food - 1, !.fell = sheet.fell + 1]
    BY <1>2, <1>3 DEF Sheets
  <2> DEFINE a == sheet.food - 1
             b == sheet.fell + 1
  <2>2. a \in Nat /\ b \in Nat /\ a + b = sheet.food + sheet.fell
    BY ONLY <2>1
  <2>3. sheet' = [sheet EXCEPT !.food = a, !.fell = b]
    BY <2>1
  <2> HIDE DEF a, b
  <2>4. /\ sheet' \in Sheets /\ sheet'.id = sheet.id /\ sheet'.level = sheet.level /\ sheet'.tile = sheet.tile
        /\ sheet'.food = a /\ sheet'.fell = b
    BY ONLY <1>2, <2>2, <2>3 DEF Sheets
  <2> QED
    BY <2>2, <2>4
<1>5. asked' = asked \o t
  BY ONLY <1>2, <1>3, ConcatEmptySeq
<1>6. t \in Seq(Msg) /\ OnlyFrom(t, Askable) /\ Silent(t, Tagged("sst"))
  BY ONLY NoLine
<1> HIDE DEF t
<1>7. Wonder(t)
  BY <1>2, <1>3, <1>5, <1>6 DEF Wonder
<1>8. /\ ComingInv' /\ DueInv' /\ AskedInv' /\ OrderInv' /\ KnownInv' /\ EggInv' /\ CountInv' /\ RowsInv' /\ RitesInv'
      /\ Coming' = Coming /\ Hatched' = Hatched /\ asked' \in Seq(Msg)
      /\ \A q : Asks(q) \/ ~Silent(t, {q}) => Asks(q)'
      /\ Silent(asked', Tagged("sst")) <=> Silent(asked, Tagged("sst")) /\ Silent(t, Tagged("sst"))
  BY <1>7, WonderKeeps
<1>9. PanelTypes'
  BY <1>1, <1>2, <1>3, <1>4, <1>7, <1>8, WonderTypes
<1>10. AloneInv'
  BY <1>3, <1>4 DEF PanelsInv, AloneInv
<1>11. HeapInv' /\ ScanInv'
  BY <1>3, <1>8 DEF PanelsInv, HeapInv, ScanInv, Ritual
<1>12. PlaceInv' /\ LevelInv' /\ FoodInv'
  BY <1>3, <1>4, <1>8 DEF PanelsInv, PlaceInv, LevelInv, FoodInv
<1>13. SpeedInv'
  BY <1>3, <1>8 DEF PanelsInv, SpeedInv, Clamped
<1> QED
  BY <1>8, <1>9, <1>10, <1>11, <1>12, <1>13 DEF PanelsInv

\* What the knob does touches neither inspector.
LEMMA KnobKeeps ==
    ASSUME PanelsInv, NEW t, Wonder(t), sheet' = sheet, tile' = tile, done.joined, story'.heard = story.heard,
           slider' \in [knob : Speeds, text : Speeds, held : BOOLEAN],
           slider'.held \/ story'.givenUp \/ ~Silent(t, Tagged("sst"))
    PROVE  PanelsInv'
<1>1. /\ ComingInv' /\ DueInv' /\ AskedInv' /\ OrderInv' /\ KnownInv' /\ EggInv' /\ CountInv' /\ RowsInv' /\ RitesInv'
      /\ Coming' = Coming /\ Hatched' = Hatched /\ asked' \in Seq(Msg) /\ PanelTypes
      /\ \A q : Asks(q) \/ ~Silent(t, {q}) => Asks(q)'
      /\ Silent(asked', Tagged("sst")) <=> Silent(asked, Tagged("sst")) /\ Silent(t, Tagged("sst"))
  BY WonderKeeps
<1>2. tile \in Scanned /\ sheet \in Sheets
  BY <1>1 DEF PanelTypes
<1>3. PanelTypes'
  BY <1>1, <1>2, WonderTypes
<1>4. AloneInv'
  BY DEF AloneInv, Wonder
<1>5. HeapInv' /\ PlaceInv' /\ LevelInv' /\ FoodInv' /\ ScanInv'
  <2>1. HeapInv'
    BY <1>1 DEF PanelsInv, HeapInv, Wonder
  <2>2. PlaceInv'
    BY <1>1 DEF PanelsInv, PlaceInv, Wonder
  <2>3. LevelInv'
    BY <1>1 DEF PanelsInv, LevelInv, Wonder
  <2>4. FoodInv'
    BY <1>1 DEF PanelsInv, FoodInv, Wonder
  <2>5. ScanInv'
    BY <1>1 DEF PanelsInv, ScanInv, Ritual, Wonder
  <2> QED
    BY <2>1, <2>2, <2>3, <2>4, <2>5
<1>6. SpeedInv'
  <2>1. Silent(asked', Tagged("sst")) => LastIn(Coming', Speaks, Second(freq'))
    BY <1>1 DEF PanelsInv, SpeedInv, Wonder
  <2>2. Silent(asked', Tagged("sst")) => slider'.held \/ story'.givenUp
    BY <1>1
  <2> QED
    BY <2>1, <2>2 DEF SpeedInv
<1> QED
  BY <1>1, <1>3, <1>4, <1>5, <1>6 DEF PanelsInv

LEMMA DragKeeps == ASSUME PanelsInv, NEW v \in Speeds, DragSpeed(v) PROVE PanelsInv'
<1> DEFINE t == <<>>
<1>1. PanelTypes
  BY DEF PanelsInv
<1>2. asked \in Seq(Msg) /\ asked' = asked
  BY <1>1 DEF PanelTypes, DragSpeed
<1>3. asked' = asked \o t
  BY ONLY <1>2, ConcatEmptySeq
<1>4. t \in Seq(Msg) /\ OnlyFrom(t, Askable)
  BY ONLY NoLine
<1> HIDE DEF t
<1>5. Wonder(t)
  <2>1. story' = story /\ story \in Stories
    BY <1>1 DEF DragSpeed, PanelTypes, Stories
  <2>2. UserDoes
    BY DEF DragSpeed
  <2> QED
    BY <1>1, <1>3, <1>4, <2>1, <2>2, ClickTypes DEF Wonder
<1>6. sheet' = sheet /\ tile' = tile /\ done.joined /\ story' = story /\ slider' = [knob |-> v, text |-> v, held |-> TRUE]
  BY DEF DragSpeed
<1>7. slider' \in [knob : Speeds, text : Speeds, held : BOOLEAN] /\ slider'.held
  BY <1>6
<1> QED
  BY <1>5, <1>6, <1>7, KnobKeeps

LEMMA LetGoKeeps == ASSUME PanelsInv, NEW captured \in BOOLEAN, LetGo(captured) PROVE PanelsInv'
<1>1. PanelTypes
  BY DEF PanelsInv
<1>2. asked \in Seq(Msg) /\ slider \in [knob : Speeds, text : Speeds, held : BOOLEAN] /\ story \in Stories
      /\ done \in [joined : BOOLEAN, events : Int, clicks : Int]
  BY <1>1 DEF PanelTypes, Stories
<1>3. sheet' = sheet /\ tile' = tile /\ done' = done /\ slider' = [slider EXCEPT !.held = FALSE] /\ slider.held
      /\ UNCHANGED <<folk, laid, heap, rites, freq, due, line, stats, rows>>
  BY DEF LetGo, server
<1>4. done.joined
  BY <1>3 DEF PanelsInv, AloneInv
<1>5. slider' \in [knob : Speeds, text : Speeds, held : BOOLEAN]
  BY ONLY <1>2, <1>3
<1>6. CASE captured
  <2> DEFINE t == <<>>
  <2>1. asked' = asked /\ story' = [story EXCEPT !.givenUp = TRUE]
    BY <1>6 DEF LetGo
  <2>2. asked' = asked \o t
    BY ONLY <1>2, <2>1, ConcatEmptySeq
  <2>3. t \in Seq(Msg) /\ OnlyFrom(t, Askable)
    BY ONLY NoLine
  <2>4. story' \in Stories /\ story'.followers = story.followers /\ story'.newId = story.newId
        /\ story'.newEgg = story.newEgg /\ story'.late = story.late /\ story'.rows = story.rows /\ story'.givenUp
        /\ story'.heard = story.heard /\ story'.stray = story.stray
    BY ONLY <1>2, <2>1 DEF Stories
  <2> HIDE DEF t
  <2>5. Wonder(t)
    BY <1>2, <1>3, <2>2, <2>3, <2>4 DEF Wonder
  <2> QED
    BY <1>3, <1>4, <1>5, <2>4, <2>5, KnobKeeps
<1>7. CASE ~captured
  <2> DEFINE m == <<"sst", slider.knob, 0>>
             t == <<m>>
  <2>1. asked' = Append(asked, m) /\ story' = story
    BY <1>7 DEF LetGo
  <2>2. slider.knob \in Speeds /\ slider.knob \in Int
    <3>1. slider.knob \in Speeds
      BY ONLY <1>2
    <3>2. \A v \in Speeds : v \in Int
      BY PanelConstants
    <3> QED
      BY <3>1, <3>2, Zenon
  <2>3. m[1] = "sst" /\ m[2] = slider.knob /\ m \in Msg
    BY <2>2 DEF Msg, Tags
  <2> HIDE DEF m
  <2>4. asked' = asked \o t
    BY ONLY <1>2, <2>1, <2>3, AppendIsConcat
  <2>5. t \in Seq(Msg) /\ Alone(m, t)
    BY ONLY <2>3, OneLine
  <2> HIDE DEF t
  <2>6. OnlyFrom(t, Askable) /\ ~Silent(t, Tagged("sst"))
    BY <2>2, <2>3, <2>5 DEF Alone, Askable, Tagged
  <2>7. Wonder(t)
    BY <1>2, <1>3, <2>1, <2>4, <2>5, <2>6 DEF Wonder
  <2> QED
    BY <1>3, <1>4, <1>5, <2>1, <2>6, <2>7, KnobKeeps
<1> QED
  BY <1>6, <1>7

-----------------------------------------------------------------------------
(* An answer overtakes what is due.                                        *)

Put(a) ==
    /\ \A A : Silent(Coming', A) <=> Silent(Coming, A) /\ a \notin A
    /\ \A A, V : LastIn(Coming, A, V) /\ (a \in A => a \in V) => LastIn(Coming', A, V)
    /\ \A A, V : a \in A /\ a \in V /\ LastIn(due, A, V) => LastIn(Coming', A, V)
    /\ \A A, V : a \notin A /\ FirstIn(Coming, A, V) => FirstIn(Coming', A, V)
    /\ \A P, A : a \notin A /\ OnlyAfter(Coming, P, A) => OnlyAfter(Coming', P, A)
    /\ \A G : OnlyFrom(Coming, G) /\ a \in G => OnlyFrom(Coming', G)

LEMMA PutIn ==
    ASSUME PanelTypes, NEW a \in Msg, line' = line \o <<a>>, due' = due
    PROVE  Put(a) /\ line' \in Seq(Msg)
<1> DEFINE s == <<a>>
<1>1. line \in Seq(Msg) /\ due \in Seq(Msg) /\ due' = due
  BY DEF PanelTypes
<1>2. s \in Seq(Msg) /\ Alone(a, s)
  BY ONLY a \in Msg, OneLine
<1> HIDE DEF s
<1>3. line' = line \o s
  BY DEF s
<1>4. line' \in Seq(Msg) /\ Follows(line, s, line')
  BY ONLY <1>1, <1>2, <1>3, Concatenated
<1>5. Follows(line, due, Coming)
  BY ComingIs
<1>6. Coming' = line' \o due
  BY <1>1 DEF Coming
<1>7. Follows(line', due, Coming')
  BY ONLY <1>1, <1>4, <1>6, Concatenated
<1>8. \A A : Silent(Coming', A) <=> Silent(Coming, A) /\ a \notin A
  BY <1>2, <1>4, <1>5, <1>7 DEF Follows, Alone
<1>9. \A A, V : LastIn(Coming, A, V) /\ (a \in A => a \in V) => LastIn(Coming', A, V)
  BY <1>2, <1>4, <1>5, <1>7 DEF Follows, Alone
<1>10. \A A, V : a \in A /\ a \in V /\ LastIn(due, A, V) => LastIn(Coming', A, V)
  BY <1>2, <1>4, <1>5, <1>7 DEF Follows, Alone
<1>11. \A A, V : a \notin A /\ FirstIn(Coming, A, V) => FirstIn(Coming', A, V)
  <2> SUFFICES ASSUME NEW A, NEW V, a \notin A, FirstIn(Coming, A, V) PROVE FirstIn(Coming', A, V)
    OBVIOUS
  <2>1. FirstIn(line, A, V) /\ (Silent(line, A) => FirstIn(due, A, V))
    BY <1>5 DEF Follows
  <2>2. FirstIn(line', A, V) /\ (Silent(line', A) => Silent(line, A))
    BY <1>2, <1>4, <2>1 DEF Follows, Alone
  <2> QED
    BY <1>7, <2>1, <2>2 DEF Follows
<1>12. \A P, A : a \notin A /\ OnlyAfter(Coming, P, A) => OnlyAfter(Coming', P, A)
  <2> SUFFICES ASSUME NEW P, NEW A, a \notin A, OnlyAfter(Coming, P, A) PROVE OnlyAfter(Coming', P, A)
    OBVIOUS
  <2>1. OnlyAfter(line, P, A) /\ (Silent(line, P) => OnlyAfter(due, P, A))
    BY <1>5 DEF Follows
  <2>2. OnlyAfter(line', P, A) /\ (Silent(line', P) => Silent(line, P))
    BY <1>2, <1>4, <2>1 DEF Follows, Alone
  <2> QED
    BY <1>7, <2>1, <2>2 DEF Follows
<1>13. \A G : OnlyFrom(Coming, G) /\ a \in G => OnlyFrom(Coming', G)
  BY <1>2, <1>4, <1>5, <1>7 DEF Follows, Alone
<1> QED
  BY <1>4, <1>8, <1>9, <1>10, <1>11, <1>12, <1>13 DEF Put

Answered(q, a) ==
    /\ a[1] \in {"sst", "bct", "pin", "plv", "ppo", "sbp"}
    /\ a[1] = "sst" <=> q[1] = "sst"
    /\ a[1] = "bct" <=> q[1] = "bct"
    /\ a[1] = "pin" <=> q[1] = "pin" /\ q[2] \in DOMAIN folk
    /\ a[1] = "plv" <=> q[1] = "plv" /\ q[2] \in DOMAIN folk
    /\ a[1] = "ppo" <=> q[1] = "ppo" /\ q[2] \in DOMAIN folk
    /\ a[1] # "sbp" => a[2] = q[2]
    /\ a[1] = "bct" => a[3] = heap[a[2]]
    /\ a[1] = "pin" => a[3] = folk[a[2]].food
    /\ a[1] = "plv" => a[3] = folk[a[2]].level
    /\ a[1] = "ppo" => a[3] = folk[a[2]].tile

LEMMA AnswerIs ==
    ASSUME PanelTypes, NEW q \in Askable, Answer(q)
    PROVE  \E a \in Msg : line' = line \o <<a>> /\ Answered(q, a)
<1> DEFINE i == q[2]
           a == IF q[1] \in {"pin", "plv", "ppo"} /\ i \notin DOMAIN folk THEN <<"sbp", 0, 0>>
                ELSE CASE q[1] = "sst" -> q [] q[1] = "bct" -> ContentOf(i)
                       [] q[1] = "pin" -> FoodOf(i) [] q[1] = "plv" -> LevelOf(i)
                       [] q[1] = "ppo" -> PositionOf(i)
<1>1. line \in Seq(Msg) /\ line' = Append(line, a) /\ folk' = folk /\ heap' = heap
  BY DEF PanelTypes, Answer
<1>2. q \in Msg /\ q[1] \in {"sst", "bct", "pin", "plv", "ppo"} /\ (q[1] = "bct" => i \in Tiles) /\ i \in Int
  BY DEF Askable, Msg
<1>3. folk \in [DOMAIN folk -> Person] /\ Tiles \subseteq Int /\ heap \in [Tiles -> Int]
  <2>1. heap \in [Tiles -> Int]
    BY DEF PanelTypes
  <2>2. folk \in [DOMAIN folk -> Person] /\ Tiles \subseteq Nat
    BY Folks
  <2> QED
    BY ONLY <2>1, <2>2
<1>4. a \in Msg /\ Answered(q, a)
  <2>1. CASE q[1] = "sst"
    <3>1. a = q
      BY <2>1
    <3> HIDE DEF a
    <3> QED
      BY <1>2, <2>1, <3>1 DEF Answered
  <2>2. CASE q[1] = "bct"
    <3>1. a = <<"bct", i, heap[i]>>
      BY <1>1, <2>2 DEF ContentOf
    <3>2. heap[i] \in Int
      BY <1>2, <1>3, <2>2
    <3> HIDE DEF a
    <3>3. a \in Msg /\ a[1] = "bct" /\ a[2] = i /\ a[3] = heap[i]
      BY <1>2, <3>1, <3>2 DEF Msg, Tags
    <3> QED
      BY <2>2, <3>3 DEF Answered
  <2>3. CASE q[1] \in {"pin", "plv", "ppo"} /\ i \notin DOMAIN folk
    <3>1. a = <<"sbp", 0, 0>>
      BY <2>3
    <3> HIDE DEF a
    <3>2. a \in Msg /\ a[1] = "sbp"
      BY <3>1 DEF Msg, Tags
    <3> QED
      BY <2>3, <3>2 DEF Answered
  <2>4. CASE q[1] = "plv" /\ i \in DOMAIN folk
    <3>1. a = <<"plv", i, folk[i].level>>
      BY <1>1, <2>4 DEF LevelOf
    <3>2. folk[i].level \in Int
      BY <1>3, <2>4 DEF Person
    <3> HIDE DEF a
    <3>3. a \in Msg /\ a[1] = "plv" /\ a[2] = i /\ a[3] = folk[i].level
      BY <1>2, <3>1, <3>2 DEF Msg, Tags
    <3> QED
      BY <2>4, <3>3 DEF Answered
  <2>5. CASE q[1] = "ppo" /\ i \in DOMAIN folk
    <3>1. a = <<"ppo", i, folk[i].tile>>
      BY <1>1, <2>5 DEF PositionOf
    <3>2. folk[i].tile \in Int
      BY <1>3, <2>5 DEF Person
    <3> HIDE DEF a
    <3>3. a \in Msg /\ a[1] = "ppo" /\ a[2] = i /\ a[3] = folk[i].tile
      BY <1>2, <3>1, <3>2 DEF Msg, Tags
    <3> QED
      BY <2>5, <3>3 DEF Answered
  <2>6. CASE q[1] = "pin" /\ i \in DOMAIN folk
    <3>1. a = <<"pin", i, folk[i].food>>
      BY <1>1, <2>6 DEF FoodOf
    <3>2. folk[i].food \in Int
      BY <1>3, <2>6 DEF Person
    <3> HIDE DEF a
    <3>3. a \in Msg /\ a[1] = "pin" /\ a[2] = i /\ a[3] = folk[i].food
      BY <1>2, <3>1, <3>2 DEF Msg, Tags
    <3> QED
      BY <2>6, <3>3 DEF Answered
  <2> QED
    BY <1>2, <2>1, <2>2, <2>3, <2>4, <2>5, <2>6
<1> HIDE DEF a
<1>5. line' = line \o <<a>>
  BY <1>1, <1>4, AppendIsConcat
<1> QED
  BY <1>4, <1>5

\* Whoever no line due is behind has its level told right by all of them.
LEMMA UpToDate ==
    ASSUME PanelsInv, NEW i \in DOMAIN folk, ~Outdated(i)
    PROVE  LastIn(due, About({"plv"}, i), Third(folk[i].level))
<1>1. PanelTypes
  BY DEF PanelsInv
<1>2. due \in Seq(Msg) /\ folk[i].level \in Int
  BY <1>1, Folks DEF PanelTypes, Person
<1>3. OnlyFrom(due, Sound)
  BY <1>1, ComingIs DEF PanelsInv, ComingInv, Follows
<1>4. SUFFICES ASSUME NEW n \in DOMAIN due, due[n] \in About({"plv"}, i) PROVE due[n] \in Third(folk[i].level)
  BY DEF LastIn
<1> DEFINE m == due[n]
<1>5. m \in Sound /\ m \in Msg /\ m[1] = "plv" /\ m[2] = i
  BY <1>3, <1>4 DEF OnlyFrom, About
<1>6. m[3] <= folk[i].level /\ m[3] \in Int
  BY <1>5 DEF Sound, Msg
<1>7. ~(m[3] < folk[i].level)
  BY <1>5 DEF Outdated
<1> HIDE DEF m
<1>8. m[3] = folk[i].level
  BY <1>2, <1>6, <1>7
<1> QED
  BY <1>5, <1>8 DEF Third, m

LEMMA ServeKeeps == ASSUME PanelsInv, Serve PROVE PanelsInv'
<1> DEFINE q == Head(asked)
<1>1. PanelTypes /\ asked \in Seq(Msg) /\ asked # <<>> /\ Answer(q) /\ asked' = Tail(asked)
  BY DEF PanelsInv, PanelTypes, Serve
<1>2. q \in Msg /\ asked' \in Seq(Msg) /\ asked = <<q>> \o asked' /\ <<q>> \in Seq(Msg) /\ Alone(q, <<q>>)
  BY <1>1, HeadAndTail, OneLine
<1>3. UNCHANGED <<folk, laid, heap, rites, due, sheet, tile, stats, rows, slider, done>>
  BY DEF Serve, Answer, panels
<1>4. freq' = IF q[1] = "sst" THEN q[2] ELSE freq
  BY DEF Serve, Answer
<1>5. /\ story' \in Stories /\ story'.newId = story.newId /\ story'.newEgg = story.newEgg
      /\ story'.late = story.late /\ story'.rows = story.rows /\ story'.givenUp = story.givenUp
      /\ story'.heard = story.heard /\ story'.stray = story.stray
      /\ \A i : i \notin story'.followers =>
                \/ i \notin story.followers
                \/ i \in DOMAIN folk /\ q[1] = "plv" /\ q[2] = i /\ ~Outdated(i)
  <2>1. story \in Stories
    BY <1>1 DEF PanelTypes, Stories
  <2>2. \/ story' = story
        \/ /\ story' = [story EXCEPT !.followers = @ \ {q[2]}] /\ q[2] \in DOMAIN folk
           /\ q[1] = "plv" /\ ~Outdated(q[2])
    BY DEF Serve
  <2> DEFINE i == q[2]
  <2>3. ASSUME story' = [story EXCEPT !.followers = @ \ {i}]
        PROVE  /\ story' \in Stories /\ story'.newId = story.newId /\ story'.newEgg = story.newEgg
               /\ story'.late = story.late /\ story'.rows = story.rows /\ story'.givenUp = story.givenUp
               /\ story'.heard = story.heard /\ story'.stray = story.stray
               /\ story'.followers = story.followers \ {i}
    <3> HIDE DEF i
    <3> QED
      BY ONLY <2>1, <2>3 DEF Stories
  <2> HIDE DEF q
  <2> QED
    BY <2>1, <2>2, <2>3
<1> HIDE DEF q
<1>6. Follows(<<q>>, asked', asked)
  BY <1>2, Concatenated
<1>7. \A A : Silent(asked, A) <=> q \notin A /\ Silent(asked', A)
  BY <1>2, <1>6 DEF Follows, Alone
<1>8. q \in Askable /\ OnlyFrom(asked', Askable)
  BY <1>2, <1>6 DEF Follows, Alone, PanelsInv, AskedInv
<1>9. Hatched' = Hatched /\ EggsLaid' = EggsLaid
  BY <1>5 DEF Hatched, EggsLaid
<1>10. Sound' = Sound /\ Askable' = Askable
  BY <1>3, <1>9 DEF Sound, Askable
<1>11. PICK a \in Msg : line' = line \o <<a>> /\ Answered(q, a)
  BY <1>1, <1>8, AnswerIs
<1>12. Put(a) /\ line' \in Seq(Msg)
  BY <1>1, <1>3, <1>11, PutIn
<1>13. freq' \in Speeds
  BY <1>1, <1>4, <1>8 DEF PanelTypes, Askable
<1>14. PanelTypes'
  BY <1>1, <1>2, <1>3, <1>5, <1>9, <1>12, <1>13 DEF PanelTypes, Sheets
<1>15. ComingInv'
  <2>1. a \in Sound
    <3>1. a[1] = "plv" => a[2] \in DOMAIN folk /\ a[3] = folk[a[2]].level /\ a[2] \in Hatched
      BY <1>1, <1>8, <1>11, Folks DEF Answered, Askable
    <3>2. \A j \in DOMAIN folk : folk[j].level \in Int /\ folk[j].food \in Nat
      BY <1>1, Folks DEF Person
    <3>3. a[1] = "plv" => a[3] <= folk[a[2]].level
      BY <3>1, <3>2
    <3>4. a[1] = "pin" => a[3] \in Nat /\ a[2] \in Hatched
      BY <1>8, <1>11, <3>2 DEF Answered, Askable
    <3> QED
      BY <1>8, <1>11, <3>1, <3>3, <3>4 DEF Answered, Askable, Sound, Player
  <2> QED
    BY <1>10, <1>12, <2>1 DEF Put, PanelsInv, ComingInv
<1>16. DueInv' /\ AskedInv' /\ CountInv' /\ RowsInv'
  <2>1. DueInv'
    BY <1>3 DEF PanelsInv, DueInv
  <2>2. AskedInv'
    <3>1. OnlyFrom(asked', Askable)
      BY <1>8
    <3>2. Askable' = Askable
      BY <1>10
    <3> QED
      BY ONLY <3>1, <3>2, Zenon DEF AskedInv
  <2>3. CountInv' /\ RowsInv'
    BY <1>3, <1>5 DEF PanelsInv, CountInv, RowsInv, Mates, Raised
  <2> QED
    BY <2>1, <2>2, <2>3
<1>17. AloneInv'
  BY <1>1, <1>3 DEF PanelsInv, AloneInv
<1>18. HeapInv'
  <2> SUFFICES ASSUME NEW x \in Tiles
               PROVE  /\ LastIn(Coming', About({"bct"}, x), Third(heap[x]))
                      /\ Silent(Coming', About({"bct"}, x)) /\ tile.at = x =>
                            tile.heap = heap[x] \/ Asks(<<"bct", x, 0>>)'
    BY <1>3 DEF HeapInv
  <2>1. a \in About({"bct"}, x) => a \in Third(heap[x])
    BY <1>11 DEF About, Third, Answered
  <2>2. q \in {<<"bct", x, 0>>} => a \in About({"bct"}, x)
    BY <1>11 DEF About, Answered
  <2>3. /\ LastIn(Coming, About({"bct"}, x), Third(heap[x]))
        /\ Silent(Coming, About({"bct"}, x)) /\ tile.at = x => tile.heap = heap[x] \/ Asks(<<"bct", x, 0>>)
    BY DEF PanelsInv, HeapInv
  <2> QED
    BY <1>7, <1>12, <2>1, <2>2, <2>3 DEF Put, Asks
<1>19. PlaceInv'
  <2> SUFFICES ASSUME NEW i \in DOMAIN folk
               PROVE  /\ LastIn(Coming', About({"ppo"}, i), Third(folk[i].tile))
                      /\ Silent(Coming', About({"ppo"}, i)) /\ sheet.id = i =>
                            sheet.tile = folk[i].tile \/ Asks(<<"ppo", i, 0>>)'
    BY <1>3 DEF PlaceInv
  <2>1. a \in About({"ppo"}, i) => a \in Third(folk[i].tile)
    BY <1>11 DEF About, Third, Answered
  <2>2. q \in {<<"ppo", i, 0>>} => a \in About({"ppo"}, i)
    BY <1>11 DEF About, Answered
  <2>3. /\ LastIn(Coming, About({"ppo"}, i), Third(folk[i].tile))
        /\ Silent(Coming, About({"ppo"}, i)) /\ sheet.id = i => sheet.tile = folk[i].tile \/ Asks(<<"ppo", i, 0>>)
    BY DEF PanelsInv, PlaceInv
  <2> QED
    BY <1>7, <1>12, <2>1, <2>2, <2>3 DEF Put, Asks
<1>20. LevelInv'
  <2> SUFFICES ASSUME done.joined, NEW i \in DOMAIN folk, i \notin story'.followers
               PROVE  /\ LastIn(Coming', About({"plv"}, i), Third(folk[i].level))
                      /\ Silent(Coming', About({"plv"}, i)) =>
                            /\ sheet.id = i => sheet.level = folk[i].level \/ Asks(<<"plv", i, 0>>)'
                            /\ i \in DOMAIN stats.level => stats.level[i] = folk[i].level
                            /\ i \notin DOMAIN stats.level =>
                                  FirstIn(Coming', About({"pnw"}, i), Third(folk[i].level))
    BY <1>3 DEF LevelInv
  <2>1. a \in About({"plv"}, i) => a \in Third(folk[i].level)
    BY <1>11 DEF About, Third, Answered
  <2>2. q \in {<<"plv", i, 0>>} => a \in About({"plv"}, i)
    BY <1>11 DEF About, Answered
  <2>3. a \notin About({"pnw"}, i)
    BY <1>11 DEF About, Answered
  <2>4. CASE i \notin story.followers
    <3>1. /\ LastIn(Coming, About({"plv"}, i), Third(folk[i].level))
          /\ Silent(Coming, About({"plv"}, i)) =>
                /\ sheet.id = i => sheet.level = folk[i].level \/ Asks(<<"plv", i, 0>>)
                /\ i \in DOMAIN stats.level => stats.level[i] = folk[i].level
                /\ i \notin DOMAIN stats.level => FirstIn(Coming, About({"pnw"}, i), Third(folk[i].level))
      BY <2>4 DEF PanelsInv, LevelInv
    <3> QED
      BY <1>7, <1>12, <2>1, <2>2, <2>3, <3>1 DEF Put, Asks
  <2>5. CASE i \in story.followers
    <3>1. q[1] = "plv" /\ q[2] = i /\ ~Outdated(i)
      BY <1>5, <2>5
    <3>2. a \in About({"plv"}, i)
      BY <1>11, <3>1 DEF About, Answered
    <3>3. LastIn(due, About({"plv"}, i), Third(folk[i].level))
      BY <3>1, UpToDate
    <3> QED
      BY <1>12, <2>1, <3>2, <3>3 DEF Put
  <2> QED
    BY <2>4, <2>5
<1>21. OrderInv'
  <2> SUFFICES ASSUME done.joined, NEW i \in DOMAIN folk, i \notin DOMAIN stats.level
               PROVE  OnlyAfter(Coming', About({"pnw"}, i), About({"plv"}, i))
    BY <1>3 DEF OrderInv
  <2>1. a \notin About({"plv"}, i)
    BY <1>8, <1>11 DEF About, Answered, Askable
  <2>2. OnlyAfter(Coming, About({"pnw"}, i), About({"plv"}, i))
    BY DEF PanelsInv, OrderInv
  <2> QED
    BY <1>12, <2>1, <2>2 DEF Put
<1>22. KnownInv' /\ EggInv'
  <2>1. \A i : a \notin About({"pnw", "pdi"}, i) /\ a \notin About({"enw", "ebo"}, i)
    BY <1>11 DEF About, Answered
  <2>2. \A i \in Numbers :
        /\ LastIn(Coming', About({"pnw", "pdi"}, i), Tagged(IF i \in DOMAIN folk THEN "pnw" ELSE "pdi"))
        /\ done.joined /\ Silent(Coming', About({"pnw", "pdi"}, i)) =>
              (i \in DOMAIN stats.level <=> i \in DOMAIN folk)
    BY <1>12, <2>1 DEF Put, PanelsInv, KnownInv
  <2>3. \A e \in EggsLaid :
        /\ LastIn(Coming', About({"enw", "ebo"}, e), Tagged(IF e \in laid THEN "enw" ELSE "ebo"))
        /\ done.joined /\ Silent(Coming', About({"enw", "ebo"}, e)) => (e \in stats.eggs <=> e \in laid)
    BY <1>12, <2>1 DEF Put, PanelsInv, EggInv
  <2> QED
    BY <1>3, <1>9, <2>2, <2>3 DEF KnownInv, EggInv
<1>23. SpeedInv'
  <2>1. CASE q[1] = "sst"
    <3>1. a \in Speaks /\ a \in Second(freq')
      BY <1>4, <1>11, <2>1 DEF Answered, Speaks, Second
    <3>2. LastIn(due, Speaks, Second(freq'))
      BY SilentSays DEF PanelsInv, DueInv
    <3>3. LastIn(Coming', Speaks, Second(freq')) /\ ~Silent(Coming', Speaks)
      BY <1>12, <3>1, <3>2 DEF Put
    <3> QED
      BY <3>3 DEF SpeedInv
  <2>2. CASE q[1] # "sst"
    <3>1. a \notin Speaks /\ q \notin Tagged("sst") /\ freq' = freq
      BY <1>4, <1>11, <2>2 DEF Answered, Speaks, Tagged
    <3>2. Silent(asked', Tagged("sst")) => Silent(asked, Tagged("sst"))
      BY <1>7, <3>1
    <3>3. LastIn(Coming, Speaks, Second(freq)) => LastIn(Coming', Speaks, Second(freq))
      BY <1>12, <3>1 DEF Put
    <3>4. Silent(Coming', Speaks) => Silent(Coming, Speaks)
      BY <1>12 DEF Put
    <3> QED
      BY <1>3, <1>5, <3>1, <3>2, <3>3, <3>4 DEF PanelsInv, SpeedInv, Clamped
  <2> QED
    BY <2>1, <2>2
<1>24. FoodInv'
  <2> SUFFICES ASSUME NEW i \in DOMAIN folk
               PROVE  /\ LastIn(Coming', About({"pin"}, i), Third(folk[i].food))
                      /\ Silent(Coming', About({"pin"}, i)) /\ sheet.id = i =>
                            sheet.food + sheet.fell = 2 * folk[i].food \/ Asks(<<"pin", i, 0>>)'
    BY <1>3 DEF FoodInv
  <2>1. a \in About({"pin"}, i) => a \in Third(folk[i].food)
    BY <1>11 DEF About, Third, Answered
  <2>2. q \in {<<"pin", i, 0>>} => a \in About({"pin"}, i)
    BY <1>11 DEF About, Answered
  <2>3. /\ LastIn(Coming, About({"pin"}, i), Third(folk[i].food))
        /\ Silent(Coming, About({"pin"}, i)) /\ sheet.id = i =>
              sheet.food + sheet.fell = 2 * folk[i].food \/ Asks(<<"pin", i, 0>>)
    BY DEF PanelsInv, FoodInv
  <2> QED
    BY <1>7, <1>12, <2>1, <2>2, <2>3 DEF Put, Asks
<1>25. RitesInv' /\ ScanInv'
  <2>1. RitesInv'
    BY <1>3, <1>5 DEF PanelsInv, RitesInv
  <2>2. \A x : a \notin About({"pic", "pie"}, x) /\ (Ritual(x)' <=> Ritual(x))
    BY <1>3, <1>11 DEF About, Answered, Ritual
  <2>3. ScanInv'
    BY <1>3, <1>5, <1>12, <2>2 DEF Put, PanelsInv, ScanInv
  <2> QED
    BY <2>1, <2>3
<1> QED
  BY <1>14, <1>15, <1>16, <1>17, <1>18, <1>19, <1>20, <1>21, <1>22, <1>23, <1>24, <1>25 DEF PanelsInv

\* What another spectator sets is told at once.
LEMMA OtherSetsKeeps == ASSUME PanelsInv, NEW v \in Speeds, OtherSets(v) PROVE PanelsInv'
<1> DEFINE a == <<"sst", v, 0>>
<1>1. PanelTypes /\ line \in Seq(Msg) /\ due \in Seq(Msg)
  BY DEF PanelsInv, PanelTypes
<1>2. /\ UNCHANGED <<folk, laid, heap, rites, due, asked, sheet, tile, stats, rows, slider, story>> /\ freq' = v
      /\ line' = IF done.joined THEN Append(line, a) ELSE line
  BY DEF OtherSets, panels
<1>3. done' \in [joined : BOOLEAN, events : Int, clicks : Int] /\ done'.joined = done.joined
  <2>1. done \in [joined : BOOLEAN, events : Int, clicks : Int]
    BY <1>1 DEF PanelTypes
  <2>2. done' = [done EXCEPT !.events = @ + 1]
    BY DEF OtherSets, Happens
  <2> QED
    BY ONLY <2>1, <2>2
<1>4. Hatched' = Hatched /\ EggsLaid' = EggsLaid
  BY <1>2 DEF Hatched, EggsLaid
<1>5. Sound' = Sound /\ Askable' = Askable
  BY <1>2, <1>4 DEF Sound, Askable
<1> HIDE DEF a
<1>6. Means(a, "sst", v, 0)
  <2>1. v \in Int /\ "sst" \in Tags
    BY PanelConstants DEF Tags
  <2>2. a = <<"sst", v, 0>>
    BY DEF a
  <2> QED
    BY ONLY <2>1, <2>2, LineMeans
<1>7. a \in Msg /\ a \in Sound /\ a \in Speaks /\ a \in Second(v)
  BY <1>6 DEF Means, Sound, Player
<1>8. AskedInv' /\ DueInv' /\ CountInv' /\ RowsInv' /\ RitesInv'
  BY <1>2, <1>5 DEF PanelsInv, AskedInv, DueInv, CountInv, RowsInv, RitesInv, Mates, Raised
<1>9. AloneInv'
  BY <1>2, <1>3 DEF PanelsInv, AloneInv
<1>10. LastIn(due, Speaks, Second(v))
  BY SilentSays DEF PanelsInv, DueInv
<1>11. CASE done.joined
  <2>1. line' = line \o <<a>>
    BY ONLY <1>1, <1>2, <1>7, <1>11, AppendIsConcat
  <2>2. Put(a) /\ line' \in Seq(Msg)
    BY <1>1, <1>2, <1>7, <2>1, PutIn
  <2>3. PanelTypes'
    BY <1>1, <1>2, <1>3, <1>4, <2>2 DEF PanelTypes, Sheets
  <2>4. ComingInv'
    BY <1>5, <1>7, <2>2 DEF Put, PanelsInv, ComingInv
  <2>5. SpeedInv'
    BY <1>2, <1>7, <1>10, <2>2 DEF Put, SpeedInv
  <2>6. \A tags, x : "sst" \notin tags => a \notin About(tags, x)
    BY <1>6 DEF Means
  <2>7. \A tags, x : "sst" \notin tags =>
            /\ Silent(Coming', About(tags, x)) <=> Silent(Coming, About(tags, x))
            /\ \A V : LastIn(Coming, About(tags, x), V) => LastIn(Coming', About(tags, x), V)
            /\ \A V : FirstIn(Coming, About(tags, x), V) => FirstIn(Coming', About(tags, x), V)
            /\ \A P : OnlyAfter(Coming, P, About(tags, x)) => OnlyAfter(Coming', P, About(tags, x))
    BY <2>2, <2>6 DEF Put
  <2>8. HeapInv' /\ PlaceInv' /\ FoodInv'
    BY <1>2, <2>7 DEF PanelsInv, HeapInv, PlaceInv, FoodInv, Asks
  <2>9. ScanInv'
    BY <1>2, <2>7 DEF PanelsInv, ScanInv, Ritual
  <2>10. LevelInv' /\ OrderInv'
    BY <1>2, <1>3, <2>7 DEF PanelsInv, LevelInv, OrderInv, Asks
  <2>11. KnownInv' /\ EggInv'
    BY <1>2, <1>3, <1>4, <2>7 DEF PanelsInv, KnownInv, EggInv
  <2> QED
    BY <1>8, <1>9, <2>3, <2>4, <2>5, <2>8, <2>9, <2>10, <2>11 DEF PanelsInv
<1>12. CASE ~done.joined
  <2>1. line' = line /\ Coming' = Coming
    BY <1>2, <1>12 DEF Coming
  <2>2. PanelTypes'
    BY <1>1, <1>2, <1>3, <1>4, <2>1 DEF PanelTypes, Sheets
  <2>3. ComingInv'
    BY <1>5, <2>1 DEF PanelsInv, ComingInv
  <2>4. Coming = due
    BY <1>1, <1>12, ConcatEmptySeq DEF Coming, PanelsInv, AloneInv
  <2>5. SpeedInv'
    BY <1>2, <1>3, <1>10, <1>12, <2>1, <2>4 DEF SpeedInv
  <2>6. HeapInv' /\ PlaceInv' /\ FoodInv'
    BY <1>2, <2>1 DEF PanelsInv, HeapInv, PlaceInv, FoodInv, Asks
  <2>7. ScanInv'
    BY <1>2, <2>1 DEF PanelsInv, ScanInv, Ritual
  <2>8. LevelInv' /\ OrderInv'
    BY <1>3, <1>12 DEF LevelInv, OrderInv
  <2>9. KnownInv' /\ EggInv'
    BY <1>2, <1>3, <1>4, <2>1 DEF PanelsInv, KnownInv, EggInv
  <2> QED
    BY <1>8, <1>9, <2>2, <2>3, <2>5, <2>6, <2>7, <2>8, <2>9 DEF PanelsInv
<1> QED
  BY <1>11, <1>12

-----------------------------------------------------------------------------
(* The snapshot.                                                           *)

Lists(S, s) ==
    /\ s \in Seq(Msg)
    /\ \A A : Silent(s, A) <=> \A m \in S : m \notin A
    /\ \A G : OnlyFrom(s, G) <=> S \subseteq G
    /\ \A A, V : (\A m \in S : m \in A => m \in V) => LastIn(s, A, V) /\ FirstIn(s, A, V)

LEMMA Listed == ASSUME NEW S, S \subseteq Msg, IsFiniteSet(S) PROVE Lists(S, SetToSeq(S))
<1> DEFINE n == Cardinality(S)
           s == SetToSeq(S)
<1>1. n \in Nat /\ ExistsBijection(1 .. n, S)
  BY FS_CardinalityType
<1>2. PICK f : f \in Bijection(1 .. n, S)
  BY <1>1 DEF ExistsBijection
<1>3. f \in [1 .. n -> S] /\ IsInjective(f)
  BY <1>2 DEF Bijection, Injection
<1>4. s \in [1 .. n -> S] /\ IsInjective(s)
  BY <1>3, Zenon DEF SetToSeq
<1>5. s \in Injection(1 .. n, S)
  BY <1>4 DEF Injection
<1>6. IsFiniteSet(1 .. n) /\ Cardinality(1 .. n) = n
  BY <1>1, FS_Interval
<1>7. s \in Surjection(1 .. n, S)
  BY <1>5, <1>6, FS_Injection
<1> HIDE DEF s, n
<1>8. \A m \in S : \E k \in 1 .. n : s[k] = m
  BY <1>7 DEF Surjection
<1>9. DOMAIN s = 1 .. n /\ \A k \in 1 .. n : s[k] \in S
  BY <1>4
<1>10. s \in Seq(Msg)
  BY <1>1, <1>9, <1>4
<1>11. \A A : Silent(s, A) <=> \A m \in S : m \notin A
  BY <1>8, <1>9 DEF Silent
<1>12. \A G : OnlyFrom(s, G) <=> S \subseteq G
  BY <1>8, <1>9 DEF OnlyFrom
<1>13. \A A, V : (\A m \in S : m \in A => m \in V) => LastIn(s, A, V) /\ FirstIn(s, A, V)
  BY <1>9 DEF LastIn, FirstIn
<1>14. Lists(S, s)
  BY <1>10, <1>11, <1>12, <1>13 DEF Lists
<1> QED
  BY <1>14 DEF s

EggLines   == {<<"enw", e, 0>> : e \in laid}
Newcomers  == {<<"pnw", i, folk[i].level>> : i \in DOMAIN folk}
SpeedLine  == <<"sgt", freq, 0>>

\* What the snapshot says.
Tells(s) ==
    LET m == SpeedLine IN
    /\ s \in Seq(Msg)
    /\ \A A : Silent(s, A) <=> (\A k \in EggLines \cup Newcomers : k \notin A) /\ m \notin A
    /\ \A G : OnlyFrom(s, G) <=> EggLines \cup Newcomers \subseteq G /\ m \in G
    /\ \A A, V : (\A k \in EggLines \cup Newcomers : k \in A => k \in V) /\ (m \in A => m \in V)
                  => LastIn(s, A, V) /\ FirstIn(s, A, V)

LEMMA Snapshot == ASSUME PanelsInv, SendSnapshot PROVE Tells(line')
<1> DEFINE S == EggLines
           T == Newcomers
           m == SpeedLine
           one == <<m>>
           u == SetToSeq(S)
           v == SetToSeq(T)
           w == one \o v
<1>1. PanelTypes
  BY DEF PanelsInv
<1>2. /\ folk \in [DOMAIN folk -> Person] /\ DOMAIN folk \subseteq Numbers
      /\ Numbers \subseteq Nat /\ freq \in Speeds /\ laid \subseteq EggsLaid
  BY <1>1, Folks DEF PanelTypes
<1>3. S \subseteq Msg /\ IsFiniteSet(S)
  <2>1. story.newEgg \in Nat /\ laid \subseteq 0 .. story.newEgg - 1
    BY <1>1 DEF PanelTypes, Stories, EggsLaid
  <2>2. IsFiniteSet(0 .. story.newEgg - 1)
    BY <2>1, FS_Interval
  <2>3. IsFiniteSet(laid)
    BY <2>1, <2>2, FS_Subset
  <2> DEFINE f == [e \in laid |-> <<"enw", e, 0>>]
  <2>4. f \in Surjection(laid, S)
    BY DEF Surjection, EggLines
  <2>5. IsFiniteSet(S)
    BY <2>3, <2>4, FS_Surjection
  <2>6. \A e \in laid : e \in Int
    BY <2>1
  <2>7. \A e \in laid : <<"enw", e, 0>> \in Msg
    BY <2>6 DEF Msg, Tags
  <2>8. S \subseteq Msg
    BY <2>7 DEF EggLines
  <2> QED
    BY <2>5, <2>8
<1>4. T \subseteq Msg /\ IsFiniteSet(T)
  <2>1. IsFiniteSet(DOMAIN folk)
    BY <1>2, PanelConstants, FS_Subset
  <2> DEFINE f == [i \in DOMAIN folk |-> <<"pnw", i, folk[i].level>>]
  <2>2. f \in Surjection(DOMAIN folk, T)
    BY DEF Surjection, Newcomers
  <2>3. IsFiniteSet(T)
    BY <2>1, <2>2, FS_Surjection
  <2>4. T \subseteq Msg
    BY <1>2 DEF Newcomers, Msg, Tags, Person
  <2> QED
    BY <2>3, <2>4
<1>5. m \in Msg
  <2>1. freq \in Int
    BY <1>2, PanelConstants
  <2> QED
    BY <2>1 DEF SpeedLine, Msg, Tags
<1>6. line' = w \o u
  <2>1. folk' = folk
    BY DEF SendSnapshot, server
  <2> QED
    BY <2>1 DEF SendSnapshot, EggLines, Newcomers, Newcomer, SpeedLine
<1> HIDE DEF S, T, m
<1>7. Lists(S, u) /\ Lists(T, v)
  BY <1>3, <1>4, Listed
<1>8. one \in Seq(Msg) /\ Alone(m, one)
  BY ONLY <1>5, OneLine
<1> HIDE DEF u, v, one
<1>9. w \in Seq(Msg) /\ Follows(one, v, w)
  BY <1>7, <1>8, Concatenated DEF Lists
<1> HIDE DEF w
<1>10. line' \in Seq(Msg) /\ Follows(w, u, line')
  BY <1>6, <1>7, <1>9, Concatenated DEF Lists
<1> DEFINE s == line'
<1> HIDE DEF s
<1>11. s \in Seq(Msg) /\ Follows(w, u, s)
  BY <1>10 DEF s
<1>12. \A A : Silent(s, A) <=> (\A k \in S \cup T : k \notin A) /\ m \notin A
  BY <1>7, <1>8, <1>9, <1>11 DEF Follows, Alone, Lists
<1>13. \A G : OnlyFrom(s, G) <=> S \cup T \subseteq G /\ m \in G
  BY <1>7, <1>8, <1>9, <1>11 DEF Follows, Alone, Lists
<1>14. ASSUME NEW A, NEW V, \A k \in S \cup T : k \in A => k \in V, m \in A => m \in V
       PROVE  LastIn(s, A, V) /\ FirstIn(s, A, V)
  <2>1. LastIn(u, A, V) /\ FirstIn(u, A, V) /\ LastIn(v, A, V) /\ FirstIn(v, A, V)
    BY <1>7, <1>14 DEF Lists
  <2>2. LastIn(one, A, V) /\ FirstIn(one, A, V)
    BY <1>8, <1>14 DEF Alone
  <2>3. LastIn(w, A, V) /\ FirstIn(w, A, V)
    BY <1>9, <2>1, <2>2 DEF Follows
  <2> QED
    BY <1>11, <2>1, <2>3 DEF Follows
<1>15. Tells(s)
  BY <1>11, <1>12, <1>13, <1>14 DEF Tells, S, T, m
<1> QED
  BY <1>15 DEF s

LEMMA SnapshotKeeps == ASSUME PanelsInv, SendSnapshot PROVE PanelsInv'
<1> DEFINE m == SpeedLine
           K == EggLines \cup Newcomers
<1>1. PanelTypes /\ line = <<>> /\ asked = <<>> /\ sheet.id = -1 /\ tile.at = -1
      /\ DOMAIN stats.level = {} /\ stats.eggs = {} /\ ~done.joined
  BY DEF SendSnapshot, PanelsInv, AloneInv
<1>2. UNCHANGED <<folk, laid, heap, rites, freq, due, asked, sheet, tile, stats, rows, slider>>
  BY DEF SendSnapshot, server, panels
<1>3. done' \in [joined : BOOLEAN, events : Int, clicks : Int] /\ done'.joined
  <2>1. done \in [joined : BOOLEAN, events : Int, clicks : Int]
    BY <1>1 DEF PanelTypes
  <2>2. done' = [done EXCEPT !.joined = TRUE]
    BY DEF SendSnapshot
  <2> QED
    BY ONLY <2>1, <2>2
<1>4. /\ story' \in Stories /\ story'.newId = story.newId /\ story'.newEgg = story.newEgg
      /\ story'.late = story.late /\ story'.rows = story.rows /\ story'.givenUp = story.givenUp
      /\ story'.heard = story.heard /\ story'.stray = story.stray
      /\ story'.followers = {i \in DOMAIN folk : Outdated(i)}
  <2>1. story \in Stories
    BY <1>1 DEF PanelTypes, Stories
  <2> DEFINE F == {i \in DOMAIN folk : Outdated(i)}
  <2>2. story' = [story EXCEPT !.followers = F]
    BY DEF SendSnapshot
  <2>3. F \subseteq Numbers
    BY <1>1, Folks
  <2> HIDE DEF F
  <2>4. /\ story' \in Stories /\ story'.newId = story.newId /\ story'.newEgg = story.newEgg
        /\ story'.late = story.late /\ story'.rows = story.rows /\ story'.givenUp = story.givenUp
      /\ story'.heard = story.heard /\ story'.stray = story.stray
        /\ story'.followers = F
    BY ONLY <2>1, <2>2, <2>3 DEF Stories
  <2> QED
    BY <2>4 DEF F
<1>5. Hatched' = Hatched /\ EggsLaid' = EggsLaid
  BY <1>4 DEF Hatched, EggsLaid
<1>6. Sound' = Sound /\ Askable' = Askable
  BY <1>2, <1>5 DEF Sound, Askable
<1>7. Tells(line')
  BY Snapshot
<1>8. line' \in Seq(Msg) /\ due \in Seq(Msg)
  BY <1>1, <1>7 DEF Tells, PanelTypes
<1>9. Follows(line', due, Coming')
  <2>1. Coming' = line' \o due
    BY <1>2 DEF Coming
  <2> QED
    BY ONLY <1>8, <2>1, Concatenated
<1>10. Coming = due
  BY <1>1, <1>8, ConcatEmptySeq DEF Coming
<1>11. PanelTypes'
  BY <1>1, <1>2, <1>3, <1>4, <1>5, <1>8 DEF PanelTypes, Sheets
<1>12. \A A : Silent(line', A) <=> (\A k \in K : k \notin A) /\ m \notin A
  BY <1>7 DEF Tells
<1>13. \A A, V : (\A k \in K : k \in A => k \in V) /\ (m \in A => m \in V)
                 => LastIn(line', A, V) /\ FirstIn(line', A, V)
  BY <1>7 DEF Tells
<1>14. /\ \A k \in K : (k[1] = "enw" /\ k[2] \in laid)
                          \/ (k[1] = "pnw" /\ k[2] \in DOMAIN folk /\ k[3] = folk[k[2]].level)
       /\ \A e \in laid : \E k \in K : k[1] = "enw" /\ k[2] = e
       /\ \A i \in DOMAIN folk : \E k \in K : k[1] = "pnw" /\ k[2] = i
       /\ m[1] = "sgt" /\ m[2] = freq
  <2>1. \A k \in EggLines : k[1] = "enw" /\ k[2] \in laid
    BY DEF EggLines
  <2>2. \A k \in Newcomers : k[1] = "pnw" /\ k[2] \in DOMAIN folk /\ k[3] = folk[k[2]].level
    BY DEF Newcomers
  <2>3. \A e \in laid : \E k \in EggLines : k[1] = "enw" /\ k[2] = e
    <3> TAKE e \in laid
    <3> DEFINE k == <<"enw", e, 0>>
    <3>1. k \in EggLines
      BY DEF EggLines
    <3>2. k[1] = "enw" /\ k[2] = e
      OBVIOUS
    <3> HIDE DEF k
    <3> QED
      BY <3>1, <3>2
  <2>4. \A i \in DOMAIN folk : \E k \in Newcomers : k[1] = "pnw" /\ k[2] = i
    <3> TAKE i \in DOMAIN folk
    <3> DEFINE k == <<"pnw", i, folk[i].level>>
    <3>1. k \in Newcomers
      BY DEF Newcomers
    <3>2. k[1] = "pnw" /\ k[2] = i
      OBVIOUS
    <3> HIDE DEF k
    <3> QED
      BY <3>1, <3>2
  <2>5. m[1] = "sgt" /\ m[2] = freq
    BY DEF SpeedLine
  <2> HIDE DEF m
  <2> QED
    BY <2>1, <2>2, <2>3, <2>4, <2>5
<1>15. K \subseteq Msg /\ m \in Msg
  <2>1. OnlyFrom(line', Msg)
    BY <1>8 DEF OnlyFrom
  <2> QED
    BY <1>7, <2>1 DEF Tells
<1> HIDE DEF m, K
<1>16. ComingInv'
  <2>1. K \subseteq Sound /\ m \in Sound
    <3>1. freq \in Speeds /\ laid \subseteq EggsLaid /\ DOMAIN folk \subseteq Hatched
      BY <1>1 DEF PanelTypes
    <3>2. \A k \in K : k \in Sound
      BY <1>14, <1>15, <3>1 DEF Sound, Player
    <3>3. m \in Sound
      BY <1>14, <1>15, <3>1 DEF Sound, Player
    <3> QED
      BY <3>2, <3>3
  <2>2. OnlyFrom(line', Sound)
    BY <1>7, <2>1 DEF Tells, m, K
  <2>3. OnlyFrom(due, Sound)
    BY <1>10 DEF PanelsInv, ComingInv
  <2>4. OnlyFrom(Coming', Sound)
    BY <1>9, <2>2, <2>3 DEF Follows
  <2>5. Sound' = Sound
    BY <1>6
  <2> QED
    BY ONLY <2>4, <2>5, Zenon DEF ComingInv
<1>17. DueInv' /\ AskedInv' /\ CountInv' /\ RowsInv' /\ AloneInv' /\ RitesInv'
  BY <1>2, <1>3, <1>4, <1>6 DEF PanelsInv, RitesInv, DueInv, AskedInv, CountInv, RowsInv, AloneInv, Mates, Raised
<1>18. HeapInv'
  <2> SUFFICES ASSUME NEW x \in Tiles PROVE LastIn(Coming', About({"bct"}, x), Third(heap[x]))
    BY <1>1, <1>2 DEF HeapInv, Tiles
  <2>1. Silent(line', About({"bct"}, x))
    BY <1>12, <1>14 DEF About
  <2>2. LastIn(due, About({"bct"}, x), Third(heap[x]))
    BY <1>10 DEF PanelsInv, HeapInv
  <2> QED
    BY <1>9, <2>1, <2>2, SilentSays DEF Follows
<1>19. \A i \in DOMAIN folk : i # -1 /\ i \in Numbers
  BY <1>1, Folks
<1>20. PlaceInv'
  <2> SUFFICES ASSUME NEW i \in DOMAIN folk PROVE LastIn(Coming', About({"ppo"}, i), Third(folk[i].tile))
    BY <1>1, <1>2, <1>19 DEF PlaceInv
  <2>1. Silent(line', About({"ppo"}, i))
    BY <1>12, <1>14 DEF About
  <2>2. LastIn(due, About({"ppo"}, i), Third(folk[i].tile))
    BY <1>10 DEF PanelsInv, PlaceInv
  <2> QED
    BY <1>9, <2>1, <2>2, SilentSays DEF Follows
<1>21. LevelInv'
  <2> SUFFICES ASSUME NEW i \in DOMAIN folk, ~Outdated(i)
               PROVE  /\ LastIn(Coming', About({"plv"}, i), Third(folk[i].level))
                      /\ FirstIn(Coming', About({"pnw"}, i), Third(folk[i].level))
    BY <1>1, <1>2, <1>4, <1>19 DEF LevelInv
  <2>1. Silent(line', About({"plv"}, i))
    BY <1>12, <1>14 DEF About
  <2>2. LastIn(due, About({"plv"}, i), Third(folk[i].level))
    BY UpToDate
  <2>3. ~Silent(line', About({"pnw"}, i))
    BY <1>12, <1>14, <1>15 DEF About
  <2>4. \A k \in K : k \in About({"pnw"}, i) => k \in Third(folk[i].level)
    BY <1>14, <1>15 DEF About, Third
  <2>5. m \notin About({"pnw"}, i)
    BY <1>14 DEF About
  <2>6. FirstIn(line', About({"pnw"}, i), Third(folk[i].level))
    BY <1>13, <2>4, <2>5
  <2>7. LastIn(line', About({"plv"}, i), Third(folk[i].level))
    BY <2>1, SilentSays
  <2> QED
    BY <1>9, <2>2, <2>3, <2>6, <2>7 DEF Follows
<1>22. OrderInv'
  <2> SUFFICES ASSUME NEW i \in DOMAIN folk PROVE OnlyAfter(Coming', About({"pnw"}, i), About({"plv"}, i))
    BY <1>2 DEF OrderInv
  <2>1. Silent(line', About({"plv"}, i))
    BY <1>12, <1>14 DEF About
  <2>2. ~Silent(line', About({"pnw"}, i))
    BY <1>12, <1>14, <1>15 DEF About
  <2> QED
    BY <1>9, <2>1, <2>2, SilentSays DEF Follows
<1>23. KnownInv'
  <2> SUFFICES ASSUME NEW i \in Numbers
               PROVE  /\ LastIn(Coming', About({"pnw", "pdi"}, i), Tagged(IF i \in DOMAIN folk THEN "pnw" ELSE "pdi"))
                      /\ Silent(Coming', About({"pnw", "pdi"}, i)) => i \notin DOMAIN folk
    BY <1>1, <1>2 DEF KnownInv
  <2> DEFINE A == About({"pnw", "pdi"}, i)
             V == Tagged(IF i \in DOMAIN folk THEN "pnw" ELSE "pdi")
  <2>1. \A k \in K : k \in A => k \in V
    BY <1>14, <1>15 DEF About, Tagged
  <2>2. m \notin A
    BY <1>14 DEF About
  <2>3. i \in DOMAIN folk => ~Silent(line', A)
    BY <1>12, <1>14, <1>15 DEF About
  <2>4. LastIn(due, A, V)
    BY <1>10 DEF PanelsInv, KnownInv
  <2> HIDE DEF A, V
  <2>5. LastIn(line', A, V)
    BY <1>13, <2>1, <2>2
  <2>6. LastIn(Coming', A, V) /\ (Silent(Coming', A) => i \notin DOMAIN folk)
    BY <1>9, <2>3, <2>4, <2>5 DEF Follows
  <2> QED
    BY <2>6 DEF A, V
<1>24. EggInv'
  <2> SUFFICES ASSUME NEW e \in EggsLaid
               PROVE  /\ LastIn(Coming', About({"enw", "ebo"}, e), Tagged(IF e \in laid THEN "enw" ELSE "ebo"))
                      /\ Silent(Coming', About({"enw", "ebo"}, e)) => e \notin laid
    BY <1>1, <1>2, <1>5 DEF EggInv
  <2> DEFINE A == About({"enw", "ebo"}, e)
             V == Tagged(IF e \in laid THEN "enw" ELSE "ebo")
  <2>1. \A k \in K : k \in A => k \in V
    BY <1>14, <1>15 DEF About, Tagged
  <2>2. m \notin A
    BY <1>14 DEF About
  <2>3. e \in laid => ~Silent(line', A)
    BY <1>12, <1>14, <1>15 DEF About
  <2>4. LastIn(due, A, V)
    BY <1>10 DEF PanelsInv, EggInv
  <2> HIDE DEF A, V
  <2>5. LastIn(line', A, V)
    BY <1>13, <2>1, <2>2
  <2>6. LastIn(Coming', A, V) /\ (Silent(Coming', A) => e \notin laid)
    BY <1>9, <2>3, <2>4, <2>5 DEF Follows
  <2> QED
    BY <2>6 DEF A, V
<1>25. SpeedInv'
  <2>1. m \in Speaks /\ m \in Second(freq) /\ \A k \in K : k \notin Speaks
    BY <1>14, <1>15 DEF Speaks, Second
  <2>2. LastIn(line', Speaks, Second(freq)) /\ ~Silent(line', Speaks)
    BY <1>12, <1>13, <2>1
  <2>3. LastIn(due, Speaks, Second(freq))
    BY SilentSays DEF PanelsInv, DueInv
  <2>4. LastIn(Coming', Speaks, Second(freq)) /\ ~Silent(Coming', Speaks)
    BY <1>9, <2>2, <2>3 DEF Follows
  <2> QED
    BY <1>2, <2>4 DEF SpeedInv
<1>26. FoodInv'
  <2> SUFFICES ASSUME NEW i \in DOMAIN folk PROVE LastIn(Coming', About({"pin"}, i), Third(folk[i].food))
    BY <1>1, <1>2, <1>19 DEF FoodInv
  <2>1. Silent(line', About({"pin"}, i))
    BY <1>12, <1>14 DEF About
  <2>2. LastIn(due, About({"pin"}, i), Third(folk[i].food))
    BY <1>10 DEF PanelsInv, FoodInv
  <2> QED
    BY <1>9, <2>1, <2>2, SilentSays DEF Follows
<1>27. ScanInv'
  <2> SUFFICES ASSUME NEW x \in Tiles \ story.stray
               PROVE  LastIn(Coming', About({"pic", "pie"}, x), Tagged(IF Ritual(x) THEN "pic" ELSE "pie"))
    BY <1>1, <1>2, <1>4 DEF ScanInv, Ritual, Tiles
  <2>1. Silent(line', About({"pic", "pie"}, x))
    BY <1>12, <1>14 DEF About
  <2>2. LastIn(due, About({"pic", "pie"}, x), Tagged(IF Ritual(x) THEN "pic" ELSE "pie"))
    BY <1>10 DEF PanelsInv, ScanInv
  <2> QED
    BY <1>9, <2>1, <2>2, SilentSays DEF Follows
<1> QED
  BY <1>11, <1>16, <1>17, <1>18, <1>20, <1>21, <1>22, <1>23, <1>24, <1>25, <1>26, <1>27 DEF PanelsInv

-----------------------------------------------------------------------------
(* A line is read.                                                         *)

Teams == [TeamsOf -> [population : Int, level8Count : Int]]

\* What is told of player i changes only what its team counts, by p and by q.
Recount(s, u, i, p, q) ==
    LET t == TeamOf[i] IN
    /\ u.team \in Teams /\ u.eggs = s.eggs
    /\ u.team[t].population = s.team[t].population + p
    /\ u.team[t].level8Count = s.team[t].level8Count + q
    /\ \A k \in TeamsOf : k # t => u.team[k] = s.team[k]

LEMMA PnwCounts ==
    ASSUME NEW L, NEW E, NEW s \in [level : L, team : Teams, eggs : E],
           NEW i, TeamOf[i] \in TeamsOf, i \notin DOMAIN s.level, NEW level \in Int,
           NEW u, u = OnPnwReceived(s, i, level)
    PROVE  /\ u.level = Entered(s.level, i, level)
           /\ Recount(s, u, i, 1, IF level >= VictoryLevel THEN 1 ELSE 0)
<1> DEFINE t == TeamOf[i]
           q == IF level >= VictoryLevel THEN 1 ELSE 0
           x == Entered(s.level, i, level)
<1>1. q \in Int /\ t \in TeamsOf
  OBVIOUS
<1>2. u = [s EXCEPT !.level = x, !.team[t].population = @ + 1, !.team[t].level8Count = @ + q]
  BY DEF OnPnwReceived
<1> HIDE DEF t, q, x
<1>3. u.level = x /\ u.eggs = s.eggs
      /\ u.team = [s.team EXCEPT ![t] = [population |-> @.population + 1, level8Count |-> @.level8Count + q]]
  BY <1>1, <1>2 DEF Teams
<1>4. s.team \in Teams
  OBVIOUS
<1>5. u.team \in Teams /\ u.team[t].population = s.team[t].population + 1
      /\ u.team[t].level8Count = s.team[t].level8Count + q /\ \A k \in TeamsOf : k # t => u.team[k] = s.team[k]
  BY ONLY <1>1, <1>3, <1>4 DEF Teams
<1> QED
  BY <1>3, <1>5 DEF Recount, t, q, x

LEMMA PlvCounts ==
    ASSUME NEW L, NEW E, NEW s \in [level : L, team : Teams, eggs : E],
           NEW i, TeamOf[i] \in TeamsOf, i \in DOMAIN s.level, NEW level \in Int,
           NEW u, u = OnPlvReceived(s, i, level)
    PROVE  /\ u.level = [s.level EXCEPT ![i] = level]
           /\ Recount(s, u, i, 0, IF level >= VictoryLevel /\ s.level[i] < VictoryLevel THEN 1 ELSE 0)
<1> DEFINE t == TeamOf[i]
           q == IF level >= VictoryLevel /\ s.level[i] < VictoryLevel THEN 1 ELSE 0
<1>1. q \in Int /\ t \in TeamsOf
  OBVIOUS
<1>2. u = [s EXCEPT !.level[i] = level, !.team[t].level8Count = @ + q]
  BY DEF OnPlvReceived
<1> HIDE DEF t, q
<1>3. u.level = [s.level EXCEPT ![i] = level] /\ u.eggs = s.eggs
      /\ u.team = [s.team EXCEPT ![t] = [population |-> @.population, level8Count |-> @.level8Count + q]]
  BY <1>1, <1>2 DEF Teams
<1>4. s.team \in Teams
  OBVIOUS
<1>5. u.team \in Teams /\ u.team[t].population = s.team[t].population + 0
      /\ u.team[t].level8Count = s.team[t].level8Count + q /\ \A k \in TeamsOf : k # t => u.team[k] = s.team[k]
  BY ONLY <1>1, <1>3, <1>4 DEF Teams
<1> QED
  BY <1>3, <1>5 DEF Recount, t, q

LEMMA PdiCounts ==
    ASSUME NEW L, NEW E, NEW s \in [level : L, team : Teams, eggs : E],
           NEW i, TeamOf[i] \in TeamsOf, i \in DOMAIN s.level,
           NEW u, u = OnPdiReceived(s, i)
    PROVE  /\ u.level = [j \in DOMAIN s.level \ {i} |-> s.level[j]]
           /\ Recount(s, u, i, -1, IF s.level[i] >= VictoryLevel THEN -1 ELSE 0)
<1> DEFINE t == TeamOf[i]
           q == IF s.level[i] >= VictoryLevel THEN 1 ELSE 0
           r == IF s.level[i] >= VictoryLevel THEN -1 ELSE 0
           x == [j \in DOMAIN s.level \ {i} |-> s.level[j]]
<1>1. q \in Int /\ r = -q /\ t \in TeamsOf
  OBVIOUS
<1>2. u = [s EXCEPT !.level = x, !.team[t].population = @ - 1, !.team[t].level8Count = @ - q]
  BY DEF OnPdiReceived
<1> HIDE DEF t, q, x, r
<1>3. u.level = x /\ u.eggs = s.eggs
      /\ u.team = [s.team EXCEPT ![t] = [population |-> @.population - 1, level8Count |-> @.level8Count - q]]
  BY <1>1, <1>2 DEF Teams
<1>4. s.team \in Teams
  OBVIOUS
<1>5. u.team \in Teams /\ u.team[t].population = s.team[t].population + -1
      /\ u.team[t].level8Count = s.team[t].level8Count + r /\ \A k \in TeamsOf : k # t => u.team[k] = s.team[k]
  BY ONLY <1>1, <1>3, <1>4 DEF Teams
<1> QED
  BY <1>3, <1>5 DEF Recount, t, r, x

\* How many a team has, and how many of them are at the last level.
Counted(s) ==
    \A t \in TeamsOf : s.team[t].population = Cardinality({i \in DOMAIN s.level : TeamOf[i] = t})

CountedRaised(s) ==
    \A t \in TeamsOf :
        s.team[t].level8Count = Cardinality({i \in DOMAIN s.level : TeamOf[i] = t /\ s.level[i] >= VictoryLevel})

\* One player more, one less or one at another level: each count changes by what it should.
LEMMA RecountRight ==
    ASSUME NEW s, NEW u, NEW i, NEW p, NEW q, Recount(s, u, i, p, q), s.team \in Teams,
           TeamOf[i] \in TeamsOf, IsFiniteSet(DOMAIN s.level),
           \A j : j # i => (j \in DOMAIN u.level <=> j \in DOMAIN s.level),
           \A j \in DOMAIN s.level : j # i => u.level[j] = s.level[j],
           p = (IF i \in DOMAIN s.level THEN IF i \in DOMAIN u.level THEN 0 ELSE -1
                ELSE IF i \in DOMAIN u.level THEN 1 ELSE 0)
    PROVE  /\ Counted(s) => Counted(u)
           /\ /\ CountedRaised(s)
              /\ q = (IF i \in DOMAIN s.level /\ s.level[i] >= VictoryLevel
                      THEN IF i \in DOMAIN u.level /\ u.level[i] >= VictoryLevel THEN 0 ELSE -1
                      ELSE IF i \in DOMAIN u.level /\ u.level[i] >= VictoryLevel THEN 1 ELSE 0)
              => CountedRaised(u)
<1> DEFINE A(t) == {j \in DOMAIN s.level : TeamOf[j] = t}
           B(t) == {j \in DOMAIN u.level : TeamOf[j] = t}
           C(t) == {j \in DOMAIN s.level : TeamOf[j] = t /\ s.level[j] >= VictoryLevel}
           D(t) == {j \in DOMAIN u.level : TeamOf[j] = t /\ u.level[j] >= VictoryLevel}
           k == TeamOf[i]
<1>1. \A t \in TeamsOf : IsFiniteSet(A(t)) /\ IsFiniteSet(C(t)) /\ Cardinality(A(t)) \in Nat /\ Cardinality(C(t)) \in Nat
  <2> TAKE t \in TeamsOf
  <2>1. A(t) \subseteq DOMAIN s.level /\ C(t) \subseteq DOMAIN s.level
    OBVIOUS
  <2> QED
    BY <2>1, FS_Subset, FS_CardinalityType
<1>2. \A t \in TeamsOf : t # k => B(t) = A(t) /\ D(t) = C(t)
  OBVIOUS
<1>3. A(k) \ {i} = B(k) \ {i} /\ C(k) \ {i} = D(k) \ {i}
  OBVIOUS
<1>4. /\ i \in A(k) <=> i \in DOMAIN s.level
      /\ i \in B(k) <=> i \in DOMAIN u.level
      /\ i \in C(k) <=> i \in DOMAIN s.level /\ s.level[i] >= VictoryLevel
      /\ i \in D(k) <=> i \in DOMAIN u.level /\ u.level[i] >= VictoryLevel
  OBVIOUS
<1>5. ASSUME NEW X, NEW Y, IsFiniteSet(X), X \ {i} = Y \ {i}
      PROVE  /\ i \in X /\ i \in Y => Cardinality(Y) = Cardinality(X)
             /\ i \in X /\ i \notin Y => Cardinality(Y) = Cardinality(X) - 1
             /\ i \notin X /\ i \in Y => Cardinality(Y) = Cardinality(X) + 1
             /\ i \notin X /\ i \notin Y => Cardinality(Y) = Cardinality(X)
  <2>1. CASE (i \in X <=> i \in Y)
    <3>1. X = Y
      BY <1>5, <2>1
    <3> QED
      BY <2>1, <3>1
  <2>2. CASE i \in X /\ i \notin Y
    <3>1. Y = X \ {i}
      BY <1>5, <2>2
    <3> QED
      BY <1>5, <2>2, <3>1, FS_RemoveElement
  <2>3. CASE i \notin X /\ i \in Y
    <3>1. Y = X \cup {i}
      BY <1>5, <2>3
    <3> QED
      BY <1>5, <2>3, <3>1, FS_AddElement
  <2> QED
    BY <2>1, <2>2, <2>3
<1> DEFINE a == A(k)
           b == B(k)
           c == C(k)
           d == D(k)
<1>6. /\ IsFiniteSet(a) /\ IsFiniteSet(c) /\ Cardinality(a) \in Nat /\ Cardinality(c) \in Nat
      /\ a \ {i} = b \ {i} /\ c \ {i} = d \ {i}
  BY <1>1, <1>3
<1>7. /\ i \in a <=> i \in DOMAIN s.level
      /\ i \in b <=> i \in DOMAIN u.level
      /\ i \in c <=> i \in DOMAIN s.level /\ s.level[i] >= VictoryLevel
      /\ i \in d <=> i \in DOMAIN u.level /\ u.level[i] >= VictoryLevel
  BY <1>4
<1>8. /\ u.team[k].population = s.team[k].population + p
      /\ u.team[k].level8Count = s.team[k].level8Count + q
      /\ \A t \in TeamsOf : t # k => u.team[t] = s.team[t]
      /\ s.team[k].population \in Int /\ s.team[k].level8Count \in Int
  BY DEF Recount, Teams
<1> HIDE DEF a, b, c, d
<1>9. Cardinality(b) = Cardinality(a) + p
  <2>1. p = IF i \in a THEN IF i \in b THEN 0 ELSE -1 ELSE IF i \in b THEN 1 ELSE 0
    BY <1>7
  <2> QED
    BY ONLY <1>5, <1>6, <2>1
<1>10. q = (IF i \in c THEN IF i \in d THEN 0 ELSE -1 ELSE IF i \in d THEN 1 ELSE 0)
       => Cardinality(d) = Cardinality(c) + q
  BY ONLY <1>5, <1>6
<1>11. ASSUME Counted(s) PROVE Counted(u)
  <2> SUFFICES ASSUME NEW t \in TeamsOf PROVE u.team[t].population = Cardinality(B(t))
    BY DEF Counted
  <2>1. \A x \in TeamsOf : s.team[x].population = Cardinality(A(x))
    BY <1>11 DEF Counted
  <2> HIDE DEF A, B, C, D, k
  <2>2. CASE t = k
    <3>1. s.team[k].population = Cardinality(a)
      BY <2>1, <2>2 DEF a
    <3>2. u.team[k].population = Cardinality(b)
      BY <1>8, <1>9, <3>1
    <3> QED
      BY <2>2, <3>2 DEF b
  <2>3. CASE t # k
    BY <1>2, <1>8, <2>1, <2>3
  <2> QED
    BY <2>2, <2>3
<1>12. ASSUME CountedRaised(s), q = (IF i \in c THEN IF i \in d THEN 0 ELSE -1 ELSE IF i \in d THEN 1 ELSE 0)
       PROVE  CountedRaised(u)
  <2> SUFFICES ASSUME NEW t \in TeamsOf PROVE u.team[t].level8Count = Cardinality(D(t))
    BY DEF CountedRaised
  <2>1. \A x \in TeamsOf : s.team[x].level8Count = Cardinality(C(x))
    BY <1>12 DEF CountedRaised
  <2> HIDE DEF A, B, C, D, k
  <2>2. CASE t = k
    <3>1. s.team[k].level8Count = Cardinality(c)
      BY <2>1, <2>2 DEF c
    <3>2. u.team[k].level8Count = Cardinality(d)
      BY <1>8, <1>10, <1>12, <3>1
    <3> QED
      BY <2>2, <3>2 DEF d
  <2>3. CASE t # k
    BY <1>2, <1>8, <2>1, <2>3
  <2> QED
    BY <2>2, <2>3
<1> QED
  BY <1>7, <1>11, <1>12

StatsAfter(m) ==
    /\ stats' \in [level : [DOMAIN stats'.level -> Int], eggs : SUBSET Int, team : Teams]
    /\ DOMAIN stats'.level \subseteq Hatched
    /\ \A i : i \in DOMAIN stats'.level <=>
              \/ i \in DOMAIN stats.level /\ ~(m[1] = "pdi" /\ m[2] = i)
              \/ m[1] = "pnw" /\ m[2] = i
    /\ \A i \in DOMAIN stats'.level :
          stats'.level[i] = IF m[2] = i /\ (m[1] = "plv" \/ (m[1] = "pnw" /\ i \notin DOMAIN stats.level))
                            THEN m[3] ELSE stats.level[i]
    /\ \A e : e \in stats'.eggs <=>
              \/ e \in stats.eggs /\ ~(m[1] = "ebo" /\ m[2] = e)
              \/ m[1] = "enw" /\ m[2] = e
    /\ Counted(stats) => Counted(stats')
    /\ CountedRaised(stats) /\ ~(m[1] = "plv" /\ m[2] \in DOMAIN stats.level /\ m[3] < stats.level[m[2]])
       => CountedRaised(stats')

LEMMA StatsRead == ASSUME PanelTypes, NEW m \in Sound, stats' = OnStats(m) PROVE StatsAfter(m)
<1> DEFINE i == m[2]
           L == [DOMAIN stats.level -> Int]
           known == DOMAIN stats.level
<1>1. m \in Msg /\ i \in Int /\ m[3] \in Int
  BY DEF Sound, Msg
<1>2. stats \in [level : L, team : Teams, eggs : SUBSET Int] /\ known \subseteq Hatched
      /\ stats.level \in L /\ stats.team \in Teams /\ stats.eggs \subseteq Int
  BY DEF PanelTypes, Teams
<1>3. Hatched \subseteq Numbers /\ IsFiniteSet(known)
  <2>1. Hatched \subseteq Numbers
    BY Folks
  <2> QED
    BY <1>2, <2>1, PanelConstants, FS_Subset
<1>4. m[1] \in Player => i \in Hatched /\ TeamOf[i] \in TeamsOf
  BY <1>3 DEF Sound, TeamsOf
<1> HIDE DEF i
<1>5. CASE stats' = stats /\ m[1] \notin {"enw", "ebo"} /\ (m[1] = "pnw" => i \in known) /\ (m[1] \in {"plv", "pdi"} => i \notin known)
  <2>1. \A j \in known : stats.level[j] \in Int
    BY <1>2
  <2> QED
    BY <1>2, <1>5 DEF StatsAfter, i
<1>6. CASE m[1] \in {"enw", "ebo"}
  <2> DEFINE eggs == IF m[1] = "enw" THEN stats.eggs \cup {i} ELSE stats.eggs \ {i}
  <2>1. stats' = [stats EXCEPT !.eggs = eggs]
    BY <1>6 DEF OnStats, i
  <2>2. eggs \subseteq Int
    BY <1>1, <1>2 DEF i
  <2> HIDE DEF eggs
  <2>3. stats'.level = stats.level /\ stats'.team = stats.team /\ stats'.eggs = eggs
        /\ stats' \in [level : L, team : Teams, eggs : SUBSET Int]
    BY ONLY <1>2, <2>1, <2>2
  <2>4. (Counted(stats) => Counted(stats')) /\ (CountedRaised(stats) => CountedRaised(stats'))
    BY <2>3 DEF Counted, CountedRaised
  <2>5. \A e : e \in stats'.eggs <=>
              \/ e \in stats.eggs /\ ~(m[1] = "ebo" /\ m[2] = e)
              \/ m[1] = "enw" /\ m[2] = e
    BY <1>6, <2>3 DEF eggs, i
  <2> QED
    BY <1>2, <1>6, <2>3, <2>4, <2>5 DEF StatsAfter
<1>7. CASE m[1] = "pnw" /\ i \notin known
  <2> DEFINE level == m[3]
             u == OnPnwReceived(stats, i, level)
             q == IF level >= VictoryLevel THEN 1 ELSE 0
  <2>1. stats' = u
    BY <1>7 DEF OnStats, i
  <2>2. u.level = Entered(stats.level, i, level) /\ Recount(stats, u, i, 1, q)
    BY <1>1, <1>2, <1>4, <1>7, PnwCounts DEF Player
  <2>3. u = [level |-> u.level, team |-> u.team, eggs |-> u.eggs]
    BY <1>2, <1>7 DEF OnPnwReceived
  <2> HIDE DEF u
  <2>4. DOMAIN u.level = known \cup {i} /\ u.level[i] = level /\ \A j \in known : j # i => u.level[j] = stats.level[j]
    <3>1. u.level = [j \in known \cup {i} |-> IF j = i THEN level ELSE stats.level[j]]
      BY <2>2 DEF Entered
    <3> HIDE DEF known, level
    <3> QED
      BY ONLY <3>1
  <2>5. u.level \in [DOMAIN u.level -> Int]
    <3>1. u.level = [j \in known \cup {i} |-> IF j = i THEN level ELSE stats.level[j]]
      BY <2>2 DEF Entered
    <3> QED
      BY <1>1, <1>2, <2>4, <3>1
  <2>6. u.team \in Teams /\ u.eggs = stats.eggs
    BY <2>2 DEF Recount
  <2>7. /\ Counted(stats) => Counted(u)
        /\ CountedRaised(stats) => CountedRaised(u)
    <3>1. 1 = (IF i \in known THEN IF i \in DOMAIN u.level THEN 0 ELSE -1
                ELSE IF i \in DOMAIN u.level THEN 1 ELSE 0)
      BY <1>7, <2>4
    <3>2. q = (IF i \in known /\ stats.level[i] >= VictoryLevel
                      THEN IF i \in DOMAIN u.level /\ u.level[i] >= VictoryLevel THEN 0 ELSE -1
                      ELSE IF i \in DOMAIN u.level /\ u.level[i] >= VictoryLevel THEN 1 ELSE 0)
      BY <1>7, <2>4
    <3> HIDE DEF q
    <3> DEFINE p == 1
    <3> HIDE DEF p
    <3>3. p = (IF i \in known THEN IF i \in DOMAIN u.level THEN 0 ELSE -1
                ELSE IF i \in DOMAIN u.level THEN 1 ELSE 0) /\ Recount(stats, u, i, p, q)
      BY <2>2, <3>1 DEF p
    <3> QED
      BY <1>2, <1>3, <1>4, <1>7, <2>4, <3>2, <3>3, RecountRight DEF Player
  <2>8. stats' \in [level : [DOMAIN stats'.level -> Int], eggs : SUBSET Int, team : Teams]
    BY <1>2, <2>1, <2>3, <2>5, <2>6
  <2> QED
    BY <1>2, <1>4, <1>7, <2>1, <2>4, <2>6, <2>7, <2>8 DEF StatsAfter, Player, i
<1>8. CASE m[1] = "plv" /\ i \in known
  <2> DEFINE level == m[3]
             u == OnPlvReceived(stats, i, level)
             q == IF level >= VictoryLevel /\ stats.level[i] < VictoryLevel THEN 1 ELSE 0
  <2>1. stats' = u
    BY <1>8 DEF OnStats, i
  <2>2. u.level = [stats.level EXCEPT ![i] = level] /\ Recount(stats, u, i, 0, q)
    BY <1>1, <1>2, <1>4, <1>8, PlvCounts DEF Player
  <2>3. u = [level |-> u.level, team |-> u.team, eggs |-> u.eggs]
    BY <1>2, <1>8 DEF OnPlvReceived
  <2> HIDE DEF u
  <2>4. DOMAIN u.level = known /\ u.level[i] = level /\ \A j \in known : j # i => u.level[j] = stats.level[j]
    BY <1>2, <1>8, <2>2
  <2>5. u.level \in [DOMAIN u.level -> Int]
    BY <1>1, <1>2, <2>2, <2>4
  <2>6. u.team \in Teams /\ u.eggs = stats.eggs
    BY <2>2 DEF Recount
  <2>7. /\ Counted(stats) => Counted(u)
        /\ CountedRaised(stats) /\ ~(level < stats.level[i]) => CountedRaised(u)
    <3>1. 0 = (IF i \in known THEN IF i \in DOMAIN u.level THEN 0 ELSE -1
                ELSE IF i \in DOMAIN u.level THEN 1 ELSE 0)
      BY <1>8, <2>4
    <3>2. ~(level < stats.level[i]) =>
          q = (IF i \in known /\ stats.level[i] >= VictoryLevel
                      THEN IF i \in DOMAIN u.level /\ u.level[i] >= VictoryLevel THEN 0 ELSE -1
                      ELSE IF i \in DOMAIN u.level /\ u.level[i] >= VictoryLevel THEN 1 ELSE 0)
      <4>1. stats.level[i] \in Int
        BY <1>2, <1>8
      <4> QED
        BY <1>1, <1>8, <2>4, <4>1 DEF VictoryLevel
    <3> HIDE DEF q
    <3> DEFINE p == 0
    <3> HIDE DEF p
    <3>3. p = (IF i \in known THEN IF i \in DOMAIN u.level THEN 0 ELSE -1
                ELSE IF i \in DOMAIN u.level THEN 1 ELSE 0) /\ Recount(stats, u, i, p, q)
      BY <2>2, <3>1 DEF p
    <3> QED
      BY <1>2, <1>3, <1>4, <1>8, <2>4, <3>2, <3>3, RecountRight DEF Player
  <2>8. stats' \in [level : [DOMAIN stats'.level -> Int], eggs : SUBSET Int, team : Teams]
    BY <1>2, <2>1, <2>3, <2>5, <2>6
  <2> QED
    BY <1>2, <1>4, <1>8, <2>1, <2>4, <2>6, <2>7, <2>8 DEF StatsAfter, Player, i
<1>9. CASE m[1] = "pdi" /\ i \in known
  <2> DEFINE u == OnPdiReceived(stats, i)
             q == IF stats.level[i] >= VictoryLevel THEN -1 ELSE 0
  <2>1. stats' = u
    BY <1>9 DEF OnStats, i
  <2>2. u.level = [j \in known \ {i} |-> stats.level[j]] /\ Recount(stats, u, i, -1, q)
    BY <1>1, <1>2, <1>4, <1>9, PdiCounts DEF Player
  <2>3. u = [level |-> u.level, team |-> u.team, eggs |-> u.eggs]
    BY <1>2, <1>9 DEF OnPdiReceived
  <2> HIDE DEF u
  <2>4. DOMAIN u.level = known \ {i} /\ \A j \in known : j # i => u.level[j] = stats.level[j]
    BY <2>2
  <2>5. u.level \in [DOMAIN u.level -> Int]
    BY <1>2, <2>2, <2>4
  <2>6. u.team \in Teams /\ u.eggs = stats.eggs
    BY <2>2 DEF Recount
  <2>7. /\ Counted(stats) => Counted(u)
        /\ CountedRaised(stats) => CountedRaised(u)
    <3>1. -1 = (IF i \in known THEN IF i \in DOMAIN u.level THEN 0 ELSE -1
                ELSE IF i \in DOMAIN u.level THEN 1 ELSE 0)
      BY <1>9, <2>4
    <3>2. q = (IF i \in known /\ stats.level[i] >= VictoryLevel
                      THEN IF i \in DOMAIN u.level /\ u.level[i] >= VictoryLevel THEN 0 ELSE -1
                      ELSE IF i \in DOMAIN u.level /\ u.level[i] >= VictoryLevel THEN 1 ELSE 0)
      BY <1>9, <2>4
    <3> HIDE DEF q
    <3> DEFINE p == -1
    <3> HIDE DEF p
    <3>3. p = (IF i \in known THEN IF i \in DOMAIN u.level THEN 0 ELSE -1
                ELSE IF i \in DOMAIN u.level THEN 1 ELSE 0) /\ Recount(stats, u, i, p, q)
      BY <2>2, <3>1 DEF p
    <3> QED
      BY <1>2, <1>3, <1>4, <1>9, <2>4, <3>2, <3>3, RecountRight DEF Player
  <2>8. stats' \in [level : [DOMAIN stats'.level -> Int], eggs : SUBSET Int, team : Teams]
    BY <1>2, <2>1, <2>3, <2>5, <2>6
  <2> QED
    BY <1>2, <1>4, <1>9, <2>1, <2>4, <2>6, <2>7, <2>8 DEF StatsAfter, Player, i
<1>10. \/ stats' = stats /\ m[1] \notin {"enw", "ebo"} /\ (m[1] = "pnw" => i \in known) /\ (m[1] \in {"plv", "pdi"} => i \notin known)
       \/ m[1] \in {"enw", "ebo"} \/ (m[1] = "pnw" /\ i \notin known)
       \/ (m[1] \in {"plv", "pdi"} /\ i \in known)
  BY DEF OnStats, OnPnwReceived, OnPlvReceived, OnPdiReceived, i
<1> QED
  BY <1>5, <1>6, <1>7, <1>8, <1>9, <1>10

LEMMA RowsRead ==
    ASSUME RowsInv, story.rows \in Seq(Msg), NEW m \in Msg, rows' = AddLogLine(rows, m),
           story'.rows = IF m[1] \in Logged THEN Append(story.rows, m) ELSE story.rows
    PROVE  RowsInv' /\ story'.rows \in Seq(Msg)
<1> DEFINE r == rows
           s == story.rows
           l == Len(r)
           k == Len(s)
           longer == Append(r, m)
           said == Append(s, m)
<1>1. CASE m[1] \notin Logged
  BY <1>1 DEF AddLogLine, RowsInv
<1>2. CASE m[1] \in Logged
  <2>1. r \in Seq(Msg) /\ s \in Seq(Msg) /\ l \in Nat /\ k \in Nat /\ k > 0
        /\ DOMAIN r = 1 .. l /\ DOMAIN s = 1 .. k
        /\ l = (IF k > MaxLogs THEN MaxLogs ELSE k) /\ \A n \in 1 .. l : r[n] = s[n + (k - l)]
    BY DEF RowsInv
  <2>2. MaxLogs \in Nat /\ MaxLogs > 0
    BY PanelConstants
  <2>3. /\ longer \in Seq(Msg) /\ Len(longer) = l + 1 /\ longer # <<>>
        /\ \A n \in 1 .. l : longer[n] = r[n]
        /\ longer[l + 1] = m
    BY <2>1, AppendProperties
  <2>4. /\ said \in Seq(Msg) /\ Len(said) = k + 1
        /\ \A n \in 1 .. k : said[n] = s[n]
        /\ said[k + 1] = m
    BY <2>1, AppendProperties
  <2>5. rows' = IF Len(longer) > MaxLogs THEN Tail(longer) ELSE longer
    BY <1>2 DEF AddLogLine
  <2>6. story'.rows = said
    BY <1>2
  <2> DEFINE tail == Tail(longer)
  <2>7. tail \in Seq(Msg) /\ Len(tail) = (l + 1) - 1 /\ \A n \in 1 .. Len(tail) : tail[n] = longer[n + 1]
    BY <2>3, HeadTailProperties
  <2> HIDE DEF r, s, l, k, longer, said, tail
  <2>8. CASE l + 1 > MaxLogs
    <3>1. l = MaxLogs /\ k >= MaxLogs /\ k + 1 > MaxLogs /\ Len(tail) = l
      BY <2>1, <2>2, <2>7, <2>8
    <3>2. ASSUME NEW n \in 1 .. l PROVE tail[n] = said[n + ((k + 1) - l)]
      <4>1. tail[n] = longer[n + 1]
        BY <2>7, <3>1
      <4>2. CASE n = l
        <5>1. n + ((k + 1) - l) = k + 1
          BY <2>1, <4>2
        <5> QED
          BY <2>3, <2>4, <4>1, <4>2, <5>1
      <4>3. CASE n # l
        <5>1. n + 1 \in 1 .. l /\ (n + 1) + (k - l) \in 1 .. k /\ n + ((k + 1) - l) = (n + 1) + (k - l)
          BY <2>1, <3>1, <4>3
        <5> QED
          BY <2>1, <2>3, <2>4, <4>1, <5>1
      <4> QED
        BY <4>2, <4>3
    <3>3. rows' = tail
      BY <2>3, <2>5, <2>8 DEF tail
    <3> QED
      <4>1. Len(said) > 0 /\ Len(tail) = (IF Len(said) > MaxLogs THEN MaxLogs ELSE Len(said))
        BY <2>1, <2>2, <2>4, <3>1
      <4>2. \A n \in 1 .. Len(tail) : tail[n] = said[n + (Len(said) - Len(tail))]
        BY <2>4, <3>1, <3>2
      <4> QED
        BY <2>4, <2>6, <2>7, <3>3, <4>1, <4>2 DEF RowsInv
  <2>9. CASE ~(l + 1 > MaxLogs)
    <3>1. l = k /\ ~(k + 1 > MaxLogs)
      BY <2>1, <2>2, <2>9
    <3>2. ASSUME NEW n \in 1 .. l + 1 PROVE longer[n] = said[n + ((k + 1) - (l + 1))]
      <4>1. n + ((k + 1) - (l + 1)) = n
        BY <2>1, <3>1
      <4>2. CASE n \in 1 .. l
        <5>1. n + (k - l) = n
          BY <2>1, <3>1
        <5> QED
          BY <2>1, <2>3, <2>4, <3>1, <4>1, <4>2, <5>1
      <4>3. CASE n \notin 1 .. l
        <5>1. n = l + 1
          BY <2>1, <4>3
        <5> QED
          BY <2>3, <2>4, <3>1, <4>1, <5>1
      <4> QED
        BY <4>2, <4>3
    <3>3. rows' = longer
      BY <2>3, <2>5, <2>9
    <3> QED
      <4>1. /\ Len(said) > 0 /\ Len(longer) = (IF Len(said) > MaxLogs THEN MaxLogs ELSE Len(said))
            /\ \A n \in 1 .. Len(longer) : longer[n] = said[n + (Len(said) - Len(longer))]
        BY <2>1, <2>3, <2>4, <3>1, <3>2
      <4> QED
        BY <2>3, <2>4, <2>6, <3>3, <4>1 DEF RowsInv
  <2> QED
    BY <2>1, <2>2, <2>8, <2>9
<1> QED
  BY <1>1, <1>2

\* The stream without its first line.
Got(m) ==
    /\ \A A : Silent(Coming, A) <=> m \notin A /\ Silent(Coming', A)
    /\ \A A, V : LastIn(Coming, A, V) => LastIn(Coming', A, V)
    /\ \A A, V : LastIn(Coming, A, V) /\ Silent(Coming', A) /\ m \in A => m \in V
    /\ \A A, V : FirstIn(Coming, A, V) => (m \in A => m \in V) /\ (m \notin A => FirstIn(Coming', A, V))
    /\ \A P, A : OnlyAfter(Coming, P, A) => m \notin A /\ (m \notin P => OnlyAfter(Coming', P, A))
    /\ \A G : OnlyFrom(Coming, G) => OnlyFrom(Coming', G) /\ m \in G

LEMMA GotIt ==
    ASSUME PanelTypes, line # <<>>, line' = Tail(line), due' = due
    PROVE  Head(line) \in Msg /\ line' \in Seq(Msg) /\ Got(Head(line))
<1> DEFINE m == Head(line)
           one == <<m>>
<1>1. line \in Seq(Msg) /\ due \in Seq(Msg) /\ line # <<>>
  BY DEF PanelTypes
<1>2. m \in Msg /\ line' \in Seq(Msg) /\ line = one \o line'
  <2>1. Head(line) \in Msg /\ Tail(line) \in Seq(Msg) /\ line = <<Head(line)>> \o Tail(line)
    BY ONLY <1>1, HeadAndTail
  <2>2. line' = Tail(line)
    OBVIOUS
  <2> QED
    BY ONLY <2>1, <2>2, Zenon DEF m, one
<1> HIDE DEF m
<1>3. one \in Seq(Msg) /\ Alone(m, one)
  BY ONLY <1>2, OneLine
<1> HIDE DEF one
<1>4. Coming = one \o (line' \o due)
  <2>1. (one \o line') \o due = one \o (line' \o due)
    BY ONLY <1>1, <1>2, <1>3, Regrouped, Zenon
  <2>2. Coming = (one \o line') \o due
    BY ONLY <1>2, Zenon DEF Coming
  <2> QED
    BY ONLY <2>1, <2>2, Zenon
<1>5. Coming' = line' \o due /\ Coming' \in Seq(Msg)
  BY <1>1, <1>2, Concatenated DEF Coming
<1>6. Coming = one \o Coming'
  BY <1>4, <1>5
<1>7. Follows(one, Coming', Coming)
  BY ONLY <1>3, <1>5, <1>6, Concatenated
<1>8. \A A : Silent(Coming, A) <=> m \notin A /\ Silent(Coming', A)
  BY <1>3, <1>7 DEF Follows, Alone
<1>9. \A A, V : LastIn(Coming, A, V) => LastIn(Coming', A, V)
  BY <1>3, <1>7 DEF Follows, Alone
<1>10. \A A, V : LastIn(Coming, A, V) /\ Silent(Coming', A) /\ m \in A => m \in V
  BY <1>3, <1>7 DEF Follows, Alone
<1>11. \A A, V : FirstIn(Coming, A, V) => (m \in A => m \in V) /\ (m \notin A => FirstIn(Coming', A, V))
  BY <1>3, <1>7 DEF Follows, Alone
<1>12. \A P, A : OnlyAfter(Coming, P, A) => m \notin A /\ (m \notin P => OnlyAfter(Coming', P, A))
  BY <1>3, <1>7 DEF Follows, Alone
<1>13. \A G : OnlyFrom(Coming, G) => OnlyFrom(Coming', G) /\ m \in G
  BY <1>3, <1>7 DEF Follows, Alone
<1>14. Got(m)
  BY <1>8, <1>9, <1>10, <1>11, <1>12, <1>13 DEF Got
<1> QED
  BY <1>2, <1>14 DEF m

LEMMA ReadTypes ==
    ASSUME PanelsInv, NEW m \in Sound, sheet' = OnPlayerSheet(m), tile' = OnTileInspector(m), slider' = OnSpeed(m)
    PROVE  /\ sheet' \in Sheets /\ sheet'.id = sheet.id
           /\ sheet'.level = (IF m[1] = "plv" /\ m[2] = sheet.id THEN m[3] ELSE sheet.level)
           /\ sheet'.tile = (IF m[1] = "ppo" /\ m[2] = sheet.id THEN m[3] ELSE sheet.tile)
           /\ sheet'.food = (IF m[1] = "pin" /\ m[2] = sheet.id THEN 2 * m[3] ELSE sheet.food)
           /\ sheet'.fell = (IF m[1] = "pin" /\ m[2] = sheet.id THEN 0 ELSE sheet.fell)
           /\ tile' \in Scanned /\ tile'.at = tile.at
           /\ tile'.heap = (IF m[1] = "bct" /\ m[2] = tile.at THEN m[3] ELSE tile.heap)
           /\ tile'.ritual = (IF m[1] \in {"pic", "pie"} /\ m[2] = tile.at THEN m[1] = "pic" ELSE tile.ritual)
           /\ slider' \in [knob : Speeds, text : Speeds, held : BOOLEAN] /\ slider'.held = slider.held
           /\ m \in Speaks => slider'.text = m[2] /\ (slider.held \/ slider'.knob = Clamped(m[2]))
           /\ m \notin Speaks => slider' = slider
<1>1. /\ sheet \in Sheets
      /\ tile \in Scanned
      /\ slider \in [knob : Speeds, text : Speeds, held : BOOLEAN]
  BY DEF PanelsInv, PanelTypes
<1>2. m[3] \in Int /\ m \in Msg /\ (m[1] = "pin" => m[3] \in Nat) /\ (m[1] \in {"sgt", "sst"} => m[2] \in Speeds)
  BY DEF Sound, Msg
<1>3. m \in Speaks <=> m[1] \in {"sgt", "sst"}
  BY <1>2 DEF Speaks
<1>4. /\ sheet' \in Sheets /\ sheet'.id = sheet.id
      /\ sheet'.level = (IF m[1] = "plv" /\ m[2] = sheet.id THEN m[3] ELSE sheet.level)
      /\ sheet'.tile = (IF m[1] = "ppo" /\ m[2] = sheet.id THEN m[3] ELSE sheet.tile)
      /\ sheet'.food = (IF m[1] = "pin" /\ m[2] = sheet.id THEN 2 * m[3] ELSE sheet.food)
      /\ sheet'.fell = (IF m[1] = "pin" /\ m[2] = sheet.id THEN 0 ELSE sheet.fell)
  <2>1. sheet' = IF m[2] # sheet.id THEN sheet
                 ELSE IF m[1] = "pin" THEN [sheet EXCEPT !.food = 2 * m[3], !.fell = 0]
                 ELSE IF m[1] = "plv" THEN [sheet EXCEPT !.level = m[3]]
                 ELSE IF m[1] = "ppo" THEN [sheet EXCEPT !.tile = m[3]] ELSE sheet
    BY DEF OnPlayerSheet
  <2> DEFINE n == 2 * m[3]
  <2>2. m[1] = "pin" => n \in Nat
    BY <1>2
  <2>3. sheet' = IF m[2] # sheet.id THEN sheet
                 ELSE IF m[1] = "pin" THEN [sheet EXCEPT !.food = n, !.fell = 0]
                 ELSE IF m[1] = "plv" THEN [sheet EXCEPT !.level = m[3]]
                 ELSE IF m[1] = "ppo" THEN [sheet EXCEPT !.tile = m[3]] ELSE sheet
    BY <2>1
  <2> HIDE DEF n
  <2>4. /\ sheet' \in Sheets /\ sheet'.id = sheet.id
        /\ sheet'.level = (IF m[1] = "plv" /\ m[2] = sheet.id THEN m[3] ELSE sheet.level)
        /\ sheet'.tile = (IF m[1] = "ppo" /\ m[2] = sheet.id THEN m[3] ELSE sheet.tile)
        /\ sheet'.food = (IF m[1] = "pin" /\ m[2] = sheet.id THEN n ELSE sheet.food)
        /\ sheet'.fell = (IF m[1] = "pin" /\ m[2] = sheet.id THEN 0 ELSE sheet.fell)
    BY ONLY <1>1, <1>2, <2>2, <2>3 DEF Sheets
  <2> QED
    BY <2>4 DEF n
<1>5. /\ tile' \in Scanned /\ tile'.at = tile.at
      /\ tile'.heap = (IF m[1] = "bct" /\ m[2] = tile.at THEN m[3] ELSE tile.heap)
      /\ tile'.ritual = (IF m[1] \in {"pic", "pie"} /\ m[2] = tile.at THEN m[1] = "pic" ELSE tile.ritual)
  <2>1. tile' = IF m[2] # tile.at THEN tile
                ELSE IF m[1] = "bct" THEN [tile EXCEPT !.heap = m[3]]
                ELSE IF m[1] = "pic" THEN [tile EXCEPT !.ritual = TRUE]
                ELSE IF m[1] = "pie" THEN [tile EXCEPT !.ritual = FALSE] ELSE tile
    BY DEF OnTileInspector
  <2> QED
    BY ONLY <1>1, <1>2, <2>1 DEF Scanned
<1>6. CASE m \notin Speaks
  BY <1>1, <1>3, <1>4, <1>5, <1>6 DEF OnSpeed
<1>7. CASE m \in Speaks
  <2> DEFINE k == IF slider.held THEN slider.knob ELSE Clamped(m[2])
  <2>1. slider' = [slider EXCEPT !.text = m[2], !.knob = k]
    BY <1>3, <1>7 DEF OnSpeed
  <2>2. m[2] \in Speeds
    BY <1>2, <1>3, <1>7
  <2>3. Clamped(m[2]) \in Speeds
    BY <2>2, PanelConstants DEF Clamped
  <2>4. slider.knob \in Speeds
    BY <1>1
  <2>5. k \in Speeds
    BY <2>3, <2>4
  <2>6. slider.held \/ k = Clamped(m[2])
    BY Zenon
  <2> HIDE DEF k
  <2>7. /\ slider' \in [knob : Speeds, text : Speeds, held : BOOLEAN] /\ slider'.held = slider.held
        /\ slider'.text = m[2] /\ slider'.knob = k
    BY ONLY <1>1, <2>1, <2>2, <2>5
  <2> QED
    BY <1>4, <1>5, <1>7, <2>6, <2>7
<1> QED
  BY <1>6, <1>7

LEMMA ReadKeeps == ASSUME PanelsInv, ReadLine PROVE PanelsInv'
<1> DEFINE m == Head(line)
<1>1. PanelTypes /\ line # <<>> /\ line' = Tail(line)
  BY DEF PanelsInv, ReadLine
<1>2. UNCHANGED <<folk, laid, heap, rites, freq, due, asked, done>>
  BY DEF ReadLine, server
<1>3. m \in Msg /\ line' \in Seq(Msg) /\ Got(m)
  BY <1>1, <1>2, GotIt
<1>4. /\ sheet' = OnPlayerSheet(m) /\ tile' = OnTileInspector(m) /\ stats' = OnStats(m)
      /\ rows' = AddLogLine(rows, m) /\ slider' = OnSpeed(m)
  BY DEF ReadLine
<1>5. done.joined
  BY <1>1 DEF PanelsInv, AloneInv
<1>6. /\ story'.newId = story.newId /\ story'.newEgg = story.newEgg /\ story'.followers = story.followers
      /\ story'.givenUp = story.givenUp
      /\ story'.rows = (IF m[1] \in Logged THEN Append(story.rows, m) ELSE story.rows)
      /\ story'.late = (story.late \/ (m[1] = "plv" /\ m[2] \in DOMAIN stats.level /\ m[3] < stats.level[m[2]]))
      /\ story'.heard = (story.heard \/ (m[1] \in {"pic", "pie"} /\ m[2] = tile.at))
      /\ story'.stray = story.stray /\ story \in Stories
  <2>1. story \in Stories
    BY <1>1 DEF PanelTypes, Stories
  <2> DEFINE r == IF m[1] \in Logged THEN Append(story.rows, m) ELSE story.rows
             tardy == story.late \/ (m[1] = "plv" /\ m[2] \in DOMAIN stats.level /\ m[3] < stats.level[m[2]])
             hears == story.heard \/ (m[1] \in {"pic", "pie"} /\ m[2] = tile.at)
  <2>2. story' = [story EXCEPT !.rows = r, !.heard = hears, !.late = tardy]
    BY DEF ReadLine
  <2> HIDE DEF r, tardy, hears
  <2>3. /\ story'.newId = story.newId /\ story'.newEgg = story.newEgg /\ story'.followers = story.followers
        /\ story'.givenUp = story.givenUp /\ story'.rows = r /\ story'.late = tardy
        /\ story'.heard = hears /\ story'.stray = story.stray
    BY ONLY <2>1, <2>2 DEF Stories
  <2> QED
    BY <2>1, <2>3 DEF r, tardy, hears
<1> HIDE DEF m
<1>7. Hatched' = Hatched /\ EggsLaid' = EggsLaid
  BY <1>6 DEF Hatched, EggsLaid
<1>8. Sound' = Sound
  BY <1>2, <1>7 DEF Sound
<1>9. m \in Sound /\ ComingInv'
  BY <1>3, <1>8 DEF Got, PanelsInv, ComingInv
<1>10. StatsAfter(m)
  BY <1>1, <1>4, <1>9, StatsRead
<1>11. /\ sheet' \in Sheets /\ sheet'.id = sheet.id
       /\ sheet'.level = (IF m[1] = "plv" /\ m[2] = sheet.id THEN m[3] ELSE sheet.level)
       /\ sheet'.tile = (IF m[1] = "ppo" /\ m[2] = sheet.id THEN m[3] ELSE sheet.tile)
       /\ sheet'.food = (IF m[1] = "pin" /\ m[2] = sheet.id THEN 2 * m[3] ELSE sheet.food)
       /\ sheet'.fell = (IF m[1] = "pin" /\ m[2] = sheet.id THEN 0 ELSE sheet.fell)
       /\ tile' \in Scanned /\ tile'.at = tile.at
       /\ tile'.heap = (IF m[1] = "bct" /\ m[2] = tile.at THEN m[3] ELSE tile.heap)
       /\ tile'.ritual = (IF m[1] \in {"pic", "pie"} /\ m[2] = tile.at THEN m[1] = "pic" ELSE tile.ritual)
       /\ slider' \in [knob : Speeds, text : Speeds, held : BOOLEAN] /\ slider'.held = slider.held
       /\ m \in Speaks => slider'.text = m[2] /\ (slider.held \/ slider'.knob = Clamped(m[2]))
       /\ m \notin Speaks => slider' = slider
  BY <1>4, <1>9, ReadTypes
<1>12. RowsInv' /\ story'.rows \in Seq(Msg)
  <2>1. story.rows \in Seq(Msg)
    BY <1>6 DEF Stories
  <2> QED
    BY <1>3, <1>4, <1>6, <2>1, RowsRead DEF PanelsInv
<1>13. story' \in Stories
  <2> DEFINE r == story'.rows
             tardy == story'.late
             hears == story'.heard
  <2>1. story \in Stories /\ tardy \in BOOLEAN /\ hears \in BOOLEAN
    <3>1. story \in Stories /\ story.late \in BOOLEAN /\ story.heard \in BOOLEAN
      BY <1>6 DEF Stories
    <3> QED
      BY <1>6, <3>1
  <2>2. story' = [story EXCEPT !.rows = r, !.heard = hears, !.late = tardy]
    BY <1>6 DEF ReadLine, m
  <2>3. r \in Seq(Msg)
    BY <1>12
  <2> HIDE DEF r, tardy, hears
  <2> QED
    BY ONLY <2>1, <2>2, <2>3 DEF Stories
<1>14. PanelTypes'
  <2>1. /\ stats' \in [level : [DOMAIN stats'.level -> Int], eggs : SUBSET Int, team : Teams]
        /\ DOMAIN stats'.level \subseteq Hatched
    BY <1>10 DEF StatsAfter
  <2>2. stats'.eggs \subseteq EggsLaid
    <3>1. stats.eggs \subseteq EggsLaid /\ (m[1] = "enw" => m[2] \in EggsLaid)
      BY <1>1, <1>9 DEF PanelTypes, Sound
    <3>2. \A e \in stats'.eggs : e \in stats.eggs \/ (m[1] = "enw" /\ m[2] = e)
      BY <1>10 DEF StatsAfter
    <3> QED
      BY ONLY <3>1, <3>2
  <2> QED
    BY <1>1, <1>2, <1>3, <1>7, <1>11, <1>13, <2>1, <2>2 DEF PanelTypes, Sheets, Teams
<1>15. AloneInv' /\ DueInv'
  BY <1>2, <1>5 DEF AloneInv, PanelsInv, DueInv
<1>16. \A i : i \in DOMAIN stats'.level <=>
              \/ i \in DOMAIN stats.level /\ ~(m[1] = "pdi" /\ m[2] = i)
              \/ m[1] = "pnw" /\ m[2] = i
  BY <1>10 DEF StatsAfter
<1>17. m[1] = "pdi" => m[2] \notin DOMAIN folk
  BY <1>9 DEF Sound
<1>18. AskedInv'
  <2>1. Askable \subseteq Askable'
    BY <1>2, <1>7, <1>16, <1>17 DEF Askable
  <2> QED
    BY <1>2, <2>1 DEF PanelsInv, AskedInv, OnlyFrom
<1>19. HeapInv'
  <2> SUFFICES ASSUME NEW x \in Tiles
               PROVE  /\ LastIn(Coming', About({"bct"}, x), Third(heap[x]))
                      /\ Silent(Coming', About({"bct"}, x)) /\ tile.at = x =>
                            tile'.heap = heap[x] \/ Asks(<<"bct", x, 0>>)
    BY <1>2, <1>11 DEF HeapInv, Asks
  <2>1. m \in About({"bct"}, x) <=> m[1] = "bct" /\ m[2] = x
    BY <1>3 DEF About
  <2>2. m \in Third(heap[x]) <=> m[3] = heap[x]
    BY <1>3 DEF Third
  <2> QED
    BY <1>3, <1>11, <2>1, <2>2 DEF Got, PanelsInv, HeapInv
<1>20. PlaceInv'
  <2> SUFFICES ASSUME NEW i \in DOMAIN folk
               PROVE  /\ LastIn(Coming', About({"ppo"}, i), Third(folk[i].tile))
                      /\ Silent(Coming', About({"ppo"}, i)) /\ sheet.id = i =>
                            sheet'.tile = folk[i].tile \/ Asks(<<"ppo", i, 0>>)
    BY <1>2, <1>11 DEF PlaceInv, Asks
  <2>1. m \in About({"ppo"}, i) <=> m[1] = "ppo" /\ m[2] = i
    BY <1>3 DEF About
  <2>2. m \in Third(folk[i].tile) <=> m[3] = folk[i].tile
    BY <1>3 DEF Third
  <2> QED
    BY <1>3, <1>11, <2>1, <2>2 DEF Got, PanelsInv, PlaceInv
<1>21. LevelInv'
  <2> SUFFICES ASSUME NEW i \in DOMAIN folk, i \notin story.followers
               PROVE  /\ LastIn(Coming', About({"plv"}, i), Third(folk[i].level))
                      /\ Silent(Coming', About({"plv"}, i)) =>
                            /\ sheet.id = i => sheet'.level = folk[i].level \/ Asks(<<"plv", i, 0>>)
                            /\ i \in DOMAIN stats'.level => stats'.level[i] = folk[i].level
                            /\ i \notin DOMAIN stats'.level =>
                                  FirstIn(Coming', About({"pnw"}, i), Third(folk[i].level))
    BY <1>2, <1>6, <1>11 DEF LevelInv, Asks
  <2> DEFINE A == About({"plv"}, i)
             N == About({"pnw"}, i)
             V == Third(folk[i].level)
  <2>1. (m \in A <=> m[1] = "plv" /\ m[2] = i) /\ (m \in N <=> m[1] = "pnw" /\ m[2] = i)
    BY <1>3 DEF About
  <2>2. m \in V <=> m[3] = folk[i].level
    BY <1>3 DEF Third
  <2>3. /\ LastIn(Coming, A, V)
        /\ Silent(Coming, A) =>
              /\ sheet.id = i => sheet.level = folk[i].level \/ Asks(<<"plv", i, 0>>)
              /\ i \in DOMAIN stats.level => stats.level[i] = folk[i].level
              /\ i \notin DOMAIN stats.level => FirstIn(Coming, N, V)
    BY <1>5 DEF PanelsInv, LevelInv
  <2>4. i \notin DOMAIN stats.level => m \notin A
    BY <1>3, <1>5 DEF PanelsInv, OrderInv, Got
  <2> HIDE DEF A, N, V
  <2>5. LastIn(Coming', A, V) /\ (Silent(Coming', A) /\ m \in A => m[3] = folk[i].level)
        /\ (Silent(Coming', A) /\ m \notin A => Silent(Coming, A))
    BY <1>3, <2>2, <2>3 DEF Got
  <2>6. i \in DOMAIN stats'.level =>
        stats'.level[i] = IF m[2] = i /\ (m[1] = "plv" \/ (m[1] = "pnw" /\ i \notin DOMAIN stats.level))
                          THEN m[3] ELSE stats.level[i]
    BY <1>10 DEF StatsAfter
  <2>7. i \in DOMAIN stats'.level <=> i \in DOMAIN stats.level \/ (m[1] = "pnw" /\ m[2] = i)
    BY <1>16, <1>17
  <2>8. FirstIn(Coming, N, V) => (m \in N => m[3] = folk[i].level) /\ (m \notin N => FirstIn(Coming', N, V))
    BY <1>3, <2>2 DEF Got
  <2>9. ASSUME Silent(Coming', A), sheet.id = i
        PROVE  sheet'.level = folk[i].level \/ Asks(<<"plv", i, 0>>)
    BY <1>11, <2>1, <2>3, <2>5, <2>9
  <2>10. ASSUME Silent(Coming', A), i \in DOMAIN stats'.level
         PROVE  stats'.level[i] = folk[i].level
    BY <2>1, <2>3, <2>4, <2>5, <2>6, <2>7, <2>8, <2>10
  <2>11. ASSUME Silent(Coming', A), i \notin DOMAIN stats'.level
         PROVE  FirstIn(Coming', N, V)
    BY <2>1, <2>3, <2>4, <2>5, <2>7, <2>8, <2>11
  <2> QED
    BY <2>5, <2>9, <2>10, <2>11 DEF A, N, V
<1>22. OrderInv'
  <2> SUFFICES ASSUME NEW i \in DOMAIN folk, i \notin DOMAIN stats'.level
               PROVE  OnlyAfter(Coming', About({"pnw"}, i), About({"plv"}, i))
    BY <1>2 DEF OrderInv
  <2>1. i \notin DOMAIN stats.level /\ ~(m[1] = "pnw" /\ m[2] = i)
    BY <1>16, <1>17
  <2>2. m \notin About({"pnw"}, i)
    BY <2>1 DEF About
  <2> QED
    BY <1>3, <1>5, <2>1, <2>2 DEF Got, PanelsInv, OrderInv
<1>23. KnownInv'
  <2> SUFFICES ASSUME NEW i \in Numbers
               PROVE  /\ LastIn(Coming', About({"pnw", "pdi"}, i), Tagged(IF i \in DOMAIN folk THEN "pnw" ELSE "pdi"))
                      /\ Silent(Coming', About({"pnw", "pdi"}, i)) => (i \in DOMAIN stats'.level <=> i \in DOMAIN folk)
    BY <1>2 DEF KnownInv
  <2> DEFINE A == About({"pnw", "pdi"}, i)
             V == Tagged(IF i \in DOMAIN folk THEN "pnw" ELSE "pdi")
  <2>1. m \in A <=> m[1] \in {"pnw", "pdi"} /\ m[2] = i
    BY <1>3 DEF About
  <2>2. m \in V => m[1] = (IF i \in DOMAIN folk THEN "pnw" ELSE "pdi")
    BY DEF Tagged
  <2>3. LastIn(Coming, A, V) /\ (Silent(Coming, A) => (i \in DOMAIN stats.level <=> i \in DOMAIN folk))
    BY <1>5 DEF PanelsInv, KnownInv
  <2> HIDE DEF A, V
  <2>4. LastIn(Coming', A, V) /\ (Silent(Coming', A) /\ m \in A => m \in V)
        /\ (Silent(Coming', A) /\ m \notin A => Silent(Coming, A))
    BY <1>3, <2>3 DEF Got
  <2>5. Silent(Coming', A) => (i \in DOMAIN stats'.level <=> i \in DOMAIN folk)
    BY <1>16, <2>1, <2>2, <2>3, <2>4
  <2> QED
    BY <2>4, <2>5 DEF A, V
<1>24. EggInv'
  <2> SUFFICES ASSUME NEW e \in EggsLaid
               PROVE  /\ LastIn(Coming', About({"enw", "ebo"}, e), Tagged(IF e \in laid THEN "enw" ELSE "ebo"))
                      /\ Silent(Coming', About({"enw", "ebo"}, e)) => (e \in stats'.eggs <=> e \in laid)
    BY <1>2, <1>7 DEF EggInv
  <2> DEFINE A == About({"enw", "ebo"}, e)
             V == Tagged(IF e \in laid THEN "enw" ELSE "ebo")
  <2>1. m \in A <=> m[1] \in {"enw", "ebo"} /\ m[2] = e
    BY <1>3 DEF About
  <2>2. m \in V => m[1] = (IF e \in laid THEN "enw" ELSE "ebo")
    BY DEF Tagged
  <2>3. LastIn(Coming, A, V) /\ (Silent(Coming, A) => (e \in stats.eggs <=> e \in laid))
    BY <1>5 DEF PanelsInv, EggInv
  <2>4. e \in stats'.eggs <=>
              \/ e \in stats.eggs /\ ~(m[1] = "ebo" /\ m[2] = e)
              \/ m[1] = "enw" /\ m[2] = e
    BY <1>10 DEF StatsAfter
  <2> HIDE DEF A, V
  <2>5. LastIn(Coming', A, V) /\ (Silent(Coming', A) /\ m \in A => m \in V)
        /\ (Silent(Coming', A) /\ m \notin A => Silent(Coming, A))
    BY <1>3, <2>3 DEF Got
  <2>6. Silent(Coming', A) => (e \in stats'.eggs <=> e \in laid)
    BY <2>1, <2>2, <2>3, <2>4, <2>5
  <2> QED
    BY <2>5, <2>6 DEF A, V
<1>25. SpeedInv'
  <2> SUFFICES ASSUME Silent(asked, Tagged("sst"))
               PROVE  /\ LastIn(Coming', Speaks, Second(freq))
                      /\ Silent(Coming', Speaks) =>
                           slider'.held \/ story'.givenUp \/ (slider'.text = freq /\ slider'.knob = Clamped(freq))
    BY <1>2 DEF SpeedInv, Clamped
  <2>1. /\ LastIn(Coming, Speaks, Second(freq))
        /\ Silent(Coming, Speaks) => slider.held \/ story.givenUp \/ (slider.text = freq /\ slider.knob = Clamped(freq))
    BY <1>5 DEF PanelsInv, SpeedInv
  <2>2. m \in Second(freq) => m[2] = freq
    BY DEF Second
  <2>3. CASE m \in Speaks
    BY <1>3, <1>11, <2>1, <2>2, <2>3 DEF Got
  <2>4. CASE m \notin Speaks
    BY <1>3, <1>6, <1>11, <2>1, <2>4 DEF Got
  <2> QED
    BY <2>3, <2>4
<1>26. CountInv'
  <2>1. Counted(stats) /\ (~story.late => CountedRaised(stats))
    BY DEF PanelsInv, CountInv, Counted, CountedRaised, Mates, Raised
  <2>2. Counted(stats') /\ (~story'.late => CountedRaised(stats'))
    BY <1>6, <1>10, <2>1 DEF StatsAfter
  <2> QED
    BY <2>2 DEF CountInv, Counted, CountedRaised, Mates, Raised
<1>27. FoodInv'
  <2> SUFFICES ASSUME NEW i \in DOMAIN folk
               PROVE  /\ LastIn(Coming', About({"pin"}, i), Third(folk[i].food))
                      /\ Silent(Coming', About({"pin"}, i)) /\ sheet.id = i =>
                            sheet'.food + sheet'.fell = 2 * folk[i].food \/ Asks(<<"pin", i, 0>>)
    BY <1>2, <1>11 DEF FoodInv, Asks
  <2>1. m \in About({"pin"}, i) <=> m[1] = "pin" /\ m[2] = i
    BY <1>3 DEF About
  <2>2. m \in Third(folk[i].food) <=> m[3] = folk[i].food
    BY <1>3 DEF Third
  <2>3. LastIn(Coming', About({"pin"}, i), Third(folk[i].food))
    BY <1>3 DEF Got, PanelsInv, FoodInv
  <2>4. ASSUME Silent(Coming', About({"pin"}, i)), sheet.id = i, m[1] = "pin", m[2] = i
        PROVE  sheet'.food + sheet'.fell = 2 * folk[i].food
    <3>1. m[3] = folk[i].food
      BY <1>3, <2>1, <2>2, <2>4 DEF Got, PanelsInv, FoodInv
    <3>2. sheet'.food = 2 * m[3] /\ sheet'.fell = 0
      BY <1>11, <2>4
    <3>3. m[3] \in Int
      BY <1>3 DEF Msg
    <3> DEFINE n == m[3]
    <3> HIDE DEF n
    <3>4. n \in Int => 2 * n + 0 = 2 * n
      OBVIOUS
    <3> QED
      BY <3>1, <3>2, <3>3, <3>4 DEF n
  <2>5. ASSUME Silent(Coming', About({"pin"}, i)), sheet.id = i, ~(m[1] = "pin" /\ m[2] = i)
        PROVE  sheet'.food + sheet'.fell = 2 * folk[i].food \/ Asks(<<"pin", i, 0>>)
    <3>1. sheet'.food = sheet.food /\ sheet'.fell = sheet.fell
      BY <1>11, <2>5
    <3> QED
      BY <1>3, <2>1, <2>5, <3>1 DEF Got, PanelsInv, FoodInv
  <2> QED
    BY <2>3, <2>4, <2>5
<1>28. RitesInv' /\ ScanInv'
  <2>1. RitesInv'
    BY <1>2, <1>6 DEF PanelsInv, RitesInv
  <2>2. SUFFICES ASSUME NEW x \in Tiles \ story.stray
                 PROVE  /\ LastIn(Coming', About({"pic", "pie"}, x), Tagged(IF Ritual(x) THEN "pic" ELSE "pie"))
                        /\ Silent(Coming', About({"pic", "pie"}, x)) /\ tile.at = x /\ story'.heard =>
                              (tile'.ritual <=> Ritual(x))
    <3>1. \A x : Ritual(x)' <=> Ritual(x)
      BY <1>2 DEF Ritual
    <3> QED
      BY <1>6, <1>11, <2>1, <3>1 DEF ScanInv
  <2> DEFINE A == About({"pic", "pie"}, x)
             V == Tagged(IF Ritual(x) THEN "pic" ELSE "pie")
  <2>3. m \in A <=> m[1] \in {"pic", "pie"} /\ m[2] = x
    BY <1>3 DEF About
  <2>4. m \in V => m[1] = (IF Ritual(x) THEN "pic" ELSE "pie")
    BY DEF Tagged
  <2>5. /\ LastIn(Coming, A, V)
        /\ Silent(Coming, A) /\ tile.at = x /\ story.heard => (tile.ritual <=> Ritual(x))
    BY DEF PanelsInv, ScanInv
  <2> DEFINE goes == Ritual(x)
  <2> HIDE DEF A, V, goes
  <2>6. LastIn(Coming', A, V) /\ (Silent(Coming', A) /\ m \in A => m \in V)
        /\ (Silent(Coming', A) /\ m \notin A => Silent(Coming, A))
    BY <1>3, <2>5 DEF Got
  <2>7. ASSUME Silent(Coming', A), tile.at = x, story'.heard PROVE tile'.ritual <=> goes
    <3>1. CASE m \in A
      <4>1. tile'.ritual = (m[1] = "pic")
        BY <1>11, <2>3, <2>7, <3>1
      <4>2. m[1] = (IF goes THEN "pic" ELSE "pie")
        BY <2>4, <2>6, <2>7, <3>1 DEF goes
      <4> QED
        BY <4>1, <4>2
    <3>2. CASE m \notin A
      <4>1. tile'.ritual = tile.ritual /\ story.heard
        BY <1>6, <1>11, <2>3, <2>7, <3>2
      <4> QED
        BY <2>5, <2>6, <2>7, <3>2, <4>1 DEF goes
    <3> QED
      BY <3>1, <3>2
  <2> QED
    BY <2>6, <2>7 DEF A, V, goes
<1> QED
  BY <1>9, <1>12, <1>14, <1>15, <1>18, <1>19, <1>20, <1>21, <1>22, <1>23, <1>24, <1>25, <1>26, <1>27, <1>28
     DEF PanelsInv

-----------------------------------------------------------------------------
(* The start.                                                              *)

LEMMA InitRites ==
    ASSUME PanelsInit
    PROVE  /\ DOMAIN folk = {0, 1} /\ folk \in [DOMAIN folk -> Person]
           /\ \A i \in DOMAIN folk : folk[i].tile = 1
           /\ DOMAIN rites \subseteq {0} /\ rites \in [DOMAIN rites -> Rite]
           /\ \A l \in DOMAIN rites : rites[l].at = 1
<1>1. PICK ritual \in BOOLEAN :
         /\ folk = [i \in {0, 1} |-> [level |-> VictoryLevel - 1, tile |-> 1, food |-> StartFood,
                                      frozen |-> ritual /\ i = 1]]
         /\ rites = [l \in {i \in {0} : ritual} |-> [at |-> 1, with |-> 1]]
  BY DEF PanelsInit
<1>2. \A i \in {0, 1} : [level |-> VictoryLevel - 1, tile |-> 1, food |-> StartFood, frozen |-> ritual /\ i = 1]
                        \in Person
  BY DEF Person, VictoryLevel, StartFood, Tiles
<1>3. [at |-> 1, with |-> 1] \in Rite
  BY PanelsAssumption DEF Rite, Tiles
<1>4. DOMAIN folk = {0, 1} /\ folk \in [DOMAIN folk -> Person] /\ \A i \in DOMAIN folk : folk[i].tile = 1
  BY <1>1, <1>2
<1>5. /\ DOMAIN rites \subseteq {0} /\ rites \in [DOMAIN rites -> Rite]
      /\ \A l \in DOMAIN rites : rites[l].at = 1
  BY <1>1, <1>3
<1> QED
  BY <1>4, <1>5

LEMMA InitTypes == ASSUME PanelsInit PROVE PanelTypes
<1>1. DOMAIN rites \subseteq DOMAIN folk /\ rites \in [DOMAIN rites -> Rite]
  BY InitRites
<1>2. DOMAIN folk = {0, 1} /\ folk \in [DOMAIN folk -> Person]
  BY InitRites
<1>3. /\ story = [newId |-> 2, newEgg |-> 1, followers |-> {}, late |-> FALSE, rows |-> rows, givenUp |-> FALSE,
                  heard |-> FALSE, stray |-> {}]
      /\ rows = << <<"Initialized", 0, 0>> >>
  BY DEF PanelsInit
<1>4. rows \in Seq(Msg)
  BY <1>3 DEF Msg, Tags
<1>5. story \in Stories /\ story.newId = 2 /\ story.newEgg = 1
  BY ONLY <1>3, <1>4 DEF Stories
<1>6. DOMAIN folk \subseteq Hatched /\ laid \subseteq EggsLaid
  BY <1>2, <1>5, PanelsAssumption DEF PanelsInit, Hatched, EggsLaid
<1>7. heap \in [Tiles -> Int] /\ done \in [joined : BOOLEAN, events : Int, clicks : Int]
  BY DEF PanelsInit
<1>8. due = <<>> /\ line = <<>> /\ asked = <<>>
  BY DEF PanelsInit
<1>9. Min(Speeds) \in Speeds
  <2>1. Speeds \subseteq Nat /\ Speeds # {}
    BY PanelsAssumption
  <2>2. \E v \in Speeds : \A w \in Speeds : v <= w
    BY ONLY <2>1, LeastOf
  <2> QED
    BY <2>2 DEF Min
<1>10. freq \in Speeds /\ slider \in [knob : Speeds, text : Speeds, held : BOOLEAN]
  BY <1>9 DEF PanelsInit
<1>11. /\ sheet \in Sheets
       /\ tile \in Scanned
  BY DEF PanelsInit, Sheets, Scanned
<1>12. /\ DOMAIN stats.level \subseteq Hatched /\ stats.eggs \subseteq EggsLaid
       /\ stats \in [level : [DOMAIN stats.level -> Int], eggs : SUBSET Int,
                     team : [TeamsOf -> [population : Int, level8Count : Int]]]
  <2> DEFINE known == [i \in {} |-> 0]
             team  == [t \in TeamsOf |-> [population |-> 0, level8Count |-> 0]]
  <2>1. stats = [level |-> known, team |-> team, eggs |-> {}]
    BY DEF PanelsInit
  <2>2. DOMAIN known = {} /\ known \in [{} -> Int] /\ team \in [TeamsOf -> [population : Int, level8Count : Int]]
    OBVIOUS
  <2> HIDE DEF known, team
  <2>3. stats.level = known /\ stats.eggs = {}
    BY <2>1
  <2> QED
    BY <2>1, <2>2, <2>3
<1> QED
  BY <1>1, <1>2, <1>5, <1>6, <1>7, <1>8, <1>10, <1>11, <1>12, NoLine DEF PanelTypes

LEMMA InitHolds == ASSUME PanelsInit PROVE PanelsInv
<1>1. PanelTypes
  BY InitTypes
<1>2. due = <<>> /\ line = <<>> /\ asked = <<>> /\ ~done.joined /\ sheet.id = -1 /\ tile.at = -1 /\ ~slider.held
  BY DEF PanelsInit
<1>3. Coming = <<>>
  BY <1>2 DEF Coming
<1>4. /\ \A A : Silent(Coming, A)
      /\ \A A, V : LastIn(Coming, A, V) /\ FirstIn(Coming, A, V)
      /\ \A P, A : OnlyAfter(Coming, P, A)
      /\ \A G : OnlyFrom(Coming, G)
  BY ONLY <1>3, NoLine
<1>5. (\A A : Silent(due, A)) /\ \A G : OnlyFrom(asked, G)
  BY ONLY <1>2, NoLine
<1>6. DOMAIN stats.level = {} /\ stats.eggs = {} /\ \A t \in TeamsOf : stats.team[t].population = 0
      /\ stats.team[t].level8Count = 0
  BY DEF PanelsInit
<1>7. AloneInv
  BY <1>2, <1>6 DEF AloneInv
<1>8. HeapInv
  BY <1>2, <1>4 DEF HeapInv, Tiles
<1>9. PlaceInv
  <2>1. \A i \in DOMAIN folk : i # -1
    BY <1>1, Folks
  <2> QED
    BY <1>2, <1>4, <2>1 DEF PlaceInv
<1>10. LevelInv /\ OrderInv
  BY <1>2 DEF LevelInv, OrderInv
<1>11. KnownInv /\ EggInv
  BY <1>2, <1>4 DEF KnownInv, EggInv
<1>12. SpeedInv
  BY <1>2, <1>4 DEF SpeedInv
<1>13. CountInv
  <2> SUFFICES ASSUME NEW t \in TeamsOf
               PROVE  /\ stats.team[t].population = Cardinality(Mates(t))
                      /\ stats.team[t].level8Count = Cardinality(Raised(t))
    BY DEF CountInv
  <2>1. Mates(t) = {} /\ Raised(t) = {}
    BY <1>6 DEF Mates, Raised
  <2> QED
    BY <1>6, <2>1, FS_EmptySet
<1>14. RowsInv
  <2> DEFINE first == <<"Initialized", 0, 0>>
  <2>1. rows = <<first>> /\ story.rows = rows
    BY DEF PanelsInit
  <2>2. first \in Msg
    BY DEF Msg, Tags
  <2> HIDE DEF first
  <2>3. rows \in Seq(Msg) /\ Len(rows) = 1
    BY <2>1, <2>2
  <2> QED
    BY <2>1, <2>3, PanelConstants DEF RowsInv
<1>15. FoodInv /\ ScanInv
  <2>1. \A i \in DOMAIN folk : i # -1
    BY <1>1, Folks
  <2> QED
    BY <1>2, <1>4, <2>1 DEF FoodInv, ScanInv, Tiles
<1>16. RitesInv
  <2>1. /\ DOMAIN folk = {0, 1} /\ \A i \in DOMAIN folk : folk[i].tile = 1
        /\ DOMAIN rites \subseteq {0} /\ \A l \in DOMAIN rites : rites[l].at = 1
    BY InitRites
  <2> QED
    BY ONLY <2>1 DEF RitesInv
<1> QED
  BY <1>1, <1>4, <1>5, <1>7, <1>8, <1>9, <1>10, <1>11, <1>12, <1>13, <1>14, <1>15, <1>16
     DEF PanelsInv, ComingInv, DueInv, AskedInv

-----------------------------------------------------------------------------
(* Every step.                                                             *)

LEMMA PanelsStep == ASSUME PanelsInv, [PanelsNext]_panelVars PROVE PanelsInv'
<1>1. ASSUME NEW i \in DOMAIN folk, Walk(i) PROVE PanelsInv'
  BY <1>1, WalkKeeps
<1>2. ASSUME NEW i \in DOMAIN folk, Starve(i) PROVE PanelsInv'
  BY <1>2, StarveKeeps
<1>3. ASSUME NEW i \in DOMAIN folk, Digest(i) PROVE PanelsInv'
  BY <1>3, DigestKeeps
<1>4. ASSUME NEW i \in DOMAIN folk, NEW n \in {-1, 1}, Handle(i, n) PROVE PanelsInv'
  BY <1>4, HandleKeeps
<1>5. ASSUME NEW i \in DOMAIN folk, NEW j \in DOMAIN folk, Gather(i, j) PROVE PanelsInv'
  BY <1>5, GatherKeeps
<1>6. ASSUME NEW l \in DOMAIN rites, NEW success \in BOOLEAN, Conclude(l, success) PROVE PanelsInv'
  BY <1>6, ConcludeKeeps
<1>7. CASE Lay
  BY <1>7, LayKeeps
<1>8. ASSUME NEW e \in laid, NEW i \in Numbers, HatchEgg(e, i) PROVE PanelsInv'
  BY <1>8, HatchEggKeeps
<1>9. ASSUME NEW t \in Tiles, Regrow(t) PROVE PanelsInv'
  BY <1>9, RegrowKeeps
<1>10. ASSUME NEW t \in Tiles, OnTileClicked(t) PROVE PanelsInv'
  BY <1>10, TileClickKeeps
<1>11. ASSUME NEW v \in Speeds, OtherSets(v) PROVE PanelsInv'
  BY <1>11, OtherSetsKeeps
<1>12. ASSUME NEW v \in Speeds, DragSpeed(v) PROVE PanelsInv'
  BY <1>12, DragKeeps
<1>13. CASE FlushLines
  BY <1>13, FlushKeeps
<1>14. CASE SendSnapshot
  BY <1>14, SnapshotKeeps
<1>15. CASE Serve
  BY <1>15, ServeKeeps
<1>16. CASE ReadLine
  BY <1>16, ReadKeeps
<1>17. CASE Fade
  BY <1>17, FadeKeeps
<1>18. ASSUME NEW i \in Numbers, OnPlayerClicked(i) PROVE PanelsInv'
  BY <1>18, PlayerClickKeeps
<1>19. CASE CloseEither
  BY <1>19, CloseEitherKeeps
<1>20. ASSUME NEW captured \in BOOLEAN, LetGo(captured) PROVE PanelsInv'
  BY <1>20, LetGoKeeps
<1>21. CASE UNCHANGED panelVars
  <2>1. UNCHANGED <<folk, laid, heap, rites, freq, due, line, asked, sheet, tile, stats, rows, slider, done, story>>
    BY <1>21 DEF panelVars, server, panels
  <2>2. Coming' = Coming /\ Hatched' = Hatched /\ EggsLaid' = EggsLaid
    BY <2>1 DEF Coming, Hatched, EggsLaid
  <2>3. PanelTypes'
    BY <2>1, <2>2 DEF PanelsInv, PanelTypes, Sheets
  <2>4. ComingInv' /\ DueInv' /\ AskedInv' /\ AloneInv'
    BY <2>1, <2>2 DEF PanelsInv, ComingInv, Sound, DueInv, AskedInv, Askable, AloneInv
  <2>5. HeapInv' /\ PlaceInv' /\ LevelInv' /\ OrderInv'
    BY <2>1, <2>2 DEF PanelsInv, HeapInv, PlaceInv, LevelInv, OrderInv, Asks
  <2>6. FoodInv' /\ RitesInv' /\ ScanInv'
    BY <2>1, <2>2 DEF PanelsInv, FoodInv, RitesInv, ScanInv, Ritual, Asks
  <2>7. KnownInv' /\ EggInv' /\ SpeedInv'
    BY <2>1, <2>2 DEF PanelsInv, KnownInv, EggInv, SpeedInv
  <2>8. CountInv' /\ RowsInv'
    BY <2>1 DEF PanelsInv, CountInv, RowsInv, Mates, Raised
  <2> QED
    BY <2>3, <2>4, <2>5, <2>6, <2>7, <2>8 DEF PanelsInv
<1> QED
  BY <1>1, <1>2, <1>3, <1>4, <1>5, <1>6, <1>7, <1>8, <1>9, <1>10, <1>11, <1>12, <1>13, <1>14, <1>15, <1>16,
     <1>17, <1>18, <1>19, <1>20, <1>21 DEF PanelsNext

-----------------------------------------------------------------------------
(* What the invariant says of the panels.                                  *)

LEMMA RowsAreTail == ASSUME PanelsInv PROVE LogIsTail
<1> DEFINE all == story.rows
           n == Len(story.rows)
           first == Max({1, n - MaxLogs + 1})
<1>1. all \in Seq(Msg) /\ n \in Nat /\ n > 0 /\ rows \in Seq(Msg)
      /\ Len(rows) = (IF n > MaxLogs THEN MaxLogs ELSE n)
      /\ \A k \in 1 .. Len(rows) : rows[k] = all[k + (n - Len(rows))]
  BY DEF PanelsInv, PanelTypes, Stories, RowsInv
<1>2. first = n - Len(rows) + 1 /\ first \in 1 .. n
  <2> DEFINE a == n - MaxLogs + 1
             top == n - Len(rows) + 1
  <2>1. top \in {1, a} /\ (\A x \in {1, a} : top >= x) /\ top \in Int /\ a \in Int
    <3> DEFINE l == Len(rows)
    <3>1. n \in Nat /\ n > 0 /\ l = (IF n > MaxLogs THEN MaxLogs ELSE n) /\ MaxLogs \in Nat /\ MaxLogs > 0
      BY <1>1, PanelConstants
    <3> HIDE DEF n, l
    <3>2. CASE n > MaxLogs
      <4>1. n - l + 1 = n - MaxLogs + 1 /\ n - MaxLogs + 1 \in Int /\ n - MaxLogs + 1 >= 1
        BY ONLY <3>1, <3>2
      <4> QED
        BY ONLY <4>1 DEF top, a, l
    <3>3. CASE ~(n > MaxLogs)
      <4>1. n - l + 1 = 1 /\ n - MaxLogs + 1 \in Int /\ 1 >= n - MaxLogs + 1
        BY ONLY <3>1, <3>3
      <4> QED
        BY ONLY <4>1 DEF top, a, l
    <3> QED
      BY ONLY <3>2, <3>3, Zenon
  <2> HIDE DEF a, top
  <2>2. \A x \in {1, a} : (\A y \in {1, a} : x >= y) => x = top
    BY ONLY <2>1
  <2>3. Max({1, a}) = top
    BY ONLY <2>1, <2>2, Zenon DEF Max
  <2> HIDE DEF n
  <2> QED
    BY <1>1, <2>3, PanelConstants DEF a, top
<1> HIDE DEF first, n, all
<1> DEFINE part == SubSeq(all, first, n)
<1>3. /\ part \in Seq(Msg) /\ Len(part) = IF first <= n THEN n - first + 1 ELSE 0
      /\ \A k \in 1 .. n - first + 1 : part[k] = all[first + k - 1]
  <2>1. first \in Int /\ n \in Int /\ \A k \in first .. n : k \in 1 .. Len(all)
    BY <1>1, <1>2 DEF n, all
  <2>2. \A k \in first .. n : all[k] \in Msg
    BY <1>1, <2>1
  <2> QED
    BY ONLY <1>1, <2>1, <2>2, SubSeqProperties
<1> HIDE DEF part
<1>4. Len(part) = Len(rows) /\ Len(rows) \in Nat
  BY <1>1, <1>2, <1>3
<1>5. \A k \in 1 .. Len(rows) : rows[k] = part[k]
  <2> TAKE k \in 1 .. Len(rows)
  <2> DEFINE l == Len(rows)
  <2>1. first = n - l + 1 /\ n \in Nat /\ l \in Nat /\ k \in 1 .. l
    BY <1>1, <1>2, <1>4
  <2> HIDE DEF l
  <2>2. k \in 1 .. n - first + 1 /\ first + k - 1 = k + (n - l)
    BY ONLY <2>1
  <2> QED
    BY <1>1, <1>3, <2>2 DEF l
<1>6. rows = part
  BY <1>1, <1>3, <1>4, <1>5, SeqEqual
<1> QED
  BY <1>6 DEF LogIsTail, part, first, n, all

\* Seven colours, six of which lie under the next.
LEMMA HeartsAreTold == ASSUME NEW halves \in 0 .. 119 PROVE HalvesOf(UpdateHearts(halves)) = halves
<1> DEFINE full == halves \div 2
           row == full \div 10
           hearts == UpdateHearts(halves)
           tens(colour) == CHOOSE n \in DOMAIN Colours : Colours[n] = colour
<1>1. /\ full \in 0 .. 59 /\ row \in 0 .. 5 /\ full % 10 \in 0 .. 9 /\ halves % 2 \in 0 .. 1
      /\ full = 10 * row + (full % 10) /\ halves = 2 * full + (halves % 2)
  OBVIOUS
<1>2. Min({row, 5}) = row
  <2> HIDE DEF row
  <2>1. row \in {row, 5} /\ (\A x \in {row, 5} : row <= x)
        /\ \A x \in {row, 5} : (\A y \in {row, 5} : x <= y) => x = row
    BY <1>1
  <2> QED
    BY ONLY <2>1, Zenon DEF Min
<1>3. hearts.base = Colours[row + 1] /\ hearts.whole = full % 10 /\ hearts.half = halves % 2
  BY <1>2 DEF UpdateHearts
<1>4. DOMAIN Colours = 1 .. 7 /\ row + 1 \in DOMAIN Colours
      /\ \A n \in DOMAIN Colours : Colours[n] = Colours[row + 1] => n = row + 1
  <2> HIDE DEF row
  <2>1. row + 1 \in {1, 2, 3, 4, 5, 6}
    BY <1>1
  <2>2. DOMAIN Colours = {1, 2, 3, 4, 5, 6, 7} /\ DOMAIN Colours = 1 .. 7
    BY DEF Colours
  <2>3. Colours[1] = "empty" /\ Colours[2] = "red" /\ Colours[3] = "yellow" /\ Colours[4] = "orange"
        /\ Colours[5] = "green" /\ Colours[6] = "blue" /\ Colours[7] = "purple"
    BY DEF Colours
  <2> QED
    BY <2>1, <2>2, <2>3
<1> HIDE DEF row, full, hearts
<1>5. tens(hearts.base) = row + 1
  BY ONLY <1>3, <1>4, Zenon
<1> HIDE DEF tens
<1>6. halves = 20 * (tens(hearts.base) - 1) + 2 * hearts.whole + hearts.half
  BY <1>1, <1>3, <1>5
<1> QED
  BY <1>6 DEF tens, hearts, HalvesOf

LEMMA InvTells == ASSUME PanelsInv PROVE PanelsCatchUp
<1>1. PanelTypes /\ LogIsTail
  BY RowsAreTail DEF PanelsInv
<1> SUFFICES ASSUME Quiet PROVE InspectorsTrue /\ ScannerTrue /\ StatsAddUp /\ SpeedShown
  BY <1>1 DEF PanelsCatchUp
<1>2. done.joined /\ due = <<>> /\ line = <<>> /\ asked = <<>>
  BY DEF Quiet
<1>3. Coming = <<>>
  BY <1>2 DEF Coming
<1>4. (\A A : Silent(Coming, A)) /\ \A A : Silent(asked, A)
  BY ONLY <1>2, <1>3, NoLine
<1>5. \A q : ~Asks(q)
  BY <1>4 DEF Asks
<1>6. DOMAIN folk \subseteq Numbers /\ DOMAIN stats.level \subseteq Numbers /\ Hatched \subseteq Numbers
  BY <1>1, Folks DEF PanelTypes
<1>7. \A i \in Numbers : i \in DOMAIN stats.level <=> i \in DOMAIN folk
  BY <1>2, <1>4 DEF PanelsInv, KnownInv
<1>8. DOMAIN stats.level = DOMAIN folk
  BY <1>6, <1>7
<1>9. \A i \in DOMAIN folk \ story.followers :
        (sheet.id = i => sheet.level = folk[i].level) /\ stats.level[i] = folk[i].level
  BY <1>2, <1>4, <1>5, <1>8 DEF PanelsInv, LevelInv
<1>10. InspectorsTrue
  <2>1. \A t \in Tiles : tile.at = t => tile.heap = heap[t]
    BY <1>4, <1>5 DEF PanelsInv, HeapInv
  <2>2. \A i \in DOMAIN folk : sheet.id = i => sheet.tile = folk[i].tile
    BY <1>4, <1>5 DEF PanelsInv, PlaceInv
  <2>3. ASSUME NEW i \in DOMAIN folk, sheet.id = i, folk[i].food < 60
        PROVE  HalvesOf(UpdateHearts(sheet.food)) + sheet.fell = 2 * folk[i].food
    <3>1. sheet.food + sheet.fell = 2 * folk[i].food
      BY <1>4, <1>5, <2>3 DEF PanelsInv, FoodInv
    <3>2. sheet.food \in Nat /\ sheet.fell \in Nat /\ folk[i].food \in Nat
      <4>1. folk[i] \in Person
        BY <1>1, Folks
      <4> QED
        BY <1>1, <4>1 DEF PanelTypes, Sheets, Person
    <3> DEFINE h == sheet.food
    <3>3. h \in 0 .. 119
      BY <3>1, <3>2, <2>3
    <3>4. HalvesOf(UpdateHearts(h)) = h
      BY ONLY <3>3, HeartsAreTold
    <3> QED
      BY <3>1, <3>4
  <2> QED
    BY <1>9, <2>1, <2>2, <2>3 DEF InspectorsTrue
<1>11. StatsAddUp
  <2>1. stats.eggs = laid
    <3>1. stats.eggs \subseteq EggsLaid /\ laid \subseteq EggsLaid
      BY <1>1 DEF PanelTypes
    <3>2. \A e \in EggsLaid : e \in stats.eggs <=> e \in laid
      BY <1>2, <1>4 DEF PanelsInv, EggInv
    <3> QED
      BY ONLY <3>1, <3>2
  <2>2. ASSUME NEW t \in TeamsOf
        PROVE  LET mine == {i \in DOMAIN folk : TeamOf[i] = t} IN
                  /\ stats.team[t].population = Cardinality(mine)
                  /\ mine \cap story.followers = {} /\ ~story.late =>
                        stats.team[t].level8Count = Cardinality({i \in mine : folk[i].level >= VictoryLevel})
    <3> DEFINE mine == {i \in DOMAIN folk : TeamOf[i] = t}
               high == {i \in mine : folk[i].level >= VictoryLevel}
    <3>1. /\ stats.team[t].population = Cardinality(Mates(t))
          /\ ~story.late => stats.team[t].level8Count = Cardinality(Raised(t))
      BY DEF PanelsInv, CountInv
    <3>2. Mates(t) = mine
      BY <1>8 DEF Mates
    <3>3. mine \cap story.followers = {} => Raised(t) = high
      BY <1>8, <1>9 DEF Raised
    <3> HIDE DEF mine, high
    <3>4. /\ stats.team[t].population = Cardinality(mine)
          /\ mine \cap story.followers = {} /\ ~story.late => stats.team[t].level8Count = Cardinality(high)
      BY ONLY <3>1, <3>2, <3>3
    <3> QED
      BY <3>4 DEF mine, high
  <2> QED
    BY <2>1, <2>2 DEF StatsAddUp
<1>12. SpeedShown
  BY <1>2, <1>4 DEF PanelsInv, SpeedInv, SpeedShown
<1>13. ScannerTrue
  BY <1>4 DEF PanelsInv, ScanInv, Ritual, ScannerTrue
<1> QED
  BY <1>10, <1>11, <1>12, <1>13

\* Theorem: the log is always the last lines in the order they came; and whenever nothing is
\* on its way, in either direction, the player inspector tells the place of the living player
\* it names, its level unless only a ritual it followed raised it, and a heart for each food
\* but for what has faded since the last line about it (the cycle of colours comes round at
\* sixty); the tile inspector tells the food of its tile, and, once a line about a ritual there
\* has come, whether one goes on, where none was stray; the statistics add up to the world but
\* for a level no line told or one told late; and the speed is the server's unless a drag was
\* given up.
THEOREM PanelsCorrect == PanelsSpec => []PanelsCatchUp
<1>1. PanelsInit => PanelsInv
  BY InitHolds
<1>2. PanelsInv /\ [PanelsNext]_panelVars => PanelsInv'
  BY PanelsStep
<1>3. PanelsInv => PanelsCatchUp
  BY InvTells
<1> QED
  BY <1>1, <1>2, <1>3, PTL DEF PanelsSpec

=============================================================================
