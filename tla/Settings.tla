------------------------------ MODULE Settings ------------------------------
(***************************************************************************)
(* The settings menu of the display (gui/src/ui/menus/SettingsMenu.cpp     *)
(* with its sliders, toggles, dropdown and key buttons), the volumes it    *)
(* passes on to AudioManager, the display mode it takes back when nobody   *)
(* confirms it, and the file it is kept in (gui/src/SettingsManager.cpp).  *)
(***************************************************************************)
EXTENDS Integers, SequencesExt

CONSTANTS
    Volumes,        \* the values of a slider; a set of positive numbers
    Views,          \* sliders of the video tab, all alike: fov, fpsLimit, cameraSensitivity
    Shows,          \* toggles of the visibility tab, all alike: showUI, showPlayers, ...
    Modes,          \* the display modes, "windowed" among them
    Actions,        \* the actions that can be bound to a key
    Keys,           \* keys of the keyboard
    MaxChanges      \* bound: changes of a setting

VARIABLES
    settings,       \* SettingsManager::_settings
    file,           \* the configuration file
    lost,           \* history: the last save failed
    audio,          \* _musicVolume and _soundVolume of AudioManager
    given,          \* history: the volumes AudioManager has been given since the start
    window,         \* the mode the window is in
    dropdown,       \* the mode shown, and whether the list is open
    revert,         \* _pendingVideoModeChange with its timer, and _oldDisplayMode
    accepted,       \* history: the last mode that was confirmed, and if another was chosen too soon
    waiting,        \* the key buttons that wait for a key
    tab,            \* _currentTab
    shown,          \* the menu is visible
    pressed,        \* what the left button was pressed on, or "nothing"
    changes         \* changes so far

settingsVars == <<settings, file, lost, audio, given, window, dropdown, revert, accepted,
                  waiting, tab, shown, pressed, changes>>

LeftButton == "MOUSE LEFT"

-----------------------------------------------------------------------------
(* The file.                                                               *)

SaveProperties ==
    <<"masterVolume", "musicVolume", "sfxVolume", "muted", "displayMode", "resolutionIndex", "fov",
      "fpsLimit", "cameraSensitivity", "cameraSpeed", "renderDistance", "showUI", "showPlayers",
      "showMinerals", "showFood", "showTiles", "showFloatingIsland">>

LoadProperties ==
    <<"masterVolume", "musicVolume", "sfxVolume", "muted", "displayMode", "resolutionIndex", "fov",
      "fpsLimit", "cameraSensitivity", "cameraSpeed", "renderDistance", "showUI", "showPlayers",
      "showMinerals", "showFood", "showTiles", "showFloatingIsland">>

\* The keys and layouts are lines of their own, "bind_" and "ui_".
Save(s) == [k \in ToSet(SaveProperties) \cup {"keybinds"} |-> s[k]]

\* A property that is not in the file keeps its default.
Load(f, defaults) ==
    [k \in DOMAIN defaults |->
        IF k \in DOMAIN f /\ k \in ToSet(LoadProperties) \cup {"keybinds"} THEN f[k] ELSE defaults[k]]

\* The settings the model changes; the others keep some value of their own.
Chosen(k, v, muted, mode, binds) ==
    CASE k \in {"masterVolume", "musicVolume", "sfxVolume"} \cup Views -> v
      [] k = "muted"       -> muted
      [] k = "displayMode" -> mode
      [] k = "keybinds"    -> binds
      [] k \in Shows       -> TRUE
      [] OTHER             -> "kept"

Changing(v, muted, mode, binds) ==
    [k \in ToSet(SaveProperties) \cup {"keybinds"} |-> Chosen(k, v, muted, mode, binds)]

\* The sliders of the video tab and the toggles are for properties of their own.
ASSUME SettingsAssumption ==
    /\ Views \cup Shows \subseteq ToSet(SaveProperties)
    /\ (Views \cup Shows) \cap {"masterVolume", "musicVolume", "sfxVolume", "muted", "displayMode"} = {}

Defaults == [k \in DOMAIN Changing(1, FALSE, "windowed", <<>>) |-> "default"]

-----------------------------------------------------------------------------

Loudness(s, channel) == IF s.muted THEN 0 ELSE s.masterVolume * s[channel]

\* AudioManager starts at its own volumes and the window in its own mode, whatever was saved.
SettingsInit ==
    /\ \E muted \in BOOLEAN, k \in Keys :
          settings = Changing(1, muted, "windowed", [a \in Actions |-> k])
    /\ file = Save(settings) /\ lost = FALSE
    /\ audio = [musicVolume |-> "default", sfxVolume |-> "default"] /\ given = {}
    /\ window = "windowed" /\ dropdown = [index |-> settings.displayMode, open |-> FALSE]
    /\ revert = [timer |-> "off", to |-> settings.displayMode]
    /\ accepted = [mode |-> settings.displayMode, hasty |-> FALSE]
    /\ waiting = {} /\ tab = "audio" /\ shown = FALSE /\ pressed = "nothing" /\ changes = 0

Changed == changes < MaxChanges /\ changes' = changes + 1

\* The button of the pause menu.
Open ==
    /\ ~shown /\ shown' = TRUE
    /\ UNCHANGED <<settings, file, lost, audio, given, window, dropdown, revert, accepted, waiting, tab,
                   pressed, changes>>

\* The window is resized, by its frame or its mode: every component is built anew.
Rebuild ==
    /\ waiting' = {}
    /\ dropdown' = [index |-> settings.displayMode, open |-> FALSE]
    /\ UNCHANGED <<settings, file, lost, audio, given, window, revert, accepted, tab, shown, pressed, changes>>

\* setMusicVolume and setSoundVolume, of the channels in S.
GiveVolumes(S) ==
    /\ audio' = [c \in DOMAIN audio |-> IF c \in S THEN Loudness(settings', c) ELSE audio[c]]
    /\ given' = given \cup S

\* A slider that is held: the master goes to both channels, none while muted; those
\* of the video tab change a setting and nothing else.
Slide(slider, v) ==
    /\ shown /\ pressed = slider
    /\ settings[slider] # v /\ settings' = [settings EXCEPT ![slider] = v]
    /\ GiveVolumes(IF settings.muted \/ slider \in Views THEN {}
                   ELSE IF slider = "masterVolume" THEN DOMAIN audio ELSE {slider})
    /\ Changed
    /\ UNCHANGED <<file, lost, window, dropdown, revert, accepted, waiting, tab, shown, pressed>>

ToggleMute_KeepsSounds ==
    /\ settings' = [settings EXCEPT !.muted = ~@]
    /\ GiveVolumes({"musicVolume"})
    /\ Changed

ToggleMute ==
    /\ settings' = [settings EXCEPT !.muted = ~@]
    /\ GiveVolumes(DOMAIN audio)
    /\ Changed

ToggleShow(k) ==
    /\ settings' = [settings EXCEPT ![k] = ~@]
    /\ Changed /\ UNCHANGED <<audio, given>>

-----------------------------------------------------------------------------
(* The display mode.                                                       *)

\* Ten seconds, of which the first half is too early to confirm; they pass only while
\* the menu is shown.
Countdown ==
    /\ shown /\ revert.timer # "off"
    /\ IF revert.timer = "early"
       THEN revert' = [revert EXCEPT !.timer = "late"] /\ UNCHANGED <<settings, window, dropdown, accepted>>
       ELSE /\ revert' = [revert EXCEPT !.timer = "off"]
            /\ settings' = [settings EXCEPT !.displayMode = revert.to]
            /\ window' = revert.to
            /\ dropdown' = [dropdown EXCEPT !.index = revert.to]
            /\ accepted' = [mode |-> revert.to, hasty |-> FALSE]
    /\ UNCHANGED <<file, lost, audio, given, waiting, tab, shown, pressed, changes>>

SelectMode(m) ==
    /\ revert' = [timer |-> "early", to |-> settings.displayMode]
    /\ settings' = [settings EXCEPT !.displayMode = m]
    /\ window' = m
    /\ dropdown' = [index |-> m, open |-> FALSE]
    /\ Changed

-----------------------------------------------------------------------------
(* The mouse and the keyboard.                                             *)

Bind(S, key) == settings' = [settings EXCEPT !.keybinds = [a \in Actions |-> IF a \in S THEN key ELSE @[a]]]

\* On a press every waiting button of the tab shown takes the mouse button, except one
\* that the mouse is on: that one gives up waiting.
PressOnTab(target, t) ==
    /\ tab' = t
    /\ IF t = "controls"
       THEN /\ waiting' = {} /\ Bind(waiting \ {target}, LeftButton)
            /\ IF waiting \ {target} = {} THEN UNCHANGED changes ELSE Changed
       ELSE UNCHANGED <<waiting, settings, changes>>

Sliders == {"masterVolume", "musicVolume", "sfxVolume"}
Tabs == {"audio", "video", "controls", "visibility"}

Within(t) == CASE t = "audio" -> Sliders \cup {"mute"} [] t = "video" -> Views \cup {"dropdown"} \cup Modes
               [] t = "controls" -> Actions [] OTHER -> Shows

Targets == Within(tab) \cup Tabs \cup {"back", "background"}

PressMouse(target) ==
    /\ shown /\ pressed = "nothing" /\ pressed' = target
    /\ PressOnTab(target, IF target \in Tabs THEN target ELSE tab)
    /\ UNCHANGED <<file, lost, audio, given, window, dropdown, revert, accepted, shown>>

\* Any release, after the first half second, confirms the mode.
Confirmed == [revert EXCEPT !.timer = IF @ = "late" THEN "off" ELSE @]
Accepted  == IF revert.timer = "late" THEN [mode |-> settings.displayMode, hasty |-> FALSE] ELSE accepted

ReleaseBack ==
    /\ shown' = FALSE
    /\ \E failed \in BOOLEAN : lost' = failed /\ file' = IF failed THEN file ELSE Save(settings)
    /\ revert' = Confirmed /\ accepted' = Accepted
    /\ waiting' = IF tab = "controls" THEN {} ELSE waiting
    /\ dropdown' = IF tab = "video" THEN [dropdown EXCEPT !.open = FALSE] ELSE dropdown
    /\ UNCHANGED <<settings, audio, given, window, changes>>

ReleaseMode(m) ==
    /\ dropdown.open /\ SelectMode(m)
    /\ accepted' = [Accepted EXCEPT !.hasty = @ \/ revert.timer = "early"]
    /\ UNCHANGED <<file, lost, audio, given, waiting, shown>>

ReleaseOther(target) ==
    /\ revert' = Confirmed /\ accepted' = Accepted
    /\ dropdown' = IF tab = "video" THEN [dropdown EXCEPT !.open = ~@ /\ target = "dropdown"] ELSE dropdown
    /\ waiting' = CASE tab = "controls" /\ target \in Actions -> {target}
                    [] tab = "controls" /\ target \notin Actions -> {}
                    [] OTHER -> waiting
    /\ CASE target = "mute"   -> ToggleMute
         [] target \in Shows -> ToggleShow(target)
         [] OTHER            -> UNCHANGED <<settings, audio, given, changes>>
    /\ UNCHANGED <<file, lost, window, shown>>

ReleaseMouse(target) ==
    /\ shown /\ pressed # "nothing" /\ pressed' = "nothing"
    /\ IF target = "back" THEN ReleaseBack
       ELSE IF target \in Modes /\ dropdown.open THEN ReleaseMode(target)
       ELSE ReleaseOther(target)
    /\ UNCHANGED tab

\* Escape too: Render leaves it alone while the settings are shown.
PressKey(key) ==
    /\ shown /\ tab = "controls" /\ waiting # {}
    /\ \E first \in waiting : Bind({first}, key) /\ waiting' = waiting \ {first}
    /\ Changed
    /\ UNCHANGED <<file, lost, audio, given, window, dropdown, revert, accepted, tab, shown, pressed>>

SettingsNext ==
    \/ Open \/ Rebuild \/ Countdown
    \/ \E target \in Targets : PressMouse(target) \/ ReleaseMouse(target)
    \/ \E slider \in Sliders \cup Views, v \in Volumes : Slide(slider, v)
    \/ \E key \in Keys : PressKey(key)

-----------------------------------------------------------------------------
(* Properties.                                                             *)

\* What is heard is what is set, on every channel that was given a volume since the
\* start, whatever mixture of sliders and mute went before.  (Before that it is not:
\* the saved volumes are never given to AudioManager when the program starts.)
VolumesAsSet == \A c \in given : audio[c] = Loudness(settings, c)

\* Never do two buttons wait for a key, so that a key is never bound to an action the
\* user has turned away from.
OneButtonWaits == \A a, b \in waiting : a = b

\* A mode nobody confirms gives way to the last one that was: it does if no second one
\* was chosen within the half second in which nothing can be confirmed.
RevertsToAccepted == revert.timer # "off" /\ ~accepted.hasty => revert.to = accepted.mode

\* Whenever the menu was closed and the file could be written, a restart would bring back
\* what is set; and the menu, the window and the settings agree on the mode.
ClosedIsSaved ==
    /\ changes > 0 /\ ~shown /\ ~lost => Load(file, Defaults) = settings
    /\ dropdown.index = settings.displayMode
    /\ revert.timer # "off" => window = settings.displayMode

\* The menu, the audio, the window and the file stay in agreement.
SettingsHold == VolumesAsSet /\ OneButtonWaits /\ RevertsToAccepted /\ ClosedIsSaved

=============================================================================
