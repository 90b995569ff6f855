------------------------------- MODULE MCGui -------------------------------
(***************************************************************************)
(* The parts of the display, each on its own, in one run: a behaviour is   *)
(* one of the part chosen at the start, in which the others rest.  No part *)
(* shares a variable with another.                                         *)
(***************************************************************************)
EXTENDS Spectator, LineStream, Screens, Stacking, Settings, Panels, Motion, Sounds

CONSTANT Parts

VARIABLE part

TwoTeams  == <<"red", "blue">>
Carried   == [food |-> 1, linemate |-> 0, phiras |-> 1]
Drawn     == <<Rect(0, 0, 2, 3), Rect(0, 3, 2, 2), Rect(2, 0, 2, 2), Rect(2, 2, 2, 4)>>
Piled     == <<Rect(0, 5, 2, 2), Rect(0, 2, 2, 2), Rect(2, 4, 2, 2), Rect(0, 0, 2, 2)>>
TeamOfEach == [i \in 0 .. 2 |-> IF i = 1 THEN "red" ELSE "blue"]

\* A step is shorter than its command at frequency 100, a little over half a second.
Lengths   == [walk |-> 60]

\* A part that rests has one initial state.
Init ==
    /\ part \in Parts
    /\ SpectatorInit /\ (part # "mirror" => newId = 3)
    /\ StreamInit /\ ScreensInit /\ LayoutInit
    /\ StackInit /\ (part # "stack" => cell = Min(CellHeights))
    /\ SettingsInit /\ (part # "settings" => ~settings.muted)
    /\ PanelsInit /\ (part # "panels" => DOMAIN rites = {})
    /\ MotionInit /\ (part # "motion" => spot = <<0, 0>> /\ facing = 0)
    /\ SoundsInit

mirrorRest   == UNCHANGED spectatorVars
streamRest   == UNCHANGED streamVars
screensRest  == UNCHANGED screenVars
layoutRest   == UNCHANGED layoutVars
stackRest    == UNCHANGED stackVars
settingsRest == UNCHANGED settingsVars
panelsRest   == UNCHANGED panelVars
motionRest   == UNCHANGED motionVars
soundsRest   == UNCHANGED soundVars

Next ==
    /\ UNCHANGED part
    /\ \/ /\ part = "mirror" /\ SpectatorNext
          /\ streamRest /\ screensRest /\ layoutRest /\ stackRest /\ settingsRest /\ panelsRest /\ motionRest /\ soundsRest
       \/ /\ part = "stream" /\ StreamNext
          /\ mirrorRest /\ screensRest /\ layoutRest /\ stackRest /\ settingsRest /\ panelsRest /\ motionRest /\ soundsRest
       \/ /\ part = "screens" /\ ScreensNext
          /\ mirrorRest /\ streamRest /\ layoutRest /\ stackRest /\ settingsRest /\ panelsRest /\ motionRest /\ soundsRest
       \/ /\ part = "layout" /\ LayoutNext
          /\ mirrorRest /\ streamRest /\ screensRest /\ stackRest /\ settingsRest /\ panelsRest /\ motionRest /\ soundsRest
       \/ /\ part = "stack" /\ StackNext
          /\ mirrorRest /\ streamRest /\ screensRest /\ layoutRest /\ settingsRest /\ panelsRest /\ motionRest /\ soundsRest
       \/ /\ part = "settings" /\ SettingsNext
          /\ mirrorRest /\ streamRest /\ screensRest /\ layoutRest /\ stackRest /\ panelsRest /\ motionRest /\ soundsRest
       \/ /\ part = "panels" /\ PanelsNext
          /\ mirrorRest /\ streamRest /\ screensRest /\ layoutRest /\ stackRest /\ settingsRest /\ motionRest /\ soundsRest
       \/ /\ part = "motion" /\ MotionNext
          /\ mirrorRest /\ streamRest /\ screensRest /\ layoutRest /\ stackRest /\ settingsRest /\ panelsRest /\ soundsRest
       \/ /\ part = "sounds" /\ SoundsNext
          /\ mirrorRest /\ streamRest /\ screensRest /\ layoutRest /\ stackRest /\ settingsRest /\ panelsRest /\ motionRest

=============================================================================
