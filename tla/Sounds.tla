------------------------------- MODULE Sounds -------------------------------
(***************************************************************************)
(* What a spectator hears (gui/src/AudioManager.cpp), and from where: the  *)
(* listener is the camera, which Render moves in every frame that is not   *)
(* paused, freely, after a followed player or as a player's eyes.          *)
(*                                                                         *)
(* A frame of Core::loop is Client::update, Render::renderFrame and        *)
(* AudioManager::update, in this order; a sound may end at any time.  The  *)
(* scene is a line, and the camera looks across it one way or the other:   *)
(* enough for near and far, left and right, and a player who leaves over   *)
(* one edge and comes back over the other.                                 *)
(***************************************************************************)
EXTENDS Integers

CONSTANTS
    Played,      \* the sounds of events in the world, by id
    Duration,    \* of each sound, in milliseconds
    Strengths,   \* master volume times that of a channel, 0 when muted
    Frequencies, \* what "sgt" and "sst" may say
    MapHalf,     \* from the middle of the map to its edge
    Padding,     \* how much further the camera may go
    FullDistance, MaxDistance, \* SpatialFullVolumeDistance and SpatialMaxDistance
    PanWidth,    \* SpatialPanDistance
    Slots,       \* bound: sounds at a time
    MaxInputs    \* bound: lines of the server and clicks of the user

ASSUME SoundsAssumption ==
    /\ Strengths \subseteq Nat /\ Frequencies \subseteq Nat
    /\ MapHalf \in Nat /\ Padding \in Nat /\ FullDistance \in Nat /\ MaxDistance \in Nat

VARIABLES
    playing,   \* AudioManager::_activeSounds, and what raylib was told of each
    music,     \* the same of the background music
    volume,    \* _soundVolume and _musicVolume
    frequency, \* _serverFrequency
    listener,  \* _listenerPosition and _listenerForward
    camera,    \* Render::_camera
    figure,    \* where the player is that is followed or looked through
    last,      \* Render::_lastPlayerPos
    sight,     \* followed, first person, paused
    frame,     \* "heard", "lines", "interface", "audio"
    inputs

soundVars == <<playing, music, volume, frequency, listener, camera, figure, last, sight, frame, inputs>>
sceneVars == <<listener, camera, figure, last, sight>>

Clamp(n, low, high) == IF n < low THEN low ELSE IF n > high THEN high ELSE n

-----------------------------------------------------------------------------
(* Loudness, side and pitch.                                               *)

\* AudioManager's constructor: the sounds that last as long as a command, and the one
\* the frequency of the server has no say in.
ActionTicks ==
    [walk |-> 7, incantation |-> 300, item |-> 7, fork |-> 7, connected |-> 7, fork_anim |-> 42]

FixedPitch == {"button_click"}

Away(x) == IF x < listener.at THEN listener.at - x ELSE x - listener.at

\* In thirtieths of what is full volume somewhere in the scene: MaxSpatialVolume is 0.3.
SpatialVolume(v, x) ==
    LET range  == MaxDistance - FullDistance
        amount == Clamp(Away(x) - FullDistance, 0, range)
    IN v * (3 * (range * range - amount * amount))

\* As loud as it gets, near by.
Loudest(place) == (IF place = <<>> THEN 10 ELSE 3) * ((MaxDistance - FullDistance) * (MaxDistance - FullDistance))

FlatVolume(v) == v * Loudest(<<>>)

\* Positive is the side of up x forward.
SpatialPan(x) == Clamp((x - listener.at) * listener.facing, -PanWidth, PanWidth)

\* In percent: 75 at frequency 1, 100 at 100, 150 from 500 on.
FrequencyPitch ==
    IF frequency <= 100 THEN 75 + (25 * (frequency - 1)) \div 99
                        ELSE 100 + (50 * Clamp(frequency - 100, 0, 400)) \div 400

PlaybackPitch(id) ==
    IF id \in FixedPitch THEN 100
    ELSE IF id \notin DOMAIN ActionTicks THEN FrequencyPitch
    ELSE Clamp((Duration[id] * frequency) \div (ActionTicks[id] * 10), 75, 150)

\* A sound has a place <<x>>, or none; pan is set only for one that has.
LoudnessAt(v, place) == IF place = <<>> THEN FlatVolume(v) ELSE SpatialVolume(v, place[1])
Side(place)          == IF place = <<>> THEN 0 ELSE SpatialPan(place[1])

\* After the first frame, which nobody has paused.
SoundsInit ==
    /\ playing = [n \in {} |-> <<>>] /\ volume = [sound |-> 1, music |-> 1]
    /\ music = [volume |-> 1, pitch |-> 100]
    /\ frequency = 100
    /\ camera = [at |-> 1, facing |-> -1] /\ listener = camera
    /\ figure = 0 /\ last = <<>>
    /\ sight = [followed |-> FALSE, eyes |-> FALSE, paused |-> FALSE]
    /\ frame = "heard" /\ inputs = 0

Input == inputs < MaxInputs /\ inputs' = inputs + 1

-----------------------------------------------------------------------------
(* Client::update: the lines of the server.                                *)

ReadLines ==
    /\ frame = "heard" /\ frame' = "lines"
    /\ UNCHANGED <<playing, music, volume, frequency, sceneVars, inputs>>

Play(id, place) ==
    \E n \in Slots \ DOMAIN playing :
        playing' = [k \in DOMAIN playing \cup {n} |->
                        IF k # n THEN playing[k]
                        ELSE [id |-> id, place |-> place, on |-> TRUE,
                              volume |-> LoudnessAt(volume.sound, place),
                              pan |-> Side(place), pitch |-> PlaybackPitch(id)]]

\* A walk, a level, a death ..., where it happens.
PlaySoundAt(id, x) ==
    /\ frame = "lines" /\ Input
    /\ Play(id, <<x>>)
    /\ UNCHANGED <<music, volume, frequency, sceneVars, frame>>

\* No sound changes before the frame's end; a frequency that is none is ignored.
HandleTimeUnit(f) ==
    /\ frame = "lines" /\ Input
    /\ frequency' = IF f > 0 THEN f ELSE frequency
    /\ UNCHANGED <<playing, music, volume, sceneVars, frame>>

-----------------------------------------------------------------------------
(* Render::renderFrame: the keys, players move and so do the eyes, the     *)
(* user has the interface, and the camera moves unless the world is paused. *)

\* handleEscapeKey, where no panels are being arranged.
EscapeKey ==
    /\ frame = "lines" /\ Input
    /\ sight' = IF sight.eyes THEN [sight EXCEPT !.eyes = FALSE] ELSE [sight EXCEPT !.paused = ~@]
    /\ UNCHANGED <<playing, music, volume, frequency, listener, camera, figure, last, frame>>

\* FirstPerson::updateCamera.
LookThrough(x) == \E way \in {1, -1} : camera' = [at |-> x, facing |-> way]

\* WorldManager::movePlayers and FirstPerson::update: a step, or over the edge.
MovePlayers ==
    /\ frame = "lines" /\ frame' = "interface"
    /\ \/ figure' \in (figure - 1 .. figure + 1) \cap (-MapHalf - 1 .. MapHalf + 1)
       \/ figure \in {MapHalf + 1, -MapHalf - 1} /\ figure' = -figure
    /\ IF sight.eyes THEN LookThrough(figure') ELSE UNCHANGED camera
    /\ UNCHANGED <<playing, music, volume, frequency, listener, last, sight, inputs>>

\* Any button, whatever else it does.
PlayClick ==
    /\ frame = "interface" /\ Input
    /\ Play("button_click", <<>>)
    /\ UNCHANGED <<music, volume, frequency, sceneVars, frame>>

\* A slider of the settings, or the mute toggle, both channels at once.
SetVolumes(sound, ofMusic) ==
    /\ frame = "interface" /\ Input
    /\ volume' = [sound |-> sound, music |-> ofMusic]
    /\ music' = [music EXCEPT !.volume = ofMusic]
    /\ playing' = [n \in DOMAIN playing |-> [playing[n] EXCEPT !.volume = LoudnessAt(sound, playing[n].place)]]
    /\ UNCHANGED <<frequency, sceneVars, frame>>

\* A player is clicked on or let go, the world resumed, a player looked through: the
\* last unpauses, whatever is on the screen.
ChangeView(next) ==
    /\ frame = "interface" /\ Input
    /\ next # sight /\ (next.paused => sight.paused /\ ~next.eyes)
    /\ sight' = next
    /\ last' = IF next.followed # sight.followed THEN <<>> ELSE last
    /\ IF next.eyes /\ ~sight.eyes THEN LookThrough(figure) ELSE UNCHANGED camera
    /\ UNCHANGED <<playing, music, volume, frequency, listener, figure, frame>>

CameraLimits(x) == Clamp(x, -MapHalf - Padding, MapHalf + Padding)

\* The camera goes the way the player went; only the eyes are not kept within the limits.
FollowPlayer ==
    /\ sight.followed
    /\ LET there == camera.at + figure - IF last = <<>> THEN camera.at ELSE last[1]
       IN \E zoom \in {0, 1}, way \in {1, -1} :
             camera' = [at |-> IF sight.eyes THEN there ELSE CameraLimits(there + zoom), facing |-> way]
    /\ last' = <<figure>>

MoveFreely ==
    /\ ~sight.followed /\ ~sight.eyes
    /\ \E step \in {-1, 0, 1}, way \in {1, -1} :
          camera' = [at |-> CameraLimits(camera.at + step), facing |-> way]
    /\ UNCHANGED last

\* In the mode of the interface the free camera rests, and so it does behind the eyes.
Stay == ~sight.followed /\ UNCHANGED <<camera, last>>

SetListener_Resting(c) == listener' = IF sight.followed THEN c ELSE listener
SetListener(c) == listener' = c

UpdateView ==
    /\ frame = "interface" /\ frame' = "audio"
    /\ IF sight.paused THEN UNCHANGED <<camera, last, listener>>
       ELSE (FollowPlayer \/ MoveFreely \/ Stay) /\ SetListener(camera')
    /\ UNCHANGED <<playing, music, volume, frequency, figure, sight, inputs>>

-----------------------------------------------------------------------------
(* AudioManager::update, and the device.                                   *)

Renewed(s) ==
    [s EXCEPT !.pitch = PlaybackPitch(s.id),
              !.volume = IF s.place # <<>> THEN LoudnessAt(volume.sound, s.place) ELSE @,
              !.pan = Side(s.place)]

UpdateAudio ==
    /\ frame = "audio" /\ frame' = "heard"
    /\ music' = [music EXCEPT !.pitch = FrequencyPitch]
    /\ playing' = [n \in {k \in DOMAIN playing : playing[k].on} |-> Renewed(playing[n])]
    /\ UNCHANGED <<volume, frequency, sceneVars, inputs>>

SoundEnds(n) ==
    /\ playing[n].on /\ playing' = [playing EXCEPT ![n].on = FALSE]
    /\ UNCHANGED <<music, volume, frequency, sceneVars, frame, inputs>>

SoundsNext ==
    \/ ReadLines \/ (\E id \in Played, x \in -MapHalf .. MapHalf : PlaySoundAt(id, x))
    \/ (\E f \in Frequencies : HandleTimeUnit(f)) \/ EscapeKey
    \/ MovePlayers \/ PlayClick \/ (\E s, m \in Strengths : SetVolumes(s, m))
    \/ (\E next \in [followed : BOOLEAN, eyes : BOOLEAN, paused : BOOLEAN] : ChangeView(next))
    \/ UpdateView \/ UpdateAudio \/ (\E n \in DOMAIN playing : SoundEnds(n))

-----------------------------------------------------------------------------
(* Properties.                                                             *)

\* Between two frames everything is heard as it is from where the camera is, at the
\* volume and the pitch of the moment: paused or not, however a sound began, whatever
\* came between its beginning and now.  Two sentences of the docs say otherwise and the code
\* follows neither: docs/gui/audio.md has instances get a random shift of the pitch, where
\* playbackPitch depends on the sound and the frequency alone; docs/gui/core.md has the
\* positions of active sounds updated in every frame, where a sound stays where it began and
\* only the listener moves.  The pitch and the place meant here are those of the code.
HeardFromHere ==
    frame = "heard" =>
        /\ listener = camera
        /\ music = [volume |-> volume.music, pitch |-> FrequencyPitch]
        /\ \A n \in DOMAIN playing :
              LET s == playing[n] IN
              /\ s.volume = LoudnessAt(volume.sound, s.place) /\ s.pan = Side(s.place)
              /\ s.pitch = PlaybackPitch(s.id)

\* At no time, within a frame neither, is anything louder than the user wants it, and
\* what is muted is silent at once.
NeverLouder ==
    /\ music.volume = volume.music
    /\ \A n \in DOMAIN playing : playing[n].volume <= volume.sound * Loudest(playing[n].place)

SoundsHold == HeardFromHere /\ NeverLouder

=============================================================================
