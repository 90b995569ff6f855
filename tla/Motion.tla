------------------------------- MODULE Motion -------------------------------
(***************************************************************************)
(* How a player of the display travels (gui/src/game/Player.cpp and        *)
(* updatePlayerPosition of PlayerManager.cpp).  The server tells of tiles; *)
(* between two of them the figure is moved a little every frame, and over  *)
(* the edge of the map it walks off on one side and appears on the other.  *)
(* Lines come while it is still under way.                                 *)
(***************************************************************************)
EXTENDS Integers, Sequences

CONSTANTS
    Columns, Rows,  \* the size of the map
    MaxOrders        \* bound: lines about the player

ASSUME MotionAssumption == Columns \in Nat \ {0} /\ Rows \in Nat \ {0}

VARIABLES
    spot,           \* _tilePosition
    body,           \* _position, in quarters of a tile
    future,         \* _futurePosition
    wrapped,        \* _wrappedPosition: empty, or one position
    moving,         \* _isMoving
    angle,          \* _renderRotationAngle, in eighths of a turn
    facing,         \* _orientation
    turning,        \* _isTurning
    walking,        \* _action is WALK
    lines           \* lines so far

motionVars == <<spot, body, future, wrapped, moving, angle, facing, turning, walking, lines>>

TILE_SIZE == 4
Cells   == (0 .. Columns - 1) \X (0 .. Rows - 1)
Centre(s) == <<s[1] * TILE_SIZE, s[2] * TILE_SIZE>>
AngleForOrientation(d) == 2 * d

Apart(a, b) == LET d == a - b IN IF d < 0 THEN -d ELSE d
Distance(p, q) == Apart(p[1], q[1]) + Apart(p[2], q[2])

\* In (-4, 4]; an eighth of a turn is the unit.
ShortestAngleDelta(from, to) == LET d == (to - from) % 8 IN IF d > 4 THEN d - 8 ELSE d

MotionInit ==
    /\ spot \in Cells /\ facing \in 0 .. 3
    /\ body = Centre(spot) /\ future = Centre(spot) /\ wrapped = <<>> /\ moving = FALSE
    /\ angle = AngleForOrientation(facing) /\ turning = FALSE /\ walking = FALSE /\ lines = 0

-----------------------------------------------------------------------------
(* A line about the player.                                                *)

Line == lines < MaxOrders /\ lines' = lines + 1

\* The way off the map, if the tile is on the other side of it.
WayOut(s) ==
    CASE Columns > 1 /\ spot[2] = s[2] /\ spot[1] = 0 /\ s[1] = Columns - 1 -> <<-1, 0>>
      [] Columns > 1 /\ spot[2] = s[2] /\ spot[1] = Columns - 1 /\ s[1] = 0 -> <<1, 0>>
      [] Rows > 1 /\ spot[1] = s[1] /\ spot[2] = 0 /\ s[2] = Rows - 1 -> <<0, -1>>
      [] Rows > 1 /\ spot[1] = s[1] /\ spot[2] = Rows - 1 /\ s[2] = 0 -> <<0, 1>>
      [] OTHER -> <<0, 0>>

SetFuturePosition_KeepsWrap(from, p) == future' = p /\ wrapped' = wrapped /\ moving' = (from # p)

SetFuturePosition(from, p) == future' = p /\ wrapped' = <<>> /\ moving' = (from # p)

\* It leaves one tile further on, from wherever it is.
SetWrappedFuturePosition(from, way, p) ==
    /\ future' = <<from[1] + TILE_SIZE * way[1], from[2] + TILE_SIZE * way[2]>>
    /\ wrapped' = <<p>> /\ moving' = TRUE

\* completePendingWrap: a wrap that is under way is completed on the spot.
Landed == IF wrapped = <<>> THEN body ELSE wrapped[1]

UpdatePlayerPosition(s) ==
    LET from == Landed IN
    /\ body' = from /\ spot' = s
    /\ IF WayOut(s) # <<0, 0>> THEN SetWrappedFuturePosition(from, WayOut(s), Centre(s))
                               ELSE SetFuturePosition(from, Centre(s))

TurnToOrientation(d) ==
    /\ facing' = d /\ turning' = (ShortestAngleDelta(angle, AngleForOrientation(d)) # 0)
    /\ UNCHANGED angle

\* ppo: a step, a turn, an expulsion; pin: the tile alone.
Position(s, d) == Line /\ UpdatePlayerPosition(s) /\ TurnToOrientation(d) /\ UNCHANGED walking

Inventory(s) == Line /\ UpdatePlayerPosition(s) /\ UNCHANGED <<angle, facing, turning, walking>>

\* pnw again, for a player it knows: everything at once.
Connected(s, d) ==
    /\ Line /\ spot' = s /\ body' = Centre(s) /\ future' = Centre(s) /\ wrapped' = <<>> /\ moving' = FALSE
    /\ facing' = d /\ angle' = AngleForOrientation(d) /\ turning' = FALSE /\ UNCHANGED walking

-----------------------------------------------------------------------------
(* A frame: it takes some time, and covers n quarters and e eighths of it. *)

UpdateActionState == walking' = moving

UpdateRotation(e) ==
    LET goal  == AngleForOrientation(facing)
        delta == ShortestAngleDelta(angle, goal)
    IN IF ~turning THEN UNCHANGED <<angle, turning>>
       ELSE IF Apart(delta, 0) <= e THEN angle' = goal /\ turning' = FALSE
       ELSE angle' = (angle + (IF delta > 0 THEN e ELSE -e)) % 8 /\ UNCHANGED turning

Toward(a, b, n) == IF Apart(a, b) <= n THEN b ELSE IF a < b THEN a + n ELSE a - n

\* At the exit of a wrap it is put down on the other side.
UpdatePhysicalPosition(n) ==
    IF ~moving THEN UNCHANGED <<body, future, wrapped, moving>>
    ELSE IF Distance(body, future) <= n
    THEN /\ body' = IF wrapped = <<>> THEN future ELSE wrapped[1]
         /\ future' = body' /\ wrapped' = <<>> /\ moving' = FALSE
    ELSE /\ body' = LET x == Toward(body[1], future[1], n)
                    IN <<x, Toward(body[2], future[2], n - Apart(x, body[1]))>>
         /\ UNCHANGED <<future, wrapped, moving>>

Move(n, e) ==
    /\ UpdateActionState /\ UpdateRotation(e) /\ UpdatePhysicalPosition(n)
    /\ UNCHANGED <<spot, facing, lines>>

MotionNext ==
    \/ \E s \in Cells, d \in 0 .. 3 : Position(s, d) \/ Connected(s, d)
    \/ \E s \in Cells : Inventory(s)
    \/ \E n \in {1, 3}, e \in {1, 2} : Move(n, e)

-----------------------------------------------------------------------------
(* Properties.                                                             *)

\* However the lines fall between the frames, a figure that has come to rest stands where
\* the server last put it and looks where it looks, and one under way is bound for there.
RestsWhereItIs ==
    /\ ~moving => body = Centre(spot)
    /\ moving => Centre(spot) = IF wrapped = <<>> THEN future ELSE wrapped[1]
    /\ ~turning => angle = AngleForOrientation(facing)

\* It never strays further than one tile from the map.
StaysNear ==
    /\ body[1] \in -TILE_SIZE .. Columns * TILE_SIZE
    /\ body[2] \in -TILE_SIZE .. Rows * TILE_SIZE

\* However lines and frames fall, the figure ends up where the player is, by a way on the map.
MotionSettles == RestsWhereItIs /\ StaysNear

=============================================================================
