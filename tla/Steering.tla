------------------------------ MODULE Steering ------------------------------
(***************************************************************************)
(* How an AI gets where it wants to be (ai/src/Trantorian.py): to a tile   *)
(* of its last Look, and step by step towards a leader it only hears.      *)
(* Every order is a command of its own, so a player can be ejected and can *)
(* hear the leader between two of them; the bearing it then has is that of *)
(* a moment that is over.  What Look and Broadcast say is in Geometry.     *)
(***************************************************************************)
EXTENDS Geometry

CONSTANTS
    SeenLevel,      \* the level of the player: how many rows Look shows
    MaxSignals      \* bound: how often the leader calls

ASSUME SteeringAssumption ==
    /\ {Width, Height} \subseteq Nat \ {0}
    /\ {SeenLevel, MaxSignals} \subseteq Nat

VARIABLES
    here, way,      \* position and orientation of the player
    goal,           \* where the tile chosen in a Look is, or where the leader stands
    plan,           \* orders still to be executed
    errand,         \* "tile" or "join"
    target,         \* incantation_target: None or a bearing
    mark,           \* history: how far the leader was when target was heard
    limit,          \* history: the same for the bearing that is being followed
    moved,          \* history: whether the player moved or turned since target was heard
    signals,        \* calls so far
    pushed          \* history: ejected on the way to a tile, or ever

steeringVars == <<here, way, goal, plan, errand, target, mark, limit, moved, signals, pushed>>

NoTarget == -1
Repeat(order, n) == [i \in 1 .. n |-> order]

\* The row of a tile of Look: int(math.sqrt(index)).
RowOf(index) == CHOOSE r \in 0 .. index : r * r <= index /\ index < (r + 1) * (r + 1)

move_to_tile_NoTurn(index) ==
    LET row == RowOf(index)
    IN Repeat("Forward", row + Abs(index - (row * row + row)))

move_to_tile(index) ==
    LET row == RowOf(index)
        dx  == index - (row * row + row)
    IN Repeat("Forward", row)
       \o (IF dx = 0 THEN <<>> ELSE <<IF dx < 0 THEN "Left" ELSE "Right">>)
       \o Repeat("Forward", Abs(dx))

move_one_step_toward(direction) ==
    CASE direction = 0            -> <<>>
      [] direction \in {1, 2, 8} -> <<"Forward">>
      [] direction \in {3, 4}    -> <<"Left", "Forward">>
      [] direction = 5            -> <<"Right", "Right", "Forward">>
      [] direction \in {6, 7}    -> <<"Right", "Forward">>

\* Tiles to walk from one place to another, over the edge if that is shorter.
Walk(p, q) == Abs(Shortest(p.x - q.x, Width)) + Abs(Shortest(p.y - q.y, Height))

SteeringInit ==
    /\ here = OnMap(0, 0) /\ way \in Dirs
    /\ plan = <<>> /\ target = NoTarget /\ mark = 0 /\ limit = Width + Height /\ moved = FALSE
    /\ signals = 0 /\ pushed = FALSE
    /\ \/ errand = "tile" /\ goal = here
       \/ errand = "join" /\ goal \in Pos

Executes(order) ==
    /\ plan # <<>> /\ Head(plan) = order /\ plan' = Tail(plan)
    /\ moved' = TRUE
    /\ UNCHANGED <<goal, errand, target, mark, limit, signals, pushed>>

Forward == Executes("Forward") /\ here' = Ahead(here, way) /\ UNCHANGED way
Left    == Executes("Left")  /\ way' = (way + 3) % 4 /\ UNCHANGED here
Right   == Executes("Right") /\ way' = (way + 1) % 4 /\ UNCHANGED here

\* SurviveState and GatherState: to the first tile with what is wanted.
ChoosesTile ==
    /\ errand = "tile" /\ plan = <<>> /\ signals < MaxSignals
    /\ \E index \in 1 .. (SeenLevel + 1) * (SeenLevel + 1) - 1 :
          /\ goal' = LookPos(here, way, SeenLevel)[index + 1]
          /\ plan' = move_to_tile(index)
    /\ signals' = signals + 1 /\ pushed' = FALSE
    /\ UNCHANGED <<here, way, errand, target, mark, limit, moved>>

\* EVO_PROCESS of the leader, at any time: set_incantation_target.
HearsLeader ==
    /\ errand = "join" /\ signals < MaxSignals
    /\ target' = GetDirection(goal, here, way)
    /\ mark' = Walk(here, goal) /\ moved' = FALSE
    /\ signals' = signals + 1
    /\ UNCHANGED <<here, way, goal, plan, errand, limit, pushed>>

\* The end of JoinIncantationState.execute; at 0 it stays.
FollowsTarget ==
    /\ errand = "join" /\ plan = <<>> /\ target \notin {NoTarget, 0}
    /\ plan' = move_one_step_toward(target) /\ target' = NoTarget
    /\ limit' = IF moved THEN Width + Height ELSE mark - 1
    /\ UNCHANGED <<here, way, goal, errand, mark, moved, signals, pushed>>

\* Ejected on the way, once.
IsEjected ==
    /\ plan # <<>> /\ ~pushed /\ pushed' = TRUE
    /\ \E d \in Dirs : here' = Ahead(here, d)
    /\ moved' = TRUE
    /\ UNCHANGED <<way, goal, plan, errand, target, mark, limit, signals>>

SteeringNext ==
    \/ Forward \/ Left \/ Right
    \/ ChoosesTile \/ HearsLeader \/ FollowsTarget \/ IsEjected

SteeringSpec == SteeringInit /\ [][SteeringNext]_steeringVars

-----------------------------------------------------------------------------
(* Property.                                                               *)

\* The orders of move_to_tile end on the tile that Look showed, and a bearing brings the
\* player one tile nearer to the leader, over the edges of the map too.  Not so one heard
\* before its last order: by then it may point anywhere, and the next has to make up for it.
GetsThere ==
    plan = <<>> /\ ~pushed =>
       IF errand = "tile" THEN here = goal ELSE Walk(here, goal) <= limit

=============================================================================
