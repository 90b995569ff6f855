------------------------------ MODULE Geometry ------------------------------
(***************************************************************************)
(* The torus as the commands of a player see it: one step ahead, the tiles *)
(* Look reports in their order, and the direction from which a Broadcast   *)
(* is heard (server/src/game/Player.cpp, World.cpp and                     *)
(* command/Broadcast.cpp).  y grows downwards and orientations count       *)
(* clockwise from NORTH = 0.                                               *)
(***************************************************************************)
EXTENDS Integers, SequencesExt

CONSTANTS Width, Height

Dirs == 0 .. 3
Pos  == [x : 0 .. Width - 1, y : 0 .. Height - 1]

\* The int coordinates brought back into the map; % of TLA+ is never negative.
OnMap(x, y) == [x |-> x % Width, y |-> y % Height]

playerMove       == << <<0, -1>>, <<1, 0>>, <<0, 1>>, <<-1, 0>> >>
diagonalLeftMove == << <<-1, -1>>, <<1, -1>>, <<1, 1>>, <<-1, 1>> >>
rightTile        == << <<1, 0>>, <<0, 1>>, <<-1, 0>>, <<0, -1>> >>

\* n times the vector that a table has for an orientation.
Step(p, table, d, n) == OnMap(p.x + n * table[d + 1][1], p.y + n * table[d + 1][2])

Ahead(p, d) == Step(p, playerMove, d, 1)

-----------------------------------------------------------------------------
(* Look: the tile of the player, row 0, then one row further for each      *)
(* level, from its left end to its right end.                              *)

LookRow(p, d, i) ==
    LET left == Step(p, diagonalLeftMove, d, i)
    IN [j \in 1 .. 2 * i + 1 |-> Step(left, rightTile, d, j - 1)]

LookPos(p, d, level) == FlattenSeq([i \in 1 .. level + 1 |-> LookRow(p, d, i - 1)])

-----------------------------------------------------------------------------
(* Broadcast: the shortest vector from the listener to the speaker, seen   *)
(* from the orientation of the listener and rounded to one of eight        *)
(* sectors, numbered counter-clockwise from the front.                     *)

\* One axis of the vector, brought back by the map beyond half of it.
Shortest(v, size) == CASE v > size \div 2    -> v - size
                       [] v < -(size \div 2) -> v + size
                       [] OTHER              -> v

Abs(n) == IF n < 0 THEN -n ELSE n

\* Within 22.5 degrees of the axis along a: |b| / |a| < tan(22.5) = sqrt(2) - 1.
\* The bound is irrational, so round() never meets a tie.
Along(a, b) == (Abs(a) + Abs(b)) * (Abs(a) + Abs(b)) < 2 * a * a

Sector(front, left) ==
    CASE Along(front, left) -> IF front > 0 THEN 1 ELSE 5
      [] Along(left, front) -> IF left > 0 THEN 3 ELSE 7
      [] OTHER -> IF front > 0 THEN (IF left > 0 THEN 2 ELSE 8)
                               ELSE (IF left > 0 THEN 4 ELSE 6)

GetDirection(speaker, listener, d) ==
    LET vx    == Shortest(speaker.x - listener.x, Width)
        vy    == Shortest(speaker.y - listener.y, Height)
        dot(u) == vx * u[1] + vy * u[2]
    IN IF vx = 0 /\ vy = 0 THEN 0
       ELSE Sector(dot(playerMove[d + 1]), -dot(rightTile[d + 1]))

=============================================================================
