--------------------------- MODULE MCIncantation ---------------------------
(* Three players on two tiles, in a game of two levels to leave that two   *)
(* of a team at the third one win.                                         *)
EXTENDS Incantation

CONSTANTS a, b, c, here, there

MCNbPlayer == <<2, 2>>
MCStones   == <<1, 1>>
MCTeamOf   == [p \in {a, b, c} |-> IF p = c THEN "blue" ELSE "red"]

=============================================================================
