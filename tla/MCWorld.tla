------------------------------ MODULE MCWorld ------------------------------
(* A 3 x 2 torus, two teams of one egg each and room for one fork.         *)
EXTENDS World

CONSTANTS red, blue

MCTeamNames == <<red, blue>>
MCTwinNames == <<red, red>>

=============================================================================
