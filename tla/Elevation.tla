----------------------------- MODULE Elevation -----------------------------
(***************************************************************************)
(* What the rituals of Trantor promise, whatever happens while they last:  *)
(* levels only rise when some player's tile holds the stones its level     *)
(* asks for, these stones disappear at that moment, and everyone the       *)
(* ritual lists gains one level at most.  Nobody ever loses a level.       *)
(* Module Incantation is shown to implement this.                          *)
(***************************************************************************)
EXTENDS Integers

CONSTANTS
    Players, Tiles,
    kNbLevel,           \* levels that can be left
    Stones              \* getCondition()[level - 1].resources

VARIABLES
    present,            \* players in _playerList
    pos,                \* the tile each stands on
    level,              \* Player::_level
    ground              \* stones on each tile

vars == <<present, pos, level, ground>>

Init ==
    /\ present = Players
    /\ pos \in [Players -> Tiles]
    /\ level = [p \in Players |-> 1]
    /\ ground \in [Tiles -> Nat]

Raised(S) == [p \in Players |-> IF p \in S /\ level[p] <= kNbLevel THEN level[p] + 1 ELSE level[p]]

Elevate(p, S) ==
    /\ p \in S /\ S \subseteq present
    /\ level[p] <= kNbLevel
    /\ ground[pos[p]] >= Stones[level[p]]
    /\ ground' = [ground EXCEPT ![pos[p]] = @ - Stones[level[p]]]
    /\ level' = Raised(S)
    /\ UNCHANGED <<present, pos>>

\* Players walk, push one another, put stones down and pick them up; the world
\* grows new ones.
Live ==
    /\ pos' \in [Players -> Tiles] /\ ground' \in [Tiles -> Nat]
    /\ UNCHANGED <<present, level>>

Leave(p) ==
    /\ p \in present
    /\ present' = present \ {p}
    /\ UNCHANGED <<pos, level, ground>>

Next ==
    \/ \E p \in Players, S \in SUBSET Players : Elevate(p, S)
    \/ Live
    \/ \E p \in Players : Leave(p)

Spec == Init /\ [][Next]_vars

=============================================================================
