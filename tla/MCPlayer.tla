------------------------------ MODULE MCPlayer ------------------------------
(* A player that lives three ticks per unit of food, in a game of two levels. *)
EXTENDS Player

MCRequiredTicks == [k \in Kinds |-> CASE k = "Connect_nbr" -> 0
                                      [] k = "Unknown"     -> 0
                                      [] k = "Inventory"   -> 1
                                      [] k = "Incantation" -> 3
                                      [] OTHER             -> 2]

=============================================================================
