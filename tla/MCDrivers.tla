----------------------------- MODULE MCDrivers -----------------------------
(***************************************************************************)
(* What drives the game, each part on its own, in one run: the command     *)
(* lines, the clock and the resources of the server, and of the AIs the    *)
(* connection, the team and the way of one player.  A behaviour is one of  *)
(* the part chosen at the start, in which the others rest.  No part shares *)
(* a variable with another.                                                *)
(***************************************************************************)
EXTENDS GameLoop, Resources, Connection, AITeam, Steering, CommandLine, FiniteSets

VARIABLE part

\* Of the resources: two players of a team, two kinds of items on two tiles.
Sides     == [p \in {"a1", "a2"} |-> "A"]
Densities == [k \in {"food", "stone"} |-> 1]
Needs     == [k \in {"food", "stone"} |-> IF k = "stone" THEN 1 ELSE 0]

-----------------------------------------------------------------------------
(* Command lines: what the programs need, in any order, with one thing put *)
(* somewhere between, twice, wrong or left out.                            *)

\* The numbers, in units small enough for both spans to be left: an int ends at 31, a
\* port at 15.
Numbers == [two |-> 2, five |-> 5, port |-> 18, minus |-> 32, far |-> 66]
AllWords == DOMAIN Numbers \cup {"empty", "GRAPHIC", "red", "home", "zero16"}
NumberOf ==
    [w \in AllWords |-> IF w \in DOMAIN Numbers THEN Numbers[w] ELSE IF w = "zero16" THEN 16 ELSE 0]

Flag(f)        == [flag |-> f, word |-> "empty"]
Attached(f, w) == [flag |-> f, word |-> w]
Word(w)        == Plain(w)

Needed == {<<Flag("p"), Word("two"), Attached("x", "two")>>, <<Flag("y"), Word("two")>>,
           <<Flag("c"), Word("two")>>, <<Flag("n"), Word("red"), Word("red")>>}

Disturbances ==
    {<<Flag(f)>> : f \in {"p", "n", "other", "dash", "end", "help"}}
        \cup {<<Word(w)>> : w \in {"empty", "five", "GRAPHIC"}}
        \cup {<<Flag(f), Word(w)>> : f \in {"p", "x", "f"}, w \in AllWords}
        \cup {<<Flag("n"), Word(w)>> : w \in {"empty", "GRAPHIC", "home"}}
        \cup {<<Attached("n", "home"), Word("red"), Word("red")>>, <<Flag("c"), Word("five")>>, <<>>}

\* Of the server's flags all orders, of each order all ways to put or to leave out one thing.
ServerLines ==
    UNION {{FlattenSeq(InsertAt(chunks, at, extra)) : at \in 1 .. 5, extra \in Disturbances}
              \cup {FlattenSeq(Tail(chunks))} : chunks \in SetToSeqs(Needed)}

GuiLines ==
    UNION {{one \o two, two \o one} : one \in Disturbances,
        two \in {<<>>, <<Flag("p"), Word("two")>>, <<Flag("h"), Word("home")>>, <<Attached("h", "home")>>}}

AllLines == ServerLines \cup GuiLines

-----------------------------------------------------------------------------

vars == <<part, clock, resourceVars, connectionVars, teamVars, steeringVars, commandLineVars>>

Init ==
    /\ part \in {"loop", "resources", "connection", "team", "steering", "command"}
    /\ LoopInit /\ (part # "loop" => freq = 1)
    /\ ResourcesInit /\ (part # "resources" => world = CHOOSE w \in NewWorlds : TRUE)
    /\ ConnectionInit
    /\ TeamInit
    /\ SteeringInit /\ (part # "steering" => way = 0 /\ errand = "tile")
    /\ (part # "command" => program = "gui" /\ argv = CHOOSE line \in Lines : TRUE) /\ CommandLineInit

loopRest       == UNCHANGED clock
resourcesRest  == UNCHANGED resourceVars
connectionRest == UNCHANGED connectionVars
teamRest       == UNCHANGED teamVars
steeringRest   == UNCHANGED steeringVars
commandRest    == UNCHANGED commandLineVars

Next ==
    /\ UNCHANGED part
    /\ \/ /\ part = "loop" /\ LoopNext
          /\ resourcesRest /\ connectionRest /\ teamRest /\ steeringRest /\ commandRest
       \/ /\ part = "resources" /\ ResourcesNext
          /\ loopRest /\ connectionRest /\ teamRest /\ steeringRest /\ commandRest
       \/ /\ part = "connection" /\ ConnectionNext
          /\ loopRest /\ resourcesRest /\ teamRest /\ steeringRest /\ commandRest
       \/ /\ part = "team" /\ TeamNext
          /\ loopRest /\ resourcesRest /\ connectionRest /\ steeringRest /\ commandRest
       \/ /\ part = "steering" /\ SteeringNext
          /\ loopRest /\ resourcesRest /\ connectionRest /\ teamRest /\ commandRest
       \/ /\ part = "command" /\ CommandLineNext
          /\ loopRest /\ resourcesRest /\ connectionRest /\ teamRest /\ steeringRest

\* Only the clock and the team have something that must go on.  The clock of the other
\* parts is where none of its fair steps is possible.
Fairness ==
    /\ LoopFairness
    /\ \A p \in Team : WF_beat(part = "team" /\ Goes(p))

Spec == Init /\ [][Next]_vars /\ Fairness

=============================================================================
