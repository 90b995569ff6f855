------------------------------- MODULE AITeam -------------------------------
(***************************************************************************)
(* How the AIs of a team come together for a ritual (ai/src/fsm): each is  *)
(* a state machine of its own, and all they know of each other is what     *)
(* they broadcast: EVO_PROCESS while one waits for others, DONE when it    *)
(* stops.  A turn of FiniteStateMachine.run is one step: it reads the      *)
(* broadcasts that have come so far and what it sends comes at any time    *)
(* later, so nothing of another turn could come in between.  Where a       *)
(* player walks is module Steering; what it sees of food, stones and       *)
(* players, and what a ritual comes to, is arbitrary here.  SurviveState,  *)
(* GatherState and ReproduceState keep nothing from one turn to the next   *)
(* and tell nobody anything: they are one state, "Free".                   *)
(***************************************************************************)
EXTENDS Integers, SequencesExt

CONSTANTS
    Team,           \* the leader_id of each player; equal ones would not hear each other
    JoinTimeout,    \* JOIN_SIGNAL_TIMEOUT: turns in Join without a signal
    MaxLevel,       \* the level for which ELEVATION_REQUIREMENTS has no next
    MaxRounds       \* bound: how often a player finds the stones for a ritual

VARIABLES
    ai,             \* what each player has in its state machine and its PlayerState, and in
                    \* "laid", a history, where the stones of its last ritual are: "no" (in
                    \* its bag, or burnt), "down", or "left" on the ground in this turn
    mail,           \* broadcasts sent to each and not yet processed, oldest first
    risen,          \* whether a "Current level" event waits for it
    rounds,         \* how often it found the stones
    beat            \* history: changes with every turn that processed all there was

teamVars == <<ai, mail, risen, rounds, beat>>

None == 0
SURVIVAL_THRESHOLD        == 8
INCANT_FOOD_ABORT         == 10
FOOD_SAFE_FOR_INCANTATION == 13
Foods == {SURVIVAL_THRESHOLD - 1, INCANT_FOOD_ABORT, FOOD_SAFE_FOR_INCANTATION}
Enough == FOOD_SAFE_FOR_INCANTATION + 1     \* stands for that food and the stones

\* A new state object: the fields of all the states in one.
NewState(s, state) ==
    [s EXCEPT !.state = state, !.finished = FALSE, !.stones_placed = FALSE, !.wait_ticks = 0,
              !.ticks_since_signal = 0, !.force_exit = FALSE]

transition_to(s, state) == IF s.state # state \/ s.finished THEN NewState(s, state) ELSE s

TeamInit ==
    /\ ai = [p \in Team |->
          [state |-> "Free", finished |-> FALSE, stones_placed |-> FALSE, wait_ticks |-> 0,
           ticks_since_signal |-> 0, force_exit |-> FALSE, level |-> 1, laid |-> "no",
           joining |-> FALSE, incantation_leader |-> None, incantation_level |-> 0, out |-> <<>>]]
    /\ mail = [p \in Team |-> <<>>]
    /\ risen = [p \in Team |-> FALSE]
    /\ rounds = [p \in Team |-> 0]
    /\ beat = [p \in Team |-> FALSE]

-----------------------------------------------------------------------------
(* PlayerState and EvolveState.                                            *)

set_incantation_target(s, m) ==
    [s EXCEPT !.joining = TRUE, !.incantation_leader = m.leader, !.incantation_level = m.level]

clear_incantation_target(s) ==
    [s EXCEPT !.joining = FALSE, !.incantation_leader = None, !.incantation_level = 0]

broadcast(s, p, kind, level) ==
    [s EXCEPT !.out = Append(@, [kind |-> kind, level |-> level, leader |-> p])]

place_stones(s) == IF s.stones_placed THEN s ELSE [s EXCEPT !.stones_placed = TRUE, !.laid = "down"]

\* The answers to Take are not looked at: "took" tells whether they were all "ok".
reclaim_stones(s, took) ==
    IF s.stones_placed
    THEN [s EXCEPT !.stones_placed = FALSE, !.laid = IF took THEN "no" ELSE "left"]
    ELSE s

reset(s, p, took) == [broadcast(reclaim_stones(s, took), p, "DONE", s.level) EXCEPT !.finished = TRUE]

request(s, m, took) == [set_incantation_target(reclaim_stones(s, took), m) EXCEPT !.finished = TRUE]

required_players(s) == IF s.level = 1 THEN 1 ELSE 2

\* The answer to Incantation: success, "ko" or an answer to another command, or none in 30 s.
handle_result(s, p, success, took) ==
    IF success
    THEN [broadcast(s, p, "DONE", s.level) EXCEPT
             !.level = @ + 1, !.stones_placed = FALSE, !.laid = "no", !.finished = TRUE]
    ELSE reset(s, p, took)

-----------------------------------------------------------------------------
(* The turn, part by part.                                                 *)

_handle_evo_process_NoYield(s, p, m, took) ==
    IF \/ m.level # s.level \/ m.leader = p \/ s.state = "Evolve"
       \/ s.joining /\ m.leader > s.incantation_leader
    THEN s ELSE [set_incantation_target(s, m) EXCEPT !.ticks_since_signal = 0]

_handle_evo_process(s, p, m, took) ==
    IF m.level # s.level \/ m.leader = p THEN s
    ELSE CASE s.state = "Evolve" -> IF m.leader < p THEN request(s, m, took) ELSE s
           [] s.state # "Evolve" /\ s.joining /\ m.leader > s.incantation_leader -> s
           [] OTHER -> [set_incantation_target(s, m) EXCEPT !.ticks_since_signal = 0]   \* on_signal

handle_done(s, m) ==
    IF s.state = "Join" /\ s.incantation_leader \in {None, m.leader}
    THEN [clear_incantation_target(s) EXCEPT !.force_exit = TRUE]
    ELSE s

process_broadcasts(s, p, messages, took) ==
    FoldLeft(LAMBDA t, m : IF m.kind = "EVO_PROCESS" THEN _handle_evo_process(t, p, m, took)
                           ELSE handle_done(t, m),
             s, messages)

Abandon(s) == [s EXCEPT !.laid = IF @ = "down" THEN "left" ELSE @]

\* A player raised by somebody else's ritual forgets the stones it has laid for its own.
process_server_events(s, level) ==
    IF level <= s.level THEN s
    ELSE IF s.state = "Evolve"
    THEN [Abandon(s) EXCEPT !.level = level, !.stones_placed = FALSE, !.wait_ticks = 0, !.finished = TRUE]
    ELSE [s EXCEPT !.level = level]

\* The end of update_state, when nothing holds the player in its state.
ChooseState(s, food) == transition_to(s, IF food = Enough THEN "Evolve" ELSE "Free")

update_state(s, p, food, took) ==
    LET hungry == food < SURVIVAL_THRESHOLD
        left   == s.state = "Join" /\ (hungry \/ ~s.joining \/ s.force_exit)
        t      == IF left THEN clear_incantation_target(s) ELSE s
    IN CASE s.state = "Evolve" /\ hungry -> transition_to(reset(s, p, took), "Free")
         [] s.state = "Evolve" /\ ~hungry /\ ~s.joining /\ ~s.finished -> s
         [] s.state # "Evolve" /\ hungry -> transition_to(t, "Free")
         [] OTHER -> IF t.joining THEN transition_to(t, "Join") ELSE ChooseState(t, food)

\* EvolveState.execute, every way it can go; fork() changes nothing here.
Evolve_execute(s, p, food, took) ==
    LET waited == [s EXCEPT !.wait_ticks = (@ + 1) % 2]
        called == IF waited.wait_ticks = 0 THEN broadcast(waited, p, "EVO_PROCESS", s.level) ELSE waited
    IN IF required_players(s) <= 1
       THEN {[handle_result(place_stones(s), p, ok, took) EXCEPT !.finished = TRUE] : ok \in BOOLEAN}
       ELSE IF food <= INCANT_FOOD_ABORT THEN {reset(s, p, took)}
       ELSE {called, place_stones(called)}
            \cup {handle_result(place_stones(called), p, ok, took) : ok \in BOOLEAN}

Join_execute(s) ==
    IF s.incantation_level \notin {0, s.level} \/ s.ticks_since_signal + 1 > JoinTimeout
    THEN [clear_incantation_target(s) EXCEPT !.force_exit = TRUE]
    ELSE [s EXCEPT !.ticks_since_signal = @ + 1]

execute_state(s, p, food, took) ==
    CASE s.state = "Evolve" -> Evolve_execute(s, p, food, took)
      [] s.state = "Join" -> {Join_execute(s)}
      [] OTHER -> {s}

-----------------------------------------------------------------------------
(* Steps.                                                                  *)

\* A call repeated before the first was processed is as one: both would be taken together.
Deliver(box, messages) ==
    FoldLeft(LAMBDA b, m : IF b # <<>> /\ Last(b) = m THEN b ELSE Append(b, m), box, messages)

\* What becomes of p in a turn with the first n of the broadcasts that are on their way, by
\* all it may find, and whether it begins to prepare a ritual.
Outcomes(p, n, event, took) ==
    LET before == [ai[p] EXCEPT !.laid = IF @ = "left" THEN "no" ELSE @]
        heard  == process_broadcasts(before, p, SubSeq(mail[p], 1, n), took)
        level  == heard.level + (IF event THEN 1 ELSE 0)
        told   == process_server_events(heard, level)
        found  == IF level < MaxLevel /\ rounds[p] < MaxRounds THEN Foods \cup {Enough} ELSE Foods
        updated(food) == update_state(told, p, food, took)
        begins(food)  == updated(food).state = "Evolve" /\ (told.state # "Evolve" \/ told.finished)
    IN UNION {{<<after, begins(food)>> : after \in execute_state(updated(food), p, food, took)} : food \in found}

\* run, with the first n broadcasts.
Turn(p, n) ==
    /\ ai[p].state # "Dead"
    /\ \E event \in {FALSE, risen[p]} :
       \E end \in UNION {Outcomes(p, n, event, took) : took \in BOOLEAN} :
          /\ ai' = [ai EXCEPT ![p] = [end[1] EXCEPT !.out = <<>>]]
          /\ mail' = [q \in Team |-> CASE q = p -> SubSeq(mail[p], n + 1, Len(mail[p]))
                                [] q # p /\ ai[q].state = "Dead" -> <<>>
                                [] OTHER -> Deliver(mail[q], end[1].out)]
          /\ risen' = [risen EXCEPT ![p] = @ /\ ~event]
          /\ rounds' = [rounds EXCEPT ![p] = IF end[2] THEN @ + 1 ELSE @]
          /\ beat' = [beat EXCEPT ![p] = IF n = Len(mail[p]) THEN ~@ ELSE @]

\* In a ritual of somebody else, or one of its own whose answer it did not wait for.
IsRaised(p) ==
    /\ ai[p].state # "Dead" /\ ~risen[p] /\ ai[p].level < MaxLevel
    /\ risen' = [risen EXCEPT ![p] = TRUE]
    /\ UNCHANGED <<ai, mail, rounds, beat>>

\* "dead", or the connection is lost: run ends, and nobody is told.
Dies(p) ==
    /\ ai[p].state # "Dead"
    /\ ai' = [ai EXCEPT ![p] = NewState(Abandon(clear_incantation_target(@)), "Dead")]
    /\ mail' = [mail EXCEPT ![p] = <<>>]
    /\ risen' = [risen EXCEPT ![p] = FALSE]
    /\ beat' = [beat EXCEPT ![p] = FALSE]
    /\ UNCHANGED rounds

TeamNext == \E p \in Team : IsRaised(p) \/ Dies(p) \/ \E n \in 0 .. Len(mail[p]) : Turn(p, n)

\* A turn that processes all there is, told by what only it does.  run goes round as long
\* as the player lives, and what is sent comes in the end: such turns are fair.
Goes(p) == ai[p].state # "Dead" /\ beat' = [beat EXCEPT ![p] = ~@]

-----------------------------------------------------------------------------
(* Properties.                                                             *)

Leads(p) == ai[p].state = "Evolve" /\ ~ai[p].finished

\* Whatever ends the preparation of a ritual, the stones laid for it are taken up or burnt, and
\* while they lie there the player that leads it knows of them.  They stay for good (laid = "left")
\* in three cases that the code does not see to: a Take of them is refused, the player is raised by
\* somebody else's ritual while it prepares its own, or it dies.
StonesComeBack == \A p \in Team : ai[p].laid = "down" => Leads(p) /\ ai[p].stones_placed

Waits(p, q) == ai[p].state = "Join" /\ ai[p].incantation_leader = q

\* A player does not wait for ever for one that no longer prepares a ritual, be it because
\* DONE came before the player had begun to wait or because the two wait for each other.
WaitsEnd == \A p \in Team : \A q \in Team \ {p} : (Waits(p, q) /\ ~Leads(q)) ~> (~Waits(p, q) \/ Leads(q))

\* Two of a level do not prepare a ritual side by side for ever: one of them gives way.
RivalsEnd ==
    \A p, q \in Team :
       p < q => (Leads(p) /\ Leads(q) /\ ai[p].level = ai[q].level)
                ~> ~(Leads(p) /\ Leads(q) /\ ai[p].level = ai[q].level)

\* However the broadcasts cross, the team frees itself: whoever gives up a ritual takes its stones
\* up again (but for StonesComeBack's exceptions), no player waits in vain, and of two rivals one
\* gives way.
TeamSortsItselfOut == []StonesComeBack /\ WaitsEnd /\ RivalsEnd

=============================================================================
