-------------------------- MODULE IncantationProofs --------------------------
(***************************************************************************)
(* What rituals promise, for any number of players, tiles and levels, and  *)
(* rituals of any size and length: the types, who may be frozen, and that  *)
(* Incantation implements Elevation.                                       *)
(*                                                                         *)
(* The refinement needs one fact that no step of it mentions: whoever      *)
(* leads a ritual is listed by it (LeadersAreListed).  It is what makes    *)
(* the leader one of those it raises.                                      *)
(***************************************************************************)
EXTENDS Incantation, TLAPS

LeadersAreListed == \A p \in Players : Busy(p) => p \in ritual[p].team

RitualInv ==
    /\ TypeOK
    /\ FrozenOnlyByRituals
    /\ LeadersAreListed

-----------------------------------------------------------------------------
(* What a call of start leaves behind.  The ritual of p was none, or has   *)
(* just freed everybody it listed: so "free" holds nobody that only p's    *)
(* former ritual accounts for.                                             *)

RitualTypes == [Players -> [team : SUBSET Players, left : 0 .. requiredTicks + 1]]

LEMMA NoRitualType == NoRitual \in [team : SUBSET Players, left : 0 .. requiredTicks + 1]
BY IncantationAssumption DEF NoRitual

\* The outcomes of start that matter to the invariants.
LEMMA StartOutcome ==
    ASSUME TypeOK, LeadersAreListed,
           NEW p \in present, NEW free \in [Players -> BOOLEAN],
           NEW ticks \in 0 .. requiredTicks + 1,
           UNCHANGED present, Start(p, free, ticks)
    PROVE  /\ \E t \in [team : SUBSET present, left : 0 .. requiredTicks + 1] :
                 /\ p \in t.team
                 /\ ritual' = [ritual EXCEPT ![p] = t]
                 /\ \A q \in Players : isIncanting'[q] => free[q] \/ q \in t.team \ {p}
           /\ isIncanting' \in [Players -> BOOLEAN]
<1>1. present \subseteq Players /\ p \in Players
  BY DEF TypeOK
<1>2. CASE \E S \in Selections(p)' :
              /\ ritual' = [ritual EXCEPT ![p] = [team |-> S, left |-> ticks]]
              /\ isIncanting' = [q \in Players |-> q \in S \ {p} \/ free[q]]
  <2>1. PICK S \in Selections(p)' :
           /\ ritual' = [ritual EXCEPT ![p] = [team |-> S, left |-> ticks]]
           /\ isIncanting' = [q \in Players |-> q \in S \ {p} \/ free[q]]
    BY <1>2
  <2>2. S \subseteq present /\ p \in S
    <3>1. S \in SUBSET (Candidates(p)' \cup {p}) /\ p \in S
      BY DEF Selections
    <3>2. Candidates(p)' \subseteq present
      BY DEF Candidates
    <3> QED
      BY <3>1, <3>2
  <2>3. [team |-> S, left |-> ticks] \in [team : SUBSET present, left : 0 .. requiredTicks + 1]
    BY <2>2
  <2>4. isIncanting' \in [Players -> BOOLEAN]
    BY <2>1
  <2>5. \A q \in Players : isIncanting'[q] => free[q] \/ q \in S \ {p}
    BY <2>1
  <2> QED
    BY <2>1, <2>2, <2>3, <2>4, <2>5
<1>3. CASE ritual' = [ritual EXCEPT ![p] = [team |-> {p}, left |-> 0]] /\ isIncanting' = free
  <2>2. [team |-> {p}, left |-> 0] \in [team : SUBSET present, left : 0 .. requiredTicks + 1]
    BY IncantationAssumption
  <2> QED
    BY <1>3, <2>2
<1> QED
  BY <1>2, <1>3 DEF Start

\* The invariants about rituals survive a change of p's ritual to t that freezes
\* nobody t does not list, when those it had frozen before are free.
LEMMA NewRitual ==
    ASSUME RitualInv, NEW p \in present, NEW free \in [Players -> BOOLEAN],
           NEW t \in [team : SUBSET Players, left : 0 .. requiredTicks + 1],
           t.team # {} => p \in t.team,
           \A q \in Players : free[q] => isIncanting[q] /\ q \notin ritual[p].team,
           ritual' = [ritual EXCEPT ![p] = t],
           isIncanting' \in [Players -> BOOLEAN],
           \A q \in Players : isIncanting'[q] => free[q] \/ q \in t.team \ {p},
           UNCHANGED <<present, orphans>>
    PROVE  /\ ritual' \in RitualTypes
           /\ FrozenOnlyByRituals'
           /\ LeadersAreListed'
<1>1. present \subseteq Players /\ ritual \in RitualTypes
  BY DEF RitualInv, TypeOK, RitualTypes
<1>2. ritual' \in RitualTypes
  BY <1>1 DEF RitualTypes
<1>3. /\ ritual'[p] = t
      /\ \A r \in Players \ {p} : ritual'[r] = ritual[r]
  BY <1>1 DEF RitualTypes
<1>4. LeadersAreListed'
  BY <1>1, <1>3 DEF RitualInv, LeadersAreListed, Busy
<1>5. FrozenOnlyByRituals'
  <2> SUFFICES ASSUME NEW q \in present, isIncanting'[q], q \notin orphans
               PROVE  \E r \in present \ {q} : q \in ritual'[r].team
    BY DEF FrozenOnlyByRituals
  <2>1. CASE q \in t.team \ {p}
    BY <1>3, <2>1
  <2>2. CASE free[q]
    <3>1. isIncanting[q] /\ q \notin ritual[p].team
      BY <1>1, <2>2
    <3>2. PICK r \in present \ {q} : q \in ritual[r].team
      BY <3>1 DEF RitualInv, FrozenOnlyByRituals
    <3> QED
      BY <1>1, <1>3, <3>1, <3>2
  <2> QED
    BY <1>1, <2>1, <2>2
<1> QED
  BY <1>2, <1>4, <1>5

\* The same for the commands the queue goes on with after p's last one.
LEMMA NextCommand ==
    ASSUME RitualInv, NEW p \in present, NEW free \in [Players -> BOOLEAN],
           \A q \in Players : free[q] => isIncanting[q] /\ q \notin ritual[p].team,
           UNCHANGED <<present, orphans>>,
           MayStart(p, free) \/ Start(p, free, requiredTicks + 1)
    PROVE  /\ ritual' \in RitualTypes
           /\ isIncanting' \in [Players -> BOOLEAN]
           /\ FrozenOnlyByRituals'
           /\ LeadersAreListed'
<1>1. present \subseteq Players
  BY DEF RitualInv, TypeOK
<1>2. CASE ritual' = [ritual EXCEPT ![p] = NoRitual] /\ isIncanting' = free
  <2>1. NoRitual.team = {}
    BY DEF NoRitual
  <2> QED
    BY <1>2, <2>1, NoRitualType, NewRitual
<1>3. ASSUME NEW ticks \in {requiredTicks, requiredTicks + 1}, Start(p, free, ticks)
      PROVE  /\ ritual' \in RitualTypes
             /\ isIncanting' \in [Players -> BOOLEAN]
             /\ FrozenOnlyByRituals'
             /\ LeadersAreListed'
  <2>1. ticks \in 0 .. requiredTicks + 1
    BY <1>3, IncantationAssumption
  <2>2. PICK t \in [team : SUBSET present, left : 0 .. requiredTicks + 1] :
           /\ p \in t.team
           /\ ritual' = [ritual EXCEPT ![p] = t]
           /\ \A q \in Players : isIncanting'[q] => free[q] \/ q \in t.team \ {p}
    BY <1>3, <2>1, StartOutcome DEF RitualInv
  <2>3. isIncanting' \in [Players -> BOOLEAN]
    BY <1>3, <2>1, StartOutcome DEF RitualInv
  <2>4. t \in [team : SUBSET Players, left : 0 .. requiredTicks + 1]
    BY <1>1
  <2> QED
    BY <2>2, <2>3, <2>4, NewRitual
<1> QED
  BY <1>2, <1>3 DEF MayStart

-----------------------------------------------------------------------------
LEMMA RitualInitInv == Init => RitualInv
<1> SUFFICES ASSUME Init PROVE RitualInv
  OBVIOUS
<1>1. isGameEnd \in BOOLEAN
  BY DEF Init
<1>2. TypeOK
  BY <1>1, IncantationAssumption DEF Init, TypeOK, NoRitual
<1> QED
  BY <1>2 DEF Init, RitualInv, FrozenOnlyByRituals, LeadersAreListed, Busy, NoRitual

\* Everything in TypeOK but the rituals themselves.
WorldTypeOK ==
    /\ present \subseteq Players /\ dead \subseteq present
    /\ todo \subseteq present \ dead /\ orphans \subseteq Players
    /\ pos \in [Players -> Tiles] /\ ground \in [Tiles -> 0 .. MaxStones]
    /\ level \in [Players -> 1 .. kNbLevel + 1]
    /\ isGameEnd \in BOOLEAN

LEMMA TypeSplit ==
    TypeOK <=> WorldTypeOK /\ isIncanting \in [Players -> BOOLEAN] /\ ritual \in RitualTypes
BY DEF TypeOK, WorldTypeOK, RitualTypes

LEMMA TypeSplitNext ==
    ASSUME WorldTypeOK', isIncanting' \in [Players -> BOOLEAN], ritual' \in RitualTypes
    PROVE  TypeOK'
BY DEF TypeOK, WorldTypeOK, RitualTypes

\* Actions that leave the rituals alone.
LEMMA RitualsUntouched ==
    ASSUME RitualInv, WorldTypeOK', UNCHANGED <<present, isIncanting, orphans>>,
           \/ UNCHANGED ritual
           \/ /\ ritual' \in RitualTypes
              /\ \A r \in Players : ritual'[r].team = ritual[r].team
    PROVE  RitualInv'
<1>1. TypeOK'
  BY TypeSplit, TypeSplitNext DEF RitualInv
<1>2. present \subseteq Players /\ \A r \in Players : ritual'[r].team = ritual[r].team
  BY DEF RitualInv, TypeOK
<1>3. LeadersAreListed'
  BY <1>2 DEF RitualInv, LeadersAreListed, Busy
<1>4. FrozenOnlyByRituals'
  BY <1>2 DEF RitualInv, FrozenOnlyByRituals
<1> QED
  BY <1>1, <1>3, <1>4 DEF RitualInv

LEMMA StonesOnTile ==
    ASSUME NEW t \in Tiles, ground \in [Tiles -> 0 .. MaxStones]
    PROVE  /\ ground[t] < MaxStones => [ground EXCEPT ![t] = @ + 1] \in [Tiles -> 0 .. MaxStones]
           /\ ground[t] > 0 => [ground EXCEPT ![t] = @ - 1] \in [Tiles -> 0 .. MaxStones]
<1>1. ground[t] < MaxStones => ground[t] + 1 \in 0 .. MaxStones
  BY IncantationAssumption
<1>2. ground[t] > 0 => ground[t] - 1 \in 0 .. MaxStones
  BY IncantationAssumption
<1> QED
  BY <1>1, <1>2

\* However the visit of a player ends, nobody is added to those still to visit.
LEMMA VisitedStays ==
    ASSUME NEW p, isGameEnd \in BOOLEAN, GoOn(p) \/ Leave \/ Visited(p)
    PROVE  todo' \subseteq todo /\ isGameEnd' \in BOOLEAN
<1>1. CASE GoOn(p)
  <2>1. isGameEnd' \in BOOLEAN
    BY <1>1, Zenon DEF GoOn
  <2> QED
    BY <1>1, <2>1 DEF GoOn
<1>2. CASE Leave
  BY <1>2 DEF Leave
<1> QED
  BY <1>1, <1>2 DEF Visited

LEMMA RitualStep == RitualInv /\ [Next]_vars => RitualInv'
<1> SUFFICES ASSUME RitualInv, [Next]_vars PROVE RitualInv'
  OBVIOUS
<1> USE IncantationAssumption
<1>1. /\ WorldTypeOK /\ ritual \in RitualTypes /\ isIncanting \in [Players -> BOOLEAN]
      /\ present \subseteq Players /\ todo \subseteq present
      /\ pos \in [Players -> Tiles] /\ ground \in [Tiles -> 0 .. MaxStones]
      /\ isGameEnd \in BOOLEAN
  BY TypeSplit DEF RitualInv, WorldTypeOK
<1>2. CASE BeginPass
  <2>1. ground' \in [Tiles -> 0 .. MaxStones]
    <3>1. CASE UNCHANGED ground
      BY <1>1, <3>1
    <3>2. ASSUME NEW t \in Tiles, ground[t] < MaxStones, ground' = [ground EXCEPT ![t] = @ + 1]
          PROVE  ground' \in [Tiles -> 0 .. MaxStones]
      BY <1>1, <3>2, StonesOnTile
    <3> QED
      BY <1>2, <3>1, <3>2 DEF BeginPass
  <2>2. WorldTypeOK'
    BY <1>1, <1>2, <2>1 DEF BeginPass, WorldTypeOK
  <2> QED
    BY <1>2, <2>2, RitualsUntouched DEF BeginPass
<1>3. ASSUME NEW p \in Players, StartMidTick(p) PROVE RitualInv'
  <2>1. \A q \in Players : isIncanting[q] => q \notin ritual[p].team
    BY <1>3 DEF StartMidTick, Busy
  <2>2. /\ ritual' \in RitualTypes /\ isIncanting' \in [Players -> BOOLEAN]
        /\ FrozenOnlyByRituals' /\ LeadersAreListed'
    BY <1>1, <1>3, <2>1, NextCommand DEF StartMidTick
  <2>3. WorldTypeOK'
    BY <1>1, <1>3 DEF StartMidTick, WorldTypeOK
  <2> QED
    BY <2>2, <2>3, TypeSplitNext DEF RitualInv
<1>4. ASSUME NEW p \in Players, Starve(p) PROVE RitualInv'
  <2>0. todo' \subseteq todo /\ isGameEnd' \in BOOLEAN
    BY <1>1, <1>4, VisitedStays DEF Starve
  <2>3. todo' = todo \ {p}
    BY <1>4 DEF Starve, GoOn
  <2>1. WorldTypeOK'
    BY <1>1, <1>4, <2>0, <2>3 DEF Starve, WorldTypeOK
  <2> QED
    BY <1>4, <2>1, RitualsUntouched DEF Starve
<1>5. ASSUME NEW p \in Players, UpdateFrozen(p) PROVE RitualInv'
  <2>0. todo' \subseteq todo /\ isGameEnd' \in BOOLEAN
    BY <1>1, <1>5, VisitedStays DEF UpdateFrozen
  <2>1. WorldTypeOK'
    BY <1>1, <1>5, <2>0 DEF UpdateFrozen, WorldTypeOK
  <2> QED
    BY <1>5, <2>1, RitualsUntouched DEF UpdateFrozen
<1>6. ASSUME NEW p \in Players, UpdateOther(p) PROVE RitualInv'
  <2>1. \A q \in Players : isIncanting[q] => q \notin ritual[p].team
    BY <1>6 DEF UpdateOther, Busy
  <2>2. /\ ritual' \in RitualTypes /\ isIncanting' \in [Players -> BOOLEAN]
        /\ FrozenOnlyByRituals' /\ LeadersAreListed'
    BY <1>1, <1>6, <2>1, NextCommand DEF UpdateOther
  <2>3. pos' \in [Players -> Tiles]
    BY <1>1, <1>6 DEF UpdateOther, Forward, Eject, Set, Take, WorldTypeOK
  <2>4. ground' \in [Tiles -> 0 .. MaxStones]
    <3>1. CASE UNCHANGED ground
      BY <1>1, <3>1
    <3>2. pos[p] \in Tiles
      BY <1>1
    <3>3. CASE Set(p)
      BY <1>1, <3>2, <3>3, StonesOnTile DEF Set
    <3>4. CASE Take(p)
      BY <1>1, <3>2, <3>4, StonesOnTile DEF Take
    <3> QED
      BY <1>6, <3>1, <3>3, <3>4 DEF UpdateOther, Forward, Eject
  <2>6. todo' \subseteq todo /\ isGameEnd' \in BOOLEAN
    BY <1>1, <1>6, VisitedStays DEF UpdateOther
  <2>5. WorldTypeOK'
    BY <1>1, <1>6, <2>3, <2>4, <2>6 DEF UpdateOther, WorldTypeOK
  <2> QED
    BY <2>2, <2>5, TypeSplitNext DEF RitualInv
<1>7. ASSUME NEW p \in Players, UpdateRitual(p) PROVE RitualInv'
  <2>0. todo' \subseteq todo /\ isGameEnd' \in BOOLEAN
    BY <1>1, <1>7, VisitedStays DEF UpdateRitual
  <2>1. WorldTypeOK'
    BY <1>1, <1>7, <2>0 DEF UpdateRitual, WorldTypeOK
  <2>2. /\ ritual' \in RitualTypes
        /\ \A r \in Players : ritual'[r].team = ritual[r].team
    <3> DEFINE left == ritual[p].left
    <3>1. left - 1 \in 0 .. requiredTicks + 1
      BY <1>1, <1>7 DEF UpdateRitual, RitualTypes
    <3> DEFINE rest == [ritual[p] EXCEPT !.left = left - 1]
    <3>2. ritual' = [ritual EXCEPT ![p] = rest]
      BY <1>1, <1>7 DEF UpdateRitual, Elapsed, RitualTypes
    <3>3. rest \in [team : SUBSET Players, left : 0 .. requiredTicks + 1]
      <4>1. ritual[p] \in [team : SUBSET Players, left : 0 .. requiredTicks + 1]
        BY <1>1 DEF RitualTypes
      <4> HIDE DEF left
      <4> QED
        BY <3>1, <4>1
    <3>4. rest.team = ritual[p].team
      BY <1>1 DEF RitualTypes
    <3> HIDE DEF rest
    <3> QED
      BY <1>1, <3>2, <3>3, <3>4 DEF RitualTypes
  <2> QED
    BY <1>7, <2>1, <2>2, RitualsUntouched DEF UpdateRitual
<1>8. ASSUME NEW p \in Players, Succeed(p) PROVE RitualInv'
  <2> DEFINE free == Freed(ritual[p].team, TRUE)
  <2>1. free \in [Players -> BOOLEAN]
        /\ \A q \in Players : free[q] => isIncanting[q] /\ q \notin ritual[p].team
    BY <1>1 DEF Freed
  <2>2. /\ ritual' \in RitualTypes /\ isIncanting' \in [Players -> BOOLEAN]
        /\ FrozenOnlyByRituals' /\ LeadersAreListed'
    BY <1>1, <1>8, <2>1, NextCommand DEF Succeed, Ends
  <2>3. ground' \in [Tiles -> 0 .. MaxStones]
    BY <1>1, <1>8 DEF Succeed, Fulfilled, EnoughStones, WorldTypeOK
  <2>4. level' \in [Players -> 1 .. kNbLevel + 1]
    BY <1>1, <1>8 DEF Succeed, Raised, WorldTypeOK
  <2>6. todo' \subseteq todo /\ isGameEnd' \in BOOLEAN
    BY <1>1, <1>8, VisitedStays DEF Succeed
  <2>5. WorldTypeOK'
    BY <1>1, <1>8, <2>3, <2>4, <2>6 DEF Succeed, WorldTypeOK
  <2> QED
    BY <2>2, <2>5, TypeSplitNext DEF RitualInv
<1>9. ASSUME NEW p \in Players, Fail(p) PROVE RitualInv'
  <2> DEFINE free == Freed(ritual[p].team, FALSE)
  <2>1. free \in [Players -> BOOLEAN]
        /\ \A q \in Players : free[q] => isIncanting[q] /\ q \notin ritual[p].team
    BY <1>1 DEF Freed
  <2>2. /\ ritual' \in RitualTypes /\ isIncanting' \in [Players -> BOOLEAN]
        /\ FrozenOnlyByRituals' /\ LeadersAreListed'
    BY <1>1, <1>9, <2>1, NextCommand DEF Fail, Ends
  <2>6. todo' \subseteq todo /\ isGameEnd' \in BOOLEAN
    BY <1>1, <1>9, VisitedStays DEF Fail
  <2>3. WorldTypeOK'
    BY <1>1, <1>9, <2>6 DEF Fail, WorldTypeOK
  <2> QED
    BY <2>2, <2>3, TypeSplitNext DEF RitualInv
<1>10. ASSUME NEW p \in Players, Throw(p) PROVE RitualInv'
  <2>0. todo' \subseteq todo /\ isGameEnd' \in BOOLEAN
    BY <1>1, <1>10, VisitedStays DEF Throw
  <2>1. WorldTypeOK'
    BY <1>1, <1>10, <2>0 DEF Throw, WorldTypeOK
  <2> DEFINE rest == [ritual[p] EXCEPT !.left = 0]
  <2>4. ritual' = [ritual EXCEPT ![p] = rest]
    BY <1>1, <1>10 DEF Throw, RitualTypes
  <2>5. rest \in [team : SUBSET Players, left : 0 .. requiredTicks + 1] /\ rest.team = ritual[p].team
    <3>1. ritual[p] \in [team : SUBSET Players, left : 0 .. requiredTicks + 1]
      BY <1>1 DEF RitualTypes
    <3>2. 0 \in 0 .. requiredTicks + 1
      OBVIOUS
    <3> QED
      BY <3>1, <3>2
  <2> HIDE DEF rest
  <2>2. /\ ritual' \in RitualTypes
        /\ \A r \in Players : ritual'[r].team = ritual[r].team
    BY <1>1, <2>4, <2>5 DEF RitualTypes
  <2> QED
    BY <1>10, <2>1, <2>2, RitualsUntouched DEF Throw
<1>11. ASSUME NEW p \in Players, RemovePlayer(p) PROVE RitualInv'
  <2>1. WorldTypeOK'
    BY <1>1, <1>11 DEF RemovePlayer, WorldTypeOK, RitualTypes
  <2>2. /\ ritual' \in RitualTypes /\ isIncanting' \in [Players -> BOOLEAN]
        /\ ritual'[p].team = {} /\ \A r \in Players \ {p} : ritual'[r] = ritual[r]
    BY <1>1, <1>11, NoRitualType DEF RemovePlayer, RitualTypes, NoRitual
  <2>3. LeadersAreListed'
    BY <1>1, <2>2 DEF RitualInv, LeadersAreListed, Busy
  <2>4. FrozenOnlyByRituals'
    <3> SUFFICES ASSUME NEW q \in present', isIncanting'[q], q \notin orphans'
                 PROVE  \E r \in present' \ {q} : q \in ritual'[r].team
      BY DEF FrozenOnlyByRituals
    <3>1. q \in present \ {p} /\ isIncanting[q] /\ q \notin orphans \cup ritual[p].team
      BY <1>1, <1>11 DEF RemovePlayer
    <3>2. PICK r \in present \ {q} : q \in ritual[r].team
      BY <3>1 DEF RitualInv, FrozenOnlyByRituals
    <3>3. r # p /\ r \in present'
      BY <1>11, <3>1, <3>2 DEF RemovePlayer
    <3> QED
      BY <1>1, <2>2, <3>2, <3>3
  <2> QED
    BY <2>1, <2>2, <2>3, <2>4, TypeSplitNext DEF RitualInv
<1>12. CASE UNCHANGED vars
  <2>1. WorldTypeOK'
    BY <1>1, <1>12 DEF vars, WorldTypeOK
  <2> QED
    BY <1>12, <2>1, RitualsUntouched DEF vars
<1> QED
  BY <1>2, <1>3, <1>4, <1>5, <1>6, <1>7, <1>8, <1>9, <1>10, <1>11, <1>12 DEF Next, Visit

-----------------------------------------------------------------------------
(* Theorems.                                                               *)

\* The inductive invariant holds however the visits of World::update are interleaved with
\* messages and disconnections.
THEOREM RitualInvariant == Spec => []RitualInv
BY RitualInitInv, RitualStep, PTL DEF Spec

\* Types are kept whatever rituals overlap: nobody's level leaves its range, and a
\* tile never has fewer stones than none.
THEOREM RitualTypesCorrect == Spec => []TypeOK
<1>1. RitualInv => TypeOK
  BY DEF RitualInv
<1> QED
  BY <1>1, RitualInvariant, PTL

\* However rituals overlap and players leave, nobody is frozen but by a ritual that
\* lists it and whose leader is there, or was removed.
THEOREM FreezingCorrect == Spec => []FrozenOnlyByRituals
<1>1. RitualInv => FrozenOnlyByRituals
  BY DEF RitualInv
<1> QED
  BY <1>1, RitualInvariant, PTL

LEMMA ElevationInit == Init => Promise!Init
BY IncantationAssumption DEF Init, Promise!Init

LEMMA ElevationStep == RitualInv /\ [Next]_vars => [Promise!Next]_(Promise!vars)
<1> SUFFICES ASSUME RitualInv, [Next]_vars PROVE [Promise!Next]_(Promise!vars)
  OBVIOUS
<1> USE IncantationAssumption
<1>1. /\ ground \in [Tiles -> Nat] /\ pos \in [Players -> Tiles]
      /\ level \in [Players -> 1 .. kNbLevel + 1] /\ ritual \in RitualTypes
      /\ LeadersAreListed
  BY DEF RitualInv, TypeOK, RitualTypes
<1>2. pos' \in [Players -> Tiles] /\ ground' \in [Tiles -> Nat]
  BY RitualStep DEF RitualInv, TypeOK
<1>3. CASE UNCHANGED <<present, level>>
  BY <1>2, <1>3 DEF Promise!Next, Promise!Live
<1>4. ASSUME NEW p \in Players, Succeed(p) PROVE Promise!Next
  <2> DEFINE S == ritual[p].team
  <2>1. p \in S /\ S \in SUBSET Players
    BY <1>1, <1>4 DEF Succeed, Ends, LeadersAreListed, RitualTypes
  <2>2. S \subseteq present /\ level[p] <= kNbLevel /\ ground[pos[p]] >= Stones[level[p]]
    BY <1>4 DEF Succeed, Fulfilled, EnoughStones
  <2>3. /\ ground' = [ground EXCEPT ![pos[p]] = @ - Stones[level[p]]]
        /\ level' = Promise!Raised(S) /\ UNCHANGED <<present, pos>>
    BY <1>4 DEF Succeed, Raised, Promise!Raised
  <2>4. Promise!Elevate(p, S)
    BY <2>1, <2>2, <2>3 DEF Promise!Elevate
  <2> QED
    BY <2>1, <2>4 DEF Promise!Next
<1>5. ASSUME NEW p \in Players, RemovePlayer(p) PROVE Promise!Next
  <2>1. Promise!Leave(p)
    BY <1>5 DEF RemovePlayer, Promise!Leave
  <2> QED
    BY <2>1 DEF Promise!Next
<1>6. ASSUME NEW p \in Players, StartMidTick(p) PROVE UNCHANGED <<present, level>>
  BY <1>6 DEF StartMidTick
<1>7. ASSUME NEW p \in Players, Visit(p) PROVE UNCHANGED <<present, level>> \/ Succeed(p)
  BY <1>7 DEF Visit, Starve, UpdateFrozen, UpdateOther, UpdateRitual, Fail, Throw
<1>8. CASE BeginPass \/ UNCHANGED vars
  <2>1. UNCHANGED <<present, level>>
    BY <1>8 DEF BeginPass, vars
  <2> QED
    BY <1>3, <2>1
<1> QED
  BY <1>3, <1>4, <1>5, <1>6, <1>7, <1>8 DEF Next

\* Every level gained is paid for with the stones on the tile where a listed leader
\* stands, by one level at most, and none is ever lost: Incantation implements Elevation
\* for any number of players, tiles, levels and stones.
THEOREM ElevationCorrect == Spec => ElevationIsEarned
<1>1. Spec => Promise!Init /\ [][Promise!Next]_(Promise!vars)
  BY RitualInvariant, ElevationInit, ElevationStep, PTL DEF Spec
<1> QED
  BY <1>1 DEF ElevationIsEarned, Promise!Spec

=============================================================================
