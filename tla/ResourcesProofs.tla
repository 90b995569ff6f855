--------------------------- MODULE ResourcesProofs ---------------------------
(***************************************************************************)
(* Items are neither made nor lost, and a victory is seen and final, for   *)
(* every number of players, tiles, kinds of items and levels.              *)
(*                                                                         *)
(* What there is of a kind is the number of its items, so that a step      *)
(* which moves one is an exchange between two sets of items.  The          *)
(* invariant adds to the properties that an update ends with the check for *)
(* a winner, that nothing is updated any more after the end, and that no   *)
(* player of the last update comes back under its id.                      *)
(***************************************************************************)
EXTENDS Resources, FiniteSetTheorems, TLAPS

Commands ==
    {NoCommand, [does |-> "move"]}
        \cup [does : {"take", "set"}, what : Wares]
        \cup [does : {"ritual"}, ids : SUBSET Folk]

Person == [bag : [Wares -> Nat], tile : Spots, level : Nat, dead : BOOLEAN, command : Commands]

Grounds == [Spots -> [Wares -> Nat]]

Worlds ==
    [stock : Grounds, people : UNION {[some -> Person] : some \in SUBSET Folk},
     made : [Wares -> Int], gone : SUBSET Folk]

Balanced(w) == \A k \in Wares : OnGround(w, k) + InBags(w, k) = w.made[k]

-----------------------------------------------------------------------------
(* Amounts.                                                                *)

LEMMA UnitsOfOne ==
    ASSUME NEW t, NEW n \in Nat
    PROVE  IsFiniteSet({t} \X (1 .. n)) /\ Cardinality({t} \X (1 .. n)) = n
<1>1. IsFiniteSet({t}) /\ Cardinality({t}) = 1
  BY FS_Singleton
<1>2. IsFiniteSet(1 .. n) /\ Cardinality(1 .. n) = n
  BY FS_Interval
<1> DEFINE place == {t}
           items == 1 .. n
<1>3. IsFiniteSet(place) /\ Cardinality(place) = 1 /\ IsFiniteSet(items) /\ Cardinality(items) = n
  BY <1>1, <1>2
<1> HIDE DEF place, items
<1>4. IsFiniteSet(place \X items) /\ Cardinality(place \X items) = 1 * n
  BY <1>3, FS_Product
<1> QED
  BY <1>4 DEF place, items

LEMMA AmountIsNatural ==
    ASSUME NEW S, IsFiniteSet(S), NEW count \in [S -> Nat]
    PROVE  IsFiniteSet(Units(count)) /\ Amount(count) \in Nat
<1> DEFINE parts == {{t} \X (1 .. count[t]) : t \in S}
           pile  == [t \in S |-> {t} \X (1 .. count[t])]
<1>1. IsFiniteSet(parts)
  <2>1. pile \in Surjection(S, parts)
    BY DEF Surjection
  <2> QED
    BY <2>1, FS_Surjection
<1>2. \A part \in parts : IsFiniteSet(part)
  <2>1. \A t \in S : IsFiniteSet({t} \X (1 .. count[t]))
    <3> TAKE t \in S
    <3>1. count[t] \in Nat
      OBVIOUS
    <3> QED
      BY <3>1, UnitsOfOne
  <2> QED
    BY <2>1, Zenon
<1>3. Units(count) = UNION parts
  BY DEF Units
<1>4. IsFiniteSet(Units(count))
  <2> HIDE DEF parts
  <2> QED
    BY <1>1, <1>2, <1>3, FS_UNION
<1> QED
  BY <1>4, FS_CardinalityType DEF Amount

\* One place more.
LEMMA AmountMore ==
    ASSUME NEW S, IsFiniteSet(S), NEW t, t \notin S, NEW all \in [S \cup {t} -> Nat], NEW rest \in [S -> Nat],
           \A s \in S : all[s] = rest[s]
    PROVE  Amount(all) = Amount(rest) + all[t]
<1> DEFINE one == {t} \X (1 .. all[t])
<1>1. Units(all) = Units(rest) \cup one
  BY DEF Units
<1>2. Units(rest) \cap one = {}
  BY DEF Units
<1>3. IsFiniteSet(one) /\ Cardinality(one) = all[t]
  <2>1. all[t] \in Nat
    OBVIOUS
  <2> QED
    BY <2>1, UnitsOfOne
<1>4. IsFiniteSet(Units(rest)) /\ Cardinality(Units(rest)) \in Nat
  BY AmountIsNatural DEF Amount
<1>5. Cardinality(Units(rest) \cup one) = Cardinality(Units(rest)) + Cardinality(one) - Cardinality(Units(rest) \cap one)
  BY <1>3, <1>4, FS_Union
<1>6. Amount(all) = Cardinality(Units(all)) /\ Amount(rest) = Cardinality(Units(rest))
  BY DEF Amount
<1>7. all[t] \in Nat
  OBVIOUS
<1>8. Cardinality(Units(rest) \cap one) = 0
  BY <1>2, FS_EmptySet
<1> HIDE DEF one
<1> QED
  BY <1>1, <1>3, <1>4, <1>5, <1>6, <1>7, <1>8

\* One place changed.
LEMMA AmountChanged ==
    ASSUME NEW S, IsFiniteSet(S), NEW t \in S, NEW old \in [S -> Nat], NEW new \in [S -> Nat],
           \A s \in S \ {t} : new[s] = old[s]
    PROVE  Amount(new) - Amount(old) = new[t] - old[t]
<1> DEFINE rest == [s \in S \ {t} |-> old[s]]
<1>1. IsFiniteSet(S \ {t}) /\ (S \ {t}) \cup {t} = S
  BY FS_RemoveElement
<1>2. rest \in [S \ {t} -> Nat]
  OBVIOUS
<1>3. Amount(new) = Amount(rest) + new[t]
  BY <1>1, <1>2, AmountMore
<1>4. Amount(old) = Amount(rest) + old[t]
  BY <1>1, <1>2, AmountMore
<1>5. Amount(rest) \in Nat
  BY <1>1, <1>2, AmountIsNatural
<1>6. new[t] \in Nat /\ old[t] \in Nat
  OBVIOUS
<1> HIDE DEF rest
<1> QED
  BY <1>3, <1>4, <1>5, <1>6

LEMMA AmountOfNothing ==
    ASSUME NEW S, NEW count, DOMAIN count = S, \A t \in S : count[t] = 0
    PROVE  Amount(count) = 0
<1>1. Units(count) = {}
  BY DEF Units
<1> QED
  BY <1>1, FS_EmptySet DEF Amount

-----------------------------------------------------------------------------
(* Worlds.                                                                 *)

LEMMA WorldFacts ==
    ASSUME NEW w \in Worlds
    PROVE  /\ DOMAIN w.people \subseteq Folk
           /\ w.people \in [DOMAIN w.people -> Person]
           /\ IsFiniteSet(DOMAIN w.people)
           /\ w.stock \in Grounds /\ w.made \in [Wares -> Int] /\ w.gone \subseteq Folk
           /\ \A p \in DOMAIN w.people : w.people[p].bag \in [Wares -> Nat] /\ w.people[p].tile \in Spots
<1>1. PICK some \in SUBSET Folk : w.people \in [some -> Person]
  BY DEF Worlds
<1>2. DOMAIN w.people \subseteq Folk /\ w.people \in [DOMAIN w.people -> Person]
  BY <1>1
<1>3. IsFiniteSet(DOMAIN w.people)
  BY <1>2, FS_Subset, ResourcesAssumption
<1>4. \A p \in DOMAIN w.people : w.people[p].bag \in [Wares -> Nat] /\ w.people[p].tile \in Spots
  BY <1>2 DEF Person
<1> QED
  BY <1>2, <1>3, <1>4 DEF Worlds

LEMMA IsWorld ==
    ASSUME NEW v, v = [stock |-> v.stock, people |-> v.people, made |-> v.made, gone |-> v.gone],
           v.stock \in Grounds, DOMAIN v.people \subseteq Folk, v.people \in [DOMAIN v.people -> Person],
           v.made \in [Wares -> Int], v.gone \subseteq Folk
    PROVE  v \in Worlds
BY DEF Worlds

LEMMA WorldParts ==
    ASSUME NEW w \in Worlds
    PROVE  w = [stock |-> w.stock, people |-> w.people, made |-> w.made, gone |-> w.gone]
BY DEF Worlds

LEMMA AmountsAreNatural ==
    ASSUME NEW w \in Worlds, NEW k \in Wares
    PROVE  OnGround(w, k) \in Nat /\ InBags(w, k) \in Nat
<1>1. [t \in Spots |-> w.stock[t][k]] \in [Spots -> Nat]
  BY WorldFacts DEF Grounds
<1>2. [p \in DOMAIN w.people |-> w.people[p].bag[k]] \in [DOMAIN w.people -> Nat]
  BY WorldFacts
<1>3. Amount([t \in Spots |-> w.stock[t][k]]) \in Nat
  BY <1>1, ResourcesAssumption, AmountIsNatural
<1>4. Amount([p \in DOMAIN w.people |-> w.people[p].bag[k]]) \in Nat
  BY <1>2, WorldFacts, AmountIsNatural
<1> QED
  BY <1>3, <1>4 DEF OnGround, InBags

\* What changes at one tile and with one player changes the total by as much.
LEMMA ChangedAtOnePlace ==
    ASSUME NEW w \in Worlds, NEW v \in Worlds, DOMAIN v.people = DOMAIN w.people,
           NEW t \in Spots, NEW p \in DOMAIN w.people, NEW k \in Wares,
           \A s \in Spots \ {t} : v.stock[s][k] = w.stock[s][k],
           \A q \in DOMAIN w.people \ {p} : v.people[q].bag[k] = w.people[q].bag[k]
    PROVE  OnGround(v, k) + InBags(v, k) - (OnGround(w, k) + InBags(w, k)) =
              v.stock[t][k] - w.stock[t][k] + (v.people[p].bag[k] - w.people[p].bag[k])
<1> DEFINE owners  == DOMAIN w.people
           wGround == [s \in Spots |-> w.stock[s][k]]
           vGround == [s \in Spots |-> v.stock[s][k]]
           wBags   == [q \in owners |-> w.people[q].bag[k]]
           vBags   == [q \in owners |-> v.people[q].bag[k]]
<1>1. wGround \in [Spots -> Nat] /\ vGround \in [Spots -> Nat]
  BY WorldFacts DEF Grounds
<1>2. wBags \in [owners -> Nat] /\ vBags \in [owners -> Nat]
  BY WorldFacts
<1>3. Amount(vGround) - Amount(wGround) = vGround[t] - wGround[t]
  <2>1. \A s \in Spots \ {t} : vGround[s] = wGround[s]
    OBVIOUS
  <2> HIDE DEF wGround, vGround
  <2> QED
    BY <1>1, <2>1, ResourcesAssumption, AmountChanged
<1>4. Amount(vBags) - Amount(wBags) = vBags[p] - wBags[p]
  <2>1. \A q \in owners \ {p} : vBags[q] = wBags[q]
    OBVIOUS
  <2>2. IsFiniteSet(owners) /\ p \in owners
    BY WorldFacts
  <2> HIDE DEF wBags, vBags, owners
  <2> QED
    BY <1>2, <2>1, <2>2, AmountChanged
<1>5. /\ OnGround(w, k) = Amount(wGround) /\ OnGround(v, k) = Amount(vGround)
      /\ InBags(w, k) = Amount(wBags) /\ InBags(v, k) = Amount(vBags)
  BY DEF OnGround, InBags
<1>6. /\ OnGround(w, k) \in Nat /\ OnGround(v, k) \in Nat
      /\ InBags(w, k) \in Nat /\ InBags(v, k) \in Nat
  BY AmountsAreNatural
<1>7. /\ vGround[t] = v.stock[t][k] /\ wGround[t] = w.stock[t][k]
      /\ vBags[p] = v.people[p].bag[k] /\ wBags[p] = w.people[p].bag[k]
  OBVIOUS
<1>8. /\ v.stock[t][k] \in Nat /\ w.stock[t][k] \in Nat
      /\ v.people[p].bag[k] \in Nat /\ w.people[p].bag[k] \in Nat
  BY WorldFacts DEF Grounds
<1> HIDE DEF wGround, vGround, wBags, vBags
<1> QED
  BY <1>3, <1>4, <1>5, <1>6, <1>7, <1>8

LEMMA StaysBalanced ==
    ASSUME NEW w \in Worlds, NEW v \in Worlds, DOMAIN v.people = DOMAIN w.people, Balanced(w),
           NEW t \in Spots, NEW p \in DOMAIN w.people,
           \A k \in Wares :
              /\ \A s \in Spots \ {t} : v.stock[s][k] = w.stock[s][k]
              /\ \A q \in DOMAIN w.people \ {p} : v.people[q].bag[k] = w.people[q].bag[k]
              /\ v.made[k] - w.made[k] =
                    v.stock[t][k] - w.stock[t][k] + (v.people[p].bag[k] - w.people[p].bag[k])
    PROVE  Balanced(v)
<1> SUFFICES ASSUME NEW k \in Wares PROVE OnGround(v, k) + InBags(v, k) = v.made[k]
  BY DEF Balanced
<1>1. OnGround(v, k) + InBags(v, k) - (OnGround(w, k) + InBags(w, k)) = v.made[k] - w.made[k]
  BY ChangedAtOnePlace
<1>2. OnGround(w, k) + InBags(w, k) = w.made[k]
  BY DEF Balanced
<1>3. /\ OnGround(v, k) \in Nat /\ InBags(v, k) \in Nat /\ v.made[k] \in Int
      /\ OnGround(w, k) \in Nat /\ InBags(w, k) \in Nat /\ w.made[k] \in Int
  BY AmountsAreNatural, WorldFacts
<1> QED
  BY <1>1, <1>2, <1>3

\* Where players stand, what they can and what they do next does not count.
LEMMA SameItems ==
    ASSUME NEW w \in Worlds, NEW v \in Worlds, DOMAIN v.people = DOMAIN w.people, Balanced(w),
           v.stock = w.stock, v.made = w.made,
           \A q \in DOMAIN w.people : v.people[q].bag = w.people[q].bag
    PROVE  Balanced(v)
<1> SUFFICES ASSUME NEW k \in Wares PROVE OnGround(v, k) + InBags(v, k) = v.made[k]
  BY DEF Balanced
<1>1. OnGround(v, k) = OnGround(w, k)
  BY DEF OnGround
<1>2. [q \in DOMAIN v.people |-> v.people[q].bag[k]] = [q \in DOMAIN w.people |-> w.people[q].bag[k]]
  OBVIOUS
<1>3. InBags(v, k) = InBags(w, k)
  BY <1>2 DEF InBags
<1> QED
  BY <1>1, <1>3 DEF Balanced

-----------------------------------------------------------------------------
(* What the operators of World do to it.                                   *)

LEMMA OthersInPlace ==
    ASSUME NEW w \in Worlds, Balanced(w), NEW people \in [DOMAIN w.people -> Person],
           \A q \in DOMAIN w.people : people[q].bag = w.people[q].bag
    PROVE  LET v == [w EXCEPT !.people = people]
           IN  /\ v \in Worlds /\ Balanced(v) /\ DOMAIN v.people = DOMAIN w.people
               /\ v.people = people /\ v.stock = w.stock /\ v.made = w.made /\ v.gone = w.gone
<1> DEFINE v == [w EXCEPT !.people = people]
<1>1. w = [stock |-> w.stock, people |-> w.people, made |-> w.made, gone |-> w.gone]
  BY WorldParts
<1>2. v = [stock |-> w.stock, people |-> people, made |-> w.made, gone |-> w.gone]
  BY <1>1
<1> HIDE DEF v
<1>3. v \in Worlds /\ DOMAIN v.people = DOMAIN w.people
  BY <1>2, WorldFacts, IsWorld
<1>4. Balanced(v)
  BY <1>2, <1>3, SameItems
<1> QED
  BY <1>2, <1>3, <1>4 DEF v

LEMMA CommandKeepsItems ==
    ASSUME NEW w \in Worlds, Balanced(w), NEW p \in DOMAIN w.people, NEW c \in Commands
    PROVE  LET v == [w EXCEPT !.people[p].command = c]
           IN  /\ v \in Worlds /\ Balanced(v) /\ DOMAIN v.people = DOMAIN w.people
               /\ v.people = [w.people EXCEPT ![p] = [w.people[p] EXCEPT !.command = c]]
               /\ v.stock = w.stock /\ v.made = w.made /\ v.gone = w.gone
<1> DEFINE people == [w.people EXCEPT ![p] = [w.people[p] EXCEPT !.command = c]]
           v      == [w EXCEPT !.people[p].command = c]
<1>1. w.people \in [DOMAIN w.people -> Person]
  BY WorldFacts
<1>2. people \in [DOMAIN w.people -> Person] /\ \A q \in DOMAIN w.people : people[q].bag = w.people[q].bag
  BY <1>1 DEF Person
<1>3. v = [w EXCEPT !.people = people]
  BY <1>1
<1> HIDE DEF people, v
<1>4. /\ v \in Worlds /\ Balanced(v) /\ DOMAIN v.people = DOMAIN w.people
      /\ v.people = people /\ v.stock = w.stock /\ v.made = w.made /\ v.gone = w.gone
  BY <1>2, <1>3, OthersInPlace
<1> QED
  BY <1>4 DEF people, v

LEMMA MovedKeepsItems ==
    ASSUME NEW w \in Worlds, Balanced(w), NEW who, NEW t \in Spots
    PROVE  LET v == Moved(w, who, t)
           IN  v \in Worlds /\ Balanced(v) /\ DOMAIN v.people = DOMAIN w.people
<1> DEFINE people == [q \in DOMAIN w.people |-> IF q \in who THEN [w.people[q] EXCEPT !.tile = t] ELSE w.people[q]]
<1>1. people \in [DOMAIN w.people -> Person] /\ \A q \in DOMAIN w.people : people[q].bag = w.people[q].bag
  BY WorldFacts DEF Person
<1>2. Moved(w, who, t) = [w EXCEPT !.people = people]
  BY DEF Moved
<1> HIDE DEF people
<1> QED
  BY <1>1, <1>2, OthersInPlace

LEMMA PutKeepsItems ==
    ASSUME NEW w \in Worlds, Balanced(w), NEW p \in DOMAIN w.people, NEW k \in Wares, NEW n \in Int,
           w.people[p].bag[k] - n >= 0, w.stock[w.people[p].tile][k] + n >= 0
    PROVE  /\ Put(w, p, k, n) \in Worlds /\ Balanced(Put(w, p, k, n))
           /\ DOMAIN Put(w, p, k, n).people = DOMAIN w.people
<1> DEFINE v == Put(w, p, k, n)
           t == w.people[p].tile
           bag == [w.people[p].bag EXCEPT ![k] = @ - n]
           tile == [w.stock[t] EXCEPT ![k] = @ + n]
           person == [w.people[p] EXCEPT !.bag = bag]
<1>1. w.people[p] \in Person /\ t \in Spots /\ w.people[p].bag \in [Wares -> Nat] /\ w.stock[t] \in [Wares -> Nat]
  BY WorldFacts DEF Grounds
<1>2. bag \in [Wares -> Nat] /\ tile \in [Wares -> Nat]
  BY <1>1
<1>3. person \in Person /\ person.bag = bag
  BY <1>1, <1>2 DEF Person
<1>4. v = [w EXCEPT !.people = [w.people EXCEPT ![p] = person], !.stock = [w.stock EXCEPT ![t] = tile]]
  BY <1>1 DEF Put, Worlds, Person
<1> HIDE DEF v, person
<1>5. [w.people EXCEPT ![p] = person] \in [DOMAIN w.people -> Person] /\ [w.stock EXCEPT ![t] = tile] \in Grounds
  BY <1>1, <1>2, <1>3, WorldFacts DEF Grounds
<1>6. DOMAIN w.people \in SUBSET Folk /\ w.made \in [Wares -> Int]
  BY WorldFacts
<1>7. /\ v \in Worlds
      /\ v.people = [w.people EXCEPT ![p] = person] /\ v.stock = [w.stock EXCEPT ![t] = tile] /\ v.made = w.made
  <2> DEFINE newPeople == [w.people EXCEPT ![p] = person]
             newStock  == [w.stock EXCEPT ![t] = tile]
  <2>1. v = [w EXCEPT !.people = newPeople, !.stock = newStock]
    BY <1>4
  <2>2. newPeople \in [DOMAIN w.people -> Person] /\ newStock \in Grounds
    BY <1>5
  <2> HIDE DEF newPeople, newStock
  <2>5. w = [stock |-> w.stock, people |-> w.people, made |-> w.made, gone |-> w.gone]
    BY WorldParts
  <2>3. v = [stock |-> newStock, people |-> newPeople, made |-> w.made, gone |-> w.gone]
    BY <2>1, <2>5
  <2>4. v \in Worlds
    BY <1>6, <2>2, <2>3, WorldFacts, IsWorld
  <2> QED
    BY <2>3, <2>4 DEF newPeople, newStock
<1>8. DOMAIN v.people = DOMAIN w.people
  BY <1>5, <1>7
<1>9. ASSUME NEW j \in Wares
      PROVE  /\ \A s \in Spots \ {t} : v.stock[s][j] = w.stock[s][j]
             /\ \A q \in DOMAIN w.people \ {p} : v.people[q].bag[j] = w.people[q].bag[j]
             /\ v.made[j] - w.made[j] =
                   v.stock[t][j] - w.stock[t][j] + (v.people[p].bag[j] - w.people[p].bag[j])
  <2>1. /\ \A s \in Spots \ {t} : v.stock[s][j] = w.stock[s][j]
        /\ \A q \in DOMAIN w.people \ {p} : v.people[q].bag[j] = w.people[q].bag[j]
    BY <1>7, WorldFacts DEF Grounds
  <2>2. v.stock[t][j] = IF j = k THEN w.stock[t][j] + n ELSE w.stock[t][j]
    BY <1>1, <1>7, WorldFacts DEF Grounds
  <2>3. v.people[p].bag[j] = IF j = k THEN w.people[p].bag[j] - n ELSE w.people[p].bag[j]
    BY <1>1, <1>3, <1>7, WorldFacts
  <2>4. w.stock[t][j] \in Nat /\ w.people[p].bag[j] \in Nat /\ w.made[j] \in Int
    BY <1>1, WorldFacts
  <2>5. v.made[j] = w.made[j]
    BY <1>7
  <2> QED
    BY <2>1, <2>2, <2>3, <2>4, <2>5
<1>10. Balanced(v)
  <2>1. v \in Worlds /\ t \in Spots
    BY <1>1, <1>7
  <2> HIDE DEF t
  <2> QED
    BY <2>1, <1>8, <1>9, StaysBalanced
<1> QED
  BY <1>7, <1>8, <1>10 DEF v

LEMMA TakeAndSetKeepItems ==
    ASSUME NEW w \in Worlds, Balanced(w), NEW p \in DOMAIN w.people, NEW k \in Wares,
           NEW v \in {ExecuteTake(w, p, k), ExecuteSet(w, p, k)}
    PROVE  v \in Worlds /\ Balanced(v) /\ DOMAIN v.people = DOMAIN w.people
<1>1. w.people[p].bag[k] \in Nat /\ w.stock[w.people[p].tile][k] \in Nat
  BY WorldFacts DEF Grounds
<1>2. CASE v = ExecuteTake(w, p, k)
  <2>1. CASE CanTake(w, p, k)
    <3>1. v = Put(w, p, k, -1)
      BY <1>2, <2>1 DEF ExecuteTake
    <3>2. w.people[p].bag[k] - (-1) >= 0 /\ w.stock[w.people[p].tile][k] + (-1) >= 0
      BY <1>1, <2>1 DEF CanTake, TileOf
    <3> QED
      BY <3>1, <3>2, PutKeepsItems
  <2>2. CASE ~CanTake(w, p, k)
    BY <1>2, <2>2 DEF ExecuteTake
  <2> QED
    BY <2>1, <2>2
<1>3. CASE v = ExecuteSet(w, p, k)
  <2>1. CASE CanSet(w, p, k)
    <3>1. v = Put(w, p, k, 1)
      BY <1>3, <2>1 DEF ExecuteSet
    <3>2. w.people[p].bag[k] - 1 >= 0 /\ w.stock[w.people[p].tile][k] + 1 >= 0
      BY <1>1, <2>1 DEF CanSet
    <3> QED
      BY <3>1, <3>2, PutKeepsItems
  <2>2. CASE ~CanSet(w, p, k)
    BY <1>3, <2>2 DEF ExecuteSet
  <2> QED
    BY <2>1, <2>2
<1> QED
  BY <1>2, <1>3

LEMMA RitualKeepsItems ==
    ASSUME NEW w \in Worlds, Balanced(w), NEW p \in DOMAIN w.people, NEW ids
    PROVE  LET v == ExecuteIncantation(w, p, ids)
           IN  v \in Worlds /\ Balanced(v) /\ DOMAIN v.people = DOMAIN w.people
<1> SUFFICES ASSUME HasEnoughResources(w, p), ids \subseteq DOMAIN w.people
             PROVE  LET v == ExecuteIncantation(w, p, ids)
                    IN  v \in Worlds /\ Balanced(v) /\ DOMAIN v.people = DOMAIN w.people
  BY DEF ExecuteIncantation
<1> DEFINE v == ExecuteIncantation(w, p, ids)
           t == w.people[p].tile
           tile == [k \in Wares |-> w.stock[t][k] - Burns[k]]
           made == [k \in Wares |-> w.made[k] - Burns[k]]
           people == [q \in DOMAIN w.people |->
                        IF q \in ids /\ ~AtTop(w, q) THEN [w.people[q] EXCEPT !.level = @ + 1] ELSE w.people[q]]
<1>1. t \in Spots /\ w.stock[t] \in [Wares -> Nat] /\ w.made \in [Wares -> Int]
  BY WorldFacts DEF Grounds
<1>2. tile \in [Wares -> Nat]
  <2> SUFFICES ASSUME NEW k \in Wares PROVE w.stock[t][k] - Burns[k] \in Nat
    OBVIOUS
  <2>1. w.stock[t][k] >= Burns[k]
    BY DEF HasEnoughResources, TileOf
  <2>2. Burns[k] \in Nat /\ w.stock[t][k] \in Nat
    BY <1>1, ResourcesAssumption
  <2> QED
    BY <2>1, <2>2
<1>3. made \in [Wares -> Int]
  BY <1>1, ResourcesAssumption
<1>4. v = [w EXCEPT !.stock = [w.stock EXCEPT ![t] = tile], !.made = made, !.people = people]
  BY <1>1, WorldParts DEF ExecuteIncantation
<1>5. \A q \in DOMAIN w.people : people[q] \in Person /\ people[q].bag = w.people[q].bag
  BY WorldFacts DEF Person
<1> HIDE DEF v, tile, made, people
<1>6. people \in [DOMAIN w.people -> Person] /\ [w.stock EXCEPT ![t] = tile] \in Grounds
  BY <1>1, <1>2, <1>5, WorldFacts DEF Grounds, people
<1>7. DOMAIN w.people \in SUBSET Folk
  BY WorldFacts
<1>8. v \in Worlds /\ v.people = people /\ v.stock = [w.stock EXCEPT ![t] = tile] /\ v.made = made
  <2> DEFINE newStock == [w.stock EXCEPT ![t] = tile]
  <2>1. v = [w EXCEPT !.stock = newStock, !.made = made, !.people = people]
    BY <1>4
  <2>2. newStock \in Grounds
    BY <1>6
  <2> HIDE DEF newStock
  <2>5. w = [stock |-> w.stock, people |-> w.people, made |-> w.made, gone |-> w.gone]
    BY WorldParts
  <2>3. v = [stock |-> newStock, people |-> people, made |-> made, gone |-> w.gone]
    BY <2>1, <2>5
  <2>4. v \in Worlds
    BY <1>3, <1>6, <1>7, <2>2, <2>3, WorldFacts, IsWorld
  <2> QED
    BY <2>3, <2>4 DEF newStock
<1>9. DOMAIN v.people = DOMAIN w.people
  BY <1>6, <1>8
<1>10. ASSUME NEW k \in Wares
       PROVE  /\ \A s \in Spots \ {t} : v.stock[s][k] = w.stock[s][k]
              /\ \A q \in DOMAIN w.people \ {p} : v.people[q].bag[k] = w.people[q].bag[k]
              /\ v.made[k] - w.made[k] =
                    v.stock[t][k] - w.stock[t][k] + (v.people[p].bag[k] - w.people[p].bag[k])
  <2>1. /\ \A s \in Spots \ {t} : v.stock[s][k] = w.stock[s][k]
        /\ \A q \in DOMAIN w.people \ {p} : v.people[q].bag[k] = w.people[q].bag[k]
    BY <1>5, <1>8, WorldFacts DEF Grounds
  <2>2. v.stock[t][k] = w.stock[t][k] - Burns[k] /\ v.made[k] = w.made[k] - Burns[k]
    BY <1>1, <1>8, WorldFacts DEF Grounds, tile, made
  <2>3. v.people[p].bag[k] = w.people[p].bag[k]
    BY <1>5, <1>8
  <2>4. w.stock[t][k] \in Nat /\ w.people[p].bag[k] \in Nat /\ w.made[k] \in Int /\ Burns[k] \in Nat
    BY <1>1, WorldFacts, ResourcesAssumption
  <2> QED
    BY <2>1, <2>2, <2>3, <2>4
<1>11. Balanced(v)
  <2> HIDE DEF t
  <2> QED
    BY <1>1, <1>8, <1>9, <1>10, StaysBalanced
<1> QED
  BY <1>8, <1>9, <1>11 DEF v

LEMMA CommandFacts ==
    ASSUME NEW w \in Worlds, NEW p \in DOMAIN w.people
    PROVE  w.people[p].command \in Commands /\ w.people[p].dead \in BOOLEAN
BY WorldFacts DEF Person

LEMMA ExecuteKeepsItems ==
    ASSUME NEW w \in Worlds, Balanced(w), NEW p \in DOMAIN w.people, NEW v \in Execute(w, p)
    PROVE  v \in Worlds /\ Balanced(v) /\ DOMAIN v.people = DOMAIN w.people
<1> DEFINE c    == w.people[p].command
           idle == [w EXCEPT !.people[p].command = NoCommand]
<1>1. c \in Commands /\ NoCommand \in Commands
  BY CommandFacts DEF Commands
<1>2. idle \in Worlds /\ Balanced(idle) /\ DOMAIN idle.people = DOMAIN w.people
  BY <1>1, CommandKeepsItems
<1>3. CASE c.does \in {"take", "set"}
  <2>1. c.what \in Wares
    BY <1>1, <1>3 DEF Commands, NoCommand
  <2>2. v \in {ExecuteTake(idle, p, c.what), ExecuteSet(idle, p, c.what)}
    BY <1>3 DEF Execute
  <2> HIDE DEF idle, c
  <2> QED
    BY <1>2, <2>1, <2>2, TakeAndSetKeepItems
<1>4. CASE c.does = "ritual"
  <2>1. v = ExecuteIncantation(idle, p, c.ids)
    BY <1>4 DEF Execute
  <2> HIDE DEF idle, c
  <2> QED
    BY <1>2, <2>1, RitualKeepsItems
<1>5. CASE c.does = "move"
  <2>1. PICK t \in Spots : v \in {Moved(idle, {p}, t), Moved(idle, Others(w, p), t)}
    BY <1>5 DEF Execute
  <2> HIDE DEF idle, c
  <2> QED
    BY <1>2, <2>1, MovedKeepsItems
<1>6. CASE c.does \notin {"take", "set", "ritual", "move"}
  <2>1. v = idle
    BY <1>6 DEF Execute
  <2> HIDE DEF idle
  <2> QED
    BY <1>2, <2>1
<1> QED
  BY <1>3, <1>4, <1>5, <1>6

LEMMA StartKeepsItems ==
    ASSUME NEW w \in Worlds, Balanced(w), NEW p \in DOMAIN w.people, NEW v \in TryStartNextCommand(w, p)
    PROVE  /\ v \in Worlds /\ Balanced(v) /\ DOMAIN v.people = DOMAIN w.people
           /\ \E c \in Commands : v.people = [w.people EXCEPT ![p] = [w.people[p] EXCEPT !.command = c]]
           /\ v.stock = w.stock /\ v.made = w.made /\ v.gone = w.gone
<1>1. PICK c \in Startable(w, p) : v = [w EXCEPT !.people[p].command = c]
  BY DEF TryStartNextCommand
<1>2. c \in Commands
  <2>1. CASE c = [does |-> "move"]
    BY <2>1 DEF Commands
  <2>2. CASE c \in {[does |-> "take", what |-> k] : k \in {k \in Wares : CanTake(w, p, k)}}
    BY <2>2 DEF Commands
  <2>3. CASE c \in {[does |-> "set", what |-> k] : k \in {k \in Wares : CanSet(w, p, k)}}
    BY <2>3 DEF Commands
  <2>4. CASE \E s \in SUBSET DOMAIN w.people : c = [does |-> "ritual", ids |-> {p} \cup s]
    BY <2>4, WorldFacts DEF Commands
  <2> QED
    BY <1>1, <2>1, <2>2, <2>3, <2>4 DEF Startable, Others
<1> QED
  BY <1>1, <1>2, CommandKeepsItems

LEMMA LifeKeepsItems ==
    ASSUME NEW w \in Worlds, Balanced(w), NEW p \in DOMAIN w.people, NEW v \in Lives(w, p)
    PROVE  v \in Worlds /\ Balanced(v) /\ DOMAIN v.people = DOMAIN w.people
<1> DEFINE dying == [w.people EXCEPT ![p] = [w.people[p] EXCEPT !.dead = TRUE]]
           bag   == [w.people[p].bag EXCEPT !["food"] = @ - 1]
           fed   == [w.people EXCEPT ![p] = [w.people[p] EXCEPT !.bag = bag]]
           made  == [w.made EXCEPT !["food"] = @ - 1]
<1>1. w.people \in [DOMAIN w.people -> Person] /\ "food" \in Wares
  BY WorldFacts, ResourcesAssumption
<1>2. w.people[p].bag \in [Wares -> Nat] /\ w.people[p].tile \in Spots /\ w.made \in [Wares -> Int]
  BY WorldFacts
<1>3. CASE v = w
  BY <1>3
<1>4. CASE v = [w EXCEPT !.people[p].dead = TRUE]
  <2>1. dying \in [DOMAIN w.people -> Person] /\ \A q \in DOMAIN w.people : dying[q].bag = w.people[q].bag
    BY <1>1 DEF Person
  <2>2. v = [w EXCEPT !.people = dying]
    BY <1>1, <1>4
  <2> HIDE DEF dying
  <2> QED
    BY <2>1, <2>2, OthersInPlace
<1>5. CASE /\ w.people[p].bag["food"] > 0
           /\ v = [w EXCEPT !.people[p].bag["food"] = @ - 1, !.made["food"] = @ - 1]
  <2>1. bag \in [Wares -> Nat] /\ made \in [Wares -> Int]
    BY <1>1, <1>2, <1>5
  <2>2. fed \in [DOMAIN w.people -> Person]
    BY <1>1, <2>1 DEF Person
  <2>3. v = [w EXCEPT !.people = fed, !.made = made]
    BY <1>1, <1>5
  <2>4. w = [stock |-> w.stock, people |-> w.people, made |-> w.made, gone |-> w.gone]
    BY WorldParts
  <2>5. fed[p].bag = bag /\ \A q \in DOMAIN w.people \ {p} : fed[q].bag = w.people[q].bag
    BY <1>1 DEF Person
  <2>6. ASSUME NEW k \in Wares
        PROVE  made[k] - w.made[k] = bag[k] - w.people[p].bag[k]
    <3>1. w.made[k] \in Int /\ w.people[p].bag[k] \in Nat
      BY <1>2
    <3>2. made[k] = IF k = "food" THEN w.made[k] - 1 ELSE w.made[k]
      BY <1>2
    <3>3. bag[k] = IF k = "food" THEN w.people[p].bag[k] - 1 ELSE w.people[p].bag[k]
      BY <1>2
    <3> QED
      BY <3>1, <3>2, <3>3
  <2> HIDE DEF fed, made, bag
  <2>7. v = [stock |-> w.stock, people |-> fed, made |-> made, gone |-> w.gone]
    BY <2>3, <2>4
  <2>8. v \in Worlds /\ DOMAIN v.people = DOMAIN w.people
    BY <2>1, <2>2, <2>7, WorldFacts, IsWorld
  <2>9. ASSUME NEW k \in Wares
        PROVE  /\ \A s \in Spots \ {w.people[p].tile} : v.stock[s][k] = w.stock[s][k]
               /\ \A q \in DOMAIN w.people \ {p} : v.people[q].bag[k] = w.people[q].bag[k]
               /\ v.made[k] - w.made[k] =
                     v.stock[w.people[p].tile][k] - w.stock[w.people[p].tile][k]
                        + (v.people[p].bag[k] - w.people[p].bag[k])
    <3>1. w.stock[w.people[p].tile][k] \in Nat
      BY <1>2, WorldFacts DEF Grounds
    <3>2. bag[k] \in Nat /\ w.people[p].bag[k] \in Nat
      BY <1>2, <2>1
    <3> QED
      BY <2>5, <2>6, <2>7, <3>1, <3>2
  <2> DEFINE t == w.people[p].tile
  <2>10. t \in Spots
    BY <1>2
  <2>11. ASSUME NEW k \in Wares
         PROVE  /\ \A s \in Spots \ {t} : v.stock[s][k] = w.stock[s][k]
                /\ \A q \in DOMAIN w.people \ {p} : v.people[q].bag[k] = w.people[q].bag[k]
                /\ v.made[k] - w.made[k] =
                      v.stock[t][k] - w.stock[t][k] + (v.people[p].bag[k] - w.people[p].bag[k])
    BY <2>9
  <2> HIDE DEF t
  <2> QED
    BY <2>8, <2>10, <2>11, StaysBalanced
<1> QED
  BY <1>3, <1>4, <1>5 DEF Lives

LEMMA MissingIsNatural ==
    ASSUME NEW w \in Worlds, NEW k \in Wares
    PROVE  Missing(w, k) \in Nat
BY AmountsAreNatural, ResourcesAssumption DEF Missing

LEMMA GrowingKeepsItems ==
    ASSUME NEW w \in Worlds, Balanced(w), NEW v \in AddItemsToMap(w)
    PROVE  v \in Worlds /\ Balanced(v) /\ v.people = w.people
<1> DEFINE counts == UNION {0 .. (OnGround(w, k) + Missing(w, k)) : k \in Wares}
           made   == [k \in Wares |-> w.made[k] + Missing(w, k)]
<1>1. PICK g \in [Spots -> [Wares -> counts]] :
         /\ \A k \in Wares : OnGround([stock |-> g], k) = OnGround(w, k) + Missing(w, k)
         /\ v = [w EXCEPT !.stock = g, !.made = made]
  BY DEF AddItemsToMap
<1>2. counts \subseteq Nat
  BY AmountsAreNatural, MissingIsNatural
<1> HIDE DEF counts
<1>3. g \in Grounds
  BY <1>1, <1>2 DEF Grounds
<1>4. made \in [Wares -> Int] /\ \A k \in Wares : made[k] = w.made[k] + Missing(w, k)
  BY MissingIsNatural, WorldFacts
<1>5. w = [stock |-> w.stock, people |-> w.people, made |-> w.made, gone |-> w.gone]
  BY WorldParts
<1> HIDE DEF made
<1>6. v = [stock |-> g, people |-> w.people, made |-> made, gone |-> w.gone]
  BY <1>1, <1>5
<1>7. v \in Worlds
  BY <1>3, <1>4, <1>6, WorldFacts, IsWorld
<1>8. ASSUME NEW k \in Wares PROVE OnGround(v, k) + InBags(v, k) = v.made[k]
  <2>1. OnGround(v, k) = OnGround(w, k) + Missing(w, k)
    BY <1>1, <1>6 DEF OnGround
  <2>2. InBags(v, k) = InBags(w, k)
    BY <1>6 DEF InBags
  <2>3. OnGround(w, k) + InBags(w, k) = w.made[k]
    BY DEF Balanced
  <2>4. v.made[k] = w.made[k] + Missing(w, k)
    BY <1>4, <1>6
  <2>5. OnGround(w, k) \in Nat /\ InBags(w, k) \in Nat /\ Missing(w, k) \in Nat
    BY AmountsAreNatural, MissingIsNatural
  <2> QED
    BY <2>1, <2>2, <2>3, <2>4, <2>5
<1> QED
  BY <1>6, <1>7, <1>8 DEF Balanced

LEMMA NewWorldsAreBalanced ==
    ASSUME NEW v \in NewWorlds
    PROVE  v \in Worlds /\ Balanced(v) /\ DOMAIN v.people = {}
<1> DEFINE bare   == [t \in Spots |-> [k \in Wares |-> 0]]
           none   == [k \in Wares |-> 0]
           w      == [stock |-> bare, people |-> Nobody, made |-> none, gone |-> {}]
<1>1. v \in AddItemsToMap(w)
  BY DEF NewWorlds
<1>2. bare \in Grounds /\ none \in [Wares -> Int]
  BY DEF Grounds
<1>3. DOMAIN Nobody = {} /\ Nobody \in [{} -> Person]
  BY DEF Nobody
<1>4. w \in Worlds
  BY <1>2, <1>3, IsWorld
<1>5. Balanced(w)
  <2> SUFFICES ASSUME NEW k \in Wares PROVE OnGround(w, k) + InBags(w, k) = w.made[k]
    BY DEF Balanced
  <2>1. OnGround(w, k) = 0
    <3>1. DOMAIN [t \in Spots |-> w.stock[t][k]] = Spots /\ \A t \in Spots : [s \in Spots |-> w.stock[s][k]][t] = 0
      OBVIOUS
    <3> QED
      BY <3>1, AmountOfNothing DEF OnGround
  <2>2. InBags(w, k) = 0
    <3> DEFINE bags == [p \in DOMAIN w.people |-> w.people[p].bag[k]]
    <3>1. DOMAIN bags = {} /\ \A p \in {} : bags[p] = 0
      BY <1>3
    <3> HIDE DEF bags
    <3>2. Amount(bags) = 0
      BY <3>1, AmountOfNothing
    <3> QED
      BY <3>2 DEF InBags, bags
  <2>3. w.made[k] = 0
    OBVIOUS
  <2> QED
    BY <2>1, <2>2, <2>3
<1>6. DOMAIN w.people = {}
  BY <1>3
<1> HIDE DEF w
<1> QED
  BY <1>1, <1>4, <1>5, <1>6, GrowingKeepsItems

\* A player brings its bag and takes it away.
LEMMA OneOwnerMore ==
    ASSUME NEW w \in Worlds, NEW v \in Worlds, NEW p, p \notin DOMAIN w.people,
           DOMAIN v.people = DOMAIN w.people \cup {p}, v.stock = w.stock,
           \A q \in DOMAIN w.people : v.people[q] = w.people[q],
           \A k \in Wares : v.made[k] = w.made[k] + v.people[p].bag[k]
    PROVE  Balanced(w) <=> Balanced(v)
<1> SUFFICES ASSUME NEW k \in Wares
             PROVE  OnGround(w, k) + InBags(w, k) = w.made[k] <=> OnGround(v, k) + InBags(v, k) = v.made[k]
  BY DEF Balanced
<1> DEFINE owners == DOMAIN w.people
           rest   == [q \in owners |-> w.people[q].bag[k]]
           all    == [q \in owners \cup {p} |-> v.people[q].bag[k]]
<1>1. rest \in [owners -> Nat] /\ all \in [owners \cup {p} -> Nat]
  BY WorldFacts
<1>2. \A q \in owners : all[q] = rest[q]
  OBVIOUS
<1>3. IsFiniteSet(owners) /\ p \notin owners
  BY WorldFacts
<1>4. all[p] = v.people[p].bag[k] /\ all[p] \in Nat
  BY <1>1
<1>5. InBags(w, k) = Amount(rest) /\ InBags(v, k) = Amount(all)
  <2>1. [q \in DOMAIN v.people |-> v.people[q].bag[k]] = all
    OBVIOUS
  <2> HIDE DEF all
  <2> QED
    BY <2>1 DEF InBags
<1> HIDE DEF owners, rest, all
<1>6. Amount(all) = Amount(rest) + all[p]
  BY ONLY <1>1, <1>2, <1>3, AmountMore
<1>7. OnGround(v, k) = OnGround(w, k)
  BY DEF OnGround
<1>8. /\ OnGround(w, k) \in Nat /\ InBags(w, k) \in Nat /\ InBags(v, k) \in Nat
      /\ w.made[k] \in Int /\ v.made[k] = w.made[k] + all[p]
  <2>1. OnGround(w, k) \in Nat /\ InBags(w, k) \in Nat /\ InBags(v, k) \in Nat
    BY AmountsAreNatural
  <2>2. w.made[k] \in Int
    BY WorldFacts
  <2> QED
    BY <1>4, <2>1, <2>2
<1>9. InBags(v, k) = InBags(w, k) + all[p]
  BY <1>5, <1>6
<1> QED
  BY ONLY <1>4, <1>7, <1>8, <1>9

-----------------------------------------------------------------------------
(* The steps.                                                              *)

ResourcesSpec == ResourcesInit /\ [][ResourcesNext]_resourceVars

\* Every update ends with the look for a winner, if no exception gets in the way.
UpdateInv ==
    /\ won \in BOOLEAN /\ past.cut \in BOOLEAN /\ past = [world |-> past.world, cut |-> past.cut]
    /\ visiting \subseteq DOMAIN world.people \cup {CheckEnd}
    /\ visiting # {} => CheckEnd \in visiting /\ ~won
    /\ won => DOMAIN past.world.people \subseteq DOMAIN world.people \cup world.gone
    /\ EndIsSeenAndFinal

ResourcesInv == world \in Worlds /\ Balanced(world) /\ UpdateInv

LEMMA ChampionsAreFinite ==
    ASSUME NEW w \in Worlds, NEW side
    PROVE  IsFiniteSet(Champions(w, side))
BY WorldFacts, FS_Subset DEF Champions

LEMMA NoNewWinner ==
    ASSUME NEW w \in Worlds, NEW v \in Worlds, HasWinner(v),
           \A q \in DOMAIN v.people :
              ~v.people[q].dead /\ AtTop(v, q) => q \in DOMAIN w.people /\ ~w.people[q].dead /\ AtTop(w, q)
    PROVE  HasWinner(w)
<1>1. PICK p \in Folk : Cardinality(Champions(v, SideOf[p])) >= kNbPlayerToWin
  BY DEF HasWinner
<1> DEFINE before == Champions(w, SideOf[p])
           after  == Champions(v, SideOf[p])
<1>2. after \subseteq before
  BY DEF Champions
<1>3. IsFiniteSet(before)
  BY ChampionsAreFinite
<1> HIDE DEF before, after
<1>4. Cardinality(after) <= Cardinality(before) /\ IsFiniteSet(after)
  BY <1>2, <1>3, FS_Subset
<1>5. Cardinality(after) \in Nat /\ Cardinality(before) \in Nat
  BY <1>3, <1>4, FS_CardinalityType
<1>6. Cardinality(before) >= kNbPlayerToWin
  BY <1>1, <1>4, <1>5, ResourcesAssumption DEF after
<1> QED
  BY <1>6 DEF HasWinner, before

LEMMA InitHolds ==
    ASSUME ResourcesInit
    PROVE  ResourcesInv
<1>1. world \in Worlds /\ Balanced(world) /\ DOMAIN world.people = {}
  BY NewWorldsAreBalanced DEF ResourcesInit
<1>2. \A side : Champions(world, side) = {}
  BY <1>1 DEF Champions
<1>3. ~HasWinner(world)
  BY <1>2, FS_EmptySet, ResourcesAssumption DEF HasWinner
<1>4. won = FALSE /\ visiting = {} /\ past = [world |-> NotYet, cut |-> FALSE]
  BY DEF ResourcesInit
<1>5. EndIsSeenAndFinal
  BY <1>3, <1>4 DEF EndIsSeenAndFinal
<1> QED
  BY <1>1, <1>4, <1>5 DEF ResourcesInv, UpdateInv

LEMMA BeginUpdateKeeps ==
    ASSUME ResourcesInv, BeginUpdate
    PROVE  ResourcesInv'
<1>1. world \in Worlds /\ Balanced(world) /\ UpdateInv
  BY DEF ResourcesInv
<1>2. world' \in Worlds /\ Balanced(world') /\ world'.people = world.people
  BY <1>1, GrowingKeepsItems DEF BeginUpdate
<1>3. Balanced(world)'
  BY <1>2 DEF Balanced, OnGround, InBags, Amount, Units
<1>4. ~won /\ UNCHANGED <<won, past>> /\ CheckEnd \in visiting' /\ visiting' \subseteq DOMAIN world.people \cup {CheckEnd}
  BY DEF BeginUpdate
<1>5. EndIsSeenAndFinal'
  BY <1>4 DEF EndIsSeenAndFinal
<1> QED
  BY <1>1, <1>2, <1>3, <1>4, <1>5 DEF ResourcesInv, UpdateInv

LEMMA UpdatePlayerKeeps ==
    ASSUME ResourcesInv, NEW p \in Folk, UpdatePlayer(p)
    PROVE  ResourcesInv'
<1>1. world \in Worlds /\ Balanced(world) /\ UpdateInv
  BY DEF ResourcesInv
<1>2. p \in DOMAIN world.people /\ p # CheckEnd /\ visiting # {} /\ CheckEnd \in visiting /\ ~won
  BY <1>1 DEF UpdateInv, UpdatePlayer
<1>3. PICK w \in Lives(world, p) :
         LET atWork == ~w.people[p].dead
             ends   == IF atWork /\ ~Throws(w, p) THEN Execute(w, p) ELSE {}
             threw(v) == /\ visiting' = {} /\ past' = [past EXCEPT !.cut = TRUE]
                         /\ world' = v
         IN  \/ world' \in {w} \cup ends /\ visiting' = visiting \ {p} /\ UNCHANGED past
             \/ atWork /\ Throws(w, p) /\ threw(w)
             \/ \E v \in UNION {TryStartNextCommand(x, p) : x \in ends} :
                   \/ ~Throws(v, p) /\ world' = v /\ visiting' = visiting \ {p} /\ UNCHANGED past
                   \/ Throws(v, p) /\ threw(v)
  BY DEF UpdatePlayer
<1>4. w \in Worlds /\ Balanced(w) /\ DOMAIN w.people = DOMAIN world.people
  BY <1>1, <1>2, LifeKeepsItems
<1>5. world' = w \/ world' \in Execute(w, p) \/ \E x \in Execute(w, p) : world' \in TryStartNextCommand(x, p)
  BY <1>3
<1>6. world' \in Worlds /\ Balanced(world') /\ DOMAIN world'.people = DOMAIN world.people
  <2>1. CASE world' = w
    BY <1>4, <2>1
  <2>2. CASE world' \in Execute(w, p)
    BY <1>2, <1>4, <2>2, ExecuteKeepsItems
  <2>3. CASE \E x \in Execute(w, p) : world' \in TryStartNextCommand(x, p)
    <3>1. PICK x \in Execute(w, p) : world' \in TryStartNextCommand(x, p)
      BY <2>3
    <3>2. x \in Worlds /\ Balanced(x) /\ DOMAIN x.people = DOMAIN world.people
      BY <1>2, <1>4, ExecuteKeepsItems
    <3> QED
      BY <1>2, <3>1, <3>2, StartKeepsItems
  <2> QED
    BY <1>5, <2>1, <2>2, <2>3
<1>7. Balanced(world)'
  BY <1>6 DEF Balanced, OnGround, InBags, Amount, Units
<1>8. \/ visiting' = visiting \ {p} /\ past' = past
      \/ visiting' = {} /\ past' = [past EXCEPT !.cut = TRUE]
  BY <1>3
<1>9. won' = won
  BY DEF UpdatePlayer
<1>10. /\ past'.cut \in BOOLEAN /\ past' = [world |-> past'.world, cut |-> past'.cut]
       /\ visiting' = {} => past'.cut
       /\ visiting' # {} => CheckEnd \in visiting'
       /\ visiting' \subseteq visiting
  <2>1. past.cut \in BOOLEAN /\ past = [world |-> past.world, cut |-> past.cut]
    BY <1>1 DEF UpdateInv
  <2>2. CASE visiting' = visiting \ {p} /\ past' = past
    BY <1>2, <2>1, <2>2
  <2>3. CASE visiting' = {} /\ past' = [past EXCEPT !.cut = TRUE]
    BY <2>1, <2>3
  <2> QED
    BY <1>8, <2>2, <2>3
<1>11. EndIsSeenAndFinal'
  BY <1>2, <1>9, <1>10 DEF EndIsSeenAndFinal
<1>12. UpdateInv'
  BY <1>1, <1>2, <1>6, <1>9, <1>10, <1>11 DEF UpdateInv
<1> QED
  BY <1>6, <1>7, <1>12 DEF ResourcesInv

LEMMA CheckGameEndKeeps ==
    ASSUME ResourcesInv, CheckGameEnd
    PROVE  ResourcesInv'
<1>1. world \in Worlds /\ Balanced(world) /\ UNCHANGED world /\ visiting' = {}
  BY DEF ResourcesInv, CheckGameEnd
<1>2. Balanced(world)'
  BY <1>1 DEF Balanced, OnGround, InBags, Amount, Units
<1>3. won' = HasWinner(world) /\ HasWinner(world)' = HasWinner(world)
  BY <1>1 DEF CheckGameEnd, HasWinner, Champions, AtTop
<1>4. past' = [world |-> IF HasWinner(world) THEN world ELSE NotYet, cut |-> FALSE]
  BY DEF CheckGameEnd
<1>5. HasWinner(world) \in BOOLEAN
  BY DEF HasWinner
<1>6. EndIsSeenAndFinal'
  <2>1. CASE HasWinner(world)
    BY <1>1, <1>3, <1>4, <2>1 DEF EndIsSeenAndFinal
  <2>2. CASE ~HasWinner(world)
    BY <1>1, <1>3, <1>4, <2>2 DEF EndIsSeenAndFinal
  <2> QED
    BY <2>1, <2>2
<1>7. won' => DOMAIN past'.world.people \subseteq DOMAIN world'.people \cup world'.gone
  <2> SUFFICES ASSUME HasWinner(world) PROVE past'.world = world'
    BY <1>3
  <2> QED
    BY <1>1, <1>4
<1>8. past'.cut = FALSE /\ past' = [world |-> past'.world, cut |-> past'.cut]
  BY <1>4
<1> QED
  BY <1>1, <1>2, <1>3, <1>5, <1>6, <1>7, <1>8 DEF ResourcesInv, UpdateInv

\* Between the updates: what is known of the world, of a winner and of the end.
LEMMA BetweenUpdates ==
    ASSUME ResourcesInv, visiting = {}, UNCHANGED <<visiting, won, past>>,
           world' \in Worlds, Balanced(world'),
           \A q \in DOMAIN world'.people :
              ~world'.people[q].dead /\ AtTop(world', q) =>
                 q \in DOMAIN world.people /\ ~world.people[q].dead /\ AtTop(world, q),
           world'.stock = world.stock,
           DOMAIN world.people \cup world.gone \subseteq DOMAIN world'.people \cup world'.gone,
           \A q \in DOMAIN world'.people \cap (DOMAIN world.people \cup world.gone) :
              /\ q \in DOMAIN world.people
              /\ [world'.people[q] EXCEPT !.command = NoCommand] = [world.people[q] EXCEPT !.command = NoCommand]
    PROVE  ResourcesInv'
<1>1. world \in Worlds /\ UpdateInv
  BY DEF ResourcesInv
<1>2. Balanced(world)'
  BY DEF Balanced, OnGround, InBags, Amount, Units
<1>3. HasWinner(world)' => HasWinner(world)
  <2>1. HasWinner(world)' <=> HasWinner(world')
    BY DEF HasWinner, Champions, AtTop
  <2> QED
    BY <1>1, <2>1, NoNewWinner
<1>4. visiting' = {} /\ won' = won /\ past' = past
  OBVIOUS
<1>5. ~past'.cut /\ HasWinner(world)' => won'
  BY <1>1, <1>3, <1>4 DEF UpdateInv, EndIsSeenAndFinal
<1>6. ASSUME won
      PROVE  /\ world'.stock = past.world.stock
             /\ DOMAIN past.world.people \subseteq DOMAIN world'.people \cup world'.gone
             /\ \A q \in DOMAIN world'.people \cap DOMAIN past.world.people :
                   [world'.people[q] EXCEPT !.command = NoCommand] =
                   [past.world.people[q] EXCEPT !.command = NoCommand]
  <2>1. /\ world.stock = past.world.stock
        /\ \A q \in DOMAIN world.people \cap DOMAIN past.world.people :
              [world.people[q] EXCEPT !.command = NoCommand] = [past.world.people[q] EXCEPT !.command = NoCommand]
        /\ DOMAIN past.world.people \subseteq DOMAIN world.people \cup world.gone
    BY <1>1, <1>6 DEF UpdateInv, EndIsSeenAndFinal
  <2> QED
    BY <2>1
<1>7. EndIsSeenAndFinal'
  BY <1>4, <1>5, <1>6 DEF EndIsSeenAndFinal
<1>8. UpdateInv'
  BY <1>1, <1>4, <1>6, <1>7 DEF UpdateInv
<1> QED
  BY <1>2, <1>8 DEF ResourcesInv

LEMMA AskKeeps ==
    ASSUME ResourcesInv, NEW p \in Folk, Ask(p)
    PROVE  ResourcesInv'
<1>1. world \in Worlds /\ Balanced(world) /\ p \in DOMAIN world.people
  BY DEF ResourcesInv, Ask
<1>2. /\ world' \in Worlds /\ Balanced(world') /\ DOMAIN world'.people = DOMAIN world.people
      /\ world'.stock = world.stock /\ world'.gone = world.gone
  BY <1>1, StartKeepsItems DEF Ask
<1>3. PICK c \in Commands : world'.people = [world.people EXCEPT ![p] = [world.people[p] EXCEPT !.command = c]]
  BY <1>1, StartKeepsItems DEF Ask
<1>4. ASSUME NEW q \in DOMAIN world.people
      PROVE  /\ world'.people[q].dead = world.people[q].dead
             /\ world'.people[q].level = world.people[q].level
             /\ [world'.people[q] EXCEPT !.command = NoCommand] = [world.people[q] EXCEPT !.command = NoCommand]
  <2>1. world.people \in [DOMAIN world.people -> Person]
    BY <1>1, WorldFacts
  <2> QED
    BY <1>3, <2>1 DEF Person
<1>5. visiting = {} /\ UNCHANGED <<visiting, won, past>>
  BY DEF Ask
<1>6. \A q \in DOMAIN world'.people :
         ~world'.people[q].dead /\ AtTop(world', q) =>
            q \in DOMAIN world.people /\ ~world.people[q].dead /\ AtTop(world, q)
  BY <1>2, <1>4 DEF AtTop
<1>7. \A q \in DOMAIN world'.people \cap (DOMAIN world.people \cup world.gone) :
         /\ q \in DOMAIN world.people
         /\ [world'.people[q] EXCEPT !.command = NoCommand] = [world.people[q] EXCEPT !.command = NoCommand]
  BY <1>2, <1>4
<1> QED
  BY <1>2, <1>5, <1>6, <1>7, BetweenUpdates

LEMMA JoinKeeps ==
    ASSUME ResourcesInv, NEW p \in Folk, Join(p)
    PROVE  ResourcesInv'
<1> DEFINE first  == Hatched(CHOOSE t \in Spots : TRUE)
           people == [q \in DOMAIN world.people \cup {p} |-> IF q = p THEN first ELSE world.people[q]]
           made   == [world.made EXCEPT !["food"] = @ + kNbStartFood]
<1>1. world \in Worlds /\ Balanced(world) /\ p \notin DOMAIN world.people /\ p \notin world.gone
  BY DEF ResourcesInv, Join
<1>2. first \in Person
  <2>1. (CHOOSE t \in Spots : TRUE) \in Spots
    BY ResourcesAssumption
  <2>2. [k \in Wares |-> IF k = "food" THEN kNbStartFood ELSE 0] \in [Wares -> Nat]
    BY ResourcesAssumption
  <2> QED
    BY <2>1, <2>2 DEF Hatched, Person, Commands
<1>3. first.level = 1 /\ \A k \in Wares : first.bag[k] = IF k = "food" THEN kNbStartFood ELSE 0
  BY DEF Hatched
<1>4. world'= [world EXCEPT !.people = people, !.made = made]
  BY DEF Join
<1>5. world = [stock |-> world.stock, people |-> world.people, made |-> world.made, gone |-> world.gone]
  BY <1>1, WorldParts
<1> HIDE DEF first
<1>6. people \in [DOMAIN world.people \cup {p} -> Person]
  BY <1>1, <1>2, WorldFacts
<1>7. made \in [Wares -> Int] /\ \A k \in Wares : made[k] = world.made[k] + first.bag[k]
  <2>1. world.made \in [Wares -> Int]
    BY <1>1, WorldFacts
  <2> QED
    BY <1>3, <2>1, ResourcesAssumption
<1>8. people[p] = first /\ \A q \in DOMAIN world.people : people[q] = world.people[q]
  BY <1>1
<1> HIDE DEF people, made
<1>9. world' = [stock |-> world.stock, people |-> people, made |-> made, gone |-> world.gone]
  BY <1>4, <1>5
<1>10. world' \in Worlds
  BY <1>1, <1>6, <1>7, <1>9, WorldFacts, IsWorld
<1>11. /\ DOMAIN world'.people = DOMAIN world.people \cup {p} /\ world'.people[p] = first
       /\ \A q \in DOMAIN world.people : world'.people[q] = world.people[q]
       /\ world'.stock = world.stock /\ world'.gone = world.gone
       /\ \A k \in Wares : world'.made[k] = world.made[k] + world'.people[p].bag[k]
  BY <1>6, <1>7, <1>8, <1>9
<1>12. Balanced(world')
  BY <1>1, <1>10, <1>11, OneOwnerMore
<1>13. visiting = {} /\ UNCHANGED <<visiting, won, past>>
  BY DEF Join
<1>14. \A q \in DOMAIN world'.people :
          ~world'.people[q].dead /\ AtTop(world', q) =>
             q \in DOMAIN world.people /\ ~world.people[q].dead /\ AtTop(world, q)
  <2>1. ~AtTop(world', p)
    BY <1>3, <1>11, ResourcesAssumption DEF AtTop
  <2> QED
    BY <1>11, <2>1 DEF AtTop
<1>15. \A q \in DOMAIN world'.people \cap (DOMAIN world.people \cup world.gone) :
          /\ q \in DOMAIN world.people
          /\ [world'.people[q] EXCEPT !.command = NoCommand] = [world.people[q] EXCEPT !.command = NoCommand]
  <2> TAKE q \in DOMAIN world'.people \cap (DOMAIN world.people \cup world.gone)
  <2>1. q # p
    BY <1>1
  <2>2. q \in DOMAIN world.people
    BY <1>11, <2>1
  <2> QED
    BY <1>11, <2>2
<1>16. DOMAIN world.people \cup world.gone \subseteq DOMAIN world'.people \cup world'.gone
  BY <1>11
<1> QED
  BY <1>10, <1>11, <1>12, <1>13, <1>14, <1>15, <1>16, BetweenUpdates

LEMMA LeaveKeeps ==
    ASSUME ResourcesInv, NEW p \in Folk, Leave(p)
    PROVE  ResourcesInv'
<1> DEFINE people == [q \in DOMAIN world.people \ {p} |-> world.people[q]]
           made   == [k \in Wares |-> world.made[k] - world.people[p].bag[k]]
           gone   == world.gone \cup {p}
<1>1. world \in Worlds /\ Balanced(world) /\ p \in DOMAIN world.people
  BY DEF ResourcesInv, Leave
<1>2. world' = [world EXCEPT !.people = people, !.gone = gone, !.made = made]
  BY DEF Leave
<1>3. world = [stock |-> world.stock, people |-> world.people, made |-> world.made, gone |-> world.gone]
  BY <1>1, WorldParts
<1>4. people \in [DOMAIN world.people \ {p} -> Person] /\ gone \subseteq Folk
  BY <1>1, WorldFacts
<1>5. made \in [Wares -> Int] /\ \A k \in Wares : world.made[k] = made[k] + world.people[p].bag[k]
  <2>1. world.made \in [Wares -> Int] /\ world.people[p].bag \in [Wares -> Nat]
    BY <1>1, WorldFacts
  <2> QED
    BY <2>1
<1>6. \A q \in DOMAIN world.people \ {p} : people[q] = world.people[q]
  OBVIOUS
<1>7. gone = world.gone \cup {p}
  OBVIOUS
<1> HIDE DEF people, made, gone
<1>8. world' = [stock |-> world.stock, people |-> people, made |-> made, gone |-> gone]
  BY <1>2, <1>3
<1>9. world' \in Worlds
  BY <1>1, <1>4, <1>5, <1>8, WorldFacts, IsWorld
<1>10. /\ DOMAIN world'.people = DOMAIN world.people \ {p} /\ world'.stock = world.stock
       /\ \A q \in DOMAIN world'.people : world'.people[q] = world.people[q]
       /\ \A k \in Wares : world.made[k] = world'.made[k] + world.people[p].bag[k]
       /\ world'.gone = world.gone \cup {p}
  BY <1>4, <1>5, <1>6, <1>7, <1>8
<1>11. Balanced(world')
  <2>1. p \notin DOMAIN world'.people /\ DOMAIN world.people = DOMAIN world'.people \cup {p} /\ world.stock = world'.stock
    BY <1>1, <1>10
  <2>2. \A q \in DOMAIN world'.people : world.people[q] = world'.people[q]
    BY <1>10
  <2> QED
    BY <1>1, <1>9, <1>10, <2>1, <2>2, OneOwnerMore
<1>12. visiting = {} /\ UNCHANGED <<visiting, won, past>>
  BY DEF Leave
<1>13. \A q \in DOMAIN world'.people :
          ~world'.people[q].dead /\ AtTop(world', q) =>
             q \in DOMAIN world.people /\ ~world.people[q].dead /\ AtTop(world, q)
  BY <1>10 DEF AtTop
<1>14. \A q \in DOMAIN world'.people \cap (DOMAIN world.people \cup world.gone) :
          /\ q \in DOMAIN world.people
          /\ [world'.people[q] EXCEPT !.command = NoCommand] = [world.people[q] EXCEPT !.command = NoCommand]
  BY <1>10
<1>15. DOMAIN world.people \cup world.gone \subseteq DOMAIN world'.people \cup world'.gone
  BY <1>10
<1> QED
  BY <1>9, <1>10, <1>11, <1>12, <1>13, <1>14, <1>15, BetweenUpdates

LEMMA ResourcesHoldFollows ==
    ASSUME ResourcesInv
    PROVE  ResourcesHold
<1>1. world \in Worlds /\ Balanced(world) /\ EndIsSeenAndFinal
  BY DEF ResourcesInv, UpdateInv
<1>2. ItemsAddUp
  BY <1>1, WorldFacts DEF ItemsAddUp, Balanced, Grounds
<1> QED
  BY <1>1, <1>2 DEF ResourcesHold

\* Whatever others took, burnt or put down between the look and the act of a command,
\* items are neither made nor lost and no count goes below nothing (Take.cpp, Set.cpp,
\* Incantation.cpp); and a victory is seen by the end of the update that brings it and is
\* final (World::update, World::checkGameEnd): for every number of players, tiles and
\* kinds of items, every density and every recipe.
THEOREM ItemsAndTheEnd == ResourcesSpec => []ResourcesHold
<1>1. ResourcesInit => ResourcesInv
  BY InitHolds
<1>2. ResourcesInv /\ [ResourcesNext]_resourceVars => ResourcesInv'
  <2> SUFFICES ASSUME ResourcesInv, [ResourcesNext]_resourceVars PROVE ResourcesInv'
    OBVIOUS
  <2>1. CASE BeginUpdate
    BY <2>1, BeginUpdateKeeps
  <2>2. CASE CheckGameEnd
    BY <2>2, CheckGameEndKeeps
  <2>3. ASSUME NEW p \in Folk, UpdatePlayer(p) PROVE ResourcesInv'
    BY <2>3, UpdatePlayerKeeps
  <2>4. ASSUME NEW p \in Folk, Join(p) PROVE ResourcesInv'
    BY <2>4, JoinKeeps
  <2>5. ASSUME NEW p \in Folk, Leave(p) PROVE ResourcesInv'
    BY <2>5, LeaveKeeps
  <2>6. ASSUME NEW p \in Folk, Ask(p) PROVE ResourcesInv'
    BY <2>6, AskKeeps
  <2>7. CASE UNCHANGED resourceVars
    BY <2>7 DEF resourceVars, ResourcesInv, UpdateInv, Balanced, OnGround, InBags, Amount, Units,
                EndIsSeenAndFinal, HasWinner, Champions, AtTop
  <2> QED
    BY <2>1, <2>2, <2>3, <2>4, <2>5, <2>6, <2>7 DEF ResourcesNext
<1>3. ResourcesInv => ResourcesHold
  BY ResourcesHoldFollows
<1> QED
  BY <1>1, <1>2, <1>3, PTL DEF ResourcesSpec

=============================================================================
