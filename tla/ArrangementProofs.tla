-------------------------- MODULE ArrangementProofs --------------------------
(***************************************************************************)
(* The arrangement of the panels is sound, and the panels come to stand as *)
(* it says: for any number of panels of any size, any grid, any order of   *)
(* the list and any resolution of the window.                              *)
(*                                                                         *)
(* Of the grid (module Layout) the invariant says what is in the hand: a   *)
(* panel that is carried waits where it was, and while one is stretched    *)
(* the grid is the one of the press but for that panel and the stack below *)
(* it (HandInv).  Of the frames (module Stacking) it says how far the      *)
(* settling has come: after so many calm frames each panel is in place     *)
(* that has no more panels higher on the grid (PlacesInv).  Both modules   *)
(* fold over the list of panels; FoldRuns makes a fold a run, in which     *)
(* each panel has its turn.                                                *)
(***************************************************************************)
EXTENDS Stacking, FiniteSetTheorems, WellFoundedInduction, SequenceTheorems, TLAPS

\* Of some natural numbers one is the least.
LEMMA LeastOf ==
    ASSUME NEW T, T \subseteq Nat, T # {}
    PROVE  \E x \in T : \A y \in T : x <= y
<1> DEFINE R == {ss \in Nat \X Nat : ss[1] < ss[2]}
<1>1. IsWellFoundedOn(R, Nat)
  BY NatLessThanWellFounded DEF OpToRel
<1>2. \A x, y \in Nat : <<y, x>> \in R <=> y < x
  OBVIOUS
<1> HIDE DEF R
<1>3. PICK x \in T : \A y \in T : ~ (<<y, x>> \in R)
  BY <1>1, WFMin
<1>4. ASSUME NEW y \in T PROVE x <= y
  <2>1. x \in Nat /\ y \in Nat /\ ~ (y < x)
    BY <1>2, <1>3
  <2> QED
    BY ONLY <2>1
<1> QED
  BY <1>4

-----------------------------------------------------------------------------
(* Folds over the panels.  A fold is a function on sets of panels, of      *)
(* which only those with the first k panels count; it exists because the   *)
(* step stays in a set G.                                                  *)

\* What a fold of F is on the sets of panels up to n.
IsFold(F, base, n, it) ==
    \A s \in SUBSET (1 .. n) : it[s] = IF s = {} THEN base ELSE F[<<it[s \ {Max(s)}], Max(s)>>]

Steps(F, base, n, G, it) ==
    /\ it[{}] = base
    /\ \A k \in 1 .. n : it[1 .. k - 1] \in G => it[1 .. k] = F[<<it[1 .. k - 1], k>>]

Passes(F, n, G, it) ==
    \A k \in 0 .. n : /\ it[1 .. k] \in G
                      /\ k > 0 => it[1 .. k] = F[<<it[1 .. k - 1], k>>]

LEMMA MaxIs ==
    ASSUME NEW s, NEW m \in s, s \subseteq Nat, \A y \in s : m >= y
    PROVE  Max(s) = m
<1>1. Max(s) \in s /\ \A y \in s : Max(s) >= y
  <2>1. \E x \in s : \A y \in s : x >= y
    OBVIOUS
  <2> QED
    BY <2>1, Zenon DEF Max
<1> DEFINE x == Max(s)
<1>2. x \in s /\ x >= m /\ m >= x /\ x \in Nat /\ m \in Nat
  BY <1>1
<1> HIDE DEF x
<1>3. x = m
  BY ONLY <1>2
<1> QED
  BY <1>3 DEF x

LEMMA PrefixMax ==
    ASSUME NEW k \in Nat, k > 0
    PROVE  Max(1 .. k) = k /\ (1 .. k) \ {k} = 1 .. k - 1 /\ 1 .. k # {}
<1>1. k \in 1 .. k /\ 1 .. k \subseteq Nat /\ \A y \in 1 .. k : k >= y
  OBVIOUS
<1>2. Max(1 .. k) = k
  BY <1>1, MaxIs
<1> QED
  BY <1>2

\* The largest of some panels up to k + 1 is k + 1, or all are up to k.
LEMMA SubsetMax ==
    ASSUME NEW k \in Nat, NEW s \in SUBSET (1 .. k + 1), k + 1 \in s
    PROVE  Max(s) = k + 1 /\ s \ {k + 1} \in SUBSET (1 .. k) /\ s # {}
<1>1. s \subseteq Nat /\ k + 1 \in s /\ \A y \in s : k + 1 >= y
  OBVIOUS
<1>2. Max(s) = k + 1
  BY <1>1, MaxIs
<1> QED
  BY <1>2

LEMMA MaxWithin ==
    ASSUME NEW k \in Nat, NEW s \in SUBSET (1 .. k), s # {}
    PROVE  Max(s) \in s /\ \A y \in s : Max(s) >= y
<1> DEFINE T == {j \in Nat : \A y \in s : j >= y}
<1>1. k \in T /\ T \subseteq Nat
  OBVIOUS
<1>2. PICK m \in T : \A j \in T : m <= j
  BY <1>1, LeastOf
<1>3. m \in s
  <2>1. SUFFICES ASSUME m \notin s PROVE FALSE
    OBVIOUS
  <2>2. m \in Nat /\ \A y \in s : y \in Nat /\ y > 0 /\ m >= y /\ m # y
    <3>1. \A y \in s : y \in 1 .. k
      OBVIOUS
    <3> QED
      BY <1>2, <2>1, <3>1
  <2>3. m > 0 /\ m - 1 \in Nat
    <3>1. PICK y \in s : TRUE
      OBVIOUS
    <3>2. m \in Nat /\ y \in Nat /\ y > 0 /\ m >= y
      BY <2>2
    <3> QED
      BY ONLY <3>2
  <2>6. ASSUME NEW y \in s PROVE m - 1 >= y
    <3>1. m \in Nat /\ y \in Nat /\ m >= y /\ m # y
      BY <2>2
    <3> QED
      BY ONLY <3>1
  <2>4. m - 1 \in T
    BY <2>3, <2>6
  <2>5. m <= m - 1
    BY <1>2, <2>4
  <2> QED
    BY <2>2, <2>5
<1>4. m \in s /\ s \subseteq Nat /\ \A y \in s : m >= y
  BY <1>2, <1>3
<1>5. Max(s) = m
  BY <1>4, MaxIs
<1> QED
  BY <1>4, <1>5

\* A fold as the library defines it is a function on the sets of panels.
LEMMA FoldExists ==
    ASSUME NEW n \in Nat, NEW G, NEW base \in G, NEW F \in [G \X (1 .. n) -> G]
    PROVE  \E it \in [SUBSET (1 .. n) -> G] : IsFold(F, base, n, it)
<1> DEFINE Good(k) == \E it \in [SUBSET (1 .. k) -> G] : IsFold(F, base, k, it)
           Bad == {k \in 0 .. n : ~Good(k)}
<1>1. SUFFICES ASSUME Bad # {} PROVE FALSE
  <2> HIDE DEF Good
  <2>1. n \in 0 .. n
    OBVIOUS
  <2>2. Bad = {} => Good(n)
    BY <2>1
  <2> QED
    BY <2>2 DEF Good
<1>2. Bad \subseteq Nat
  OBVIOUS
<1>3. PICK k \in Bad : \A j \in Bad : k <= j
  <2> HIDE DEF Bad
  <2> QED
    BY <1>1, <1>2, LeastOf
<1>4. k \in 0 .. n /\ ~Good(k)
  OBVIOUS
<1>5. CASE k = 0
  <2> DEFINE it == [s \in SUBSET (1 .. 0) |-> base]
  <2>1. \A s \in SUBSET (1 .. 0) : s = {}
    OBVIOUS
  <2>2. it \in [SUBSET (1 .. 0) -> G] /\ IsFold(F, base, 0, it)
    BY <2>1 DEF IsFold
  <2> QED
    BY <1>4, <1>5, <2>2
<1>6. CASE k # 0
  <2> DEFINE j == k - 1
  <2>1. j \in Nat /\ j \in 0 .. n /\ k = j + 1 /\ ~(k <= j) /\ k \in 1 .. n
    BY <1>4, <1>6
  <2>2. Good(j)
    BY <1>3, <2>1
  <2> HIDE DEF Bad
  <2>3. PICK g \in [SUBSET (1 .. j) -> G] : IsFold(F, base, j, g)
    BY <2>2
  <2> DEFINE it == [s \in SUBSET (1 .. k) |-> IF k \in s THEN F[<<g[s \ {k}], k>>] ELSE g[s]]
  <2>4. ASSUME NEW s \in SUBSET (1 .. k), k \notin s
        PROVE  s \in SUBSET (1 .. j) /\ it[s] = g[s]
    <3>1. s \in SUBSET (1 .. j)
      BY <2>1, <2>4
    <3> QED
      BY <2>4, <3>1
  <2>5. ASSUME NEW s \in SUBSET (1 .. k), k \in s
        PROVE  /\ Max(s) = k /\ s \ {k} \in SUBSET (1 .. j) /\ s # {}
               /\ it[s] = F[<<g[s \ {k}], k>>] /\ it[s \ {k}] = g[s \ {k}]
    <3>1. Max(s) = k /\ s \ {k} \in SUBSET (1 .. j) /\ s # {}
      <4> HIDE DEF j
      <4> QED
        BY <2>1, <2>5, SubsetMax
    <3>2. s \ {k} \in SUBSET (1 .. k) /\ k \notin s \ {k}
      OBVIOUS
    <3>3. it[s \ {k}] = g[s \ {k}]
      BY <2>4, <3>2
    <3> QED
      BY <2>5, <3>1, <3>3
  <2>6. it \in [SUBSET (1 .. k) -> G]
    <3> SUFFICES ASSUME NEW s \in SUBSET (1 .. k)
                 PROVE  (IF k \in s THEN F[<<g[s \ {k}], k>>] ELSE g[s]) \in G
      OBVIOUS
    <3>1. CASE k \in s
      <4>1. g[s \ {k}] \in G
        BY <2>5, <3>1
      <4> QED
        BY <2>1, <3>1, <4>1
    <3>2. CASE k \notin s
      BY <2>4, <3>2
    <3> QED
      BY <3>1, <3>2
  <2>7. IsFold(F, base, k, it)
    <3> SUFFICES ASSUME NEW s \in SUBSET (1 .. k)
                 PROVE  it[s] = IF s = {} THEN base ELSE F[<<it[s \ {Max(s)}], Max(s)>>]
      BY DEF IsFold
    <3> HIDE DEF it
    <3>1. CASE k \in s
      BY <2>5, <3>1
    <3>2. CASE k \notin s
      <4>1. s \in SUBSET (1 .. j) /\ it[s] = g[s]
        BY <2>4, <3>2
      <4>2. g[s] = IF s = {} THEN base ELSE F[<<g[s \ {Max(s)}], Max(s)>>]
        BY <2>3, <4>1 DEF IsFold
      <4>3. s \ {Max(s)} \in SUBSET (1 .. k) /\ k \notin s \ {Max(s)}
        BY <3>2
      <4>4. it[s \ {Max(s)}] = g[s \ {Max(s)}]
        BY <2>4, <4>3
      <4> QED
        BY <4>1, <4>2, <4>4
    <3> QED
      BY <3>1, <3>2
  <2>8. Good(k)
    BY <2>6, <2>7
  <2> QED
    BY <1>4, <2>8
<1> QED
  BY <1>5, <1>6

\* The fold goes through the panels one by one.
LEMMA FoldRuns ==
    ASSUME NEW n \in Nat, NEW G, NEW base \in G, NEW F \in [G \X (1 .. n) -> G], NEW it,
           Steps(F, base, n, G, it)
    PROVE  Passes(F, n, G, it)
<1>0. /\ it[{}] = base
      /\ \A k \in 1 .. n : it[1 .. k - 1] \in G => it[1 .. k] = F[<<it[1 .. k - 1], k>>]
  BY DEF Steps
<1> DEFINE Good(k) == it[1 .. k] \in G
           Bad == {k \in 0 .. n : ~Good(k)}
<1>1. Bad = {}
  <2>1. SUFFICES ASSUME Bad # {} PROVE FALSE
    OBVIOUS
  <2>2. Bad \subseteq Nat
    OBVIOUS
  <2>3. PICK k \in Bad : \A j \in Bad : k <= j
    <3> HIDE DEF Bad
    <3> QED
      BY <2>1, <2>2, LeastOf
  <2>4. k \in 0 .. n /\ ~Good(k)
    OBVIOUS
  <2>5. 1 .. 0 = {}
    OBVIOUS
  <2>6. k # 0
    BY <1>0, <2>4, <2>5
  <2>7. k - 1 \in 0 .. n /\ k \in 1 .. n /\ ~(k <= k - 1)
    BY <2>4, <2>6
  <2>8. Good(k - 1)
    BY <2>3, <2>7
  <2>9. it[1 .. k] = F[<<it[1 .. k - 1], k>>]
    BY <1>0, <2>7, <2>8
  <2>10. F[<<it[1 .. k - 1], k>>] \in G
    BY <2>7, <2>8
  <2> QED
    BY <2>4, <2>9, <2>10
<1>2. ASSUME NEW k \in 0 .. n PROVE Good(k)
  BY <1>1
<1>3. ASSUME NEW k \in 0 .. n, k > 0 PROVE it[1 .. k] = F[<<it[1 .. k - 1], k>>]
  <2>1. k - 1 \in 0 .. n /\ k \in 1 .. n
    BY <1>3
  <2>2. Good(k - 1)
    BY <1>2, <2>1
  <2> QED
    BY <1>0, <2>1, <2>2
<1> QED
  BY <1>2, <1>3 DEF Passes

-----------------------------------------------------------------------------
(* Layouts applied.                                                        *)

N == Len(DefaultLayout)
Grids == [Panels -> Rects]

LEMMA PanelsAre ==
    /\ N \in Nat /\ Panels = 1 .. N /\ DefaultLayout \in Grids
    /\ IsFiniteSet(Panels) /\ Cardinality(Panels) = N
<1>1. N \in Nat /\ Panels = 1 .. N /\ DefaultLayout \in Grids
  BY LayoutAssumption DEF N, Panels, Grids
<1>2. IsFiniteSet(1 .. N) /\ Cardinality(1 .. N) = N
  BY <1>1, FS_Interval
<1> QED
  BY <1>1, <1>2

PlaceOne(saved, g, p) == IF CheckOverlap(g, saved[p], p) THEN g ELSE [g EXCEPT ![p] = saved[p]]

\* ApplyLayouts is a run of placements, in the order of the panels.
LEMMA ApplyRuns ==
    ASSUME NEW saved \in Grids
    PROVE  \E at : /\ at[0] = DefaultLayout /\ at[N] = ApplyLayouts(saved)
                   /\ \A k \in 0 .. N : at[k] \in Grids
                   /\ \A k \in 1 .. N : at[k] = PlaceOne(saved, at[k - 1], k)
<1> DEFINE rhs(it) == [s \in SUBSET Panels |->
                          IF s = {} THEN DefaultLayout
                          ELSE PlaceOne(saved, it[s \ {Max(s)}], [p \in Panels |-> p][Max(s)])]
           F == [gp \in Grids \X (1 .. N) |-> PlaceOne(saved, gp[1], gp[2])]
           it == CHOOSE f : f = rhs(f)
<1>1. ApplyLayouts(saved) = it[Panels]
  <2>1. DOMAIN [p \in Panels |-> p] = Panels
    OBVIOUS
  <2> QED
    BY <2>1, Zenon DEF ApplyLayouts, FoldLeft, MapThenFoldSet, PlaceOne
<1>2. ASSUME NEW g \in Grids, NEW p \in 1 .. N
      PROVE  PlaceOne(saved, g, p) \in Grids /\ F[<<g, p>>] = PlaceOne(saved, g, p)
  <2>1. PlaceOne(saved, g, p) \in Grids
    BY PanelsAre DEF PlaceOne, Grids
  <2> QED
    BY <2>1
<1>3. F \in [Grids \X (1 .. N) -> Grids]
  BY <1>2
<1> HIDE DEF F
<1>4. PICK f \in [SUBSET (1 .. N) -> Grids] : IsFold(F, DefaultLayout, N, f)
  BY <1>3, PanelsAre, FoldExists
<1>5. f = rhs(f)
  <2>1. ASSUME NEW s \in SUBSET Panels
        PROVE  f[s] = IF s = {} THEN DefaultLayout
                      ELSE PlaceOne(saved, f[s \ {Max(s)}], [p \in Panels |-> p][Max(s)])
    <3>1. s \in SUBSET (1 .. N)
      BY PanelsAre
    <3>2. f[s] = IF s = {} THEN DefaultLayout ELSE F[<<f[s \ {Max(s)}], Max(s)>>]
      BY <1>4, <3>1 DEF IsFold
    <3>3. CASE s # {}
      <4>1. Max(s) \in s
        BY <3>1, <3>3, PanelsAre, MaxWithin
      <4>2. Max(s) \in 1 .. N /\ Max(s) \in Panels
        BY <3>1, <4>1
      <4>3. s \ {Max(s)} \in SUBSET (1 .. N)
        BY <3>1
      <4>4. f[s \ {Max(s)}] \in Grids
        BY <1>4, <4>3
      <4>5. F[<<f[s \ {Max(s)}], Max(s)>>] = PlaceOne(saved, f[s \ {Max(s)}], Max(s))
        BY <1>2, <4>2, <4>4
      <4>6. [p \in Panels |-> p][Max(s)] = Max(s)
        BY <4>2, Zenon
      <4> QED
        BY <3>2, <3>3, <4>5, <4>6, Zenon
    <3> QED
      BY <3>2, <3>3, Zenon
  <2>2. DOMAIN f = SUBSET Panels
    BY <1>4, PanelsAre
  <2>3. f = [s \in SUBSET Panels |-> f[s]]
    BY <1>4, <2>2
  <2> QED
    BY <2>1, <2>3, Zenon
<1>6. it = rhs(it)
  BY <1>5, Zenon
<1> HIDE DEF it
<1>7. ASSUME NEW s \in SUBSET Panels
      PROVE  it[s] = IF s = {} THEN DefaultLayout
                     ELSE PlaceOne(saved, it[s \ {Max(s)}], [p \in Panels |-> p][Max(s)])
  BY <1>6, Zenon
<1>8. it[{}] = DefaultLayout
  <2>1. {} \in SUBSET Panels
    OBVIOUS
  <2> QED
    BY <1>7, <2>1, Zenon
<1>9. ASSUME NEW k \in 1 .. N PROVE it[1 .. k] = PlaceOne(saved, it[1 .. k - 1], k)
  <2>1. k \in Nat /\ k > 0 /\ 1 .. k \in SUBSET Panels /\ k \in Panels
    BY PanelsAre
  <2>2. Max(1 .. k) = k /\ (1 .. k) \ {k} = 1 .. k - 1 /\ 1 .. k # {}
    BY <2>1, PrefixMax
  <2>3. [p \in Panels |-> p][k] = k
    BY <2>1, Zenon
  <2> QED
    BY <1>7, <2>1, <2>2, <2>3, Zenon
<1>10. Passes(F, N, Grids, it)
  <2>1. \A k \in 1 .. N : it[1 .. k - 1] \in Grids => it[1 .. k] = F[<<it[1 .. k - 1], k>>]
    BY <1>2, <1>9
  <2>2. Steps(F, DefaultLayout, N, Grids, it)
    BY <1>8, <2>1 DEF Steps
  <2>3. N \in Nat /\ DefaultLayout \in Grids
    BY PanelsAre
  <2> QED
    BY ONLY <1>3, <2>2, <2>3, FoldRuns
<1> DEFINE at == [k \in 0 .. N |-> it[1 .. k]]
<1>11. at[0] = DefaultLayout
  <2>1. 1 .. 0 = {} /\ 0 \in 0 .. N
    BY PanelsAre
  <2> QED
    BY <1>8, <2>1
<1>12. at[N] = ApplyLayouts(saved)
  BY <1>1, PanelsAre
<1>13. \A k \in 0 .. N : at[k] \in Grids
  BY <1>10 DEF Passes
<1>14. ASSUME NEW k \in 1 .. N PROVE at[k] = PlaceOne(saved, at[k - 1], k)
  <2>1. k - 1 \in 0 .. N /\ k \in 0 .. N
    BY PanelsAre
  <2>2. at[k] = it[1 .. k] /\ at[k - 1] = it[1 .. k - 1]
    BY <2>1
  <2> QED
    BY <1>9, <2>2
<1> HIDE DEF at
<1> QED
  BY <1>11, <1>12, <1>13, <1>14

-----------------------------------------------------------------------------
(* The stack under a panel.                                                *)

LinkOne(p, s) ==
    LET below == Under(grid, IF s = <<>> THEN p ELSE Last(s))
    IN IF below = {} THEN s ELSE Append(s, Min(below))

\* What is kept from link to link is kept by the whole chain.
LEMMA StackWithin ==
    ASSUME NEW p, NEW G, <<>> \in G, \A s \in G : LinkOne(p, s) \in G
    PROVE  ResizeStack(p) \in G
<1> DEFINE rhs(it) == [s \in SUBSET Panels |->
                          IF s = {} THEN <<>> ELSE LinkOne(p, it[s \ {Max(s)}])]
           F == [gp \in G \X (1 .. N) |-> LinkOne(p, gp[1])]
           it == CHOOSE f : f = rhs(f)
<1>1. ResizeStack(p) = it[Panels]
  <2>1. DOMAIN [i \in Panels |-> i] = Panels
    OBVIOUS
  <2> QED
    BY <2>1, Zenon DEF ResizeStack, FoldLeft, MapThenFoldSet, LinkOne
<1>2. ASSUME NEW g \in G, NEW k \in 1 .. N
      PROVE  LinkOne(p, g) \in G /\ F[<<g, k>>] = LinkOne(p, g)
  OBVIOUS
<1>3. F \in [G \X (1 .. N) -> G]
  BY <1>2
<1> HIDE DEF F
<1>4. PICK f \in [SUBSET (1 .. N) -> G] : IsFold(F, <<>>, N, f)
  BY <1>3, PanelsAre, FoldExists
<1>5. f = rhs(f)
  <2>1. ASSUME NEW s \in SUBSET Panels
        PROVE  f[s] = IF s = {} THEN <<>> ELSE LinkOne(p, f[s \ {Max(s)}])
    <3>1. s \in SUBSET (1 .. N)
      BY PanelsAre
    <3>2. f[s] = IF s = {} THEN <<>> ELSE F[<<f[s \ {Max(s)}], Max(s)>>]
      BY <1>4, <3>1 DEF IsFold
    <3>3. CASE s # {}
      <4>1. Max(s) \in s
        BY <3>1, <3>3, PanelsAre, MaxWithin
      <4>2. Max(s) \in 1 .. N
        BY <3>1, <4>1
      <4>3. s \ {Max(s)} \in SUBSET (1 .. N)
        BY <3>1
      <4>4. f[s \ {Max(s)}] \in G
        BY <1>4, <4>3
      <4>5. F[<<f[s \ {Max(s)}], Max(s)>>] = LinkOne(p, f[s \ {Max(s)}])
        BY <1>2, <4>2, <4>4
      <4> QED
        BY <3>2, <3>3, <4>5, Zenon
    <3> QED
      BY <3>2, <3>3, Zenon
  <2>2. DOMAIN f = SUBSET Panels
    BY <1>4, PanelsAre
  <2>3. f = [s \in SUBSET Panels |-> f[s]]
    BY <1>4, <2>2
  <2> QED
    BY <2>1, <2>3, Zenon
<1>6. it = rhs(it)
  BY <1>5, Zenon
<1> HIDE DEF it
<1>7. ASSUME NEW s \in SUBSET Panels
      PROVE  it[s] = IF s = {} THEN <<>> ELSE LinkOne(p, it[s \ {Max(s)}])
  BY <1>6, Zenon
<1>8. it[{}] = <<>>
  <2>1. {} \in SUBSET Panels
    OBVIOUS
  <2> QED
    BY <1>7, <2>1, Zenon
<1>9. ASSUME NEW k \in 1 .. N PROVE it[1 .. k] = LinkOne(p, it[1 .. k - 1])
  <2>1. k \in Nat /\ k > 0 /\ 1 .. k \in SUBSET Panels
    BY PanelsAre
  <2>2. Max(1 .. k) = k /\ (1 .. k) \ {k} = 1 .. k - 1 /\ 1 .. k # {}
    BY <2>1, PrefixMax
  <2> QED
    BY <1>7, <2>1, <2>2, Zenon
<1>10. Passes(F, N, G, it)
  <2>1. \A k \in 1 .. N : it[1 .. k - 1] \in G => it[1 .. k] = F[<<it[1 .. k - 1], k>>]
    BY <1>2, <1>9
  <2>2. Steps(F, <<>>, N, G, it)
    BY <1>8, <2>1 DEF Steps
  <2>3. N \in Nat /\ <<>> \in G
    BY PanelsAre
  <2> QED
    BY ONLY <1>3, <2>2, <2>3, FoldRuns
<1>11. N \in 0 .. N /\ Panels = 1 .. N
  BY PanelsAre
<1> QED
  BY <1>1, <1>10, <1>11 DEF Passes

\* Of some panels one is the first.
LEMMA MinWithin ==
    ASSUME NEW s \in SUBSET Panels, s # {}
    PROVE  Min(s) \in s
<1>1. s \subseteq Nat
  BY PanelsAre
<1>2. \E x \in s : \A y \in s : x <= y
  BY <1>1, LeastOf
<1> QED
  BY <1>2, Zenon DEF Min

\* The next panel of a chain.
LEMMA LinkIs ==
    ASSUME NEW p \in Panels, NEW s \in Seq(Panels)
    PROVE  \/ LinkOne(p, s) = s
           \/ \E t \in Panels : /\ (t = p /\ s = <<>>) \/ t \in ToSet(s)
                                /\ \E q \in Under(grid, t) : LinkOne(p, s) = Append(s, q)
<1> DEFINE t == IF s = <<>> THEN p ELSE Last(s)
<1>1. t \in Panels /\ ((t = p /\ s = <<>>) \/ t \in ToSet(s))
  BY DEF Last, ToSet
<1>2. CASE Under(grid, t) = {}
  BY <1>2 DEF LinkOne
<1>3. CASE Under(grid, t) # {}
  <2>1. Under(grid, t) \in SUBSET Panels
    BY DEF Under
  <2>2. Min(Under(grid, t)) \in Under(grid, t)
    BY <1>3, <2>1, MinWithin
  <2>3. LinkOne(p, s) = Append(s, Min(Under(grid, t)))
    BY <1>3, Zenon DEF LinkOne
  <2> HIDE DEF t
  <2> QED
    BY <1>1, <2>2, <2>3
<1> QED
  BY <1>2, <1>3

LEMMA StackOfPanels ==
    ASSUME NEW p \in Panels
    PROVE  ResizeStack(p) \in Seq(Panels)
<1> DEFINE G == Seq(Panels)
<1>1. ASSUME NEW s \in G PROVE LinkOne(p, s) \in G
  <2>1. \A t : Under(grid, t) \subseteq Panels
    BY DEF Under
  <2> QED
    BY <2>1, LinkIs
<1>2. <<>> \in G
  OBVIOUS
<1>3. ResizeStack(p) \in G
  <2> HIDE DEF G
  <2> QED
    BY <1>1, <1>2, StackWithin
<1> QED
  BY <1>3

\* The panels of the stack stand below p, at its left edge.
Below(p, q) == grid[q].x = grid[p].x /\ grid[q].y >= grid[p].y + grid[p].h

\* A stack never reaches above the bottom of the panel it starts under.
LEMMA StackIsBelow ==
    ASSUME NEW p \in Panels, grid \in Grids, \A q \in Panels : grid[q].h > 0,
           NEW q \in ToSet(ResizeStack(p))
    PROVE  q \in Panels /\ Below(p, q)
<1> DEFINE G == {s \in Seq(Panels) : \A r \in ToSet(s) : Below(p, r)}
<1>1. <<>> \in G
  BY DEF ToSet
<1>2. ASSUME NEW s \in G PROVE LinkOne(p, s) \in G
  <2>1. s \in Seq(Panels) /\ \A r \in ToSet(s) : Below(p, r)
    OBVIOUS
  <2>2. CASE LinkOne(p, s) = s
    BY <2>2
  <2>3. ASSUME NEW t \in Panels, (t = p /\ s = <<>>) \/ t \in ToSet(s),
               NEW r \in Under(grid, t), LinkOne(p, s) = Append(s, r)
        PROVE  LinkOne(p, s) \in G
    <3>1. r \in Panels /\ grid[r].x = grid[t].x /\ grid[r].y >= grid[t].y + grid[t].h
      <4>1. r \in Panels /\ grid[r].x = grid[t].x /\ grid[r].y - (grid[t].y + grid[t].h) \in {0, 1}
        BY DEF Under
      <4>2. grid[r].y \in Int /\ grid[t].y \in Int /\ grid[t].h \in Int
        BY <4>1 DEF Grids, Rects
      <4> QED
        BY <4>1, <4>2
    <3>2. Below(p, r)
      <4>1. CASE t = p
        BY <3>1, <4>1 DEF Below
      <4>2. CASE t \in ToSet(s)
        <5>1. grid[t].x = grid[p].x /\ grid[t].y >= grid[p].y + grid[p].h /\ grid[t].h > 0
          BY <2>1, <4>2 DEF Below
        <5>2. grid[r].y \in Int /\ grid[t].y \in Int /\ grid[t].h \in Int
              /\ grid[p].y \in Int /\ grid[p].h \in Int
          BY <3>1 DEF Grids, Rects
        <5>3. grid[r].y >= grid[p].y + grid[p].h
          BY ONLY <3>1, <5>1, <5>2
        <5> QED
          BY <3>1, <5>1, <5>3 DEF Below
      <4> QED
        BY <2>3, <4>1, <4>2
    <3>3. Append(s, r) \in Seq(Panels) /\ ToSet(Append(s, r)) = ToSet(s) \cup {r}
      <4>1. Append(s, r) \in Seq(Panels) /\ Len(Append(s, r)) = Len(s) + 1
            /\ Append(s, r)[Len(s) + 1] = r /\ \A i \in 1 .. Len(s) : Append(s, r)[i] = s[i]
        BY <2>1, <3>1
      <4> QED
        BY <2>1, <4>1 DEF ToSet
    <3> QED
      BY <2>1, <2>3, <3>2, <3>3
  <2> QED
    BY <2>1, <2>2, <2>3, LinkIs
<1>3. ResizeStack(p) \in G
  <2> HIDE DEF G
  <2> QED
    BY <1>1, <1>2, StackWithin
<1> QED
  BY <1>3 DEF ToSet

-----------------------------------------------------------------------------
(* Layout.                                                                 *)

Apart(g) ==
    \A p \in Panels : Fits(g[p]) /\ \A q \in Panels \ {p} : ~Clash(g[p], g[q])

LayoutShape ==
    /\ grid \in Grids /\ original \in Grids /\ preview \in Rects
    /\ dragged \in Panels \cup {NoPanel} /\ resized \in Panels \cup {NoPanel}
    /\ stack \in Seq(Panels) /\ arranging \in BOOLEAN /\ held \in BOOLEAN /\ loose \in BOOLEAN

\* A panel is carried: it waits on the grid where it was picked up.
Carried == /\ resized = NoPanel /\ stack = <<>>
           /\ original[dragged] = grid[dragged] /\ Fits(preview)

\* A panel is stretched: the grid is the one of the press, but for its size and the stack
\* below it, which is as much lower as it is higher.
Pushed == IF grid[resized].h > original[resized].h THEN grid[resized].h - original[resized].h ELSE 0

Stretched(p) ==
    IF p = resized THEN [original[p] EXCEPT !.w = grid[p].w, !.h = grid[p].h]
    ELSE IF p \in ToSet(stack) THEN [original[p] EXCEPT !.y = original[p].y + Pushed]
    ELSE original[p]

Stretching == /\ dragged = NoPanel /\ Apart(original)
              /\ \A p \in ToSet(stack) : /\ original[p].x = original[resized].x
                                         /\ original[p].y >= original[resized].y + original[resized].h
              /\ \A p \in Panels : grid[p] = Stretched(p)

HandInv ==
    /\ held => arranging
    /\ ~held => dragged = NoPanel /\ resized = NoPanel
    /\ resized = NoPanel => stack = <<>>
    /\ dragged # NoPanel => Carried
    /\ resized # NoPanel => Stretching

LayoutInv == LayoutShape /\ (~loose => Apart(grid) /\ HandInv)

LEMMA NoPanelIsNone == NoPanel \notin Panels
  BY PanelsAre DEF NoPanel

LEMMA DefaultApart == DefaultLayout \in Grids /\ Apart(DefaultLayout)
  BY PanelsAre, DefaultsAccepted DEF Apart

LEMMA ClashBoth ==
    ASSUME NEW a \in Rects, NEW b \in Rects, ~Clash(a, b)
    PROVE  ~Clash(b, a)
  BY DEF Clash, Rects

\* A panel put where it fits and covers nothing leaves the panels apart.
LEMMA PlacedApart ==
    ASSUME NEW g \in Grids, Apart(g), NEW p \in Panels, NEW rect \in Rects,
           Fits(rect), ~CheckOverlap(g, rect, p)
    PROVE  [g EXCEPT ![p] = rect] \in Grids /\ Apart([g EXCEPT ![p] = rect])
<1> DEFINE h == [g EXCEPT ![p] = rect]
<1>1. h \in Grids /\ h[p] = rect /\ \A q \in Panels \ {p} : h[q] = g[q]
  BY DEF Grids
<1> HIDE DEF h
<1>2. ASSUME NEW q \in Panels PROVE Fits(h[q])
  BY <1>1 DEF Apart
<1>3. ASSUME NEW q \in Panels, NEW r \in Panels \ {q} PROVE ~Clash(h[q], h[r])
  <2>0. g[q] \in Rects /\ g[r] \in Rects
    BY DEF Grids
  <2>1. CASE q = p
    BY <1>1, <2>1 DEF CheckOverlap
  <2>2. CASE r = p
    <3>1. ~Clash(rect, g[q])
      BY <2>2 DEF CheckOverlap
    <3> QED
      BY <1>1, <2>0, <2>2, <3>1, ClashBoth
  <2>3. CASE q # p /\ r # p
    BY <1>1, <2>3 DEF Apart
  <2> QED
    BY <2>1, <2>2, <2>3
<1> QED
  BY <1>1, <1>2, <1>3 DEF Apart, h

\* What is applied is apart, wherever the panels were, so long as each fits the grid.
LEMMA AppliedApart ==
    ASSUME NEW saved \in Grids
    PROVE  /\ ApplyLayouts(saved) \in Grids
           /\ (\A p \in Panels : Fits(saved[p])) => Apart(ApplyLayouts(saved))
<1>1. PICK at : /\ at[0] = DefaultLayout /\ at[N] = ApplyLayouts(saved)
                /\ \A k \in 0 .. N : at[k] \in Grids
                /\ \A k \in 1 .. N : at[k] = PlaceOne(saved, at[k - 1], k)
  BY ApplyRuns
<1>2. N \in Nat /\ N \in 0 .. N
  BY PanelsAre
<1>3. ASSUME \A p \in Panels : Fits(saved[p])
      PROVE  Apart(at[N])
  <2> DEFINE Bad == {k \in 0 .. N : ~Apart(at[k])}
  <2>1. SUFFICES ASSUME Bad # {} PROVE FALSE
    <3>1. Bad = {} => Apart(at[N])
      BY <1>2
    <3> QED
      BY <3>1
  <2>2. Bad \subseteq Nat
    OBVIOUS
  <2>3. PICK k \in Bad : \A j \in Bad : k <= j
    <3> HIDE DEF Bad
    <3> QED
      BY <2>1, <2>2, LeastOf
  <2>4. k \in 0 .. N /\ ~Apart(at[k])
    OBVIOUS
  <2>5. k # 0
    BY <1>1, <2>4, DefaultApart
  <2>6. k - 1 \in 0 .. N /\ k \in 1 .. N /\ ~(k <= k - 1)
    BY <1>2, <2>4, <2>5
  <2>7. Apart(at[k - 1]) /\ at[k - 1] \in Grids /\ at[k] = PlaceOne(saved, at[k - 1], k)
    BY <1>1, <2>3, <2>6
  <2>8. k \in Panels /\ saved[k] \in Rects /\ Fits(saved[k])
    BY <1>3, <2>6, PanelsAre DEF Grids
  <2>9. CASE CheckOverlap(at[k - 1], saved[k], k)
    BY <2>4, <2>7, <2>9 DEF PlaceOne
  <2>10. CASE ~CheckOverlap(at[k - 1], saved[k], k)
    <3>1. at[k] = [at[k - 1] EXCEPT ![k] = saved[k]]
      BY <2>7, <2>10 DEF PlaceOne
    <3>2. Apart([at[k - 1] EXCEPT ![k] = saved[k]])
      BY <2>7, <2>8, <2>10, PlacedApart
    <3> QED
      BY <2>4, <3>1, <3>2
  <2> QED
    BY <2>9, <2>10
<1> QED
  BY <1>1, <1>2, <1>3

\* A saved arrangement comes back.
LEMMA LayoutComesBack ==
    ASSUME grid \in Grids
    PROVE  LayoutReturns
<1> SUFFICES ASSUME \A p \in Panels : ~CheckOverlap(DefaultLayout, grid[p], p),
                    \A p \in Panels : ~CheckOverlap(grid, grid[p], p)
             PROVE  ApplyLayouts(grid) = grid
  BY DEF LayoutReturns
<1>1. PICK at : /\ at[0] = DefaultLayout /\ at[N] = ApplyLayouts(grid)
                /\ \A k \in 0 .. N : at[k] \in Grids
                /\ \A k \in 1 .. N : at[k] = PlaceOne(grid, at[k - 1], k)
  BY ApplyRuns
<1>2. N \in Nat /\ N \in 0 .. N
  BY PanelsAre
<1> DEFINE Done(k) == \A p \in Panels : at[k][p] = IF p <= k THEN grid[p] ELSE DefaultLayout[p]
<1>3. Done(N)
  <2> DEFINE Bad == {k \in 0 .. N : ~Done(k)}
  <2>1. SUFFICES ASSUME Bad # {} PROVE FALSE
    <3> HIDE DEF Done
    <3>1. Bad = {} => Done(N)
      BY <1>2
    <3> QED
      BY <3>1
  <2>2. Bad \subseteq Nat
    OBVIOUS
  <2>3. PICK k \in Bad : \A j \in Bad : k <= j
    <3> HIDE DEF Bad
    <3> QED
      BY <2>1, <2>2, LeastOf
  <2>4. k \in 0 .. N /\ ~Done(k)
    OBVIOUS
  <2>5. Done(0)
    BY <1>1, PanelsAre
  <2>6. k # 0
    <3> HIDE DEF Done
    <3> QED
      BY <2>4, <2>5
  <2>7. k - 1 \in 0 .. N /\ k \in 1 .. N /\ k \in Nat /\ ~(k <= k - 1)
    <3>1. k \in 0 .. N
      BY <2>4
    <3> QED
      BY ONLY <1>2, <2>6, <3>1
  <2>8. Done(k - 1) /\ at[k - 1] \in Grids /\ at[k] = PlaceOne(grid, at[k - 1], k)
    <3> HIDE DEF Done
    <3> QED
      BY <1>1, <2>3, <2>7
  <2>9. k \in Panels
    BY <2>7, PanelsAre
  <2>10. ~CheckOverlap(at[k - 1], grid[k], k)
    <3> SUFFICES ASSUME NEW p \in Panels \ {k} PROVE ~Clash(grid[k], at[k - 1][p])
      BY DEF CheckOverlap
    <3>1. at[k - 1][p] = grid[p] \/ at[k - 1][p] = DefaultLayout[p]
      BY <2>8
    <3> QED
      BY <2>9, <3>1 DEF CheckOverlap
  <2>11. at[k] = [at[k - 1] EXCEPT ![k] = grid[k]]
    BY <2>8, <2>10 DEF PlaceOne
  <2>12. ASSUME NEW p \in Panels
         PROVE  at[k][p] = IF p <= k THEN grid[p] ELSE DefaultLayout[p]
    <3>1. p \in Nat
      BY PanelsAre
    <3>2. at[k - 1][p] = IF p <= k - 1 THEN grid[p] ELSE DefaultLayout[p]
      BY <2>8
    <3>3. CASE p = k
      BY <2>7, <2>8, <2>9, <2>11, <3>3 DEF Grids
    <3>4. CASE p # k
      <4>1. at[k][p] = at[k - 1][p]
        BY <2>8, <2>9, <2>11, <3>4 DEF Grids
      <4>2. p <= k <=> p <= k - 1
        BY ONLY <2>7, <3>1, <3>4
      <4> QED
        BY <3>2, <4>1, <4>2
    <3> QED
      BY <3>3, <3>4
  <2> QED
    BY <2>4, <2>12
<1>4. ASSUME NEW p \in Panels PROVE at[N][p] = grid[p]
  BY <1>3, PanelsAre
<1>5. at[N] \in Grids
  BY <1>1, <1>2
<1>6. at[N] = [p \in Panels |-> at[N][p]] /\ grid = [p \in Panels |-> grid[p]]
  BY <1>5 DEF Grids
<1> QED
  BY <1>1, <1>4, <1>6

\* The same from the press to the release, whatever else changes.
LEMMA HandKept ==
    ASSUME LayoutInv, UNCHANGED <<grid, original, dragged, resized, stack, preview>>,
           arranging' \in BOOLEAN, held' \in BOOLEAN, loose' \in BOOLEAN,
           ~loose' => /\ ~loose /\ (held' => arranging')
                      /\ ~held' => dragged = NoPanel /\ resized = NoPanel
    PROVE  LayoutInv'
<1>1. LayoutShape'
  BY DEF LayoutInv, LayoutShape
<1>2. CASE ~loose'
  <2>1. Apart(grid) /\ HandInv
    BY <1>2 DEF LayoutInv
  <2>2. Apart(grid') /\ (Carried => Carried') /\ (Stretching => Stretching')
    BY <2>1 DEF Apart, Carried, Stretching, Stretched, Pushed
  <2>3. HandInv'
    BY <1>2, <2>1, <2>2 DEF HandInv
  <2> QED
    BY <1>1, <2>2, <2>3 DEF LayoutInv
<1> QED
  BY <1>1, <1>2 DEF LayoutInv

LEMMA SetConfigModeKeeps == LayoutInv /\ SetConfigMode => LayoutInv'
  BY HandKept DEF SetConfigMode, LayoutInv, LayoutShape, HandInv

LEMMA SaveUILayoutKeeps == LayoutInv /\ SaveUILayout => LayoutInv'
<1> SUFFICES ASSUME LayoutInv, SaveUILayout PROVE LayoutInv'
  OBVIOUS
<1>1. arranging' \in BOOLEAN /\ held' \in BOOLEAN /\ loose' \in BOOLEAN
  BY DEF SaveUILayout, LayoutInv, LayoutShape
<1>2. UNCHANGED <<grid, original, dragged, resized, stack, preview>>
  BY DEF SaveUILayout
<1>3. ASSUME ~loose'
      PROVE  ~loose /\ ~held /\ ~held' /\ dragged = NoPanel /\ resized = NoPanel
  <2>1. ~loose /\ ~held /\ held' = held
    BY <1>3 DEF SaveUILayout
  <2> QED
    BY <2>1 DEF LayoutInv, HandInv
<1> QED
  BY <1>1, <1>2, <1>3, HandKept

\* With the button down outside the configuration, an Escape came.
LEMMA ReleaseElsewhereKeeps == LayoutInv /\ ReleaseElsewhere => LayoutInv'
<1> SUFFICES ASSUME LayoutInv, ReleaseElsewhere PROVE LayoutInv'
  OBVIOUS
<1>1. arranging' \in BOOLEAN /\ held' \in BOOLEAN /\ loose' \in BOOLEAN
  BY DEF ReleaseElsewhere, LayoutInv, LayoutShape
<1>2. UNCHANGED <<grid, original, dragged, resized, stack, preview>>
  BY DEF ReleaseElsewhere
<1>3. ASSUME ~loose' PROVE FALSE
  <2>1. ~loose /\ held /\ ~arranging
    BY <1>3 DEF ReleaseElsewhere
  <2> QED
    BY <2>1 DEF LayoutInv, HandInv
<1> QED
  BY <1>1, <1>2, <1>3, HandKept

LEMMA RestartKeeps == LayoutInv /\ Restart => LayoutInv'
<1> SUFFICES ASSUME LayoutInv, Restart PROVE LayoutInv'
  OBVIOUS
<1>1. grid \in Grids /\ grid' \in Grids /\ (~loose => Apart(grid'))
  <2>1. grid \in Grids /\ grid' = ApplyLayouts(grid)
    BY DEF LayoutInv, LayoutShape, Restart
  <2>2. ~loose => \A p \in Panels : Fits(grid[p])
    BY DEF LayoutInv, Apart
  <2> QED
    BY <2>1, <2>2, AppliedApart
<1>2. Rect(0, 0, 0, 0) \in Rects /\ <<>> \in Seq(Panels)
  BY DEF Rect, Rects
<1>3. LayoutShape'
  BY <1>1, <1>2 DEF LayoutShape, LayoutInv, Restart
<1>4. HandInv'
  BY <1>3 DEF HandInv, Restart
<1> QED
  BY <1>1, <1>3, <1>4 DEF LayoutInv, Restart

LEMMA PressPanelKeeps ==
    ASSUME LayoutInv, NEW p \in Panels, PressPanel(p)
    PROVE  LayoutInv'
<1>1. LayoutShape'
  BY DEF LayoutInv, LayoutShape, PressPanel, Press, Grids
<1>2. CASE ~loose'
  <2>1. ~loose /\ Apart(grid) /\ HandInv
    BY <1>2 DEF LayoutInv, PressPanel, Press
  <2>2. Apart(grid')
    BY <2>1 DEF Apart, PressPanel, Press
  <2>3. resized = NoPanel /\ stack = <<>> /\ resized' = NoPanel /\ stack' = <<>>
    BY <2>1 DEF HandInv, PressPanel, Press
  <2>4. original'[p] = grid'[p] /\ Fits(preview') /\ dragged' = p
    BY <2>1 DEF Apart, PressPanel, Press, LayoutInv, LayoutShape, Grids
  <2>5. HandInv'
    BY <2>3, <2>4 DEF HandInv, Carried, PressPanel, Press
  <2> QED
    BY <1>1, <2>2, <2>5 DEF LayoutInv
<1> QED
  BY <1>1, <1>2 DEF LayoutInv

\* A rectangle given its own size or place is the same.
LEMMA SameRect ==
    ASSUME NEW o \in Rects
    PROVE  [o EXCEPT !.w = o.w, !.h = o.h] = o /\ [o EXCEPT !.y = o.y + 0] = o
<1>1. o = [x |-> o.x, y |-> o.y, w |-> o.w, h |-> o.h] /\ o.y \in Int /\ o.y + 0 = o.y
  BY DEF Rects
<1> QED
  BY <1>1

LEMMA PressHandleKeeps ==
    ASSUME LayoutInv, NEW p \in Panels, PressHandle(p)
    PROVE  LayoutInv'
<1>0. grid \in Grids /\ grid' = grid /\ original' = grid /\ resized' = p /\ stack' = ResizeStack(p)
      /\ dragged' = dragged /\ held' /\ ~held /\ arranging' /\ arranging /\ loose' = loose /\ preview' = grid[p]
  BY DEF LayoutInv, LayoutShape, PressHandle, Press
<1>1. LayoutShape'
  <2>1. ResizeStack(p) \in Seq(Panels)
    BY StackOfPanels
  <2>2. grid[p] \in Rects
    BY <1>0 DEF Grids
  <2> QED
    BY <1>0, <2>1, <2>2 DEF LayoutInv, LayoutShape, PressHandle, Press
<1>2. CASE ~loose'
  <2>1. ~loose /\ Apart(grid) /\ HandInv
    BY <1>0, <1>2 DEF LayoutInv
  <2>2. Apart(grid') /\ Apart(original')
    BY <1>0, <2>1 DEF Apart
  <2>3. dragged' = NoPanel
    BY <1>0, <2>1 DEF HandInv
  <2>4. \A q \in Panels : grid[q].h > 0
    BY <2>1 DEF Apart, Fits
  <2>5. \A q \in ToSet(stack') : original'[q].x = original'[resized'].x
                                 /\ original'[q].y >= original'[resized'].y + original'[resized'].h
    BY <1>0, <2>4, StackIsBelow DEF Below
  <2>6. ASSUME NEW q \in Panels PROVE grid'[q] = Stretched(q)'
    <3>0. original'[q] \in Rects /\ grid'[q] = original'[q] /\ grid'[resized'] = original'[resized']
          /\ original'[resized'].h \in Int
      BY <1>0 DEF Grids, Rects
    <3>1. Pushed' = 0
      BY <3>0 DEF Pushed
    <3> QED
      BY <3>0, <3>1, SameRect DEF Stretched
  <2>7. Stretching'
    BY <2>2, <2>3, <2>5, <2>6 DEF Stretching
  <2>8. HandInv'
    BY <1>0, <2>3, <2>7, NoPanelIsNone DEF HandInv
  <2> QED
    BY <1>1, <2>2, <2>8 DEF LayoutInv
<1> QED
  BY <1>1, <1>2 DEF LayoutInv

LEMMA DragPanelKeeps ==
    ASSUME LayoutInv, NEW x \in 0 .. GridCols - 1, NEW y \in 0 .. GridRows - 1, DragPanel(x, y)
    PROVE  LayoutInv'
<1>0. preview' \in Rects /\ preview' = [preview EXCEPT !.x = x, !.y = y] /\ preview \in Rects
  <2>1. preview \in Rects /\ preview' = [preview EXCEPT !.x = x, !.y = y] /\ x \in Int /\ y \in Int
    BY LayoutAssumption DEF LayoutInv, LayoutShape, DragPanel
  <2> QED
    BY ONLY <2>1 DEF Rects
<1>1. LayoutShape'
  BY <1>0 DEF LayoutInv, LayoutShape, DragPanel
<1>2. CASE ~loose'
  <2>1. ~loose /\ Apart(grid) /\ HandInv /\ grid' = grid
    BY <1>2 DEF LayoutInv, DragPanel
  <2>2. Apart(grid')
    BY <2>1 DEF Apart
  <2>3. Carried
    BY <2>1 DEF HandInv, DragPanel
  <2>4. Fits(preview')
    BY <1>0, <2>3, LayoutAssumption DEF Carried, Fits, DragPanel, Rects
  <2>5. Carried'
    BY <2>3, <2>4 DEF Carried, DragPanel
  <2>6. HandInv'
    BY <2>1, <2>3, <2>5 DEF HandInv, Carried, DragPanel
  <2> QED
    BY <1>1, <2>2, <2>6 DEF LayoutInv
<1> QED
  BY <1>1, <1>2 DEF LayoutInv

Sized(o, w, h) == [o EXCEPT !.w = w, !.h = h]
At(o, y) == [o EXCEPT !.y = y]

LEMMA RectSized ==
    ASSUME NEW o \in Rects, NEW w \in Int, NEW h \in Int
    PROVE  /\ Sized(o, w, h) \in Rects
           /\ Sized(o, w, h).x = o.x /\ Sized(o, w, h).y = o.y
           /\ Sized(o, w, h).w = w /\ Sized(o, w, h).h = h
  BY DEF Rects, Sized

LEMMA RectMoved ==
    ASSUME NEW o \in Rects, NEW y \in Int
    PROVE  /\ At(o, y) \in Rects
           /\ At(o, y).x = o.x /\ At(o, y).y = y /\ At(o, y).w = o.w /\ At(o, y).h = o.h
  BY DEF Rects, At

Stretch(r, w, h) ==
    LET delta == h - original[r].h
    IN [p \in Panels |->
          IF p = r THEN [grid[p] EXCEPT !.w = w, !.h = h]
          ELSE IF p \in ToSet(stack)
          THEN [grid[p] EXCEPT !.y = original[p].y + (IF delta > 0 THEN delta ELSE 0)]
          ELSE grid[p]]

\* Where a panel is once the one that is resized has the height h.
Moved(p, r, w, h) ==
    IF p = r THEN [original[p] EXCEPT !.w = w, !.h = h]
    ELSE IF p \in ToSet(stack)
    THEN [original[p] EXCEPT !.y = original[p].y + (IF h > original[r].h THEN h - original[r].h ELSE 0)]
    ELSE original[p]

\* Only the size of one panel and the rows of its stack differ from the press on.
LEMMA StretchIs ==
    ASSUME LayoutShape, resized \in Panels, Stretching, NEW p \in Panels, NEW w \in Int, NEW h \in Int
    PROVE  Stretch(resized, w, h)[p] = Moved(p, resized, w, h)
<1>1. original[p] \in Rects /\ original[resized].h \in Int /\ grid[p] \in Rects /\ grid[resized].h \in Int
  BY DEF LayoutShape, Grids, Rects
<1>2. grid[p] = Stretched(p)
  BY DEF Stretching
<1>3. h - original[resized].h > 0 <=> h > original[resized].h
  BY <1>1
<1> DEFINE o == original[p]
           d == IF h > original[resized].h THEN h - original[resized].h ELSE 0
<1>4. Stretch(resized, w, h)[p] =
          IF p = resized THEN [grid[p] EXCEPT !.w = w, !.h = h]
          ELSE IF p \in ToSet(stack) THEN [grid[p] EXCEPT !.y = o.y + d]
          ELSE grid[p]
  BY <1>3 DEF Stretch
<1> HIDE DEF d
<1>5. CASE p = resized
  <2>1. grid[p] = [o EXCEPT !.w = grid[p].w, !.h = grid[p].h]
    BY <1>2, <1>5 DEF Stretched
  <2>2. [grid[p] EXCEPT !.w = w, !.h = h] = [o EXCEPT !.w = w, !.h = h]
    BY <1>1, <2>1 DEF Rects
  <2> QED
    BY <1>4, <1>5, <2>2 DEF Moved
<1>6. CASE p # resized /\ p \in ToSet(stack)
  <2>1. grid[p] = [o EXCEPT !.y = o.y + Pushed]
    BY <1>2, <1>6 DEF Stretched
  <2>2. [grid[p] EXCEPT !.y = o.y + d] = [o EXCEPT !.y = o.y + d]
    BY <1>1, <2>1 DEF Rects
  <2> QED
    BY <1>4, <1>6, <2>2 DEF Moved, d
<1>7. CASE p # resized /\ p \notin ToSet(stack)
  BY <1>2, <1>4, <1>7 DEF Stretched, Moved
<1> QED
  BY <1>5, <1>6, <1>7

LEMMA MovedIsRect ==
    ASSUME original \in Grids, NEW r \in Panels, NEW p \in Panels, NEW w \in Int, NEW h \in Int
    PROVE  Moved(p, r, w, h) \in Rects
<1> DEFINE d == IF h > original[r].h THEN h - original[r].h ELSE 0
<1>1. original[p] \in Rects /\ d \in Int
  BY DEF Grids, Rects
<1>2. Moved(p, r, w, h) = IF p = r THEN [original[p] EXCEPT !.w = w, !.h = h]
                          ELSE IF p \in ToSet(stack) THEN [original[p] EXCEPT !.y = original[p].y + d]
                          ELSE original[p]
  BY DEF Moved
<1> HIDE DEF d
<1>3. original[p].y + d \in Int
  BY <1>1 DEF Rects
<1> DEFINE m == Moved(p, r, w, h)
<1> HIDE DEF m
<1>4. m = IF p = r THEN [original[p] EXCEPT !.w = w, !.h = h]
          ELSE IF p \in ToSet(stack) THEN [original[p] EXCEPT !.y = original[p].y + d]
          ELSE original[p]
  BY <1>2 DEF m
<1>5. CASE p = r
  <2>1. m = Sized(original[p], w, h)
    BY <1>4, <1>5 DEF Sized
  <2> QED
    BY <1>1, <2>1, RectSized DEF m
<1>6. CASE p # r /\ p \in ToSet(stack)
  <2>1. m = At(original[p], original[p].y + d)
    BY <1>4, <1>6 DEF At
  <2> QED
    BY <1>1, <1>3, <2>1, RectMoved DEF m
<1> QED
  BY <1>1, <1>4, <1>5, <1>6 DEF m

\* What is stretched keeps the panels on the grid.
LEMMA DragHandleShape ==
    ASSUME LayoutInv, NEW w \in 2 .. GridCols, NEW h \in 2 .. GridRows, DragHandle(w, h)
    PROVE  LayoutShape' /\ grid' = Stretch(resized, w, h) /\ resized \in Panels
<1>1. grid' = Stretch(resized, w, h) /\ preview' = grid'[resized] /\ resized \in Panels
  BY DEF DragHandle, Stretch, LayoutInv, LayoutShape
<1>2. w \in Int /\ h \in Int
  BY LayoutAssumption
<1>3. \A p \in Panels : grid[p] \in Rects /\ original[p] \in Rects /\ original[resized].h \in Int
  BY <1>1 DEF LayoutInv, LayoutShape, Grids, Rects
<1>4. ASSUME NEW p \in Panels PROVE Stretch(resized, w, h)[p] \in Rects
  <2> DEFINE d == IF h - original[resized].h > 0 THEN h - original[resized].h ELSE 0
  <2>1. d \in Int
    BY <1>2, <1>3
  <2>2. Stretch(resized, w, h)[p] =
          IF p = resized THEN [grid[p] EXCEPT !.w = w, !.h = h]
          ELSE IF p \in ToSet(stack) THEN [grid[p] EXCEPT !.y = original[p].y + d]
          ELSE grid[p]
    BY DEF Stretch
  <2> HIDE DEF d
  <2>3. original[p].y + d \in Int
    BY <1>3, <2>1 DEF Rects
  <2> DEFINE m == Stretch(resized, w, h)[p]
  <2>4. CASE p = resized
    <3>1. m = Sized(grid[p], w, h)
      BY <2>2, <2>4 DEF Sized
    <3> HIDE DEF m
    <3> QED
      BY <1>2, <1>3, <3>1, RectSized DEF m
  <2>5. CASE p # resized /\ p \in ToSet(stack)
    <3>1. m = At(grid[p], original[p].y + d)
      BY <2>2, <2>5 DEF At
    <3> HIDE DEF m
    <3> QED
      BY <1>3, <2>3, <3>1, RectMoved DEF m
  <2> QED
    BY <1>3, <2>2, <2>4, <2>5
<1>5. Stretch(resized, w, h) \in Grids
  BY <1>4 DEF Stretch, Grids
<1>6. preview' \in Rects
  BY <1>1, <1>4
<1> QED
  BY <1>1, <1>5, <1>6 DEF LayoutInv, LayoutShape, DragHandle

\* Two rectangles as far down as each other.
LEMMA ShiftedApart ==
    ASSUME NEW a \in Rects, NEW b \in Rects, NEW d \in Int, ~Clash(a, b)
    PROVE  ~Clash([a EXCEPT !.y = a.y + d], [b EXCEPT !.y = b.y + d])
  BY DEF Clash, Rects

\* What has been checked, against the panels that stay, keeps all of them apart: those
\* pushed are pushed by as much, so what was apart among them still is.
LEMMA StretchedApart ==
    ASSUME LayoutShape, resized \in Panels, Stretching,
           NEW w \in 2 .. GridCols, NEW h \in 2 .. GridRows, DragHandle(w, h),
           NEW p \in Panels
    PROVE  /\ Fits(Moved(p, resized, w, h))
           /\ \A q \in Panels \ {p} : ~Clash(Moved(p, resized, w, h), Moved(q, resized, w, h))
<1> DEFINE r == resized
           o == original[r]
           rect == [o EXCEPT !.w = w, !.h = h]
           delta == h - o.h
           d == IF h > o.h THEN h - o.h ELSE 0
           M(q) == Moved(q, r, w, h)
<1>0. w \in Int /\ h \in Int /\ w >= 2 /\ h >= 2 /\ GridCols \in Int /\ GridRows \in Int
  BY LayoutAssumption
<1>1. \A q \in Panels : original[q] \in Rects /\ grid[q] \in Rects
  BY DEF LayoutShape, Grids
<1>2. o \in Rects /\ rect \in Rects /\ delta \in Int /\ d \in Int /\ d >= 0
      /\ (delta > 0 <=> h > o.h) /\ (delta > 0 => d = delta) /\ (~(delta > 0) => d = 0)
      /\ rect.x = o.x /\ rect.y = o.y /\ rect.w = w /\ rect.h = h
  <2>1. o \in Rects
    BY <1>1
  <2>2. rect \in Rects /\ rect.x = o.x /\ rect.y = o.y /\ rect.w = w /\ rect.h = h
    <3>1. rect = Sized(o, w, h)
      BY DEF Sized
    <3> HIDE DEF rect, o
    <3> QED
      BY <1>0, <2>1, <3>1, RectSized
  <2>3. o.h \in Int
    BY <2>1 DEF Rects
  <2>4. delta \in Int /\ d \in Int /\ d >= 0
        /\ (delta > 0 <=> h > o.h) /\ (delta > 0 => d = delta) /\ (~(delta > 0) => d = 0)
    <3> HIDE DEF o
    <3> QED
      BY <1>0, <2>3
  <2> QED
    BY <2>1, <2>2, <2>4
<1>3. /\ o.x + w <= GridCols /\ o.y + h <= GridRows
      /\ ~HitsStatic(rect, delta) /\ (delta > 0 => CanPushStack(delta))
  BY DEF DragHandle
<1>4. \A q \in Panels : /\ q = r => M(q) = rect
                        /\ q # r /\ q \in ToSet(stack) => M(q) = [original[q] EXCEPT !.y = original[q].y + d]
                        /\ q # r /\ q \notin ToSet(stack) => M(q) = original[q] /\ grid[q] = original[q]
  BY DEF Moved, Stretching, Stretched
<1>5. \A q \in Panels : Fits(original[q]) /\ \A t \in Panels \ {q} : ~Clash(original[q], original[t])
  BY DEF Stretching, Apart
<1>6. \A q \in ToSet(stack) : q \in Panels /\ original[q].x = o.x /\ original[q].y >= o.y + o.h
  BY DEF Stretching, LayoutShape, ToSet
<1>7. \A q \in Panels : M(q) \in Rects
  BY <1>0, MovedIsRect DEF LayoutShape
<1> HIDE DEF d, rect, delta, M
\* The panel that is resized covers no other.
<1>8. ASSUME NEW q \in Panels \ {r} PROVE ~Clash(rect, M(q))
  <2>0. q # r
    OBVIOUS
  <2>1. CASE q \in ToSet(stack)
    <3> DEFINE b == original[q]
               m == [b EXCEPT !.y = b.y + d]
    <3>1. M(q) = m /\ b \in Rects /\ b.y >= o.y + o.h
      BY <1>1, <1>4, <1>6, <2>0, <2>1
    <3>2. m.y = b.y + d /\ b.y \in Int /\ o.y \in Int /\ o.h \in Int
      BY <1>2, <3>1 DEF Rects
    <3>3. rect.y + rect.h <= m.y
      <4>1. CASE delta > 0
        BY <1>0, <1>2, <3>1, <3>2, <4>1 DEF delta
      <4>2. CASE ~(delta > 0)
        BY <1>0, <1>2, <3>1, <3>2, <4>2
      <4> QED
        BY <4>1, <4>2
    <3>4. ~(rect.y + rect.h > m.y)
      <4> HIDE DEF m
      <4>1. rect.y \in Int /\ rect.h \in Int /\ m.y \in Int
        BY <1>0, <1>2, <1>7, <3>1 DEF Rects
      <4> QED
        BY ONLY <3>3, <4>1
    <3> QED
      BY <3>1, <3>4 DEF Clash
  <2>2. CASE q \notin ToSet(stack)
    <3>1. ~Clash(rect, grid[q])
      BY <1>3, <2>0, <2>2 DEF HitsStatic
    <3> QED
      BY <1>4, <2>0, <2>2, <3>1
  <2> QED
    BY <2>1, <2>2
\* The stack keeps its distances, and is checked against the rest when it is pushed.
<1>9. ASSUME NEW q \in Panels \ {r}, q \in ToSet(stack), NEW t \in Panels \ {r}, t # q
      PROVE  ~Clash(M(q), M(t))
  <2>1. M(q) = [original[q] EXCEPT !.y = original[q].y + d]
    BY <1>4, <1>9
  <2>2. ~Clash(original[q], original[t]) /\ original[q] \in Rects /\ original[t] \in Rects
    BY <1>1, <1>5, <1>9
  <2>3. CASE t \in ToSet(stack)
    <3>1. M(t) = [original[t] EXCEPT !.y = original[t].y + d]
      BY <1>4, <1>9, <2>3
    <3> QED
      BY <1>2, <2>1, <2>2, <3>1, ShiftedApart
  <2>4. CASE t \notin ToSet(stack)
    <3>1. M(t) = original[t] /\ grid[t] = original[t]
      BY <1>4, <1>9, <2>4
    <3>2. CASE delta > 0
      <4>1. ~HitsStatic([original[q] EXCEPT !.y = original[q].y + delta], delta)
        BY <1>3, <1>9, <3>2 DEF CanPushStack
      <4>2. ~Clash([original[q] EXCEPT !.y = original[q].y + delta], grid[t])
        BY <1>9, <2>4, <4>1 DEF HitsStatic
      <4> QED
        BY <1>2, <2>1, <3>1, <3>2, <4>2
    <3>3. CASE ~(delta > 0)
      <4>1. M(q) = original[q]
        BY <1>2, <2>1, <2>2, <3>3, SameRect
      <4> QED
        BY <2>2, <3>1, <4>1
    <3> QED
      BY <3>2, <3>3
  <2> QED
    BY <2>3, <2>4
<1>10. ASSUME NEW q \in Panels \ {p} PROVE ~Clash(M(p), M(q))
  <2>1. CASE p = r
    BY <1>4, <1>8, <2>1
  <2>2. CASE q = r
    <3>1. ~Clash(rect, M(p)) /\ M(q) = rect
      BY <1>4, <1>8, <2>2
    <3> QED
      BY <1>2, <1>7, <3>1, ClashBoth
  <2>3. CASE p # r /\ q # r /\ p \in ToSet(stack)
    BY <1>9, <2>3
  <2>4. CASE p # r /\ q # r /\ q \in ToSet(stack)
    <3>1. ~Clash(M(q), M(p))
      BY <1>9, <2>4
    <3> QED
      BY <1>7, <3>1, ClashBoth
  <2>5. CASE p # r /\ q # r /\ p \notin ToSet(stack) /\ q \notin ToSet(stack)
    <3>1. M(p) = original[p] /\ M(q) = original[q]
      BY <1>4, <2>5
    <3> QED
      BY <1>5, <3>1
  <2> QED
    BY <2>1, <2>2, <2>3, <2>4, <2>5
<1>11. Fits(M(p))
  <2>1. CASE p = r
    <3>1. Fits(o)
      BY <1>5
    <3>2. Fits(rect)
      BY <1>0, <1>2, <1>3, <3>1 DEF Fits, Rects
    <3> QED
      BY <1>4, <2>1, <3>2
  <2>2. CASE p # r /\ p \in ToSet(stack)
    <3> DEFINE b == original[p]
               m == [b EXCEPT !.y = b.y + d]
    <3>1. M(p) = m /\ b \in Rects /\ Fits(b)
      BY <1>1, <1>4, <1>5, <2>2
    <3>2. m.x = b.x /\ m.w = b.w /\ m.h = b.h /\ m.y = b.y + d /\ b.y \in Int /\ b.h \in Int
      BY <3>1 DEF Rects
    <3>3. m.y + m.h <= GridRows
      <4>1. CASE delta > 0
        <5>1. LET c == [original[p] EXCEPT !.y = original[p].y + delta] IN c.y + c.h <= GridRows
          BY <1>3, <2>2, <4>1 DEF CanPushStack
        <5> QED
          BY <1>2, <4>1, <5>1
      <4>2. CASE ~(delta > 0)
        BY <1>2, <3>1, <3>2, <4>2 DEF Fits
      <4> QED
        BY <4>1, <4>2
    <3>4. m.y >= 0
      BY <1>2, <3>1, <3>2 DEF Fits
    <3> HIDE DEF m
    <3> QED
      BY <3>1, <3>2, <3>3, <3>4 DEF Fits
  <2>3. CASE p # r /\ p \notin ToSet(stack)
    BY <1>4, <1>5, <2>3
  <2> QED
    BY <2>1, <2>2, <2>3
<1> QED
  BY <1>10, <1>11 DEF M

LEMMA DragHandleKeeps ==
    ASSUME LayoutInv, NEW w \in 2 .. GridCols, NEW h \in 2 .. GridRows, DragHandle(w, h)
    PROVE  LayoutInv'
<1>1. LayoutShape' /\ LayoutShape /\ grid' = Stretch(resized, w, h) /\ resized \in Panels
  BY DragHandleShape DEF LayoutInv
<1>2. CASE ~loose'
  <2>1. ~loose /\ HandInv /\ dragged = NoPanel /\ resized # NoPanel /\ arranging
    BY <1>2 DEF LayoutInv, DragHandle
  <2>2. Stretching
    BY <2>1 DEF HandInv
  <2>3. w \in Int /\ h \in Int
    BY LayoutAssumption
  <2>4. \A p \in Panels : grid'[p] = Moved(p, resized, w, h)
    BY <1>1, <2>2, <2>3, StretchIs
  <2>5. Apart(grid')
    BY <1>1, <2>2, <2>4, StretchedApart DEF Apart
  <2>6. UNCHANGED <<original, dragged, resized, stack, arranging, held>>
    BY DEF DragHandle
  <2>7. grid'[resized].w = w /\ grid'[resized].h = h
    <3>1. original[resized] \in Rects
      BY <1>1 DEF LayoutShape, Grids
    <3>2. grid'[resized] = Sized(original[resized], w, h)
      BY <1>1, <2>4 DEF Moved, Sized
    <3> QED
      BY <2>3, <3>1, <3>2, RectSized
  <2>8. Pushed' = IF h > original[resized].h THEN h - original[resized].h ELSE 0
    BY <2>6, <2>7 DEF Pushed
  <2>9. ASSUME NEW p \in Panels PROVE grid'[p] = Stretched(p)'
    BY <2>4, <2>6, <2>7, <2>8 DEF Moved, Stretched
  <2>10. Stretching'
    BY <2>1, <2>2, <2>6, <2>9 DEF Stretching, Apart
  <2>11. HandInv'
    <3>1. dragged' = NoPanel /\ resized' # NoPanel /\ arranging' /\ held'
      <4>1. held
        BY Zenon DEF DragHandle
      <4> QED
        BY <2>1, <2>6, <4>1
    <3> QED
      BY <2>10, <3>1 DEF HandInv
  <2> QED
    BY <1>1, <2>5, <2>11 DEF LayoutInv
<1> QED
  BY <1>1, <1>2 DEF LayoutInv

LEMMA DroppedShape == LayoutShape => Dropped \in Grids
<1> SUFFICES ASSUME LayoutShape PROVE Dropped \in Grids
  OBVIOUS
<1>1. CASE dragged = NoPanel
  BY <1>1 DEF LayoutShape, Dropped
<1>2. CASE dragged # NoPanel
  <2>1. dragged \in Panels /\ original[dragged] \in Rects /\ preview \in Rects /\ grid \in Grids
    BY <1>2 DEF LayoutShape, Grids
  <2> QED
    BY <1>2, <2>1 DEF Dropped, Grids
<1> QED
  BY <1>1, <1>2

\* What the stack becomes when the button goes up.
Closed ==
    LET delta == Dropped[resized].h - original[resized].h
    IN [p \in Panels |-> IF p \in ToSet(stack)
                         THEN [Dropped[p] EXCEPT !.y = original[p].y + delta] ELSE Dropped[p]]

LEMMA ClosedShape == LayoutShape /\ resized \in Panels => Closed \in Grids
<1> SUFFICES ASSUME LayoutShape, resized \in Panels PROVE Closed \in Grids
  OBVIOUS
<1> DEFINE delta == Dropped[resized].h - original[resized].h
<1>1. \A p \in Panels : Dropped[p] \in Rects /\ original[p] \in Rects
  BY DroppedShape DEF LayoutShape, Grids
<1>2. delta \in Int
  BY <1>1 DEF Rects
<1>3. Closed = [p \in Panels |-> IF p \in ToSet(stack)
                                 THEN [Dropped[p] EXCEPT !.y = original[p].y + delta] ELSE Dropped[p]]
  BY DEF Closed
<1> HIDE DEF delta
<1>4. ASSUME NEW p \in Panels
      PROVE  [Dropped[p] EXCEPT !.y = original[p].y + delta] \in Rects
  <2>1. original[p].y + delta \in Int
    BY <1>1, <1>2 DEF Rects
  <2>2. At(Dropped[p], original[p].y + delta) \in Rects
    BY <1>1, <2>1, RectMoved
  <2> QED
    BY <2>2 DEF At
<1> QED
  BY <1>1, <1>3, <1>4 DEF Grids

\* A panel that has not shrunk, or has nothing under it, leaves the rest where it is.
LEMMA ReleaseKeeps == LayoutInv /\ Release => LayoutInv'
<1> SUFFICES ASSUME LayoutInv, Release PROVE LayoutInv'
  OBVIOUS
<1> DEFINE delta == Dropped[resized].h - original[resized].h
<1>0. LayoutShape /\ Dropped \in Grids /\ (resized # NoPanel => resized \in Panels)
  BY DroppedShape DEF LayoutInv, LayoutShape
<1>1. /\ ~held' /\ dragged' = NoPanel /\ resized' = NoPanel /\ UNCHANGED <<original, preview, arranging>>
      /\ stack' = IF resized # NoPanel THEN <<>> ELSE stack
  BY DEF Release
<1>2. IF resized # NoPanel /\ delta <= 0
      THEN grid' = Closed /\ loose' = (loose \/ (stack # <<>> /\ delta < 0))
      ELSE grid' = Dropped /\ loose' = loose
  BY DEF Release, Closed
<1> HIDE DEF delta
<1>3. LayoutShape'
  <2>1. grid' \in Grids
    BY <1>0, <1>2, ClosedShape
  <2>2. loose' \in BOOLEAN /\ held' \in BOOLEAN
    BY <1>0, <1>2 DEF LayoutShape, Release
  <2>3. stack' \in Seq(Panels)
    BY <1>0, <1>1 DEF LayoutShape
  <2> QED
    BY <1>0, <1>1, <2>1, <2>2, <2>3 DEF LayoutShape
<1>4. CASE ~loose'
  <2>1. ~loose /\ Apart(grid) /\ HandInv /\ grid \in Grids
    BY <1>0, <1>2, <1>4 DEF LayoutInv, LayoutShape
  <2>2. CASE dragged # NoPanel
    <3>1. Carried /\ resized = NoPanel /\ dragged \in Panels /\ preview \in Rects
      BY <1>0, <2>1, <2>2 DEF HandInv, Carried, LayoutShape
    <3>2. grid' = Dropped /\ stack' = <<>>
      BY <1>1, <1>2, <3>1 DEF Carried
    <3>3. CASE CheckOverlap(grid, preview, dragged)
      <4>1. Dropped = [grid EXCEPT ![dragged] = grid[dragged]]
        BY <2>2, <3>1, <3>3 DEF Dropped, Carried
      <4>2. Dropped = grid
        BY <2>1, <4>1 DEF Grids
      <4>3. Apart(grid')
        BY <2>1, <3>2, <4>2
      <4> QED
        BY <1>1, <1>3, <3>2, <4>3 DEF LayoutInv, HandInv
    <3>4. CASE ~CheckOverlap(grid, preview, dragged)
      <4>1. Dropped = [grid EXCEPT ![dragged] = preview]
        BY <2>2, <3>4 DEF Dropped
      <4>2. Apart([grid EXCEPT ![dragged] = preview])
        BY <2>1, <3>1, <3>4, PlacedApart DEF Carried
      <4>3. Apart(grid')
        BY <3>2, <4>1, <4>2
      <4> QED
        BY <1>1, <1>3, <3>2, <4>3 DEF LayoutInv, HandInv
    <3> QED
      BY <3>3, <3>4
  <2>3. CASE dragged = NoPanel
    <3>1. Dropped = grid
      BY <2>3 DEF Dropped
    <3>2. CASE resized = NoPanel
      <4>1. grid' = grid /\ stack' = stack /\ held
        BY <1>1, <1>2, <3>1, <3>2 DEF Release
      <4>2. Apart(grid') /\ stack' = <<>>
        BY <2>1, <3>2, <4>1 DEF HandInv
      <4> QED
        BY <1>1, <1>3, <4>2 DEF LayoutInv, HandInv
    <3>3. CASE resized # NoPanel
      <4>1. Stretching /\ resized \in Panels /\ stack' = <<>>
        BY <1>0, <1>1, <2>1, <3>3 DEF HandInv
      <4>2. CASE ~(delta <= 0)
        <5>1. grid' = grid
          BY <1>2, <3>1, <4>2
        <5> QED
          BY <1>1, <1>3, <2>1, <4>1, <5>1 DEF LayoutInv, HandInv
      <4>3. CASE delta <= 0
        <5>1. grid' = Closed /\ (stack = <<>> \/ ~(delta < 0))
          BY <1>2, <1>4, <3>3, <4>3
        <5>2. delta = grid[resized].h - original[resized].h
          BY <3>1 DEF delta
        <5>3. grid[resized].h \in Int /\ original[resized].h \in Int
          BY <1>0, <4>1 DEF LayoutShape, Grids, Rects
        <5>4. ASSUME NEW p \in Panels PROVE Closed[p] = grid[p]
          <6>1. Closed[p] = IF p \in ToSet(stack) THEN [grid[p] EXCEPT !.y = original[p].y + delta] ELSE grid[p]
            BY <3>1 DEF Closed, delta
          <6>2. CASE p \in ToSet(stack)
            <7>1. delta = 0
              <8>1. stack # <<>>
                BY <6>2 DEF ToSet
              <8> QED
                BY <4>3, <5>1, <5>2, <5>3, <8>1
            <7>2. Pushed = 0 /\ p # resized
              <8>1. original[resized].h > 0
                BY <4>1 DEF Stretching, Apart, Fits
              <8>2. ~(grid[resized].h > original[resized].h)
                BY ONLY <5>2, <5>3, <7>1
              <8>3. p # resized
                <9> SUFFICES ASSUME p = resized PROVE FALSE
                  OBVIOUS
                <9>1. original[resized].y >= original[resized].y + original[resized].h
                  BY <4>1, <6>2 DEF Stretching
                <9>2. original[resized].y \in Int
                  BY <1>0, <4>1 DEF LayoutShape, Grids, Rects
                <9> QED
                  BY ONLY <5>3, <8>1, <9>1, <9>2
              <8> QED
                BY <8>2, <8>3 DEF Pushed
            <7>3. grid[p] = [original[p] EXCEPT !.y = original[p].y + 0]
              BY <4>1, <6>2, <7>2 DEF Stretching, Stretched
            <7>4. original[p] \in Rects
              BY <1>0 DEF LayoutShape, Grids
            <7>5. grid[p] = original[p]
              BY <7>3, <7>4, SameRect
            <7> QED
              BY <6>1, <6>2, <7>1, <7>3, <7>5
          <6> QED
            BY <6>1, <6>2
        <5>5. Apart(grid')
          BY <2>1, <5>1, <5>4 DEF Apart
        <5> QED
          BY <1>1, <1>3, <4>1, <5>5 DEF LayoutInv, HandInv
      <4> QED
        BY <4>2, <4>3
    <3> QED
      BY <3>2, <3>3
  <2> QED
    BY <2>2, <2>3
<1> QED
  BY <1>3, <1>4 DEF LayoutInv

LEMMA LayoutStarts == LayoutInit => LayoutInv
<1> SUFFICES ASSUME LayoutInit PROVE LayoutInv
  OBVIOUS
<1>1. Rect(0, 0, 0, 0) \in Rects /\ <<>> \in Seq(Panels)
  BY DEF Rect, Rects
<1>2. LayoutShape
  BY <1>1, DefaultApart DEF LayoutInit, LayoutShape
<1>3. HandInv
  BY DEF LayoutInit, HandInv
<1> QED
  BY <1>2, <1>3, DefaultApart DEF LayoutInv, LayoutInit

LEMMA LayoutStutters == LayoutInv /\ UNCHANGED layoutVars => LayoutInv'
<1> SUFFICES ASSUME LayoutInv, UNCHANGED layoutVars PROVE LayoutInv'
  OBVIOUS
<1>1. UNCHANGED <<grid, original, dragged, resized, stack, preview, arranging, held, loose>>
  BY DEF layoutVars
<1>2. arranging \in BOOLEAN /\ held \in BOOLEAN /\ loose \in BOOLEAN
  BY DEF LayoutInv, LayoutShape
<1>3. ~loose => (held => arranging) /\ (~held => dragged = NoPanel /\ resized = NoPanel)
  BY DEF LayoutInv, HandInv
<1> QED
  BY <1>1, <1>2, <1>3, HandKept

LEMMA LayoutStep == LayoutInv /\ [LayoutNext]_layoutVars => LayoutInv'
<1> SUFFICES ASSUME LayoutInv, [LayoutNext]_layoutVars PROVE LayoutInv'
  OBVIOUS
<1>1. CASE LayoutNext
  BY <1>1, SetConfigModeKeeps, SaveUILayoutKeeps, ReleaseElsewhereKeeps, RestartKeeps, ReleaseKeeps,
     PressHandleKeeps, PressPanelKeeps, DragPanelKeeps, DragHandleKeeps DEF LayoutNext
<1>2. CASE UNCHANGED layoutVars
  BY <1>2, LayoutStutters
<1> QED
  BY <1>1, <1>2

LEMMA LayoutHolds == LayoutInv => ArrangementHolds
<1> SUFFICES ASSUME LayoutInv PROVE PanelsApart /\ LayoutReturns
  BY DEF ArrangementHolds
<1>1. LayoutReturns
  BY LayoutComesBack DEF LayoutInv, LayoutShape
<1>2. PanelsApart
  BY DEF LayoutInv, PanelsApart, Apart, CheckOverlap
<1> QED
  BY <1>1, <1>2

-----------------------------------------------------------------------------
(* Stacking: a frame.                                                      *)

FrameRec == [visible : BOOLEAN, before : BOOLEAN, collapsed : BOOLEAN,
             height : Int, expanded : Int, y : Int]
Frames == [Panels -> FrameRec]

Put(f, p) == [f EXCEPT !.y = IF IsRoot(p) THEN Stood[p].y * cell ELSE @]

Turned(f, p, halves) ==
    IF p \in Pinned THEN Lock(UpdatePanel(Put(f, p), halves))
    ELSE UpdatePanel(SetSize(Put(f, p), Stood[p].h * cell), halves)

FrameOne(all, p, halves) ==
    LET f == Turned(all[p], p, halves)
    IN [q \in Panels |-> CASE q = p -> f
                           [] q = NextPanel(p) -> [all[q] EXCEPT !.y = f.y + f.height + Gap(p) * cell]
                           [] OTHER -> all[q]]

\* The fold of Frame, spelled out.
LEMMA FrameFolds ==
    ASSUME NEW halves, Frame(halves)
    PROVE  frames' = (CHOOSE it : it = [s \in SUBSET Panels |->
                          IF s = {} THEN frames
                          ELSE FrameOne(it[s \ {Max(s)}], [p \in Panels |-> p][Max(s)], halves)])[Panels]
<1>1. DOMAIN [p \in Panels |-> p] = Panels
  OBVIOUS
<1> QED
  BY <1>1, Zenon DEF Frame, FoldLeft, MapThenFoldSet, FrameOne, Turned, Put

\* A height that does not change is the one it makes for.
LEMMA ApproachType ==
    ASSUME NEW h \in Int, NEW t \in Int, NEW halves \in 1 .. 3
    PROVE  Approach(h, t, halves) \in Int /\ (Approach(h, t, halves) = h => h = t)
<1> DEFINE near == h + ((t - h) * halves) \div 2
<1>1. Approach(h, t, halves) = IF near - t \in -1 .. 1 THEN t ELSE near
  BY DEF Approach
<1>2. near \in Int /\ (near = h => near - t \in -1 .. 1)
  <2>1. CASE halves = 1
    BY <2>1
  <2>2. CASE halves = 2
    BY <2>2
  <2>3. CASE halves = 3
    BY <2>3
  <2> QED
    BY <2>1, <2>2, <2>3
<1> HIDE DEF near
<1> QED
  BY <1>1, <1>2

\* The height a panel makes for in a frame, and what it comes to.
Extent(p) == IF p \in Pinned THEN BarHeight ELSE Stood[p].h * cell
Goal(p) == IF frames[p].collapsed /\ ~configMode THEN HeaderHeight ELSE Extent(p)
Taken(p, h) == IF configMode /\ p \notin Pinned THEN Extent(p) ELSE h
Grown(p, h, halves) == IF frames[p].visible THEN Approach(Taken(p, h), Goal(p), halves) ELSE Taken(p, h)

\* Where a panel is after its turn: World control at the bottom of the screen.
Own(p, y, h) ==
    IF p \in Pinned /\ frames[p].visible THEN GridRows * cell - h
    ELSE IF IsRoot(p) THEN Stood[p].y * cell ELSE y

BarsFixed(all) == \A p \in Pinned : all[p].expanded = BarHeight

Stage(all) ==
    /\ all \in Frames /\ BarsFixed(all)
    /\ \A p \in Panels : /\ all[p].visible = frames[p].visible /\ all[p].collapsed = frames[p].collapsed

StackShape ==
    /\ frames \in Frames /\ configMode \in BOOLEAN /\ cell \in Nat /\ cell \in CellHeights
    /\ calm \in 0 .. Links /\ BarsFixed(frames)

LEMMA StoodIs ==
    ASSUME StackShape, NEW p \in Panels
    PROVE  /\ Stood[p] \in Rects /\ Stood[p].y \in Int /\ Stood[p].h \in Int /\ Stood[p].h > 0 /\ Stood[p].y >= 0
           /\ Stood[p].h * cell \in Int /\ Stood[p].y * cell \in Int /\ cell \in Int
           /\ Extent(p) \in Int /\ Goal(p) \in Int /\ GridRows * cell \in Int
           /\ \A h \in Int : Taken(p, h) \in Int
           /\ \A h \in Int, halves \in 1 .. 3 : Grown(p, h, halves) \in Int
<1>1. Stood[p] \in Rects /\ Fits(Stood[p])
  BY StackingAssumption
<1>2. /\ Stood[p].y \in Int /\ Stood[p].h \in Int /\ Stood[p].h > 0 /\ Stood[p].y >= 0 /\ cell \in Int
  BY <1>1 DEF Rects, Fits, StackShape
<1>3. Stood[p].h * cell \in Int /\ Stood[p].y * cell \in Int
  BY <1>2
<1>4. Extent(p) \in Int /\ GridRows * cell \in Int
  BY <1>2, <1>3, LayoutAssumption DEF Extent, BarHeight
<1>5. Goal(p) \in Int /\ \A h \in Int : Taken(p, h) \in Int
  BY <1>4 DEF Goal, Taken, HeaderHeight
<1>6. \A h \in Int, halves \in 1 .. 3 : Grown(p, h, halves) \in Int
  BY <1>5, ApproachType DEF Grown
<1> QED
  BY <1>1, <1>2, <1>3, <1>4, <1>5, <1>6

Rec(f, height, expanded, y) ==
    [visible |-> f.visible, before |-> f.before, collapsed |-> f.collapsed,
     height |-> height, expanded |-> expanded, y |-> y]

LEMMA RecIs ==
    ASSUME NEW f \in FrameRec, NEW h \in Int, NEW e \in Int, NEW y \in Int
    PROVE  /\ Rec(f, h, e, y) \in FrameRec
           /\ Rec(f, h, e, y).visible = f.visible /\ Rec(f, h, e, y).collapsed = f.collapsed
           /\ Rec(f, h, e, y).height = h /\ Rec(f, h, e, y).expanded = e /\ Rec(f, h, e, y).y = y
  BY DEF Rec, FrameRec

Resized(f, h, e) == [f EXCEPT !.expanded = e, !.height = h]

LEMMA RecOf ==
    ASSUME NEW f \in FrameRec, NEW h \in Int, NEW e \in Int, NEW y \in Int,
           NEW r, r = Rec(f, h, e, y)
    PROVE  /\ r \in FrameRec /\ r.visible = f.visible /\ r.collapsed = f.collapsed
           /\ r.height = h /\ r.expanded = e /\ r.y = y
  BY DEF Rec, FrameRec

LEMMA RecPut ==
    ASSUME NEW f \in FrameRec, NEW h, NEW e, NEW y
    PROVE  /\ [f EXCEPT !.y = y] = Rec(f, f.height, f.expanded, y)
           /\ Resized(f, h, e) = Rec(f, h, e, f.y)
           /\ [f EXCEPT !.height = h] = Rec(f, h, f.expanded, f.y)
<1>1. f = [visible |-> f.visible, before |-> f.before, collapsed |-> f.collapsed,
           height |-> f.height, expanded |-> f.expanded, y |-> f.y]
  BY DEF FrameRec
<1>2. [f EXCEPT !.y = y] = Rec(f, f.height, f.expanded, y)
  BY <1>1 DEF Rec
<1>3. [f EXCEPT !.height = h] = Rec(f, h, f.expanded, f.y)
  BY <1>1 DEF Rec
<1>4. Resized(f, h, e) = Rec(f, h, e, f.y)
  <2> DEFINE g == [f EXCEPT !.expanded = e]
  <2>1. Resized(f, h, e) = [g EXCEPT !.height = h]
    BY Zenon DEF Resized
  <2>2. g = [visible |-> f.visible, before |-> f.before, collapsed |-> f.collapsed,
             height |-> f.height, expanded |-> e, y |-> f.y]
    BY <1>1
  <2> HIDE DEF g
  <2>3. [g EXCEPT !.height = h] = [visible |-> f.visible, before |-> f.before, collapsed |-> f.collapsed,
                                   height |-> h, expanded |-> e, y |-> f.y]
    BY <2>2
  <2> QED
    BY <2>1, <2>3 DEF Rec
<1> QED
  BY <1>2, <1>3, <1>4

\* What a turn makes of the panel whose turn it is.
LEMMA PutIs ==
    ASSUME StackShape, NEW f \in FrameRec, NEW p \in Panels
    PROVE  LET y == IF IsRoot(p) THEN Stood[p].y * cell ELSE f.y
           IN /\ y \in Int /\ Put(f, p) = Rec(f, f.height, f.expanded, y) /\ Put(f, p) \in FrameRec
              /\ Put(f, p).height = f.height /\ Put(f, p).expanded = f.expanded /\ Put(f, p).y = y
              /\ Put(f, p).visible = f.visible /\ Put(f, p).collapsed = f.collapsed
<1> DEFINE y == IF IsRoot(p) THEN Stood[p].y * cell ELSE f.y
           h == f.height
           e == f.expanded
<1>1. h \in Int /\ e \in Int /\ y \in Int
  BY StoodIs DEF FrameRec
<1>2. Put(f, p) = Rec(f, h, e, y)
  <2>1. Put(f, p) = [f EXCEPT !.y = y]
    BY DEF Put
  <2> HIDE DEF y
  <2> QED
    BY <2>1, RecPut
<1> DEFINE r == Put(f, p)
<1> HIDE DEF y, h, e, r
<1>3. r \in FrameRec /\ r.visible = f.visible /\ r.collapsed = f.collapsed
      /\ r.height = h /\ r.expanded = e /\ r.y = y
  BY <1>1, <1>2, RecOf DEF r
<1> QED
  BY <1>1, <1>2, <1>3 DEF r, h, e, y

\* A panel grows towards its goal, from the height it took.
LEMMA GrowIs ==
    ASSUME StackShape, NEW p \in Panels, NEW halves \in 1 .. 3, NEW b \in FrameRec, NEW h \in Int,
           b.height = Taken(p, h), b.expanded = Extent(p),
           b.visible = frames[p].visible, b.collapsed = frames[p].collapsed
    PROVE  UpdatePanel(b, halves) = Rec(b, Grown(p, h, halves), Extent(p), b.y)
<1>1. TargetHeight(b) = Goal(p)
  BY DEF TargetHeight, Goal
<1> DEFINE g == Grown(p, h, halves)
<1>2. UpdatePanel(b, halves) = IF b.visible THEN [b EXCEPT !.height = g] ELSE b
  <2>1. b.visible => Approach(b.height, TargetHeight(b), halves) = g
    BY <1>1 DEF Grown
  <2>2. UpdatePanel(b, halves) =
          IF b.visible THEN [b EXCEPT !.height = Approach(b.height, TargetHeight(b), halves)] ELSE b
    BY Zenon DEF UpdatePanel
  <2> HIDE DEF g
  <2> QED
    BY <2>1, <2>2
<1>3. CASE b.visible
  <2>1. [b EXCEPT !.height = g] = Rec(b, g, b.expanded, b.y)
    BY RecPut
  <2> QED
    BY <1>2, <1>3, <2>1
<1>4. CASE ~b.visible
  <2>1. g = b.height
    BY <1>4 DEF Grown
  <2>2. b = Rec(b, b.height, b.expanded, b.y)
    BY DEF Rec, FrameRec
  <2> QED
    BY <1>2, <1>4, <2>1, <2>2
<1> QED
  BY <1>3, <1>4

LEMMA UpdateIs ==
    ASSUME StackShape, NEW f \in FrameRec, NEW p \in Panels, NEW halves \in 1 .. 3,
           f.visible = frames[p].visible, f.collapsed = frames[p].collapsed,
           p \in Pinned => f.expanded = BarHeight
    PROVE  Turned(f, p, halves) =
               Rec(f, Grown(p, f.height, halves), Extent(p), Own(p, f.y, Grown(p, f.height, halves)))
<1> DEFINE y == IF IsRoot(p) THEN Stood[p].y * cell ELSE f.y
           e == Extent(p)
           a == Put(f, p)
           g == Grown(p, f.height, halves)
           fh == f.height
<1>1. fh \in Int /\ f.expanded \in Int /\ f.y \in Int
  BY DEF FrameRec
<1>2. e \in Int /\ Taken(p, fh) \in Int /\ g \in Int /\ GridRows * cell \in Int
  BY <1>1, StoodIs
<1>3. /\ y \in Int /\ a = Rec(f, fh, f.expanded, y) /\ a \in FrameRec
      /\ a.height = fh /\ a.expanded = f.expanded /\ a.y = y
      /\ a.visible = f.visible /\ a.collapsed = f.collapsed
  BY PutIs
<1> HIDE DEF y, a
<1>4. CASE p \notin Pinned
  <2> DEFINE b == SetSize(a, Stood[p].h * cell)
             t == Taken(p, fh)
  <2>1. e = Stood[p].h * cell /\ t = IF configMode THEN e ELSE fh
    BY <1>4 DEF Extent, Taken
  <2>2. b = Resized(a, t, e)
    BY <1>3, <2>1 DEF SetSize, Resized
  <2> HIDE DEF e, t, b, fh
  <2>9. a \in FrameRec /\ a.y = y
    BY <1>3
  <2>10. Resized(a, t, e) = Rec(a, t, e, a.y)
    BY ONLY <2>9, RecPut
  <2>3. b = Rec(a, t, e, y)
    BY ONLY <2>2, <2>9, <2>10
  <2>4. b \in FrameRec /\ b.height = t /\ b.expanded = e /\ b.y = y /\ b.visible = f.visible
        /\ b.collapsed = f.collapsed
    BY <1>2, <1>3, <2>3, RecOf DEF t
  <2>5. UpdatePanel(b, halves) = Rec(b, g, e, y)
    BY <1>1, <2>4, GrowIs DEF e, t, fh
  <2>6. Turned(f, p, halves) = UpdatePanel(b, halves)
    BY <1>4 DEF Turned, b, a
  <2>7. Rec(b, g, e, y) = Rec(f, g, e, y)
    BY <1>3, <2>3 DEF Rec
  <2>8. Own(p, f.y, g) = y
    BY <1>4 DEF Own, y
  <2> QED
    BY <2>5, <2>6, <2>7, <2>8, Zenon DEF e, fh
<1>5. CASE p \in Pinned
  <2> DEFINE u == UpdatePanel(a, halves)
  <2>1. e = f.expanded /\ Taken(p, fh) = fh
    BY <1>5 DEF Extent, Taken
  <2>2. u = Rec(a, g, e, y)
    BY <1>1, <1>3, <1>5, <2>1, GrowIs
  <2>3. Turned(f, p, halves) = Lock(u)
    BY <1>5 DEF Turned, a
  <2> HIDE DEF e, u, g, fh
  <2>4. u \in FrameRec /\ u.height = g /\ u.expanded = e /\ u.y = y /\ u.visible = f.visible
        /\ u.collapsed = f.collapsed
    BY <1>2, <1>3, <2>2, RecOf
  <2>5. u = Rec(f, g, e, y)
    BY <1>3, <2>2 DEF Rec
  <2>6. CASE f.visible
    <3> DEFINE l == GridRows * cell - g
    <3>1. Lock(u) = [u EXCEPT !.y = l]
      BY <2>4, <2>6 DEF Lock
    <3>2. [u EXCEPT !.y = l] = Rec(u, u.height, u.expanded, l)
      BY <2>4, RecPut
    <3>3. Own(p, f.y, g) = l
      BY <1>5, <2>6 DEF Own
    <3> HIDE DEF l
    <3>4. Rec(u, g, e, l) = Rec(f, g, e, l)
      BY <1>3, <2>2 DEF Rec
    <3> QED
      BY <2>3, <2>4, <3>1, <3>2, <3>3, <3>4 DEF e, g, fh
  <2>7. CASE ~f.visible
    <3>1. Lock(u) = u
      BY <2>4, <2>7 DEF Lock
    <3>2. Own(p, f.y, g) = y
      BY <2>7 DEF Own, y
    <3> QED
      BY <2>3, <2>5, <3>1, <3>2 DEF e, g, fh
  <2> QED
    BY <2>6, <2>7
<1> QED
  BY <1>4, <1>5

\* Panels that are apart and at least two rows high are linked one to one, as
\* StackingAssumption has it.
LEMMA LinkedOneToOne ==
    ASSUME NEW g \in Grids, Apart(g), \A p \in Panels : g[p].h >= 2
    PROVE  /\ \A p \in Panels : \A q, r \in Under(g, p) : q = r
           /\ \A p, q \in Panels : Under(g, p) \cap Under(g, q) # {} => p = q
<1>1. \A p \in Panels : /\ g[p].x \in Int /\ g[p].y \in Int /\ g[p].w \in Int /\ g[p].h \in Int
                        /\ g[p].w > 0 /\ g[p].h >= 2
  BY DEF Grids, Rects, Apart, Fits
<1>2. \A p, q \in Panels : p # q => ~Clash(g[p], g[q])
  BY DEF Apart
<1>3. ASSUME NEW p \in Panels, NEW q \in Under(g, p), NEW r \in Under(g, p), q # r
      PROVE  FALSE
  <2>1. /\ q \in Panels /\ r \in Panels /\ g[q].x = g[p].x /\ g[r].x = g[p].x
        /\ g[q].y - (g[p].y + g[p].h) \in {0, 1} /\ g[r].y - (g[p].y + g[p].h) \in {0, 1}
    BY DEF Under
  <2>2. Clash(g[q], g[r])
    BY <1>1, <2>1 DEF Clash
  <2> QED
    BY <1>2, <1>3, <2>1, <2>2
<1>4. ASSUME NEW p \in Panels, NEW q \in Panels, NEW u \in Under(g, p), u \in Under(g, q), p # q
      PROVE  FALSE
  <2>1. /\ u \in Panels /\ g[u].x = g[p].x /\ g[u].x = g[q].x
        /\ g[u].y - (g[p].y + g[p].h) \in {0, 1} /\ g[u].y - (g[q].y + g[q].h) \in {0, 1}
    BY <1>4 DEF Under
  <2>2. Clash(g[p], g[q])
    BY <1>1, <2>1 DEF Clash
  <2> QED
    BY <1>2, <1>4, <2>2
<1> QED
  BY <1>3, <1>4

\* The panel that a panel draws after it.
LEMMA NextIs ==
    ASSUME NEW p \in Panels, NextPanel(p) \in Panels
    PROVE  /\ NextPanel(p) \in Under(Stood, p) /\ NextPanel(p) # p
           /\ frames[p].visible /\ frames[NextPanel(p)].visible /\ p \notin Pinned
<1> DEFINE linked == {q \in Under(Stood, p) : p \notin Pinned /\ frames[p].visible /\ frames[q].visible}
<1>1. NextPanel(p) = IF linked = {} THEN NoPanel ELSE Max(linked)
  BY DEF NextPanel
<1>2. linked # {}
  BY <1>1, NoPanelIsNone
<1>3. linked \in SUBSET (1 .. N) /\ N \in Nat
  BY PanelsAre DEF Under
<1> HIDE DEF linked
<1>4. Max(linked) \in linked
  BY <1>2, <1>3, MaxWithin
<1>5. NextPanel(p) \in linked
  BY <1>1, <1>2, <1>4
<1> QED
  BY <1>5 DEF linked, Under

LEMMA NextFound ==
    ASSUME NEW p \in Panels, p \notin Pinned, NEW q \in Under(Stood, p), frames[p].visible, frames[q].visible
    PROVE  NextPanel(p) = q
<1> DEFINE linked == {r \in Under(Stood, p) : p \notin Pinned /\ frames[p].visible /\ frames[r].visible}
<1>1. linked = {q}
  BY StackingAssumption
<1>2. NextPanel(p) = Max(linked)
  BY <1>1 DEF NextPanel
<1>3. q \in Nat /\ q >= q
  BY PanelsAre DEF Under
<1>4. Max({q}) = q
  BY <1>3, MaxIs
<1> QED
  BY <1>1, <1>2, <1>4

\* A panel that is no root has one above it, which draws it when both are visible.
TopOf(p) == Max(Tops(p))

LEMMA TopIs ==
    ASSUME NEW p \in Panels, ~IsRoot(p)
    PROVE  /\ TopOf(p) \in Panels /\ TopOf(p) # p /\ frames[TopOf(p)].visible
           /\ p \in Under(Stood, TopOf(p)) /\ TopOf(p) \in Tops(p)
           /\ Stood[TopOf(p)].y < Stood[p].y
<1>1. Tops(p) # {} /\ Tops(p) \in SUBSET (1 .. N) /\ N \in Nat
  BY PanelsAre DEF IsRoot, Tops
<1>2. TopOf(p) \in Tops(p)
  BY <1>1, MaxWithin DEF TopOf
<1>3. TopOf(p) \in Panels /\ TopOf(p) # p /\ frames[TopOf(p)].visible /\ p \in Under(Stood, TopOf(p))
  BY <1>2 DEF Tops
<1> DEFINE t == TopOf(p)
<1> HIDE DEF t
<1>4. t \in Panels /\ p \in Under(Stood, t)
  BY <1>3 DEF t
<1>5. Stood[p].y - (Stood[t].y + Stood[t].h) \in {0, 1}
  BY <1>4 DEF Under
<1>6. Stood[p].y \in Int /\ Stood[t].y \in Int /\ Stood[t].h \in Int /\ Stood[t].h > 0
  BY <1>4, StackingAssumption DEF Rects, Fits
<1>7. Stood[t].y < Stood[p].y
  BY <1>5, <1>6
<1> QED
  BY <1>2, <1>3, <1>7 DEF t

LEMMA TopFound ==
    ASSUME NEW p \in Panels, NEW t \in Panels, t # p, p \in Under(Stood, t), frames[t].visible
    PROVE  ~IsRoot(p) /\ TopOf(p) = t
<1>1. t \in Tops(p)
  BY DEF Tops
<1>2. ~IsRoot(p)
  BY <1>1 DEF IsRoot
<1>3. p \in Under(Stood, TopOf(p)) /\ TopOf(p) \in Panels
  BY <1>2, TopIs
<1> QED
  BY <1>2, <1>3, StackingAssumption

\* What one panel's turn does.
Turn(all, p, halves, next) ==
    /\ Stage(next)
    /\ next[p].expanded = Extent(p)
    /\ next[p].height = Grown(p, all[p].height, halves)
    /\ next[p].y = Own(p, all[p].y, next[p].height)
    /\ \A q \in Panels \ {p} : /\ next[q].expanded = all[q].expanded
                               /\ next[q].height = all[q].height
                               /\ next[q].y = IF q = NextPanel(p)
                                              THEN next[p].y + next[p].height + Gap(p) * cell
                                              ELSE all[q].y

LEMMA TurnIs ==
    ASSUME StackShape, NEW all, Stage(all), NEW p \in Panels, NEW halves \in 1 .. 3
    PROVE  Turn(all, p, halves, FrameOne(all, p, halves))
<1> DEFINE next == FrameOne(all, p, halves)
           y == Own(p, all[p].y, Grown(p, all[p].height, halves))
           f == Turned(all[p], p, halves)
           below == f.y + f.height + Gap(p) * cell
<1>1. \A q \in Panels : all[q] \in FrameRec /\ all[q].y \in Int /\ all[q].height \in Int /\ all[q].expanded \in Int
  BY DEF Stage, Frames, FrameRec
<1>2. f = Rec(all[p], Grown(p, all[p].height, halves), Extent(p), y)
  BY <1>1, UpdateIs DEF Stage, BarsFixed
<1>3. y \in Int /\ Extent(p) \in Int /\ Grown(p, all[p].height, halves) \in Int
  <2>1. Grown(p, all[p].height, halves) \in Int
    BY <1>1, StoodIs
  <2> QED
    BY <1>1, <2>1, StoodIs DEF Own
<1> HIDE DEF y
<1>4. /\ f \in FrameRec /\ f.visible = all[p].visible /\ f.collapsed = all[p].collapsed
      /\ f.height = Grown(p, all[p].height, halves) /\ f.expanded = Extent(p) /\ f.y = y
  <2> DEFINE g == Grown(p, all[p].height, halves)
             e == Extent(p)
  <2>1. g \in Int /\ e \in Int /\ all[p] \in FrameRec
    BY <1>1, <1>3
  <2> HIDE DEF g, e
  <2>2. Rec(all[p], g, e, y) \in FrameRec /\ Rec(all[p], g, e, y).visible = all[p].visible
        /\ Rec(all[p], g, e, y).collapsed = all[p].collapsed
        /\ Rec(all[p], g, e, y).height = g /\ Rec(all[p], g, e, y).expanded = e /\ Rec(all[p], g, e, y).y = y
    BY <1>3, <2>1, RecIs
  <2> QED
    BY <1>2, <2>2 DEF g, e
<1>5. next = [q \in Panels |-> CASE q = p -> f
                                 [] q = NextPanel(p) -> [all[q] EXCEPT !.y = below]
                                 [] OTHER -> all[q]]
  BY Zenon DEF FrameOne
<1> HIDE DEF next, f
<1>6. next[p] = f
  <2>1. next[p] = CASE p = p -> f
                    [] p = NextPanel(p) -> [all[p] EXCEPT !.y = below]
                    [] OTHER -> all[p]
    BY <1>5
  <2>2. p # NextPanel(p)
    BY NextIs
  <2> QED
    BY <2>1, <2>2
<1>7. ASSUME NEW q \in Panels \ {p}, q = NextPanel(p)
      PROVE  /\ Gap(p) * cell \in Int
             /\ next[q] = Rec(all[q], all[q].height, all[q].expanded, below)
  <2>1. next[q] = CASE q = p -> f
                    [] q = NextPanel(p) -> [all[q] EXCEPT !.y = below]
                    [] OTHER -> all[q]
    BY <1>5
  <2>2. next[q] = [all[q] EXCEPT !.y = below]
    BY <1>7, <2>1
  <2>3. Gap(p) * cell \in Int
    <3>1. Stood[q].y \in Int /\ Stood[p].y \in Int /\ Stood[p].h \in Int /\ cell \in Int
      BY StoodIs
    <3>2. Gap(p) = Stood[q].y - (Stood[p].y + Stood[p].h)
      BY <1>7 DEF Gap
    <3>3. Gap(p) \in Int
      BY <3>1, <3>2
    <3> QED
      BY <3>1, <3>3
  <2> HIDE DEF below
  <2> QED
    BY <1>1, <2>2, <2>3, RecPut
<1>8. ASSUME NEW q \in Panels \ {p}, q # NextPanel(p)
      PROVE  next[q] = all[q]
  <2>1. next[q] = CASE q = p -> f
                    [] q = NextPanel(p) -> [all[q] EXCEPT !.y = below]
                    [] OTHER -> all[q]
    BY <1>5
  <2> QED
    BY <1>8, <2>1
<1>9. ASSUME NEW q \in Panels \ {p}, q = NextPanel(p)
      PROVE  /\ next[q] \in FrameRec /\ next[q].visible = all[q].visible /\ next[q].collapsed = all[q].collapsed
             /\ next[q].height = all[q].height /\ next[q].expanded = all[q].expanded /\ next[q].y = below
  <2> DEFINE h == all[q].height
             e == all[q].expanded
             g == all[q]
  <2>1. below \in Int /\ h \in Int /\ e \in Int /\ all[q] \in FrameRec
    BY <1>1, <1>3, <1>4, <1>7, <1>9
  <2>2. next[q] = Rec(all[q], h, e, below)
    BY <1>7, <1>9
  <2>4. next[q] = Rec(g, h, e, below)
    BY <2>2
  <2>5. g \in FrameRec
    BY <2>1
  <2> DEFINE r == next[q]
  <2>6. r = Rec(g, h, e, below)
    BY <2>4
  <2> HIDE DEF h, e, below, g, r
  <2>3. r \in FrameRec /\ r.visible = g.visible /\ r.collapsed = g.collapsed
        /\ r.height = h /\ r.expanded = e /\ r.y = below
    BY ONLY <2>1, <2>5, <2>6, RecOf
  <2> QED
    BY <2>3 DEF h, e, g, r
<1>10. ASSUME NEW q \in Panels
       PROVE  next[q] \in FrameRec /\ next[q].visible = all[q].visible /\ next[q].collapsed = all[q].collapsed
  BY <1>1, <1>4, <1>6, <1>8, <1>9
<1>11. next \in Frames
  <2>1. next = [q \in Panels |-> next[q]]
    BY <1>5
  <2> QED
    BY <1>10, <2>1 DEF Frames
<1>12. Stage(next)
  <2>1. ASSUME NEW q \in Pinned PROVE next[q].expanded = BarHeight
    <3>1. q \in Panels /\ all[q].expanded = BarHeight
      BY StackingAssumption DEF Stage, BarsFixed
    <3>2. CASE q = p
      BY <1>4, <1>6, <3>2 DEF Extent
    <3>3. CASE q # p
      BY <1>8, <1>9, <3>1, <3>3
    <3> QED
      BY <3>2, <3>3
  <2> QED
    BY <1>10, <1>11, <2>1 DEF Stage, BarsFixed
<1>13. \A q \in Panels \ {p} : /\ next[q].expanded = all[q].expanded
                               /\ next[q].height = all[q].height
                               /\ next[q].y = IF q = NextPanel(p)
                                              THEN next[p].y + next[p].height + Gap(p) * cell
                                              ELSE all[q].y
  BY <1>6, <1>8, <1>9
<1> QED
  BY <1>4, <1>6, <1>12, <1>13 DEF next, y, Turn

\* A frame gives every panel its turn.
LEMMA FrameRuns ==
    ASSUME StackShape, NEW halves \in 1 .. 3, Frame(halves)
    PROVE  \E at : /\ at[0] = frames /\ at[N] = frames'
                   /\ \A k \in 0 .. N : Stage(at[k])
                   /\ \A k \in 1 .. N : at[k] = FrameOne(at[k - 1], k, halves)
<1> DEFINE G == {all \in Frames : Stage(all)}
           rhs(it) == [s \in SUBSET Panels |->
                          IF s = {} THEN frames
                          ELSE FrameOne(it[s \ {Max(s)}], [p \in Panels |-> p][Max(s)], halves)]
           F == [gp \in G \X (1 .. N) |-> FrameOne(gp[1], gp[2], halves)]
           it == CHOOSE f : f = rhs(f)
<1>1. frames' = it[Panels]
  BY FrameFolds, Zenon
<1>0. frames \in G
  BY DEF Stage, StackShape
<1>2. ASSUME NEW g \in G, NEW p \in 1 .. N
      PROVE  FrameOne(g, p, halves) \in G /\ F[<<g, p>>] = FrameOne(g, p, halves)
  <2>1. Stage(FrameOne(g, p, halves))
    BY TurnIs, PanelsAre DEF Turn
  <2> QED
    BY <2>1 DEF Stage
<1>3. F \in [G \X (1 .. N) -> G]
  BY <1>2
<1> HIDE DEF F
<1>4. PICK f \in [SUBSET (1 .. N) -> G] : IsFold(F, frames, N, f)
  <2> HIDE DEF G
  <2> QED
    BY <1>0, <1>3, PanelsAre, FoldExists
<1>5. f = rhs(f)
  <2>1. ASSUME NEW s \in SUBSET Panels
        PROVE  f[s] = IF s = {} THEN frames
                      ELSE FrameOne(f[s \ {Max(s)}], [p \in Panels |-> p][Max(s)], halves)
    <3>1. s \in SUBSET (1 .. N)
      BY PanelsAre
    <3>2. f[s] = IF s = {} THEN frames ELSE F[<<f[s \ {Max(s)}], Max(s)>>]
      BY <1>4, <3>1 DEF IsFold
    <3>3. CASE s # {}
      <4>1. Max(s) \in s
        BY <3>1, <3>3, PanelsAre, MaxWithin
      <4>2. Max(s) \in 1 .. N /\ Max(s) \in Panels
        BY <3>1, <4>1
      <4>3. s \ {Max(s)} \in SUBSET (1 .. N)
        BY <3>1
      <4>4. f[s \ {Max(s)}] \in G
        <5> HIDE DEF G
        <5> QED
          BY <1>4, <4>3
      <4>5. F[<<f[s \ {Max(s)}], Max(s)>>] = FrameOne(f[s \ {Max(s)}], Max(s), halves)
        <5> HIDE DEF G
        <5> QED
          BY <1>2, <4>2, <4>4
      <4>6. [p \in Panels |-> p][Max(s)] = Max(s)
        BY <4>2, Zenon
      <4> QED
        BY <3>2, <3>3, <4>5, <4>6, Zenon
    <3> QED
      BY <3>2, <3>3, Zenon
  <2>2. DOMAIN f = SUBSET Panels
    BY <1>4, PanelsAre
  <2>3. f = [s \in SUBSET Panels |-> f[s]]
    BY <1>4, <2>2
  <2> QED
    BY <2>1, <2>3, Zenon
<1>6. it = rhs(it)
  BY <1>5, Zenon
<1> HIDE DEF it
<1>7. ASSUME NEW s \in SUBSET Panels
      PROVE  it[s] = IF s = {} THEN frames
                     ELSE FrameOne(it[s \ {Max(s)}], [p \in Panels |-> p][Max(s)], halves)
  BY <1>6, Zenon
<1>8. it[{}] = frames
  <2>1. {} \in SUBSET Panels
    OBVIOUS
  <2> QED
    BY <1>7, <2>1, Zenon
<1>9. ASSUME NEW k \in 1 .. N PROVE it[1 .. k] = FrameOne(it[1 .. k - 1], k, halves)
  <2>1. k \in Nat /\ k > 0 /\ 1 .. k \in SUBSET Panels /\ k \in Panels
    BY PanelsAre
  <2>2. Max(1 .. k) = k /\ (1 .. k) \ {k} = 1 .. k - 1 /\ 1 .. k # {}
    BY <2>1, PrefixMax
  <2>3. [p \in Panels |-> p][k] = k
    BY <2>1, Zenon
  <2> QED
    BY <1>7, <2>1, <2>2, <2>3, Zenon
<1>10. Passes(F, N, G, it)
  <2> HIDE DEF G
  <2>1. \A k \in 1 .. N : it[1 .. k - 1] \in G => it[1 .. k] = F[<<it[1 .. k - 1], k>>]
    BY <1>2, <1>9
  <2>2. Steps(F, frames, N, G, it)
    BY <1>8, <2>1 DEF Steps
  <2>3. N \in Nat
    BY PanelsAre
  <2> QED
    BY ONLY <1>0, <1>3, <2>2, <2>3, FoldRuns
<1> DEFINE at == [k \in 0 .. N |-> it[1 .. k]]
<1>11. at[0] = frames
  <2>1. 1 .. 0 = {} /\ 0 \in 0 .. N
    BY PanelsAre
  <2> QED
    BY <1>8, <2>1
<1>12. at[N] = frames'
  BY <1>1, PanelsAre
<1>13. \A k \in 0 .. N : Stage(at[k])
  BY <1>10 DEF Passes
<1>14. ASSUME NEW k \in 1 .. N PROVE at[k] = FrameOne(at[k - 1], k, halves)
  <2>1. k - 1 \in 0 .. N /\ k \in 0 .. N
    BY PanelsAre
  <2>2. at[k] = it[1 .. k] /\ at[k - 1] = it[1 .. k - 1]
    BY <2>1
  <2> QED
    BY <1>9, <2>2
<1> HIDE DEF at
<1> QED
  BY <1>11, <1>12, <1>13, <1>14

\* What holds before the first turn and is kept by every turn holds at the end.
Turns(at, halves) ==
    /\ at[0] = frames /\ at[N] = frames'
    /\ \A k \in 0 .. N : Stage(at[k])
    /\ \A k \in 1 .. N : at[k] = FrameOne(at[k - 1], k, halves)

\* World control, drawn along by no panel whose turn comes after its own.
Alone(p) == p \in Pinned /\ frames[p].visible /\ \A t \in Tops(p) : t < p

\* The sizes: a panel has its new ones from its turn on, and World control, alone, its place.
SizesAt(all, k, halves) ==
    \A q \in Panels : /\ all[q].expanded = IF q <= k THEN Extent(q) ELSE frames[q].expanded
                      /\ all[q].height = IF q <= k THEN Grown(q, frames[q].height, halves)
                                                   ELSE frames[q].height
                      /\ q <= k /\ Alone(q) => all[q].y = GridRows * cell - all[q].height

\* After k turns the first k panels have the sizes of this frame.
LEMMA TurnSizes ==
    ASSUME StackShape, NEW halves \in 1 .. 3, NEW k \in 1 .. N, NEW all, Stage(all),
           SizesAt(all, k - 1, halves)
    PROVE  SizesAt(FrameOne(all, k, halves), k, halves)
<1> DEFINE next == FrameOne(all, k, halves)
<1>0. k \in Panels /\ k \in Nat /\ \A q \in Panels : q \in Nat
  BY PanelsAre
<1>1. all[k].height = frames[k].height
  BY <1>0 DEF SizesAt
<1>2. /\ next[k].expanded = Extent(k)
      /\ next[k].height = Grown(k, frames[k].height, halves)
      /\ next[k].y = Own(k, all[k].y, next[k].height)
  <2>1. Turn(all, k, halves, next)
    BY <1>0, TurnIs
  <2> HIDE DEF next
  <2> QED
    BY <1>1, <2>1 DEF Turn
<1>3. ASSUME NEW q \in Panels \ {k}
      PROVE  /\ next[q].expanded = all[q].expanded /\ next[q].height = all[q].height
             /\ q # NextPanel(k) => next[q].y = all[q].y
  <2>1. Turn(all, k, halves, next)
    BY <1>0, TurnIs
  <2> HIDE DEF next
  <2> QED
    BY <2>1 DEF Turn
<1> HIDE DEF next
<1>4. ASSUME NEW q \in Panels
      PROVE  /\ next[q].expanded = IF q <= k THEN Extent(q) ELSE frames[q].expanded
             /\ next[q].height = IF q <= k THEN Grown(q, frames[q].height, halves)
                                           ELSE frames[q].height
             /\ q <= k /\ Alone(q) => next[q].y = GridRows * cell - next[q].height
  <2>1. CASE q = k
    BY <1>0, <1>2, <2>1 DEF Own, Alone
  <2>2. CASE q # k
    <3>1. q <= k <=> q <= k - 1
      BY ONLY <1>0, <2>2, q \in Panels
    <3>2. ASSUME q <= k, Alone(q) PROVE q # NextPanel(k)
      <4>1. SUFFICES ASSUME q = NextPanel(k) PROVE FALSE
        OBVIOUS
      <4>2. k \in Tops(q)
        BY <1>0, <2>2, <4>1, NextIs DEF Tops
      <4>3. k < q /\ q \in Nat
        BY <1>0, <3>2, <4>2 DEF Alone
      <4> QED
        BY ONLY <1>0, <3>2, <4>3
    <3>3. /\ next[q].expanded = all[q].expanded /\ next[q].height = all[q].height
          /\ q <= k /\ Alone(q) => next[q].y = all[q].y
      <4>1. q \in Panels \ {k}
        BY <2>2
      <4>2. /\ next[q].expanded = all[q].expanded /\ next[q].height = all[q].height
            /\ q # NextPanel(k) => next[q].y = all[q].y
        BY <1>3, <4>1
      <4> QED
        BY <3>2, <4>2, Zenon
    <3>4. /\ all[q].expanded = IF q <= k - 1 THEN Extent(q) ELSE frames[q].expanded
          /\ all[q].height = IF q <= k - 1 THEN Grown(q, frames[q].height, halves) ELSE frames[q].height
          /\ q <= k - 1 /\ Alone(q) => all[q].y = GridRows * cell - all[q].height
      BY DEF SizesAt
    <3>5. CASE q <= k
      <4>1. q <= k - 1
        BY <3>1, <3>5, Zenon
      <4> QED
        BY <3>2, <3>3, <3>4, <3>5, <4>1, Zenon
    <3>6. CASE ~(q <= k)
      <4>1. ~(q <= k - 1)
        BY <3>1, <3>6, Zenon
      <4> QED
        BY <3>3, <3>4, <3>6, <4>1, Zenon
    <3> QED
      BY <3>5, <3>6
  <2> QED
    BY <2>1, <2>2
<1> QED
  BY <1>4 DEF SizesAt, next

LEMMA FrameSizes ==
    ASSUME StackShape, NEW halves \in 1 .. 3, NEW at, Turns(at, halves)
    PROVE  \A k \in 0 .. N : SizesAt(at[k], k, halves)
<1> DEFINE Bad == {k \in 0 .. N : ~SizesAt(at[k], k, halves)}
<1>1. SUFFICES ASSUME Bad # {} PROVE FALSE
  OBVIOUS
<1>2. Bad \subseteq Nat
  OBVIOUS
<1>3. PICK k \in Bad : \A j \in Bad : k <= j
  <2> HIDE DEF Bad
  <2> QED
    BY <1>1, <1>2, LeastOf
<1>4. k \in 0 .. N /\ ~SizesAt(at[k], k, halves)
  OBVIOUS
<1>5. k # 0
  <2>1. \A q \in Panels : ~(q <= 0)
    BY PanelsAre
  <2>2. SizesAt(frames, 0, halves)
    BY <2>1 DEF SizesAt
  <2> QED
    BY <1>4, <2>2 DEF Turns
<1>6. N \in Nat
  BY PanelsAre
<1>7. k - 1 \in 0 .. N /\ k \in 1 .. N /\ ~(k <= k - 1)
  <2>1. k \in 0 .. N
    BY <1>4
  <2> QED
    BY ONLY <1>5, <1>6, <2>1
<1>8. SizesAt(at[k - 1], k - 1, halves)
  BY <1>3, <1>7
<1>9. Stage(at[k - 1]) /\ at[k] = FrameOne(at[k - 1], k, halves)
  BY <1>7 DEF Turns
<1> QED
  BY <1>4, <1>7, <1>8, <1>9, TurnSizes

\* After a frame: what was visible or folded is, and the sizes are those of the grid.
LEMMA FrameLeaves ==
    ASSUME StackShape, NEW halves \in 1 .. 3, Frame(halves)
    PROVE  /\ frames' \in Frames
           /\ \A q \in Panels : /\ frames'[q].visible = frames[q].visible
                                /\ frames'[q].collapsed = frames[q].collapsed
                                /\ frames'[q].expanded = Extent(q)
                                /\ frames'[q].height = Grown(q, frames[q].height, halves)
                                /\ Alone(q) => frames'[q].y = GridRows * cell - frames'[q].height
           /\ BarsFixed(frames')
<1>1. PICK at : Turns(at, halves)
  BY FrameRuns DEF Turns
<1>2. N \in 0 .. N /\ \A q \in Panels : q <= N
  BY PanelsAre
<1>3. Stage(frames') /\ SizesAt(frames', N, halves)
  BY <1>1, <1>2, FrameSizes DEF Turns
<1> QED
  BY <1>2, <1>3 DEF Stage, SizesAt

-----------------------------------------------------------------------------
(* Where panels come to stand.  A panel with few panels standing higher on *)
(* the grid has few above it in its stack: as many frames bring it to its  *)
(* place.                                                                  *)

Higher(p) == {q \in Panels : Stood[q].y < Stood[p].y}
Rank(p) == Cardinality(Higher(p))

\* What stands higher on the grid has fewer above it.
LEMMA RankIs ==
    ASSUME NEW p \in Panels
    PROVE  /\ Rank(p) \in Nat /\ Rank(p) <= Links /\ Links \in Nat /\ Links >= 1
           /\ \A t \in Panels : Stood[t].y < Stood[p].y => Rank(t) \in Nat /\ Rank(t) < Rank(p)
<1>0. IsFiniteSet(Panels) /\ Cardinality(Panels) = N /\ N \in Nat /\ N >= 2
  BY PanelsAre, StackingAssumption DEF N
<1>1. \A q \in Panels : Stood[q].y \in Int
  BY StackingAssumption DEF Rects
<1>2. ASSUME NEW q \in Panels
      PROVE  IsFiniteSet(Higher(q)) /\ Rank(q) \in Nat
  <2>1. Higher(q) \subseteq Panels
    BY DEF Higher
  <2>2. IsFiniteSet(Higher(q))
    BY <1>0, <2>1, FS_Subset
  <2> QED
    BY <2>2, FS_CardinalityType DEF Rank
<1>3. Rank(p) <= Links
  <2>1. Higher(p) \subseteq Panels \ {p}
    BY <1>1 DEF Higher
  <2>2. IsFiniteSet(Panels \ {p}) /\ Cardinality(Panels \ {p}) = N - 1
    BY <1>0, FS_RemoveElement
  <2>3. Rank(p) <= N - 1
    BY <2>1, <2>2, FS_Subset DEF Rank
  <2> QED
    BY <1>0, <2>3 DEF Links
<1>4. ASSUME NEW t \in Panels, Stood[t].y < Stood[p].y
      PROVE  Rank(t) < Rank(p)
  <2>1. Higher(t) \cup {t} \subseteq Higher(p) /\ t \notin Higher(t)
    BY <1>1, <1>4 DEF Higher
  <2>2. IsFiniteSet(Higher(t) \cup {t}) /\ Cardinality(Higher(t) \cup {t}) = Rank(t) + 1
    BY <1>2, <2>1, FS_AddElement DEF Rank
  <2>3. Cardinality(Higher(t) \cup {t}) <= Rank(p)
    BY <1>2, <2>1, FS_Subset DEF Rank
  <2> QED
    BY <1>2, <2>2, <2>3
<1>5. Links \in Nat /\ Links >= 1
  BY <1>0 DEF Links
<1> QED
  BY <1>2, <1>3, <1>4, <1>5

\* How far each panel is drawn up by the folded ones above it.
DrawnRow(d, p) ==
    IF IsRoot(p) THEN 0 ELSE d[TopOf(p)] + Extent(TopOf(p)) - Goal(TopOf(p))

DrawnUp(d) == d \in [Panels -> Int] /\ \A p \in Panels : d[p] = DrawnRow(d, p)

LEMMA DrawnRowType ==
    ASSUME StackShape, NEW d \in [Panels -> Int], NEW p \in Panels
    PROVE  DrawnRow(d, p) \in Int
<1>1. CASE IsRoot(p)
  BY <1>1 DEF DrawnRow
<1>2. CASE ~IsRoot(p)
  <2> DEFINE t == TopOf(p)
  <2>1. t \in Panels
    BY <1>2, TopIs
  <2>2. Extent(t) \in Int /\ Goal(t) \in Int /\ d[t] \in Int
    BY <2>1, StoodIs
  <2>3. DrawnRow(d, p) = d[t] + Extent(t) - Goal(t)
    BY <1>2 DEF DrawnRow
  <2> HIDE DEF t
  <2> QED
    BY <2>2, <2>3
<1> QED
  BY <1>1, <1>2

\* Row by row of the grid: the panels above are known first.
LEMMA DrawnUpExists ==
    ASSUME StackShape
    PROVE  \E d : DrawnUp(d)
<1> DEFINE Good(m) == \E d \in [Panels -> Int] : \A p \in Panels : Stood[p].y < m => d[p] = DrawnRow(d, p)
           Bad == {m \in 0 .. GridRows : ~Good(m)}
<1>1. GridRows \in Nat /\ GridRows \in 0 .. GridRows
  BY LayoutAssumption
<1>2. \A p \in Panels : Stood[p].y \in Int /\ Stood[p].y >= 0 /\ Stood[p].y < GridRows
  <2> SUFFICES ASSUME NEW p \in Panels
               PROVE  Stood[p].y \in Int /\ Stood[p].y >= 0 /\ Stood[p].y < GridRows
    OBVIOUS
  <2>1. Stood[p] \in Rects /\ Fits(Stood[p])
    BY StackingAssumption
  <2>2. Stood[p].y \in Int /\ Stood[p].h \in Int /\ Stood[p].y >= 0 /\ Stood[p].h > 0
        /\ Stood[p].y + Stood[p].h <= GridRows
    BY <2>1 DEF Rects, Fits
  <2> QED
    BY ONLY <1>1, <2>2
<1>3. Good(GridRows)
  <2>1. SUFFICES ASSUME Bad # {} PROVE FALSE
    <3> HIDE DEF Good
    <3>1. Bad = {} => Good(GridRows)
      BY <1>1
    <3> QED
      BY <3>1
  <2>2. Bad \subseteq Nat
    OBVIOUS
  <2>3. PICK m \in Bad : \A j \in Bad : m <= j
    <3> HIDE DEF Bad
    <3> QED
      BY <2>1, <2>2, LeastOf
  <2>4. m \in 0 .. GridRows /\ ~Good(m)
    OBVIOUS
  <2>5. m # 0
    <3>1. [p \in Panels |-> 0] \in [Panels -> Int]
      OBVIOUS
    <3>2. \A p \in Panels : ~(Stood[p].y < 0)
      BY <1>2
    <3>3. Good(0)
      BY <3>1, <3>2
    <3> HIDE DEF Good
    <3> QED
      BY <2>4, <3>3
  <2> DEFINE j == m - 1
  <2>6. j \in 0 .. GridRows /\ m \in Nat /\ ~(m <= j)
    <3>1. m \in 0 .. GridRows
      BY <2>4
    <3> QED
      BY ONLY <1>1, <2>5, <3>1
  <2>7. Good(j)
    <3> HIDE DEF Good, j
    <3> QED
      BY <2>3, <2>6
  <2> HIDE DEF Bad
  <2>8. PICK d \in [Panels -> Int] : \A p \in Panels : Stood[p].y < j => d[p] = DrawnRow(d, p)
    BY <2>7
  <2> DEFINE e == [p \in Panels |-> IF Stood[p].y < j THEN d[p] ELSE DrawnRow(d, p)]
  <2>9. e \in [Panels -> Int]
    BY DrawnRowType
  <2>10. ASSUME NEW p \in Panels, Stood[p].y < m
         PROVE  e[p] = DrawnRow(e, p)
    <3>1. e[p] = DrawnRow(d, p)
      BY <2>8
    <3>2. CASE IsRoot(p)
      BY <3>1, <3>2 DEF DrawnRow
    <3>3. CASE ~IsRoot(p)
      <4> DEFINE t == TopOf(p)
      <4>1. t \in Panels /\ Stood[t].y < Stood[p].y
        BY <3>3, TopIs
      <4>2. Stood[t].y < j
        <5>1. Stood[t].y \in Int /\ Stood[p].y \in Int /\ m \in Nat
          BY <1>2, <2>6, <4>1
        <5> QED
          BY <2>10, <4>1, <5>1
      <4>3. e[t] = d[t]
        BY <4>1, <4>2
      <4> HIDE DEF e
      <4> QED
        BY <3>1, <3>3, <4>3 DEF DrawnRow
    <3> QED
      BY <3>2, <3>3
  <2> HIDE DEF e
  <2>11. Good(m)
    BY <2>9, <2>10
  <2> HIDE DEF Good
  <2> QED
    BY <2>4, <2>11
<1> QED
  BY <1>2, <1>3 DEF DrawnUp

InPlace(all, d, p) == all[p].y = Stood[p].y * cell - d[p]

\* Whose turn gives a panel its place.
Placer(p) == IF IsRoot(p) THEN p ELSE TopOf(p)

\* In place after k turns: those that were, and those one link further that had their turn.
PlacesAt(all, d, k) ==
    \A p \in Panels : frames[p].visible /\ Stacked(p) =>
        /\ calm > 0 /\ Rank(p) <= calm => InPlace(all, d, p)
        /\ Rank(p) <= calm + 1 /\ Placer(p) <= k => InPlace(all, d, p)

\* The sum by which a panel is put under its top, rearranged.
LEMMA PlacedBelow ==
    ASSUME NEW s \in Int, NEW q \in Int, NEW h \in Int, NEW c \in Int, NEW d \in Int, NEW g \in Int
    PROVE  (s * c - d) + g + (q - (s + h)) * c = q * c - (d + h * c - g)
<1>1. (q - (s + h)) * c = q * c - s * c - h * c
  OBVIOUS
<1>2. q * c \in Int /\ s * c \in Int /\ h * c \in Int
  OBVIOUS
<1> DEFINE qc == q * c
           sc == s * c
           hc == h * c
           m == (q - (s + h)) * c
<1>3. m = qc - sc - hc /\ qc \in Int /\ sc \in Int /\ hc \in Int
  BY <1>1, <1>2
<1> HIDE DEF qc, sc, hc, m
<1>4. (sc - d) + g + m = qc - (d + hc - g)
  BY <1>3
<1> QED
  BY <1>4 DEF qc, sc, hc, m

\* What is above a panel of a stack is one too.
LEMMA StackedAbove ==
    ASSUME NEW p \in Panels, NEW t \in Panels, p \in Under(Stood, t), Stood[t].y < Stood[p].y, Stacked(p)
    PROVE  Stacked(t)
<1>1. Stood[p].x = Stood[t].x /\ Stood[p].y \in Int /\ Stood[t].y \in Int
  BY StackingAssumption DEF Under, Rects
<1>2. \A w \in Pinned : w \in Panels /\ Stood[w].y \in Int
  BY StackingAssumption DEF Rects
<1> QED
  BY <1>1, <1>2 DEF Stacked

LEMMA JustBefore ==
    ASSUME NEW a \in Nat, NEW k \in Nat, a <= k, a # k
    PROVE  a <= k - 1
  OBVIOUS

\* The turn of a panel in place puts the one under it in place, before or after its own.
LEMMA TurnPlaces ==
    ASSUME StackShape, NEW halves, NEW k \in 1 .. N, NEW all, NEW next,
           Turn(all, k, halves, next), NEW d, DrawnUp(d),
           frames[k].visible => next[k].height = Goal(k),
           PlacesAt(all, d, k - 1)
    PROVE  PlacesAt(next, d, k)
<1>0. k \in Panels /\ k \in Nat /\ (\A q \in Panels : q \in Nat) /\ calm \in Nat
      /\ d \in [Panels -> Int] /\ \A p \in Panels : d[p] = DrawnRow(d, p)
  <2>1. Links \in Nat
    BY PanelsAre, RankIs
  <2> QED
    BY <2>1, PanelsAre DEF StackShape, DrawnUp
<1>1. /\ Stacked(k) => next[k].y = IF IsRoot(k) THEN Stood[k].y * cell ELSE all[k].y
      /\ \A q \in Panels \ {k} : next[q].y = IF q = NextPanel(k)
                                             THEN next[k].y + next[k].height + Gap(k) * cell
                                             ELSE all[q].y
  BY DEF Turn, Own, Stacked
\* The panel itself, root or placed before.
<1>2. ASSUME IsRoot(k), Stacked(k) PROVE InPlace(next, d, k)
  <2>1. d[k] = 0
    BY <1>0, <1>2 DEF DrawnRow
  <2>2. Stood[k].y * cell \in Int
    BY <1>0, StoodIs
  <2> QED
    BY <1>1, <1>2, <2>1, <2>2 DEF InPlace
<1>3. ASSUME frames[k].visible, Stacked(k), Rank(k) <= calm
      PROVE  InPlace(next, d, k)
  <2>1. CASE IsRoot(k)
    BY <1>2, <1>3, <2>1
  <2>2. CASE ~IsRoot(k)
    <3>1. TopOf(k) \in Panels /\ Stood[TopOf(k)].y < Stood[k].y
      BY <1>0, <2>2, TopIs
    <3>2. Rank(TopOf(k)) \in Nat /\ Rank(TopOf(k)) < Rank(k) /\ Rank(k) \in Nat
      BY <1>0, <3>1, RankIs
    <3>3. calm > 0
      BY <1>0, <1>3, <3>2
    <3>4. InPlace(all, d, k)
      BY <1>0, <1>3, <3>3 DEF PlacesAt
    <3> QED
      BY <1>1, <1>3, <2>2, <3>4 DEF InPlace
  <2> QED
    BY <2>1, <2>2
\* The panel linked under it.
<1>4. ASSUME NEW p \in Panels, p # k, p = NextPanel(k), Stacked(p), Rank(p) <= calm + 1
      PROVE  InPlace(next, d, p)
  <2>1. p \in Under(Stood, k) /\ frames[k].visible /\ k \notin Pinned
    BY <1>0, <1>4, NextIs
  <2>2. ~IsRoot(p) /\ TopOf(p) = k
    BY <1>0, <1>4, <2>1, TopFound
  <2>3. Stood[k].y < Stood[p].y
    BY <2>2, TopIs
  <2>4. Rank(k) <= calm
    <3>1. Rank(k) \in Nat /\ Rank(k) < Rank(p) /\ Rank(p) \in Nat
      BY <1>0, <2>3, RankIs
    <3> QED
      BY <1>0, <1>4, <3>1
  <2>5. InPlace(next, d, k) /\ next[k].height = Goal(k)
    <3>1. Stacked(k)
      BY <1>0, <1>4, <2>1, <2>3, StackedAbove
    <3> QED
      BY <1>3, <2>1, <2>4, <3>1
  <2>6. next[p].y = next[k].y + next[k].height + Gap(k) * cell
    BY <1>1, <1>4
  <2>7. Gap(k) = Stood[p].y - (Stood[k].y + Stood[k].h)
    BY <1>4 DEF Gap
  <2>8. d[p] = d[k] + Stood[k].h * cell - Goal(k)
    BY <1>0, <2>1, <2>2 DEF DrawnRow, Extent
  <2>9. Stood[p].y \in Int /\ Stood[k].y \in Int /\ Stood[k].h \in Int /\ cell \in Int /\ d[k] \in Int /\ Goal(k) \in Int
    BY <1>0, StoodIs
  <2>10. (Stood[k].y * cell - d[k]) + Goal(k) + (Stood[p].y - (Stood[k].y + Stood[k].h)) * cell
            = Stood[p].y * cell - (d[k] + Stood[k].h * cell - Goal(k))
    BY <2>9, PlacedBelow
  <2>11. next[p].y = (Stood[k].y * cell - d[k]) + Goal(k) + (Stood[p].y - (Stood[k].y + Stood[k].h)) * cell
    BY <2>5, <2>6, <2>7 DEF InPlace
  <2> QED
    BY <2>8, <2>10, <2>11, Zenon DEF InPlace
<1>5. ASSUME NEW p \in Panels, frames[p].visible, Stacked(p), calm > 0, Rank(p) <= calm
      PROVE  InPlace(next, d, p)
  <2>1. CASE p = k
    BY <1>3, <1>5, <2>1
  <2>2. CASE p # k /\ p = NextPanel(k)
    <3>1. Rank(p) <= calm + 1
      BY <1>0, <1>5, RankIs
    <3> QED
      BY <1>4, <1>5, <2>2, <3>1
  <2>3. CASE p # k /\ p # NextPanel(k)
    BY <1>1, <1>5, <2>3 DEF PlacesAt, InPlace
  <2> QED
    BY <2>1, <2>2, <2>3
<1>6. ASSUME NEW p \in Panels, frames[p].visible, Stacked(p), Rank(p) <= calm + 1, Placer(p) <= k
      PROVE  InPlace(next, d, p)
  <2>1. CASE p = k /\ IsRoot(k)
    BY <1>2, <1>6, <2>1
  <2>2. CASE p # k /\ p = NextPanel(k)
    BY <1>4, <1>6, <2>2
  <2>3. CASE p = k /\ ~IsRoot(k)
    <3>1. Placer(p) \in Panels /\ Placer(p) # k
      BY <1>0, <2>3, TopIs DEF Placer
    <3>2. Placer(p) <= k - 1
      <4>1. Placer(p) \in Nat
        BY <1>0, <3>1
      <4> QED
        BY <1>0, <1>6, <3>1, <4>1, JustBefore
    <3>3. InPlace(all, d, p)
      BY <1>6, <3>2 DEF PlacesAt
    <3> QED
      BY <1>1, <1>6, <2>3, <3>3 DEF InPlace
  <2>4. CASE p # k /\ p # NextPanel(k)
    <3>1. Placer(p) # k /\ Placer(p) \in Panels
      <4>1. CASE IsRoot(p)
        BY <2>4, <4>1 DEF Placer
      <4>2. CASE ~IsRoot(p)
        <5>1. TopOf(p) \in Panels /\ p \in Under(Stood, TopOf(p)) /\ frames[TopOf(p)].visible
          BY <4>2, TopIs
        <5>3. TopOf(p) \notin Pinned
          BY <1>6, <4>2, <5>1, TopIs, StackedAbove DEF Stacked
        <5>2. NextPanel(TopOf(p)) = p
          BY <1>6, <5>1, <5>3, NextFound
        <5> QED
          BY <2>4, <4>2, <5>1, <5>2 DEF Placer
      <4> QED
        BY <4>1, <4>2
    <3>2. Placer(p) <= k - 1
      <4>1. Placer(p) \in Nat
        BY <1>0, <3>1
      <4> QED
        BY <1>0, <1>6, <3>1, <4>1, JustBefore
    <3>3. InPlace(all, d, p)
      BY <1>6, <3>2 DEF PlacesAt
    <3> QED
      BY <1>1, <2>4, <3>3 DEF InPlace
  <2> QED
    BY <2>1, <2>2, <2>3, <2>4
<1> QED
  BY <1>5, <1>6 DEF PlacesAt

\* A frame in which no height changes brings the panels one link further into place.
LEMMA FramePlaces ==
    ASSUME StackShape, NEW halves \in 1 .. 3, Frame(halves), NEW d, DrawnUp(d),
           \A p \in Panels : frames[p].visible => frames'[p].height = Goal(p),
           \A p \in Panels : frames[p].visible /\ Stacked(p) /\ calm > 0 /\ Rank(p) <= calm => InPlace(frames, d, p)
    PROVE  \A p \in Panels : frames[p].visible /\ Stacked(p) /\ Rank(p) <= calm + 1 => InPlace(frames', d, p)
<1>1. PICK at : Turns(at, halves)
  BY FrameRuns DEF Turns
<1>2. N \in Nat /\ N \in 0 .. N /\ (\A q \in Panels : q \in Nat /\ q <= N /\ ~(q <= 0)) /\ Panels = 1 .. N
  BY PanelsAre
<1>3. \A k \in 0 .. N : SizesAt(at[k], k, halves)
  BY <1>1, FrameSizes
<1>4. ASSUME NEW k \in 1 .. N
      PROVE  /\ Turn(at[k - 1], k, halves, at[k])
             /\ frames[k].visible => at[k][k].height = Goal(k)
  <2>1. Turn(at[k - 1], k, halves, FrameOne(at[k - 1], k, halves))
    <3>1. k - 1 \in 0 .. N /\ k \in Panels
      BY <1>2
    <3>2. Stage(at[k - 1])
      BY <1>1, <3>1 DEF Turns
    <3> QED
      BY <3>1, <3>2, TurnIs
  <2>2. at[k] = FrameOne(at[k - 1], k, halves)
    BY <1>1 DEF Turns
  <2>3. at[k][k].height = Grown(k, frames[k].height, halves)
    <3>1. k \in 0 .. N /\ k \in Panels /\ k <= k
      BY <1>2
    <3> QED
      BY <1>3, <3>1 DEF SizesAt
  <2>4. frames'[k].height = Grown(k, frames[k].height, halves)
    <3>1. k \in Panels /\ k <= N
      BY <1>2
    <3>2. SizesAt(frames', N, halves)
      BY <1>1, <1>2, <1>3 DEF Turns
    <3> QED
      BY <3>1, <3>2 DEF SizesAt
  <2> QED
    BY <1>2, <2>1, <2>2, <2>3, <2>4
<1> DEFINE Bad == {k \in 0 .. N : ~PlacesAt(at[k], d, k)}
<1>5. Bad = {}
  <2>1. SUFFICES ASSUME Bad # {} PROVE FALSE
    OBVIOUS
  <2>2. Bad \subseteq Nat
    OBVIOUS
  <2>3. PICK k \in Bad : \A j \in Bad : k <= j
    <3> HIDE DEF Bad
    <3> QED
      BY <2>1, <2>2, LeastOf
  <2>4. k \in 0 .. N /\ ~PlacesAt(at[k], d, k)
    OBVIOUS
  <2>5. k # 0
    <3>1. \A p \in Panels : ~(Placer(p) <= 0)
      BY <1>2, TopIs DEF Placer
    <3>2. PlacesAt(frames, d, 0)
      BY <3>1 DEF PlacesAt
    <3> QED
      BY <1>1, <2>4, <3>2 DEF Turns
  <2>6. k - 1 \in 0 .. N /\ k \in 1 .. N /\ ~(k <= k - 1)
    <3>1. k \in 0 .. N
      BY <2>4
    <3> QED
      BY ONLY <1>2, <2>5, <3>1
  <2>7. PlacesAt(at[k - 1], d, k - 1)
    BY <2>3, <2>6
  <2> HIDE DEF Bad
  <2>8. PlacesAt(at[k], d, k)
    BY <1>4, <2>6, <2>7, TurnPlaces
  <2> QED
    BY <2>4, <2>8
<1>6. PlacesAt(at[N], d, N)
  BY <1>2, <1>5
<1>7. \A p \in Panels : Placer(p) <= N
  BY <1>2, TopIs DEF Placer
<1> QED
  BY <1>1, <1>6, <1>7 DEF PlacesAt, Turns


-----------------------------------------------------------------------------
(* The panels settle.  As long as nothing disturbs them their heights are  *)
(* what they make for, and calm counts the links that are in place.        *)

SizesInv ==
    calm > 0 => \A p \in Panels : /\ frames[p].expanded = Extent(p)
                                  /\ frames[p].visible => frames[p].height = Goal(p)
                                  /\ Alone(p) => frames[p].y = GridRows * cell - frames[p].height

PlacesInv ==
    \A d : DrawnUp(d) =>
        \A p \in Panels : frames[p].visible /\ Stacked(p) /\ calm > 0 /\ Rank(p) <= calm => InPlace(frames, d, p)

SettleInv == StackShape /\ SizesInv /\ PlacesInv

LEMMA LinksAre == Links \in Nat /\ Links >= 1
<1>1. 1 \in Panels
  BY PanelsAre, StackingAssumption DEF N
<1> QED
  BY <1>1, RankIs

LEMMA CalmOnly ==
    ASSUME StackShape, calm = 0
    PROVE  SettleInv
  BY DEF SettleInv, SizesInv, PlacesInv

LEMMA ApproachStays ==
    ASSUME NEW t \in Int, NEW halves \in 1 .. 3
    PROVE  Approach(t, t, halves) = t
<1>1. (t - t) * halves = 0 /\ t + ((t - t) * halves) \div 2 = t
  BY SMT
<1> QED
  BY <1>1 DEF Approach

LEMMA MinOfTwo ==
    ASSUME NEW a \in Int, NEW b \in Int
    PROVE  Min({a, b}) = IF a <= b THEN a ELSE b
<1>1. \E x \in {a, b} : \A y \in {a, b} : x <= y
  BY SMT
<1>2. Min({a, b}) \in {a, b} /\ \A y \in {a, b} : Min({a, b}) <= y
  BY <1>1, Zenon DEF Min
<1> QED
  BY <1>2

LEMMA MaxOfTwo ==
    ASSUME NEW a \in Int, NEW b \in Int
    PROVE  Max({a, b}) = IF a <= b THEN b ELSE a
<1>1. \E x \in {a, b} : \A y \in {a, b} : x >= y
  BY SMT
<1>2. Max({a, b}) \in {a, b} /\ \A y \in {a, b} : Max({a, b}) >= y
  BY <1>1, Zenon DEF Max
<1> QED
  BY <1>2

\* What is linked and how far it is drawn up depends on what is visible or folded alone.
LEMMA SameLinks ==
    ASSUME UNCHANGED <<configMode, cell>>,
           \A q \in Panels : frames'[q].visible = frames[q].visible /\ frames'[q].collapsed = frames[q].collapsed
    PROVE  /\ \A p \in Panels : Goal(p)' = Goal(p)
           /\ \A d : DrawnUp(d)' => DrawnUp(d)
           /\ \A p \in Panels : Extent(p)' = Extent(p) /\ (Alone(p)' <=> Alone(p)) /\ (Stacked(p)' <=> Stacked(p))
<1>1. \A p \in Panels : Goal(p)' = Goal(p) /\ Extent(p)' = Extent(p) /\ (Stacked(p)' <=> Stacked(p))
  BY DEF Goal, Extent, Stacked
<1>2. \A p \in Panels : Tops(p)' = Tops(p)
  BY DEF Tops
<1>5. \A p \in Panels : Alone(p)' <=> Alone(p)
  BY <1>2 DEF Alone
<1>3. \A p \in Panels : (IsRoot(p)' <=> IsRoot(p)) /\ TopOf(p)' = TopOf(p)
  BY <1>2 DEF IsRoot, TopOf
<1>4. ASSUME NEW d, DrawnUp(d)'
      PROVE  DrawnUp(d)
  <2>1. d \in [Panels -> Int] /\ \A p \in Panels : d[p] = DrawnRow(d, p)'
    BY <1>4 DEF DrawnUp
  <2>2. ASSUME NEW p \in Panels
        PROVE  DrawnRow(d, p)' = DrawnRow(d, p)
    <3>1. CASE IsRoot(p)
      BY <1>3, <3>1 DEF DrawnRow
    <3>2. CASE ~IsRoot(p)
      <4>1. TopOf(p) \in Panels
        BY <3>2, TopIs
      <4>2. Goal(TopOf(p))' = Goal(TopOf(p))
        <5> DEFINE t == TopOf(p)
        <5>1. TopOf(p)' = t
          BY <1>3
        <5>2. frames'[t].collapsed = frames[t].collapsed
          BY <4>1
        <5> QED
          BY <5>1, <5>2 DEF Goal, Extent
      <4>3. Extent(TopOf(p))' = Extent(TopOf(p))
        BY <1>3, <4>1 DEF Extent
      <4> QED
        BY <1>3, <3>2, <4>2, <4>3 DEF DrawnRow
    <3> QED
      BY <3>1, <3>2
  <2> QED
    BY <2>1, <2>2 DEF DrawnUp
<1> QED
  BY <1>1, <1>4, <1>5

LEMMA FrameSettles ==
    ASSUME SettleInv, NEW halves \in 1 .. 3, Frame(halves)
    PROVE  SettleInv'
<1>1. StackShape /\ SizesInv /\ PlacesInv
  BY DEF SettleInv
<1>2. /\ UNCHANGED <<configMode, cell>>
      /\ calm' = IF \E p \in Panels : frames'[p].height # frames[p].height THEN 0 ELSE Min({calm + 1, Links})
  BY DEF Frame
<1>3. /\ frames' \in Frames
      /\ \A q \in Panels : /\ frames'[q].visible = frames[q].visible
                           /\ frames'[q].collapsed = frames[q].collapsed
                           /\ frames'[q].expanded = Extent(q)
                           /\ frames'[q].height = Grown(q, frames[q].height, halves)
                           /\ Alone(q) => frames'[q].y = GridRows * cell - frames'[q].height
      /\ BarsFixed(frames')
  BY <1>1, FrameLeaves
<1>4. Links \in Nat /\ calm \in Nat /\ calm <= Links /\ configMode \in BOOLEAN
  <2>1. Links \in Nat
    BY LinksAre
  <2>2. calm \in 0 .. Links /\ configMode \in BOOLEAN
    BY <1>1 DEF StackShape
  <2> QED
    BY <2>1, <2>2
<1>5. Min({calm + 1, Links}) \in 0 .. Links /\ Min({calm + 1, Links}) <= calm + 1
  <2>1. Min({calm + 1, Links}) = IF calm + 1 <= Links THEN calm + 1 ELSE Links
    BY <1>4, MinOfTwo
  <2> QED
    BY <1>4, <2>1
<1>6. StackShape'
  <2>1. calm' \in 0 .. Links
    BY <1>2, <1>4, <1>5
  <2> QED
    BY <1>1, <1>2, <1>3, <2>1 DEF StackShape, Links, BarsFixed
<1>7. CASE calm' = 0
  BY <1>6, <1>7 DEF SettleInv, SizesInv, PlacesInv
<1>8. CASE calm' # 0
  <2>1. \A q \in Panels : frames'[q].height = frames[q].height
    BY <1>2, <1>8
  <2>2. calm' <= calm + 1 /\ calm' \in Nat
    BY <1>2, <1>4, <1>5, <1>8
  <2>3. ASSUME NEW q \in Panels, frames[q].visible
        PROVE  frames'[q].height = Goal(q)
    <3>1. frames[q].height \in Int /\ Goal(q) \in Int
      BY <1>1, StoodIs DEF StackShape, Frames, FrameRec
    <3>2. frames[q].height = Approach(Taken(q, frames[q].height), Goal(q), halves)
      BY <1>3, <2>1, <2>3 DEF Grown
    <3>3. CASE configMode /\ q \notin Pinned
      <4>1. Taken(q, frames[q].height) = Goal(q)
        BY <3>3 DEF Taken, Goal
      <4> QED
        BY <2>1, <3>1, <3>2, <4>1, ApproachStays
    <3>4. CASE ~(configMode /\ q \notin Pinned)
      <4>1. Taken(q, frames[q].height) = frames[q].height
        BY <3>4 DEF Taken
      <4> QED
        BY <2>1, <3>1, <3>2, <4>1, ApproachType
    <3> QED
      BY <3>3, <3>4
  <2>4. /\ \A p \in Panels : Goal(p)' = Goal(p)
        /\ \A d : DrawnUp(d)' => DrawnUp(d)
        /\ \A p \in Panels : Extent(p)' = Extent(p) /\ (Alone(p)' <=> Alone(p)) /\ (Stacked(p)' <=> Stacked(p))
    BY <1>2, <1>3, SameLinks
  <2>5. SizesInv'
    BY <1>2, <1>3, <2>3, <2>4 DEF SizesInv
  <2>6. ASSUME NEW d, DrawnUp(d)'
        PROVE  \A p \in Panels : frames'[p].visible /\ Stacked(p) /\ Rank(p) <= calm' => InPlace(frames, d, p)'
    <3>1. DrawnUp(d)
      BY <2>4, <2>6
    <3>2. \A p \in Panels : frames[p].visible /\ Stacked(p) /\ Rank(p) <= calm + 1 => InPlace(frames', d, p)
      BY <1>1, <2>3, <3>1, FramePlaces DEF PlacesInv
    <3>3. ASSUME NEW p \in Panels, frames'[p].visible, Stacked(p), Rank(p) <= calm'
          PROVE  InPlace(frames, d, p)'
      <4>1. Rank(p) <= calm + 1
        BY <1>4, <2>2, <3>3, RankIs
      <4>2. InPlace(frames', d, p)
        BY <1>3, <3>2, <3>3, <4>1
      <4> QED
        BY <1>2, <4>2 DEF InPlace
    <3> QED
      BY <3>3
  <2>7. PlacesInv'
    <3>1. \A p \in Panels : Rank(p)' = Rank(p)
      BY DEF Rank, Higher
    <3> QED
      BY <2>4, <2>6, <3>1 DEF PlacesInv
  <2> QED
    BY <1>6, <2>5, <2>7 DEF SettleInv
<1> QED
  BY <1>7, <1>8

\* Whatever happens to the panels besides starts the count again.
LEMMA DeedsSettle ==
    ASSUME SettleInv,
           \/ \E p \in Panels : ToggleCollapsed(p)
           \/ \E p \in Closable : OpenPanel(p) \/ ClosePanel(p)
           \/ PanelsEnterConfig \/ PanelsLeaveConfig \/ NewRow
           \/ \E c \in CellHeights : ResizeWindow(c)
           \/ \E notches \in {-1, 1} : Scroll(notches)
    PROVE  SettleInv'
<1>1. /\ frames \in Frames /\ configMode \in BOOLEAN /\ cell \in Nat /\ cell \in CellHeights
      /\ Links \in Nat /\ Closable \subseteq Panels /\ CellHeights \subseteq Nat
  BY LinksAre, StackingAssumption DEF SettleInv, StackShape
<1>2. \A p \in Panels : frames[p] \in FrameRec
  BY <1>1 DEF Frames
<1>3. calm' = 0
  BY DEF ToggleCollapsed, OpenPanel, ClosePanel, PanelsEnterConfig, PanelsLeaveConfig, NewRow, ResizeWindow, Scroll, Deed
<1>4. ASSUME frames' \in Frames, configMode' \in BOOLEAN, cell' \in CellHeights,
             \A p \in Panels : frames'[p].expanded = frames[p].expanded
      PROVE  SettleInv'
  <2>2. BarsFixed(frames')
    BY <1>4, StackingAssumption DEF SettleInv, StackShape, BarsFixed
  <2>1. StackShape'
    BY <1>1, <1>3, <1>4, <2>2 DEF StackShape, Links, BarsFixed
  <2> QED
    BY <1>3, <2>1 DEF SettleInv, SizesInv, PlacesInv
<1>5. CASE \E p \in Panels : ToggleCollapsed(p)
  <2>1. PICK p \in Panels : ToggleCollapsed(p)
    BY <1>5
  <2>2. frames' \in Frames /\ \A q \in Panels : frames'[q].expanded = frames[q].expanded
    BY <1>1, <1>2, <2>1 DEF ToggleCollapsed, Frames, FrameRec
  <2> QED
    BY <1>1, <1>4, <2>1, <2>2 DEF ToggleCollapsed
<1>6. CASE \E p \in Closable : OpenPanel(p) \/ ClosePanel(p)
  <2>1. PICK p \in Closable : OpenPanel(p) \/ ClosePanel(p)
    BY <1>6
  <2>2. CASE OpenPanel(p)
    <3>1. frames' \in Frames /\ \A q \in Panels : frames'[q].expanded = frames[q].expanded
      BY <1>1, <1>2, <2>2 DEF OpenPanel, Frames, FrameRec
    <3> QED
      BY <1>1, <1>4, <2>2, <3>1 DEF OpenPanel
  <2>3. CASE ClosePanel(p)
    <3>1. frames' \in Frames /\ \A q \in Panels : frames'[q].expanded = frames[q].expanded
      BY <1>1, <1>2, <2>3 DEF ClosePanel, Frames, FrameRec
    <3> QED
      BY <1>1, <1>4, <2>3, <3>1 DEF ClosePanel
  <2> QED
    BY <2>1, <2>2, <2>3
<1>7. CASE PanelsEnterConfig
  <2>1. frames' \in Frames /\ \A q \in Panels : frames'[q].expanded = frames[q].expanded
    BY <1>1, <1>2, <1>7 DEF PanelsEnterConfig, Frames, FrameRec
  <2> QED
    BY <1>1, <1>4, <1>7, <2>1 DEF PanelsEnterConfig
<1>8. CASE PanelsLeaveConfig
  <2>1. frames' \in Frames /\ \A q \in Panels : frames'[q].expanded = frames[q].expanded
    BY <1>1, <1>2, <1>8 DEF PanelsLeaveConfig, Frames, FrameRec
  <2> QED
    BY <1>1, <1>4, <1>8, <2>1 DEF PanelsLeaveConfig
<1>9. CASE NewRow
  BY <1>1, <1>4, <1>9 DEF NewRow
<1>10. CASE \E c \in CellHeights : ResizeWindow(c)
  BY <1>1, <1>4, <1>10 DEF ResizeWindow
<1>11. CASE \E notches \in {-1, 1} : Scroll(notches)
  BY <1>1, <1>4, <1>11 DEF Scroll
<1> QED
  BY <1>5, <1>6, <1>7, <1>8, <1>9, <1>10, <1>11


\* The function of PanelsSettle.
DrawnBody(g) ==
    [p \in Panels |-> IF IsRoot(p) THEN 0
                      ELSE LET top == Max(Tops(p))
                           IN g[top] + frames[top].expanded - TargetHeight(frames[top])]
Drawn == CHOOSE g : g = DrawnBody(g)

\* PanelsSettle, spelled out.
LEMMA SettledReads ==
    ASSUME calm = Links =>
              \A p \in Panels : frames[p].visible =>
                  /\ frames[p].height = TargetHeight(frames[p])
                  /\ Stacked(p) => frames[p].y = Stood[p].y * cell - Drawn[p]
                  /\ p \in Pinned /\ (\A t \in Tops(p) : t < p) =>
                        frames[p].y = GridRows * cell - frames[p].height
    PROVE  PanelsSettle
  BY Zenon DEF PanelsSettle, Drawn, DrawnBody

\* The function of PanelsSettle is one by which panels are drawn up.
LEMMA DrawnIs ==
    ASSUME SettleInv, calm > 0
    PROVE  \E d : DrawnUp(d) /\ \A p \in Panels : Drawn[p] = d[p]
<1>1. StackShape /\ \A p \in Panels : frames[p].expanded = Extent(p)
  BY DEF SettleInv, SizesInv
<1>2. \A p \in Panels : TargetHeight(frames[p]) = Goal(p)
  BY <1>1 DEF TargetHeight, Goal
<1>3. ASSUME NEW g, NEW p \in Panels
      PROVE  DrawnBody(g)[p] = DrawnRow(g, p)
  <2>1. DrawnBody(g)[p] = IF IsRoot(p) THEN 0
                          ELSE g[TopOf(p)] + frames[TopOf(p)].expanded - TargetHeight(frames[TopOf(p)])
    BY DEF DrawnBody, TopOf
  <2>2. CASE IsRoot(p)
    BY <2>1, <2>2 DEF DrawnRow
  <2>3. CASE ~IsRoot(p)
    <3>1. TopOf(p) \in Panels
      BY <2>3, TopIs
    <3>2. frames[TopOf(p)].expanded = Extent(TopOf(p)) /\ TargetHeight(frames[TopOf(p)]) = Goal(TopOf(p))
      BY <1>1, <1>2, <3>1
    <3>3. DrawnBody(g)[p] = g[TopOf(p)] + frames[TopOf(p)].expanded - TargetHeight(frames[TopOf(p)])
      BY <2>1, <2>3
    <3>4. DrawnRow(g, p) = g[TopOf(p)] + Extent(TopOf(p)) - Goal(TopOf(p))
      BY <2>3, Zenon DEF DrawnRow
    <3> QED
      BY <3>2, <3>3, <3>4, Zenon
  <2> QED
    BY <2>2, <2>3
<1>4. PICK d : DrawnUp(d)
  BY <1>1, DrawnUpExists
<1>5. d \in [Panels -> Int] /\ \A p \in Panels : d[p] = DrawnRow(d, p)
  BY <1>4 DEF DrawnUp
<1>6. d = DrawnBody(d)
  <2> DEFINE b == DrawnBody(d)
  <2>1. \A p \in Panels : d[p] = b[p]
    BY <1>3, <1>5
  <2>2. b = [p \in Panels |-> b[p]]
    BY DEF DrawnBody
  <2> HIDE DEF b
  <2>3. d = b
    BY <1>5, <2>1, <2>2
  <2> QED
    BY <2>3 DEF b
<1>7. Drawn = DrawnBody(Drawn)
  BY <1>6, Zenon DEF Drawn
<1>8. \A p \in Panels : Drawn[p] = DrawnRow(Drawn, p)
  BY <1>3, <1>7
<1> DEFINE Diff == {p \in Panels : Drawn[p] # d[p]}
<1>9. Diff = {}
  <2>1. SUFFICES ASSUME Diff # {} PROVE FALSE
    OBVIOUS
  <2> DEFINE T == {Stood[p].y : p \in Diff}
  <2>2. T \subseteq Nat /\ T # {}
    <3>1. \A p \in Panels : Stood[p].y \in Nat
      BY <1>1, StoodIs
    <3> QED
      BY <2>1, <3>1
  <2>3. PICK y \in T : \A z \in T : y <= z
    <3> HIDE DEF T
    <3> QED
      BY <2>2, LeastOf
  <2>4. PICK p \in Panels : Drawn[p] # d[p] /\ y = Stood[p].y
    OBVIOUS
  <2>5. ~IsRoot(p)
    BY <1>5, <1>8, <2>4 DEF DrawnRow
  <2> DEFINE t == TopOf(p)
  <2>6. t \in Panels /\ Stood[t].y < Stood[p].y
    BY <2>5, TopIs
  <2>7. Stood[t].y \in Int /\ Stood[p].y \in Int
    BY <1>1, <2>6, StoodIs
  <2>8. Drawn[t] = d[t]
    <3>1. SUFFICES ASSUME Drawn[t] # d[t] PROVE FALSE
      OBVIOUS
    <3>2. Stood[t].y \in T
      BY <2>6, <3>1
    <3>3. Stood[p].y <= Stood[t].y
      BY <2>3, <2>4, <3>2
    <3> QED
      BY ONLY <2>6, <2>7, <3>3
  <2> HIDE DEF T, Diff
  <2>9. DrawnRow(Drawn, p) = DrawnRow(d, p)
    BY <2>5, <2>8, Zenon DEF DrawnRow
  <2> QED
    BY <1>5, <1>8, <2>4, <2>9
<1> QED
  BY <1>4, <1>9

LEMMA PanelsHaveSettled ==
    ASSUME SettleInv
    PROVE  PanelsSettle
<1>1. SUFFICES ASSUME calm = Links
               PROVE  \A p \in Panels : frames[p].visible =>
                          /\ frames[p].height = TargetHeight(frames[p])
                          /\ Stacked(p) => frames[p].y = Stood[p].y * cell - Drawn[p]
                          /\ p \in Pinned /\ (\A t \in Tops(p) : t < p) =>
                                frames[p].y = GridRows * cell - frames[p].height
  BY SettledReads
<1>2. calm > 0 /\ Links \in Nat
  BY <1>1, LinksAre
<1>3. PICK d : DrawnUp(d) /\ \A p \in Panels : Drawn[p] = d[p]
  BY <1>2, DrawnIs
<1>4. ASSUME NEW p \in Panels, frames[p].visible
      PROVE  frames[p].height = TargetHeight(frames[p])
  <2>1. frames[p].expanded = Extent(p) /\ frames[p].height = Goal(p)
    BY <1>2, <1>4 DEF SettleInv, SizesInv
  <2> QED
    BY <2>1 DEF TargetHeight, Goal
<1>5. ASSUME NEW p \in Panels, frames[p].visible, Stacked(p)
      PROVE  frames[p].y = Stood[p].y * cell - Drawn[p]
  <2>1. Rank(p) <= calm
    BY <1>1, RankIs
  <2>2. InPlace(frames, d, p)
    BY <1>2, <1>3, <1>5, <2>1 DEF SettleInv, PlacesInv
  <2> QED
    BY <1>3, <2>2, Zenon DEF InPlace
<1>6. ASSUME NEW p \in Panels, frames[p].visible, p \in Pinned, \A t \in Tops(p) : t < p
      PROVE  frames[p].y = GridRows * cell - frames[p].height
  BY <1>2, <1>6 DEF SettleInv, SizesInv, Alone
<1> QED
  BY <1>4, <1>5, <1>6

-----------------------------------------------------------------------------
(* The log of the events.                                                  *)

LogInv ==
    /\ log \in [rows : Nat, offset : Nat, moved : BOOLEAN]
    /\ frames[Log].expanded > 8
    /\ log.offset <= MaxScroll(log.rows, frames[Log].expanded)
    /\ ~log.moved => log.offset = MaxScroll(log.rows, frames[Log].expanded)

\* The panel of the log is higher than its header and margin.
LogHasRoom == Begun > 8 /\ \A c \in CellHeights : Stood[Log].h * c > 8

LEMMA MaxScrollIs ==
    ASSUME NEW rows \in Nat, NEW expanded \in Int
    PROVE  /\ MaxScroll(rows, expanded) \in Nat
           /\ MaxScroll(rows, expanded) >= 5 * rows - 1 - (expanded - 8)
           /\ MaxScroll(rows, expanded) = 0 \/ MaxScroll(rows, expanded) = 5 * rows - 1 - (expanded - 8)
<1> DEFINE m == 5 * rows - 1 - (expanded - 8)
<1>1. Pitch * rows - 1 - AvailableHeight(expanded) = m /\ m \in Int
  BY DEF Pitch, AvailableHeight, HeaderHeight
<1> HIDE DEF m
<1>2. MaxScroll(rows, expanded) = Max({0, m})
  BY <1>1 DEF MaxScroll
<1>3. Max({0, m}) = IF 0 <= m THEN m ELSE 0
  BY <1>1, MaxOfTwo
<1>4. MaxScroll(rows, expanded) \in Nat /\ MaxScroll(rows, expanded) >= m
      /\ (MaxScroll(rows, expanded) = 0 \/ MaxScroll(rows, expanded) = m)
  BY <1>1, <1>2, <1>3
<1> QED
  BY <1>4 DEF m

LEMMA ClampIs ==
    ASSUME NEW offset \in Int, NEW rows \in Nat, NEW expanded \in Int
    PROVE  /\ ClampScroll(offset, rows, expanded) \in Nat
           /\ ClampScroll(offset, rows, expanded) <= MaxScroll(rows, expanded)
           /\ offset >= MaxScroll(rows, expanded) => ClampScroll(offset, rows, expanded) = MaxScroll(rows, expanded)
<1> DEFINE m == MaxScroll(rows, expanded)
<1>1. m \in Nat
  BY MaxScrollIs
<1> HIDE DEF m
<1>2. ClampScroll(offset, rows, expanded) = Max({0, Min({offset, m})})
  BY DEF ClampScroll, m
<1>3. Min({offset, m}) = IF offset <= m THEN offset ELSE m
  BY <1>1, MinOfTwo
<1> DEFINE n == Min({offset, m})
<1>4. n \in Int /\ n = IF offset <= m THEN offset ELSE m
  BY <1>1, <1>3
<1> HIDE DEF n
<1>5. ClampScroll(offset, rows, expanded) = IF 0 <= n THEN n ELSE 0
  BY <1>2, <1>4, MaxOfTwo DEF n
<1>6. /\ ClampScroll(offset, rows, expanded) \in Nat
      /\ ClampScroll(offset, rows, expanded) <= m
      /\ offset >= m => ClampScroll(offset, rows, expanded) = m
  BY ONLY <1>1, <1>4, <1>5, offset \in Int
<1> QED
  BY <1>6 DEF m

LEMMA LogTypes ==
    ASSUME SettleInv
    PROVE  Log \in Panels /\ frames[Log] \in FrameRec /\ frames[Log].expanded \in Int
<1>1. Log \in Panels /\ frames \in Frames
  BY StackingAssumption DEF SettleInv, StackShape
<1> QED
  BY <1>1 DEF Frames, FrameRec

\* A panel that does not shrink keeps its end in sight; one that does counts as moved.
LEMMA FrameLog ==
    ASSUME LogHasRoom, SettleInv, LogInv, NEW halves \in 1 .. 3, Frame(halves)
    PROVE  LogInv'
<1> DEFINE old == frames[Log].expanded
           new == frames'[Log].expanded
           rows == log.rows
           offset == log.offset
           o == ClampScroll(offset, rows, new)
           m == log.moved \/ new < old
<1>1. old \in Int /\ old > 8 /\ rows \in Nat /\ offset \in Nat /\ log.moved \in BOOLEAN
  <2>1. log \in [rows : Nat, offset : Nat, moved : BOOLEAN] /\ frames[Log].expanded > 8
    BY DEF LogInv
  <2> QED
    BY <2>1, LogTypes
<1>2. new \in Int /\ new > 8
  <2>1. Log \in Panels /\ StackShape
    BY LogTypes DEF SettleInv
  <2>2. new = Stood[Log].h * cell /\ frames' \in Frames
    BY <2>1, FrameLeaves, StackingAssumption DEF Extent
  <2>3. cell \in CellHeights
    BY <2>1 DEF StackShape
  <2> QED
    BY <2>1, <2>2, <2>3 DEF LogHasRoom, Frames, FrameRec
<1>3. log' = [log EXCEPT !.offset = o, !.moved = m]
  <2>1. log' = [log EXCEPT !.offset = ClampScroll(@, log.rows, frames'[Log].expanded),
                           !.moved = @ \/ frames'[Log].expanded < frames[Log].expanded]
    BY Zenon DEF Frame
  <2> QED
    BY <2>1, Zenon
<1> HIDE DEF old, new, o, m, rows, offset
<1>4. log \in [rows : Nat, offset : Nat, moved : BOOLEAN]
  BY DEF LogInv
<1>5. o \in Nat /\ o <= MaxScroll(rows, new) /\ (offset >= MaxScroll(rows, new) => o = MaxScroll(rows, new))
  <2>1. offset \in Int /\ rows \in Nat /\ new \in Int
    BY <1>1, <1>2
  <2> QED
    BY <2>1, ClampIs, Zenon DEF o
<1>6. m \in BOOLEAN
  BY DEF m
<1>7. log'.rows = rows /\ log'.offset = o /\ log'.moved = m /\ log' \in [rows : Nat, offset : Nat, moved : BOOLEAN]
  BY <1>3, <1>4, <1>5, <1>6 DEF rows
<1>8. ASSUME ~m PROVE o = MaxScroll(rows, new)
  <2>1. ~log.moved /\ ~(new < old)
    BY <1>8 DEF m
  <2>2. offset = MaxScroll(rows, old)
    BY <2>1 DEF LogInv, old, rows, offset
  <2>3. MaxScroll(rows, old) >= MaxScroll(rows, new)
    <3> DEFINE a == MaxScroll(rows, old)
               b == MaxScroll(rows, new)
    <3>1. a \in Nat /\ a >= 5 * rows - 1 - (old - 8)
      BY <1>1, MaxScrollIs
    <3>2. b \in Nat /\ (b = 0 \/ b = 5 * rows - 1 - (new - 8))
      BY <1>1, <1>2, MaxScrollIs
    <3> HIDE DEF a, b
    <3>3. a >= b
      BY <1>1, <1>2, <2>1, <3>1, <3>2
    <3> QED
      BY <3>3 DEF a, b
  <2> QED
    BY <1>5, <2>2, <2>3
<1> QED
  BY <1>2, <1>5, <1>7, <1>8 DEF LogInv, new


LEMMA ScrollLog ==
    ASSUME SettleInv, LogInv, NEW notches \in {-1, 1}, Scroll(notches)
    PROVE  LogInv'
<1> DEFINE e == frames[Log].expanded
           rows == log.rows
           wanted == log.offset - notches * ScrollSpeed
           o == ClampScroll(wanted, rows, e)
<1>1. log \in [rows : Nat, offset : Nat, moved : BOOLEAN] /\ e > 8
  BY DEF LogInv
<1>2. rows \in Nat /\ wanted \in Int /\ e \in Int
  BY <1>1, LogTypes DEF ScrollSpeed
<1>3. log' = [log EXCEPT !.offset = o, !.moved = TRUE] /\ frames' = frames
  BY Zenon DEF Scroll
<1>4. o \in Nat /\ o <= MaxScroll(rows, e)
  <2> HIDE DEF wanted, rows, e
  <2> QED
    BY <1>2, ClampIs, Zenon DEF o
<1> HIDE DEF o, e
<1>5. log'.rows = rows /\ log'.offset = o /\ log'.moved = TRUE /\ log' \in [rows : Nat, offset : Nat, moved : BOOLEAN]
  BY <1>1, <1>3, <1>4
<1> QED
  BY <1>1, <1>3, <1>4, <1>5 DEF LogInv, e

LEMMA NewRowLog ==
    ASSUME SettleInv, LogInv, NewRow
    PROVE  LogInv'
<1> DEFINE e == frames[Log].expanded
           rows == Min({log.rows + 1, MaxRows})
           o == MaxScroll(rows, e)
<1>1. log \in [rows : Nat, offset : Nat, moved : BOOLEAN] /\ e > 8 /\ e \in Int
  BY LogTypes DEF LogInv
<1>2. rows \in Nat
  <2>1. log.rows + 1 \in Int /\ MaxRows \in Int /\ log.rows + 1 \in Nat /\ MaxRows \in Nat
    BY <1>1, StackingAssumption
  <2>2. rows = IF log.rows + 1 <= MaxRows THEN log.rows + 1 ELSE MaxRows
    BY <2>1, MinOfTwo
  <2> QED
    BY <2>1, <2>2
<1>3. log' = [rows |-> rows, offset |-> o, moved |-> FALSE] /\ frames' = frames
  BY DEF NewRow, ScrollToBottom
<1> HIDE DEF rows, e
<1>4. o \in Nat
  BY <1>1, <1>2, MaxScrollIs
<1> HIDE DEF o
<1>5. log'.rows = rows /\ log'.offset = o /\ log' \in [rows : Nat, offset : Nat, moved : BOOLEAN] /\ o <= o
  BY <1>2, <1>3, <1>4
<1> QED
  BY <1>1, <1>3, <1>5 DEF LogInv, e, o

\* Nothing else moves the log or gives its panel another size.
LEMMA OtherLog ==
    ASSUME SettleInv, LogInv, log' = log, frames'[Log].expanded = frames[Log].expanded
    PROVE  LogInv'
  BY DEF LogInv

LEMMA PanelDeedsLog ==
    ASSUME SettleInv,
           \/ \E p \in Panels : ToggleCollapsed(p)
           \/ \E p \in Closable : OpenPanel(p) \/ ClosePanel(p)
           \/ PanelsEnterConfig \/ PanelsLeaveConfig
           \/ \E c \in CellHeights : ResizeWindow(c)
    PROVE  log' = log /\ frames'[Log].expanded = frames[Log].expanded
<1>1. Log \in Panels /\ frames[Log] \in FrameRec /\ frames \in [Panels -> FrameRec]
  BY LogTypes DEF SettleInv, StackShape, Frames
<1>2. CASE \E p \in Panels : ToggleCollapsed(p)
  BY <1>1, <1>2 DEF ToggleCollapsed, FrameRec
<1>3. CASE \E p \in Closable : OpenPanel(p) \/ ClosePanel(p)
  <2>1. PICK p \in Closable : OpenPanel(p) \/ ClosePanel(p)
    BY <1>3
  <2>2. CASE OpenPanel(p)
    BY <1>1, <2>2 DEF OpenPanel, FrameRec
  <2>3. CASE ClosePanel(p)
    BY <1>1, <2>3 DEF ClosePanel, FrameRec
  <2> QED
    BY <2>1, <2>2, <2>3
<1>4. CASE PanelsEnterConfig
  BY <1>1, <1>4 DEF PanelsEnterConfig, FrameRec
<1>5. CASE PanelsLeaveConfig
  BY <1>1, <1>5 DEF PanelsLeaveConfig, FrameRec
<1>6. CASE \E c \in CellHeights : ResizeWindow(c)
  BY <1>6 DEF ResizeWindow
<1> QED
  BY <1>2, <1>3, <1>4, <1>5, <1>6

LEMMA NewestInSight ==
    ASSUME SettleInv, LogInv
    PROVE  LogInSight
<1> DEFINE e == frames[Log].expanded
           rows == log.rows
           offset == log.offset
<1>1. log \in [rows : Nat, offset : Nat, moved : BOOLEAN] /\ e > 8 /\ e \in Int
  BY LogTypes DEF LogInv
<1>2. rows \in Nat /\ offset \in Nat
  BY <1>1
<1>3. offset <= MaxScroll(rows, e) /\ (~log.moved => offset = MaxScroll(rows, e))
  BY DEF LogInv
<1>4. /\ RowAt(1) = 0 - offset
      /\ RowAt(rows) = 5 * (rows - 1) - offset
      /\ RowInside(rows) <=> (RowAt(rows) + 4 > 0 /\ RowAt(rows) < e - 8)
  BY <1>1, <1>2 DEF RowAt, RowInside, Pitch, AvailableHeight, HeaderHeight
<1> DEFINE m == MaxScroll(rows, e)
<1> HIDE DEF e, rows, offset
<1>5. m \in Nat /\ m >= 5 * rows - 1 - (e - 8) /\ (m = 0 \/ m = 5 * rows - 1 - (e - 8))
  BY <1>1, <1>2, MaxScrollIs
<1>6. rows > 0 /\ ~log.moved => RowInside(rows)
  <2>1. SUFFICES ASSUME rows > 0, ~log.moved
                 PROVE  5 * (rows - 1) - offset + 4 > 0 /\ 5 * (rows - 1) - offset < e - 8
    BY <1>4
  <2>2. offset = m
    BY <1>3, <2>1
  <2> HIDE DEF m
  <2> QED
    BY <1>1, <1>2, <1>5, <2>1, <2>2
<1>7. RowAt(1) <= 0
  BY <1>2, <1>4
<1> QED
  BY <1>3, <1>6, <1>7 DEF LogInSight, rows, offset, e

-----------------------------------------------------------------------------
(* Both: the panels are arranged, and they grow and shrink.                *)

LayoutSpec ==
    /\ LayoutInit /\ StackInit
    /\ [][\/ LayoutNext /\ UNCHANGED stackVars
          \/ StackNext /\ UNCHANGED layoutVars]_<<layoutVars, stackVars>>

ArrangementInv == LayoutInv /\ SettleInv /\ LogInv

LEMMA StackStarts ==
    ASSUME LogHasRoom, StackInit
    PROVE  SettleInv /\ LogInv
<1>1. Log \in Panels /\ Begun \in Nat /\ CellHeights \subseteq Nat /\ Begun > 8
  BY StackingAssumption DEF LogHasRoom
<1>2. frames \in Frames /\ frames[Log].expanded = Begun /\ BarsFixed(frames)
  BY <1>1, StackingAssumption DEF StackInit, Frames, FrameRec, BarsFixed, BarHeight, HeaderHeight
<1>3. StackShape /\ calm = 0
  <2>1. configMode = FALSE /\ cell \in CellHeights /\ calm = 0
    BY DEF StackInit
  <2>2. cell \in Nat
    BY ONLY <1>1, <2>1
  <2>3. calm \in 0 .. Links
    BY <2>1, LinksAre
  <2>4. configMode \in BOOLEAN
    BY <2>1
  <2> QED
    BY <1>2, <2>1, <2>2, <2>3, <2>4, Zenon DEF StackShape
<1>4. log = [rows |-> 0, offset |-> 0, moved |-> FALSE]
  BY DEF StackInit
<1>5. MaxScroll(0, Begun) = 0
  <2>1. 0 \in Nat /\ Begun \in Int
    BY <1>1
  <2> DEFINE m == MaxScroll(0, Begun)
  <2>2. m \in Nat /\ (m = 0 \/ m = 5 * 0 - 1 - (Begun - 8))
    BY <2>1, MaxScrollIs
  <2> HIDE DEF m
  <2>3. m = 0
    BY <1>1, <2>2
  <2> QED
    BY <2>3 DEF m
<1>6. LogInv
  BY <1>1, <1>2, <1>4, <1>5 DEF LogInv
<1> QED
  BY <1>3, <1>6, CalmOnly

LEMMA StackStep ==
    ASSUME LogHasRoom, SettleInv, LogInv, StackNext
    PROVE  SettleInv' /\ LogInv'
<1>1. CASE \E halves \in 1 .. 3 : Frame(halves)
  BY <1>1, FrameSettles, FrameLog
<1>2. CASE \/ \E p \in Panels : ToggleCollapsed(p)
           \/ \E p \in Closable : OpenPanel(p) \/ ClosePanel(p)
           \/ PanelsEnterConfig \/ PanelsLeaveConfig
           \/ \E c \in CellHeights : ResizeWindow(c)
  <2>1. SettleInv'
    BY <1>2, DeedsSettle
  <2>2. LogInv'
    BY <1>2, PanelDeedsLog, OtherLog
  <2> QED
    BY <2>1, <2>2
<1>3. CASE NewRow
  BY <1>3, DeedsSettle, NewRowLog
<1>4. CASE \E notches \in {-1, 1} : Scroll(notches)
  BY <1>4, DeedsSettle, ScrollLog
<1> QED
  BY <1>1, <1>2, <1>3, <1>4 DEF StackNext

LEMMA StackStutters ==
    ASSUME SettleInv, LogInv, UNCHANGED stackVars
    PROVE  SettleInv' /\ LogInv'
<1>1. UNCHANGED <<frames, configMode, log, cell, calm>>
  BY DEF stackVars
<1>2. StackShape'
  BY <1>1 DEF SettleInv, StackShape, Links, BarsFixed
<1>3. /\ \A q \in Panels : frames'[q].visible = frames[q].visible /\ frames'[q].collapsed = frames[q].collapsed
      /\ UNCHANGED <<configMode, cell>>
  BY <1>1
<1>4. /\ \A p \in Panels : Goal(p)' = Goal(p)
      /\ \A d : DrawnUp(d)' => DrawnUp(d)
      /\ \A p \in Panels : Extent(p)' = Extent(p) /\ (Alone(p)' <=> Alone(p)) /\ (Stacked(p)' <=> Stacked(p))
  BY <1>3, SameLinks
<1>5. SizesInv'
  BY <1>1, <1>4 DEF SettleInv, SizesInv
<1>6. PlacesInv'
  <2>1. \A p \in Panels : Rank(p)' = Rank(p)
    BY DEF Rank, Higher
  <2>2. \A d : DrawnUp(d) =>
            \A p \in Panels : frames[p].visible /\ Stacked(p) /\ calm > 0 /\ Rank(p) <= calm => InPlace(frames, d, p)
    BY DEF SettleInv, PlacesInv
  <2>3. ASSUME NEW d, NEW p \in Panels, InPlace(frames, d, p)
        PROVE  InPlace(frames, d, p)'
    BY <1>1, <2>3 DEF InPlace
  <2> QED
    BY <1>1, <1>4, <2>1, <2>2, <2>3 DEF PlacesInv
<1>7. LogInv'
  BY <1>1, OtherLog
<1> QED
  BY <1>2, <1>5, <1>6, <1>7 DEF SettleInv

\* However the panels are dragged, resized, folded, closed and scrolled and whatever the
\* order of the list, those that stand checked never cover each other and come back as they
\* were saved, a frame for each link brings them to where their stacks put them and World
\* control to the bottom of the screen, and the newest row of the log is in sight:
\* LayoutIsSound.
THEOREM LayoutCorrect == ASSUME LogHasRoom PROVE LayoutSpec => []LayoutIsSound
<1>1. LayoutInit /\ StackInit => ArrangementInv
  BY LayoutStarts, StackStarts DEF ArrangementInv
<1>2. ASSUME ArrangementInv, [\/ LayoutNext /\ UNCHANGED stackVars
                              \/ StackNext /\ UNCHANGED layoutVars]_<<layoutVars, stackVars>>
      PROVE  ArrangementInv'
  <2>1. CASE LayoutNext /\ UNCHANGED stackVars
    BY <1>2, <2>1, LayoutStep, StackStutters DEF ArrangementInv
  <2>2. CASE StackNext /\ UNCHANGED layoutVars
    BY <1>2, <2>2, LayoutStutters, StackStep DEF ArrangementInv
  <2>3. CASE UNCHANGED <<layoutVars, stackVars>>
    BY <1>2, <2>3, LayoutStutters, StackStutters DEF ArrangementInv
  <2> QED
    BY <1>2, <2>1, <2>2, <2>3
<1>3. ArrangementInv => LayoutIsSound
  BY LayoutHolds, PanelsHaveSettled, NewestInSight DEF ArrangementInv, LayoutIsSound
<1> QED
  BY <1>1, <1>2, <1>3, PTL DEF LayoutSpec

=============================================================================
