------------------------------- MODULE Layout -------------------------------
(***************************************************************************)
(* Arranging the panels of the interface on their grid                     *)
(* (gui/src/ui/components/UIGridManager.cpp, UIGamePanel.cpp): dragging,   *)
(* resizing with the stack of panels underneath, saving the arrangement    *)
(* and applying it at the next start.                                      *)
(***************************************************************************)
EXTENDS Integers, SequencesExt

CONSTANTS
    GridCols, GridRows,     \* 64 and 36
    DefaultLayout,          \* the rectangles GameHUD gives its panels, in its order
    FixedSize,              \* the panels that cannot be resized
    MaxEdits                \* bound: presses of the mouse

VARIABLES
    grid,       \* PanelData::grid
    original,   \* PanelData::originalGrid
    dragged,    \* _draggedPanel, or none
    resized,    \* _resizedPanel, or none
    stack,      \* _resizeStack
    preview,    \* _previewGrid
    arranging,  \* _isConfigMode
    held,       \* the left button of the mouse is down
    edits,      \* presses so far
    loose       \* history: a shrunk panel drew its stack up, or Escape came with the button down

layoutVars == <<grid, original, dragged, resized, stack, preview, arranging, held, edits, loose>>

NoPanel == 0
Panels == DOMAIN DefaultLayout
Rect(x, y, w, h) == [x |-> x, y |-> y, w |-> w, h |-> h]

Clash(a, b) == /\ a.x < b.x + b.w /\ a.x + a.w > b.x
               /\ a.y < b.y + b.h /\ a.y + a.h > b.y

CheckOverlap(g, rect, ignored) == \E p \in Panels \ {ignored} : Clash(rect, g[p])

\* addPanel refuses a rectangle beyond the grid or over a panel already there.
Fits(rect) == /\ rect.x >= 0 /\ rect.y >= 0 /\ rect.w > 0 /\ rect.h > 0
              /\ rect.x + rect.w <= GridCols /\ rect.y + rect.h <= GridRows

Rects == [x : Int, y : Int, w : Int, h : Int]

ASSUME LayoutAssumption == GridCols \in Nat /\ GridRows \in Nat /\ DefaultLayout \in Seq(Rects)

ASSUME DefaultsAccepted ==
    \A p \in Panels : /\ Fits(DefaultLayout[p])
                      /\ \A q \in Panels \ {p} : ~Clash(DefaultLayout[p], DefaultLayout[q])

\* Applied in the order of the panels, each checked against those not moved yet too.
ApplyLayouts(saved) ==
    LET place(g, p) == IF CheckOverlap(g, saved[p], p) THEN g ELSE [g EXCEPT ![p] = saved[p]]
    IN FoldLeft(place, DefaultLayout, [p \in Panels |-> p])

LayoutInit ==
    /\ grid = DefaultLayout /\ original = DefaultLayout
    /\ dragged = NoPanel /\ resized = NoPanel /\ stack = <<>>
    /\ preview = Rect(0, 0, 0, 0)
    /\ arranging = FALSE /\ held = FALSE /\ edits = 0 /\ loose = FALSE

SetConfigMode ==
    /\ ~arranging /\ arranging' = TRUE
    /\ UNCHANGED <<grid, original, dragged, resized, stack, preview, held, edits, loose>>

\* Escape, even while a button of the mouse is down: the layout is saved as it stands.
SaveUILayout ==
    /\ arranging /\ arranging' = FALSE
    /\ loose' = (loose \/ held)
    /\ UNCHANGED <<grid, original, dragged, resized, stack, preview, held, edits>>

\* What the button does outside the configuration is not for the grid.
ReleaseElsewhere ==
    /\ ~arranging /\ held /\ held' = FALSE
    /\ UNCHANGED <<grid, original, dragged, resized, stack, preview, arranging, edits, loose>>

Restart ==
    /\ ~arranging /\ ~held
    /\ grid' = ApplyLayouts(grid) /\ original' = grid'
    /\ dragged' = NoPanel /\ resized' = NoPanel /\ stack' = <<>>
    /\ preview' = Rect(0, 0, 0, 0)
    /\ UNCHANGED <<arranging, held, edits, loose>>

-----------------------------------------------------------------------------
(* The mouse.                                                              *)

\* The panels linked under p: same left edge, at most one row between.
Under(g, p) == {q \in Panels \ {p} : g[q].x = g[p].x /\ g[q].y - (g[p].y + g[p].h) \in {0, 1}}

ResizeStack(p) ==
    LET chain(s, i) == LET below == Under(grid, IF s = <<>> THEN p ELSE Last(s))
                       IN IF below = {} THEN s ELSE Append(s, Min(below))
    IN FoldLeft(chain, <<>>, [i \in Panels |-> i])

Press ==
    /\ arranging /\ ~held /\ held' = TRUE
    /\ edits < MaxEdits /\ edits' = edits + 1
    /\ UNCHANGED <<grid, arranging, loose>>

PressHandle(p) ==
    /\ Press /\ p \notin FixedSize
    /\ resized' = p /\ original' = grid /\ preview' = grid[p] /\ stack' = ResizeStack(p)
    /\ UNCHANGED dragged

PressPanel(p) ==
    /\ Press
    /\ dragged' = p /\ original' = [original EXCEPT ![p] = grid[p]] /\ preview' = grid[p]
    /\ UNCHANGED <<resized, stack>>

DragPanel(x, y) ==
    /\ arranging /\ held /\ dragged # NoPanel
    /\ x + preview.w <= GridCols /\ y + preview.h <= GridRows
    /\ preview' = [preview EXCEPT !.x = x, !.y = y]
    /\ UNCHANGED <<grid, original, dragged, resized, stack, arranging, held, edits, loose>>

\* Against the panels that stay where they are; a stack that is pushed down does not.
HitsStatic(rect, delta) ==
    \E p \in Panels \ {resized} :
        /\ delta > 0 => p \notin ToSet(stack)
        /\ Clash(rect, grid[p])

CanPushStack_Unchecked(delta) == TRUE

CanPushStack(delta) ==
    \A p \in ToSet(stack) :
        LET rect == [original[p] EXCEPT !.y = @ + delta]
        IN rect.y + rect.h <= GridRows /\ ~HitsStatic(rect, delta)

DragHandle(w, h) ==
    LET o     == original[resized]
        rect  == [o EXCEPT !.w = w, !.h = h]
        delta == h - o.h
        moved == [p \in Panels |->
                    IF p = resized THEN [grid[p] EXCEPT !.w = w, !.h = h]
                    ELSE IF p \in ToSet(stack)
                    THEN [grid[p] EXCEPT !.y = original[p].y + (IF delta > 0 THEN delta ELSE 0)]
                    ELSE grid[p]]
    IN /\ arranging /\ held /\ dragged = NoPanel /\ resized # NoPanel
       /\ o.x + w <= GridCols /\ o.y + h <= GridRows
       /\ ~HitsStatic(rect, delta)
       /\ delta > 0 => CanPushStack(delta)
       /\ grid' = moved /\ preview' = moved[resized]
       /\ UNCHANGED <<original, dragged, resized, stack, arranging, held, edits, loose>>

\* A dragged panel falls into place, or back to where it was.
Dropped == IF dragged = NoPanel THEN grid
           ELSE [grid EXCEPT ![dragged] =
                    IF CheckOverlap(grid, preview, dragged) THEN original[dragged] ELSE preview]

\* A panel that has shrunk draws its stack after it, unchecked.
Release ==
    LET delta == Dropped[resized].h - original[resized].h
        closed == [p \in Panels |-> IF p \in ToSet(stack)
                                    THEN [Dropped[p] EXCEPT !.y = original[p].y + delta] ELSE Dropped[p]]
    IN /\ arranging /\ held /\ held' = FALSE
       /\ IF resized # NoPanel /\ delta <= 0
          THEN /\ grid' = closed
               /\ loose' = (loose \/ (stack # <<>> /\ delta < 0))
          ELSE grid' = Dropped /\ UNCHANGED loose
       /\ dragged' = NoPanel /\ resized' = NoPanel
       /\ stack' = IF resized # NoPanel THEN <<>> ELSE stack
       /\ UNCHANGED <<original, preview, arranging, edits>>

LayoutNext ==
    \/ SetConfigMode \/ SaveUILayout \/ ReleaseElsewhere \/ Restart \/ Release
    \/ \E p \in Panels : PressHandle(p) \/ PressPanel(p)
    \/ \E x \in 0 .. GridCols - 1, y \in 0 .. GridRows - 1 : DragPanel(x, y)
    \/ \E w \in 2 .. GridCols, h \in 2 .. GridRows : DragHandle(w, h)

-----------------------------------------------------------------------------
(* Properties.                                                             *)

\* No panel covers another or leaves the grid while panels are dragged and resized, the
\* stacks under them pushed down, layouts saved and applied again; except by the moves
\* that are not checked: a stack drawn up by a panel that shrinks, and what an Escape in
\* the middle of a drag or a resize leaves behind for the next press.
PanelsApart ==
    ~loose => \A p \in Panels : Fits(grid[p]) /\ ~CheckOverlap(grid, grid[p], p)

\* The arrangement that was saved comes back, provided no panel was put where another
\* one is by default: that other one is still there when the place is checked.
LayoutReturns ==
    (/\ \A p \in Panels : ~CheckOverlap(DefaultLayout, grid[p], p)
     /\ \A p \in Panels : ~CheckOverlap(grid, grid[p], p))
    => ApplyLayouts(grid) = grid

\* Both, once a panel was moved: panels can be arranged freely and stay as arranged.
ArrangementHolds == grid # DefaultLayout => PanelsApart /\ LayoutReturns

=============================================================================
