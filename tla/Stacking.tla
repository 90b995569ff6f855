------------------------------ MODULE Stacking ------------------------------
(***************************************************************************)
(* The panels of the interface from frame to frame                         *)
(* (UIGridManager::update, gui/src/ui/components/UIGamePanel.cpp): each    *)
(* grows towards its height and draws the panel linked under it along,     *)
(* while the user folds, closes and scrolls them.  World control, which is *)
(* one of them, has an update of its own: it stays at the bottom of the    *)
(* screen and draws nothing along.  Lengths are in tens of pixels; the     *)
(* width plays no part.                                                    *)
(***************************************************************************)
EXTENDS Layout, FiniteSetsExt

CONSTANTS
    Stood,          \* where the panels stand on the grid, linked from top to bottom
    Closable,       \* the inspectors
    Pinned,         \* World control
    Log,            \* the panel of the event log
    CellHeights,    \* of the resolutions the window may have
    Begun,          \* height the constructors give a panel
    MaxRows,        \* EventLogUI::MaxLogs
    MaxDeeds        \* bound: what the user and the world do

\* As the panels of a grid do that are apart and at least two rows high, each has at most
\* one linked under it and is linked under at most one.
ASSUME StackingAssumption ==
    /\ Len(DefaultLayout) >= 2 /\ Log \in Panels \ Pinned
    /\ Closable \subseteq Panels /\ Pinned \subseteq Panels \ Closable
    /\ Stood \in [Panels -> Rects] /\ \A p \in Panels : Fits(Stood[p])
    /\ \A p \in Panels : \A q, r \in Under(Stood, p) : q = r
    /\ \A p, q \in Panels : Under(Stood, p) \cap Under(Stood, q) # {} => p = q
    /\ CellHeights \subseteq Nat /\ Begun \in Nat /\ MaxRows \in Nat \ {0}

VARIABLES
    frames,     \* each panel: visible, _wasVisibleBeforeConfig, collapsed, height, _expandedHeight and y
    configMode,     \* the panels are being arranged
    log,        \* rows of the log, _scrollOffset, and history: moved since the newest row came
    cell,       \* height of a row of the grid
    calm,       \* history: frames since a height, what is visible or the cells changed
    deeds

stackVars == <<frames, configMode, log, cell, calm, deeds>>

Links == Cardinality(Panels) - 1
HeaderHeight == 4
BarHeight == 10     \* of World control: ContentHeight 60 and its fold button 35, as high as a header here
Pitch == 5      \* of the rows: itemHeight 4, spacing 1
ScrollSpeed == 3

Tops(p)   == {q \in Panels \ {p} : p \in Under(Stood, q) /\ frames[q].visible}
IsRoot(p) == Tops(p) = {}

\* The one drawn along: the last one in the list, when several could be linked; 0 is none.
NextPanel(p) ==
    LET linked == {q \in Under(Stood, p) : p \notin Pinned /\ frames[p].visible /\ frames[q].visible}
    IN IF linked = {} THEN NoPanel ELSE Max(linked)
Gap(p) == Stood[NextPanel(p)].y - (Stood[p].y + Stood[p].h)

StackInit ==
    /\ frames = [p \in Panels |->
                    IF p \in Pinned
                    THEN [visible |-> TRUE, before |-> TRUE, collapsed |-> TRUE,
                          height |-> HeaderHeight, expanded |-> BarHeight, y |-> 0]
                    ELSE [visible |-> p \notin Closable, before |-> TRUE, collapsed |-> FALSE,
                          height |-> Begun, expanded |-> Begun, y |-> 0]]
    /\ configMode = FALSE /\ cell \in CellHeights /\ calm = 0 /\ deeds = 0
    /\ log = [rows |-> 0, offset |-> 0, moved |-> FALSE]

-----------------------------------------------------------------------------
(* A frame.  By the time it takes, a height covers half of the way to its  *)
(* target, all of it, or overshoots; the last bit is taken at once.        *)

Approach(h, target, halves) ==
    LET near == h + ((target - h) * halves) \div 2
    IN IF near - target \in -1 .. 1 THEN target ELSE near

TargetHeight(f) == IF f.collapsed /\ ~configMode THEN HeaderHeight ELSE f.expanded

SetSize(f, height) ==
    [f EXCEPT !.expanded = height, !.height = IF configMode THEN height ELSE @]

UpdatePanel(f, halves) ==
    IF f.visible THEN [f EXCEPT !.height = Approach(@, TargetHeight(f), halves)] ELSE f

\* lockedY of WorldControlUI::update.
Lock(f) == IF f.visible THEN [f EXCEPT !.y = GridRows * cell - f.height] ELSE f

AvailableHeight(expanded) == expanded - HeaderHeight - 4
MaxScroll(rows, expanded) == Max({0, Pitch * rows - 1 - AvailableHeight(expanded)})
ClampScroll(offset, rows, expanded) == Max({0, Min({offset, MaxScroll(rows, expanded)})})
ScrollToBottom(rows) == [rows |-> rows, offset |-> MaxScroll(rows, frames[Log].expanded), moved |-> FALSE]

\* UIGridManager::update goes through the panels in the order of the list.
Frame(halves) ==
    LET placed(f, p) == [f EXCEPT !.y = IF IsRoot(p) THEN Stood[p].y * cell ELSE @]
        turn(f, p) == IF p \in Pinned THEN Lock(UpdatePanel(placed(f, p), halves))
                      ELSE UpdatePanel(SetSize(placed(f, p), Stood[p].h * cell), halves)
        update(all, p) ==
            LET f == turn(all[p], p)
            IN [q \in Panels |-> CASE q = p -> f
                                   [] q = NextPanel(p) -> [all[q] EXCEPT !.y = f.y + f.height + Gap(p) * cell]
                                   [] OTHER -> all[q]]
    IN /\ frames' = FoldLeft(update, frames, [p \in Panels |-> p])
       /\ log' = [log EXCEPT !.offset = ClampScroll(@, log.rows, frames'[Log].expanded),
                             !.moved = @ \/ frames'[Log].expanded < frames[Log].expanded]
       /\ calm' = IF \E p \in Panels : frames'[p].height # frames[p].height
                  THEN 0 ELSE Min({calm + 1, Links})
       /\ UNCHANGED <<configMode, cell, deeds>>

-----------------------------------------------------------------------------
(* What happens to them.                                                   *)

Deed == deeds < MaxDeeds /\ deeds' = deeds + 1 /\ calm' = 0

\* By the header, World control by its button.
ToggleCollapsed(p) ==
    /\ ~configMode /\ frames[p].visible
    /\ frames' = [frames EXCEPT ![p].collapsed = ~@]
    /\ Deed /\ UNCHANGED <<configMode, log, cell>>

\* A click on its tile or its player.
OpenPanel(p) ==
    /\ ~configMode /\ frames' = [frames EXCEPT ![p].visible = TRUE]
    /\ Deed /\ UNCHANGED <<configMode, log, cell>>

\* The cross is in the header, which folds or unfolds the panel at the same release.
ClosePanel(p) ==
    /\ ~configMode /\ frames[p].visible
    /\ frames' = [frames EXCEPT ![p].visible = FALSE, ![p].collapsed = ~@]
    /\ Deed /\ UNCHANGED <<configMode, log, cell>>

\* World control unfolds at the update of the same frame.
PanelsEnterConfig ==
    /\ ~configMode /\ configMode' = TRUE
    /\ frames' = [p \in Panels |-> [frames[p] EXCEPT !.visible = TRUE, !.before = frames[p].visible,
                                                     !.collapsed = FALSE]]
    /\ Deed /\ UNCHANGED <<log, cell>>

PanelsLeaveConfig ==
    /\ configMode /\ configMode' = FALSE
    /\ frames' = [p \in Panels |-> [frames[p] EXCEPT !.visible = frames[p].before]]
    /\ Deed /\ UNCHANGED <<log, cell>>

ResizeWindow(c) == cell # c /\ cell' = c /\ Deed /\ UNCHANGED <<frames, configMode, log>>

Scroll(notches) ==
    /\ ~configMode /\ frames[Log].visible /\ ~frames[Log].collapsed
    /\ log' = [log EXCEPT !.offset = ClampScroll(@ - notches * ScrollSpeed, log.rows, frames[Log].expanded),
                          !.moved = TRUE]
    /\ Deed /\ UNCHANGED <<frames, configMode, cell>>

\* EventLogUI::addLogLine: beyond MaxLogs the oldest goes; then scrollToBottom.
NewRow ==
    LET rows == Min({log.rows + 1, MaxRows})
    IN /\ log' = ScrollToBottom(rows)
       /\ Deed /\ UNCHANGED <<frames, configMode, cell>>

StackNext ==
    \/ \E halves \in 1 .. 3 : Frame(halves)
    \/ \E p \in Panels : ToggleCollapsed(p)
    \/ \E p \in Closable : OpenPanel(p) \/ ClosePanel(p)
    \/ PanelsEnterConfig \/ PanelsLeaveConfig \/ NewRow
    \/ \E c \in CellHeights : ResizeWindow(c)
    \/ \E notches \in {-1, 1} : Scroll(notches)

-----------------------------------------------------------------------------
(* Properties.                                                             *)

\* No World control is the panel itself, or stands higher in the column that starts where
\* it does: what is linked under World control, or under that, is drawn by nobody and stays
\* where it happens to be.
Stacked(p) == \A w \in Pinned : w # p /\ ~(Stood[w].x = Stood[p].x /\ Stood[w].y < Stood[p].y)

\* However the list orders the panels, a frame for each link after the heights have come to
\* rest every panel in sight has its height and stands where its stack puts it: at its place
\* on the grid, drawn up only by the folded panels above it.  World control stands at the
\* bottom of the screen wherever the grid has it, though not if it is linked under a panel
\* later in the list, which draws it along after it took its place; and a panel it heads has
\* no place of its own.
PanelsSettle ==
    LET drawnUp[p \in Panels] ==
            IF IsRoot(p) THEN 0
            ELSE LET top == Max(Tops(p))
                 IN drawnUp[top] + frames[top].expanded - TargetHeight(frames[top])
    IN calm = Links =>
          \A p \in Panels : frames[p].visible =>
              /\ frames[p].height = TargetHeight(frames[p])
              /\ Stacked(p) => frames[p].y = Stood[p].y * cell - drawnUp[p]
              /\ p \in Pinned /\ (\A t \in Tops(p) : t < p) =>
                    frames[p].y = GridRows * cell - frames[p].height

\* A row's place below the top of the list; it is drawn only if it reaches into the panel.
RowAt(i)     == Pitch * (i - 1) - log.offset
RowInside(i) == RowAt(i) + 4 > 0 /\ RowAt(i) < AvailableHeight(frames[Log].expanded)

\* The newest row is in sight until the user scrolls or the panel shrinks, and the list is
\* never scrolled past its ends.
LogInSight ==
    /\ log.rows > 0 /\ ~log.moved => RowInside(log.rows)
    /\ RowAt(1) <= 0
    /\ log.offset <= MaxScroll(log.rows, frames[Log].expanded)

\* The arrangement is sound, and the panels come to stand as it says.
LayoutIsSound == ArrangementHolds /\ PanelsSettle /\ LogInSight

=============================================================================
