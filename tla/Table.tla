-------------------------------- MODULE Table --------------------------------
(***************************************************************************)
(* The columns of one table of the dashboard (DataTable): their order,     *)
(* their widths and which of them are hidden, as they are changed by       *)
(* dragging, resizing and the Columns menu, saved in the browser and       *)
(* loaded again.  The table may be given other columns while it stays      *)
(* mounted, as NatRulesView does when a tab is switched.                   *)
(*                                                                         *)
(* There is one hand: while it holds a border between two columns, nothing *)
(* else is clicked.                                                        *)
(***************************************************************************)
EXTENDS Integers, Sequences, SequencesExt, Functions

CONSTANTS
  ColumnSets,  \* the columns the table is given, one sequence of keys per tab
  MinWidth,    \* minWidth of each column
  Natural,     \* the width of each column in a table without a layout
  Unseeded,    \* the width of a column that was hidden when widths were measured
  MaxMove      \* bound: how far the pointer moves in a gesture

Cols == UNION {ToSet(ColumnSets[i]) : i \in DOMAIN ColumnSets}
Views == DOMAIN ColumnSets

ASSUME TableAssumption ==
  /\ \A v \in Views : /\ ColumnSets[v] \in Seq(Cols) /\ IsInjective(ColumnSets[v])
                       /\ Len(ColumnSets[v]) > 0
  /\ MinWidth \in [Cols -> Nat] /\ Natural \in [Cols -> Nat] /\ Unseeded \in Nat
  /\ MaxMove \in Nat

VARIABLES
  mounted,   \* the table is on the screen
  view,      \* the tab, that is, the columns it is given
  order,     \* order: keys, also of columns it is not given now
  widths,    \* widths: of the columns that have one
  hidden,    \* hidden: keys, also of columns it is not given now
  grip,      \* resizeRef: the border that is held
  store,     \* local storage: the layout under the name of each column set
  switched   \* history: the table has been given other columns

vars == <<mounted, view, order, widths, hidden, grip, store, switched>>

NoGrip == [left |-> "none"]
NoLayout == [order |-> <<>>, widths |-> <<>>, hidden |-> {}]

-----------------------------------------------------------------------------
(***************************************************************************)
(* What is derived                                                         *)
(***************************************************************************)

\* filter: the keys of s that are in S, in their order.
Kept(s, S) ==
  LET kept[i \in 0..Len(s)] ==
        IF i = 0 THEN <<>>
        ELSE IF s[i] \in S THEN Append(kept[i - 1], s[i]) ELSE kept[i - 1]
  IN kept[Len(s)]

\* Mutant: columns that the stored order does not have are not shown.
StoredKeysOnly(v, o) == Kept(o, ToSet(ColumnSets[v]))

\* The stored order without what is unknown, then what it does not have.
OrderedKeys(v, o) == Kept(o, ToSet(ColumnSets[v])) \o Kept(ColumnSets[v], Cols \ ToSet(o))

VisibleOf(v, o, h) == Kept(OrderedKeys(v, o), Cols \ h)
visibleCols == VisibleOf(view, order, hidden)

\* A width that was never measured is that of a fixed layout.
colWidth(c) == IF c \in DOMAIN widths THEN widths[c] ELSE Unseeded

\* Mutant: the effect that saves does not depend on `hidden`.
SaveOrderAndWidths(v, o, w, h) ==
  [store EXCEPT ![ColumnSets[v]] =
     [order |-> OrderedKeys(v, o), widths |-> w, hidden |-> @.hidden]]

\* What the effect after every change of the layout saves.
Saved(v, o, w, h) ==
  [store EXCEPT ![ColumnSets[v]] = [order |-> OrderedKeys(v, o), widths |-> w, hidden |-> h]]

\* A layout without widths is measured as it is on the screen.
Seeded(v, o, w, h) ==
  IF DOMAIN w # {} THEN w
  ELSE [c \in ToSet(VisibleOf(v, o, h)) |-> Natural[c]]

Layout(v, o, w, h) ==
  /\ order' = o
  /\ widths' = Seeded(v, o, w, h)
  /\ hidden' = h
  /\ store' = Saved(v, o, Seeded(v, o, w, h), h)

-----------------------------------------------------------------------------
(***************************************************************************)
(* Mounting and the tabs                                                   *)
(***************************************************************************)

\* A table starts with the layout that is stored for its columns, if there is one.
MountWith(v) ==
  LET s == store[ColumnSets[v]] IN
    IF s = NoLayout THEN Layout(v, ColumnSets[v], <<>>, {})
    ELSE Layout(v, s.order, s.widths, s.hidden)

Mount ==
  /\ ~mounted
  /\ mounted' = TRUE
  /\ MountWith(view)
  /\ UNCHANGED <<view, grip, switched>>

\* Another page is opened, or this one is loaded again.
Unmount ==
  /\ mounted /\ grip = NoGrip
  /\ mounted' = FALSE
  /\ UNCHANGED <<view, order, widths, hidden, grip, store, switched>>

\* The same table is given the columns of another tab and keeps its state.
SwitchView(v) ==
  /\ mounted /\ grip = NoGrip
  /\ v # view
  /\ view' = v
  /\ store' = Saved(v, order, widths, hidden)
  /\ switched' = TRUE
  /\ UNCHANGED <<mounted, order, widths, hidden, grip>>

-----------------------------------------------------------------------------
(***************************************************************************)
(* Resizing                                                                *)
(***************************************************************************)

\* Every header but the last has a border to its right neighbour.
ResizeDown(i) ==
  /\ mounted /\ grip = NoGrip
  /\ i + 1 \in DOMAIN visibleCols
  /\ grip' = [left |-> visibleCols[i], right |-> visibleCols[i + 1],
              startLeft |-> colWidth(visibleCols[i]), startRight |-> colWidth(visibleCols[i + 1])]
  /\ UNCHANGED <<mounted, view, order, widths, hidden, store, switched>>

\* Mutant: the right column is held to the minimum of the left one.
ClampLeftOnly(g, delta) ==
  LET d == IF delta < MinWidth[g.left] - g.startLeft THEN MinWidth[g.left] - g.startLeft ELSE delta IN
    IF d > g.startRight - MinWidth[g.left] THEN g.startRight - MinWidth[g.left] ELSE d

\* The pointer is held back where the left column has its minimum, and then where the
\* right one has.
Clamp(g, delta) ==
  LET d == IF delta < MinWidth[g.left] - g.startLeft THEN MinWidth[g.left] - g.startLeft ELSE delta IN
    IF d > g.startRight - MinWidth[g.right] THEN g.startRight - MinWidth[g.right] ELSE d

\* Mutant: the right column keeps its width.
PairOneSided(w, g, d) ==
  [c \in DOMAIN w \union {g.left, g.right} |->
     IF c = g.left THEN g.startLeft + d ELSE IF c = g.right THEN colWidth(c) ELSE w[c]]

\* What one column gains its neighbour loses.
Pair(w, g, d) ==
  [c \in DOMAIN w \union {g.left, g.right} |->
     IF c = g.left THEN g.startLeft + d ELSE IF c = g.right THEN g.startRight - d ELSE w[c]]

ResizeMove(delta) ==
  /\ grip # NoGrip
  /\ Layout(view, order, Pair(widths, grip, Clamp(grip, delta)), hidden)
  /\ UNCHANGED <<mounted, view, grip, switched>>

ResizeUp ==
  /\ grip # NoGrip
  /\ grip' = NoGrip
  /\ UNCHANGED <<mounted, view, order, widths, hidden, store, switched>>

-----------------------------------------------------------------------------
(***************************************************************************)
(* Order and visibility                                                    *)
(***************************************************************************)

\* A header is dropped on another one and goes before it.
reorderColumn(from, to) ==
  /\ mounted /\ grip = NoGrip
  /\ {from, to} \subseteq ToSet(visibleCols) /\ from # to
  /\ LET rest == Kept(OrderedKeys(view, order), Cols \ {from})
         at == CHOOSE i \in DOMAIN rest : rest[i] = to IN
       Layout(view, InsertAt(rest, at, from), widths, hidden)
  /\ UNCHANGED <<mounted, view, grip, switched>>

\* Mutant: the last visible column can be hidden.
toggleAnyColumn(c) ==
  /\ mounted /\ grip = NoGrip
  /\ c \in ToSet(ColumnSets[view])
  /\ Layout(view, order, widths, IF c \in hidden THEN hidden \ {c} ELSE hidden \union {c})
  /\ UNCHANGED <<mounted, view, grip, switched>>

\* The Columns menu: the last visible column cannot be hidden.
toggleColumn(c) ==
  /\ mounted /\ grip = NoGrip
  /\ c \in ToSet(ColumnSets[view])
  /\ c \in hidden \/ Len(visibleCols) > 1
  /\ Layout(view, order, widths, IF c \in hidden THEN hidden \ {c} ELSE hidden \union {c})
  /\ UNCHANGED <<mounted, view, grip, switched>>

resetLayout ==
  /\ mounted /\ grip = NoGrip
  /\ Layout(view, ColumnSets[view], <<>>, {})
  /\ UNCHANGED <<mounted, view, grip, switched>>

-----------------------------------------------------------------------------
Init ==
  /\ mounted = FALSE
  /\ view \in Views
  /\ order = <<>> /\ widths = <<>> /\ hidden = {}
  /\ grip = NoGrip
  /\ store = [s \in Range(ColumnSets) |-> NoLayout]
  /\ switched = FALSE

Next ==
  \/ Mount \/ Unmount
  \/ \E v \in Views : SwitchView(v)
  \/ \E i \in 1..(Len(visibleCols) - 1) : ResizeDown(i)
  \/ \E delta \in -MaxMove..MaxMove : ResizeMove(delta)
  \/ ResizeUp
  \/ \E from, to \in Cols : reorderColumn(from, to)
  \/ \E c \in Cols : toggleColumn(c)
  \/ resetLayout

Spec == Init /\ [][Next]_vars

-----------------------------------------------------------------------------
(***************************************************************************)
(* Properties                                                              *)
(***************************************************************************)

\* The layout names columns, every column once; the headers on the screen are the
\* columns that are not hidden.
TypeOK ==
  /\ mounted \in BOOLEAN /\ switched \in BOOLEAN
  /\ view \in Views
  /\ ToSet(order) \subseteq Cols /\ IsInjective(order)
  /\ DOMAIN widths \subseteq Cols /\ Range(widths) \subseteq Int
  /\ hidden \subseteq Cols
  /\ mounted => /\ IsInjective(visibleCols)
                /\ ToSet(visibleCols) = ToSet(ColumnSets[view]) \ hidden

\* A gesture moves width between two columns and takes none from the table, and
\* where the two have room for both minima, it keeps both.
PairFits ==
  grip # NoGrip =>
    LET total == grip.startLeft + grip.startRight IN
      /\ colWidth(grip.left) + colWidth(grip.right) = total
      /\ total >= MinWidth[grip.left] + MinWidth[grip.right]
         /\ grip.startLeft >= MinWidth[grip.left] /\ grip.startRight >= MinWidth[grip.right]
         => /\ colWidth(grip.left) >= MinWidth[grip.left]
            /\ colWidth(grip.right) >= MinWidth[grip.right]

\* No sequence of gestures makes a column narrower than its minimum, if no column
\* starts narrower.
MinimumIsKept ==
  (\A c \in Cols : Natural[c] >= MinWidth[c] /\ Unseeded >= MinWidth[c]) =>
    \A c \in DOMAIN widths : widths[c] >= MinWidth[c]

\* A table always shows a column, unless it was given others while some were hidden.
AColumnIsVisible == mounted /\ ~switched => visibleCols # <<>>

\* A table looks after a reload as it looked before.
ReloadChangesNothing ==
  [][(~mounted /\ mounted' /\ store[ColumnSets[view]] # NoLayout) =>
       /\ visibleCols' = visibleCols
       /\ \A c \in ToSet(visibleCols) : colWidth(c)' = colWidth(c)]_vars
=============================================================================
