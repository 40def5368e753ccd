-------------------------------- MODULE Grid --------------------------------
(***************************************************************************)
(* The dashboard of a device (DashboardGrid.tsx, its page and the registry *)
(* of tiles): tiles at explicit cells, dragged and resized by a pointer.   *)
(*                                                                         *)
(* Every move of the pointer recomputes the layout from the one at the     *)
(* start of the gesture: the tile under the pointer goes where the pointer *)
(* is, and the tiles it would cover are pushed down.  There is one         *)
(* pointer; the buttons are not used while it holds a tile.                *)
(***************************************************************************)
EXTENDS Integers, FiniteSets, Sequences, FiniteSetsExt

CONSTANTS
  Tile,      \* types of tiles; a dashboard has at most one of each
  First,     \* the tile of the default layout
  Cols,      \* GRID_COLS
  MaxRows,   \* MAX_ROWS
  ScanRows,  \* rows that findFreeCell looks at
  LastRow,   \* bound: no tile begins below this row
  MinSize,   \* Tile -> <<minW, minH>>
  DefSize,   \* Tile -> <<defaultW, defaultH>>
  Legacy     \* layouts of an older version: sequences of <<tile, w, h>>

Sizes(t) == (MinSize[t][1]..Cols) \X (MinSize[t][2]..MaxRows)

ASSUME SizeAssumption ==
  /\ Cols \in Nat /\ MaxRows \in Nat
  /\ IsFiniteSet(Tile) /\ First \in Tile
  /\ \A t \in Tile : /\ MinSize[t] \in (1..Cols) \X (1..MaxRows)
                     /\ DefSize[t] \in Sizes(t)
\* A tile blocks less than 2 * MaxRows rows for another one.
ASSUME ScanAssumption ==
  /\ ScanRows \in Nat /\ LastRow \in Nat
  /\ ScanRows > (Cardinality(Tile) - 1) * (2 * MaxRows - 1)
ASSUME LegacyAssumption ==
  \A s \in Legacy : /\ s \in Seq(Tile \X Nat \X Nat)
                    /\ \A i \in DOMAIN s : <<s[i][2], s[i][3]>> \in Sizes(s[i][1])
                    /\ \A i, j \in DOMAIN s : s[i][1] = s[j][1] => i = j

VARIABLES
  tiles,    \* the layout: a function from the tiles shown to their boxes
  editing,  \* the dashboard is in edit mode
  gesture,  \* what the pointer does, to which tile, and what it asks for
  base      \* the layout at the start of the gesture

vars == <<tiles, editing, gesture, base>>

Box == [x : Nat, y : Nat, w : Nat, h : Nat]
NoTiles == [t \in {} |-> [x |-> 0, y |-> 0, w |-> 1, h |-> 1]]
NoGesture == [kind |-> "none", tile |-> First, at |-> <<0, 0>>]

Clamp(v, lo, hi) == Max({lo, Min({hi, v})})

-----------------------------------------------------------------------------
(***************************************************************************)
(* The layout                                                              *)
(***************************************************************************)

Collides(a, b) ==
  /\ a.x < b.x + b.w /\ a.x + a.w > b.x
  /\ a.y < b.y + b.h /\ a.y + a.h > b.y

Clear(placed, box) == \A t \in DOMAIN placed : ~Collides(placed[t], box)

\* Cells are scanned, and tiles sorted, from top to bottom and left to right.
Before(c, d) == c[2] < d[2] \/ (c[2] = d[2] /\ c[1] <= d[1])

Corner(box) == <<box.x, box.y>>

\* The first free cell.
FindFreeCell(placed, w, h) ==
  LET free == {c \in (0..(Cols - w)) \X (0..(ScanRows - 1)) :
                 Clear(placed, [x |-> c[1], y |-> c[2], w |-> w, h |-> h])}
  IN IF free = {} THEN <<0, 0>> ELSE CHOOSE c \in free : \A d \in free : Before(c, d)

\* The layout with one tile at a new place.
Put(placed, t, box) ==
  [s \in DOMAIN placed \union {t} |-> IF s = t THEN box ELSE placed[s]]

With(placed, t, w, h) ==
  LET c == FindFreeCell(placed, w, h)
  IN Put(placed, t, [x |-> c[1], y |-> c[2], w |-> w, h |-> h])

\* The tiles of an older layout, in its order.
PackTiles(old) ==
  LET packed[i \in 0..Len(old)] ==
        IF i = 0 THEN NoTiles
        ELSE With(packed[i - 1], old[i][1], Clamp(old[i][2], 1, Cols), Max({1, old[i][3]}))
  IN packed[Len(old)]

DefaultTiles ==
  Put(NoTiles, First, [x |-> 0, y |-> 0, w |-> DefSize[First][1], h |-> DefSize[First][2]])

\* Mutant: a tile is pushed below everything that is there.
PushBelowAll(placed, box) ==
  IF Clear(placed, box) THEN box
  ELSE [box EXCEPT !.y = Max({box.y} \union {placed[t].y + placed[t].h : t \in DOMAIN placed})]

\* A tile goes down row by row until it is clear of those that are placed.
PushDown(placed, box) ==
  LET rows == box.y..Max({box.y} \union {placed[t].y + placed[t].h : t \in DOMAIN placed})
  IN [box EXCEPT !.y = Min({y \in rows : Clear(placed, [box EXCEPT !.y = y])})]

\* The first of some tiles.
FirstOf(layout, S) ==
  CHOOSE s \in S : \A t \in S : Before(Corner(layout[s]), Corner(layout[t]))

\* The next tile of the layout is placed, below those it would cover.
PlaceNext(layout, placed) ==
  LET t == FirstOf(layout, DOMAIN layout \ DOMAIN placed)
  IN Put(placed, t, PushDown(placed, layout[t]))

\* The held tile stays where it is; the others follow in their order and give way.
ResolveLayout(layout, held) ==
  LET placed[i \in 0..Cardinality(DOMAIN layout \ {held})] ==
        IF i = 0 THEN Put(NoTiles, held, layout[held]) ELSE PlaceNext(layout, placed[i - 1])
  IN placed[Cardinality(DOMAIN layout \ {held})]

-----------------------------------------------------------------------------
(***************************************************************************)
(* The page and the pointer                                                *)
(***************************************************************************)

\* Nothing stored, or a layout without positions.
Init ==
  /\ tiles \in {DefaultTiles} \union {PackTiles(old) : old \in Legacy}
  /\ editing = FALSE
  /\ gesture = NoGesture
  /\ base = NoTiles

ToggleEdit ==
  /\ gesture = NoGesture
  /\ editing' = ~editing
  /\ UNCHANGED <<tiles, gesture, base>>

AddTile(t) ==
  /\ editing
  /\ gesture = NoGesture
  /\ t \notin DOMAIN tiles
  /\ tiles' = With(tiles, t, DefSize[t][1], DefSize[t][2])
  /\ UNCHANGED <<editing, gesture, base>>

RemoveTile(t) ==
  /\ editing
  /\ gesture = NoGesture
  /\ t \in DOMAIN tiles
  /\ tiles' = [s \in DOMAIN tiles \ {t} |-> tiles[s]]
  /\ UNCHANGED <<editing, gesture, base>>

\* The layout is stored with every change; an empty one counts as none.
Reload ==
  /\ tiles' = IF DOMAIN tiles = {} THEN DefaultTiles ELSE tiles
  /\ editing' = FALSE
  /\ gesture' = NoGesture
  /\ base' = NoTiles

\* The pointer goes down on a tile, or on the handle in its corner.
Grab(t, kind) ==
  /\ editing
  /\ gesture = NoGesture
  /\ t \in DOMAIN tiles
  /\ gesture' = [kind |-> kind, tile |-> t,
                 at |-> IF kind = "drag" THEN Corner(tiles[t])
                        ELSE <<tiles[t].w, tiles[t].h>>]
  /\ base' = tiles
  /\ UNCHANGED <<tiles, editing>>

Moved(box, x, y) ==
  [box EXCEPT !.x = Clamp(x, 0, Cols - box.w), !.y = Clamp(y, 0, MaxRows)]

\* Mutant: the next layout is computed from the one on the screen.
OnTileMoveCascades(x, y) ==
  /\ gesture.kind = "drag"
  /\ gesture' = [gesture EXCEPT !.at = <<x, y>>]
  /\ LET t == gesture.tile IN
       tiles' = ResolveLayout(Put(tiles, t, Moved(tiles[t], x, y)), t)
  /\ UNCHANGED <<editing, base>>

\* The pointer asks for a cell; a column left of the first counts as the first.
OnTileMove(x, y) ==
  /\ gesture.kind = "drag"
  /\ gesture' = [gesture EXCEPT !.at = <<x, y>>]
  /\ LET t == gesture.tile IN
       tiles' = ResolveLayout(Put(base, t, Moved(base[t], x, y)), t)
  /\ UNCHANGED <<editing, base>>

\* Mutant: the width is not limited by the column the tile starts in.
ResizedPastEdge(t, box, w, h) ==
  [box EXCEPT !.w = Clamp(w, MinSize[t][1], Cols), !.h = Clamp(h, MinSize[t][2], MaxRows)]

Resized(t, box, w, h) ==
  [box EXCEPT !.w = Clamp(w, MinSize[t][1], Cols - box.x),
              !.h = Clamp(h, MinSize[t][2], MaxRows)]

\* The pointer asks for a size.
OnResizeMove(w, h) ==
  /\ gesture.kind = "resize"
  /\ gesture' = [gesture EXCEPT !.at = <<w, h>>]
  /\ LET t == gesture.tile IN
       tiles' = ResolveLayout(Put(base, t, Resized(t, base[t], w, h)), t)
  /\ UNCHANGED <<editing, base>>

Release ==
  /\ gesture # NoGesture
  /\ gesture' = NoGesture
  /\ base' = NoTiles
  /\ UNCHANGED <<tiles, editing>>

\* Two tiles side by side, resized in turn, push each other down for ever.
InBounds(layout) == \A t \in DOMAIN layout : layout[t].y <= LastRow

Next ==
  \/ ToggleEdit \/ Reload \/ Release
  \/ \E t \in Tile : AddTile(t) \/ RemoveTile(t) \/ Grab(t, "drag") \/ Grab(t, "resize")
  \/ \E x \in 0..Cols, y \in 0..LastRow : OnTileMove(x, y) /\ InBounds(tiles')
  \/ \E w \in 0..Cols, h \in 0..MaxRows : OnResizeMove(w, h) /\ InBounds(tiles')

Spec == Init /\ [][Next]_vars

-----------------------------------------------------------------------------
(***************************************************************************)
(* Properties                                                              *)
(***************************************************************************)

Cells(box) == (box.x..(box.x + box.w - 1)) \X (box.y..(box.y + box.h - 1))

\* Whatever is added, dragged, resized and pushed around, no two tiles share a
\* cell and none reaches over the edge of the grid.
TilesFit ==
  /\ \A s, t \in DOMAIN tiles : s # t => Cells(tiles[s]) \intersect Cells(tiles[t]) = {}
  /\ \A t \in DOMAIN tiles : tiles[t].x + tiles[t].w <= Cols

\* The pointer is where it took hold of the tile.
AtHome ==
  LET box == base[gesture.tile] IN
    \/ gesture.kind = "drag" /\ gesture.at = Corner(box)
    \/ gesture.kind = "resize" /\ gesture.at = <<box.w, box.h>>

\* Moving the cursor around never cascades tiles permanently: a pointer that is
\* back at its start finds the layout of the start, if the tile is within the rows
\* that a drag can reach.
NearHomeRestores ==
  gesture # NoGesture /\ AtHome /\ base[gesture.tile].y <= MaxRows => tiles = base

\* A gesture moves no other tile sideways or up, and none further down than the
\* tiles above it force it to go.
PushedNoFurther ==
  gesture # NoGesture => \A t \in DOMAIN tiles \ {gesture.tile} :
    /\ tiles[t].x = base[t].x /\ tiles[t].y >= base[t].y
    /\ tiles[t].y > base[t].y => \E s \in DOMAIN tiles \ {t} :
         Cells(tiles[s]) \intersect Cells([tiles[t] EXCEPT !.y = @ - 1]) # {}
=============================================================================
