---------------------------- MODULE Grid_proofs -----------------------------
(***************************************************************************)
(* Theorems about Grid, for every set of tiles and sizes, every number of  *)
(* columns and rows and whatever older layouts there are: tiles never      *)
(* cover one another, a pointer that is back at its start finds the layout *)
(* of the start, and no tile is pushed further than it has to be.          *)
(***************************************************************************)
EXTENDS Grid, WellFoundedInduction, FiniteSetTheorems, TLAPS

-----------------------------------------------------------------------------
(***************************************************************************)
(* Induction                                                               *)
(***************************************************************************)

LEMMA LeastBy ==
  ASSUME NEW R, \A x, y \in Nat : y < x => <<y, x>> \in R,
         NEW T, T \subseteq Nat, \E x \in T : \A y \in T : ~(<<y, x>> \in R)
  PROVE  \E x \in T : \A y \in T : x <= y
<1>1. PICK x \in T : \A y \in T : ~(<<y, x>> \in R)
  OBVIOUS
<1>2. ASSUME NEW y \in T PROVE x <= y
  <2>1. x \in Nat /\ y \in Nat
    OBVIOUS
  <2>2. ~(y < x)
    BY <1>1, <2>1
  <2> QED
    BY <2>1, <2>2
<1> QED
  BY <1>2

\* A set of numbers that is not empty has a least one.
LEMMA Least ==
  ASSUME NEW T, T \subseteq Nat, T # {}
  PROVE  \E x \in T : \A y \in T : x <= y
<1>1. \E x \in T : \A y \in T : ~(<<y, x>> \in OpToRel(<, Nat))
  BY NatLessThanWellFounded, WFMin, Zenon
<1>2. \A x, y \in Nat : y < x => <<y, x>> \in OpToRel(<, Nat)
  BY DEF OpToRel
<1> QED
  BY <1>1, <1>2, LeastBy, Zenon

\* A set that has 0 and with every number below n the next one has all of 0..n.
LEMMA UpTo ==
  ASSUME NEW n \in Nat, NEW H, 0 \in H, \A i \in 1..n : i - 1 \in H => i \in H
  PROVE  \A i \in 0..n : i \in H
<1> DEFINE T == {i \in 0..n : i \notin H}
<1> SUFFICES ASSUME T # {} PROVE FALSE
  OBVIOUS
<1>1. T \subseteq Nat
  OBVIOUS
<1>2. PICK x \in T : \A y \in T : x <= y
  BY <1>1, Least
<1>3. x \in 1..n /\ x \notin H
  BY <1>2
<1>4. x - 1 \in 0..n /\ ~(x <= x - 1)
  BY <1>3
<1>5. x - 1 \in H
  BY <1>2, <1>4
<1> QED
  BY <1>3, <1>5

\* Sequences whose elements are all different.
\* A finite set of numbers has a bound.
LEMMA Bounded ==
  ASSUME NEW T, T \subseteq Nat, IsFiniteSet(T)
  PROVE  \E b \in Nat : \A x \in T : x <= b
<1>1. PICK n \in Nat : ExistsBijection(1..n, T)
  BY FS_NatBijection
<1>2. PICK f \in [1..n -> T] : \A x \in T : \E i \in 1..n : f[i] = x
  BY <1>1 DEF ExistsBijection, Bijection, Injection, Surjection
<1> DEFINE H == {i \in 0..n : \E b \in Nat : \A j \in 1..i : f[j] <= b}
<1>3. 0 \in H
  OBVIOUS
<1>4. ASSUME NEW i \in 1..n, i - 1 \in H PROVE i \in H
  <2>1. PICK b \in Nat : \A j \in 1..(i - 1) : f[j] <= b
    BY <1>4
  <2>2. f[i] \in Nat
    OBVIOUS
  <2> DEFINE c == IF f[i] <= b THEN b ELSE f[i]
  <2>3. c \in Nat /\ b <= c /\ f[i] <= c
    BY <2>2
  <2> HIDE DEF c
  <2>4. \A j \in 1..i : f[j] <= c
    <3>1. ASSUME NEW j \in 1..i PROVE f[j] <= c
      <4>1. f[j] \in Nat
        <5>1. j \in 1..n
          OBVIOUS
        <5>2. f[j] \in T
          BY <5>1
        <5> QED
          BY <5>2
      <4>2. j = i \/ j \in 1..(i - 1)
        OBVIOUS
      <4> QED
        BY <2>1, <2>3, <4>1, <4>2
    <3> QED
      BY <3>1
  <2> QED
    BY <2>3, <2>4
<1> HIDE DEF H
<1>5. n \in H
  BY <1>3, <1>4, UpTo
<1>6. PICK b \in Nat : \A j \in 1..n : f[j] <= b
  BY <1>5 DEF H
<1> QED
  BY <1>2, <1>6

\* Max and Min are what they say.
LEMMA MaxIs ==
  ASSUME NEW T, T \subseteq Nat, IsFiniteSet(T), T # {}
  PROVE  Max(T) \in T /\ \A x \in T : x <= Max(T)
<1> DEFINE B == {b \in Nat : \A x \in T : x <= b}
<1>1. B \subseteq Nat /\ B # {}
  BY Bounded
<1> HIDE DEF B
<1>2. PICK m \in B : \A b \in B : m <= b
  BY <1>1, Least
<1> USE DEF B
<1>3. m \in T
  <2>1. SUFFICES ASSUME m \notin T PROVE FALSE
    OBVIOUS
  <2>2. PICK x : x \in T
    OBVIOUS
  <2>3. m > 0 /\ m - 1 \in Nat
    BY <1>2, <2>1, <2>2
  <2>4. \A y \in T : y <= m - 1
    BY <1>2, <2>1, <2>3
  <2>5. m - 1 \in B
    BY <2>3, <2>4
  <2> QED
    BY <1>2, <2>3, <2>5
<1>4. \A x \in T : m >= x
  BY <1>2
<1>5. \E z \in T : \A x \in T : z >= x
  BY <1>3, <1>4
<1>6. Max(T) \in T /\ \A x \in T : Max(T) >= x
  BY <1>5, Zenon DEF Max
<1> QED
  BY <1>6

LEMMA MinIs ==
  ASSUME NEW T, T \subseteq Nat, T # {}
  PROVE  Min(T) \in T /\ \A x \in T : Min(T) <= x
<1>1. \E x \in T : \A y \in T : x <= y
  BY Least
<1> QED
  BY <1>1 DEF Min

\* A value that is in range is left alone, and another one brought into it.
LEMMA ClampIs ==
  ASSUME NEW v \in Nat, NEW lo \in Nat, NEW hi \in Nat, lo <= hi
  PROVE  Clamp(v, lo, hi) \in lo..hi /\ (v \in lo..hi => Clamp(v, lo, hi) = v)
<1> DEFINE m == Min({hi, v})
<1>2. m \in {hi, v} /\ m <= hi /\ m <= v
  BY MinIs
<1> HIDE DEF m
<1> DEFINE x == Max({lo, m})
<1>3. x \in {lo, m} /\ lo <= x /\ m <= x
  <2>1. IsFiniteSet({lo, m}) /\ {lo, m} \subseteq Nat
    <3>1. IsFiniteSet({lo})
      BY FS_Singleton, Zenon
    <3>2. IsFiniteSet({lo} \union {m})
      BY <3>1, FS_AddElement
    <3>3. {lo, m} = {lo} \union {m}
      OBVIOUS
    <3> QED
      BY <1>2, <3>2, <3>3
  <2> QED
    BY <2>1, MaxIs
<1>4. Clamp(v, lo, hi) = x
  BY DEF Clamp, m
<1> HIDE DEF x
<1> QED
  BY <1>2, <1>3, <1>4

\* Of some cells one is before all others.
LEMMA FirstExists ==
  ASSUME NEW C, C \subseteq Nat \X Nat, C # {}
  PROVE  \E c \in C : \A d \in C : Before(c, d)
<1> DEFINE Y == {c[2] : c \in C}
<1>1. Y \subseteq Nat /\ Y # {}
  OBVIOUS
<1> HIDE DEF Y
<1>2. PICK y \in Y : \A z \in Y : y <= z
  BY <1>1, Least
<1> DEFINE X == {x \in Nat : <<x, y>> \in C}
<1>3. X \subseteq Nat /\ X # {}
  BY <1>2 DEF Y
<1> HIDE DEF X
<1>4. PICK x \in X : \A z \in X : x <= z
  BY <1>3, Least
<1>5. <<x, y>> \in C /\ x \in Nat /\ y \in Nat
  BY <1>4 DEF X
<1>6. ASSUME NEW d \in C PROVE Before(<<x, y>>, d)
  <2>1. d[1] \in Nat /\ d[2] \in Nat /\ d = <<d[1], d[2]>>
    OBVIOUS
  <2>2. y <= d[2]
    BY <1>2 DEF Y
  <2>3. d[2] = y => x <= d[1]
    BY <1>4, <2>1 DEF X
  <2> QED
    BY <1>5, <2>1, <2>2, <2>3 DEF Before
<1> QED
  BY <1>5, <1>6

-----------------------------------------------------------------------------
(***************************************************************************)
(* Boxes                                                                   *)
(***************************************************************************)

\* A box that covers a cell.
Solid(b) == b \in Box /\ b.w > 0 /\ b.h > 0

\* A box in another row.
Lowered(b, y) == [b EXCEPT !.y = y]

LEMMA LoweredIs ==
  ASSUME NEW b, Solid(b), NEW y \in Nat
  PROVE  /\ Solid(Lowered(b, y))
         /\ Lowered(b, y).x = b.x /\ Lowered(b, y).y = y
         /\ Lowered(b, y).w = b.w /\ Lowered(b, y).h = b.h
         /\ (y = b.y => Lowered(b, y) = b)
  BY DEF Solid, Lowered, Box

\* Boxes collide when they share a cell.
LEMMA CollideIsShare ==
  ASSUME NEW a, NEW b, Solid(a), Solid(b)
  PROVE  Collides(a, b) <=> Cells(a) \intersect Cells(b) # {}
<1>1. /\ a.x \in Nat /\ a.y \in Nat /\ a.w \in Nat /\ a.h \in Nat /\ a.w > 0 /\ a.h > 0
      /\ b.x \in Nat /\ b.y \in Nat /\ b.w \in Nat /\ b.h \in Nat /\ b.w > 0 /\ b.h > 0
  BY DEF Solid, Box
<1>2. ASSUME Collides(a, b) PROVE Cells(a) \intersect Cells(b) # {}
  <2> DEFINE x == IF a.x <= b.x THEN b.x ELSE a.x
             y == IF a.y <= b.y THEN b.y ELSE a.y
  <2>1. x \in a.x..(a.x + a.w - 1) /\ x \in b.x..(b.x + b.w - 1)
    BY <1>1, <1>2 DEF Collides
  <2>2. y \in a.y..(a.y + a.h - 1) /\ y \in b.y..(b.y + b.h - 1)
    BY <1>1, <1>2 DEF Collides
  <2> HIDE DEF x, y
  <2>3. <<x, y>> \in Cells(a) /\ <<x, y>> \in Cells(b)
    BY <2>1, <2>2 DEF Cells
  <2> QED
    BY <2>3
<1>3. ASSUME NEW c \in Cells(a) \intersect Cells(b) PROVE Collides(a, b)
  <2>1. /\ c[1] \in a.x..(a.x + a.w - 1) /\ c[1] \in b.x..(b.x + b.w - 1)
        /\ c[2] \in a.y..(a.y + a.h - 1) /\ c[2] \in b.y..(b.y + b.h - 1)
    BY DEF Cells
  <2> QED
    BY <1>1, <2>1 DEF Collides
<1> QED
  BY <1>2, <1>3

LEMMA CollideBothWays ==
  ASSUME NEW a, NEW b, Solid(a), Solid(b)
  PROVE  Collides(a, b) <=> Collides(b, a)
  BY DEF Solid, Box, Collides

-----------------------------------------------------------------------------
(***************************************************************************)
(* Pushing down                                                            *)
(***************************************************************************)

\* A layout: tiles and the boxes they have.
Boxes(l) ==
  /\ DOMAIN l \subseteq Tile /\ l = [t \in DOMAIN l |-> l[t]]
  /\ \A t \in DOMAIN l : Solid(l[t])

\* The rows that PushDown looks at, and those of them that are free.
RowsFor(placed, box) ==
  box.y..Max({box.y} \union {placed[t].y + placed[t].h : t \in DOMAIN placed})
FreeRows(placed, box) == {y \in RowsFor(placed, box) : Clear(placed, Lowered(box, y))}

LEMMA RowIsFree ==
  ASSUME NEW P, Boxes(P), NEW box, Solid(box)
  PROVE  FreeRows(P, box) # {} /\ FreeRows(P, box) \subseteq Nat
         /\ \A y \in Nat : box.y <= y /\ (\E z \in FreeRows(P, box) : y <= z)
                            => y \in RowsFor(P, box)
<1> DEFINE E == {P[t].y + P[t].h : t \in DOMAIN P}
           T == {box.y} \union E
<1>1. box.y \in Nat /\ \A t \in DOMAIN P : P[t].y \in Nat /\ P[t].h \in Nat
  BY DEF Boxes, Solid, Box
<1>2. IsFiniteSet(DOMAIN P)
  BY SizeAssumption, FS_Subset DEF Boxes
<1>3. IsFiniteSet(E)
  <2> DEFINE f == [t \in DOMAIN P |-> P[t].y + P[t].h]
  <2>1. f \in Surjection(DOMAIN P, E)
    BY DEF Surjection
  <2> HIDE DEF f, E
  <2> QED
    BY <1>2, <2>1, FS_Surjection
<1>4. T \subseteq Nat /\ T # {} /\ box.y \in T
  BY <1>1
<1>5. IsFiniteSet(T)
  BY <1>3, FS_AddElement
<1>6. RowsFor(P, box) = box.y..Max(T)
  BY DEF RowsFor
<1>a. \A t \in DOMAIN P : P[t].y + P[t].h \in T
  OBVIOUS
<1> HIDE DEF E, T
<1> DEFINE m == Max(T)
<1>7. m \in Nat /\ box.y <= m /\ \A t \in DOMAIN P : P[t].y + P[t].h <= m
  BY <1>4, <1>5, <1>a, MaxIs
<1> HIDE DEF m
<1>8. RowsFor(P, box) = box.y..m
  BY <1>6 DEF m
<1>9. Clear(P, Lowered(box, m))
  <2>1. Lowered(box, m).y = m
    BY <1>7, LoweredIs
  <2> QED
    BY <1>1, <1>7, <2>1 DEF Clear, Collides
<1>10. m \in FreeRows(P, box)
  BY <1>1, <1>7, <1>8, <1>9 DEF FreeRows
<1> QED
  BY <1>1, <1>7, <1>8, <1>10 DEF FreeRows

\* A tile that is pushed down goes to the next row that is free, or stays.
LEMMA PushedDown ==
  ASSUME NEW P, Boxes(P), NEW box, Solid(box)
  PROVE  LET b == PushDown(P, box) IN
           /\ Solid(b) /\ b.x = box.x /\ b.w = box.w /\ b.h = box.h /\ box.y <= b.y
           /\ Clear(P, b)
           /\ Clear(P, box) => b = box
           /\ b.y > box.y => ~Clear(P, Lowered(b, b.y - 1))
<1> DEFINE y == Min(FreeRows(P, box))
           b == PushDown(P, box)
<1>1. b = Lowered(box, y)
  BY DEF PushDown, FreeRows, RowsFor, Lowered
<1>2. FreeRows(P, box) # {} /\ FreeRows(P, box) \subseteq Nat
  BY RowIsFree
<1>3. y \in FreeRows(P, box) /\ \A z \in FreeRows(P, box) : y <= z
  BY <1>2, MinIs
<1> HIDE DEF y, b
<1>4. box.y \in Nat /\ y \in Nat
  BY <1>2, <1>3 DEF Solid, Box
<1>5. /\ Solid(b) /\ b.x = box.x /\ b.w = box.w /\ b.h = box.h /\ b.y = y
      /\ y = box.y => b = box
  BY <1>1, <1>4, LoweredIs
<1>6. box.y <= y /\ Clear(P, b)
  <2>1. \A z \in RowsFor(P, box) : box.y <= z
    BY DEF RowsFor
  <2> QED
    BY <1>1, <1>3, <2>1 DEF FreeRows
<1>7. ASSUME NEW z \in Nat, box.y <= z, z < y PROVE ~Clear(P, Lowered(box, z))
  <2>1. z \in RowsFor(P, box)
    <3>1. z <= y
      BY <1>4, <1>7
    <3> QED
      BY <1>3, <1>7, <3>1, RowIsFree
  <2>2. z \notin FreeRows(P, box)
    BY <1>3, <1>4, <1>7
  <2> QED
    BY <2>1, <2>2 DEF FreeRows
<1>8. ASSUME Clear(P, box) PROVE b = box
  <2>1. Lowered(box, box.y) = box
    BY <1>4, LoweredIs
  <2>2. ~(box.y < y)
    BY <1>4, <1>7, <1>8, <2>1
  <2> QED
    BY <1>4, <1>5, <1>6, <2>2
<1>9. ASSUME b.y > box.y PROVE ~Clear(P, Lowered(b, b.y - 1))
  <2>1. y - 1 \in Nat /\ box.y <= y - 1 /\ y - 1 < y
    BY <1>4, <1>5, <1>9
  <2>2. ~Clear(P, Lowered(box, y - 1))
    BY <1>7, <2>1
  <2>3. Lowered(b, y - 1) = Lowered(box, y - 1)
    BY <1>1, <2>1 DEF Lowered, Solid, Box
  <2> QED
    BY <1>5, <2>2, <2>3
<1> QED
  BY <1>5, <1>6, <1>8, <1>9 DEF b

-----------------------------------------------------------------------------
(***************************************************************************)
(* A layout is resolved                                                    *)
(***************************************************************************)

LEMMA PutIs ==
  ASSUME NEW P, Boxes(P), NEW t \in Tile, NEW b, Solid(b)
  PROVE  Boxes(Put(P, t, b))
  BY DEF Boxes, Put

\* No two tiles collide.
Apart(l) == \A s, t \in DOMAIN l : s # t => ~Collides(l[s], l[t])

\* A tile that is clear of a layout can be added to it.
LEMMA PutApart ==
  ASSUME NEW P, Boxes(P), Apart(P), NEW t \in Tile, t \notin DOMAIN P,
         NEW b, Solid(b), Clear(P, b)
  PROVE  Apart(Put(P, t, b))
<1>1. /\ DOMAIN Put(P, t, b) = DOMAIN P \union {t} /\ Put(P, t, b)[t] = b
      /\ \A s \in DOMAIN P : Put(P, t, b)[s] = P[s]
  BY DEF Put
<1>2. \A s \in DOMAIN P : ~Collides(P[s], b) /\ ~Collides(b, P[s])
  BY CollideBothWays DEF Clear, Boxes
<1> QED
  BY <1>1, <1>2 DEF Apart

\* The first of some tiles is one of them.
LEMMA FirstIs ==
  ASSUME NEW l, Boxes(l), NEW S, S \subseteq DOMAIN l, S # {}
  PROVE  FirstOf(l, S) \in S
<1> DEFINE C == {Corner(l[s]) : s \in S}
<1>0. \A s \in S : Corner(l[s]) \in Nat \X Nat
  <2>1. \A s \in S : l[s].x \in Nat /\ l[s].y \in Nat
    BY DEF Boxes, Solid, Box
  <2> QED
    BY <2>1 DEF Corner
<1>1. C \subseteq Nat \X Nat /\ C # {}
  BY <1>0
<1> HIDE DEF C
<1>2. PICK c \in C : \A d \in C : Before(c, d)
  BY <1>1, FirstExists
<1>3. \E s \in S : \A t \in S : Before(Corner(l[s]), Corner(l[t]))
  BY <1>2 DEF C
<1> QED
  BY <1>3, Zenon DEF FirstOf

\* A tile of the result, as against the layout: in its column, where it was or
\* further down, and then only because of a tile that it would cover one row higher.
GivesWay(l, P, t) ==
  /\ P[t].x = l[t].x /\ P[t].w = l[t].w /\ P[t].h = l[t].h /\ l[t].y <= P[t].y
  /\ P[t].y > l[t].y => \E s \in DOMAIN P \ {t} : Collides(P[s], Lowered(P[t], P[t].y - 1))

\* The tiles that are placed: apart from each other, the held one where it is, the
\* others gave way, and all where they were if the layout was apart.
Settled(l, held, P) ==
  /\ Boxes(P) /\ Apart(P) /\ held \in DOMAIN P /\ DOMAIN P \subseteq DOMAIN l
  /\ P[held] = l[held]
  /\ \A t \in DOMAIN P \ {held} : GivesWay(l, P, t)
  /\ Apart(l) => \A t \in DOMAIN P : P[t] = l[t]

LEMMA SettledFirst ==
  ASSUME NEW l, Boxes(l), NEW held \in DOMAIN l
  PROVE  /\ Settled(l, held, Put(NoTiles, held, l[held]))
         /\ DOMAIN Put(NoTiles, held, l[held]) = {held}
<1> DEFINE P == Put(NoTiles, held, l[held])
<1>1. Boxes(NoTiles) /\ DOMAIN NoTiles = {}
  BY DEF Boxes, NoTiles
<1>2. held \in Tile /\ Solid(l[held])
  BY DEF Boxes
<1>3. Boxes(P) /\ DOMAIN P = {held} /\ P[held] = l[held]
  <2>1. Boxes(P)
    BY <1>1, <1>2, PutIs
  <2>2. DOMAIN P = DOMAIN NoTiles \union {held} /\ P[held] = l[held]
    BY DEF Put
  <2> HIDE DEF P
  <2> QED
    BY <1>1, <2>1, <2>2
<1> HIDE DEF P
<1>4. Settled(l, held, P)
  BY <1>3 DEF Settled, Apart
<1> QED
  BY <1>3, <1>4 DEF P

LEMMA SettledNext ==
  ASSUME NEW l, Boxes(l), NEW held \in DOMAIN l, NEW P, Settled(l, held, P),
         DOMAIN l \ DOMAIN P # {}
  PROVE  /\ Settled(l, held, PlaceNext(l, P))
         /\ \E t \in DOMAIN l \ DOMAIN P : DOMAIN PlaceNext(l, P) = DOMAIN P \union {t}
<1> DEFINE t == FirstOf(l, DOMAIN l \ DOMAIN P)
           b == PushDown(P, l[t])
           Q == Put(P, t, b)
<1>1. t \in DOMAIN l \ DOMAIN P
  BY FirstIs
<1>2. PlaceNext(l, P) = Q
  BY DEF PlaceNext
<1> HIDE DEF t
<1>3. Boxes(P) /\ Solid(l[t]) /\ t \in Tile
  BY <1>1 DEF Boxes, Settled
<1>4. /\ Solid(b) /\ b.x = l[t].x /\ b.w = l[t].w /\ b.h = l[t].h /\ l[t].y <= b.y
      /\ Clear(P, b)
      /\ Clear(P, l[t]) => b = l[t]
      /\ b.y > l[t].y => ~Clear(P, Lowered(b, b.y - 1))
  BY <1>3, PushedDown
<1> HIDE DEF b
<1>5. /\ Boxes(Q) /\ DOMAIN Q = DOMAIN P \union {t} /\ Q[t] = b
      /\ \A s \in DOMAIN P : Q[s] = P[s]
  <2>1. Solid(b)
    BY <1>4
  <2>2. Boxes(Q)
    BY <1>3, <2>1, PutIs
  <2>3. /\ DOMAIN Q = DOMAIN P \union {t} /\ Q[t] = b
        /\ \A s \in DOMAIN P : s # t => Q[s] = P[s]
    BY DEF Put
  <2> HIDE DEF Q
  <2> QED
    BY <1>1, <2>2, <2>3
<1>6. Apart(Q)
  BY <1>1, <1>3, <1>4, PutApart DEF Settled
<1> HIDE DEF Q
<1>7. held \in DOMAIN P /\ held # t /\ Q[held] = l[held] /\ DOMAIN Q \subseteq DOMAIN l
  BY <1>1, <1>5 DEF Settled
<1>8. ASSUME NEW s \in DOMAIN Q \ {held} PROVE GivesWay(l, Q, s)
  <2>1. CASE s = t
    BY <1>1, <1>4, <1>5, <2>1 DEF GivesWay, Clear
  <2>2. CASE s # t
    <3>1. s \in DOMAIN P \ {held} /\ Q[s] = P[s]
      BY <1>5, <2>2
    <3>2. GivesWay(l, P, s)
      BY <3>1 DEF Settled
    <3> QED
      BY <1>5, <3>1, <3>2 DEF GivesWay
  <2> QED
    BY <2>1, <2>2
<1>9. ASSUME Apart(l), NEW s \in DOMAIN Q PROVE Q[s] = l[s]
  <2>1. \A r \in DOMAIN P : P[r] = l[r]
    BY <1>9 DEF Settled
  <2>2. Clear(P, l[t])
    BY <1>1, <1>9, <2>1 DEF Clear, Apart, Settled
  <2> QED
    BY <1>4, <1>5, <2>1, <2>2
<1>10. Settled(l, held, Q)
  BY <1>5, <1>6, <1>7, <1>8, <1>9 DEF Settled
<1> QED
  BY <1>1, <1>2, <1>5, <1>10

\* The recursion of ResolveLayout, and its values up to n.
ResolveStep(l, held, i, before) ==
  IF i = 0 THEN Put(NoTiles, held, l[held]) ELSE PlaceNext(l, before)
Resolving(f, l, held, n) == f = [i \in 0..n |-> ResolveStep(l, held, i, f[i - 1])]

LEMMA ResolvingExists ==
  ASSUME NEW l, NEW held, NEW n \in Nat
  PROVE  \E f : Resolving(f, l, held, n)
<1> DEFINE H == {m \in 0..n : \E f : Resolving(f, l, held, m)}
<1>1. 0 \in H
  <2>1. Resolving([i \in 0..0 |-> Put(NoTiles, held, l[held])], l, held, 0)
    BY DEF Resolving, ResolveStep
  <2> QED
    BY <2>1
<1>2. ASSUME NEW m \in 1..n, m - 1 \in H PROVE m \in H
  <2>1. PICK f : Resolving(f, l, held, m - 1)
    BY <1>2
  <2> DEFINE g == [i \in 0..m |-> IF i = m THEN ResolveStep(l, held, m, f[m - 1]) ELSE f[i]]
  <2>2. \A i \in 0..m : i - 1 \in 0..m => g[i - 1] = f[i - 1]
    OBVIOUS
  <2>3. ASSUME NEW i \in 0..m PROVE g[i] = ResolveStep(l, held, i, g[i - 1])
    <3>1. CASE i = 0
      BY <2>1, <3>1 DEF Resolving, ResolveStep
    <3>2. CASE i # 0 /\ i = m
      BY <2>2, <3>2
    <3>3. CASE i # 0 /\ i # m
      <4>1. i \in 0..(m - 1) /\ i - 1 \in 0..m
        BY <3>3
      <4>2. f[i] = ResolveStep(l, held, i, f[i - 1])
        BY <2>1, <4>1 DEF Resolving
      <4>3. g[i] = f[i]
        BY <3>3
      <4> QED
        BY <2>2, <4>1, <4>2, <4>3
    <3> QED
      BY <3>1, <3>2, <3>3
  <2>4. Resolving(g, l, held, m)
    BY <2>3 DEF Resolving
  <2> QED
    BY <2>4
<1> HIDE DEF H
<1>3. n \in H
  BY <1>1, <1>2, UpTo
<1> QED
  BY <1>3 DEF H

LEMMA ResolvedIs ==
  ASSUME NEW l, NEW held, NEW n \in Nat, n = Cardinality(DOMAIN l \ {held})
  PROVE  \E f : Resolving(f, l, held, n) /\ ResolveLayout(l, held) = f[n]
<1>1. ResolveLayout(l, held) = (CHOOSE f : Resolving(f, l, held, n))[n]
  BY Zenon DEF ResolveLayout, Resolving, ResolveStep
<1>2. Resolving((CHOOSE f : Resolving(f, l, held, n)), l, held, n)
  BY ResolvingExists, Zenon
<1> QED
  BY <1>1, <1>2, Zenon

\* After i steps the held tile and i others are placed.
Half(l, held, n, i, P) ==
  Settled(l, held, P) /\ Cardinality(DOMAIN l \ DOMAIN P) = n - i

\* A layout is resolved to one that is settled, with the same tiles.
LEMMA Resolved ==
  ASSUME NEW l, Boxes(l), NEW held \in DOMAIN l
  PROVE  /\ Settled(l, held, ResolveLayout(l, held))
         /\ DOMAIN ResolveLayout(l, held) = DOMAIN l
<1> DEFINE n == Cardinality(DOMAIN l \ {held})
<1>1. IsFiniteSet(DOMAIN l) /\ IsFiniteSet(DOMAIN l \ {held}) /\ n \in Nat
  <2>1. IsFiniteSet(DOMAIN l)
    BY SizeAssumption, FS_Subset DEF Boxes
  <2>2. IsFiniteSet(DOMAIN l \ {held})
    BY <2>1, FS_RemoveElement
  <2> QED
    BY <2>1, <2>2, FS_CardinalityType
<1>a. n = Cardinality(DOMAIN l \ {held})
  OBVIOUS
<1> HIDE DEF n
<1>2. PICK f : Resolving(f, l, held, n) /\ ResolveLayout(l, held) = f[n]
  BY <1>1, <1>a, ResolvedIs
<1>3. \A i \in 0..n : f[i] = ResolveStep(l, held, i, f[i - 1])
  BY <1>2, Zenon DEF Resolving
<1> DEFINE H == {i \in 0..n : Half(l, held, n, i, f[i])}
<1>4. 0 \in H
  <2>0. 0 \in 0..n
    BY <1>1
  <2>1. f[0] = Put(NoTiles, held, l[held])
    BY <1>3, <2>0, Zenon DEF ResolveStep
  <2>2. Settled(l, held, f[0]) /\ DOMAIN f[0] = {held}
    BY <2>1, SettledFirst
  <2>3. Half(l, held, n, 0, f[0])
    BY <1>1, <1>a, <2>2 DEF Half
  <2> QED
    BY <2>0, <2>3
<1>5. ASSUME NEW i \in 1..n, i - 1 \in H PROVE i \in H
  <2> DEFINE P == f[i - 1]
             U == DOMAIN l \ DOMAIN P
  <2>0. i \in 0..n /\ i # 0
    BY <1>1
  <2>1. f[i] = PlaceNext(l, P)
    BY <1>3, <2>0, Zenon DEF ResolveStep
  <2>2. Half(l, held, n, i - 1, P)
    BY <1>5
  <2>3. Settled(l, held, P) /\ Cardinality(U) = n - (i - 1)
    BY <2>2 DEF Half
  <2>4. IsFiniteSet(U)
    BY <1>1, FS_Difference
  <2> HIDE DEF P
  <2>5. U # {}
    BY <1>1, <2>3, <2>4, FS_EmptySet
  <2>6. PICK t \in U : DOMAIN PlaceNext(l, P) = DOMAIN P \union {t}
    BY <2>3, <2>5, SettledNext
  <2>7. Settled(l, held, PlaceNext(l, P))
    BY <2>3, <2>5, SettledNext
  <2>8. DOMAIN l \ DOMAIN PlaceNext(l, P) = U \ {t}
    BY <2>6
  <2> HIDE DEF U
  <2>9. Cardinality(U \ {t}) = n - i
    <3>1. Cardinality(U \ {t}) = Cardinality(U) - 1
      BY <2>4, <2>6, FS_RemoveElement
    <3> QED
      BY <1>1, <2>0, <2>3, <3>1
  <2>10. Half(l, held, n, i, f[i])
    BY <2>1, <2>7, <2>8, <2>9 DEF Half
  <2> QED
    BY <2>0, <2>10
<1> HIDE DEF H
<1>6. n \in H
  BY <1>1, <1>4, <1>5, UpTo
<1>7. Settled(l, held, f[n]) /\ Cardinality(DOMAIN l \ DOMAIN f[n]) = 0
  <2>1. Half(l, held, n, n, f[n])
    BY <1>6 DEF H
  <2> QED
    BY <1>1, <2>1 DEF Half
<1>8. DOMAIN l \ DOMAIN f[n] = {}
  <2>1. IsFiniteSet(DOMAIN l \ DOMAIN f[n])
    BY <1>1, FS_Difference
  <2> QED
    BY <1>7, <2>1, FS_EmptySet
<1>9. DOMAIN f[n] = DOMAIN l
  BY <1>7, <1>8 DEF Settled
<1> QED
  BY <1>2, <1>7, <1>9, Zenon

-----------------------------------------------------------------------------
(***************************************************************************)
(* A free cell                                                             *)
(***************************************************************************)

\* A tile keeps its size within what its type allows, and ends before the edge.
FitsGrid(t, b) == Solid(b) /\ <<b.w, b.h>> \in Sizes(t) /\ b.x + b.w <= Cols

Sound(l) == Boxes(l) /\ Apart(l) /\ \A t \in DOMAIN l : FitsGrid(t, l[t])

LEMMA SizesAre ==
  ASSUME NEW t \in Tile, NEW w, NEW h, <<w, h>> \in Sizes(t)
  PROVE  /\ w \in Nat /\ h \in Nat /\ 0 < w /\ w <= Cols /\ 0 < h /\ h <= MaxRows
         /\ MinSize[t][1] \in Nat /\ MinSize[t][2] \in Nat
         /\ 0 < MinSize[t][1] /\ 0 < MinSize[t][2]
         /\ MinSize[t][1] <= w /\ MinSize[t][2] <= h
         /\ Cols \in Nat /\ MaxRows \in Nat
<1>1. MinSize[t] \in (1..Cols) \X (1..MaxRows) /\ Cols \in Nat /\ MaxRows \in Nat
  BY SizeAssumption
<1>2. MinSize[t][1] \in 1..Cols /\ MinSize[t][2] \in 1..MaxRows
  BY <1>1
<1>3. w \in MinSize[t][1]..Cols /\ h \in MinSize[t][2]..MaxRows
  BY DEF Sizes
<1> QED
  BY <1>1, <1>2, <1>3

LEMMA Product ==
  ASSUME NEW a \in Nat, NEW b \in Nat, NEW c \in Nat, a <= b
  PROVE  a * c <= b * c
  OBVIOUS

\* The box of a tile that is put at the left end of a row.
AtLeft(y, w, h) == [x |-> 0, y |-> y, w |-> w, h |-> h]

\* Of the rows that are scanned one is free: the others are blocked by one tile each, at
\* one of less than 2 * MaxRows distances, and that is fewer than there are.
LEMMA ARowIsFree ==
  ASSUME NEW P, Sound(P), NEW t \in Tile, t \notin DOMAIN P, NEW w, NEW h, <<w, h>> \in Sizes(t)
  PROVE  \E y \in 0..(ScanRows - 1) : Clear(P, AtLeft(y, w, h))
<1> DEFINE D == DOMAIN P
           c == 2 * MaxRows - 1
           S == 0..(ScanRows - 1)
           O == 0..(c - 1)
           At(y) == CHOOSE s \in D : Collides(P[s], AtLeft(y, w, h))
           f == [y \in S |-> <<At(y), y - P[At(y)].y + h - 1>>]
<1>1. SUFFICES ASSUME \A y \in S : \E s \in D : Collides(P[s], AtLeft(y, w, h)) PROVE FALSE
  BY DEF Clear
<1>2. h \in Nat /\ 0 < h /\ h <= MaxRows /\ MaxRows \in Nat /\ c \in Nat /\ c > 0
  BY SizesAre
<1>3. IsFiniteSet(D) /\ Cardinality(D) \in Nat /\ Cardinality(Tile) \in Nat
      /\ Cardinality(D) <= Cardinality(Tile) - 1
  <2>1. IsFiniteSet(Tile \ {t}) /\ Cardinality(Tile \ {t}) = Cardinality(Tile) - 1
    BY SizeAssumption, FS_RemoveElement
  <2>2. D \in SUBSET (Tile \ {t})
    BY DEF Sound, Boxes
  <2>3. IsFiniteSet(D) /\ Cardinality(D) <= Cardinality(Tile \ {t})
    BY <2>1, <2>2, FS_Subset
  <2> QED
    BY <2>1, <2>3, SizeAssumption, FS_CardinalityType
<1>4. ScanRows \in Nat /\ ScanRows > (Cardinality(Tile) - 1) * c
  BY ScanAssumption
<1>5. IsFiniteSet(S) /\ Cardinality(S) = ScanRows
  <2>1. 0 \in Int /\ ScanRows - 1 \in Int
    BY <1>4
  <2>2. IsFiniteSet(S) /\ Cardinality(S) = IF 0 > ScanRows - 1 THEN 0 ELSE (ScanRows - 1) - 0 + 1
    BY <2>1, FS_Interval
  <2> QED
    BY <1>4, <2>2
<1>6. IsFiniteSet(O) /\ Cardinality(O) = c
  <2>1. 0 \in Int /\ c - 1 \in Int
    BY <1>2
  <2>2. IsFiniteSet(O) /\ Cardinality(O) = IF 0 > c - 1 THEN 0 ELSE (c - 1) - 0 + 1
    BY <2>1, FS_Interval
  <2> HIDE DEF O, c
  <2> QED
    BY <1>2, <2>2
<1> DEFINE T == D \X O
<1>7. IsFiniteSet(T) /\ Cardinality(T) < Cardinality(S)
  <2>1. IsFiniteSet(T) /\ Cardinality(T) = Cardinality(D) * Cardinality(O)
    BY <1>3, <1>6, FS_Product
  <2> DEFINE k == Cardinality(D)
             m == Cardinality(Tile) - 1
  <2>2. k \in Nat /\ m \in Nat /\ k <= m
    BY <1>3
  <2>3. Cardinality(T) = k * c /\ ScanRows > m * c
    BY <1>4, <1>6, <2>1
  <2> HIDE DEF k, m, c, T
  <2>4. k * c <= m * c
    BY <1>2, <2>2, Product
  <2>5. k * c \in Int /\ m * c \in Int
    BY <1>2, <2>2
  <2> QED
    BY <1>4, <1>5, <2>1, <2>3, <2>4, <2>5
<1>8. ASSUME NEW y \in S
      PROVE  /\ At(y) \in D /\ P[At(y)].y \in Nat
             /\ y - P[At(y)].y + h - 1 \in O
  <2> DEFINE s == At(y)
  <2>1. s \in D /\ Collides(P[s], AtLeft(y, w, h))
    BY <1>1
  <2> HIDE DEF s
  <2>2. P[s].y \in Nat /\ P[s].h \in Nat /\ P[s].h <= MaxRows
    <3>1. s \in Tile /\ Solid(P[s]) /\ <<P[s].w, P[s].h>> \in Sizes(s)
      BY <2>1 DEF Sound, FitsGrid, Boxes
    <3>2. P[s].h <= MaxRows
      BY <3>1, SizesAre
    <3> QED
      BY <3>1, <3>2 DEF Solid, Box
  <2>3. P[s].y < y + h /\ P[s].y + P[s].h > y
    BY <2>1 DEF Collides, AtLeft
  <2>4. y - P[s].y + h - 1 \in O
    BY <1>2, <1>4, <2>2, <2>3
  <2> QED
    BY <2>1, <2>2, <2>4 DEF s
<1> HIDE DEF At
<1>9. f \in [S -> T]
  BY <1>8
<1>10. \A y \in S : f[y] = <<At(y), y - P[At(y)].y + h - 1>>
  OBVIOUS
<1> HIDE DEF f, S, T
<1>11. PICK y, z \in S : y # z /\ f[y] = f[z]
  BY <1>5, <1>7, <1>9, FS_PigeonHole
<1>12. At(y) = At(z) /\ y - P[At(y)].y + h - 1 = z - P[At(z)].y + h - 1
  BY <1>10, <1>11
<1>13. y \in Int /\ z \in Int /\ P[At(y)].y \in Nat
  BY <1>4, <1>8 DEF S
<1> QED
  BY <1>2, <1>11, <1>12, <1>13

\* The box of a new tile at a cell.
BoxAt(c, w, h) == [x |-> c[1], y |-> c[2], w |-> w, h |-> h]

\* findFreeCell finds a cell, so that it never falls back to the first one.
LEMMA CellIsFree ==
  ASSUME NEW P, Sound(P), NEW t \in Tile, t \notin DOMAIN P, NEW w, NEW h, <<w, h>> \in Sizes(t),
         NEW b, b = BoxAt(FindFreeCell(P, w, h), w, h)
  PROVE  FitsGrid(t, b) /\ Clear(P, b)
<1> DEFINE free == {c \in (0..(Cols - w)) \X (0..(ScanRows - 1)) : Clear(P, BoxAt(c, w, h))}
           c == FindFreeCell(P, w, h)
<1>1. /\ w \in Nat /\ h \in Nat /\ 0 < w /\ w <= Cols /\ 0 < h /\ Cols \in Nat
      /\ ScanRows \in Nat
  BY SizesAre, ScanAssumption
<1>2. free # {}
  <2>1. PICK y \in 0..(ScanRows - 1) : Clear(P, AtLeft(y, w, h))
    BY ARowIsFree
  <2>2. <<0, y>> \in (0..(Cols - w)) \X (0..(ScanRows - 1))
    BY <1>1
  <2>3. BoxAt(<<0, y>>, w, h) = AtLeft(y, w, h)
    BY DEF BoxAt, AtLeft
  <2> QED
    BY <2>1, <2>2, <2>3
<1>3. c = CHOOSE d \in free : \A e \in free : Before(d, e)
  BY <1>2 DEF FindFreeCell, BoxAt
<1>4. free \subseteq Nat \X Nat
  BY <1>1
<1>5. \E d \in free : \A e \in free : Before(d, e)
  BY <1>2, <1>4, FirstExists
<1>6. c \in free
  BY <1>3, <1>5, Zenon
<1> HIDE DEF c
<1>7. /\ c[1] \in 0..(Cols - w) /\ c[2] \in 0..(ScanRows - 1) /\ Clear(P, BoxAt(c, w, h))
  BY <1>6
<1>8. b = BoxAt(c, w, h)
  BY DEF c
<1>9. /\ b = [x |-> c[1], y |-> c[2], w |-> w, h |-> h]
      /\ b.x = c[1] /\ b.y = c[2] /\ b.w = w /\ b.h = h
  BY <1>8 DEF BoxAt
<1>10. c[1] \in Nat /\ c[2] \in Nat /\ c[1] + w <= Cols
  BY <1>1, <1>7
<1>11. Solid(b)
  BY <1>1, <1>9, <1>10 DEF Solid, Box
<1> QED
  BY <1>7, <1>8, <1>9, <1>10, <1>11 DEF FitsGrid

\* A layout with one more tile, at a place that is clear, is sound.
LEMMA PutSound ==
  ASSUME NEW P, Sound(P), NEW t \in Tile, t \notin DOMAIN P, NEW b, FitsGrid(t, b), Clear(P, b)
  PROVE  Sound(Put(P, t, b)) /\ DOMAIN Put(P, t, b) = DOMAIN P \union {t}
<1> DEFINE Q == Put(P, t, b)
<1>1. Boxes(P) /\ Solid(b) /\ Apart(P)
  BY DEF Sound, FitsGrid
<1>2. Boxes(Q)
  BY <1>1, PutIs
<1>3. Apart(Q)
  BY <1>1, PutApart
<1>4. DOMAIN Q = DOMAIN P \union {t} /\ Q[t] = b /\ \A s \in DOMAIN P : Q[s] = P[s]
  BY DEF Put
<1> HIDE DEF Q
<1>5. \A s \in DOMAIN Q : FitsGrid(s, Q[s])
  BY <1>4 DEF Sound
<1>6. Sound(Q)
  BY <1>2, <1>3, <1>5 DEF Sound
<1> QED
  BY <1>4, <1>6 DEF Q

\* A tile is added to a sound layout.
LEMMA WithSound ==
  ASSUME NEW P, Sound(P), NEW t \in Tile, t \notin DOMAIN P, NEW w, NEW h, <<w, h>> \in Sizes(t)
  PROVE  Sound(With(P, t, w, h)) /\ DOMAIN With(P, t, w, h) = DOMAIN P \union {t}
<1> DEFINE b == BoxAt(FindFreeCell(P, w, h), w, h)
<1>1. With(P, t, w, h) = Put(P, t, b)
  BY DEF With, BoxAt
<1>2. FitsGrid(t, b) /\ Clear(P, b)
  BY CellIsFree
<1> HIDE DEF b
<1> QED
  BY <1>1, <1>2, PutSound

LEMMA NoneSound == Sound(NoTiles) /\ DOMAIN NoTiles = {}
  BY DEF NoTiles, Sound, Boxes, Apart

LEMMA DefaultSound == Sound(DefaultTiles)
<1> DEFINE b == [x |-> 0, y |-> 0, w |-> DefSize[First][1], h |-> DefSize[First][2]]
<1>1. First \in Tile /\ DefSize[First] \in Sizes(First)
  BY SizeAssumption
<1>2. DefSize[First] = <<DefSize[First][1], DefSize[First][2]>>
  BY <1>1 DEF Sizes
<1> DEFINE w == DefSize[First][1]
           h == DefSize[First][2]
<1>3. <<w, h>> \in Sizes(First)
  BY <1>1, <1>2
<1> HIDE DEF w, h
<1>4. w \in Nat /\ h \in Nat /\ 0 < w /\ w <= Cols /\ 0 < h
  BY <1>1, <1>3, SizesAre
<1>5. b = [x |-> 0, y |-> 0, w |-> w, h |-> h]
  BY DEF w, h
<1>6. FitsGrid(First, b)
  BY <1>3, <1>4, <1>5 DEF FitsGrid, Solid, Box
<1>7. DefaultTiles = Put(NoTiles, First, b)
  BY DEF DefaultTiles
<1>8. Clear(NoTiles, b)
  BY NoneSound DEF Clear
<1> HIDE DEF b
<1> QED
  BY <1>1, <1>6, <1>7, <1>8, NoneSound, PutSound

-----------------------------------------------------------------------------
(***************************************************************************)
(* An older layout is packed                                               *)
(***************************************************************************)

\* The recursion of PackTiles, and its values up to n.
PackStep(old, i, before) ==
  IF i = 0 THEN NoTiles
  ELSE With(before, old[i][1], Clamp(old[i][2], 1, Cols), Max({1, old[i][3]}))
Packing(f, old, n) == f = [i \in 0..n |-> PackStep(old, i, f[i - 1])]

LEMMA PackingExists ==
  ASSUME NEW old, NEW n \in Nat
  PROVE  \E f : Packing(f, old, n)
<1> DEFINE H == {m \in 0..n : \E f : Packing(f, old, m)}
<1>1. 0 \in H
  <2>1. Packing([i \in 0..0 |-> NoTiles], old, 0)
    BY DEF Packing, PackStep
  <2> QED
    BY <2>1
<1>2. ASSUME NEW m \in 1..n, m - 1 \in H PROVE m \in H
  <2>1. PICK f : Packing(f, old, m - 1)
    BY <1>2
  <2> DEFINE g == [i \in 0..m |-> IF i = m THEN PackStep(old, m, f[m - 1]) ELSE f[i]]
  <2>2. \A i \in 0..m : i - 1 \in 0..m => g[i - 1] = f[i - 1]
    OBVIOUS
  <2>3. ASSUME NEW i \in 0..m PROVE g[i] = PackStep(old, i, g[i - 1])
    <3>1. CASE i = 0
      BY <2>1, <3>1 DEF Packing, PackStep
    <3>2. CASE i # 0 /\ i = m
      BY <2>2, <3>2
    <3>3. CASE i # 0 /\ i # m
      <4>1. i \in 0..(m - 1) /\ i - 1 \in 0..m
        BY <3>3
      <4>2. f[i] = PackStep(old, i, f[i - 1])
        BY <2>1, <4>1 DEF Packing
      <4>3. g[i] = f[i]
        BY <3>3
      <4> QED
        BY <2>2, <4>1, <4>2, <4>3
    <3> QED
      BY <3>1, <3>2, <3>3
  <2>4. Packing(g, old, m)
    BY <2>3 DEF Packing
  <2> QED
    BY <2>4
<1> HIDE DEF H
<1>3. n \in H
  BY <1>1, <1>2, UpTo
<1> QED
  BY <1>3 DEF H

LEMMA PackedIs ==
  ASSUME NEW old, NEW n \in Nat, n = Len(old)
  PROVE  \E f : Packing(f, old, n) /\ PackTiles(old) = f[n]
<1>1. PackTiles(old) = (CHOOSE f : Packing(f, old, n))[n]
  BY Zenon DEF PackTiles, Packing, PackStep
<1>2. Packing((CHOOSE f : Packing(f, old, n)), old, n)
  BY PackingExists, Zenon
<1> QED
  BY <1>1, <1>2, Zenon

\* The sizes of an older layout are kept.
LEMMA OldSize ==
  ASSUME NEW w \in Nat, NEW h \in Nat, 0 < w, w <= Cols, 0 < h, Cols \in Nat
  PROVE  Clamp(w, 1, Cols) = w /\ Max({1, h}) = h
<1>1. Clamp(w, 1, Cols) = w
  BY ClampIs
<1>2. \E x \in {1, h} : \A y \in {1, h} : x >= y
  OBVIOUS
<1>3. Max({1, h}) \in {1, h} /\ \A y \in {1, h} : Max({1, h}) >= y
  BY <1>2, Zenon DEF Max
<1> QED
  BY <1>1, <1>3

\* After i steps the first i tiles are placed.
Packed(old, i, P) == Sound(P) /\ DOMAIN P = {old[j][1] : j \in 1..i}

LEMMA PackSound ==
  ASSUME NEW old \in Legacy
  PROVE  Sound(PackTiles(old))
<1> DEFINE n == Len(old)
<1>1. /\ old \in Seq(Tile \X Nat \X Nat)
      /\ \A i \in DOMAIN old : <<old[i][2], old[i][3]>> \in Sizes(old[i][1])
      /\ \A i, j \in DOMAIN old : old[i][1] = old[j][1] => i = j
  BY LegacyAssumption
<1>2. n \in Nat /\ DOMAIN old = 1..n /\ n = Len(old)
  BY <1>1
<1>a. \A i \in 1..n : old[i] \in Tile \X Nat \X Nat
  BY <1>1
<1> HIDE DEF n
<1>3. PICK f : Packing(f, old, n) /\ PackTiles(old) = f[n]
  BY <1>2, PackedIs
<1>4. \A i \in 0..n : f[i] = PackStep(old, i, f[i - 1])
  BY <1>3, Zenon DEF Packing
<1> DEFINE H == {i \in 0..n : Packed(old, i, f[i])}
<1>5. 0 \in H
  <2>0. 0 \in 0..n
    BY <1>2
  <2>1. f[0] = NoTiles
    BY <1>4, <2>0, Zenon DEF PackStep
  <2>2. Packed(old, 0, f[0])
    BY <2>1, NoneSound DEF Packed
  <2> QED
    BY <2>0, <2>2
<1>6. ASSUME NEW i \in 1..n, i - 1 \in H PROVE i \in H
  <2> DEFINE P == f[i - 1]
             t == old[i][1]
             w == old[i][2]
             h == old[i][3]
  <2>0. i \in 0..n /\ i # 0
    BY <1>2
  <2>1. f[i] = With(P, t, Clamp(w, 1, Cols), Max({1, h}))
    BY <1>4, <2>0, Zenon DEF PackStep
  <2>2. Packed(old, i - 1, P)
    BY <1>6
  <2>3. t \in Tile /\ w \in Nat /\ h \in Nat
    BY <1>a
  <2>4. <<w, h>> \in Sizes(t)
    BY <1>1, <1>2
  <2>5. t \notin DOMAIN P
    <3>1. \A j \in 1..(i - 1) : j \in 1..n /\ j # i
      BY <1>2
    <3>2. \A j \in 1..(i - 1) : old[j][1] # t
      BY <1>1, <1>2, <3>1
    <3> QED
      BY <2>2, <3>2 DEF Packed
  <2>a. {old[j][1] : j \in 1..i} = {old[j][1] : j \in 1..(i - 1)} \union {t}
    <3>1. \A j : j \in 1..i <=> j \in 1..(i - 1) \/ j = i
      BY <1>2
    <3> QED
      BY <3>1
  <2> HIDE DEF P, t, w, h
  <2>6. Clamp(w, 1, Cols) = w /\ Max({1, h}) = h
    BY <2>3, <2>4, SizesAre, OldSize
  <2>7. Sound(P)
    BY <2>2 DEF Packed
  <2>8. Sound(With(P, t, w, h)) /\ DOMAIN With(P, t, w, h) = DOMAIN P \union {t}
    BY <2>3, <2>4, <2>5, <2>7, WithSound
  <2>9. Packed(old, i, f[i])
    BY <2>1, <2>2, <2>6, <2>8, <2>a DEF Packed
  <2> QED
    BY <2>0, <2>9
<1> HIDE DEF H
<1>7. n \in H
  <2>1. n \in Nat
    BY <1>2
  <2>2. \A i \in 0..n : i \in H
    BY <2>1, <1>5, <1>6, UpTo
  <2> QED
    BY <2>1, <2>2
<1>8. Packed(old, n, f[n])
  BY <1>7 DEF H
<1> QED
  BY <1>3, <1>8 DEF Packed

-----------------------------------------------------------------------------
(***************************************************************************)
(* A move of the pointer                                                   *)
(***************************************************************************)

\* What a move makes of the layout at the start of the gesture, when it gives the held
\* tile another box.
LEMMA HeldMoves ==
  ASSUME NEW B, Sound(B), NEW t \in DOMAIN B, NEW b, FitsGrid(t, b),
         NEW R, R = ResolveLayout(Put(B, t, b), t)
  PROVE  /\ Sound(R) /\ DOMAIN R = DOMAIN B
         /\ \A s \in DOMAIN B \ {t} : GivesWay(B, R, s)
         /\ b = B[t] => R = B
<1> DEFINE l == Put(B, t, b)
<1>1. Boxes(B) /\ Apart(B) /\ t \in Tile /\ Solid(b)
  BY DEF Sound, Boxes, FitsGrid
<1>2. Boxes(l)
  BY <1>1, PutIs
<1>3. DOMAIN l = DOMAIN B /\ l[t] = b /\ \A s \in DOMAIN B : s # t => l[s] = B[s]
  BY DEF Put
<1>4. b = B[t] => l = B
  BY <1>1 DEF Boxes, Put
<1> HIDE DEF l
<1>5. Settled(l, t, R) /\ DOMAIN R = DOMAIN B
  BY <1>2, <1>3, Resolved DEF l
<1>6. Boxes(R) /\ Apart(R) /\ R[t] = b /\ \A s \in DOMAIN B \ {t} : GivesWay(l, R, s)
  BY <1>3, <1>5 DEF Settled
<1>7. \A s \in DOMAIN B \ {t} : GivesWay(B, R, s)
  BY <1>3, <1>6 DEF GivesWay
<1>8. ASSUME NEW s \in DOMAIN R PROVE FitsGrid(s, R[s])
  <2>1. CASE s = t
    BY <1>6, <2>1
  <2>2. CASE s # t
    <3>1. GivesWay(B, R, s) /\ Solid(R[s]) /\ FitsGrid(s, B[s])
      BY <1>5, <1>6, <1>7, <2>2 DEF Sound, Boxes
    <3> QED
      BY <3>1 DEF GivesWay, FitsGrid
  <2> QED
    BY <2>1, <2>2
<1>9. ASSUME b = B[t] PROVE R = B
  <2>1. \A s \in DOMAIN R : R[s] = B[s]
    BY <1>1, <1>4, <1>5, <1>9 DEF Settled
  <2> QED
    BY <1>1, <1>5, <1>6, <2>1 DEF Boxes
<1> QED
  BY <1>5, <1>6, <1>7, <1>8, <1>9 DEF Sound

\* A dragged tile stays within the grid, and where it was if the pointer asks for that.
LEMMA MovedFits ==
  ASSUME NEW t \in Tile, NEW b, FitsGrid(t, b), NEW x \in Nat, NEW y \in Nat
  PROVE  /\ FitsGrid(t, Moved(b, x, y))
         /\ <<x, y>> = <<b.x, b.y>> /\ b.y <= MaxRows => Moved(b, x, y) = b
<1>1. /\ b.x \in Nat /\ b.y \in Nat /\ b.w \in Nat /\ b.h \in Nat /\ 0 < b.w /\ 0 < b.h
      /\ b = [x |-> b.x, y |-> b.y, w |-> b.w, h |-> b.h]
      /\ b.x + b.w <= Cols /\ <<b.w, b.h>> \in Sizes(t)
  BY DEF FitsGrid, Solid, Box
<1>2. Cols \in Nat /\ MaxRows \in Nat
  BY SizeAssumption
<1> DEFINE cx == Clamp(x, 0, Cols - b.w)
           cy == Clamp(y, 0, MaxRows)
<1>3. cx \in 0..(Cols - b.w) /\ (x \in 0..(Cols - b.w) => cx = x)
  <2>1. Cols - b.w \in Nat /\ 0 <= Cols - b.w
    BY <1>1, <1>2
  <2> QED
    BY <2>1, ClampIs
<1>4. cy \in 0..MaxRows /\ (y \in 0..MaxRows => cy = y)
  BY <1>2, ClampIs
<1>5. Moved(b, x, y) = [b EXCEPT !.x = cx, !.y = cy]
  BY DEF Moved
<1> HIDE DEF cx, cy
<1>6. cx \in Nat /\ cy \in Nat /\ cx + b.w <= Cols
  BY <1>1, <1>2, <1>3, <1>4
<1>b. b \in Box
  BY DEF FitsGrid, Solid
<1> DEFINE m == [b EXCEPT !.x = cx, !.y = cy]
<1>c. m.x = cx /\ m.y = cy /\ m.w = b.w /\ m.h = b.h /\ m \in Box
  BY <1>b, <1>6 DEF Box
<1>d. cx = b.x /\ cy = b.y => m = b
  BY <1>b DEF Box
<1> HIDE DEF m
<1>7. FitsGrid(t, m)
  BY <1>1, <1>6, <1>c DEF FitsGrid, Solid
<1>8. ASSUME x = b.x, y = b.y, b.y <= MaxRows PROVE m = b
  <2>1. cx = b.x /\ cy = b.y
    BY <1>1, <1>2, <1>3, <1>4, <1>8
  <2> QED
    BY <1>d, <2>1
<1> QED
  BY <1>5, <1>7, <1>8 DEF m

\* A resized tile keeps to the sizes of its type and to the grid.
LEMMA ResizedFits ==
  ASSUME NEW t \in Tile, NEW b, FitsGrid(t, b), NEW w \in Nat, NEW h \in Nat
  PROVE  /\ FitsGrid(t, Resized(t, b, w, h))
         /\ <<w, h>> = <<b.w, b.h>> => Resized(t, b, w, h) = b
<1>1. /\ b.x \in Nat /\ b.y \in Nat /\ b.w \in Nat /\ b.h \in Nat /\ 0 < b.w /\ 0 < b.h
      /\ b = [x |-> b.x, y |-> b.y, w |-> b.w, h |-> b.h]
      /\ b.x + b.w <= Cols /\ <<b.w, b.h>> \in Sizes(t)
  BY DEF FitsGrid, Solid, Box
<1> DEFINE a == MinSize[t][1]
           c == MinSize[t][2]
<1>2. /\ Cols \in Nat /\ MaxRows \in Nat /\ a \in Nat /\ c \in Nat /\ 0 < a /\ 0 < c
      /\ a <= b.w /\ c <= b.h /\ b.h <= MaxRows
  BY <1>1, SizesAre
<1>a. Sizes(t) = (a..Cols) \X (c..MaxRows)
  BY DEF Sizes
<1> HIDE DEF a, c
<1> DEFINE cw == Clamp(w, a, Cols - b.x)
           ch == Clamp(h, c, MaxRows)
<1>3. cw \in a..(Cols - b.x) /\ (w \in a..(Cols - b.x) => cw = w)
  <2> DEFINE e == Cols - b.x
  <2>1. e \in Nat /\ a \in Nat /\ a <= e
    BY <1>1, <1>2
  <2> HIDE DEF e
  <2>2. Clamp(w, a, e) \in a..e /\ (w \in a..e => Clamp(w, a, e) = w)
    BY <2>1, ClampIs
  <2> QED
    BY <2>2 DEF e
<1>4. ch \in c..MaxRows /\ (h \in c..MaxRows => ch = h)
  <2>1. c <= MaxRows
    BY <1>1, <1>2
  <2> QED
    BY <1>2, <2>1, ClampIs
<1>5. Resized(t, b, w, h) = [b EXCEPT !.w = cw, !.h = ch]
  BY DEF Resized, a, c
<1> HIDE DEF cw, ch
<1>6. /\ cw \in Nat /\ ch \in Nat /\ 0 < cw /\ 0 < ch /\ b.x + cw <= Cols
      /\ cw \in a..Cols /\ ch \in c..MaxRows
  BY <1>1, <1>2, <1>3, <1>4
<1>b. b \in Box
  BY DEF FitsGrid, Solid
<1> DEFINE m == [b EXCEPT !.w = cw, !.h = ch]
<1>c. m.x = b.x /\ m.y = b.y /\ m.w = cw /\ m.h = ch /\ m \in Box
  BY <1>b, <1>6 DEF Box
<1>d. cw = b.w /\ ch = b.h => m = b
  BY <1>b DEF Box
<1> HIDE DEF m
<1>7. FitsGrid(t, m)
  BY <1>1, <1>6, <1>a, <1>c DEF FitsGrid, Solid
<1>8. ASSUME w = b.w, h = b.h PROVE m = b
  <2>1. cw = b.w /\ ch = b.h
    BY <1>1, <1>2, <1>3, <1>4, <1>8
  <2> QED
    BY <1>d, <2>1
<1> QED
  BY <1>5, <1>7, <1>8 DEF m

-----------------------------------------------------------------------------
(***************************************************************************)
(* The invariant                                                           *)
(***************************************************************************)

\* While a tile is held the layout has the tiles of the start of the gesture, which gave
\* way to it, and is that of the start when the pointer is there.
HeldInv ==
  /\ gesture = [kind |-> gesture.kind, tile |-> gesture.tile, at |-> gesture.at]
  /\ Sound(base) /\ gesture.tile \in DOMAIN base /\ DOMAIN tiles = DOMAIN base
  /\ \A s \in DOMAIN base \ {gesture.tile} : GivesWay(base, tiles, s)
  /\ AtHome /\ base[gesture.tile].y <= MaxRows => tiles = base

GridInv == Sound(tiles) /\ (gesture # NoGesture => HeldInv)

\* Nothing has to give way to a tile that is only held.
LEMMA NothingGaveWay ==
  ASSUME NEW B, Sound(B)
  PROVE  \A s \in DOMAIN B : GivesWay(B, B, s)
<1>1. ASSUME NEW s \in DOMAIN B PROVE GivesWay(B, B, s)
  <2>1. B[s].y \in Nat
    BY DEF Sound, Boxes, Solid, Box
  <2> QED
    BY <2>1 DEF GivesWay
<1> QED
  BY <1>1

LEMMA InitGrid == Init => GridInv
<1> SUFFICES ASSUME Init PROVE GridInv
  OBVIOUS
<1>1. Sound(tiles)
  BY DefaultSound, PackSound DEF Init
<1>2. gesture = NoGesture
  BY DEF Init
<1> QED
  BY <1>1, <1>2 DEF GridInv

\* The layout after the held tile is given another box.
LEMMA HeldStep ==
  ASSUME HeldInv, NEW b, FitsGrid(gesture.tile, b),
         tiles' = ResolveLayout(Put(base, gesture.tile, b), gesture.tile), base' = base,
         gesture'.tile = gesture.tile,
         gesture' = [kind |-> gesture'.kind, tile |-> gesture'.tile, at |-> gesture'.at],
         AtHome' /\ base[gesture.tile].y <= MaxRows => b = base[gesture.tile]
  PROVE  Sound(tiles') /\ HeldInv'
<1>1. Sound(base) /\ gesture.tile \in DOMAIN base
  BY DEF HeldInv
<1> DEFINE t == gesture.tile
           R == ResolveLayout(Put(base, t, b), t)
<1>2. R = ResolveLayout(Put(base, t, b), t) /\ tiles' = R
  OBVIOUS
<1> HIDE DEF R
<1>3. /\ Sound(R) /\ DOMAIN R = DOMAIN base
      /\ \A s \in DOMAIN base \ {t} : GivesWay(base, R, s)
      /\ b = base[t] => R = base
  BY <1>1, <1>2, HeldMoves
<1>4. Sound(tiles')
  BY <1>2, <1>3
<1>5. HeldInv'
  BY <1>1, <1>2, <1>3 DEF HeldInv
<1> QED
  BY <1>4, <1>5

LEMMA TileMoveInv ==
  ASSUME GridInv, NEW x \in Nat, NEW y \in Nat, OnTileMove(x, y)
  PROVE  GridInv'
<1> DEFINE t == gesture.tile
           b == Moved(base[t], x, y)
<1>1. gesture # NoGesture /\ HeldInv
  BY DEF OnTileMove, NoGesture, GridInv
<1>2. t \in Tile /\ FitsGrid(t, base[t])
  BY <1>1 DEF HeldInv, Sound, Boxes
<1>3. /\ FitsGrid(t, b)
      /\ <<x, y>> = <<base[t].x, base[t].y>> /\ base[t].y <= MaxRows => b = base[t]
  BY <1>2, MovedFits
<1>4. /\ gesture'.tile = t /\ gesture'.kind = "drag" /\ gesture'.at = <<x, y>>
      /\ gesture' = [kind |-> gesture'.kind, tile |-> gesture'.tile, at |-> gesture'.at]
  BY <1>1 DEF OnTileMove, HeldInv
<1>5. base' = base /\ tiles' = ResolveLayout(Put(base, t, b), t)
  BY DEF OnTileMove
<1>6. AtHome' => <<x, y>> = <<base[t].x, base[t].y>>
  BY <1>4, <1>5 DEF AtHome, Corner
<1> HIDE DEF b
<1>7. Sound(tiles') /\ HeldInv'
  BY <1>1, <1>3, <1>4, <1>5, <1>6, HeldStep
<1> QED
  BY <1>7 DEF GridInv

LEMMA ResizeMoveInv ==
  ASSUME GridInv, NEW w \in Nat, NEW h \in Nat, OnResizeMove(w, h)
  PROVE  GridInv'
<1> DEFINE t == gesture.tile
           b == Resized(t, base[t], w, h)
<1>1. gesture # NoGesture /\ HeldInv
  BY DEF OnResizeMove, NoGesture, GridInv
<1>2. t \in Tile /\ FitsGrid(t, base[t])
  BY <1>1 DEF HeldInv, Sound, Boxes
<1>3. /\ FitsGrid(t, b)
      /\ <<w, h>> = <<base[t].w, base[t].h>> => b = base[t]
  BY <1>2, ResizedFits
<1>4. /\ gesture'.tile = t /\ gesture'.kind = "resize" /\ gesture'.at = <<w, h>>
      /\ gesture' = [kind |-> gesture'.kind, tile |-> gesture'.tile, at |-> gesture'.at]
  BY <1>1 DEF OnResizeMove, HeldInv
<1>5. base' = base /\ tiles' = ResolveLayout(Put(base, t, b), t)
  BY DEF OnResizeMove
<1>6. AtHome' => <<w, h>> = <<base[t].w, base[t].h>>
  BY <1>4, <1>5 DEF AtHome
<1> HIDE DEF b
<1>7. Sound(tiles') /\ HeldInv'
  BY <1>1, <1>3, <1>4, <1>5, <1>6, HeldStep
<1> QED
  BY <1>7 DEF GridInv

LEMMA AddInv ==
  ASSUME GridInv, NEW t \in Tile, AddTile(t)
  PROVE  GridInv'
<1>1. DefSize[t] \in Sizes(t)
  BY SizeAssumption
<1>2. <<DefSize[t][1], DefSize[t][2]>> \in Sizes(t)
  BY <1>1 DEF Sizes
<1>3. Sound(tiles) /\ t \notin DOMAIN tiles
  BY DEF GridInv, AddTile
<1> DEFINE w == DefSize[t][1]
           h == DefSize[t][2]
<1>4. tiles' = With(tiles, t, w, h) /\ gesture' = NoGesture
  BY DEF AddTile
<1>5. <<w, h>> \in Sizes(t)
  BY <1>2
<1> HIDE DEF w, h
<1>6. Sound(tiles')
  BY <1>3, <1>4, <1>5, WithSound
<1> QED
  BY <1>4, <1>6 DEF GridInv

LEMMA RemoveInv ==
  ASSUME GridInv, NEW t \in Tile, RemoveTile(t)
  PROVE  GridInv'
<1>1. Sound(tiles) /\ tiles' = [s \in DOMAIN tiles \ {t} |-> tiles[s]] /\ gesture' = NoGesture
  BY DEF GridInv, RemoveTile
<1>2. DOMAIN tiles' = DOMAIN tiles \ {t} /\ \A s \in DOMAIN tiles' : tiles'[s] = tiles[s]
  BY <1>1
<1>3. tiles' = [s \in DOMAIN tiles' |-> tiles'[s]]
  BY <1>1
<1>4. Sound(tiles')
  BY <1>1, <1>2, <1>3 DEF Sound, Boxes, Apart
<1> QED
  BY <1>1, <1>4 DEF GridInv

LEMMA GrabInv ==
  ASSUME GridInv, NEW t \in Tile, NEW kind, Grab(t, kind)
  PROVE  GridInv'
<1>1. Sound(tiles) /\ t \in DOMAIN tiles /\ base' = tiles /\ tiles' = tiles /\ gesture'.tile = t
      /\ gesture' = [kind |-> gesture'.kind, tile |-> gesture'.tile, at |-> gesture'.at]
  BY DEF GridInv, Grab
<1>2. \A s \in DOMAIN tiles : GivesWay(tiles, tiles, s)
  BY <1>1, NothingGaveWay
<1>3. HeldInv'
  BY <1>1, <1>2 DEF HeldInv
<1> QED
  BY <1>1, <1>3 DEF GridInv

LEMMA NextGrid == GridInv /\ [Next]_vars => GridInv'
<1> SUFFICES ASSUME GridInv, [Next]_vars PROVE GridInv'
  OBVIOUS
<1>1. CASE ToggleEdit
  BY <1>1 DEF ToggleEdit, GridInv
<1>2. CASE Reload
  BY <1>2, DefaultSound DEF Reload, GridInv
<1>3. CASE Release
  BY <1>3 DEF Release, GridInv
<1>4. CASE \E t \in Tile : AddTile(t)
  BY <1>4, AddInv
<1>5. CASE \E t \in Tile : RemoveTile(t)
  BY <1>5, RemoveInv
<1>6. CASE \E t \in Tile : Grab(t, "drag") \/ Grab(t, "resize")
  BY <1>6, GrabInv
<1>7. CASE \E x \in 0..Cols, y \in 0..LastRow : OnTileMove(x, y) /\ InBounds(tiles')
  <2>1. 0..Cols \subseteq Nat /\ 0..LastRow \subseteq Nat
    BY SizeAssumption, ScanAssumption
  <2> QED
    BY <1>7, <2>1, TileMoveInv
<1>8. CASE \E w \in 0..Cols, h \in 0..MaxRows : OnResizeMove(w, h) /\ InBounds(tiles')
  <2>1. 0..Cols \subseteq Nat /\ 0..MaxRows \subseteq Nat
    BY SizeAssumption
  <2> QED
    BY <1>8, <2>1, ResizeMoveInv
<1>9. CASE UNCHANGED vars
  BY <1>9 DEF vars, GridInv, HeldInv, AtHome
<1> QED
  BY <1>1, <1>2, <1>3, <1>4, <1>5, <1>6, <1>7, <1>8, <1>9 DEF Next

THEOREM Invariance == Spec => []GridInv
<1>1. Init => GridInv
  BY InitGrid
<1>2. GridInv /\ [Next]_vars => GridInv'
  BY NextGrid
<1> QED
  BY <1>1, <1>2, PTL DEF Spec

-----------------------------------------------------------------------------
(***************************************************************************)
(* What a dashboard keeps                                                  *)
(***************************************************************************)

\* TilesFit: whatever is added, dragged, resized, pushed and loaded, no two tiles share
\* a cell and none reaches over the edge.
THEOREM TilesAlwaysFit == Spec => []TilesFit
<1>1. GridInv => TilesFit
  <2> SUFFICES ASSUME GridInv PROVE TilesFit
    OBVIOUS
  <2>1. ASSUME NEW s \in DOMAIN tiles, NEW t \in DOMAIN tiles, s # t
        PROVE  Cells(tiles[s]) \intersect Cells(tiles[t]) = {}
    <3>1. Solid(tiles[s]) /\ Solid(tiles[t]) /\ ~Collides(tiles[s], tiles[t])
      BY <2>1 DEF GridInv, Sound, Boxes, Apart
    <3> QED
      BY <3>1, CollideIsShare
  <2>2. \A t \in DOMAIN tiles : tiles[t].x + tiles[t].w <= Cols
    BY DEF GridInv, Sound, FitsGrid
  <2> QED
    BY <2>1, <2>2 DEF TilesFit
<1> QED
  BY <1>1, Invariance, PTL

\* NearHomeRestores: however the pointer wandered, back at its start it finds the layout
\* of the start.
THEOREM WanderingLeavesNoTrace == Spec => []NearHomeRestores
<1>1. GridInv => NearHomeRestores
  BY DEF GridInv, HeldInv, NearHomeRestores
<1> QED
  BY <1>1, Invariance, PTL

\* PushedNoFurther: a gesture moves no other tile sideways or up, and each only as far
\* down as another tile forces it to go.
THEOREM TilesGiveWayAsNeeded == Spec => []PushedNoFurther
<1>1. GridInv => PushedNoFurther
  <2> SUFFICES ASSUME GridInv, gesture # NoGesture, NEW t \in DOMAIN tiles \ {gesture.tile}
               PROVE  /\ tiles[t].x = base[t].x /\ tiles[t].y >= base[t].y
                      /\ tiles[t].y > base[t].y => \E s \in DOMAIN tiles \ {t} :
                           Cells(tiles[s]) \intersect Cells([tiles[t] EXCEPT !.y = @ - 1]) # {}
    BY DEF PushedNoFurther
  <2>1. /\ GivesWay(base, tiles, t) /\ Solid(tiles[t]) /\ Solid(base[t])
        /\ \A s \in DOMAIN tiles : Solid(tiles[s])
    BY DEF GridInv, HeldInv, Sound, Boxes
  <2>2. tiles[t].y \in Nat /\ base[t].y \in Nat
    BY <2>1 DEF Solid, Box
  <2>3. tiles[t].x = base[t].x /\ tiles[t].y >= base[t].y
    BY <2>1, <2>2 DEF GivesWay
  <2>4. ASSUME tiles[t].y > base[t].y
        PROVE  \E s \in DOMAIN tiles \ {t} :
                 Cells(tiles[s]) \intersect Cells([tiles[t] EXCEPT !.y = @ - 1]) # {}
    <3> DEFINE b == Lowered(tiles[t], tiles[t].y - 1)
    <3>1. PICK s \in DOMAIN tiles \ {t} : Collides(tiles[s], b)
      BY <2>1, <2>4 DEF GivesWay
    <3>2. tiles[t].y - 1 \in Nat
      BY <2>2, <2>4
    <3>3. Solid(b)
      BY <2>1, <3>2, LoweredIs
    <3>4. b = [tiles[t] EXCEPT !.y = @ - 1]
      BY DEF Lowered
    <3> HIDE DEF b
    <3>5. Cells(tiles[s]) \intersect Cells(b) # {}
      BY <2>1, <3>1, <3>3, CollideIsShare
    <3> QED
      BY <3>4, <3>5
  <2> QED
    BY <2>3, <2>4
<1> QED
  BY <1>1, Invariance, PTL
=============================================================================
