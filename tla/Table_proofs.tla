---------------------------- MODULE Table_proofs ----------------------------
(***************************************************************************)
(* Theorems about Table, for every set of columns, whatever their widths   *)
(* and minima are and however far the pointer moves: a table shows its     *)
(* columns once, a gesture takes no width, minima are kept, a column       *)
(* stays, and a reload changes nothing.                                    *)
(*                                                                         *)
(* The order of the columns is filtered and rebuilt, so that what Kept     *)
(* returns for every sequence comes first.  It is proved by induction, as  *)
(* the absence of a least counterexample.                                  *)
(***************************************************************************)
EXTENDS Table, WellFoundedInduction, TLAPS

-----------------------------------------------------------------------------
(***************************************************************************)
(* Induction                                                               *)
(***************************************************************************)

LEMMA LeastBy ==
  ASSUME NEW R, \A x, y \in Nat : y < x => <<y, x>> \in R,
         NEW T, T \subseteq Nat, \E x \in T : \A y \in T : ~(<<y, x>> \in R)
  PROVE  \E x \in T : \A y \in T : x <= y
<1>1. PICK x \in T : \A y \in T : ~(<<y, x>> \in R)
  OBVIOUS
<1>2. ASSUME NEW y \in T PROVE x <= y
  <2>1. x \in Nat /\ y \in Nat
    OBVIOUS
  <2>2. ~(y < x)
    BY <1>1, <2>1
  <2> QED
    BY <2>1, <2>2
<1> QED
  BY <1>2

\* A set of numbers that is not empty has a least one.
LEMMA Least ==
  ASSUME NEW T, T \subseteq Nat, T # {}
  PROVE  \E x \in T : \A y \in T : x <= y
<1>1. \E x \in T : \A y \in T : ~(<<y, x>> \in OpToRel(<, Nat))
  BY NatLessThanWellFounded, WFMin, Zenon
<1>2. \A x, y \in Nat : y < x => <<y, x>> \in OpToRel(<, Nat)
  BY DEF OpToRel
<1> QED
  BY <1>1, <1>2, LeastBy, Zenon

\* A set that has 0 and with every number below n the next one has all of 0..n.
LEMMA UpTo ==
  ASSUME NEW n \in Nat, NEW H, 0 \in H, \A i \in 1..n : i - 1 \in H => i \in H
  PROVE  \A i \in 0..n : i \in H
<1> DEFINE T == {i \in 0..n : i \notin H}
<1> SUFFICES ASSUME T # {} PROVE FALSE
  OBVIOUS
<1>1. T \subseteq Nat
  OBVIOUS
<1>2. PICK x \in T : \A y \in T : x <= y
  BY <1>1, Least
<1>3. x \in 1..n /\ x \notin H
  BY <1>2
<1>4. x - 1 \in 0..n /\ ~(x <= x - 1)
  BY <1>3
<1>5. x - 1 \in H
  BY <1>2, <1>4
<1> QED
  BY <1>3, <1>5

\* Sequences whose elements are all different.
LEMMA Appended ==
  ASSUME NEW D, NEW s \in Seq(D), IsInjective(s), NEW e \in D, e \notin ToSet(s)
  PROVE  /\ Append(s, e) \in Seq(D) /\ IsInjective(Append(s, e))
         /\ ToSet(Append(s, e)) = ToSet(s) \union {e}
<1> DEFINE t == Append(s, e)
<1>1. /\ t \in Seq(D) /\ DOMAIN t = 1..(Len(s) + 1) /\ Len(s) \in Nat /\ DOMAIN s = 1..Len(s)
      /\ t[Len(s) + 1] = e /\ \A i \in 1..Len(s) : t[i] = s[i]
  OBVIOUS
<1> HIDE DEF t
<1>2. \A i \in 1..(Len(s) + 1) : i = Len(s) + 1 \/ i \in 1..Len(s)
  BY <1>1
<1>3. \A i \in 1..Len(s) : s[i] # e
  BY <1>1 DEF ToSet
<1>4. IsInjective(t)
  BY <1>1, <1>2, <1>3 DEF IsInjective
<1>5. ToSet(t) = ToSet(s) \union {e}
  <2>1. \A c \in ToSet(t) : c \in ToSet(s) \union {e}
    BY <1>1, <1>2 DEF ToSet
  <2>2. e \in ToSet(t) /\ \A c \in ToSet(s) : c \in ToSet(t)
    BY <1>1 DEF ToSet
  <2> QED
    BY <2>1, <2>2
<1> QED
  BY <1>1, <1>4, <1>5 DEF t

\* s and then t, which have nothing in common.
LEMMA Joined ==
  ASSUME NEW D, NEW s \in Seq(D), NEW t \in Seq(D), IsInjective(s), IsInjective(t),
         ToSet(s) \intersect ToSet(t) = {}
  PROVE  /\ s \o t \in Seq(D) /\ IsInjective(s \o t)
         /\ ToSet(s \o t) = ToSet(s) \union ToSet(t)
<1> DEFINE u == s \o t
<1>1. /\ u \in Seq(D) /\ DOMAIN u = 1..(Len(s) + Len(t)) /\ Len(s) \in Nat /\ Len(t) \in Nat
      /\ DOMAIN s = 1..Len(s) /\ DOMAIN t = 1..Len(t)
      /\ \A i \in 1..Len(s) : u[i] = s[i]
      /\ \A i \in 1..(Len(s) + Len(t)) : i \notin 1..Len(s) =>
           i - Len(s) \in 1..Len(t) /\ u[i] = t[i - Len(s)]
  OBVIOUS
<1> HIDE DEF u
<1>2. \A i \in 1..Len(t) : i + Len(s) \in 1..(Len(s) + Len(t)) /\ u[i + Len(s)] = t[i]
  <2> TAKE i \in 1..Len(t)
  <2>1. /\ i + Len(s) \in 1..(Len(s) + Len(t)) /\ i + Len(s) \notin 1..Len(s)
        /\ i + Len(s) - Len(s) = i
    BY <1>1
  <2> QED
    BY <1>1, <2>1
<1>3. \A i \in 1..Len(s), j \in 1..Len(t) : s[i] # t[j]
  BY <1>1 DEF ToSet
<1>4. IsInjective(u)
  <2> SUFFICES ASSUME NEW i \in DOMAIN u, NEW j \in DOMAIN u, u[i] = u[j] PROVE i = j
    BY DEF IsInjective
  <2>1. CASE i \in 1..Len(s) /\ j \in 1..Len(s)
    BY <1>1, <2>1 DEF IsInjective
  <2>2. CASE i \notin 1..Len(s) /\ j \notin 1..Len(s)
    <3> DEFINE k == i - Len(s)
               m == j - Len(s)
    <3>1. k \in DOMAIN t /\ m \in DOMAIN t /\ u[i] = t[k] /\ u[j] = t[m]
      BY <1>1, <2>2
    <3>2. k = m
      BY <3>1, Zenon DEF IsInjective
    <3> QED
      BY <1>1, <3>2
  <2>3. CASE i \in 1..Len(s) /\ j \notin 1..Len(s)
    BY <1>1, <1>3, <2>3
  <2>4. CASE i \notin 1..Len(s) /\ j \in 1..Len(s)
    BY <1>1, <1>3, <2>4
  <2> QED
    BY <2>1, <2>2, <2>3, <2>4
<1>5. ToSet(u) = ToSet(s) \union ToSet(t)
  <2>1. \A c \in ToSet(u) : c \in ToSet(s) \union ToSet(t)
    BY <1>1 DEF ToSet
  <2>2. \A c \in ToSet(s) : c \in ToSet(u)
    BY <1>1 DEF ToSet
  <2>3. \A c \in ToSet(t) : c \in ToSet(u)
    <3>1. \A i \in 1..Len(t) : t[i] \in ToSet(u)
      BY <1>1, <1>2, Zenon DEF ToSet
    <3> QED
      BY <1>1, <3>1 DEF ToSet
  <2> QED
    BY <2>1, <2>2, <2>3
<1> QED
  BY <1>1, <1>4, <1>5 DEF u

\* A sequence with e inserted before its element at i.
LEMMA Inserted ==
  ASSUME NEW D, NEW s \in Seq(D), IsInjective(s), NEW i \in 1..Len(s),
         NEW e \in D, e \notin ToSet(s)
  PROVE  /\ InsertAt(s, i, e) \in Seq(D) /\ IsInjective(InsertAt(s, i, e))
         /\ ToSet(InsertAt(s, i, e)) = ToSet(s) \union {e}
<1> DEFINE a == SubSeq(s, 1, i - 1)
           b == SubSeq(s, i, Len(s))
<1>0. Len(s) \in Nat /\ DOMAIN s = 1..Len(s)
  OBVIOUS
<1>1. /\ a \in Seq(D) /\ Len(a) = i - 1 /\ DOMAIN a = 1..(i - 1)
      /\ \A j \in 1..(i - 1) : a[j] = s[j]
  BY <1>0
<1>2. /\ b \in Seq(D) /\ Len(b) = Len(s) - i + 1 /\ DOMAIN b = 1..(Len(s) - i + 1)
      /\ \A j \in 1..(Len(s) - i + 1) : b[j] = s[j + i - 1]
  BY <1>0
<1>3. InsertAt(s, i, e) = Append(a, e) \o b
  BY <1>1, <1>2 DEF InsertAt
<1> HIDE DEF a, b
<1>4. \A j \in 1..(i - 1) : j \in 1..Len(s)
  BY <1>0
<1>5. \A j \in 1..(Len(s) - i + 1) : j + i - 1 \in 1..Len(s) /\ j + i - 1 \notin 1..(i - 1)
  BY <1>0
<1>6. IsInjective(a)
  BY <1>0, <1>1, <1>4 DEF IsInjective
<1>7. IsInjective(b)
  <2> SUFFICES ASSUME NEW j \in DOMAIN b, NEW k \in DOMAIN b, b[j] = b[k] PROVE j = k
    BY DEF IsInjective
  <2>1. j + i - 1 = k + i - 1
    BY <1>0, <1>2, <1>5 DEF IsInjective
  <2> QED
    BY <1>2, <2>1
<1>8. e \notin ToSet(a) /\ e \notin ToSet(b)
  <2>1. \A j \in 1..Len(s) : s[j] # e
    BY <1>0 DEF ToSet
  <2> QED
    BY <1>1, <1>2, <1>4, <1>5, <2>1 DEF ToSet
<1>9. ToSet(a) \intersect ToSet(b) = {}
  <2>1. \A j \in 1..(i - 1), k \in 1..(Len(s) - i + 1) : a[j] # b[k]
    <3> SUFFICES ASSUME NEW j \in 1..(i - 1), NEW k \in 1..(Len(s) - i + 1), a[j] = b[k]
                 PROVE  FALSE
      OBVIOUS
    <3>1. s[j] = s[k + i - 1]
      BY <1>1, <1>2
    <3>2. j = k + i - 1
      BY <1>0, <1>4, <1>5, <3>1, Zenon DEF IsInjective
    <3> QED
      BY <1>5, <3>2
  <2> QED
    BY <1>1, <1>2, <2>1 DEF ToSet
<1>10. ToSet(a) \union ToSet(b) = ToSet(s)
  <2>1. \A c \in ToSet(a) \union ToSet(b) : c \in ToSet(s)
    BY <1>0, <1>1, <1>2, <1>4, <1>5 DEF ToSet
  <2>2. ASSUME NEW j \in 1..Len(s) PROVE s[j] \in ToSet(a) \union ToSet(b)
    <3>1. CASE j \in 1..(i - 1)
      BY <1>1, <3>1 DEF ToSet
    <3>2. CASE j \notin 1..(i - 1)
      <4>1. j - i + 1 \in 1..(Len(s) - i + 1) /\ (j - i + 1) + i - 1 = j
        BY <1>0, <3>2
      <4>2. b[j - i + 1] = s[j]
        BY <1>2, <4>1
      <4> QED
        BY <1>2, <4>1, <4>2 DEF ToSet
    <3> QED
      BY <3>1, <3>2
  <2>3. \A c \in ToSet(s) : c \in ToSet(a) \union ToSet(b)
    BY <1>0, <2>2 DEF ToSet
  <2> QED
    BY <2>1, <2>3
<1>11. /\ Append(a, e) \in Seq(D) /\ IsInjective(Append(a, e))
       /\ ToSet(Append(a, e)) = ToSet(a) \union {e}
  BY <1>1, <1>6, <1>8, Appended
<1> DEFINE ae == Append(a, e)
<1> HIDE DEF ae
<1>12. ae \in Seq(D) /\ IsInjective(ae) /\ ToSet(ae) = ToSet(a) \union {e}
  BY <1>11 DEF ae
<1>13. /\ ae \o b \in Seq(D) /\ IsInjective(ae \o b)
       /\ ToSet(ae \o b) = ToSet(ae) \union ToSet(b)
  BY <1>2, <1>7, <1>8, <1>9, <1>12, Joined
<1> QED
  BY <1>3, <1>10, <1>12, <1>13 DEF ae

-----------------------------------------------------------------------------
(***************************************************************************)
(* What Kept returns                                                       *)
(***************************************************************************)

\* Its recursion, and the recursion up to n.
Step(s, S, i, before) ==
  IF i = 0 THEN <<>> ELSE IF s[i] \in S THEN Append(before, s[i]) ELSE before
Keeps(f, s, S, n) == f = [i \in 0..n |-> Step(s, S, i, f[i - 1])]

LEMMA KeepsExists ==
  ASSUME NEW s, NEW S, NEW n \in Nat
  PROVE  \E f : Keeps(f, s, S, n)
<1> DEFINE H == {m \in 0..n : \E f : Keeps(f, s, S, m)}
<1>1. 0 \in H
  <2>1. Keeps([i \in 0..0 |-> <<>>], s, S, 0)
    BY DEF Keeps, Step
  <2> QED
    BY <2>1
<1>2. ASSUME NEW m \in 1..n, m - 1 \in H PROVE m \in H
  <2>1. PICK f : Keeps(f, s, S, m - 1)
    BY <1>2
  <2> DEFINE g == [i \in 0..m |-> IF i = m THEN Step(s, S, m, f[m - 1]) ELSE f[i]]
  <2>2. \A i \in 0..m : i - 1 \in 0..m => g[i - 1] = f[i - 1]
    OBVIOUS
  <2>3. ASSUME NEW i \in 0..m PROVE g[i] = Step(s, S, i, g[i - 1])
    <3>1. CASE i = 0
      BY <2>1, <3>1 DEF Keeps, Step
    <3>2. CASE i # 0 /\ i = m
      BY <2>2, <3>2
    <3>3. CASE i # 0 /\ i # m
      <4>1. i \in 0..(m - 1) /\ i - 1 \in 0..m
        BY <3>3
      <4>2. f[i] = Step(s, S, i, f[i - 1])
        BY <2>1, <4>1 DEF Keeps
      <4>3. g[i] = f[i]
        BY <3>3
      <4> QED
        BY <2>2, <4>1, <4>2, <4>3
    <3> QED
      BY <3>1, <3>2, <3>3
  <2>4. Keeps(g, s, S, m)
    BY <2>3 DEF Keeps
  <2> QED
    BY <2>4
<1> HIDE DEF H
<1>3. n \in H
  BY <1>1, <1>2, UpTo
<1> QED
  BY <1>3 DEF H

LEMMA KeptIs ==
  ASSUME NEW s, NEW S, Len(s) \in Nat
  PROVE  \E f : Keeps(f, s, S, Len(s)) /\ Kept(s, S) = f[Len(s)]
<1>1. Kept(s, S) = (CHOOSE f : Keeps(f, s, S, Len(s)))[Len(s)]
  BY Zenon DEF Kept, Keeps, Step
<1>2. Keeps((CHOOSE f : Keeps(f, s, S, Len(s))), s, S, Len(s))
  BY KeepsExists, Zenon
<1> QED
  BY <1>1, <1>2, Zenon

\* What filter returns: elements of s that are in S, each of them once.
Filtered(D, s, S, r) ==
  r \in Seq(D) /\ IsInjective(r) /\ ToSet(r) = ToSet(s) \intersect S

\* What it has after i steps: the first i elements of s that are in S, each once.
LEMMA KeptSteps ==
  ASSUME NEW D, NEW s \in Seq(D), IsInjective(s), NEW S, NEW f, Keeps(f, s, S, Len(s))
  PROVE  Filtered(D, s, S, f[Len(s)])
<1>a. Len(s) \in Nat
  OBVIOUS
<1>b. \A i \in 0..Len(s) : f[i] = Step(s, S, i, f[i - 1])
  BY Zenon DEF Keeps
<1> DEFINE Good(i) == /\ f[i] \in Seq(D) /\ IsInjective(f[i])
                      /\ \A c : c \in ToSet(f[i]) <=> c \in S /\ \E j \in 1..i : c = s[j]
           H == {i \in 0..Len(s) : Good(i)}
<1>0. Len(s) \in Nat /\ \A i \in 1..Len(s) : s[i] \in D
  OBVIOUS
<1>1. 0 \in H
  <2>0. 0 \in 0..Len(s)
    BY <1>a
  <2>1. f[0] = <<>>
    BY <1>b, <2>0, Zenon DEF Step
  <2>2. f[0] \in Seq(D) /\ IsInjective(f[0]) /\ ToSet(f[0]) = {}
    BY <2>1 DEF IsInjective, ToSet
  <2> QED
    BY <2>2, <1>0
<1>2. ASSUME NEW i \in 1..Len(s), i - 1 \in H PROVE i \in H
  <2>0. i \in 0..Len(s) /\ i # 0
    BY <1>a
  <2>1. /\ s[i] \in S => f[i] = Append(f[i - 1], s[i])
        /\ s[i] \notin S => f[i] = f[i - 1]
    BY <1>b, <2>0, Zenon DEF Step
  <2>2. Good(i - 1)
    BY <1>2
  <2>3. \A j : j \in 1..i <=> j = i \/ j \in 1..(i - 1)
    BY <1>0
  <2>4. CASE s[i] \notin S
    <3>1. f[i] = f[i - 1]
      BY <2>1, <2>4
    <3>2. \A c : c \in S => ((\E j \in 1..i : c = s[j]) <=> \E j \in 1..(i - 1) : c = s[j])
      BY <2>3, <2>4
    <3>3. Good(i)
      BY <2>2, <3>1, <3>2
    <3> QED
      BY <3>3
  <2>5. CASE s[i] \in S
    <3> DEFINE b == f[i - 1]
    <3>1. f[i] = Append(b, s[i]) /\ b \in Seq(D) /\ IsInjective(b) /\ s[i] \in D
      BY <1>0, <2>1, <2>2, <2>5
    <3>2. s[i] \notin ToSet(b)
      <4>1. \A j \in 1..(i - 1) : s[j] # s[i]
        BY <1>0 DEF IsInjective
      <4> QED
        BY <2>2, <4>1
    <3> HIDE DEF b
    <3>3. f[i] \in Seq(D) /\ IsInjective(f[i]) /\ ToSet(f[i]) = ToSet(b) \union {s[i]}
      BY <3>1, <3>2, Appended
    <3>4. \A c : c \in ToSet(b) <=> c \in S /\ \E j \in 1..(i - 1) : c = s[j]
      BY <2>2 DEF b
    <3>5. \A c : c \in ToSet(f[i]) <=> c \in S /\ \E j \in 1..i : c = s[j]
      BY <2>3, <2>5, <3>3, <3>4
    <3> QED
      BY <3>3, <3>5
  <2> QED
    BY <2>4, <2>5
<1> HIDE DEF H
<1>3. \A i \in 0..Len(s) : i \in H
  BY <1>0, <1>1, <1>2, UpTo
<1>4. Good(Len(s))
  <2>1. Len(s) \in H
    BY <1>a, <1>3
  <2> QED
    BY <2>1 DEF H
<1>5. \A c : c \in ToSet(s) <=> \E j \in 1..Len(s) : c = s[j]
  BY DEF ToSet
<1> HIDE DEF H
<1> QED
  BY <1>4, <1>5 DEF Filtered

\* filter returns the elements that are in S, each of them once.
LEMMA KeptFacts ==
  ASSUME NEW D, NEW s \in Seq(D), IsInjective(s), NEW S
  PROVE  /\ Kept(s, S) \in Seq(D) /\ IsInjective(Kept(s, S))
         /\ ToSet(Kept(s, S)) = ToSet(s) \intersect S
<1>1. Len(s) \in Nat /\ DOMAIN s = 1..Len(s)
  OBVIOUS
<1>2. PICK f : Keeps(f, s, S, Len(s)) /\ Kept(s, S) = f[Len(s)]
  BY <1>1, KeptIs
<1>3. s \in Seq(D) /\ IsInjective(s) /\ Keeps(f, s, S, Len(s))
  BY <1>2
<1>4. Filtered(D, s, S, f[Len(s)])
  BY <1>3, KeptSteps, Zenon
<1> QED
  BY <1>2, <1>4, Zenon DEF Filtered

\* It returns s itself when all of it is in S, and nothing when none of it is.
LEMMA KeptAll ==
  ASSUME NEW D, NEW s \in Seq(D), NEW S, ToSet(s) \subseteq S
  PROVE  Kept(s, S) = s
<1>1. Len(s) \in Nat /\ DOMAIN s = 1..Len(s)
  OBVIOUS
<1>2. PICK f : Keeps(f, s, S, Len(s)) /\ Kept(s, S) = f[Len(s)]
  BY <1>1, KeptIs
<1>a. Len(s) \in Nat
  BY <1>1
<1>b. \A i \in 0..Len(s) : f[i] = Step(s, S, i, f[i - 1])
  BY <1>2, Zenon DEF Keeps
<1>c. f[0] = <<>>
  <2>1. 0 \in 0..Len(s)
    BY <1>a
  <2> QED
    BY <1>b, <2>1, Zenon DEF Step
<1>d. ASSUME NEW i \in 1..Len(s)
      PROVE  i \in 0..Len(s) /\ i # 0 /\ f[i] = Step(s, S, i, f[i - 1])
  <2>1. i \in 0..Len(s) /\ i # 0
    BY <1>a
  <2> QED
    BY <1>b, <2>1, Zenon
<1> DEFINE H == {i \in 0..Len(s) : f[i] = SubSeq(s, 1, i)}
<1>3. 0 \in H
  <2>1. SubSeq(s, 1, 0) = <<>> /\ 0 \in 0..Len(s)
    BY <1>1
  <2> QED
    BY <1>c, <2>1
<1>4. ASSUME NEW i \in 1..Len(s), i - 1 \in H PROVE i \in H
  <2>1. s[i] \in S
    BY <1>1 DEF ToSet
  <2>2. f[i] = Append(f[i - 1], s[i])
    BY <1>d, <2>1, Zenon DEF Step
  <2>3. Append(SubSeq(s, 1, i - 1), s[i]) = SubSeq(s, 1, i)
    BY <1>1
  <2>4. f[i - 1] = SubSeq(s, 1, i - 1) /\ i \in 0..Len(s)
    BY <1>1, <1>4
  <2>5. f[i] = SubSeq(s, 1, i)
    BY <2>2, <2>3, <2>4, Zenon
  <2> QED
    BY <2>4, <2>5
<1> HIDE DEF H
<1>5. \A i \in 0..Len(s) : i \in H
  BY <1>1, <1>3, <1>4, UpTo
<1>6. Len(s) \in H
  BY <1>1, <1>5
<1>7. SubSeq(s, 1, Len(s)) = s
  OBVIOUS
<1> QED
  BY <1>2, <1>6, <1>7 DEF H

LEMMA KeptNone ==
  ASSUME NEW D, NEW s \in Seq(D), NEW S, ToSet(s) \intersect S = {}
  PROVE  Kept(s, S) = <<>>
<1>1. Len(s) \in Nat /\ DOMAIN s = 1..Len(s)
  OBVIOUS
<1>2. PICK f : Keeps(f, s, S, Len(s)) /\ Kept(s, S) = f[Len(s)]
  BY <1>1, KeptIs
<1>a. Len(s) \in Nat
  BY <1>1
<1>b. \A i \in 0..Len(s) : f[i] = Step(s, S, i, f[i - 1])
  BY <1>2, Zenon DEF Keeps
<1>c. f[0] = <<>>
  <2>1. 0 \in 0..Len(s)
    BY <1>a
  <2> QED
    BY <1>b, <2>1, Zenon DEF Step
<1>d. ASSUME NEW i \in 1..Len(s)
      PROVE  i \in 0..Len(s) /\ i # 0 /\ f[i] = Step(s, S, i, f[i - 1])
  <2>1. i \in 0..Len(s) /\ i # 0
    BY <1>a
  <2> QED
    BY <1>b, <2>1, Zenon
<1> DEFINE H == {i \in 0..Len(s) : f[i] = <<>>}
<1>3. 0 \in H
  BY <1>a, <1>c
<1>4. ASSUME NEW i \in 1..Len(s), i - 1 \in H PROVE i \in H
  <2>1. s[i] \notin S
    BY <1>1 DEF ToSet
  <2>2. f[i] = f[i - 1]
    BY <1>d, <2>1, Zenon DEF Step
  <2> QED
    BY <1>4, <2>2
<1> HIDE DEF H
<1>5. \A i \in 0..Len(s) : i \in H
  BY <1>1, <1>3, <1>4, UpTo
<1>6. Len(s) \in H
  BY <1>1, <1>5
<1> QED
  BY <1>2, <1>6 DEF H

-----------------------------------------------------------------------------
(***************************************************************************)
(* The columns that are derived                                            *)
(***************************************************************************)

\* A sequence of columns without a repetition.
Keys(s) == s \in Seq(Cols) /\ IsInjective(s)

LEMMA SetOf ==
  ASSUME NEW D, NEW s \in Seq(D)
  PROVE  ToSet(s) \subseteq D /\ Len(s) \in Nat /\ DOMAIN s = 1..Len(s)
         /\ (Len(s) > 0 => s[1] \in ToSet(s)) /\ (Len(s) = 0 => s = <<>>)
<1>1. Len(s) \in Nat /\ DOMAIN s = 1..Len(s) /\ \A i \in 1..Len(s) : s[i] \in D
  OBVIOUS
<1>2. Len(s) = 0 => s = <<>>
  OBVIOUS
<1> QED
  BY <1>1, <1>2 DEF ToSet

LEMMA Given ==
  ASSUME NEW v \in Views
  PROVE  /\ Keys(ColumnSets[v]) /\ Len(ColumnSets[v]) > 0
         /\ ToSet(ColumnSets[v]) \subseteq Cols /\ ToSet(ColumnSets[v]) # {}
         /\ ColumnSets[v] \in Range(ColumnSets)
<1>1. Keys(ColumnSets[v]) /\ Len(ColumnSets[v]) > 0
  BY TableAssumption DEF Keys
<1>2. ToSet(ColumnSets[v]) \subseteq Cols /\ ToSet(ColumnSets[v]) # {}
  BY <1>1, SetOf DEF Keys
<1> QED
  BY <1>1, <1>2 DEF Range, Views

\* What is shown, in the order of the layout, are the columns that are given.
LEMMA OrderedFacts ==
  ASSUME NEW v \in Views, NEW o, Keys(o)
  PROVE  Keys(OrderedKeys(v, o)) /\ ToSet(OrderedKeys(v, o)) = ToSet(ColumnSets[v])
<1> DEFINE g == ColumnSets[v]
           a == Kept(o, ToSet(g))
           b == Kept(g, Cols \ ToSet(o))
<1>1. g \in Seq(Cols) /\ IsInjective(g) /\ ToSet(g) \subseteq Cols
  BY Given DEF Keys
<1>2. o \in Seq(Cols) /\ IsInjective(o)
  BY DEF Keys
<1>3. a \in Seq(Cols) /\ IsInjective(a) /\ ToSet(a) = ToSet(o) \intersect ToSet(g)
  BY <1>2, KeptFacts
<1>4. b \in Seq(Cols) /\ IsInjective(b) /\ ToSet(b) = ToSet(g) \intersect (Cols \ ToSet(o))
  BY <1>1, KeptFacts
<1>5. OrderedKeys(v, o) = a \o b
  BY DEF OrderedKeys
<1> HIDE DEF a, b, g
<1>6. ToSet(a) \intersect ToSet(b) = {} /\ ToSet(a) \union ToSet(b) = ToSet(g)
  BY <1>1, <1>3, <1>4
<1>7. /\ a \o b \in Seq(Cols) /\ IsInjective(a \o b)
      /\ ToSet(a \o b) = ToSet(a) \union ToSet(b)
  BY <1>3, <1>4, <1>6, Joined
<1> QED
  BY <1>5, <1>6, <1>7 DEF Keys, g

\* What was ordered once keeps its order.
LEMMA OrderedTwice ==
  ASSUME NEW v \in Views, NEW o, Keys(o)
  PROVE  OrderedKeys(v, OrderedKeys(v, o)) = OrderedKeys(v, o)
<1> DEFINE g == ColumnSets[v]
           k == OrderedKeys(v, o)
<1>1. g \in Seq(Cols)
  BY Given DEF Keys
<1>2. k \in Seq(Cols) /\ ToSet(k) = ToSet(g)
  BY OrderedFacts DEF Keys
<1>3. OrderedKeys(v, k) = Kept(k, ToSet(g)) \o Kept(g, Cols \ ToSet(k))
  BY DEF OrderedKeys
<1> HIDE DEF g, k
<1>4. Kept(k, ToSet(g)) = k
  BY <1>2, KeptAll
<1>5. ToSet(g) \intersect (Cols \ ToSet(k)) = {}
  BY <1>2
<1>6. Kept(g, Cols \ ToSet(k)) = <<>>
  BY <1>1, <1>5, KeptNone
<1>7. k \o <<>> = k
  BY <1>2
<1>8. OrderedKeys(v, k) = k
  BY <1>3, <1>4, <1>6, <1>7
<1> QED
  BY <1>8 DEF k

\* The headers are the columns that are given and not hidden, each once.
LEMMA VisibleFacts ==
  ASSUME NEW v \in Views, NEW o, Keys(o), NEW h
  PROVE  Keys(VisibleOf(v, o, h)) /\ ToSet(VisibleOf(v, o, h)) = ToSet(ColumnSets[v]) \ h
<1> DEFINE k == OrderedKeys(v, o)
           n == Kept(k, Cols \ h)
<1>1. k \in Seq(Cols) /\ IsInjective(k) /\ ToSet(k) = ToSet(ColumnSets[v])
  BY OrderedFacts DEF Keys
<1>2. VisibleOf(v, o, h) = n
  BY DEF VisibleOf
<1>3. ToSet(ColumnSets[v]) \subseteq Cols
  BY Given
<1> HIDE DEF k
<1>4. n \in Seq(Cols) /\ IsInjective(n) /\ ToSet(n) = ToSet(k) \intersect (Cols \ h)
  BY <1>1, KeptFacts
<1> HIDE DEF n
<1> QED
  BY <1>1, <1>2, <1>3, <1>4 DEF Keys

-----------------------------------------------------------------------------
(***************************************************************************)
(* The invariant                                                           *)
(***************************************************************************)

\* The layout on the screen, and each one in the store, is an order, widths and
\* hidden columns.
Good(o, w, h) ==
  /\ Keys(o)
  /\ DOMAIN w \subseteq Cols /\ \A c \in DOMAIN w : w[c] \in Int
  /\ h \subseteq Cols

\* The widths are measured when a table is mounted, and never empty again.
LayoutInv ==
  /\ mounted \in BOOLEAN /\ switched \in BOOLEAN /\ view \in Views
  /\ Good(order, widths, hidden)
  /\ mounted => DOMAIN widths # {}

\* A border is between two columns, of a table that is on the screen.
GripInv ==
  grip # NoGrip => /\ mounted
                   /\ grip.left \in Cols /\ grip.right \in Cols /\ grip.left # grip.right
                   /\ grip.startLeft \in Int /\ grip.startRight \in Int

StoreInv ==
  /\ DOMAIN store = Range(ColumnSets)
  /\ \A k \in Range(ColumnSets) :
       /\ Good(store[k].order, store[k].widths, store[k].hidden)
       /\ store[k] # NoLayout => DOMAIN store[k].widths # {}

\* The store has the layout on the screen, also when the table was left.
SavedInv ==
  store[ColumnSets[view]] # NoLayout =>
    store[ColumnSets[view]] =
      [order |-> OrderedKeys(view, order), widths |-> widths, hidden |-> hidden]

\* While the table has only had its own columns, one of them is not hidden.
ShownInv ==
  ~switched /\ (mounted \/ store[ColumnSets[view]] # NoLayout) =>
    ToSet(ColumnSets[view]) \ hidden # {}

IInv == LayoutInv /\ GripInv /\ StoreInv /\ SavedInv /\ ShownInv

\* The layout after a handler: it has widths, and the store has it.
LEMMA LayoutStep ==
  ASSUME StoreInv, NEW v \in Views, NEW o, NEW w, NEW h, Good(o, w, h), Layout(v, o, w, h),
         DOMAIN w = {} => ToSet(ColumnSets[v]) \ h # {}
  PROVE  /\ Good(order', widths', hidden') /\ DOMAIN widths' # {}
         /\ DOMAIN store' = Range(ColumnSets)
         /\ \A k \in Range(ColumnSets) :
              /\ Good(store'[k].order, store'[k].widths, store'[k].hidden)
              /\ store'[k] # NoLayout => DOMAIN store'[k].widths # {}
         /\ store'[ColumnSets[v]] =
              [order |-> OrderedKeys(v, order'), widths |-> widths', hidden |-> hidden']
         /\ order' = o /\ hidden' = h /\ (DOMAIN w # {} => widths' = w)
<1> DEFINE g == ColumnSets[v]
           sw == Seeded(v, o, w, h)
           l == [order |-> OrderedKeys(v, o), widths |-> sw, hidden |-> h]
<1>1. g \in Range(ColumnSets) /\ Keys(o)
  BY Given DEF Good
<1>2. Keys(OrderedKeys(v, o))
  BY <1>1, OrderedFacts
<1>3. /\ DOMAIN sw \subseteq Cols /\ DOMAIN sw # {} /\ \A c \in DOMAIN sw : sw[c] \in Int
      /\ DOMAIN w # {} => sw = w
  <2>1. CASE DOMAIN w # {}
    BY <2>1 DEF Seeded, Good
  <2>2. CASE DOMAIN w = {}
    <3> DEFINE V == ToSet(VisibleOf(v, o, h))
    <3>1. V = ToSet(ColumnSets[v]) \ h
      BY <1>1, VisibleFacts
    <3>2. V \subseteq Cols /\ V # {}
      BY <2>2, <3>1, Given
    <3>3. sw = [c \in V |-> Natural[c]]
      BY <2>2 DEF Seeded
    <3> HIDE DEF V, sw
    <3>4. \A c \in Cols : Natural[c] \in Int
      BY TableAssumption
    <3> QED
      BY <2>2, <3>2, <3>3, <3>4
  <2> QED
    BY <2>1, <2>2
<1>4. order' = o /\ widths' = sw /\ hidden' = h /\ store' = [store EXCEPT ![g] = l]
  BY DEF Layout, Saved
<1> HIDE DEF sw
<1>5. Good(o, sw, h) /\ Good(l.order, l.widths, l.hidden)
  BY <1>2, <1>3 DEF Good
<1> HIDE DEF l
<1>6. DOMAIN store' = Range(ColumnSets) /\ store'[g] = l
      /\ \A k \in Range(ColumnSets) : k # g => store'[k] = store[k]
  BY <1>1, <1>4 DEF StoreInv
<1>7. l.widths = sw /\ l = [order |-> OrderedKeys(v, o), widths |-> sw, hidden |-> h]
  BY DEF l
<1>8. ASSUME NEW k \in Range(ColumnSets)
      PROVE  /\ Good(store'[k].order, store'[k].widths, store'[k].hidden)
             /\ store'[k] # NoLayout => DOMAIN store'[k].widths # {}
  <2>1. CASE k = g
    BY <1>3, <1>5, <1>6, <1>7, <2>1
  <2>2. CASE k # g
    BY <1>6, <2>2 DEF StoreInv
  <2> QED
    BY <2>1, <2>2
<1>9. /\ Good(order', widths', hidden') /\ DOMAIN widths' # {}
      /\ (DOMAIN w # {} => widths' = w)
  BY <1>3, <1>4, <1>5
<1>10. store'[ColumnSets[v]] =
         [order |-> OrderedKeys(v, order'), widths |-> widths', hidden |-> hidden']
  BY <1>4, <1>6, <1>7
<1> QED
  BY <1>4, <1>6, <1>8, <1>9, <1>10

LEMMA NoneIsGood == Good(<<>>, <<>>, {})
<1>1. <<>> \in Seq(Cols) /\ IsInjective(<<>>) /\ DOMAIN <<>> = {}
  BY DEF IsInjective
<1> QED
  BY <1>1 DEF Good, Keys

LEMMA InitInv == Init => IInv
<1> SUFFICES ASSUME Init PROVE IInv
  OBVIOUS
<1>1. LayoutInv
  BY NoneIsGood DEF Init, LayoutInv
<1>2. \A k \in Range(ColumnSets) : store[k] = NoLayout
  BY DEF Init
<1>3. StoreInv
  <2>1. DOMAIN store = Range(ColumnSets)
    BY DEF Init
  <2>2. NoLayout.order = <<>> /\ NoLayout.widths = <<>> /\ NoLayout.hidden = {}
    BY DEF NoLayout
  <2>3. ASSUME NEW k \in Range(ColumnSets)
        PROVE  /\ Good(store[k].order, store[k].widths, store[k].hidden)
               /\ store[k] = NoLayout
    BY <1>2, <2>2, NoneIsGood
  <2> QED
    BY <2>1, <2>3 DEF StoreInv
<1>4. store[ColumnSets[view]] = NoLayout
  BY <1>2, Given DEF Init
<1>5. GripInv /\ SavedInv /\ ShownInv
  BY <1>4 DEF Init, GripInv, SavedInv, ShownInv
<1> QED
  BY <1>1, <1>3, <1>5 DEF IInv

\* A handler that leaves the tab alone and hides no last column.
LEMMA LayoutInvStep ==
  ASSUME IInv, NEW o, NEW w, NEW h, Good(o, w, h), Layout(view, o, w, h),
         mounted' = TRUE, view' = view, switched' = switched, GripInv',
         DOMAIN w = {} => ToSet(ColumnSets[view]) \ h # {},
         ~switched => ToSet(ColumnSets[view]) \ h # {}
  PROVE  IInv'
<1>1. view \in Views /\ StoreInv
  BY DEF IInv, LayoutInv
<1>2. /\ Good(order', widths', hidden') /\ DOMAIN widths' # {}
      /\ DOMAIN store' = Range(ColumnSets)
      /\ \A k \in Range(ColumnSets) :
           /\ Good(store'[k].order, store'[k].widths, store'[k].hidden)
           /\ store'[k] # NoLayout => DOMAIN store'[k].widths # {}
      /\ store'[ColumnSets[view]] =
           [order |-> OrderedKeys(view, order'), widths |-> widths', hidden |-> hidden']
      /\ hidden' = h
  BY <1>1, LayoutStep, Zenon
<1>3. LayoutInv' /\ StoreInv' /\ SavedInv'
  BY <1>1, <1>2 DEF IInv, LayoutInv, StoreInv, SavedInv
<1>4. ShownInv'
  BY <1>2 DEF ShownInv
<1> QED
  BY <1>3, <1>4 DEF IInv

LEMMA MountInv == IInv /\ Mount => IInv'
<1> SUFFICES ASSUME IInv, Mount PROVE IInv'
  OBVIOUS
<1> DEFINE s == store[ColumnSets[view]]
<1>0. view \in Views /\ view' = view /\ switched' = switched /\ mounted' = TRUE /\ GripInv'
  BY DEF IInv, LayoutInv, Mount, GripInv
<1>1. CASE s = NoLayout
  <2>1. Layout(view, ColumnSets[view], <<>>, {})
    BY <1>1 DEF Mount, MountWith
  <2>2. Good(ColumnSets[view], <<>>, {})
    BY <1>0, Given, NoneIsGood DEF Good
  <2>3. ToSet(ColumnSets[view]) \ {} # {}
    BY <1>0, Given
  <2> QED
    BY <1>0, <2>1, <2>2, <2>3, LayoutInvStep
<1>2. CASE s # NoLayout
  <2>1. Layout(view, s.order, s.widths, s.hidden)
    BY <1>2 DEF Mount, MountWith
  <2>2. Good(s.order, s.widths, s.hidden) /\ DOMAIN s.widths # {}
    BY <1>0, <1>2, Given DEF IInv, StoreInv
  <2>3. s.hidden = hidden
    BY <1>2 DEF IInv, SavedInv
  <2>4. ~switched => ToSet(ColumnSets[view]) \ s.hidden # {}
    BY <1>2, <2>3 DEF IInv, ShownInv
  <2> HIDE DEF s
  <2> QED
    BY <1>0, <2>1, <2>2, <2>4, LayoutInvStep
<1> QED
  BY <1>1, <1>2

LEMMA SwitchInv ==
  ASSUME IInv, NEW v \in Views, SwitchView(v)
  PROVE  IInv'
<1> DEFINE l == [order |-> OrderedKeys(v, order), widths |-> widths, hidden |-> hidden]
<1>1. /\ ColumnSets[v] \in Range(ColumnSets) /\ Good(order, widths, hidden)
      /\ DOMAIN widths # {}
  BY Given DEF IInv, LayoutInv, SwitchView
<1>2. Keys(OrderedKeys(v, order))
  BY <1>1, OrderedFacts DEF Good
<1>3. Good(l.order, l.widths, l.hidden) /\ DOMAIN l.widths # {}
  BY <1>1, <1>2 DEF Good
<1>4. store' = [store EXCEPT ![ColumnSets[v]] = l]
  BY DEF SwitchView, Saved
<1> HIDE DEF l
<1>5. DOMAIN store' = Range(ColumnSets) /\ store'[ColumnSets[v]] = l
      /\ \A k \in Range(ColumnSets) : k # ColumnSets[v] => store'[k] = store[k]
  BY <1>1, <1>4 DEF IInv, StoreInv
<1>6. StoreInv'
  BY <1>3, <1>5 DEF IInv, StoreInv
<1>7. /\ view' = v /\ mounted' = mounted /\ order' = order /\ widths' = widths
      /\ hidden' = hidden /\ grip' = grip /\ switched' = TRUE
  BY DEF SwitchView
<1>8. LayoutInv' /\ GripInv' /\ ShownInv'
  BY <1>7 DEF IInv, LayoutInv, GripInv, ShownInv
<1>9. SavedInv'
  BY <1>5, <1>7 DEF SavedInv, l
<1> QED
  BY <1>6, <1>8, <1>9 DEF IInv

\* Two headers that stand beside each other are two columns.
LEMMA DownInv ==
  ASSUME IInv, NEW i \in Nat, i > 0, ResizeDown(i)
  PROVE  IInv'
<1> DEFINE vc == visibleCols
<1>1. Keys(vc)
  BY VisibleFacts DEF IInv, LayoutInv, Good, visibleCols
<1>2. i \in DOMAIN vc /\ i + 1 \in DOMAIN vc
  <2>1. Len(vc) \in Nat /\ DOMAIN vc = 1..Len(vc) /\ i + 1 \in DOMAIN vc
    BY <1>1, SetOf DEF Keys, ResizeDown
  <2> QED
    BY <2>1
<1>3. vc[i] \in Cols /\ vc[i + 1] \in Cols /\ vc[i] # vc[i + 1]
  <2> HIDE DEF vc
  <2> QED
    BY <1>1, <1>2 DEF Keys, IsInjective
<1>4. \A c \in Cols : colWidth(c) \in Int
  BY TableAssumption DEF IInv, LayoutInv, Good, colWidth
<1>5. /\ grip'.left = vc[i] /\ grip'.right = vc[i + 1]
      /\ grip'.startLeft = colWidth(vc[i]) /\ grip'.startRight = colWidth(vc[i + 1])
  BY DEF ResizeDown
<1>6. mounted' = TRUE
  BY DEF ResizeDown, IInv, LayoutInv
<1> HIDE DEF vc
<1>7. GripInv'
  BY <1>3, <1>4, <1>5, <1>6 DEF GripInv
<1>8. /\ view' = view /\ mounted' = mounted /\ order' = order /\ widths' = widths
      /\ hidden' = hidden /\ store' = store /\ switched' = switched
  BY DEF ResizeDown
<1>9. LayoutInv' /\ StoreInv' /\ SavedInv' /\ ShownInv'
  BY <1>8 DEF IInv, LayoutInv, StoreInv, SavedInv, ShownInv
<1> QED
  BY <1>7, <1>9 DEF IInv

\* The move of the pointer that is followed is a number, as the move is.
LEMMA ClampInt ==
  ASSUME NEW g, g.left \in Cols, g.right \in Cols, g.startLeft \in Int, g.startRight \in Int,
         NEW delta \in Int
  PROVE  /\ Clamp(g, delta) \in Int
         /\ Clamp(g, delta) <= g.startRight - MinWidth[g.right]
         /\ MinWidth[g.left] + MinWidth[g.right] <= g.startLeft + g.startRight =>
              MinWidth[g.left] <= g.startLeft + Clamp(g, delta)
<1>1. MinWidth[g.left] \in Int /\ MinWidth[g.right] \in Int
  BY TableAssumption
<1> QED
  BY <1>1 DEF Clamp

LEMMA MoveFacts ==
  ASSUME IInv, NEW delta \in Int, ResizeMove(delta)
  PROVE  \E d \in Int :
           /\ Good(order, Pair(widths, grip, d), hidden)
           /\ DOMAIN Pair(widths, grip, d) # {}
           /\ Layout(view, order, Pair(widths, grip, d), hidden)
           /\ d = Clamp(grip, delta)
<1> DEFINE d == Clamp(grip, delta)
           p == Pair(widths, grip, d)
<1>1. /\ grip.left \in Cols /\ grip.right \in Cols /\ grip.left # grip.right
      /\ grip.startLeft \in Int /\ grip.startRight \in Int
  BY DEF IInv, GripInv, ResizeMove
<1>2. d \in Int
  BY <1>1, ClampInt
<1>3. Layout(view, order, p, hidden)
  BY DEF ResizeMove
<1> HIDE DEF d
<1>4. /\ DOMAIN p = DOMAIN widths \union {grip.left, grip.right}
      /\ p[grip.left] = grip.startLeft + d /\ p[grip.right] = grip.startRight - d
      /\ \A c \in DOMAIN widths : c # grip.left /\ c # grip.right => p[c] = widths[c]
  BY <1>1 DEF Pair
<1> HIDE DEF p
<1>5. Good(order, p, hidden) /\ DOMAIN p # {}
  BY <1>1, <1>2, <1>4 DEF IInv, LayoutInv, Good
<1> QED
  BY <1>2, <1>3, <1>5 DEF p, d

LEMMA MoveInv ==
  ASSUME IInv, NEW delta \in Int, ResizeMove(delta)
  PROVE  IInv'
<1>1. PICK d \in Int : /\ Good(order, Pair(widths, grip, d), hidden)
                       /\ DOMAIN Pair(widths, grip, d) # {}
                       /\ Layout(view, order, Pair(widths, grip, d), hidden)
  BY MoveFacts
<1>2. mounted' = TRUE /\ view' = view /\ switched' = switched /\ GripInv'
  BY DEF IInv, GripInv, LayoutInv, ResizeMove
<1>3. ~switched => ToSet(ColumnSets[view]) \ hidden # {}
  BY DEF IInv, GripInv, ShownInv, ResizeMove
<1> DEFINE p == Pair(widths, grip, d)
<1>4. Good(order, p, hidden) /\ DOMAIN p # {} /\ Layout(view, order, p, hidden)
  BY <1>1
<1> HIDE DEF p
<1> QED
  BY <1>2, <1>3, <1>4, LayoutInvStep

LEMMA ReorderInv ==
  ASSUME IInv, NEW from \in Cols, NEW to \in Cols, reorderColumn(from, to)
  PROVE  IInv'
<1> DEFINE k == OrderedKeys(view, order)
           rest == Kept(k, Cols \ {from})
           at == CHOOSE i \in DOMAIN rest : rest[i] = to
           o == InsertAt(rest, at, from)
<1>1. view \in Views /\ Keys(order)
  BY DEF IInv, LayoutInv, Good
<1>2. Keys(k) /\ ToSet(k) = ToSet(ColumnSets[view])
  BY <1>1, OrderedFacts
<1>3. to # from /\ to \in ToSet(k)
  BY <1>1, <1>2, VisibleFacts DEF reorderColumn, visibleCols
<1>4. Layout(view, o, widths, hidden)
  BY DEF reorderColumn
<1> HIDE DEF k
<1>5. rest \in Seq(Cols) /\ IsInjective(rest) /\ ToSet(rest) = ToSet(k) \intersect (Cols \ {from})
  BY <1>2, KeptFacts DEF Keys
<1> HIDE DEF rest
<1>6. at \in 1..Len(rest)
  <2>1. DOMAIN rest = 1..Len(rest) /\ \E i \in DOMAIN rest : rest[i] = to
    BY <1>3, <1>5 DEF ToSet
  <2> QED
    BY <2>1
<1>7. from \notin ToSet(rest)
  BY <1>5
<1> HIDE DEF at
<1>8. o \in Seq(Cols) /\ IsInjective(o)
  BY <1>5, <1>6, <1>7, Inserted
<1> HIDE DEF o
<1>9. Good(o, widths, hidden) /\ DOMAIN widths # {}
  BY <1>8 DEF IInv, LayoutInv, Good, Keys, reorderColumn
<1>10. /\ mounted' = TRUE /\ view' = view /\ switched' = switched /\ GripInv'
       /\ ~switched => ToSet(ColumnSets[view]) \ hidden # {}
  BY DEF IInv, LayoutInv, GripInv, ShownInv, reorderColumn
<1> QED
  BY <1>4, <1>9, <1>10, LayoutInvStep

\* Of two visible columns one stays when the other is hidden.
LEMMA ToggleInv ==
  ASSUME IInv, NEW c \in Cols, toggleColumn(c)
  PROVE  IInv'
<1> DEFINE h == IF c \in hidden THEN hidden \ {c} ELSE hidden \union {c}
<1>1. view \in Views /\ Keys(order) /\ Good(order, widths, h) /\ DOMAIN widths # {}
  BY DEF IInv, LayoutInv, Good, toggleColumn
<1>2. /\ mounted' = TRUE /\ view' = view /\ switched' = switched /\ GripInv'
      /\ Layout(view, order, widths, h) /\ c \in ToSet(ColumnSets[view])
      /\ ~switched => ToSet(ColumnSets[view]) \ hidden # {}
      /\ c \in hidden \/ Len(visibleCols) > 1
  BY DEF IInv, LayoutInv, GripInv, ShownInv, toggleColumn
<1>3. ToSet(ColumnSets[view]) \ h # {}
  <2>1. CASE c \in hidden
    BY <1>2, <2>1
  <2>2. CASE c \notin hidden
    <3> DEFINE vc == visibleCols
    <3>1. Keys(vc) /\ ToSet(vc) = ToSet(ColumnSets[view]) \ hidden /\ Len(vc) > 1
      BY <1>1, <1>2, <2>2, VisibleFacts DEF visibleCols
    <3> HIDE DEF vc
    <3>2. Len(vc) \in Nat /\ DOMAIN vc = 1..Len(vc)
      BY <3>1, SetOf DEF Keys
    <3>3. vc[1] \in ToSet(vc) /\ vc[2] \in ToSet(vc) /\ vc[1] # vc[2]
      BY <3>1, <3>2 DEF Keys, IsInjective, ToSet
    <3> QED
      BY <2>2, <3>1, <3>3
  <2> QED
    BY <2>1, <2>2
<1> HIDE DEF h
<1> QED
  BY <1>1, <1>2, <1>3, LayoutInvStep

LEMMA ResetInv == IInv /\ resetLayout => IInv'
<1> SUFFICES ASSUME IInv, resetLayout PROVE IInv'
  OBVIOUS
<1>1. view \in Views
  BY DEF IInv, LayoutInv
<1>2. /\ Good(ColumnSets[view], <<>>, {}) /\ ToSet(ColumnSets[view]) \ {} # {}
  BY <1>1, Given, NoneIsGood DEF Good
<1>3. /\ mounted' = TRUE /\ view' = view /\ switched' = switched /\ GripInv'
      /\ Layout(view, ColumnSets[view], <<>>, {})
  BY DEF IInv, LayoutInv, GripInv, resetLayout
<1> QED
  BY <1>2, <1>3, LayoutInvStep

LEMMA IdleInv ==
  ASSUME IInv, UNCHANGED <<view, order, widths, hidden, store, switched>>,
         mounted' \in BOOLEAN, mounted' => mounted, GripInv'
  PROVE  IInv'
  BY DEF IInv, LayoutInv, StoreInv, SavedInv, ShownInv

LEMMA NextInv == IInv /\ [Next]_vars => IInv'
<1> SUFFICES ASSUME IInv, [Next]_vars PROVE IInv'
  OBVIOUS
<1>1. CASE Mount
  BY <1>1, MountInv
<1>2. CASE Unmount
  <2>1. GripInv' /\ mounted' \in BOOLEAN /\ (mounted' => mounted)
    BY <1>2 DEF Unmount, GripInv
  <2> QED
    BY <1>2, <2>1, IdleInv DEF Unmount
<1>3. CASE \E v \in Views : SwitchView(v)
  BY <1>3, SwitchInv
<1>4. CASE \E i \in 1..(Len(visibleCols) - 1) : ResizeDown(i)
  <2>1. PICK i \in 1..(Len(visibleCols) - 1) : ResizeDown(i)
    BY <1>4
  <2>2. Len(visibleCols) \in Nat
    BY VisibleFacts, SetOf DEF IInv, LayoutInv, Good, visibleCols, Keys
  <2>3. i \in Nat /\ i > 0
    BY <2>2
  <2> QED
    BY <2>1, <2>3, DownInv
<1>5. CASE \E delta \in -MaxMove..MaxMove : ResizeMove(delta)
  <2>1. -MaxMove..MaxMove \subseteq Int
    BY TableAssumption
  <2> QED
    BY <1>5, <2>1, MoveInv
<1>6. CASE ResizeUp
  <2>1. GripInv' /\ mounted' \in BOOLEAN /\ (mounted' => mounted)
    BY <1>6 DEF ResizeUp, GripInv, IInv, LayoutInv
  <2> QED
    BY <1>6, <2>1, IdleInv DEF ResizeUp
<1>7. CASE \E from, to \in Cols : reorderColumn(from, to)
  BY <1>7, ReorderInv
<1>8. CASE \E c \in Cols : toggleColumn(c)
  BY <1>8, ToggleInv
<1>9. CASE resetLayout
  BY <1>9, ResetInv
<1>10. CASE UNCHANGED vars
  <2>1. GripInv' /\ mounted' \in BOOLEAN /\ (mounted' => mounted)
    BY <1>10 DEF vars, GripInv, IInv, LayoutInv
  <2> QED
    BY <1>10, <2>1, IdleInv DEF vars
<1> QED
  BY <1>1, <1>2, <1>3, <1>4, <1>5, <1>6, <1>7, <1>8, <1>9, <1>10 DEF Next

THEOREM Invariance == Spec => []IInv
<1>1. Init => IInv
  BY InitInv
<1>2. IInv /\ [Next]_vars => IInv'
  BY NextInv
<1> QED
  BY <1>1, <1>2, PTL DEF Spec

-----------------------------------------------------------------------------
(***************************************************************************)
(* What a table shows                                                      *)
(***************************************************************************)

\* TypeOK: whatever is dragged, hidden, switched and loaded, the headers are the
\* columns that are not hidden, each of them once.
THEOREM TypeCorrect == Spec => []TypeOK
<1>1. IInv => TypeOK
  <2> SUFFICES ASSUME IInv PROVE TypeOK
    OBVIOUS
  <2>1. /\ view \in Views /\ Keys(order) /\ DOMAIN widths \subseteq Cols
        /\ \A c \in DOMAIN widths : widths[c] \in Int
    BY DEF IInv, LayoutInv, Good
  <2>2. Keys(visibleCols) /\ ToSet(visibleCols) = ToSet(ColumnSets[view]) \ hidden
    BY <2>1, VisibleFacts DEF visibleCols
  <2>3. ToSet(order) \subseteq Cols /\ IsInjective(order) /\ Range(widths) \subseteq Int
    BY <2>1, SetOf DEF Keys, Range
  <2> QED
    BY <2>1, <2>2, <2>3 DEF IInv, LayoutInv, Good, TypeOK, Keys
<1> QED
  BY <1>1, Invariance, PTL

\* AColumnIsVisible: the last visible column cannot be hidden, by the menu or by what
\* was stored, as long as the table has its own columns.
THEOREM SomethingToSee == Spec => []AColumnIsVisible
<1>1. IInv => AColumnIsVisible
  <2> SUFFICES ASSUME IInv, mounted, ~switched PROVE visibleCols # <<>>
    BY DEF AColumnIsVisible
  <2>1. ToSet(visibleCols) # {}
    BY VisibleFacts DEF IInv, LayoutInv, Good, ShownInv, visibleCols
  <2>2. ToSet(<<>>) = {}
    BY DEF ToSet
  <2> QED
    BY <2>1, <2>2
<1> QED
  BY <1>1, Invariance, PTL

\* ReloadChangesNothing: what is saved after every change is what a table is mounted
\* with, so that it looks as it did, though the order it has is another one.
THEOREM SameAfterReload == Spec => ReloadChangesNothing
<1> DEFINE Same == (~mounted /\ mounted' /\ store[ColumnSets[view]] # NoLayout) =>
                     /\ visibleCols' = visibleCols
                     /\ \A c \in ToSet(visibleCols) : colWidth(c)' = colWidth(c)
<1>1. IInv /\ [Next]_vars => [Same]_vars
  <2> SUFFICES ASSUME IInv, [Next]_vars, ~mounted, mounted', store[ColumnSets[view]] # NoLayout
               PROVE  /\ visibleCols' = visibleCols
                      /\ \A c \in ToSet(visibleCols) : colWidth(c)' = colWidth(c)
    OBVIOUS
  <2>1. Mount
    <3>1. mounted' # mounted /\ grip = NoGrip
      BY DEF IInv, LayoutInv, GripInv
    <3> QED
      BY <3>1 DEF Next, vars, Unmount, SwitchView, ResizeDown, ResizeMove, ResizeUp,
                  reorderColumn, toggleColumn, resetLayout
  <2> DEFINE s == store[ColumnSets[view]]
  <2>2. s = [order |-> OrderedKeys(view, order), widths |-> widths, hidden |-> hidden]
    BY DEF IInv, SavedInv
  <2>3. Layout(view, s.order, s.widths, s.hidden) /\ view' = view
    BY <2>1 DEF Mount, MountWith
  <2>4. view \in Views /\ Keys(order) /\ StoreInv
    BY DEF IInv, LayoutInv, Good
  <2>5. Good(s.order, s.widths, s.hidden) /\ DOMAIN s.widths # {}
    BY <2>4, Given DEF StoreInv
  <2> HIDE DEF s
  <2>6. order' = s.order /\ hidden' = s.hidden /\ widths' = s.widths
    BY <2>3, <2>4, <2>5, LayoutStep
  <2>7. order' = OrderedKeys(view, order) /\ hidden' = hidden /\ widths' = widths
    BY <2>2, <2>6
  <2>8. visibleCols' = VisibleOf(view, OrderedKeys(view, order), hidden)
    BY <2>3, <2>7 DEF visibleCols
  <2>9. visibleCols' = visibleCols
    BY <2>4, <2>8, OrderedTwice DEF visibleCols, VisibleOf
  <2>10. \A c \in ToSet(visibleCols) : colWidth(c)' = colWidth(c)
    BY <2>7 DEF colWidth
  <2> QED
    BY <2>9, <2>10
<1> QED
  BY <1>1, Invariance, PTL DEF Spec, ReloadChangesNothing

-----------------------------------------------------------------------------
(***************************************************************************)
(* Widths                                                                  *)
(***************************************************************************)

\* The pair after a move of the pointer: nothing of its width is lost, and with room
\* for both minima both are kept.
LEMMA MovedPair ==
  ASSUME IInv, NEW delta \in Int, ResizeMove(delta)
  PROVE  LET d == Clamp(grip, delta) IN
           /\ grip' = grip /\ d \in Int
           /\ widths' = Pair(widths, grip, d)
           /\ DOMAIN widths' = DOMAIN widths \union {grip.left, grip.right}
           /\ widths'[grip.left] = grip.startLeft + d
           /\ widths'[grip.right] = grip.startRight - d
           /\ \A c \in DOMAIN widths : c # grip.left /\ c # grip.right => widths'[c] = widths[c]
           /\ d <= grip.startRight - MinWidth[grip.right]
           /\ MinWidth[grip.left] + MinWidth[grip.right] <= grip.startLeft + grip.startRight =>
                MinWidth[grip.left] <= grip.startLeft + d
<1> DEFINE d == Clamp(grip, delta)
           p == Pair(widths, grip, d)
<1>1. /\ grip.left \in Cols /\ grip.right \in Cols /\ grip.left # grip.right
      /\ grip.startLeft \in Int /\ grip.startRight \in Int /\ grip' = grip
  BY DEF IInv, GripInv, ResizeMove
<1>2. /\ d \in Int /\ d <= grip.startRight - MinWidth[grip.right]
      /\ MinWidth[grip.left] + MinWidth[grip.right] <= grip.startLeft + grip.startRight =>
           MinWidth[grip.left] <= grip.startLeft + d
  BY <1>1, ClampInt
<1>3. Good(order, p, hidden) /\ DOMAIN p # {} /\ Layout(view, order, p, hidden)
  BY MoveFacts
<1>4. StoreInv /\ view \in Views
  BY DEF IInv, LayoutInv
<1> HIDE DEF d
<1>5. /\ DOMAIN p = DOMAIN widths \union {grip.left, grip.right}
      /\ p[grip.left] = grip.startLeft + d /\ p[grip.right] = grip.startRight - d
      /\ \A c \in DOMAIN widths : c # grip.left /\ c # grip.right => p[c] = widths[c]
  BY <1>1 DEF Pair
<1>6. p = Pair(widths, grip, d)
  OBVIOUS
<1> HIDE DEF p
<1>7. widths' = p
  BY <1>3, <1>4, LayoutStep
<1>8. /\ grip' = grip /\ d \in Int
      /\ widths' = Pair(widths, grip, d)
      /\ DOMAIN widths' = DOMAIN widths \union {grip.left, grip.right}
      /\ widths'[grip.left] = grip.startLeft + d
      /\ widths'[grip.right] = grip.startRight - d
      /\ \A c \in DOMAIN widths : c # grip.left /\ c # grip.right => widths'[c] = widths[c]
      /\ d <= grip.startRight - MinWidth[grip.right]
      /\ MinWidth[grip.left] + MinWidth[grip.right] <= grip.startLeft + grip.startRight =>
           MinWidth[grip.left] <= grip.startLeft + d
  BY <1>1, <1>2, <1>5, <1>6, <1>7
<1> QED
  BY <1>8 DEF d

LEMMA FitsStep == IInv /\ PairFits /\ [Next]_vars => PairFits'
<1> SUFFICES ASSUME IInv, PairFits, [Next]_vars, grip' # NoGrip
             PROVE  LET total == grip'.startLeft + grip'.startRight IN
      /\ colWidth(grip.left)' + colWidth(grip.right)' = total
      /\ total >= MinWidth[grip'.left] + MinWidth[grip'.right]
         /\ grip'.startLeft >= MinWidth[grip'.left] /\ grip'.startRight >= MinWidth[grip'.right]
         => /\ colWidth(grip.left)' >= MinWidth[grip'.left]
            /\ colWidth(grip.right)' >= MinWidth[grip'.right]
  BY DEF PairFits
<1>1. CASE grip' = grip /\ widths' = widths
  BY <1>1 DEF PairFits, colWidth
<1>2. CASE \E i \in 1..(Len(visibleCols) - 1) : ResizeDown(i)
  <2>1. PICK i \in 1..(Len(visibleCols) - 1) : ResizeDown(i)
    BY <1>2
  <2>2. widths' = widths /\ grip'.startLeft = colWidth(grip'.left)
        /\ grip'.startRight = colWidth(grip'.right)
    BY <2>1 DEF ResizeDown
  <2>3. colWidth(grip.left)' = grip'.startLeft /\ colWidth(grip.right)' = grip'.startRight
    BY <2>2 DEF colWidth
  <2> QED
    BY <2>3
<1>3. CASE \E delta \in -MaxMove..MaxMove : ResizeMove(delta)
  <2>1. PICK delta \in -MaxMove..MaxMove : ResizeMove(delta)
    BY <1>3
  <2>2. delta \in Int
    BY TableAssumption
  <2> DEFINE d == Clamp(grip, delta)
  <2>3. /\ grip' = grip /\ d \in Int
        /\ DOMAIN widths' = DOMAIN widths \union {grip.left, grip.right}
        /\ widths'[grip.left] = grip.startLeft + d
        /\ widths'[grip.right] = grip.startRight - d
        /\ d <= grip.startRight - MinWidth[grip.right]
        /\ MinWidth[grip.left] + MinWidth[grip.right] <= grip.startLeft + grip.startRight =>
             MinWidth[grip.left] <= grip.startLeft + d
    BY <2>1, <2>2, MovedPair
  <2> HIDE DEF d
  <2>4. /\ colWidth(grip.left)' = grip.startLeft + d
        /\ colWidth(grip.right)' = grip.startRight - d
    BY <2>3 DEF colWidth
  <2>5. /\ grip.left \in Cols /\ grip.right \in Cols
        /\ grip.startLeft \in Int /\ grip.startRight \in Int
    BY <2>1 DEF IInv, GripInv, ResizeMove
  <2>6. MinWidth[grip.left] \in Int /\ MinWidth[grip.right] \in Int
    BY <2>5, TableAssumption
  <2> QED
    BY <2>3, <2>4, <2>5, <2>6
<1>4. \/ grip' = grip /\ grip # NoGrip
      \/ \E i \in 1..(Len(visibleCols) - 1) : ResizeDown(i)
  BY DEF Next, vars, Mount, Unmount, SwitchView, ResizeMove, ResizeUp, reorderColumn,
         toggleColumn, resetLayout, IInv, GripInv, LayoutInv
<1>5. CASE grip' = grip /\ grip # NoGrip
  <2>1. mounted = TRUE
    BY <1>5 DEF IInv, LayoutInv, GripInv
  <2>2. widths' = widths \/ \E delta \in -MaxMove..MaxMove : ResizeMove(delta)
    BY <1>5, <2>1 DEF Next, vars, Mount, Unmount, SwitchView, ResizeDown, ResizeUp,
                      reorderColumn, toggleColumn, resetLayout
  <2> QED
    BY <1>1, <1>3, <1>5, <2>2
<1> QED
  BY <1>2, <1>4, <1>5

\* PairFits: a gesture moves width between the two columns of a border, takes none from
\* the table, and keeps both minima where there is room for both.
THEOREM NoWidthIsLost == Spec => []PairFits
<1>1. Init => PairFits
  BY DEF Init, PairFits
<1>2. IInv /\ PairFits /\ [Next]_vars => PairFits'
  BY FitsStep
<1> QED
  BY <1>1, <1>2, Invariance, PTL DEF Spec

\* No column starts narrower than its minimum, measured or not.
Roomy == \A c \in Cols : Natural[c] >= MinWidth[c] /\ Unseeded >= MinWidth[c]

Wide(w) == \A c \in DOMAIN w : w[c] >= MinWidth[c]

\* The minima hold of the layout, of every stored one, and of the pair that is held.
WideInv ==
  /\ Wide(widths)
  /\ \A k \in Range(ColumnSets) : Wide(store[k].widths)
  /\ grip # NoGrip => /\ grip.startLeft >= MinWidth[grip.left]
                      /\ grip.startRight >= MinWidth[grip.right]

LEMMA LayoutWide ==
  ASSUME Roomy, IInv, WideInv, NEW o, NEW w, NEW h, Good(o, w, h), Wide(w),
         Layout(view, o, w, h), DOMAIN w = {} => ToSet(ColumnSets[view]) \ h # {},
         grip' = grip
  PROVE  WideInv'
<1> DEFINE g == ColumnSets[view]
<1>1. view \in Views /\ g \in Range(ColumnSets) /\ DOMAIN store = Range(ColumnSets)
  BY Given DEF IInv, LayoutInv, StoreInv
<1>2. Wide(Seeded(view, o, w, h))
  <2>1. CASE DOMAIN w # {}
    BY <2>1 DEF Seeded
  <2>2. CASE DOMAIN w = {}
    <3> DEFINE V == ToSet(VisibleOf(view, o, h))
    <3>1. V \subseteq Cols
      BY <1>1, VisibleFacts, Given DEF Good
    <3>2. Seeded(view, o, w, h) = [c \in V |-> Natural[c]]
      BY <2>2 DEF Seeded
    <3> HIDE DEF V
    <3> QED
      BY <3>1, <3>2 DEF Wide, Roomy
  <2> QED
    BY <2>1, <2>2
<1> DEFINE sw == Seeded(view, o, w, h)
           l == [order |-> OrderedKeys(view, o), widths |-> sw, hidden |-> h]
<1>3. widths' = sw /\ store' = [store EXCEPT ![g] = l] /\ l.widths = sw
  BY DEF Layout, Saved
<1> HIDE DEF sw, l
<1>4. \A k \in Range(ColumnSets) : store'[k] = IF k = g THEN l ELSE store[k]
  BY <1>1, <1>3
<1>5. Wide(sw)
  BY <1>2 DEF sw
<1>6. \A k \in Range(ColumnSets) : Wide(store'[k].widths)
  BY <1>3, <1>4, <1>5 DEF WideInv
<1>7. Wide(widths')
  BY <1>3, <1>5
<1> QED
  BY <1>6, <1>7 DEF WideInv

LEMMA WideStep == Roomy /\ IInv /\ WideInv /\ [Next]_vars => WideInv'
<1> SUFFICES ASSUME Roomy, IInv, WideInv, [Next]_vars PROVE WideInv'
  OBVIOUS
<1>0. /\ view \in Views /\ Good(order, widths, hidden) /\ Wide(widths)
      /\ mounted => DOMAIN widths # {}
  BY DEF IInv, LayoutInv, WideInv
<1>a. /\ Good(ColumnSets[view], <<>>, {}) /\ Wide(<<>>) /\ ToSet(ColumnSets[view]) \ {} # {}
  BY <1>0, Given, NoneIsGood DEF Good, Wide
<1>1. CASE Mount
  <2> DEFINE s == store[ColumnSets[view]]
  <2>0. grip' = grip
    BY <1>1 DEF Mount
  <2>1. CASE s = NoLayout
    <3>1. Layout(view, ColumnSets[view], <<>>, {})
      BY <1>1, <2>1 DEF Mount, MountWith
    <3> QED
      BY <1>a, <2>0, <3>1, LayoutWide
  <2>2. CASE s # NoLayout
    <3>1. Layout(view, s.order, s.widths, s.hidden)
      BY <1>1, <2>2 DEF Mount, MountWith
    <3>2. Good(s.order, s.widths, s.hidden) /\ DOMAIN s.widths # {} /\ Wide(s.widths)
      BY <1>0, <2>2, Given DEF IInv, StoreInv, WideInv
    <3> HIDE DEF s
    <3> QED
      BY <2>0, <3>1, <3>2, LayoutWide
  <2> QED
    BY <2>1, <2>2
<1>2. CASE Unmount \/ ResizeUp \/ UNCHANGED vars
  BY <1>2 DEF Unmount, ResizeUp, vars, WideInv
<1>3. CASE \E v \in Views : SwitchView(v)
  <2>1. PICK v \in Views : SwitchView(v)
    BY <1>3
  <2> DEFINE l == [order |-> OrderedKeys(v, order), widths |-> widths, hidden |-> hidden]
  <2>2. store' = [store EXCEPT ![ColumnSets[v]] = l] /\ Wide(l.widths)
    BY <1>0, <2>1 DEF SwitchView, Saved
  <2> HIDE DEF l
  <2>3. \A k \in Range(ColumnSets) : Wide(store'[k].widths)
    BY <2>2 DEF IInv, StoreInv, WideInv
  <2> QED
    BY <2>1, <2>3 DEF SwitchView, WideInv
<1>4. CASE \E i \in 1..(Len(visibleCols) - 1) : ResizeDown(i)
  <2>1. PICK i \in 1..(Len(visibleCols) - 1) : ResizeDown(i)
    BY <1>4
  <2>2. Len(visibleCols) \in Nat
    BY <1>0, VisibleFacts, SetOf DEF Good, visibleCols, Keys
  <2>3. i \in Nat /\ i > 0
    BY <2>2
  <2>4. IInv'
    BY <2>1, <2>3, DownInv
  <2>5. grip'.left \in Cols /\ grip'.right \in Cols
    <3>1. grip' # NoGrip
      BY <2>1 DEF ResizeDown, NoGrip
    <3> QED
      BY <2>4, <3>1 DEF IInv, GripInv
  <2>6. \A c \in Cols : colWidth(c) >= MinWidth[c]
    BY <1>0 DEF Roomy, Wide, colWidth
  <2>7. grip'.startLeft = colWidth(grip'.left) /\ grip'.startRight = colWidth(grip'.right)
    BY <2>1 DEF ResizeDown
  <2>8. /\ grip'.startLeft >= MinWidth[grip'.left]
        /\ grip'.startRight >= MinWidth[grip'.right]
    BY <2>5, <2>6, <2>7
  <2> QED
    BY <2>1, <2>8 DEF ResizeDown, WideInv
<1>5. CASE \E delta \in -MaxMove..MaxMove : ResizeMove(delta)
  <2>1. PICK delta \in -MaxMove..MaxMove : ResizeMove(delta)
    BY <1>5
  <2>2. delta \in Int
    BY TableAssumption
  <2> DEFINE d == Clamp(grip, delta)
             p == Pair(widths, grip, d)
  <2>3. /\ grip' = grip /\ d \in Int /\ widths' = p
        /\ DOMAIN widths' = DOMAIN widths \union {grip.left, grip.right}
        /\ widths'[grip.left] = grip.startLeft + d
        /\ widths'[grip.right] = grip.startRight - d
        /\ \A c \in DOMAIN widths : c # grip.left /\ c # grip.right => widths'[c] = widths[c]
        /\ d <= grip.startRight - MinWidth[grip.right]
        /\ MinWidth[grip.left] + MinWidth[grip.right] <= grip.startLeft + grip.startRight =>
             MinWidth[grip.left] <= grip.startLeft + d
    BY <2>1, <2>2, MovedPair
  <2>4. Good(order, p, hidden) /\ DOMAIN p # {} /\ Layout(view, order, p, hidden)
    BY <2>1, <2>2, MoveFacts
  <2> HIDE DEF d, p
  <2>5. /\ grip.left \in Cols /\ grip.right \in Cols
        /\ grip.startLeft \in Int /\ grip.startRight \in Int
        /\ grip.startLeft >= MinWidth[grip.left] /\ grip.startRight >= MinWidth[grip.right]
    BY <2>1 DEF IInv, GripInv, WideInv, ResizeMove
  <2>6. MinWidth[grip.left] \in Int /\ MinWidth[grip.right] \in Int
    BY <2>5, TableAssumption
  <2>7. widths'[grip.left] >= MinWidth[grip.left] /\ widths'[grip.right] >= MinWidth[grip.right]
    BY <2>3, <2>5, <2>6
  <2>8. Wide(p)
    BY <1>0, <2>3, <2>7 DEF Wide
  <2> QED
    BY <2>3, <2>4, <2>8, LayoutWide
<1>6. CASE \E from, to \in Cols : reorderColumn(from, to)
  <2>1. PICK from, to \in Cols : reorderColumn(from, to)
    BY <1>6
  <2>2. IInv'
    BY <2>1, ReorderInv
  <2> DEFINE rest == Kept(OrderedKeys(view, order), Cols \ {from})
             o == InsertAt(rest, CHOOSE i \in DOMAIN rest : rest[i] = to, from)
  <2>3. Layout(view, o, widths, hidden) /\ mounted /\ grip' = grip
    BY <2>1 DEF reorderColumn
  <2>4. o = order'
    BY <2>3 DEF Layout
  <2> HIDE DEF o
  <2>5. Good(o, widths, hidden)
    BY <1>0, <2>2, <2>4 DEF IInv, LayoutInv, Good
  <2> QED
    BY <1>0, <2>3, <2>5, LayoutWide
<1>7. CASE \E c \in Cols : toggleColumn(c)
  <2>1. PICK c \in Cols : toggleColumn(c)
    BY <1>7
  <2> DEFINE h == IF c \in hidden THEN hidden \ {c} ELSE hidden \union {c}
  <2>2. Good(order, widths, h) /\ Layout(view, order, widths, h) /\ mounted /\ grip' = grip
    BY <1>0, <2>1 DEF toggleColumn, Good
  <2> HIDE DEF h
  <2> QED
    BY <1>0, <2>2, LayoutWide
<1>8. CASE resetLayout
  <2>1. Layout(view, ColumnSets[view], <<>>, {}) /\ grip' = grip
    BY <1>8 DEF resetLayout
  <2> QED
    BY <1>a, <2>1, LayoutWide
<1> QED
  BY <1>1, <1>2, <1>3, <1>4, <1>5, <1>6, <1>7, <1>8 DEF Next

\* MinimumIsKept: no sequence of gestures, reloads and tabs makes a column narrower than
\* its minimum.  A gesture may start from a stored width, which has to be wide enough too.
THEOREM MinimaAreKept == Spec => []MinimumIsKept
<1>1. Init => WideInv
  <2> SUFFICES ASSUME Init PROVE WideInv
    OBVIOUS
  <2>1. \A k \in Range(ColumnSets) : store[k] = NoLayout
    BY DEF Init
  <2>2. Wide(NoLayout.widths) /\ Wide(<<>>)
    BY DEF NoLayout, Wide
  <2> QED
    BY <2>1, <2>2 DEF Init, WideInv
<1>2. IInv /\ (Roomy => WideInv) /\ [Next]_vars => (Roomy => WideInv)'
  BY WideStep DEF Roomy
<1>3. (Roomy => WideInv) => MinimumIsKept
  BY DEF MinimumIsKept, Roomy, WideInv, Wide
<1> QED
  BY <1>1, <1>2, <1>3, Invariance, PTL DEF Spec
=============================================================================
