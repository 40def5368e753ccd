--------------------------- MODULE MCChangeReview ---------------------------
(***************************************************************************)
(* Instances of ChangeReview for TLC: see README.md for what each        *)
(* configuration takes from here.                                          *)
(***************************************************************************)
EXTENDS ChangeReview, TLC

CONSTANTS p1, p2, s1, s2, a, b, on

\* Two scopes of one leaf each; a form of one can be renamed to the other.
TwoScopes == {s1, s2}
TwoPages == {{s1}, {s2}}
TwoLeaves == {a, b}
TwoScopeOf == (a :> s1) @@ (b :> s2)

\* One scope with one leaf.
OneScope == {s1}
OnePage == {{s1}}
OneLeaf == {a}
OneScopeOf == (a :> s1)

NoLeaf == {}

EveryRow == RowId
NoRow == {}
OnOrUnset == {Unset, on}
OnlyUnset == {Unset}
=============================================================================
