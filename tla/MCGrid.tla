------------------------------- MODULE MCGrid -------------------------------
(***************************************************************************)
(* A grid of two columns with three tiles: one of any size, one that can   *)
(* be widened and one that takes a whole row and can be made taller.       *)
(***************************************************************************)
EXTENDS Grid, TLC

CONSTANTS t1, t2, t3

MCMinSize == (t1 :> <<1, 1>>) @@ (t2 :> <<1, 2>>) @@ (t3 :> <<2, 1>>)
MCDefSize == (t1 :> <<1, 2>>) @@ (t2 :> <<1, 2>>) @@ (t3 :> <<2, 1>>)
\* Older dashboards: three tiles in two orders, one of them tall.
MCLegacy == {<< <<t1, 1, 1>>, <<t2, 2, 2>>, <<t3, 2, 1>> >>, << <<t3, 2, 2>>, <<t2, 1, 2>>, <<t1, 1, 2>> >>}
=============================================================================
