------------------------------- MODULE MCTable -------------------------------
(***************************************************************************)
(* Two tabs with a column in common, as the rules and the 1-to-1 mappings  *)
(* of NAT44.  Widths are in units of 60 pixels; the columns have different *)
(* minima, and one of them is wider than its minimum.                      *)
(***************************************************************************)
EXTENDS Table

TwoTabs == << <<"rule", "source", "status">>, <<"rule", "address">> >>
MinOf == [c \in Cols |-> IF c = "source" THEN 2 ELSE 1]
NaturalOf == [c \in Cols |-> IF c = "source" THEN 3 ELSE 1]
=============================================================================
