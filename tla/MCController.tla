---------------------------- MODULE MCController ----------------------------
(***************************************************************************)
(* The instance of Controller.  The first user is a viewer of one site of  *)
(* two, which are alike; the version of the first device begins like one   *)
(* that the dialog lists, or does not.                                     *)
(***************************************************************************)
EXTENDS Controller, TLC

Old(v) == [form |-> [NewForm EXCEPT !.version = v], access |-> NoAccess]
FirstOf ==
  [k \in Kinds |->
     CASE k = "users" -> {[form |-> NewForm, access |-> [NoAccess EXCEPT ![s] = "viewer"]] : s \in Site}
       [] k = "sites" -> {[form |-> NewForm, access |-> NoAccess]}
       [] k = "devices" -> {Old("1.5-rolling"), Old("2.0")}]
SitesAreAlike == Permutations(Site)
=============================================================================
