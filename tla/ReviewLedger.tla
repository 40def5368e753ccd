---------------------------- MODULE ReviewLedger ----------------------------
(***************************************************************************)
(* What the review of configuration changes promises, without handlers,    *)
(* statements or devices: a row is staged once, waits in the tray, and     *)
(* leaves it for good, either thrown away or moved into the history        *)
(* together with everything that waits at that moment.                     *)
(*                                                                         *)
(* ChangeReview implements this specification with statements that         *)
(* interleave; Tray builds what the operator sees on it.                   *)
(***************************************************************************)
EXTENDS Naturals

CONSTANTS
  LedgerRow,     \* rows config_changes ever holds
  LedgerCommit   \* rows config_commits ever holds

VARIABLES
  tray,     \* the rows that wait for a commit
  history,  \* the rows listed under each commit
  used      \* the rows that have ever been staged

ledgerVars == <<tray, history, used>>

LedgerInit ==
  /\ tray = {}
  /\ history = [c \in LedgerCommit |-> {}]
  /\ used = {}

Stage(i) ==
  /\ i \in LedgerRow \ used
  /\ tray' = tray \union {i}
  /\ used' = used \union {i}
  /\ UNCHANGED history

\* Discarded, or replaced by a restaging of the same object.
Remove(gone) ==
  /\ gone \subseteq tray
  /\ tray' = tray \ gone
  /\ UNCHANGED <<history, used>>

\* The whole tray goes into the history at once, under a commit that has none.
Commit(c) ==
  /\ history[c] = {}
  /\ history' = [history EXCEPT ![c] = tray]
  /\ tray' = {}
  /\ UNCHANGED used

LedgerNext ==
  \/ \E i \in LedgerRow : Stage(i)
  \/ \E gone \in SUBSET LedgerRow : Remove(gone)
  \/ \E c \in LedgerCommit : Commit(c)

LedgerSpec == LedgerInit /\ [][LedgerNext]_ledgerVars

=============================================================================
