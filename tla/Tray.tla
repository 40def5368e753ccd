-------------------------------- MODULE Tray --------------------------------
(***************************************************************************)
(* What ONE browser shows of the pending changes of one router: the        *)
(* context that keeps the list (ConfigChanges) and the tray with its two   *)
(* tabs (ChangeTray), on top of a backend that keeps the promise of        *)
(* ReviewLedger.                                                           *)
(*                                                                         *)
(* An operation sends its call, waits for the answer and then, without     *)
(* waiting for other operations, reads the whole list again.  Calls of     *)
(* several operations, of other browsers and the answers to all of them    *)
(* interleave; an answer can be lost at any time.                          *)
(***************************************************************************)
EXTENDS Naturals, FiniteSets

CONSTANTS
  Row,       \* ids of rows of config_changes
  CommitId,  \* ids of commits
  Call,      \* slots for operations of this browser that are under way
  MaxClock   \* bound: changes of the backend's tables

ASSUME TrayAssumption == MaxClock \in Nat

VARIABLES
  tray, history, used,  \* the backend: see ReviewLedger
  clock,      \* number of changes of the backend's tables so far
  calls,      \* the operation in each slot
  list,       \* pendingChanges
  seen,       \* history: the clock when the backend read what `list` shows
  open,       \* the drawer is open
  tab,        \* `tab`, kept while the drawer is closed
  commits,    \* what the History tab lists, and whether it is still loading
  owed,       \* history: the clock at the newest effect whose answer has come
  failedAt,   \* history: the clock when a refresh last failed
  overtaken   \* history: an answer arrived after one that was read later

Backend == INSTANCE ReviewLedger WITH LedgerRow <- Row, LedgerCommit <- CommitId

tables == <<tray, history, used>>
drawer == <<open, tab, commits>>
shown == <<list, seen, owed, failedAt, overtaken>>
vars == <<tables, clock, calls, shown, drawer>>

Clock == 0..MaxClock
Tabs == {"pending", "history"}

\* mount is the refresh of the first render: it has no call before it.
Ops == {"mount", "stage", "discardOne", "discardAll", "commit"}

\* "posting": the call is on its way or in its handler.  "getting": refresh() has
\* asked for the list.  "read": the list is on its way back.
OpCall ==
  [pc : {"idle", "posting", "getting", "read"},
   op : Ops,
   target : SUBSET Row,   \* discardOne: the row
   acted : BOOLEAN,       \* the handler has changed the tables
   at : Clock,            \* the clock after it did
   staged : BOOLEAN,      \* the answer of a staging lists rows
   rows : SUBSET Row,     \* "read": the rows of the answer
   ver : Clock,           \* "read": the clock when they were read
   mine : BOOLEAN]        \* the Pending tab that started it is still mounted

Idle == [pc |-> "idle", op |-> "mount", target |-> {}, acted |-> FALSE, at |-> 0,
         staged |-> FALSE, rows |-> {}, ver |-> 0, mine |-> FALSE]

NoCommits == [c \in CommitId |-> {}]

Init ==
  /\ Backend!LedgerInit
  /\ clock = 0
  /\ LET first == CHOOSE c \in Call : TRUE IN
       calls = [c \in Call |-> IF c = first THEN [Idle EXCEPT !.pc = "getting"] ELSE Idle]
  /\ list = {} /\ seen = 0
  /\ open = FALSE /\ tab = "pending"
  /\ commits = [pc |-> "closed", rows |-> NoCommits]
  /\ owed = 0 /\ failedAt = 0 /\ overtaken = FALSE

-----------------------------------------------------------------------------
(***************************************************************************)
(* The operator                                                            *)
(***************************************************************************)

PendingTabMounted == open /\ tab = "pending"

\* `committing` of the Pending tab: it is lost when the tab is unmounted.
Committing == \E c \in Call : calls[c].op = "commit" /\ calls[c].mine

\* Which slot an operation takes is no choice of the operator.
Free(c) == calls[c].pc = "idle"
FreeSlot == CHOOSE c \in Call : Free(c)

Begin(c, op, target, mine) ==
  /\ Free(c) /\ c = FreeSlot
  /\ calls' = [calls EXCEPT ![c] =
                 [Idle EXCEPT !.pc = "posting", !.op = op, !.target = target, !.mine = mine]]
  /\ UNCHANGED <<tables, clock, shown, drawer>>

\* A form of any page, or the deletion of an object, stages its changes.
StageForm(c) == Begin(c, "stage", {}, FALSE)

\* The cross of a row, also while a commit is under way.
DiscardOne(c) == PendingTabMounted /\ \E i \in list : Begin(c, "discardOne", {i}, FALSE)

DiscardAll(c) ==
  PendingTabMounted /\ list # {} /\ ~Committing /\ Begin(c, "discardAll", {}, FALSE)

CommitAll(c) ==
  PendingTabMounted /\ list # {} /\ ~Committing /\ Begin(c, "commit", {}, TRUE)

\* The drawer: leaving the Pending tab unmounts it, showing the History tab mounts
\* it, which asks for the commits.
Show(o, t) ==
  /\ open' = o
  /\ tab' = t
  /\ calls' = IF o /\ t = "pending" THEN calls
              ELSE [c \in Call |-> [calls[c] EXCEPT !.mine = FALSE]]
  /\ commits' = IF ~o \/ t = "pending" THEN [pc |-> "closed", rows |-> NoCommits]
                ELSE IF open /\ tab = "history" THEN commits
                ELSE [pc |-> "getting", rows |-> NoCommits]

OpenTray == Show(TRUE, "pending") /\ UNCHANGED <<tables, clock, shown>>
CloseTray == open /\ Show(FALSE, tab) /\ UNCHANGED <<tables, clock, shown>>
ShowTab(t) == open /\ Show(TRUE, t) /\ UNCHANGED <<tables, clock, shown>>

-----------------------------------------------------------------------------
(***************************************************************************)
(* The backend                                                             *)
(***************************************************************************)

Tick == clock < MaxClock /\ clock' = clock + 1

\* The effect of the call in its handler.
Effect(c) ==
  CASE calls[c].op = "stage"      -> \/ \E i \in Row : Backend!Stage(i)
                                     \/ \E old \in SUBSET tray \ {{}} : Backend!Remove(old)
    [] calls[c].op = "discardOne" -> calls[c].target \subseteq tray /\ Backend!Remove(calls[c].target)
    [] calls[c].op = "discardAll" -> tray # {} /\ Backend!Remove(tray)
    [] calls[c].op = "commit"     -> tray # {} /\ \E k \in CommitId : Backend!Commit(k)
    [] OTHER                      -> FALSE

\* A staging removes old rows and inserts new ones in several statements; the
\* other calls have one effect.
Serve(c) ==
  /\ calls[c].pc = "posting"
  /\ calls[c].op = "stage" \/ ~calls[c].acted
  /\ Tick
  /\ Effect(c)
  /\ calls' = [calls EXCEPT ![c].acted = TRUE, ![c].at = clock + 1,
                            ![c].staged = @ \/ used' # used]
  /\ UNCHANGED <<shown, drawer>>

\* Somebody else stages, discards or commits, or a handler of this browser goes
\* on after its answer was lost.
OtherWrites ==
  /\ Tick
  /\ \/ \E i \in Row : Backend!Stage(i)
     \/ tray # {} /\ (\E k \in CommitId : Backend!Commit(k))
     \/ \E old \in SUBSET tray \ {{}} : Backend!Remove(old)
  /\ UNCHANGED <<calls, shown, drawer>>

ReadList(c) ==
  /\ calls[c].pc = "getting"
  /\ calls' = [calls EXCEPT ![c].pc = "read", ![c].rows = tray, ![c].ver = clock]
  /\ UNCHANGED <<tables, clock, shown, drawer>>

-----------------------------------------------------------------------------
(***************************************************************************)
(* The answers                                                             *)
(***************************************************************************)

\* Mutant: only what is staged refreshes the tray.
AnswerWithoutRefresh(c) ==
  /\ calls[c].pc = "posting"
  /\ calls[c].op = "discardOne" => calls[c].acted
  /\ calls' = [calls EXCEPT ![c] = IF calls[c].op = "stage" THEN [@ EXCEPT !.pc = "getting"]
                                   ELSE Idle]
  /\ owed' = IF calls[c].acted /\ calls[c].at > owed THEN calls[c].at ELSE owed
  /\ UNCHANGED <<tables, clock, list, seen, failedAt, overtaken, drawer>>

\* The call succeeds and the operation refreshes the list.  A staging may find
\* nothing to change; a commit that the device rejects is a success without
\* effect; a discarded row has to be there.
Answer(c) ==
  /\ calls[c].pc = "posting"
  /\ calls[c].op = "discardOne" => calls[c].acted
  /\ calls' = [calls EXCEPT ![c] = [Idle EXCEPT !.pc = "getting", !.op = calls[c].op,
                                     !.staged = calls[c].staged, !.mine = calls[c].mine]]
  /\ owed' = IF calls[c].acted /\ calls[c].at > owed THEN calls[c].at ELSE owed
  /\ UNCHANGED <<tables, clock, list, seen, failedAt, overtaken, drawer>>

\* The call is refused or its answer is lost: the operation ends without a
\* refresh, whatever its handler has done.
AnswerError(c) ==
  /\ calls[c].pc = "posting"
  /\ calls' = [calls EXCEPT ![c] = Idle]
  /\ UNCHANGED <<tables, clock, shown, drawer>>

\* What follows a refresh, also a failed one: a staging that has staged something
\* opens the drawer, on the tab it was left on.
Ended(c) ==
  LET others == [calls EXCEPT ![c] = Idle] IN
    IF calls[c].op = "stage" /\ calls[c].staged /\ ~open
    THEN /\ open' = TRUE
         /\ calls' = others
         /\ commits' = IF tab = "history" THEN [pc |-> "getting", rows |-> NoCommits]
                       ELSE commits
         /\ UNCHANGED tab
    ELSE calls' = others /\ UNCHANGED drawer

ListArrives(c) ==
  /\ calls[c].pc = "read"
  /\ list' = calls[c].rows
  /\ seen' = calls[c].ver
  /\ overtaken' = (overtaken \/ calls[c].ver < seen)
  /\ Ended(c)
  /\ UNCHANGED <<tables, clock, owed, failedAt>>

\* Mutant: refresh() does not catch its errors, and announce() ends with it.
RefreshThrows(c) ==
  /\ calls[c].pc \in {"getting", "read"}
  /\ failedAt' = clock
  /\ calls' = [calls EXCEPT ![c] = Idle]
  /\ UNCHANGED <<tables, clock, list, seen, owed, overtaken, drawer>>

\* A toast says that the list could not be loaded; the old one stays.
RefreshFails(c) ==
  /\ calls[c].pc \in {"getting", "read"}
  /\ failedAt' = clock
  /\ Ended(c)
  /\ UNCHANGED <<tables, clock, list, seen, owed, overtaken>>

\* The History tab asks for the commits when it is mounted; an answer to a tab
\* that is gone is dropped.  list_commits has one SELECT for the commits and one for
\* the rows of each; they are one step here, as the rows of a commit are written once.
HistoryRead ==
  /\ commits.pc = "getting"
  /\ commits' = [pc |-> "read", rows |-> history]
  /\ UNCHANGED <<tables, clock, calls, shown, open, tab>>

HistoryArrives ==
  /\ commits.pc = "read"
  /\ commits' = [commits EXCEPT !.pc = "shown"]
  /\ UNCHANGED <<tables, clock, calls, shown, open, tab>>

\* Mutant: an error is kept as a state that the tab does not know.
HistoryStaysFailed ==
  /\ commits.pc \in {"getting", "read"}
  /\ commits' = [pc |-> "failed", rows |-> NoCommits]
  /\ UNCHANGED <<tables, clock, calls, shown, open, tab>>

\* An error leaves the list empty.
HistoryFails ==
  /\ commits.pc \in {"getting", "read"}
  /\ commits' = [pc |-> "shown", rows |-> NoCommits]
  /\ UNCHANGED <<tables, clock, calls, shown, open, tab>>

-----------------------------------------------------------------------------
Operator(c) == StageForm(c) \/ DiscardOne(c) \/ DiscardAll(c) \/ CommitAll(c)
Answers(c) == Answer(c) \/ AnswerError(c) \/ ReadList(c) \/ ListArrives(c) \/ RefreshFails(c)

Next ==
  \/ \E c \in Call : Operator(c) \/ Serve(c) \/ Answers(c)
  \/ OpenTray \/ CloseTray \/ \E t \in Tabs : ShowTab(t)
  \/ OtherWrites
  \/ HistoryRead \/ HistoryArrives \/ HistoryFails

Spec == Init /\ [][Next]_vars

\* Every call is answered in the end or fails.
Fairness == \A c \in Call : WF_vars(Answers(c))
FairSpec == Spec /\ Fairness

-----------------------------------------------------------------------------
(***************************************************************************)
(* Properties                                                              *)
(***************************************************************************)

\* The lists, the calls and the tables hold values of their types.
TypeOK ==
  /\ tray \subseteq Row /\ used \subseteq Row
  /\ history \in [CommitId -> SUBSET Row]
  /\ clock \in Clock
  /\ calls \in [Call -> OpCall]
  /\ list \subseteq Row
  /\ seen \in Clock /\ owed \in Clock /\ failedAt \in Clock
  /\ open \in BOOLEAN /\ tab \in Tabs /\ overtaken \in BOOLEAN
  /\ commits \in [pc : {"closed", "getting", "read", "shown"}, rows : [CommitId -> SUBSET Row]]

Quiet == \A c \in Call : calls[c].pc = "idle"

\* A tray that is not waiting for anything shows every change of this browser
\* whose operation was answered, however its operations overlapped - unless the
\* answers of two refreshes have overtaken each other, or a refresh has failed
\* since, of which a toast tells.
ReadYourWrites == Quiet /\ ~overtaken => seen >= owed \/ seen < failedAt

\* What was staged is brought to the operator: the tray opens, also when the list
\* could not be loaded.
StagedOpensTray ==
  \A c \in Call :
    (calls[c].op = "stage" /\ calls[c].pc = "getting" /\ calls[c].staged) ~> open

\* What makes ReadYourWrites inductive: what is owed is shown, or a refresh that
\* is under way will show it, or one has failed since.
Owed ==
  \/ overtaken
  \/ seen >= owed
  \/ seen < failedAt /\ owed <= failedAt
  \/ \E c \in Call : \/ calls[c].pc = "getting"
                     \/ calls[c].pc = "read" /\ calls[c].ver >= owed
Times ==
  /\ owed <= clock /\ seen <= clock /\ failedAt <= clock
  /\ \A c \in Call : calls[c].at <= clock /\ calls[c].ver <= clock
=============================================================================
