----------------------------- MODULE Tray_proofs -----------------------------
(***************************************************************************)
(* Theorems about Tray, for every number of operations under way, all rows *)
(* and commits and every bound.                                            *)
(***************************************************************************)
EXTENDS Tray, TLAPS

USE TrayAssumption DEF Clock, tables, drawer, shown

-----------------------------------------------------------------------------
(***************************************************************************)
(* Types                                                                   *)
(***************************************************************************)

\* A step of one operation leaves operations.
LEMMA MoveIs ==
  ASSUME calls \in [Call -> OpCall], NEW c \in Call, NEW new \in OpCall,
         calls' = [calls EXCEPT ![c] = new]
  PROVE  /\ calls' \in [Call -> OpCall]
         /\ calls'[c] = new
         /\ \A d \in Call : d # c => calls'[d] = calls[d]
OBVIOUS

LEMMA IdleIs ==
  /\ Idle \in OpCall
  /\ Idle.pc = "idle" /\ Idle.at = 0 /\ Idle.ver = 0
BY DEF Idle, OpCall, Ops

\* An operation begins as a call that has done nothing.
LEMMA BegunIs ==
  ASSUME NEW op \in Ops, NEW target \in SUBSET Row, NEW mine \in BOOLEAN
  PROVE  LET new == [Idle EXCEPT !.pc = "posting", !.op = op, !.target = target, !.mine = mine]
         IN new \in OpCall /\ new.pc = "posting" /\ new.at = 0 /\ new.ver = 0
BY IdleIs DEF OpCall

\* When its answer has come, it waits for the list.
LEMMA AnsweredIs ==
  ASSUME NEW r \in OpCall
  PROVE  LET new == [Idle EXCEPT !.pc = "getting", !.op = r.op, !.staged = r.staged,
                                 !.mine = r.mine]
         IN new \in OpCall /\ new.pc = "getting" /\ new.at = 0 /\ new.ver = 0
BY IdleIs DEF OpCall

\* The other changes of an operation's locals.
LEMMA ServedIs ==
  ASSUME NEW r \in OpCall, NEW now \in Clock, NEW b \in BOOLEAN
  PROVE  LET new == [r EXCEPT !.acted = TRUE, !.at = now, !.staged = b]
         IN new \in OpCall /\ new.pc = r.pc /\ new.at = now /\ new.ver = r.ver
BY DEF OpCall

LEMMA ListReadIs ==
  ASSUME NEW r \in OpCall, NEW now \in Clock, NEW ids \in SUBSET Row
  PROVE  LET new == [r EXCEPT !.pc = "read", !.rows = ids, !.ver = now]
         IN new \in OpCall /\ new.pc = "read" /\ new.at = r.at /\ new.ver = now
BY DEF OpCall

LEMMA UnmountedIs ==
  ASSUME NEW r \in OpCall
  PROVE  LET new == [r EXCEPT !.mine = FALSE]
         IN new \in OpCall /\ new.pc = r.pc /\ new.at = r.at /\ new.ver = r.ver
BY DEF OpCall

Tables == /\ tray \subseteq Row /\ used \subseteq Row
          /\ history \in [CommitId -> SUBSET Row]

BackendStep ==
  \/ \E i \in Row : Backend!Stage(i)
  \/ \E gone : Backend!Remove(gone)
  \/ \E k \in CommitId : Backend!Commit(k)

\* What the backend promises keeps its tables.
LEMMA TablesType == Tables /\ BackendStep => Tables'
BY DEF Tables, BackendStep, Backend!Stage, Backend!Remove, Backend!Commit

\* The effect of a call is such a step.
LEMMA EffectIs ==
  ASSUME NEW c \in Call, Effect(c)
  PROVE  BackendStep
<1>1. CASE calls[c].op = "stage"
  BY <1>1 DEF Effect, BackendStep
<1>2. CASE calls[c].op = "discardOne"
  BY <1>2 DEF Effect, BackendStep
<1>3. CASE calls[c].op = "discardAll"
  BY <1>3 DEF Effect, BackendStep
<1>4. CASE calls[c].op = "commit"
  BY <1>4 DEF Effect, BackendStep
<1>5. CASE calls[c].op \notin {"stage", "discardOne", "discardAll", "commit"}
  BY <1>5 DEF Effect
<1> QED
  BY <1>1, <1>2, <1>3, <1>4, <1>5

-----------------------------------------------------------------------------
(***************************************************************************)
(* What the browser is owed                                                *)
(***************************************************************************)

\* TypeOK without what a step of an operation leaves alone.
DrawerType ==
  /\ open \in BOOLEAN /\ tab \in Tabs
  /\ commits \in [pc : {"closed", "getting", "read", "shown"}, rows : [CommitId -> SUBSET Row]]
ShownType ==
  /\ list \subseteq Row /\ overtaken \in BOOLEAN
  /\ seen \in Clock /\ owed \in Clock /\ failedAt \in Clock

LEMMA TypeIs ==
  TypeOK <=> Tables /\ clock \in Clock /\ calls \in [Call -> OpCall] /\ ShownType /\ DrawerType
BY DEF TypeOK, Tables, ShownType, DrawerType

Inv == TypeOK /\ Times /\ Owed

\* A step of an operation that is not waiting for the list, and of nobody, keeps
\* what is owed.
LEMMA OwedKept ==
  ASSUME Inv, UNCHANGED <<owed, seen, failedAt, overtaken>>,
         clock' \in Clock, clock <= clock',
         calls' \in [Call -> OpCall],
         \A c \in Call : /\ calls'[c].at <= clock' /\ calls'[c].ver <= clock'
                         /\ calls[c].pc \in {"getting", "read"}
                              => calls'[c].pc = calls[c].pc /\ calls'[c].ver = calls[c].ver
  PROVE  Times' /\ Owed'
<1>1. Times'
  BY DEF Inv, TypeOK, Times
<1>2. Owed'
  BY DEF Inv, Owed
<1> QED
  BY <1>1, <1>2

\* Nothing but a move of one operation: the shape of most steps.
LEMMA OwedMove ==
  ASSUME Inv, UNCHANGED <<owed, seen, failedAt, overtaken>>,
         clock' \in Clock, clock <= clock',
         NEW c \in Call, NEW new \in OpCall, calls' = [calls EXCEPT ![c] = new],
         new.at <= clock', new.ver <= clock',
         calls[c].pc \notin {"getting", "read"}
  PROVE  Times' /\ Owed'
<1>1. /\ calls' \in [Call -> OpCall] /\ calls'[c] = new
      /\ \A d \in Call : d # c => calls'[d] = calls[d]
  BY MoveIs DEF Inv, TypeOK
<1>2. \A d \in Call : calls[d].at <= clock /\ calls[d].ver <= clock
  BY DEF Inv, Times
<1>3. \A d \in Call : calls[d].at \in Clock /\ calls[d].ver \in Clock
  BY DEF Inv, TypeOK, OpCall
<1>4. \A d \in Call : /\ calls'[d].at <= clock' /\ calls'[d].ver <= clock'
                      /\ calls[d].pc \in {"getting", "read"}
                           => calls'[d].pc = calls[d].pc /\ calls'[d].ver = calls[d].ver
  BY <1>1, <1>2, <1>3 DEF Inv, TypeOK
<1> QED
  BY <1>1, <1>4, OwedKept

\* The end of a refresh: the operation is done, and the drawer may open.
LEMMA EndedIs ==
  ASSUME TypeOK, NEW c \in Call, Ended(c)
  PROVE  calls' = [calls EXCEPT ![c] = Idle] /\ DrawerType'
<1>1. NoCommits \in [CommitId -> SUBSET Row]
  BY DEF NoCommits
<1>2. CASE calls[c].op = "stage" /\ calls[c].staged /\ ~open
  <2>1. /\ open' = TRUE /\ tab' = tab /\ calls' = [calls EXCEPT ![c] = Idle]
        /\ commits' = [pc |-> "getting", rows |-> NoCommits] \/ commits' = commits
    BY <1>2 DEF Ended
  <2> QED
    BY <1>1, <2>1 DEF TypeOK, DrawerType
<1>3. CASE ~(calls[c].op = "stage" /\ calls[c].staged /\ ~open)
  <2>1. calls' = [calls EXCEPT ![c] = Idle] /\ UNCHANGED drawer
    BY <1>3 DEF Ended
  <2> QED
    BY <2>1 DEF TypeOK, DrawerType
<1> QED
  BY <1>2, <1>3

\* Every step keeps the types and what is owed.
LEMMA TrayStep == Inv /\ [Next]_vars => Inv'
<1> SUFFICES ASSUME Inv, [Next]_vars PROVE Inv'
  OBVIOUS
<1>0. /\ Tables /\ clock \in Clock /\ calls \in [Call -> OpCall] /\ ShownType /\ DrawerType
      /\ TypeOK
  BY TypeIs DEF Inv
<1>1. ASSUME NEW c \in Call, Operator(c) PROVE Inv'
  <2>1. PICK op \in Ops, target \in SUBSET Row, mine \in BOOLEAN : Begin(c, op, target, mine)
    <3>1. CASE StageForm(c)
      BY <3>1 DEF StageForm, Ops
    <3>2. CASE DiscardOne(c)
      <4>1. PICK i \in list : Begin(c, "discardOne", {i}, FALSE)
        BY <3>2 DEF DiscardOne
      <4>2. {i} \in SUBSET Row /\ "discardOne" \in Ops
        BY <1>0 DEF ShownType, Ops
      <4> QED
        BY <4>1, <4>2
    <3>3. CASE DiscardAll(c)
      BY <3>3 DEF DiscardAll, Ops
    <3>4. CASE CommitAll(c)
      BY <3>4 DEF CommitAll, Ops
    <3> QED
      BY <1>1, <3>1, <3>2, <3>3, <3>4 DEF Operator
  <2> DEFINE new == [Idle EXCEPT !.pc = "posting", !.op = op, !.target = target, !.mine = mine]
  <2>2. new \in OpCall /\ new.pc = "posting" /\ new.at = 0 /\ new.ver = 0
    BY BegunIs
  <2>3. /\ calls' = [calls EXCEPT ![c] = new] /\ calls[c].pc = "idle"
        /\ UNCHANGED <<tables, clock, shown, drawer>>
    BY <2>1 DEF Begin, Free
  <2> HIDE DEF new
  <2>10. /\ UNCHANGED <<owed, seen, failedAt, overtaken>>
        /\ clock' \in Clock /\ clock <= clock' /\ new.at <= clock' /\ new.ver <= clock'
        /\ calls[c].pc \notin {"getting", "read"}
    BY <1>0, <2>2, <2>3
  <2>4. Times' /\ Owed'
    BY <2>2, <2>3, <2>10, OwedMove
  <2>5. TypeOK'
    BY <1>0, <2>2, <2>3 DEF TypeOK
  <2> QED
    BY <2>4, <2>5 DEF Inv
<1>2. ASSUME NEW c \in Call, Serve(c) PROVE Inv'
  <2>1. /\ calls[c].pc = "posting" /\ clock < MaxClock /\ clock' = clock + 1
        /\ Effect(c) /\ UNCHANGED <<shown, drawer>>
    BY <1>2 DEF Serve, Tick
  <2>2. clock' \in Clock /\ clock <= clock'
    BY <1>0, <2>1
  <2> DEFINE new == [calls[c] EXCEPT !.acted = TRUE, !.at = clock + 1,
                                     !.staged = @ \/ used' # used]
  <2>3. new \in OpCall /\ new.at = clock' /\ new.ver = calls[c].ver
    <3> DEFINE b == calls[c].staged \/ used' # used
    <3>1. b \in BOOLEAN /\ calls[c] \in OpCall /\ clock + 1 \in Clock
      BY <1>0, <2>1, <2>2 DEF OpCall
    <3>2. new = [calls[c] EXCEPT !.acted = TRUE, !.at = clock + 1, !.staged = b]
      OBVIOUS
    <3> HIDE DEF new, b
    <3>3. new \in OpCall /\ new.at = clock + 1 /\ new.ver = calls[c].ver
      BY <3>1, <3>2, ServedIs, ZenonT(60)
    <3> QED
      BY <2>1, <3>3
  <2>4. calls' = [calls EXCEPT ![c] = new]
    BY <1>2 DEF Serve
  <2> HIDE DEF new
  <2>5. calls[c].ver <= clock /\ calls[c].ver \in Clock
    BY <1>0 DEF Inv, Times, OpCall
  <2>10. /\ UNCHANGED <<owed, seen, failedAt, overtaken>>
        /\ new.at <= clock' /\ new.ver <= clock'
        /\ calls[c].pc \notin {"getting", "read"}
    BY <1>0, <2>1, <2>2, <2>3, <2>5
  <2>6. Times' /\ Owed'
    BY <2>2, <2>3, <2>4, <2>10, OwedMove
  <2>7. Tables'
    BY <1>0, <2>1, EffectIs, TablesType
  <2>8. TypeOK'
    BY <1>0, <2>1, <2>2, <2>3, <2>4, <2>7 DEF TypeOK, Tables
  <2> QED
    BY <2>6, <2>8 DEF Inv
<1>3. ASSUME NEW c \in Call, Answer(c) PROVE Inv'
  <2> DEFINE new == [Idle EXCEPT !.pc = "getting", !.op = calls[c].op,
                                 !.staged = calls[c].staged, !.mine = calls[c].mine]
  <2>1. new \in OpCall /\ new.pc = "getting" /\ new.at = 0 /\ new.ver = 0
    BY <1>0, AnsweredIs
  <2>2. /\ calls' = [calls EXCEPT ![c] = new]
        /\ owed' = IF calls[c].acted /\ calls[c].at > owed THEN calls[c].at ELSE owed
        /\ UNCHANGED <<tables, clock, list, seen, failedAt, overtaken, drawer>>
    BY <1>3 DEF Answer
  <2> HIDE DEF new
  <2>3. /\ calls' \in [Call -> OpCall] /\ calls'[c] = new
        /\ \A d \in Call : d # c => calls'[d] = calls[d]
    BY <1>0, <2>1, <2>2, MoveIs
  <2>4. owed' \in Clock /\ owed' <= clock
    BY <1>0, <2>2 DEF Inv, Times, ShownType, OpCall
  <2>5. TypeOK'
    BY <1>0, <2>2, <2>3, <2>4 DEF TypeOK
  <2>6. Times'
    BY <1>0, <2>1, <2>2, <2>3, <2>4 DEF Inv, Times
  <2>7. Owed'
    BY <2>1, <2>3 DEF Owed
  <2> QED
    BY <2>5, <2>6, <2>7 DEF Inv
<1>4. ASSUME NEW c \in Call, AnswerError(c) PROVE Inv'
  <2>1. /\ calls' = [calls EXCEPT ![c] = Idle] /\ calls[c].pc = "posting"
        /\ UNCHANGED <<tables, clock, shown, drawer>>
    BY <1>4 DEF AnswerError
  <2>10. /\ UNCHANGED <<owed, seen, failedAt, overtaken>>
        /\ clock' \in Clock /\ clock <= clock' /\ Idle.at <= clock' /\ Idle.ver <= clock'
        /\ calls[c].pc \notin {"getting", "read"}
    BY <1>0, <2>1, IdleIs
  <2>2. Times' /\ Owed'
    BY <2>1, <2>10, IdleIs, OwedMove
  <2>3. TypeOK'
    BY <1>0, <2>1, IdleIs DEF TypeOK
  <2> QED
    BY <2>2, <2>3 DEF Inv
<1>5. ASSUME NEW c \in Call, ReadList(c) PROVE Inv'
  <2> DEFINE new == [calls[c] EXCEPT !.pc = "read", !.rows = tray, !.ver = clock]
  <2>1. new \in OpCall /\ new.pc = "read" /\ new.at = calls[c].at /\ new.ver = clock
    <3>1. calls[c] \in OpCall /\ tray \in SUBSET Row /\ clock \in Clock
      BY <1>0 DEF Tables
    <3>2. new = [calls[c] EXCEPT !.pc = "read", !.rows = tray, !.ver = clock]
      OBVIOUS
    <3> HIDE DEF new
    <3> QED
      BY <3>1, <3>2 DEF OpCall
  <2>2. calls' = [calls EXCEPT ![c] = new] /\ UNCHANGED <<tables, clock, shown, drawer>>
    BY <1>5 DEF ReadList
  <2> HIDE DEF new
  <2>3. /\ calls' \in [Call -> OpCall] /\ calls'[c] = new
        /\ \A d \in Call : d # c => calls'[d] = calls[d]
    BY <1>0, <2>1, <2>2, MoveIs
  <2>4. TypeOK'
    BY <1>0, <2>2, <2>3 DEF TypeOK
  <2>5. Times'
    BY <1>0, <2>1, <2>2, <2>3 DEF Inv, Times
  <2>6. Owed'
    BY <2>1, <2>2, <2>3 DEF Inv, Owed, Times
  <2> QED
    BY <2>4, <2>5, <2>6 DEF Inv
<1>6. ASSUME NEW c \in Call, ListArrives(c) \/ RefreshFails(c) PROVE Inv'
  <2>1. Ended(c) /\ UNCHANGED <<tables, clock, owed>>
    BY <1>6 DEF ListArrives, RefreshFails
  <2>2. calls' = [calls EXCEPT ![c] = Idle] /\ DrawerType'
    BY <1>0, <2>1, EndedIs
  <2>3. /\ calls' \in [Call -> OpCall] /\ calls'[c] = Idle
        /\ \A d \in Call : d # c => calls'[d] = calls[d]
    BY <1>0, <2>2, IdleIs, MoveIs
  <2>4. /\ calls[c].ver \in Clock /\ calls[c].ver <= clock /\ calls[c].rows \subseteq Row
        /\ owed \in Clock /\ seen \in Clock /\ failedAt \in Clock
        /\ owed <= clock /\ seen <= clock /\ failedAt <= clock /\ clock \in Clock
    BY <1>0 DEF OpCall, Inv, Times, ShownType
  <2>5. ShownType'
    BY <1>0, <1>6, <2>1, <2>4 DEF ListArrives, RefreshFails, ShownType
  <2>6. TypeOK'
    BY <1>0, <2>1, <2>2, <2>3, <2>5 DEF TypeOK, ShownType, DrawerType
  <2>7. Times'
    BY <1>0, <1>6, <2>1, <2>3, <2>4, IdleIs DEF ListArrives, RefreshFails, Inv, Times
  <2>8. Owed'
    <3>1. CASE ListArrives(c)
      <4>1. /\ seen' = calls[c].ver /\ UNCHANGED <<owed, failedAt>>
            /\ overtaken \/ calls[c].ver < seen => overtaken'
        BY <3>1 DEF ListArrives
      <4>2. CASE seen' >= owed'
        BY <4>2 DEF Owed
      <4>3. CASE seen' < owed'
        <5>0. Owed
          BY DEF Inv
        <5>5. \/ overtaken
              \/ seen >= owed
              \/ seen < failedAt /\ owed <= failedAt
              \/ \E d \in Call :
                    \/ calls[d].pc = "getting"
                    \/ calls[d].pc = "read" /\ calls[d].ver >= owed
          BY <5>0 DEF Owed
        <5>1. CASE \E d \in Call :
                     \/ calls[d].pc = "getting"
                     \/ calls[d].pc = "read" /\ calls[d].ver >= owed
          <6>1. PICK d \in Call :
                     \/ calls[d].pc = "getting"
                     \/ calls[d].pc = "read" /\ calls[d].ver >= owed
            BY <5>1
          <6>2. d # c
            BY <2>4, <3>1, <4>1, <4>3, <6>1 DEF ListArrives
          <6> QED
            BY <2>3, <4>1, <6>1, <6>2 DEF Owed
        <5>2. CASE seen >= owed
          <6>1. calls[c].ver < seen
            BY <2>4, <4>1, <4>3, <5>2
          <6> QED
            BY <4>1, <6>1 DEF Owed
        <5>3. CASE seen < failedAt /\ owed <= failedAt
          <6>1. seen' < failedAt' /\ owed' <= failedAt'
            BY <2>4, <4>1, <4>3, <5>3
          <6> QED
            BY <6>1 DEF Owed
        <5>4. CASE overtaken
          BY <4>1, <5>4 DEF Owed
        <5> QED
          BY <5>1, <5>2, <5>3, <5>4, <5>5
      <4> QED
        BY <2>4, <4>1, <4>2, <4>3
    <3>2. CASE RefreshFails(c)
      <4>1. failedAt' = clock /\ UNCHANGED <<seen, owed>>
        BY <3>2 DEF RefreshFails
      <4>2. seen' >= owed' \/ (seen' < failedAt' /\ owed' <= failedAt')
        BY <2>4, <4>1
      <4> QED
        BY <4>2 DEF Owed
    <3> QED
      BY <1>6, <3>1, <3>2
  <2> QED
    BY <2>6, <2>7, <2>8 DEF Inv
<1>7. ASSUME OpenTray \/ CloseTray \/ (\E t \in Tabs : ShowTab(t)) PROVE Inv'
  <2>1. PICK o \in BOOLEAN, t \in Tabs : Show(o, t)
    BY <1>0, <1>7 DEF OpenTray, CloseTray, ShowTab, Tabs, DrawerType
  <2>2. UNCHANGED <<tables, clock, shown>>
    BY <1>7 DEF OpenTray, CloseTray, ShowTab
  <2> DEFINE off(d) == [calls[d] EXCEPT !.mine = FALSE]
  <2>3. ASSUME NEW d \in Call
        PROVE  /\ off(d) \in OpCall
               /\ off(d).pc = calls[d].pc /\ off(d).at = calls[d].at /\ off(d).ver = calls[d].ver
    BY <1>0, UnmountedIs
  <2>4. calls' = calls \/ calls' = [d \in Call |-> off(d)]
    BY <2>1 DEF Show
  <2> HIDE DEF off
  <2>5. /\ calls' \in [Call -> OpCall]
        /\ \A d \in Call : /\ calls'[d].pc = calls[d].pc /\ calls'[d].at = calls[d].at
                            /\ calls'[d].ver = calls[d].ver
    BY <1>0, <2>3, <2>4
  <2>6. Times' /\ Owed'
    BY <1>0, <2>2, <2>5, OwedKept DEF Inv, Times
  <2>7. DrawerType'
    BY <1>0, <2>1 DEF Show, DrawerType, NoCommits
  <2> QED
    BY <1>0, <2>2, <2>5, <2>6, <2>7 DEF Inv, TypeOK, DrawerType
<1>8. ASSUME OtherWrites PROVE Inv'
  <2>1. /\ clock < MaxClock /\ clock' = clock + 1 /\ UNCHANGED <<calls, shown, drawer>>
    BY <1>8 DEF OtherWrites, Tick
  <2>2. clock' \in Clock /\ clock <= clock'
    BY <1>0, <2>1
  <2>3. Tables'
    <3>1. BackendStep
      BY <1>8 DEF OtherWrites, BackendStep
    <3> QED
      BY <1>0, <3>1, TablesType
  <2>4. Times' /\ Owed'
    BY <1>0, <2>1, <2>2 DEF Inv, Times, Owed, ShownType, OpCall
  <2> QED
    BY <1>0, <2>1, <2>2, <2>3, <2>4 DEF Inv, TypeOK, Tables
<1>9. ASSUME HistoryRead \/ HistoryArrives \/ HistoryFails \/ UNCHANGED vars PROVE Inv'
  <2>1. UNCHANGED <<tables, clock, calls, shown>>
    BY <1>9 DEF HistoryRead, HistoryArrives, HistoryFails, vars
  <2>2. DrawerType'
    BY <1>0, <1>9 DEF HistoryRead, HistoryArrives, HistoryFails, vars, DrawerType, Tables, NoCommits
  <2>3. Times' /\ Owed'
    BY <2>1 DEF Inv, Times, Owed
  <2> QED
    BY <1>0, <2>1, <2>2, <2>3 DEF Inv, TypeOK, DrawerType
<1> QED
  BY <1>1, <1>2, <1>3, <1>4, <1>5, <1>6, <1>7, <1>8, <1>9 DEF Next, Answers

LEMMA TrayCorrect == Spec => []Inv
<1>1. Init => Inv
  <2> SUFFICES ASSUME Init PROVE Inv
    OBVIOUS
  <2> DEFINE first == [Idle EXCEPT !.pc = "getting"]
  <2>1. first \in OpCall /\ first.at = 0 /\ first.ver = 0
    BY IdleIs DEF OpCall
  <2>2. /\ calls \in [Call -> OpCall]
        /\ \A c \in Call : calls[c].at = 0 /\ calls[c].ver = 0
    BY <2>1, IdleIs DEF Init
  <2>10. Tables
    BY DEF Init, Tables, Backend!LedgerInit
  <2>11. clock \in Clock /\ ShownType
    <3>1. overtaken \in BOOLEAN
      BY Zenon DEF Init
    <3> QED
      BY <3>1 DEF Init, ShownType
  <2>12. DrawerType
    BY DEF Init, DrawerType, NoCommits, Tabs
  <2>3. TypeOK
    BY <2>2, <2>10, <2>11, <2>12, TypeIs
  <2> QED
    BY <2>2, <2>3 DEF Init, Inv, Times, Owed
<1>2. Inv /\ [Next]_vars => Inv'
  BY TrayStep
<1> QED
  BY <1>1, <1>2, PTL DEF Spec

\* The lists, the operations and the tables keep their types.
THEOREM TypeCorrect == Spec => []TypeOK
<1>1. Inv => TypeOK
  BY DEF Inv
<1> QED
  BY <1>1, TrayCorrect, PTL

\* A tray that waits for nothing shows every answered change of its browser, for
\* every number of operations under way.
THEOREM TrayShowsOwnChanges == Spec => []ReadYourWrites
<1>1. Inv => ReadYourWrites
  BY DEF Inv, Owed, ReadYourWrites, Quiet
<1> QED
  BY <1>1, TrayCorrect, PTL
=============================================================================
