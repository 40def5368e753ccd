------------------------ MODULE ChangeReview_proofs -------------------------
(***************************************************************************)
(* Theorems about ChangeReview, for every set of request slots, scopes,    *)
(* leaves and values and every bound.                                      *)
(***************************************************************************)
EXTENDS ChangeReview, FiniteSetTheorems, TLAPS

USE DataAssumption, BoundAssumption DEF RowId, CommitId, None, Config

-----------------------------------------------------------------------------
(***************************************************************************)
(* The operators the actions are built from                                *)
(***************************************************************************)

\* The constants the records are built from have their types.
LEMMA ConstantTypes ==
  /\ UnusedCmd \in Command
  /\ UnusedRow \in Row
  /\ GoneRow \in Row
  /\ UnusedCommit \in CommitRow
  /\ NoGoal \in [Leaf -> Value \union {Unknown}]
  /\ Idle \in Request
<1>1. UnusedCmd \in Command
  BY DEF UnusedCmd, Command
<1>2. UnusedRow \in Row /\ GoneRow \in Row
  BY <1>1 DEF UnusedRow, GoneRow, Row, RowStatus
<1>3. UnusedCommit \in CommitRow
  BY DEF UnusedCommit, CommitRow
<1>4. NoGoal \in [Leaf -> Value \union {Unknown}]
  BY DEF NoGoal
<1>5. Idle \in Request
  BY <1>4, SMTT(30) DEF Idle, Request, Pc
<1> QED
  BY <1>1, <1>2, <1>3, <1>4, <1>5

\* Moving a handler on and setting one of its locals keeps a request.
LEMMA RequestUpdate ==
  ASSUME NEW r \in Request
  PROVE  /\ \A l \in Pc : [r EXCEPT !.pc = l] \in Request
         /\ \A l \in Pc, S \in SUBSET Scope : [r EXCEPT !.clear = S, !.pc = l] \in Request
         /\ \A S \in SUBSET Command : [r EXCEPT !.todo = S] \in Request
         /\ \A l \in Pc : [r EXCEPT !.pc = l, !.applied = TRUE] \in Request
         /\ \A l \in Pc : [r EXCEPT !.pc = l, !.saved = TRUE] \in Request
         /\ \A l \in Pc, c \in CommitId : [r EXCEPT !.pc = l, !.commit = c] \in Request
         /\ \A g \in [Leaf -> Value \union {Unknown}] : [r EXCEPT !.goal = g] \in Request
BY DEF Request

\* A handler that goes on with a request's locals, or is done, leaves requests.
LEMMA ContinueType ==
  ASSUME TypeOK, NEW p \in Proc
  PROVE  /\ \A r \in Request : Continue(p, r) => req' \in [Proc -> Request]
         /\ Done(p) => req' \in [Proc -> Request]
         /\ req[p] \in Request
BY ConstantTypes DEF TypeOK, Continue, Done

\* A handler's copies of rows that are there are copies of those rows.
LEMMA CopiesType ==
  ASSUME TypeOK, NEW S \in SUBSET RowId
  PROVE  /\ Copies(S) \in SUBSET Copy
         /\ Ids(Copies(S)) = S
<1>1. \A i \in S : [id |-> i, cmd |-> rows[i].cmd] \in Copy
  BY DEF TypeOK, Copy, Row
<1>2. Copies(S) \in SUBSET Copy
  BY <1>1 DEF Copies
<1>3. ASSUME NEW i \in S PROVE i \in Ids(Copies(S))
  <2> DEFINE x == [id |-> i, cmd |-> rows[i].cmd]
  <2>1. x \in Copies(S) /\ x.id = i
    BY DEF Copies
  <2> QED
    BY <2>1 DEF Ids
<1>4. ASSUME NEW i \in Ids(Copies(S)) PROVE i \in S
  BY DEF Ids, Copies
<1> QED
  BY <1>2, <1>3, <1>4

\* The ids of a batch are ids of rows.
LEMMA IdsType ==
  ASSUME NEW batch \in SUBSET Copy
  PROVE  Ids(batch) \in SUBSET RowId
BY DEF Ids, Copy

\* Numbers of rows are finite, so a batch has a size.
LEMMA BatchSize ==
  ASSUME NEW batch \in SUBSET Copy
  PROVE  Cardinality(Ids(batch)) \in Nat
<1>1. IsFiniteSet(RowId)
  BY FS_Interval
<1>2. IsFiniteSet(Ids(batch))
  BY <1>1, IdsType, FS_Subset
<1> QED
  BY <1>2, FS_CardinalityType

\* A set of row ids that is not empty has a largest member.
LEMMA LargestId ==
  ASSUME NEW S \in SUBSET RowId, S # {}
  PROVE  \E i \in S : \A j \in S : j <= i
<1> DEFINE T == {MaxRow - i : i \in S}
<1>1. T \subseteq Nat /\ T # {}
  <2>1. \A i \in S : MaxRow - i \in Nat
    OBVIOUS
  <2> QED
    BY <2>1, Zenon
<1>2. PICK m \in T : \A n \in T : ~ (<<n, m>> \in OpToRel(<, Nat))
  BY <1>1, NatLessThanWellFounded, WFMin
<1>3. ASSUME NEW n \in T PROVE m <= n
  <2>1. n \in Nat /\ m \in Nat
    BY <1>1, <1>2
  <2>2. ~ (n < m)
    BY <1>2, <2>1 DEF OpToRel
  <2> QED
    BY <2>1, <2>2
<1>4. PICK i \in S : m = MaxRow - i
  OBVIOUS
<1>5. ASSUME NEW j \in S PROVE j <= i
  <2>1. m <= MaxRow - j
    BY <1>3
  <2> QED
    BY <1>4, <2>1
<1> QED
  BY <1>5

\* So the command of a batch that decides a leaf's value is one of the batch, and
\* a device that applies a batch keeps a configuration.
LEMMA AfterType ==
  ASSUME NEW batch \in SUBSET Copy, NEW config \in Config
  PROVE  After(batch, config) \in Config
<1> SUFFICES ASSUME NEW l \in Leaf, Writers(batch, l) # {}
             PROVE  Last(Writers(batch, l)).cmd.val \in Value
  BY DEF After
<1> DEFINE W == Writers(batch, l)
<1>1. W \in SUBSET Copy
  BY DEF Writers
<1>2. Ids(W) \in SUBSET RowId /\ Ids(W) # {}
  BY <1>1, IdsType DEF Ids
<1>3. PICK i \in Ids(W) : \A j \in Ids(W) : j <= i
  BY <1>2, LargestId
<1>4. \E x \in W : \A y \in W : y.id <= x.id
  BY <1>3 DEF Ids
<1>5. Last(W) \in W
  BY <1>4 DEF Last
<1> QED
  BY <1>1, <1>5 DEF Copy, Command

\* Deleting pending rows leaves a table of rows, and no row becomes pending.
LEMMA DeletePendingType ==
  ASSUME TypeOK, NEW S, DeletePending(S)
  PROVE  rows' \in [RowId -> Row]
BY ConstantTypes DEF DeletePending, TypeOK

\* Forgetting values leaves values that may be unknown.
LEMMA ForgetType ==
  ASSUME NEW goal \in [Leaf -> Value \union {Unknown}], NEW S
  PROVE  ForgetIn(goal, S) \in [Leaf -> Value \union {Unknown}]
BY DEF ForgetIn

-----------------------------------------------------------------------------
(***************************************************************************)
(* Types                                                                   *)
(***************************************************************************)

\* A staging handler starts with commands and scopes of the router.
LEMMA BeginStageType ==
  ASSUME TypeOK, NEW p \in Proc,
         NEW scopes \in SUBSET Scope, NEW cmds \in SUBSET Command,
         NEW goal \in [Leaf -> Value \union {Unknown}],
         BeginStage(p, scopes, cmds, goal)
  PROVE  TypeOK'
<1> DEFINE r == [Idle EXCEPT !.pc = "clear", !.clear = scopes, !.todo = cmds,
                             !.goal = ForgetIn(goal, Leaf \ Tracked)]
<1>1. ForgetIn(goal, Leaf \ Tracked) \in [Leaf -> Value \union {Unknown}]
  BY ForgetType
<1>2. r \in Request
  BY <1>1, ConstantTypes DEF Request, Pc, Stages
<1>3. req' \in [Proc -> Request]
  BY <1>2, ContinueType DEF BeginStage
<1> QED
  BY <1>3 DEF BeginStage, TypeOK, dbVars, deviceVars

\* Each of the three ways to stage computes such commands.
LEMMA StageType ==
  ASSUME TypeOK, NEW p \in Proc, StageForm(p) \/ StageMove(p) \/ StageRemove(p)
  PROVE  TypeOK'
<1>0. \A l \in Leaf, v \in Value : SetLeaf(l, v) \in Command
  BY DEF SetLeaf, Command
<1>1. \A s \in Scope : DeleteNode(s) \in Command
  BY DEF DeleteNode, Command, LeavesOf
<1>2. CASE StageForm(p)
  <2>0. PICK page \in Pages : \E form \in [LeavesOf(page) -> Value] :
          BeginStage(p, page,
            {SetLeaf(l, form[l]) : l \in {x \in LeavesOf(page) : form[x] # running[x]}},
            [l \in Leaf |-> IF l \in LeavesOf(page) THEN form[l] ELSE Unknown])
    BY <1>2 DEF StageForm
  <2>1. PICK form \in [LeavesOf(page) -> Value] :
          BeginStage(p, page,
            {SetLeaf(l, form[l]) : l \in {x \in LeavesOf(page) : form[x] # running[x]}},
            [l \in Leaf |-> IF l \in LeavesOf(page) THEN form[l] ELSE Unknown])
    BY <2>0
  <2>2. {SetLeaf(l, form[l]) : l \in {x \in LeavesOf(page) : form[x] # running[x]}}
          \in SUBSET Command
    BY <1>0 DEF LeavesOf
  <2>3. [l \in Leaf |-> IF l \in LeavesOf(page) THEN form[l] ELSE Unknown]
          \in [Leaf -> Value \union {Unknown}]
    OBVIOUS
  <2> QED
    BY <2>1, <2>2, <2>3, BeginStageType
<1>3. CASE StageMove(p)
  <2>0. PICK old \in Pages, new \in Pages : \E form \in [LeavesOf(new) -> Value] :
          BeginStage(p, old \union new,
            {DeleteNode(s) : s \in old}
              \union {SetLeaf(l, form[l]) : l \in {x \in LeavesOf(new) : form[x] # Unset}},
            [l \in Leaf |->
               IF l \in LeavesOf(old) THEN Unset
               ELSE IF l \in LeavesOf(new) /\ (form[l] # Unset \/ running[l] = Unset)
                    THEN form[l] ELSE Unknown])
    BY <1>3 DEF StageMove
  <2>1. PICK form \in [LeavesOf(new) -> Value] :
          BeginStage(p, old \union new,
            {DeleteNode(s) : s \in old}
              \union {SetLeaf(l, form[l]) : l \in {x \in LeavesOf(new) : form[x] # Unset}},
            [l \in Leaf |->
               IF l \in LeavesOf(old) THEN Unset
               ELSE IF l \in LeavesOf(new) /\ (form[l] # Unset \/ running[l] = Unset)
                    THEN form[l] ELSE Unknown])
    BY <2>0
  <2>2. {DeleteNode(s) : s \in old}
          \union {SetLeaf(l, form[l]) : l \in {x \in LeavesOf(new) : form[x] # Unset}}
          \in SUBSET Command
    BY <1>0, <1>1 DEF LeavesOf
  <2>3. [l \in Leaf |->
           IF l \in LeavesOf(old) THEN Unset
           ELSE IF l \in LeavesOf(new) /\ (form[l] # Unset \/ running[l] = Unset)
                THEN form[l] ELSE Unknown] \in [Leaf -> Value \union {Unknown}]
    OBVIOUS
  <2>4. old \union new \in SUBSET Scope
    OBVIOUS
  <2> QED
    BY <2>1, <2>2, <2>3, <2>4, BeginStageType
<1>4. CASE StageRemove(p)
  <2>1. PICK page \in Pages :
          BeginStage(p, page, {DeleteNode(s) : s \in page},
            [l \in Leaf |-> IF l \in LeavesOf(page) THEN Unset ELSE Unknown])
    BY <1>4 DEF StageRemove
  <2>2. {DeleteNode(s) : s \in page} \in SUBSET Command
    BY <1>1
  <2>3. [l \in Leaf |-> IF l \in LeavesOf(page) THEN Unset ELSE Unknown]
          \in [Leaf -> Value \union {Unknown}]
    OBVIOUS
  <2> QED
    BY <2>1, <2>2, <2>3, BeginStageType
<1> QED
  BY <1>2, <1>3, <1>4

\* Every step keeps the types.
LEMMA TypeStep == TypeOK /\ [Next]_vars => TypeOK'
<1> SUFFICES ASSUME TypeOK, [Next]_vars PROVE TypeOK'
  OBVIOUS
<1> USE DEF dbVars, deviceVars
<1>1. ASSUME NEW p \in Proc, StageForm(p) \/ StageMove(p) \/ StageRemove(p)
      PROVE TypeOK'
  BY <1>1, StageType
<1>2. ASSUME NEW p \in Proc, StageClear(p) PROVE TypeOK'
  <2>1. PICK s \in req[p].clear :
          /\ DeletePending({i \in RowId : rows[i].cmd.scope = s})
          /\ agreed' = Forget(LeavesOf({s}))
          /\ Continue(p, [req[p] EXCEPT !.clear = @ \ {s},
                            !.pc = IF req[p].clear = {s} THEN "insert" ELSE "clear"])
    BY <1>2 DEF StageClear
  <2>2. rows' \in [RowId -> Row]
    BY <2>1, DeletePendingType
  <2>3. agreed' \in [Leaf -> Value \union {Unknown}]
    BY <2>1, ForgetType DEF Forget, TypeOK
  <2>4. /\ req[p] \in Request /\ req[p].clear \ {s} \in SUBSET Scope
        /\ (IF req[p].clear = {s} THEN "insert" ELSE "clear") \in Pc
    BY ContinueType DEF Request, Pc, Stages
  <2>5. req' \in [Proc -> Request]
    BY <2>1, <2>4, RequestUpdate, ContinueType
  <2> QED
    BY <1>2, <2>2, <2>3, <2>5 DEF StageClear, TypeOK
<1>3. ASSUME NEW p \in Proc, StageInsert(p) PROVE TypeOK'
  <2>1. PICK cmd \in req[p].todo :
          /\ rows' = [rows EXCEPT ![nextRow] =
                        [status |-> "pending", cmd |-> cmd, commit |-> None]]
          /\ Continue(p, [req[p] EXCEPT !.todo = @ \ {cmd}])
    BY <1>3 DEF StageInsert
  <2>2. cmd \in Command /\ req[p].todo \ {cmd} \in SUBSET Command /\ req[p] \in Request
    BY ContinueType DEF Request
  <2>3. rows' \in [RowId -> Row]
    BY <2>1, <2>2 DEF TypeOK, Row, RowStatus
  <2>4. req' \in [Proc -> Request]
    BY <2>1, <2>2, RequestUpdate, ContinueType
  <2>5. nextRow' \in 1..(MaxRow + 1)
    BY <1>3 DEF StageInsert, TypeOK
  <2> QED
    BY <1>3, <2>3, <2>4, <2>5 DEF StageInsert, TypeOK
<1>4. ASSUME NEW p \in Proc, StageReturn(p) PROVE TypeOK'
  <2>1. agreed' \in [Leaf -> Value \union {Unknown}]
    BY <1>4 DEF StageReturn, TypeOK, Request
  <2> QED
    BY <1>4, <2>1, ContinueType DEF StageReturn, TypeOK
<1>5. ASSUME NEW p \in Proc, DiscardOne(p) PROVE TypeOK'
  <2>1. rows' \in [RowId -> Row]
    BY <1>5, DeletePendingType DEF DiscardOne
  <2>2. agreed' \in [Leaf -> Value \union {Unknown}]
    BY <1>5, ForgetType DEF DiscardOne, Forget, TypeOK
  <2> QED
    BY <1>5, <2>1, <2>2 DEF DiscardOne, TypeOK
<1>6. ASSUME NEW p \in Proc, DiscardAll(p) PROVE TypeOK'
  <2>1. rows' \in [RowId -> Row]
    BY <1>6, DeletePendingType DEF DiscardAll
  <2>2. agreed' \in [Leaf -> Value \union {Unknown}]
    BY <1>6, ForgetType DEF DiscardAll, Forget, TypeOK
  <2> QED
    BY <1>6, <2>1, <2>2 DEF DiscardAll, TypeOK
<1>7. ASSUME NEW p \in Proc, CommitSelect(p) PROVE TypeOK'
  <2>1. Copies(Pending) \in SUBSET Copy
    BY CopiesType DEF Pending
  <2>2. nextRow \in Nat
    BY DEF TypeOK
  <2>3. [Idle EXCEPT !.pc = "sent", !.batch = Copies(Pending), !.top = nextRow]
          \in Request
    BY <2>1, <2>2, ConstantTypes DEF Request, Pc, Commits
  <2>4. req' \in [Proc -> Request]
    BY <1>7, <2>3, ContinueType DEF CommitSelect
  <2> QED
    BY <1>7, <2>4 DEF CommitSelect, TypeOK
<1>8. ASSUME NEW p \in Proc, DeviceApply(p) PROVE TypeOK'
  <2>1. req[p].batch \in SUBSET Copy
    BY DEF TypeOK, Request
  <2>2. running' \in Config /\ inRunning' \subseteq RowId
    BY <1>8, <2>1, AfterType, IdsType DEF DeviceApply, TypeOK
  <2>3. req' \in [Proc -> Request]
    BY <1>8, ContinueType, RequestUpdate DEF DeviceApply, Pc, Commits
  <2> QED
    BY <1>8, <2>2, <2>3 DEF DeviceApply, TypeOK
<1>9. ASSUME NEW p \in Proc, DeviceReject(p) PROVE TypeOK'
  <2>1. req' \in [Proc -> Request]
    BY <1>9, ContinueType, RequestUpdate DEF DeviceReject, Pc, Commits
  <2> QED
    BY <1>9, <2>1 DEF DeviceReject, TypeOK
<1>10. ASSUME NEW p \in Proc, Timeout(p) PROVE TypeOK'
  <2>1. req[p].batch \in SUBSET Copy
    BY DEF TypeOK, Request
  <2>2. strays' \subseteq SUBSET Copy
    BY <1>10, <2>1 DEF Timeout, TypeOK
  <2> QED
    BY <1>10, <2>2, ContinueType DEF Timeout, TypeOK
<1>11. ASSUME NEW p \in Proc, ConfigureAnswered(p) PROVE TypeOK'
  <2>1. req' \in [Proc -> Request]
    BY <1>11, ContinueType, RequestUpdate DEF ConfigureAnswered, Pc, Commits
  <2> QED
    BY <1>11, <2>1 DEF ConfigureAnswered, TypeOK
<1>12. ASSUME NEW p \in Proc, DeviceSave(p) PROVE TypeOK'
  <2>1. req' \in [Proc -> Request]
    BY <1>12, ContinueType, RequestUpdate DEF DeviceSave, Pc, Commits
  <2> QED
    BY <1>12, <2>1 DEF DeviceSave, TypeOK
<1>13. ASSUME NEW p \in Proc, SaveAnswered(p) PROVE TypeOK'
  <2>1. req' \in [Proc -> Request]
    BY <1>13, ContinueType, RequestUpdate DEF SaveAnswered, Pc, Commits
  <2> QED
    BY <1>13, <2>1 DEF SaveAnswered, TypeOK
<1>14. ASSUME NEW p \in Proc, InsertCommit(p) PROVE TypeOK'
  <2>1. req[p] \in Request /\ nextCommit \in CommitId
    BY <1>14 DEF InsertCommit, TypeOK
  <2>2. /\ req[p].batch \in SUBSET Copy /\ req[p].saved \in BOOLEAN
        /\ req[p].top \in Nat /\ req[p].calm \in BOOLEAN
    BY <2>1 DEF Request
  <2>3. CommitOf(req[p]) \in CommitRow
    BY <2>2, IdsType, BatchSize DEF CommitOf, CommitRow
  <2>4. commits' \in [CommitId -> CommitRow]
    BY <1>14, <2>1, <2>3 DEF InsertCommit, TypeOK
  <2>5. [req[p] EXCEPT !.pc = "mark", !.commit = nextCommit] \in Request
    BY <2>1, RequestUpdate DEF Pc, Commits
  <2>6. req' \in [Proc -> Request]
    BY <1>14, <2>5, ContinueType DEF InsertCommit
  <2>7. nextCommit' \in 1..(MaxCommit + 1)
    BY <1>14, <2>1 DEF InsertCommit
  <2> QED
    BY <1>14, <2>4, <2>6, <2>7 DEF InsertCommit, TypeOK
<1>15. ASSUME NEW p \in Proc, MarkCommitted(p) PROVE TypeOK'
  <2>1. req[p].commit \in CommitId \union {None}
    BY DEF TypeOK, Request
  <2>2. \A x \in Row, c \in CommitId \union {None} :
          [x EXCEPT !.status = "committed", !.commit = c] \in Row
    BY DEF Row, RowStatus
  <2>3. rows' \in [RowId -> Row]
    BY <1>15, <2>1, <2>2 DEF MarkCommitted, LinkRows, TypeOK
  <2> QED
    BY <1>15, <2>3, ContinueType DEF MarkCommitted, TypeOK
<1>16. ASSUME NEW p \in Proc, Abort(p) PROVE TypeOK'
  <2>1. req[p].commit \in CommitId \union {None}
    BY DEF TypeOK, Request
  <2>2. cut' \subseteq CommitId \union {None}
    BY <1>16, <2>1 DEF Abort, TypeOK
  <2> QED
    BY <1>16, <2>2, ContinueType DEF Abort, TypeOK
<1>17. ASSUME NEW p \in Proc, ProxyConfigure(p) PROVE TypeOK'
  <2>1. agreed' \in [Leaf -> Value \union {Unknown}]
    BY <1>17, ForgetType DEF ProxyConfigure, Forget, TypeOK
  <2> QED
    BY <1>17, <2>1, ZenonT(60) DEF ProxyConfigure, TypeOK
<1>18. ASSUME StrayApply PROVE TypeOK'
  <2>1. PICK batch \in strays :
          /\ running' = After(batch, running)
          /\ inRunning' = inRunning \union (Ids(batch) \intersect Watched)
          /\ strays' = strays \ {batch}
          /\ agreed' = Forget(LeavesOfBatch(batch) \ InTray)
          /\ req' = [p \in Proc |->
               [req[p] EXCEPT !.goal = ForgetIn(@, LeavesOfBatch(batch) \ Bound(req[p]))]]
    BY <1>18 DEF StrayApply
  <2>2. batch \in SUBSET Copy
    BY DEF TypeOK
  <2>3. running' \in Config /\ inRunning' \subseteq RowId
    BY <2>1, <2>2, AfterType, IdsType DEF TypeOK
  <2>4. agreed' \in [Leaf -> Value \union {Unknown}]
    BY <2>1, ForgetType DEF Forget, TypeOK
  <2>5. ASSUME NEW p \in Proc PROVE req'[p] \in Request
    <3>1. ForgetIn(req[p].goal, LeavesOfBatch(batch) \ Bound(req[p]))
            \in [Leaf -> Value \union {Unknown}]
      BY ContinueType, ForgetType DEF Request
    <3> QED
      BY <2>1, <3>1, ContinueType, RequestUpdate
  <2>6. req' \in [Proc -> Request]
    BY <2>1, <2>5
  <2> QED
    BY <1>18, <2>1, <2>3, <2>4, <2>6 DEF StrayApply, TypeOK
<1>19. ASSUME ProxySave PROVE TypeOK'
  BY <1>19 DEF ProxySave, TypeOK
<1>20. ASSUME Reboot PROVE TypeOK'
  <2> DEFINE lost == {l \in Leaf : boot[l] # running[l]}
  <2>1. agreed' \in [Leaf -> Value \union {Unknown}]
    BY <1>20, ForgetType DEF Reboot, Forget, TypeOK
  <2>2. ASSUME NEW p \in Proc PROVE req'[p] \in Request
    <3> DEFINE left == lost \ Bound(req[p])
    <3>1. req[p] \in Request /\ ForgetIn(req[p].goal, left) \in [Leaf -> Value \union {Unknown}]
      BY ForgetType DEF TypeOK, Request
    <3>2. req'[p] = [req[p] EXCEPT !.goal = ForgetIn(@, left),
                                   !.calm = @ /\ req[p].pc \notin {"applied", "saving"}]
      BY <1>20 DEF Reboot
    <3> HIDE DEF left
    <3> QED
      BY <3>1, <3>2 DEF Request
  <2>3. req' \in [Proc -> Request]
    BY <1>20, <2>2 DEF Reboot
  <2> QED
    BY <1>20, <2>1, <2>3 DEF Reboot, TypeOK
<1>21. CASE UNCHANGED vars
  BY <1>21 DEF vars, TypeOK
<1> QED
  BY <1>1, <1>2, <1>3, <1>4, <1>5, <1>6, <1>7, <1>8, <1>9, <1>10, <1>11, <1>12,
     <1>13, <1>14, <1>15, <1>16, <1>17, <1>18, <1>19, <1>20, <1>21
     DEF Next, StageStep, CommitStep

\* Type correctness: what the tables, the handlers and the device hold has its
\* type whatever handlers overlap, for every instance.
THEOREM TypeCorrect == Spec => []TypeOK
<1>1. Init => TypeOK
  BY ConstantTypes DEF Init, TypeOK
<1>2. TypeOK /\ [Next]_vars => TypeOK'
  BY TypeStep
<1> QED
  BY <1>1, <1>2, PTL DEF Spec

-----------------------------------------------------------------------------
(***************************************************************************)
(* The history and the tray.  Most steps leave config_commits alone, take  *)
(* at most pending rows away, and leave every handler that commits with    *)
(* the batch it has selected.                                              *)
(***************************************************************************)

RowsOnlyGo ==
  \A i \in RowId : \/ rows'[i] = rows[i]
                   \/ rows[i].status = "pending" /\ rows'[i].status = "gone"

BatchesStay ==
  \A p \in Proc : req'[p].pc \in Commits =>
    /\ req[p].pc \in Commits
    /\ req'[p].batch = req[p].batch
    /\ req'[p].top = req[p].top
    /\ req'[p].pc = "mark" => req[p].pc = "mark" /\ req'[p].commit = req[p].commit

\* A step of one handler that keeps its locals, or ends it, leaves the batches.
LEMMA BatchesStayIf ==
  ASSUME TypeOK, NEW p \in Proc, NEW r \in Request, Continue(p, r),
         r.pc \in Commits =>
           /\ req[p].pc \in Commits
           /\ r.batch = req[p].batch
           /\ r.top = req[p].top
           /\ r.pc # "mark"
  PROVE  BatchesStay
BY DEF Continue, TypeOK, BatchesStay

LEMMA BatchesStayDone ==
  ASSUME TypeOK, NEW p \in Proc, Done(p)
  PROVE  BatchesStay
<1>1. Idle \in Request /\ Idle.pc \notin Commits
  BY ConstantTypes DEF Idle, Commits
<1> QED
  BY <1>1, BatchesStayIf DEF Done

\* The locals of a request that moves on.
LEMMA RequestFields ==
  ASSUME NEW r \in Request, NEW l \in Pc
  PROVE  /\ [r EXCEPT !.pc = l].pc = l
         /\ [r EXCEPT !.pc = l].batch = r.batch
         /\ [r EXCEPT !.pc = l].top = r.top
         /\ [r EXCEPT !.pc = l].calm = r.calm
         /\ [r EXCEPT !.pc = l].saved = r.saved
         /\ [r EXCEPT !.pc = l, !.applied = TRUE].pc = l
         /\ [r EXCEPT !.pc = l, !.applied = TRUE].batch = r.batch
         /\ [r EXCEPT !.pc = l, !.applied = TRUE].top = r.top
         /\ [r EXCEPT !.pc = l, !.applied = TRUE].calm = r.calm
         /\ [r EXCEPT !.pc = l, !.applied = TRUE].saved = r.saved
         /\ [r EXCEPT !.pc = l, !.saved = TRUE].pc = l
         /\ [r EXCEPT !.pc = l, !.saved = TRUE].batch = r.batch
         /\ [r EXCEPT !.pc = l, !.saved = TRUE].top = r.top
         /\ [r EXCEPT !.pc = l, !.saved = TRUE].calm = r.calm
BY DEF Request

\* The history kept in a request does not touch its locals.
LEMMA HistoryFields ==
  ASSUME NEW r \in Request, NEW g, NEW b
  PROVE  /\ [r EXCEPT !.goal = g].pc = r.pc
         /\ [r EXCEPT !.goal = g].batch = r.batch
         /\ [r EXCEPT !.goal = g].top = r.top
         /\ [r EXCEPT !.goal = g].commit = r.commit
         /\ [r EXCEPT !.goal = g].saved = r.saved
         /\ [r EXCEPT !.goal = g].calm = r.calm
         /\ [r EXCEPT !.goal = g, !.calm = b].pc = r.pc
         /\ [r EXCEPT !.goal = g, !.calm = b].batch = r.batch
         /\ [r EXCEPT !.goal = g, !.calm = b].top = r.top
         /\ [r EXCEPT !.goal = g, !.calm = b].commit = r.commit
         /\ [r EXCEPT !.goal = g, !.calm = b].saved = r.saved
         /\ [r EXCEPT !.goal = g, !.calm = b].calm = b
BY DEF Request

\* A deletion of pending rows is a step in which rows only go.
LEMMA RowsOnlyGoIf ==
  ASSUME NEW S, DeletePending(S)
  PROVE  RowsOnlyGo
<1>1. GoneRow.status = "gone"
  BY DEF GoneRow
<1> QED
  BY <1>1 DEF DeletePending, RowsOnlyGo

\* Such a step keeps the invariant.
LEMMA LinkKept ==
  ASSUME LinkInv, RowsOnlyGo, BatchesStay, UNCHANGED <<nextRow, commits, nextCommit>>
  PROVE  LinkInv'
<1>1. \A i \in RowId : /\ rows[i].status = "committed" => rows'[i] = rows[i]
                       /\ rows'[i].status = "committed" => rows'[i] = rows[i]
                       /\ rows[i].status = "unused" => rows'[i] = rows[i]
  BY DEF RowsOnlyGo
<1>2. Pending' \subseteq Pending
  BY DEF RowsOnlyGo, Pending
<1>4. IdsAreFresh'
  BY <1>1 DEF LinkInv, IdsAreFresh
<1>5. BatchIsComplete'
  BY <1>2 DEF LinkInv, BatchIsComplete, BatchesStay
<1>6. MarkKnowsItsCommit'
  BY DEF LinkInv, MarkKnowsItsCommit, BatchesStay, Commits
<1>7. SentIsOld'
  BY DEF LinkInv, SentIsOld
<1>8. SentOrStagedLate'
  BY <1>1 DEF LinkInv, SentOrStagedLate
<1> QED
  BY <1>4, <1>5, <1>6, <1>7, <1>8 DEF LinkInv

\* An INSERT of a change: the new row is younger than every batch.
LEMMA LinkInsert ==
  ASSUME TypeOK, LinkInv, NEW p \in Proc, StageInsert(p)
  PROVE  LinkInv'
<1>0. PICK cmd \in req[p].todo :
        /\ rows' = [rows EXCEPT ![nextRow] =
                      [status |-> "pending", cmd |-> cmd, commit |-> None]]
        /\ Continue(p, [req[p] EXCEPT !.todo = @ \ {cmd}])
  BY DEF StageInsert
<1>1. nextRow \in RowId /\ nextRow' = nextRow + 1
  BY DEF StageInsert, TypeOK
<1>2. UNCHANGED <<commits, nextCommit>>
  BY DEF StageInsert
<1>3. /\ rows'[nextRow].status = "pending"
      /\ \A i \in RowId : i # nextRow => rows'[i] = rows[i]
      /\ rows[nextRow].status = "unused"
  BY <1>0, <1>1 DEF TypeOK, LinkInv, IdsAreFresh
<1>4. Pending' = Pending \union {nextRow}
  BY <1>1, <1>3 DEF Pending
<1>6. BatchesStay
  <2>1. req[p].pc = "insert" /\ req[p] \in Request
    BY ContinueType DEF StageInsert
  <2>2. [req[p] EXCEPT !.todo = @ \ {cmd}] \in Request
    BY <2>1, RequestUpdate DEF Request
  <2>3. [req[p] EXCEPT !.todo = @ \ {cmd}].pc = "insert"
    BY <2>1 DEF Request
  <2> QED
    BY <1>0, <2>2, <2>3, BatchesStayIf DEF Commits
<1>7. IdsAreFresh'
  BY <1>1, <1>2, <1>3 DEF LinkInv, IdsAreFresh, TypeOK
<1>8. BatchIsComplete'
  <2> SUFFICES ASSUME NEW q \in Proc, req'[q].pc \in Commits
               PROVE  /\ Ids(req'[q].batch) \subseteq 1..(nextRow' - 1)
                      /\ req'[q].top <= nextRow'
                      /\ \A i \in Pending' : i < req'[q].top => i \in Ids(req'[q].batch)
    BY DEF BatchIsComplete, Ids
  <2>1. req[q].pc \in Commits /\ req'[q].batch = req[q].batch /\ req'[q].top = req[q].top
    BY <1>6 DEF BatchesStay
  <2>2. /\ Ids(req[q].batch) \subseteq 1..(nextRow - 1)
        /\ req[q].top <= nextRow
        /\ \A i \in Pending : i < req[q].top => i \in Ids(req[q].batch)
    BY <2>1 DEF LinkInv, BatchIsComplete
  <2>3. req[q].top \in Nat
    BY ContinueType DEF Request
  <2> QED
    BY <1>1, <1>4, <2>1, <2>2, <2>3
<1>9. MarkKnowsItsCommit'
  BY <1>2, <1>6 DEF LinkInv, MarkKnowsItsCommit, BatchesStay, Commits
<1>10. SentIsOld'
  BY <1>1, <1>2 DEF LinkInv, SentIsOld
<1>11. SentOrStagedLate'
  BY <1>1, <1>2, <1>3 DEF LinkInv, SentOrStagedLate
<1> QED
  BY <1>7, <1>8, <1>9, <1>10, <1>11 DEF LinkInv

\* The SELECT of a commit: the batch is the tray.
LEMMA LinkSelect ==
  ASSUME TypeOK, LinkInv, NEW p \in Proc, CommitSelect(p)
  PROVE  LinkInv'
<1> DEFINE r == [Idle EXCEPT !.pc = "sent", !.batch = Copies(Pending), !.top = nextRow]
<1>1. req' = [req EXCEPT ![p] = r] /\ UNCHANGED dbVars
  BY DEF CommitSelect, Continue
<1>2. r.pc = "sent" /\ r.batch = Copies(Pending) /\ r.top = nextRow
  BY DEF Idle
<1>3. Ids(Copies(Pending)) = Pending
  BY CopiesType DEF Pending
<1>4. Pending \subseteq 1..(nextRow - 1) /\ nextRow \in Nat
  BY DEF Pending, LinkInv, IdsAreFresh, TypeOK
<1> HIDE DEF r
<1>5. Pending' = Pending
  BY <1>1 DEF Pending, dbVars
<1>6. \A q \in Proc : q # p => req'[q] = req[q]
  BY <1>1 DEF TypeOK
<1>7. req'[p] = r
  BY <1>1 DEF TypeOK
<1>8. BatchIsComplete'
  <2> SUFFICES ASSUME NEW q \in Proc, req'[q].pc \in Commits
               PROVE  /\ Ids(req'[q].batch) \subseteq 1..(nextRow' - 1)
                      /\ req'[q].top <= nextRow'
                      /\ \A i \in Pending' : i < req'[q].top => i \in Ids(req'[q].batch)
    BY DEF BatchIsComplete, Ids
  <2>1. CASE q = p
    <3>1. Ids(req'[q].batch) = Pending /\ req'[q].top = nextRow
      BY <1>2, <1>3, <1>7, <2>1, Zenon
    <3>2. nextRow' = nextRow
      BY <1>1 DEF dbVars
    <3> QED
      BY <1>4, <1>5, <3>1, <3>2
  <2>2. CASE q # p
    BY <1>1, <1>5, <1>6, <2>2 DEF LinkInv, BatchIsComplete, dbVars
  <2> QED
    BY <2>1, <2>2
<1>9. MarkKnowsItsCommit'
  BY <1>1, <1>2, <1>6, <1>7, ZenonT(60) DEF LinkInv, MarkKnowsItsCommit, dbVars, Ids
<1>10. IdsAreFresh' /\ SentIsOld' /\ SentOrStagedLate'
  BY <1>1 DEF LinkInv, IdsAreFresh, SentIsOld, SentOrStagedLate, dbVars
<1> QED
  BY <1>8, <1>9, <1>10 DEF LinkInv

\* The INSERT of a commit: no row is linked to it yet.
LEMMA LinkInsertCommit ==
  ASSUME TypeOK, LinkInv, NEW p \in Proc, InsertCommit(p)
  PROVE  LinkInv'
<1>1. /\ req[p].pc = "record" /\ nextCommit \in CommitId /\ nextCommit' = nextCommit + 1
      /\ commits' = [commits EXCEPT ![nextCommit] = CommitOf(req[p])]
      /\ UNCHANGED <<rows, nextRow>>
      /\ req[p] \in Request
  BY ContinueType DEF InsertCommit, TypeOK
<1>2. commits[nextCommit].status = "unused"
  BY <1>1 DEF LinkInv, IdsAreFresh, TypeOK
<1>3. /\ CommitOf(req[p]).sent = Ids(req[p].batch)
      /\ CommitOf(req[p]).top = req[p].top
      /\ req[p].applied => CommitOf(req[p]).status = "success"
  BY DEF CommitOf
<1>4. /\ commits'[nextCommit] = CommitOf(req[p])
      /\ \A c \in CommitId : c # nextCommit => commits'[c] = commits[c]
  BY <1>1 DEF TypeOK
<1>5. Pending' = Pending
  BY <1>1 DEF Pending
<1>7. Ids(req[p].batch) \subseteq 1..(nextRow - 1)
  BY <1>1 DEF LinkInv, BatchIsComplete, Commits
<1>8. \A q \in Proc : q # p => req'[q] = req[q]
  BY DEF InsertCommit, Continue, Done, TypeOK
<1>9. \/ req'[p] = Idle
      \/ /\ req[p].applied
         /\ req'[p] = [req[p] EXCEPT !.pc = "mark", !.commit = nextCommit]
  BY DEF InsertCommit, Continue, Done, TypeOK
<1>10. /\ Idle.pc = "idle"
       /\ [req[p] EXCEPT !.pc = "mark", !.commit = nextCommit].pc = "mark"
       /\ [req[p] EXCEPT !.pc = "mark", !.commit = nextCommit].commit = nextCommit
       /\ [req[p] EXCEPT !.pc = "mark", !.commit = nextCommit].batch = req[p].batch
       /\ [req[p] EXCEPT !.pc = "mark", !.commit = nextCommit].top = req[p].top
  BY <1>1 DEF Idle, Request
<1>11. \/ req'[p].pc = "idle"
       \/ /\ req[p].applied /\ req'[p].pc = "mark" /\ req'[p].commit = nextCommit
          /\ req'[p].batch = req[p].batch /\ req'[p].top = req[p].top
  BY <1>9, <1>10, Zenon
<1>12. IdsAreFresh'
  BY <1>1, <1>4 DEF LinkInv, IdsAreFresh, TypeOK
<1>13. BatchIsComplete'
  BY <1>1, <1>5, <1>8, <1>11 DEF LinkInv, BatchIsComplete, Commits, Ids
<1>14. MarkKnowsItsCommit'
  BY <1>1, <1>2, <1>3, <1>4, <1>8, <1>11 DEF LinkInv, MarkKnowsItsCommit, Ids
<1>15. SentIsOld'
  BY <1>1, <1>3, <1>4, <1>7 DEF LinkInv, SentIsOld
<1>16. SentOrStagedLate'
  BY <1>1, <1>2, <1>4 DEF LinkInv, SentOrStagedLate
<1> QED
  BY <1>12, <1>13, <1>14, <1>15, <1>16 DEF LinkInv

\* The UPDATE links the rows of the tray to the handler's commit and no others.
LEMMA MarkedRows ==
  ASSUME TypeOK, NEW p \in Proc, MarkCommitted(p)
  PROVE  \A i \in RowId :
           IF rows[i].status = "pending"
           THEN rows'[i].status = "committed" /\ rows'[i].commit = req[p].commit
           ELSE rows'[i] = rows[i]
<1> DEFINE k == req[p].commit
<1>1. ASSUME NEW x \in Row
      PROVE  /\ [x EXCEPT !.status = "committed", !.commit = k].status = "committed"
             /\ [x EXCEPT !.status = "committed", !.commit = k].commit = k
  BY DEF Row
<1>2. ASSUME NEW i \in RowId, rows[i].status = "pending"
      PROVE  rows'[i] = [rows[i] EXCEPT !.status = "committed", !.commit = k]
  BY <1>2 DEF MarkCommitted, LinkRows, Pending
<1>3. ASSUME NEW i \in RowId, rows[i].status # "pending" PROVE rows'[i] = rows[i]
  BY <1>3 DEF MarkCommitted, LinkRows, Pending
<1> HIDE DEF k
<1>4. ASSUME NEW i \in RowId, rows[i].status = "pending"
      PROVE  rows'[i].status = "committed" /\ rows'[i].commit = k
  <2>1. rows[i] \in Row
    BY DEF TypeOK
  <2> QED
    BY <1>1, <1>2, <1>4, <2>1, Zenon
<1> QED
  BY <1>3, <1>4 DEF k

\* The marking: the tray is empty, and what was in it was sent or staged late.
LEMMA LinkMark ==
  ASSUME TypeOK, LinkInv, NEW p \in Proc, MarkCommitted(p)
  PROVE  LinkInv'
<1> DEFINE k == req[p].commit
<1>1. /\ UNCHANGED <<nextRow, commits, nextCommit>>
      /\ BatchesStay
  BY BatchesStayDone DEF MarkCommitted
<1>2. /\ k \in CommitId
      /\ commits[k].status = "success"
      /\ commits[k].sent = Ids(req[p].batch)
      /\ commits[k].top = req[p].top
  BY DEF MarkCommitted, LinkInv, MarkKnowsItsCommit
<1>3. req[p].top \in Nat /\ \A i \in Pending : i < req[p].top => i \in Ids(req[p].batch)
  BY ContinueType DEF MarkCommitted, LinkInv, BatchIsComplete, Commits, Request
<1>4. \A i \in RowId :
        IF rows[i].status = "pending"
        THEN rows'[i].status = "committed" /\ rows'[i].commit = k
        ELSE rows'[i] = rows[i]
  BY MarkedRows
<1>5. Pending' = {}
  BY <1>4 DEF Pending
<1> HIDE DEF k
<1>6. IdsAreFresh'
  BY <1>1, <1>4 DEF LinkInv, IdsAreFresh
<1>7. BatchIsComplete'
  BY <1>1, <1>5 DEF LinkInv, BatchIsComplete, BatchesStay
<1>8. MarkKnowsItsCommit'
  BY <1>1 DEF LinkInv, MarkKnowsItsCommit, BatchesStay, Commits
<1>9. SentIsOld'
  BY <1>1 DEF LinkInv, SentIsOld
<1>10. SentOrStagedLate'
  BY <1>1, <1>2, <1>3, <1>4 DEF LinkInv, SentOrStagedLate, Pending
<1> QED
  BY <1>6, <1>7, <1>8, <1>9, <1>10 DEF LinkInv

\* Every other step is one in which rows only go.
Quiet == RowsOnlyGo /\ BatchesStay /\ UNCHANGED <<nextRow, commits, nextCommit>>

LEMMA StepShape ==
  ASSUME TypeOK, [Next]_vars
  PROVE  \/ Quiet
         \/ \E p \in Proc : \/ StageInsert(p) \/ CommitSelect(p)
                            \/ InsertCommit(p) \/ MarkCommitted(p)
<1> USE DEF dbVars, deviceVars
<1>0. UNCHANGED rows => RowsOnlyGo
  BY DEF RowsOnlyGo
<1>1. ASSUME NEW p \in Proc, StageForm(p) \/ StageMove(p) \/ StageRemove(p)
      PROVE Quiet
  <2>1. \E scopes, cmds, goal : BeginStage(p, scopes, cmds, goal)
    BY <1>1, Zenon DEF StageForm, StageMove, StageRemove
  <2>2. PICK scopes, cmds, goal : BeginStage(p, scopes, cmds, goal)
    BY <2>1
  <2> DEFINE r == [Idle EXCEPT !.pc = "clear", !.clear = scopes, !.todo = cmds,
                               !.goal = ForgetIn(goal, Leaf \ Tracked)]
  <2>3. r.pc = "clear"
    BY DEF Idle
  <2>4. req' = [req EXCEPT ![p] = r] /\ UNCHANGED dbVars
    BY <2>2 DEF BeginStage, Continue
  <2> HIDE DEF r
  <2>5. BatchesStay
    BY <2>3, <2>4 DEF BatchesStay, TypeOK, Commits
  <2> QED
    BY <1>0, <2>4, <2>5 DEF Quiet
<1>2. ASSUME NEW p \in Proc, StageClear(p) PROVE Quiet
  <2>1. PICK s \in req[p].clear :
          /\ DeletePending({i \in RowId : rows[i].cmd.scope = s})
          /\ Continue(p, [req[p] EXCEPT !.clear = @ \ {s},
                            !.pc = IF req[p].clear = {s} THEN "insert" ELSE "clear"])
    BY <1>2 DEF StageClear
  <2> DEFINE r == [req[p] EXCEPT !.clear = @ \ {s},
                            !.pc = IF req[p].clear = {s} THEN "insert" ELSE "clear"]
  <2>2. r.pc \in Stages
    BY ContinueType DEF Request, Stages
  <2>3. req' = [req EXCEPT ![p] = r]
    BY <2>1 DEF Continue
  <2> HIDE DEF r
  <2>4. BatchesStay
    BY <2>2, <2>3 DEF BatchesStay, TypeOK, Commits, Stages
  <2> QED
    BY <1>2, <2>1, <2>4, RowsOnlyGoIf DEF Quiet, StageClear
<1>4. ASSUME NEW p \in Proc, StageReturn(p) PROVE Quiet
  BY <1>0, <1>4, BatchesStayDone DEF Quiet, StageReturn
<1>5. ASSUME NEW p \in Proc, DiscardOne(p) PROVE Quiet
  <2>1. BatchesStay
    BY <1>5 DEF DiscardOne, BatchesStay
  <2> QED
    BY <1>5, <2>1, RowsOnlyGoIf DEF Quiet, DiscardOne
<1>6. ASSUME NEW p \in Proc, DiscardAll(p) PROVE Quiet
  <2>1. BatchesStay
    BY <1>6 DEF DiscardAll, BatchesStay
  <2> QED
    BY <1>6, <2>1, RowsOnlyGoIf DEF Quiet, DiscardAll
<1>8. ASSUME NEW p \in Proc, DeviceApply(p) \/ DeviceReject(p) \/ DeviceSave(p)
      PROVE Quiet
  <2>1. PICK l \in {"applied", "rejected", "saved"} :
          Continue(p, [req[p] EXCEPT !.pc = l])
    BY <1>8 DEF DeviceApply, DeviceReject, DeviceSave
  <2>2. req[p].pc \in Commits /\ req[p] \in Request /\ l \in Pc /\ l # "mark"
    BY <1>8, ContinueType DEF DeviceApply, DeviceReject, DeviceSave, Pc, Commits
  <2>3. BatchesStay
    BY <2>1, <2>2, RequestUpdate, RequestFields, BatchesStayIf
  <2> QED
    BY <1>0, <1>8, <2>3 DEF Quiet, DeviceApply, DeviceReject, DeviceSave
<1>9. ASSUME NEW p \in Proc, Timeout(p) PROVE Quiet
  BY <1>0, <1>9, BatchesStayDone DEF Quiet, Timeout
<1>10. ASSUME NEW p \in Proc, ConfigureAnswered(p) \/ SaveAnswered(p) PROVE Quiet
  <2>1. PICK l \in {"saving", "record"} :
          \/ Continue(p, [req[p] EXCEPT !.pc = l])
          \/ Continue(p, [req[p] EXCEPT !.pc = l, !.applied = TRUE])
          \/ Continue(p, [req[p] EXCEPT !.pc = l, !.saved = TRUE])
    BY <1>10 DEF ConfigureAnswered, SaveAnswered
  <2>2. req[p].pc \in Commits /\ req[p] \in Request /\ l \in Pc /\ l # "mark"
    BY <1>10, ContinueType DEF ConfigureAnswered, SaveAnswered, Pc, Commits
  <2>3. BatchesStay
    BY <2>1, <2>2, RequestUpdate, RequestFields, BatchesStayIf, ZenonT(60)
  <2> QED
    BY <1>0, <1>10, <2>3 DEF Quiet, ConfigureAnswered, SaveAnswered
<1>13. ASSUME NEW p \in Proc, Abort(p) PROVE Quiet
  BY <1>0, <1>13, BatchesStayDone DEF Quiet, Abort
<1>14. ASSUME (\E p \in Proc : ProxyConfigure(p)) \/ ProxySave \/ UNCHANGED vars PROVE Quiet
  <2>1. BatchesStay
    BY <1>14 DEF ProxyConfigure, ProxySave, vars, BatchesStay
  <2> QED
    BY <1>0, <1>14, <2>1 DEF Quiet, ProxyConfigure, ProxySave, vars
<1>15. ASSUME StrayApply \/ Reboot PROVE Quiet
  <2>1. ASSUME NEW p \in Proc
        PROVE  /\ req'[p].pc = req[p].pc /\ req'[p].batch = req[p].batch
               /\ req'[p].top = req[p].top /\ req'[p].commit = req[p].commit
    <3>1. req[p] \in Request
      BY ContinueType
    <3>2. CASE \E g, b : req'[p] = [req[p] EXCEPT !.goal = g, !.calm = b]
      <4>1. PICK g, b : req'[p] = [req[p] EXCEPT !.goal = g, !.calm = b]
        BY <3>2, Zenon
      <4> DEFINE x == [req[p] EXCEPT !.goal = g, !.calm = b]
      <4>2. x.pc = req[p].pc /\ x.batch = req[p].batch /\ x.top = req[p].top
              /\ x.commit = req[p].commit
        BY <3>1, HistoryFields
      <4>3. req'[p] = x
        BY <4>1, Zenon
      <4> HIDE DEF x
      <4> QED
        BY <4>2, <4>3
    <3>3. CASE \E g : req'[p] = [req[p] EXCEPT !.goal = g]
      <4>1. PICK g : req'[p] = [req[p] EXCEPT !.goal = g]
        BY <3>3, Zenon
      <4> DEFINE x == [req[p] EXCEPT !.goal = g]
      <4>2. x.pc = req[p].pc /\ x.batch = req[p].batch /\ x.top = req[p].top
              /\ x.commit = req[p].commit
        BY <3>1, HistoryFields
      <4>3. req'[p] = x
        BY <4>1, Zenon
      <4> HIDE DEF x
      <4> QED
        BY <4>2, <4>3
    <3>4. (\E g, b : req'[p] = [req[p] EXCEPT !.goal = g, !.calm = b])
            \/ (\E g : req'[p] = [req[p] EXCEPT !.goal = g])
      BY <1>15, ZenonT(60) DEF StrayApply, Reboot
    <3> QED
      BY <3>2, <3>3, <3>4
  <2>2. BatchesStay
    BY <2>1 DEF BatchesStay
  <2> QED
    BY <1>0, <1>15, <2>2 DEF Quiet, StrayApply, Reboot
<1> QED
  BY <1>1, <1>2, <1>4, <1>5, <1>6, <1>8, <1>9, <1>10, <1>13, <1>14, <1>15
     DEF Next, StageStep, CommitStep

\* So every step keeps the invariant.
LEMMA LinkStep == TypeOK /\ LinkInv /\ [Next]_vars => LinkInv'
<1> SUFFICES ASSUME TypeOK, LinkInv, [Next]_vars PROVE LinkInv'
  OBVIOUS
<1>1. CASE Quiet
  BY <1>1, LinkKept DEF Quiet
<1>2. ASSUME NEW p \in Proc,
             StageInsert(p) \/ CommitSelect(p) \/ InsertCommit(p) \/ MarkCommitted(p)
      PROVE LinkInv'
  BY <1>2, LinkInsert, LinkSelect, LinkInsertCommit, LinkMark
<1> QED
  BY <1>1, <1>2, StepShape

\* The invariant holds in every reachable state.
LEMMA LinkCorrect == Spec => [](TypeOK /\ LinkInv)
<1>1. Init => TypeOK /\ LinkInv
  <2> SUFFICES ASSUME Init PROVE TypeOK /\ LinkInv
    OBVIOUS
  <2>1. TypeOK
    BY ConstantTypes DEF Init, TypeOK
  <2>2. /\ \A i \in RowId : rows[i].status = "unused"
        /\ \A c \in CommitId : commits[c].status = "unused" /\ commits[c].sent = {}
        /\ \A p \in Proc : req[p].pc = "idle"
    BY DEF Init, UnusedRow, UnusedCommit, Idle
  <2> QED
    BY <2>1, <2>2 DEF LinkInv, IdsAreFresh, BatchIsComplete, MarkKnowsItsCommit,
       SentIsOld, SentOrStagedLate, Pending, Commits
<1>2. TypeOK /\ LinkInv /\ [Next]_vars => (TypeOK /\ LinkInv)'
  BY TypeStep, LinkStep
<1> QED
  BY <1>1, <1>2, PTL DEF Spec

\* A row the history credits to a commit was sent by it or staged after its SELECT.
THEOREM CreditedRowsWereSentOrLate == Spec => []SentOrStagedLate
<1>1. LinkInv => SentOrStagedLate
  BY DEF LinkInv
<1> QED
  BY <1>1, LinkCorrect, PTL

-----------------------------------------------------------------------------
(***************************************************************************)
(* The history is append-only                                              *)
(***************************************************************************)

HistoryStays ==
  /\ \A i \in RowId : rows[i].status = "committed" => rows'[i] = rows[i]
  /\ \A c \in CommitId : commits[c].status # "unused" => commits'[c] = commits[c]

\* No step takes back a committed row or rewrites a commit.
LEMMA HistoryStep == TypeOK /\ LinkInv /\ [Next]_vars => HistoryStays
<1> SUFFICES ASSUME TypeOK, LinkInv, [Next]_vars PROVE HistoryStays
  OBVIOUS
<1> USE DEF dbVars, deviceVars
<1>1. RowsOnlyGo /\ UNCHANGED commits => HistoryStays
  BY DEF RowsOnlyGo, HistoryStays
<1>2. UNCHANGED <<rows, commits>> => HistoryStays
  BY DEF HistoryStays
<1>3. ASSUME NEW p \in Proc, StageClear(p) \/ DiscardOne(p) \/ DiscardAll(p)
      PROVE HistoryStays
  BY <1>1, <1>3, RowsOnlyGoIf DEF StageClear, DiscardOne, DiscardAll
<1>4. ASSUME NEW p \in Proc, StageInsert(p) PROVE HistoryStays
  <2>1. \E row : rows' = [rows EXCEPT ![nextRow] = row]
    BY <1>4 DEF StageInsert
  <2>2. nextRow \in RowId /\ UNCHANGED commits
    BY <1>4 DEF StageInsert, TypeOK
  <2>3. rows[nextRow].status = "unused"
    BY <2>2 DEF LinkInv, IdsAreFresh
  <2> QED
    BY <2>1, <2>2, <2>3 DEF HistoryStays, TypeOK
<1>5. ASSUME NEW p \in Proc, InsertCommit(p) PROVE HistoryStays
  <2>1. /\ nextCommit \in CommitId /\ UNCHANGED rows
        /\ commits' = [commits EXCEPT ![nextCommit] = CommitOf(req[p])]
    BY <1>5 DEF InsertCommit, TypeOK
  <2>2. commits[nextCommit].status = "unused"
    BY <2>1 DEF LinkInv, IdsAreFresh
  <2> QED
    BY <2>1, <2>2 DEF HistoryStays, TypeOK
<1>6. ASSUME NEW p \in Proc, MarkCommitted(p) PROVE HistoryStays
  BY <1>6, ZenonT(60) DEF MarkCommitted, LinkRows, Pending, HistoryStays
<1>7. ASSUME NEW p \in Proc,
             \/ StageForm(p) \/ StageMove(p) \/ StageRemove(p) \/ StageReturn(p)
             \/ CommitSelect(p) \/ DeviceApply(p) \/ DeviceReject(p) \/ DeviceSave(p)
             \/ Timeout(p) \/ Abort(p) \/ ConfigureAnswered(p) \/ SaveAnswered(p)
             \/ ProxyConfigure(p)
      PROVE HistoryStays
  BY <1>2, <1>7 DEF StageForm, StageMove, StageRemove, BeginStage, StageReturn,
     CommitSelect, DeviceApply, DeviceReject, DeviceSave, Timeout, Abort,
     ConfigureAnswered, SaveAnswered, ProxyConfigure
<1>8. CASE StrayApply \/ ProxySave \/ Reboot \/ UNCHANGED vars
  BY <1>2, <1>8 DEF StrayApply, ProxySave, Reboot, vars
<1> QED
  BY <1>3, <1>4, <1>5, <1>6, <1>7, <1>8 DEF Next, StageStep, CommitStep

\* The history view only grows: a committed change keeps its commit, and a commit
\* what it says of the device's answer.
THEOREM HistoryOnlyGrows == Spec => HistoryIsImmutable
<1>1. TypeOK /\ LinkInv /\ [Next]_vars
        => [/\ \A i \in RowId : rows[i].status = "committed" => rows'[i] = rows[i]
            /\ \A c \in CommitId : commits[c].status # "unused"
                                     => commits'[c] = commits[c]]_vars
  BY HistoryStep DEF HistoryStays
<1> QED
  BY <1>1, LinkCorrect, PTL DEF Spec, HistoryIsImmutable

-----------------------------------------------------------------------------
(***************************************************************************)
(* What is reported as saved is in the boot configuration                  *)
(***************************************************************************)

\* What SaveInv says of one handler with locals r.
Kept(r, run, bt) ==
  /\ r.pc \in {"applied", "saving"} /\ r.calm => Ids(r.batch) \intersect Watched \subseteq run
  /\ r.calm /\ (r.pc = "saved" \/ (r.pc = "record" /\ r.saved))
       => Ids(r.batch) \intersect Watched \subseteq bt
  /\ r.pc \in {"sent", "applied", "rejected", "saving", "saved"} => ~r.saved

\* SaveInv with one conjunct for every handler.
LEMMA SaveInvIs ==
  SaveInv <=> /\ inBoot \subseteq inRunning
              /\ \A p \in Proc : Kept(req[p], inRunning, inBoot)
              /\ SavedSurvivesReboot
BY DEF SaveInv, Kept

\* It is enough that the device keeps what is there, that the handler that moves
\* has Kept, and that no commit is added.
LEMMA SaveKept ==
  ASSUME TypeOK, SaveInv, NEW p \in Proc, NEW r, Continue(p, r),
         inRunning \subseteq inRunning', inBoot \subseteq inBoot',
         inBoot' \subseteq inRunning',
         Kept(r, inRunning', inBoot'), UNCHANGED commits
  PROVE  SaveInv'
<1>1. req'[p] = r /\ \A q \in Proc : q # p => req'[q] = req[q]
  BY DEF Continue, TypeOK
<1>2. \A q \in Proc : Kept(req'[q], inRunning', inBoot')
  <2>1. \A q \in Proc : Kept(req[q], inRunning', inBoot')
    BY SaveInvIs DEF Kept
  <2> QED
    BY <1>1, <2>1
<1>3. SavedSurvivesReboot'
  BY DEF SaveInv, SavedSurvivesReboot
<1>4. SaveInv' <=> /\ inBoot' \subseteq inRunning'
                   /\ \A q \in Proc : Kept(req'[q], inRunning', inBoot')
                   /\ SavedSurvivesReboot'
  BY DEF SaveInv, Kept, Ids
<1> QED
  BY <1>2, <1>3, <1>4

\* A handler that stages, or none, claims nothing of the device.
LEMMA StagesKeep ==
  ASSUME NEW r, r.pc \in {"idle", "clear", "insert", "mark"}, NEW run, NEW bt
  PROVE  Kept(r, run, bt)
BY DEF Kept

\* Every step keeps SaveInv.
LEMMA SaveStep == TypeOK /\ SaveInv /\ [Next]_vars => SaveInv'
<1> SUFFICES ASSUME TypeOK, SaveInv, [Next]_vars PROVE SaveInv'
  OBVIOUS
<1> USE DEF dbVars, deviceVars
<1>0. /\ inBoot \subseteq inRunning
      /\ \A p \in Proc : Kept(req[p], inRunning, inBoot)
  BY SaveInvIs
<1>1. UNCHANGED <<req, commits, inRunning, inBoot>> => SaveInv'
  BY DEF SaveInv, SavedSurvivesReboot, Ids
<1>2. ASSUME NEW p \in Proc, NEW r, r.pc \in {"idle", "clear", "insert", "mark"},
             Continue(p, r), UNCHANGED <<commits, inRunning, inBoot>>
      PROVE SaveInv'
  BY <1>0, <1>2, StagesKeep, SaveKept
<1>3. ASSUME NEW p \in Proc, Done(p), UNCHANGED <<commits, inRunning, inBoot>>
      PROVE SaveInv'
  BY <1>2, <1>3 DEF Done, Idle
<1>4. ASSUME NEW p \in Proc, StageForm(p) \/ StageMove(p) \/ StageRemove(p)
      PROVE SaveInv'
  <2>1. \E scopes, cmds, goal : BeginStage(p, scopes, cmds, goal)
    BY <1>4, Zenon DEF StageForm, StageMove, StageRemove
  <2>2. PICK scopes, cmds, goal : BeginStage(p, scopes, cmds, goal)
    BY <2>1
  <2> DEFINE r == [Idle EXCEPT !.pc = "clear", !.clear = scopes, !.todo = cmds,
                               !.goal = ForgetIn(goal, Leaf \ Tracked)]
  <2>3. r.pc = "clear"
    BY DEF Idle
  <2>4. Continue(p, r) /\ UNCHANGED <<commits, inRunning, inBoot>>
    BY <2>2 DEF BeginStage
  <2> HIDE DEF r
  <2> QED
    BY <1>2, <2>3, <2>4
<1>5. ASSUME NEW p \in Proc, StageClear(p) PROVE SaveInv'
  <2>1. PICK s \in req[p].clear :
          Continue(p, [req[p] EXCEPT !.clear = @ \ {s},
                         !.pc = IF req[p].clear = {s} THEN "insert" ELSE "clear"])
    BY <1>5 DEF StageClear
  <2> DEFINE r == [req[p] EXCEPT !.clear = @ \ {s},
                            !.pc = IF req[p].clear = {s} THEN "insert" ELSE "clear"]
  <2>2. r.pc \in {"clear", "insert"}
    BY ContinueType DEF Request
  <2>3. Continue(p, r) /\ UNCHANGED <<commits, inRunning, inBoot>>
    BY <1>5, <2>1 DEF StageClear
  <2> HIDE DEF r
  <2> QED
    BY <1>2, <2>2, <2>3
<1>6. ASSUME NEW p \in Proc, StageInsert(p) PROVE SaveInv'
  <2>1. PICK cmd \in req[p].todo : Continue(p, [req[p] EXCEPT !.todo = @ \ {cmd}])
    BY <1>6 DEF StageInsert
  <2> DEFINE r == [req[p] EXCEPT !.todo = @ \ {cmd}]
  <2>2. r.pc = "insert"
    BY <1>6, ContinueType DEF StageInsert, Request
  <2>3. Continue(p, r) /\ UNCHANGED <<commits, inRunning, inBoot>>
    BY <1>6, <2>1 DEF StageInsert
  <2> HIDE DEF r
  <2> QED
    BY <1>2, <2>2, <2>3
<1>7. ASSUME NEW p \in Proc,
             StageReturn(p) \/ Timeout(p) \/ Abort(p) \/ MarkCommitted(p)
      PROVE SaveInv'
  BY <1>3, <1>7 DEF StageReturn, Timeout, Abort, MarkCommitted
<1>8. ASSUME NEW p \in Proc, DiscardOne(p) \/ DiscardAll(p) \/ ProxyConfigure(p)
      PROVE SaveInv'
  BY <1>1, <1>8 DEF DiscardOne, DiscardAll, ProxyConfigure
<1>9. ASSUME NEW p \in Proc, CommitSelect(p) PROVE SaveInv'
  <2> DEFINE r == [Idle EXCEPT !.pc = "sent", !.batch = Copies(Pending), !.top = nextRow]
  <2>1. r.pc = "sent" /\ r.saved = FALSE
    BY DEF Idle
  <2>2. Continue(p, r) /\ UNCHANGED <<commits, inRunning, inBoot>>
    BY <1>9 DEF CommitSelect
  <2> HIDE DEF r
  <2>3. Kept(r, inRunning, inBoot)
    BY <2>1 DEF Kept
  <2> QED
    BY <1>0, <2>2, <2>3, SaveKept
<1>10. ASSUME NEW p \in Proc, DeviceApply(p) PROVE SaveInv'
  <2> DEFINE r == [req[p] EXCEPT !.pc = "applied"]
  <2>1. r.pc = "applied" /\ r.batch = req[p].batch /\ r.saved = req[p].saved
    BY ContinueType, RequestFields DEF Pc, Commits
  <2>2. /\ Continue(p, r) /\ UNCHANGED <<commits, inBoot>>
        /\ inRunning' = inRunning \union (Ids(req[p].batch) \intersect Watched)
        /\ req[p].pc = "sent"
    BY <1>10 DEF DeviceApply
  <2> HIDE DEF r
  <2>3. ~r.saved
    BY <1>0, <2>1, <2>2 DEF Kept
  <2>4. Kept(r, inRunning', inBoot')
    BY <2>1, <2>2, <2>3 DEF Kept
  <2> QED
    BY <1>0, <2>2, <2>4, SaveKept
<1>11. ASSUME NEW p \in Proc, DeviceReject(p) PROVE SaveInv'
  <2> DEFINE r == [req[p] EXCEPT !.pc = "rejected"]
  <2>1. r.pc = "rejected" /\ r.saved = req[p].saved
    BY ContinueType, RequestFields DEF Pc, Commits
  <2>2. Continue(p, r) /\ UNCHANGED <<commits, inRunning, inBoot>> /\ req[p].pc = "sent"
    BY <1>11 DEF DeviceReject
  <2> HIDE DEF r
  <2>3. Kept(r, inRunning, inBoot)
    BY <1>0, <2>1, <2>2 DEF Kept
  <2> QED
    BY <1>0, <2>2, <2>3, SaveKept
<1>12. ASSUME NEW p \in Proc, ConfigureAnswered(p) PROVE SaveInv'
  <2>1. UNCHANGED <<commits, inRunning, inBoot>>
    BY <1>12 DEF ConfigureAnswered
  <2>2. CASE req[p].pc = "applied"
    <3> DEFINE r == [req[p] EXCEPT !.pc = "saving", !.applied = TRUE]
    <3>1. r.pc = "saving" /\ r.saved = req[p].saved /\ r.calm = req[p].calm
            /\ r.batch = req[p].batch
      BY ContinueType, RequestFields DEF Pc, Commits
    <3>2. Continue(p, r)
      BY <1>12, <2>2 DEF ConfigureAnswered
    <3> HIDE DEF r
    <3>3. Kept(r, inRunning, inBoot)
      BY <1>0, <2>2, <3>1 DEF Kept
    <3> QED
      BY <1>0, <2>1, <3>2, <3>3, SaveKept
  <2>3. CASE req[p].pc = "rejected"
    <3> DEFINE r == [req[p] EXCEPT !.pc = "record"]
    <3>1. r.pc = "record" /\ r.saved = req[p].saved
      BY ContinueType, RequestFields DEF Pc, Commits
    <3>2. Continue(p, r)
      BY <1>12, <2>3 DEF ConfigureAnswered
    <3> HIDE DEF r
    <3>3. Kept(r, inRunning, inBoot)
      BY <1>0, <2>3, <3>1 DEF Kept
    <3> QED
      BY <1>0, <2>1, <3>2, <3>3, SaveKept
  <2> QED
    BY <1>12, <2>2, <2>3 DEF ConfigureAnswered
<1>13. ASSUME NEW p \in Proc, DeviceSave(p) PROVE SaveInv'
  <2> DEFINE r == [req[p] EXCEPT !.pc = "saved"]
  <2>1. r.pc = "saved" /\ r.saved = req[p].saved /\ r.calm = req[p].calm
          /\ r.batch = req[p].batch
    BY ContinueType, RequestFields DEF Pc, Commits
  <2>2. /\ Continue(p, r) /\ UNCHANGED <<commits, inRunning>> /\ inBoot' = inRunning
        /\ req[p].pc = "saving"
    BY <1>13 DEF DeviceSave
  <2> HIDE DEF r
  <2>3. Kept(r, inRunning', inBoot')
    BY <1>0, <2>1, <2>2 DEF Kept
  <2> QED
    BY <1>0, <2>2, <2>3, SaveKept
<1>14. ASSUME NEW p \in Proc, SaveAnswered(p) PROVE SaveInv'
  <2>1. UNCHANGED <<commits, inRunning, inBoot>>
    BY <1>14 DEF SaveAnswered
  <2>2. CASE req[p].pc = "saved" /\ Continue(p, [req[p] EXCEPT !.pc = "record", !.saved = TRUE])
    <3> DEFINE r == [req[p] EXCEPT !.pc = "record", !.saved = TRUE]
    <3>1. r.pc = "record" /\ r.calm = req[p].calm /\ r.batch = req[p].batch
      BY ContinueType, RequestFields DEF Pc, Commits
    <3>2. Continue(p, r)
      BY <2>2
    <3> HIDE DEF r
    <3>3. Kept(r, inRunning, inBoot)
      BY <1>0, <2>2, <3>1 DEF Kept
    <3> QED
      BY <1>0, <2>1, <3>2, <3>3, SaveKept
  <2>3. CASE req[p].pc \in {"saving", "saved"} /\ Continue(p, [req[p] EXCEPT !.pc = "record"])
    <3> DEFINE r == [req[p] EXCEPT !.pc = "record"]
    <3>1. r.pc = "record" /\ r.saved = req[p].saved
      BY ContinueType, RequestFields DEF Pc, Commits
    <3>2. Continue(p, r)
      BY <2>3
    <3> HIDE DEF r
    <3>3. Kept(r, inRunning, inBoot)
      BY <1>0, <2>3, <3>1 DEF Kept
    <3> QED
      BY <1>0, <2>1, <3>2, <3>3, SaveKept
  <2> QED
    BY <1>14, <2>2, <2>3 DEF SaveAnswered
<1>15. ASSUME NEW p \in Proc, InsertCommit(p) PROVE SaveInv'
  <2>1. /\ req[p].pc = "record" /\ nextCommit \in CommitId
        /\ commits' = [commits EXCEPT ![nextCommit] = CommitOf(req[p])]
        /\ UNCHANGED <<inRunning, inBoot>>
    BY <1>15 DEF InsertCommit, TypeOK
  <2>2. /\ CommitOf(req[p]).saved = req[p].saved /\ CommitOf(req[p]).calm = req[p].calm
        /\ CommitOf(req[p]).sent = Ids(req[p].batch)
    BY DEF CommitOf
  <2>3. req[p].saved /\ req[p].calm => Ids(req[p].batch) \intersect Watched \subseteq inBoot
    BY <1>0, <2>1 DEF Kept
  <2>4. SavedSurvivesReboot'
    BY <2>1, <2>2, <2>3 DEF SaveInv, SavedSurvivesReboot, TypeOK
  <2>5. \A q \in Proc : q # p => req'[q] = req[q]
    BY <1>15 DEF InsertCommit, Continue, Done, TypeOK
  <2>6. req'[p].pc \in {"idle", "mark"}
    <3>1. [req[p] EXCEPT !.pc = "mark", !.commit = nextCommit].pc = "mark"
            /\ Idle.pc = "idle"
      BY ContinueType DEF Request, Idle
    <3>2. req'[p] = [req[p] EXCEPT !.pc = "mark", !.commit = nextCommit] \/ req'[p] = Idle
      BY <1>15 DEF InsertCommit, Continue, Done, TypeOK
    <3> QED
      BY <3>1, <3>2, Zenon
  <2>7. \A q \in Proc : Kept(req'[q], inRunning', inBoot')
    BY <1>0, <2>1, <2>5, <2>6, StagesKeep
  <2> QED
    BY <1>0, <2>1, <2>4, <2>7 DEF SaveInv, Kept, Ids
<1>16. CASE StrayApply \/ ProxySave \/ Reboot \/ UNCHANGED vars
  <2>1. UNCHANGED commits /\ inBoot \subseteq inBoot' /\ inBoot' \subseteq inRunning'
    BY <1>0, <1>16 DEF StrayApply, ProxySave, Reboot, vars
  <2>2. SavedSurvivesReboot'
    BY <2>1 DEF SaveInv, SavedSurvivesReboot
  <2>3. ASSUME NEW p \in Proc PROVE Kept(req'[p], inRunning', inBoot')
    <3>0. req[p] \in Request
      BY ContinueType
    <3>1. CASE ProxySave \/ UNCHANGED vars
      BY <1>0, <3>1 DEF ProxySave, vars, Kept
    <3>2. CASE StrayApply
      <4>1. PICK g : req'[p] = [req[p] EXCEPT !.goal = g]
        BY <3>2, Zenon DEF StrayApply
      <4> DEFINE x == [req[p] EXCEPT !.goal = g]
      <4>2. /\ x.pc = req[p].pc /\ x.batch = req[p].batch
            /\ x.saved = req[p].saved /\ x.calm = req[p].calm
        BY <3>0, HistoryFields
      <4>3. req'[p] = x
        BY <4>1, Zenon
      <4> HIDE DEF x
      <4>4. inRunning \subseteq inRunning' /\ inBoot' = inBoot
        BY <3>2 DEF StrayApply
      <4> QED
        BY <1>0, <4>2, <4>3, <4>4 DEF Kept
    <3>3. CASE Reboot
      <4> DEFINE lost == {l \in Leaf : boot[l] # running[l]}
                 b == req[p].calm /\ req[p].pc \notin {"applied", "saving"}
                 x == [req[p] EXCEPT !.goal = ForgetIn(@, lost \ Bound(req[p])),
                                     !.calm = @ /\ req[p].pc \notin {"applied", "saving"}]
      <4>1. req'[p] = x
        BY <3>3 DEF Reboot
      <4>2. /\ x.pc = req[p].pc /\ x.batch = req[p].batch
            /\ x.saved = req[p].saved /\ x.calm = b
        BY <3>0, HistoryFields
      <4> HIDE DEF x
      <4>3. inRunning' = inBoot /\ inBoot' = inBoot
        BY <3>3 DEF Reboot
      <4> QED
        BY <1>0, <4>1, <4>2, <4>3 DEF Kept
    <3> QED
      BY <1>16, <3>1, <3>2, <3>3
  <2> QED
    BY <2>1, <2>2, <2>3 DEF SaveInv, Kept, Ids
<1> QED
  BY <1>4, <1>5, <1>6, <1>7, <1>8, <1>9, <1>10, <1>11, <1>12, <1>13, <1>14, <1>15,
     <1>16 DEF Next, StageStep, CommitStep

\* A commit reported as saved is in the boot configuration for good, unless the
\* device restarted between the apply and the save.
THEOREM SavedCommitsPersist == Spec => []SavedSurvivesReboot
<1>1. Init => TypeOK /\ SaveInv
  <2> SUFFICES ASSUME Init PROVE TypeOK /\ SaveInv
    OBVIOUS
  <2>1. TypeOK
    BY ConstantTypes DEF Init, TypeOK
  <2>2. /\ inBoot = {} /\ inRunning = {}
        /\ \A c \in CommitId : commits[c].saved = FALSE
        /\ \A p \in Proc : req[p].pc = "idle"
    BY DEF Init, UnusedCommit, Idle
  <2> QED
    BY <2>1, <2>2 DEF SaveInv, SavedSurvivesReboot
<1>2. TypeOK /\ SaveInv /\ [Next]_vars => (TypeOK /\ SaveInv)'
  BY TypeStep, SaveStep
<1>3. SaveInv => SavedSurvivesReboot
  BY DEF SaveInv
<1> QED
  BY <1>1, <1>2, <1>3, PTL DEF Spec

-----------------------------------------------------------------------------
(***************************************************************************)
(* The handlers implement the ledger: every step of a handler, the device  *)
(* or the world around them is one step of ReviewLedger, or leaves the     *)
(* ledger alone.                                                           *)
(***************************************************************************)

-----------------------------------------------------------------------------
(***************************************************************************)
(* A commit is marked once                                                 *)
(***************************************************************************)

\* A step in which rows only go and handlers keep their commits keeps it.
LEMMA MarksKept ==
  ASSUME MarksOnce, RowsOnlyGo, BatchesStay
  PROVE  MarksOnce'
<1>1. \A p \in Proc : req'[p].pc = "mark"
                        => req[p].pc = "mark" /\ req'[p].commit = req[p].commit
  BY DEF BatchesStay, Commits
<1>2. ASSUME NEW p \in Proc, (req[p].pc = "mark")'
      PROVE  (Linked(req[p].commit) = {})'
  BY <1>1, <1>2 DEF MarksOnce, Linked, RowsOnlyGo
<1>3. ASSUME NEW p \in Proc, NEW q \in Proc, p # q,
             (req[p].pc = "mark" /\ req[q].pc = "mark")'
      PROVE  (req[p].commit # req[q].commit)'
  BY <1>1, <1>3 DEF MarksOnce
<1> QED
  BY <1>2, <1>3 DEF MarksOnce

\* The INSERT of a commit gives the handler a commit that nobody else has and
\* that lists nothing.
LEMMA MarksInsertCommit ==
  ASSUME TypeOK, LinkInv, MarksOnce, NEW p \in Proc, InsertCommit(p)
  PROVE  MarksOnce'
<1>0. nextCommit \in CommitId /\ UNCHANGED rows
  BY DEF InsertCommit, TypeOK
<1>1. /\ nextCommit \in CommitId /\ UNCHANGED rows
      /\ commits[nextCommit].status = "unused"
  BY <1>0 DEF LinkInv, IdsAreFresh
<1>2. Linked(nextCommit) = {}
  BY <1>1 DEF Linked, LinkInv, SentOrStagedLate
<1>3. \A q \in Proc : q # p => req'[q] = req[q]
  BY DEF InsertCommit, Continue, Done, TypeOK
<1>4. req'[p].pc = "mark" => req'[p].commit = nextCommit
  <2>1. /\ Idle.pc = "idle"
        /\ [req[p] EXCEPT !.pc = "mark", !.commit = nextCommit].commit = nextCommit
    BY ContinueType DEF Idle, Request
  <2>2. \/ req'[p] = Idle
        \/ req'[p] = [req[p] EXCEPT !.pc = "mark", !.commit = nextCommit]
    BY DEF InsertCommit, Continue, Done, TypeOK
  <2> QED
    BY <2>1, <2>2, Zenon
<1>5. \A q \in Proc : req[q].pc = "mark" => req[q].commit # nextCommit
  BY <1>1 DEF LinkInv, MarkKnowsItsCommit
<1>6. ASSUME NEW q \in Proc, (req[q].pc = "mark")'
      PROVE  (Linked(req[q].commit) = {})'
  BY <1>1, <1>2, <1>3, <1>4, <1>6 DEF MarksOnce, Linked
<1>7. ASSUME NEW q \in Proc, NEW r \in Proc, q # r,
             (req[q].pc = "mark" /\ req[r].pc = "mark")'
      PROVE  (req[q].commit # req[r].commit)'
  BY <1>3, <1>4, <1>5, <1>7 DEF MarksOnce
<1> QED
  BY <1>6, <1>7 DEF MarksOnce

\* The UPDATE fills the handler's own commit, which no other handler has.
LEMMA MarksMark ==
  ASSUME TypeOK, MarksOnce, NEW p \in Proc, MarkCommitted(p)
  PROVE  MarksOnce'
<1>1. /\ req[p].pc = "mark" /\ req'[p].pc = "idle"
      /\ \A q \in Proc : q # p => req'[q] = req[q]
  BY DEF MarkCommitted, Continue, Done, TypeOK, Idle
<1>2. ASSUME NEW q \in Proc, (req[q].pc = "mark")'
      PROVE  (Linked(req[q].commit) = {})'
  <2>1. q # p /\ req[q].pc = "mark" /\ req'[q] = req[q]
    BY <1>1, <1>2
  <2>2. req[q].commit # req[p].commit /\ Linked(req[q].commit) = {}
    BY <1>1, <2>1 DEF MarksOnce
  <2> QED
    BY <2>1, <2>2, MarkedRows DEF Linked
<1>3. ASSUME NEW q \in Proc, NEW r \in Proc, q # r,
             (req[q].pc = "mark" /\ req[r].pc = "mark")'
      PROVE  (req[q].commit # req[r].commit)'
  BY <1>1, <1>3 DEF MarksOnce
<1> QED
  BY <1>2, <1>3 DEF MarksOnce

\* Neither an INSERT of a change nor a SELECT links a row or makes a handler mark.
LEMMA MarksOther ==
  ASSUME TypeOK, LinkInv, MarksOnce, NEW p \in Proc, StageInsert(p) \/ CommitSelect(p)
  PROVE  MarksOnce'
<1>1. \A q \in Proc : q # p => req'[q] = req[q]
  BY DEF StageInsert, CommitSelect, Continue, TypeOK
<1>2. req'[p].pc # "mark"
  <2>1. CASE StageInsert(p)
    <3>1. PICK cmd \in req[p].todo : Continue(p, [req[p] EXCEPT !.todo = @ \ {cmd}])
      BY <2>1 DEF StageInsert
    <3>2. [req[p] EXCEPT !.todo = @ \ {cmd}].pc = "insert"
      BY <2>1, ContinueType DEF StageInsert, Request
    <3> QED
      BY <3>1, <3>2 DEF Continue, TypeOK
  <2>2. CASE CommitSelect(p)
    BY <2>2 DEF CommitSelect, Continue, TypeOK, Idle
  <2> QED
    BY <2>1, <2>2
<1>3. \A i \in RowId : rows'[i].status = "committed" => rows'[i] = rows[i]
  <2>1. CASE StageInsert(p)
    <3>1. PICK row : row.status = "pending" /\ rows' = [rows EXCEPT ![nextRow] = row]
      BY <2>1 DEF StageInsert
    <3> QED
      BY <3>1 DEF TypeOK
  <2>2. CASE CommitSelect(p)
    BY <2>2 DEF CommitSelect, dbVars
  <2> QED
    BY <2>1, <2>2
<1>4. ASSUME NEW q \in Proc, (req[q].pc = "mark")'
      PROVE  (Linked(req[q].commit) = {})'
  BY <1>1, <1>2, <1>3, <1>4 DEF MarksOnce, Linked
<1>5. ASSUME NEW q \in Proc, NEW r \in Proc, q # r,
             (req[q].pc = "mark" /\ req[r].pc = "mark")'
      PROVE  (req[q].commit # req[r].commit)'
  BY <1>1, <1>2, <1>5 DEF MarksOnce
<1> QED
  BY <1>4, <1>5 DEF MarksOnce

\* Every step keeps it.
LEMMA MarksStep == TypeOK /\ LinkInv /\ MarksOnce /\ [Next]_vars => MarksOnce'
<1> SUFFICES ASSUME TypeOK, LinkInv, MarksOnce, [Next]_vars PROVE MarksOnce'
  OBVIOUS
<1>1. CASE Quiet
  BY <1>1, MarksKept DEF Quiet
<1>2. ASSUME NEW p \in Proc,
             StageInsert(p) \/ CommitSelect(p) \/ InsertCommit(p) \/ MarkCommitted(p)
      PROVE MarksOnce'
  BY <1>2, MarksOther, MarksInsertCommit, MarksMark
<1> QED
  BY <1>1, <1>2, StepShape

-----------------------------------------------------------------------------
(***************************************************************************)
(* The marking is all or nothing                                           *)
(***************************************************************************)

\* Most steps neither start nor end a marking, and cut none off.
MarkersStay ==
  /\ cut' = cut
  /\ \A p \in Proc : /\ req'[p].pc = "mark" <=> req[p].pc = "mark"
                     /\ req[p].pc = "mark" => req'[p].commit = req[p].commit

\* Two handlers' worth of locals, neither of which marks, may be exchanged.
LEMMA MarkersStayIf ==
  ASSUME TypeOK, cut' = cut, NEW p \in Proc, req[p].pc # "mark",
         NEW r, r.pc # "mark", Continue(p, r)
  PROVE  MarkersStay
BY DEF MarkersStay, Continue, TypeOK

\* Only three statements touch the markings.
LEMMA MarkersShape ==
  ASSUME TypeOK, [Next]_vars
  PROVE  \/ MarkersStay
         \/ \E p \in Proc : \/ InsertCommit(p) \/ MarkCommitted(p)
                            \/ (Abort(p) /\ req[p].pc = "mark")
<1> USE DEF dbVars, deviceVars
<1>1. \A r \in Request, l \in Pc : [r EXCEPT !.pc = l].pc = l
  BY DEF Request
<1>2. Idle.pc = "idle"
  BY DEF Idle
<1>3. ASSUME NEW p \in Proc, Done(p), cut' = cut, req[p].pc # "mark" PROVE MarkersStay
  BY <1>2, <1>3, MarkersStayIf DEF Done
<1>4. UNCHANGED <<cut, req>> => MarkersStay
  BY DEF MarkersStay
<1>5. ASSUME NEW p \in Proc, StageForm(p) \/ StageMove(p) \/ StageRemove(p)
      PROVE MarkersStay
  <2>1. PICK scopes, cmds, goal : BeginStage(p, scopes, cmds, goal)
    BY <1>5, Zenon DEF StageForm, StageMove, StageRemove
  <2> DEFINE r == [Idle EXCEPT !.pc = "clear", !.clear = scopes, !.todo = cmds,
                               !.goal = ForgetIn(goal, Leaf \ Tracked)]
  <2>2. r.pc = "clear"
    BY DEF Idle
  <2>3. Continue(p, r) /\ cut' = cut /\ req[p].pc = "idle"
    BY <2>1 DEF BeginStage
  <2> HIDE DEF r
  <2> QED
    BY <2>2, <2>3, MarkersStayIf
<1>6. ASSUME NEW p \in Proc, StageClear(p) PROVE MarkersStay
  <2>1. PICK s \in req[p].clear :
          Continue(p, [req[p] EXCEPT !.clear = @ \ {s},
                            !.pc = IF req[p].clear = {s} THEN "insert" ELSE "clear"])
    BY <1>6 DEF StageClear
  <2> DEFINE r == [req[p] EXCEPT !.clear = @ \ {s},
                            !.pc = IF req[p].clear = {s} THEN "insert" ELSE "clear"]
  <2>2. r.pc # "mark"
    BY ContinueType DEF Request
  <2>3. Continue(p, r)
    BY <2>1
  <2>4. cut' = cut /\ req[p].pc = "clear"
    BY <1>6 DEF StageClear
  <2> HIDE DEF r
  <2> QED
    BY <2>2, <2>3, <2>4, MarkersStayIf
<1>7. ASSUME NEW p \in Proc, StageInsert(p) PROVE MarkersStay
  <2>1. PICK cmd \in req[p].todo : Continue(p, [req[p] EXCEPT !.todo = @ \ {cmd}])
    BY <1>7 DEF StageInsert
  <2>2. cut' = cut /\ req[p].pc = "insert"
    BY <1>7 DEF StageInsert
  <2>3. [req[p] EXCEPT !.todo = @ \ {cmd}].pc # "mark"
    BY <2>2, ContinueType DEF Request
  <2> QED
    BY <2>1, <2>2, <2>3, MarkersStayIf
<1>8. ASSUME NEW p \in Proc, StageReturn(p) \/ Timeout(p) PROVE MarkersStay
  BY <1>3, <1>8 DEF StageReturn, Timeout
<1>9. ASSUME NEW p \in Proc, Abort(p), req[p].pc # "mark" PROVE MarkersStay
  BY <1>3, <1>9 DEF Abort
<1>10. ASSUME NEW p \in Proc, DiscardOne(p) \/ DiscardAll(p) \/ ProxyConfigure(p)
       PROVE MarkersStay
  BY <1>4, <1>10 DEF DiscardOne, DiscardAll, ProxyConfigure
<1>11. ASSUME NEW p \in Proc, CommitSelect(p) PROVE MarkersStay
  <2> DEFINE r == [Idle EXCEPT !.pc = "sent", !.batch = Copies(Pending), !.top = nextRow]
  <2>1. r.pc = "sent"
    BY DEF Idle
  <2>2. Continue(p, r) /\ cut' = cut /\ req[p].pc = "idle"
    BY <1>11 DEF CommitSelect
  <2> HIDE DEF r
  <2> QED
    BY <2>1, <2>2, MarkersStayIf
<1>12. ASSUME NEW p \in Proc,
              \/ DeviceApply(p) \/ DeviceReject(p) \/ DeviceSave(p)
              \/ ConfigureAnswered(p) \/ SaveAnswered(p)
       PROVE MarkersStay
  <2>1. PICK l \in {"applied", "rejected", "saved", "saving", "record"} :
          \/ Continue(p, [req[p] EXCEPT !.pc = l])
          \/ Continue(p, [req[p] EXCEPT !.pc = l, !.applied = TRUE])
          \/ Continue(p, [req[p] EXCEPT !.pc = l, !.saved = TRUE])
    BY <1>12 DEF DeviceApply, DeviceReject, DeviceSave, ConfigureAnswered, SaveAnswered
  <2>2. cut' = cut /\ req[p].pc # "mark" /\ req[p] \in Request /\ l \in Pc /\ l # "mark"
    BY <1>12, ContinueType DEF DeviceApply, DeviceReject, DeviceSave,
       ConfigureAnswered, SaveAnswered, Pc, Commits
  <2>3. PICK r : Continue(p, r) /\ r.pc = l
    <3>1. /\ [req[p] EXCEPT !.pc = l].pc = l
          /\ [req[p] EXCEPT !.pc = l, !.applied = TRUE].pc = l
          /\ [req[p] EXCEPT !.pc = l, !.saved = TRUE].pc = l
      BY <2>2, RequestFields
    <3> QED
      BY <2>1, <3>1, Zenon
  <2> QED
    BY <2>2, <2>3, MarkersStayIf
<1>13. ASSUME ProxySave \/ UNCHANGED vars PROVE MarkersStay
  BY <1>4, <1>13 DEF ProxySave, vars
<1>14. ASSUME StrayApply \/ Reboot PROVE MarkersStay
  <2>1. cut' = cut
    BY <1>14 DEF StrayApply, Reboot
  <2>2. ASSUME NEW p \in Proc
        PROVE req'[p].pc = req[p].pc /\ req'[p].commit = req[p].commit
    <3>1. req[p] \in Request
      BY ContinueType
    <3>2. PICK g, b : \/ req'[p] = [req[p] EXCEPT !.goal = g, !.calm = b]
                      \/ req'[p] = [req[p] EXCEPT !.goal = g]
      BY <1>14, ZenonT(60) DEF StrayApply, Reboot
    <3>3. /\ [req[p] EXCEPT !.goal = g].pc = req[p].pc
          /\ [req[p] EXCEPT !.goal = g].commit = req[p].commit
          /\ [req[p] EXCEPT !.goal = g, !.calm = b].pc = req[p].pc
          /\ [req[p] EXCEPT !.goal = g, !.calm = b].commit = req[p].commit
      BY <3>1, HistoryFields
    <3> QED
      BY <3>2, <3>3, Zenon
  <2> QED
    BY <2>1, <2>2 DEF MarkersStay
<1> QED
  BY <1>5, <1>6, <1>7, <1>8, <1>9, <1>10, <1>11, <1>12, <1>13, <1>14
     DEF Next, StageStep, CommitStep

\* A step that leaves the markings, the commits and the history, and adds to the
\* tray at most a row that was never sent, keeps the invariant.
LEMMA MarkInvKept ==
  ASSUME LinkInv, MarkInv, MarkersStay, UNCHANGED commits,
         \A c \in CommitId : Linked(c)' = Linked(c),
         \A i \in Pending' : i \in Pending \/ (i = nextRow /\ nextRow \in Nat)
  PROVE  /\ CutIsOver' /\ BatchLeavesTray'
         /\ \A c \in CommitId : Marked(c)' <=> Marked(c)
<1>1. \A c : Marking(c)' <=> Marking(c)
  BY DEF Marking, MarkersStay
<1>2. CutIsOver'
  BY <1>1 DEF MarkInv, CutIsOver, MarkersStay
<1>3. \A c \in CommitId : Marked(c)' <=> Marked(c)
  BY <1>1 DEF Marked, MarkersStay
<1>4. \A c \in CommitId : commits'[c].sent \intersect Pending' \subseteq commits[c].sent \intersect Pending
  BY DEF LinkInv, SentIsOld
<1>5. BatchLeavesTray'
  BY <1>3, <1>4 DEF MarkInv, BatchLeavesTray
<1> QED
  BY <1>2, <1>3, <1>5

\* The INSERT of a commit: a success is about to be marked, a failure never is.
LEMMA MarkInvInsertCommit ==
  ASSUME TypeOK, LinkInv, MarkInv, NEW p \in Proc, InsertCommit(p)
  PROVE  /\ CutIsOver' /\ BatchLeavesTray'
         /\ \A c \in CommitId : IF c = nextCommit THEN ~Marked(c)' ELSE Marked(c)' <=> Marked(c)
<1>0. PICK n \in CommitId : n = nextCommit
  BY DEF InsertCommit, TypeOK
<1>1. /\ UNCHANGED <<rows, cut>>
      /\ commits[n].status = "unused"
      /\ req[p].pc = "record"
      /\ commits' = [commits EXCEPT ![n] = CommitOf(req[p])]
  BY <1>0 DEF InsertCommit, TypeOK, LinkInv, IdsAreFresh
<1>2. /\ commits'[n] = CommitOf(req[p])
      /\ \A c \in CommitId : c # n => commits'[c] = commits[c]
  BY <1>1 DEF TypeOK
<1>3. CommitOf(req[p]).status = IF req[p].applied THEN "success" ELSE "failed"
  BY DEF CommitOf
<1>4. \A q \in Proc : q # p => req'[q] = req[q]
  BY DEF InsertCommit, Continue, Done, TypeOK
<1>5. IF req[p].applied THEN req'[p].pc = "mark" /\ req'[p].commit = n
                        ELSE req'[p].pc = "idle"
  <2>1. /\ Idle.pc = "idle"
        /\ [req[p] EXCEPT !.pc = "mark", !.commit = n].pc = "mark"
        /\ [req[p] EXCEPT !.pc = "mark", !.commit = n].commit = n
    BY ContinueType DEF Idle, Request
  <2>2. req'[p] = IF req[p].applied THEN [req[p] EXCEPT !.pc = "mark", !.commit = n] ELSE Idle
    BY <1>0 DEF InsertCommit, Continue, Done, TypeOK
  <2> QED
    BY <2>1, <2>2, Zenon
<1>6. Pending' = Pending /\ \A c \in CommitId : Linked(c)' = Linked(c)
  BY <1>1 DEF Pending, Linked
<1>7. \A c \in CommitId : c # n => (Marking(c)' <=> Marking(c))
  BY <1>1, <1>4, <1>5 DEF Marking
<1>8. n \notin cut
  BY <1>1 DEF MarkInv, CutIsOver
<1>9. CutIsOver'
  BY <1>1, <1>2, <1>7, <1>8 DEF MarkInv, CutIsOver
<1>10. ~Marked(n)' /\ Linked(n)' = {}
  <2>1. Linked(n) = {}
    BY <1>1 DEF MarkInv, BatchLeavesTray, Marked
  <2>2. commits'[n].status = "success" => Marking(n)'
    BY <1>2, <1>3, <1>5 DEF Marking
  <2> QED
    BY <1>1, <1>6, <2>1, <2>2 DEF Marked
<1>11. \A c \in CommitId : c # n => (Marked(c)' <=> Marked(c))
  BY <1>1, <1>2, <1>7 DEF Marked
<1>12. BatchLeavesTray'
  BY <1>2, <1>6, <1>10, <1>11 DEF MarkInv, BatchLeavesTray
<1> QED
  BY <1>0, <1>9, <1>10, <1>11, <1>12

\* The end of a marking: the UPDATE empties the tray into the commit, or the
\* handler stops before it and the commit stays without rows.
LEMMA MarkInvEnd ==
  ASSUME TypeOK, LinkInv, MarkInv, NEW p \in Proc,
         MarkCommitted(p) \/ (Abort(p) /\ req[p].pc = "mark")
  PROVE  /\ CutIsOver' /\ BatchLeavesTray'
         /\ \A c \in CommitId : IF c = req[p].commit THEN Abort(p) => ~Marked(c)'
                                 ELSE Marked(c)' <=> Marked(c)
<1>0. PICK k \in CommitId : k = req[p].commit
  BY DEF MarkCommitted, Abort, LinkInv, MarkKnowsItsCommit
<1>1. /\ req[p].pc = "mark" /\ UNCHANGED commits
      /\ commits[k].status = "success"
  BY <1>0 DEF MarkCommitted, Abort, LinkInv, MarkKnowsItsCommit
<1>2. req'[p].pc = "idle" /\ \A q \in Proc : q # p => req'[q] = req[q]
  BY DEF MarkCommitted, Abort, Done, Continue, Idle, TypeOK
<1>3. Linked(k) = {} /\ \A q \in Proc : q # p /\ req[q].pc = "mark" => req[q].commit # k
  BY <1>0, <1>1 DEF MarkInv, MarksOnce
<1>4. Marking(k) /\ k \notin cut
  BY <1>0, <1>1 DEF Marking, MarkInv, CutIsOver
<1>5. ~Marking(k)'
  BY <1>2, <1>3 DEF Marking
<1>6. MarkCommitted(p) => \A i \in RowId :
        IF rows[i].status = "pending"
        THEN rows'[i].status = "committed" /\ rows'[i].commit = k
        ELSE rows'[i] = rows[i]
  BY <1>0, MarkedRows
<1>7. \A c \in CommitId : c # k => (Marking(c)' <=> Marking(c))
  <2>1. ASSUME NEW c \in CommitId, c # k PROVE Marking(c)' <=> Marking(c)
    BY <1>0, <1>2, <2>1 DEF Marking
  <2> QED
    BY <2>1
<1>8. CASE MarkCommitted(p)
  <2>1. cut' = cut /\ Pending' = {} /\ \A c \in CommitId : c # k => Linked(c)' = Linked(c)
    BY <1>6, <1>8 DEF MarkCommitted, Pending, Linked
  <2>2. CutIsOver'
    BY <1>1, <1>4, <1>7, <2>1 DEF MarkInv, CutIsOver
  <2>3. Marked(k)' /\ \A c \in CommitId : c # k => (Marked(c)' <=> Marked(c))
    BY <1>1, <1>4, <1>5, <1>7, <2>1 DEF Marked
  <2>4. BatchLeavesTray'
    BY <2>1, <2>3 DEF MarkInv, BatchLeavesTray
  <2>5. ~Abort(p)
    BY <1>0, <1>1, <1>4, <2>1 DEF Abort
  <2> QED
    BY <1>0, <2>2, <2>3, <2>4, <2>5
<1>9. CASE Abort(p) /\ req[p].pc = "mark"
  <2>1. cut' = cut \union {k} /\ UNCHANGED rows
    BY <1>0, <1>9 DEF Abort
  <2>2. Pending' = Pending /\ \A c \in CommitId : Linked(c)' = Linked(c)
    BY <2>1 DEF Pending, Linked
  <2>3. CutIsOver'
    BY <1>1, <1>5, <1>7, <2>1 DEF MarkInv, CutIsOver
  <2>4. ~Marked(k)' /\ \A c \in CommitId : c # k => (Marked(c)' <=> Marked(c))
    BY <1>1, <1>7, <2>1 DEF Marked
  <2>5. BatchLeavesTray'
    BY <1>1, <1>3, <2>2, <2>4 DEF MarkInv, BatchLeavesTray
  <2> QED
    BY <1>0, <2>3, <2>4, <2>5
<1> QED
  BY <1>8, <1>9

\* Every step keeps it.
LEMMA MarkInvStep == TypeOK /\ LinkInv /\ MarkInv /\ [Next]_vars => MarkInv'
<1> SUFFICES ASSUME TypeOK, LinkInv, MarkInv, [Next]_vars PROVE MarkInv'
  OBVIOUS
<1>1. MarksOnce'
  BY MarksStep DEF MarkInv
<1>2. ASSUME NEW p \in Proc, \/ InsertCommit(p) \/ MarkCommitted(p)
                             \/ (Abort(p) /\ req[p].pc = "mark")
      PROVE CutIsOver' /\ BatchLeavesTray'
  BY <1>2, MarkInvInsertCommit, MarkInvEnd
<1>3. CASE MarkersStay /\ Quiet
  <2>1. \A c \in CommitId : Linked(c)' = Linked(c)
    BY <1>3 DEF Quiet, RowsOnlyGo, Linked
  <2>2. Pending' \subseteq Pending
    BY <1>3 DEF Quiet, RowsOnlyGo, Pending
  <2> QED
    BY <1>1, <1>3, <2>1, <2>2, MarkInvKept DEF Quiet, MarkInv
<1>4. ASSUME MarkersStay, NEW p \in Proc, StageInsert(p) PROVE MarkInv'
  <2>1. PICK row : row.status = "pending" /\ rows' = [rows EXCEPT ![nextRow] = row]
    BY <1>4 DEF StageInsert
  <2>2. nextRow \in RowId /\ rows[nextRow].status = "unused" /\ UNCHANGED commits
    BY <1>4 DEF StageInsert, TypeOK, LinkInv, IdsAreFresh
  <2>3. /\ rows'[nextRow].status = "pending"
        /\ \A i \in RowId : i # nextRow => rows'[i] = rows[i]
    BY <2>1, <2>2 DEF TypeOK
  <2>4. Pending' = Pending \union {nextRow} /\ \A c \in CommitId : Linked(c)' = Linked(c)
    BY <2>2, <2>3 DEF Pending, Linked
  <2> QED
    BY <1>1, <1>4, <2>2, <2>4, MarkInvKept DEF MarkInv
<1>5. ASSUME MarkersStay, NEW p \in Proc, CommitSelect(p) PROVE MarkInv'
  <2>1. UNCHANGED <<rows, commits>>
    BY <1>5 DEF CommitSelect, dbVars
  <2>2. Pending' = Pending /\ \A c \in CommitId : Linked(c)' = Linked(c)
    BY <2>1 DEF Pending, Linked
  <2> QED
    BY <1>1, <1>5, <2>1, <2>2, MarkInvKept DEF MarkInv
<1> QED
  BY <1>1, <1>2, <1>3, <1>4, <1>5, StepShape, MarkersShape DEF MarkInv

\* The invariant holds in every reachable state.
LEMMA MarkCorrect == Spec => []MarkInv
<1>1. Init => MarkInv
  <2> SUFFICES ASSUME Init PROVE MarkInv
    OBVIOUS
  <2>1. /\ \A i \in RowId : rows[i].status = "unused"
        /\ \A c \in CommitId : commits[c].status = "unused"
        /\ \A p \in Proc : req[p].pc = "idle"
        /\ cut = {}
    BY DEF Init, UnusedRow, UnusedCommit, Idle
  <2> QED
    BY <2>1 DEF MarkInv, MarksOnce, CutIsOver, BatchLeavesTray, Marked, Linked
<1>2. TypeOK /\ LinkInv /\ MarkInv /\ [Next]_vars => MarkInv'
  BY MarkInvStep
<1> QED
  BY <1>1, <1>2, LinkCorrect, PTL DEF Spec

\* Once a commit has marked its rows none of its batch is in the tray again, and a
\* success that was not marked, also because its handler was stopped, lists nothing.
THEOREM CommittedBatchLeavesTray == Spec => []BatchLeavesTray
<1>1. MarkInv => BatchLeavesTray
  BY DEF MarkInv
<1> QED
  BY <1>1, MarkCorrect, PTL

-----------------------------------------------------------------------------
(***************************************************************************)
(* Every step is a step of the ledger                                      *)
(***************************************************************************)

\* Rows that only go are removed from the tray; the history and the rows ever
\* staged stay.
LEMMA QuietRefines ==
  ASSUME RowsOnlyGo
  PROVE  [Ledger!LedgerNext]_(Ledger!ledgerVars)
<1> DEFINE gone == {i \in Pending : rows'[i].status = "gone"}
<1>1. gone \in SUBSET RowId /\ gone \subseteq Pending
  BY DEF Pending
<1>2. Pending' = Pending \ gone
  BY DEF Pending, RowsOnlyGo
<1>3. LedgerHistory' = LedgerHistory
  BY DEF LedgerHistory, Linked, RowsOnlyGo
<1>4. Used' = Used
  BY DEF Used, RowsOnlyGo
<1> HIDE DEF gone
<1>5. Ledger!Remove(gone)
  BY <1>1, <1>2, <1>3, <1>4 DEF Ledger!Remove
<1> QED
  BY <1>1, <1>5 DEF Ledger!LedgerNext

\* An INSERT of a change stages a row that was never there.
LEMMA InsertRefines ==
  ASSUME TypeOK, LinkInv, NEW p \in Proc, StageInsert(p)
  PROVE  Ledger!LedgerNext
<1>1. PICK row : row.status = "pending" /\ rows' = [rows EXCEPT ![nextRow] = row]
  BY DEF StageInsert
<1>2. nextRow \in RowId /\ rows[nextRow].status = "unused"
  BY DEF StageInsert, TypeOK, LinkInv, IdsAreFresh
<1>3. /\ rows'[nextRow].status = "pending"
      /\ \A i \in RowId : i # nextRow => rows'[i] = rows[i]
  BY <1>1, <1>2 DEF TypeOK
<1>4. Pending' = Pending \union {nextRow} /\ Used' = Used \union {nextRow}
  BY <1>2, <1>3 DEF Pending, Used
<1>5. nextRow \notin Used
  BY <1>2 DEF Used
<1>6. LedgerHistory' = LedgerHistory
  BY <1>2, <1>3 DEF LedgerHistory, Linked
<1>7. Ledger!Stage(nextRow)
  BY <1>2, <1>4, <1>5, <1>6 DEF Ledger!Stage
<1> QED
  BY <1>2, <1>7 DEF Ledger!LedgerNext

\* The UPDATE moves the whole tray under the handler's commit.
LEMMA MarkRefines ==
  ASSUME TypeOK, LinkInv, MarksOnce, NEW p \in Proc, MarkCommitted(p)
  PROVE  Ledger!LedgerNext
<1> DEFINE k == req[p].commit
<1>1. k \in CommitId /\ Linked(k) = {}
  BY DEF MarkCommitted, LinkInv, MarkKnowsItsCommit, MarksOnce
<1>2. \A i \in RowId : IF rows[i].status = "pending"
                       THEN rows'[i].status = "committed" /\ rows'[i].commit = k
                       ELSE rows'[i] = rows[i]
  BY MarkedRows
<1> HIDE DEF k
<1>3. Pending' = {} /\ Used' = Used
  BY <1>2 DEF Pending, Used
<1>4. \A c \in CommitId : Linked(c)' = IF c = k THEN Pending ELSE Linked(c)
  BY <1>1, <1>2 DEF Linked, Pending
<1>5. LedgerHistory' = [LedgerHistory EXCEPT ![k] = Pending]
  BY <1>1, <1>4 DEF LedgerHistory
<1>6. LedgerHistory[k] = {}
  BY <1>1 DEF LedgerHistory
<1>7. Ledger!Commit(k)
  BY <1>3, <1>5, <1>6 DEF Ledger!Commit
<1> QED
  BY <1>1, <1>7 DEF Ledger!LedgerNext

\* The other steps of handlers leave the rows alone.
LEMMA RefineStep ==
  TypeOK /\ LinkInv /\ MarksOnce /\ [Next]_vars
    => [Ledger!LedgerNext]_(Ledger!ledgerVars)
<1> SUFFICES ASSUME TypeOK, LinkInv, MarksOnce, [Next]_vars
             PROVE  [Ledger!LedgerNext]_(Ledger!ledgerVars)
  OBVIOUS
<1>1. CASE Quiet
  BY <1>1, QuietRefines DEF Quiet
<1>2. ASSUME NEW p \in Proc, CommitSelect(p) \/ InsertCommit(p)
      PROVE [Ledger!LedgerNext]_(Ledger!ledgerVars)
  <2>1. UNCHANGED rows
    BY <1>2 DEF CommitSelect, InsertCommit, dbVars
  <2> QED
    BY <2>1, QuietRefines DEF RowsOnlyGo
<1>3. ASSUME NEW p \in Proc, StageInsert(p) \/ MarkCommitted(p)
      PROVE [Ledger!LedgerNext]_(Ledger!ledgerVars)
  BY <1>3, InsertRefines, MarkRefines
<1> QED
  BY <1>1, <1>2, <1>3, StepShape

\* The tables of the review, whatever handlers overlap, behave as the ledger: a
\* row is staged once, leaves the tray for good, and comes into the history with
\* the whole tray under a commit that listed nothing.
THEOREM ReviewImplementsLedger == Spec => ImplementsLedger
<1>1. Init => Ledger!LedgerInit
  <2> SUFFICES ASSUME Init PROVE Ledger!LedgerInit
    OBVIOUS
  <2>1. \A i \in RowId : rows[i].status = "unused"
    BY DEF Init, UnusedRow
  <2> QED
    BY <2>1 DEF Ledger!LedgerInit, Pending, Used, LedgerHistory, Linked
<1>2. TypeOK /\ LinkInv /\ MarkInv /\ [Next]_vars
        => [Ledger!LedgerNext]_(Ledger!ledgerVars)
  BY RefineStep DEF MarkInv
<1> QED
  BY <1>1, <1>2, LinkCorrect, MarkCorrect, PTL DEF Spec, ImplementsLedger, Ledger!LedgerSpec

-----------------------------------------------------------------------------
(***************************************************************************)
(* What is promised when handlers run one at a time: no duplicates in the  *)
(* tray, a history that shows what was sent, and a tray that brings the    *)
(* device to what the operator asked for, whatever the device, its other   *)
(* clients and late calls do in between.                                   *)
(***************************************************************************)

\* The backend serves one request at a time.
OneHandler == \A p, q \in Proc : p = q

-----------------------------------------------------------------------------
(***************************************************************************)
(* The inductive invariant                                                 *)
(***************************************************************************)

\* A command writes leaves of its scope only.
WellFormed(cmd) == cmd.targets \subseteq LeavesOf({cmd.scope})

\* Committing the tray leaves leaf l with value v.
Brings(l, v) ==
  \/ \E i \in Pending : l \in rows[i].cmd.targets /\ rows[i].cmd.val = v
  \/ /\ \A i \in Pending : l \notin rows[i].cmd.targets
     /\ running[l] = v

TrayInv ==
  /\ \A i \in Pending : WellFormed(rows[i].cmd)
  /\ NoDuplicates
  /\ \A l \in Leaf : agreed[l] # Unknown => Brings(l, agreed[l])

\* A row that a staging handler will not clear any more.
Stays(r, i) == i \in Pending /\ rows[i].cmd.scope \notin r.clear

\* A handler that stages clears every row that writes what it will write before it
\* inserts its own, and what the operator relied on for these leaves is given up;
\* the rows it has inserted and the commands it has not will give the form's values.
TodoIsClean(r) ==
  /\ r.pc = "insert" => r.clear = {}
  /\ \A c \in r.todo : WellFormed(c)
  /\ \A c, d \in r.todo : c # d => c.targets \intersect d.targets = {}
  /\ \A c \in r.todo : c.scope \notin r.clear =>
       /\ \A i \in Pending : rows[i].cmd.targets \intersect c.targets = {}
       /\ \A l \in c.targets : agreed[l] = Unknown
WillBring(r, l, v) ==
  /\ \A c \in r.todo : l \in c.targets => c.val = v
  /\ \A i \in Pending : Stays(r, i) /\ l \in rows[i].cmd.targets => rows[i].cmd.val = v
  /\ \/ running[l] = v
     \/ \E c \in r.todo : l \in c.targets
     \/ \E i \in Pending : Stays(r, i) /\ l \in rows[i].cmd.targets
StagesWell(r) ==
  r.pc \in Stages => /\ TodoIsClean(r)
                     /\ \A l \in Leaf : r.goal[l] # Unknown => WillBring(r, l, r.goal[l])

\* A handler that commits has the whole tray in its batch, and once the device has
\* applied it, the device has what the operator asked for.
CommitsWell(r) ==
  r.pc \in Commits =>
    /\ r.batch = Copies(Pending)
    /\ r.pc \in {"sent", "applied", "rejected"} => ~r.applied
    /\ Landed(r) => \A l \in Leaf : agreed[l] # Unknown => running[l] = agreed[l]

SerialInv == TrayInv /\ \A p \in Proc : StagesWell(req[p]) /\ CommitsWell(req[p])

-----------------------------------------------------------------------------
(***************************************************************************)
(* What the tray brings                                                    *)
(***************************************************************************)

\* In a tray without duplicates the order of the commands does not matter: a leaf
\* gets the value of the command that writes it, or keeps the one it has.
LEMMA AfterTray ==
  ASSUME TypeOK, NoDuplicates, NEW l \in Leaf, NEW config \in Config
  PROVE  /\ \A i \in Pending : l \in rows[i].cmd.targets
                                 => After(Copies(Pending), config)[l] = rows[i].cmd.val
         /\ (\A i \in Pending : l \notin rows[i].cmd.targets)
              => After(Copies(Pending), config)[l] = config[l]
<1> DEFINE copy(i) == [id |-> i, cmd |-> rows[i].cmd]
           W == Writers(Copies(Pending), l)
<1>1. W = {copy(i) : i \in {j \in Pending : l \in rows[j].cmd.targets}}
  BY DEF Writers, Copies
<1>2. ASSUME NEW i \in Pending, l \in rows[i].cmd.targets
      PROVE  After(Copies(Pending), config)[l] = rows[i].cmd.val
  <2>1. \A j \in Pending : l \in rows[j].cmd.targets => j = i
    BY <1>2 DEF NoDuplicates
  <2>2. W = {copy(i)}
    BY <1>1, <1>2, <2>1
  <2>3. i \in Nat /\ copy(i).id = i /\ copy(i).cmd = rows[i].cmd
    BY DEF Pending
  <2> HIDE DEF copy
  <2>4. Last(W) = copy(i)
    BY <2>2, <2>3 DEF Last
  <2>5. After(Copies(Pending), config)[l] = Last(W).cmd.val
    BY <2>2 DEF After
  <2> QED
    BY <2>3, <2>4, <2>5
<1>3. ASSUME \A i \in Pending : l \notin rows[i].cmd.targets
      PROVE  After(Copies(Pending), config)[l] = config[l]
  <2>1. W = {}
    BY <1>1, <1>3
  <2> QED
    BY <2>1 DEF After
<1> QED
  BY <1>2, <1>3

\* What the tray brings is what the device has after its commands.
LEMMA BringsIsAfter ==
  ASSUME TypeOK, NoDuplicates, NEW l \in Leaf, NEW v
  PROVE  Brings(l, v) <=> After(Copies(Pending), running)[l] = v
<1>1. CASE \E i \in Pending : l \in rows[i].cmd.targets
  <2>1. PICK i \in Pending : l \in rows[i].cmd.targets
    BY <1>1
  <2>2. \A j \in Pending : l \in rows[j].cmd.targets => j = i
    BY <2>1 DEF NoDuplicates
  <2>3. After(Copies(Pending), running)[l] = rows[i].cmd.val
    BY <2>1, AfterTray DEF TypeOK
  <2> QED
    BY <2>1, <2>2, <2>3 DEF Brings
<1>2. CASE \A i \in Pending : l \notin rows[i].cmd.targets
  <2>1. After(Copies(Pending), running)[l] = running[l]
    BY <1>2, AfterTray DEF TypeOK
  <2> QED
    BY <1>2, <2>1 DEF Brings
<1> QED
  BY <1>1, <1>2

\* A batch changes only the leaves its commands write.
LEMMA AfterElsewhere ==
  ASSUME NEW batch, NEW config, NEW l \in Leaf, l \notin LeavesOfBatch(batch)
  PROVE  After(batch, config)[l] = config[l]
<1>1. Writers(batch, l) = {}
  BY DEF Writers, LeavesOfBatch
<1> QED
  BY <1>1 DEF After

\* A step in which rows only go keeps the tray's promise if it gives up, or does not
\* touch, the leaves whose rows go and those that change on the device.
LEMMA TrayKept ==
  ASSUME TrayInv, RowsOnlyGo,
         \A l \in Leaf : agreed'[l] # Unknown =>
           /\ agreed'[l] = agreed[l]
           /\ \A i \in Pending : l \in rows[i].cmd.targets => rows'[i] = rows[i]
           /\ running'[l] = running[l] \/ \E i \in Pending : l \in rows[i].cmd.targets
  PROVE  TrayInv'
<1>1. \A i \in Pending' : i \in Pending /\ rows'[i] = rows[i]
  BY DEF RowsOnlyGo, Pending
<1>2. \A i \in Pending : rows'[i] = rows[i] => i \in Pending'
  BY DEF Pending
<1>3. (\A i \in Pending : WellFormed(rows[i].cmd))'
  BY <1>1 DEF TrayInv, WellFormed, LeavesOf
<1>4. NoDuplicates'
  BY <1>1 DEF TrayInv, NoDuplicates
<1>5. ASSUME NEW l \in Leaf, agreed'[l] # Unknown
      PROVE  Brings(l, agreed[l])'
  <2>1. Brings(l, agreed[l]) /\ agreed'[l] = agreed[l]
    BY <1>5 DEF TrayInv
  <2>2. CASE \E i \in Pending : l \in rows[i].cmd.targets /\ rows[i].cmd.val = agreed[l]
    BY <1>2, <1>5, <2>1, <2>2 DEF Brings
  <2>3. CASE (\A i \in Pending : l \notin rows[i].cmd.targets) /\ running[l] = agreed[l]
    BY <1>1, <1>5, <2>1, <2>3 DEF Brings
  <2> QED
    BY <2>1, <2>2, <2>3 DEF Brings
<1> QED
  BY <1>3, <1>4, <1>5 DEF TrayInv

\* The tray is the only thing that a step of the only handler has to keep for others.
LEMMA SerialIf ==
  ASSUME OneHandler, NEW p \in Proc, TrayInv', (StagesWell(req[p]) /\ CommitsWell(req[p]))'
  PROVE  SerialInv'
<1>1. \A q \in Proc : q = p
  BY DEF OneHandler
<1> QED
  BY <1>1 DEF SerialInv

\* A handler that is done owes nothing.
LEMMA DoneOwesNothing ==
  ASSUME OneHandler, NEW p \in Proc, TrayInv', req'[p].pc = "idle"
  PROVE  SerialInv'
<1>1. (StagesWell(req[p]) /\ CommitsWell(req[p]))'
  BY DEF StagesWell, CommitsWell, Stages, Commits
<1> QED
  BY <1>1, SerialIf

\* A handler that stages does not mind a step that leaves the rows and its locals, if
\* the leaves that change on the device are no longer expected, or will be written.
LEMMA StagesKept ==
  ASSUME NEW p \in Proc, StagesWell(req[p]), UNCHANGED rows,
         req'[p].pc = req[p].pc, req'[p].todo = req[p].todo, req'[p].clear = req[p].clear,
         \A l \in Leaf : agreed[l] = Unknown => agreed'[l] = Unknown,
         \A l \in Leaf : req'[p].goal[l] # Unknown =>
           /\ req'[p].goal[l] = req[p].goal[l]
           /\ \/ running'[l] = running[l]
              \/ \E c \in req[p].todo : l \in c.targets
              \/ \E i \in Pending : Stays(req[p], i) /\ l \in rows[i].cmd.targets
  PROVE  StagesWell(req[p])'
<1> SUFFICES ASSUME req[p].pc \in Stages
             PROVE  /\ TodoIsClean(req[p])'
                    /\ \A l \in Leaf : req'[p].goal[l] # Unknown
                                        => WillBring(req[p], l, req[p].goal[l])'
  BY DEF StagesWell, Stages
<1>0. Pending' = Pending
  BY DEF Pending
<1>1. TodoIsClean(req[p])'
  <2>1. TodoIsClean(req[p])
    BY DEF StagesWell
  <2>2. \A c \in req[p].todo : c.targets \subseteq Leaf
    BY <2>1 DEF TodoIsClean, WellFormed, LeavesOf
  <2> QED
    BY <1>0, <2>1, <2>2 DEF TodoIsClean, WellFormed, LeavesOf
<1>2. ASSUME NEW l \in Leaf, req'[p].goal[l] # Unknown
      PROVE  WillBring(req[p], l, req[p].goal[l])'
  <2>1. WillBring(req[p], l, req[p].goal[l])
    BY <1>2 DEF StagesWell
  <2> QED
    BY <1>0, <1>2, <2>1 DEF WillBring, Stays
<1> QED
  BY <1>1, <1>2

\* Nor does a handler that commits.
LEMMA CommitsKept ==
  ASSUME NEW p \in Proc, CommitsWell(req[p]), UNCHANGED rows,
         req'[p].pc \in Commits => req[p].pc \in Commits,
         req'[p].batch = req[p].batch,
         req'[p].pc \in {"sent", "applied", "rejected"} => ~req'[p].applied,
         Landed(req'[p]) => Landed(req[p]),
         \A l \in Leaf : agreed'[l] # Unknown =>
           agreed'[l] = agreed[l] /\ (running'[l] = running[l] \/ ~Landed(req[p]))
  PROVE  CommitsWell(req[p])'
<1> SUFFICES ASSUME req'[p].pc \in Commits PROVE CommitsWell(req[p])'
  BY DEF CommitsWell
<1>1. Copies(Pending)' = Copies(Pending)
  BY DEF Copies, Pending
<1>2. Landed(req[p])' <=> Landed(req'[p])
  BY DEF Landed
<1> QED
  BY <1>1, <1>2 DEF CommitsWell

\* A step of the only handler that leaves the rows, the device and what the operator
\* relies on.
LEMMA LocalStep ==
  ASSUME OneHandler, SerialInv, NEW p \in Proc, UNCHANGED <<rows, running, agreed>>,
         req'[p].pc \notin Stages,
         req'[p].pc \in Commits => req[p].pc \in Commits,
         req'[p].batch = req[p].batch,
         req'[p].pc \in {"sent", "applied", "rejected"} => ~req'[p].applied,
         Landed(req'[p]) => Landed(req[p])
  PROVE  SerialInv'
<1>1. TrayInv'
  BY TrayKept DEF SerialInv, RowsOnlyGo
<1>2. StagesWell(req[p])'
  BY DEF StagesWell
<1>3. CommitsWell(req[p])'
  BY CommitsKept DEF SerialInv
<1> QED
  BY <1>1, <1>2, <1>3, SerialIf

-----------------------------------------------------------------------------
(***************************************************************************)
(* Staging                                                                 *)
(***************************************************************************)

\* What a form makes of the device: its commands write different leaves of the scopes
\* it clears, and each leaf that is expected to get a value has it, or is written.
FormMakes(scopes, cmds, goal) ==
  /\ \A c \in cmds : WellFormed(c) /\ c.scope \in scopes
  /\ \A c, d \in cmds : c # d => c.targets \intersect d.targets = {}
  /\ \A l \in Leaf : goal[l] # Unknown =>
       /\ ScopeOf[l] \in scopes
       /\ \A c \in cmds : l \in c.targets => c.val = goal[l]
       /\ running[l] = goal[l] \/ \E c \in cmds : l \in c.targets

LEMMA BeginIsSerial ==
  ASSUME OneHandler, TypeOK, SerialInv, NEW p \in Proc,
         NEW scopes, NEW cmds, NEW goal \in [Leaf -> Value \union {Unknown}],
         BeginStage(p, scopes, cmds, goal), FormMakes(scopes, cmds, goal)
  PROVE  SerialInv'
<1> DEFINE r == [Idle EXCEPT !.pc = "clear", !.clear = scopes, !.todo = cmds,
                             !.goal = ForgetIn(goal, Leaf \ Tracked)]
<1>1. /\ req'[p] = r
      /\ UNCHANGED <<rows, running, agreed>>
  BY DEF BeginStage, Continue, TypeOK, dbVars, deviceVars
<1>2. r.pc = "clear" /\ r.clear = scopes /\ r.todo = cmds
  BY DEF Idle
<1>3. \A l \in Leaf : r.goal[l] # Unknown => r.goal[l] = goal[l]
  BY DEF Idle, ForgetIn
<1> HIDE DEF r
<1>4. TrayInv'
  BY <1>1, TrayKept DEF SerialInv, RowsOnlyGo
<1>5. Pending' = Pending /\ \A i \in Pending : WellFormed(rows[i].cmd)
  BY <1>1 DEF Pending, SerialInv, TrayInv
<1>6. TodoIsClean(req[p])'
  BY <1>1, <1>2 DEF FormMakes, TodoIsClean, WellFormed, LeavesOf
<1>7. ASSUME NEW l \in Leaf, req'[p].goal[l] # Unknown
      PROVE  WillBring(req[p], l, req[p].goal[l])'
  <2>1. /\ ScopeOf[l] \in scopes
        /\ \A c \in cmds : l \in c.targets => c.val = goal[l]
        /\ running[l] = goal[l] \/ \E c \in cmds : l \in c.targets
        /\ req'[p].goal[l] = goal[l]
    BY <1>1, <1>3, <1>7 DEF FormMakes
  <2>2. \A i \in Pending : l \in rows[i].cmd.targets => rows[i].cmd.scope = ScopeOf[l]
    BY <1>5 DEF WellFormed, LeavesOf
  <2> QED
    BY <1>1, <1>2, <1>5, <2>1, <2>2 DEF WillBring, Stays
<1>8. StagesWell(req[p])'
  BY <1>6, <1>7 DEF StagesWell
<1>9. CommitsWell(req[p])'
  BY <1>1, <1>2 DEF CommitsWell, Commits
<1> QED
  BY <1>4, <1>8, <1>9, SerialIf

\* The command that sets a leaf, and the one that deletes a node.
LEMMA CommandShape ==
  /\ \A l \in Leaf, v \in Value : /\ WellFormed(SetLeaf(l, v))
                                 /\ SetLeaf(l, v).scope = ScopeOf[l]
                                 /\ SetLeaf(l, v).targets = {l}
                                 /\ SetLeaf(l, v).val = v
  /\ \A s \in Scope : /\ WellFormed(DeleteNode(s))
                      /\ DeleteNode(s).scope = s
                      /\ DeleteNode(s).targets = LeavesOf({s})
                      /\ DeleteNode(s).val = Unset
BY DEF WellFormed, SetLeaf, DeleteNode, LeavesOf

\* Each of the three ways to stage makes such commands.
LEMMA StagingIsSerial ==
  ASSUME OneHandler, TypeOK, SerialInv, NEW p \in Proc,
         StageForm(p) \/ StageMove(p) \/ StageRemove(p)
  PROVE  SerialInv'
<1> DEFINE set(form, ls) == {SetLeaf(l, form[l]) : l \in ls}
           drop(ss) == {DeleteNode(s) : s \in ss}
<1>1. CASE StageForm(p)
  <2>1. PICK page \in Pages : \E form \in [LeavesOf(page) -> Value] :
          BeginStage(p, page, set(form, {x \in LeavesOf(page) : form[x] # running[x]}),
            [l \in Leaf |-> IF l \in LeavesOf(page) THEN form[l] ELSE Unknown])
    BY <1>1 DEF StageForm
  <2>2. PICK form \in [LeavesOf(page) -> Value] :
          BeginStage(p, page, set(form, {x \in LeavesOf(page) : form[x] # running[x]}),
            [l \in Leaf |-> IF l \in LeavesOf(page) THEN form[l] ELSE Unknown])
    BY <2>1
  <2> DEFINE cmds == set(form, {x \in LeavesOf(page) : form[x] # running[x]})
             goal == [l \in Leaf |-> IF l \in LeavesOf(page) THEN form[l] ELSE Unknown]
  <2>3. /\ \A c \in cmds : \E x \in LeavesOf(page) :
             /\ WellFormed(c) /\ c.scope = ScopeOf[x] /\ c.targets = {x} /\ c.val = form[x]
             /\ c = SetLeaf(x, form[x])
        /\ \A x \in LeavesOf(page) : form[x] # running[x] => \E c \in cmds : c.targets = {x}
        /\ \A x \in LeavesOf(page) : x \in Leaf /\ ScopeOf[x] \in page
    <3>1. \A x \in LeavesOf(page) : x \in Leaf /\ ScopeOf[x] \in page
      BY DEF LeavesOf
    <3>2. \A x \in LeavesOf(page) : form[x] # running[x] => SetLeaf(x, form[x]) \in cmds
      OBVIOUS
    <3>3. ASSUME NEW c \in cmds
          PROVE  \E x \in LeavesOf(page) : c = SetLeaf(x, form[x])
      OBVIOUS
    <3> HIDE DEF cmds
    <3>4. ASSUME NEW x \in LeavesOf(page)
          PROVE  LET c == SetLeaf(x, form[x]) IN
                   WellFormed(c) /\ c.scope = ScopeOf[x] /\ c.targets = {x} /\ c.val = form[x]
      BY <3>1, CommandShape
    <3> QED
      BY <3>1, <3>2, <3>3, <3>4
  <2>4. goal \in [Leaf -> Value \union {Unknown}]
        /\ \A l \in Leaf : goal[l] # Unknown => l \in LeavesOf(page) /\ goal[l] = form[l]
    OBVIOUS
  <2>5. BeginStage(p, page, cmds, goal)
    BY <2>2
  <2> HIDE DEF cmds, goal
  <2>6. FormMakes(page, cmds, goal)
    <3>1. \A c \in cmds : WellFormed(c) /\ c.scope \in page
      BY <2>3
    <3>2. \A c, d \in cmds : c # d => c.targets \intersect d.targets = {}
      BY <2>3
    <3>3. ASSUME NEW l \in Leaf, goal[l] # Unknown
          PROVE  /\ ScopeOf[l] \in page
                 /\ \A c \in cmds : l \in c.targets => c.val = goal[l]
                 /\ running[l] = goal[l] \/ \E c \in cmds : l \in c.targets
      BY <2>3, <2>4, <3>3
    <3> QED
      BY <3>1, <3>2, <3>3 DEF FormMakes
  <2> QED
    BY <2>4, <2>5, <2>6, BeginIsSerial
<1>2. CASE StageMove(p)
  <2>1. PICK old \in Pages, new \in Pages : \E form \in [LeavesOf(new) -> Value] :
          /\ old \intersect new = {}
          /\ BeginStage(p, old \union new,
               drop(old) \union set(form, {x \in LeavesOf(new) : form[x] # Unset}),
               [l \in Leaf |->
                  IF l \in LeavesOf(old) THEN Unset
                  ELSE IF l \in LeavesOf(new) /\ (form[l] # Unset \/ running[l] = Unset)
                       THEN form[l] ELSE Unknown])
    BY <1>2 DEF StageMove
  <2>2. PICK form \in [LeavesOf(new) -> Value] :
          /\ old \intersect new = {}
          /\ BeginStage(p, old \union new,
               drop(old) \union set(form, {x \in LeavesOf(new) : form[x] # Unset}),
               [l \in Leaf |->
                  IF l \in LeavesOf(old) THEN Unset
                  ELSE IF l \in LeavesOf(new) /\ (form[l] # Unset \/ running[l] = Unset)
                       THEN form[l] ELSE Unknown])
    BY <2>1
  <2> DEFINE dels == drop(old)
             sets == set(form, {x \in LeavesOf(new) : form[x] # Unset})
             goal == [l \in Leaf |->
                        IF l \in LeavesOf(old) THEN Unset
                        ELSE IF l \in LeavesOf(new) /\ (form[l] # Unset \/ running[l] = Unset)
                             THEN form[l] ELSE Unknown]
  <2>3. /\ \A c \in sets : \E x \in LeavesOf(new) :
             /\ WellFormed(c) /\ c.scope = ScopeOf[x] /\ c.targets = {x} /\ c.val = form[x]
             /\ c = SetLeaf(x, form[x])
        /\ \A x \in LeavesOf(new) : form[x] # Unset => \E c \in sets : c.targets = {x}
        /\ \A x \in LeavesOf(new) : x \in Leaf /\ ScopeOf[x] \in new
    BY CommandShape, SMTT(30) DEF LeavesOf
  <2>4. /\ \A c \in dels : \E s \in old :
             /\ WellFormed(c) /\ c.scope = s /\ c.targets = LeavesOf({s}) /\ c.val = Unset
             /\ c = DeleteNode(s)
        /\ \A s \in old : \E c \in dels : c.targets = LeavesOf({s})
        /\ \A x \in LeavesOf(old) : x \in Leaf /\ ScopeOf[x] \in old
    BY CommandShape DEF LeavesOf
  <2>5. goal \in [Leaf -> Value \union {Unknown}]
        /\ \A l \in Leaf : goal[l] # Unknown =>
             \/ l \in LeavesOf(old) /\ goal[l] = Unset
             \/ /\ l \in LeavesOf(new) /\ goal[l] = form[l]
                /\ form[l] # Unset \/ running[l] = Unset
    OBVIOUS
  <2>6. /\ BeginStage(p, old \union new, dels \union sets, goal)
        /\ old \intersect new = {}
    BY <2>2
  <2> HIDE DEF dels, sets, goal
  <2>7. FormMakes(old \union new, dels \union sets, goal)
    <3>1. \A c \in dels \union sets : WellFormed(c) /\ c.scope \in old \union new
      BY <2>3, <2>4
    <3>2. ASSUME NEW c \in dels \union sets, NEW d \in dels \union sets, c # d
          PROVE  c.targets \intersect d.targets = {}
      <4>1. CASE c \in dels /\ d \in dels
        BY <2>4, <3>2, <4>1 DEF LeavesOf
      <4>2. CASE c \in sets /\ d \in sets
        BY <2>3, <3>2, <4>2
      <4>3. CASE \/ c \in sets /\ d \in dels
                 \/ c \in dels /\ d \in sets
        BY <2>3, <2>4, <2>6, <4>3 DEF LeavesOf
      <4> QED
        BY <4>1, <4>2, <4>3
    <3>3. ASSUME NEW l \in Leaf, goal[l] # Unknown
          PROVE  /\ ScopeOf[l] \in old \union new
                 /\ \A c \in dels \union sets : l \in c.targets => c.val = goal[l]
                 /\ running[l] = goal[l] \/ \E c \in dels \union sets : l \in c.targets
      <4>1. CASE l \in LeavesOf(old) /\ goal[l] = Unset
        <5>1. ScopeOf[l] \in old /\ l \in LeavesOf({ScopeOf[l]}) /\ l \notin LeavesOf(new)
          BY <2>6, <4>1 DEF LeavesOf
        <5>2. \A c \in sets : l \notin c.targets
          BY <2>3, <5>1
        <5>3. \A c \in dels : c.val = goal[l]
          BY <2>4, <4>1
        <5>4. \E c \in dels : l \in c.targets
          BY <2>4, <5>1
        <5> QED
          BY <5>1, <5>2, <5>3, <5>4
      <4>2. CASE /\ l \in LeavesOf(new) /\ goal[l] = form[l]
                 /\ form[l] # Unset \/ running[l] = Unset
        <5>1. ScopeOf[l] \in new /\ \A s \in old : l \notin LeavesOf({s})
          BY <2>6, <4>2 DEF LeavesOf
        <5>2. \A c \in dels : l \notin c.targets
          BY <2>4, <5>1
        <5>3. \A c \in sets : l \in c.targets => c.val = form[l]
          BY <2>3
        <5>4. form[l] # Unset => \E c \in sets : l \in c.targets
          BY <2>3, <4>2
        <5> QED
          BY <4>2, <5>1, <5>2, <5>3, <5>4
      <4> QED
        BY <2>5, <3>3, <4>1, <4>2
    <3> QED
      BY <3>1, <3>2, <3>3 DEF FormMakes
  <2> QED
    BY <2>5, <2>6, <2>7, BeginIsSerial
<1>3. CASE StageRemove(p)
  <2>1. PICK page \in Pages :
          BeginStage(p, page, drop(page),
            [l \in Leaf |-> IF l \in LeavesOf(page) THEN Unset ELSE Unknown])
    BY <1>3 DEF StageRemove
  <2> DEFINE cmds == drop(page)
             goal == [l \in Leaf |-> IF l \in LeavesOf(page) THEN Unset ELSE Unknown]
  <2>2. /\ \A c \in cmds : \E s \in page :
             /\ WellFormed(c) /\ c.scope = s /\ c.targets = LeavesOf({s}) /\ c.val = Unset
             /\ c = DeleteNode(s)
        /\ \A s \in page : \E c \in cmds : c.targets = LeavesOf({s})
    <3>1. page \subseteq Scope
      OBVIOUS
    <3>2. \A s \in page : DeleteNode(s) \in cmds
      OBVIOUS
    <3>3. \A c \in cmds : \E s \in page : c = DeleteNode(s)
      OBVIOUS
    <3> HIDE DEF cmds
    <3>4. ASSUME NEW c \in cmds
          PROVE  \E s \in page : /\ WellFormed(c) /\ c.scope = s /\ c.targets = LeavesOf({s})
                                 /\ c.val = Unset /\ c = DeleteNode(s)
      <4>1. PICK s \in page : c = DeleteNode(s)
        BY <3>3
      <4>2. s \in Scope
        BY <3>1
      <4> QED
        BY <4>1, <4>2, CommandShape
    <3>5. ASSUME NEW s \in page PROVE \E c \in cmds : c.targets = LeavesOf({s})
      BY <3>1, <3>2, CommandShape
    <3> QED
      BY <3>4, <3>5
  <2>3. goal \in [Leaf -> Value \union {Unknown}]
        /\ \A l \in Leaf : goal[l] # Unknown => l \in LeavesOf(page) /\ goal[l] = Unset
    OBVIOUS
  <2>4. BeginStage(p, page, cmds, goal)
    BY <2>1
  <2> HIDE DEF cmds, goal
  <2>5. FormMakes(page, cmds, goal)
    <3>1. \A c, d \in cmds : c # d => c.targets \intersect d.targets = {}
      BY <2>2 DEF LeavesOf
    <3>2. \A l \in LeavesOf(page) : ScopeOf[l] \in page /\ l \in LeavesOf({ScopeOf[l]})
      BY DEF LeavesOf
    <3>3. \A c \in cmds : WellFormed(c) /\ c.scope \in page /\ c.val = Unset
      BY <2>2
    <3>4. ASSUME NEW l \in LeavesOf(page) PROVE \E c \in cmds : l \in c.targets
      <4>1. PICK c \in cmds : c.targets = LeavesOf({ScopeOf[l]})
        BY <2>2, <3>2
      <4> QED
        BY <3>2, <4>1
    <3> QED
      BY <2>3, <3>1, <3>2, <3>3, <3>4 DEF FormMakes
  <2> QED
    BY <2>3, <2>4, <2>5, BeginIsSerial
<1> QED
  BY <1>1, <1>2, <1>3

\* Clearing a scope takes away the rows that write it and no others.
LEMMA ClearIsSerial ==
  ASSUME OneHandler, TypeOK, SerialInv, NEW p \in Proc, StageClear(p)
  PROVE  SerialInv'
<1> DEFINE r == req[p]
<1>0. PICK s \in r.clear :
        /\ DeletePending({i \in RowId : rows[i].cmd.scope = s})
        /\ agreed' = Forget(LeavesOf({s}))
        /\ Continue(p, [r EXCEPT !.clear = @ \ {s},
                           !.pc = IF r.clear = {s} THEN "insert" ELSE "clear"])
  BY DEF StageClear
<1>1. r \in Request /\ r.pc = "clear" /\ UNCHANGED running
  BY ContinueType DEF StageClear, deviceVars
<1>2. /\ req'[p].clear = r.clear \ {s} /\ req'[p].todo = r.todo /\ req'[p].goal = r.goal
      /\ req'[p].pc \in Stages
      /\ req'[p].pc = "insert" => r.clear = {s}
  BY <1>0, <1>1 DEF Continue, TypeOK, Request, Stages
<1>3. /\ \A i \in Pending' : i \in Pending /\ rows'[i] = rows[i] /\ rows[i].cmd.scope # s
      /\ \A i \in Pending : rows[i].cmd.scope # s => i \in Pending' /\ rows'[i] = rows[i]
  BY <1>0 DEF DeletePending, Pending, GoneRow
<1>4. \A l \in Leaf : agreed'[l] = IF ScopeOf[l] = s THEN Unknown ELSE agreed[l]
  BY <1>0 DEF Forget, ForgetIn, LeavesOf
<1>5. /\ \A i \in Pending : WellFormed(rows[i].cmd)
      /\ TodoIsClean(r)
  BY <1>1 DEF SerialInv, TrayInv, StagesWell, Stages
<1> HIDE DEF r
<1>6. TrayInv'
  <2>1. RowsOnlyGo
    BY <1>0, RowsOnlyGoIf
  <2>2. ASSUME NEW l \in Leaf, agreed'[l] # Unknown
        PROVE  /\ agreed'[l] = agreed[l]
               /\ \A i \in Pending : l \in rows[i].cmd.targets => rows'[i] = rows[i]
    BY <1>3, <1>4, <1>5, <2>2 DEF WellFormed, LeavesOf
  <2> QED
    BY <1>1, <2>1, <2>2, TrayKept DEF SerialInv
<1>7. TodoIsClean(req[p])'
  <2>1. (req'[p].pc = "insert" => req'[p].clear = {})
    BY <1>2
  <2>2. /\ \A c \in req'[p].todo : WellFormed(c)
        /\ \A c, d \in req'[p].todo : c # d => c.targets \intersect d.targets = {}
    BY <1>2, <1>5 DEF TodoIsClean
  <2>3. ASSUME NEW c \in req'[p].todo, c.scope \notin req'[p].clear
        PROVE  /\ \A i \in Pending' : rows'[i].cmd.targets \intersect c.targets = {}
               /\ \A l \in c.targets : agreed'[l] = Unknown
    <3>1. c \in r.todo /\ WellFormed(c) /\ c.targets \subseteq Leaf
      BY <1>2, <2>2 DEF WellFormed, LeavesOf
    <3>2. CASE c.scope = s
      BY <1>3, <1>4, <1>5, <3>1, <3>2 DEF WellFormed, LeavesOf
    <3>3. CASE c.scope # s
      <4>1. c.scope \notin r.clear
        BY <1>2, <2>3, <3>3
      <4>2. /\ \A i \in Pending : rows[i].cmd.targets \intersect c.targets = {}
            /\ \A l \in c.targets : agreed[l] = Unknown
        BY <1>5, <3>1, <4>1 DEF TodoIsClean
      <4> QED
        BY <1>3, <1>4, <3>1, <4>2
    <3> QED
      BY <3>2, <3>3
  <2> QED
    BY <2>1, <2>2, <2>3 DEF TodoIsClean, WellFormed, LeavesOf
<1>8. ASSUME NEW l \in Leaf, req'[p].goal[l] # Unknown
      PROVE  WillBring(req[p], l, req[p].goal[l])'
  <2>1. WillBring(r, l, r.goal[l]) /\ req'[p].goal[l] = r.goal[l]
    BY <1>1, <1>2, <1>8 DEF SerialInv, StagesWell, Stages, r
  <2>2. \A i \in Pending' : Stays(req[p], i)' => Stays(r, i)
    BY <1>2, <1>3 DEF Stays
  <2>3. \A i \in Pending : Stays(r, i) => Stays(req[p], i)' /\ rows'[i] = rows[i]
    BY <1>0, <1>2, <1>3 DEF Stays
  <2>4. (\A c \in req[p].todo : l \in c.targets => c.val = req[p].goal[l])'
    BY <1>2, <2>1 DEF WillBring
  <2>5. (\A i \in Pending : Stays(req[p], i) /\ l \in rows[i].cmd.targets
                             => rows[i].cmd.val = req[p].goal[l])'
    BY <1>3, <2>1, <2>2 DEF WillBring
  <2>6. (\/ running[l] = req[p].goal[l]
         \/ \E c \in req[p].todo : l \in c.targets
         \/ \E i \in Pending : Stays(req[p], i) /\ l \in rows[i].cmd.targets)'
    <3>1. CASE running[l] = r.goal[l] \/ \E c \in r.todo : l \in c.targets
      BY <1>1, <1>2, <2>1, <3>1
    <3>2. CASE \E i \in Pending : Stays(r, i) /\ l \in rows[i].cmd.targets
      <4>1. PICK i \in Pending : Stays(r, i) /\ l \in rows[i].cmd.targets
        BY <3>2
      <4>2. Stays(req[p], i)' /\ l \in rows'[i].cmd.targets /\ i \in Pending'
        BY <2>3, <4>1 DEF Stays
      <4> QED
        BY <4>2
    <3> QED
      BY <2>1, <3>1, <3>2 DEF WillBring
  <2> QED
    BY <2>4, <2>5, <2>6 DEF WillBring
<1>9. (StagesWell(req[p]) /\ CommitsWell(req[p]))'
  BY <1>2, <1>7, <1>8 DEF StagesWell, CommitsWell, Stages, Commits
<1> QED
  BY <1>6, <1>9, SerialIf

\* An INSERT puts a command into the tray that nothing else in it overlaps.
LEMMA InsertIsSerial ==
  ASSUME OneHandler, TypeOK, LinkInv, SerialInv, NEW p \in Proc, StageInsert(p)
  PROVE  SerialInv'
<1> DEFINE r == req[p]
<1>0. PICK cmd \in r.todo :
        /\ rows' = [rows EXCEPT ![nextRow] =
                      [status |-> "pending", cmd |-> cmd, commit |-> None]]
        /\ Continue(p, [r EXCEPT !.todo = @ \ {cmd}])
  BY DEF StageInsert
<1>1. /\ r \in Request /\ r.pc = "insert" /\ UNCHANGED <<running, agreed>>
      /\ nextRow \in RowId
  BY ContinueType DEF StageInsert, deviceVars, TypeOK
<1>2. /\ req'[p].clear = r.clear /\ req'[p].todo = r.todo \ {cmd} /\ req'[p].goal = r.goal
      /\ req'[p].pc = "insert"
  BY <1>0, <1>1 DEF Continue, TypeOK, Request
<1>3. /\ Pending' = Pending \union {nextRow} /\ nextRow \notin Pending
      /\ rows'[nextRow].cmd = cmd
      /\ \A i \in Pending : rows'[i] = rows[i]
  BY <1>0, <1>1 DEF TypeOK, Pending, LinkInv, IdsAreFresh
<1>4. TodoIsClean(r) /\ r.clear = {}
  BY <1>1 DEF SerialInv, StagesWell, Stages, TodoIsClean
<1>5. /\ WellFormed(cmd) /\ cmd.targets \subseteq Leaf
      /\ \A i \in Pending : rows[i].cmd.targets \intersect cmd.targets = {}
      /\ \A l \in cmd.targets : agreed[l] = Unknown
      /\ \A c \in r.todo : c # cmd => c.targets \intersect cmd.targets = {}
  BY <1>0, <1>4 DEF TodoIsClean, WellFormed, LeavesOf
<1> HIDE DEF r
<1>6. TrayInv'
  <2>1. (\A i \in Pending : WellFormed(rows[i].cmd))'
    BY <1>3, <1>5 DEF SerialInv, TrayInv, WellFormed, LeavesOf
  <2>2. NoDuplicates'
    BY <1>3, <1>5 DEF SerialInv, TrayInv, NoDuplicates
  <2>3. ASSUME NEW l \in Leaf, agreed'[l] # Unknown
        PROVE  Brings(l, agreed[l])'
    <3>1. Brings(l, agreed[l]) /\ l \notin cmd.targets /\ agreed'[l] = agreed[l]
      BY <1>1, <1>5, <2>3 DEF SerialInv, TrayInv
    <3> QED
      BY <1>1, <1>3, <3>1 DEF Brings
  <2> QED
    BY <2>1, <2>2, <2>3 DEF TrayInv
<1>7. TodoIsClean(req[p])'
  BY <1>1, <1>2, <1>3, <1>4, <1>5 DEF TodoIsClean, WellFormed, LeavesOf
<1>8. ASSUME NEW l \in Leaf, req'[p].goal[l] # Unknown
      PROVE  WillBring(req[p], l, req[p].goal[l])'
  <2>1. WillBring(r, l, r.goal[l]) /\ req'[p].goal[l] = r.goal[l]
    BY <1>1, <1>2, <1>8 DEF SerialInv, StagesWell, Stages, r
  <2> QED
    BY <1>0, <1>1, <1>2, <1>3, <1>4, <2>1 DEF WillBring, Stays
<1>9. (StagesWell(req[p]) /\ CommitsWell(req[p]))'
  BY <1>2, <1>7, <1>8 DEF StagesWell, CommitsWell, Stages, Commits
<1> QED
  BY <1>6, <1>9, SerialIf

\* The answer: from now on the tray brings the form's values.
LEMMA ReturnIsSerial ==
  ASSUME OneHandler, TypeOK, SerialInv, NEW p \in Proc, StageReturn(p)
  PROVE  SerialInv'
<1> DEFINE r == req[p]
<1>1. /\ r.pc = "insert" /\ r.todo = {} /\ UNCHANGED <<rows, running>>
      /\ req'[p].pc = "idle"
      /\ \A l \in Leaf : agreed'[l] = IF r.goal[l] # Unknown THEN r.goal[l] ELSE agreed[l]
  BY DEF StageReturn, Done, Continue, dbVars, deviceVars, TypeOK, Idle
<1>2. Pending' = Pending
  BY <1>1 DEF Pending
<1>3. /\ r.clear = {}
      /\ \A l \in Leaf : r.goal[l] # Unknown => WillBring(r, l, r.goal[l])
  BY <1>1 DEF SerialInv, StagesWell, Stages, TodoIsClean
<1> HIDE DEF r
<1>4. (\A i \in Pending : WellFormed(rows[i].cmd))' /\ NoDuplicates'
  BY <1>1, <1>2 DEF SerialInv, TrayInv, NoDuplicates, WellFormed, LeavesOf
<1>5. ASSUME NEW l \in Leaf, agreed'[l] # Unknown
      PROVE  Brings(l, agreed[l])'
  <2>1. CASE r.goal[l] # Unknown
    BY <1>1, <1>2, <1>3, <2>1 DEF WillBring, Stays, Brings
  <2>2. CASE r.goal[l] = Unknown
    <3>1. Brings(l, agreed[l]) /\ agreed'[l] = agreed[l]
      BY <1>1, <1>5, <2>2 DEF SerialInv, TrayInv
    <3> QED
      BY <1>1, <1>2, <3>1 DEF Brings
  <2> QED
    BY <2>1, <2>2
<1>6. TrayInv'
  BY <1>4, <1>5 DEF TrayInv
<1> QED
  BY <1>1, <1>6, DoneOwesNothing

-----------------------------------------------------------------------------
(***************************************************************************)
(* The tray and the commit                                                 *)
(***************************************************************************)

\* Discarded rows are no longer relied on.
LEMMA DiscardIsSerial ==
  ASSUME OneHandler, TypeOK, SerialInv, NEW p \in Proc, DiscardOne(p) \/ DiscardAll(p)
  PROVE  SerialInv'
<1>1. req'[p].pc = "idle" /\ UNCHANGED running
  BY DEF DiscardOne, DiscardAll, deviceVars
<1>2. PICK S \in SUBSET Pending : DeletePending(S) /\ agreed' = Forget(LeavesOfBatch(Copies(S)))
  <2>1. CASE DiscardOne(p)
    <3>1. PICK i \in Pending : DeletePending({i}) /\ agreed' = Forget(rows[i].cmd.targets)
      BY <2>1 DEF DiscardOne
    <3>2. LeavesOfBatch(Copies({i})) = rows[i].cmd.targets
      <4> DEFINE copy == [id |-> i, cmd |-> rows[i].cmd]
      <4>1. Copies({i}) = {copy} /\ copy.cmd.targets = rows[i].cmd.targets
        BY DEF Copies
      <4> HIDE DEF copy
      <4>2. {x.cmd.targets : x \in Copies({i})} = {copy.cmd.targets}
        BY <4>1
      <4> QED
        BY <4>1, <4>2 DEF LeavesOfBatch
    <3> QED
      BY <3>1, <3>2
  <2>2. CASE DiscardAll(p)
    <3>1. DeletePending(Pending)
      BY <2>2 DEF DiscardAll, DeletePending, Pending
    <3> QED
      BY <2>2, <3>1 DEF DiscardAll
  <2> QED
    BY <2>1, <2>2
<1>3. RowsOnlyGo
  BY <1>2, RowsOnlyGoIf
<1>4. ASSUME NEW l \in Leaf, agreed'[l] # Unknown
      PROVE  /\ agreed'[l] = agreed[l]
             /\ \A i \in Pending : l \in rows[i].cmd.targets => rows'[i] = rows[i]
  <2>1. l \notin LeavesOfBatch(Copies(S)) /\ agreed'[l] = agreed[l]
    BY <1>2, <1>4 DEF Forget, ForgetIn
  <2>2. ASSUME NEW i \in S PROVE l \notin rows[i].cmd.targets
    <3> DEFINE copy == [id |-> i, cmd |-> rows[i].cmd]
    <3>1. copy \in Copies(S) /\ copy.cmd.targets = rows[i].cmd.targets
      BY DEF Copies
    <3> HIDE DEF copy
    <3> QED
      BY <2>1, <3>1 DEF LeavesOfBatch
  <2> QED
    BY <1>2, <2>1, <2>2 DEF DeletePending, Pending
<1>5. TrayInv'
  BY <1>1, <1>3, <1>4, TrayKept DEF SerialInv
<1> QED
  BY <1>1, <1>5, DoneOwesNothing

\* The batch is the whole tray.
LEMMA SelectIsSerial ==
  ASSUME OneHandler, TypeOK, SerialInv, NEW p \in Proc, CommitSelect(p)
  PROVE  SerialInv'
<1>1. /\ UNCHANGED <<rows, running, agreed>>
      /\ req'[p].pc = "sent" /\ req'[p].batch = Copies(Pending) /\ ~req'[p].applied
  BY DEF CommitSelect, Continue, TypeOK, Idle, dbVars, deviceVars
<1>2. Copies(Pending)' = Copies(Pending)
  BY <1>1 DEF Copies, Pending
<1>3. TrayInv'
  BY <1>1, TrayKept DEF SerialInv, RowsOnlyGo
<1>4. (StagesWell(req[p]) /\ CommitsWell(req[p]))'
  BY <1>1, <1>2 DEF StagesWell, CommitsWell, Landed, Stages
<1> QED
  BY <1>3, <1>4, SerialIf

\* The device has then what the tray brings, and the tray brings it once more.
LEMMA ApplyIsSerial ==
  ASSUME OneHandler, TypeOK, SerialInv, NEW p \in Proc, DeviceApply(p)
  PROVE  SerialInv'
<1>1. /\ req[p] \in Request /\ req[p].pc = "sent"
      /\ running' = After(req[p].batch, running) /\ UNCHANGED <<rows, agreed>>
      /\ req' = [req EXCEPT ![p] = [req[p] EXCEPT !.pc = "applied"]]
  BY ContinueType DEF DeviceApply, Continue, dbVars
<1>2. /\ req'[p].pc = "applied" /\ req'[p].batch = req[p].batch
      /\ req'[p].applied = req[p].applied
  BY <1>1 DEF TypeOK, Request
<1>3. req[p].batch = Copies(Pending) /\ ~req[p].applied
  BY <1>1 DEF SerialInv, CommitsWell, Commits
<1>4. \A l \in Leaf : agreed[l] # Unknown => running'[l] = agreed[l]
  BY <1>1, <1>3, BringsIsAfter DEF SerialInv, TrayInv
<1>5. \A l \in Leaf : running'[l] = running[l] \/ \E i \in Pending : l \in rows[i].cmd.targets
  BY <1>1, <1>3, AfterTray DEF SerialInv, TrayInv, TypeOK
<1>6. TrayInv'
  BY <1>1, <1>5, TrayKept DEF SerialInv, RowsOnlyGo
<1>7. Copies(Pending)' = Copies(Pending)
  BY <1>1 DEF Copies, Pending
<1>8. (StagesWell(req[p]) /\ CommitsWell(req[p]))'
  BY <1>1, <1>2, <1>3, <1>4, <1>7 DEF StagesWell, CommitsWell, Stages
<1> QED
  BY <1>6, <1>8, SerialIf

\* The tray is empty after a commit that has landed, and nothing is missing.
LEMMA MarkIsSerial ==
  ASSUME OneHandler, TypeOK, SerialInv, NEW p \in Proc, MarkCommitted(p)
  PROVE  SerialInv'
<1>1. /\ req[p].pc = "mark" /\ req'[p].pc = "idle" /\ UNCHANGED <<running, agreed>>
  BY DEF MarkCommitted, Done, Continue, TypeOK, Idle, deviceVars
<1>2. Pending' = {}
  BY MarkedRows DEF Pending
<1>3. \A l \in Leaf : agreed[l] # Unknown => running[l] = agreed[l]
  BY <1>1 DEF SerialInv, CommitsWell, Commits, Landed
<1>4. TrayInv'
  BY <1>1, <1>2, <1>3 DEF TrayInv, NoDuplicates, Brings
<1> QED
  BY <1>1, <1>4, DoneOwesNothing

\* The other steps of a handler that commits move it on; one that stops, for whatever
\* reason, leaves the tray as it is, to be committed again.
LEMMA CommitIsSerial ==
  ASSUME OneHandler, TypeOK, SerialInv, NEW p \in Proc,
         \/ DeviceReject(p) \/ ConfigureAnswered(p) \/ DeviceSave(p) \/ SaveAnswered(p)
         \/ InsertCommit(p) \/ Timeout(p) \/ Abort(p)
  PROVE  SerialInv'
<1> USE DEF dbVars, deviceVars
<1>1. /\ req[p] \in Request /\ UNCHANGED <<rows, running, agreed>>
      /\ req[p].pc \in {"sent", "applied", "rejected"} => ~req[p].applied
  BY ContinueType DEF DeviceReject, ConfigureAnswered, DeviceSave, SaveAnswered, InsertCommit,
     Timeout, Abort, SerialInv, CommitsWell, Commits
<1>2. CASE req'[p].pc = "idle"
  <2>1. TrayInv'
    BY <1>1, TrayKept DEF SerialInv, RowsOnlyGo
  <2> QED
    BY <1>2, <2>1, DoneOwesNothing
<1>3. CASE req'[p].pc # "idle"
  <2>1. /\ req'[p].pc \in Commits /\ req[p].pc \in Commits
        /\ req'[p].batch = req[p].batch
        /\ req'[p].pc \in {"sent", "applied", "rejected"} => ~req'[p].applied
        /\ Landed(req'[p]) => Landed(req[p])
    <3>1. CASE DeviceReject(p)
      BY <1>1, <3>1 DEF DeviceReject, Continue, TypeOK, Request, Commits, Landed
    <3>2. CASE ConfigureAnswered(p)
      <4>1. CASE req[p].pc = "applied"
        <5>1. req' = [req EXCEPT ![p] = [req[p] EXCEPT !.pc = "saving", !.applied = TRUE]]
          BY <3>2, <4>1 DEF ConfigureAnswered, Continue
        <5>2. req'[p].pc = "saving" /\ req'[p].batch = req[p].batch
          BY <1>1, <5>1 DEF TypeOK, Request
        <5> QED
          BY <4>1, <5>2 DEF Commits, Landed
      <4>2. CASE req[p].pc = "rejected"
        <5>1. req' = [req EXCEPT ![p] = [req[p] EXCEPT !.pc = "record"]]
          BY <3>2, <4>2 DEF ConfigureAnswered, Continue
        <5>2. /\ req'[p].pc = "record" /\ req'[p].batch = req[p].batch
              /\ req'[p].applied = req[p].applied
          BY <1>1, <5>1 DEF TypeOK, Request
        <5> QED
          BY <1>1, <4>2, <5>2 DEF Commits, Landed
      <4> QED
        BY <3>2, <4>1, <4>2 DEF ConfigureAnswered
    <3>3. CASE DeviceSave(p)
      BY <1>1, <3>3 DEF DeviceSave, Continue, TypeOK, Request, Commits, Landed
    <3>4. CASE SaveAnswered(p)
      <4>1. \/ req' = [req EXCEPT ![p] = [req[p] EXCEPT !.pc = "record", !.saved = TRUE]]
            \/ req' = [req EXCEPT ![p] = [req[p] EXCEPT !.pc = "record"]]
        BY <3>4 DEF SaveAnswered, Continue
      <4>2. req'[p].pc = "record" /\ req'[p].batch = req[p].batch
        <5>1. /\ [req[p] EXCEPT !.pc = "record"].pc = "record"
              /\ [req[p] EXCEPT !.pc = "record"].batch = req[p].batch
              /\ [req[p] EXCEPT !.pc = "record", !.saved = TRUE].pc = "record"
              /\ [req[p] EXCEPT !.pc = "record", !.saved = TRUE].batch = req[p].batch
          BY <1>1, RequestFields DEF Pc, Commits
        <5>2. \/ req'[p] = [req[p] EXCEPT !.pc = "record", !.saved = TRUE]
              \/ req'[p] = [req[p] EXCEPT !.pc = "record"]
          BY <4>1 DEF TypeOK
        <5> QED
          BY <5>1, <5>2, Zenon
      <4>3. req[p].pc \in {"saving", "saved"}
        BY <3>4 DEF SaveAnswered
      <4> QED
        BY <4>2, <4>3 DEF Commits, Landed
    <3>5. CASE InsertCommit(p)
      <4>1. /\ req[p].pc = "record" /\ req[p].applied
            /\ req' = [req EXCEPT ![p] = [req[p] EXCEPT !.pc = "mark", !.commit = nextCommit]]
        BY <1>3, <3>5 DEF InsertCommit, Continue, Done, TypeOK, Idle
      <4> QED
        BY <1>1, <4>1 DEF TypeOK, Request, Commits, Landed
    <3>6. CASE Timeout(p) \/ Abort(p)
      BY <1>3, <3>6 DEF Timeout, Abort, Done, Continue, TypeOK, Idle
    <3> QED
      BY <3>1, <3>2, <3>3, <3>4, <3>5, <3>6
  <2> QED
    BY <1>1, <2>1, LocalStep DEF Commits, Stages
<1> QED
  BY <1>2, <1>3

-----------------------------------------------------------------------------
(***************************************************************************)
(* What happens around the handler                                         *)
(***************************************************************************)

\* The locals of a request whose history is kept up to date.
LEMMA GoalFields ==
  ASSUME NEW r \in Request, NEW g, NEW b
  PROVE  \A n \in {[r EXCEPT !.goal = g], [r EXCEPT !.goal = g, !.calm = b]} :
           /\ n.pc = r.pc /\ n.todo = r.todo /\ n.clear = r.clear
           /\ n.batch = r.batch /\ n.applied = r.applied /\ n.goal = g
BY DEF Request

\* A leaf of the tray has a command that waits, and no commit has landed with it.
LEMMA TrayCovers ==
  ASSUME NEW l \in InTray
  PROVE  /\ \E i \in Pending : l \in rows[i].cmd.targets
         /\ \A q \in Proc : ~Landed(req[q])
<1>1. /\ \A q \in Proc : ~Landed(req[q])
      /\ l \in LeavesOfBatch(Copies(Pending))
  BY DEF InTray
<1>2. PICK x \in Copies(Pending) : l \in x.cmd.targets
  BY <1>1 DEF LeavesOfBatch
<1>3. PICK i \in Pending : x = [id |-> i, cmd |-> rows[i].cmd]
  BY DEF Copies
<1>4. x.cmd = rows[i].cmd
  BY <1>3
<1> QED
  BY <1>1, <1>2, <1>4

\* A leaf a form is bound to write has a command to come, or one it will not clear.
LEMMA FormCovers ==
  ASSUME NEW r, NEW l \in Bound(r)
  PROVE  \/ \E c \in r.todo : l \in c.targets
         \/ \E i \in Pending : Stays(r, i) /\ l \in rows[i].cmd.targets
<1> DEFINE kept == {i \in Pending : rows[i].cmd.scope \notin r.clear}
<1>1. CASE l \in LeavesOfBatch(Copies(kept))
  <2>1. PICK x \in Copies(kept) : l \in x.cmd.targets
    BY <1>1 DEF LeavesOfBatch
  <2>2. PICK i \in kept : x = [id |-> i, cmd |-> rows[i].cmd]
    BY DEF Copies
  <2>3. x.cmd = rows[i].cmd
    BY <2>2
  <2> QED
    BY <2>1, <2>3 DEF Stays
<1>2. CASE \E cmd \in r.todo : l \in cmd.targets
  BY <1>2
<1> QED
  BY <1>1, <1>2 DEF Bound

\* A change of the device by others, or by a call that arrives late, is given up for
\* the leaves that nothing in the tray, or in the form being staged, writes again.
Disturbed(changed) ==
  /\ UNCHANGED rows
  /\ \A l \in Leaf : l \notin changed => running'[l] = running[l]
  /\ agreed' = Forget(changed \ InTray)
  /\ \A q \in Proc :
       /\ req'[q].pc = req[q].pc /\ req'[q].todo = req[q].todo /\ req'[q].clear = req[q].clear
       /\ req'[q].batch = req[q].batch /\ req'[q].applied = req[q].applied
       /\ req[q].pc # "idle" =>
            req'[q].goal = ForgetIn(req[q].goal, changed \ Bound(req[q]))

\* What happens around the handler is such a change.
LEMMA AroundDisturbs ==
  ASSUME OneHandler, TypeOK,
         (\E p \in Proc : ProxyConfigure(p)) \/ StrayApply \/ Reboot
  PROVE  \E changed : Disturbed(changed)
<1> USE DEF dbVars, deviceVars
<1>0. \A q \in Proc : req[q] \in Request
  BY DEF TypeOK
<1>1. CASE \E p \in Proc : ProxyConfigure(p)
  <2>1. PICK p \in Proc, l \in Leaf, v \in Value :
          /\ req[p].pc = "idle"
          /\ running' = [running EXCEPT ![l] = v]
          /\ agreed' = Forget({l} \ InTray)
          /\ UNCHANGED <<rows, req>>
    BY <1>1 DEF ProxyConfigure
  <2>2. \A q \in Proc : req[q].pc = "idle"
    BY <2>1 DEF OneHandler
  <2>3. \A m \in Leaf : m \notin {l} => running'[m] = running[m]
    BY <2>1 DEF TypeOK
  <2>4. Disturbed({l})
    BY <2>1, <2>2, <2>3 DEF Disturbed
  <2> QED
    BY <2>4
<1>2. CASE StrayApply
  <2>1. PICK batch \in strays :
          /\ running' = After(batch, running)
          /\ agreed' = Forget(LeavesOfBatch(batch) \ InTray)
          /\ req' = [p \in Proc |->
               [req[p] EXCEPT !.goal = ForgetIn(@, LeavesOfBatch(batch) \ Bound(req[p]))]]
          /\ UNCHANGED rows
    BY <1>2 DEF StrayApply
  <2> DEFINE changed == LeavesOfBatch(batch)
             g(q) == ForgetIn(req[q].goal, changed \ Bound(req[q]))
  <2>2. \A l \in Leaf : l \notin changed => running'[l] = running[l]
    BY <2>1, AfterElsewhere
  <2>3. ASSUME NEW q \in Proc
        PROVE  /\ req'[q].pc = req[q].pc /\ req'[q].todo = req[q].todo
               /\ req'[q].clear = req[q].clear /\ req'[q].batch = req[q].batch
               /\ req'[q].applied = req[q].applied /\ req'[q].goal = g(q)
    <3>1. req'[q] = [req[q] EXCEPT !.goal = g(q)]
      BY <2>1
    <3> HIDE DEF g
    <3> QED
      BY <1>0, <3>1, GoalFields
  <2>4. Disturbed(changed)
    BY <2>1, <2>2, <2>3 DEF Disturbed
  <2> QED
    BY <2>4
<1>3. CASE Reboot
  <2> DEFINE changed == {l \in Leaf : boot[l] # running[l]}
             g(q) == ForgetIn(req[q].goal, changed \ Bound(req[q]))
  <2>1. /\ running' = boot /\ UNCHANGED rows
        /\ req' = [p \in Proc |->
                     [req[p] EXCEPT !.goal = ForgetIn(@, changed \ Bound(req[p])),
                                    !.calm = @ /\ req[p].pc \notin {"applied", "saving"}]]
        /\ agreed' = Forget(changed \ InTray)
    BY <1>3 DEF Reboot
  <2>2. \A l \in Leaf : l \notin changed => running'[l] = running[l]
    BY <2>1
  <2> HIDE DEF changed
  <2>3. ASSUME NEW q \in Proc
        PROVE  /\ req'[q].pc = req[q].pc /\ req'[q].todo = req[q].todo
               /\ req'[q].clear = req[q].clear /\ req'[q].batch = req[q].batch
               /\ req'[q].applied = req[q].applied /\ req'[q].goal = g(q)
    <3>1. req'[q] = [req[q] EXCEPT !.goal = g(q),
                              !.calm = @ /\ req[q].pc \notin {"applied", "saving"}]
      BY <2>1
    <3> HIDE DEF g
    <3> QED
      BY <1>0, <3>1, GoalFields
  <2>4. Disturbed(changed)
    BY <2>1, <2>2, <2>3 DEF Disturbed
  <2> QED
    BY <2>4
<1> QED
  BY <1>1, <1>2, <1>3

\* Neither the tray nor the handler minds it.
LEMMA AroundIsSerial ==
  ASSUME OneHandler, TypeOK, SerialInv,
         \/ \E p \in Proc : ProxyConfigure(p)
         \/ StrayApply \/ ProxySave \/ Reboot \/ UNCHANGED vars
  PROVE  SerialInv'
<1> USE DEF dbVars, deviceVars
<1>1. /\ UNCHANGED rows
      /\ \A l \in Leaf : agreed'[l] # Unknown =>
           /\ agreed'[l] = agreed[l]
           /\ \/ running'[l] = running[l]
              \/ /\ \E i \in Pending : l \in rows[i].cmd.targets
                 /\ \A q \in Proc : ~Landed(req[q])
      /\ \A q \in Proc :
           /\ req'[q].pc = req[q].pc /\ req'[q].todo = req[q].todo /\ req'[q].clear = req[q].clear
           /\ req'[q].batch = req[q].batch /\ req'[q].applied = req[q].applied
           /\ req[q].pc # "idle" => \A l \in Leaf : req'[q].goal[l] # Unknown =>
                /\ req'[q].goal[l] = req[q].goal[l]
                /\ \/ running'[l] = running[l]
                   \/ \E c \in req[q].todo : l \in c.targets
                   \/ \E i \in Pending : Stays(req[q], i) /\ l \in rows[i].cmd.targets
  <2>1. CASE \E changed : Disturbed(changed)
    <3>1. PICK changed : Disturbed(changed)
      BY <2>1
    <3>2. ASSUME NEW l \in Leaf, agreed'[l] # Unknown
          PROVE  /\ agreed'[l] = agreed[l]
                 /\ running'[l] = running[l] \/ l \in InTray
      BY <3>1, <3>2 DEF Disturbed, Forget, ForgetIn
    <3>3. ASSUME NEW q \in Proc, req[q].pc # "idle", NEW l \in Leaf, req'[q].goal[l] # Unknown
          PROVE  /\ req'[q].goal[l] = req[q].goal[l]
                 /\ running'[l] = running[l] \/ l \in Bound(req[q])
      BY <3>1, <3>3 DEF Disturbed, ForgetIn
    <3>4. ASSUME NEW q \in Proc, req[q].pc # "idle", NEW l \in Leaf, req'[q].goal[l] # Unknown
          PROVE  /\ req'[q].goal[l] = req[q].goal[l]
                 /\ \/ running'[l] = running[l]
                    \/ \E c \in req[q].todo : l \in c.targets
                    \/ \E i \in Pending : Stays(req[q], i) /\ l \in rows[i].cmd.targets
      BY <3>3, <3>4, FormCovers
    <3> QED
      BY <3>1, <3>2, <3>4, TrayCovers DEF Disturbed
  <2>2. CASE ProxySave \/ UNCHANGED vars
    BY <2>2 DEF ProxySave, vars
  <2> QED
    BY <2>1, <2>2, AroundDisturbs
<1>2. TrayInv'
  BY <1>1, TrayKept DEF SerialInv, RowsOnlyGo
<1>3. ASSUME NEW q \in Proc
      PROVE  (StagesWell(req[q]) /\ CommitsWell(req[q]))'
  <2>1. StagesWell(req[q]) /\ CommitsWell(req[q])
    BY DEF SerialInv
  <2>2. StagesWell(req[q])'
    <3>1. CASE req[q].pc = "idle"
      BY <1>1, <3>1 DEF StagesWell, Stages
    <3>2. CASE req[q].pc # "idle"
      BY <1>1, <2>1, <3>2, StagesKept
    <3> QED
      BY <3>1, <3>2
  <2>3. CommitsWell(req[q])'
    <3>1. Landed(req'[q]) <=> Landed(req[q])
      BY <1>1 DEF Landed
    <3>2. req'[q].pc \in {"sent", "applied", "rejected"} => ~req'[q].applied
      BY <1>1, <2>1 DEF CommitsWell, Commits
    <3> QED
      BY <1>1, <2>1, <3>1, <3>2, CommitsKept
  <2> QED
    BY <2>2, <2>3
<1> QED
  BY <1>2, <1>3 DEF SerialInv

-----------------------------------------------------------------------------
(***************************************************************************)
(* The theorems                                                            *)
(***************************************************************************)

\* Every step keeps it.
LEMMA SerialStep ==
  OneHandler /\ TypeOK /\ LinkInv /\ SerialInv /\ [Next]_vars => SerialInv'
<1> SUFFICES ASSUME OneHandler, TypeOK, LinkInv, SerialInv, [Next]_vars PROVE SerialInv'
  OBVIOUS
<1>1. ASSUME NEW p \in Proc, StageForm(p) \/ StageMove(p) \/ StageRemove(p) PROVE SerialInv'
  BY <1>1, StagingIsSerial
<1>2. ASSUME NEW p \in Proc, StageStep(p) PROVE SerialInv'
  BY <1>2, ClearIsSerial, InsertIsSerial, ReturnIsSerial DEF StageStep
<1>3. ASSUME NEW p \in Proc, DiscardOne(p) \/ DiscardAll(p) PROVE SerialInv'
  BY <1>3, DiscardIsSerial
<1>4. ASSUME NEW p \in Proc, CommitSelect(p) PROVE SerialInv'
  BY <1>4, SelectIsSerial
<1>5. ASSUME NEW p \in Proc, DeviceApply(p) PROVE SerialInv'
  BY <1>5, ApplyIsSerial
<1>6. ASSUME NEW p \in Proc,
             \/ CommitStep(p) \/ DeviceReject(p) \/ DeviceSave(p) \/ Timeout(p) \/ Abort(p)
      PROVE SerialInv'
  BY <1>6, CommitIsSerial, MarkIsSerial DEF CommitStep
<1>7. ASSUME NEW p \in Proc, ProxyConfigure(p) PROVE SerialInv'
  BY <1>7, AroundIsSerial
<1>8. CASE StrayApply \/ ProxySave \/ Reboot \/ UNCHANGED vars
  BY <1>8, AroundIsSerial
<1> QED
  BY <1>1, <1>2, <1>3, <1>4, <1>5, <1>6, <1>7, <1>8 DEF Next

LEMMA SerialCorrect ==
  ASSUME OneHandler
  PROVE  Spec => [](TypeOK /\ SerialInv)
<1>1. Init => SerialInv
  <2> SUFFICES ASSUME Init PROVE SerialInv
    OBVIOUS
  <2>1. Pending = {} /\ \A l \in Leaf : agreed[l] = Unknown
    BY DEF Init, Pending, UnusedRow, NoGoal
  <2>2. \A p \in Proc : req[p].pc = "idle"
    BY DEF Init, Idle
  <2> QED
    BY <2>1, <2>2 DEF SerialInv, TrayInv, NoDuplicates, StagesWell, CommitsWell, Stages, Commits
<1>2. TypeOK /\ LinkInv /\ SerialInv /\ [Next]_vars => SerialInv'
  BY SerialStep
<1> QED
  BY <1>1, <1>2, LinkCorrect, PTL DEF Spec

\* Restaging replaces: no two rows of the tray write the same leaf.
THEOREM RestagingReplaces == OneHandler => (Spec => []NoDuplicates)
<1>1. SerialInv => NoDuplicates
  BY DEF SerialInv, TrayInv
<1>2. ASSUME OneHandler PROVE Spec => []NoDuplicates
  BY <1>1, <1>2, SerialCorrect, PTL
<1> QED
  BY <1>2

\* Applying the tray gives every value the operator last asked for, before, during and
\* after the commit that does so, whether or not its answers arrive.
THEOREM TrayGivesWhatWasAskedFor == OneHandler => (Spec => []TrayReachesDesired)
<1>1. TypeOK /\ SerialInv => TrayReachesDesired
  BY BringsIsAfter DEF SerialInv, TrayInv, TrayReachesDesired
<1>2. ASSUME OneHandler PROVE Spec => []TrayReachesDesired
  BY <1>1, <1>2, SerialCorrect, PTL
<1> QED
  BY <1>2

\* A commit counts the rows it has sent.
CountsWhatWasSent ==
  \A c \in CommitId : commits[c].change_count = Cardinality(commits[c].sent)

\* A commit that has marked its rows lists what it sent.
MarkedIsSent == \A c \in CommitId : Marked(c) => Linked(c) = commits[c].sent

\* The UPDATE lists the whole tray under a commit that listed nothing, and the tray is
\* what was sent.
LEMMA HistoryMark ==
  ASSUME TypeOK, LinkInv, MarkInv, SerialInv, MarkedIsSent,
         NEW p \in Proc, MarkCommitted(p)
  PROVE  MarkedIsSent'
<1> DEFINE k == req[p].commit
<1>1. UNCHANGED commits /\ req[p].pc = "mark"
  BY DEF MarkCommitted
<1>2. Linked(k) = {} /\ k \in CommitId /\ commits[k].sent = Ids(req[p].batch)
  BY <1>1 DEF MarkInv, MarksOnce, LinkInv, MarkKnowsItsCommit
<1>3. Ids(req[p].batch) = Pending
  BY <1>1, CopiesType DEF SerialInv, CommitsWell, Commits, Pending
<1>4. \A i \in RowId : IF rows[i].status = "pending"
                       THEN rows'[i].status = "committed" /\ rows'[i].commit = k
                       ELSE rows'[i] = rows[i]
  BY MarkedRows
<1>5. \A c \in CommitId : c # k => (Marked(c)' <=> Marked(c))
  BY MarkInvEnd
<1> HIDE DEF k
<1>6. ASSUME NEW c \in CommitId, c = k PROVE Linked(c)' = Pending
  <2>1. \A i \in RowId : ~(rows[i].status = "committed" /\ rows[i].commit = c)
    BY <1>2, <1>6 DEF Linked
  <2>2. \A i \in RowId :
          (rows'[i].status = "committed" /\ rows'[i].commit = c) <=> rows[i].status = "pending"
    BY <1>4, <1>6, <2>1
  <2> QED
    BY <2>2 DEF Linked, Pending
<1>7. ASSUME NEW c \in CommitId, c # k PROVE Linked(c)' = Linked(c)
  <2>1. \A i \in RowId :
          (rows'[i].status = "committed" /\ rows'[i].commit = c)
             <=> (rows[i].status = "committed" /\ rows[i].commit = c)
    BY <1>4, <1>7
  <2> QED
    BY <2>1 DEF Linked
<1>8. ASSUME NEW c \in CommitId, Marked(c)' PROVE Linked(c)' = commits[c].sent
  BY <1>2, <1>3, <1>5, <1>6, <1>7, <1>8 DEF MarkedIsSent
<1> QED
  BY <1>1, <1>8 DEF MarkedIsSent

\* Every step keeps the history true: a step that marks nothing leaves the markings
\* and what is listed, a new commit is not marked yet, a cut one never will be.
LEMMA HistoryIsTrueStep ==
  ASSUME TypeOK, LinkInv, MarkInv, SerialInv, MarkedIsSent, [Next]_vars
  PROVE  MarkedIsSent'
<1>1. ASSUME UNCHANGED commits, \A c \in CommitId : Linked(c)' = Linked(c),
             \A c \in CommitId : Marked(c)' => Marked(c)
      PROVE  MarkedIsSent'
  BY <1>1 DEF MarkedIsSent
<1>2. ASSUME NEW p \in Proc, InsertCommit(p) PROVE MarkedIsSent'
  <2>1. /\ UNCHANGED rows /\ nextCommit \in CommitId
        /\ commits' = [commits EXCEPT ![nextCommit] = CommitOf(req[p])]
    BY <1>2 DEF InsertCommit, TypeOK
  <2>2. \A c \in CommitId : Linked(c)' = Linked(c)
    BY <2>1 DEF Linked
  <2>3. \A c \in CommitId : c # nextCommit => commits'[c] = commits[c]
    BY <2>1 DEF TypeOK
  <2>4. \A c \in CommitId : IF c = nextCommit THEN ~Marked(c)' ELSE Marked(c)' <=> Marked(c)
    BY <1>2, MarkInvInsertCommit
  <2> QED
    BY <2>2, <2>3, <2>4 DEF MarkedIsSent
<1>3. ASSUME NEW p \in Proc, MarkCommitted(p) PROVE MarkedIsSent'
  BY <1>3, HistoryMark
<1>4. ASSUME NEW p \in Proc, Abort(p), req[p].pc = "mark" PROVE MarkedIsSent'
  <2>1. UNCHANGED <<rows, commits>>
    BY <1>4 DEF Abort
  <2>2. \A c \in CommitId : Linked(c)' = Linked(c)
    BY <2>1 DEF Linked
  <2>3. \A c \in CommitId : Marked(c)' => Marked(c)
    BY <1>4, MarkInvEnd
  <2> QED
    BY <1>1, <2>1, <2>2, <2>3
<1>5. CASE MarkersStay /\ Quiet
  <2>1. /\ UNCHANGED commits /\ \A c \in CommitId : Linked(c)' = Linked(c)
        /\ Pending' \subseteq Pending
    BY <1>5 DEF Quiet, RowsOnlyGo, Linked, Pending
  <2> QED
    BY <1>1, <1>5, <2>1, MarkInvKept
<1>6. ASSUME MarkersStay, NEW p \in Proc, StageInsert(p) PROVE MarkedIsSent'
  <2>1. PICK row : row.status = "pending" /\ rows' = [rows EXCEPT ![nextRow] = row]
    BY <1>6 DEF StageInsert
  <2>2. nextRow \in RowId /\ rows[nextRow].status = "unused" /\ UNCHANGED commits
    BY <1>6 DEF StageInsert, TypeOK, LinkInv, IdsAreFresh
  <2>3. /\ rows'[nextRow].status = "pending"
        /\ \A i \in RowId : i # nextRow => rows'[i] = rows[i]
    BY <2>1, <2>2 DEF TypeOK
  <2>4. Pending' = Pending \union {nextRow} /\ \A c \in CommitId : Linked(c)' = Linked(c)
    BY <2>2, <2>3 DEF Pending, Linked
  <2> QED
    BY <1>1, <1>6, <2>2, <2>4, MarkInvKept
<1>7. ASSUME MarkersStay, NEW p \in Proc, CommitSelect(p) PROVE MarkedIsSent'
  <2>1. UNCHANGED <<rows, commits>>
    BY <1>7 DEF CommitSelect, dbVars
  <2>2. Pending' = Pending /\ \A c \in CommitId : Linked(c)' = Linked(c)
    BY <2>1 DEF Pending, Linked
  <2> QED
    BY <1>1, <1>7, <2>1, <2>2, MarkInvKept
<1> QED
  BY <1>2, <1>3, <1>4, <1>5, <1>6, <1>7, StepShape, MarkersShape

\* A commit counts what it has sent.
LEMMA CountStep == TypeOK /\ CountsWhatWasSent /\ [Next]_vars => CountsWhatWasSent'
<1> SUFFICES ASSUME TypeOK, CountsWhatWasSent, [Next]_vars PROVE CountsWhatWasSent'
  OBVIOUS
<1>1. ASSUME NEW p \in Proc, InsertCommit(p) PROVE CountsWhatWasSent'
  <2>1. commits' = [commits EXCEPT ![nextCommit] = CommitOf(req[p])]
    BY <1>1 DEF InsertCommit
  <2>2. CommitOf(req[p]).change_count = Cardinality(CommitOf(req[p]).sent)
    BY DEF CommitOf
  <2> QED
    BY <2>1, <2>2 DEF CountsWhatWasSent, TypeOK
<1>2. ASSUME NEW p \in Proc, StageInsert(p) \/ CommitSelect(p) \/ MarkCommitted(p)
      PROVE CountsWhatWasSent'
  BY <1>2 DEF StageInsert, CommitSelect, MarkCommitted, dbVars, CountsWhatWasSent
<1>3. CASE Quiet
  BY <1>3 DEF Quiet, CountsWhatWasSent
<1> QED
  BY <1>1, <1>2, <1>3, StepShape

\* The history view lists under a commit that has marked its rows the changes it
\* applied, as many as it counts, and nothing under any other: under a failed commit,
\* and under the success that a handler leaves that is stopped before the UPDATE.
THEOREM HistoryIsWhatWasSent == OneHandler => (Spec => []HistoryShowsWhatWasSent)
<1>1. Init => MarkedIsSent /\ CountsWhatWasSent
  <2> SUFFICES ASSUME Init PROVE MarkedIsSent /\ CountsWhatWasSent
    OBVIOUS
  <2>1. MarkedIsSent
    BY DEF Init, MarkedIsSent, Marked, UnusedCommit
  <2>2. CountsWhatWasSent
    BY FS_EmptySet DEF Init, CountsWhatWasSent, UnusedCommit
  <2> QED
    BY <2>1, <2>2
<1>2. TypeOK /\ LinkInv /\ MarkInv /\ SerialInv /\ MarkedIsSent /\ [Next]_vars => MarkedIsSent'
  BY HistoryIsTrueStep
<1>3. TypeOK /\ CountsWhatWasSent /\ [Next]_vars => CountsWhatWasSent'
  BY CountStep
<1>4. MarkInv /\ MarkedIsSent /\ CountsWhatWasSent => HistoryShowsWhatWasSent
  BY DEF MarkInv, BatchLeavesTray, MarkedIsSent, CountsWhatWasSent, HistoryShowsWhatWasSent
<1>5. ASSUME OneHandler PROVE Spec => []HistoryShowsWhatWasSent
  BY <1>1, <1>2, <1>3, <1>4, <1>5, LinkCorrect, MarkCorrect, SerialCorrect, PTL DEF Spec
<1> QED
  BY <1>5
=============================================================================
