---------------------------- MODULE ChangeReview ----------------------------
(***************************************************************************)
(* The review and commit of staged configuration changes of ONE router:    *)
(* the rows of config_changes and config_commits that carry its id, the    *)
(* running and boot configuration of the device behind its HTTP API, and   *)
(* the HTTP handlers of the backend that are in flight.                    *)
(*                                                                         *)
(* Every handler runs its statements one by one, without a transaction,    *)
(* and awaits the device between them, so a handler is a request that goes *)
(* from one pc to the next and any other step may come in between.  One    *)
(* SQL statement is one atomic step.                                       *)
(*                                                                         *)
(* A device's configuration is a function from leaves to values, where     *)
(* Unset is a leaf that is not there.  A scope is what one restaging       *)
(* DELETE clears: the rows of section 'system' or 'firewall', the paths    *)
(* under one NIC without its vifs, one vif, one NAT rule.  A page is the   *)
(* set of scopes one form edits together (two for a 1-to-1 NAT mapping).   *)
(***************************************************************************)
EXTENDS Naturals, FiniteSets

CONSTANTS
  Proc,       \* request slots of the backend
  Scope,      \* what one restaging DELETE clears
  Pages,      \* sets of scopes that a form edits together
  Leaf,       \* leaves of the device's configuration
  ScopeOf,    \* the scope each leaf belongs to
  Value,      \* values a leaf can have, Unset among them
  Unset,      \* the value of a leaf that is not in the configuration
  Unknown,    \* history only: no value was asked for
  Tracked,    \* history only: leaves whose asked-for values are followed
  Watched,    \* history only: rows whose way into running and boot is followed
  MaxRow,     \* bound: rows ever inserted into config_changes
  MaxCommit,  \* bound: rows ever inserted into config_commits
  MaxStray    \* bound: /configure calls on the wire that nobody waits for

ASSUME DataAssumption ==
  /\ Scope # {}
  /\ ScopeOf \in [Leaf -> Scope]
  /\ Pages \subseteq SUBSET Scope
  /\ Unset \in Value
  /\ Unknown \notin Value
  /\ Tracked \subseteq Leaf

ASSUME BoundAssumption ==
  /\ MaxRow \in Nat
  /\ MaxCommit \in Nat
  /\ MaxStray \in Nat

VARIABLES
  rows,        \* config_changes: id -> row, ids in the order of created_at
  nextRow,     \* the id of the next INSERT into config_changes
  commits,     \* config_commits: id -> row
  nextCommit,  \* the id of the next INSERT into config_commits
  req,         \* the request in each slot: where its handler is and its locals
  running,     \* the device's running configuration
  boot,        \* the configuration it loads when it boots
  strays,      \* batches on the wire whose handler has stopped waiting
  inRunning,   \* history: Watched rows whose commands are part of running
  inBoot,      \* history: Watched rows whose commands are part of boot
  cut,         \* history: commits whose handler stopped before it marked rows
  agreed       \* history: per leaf, the value the operator last asked for

dbVars == <<rows, nextRow, commits, nextCommit, cut>>
deviceVars == <<running, boot, inRunning, inBoot>>
vars == <<dbVars, deviceVars, req, strays, agreed>>

RowId == 1..MaxRow
CommitId == 1..MaxCommit
None == 0                    \* commit_id IS NULL, no commit yet

Config == [Leaf -> Value]
LeavesOf(scopes) == {l \in Leaf : ScopeOf[l] \in scopes}

\* A set/delete command: a leaf that is set or deleted, or a node that is
\* deleted with all its leaves.
Command == [scope : Scope, targets : SUBSET Leaf, val : Value]

\* "gone" is the id of a row that was deleted.
RowStatus == {"unused", "pending", "committed", "gone"}
Row == [status : RowStatus, cmd : Command, commit : CommitId \union {None}]

\* What a handler keeps of a row it has selected: from then on the row may be
\* deleted, and the copy is still sent.
Copy == [id : RowId, cmd : Command]

\* sent and top are history: the rows of the batch, and the id the next row
\* had when the batch was selected; calm says that the device did not
\* reboot after it had applied the batch and before it saved.
CommitRow == [status : {"unused", "success", "failed"},
              change_count : Nat, saved : BOOLEAN,
              sent : SUBSET RowId, top : Nat, calm : BOOLEAN]

Stages == {"clear", "insert"}
Commits == {"sent", "applied", "rejected", "saving", "saved", "record", "mark"}
Pc == {"idle"} \union Stages \union Commits

Request ==
  [pc : Pc,
   clear : SUBSET Scope,              \* scopes still to clear
   todo : SUBSET Command,             \* commands still to insert
   goal : [Leaf -> Value \union {Unknown}],  \* history: what the form asks for
   batch : SUBSET Copy,               \* `pending`: the rows selected
   top : Nat,                         \* history: nextRow at that SELECT
   applied : BOOLEAN,                 \* `applied`
   saved : BOOLEAN,                   \* `saved`
   calm : BOOLEAN,                    \* history: no reboot between apply and save
   commit : CommitId \union {None}]   \* `commit_row.id`

NoGoal == [l \in Leaf |-> Unknown]

Idle == [pc |-> "idle", clear |-> {}, todo |-> {}, goal |-> NoGoal,
         batch |-> {}, top |-> 0, applied |-> FALSE, saved |-> FALSE,
         calm |-> TRUE, commit |-> None]

UnusedCmd == [scope |-> CHOOSE s \in Scope : TRUE, targets |-> {}, val |-> Unset]
UnusedRow == [status |-> "unused", cmd |-> UnusedCmd, commit |-> None]
GoneRow == [status |-> "gone", cmd |-> UnusedCmd, commit |-> None]
UnusedCommit == [status |-> "unused", change_count |-> 0, saved |-> FALSE,
                 sent |-> {}, top |-> 0, calm |-> TRUE]

Init ==
  /\ rows = [i \in RowId |-> UnusedRow]
  /\ nextRow = 1
  /\ commits = [c \in CommitId |-> UnusedCommit]
  /\ nextCommit = 1
  /\ req = [p \in Proc |-> Idle]
  /\ running \in Config
  /\ boot = running
  /\ strays = {}
  /\ inRunning = {}
  /\ inBoot = {}
  /\ cut = {}
  /\ agreed = NoGoal

-----------------------------------------------------------------------------
(***************************************************************************)
(* What the database and the device hold                                   *)
(***************************************************************************)

\* SELECT ... WHERE status = 'pending'
Pending == {i \in RowId : rows[i].status = "pending"}
Copies(ids) == {[id |-> i, cmd |-> rows[i].cmd] : i \in ids}
Ids(batch) == {x.id : x \in batch}

\* The rows the history view lists under commit c.
Linked(c) == {i \in RowId : rows[i].status = "committed" /\ rows[i].commit = c}

\* The configuration after the commands of a batch, in the order of created_at:
\* the last of the commands that write a leaf decides.
Writers(batch, l) == {x \in batch : l \in x.cmd.targets}
Last(batch) == CHOOSE x \in batch : \A y \in batch : y.id <= x.id
After(batch, config) ==
  [l \in Leaf |-> IF Writers(batch, l) = {} THEN config[l]
                  ELSE Last(Writers(batch, l)).cmd.val]

\* DELETE ... WHERE status = 'pending' AND <condition>: ids meet the condition.
DeletePending(ids) ==
  rows' = [i \in RowId |-> IF i \in ids /\ rows[i].status = "pending"
                           THEN GoneRow ELSE rows[i]]

\* History: the values asked for leaves that something outside the handlers, or
\* a deletion of rows, has changed since are no longer expected.
ForgetIn(goal, leaves) == [l \in Leaf |-> IF l \in leaves THEN Unknown ELSE goal[l]]
Forget(leaves) == ForgetIn(agreed, leaves)

\* History: what the device does to a leaf that the tray still holds a command
\* for is undone by the next commit, unless the batch of the commit under way has
\* landed already.  A form that is being staged covers the leaves it still has a
\* command for, and those of the pending rows that it will not clear.
LeavesOfBatch(batch) == UNION {x.cmd.targets : x \in batch}
Landed(r) == r.pc \in {"applied", "saving", "saved", "mark"} \/ (r.pc = "record" /\ r.applied)
InTray == IF \E p \in Proc : Landed(req[p]) THEN {} ELSE LeavesOfBatch(Copies(Pending))
Bound(r) ==
  LeavesOfBatch(Copies({i \in Pending : rows[i].cmd.scope \notin r.clear}))
    \union {l \in Leaf : \E cmd \in r.todo : l \in cmd.targets}

\* UPDATE ... SET status = 'committed', commit_id = c for the rows ids.
LinkRows(ids, c) ==
  rows' = [i \in RowId |-> IF i \in ids
                           THEN [rows[i] EXCEPT !.status = "committed", !.commit = c]
                           ELSE rows[i]]

\* The handler in slot p goes on with locals r, or is done.
Continue(p, r) == req' = [req EXCEPT ![p] = r]
Done(p) == Continue(p, Idle)

\* Enough ids are left for every INSERT that is under way and n more.
RowsLeft(n) ==
  nextRow + n + Cardinality(UNION {{p} \X req[p].todo : p \in Proc}) <= MaxRow + 1

CommitsLeft ==
  nextCommit + Cardinality({p \in Proc : req[p].pc \in Commits}) <= MaxCommit

-----------------------------------------------------------------------------
(***************************************************************************)
(* Staging.  The handler reads the live configuration, computes the diff,  *)
(* clears its own stale pending rows and inserts one row per command.      *)
(***************************************************************************)

SetLeaf(l, v) == [scope |-> ScopeOf[l], targets |-> {l}, val |-> v]
DeleteNode(s) == [scope |-> s, targets |-> LeavesOf({s}), val |-> Unset]

BeginStage(p, scopes, cmds, goal) ==
  /\ req[p].pc = "idle"
  /\ RowsLeft(Cardinality(cmds))
  /\ Continue(p, [Idle EXCEPT !.pc = "clear", !.clear = scopes, !.todo = cmds,
                              !.goal = ForgetIn(goal, Leaf \ Tracked)])
  /\ UNCHANGED <<dbVars, deviceVars, strays, agreed>>

\* Mutant: the diff is taken against the boot configuration.
StageAgainstBoot(p) ==
  \E page \in Pages : \E form \in [LeavesOf(page) -> Value] :
    BeginStage(p, page,
      {SetLeaf(l, form[l]) : l \in {x \in LeavesOf(page) : form[x] # boot[x]}},
      [l \in Leaf |-> IF l \in LeavesOf(page) THEN form[l] ELSE Unknown])

\* The whole form is submitted: one command for each leaf whose live value is
\* not the one asked for.
StageForm(p) ==
  \E page \in Pages : \E form \in [LeavesOf(page) -> Value] :
    BeginStage(p, page,
      {SetLeaf(l, form[l]) : l \in {x \in LeavesOf(page) : form[x] # running[x]}},
      [l \in Leaf |-> IF l \in LeavesOf(page) THEN form[l] ELSE Unknown])

\* A form that renames its object deletes the old node and builds the new one
\* as if nothing were there, whatever the device has at the new place.
StageMove(p) ==
  \E old, new \in Pages : \E form \in [LeavesOf(new) -> Value] :
    /\ old \intersect new = {}
    /\ BeginStage(p, old \union new,
         {DeleteNode(s) : s \in old}
           \union {SetLeaf(l, form[l]) : l \in {x \in LeavesOf(new) : form[x] # Unset}},
         [l \in Leaf |->
            IF l \in LeavesOf(old) THEN Unset
            ELSE IF l \in LeavesOf(new) /\ (form[l] # Unset \/ running[l] = Unset)
                 THEN form[l] ELSE Unknown])

\* Deletion of a VLAN, NAT rule or 1-to-1 mapping; the device is not asked.
StageRemove(p) ==
  \E page \in Pages :
    BeginStage(p, page, {DeleteNode(s) : s \in page},
      [l \in Leaf |-> IF l \in LeavesOf(page) THEN Unset ELSE Unknown])

\* Mutant: the handler does not replace what is pending.
StageKeepsOldRows(p) ==
  /\ req[p].pc = "clear"
  /\ Continue(p, [req[p] EXCEPT !.clear = {}, !.pc = "insert"])
  /\ UNCHANGED <<dbVars, deviceVars, strays, agreed>>

\* One DELETE per target.
StageClear(p) ==
  /\ req[p].pc = "clear"
  /\ \E s \in req[p].clear :
       /\ DeletePending({i \in RowId : rows[i].cmd.scope = s})
       /\ agreed' = Forget(LeavesOf({s}))
       /\ Continue(p, [req[p] EXCEPT !.clear = @ \ {s},
                          !.pc = IF req[p].clear = {s} THEN "insert" ELSE "clear"])
  /\ UNCHANGED <<nextRow, commits, nextCommit, cut, deviceVars, strays>>

\* One INSERT per command.  Which of the commands of a diff comes first is left
\* open: no two of them write the same leaf, and ConfigDiff shows that their order
\* matters only for the interface of a NAT rule, whose removal and set are one
\* command here.
StageInsert(p) ==
  /\ req[p].pc = "insert"
  /\ nextRow <= MaxRow
  /\ \E cmd \in req[p].todo :
       /\ rows' = [rows EXCEPT ![nextRow] =
                     [status |-> "pending", cmd |-> cmd, commit |-> None]]
       /\ Continue(p, [req[p] EXCEPT !.todo = @ \ {cmd}])
  /\ nextRow' = nextRow + 1
  /\ UNCHANGED <<commits, nextCommit, cut, deviceVars, strays, agreed>>

\* The inserted rows are returned: the operator now relies on the tray to bring
\* the form's values to the device.
StageReturn(p) ==
  /\ req[p].pc = "insert"
  /\ req[p].todo = {}
  /\ agreed' = [l \in Leaf |-> IF req[p].goal[l] # Unknown THEN req[p].goal[l]
                               ELSE agreed[l]]
  /\ Done(p)
  /\ UNCHANGED <<dbVars, deviceVars, strays>>

-----------------------------------------------------------------------------
(***************************************************************************)
(* The change tray                                                         *)
(***************************************************************************)

\* A row that is no longer pending is a 404.
DiscardOne(p) ==
  /\ req[p].pc = "idle"
  /\ \E i \in Pending :
       /\ DeletePending({i})
       /\ agreed' = Forget(rows[i].cmd.targets)
  /\ UNCHANGED <<nextRow, commits, nextCommit, cut, deviceVars, req, strays>>

DiscardAll(p) ==
  /\ req[p].pc = "idle"
  /\ Pending # {}
  /\ DeletePending(RowId)
  /\ agreed' = Forget(LeavesOfBatch(Copies(Pending)))
  /\ UNCHANGED <<nextRow, commits, nextCommit, cut, deviceVars, req, strays>>

-----------------------------------------------------------------------------
(***************************************************************************)
(* Commit                                                                  *)
(***************************************************************************)

\* Mutant: the SELECT returns the first row only.
CommitSelectFirst(p) ==
  /\ req[p].pc = "idle"
  /\ CommitsLeft
  /\ \E i \in Pending :
       /\ \A j \in Pending : i <= j
       /\ Continue(p, [Idle EXCEPT !.pc = "sent", !.batch = Copies({i}), !.top = nextRow])
  /\ UNCHANGED <<dbVars, deviceVars, strays, agreed>>

\* The pending rows are selected and sent to /configure as one batch.  With
\* no pending row the handler returns an error and nothing changes.
CommitSelect(p) ==
  /\ req[p].pc = "idle"
  /\ CommitsLeft
  /\ Pending # {}
  /\ Continue(p, [Idle EXCEPT !.pc = "sent", !.batch = Copies(Pending), !.top = nextRow])
  /\ UNCHANGED <<dbVars, deviceVars, strays, agreed>>

\* The device applies a batch as a whole or leaves its configuration alone.
DeviceApply(p) ==
  /\ req[p].pc = "sent"
  /\ running' = After(req[p].batch, running)
  /\ inRunning' = inRunning \union (Ids(req[p].batch) \intersect Watched)
  /\ Continue(p, [req[p] EXCEPT !.pc = "applied"])
  /\ UNCHANGED <<dbVars, boot, inBoot, strays, agreed>>

DeviceReject(p) ==
  /\ req[p].pc = "sent"
  /\ Continue(p, [req[p] EXCEPT !.pc = "rejected"])
  /\ UNCHANGED <<dbVars, deviceVars, strays, agreed>>

\* Mutant: the client has no timeout and waits until the device has answered.
NoTimeout(p) ==
  /\ req[p].pc \in {"applied", "rejected"}
  /\ Done(p)
  /\ UNCHANGED <<dbVars, deviceVars, strays, agreed>>

\* configure() returns an error: the call or its answer was lost, or took longer
\* than the client's timeout.  The handler returns at once.  A call that the
\* device has not answered may still reach it.
Timeout(p) ==
  /\ req[p].pc \in {"sent", "applied", "rejected"}
  /\ Done(p)
  /\ \/ UNCHANGED strays
     \/ /\ req[p].pc = "sent"
        /\ Cardinality(strays) < MaxStray
        /\ strays' = strays \union {req[p].batch}
  /\ UNCHANGED <<dbVars, deviceVars, agreed>>

\* The answer of /configure arrives: a success is saved to the boot
\* configuration, a failure is only recorded.
ConfigureAnswered(p) ==
  /\ \/ /\ req[p].pc = "applied"
        /\ Continue(p, [req[p] EXCEPT !.pc = "saving", !.applied = TRUE])
     \/ /\ req[p].pc = "rejected"
        /\ Continue(p, [req[p] EXCEPT !.pc = "record"])
  /\ UNCHANGED <<dbVars, deviceVars, strays, agreed>>

DeviceSave(p) ==
  /\ req[p].pc = "saving"
  /\ boot' = running
  /\ inBoot' = inRunning
  /\ Continue(p, [req[p] EXCEPT !.pc = "saved"])
  /\ UNCHANGED <<dbVars, running, inRunning, strays, agreed>>

\* Mutant: the commit counts as saved whatever the save call returns.
SaveAssumed(p) ==
  /\ req[p].pc \in {"saving", "saved"}
  /\ Continue(p, [req[p] EXCEPT !.pc = "record", !.saved = TRUE])
  /\ UNCHANGED <<dbVars, deviceVars, strays, agreed>>

\* The answer of the save; every error of it leaves saved = false.
SaveAnswered(p) ==
  /\ \/ /\ req[p].pc = "saved"
        /\ Continue(p, [req[p] EXCEPT !.pc = "record", !.saved = TRUE])
     \/ /\ req[p].pc \in {"saving", "saved"}
        /\ Continue(p, [req[p] EXCEPT !.pc = "record"])
  /\ UNCHANGED <<dbVars, deviceVars, strays, agreed>>

\* Mutant: an apply that was not saved gets a status of its own.
CommitOfUnsaved(r) ==
  [status |-> IF ~r.applied THEN "failed" ELSE IF r.saved THEN "success" ELSE "unsaved",
   change_count |-> Cardinality(Ids(r.batch)), saved |-> r.saved,
   sent |-> Ids(r.batch), top |-> r.top, calm |-> r.calm]

CommitOf(r) ==
  [status |-> IF r.applied THEN "success" ELSE "failed",
   change_count |-> Cardinality(Ids(r.batch)), saved |-> r.saved,
   sent |-> Ids(r.batch), top |-> r.top, calm |-> r.calm]

\* Mutant: the rows are marked whether or not the device applied them.
InsertCommitAndMark(p) ==
  /\ req[p].pc = "record"
  /\ nextCommit <= MaxCommit
  /\ commits' = [commits EXCEPT ![nextCommit] = CommitOf(req[p])]
  /\ nextCommit' = nextCommit + 1
  /\ Continue(p, [req[p] EXCEPT !.pc = "mark", !.commit = nextCommit])
  /\ UNCHANGED <<rows, nextRow, cut, deviceVars, strays, agreed>>

\* INSERT INTO config_commits.  After a failure the handler is done: the rows
\* stay pending.
InsertCommit(p) ==
  /\ req[p].pc = "record"
  /\ nextCommit <= MaxCommit
  /\ commits' = [commits EXCEPT ![nextCommit] = CommitOf(req[p])]
  /\ nextCommit' = nextCommit + 1
  /\ IF req[p].applied
     THEN Continue(p, [req[p] EXCEPT !.pc = "mark", !.commit = nextCommit])
     ELSE Done(p)
  /\ UNCHANGED <<rows, nextRow, cut, deviceVars, strays, agreed>>

\* Mutant: the UPDATE forgets the condition status = 'pending'.
MarkEveryRow(p) ==
  /\ req[p].pc = "mark"
  /\ LinkRows({i \in RowId : rows[i].status \in {"pending", "committed"}}, req[p].commit)
  /\ Done(p)
  /\ UNCHANGED <<nextRow, commits, nextCommit, cut, deviceVars, strays, agreed>>

\* Mutant: the UPDATE marks one row only.
MarkOneRow(p) ==
  /\ req[p].pc = "mark"
  /\ \E i \in Pending : LinkRows({i}, req[p].commit)
  /\ Done(p)
  /\ UNCHANGED <<nextRow, commits, nextCommit, cut, deviceVars, strays, agreed>>

\* UPDATE config_changes SET status = 'committed', commit_id = ... for every
\* row that is pending NOW, which need not be the rows that were sent.
MarkCommitted(p) ==
  /\ req[p].pc = "mark"
  /\ LinkRows(Pending, req[p].commit)
  /\ Done(p)
  /\ UNCHANGED <<nextRow, commits, nextCommit, cut, deviceVars, strays, agreed>>

-----------------------------------------------------------------------------
(***************************************************************************)
(* What happens around the handlers                                        *)
(***************************************************************************)

\* The handler stops between two of its steps: the client disconnects and the
\* future is dropped, a statement fails, or the backend goes down.  (While it
\* waits for /configure this is Timeout.)
Abort(p) ==
  /\ req[p].pc \in Stages \union {"saving", "saved", "record", "mark"}
  /\ cut' = IF req[p].pc = "mark" THEN cut \union {req[p].commit} ELSE cut
  /\ Done(p)
  /\ UNCHANGED <<rows, nextRow, commits, nextCommit, deviceVars, strays, agreed>>

\* A call that nobody waits for any more reaches the device.
StrayApply ==
  \E batch \in strays :
    /\ running' = After(batch, running)
    /\ inRunning' = inRunning \union (Ids(batch) \intersect Watched)
    /\ strays' = strays \ {batch}
    /\ agreed' = Forget(LeavesOfBatch(batch) \ InTray)
    /\ req' = [p \in Proc |->
         [req[p] EXCEPT !.goal = ForgetIn(@, LeavesOfBatch(batch) \ Bound(req[p]))]]
    /\ UNCHANGED <<dbVars, boot, inBoot>>

\* POST .../configure sends commands to the device past the tray.
ProxyConfigure(p) ==
  /\ req[p].pc = "idle"
  /\ \E l \in Leaf : \E v \in Value \ {running[l]} :
       /\ running' = [running EXCEPT ![l] = v]
       /\ agreed' = Forget({l} \ InTray)
  /\ UNCHANGED <<dbVars, boot, inRunning, inBoot, req, strays>>

\* POST .../save, also the save of a commit that timed out and arrives late.
ProxySave ==
  /\ boot # running \/ inBoot # inRunning
  /\ boot' = running
  /\ inBoot' = inRunning
  /\ UNCHANGED <<dbVars, running, inRunning, req, strays, agreed>>

\* The device restarts with its boot configuration.
Reboot ==
  /\ boot # running \/ inBoot # inRunning
  /\ running' = boot
  /\ inRunning' = inBoot
  /\ LET lost == {l \in Leaf : boot[l] # running[l]} IN
       /\ req' = [p \in Proc |->
                    [req[p] EXCEPT !.goal = ForgetIn(@, lost \ Bound(req[p])),
                                   !.calm = @ /\ req[p].pc \notin {"applied", "saving"}]]
       /\ agreed' = Forget(lost \ InTray)
  /\ UNCHANGED <<dbVars, boot, inBoot, strays>>

-----------------------------------------------------------------------------
StageStep(p) == StageClear(p) \/ StageInsert(p) \/ StageReturn(p)
CommitStep(p) == \/ ConfigureAnswered(p) \/ SaveAnswered(p)
                 \/ InsertCommit(p) \/ MarkCommitted(p)

Next ==
  \/ \E p \in Proc :
       \/ StageForm(p) \/ StageMove(p) \/ StageRemove(p) \/ StageStep(p)
       \/ DiscardOne(p) \/ DiscardAll(p)
       \/ CommitSelect(p) \/ CommitStep(p)
       \/ DeviceApply(p) \/ DeviceReject(p) \/ DeviceSave(p)
       \/ Timeout(p) \/ Abort(p)
       \/ ProxyConfigure(p)
  \/ StrayApply \/ ProxySave \/ Reboot

Spec == Init /\ [][Next]_vars

\* The runtime keeps polling a handler that can go on, and the client's timeout
\* ends every wait for the device.
Fairness == \A p \in Proc : WF_vars(StageStep(p) \/ CommitStep(p) \/ Timeout(p))
FairSpec == Spec /\ Fairness

-----------------------------------------------------------------------------
(***************************************************************************)
(* Properties                                                              *)
(***************************************************************************)

\* The tables, the requests and the device hold values of their types.
TypeOK ==
  /\ rows \in [RowId -> Row]
  /\ nextRow \in 1..(MaxRow + 1)
  /\ commits \in [CommitId -> CommitRow]
  /\ nextCommit \in 1..(MaxCommit + 1)
  /\ req \in [Proc -> Request]
  /\ running \in Config
  /\ boot \in Config
  /\ strays \subseteq SUBSET Copy
  /\ inRunning \subseteq RowId
  /\ inBoot \subseteq RowId
  /\ cut \subseteq CommitId \union {None}
  /\ agreed \in [Leaf -> Value \union {Unknown}]

\* A row the history shows under a commit was in the batch of that commit, or
\* was staged after the batch had been selected: whatever handlers overlap, no
\* row that was there at the SELECT is credited to a commit that did not send
\* it, and every commit a row is credited to was a success.
SentOrStagedLate ==
  \A i \in RowId : rows[i].status = "committed" =>
    /\ rows[i].commit \in CommitId
    /\ commits[rows[i].commit].status = "success"
    /\ \/ i \in commits[rows[i].commit].sent
       \/ i >= commits[rows[i].commit].top

\* The commits whose handler is about to mark rows, or has marked them.
Marking(c) == \E p \in Proc : req[p].pc = "mark" /\ req[p].commit = c
Marked(c) == commits[c].status = "success" /\ c \notin cut /\ ~Marking(c)

\* The marking is all or nothing: none of the rows a marked commit sent is pending
\* again, so a retry cannot send a part of it, and a success that is not marked
\* lists nothing: its whole batch is left to the tray and the other commits.
BatchLeavesTray ==
  \A c \in CommitId : IF Marked(c) THEN commits[c].sent \intersect Pending = {}
                       ELSE Linked(c) = {}

\* What a commit reports as saved is in the boot configuration for good, also
\* when other commits, discards and saves overlapped it - unless the device
\* restarted between the apply and the save.
SavedSurvivesReboot ==
  \A c \in CommitId : commits[c].saved /\ commits[c].calm => commits[c].sent \intersect Watched \subseteq inBoot

\* The history is append-only: no handler takes back or relinks a committed row
\* or rewrites a commit.
HistoryIsImmutable ==
  [][/\ \A i \in RowId : rows[i].status = "committed" => rows'[i] = rows[i]
     /\ \A c \in CommitId : commits[c].status # "unused" => commits'[c] = commits[c]]_vars

\* What makes the invariants above inductive.  Ids are taken in order; the batch
\* of a commit handler holds every row that was there at its SELECT and is still
\* pending; a handler that marks rows knows the commit it has inserted.
IdsAreFresh ==
  /\ \A i \in RowId : i >= nextRow => rows[i].status = "unused"
  /\ \A c \in CommitId : c >= nextCommit => commits[c].status = "unused"
BatchIsComplete ==
  \A p \in Proc : req[p].pc \in Commits =>
    /\ Ids(req[p].batch) \subseteq 1..(nextRow - 1)
    /\ req[p].top <= nextRow
    /\ \A i \in Pending : i < req[p].top => i \in Ids(req[p].batch)
MarkKnowsItsCommit ==
  \A p \in Proc : req[p].pc = "mark" =>
    /\ req[p].commit \in CommitId
    /\ LET c == commits[req[p].commit] IN
         c.status = "success" /\ c.sent = Ids(req[p].batch) /\ c.top = req[p].top
SentIsOld == \A c \in CommitId : commits[c].sent \subseteq 1..(nextRow - 1)
LinkInv == /\ IdsAreFresh /\ BatchIsComplete /\ MarkKnowsItsCommit /\ SentIsOld
           /\ SentOrStagedLate

\* The boot configuration lags behind the running one; a batch that the device
\* has applied, or saved, is there; `saved` is not set before the save.
SaveInv ==
  /\ inBoot \subseteq inRunning
  /\ \A p \in Proc : LET own == Ids(req[p].batch) \intersect Watched IN
       /\ req[p].pc \in {"applied", "saving"} /\ req[p].calm => own \subseteq inRunning
       /\ req[p].calm /\ (req[p].pc = "saved" \/ (req[p].pc = "record" /\ req[p].saved))
            => own \subseteq inBoot
       /\ req[p].pc \in {"sent", "applied", "rejected", "saving", "saved"} => ~req[p].saved
  /\ SavedSurvivesReboot

\* Seen without its handlers, the backend is the ledger: whatever overlaps, stops
\* half way or is sent twice, a row is staged once, leaves the tray for good, and
\* enters the history only together with the whole tray, under a commit that
\* listed nothing before.
Used == {i \in RowId : rows[i].status # "unused"}
LedgerHistory == [c \in CommitId |-> Linked(c)]
Ledger == INSTANCE ReviewLedger
            WITH LedgerRow <- RowId, LedgerCommit <- CommitId,
                 tray <- Pending, history <- LedgerHistory, used <- Used
ImplementsLedger == Ledger!LedgerSpec

\* What the refinement needs: a commit that is about to mark rows lists none yet,
\* and no other handler marks under the same commit.
MarksOnce ==
  /\ \A p \in Proc : req[p].pc = "mark" => Linked(req[p].commit) = {}
  /\ \A p, q \in Proc : req[p].pc = "mark" /\ req[q].pc = "mark" /\ p # q
                         => req[p].commit # req[q].commit

\* What BatchLeavesTray needs besides: a commit that was cut stays unmarked.
CutIsOver ==
  \A c \in cut : c \in CommitId /\ commits[c].status = "success" /\ ~Marking(c)
MarkInv == MarksOnce /\ CutIsOver /\ BatchLeavesTray

\* Every request comes to an end, whatever the device does with its calls.
RequestsEnd == \A p \in Proc : req[p].pc # "idle" ~> req[p].pc = "idle"

(***************************************************************************)
(* Properties of a backend that serves one request at a time               *)
(***************************************************************************)

\* Restaging replaces: no two pending rows write the same leaf.
NoDuplicates ==
  \A i, j \in Pending : i # j => rows[i].cmd.targets \intersect rows[j].cmd.targets = {}

\* The history view lists under a commit that marked its rows the changes it
\* applied, all of them, as many as its change_count says, and no others.  A failed
\* commit, and a success whose handler was stopped before it marked rows, list none.
HistoryShowsWhatWasSent ==
  \A c \in CommitId :
    IF Marked(c)
    THEN /\ Linked(c) = commits[c].sent
         /\ Cardinality(Linked(c)) = commits[c].change_count
    ELSE Linked(c) = {}

\* No commit of the history lists a change that it did not send.
HistoryShowsOnlyWhatWasSent ==
  \A c \in CommitId : Linked(c) \subseteq commits[c].sent

\* Applying the tray to the device gives every value the operator last asked
\* for, before, during and after the commit that does so, also when the answer
\* of the device is lost and the batch is sent again.  A late call or a restart of
\* the device takes nothing from that while the tray holds a command for the leaf;
\* only what is no longer in the tray, or has landed with it, can be overwritten.
TrayReachesDesired ==
  \A l \in Leaf : agreed[l] # Unknown => After(Copies(Pending), running)[l] = agreed[l]
=============================================================================
