----------------------------- MODULE Controller -----------------------------
(***************************************************************************)
(* The pages of the controller: the users with their access to sites, the  *)
(* sites, and the devices of a site, each a list that one operator edits   *)
(* in a dialog while requests are under way (users/page.tsx,               *)
(* sites/page.tsx) over the rows of a table of the database                *)
(* (routes/users.rs, routes/sites.rs, routes/routers.rs).                  *)
(*                                                                         *)
(* They differ in how a list follows the table: the users are read again,  *)
(* sites and devices take the row of the answer.  The order of the rows is *)
(* left out, and so are the secrets of a device, which no form is given:   *)
(* an empty one keeps (Fleet), as what the poller writes is in Fleet.      *)
(* Nobody else changes the rows: what somebody else has changed is not     *)
(* shown before the page is opened again, and a save takes it back.        *)
(***************************************************************************)
EXTENDS Naturals, FiniteSets

CONSTANTS
  Opened,     \* the pages that are modelled
  Row,        \* ids of rows
  FirstRows,  \* the rows there are at first
  Site,       \* sites that a user may have access to
  First,      \* what such a row of a page may hold
  NoRow,      \* there is no row with this id
  Slots,      \* bound: requests under way at a time
  MaxTyped,   \* bound: fields that are changed in a dialog
  Budget      \* bound: requests the operator causes and requests that fail, together

Kinds == {"users", "sites", "devices"}

\* VYOS_VERSIONS, and versions that only other clients of the API give a device: what
\* each of them starts with is all that is looked at.
Listed == {"1.3", "1.4", "1.5"}
Starts == [v \in Listed \union {"1.5-rolling", "2.0"} |-> IF v = "1.5-rolling" THEN "1.5" ELSE v]

\* The name, the description (of a user, the full name), and the version of a device.
Fields == {"name", "text", "version"}
Form == [name : {"n", "m"}, text : {"", "t"}, version : DOMAIN Starts]
Roles == {"viewer", "admin"}
Access == [Site -> Roles \union {"none"}]
Entry == [form : Form, access : Access]
Rows == [Row -> Entry \union {NoRow}]
NoAccess == [s \in Site |-> "none"]
Empty == [r \in Row |-> NoRow]

ASSUME ControllerAssumption ==
  /\ Opened \subseteq Kinds
  /\ FirstRows \subseteq Row /\ NoRow \notin Row /\ NoRow \notin Entry
  /\ Slots # {} /\ MaxTyped \in Nat /\ Budget \in Nat

VARIABLES
  kind,     \* the page that is modelled
  table,    \* the rows of the database; a user has its grants
  born,     \* ids that have been used: an id is drawn once
  list,     \* users, sites, devices: what the page shows
  loading,  \* loading
  broken,   \* the page has thrown while it rendered
  dialog,   \* the dialog that is open
  confirm,  \* confirmDelete
  reqs,     \* the requests under way
  left,     \* what is left of Budget
  quiet     \* history: since the page was opened no request has failed, none was sent
            \* that another one could get in the way of, and no dialog was opened on a
            \* list that was being read or a row being written

NewForm == [name |-> "n", text |-> "", version |-> "1.4"]

\* Mutant: the select starts with its default.
DefaultVersion(v) == "1.4"

\* The select of a version has the listed ones only.
normalizeVersion(v) == IF Starts[v] \in Listed THEN Starts[v] ELSE "1.4"

\* What the dialog of a row starts with; users and sites have no version.
EditForm(form) == [form EXCEPT !.version = normalizeVersion(@)]

\* What is used of the API of a device of this version.
Gates(v) ==
  (IF Starts[v] = "1.3" THEN {} ELSE {"reboot", "exists"})
    \union (IF Starts[v] = "1.5" THEN {"info", "merge", "commit_confirm"} ELSE {})

\* The slot of a request, and the dialog, when there is none.
Request(op, row, arg) ==
  [op |-> op, row |-> row, arg |-> arg, phase |-> "sent", data |-> NoRow,
   own |-> TRUE,       \* the dialog that has sent it is open
   dropped |-> FALSE]  \* the page that has sent it is gone
NoRequest == Request("none", NoRow, NoRow)

Dialog(mode, row, form, access) ==
  [mode |-> mode, row |-> row, form |-> form, access |-> access, touched |-> {},
   saving |-> FALSE, working |-> FALSE,
   stranded |-> FALSE]  \* history: a grant that it has added was lost
NoDialog == Dialog("none", NoRow, NewForm, NoAccess)

view == <<list, loading, broken, dialog, confirm>>
vars == <<kind, table, born, view, reqs, left, quiet>>

Has(r) == table[r] # NoRow
UnderWay == {i \in Slots : reqs[i] # NoRequest}
Editing == dialog.mode = "edit"

-----------------------------------------------------------------------------
(***************************************************************************)
(* Requests                                                                *)
(***************************************************************************)

Grants == {"add", "grant", "revoke"}

\* Whether two requests may not change places: a read and anything, and two that write
\* the same row, if they do not write the grants of two sites.
Conflict(p, q) ==
  \/ "load" \in {p.op, q.op}
  \/ /\ p.row = q.row /\ p.op # "create" /\ q.op # "create"
     /\ {p.op, q.op} \subseteq Grants => p.arg[1] = q.arg[1]

Put(slots, i, q) == [j \in Slots |-> IF j = i THEN q ELSE slots[j]]

\* Sends q in a slot that is free in `slots`, which is what reqs becomes otherwise.
SendIn(slots, q) ==
  /\ \E i \in Slots : slots[i] = NoRequest
  /\ reqs' = Put(slots, CHOOSE i \in Slots : slots[i] = NoRequest, q)
  /\ quiet' = (quiet /\ \A i \in Slots : slots[i] # NoRequest => ~Conflict(slots[i], q))

Spend == left > 0 /\ left' = left - 1

\* What the operator causes; SendIn alone is a page that reads again after an answer.
Send(q) ==
  /\ Spend
  /\ SendIn(reqs, q)
NoSend(slots) == reqs' = slots /\ UNCHANGED <<left, quiet>>

-----------------------------------------------------------------------------
(***************************************************************************)
(* The handlers                                                            *)
(***************************************************************************)

\* A name that is left empty in the form of a user is sent as null, and null keeps.
\* The description of a site or a device is cleared.
Merge(old, form) ==
  IF kind = "users" /\ form.text = "" THEN [form EXCEPT !.text = old.text] ELSE form

Done(i, data) == reqs' = [reqs EXCEPT ![i].phase = "done", ![i].data = data]

\* list_users reads the rows and then the grants; the other lists are one query.
ReadRows(i) ==
  /\ reqs[i].op = "load" /\ reqs[i].phase = "sent"
  /\ reqs' = [reqs EXCEPT ![i].phase = IF kind = "users" THEN "rows" ELSE "done",
                          ![i].data = table]
  /\ UNCHANGED table

\* The grants of a user that has been deleted meanwhile are gone.
ReadGrants(i) ==
  /\ reqs[i].op = "load" /\ reqs[i].phase = "rows"
  /\ LET read == reqs[i].data IN
       Done(i, [r \in Row |->
                  IF read[r] = NoRow THEN NoRow
                  ELSE [read[r] EXCEPT !.access = IF Has(r) THEN table[r].access ELSE NoAccess]])
  /\ UNCHANGED table

\* The name of a user and of a site is UNIQUE, that of a device is not.
NameTaken(i) ==
  kind # "devices" /\ \E r \in Row : Has(r) /\ r # reqs[i].row /\ table[r].form.name = reqs[i].arg.name

Insert(i) ==
  /\ reqs[i].op = "create" /\ reqs[i].phase = "sent" /\ ~NameTaken(i)
  /\ \E r \in Row :
       /\ r \notin born
       /\ born' = born \union {r}
       /\ table' = [table EXCEPT ![r] = [form |-> reqs[i].arg, access |-> NoAccess]]
       /\ reqs' = [reqs EXCEPT ![i].phase = "done", ![i].row = r, ![i].data = table'[r]]

\* UPDATE ... RETURNING: the answer is the row as it is then.
Update(i) ==
  /\ reqs[i].op = "patch" /\ reqs[i].phase = "sent" /\ Has(reqs[i].row) /\ ~NameTaken(i)
  /\ table' = [table EXCEPT ![reqs[i].row].form = Merge(@, reqs[i].arg)]
  /\ Done(i, table'[reqs[i].row])

Delete(i) ==
  /\ reqs[i].op = "delete" /\ reqs[i].phase = "sent" /\ Has(reqs[i].row)
  /\ table' = [table EXCEPT ![reqs[i].row] = NoRow]
  /\ Done(i, NoRow)

\* Mutant: a grant takes the place of those of the other sites (ON CONFLICT (user_id)).
GrantReplaces(a, s, role) == [NoAccess EXCEPT ![s] = role]

\* INSERT ... ON CONFLICT DO UPDATE, or DELETE, of the grant of one site.
GrantIn(a, s, role) == [a EXCEPT ![s] = role]

SetGrant(i) ==
  /\ reqs[i].op \in Grants /\ reqs[i].phase = "sent" /\ Has(reqs[i].row)
  /\ table' = [table EXCEPT ![reqs[i].row].access =
       IF reqs[i].op = "revoke" THEN [@ EXCEPT ![reqs[i].arg[1]] = "none"]
       ELSE GrantIn(@, reqs[i].arg[1], reqs[i].arg[2])]
  /\ Done(i, NoRow)

\* A name that is taken; a row that is gone: NotFound, or the foreign key of the grants.
\* DELETE of a grant that is gone is no error.
Refuse(i) ==
  /\ reqs[i].phase = "sent" /\ reqs[i].op # "load"
  /\ \/ reqs[i].op \in {"create", "patch"} /\ NameTaken(i)
     \/ reqs[i].op # "create" /\ ~Has(reqs[i].row)
  /\ reqs' = [reqs EXCEPT ![i].phase = IF reqs[i].op = "revoke" THEN "done" ELSE "refused"]
  /\ UNCHANGED table

Serve(i) ==
  /\ reqs[i] # NoRequest
  /\ \/ Insert(i)
     \/ /\ ReadRows(i) \/ ReadGrants(i) \/ Update(i) \/ Delete(i) \/ SetGrant(i) \/ Refuse(i)
        /\ UNCHANGED born
  /\ UNCHANGED <<kind, view, left, quiet>>

\* The server answers with an error and has changed nothing, or the request fails on its
\* way, before or after it was served.
Fault(i) ==
  /\ reqs[i] # NoRequest
  /\ Spend
  /\ \/ reqs[i].phase \in {"sent", "rows"} /\ reqs' = [reqs EXCEPT ![i].phase = "refused"]
     \/ reqs[i].phase # "lost" /\ reqs' = [reqs EXCEPT ![i].phase = "lost"]
  /\ quiet' = FALSE
  /\ UNCHANGED <<kind, table, born, view>>

-----------------------------------------------------------------------------
(***************************************************************************)
(* Answers                                                                 *)
(***************************************************************************)

Free(i) == Put(reqs, i, NoRequest)

\* The requests of a dialog that goes away are served nevertheless.
Disowned == [i \in Slots |-> IF i \in UnderWay THEN [reqs[i] EXCEPT !.own = FALSE] ELSE reqs[i]]
Closing(i) == Put(Disowned, i, NoRequest)
Arrives(i, ops) == reqs[i] # NoRequest /\ ~reqs[i].dropped /\ reqs[i].op \in ops
Answered(i) == reqs[i].phase \in {"done", "refused"}
Ended(i) == reqs[i].phase \in {"done", "refused", "lost"}

\* The list is what was read, whatever the status: an error is no list, and the page
\* throws when it renders it.  Nothing is set when the request itself has failed.
LoadArrives(i) ==
  /\ Arrives(i, {"load"}) /\ Ended(i)
  /\ list' = IF reqs[i].phase = "done" THEN reqs[i].data ELSE list
  /\ broken' = (broken \/ reqs[i].phase = "refused")
  /\ loading' = FALSE
  /\ NoSend(Free(i))
  /\ UNCHANGED <<kind, table, born, dialog, confirm>>

\* A save that fails leaves its dialog open with an error.
SaveFails(i) ==
  /\ Arrives(i, {"create", "patch"})
  /\ reqs[i].phase \in {"refused", "lost"}
  /\ dialog' = IF reqs[i].own THEN [dialog EXCEPT !.saving = FALSE] ELSE dialog
  /\ NoSend(Free(i))
  /\ UNCHANGED <<kind, table, born, list, loading, broken, confirm>>

\* Mutant: the row of the answer is not put into the list.
ListKept(i) == list

\* What a save does to the list of sites or devices.
ListAfter(i) == [list EXCEPT ![reqs[i].row] = IF @ = NoRow /\ reqs[i].op = "patch" THEN NoRow
                                              ELSE reqs[i].data]

\* The dialog that is open is closed, which need not be the one that has saved.
Created(i) ==
  /\ Arrives(i, {"create"}) /\ reqs[i].phase = "done"
  /\ dialog' = IF Editing THEN dialog ELSE NoDialog
  /\ LET rest == IF Editing THEN Free(i) ELSE Closing(i) IN
       \/ /\ kind = "users"
          /\ SendIn(rest, Request("load", NoRow, NoRow)) /\ UNCHANGED left
          /\ UNCHANGED list
       \/ /\ kind # "users"
          /\ NoSend(rest)
          /\ list' = ListAfter(i)
  /\ UNCHANGED <<kind, table, born, loading, broken, confirm>>

\* Mutant: the dialog of a user stays in its saving state after a save.
StaysSaving(i) == dialog

AfterSave(i) == IF reqs[i].own THEN [dialog EXCEPT !.saving = FALSE] ELSE dialog

\* The dialog of a user stays open and the users are read again; the others close the
\* dialog and replace the row.
Saved(i) ==
  /\ Arrives(i, {"patch"}) /\ reqs[i].phase = "done"
  /\ \/ /\ kind = "users"
        /\ SendIn(Free(i), Request("load", NoRow, NoRow)) /\ UNCHANGED left
        /\ dialog' = AfterSave(i)
        /\ UNCHANGED list
     \/ /\ kind # "users"
        /\ NoSend(IF Editing THEN Closing(i) ELSE Free(i))
        /\ dialog' = IF Editing THEN NoDialog ELSE dialog
        /\ list' = ListAfter(i)
  /\ UNCHANGED <<kind, table, born, loading, broken, confirm>>

\* The row leaves the list, whatever the status.
Deleted(i) ==
  /\ Arrives(i, {"delete"}) /\ Ended(i)
  /\ \/ /\ Answered(i)
        /\ list' = [list EXCEPT ![reqs[i].row] = NoRow]
        /\ confirm' = NoRow
     \/ ~Answered(i) /\ UNCHANGED <<list, confirm>>
  /\ NoSend(Free(i))
  /\ UNCHANGED <<kind, table, born, loading, broken, dialog>>

\* An added site is shown when its request is answered, whatever the status.  addAccess
\* has no finally: when its request is lost, accessWorking stays set.
Granted(i) ==
  /\ Arrives(i, {"add"}) /\ Ended(i)
  /\ dialog' = IF ~reqs[i].own THEN dialog
               ELSE IF Answered(i)
               THEN [dialog EXCEPT !.working = FALSE, !.access[reqs[i].arg[1]] = reqs[i].arg[2]]
               ELSE [dialog EXCEPT !.stranded = TRUE]
  /\ NoSend(Free(i))
  /\ UNCHANGED <<kind, table, born, list, loading, broken, confirm>>

\* The others are shown before they are answered.
GrantAnswered(i) ==
  /\ Arrives(i, {"grant", "revoke"})
  /\ Ended(i)
  /\ NoSend(Free(i))
  /\ UNCHANGED <<kind, table, born, view>>

\* The page that has sent it is gone.
Dropped(i) ==
  /\ reqs[i] # NoRequest /\ reqs[i].dropped /\ Ended(i)
  /\ NoSend(Free(i))
  /\ UNCHANGED <<kind, table, born, view>>

Answer(i) ==
  \/ LoadArrives(i) \/ SaveFails(i) \/ Created(i) \/ Saved(i) \/ Deleted(i)
  \/ Granted(i) \/ GrantAnswered(i) \/ Dropped(i)

-----------------------------------------------------------------------------
(***************************************************************************)
(* The operator                                                            *)
(***************************************************************************)

\* The requests of the page go with it, and are served nevertheless.
DroppedAll ==
  [i \in Slots |-> IF i \in UnderWay
                   THEN [reqs[i] EXCEPT !.own = FALSE, !.dropped = TRUE] ELSE reqs[i]]

\* The page is opened again, or the devices of the site are folded and unfolded.
Reopen ==
  /\ Spend
  /\ list' = Empty /\ loading' = TRUE /\ broken' = FALSE
  /\ dialog' = NoDialog /\ confirm' = NoRow
  /\ \E i \in Slots : reqs[i] = NoRequest
  /\ reqs' = Put(DroppedAll, CHOOSE i \in Slots : reqs[i] = NoRequest,
                 Request("load", NoRow, NoRow))
  /\ quiet' = (UnderWay = {})
  /\ UNCHANGED <<kind, table, born>>

Shown == ~broken /\ dialog = NoDialog
DialogShown == ~broken /\ dialog # NoDialog

OpenAdd ==
  /\ Shown
  /\ kind = "devices" => ~loading
  /\ dialog' = Dialog("add", NoRow, NewForm, NoAccess)
  /\ UNCHANGED <<kind, table, born, list, loading, broken, confirm, reqs, left, quiet>>

\* The dialog starts with the row of the list, but for its version.
OpenEdit(r) ==
  /\ Shown /\ ~loading /\ list[r] # NoRow
  /\ dialog' = Dialog("edit", r, EditForm(list[r].form), list[r].access)
  /\ confirm' = NoRow
  /\ quiet' = (quiet /\ \A i \in UnderWay : reqs[i].op # "load" /\ reqs[i].row # r)
  /\ UNCHANGED <<kind, table, born, list, loading, broken, reqs, left>>

Type(f, v) ==
  /\ DialogShown /\ dialog.form[f] # v
  /\ Cardinality(dialog.touched) < MaxTyped
  /\ dialog' = [dialog EXCEPT !.form[f] = v, !.touched = @ \union {f}]
  /\ UNCHANGED <<kind, table, born, list, loading, broken, confirm, reqs, left, quiet>>

\* Cancel, or Done in the dialog of a user: the users are read again.
CloseDialog ==
  /\ DialogShown
  /\ dialog' = NoDialog
  /\ IF kind = "users" /\ Editing
     THEN /\ Spend
          /\ SendIn(Disowned, Request("load", NoRow, NoRow))
     ELSE NoSend(Disowned)
  /\ UNCHANGED <<kind, table, born, list, loading, broken, confirm>>

Submit ==
  /\ DialogShown /\ ~dialog.saving
  /\ dialog' = [dialog EXCEPT !.saving = TRUE]
  /\ Send(Request(IF Editing THEN "patch" ELSE "create", dialog.row, dialog.form))
  /\ UNCHANGED <<kind, table, born, list, loading, broken, confirm>>

\* Mutant: the dialog of a site has the access section too.
EditsAnyRow == DialogShown /\ Editing

EditsUser == kind = "users" /\ DialogShown /\ Editing

addAccess(s, role) ==
  /\ EditsUser /\ ~dialog.working
  /\ dialog.access[s] = "none"
  /\ dialog' = [dialog EXCEPT !.working = TRUE]
  /\ Send(Request("add", dialog.row, <<s, role>>))
  /\ UNCHANGED <<kind, table, born, list, loading, broken, confirm>>

changeRole(s, role) ==
  /\ EditsUser
  /\ dialog.access[s] \notin {"none", role}
  /\ dialog' = [dialog EXCEPT !.access[s] = role]
  /\ Send(Request("grant", dialog.row, <<s, role>>))
  /\ UNCHANGED <<kind, table, born, list, loading, broken, confirm>>

removeAccess(s) ==
  /\ EditsUser
  /\ dialog.access[s] # "none"
  /\ dialog' = [dialog EXCEPT !.access[s] = "none"]
  /\ Send(Request("revoke", dialog.row, <<s, "none">>))
  /\ UNCHANGED <<kind, table, born, list, loading, broken, confirm>>

AskDelete(r) ==
  /\ Shown /\ ~loading /\ list[r] # NoRow /\ confirm # r
  /\ confirm' = r
  /\ UNCHANGED <<kind, table, born, list, loading, broken, dialog, reqs, left, quiet>>

\* A click anywhere else on the page.
ClickAway ==
  /\ Shown /\ confirm # NoRow
  /\ confirm' = NoRow
  /\ UNCHANGED <<kind, table, born, list, loading, broken, dialog, reqs, left, quiet>>

\* Confirm stays on the screen until the answer.
ConfirmDelete ==
  /\ Shown /\ confirm # NoRow /\ list[confirm] # NoRow
  /\ Send(Request("delete", confirm, NoRow))
  /\ UNCHANGED <<kind, table, born, view>>

Operator ==
  \/ Reopen \/ OpenAdd \/ CloseDialog \/ Submit \/ ClickAway \/ ConfirmDelete
  \/ \E r \in Row : OpenEdit(r) \/ AskDelete(r)
  \/ \E v \in {"n", "m"} : Type("name", v)
  \/ \E v \in {"", "t"} : Type("text", v)
  \/ \E v \in Listed : kind = "devices" /\ Type("version", v)
  \/ \E s \in Site : removeAccess(s) \/ \E role \in Roles : addAccess(s, role) \/ changeRole(s, role)

Init ==
  /\ kind \in Opened
  /\ \E first \in [FirstRows -> Entry] :
       /\ table = [r \in Row |-> IF r \in FirstRows THEN first[r] ELSE NoRow]
       /\ \A r \in FirstRows :
            /\ [first[r].form EXCEPT !.version = "1.4"] = NewForm
            /\ first[r] \in First[kind]
            /\ kind # "devices" => first[r].form = NewForm
            /\ kind # "users" => first[r].access = NoAccess
  /\ born = FirstRows
  /\ list = Empty /\ loading = TRUE /\ broken = FALSE
  /\ dialog = NoDialog /\ confirm = NoRow
  /\ reqs = Put([j \in Slots |-> NoRequest], CHOOSE i \in Slots : TRUE,
                Request("load", NoRow, NoRow))
  /\ left = Budget
  /\ quiet = TRUE

Next ==
  \/ Operator
  \/ \E i \in Slots : Serve(i) \/ Answer(i) \/ Fault(i)

Spec == Init /\ [][Next]_vars

-----------------------------------------------------------------------------
(***************************************************************************)
(* Properties                                                              *)
(***************************************************************************)

Dialogs == [mode : {"add", "edit"}, row : Row \union {NoRow}, form : Form, access : Access,
            touched : SUBSET Fields, saving : BOOLEAN, working : BOOLEAN, stranded : BOOLEAN]
Ops == {"load", "create", "patch", "delete"} \union Grants
Phases == {"sent", "rows", "done", "refused", "lost"}
Writes(i, r) == reqs[i].op # "load" /\ reqs[i].row = r

\* The page, its dialog and the requests have their types: only a user has access to
\* sites, and only one dialog waits for an answer at a time.
TypeOK ==
  /\ kind \in Kinds /\ table \in Rows /\ list \in Rows
  /\ {r \in Row : Has(r) \/ list[r] # NoRow} \subseteq born /\ born \subseteq Row
  /\ loading \in BOOLEAN /\ broken \in BOOLEAN /\ quiet \in BOOLEAN
  /\ confirm \in Row \union {NoRow}
  /\ dialog \in Dialogs \union {NoDialog}
  /\ \A i \in UnderWay : reqs[i].op \in Ops /\ reqs[i].phase \in Phases
  /\ left \in 0..Budget
  /\ kind # "users" => \A r \in Row : Has(r) => table[r].access = NoAccess

\* When nothing is under way and no dialog is open, the page shows the rows of the
\* database, whether it reads them again or puts answers into its list: requests for
\* different rows may be answered in any order.
ListIsTrue == quiet /\ UnderWay = {} /\ dialog = NoDialog => list = table

\* What the operator has not typed is in the form as it is in the database, so that a
\* save takes back no change that was saved before.  A version that is not listed is not
\* kept, but one that is is, and what is used of the API of the device does not change.
FormIsCurrent ==
  quiet /\ Editing /\ (\A i \in UnderWay : ~Writes(i, dialog.row)) =>
    /\ Has(dialog.row)
    /\ LET row == table[dialog.row].form IN
       \A f \in Fields \ dialog.touched :
         IF f = "version" /\ row.version \notin Listed
         THEN Gates(dialog.form.version) = Gates(row.version)
         ELSE dialog.form[f] = row[f]

\* The dialog shows the grants of a user as they are, site by site: a grant that was
\* removed is not there, and one that is not there was not granted.
AccessAsShown ==
  quiet /\ Editing =>
    \A s \in Site :
      (\A i \in UnderWay : Writes(i, dialog.row) =>
                             (reqs[i].op \in Grants /\ reqs[i].arg[1] # s) \/ reqs[i].op = "patch")
      => dialog.access[s] = table[dialog.row].access[s]

\* Nothing waits for an answer that will not come: while the page loads a list is under
\* way, while Save is disabled its save is, and while Add is, its grant, unless a grant
\* that this dialog has added was lost: then Add stays disabled until it is closed.
NothingHangs ==
  /\ loading => \E i \in UnderWay : ~reqs[i].dropped /\ reqs[i].op = "load"
  /\ dialog # NoDialog =>
       /\ dialog.saving => \E i \in UnderWay : reqs[i].own /\ reqs[i].op \in {"create", "patch"}
       /\ dialog.working /\ ~dialog.stranded => \E i \in UnderWay : reqs[i].own /\ reqs[i].op = "add"
=============================================================================
