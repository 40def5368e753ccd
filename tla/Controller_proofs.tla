------------------------- MODULE Controller_proofs -------------------------
(***************************************************************************)
(* Proofs about Controller: for every number of rows, sites and requests   *)
(* under way, every order of their answers and every failure, nothing      *)
(* waits for an answer that will not come; and while no two requests got   *)
(* in each other's way, lists and dialogs agree with the database.         *)
(***************************************************************************)
EXTENDS Controller, TLAPS

-----------------------------------------------------------------------------
(***************************************************************************)
(* The invariant                                                           *)
(***************************************************************************)

Requests ==
  [op : Ops, row : Row \union {NoRow}, phase : Phases, own : BOOLEAN, dropped : BOOLEAN,
   arg : Form \union (Site \X (Roles \union {"none"})) \union {NoRow},
   data : Rows \union Entry \union {NoRow}]

\* Only ids that have been used have a row.
Known(rows, b) == \A r \in Row : rows[r] # NoRow => r \in b

\* A request carries what its kind needs, and its answer what its handler gives; b and k
\* are born and kind.
RequestOK(q, b, k) ==
  /\ q \in Requests
  /\ q.dropped => ~q.own
  /\ q.phase = "rows" => q.op = "load"
  /\ q.row # NoRow => q.row \in b
  /\ q.op \in {"create", "patch"} => q.arg \in Form
  /\ q.op \in {"create", "patch"} /\ q.phase = "done" => q.row \in Row /\ q.data \in Entry
  /\ q.op \in {"patch", "delete"} \union Grants => q.row \in Row
  /\ q.op \in Grants => k = "users" /\ q.arg \in Site \X (Roles \union {"none"})
  /\ q.op = "load" /\ q.phase \in {"rows", "done"} => q.data \in Rows /\ Known(q.data, b)

\* The dialog d that is open is the one that has sent the requests of its own.
OwnOK(q, d) ==
  q.own => /\ q.op = "create" => d.mode = "add"
           /\ q.op \in {"patch"} \union Grants => d.mode = "edit" /\ q.row = d.row

SlotOK(q, b, k, d) == q = NoRequest \/ (RequestOK(q, b, k) /\ OwnOK(q, d))

SlotsOK(slots, b, k, d) ==
  /\ slots = [i \in Slots |-> slots[i]]
  /\ \A i \in Slots : SlotOK(slots[i], b, k, d)

RequestsInv == SlotsOK(reqs, born, kind, dialog)

\* A dialog that edits has a row whose id has been used.
RowOK(d, b) == IF d.mode = "edit" THEN d.row \in b ELSE d.row = NoRow

PageInv ==
  /\ kind \in Kinds /\ table \in Rows /\ list \in Rows
  /\ born \subseteq Row /\ Known(table, born) /\ Known(list, born)
  /\ loading \in BOOLEAN /\ broken \in BOOLEAN /\ quiet \in BOOLEAN
  /\ confirm \in Row \union {NoRow}
  /\ dialog \in Dialogs \union {NoDialog}
  /\ RowOK(dialog, born)
  /\ left \in 0..Budget
  /\ kind # "users" => \A r \in Row : Has(r) => table[r].access = NoAccess

\* What the page waits for is under way.
Loads(slots) == \E i \in Slots : ~slots[i].dropped /\ slots[i].op = "load"
Saves(slots) == \E i \in Slots : slots[i].own /\ slots[i].op \in {"create", "patch"}
Adds(slots) == \E i \in Slots : slots[i].own /\ slots[i].op = "add"

WaitInv ==
  /\ loading => Loads(reqs)
  /\ dialog.saving => Saves(reqs)
  /\ dialog.working => dialog.stranded \/ Adds(reqs)

TypeInv == RequestsInv /\ PageInv /\ WaitInv

-----------------------------------------------------------------------------
(***************************************************************************)
(* Requests                                                                *)
(***************************************************************************)

LEMMA Nothing ==
  /\ NoRequest.op = "none" /\ NoRequest.phase = "sent" /\ ~NoRequest.dropped
  /\ NoDialog.mode = "none" /\ ~NoDialog.saving /\ ~NoDialog.working
  /\ Ops = {"load", "create", "patch", "delete", "add", "grant", "revoke"}
  /\ Grants = {"add", "grant", "revoke"}
  /\ Phases = {"sent", "rows", "done", "refused", "lost"}
BY DEF NoRequest, Request, NoDialog, Dialog, Ops, Grants, Phases

\* A slot is in use when its request is of some kind.
LEMMA SlotFacts ==
  ASSUME NEW q, NEW b, NEW k, NEW d, SlotOK(q, b, k, d)
  PROVE  /\ q = NoRequest <=> q.op = "none"
         /\ q # NoRequest => q \in Requests /\ RequestOK(q, b, k) /\ OwnOK(q, d)
<1>1. q # NoRequest => q \in Requests /\ RequestOK(q, b, k) /\ OwnOK(q, d)
  BY DEF SlotOK, RequestOK
<1>2. q \in Requests => q.op # "none"
  BY Nothing DEF Requests
<1> QED
  BY <1>1, <1>2, Nothing

\* The new fields of a request that has been served, disowned or dropped.
LEMMA RequestFields ==
  ASSUME NEW q \in Requests, NEW p \in Phases, NEW r \in Row \union {NoRow},
         NEW x \in Rows \union Entry \union {NoRow}
  PROVE  /\ [q EXCEPT !.phase = p] \in Requests
         /\ [q EXCEPT !.own = FALSE] \in Requests
         /\ [q EXCEPT !.own = FALSE, !.dropped = TRUE] \in Requests
         /\ [q EXCEPT !.phase = p, !.data = x] \in Requests
         /\ [q EXCEPT !.phase = p, !.row = r, !.data = x] \in Requests
BY DEF Requests

Disown(q) == IF q = NoRequest THEN q ELSE [q EXCEPT !.own = FALSE]
Drop(q) == IF q = NoRequest THEN q ELSE [q EXCEPT !.own = FALSE, !.dropped = TRUE]

LEMMA DisownedIs ==
  /\ Disowned = [i \in Slots |-> Disown(reqs[i])]
  /\ DroppedAll = [i \in Slots |-> Drop(reqs[i])]
BY DEF Disowned, DroppedAll, Disown, Drop, UnderWay

\* What is left of a request when its dialog or its page is gone.
LEMMA DisownFacts ==
  ASSUME NEW q, NEW b, NEW k, NEW d, SlotOK(q, b, k, d)
  PROVE  /\ Disown(q).op = q.op /\ Disown(q).row = q.row /\ Disown(q).arg = q.arg
         /\ Disown(q).phase = q.phase /\ Disown(q).data = q.data /\ Disown(q).dropped = q.dropped
         /\ Disown(q) = NoRequest <=> q = NoRequest
         /\ \A e : SlotOK(Disown(q), b, k, e)
<1>1. CASE q = NoRequest
  BY <1>1 DEF Disown, SlotOK
<1>2. CASE q # NoRequest
  <2> DEFINE p == [q EXCEPT !.own = FALSE]
  <2>1. q \in Requests /\ RequestOK(q, b, k) /\ Disown(q) = p
    BY <1>2, SlotFacts DEF Disown
  <2>2. /\ p \in Requests /\ p.op = q.op /\ p.row = q.row /\ p.arg = q.arg
        /\ p.phase = q.phase /\ p.data = q.data /\ p.dropped = q.dropped /\ p.own = FALSE
    BY <2>1 DEF Requests
  <2> HIDE DEF p
  <2>3. RequestOK(p, b, k)
    BY <2>1, <2>2 DEF RequestOK
  <2>4. \A e : OwnOK(p, e)
    BY <2>2 DEF OwnOK
  <2>5. p # NoRequest
    BY <2>2, Nothing DEF Requests
  <2> QED
    BY <1>2, <2>1, <2>2, <2>3, <2>4, <2>5 DEF SlotOK
<1> QED
  BY <1>1, <1>2

LEMMA DropFacts ==
  ASSUME NEW q, NEW b, NEW k, NEW d, SlotOK(q, b, k, d)
  PROVE  /\ Drop(q) = NoRequest <=> q = NoRequest
         /\ \A e : SlotOK(Drop(q), b, k, e)
<1>1. CASE q = NoRequest
  BY <1>1 DEF Drop, SlotOK
<1>2. CASE q # NoRequest
  <2> DEFINE p == [q EXCEPT !.own = FALSE, !.dropped = TRUE]
  <2>1. q \in Requests /\ RequestOK(q, b, k) /\ Drop(q) = p
    BY <1>2, SlotFacts DEF Drop
  <2>2. /\ p \in Requests /\ p.op = q.op /\ p.row = q.row /\ p.arg = q.arg
        /\ p.phase = q.phase /\ p.data = q.data /\ p.own = FALSE
    BY <2>1 DEF Requests
  <2> HIDE DEF p
  <2>3. RequestOK(p, b, k)
    BY <2>1, <2>2 DEF RequestOK
  <2>4. \A e : OwnOK(p, e)
    BY <2>2 DEF OwnOK
  <2>5. p # NoRequest
    BY <2>2, Nothing DEF Requests
  <2> QED
    BY <1>2, <2>1, <2>3, <2>4, <2>5 DEF SlotOK
<1> QED
  BY <1>1, <1>2

\* A request that nothing happens to stays as it should be: more ids are in use, a
\* failure is not forgotten, and the dialog is the same or there was none.
LEMMA SlotStays ==
  ASSUME NEW q, NEW b, NEW k, NEW d, SlotOK(q, b, k, d),
         NEW b2, NEW d2, b \subseteq b2,
         (d2.mode = d.mode /\ d2.row = d.row) \/ d.mode = "none"
  PROVE  SlotOK(q, b2, k, d2)
<1>1. CASE q = NoRequest
  BY <1>1 DEF SlotOK
<1>2. CASE q # NoRequest
  <2>1. RequestOK(q, b, k) /\ OwnOK(q, d)
    BY <1>2 DEF SlotOK
  <2>2. RequestOK(q, b2, k)
    BY <2>1 DEF RequestOK, Known
  <2>3. OwnOK(q, d2)
    BY <2>1, Nothing DEF OwnOK
  <2> QED
    BY <2>2, <2>3 DEF SlotOK
<1> QED
  BY <1>1, <1>2

\* A request goes into a free slot.
LEMMA SendInIs ==
  ASSUME NEW slots, NEW q, SendIn(slots, q)
  PROVE  /\ \E k \in Slots : /\ slots[k] = NoRequest
                             /\ reqs' = [j \in Slots |-> IF j = k THEN q ELSE slots[j]]
         /\ quiet' = (quiet /\ \A i \in Slots : slots[i] # NoRequest => ~Conflict(slots[i], q))
<1>1. slots[CHOOSE i \in Slots : slots[i] = NoRequest] = NoRequest
      /\ (CHOOSE i \in Slots : slots[i] = NoRequest) \in Slots
  BY DEF SendIn
<1> QED
  BY <1>1 DEF SendIn, Put

\* A new request is as it should be.
LEMMA NewRequest ==
  ASSUME NEW op \in Ops, NEW row \in Row \union {NoRow}, NEW b, NEW k, NEW d,
         NEW arg \in Form \union (Site \X (Roles \union {"none"})) \union {NoRow},
         row # NoRow => row \in b,
         op \in {"create", "patch"} => arg \in Form,
         op \in {"patch", "delete"} \union Grants => row \in Row,
         op \in Grants => k = "users" /\ arg \in Site \X (Roles \union {"none"}),
         op = "create" => d.mode = "add",
         op \in {"patch"} \union Grants => d.mode = "edit" /\ row = d.row
  PROVE  /\ SlotOK(Request(op, row, arg), b, k, d)
         /\ Request(op, row, arg) # NoRequest
         /\ Request(op, row, arg).op = op /\ Request(op, row, arg).row = row
         /\ Request(op, row, arg).arg = arg /\ Request(op, row, arg).phase = "sent"
         /\ Request(op, row, arg).own /\ ~Request(op, row, arg).dropped
<1> DEFINE q == Request(op, row, arg)
<1>1. /\ q \in Requests /\ q.op = op /\ q.row = row /\ q.arg = arg /\ q.phase = "sent"
      /\ q.own = TRUE /\ q.dropped = FALSE
  BY Nothing DEF Request, Requests
<1> HIDE DEF q
<1>2. RequestOK(q, b, k)
  BY <1>1 DEF RequestOK
<1>3. OwnOK(q, d)
  BY <1>1 DEF OwnOK
<1>4. q # NoRequest
  BY <1>1, Nothing DEF Requests
<1> QED
  BY <1>1, <1>2, <1>3, <1>4 DEF SlotOK, q

\* What is sent goes into a free slot; what is under way stays where it is.
LEMMA SendInOK ==
  ASSUME NEW slots, NEW q, SendIn(slots, q), NEW b, NEW k, NEW d,
         SlotsOK(slots, b, k, d), SlotOK(q, b, k, d)
  PROVE  /\ SlotsOK(reqs', b, k, d)
         /\ \A j \in Slots : slots[j] # NoRequest => reqs'[j] = slots[j]
         /\ \E j \in Slots : slots[j] = NoRequest /\ reqs'[j] = q
         /\ quiet' \in BOOLEAN
<1>1. PICK m \in Slots : /\ slots[m] = NoRequest
                         /\ reqs' = [j \in Slots |-> IF j = m THEN q ELSE slots[j]]
  BY SendInIs
<1>2. \A j \in Slots : reqs'[j] = IF j = m THEN q ELSE slots[j]
  BY <1>1
<1>3. reqs' = [j \in Slots |-> reqs'[j]]
  BY <1>1
<1>4. \A j \in Slots : SlotOK(reqs'[j], b, k, d)
  BY <1>2 DEF SlotsOK
<1>5. quiet' \in BOOLEAN
  BY SendInIs
<1> QED
  BY <1>1, <1>2, <1>3, <1>4, <1>5 DEF SlotsOK

LEMMA PutAt ==
  ASSUME NEW slots, NEW i \in Slots, NEW q
  PROVE  /\ Put(slots, i, q)[i] = q
         /\ \A j \in Slots : j # i => Put(slots, i, q)[j] = slots[j]
BY DEF Put

LEMMA PutIs ==
  ASSUME NEW slots, NEW i \in Slots, NEW q, NEW b, NEW k, NEW d
  PROVE  /\ \A j \in Slots : Put(slots, i, q)[j] = IF j = i THEN q ELSE slots[j]
         /\ SlotsOK(slots, b, k, d) /\ SlotOK(q, b, k, d)
            => SlotsOK(Put(slots, i, q), b, k, d)
BY DEF Put, SlotsOK

LEMMA NothingIsOK ==
  \A b, k, d : SlotOK(NoRequest, b, k, d)
BY DEF SlotOK

\* What is left when a dialog, or the page, goes away.
LEMMA AllDisowned ==
  ASSUME NEW b, NEW k, NEW d, NEW e, SlotsOK(reqs, b, k, d)
  PROVE  /\ SlotsOK(Disowned, b, k, e) /\ SlotsOK(DroppedAll, b, k, e)
         /\ \A i \in Slots : /\ Disowned[i] = Disown(reqs[i])
                             /\ Disowned[i] = NoRequest <=> reqs[i] = NoRequest
                             /\ Disowned[i].op = reqs[i].op
                             /\ Disowned[i].dropped = reqs[i].dropped
                             /\ DroppedAll[i] = NoRequest <=> reqs[i] = NoRequest
<1>1. \A i \in Slots : Disowned[i] = Disown(reqs[i]) /\ DroppedAll[i] = Drop(reqs[i])
  BY DisownedIs
<1>2. Disowned = [i \in Slots |-> Disowned[i]] /\ DroppedAll = [i \in Slots |-> DroppedAll[i]]
  BY DisownedIs
<1>3. ASSUME NEW i \in Slots
      PROVE  /\ SlotOK(Disowned[i], b, k, e) /\ SlotOK(DroppedAll[i], b, k, e)
             /\ Disowned[i] = NoRequest <=> reqs[i] = NoRequest
             /\ Disowned[i].op = reqs[i].op
             /\ Disowned[i].dropped = reqs[i].dropped
             /\ DroppedAll[i] = NoRequest <=> reqs[i] = NoRequest
  <2>1. SlotOK(reqs[i], b, k, d)
    BY DEF SlotsOK
  <2> QED
    BY <2>1, <1>1, DisownFacts, DropFacts
<1> QED
  BY <1>1, <1>2, <1>3 DEF SlotsOK

\* Nothing happens to the requests.
LEMMA SlotsStay ==
  ASSUME NEW slots, NEW b, NEW k, NEW d, SlotsOK(slots, b, k, d),
         NEW b2, NEW d2, b \subseteq b2,
         (d2.mode = d.mode /\ d2.row = d.row) \/ d.mode = "none"
  PROVE  SlotsOK(slots, b2, k, d2)
BY SlotStays DEF SlotsOK

\* Something happens to one request.
LEMMA OneServed ==
  ASSUME RequestsInv, WaitInv, NEW i \in Slots, reqs[i] # NoRequest, NEW q,
         RequestOK(q, born', kind), q.op = reqs[i].op, q.own = reqs[i].own,
         q.dropped = reqs[i].dropped, q.row = reqs[i].row \/ q.op = "create",
         reqs' = Put(reqs, i, q), born \subseteq born',
         UNCHANGED <<kind, view>>
  PROVE  RequestsInv' /\ WaitInv'
<1>1. SlotOK(reqs[i], born, kind, dialog)
  BY DEF RequestsInv, SlotsOK
<1>2. OwnOK(q, dialog)
  <2>1. OwnOK(reqs[i], dialog)
    BY <1>1 DEF SlotOK
  <2>2. q.op \in {"patch"} \union Grants => q.row = reqs[i].row
    BY Nothing
  <2> QED
    BY <2>1, <2>2 DEF OwnOK
<1>3. SlotOK(q, born', kind, dialog)
  BY <1>2 DEF SlotOK
<1>4. SlotsOK(reqs, born', kind, dialog)
  BY SlotsStay DEF RequestsInv
<1>5. SlotsOK(reqs', born', kind, dialog)
  BY <1>3, <1>4, PutIs
<1>6. \A j \in Slots : reqs'[j] = IF j = i THEN q ELSE reqs[j]
  BY PutIs
<1>7. /\ Loads(reqs) => Loads(reqs')
      /\ Saves(reqs) => Saves(reqs')
      /\ Adds(reqs) => Adds(reqs')
  BY <1>6 DEF Loads, Saves, Adds
<1> QED
  BY <1>5, <1>7 DEF RequestsInv, WaitInv, view

-----------------------------------------------------------------------------
(***************************************************************************)
(* The handlers                                                            *)
(***************************************************************************)

LEMMA RowsSet ==
  ASSUME NEW rows \in Rows, NEW r \in Row, NEW e \in Entry \union {NoRow}
  PROVE  /\ [rows EXCEPT ![r] = e] \in Rows
         /\ \A o \in Row : [rows EXCEPT ![r] = e][o] = IF o = r THEN e ELSE rows[o]
         /\ rows[r] # NoRow => rows[r] \in Entry /\ rows[r].form \in Form /\ rows[r].access \in Access
BY DEF Rows, Entry

\* The request in a slot that is in use.
LEMMA InUse ==
  ASSUME TypeInv, NEW i \in Slots, reqs[i] # NoRequest
  PROVE  /\ reqs[i] \in Requests /\ RequestOK(reqs[i], born, kind)
         /\ OwnOK(reqs[i], dialog) /\ reqs = [j \in Slots |-> reqs[j]]
BY SlotFacts DEF TypeInv, RequestsInv, SlotsOK

LEMMA ReadRowsKeeps ==
  ASSUME TypeInv, NEW i \in Slots, reqs[i] # NoRequest, ReadRows(i),
         UNCHANGED <<kind, born, view, left, quiet>>
  PROVE  TypeInv'
<1> DEFINE q == [reqs[i] EXCEPT !.phase = IF kind = "users" THEN "rows" ELSE "done", !.data = table]
<1>1. /\ reqs[i] \in Requests /\ RequestOK(reqs[i], born, kind)
      /\ reqs = [j \in Slots |-> reqs[j]]
  BY InUse
<1>2. reqs' = Put(reqs, i, q) /\ reqs[i].op = "load" /\ reqs[i].phase = "sent"
  BY <1>1 DEF ReadRows, Put
<1>3. /\ q \in Requests /\ q.op = reqs[i].op /\ q.own = reqs[i].own /\ q.dropped = reqs[i].dropped
      /\ q.row = reqs[i].row /\ q.phase \in {"rows", "done"} /\ q.data = table
  <2> DEFINE ph == IF kind = "users" THEN "rows" ELSE "done"
  <2>1. q = [reqs[i] EXCEPT !.phase = ph, !.data = table]
    OBVIOUS
  <2>2. ph \in {"rows", "done"} /\ ph \in Phases /\ table \in Rows
    BY Nothing DEF TypeInv, PageInv
  <2> HIDE DEF ph, q
  <2> QED
    BY <1>1, <2>1, <2>2 DEF Requests
<1> HIDE DEF q
<1>4. RequestOK(q, born', kind)
  BY <1>1, <1>2, <1>3, Nothing DEF RequestOK, TypeInv, PageInv, RowOK
<1>5. RequestsInv' /\ WaitInv'
  BY <1>2, <1>3, <1>4, OneServed DEF TypeInv
<1>6. PageInv'
  BY DEF ReadRows, TypeInv, PageInv, Known, Has, Editing, view, RowOK
<1> QED
  BY <1>5, <1>6 DEF TypeInv

\* What a reading of the grants makes of the rows that were read.
WithGrants(read) ==
  [r \in Row |-> IF read[r] = NoRow THEN NoRow
                 ELSE [read[r] EXCEPT !.access = IF Has(r) THEN table[r].access ELSE NoAccess]]

LEMMA WithGrantsIs ==
  ASSUME table \in Rows, NEW read \in Rows
  PROVE  /\ WithGrants(read) \in Rows
         /\ \A r \in Row : WithGrants(read)[r] = NoRow <=> read[r] = NoRow
         /\ read = table => WithGrants(read) = table
<1>1. NoRow \notin Entry /\ NoAccess \in Access
  BY ControllerAssumption DEF NoAccess, Access
<1>2. ASSUME NEW r \in Row, read[r] # NoRow
      PROVE  /\ WithGrants(read)[r] \in Entry
             /\ read = table => WithGrants(read)[r] = table[r]
  <2>1. read[r] \in Entry /\ (Has(r) => table[r] \in Entry)
    BY <1>2 DEF Rows, Has
  <2>2. (IF Has(r) THEN table[r].access ELSE NoAccess) \in Access
    BY <1>1, <2>1 DEF Entry
  <2>3. WithGrants(read)[r] = [read[r] EXCEPT !.access = IF Has(r) THEN table[r].access ELSE NoAccess]
    BY <1>2 DEF WithGrants
  <2>4. read = table => Has(r)
    BY <1>2 DEF Has
  <2> QED
    BY <2>1, <2>2, <2>3, <2>4 DEF Entry
<1>3. \A r \in Row : read[r] = NoRow => WithGrants(read)[r] = NoRow
  BY DEF WithGrants
<1>4. WithGrants(read) = [r \in Row |-> WithGrants(read)[r]]
  BY DEF WithGrants
<1>5. \A r \in Row : WithGrants(read)[r] \in Entry \union {NoRow}
  BY <1>2, <1>3
<1>6. WithGrants(read) \in Rows
  BY <1>4, <1>5 DEF Rows
<1>7. read = table => WithGrants(read) = table
  BY <1>2, <1>3, <1>4 DEF Rows
<1> QED
  BY <1>1, <1>2, <1>3, <1>6, <1>7

LEMMA ReadGrantsKeeps ==
  ASSUME TypeInv, NEW i \in Slots, reqs[i] # NoRequest, ReadGrants(i),
         UNCHANGED <<kind, born, view, left, quiet>>
  PROVE  TypeInv'
<1> DEFINE x == WithGrants(reqs[i].data)
           q == [reqs[i] EXCEPT !.phase = "done", !.data = x]
<1>1. /\ reqs[i] \in Requests /\ RequestOK(reqs[i], born, kind)
      /\ reqs = [j \in Slots |-> reqs[j]]
  BY InUse
<1>2. reqs' = Put(reqs, i, q) /\ reqs[i].op = "load" /\ reqs[i].phase = "rows"
  BY <1>1 DEF ReadGrants, Done, Put, WithGrants
<1>3. x \in Rows /\ Known(x, born)
  <2>1. reqs[i].data \in Rows /\ Known(reqs[i].data, born)
    BY <1>1, <1>2 DEF RequestOK
  <2> QED
    BY <2>1, WithGrantsIs DEF TypeInv, PageInv, Known, RowOK
<1> HIDE DEF x
<1>4. /\ q \in Requests /\ q.op = reqs[i].op /\ q.own = reqs[i].own /\ q.dropped = reqs[i].dropped
      /\ q.row = reqs[i].row /\ q.phase = "done" /\ q.data = x
  BY <1>1, <1>3, Nothing DEF Requests
<1> HIDE DEF q
<1>5. RequestOK(q, born', kind)
  BY <1>1, <1>2, <1>3, <1>4, Nothing DEF RequestOK
<1>6. RequestsInv' /\ WaitInv'
  BY <1>2, <1>4, <1>5, OneServed DEF TypeInv
<1>7. PageInv'
  BY DEF ReadGrants, TypeInv, PageInv, Known, Has, Editing, view, RowOK
<1> QED
  BY <1>6, <1>7 DEF TypeInv

LEMMA InsertKeeps ==
  ASSUME TypeInv, NEW i \in Slots, reqs[i] # NoRequest, Insert(i),
         UNCHANGED <<kind, view, left, quiet>>
  PROVE  TypeInv'
<1>1. /\ reqs[i] \in Requests /\ RequestOK(reqs[i], born, kind)
      /\ reqs = [j \in Slots |-> reqs[j]]
  BY InUse
<1> DEFINE e == [form |-> reqs[i].arg, access |-> NoAccess]
<1>2. reqs[i].op = "create" /\ reqs[i].phase = "sent"
  BY DEF Insert
<1>3. PICK r \in Row :
        /\ r \notin born /\ born' = born \union {r}
        /\ table' = [table EXCEPT ![r] = e]
        /\ reqs' = [reqs EXCEPT ![i].phase = "done", ![i].row = r, ![i].data = table'[r]]
  BY DEF Insert
<1>4. e \in Entry /\ e.access = NoAccess
  BY <1>1, <1>2 DEF Entry, RequestOK, NoAccess, Access
<1> HIDE DEF e
<1>5. table' \in Rows /\ \A o \in Row : table'[o] = IF o = r THEN e ELSE table[o]
  <2>1. table \in Rows
    BY DEF TypeInv, PageInv, RowOK
  <2> QED
    BY <2>1, <1>3, <1>4 DEF Rows
<1> DEFINE q == [reqs[i] EXCEPT !.phase = "done", !.row = r, !.data = e]
<1>6. reqs' = Put(reqs, i, q)
  BY <1>1, <1>3, <1>5 DEF Put
<1>7. /\ q \in Requests /\ q.op = reqs[i].op /\ q.own = reqs[i].own /\ q.dropped = reqs[i].dropped
      /\ q.row = r /\ q.phase = "done" /\ q.data = e /\ q.arg = reqs[i].arg
  BY <1>1, <1>4, Nothing DEF Requests
<1> HIDE DEF q
<1>8. RequestOK(q, born', kind)
  BY <1>1, <1>2, <1>3, <1>4, <1>7, Nothing DEF RequestOK
<1>9. RequestsInv' /\ WaitInv'
  BY <1>2, <1>3, <1>6, <1>7, <1>8, OneServed DEF TypeInv
<1>10. PageInv'
  <2>1. Known(table', born')
    BY <1>3, <1>5 DEF TypeInv, PageInv, Known, RowOK
  <2>2. kind' # "users" => \A o \in Row : (Has(o))' => table'[o].access = NoAccess
    BY <1>4, <1>5 DEF TypeInv, PageInv, Has, RowOK
  <2> QED
    BY <1>3, <1>5, <2>1, <2>2 DEF TypeInv, PageInv, Known, Editing, view, RowOK
<1> QED
  BY <1>9, <1>10 DEF TypeInv

LEMMA MergeIn ==
  ASSUME NEW old \in Form, NEW form \in Form
  PROVE  Merge(old, form) \in Form
BY DEF Merge, Form

\* A row whose fields change: another row is as it was.
LEMMA RowWith ==
  ASSUME table \in Rows, NEW r \in Row, Has(r)
  PROVE  /\ table[r] \in Entry
         /\ \A x \in Form : /\ [table EXCEPT ![r].form = x] = [table EXCEPT ![r] = [table[r] EXCEPT !.form = x]]
                            /\ [table[r] EXCEPT !.form = x] \in Entry
                            /\ [table[r] EXCEPT !.form = x].form = x
                            /\ [table[r] EXCEPT !.form = x].access = table[r].access
         /\ \A x \in Access : /\ [table EXCEPT ![r].access = x] = [table EXCEPT ![r] = [table[r] EXCEPT !.access = x]]
                              /\ [table[r] EXCEPT !.access = x] \in Entry
                              /\ [table[r] EXCEPT !.access = x].form = table[r].form
                              /\ [table[r] EXCEPT !.access = x].access = x
<1>1. table[r] \in Entry
  BY DEF Rows, Has
<1> QED
  BY <1>1 DEF Entry

LEMMA UpdateIs ==
  ASSUME TypeInv, NEW i \in Slots, reqs[i] # NoRequest, Update(i)
  PROVE  \E e \in Entry :
           /\ e.form = Merge(table[reqs[i].row].form, reqs[i].arg)
           /\ e.access = table[reqs[i].row].access
           /\ table' = [table EXCEPT ![reqs[i].row] = e]
           /\ reqs' = Put(reqs, i, [reqs[i] EXCEPT !.phase = "done", !.data = e])
<1> DEFINE r == reqs[i].row
           x == Merge(table[r].form, reqs[i].arg)
           e == [table[r] EXCEPT !.form = x]
<1>1. /\ reqs[i] \in Requests /\ RequestOK(reqs[i], born, kind)
      /\ reqs = [j \in Slots |-> reqs[j]] /\ table \in Rows
  BY InUse DEF TypeInv, PageInv, RowOK
<1>2. r \in Row /\ reqs[i].arg \in Form /\ Has(r)
  BY <1>1 DEF RequestOK, Update
<1>3. x \in Form
  BY <1>1, <1>2, MergeIn, RowWith DEF Entry
<1>4. table' = [table EXCEPT ![r].form = x]
  BY <1>1, <1>2 DEF Update, Rows
<1> HIDE DEF x
<1>5. table' = [table EXCEPT ![r] = e] /\ e \in Entry /\ e.form = x /\ e.access = table[r].access
  BY <1>1, <1>2, <1>3, <1>4, RowWith
<1> HIDE DEF e
<1>6. table'[r] = e
  BY <1>1, <1>2, <1>5 DEF Rows
<1>7. reqs' = [reqs EXCEPT ![i].phase = "done", ![i].data = table'[r]]
  BY DEF Update, Done
<1>8. reqs' = Put(reqs, i, [reqs[i] EXCEPT !.phase = "done", !.data = e])
  BY <1>1, <1>6, <1>7 DEF Put
<1> QED
  BY <1>5, <1>8 DEF x

\* A row that is there changes, or goes, in one request.
LEMMA RowSet ==
  ASSUME TypeInv, NEW i \in Slots, reqs[i] # NoRequest, NEW e \in Entry \union {NoRow},
         NEW x \in Entry \union {NoRow}, reqs[i].op \in {"patch", "delete"} \union Grants,
         reqs[i].op = "patch" => x \in Entry, Has(reqs[i].row),
         kind # "users" /\ e # NoRow => e.access = NoAccess,
         table' = [table EXCEPT ![reqs[i].row] = e],
         reqs' = Put(reqs, i, [reqs[i] EXCEPT !.phase = "done", !.data = x]),
         UNCHANGED <<kind, born, view, left, quiet>>
  PROVE  TypeInv'
<1>1. /\ reqs[i] \in Requests /\ RequestOK(reqs[i], born, kind)
      /\ reqs = [j \in Slots |-> reqs[j]]
  BY InUse
<1> DEFINE q == [reqs[i] EXCEPT !.phase = "done", !.data = x]
           r == reqs[i].row
<1>2. /\ q \in Requests /\ q.op = reqs[i].op /\ q.own = reqs[i].own /\ q.dropped = reqs[i].dropped
      /\ q.row = r /\ q.phase = "done" /\ q.data = x /\ q.arg = reqs[i].arg
  BY <1>1, Nothing DEF Requests
<1>3. r \in Row /\ r \in born
  BY <1>1, ControllerAssumption DEF RequestOK
<1> HIDE DEF q
<1>4. RequestOK(q, born', kind)
  BY <1>1, <1>2, <1>3, Nothing DEF RequestOK
<1>5. RequestsInv' /\ WaitInv'
  BY <1>2, <1>4, OneServed DEF TypeInv, q
<1>6. table' \in Rows /\ \A o \in Row : table'[o] = IF o = r THEN e ELSE table[o]
  <2>1. table \in Rows
    BY DEF TypeInv, PageInv, RowOK
  <2> QED
    BY <2>1, <1>3 DEF Rows
<1>7. PageInv'
  BY <1>3, <1>6 DEF TypeInv, PageInv, Known, Has, Editing, view, RowOK
<1> QED
  BY <1>5, <1>7 DEF TypeInv

LEMMA UpdateKeeps ==
  ASSUME TypeInv, NEW i \in Slots, reqs[i] # NoRequest, Update(i),
         UNCHANGED <<kind, born, view, left, quiet>>
  PROVE  TypeInv'
<1>1. PICK e \in Entry :
        /\ e.access = table[reqs[i].row].access
        /\ table' = [table EXCEPT ![reqs[i].row] = e]
        /\ reqs' = Put(reqs, i, [reqs[i] EXCEPT !.phase = "done", !.data = e])
  BY UpdateIs
<1>2. reqs[i].row \in Row /\ Has(reqs[i].row) /\ reqs[i].op = "patch"
  BY InUse DEF RequestOK, Update
<1>3. kind # "users" => e.access = NoAccess
  BY <1>1, <1>2 DEF TypeInv, PageInv, RowOK
<1> QED
  BY <1>1, <1>2, <1>3, RowSet

LEMMA DeleteIs ==
  ASSUME TypeInv, NEW i \in Slots, reqs[i] # NoRequest, Delete(i)
  PROVE  /\ table' = [table EXCEPT ![reqs[i].row] = NoRow]
         /\ reqs' = Put(reqs, i, [reqs[i] EXCEPT !.phase = "done", !.data = NoRow])
BY InUse DEF Delete, Done, Put

LEMMA DeleteKeeps ==
  ASSUME TypeInv, NEW i \in Slots, reqs[i] # NoRequest, Delete(i),
         UNCHANGED <<kind, born, view, left, quiet>>
  PROVE  TypeInv'
BY DeleteIs, RowSet DEF Delete

\* The grants that a request makes of the grants a.
GrantOf(q, a) ==
  IF q.op = "revoke" THEN [a EXCEPT ![q.arg[1]] = "none"] ELSE GrantIn(a, q.arg[1], q.arg[2])

LEMMA SetGrantIs ==
  ASSUME TypeInv, NEW i \in Slots, reqs[i] # NoRequest, SetGrant(i)
  PROVE  /\ GrantOf(reqs[i], table[reqs[i].row].access) \in Access
         /\ \E e \in Entry :
              /\ e.form = table[reqs[i].row].form
              /\ e.access = GrantOf(reqs[i], table[reqs[i].row].access)
              /\ table' = [table EXCEPT ![reqs[i].row] = e]
              /\ reqs' = Put(reqs, i, [reqs[i] EXCEPT !.phase = "done", !.data = NoRow])
<1> DEFINE r == reqs[i].row
           x == GrantOf(reqs[i], table[r].access)
<1>1. /\ reqs[i] \in Requests /\ RequestOK(reqs[i], born, kind)
      /\ reqs = [j \in Slots |-> reqs[j]] /\ table \in Rows
  BY InUse DEF TypeInv, PageInv, RowOK
<1>2. r \in Row /\ reqs[i].arg \in Site \X (Roles \union {"none"}) /\ Has(r)
  BY <1>1 DEF RequestOK, SetGrant
<1>3. table[r].access \in Access
  BY <1>1, <1>2, RowWith DEF Entry
<1>4. x \in Access
  BY <1>2, <1>3 DEF GrantOf, GrantIn, Access
<1>5. table' = [table EXCEPT ![r].access = x]
  BY <1>1, <1>2 DEF SetGrant, GrantOf, Rows
<1>6. reqs' = Put(reqs, i, [reqs[i] EXCEPT !.phase = "done", !.data = NoRow])
  BY <1>1 DEF SetGrant, Done, Put
<1> HIDE DEF x
<1> QED
  BY <1>1, <1>2, <1>4, <1>5, <1>6, RowWith DEF x

LEMMA SetGrantKeeps ==
  ASSUME TypeInv, NEW i \in Slots, reqs[i] # NoRequest, SetGrant(i),
         UNCHANGED <<kind, born, view, left, quiet>>
  PROVE  TypeInv'
<1>1. PICK e \in Entry :
        /\ table' = [table EXCEPT ![reqs[i].row] = e]
        /\ reqs' = Put(reqs, i, [reqs[i] EXCEPT !.phase = "done", !.data = NoRow])
  BY SetGrantIs
<1>2. reqs[i].op \in Grants /\ Has(reqs[i].row) /\ reqs[i].op # "patch"
  BY Nothing DEF SetGrant
<1>3. kind = "users"
  BY <1>2, InUse DEF RequestOK
<1> QED
  BY <1>1, <1>2, <1>3, RowSet

\* A request whose phase changes, with no answer to speak of.
LEMMA PhaseSet ==
  ASSUME TypeInv, NEW i \in Slots, reqs[i] # NoRequest, NEW p \in {"done", "refused", "lost"},
         p = "done" => reqs[i].op \in Grants,
         left' \in 0..Budget, quiet' \in BOOLEAN,
         reqs' = [reqs EXCEPT ![i].phase = p],
         UNCHANGED <<kind, table, born, view>>
  PROVE  TypeInv'
<1> DEFINE q == [reqs[i] EXCEPT !.phase = p]
<1>1. /\ reqs[i] \in Requests /\ RequestOK(reqs[i], born, kind)
      /\ reqs = [j \in Slots |-> reqs[j]]
  BY InUse
<1>2. reqs' = Put(reqs, i, q)
  BY <1>1 DEF Put
<1>3. /\ q \in Requests /\ q.op = reqs[i].op /\ q.own = reqs[i].own /\ q.dropped = reqs[i].dropped
      /\ q.row = reqs[i].row /\ q.phase = p /\ q.data = reqs[i].data /\ q.arg = reqs[i].arg
  BY <1>1, Nothing DEF Requests
<1> HIDE DEF q
<1>4. RequestOK(q, born', kind)
  BY <1>1, <1>3, Nothing DEF RequestOK
<1>5. RequestsInv' /\ WaitInv'
  BY <1>2, <1>3, <1>4, OneServed DEF TypeInv
<1>6. PageInv'
  BY DEF TypeInv, PageInv, Known, Has, Editing, view, RowOK
<1> QED
  BY <1>5, <1>6 DEF TypeInv

LEMMA RefuseKeeps ==
  ASSUME TypeInv, NEW i \in Slots, reqs[i] # NoRequest, Refuse(i),
         UNCHANGED <<kind, born, view, left, quiet>>
  PROVE  TypeInv'
<1>1. reqs' = [reqs EXCEPT ![i].phase = IF reqs[i].op = "revoke" THEN "done" ELSE "refused"]
      /\ UNCHANGED table
  BY DEF Refuse
<1>2. left' \in 0..Budget /\ quiet' = quiet /\ quiet \in BOOLEAN
  BY DEF TypeInv, PageInv, RowOK
<1>3. CASE reqs[i].op = "revoke"
  BY <1>1, <1>2, <1>3, PhaseSet, Nothing
<1>4. CASE reqs[i].op # "revoke"
  BY <1>1, <1>2, <1>4, PhaseSet, Nothing
<1> QED
  BY <1>3, <1>4

LEMMA FaultKeeps ==
  ASSUME TypeInv, NEW i \in Slots, Fault(i)
  PROVE  TypeInv'
<1>1. \/ reqs' = [reqs EXCEPT ![i].phase = "refused"]
      \/ reqs' = [reqs EXCEPT ![i].phase = "lost"]
  BY DEF Fault
<1>2. /\ reqs[i] # NoRequest /\ quiet' = FALSE
      /\ left' \in 0..Budget /\ UNCHANGED <<kind, table, born, view>>
  BY ControllerAssumption DEF Fault, Spend, TypeInv, PageInv, RowOK
<1> QED
  BY <1>1, <1>2, PhaseSet, Nothing

LEMMA ServeKeeps ==
  ASSUME TypeInv, NEW i \in Slots, Serve(i)
  PROVE  TypeInv'
<1>1. reqs[i] # NoRequest /\ UNCHANGED <<kind, view, left, quiet>>
  BY DEF Serve
<1>2. CASE Insert(i)
  BY <1>1, <1>2, InsertKeeps
<1>3. CASE UNCHANGED born /\ ReadRows(i)
  BY <1>1, <1>3, ReadRowsKeeps
<1>4. CASE UNCHANGED born /\ ReadGrants(i)
  BY <1>1, <1>4, ReadGrantsKeeps
<1>5. CASE UNCHANGED born /\ Update(i)
  BY <1>1, <1>5, UpdateKeeps
<1>6. CASE UNCHANGED born /\ Delete(i)
  BY <1>1, <1>6, DeleteKeeps
<1>7. CASE UNCHANGED born /\ SetGrant(i)
  BY <1>1, <1>7, SetGrantKeeps
<1>8. CASE UNCHANGED born /\ Refuse(i)
  BY <1>1, <1>8, RefuseKeeps
<1> QED
  BY <1>2, <1>3, <1>4, <1>5, <1>6, <1>7, <1>8 DEF Serve

-----------------------------------------------------------------------------
(***************************************************************************)
(* Answers                                                                 *)
(***************************************************************************)

\* What is left when the answer in slot i has been taken.
LEMMA FreeIs ==
  ASSUME TypeInv, NEW i \in Slots
  PROVE  /\ SlotsOK(Free(i), born, kind, dialog)
         /\ Free(i)[i] = NoRequest
         /\ \A j \in Slots : j # i => Free(i)[j] = reqs[j]
<1>1. SlotsOK(Free(i), born, kind, dialog)
  BY PutIs, NothingIsOK DEF TypeInv, RequestsInv, Free
<1> QED
  BY <1>1, PutAt DEF Free

LEMMA ClosingIs ==
  ASSUME TypeInv, NEW i \in Slots
  PROVE  /\ \A e : SlotsOK(Closing(i), born, kind, e)
         /\ Closing(i)[i] = NoRequest
         /\ \A j \in Slots : j # i =>
              /\ Closing(i)[j] = NoRequest <=> reqs[j] = NoRequest
              /\ Closing(i)[j].op = reqs[j].op
              /\ Closing(i)[j].dropped = reqs[j].dropped
<1>1. Closing(i)[i] = NoRequest /\ \A j \in Slots : j # i => Closing(i)[j] = Disowned[j]
  BY PutAt DEF Closing
<1>2. ASSUME NEW e
      PROVE  SlotsOK(Closing(i), born, kind, e)
  BY AllDisowned, PutIs, NothingIsOK DEF Closing, TypeInv, RequestsInv
<1>3. \A j \in Slots : /\ Disowned[j] = NoRequest <=> reqs[j] = NoRequest
                       /\ Disowned[j].op = reqs[j].op
                       /\ Disowned[j].dropped = reqs[j].dropped
  BY AllDisowned DEF TypeInv, RequestsInv
<1> QED
  BY <1>1, <1>2, <1>3

LEMMA PageStays ==
  ASSUME TypeInv, UNCHANGED <<kind, table, born>>, list' \in Rows, Known(list', born),
         loading' \in BOOLEAN, broken' \in BOOLEAN, quiet' \in BOOLEAN,
         confirm' \in Row \union {NoRow}, dialog' \in Dialogs \union {NoDialog},
         RowOK(dialog', born), left' \in 0..Budget
  PROVE  PageInv'
BY DEF TypeInv, PageInv, Known, Has, Editing, RowOK

\* What the page waits for is still under way when another answer arrives.
LEMMA StillWaiting ==
  ASSUME TypeInv, NEW i \in Slots, reqs[i] # NoRequest,
         \A j \in Slots : j # i /\ reqs[j] # NoRequest => reqs'[j] = reqs[j],
         loading' => loading /\ (reqs[i].op # "load" \/ reqs[i].dropped),
         dialog'.saving => dialog.saving /\ (~reqs[i].own \/ reqs[i].op \notin {"create", "patch"}),
         dialog'.working /\ ~dialog'.stranded =>
           dialog.working /\ ~dialog.stranded /\ (~reqs[i].own \/ reqs[i].op # "add")
  PROVE  WaitInv'
<1>1. \A j \in Slots : reqs[j].op # "none" /\ j # i => reqs'[j] = reqs[j]
  BY Nothing
<1>2. loading' => Loads(reqs')
  <2> SUFFICES ASSUME loading' PROVE Loads(reqs')
    OBVIOUS
  <2>1. PICK j \in Slots : ~reqs[j].dropped /\ reqs[j].op = "load"
    BY DEF TypeInv, WaitInv, Loads
  <2> QED
    BY <2>1, <1>1 DEF Loads
<1>3. dialog'.saving => Saves(reqs')
  <2> SUFFICES ASSUME dialog'.saving PROVE Saves(reqs')
    OBVIOUS
  <2>1. PICK j \in Slots : reqs[j].own /\ reqs[j].op \in {"create", "patch"}
    BY DEF TypeInv, WaitInv, Saves
  <2> QED
    BY <2>1, <1>1 DEF Saves
<1>4. dialog'.working => dialog'.stranded \/ Adds(reqs')
  <2> SUFFICES ASSUME dialog'.working, ~dialog'.stranded PROVE Adds(reqs')
    OBVIOUS
  <2>1. PICK j \in Slots : reqs[j].own /\ reqs[j].op = "add"
    BY DEF TypeInv, WaitInv, Adds
  <2> QED
    BY <2>1, <1>1 DEF Adds
<1> QED
  BY <1>2, <1>3, <1>4 DEF WaitInv

\* With the dialog gone, only the list is waited for.
LEMMA WaitingForList ==
  ASSUME TypeInv, NEW slots, dialog' = NoDialog, loading' = loading, reqs' = slots,
         \A j \in Slots : reqs[j].op = "load" /\ ~reqs[j].dropped =>
                            slots[j].op = "load" /\ ~slots[j].dropped
  PROVE  WaitInv'
<1>1. ~dialog'.saving /\ ~dialog'.working
  BY Nothing
<1>2. loading' => Loads(reqs')
  BY DEF TypeInv, WaitInv, Loads
<1> QED
  BY <1>1, <1>2 DEF WaitInv

LEMMA LoadArrivesKeeps ==
  ASSUME TypeInv, NEW i \in Slots, LoadArrives(i)
  PROVE  TypeInv'
<1>1. /\ reqs[i] # NoRequest /\ reqs[i].op = "load" /\ ~loading' /\ loading' \in BOOLEAN
      /\ list' = IF reqs[i].phase = "done" THEN reqs[i].data ELSE list
      /\ broken' = (broken \/ reqs[i].phase = "refused")
      /\ reqs' = Free(i) /\ UNCHANGED <<kind, table, born, dialog, confirm, left, quiet>>
  BY DEF LoadArrives, Arrives, NoSend
<1>2. RequestsInv'
  BY <1>1, FreeIs DEF RequestsInv
<1>3. reqs[i].phase = "done" => reqs[i].data \in Rows /\ Known(reqs[i].data, born)
  BY <1>1, InUse DEF RequestOK
<1>4. list' \in Rows /\ Known(list', born)
  BY <1>1, <1>3 DEF TypeInv, PageInv, RowOK
<1>5. PageInv'
  BY <1>1, <1>4, PageStays DEF TypeInv, PageInv, Editing, RowOK
<1>6. WaitInv'
  BY <1>1, FreeIs, StillWaiting
<1> QED
  BY <1>2, <1>5, <1>6 DEF TypeInv

LEMMA DialogWith ==
  ASSUME dialog \in Dialogs \union {NoDialog}, NEW b \in BOOLEAN
  PROVE  /\ [dialog EXCEPT !.saving = b].mode = dialog.mode
         /\ [dialog EXCEPT !.saving = b].row = dialog.row
         /\ [dialog EXCEPT !.saving = b].form = dialog.form
         /\ [dialog EXCEPT !.saving = b].access = dialog.access
         /\ [dialog EXCEPT !.saving = b].touched = dialog.touched
         /\ [dialog EXCEPT !.saving = b].saving = b
         /\ [dialog EXCEPT !.saving = b].working = dialog.working
         /\ [dialog EXCEPT !.saving = b].stranded = dialog.stranded
         /\ dialog # NoDialog \/ ~b => [dialog EXCEPT !.saving = b] \in Dialogs \union {NoDialog}
<1>1. CASE dialog \in Dialogs
  BY <1>1 DEF Dialogs
<1>2. CASE dialog = NoDialog
  <2>1. NoDialog = [mode |-> "none", row |-> NoRow, form |-> NewForm, access |-> NoAccess,
                    touched |-> {}, saving |-> FALSE, working |-> FALSE, stranded |-> FALSE]
    BY DEF NoDialog, Dialog
  <2>2. [NoDialog EXCEPT !.saving = FALSE] = NoDialog
    <3>1. NoDialog.saving = FALSE
      BY <2>1
    <3>2. NoDialog = [f \in {"mode", "row", "form", "access", "touched", "saving", "working",
                               "stranded"} |-> NoDialog[f]]
      BY <2>1
    <3> QED
      BY <3>1, <3>2
  <2>3. ~b => b = FALSE
    OBVIOUS
  <2>4. ~b => [dialog EXCEPT !.saving = b] = NoDialog
    BY <1>2, <2>2, <2>3
  <2> QED
    BY <1>2, <2>1, <2>4
<1> QED
  BY <1>1, <1>2

\* The dialog when the answer of a save has arrived.
LEMMA AfterSaveIs ==
  ASSUME TypeInv, NEW i \in Slots
  PROVE  /\ AfterSave(i) \in Dialogs \union {NoDialog}
         /\ AfterSave(i).mode = dialog.mode /\ AfterSave(i).row = dialog.row
         /\ AfterSave(i).form = dialog.form /\ AfterSave(i).access = dialog.access
         /\ AfterSave(i).touched = dialog.touched /\ AfterSave(i).working = dialog.working
         /\ AfterSave(i).stranded = dialog.stranded
         /\ AfterSave(i).saving => dialog.saving /\ ~reqs[i].own
<1>1. dialog \in Dialogs \union {NoDialog}
  BY DEF TypeInv, PageInv, RowOK
<1>2. CASE reqs[i].own
  BY <1>1, <1>2, DialogWith DEF AfterSave
<1>3. CASE ~reqs[i].own
  BY <1>1, <1>3 DEF AfterSave
<1> QED
  BY <1>2, <1>3

LEMMA SaveFailsKeeps ==
  ASSUME TypeInv, NEW i \in Slots, SaveFails(i)
  PROVE  TypeInv'
<1>1. /\ reqs[i] # NoRequest /\ reqs[i].op \in {"create", "patch"} /\ dialog' = AfterSave(i)
      /\ reqs' = Free(i)
      /\ UNCHANGED <<kind, table, born, list, loading, broken, confirm, left, quiet>>
  BY DEF SaveFails, Arrives, NoSend, AfterSave
<1>2. /\ dialog' \in Dialogs \union {NoDialog} /\ dialog'.mode = dialog.mode
      /\ dialog'.row = dialog.row /\ dialog'.working = dialog.working
      /\ dialog'.stranded = dialog.stranded
      /\ dialog'.saving => dialog.saving /\ ~reqs[i].own
  BY <1>1, AfterSaveIs
<1>3. RequestsInv'
  BY <1>1, <1>2, FreeIs, SlotsStay DEF RequestsInv
<1>4. PageInv'
  BY <1>1, <1>2, PageStays DEF TypeInv, PageInv, Editing, RowOK
<1>5. WaitInv'
  BY <1>1, <1>2, FreeIs, StillWaiting
<1> QED
  BY <1>3, <1>4, <1>5 DEF TypeInv

LEMMA LoadIsOK ==
  /\ \A b, k, d : SlotOK(Request("load", NoRow, NoRow), b, k, d)
  /\ Request("load", NoRow, NoRow) # NoRequest
  /\ Request("load", NoRow, NoRow).op = "load" /\ ~Request("load", NoRow, NoRow).dropped
  /\ Request("load", NoRow, NoRow).phase = "sent"
<1>1. "load" \in Ops /\ "load" \notin {"patch", "delete"} \union Grants
  BY Nothing
<1> QED
  BY <1>1, NewRequest, Nothing

\* What the answer of a save makes of the list.
LEMMA ListAfterIs ==
  ASSUME TypeInv, NEW i \in Slots, reqs[i] # NoRequest, reqs[i].op \in {"create", "patch"},
         reqs[i].phase = "done"
  PROVE  /\ ListAfter(i) \in Rows /\ Known(ListAfter(i), born)
         /\ reqs[i].row \in Row /\ reqs[i].row \in born /\ reqs[i].data \in Entry
         /\ \A r \in Row : ListAfter(i)[r] =
              IF r # reqs[i].row THEN list[r]
              ELSE IF list[r] = NoRow /\ reqs[i].op = "patch" THEN NoRow ELSE reqs[i].data
<1>1. reqs[i].row \in Row /\ reqs[i].row \in born /\ reqs[i].data \in Entry
  BY InUse, ControllerAssumption DEF RequestOK
<1>2. list \in Rows /\ Known(list, born)
  BY DEF TypeInv, PageInv, RowOK
<1>3. \A r \in Row : ListAfter(i)[r] =
        IF r # reqs[i].row THEN list[r]
        ELSE IF list[r] = NoRow /\ reqs[i].op = "patch" THEN NoRow ELSE reqs[i].data
  BY <1>1, <1>2 DEF ListAfter, Rows
<1>4. ListAfter(i) = [r \in Row |-> ListAfter(i)[r]]
  BY <1>2 DEF ListAfter, Rows
<1>5. \A r \in Row : ListAfter(i)[r] \in Entry \union {NoRow}
  BY <1>1, <1>2, <1>3 DEF Rows
<1>6. ListAfter(i) \in Rows
  BY <1>4, <1>5 DEF Rows
<1>7. Known(ListAfter(i), born)
  BY <1>1, <1>2, <1>3 DEF Known
<1> QED
  BY <1>1, <1>3, <1>6, <1>7

LEMMA NoDialogIs ==
  NoDialog \in Dialogs \union {NoDialog} /\ \A b : RowOK(NoDialog, b)
BY DEF NoDialog, Dialog, RowOK

LEMMA CreatedKeeps ==
  ASSUME TypeInv, NEW i \in Slots, Created(i)
  PROVE  TypeInv'
<1> DEFINE rest == IF Editing THEN Free(i) ELSE Closing(i)
           load == Request("load", NoRow, NoRow)
<1>1. /\ reqs[i] # NoRequest /\ reqs[i].op = "create" /\ reqs[i].phase = "done"
      /\ dialog' = IF Editing THEN dialog ELSE NoDialog
      /\ UNCHANGED <<kind, table, born, loading, broken, confirm, left>>
      /\ \/ SendIn(rest, load) /\ list' = list
         \/ reqs' = rest /\ UNCHANGED quiet /\ list' = ListAfter(i)
  BY DEF Created, Arrives, NoSend
<1>2. list' \in Rows /\ Known(list', born)
  BY <1>1, ListAfterIs DEF TypeInv, PageInv, RowOK
<1>3. dialog' \in Dialogs \union {NoDialog} /\ RowOK(dialog', born)
  BY <1>1, NoDialogIs DEF TypeInv, PageInv, Editing, RowOK
<1>4. SlotsOK(rest, born, kind, dialog')
  BY <1>1, FreeIs, ClosingIs
<1>5. /\ SlotsOK(reqs', born, kind, dialog') /\ quiet' \in BOOLEAN
      /\ \A j \in Slots : rest[j] # NoRequest => reqs'[j] = rest[j]
  <2>1. CASE SendIn(rest, load)
    <3> HIDE DEF rest, load
    <3>1. SlotOK(load, born, kind, dialog')
      BY LoadIsOK DEF load
    <3> QED
      BY <1>4, <2>1, <3>1, SendInOK
  <2>2. CASE reqs' = rest /\ UNCHANGED quiet
    BY <1>4, <2>2 DEF TypeInv, PageInv, RowOK
  <2> QED
    BY <1>1, <2>1, <2>2
<1>6. PageInv'
  BY <1>1, <1>2, <1>3, <1>5, PageStays DEF TypeInv, PageInv, RowOK
<1>7. RequestsInv'
  BY <1>1, <1>5 DEF RequestsInv
<1>8. CASE Editing
  <2>1. ~reqs[i].own
    BY <1>1, <1>8, InUse DEF OwnOK, Editing, RowOK
  <2>2. \A j \in Slots : j # i /\ reqs[j] # NoRequest => reqs'[j] = reqs[j]
    BY <1>5, <1>8, FreeIs
  <2>3. WaitInv'
    BY <1>1, <1>8, <2>1, <2>2, StillWaiting
  <2> QED
    BY <1>6, <1>7, <2>3 DEF TypeInv
<1>9. CASE ~Editing
  <2>1. \A j \in Slots : j # i /\ reqs[j].op # "none" =>
          reqs'[j].op = reqs[j].op /\ reqs'[j].dropped = reqs[j].dropped
    BY <1>5, <1>9, ClosingIs, Nothing
  <2>2. WaitInv'
    BY <1>1, <1>9, <2>1, WaitingForList
  <2> QED
    BY <1>6, <1>7, <2>2 DEF TypeInv
<1> QED
  BY <1>8, <1>9

LEMMA SavedKeeps ==
  ASSUME TypeInv, NEW i \in Slots, Saved(i)
  PROVE  TypeInv'
<1> DEFINE load == Request("load", NoRow, NoRow)
<1>1. /\ reqs[i] # NoRequest /\ reqs[i].op = "patch" /\ reqs[i].phase = "done"
      /\ UNCHANGED <<kind, table, born, loading, broken, confirm, left>>
  BY DEF Saved, Arrives, NoSend
<1>2. /\ AfterSave(i) \in Dialogs \union {NoDialog}
      /\ AfterSave(i).mode = dialog.mode /\ AfterSave(i).row = dialog.row
      /\ AfterSave(i).working = dialog.working /\ AfterSave(i).stranded = dialog.stranded
      /\ AfterSave(i).saving => dialog.saving /\ ~reqs[i].own
  BY AfterSaveIs
<1>3. CASE SendIn(Free(i), load) /\ dialog' = AfterSave(i) /\ list' = list
  <2>1. SlotsOK(Free(i), born, kind, dialog')
    BY <1>2, <1>3, FreeIs, SlotsStay
  <2>2. SlotOK(load, born, kind, dialog')
    BY LoadIsOK
  <2> HIDE DEF load
  <2>3. /\ SlotsOK(reqs', born, kind, dialog') /\ quiet' \in BOOLEAN
        /\ \A j \in Slots : Free(i)[j] # NoRequest => reqs'[j] = Free(i)[j]
    BY <1>3, <2>1, <2>2, SendInOK
  <2>4. PageInv'
    BY <1>1, <1>2, <1>3, <2>3, PageStays DEF TypeInv, PageInv, Editing, RowOK
  <2>5. \A j \in Slots : j # i /\ reqs[j] # NoRequest => reqs'[j] = reqs[j]
    BY <2>3, FreeIs
  <2>6. WaitInv'
    BY <1>1, <1>2, <1>3, <2>5, StillWaiting
  <2> QED
    BY <1>1, <2>3, <2>4, <2>6 DEF TypeInv, RequestsInv
<1>4. CASE /\ UNCHANGED quiet /\ list' = ListAfter(i)
           /\ reqs' = IF Editing THEN Closing(i) ELSE Free(i)
           /\ dialog' = IF Editing THEN NoDialog ELSE dialog
  <2>1. RequestsInv'
    BY <1>1, <1>4, FreeIs, ClosingIs DEF RequestsInv
  <2>2. list' \in Rows /\ Known(list', born)
    BY <1>1, <1>4, ListAfterIs
  <2>3. dialog' \in Dialogs \union {NoDialog} /\ RowOK(dialog', born)
    BY <1>4, NoDialogIs DEF TypeInv, PageInv, Editing, RowOK
  <2>4. PageInv'
    BY <1>1, <1>4, <2>2, <2>3, PageStays DEF TypeInv, PageInv, RowOK
  <2>5. CASE Editing
    <3>1. \A j \in Slots : j # i => reqs'[j].op = reqs[j].op /\ reqs'[j].dropped = reqs[j].dropped
      BY <1>4, <2>5, ClosingIs
    <3>2. WaitInv'
      BY <1>1, <1>4, <2>5, <3>1, WaitingForList
    <3> QED
      BY <2>1, <2>4, <3>2 DEF TypeInv
  <2>6. CASE ~Editing
    <3>1. ~reqs[i].own
      BY <1>1, <2>6, InUse DEF OwnOK, Editing, RowOK
    <3>2. \A j \in Slots : j # i => reqs'[j] = reqs[j]
      BY <1>4, <2>6, FreeIs
    <3>3. WaitInv'
      BY <1>1, <1>4, <2>6, <3>1, <3>2, StillWaiting
    <3> QED
      BY <2>1, <2>4, <3>3 DEF TypeInv
  <2> QED
    BY <2>5, <2>6
<1> QED
  BY <1>3, <1>4 DEF Saved, NoSend

LEMMA DeletedKeeps ==
  ASSUME TypeInv, NEW i \in Slots, Deleted(i)
  PROVE  TypeInv'
<1>1. /\ reqs[i] # NoRequest /\ reqs[i].op = "delete" /\ reqs' = Free(i)
      /\ UNCHANGED <<kind, table, born, loading, broken, dialog, left, quiet>>
      /\ \/ list' = [list EXCEPT ![reqs[i].row] = NoRow] /\ confirm' = NoRow
         \/ UNCHANGED <<list, confirm>>
  BY DEF Deleted, Arrives, NoSend
<1>2. list' \in Rows /\ Known(list', born) /\ confirm' \in Row \union {NoRow}
  <2>1. list \in Rows /\ Known(list, born) /\ confirm \in Row \union {NoRow}
    BY DEF TypeInv, PageInv, RowOK
  <2> QED
    BY <1>1, <2>1 DEF Rows, Known
<1>3. RequestsInv'
  BY <1>1, FreeIs DEF RequestsInv
<1>4. PageInv'
  BY <1>1, <1>2, PageStays DEF TypeInv, PageInv, Editing, RowOK
<1>5. WaitInv'
  BY <1>1, FreeIs, StillWaiting
<1> QED
  BY <1>3, <1>4, <1>5 DEF TypeInv

LEMMA GrantedKeeps ==
  ASSUME TypeInv, NEW i \in Slots, Granted(i)
  PROVE  TypeInv'
<1>1. /\ reqs[i] # NoRequest /\ reqs[i].op = "add" /\ reqs' = Free(i) /\ Ended(i)
      /\ UNCHANGED <<kind, table, born, list, loading, broken, confirm, left, quiet>>
      /\ dialog' = IF ~reqs[i].own THEN dialog
                   ELSE IF Answered(i)
                   THEN [dialog EXCEPT !.working = FALSE, !.access[reqs[i].arg[1]] = reqs[i].arg[2]]
                   ELSE [dialog EXCEPT !.stranded = TRUE]
  BY DEF Granted, Arrives, NoSend
<1>2. RequestOK(reqs[i], born, kind) /\ OwnOK(reqs[i], dialog)
  BY <1>1, InUse
<1>3. reqs[i].op \in Grants
  BY <1>1, Nothing
<1>4. reqs[i].arg \in Site \X (Roles \union {"none"})
  BY <1>2, <1>3 DEF RequestOK
<1>5. /\ dialog' \in Dialogs \union {NoDialog} /\ dialog'.mode = dialog.mode
      /\ dialog'.row = dialog.row /\ dialog'.saving = dialog.saving
      /\ reqs[i].own => ~dialog'.working \/ dialog'.stranded
      /\ ~reqs[i].own => dialog' = dialog
  <2>1. reqs[i].own => dialog \in Dialogs
    BY <1>2, <1>3, Nothing DEF OwnOK, TypeInv, PageInv, RowOK
  <2>2. CASE reqs[i].own /\ Answered(i)
    BY <1>1, <1>4, <2>1, <2>2 DEF Dialogs, Access
  <2>3. CASE reqs[i].own /\ ~Answered(i)
    BY <1>1, <2>1, <2>3 DEF Dialogs
  <2>4. CASE ~reqs[i].own
    BY <1>1, <2>4 DEF TypeInv, PageInv, RowOK
  <2> QED
    BY <2>2, <2>3, <2>4
<1>6. RequestsInv'
  <2>1. SlotsOK(Free(i), born, kind, dialog')
    BY <1>5, FreeIs, SlotsStay
  <2> QED
    BY <1>1, <2>1 DEF RequestsInv
<1>7. PageInv'
  BY <1>1, <1>5, PageStays DEF TypeInv, PageInv, Editing, RowOK
<1>8. WaitInv'
  BY <1>1, <1>5, FreeIs, StillWaiting
<1> QED
  BY <1>6, <1>7, <1>8 DEF TypeInv

\* An answer that changes nothing on the page.
LEMMA FreedKeeps ==
  ASSUME TypeInv, NEW i \in Slots, reqs[i] # NoRequest, reqs' = Free(i),
         UNCHANGED <<kind, table, born, view, left, quiet>>,
         reqs[i].op \in {"grant", "revoke"} \/ reqs[i].dropped
  PROVE  TypeInv'
<1>1. UNCHANGED <<kind, table, born, list, loading, broken, confirm, dialog, left, quiet>>
  BY DEF view
<1>2. RequestsInv'
  BY <1>1, FreeIs DEF RequestsInv
<1>3. PageInv'
  BY <1>1, PageStays DEF TypeInv, PageInv, Editing, RowOK
<1>4. reqs[i].dropped => ~reqs[i].own
  BY InUse DEF RequestOK
<1>5. WaitInv'
  BY <1>1, <1>4, FreeIs, StillWaiting
<1> QED
  BY <1>2, <1>3, <1>5 DEF TypeInv

LEMMA AnswerKeeps ==
  ASSUME TypeInv, NEW i \in Slots, Answer(i)
  PROVE  TypeInv'
<1>1. CASE LoadArrives(i)
  BY <1>1, LoadArrivesKeeps
<1>2. CASE SaveFails(i)
  BY <1>2, SaveFailsKeeps
<1>3. CASE Created(i)
  BY <1>3, CreatedKeeps
<1>4. CASE Saved(i)
  BY <1>4, SavedKeeps
<1>5. CASE Deleted(i)
  BY <1>5, DeletedKeeps
<1>6. CASE Granted(i)
  BY <1>6, GrantedKeeps
<1>7. CASE GrantAnswered(i)
  BY <1>7, FreedKeeps DEF GrantAnswered, Arrives, NoSend
<1>8. CASE Dropped(i)
  BY <1>8, FreedKeeps DEF Dropped, NoSend
<1> QED
  BY <1>1, <1>2, <1>3, <1>4, <1>5, <1>6, <1>7, <1>8 DEF Answer

-----------------------------------------------------------------------------
(***************************************************************************)
(* The operator                                                            *)
(***************************************************************************)

LEMMA ReopenKeeps ==
  ASSUME TypeInv, Reopen
  PROVE  TypeInv'
<1> DEFINE load == Request("load", NoRow, NoRow)
           m == CHOOSE i \in Slots : reqs[i] = NoRequest
<1>1. /\ left > 0 /\ left' = left - 1 /\ list' = Empty /\ loading' = TRUE /\ broken' = FALSE
      /\ dialog' = NoDialog /\ confirm' = NoRow /\ quiet' = (UnderWay = {})
      /\ UNCHANGED <<kind, table, born>>
  BY DEF Reopen, Spend
<1>2. m \in Slots /\ reqs' = Put(DroppedAll, m, load)
  BY DEF Reopen
<1> HIDE DEF m
<1>3. SlotsOK(DroppedAll, born, kind, NoDialog)
  BY AllDisowned DEF TypeInv, RequestsInv
<1>4. RequestsInv'
  <2>1. SlotOK(load, born, kind, NoDialog)
    BY LoadIsOK
  <2> HIDE DEF load
  <2>2. SlotsOK(reqs', born, kind, NoDialog)
    BY <1>2, <1>3, <2>1, PutIs
  <2> QED
    BY <1>1, <2>2 DEF RequestsInv
<1>5. Empty \in Rows /\ Known(Empty, born)
  BY DEF Empty, Rows, Known
<1>6. left' \in 0..Budget /\ quiet' \in BOOLEAN
  BY <1>1, ControllerAssumption DEF TypeInv, PageInv, RowOK
<1>7. PageInv'
  BY <1>1, <1>5, <1>6, NoDialogIs, PageStays DEF TypeInv, PageInv, RowOK
<1>8. Loads(reqs')
  <2>1. load.op = "load" /\ ~load.dropped
    BY LoadIsOK
  <2> HIDE DEF load
  <2>2. reqs'[m] = load
    BY <1>2, PutAt
  <2> QED
    BY <1>2, <2>1, <2>2 DEF Loads
<1>9. WaitInv'
  BY <1>1, <1>8, Nothing DEF WaitInv
<1> QED
  BY <1>4, <1>7, <1>9 DEF TypeInv

\* A step of the page that sends nothing and leaves the dialog as it waits.
LEMMA ClickKeeps ==
  ASSUME TypeInv, UNCHANGED <<kind, table, born, list, loading, broken, reqs, left>>,
         quiet' \in BOOLEAN, confirm' \in Row \union {NoRow},
         dialog' \in Dialogs \union {NoDialog},
         RowOK(dialog', born),
         dialog = NoDialog \/ (dialog'.mode = dialog.mode /\ dialog'.row = dialog.row),
         dialog'.saving => dialog.saving,
         dialog'.working /\ ~dialog'.stranded => dialog.working /\ ~dialog.stranded
  PROVE  TypeInv'
<1>1. UNCHANGED <<left>>
  OBVIOUS
<1>2. SlotsOK(reqs, born, kind, dialog')
  BY SlotsStay, Nothing DEF TypeInv, RequestsInv
<1>3. RequestsInv'
  BY <1>1, <1>2 DEF RequestsInv
<1>4. PageInv'
  BY <1>1, PageStays DEF TypeInv, PageInv, RowOK
<1>5. WaitInv'
  BY <1>1 DEF TypeInv, WaitInv
<1> QED
  BY <1>3, <1>4, <1>5 DEF TypeInv

\* A dialog that is opened.
LEMMA DialogIs ==
  ASSUME NEW mode \in {"add", "edit"}, NEW row \in Row \union {NoRow}, NEW form \in Form,
         NEW access \in Access
  PROVE  /\ Dialog(mode, row, form, access) \in Dialogs
         /\ Dialog(mode, row, form, access).mode = mode
         /\ Dialog(mode, row, form, access).row = row
         /\ Dialog(mode, row, form, access).form = form
         /\ Dialog(mode, row, form, access).access = access
         /\ Dialog(mode, row, form, access).touched = {}
         /\ ~Dialog(mode, row, form, access).saving
         /\ ~Dialog(mode, row, form, access).working
BY DEF Dialog, Dialogs

LEMMA OpenAddKeeps ==
  ASSUME TypeInv, OpenAdd
  PROVE  TypeInv'
<1> DEFINE d == Dialog("add", NoRow, NewForm, NoAccess)
<1>1. /\ dialog = NoDialog /\ dialog' = d
      /\ UNCHANGED <<kind, table, born, list, loading, broken, confirm, reqs, left, quiet>>
  BY DEF OpenAdd, Shown
<1>2. NewForm \in Form /\ NoAccess \in Access
  BY DEF NewForm, Form, Starts, Listed, NoAccess, Access
<1>3. d \in Dialogs /\ RowOK(d, born) /\ ~d.saving /\ ~d.working
  BY <1>2, DialogIs DEF RowOK
<1> HIDE DEF d
<1> QED
  BY <1>1, <1>3, ClickKeeps DEF TypeInv, PageInv, RowOK

\* What a dialog starts with: a version becomes a listed one, once.
LEMMA EditFormIs ==
  ASSUME NEW x \in Form
  PROVE  /\ EditForm(x) \in Form /\ x.version \in DOMAIN Starts
         /\ EditForm(x)["name"] = x["name"] /\ EditForm(x)["text"] = x["text"]
         /\ EditForm(x)["version"] = normalizeVersion(x["version"])
         /\ normalizeVersion(normalizeVersion(x["version"])) = normalizeVersion(x["version"])
<1> DEFINE v == x.version
           w == normalizeVersion(v)
<1>1. v \in DOMAIN Starts
  BY DEF Form
<1>2. DOMAIN Starts = {"1.3", "1.4", "1.5", "1.5-rolling", "2.0"}
  BY DEF Starts, Listed
<1>3. \A u \in Listed : u \in DOMAIN Starts /\ normalizeVersion(u) = u
  BY <1>2 DEF Starts, Listed, normalizeVersion
<1> HIDE DEF v
<1>4. w \in Listed
  BY <1>1, <1>2 DEF Listed, Starts, normalizeVersion
<1> HIDE DEF w
<1>5. w \in DOMAIN Starts /\ normalizeVersion(w) = w
  BY <1>3, <1>4
<1> USE DEF v
<1>6. EditForm(x) = [x EXCEPT !.version = w]
  BY DEF EditForm, w
<1>7. /\ EditForm(x) \in Form /\ EditForm(x)["name"] = x["name"]
      /\ EditForm(x)["text"] = x["text"] /\ EditForm(x)["version"] = w
  BY <1>5, <1>6 DEF Form
<1> QED
  BY <1>1, <1>5, <1>7 DEF w

LEMMA OpenEditIs ==
  ASSUME TypeInv, NEW r \in Row, OpenEdit(r)
  PROVE  /\ dialog = NoDialog /\ list[r] \in Entry /\ r \in born
         /\ dialog' \in Dialogs /\ dialog'.mode = "edit" /\ dialog'.row = r
         /\ dialog'.form = EditForm(list[r].form) /\ dialog'.access = list[r].access
         /\ dialog'.touched = {} /\ ~dialog'.saving /\ ~dialog'.working
<1>1. /\ dialog = NoDialog /\ list[r] # NoRow
      /\ dialog' = Dialog("edit", r, EditForm(list[r].form), list[r].access)
  BY DEF OpenEdit, Shown
<1>2. list[r] \in Entry /\ r \in born
  BY <1>1 DEF TypeInv, PageInv, Rows, Known, RowOK
<1>3. EditForm(list[r].form) \in Form /\ list[r].access \in Access
  BY <1>2, EditFormIs DEF Entry
<1> QED
  BY <1>1, <1>2, <1>3, DialogIs

LEMMA OpenEditKeeps ==
  ASSUME TypeInv, NEW r \in Row, OpenEdit(r)
  PROVE  TypeInv'
<1>1. /\ confirm' = NoRow /\ quiet' \in BOOLEAN
      /\ UNCHANGED <<kind, table, born, list, loading, broken, reqs, left>>
  BY DEF OpenEdit
<1> QED
  BY <1>1, OpenEditIs, ClickKeeps DEF RowOK

LEMMA TypeIs ==
  ASSUME TypeInv, NEW f \in Fields, NEW v, Type(f, v),
         \A x \in Form : [x EXCEPT ![f] = v] \in Form
  PROVE  /\ dialog \in Dialogs /\ dialog' \in Dialogs
         /\ dialog'.mode = dialog.mode /\ dialog'.row = dialog.row
         /\ dialog'.access = dialog.access /\ dialog'.saving = dialog.saving
         /\ dialog'.working = dialog.working /\ dialog'.stranded = dialog.stranded
         /\ dialog'.touched = dialog.touched \union {f}
         /\ \A g \in Fields \ {f} : dialog'.form[g] = dialog.form[g]
<1>1. /\ dialog' = [dialog EXCEPT !.form[f] = v, !.touched = @ \union {f}]
      /\ dialog # NoDialog
  BY DEF Type, DialogShown
<1>2. dialog \in Dialogs
  BY <1>1 DEF TypeInv, PageInv, RowOK
<1>3. dialog' = [dialog EXCEPT !.form = [dialog.form EXCEPT ![f] = v],
                               !.touched = dialog.touched \union {f}]
  BY <1>1, <1>2 DEF Dialogs
<1>4. [dialog.form EXCEPT ![f] = v] \in Form
  BY <1>2 DEF Dialogs
<1>5. dialog.touched \union {f} \in SUBSET Fields
  BY <1>2 DEF Dialogs
<1>6. \A g \in Fields \ {f} : [dialog.form EXCEPT ![f] = v][g] = dialog.form[g]
  BY <1>2 DEF Dialogs, Form, Fields
<1> DEFINE x == [dialog.form EXCEPT ![f] = v]
           t == dialog.touched \union {f}
<1>7. x \in Form /\ t \in SUBSET Fields /\ dialog' = [dialog EXCEPT !.form = x, !.touched = t]
  BY <1>3, <1>4, <1>5
<1>8. \A g \in Fields \ {f} : x[g] = dialog.form[g]
  BY <1>6
<1>9. t = dialog.touched \union {f}
  OBVIOUS
<1> HIDE DEF x, t
<1> QED
  BY <1>2, <1>7, <1>8, <1>9 DEF Dialogs

LEMMA TypeKeeps ==
  ASSUME TypeInv, NEW f \in Fields, NEW v, Type(f, v),
         \A x \in Form : [x EXCEPT ![f] = v] \in Form
  PROVE  TypeInv'
<1>1. UNCHANGED <<kind, table, born, list, loading, broken, confirm, reqs, left, quiet>>
  BY DEF Type
<1>2. quiet' \in BOOLEAN /\ confirm' \in Row \union {NoRow}
  BY <1>1 DEF TypeInv, PageInv, RowOK
<1>3. RowOK(dialog', born)
  BY TypeIs DEF TypeInv, PageInv, Editing, RowOK
<1> QED
  BY <1>1, <1>2, <1>3, TypeIs, ClickKeeps

LEMMA TypedValues ==
  /\ \A v \in {"n", "m"} : \A x \in Form : [x EXCEPT !["name"] = v] \in Form
  /\ \A v \in {"", "t"} : \A x \in Form : [x EXCEPT !["text"] = v] \in Form
  /\ \A v \in Listed : \A x \in Form : [x EXCEPT !["version"] = v] \in Form
BY DEF Form, Starts

\* A step of the page that sends a request.
LEMMA SendKeeps ==
  ASSUME TypeInv, NEW q, Send(q), SlotOK(q, born, kind, dialog),
         UNCHANGED <<kind, table, born, list, loading, broken, confirm>>,
         dialog' \in Dialogs \union {NoDialog}, dialog'.mode = dialog.mode,
         dialog'.row = dialog.row,
         dialog'.saving => dialog.saving \/ (q.own /\ q.op \in {"create", "patch"}),
         dialog'.working /\ ~dialog'.stranded =>
           (dialog.working /\ ~dialog.stranded) \/ (q.own /\ q.op = "add")
  PROVE  TypeInv'
<1>1. SendIn(reqs, q) /\ left > 0 /\ left' = left - 1
  BY DEF Send, Spend
<1>2. SlotsOK(reqs, born, kind, dialog') /\ SlotOK(q, born, kind, dialog')
  BY SlotsStay, SlotStays DEF TypeInv, RequestsInv
<1>3. /\ SlotsOK(reqs', born, kind, dialog') /\ quiet' \in BOOLEAN
      /\ \A j \in Slots : reqs[j] # NoRequest => reqs'[j] = reqs[j]
      /\ \E j \in Slots : reqs'[j] = q
  BY <1>1, <1>2, SendInOK
<1>4. RequestsInv'
  BY <1>1, <1>3 DEF RequestsInv
<1>5. left' \in 0..Budget
  BY <1>1, ControllerAssumption DEF TypeInv, PageInv, RowOK
<1>6. PageInv'
  BY <1>1, <1>3, <1>5, PageStays DEF TypeInv, PageInv, Editing, RowOK
<1>7. \A j \in Slots : reqs[j].op # "none" => reqs'[j] = reqs[j]
  BY <1>3, Nothing
<1>8. /\ Loads(reqs) => Loads(reqs')
      /\ Saves(reqs) => Saves(reqs')
      /\ Adds(reqs) => Adds(reqs')
  BY <1>7 DEF Loads, Saves, Adds
<1>9. /\ q.own /\ q.op \in {"create", "patch"} => Saves(reqs')
      /\ q.own /\ q.op = "add" => Adds(reqs')
  BY <1>3 DEF Saves, Adds
<1>10. WaitInv'
  BY <1>1, <1>8, <1>9 DEF TypeInv, WaitInv
<1> QED
  BY <1>4, <1>6, <1>10 DEF TypeInv

LEMMA CloseDialogKeeps ==
  ASSUME TypeInv, CloseDialog
  PROVE  TypeInv'
<1> DEFINE load == Request("load", NoRow, NoRow)
<1>1. /\ dialog' = NoDialog /\ UNCHANGED <<kind, table, born, list, loading, broken, confirm>>
      /\ \/ left > 0 /\ left' = left - 1 /\ SendIn(Disowned, load)
         \/ reqs' = Disowned /\ UNCHANGED <<left, quiet>>
  BY DEF CloseDialog, Spend, NoSend
<1>2. /\ SlotsOK(Disowned, born, kind, NoDialog)
      /\ \A i \in Slots : /\ Disowned[i] = NoRequest <=> reqs[i] = NoRequest
                          /\ Disowned[i].op = reqs[i].op
                          /\ Disowned[i].dropped = reqs[i].dropped
  BY AllDisowned DEF TypeInv, RequestsInv
<1>3. SlotOK(load, born, kind, NoDialog)
  BY LoadIsOK
<1> HIDE DEF load
<1>4. /\ SlotsOK(reqs', born, kind, NoDialog) /\ quiet' \in BOOLEAN
      /\ \A j \in Slots : reqs[j] # NoRequest =>
           reqs'[j].op = reqs[j].op /\ reqs'[j].dropped = reqs[j].dropped
  <2>1. CASE SendIn(Disowned, load)
    <3>1. /\ SlotsOK(reqs', born, kind, NoDialog) /\ quiet' \in BOOLEAN
          /\ \A j \in Slots : Disowned[j] # NoRequest => reqs'[j] = Disowned[j]
      BY <1>2, <1>3, <2>1, SendInOK
    <3> QED
      BY <1>2, <3>1
  <2>2. CASE reqs' = Disowned /\ UNCHANGED quiet
    BY <1>2, <2>2 DEF TypeInv, PageInv, RowOK
  <2> QED
    BY <1>1, <2>1, <2>2
<1>5. left' \in 0..Budget
  BY <1>1, ControllerAssumption DEF TypeInv, PageInv, RowOK
<1>6. RequestsInv'
  BY <1>1, <1>4, <1>5 DEF RequestsInv
<1>7. PageInv'
  BY <1>1, <1>4, <1>5, NoDialogIs, PageStays DEF TypeInv, PageInv, RowOK
<1>8. \A j \in Slots : reqs[j].op # "none" =>
        reqs'[j].op = reqs[j].op /\ reqs'[j].dropped = reqs[j].dropped
  BY <1>4, Nothing
<1>9. WaitInv'
  BY <1>1, <1>8, WaitingForList
<1> QED
  BY <1>6, <1>7, <1>9 DEF TypeInv

LEMMA SubmitKeeps ==
  ASSUME TypeInv, Submit
  PROVE  TypeInv'
<1> DEFINE q == Request(IF Editing THEN "patch" ELSE "create", dialog.row, dialog.form)
<1>1. /\ dialog # NoDialog /\ dialog' = [dialog EXCEPT !.saving = TRUE] /\ Send(q)
      /\ UNCHANGED <<kind, table, born, list, loading, broken, confirm>>
  BY DEF Submit, DialogShown
<1>2. dialog \in Dialogs /\ (Editing => dialog.row \in born) /\ born \subseteq Row /\ kind \in Kinds
  BY <1>1 DEF TypeInv, PageInv, RowOK, Editing
<1>3. /\ dialog.mode \in {"add", "edit"} /\ dialog.row \in Row \union {NoRow} /\ dialog.form \in Form
      /\ dialog' \in Dialogs /\ dialog'.mode = dialog.mode /\ dialog'.row = dialog.row
      /\ dialog'.working = dialog.working /\ dialog'.stranded = dialog.stranded
  BY <1>1, <1>2 DEF Dialogs
<1>4. CASE Editing
  <2>1. q = Request("patch", dialog.row, dialog.form)
    BY <1>4
  <2>2. SlotOK(q, born, kind, dialog) /\ q.own /\ q.op = "patch"
    BY <1>2, <1>3, <1>4, <2>1, NewRequest, Nothing DEF Editing, RowOK
  <2> HIDE DEF q
  <2> QED
    BY <1>1, <1>3, <2>2, SendKeeps
<1>5. CASE ~Editing
  <2>1. q = Request("create", dialog.row, dialog.form)
    BY <1>5
  <2>2. dialog.mode = "add"
    BY <1>3, <1>5 DEF Editing, RowOK
  <2>3. dialog.row = NoRow
    BY <2>2 DEF TypeInv, PageInv, RowOK
  <2>4. SlotOK(q, born, kind, dialog) /\ q.own /\ q.op = "create"
    <3>1. "create" \in Ops /\ "create" \notin {"patch", "delete"} \union Grants
      BY Nothing
    <3>2. "create" \notin {"patch"} \union Grants /\ "create" \notin Grants
      BY Nothing
    <3>3. q = Request("create", NoRow, dialog.form)
      BY <2>1, <2>3
    <3>4. dialog.form \in Form \union (Site \X (Roles \union {"none"})) \union {NoRow}
      BY <1>3
    <3> HIDE DEF q
    <3> QED
      BY <1>3, <2>2, <3>1, <3>2, <3>3, <3>4, NewRequest, SMTT(30)
  <2> HIDE DEF q
  <2> QED
    BY <1>1, <1>3, <2>4, SendKeeps
<1> QED
  BY <1>4, <1>5

\* A step of an operator who edits the access of a user.
LEMMA EditsUserIs ==
  ASSUME TypeInv, EditsUser
  PROVE  /\ kind = "users" /\ dialog \in Dialogs /\ dialog.mode = "edit"
         /\ dialog.row \in born /\ dialog.row \in Row
         /\ "add" \in Grants /\ "grant" \in Grants /\ "revoke" \in Grants
         /\ \A op \in Grants, arg \in Site \X (Roles \union {"none"}) :
              /\ SlotOK(Request(op, dialog.row, arg), born, kind, dialog)
              /\ Request(op, dialog.row, arg).own /\ Request(op, dialog.row, arg).op = op
<1>1. /\ kind = "users" /\ dialog \in Dialogs /\ dialog.mode = "edit"
      /\ dialog.row \in born /\ dialog.row \in Row
  BY DEF EditsUser, DialogShown, Editing, TypeInv, PageInv, RowOK
<1>2. ASSUME NEW op \in Grants, NEW arg \in Site \X (Roles \union {"none"})
      PROVE  /\ SlotOK(Request(op, dialog.row, arg), born, kind, dialog)
             /\ Request(op, dialog.row, arg).own /\ Request(op, dialog.row, arg).op = op
  <2>1. op \in Ops /\ op \notin {"create", "patch"}
    BY Nothing
  <2> QED
    BY <1>1, <2>1, NewRequest
<1> QED
  BY <1>1, <1>2, Nothing

LEMMA addAccessKeeps ==
  ASSUME TypeInv, NEW s \in Site, NEW role \in Roles, addAccess(s, role)
  PROVE  TypeInv'
<1> DEFINE q == Request("add", dialog.row, <<s, role>>)
<1>1. /\ EditsUser /\ dialog' = [dialog EXCEPT !.working = TRUE] /\ Send(q)
      /\ UNCHANGED <<kind, table, born, list, loading, broken, confirm>>
  BY DEF addAccess
<1>2. /\ dialog' \in Dialogs /\ dialog'.mode = dialog.mode /\ dialog'.row = dialog.row
      /\ dialog'.saving = dialog.saving
  BY <1>1, EditsUserIs DEF Dialogs
<1>3. SlotOK(q, born, kind, dialog) /\ q.own /\ q.op = "add"
  BY <1>1, EditsUserIs
<1> HIDE DEF q
<1> QED
  BY <1>1, <1>2, <1>3, SendKeeps

\* The access that the dialog shows changes.
LEMMA AccessWith ==
  ASSUME dialog \in Dialogs, NEW s \in Site, NEW a \in Roles \union {"none"},
         dialog' = [dialog EXCEPT !.access[s] = a]
  PROVE  /\ dialog' \in Dialogs /\ dialog'.mode = dialog.mode /\ dialog'.row = dialog.row
         /\ dialog'.saving = dialog.saving /\ dialog'.working = dialog.working
         /\ dialog'.stranded = dialog.stranded
         /\ dialog'.form = dialog.form /\ dialog'.touched = dialog.touched
         /\ dialog'.access[s] = a /\ \A o \in Site \ {s} : dialog'.access[o] = dialog.access[o]
BY DEF Dialogs, Access

LEMMA changeRoleKeeps ==
  ASSUME TypeInv, NEW s \in Site, NEW role \in Roles, changeRole(s, role)
  PROVE  TypeInv'
<1> DEFINE q == Request("grant", dialog.row, <<s, role>>)
<1>1. /\ EditsUser /\ dialog' = [dialog EXCEPT !.access[s] = role] /\ Send(q)
      /\ UNCHANGED <<kind, table, born, list, loading, broken, confirm>>
  BY DEF changeRole
<1>2. /\ dialog' \in Dialogs /\ dialog'.mode = dialog.mode /\ dialog'.row = dialog.row
      /\ dialog'.saving = dialog.saving /\ dialog'.working = dialog.working
      /\ dialog'.stranded = dialog.stranded
  BY <1>1, EditsUserIs, AccessWith
<1>3. SlotOK(q, born, kind, dialog)
  BY <1>1, EditsUserIs
<1> HIDE DEF q
<1> QED
  BY <1>1, <1>2, <1>3, SendKeeps

LEMMA removeAccessKeeps ==
  ASSUME TypeInv, NEW s \in Site, removeAccess(s)
  PROVE  TypeInv'
<1> DEFINE q == Request("revoke", dialog.row, <<s, "none">>)
<1>1. /\ EditsUser /\ dialog' = [dialog EXCEPT !.access[s] = "none"] /\ Send(q)
      /\ UNCHANGED <<kind, table, born, list, loading, broken, confirm>>
  BY DEF removeAccess
<1>2. /\ dialog' \in Dialogs /\ dialog'.mode = dialog.mode /\ dialog'.row = dialog.row
      /\ dialog'.saving = dialog.saving /\ dialog'.working = dialog.working
      /\ dialog'.stranded = dialog.stranded
  BY <1>1, EditsUserIs, AccessWith
<1>3. SlotOK(q, born, kind, dialog)
  BY <1>1, EditsUserIs
<1> HIDE DEF q
<1> QED
  BY <1>1, <1>2, <1>3, SendKeeps

LEMMA ConfirmDeleteKeeps ==
  ASSUME TypeInv, ConfirmDelete
  PROVE  TypeInv'
<1> DEFINE q == Request("delete", confirm, NoRow)
<1>1. /\ confirm # NoRow /\ list[confirm] # NoRow /\ Send(q)
      /\ UNCHANGED <<kind, table, born, list, loading, broken, confirm, dialog>>
  BY DEF ConfirmDelete, view
<1>2. confirm \in Row /\ confirm \in born
  BY <1>1 DEF TypeInv, PageInv, Known
<1>3. "delete" \in Ops /\ "delete" \notin {"create", "patch"} /\ "delete" \notin Grants
  BY Nothing
<1>4. SlotOK(q, born, kind, dialog)
  BY <1>2, <1>3, NewRequest
<1> HIDE DEF q
<1>5. dialog \in Dialogs \union {NoDialog}
  BY DEF TypeInv, PageInv
<1> QED
  BY <1>1, <1>4, <1>5, SendKeeps

LEMMA OperatorKeeps ==
  ASSUME TypeInv, Operator
  PROVE  TypeInv'
<1>1. CASE Reopen
  BY <1>1, ReopenKeeps
<1>2. CASE OpenAdd
  BY <1>2, OpenAddKeeps
<1>3. CASE CloseDialog
  BY <1>3, CloseDialogKeeps
<1>4. CASE Submit
  BY <1>4, SubmitKeeps
<1>5. CASE ClickAway
  BY <1>5, ClickKeeps DEF ClickAway, TypeInv, PageInv
<1>6. CASE ConfirmDelete
  BY <1>6, ConfirmDeleteKeeps
<1>7. ASSUME NEW r \in Row, OpenEdit(r) PROVE TypeInv'
  BY <1>7, OpenEditKeeps
<1>8. ASSUME NEW r \in Row, AskDelete(r) PROVE TypeInv'
  BY <1>8, ClickKeeps DEF AskDelete, TypeInv, PageInv
<1>9. ASSUME NEW v \in {"n", "m"}, Type("name", v) PROVE TypeInv'
  BY <1>9, TypedValues, TypeKeeps DEF Fields
<1>10. ASSUME NEW v \in {"", "t"}, Type("text", v) PROVE TypeInv'
  BY <1>10, TypedValues, TypeKeeps DEF Fields
<1>11. ASSUME NEW v \in Listed, Type("version", v) PROVE TypeInv'
  BY <1>11, TypedValues, TypeKeeps DEF Fields
<1>12. ASSUME NEW s \in Site, removeAccess(s) PROVE TypeInv'
  BY <1>12, removeAccessKeeps
<1>13. ASSUME NEW s \in Site, NEW role \in Roles, addAccess(s, role) PROVE TypeInv'
  BY <1>13, addAccessKeeps
<1>14. ASSUME NEW s \in Site, NEW role \in Roles, changeRole(s, role) PROVE TypeInv'
  BY <1>14, changeRoleKeeps
<1> QED
  BY <1>1, <1>2, <1>3, <1>4, <1>5, <1>6, <1>7, <1>8, <1>9, <1>10, <1>11, <1>12, <1>13, <1>14
  DEF Operator

-----------------------------------------------------------------------------
(***************************************************************************)
(* What holds of every behaviour                                           *)
(***************************************************************************)

LEMMA InitHolds ==
  ASSUME Init
  PROVE  TypeInv
<1> DEFINE load == Request("load", NoRow, NoRow)
           m == CHOOSE i \in Slots : TRUE
           none == [j \in Slots |-> NoRequest]
<1>1. m \in Slots
  BY ControllerAssumption
<1>2. /\ kind \in Kinds /\ table \in Rows /\ born = FirstRows /\ list = Empty /\ loading = TRUE
      /\ broken = FALSE /\ dialog = NoDialog /\ confirm = NoRow /\ reqs = Put(none, m, load)
      /\ left = Budget /\ quiet = TRUE
      /\ \A r \in Row : r \notin FirstRows => ~Has(r)
      /\ kind # "users" => \A r \in Row : Has(r) => table[r].access = NoAccess
  <2>1. PICK first \in [FirstRows -> Entry] :
          /\ table = [r \in Row |-> IF r \in FirstRows THEN first[r] ELSE NoRow]
          /\ kind # "users" => \A r \in FirstRows : first[r].access = NoAccess
    BY DEF Init
  <2>2. table \in Rows /\ \A r \in Row : r \notin FirstRows => ~Has(r)
    BY <2>1 DEF Rows, Has
  <2>3. kind # "users" => \A r \in Row : Has(r) => table[r].access = NoAccess
    BY <2>1 DEF Has
  <2> QED
    BY <2>2, <2>3, ControllerAssumption DEF Init
<1>3. SlotsOK(none, born, kind, dialog)
  BY NothingIsOK DEF SlotsOK
<1>4. SlotOK(load, born, kind, dialog) /\ load.op = "load" /\ ~load.dropped
  BY LoadIsOK
<1> HIDE DEF load, m, none
<1>5. RequestsInv
  BY <1>1, <1>2, <1>3, <1>4, PutIs DEF RequestsInv
<1>6. PageInv
  <2>1. list \in Rows /\ Known(list, born) /\ Known(table, born)
    BY <1>2 DEF Known, Has, Empty, Rows
  <2>2. born \subseteq Row /\ left \in 0..Budget
    BY <1>2, ControllerAssumption
  <2> QED
    BY <1>2, <2>1, <2>2, NoDialogIs DEF PageInv
<1>7. WaitInv
  <2>1. reqs[m] = load
    <3>1. \A slots, q : \A i \in Slots : Put(slots, i, q)[i] = q
      BY DEF Put
    <3> QED
      BY <1>1, <1>2, <3>1
  <2>2. Loads(reqs)
    BY <1>1, <1>4, <2>1 DEF Loads
  <2> QED
    BY <1>2, <2>2, Nothing DEF WaitInv
<1> QED
  BY <1>5, <1>6, <1>7 DEF TypeInv

LEMMA NextKeeps ==
  ASSUME TypeInv, [Next]_vars
  PROVE  TypeInv'
<1>1. CASE Operator
  BY <1>1, OperatorKeeps
<1>2. ASSUME NEW i \in Slots, Serve(i) PROVE TypeInv'
  BY <1>2, ServeKeeps
<1>3. ASSUME NEW i \in Slots, Answer(i) PROVE TypeInv'
  BY <1>3, AnswerKeeps
<1>4. ASSUME NEW i \in Slots, Fault(i) PROVE TypeInv'
  BY <1>4, FaultKeeps
<1>5. CASE UNCHANGED vars
  BY <1>5 DEF vars, view, TypeInv, RequestsInv, PageInv, WaitInv, Known, Has
<1> QED
  BY <1>1, <1>2, <1>3, <1>4, <1>5 DEF Next

LEMMA Typed ==
  Spec => []TypeInv
BY InitHolds, NextKeeps, PTL DEF Spec

LEMMA TypeOKHolds ==
  ASSUME TypeInv
  PROVE  TypeOK
<1>1. PageInv /\ \A i \in Slots : reqs[i] # NoRequest => reqs[i] \in Requests
  BY InUse DEF TypeInv
<1>2. {r \in Row : Has(r) \/ list[r] # NoRow} \subseteq born
  BY <1>1 DEF PageInv, Known, Has
<1>3. \A i \in UnderWay : reqs[i].op \in Ops /\ reqs[i].phase \in Phases
  BY <1>1 DEF Requests, UnderWay
<1> QED
  BY <1>1, <1>2, <1>3 DEF TypeOK, PageInv

\* The page, its dialog and the requests have their types, and a site has no users.
THEOREM PagesAreTyped == Spec => []TypeOK
BY Typed, TypeOKHolds, PTL

LEMMA NothingHangsHolds ==
  ASSUME TypeInv
  PROVE  NothingHangs
<1>1. \A i \in Slots : reqs[i].op # "none" => i \in UnderWay
  BY Nothing DEF UnderWay
<1> QED
  BY <1>1 DEF TypeInv, WaitInv, NothingHangs, Loads, Saves, Adds

\* Whatever order the requests are answered in, whatever is lost, and whichever dialogs
\* are closed meanwhile, a page that shows that it loads, saves or adds a grant has a
\* request of its own under way; only a dialog that has added a grant whose request was lost
\* keeps working, until it is closed.
THEOREM TheAwaitedIsUnderWay == Spec => []NothingHangs
BY Typed, NothingHangsHolds, PTL

-----------------------------------------------------------------------------
(***************************************************************************)
(* While no two requests got in each other's way                           *)
(***************************************************************************)

\* What a request q that is under way, with its answer, agrees with: the rows tb of the
\* database, what the list li and the dialog d of the page of kind k show.
AnswerTrue(q, tb, li, d, k) ==
  /\ ~q.dropped /\ q.phase # "lost" /\ (q.op = "load" => q.phase # "refused")
  /\ q.op = "load" /\ q.phase \in {"rows", "done"} => q.data = tb
  /\ q.op = "create" /\ q.phase = "done" =>
       q.data = tb[q.row] /\ li[q.row] = NoRow /\ (d.mode = "edit" => d.row # q.row)
  /\ q.op = "patch" /\ k # "users" =>
       li[q.row] # NoRow /\ (q.phase = "done" => q.data = tb[q.row])
  /\ q.op = "delete" =>
       /\ q.phase \in {"done", "refused"} => tb[q.row] = NoRow
       /\ d.mode = "edit" => d.row # q.row
  /\ q.op \in Grants \/ (q.op = "patch" /\ k = "users") => d.mode = "edit" /\ d.row = q.row
  /\ q.op \in {"patch"} \union Grants /\ d.mode = "edit" /\ d.row = q.row => q.own
  /\ q.op = "patch" /\ d.mode = "edit" /\ d.row = q.row =>
       \A f \in Fields \ d.touched : q.arg[f] = d.form[f]
  /\ q.op \in Grants =>
       /\ q.phase # "refused"
       /\ q.phase = "done" => tb[q.row].access[q.arg[1]] = q.arg[2]
       /\ q.op # "add" => d.access[q.arg[1]] = q.arg[2]
       /\ q.op = "revoke" => q.arg[2] = "none"

\* Two requests in two slots are about different things.
Apart(slots) ==
  \A i, j \in Slots : i # j /\ slots[i].op # "none" /\ slots[j].op # "none" =>
    /\ ~Conflict(slots[i], slots[j])
    /\ slots[i].op = "create" /\ slots[i].phase = "done" => slots[j].row # slots[i].row

\* A row of the list is that of the database, unless the list is being read, an answer
\* that changes it is on its way, or it is the user in the dialog.
NoLoad(slots) == \A i \in Slots : slots[i].op # "load"
Pending(slots, r) == \E i \in Slots : slots[i].op # "load" /\ slots[i].row = r /\ slots[i].phase = "done"
ListTrue(slots, tb, li, d, k) ==
  NoLoad(slots) => \A r \in Row : \/ k = "users" /\ d.mode = "edit" /\ d.row = r
                                  \/ Pending(slots, r)
                                  \/ li[r] = tb[r]

FormTrue(tb, d) ==
  d.mode = "edit" => /\ tb[d.row] # NoRow
                     /\ \A f \in Fields \ d.touched : d.form[f] = EditForm(tb[d.row].form)[f]

Asks(q, r, s) == q.op \in Grants /\ q.row = r /\ q.arg[1] = s
AccessTrue(slots, tb, d) ==
  d.mode = "edit" => \A s \in Site : (\A i \in Slots : ~Asks(slots[i], d.row, s)) =>
                                       d.access[s] = tb[d.row].access[s]

Agree(slots, tb, li, d, k) ==
  /\ \A i \in Slots : AnswerTrue(slots[i], tb, li, d, k)
  /\ Apart(slots)
  /\ ListTrue(slots, tb, li, d, k)
  /\ FormTrue(tb, d)
  /\ AccessTrue(slots, tb, d)

QuietInv == quiet => Agree(reqs, table, list, dialog, kind)

LEMMA NoRequestTrue ==
  \A tb, li, d, k : AnswerTrue(NoRequest, tb, li, d, k)
<1>1. /\ NoRequest.op \notin {"load", "create", "patch", "delete", "revoke"} \union Grants
      /\ NoRequest.phase \notin {"lost", "refused"} /\ ~NoRequest.dropped
  BY Nothing
<1> QED
  BY <1>1 DEF AnswerTrue

\* Some of the requests are still under way, with what they ask for.
LEMMA ApartSome ==
  ASSUME NEW slots, NEW slots2, Apart(slots),
         \A j \in Slots : slots2[j].op # "none" =>
           /\ slots2[j].op = slots[j].op /\ slots2[j].row = slots[j].row
           /\ slots2[j].arg = slots[j].arg /\ slots2[j].phase = slots[j].phase
  PROVE  Apart(slots2)
BY DEF Apart, Conflict

\* One of the requests is served; one that creates a row has that row.
LEMMA ApartServed ==
  ASSUME NEW slots, NEW slots2, Apart(slots), NEW i \in Slots,
         \A j \in Slots : j # i => slots2[j] = slots[j],
         slots[i].op # "none", slots2[i].op = slots[i].op, slots2[i].arg = slots[i].arg,
         \/ slots2[i].row = slots[i].row /\ (slots[i].op # "create" \/ slots2[i].phase # "done")
         \/ /\ slots[i].op = "create"
            /\ \A j \in Slots : j # i /\ slots[j].op # "none" => slots[j].row # slots2[i].row
  PROVE  Apart(slots2)
<1> SUFFICES ASSUME NEW j \in Slots, NEW m \in Slots, j # m,
                    slots2[j].op # "none", slots2[m].op # "none"
             PROVE  /\ ~Conflict(slots2[j], slots2[m])
                    /\ slots2[j].op = "create" /\ slots2[j].phase = "done" =>
                         slots2[m].row # slots2[j].row
  BY DEF Apart
<1>1. slots[j].op # "none" /\ slots[m].op # "none"
  OBVIOUS
<1>2. /\ ~Conflict(slots[j], slots[m])
      /\ slots[j].op = "create" /\ slots[j].phase = "done" => slots[m].row # slots[j].row
      /\ slots[m].op = "create" /\ slots[m].phase = "done" => slots[j].row # slots[m].row
  BY <1>1 DEF Apart
<1>3. ~Conflict(slots2[j], slots2[m])
  BY <1>2 DEF Conflict
<1>4. slots2[j].op = "create" /\ slots2[j].phase = "done" => slots2[m].row # slots2[j].row
  BY <1>1, <1>2
<1> QED
  BY <1>3, <1>4

\* A request that is sent is about something else than those that are under way.
LEMMA ApartSent ==
  ASSUME NEW slots, NEW slots2, NEW m \in Slots, NEW q, Apart(slots),
         \A j \in Slots : j # m => slots2[j] = slots[j],
         slots2[m] = q, q.phase # "done",
         \A j \in Slots : j # m /\ slots[j].op # "none" =>
           /\ ~Conflict(slots[j], q)
           /\ slots[j].op = "create" /\ slots[j].phase = "done" => q.row # slots[j].row
  PROVE  Apart(slots2)
<1> SUFFICES ASSUME NEW j \in Slots, NEW n \in Slots, j # n,
                    slots2[j].op # "none", slots2[n].op # "none"
             PROVE  /\ ~Conflict(slots2[j], slots2[n])
                    /\ slots2[j].op = "create" /\ slots2[j].phase = "done" =>
                         slots2[n].row # slots2[j].row
  BY DEF Apart
<1>1. CASE j # m /\ n # m
  BY <1>1 DEF Apart
<1>2. CASE n = m
  BY <1>2
<1>3. CASE j = m
  <2>1. ~Conflict(slots[n], q) /\ slots2[n] = slots[n]
    BY <1>3
  <2>2. ~Conflict(q, slots[n])
    BY <2>1 DEF Conflict
  <2> QED
    BY <1>3, <2>1, <2>2
<1> QED
  BY <1>1, <1>2, <1>3

\* A served request whose row changed in the database is pending.
LEMMA ListServed ==
  ASSUME NEW slots, NEW slots2, NEW tb, NEW tb2, NEW li, NEW d, NEW k,
         ListTrue(slots, tb, li, d, k), NEW i \in Slots,
         \A j \in Slots : j # i => slots2[j] = slots[j],
         slots2[i].op = slots[i].op, slots[i].op # "load", slots[i].phase # "done",
         \A o \in Row : o # slots2[i].row => tb2[o] = tb[o],
         tb2 # tb => slots2[i].phase = "done"
  PROVE  ListTrue(slots2, tb2, li, d, k)
<1> SUFFICES ASSUME NoLoad(slots2), NEW r \in Row
             PROVE  \/ k = "users" /\ d.mode = "edit" /\ d.row = r
                    \/ Pending(slots2, r)
                    \/ li[r] = tb2[r]
  BY DEF ListTrue
<1>1. NoLoad(slots)
  BY DEF NoLoad
<1>2. Pending(slots, r) => Pending(slots2, r)
  <2> SUFFICES ASSUME Pending(slots, r) PROVE Pending(slots2, r)
    OBVIOUS
  <2>1. PICK j \in Slots : slots[j].op # "load" /\ slots[j].row = r /\ slots[j].phase = "done"
    BY DEF Pending
  <2> QED
    BY <2>1 DEF Pending
<1>3. CASE tb2[r] = tb[r]
  BY <1>1, <1>2, <1>3 DEF ListTrue
<1>4. CASE tb2[r] # tb[r]
  <2>1. slots2[i].row = r /\ slots2[i].phase = "done"
    BY <1>4
  <2> QED
    BY <2>1 DEF Pending
<1> QED
  BY <1>3, <1>4

\* The same grants are asked for.
LEMMA AccessSame ==
  ASSUME NEW slots, NEW slots2, NEW tb, NEW tb2, NEW d, AccessTrue(slots, tb, d),
         \A j \in Slots : Asks(slots[j], d.row, slots[j].arg[1]) =>
           slots2[j].op = slots[j].op /\ slots2[j].row = slots[j].row /\ slots2[j].arg = slots[j].arg,
         d.mode = "edit" => tb2[d.row].access = tb[d.row].access
  PROVE  AccessTrue(slots2, tb2, d)
<1> SUFFICES ASSUME d.mode = "edit", NEW s \in Site, \A j \in Slots : ~Asks(slots2[j], d.row, s)
             PROVE  d.access[s] = tb2[d.row].access[s]
  BY DEF AccessTrue
<1>1. \A j \in Slots : ~Asks(slots[j], d.row, s)
  BY DEF Asks
<1> QED
  BY <1>1 DEF AccessTrue

\* A request that goes on while a row changes that it is not about.
LEMMA AnswerElsewhere ==
  ASSUME NEW q, NEW tb, NEW tb2, NEW li, NEW d, NEW k, NEW b,
         SlotOK(q, b, k, d), AnswerTrue(q, tb, li, d, k),
         tb2 # tb => /\ q.op # "load"
                     /\ q.row \in Row /\ (q.op = "create" => q.phase = "done") =>
                          tb2[q.row] = tb[q.row]
  PROVE  AnswerTrue(q, tb2, li, d, k)
<1>1. CASE q = NoRequest
  BY <1>1, NoRequestTrue
<1>2. CASE tb2 = tb
  BY <1>2
<1>3. CASE q # NoRequest /\ tb2 # tb
  <2>1. /\ q.op \in {"create"} /\ q.phase = "done" => q.row \in Row
        /\ q.op \in {"patch", "delete"} \union Grants => q.row \in Row
    BY <1>3, SlotFacts DEF RequestOK
  <2> QED
    BY <1>3, <2>1 DEF AnswerTrue
<1> QED
  BY <1>1, <1>2, <1>3

LEMMA OneTrue ==
  ASSUME TypeInv, Agree(reqs, table, list, dialog, kind), NEW i \in Slots
  PROVE  /\ SlotOK(reqs[i], born, kind, dialog)
         /\ AnswerTrue(reqs[i], table, list, dialog, kind)
         /\ reqs[i] = NoRequest <=> reqs[i].op = "none"
<1>1. SlotOK(reqs[i], born, kind, dialog)
  BY DEF TypeInv, RequestsInv, SlotsOK
<1> QED
  BY <1>1, SlotFacts DEF Agree

\* Nothing else that is under way is about the row of a request that saves or deletes it.
LEMMA OthersElsewhere ==
  ASSUME TypeInv, Agree(reqs, table, list, dialog, kind), NEW i \in Slots,
         reqs[i].op \in {"patch", "delete"}, NEW j \in Slots, j # i, reqs[j].op # "none"
  PROVE  /\ reqs[j].op # "load"
         /\ (reqs[j].op = "create" => reqs[j].phase = "done") => reqs[j].row # reqs[i].row
<1>1. /\ ~Conflict(reqs[i], reqs[j])
      /\ reqs[j].op = "create" /\ reqs[j].phase = "done" => reqs[i].row # reqs[j].row
  BY DEF Agree, Apart
<1>2. reqs[i].op \notin Grants
  BY Nothing
<1> QED
  BY <1>1, <1>2 DEF Conflict

\* A request that saves or deletes a row is served, or one is refused.
LEMMA WriteServed ==
  ASSUME TypeInv, Agree(reqs, table, list, dialog, kind), NEW i \in Slots,
         reqs[i] # NoRequest, reqs[i].phase = "sent", reqs[i].op # "load", NEW q,
         q.op = reqs[i].op, q.row = reqs[i].row, q.arg = reqs[i].arg, reqs' = Put(reqs, i, q),
         reqs[i].op # "create" \/ q.phase # "done",
         AnswerTrue(q, table', list, dialog, kind),
         table' # table => reqs[i].op \in {"patch", "delete"} /\ q.phase = "done",
         \A o \in Row : o # reqs[i].row => table'[o] = table[o],
         FormTrue(table', dialog),
         dialog.mode = "edit" => table'[dialog.row].access = table[dialog.row].access
  PROVE  Agree(reqs', table', list, dialog, kind)
<1>1. reqs'[i] = q /\ \A j \in Slots : j # i => reqs'[j] = reqs[j]
  BY PutAt
<1>2. reqs[i].op # "none"
  BY OneTrue
<1>3. ASSUME NEW j \in Slots PROVE AnswerTrue(reqs'[j], table', list, dialog, kind)
  <2>1. CASE j = i
    BY <1>1, <2>1
  <2>2. CASE j # i
    <3>1. reqs'[j] = reqs[j] /\ SlotOK(reqs[j], born, kind, dialog)
          /\ AnswerTrue(reqs[j], table, list, dialog, kind)
      BY <1>1, <2>2, OneTrue
    <3>2. CASE reqs[j] = NoRequest
      BY <3>1, <3>2, NoRequestTrue
    <3>3. CASE reqs[j] # NoRequest
      <4>1. reqs[j].op # "none"
        BY <3>3, OneTrue
      <4>2. table' # table => /\ reqs[j].op # "load"
                              /\ (reqs[j].op = "create" => reqs[j].phase = "done") =>
                                   reqs[j].row # reqs[i].row
        BY <2>2, <4>1, OthersElsewhere
      <4> QED
        BY <3>1, <4>2, AnswerElsewhere
    <3> QED
      BY <3>2, <3>3
  <2> QED
    BY <2>1, <2>2
<1>4. Apart(reqs')
  BY <1>1, <1>2, ApartServed DEF Agree
<1>5. ListTrue(reqs', table', list, dialog, kind)
  BY <1>1, ListServed DEF Agree
<1>6. AccessTrue(reqs', table', dialog)
  <2>1. \A j \in Slots : reqs'[j].op = reqs[j].op /\ reqs'[j].row = reqs[j].row
                         /\ reqs'[j].arg = reqs[j].arg
    BY <1>1
  <2> QED
    BY <2>1, AccessSame DEF Agree
<1> QED
  BY <1>3, <1>4, <1>5, <1>6 DEF Agree

LEMMA UpdateAgrees ==
  ASSUME TypeInv, Agree(reqs, table, list, dialog, kind), NEW i \in Slots,
         reqs[i] # NoRequest, Update(i)
  PROVE  Agree(reqs', table', list, dialog, kind)
<1>1. PICK e \in Entry :
        /\ e.form = Merge(table[reqs[i].row].form, reqs[i].arg)
        /\ e.access = table[reqs[i].row].access
        /\ table' = [table EXCEPT ![reqs[i].row] = e]
        /\ reqs' = Put(reqs, i, [reqs[i] EXCEPT !.phase = "done", !.data = e])
  BY UpdateIs
<1> DEFINE q == [reqs[i] EXCEPT !.phase = "done", !.data = e]
           r == reqs[i].row
<1>2. /\ q.op = reqs[i].op /\ q.row = r /\ q.arg = reqs[i].arg /\ q.phase = "done"
      /\ q.own = reqs[i].own /\ q.dropped = reqs[i].dropped /\ q.data = e
  <2>1. reqs[i] \in Requests
    BY InUse
  <2> QED
    BY <2>1 DEF Requests
<1>3. /\ reqs[i].op = "patch" /\ reqs[i].phase = "sent" /\ Has(r) /\ r \in Row
      /\ reqs[i].arg \in Form /\ dialog \in Dialogs \union {NoDialog} /\ kind \in Kinds
  BY InUse DEF Update, RequestOK, TypeInv, PageInv
<1>4. reqs' = Put(reqs, i, q)
  BY <1>1
<1> HIDE DEF q
<1>5. table \in Rows
  BY DEF TypeInv, PageInv
<1>6. table'[r] = e /\ \A o \in Row : o # r => table'[o] = table[o]
  BY <1>1, <1>3, <1>5 DEF Rows
<1>7. AnswerTrue(reqs[i], table, list, dialog, kind)
  BY OneTrue
<1>8. AnswerTrue(q, table', list, dialog, kind)
  <2>1. "patch" \notin Grants
    BY Nothing
  <2> QED
    BY <1>2, <1>3, <1>6, <1>7, <2>1 DEF AnswerTrue
<1>9. FormTrue(table', dialog)
  <2> SUFFICES ASSUME dialog.mode = "edit"
               PROVE  /\ table'[dialog.row] # NoRow
                      /\ \A f \in Fields \ dialog.touched : dialog.form[f] = EditForm(table'[dialog.row].form)[f]
    BY DEF FormTrue
  <2>1. dialog.row \in Row
    BY DEF TypeInv, PageInv, RowOK
  <2>2. /\ table[dialog.row] # NoRow
        /\ \A f \in Fields \ dialog.touched : dialog.form[f] = EditForm(table[dialog.row].form)[f]
    BY DEF Agree, FormTrue
  <2>3. CASE dialog.row # r
    BY <1>6, <2>1, <2>2, <2>3
  <2>4. CASE dialog.row = r
    <3>1. \A f \in Fields \ dialog.touched : reqs[i].arg[f] = dialog.form[f]
      BY <1>3, <1>7, <2>4 DEF AnswerTrue
    <3>2. table[r].form \in Form /\ e.form \in Form
      <4>1. table[r] \in Entry
        BY <1>3, <1>5 DEF Has, Rows
      <4> QED
        BY <4>1 DEF Entry
    <3>3. /\ e.form["name"] = reqs[i].arg["name"] /\ e.form["version"] = reqs[i].arg["version"]
          /\ e.form["text"] \in {reqs[i].arg["text"], table[r].form["text"]}
      BY <1>1, <1>3, <3>2 DEF Merge, Form
    <3>4. ASSUME NEW f \in Fields \ dialog.touched
          PROVE  dialog.form[f] = EditForm(e.form)[f]
      <4>1. dialog.form[f] = EditForm(table[r].form)[f] /\ reqs[i].arg[f] = dialog.form[f]
        BY <2>2, <2>4, <3>1
      <4>2. CASE f = "name"
        BY <3>2, <3>3, <4>1, <4>2, EditFormIs
      <4>3. CASE f = "text"
        BY <3>2, <3>3, <4>1, <4>3, EditFormIs
      <4>4. CASE f = "version"
        BY <3>2, <3>3, <4>1, <4>4, EditFormIs
      <4> QED
        BY <4>2, <4>3, <4>4 DEF Fields
    <3>5. e # NoRow
      BY ControllerAssumption
    <3> QED
      BY <1>6, <2>2, <2>4, <3>4, <3>5
  <2> QED
    BY <2>3, <2>4
<1>10. dialog.mode = "edit" => table'[dialog.row].access = table[dialog.row].access
  BY <1>1, <1>6 DEF TypeInv, PageInv, RowOK
<1> QED
  BY <1>2, <1>3, <1>4, <1>6, <1>8, <1>9, <1>10, WriteServed, SMTT(30)

LEMMA DeleteAgrees ==
  ASSUME TypeInv, Agree(reqs, table, list, dialog, kind), NEW i \in Slots,
         reqs[i] # NoRequest, Delete(i)
  PROVE  Agree(reqs', table', list, dialog, kind)
<1> DEFINE q == [reqs[i] EXCEPT !.phase = "done", !.data = NoRow]
           r == reqs[i].row
<1>1. table' = [table EXCEPT ![r] = NoRow] /\ reqs' = Put(reqs, i, q)
  BY DeleteIs
<1>2. /\ q.op = reqs[i].op /\ q.row = r /\ q.arg = reqs[i].arg /\ q.phase = "done"
      /\ q.own = reqs[i].own /\ q.dropped = reqs[i].dropped
  <2>1. reqs[i] \in Requests
    BY InUse
  <2> QED
    BY <2>1 DEF Requests
<1>3. /\ reqs[i].op = "delete" /\ reqs[i].phase = "sent" /\ r \in Row /\ table \in Rows
  BY InUse DEF Delete, RequestOK, TypeInv, PageInv
<1> HIDE DEF q
<1>4. table'[r] = NoRow /\ \A o \in Row : o # r => table'[o] = table[o]
  BY <1>1, <1>3 DEF Rows
<1>5. AnswerTrue(reqs[i], table, list, dialog, kind)
  BY OneTrue
<1>6. AnswerTrue(q, table', list, dialog, kind)
  <2>1. "delete" \notin Grants
    BY Nothing
  <2> QED
    BY <1>2, <1>3, <1>4, <1>5, <2>1 DEF AnswerTrue
<1>7. dialog.mode = "edit" => dialog.row \in Row /\ dialog.row # r
  BY <1>3, <1>5 DEF AnswerTrue, TypeInv, PageInv, RowOK
<1>8. FormTrue(table', dialog)
  BY <1>4, <1>7 DEF Agree, FormTrue
<1>9. dialog.mode = "edit" => table'[dialog.row].access = table[dialog.row].access
  BY <1>4, <1>7
<1> QED
  BY <1>1, <1>2, <1>3, <1>4, <1>6, <1>8, <1>9, WriteServed

LEMMA RefuseAgrees ==
  ASSUME TypeInv, Agree(reqs, table, list, dialog, kind), NEW i \in Slots,
         reqs[i] # NoRequest, Refuse(i)
  PROVE  Agree(reqs', table', list, dialog, kind)
<1> DEFINE p == IF reqs[i].op = "revoke" THEN "done" ELSE "refused"
           q == [reqs[i] EXCEPT !.phase = p]
<1>1. /\ reqs[i].phase = "sent" /\ reqs[i].op # "load" /\ table' = table
      /\ reqs[i].op # "create" => reqs[i].op = "patch" \/ ~Has(reqs[i].row)
      /\ reqs' = [reqs EXCEPT ![i].phase = p]
  BY DEF Refuse
<1>2. reqs' = Put(reqs, i, q)
  BY <1>1, InUse DEF Put
<1>3. p \in Phases /\ p \in {"done", "refused"} /\ (reqs[i].op = "create" => p # "done")
  BY Nothing
<1>4. AnswerTrue(reqs[i], table, list, dialog, kind) /\ FormTrue(table, dialog)
  BY OneTrue DEF Agree
<1>5. reqs[i].op \notin Grants
  <2>1. reqs[i].op \in Grants => dialog.mode = "edit" /\ dialog.row = reqs[i].row
    BY <1>4 DEF AnswerTrue
  <2>2. dialog.mode = "edit" => Has(dialog.row)
    BY <1>4 DEF FormTrue, Has
  <2> QED
    BY <1>1, <2>1, <2>2, Nothing
<1>6. p = "refused"
  BY <1>5, Nothing
<1> HIDE DEF p
<1>7. /\ q.op = reqs[i].op /\ q.row = reqs[i].row /\ q.arg = reqs[i].arg /\ q.phase = p
      /\ q.own = reqs[i].own /\ q.dropped = reqs[i].dropped
  <2>1. reqs[i] \in Requests
    BY InUse
  <2> QED
    BY <1>3, <2>1 DEF Requests
<1> HIDE DEF q
<1>8. AnswerTrue(q, table', list, dialog, kind)
  BY <1>1, <1>4, <1>5, <1>6, <1>7 DEF AnswerTrue, Has
<1> QED
  BY <1>1, <1>2, <1>3, <1>4, <1>6, <1>7, <1>8, WriteServed

\* Only a reading of the list is under way.
LEMMA ReadingAgrees ==
  ASSUME NEW slots, NEW tb, NEW li, NEW d, NEW k, NEW m \in Slots,
         \A j \in Slots : j # m => slots[j] = NoRequest, slots[m].op = "load",
         ~slots[m].dropped, slots[m].phase \in {"sent", "rows", "done"},
         slots[m].phase # "sent" => slots[m].data = tb, FormTrue(tb, d),
         d.mode = "edit" => \A s \in Site : d.access[s] = tb[d.row].access[s]
  PROVE  Agree(slots, tb, li, d, k)
<1>1. "load" \notin Grants
  BY Nothing
<1>2. AnswerTrue(slots[m], tb, li, d, k)
  BY <1>1 DEF AnswerTrue
<1>3. \A j \in Slots : AnswerTrue(slots[j], tb, li, d, k)
  BY <1>2, NoRequestTrue
<1>4. Apart(slots)
  BY Nothing DEF Apart
<1>5. ListTrue(slots, tb, li, d, k)
  BY DEF ListTrue, NoLoad
<1>6. AccessTrue(slots, tb, d)
  BY DEF AccessTrue
<1> QED
  BY <1>3, <1>4, <1>5, <1>6 DEF Agree

\* While the list is read nothing else is under way.
LEMMA ReadsAlone ==
  ASSUME TypeInv, Agree(reqs, table, list, dialog, kind), NEW i \in Slots, reqs[i].op = "load"
  PROVE  /\ \A j \in Slots : j # i => reqs[j] = NoRequest
         /\ ~reqs[i].dropped /\ reqs[i].phase \in {"sent", "rows", "done"}
         /\ reqs[i].phase # "sent" => reqs[i].data = table
         /\ dialog.mode = "edit" =>
              \A s \in Site : dialog.access[s] = table[dialog.row].access[s]
<1>1. ASSUME NEW j \in Slots, j # i PROVE reqs[j] = NoRequest
  <2>1. reqs[j].op = "none"
    BY <1>1 DEF Agree, Apart, Conflict
  <2> QED
    BY <2>1, OneTrue
<1>2. reqs[i].phase \in Phases
  <2>1. reqs[i] # NoRequest
    BY Nothing
  <2> QED
    BY <2>1, InUse DEF Requests
<1>3. ~reqs[i].dropped /\ reqs[i].phase \in {"sent", "rows", "done"}
      /\ (reqs[i].phase # "sent" => reqs[i].data = table)
  BY <1>2, OneTrue, Nothing DEF AnswerTrue
<1>4. \A s \in Site, j \in Slots : ~Asks(reqs[j], dialog.row, s)
  BY <1>1, Nothing DEF Asks
<1> QED
  BY <1>1, <1>3, <1>4 DEF Agree, AccessTrue

\* A reading of the list goes on.
LEMMA ReadServed ==
  ASSUME TypeInv, Agree(reqs, table, list, dialog, kind), NEW i \in Slots,
         reqs[i].op = "load", NEW q, q.op = "load", q.dropped = reqs[i].dropped,
         q.phase \in {"rows", "done"}, q.data = table, reqs' = Put(reqs, i, q), table' = table
  PROVE  Agree(reqs', table', list, dialog, kind)
<1>1. reqs'[i] = q /\ \A j \in Slots : j # i => reqs'[j] = NoRequest
  BY PutAt, ReadsAlone
<1>2. ~q.dropped /\ FormTrue(table, dialog)
      /\ (dialog.mode = "edit" => \A s \in Site : dialog.access[s] = table[dialog.row].access[s])
  BY ReadsAlone DEF Agree
<1> QED
  BY <1>1, <1>2, ReadingAgrees

LEMMA ReadRowsAgrees ==
  ASSUME TypeInv, Agree(reqs, table, list, dialog, kind), NEW i \in Slots,
         reqs[i] # NoRequest, ReadRows(i)
  PROVE  Agree(reqs', table', list, dialog, kind)
<1> DEFINE q == [reqs[i] EXCEPT !.phase = IF kind = "users" THEN "rows" ELSE "done", !.data = table]
<1>1. /\ reqs[i] \in Requests /\ reqs = [j \in Slots |-> reqs[j]]
  BY InUse
<1>2. reqs' = Put(reqs, i, q) /\ reqs[i].op = "load" /\ table' = table
  BY <1>1 DEF ReadRows, Put
<1>3. /\ q.op = "load" /\ q.dropped = reqs[i].dropped /\ q.phase \in {"rows", "done"}
      /\ q.data = table
  BY <1>1, <1>2 DEF Requests
<1> HIDE DEF q
<1> QED
  BY <1>2, <1>3, ReadServed

LEMMA ReadGrantsAgrees ==
  ASSUME TypeInv, Agree(reqs, table, list, dialog, kind), NEW i \in Slots,
         reqs[i] # NoRequest, ReadGrants(i)
  PROVE  Agree(reqs', table', list, dialog, kind)
<1> DEFINE x == WithGrants(reqs[i].data)
           q == [reqs[i] EXCEPT !.phase = "done", !.data = x]
<1>1. /\ reqs[i] \in Requests /\ reqs = [j \in Slots |-> reqs[j]] /\ table \in Rows
  BY InUse DEF TypeInv, PageInv
<1>2. reqs' = Put(reqs, i, q) /\ reqs[i].op = "load" /\ reqs[i].phase = "rows" /\ table' = table
  BY <1>1 DEF ReadGrants, Done, Put, WithGrants
<1>3. reqs[i].data = table
  BY <1>2, ReadsAlone
<1>4. x = table
  BY <1>1, <1>3, WithGrantsIs
<1> HIDE DEF x
<1>5. /\ q.op = "load" /\ q.dropped = reqs[i].dropped /\ q.phase = "done" /\ q.data = x
  BY <1>1, <1>2 DEF Requests
<1> HIDE DEF q
<1> QED
  BY <1>2, <1>4, <1>5, ReadServed

\* No other request has a row with an id that has not been used.
LEMMA InsertAgrees ==
  ASSUME TypeInv, Agree(reqs, table, list, dialog, kind), NEW i \in Slots,
         reqs[i] # NoRequest, Insert(i)
  PROVE  Agree(reqs', table', list, dialog, kind)
<1> DEFINE e == [form |-> reqs[i].arg, access |-> NoAccess]
<1>1. /\ reqs[i] \in Requests /\ reqs = [j \in Slots |-> reqs[j]] /\ table \in Rows
      /\ Known(list, born)
  BY InUse DEF TypeInv, PageInv
<1>2. PICK r \in Row :
        /\ r \notin born
        /\ table' = [table EXCEPT ![r] = e]
        /\ reqs' = [reqs EXCEPT ![i].phase = "done", ![i].row = r, ![i].data = table'[r]]
  BY DEF Insert
<1>3. reqs[i].op = "create" /\ reqs[i].phase = "sent"
  BY DEF Insert
<1> HIDE DEF e
<1>4. table'[r] = e /\ \A o \in Row : o # r => table'[o] = table[o]
  BY <1>1, <1>2 DEF Rows
<1> DEFINE q == [reqs[i] EXCEPT !.phase = "done", !.row = r, !.data = e]
<1>5. reqs' = Put(reqs, i, q)
  BY <1>1, <1>2, <1>4 DEF Put
<1>6. /\ q.op = "create" /\ q.row = r /\ q.phase = "done" /\ q.data = e
      /\ q.arg = reqs[i].arg /\ q.dropped = reqs[i].dropped
  BY <1>1, <1>3 DEF Requests
<1> HIDE DEF q
<1>7. reqs'[i] = q /\ \A j \in Slots : j # i => reqs'[j] = reqs[j]
  BY <1>5, PutAt
<1>8. AnswerTrue(reqs[i], table, list, dialog, kind) /\ ("create" \notin Grants)
  BY OneTrue, Nothing
<1>9. list[r] = NoRow /\ (dialog.mode = "edit" => dialog.row \in Row /\ dialog.row # r)
  BY <1>1, <1>2 DEF Known, TypeInv, PageInv, RowOK
<1>10. ASSUME NEW j \in Slots, j # i, reqs[j].op # "none"
       PROVE  reqs[j].row # r /\ reqs[j].op # "load"
  <2>1. reqs[j].row # NoRow => reqs[j].row \in born
    BY <1>10, InUse, Nothing DEF RequestOK
  <2>2. ~Conflict(reqs[i], reqs[j])
    BY <1>3, <1>10 DEF Agree, Apart
  <2> QED
    BY <1>2, <2>1, <2>2, ControllerAssumption DEF Conflict
<1>11. ASSUME NEW j \in Slots PROVE AnswerTrue(reqs'[j], table', list, dialog, kind)
  <2>1. CASE j = i
    BY <1>4, <1>6, <1>7, <1>8, <1>9, <2>1 DEF AnswerTrue
  <2>2. CASE j # i
    <3>1. reqs'[j] = reqs[j] /\ SlotOK(reqs[j], born, kind, dialog)
          /\ AnswerTrue(reqs[j], table, list, dialog, kind)
      BY <1>7, <2>2, OneTrue
    <3>2. CASE reqs[j] = NoRequest
      BY <3>1, <3>2, NoRequestTrue
    <3>3. CASE reqs[j] # NoRequest
      <4>1. reqs[j].row # r /\ reqs[j].op # "load"
        BY <1>10, <2>2, <3>3, OneTrue
      <4>2. reqs[j].row \in Row => table'[reqs[j].row] = table[reqs[j].row]
        BY <1>4, <4>1
      <4> QED
        BY <3>1, <4>1, <4>2, AnswerElsewhere
    <3> QED
      BY <3>2, <3>3
  <2> QED
    BY <2>1, <2>2
<1>12. Apart(reqs')
  BY <1>3, <1>6, <1>7, <1>10, ApartServed DEF Agree
<1>13. ListTrue(reqs', table', list, dialog, kind)
  BY <1>3, <1>4, <1>6, <1>7, ListServed DEF Agree
<1>14. FormTrue(table', dialog)
  BY <1>4, <1>9 DEF Agree, FormTrue
<1>15. AccessTrue(reqs', table', dialog)
  <2>1. \A j \in Slots : reqs[j].op \in Grants => reqs'[j] = reqs[j]
    BY <1>3, <1>7, <1>8
  <2>2. dialog.mode = "edit" => table'[dialog.row].access = table[dialog.row].access
    BY <1>4, <1>9
  <2>3. AccessTrue(reqs, table, dialog)
    BY DEF Agree
  <2> QED
    BY <2>1, <2>2, <2>3, AccessSame DEF Asks
<1> QED
  BY <1>11, <1>12, <1>13, <1>14, <1>15 DEF Agree

\* A request of a grant, of one site, changes no grant of another site.
LEMMA GrantOfIs ==
  ASSUME NEW q, NEW a \in Access, q.op \in Grants, q.arg \in Site \X (Roles \union {"none"}),
         q.op = "revoke" => q.arg[2] = "none"
  PROVE  /\ GrantOf(q, a)[q.arg[1]] = q.arg[2]
         /\ \A s \in Site : s # q.arg[1] => GrantOf(q, a)[s] = a[s]
BY DEF GrantOf, GrantIn, Access

LEMMA SetGrantAgrees ==
  ASSUME TypeInv, Agree(reqs, table, list, dialog, kind), NEW i \in Slots,
         reqs[i] # NoRequest, SetGrant(i)
  PROVE  Agree(reqs', table', list, dialog, kind)
<1> DEFINE r == reqs[i].row
           s == reqs[i].arg[1]
           q == [reqs[i] EXCEPT !.phase = "done", !.data = NoRow]
<1>1. PICK e \in Entry :
        /\ e.form = table[r].form
        /\ e.access = GrantOf(reqs[i], table[r].access)
        /\ table' = [table EXCEPT ![r] = e]
        /\ reqs' = Put(reqs, i, q)
  BY SetGrantIs
<1>2. /\ reqs[i] \in Requests /\ reqs[i].op \in Grants /\ reqs[i].phase = "sent" /\ Has(r)
      /\ r \in Row /\ reqs[i].arg \in Site \X (Roles \union {"none"}) /\ table \in Rows
  BY InUse DEF SetGrant, RequestOK, TypeInv, PageInv
<1>3. AnswerTrue(reqs[i], table, list, dialog, kind)
  BY OneTrue
<1>4. /\ dialog.mode = "edit" /\ dialog.row = r
      /\ reqs[i].op = "revoke" => reqs[i].arg[2] = "none"
  BY <1>2, <1>3 DEF AnswerTrue
<1>5. table[r] \in Entry /\ table[r].access \in Access
  BY <1>2 DEF Has, Rows, Entry
<1>6. /\ e.access[s] = reqs[i].arg[2] /\ s \in Site
      /\ \A o \in Site : o # s => e.access[o] = table[r].access[o]
  BY <1>1, <1>2, <1>4, <1>5, GrantOfIs
<1>7. table'[r] = e /\ \A o \in Row : o # r => table'[o] = table[o]
  BY <1>1, <1>2 DEF Rows
<1>8. /\ q.op = reqs[i].op /\ q.row = r /\ q.arg = reqs[i].arg /\ q.phase = "done"
      /\ q.own = reqs[i].own /\ q.dropped = reqs[i].dropped
  BY <1>2 DEF Requests
<1> HIDE DEF q
<1>9. reqs'[i] = q /\ \A j \in Slots : j # i => reqs'[j] = reqs[j]
  BY <1>1, PutAt
<1>10. ASSUME NEW j \in Slots, j # i, reqs[j].op # "none"
       PROVE  /\ reqs[j].op # "load"
              /\ \/ reqs[j].op \in Grants /\ reqs[j].arg[1] # s
                 \/ (reqs[j].op = "create" => reqs[j].phase = "done") => reqs[j].row # r
  <2>1. /\ ~Conflict(reqs[i], reqs[j])
        /\ reqs[j].op = "create" /\ reqs[j].phase = "done" => r # reqs[j].row
    BY <1>2, <1>10, Nothing DEF Agree, Apart
  <2>2. reqs[i].op # "create"
    BY <1>2, Nothing
  <2> QED
    BY <1>2, <2>1, <2>2 DEF Conflict
<1>11. ASSUME NEW j \in Slots PROVE AnswerTrue(reqs'[j], table', list, dialog, kind)
  <2>1. CASE j = i
    <3>1. q.op \notin {"load", "create", "patch", "delete"}
      BY <1>2, <1>8, Nothing
    <3> QED
      BY <1>2, <1>3, <1>6, <1>7, <1>8, <1>9, <2>1, <3>1 DEF AnswerTrue
  <2>2. CASE j # i
    <3>1. reqs'[j] = reqs[j] /\ SlotOK(reqs[j], born, kind, dialog)
          /\ AnswerTrue(reqs[j], table, list, dialog, kind)
      BY <1>9, <2>2, OneTrue
    <3>2. CASE reqs[j] = NoRequest
      BY <3>1, <3>2, NoRequestTrue
    <3>3. CASE reqs[j] # NoRequest
      <4>1. reqs[j].op # "none"
        BY <3>3, OneTrue
      <4>2. CASE (reqs[j].op = "create" => reqs[j].phase = "done") => reqs[j].row # r
        <5>1. reqs[j].row \in Row /\ (reqs[j].op = "create" => reqs[j].phase = "done") =>
                table'[reqs[j].row] = table[reqs[j].row]
          BY <1>7, <4>2
        <5>2. reqs[j].op # "load"
          BY <1>10, <2>2, <4>1, SMTT(30)
        <5> QED
          BY <3>1, <5>1, <5>2, AnswerElsewhere
      <4>3. CASE reqs[j].op \in Grants /\ reqs[j].arg[1] # s
        <5>1. /\ reqs[j].row = r /\ reqs[j].arg \in Site \X (Roles \union {"none"})
          BY <1>4, <3>1, <3>3, <4>3, InUse DEF AnswerTrue, RequestOK
        <5>2. table'[r].access[reqs[j].arg[1]] = table[r].access[reqs[j].arg[1]]
          BY <1>6, <1>7, <4>3, <5>1
        <5>3. reqs[j].op \notin {"load", "create", "patch", "delete"}
          BY <4>3, Nothing
        <5> QED
          BY <3>1, <4>3, <5>1, <5>2, <5>3 DEF AnswerTrue
      <4> QED
        BY <1>10, <2>2, <4>1, <4>2, <4>3
    <3> QED
      BY <3>2, <3>3
  <2> QED
    BY <2>1, <2>2
<1>12. Apart(reqs')
  BY <1>2, <1>8, <1>9, ApartServed, Nothing DEF Agree
<1>13. ListTrue(reqs', table', list, dialog, kind)
  BY <1>2, <1>7, <1>8, <1>9, ListServed, Nothing DEF Agree
<1>14. FormTrue(table', dialog)
  BY <1>1, <1>4, <1>7, ControllerAssumption DEF Agree, FormTrue
<1>15. AccessTrue(reqs', table', dialog)
  <2> SUFFICES ASSUME NEW o \in Site, \A j \in Slots : ~Asks(reqs'[j], dialog.row, o)
               PROVE  dialog.access[o] = table'[dialog.row].access[o]
    BY DEF AccessTrue
  <2>1. \A j \in Slots : reqs'[j].op = reqs[j].op /\ reqs'[j].row = reqs[j].row
                         /\ reqs'[j].arg = reqs[j].arg
    BY <1>8, <1>9
  <2>2. \A j \in Slots : ~Asks(reqs[j], dialog.row, o)
    BY <2>1 DEF Asks
  <2>3. o # s
    BY <1>2, <1>4, <2>2 DEF Asks
  <2>4. dialog.access[o] = table[dialog.row].access[o]
    BY <1>4, <2>2 DEF Agree, AccessTrue
  <2> QED
    BY <1>4, <1>6, <1>7, <2>3, <2>4
<1> QED
  BY <1>11, <1>12, <1>13, <1>14, <1>15, SMTT(30) DEF Agree

LEMMA ServeAgrees ==
  ASSUME TypeInv, QuietInv, NEW i \in Slots, Serve(i)
  PROVE  QuietInv'
<1>1. reqs[i] # NoRequest /\ UNCHANGED <<kind, list, dialog, quiet>>
  BY DEF Serve, view
<1> SUFFICES ASSUME quiet PROVE Agree(reqs', table', list, dialog, kind)
  BY <1>1 DEF QuietInv
<1>2. Agree(reqs, table, list, dialog, kind)
  BY DEF QuietInv
<1>3. CASE Insert(i)
  BY <1>1, <1>2, <1>3, InsertAgrees
<1>4. CASE ReadRows(i)
  BY <1>1, <1>2, <1>4, ReadRowsAgrees
<1>5. CASE ReadGrants(i)
  BY <1>1, <1>2, <1>5, ReadGrantsAgrees
<1>6. CASE Update(i)
  BY <1>1, <1>2, <1>6, UpdateAgrees
<1>7. CASE Delete(i)
  BY <1>1, <1>2, <1>7, DeleteAgrees
<1>8. CASE SetGrant(i)
  BY <1>1, <1>2, <1>8, SetGrantAgrees
<1>9. CASE Refuse(i)
  BY <1>1, <1>2, <1>9, RefuseAgrees
<1> QED
  BY <1>3, <1>4, <1>5, <1>6, <1>7, <1>8, <1>9 DEF Serve

\* What agrees does so whatever the dialog waits for.
LEMMA SameDialog ==
  ASSUME NEW slots, NEW tb, NEW li, NEW d, NEW d2, NEW k, Agree(slots, tb, li, d, k),
         d2.mode = d.mode, d2.row = d.row, d2.form = d.form, d2.access = d.access,
         d2.touched = d.touched
  PROVE  Agree(slots, tb, li, d2, k)
<1>1. \A i \in Slots : AnswerTrue(slots[i], tb, li, d2, k)
  BY DEF Agree, AnswerTrue
<1>2. ListTrue(slots, tb, li, d2, k)
  BY DEF Agree, ListTrue
<1>3. FormTrue(tb, d2)
  BY DEF Agree, FormTrue
<1>4. AccessTrue(slots, tb, d2)
  BY DEF Agree, AccessTrue
<1> QED
  BY <1>1, <1>2, <1>3, <1>4 DEF Agree

\* A request goes on while the list changes at a row that it is not about.
LEMMA AnswerListed ==
  ASSUME NEW q, NEW tb, NEW li, NEW li2, NEW d, NEW k, AnswerTrue(q, tb, li, d, k),
         (q.op = "create" /\ q.phase = "done") \/ q.op = "patch" => li2[q.row] = li[q.row]
  PROVE  AnswerTrue(q, tb, li2, d, k)
BY DEF AnswerTrue

\* The answer in slot i is taken, and the row it is about is put into the list.
LEMMA FreedAgrees ==
  ASSUME NEW slots, NEW slots2, NEW tb, NEW li, NEW li2, NEW d, NEW k,
         Agree(slots, tb, li, d, k), NEW i \in Slots, slots2[i] = NoRequest,
         \A j \in Slots : j # i => slots2[j] = slots[j],
         slots[i].op \in {"create", "patch", "delete"},
         slots[i].op # "create" \/ slots[i].phase = "done" \/ li2 = li,
         \A r \in Row : r # slots[i].row => li2[r] = li[r],
         slots[i].phase = "done" \/ li2 # li => li2[slots[i].row] = tb[slots[i].row],
         \A j \in Slots : (slots[j].op = "create" /\ slots[j].phase = "done")
                          \/ slots[j].op = "patch" => slots[j].row \in Row
  PROVE  Agree(slots2, tb, li2, d, k)
<1>1. ASSUME NEW j \in Slots PROVE AnswerTrue(slots2[j], tb, li2, d, k)
  <2>1. CASE j = i
    BY <2>1, NoRequestTrue
  <2>2. CASE j # i
    <3>1. slots2[j] = slots[j] /\ AnswerTrue(slots[j], tb, li, d, k)
      BY <2>2 DEF Agree
    <3>2. ASSUME (slots[j].op = "create" /\ slots[j].phase = "done") \/ slots[j].op = "patch"
          PROVE  li2[slots[j].row] = li[slots[j].row]
      <4>1. /\ ~Conflict(slots[i], slots[j])
            /\ slots[i].op = "create" /\ slots[i].phase = "done" => slots[j].row # slots[i].row
            /\ slots[j].op = "create" /\ slots[j].phase = "done" => slots[i].row # slots[j].row
        BY <2>2, <3>2 DEF Agree, Apart
      <4>2. slots[i].op \notin Grants
        BY Nothing
      <4>3. slots[i].row # slots[j].row \/ li2 = li
        BY <3>2, <4>1, <4>2 DEF Conflict
      <4> QED
        BY <3>2, <4>3
    <3> QED
      BY <3>1, <3>2, AnswerListed
  <2> QED
    BY <2>1, <2>2
<1>2. Apart(slots2)
  <2>1. \A j \in Slots : slots2[j].op # "none" => slots2[j] = slots[j]
    BY Nothing
  <2> QED
    BY <2>1, ApartSome DEF Agree
<1>3. ListTrue(slots2, tb, li2, d, k)
  <2> SUFFICES ASSUME NoLoad(slots2), NEW r \in Row
               PROVE  \/ k = "users" /\ d.mode = "edit" /\ d.row = r
                      \/ Pending(slots2, r)
                      \/ li2[r] = tb[r]
    BY DEF ListTrue
  <2>1. NoLoad(slots)
    BY DEF NoLoad
  <2>2. \/ k = "users" /\ d.mode = "edit" /\ d.row = r
        \/ Pending(slots, r)
        \/ li[r] = tb[r]
    BY <2>1 DEF Agree, ListTrue
  <2>3. Pending(slots, r) => Pending(slots2, r) \/ (slots[i].row = r /\ slots[i].phase = "done")
    <3> SUFFICES ASSUME Pending(slots, r)
                 PROVE  Pending(slots2, r) \/ (slots[i].row = r /\ slots[i].phase = "done")
      OBVIOUS
    <3>1. PICK j \in Slots : slots[j].op # "load" /\ slots[j].row = r /\ slots[j].phase = "done"
      BY DEF Pending
    <3> QED
      BY <3>1 DEF Pending
  <2>4. CASE slots[i].row = r
    BY <2>2, <2>3, <2>4
  <2>5. CASE slots[i].row # r
    BY <2>2, <2>3, <2>5
  <2> QED
    BY <2>4, <2>5
<1>4. AccessTrue(slots2, tb, d)
  <2>1. \A j \in Slots : slots[j].op \in Grants => slots2[j] = slots[j]
    BY Nothing
  <2>2. AccessTrue(slots, tb, d)
    BY DEF Agree
  <2> QED
    BY <2>1, <2>2, AccessSame DEF Asks
<1> QED
  BY <1>1, <1>2, <1>3, <1>4 DEF Agree

\* What the requests in use have with them.
LEMMA RowsOfRequests ==
  ASSUME TypeInv, NEW j \in Slots
  PROVE  (reqs[j].op = "create" /\ reqs[j].phase = "done") \/ reqs[j].op = "patch" =>
           reqs[j].row \in Row
<1>1. CASE reqs[j] = NoRequest
  BY <1>1, Nothing
<1>2. CASE reqs[j] # NoRequest
  BY <1>2, InUse DEF RequestOK
<1> QED
  BY <1>1, <1>2

\* A dialog goes away from a page of sites, or one that edits nothing.
LEMMA DisownedAgrees ==
  ASSUME TypeInv, Agree(reqs, table, list, dialog, kind), kind # "users" \/ ~Editing
  PROVE  Agree(Disowned, table, list, NoDialog, kind)
<1>1. ASSUME NEW j \in Slots
      PROVE  /\ Disowned[j].op = reqs[j].op /\ Disowned[j].row = reqs[j].row
             /\ Disowned[j].arg = reqs[j].arg /\ Disowned[j].phase = reqs[j].phase
             /\ Disowned[j].data = reqs[j].data /\ Disowned[j].dropped = reqs[j].dropped
             /\ AnswerTrue(reqs[j], table, list, dialog, kind)
             /\ reqs[j].op \notin Grants /\ ~(reqs[j].op = "patch" /\ kind = "users")
  <2>1. SlotOK(reqs[j], born, kind, dialog) /\ AnswerTrue(reqs[j], table, list, dialog, kind)
    BY OneTrue
  <2>2. Disowned[j] = Disown(reqs[j])
    BY AllDisowned DEF TypeInv, RequestsInv
  <2>3. reqs[j].op \notin Grants /\ ~(reqs[j].op = "patch" /\ kind = "users")
    <3>1. CASE ~Editing
      BY <2>1, <3>1 DEF AnswerTrue, Editing
    <3>2. CASE kind # "users"
      <4>1. reqs[j] # NoRequest => reqs[j].op \notin Grants
        BY <3>2, InUse DEF RequestOK
      <4> QED
        BY <3>2, <4>1, Nothing
    <3> QED
      BY <3>1, <3>2
  <2> QED
    BY <2>1, <2>2, <2>3, DisownFacts
<1>2. NoDialog.mode # "edit"
  BY Nothing
<1>3. ASSUME NEW j \in Slots PROVE AnswerTrue(Disowned[j], table, list, NoDialog, kind)
  <2>1. "revoke" \in Grants
    BY Nothing
  <2> QED
    BY <1>1, <1>2, <2>1 DEF AnswerTrue
<1>4. Apart(Disowned)
  BY <1>1, ApartSome DEF Agree
<1>5. ListTrue(Disowned, table, list, NoDialog, kind)
  <2> SUFFICES ASSUME NoLoad(Disowned), NEW r \in Row
               PROVE  Pending(Disowned, r) \/ list[r] = table[r]
    BY DEF ListTrue
  <2>1. NoLoad(reqs)
    BY <1>1 DEF NoLoad
  <2>2. Pending(reqs, r) \/ list[r] = table[r]
    <3>1. kind = "users" => dialog.mode # "edit"
      BY DEF Editing
    <3> QED
      BY <2>1, <3>1 DEF Agree, ListTrue
  <2> QED
    BY <1>1, <2>2 DEF Pending
<1>6. FormTrue(table, NoDialog) /\ AccessTrue(Disowned, table, NoDialog)
  BY <1>2 DEF FormTrue, AccessTrue
<1> QED
  BY <1>3, <1>4, <1>5, <1>6 DEF Agree

\* The users are read again, and nothing else was under way.
LEMMA ReadAgain ==
  ASSUME TypeInv, Agree(reqs, table, list, dialog, kind), NEW slots,
         SendIn(slots, Request("load", NoRow, NoRow)), quiet', NEW li, NEW d,
         \/ d.mode # "edit"
         \/ /\ d.mode = dialog.mode /\ d.row = dialog.row /\ d.form = dialog.form
            /\ d.access = dialog.access /\ d.touched = dialog.touched
            /\ \A j \in Slots : slots[j] = NoRequest => reqs[j].op \notin Grants
  PROVE  Agree(reqs', table, li, d, kind)
<1> DEFINE load == Request("load", NoRow, NoRow)
<1>1. load.op = "load" /\ ~load.dropped /\ load.phase = "sent"
  BY LoadIsOK
<1>0. SendIn(slots, load)
  OBVIOUS
<1> HIDE DEF load
<1>2. PICK m \in Slots : /\ slots[m] = NoRequest
                         /\ reqs' = [j \in Slots |-> IF j = m THEN load ELSE slots[j]]
  BY <1>0, SendInIs, ZenonT(60)
<1>3. \A j \in Slots : slots[j] # NoRequest => ~Conflict(slots[j], load)
  BY <1>0, SendInIs, Zenon
<1>4. \A j \in Slots : slots[j] = NoRequest
  BY <1>1, <1>3 DEF Conflict
<1>5. reqs'[m] = load /\ \A j \in Slots : j # m => reqs'[j] = NoRequest
  BY <1>2, <1>4
<1>6. FormTrue(table, d)
  BY DEF Agree, FormTrue
<1>7. d.mode = "edit" => \A s \in Site : d.access[s] = table[d.row].access[s]
  BY <1>4 DEF Agree, AccessTrue, Asks
<1> QED
  BY <1>1, <1>5, <1>6, <1>7, ReadingAgrees

LEMMA LoadArrivesAgrees ==
  ASSUME TypeInv, Agree(reqs, table, list, dialog, kind), NEW i \in Slots, LoadArrives(i)
  PROVE  Agree(reqs', table, list', dialog, kind)
<1>1. /\ reqs[i].op = "load" /\ Ended(i) /\ reqs' = Free(i)
      /\ list' = IF reqs[i].phase = "done" THEN reqs[i].data ELSE list
  BY DEF LoadArrives, Arrives, NoSend
<1>2. /\ \A j \in Slots : j # i => reqs[j] = NoRequest
      /\ reqs[i].phase \in {"sent", "rows", "done"}
      /\ reqs[i].phase # "sent" => reqs[i].data = table
      /\ dialog.mode = "edit" => \A s \in Site : dialog.access[s] = table[dialog.row].access[s]
  BY <1>1, ReadsAlone
<1>3. list' = table
  BY <1>1, <1>2 DEF Ended
<1>4. \A j \in Slots : reqs'[j] = NoRequest
  BY <1>1, <1>2, FreeIs
<1>5. \A j \in Slots : AnswerTrue(reqs'[j], table, list', dialog, kind)
  BY <1>4, NoRequestTrue
<1>6. Apart(reqs')
  BY <1>4, Nothing DEF Apart
<1>7. ListTrue(reqs', table, list', dialog, kind)
  BY <1>3 DEF ListTrue
<1>8. AccessTrue(reqs', table, dialog)
  BY <1>2 DEF AccessTrue
<1> QED
  BY <1>5, <1>6, <1>7, <1>8 DEF Agree

LEMMA SaveFailsAgrees ==
  ASSUME TypeInv, Agree(reqs, table, list, dialog, kind), NEW i \in Slots, SaveFails(i)
  PROVE  Agree(reqs', table, list, dialog', kind)
<1>1. /\ reqs[i].op \in {"create", "patch"} /\ dialog' = AfterSave(i) /\ reqs' = Free(i)
      /\ reqs[i].phase \in {"refused", "lost"}
  BY DEF SaveFails, Arrives, NoSend, AfterSave
<1>2. reqs'[i] = NoRequest /\ \A j \in Slots : j # i => reqs'[j] = reqs[j]
  BY <1>1, FreeIs
<1>3. \A j \in Slots : (reqs[j].op = "create" /\ reqs[j].phase = "done")
                       \/ reqs[j].op = "patch" => reqs[j].row \in Row
  BY RowsOfRequests
<1>4. Agree(reqs', table, list, dialog, kind)
  BY <1>1, <1>2, <1>3, FreedAgrees
<1> QED
  BY <1>1, <1>4, AfterSaveIs, SameDialog

\* The answer of a save of a site puts the row as it is into the list.
LEMMA SaveListed ==
  ASSUME TypeInv, Agree(reqs, table, list, dialog, kind), NEW i \in Slots,
         reqs[i] # NoRequest, reqs[i].op \in {"create", "patch"}, reqs[i].phase = "done",
         kind # "users"
  PROVE  /\ ListAfter(i)[reqs[i].row] = table[reqs[i].row]
         /\ \A r \in Row : r # reqs[i].row => ListAfter(i)[r] = list[r]
<1>1. AnswerTrue(reqs[i], table, list, dialog, kind)
  BY OneTrue
<1>2. /\ reqs[i].row \in Row
      /\ \A r \in Row : ListAfter(i)[r] =
           IF r # reqs[i].row THEN list[r]
           ELSE IF list[r] = NoRow /\ reqs[i].op = "patch" THEN NoRow ELSE reqs[i].data
  BY ListAfterIs
<1>3. reqs[i].data = table[reqs[i].row] /\ (reqs[i].op = "patch" => list[reqs[i].row] # NoRow)
  BY <1>1 DEF AnswerTrue
<1> QED
  BY <1>2, <1>3

\* ... and the dialog that is open is closed, or stays.
LEMMA SaveListedAgrees ==
  ASSUME TypeInv, Agree(reqs, table, list, dialog, kind), NEW i \in Slots,
         reqs[i] # NoRequest, reqs[i].op \in {"create", "patch"}, reqs[i].phase = "done",
         kind # "users"
  PROVE  /\ Agree(Free(i), table, ListAfter(i), dialog, kind)
         /\ Agree(Closing(i), table, ListAfter(i), NoDialog, kind)
<1>1. /\ ListAfter(i)[reqs[i].row] = table[reqs[i].row]
      /\ \A r \in Row : r # reqs[i].row => ListAfter(i)[r] = list[r]
  BY SaveListed
<1>2. \A j \in Slots : (reqs[j].op = "create" /\ reqs[j].phase = "done")
                       \/ reqs[j].op = "patch" => reqs[j].row \in Row
  BY RowsOfRequests
<1>3. Agree(Free(i), table, ListAfter(i), dialog, kind)
  <2>1. Free(i)[i] = NoRequest /\ \A j \in Slots : j # i => Free(i)[j] = reqs[j]
    BY FreeIs
  <2> QED
    BY <1>1, <1>2, <2>1, FreedAgrees
<1>4. Agree(Closing(i), table, ListAfter(i), NoDialog, kind)
  <2>1. Closing(i)[i] = NoRequest /\ \A j \in Slots : j # i => Closing(i)[j] = Disowned[j]
    BY PutAt DEF Closing
  <2>2. Agree(Disowned, table, list, NoDialog, kind)
    BY DisownedAgrees
  <2>3. \A j \in Slots : Disowned[j].op = reqs[j].op /\ Disowned[j].phase = reqs[j].phase
                         /\ Disowned[j].row = reqs[j].row
    <3> SUFFICES ASSUME NEW j \in Slots
                 PROVE  Disowned[j].op = reqs[j].op /\ Disowned[j].phase = reqs[j].phase
                        /\ Disowned[j].row = reqs[j].row
      OBVIOUS
    <3>1. SlotOK(reqs[j], born, kind, dialog)
      BY OneTrue
    <3>2. Disowned[j] = Disown(reqs[j])
      BY AllDisowned DEF TypeInv, RequestsInv
    <3> QED
      BY <3>1, <3>2, DisownFacts
  <2> QED
    BY <1>1, <1>2, <2>1, <2>2, <2>3, FreedAgrees
<1> QED
  BY <1>3, <1>4

LEMMA CreatedAgrees ==
  ASSUME TypeInv, Agree(reqs, table, list, dialog, kind), NEW i \in Slots, Created(i), quiet'
  PROVE  Agree(reqs', table, list', dialog', kind)
<1> DEFINE rest == IF Editing THEN Free(i) ELSE Closing(i)
           load == Request("load", NoRow, NoRow)
<1>1. /\ reqs[i] # NoRequest /\ reqs[i].op = "create" /\ reqs[i].phase = "done"
      /\ dialog' = IF Editing THEN dialog ELSE NoDialog
      /\ \/ SendIn(rest, load)
         \/ kind # "users" /\ reqs' = rest /\ list' = ListAfter(i)
  BY DEF Created, Arrives, NoSend
<1>2. CASE SendIn(rest, load)
  <2>1. CASE ~Editing
    <3>1. dialog'.mode # "edit"
      BY <1>1, <2>1, Nothing
    <3> HIDE DEF rest
    <3> QED
      BY <1>2, <3>1, ReadAgain
  <2>2. CASE Editing
    <3>1. \A j \in Slots : Free(i)[j] = NoRequest => reqs[j].op \notin Grants
      <4>1. \A j \in Slots : j # i => Free(i)[j] = reqs[j]
        BY FreeIs
      <4> QED
        BY <1>1, <4>1, Nothing
    <3>2. SendIn(Free(i), load) /\ dialog' = dialog
      BY <1>1, <1>2, <2>2
    <3> QED
      BY <3>1, <3>2, ReadAgain
  <2> QED
    BY <2>1, <2>2
<1>3. CASE kind # "users" /\ reqs' = rest /\ list' = ListAfter(i)
  BY <1>1, <1>3, SaveListedAgrees
<1> QED
  BY <1>1, <1>2, <1>3

LEMMA SavedAgrees ==
  ASSUME TypeInv, Agree(reqs, table, list, dialog, kind), NEW i \in Slots, Saved(i), quiet'
  PROVE  Agree(reqs', table, list', dialog', kind)
<1> DEFINE load == Request("load", NoRow, NoRow)
<1>1. /\ reqs[i] # NoRequest /\ reqs[i].op = "patch" /\ reqs[i].phase = "done"
      /\ \/ SendIn(Free(i), load) /\ dialog' = AfterSave(i)
         \/ /\ kind # "users" /\ list' = ListAfter(i)
            /\ reqs' = IF Editing THEN Closing(i) ELSE Free(i)
            /\ dialog' = IF Editing THEN NoDialog ELSE dialog
  BY DEF Saved, Arrives, NoSend
<1>2. CASE SendIn(Free(i), load) /\ dialog' = AfterSave(i)
  <2>1. \A j \in Slots : Free(i)[j] = NoRequest => reqs[j].op \notin Grants
    <3>1. \A j \in Slots : j # i => Free(i)[j] = reqs[j]
      BY FreeIs
    <3> QED
      BY <1>1, <3>1, Nothing
  <2>2. /\ dialog'.mode = dialog.mode /\ dialog'.row = dialog.row
        /\ dialog'.form = dialog.form /\ dialog'.access = dialog.access
        /\ dialog'.touched = dialog.touched
    BY <1>2, AfterSaveIs
  <2> QED
    BY <1>2, <2>1, <2>2, ReadAgain
<1>3. CASE /\ kind # "users" /\ list' = ListAfter(i)
           /\ reqs' = IF Editing THEN Closing(i) ELSE Free(i)
           /\ dialog' = IF Editing THEN NoDialog ELSE dialog
  BY <1>1, <1>3, SaveListedAgrees
<1> QED
  BY <1>1, <1>2, <1>3

LEMMA DeletedAgrees ==
  ASSUME TypeInv, Agree(reqs, table, list, dialog, kind), NEW i \in Slots, Deleted(i)
  PROVE  Agree(reqs', table, list', dialog, kind)
<1>1. /\ reqs[i] # NoRequest /\ reqs[i].op = "delete" /\ reqs' = Free(i) /\ Ended(i)
      /\ list' = [list EXCEPT ![reqs[i].row] = NoRow] \/ (~Answered(i) /\ list' = list)
  BY DEF Deleted, Arrives, NoSend
<1>2. reqs[i].row \in Row /\ list \in Rows
  BY <1>1, InUse DEF RequestOK, TypeInv, PageInv
<1>3. AnswerTrue(reqs[i], table, list, dialog, kind)
  BY OneTrue
<1>4. reqs[i].phase \in {"done", "refused"} /\ table[reqs[i].row] = NoRow
  BY <1>1, <1>3 DEF AnswerTrue, Ended
<1>5. list' = [list EXCEPT ![reqs[i].row] = NoRow]
  BY <1>1, <1>4 DEF Answered
<1>6. /\ list'[reqs[i].row] = table[reqs[i].row]
      /\ \A r \in Row : r # reqs[i].row => list'[r] = list[r]
  BY <1>2, <1>4, <1>5 DEF Rows
<1>7. reqs'[i] = NoRequest /\ \A j \in Slots : j # i => reqs'[j] = reqs[j]
  BY <1>1, FreeIs
<1>8. \A j \in Slots : (reqs[j].op = "create" /\ reqs[j].phase = "done")
                       \/ reqs[j].op = "patch" => reqs[j].row \in Row
  BY RowsOfRequests
<1> QED
  BY <1>1, <1>6, <1>7, <1>8, FreedAgrees

\* The answer of a grant is taken: the dialog d shows the grant as it is.
LEMMA GrantFreed ==
  ASSUME TypeInv, Agree(reqs, table, list, dialog, kind), NEW i \in Slots,
         reqs[i] # NoRequest, reqs[i].op \in Grants, reqs[i].phase = "done", NEW d,
         d.mode = dialog.mode, d.row = dialog.row, d.form = dialog.form,
         d.touched = dialog.touched, d.access[reqs[i].arg[1]] = reqs[i].arg[2],
         \A o \in Site : o # reqs[i].arg[1] => d.access[o] = dialog.access[o]
  PROVE  Agree(Free(i), table, list, d, kind)
<1> DEFINE s == reqs[i].arg[1]
<1>1. AnswerTrue(reqs[i], table, list, dialog, kind) /\ kind = "users" /\ s \in Site
  BY OneTrue, InUse DEF RequestOK
<1>2. /\ dialog.mode = "edit" /\ dialog.row = reqs[i].row
      /\ table[dialog.row].access[s] = reqs[i].arg[2]
  BY <1>1 DEF AnswerTrue
<1>3. Free(i)[i] = NoRequest /\ \A j \in Slots : j # i => Free(i)[j] = reqs[j]
  BY FreeIs
<1>4. ASSUME NEW j \in Slots, j # i, reqs[j].op \in Grants
      PROVE  reqs[j].arg[1] \in Site /\ reqs[j].arg[1] # s
  <2>1. reqs[j] # NoRequest /\ reqs[j].op # "none" /\ reqs[i].op # "none"
    BY <1>4, Nothing
  <2>2. AnswerTrue(reqs[j], table, list, dialog, kind) /\ reqs[j].arg[1] \in Site
    BY <1>4, <2>1, OneTrue, InUse DEF RequestOK
  <2>3. reqs[j].row = dialog.row
    BY <1>4, <2>2 DEF AnswerTrue
  <2>4. ~Conflict(reqs[i], reqs[j]) /\ reqs[i].op # "create" /\ reqs[j].op # "create"
    BY <1>4, <2>1, Nothing DEF Agree, Apart
  <2> QED
    BY <1>2, <2>2, <2>3, <2>4 DEF Conflict
<1>5. ASSUME NEW j \in Slots PROVE AnswerTrue(Free(i)[j], table, list, d, kind)
  <2>1. CASE j = i
    BY <1>3, <2>1, NoRequestTrue
  <2>2. CASE j # i
    <3>1. Free(i)[j] = reqs[j] /\ AnswerTrue(reqs[j], table, list, dialog, kind)
      BY <1>3, <2>2, OneTrue
    <3>2. reqs[j].op \in Grants => d.access[reqs[j].arg[1]] = dialog.access[reqs[j].arg[1]]
      BY <1>4, <2>2
    <3> QED
      BY <3>1, <3>2 DEF AnswerTrue
  <2> QED
    BY <2>1, <2>2
<1>6. Apart(Free(i))
  <2>1. \A j \in Slots : Free(i)[j].op # "none" => Free(i)[j] = reqs[j]
    BY <1>3, Nothing
  <2> QED
    BY <2>1, ApartSome DEF Agree
<1>7. ListTrue(Free(i), table, list, d, kind)
  <2> SUFFICES ASSUME NoLoad(Free(i)), NEW r \in Row, r # dialog.row
               PROVE  Pending(Free(i), r) \/ list[r] = table[r]
    BY <1>1, <1>2 DEF ListTrue
  <2>1. NoLoad(reqs)
    BY <1>3, Nothing DEF NoLoad
  <2>2. Pending(reqs, r) \/ list[r] = table[r]
    BY <2>1 DEF Agree, ListTrue
  <2>3. Pending(reqs, r) => Pending(Free(i), r)
    <3> SUFFICES ASSUME Pending(reqs, r) PROVE Pending(Free(i), r)
      OBVIOUS
    <3>1. PICK j \in Slots : reqs[j].op # "load" /\ reqs[j].row = r /\ reqs[j].phase = "done"
      BY DEF Pending
    <3> QED
      BY <1>2, <1>3, <3>1 DEF Pending
  <2> QED
    BY <2>2, <2>3
<1>8. FormTrue(table, d)
  BY DEF Agree, FormTrue
<1>9. AccessTrue(Free(i), table, d)
  <2> SUFFICES ASSUME NEW o \in Site, \A j \in Slots : ~Asks(Free(i)[j], d.row, o)
               PROVE  d.access[o] = table[d.row].access[o]
    BY DEF AccessTrue
  <2>1. CASE o = s
    BY <1>2, <2>1
  <2>2. CASE o # s
    <3>1. ~Asks(reqs[i], d.row, o)
      BY <2>2 DEF Asks
    <3>2. \A j \in Slots : ~Asks(reqs[j], dialog.row, o)
      BY <1>3, <3>1
    <3> QED
      BY <1>2, <2>2, <3>2 DEF Agree, AccessTrue
  <2> QED
    BY <2>1, <2>2
<1> QED
  BY <1>5, <1>6, <1>7, <1>8, <1>9 DEF Agree

\* A grant that has ended was granted, and its dialog is the one that is open.
LEMMA GrantEnded ==
  ASSUME TypeInv, Agree(reqs, table, list, dialog, kind), NEW i \in Slots,
         reqs[i] # NoRequest, reqs[i].op \in Grants, Ended(i)
  PROVE  /\ reqs[i].phase = "done" /\ reqs[i].own /\ dialog \in Dialogs
         /\ reqs[i].op # "add" => dialog.access[reqs[i].arg[1]] = reqs[i].arg[2]
<1>1. AnswerTrue(reqs[i], table, list, dialog, kind)
  BY OneTrue
<1>2. dialog.mode = "edit" /\ dialog.row = reqs[i].row
  BY <1>1 DEF AnswerTrue
<1>3. dialog \in Dialogs
  BY <1>2, Nothing DEF TypeInv, PageInv
<1>4. reqs[i].phase = "done" /\ reqs[i].own
  BY <1>1, <1>2 DEF AnswerTrue, Ended
<1>5. reqs[i].op # "add" => dialog.access[reqs[i].arg[1]] = reqs[i].arg[2]
  BY <1>1 DEF AnswerTrue
<1> QED
  BY <1>3, <1>4, <1>5

LEMMA GrantedAgrees ==
  ASSUME TypeInv, Agree(reqs, table, list, dialog, kind), NEW i \in Slots, Granted(i)
  PROVE  Agree(reqs', table, list, dialog', kind)
<1> DEFINE s == reqs[i].arg[1]
           a == reqs[i].arg[2]
<1>1. /\ reqs[i] # NoRequest /\ reqs[i].op = "add" /\ Ended(i) /\ reqs' = Free(i)
      /\ reqs[i].own /\ Answered(i) =>
           dialog' = [dialog EXCEPT !.working = FALSE, !.access[s] = a]
  BY DEF Granted, Arrives, NoSend
<1>2. reqs[i].op \in Grants
  BY <1>1, Nothing
<1>3. reqs[i].phase = "done" /\ reqs[i].own /\ dialog \in Dialogs
  BY <1>1, <1>2, GrantEnded
<1>4. reqs[i].arg \in Site \X (Roles \union {"none"})
  BY <1>1, <1>2, InUse DEF RequestOK
<1>5. s \in Site
  BY <1>4
<1>6. dialog' = [dialog EXCEPT !.working = FALSE, !.access[s] = a]
  BY <1>1, <1>3 DEF Answered
<1> HIDE DEF s, a
<1>7. /\ dialog'.mode = dialog.mode /\ dialog'.row = dialog.row
      /\ dialog'.form = dialog.form /\ dialog'.touched = dialog.touched
      /\ dialog'.access[s] = a
      /\ \A o \in Site : o # s => dialog'.access[o] = dialog.access[o]
  BY <1>3, <1>5, <1>6 DEF Dialogs, Access
<1> QED
  BY <1>1, <1>2, <1>3, <1>7, GrantFreed DEF s, a

LEMMA GrantAnsweredAgrees ==
  ASSUME TypeInv, Agree(reqs, table, list, dialog, kind), NEW i \in Slots, GrantAnswered(i)
  PROVE  Agree(reqs', table, list, dialog, kind)
<1>1. /\ reqs[i] # NoRequest /\ reqs[i].op \in {"grant", "revoke"} /\ Ended(i) /\ reqs' = Free(i)
  BY DEF GrantAnswered, Arrives, NoSend
<1>2. reqs[i].op \in Grants /\ reqs[i].op # "add"
  BY <1>1, Nothing
<1>3. /\ reqs[i].phase = "done" /\ dialog.access[reqs[i].arg[1]] = reqs[i].arg[2]
  BY <1>1, <1>2, GrantEnded
<1> QED
  BY <1>1, <1>2, <1>3, GrantFreed

LEMMA AnswerAgrees ==
  ASSUME TypeInv, QuietInv, NEW i \in Slots, Answer(i)
  PROVE  QuietInv'
<1>1. kind' = kind /\ table' = table /\ (quiet' => quiet)
  <2>1. ASSUME NEW slots, NEW q, SendIn(slots, q) PROVE quiet' => quiet
    BY <2>1, SendInIs
  <2> QED
    BY <2>1 DEF Answer, LoadArrives, SaveFails, Created, Saved, Deleted, Granted, GrantAnswered,
                Dropped, NoSend
<1> SUFFICES ASSUME quiet' PROVE Agree(reqs', table, list', dialog', kind)
  BY <1>1 DEF QuietInv
<1>2. Agree(reqs, table, list, dialog, kind)
  BY <1>1 DEF QuietInv
<1>3. CASE LoadArrives(i)
  BY <1>2, <1>3, LoadArrivesAgrees DEF LoadArrives
<1>4. CASE SaveFails(i)
  BY <1>2, <1>4, SaveFailsAgrees DEF SaveFails
<1>5. CASE Created(i)
  BY <1>2, <1>5, CreatedAgrees
<1>6. CASE Saved(i)
  BY <1>2, <1>6, SavedAgrees
<1>7. CASE Deleted(i)
  BY <1>2, <1>7, DeletedAgrees DEF Deleted
<1>8. CASE Granted(i)
  BY <1>2, <1>8, GrantedAgrees DEF Granted
<1>9. CASE GrantAnswered(i)
  BY <1>2, <1>9, GrantAnsweredAgrees DEF GrantAnswered, view
<1>10. CASE Dropped(i)
  BY <1>2, <1>10, OneTrue DEF Dropped, AnswerTrue
<1> QED
  BY <1>3, <1>4, <1>5, <1>6, <1>7, <1>8, <1>9, <1>10 DEF Answer

LEMMA SentAt ==
  ASSUME NEW q, SendIn(reqs, q)
  PROVE  \E m \in Slots : /\ reqs[m] = NoRequest /\ reqs'[m] = q
                          /\ \A j \in Slots : j # m => reqs'[j] = reqs[j]
<1>1. PICK m \in Slots : /\ reqs[m] = NoRequest
                         /\ reqs' = [j \in Slots |-> IF j = m THEN q ELSE reqs[j]]
  BY SendInIs
<1> QED
  BY <1>1

\* A request is sent that does not get in the way of another one.
LEMMA SentAgrees ==
  ASSUME TypeInv, Agree(reqs, table, list, dialog, kind), NEW q, SendIn(reqs, q), quiet', NEW d,
         AnswerTrue(q, table, list, d, kind), q.phase = "sent", q.op \notin {"load", "none"},
         \A j \in Slots : reqs[j].op = "create" /\ reqs[j].phase = "done" => q.row # reqs[j].row,
         d.mode = dialog.mode, d.row = dialog.row, d.form = dialog.form,
         d.touched = dialog.touched, q.op \in Grants => q.row = dialog.row,
         \A o \in Site : (q.op \in Grants /\ o = q.arg[1]) \/ d.access[o] = dialog.access[o]
  PROVE  Agree(reqs', table, list, d, kind)
<1>1. PICK m \in Slots : /\ reqs[m] = NoRequest /\ reqs'[m] = q
                         /\ \A j \in Slots : j # m => reqs'[j] = reqs[j]
  BY SentAt
<1>2. \A j \in Slots : reqs[j] # NoRequest => ~Conflict(reqs[j], q)
  BY SendInIs
<1>3. reqs'[m] = q /\ \A j \in Slots : j # m => reqs'[j] = reqs[j]
  BY <1>1
<1>4. reqs[m].op = "none" /\ reqs[m].phase = "sent"
  BY <1>1, Nothing
<1>5. \A j \in Slots : reqs[j].op # "none" => ~Conflict(reqs[j], q)
  BY <1>2, Nothing
<1>6. ASSUME NEW j \in Slots PROVE AnswerTrue(reqs'[j], table, list, d, kind)
  <2>1. CASE j = m
    BY <1>3, <2>1
  <2>2. CASE j # m
    <3>1. reqs'[j] = reqs[j] /\ AnswerTrue(reqs[j], table, list, dialog, kind)
      BY <1>3, <2>2, OneTrue
    <3>2. ASSUME reqs[j].op \in Grants
          PROVE  d.access[reqs[j].arg[1]] = dialog.access[reqs[j].arg[1]]
      <4>1. reqs[j] # NoRequest /\ reqs[j].op \notin {"none", "create"}
        BY <3>2, Nothing
      <4>2. reqs[j].arg[1] \in Site /\ reqs[j].row = dialog.row
        BY <3>1, <3>2, <4>1, InUse DEF RequestOK, AnswerTrue
      <4>3. q.op \in Grants => reqs[j].arg[1] # q.arg[1]
        <5>1. q.op \in Grants => q.op # "create"
          BY Nothing
        <5> QED
          BY <1>5, <4>1, <4>2, <5>1 DEF Conflict
      <4> QED
        BY <4>2, <4>3
    <3> QED
      BY <3>1, <3>2 DEF AnswerTrue
  <2> QED
    BY <2>1, <2>2
<1>7. Apart(reqs')
  BY <1>3, <1>5, ApartSent DEF Agree
<1>8. ListTrue(reqs', table, list, d, kind)
  <2> SUFFICES ASSUME NoLoad(reqs'), NEW r \in Row
               PROVE  \/ kind = "users" /\ dialog.mode = "edit" /\ dialog.row = r
                      \/ Pending(reqs', r)
                      \/ list[r] = table[r]
    BY DEF ListTrue
  <2>1. NoLoad(reqs)
    BY <1>3, <1>4 DEF NoLoad
  <2>2. Pending(reqs, r) => Pending(reqs', r)
    <3> SUFFICES ASSUME Pending(reqs, r) PROVE Pending(reqs', r)
      OBVIOUS
    <3>1. PICK j \in Slots : reqs[j].op # "load" /\ reqs[j].row = r /\ reqs[j].phase = "done"
      BY DEF Pending
    <3> QED
      BY <1>3, <1>4, <3>1 DEF Pending
  <2> QED
    BY <2>1, <2>2 DEF Agree, ListTrue
<1>9. FormTrue(table, d)
  BY DEF Agree, FormTrue
<1>10. AccessTrue(reqs', table, d)
  <2> SUFFICES ASSUME d.mode = "edit", NEW o \in Site, \A j \in Slots : ~Asks(reqs'[j], d.row, o)
               PROVE  d.access[o] = table[d.row].access[o]
    BY DEF AccessTrue
  <2>1. ~Asks(reqs[m], dialog.row, o)
    BY <1>4, Nothing DEF Asks
  <2>2. \A j \in Slots : ~Asks(reqs[j], dialog.row, o)
    BY <1>3, <2>1
  <2>3. ~(q.op \in Grants /\ o = q.arg[1])
    BY <1>3 DEF Asks
  <2> QED
    BY <2>2, <2>3 DEF Agree, AccessTrue
<1> QED
  BY <1>6, <1>7, <1>8, <1>9, <1>10 DEF Agree

\* The requests of a dialog that edits are about no row that was created just now.
LEMMA EditedIsOld ==
  ASSUME TypeInv, Agree(reqs, table, list, dialog, kind), dialog.mode = "edit", NEW j \in Slots
  PROVE  reqs[j].op = "create" /\ reqs[j].phase = "done" => dialog.row # reqs[j].row
BY OneTrue DEF AnswerTrue

LEMMA SubmitAgrees ==
  ASSUME TypeInv, Agree(reqs, table, list, dialog, kind), Submit, quiet'
  PROVE  Agree(reqs', table, list, dialog', kind)
<1>1. /\ dialog # NoDialog /\ dialog' = [dialog EXCEPT !.saving = TRUE]
      /\ SendIn(reqs, Request(IF Editing THEN "patch" ELSE "create", dialog.row, dialog.form))
  BY DEF Submit, DialogShown, Send
<1>2. dialog \in Dialogs /\ kind \in Kinds
  BY <1>1 DEF TypeInv, PageInv
<1>3. /\ dialog'.mode = dialog.mode /\ dialog'.row = dialog.row /\ dialog'.form = dialog.form
      /\ dialog'.access = dialog.access /\ dialog'.touched = dialog.touched
  BY <1>1, <1>2 DEF Dialogs
<1>4. CASE Editing
  <2> DEFINE q == Request("patch", dialog.row, dialog.form)
  <2>1. /\ q.op = "patch" /\ q.row = dialog.row /\ q.arg = dialog.form /\ q.phase = "sent"
        /\ q.own /\ ~q.dropped
    BY DEF Request
  <2>2. SendIn(reqs, q) /\ dialog.mode = "edit" /\ dialog.row \in Row
    BY <1>1, <1>4 DEF Editing, TypeInv, PageInv, RowOK
  <2> HIDE DEF q
  <2>3. "patch" \notin Grants
    BY Nothing
  <2>4. kind # "users" => list[dialog.row] # NoRow
    <3> SUFFICES ASSUME kind # "users" PROVE list[dialog.row] # NoRow
      OBVIOUS
    <3>1. table[dialog.row] # NoRow
      BY <2>2 DEF Agree, FormTrue
    <3>2. ASSUME NEW j \in Slots, reqs[j].op # "none"
          PROVE  ~Conflict(reqs[j], q) /\ AnswerTrue(reqs[j], table, list, dialog, kind)
                 /\ reqs[j].op \in Ops /\ reqs[j].op \notin Grants
      <4>1. reqs[j] # NoRequest
        BY <3>2, Nothing
      <4> QED
        BY <2>2, <4>1, SendInIs, OneTrue, InUse DEF Requests, RequestOK
    <3>3. ~Pending(reqs, dialog.row)
      <4> SUFFICES ASSUME NEW j \in Slots, reqs[j].op # "load", reqs[j].row = dialog.row,
                          reqs[j].phase = "done"
                   PROVE  FALSE
        BY DEF Pending
      <4>1. reqs[j].op # "none"
        BY OneTrue, Nothing
      <4>2. reqs[j].op \in {"create", "patch", "delete"}
        BY <3>2, <4>1, Nothing
      <4>3. reqs[j].op = "create"
        BY <2>1, <2>3, <3>2, <4>1, <4>2 DEF Conflict
      <4> QED
        BY <2>2, <4>3, EditedIsOld
    <3>4. NoLoad(reqs)
      BY <3>2, Nothing DEF NoLoad, Conflict
    <3> QED
      BY <2>2, <3>1, <3>3, <3>4 DEF Agree, ListTrue
  <2>5. AnswerTrue(q, table, list, dialog', kind)
    BY <1>2, <1>3, <2>1, <2>2, <2>3, <2>4 DEF AnswerTrue, Kinds
  <2> QED
    BY <1>3, <2>1, <2>2, <2>3, <2>5, EditedIsOld, SentAgrees
<1>5. CASE ~Editing
  <2> DEFINE q == Request("create", dialog.row, dialog.form)
  <2>1. /\ q.op = "create" /\ q.row = dialog.row /\ q.phase = "sent" /\ ~q.dropped
    BY DEF Request
  <2>2. SendIn(reqs, q) /\ dialog.row = NoRow
    BY <1>1, <1>5 DEF Editing, TypeInv, PageInv, RowOK
  <2> HIDE DEF q
  <2>3. "create" \notin Grants
    BY Nothing
  <2>4. AnswerTrue(q, table, list, dialog', kind)
    BY <2>1, <2>3 DEF AnswerTrue
  <2>5. \A j \in Slots : reqs[j].op = "create" /\ reqs[j].phase = "done" => q.row # reqs[j].row
    BY <2>1, <2>2, RowsOfRequests, ControllerAssumption
  <2> QED
    BY <1>3, <2>1, <2>2, <2>3, <2>4, <2>5, SentAgrees
<1> QED
  BY <1>4, <1>5

\* The operator adds, changes or removes a grant of the user in the dialog.
LEMMA GrantSent ==
  ASSUME TypeInv, Agree(reqs, table, list, dialog, kind), EditsUser, quiet', NEW op \in Grants,
         NEW s \in Site, NEW a, SendIn(reqs, Request(op, dialog.row, <<s, a>>)),
         dialog'.mode = dialog.mode, dialog'.row = dialog.row, dialog'.form = dialog.form,
         dialog'.touched = dialog.touched,
         \A o \in Site : o # s => dialog'.access[o] = dialog.access[o],
         op # "add" => dialog'.access[s] = a, op = "revoke" => a = "none"
  PROVE  Agree(reqs', table, list, dialog', kind)
<1> DEFINE q == Request(op, dialog.row, <<s, a>>)
<1>1. /\ q.op = op /\ q.row = dialog.row /\ q.arg = <<s, a>> /\ q.phase = "sent"
      /\ q.own /\ ~q.dropped
  BY DEF Request
<1>2. q.arg[1] = s /\ q.arg[2] = a
  BY <1>1
<1>3. SendIn(reqs, q) /\ dialog.mode = "edit"
  BY DEF EditsUser, Editing
<1> HIDE DEF q
<1>4. op \notin {"load", "none", "create", "patch", "delete"}
  BY Nothing
<1>5. AnswerTrue(q, table, list, dialog', kind)
  BY <1>1, <1>2, <1>3, <1>4 DEF AnswerTrue
<1> QED
  BY <1>1, <1>2, <1>3, <1>4, <1>5, EditedIsOld, SentAgrees

LEMMA addAccessAgrees ==
  ASSUME TypeInv, Agree(reqs, table, list, dialog, kind), quiet', NEW s \in Site,
         NEW role \in Roles, addAccess(s, role)
  PROVE  Agree(reqs', table, list, dialog', kind)
<1>1. /\ EditsUser /\ dialog' = [dialog EXCEPT !.working = TRUE] /\ "add" \in Grants
      /\ SendIn(reqs, Request("add", dialog.row, <<s, role>>)) /\ dialog \in Dialogs
  BY EditsUserIs DEF addAccess, Send
<1>2. /\ dialog'.mode = dialog.mode /\ dialog'.row = dialog.row /\ dialog'.form = dialog.form
      /\ dialog'.access = dialog.access /\ dialog'.touched = dialog.touched
  BY <1>1 DEF Dialogs
<1> QED
  BY <1>1, <1>2, GrantSent

LEMMA changeRoleAgrees ==
  ASSUME TypeInv, Agree(reqs, table, list, dialog, kind), quiet', NEW s \in Site,
         NEW role \in Roles, changeRole(s, role)
  PROVE  Agree(reqs', table, list, dialog', kind)
<1>1. /\ EditsUser /\ dialog' = [dialog EXCEPT !.access[s] = role] /\ "grant" \in Grants
      /\ SendIn(reqs, Request("grant", dialog.row, <<s, role>>)) /\ dialog \in Dialogs
  BY EditsUserIs DEF changeRole, Send
<1>2. /\ dialog'.mode = dialog.mode /\ dialog'.row = dialog.row /\ dialog'.form = dialog.form
      /\ dialog'.touched = dialog.touched /\ dialog'.access[s] = role
      /\ \A o \in Site : o # s => dialog'.access[o] = dialog.access[o]
  BY <1>1, AccessWith
<1> QED
  BY <1>1, <1>2, GrantSent

LEMMA removeAccessAgrees ==
  ASSUME TypeInv, Agree(reqs, table, list, dialog, kind), quiet', NEW s \in Site,
         removeAccess(s)
  PROVE  Agree(reqs', table, list, dialog', kind)
<1>1. /\ EditsUser /\ dialog' = [dialog EXCEPT !.access[s] = "none"] /\ "revoke" \in Grants
      /\ SendIn(reqs, Request("revoke", dialog.row, <<s, "none">>)) /\ dialog \in Dialogs
  BY EditsUserIs DEF removeAccess, Send
<1>2. /\ dialog'.mode = dialog.mode /\ dialog'.row = dialog.row /\ dialog'.form = dialog.form
      /\ dialog'.touched = dialog.touched /\ dialog'.access[s] = "none"
      /\ \A o \in Site : o # s => dialog'.access[o] = dialog.access[o]
  BY <1>1, AccessWith
<1> QED
  BY <1>1, <1>2, GrantSent

LEMMA ConfirmDeleteAgrees ==
  ASSUME TypeInv, Agree(reqs, table, list, dialog, kind), quiet', ConfirmDelete
  PROVE  Agree(reqs', table, list, dialog, kind)
<1> DEFINE q == Request("delete", confirm, NoRow)
<1>1. q.op = "delete" /\ q.row = confirm /\ q.phase = "sent" /\ ~q.dropped
  BY DEF Request
<1>2. SendIn(reqs, q) /\ dialog = NoDialog /\ list[confirm] # NoRow
  BY DEF ConfirmDelete, Send, Shown
<1> HIDE DEF q
<1>3. dialog.mode # "edit" /\ "delete" \notin Grants
  BY <1>2, Nothing
<1>4. AnswerTrue(q, table, list, dialog, kind)
  BY <1>1, <1>3 DEF AnswerTrue
<1>5. ASSUME NEW j \in Slots, reqs[j].op = "create" /\ reqs[j].phase = "done"
      PROVE  q.row # reqs[j].row
  <2>1. list[reqs[j].row] = NoRow
    BY <1>5, OneTrue DEF AnswerTrue
  <2> QED
    BY <1>1, <1>2, <2>1
<1> QED
  BY <1>1, <1>2, <1>3, <1>4, <1>5, SentAgrees

\* Whatever was under way, a page that is opened when nothing is agrees.
LEMMA ReopenAgrees ==
  ASSUME TypeInv, Reopen, quiet'
  PROVE  Agree(reqs', table, list', dialog', kind)
<1> DEFINE load == Request("load", NoRow, NoRow)
           m == CHOOSE i \in Slots : reqs[i] = NoRequest
<1>1. /\ dialog' = NoDialog /\ UnderWay = {} /\ m \in Slots
      /\ reqs' = Put(DroppedAll, m, load)
  BY DEF Reopen
<1> HIDE DEF m
<1>2. load.op = "load" /\ ~load.dropped /\ load.phase = "sent"
  BY LoadIsOK
<1> HIDE DEF load
<1>3. \A j \in Slots : DroppedAll[j] = NoRequest
  BY <1>1, AllDisowned DEF UnderWay, TypeInv, RequestsInv
<1>4. reqs'[m] = load /\ \A j \in Slots : j # m => reqs'[j] = NoRequest
  BY <1>1, <1>3, PutAt
<1>5. dialog'.mode # "edit"
  BY <1>1, Nothing
<1> QED
  BY <1>1, <1>2, <1>4, <1>5, ReadingAgrees DEF FormTrue

\* No dialog edits: what agrees does so with another dialog that does not.
LEMMA NoEditAgrees ==
  ASSUME NEW slots, NEW tb, NEW li, NEW d, NEW d2, NEW k, Agree(slots, tb, li, d, k),
         d.mode # "edit", d2.mode # "edit"
  PROVE  Agree(slots, tb, li, d2, k)
<1>1. \A i \in Slots : AnswerTrue(slots[i], tb, li, d2, k)
  BY DEF Agree, AnswerTrue
<1>2. ListTrue(slots, tb, li, d2, k)
  BY DEF Agree, ListTrue
<1>3. FormTrue(tb, d2) /\ AccessTrue(slots, tb, d2)
  BY DEF FormTrue, AccessTrue
<1> QED
  BY <1>1, <1>2, <1>3 DEF Agree

LEMMA OpenAddAgrees ==
  ASSUME Agree(reqs, table, list, dialog, kind), OpenAdd
  PROVE  Agree(reqs, table, list, dialog', kind)
<1>1. dialog = NoDialog /\ dialog' = Dialog("add", NoRow, NewForm, NoAccess)
  BY DEF OpenAdd, Shown
<1>2. dialog'.mode # "edit" /\ dialog.mode # "edit"
  BY <1>1, Nothing DEF Dialog
<1> QED
  BY <1>2, NoEditAgrees

\* A row that nothing is under way for is in the list as it is.
LEMMA OpenEditAgrees ==
  ASSUME TypeInv, Agree(reqs, table, list, dialog, kind), quiet', NEW r \in Row, OpenEdit(r)
  PROVE  Agree(reqs, table, list, dialog', kind)
<1>1. \A j \in Slots : reqs[j] # NoRequest => reqs[j].op # "load" /\ reqs[j].row # r
  BY DEF OpenEdit, UnderWay
<1>2. /\ dialog.mode # "edit" /\ list[r] \in Entry
      /\ dialog' \in Dialogs /\ dialog'.mode = "edit" /\ dialog'.row = r
      /\ dialog'.form = EditForm(list[r].form) /\ dialog'.access = list[r].access
      /\ dialog'.touched = {}
  BY OpenEditIs, Nothing
<1>3. NoLoad(reqs)
  BY <1>1, Nothing DEF NoLoad
<1>4. ~Pending(reqs, r)
  <2>1. \A j \in Slots : reqs[j].phase = "done" => reqs[j] # NoRequest
    BY Nothing
  <2> QED
    BY <1>1, <2>1 DEF Pending
<1>5. list[r] = table[r]
  BY <1>2, <1>3, <1>4 DEF Agree, ListTrue
<1>6. ASSUME NEW j \in Slots PROVE AnswerTrue(reqs[j], table, list, dialog', kind)
  <2>1. CASE reqs[j] = NoRequest
    BY <2>1, NoRequestTrue
  <2>2. CASE reqs[j] # NoRequest
    <3>1. AnswerTrue(reqs[j], table, list, dialog, kind) /\ reqs[j].row # r
      BY <1>1, <2>2, OneTrue
    <3>2. reqs[j].op \notin Grants /\ ~(reqs[j].op = "patch" /\ kind = "users")
      BY <1>2, <3>1 DEF AnswerTrue
    <3> QED
      BY <1>2, <3>1, <3>2 DEF AnswerTrue
  <2> QED
    BY <2>1, <2>2
<1>7. ListTrue(reqs, table, list, dialog', kind)
  BY <1>2 DEF Agree, ListTrue
<1>8. FormTrue(table, dialog')
  <2>1. list[r] # NoRow
    BY <1>2, ControllerAssumption
  <2> QED
    BY <1>2, <1>5, <2>1 DEF FormTrue
<1>9. AccessTrue(reqs, table, dialog')
  BY <1>2, <1>5 DEF AccessTrue
<1> QED
  BY <1>6, <1>7, <1>8, <1>9 DEF Agree

\* What is typed is touched.
LEMMA TypeAgrees ==
  ASSUME TypeInv, Agree(reqs, table, list, dialog, kind), NEW f \in Fields, NEW v, Type(f, v),
         \A x \in Form : [x EXCEPT ![f] = v] \in Form
  PROVE  Agree(reqs, table, list, dialog', kind)
<1>1. /\ dialog'.mode = dialog.mode /\ dialog'.row = dialog.row /\ dialog'.access = dialog.access
      /\ dialog'.touched = dialog.touched \union {f}
      /\ \A g \in Fields \ {f} : dialog'.form[g] = dialog.form[g]
  BY TypeIs
<1>2. ASSUME NEW j \in Slots PROVE AnswerTrue(reqs[j], table, list, dialog', kind)
  <2>1. AnswerTrue(reqs[j], table, list, dialog, kind)
    BY OneTrue
  <2> QED
    BY <1>1, <2>1 DEF AnswerTrue
<1>3. ListTrue(reqs, table, list, dialog', kind)
  BY <1>1 DEF Agree, ListTrue
<1>4. FormTrue(table, dialog')
  BY <1>1 DEF Agree, FormTrue
<1>5. AccessTrue(reqs, table, dialog')
  BY <1>1 DEF Agree, AccessTrue
<1> QED
  BY <1>2, <1>3, <1>4, <1>5 DEF Agree

LEMMA CloseDialogAgrees ==
  ASSUME TypeInv, Agree(reqs, table, list, dialog, kind), CloseDialog, quiet'
  PROVE  Agree(reqs', table, list, dialog', kind)
<1>1. dialog' = NoDialog /\ dialog'.mode # "edit" /\ kind \in Kinds
  BY Nothing DEF CloseDialog, TypeInv, PageInv
<1>2. CASE kind = "users" /\ Editing
  <2>1. SendIn(Disowned, Request("load", NoRow, NoRow))
    BY <1>2 DEF CloseDialog
  <2> QED
    BY <1>1, <2>1, ReadAgain
<1>3. CASE ~(kind = "users" /\ Editing)
  <2>1. reqs' = Disowned
    BY <1>3 DEF CloseDialog, NoSend
  <2>2. kind # "users" \/ ~Editing
    BY <1>1, <1>3 DEF Kinds
  <2> QED
    BY <1>1, <2>1, <2>2, DisownedAgrees
<1> QED
  BY <1>2, <1>3

\* What an operator who was not quiet before is not now, unless the page is opened again.
LEMMA StillQuiet ==
  ASSUME TypeInv, Operator, ~Reopen, quiet'
  PROVE  quiet
BY SendInIs DEF Operator, OpenAdd, CloseDialog, Submit, ClickAway, ConfirmDelete, OpenEdit,
   AskDelete, Type, removeAccess, addAccess, changeRole, Send, NoSend

LEMMA OperatorAgrees ==
  ASSUME TypeInv, QuietInv, Operator
  PROVE  QuietInv'
<1>1. kind' = kind /\ table' = table
  BY DEF Operator, Reopen, OpenAdd, CloseDialog, Submit, ClickAway, ConfirmDelete, OpenEdit,
     AskDelete, Type, removeAccess, addAccess, changeRole
<1> SUFFICES ASSUME quiet' PROVE Agree(reqs', table, list', dialog', kind)
  BY <1>1 DEF QuietInv
<1>2. CASE Reopen
  BY <1>2, ReopenAgrees
<1> SUFFICES ASSUME ~Reopen PROVE Agree(reqs', table, list', dialog', kind)
  BY <1>2
<1>3. Agree(reqs, table, list, dialog, kind)
  BY StillQuiet DEF QuietInv
<1>4. CASE OpenAdd
  BY <1>3, <1>4, OpenAddAgrees DEF OpenAdd
<1>5. CASE CloseDialog
  BY <1>3, <1>5, CloseDialogAgrees DEF CloseDialog
<1>6. CASE Submit
  BY <1>3, <1>6, SubmitAgrees DEF Submit
<1>7. CASE ClickAway
  BY <1>3, <1>7 DEF ClickAway
<1>8. CASE ConfirmDelete
  BY <1>3, <1>8, ConfirmDeleteAgrees DEF ConfirmDelete, view
<1>9. ASSUME NEW r \in Row, OpenEdit(r) PROVE Agree(reqs', table, list', dialog', kind)
  BY <1>3, <1>9, OpenEditAgrees DEF OpenEdit
<1>10. ASSUME NEW r \in Row, AskDelete(r) PROVE Agree(reqs', table, list', dialog', kind)
  BY <1>3, <1>10 DEF AskDelete
<1>11. ASSUME NEW v \in {"n", "m"}, Type("name", v)
       PROVE  Agree(reqs', table, list', dialog', kind)
  <2>1. "name" \in Fields /\ reqs' = reqs /\ list' = list
    BY <1>11 DEF Fields, Type
  <2> QED
    BY <1>3, <1>11, <2>1, TypedValues, TypeAgrees
<1>12. ASSUME NEW v \in {"", "t"}, Type("text", v)
       PROVE  Agree(reqs', table, list', dialog', kind)
  <2>1. "text" \in Fields /\ reqs' = reqs /\ list' = list
    BY <1>12 DEF Fields, Type
  <2> QED
    BY <1>3, <1>12, <2>1, TypedValues, TypeAgrees
<1>13. ASSUME NEW v \in Listed, Type("version", v)
       PROVE  Agree(reqs', table, list', dialog', kind)
  <2>1. "version" \in Fields /\ reqs' = reqs /\ list' = list
    BY <1>13 DEF Fields, Type
  <2> QED
    BY <1>3, <1>13, <2>1, TypedValues, TypeAgrees
<1>14. ASSUME NEW s \in Site, removeAccess(s) PROVE Agree(reqs', table, list', dialog', kind)
  BY <1>3, <1>14, removeAccessAgrees DEF removeAccess
<1>15. ASSUME NEW s \in Site, NEW role \in Roles, addAccess(s, role)
       PROVE  Agree(reqs', table, list', dialog', kind)
  BY <1>3, <1>15, addAccessAgrees DEF addAccess
<1>16. ASSUME NEW s \in Site, NEW role \in Roles, changeRole(s, role)
       PROVE  Agree(reqs', table, list', dialog', kind)
  BY <1>3, <1>16, changeRoleAgrees DEF changeRole
<1> QED
  BY <1>4, <1>5, <1>6, <1>7, <1>8, <1>9, <1>10, <1>11, <1>12, <1>13, <1>14, <1>15, <1>16
  DEF Operator

LEMMA InitAgrees ==
  ASSUME Init
  PROVE  QuietInv
<1> DEFINE load == Request("load", NoRow, NoRow)
           m == CHOOSE i \in Slots : TRUE
           none == [j \in Slots |-> NoRequest]
<1>1. m \in Slots /\ reqs = Put(none, m, load) /\ dialog.mode # "edit"
  BY ControllerAssumption, Nothing DEF Init
<1>2. load.op = "load" /\ ~load.dropped /\ load.phase = "sent"
  BY LoadIsOK
<1> HIDE DEF load, m
<1>3. reqs[m] = load /\ \A j \in Slots : j # m => reqs[j] = NoRequest
  BY <1>1 DEF Put
<1> QED
  BY <1>1, <1>2, <1>3, ReadingAgrees DEF QuietInv, FormTrue

LEMMA NextAgrees ==
  ASSUME TypeInv, QuietInv, [Next]_vars
  PROVE  QuietInv'
<1>1. CASE Operator
  BY <1>1, OperatorAgrees
<1>2. ASSUME NEW i \in Slots, Serve(i) PROVE QuietInv'
  BY <1>2, ServeAgrees
<1>3. ASSUME NEW i \in Slots, Answer(i) PROVE QuietInv'
  BY <1>3, AnswerAgrees
<1>4. ASSUME NEW i \in Slots, Fault(i) PROVE QuietInv'
  BY <1>4 DEF Fault, QuietInv
<1>5. CASE UNCHANGED vars
  BY <1>5 DEF vars, view, QuietInv
<1> QED
  BY <1>1, <1>2, <1>3, <1>4, <1>5 DEF Next

LEMMA Agreed ==
  Spec => [](TypeInv /\ QuietInv)
<1>1. Init => TypeInv /\ QuietInv
  BY InitHolds, InitAgrees
<1>2. TypeInv /\ QuietInv /\ [Next]_vars => (TypeInv /\ QuietInv)'
  BY NextKeeps, NextAgrees
<1> QED
  BY <1>1, <1>2, PTL DEF Spec

LEMMA ListHolds ==
  ASSUME TypeInv, QuietInv
  PROVE  ListIsTrue
<1> SUFFICES ASSUME quiet, UnderWay = {}, dialog = NoDialog PROVE list = table
  BY DEF ListIsTrue
<1>1. \A j \in Slots : reqs[j].op = "none" /\ reqs[j].phase = "sent"
  BY Nothing DEF UnderWay
<1>2. dialog.mode # "edit" /\ NoLoad(reqs) /\ \A r \in Row : ~Pending(reqs, r)
  BY <1>1, Nothing DEF NoLoad, Pending
<1>3. \A r \in Row : list[r] = table[r]
  BY <1>2 DEF QuietInv, Agree, ListTrue
<1>4. list \in Rows /\ table \in Rows
  BY DEF TypeInv, PageInv
<1> QED
  BY <1>3, <1>4 DEF Rows

\* What a dialog makes of a version is used in the same way.
LEMMA VersionMeansTheSame ==
  ASSUME NEW v \in DOMAIN Starts
  PROVE  /\ v \in Listed => normalizeVersion(v) = v
         /\ Gates(normalizeVersion(v)) = Gates(v)
<1>1. v \in {"1.3", "1.4", "1.5", "1.5-rolling", "2.0"}
  BY DEF Starts, Listed
<1> QED
  BY <1>1 DEF Starts, Listed, normalizeVersion, Gates

LEMMA FormHolds ==
  ASSUME TypeInv, QuietInv
  PROVE  FormIsCurrent
<1> DEFINE row == table[dialog.row].form
<1> SUFFICES ASSUME quiet, Editing
             PROVE  /\ Has(dialog.row)
                    /\ \A f \in Fields \ dialog.touched :
                         IF f = "version" /\ row.version \notin Listed
                         THEN Gates(dialog.form.version) = Gates(row.version)
                         ELSE dialog.form[f] = row[f]
  BY DEF FormIsCurrent
<1>1. /\ table[dialog.row] # NoRow
      /\ \A f \in Fields \ dialog.touched : dialog.form[f] = EditForm(row)[f]
  BY DEF QuietInv, Agree, FormTrue, Editing
<1>2. row \in Form
  BY <1>1 DEF TypeInv, PageInv, RowOK, Editing, Rows, Entry
<1> HIDE DEF row
<1>3. /\ EditForm(row)["name"] = row["name"] /\ EditForm(row)["text"] = row["text"]
      /\ EditForm(row)["version"] = normalizeVersion(row["version"])
      /\ row.version \in DOMAIN Starts
  BY <1>2, EditFormIs
<1>4. "version" \notin dialog.touched => dialog.form["version"] = normalizeVersion(row["version"])
  BY <1>1, <1>3 DEF Fields
<1>5. ASSUME NEW f \in Fields \ dialog.touched, f # "version"
      PROVE  dialog.form[f] = row[f]
  BY <1>1, <1>3, <1>5 DEF Fields
<1>6. CASE "version" \in dialog.touched
  BY <1>1, <1>5, <1>6 DEF Has
<1>7. CASE "version" \notin dialog.touched
  BY <1>1, <1>3, <1>4, <1>5, <1>7, VersionMeansTheSame DEF Has
<1> QED
  BY <1>6, <1>7

\* A grant of the user in the dialog that is not asked for, or that nothing but a save
\* and grants of other sites are under way with, is shown as it is.
LEMMA AccessHolds ==
  ASSUME TypeInv, QuietInv
  PROVE  AccessAsShown
<1> SUFFICES ASSUME quiet, Editing, NEW s \in Site,
                    \A i \in UnderWay : Writes(i, dialog.row) =>
                      (reqs[i].op \in Grants /\ reqs[i].arg[1] # s) \/ reqs[i].op = "patch"
             PROVE  dialog.access[s] = table[dialog.row].access[s]
  BY DEF AccessAsShown
<1>1. ASSUME NEW i \in Slots PROVE ~Asks(reqs[i], dialog.row, s)
  <2> SUFFICES ASSUME reqs[i].op \in Grants, reqs[i].row = dialog.row, reqs[i].arg[1] = s
               PROVE  FALSE
    BY DEF Asks
  <2>1. i \in UnderWay /\ Writes(i, dialog.row) /\ reqs[i].op # "patch"
    BY Nothing DEF UnderWay, Writes
  <2> QED
    BY <2>1
<1> QED
  BY <1>1 DEF QuietInv, Agree, AccessTrue, Editing

\* While no request has failed and none was sent that another one could get in the way of,
\* a list that nothing is under way for shows the rows of the database, whatever order the
\* requests were served and answered in.
THEOREM ListsShowTheDatabase == Spec => []ListIsTrue
BY Agreed, ListHolds, PTL

\* ... the fields of a dialog that nobody has typed into are as they are in the database,
\* but for a version that is not listed, in the place of which stands one of which as much
\* is used: a save takes back nothing and changes no feature of a device.
THEOREM FormsAreCurrent == Spec => []FormIsCurrent
BY Agreed, FormHolds, PTL

\* ... and the grants in the dialog of a user are those of the database, site by site.
THEOREM AccessIsShown == Spec => []AccessAsShown
BY Agreed, AccessHolds, PTL

=============================================================================
