-------------------------------- MODULE Pages --------------------------------
(***************************************************************************)
(* One browser tab on the pages of a device: a page reads its part of the  *)
(* configuration when it is opened, again on Retry and Refresh, and its    *)
(* answers arrive in any order or not at all; the tables it shows keep     *)
(* their layout in the local storage of the browser.                       *)
(*                                                                         *)
(* A layout is the number of the edit that made it, the configuration is   *)
(* the number of its changes, and a row with the same id is in every view  *)
(* of a page.  Opening another page drops everything but the storage.      *)
(***************************************************************************)
EXTENDS Naturals, Sequences, Functions, DevicePages

CONSTANTS
  Visited,    \* names of the pages that are opened
  MaxConfig,  \* bound: versions of the configuration
  MaxEdit,    \* bound: edits of layouts
  MaxReads    \* bound: calls of load() under way at once

NoPage == "none"

ASSUME PagesAssumption ==
  /\ Visited \subseteq DOMAIN Device
  /\ NoPage \notin Visited
  /\ MaxConfig \in Nat \ {0} /\ MaxEdit \in Nat /\ MaxReads \in Nat \ {0}

VARIABLES
  page,        \* the page that is open, or NoPage between two of them
  view,        \* its tab
  status,      \* its `status`
  reads,       \* the calls of load()
  refreshing,  \* the Refresh button is waiting
  data,        \* the version of the configuration it holds, 0 for none
  layouts,     \* the layouts of the tables on the screen
  confirm,     \* the view in which Delete was clicked in the row, 0 for none
  store,       \* local storage: the layouts that are not the default, by name
  config,      \* the version of the configuration on the device
  edits,       \* history: the last edit of a layout with each name
  newest,      \* history: the newest version the page has shown
  overlapped,  \* history: Retry was clicked while a read was under way, and one of
               \* the reads still is
  deleted      \* history: the view that was asked for and the one whose row went

onPage == <<view, status, reads, refreshing, data, layouts, confirm, newest, overlapped, deleted>>
vars == <<page, onPage, store, config, edits>>

Slot == 1..MaxReads
Version == 0..MaxConfig
LayoutNo == 0..MaxEdit

\* The tables of a view; the columns of a table are the name of its layout.
TablesOf(p, v) == Device[p].views[v]
ViewsOf(p) == DOMAIN Device[p].views
NamesOf(p) == UNION {Range(TablesOf(p, v)) : v \in ViewsOf(p)}
Names == UNION {NamesOf(p) : p \in Visited}

\* by: what called load().  "gone": a table that is no longer there.
Read == [pc : {"idle", "sent", "read"}, by : {"mount", "retry", "refresh", "gone"}, ver : Version]
NoRead == [pc |-> "idle", by |-> "mount", ver |-> 0]

-----------------------------------------------------------------------------
(***************************************************************************)
(* What is on the screen                                                   *)
(***************************************************************************)

\* Mutant: ServiceScaffold unmounts its content whenever the page is loading.
ShownWhenReady(p, s, r) == s = "ready"

\* ServiceScaffold keeps its content while the Refresh button is waiting.
ShowContent(p, s, r) == s = "ready" \/ (Device[p].kind = "service" /\ r)
Shown == page # NoPage /\ ShowContent(page, status, refreshing)

\* Mutant: a table starts with the layout it was written with, and saves that.
DefaultLayouts(p, v) == [i \in DOMAIN TablesOf(p, v) |-> 0]

\* A table starts with the layout that is stored under its name.
Stored(n) == IF n \in DOMAIN store THEN store[n] ELSE 0
MountLayouts(p, v) == [i \in DOMAIN TablesOf(p, v) |-> Stored(TablesOf(p, v)[i])]

\* The effect of the tables of a view: they save what they show, in their order.
Save(p, v, ls) ==
  LET saved(n) == {i \in DOMAIN ls : TablesOf(p, v)[i] = n}
      last(n) == CHOOSE i \in saved(n) : \A j \in saved(n) : j <= i
      new == {TablesOf(p, v)[i] : i \in {j \in DOMAIN ls : ls[j] # 0}} IN
    store' = [n \in DOMAIN store \union new |-> IF saved(n) # {} THEN ls[last(n)] ELSE store[n]]

\* The content appears with new tables, stays as it is, or goes with all it holds:
\* that of a service page holds its tabs too.
Render(s, r) ==
  /\ status' = s
  /\ refreshing' = r
  /\ IF ShowContent(page, s, r)
     THEN IF Shown THEN UNCHANGED <<layouts, store>>
          ELSE layouts' = MountLayouts(page, view) /\ Save(page, view, layouts')
     ELSE layouts' = <<>> /\ UNCHANGED store
  /\ confirm' = IF ShowContent(page, s, r) THEN confirm ELSE 0
  /\ view' = IF ShowContent(page, s, r) \/ Device[page].kind # "service" THEN view ELSE 1

-----------------------------------------------------------------------------
(***************************************************************************)
(* load()                                                                  *)
(***************************************************************************)

\* Which calls show the loading text: those of the page, Retry where it passes no
\* event, and the only load() of a service page.
Loud(by) ==
  \/ by = "mount"
  \/ (by = "retry" /\ Device[page].loud)
  \/ Device[page].kind = "service"

Sent(s, by) == [reads EXCEPT ![s] = [NoRead EXCEPT !.pc = "sent", !.by = by]]
FreeSlot(s) == reads[s].pc = "idle" /\ \A t \in Slot : t < s => reads[t].pc # "idle"

\* Opening a page mounts it, leaving it unmounts it; the storage stays.
Fresh(p) ==
  /\ page' = p
  /\ view' = 1 /\ status' = "loading" /\ refreshing' = FALSE
  /\ reads' = Sent(1, "mount")
  /\ data' = 0 /\ newest' = 0 /\ overlapped' = FALSE
  /\ layouts' = <<>> /\ confirm' = 0 /\ deleted' = <<0, 0>>

Open(p) == page = NoPage /\ Fresh(p) /\ UNCHANGED <<store, config, edits>>

\* Mutant: the tables of the page survive it.
LeaveTables ==
  /\ page # NoPage
  /\ page' = NoPage
  /\ view' = 1 /\ status' = "loading" /\ refreshing' = FALSE
  /\ reads' = [s \in Slot |-> NoRead]
  /\ data' = 0 /\ newest' = 0 /\ overlapped' = FALSE
  /\ confirm' = 0 /\ deleted' = <<0, 0>>
  /\ UNCHANGED <<layouts, store, config, edits>>

\* The calls of a page go on when it is left, but nobody waits for them.
Leave ==
  /\ page # NoPage
  /\ page' = NoPage
  /\ view' = 1 /\ status' = "loading" /\ refreshing' = FALSE
  /\ reads' = [s \in Slot |-> NoRead]
  /\ data' = 0 /\ newest' = 0 /\ overlapped' = FALSE
  /\ layouts' = <<>> /\ confirm' = 0 /\ deleted' = <<0, 0>>
  /\ UNCHANGED <<store, config, edits>>

\* Retry is there while the error is shown.
Retry(s) ==
  /\ page # NoPage /\ status = "error" /\ ~Shown
  /\ FreeSlot(s)
  /\ reads' = Sent(s, "retry")
  /\ overlapped' = (overlapped \/ \E t \in Slot : reads[t].pc # "idle")
  /\ Render(IF Loud("retry") THEN "loading" ELSE status, refreshing)
  /\ UNCHANGED <<page, data, config, edits, newest, deleted>>

\* Mutant: the button does not wait for its own refresh.
RefreshAgain(s) ==
  /\ Shown
  /\ Device[page].kind # "plain"
  /\ FreeSlot(s)
  /\ reads' = Sent(s, "refresh")
  /\ Render(IF Loud("refresh") THEN "loading" ELSE status, TRUE)
  /\ UNCHANGED <<page, data, config, edits, newest, overlapped, deleted>>

\* Refresh, in the toolbar of the table, of the scaffold or of the form.
Refresh(s) ==
  /\ Shown /\ ~refreshing
  /\ Device[page].kind # "plain"
  /\ FreeSlot(s)
  /\ reads' = Sent(s, "refresh")
  /\ Render(IF Loud("refresh") THEN "loading" ELSE status, TRUE)
  /\ UNCHANGED <<page, data, config, edits, newest, overlapped, deleted>>

\* The backend reads the device.
ReadConfig(s) ==
  /\ reads[s].pc = "sent"
  /\ reads' = [reads EXCEPT ![s].pc = "read", ![s].ver = config]
  /\ UNCHANGED <<page, view, status, refreshing, data, layouts, confirm, store, config, edits,
                 newest, overlapped, deleted>>

\* The end of a call: a list page that shows an error has no table that waits.
End(s, st) ==
  LET waits == refreshing /\ reads[s].by # "refresh"
      lost == Device[page].kind = "list" /\ st = "error" IN
    /\ Render(st, waits /\ ~lost)
    /\ reads' = [t \in Slot |->
                   IF t = s THEN NoRead
                   ELSE IF lost /\ reads[t].by = "refresh" THEN [reads[t] EXCEPT !.by = "gone"]
                   ELSE reads[t]]
    /\ overlapped' = (overlapped /\ \E t \in Slot \ {s} : reads[t].pc # "idle")

Arrives(s) ==
  /\ reads[s].pc = "read"
  /\ data' = reads[s].ver
  /\ newest' = IF reads[s].ver > newest THEN reads[s].ver ELSE newest
  /\ End(s, "ready")
  /\ UNCHANGED <<page, config, edits, deleted>>

\* Mutant: the error of a read is swallowed.
FailsSilently(s) ==
  /\ reads[s].pc \in {"sent", "read"}
  /\ End(s, status)
  /\ UNCHANGED <<page, data, config, edits, newest, deleted>>

\* The device or the backend does not answer, or refuses.
Fails(s) ==
  /\ reads[s].pc \in {"sent", "read"}
  /\ End(s, "error")
  /\ UNCHANGED <<page, data, config, edits, newest, deleted>>

-----------------------------------------------------------------------------
(***************************************************************************)
(* The content                                                             *)
(***************************************************************************)

\* Another tab of the page: with new tables, or with the old ones, which save the
\* layout they have under the name they have now, and keep what their rows hold.
SwitchView(v) ==
  /\ Shown
  /\ v \in ViewsOf(page) /\ v # view
  /\ view' = v
  /\ layouts' = IF Device[page].keeps THEN layouts ELSE MountLayouts(page, v)
  /\ Save(page, v, layouts')
  /\ UNCHANGED <<page, status, reads, refreshing, data, confirm, config, edits, newest,
                 overlapped, deleted>>

\* The layout n goes under its name, beside those of other tables.
Put(stored, name, n) ==
  [m \in DOMAIN stored \union {name} |-> IF m = name THEN n ELSE stored[m]]

\* A column is moved, resized or hidden.
EditLayout(i) ==
  /\ i \in DOMAIN layouts
  /\ \E n \in 1..MaxEdit :
       /\ \A m \in Range(edits) : m < n
       /\ n = 1 \/ n - 1 \in Range(edits)
       /\ layouts' = [layouts EXCEPT ![i] = n]
       /\ edits' = Put(edits, TablesOf(page, view)[i], n)
       /\ store' = Put(store, TablesOf(page, view)[i], n)
  /\ UNCHANGED <<page, view, status, reads, refreshing, data, confirm, config, newest,
                 overlapped, deleted>>

\* The row asks for a confirmation in its own place.
AskDelete ==
  /\ Shown /\ Device[page].deletes
  /\ confirm = 0
  /\ confirm' = view
  /\ UNCHANGED <<page, view, status, reads, refreshing, data, layouts, store, config, edits,
                 newest, overlapped, deleted>>

CancelDelete ==
  /\ confirm # 0
  /\ confirm' = 0
  /\ UNCHANGED <<page, view, status, reads, refreshing, data, layouts, store, config, edits,
                 newest, overlapped, deleted>>

\* What is staged is the deletion of the row that is on the screen.
ConfirmDelete ==
  /\ confirm # 0
  /\ confirm' = 0
  /\ deleted' = <<confirm, view>>
  /\ UNCHANGED <<page, view, status, reads, refreshing, data, layouts, store, config, edits,
                 newest, overlapped>>

\* Somebody commits.
ConfigChanges ==
  /\ config < MaxConfig
  /\ config' = config + 1
  /\ UNCHANGED <<page, onPage, store, edits>>

-----------------------------------------------------------------------------
Init ==
  /\ page = NoPage
  /\ view = 1 /\ status = "loading" /\ refreshing = FALSE
  /\ reads = [s \in Slot |-> NoRead]
  /\ data = 0 /\ newest = 0 /\ overlapped = FALSE
  /\ layouts = <<>> /\ confirm = 0 /\ deleted = <<0, 0>>
  /\ config = 1
  /\ store = <<>> /\ edits = <<>>

Answers(s) == ReadConfig(s) \/ Arrives(s) \/ Fails(s)

Next ==
  \/ \E s \in Slot : Retry(s) \/ Refresh(s) \/ Answers(s)
  \/ Leave \/ \E p \in Visited : Open(p)
  \/ \E v \in 1..4 : SwitchView(v)
  \/ \E i \in 1..2 : EditLayout(i)
  \/ AskDelete \/ CancelDelete \/ ConfirmDelete
  \/ ConfigChanges

Spec == Init /\ [][Next]_vars

\* Every call is answered in the end or fails: the backend gives up on a device.
Fairness == \A s \in Slot : WF_vars(Answers(s))
FairSpec == Spec /\ Fairness

-----------------------------------------------------------------------------
(***************************************************************************)
(* Properties                                                              *)
(***************************************************************************)

\* The page, its calls and its tables hold values of their types.
TypeOK ==
  /\ page \in Visited \union {NoPage}
  /\ page # NoPage => view \in ViewsOf(page)
  /\ status \in {"loading", "ready", "error"}
  /\ reads \in [Slot -> Read]
  /\ refreshing \in BOOLEAN /\ overlapped \in BOOLEAN
  /\ data \in Version /\ newest \in Version /\ config \in Version
  /\ layouts \in IF Shown THEN [DOMAIN TablesOf(page, view) -> LayoutNo] ELSE {<<>>}
  /\ confirm \in 0..4 /\ deleted \in (0..4) \X (0..4)
  /\ DOMAIN store \subseteq Names /\ Range(store) \subseteq LayoutNo
  /\ DOMAIN edits \subseteq Names /\ Range(edits) \subseteq LayoutNo

\* An answer never puts an older configuration on the screen than one the page has
\* shown, however the answers of its reads arrive, unless Retry was clicked while a
\* read was under way and not all reads have come to an end since.
NeverOlder ==
  [][page' = page /\ data' # data => data' >= newest \/ overlapped]_vars

\* What the operator looks at stays while it is read again: it goes only when a
\* read fails, or with the page.
ContentStays == [][(Shown /\ ~Shown') => (status' = "error" \/ page' = NoPage)]_vars

\* Tables that share an instance across views, and so mix up their layouts.
Mixed == UNION {NamesOf(p) : p \in {q \in Visited : Device[q].keeps}}

\* The layout an operator gave to a table is the one that is stored and the one that
\* is shown next time, whatever pages were opened meanwhile, unless a table with the
\* same columns was changed.
LayoutsAreKept ==
  /\ \A n \in DOMAIN store \ Mixed : n \in DOMAIN edits /\ store[n] = edits[n]
  /\ \A n \in DOMAIN edits \ Mixed : n \in DOMAIN store
  /\ \A i \in DOMAIN layouts :
       LET n == TablesOf(page, view)[i] IN
         n \notin Mixed /\ Len(layouts) = 1 => layouts[i] = Stored(n)

\* No page shows its loading text for ever: the text goes, or the operator.
PageSettles == []<>(page = NoPage \/ status # "loading")

\* A deletion is staged only for a row whose Delete was clicked.
DeleteWasAskedFor == deleted[1] = deleted[2]
=============================================================================
