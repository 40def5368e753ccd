# A verification project for vyos-fabric

vyos-fabric is a controller for VyOS routers: a Rust backend (axum, sqlx,
Postgres) that talks to the HTTP API of the routers, and a Next.js frontend.
This directory holds TLA+ models of its logic, the TLC runs that check them on
small instances, and proofs, checked by TLAPS, that hold for every value of
the constants.

    tlc -config Review_overlap.cfg MCChangeReview     # a run
    tlapm ChangeReview_proofs.tla                     # the proofs

`PROJECT.json` lists the components, the runs with their properties, for every
property a mutation of the code that the run finds, the source lines behind
every definition, the disagreements found between code and documentation, the
hazards of the code, and the theorems.

Paths below are relative to `src/`; `routes/`, `vyos/`, `models/`, `auth.rs`
are under `src/backend/src/`, `lib/`, `components/`, `app/` under
`src/frontend/src/`.

## 1. The system

An operator edits a form in the browser. The form is posted to a staging
endpoint, which reads the live configuration of the router, computes the
difference as set/delete commands and stores them as pending rows. The change
tray shows the pending rows of a router; the operator discards some and
commits the others, which sends them to the router as one batch, saves the
router's configuration and records the commit. A poller probes every router
that has an API key every 30 seconds. Sites group routers, users are granted
sites.

| Component | State it keeps | Operations | Talks to |
|---|---|---|---|
| Change review and commit (`routes/config.rs`, staging halves of `routes/firewall.rs`, `interfaces.rs`, `nat.rs`) | tables `config_changes` (status pending/committed, `commit_id`) and `config_commits` | stage (read live, diff, DELETE stale rows, INSERT rows), list, discard one/all, commit (SELECT, configure, save, INSERT commit, UPDATE rows), history | Postgres, the VyOS client, the change tray |
| Configuration diffs (`diff_system`, `diff_ethernet`, `diff_vlan`, `diff_nat44`, `static_pair`, `diff_global_options`) | none (pure) | one diff per form | called by staging |
| VyOS client (`vyos/client.rs`) | a `reqwest` client with a timeout and the API key | retrieve, configure, save, show, generate, reset, ... | the device |
| Access (`auth.rs`, `routes/auth.rs`, `users.rs`) | tables `users`, `user_site_access`; the session token held by the browser | login (with upgrade of legacy hashes), logout, me; user CRUD; grant and revoke; `authorize_router` at the start of every router handler | Postgres, every other route |
| Router inventory (`routes/routers.rs`, `routes/sites.rs`) | tables `routers` (address, key, status) and `sites` | CRUD (a site takes its routers with it), `fetch_client`, proxies to the device API, `proxy_poll` | Postgres, the VyOS client |
| Poller (`vyos/poller.rs`) | the tasks of a round; writes `routers.status` | `poll_all` reads the routers that have a key, spawns one `check_device` for each and awaits them all before the next tick | Postgres, the VyOS client |
| Read-only handlers (`routes/services.rs`, list handlers of `interfaces.rs`, `nat.rs`, `firewall.rs`, parsers of `config.rs`) | none | parse the configuration or the op-mode output of the device | the VyOS client |
| Schema and start-up (`migrations/`, `main.rs`, `state.rs`, `error.rs`) | the schema | migrate once, build the router, start the poller | Postgres |
| Pending-change context and tray (`lib/ConfigChanges.tsx`, `components/dashboard/ChangeTray.tsx`) | the pending list of the current router, loading/committing flags, notices | refresh, stage wrappers, discard one/all, commit | the API |
| Session and device context (`components/AuthGuard.tsx`, `lib/DeviceContext.tsx`) | current user, current router and its list | load, switch | the API, local storage |
| Dashboard grid (`components/dashboard/DashboardGrid.tsx`) | the positions of the tiles, an edit or drag in progress | resolve layout, move, resize, add, remove | local storage |
| Live traffic tile (`useInterfaceStats.ts`, `NetworkSpeedTile.tsx`) | the last counters and a window of rates | poll, difference of counters | the API |
| Device pages (50 routes under `app/[siteSlug]/device/[deviceId]/`, `ServiceScaffold.tsx`, `NatRulesView.tsx`) | loading, error or contents of one read; the view; inline confirmations | load, retry, refresh, switch the tab, delete a row | the API, their tables |
| Tables (`DataTable.tsx`) | order, widths and visibility of the columns; search, filters, sorting, selection | drag, resize, hide, reset | local storage |
| Forms (the form modals, system and global options) | what the operator is typing | submit | the staging wrappers |
| Controller pages (`app/controller/users`, `app/controller/sites`) | the list, a dialog, an inline confirmation, requests under way | create, edit, delete, grant, revoke | `routes/users.rs`, `sites.rs`, `routers.rs` |

### What is hard

* **Every staging and commit handler is a sequence of statements without a
  transaction**, with calls to a device in between that may take seconds. Two
  browser tabs or two operators interleave at any statement (`routes/config.rs`
  412-419, 597-683).
* **The device answers late or never.** The client gives up after a timeout,
  but the device may have applied the batch, or still apply it.
* **Handlers are dropped** half-way: when the browser disconnects, when a
  statement fails, when the backend restarts.
* **Applied is not saved**: a commit applies first and saves afterwards, and a
  router that reboots in between comes back without the batch.
* **A diff is relative to what was live when it was computed**, but is applied
  when somebody commits it.
* **The browser has several requests under way** and does not order their
  answers: refreshes of the tray, reads of a page, saves and grants of a dialog
  that may be closed by the time they are answered.
* **Components outlive what they show**: React keeps a table, its hidden columns
  and the state in its rows when a tab gives it other rows and columns.
* **Authorization is checked once** per request, from a role in the token that
  is valid for 24 hours.
* **The poller and the CRUD handlers write the same rows**: a probe answers for
  the address it was started with, whatever the row says by then. Rounds do not
  overlap (`poll_all` awaits every task, the ticker skips missed ticks), so one
  slow device delays the status of all.

### What makes each component correct

* Review and commit: the history tells the truth about what was sent, also of
  handlers that were cut off; a batch leaves the tray as a whole; saved means saved; restaging replaces;
  the tray brings the device to what the operator asked for; every request
  ends.
* Diffs: applying the diff to the live configuration gives exactly what the
  form asks for, and leaves everything else alone.
* Inventory and poller: a router that is left alone gets the status its device
  has; an answer of an old round never overwrites a newer one; a router without
  a key is off; a router always has a site.
* Tray: what the operator did is what the tray shows, once everything is quiet;
  a staging is brought to the operator.
* Device pages: a page never goes back to older data, keeps its contents while
  it refreshes, settles, and deletes only the row that was asked for.
* Tables: a layout comes back as it was left and to the table it belongs to;
  resizing respects the minima; a column stays.
* Controller pages: a list is what the database holds, a dialog starts with what
  is there and shows the grants as they are, no button waits for nothing.
* Grid: no two tiles overlap and none leaves the columns, after every move and
  resize.


## 2. The modules

| Module | What it is | Lines of the code it stands for |
|---|---|---|
| `ChangeReview` | review and commit of one router's staged changes, with its device | `routes/config.rs`, the staging handlers of `interfaces.rs`, `nat.rs`, `firewall.rs`, `vyos/client.rs`, migration 6 |
| `ChangeReview_proofs` | theorems about it, for any handlers and for one at a time, and that it implements `ReviewLedger` | |
| `MCChangeReview` + `Review_*.cfg` | its instances | |
| `ConfigDiff` | the diffs, and the device that executes them | `diff_*` of `routes/`, the forms that submit them |
| `MCConfigDiff` + `Diff_*.cfg` | its instance | |
| `ConfigDiff_proofs` | theorems about it | |
| `ReviewLedger` | what the review promises, without handlers and statements | the tables of migration 6 |
| `Tray` + `Tray.cfg` | the tray of one browser, on a backend that is `ReviewLedger` | `lib/ConfigChanges.tsx`, `ChangeTray.tsx` |
| `Tray_proofs` | theorems about it | |
| `DevicePages` | every page of a device: how it reads, its tables, views, rows | the `page.tsx` of each route, `NatRulesView.tsx` |
| `Pages` + `Pages*.cfg`, `MCPages` | one browser tab that opens these pages | the pages, `ServiceScaffold.tsx`, `DataTable.tsx` (Refresh, storage) |
| `Pages_proofs` | theorems about it | |
| `Table` + `Table.cfg`, `MCTable` | the layout of one table | `DataTable.tsx` |
| `Table_proofs` | theorems about it | |
| `Controller` + `Controller.cfg`, `MCController` | the pages of users, sites and devices | `app/controller/`, `routes/users.rs`, `sites.rs`, `routers.rs` |
| `Controller_proofs` | theorems about it | |
| `Fleet` + `Fleet_poll.cfg` | inventory of sites and routers, poller | `routes/sites.rs`, `routes/routers.rs`, `vyos/poller.rs` |
| `Fleet_proofs` | theorems about it | |
| `Grid` | the dashboard of tiles | `DashboardGrid.tsx`, `tiles.tsx`, the dashboard's `page.tsx` |
| `MCGrid` + `Grid_*.cfg` | its instance | |
| `Grid_proofs` | theorems about it | |

`ChangeReview` and `ConfigDiff` split the same flow. `ChangeReview` has the
concurrency: its diff is "one command per leaf that differs", and the order in
which the commands of one diff are inserted is left open. `ConfigDiff` has the
content: it takes the real diffs apart, leaf by leaf, and shows that they are
correct under every order, with one exception that `ChangeReview` treats as one
command (the interface of a NAT rule, whose old form must go first).

`ReviewLedger` is the seam between backend and browser: `ChangeReview`
implements it (`ImplementsLedger`, `INSTANCE ReviewLedger WITH` the refinement
mapping of rows to tray and history), and `Tray` instantiates it as its backend,
so what is checked of the tray holds for every order of statements of the
handlers. `Pages` takes its pages from `DevicePages` and leaves to `Table` what a
layout consists of.

### ChangeReview

State: `rows` and `commits` are the two tables restricted to one router,
`nextRow` and `nextCommit` their next ids (the order of ids is the order of
`created_at`). `running` and `boot` are the two configurations of the device,
functions from leaves to values. `req[p]` is the handler in request slot `p`:
its `pc` and its locals under their names in the source (`batch` is `pending`).
`strays` are batches on the wire whose handler has stopped waiting. The
variables and fields marked *history* are read by properties only.

| Action | Code |
|---|---|
| `StageForm`, `StageMove`, `StageRemove` | a staging handler has read the device and computed its diff: a form in place, a form that renames its object, a deletion |
| `StageClear`, `StageInsert`, `StageReturn` | its DELETE per target, one INSERT per command, its return |
| `DiscardOne`, `DiscardAll` | one DELETE each |
| `CommitSelect` | SELECT of the pending rows (an empty tray is refused) and the call of `/configure` |
| `DeviceApply`, `DeviceReject`, `ConfigureAnswered`, `Timeout` | the device executes the batch or refuses it as a whole; the answer arrives, or the client gives up: an error to the browser, nothing recorded, the call possibly still on the wire (`StrayApply`) |
| `DeviceSave`, `SaveAnswered` | `/config-file save`, and its answer, which sets `saved` |
| `InsertCommit`, `MarkCommitted` | the INSERT of the commit row; on success the UPDATE of **every row that is pending then** |
| `Abort` | the handler is dropped, at any point (browser disconnects, backend restarts, statement fails) |
| `ProxyConfigure`, `ProxySave`, `Reboot` | the device changes without the tray: the generic proxies, a restart with the boot configuration |

Choices. One SQL statement is one atomic step; nothing larger is, since no
handler opens a transaction. A *scope* is what one restaging DELETE clears; a
*page* is the set of scopes a form edits together. A failure of the read or of
`fetch_client` ends the handler before it has changed anything and is not a
step. `Value`, `Tracked` and `Watched` select how much of the data a run
follows: with `Value = {Unset}` commands have identity but no content, which is
enough for what the tables say; `Tracked` leaves have the operator's wish
recorded in `agreed`; `Watched` rows have their way into `running` and `boot`
recorded. `cut` is history too: the commits whose handler was dropped between
`InsertCommit` and `MarkCommitted`. What a late call, a restart or another client
of the device does to a leaf takes the operator's wish out of `agreed` only where the
next commit would not undo it: where no command for the leaf waits in the tray
(`InTray`), or the batch of the commit under way has landed already (`Landed`).

### ReviewLedger

A row is staged once, waits in the `tray`, and leaves it for good: thrown away or
moved, with everything that waits at that moment, into the `history` of a commit.
`ChangeReview` maps `tray` to the pending rows, `history` to the rows the history
lists under each commit, `used` to the ids that have been drawn. Late rows (see
section 6) are no contradiction: the ledger moves what waits when the commit is
recorded. What it forbids is a commit that takes a part, a row that comes back,
one that is listed twice, and a history that changes later.

### ConfigDiff

State: `live` and `session` are the device's configuration and the one of the
configuration session in which it executes a batch; `drops` and `edits` the
commands of the diff that are still to be executed (the deletions of whole
nodes come first, all else in any order); `repeats` the further sets of values that
a list of the form holds more than once; `asked` the forms that were
submitted; `goal` what they ask for; `plain` tells whether the forms create or
move nothing onto an occupied number. A configuration maps each *node* (a NIC,
a vif, a NAT rule, the global options, one state of the state policy, system,
ntp) to the values of its *leaves*; the leaf `node` is the node's own presence.

`Stage*` is the submission of a page: every form the page lets through, diffed
against `live` by `NodeDiff`. `Execute` is one command, `EndSession` the commit
of the session, which the device refuses when a rule has got both forms of
interface. `LeafDiff`, `ValueDiff`, `IfaceDrop`, `IfaceSet`, `StateDiff`,
`NtpDiff` are the cases of the code's diffs: single values that are set,
replaced or deleted when blank; lists compared element by element; values that
can only be set (host name, time zone); interface name or group; state
policies whose removal takes the log options along; ntp.

Leaves that the code treats alike are represented by one of them (named in
`MCConfigDiff`). What is left of the order of a list is nothing, as the diffs only ask
whether it contains a value; what is left of repetition is `repeats`: the code walks
the list of the form as it is, so that a new value that is given twice is set twice
(`Repeatable`). `Submit` leaves open which values are. Of equal commands the first to
be executed is the one in `edits`, and three are as good as two.

### Fleet

State: the tables `sites` and `routers` (`NoRow` where there is none, `born`
the ids that were used), `answer`, what the device at an address says to a
key, and the poller: `polling` and the `checks` of the running round, each with
the address and key it was started with. An address stands for host, port,
protocol, version and timeout. `possible` is history: the answers a router's
own device gave since the last round began, everything for a router that was
edited, whose write failed, or when the backend restarted.

Each action is one handler or one step of the poller; deletion of a site
cascades; an update with an empty key keeps the key; the status is written by
id alone and has no effect when the row is gone.

### Grid

State: `tiles`, the boxes of the tiles shown (each type at most once, so a type
is its own id), `editing`, the `gesture` of the pointer with the cell or size it
asks for, and `base`, the layout at its start. `OnTileMove` and `OnResizeMove`
compute the next layout from `base`; `ResolveLayout` sorts the other tiles from
top to bottom and lets each go down until it is clear of those already placed;
`FindFreeCell` and `PackTiles` place new tiles and those of older layouts.
A pointer beyond the edge asks for the same as one at the edge. The pointer is
the only hand: buttons are not used while it holds a tile. Storage works, so a
reload finds the last layout, and the default when that was empty.

### Tray

State: the tables of the ledger and a `clock` that counts their changes; `calls`,
the operations of this browser that are under way (the call, then the `refresh`
that follows it); `list`, what the tray shows, with `seen`, when the backend read
it; the drawer with its `tab` and the `commits` of the history tab. `owed` and
`failedAt` are history: the newest change this browser was told of, and the last
refresh that failed.

`StageForm`, `DiscardOne`, `DiscardAll`, `CommitAll` send a call; `Serve` is its
handler as one or more steps of the ledger; `Answer` starts the refresh;
`ReadList`, `ListArrives` and `RefreshFails` are its two halves and its failure;
`OtherWrites` are other browsers. A call that fails is announced and refreshes
nothing; a refresh that fails toasts and lets the operation go on. The button of
the commit is locked while its tab is mounted, not beyond it.

### DevicePages and Pages

`DevicePages` describes each route by a record: its kind (a list, a page in
`ServiceScaffold`, one without Refresh, a form), whether Retry shows the loading
text, the tables of each of its views by the keys of their columns, whether one
table serves all views, and whether its rows can be deleted. Twenty interface
pages pass `load` itself to the Retry button, which makes the click event the mode
of the load, so that their error stays on the screen until the answer comes: the
record says so (`loud`).

`Pages` opens and leaves such pages. State: `status`, the calls of `load()` under
way (`reads`), `refreshing`, the version of the configuration the page holds
(`data`), the layouts on the screen and in the local storage, `confirm`, the view
in which Delete was clicked. A layout is the number of the edit that made it.
Opening a page mounts its tables from the storage (`MountLayouts`) and they save
themselves at once; answers to a page that was left are dropped.

### Table

State: `order`, `widths`, `hidden` as in the component, which keeps keys of
columns that it is not given now; the `grip` of a resize with the widths and
minima at its start; the `store`, one layout per set of columns. `MountWith` and
`Seeded` are the mount with the stored layout and the measuring of widths;
`ResizeMove` computes from the start of the gesture with the two clamps in their
order; `SwitchView` gives the mounted table the columns of another tab, whereupon
the effect stores what it holds under the name of those.

### Controller

State: the `table` in the database, the `list` on the page, the `dialog` with its
form, its copy of the grants and its flags, the inline confirmation, the requests
under way (`reqs`), each sent, served, answered, refused or lost. `kind` is the page:
users are read again after a save, sites and devices take the row of the answer.
A form has a name, a description and, for a device, a version. The dialog of a device
offers three versions, and starts with one of them whatever the row has
(`normalizeVersion`, in `EditForm`); what the rest of the code does with a version is
`Gates`. The first device may have any version, as other clients of the API may set one.
The address and the timings of a device are kept as its description is; its secrets are
never given to the form, and an empty one is kept by the handler (`Fleet`). `Serve` is the handler, `Answer` the
continuation after `await`, `Fault` an error or a lost request. A request whose
dialog was closed, or whose page was left, is served and its answer goes to
whatever is there: `own` and `dropped` tell.

## 3. The runs

| Run | Instance | What it shows |
|---|---|---|
| `review_overlap` | 2 slots, 2 rows, 2 commits, 1 scope, no content, every row watched | what the history says is true whatever handlers overlap; the ledger is implemented; every request ends |
| `review_serial` | 1 slot, 3 rows, 1 commit, 2 scopes of one leaf with value on/unset, the first tracked, 1 stray | restaging replaces; the tray brings the device to what was asked for; a marked commit lists exactly what it sent, any other nothing |
| `review_unsent` | 2 slots, 2 rows, 1 commit | **violated**: the history lists a change that was not sent |
| `diff_pages` | seven pages, each by itself | the diffs are correct, idempotent, and minimal but for repeated entries |
| `diff_strays` | static mappings | **violated**: renumbering onto a plain rule leaves its port |
| `fleet_poll` | 2 routers, 1 site, 2 addresses, 1 key, 1 fault | status of the routers under edits, faults and device changes |
| `grid_moves` | 2 columns, MAX_ROWS 2, 3 tiles of different least sizes | tiles never overlap, and a drag that returns leaves no trace |
| `tray` | 2 calls at a time, 2 rows, 1 commit, 2 changes of the tables | the tray shows what its operator did |
| `pages` | 13 pages, one of every kind; 2 versions, 2 edits, 2 reads at a time | pages never go back, keep their contents and layouts, and settle |
| `pages_confirm` | the NAT44 page alone | **violated**: Confirm deletes a rule whose Delete was not pressed |
| `table` | two tabs with 3 and 2 columns, one in common, widths 1 to 3 | layouts, minima and the last column |
| `controller` | users, sites and devices: 2 ids, 2 sites to be granted, 2 versions of the first device, 2 requests at a time, 1 field typed per dialog, 3 requests or failures | lists, forms and grants against the database, with grants of two sites overlapping; nothing waits for nothing |

### Properties

* `SentOrStagedLate`: a row that the history credits to a commit was in the
  batch of that commit, or was staged after the batch was selected. The second
  half is the defect of `review_unsent`; the property bounds it: nothing that
  was in the tray before the commit is credited unsent.
* `BatchLeavesTray`: a success has marked its rows, and then none of its batch is
  pending, or it has not (its handler is about to, or was cut off), and then it lists
  nothing: a batch is never half committed.
* `SavedSurvivesReboot`: a commit marked saved is in the boot configuration,
  unless the device restarted between its apply and its save.
* `HistoryIsImmutable`: a committed row is never taken back, relinked or
  rewritten, a recorded commit never changes.
* `NoDuplicates`: with one handler at a time, also after aborts and with a call
  still on the wire, no two pending rows write the same leaf. (A value that one form
  gives twice is `ConfigDiff`'s.)
* `HistoryShowsWhatWasSent`: with one handler at a time, a commit that has marked its
  rows lists exactly its batch, as many rows as its `change_count` says. A commit that
  failed, and a success that was cut off before it marked them, list nothing:
  that the latter should list its batch is item 4 of section 6.
* `TrayReachesDesired`: with one handler at a time, applying the tray now gives
  every tracked leaf the value last asked for. It joins diff, restaging and
  batch order, and holds through lost answers and repeated commits, and through late
  calls, restarts of the device and commands sent past the tray for every leaf that
  the tray still holds a command for. Where the tray holds none, or its batch has
  landed, they win: the backend does not know of them.
* `RequestsEnd`: every handler ends.
* `ImplementsLedger`: every step of every handler is a step of `ReviewLedger`, or
  changes nothing that it shows.
* `DiffReachesForm`: executing a diff gives what the form asks for and leaves
  everything else as it was, in every order of its commands.
* `EveryCommandMatters`: every command of a diff has an effect when its turn
  comes, in every order, but for the second and later sets of a value that the form
  gives more than once: these have none at all. `RestagingIsEmpty`: after its commit the same form stages nothing.
* `StaticIsListed`: the two rules of a saved mapping are recognised as that
  mapping, with its addresses, when the page is read back, also when it was
  renumbered onto rules that were there. Whether it is enabled is what the form
  says only if it moved onto no rule that was there (`plain`): the diff of a move
  does not look at what the new number has, so a `disable` stays.
* `KeylessIsOff`: no late answer gives a status to a router that has no key.
* `RoundLeavesFreshStatus`: between two rounds each status is an answer of the
  last round.
* `StatusSettles`: a router that is left alone gets the status its device has,
  whatever happens to the others.
* `TilesFit`: no two tiles share a cell (stated over sets of cells, not with
  the code's `collides`), none crosses the right edge. `NearHomeRestores`: a
  pointer that is back where it took hold of a tile finds the layout of the
  start. `PushedNoFurther`: other tiles move only down, and no further than
  what is above forces them to.
* `ReadYourWrites`: a tray with nothing under way shows every change its own
  operations were told of, however they overlapped. Two exceptions are in it: the
  answers of two refreshes overtook each other (nothing orders them), or a refresh
  has failed since (of which a toast tells).
* `StagedOpensTray`: a staging that staged something opens the tray, also when the
  refresh after it fails.
* `NeverOlder`, a property of steps: an answer does not put an older read on the screen
  than any the page has shown. A Retry that is clicked while a read is under way is not
  locked, and from then until all reads have ended the property says nothing. `ContentStays`: contents go only
  with an error or with the page. `PageSettles`: the loading text goes.
* `LayoutsAreKept`: what is stored under a name is the last edit of a table of
  that name, and what is on the screen is what is stored. Tables with the same
  columns share it, and tabs that share an instance mix theirs: both are the code's
  and left out.
* `PairFits`: during a resize the two columns keep their common width, and their
  minima if they had them. `MinimumIsKept`: no sequence of gestures breaks a
  minimum if no column starts below it. `AColumnIsVisible`: until it is given other
  columns, a table shows one. `ReloadChangesNothing`: a mounted table looks as the
  one that was left.
* `ListIsTrue`: with nothing under way the list is the table. `FormIsCurrent`:
  what was not typed is in the form as in the database, so a save takes nothing
  back; of a version that the dialog does not list it says that the one in its place
  uses the API of the device alike. `AccessAsShown`: the dialog shows the grants, site
  by site, while those of the other sites are under way.
  All three are stated while no request failed and none was sent that another one
  under way could get in the way of (`quiet`); section 7 says what happens then.
  `NothingHangs` has no such condition: a loading list, a disabled Save and a
  disabled Add have their request under way. Left out is the Add of a dialog whose own
  grant was lost: `addAccess` (`users/page.tsx` 387-395) has no `finally`, so that it
  stays disabled until the dialog is closed.

### Bounds

* Two slots are enough for every pairwise race of handlers, which is what the
  hazards are about; two rows are a batch that could be torn, or a batch and a row
  that comes late; two commits let one fail or be aborted and be repeated, or
  overlap. The safety properties of both runs are proved for all bounds (section 5).
  `review_serial` has a third row, so that a form can be cut off half-way and
  staged again, and a call that arrives late.
* `review_serial` has one commit: one that timed out on the device is repeated, one that
  was cut off after its INSERT is not. That a second one then credits the rows to
  itself alone is in `review_overlap` (`BatchLeavesTray`), and proved of any number.
* `review_serial` has two leaves in two scopes because a restaging, a move or a
  deletion relates at most two scopes; one leaf per scope because no command
  but the deletion of a node writes two, and that one is in `ConfigDiff`. A form
  that writes both scopes is there as the one that renames its object. What the
  operator asked for is followed for one of the leaves, as both are alike.
* `diff_pages` gives each page the nodes its forms can name (two where one can
  be moved onto another) and each leaf the values blank, one, and another where
  a replacement differs from a set. Every subset of the new values may be repeated.
* `fleet_poll`: a second router is what deletion, cascade and delay of others
  need; two addresses make an edit during a probe visible; keys matter by being
  there or not. `MaxFaults` bounds failed writes and restarts, without which no
  status need ever settle.
* `grid_moves` scales 4 columns and 16 rows down to 2 and 2, with a tile of any
  size, one that is at least two rows high and one that takes a whole row:
  every way two boxes can overlap occurs. `ScanRows` (200 in the code) is as
  small as its assumption allows. `LastRow` bounds how far tiles are pushed
  down, which the code does not.
* `tray`: two calls are every overlap of two operations or of an operation and the
  first refresh; two changes of the tables are one to be missed and one that hides
  it. What the bounds could hide is proved.
* `pages` opens a page of each kind `DevicePages` has; the others differ in their
  columns only. Two versions tell older from newer, two edits one layout from
  another and from the default, two reads overlap.
* `table`: three columns, so that a border has another beside it and a drop has a
  place between; a second tab with one column in common and one of its own; one
  column wider than its minimum, one minimum that differs. Pixels are counted in
  units of 60.
* `controller`: one row at first and one that may be created, so that a name can be
  taken; `Budget` counts the requests the operator causes and the failures together.
  Two sites, with a grant of one at first, so that it can be changed or removed while the
  other is added, in every order; they are alike, hence the symmetry. A device starts with
  a version that begins like a listed one or with one that does not, and is given any of
  the listed ones, with which its dialog is then opened again.
* `MaxRow`, `MaxCommit` count ids that are never reused; a request starts only
  if there are ids for all it may insert. `MaxStray` bounds calls on the wire.
* `CHECK_DEADLOCK FALSE` in the `Review_*` configurations: when
  the ids are used up and the slots are idle, all that is left (a save, a
  restart) changes nothing, and the instance stops. `Tray.cfg` and `Controller.cfg` say the same: when the clock
  or the budget is used up the operator can do nothing more. The other runs check
  deadlock.

## 4. Fairness

`ChangeReview!FairSpec` has weak fairness for the steps of each handler, as
tokio polls every task that can go on, and for `Timeout`: the client is built
with a timeout of at least one second (`vyos/client.rs` 61-85), so a call
always ends for the handler. Nothing is assumed of the device.

`Fleet!FairSpec` has weak fairness for the poller as a whole: the ticker ticks
(`main.rs` 48-50), a probe ends by answer or timeout, the tasks are polled.
That no single task is starved follows, since a round has finitely many tasks
and the next one begins only after it. Nothing is assumed of operators,
devices, or faults.

`Tray!FairSpec` and `Pages!FairSpec` have weak fairness for the answer of each
call: a `fetch` resolves or rejects in the end, since the backend answers or the
connection breaks, and the backend gives up on a device by its own timeout. The
operator and other browsers owe nothing. `Controller`, `Table` and `Grid` need no
fairness.

## 5. The proofs

The theorems hold for every number of slots, rows, commits, scopes, leaves, values,
nodes, routers, sites, addresses, keys, pages, columns, widths, tiles, grid cells and
requests under way, under the named `ASSUME`s of the modules. Every invariant and every
action property that a passing run checks is proved.

**`ChangeReview_proofs`.** `TypeCorrect` proves `TypeOK`, with the facts about
ids that keep INSERTs within range. The history properties rest on `LinkInv`:
ids are taken in order; the batch of a commit handler holds every row that was
there at its SELECT and is still pending; a handler about to mark rows knows
its commit row, which carries its batch. It is needed because two device calls
and any number of other requests lie between the SELECT and the UPDATE, and
only the handler's locals know what was sent. From it follow `CreditedRowsWereSentOrLate`, `CommittedBatchLeavesTray`
and, as an action property, `HistoryOnlyGrows`. `SavedCommitsPersist` rests on
`SaveInv`, which follows a batch on its way: applied and not rebooted means in
`running`, saved means in `boot`, at each pc of the handler, and `saved` is not
set before the save.

**`ChangeReview_proofs`, the ledger.** `ReviewImplementsLedger`: `ChangeReview` implements the
ledger for all constants. Each action maps to `Stage`, `Remove`, `Commit` or a
stutter; the hard one is `MarkCommitted`, whose image is `Commit(c)` only if `c` has
no rows yet. That is `MarksOnce`, proved inductive with `TypeOK` and `LinkInv`: a
commit row that a handler is about to mark is its own, no other handler holds it,
and no row refers to it.

**`ChangeReview_proofs`, one handler at a time.** What a review keeps when its backend serves one
request at a time (`OneHandler`: there is one request slot, as in
`review_serial`). With two, item 5 of section 6 breaks `NoDuplicates` and
`review_unsent` breaks the history, so the hypothesis is the code's limit, not
the proof's. Everything else is left free: the device, its other clients, calls
that arrive late, handlers that are cut off at any statement. The invariant is
`SerialInv`. `TrayInv` says that no two pending rows write one leaf, and that the
tray brings every tracked leaf to what was asked for. `StagesWell` says the same
of a tray that a half-finished staging will leave behind: the rows it will not
clear and the commands it has yet to insert write different leaves. It is needed
because a staging that was cut off is exactly what the next one must clear.
`CommitsWell` says that the handler of a commit has the whole tray in its batch,
and that the device has what was asked for once it has applied it. The fold that
applies a batch is unfolded only for trays without duplicates, where a leaf gets
the value of the one command that writes it, or stays (`BringsIsAfter`).
`RestagingReplaces` and `TrayGivesWhatWasAskedFor` follow; `HistoryIsWhatWasSent`
needs also `MarkInv` of the ledger (`MarksOnce`, and that a commit which was cut off
stays unmarked), and that a commit counts the rows it sent.

**`Fleet_proofs`.** `TypeCorrect`; `KeylessRoutersAreOff` from `KeyInv` (every
check under way is of a router that still has a key, or is gone, because keys
are never cleared and ids never reused); `RoundsAreFresh` from `PollInv`: while
a round runs each router with a key either has its check under way, whose
answer is possible, or its status is possible already; checks exist only while
a round runs.

**`Tray_proofs`.** `TypeCorrect`, and `TrayShowsOwnChanges` from `Owed`: what this
browser was told of is on the screen, or a refresh is under way that has not been
read or was read after it, or a refresh has failed since, or answers have
overtaken each other. `ReadYourWrites` is not inductive as it stands, because it
says nothing while calls are under way.

**`ConfigDiff_proofs`.** For every set of leaves, values, nodes and pages that the
assumptions allow: `DiffsReachTheForm`, `CommandsMatter`, `RestagingFindsNothing`
and `MappingsAreListed`. None of them is inductive, as they speak of the end of the
execution. The invariant speaks of the end at every moment: `Outcome` is the
configuration when the commands that are left will have been executed. A request
settles it, and every command, whichever the device takes next, leaves it alone,
because the commands of a batch write different leaves, or different values of a
leaf with several (`EditsOK`). A command that comes again finds its value there and
nothing that takes it away (`RepeatInv`), and so changes nothing. Each form's diff is shown to have that shape and the
outcome its form asks for. The assumptions are facts about the forms: which leaves
have one value, that only NAT rules have an interface, and that nobody edits the
node itself as a leaf. The
proof showed that a renumbered mapping is enabled as its form says only if no
disabled rule was at its new number; `diff_pages` has such rules since.

**`Controller_proofs`.** `PagesAreTyped` and `TheAwaitedIsUnderWay` from `TypeInv`:
every request carries what its kind needs, the dialog that owns it is the one that
is open, and what the page or a dialog waits for is in a slot.
`ListsShowTheDatabase`, `FormsAreCurrent` and `AccessIsShown` from `QuietInv`: while
the session is quiet (no failure since the page was opened, and no request sent
while another was under way that it could get in the way of), an answer that is on
its way is what the database holds, a load is alone, requests that write the same
row or grant are apart, and lists and dialogs agree with the database but for what
those answers will bring. What the properties say at rest is thereby said at every
moment. That they fail without the condition is listed in section 7.

**`Pages_proofs`.** `TypeCorrect`. `ScreenNeverGoesBack` from `ReadInv`: as long as no
Retry was clicked over a read, at most one read is under way, and it is not older
than what the page holds. `ContentIsKept`, an action property, from the definitions
of the handlers. `LayoutsStay` from `LayoutInv`: a table that is mounted shows, and
saves at once, what was stored under its name, so that opening pages and switching
tabs changes nothing that an edit has put there. It needs the shape of every page
of `DevicePages` (`TabbedPages`: at most two tables in a view, and as many in views
that share them). All hold for every set of pages that is a subset of `Device`.

**`Table_proofs`.** `Invariance` proves `IInv` for any tabs and columns. What it rests
on is `Kept`, a recursive function that goes through a sequence and keeps some of its
elements. `KeptFacts` says what it returns: exactly those elements, each once if it was
there once, in their order. It is shown by induction, as the absence of a least index
at which it fails, because the library's induction theorem takes an operator. The
order of the columns is two such passes, and `OrderedTwice` says that ordering what is
in order changes nothing. `ReloadChangesNothing` follows from that and `SavedInv`, by
which the store holds what is on the screen, also when the table was left.
`AColumnIsVisible` needs `ShownInv`, which says the same of a table that is not
mounted but has a stored layout. `PairFits` is inductive with `IInv`: what is left of
it when the pointer moves is the arithmetic of the two clamps. `MinimumIsKept` needs
`WideInv`, which has the minima for every stored layout and for the widths at the start
of the gesture, since either may come back to the screen.

**`Grid_proofs`.** `Invariance` proves `GridInv`: the tiles shown are `Sound` (solid,
of allowed sizes, within the columns, no two of them in one cell), and so is, while a
tile is held, the layout of the start of the gesture, whose tiles have given way to
the held one (`HeldInv`). `PushedDown`: a tile goes down to the first row where it is
clear of those already placed, so that it either stays or would collide one row higher.
`Resolved`: `ResolveLayout`, which places one tile after the other, keeps `Settled` at
every step; the tiles are taken from top to bottom, but the proof needs only that each
is taken once. `CellIsFree`: `findFreeCell` finds a cell that is free, by counting: each
of the other tiles blocks less than 2 * MAX_ROWS rows, so that one of the rows it looks at
has none of them. With `ScanAssumption` that is the code's case: three types of tile,
62 rows blocked at most, 200 looked at. Hence also `PackTiles`, for any dashboard stored
by an older version (`PackSound`). `TilesFit`, `NearHomeRestores` and `PushedNoFurther` follow. Nothing is
assumed of how far down tiles get: `LastRow` is any number.

Model-checked only: liveness (`RequestsEnd`, `StatusSettles`, `StagedOpensTray`,
`PageSettles`), which is out of the prover's reach.

## 6. Where code and documentation disagree

Shown by a run:

1. `review_unsent`: the UPDATE after a commit marks every row that is pending
   then. A row staged while the device was working is recorded as part of a
   commit that did not send it (`routes/config.rs` 668).
2. `diff_strays`: a mapping renumbered onto a plain rule keeps that rule's
   port, which the comment at `routes/nat.rs` 446 says is cleaned up.
3. `pages_confirm`: the two rule tabs of NAT44 share a table whose rows are keyed
   by the rule number. "Delete?" asked in a source rule is still there in the
   destination rule of the same number, and Confirm deletes that one
   (`NatRulesView.tsx` 43, 51, 195).

Met while modelling, and left out of the properties by the condition named:

4. The commit row and the rows it lists are two statements (`routes/config.rs` 662, 668). A
   handler that stops in between leaves a success with a `change_count` and no changes,
   against "A commit plus the changes it applied" (`models/config.rs` 46), and rows in the
   tray that the device has applied. `BatchLeavesTray` and `HistoryShowsWhatWasSent` tell
   such a commit from one that has marked its rows, and say of it that it lists nothing.
5. DELETE and INSERTs of a staging are separate statements; two stagings of one
   page that overlap accumulate duplicates, which the comment at `routes/config.rs`
   410 rules out. `NoDuplicates` is checked for one handler at a time.
6. A new entry that a list of the form gives twice is staged and sent twice, which is not
   the minimal list the comment at `routes/config.rs` 449 promises (517; likewise
   `routes/interfaces.rs` 317, 535). `EveryCommandMatters` says that the second has no
   effect, and that every other command of a diff has.
7. `ntp_enabled` true without servers stages nothing, while the comment at
   `routes/config.rs` 449 promises the commands that reach the desired state.
   `DiffReachesForm` leaves that form out.
8. A tile below MAX_ROWS jumps up at the first movement of a drag and displaces
   others, which `DashboardGrid.tsx` 78-80 excludes. `NearHomeRestores` is about
   the other tiles.
9. A column that is measured narrower than its minimum is dragged with clamps that
   cross, and may end anywhere; the comment at `DataTable.tsx` 17 calls it a
   minimum. `PairFits` and `MinimumIsKept` start from columns that have theirs.
10. A table that keeps its hidden columns over a tab switch may show no column at
   all, against "keep at least one column" (`DataTable.tsx` 246).
   `AColumnIsVisible` ends at the switch.

## 7. Not modelled

* Login, tokens, the upgrade of old passwords and the check of each request: no
  text of the repository says when a revocation or a demotion takes effect, so
  there is nothing to hold the code to. Grants themselves are in `Controller`.
* What `Controller` does but has no property for, because nothing says otherwise:
  the late answer of a save whose dialog was closed closes a newer dialog; the
  users page does not look at the status of a load and throws on an error; a row is
  removed from a list even when its deletion was refused; a change of role may
  overtake a removal of the same grant; a name that is emptied is sent as null and
  kept; a Save in the dialog of a device whose version is not listed writes the listed one
  that the dialog starts with, though nobody has touched it; a dialog reopened while the list is read again starts with the old row; what other
  administrators change is not shown before the page is opened again.
* The switch of the browser to another device while a refresh of the tray is under
  way. `refresh` has no guard against a late answer; whether the provider outlives
  the switch is decided by Next.js.
* Search, filters, sorting and selection of table rows: functions of the rows on
  the screen (the selection of a row range is only counted, nothing consumes it).
* The removal of a router with its tables while its handlers are in flight.
* Handlers that only read: they parse and keep no state.
* The traffic tile, whose rates are arithmetic on two samples; the session and
  device contexts, which are read once and passed down; placeholders without state.
* The reads of the VyOS client, TLS, the HTTP framing; what a device does with
  commands it considers invalid, beyond the rule about interfaces.
* Schema and start-up, listings, layout and wording.

## 8. What could be added

* A session: requests that check once and then work, if the code comes to say when
  a revocation takes effect.
* A third scope in `ChangeReview`, for a move that is changed before it is
  committed, and a second device in `Tray`.
