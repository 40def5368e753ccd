------------------------------- MODULE Fleet -------------------------------
(***************************************************************************)
(* The inventory of sites and routers and the poller that keeps the status *)
(* of every router that has an API key (routes/sites.rs,                   *)
(* routes/routers.rs, vyos/poller.rs).                                     *)
(*                                                                         *)
(* A poll round reads the routers once, probes each in a task of its own   *)
(* and writes the answers one by one, while the routers are edited and     *)
(* deleted and the devices go up and down.  An address stands for all that *)
(* is needed to reach a device besides the key: host, port, protocol,      *)
(* version and timeout.                                                    *)
(***************************************************************************)
EXTENDS Naturals

CONSTANTS
  Router,    \* ids of routers; an id is used once
  Site,      \* ids of sites
  Addr,      \* ways to reach a device
  Key,       \* API keys
  NoKey,     \* api_key is NULL or empty
  NoRow,     \* the table has no row with this id
  NoAnswer,  \* a probe that has not ended
  MaxFaults  \* bound: failed writes and restarts of the backend

Status == {"ok", "warn", "off"}
Row == [site : Site, addr : Addr, key : Key \union {NoKey}, status : Status]

ASSUME KeyAssumption == NoKey \notin Key
ASSUME RowAssumption == NoRow \notin Row
ASSUME AnswerAssumption == NoAnswer \notin Status
ASSUME FaultAssumption == MaxFaults \in Nat

VARIABLES
  sites,    \* the sites table
  routers,  \* the routers table: Router -> Row or NoRow
  born,     \* ids that have been used
  answer,   \* what a device says to a probe: Addr \X Key -> Status
  polling,  \* a poll round is running
  checks,   \* its tasks that have not ended
  faults,   \* failed writes and restarts so far
  possible  \* history: answers that are possible since the last round began

table == <<sites, routers, born>>
vars == <<table, answer, polling, checks, faults, possible>>

Exists(r) == routers[r] # NoRow
Keyed(r) == Exists(r) /\ routers[r].key # NoKey
Truth(r) == answer[<<routers[r].addr, routers[r].key>>]
Seen(r) ==
  IF Keyed(r) THEN <<routers[r].addr, routers[r].key, Truth(r)>> ELSE <<>>
Check == [router : Router, addr : Addr, key : Key, answer : Status \union {NoAnswer}]

Init ==
  /\ sites = {}
  /\ routers = [r \in Router |-> NoRow]
  /\ born = {}
  /\ answer \in [Addr \X Key -> Status]
  /\ polling = FALSE
  /\ checks = {}
  /\ faults = 0
  /\ possible = [r \in Router |-> Status]

-----------------------------------------------------------------------------
(***************************************************************************)
(* The inventory                                                           *)
(***************************************************************************)

CreateSite(s) ==
  /\ s \notin sites
  /\ sites' = sites \union {s}
  /\ UNCHANGED <<routers, born, answer, polling, checks, faults, possible>>

\* Mutant: the foreign key has no ON DELETE CASCADE.
DeleteSiteOnly(s) ==
  /\ s \in sites
  /\ sites' = sites \ {s}
  /\ UNCHANGED <<routers, born, answer, polling, checks, faults, possible>>

\* The routers of a site go with it.
DeleteSite(s) ==
  /\ s \in sites
  /\ sites' = sites \ {s}
  /\ routers' = [r \in Router |-> IF Exists(r) /\ routers[r].site = s THEN NoRow ELSE routers[r]]
  /\ UNCHANGED <<born, answer, polling, checks, faults, possible>>

\* A new router has no key and is off.
CreateRouter(r, s, a) ==
  /\ r \notin born
  /\ s \in sites
  /\ born' = born \union {r}
  /\ routers' = [routers EXCEPT ![r] = [site |-> s, addr |-> a, key |-> NoKey, status |-> "off"]]
  /\ UNCHANGED <<sites, answer, polling, checks, faults, possible>>

\* Mutant: an empty key field clears the key.
UpdateRouterClearsKey(r, a, k) ==
  /\ Exists(r)
  /\ routers' = [routers EXCEPT ![r].addr = a, ![r].key = k]
  /\ possible' = [possible EXCEPT ![r] = Status]
  /\ UNCHANGED <<sites, born, answer, polling, checks, faults>>

\* An empty key field keeps the key.  The status stays until the next round.
UpdateRouter(r, a, k) ==
  /\ Exists(r)
  /\ routers' = [routers EXCEPT ![r].addr = a, ![r].key = IF k = NoKey THEN @ ELSE k]
  /\ possible' = [possible EXCEPT ![r] = Status]
  /\ UNCHANGED <<sites, born, answer, polling, checks, faults>>

DeleteRouter(r) ==
  /\ Exists(r)
  /\ routers' = [routers EXCEPT ![r] = NoRow]
  /\ UNCHANGED <<sites, born, answer, polling, checks, faults, possible>>

-----------------------------------------------------------------------------
(***************************************************************************)
(* The devices and the poller                                              *)
(***************************************************************************)

\* A device goes up or down, or accepts a key or no longer does.
DeviceChanges(a, k, s) ==
  /\ answer' = [answer EXCEPT ![<<a, k>>] = s]
  /\ possible' = [r \in Router |->
       IF Keyed(r) /\ routers[r].addr = a /\ routers[r].key = k
       THEN possible[r] \union {s} ELSE possible[r]]
  /\ UNCHANGED <<table, polling, checks, faults>>

\* What the poller reads of the router.
CheckOf(r) ==
  [router |-> r, addr |-> routers[r].addr, key |-> routers[r].key, answer |-> NoAnswer]

\* Mutant: routers that are off are not probed again.
StartRoundSkipsOff ==
  /\ ~polling
  /\ polling' = TRUE
  /\ checks' = {CheckOf(r) : r \in {q \in Router : Keyed(q) /\ routers[q].status # "off"}}
  /\ possible' = [r \in Router |-> IF Keyed(r) THEN {Truth(r)} ELSE Status]
  /\ UNCHANGED <<table, answer, faults>>

\* The ticker starts a round: all routers that have a key, as they are now.
StartRound ==
  /\ ~polling
  /\ polling' = TRUE
  /\ checks' = {CheckOf(r) : r \in {q \in Router : Keyed(q)}}
  /\ possible' = [r \in Router |-> IF Keyed(r) THEN {Truth(r)} ELSE Status]
  /\ UNCHANGED <<table, answer, faults>>

\* The device answers, or the client's timeout ends the probe.
Probe(c) ==
  /\ c.answer = NoAnswer
  /\ checks' = (checks \ {c}) \union {[c EXCEPT !.answer = answer[<<c.addr, c.key>>]]}
  /\ UNCHANGED <<table, answer, polling, faults, possible>>

\* UPDATE routers SET status: no effect when the router has been deleted.
WriteStatus(c) ==
  /\ c.answer # NoAnswer
  /\ checks' = checks \ {c}
  /\ routers' = IF Exists(c.router)
                THEN [routers EXCEPT ![c.router].status = c.answer] ELSE routers
  /\ UNCHANGED <<sites, born, answer, polling, faults, possible>>

\* The UPDATE fails: the poller logs it and goes on.
WriteFails(c) ==
  /\ c.answer # NoAnswer
  /\ faults < MaxFaults
  /\ faults' = faults + 1
  /\ checks' = checks \ {c}
  /\ possible' = [possible EXCEPT ![c.router] = Status]
  /\ UNCHANGED <<table, answer, polling>>

\* Mutant: the tasks are not awaited.
EndRoundEarly ==
  /\ polling
  /\ polling' = FALSE
  /\ UNCHANGED <<table, answer, checks, faults, possible>>

\* The next round begins only after all tasks of this one have ended.
EndRound ==
  /\ polling
  /\ checks = {}
  /\ polling' = FALSE
  /\ UNCHANGED <<table, answer, checks, faults, possible>>

\* The backend restarts; its tasks are lost.
Restart ==
  /\ faults < MaxFaults
  /\ faults' = faults + 1
  /\ polling' = FALSE
  /\ checks' = {}
  /\ possible' = [r \in Router |-> Status]
  /\ UNCHANGED <<table, answer>>

Operator ==
  \/ \E s \in Site : CreateSite(s) \/ DeleteSite(s)
  \/ \E r \in Router, s \in Site, a \in Addr : CreateRouter(r, s, a)
  \/ \E r \in Router, a \in Addr, k \in Key \union {NoKey} : UpdateRouter(r, a, k)
  \/ \E r \in Router : DeleteRouter(r)

Poller ==
  \/ StartRound
  \/ \E c \in checks : Probe(c) \/ WriteStatus(c)
  \/ EndRound

Next ==
  \/ Operator
  \/ \E a \in Addr, k \in Key, s \in Status : DeviceChanges(a, k, s)
  \/ Poller
  \/ \E c \in checks : WriteFails(c)
  \/ Restart

Spec == Init /\ [][Next]_vars

\* The ticker ticks, every probe ends by the client's timeout, and tokio runs the
\* tasks: the poller as a whole makes progress while it has something to do.
FairSpec == Spec /\ WF_vars(Poller)

-----------------------------------------------------------------------------
(***************************************************************************)
(* Properties                                                              *)
(***************************************************************************)

\* Rows and tasks have their types, and every router has a site.
TypeOK ==
  /\ sites \subseteq Site
  /\ routers \in [Router -> Row \union {NoRow}]
  /\ born \subseteq Router
  /\ answer \in [Addr \X Key -> Status]
  /\ polling \in BOOLEAN
  /\ checks \subseteq Check
  /\ faults \in 0..MaxFaults
  /\ possible \in [Router -> SUBSET Status]
  /\ \A r \in Router : Exists(r) => r \in born /\ routers[r].site \in sites

\* A router that has never had a key is shown as off: whatever rounds are under
\* way while it is created and edited, none writes to it.
KeylessIsOff == \A r \in Router : Exists(r) /\ ~Keyed(r) => routers[r].status = "off"

\* Between two rounds the status of a router with a key is one that its device,
\* under its present address and key, gave since the last round began, unless the
\* router was edited, its write failed or the backend was restarted since then.
\* No answer of an earlier round comes in late.
RoundLeavesFreshStatus ==
  ~polling => \A r \in Router : Keyed(r) => routers[r].status \in possible[r]

\* When a router and its device are left alone, the status becomes and stays what
\* the device says, whatever happens to other routers and devices meanwhile.
StatusSettles ==
  \A r \in Router :
    <>[][UNCHANGED Seen(r)]_vars => <>[](Keyed(r) => routers[r].status = Truth(r))
=============================================================================
