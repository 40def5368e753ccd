---------------------------- MODULE Fleet_proofs ----------------------------
(***************************************************************************)
(* Proofs about the inventory and the poller, for every number of sites,   *)
(* routers, addresses, keys and faults.                                    *)
(***************************************************************************)
EXTENDS Fleet, TLAPS

-----------------------------------------------------------------------------
(***************************************************************************)
(* Type correctness                                                        *)
(***************************************************************************)

LEMMA InitType == Init => TypeOK
  <1> SUFFICES ASSUME Init PROVE TypeOK
    OBVIOUS
  <1>1. faults \in 0..MaxFaults
    BY FaultAssumption DEF Init
  <1>. QED
    BY <1>1 DEF Init, TypeOK, Exists

\* A row that is there has its type.
LEMMA RowType ==
  ASSUME TypeOK, NEW r \in Router, Exists(r)
  PROVE  routers[r] \in Row
  BY DEF TypeOK, Exists

\* The inventory: no action of the operator breaks the types.
LEMMA OperatorType == TypeOK /\ Operator => TypeOK'
  <1> SUFFICES ASSUME TypeOK, Operator PROVE TypeOK'
    OBVIOUS
  <1>1. CASE \E s \in Site : CreateSite(s)
    BY <1>1 DEF TypeOK, CreateSite, Exists
  <1>2. ASSUME NEW s \in Site, DeleteSite(s) PROVE TypeOK'
    <2>1. routers' \in [Router -> Row \union {NoRow}]
      BY <1>2 DEF TypeOK, DeleteSite
    <2>2. ASSUME NEW r \in Router, Exists(r)'
          PROVE  r \in born' /\ routers'[r].site \in sites'
      BY <1>2, <2>2 DEF TypeOK, DeleteSite, Exists
    <2>. QED
      BY <1>2, <2>1, <2>2 DEF TypeOK, DeleteSite
  <1>3. ASSUME NEW r \in Router, NEW s \in Site, NEW a \in Addr, CreateRouter(r, s, a)
        PROVE  TypeOK'
    <2>1. [site |-> s, addr |-> a, key |-> NoKey, status |-> "off"] \in Row
      BY DEF Row, Status
    <2>2. routers' \in [Router -> Row \union {NoRow}]
      BY <1>3, <2>1 DEF TypeOK, CreateRouter
    <2>3. ASSUME NEW q \in Router, Exists(q)'
          PROVE  q \in born' /\ routers'[q].site \in sites'
      BY <1>3, <2>3 DEF TypeOK, CreateRouter, Exists
    <2>. QED
      BY <1>3, <2>2, <2>3 DEF TypeOK, CreateRouter
  <1>4. ASSUME NEW r \in Router, NEW a \in Addr, NEW k \in Key \union {NoKey},
               UpdateRouter(r, a, k)
        PROVE  TypeOK'
    <2>1. Exists(r) /\ routers[r] \in Row
      BY <1>4, RowType DEF UpdateRouter
    <2> DEFINE row == [routers[r] EXCEPT !.addr = a, !.key = IF k = NoKey THEN @ ELSE k]
    <2>2. row \in Row /\ row.site = routers[r].site
      BY <2>1 DEF Row
    <2>3. routers' = [routers EXCEPT ![r] = row]
      BY <1>4 DEF UpdateRouter, TypeOK
    <2>4. routers' \in [Router -> Row \union {NoRow}]
      BY <2>2, <2>3 DEF TypeOK
    <2>5. possible' \in [Router -> SUBSET Status]
      BY <1>4 DEF TypeOK, UpdateRouter
    <2>6. ASSUME NEW q \in Router, Exists(q)'
          PROVE  q \in born' /\ routers'[q].site \in sites'
      <3>1. Exists(q) /\ routers'[q].site = routers[q].site
        BY <2>1, <2>2, <2>3, <2>6 DEF TypeOK, Exists
      <3>. QED
        BY <3>1, <1>4 DEF TypeOK, UpdateRouter
    <2>. QED
      BY <1>4, <2>4, <2>5, <2>6 DEF TypeOK, UpdateRouter
  <1>5. ASSUME NEW r \in Router, DeleteRouter(r) PROVE TypeOK'
    <2>1. routers' \in [Router -> Row \union {NoRow}]
      BY <1>5 DEF TypeOK, DeleteRouter
    <2>2. ASSUME NEW q \in Router, Exists(q)'
          PROVE  q \in born' /\ routers'[q].site \in sites'
      BY <1>5, <2>2 DEF TypeOK, DeleteRouter, Exists
    <2>. QED
      BY <1>5, <2>1, <2>2 DEF TypeOK, DeleteRouter
  <1>. QED
    BY <1>1, <1>2, <1>3, <1>4, <1>5 DEF Operator

\* The answer a keyed router's device gives is a status.
LEMMA TruthType ==
  ASSUME TypeOK, NEW r \in Router, Keyed(r)
  PROVE  Truth(r) \in Status
  <1>1. routers[r] \in Row /\ routers[r].key # NoKey
    BY RowType DEF Keyed
  <1>2. <<routers[r].addr, routers[r].key>> \in Addr \X Key
    BY <1>1 DEF Row
  <1>. QED
    BY <1>2 DEF Truth, TypeOK

\* What the poller reads of a keyed router is a task that has not ended.
LEMMA CheckOfType ==
  ASSUME TypeOK, NEW r \in Router, Keyed(r)
  PROVE  CheckOf(r) \in Check
  <1>1. routers[r] \in Row /\ routers[r].key # NoKey
    BY RowType DEF Keyed
  <1>. QED
    BY <1>1 DEF CheckOf, Check, Row

\* An ended probe is a task with a status as its answer.
LEMMA ProbedType ==
  ASSUME TypeOK, NEW c \in checks
  PROVE  /\ answer[<<c.addr, c.key>>] \in Status
         /\ [c EXCEPT !.answer = answer[<<c.addr, c.key>>]] \in Check
  <1>1. c \in Check
    BY DEF TypeOK
  <1>2. <<c.addr, c.key>> \in Addr \X Key
    BY <1>1 DEF Check
  <1>3. answer[<<c.addr, c.key>>] \in Status
    BY <1>2 DEF TypeOK
  <1>. QED
    BY <1>1, <1>3 DEF Check

\* Devices, rounds and faults: no other action breaks the types.
LEMMA RoundType ==
  ASSUME TypeOK,
         \/ \E a \in Addr, k \in Key, s \in Status : DeviceChanges(a, k, s)
         \/ Poller
         \/ \E c \in checks : WriteFails(c)
         \/ Restart
  PROVE  TypeOK'
  <1>1. ASSUME NEW a \in Addr, NEW k \in Key, NEW s \in Status, DeviceChanges(a, k, s)
        PROVE  TypeOK'
    <2>1. answer' \in [Addr \X Key -> Status]
      BY <1>1 DEF TypeOK, DeviceChanges
    <2>2. possible' \in [Router -> SUBSET Status]
      BY <1>1 DEF TypeOK, DeviceChanges
    <2>. QED
      BY <1>1, <2>1, <2>2 DEF TypeOK, DeviceChanges, table, Exists
  <1>2. CASE StartRound
    <2>1. checks' \subseteq Check
      BY <1>2, CheckOfType DEF StartRound
    <2>2. possible' \in [Router -> SUBSET Status]
      BY <1>2, TruthType DEF StartRound
    <2>. QED
      BY <1>2, <2>1, <2>2 DEF TypeOK, StartRound, table, Exists
  <1>3. ASSUME NEW c \in checks, Probe(c) PROVE TypeOK'
    <2>1. checks' \subseteq Check
      BY <1>3, ProbedType DEF TypeOK, Probe
    <2>. QED
      BY <1>3, <2>1 DEF TypeOK, Probe, table, Exists
  <1>4. ASSUME NEW c \in checks, WriteStatus(c) PROVE TypeOK'
    <2>1. c \in Check /\ c.router \in Router /\ c.answer \in Status
      BY <1>4 DEF TypeOK, WriteStatus, Check
    <2>2. CASE ~Exists(c.router)
      BY <1>4, <2>2 DEF TypeOK, WriteStatus, Exists
    <2>3. CASE Exists(c.router)
      <3> DEFINE row == [routers[c.router] EXCEPT !.status = c.answer]
      <3>1. routers[c.router] \in Row
        BY <2>1, <2>3, RowType
      <3>2. row \in Row /\ row.site = routers[c.router].site
        BY <2>1, <3>1 DEF Row
      <3>3. routers' = [routers EXCEPT ![c.router] = row]
        BY <1>4, <2>1, <2>3 DEF WriteStatus, TypeOK
      <3>4. routers' \in [Router -> Row \union {NoRow}]
        BY <2>1, <3>2, <3>3 DEF TypeOK
      <3>5. ASSUME NEW q \in Router, Exists(q)'
            PROVE  q \in born' /\ routers'[q].site \in sites'
        <4>1. Exists(q) /\ routers'[q].site = routers[q].site
          BY <2>1, <2>3, <3>2, <3>3, <3>5 DEF TypeOK, Exists
        <4>. QED
          BY <4>1, <1>4 DEF TypeOK, WriteStatus
      <3>. QED
        BY <1>4, <3>4, <3>5 DEF TypeOK, WriteStatus
    <2>. QED
      BY <2>2, <2>3
  <1>5. CASE EndRound
    BY <1>5 DEF TypeOK, EndRound, table, Exists
  <1>6. ASSUME NEW c \in checks, WriteFails(c) PROVE TypeOK'
    <2>1. faults' \in 0..MaxFaults
      BY <1>6, FaultAssumption DEF TypeOK, WriteFails
    <2>2. possible' \in [Router -> SUBSET Status]
      BY <1>6 DEF TypeOK, WriteFails
    <2>. QED
      BY <1>6, <2>1, <2>2 DEF TypeOK, WriteFails, table, Exists
  <1>7. CASE Restart
    <2>1. faults' \in 0..MaxFaults
      BY <1>7, FaultAssumption DEF TypeOK, Restart
    <2>. QED
      BY <1>7, <2>1 DEF TypeOK, Restart, table, Exists
  <1>. QED
    BY <1>1, <1>2, <1>3, <1>4, <1>5, <1>6, <1>7 DEF Poller

LEMMA TypeStep == TypeOK /\ [Next]_vars => TypeOK'
  <1> SUFFICES ASSUME TypeOK, [Next]_vars PROVE TypeOK'
    OBVIOUS
  <1>1. CASE Next
    BY <1>1, OperatorType, RoundType DEF Next
  <1>2. CASE UNCHANGED vars
    BY <1>2 DEF TypeOK, vars, table, Exists
  <1>. QED
    BY <1>1, <1>2

\* Rows and tasks keep their types, and every router keeps its site (the foreign
\* key and ON DELETE CASCADE of the schema).
THEOREM TypeCorrect == Spec => []TypeOK
  <1>. QED
    BY InitType, TypeStep, PTL DEF Spec

-----------------------------------------------------------------------------
(***************************************************************************)
(* The poller                                                              *)
(***************************************************************************)

\* A task of the poller is about a router that had a key when the round began,
\* and no edit takes a key away.
KeyInv ==
  /\ KeylessIsOff
  /\ \A c \in checks : c.router \in born /\ (Exists(c.router) => Keyed(c.router))

\* Unless anything is possible, a task asks the present device of its router and
\* brings an answer that is possible; a router without a task has such a status.
PollInv ==
  /\ ~polling => checks = {}
  /\ \A r \in Router : Keyed(r) => Truth(r) \in possible[r]
  /\ \A c \in checks : Keyed(c.router) =>
       \/ possible[c.router] = Status
       \/ /\ c.addr = routers[c.router].addr /\ c.key = routers[c.router].key
          /\ c.answer = NoAnswer \/ c.answer \in possible[c.router]
  /\ \A r \in Router : Keyed(r) =>
       routers[r].status \in possible[r] \/ \E c \in checks : c.router = r

LEMMA InitInv == Init => KeyInv /\ PollInv
  BY DEF Init, KeyInv, KeylessIsOff, PollInv, Keyed, Exists

LEMMA KeyStep == TypeOK /\ KeyInv /\ [Next]_vars => KeyInv'
  <1> SUFFICES ASSUME TypeOK, KeyInv, [Next]_vars PROVE KeyInv'
    OBVIOUS
  <1> USE DEF KeyInv, KeylessIsOff, Keyed, Exists
  <1>0. \A c \in checks : c.router \in Router
    BY DEF TypeOK, Check
  <1>1. ASSUME NEW s \in Site, CreateSite(s) PROVE KeyInv'
    BY <1>1 DEF CreateSite
  <1>2. ASSUME NEW s \in Site, DeleteSite(s) PROVE KeyInv'
    BY <1>0, <1>2 DEF DeleteSite
  <1>3. ASSUME NEW r \in Router, NEW s \in Site, NEW a \in Addr, CreateRouter(r, s, a)
        PROVE  KeyInv'
    BY <1>0, <1>3 DEF CreateRouter, TypeOK
  <1>4. ASSUME NEW r \in Router, NEW a \in Addr, NEW k \in Key \union {NoKey},
               UpdateRouter(r, a, k)
        PROVE  KeyInv'
    <2>1. routers[r] \in Row
      BY <1>4, RowType DEF UpdateRouter
    <2> DEFINE row == [routers[r] EXCEPT !.addr = a, !.key = IF k = NoKey THEN @ ELSE k]
    <2>2. routers' = [routers EXCEPT ![r] = row] /\ routers[r] # NoRow
      BY <1>4 DEF UpdateRouter, TypeOK
    <2>3. /\ row # NoRow
          /\ row.status = routers[r].status
          /\ routers[r].key # NoKey => row.key # NoKey
      <3>1. row \in Row
        BY <2>1 DEF Row
      <3>. QED
        BY <2>1, <3>1, RowAssumption DEF Row
    <2> HIDE DEF row
    <2>4. \A q \in Router : routers'[q] = IF q = r THEN row ELSE routers[q]
      BY <2>2 DEF TypeOK
    <2>. QED
      BY <1>0, <1>4, <2>2, <2>3, <2>4 DEF UpdateRouter
  <1>5. ASSUME NEW r \in Router, DeleteRouter(r) PROVE KeyInv'
    BY <1>0, <1>5 DEF DeleteRouter, TypeOK
  <1>6. ASSUME NEW a \in Addr, NEW k \in Key, NEW s \in Status, DeviceChanges(a, k, s)
        PROVE  KeyInv'
    BY <1>6 DEF DeviceChanges, table
  <1>7. CASE StartRound
    BY <1>7 DEF StartRound, table, CheckOf, TypeOK
  <1>8. ASSUME NEW c \in checks, Probe(c) PROVE KeyInv'
    <2>1. [c EXCEPT !.answer = answer[<<c.addr, c.key>>]].router = c.router
      BY DEF TypeOK, Check
    <2>. QED
      BY <1>8, <2>1 DEF Probe, table
  <1>9. ASSUME NEW c \in checks, WriteStatus(c) PROVE KeyInv'
    <2>1. CASE ~Exists(c.router)
      BY <1>9, <2>1 DEF WriteStatus
    <2>2. CASE Exists(c.router)
      <3> DEFINE row == [routers[c.router] EXCEPT !.status = c.answer]
      <3>1. routers[c.router] \in Row /\ c.answer \in Status
        BY <1>0, <1>9, <2>2, RowType DEF TypeOK, WriteStatus, Check
      <3>2. row # NoRow /\ row.key = routers[c.router].key
        BY <3>1, RowAssumption DEF Row
      <3>3. \A q \in Router : routers'[q] = IF q = c.router THEN row ELSE routers[q]
        BY <1>0, <1>9, <2>2 DEF WriteStatus, TypeOK
      <3> HIDE DEF row
      <3>. QED
        BY <1>0, <1>9, <2>2, <3>2, <3>3 DEF WriteStatus
    <2>. QED
      BY <2>1, <2>2
  <1>10. CASE EndRound
    BY <1>10 DEF EndRound, table
  <1>11. ASSUME NEW c \in checks, WriteFails(c) PROVE KeyInv'
    BY <1>11 DEF WriteFails, table
  <1>12. CASE Restart
    BY <1>12 DEF Restart, table
  <1>13. CASE UNCHANGED vars
    BY <1>13 DEF vars, table
  <1>. QED
    BY <1>1, <1>2, <1>3, <1>4, <1>5, <1>6, <1>7, <1>8, <1>9, <1>10, <1>11, <1>12, <1>13
    DEF Next, Operator, Poller

\* A router without a key is off: nothing the poller has under way is about it.
THEOREM KeylessRoutersAreOff == Spec => []KeylessIsOff
  <1>1. TypeOK /\ KeyInv /\ [Next]_vars => (TypeOK /\ KeyInv)'
    BY TypeStep, KeyStep
  <1>2. Init => TypeOK /\ KeyInv
    BY InitType, InitInv
  <1>3. KeyInv => KeylessIsOff
    BY DEF KeyInv
  <1>. QED
    BY <1>1, <1>2, <1>3, PTL DEF Spec

\* What a step that leaves the poller and the devices alone may do to the rows:
\* a router is gone, or without a key, or as it was, or anything is possible of it.
LEMMA RowsStep ==
  ASSUME TypeOK, TypeOK', PollInv,
         UNCHANGED <<answer, polling, checks>>,
         \A r \in Router : Keyed(r)' =>
           \/ Keyed(r) /\ routers'[r] = routers[r] /\ possible'[r] = possible[r]
           \/ possible'[r] = Status
  PROVE  PollInv'
  <1>1. ASSUME NEW r \in Router, Keyed(r)'
        PROVE  Truth(r)' \in possible'[r]
    <2>1. CASE possible'[r] = Status
      <3>1. Truth(r)' \in Status
        <4>1. routers'[r] \in Row /\ routers'[r].key # NoKey
          BY <1>1 DEF TypeOK, Keyed, Exists
        <4>2. <<routers'[r].addr, routers'[r].key>> \in Addr \X Key
          BY <4>1 DEF Row
        <4>. QED
          BY <4>2 DEF Truth, TypeOK
      <3>. QED
        BY <2>1, <3>1
    <2>2. CASE Keyed(r) /\ routers'[r] = routers[r] /\ possible'[r] = possible[r]
      BY <2>2 DEF PollInv, Truth
    <2>. QED
      BY <1>1, <2>1, <2>2
  <1>2. ASSUME NEW c \in checks', Keyed(c.router)'
        PROVE  \/ possible'[c.router] = Status
               \/ /\ c.addr = routers'[c.router].addr /\ c.key = routers'[c.router].key
                  /\ c.answer = NoAnswer \/ c.answer \in possible'[c.router]
    <2>1. c \in checks /\ c.router \in Router
      BY DEF TypeOK, Check
    <2>. QED
      BY <1>2, <2>1 DEF PollInv
  <1>3. ASSUME NEW r \in Router, Keyed(r)'
        PROVE  routers'[r].status \in possible'[r] \/ \E c \in checks' : c.router = r
    <2>1. routers'[r] \in Row
      BY <1>3 DEF TypeOK, Keyed, Exists
    <2>2. routers'[r].status \in Status
      BY <2>1 DEF Row
    <2>. QED
      BY <1>3, <2>2 DEF PollInv
  <1>. QED
    BY <1>1, <1>2, <1>3 DEF PollInv

LEMMA PollStep == TypeOK /\ PollInv /\ [Next]_vars => PollInv'
  <1> SUFFICES ASSUME TypeOK, PollInv, [Next]_vars PROVE PollInv'
    OBVIOUS
  <1>0. TypeOK' /\ \A c \in checks : c.router \in Router
    BY TypeStep DEF TypeOK, Check
  <1>1. ASSUME NEW s \in Site, CreateSite(s) PROVE PollInv'
    BY <1>0, <1>1, RowsStep DEF CreateSite, Keyed, Exists
  <1>2. ASSUME NEW s \in Site, DeleteSite(s) PROVE PollInv'
    BY <1>0, <1>2, RowsStep DEF DeleteSite, Keyed, Exists
  <1>3. ASSUME NEW r \in Router, NEW s \in Site, NEW a \in Addr, CreateRouter(r, s, a)
        PROVE  PollInv'
    BY <1>0, <1>3, RowsStep DEF CreateRouter, Keyed, Exists, TypeOK
  <1>4. ASSUME NEW r \in Router, NEW a \in Addr, NEW k \in Key \union {NoKey},
               UpdateRouter(r, a, k)
        PROVE  PollInv'
    <2>1. possible' = [possible EXCEPT ![r] = Status]
      BY <1>4 DEF UpdateRouter
    <2>2. \A q \in Router : q # r => routers'[q] = routers[q]
      BY <1>4 DEF UpdateRouter, TypeOK
    <2>3. UNCHANGED <<answer, polling, checks>>
      BY <1>4 DEF UpdateRouter
    <2>. QED
      BY <1>0, <2>1, <2>2, <2>3, RowsStep DEF Keyed, Exists, TypeOK
  <1>5. ASSUME NEW r \in Router, DeleteRouter(r) PROVE PollInv'
    BY <1>0, <1>5, RowsStep DEF DeleteRouter, Keyed, Exists, TypeOK
  <1>6. ASSUME NEW a \in Addr, NEW k \in Key, NEW s \in Status, DeviceChanges(a, k, s)
        PROVE  PollInv'
    <2>1. /\ UNCHANGED <<routers, polling, checks>>
          /\ answer' = [answer EXCEPT ![<<a, k>>] = s]
      BY <1>6 DEF DeviceChanges, table
    <2>2. \A r \in Router : possible'[r] =
            IF Keyed(r) /\ routers[r].addr = a /\ routers[r].key = k
            THEN possible[r] \union {s} ELSE possible[r]
      BY <1>6 DEF DeviceChanges
    <2>3. \A r \in Router : possible[r] \subseteq Status
      BY DEF TypeOK
    <2>4. \A r \in Router : Keyed(r)' <=> Keyed(r)
      BY <2>1 DEF Keyed, Exists
    <2>5. ASSUME NEW r \in Router, Keyed(r)
          PROVE  Truth(r)' \in possible'[r]
      <3>1. routers[r] \in Row /\ routers[r].key # NoKey
        BY <2>5, RowType DEF Keyed
      <3>2. <<routers[r].addr, routers[r].key>> \in Addr \X Key
        BY <3>1 DEF Row
      <3>3. Truth(r)' = IF routers[r].addr = a /\ routers[r].key = k THEN s ELSE Truth(r)
        BY <2>1, <3>2 DEF Truth, TypeOK
      <3>4. Truth(r) \in possible[r]
        BY <2>5 DEF PollInv
      <3>. QED
        BY <2>2, <2>5, <3>3, <3>4
    <2>6. ASSUME NEW c \in checks, Keyed(c.router), possible[c.router] = Status
          PROVE  possible'[c.router] = Status
      BY <1>0, <2>2, <2>6
    <2>7. \A r \in Router : possible[r] \subseteq possible'[r]
      BY <2>2
    <2>8. ASSUME NEW c \in checks, Keyed(c.router)
          PROVE  \/ possible'[c.router] = Status
                 \/ /\ c.addr = routers[c.router].addr /\ c.key = routers[c.router].key
                    /\ c.answer = NoAnswer \/ c.answer \in possible'[c.router]
      BY <1>0, <2>6, <2>7, <2>8 DEF PollInv
    <2>9. ASSUME NEW r \in Router, Keyed(r)
          PROVE  routers[r].status \in possible'[r] \/ \E c \in checks : c.router = r
      BY <2>7, <2>9 DEF PollInv
    <2>. QED
      BY <1>0, <2>1, <2>4, <2>5, <2>8, <2>9 DEF PollInv
  <1>7. CASE StartRound
    <2>1. /\ polling' = TRUE
          /\ UNCHANGED <<routers, answer>>
          /\ checks' = {CheckOf(r) : r \in {q \in Router : Keyed(q)}}
          /\ \A r \in Router : Keyed(r) => possible'[r] = {Truth(r)}
      BY <1>7 DEF StartRound, table
    <2>2. \A r \in Router : (Keyed(r)' <=> Keyed(r)) /\ Truth(r)' = Truth(r)
      BY <2>1 DEF Keyed, Exists, Truth
    <2>3. ASSUME NEW r \in Router, Keyed(r)
          PROVE  \E c \in checks' : c.router = r
      <3>1. CheckOf(r) \in checks'
        BY <2>1, <2>3
      <3>2. CheckOf(r).router = r
        BY DEF CheckOf
      <3>. QED
        BY <3>1, <3>2
    <2>4. \A c \in checks' : /\ c.addr = routers'[c.router].addr
                             /\ c.key = routers'[c.router].key
                             /\ c.answer = NoAnswer
      BY <2>1 DEF CheckOf
    <2>. QED
      BY <2>1, <2>2, <2>3, <2>4 DEF PollInv
  <1>8. ASSUME NEW c \in checks, Probe(c) PROVE PollInv'
    <2> DEFINE d == [c EXCEPT !.answer = answer[<<c.addr, c.key>>]]
    <2>1. /\ UNCHANGED <<routers, answer, polling, possible>>
          /\ checks' = (checks \ {c}) \union {d}
      BY <1>8 DEF Probe, table
    <2>2. /\ d.router = c.router /\ d.addr = c.addr /\ d.key = c.key
          /\ d.answer = answer[<<c.addr, c.key>>]
      BY DEF TypeOK, Check
    <2> HIDE DEF d
    <2>3. \A r \in Router : (Keyed(r)' <=> Keyed(r)) /\ Truth(r)' = Truth(r)
      BY <2>1 DEF Keyed, Exists, Truth
    <2>4. polling
      BY DEF PollInv
    <2>5. ASSUME Keyed(c.router), possible[c.router] # Status
          PROVE  /\ d.addr = routers[c.router].addr /\ d.key = routers[c.router].key
                 /\ d.answer \in possible[c.router]
      BY <1>0, <2>2, <2>5 DEF PollInv, Truth
    <2>6. ASSUME NEW e \in checks', Keyed(e.router)
          PROVE  \/ possible[e.router] = Status
                 \/ /\ e.addr = routers[e.router].addr /\ e.key = routers[e.router].key
                    /\ e.answer = NoAnswer \/ e.answer \in possible[e.router]
      BY <2>1, <2>2, <2>5, <2>6 DEF PollInv
    <2>7. ASSUME NEW r \in Router, Keyed(r)
          PROVE  routers[r].status \in possible[r] \/ \E e \in checks' : e.router = r
      BY <2>1, <2>2, <2>7 DEF PollInv
    <2>8. \A e \in checks' : e.router \in Router
      BY <1>0, <2>1, <2>2
    <2>. QED
      BY <2>1, <2>3, <2>4, <2>6, <2>7, <2>8 DEF PollInv
  <1>9. ASSUME NEW c \in checks, WriteStatus(c) PROVE PollInv'
    <2>1. /\ UNCHANGED <<answer, polling, possible>>
          /\ checks' = checks \ {c}
          /\ c.answer \in Status /\ c.answer # NoAnswer
      BY <1>9 DEF WriteStatus, TypeOK, Check
    <2>2. polling
      BY DEF PollInv
    <2>3. \A r \in Router : r # c.router => routers'[r] = routers[r]
      BY <1>9 DEF WriteStatus, TypeOK
    <2>4. ASSUME Exists(c.router)
          PROVE  /\ routers'[c.router].addr = routers[c.router].addr
                 /\ routers'[c.router].key = routers[c.router].key
                 /\ routers'[c.router].status = c.answer
      <3>1. routers[c.router] \in Row
        BY <1>0, <2>4, RowType
      <3>2. routers' = [routers EXCEPT ![c.router].status = c.answer]
        BY <1>9, <2>4 DEF WriteStatus
      <3>. QED
        BY <1>0, <3>1, <3>2 DEF Row, TypeOK
    <2>5. ~Exists(c.router) => routers' = routers
      BY <1>9 DEF WriteStatus
    <2>6. \A r \in Router : Keyed(r)' =>
            /\ Keyed(r)
            /\ routers'[r].addr = routers[r].addr /\ routers'[r].key = routers[r].key
            /\ Truth(r)' = Truth(r)
      BY <2>1, <2>3, <2>4, <2>5 DEF Keyed, Exists, Truth
    <2>7. Keyed(c.router) => c.answer \in possible[c.router]
      BY <2>1 DEF PollInv
    <2>8. ASSUME NEW r \in Router, Keyed(r)'
          PROVE  routers'[r].status \in possible'[r] \/ \E e \in checks' : e.router = r
      <3>1. CASE r = c.router
        BY <2>1, <2>4, <2>6, <2>7, <2>8, <3>1 DEF Keyed
      <3>2. CASE r # c.router
        BY <2>1, <2>3, <2>6, <2>8, <3>2 DEF PollInv
      <3>. QED
        BY <3>1, <3>2
    <2>. QED
      BY <1>0, <2>1, <2>2, <2>6, <2>8 DEF PollInv
  <1>10. CASE EndRound
    BY <1>10 DEF EndRound, table, PollInv, Keyed, Exists, Truth
  <1>11. ASSUME NEW c \in checks, WriteFails(c) PROVE PollInv'
    <2>1. /\ UNCHANGED <<routers, answer, polling>>
          /\ checks' = checks \ {c}
          /\ possible' = [possible EXCEPT ![c.router] = Status]
      BY <1>11 DEF WriteFails, table
    <2>2. polling
      BY DEF PollInv
    <2>3. \A r \in Router : possible'[r] = IF r = c.router THEN Status ELSE possible[r]
      BY <2>1 DEF TypeOK
    <2>4. \A r \in Router : (Keyed(r)' <=> Keyed(r)) /\ Truth(r)' = Truth(r)
      BY <2>1 DEF Keyed, Exists, Truth
    <2>5. ASSUME NEW r \in Router, Keyed(r)
          PROVE  routers[r].status \in Status /\ Truth(r) \in Status
      <3>1. routers[r] \in Row
        BY <2>5, RowType DEF Keyed
      <3>. QED
        BY <2>5, <3>1, TruthType DEF Row
    <2>. QED
      BY <1>0, <2>1, <2>2, <2>3, <2>4, <2>5 DEF PollInv
  <1>12. CASE Restart
    <2>1. /\ UNCHANGED <<routers, answer>>
          /\ checks' = {}
          /\ \A r \in Router : possible'[r] = Status
      BY <1>12 DEF Restart, table
    <2>2. \A r \in Router : (Keyed(r)' <=> Keyed(r)) /\ Truth(r)' = Truth(r)
      BY <2>1 DEF Keyed, Exists, Truth
    <2>3. ASSUME NEW r \in Router, Keyed(r)
          PROVE  routers[r].status \in Status /\ Truth(r) \in Status
      <3>1. routers[r] \in Row
        BY <2>3, RowType DEF Keyed
      <3>. QED
        BY <2>3, <3>1, TruthType DEF Row
    <2>. QED
      BY <2>1, <2>2, <2>3 DEF PollInv
  <1>13. CASE UNCHANGED vars
    BY <1>13 DEF vars, table, PollInv, Keyed, Exists, Truth
  <1>. QED
    BY <1>1, <1>2, <1>3, <1>4, <1>5, <1>6, <1>7, <1>8, <1>9, <1>10, <1>11, <1>12, <1>13
    DEF Next, Operator, Poller

\* No round ends with a status that its router's device has not given during it.
THEOREM RoundsAreFresh == Spec => []RoundLeavesFreshStatus
  <1>1. TypeOK /\ PollInv /\ [Next]_vars => (TypeOK /\ PollInv)'
    BY TypeStep, PollStep
  <1>2. Init => TypeOK /\ PollInv
    BY InitType, InitInv
  <1>3. PollInv => RoundLeavesFreshStatus
    BY DEF PollInv, RoundLeavesFreshStatus
  <1>. QED
    BY <1>1, <1>2, <1>3, PTL DEF Spec
=============================================================================
