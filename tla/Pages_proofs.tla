---------------------------- MODULE Pages_proofs ----------------------------
(***************************************************************************)
(* Theorems about Pages, for all pages that DevicePages describes, every   *)
(* number of reads under way and every bound: what is on the screen only   *)
(* gets newer, and every table finds the layout it was left with.          *)
(***************************************************************************)
EXTENDS Pages, TLAPS

USE PagesAssumption DEF Slot, Version

-----------------------------------------------------------------------------
(***************************************************************************)
(* The reads of a page                                                     *)
(***************************************************************************)

Active(s) == reads[s].pc # "idle"

\* The part of TypeOK that the reads need.
ReadTypes ==
  /\ reads \in [Slot -> Read]
  /\ data \in Version /\ newest \in Version /\ config \in Version

\* Without an overlap there is one read at most, none while the page shows what it
\* has and waits for nothing, and what it will bring is not older than the screen.
ReadOrder ==
  /\ newest <= config
  /\ \A s \in Slot : reads[s].ver <= config
  /\ page = NoPage => \A s \in Slot : ~Active(s)
  /\ ~overlapped =>
       /\ \A s, t \in Slot : Active(s) /\ Active(t) => s = t
       /\ Shown /\ ~refreshing => \A s \in Slot : ~Active(s)
       /\ \A s \in Slot : reads[s].pc = "read" => newest <= reads[s].ver

ReadInv == ReadTypes /\ ReadOrder

\* A new call of load() is one more read, and has brought nothing yet.
LEMMA SentIs ==
  ASSUME ReadTypes, NEW s \in Slot, NEW by \in {"mount", "retry", "refresh"}
  PROVE  /\ Sent(s, by) \in [Slot -> Read]
         /\ Sent(s, by)[s].pc = "sent" /\ Sent(s, by)[s].ver = 0
         /\ \A t \in Slot : t # s => Sent(s, by)[t] = reads[t]
<1> DEFINE new == [NoRead EXCEPT !.pc = "sent", !.by = by]
<1>1. NoRead \in Read /\ NoRead.ver = 0
  BY DEF NoRead, Read
<1>2. new \in Read /\ new.pc = "sent" /\ new.ver = 0
  BY <1>1 DEF Read
<1>3. Sent(s, by) = [reads EXCEPT ![s] = new]
  BY DEF Sent
<1> HIDE DEF new
<1> QED
  BY <1>2, <1>3 DEF ReadTypes

\* The end of a call leaves the others under way with what they have read.
LEMMA EndIs ==
  ASSUME ReadTypes, NEW s \in Slot, NEW st, End(s, st)
  PROVE  /\ reads' \in [Slot -> Read]
         /\ reads'[s].pc = "idle" /\ reads'[s].ver = 0
         /\ \A t \in Slot : t # s => /\ reads'[t].pc = reads[t].pc
                                     /\ reads'[t].ver = reads[t].ver
         /\ overlapped' = (overlapped /\ \E t \in Slot \ {s} : reads[t].pc # "idle")
<1> DEFINE gone(t) == [reads[t] EXCEPT !.by = "gone"]
<1>1. NoRead \in Read /\ NoRead.pc = "idle" /\ NoRead.ver = 0
  BY DEF NoRead, Read
<1>2. ASSUME NEW t \in Slot
      PROVE  gone(t) \in Read /\ gone(t).pc = reads[t].pc /\ gone(t).ver = reads[t].ver
  BY DEF ReadTypes, Read
<1> HIDE DEF gone
<1>3. \A t \in Slot : reads'[t] = IF t = s THEN NoRead
                                  ELSE IF Device[page].kind = "list" /\ st = "error"
                                          /\ reads[t].by = "refresh" THEN gone(t)
                                  ELSE reads[t]
  BY DEF End, gone
<1>4. DOMAIN reads' = Slot /\ reads' = [t \in Slot |-> reads'[t]]
  BY DEF End
<1>5. \A t \in Slot : reads'[t] \in Read
  BY <1>1, <1>2, <1>3 DEF ReadTypes
<1>6. overlapped' = (overlapped /\ \E t \in Slot \ {s} : reads[t].pc # "idle")
  BY DEF End
<1> QED
  BY <1>1, <1>2, <1>3, <1>4, <1>5, <1>6

\* Every step keeps the reads in order.
LEMMA ReadStep == ReadInv /\ [Next]_vars => ReadInv'
<1> SUFFICES ASSUME ReadInv, [Next]_vars PROVE ReadInv'
  OBVIOUS
<1> USE DEF onPage
<1>0. 1 \in Slot
  OBVIOUS
<1>1. ASSUME NEW p \in Visited, Open(p) PROVE ReadInv'
  <2>1. /\ UNCHANGED config /\ reads' = Sent(1, "mount")
        /\ data' = 0 /\ newest' = 0 /\ overlapped' = FALSE
        /\ page' = p /\ status' = "loading" /\ refreshing' = FALSE
        /\ \A s \in Slot : ~Active(s)
    BY <1>1 DEF Open, Fresh, ReadInv, ReadOrder
  <2>2. /\ reads' \in [Slot -> Read]
        /\ reads'[1].pc = "sent" /\ reads'[1].ver = 0
        /\ \A t \in Slot : t # 1 => reads'[t] = reads[t]
    BY <1>0, <2>1, SentIs DEF ReadInv
  <2>3. ReadTypes'
    BY <2>1, <2>2 DEF ReadInv, ReadTypes
  <2>4. ~Shown'
    BY <2>1 DEF Shown, ShowContent
  <2>5. p # NoPage => ReadOrder'
    BY <2>1, <2>2, <2>3, <2>4 DEF ReadInv, ReadTypes, ReadOrder, Active
  <2> QED
    BY <2>1, <2>3, <2>5 DEF ReadInv
<1>2. ASSUME Leave PROVE ReadInv'
  <2>1. /\ UNCHANGED config /\ reads' = [s \in Slot |-> NoRead]
        /\ data' = 0 /\ newest' = 0 /\ page' = NoPage
    BY <1>2 DEF Leave
  <2>2. NoRead \in Read /\ NoRead.pc = "idle" /\ NoRead.ver = 0
    BY DEF NoRead, Read
  <2>3. reads' \in [Slot -> Read] /\ \A s \in Slot : reads'[s].pc = "idle" /\ reads'[s].ver = 0
    BY <2>1, <2>2
  <2>4. ReadTypes'
    BY <2>1, <2>3 DEF ReadInv, ReadTypes
  <2>5. ReadOrder'
    BY <2>1, <2>3 DEF ReadInv, ReadTypes, ReadOrder, Active
  <2> QED
    BY <2>4, <2>5 DEF ReadInv
<1>3. ASSUME NEW s \in Slot, Retry(s) \/ Refresh(s) PROVE ReadInv'
  <2>1. PICK by \in {"retry", "refresh"} : reads' = Sent(s, by)
    BY <1>3 DEF Retry, Refresh
  <2>2. /\ reads' \in [Slot -> Read]
        /\ reads'[s].pc = "sent" /\ reads'[s].ver = 0
        /\ \A t \in Slot : t # s => reads'[t] = reads[t]
    <3>1. by \in {"mount", "retry", "refresh"} /\ ReadTypes
      BY DEF ReadInv
    <3> QED
      BY <2>1, <3>1, SentIs, Zenon
  <2>3. UNCHANGED <<page, data, newest, config>> /\ page # NoPage
    BY <1>3 DEF Retry, Refresh, Shown
  <2>4. ReadTypes'
    BY <2>2, <2>3 DEF ReadInv, ReadTypes
  <2>5. ~overlapped' => ~overlapped /\ \A t \in Slot : ~Active(t)
    BY <1>3 DEF Retry, Refresh, Active, ReadInv, ReadOrder
  <2>6. ~(Shown' /\ ~refreshing')
    BY <1>3 DEF Retry, Refresh, Render, Shown, ShowContent
  <2>7. ReadOrder'
    BY <2>2, <2>3, <2>4, <2>5, <2>6 DEF ReadInv, ReadTypes, ReadOrder, Active
  <2> QED
    BY <2>4, <2>7 DEF ReadInv
<1>4. ASSUME NEW s \in Slot, ReadConfig(s) PROVE ReadInv'
  <2> DEFINE new == [reads[s] EXCEPT !.pc = "read", !.ver = config]
  <2>1. /\ reads[s].pc = "sent" /\ reads' = [reads EXCEPT ![s] = new]
        /\ UNCHANGED <<page, status, refreshing, data, newest, overlapped, config>>
    BY <1>4 DEF ReadConfig
  <2>2. new \in Read /\ new.pc = "read" /\ new.ver = config
    BY DEF ReadInv, ReadTypes, Read
  <2> HIDE DEF new
  <2>3. /\ reads' \in [Slot -> Read]
        /\ reads'[s].pc = "read" /\ reads'[s].ver = config
        /\ \A t \in Slot : t # s => reads'[t] = reads[t]
    BY <2>1, <2>2 DEF ReadInv, ReadTypes
  <2>4. ReadTypes'
    BY <2>1, <2>3 DEF ReadInv, ReadTypes
  <2>5. Shown' = Shown
    BY <2>1 DEF Shown
  <2>6. ReadOrder'
    BY <2>1, <2>3, <2>4, <2>5 DEF ReadInv, ReadTypes, ReadOrder, Active
  <2> QED
    BY <2>4, <2>6 DEF ReadInv
<1>5. ASSUME NEW s \in Slot, Arrives(s) \/ Fails(s) PROVE ReadInv'
  <2>1. PICK st : End(s, st)
    BY <1>5 DEF Arrives, Fails
  <2>2. /\ reads' \in [Slot -> Read]
        /\ reads'[s].pc = "idle" /\ reads'[s].ver = 0
        /\ \A t \in Slot : t # s => reads'[t].pc = reads[t].pc /\ reads'[t].ver = reads[t].ver
        /\ overlapped' = (overlapped /\ \E t \in Slot \ {s} : reads[t].pc # "idle")
    BY <2>1, EndIs DEF ReadInv
  <2>3. UNCHANGED <<page, config>> /\ Active(s)
    BY <1>5 DEF Arrives, Fails, Active
  <2>4. data' \in Version /\ newest' \in Version /\ newest' <= config
    <3>1. CASE Arrives(s)
      <4>1. /\ data' = reads[s].ver
            /\ newest' = IF reads[s].ver > newest THEN reads[s].ver ELSE newest
        BY <3>1 DEF Arrives
      <4>2. reads[s].ver \in Version /\ reads[s].ver <= config
        BY DEF ReadInv, ReadTypes, ReadOrder, Read
      <4> QED
        BY <4>1, <4>2 DEF ReadInv, ReadTypes, ReadOrder
    <3>2. CASE Fails(s)
      BY <3>2 DEF Fails, ReadInv, ReadTypes, ReadOrder
    <3> QED
      BY <1>5, <3>1, <3>2
  <2>5. ReadTypes'
    BY <2>2, <2>3, <2>4 DEF ReadInv, ReadTypes
  <2>6. ~overlapped' => \A t \in Slot : reads'[t].pc = "idle"
    <3>1. CASE overlapped
      BY <2>2, <3>1
    <3>2. CASE ~overlapped
      BY <2>2, <2>3, <3>2 DEF ReadInv, ReadOrder, Active
    <3> QED
      BY <3>1, <3>2
  <2>7. ReadOrder'
    BY <2>2, <2>3, <2>4, <2>5, <2>6 DEF ReadInv, ReadTypes, ReadOrder, Active
  <2> QED
    BY <2>5, <2>7 DEF ReadInv
<1>6. ASSUME ConfigChanges PROVE ReadInv'
  <2>1. /\ UNCHANGED <<page, status, refreshing, reads, data, newest, overlapped>>
        /\ config' = config + 1 /\ config < MaxConfig
    BY <1>6 DEF ConfigChanges
  <2>2. ReadTypes'
    BY <2>1 DEF ReadInv, ReadTypes
  <2>3. Shown' = Shown
    BY <2>1 DEF Shown
  <2>4. ReadOrder'
    BY <2>1, <2>3 DEF ReadInv, ReadTypes, ReadOrder, Active, Read
  <2> QED
    BY <2>2, <2>4 DEF ReadInv
<1>7. ASSUME \/ \E v \in 1..4 : SwitchView(v)
             \/ \E i \in 1..2 : EditLayout(i)
             \/ AskDelete \/ CancelDelete \/ ConfirmDelete \/ UNCHANGED vars
      PROVE ReadInv'
  <2>1. UNCHANGED <<page, status, refreshing, reads, data, newest, overlapped, config>>
    BY <1>7 DEF SwitchView, EditLayout, AskDelete, CancelDelete, ConfirmDelete, vars
  <2>2. Shown' = Shown
    BY <2>1 DEF Shown
  <2> QED
    BY <2>1, <2>2 DEF ReadInv, ReadTypes, ReadOrder, Active
<1> QED
  BY <1>1, <1>2, <1>3, <1>4, <1>5, <1>6, <1>7 DEF Next, Answers

LEMMA ReadsInOrder == Spec => []ReadInv
<1>1. Init => ReadInv
  <2> SUFFICES ASSUME Init PROVE ReadInv
    OBVIOUS
  <2>1. /\ NoRead \in Read /\ NoRead.pc = "idle" /\ NoRead.ver = 0
    BY DEF NoRead, Read
  <2>2. reads \in [Slot -> Read] /\ \A s \in Slot : reads[s].pc = "idle" /\ reads[s].ver = 0
    BY <2>1 DEF Init
  <2> QED
    BY <2>2 DEF Init, ReadInv, ReadTypes, ReadOrder, Active
<1>2. ReadInv /\ [Next]_vars => ReadInv'
  BY ReadStep
<1> QED
  BY <1>1, <1>2, PTL DEF Spec

\* Only an answer changes what is on the screen, and outside of an overlap it is one
\* that was read after everything the page has shown.
LEMMA AnswersAreNew ==
  ASSUME ReadInv, [Next]_vars, page' = page, data' # data, ~overlapped
  PROVE  data' >= newest
<1> USE DEF onPage
<1>1. ASSUME NEW s \in Slot, Arrives(s) PROVE data' >= newest
  <2>1. data' = reads[s].ver /\ reads[s].pc = "read"
    BY <1>1 DEF Arrives
  <2> QED
    BY <2>1 DEF ReadInv, ReadTypes, ReadOrder, Read
<1>2. ASSUME (\E p \in Visited : Open(p)) \/ Leave PROVE FALSE
  BY <1>2, PagesAssumption DEF Open, Fresh, Leave
<1>3. ASSUME \/ \E s \in Slot : Retry(s) \/ Refresh(s) \/ ReadConfig(s) \/ Fails(s)
             \/ \E v \in 1..4 : SwitchView(v)
             \/ \E i \in 1..2 : EditLayout(i)
             \/ AskDelete \/ CancelDelete \/ ConfirmDelete \/ ConfigChanges
             \/ UNCHANGED vars
      PROVE FALSE
  BY <1>3 DEF Retry, Refresh, ReadConfig, Fails, SwitchView, EditLayout, AskDelete, CancelDelete,
     ConfirmDelete, ConfigChanges, vars
<1> QED
  BY <1>1, <1>2, <1>3 DEF Next, Answers

\* The screen is never replaced by an older configuration, for every number of reads
\* under way, but while reads overlap that Retry has sent.
THEOREM ScreenNeverGoesBack == Spec => NeverOlder
<1>1. ReadInv /\ [Next]_vars =>
        [page' = page /\ data' # data => data' >= newest \/ overlapped]_vars
  BY AnswersAreNew
<1> QED
  BY <1>1, ReadsInOrder, PTL DEF Spec, NeverOlder

-----------------------------------------------------------------------------
(***************************************************************************)
(* What is on the screen while it is read again                            *)
(***************************************************************************)

\* Only a read that fails, and leaving the page, take the content away.
LEMMA ContentStep ==
  ASSUME [Next]_vars, Shown, ~Shown'
  PROVE  status' = "error" \/ page' = NoPage
<1> USE DEF onPage
<1>0. page # NoPage /\ ShowContent(page, status, refreshing)
  BY DEF Shown
<1>1. ASSUME NEW s \in Slot, Refresh(s) PROVE FALSE
  <2>1. /\ page' = page /\ refreshing' = TRUE
        /\ status' = IF Loud("refresh") THEN "loading" ELSE status
    BY <1>1 DEF Refresh, Render
  <2>2. Device[page].kind # "service" => status' = status /\ status = "ready"
    BY <1>0, <1>1, <2>1 DEF Loud, ShowContent, Refresh
  <2> QED
    BY <1>0, <2>1, <2>2 DEF Shown, ShowContent
<1>2. ASSUME NEW s \in Slot, Arrives(s) \/ Fails(s) PROVE status' = "error"
  <2>1. page' = page /\ status' \in {"ready", "error"}
    BY <1>2 DEF Arrives, Fails, End, Render
  <2> QED
    BY <1>0, <2>1 DEF Shown, ShowContent
<1>3. ASSUME NEW s \in Slot, Retry(s) PROVE FALSE
  BY <1>3 DEF Retry
<1>4. ASSUME \/ \E s \in Slot : ReadConfig(s)
             \/ \E v \in 1..4 : SwitchView(v)
             \/ \E i \in 1..2 : EditLayout(i)
             \/ AskDelete \/ CancelDelete \/ ConfirmDelete \/ ConfigChanges
             \/ UNCHANGED vars
      PROVE FALSE
  <2>1. UNCHANGED <<page, status, refreshing>>
    BY <1>4 DEF ReadConfig, SwitchView, EditLayout, AskDelete, CancelDelete, ConfirmDelete,
       ConfigChanges, vars
  <2> QED
    BY <2>1 DEF Shown
<1>5. ASSUME NEW p \in Visited, Open(p) PROVE FALSE
  BY <1>0, <1>5 DEF Open
<1>6. ASSUME Leave PROVE page' = NoPage
  BY <1>6 DEF Leave
<1> QED
  BY <1>1, <1>2, <1>3, <1>4, <1>5, <1>6 DEF Next, Answers

\* What the operator looks at stays until a read fails or the page is left.
THEOREM ContentIsKept == Spec => ContentStays
<1>1. [Next]_vars => [(Shown /\ ~Shown') => (status' = "error" \/ page' = NoPage)]_vars
  BY ContentStep
<1> QED
  BY <1>1, PTL DEF Spec, ContentStays


-----------------------------------------------------------------------------
(***************************************************************************)
(* The tables of the pages                                                 *)
(***************************************************************************)

\* Up to four views, up to two tables in each, and as many in views that share them.
Tabbed(r) ==
  /\ \E k \in 1..4 : DOMAIN r.views = 1..k
  /\ \A v \in DOMAIN r.views : \E n \in 0..2 : DOMAIN r.views[v] = 1..n
  /\ r.keeps => \A v, w \in DOMAIN r.views : DOMAIN r.views[v] = DOMAIN r.views[w]

LEMMA TabbedKinds ==
  ASSUME NEW c, NEW d, NEW e, NEW f
  PROVE  /\ Tabbed(InterfaceList(c))
         /\ Tabbed(Service(<<>>)) /\ Tabbed(Service(<<c>>)) /\ Tabbed(Service(<<c, d>>))
         /\ Tabbed(Fields(TRUE)) /\ Tabbed(Fields(FALSE))
         /\ Tabbed(Plain(<< <<c, d>> >>))
         /\ Tabbed(Plain(<< <<c>>, <<d>>, <<e>>, <<f>> >>))
<1>1. /\ Tabbed(InterfaceList(c))
      /\ Tabbed(Service(<<>>)) /\ Tabbed(Service(<<c>>)) /\ Tabbed(Service(<<c, d>>))
      /\ Tabbed(Fields(TRUE)) /\ Tabbed(Fields(FALSE))
  BY DEF Tabbed, InterfaceList, Service, Fields
<1>2. Tabbed(Plain(<< <<c, d>> >>))
  BY DEF Tabbed, Plain
<1>3. Tabbed(Plain(<< <<c>>, <<d>>, <<e>>, <<f>> >>))
  BY DEF Tabbed, Plain
<1> QED
  BY <1>1, <1>2, <1>3

LEMMA TabbedPages == \A p \in DOMAIN Device : Tabbed(Device[p])
<1> DEFINE
  lists == {Bonding, Bridge, Dummy, Ethernet, Geneve, L2tpv3, Loopback, Macsec, Macvlan, Openvpn,
           Pppoe, Sstpc, Tunnel, Veth, Vti, Vxlan, Wireguard, Wlan, Wwan}
  cards == {ConfigSync, ConntrackSync, Https, IpoeServer, Lldp, MdnsRepeater, Monitoring, Ntp,
           PppoeServer, SaltMinion, Ssh, TftpServer, WebProxy}
  tables == {Nat64, Cgnat, BroadcastRelay, ConsoleServer, DnsForwarding, DynamicDns, EventHandler,
            RouterAdvert, Snmp}
  others == {DhcpServer, Dhcpv6Server, DhcpRelay, Dhcpv6Relay, GeneralTab, GlobalOptions}
<1>1. \A r \in lists : Tabbed(r)
  BY TabbedKinds
  DEF Bonding, Bridge, Dummy, Ethernet, Geneve, L2tpv3, Loopback, Macsec, Macvlan, Openvpn, Pppoe,
      Sstpc, Tunnel, Veth, Vti, Vxlan, Wireguard, Wlan, Wwan
<1>2. \A r \in cards : Tabbed(r)
  BY TabbedKinds
  DEF ConfigSync, ConntrackSync, Https, IpoeServer, Lldp, MdnsRepeater, Monitoring, Ntp,
      PppoeServer, SaltMinion, Ssh, TftpServer, WebProxy
<1>3. \A r \in tables : Tabbed(r)
  BY TabbedKinds
  DEF Nat64, Cgnat, BroadcastRelay, ConsoleServer, DnsForwarding, DynamicDns, EventHandler,
      RouterAdvert, Snmp
<1>4. \A r \in others : Tabbed(r)
  BY TabbedKinds DEF DhcpServer, Dhcpv6Server, DhcpRelay, Dhcpv6Relay, GeneralTab, GlobalOptions
<1>5. Tabbed(Vlan)
  BY DEF Tabbed, Vlan, InterfaceList
<1>6. Tabbed(Nat44) /\ Tabbed(Nat66)
  BY DEF Tabbed, Nat44, Nat66, NatRulesView, Service
<1>7. \A p \in DOMAIN Device :
        Device[p] \in lists \union cards \union tables \union others \union {Vlan, Nat44, Nat66}
  BY DEF Device
<1> QED
  BY <1>1, <1>2, <1>3, <1>4, <1>5, <1>6, <1>7

-----------------------------------------------------------------------------
(***************************************************************************)
(* The layouts                                                             *)
(***************************************************************************)

\* What a view shows: a layout for each of its tables, and none before it is shown.
ScreenInv ==
  /\ page \in Visited \union {NoPage} /\ view \in 1..4
  /\ page # NoPage => view \in ViewsOf(page)
  /\ layouts \in IF Shown THEN [DOMAIN TablesOf(page, view) -> LayoutNo] ELSE {<<>>}

\* Layouts by name.
Named(f) ==
  /\ f = [n \in DOMAIN f |-> f[n]]
  /\ DOMAIN f \subseteq Names
  /\ \A n \in DOMAIN f : f[n] \in LayoutNo

\* Apart from names that are mixed up, what is stored is what was edited last.
Remembers(f, g) ==
  /\ \A n \in DOMAIN f \ Mixed : n \in DOMAIN g /\ f[n] = g[n]
  /\ \A n \in DOMAIN g \ Mixed : n \in DOMAIN f

\* The layout under a name, which is the default if nothing is stored.
Under(f, n) == IF n \in DOMAIN f THEN f[n] ELSE 0

\* A table that stands alone on the screen shows what is stored under its name.
Shows(ls, names, f) ==
  \A i \in DOMAIN ls : names[i] \notin Mixed /\ Len(ls) = 1 => ls[i] = Under(f, names[i])

LayoutInv ==
  /\ ScreenInv
  /\ Named(store) /\ Named(edits)
  /\ Remembers(store, edits)
  /\ Shows(layouts, TablesOf(page, view), store)

\* The tables of a page that is opened.
LEMMA PageTables ==
  ASSUME NEW p \in Visited
  PROVE  /\ ViewsOf(p) \subseteq 1..4 /\ 1 \in ViewsOf(p)
         /\ NamesOf(p) \subseteq Names
         /\ Device[p].keeps => NamesOf(p) \subseteq Mixed
         /\ \A v \in ViewsOf(p) :
              /\ \E n \in 0..2 : DOMAIN TablesOf(p, v) = 1..n
              /\ \A i \in DOMAIN TablesOf(p, v) : TablesOf(p, v)[i] \in NamesOf(p)
              /\ \A w \in ViewsOf(p) :
                   Device[p].keeps => DOMAIN TablesOf(p, v) = DOMAIN TablesOf(p, w)
<1>1. Tabbed(Device[p])
  BY TabbedPages
<1>2. ViewsOf(p) \subseteq 1..4 /\ 1 \in ViewsOf(p)
  BY <1>1 DEF Tabbed, ViewsOf
<1>3. NamesOf(p) \subseteq Names
  BY DEF Names
<1>4. Device[p].keeps => NamesOf(p) \subseteq Mixed
  BY DEF Mixed
<1>5. ASSUME NEW v \in ViewsOf(p)
      PROVE  /\ \E n \in 0..2 : DOMAIN TablesOf(p, v) = 1..n
             /\ \A w \in ViewsOf(p) :
                  Device[p].keeps => DOMAIN TablesOf(p, v) = DOMAIN TablesOf(p, w)
  BY <1>1 DEF Tabbed, ViewsOf, TablesOf
<1>6. ASSUME NEW v \in ViewsOf(p), NEW i \in DOMAIN TablesOf(p, v)
      PROVE  TablesOf(p, v)[i] \in NamesOf(p)
  BY DEF NamesOf, Range
<1> QED
  BY <1>2, <1>3, <1>4, <1>5, <1>6

\* The last of at most two tables.
LEMMA LastOf ==
  ASSUME NEW S \in SUBSET (1..2), S # {}
  PROVE  (CHOOSE i \in S : \A j \in S : j <= i) \in S
<1>1. \A j \in S : j = 1 \/ j = 2
  OBVIOUS
<1>2. \E i \in S : \A j \in S : j <= i
  <2>1. CASE 2 \in S
    BY <1>1, <2>1
  <2>2. CASE 2 \notin S
    <3>1. \A j \in S : j = 1
      BY <1>1, <2>2
    <3>2. 1 \in S
      BY <3>1
    <3> QED
      BY <3>1, <3>2
  <2> QED
    BY <2>1, <2>2
<1> QED
  BY <1>2

\* Every name of the view gets the layout of one of its tables, the others stay.
LEMMA SaveIs ==
  ASSUME NEW p \in Visited, NEW v \in ViewsOf(p), NEW ls \in [DOMAIN TablesOf(p, v) -> LayoutNo],
         Save(p, v, ls)
  PROVE  /\ store' = [n \in DOMAIN store' |-> store'[n]]
         /\ \A n : n \in DOMAIN store' <=>
              n \in DOMAIN store \/ \E i \in DOMAIN ls : ls[i] # 0 /\ TablesOf(p, v)[i] = n
         /\ \A n \in DOMAIN store' :
              \/ \E i \in DOMAIN ls : TablesOf(p, v)[i] = n /\ store'[n] = ls[i]
              \/ /\ \A i \in DOMAIN ls : TablesOf(p, v)[i] # n
                 /\ n \in DOMAIN store /\ store'[n] = store[n]
<1> DEFINE saved(n) == {i \in DOMAIN ls : TablesOf(p, v)[i] = n}
           last(n) == CHOOSE i \in saved(n) : \A j \in saved(n) : j <= i
           new == {TablesOf(p, v)[i] : i \in {j \in DOMAIN ls : ls[j] # 0}}
<1>1. store' = [n \in DOMAIN store \union new |-> IF saved(n) # {} THEN ls[last(n)] ELSE store[n]]
  BY DEF Save
<1>2. DOMAIN ls \subseteq 1..2
  BY PageTables
<1>3. ASSUME NEW n, saved(n) # {} PROVE last(n) \in saved(n)
  <2>1. saved(n) \in SUBSET (1..2)
    BY <1>2
  <2> HIDE DEF saved
  <2> QED
    BY <1>3, <2>1, LastOf
<1>4. \A n : n \in new <=> \E i \in DOMAIN ls : ls[i] # 0 /\ TablesOf(p, v)[i] = n
  OBVIOUS
<1>5. DOMAIN store' = DOMAIN store \union new
  BY <1>1
<1>6. ASSUME NEW n \in DOMAIN store', saved(n) # {}
      PROVE  \E i \in DOMAIN ls : TablesOf(p, v)[i] = n /\ store'[n] = ls[i]
  <2>1. store'[n] = ls[last(n)]
    BY <1>1, <1>5, <1>6
  <2>2. last(n) \in DOMAIN ls /\ TablesOf(p, v)[last(n)] = n
    BY <1>3, <1>6
  <2> HIDE DEF last
  <2> QED
    BY <2>1, <2>2
<1>7. ASSUME NEW n \in DOMAIN store', saved(n) = {}
      PROVE  /\ \A i \in DOMAIN ls : TablesOf(p, v)[i] # n
             /\ n \in DOMAIN store /\ store'[n] = store[n]
  <2>1. store'[n] = store[n]
    BY <1>1, <1>5, <1>7
  <2>2. \A i \in DOMAIN ls : TablesOf(p, v)[i] # n
    BY <1>7
  <2>3. n \notin new
    BY <2>2
  <2> QED
    BY <1>5, <2>1, <2>2, <2>3
<1>8. store' = [n \in DOMAIN store' |-> store'[n]]
  BY <1>1
<1> HIDE DEF saved, last, new
<1> QED
  BY <1>4, <1>5, <1>6, <1>7, <1>8

\* Tables that are mounted show what is stored, and save nothing else.
LEMMA MountKeeps ==
  ASSUME Named(store), NEW p \in Visited, NEW v \in ViewsOf(p), Save(p, v, MountLayouts(p, v))
  PROVE  /\ store' = store
         /\ MountLayouts(p, v) \in [DOMAIN TablesOf(p, v) -> LayoutNo]
         /\ Shows(MountLayouts(p, v), TablesOf(p, v), store)
<1> DEFINE ls == MountLayouts(p, v)
<1>1. /\ DOMAIN ls = DOMAIN TablesOf(p, v)
      /\ \A i \in DOMAIN ls : ls[i] = Under(store, TablesOf(p, v)[i])
  BY DEF MountLayouts, Stored, Under
<1>2. \A n : Under(store, n) \in LayoutNo
  BY DEF Named, Under, LayoutNo
<1>3. ls \in [DOMAIN TablesOf(p, v) -> LayoutNo]
  <2>1. ls = [i \in DOMAIN TablesOf(p, v) |-> Under(store, TablesOf(p, v)[i])]
    BY DEF MountLayouts, Stored, Under
  <2> QED
    BY <1>2, <2>1
<1> HIDE DEF ls
<1>4. Save(p, v, ls)
  BY DEF ls
<1>5. /\ store' = [n \in DOMAIN store' |-> store'[n]]
      /\ \A n : n \in DOMAIN store' <=>
           n \in DOMAIN store \/ \E i \in DOMAIN ls : ls[i] # 0 /\ TablesOf(p, v)[i] = n
      /\ \A n \in DOMAIN store' :
           \/ \E i \in DOMAIN ls : TablesOf(p, v)[i] = n /\ store'[n] = ls[i]
           \/ /\ \A i \in DOMAIN ls : TablesOf(p, v)[i] # n
              /\ n \in DOMAIN store /\ store'[n] = store[n]
  BY <1>3, <1>4, SaveIs
<1>6. \A n : n \in DOMAIN store' <=> n \in DOMAIN store
  BY <1>1, <1>5 DEF Under
<1>7. \A n \in DOMAIN store : store'[n] = store[n]
  BY <1>1, <1>5, <1>6 DEF Under
<1>8. DOMAIN store' = DOMAIN store
  BY <1>6
<1>9. store' = store
  BY <1>5, <1>7, <1>8 DEF Named
<1>10. Shows(ls, TablesOf(p, v), store)
  BY <1>1 DEF Shows
<1> QED
  BY <1>3, <1>9, <1>10 DEF ls

\* The content appears, stays or goes, and no layout is lost.
LEMMA RenderStep ==
  ASSUME LayoutInv, page # NoPage, NEW s, NEW r, Render(s, r),
         UNCHANGED <<page, edits>>
  PROVE  LayoutInv'
<1>1. Shown' <=> ShowContent(page, s, r)
  BY DEF Render, Shown, ShowContent
<1>2. page \in Visited /\ view \in ViewsOf(page)
  BY DEF LayoutInv, ScreenInv
<1>6. /\ view' \in {view, 1} /\ view' \in ViewsOf(page) /\ view' \in 1..4
      /\ ShowContent(page, s, r) => view' = view
  BY <1>2, PageTables DEF Render
<1>3. CASE ShowContent(page, s, r) /\ Shown
  BY <1>1, <1>3, <1>6 DEF Render, LayoutInv, ScreenInv
<1>4. CASE ShowContent(page, s, r) /\ ~Shown
  <2>1. layouts' = MountLayouts(page, view) /\ Save(page, view, MountLayouts(page, view))
    BY <1>4 DEF Render
  <2>2. /\ store' = store
        /\ layouts' \in [DOMAIN TablesOf(page, view) -> LayoutNo]
        /\ Shows(layouts', TablesOf(page, view), store)
    BY <1>2, <2>1, MountKeeps DEF LayoutInv
  <2> QED
    BY <1>1, <1>4, <1>6, <2>2 DEF LayoutInv, ScreenInv
<1>5. CASE ~ShowContent(page, s, r)
  <2>1. layouts' = <<>> /\ store' = store
    BY <1>5 DEF Render
  <2>2. Shows(<<>>, TablesOf(page, view'), store)
    BY DEF Shows
  <2> QED
    BY <1>1, <1>2, <1>5, <1>6, <2>1, <2>2 DEF LayoutInv, ScreenInv
<1> QED
  BY <1>3, <1>4, <1>5

\* Another tab mounts its tables, or gives the old ones names that are mixed up.
LEMMA SwitchStep ==
  ASSUME LayoutInv, NEW v \in 1..4, SwitchView(v)
  PROVE  LayoutInv'
<1>1. /\ Shown /\ page \in Visited /\ v \in ViewsOf(page) /\ view \in ViewsOf(page)
      /\ view' = v /\ UNCHANGED <<page, status, refreshing, edits>>
      /\ Save(page, v, layouts')
  BY DEF SwitchView, Shown, LayoutInv, ScreenInv
<1>2. Shown'
  BY <1>1 DEF Shown, ShowContent
<1>3. CASE ~Device[page].keeps
  <2>1. layouts' = MountLayouts(page, v)
    BY <1>3 DEF SwitchView
  <2>2. /\ store' = store
        /\ layouts' \in [DOMAIN TablesOf(page, v) -> LayoutNo]
        /\ Shows(layouts', TablesOf(page, v), store)
    BY <1>1, <2>1, MountKeeps DEF LayoutInv
  <2> QED
    BY <1>1, <1>2, <2>2 DEF LayoutInv, ScreenInv
<1>4. CASE Device[page].keeps
  <2> DEFINE names == TablesOf(page, v)
  <2>1. layouts' = layouts
    BY <1>4 DEF SwitchView
  <2>2. DOMAIN TablesOf(page, view) = DOMAIN names
    BY <1>1, <1>4, PageTables
  <2>3. layouts \in [DOMAIN names -> LayoutNo]
    BY <1>1, <2>2 DEF LayoutInv, ScreenInv
  <2>4. \A i \in DOMAIN names : names[i] \in Mixed /\ names[i] \in Names
    BY <1>1, <1>4, PageTables
  <2>5. /\ store' = [n \in DOMAIN store' |-> store'[n]]
        /\ \A n : n \in DOMAIN store' <=>
             n \in DOMAIN store \/ \E i \in DOMAIN layouts : layouts[i] # 0 /\ names[i] = n
        /\ \A n \in DOMAIN store' :
             \/ \E i \in DOMAIN layouts : names[i] = n /\ store'[n] = layouts[i]
             \/ /\ \A i \in DOMAIN layouts : names[i] # n
                /\ n \in DOMAIN store /\ store'[n] = store[n]
    BY <1>1, <2>1, <2>3, SaveIs
  <2> HIDE DEF names
  <2>6. Named(store')
    BY <2>3, <2>4, <2>5 DEF LayoutInv, Named
  <2>7. \A n : n \notin Mixed => /\ n \in DOMAIN store' <=> n \in DOMAIN store
                                 /\ n \in DOMAIN store' => store'[n] = store[n]
    BY <2>3, <2>4, <2>5
  <2>8. Remembers(store', edits)
    BY <2>7 DEF LayoutInv, Remembers
  <2>9. Shows(layouts, names, store')
    BY <2>3, <2>4 DEF Shows
  <2> QED
    BY <1>1, <1>2, <2>1, <2>3, <2>6, <2>8, <2>9 DEF LayoutInv, ScreenInv, names
<1> QED
  BY <1>3, <1>4

\* An edit is remembered under the name of its table.
LEMMA EditStep ==
  ASSUME LayoutInv, NEW i \in 1..2, EditLayout(i)
  PROVE  LayoutInv'
<1>1. PICK e \in 1..MaxEdit :
        /\ i \in DOMAIN layouts
        /\ layouts' = [layouts EXCEPT ![i] = e]
        /\ edits' = Put(edits, TablesOf(page, view)[i], e)
        /\ store' = Put(store, TablesOf(page, view)[i], e)
        /\ UNCHANGED <<page, view, status, refreshing>>
  BY DEF EditLayout
<1> DEFINE name == TablesOf(page, view)[i]
<1>2. Shown /\ Shown' /\ page \in Visited /\ view \in ViewsOf(page)
  BY <1>1 DEF LayoutInv, ScreenInv, Shown, ShowContent
<1>3. PICK n \in 0..2 : DOMAIN TablesOf(page, view) = 1..n
  BY <1>2, PageTables
<1>4. layouts \in [1..n -> LayoutNo] /\ i \in 1..n /\ e \in LayoutNo
  BY <1>1, <1>2, <1>3 DEF LayoutInv, ScreenInv, LayoutNo
<1>5. name \in Names
  BY <1>2, <1>3, <1>4, PageTables
<1> HIDE DEF name
<1>6. ASSUME NEW f, Named(f)
      PROVE  /\ Named(Put(f, name, e))
             /\ DOMAIN Put(f, name, e) = DOMAIN f \union {name}
             /\ Put(f, name, e)[name] = e
             /\ \A m \in DOMAIN f : m # name => Put(f, name, e)[m] = f[m]
  <2> DEFINE g == Put(f, name, e)
  <2>1. g = [m \in DOMAIN f \union {name} |-> IF m = name THEN e ELSE f[m]]
    BY DEF Put
  <2>2. DOMAIN g = DOMAIN f \union {name} /\ g = [m \in DOMAIN g |-> g[m]]
    BY <2>1
  <2>3. g[name] = e /\ \A m \in DOMAIN f : m # name => g[m] = f[m]
    BY <2>1
  <2> HIDE DEF g
  <2>4. Named(g)
    BY <1>4, <1>5, <1>6, <2>2, <2>3 DEF Named
  <2> QED
    BY <2>2, <2>3, <2>4 DEF g
<1>7. /\ Named(store') /\ Named(edits')
      /\ DOMAIN store' = DOMAIN store \union {name} /\ DOMAIN edits' = DOMAIN edits \union {name}
      /\ store'[name] = e /\ edits'[name] = e
      /\ \A m \in DOMAIN store : m # name => store'[m] = store[m]
      /\ \A m \in DOMAIN edits : m # name => edits'[m] = edits[m]
  BY <1>1, <1>6 DEF LayoutInv, name
<1>10. Remembers(store', edits')
  BY <1>7 DEF LayoutInv, Remembers
<1>8. layouts' \in [1..n -> LayoutNo] /\ layouts'[i] = e /\ Len(layouts') = n
  BY <1>1, <1>4
<1>9. Shows(layouts', TablesOf(page, view), store')
  <2> SUFFICES ASSUME NEW j \in DOMAIN layouts', Len(layouts') = 1
               PROVE  layouts'[j] = Under(store', TablesOf(page, view)[j])
    BY DEF Shows
  <2>1. j = i
    BY <1>4, <1>8
  <2> QED
    BY <1>7, <1>8, <2>1 DEF Under, name
<1> QED
  BY <1>1, <1>2, <1>3, <1>7, <1>8, <1>9, <1>10 DEF LayoutInv, ScreenInv

LEMMA LayoutStep == ReadInv /\ LayoutInv /\ [Next]_vars => LayoutInv'
<1> SUFFICES ASSUME ReadInv, LayoutInv, [Next]_vars PROVE LayoutInv'
  OBVIOUS
<1> USE DEF onPage
<1>1. ASSUME NEW p \in Visited, Open(p) PROVE LayoutInv'
  <2>1. /\ page' = p /\ view' = 1 /\ status' = "loading" /\ refreshing' = FALSE
        /\ layouts' = <<>> /\ UNCHANGED <<store, edits>>
    BY <1>1 DEF Open, Fresh
  <2>2. ~Shown' /\ 1 \in ViewsOf(p)
    BY <2>1, PageTables DEF Shown, ShowContent
  <2>3. Shows(<<>>, TablesOf(p, 1), store)
    BY DEF Shows
  <2> QED
    BY <2>1, <2>2, <2>3 DEF LayoutInv, ScreenInv
<1>2. ASSUME Leave PROVE LayoutInv'
  <2>1. /\ page' = NoPage /\ view' = 1 /\ layouts' = <<>> /\ UNCHANGED <<store, edits>>
    BY <1>2 DEF Leave
  <2>2. ~Shown'
    BY <2>1 DEF Shown
  <2>3. Shows(<<>>, TablesOf(page', 1), store)
    BY DEF Shows
  <2> QED
    BY <2>1, <2>2, <2>3 DEF LayoutInv, ScreenInv
<1>3. ASSUME NEW s \in Slot, Retry(s) \/ Refresh(s) \/ Arrives(s) \/ Fails(s) PROVE LayoutInv'
  <2>1. UNCHANGED <<page, edits>> /\ \E t, r : Render(t, r)
    BY <1>3 DEF Retry, Refresh, Arrives, Fails, End
  <2>2. page # NoPage
    <3>1. CASE Retry(s) \/ Refresh(s)
      BY <3>1 DEF Retry, Refresh, Shown
    <3>2. CASE Arrives(s) \/ Fails(s)
      BY <3>2 DEF Arrives, Fails, ReadInv, ReadOrder, Active
    <3> QED
      BY <1>3, <3>1, <3>2
  <2> QED
    BY <2>1, <2>2, RenderStep
<1>4. ASSUME NEW v \in 1..4, SwitchView(v) PROVE LayoutInv'
  BY <1>4, SwitchStep
<1>5. ASSUME NEW i \in 1..2, EditLayout(i) PROVE LayoutInv'
  BY <1>5, EditStep
<1>6. ASSUME \/ \E s \in Slot : ReadConfig(s)
             \/ AskDelete \/ CancelDelete \/ ConfirmDelete \/ ConfigChanges \/ UNCHANGED vars
      PROVE LayoutInv'
  <2>1. UNCHANGED <<page, view, status, refreshing, layouts, store, edits>>
    BY <1>6 DEF ReadConfig, AskDelete, CancelDelete, ConfirmDelete, ConfigChanges, vars
  <2>2. Shown' = Shown
    BY <2>1 DEF Shown
  <2> QED
    BY <2>1, <2>2 DEF LayoutInv, ScreenInv
<1> QED
  BY <1>1, <1>2, <1>3, <1>4, <1>5, <1>6 DEF Next, Answers

LEMMA LayoutsCorrect == Spec => [](ReadInv /\ LayoutInv)
<1>1. Init => LayoutInv
  <2> SUFFICES ASSUME Init PROVE LayoutInv
    OBVIOUS
  <2>1. /\ page = NoPage /\ view = 1 /\ layouts = <<>> /\ store = <<>> /\ edits = <<>>
    BY DEF Init
  <2>2. ~Shown
    BY <2>1 DEF Shown
  <2>3. Named(<<>>)
    BY DEF Named
  <2>4. Remembers(<<>>, <<>>) /\ Shows(<<>>, TablesOf(page, view), <<>>)
    BY DEF Remembers, Shows
  <2> QED
    BY <2>1, <2>2, <2>3, <2>4 DEF LayoutInv, ScreenInv
<1>2. Spec => []ReadInv
  BY ReadsInOrder
<1>3. LayoutInv /\ ReadInv /\ [Next]_vars => LayoutInv'
  BY LayoutStep
<1> QED
  BY <1>1, <1>2, <1>3, PTL DEF Spec

\* Every layout stays with the name it was given to.
THEOREM LayoutsStay == Spec => []LayoutsAreKept
<1>1. LayoutInv => LayoutsAreKept
  BY DEF LayoutInv, LayoutsAreKept, Remembers, Shows, Stored, Under
<1> QED
  BY <1>1, LayoutsCorrect, PTL

ScalarInv ==
  /\ status \in {"loading", "ready", "error"}
  /\ refreshing \in BOOLEAN /\ overlapped \in BOOLEAN
  /\ confirm \in 0..4 /\ deleted \in (0..4) \X (0..4)

LEMMA ScalarStep == LayoutInv /\ ScalarInv /\ [Next]_vars => ScalarInv'
<1> SUFFICES ASSUME LayoutInv, ScalarInv, [Next]_vars PROVE ScalarInv'
  OBVIOUS
<1> USE DEF onPage
<1>1. ASSUME (\E p \in Visited : Open(p)) \/ Leave PROVE ScalarInv'
  <2>1. /\ status' = "loading" /\ refreshing' = FALSE /\ overlapped' = FALSE
        /\ confirm' = 0 /\ deleted' = <<0, 0>>
    BY <1>1 DEF Open, Fresh, Leave
  <2>2. 0 \in 0..4 /\ <<0, 0>> \in (0..4) \X (0..4)
    OBVIOUS
  <2> QED
    BY <2>1, <2>2, Zenon DEF ScalarInv
<1>2. ASSUME NEW s \in Slot, Retry(s) \/ Refresh(s) \/ Arrives(s) \/ Fails(s) PROVE ScalarInv'
  <2>1. confirm' \in {confirm, 0} /\ UNCHANGED deleted /\ overlapped' \in BOOLEAN
    BY <1>2 DEF Retry, Refresh, Arrives, Fails, End, Render, ScalarInv
  <2>2. status' \in {"loading", "ready", "error"} /\ refreshing' \in BOOLEAN
    BY <1>2 DEF Retry, Refresh, Arrives, Fails, End, Render, ScalarInv
  <2> QED
    BY <2>1, <2>2 DEF ScalarInv
<1>3. ASSUME NEW v \in 1..4, SwitchView(v) PROVE ScalarInv'
  BY <1>3 DEF SwitchView, ScalarInv
<1>4. ASSUME NEW i \in 1..2, EditLayout(i) PROVE ScalarInv'
  BY <1>4 DEF EditLayout, ScalarInv
<1>5. ASSUME AskDelete \/ CancelDelete \/ ConfirmDelete PROVE ScalarInv'
  BY <1>5 DEF AskDelete, CancelDelete, ConfirmDelete, ScalarInv, LayoutInv, ScreenInv
<1>6. ASSUME (\E s \in Slot : ReadConfig(s)) \/ ConfigChanges \/ UNCHANGED vars PROVE ScalarInv'
  BY <1>6 DEF ReadConfig, ConfigChanges, vars, ScalarInv
<1> QED
  BY <1>1, <1>2, <1>3, <1>4, <1>5, <1>6 DEF Next, Answers

\* The page, its calls, its tables and what is stored of them have their types.
THEOREM TypeCorrect == Spec => []TypeOK
<1>1. Init => ScalarInv
  <2> SUFFICES ASSUME Init PROVE ScalarInv
    OBVIOUS
  <2>1. /\ status = "loading" /\ refreshing = FALSE /\ overlapped = FALSE
        /\ confirm = 0 /\ deleted = <<0, 0>>
    BY DEF Init
  <2>2. 0 \in 0..4 /\ <<0, 0>> \in (0..4) \X (0..4)
    OBVIOUS
  <2> QED
    BY <2>1, <2>2, Zenon DEF ScalarInv
<1>2. LayoutInv /\ ScalarInv /\ [Next]_vars => ScalarInv'
  BY ScalarStep
<1>3. ReadInv /\ LayoutInv /\ ScalarInv => TypeOK
  <2> SUFFICES ASSUME ReadInv, LayoutInv, ScalarInv PROVE TypeOK
    OBVIOUS
  <2>1. Range(store) \subseteq LayoutNo /\ Range(edits) \subseteq LayoutNo
    BY DEF LayoutInv, Named, Range
  <2> QED
    BY <2>1 DEF ReadInv, ReadTypes, LayoutInv, ScreenInv, Named, ScalarInv, TypeOK
<1> QED
  BY <1>1, <1>2, <1>3, LayoutsCorrect, PTL DEF Spec

=============================================================================
