---------------------------- MODULE MCConfigDiff ----------------------------
(***************************************************************************)
(* The instance of ConfigDiff.  Leaves that the code treats alike are      *)
(* represented by one of them: `description` stands for the single-valued  *)
(* leaves of a NIC or vif (mtu, speed, duplex), `port` for the ports and   *)
(* the protocol of a NAT rule, `disable` for its flags, `option` for the   *)
(* keys of global-options, `host-name` also for the time zone, `level` for *)
(* `log-options level`.  A leaf without values on a page is never there.   *)
(***************************************************************************)
EXTENDS ConfigDiff

CONSTANTS v1, v2, here

AllValues == {v1, v2, here}
MultiLeaves == {"address", "server"}
SetOnlyLeaves == {"host-name"}
AllLeaves == {"node", "disable", "name", "group", "bare", "action", "server",
  "source-address", "destination-address", "translation-address", "description",
  "address", "port", "log", "option", "resolver-cache", "level", "host-name",
  "domain-name", "other"}

AllManaged == [k \in Kinds |->
  CASE k \in {"nic", "vif"} -> {"description", "address", "disable"}
    [] k \in {"source", "destination"} -> {"name", "group", "port", "disable",
         "source-address", "destination-address", "translation-address"}
    [] k = "options" -> {"option", "resolver-cache"}
    [] k = "state" -> {"action", "log", "level"}
    [] k = "system" -> {"host-name", "domain-name"}
    [] k = "ntp" -> {"server"}]
AllUnmanaged == [k \in Kinds |->
  CASE k \in {"nic", "ntp"} -> {"other"}
    [] k \in {"source", "destination"} -> {"bare"}
    [] OTHER -> {}]

\* One NIC; two vifs; two NAT rules; the two rules of a mapping; two mappings;
\* the firewall's options and one state; system and ntp.
MCForms ==
  [p \in Pages |-> CASE p = "renumber" -> {"static", "delete"}
                     [] p = "vlan" -> {"vlan", "delete"}
                     [] OTHER -> {p}]
MCPlace ==
  [p \in Pages |->
     CASE p = "ethernet" -> {<<"nic", 0>>}
       [] p = "vlan" -> {"vif"} \X {1, 2}
       [] p = "nat44" -> {"source"} \X {1, 2}
       [] p = "static" -> {"source", "destination"} \X {1}
       [] p = "renumber" -> {"source", "destination"} \X {1, 2}
       [] p = "firewall" -> {<<"options", 0>>, <<"state", 1>>}
       [] p = "system" -> {"system", "ntp"} \X {0}]

Flags == {"node", "disable", "log", "resolver-cache", "other"}
Usual(leaves, few) ==
  [l \in Leaf |-> IF l \notin leaves \union {"node"} THEN {}
                  ELSE IF l \in Flags THEN {here}
                  ELSE IF l \in few THEN {v1} ELSE {v1, v2}]
Match(k) == IF k = "source" THEN "source-address" ELSE "destination-address"

\* A mapping leads from v1 to v2; two mappings lead from v1 to v1.
MCDomain ==
  [p \in Pages |-> [k \in Kinds |->
     CASE p = "ethernet" -> Usual({"description", "address", "disable", "other"}, {})
       [] p = "vlan" -> Usual({"description", "address", "disable"}, {"address"})
       [] p = "nat44" -> Usual({"name", "group", "bare", "port"}, {"group", "bare", "port"})
       [] p = "static" ->
            [Usual({Match(k), "translation-address", "port", "disable"}, {"source-address", "port"})
              EXCEPT !["destination-address"] = @ \ {v1}]
       [] p = "renumber" ->
            Usual({Match(k), "translation-address"} \union {IF k = "source" THEN "port" ELSE "disable"},
                  {Match(k), "translation-address", "port"})
       [] p = "firewall" -> Usual({"option", "resolver-cache", "action", "log", "level"}, {"option", "level"})
       [] p = "system" ->
            Usual({"host-name", "domain-name", "server", "other"}, {"domain-name"})]]
=============================================================================
