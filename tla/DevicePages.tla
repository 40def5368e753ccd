----------------------------- MODULE DevicePages -----------------------------
(***************************************************************************)
(* The pages of a device as far as Pages tells them apart: how a page      *)
(* reads its part of the configuration, which tables it shows side by side *)
(* in which of its views, and whether its rows can be deleted.  A table is *)
(* given by the keys of its columns, from which DataTable makes the name   *)
(* under which it stores the layout; no page passes a name of its own.     *)
(***************************************************************************)
EXTENDS Sequences

(***************************************************************************)
(* kind: "list" pages render the loading text, the error and the table     *)
(* themselves, the table has the Refresh button; "service" pages leave all *)
(* of it to ServiceScaffold; "plain" pages have no Refresh button; "form"  *)
(* pages show fields instead of tables and have a button of their own.     *)
(*                                                                         *)
(* loud: Retry shows the loading text.  The others pass load() to the      *)
(* button as its handler, which makes the click event the mode of the      *)
(* load, and the error stays on the screen until the answer comes.         *)
(*                                                                         *)
(* keeps: one table instance serves all views, with other rows and columns *)
(***************************************************************************)
InterfaceList(columns) ==
  [kind |-> "list", loud |-> FALSE, views |-> << <<columns>> >>, keeps |-> FALSE, deletes |-> FALSE]
Service(tables) ==
  [kind |-> "service", loud |-> TRUE, views |-> <<tables>>, keeps |-> FALSE, deletes |-> FALSE]
Plain(views) ==
  [kind |-> "plain", loud |-> TRUE, views |-> views, keeps |-> FALSE, deletes |-> FALSE]
Fields(loud) ==
  [kind |-> "form", loud |-> loud, views |-> << <<>> >>, keeps |-> FALSE, deletes |-> FALSE]

-----------------------------------------------------------------------------
(***************************************************************************)
(* Interfaces                                                              *)
(***************************************************************************)
Bonding == InterfaceList(<<"name", "description", "mode", "members", "addresses", "mtu", "status">>)
Bridge == InterfaceList(<<"name", "description", "members", "addresses", "mtu", "status">>)
Dummy == InterfaceList(<<"name", "description", "addresses", "mtu", "status">>)
Ethernet == InterfaceList(<<"name", "description", "addresses", "mtu", "hw_id", "vlan_count", "status">>)
Geneve == InterfaceList(<<"name", "description", "vni", "remote", "addresses", "mtu", "status">>)
L2tpv3 == InterfaceList(<<"name", "description", "source_address", "remote", "tunnel", "session", "status">>)
Loopback == InterfaceList(<<"name", "description", "addresses", "mtu", "status">>)
Macsec == InterfaceList(<<"name", "description", "source_interface", "cipher", "addresses", "mtu", "status">>)
Macvlan == InterfaceList(<<"name", "description", "source_interface", "mode", "addresses", "mtu", "status">>)
Openvpn == InterfaceList(<<"name", "description", "mode", "protocol", "remote_host", "addresses", "status">>)
Pppoe == InterfaceList(<<"name", "description", "source_interface", "username", "addresses", "mtu", "status">>)
Sstpc == InterfaceList(<<"name", "description", "server", "username", "addresses", "status">>)
Tunnel == InterfaceList(<<"name", "description", "encapsulation", "source_address", "remote", "addresses", "status">>)
Veth == InterfaceList(<<"name", "description", "peer_name", "addresses", "mtu", "status">>)
Vti == InterfaceList(<<"name", "description", "addresses", "mtu", "status">>)
Vxlan == InterfaceList(<<"name", "description", "vni", "remote", "source_address", "addresses", "mtu", "status">>)
Wireguard == InterfaceList(<<"name", "description", "addresses", "port", "peer_count", "mtu", "status">>)
Wlan == InterfaceList(<<"name", "description", "interface_type", "ssid", "channel", "addresses", "status">>)
Wwan == InterfaceList(<<"name", "description", "apn", "addresses", "mtu", "status">>)

\* The only list with a load for Retry and another for Refresh, and with rows that
\* can be deleted.
Vlan ==
  [InterfaceList(<<"name", "vlan_id", "parent", "description", "addresses", "mtu", "status">>)
     EXCEPT !.loud = TRUE, !.deletes = TRUE]

-----------------------------------------------------------------------------
(***************************************************************************)
(* NAT                                                                     *)
(***************************************************************************)
natRuleColumns ==
  <<"rule", "description", "interface", "source", "destination", "translation", "protocol", "status">>
staticNatColumns ==
  <<"rule", "description", "interface", "internal_address", "external_address", "status">>

NatRulesView(views) == [Service(<<>>) EXCEPT !.views = views, !.keeps = TRUE]

Nat44 ==
  [NatRulesView(<< <<natRuleColumns>>, <<natRuleColumns>>, <<staticNatColumns>> >>)
     EXCEPT !.deletes = TRUE]
Nat66 == NatRulesView(<< <<natRuleColumns>>, <<natRuleColumns>> >>)
Nat64 == Service(<< <<"rule", "description", "source", "translation", "protocol", "status">> >>)
Cgnat ==
  Service(<< <<"kind", "name", "ranges", "external_port_range">>,
             <<"rule", "description", "source_pool", "translation_pool", "status">> >>)

-----------------------------------------------------------------------------
(***************************************************************************)
(* Services                                                                *)
(***************************************************************************)
BroadcastRelay == Service(<< <<"id", "interfaces", "address", "port", "description", "status">> >>)
ConsoleServer ==
  Service(<< <<"name", "speed", "data_bits", "stop_bits", "parity", "ssh_port", "description">> >>)
DnsForwarding == Service(<< <<"name", "name_servers">> >>)
DynamicDns ==
  Service(<< <<"name", "protocol", "server", "host_names", "address", "username">> >>)
EventHandler == Service(<< <<"name", "pattern", "script", "description">> >>)
RouterAdvert ==
  Service(<< <<"interface", "prefixes", "managed_flag", "interval_max", "default_lifetime">> >>)
Snmp == Service(<< <<"name", "authorization">> >>)

\* Cards without a table.
ConfigSync == Service(<<>>)
ConntrackSync == Service(<<>>)
Https == Service(<<>>)
IpoeServer == Service(<<>>)
Lldp == Service(<<>>)
MdnsRepeater == Service(<<>>)
Monitoring == Service(<<>>)
Ntp == Service(<<>>)
PppoeServer == Service(<<>>)
SaltMinion == Service(<<>>)
Ssh == Service(<<>>)
TftpServer == Service(<<>>)
WebProxy == Service(<<>>)

DhcpSubnets(version) ==
  IF version = 4
  THEN <<"subnet", "default_router", "name_servers", "domain_name", "lease", "rangeCount", "mappingCount">>
  ELSE <<"subnet", "name_servers", "domain_search", "lease", "rangeCount", "mappingCount">>
DhcpRanges == <<"subnet", "name", "start", "stop">>

\* Four tabs, each with a table of its own.
DhcpServer ==
  Plain(<< <<DhcpSubnets(4)>>, <<DhcpRanges>>,
           << <<"name", "subnet", "ip_address", "mac_address", "description">> >>,
           << <<"ip_address", "mac_address", "hostname", "state", "lease_expiration", "remaining">> >> >>)
Dhcpv6Server ==
  Plain(<< <<DhcpSubnets(6)>>, <<DhcpRanges>>,
           << <<"name", "subnet", "identifier", "ipv6_address", "ipv6_prefix", "description">> >>,
           << <<"ip_address", "state", "lease_expiration", "remaining", "pool">> >> >>)

\* Two tables at once; those of DhcpRelay have the same columns.
DhcpRelay == Plain(<< << <<"value">>, <<"value">> >> >>)
Dhcpv6Relay == Plain(<< << <<"interface", "address">>, <<"interface", "address">> >> >>)

-----------------------------------------------------------------------------
(***************************************************************************)
(* Forms                                                                   *)
(***************************************************************************)
GeneralTab == Fields(FALSE)
GlobalOptions == Fields(TRUE)

-----------------------------------------------------------------------------
\* The pages by the names of their routes.
Device ==
  [bonding |-> Bonding, bridge |-> Bridge, dummy |-> Dummy, ethernet |-> Ethernet,
   geneve |-> Geneve, l2tpv3 |-> L2tpv3, loopback |-> Loopback, macsec |-> Macsec,
   macvlan |-> Macvlan, openvpn |-> Openvpn, pppoe |-> Pppoe, sstpc |-> Sstpc,
   tunnel |-> Tunnel, veth |-> Veth, vlan |-> Vlan, vti |-> Vti, vxlan |-> Vxlan,
   wireguard |-> Wireguard, wlan |-> Wlan, wwan |-> Wwan,
   nat44 |-> Nat44, nat64 |-> Nat64, nat66 |-> Nat66, cgnat |-> Cgnat,
   broadcast_relay |-> BroadcastRelay, config_sync |-> ConfigSync,
   conntrack_sync |-> ConntrackSync, console_server |-> ConsoleServer,
   dhcp_relay |-> DhcpRelay, dhcp_server |-> DhcpServer, dhcpv6_relay |-> Dhcpv6Relay,
   dhcpv6_server |-> Dhcpv6Server, dns_forwarding |-> DnsForwarding,
   dynamic_dns |-> DynamicDns, event_handler |-> EventHandler, https |-> Https,
   ipoe_server |-> IpoeServer, lldp |-> Lldp, mdns_repeater |-> MdnsRepeater,
   monitoring |-> Monitoring, ntp |-> Ntp, pppoe_server |-> PppoeServer,
   router_advert |-> RouterAdvert, salt_minion |-> SaltMinion, snmp |-> Snmp,
   ssh |-> Ssh, tftp_server |-> TftpServer, web_proxy |-> WebProxy,
   system |-> GeneralTab, global_options |-> GlobalOptions]
=============================================================================
