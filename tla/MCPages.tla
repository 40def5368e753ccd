------------------------------- MODULE MCPages -------------------------------
(***************************************************************************)
(* Instances of Pages: every kind of page of a device, and the NAT44 page alone.   *)
(***************************************************************************)
EXTENDS Pages

\* Every kind of page: lists with the same and with other columns, with rows that can
\* be deleted, tabs with one and with several instances, cards, fields.  Every other
\* page is like one of these with other columns.
EveryKind ==
  {"dummy", "vti", "vlan", "nat44", "nat66", "cgnat", "ntp", "snmp",
   "dhcp_server", "dhcpv6_server", "dhcp_relay", "system", "global_options"}
OnlyNat44 == {"nat44"}
=============================================================================
