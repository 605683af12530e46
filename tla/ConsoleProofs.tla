--------------------------- MODULE ConsoleProofs ----------------------------
(***************************************************************************)
(* Proofs about Console, for every set of editors, of inputs and of texts  *)
(* that meets its assumptions:                                             *)
(*   TypeCorrect         the page, the form and the configuration keep the *)
(*                       shapes the code relies on                         *)
(*   DeletesOneRowHolds  a delete takes one row away, and no other         *)
(* The parts, in this order: what the tables of editors hold; rows read    *)
(* from a configuration, seeded, edited and sent have the shape of a row;  *)
(* the batches of every editor are good, that is, leave a configuration;   *)
(* they keep to what the editors rely on; TypeOK; what a delete leaves as  *)
(* it was.                                                                 *)
(***************************************************************************)
EXTENDS Console, EditorKitProofs

-----------------------------------------------------------------------------
(* The editors                                                             *)

\* The editors of the routing pages that have code of their own.
LEMMA RoutingPagesAre ==
  /\ DOMAIN RoutingPages = {"bgp_neighbor", "bgp_peer-group", "bgp_global", "ospf_area", "ospf_interface", "ospf_global", "isis_interface", "isis_global", "mpls", "prefix-list", "route-map", "static_route"}
  /\ RoutingPages["ospf_area"] = OspfArea /\ RoutingPages["static_route"] = StaticRoute
<1>1. DOMAIN BgpPage = {"bgp_neighbor", "bgp_peer-group", "bgp_global"}
  BY DEF :>, @@, BgpPage
<1>2. /\ DOMAIN OspfPage = {"ospf_area", "ospf_interface", "ospf_global"}
      /\ OspfPage["ospf_area"] = OspfArea
  BY DEF :>, @@, OspfPage
<1>3. DOMAIN IsisPage = {"isis_interface", "isis_global"}
  BY DEF :>, @@, IsisPage
<1>4. DOMAIN MplsPage = {"mpls"}
  BY DEF :>, @@, MplsPage
<1>5. DOMAIN PolicyPage = {"prefix-list", "route-map"}
  BY DEF :>, @@, PolicyPage
<1>6. /\ DOMAIN StaticPage = {"static_route"} /\ StaticPage["static_route"] = StaticRoute
  BY DEF :>, @@, StaticPage
<1> DEFINE a == BgpPage @@ OspfPage
           b == a @@ IsisPage
           c == b @@ MplsPage
           d == c @@ PolicyPage
<1>7. RoutingPages = d @@ StaticPage
  BY DEF RoutingPages
<1>8. /\ DOMAIN a = DOMAIN BgpPage \cup DOMAIN OspfPage /\ a["ospf_area"] = OspfArea
  BY <1>1, <1>2, <1>3, <1>4, <1>5, <1>6 DEF @@
<1> HIDE DEF a
<1>9. /\ DOMAIN b = DOMAIN a \cup DOMAIN IsisPage /\ b["ospf_area"] = OspfArea
  BY <1>1, <1>2, <1>3, <1>4, <1>5, <1>6, <1>8 DEF @@
<1> HIDE DEF b
<1>10. /\ DOMAIN c = DOMAIN b \cup DOMAIN MplsPage /\ c["ospf_area"] = OspfArea
  BY <1>1, <1>2, <1>3, <1>4, <1>5, <1>6, <1>8, <1>9 DEF @@
<1> HIDE DEF c
<1>11. /\ DOMAIN d = DOMAIN c \cup DOMAIN PolicyPage /\ d["ospf_area"] = OspfArea
  BY <1>1, <1>2, <1>3, <1>4, <1>5, <1>6, <1>8, <1>9, <1>10 DEF @@
<1> HIDE DEF d
<1> QED BY <1>1, <1>2, <1>3, <1>4, <1>5, <1>6, <1>7, <1>8, <1>9, <1>10, <1>11 DEF @@

\* The editors of the high-availability pages.
LEMMA HaPagesAre ==
  /\ DOMAIN HaPages = {"vrrp_group", "vrrp_sync-group", "vrrp_global", "virtual_server", "config_sync"}
  /\ HaPages["config_sync"] = ConfigSync
<1>1. DOMAIN VrrpPage = {"vrrp_group", "vrrp_sync-group", "vrrp_global"}
  BY DEF :>, @@, VrrpPage
<1>2. DOMAIN VirtualServersPage = {"virtual_server"}
  BY DEF :>, @@, VirtualServersPage
<1>3. /\ DOMAIN ConfigSyncPage = {"config_sync"} /\ ConfigSyncPage["config_sync"] = ConfigSync
  BY DEF :>, @@, ConfigSyncPage
<1> DEFINE a == VrrpPage @@ VirtualServersPage
<1>4. HaPages = a @@ ConfigSyncPage
  BY DEF HaPages
<1>5. DOMAIN a = DOMAIN VrrpPage \cup DOMAIN VirtualServersPage
  BY <1>1, <1>2, <1>3 DEF @@
<1> HIDE DEF a
<1> QED BY <1>1, <1>2, <1>3, <1>4, <1>5 DEF @@

\* The editors of the interface pages.
LEMMA InterfacePagesAre ==
  /\ DOMAIN InterfacePages = {"ethernet", "vlan", "loopback", "bond", "bridge", "vxlan"}
  /\ InterfacePages["vlan"] = Vlan /\ InterfacePages["bond"] = Bond
  /\ InterfacePages["bridge"] = Bridge /\ InterfacePages["vxlan"] = Vxlan
<1>1. DOMAIN EthernetPage = {"ethernet"}
  BY DEF :>, @@, EthernetPage
<1>2. /\ DOMAIN VlanPage = {"vlan"} /\ VlanPage["vlan"] = Vlan
  BY DEF :>, @@, VlanPage
<1>3. DOMAIN LoopbackPage = {"loopback"}
  BY DEF :>, @@, LoopbackPage
<1>4. /\ DOMAIN BondingPage = {"bond"} /\ BondingPage["bond"] = Bond
  BY DEF :>, @@, BondingPage
<1>5. /\ DOMAIN BridgePage = {"bridge"} /\ BridgePage["bridge"] = Bridge
  BY DEF :>, @@, BridgePage
<1>6. /\ DOMAIN VxlanPage = {"vxlan"} /\ VxlanPage["vxlan"] = Vxlan
  BY DEF :>, @@, VxlanPage
<1> DEFINE a == EthernetPage @@ VlanPage
           b == a @@ LoopbackPage
           c == b @@ BondingPage
           d == c @@ BridgePage
<1>7. InterfacePages = d @@ VxlanPage
  BY DEF InterfacePages
<1>8. /\ DOMAIN a = DOMAIN EthernetPage \cup DOMAIN VlanPage /\ a["vlan"] = Vlan
  BY <1>1, <1>2, <1>3, <1>4, <1>5, <1>6 DEF @@
<1> HIDE DEF a
<1>9. /\ DOMAIN b = DOMAIN a \cup DOMAIN LoopbackPage /\ b["vlan"] = Vlan
  BY <1>1, <1>2, <1>3, <1>4, <1>5, <1>6, <1>8 DEF @@
<1> HIDE DEF b
<1>10. /\ DOMAIN c = DOMAIN b \cup DOMAIN BondingPage /\ c["vlan"] = Vlan /\ c["bond"] = Bond
  BY <1>1, <1>2, <1>3, <1>4, <1>5, <1>6, <1>8, <1>9 DEF @@
<1> HIDE DEF c
<1>11. /\ DOMAIN d = DOMAIN c \cup DOMAIN BridgePage /\ d["vlan"] = Vlan /\ d["bond"] = Bond
       /\ d["bridge"] = Bridge
  BY <1>1, <1>2, <1>3, <1>4, <1>5, <1>6, <1>8, <1>9, <1>10 DEF @@
<1> HIDE DEF d
<1> QED BY <1>1, <1>2, <1>3, <1>4, <1>5, <1>6, <1>7, <1>8, <1>9, <1>10, <1>11 DEF @@

\* The editors of the firewall pages.
LEMMA FirewallPagesAre ==
  /\ DOMAIN FirewallPages = {"alias", "policy", "zone"} /\ FirewallPages["alias"] = Alias
  /\ FirewallPages["policy"] = Policy /\ FirewallPages["zone"] = Zone
<1>1. /\ DOMAIN AliasesPage = {"alias"} /\ AliasesPage["alias"] = Alias
  BY DEF :>, @@, AliasesPage
<1>2. /\ DOMAIN PoliciesPage = {"policy"} /\ PoliciesPage["policy"] = Policy
  BY DEF :>, @@, PoliciesPage
<1>3. /\ DOMAIN ZonesPage = {"zone"} /\ ZonesPage["zone"] = Zone
  BY DEF :>, @@, ZonesPage
<1> DEFINE a == AliasesPage @@ PoliciesPage
<1>4. FirewallPages = a @@ ZonesPage
  BY DEF FirewallPages
<1>5. /\ DOMAIN a = DOMAIN AliasesPage \cup DOMAIN PoliciesPage /\ a["alias"] = Alias
      /\ a["policy"] = Policy
  BY <1>1, <1>2, <1>3 DEF @@
<1> HIDE DEF a
<1> QED BY <1>1, <1>2, <1>3, <1>4, <1>5 DEF @@

\* The editors of the service pages.
LEMMA ServicePagesAre ==
  /\ DOMAIN ServicePages = {"dhcp_relay", "dhcp_server", "dhcp_subnet", "dhcp_range", "dhcp_mapping", "dns_forwarding", "dns_domain"}
  /\ ServicePages["dhcp_relay"] = [Relay EXCEPT !.edits = FALSE]
  /\ ServicePages["dhcp_server"] = Server /\ ServicePages["dhcp_subnet"] = Subnet
  /\ ServicePages["dhcp_range"] = DhcpRange /\ ServicePages["dhcp_mapping"] = Mapping
<1>1. /\ DOMAIN DhcpRelayPage = {"dhcp_relay"}
      /\ DhcpRelayPage["dhcp_relay"] = [Relay EXCEPT !.edits = FALSE]
  BY DEF :>, @@, DhcpRelayPage
<1>2. /\ DOMAIN DhcpServerPage = {"dhcp_server", "dhcp_subnet", "dhcp_range", "dhcp_mapping"}
      /\ DhcpServerPage["dhcp_server"] = Server /\ DhcpServerPage["dhcp_subnet"] = Subnet
      /\ DhcpServerPage["dhcp_range"] = DhcpRange /\ DhcpServerPage["dhcp_mapping"] = Mapping
  BY DEF :>, @@, DhcpServerPage
<1>3. DOMAIN DnsForwardingPage = {"dns_forwarding", "dns_domain"}
  BY DEF :>, @@, DnsForwardingPage
<1> DEFINE a == DhcpRelayPage @@ DhcpServerPage
<1>4. ServicePages = a @@ DnsForwardingPage
  BY DEF ServicePages
<1>5. /\ DOMAIN a = DOMAIN DhcpRelayPage \cup DOMAIN DhcpServerPage
      /\ a["dhcp_relay"] = [Relay EXCEPT !.edits = FALSE] /\ a["dhcp_server"] = Server
      /\ a["dhcp_subnet"] = Subnet /\ a["dhcp_range"] = DhcpRange /\ a["dhcp_mapping"] = Mapping
  BY <1>1, <1>2, <1>3 DEF @@
<1> HIDE DEF a
<1> QED BY <1>1, <1>2, <1>3, <1>4, <1>5 DEF @@

\* The editors of the system pages.
LEMMA SystemPagesAre ==
  /\ DOMAIN SystemPages = {"general", "user", "ssh"} /\ SystemPages["general"] = General
  /\ SystemPages["user"] = User
<1>1. /\ DOMAIN GeneralPage = {"general"} /\ GeneralPage["general"] = General
  BY DEF :>, @@, GeneralPage
<1>2. /\ DOMAIN UsersPage = {"user"} /\ UsersPage["user"] = User
  BY DEF :>, @@, UsersPage
<1>3. DOMAIN SshPage = {"ssh"}
  BY DEF :>, @@, SshPage
<1> DEFINE a == GeneralPage @@ UsersPage
<1>4. SystemPages = a @@ SshPage
  BY DEF SystemPages
<1>5. /\ DOMAIN a = DOMAIN GeneralPage \cup DOMAIN UsersPage /\ a["general"] = General /\ a["user"] = User
  BY <1>1, <1>2, <1>3 DEF @@
<1> HIDE DEF a
<1> QED BY <1>1, <1>2, <1>3, <1>4, <1>5 DEF @@

\* The editors of the VPN pages.
LEMMA VpnPagesAre ==
  /\ DOMAIN VpnPages = {"ipsec_ike-group", "ipsec_esp-group", "ipsec_peer", "ipsec_interfaces", "openvpn", "wireguard", "l2tp", "l2tp_user", "l2tp_pool", "l2tp_radius"}
  /\ VpnPages["ipsec_peer"] = IpsecPeer /\ VpnPages["openvpn"] = Openvpn
<1>1. /\ DOMAIN IpsecPage = {"ipsec_ike-group", "ipsec_esp-group", "ipsec_peer", "ipsec_interfaces"}
      /\ IpsecPage["ipsec_peer"] = IpsecPeer
  BY DEF :>, @@, IpsecPage
<1>2. /\ DOMAIN OpenvpnPage = {"openvpn"} /\ OpenvpnPage["openvpn"] = Openvpn
  BY DEF :>, @@, OpenvpnPage
<1>3. DOMAIN WireguardPage = {"wireguard"}
  BY DEF :>, @@, WireguardPage
<1>4. DOMAIN L2tpPage = {"l2tp", "l2tp_user", "l2tp_pool", "l2tp_radius"}
  BY DEF :>, @@, L2tpPage
<1> DEFINE a == IpsecPage @@ OpenvpnPage
           b == a @@ WireguardPage
<1>5. VpnPages = b @@ L2tpPage
  BY DEF VpnPages
<1>6. /\ DOMAIN a = DOMAIN IpsecPage \cup DOMAIN OpenvpnPage /\ a["ipsec_peer"] = IpsecPeer
      /\ a["openvpn"] = Openvpn
  BY <1>1, <1>2, <1>3, <1>4 DEF @@
<1> HIDE DEF a
<1>7. /\ DOMAIN b = DOMAIN a \cup DOMAIN WireguardPage /\ b["ipsec_peer"] = IpsecPeer
      /\ b["openvpn"] = Openvpn
  BY <1>1, <1>2, <1>3, <1>4, <1>6 DEF @@
<1> HIDE DEF b
<1> QED BY <1>1, <1>2, <1>3, <1>4, <1>5, <1>6, <1>7 DEF @@

\* The editors of the NAT44 page.
LEMMA Nat44PageIs ==
  /\ DOMAIN Nat44Page = {"nat_source", "nat_destination", "nat_static"}
  /\ Nat44Page["nat_source"] = NatRule /\ Nat44Page["nat_destination"] = NatRule
  /\ Nat44Page["nat_static"] = StaticNat
BY DEF :>, @@, Nat44Page

\* The editors that have code of their own, found among all the pages.
LEMMA AllPagesAre ==
  /\ AllPages["ospf_area"] = OspfArea /\ AllPages["static_route"] = StaticRoute
  /\ AllPages["config_sync"] = ConfigSync /\ AllPages["vlan"] = Vlan /\ AllPages["bond"] = Bond
  /\ AllPages["bridge"] = Bridge /\ AllPages["vxlan"] = Vxlan /\ AllPages["nat_source"] = NatRule
  /\ AllPages["nat_destination"] = NatRule /\ AllPages["nat_static"] = StaticNat
  /\ AllPages["alias"] = Alias /\ AllPages["policy"] = Policy /\ AllPages["zone"] = Zone
  /\ AllPages["dhcp_relay"] = [Relay EXCEPT !.edits = FALSE] /\ AllPages["dhcp_server"] = Server
  /\ AllPages["dhcp_subnet"] = Subnet /\ AllPages["dhcp_range"] = DhcpRange
  /\ AllPages["dhcp_mapping"] = Mapping /\ AllPages["general"] = General /\ AllPages["user"] = User
  /\ AllPages["ipsec_peer"] = IpsecPeer /\ AllPages["openvpn"] = Openvpn
<1> DEFINE a == RoutingPages @@ HaPages
           b == a @@ InterfacePages
           c == b @@ Nat44Page
           d == c @@ FirewallPages
           e == d @@ ServicePages
           f == e @@ SystemPages
<1>1. AllPages = f @@ VpnPages
  BY DEF AllPages
<1>2. /\ DOMAIN a = DOMAIN RoutingPages \cup DOMAIN HaPages /\ a["ospf_area"] = OspfArea
      /\ a["static_route"] = StaticRoute /\ a["config_sync"] = ConfigSync
  BY RoutingPagesAre, HaPagesAre, InterfacePagesAre, Nat44PageIs, FirewallPagesAre, ServicePagesAre, SystemPagesAre, VpnPagesAre DEF @@
<1> HIDE DEF a
<1>3. /\ DOMAIN b = DOMAIN a \cup DOMAIN InterfacePages /\ b["ospf_area"] = OspfArea
      /\ b["static_route"] = StaticRoute /\ b["config_sync"] = ConfigSync /\ b["vlan"] = Vlan
      /\ b["bond"] = Bond /\ b["bridge"] = Bridge /\ b["vxlan"] = Vxlan
  BY RoutingPagesAre, HaPagesAre, InterfacePagesAre, Nat44PageIs, FirewallPagesAre, ServicePagesAre, SystemPagesAre, VpnPagesAre, <1>2 DEF @@
<1> HIDE DEF b
<1>4. /\ DOMAIN c = DOMAIN b \cup DOMAIN Nat44Page /\ c["ospf_area"] = OspfArea
      /\ c["static_route"] = StaticRoute /\ c["config_sync"] = ConfigSync /\ c["vlan"] = Vlan
      /\ c["bond"] = Bond /\ c["bridge"] = Bridge /\ c["vxlan"] = Vxlan /\ c["nat_source"] = NatRule
      /\ c["nat_destination"] = NatRule /\ c["nat_static"] = StaticNat
  BY RoutingPagesAre, HaPagesAre, InterfacePagesAre, Nat44PageIs, FirewallPagesAre, ServicePagesAre, SystemPagesAre, VpnPagesAre, <1>2, <1>3 DEF @@
<1> HIDE DEF c
<1>5. /\ DOMAIN d = DOMAIN c \cup DOMAIN FirewallPages /\ d["ospf_area"] = OspfArea
      /\ d["static_route"] = StaticRoute /\ d["config_sync"] = ConfigSync /\ d["vlan"] = Vlan
      /\ d["bond"] = Bond /\ d["bridge"] = Bridge /\ d["vxlan"] = Vxlan /\ d["nat_source"] = NatRule
      /\ d["nat_destination"] = NatRule /\ d["nat_static"] = StaticNat /\ d["alias"] = Alias
      /\ d["policy"] = Policy /\ d["zone"] = Zone
  BY RoutingPagesAre, HaPagesAre, InterfacePagesAre, Nat44PageIs, FirewallPagesAre, ServicePagesAre, SystemPagesAre, VpnPagesAre, <1>2, <1>3, <1>4 DEF @@
<1> HIDE DEF d
<1>6. /\ DOMAIN e = DOMAIN d \cup DOMAIN ServicePages /\ e["ospf_area"] = OspfArea
      /\ e["static_route"] = StaticRoute /\ e["config_sync"] = ConfigSync /\ e["vlan"] = Vlan
      /\ e["bond"] = Bond /\ e["bridge"] = Bridge /\ e["vxlan"] = Vxlan /\ e["nat_source"] = NatRule
      /\ e["nat_destination"] = NatRule /\ e["nat_static"] = StaticNat /\ e["alias"] = Alias
      /\ e["policy"] = Policy /\ e["zone"] = Zone /\ e["dhcp_relay"] = [Relay EXCEPT !.edits = FALSE]
      /\ e["dhcp_server"] = Server /\ e["dhcp_subnet"] = Subnet /\ e["dhcp_range"] = DhcpRange
      /\ e["dhcp_mapping"] = Mapping
  BY RoutingPagesAre, HaPagesAre, InterfacePagesAre, Nat44PageIs, FirewallPagesAre, ServicePagesAre, SystemPagesAre, VpnPagesAre, <1>2, <1>3, <1>4, <1>5 DEF @@
<1> HIDE DEF e
<1>7. /\ DOMAIN f = DOMAIN e \cup DOMAIN SystemPages /\ f["ospf_area"] = OspfArea
      /\ f["static_route"] = StaticRoute /\ f["config_sync"] = ConfigSync /\ f["vlan"] = Vlan
      /\ f["bond"] = Bond /\ f["bridge"] = Bridge /\ f["vxlan"] = Vxlan /\ f["nat_source"] = NatRule
      /\ f["nat_destination"] = NatRule /\ f["nat_static"] = StaticNat /\ f["alias"] = Alias
      /\ f["policy"] = Policy /\ f["zone"] = Zone /\ f["dhcp_relay"] = [Relay EXCEPT !.edits = FALSE]
      /\ f["dhcp_server"] = Server /\ f["dhcp_subnet"] = Subnet /\ f["dhcp_range"] = DhcpRange
      /\ f["dhcp_mapping"] = Mapping /\ f["general"] = General /\ f["user"] = User
  BY RoutingPagesAre, HaPagesAre, InterfacePagesAre, Nat44PageIs, FirewallPagesAre, ServicePagesAre, SystemPagesAre, VpnPagesAre, <1>2, <1>3, <1>4, <1>5, <1>6 DEF @@
<1> HIDE DEF f
<1> QED BY RoutingPagesAre, HaPagesAre, InterfacePagesAre, Nat44PageIs, FirewallPagesAre, ServicePagesAre, SystemPagesAre, VpnPagesAre, <1>1, <1>2, <1>3, <1>4, <1>5, <1>6, <1>7 DEF @@

\* What the editors that are not made of schemas alone are.
LEMMA EditorIs ==
  ASSUME NEW e \in DOMAIN Ed
  PROVE  /\ e = "ospf_area" => Ed[e] = OspfArea
         /\ e = "static_route" => Ed[e] = StaticRoute
         /\ e = "config_sync" => Ed[e] = ConfigSync
         /\ e = "vlan" => Ed[e] = Vlan
         /\ e = "bond" => Ed[e] = Bond
         /\ e = "bridge" => Ed[e] = Bridge
         /\ e = "vxlan" => Ed[e] = Vxlan
         /\ e = "nat_source" => Ed[e] = NatRule
         /\ e = "nat_destination" => Ed[e] = NatRule
         /\ e = "nat_static" => Ed[e] = StaticNat
         /\ e = "alias" => Ed[e] = Alias
         /\ e = "policy" => Ed[e] = Policy
         /\ e = "zone" => Ed[e] = Zone
         /\ e = "dhcp_relay" => Ed[e] = [Relay EXCEPT !.edits = FALSE]
         /\ e = "dhcp_server" => Ed[e] = Server
         /\ e = "dhcp_subnet" => Ed[e] = Subnet
         /\ e = "dhcp_range" => Ed[e] = DhcpRange
         /\ e = "dhcp_mapping" => Ed[e] = Mapping
         /\ e = "general" => Ed[e] = General
         /\ e = "user" => Ed[e] = User
         /\ e = "ipsec_peer" => Ed[e] = IpsecPeer
         /\ e = "openvpn" => Ed[e] = Openvpn
BY AllPagesAre, EdAssumption

\* What the assumptions say of one editor.
LEMMA TypeOfEditor ==
  ASSUME NEW e \in DOMAIN Ed
  PROVE  /\ IsSchema(Ed[e].read) /\ IsSchema(Ed[e].write) /\ Part(Ed[e].write, Ed[e].read)
         /\ Ed[e].at \in Text /\ IsKey(e, Key(e))
BY SchemasAssumption, InputsAssumption

-----------------------------------------------------------------------------
(* Paths and batches                                                       *)

\* What is above a path, from its object down, is a path.
LEMMA PathAbove ==
  ASSUME NEW p \in Seq(Text), NEW q, IsPath(q), Len(p) >= 2, Under(p, q)
  PROVE  IsPath(p)
<1>1. q \in Seq(Text) /\ Len(p) \in Nat /\ Len(q) \in Nat
  BY DEF IsPath
<1>2. Len(p) <= Len(q) /\ \A i \in 1..Len(p) : p[i] = q[i]
  BY <1>1, UnderPrefix
<1>3. ASSUME NEW i \in 3..Len(p), p[i] = None PROVE p[i - 1] \in Blankable
  <2>1. i \in 3..Len(q) /\ i \in 1..Len(p) /\ i - 1 \in 1..Len(p)
    BY <1>1, <1>2
  <2> QED BY <1>2, <1>3, <2>1 DEF IsPath
<1> QED BY <1>1, <1>3 DEF IsPath

\* A path with one more element, or two: what it has at each place.
LEMMA Endings ==
  ASSUME NEW V, NEW b \in Seq(V), NEW f \in V, NEW v \in V
  PROVE  /\ \A i \in 1..Len(b) : (b \o <<f>>)[i] = b[i] /\ (b \o <<f, v>>)[i] = b[i]
         /\ (b \o <<f>>)[Len(b) + 1] = f /\ (b \o <<f, v>>)[Len(b) + 1] = f /\ (b \o <<f, v>>)[Len(b) + 2] = v
<1>1. /\ b \o <<f>> \in Seq(V) /\ Len(b \o <<f>>) = Len(b) + 1
      /\ b \o <<f, v>> \in Seq(V) /\ Len(b \o <<f, v>>) = Len(b) + 2
      /\ Len(b) \in Nat
  OBVIOUS
<1>2. \A i \in 1..Len(b) : (b \o <<f>>)[i] = b[i]
  OBVIOUS
<1>3. \A i \in 1..Len(b) : (b \o <<f, v>>)[i] = b[i]
  OBVIOUS
<1>4. (b \o <<f>>)[Len(b) + 1] = f
  OBVIOUS
<1>5. (b \o <<f, v>>)[Len(b) + 1] = f /\ (b \o <<f, v>>)[Len(b) + 2] = v
  OBVIOUS
<1> QED BY <1>2, <1>3, <1>4, <1>5

\* A node one or two steps below a path is a path.
LEMMA PathBelow ==
  ASSUME NEW b, IsPath(b), NEW f \in Word, NEW v \in Text
  PROVE  /\ IsPath(b \o <<f>>)
         /\ v # None \/ f \in Blankable => IsPath(b \o <<f, v>>)
<1> DEFINE p == b \o <<f>>
           q == b \o <<f, v>>
<1>1. b \in Seq(Text) /\ Len(b) \in Nat /\ Len(b) >= 2 /\ f \in Text /\ f # None
  BY DEF IsPath, Word
<1>2. p \in Seq(Text) /\ q \in Seq(Text) /\ Len(p) = Len(b) + 1 /\ Len(q) = Len(b) + 2
  <2>1. /\ b \o <<f>> \in Seq(Text) /\ Len(b \o <<f>>) = Len(b) + 1
        /\ b \o <<f, v>> \in Seq(Text) /\ Len(b \o <<f, v>>) = Len(b) + 2
    BY <1>1, Below
  <2> QED BY <2>1
<1>3. /\ \A i \in 1..Len(b) : p[i] = b[i] /\ q[i] = b[i]
      /\ p[Len(b) + 1] = f /\ q[Len(b) + 1] = f /\ q[Len(b) + 2] = v
  BY <1>1, Endings
<1> HIDE DEF p, q
<1>4. \A i \in 3..Len(b) : b[i] = None => b[i - 1] \in Blankable
  BY DEF IsPath
<1>5. ASSUME NEW i \in 3..Len(p), p[i] = None PROVE p[i - 1] \in Blankable
  <2>1. i # Len(b) + 1
    BY <1>1, <1>3, <1>5
  <2>2. i \in 3..Len(b) /\ i \in 1..Len(b) /\ i - 1 \in 1..Len(b)
    BY <1>1, <1>2, <2>1
  <2> QED BY <1>3, <1>4, <1>5, <2>2
<1>6. ASSUME v # None \/ f \in Blankable, NEW i \in 3..Len(q), q[i] = None
      PROVE  q[i - 1] \in Blankable
  <2>1. CASE i \in 3..Len(b)
    <3>1. i \in 1..Len(b) /\ i - 1 \in 1..Len(b)
      BY <1>1, <2>1
    <3> QED BY <1>3, <1>4, <1>6, <2>1, <3>1
  <2>2. CASE i = Len(b) + 1
    BY <1>1, <1>3, <1>6, <2>2
  <2>3. CASE i = Len(b) + 2
    <3>1. i - 1 = Len(b) + 1
      BY <1>1, <2>3
    <3> QED BY <1>3, <1>6, <2>3, <3>1
  <2> QED BY <1>1, <1>2, <2>1, <2>2, <2>3
<1>7. Len(p) >= 2 /\ Len(q) >= 2
  BY <1>1, <1>2
<1> QED BY <1>2, <1>5, <1>6, <1>7 DEF IsPath, p, q

\* A batch after which a configuration is one again.
IsGood(c) ==
  /\ IsBatch(c, Text) /\ c.late \subseteq Seq(Text)
  /\ \A p \in c.put \cup c.add : IsPath(p)

\* A good batch takes a configuration to a configuration.
LEMMA GoodCommit ==
  ASSUME NEW t, IsConfig(t), NEW c, IsGood(c)
  PROVE  IsConfig(Commit(t, c))
<1>1. t \in SUBSET Seq(Text) /\ Rooted(t)
  BY DEF IsConfig, IsPath
<1>2. Rooted(Commit(t, c))
  BY <1>1, CommitRooted DEF IsGood
<1>3. ASSUME NEW q \in Commit(t, c) PROVE IsPath(q)
  <2>1. q \in t \/ \E p \in c.put \cup c.add : q \in Nodes(p)
    BY DEF Commit
  <2>2. ASSUME NEW p \in c.put \cup c.add, q \in Nodes(p) PROVE IsPath(q)
    <3>1. IsPath(p) /\ p \in Seq(Text)
      BY DEF IsGood, IsBatch
    <3>2. q \in Seq(Text) /\ Len(q) >= 2 /\ Under(q, p)
      BY <2>2, <3>1, NodesAbove
    <3> QED BY <3>1, <3>2, PathAbove
  <2> QED BY <2>1, <2>2 DEF IsConfig
<1> QED BY <1>2, <1>3 DEF IsConfig

\* Batches that are good are good together,
LEMMA GoodBothOf ==
  ASSUME NEW S, \A c \in S : IsGood(c)
  PROVE  IsGood(BothOf(S))
<1>1. /\ \A p \in BothOf(S).del : \E c \in S : p \in c.del
      /\ \A p \in BothOf(S).put : \E c \in S : p \in c.put
      /\ \A p \in BothOf(S).add : \E c \in S : p \in c.add
      /\ \A p \in BothOf(S).late : \E c \in S : p \in c.late
  BY BothParts
<1> HIDE DEF BothOf
<1> QED BY <1>1 DEF IsGood, IsBatch

\* two of them too.
LEMMA GoodBoth ==
  ASSUME NEW c, IsGood(c), NEW d, IsGood(d)
  PROVE  IsGood(Both(c, d))
BY GoodBothOf DEF Both

\* What is in each kind of batch.
LEMMA BatchFields ==
  ASSUME NEW D, NEW P, NEW A
  PROVE  /\ NoCommands.del = {} /\ NoCommands.put = {} /\ NoCommands.add = {} /\ NoCommands.late = {}
         /\ Deletes(D).del = D /\ Deletes(D).put = {} /\ Deletes(D).add = {} /\ Deletes(D).late = {}
         /\ Puts(P).del = {} /\ Puts(P).put = P /\ Puts(P).add = {} /\ Puts(P).late = {}
         /\ Adds(A).del = {} /\ Adds(A).put = {} /\ Adds(A).add = A /\ Adds(A).late = {}
         /\ LateDeletes(D).del = {} /\ LateDeletes(D).put = {} /\ LateDeletes(D).add = {} /\ LateDeletes(D).late = D
BY DEF NoCommands, Deletes, Puts, Adds, LateDeletes

\* Good batches: the empty one,
LEMMA GoodNothing == IsGood(NoCommands)
BY BatchFields DEF IsGood, IsBatch
\* deletes of anything,
LEMMA GoodDeletes == ASSUME NEW D \in SUBSET Seq(Text) PROVE IsGood(Deletes(D)) /\ IsGood(LateDeletes(D))
BY BatchFields DEF IsGood, IsBatch
\* sets of a value at a path,
LEMMA GoodPuts == ASSUME NEW P, \A p \in P : IsPath(p) PROVE IsGood(Puts(P))
BY BatchFields DEF IsGood, IsBatch, IsPath
\* sets of a bare node at a path,
LEMMA GoodAdds == ASSUME NEW A, \A p \in A : IsPath(p) PROVE IsGood(Adds(A))
BY BatchFields DEF IsGood, IsBatch, IsPath
\* and all of these together.
LEMMA GoodBatch ==
  ASSUME NEW D \in SUBSET Seq(Text), NEW P, \A p \in P : IsPath(p), NEW A, \A p \in A : IsPath(p)
  PROVE  IsGood(Batch(D, P, A))
<1>1. P \subseteq Seq(Text) /\ A \subseteq Seq(Text)
  BY DEF IsPath
<1> QED BY <1>1, BatchParts DEF IsGood, IsBatch

-----------------------------------------------------------------------------
(* Rows of a schema                                                        *)

\* A path is a sequence over Text, of a section and an object at least.
LEMMA TextOf ==
  ASSUME NEW b, IsPath(b)
  PROVE  b \in Seq(Text) /\ Len(b) \in Nat /\ Len(b) >= 2 /\ b # <<>>
BY DEF IsPath

\* The empty string is text, but no word.
LEMMA NoneText == None \in Text /\ None \notin Word /\ Word \subseteq Text
<1>1. None \in Text
  BY TextAssumption DEF Keywords
<1> QED BY <1>1 DEF Word

\* A configuration is a set of sequences over Text, and rooted.
LEMMA ConfigOver ==
  ASSUME NEW t, IsConfig(t)
  PROVE  t \in SUBSET Seq(Text) /\ Rooted(t)
BY DEF IsConfig, IsPath

\* Only what may be blank has a child of no name.
LEMMA KidsTyped ==
  ASSUME NEW t, IsConfig(t), NEW b \in Seq(Text), Len(b) >= 2, NEW f \in Text
  PROVE  /\ Kids(At(t, b), f) \subseteq Text
         /\ f \notin Blankable => Kids(At(t, b), f) \subseteq Word
<1>1. /\ Kids(At(t, b), f) \subseteq Text
      /\ \A v \in Text : v \in Kids(At(t, b), f) <=> b \o <<f, v>> \in t
  BY ConfigOver, ReadBelow
<1>2. ASSUME f \notin Blankable, None \in Kids(At(t, b), f) PROVE FALSE
  <2> DEFINE q == b \o <<f, None>>
  <2>1. q \in t
    BY <1>1, <1>2, NoneText
  <2>2. IsPath(q)
    BY <2>1 DEF IsConfig
  <2>3. q[Len(b) + 1] = f /\ q[Len(b) + 2] = None
    BY NoneText, Endings
  <2>4. Len(q) = Len(b) + 2 /\ Len(b) \in Nat
    BY NoneText, Below
  <2> HIDE DEF q
  <2>5. Len(b) + 2 \in 3..Len(q) /\ (Len(b) + 2) - 1 = Len(b) + 1
    BY <2>4
  <2>6. q[(Len(b) + 2) - 1] \in Blankable
    BY <2>2, <2>3, <2>5 DEF IsPath
  <2> QED BY <1>2, <2>3, <2>5, <2>6
<1> QED BY <1>1, <1>2 DEF Word

\* A leaf read is one of the node's children, or the value it has when absent.
LEMMA StrTyped ==
  ASSUME NEW c, NEW f, NEW S, Kids(c, f) \subseteq S, NEW v \in S
  PROVE  Str(c, f, v) \in S
BY DEF Str

\* What each kind of field of a flat row is read as.
LEMMA FlatRowIs ==
  ASSUME NEW c, NEW s
  PROVE  /\ FlatRow(c, s) = [f \in Flat(s) |-> FlatRow(c, s)[f]]
         /\ FlatApart(s) =>
              /\ \A f \in s.leaf : FlatRow(c, s)[f] = Str(c, f, None)
              /\ \A f \in DOMAIN s.pick : FlatRow(c, s)[f] = Str(c, f, s.pick[f])
              /\ \A f \in s.secret : FlatRow(c, s)[f] = None
              /\ \A f \in s.multi : FlatRow(c, s)[f] = Kids(c, f)
              /\ \A f \in s.flag : FlatRow(c, s)[f] = (<<f>> \in c)
<1> DEFINE E(f) == CASE f \in s.leaf -> Str(c, f, None)
                      [] f \in DOMAIN s.pick -> Str(c, f, s.pick[f])
                      [] f \in s.secret -> None
                      [] f \in s.multi -> Kids(c, f)
                      [] f \in s.flag -> <<f>> \in c
           r == FlatRow(c, s)
<1>1. r = [f \in Flat(s) |-> E(f)]
  BY DEF FlatRow
<1>2. ASSUME FlatApart(s), NEW f \in s.leaf PROVE E(f) = Str(c, f, None) /\ f \in Flat(s)
  <2>1. f \notin DOMAIN s.pick /\ f \notin s.secret /\ f \notin s.multi /\ f \notin s.flag
    BY <1>2 DEF FlatApart
  <2> QED BY <2>1 DEF Flat
<1>3. ASSUME FlatApart(s), NEW f \in DOMAIN s.pick PROVE E(f) = Str(c, f, s.pick[f]) /\ f \in Flat(s)
  <2>1. f \notin s.leaf /\ f \notin s.secret /\ f \notin s.multi /\ f \notin s.flag
    BY <1>3 DEF FlatApart
  <2> QED BY <2>1 DEF Flat
<1>4. ASSUME FlatApart(s), NEW f \in s.secret PROVE E(f) = None /\ f \in Flat(s)
  <2>1. f \notin s.leaf /\ f \notin DOMAIN s.pick /\ f \notin s.multi /\ f \notin s.flag
    BY <1>4 DEF FlatApart
  <2> QED BY <2>1 DEF Flat
<1>5. ASSUME FlatApart(s), NEW f \in s.multi PROVE E(f) = Kids(c, f) /\ f \in Flat(s)
  <2>1. f \notin s.leaf /\ f \notin DOMAIN s.pick /\ f \notin s.secret /\ f \notin s.flag
    BY <1>5 DEF FlatApart
  <2> QED BY <2>1 DEF Flat
<1>6. ASSUME FlatApart(s), NEW f \in s.flag PROVE E(f) = (<<f>> \in c) /\ f \in Flat(s)
  <2>1. f \notin s.leaf /\ f \notin DOMAIN s.pick /\ f \notin s.secret /\ f \notin s.multi
    BY <1>6 DEF FlatApart
  <2> QED BY <2>1 DEF Flat
<1> HIDE DEF E, r
<1>7. r = [f \in Flat(s) |-> r[f]]
  BY <1>1
<1>8. \A f \in Flat(s) : r[f] = E(f)
  BY <1>1
<1> QED BY <1>2, <1>3, <1>4, <1>5, <1>6, <1>7, <1>8 DEF r

\* Every flat row read from a configuration has fields of their kinds.
LEMMA FlatRowTyped ==
  ASSUME NEW t, IsConfig(t), NEW b \in Seq(Text), Len(b) >= 2, NEW s, IsFlatSchema(s)
  PROVE  /\ IsFlatRow(s, FlatRow(At(t, b), s))
         /\ FlatRow(At(t, b), s) = [f \in Flat(s) |-> FlatRow(At(t, b), s)[f]]
         /\ \A f \in s.secret : FlatRow(At(t, b), s)[f] = None
<1> DEFINE c == At(t, b)
           r == FlatRow(c, s)
<1>1. FlatApart(s) /\ Flat(s) \subseteq Word /\ Flat(s) \subseteq Text
  BY NoneText DEF IsFlatSchema
<1>2. \A f \in Flat(s) : Kids(c, f) \subseteq Text /\ (f \notin Blankable => Kids(c, f) \subseteq Word)
  BY <1>1, KidsTyped
<1> HIDE DEF c
<1>10. /\ r = [f \in Flat(s) |-> r[f]]
       /\ \A f \in s.leaf : r[f] = Str(c, f, None)
       /\ \A f \in DOMAIN s.pick : r[f] = Str(c, f, s.pick[f])
       /\ \A f \in s.secret : r[f] = None
       /\ \A f \in s.multi : r[f] = Kids(c, f)
       /\ \A f \in s.flag : r[f] = (<<f>> \in c)
  BY <1>1, FlatRowIs
<1> HIDE DEF r
<1>3. ASSUME NEW f \in s.leaf PROVE r[f] \in Text
  <2>1. Kids(c, f) \subseteq Text
    BY <1>2 DEF Flat
  <2>2. Str(c, f, None) \in Text
    BY <2>1, NoneText, StrTyped
  <2> QED BY <1>10, <2>2
<1>5. ASSUME NEW f \in DOMAIN s.pick PROVE r[f] \in Word
  <2>1. s.pick[f] \in Word /\ f \notin Blankable /\ f \in Flat(s)
    BY DEF IsFlatSchema, Flat
  <2>2. Str(c, f, s.pick[f]) \in Word
    BY <1>2, <2>1, StrTyped
  <2> QED BY <1>10, <2>2
<1>6. ASSUME NEW f \in s.multi PROVE r[f] \subseteq Word
  <2>1. f \notin Blankable /\ f \in Flat(s)
    BY DEF IsFlatSchema, Flat
  <2> QED BY <1>2, <1>10, <2>1
<1>7. ASSUME NEW f \in s.flag PROVE r[f] \in BOOLEAN
  <2> DEFINE P == <<f>> \in c
  <2>1. r[f] = P
    BY <1>10
  <2>2. P \in BOOLEAN
    OBVIOUS
  <2> HIDE DEF P
  <2> QED BY <2>1, <2>2
<1>9. IsFlatRow(s, r)
  BY <1>3, <1>5, <1>6, <1>7, <1>10, NoneText DEF IsFlatRow
<1> QED BY <1>9, <1>10 DEF r, c

\* A row of a schema, and of nothing else.
IsTagKey(s, n, k) == k \in IF n \in DOMAIN s.tags THEN Word ELSE {None}
\* The fields of schema s in a row, its sub-nodes' fields among them, of their kinds.
IsBody(s, r) ==
  /\ IsFlatRow(s, r)
  /\ \A n \in Subs(s) : \A k \in DOMAIN r[n] : IsTagKey(s, n, k) /\ IsFlatRow(SubSchema(s, n), r[n][k])
\* Nor has a sub-node of the row any other field.
IsWhole(s, r) ==
  /\ IsBody(s, r)
  /\ \A n \in Subs(s) : /\ r[n] = [k \in DOMAIN r[n] |-> r[n][k]]
                        /\ \A k \in DOMAIN r[n] : r[n][k] = [f \in Flat(SubSchema(s, n)) |-> r[n][k][f]]

\* A schema of the console is one of the kit's, over Text.
LEMMA SchemaIsOver ==
  ASSUME NEW s, IsSchema(s)
  PROVE  SchemaOver(s, Text) /\ IsFlatSchema(s) /\ FlatApart(s)
<1>1. IsFlatSchema(s) /\ Apart(s) /\ FlatApart(s)
  BY DEF IsSchema, Apart
<1>2. Flat(s) \subseteq Text /\ Subs(s) \subseteq Text
  BY NoneText DEF IsSchema, IsFlatSchema
<1>3. \A n \in Subs(s) : Flat(SubSchema(s, n)) \subseteq Text
  BY NoneText DEF IsSchema, IsFlatSchema
<1> QED BY <1>1, <1>2, <1>3 DEF SchemaOver, Fields, Subs

\* A sub-node that is in a configuration has a key of its kind.
LEMMA KeyedTyped ==
  ASSUME NEW t, IsConfig(t), NEW b \in Seq(Text), Len(b) >= 2, NEW s, IsSchema(s), NEW n \in Subs(s),
         NEW k, Keyed(s, n, k, Text), SubBase(b, s, n, k) \in t
  PROVE  IsTagKey(s, n, k)
<1>1. n \in Word /\ n \in Text
  BY NoneText DEF IsSchema
<1>2. CASE n \in DOMAIN s.tags
  <2>1. n \notin Blankable /\ k \in Text /\ b \o <<n, k>> \in t
    BY <1>2 DEF IsSchema, Keyed, SubBase
  <2>2. k \in Kids(At(t, b), n)
    BY <1>1, <2>1, ConfigOver, ReadBelow
  <2> QED BY <1>1, <1>2, <2>1, <2>2, KidsTyped DEF IsTagKey
<1>3. CASE n \notin DOMAIN s.tags
  BY <1>3 DEF Keyed, Subs, IsTagKey
<1> QED BY <1>2, <1>3

\* A sub-node is at a path.
LEMMA SubBaseIsPath ==
  ASSUME NEW b, IsPath(b), NEW s, IsSchema(s), NEW n \in Subs(s), NEW k, IsTagKey(s, n, k)
  PROVE  IsPath(SubBase(b, s, n, k))
<1>1. n \in Word
  BY DEF IsSchema
<1>2. k \in Text /\ (n \in DOMAIN s.tags => k # None)
  BY NoneText DEF IsTagKey
<1> QED BY <1>1, <1>2, PathBelow DEF SubBase

\* A typed row is a row of the kit, over Text.
LEMMA BodyIsOver ==
  ASSUME NEW s, IsSchema(s), NEW r, IsBody(s, r)
  PROVE  RowOver(s, r, Text) /\ LiveOver(s, r, Text)
<1>1. \A z, x : IsFlatRow(z, x) => FlatTyped(z, x, Text) /\ \A f \in z.multi : x[f] \subseteq Text
  BY NoneText DEF IsFlatRow, FlatTyped, Word
<1>2. ASSUME NEW n \in Subs(s), NEW k \in DOMAIN r[n] PROVE Keyed(s, n, k, Text)
  BY NoneText DEF IsBody, IsTagKey, Keyed, IsSchema, Apart
<1> QED BY <1>1, <1>2 DEF IsBody, RowOver, LiveOver

\* Every row read from a configuration has all its fields, each of its kind, and shows no secret.
LEMMA RowTyped ==
  ASSUME NEW t, IsConfig(t), NEW b \in Seq(Text), Len(b) >= 2, NEW s, IsSchema(s)
  PROVE  /\ Row(t, b, s) = [f \in Fields(s) |-> Row(t, b, s)[f]]
         /\ IsWhole(s, Row(t, b, s))
         /\ NoSecrets(s, Row(t, b, s))
<1> DEFINE r == Row(t, b, s)
           c == At(t, b)
           Keys(n) == IF n \in DOMAIN s.tags THEN Kids(c, n) ELSE {k \in {None} : <<n>> \in c}
<1>1. r = [f \in Fields(s) |->
        IF f \in Flat(s) THEN FlatRow(c, s)[f]
        ELSE [k \in Keys(f) |-> FlatRow(At(c, SubBase(<<>>, s, f, k)), SubSchema(s, f))]]
  BY DEF Row
<1>2. /\ HasFlat(t, b, s, r) /\ SameSubs(Text, t, b, s, r) /\ SubsHaveFlat(t, b, s, r)
  BY SchemaIsOver, ConfigOver, NoneText, RowParts
<1>3. ASSUME NEW n \in Subs(s)
      PROVE  r[n] = [k \in Keys(n) |-> FlatRow(At(c, SubBase(<<>>, s, n, k)), SubSchema(s, n))]
  <2>1. n \in Fields(s) /\ n \notin Flat(s)
    BY SchemaIsOver, SubSchemas DEF Fields, Subs
  <2> HIDE DEF r, c, Keys
  <2> QED BY <1>1, <2>1
<1>4. ASSUME NEW n \in Subs(s), NEW k \in DOMAIN r[n]
      PROVE  r[n][k] = [f \in Flat(SubSchema(s, n)) |-> r[n][k][f]]
  <2> DEFINE S == SubSchema(s, n)
             C == At(c, SubBase(<<>>, s, n, k))
  <2>1. r[n][k] = FlatRow(C, S)
    <3> HIDE DEF r, c, Keys
    <3> QED BY <1>3
  <2>2. FlatRow(C, S) = [f \in Flat(S) |-> FlatRow(C, S)[f]]
    BY FlatRowIs
  <2> HIDE DEF C, S, r
  <2> QED BY <2>1, <2>2 DEF S
<1>5. r = [f \in Fields(s) |-> r[f]]
  BY DEF Row
<1>6. IsFlatRow(s, r)
  <2>1. \A f \in Flat(s) : r[f] = FlatRow(c, s)[f]
    BY <1>2 DEF HasFlat
  <2>2. IsFlatRow(s, FlatRow(c, s))
    BY SchemaIsOver, FlatRowTyped
  <2> HIDE DEF r, c
  <2> QED BY <2>1, <2>2 DEF IsFlatRow, Flat
<1>7. ASSUME NEW n \in Subs(s), NEW k \in DOMAIN r[n]
      PROVE  /\ IsTagKey(s, n, k) /\ IsFlatRow(SubSchema(s, n), r[n][k])
             /\ \A f \in SubSchema(s, n).secret : r[n][k][f] = None
  <2> DEFINE S == SubSchema(s, n)
             x == SubBase(b, s, n, k)
  <2>1. Keyed(s, n, k, Text) /\ x \in t
    BY <1>2 DEF SameSubs
  <2>2. IsTagKey(s, n, k)
    BY <2>1, KeyedTyped
  <2>3. x \in Seq(Text) /\ Len(x) >= 2
    <3>1. IsPath(x)
      BY <2>1 DEF IsConfig
    <3> QED BY <3>1, TextOf
  <2>4. IsFlatSchema(S)
    BY DEF IsSchema
  <2>5. \A f \in Flat(S) : r[n][k][f] = FlatRow(At(t, x), S)[f]
    BY <1>2 DEF SubsHaveFlat, HasFlat
  <2>6. IsFlatRow(S, FlatRow(At(t, x), S)) /\ \A f \in S.secret : FlatRow(At(t, x), S)[f] = None
    <3> HIDE DEF x, S
    <3> QED BY <2>3, <2>4, FlatRowTyped
  <2> HIDE DEF r, x, S
  <2>7. IsFlatRow(S, r[n][k]) /\ \A f \in S.secret : r[n][k][f] = None
    BY <2>5, <2>6 DEF IsFlatRow, Flat
  <2> QED BY <2>2, <2>7 DEF S
<1>8. \A f \in s.secret : r[f] = None
  <2>1. \A f \in Flat(s) : r[f] = FlatRow(c, s)[f]
    BY <1>2 DEF HasFlat
  <2>2. \A f \in s.secret : FlatRow(c, s)[f] = None
    BY SchemaIsOver, FlatRowTyped
  <2> HIDE DEF r, c
  <2> QED BY <2>1, <2>2 DEF Flat
<1>9. \A n \in Subs(s) : r[n] = [k \in DOMAIN r[n] |-> r[n][k]]
  <2> HIDE DEF r, c, Keys
  <2> QED BY <1>3
<1> HIDE DEF r
<1> QED BY <1>4, <1>5, <1>6, <1>7, <1>8, <1>9 DEF IsWhole, IsBody, NoSecrets, r

-----------------------------------------------------------------------------
(* The batches of a diff                                                   *)

\* The diff of the flat fields is a good batch.
LEMMA FlatGood ==
  ASSUME NEW b, IsPath(b), NEW s, IsFlatSchema(s), NEW live, \A f \in s.multi : live[f] \subseteq Text,
         NEW u, IsFlatRow(s, u)
  PROVE  IsGood(FlatDiff(b, s, live, u))
<1> DEFINE d == FlatDiff(b, s, live, u)
<1>1. b \in Seq(Text) /\ Flat(s) \subseteq Text /\ Flat(s) \subseteq Word
  BY TextOf, NoneText DEF IsFlatSchema
<1>2. FlatTyped(s, u, Text)
  BY NoneText DEF IsFlatRow, FlatTyped, Word
<1>3. Within(Text, b, s, d)
  BY <1>1, <1>2, FlatWithin
<1>4. d.late = {}
  BY FlatParts
<1>5. ASSUME NEW p \in d.put PROVE IsPath(p)
  <2>1. IsPut(p, b, s, live, u)
    BY FlatParts
  <2>2. PICK f \in Written(s, live, u) : p = b \o <<f, u[f]>>
    BY <2>1 DEF IsPut
  <2>3. f \in Word /\ u[f] \in Text /\ u[f] # None
    BY <1>1, <1>2 DEF Written, Flat, FlatTyped
  <2> QED BY <2>2, <2>3, PathBelow
<1>6. ASSUME NEW p \in d.add PROVE IsPath(p)
  <2>1. IsAdd(p, b, s, live, u)
    BY FlatParts
  <2>2. CASE \E f \in s.multi : \E v \in u[f] \ live[f] : p = b \o <<f, v>>
    <3>0. PICK f \in s.multi : \E v \in u[f] \ live[f] : p = b \o <<f, v>>
      BY <2>2
    <3>1. PICK v \in u[f] \ live[f] : p = b \o <<f, v>>
      BY <3>0
    <3>2. f \in Word /\ v \in Text /\ v # None
      BY <1>1, NoneText DEF IsFlatRow, Flat
    <3> QED BY <3>1, <3>2, PathBelow
  <2>3. CASE \E f \in Raised(s, live, u) : p = b \o <<f>>
    <3>1. PICK f \in Raised(s, live, u) : p = b \o <<f>>
      BY <2>3
    <3>2. f \in Word
      BY <1>1 DEF Raised, Flat
    <3> QED BY <3>1, <3>2, NoneText, PathBelow
  <2> QED BY <2>1, <2>2, <2>3 DEF IsAdd
<1> HIDE DEF d
<1> QED BY <1>3, <1>4, <1>5, <1>6 DEF IsGood, IsBatch, Within, d

\* The diff of all the fields is a good batch.
LEMMA DiffGood ==
  ASSUME NEW b, IsPath(b), NEW s, IsSchema(s), NEW live, LiveOver(s, live, Text), NEW u, IsBody(s, u)
  PROVE  IsGood(Diff(b, s, live, u))
<1> DEFINE d == Diff(b, s, live, u)
<1>1. Over(Text, b, s, live, u)
  BY TextOf, SchemaIsOver, BodyIsOver DEF Over
<1>2. IsBatch(d, Text) /\ d.late = {}
  BY <1>1, DiffIsBatch
<1>3. IsGood(FlatDiff(b, s, live, u))
  BY SchemaIsOver, FlatGood DEF IsBody, LiveOver
<1>4. ASSUME NEW n \in Subs(s), NEW k \in DOMAIN u[n]
      PROVE  IsGood(SubFlat(b, s, n, live[n], u[n], k)) /\ IsPath(SubBase(b, s, n, k))
  <2>1. IsTagKey(s, n, k) /\ IsFlatRow(SubSchema(s, n), u[n][k])
    BY DEF IsBody
  <2>2. IsPath(SubBase(b, s, n, k)) /\ IsFlatSchema(SubSchema(s, n))
    BY <2>1, SubBaseIsPath DEF IsSchema
  <2>3. \A f \in SubSchema(s, n).multi : SubLive(s, n, live[n], k)[f] \subseteq Text
    BY <1>1, SubOver
  <2> QED BY <2>1, <2>2, <2>3, FlatGood DEF SubFlat
<1>5. ASSUME NEW p \in d.put PROVE IsPath(p)
  <2>1. IsDiffPut(p, b, s, live, u)
    BY DiffParts
  <2> QED BY <1>3, <1>4, <2>1 DEF IsDiffPut, IsGood
<1>6. ASSUME NEW p \in d.add PROVE IsPath(p)
  <2>1. IsDiffAdd(p, b, s, live, u)
    BY DiffParts
  <2> QED BY <1>3, <1>4, <2>1 DEF IsDiffAdd, IsGood
<1> HIDE DEF d
<1> QED BY <1>2, <1>5, <1>6 DEF IsGood, d

\* So it is when the bare object is created.
LEMMA CreatedGood ==
  ASSUME NEW b, IsPath(b), NEW isNew, NEW c, IsGood(c)
  PROVE  IsGood(Created(b, isNew, c))
<1>1. IsGood(Adds({b}))
  BY GoodAdds
<1> QED BY <1>1 DEF Created

\* A blank row may be what a diff starts from.
LEMMA BlankOver ==
  ASSUME NEW s, IsSchema(s)
  PROVE  LiveOver(s, Blank(s), Text)
<1>1. \A f \in s.multi : Blank(s)[f] = {}
  BY SchemaIsOver, BlankFlat
<1>2. ASSUME NEW n \in Subs(s) PROVE Blank(s)[n] = NoSubs
  <2>1. n \in Fields(s) /\ n \notin Flat(s)
    BY DEF Fields, Subs, IsSchema, Apart
  <2>2. n \notin s.leaf /\ n \notin s.secret /\ n \notin DOMAIN s.pick /\ n \notin s.multi /\ n \notin s.flag /\ n \notin s.quiet
    BY <2>1, SchemaIsOver DEF Flat, FlatApart
  <2> QED BY <2>1, <2>2 DEF Blank
<1>3. DOMAIN NoSubs = {}
  BY DEF NoSubs
<1> QED BY <1>1, <1>2, <1>3 DEF LiveOver

\* A row that has the fields of a schema has those of a part of it.
LEMMA FlatPartRow ==
  ASSUME NEW s, NEW t, FlatPart(s, t), NEW r, IsFlatRow(t, r)
  PROVE  IsFlatRow(s, r)
BY DEF FlatPart, IsFlatRow

\* A row of what an editor reads has what it writes.
LEMMA PartBody ==
  ASSUME NEW s, IsSchema(s), NEW t, IsSchema(t), Part(s, t), NEW r, IsBody(t, r)
  PROVE  IsBody(s, r)
<1>1. IsFlatRow(s, r)
  BY FlatPartRow DEF Part, IsBody
<1>2. ASSUME NEW n \in Subs(s), NEW k \in DOMAIN r[n]
      PROVE  IsTagKey(s, n, k) /\ IsFlatRow(SubSchema(s, n), r[n][k])
  <2>1. CASE n \in DOMAIN s.tags
    <3>1. n \in DOMAIN t.tags /\ FlatPart(s.tags[n], t.tags[n])
      BY <2>1 DEF Part
    <3>2. IsTagKey(t, n, k) /\ IsFlatRow(SubSchema(t, n), r[n][k])
      BY <3>1 DEF IsBody, Subs
    <3> QED BY <2>1, <3>1, <3>2, FlatPartRow DEF IsTagKey, SubSchema
  <2>2. CASE n \notin DOMAIN s.tags
    <3>1. n \in DOMAIN t.gates /\ FlatPart(s.gates[n], t.gates[n]) /\ n \notin DOMAIN t.tags
      BY <2>2 DEF Part, Subs, IsSchema, Apart
    <3>2. IsTagKey(t, n, k) /\ IsFlatRow(SubSchema(t, n), r[n][k])
      BY <3>1 DEF IsBody, Subs
    <3> QED BY <2>2, <3>1, <3>2, FlatPartRow DEF IsTagKey, SubSchema
  <2> QED BY <2>1, <2>2
<1> QED BY <1>1, <1>2 DEF IsBody

\* A row of an editor has the fields the editor reads, and those it writes.
LEMMA RowIsBody ==
  ASSUME NEW e \in DOMAIN Ed, NEW r, IsRow(e, r)
  PROVE  /\ IsWhole(Ed[e].read, r) /\ IsBody(Ed[e].read, r) /\ IsBody(Ed[e].write, r)
         /\ LiveOver(Ed[e].write, r, Text)
<1>1. IsWhole(Ed[e].read, r) /\ IsBody(Ed[e].read, r)
  BY DEF IsRow, IsWhole, IsBody, IsSubRow, IsTagKey
<1>2. IsBody(Ed[e].write, r)
  BY <1>1, TypeOfEditor, PartBody
<1> QED BY <1>1, <1>2, TypeOfEditor, BodyIsOver

-----------------------------------------------------------------------------
(* The rows of the editors                                                 *)

\* The children of a node are text, and words but where a value may be empty.
LEMMA ValsTyped ==
  ASSUME NEW t, IsConfig(t), NEW p \in Seq(Text), Len(p) >= 2
  PROVE  /\ Vals(t, p) \subseteq Text /\ Val(t, p) \in Text
         /\ p[Len(p)] \notin Blankable => Vals(t, p) \subseteq Word
<1>1. Len(p) \in Nat
  OBVIOUS
<1>2. ASSUME NEW v \in Vals(t, p) PROVE v \in Text /\ (v = None => p[Len(p)] \in Blankable)
  <2>1. PICK q \in t : Len(q) >= Len(p) + 1 /\ SubSeq(q, 1, Len(p)) = p /\ v = q[Len(p) + 1]
    <3>1. (Len(p) + 1) - 1 = Len(p)
      BY <1>1
    <3> QED BY <3>1 DEF Vals
  <2>2. IsPath(q) /\ q \in Seq(Text) /\ Len(q) \in Nat
    BY <2>1 DEF IsConfig, IsPath
  <2>3. Under(p, q)
    BY <1>1, <2>1, <2>2 DEF Under
  <2>4. q[Len(p)] = p[Len(p)]
    BY <1>1, <2>2, <2>3, UnderPrefix
  <2>5. Len(p) + 1 \in 3..Len(q) /\ (Len(p) + 1) - 1 = Len(p) /\ Len(p) + 1 \in 1..Len(q)
    BY <1>1, <2>1, <2>2
  <2>6. v = None => q[(Len(p) + 1) - 1] \in Blankable
    BY <2>1, <2>2, <2>5 DEF IsPath
  <2>7. v \in Text
    BY <2>1, <2>2, <2>5
  <2> QED BY <2>4, <2>5, <2>6, <2>7
<1>3. Vals(t, p) \subseteq Text
  BY <1>2
<1>4. Val(t, p) \in Text
  <2> DEFINE S == Vals(t, p)
  <2>1. S \subseteq Text
    BY <1>3
  <2>2. Val(t, p) = IF S = {} THEN None ELSE CHOOSE v \in S : TRUE
    BY DEF Val
  <2> HIDE DEF S
  <2> QED BY <2>1, <2>2, NoneText
<1> QED BY <1>2, <1>3, <1>4 DEF Word

\* A row of an editor: the fields of its schema, and what it keeps beside them.
LEMMA RowIs ==
  ASSUME NEW e, NEW r
  PROVE  IsRow(e, r) <=> /\ r = [f \in Fields(Ed[e].read) \cup Extras(e) |-> r[f]]
                         /\ IsWhole(Ed[e].read, r) /\ HasExtras(e, r)
BY DEF IsRow, IsWhole, IsBody, IsSubRow, IsTagKey

\* A schema with fewer of the same fields.
LEMMA SmallerSchema ==
  ASSUME NEW t, IsSchema(t), NEW s, s.leaf \subseteq t.leaf, s.multi \subseteq t.multi, s.flag \subseteq t.flag,
         s.secret \subseteq t.secret, s.pick = t.pick, s.quiet = t.quiet, s.tags = t.tags, s.gates = t.gates
  PROVE  IsSchema(s)
<1>1. Subs(s) = Subs(t) /\ \A n \in Subs(s) : SubSchema(s, n) = SubSchema(t, n)
  BY DEF Subs, SubSchema
<1>2. Flat(s) \subseteq Flat(t)
  BY DEF Flat
<1>3. FlatApart(s)
  BY DEF IsSchema, Apart, FlatApart
<1>4. IsFlatSchema(s)
  BY <1>2, <1>3 DEF IsSchema, IsFlatSchema
<1>5. Apart(s)
  BY <1>2, <1>3 DEF IsSchema, Apart
<1> QED BY <1>1, <1>4, <1>5 DEF IsSchema

\* A schema of leaves, sets and flags.
LEMMA PlainSchema ==
  ASSUME NEW L, NEW M, NEW F
  PROVE  LET s == Schema(L, M, F)
         IN  /\ s.leaf = L /\ s.multi = M /\ s.flag = F /\ s.secret = {} /\ DOMAIN s.pick = {} /\ s.quiet = {}
             /\ DOMAIN s.tags = {} /\ DOMAIN s.gates = {} /\ Subs(s) = {}
             /\ Flat(s) = L \cup M \cup F /\ Fields(s) = L \cup M \cup F
BY DEF Schema, NoSubs, Subs, Fields, Flat

\* A schema of leaves, sets and flags that are words and apart is a schema of the console.
LEMMA PlainIsSchema ==
  ASSUME NEW L, NEW M, NEW F, L \cup M \cup F \subseteq Word, L \cap M = {}, L \cap F = {}, M \cap F = {},
         M \cap Blankable = {}
  PROVE  IsFlatSchema(Schema(L, M, F)) /\ IsSchema(Schema(L, M, F))
<1> DEFINE s == Schema(L, M, F)
<1>1. /\ s.leaf = L /\ s.multi = M /\ s.flag = F /\ s.secret = {} /\ DOMAIN s.pick = {} /\ s.quiet = {}
      /\ DOMAIN s.tags = {} /\ DOMAIN s.gates = {} /\ Subs(s) = {}
      /\ Flat(s) = L \cup M \cup F /\ Fields(s) = L \cup M \cup F
  BY PlainSchema
<1> HIDE DEF s
<1>2. IsFlatSchema(s)
  BY <1>1 DEF IsFlatSchema, FlatApart
<1>3. IsSchema(s)
  BY <1>1, <1>2 DEF IsSchema, IsFlatSchema, Apart
<1> QED BY <1>2, <1>3 DEF s

\* Row q is row r of schema s with more fields.
Extends(q, r, X) ==
  /\ q = [f \in DOMAIN r \cup X |-> q[f]]
  /\ \A f \in DOMAIN r : q[f] = r[f]

\* A row of schema s with a few more plain fields X of schema t.
LEMMA ExtendedRow ==
  ASSUME NEW s, IsSchema(s), NEW r, r = [f \in Fields(s) |-> r[f]], IsWhole(s, r),
         NEW t, IsSchema(t), s.tags = t.tags, s.gates = t.gates, s.pick = t.pick,
         s.leaf \subseteq t.leaf, s.multi \subseteq t.multi, s.flag \subseteq t.flag, s.secret \subseteq t.secret,
         NEW q, NEW X, Extends(q, r, X),
         \A f \in t.leaf \ s.leaf : q[f] \in Text,
         \A f \in t.secret \ s.secret : q[f] \in Text,
         \A f \in t.multi \ s.multi : q[f] \subseteq Word,
         \A f \in t.flag \ s.flag : q[f] \in BOOLEAN
  PROVE  IsWhole(t, q)
<1>1. DOMAIN r = Fields(s)
  OBVIOUS
<1>2. \A f \in Fields(s) : q[f] = r[f]
  BY <1>1 DEF Extends
<1>3. Subs(s) = Subs(t) /\ (\A n \in Subs(s) : SubSchema(s, n) = SubSchema(t, n)) /\ Subs(s) \subseteq Fields(s)
  BY DEF Subs, SubSchema, Fields
<1>4. IsFlatRow(t, q)
  <2>1. \A f \in t.leaf \cup t.secret : q[f] \in Text
    BY <1>2 DEF IsWhole, IsBody, IsFlatRow, Fields, Flat
  <2>2. \A f \in DOMAIN t.pick : q[f] \in Word
    BY <1>2 DEF IsWhole, IsBody, IsFlatRow, Fields, Flat
  <2>3. \A f \in t.multi : q[f] \subseteq Word
    BY <1>2 DEF IsWhole, IsBody, IsFlatRow, Fields, Flat
  <2>4. \A f \in t.flag : q[f] \in BOOLEAN
    BY <1>2 DEF IsWhole, IsBody, IsFlatRow, Fields, Flat
  <2> QED BY <2>1, <2>2, <2>3, <2>4 DEF IsFlatRow
<1>5. \A n \in Subs(t) : q[n] = r[n]
  BY <1>2, <1>3
<1>6. \A n \in Subs(t) : \A k : IsTagKey(t, n, k) <=> IsTagKey(s, n, k)
  BY <1>3 DEF IsTagKey
<1>7. ASSUME NEW n \in Subs(t)
      PROVE  /\ q[n] = [k \in DOMAIN q[n] |-> q[n][k]]
             /\ \A k \in DOMAIN q[n] : /\ IsTagKey(t, n, k) /\ IsFlatRow(SubSchema(t, n), q[n][k])
                                      /\ q[n][k] = [f \in Flat(SubSchema(t, n)) |-> q[n][k][f]]
  <2>1. n \in Subs(s) /\ q[n] = r[n] /\ SubSchema(s, n) = SubSchema(t, n)
    BY <1>3, <1>5
  <2>2. /\ r[n] = [k \in DOMAIN r[n] |-> r[n][k]]
        /\ \A k \in DOMAIN r[n] : /\ IsTagKey(s, n, k) /\ IsFlatRow(SubSchema(s, n), r[n][k])
                                 /\ r[n][k] = [f \in Flat(SubSchema(s, n)) |-> r[n][k][f]]
    BY <2>1 DEF IsWhole, IsBody
  <2> QED BY <1>6, <2>1, <2>2
<1> QED BY <1>4, <1>7 DEF IsWhole, IsBody

\* The schemas of an editor with fields beyond those of schema s.
Wider(z, s) ==
  /\ z.tags = s.tags /\ z.gates = s.gates /\ z.pick = s.pick /\ z.quiet = s.quiet
  /\ s.leaf \subseteq z.leaf /\ s.multi \subseteq z.multi /\ s.flag \subseteq z.flag /\ s.secret \subseteq z.secret
\* The fields a wider schema has more.
Gained(z, s) == (z.leaf \cup z.multi \cup z.flag \cup z.secret) \ Flat(s)

\* A schema with some fields more: its part is a schema, and has the other fields.
LEMMA WiderFields ==
  ASSUME NEW z, IsSchema(z), NEW s, Wider(z, s)
  PROVE  /\ IsSchema(s) /\ Fields(z) = Fields(s) \cup Gained(z, s)
         /\ Gained(z, s) \cap Fields(s) = {}
         /\ z.leaf \ s.leaf \subseteq Gained(z, s) /\ z.multi \ s.multi \subseteq Gained(z, s)
         /\ z.flag \ s.flag \subseteq Gained(z, s) /\ z.secret \ s.secret \subseteq Gained(z, s)
<1>1. IsSchema(s)
  BY SmallerSchema DEF Wider
<1>2. Apart(z) /\ FlatApart(z)
  BY SchemaIsOver DEF IsSchema
<1>3. Fields(z) = Fields(s) \cup Gained(z, s)
  BY DEF Wider, Fields, Flat, Gained
<1>4. Gained(z, s) \cap Fields(s) = {}
  BY <1>2 DEF Wider, Fields, Flat, Gained, Apart
<1>5. /\ z.leaf \ s.leaf \subseteq Gained(z, s) /\ z.multi \ s.multi \subseteq Gained(z, s)
      /\ z.flag \ s.flag \subseteq Gained(z, s) /\ z.secret \ s.secret \subseteq Gained(z, s)
  BY <1>2 DEF Wider, Flat, Gained, FlatApart
<1> QED BY <1>1, <1>3, <1>4, <1>5

\* The row of an editor that adds fields X to the row of schema s.
LEMMA WiderRow ==
  ASSUME NEW e \in DOMAIN Ed, NEW s, Wider(Ed[e].read, s), NEW t, IsConfig(t), NEW b \in Seq(Text), Len(b) >= 2,
         NEW q, Extends(q, Row(t, b, s), Gained(Ed[e].read, s) \cup Extras(e)),
         \A f \in Ed[e].read.leaf \ s.leaf : q[f] \in Text,
         \A f \in Ed[e].read.secret \ s.secret : q[f] \in Text,
         \A f \in Ed[e].read.multi \ s.multi : q[f] \subseteq Word,
         \A f \in Ed[e].read.flag \ s.flag : q[f] \in BOOLEAN,
         HasExtras(e, q)
  PROVE  IsRow(e, q)
<1> DEFINE z == Ed[e].read
           r == Row(t, b, s)
<1>1. IsSchema(z) /\ IsSchema(s) /\ Fields(z) = Fields(s) \cup Gained(z, s)
  BY TypeOfEditor, WiderFields
<1>2. r = [f \in Fields(s) |-> r[f]] /\ IsWhole(s, r)
  BY <1>1, RowTyped
<1>3. DOMAIN r = Fields(s)
  BY <1>2
<1> HIDE DEF r
<1>4. q = [f \in Fields(z) \cup Extras(e) |-> q[f]]
  <2>1. DOMAIN r \cup (Gained(z, s) \cup Extras(e)) = Fields(z) \cup Extras(e)
    BY <1>1, <1>3
  <2>2. q = [f \in DOMAIN r \cup (Gained(z, s) \cup Extras(e)) |-> q[f]]
    BY DEF Extends, r
  <2> QED BY <2>1, <2>2
<1>5. IsWhole(z, q)
  <2>1. Extends(q, r, Gained(z, s) \cup Extras(e))
    BY DEF r
  <2> QED BY <1>1, <1>2, <2>1, ExtendedRow DEF Wider
<1> QED BY <1>4, <1>5, RowIs

\* A row with one more field.
LEMMA OneMore ==
  ASSUME NEW r, NEW x, x \notin DOMAIN r, NEW v, NEW q, q = r @@ x :> v
  PROVE  Extends(q, r, {x}) /\ q[x] = v
<1>1. q = [y \in DOMAIN r \cup {x} |-> IF y \in DOMAIN r THEN r[y] ELSE [z \in {x} |-> v][y]]
  BY DEF :>, @@
<1> QED BY <1>1 DEF Extends

\* Whether something is in a set is TRUE or FALSE.
LEMMA IsBoolean == ASSUME NEW x, NEW S, NEW v, v = (x \in S) PROVE v \in BOOLEAN
OBVIOUS

\* The row of an OSPF area has its shape.
LEMMA OspfAreaRow ==
  ASSUME "ospf_area" \in DOMAIN Ed, NEW t, IsConfig(t), NEW b, IsPath(b)
  PROVE  IsRow("ospf_area", OspfArea_Row(t, b))
<1> DEFINE z == Ed["ospf_area"].read
           s == OspfArea_Read
           r == Row(t, b, s)
           v == NoSummary(b, r["area-type"]) \in t
           q == OspfArea_Row(t, b)
<1>0. z = [s EXCEPT !.flag = {"no-summary"}]
  <2>1. Ed["ospf_area"] = OspfArea
    BY EditorIs
  <2>2. OspfArea.read = [s EXCEPT !.flag = {"no-summary"}]
    BY DEF OspfArea, Editor
  <2> QED BY <2>1, <2>2
<1>1. Wider(z, s) /\ z.leaf = s.leaf /\ z.multi = s.multi /\ z.secret = s.secret /\ z.flag = {"no-summary"} /\ s.flag = {}
  <2> HIDE DEF z
  <2> QED BY <1>0 DEF Wider, OspfArea_Read, Schema
<1> HIDE DEF z, s
<1>2. Gained(z, s) = {"no-summary"} /\ "no-summary" \notin Fields(s) /\ IsSchema(s)
  <2>1. IsSchema(z)
    BY TypeOfEditor DEF z
  <2>2. Gained(z, s) \cap Fields(s) = {} /\ IsSchema(s) /\ z.flag \ s.flag \subseteq Gained(z, s)
    BY <1>1, <2>1, WiderFields
  <2> QED BY <1>1, <2>2 DEF Gained, Flat
<1>3. DOMAIN r = Fields(s)
  <2>1. r = [f \in Fields(s) |-> r[f]]
    BY <1>2, TextOf, RowTyped
  <2> HIDE DEF r
  <2> QED BY <2>1
<1>4. v \in BOOLEAN
  <2> DEFINE p == NoSummary(b, r["area-type"])
  <2>1. v = (p \in t)
    OBVIOUS
  <2> HIDE DEF p, v, r
  <2> QED BY <2>1, IsBoolean
<1>5. q = r @@ "no-summary" :> v
  BY DEF OspfArea_Row, s
<1> HIDE DEF r, q, v
<1>6. Extends(q, r, {"no-summary"}) /\ q["no-summary"] \in BOOLEAN
  BY <1>2, <1>3, <1>4, <1>5 DEF Extends, :>, @@
<1>7. Extras("ospf_area") = {} /\ HasExtras("ospf_area", q)
  BY DEF Extras, HasExtras
<1>8. Extends(q, r, Gained(z, s) \cup Extras("ospf_area"))
  BY <1>2, <1>6, <1>7
<1>9. IsRow("ospf_area", q)
  <2>1. b \in Seq(Text) /\ Len(b) >= 2
    BY TextOf
  <2> QED BY <1>1, <1>6, <1>7, <1>8, <2>1, WiderRow DEF r, z
<1> QED BY <1>9 DEF q

\* The value v of field f is of its kind in a row of schema s.
IsSubs(s, n, v) ==
  /\ v = [k \in DOMAIN v |-> v[k]]
  /\ \A k \in DOMAIN v : IsTagKey(s, n, k) /\ IsSubRow(SubSchema(s, n), v[k])
\* A value is of the kind of field f of schema s.
IsFlatField(s, f, v) ==
  /\ f \in s.leaf \cup s.secret => v \in Text
  /\ f \in DOMAIN s.pick => v \in Word
  /\ f \in s.multi => v \subseteq Word
  /\ f \in s.flag => v \in BOOLEAN
\* The sections an HA peer synchronises, each a name and the part of it, if any.
IsSection(v) == \A x \in v : x = <<x[1], x[2]>> /\ x[1] \in Word /\ x[2] \in Text
\* A value is of the kind of what editor e keeps as f beside its schema.
IsExtra(e, f, v) ==
  /\ e = "openvpn" /\ f = "mode" => v \in OpenvpnModes
  /\ e = "vxlan" /\ f = "bridge" => v \in Text
  /\ e = "config_sync" => /\ f = "has_key" => v \in BOOLEAN
                          /\ f = "section" => IsSection(v)
\* A value is of the kind of field f of editor e.
IsField(e, f, v) ==
  /\ IsFlatField(Ed[e].read, f, v)
  /\ f \in Subs(Ed[e].read) => IsSubs(Ed[e].read, f, v)
  /\ IsExtra(e, f, v)
\* All the fields of a row of editor e.
RowFields(e) == Fields(Ed[e].read) \cup Extras(e)

\* A flat row has its shape field by field,
LEMMA FlatFieldwise ==
  ASSUME NEW s, NEW r
  PROVE  /\ IsFlatRow(s, r) <=> \A f \in Flat(s) : IsFlatField(s, f, r[f])
         /\ IsSubRow(s, r) <=> r = [f \in Flat(s) |-> r[f]] /\ \A f \in Flat(s) : IsFlatField(s, f, r[f])
<1>1. ASSUME IsFlatRow(s, r), NEW f \in Flat(s) PROVE IsFlatField(s, f, r[f])
  BY <1>1 DEF IsFlatRow, IsFlatField
<1>2. ASSUME \A f \in Flat(s) : IsFlatField(s, f, r[f]) PROVE IsFlatRow(s, r)
  BY <1>2 DEF IsFlatRow, IsFlatField, Flat
<1>3. IsFlatRow(s, r) <=> \A f \in Flat(s) : IsFlatField(s, f, r[f])
  BY <1>1, <1>2
<1> QED BY <1>3 DEF IsSubRow

\* and so has what an editor keeps beside its schema.
LEMMA ExtrasFieldwise ==
  ASSUME NEW e, NEW r
  PROVE  HasExtras(e, r) <=> \A f \in Extras(e) : IsExtra(e, f, r[f])
<1>1. CASE e = "openvpn"
  BY <1>1 DEF HasExtras, Extras, IsExtra
<1>2. CASE e = "vxlan"
  BY <1>2 DEF HasExtras, Extras, IsExtra
<1>3. CASE e = "config_sync"
  <2>1. Extras(e) = {"has_key", "section"} /\ (HasExtras(e, r) <=> r["has_key"] \in BOOLEAN /\ IsSection(r["section"]))
    BY <1>3 DEF HasExtras, Extras, IsSection
  <2>2. IsExtra(e, "has_key", r["has_key"]) <=> r["has_key"] \in BOOLEAN
    BY <1>3 DEF IsExtra
  <2>3. IsExtra(e, "section", r["section"]) <=> IsSection(r["section"])
    BY <1>3 DEF IsExtra
  <2> QED BY <2>1, <2>2, <2>3
<1>4. CASE e \notin {"openvpn", "vxlan", "config_sync"}
  BY <1>4 DEF HasExtras, Extras, IsExtra
<1> QED BY <1>1, <1>2, <1>3, <1>4

\* A row is right when each of its fields is.
LEMMA Fieldwise ==
  ASSUME NEW e \in DOMAIN Ed, NEW r
  PROVE  IsRow(e, r) <=> r = [f \in RowFields(e) |-> r[f]] /\ \A f \in RowFields(e) : IsField(e, f, r[f])
<1> DEFINE s == Ed[e].read
<1>1. IsRow(e, r) <=> /\ r = [f \in RowFields(e) |-> r[f]]
                      /\ IsFlatRow(s, r)
                      /\ \A n \in Subs(s) : IsSubs(s, n, r[n])
                      /\ HasExtras(e, r)
  BY DEF IsRow, IsSubs, IsTagKey, RowFields
<1>2. Flat(s) \subseteq Fields(s) /\ Subs(s) \subseteq Fields(s)
  BY DEF Fields, Subs
<1> HIDE DEF s
<1>3. IsFlatRow(s, r) <=> \A f \in Flat(s) : IsFlatField(s, f, r[f])
  BY FlatFieldwise
<1>4. HasExtras(e, r) <=> \A f \in Extras(e) : IsExtra(e, f, r[f])
  BY ExtrasFieldwise
<1>5. ASSUME NEW f PROVE f \notin Flat(s) => IsFlatField(s, f, r[f])
  BY DEF IsFlatField, Flat
<1>6. ASSUME NEW f PROVE f \notin Extras(e) => IsExtra(e, f, r[f])
  BY DEF IsExtra, Extras
<1>7. RowFields(e) = Fields(s) \cup Extras(e)
  BY DEF RowFields, s
<1>8. \A f : IsField(e, f, r[f]) <=> /\ IsFlatField(s, f, r[f])
                                     /\ f \in Subs(s) => IsSubs(s, f, r[f])
                                     /\ IsExtra(e, f, r[f])
  BY DEF IsField, s
<1> QED BY <1>1, <1>2, <1>3, <1>4, <1>5, <1>6, <1>7, <1>8

\* A row some of whose fields are replaced.
LEMMA Replaced ==
  ASSUME NEW e \in DOMAIN Ed, NEW r, IsRow(e, r), NEW q, q = [f \in DOMAIN r |-> q[f]],
         \A f \in DOMAIN r : q[f] = r[f] \/ IsField(e, f, q[f])
  PROVE  IsRow(e, q)
<1>1. r = [f \in RowFields(e) |-> r[f]] /\ \A f \in RowFields(e) : IsField(e, f, r[f])
  BY Fieldwise
<1>2. DOMAIN r = RowFields(e)
  BY <1>1
<1>3. \A f \in RowFields(e) : IsField(e, f, q[f])
  BY <1>1, <1>2
<1> QED BY <1>2, <1>3, Fieldwise

\* A row keeps its shape when one field takes a value of the field's kind.
LEMMA ReplacedOne ==
  ASSUME NEW e \in DOMAIN Ed, NEW r, IsRow(e, r), NEW x, NEW v, IsField(e, x, v)
  PROVE  IsRow(e, [r EXCEPT ![x] = v])
<1> DEFINE q == [r EXCEPT ![x] = v]
<1>1. q = [f \in DOMAIN r |-> q[f]]
  OBVIOUS
<1>2. ASSUME NEW f \in DOMAIN r PROVE q[f] = r[f] \/ IsField(e, f, q[f])
  OBVIOUS
<1> HIDE DEF q
<1>3. IsRow(e, q)
  BY <1>1, <1>2, Replaced
<1> QED BY <1>3 DEF q

\* A sequence with one more element in front.
LEMMA Prepended ==
  ASSUME NEW V, NEW x \in V, NEW k \in Seq(V)
  PROVE  /\ <<x>> \o k \in Seq(V) /\ Len(<<x>> \o k) = Len(k) + 1 /\ (<<x>> \o k)[1] = x
         /\ \A i \in 1..Len(k) : (<<x>> \o k)[i + 1] = k[i]
<1>1.  <<x>> \o k \in Seq(V)
  OBVIOUS
<1>2. Len(<<x>> \o k) = Len(k) + 1
  OBVIOUS
<1>3. (<<x>> \o k)[1] = x
  OBVIOUS
<1>4. \A i \in 1..Len(k) : (<<x>> \o k)[i + 1] = k[i]
  OBVIOUS
<1> QED BY <1>1, <1>2, <1>3, <1>4
\* A sequence with one more element at its end.
LEMMA Appended ==
  ASSUME NEW V, NEW y \in V, NEW k \in Seq(V)
  PROVE  /\ k \o <<y>> \in Seq(V) /\ Len(k \o <<y>>) = Len(k) + 1 /\ (k \o <<y>>)[Len(k) + 1] = y
         /\ \A i \in 1..Len(k) : (k \o <<y>>)[i] = k[i]
<1>1.  k \o <<y>> \in Seq(V)
  OBVIOUS
<1>2. Len(k \o <<y>>) = Len(k) + 1
  OBVIOUS
<1>3. (k \o <<y>>)[Len(k) + 1] = y
  OBVIOUS
<1>4. \A i \in 1..Len(k) : (k \o <<y>>)[i] = k[i]
  OBVIOUS
<1> QED BY <1>1, <1>2, <1>3, <1>4

\* The row that is parsed by the schema alone has its shape.
LEMMA PlainRow ==
  ASSUME NEW e \in DOMAIN Ed, Extras(e) = {}, NEW t, IsConfig(t), NEW b \in Seq(Text), Len(b) >= 2
  PROVE  IsRow(e, Row(t, b, Ed[e].read))
<1>1. /\ Row(t, b, Ed[e].read) = [f \in Fields(Ed[e].read) |-> Row(t, b, Ed[e].read)[f]]
      /\ IsWhole(Ed[e].read, Row(t, b, Ed[e].read))
  BY TypeOfEditor, RowTyped
<1>2. HasExtras(e, Row(t, b, Ed[e].read))
  BY ExtrasFieldwise
<1>3. Fields(Ed[e].read) \cup Extras(e) = Fields(Ed[e].read)
  OBVIOUS
<1> QED BY <1>1, <1>2, <1>3, RowIs

\* A path of three elements.
LEMMA Three ==
  ASSUME NEW V, NEW a \in V, NEW b \in V, NEW c \in V, NEW p, p = <<a, b>> \o <<c>>
  PROVE  /\ p \in Seq(V) /\ Len(p) = 3 /\ p[1] = a /\ p[2] = b /\ p[3] = c
OBVIOUS

\* A row with fields of another row added.
LEMMA More ==
  ASSUME NEW r, NEW d, DOMAIN d \cap DOMAIN r = {}, NEW q, q = r @@ d
  PROVE  Extends(q, r, DOMAIN d) /\ \A x \in DOMAIN d : q[x] = d[x]
<1>1. q = [y \in DOMAIN r \cup DOMAIN d |-> IF y \in DOMAIN r THEN r[y] ELSE d[y]]
  BY DEF @@
<1> QED BY <1>1 DEF Extends

\* A function given at two points.
LEMMA TwoPoints ==
  ASSUME NEW a, NEW v, NEW c, NEW w, a # c, NEW d, d = a :> v @@ c :> w
  PROVE  DOMAIN d = {a, c} /\ d[a] = v /\ d[c] = w
BY DEF :>, @@

\* A row with two fields more.
LEMMA TwoMore ==
  ASSUME NEW r, NEW a, NEW v, NEW c, NEW w, a # c, a \notin DOMAIN r, c \notin DOMAIN r,
         NEW q, q = r @@ a :> v @@ c :> w
  PROVE  Extends(q, r, {a, c}) /\ q[a] = v /\ q[c] = w
<1> DEFINE p == r @@ a :> v
<1>1. p = [y \in DOMAIN r \cup {a} |-> IF y \in DOMAIN r THEN r[y] ELSE [x \in {a} |-> v][y]]
  BY DEF :>, @@
<1>2. q = p @@ c :> w
  OBVIOUS
<1> HIDE DEF p
<1>3. q = [y \in DOMAIN p \cup {c} |-> IF y \in DOMAIN p THEN p[y] ELSE [x \in {c} |-> w][y]]
  BY <1>2 DEF :>, @@
<1>4. DOMAIN p = DOMAIN r \cup {a} /\ DOMAIN q = DOMAIN r \cup {a, c}
  BY <1>1, <1>3
<1>5. q[a] = v /\ q[c] = w /\ \A f \in DOMAIN r : q[f] = r[f]
  BY <1>1, <1>3, <1>4
<1>6. q = [f \in DOMAIN r \cup {a, c} |-> q[f]]
  BY <1>3, <1>4
<1> QED BY <1>5, <1>6 DEF Extends

\* What a marked description reads as.
LEMMA Decoded ==
  ASSUME NEW t, IsConfig(t), NEW b, IsPath(b), NEW mark \in {"display", "protocol"}, NEW absent \in Text, NEW d,
         d = Decode(t, b, mark, absent)
  PROVE  DOMAIN d = {mark, "description"} /\ d[mark] \in Text /\ d["description"] \in Text
<1>1. "description" \in Text
  BY TextAssumption DEF Keywords
<1>2. b \o <<"description">> \in Seq(Text) /\ Len(b \o <<"description">>) >= 2
  BY <1>1, TextOf
<1> DEFINE m == Val(t, b \o <<"description">>)
           p == b \o <<"description", m>>
           v == Val(t, p)
<1>3. m \in Text
  BY <1>2, ValsTyped
<1> DEFINE w == IF m = None THEN absent ELSE m
<1>0. d = mark :> w @@ "description" :> v
  BY DEF Decode
<1> HIDE DEF m
<1>4. p \in Seq(Text) /\ Len(p) >= 2
  BY <1>1, <1>3, TextOf
<1> HIDE DEF p
<1>5. v \in Text
  BY <1>4, ValsTyped
<1> HIDE DEF v
<1>6. mark # "description"
  OBVIOUS
<1>8. w \in Text
  BY <1>3
<1> HIDE DEF w
<1>7. DOMAIN d = {mark, "description"} /\ d[mark] = w /\ d["description"] = v
  BY <1>0, <1>6 DEF :>, @@
<1> QED BY <1>5, <1>7, <1>8

\* An editor whose rows are those of schema s with a marked description.
LEMMA MarkedRow ==
  ASSUME NEW e \in DOMAIN Ed, Extras(e) = {}, NEW mark \in {"display", "protocol"}, NEW s, Wider(Ed[e].read, s),
         Ed[e].read.multi = s.multi, Ed[e].read.secret = s.secret, Ed[e].read.flag = s.flag,
         Ed[e].read.leaf = s.leaf \cup {mark, "description"}, {mark, "description"} \cap Fields(s) = {},
         NEW t, IsConfig(t), NEW b, IsPath(b), NEW absent \in Text, NEW q, q = Row(t, b, s) @@ Decode(t, b, mark, absent)
  PROVE  IsRow(e, q)
<1> DEFINE z == Ed[e].read
           r == Row(t, b, s)
           d == Decode(t, b, mark, absent)
<1>1. DOMAIN d = {mark, "description"} /\ d[mark] \in Text /\ d["description"] \in Text
  BY Decoded
<1>2. Wider(z, s) /\ z.multi = s.multi /\ z.secret = s.secret /\ z.flag = s.flag
  OBVIOUS
<1>3. z.leaf \subseteq s.leaf \cup {mark, "description"} /\ {mark, "description"} \subseteq z.leaf
  OBVIOUS
<1>4. IsSchema(z)
  BY TypeOfEditor
<1> HIDE DEF d, z
<1>5. Gained(z, s) = {mark, "description"}
  BY <1>2, <1>3 DEF Gained, Flat, Fields
<1>6. IsSchema(s)
  BY <1>2, <1>4, WiderFields
<1>7. DOMAIN r = Fields(s)
  <2>1. r = [f \in Fields(s) |-> r[f]]
    BY <1>6, TextOf, RowTyped
  <2> HIDE DEF r
  <2> QED BY <2>1
<1>8. q = r @@ d
  BY DEF d
<1> HIDE DEF r
<1>9. Extends(q, r, {mark, "description"}) /\ q[mark] = d[mark] /\ q["description"] = d["description"]
  <2>1. DOMAIN d \cap DOMAIN r = {}
    BY <1>1, <1>7
  <2>2. Extends(q, r, DOMAIN d) /\ \A x \in DOMAIN d : q[x] = d[x]
    BY <1>8, <2>1, More
  <2> QED BY <1>1, <2>2
<1>10. HasExtras(e, q)
  BY ExtrasFieldwise
<1>11. Extends(q, Row(t, b, s), Gained(z, s) \cup Extras(e))
  BY <1>5, <1>9 DEF r
<1>12. \A f \in z.leaf \ s.leaf : q[f] \in Text
  BY <1>1, <1>3, <1>9
<1> QED
  <2>1. b \in Seq(Text) /\ Len(b) >= 2
    BY TextOf
  <2> QED BY <1>2, <1>10, <1>11, <1>12, <2>1, WiderRow DEF z

\* The rows of aliases, policies and zones have their shapes: a marked description is two fields.
LEMMA MarkedRows ==
  ASSUME NEW t, IsConfig(t), NEW b, IsPath(b)
  PROVE  /\ "alias" \in DOMAIN Ed => IsRow("alias", Alias_Row(t, b))
         /\ "policy" \in DOMAIN Ed => IsRow("policy", Policy_Row(t, b))
         /\ "zone" \in DOMAIN Ed => IsRow("zone", Zone_Row(t, b))
<1>1. None \in Text /\ "tcp_udp" \in Text
  BY TextAssumption DEF Keywords
<1>2. ASSUME "alias" \in DOMAIN Ed PROVE IsRow("alias", Alias_Row(t, b))
  <2> DEFINE z == Ed["alias"].read
             s == Alias_Read
             q == Alias_Row(t, b)
  <2>1. z = Marked(s, "display")
    <3>1. Ed["alias"] = Alias
      BY <1>2, EditorIs
    <3> QED BY <3>1 DEF Alias, Editor
  <2>2. /\ Wider(z, s) /\ z.multi = s.multi /\ z.secret = s.secret /\ z.flag = s.flag
        /\ z.leaf = s.leaf \cup {"display", "description"}
    <3> HIDE DEF z
    <3> QED BY <2>1 DEF Wider, Marked, Alias_Read, Schema
  <2>3. {"display", "description"} \cap Fields(s) = {}
    BY PlainSchema DEF Alias_Read
  <2>4. q = Row(t, b, s) @@ Decode(t, b, "display", None)
    BY DEF Alias_Row
  <2>5. Extras("alias") = {}
    BY DEF Extras
  <2> HIDE DEF z, s, q
  <2>6. IsRow("alias", q)
    BY <1>1, <1>2, <2>2, <2>3, <2>4, <2>5, MarkedRow DEF z
  <2> QED BY <2>6 DEF q
<1>3. ASSUME "policy" \in DOMAIN Ed PROVE IsRow("policy", Policy_Row(t, b))
  <2> DEFINE z == Ed["policy"].read
             s == Policy_Read
             q == Policy_Row(t, b)
  <2>1. z = Marked(s, "protocol")
    <3>1. Ed["policy"] = Policy
      BY <1>3, EditorIs
    <3> QED BY <3>1 DEF Policy, Editor
  <2>2. /\ Wider(z, s) /\ z.multi = s.multi /\ z.secret = s.secret /\ z.flag = s.flag
        /\ z.leaf = s.leaf \cup {"protocol", "description"}
    <3> HIDE DEF z
    <3> QED BY <2>1 DEF Wider, Marked, Policy_Read, Schema
  <2>3. {"protocol", "description"} \cap Fields(s) = {}
    BY PlainSchema DEF Policy_Read
  <2>4. q = Row(t, b, s) @@ Decode(t, b, "protocol", "tcp_udp")
    BY DEF Policy_Row
  <2>5. Extras("policy") = {}
    BY DEF Extras
  <2> HIDE DEF z, s, q
  <2>6. IsRow("policy", q)
    BY <1>1, <1>3, <2>2, <2>3, <2>4, <2>5, MarkedRow DEF z
  <2> QED BY <2>6 DEF q
<1>4. ASSUME "zone" \in DOMAIN Ed PROVE IsRow("zone", Zone_Row(t, b))
  <2> DEFINE z == Ed["zone"].read
             s == Zone_Read
             q == Zone_Row(t, b)
  <2>1. z = Marked(s, "display")
    <3>1. Ed["zone"] = Zone
      BY <1>4, EditorIs
    <3> QED BY <3>1 DEF Zone, Editor
  <2>2. /\ Wider(z, s) /\ z.multi = s.multi /\ z.secret = s.secret /\ z.flag = s.flag
        /\ z.leaf = s.leaf \cup {"display", "description"}
    <3> HIDE DEF z
    <3> QED BY <2>1 DEF Wider, Marked, Zone_Read, Schema
  <2>3. {"display", "description"} \cap Fields(s) = {}
    <3> DEFINE L == {"default-action", "intra-zone-filtering_action"}
               M == {"member_interface"}
               F == {"local-zone", "default-log"}
    <3>1. s = Schema(L, M, F)
      BY DEF Zone_Read
    <3> HIDE DEF s, L, M, F
    <3>2. Fields(s) = L \cup M \cup F
      BY <3>1, PlainSchema
    <3> QED BY <3>2 DEF L, M, F
  <2>4. q = Row(t, b, s) @@ Decode(t, b, "display", None)
    BY DEF Zone_Row
  <2>5. Extras("zone") = {}
    BY DEF Extras
  <2> HIDE DEF z, s, q
  <2>6. IsRow("zone", q)
    BY <1>1, <1>4, <2>2, <2>3, <2>4, <2>5, MarkedRow DEF z
  <2> QED BY <2>6 DEF q
<1> QED BY <1>2, <1>3, <1>4

\* The row of the general settings has its shape.
LEMMA GeneralRow ==
  ASSUME "general" \in DOMAIN Ed, NEW t, IsConfig(t), NEW b, IsPath(b)
  PROVE  IsRow("general", General_Row(t, b))
<1> DEFINE z == Ed["general"].read
           s == General_Read
           r == Row(t, b, s)
           v == Vals(t, NtpServers)
           q == General_Row(t, b)
<1>1. Ed["general"] = General
  BY EditorIs
<1>2. z = [s EXCEPT !.multi = @ \cup {"ntp_server"}]
  BY <1>1 DEF General, Settings, Panel, Editor
<1>3. /\ Wider(z, s) /\ z.leaf = s.leaf /\ z.secret = s.secret /\ z.flag = s.flag
      /\ z.multi = s.multi \cup {"ntp_server"} /\ "ntp_server" \notin Fields(s)
  <2>1. Fields(s) = {"host-name", "domain-name", "time-zone"} \cup {"name-server"} \cup {}
    BY PlainSchema DEF General_Read
  <2>2. "ntp_server" \notin Fields(s)
    <3> HIDE DEF s
    <3> QED BY <2>1
  <2> HIDE DEF z
  <2> QED BY <1>2, <2>2 DEF Wider, General_Read, Schema
<1>4. v \subseteq Word
  <2>1. {"service_ntp", "", "server"} \subseteq Text
    BY TextAssumption DEF Keywords, None
  <2>2. NtpServers = <<"service_ntp", "">> \o <<"server">>
    BY DEF NtpServers, Ntp
  <2>3. NtpServers \in Seq(Text) /\ Len(NtpServers) = 3 /\ NtpServers[3] = "server"
    <3> DEFINE x == "service_ntp" y == "" w == "server"
    <3>1. x \in Text /\ y \in Text /\ w \in Text
      BY <2>1
    <3>2. NtpServers = <<x, y>> \o <<w>>
      BY <2>2
    <3>3. w = "server"
      OBVIOUS
    <3> HIDE DEF x, y, w
    <3> QED BY <3>1, <3>2, <3>3
  <2>4. NtpServers[Len(NtpServers)] \notin Blankable
    BY <2>3 DEF Blankable
  <2> DEFINE p == NtpServers
  <2>6. p \in Seq(Text) /\ Len(p) >= 2 /\ p[Len(p)] \notin Blankable
    BY <2>3, <2>4
  <2> HIDE DEF v, p
  <2>5. Vals(t, p) \subseteq Word
    BY <2>6, ValsTyped
  <2> QED BY <2>5 DEF v, p
<1>5. q = r @@ "ntp_server" :> v
  BY DEF General_Row
<1> HIDE DEF z, s, v
<1>6. IsSchema(s) /\ Gained(z, s) = {"ntp_server"}
  <2>1. IsSchema(z)
    BY TypeOfEditor DEF z
  <2>2. IsSchema(s) /\ z.multi \ s.multi \subseteq Gained(z, s)
    BY <1>3, <2>1, WiderFields
  <2>3. "ntp_server" \in Gained(z, s)
    BY <1>3, <2>2 DEF Fields, Flat
  <2> QED BY <1>3, <2>2, <2>3 DEF Gained, Flat
<1>7. DOMAIN r = Fields(s)
  <2>1. r = [f \in Fields(s) |-> r[f]]
    BY <1>6, TextOf, RowTyped
  <2> HIDE DEF r
  <2> QED BY <2>1
<1> HIDE DEF r, q
<1>8. Extends(q, r, {"ntp_server"}) /\ q["ntp_server"] \subseteq Word
  <2>1. Extends(q, r, {"ntp_server"}) /\ q["ntp_server"] = v
    BY <1>3, <1>5, <1>7 DEF Extends, :>, @@
  <2> QED BY <1>4, <2>1
<1>9. Extras("general") = {} /\ HasExtras("general", q)
  BY DEF Extras, HasExtras
<1>10. Extends(q, r, Gained(z, s) \cup Extras("general"))
  BY <1>6, <1>8, <1>9
<1>11. b \in Seq(Text) /\ Len(b) >= 2
  BY TextOf
<1>12. \A f \in z.multi \ s.multi : q[f] \subseteq Word
  BY <1>3, <1>8
<1>13. IsRow("general", q)
  BY <1>3, <1>9, <1>10, <1>11, <1>12, WiderRow DEF r, z
<1> QED BY <1>13 DEF q

\* The sections read from a configuration have their shape.
LEMMA SectionsTyped ==
  ASSUME NEW t, IsConfig(t), NEW b, IsPath(b)
  PROVE  IsSection(SyncSections(t, b))
<1> DEFINE p == b \o <<"section">>
           P(s) == b \o <<"section", s>>
           V(s) == Vals(t, P(s))
           S(s) == {<<s, x>> : x \in IF V(s) = {} THEN {None} ELSE V(s)}
<1>1. "section" \in Text /\ "section" \in Word /\ "section" \notin Blankable /\ None \in Text
  BY TextAssumption DEF Keywords, Word, None, Blankable
<1>2. p \in Seq(Text) /\ Len(p) >= 2 /\ p[Len(p)] \notin Blankable
  <2>1. b \in Seq(Text) /\ Len(b) >= 2 /\ p \in Seq(Text) /\ Len(p) = Len(b) + 1
    BY <1>1, TextOf
  <2>2. p[Len(p)] = "section"
    BY <2>1
  <2> QED BY <1>1, <2>1, <2>2
<1> HIDE DEF p
<1>3. Vals(t, p) \subseteq Word
  BY <1>2, ValsTyped
<1>4. SyncSections(t, b) = UNION {S(s) : s \in Vals(t, p)}
  BY DEF SyncSections, p
<1>5. ASSUME NEW s \in Word PROVE V(s) \subseteq Text
  <2>1. b \in Seq(Text) /\ Len(b) >= 2 /\ s \in Text
    BY <1>5, TextOf, NoneText
  <2>2. P(s) \in Seq(Text) /\ Len(P(s)) >= 2
    BY <1>1, <2>1
  <2> HIDE DEF P
  <2> QED BY <2>2, ValsTyped
<1> HIDE DEF V
<1>6. ASSUME NEW s \in Word, NEW y \in S(s) PROVE y = <<y[1], y[2]>> /\ y[1] \in Word /\ y[2] \in Text
  <2>1. PICK x \in IF V(s) = {} THEN {None} ELSE V(s) : y = <<s, x>>
    BY <1>6
  <2>2. x \in Text
    BY <1>1, <1>5, <2>1
  <2> QED BY <2>1, <2>2
<1> HIDE DEF S
<1>7. ASSUME NEW y \in SyncSections(t, b) PROVE y = <<y[1], y[2]>> /\ y[1] \in Word /\ y[2] \in Text
  <2>1. PICK s \in Vals(t, p) : y \in S(s)
    BY <1>4, <1>7
  <2> QED BY <1>3, <1>6, <2>1
<1> QED BY <1>7 DEF IsSection

\* The row of the configuration synchronisation has its shape.
LEMMA ConfigSyncRow ==
  ASSUME "config_sync" \in DOMAIN Ed, NEW t, IsConfig(t), NEW b, IsPath(b)
  PROVE  IsRow("config_sync", ConfigSync_Row(t, b))
<1> DEFINE z == Ed["config_sync"].read
           r == Row(t, b, z)
           K == Vals(t, b \o <<"secondary_key">>)
           v == K # {}
           S == SyncSections(t, b)
           q == ConfigSync_Row(t, b)
<1>1. z = ConfigSync_Leaves
  <2>1. Ed["config_sync"] = ConfigSync
    BY EditorIs
  <2> QED BY <2>1 DEF ConfigSync, Panel, Editor
<1>2. "has_key" \notin Fields(z) /\ "section" \notin Fields(z)
  <2>1. Fields(z) = {"mode", "secondary_address", "secondary_port", "secondary_timeout"} \cup {"secondary_key"}
    <3> HIDE DEF z
    <3> QED BY <1>1 DEF ConfigSync_Leaves, Schema, NoSubs, Fields, Flat
  <2> HIDE DEF z
  <2> QED BY <2>1
<1>3. IsSchema(z)
  BY TypeOfEditor
<1>4. q = r @@ "has_key" :> v @@ "section" :> S
  BY <1>1 DEF ConfigSync_Row
<1>5. S = SyncSections(t, b) /\ IsSection(S)
  BY SectionsTyped
<1>6. v \in BOOLEAN
  <2> HIDE DEF K
  <2>1. (K # {}) = ~(K = {})
    OBVIOUS
  <2> QED OBVIOUS
<1> HIDE DEF z, v, S
<1>7. DOMAIN r = Fields(z) /\ r = [f \in Fields(z) |-> r[f]] /\ IsWhole(z, r)
  <2>1. r = [f \in Fields(z) |-> r[f]] /\ IsWhole(z, r)
    BY <1>3, TextOf, RowTyped
  <2> HIDE DEF r
  <2> QED BY <2>1
<1> HIDE DEF r, q
<1>8. Extends(q, r, {"has_key", "section"}) /\ q["has_key"] = v /\ q["section"] = S
  BY <1>2, <1>4, <1>7 DEF Extends, :>, @@
<1>9. Extras("config_sync") = {"has_key", "section"}
  BY DEF Extras
<1>10. HasExtras("config_sync", q)
  BY <1>5, <1>6, <1>8 DEF HasExtras, IsSection
<1>11. q = [f \in Fields(z) \cup Extras("config_sync") |-> q[f]]
  BY <1>7, <1>8, <1>9 DEF Extends
<1>12. IsWhole(z, q)
  <2>1. Extends(q, r, {"has_key", "section"})
    BY <1>8
  <2> QED BY <1>3, <1>7, <2>1, ExtendedRow
<1>13. IsRow("config_sync", q)
  BY <1>10, <1>11, <1>12, RowIs DEF z
<1> QED BY <1>13 DEF q

\* The bridge an interface is found in is text.
LEMMA MembershipTyped ==
  ASSUME NEW t, IsConfig(t), NEW name
  PROVE  BridgeMembership(t, name) \in Text
<1> DEFINE Q == {r \in t : Len(r) = 4 /\ r = MemberOf(r[2], name)}
           S == {q[2] : q \in Q}
<1>1. ASSUME NEW q \in Q PROVE q[2] \in Text
  <2>1. q \in Seq(Text) /\ Len(q) = 4
    BY <1>1 DEF IsConfig, IsPath
  <2> QED BY <2>1
<1>2. S \subseteq Text
  BY <1>1
<1>3. BridgeMembership(t, name) = IF S = {} THEN None ELSE CHOOSE b \in S : TRUE
  BY DEF BridgeMembership
<1> HIDE DEF S
<1> QED BY <1>2, <1>3, NoneText

\* The row of a VXLAN interface has its shape.
LEMMA VxlanRow ==
  ASSUME "vxlan" \in DOMAIN Ed, NEW t, IsConfig(t), NEW b, IsPath(b)
  PROVE  IsRow("vxlan", Vxlan_Row(t, b))
<1> DEFINE z == Ed["vxlan"].read
           r == Row(t, b, z)
           v == BridgeMembership(t, b[2])
           q == Vxlan_Row(t, b)
<1>1. z = Vxlan_Read
  <2>1. Ed["vxlan"] = Vxlan
    BY EditorIs
  <2> DEFINE x == Vxlan_Read y == Vxlan_Write
  <2>2. Vxlan = Editor("interfaces_vxlan", x, y)
    BY DEF Vxlan
  <2> HIDE DEF x, y
  <2>3. Editor("interfaces_vxlan", x, y).read = x
    BY DEF Editor
  <2>4. z = x
    BY <2>1, <2>2, <2>3
  <2> QED BY <2>4 DEF x
<1>2. "bridge" \notin Fields(z)
  <2> HIDE DEF z
  <2>1. /\ "bridge" \notin z.leaf /\ "bridge" \notin z.multi /\ "bridge" \notin z.flag /\ "bridge" \notin z.secret
        /\ "bridge" \notin DOMAIN z.pick /\ "bridge" \notin DOMAIN z.tags /\ "bridge" \notin DOMAIN z.gates
    BY <1>1 DEF Vxlan_Read, Common_Read, Schema, NoSubs, :>
  <2> QED BY <2>1 DEF Fields, Flat
<1>3. IsSchema(z)
  BY TypeOfEditor
<1>4. q = r @@ "bridge" :> v
  BY <1>1 DEF Vxlan_Row
<1>5. v \in Text
  BY MembershipTyped
<1> HIDE DEF z, v
<1>7. DOMAIN r = Fields(z) /\ r = [f \in Fields(z) |-> r[f]] /\ IsWhole(z, r)
  <2>1. r = [f \in Fields(z) |-> r[f]] /\ IsWhole(z, r)
    BY <1>3, TextOf, RowTyped
  <2> HIDE DEF r
  <2> QED BY <2>1
<1> HIDE DEF r, q
<1>8. Extends(q, r, {"bridge"}) /\ q["bridge"] = v
  BY <1>2, <1>4, <1>7 DEF Extends, :>, @@
<1>9. Extras("vxlan") = {"bridge"}
  BY DEF Extras
<1>10. HasExtras("vxlan", q)
  BY <1>5, <1>8 DEF HasExtras
<1>11. q = [f \in Fields(z) \cup Extras("vxlan") |-> q[f]]
  BY <1>7, <1>8, <1>9 DEF Extends
<1>12. IsWhole(z, q)
  <2>1. Extends(q, r, {"bridge"})
    BY <1>8
  <2> QED BY <1>3, <1>7, <2>1, ExtendedRow
<1>13. IsRow("vxlan", q)
  BY <1>10, <1>11, <1>12, RowIs DEF z
<1> QED BY <1>13 DEF q

\* The fields that a next-hop keeps in its own node.
LEMMA StaticHopIs ==
  ASSUME NEW kind
  PROVE  LET s == StaticHop(kind)
         IN  /\ s.leaf = {"distance"} \cup (IF kind = "next-hop" THEN {"interface"} ELSE {})
             /\ s.flag = IF kind = "blackhole" THEN {} ELSE {"disable"}
             /\ s.multi = {} /\ s.secret = {} /\ DOMAIN s.pick = {} /\ Subs(s) = {}
             /\ Flat(s) = s.leaf \cup s.flag /\ IsFlatSchema(s) /\ IsSchema(s)
<1> DEFINE L == {"distance"} \cup (IF kind = "next-hop" THEN {"interface"} ELSE {})
           F == IF kind = "blackhole" THEN {} ELSE {"disable"}
           s == StaticHop(kind)
<1>1. s = Schema(L, {}, F)
  BY DEF StaticHop
<1>2. L \cup {} \cup F \subseteq Word
  BY TextAssumption DEF Keywords, Word, None
<1>3. L \cap {} = {} /\ L \cap F = {} /\ {} \cap F = {} /\ {} \cap Blankable = {}
  OBVIOUS
<1> HIDE DEF L, F, s
<1>4. IsFlatSchema(Schema(L, {}, F)) /\ IsSchema(Schema(L, {}, F))
  BY <1>2, <1>3, PlainIsSchema
<1>5. /\ s.leaf = L /\ s.multi = {} /\ s.flag = F /\ s.secret = {} /\ DOMAIN s.pick = {}
      /\ Subs(s) = {} /\ Flat(s) = L \cup {} \cup F
  BY <1>1, PlainSchema
<1> QED BY <1>1, <1>4, <1>5 DEF L, F, s

\* The fields of a static route's row.
LEMMA StaticReadIs ==
  LET s == StaticRoute_Read
  IN  /\ s.leaf = {"distance", "interface", "description"} /\ s.flag = {"disable"} /\ s.multi = {} /\ s.secret = {}
      /\ DOMAIN s.pick = {} /\ Subs(s) = {} /\ Flat(s) = s.leaf \cup s.flag /\ Fields(s) = s.leaf \cup s.flag
      /\ FlatApart(s)
<1> DEFINE L == {"distance", "interface", "description"}
           F == {"disable"}
           s == StaticRoute_Read
<1>1. s = Schema(L, {}, F)
  BY DEF StaticRoute_Read
<1>2. L \cap F = {}
  OBVIOUS
<1> HIDE DEF L, F, s
<1>5. /\ s.leaf = L /\ s.multi = {} /\ s.flag = F /\ s.secret = {} /\ DOMAIN s.pick = {}
      /\ Subs(s) = {} /\ Flat(s) = L \cup {} \cup F /\ Fields(s) = L \cup {} \cup F /\ s.quiet = {}
  BY <1>1, PlainSchema
<1>6. FlatApart(s)
  BY <1>2, <1>5 DEF FlatApart
<1> QED BY <1>5, <1>6 DEF L, F, s

\* A blank row has nothing in its fields.
LEMMA BlankTyped ==
  ASSUME NEW s, FlatApart(s), NEW f \in Flat(s)
  PROVE  /\ f \in s.leaf \cup s.secret => Blank(s)[f] = None
         /\ f \in s.multi => Blank(s)[f] = {}
         /\ f \in s.flag => Blank(s)[f] = FALSE
<1>1. f \in Fields(s)
  BY DEF Fields
<1> QED BY <1>1 DEF Blank, FlatApart, Flat

\* A path of three texts.
LEMMA ThreeTexts ==
  ASSUME NEW x \in Text, NEW y \in Text, NEW w \in Text
  PROVE  <<x, y>> \o <<w>> \in Seq(Text) /\ Len(<<x, y>> \o <<w>>) >= 2
OBVIOUS

\* An element of a sequence of texts is text.
LEMMA Nth == ASSUME NEW k \in Seq(Text), NEW i \in 1..Len(k) PROVE k[i] \in Text
OBVIOUS

\* The fields of the row of a next-hop, by its kind.
LEMMA HopFields ==
  ASSUME NEW kind, NEW r, DOMAIN r = Flat(StaticHop(kind))
  PROVE  /\ DOMAIN r \subseteq {"distance", "interface", "disable"} /\ "distance" \in DOMAIN r
         /\ "interface" \in DOMAIN r <=> kind = "next-hop"
         /\ "disable" \in DOMAIN r <=> kind # "blackhole"
<1> DEFINE s == StaticHop(kind)
<1>1. /\ s.leaf = {"distance"} \cup (IF kind = "next-hop" THEN {"interface"} ELSE {})
      /\ s.flag = (IF kind = "blackhole" THEN {} ELSE {"disable"}) /\ DOMAIN r = s.leaf \cup s.flag
  BY StaticHopIs
<1> HIDE DEF s
<1>2. CASE kind = "next-hop"
  <2>1. s.leaf = {"distance", "interface"} /\ s.flag = {"disable"}
    BY <1>1, <1>2
  <2> QED BY <1>1, <1>2, <2>1
<1>3. CASE kind = "blackhole"
  <2>1. s.leaf = {"distance"} /\ s.flag = {}
    BY <1>1, <1>3
  <2> QED BY <1>1, <1>3, <2>1
<1>4. CASE kind \notin {"next-hop", "blackhole"}
  <2>1. s.leaf = {"distance"} /\ s.flag = {"disable"}
    BY <1>1, <1>4
  <2> QED BY <1>1, <1>4, <2>1
<1> QED BY <1>2, <1>3, <1>4

\* The row of a next-hop, put together from its node and its route's description, has its shape.
LEMMA HopRow ==
  ASSUME NEW t, IsConfig(t), NEW hop \in Seq(Text), Len(hop) >= 2, NEW kind, NEW v \in Text,
         NEW q, q = FlatRow(At(t, hop), StaticHop(kind)) @@ "description" :> v @@ Blank(StaticRoute_Read)
  PROVE  /\ q = [f \in {"distance", "interface", "description", "disable"} |-> q[f]]
         /\ q["distance"] \in Text /\ q["interface"] \in Text /\ q["description"] = v /\ q["disable"] \in BOOLEAN
<1> DEFINE s == StaticHop(kind)
           r == FlatRow(At(t, hop), s)
           d == Blank(StaticRoute_Read)
           m == r @@ "description" :> v
<1>1. IsFlatSchema(s) /\ s.leaf \cup s.flag = Flat(s)
  BY StaticHopIs
<1>2. /\ DOMAIN d = {"distance", "interface", "description", "disable"}
      /\ d["interface"] = None /\ d["disable"] = FALSE
  <2>1. DOMAIN d = Fields(StaticRoute_Read)
    BY DEF Blank
  <2>2. d["interface"] = None /\ d["disable"] = FALSE
    BY StaticReadIs, BlankTyped
  <2> QED BY <2>1, <2>2, StaticReadIs
<1>3. IsFlatRow(s, r) /\ DOMAIN r = Flat(s)
  <2>1. IsFlatRow(s, r) /\ r = [f \in Flat(s) |-> r[f]]
    BY <1>1, FlatRowTyped
  <2> HIDE DEF r
  <2> QED BY <2>1
<1>4. q = m @@ d
  OBVIOUS
<1> HIDE DEF r, d
<1>5. /\ DOMAIN r \subseteq {"distance", "interface", "disable"} /\ "distance" \in DOMAIN r
      /\ "interface" \in DOMAIN r <=> kind = "next-hop"
      /\ "disable" \in DOMAIN r <=> kind # "blackhole"
  BY <1>3, HopFields
<1>6. /\ "distance" \in s.leaf /\ (kind = "next-hop" => "interface" \in s.leaf)
      /\ (kind # "blackhole" => "disable" \in s.flag)
  BY StaticHopIs
<1>7. DOMAIN m = DOMAIN r \cup {"description"} /\ m["description"] = v /\ \A f \in DOMAIN r : m[f] = r[f]
  BY <1>5 DEF :>, @@
<1> HIDE DEF m, s
<1>8. q = [f \in DOMAIN m \cup DOMAIN d |-> IF f \in DOMAIN m THEN m[f] ELSE d[f]]
  BY <1>4 DEF @@
<1>9. DOMAIN m \cup DOMAIN d = {"distance", "interface", "description", "disable"}
  BY <1>2, <1>5, <1>7
<1>10. /\ q = [f \in {"distance", "interface", "description", "disable"} |-> q[f]]
       /\ \A f \in {"distance", "interface", "description", "disable"} : q[f] = IF f \in DOMAIN m THEN m[f] ELSE d[f]
  BY <1>8, <1>9
<1>11. q["distance"] \in Text
  <2>1. q["distance"] = r["distance"]
    BY <1>5, <1>7, <1>10
  <2> QED BY <1>3, <1>6, <2>1 DEF IsFlatRow
<1>12. q["interface"] \in Text
  <2>1. CASE kind = "next-hop"
    <3>1. q["interface"] = r["interface"]
      BY <1>5, <1>7, <1>10, <2>1
    <3> QED BY <1>3, <1>6, <2>1, <3>1 DEF IsFlatRow
  <2>2. CASE kind # "next-hop"
    <3>1. "interface" \notin DOMAIN m
      BY <1>5, <1>7, <2>2
    <3> QED BY <1>2, <1>10, <3>1, NoneText
  <2> QED BY <2>1, <2>2
<1>13. q["disable"] \in BOOLEAN
  <2>1. CASE kind # "blackhole"
    <3>1. q["disable"] = r["disable"]
      BY <1>5, <1>7, <1>10, <2>1
    <3> QED BY <1>3, <1>6, <2>1, <3>1 DEF IsFlatRow
  <2>2. CASE kind = "blackhole"
    <3>1. "disable" \notin DOMAIN m
      BY <1>5, <1>7, <2>2
    <3> QED BY <1>2, <1>10, <3>1
  <2> QED BY <2>1, <2>2
<1>14. q["description"] = v
  BY <1>7, <1>10
<1> QED BY <1>10, <1>11, <1>12, <1>13, <1>14

\* The editor of static routes, and the kinds of its fields.
LEMMA StaticRouteIs ==
  ASSUME "static_route" \in DOMAIN Ed
  PROVE  /\ Ed["static_route"].read = StaticRoute_Read /\ Ed["static_route"].at = StaticRoute_At
         /\ RowFields("static_route") = {"distance", "interface", "description", "disable"}
         /\ \A f, v : IsField("static_route", f, v)
                <=> /\ f \in {"distance", "interface", "description"} => v \in Text
                    /\ f = "disable" => v \in BOOLEAN
<1> DEFINE z == Ed["static_route"].read
<1>1. Ed["static_route"] = StaticRoute
  BY EditorIs
<1>2. z = StaticRoute_Read /\ Ed["static_route"].at = StaticRoute_At
  BY <1>1 DEF StaticRoute, Editor
<1>3. /\ z.leaf = {"distance", "interface", "description"} /\ z.flag = {"disable"} /\ z.multi = {} /\ z.secret = {}
      /\ DOMAIN z.pick = {} /\ Subs(z) = {} /\ Fields(z) = {"distance", "interface", "description", "disable"}
  BY <1>2, StaticReadIs
<1>4. RowFields("static_route") = {"distance", "interface", "description", "disable"}
  BY <1>3 DEF RowFields, Extras
<1> HIDE DEF z
<1>5. ASSUME NEW f, NEW v
      PROVE  IsField("static_route", f, v)
                <=> /\ f \in {"distance", "interface", "description"} => v \in Text
                    /\ f = "disable" => v \in BOOLEAN
  BY <1>3 DEF IsField, IsFlatField, IsExtra, z
<1> QED BY <1>2, <1>4, <1>5 DEF z

\* The row of a static route has its shape.
LEMMA StaticRouteRow ==
  ASSUME "static_route" \in DOMAIN Ed, NEW t, IsConfig(t), NEW k, IsKey("static_route", k)
  PROVE  IsRow("static_route", StaticRoute_Row(t, k))
<1> DEFINE hop == HopPath(k)
           v == Val(t, RouteBase(k) \o <<"description">>)
           q == StaticRoute_Row(t, k)
<1>1. hop \in Seq(Text) /\ Len(hop) >= 2
  <2>1. IsPath(Base("static_route", k))
    BY DEF IsKey
  <2>2. Base("static_route", k) = hop
    BY StaticRouteIs DEF Base, HopPath
  <2>3. IsPath(hop)
    BY <2>1, <2>2
  <2> QED BY <2>3, TextOf
<1>2. v \in Text
  <2>1. k \in Seq(Text) /\ Len(k) = 3
    <3>1. Ed["static_route"].keyed
      BY EditorIs DEF StaticRoute, Editor
    <3> QED BY <3>1 DEF IsKey
  <2>2. k[1] \in Text
    <3>1. 1 \in 1..Len(k)
      BY <2>1
    <3> QED BY <2>1, <3>1, Nth
  <2>3. StaticRoute_At \in Text /\ "description" \in Text
    BY TextAssumption DEF Keywords, StaticRoute_At
  <2>4. RouteBase(k) \o <<"description">> \in Seq(Text) /\ Len(RouteBase(k) \o <<"description">>) >= 2
    BY <2>2, <2>3, ThreeTexts DEF RouteBase
  <2> HIDE DEF v
  <2>5. Val(t, RouteBase(k) \o <<"description">>) \in Text
    BY <2>4, ValsTyped
  <2> QED BY <2>5 DEF v
<1> DEFINE kind == k[2]
<1>3. q = FlatRow(At(t, hop), StaticHop(kind)) @@ "description" :> v @@ Blank(StaticRoute_Read)
  BY DEF StaticRoute_Row
<1> HIDE DEF hop, v, q, kind
<1>4. /\ q = [f \in {"distance", "interface", "description", "disable"} |-> q[f]]
      /\ q["distance"] \in Text /\ q["interface"] \in Text /\ q["description"] = v /\ q["disable"] \in BOOLEAN
  BY <1>1, <1>2, <1>3, HopRow
<1>5. ASSUME NEW f \in RowFields("static_route") PROVE IsField("static_route", f, q[f])
  BY <1>2, <1>4, StaticRouteIs
<1>6. q = [f \in RowFields("static_route") |-> q[f]]
  BY <1>4, StaticRouteIs
<1>7. IsRow("static_route", q)
  BY <1>5, <1>6, Fieldwise
<1> QED BY <1>7 DEF q

\* The fields of a NAT rule,
LEMMA NatReadIs ==
  LET s == NatRule_Read
  IN  /\ s.leaf = {"description", "interface_name", "interface_group", "source_address", "source_network-group",
                   "source_address-group", "source_port", "destination_address", "destination_port",
                   "translation_address", "translation_port", "protocol"}
      /\ s.flag = {"disable"} /\ s.multi = {} /\ s.secret = {} /\ DOMAIN s.pick = {} /\ Subs(s) = {}
      /\ Fields(s) = s.leaf \cup s.flag /\ Flat(s) = s.leaf \cup s.flag
<1> DEFINE L == {"description", "interface_name", "interface_group", "source_address", "source_network-group",
                   "source_address-group", "source_port", "destination_address", "destination_port",
                   "translation_address", "translation_port", "protocol"}
           F == {"disable"}
           s == NatRule_Read
<1>1. s = Schema(L, {}, F)
  BY DEF NatRule_Read
<1> HIDE DEF L, F, s
<1>5. /\ s.leaf = L /\ s.multi = {} /\ s.flag = F /\ s.secret = {} /\ DOMAIN s.pick = {}
      /\ Subs(s) = {} /\ Flat(s) = L \cup {} \cup F /\ Fields(s) = L \cup {} \cup F /\ s.quiet = {}
  BY <1>1, PlainSchema
<1> QED BY <1>5 DEF L, F, s

\* which are a schema of the console.
LEMMA NatSchema == IsSchema(NatRule_Read) /\ IsFlatSchema(NatRule_Read)
<1> DEFINE L == {"description", "interface_name", "interface_group", "source_address", "source_network-group",
                   "source_address-group", "source_port", "destination_address", "destination_port",
                   "translation_address", "translation_port", "protocol"}
           F == {"disable"}
<1>1. NatRule_Read = Schema(L, {}, F)
  BY DEF NatRule_Read
<1>2. L \cup {} \cup F \subseteq Word
  <2>1. Fields(NatRule_Read) = L \cup F
    BY NatReadIs
  <2>2. Fields(NatRule_Read) \subseteq Text
    BY TextAssumption DEF Keywords
  <2>3. \A f \in L \cup F : f # None
    BY DEF None
  <2> HIDE DEF L, F
  <2> QED BY <2>1, <2>2, <2>3 DEF Word
<1>3. L \cap {} = {} /\ L \cap F = {} /\ {} \cap F = {} /\ {} \cap Blankable = {}
  OBVIOUS
<1> HIDE DEF L, F
<1> QED BY <1>1, <1>2, <1>3, PlainIsSchema

\* The row of a NAT rule has fields of their kinds.
LEMMA NatRuleRowTyped ==
  ASSUME NEW t, IsConfig(t), NEW section \in Text, NEW n \in Text, NEW r, r = NatRule_Row(t, section, n)
  PROVE  /\ r = [f \in Fields(NatRule_Read) |-> r[f]]
         /\ \A f \in NatRule_Read.leaf : r[f] \in Text
         /\ r["disable"] \in BOOLEAN
<1> DEFINE s == NatRule_Read
           b == NatRule_At(section, n)
<1>1. b \in Seq(Text) /\ Len(b) >= 2
  <2>1. "nat" \in Text
    BY TextAssumption DEF Keywords
  <2> QED BY <2>1 DEF NatRule_At
<1>2. r = Row(t, b, s)
  BY DEF NatRule_Row
<1>3. "disable" \in s.flag
  BY NatReadIs
<1> HIDE DEF s, b
<1>4. r = [f \in Fields(s) |-> r[f]] /\ IsFlatRow(s, r)
  BY <1>1, <1>2, NatSchema, RowTyped DEF IsWhole, IsBody, s
<1> QED BY <1>3, <1>4 DEF IsFlatRow, s

\* The editor of 1-to-1 mappings, and the kinds of its fields.
LEMMA StaticNatIs ==
  ASSUME "nat_static" \in DOMAIN Ed
  PROVE  /\ Ed["nat_static"].at = "nat" /\ Ed["nat_static"].keyed
         /\ RowFields("nat_static") = {"description", "interface", "internal", "external", "disable"}
         /\ \A f, v : IsField("nat_static", f, v)
                <=> /\ f \in {"description", "interface", "internal", "external"} => v \in Text
                    /\ f = "disable" => v \in BOOLEAN
<1> DEFINE z == Ed["nat_static"].read
           L == {"description", "interface", "internal", "external"}
           F == {"disable"}
<1>1. Ed["nat_static"] = StaticNat
  BY EditorIs
<1>2. z = Schema(L, {}, F) /\ Ed["nat_static"].at = "nat" /\ Ed["nat_static"].keyed
  BY <1>1 DEF StaticNat, Editor
<1> HIDE DEF z, L, F
<1>3. /\ z.leaf = L /\ z.flag = F /\ z.multi = {} /\ z.secret = {}
      /\ DOMAIN z.pick = {} /\ Subs(z) = {} /\ Fields(z) = L \cup {} \cup F
  BY <1>2, PlainSchema
<1>4. RowFields("nat_static") = {"description", "interface", "internal", "external", "disable"}
  BY <1>3 DEF RowFields, Extras, z, L, F
<1>5. ASSUME NEW f, NEW v
      PROVE  IsField("nat_static", f, v)
                <=> /\ f \in {"description", "interface", "internal", "external"} => v \in Text
                    /\ f = "disable" => v \in BOOLEAN
  BY <1>3 DEF IsField, IsFlatField, IsExtra, z, L, F
<1> QED BY <1>2, <1>4, <1>5 DEF z

\* The row of a 1-to-1 mapping has its shape.
LEMMA StaticNatRow ==
  ASSUME "nat_static" \in DOMAIN Ed, NEW t, IsConfig(t), NEW n \in Text
  PROVE  IsRow("nat_static", StaticNat_Row(t, n))
<1> DEFINE s == NatRule_Row(t, "source", n)
           d == NatRule_Row(t, "destination", n)
           q == StaticNat_Row(t, n)
<1>1. "source" \in Text /\ "destination" \in Text
  BY TextAssumption DEF Keywords
<1>2. /\ \A f \in NatRule_Read.leaf : s[f] \in Text
      /\ s["disable"] \in BOOLEAN
  BY <1>1, NatRuleRowTyped
<1>3. /\ \A f \in NatRule_Read.leaf : d[f] \in Text
      /\ d["disable"] \in BOOLEAN
  BY <1>1, NatRuleRowTyped
<1>4. q = [f \in {"description", "interface", "internal", "external", "disable"} |->
        CASE f = "description" -> IF s[f] # None THEN s[f] ELSE d[f]
          [] f = "interface" -> s["interface_name"]
          [] f = "internal" -> s["source_address"]
          [] f = "external" -> s["translation_address"]
          [] f = "disable" -> s[f] \/ d[f]]
  BY DEF StaticNat_Row
<1> HIDE DEF s, d, q
<1>5. /\ s["description"] \in Text /\ s["interface_name"] \in Text /\ s["source_address"] \in Text
      /\ s["translation_address"] \in Text /\ d["description"] \in Text
  BY <1>2, <1>3, NatReadIs
<1>6. /\ q["description"] \in Text /\ q["interface"] \in Text /\ q["internal"] \in Text /\ q["external"] \in Text
  BY <1>4, <1>5
<1>7. q["disable"] \in BOOLEAN
  <2>1. q["disable"] = (s["disable"] \/ d["disable"])
    BY <1>4
  <2> QED BY <1>2, <1>3, <2>1
<1>8. q = [f \in RowFields("nat_static") |-> q[f]]
  BY <1>4, StaticNatIs
<1>9. ASSUME NEW f \in RowFields("nat_static") PROVE IsField("nat_static", f, q[f])
  BY <1>6, <1>7, StaticNatIs
<1>10. IsRow("nat_static", q)
  BY <1>8, <1>9, Fieldwise
<1> QED BY <1>10 DEF q

\* Sub-nodes that are kept on a condition are sub-nodes, or none.
LEMMA IfSetTyped ==
  ASSUME NEW s, NEW n, NEW v, IsSubs(s, n, v), NEW x
  PROVE  IsSubs(s, n, IfSet(x, v))
<1> DEFINE w == IfSet(x, v)
<1>1. w = [k \in {y \in DOMAIN v : v[y] # Blank(x)} |-> v[k]]
  BY DEF IfSet
<1> HIDE DEF w
<1>2. w = [k \in DOMAIN w |-> w[k]]
  BY <1>1
<1>3. ASSUME NEW k \in DOMAIN w PROVE IsTagKey(s, n, k) /\ IsSubRow(SubSchema(s, n), w[k])
  <2>1. k \in DOMAIN v /\ w[k] = v[k]
    BY <1>1
  <2> QED BY <2>1 DEF IsSubs
<1>4. IsSubs(s, n, w)
  BY <1>2, <1>3 DEF IsSubs
<1> QED BY <1>4 DEF w

\* The editor of OpenVPN interfaces.
LEMMA OpenvpnIs ==
  ASSUME "openvpn" \in DOMAIN Ed
  PROVE  /\ Ed["openvpn"].read = Openvpn_Read /\ Ed["openvpn"].write = Openvpn_Read
         /\ Ed["openvpn"].at = "interfaces_openvpn" /\ Ed["openvpn"].keyed
         /\ Extras("openvpn") = {"mode"} /\ "mode" \notin Fields(Openvpn_Read)
         /\ DOMAIN Openvpn_Read.gates = {"authentication", "server"} /\ DOMAIN Openvpn_Read.tags = {}
<1> DEFINE s == Openvpn_Read
<1>1. Ed["openvpn"] = Openvpn
  BY EditorIs
<1>2. Openvpn = Editor("interfaces_openvpn", s, s)
  BY DEF Openvpn, Openvpn_Write
<1>3. DOMAIN s.gates = {"authentication", "server"} /\ DOMAIN s.tags = {}
  <2> DEFINE x == OpenvpnAuth y == OpenvpnServer
  <2>1. s.gates = "authentication" :> x @@ "server" :> y
    BY DEF Openvpn_Read, Schema
  <2>2. DOMAIN s.tags = {}
    BY DEF Openvpn_Read, Schema, NoSubs
  <2> HIDE DEF s, x, y
  <2> QED BY <2>1, <2>2 DEF :>, @@
<1>4. "mode" \notin s.leaf /\ "mode" \notin s.multi /\ "mode" \notin s.flag /\ "mode" \notin s.secret /\ "mode" \notin DOMAIN s.pick
  BY DEF Openvpn_Read, Schema, NoSubs
<1> HIDE DEF s
<1>5. Editor("interfaces_openvpn", s, s).read = s /\ Editor("interfaces_openvpn", s, s).write = s
      /\ Editor("interfaces_openvpn", s, s).at = "interfaces_openvpn" /\ Editor("interfaces_openvpn", s, s).keyed
  BY DEF Editor
<1>6. "mode" \notin Fields(s)
  BY <1>3, <1>4 DEF Fields, Flat
<1>7. Extras("openvpn") = {"mode"}
  BY DEF Extras
<1> QED BY <1>1, <1>2, <1>3, <1>5, <1>6, <1>7 DEF s

\* The mode of an OpenVPN interface is one the editor knows, or not set.
LEMMA KnownMode ==
  ASSUME "openvpn" \in DOMAIN Ed, NEW t, IsConfig(t), IsKnown("openvpn", t), NEW k, IsKey("openvpn", k)
  PROVE  Val(t, Base("openvpn", k) \o <<"mode">>) \in OpenvpnModes \cup {None}
<1> DEFINE p == Base("openvpn", k) \o <<"mode">>
           n == Len(p) + 1
           Q == {r \in t : Len(r) >= n /\ SubSeq(r, 1, n - 1) = p}
<1>1. k \in Seq(Text) /\ Len(k) = 1
  BY OpenvpnIs DEF IsKey
<1>2. /\ "interfaces_openvpn" \in Text /\ "mode" \in Text
      /\ Base("openvpn", k) = <<"interfaces_openvpn">> \o k
  <2>1. "interfaces_openvpn" \in Text
    BY TypeOfEditor, OpenvpnIs
  <2> QED BY <2>1, OpenvpnIs, TextAssumption DEF Base, Keywords
<1> DEFINE x == "interfaces_openvpn"
           y == "mode"
           w == <<x>> \o k
<1>3. x \in Text /\ y \in Text /\ p = w \o <<y>>
  BY <1>2
<1> HIDE DEF p, x, y
<1>4. p \in Seq(Text) /\ Len(p) = 3 /\ p[1] = x /\ p[3] = y
  <2>1. w \in Seq(Text) /\ Len(w) = Len(k) + 1 /\ w[1] = x
    BY <1>1, <1>3, Prepended
  <2> HIDE DEF w
  <2>3. p \in Seq(Text) /\ Len(p) = Len(w) + 1 /\ p[Len(w) + 1] = y /\ \A i \in 1..Len(w) : p[i] = w[i]
    BY <1>3, <2>1, Appended
  <2> QED BY <1>1, <2>1, <2>3
<1>5. ASSUME NEW q \in Q PROVE q[n] \in OpenvpnModes
  <2>1. q \in t /\ Len(q) >= 4 /\ n = 4 /\ SubSeq(q, 1, 3) = p
    BY <1>4
  <2>2. q \in Seq(Text)
    BY <2>1 DEF IsConfig, IsPath
  <2>3. q[1] = SubSeq(q, 1, 3)[1] /\ q[3] = SubSeq(q, 1, 3)[3]
    BY <2>1, <2>2
  <2>4. q[1] = "interfaces_openvpn" /\ q[3] = "mode"
    BY <1>4, <2>1, <2>3 DEF x, y
  <2> QED BY <2>1, <2>4 DEF IsKnown
<1>6. Val(t, p) = LET vs == {q[n] : q \in Q} IN IF vs = {} THEN None ELSE CHOOSE v \in vs : TRUE
  BY DEF Val, Vals
<1> DEFINE vs == {q[n] : q \in Q}
<1>7. vs \subseteq OpenvpnModes /\ Val(t, p) = IF vs = {} THEN None ELSE CHOOSE v \in vs : TRUE
  BY <1>5, <1>6
<1> HIDE DEF vs
<1>8. Val(t, p) \in OpenvpnModes \cup {None}
  BY <1>7
<1> QED BY <1>8 DEF p

\* The row of an OpenVPN interface has its shape.
LEMMA OpenvpnRow ==
  ASSUME "openvpn" \in DOMAIN Ed, NEW t, IsConfig(t), IsKnown("openvpn", t), NEW k, IsKey("openvpn", k)
  PROVE  IsRow("openvpn", Openvpn_Row(t, Base("openvpn", k)))
<1> DEFINE s == Openvpn_Read
           b == Base("openvpn", k)
           r == Row(t, b, s)
           v == Val(t, b \o <<"mode">>)
           m == IF v = None THEN "site-to-site" ELSE v
           g == [n \in DOMAIN s.gates |-> IfSet(s.gates[n], r[n])]
           q == Openvpn_Row(t, b)
<1>1. b \in Seq(Text) /\ Len(b) >= 2
  BY TextOf DEF IsKey
<1>2. v \in OpenvpnModes \cup {None}
  BY KnownMode
<1>3. m \in OpenvpnModes
  <2> HIDE DEF v
  <2> QED BY <1>2 DEF OpenvpnModes
<1>4. q = "mode" :> m @@ g @@ r
  BY DEF Openvpn_Row
<1>5. IsSchema(s)
  BY TypeOfEditor, OpenvpnIs
<1>6. r = [f \in Fields(s) |-> r[f]] /\ IsWhole(s, r)
  BY <1>1, <1>5, RowTyped
<1>7. DOMAIN g = DOMAIN s.gates /\ \A n \in DOMAIN s.gates : g[n] = IfSet(s.gates[n], r[n])
  OBVIOUS
<1> HIDE DEF m, v, g, r, s, b
<1> DEFINE a == "mode" :> m @@ g
<1>8. DOMAIN a = {"mode"} \cup DOMAIN g /\ a["mode"] = m /\ \A n \in DOMAIN g : n # "mode" => a[n] = g[n]
  BY DEF :>, @@
<1>9. q = [f \in DOMAIN a \cup DOMAIN r |-> IF f \in DOMAIN a THEN a[f] ELSE r[f]]
  BY <1>4 DEF @@
<1> HIDE DEF a, q
<1>10. RowFields("openvpn") = Fields(s) \cup {"mode"} /\ DOMAIN s.gates \subseteq Fields(s) /\ "mode" \notin Fields(s)
  BY OpenvpnIs DEF RowFields, s, Fields
<1>11. DOMAIN a \cup DOMAIN r = RowFields("openvpn")
  BY <1>6, <1>7, <1>8, <1>10
<1>12. q = [f \in RowFields("openvpn") |-> q[f]]
  BY <1>9, <1>11
<1>13. q["mode"] = m
  BY <1>8, <1>9
<1>14. ASSUME NEW n \in DOMAIN s.gates PROVE q[n] = IfSet(s.gates[n], r[n])
  BY <1>7, <1>8, <1>9, <1>10
<1>15. ASSUME NEW f \in Fields(s) \ DOMAIN s.gates PROVE q[f] = r[f]
  <2>1. f \notin DOMAIN a
    BY <1>7, <1>8, <1>10
  <2> QED BY <1>6, <1>9, <2>1
<1>16. ASSUME NEW n \in Subs(s) PROVE IsSubs(s, n, r[n])
  BY <1>6 DEF IsWhole, IsBody, IsSubs, IsSubRow
<1>17. IsFlatRow(s, r)
  BY <1>6 DEF IsWhole, IsBody
<1>18. \A f \in Flat(s) : f \in Fields(s) \ DOMAIN s.gates
  BY <1>5 DEF IsSchema, Apart, Fields
<1>19. ASSUME NEW f \in RowFields("openvpn") PROVE IsField("openvpn", f, q[f])
  <2>1. IsFlatField(s, f, q[f])
    <3>1. CASE f \in Flat(s)
      BY <1>15, <1>17, <1>18, <3>1, FlatFieldwise
    <3>2. CASE f \notin Flat(s)
      BY <3>2 DEF IsFlatField, Flat
    <3> QED BY <3>1, <3>2
  <2>2. f \in Subs(s) => IsSubs(s, f, q[f])
    <3>1. CASE f \in DOMAIN s.gates
      BY <1>14, <1>16, <3>1, IfSetTyped DEF Subs
    <3>2. CASE f \notin DOMAIN s.gates
      BY <1>15, <1>16, <3>2 DEF Subs, Fields
    <3> QED BY <3>1, <3>2
  <2>3. IsExtra("openvpn", f, q[f])
    BY <1>3, <1>13 DEF IsExtra
  <2> QED BY <2>1, <2>2, <2>3, OpenvpnIs DEF IsField, s
<1>20. IsRow("openvpn", q)
  BY <1>12, <1>19, Fieldwise
<1> QED BY <1>20 DEF q, b

\* An object is at a path.
LEMMA KeyPath ==
  ASSUME NEW e, NEW k, IsKey(e, k)
  PROVE  IsPath(Base(e, k)) /\ Base(e, k) \in Seq(Text) /\ Len(Base(e, k)) >= 2 /\ k \in Seq(Text)
BY TextOf DEF IsKey

\* Three editors keep something beside the fields of their schema.
LEMMA Plain ==
  ASSUME NEW e, e \notin {"openvpn", "vxlan", "config_sync"}
  PROVE  Extras(e) = {}
BY DEF Extras

\* What a page shows of an object is a row of its editor.
LEMMA RowOfTyped ==
  ASSUME NEW e \in DOMAIN Ed, NEW t, IsConfig(t), IsKnown(e, t), NEW k, IsKey(e, k)
  PROVE  IsRow(e, RowOf(e, t, k))
<1> DEFINE b == Base(e, k)
<1>1. IsPath(b) /\ b \in Seq(Text) /\ Len(b) >= 2 /\ k \in Seq(Text)
  BY KeyPath
<1>2. CASE e = "static_route"
  BY <1>2, StaticRouteRow DEF RowOf
<1>3. CASE e = "ospf_area"
  BY <1>1, <1>3, OspfAreaRow DEF RowOf
<1>4. CASE e = "config_sync"
  BY <1>1, <1>4, ConfigSyncRow DEF RowOf
<1>5. CASE e = "vxlan"
  BY <1>1, <1>5, VxlanRow DEF RowOf
<1>6. CASE e = "nat_static"
  <2>1. k[1] \in Text
    <3>1. Len(k) = 1 /\ k \in Seq(Text)
      BY <1>6, StaticNatIs DEF IsKey
    <3>2. 1 \in 1..Len(k)
      BY <3>1
    <3> QED BY <3>1, <3>2, Nth
  <2> QED BY <1>6, <2>1, StaticNatRow DEF RowOf
<1>7. CASE e \in {"alias", "policy", "zone"}
  BY <1>1, <1>7, MarkedRows DEF RowOf
<1>8. CASE e = "general"
  BY <1>1, <1>8, GeneralRow DEF RowOf
<1>9. CASE e = "openvpn"
  BY <1>9, OpenvpnRow DEF RowOf
<1>10. CASE e \notin {"static_route", "ospf_area", "config_sync", "vxlan", "nat_static", "alias", "policy", "zone", "general", "openvpn"}
  <2>1. RowOf(e, t, k) = Row(t, b, Ed[e].read)
    BY <1>10 DEF RowOf
  <2>2. Extras(e) = {}
    BY <1>10, Plain
  <2> HIDE DEF b
  <2> QED BY <1>1, <2>1, <2>2, PlainRow
<1> QED BY <1>2, <1>3, <1>4, <1>5, <1>6, <1>7, <1>8, <1>9, <1>10

\* A value of a field's kind is right for it.
LEMMA FieldKinds ==
  ASSUME NEW e \in DOMAIN Ed, NEW f, f \notin Extras(e), NEW v
  PROVE  /\ f \in Ed[e].read.leaf \cup Ed[e].read.secret => (IsField(e, f, v) <=> v \in Text)
         /\ f \in DOMAIN Ed[e].read.pick => (IsField(e, f, v) <=> v \in Word)
         /\ f \in Ed[e].read.multi => (IsField(e, f, v) <=> v \subseteq Word)
         /\ f \in Ed[e].read.flag => (IsField(e, f, v) <=> v \in BOOLEAN)
         /\ f \in Subs(Ed[e].read) => (IsField(e, f, v) <=> IsSubs(Ed[e].read, f, v))
<1> DEFINE s == Ed[e].read
<1>1. IsSchema(s)
  BY TypeOfEditor
<1>2. IsExtra(e, f, v)
  BY DEF IsExtra, Extras
<1>3. IsField(e, f, v) <=> IsFlatField(s, f, v) /\ (f \in Subs(s) => IsSubs(s, f, v))
  BY <1>2 DEF IsField
<1> HIDE DEF s
<1>4. FlatApart(s) /\ Flat(s) \cap Subs(s) = {}
  BY <1>1 DEF IsSchema, Apart, Subs
<1>5. f \in s.leaf \cup s.secret => (IsFlatField(s, f, v) <=> v \in Text) /\ f \notin Subs(s)
  BY <1>4 DEF IsFlatField, FlatApart, Flat
<1>6. f \in DOMAIN s.pick => (IsFlatField(s, f, v) <=> v \in Word) /\ f \notin Subs(s)
  BY <1>4 DEF IsFlatField, FlatApart, Flat
<1>7. f \in s.multi => (IsFlatField(s, f, v) <=> v \subseteq Word) /\ f \notin Subs(s)
  BY <1>4 DEF IsFlatField, FlatApart, Flat
<1>8. f \in s.flag => (IsFlatField(s, f, v) <=> v \in BOOLEAN) /\ f \notin Subs(s)
  BY <1>4 DEF IsFlatField, FlatApart, Flat
<1>9. f \in Subs(s) => IsFlatField(s, f, v)
  BY <1>4 DEF IsFlatField, Flat
<1> QED BY <1>3, <1>5, <1>6, <1>7, <1>8, <1>9 DEF s

\* The fields of a row hold values of their kinds.
LEMMA RowHas ==
  ASSUME NEW e \in DOMAIN Ed, NEW r, IsRow(e, r)
  PROVE  /\ r = [f \in RowFields(e) |-> r[f]] /\ DOMAIN r = RowFields(e)
         /\ \A f \in RowFields(e) : IsField(e, f, r[f])
         /\ \A f \in Ed[e].read.leaf \cup Ed[e].read.secret : r[f] \in Text
         /\ \A f \in DOMAIN Ed[e].read.pick : r[f] \in Word
         /\ \A f \in Ed[e].read.multi : r[f] \subseteq Word
         /\ \A f \in Ed[e].read.flag : r[f] \in BOOLEAN
         /\ \A f \in Subs(Ed[e].read) : IsSubs(Ed[e].read, f, r[f])
<1>1. r = [f \in RowFields(e) |-> r[f]] /\ \A f \in RowFields(e) : IsField(e, f, r[f])
  BY Fieldwise
<1>2. DOMAIN r = RowFields(e)
  BY <1>1
<1>3. IsRow(e, r) => IsFlatRow(Ed[e].read, r) /\ \A f \in Subs(Ed[e].read) : IsSubs(Ed[e].read, f, r[f])
  BY DEF IsRow, IsSubs, IsTagKey
<1> QED BY <1>1, <1>2, <1>3 DEF IsFlatRow

\* The editors of NAT rules.
LEMMA NatIs ==
  ASSUME NEW e \in DOMAIN Ed, e \in {"nat_source", "nat_destination"}
  PROVE  /\ Ed[e].read = NatRule_Read /\ Ed[e].write = NatRule_Read /\ Ed[e].at = "nat" /\ Ed[e].keyed
         /\ Extras(e) = {} /\ RowFields(e) = Fields(NatRule_Read)
<1>1. Ed[e] = NatRule
  BY EditorIs
<1>2. NatRule.read = NatRule_Read /\ NatRule.write = NatRule_Read /\ NatRule.at = "nat" /\ NatRule.keyed
  BY DEF NatRule, NatRule_Write, Editor
<1>3. Extras(e) = {}
  BY Plain
<1> QED BY <1>1, <1>2, <1>3 DEF RowFields

\* The form of a NAT rule opens on a row of its shape.
LEMMA NatSeedTyped ==
  ASSUME NEW e \in DOMAIN Ed, e \in {"nat_source", "nat_destination"}, NEW r, IsRow(e, r), NEW section
  PROVE  IsRow(e, NatRule_Seed(section, r))
<1> DEFINE v == IF r["interface_name"] = None /\ r["interface_group"] = None THEN "if" ELSE r["interface_name"]
           w == IF r["translation_address"] = None /\ section = "source" THEN "masquerade" ELSE r["translation_address"]
           q == NatRule_Seed(section, r)
           a == [r EXCEPT !["interface_name"] = v]
<1>1. {"interface_name", "translation_address"} \subseteq Ed[e].read.leaf
  BY NatIs, NatReadIs
<1>2. "if" \in Text /\ "masquerade" \in Text
  BY TextAssumption DEF Keywords
<1>3. v \in Text /\ w \in Text
  BY <1>1, <1>2, RowHas
<1>4. q = [a EXCEPT !["translation_address"] = w]
  BY DEF NatRule_Seed
<1> HIDE DEF v, w, q
<1>5. Extras(e) = {}
  BY NatIs
<1>6. IsField(e, "interface_name", v) /\ IsField(e, "translation_address", w)
  BY <1>1, <1>3, <1>5, FieldKinds
<1>7. IsRow(e, a)
  BY <1>6, ReplacedOne
<1> HIDE DEF a
<1>8. IsRow(e, q)
  BY <1>4, <1>6, <1>7, ReplacedOne
<1> QED BY <1>8 DEF q

\* The editor of zones.
LEMMA ZoneIs ==
  ASSUME "zone" \in DOMAIN Ed
  PROVE  /\ Ed["zone"].at = "firewall_zone" /\ Ed["zone"].keyed /\ Extras("zone") = {}
         /\ Ed["zone"].read.leaf = {"default-action", "intra-zone-filtering_action", "display", "description"}
         /\ Ed["zone"].read.multi = {"member_interface"}
         /\ Ed["zone"].read.flag = {"local-zone", "default-log"}
<1>1. Ed["zone"] = Zone
  BY EditorIs
<1>2. Zone.read = Marked(Zone_Read, "display") /\ Zone.at = "firewall_zone" /\ Zone.keyed
  BY DEF Zone, Editor
<1>3. /\ Marked(Zone_Read, "display").leaf = {"default-action", "intra-zone-filtering_action", "display", "description"}
      /\ Marked(Zone_Read, "display").multi = {"member_interface"}
      /\ Marked(Zone_Read, "display").flag = {"local-zone", "default-log"}
  BY DEF Marked, Zone_Read, Schema
<1>4. Extras("zone") = {}
  BY Plain
<1> QED BY <1>1, <1>2, <1>3, <1>4

\* The form of a zone opens on a row of its shape.
LEMMA ZoneSeedTyped ==
  ASSUME "zone" \in DOMAIN Ed, NEW r, IsRow("zone", r)
  PROVE  IsRow("zone", Zone_Seed(r))
<1> DEFINE v == IF r["default-action"] = None THEN "drop" ELSE r["default-action"]
<1>1. "default-action" \in Ed["zone"].read.leaf
  BY ZoneIs
<1>2. "drop" \in Text
  BY TextAssumption DEF Keywords
<1>3. v \in Text
  BY <1>1, <1>2, RowHas
<1>4. Zone_Seed(r) = [r EXCEPT !["default-action"] = v]
  BY DEF Zone_Seed
<1> HIDE DEF v
<1>5. IsField("zone", "default-action", v)
  BY <1>1, <1>3, ZoneIs, FieldKinds
<1>6. IsRow("zone", [r EXCEPT !["default-action"] = v])
  BY <1>5, ReplacedOne
<1> QED BY <1>4, <1>6

\* The editor of IPsec peers.
LEMMA IpsecIs ==
  ASSUME "ipsec_peer" \in DOMAIN Ed
  PROVE  /\ Ed["ipsec_peer"].read = IpsecPeer_Read /\ Extras("ipsec_peer") = {}
         /\ {"authentication_mode", "authentication_pre-shared-secret", "vti_bind"} \subseteq IpsecPeer_Read.leaf
         /\ DOMAIN IpsecPeer_Read.tags = {"tunnel"} /\ IpsecPeer_Read.tags["tunnel"] = Tunnel_Read
         /\ {"protocol", "esp-group"} \subseteq Tunnel_Read.leaf
<1> DEFINE s == IpsecPeer_Read
<1>1. Ed["ipsec_peer"] = IpsecPeer
  BY EditorIs
<1>2. IpsecPeer = Editor("vpn_ipsec_site-to-site_peer", s, s)
  BY DEF IpsecPeer, IpsecPeer_Write
<1>3. {"authentication_mode", "authentication_pre-shared-secret", "vti_bind"} \subseteq s.leaf
  BY DEF IpsecPeer_Read, Schema
<1>4. s.tags = "tunnel" :> Tunnel_Read
  BY DEF IpsecPeer_Read, Schema
<1>5. DOMAIN s.tags = {"tunnel"} /\ s.tags["tunnel"] = Tunnel_Read
  <2> HIDE DEF s
  <2> QED BY <1>4 DEF :>
<1>6. {"protocol", "esp-group"} \subseteq Tunnel_Read.leaf
  BY DEF Tunnel_Read, Schema
<1>7. Extras("ipsec_peer") = {}
  BY Plain
<1> HIDE DEF s
<1>8. Editor("vpn_ipsec_site-to-site_peer", s, s).read = s
  BY DEF Editor
<1> QED BY <1>1, <1>2, <1>3, <1>5, <1>6, <1>7, <1>8 DEF s

\* The form of an IPsec peer opens on a row of its shape.
LEMMA IpsecSeedTyped ==
  ASSUME "ipsec_peer" \in DOMAIN Ed, NEW r, IsRow("ipsec_peer", r)
  PROVE  IsRow("ipsec_peer", IpsecPeer_Seed(r))
<1> DEFINE f == "authentication_mode"
           v == IF r[f] = None THEN Psk ELSE r[f]
<1>1. f \in Ed["ipsec_peer"].read.leaf
  BY IpsecIs
<1>2. Psk \in Text
  BY TextAssumption DEF Keywords, Psk
<1>3. v \in Text
  BY <1>1, <1>2, RowHas
<1>4. IpsecPeer_Seed(r) = [r EXCEPT ![f] = v]
  BY DEF IpsecPeer_Seed
<1>6. f \notin Extras("ipsec_peer")
  BY IpsecIs
<1> HIDE DEF v, f
<1>5. IsField("ipsec_peer", f, v)
  BY <1>1, <1>3, <1>6, FieldKinds
<1>7. IsRow("ipsec_peer", [r EXCEPT ![f] = v])
  BY <1>5, ReplacedOne
<1> QED BY <1>4, <1>7

\* The kind of a value follows from the kind of its field.
LEMMA FlatKinds ==
  ASSUME NEW s, IsFlatSchema(s), NEW f, NEW v
  PROVE  /\ f \in s.leaf \cup s.secret => (IsFlatField(s, f, v) <=> v \in Text)
         /\ f \in DOMAIN s.pick => (IsFlatField(s, f, v) <=> v \in Word)
         /\ f \in s.multi => (IsFlatField(s, f, v) <=> v \subseteq Word)
         /\ f \in s.flag => (IsFlatField(s, f, v) <=> v \in BOOLEAN)
BY DEF IsFlatSchema, FlatApart, IsFlatField

\* A sub-node keeps its shape when a field takes a value of the field's kind.
LEMMA SubReplaced ==
  ASSUME NEW s, NEW r, IsSubRow(s, r), NEW f, NEW v, IsFlatField(s, f, v)
  PROVE  IsSubRow(s, [r EXCEPT ![f] = v])
<1> DEFINE q == [r EXCEPT ![f] = v]
<1>1. r = [g \in Flat(s) |-> r[g]] /\ \A g \in Flat(s) : IsFlatField(s, g, r[g])
  BY FlatFieldwise
<1>2. q = [g \in DOMAIN r |-> q[g]] /\ \A g \in DOMAIN r : q[g] = IF g = f THEN v ELSE r[g]
  OBVIOUS
<1> HIDE DEF q
<1>3. DOMAIN r = Flat(s)
  BY <1>1
<1>4. q = [g \in Flat(s) |-> q[g]] /\ \A g \in Flat(s) : IsFlatField(s, g, q[g])
  BY <1>1, <1>2, <1>3
<1>5. IsSubRow(s, q)
  BY <1>4, FlatFieldwise
<1> QED BY <1>5 DEF q

\* Sub-rows by key, some of which are replaced or left out.
LEMMA SubsReplaced ==
  ASSUME NEW s, NEW n, NEW m, IsSubs(s, n, m), NEW w, w = [k \in DOMAIN w |-> w[k]], DOMAIN w \subseteq DOMAIN m,
         \A k \in DOMAIN w : w[k] = m[k] \/ IsSubRow(SubSchema(s, n), w[k])
  PROVE  IsSubs(s, n, w)
<1>1. \A k \in DOMAIN m : IsTagKey(s, n, k) /\ IsSubRow(SubSchema(s, n), m[k])
  BY DEF IsSubs
<1>2. \A k \in DOMAIN w : IsTagKey(s, n, k) /\ IsSubRow(SubSchema(s, n), w[k])
  BY <1>1
<1> QED BY <1>2 DEF IsSubs

\* The editor of VXLAN interfaces.
LEMMA VxlanIs ==
  ASSUME "vxlan" \in DOMAIN Ed
  PROVE  /\ Ed["vxlan"].read = Vxlan_Read /\ Ed["vxlan"].write = Vxlan_Read /\ Extras("vxlan") = {"bridge"}
         /\ Ed["vxlan"].at = "interfaces_vxlan" /\ Ed["vxlan"].keyed
         /\ {"vni", "group"} \subseteq Vxlan_Read.leaf /\ "remote" \in Vxlan_Read.multi /\ "external" \in Vxlan_Read.flag
         /\ DOMAIN Vxlan_Read.tags = {"vlan-to-vni"} /\ Subs(Vxlan_Read) = {"vlan-to-vni"}
         /\ SubSchema(Vxlan_Read, "vlan-to-vni").leaf = {"vni"} /\ "bridge" \notin Fields(Vxlan_Read)
<1> DEFINE s == Vxlan_Read
           sub == Schema({"vni"}, {}, {})
<1>1. Ed["vxlan"] = Vxlan
  BY EditorIs
<1>2. Vxlan = Editor("interfaces_vxlan", s, s)
  BY DEF Vxlan, Vxlan_Write
<1>3. {"vni", "group"} \subseteq s.leaf /\ "remote" \in s.multi /\ "external" \in s.flag
  BY DEF Vxlan_Read, Common_Read, Schema
<1>4. s.tags = "vlan-to-vni" :> sub /\ DOMAIN s.gates = {}
  BY DEF Vxlan_Read, Common_Read, Schema, NoSubs
<1>5. /\ "bridge" \notin s.leaf /\ "bridge" \notin s.multi /\ "bridge" \notin s.flag /\ "bridge" \notin s.secret
      /\ "bridge" \notin DOMAIN s.pick
  BY DEF Vxlan_Read, Common_Read, Schema, NoSubs
<1>6. sub.leaf = {"vni"}
  BY DEF Schema
<1> HIDE DEF s, sub
<1>7. DOMAIN s.tags = {"vlan-to-vni"} /\ Subs(s) = {"vlan-to-vni"} /\ SubSchema(s, "vlan-to-vni") = sub
  BY <1>4 DEF :>, Subs, SubSchema
<1>8. /\ Editor("interfaces_vxlan", s, s).read = s /\ Editor("interfaces_vxlan", s, s).write = s
      /\ Editor("interfaces_vxlan", s, s).at = "interfaces_vxlan" /\ Editor("interfaces_vxlan", s, s).keyed
  BY DEF Editor
<1>9. "bridge" \notin Fields(s)
  BY <1>4, <1>5, <1>7 DEF Fields, Flat
<1>10. Extras("vxlan") = {"bridge"}
  BY DEF Extras
<1> QED BY <1>1, <1>2, <1>3, <1>6, <1>7, <1>8, <1>9, <1>10 DEF s

\* The form of a VXLAN interface opens on a row of its shape.
LEMMA VxlanSeedTyped ==
  ASSUME "vxlan" \in DOMAIN Ed, NEW r, IsRow("vxlan", r)
  PROVE  IsRow("vxlan", Vxlan_Seed(r))
<1> DEFINE s == Vxlan_Read
           m == r["vlan-to-vni"]
           x == IF r["vni"] = "0" THEN None ELSE r["vni"]
           w == [v \in DOMAIN m |-> IF m[v]["vni"] = "0" THEN [m[v] EXCEPT !["vni"] = None] ELSE m[v]]
           a == [r EXCEPT !["vni"] = x]
           q == Vxlan_Seed(r)
<1>1. x \in Text /\ IsSubs(s, "vlan-to-vni", m)
  BY VxlanIs, RowHas, NoneText
<1>2. IsFlatField(SubSchema(s, "vlan-to-vni"), "vni", None)
  <2>1. IsFlatSchema(SubSchema(s, "vlan-to-vni"))
    BY VxlanIs, TypeOfEditor DEF IsSchema
  <2> QED BY <2>1, VxlanIs, FlatKinds, NoneText
<1>3. q = [a EXCEPT !["vlan-to-vni"] = w]
  BY DEF Vxlan_Seed
<1>4. /\ w = [v \in DOMAIN w |-> w[v]] /\ DOMAIN w = DOMAIN m
      /\ \A v \in DOMAIN w : w[v] = m[v] \/ w[v] = [m[v] EXCEPT !["vni"] = None]
  OBVIOUS
<1> HIDE DEF s, m, x, w, q
<1>5. ASSUME NEW v \in DOMAIN w PROVE w[v] = m[v] \/ IsSubRow(SubSchema(s, "vlan-to-vni"), w[v])
  <2>1. IsSubRow(SubSchema(s, "vlan-to-vni"), m[v])
    BY <1>1, <1>4 DEF IsSubs
  <2>2. IsSubRow(SubSchema(s, "vlan-to-vni"), [m[v] EXCEPT !["vni"] = None])
    BY <1>2, <2>1, SubReplaced
  <2> QED BY <1>4, <2>2
<1>6. IsSubs(s, "vlan-to-vni", w)
  BY <1>1, <1>4, <1>5, SubsReplaced
<1>7. IsField("vxlan", "vlan-to-vni", w) /\ IsField("vxlan", "vni", x)
  BY <1>1, <1>6, VxlanIs, FieldKinds DEF s
<1>8. IsRow("vxlan", a)
  BY <1>7, ReplacedOne
<1> HIDE DEF a
<1>9. IsRow("vxlan", q)
  BY <1>3, <1>7, <1>8, ReplacedOne
<1> QED BY <1>9 DEF q

\* Every form opens on a row of its editor's shape.
LEMMA EntriesTyped ==
  ASSUME NEW e \in DOMAIN Ed, NEW r, IsRow(e, r)
  PROVE  IsRow(e, Entries(e, r))
<1>1. CASE e = "vxlan"
  BY <1>1, VxlanSeedTyped DEF Entries
<1>2. CASE e = "nat_source"
  BY <1>2, NatSeedTyped DEF Entries
<1>3. CASE e = "nat_destination"
  BY <1>3, NatSeedTyped DEF Entries
<1>4. CASE e = "zone"
  BY <1>4, ZoneSeedTyped DEF Entries
<1>5. CASE e = "ipsec_peer"
  BY <1>5, IpsecSeedTyped DEF Entries
<1>6. CASE e \notin {"vxlan", "nat_source", "nat_destination", "zone", "ipsec_peer"}
  BY <1>6 DEF Entries
<1> QED BY <1>1, <1>2, <1>3, <1>4, <1>5, <1>6

\* One entry of a flat field: f gets value v.
IsEntry(s, r, f, v) ==
  \/ f \in s.leaf \cup s.secret /\ v \in {None, "y"}
  \/ f \in DOMAIN s.pick /\ v \in {s.pick[f], "y"}
  \/ f \in s.multi /\ v \subseteq r[f] \cup {"x", "y", "t"}
  \/ f \in s.flag /\ v \in BOOLEAN

\* The strings a user enters.
LEMMA Typed ==
  /\ {"x", "y", "t", "n", "m"} \subseteq Word
  /\ {"br", "br2"} \subseteq Word
<1>1. {"x", "y", "t", "n", "m", "br", "br2"} \subseteq Text
  BY TextAssumption DEF Keywords
<1> QED BY <1>1 DEF Word, None

\* An edit of a flat row is one entry.
LEMMA FlatEdited ==
  ASSUME NEW s, NEW r, \A f \in s.flag : r[f] \in BOOLEAN, NEW q \in FlatEdits(s, r)
  PROVE  \E f, v : IsEntry(s, r, f, v) /\ q = [r EXCEPT ![f] = v]
<1>1. CASE q \in (UNION {{[r EXCEPT ![f] = v] : v \in {None, "y"} \ {r[f]}} : f \in s.leaf \cup s.secret})
  <2>1. PICK f \in s.leaf \cup s.secret : q \in {[r EXCEPT ![f] = v] : v \in {None, "y"} \ {r[f]}}
    BY <1>1
  <2>2. PICK v \in {None, "y"} : q = [r EXCEPT ![f] = v]
    BY <2>1
  <2> QED BY <2>1, <2>2 DEF IsEntry
<1>2. CASE q \in (UNION {{[r EXCEPT ![f] = v] : v \in {s.pick[f], "y"} \ {r[f]}} : f \in DOMAIN s.pick})
  <2>1. PICK f \in DOMAIN s.pick : q \in {[r EXCEPT ![f] = v] : v \in {s.pick[f], "y"} \ {r[f]}}
    BY <1>2
  <2>2. PICK v \in {s.pick[f], "y"} : q = [r EXCEPT ![f] = v]
    BY <2>1
  <2> QED BY <2>1, <2>2 DEF IsEntry
<1>3. CASE q \in {[r EXCEPT ![f] = (@ \cup {v}) \ (@ \cap {v})] : f \in s.multi, v \in {"x", "y", "t"}}
  <2>1. PICK f \in s.multi, v \in {"x", "y", "t"} : q = [r EXCEPT ![f] = (r[f] \cup {v}) \ (r[f] \cap {v})]
    BY <1>3
  <2>2. (r[f] \cup {v}) \ (r[f] \cap {v}) \subseteq r[f] \cup {"x", "y", "t"}
    OBVIOUS
  <2> QED BY <2>1, <2>2 DEF IsEntry
<1>4. CASE q \in {[r EXCEPT ![f] = ~@] : f \in s.flag}
  <2>1. PICK f \in s.flag : q = [r EXCEPT ![f] = ~r[f]]
    BY <1>4
  <2>2. (~r[f]) \in BOOLEAN
    BY <2>1
  <2> QED BY <2>1, <2>2 DEF IsEntry
<1>5. \/ q \in UNION {{[r EXCEPT ![f] = v] : v \in {None, "y"} \ {r[f]}} : f \in s.leaf \cup s.secret}
      \/ q \in UNION {{[r EXCEPT ![f] = v] : v \in {s.pick[f], "y"} \ {r[f]}} : f \in DOMAIN s.pick}
      \/ q \in {[r EXCEPT ![f] = (@ \cup {v}) \ (@ \cap {v})] : f \in s.multi, v \in {"x", "y", "t"}}
      \/ q \in {[r EXCEPT ![f] = ~@] : f \in s.flag}
  BY DEF FlatEdits
<1> QED BY <1>1, <1>2, <1>3, <1>4, <1>5

\* An entry of a field of schema s is right for a schema z that has it too.
LEMMA EntryTyped ==
  ASSUME NEW s, NEW z, FlatPart(s, z), IsFlatSchema(z), NEW r, IsFlatRow(z, r), NEW f, NEW v, IsEntry(s, r, f, v)
  PROVE  IsFlatField(z, f, v) /\ f \in Flat(z)
<1>1. CASE f \in s.leaf \cup s.secret /\ v \in {None, "y"}
  <2>1. f \in z.leaf \cup z.secret /\ v \in Text
    BY <1>1, NoneText, Typed DEF FlatPart
  <2> QED BY <2>1, FlatKinds DEF Flat
<1>2. CASE f \in DOMAIN s.pick /\ v \in {s.pick[f], "y"}
  <2>1. f \in DOMAIN z.pick /\ v \in Word
    BY <1>2, Typed DEF FlatPart, IsFlatSchema
  <2> QED BY <2>1, FlatKinds DEF Flat
<1>3. CASE f \in s.multi /\ v \subseteq r[f] \cup {"x", "y", "t"}
  <2>1. f \in z.multi /\ v \subseteq Word
    BY <1>3, Typed DEF FlatPart, IsFlatRow
  <2> QED BY <2>1, FlatKinds DEF Flat
<1>4. CASE f \in s.flag /\ v \in BOOLEAN
  <2>1. f \in z.flag
    BY <1>4 DEF FlatPart
  <2> QED BY <1>4, <2>1, FlatKinds DEF Flat
<1> QED BY <1>1, <1>2, <1>3, <1>4 DEF IsEntry

\* An edit of a flat field keeps the row's shape.
LEMMA FlatEditTyped ==
  ASSUME NEW s, NEW z, FlatPart(s, z), IsFlatSchema(z), NEW r, IsSubRow(z, r), NEW q \in FlatEdits(s, r)
  PROVE  IsSubRow(z, q)
<1>1. IsFlatRow(z, r)
  BY DEF IsSubRow
<1>2. \A f \in s.flag : r[f] \in BOOLEAN
  BY <1>1 DEF FlatPart, IsFlatRow
<1>3. \E f, v : IsEntry(s, r, f, v) /\ q = [r EXCEPT ![f] = v]
  BY <1>2, FlatEdited
<1>4. PICK f, v : IsEntry(s, r, f, v) /\ q = [r EXCEPT ![f] = v]
  BY <1>3
<1>5. IsFlatField(z, f, v)
  BY <1>1, <1>4, EntryTyped
<1>6. IsSubRow(z, [r EXCEPT ![f] = v])
  BY <1>5, SubReplaced
<1> QED BY <1>4, <1>6

\* What the form of a new sub-object starts from.
LEMMA EmptyTyped ==
  ASSUME NEW z, IsFlatSchema(z), Subs(z) = {}
  PROVE  IsSubRow(z, Empty(z))
<1>1. FlatApart(z) /\ Fields(z) = Flat(z)
  BY DEF IsFlatSchema, Subs, Fields
<1> DEFINE q == Empty(z)
           b == Blank(z)
<1>2. DOMAIN b = Flat(z)
  BY <1>1 DEF Blank
<1>3. ASSUME NEW f \in Flat(z)
      PROVE  q[f] = IF f \in DOMAIN z.pick THEN z.pick[f] ELSE b[f]
  BY <1>2, <1>3 DEF Empty, @@
<1>4. q = [f \in Flat(z) |-> q[f]]
  <2>1. q = z.pick @@ b
    BY DEF Empty
  <2>2. DOMAIN z.pick \cup DOMAIN b = Flat(z)
    BY <1>2 DEF Flat
  <2> HIDE DEF q, b
  <2> QED BY <2>1, <2>2 DEF @@
<1> HIDE DEF q
<1>5. ASSUME NEW f \in Flat(z) PROVE IsFlatField(z, f, q[f])
  <2>1. CASE f \in DOMAIN z.pick
    <3>1. q[f] \in Word
      BY <1>3, <2>1 DEF IsFlatSchema
    <3> QED BY <2>1, <3>1, FlatKinds
  <2>2. CASE f \notin DOMAIN z.pick
    <3>1. /\ f \in z.leaf \cup z.secret => q[f] = None
          /\ f \in z.multi => q[f] = {}
          /\ f \in z.flag => q[f] = FALSE
      BY <1>1, <1>3, <2>2, BlankTyped
    <3>2. f \in z.leaf \cup z.secret \/ f \in z.multi \/ f \in z.flag
      BY <1>5, <2>2 DEF Flat
    <3>3. CASE f \in z.leaf \cup z.secret
      BY <3>1, <3>3, FlatKinds, NoneText
    <3>4. CASE f \in z.multi
      <4>1. q[f] \subseteq Word
        BY <3>1, <3>4
      <4> QED BY <3>4, <4>1, FlatKinds
    <3>5. CASE f \in z.flag
      BY <3>1, <3>5, FlatKinds
    <3> QED BY <3>2, <3>3, <3>4, <3>5
  <2> QED BY <2>1, <2>2
<1>6. IsSubRow(z, q)
  BY <1>4, <1>5, FlatFieldwise
<1> QED BY <1>6 DEF q

\* An edit of the sub-objects by key.
LEMMA SubEditTyped ==
  ASSUME NEW y, NEW n, NEW s, FlatPart(s, SubSchema(y, n)), IsFlatSchema(SubSchema(y, n)),
         NEW m, IsSubs(y, n, m), NEW keys, \A k \in keys : IsTagKey(y, n, k),
         NEW new, IsSubRow(SubSchema(y, n), new), NEW w \in SubEdits(s, m, keys, new)
  PROVE  IsSubs(y, n, w)
<1> DEFINE z == SubSchema(y, n)
<1>1. m = [k \in DOMAIN m |-> m[k]] /\ \A k \in DOMAIN m : IsTagKey(y, n, k) /\ IsSubRow(z, m[k])
  BY DEF IsSubs
<1>2. IsSubRow(z, [f \in s.leaf |-> "y"] @@ new)
  <2> DEFINE o == [f \in s.leaf |-> "y"]
             q == o @@ new
  <2>1. new = [f \in Flat(z) |-> new[f]] /\ \A f \in Flat(z) : IsFlatField(z, f, new[f])
    BY FlatFieldwise
  <2>2. s.leaf \subseteq z.leaf /\ z.leaf \subseteq Flat(z)
    BY DEF FlatPart, Flat
  <2>3. DOMAIN new = Flat(z)
    BY <2>1
  <2> HIDE DEF z
  <2>4. q = [f \in Flat(z) |-> q[f]] /\ \A f \in Flat(z) : q[f] = IF f \in s.leaf THEN "y" ELSE new[f]
    BY <2>2, <2>3 DEF @@
  <2> HIDE DEF q
  <2>5. ASSUME NEW f \in Flat(z) PROVE IsFlatField(z, f, q[f])
    <3>1. CASE f \in s.leaf
      <4>1. f \in z.leaf /\ q[f] \in Text
        BY <2>2, <2>4, <3>1, Typed, NoneText
      <4> QED BY <4>1, FlatKinds DEF z
    <3>2. CASE f \notin s.leaf
      BY <2>1, <2>4, <3>2
    <3> QED BY <3>1, <3>2
  <2>6. IsSubRow(z, q)
    BY <2>4, <2>5, FlatFieldwise
  <2> QED BY <2>6 DEF q
<1> HIDE DEF z
<1>3. CASE w \in {[x \in DOMAIN m \ {k} |-> m[x]] : k \in DOMAIN m}
  <2>1. PICK k \in DOMAIN m : w = [x \in DOMAIN m \ {k} |-> m[x]]
    BY <1>3
  <2>2. w = [x \in DOMAIN w |-> w[x]] /\ DOMAIN w \subseteq DOMAIN m /\ \A x \in DOMAIN w : w[x] = m[x]
    BY <2>1
  <2> QED BY <2>2, SubsReplaced
<1> DEFINE N == {new, [f \in s.leaf |-> "y"] @@ new}
           A == {[x \in DOMAIN m \ {k} |-> m[x]] : k \in DOMAIN m}
           B == {m @@ k :> r : k \in keys \ DOMAIN m, r \in N}
           C == UNION {{[m EXCEPT ![k] = r] : r \in FlatEdits(s, m[k])} : k \in DOMAIN m}
<1>10. \A r \in N : IsSubRow(z, r)
  BY <1>2 DEF z
<1>6. SubEdits(s, m, keys, new) = A \cup B \cup C
  BY SMT DEF SubEdits
<1> HIDE DEF N, A, C
<1>4. CASE w \in B
  <2>1. PICK k \in keys \ DOMAIN m, r \in N : w = m @@ k :> r
    BY <1>4
  <2>2. IsSubRow(z, r) /\ IsTagKey(y, n, k)
    BY <1>10, <2>1
  <2>3. /\ w = [x \in DOMAIN w |-> w[x]] /\ DOMAIN w = DOMAIN m \cup {k}
        /\ \A x \in DOMAIN m : w[x] = m[x]
        /\ w[k] = r
    BY <2>1 DEF @@, :>
  <2>4. \A x \in DOMAIN w : IsTagKey(y, n, x) /\ IsSubRow(z, w[x])
    BY <1>1, <2>2, <2>3
  <2> QED BY <2>3, <2>4 DEF IsSubs, z
<1>5. CASE w \in UNION {{[m EXCEPT ![k] = r] : r \in FlatEdits(s, m[k])} : k \in DOMAIN m}
  <2>1. PICK k \in DOMAIN m : w \in {[m EXCEPT ![k] = r] : r \in FlatEdits(s, m[k])}
    BY <1>5
  <2>2. PICK r \in FlatEdits(s, m[k]) : w = [m EXCEPT ![k] = r]
    BY <2>1
  <2>3. IsSubRow(z, r)
    BY <1>1, <2>2, FlatEditTyped DEF z
  <2>4. /\ w = [x \in DOMAIN w |-> w[x]] /\ DOMAIN w = DOMAIN m
        /\ \A x \in DOMAIN w : w[x] = IF x = k THEN r ELSE m[x]
    BY <1>1, <2>2
  <2>5. \A x \in DOMAIN w : w[x] = m[x] \/ IsSubRow(z, w[x])
    BY <2>3, <2>4
  <2> QED BY <2>4, <2>5, SubsReplaced DEF z
<1>7. w \in A => IsSubs(y, n, w)
  BY <1>3 DEF A
<1>9. w \in C => IsSubs(y, n, w)
  BY <1>5 DEF C
<1> HIDE DEF B
<1> QED BY <1>4, <1>6, <1>7, <1>9

\* What an editor keeps beside its fields has names of its own.
LEMMA ExtrasApart ==
  ASSUME NEW e \in DOMAIN Ed
  PROVE  Extras(e) \cap Fields(Ed[e].read) = {}
<1>1. CASE e = "openvpn"
  BY <1>1, OpenvpnIs
<1>2. CASE e = "vxlan"
  BY <1>2, VxlanIs
<1>3. CASE e = "config_sync"
  <2>1. Extras(e) = {"has_key", "section"}
    BY <1>3 DEF Extras
  <2>2. Ed[e].read = ConfigSync_Leaves
    BY <1>3, EditorIs DEF ConfigSync, Panel, Editor
  <2>3. "has_key" \notin Fields(ConfigSync_Leaves) /\ "section" \notin Fields(ConfigSync_Leaves)
    BY DEF ConfigSync_Leaves, Schema, Fields, Flat, NoSubs
  <2> QED BY <2>1, <2>2, <2>3
<1>4. CASE e \notin {"openvpn", "vxlan", "config_sync"}
  BY <1>4, Plain
<1> QED BY <1>1, <1>2, <1>3, <1>4

\* An edit of a field of a row.
LEMMA RowEntry ==
  ASSUME NEW e \in DOMAIN Ed, NEW s, FlatPart(s, Ed[e].read), NEW r, IsRow(e, r), NEW q \in FlatEdits(s, r)
  PROVE  IsRow(e, q)
<1> DEFINE z == Ed[e].read
<1>1. IsSchema(z) /\ IsFlatSchema(z)
  BY TypeOfEditor, SchemaIsOver
<1>2. IsFlatRow(z, r)
  BY DEF IsRow
<1>3. \A f \in s.flag : r[f] \in BOOLEAN
  BY <1>2 DEF FlatPart, IsFlatRow
<1>4. \E f, v : IsEntry(s, r, f, v) /\ q = [r EXCEPT ![f] = v]
  BY <1>3, FlatEdited
<1>5. PICK f, v : IsEntry(s, r, f, v) /\ q = [r EXCEPT ![f] = v]
  BY <1>4
<1>6. IsFlatField(z, f, v) /\ f \in Flat(z)
  BY <1>1, <1>2, <1>5, EntryTyped
<1>7. f \notin Subs(z)
  BY <1>1, <1>6 DEF IsSchema, Apart, Subs
<1>8. CASE f \notin Extras(e)
  <2>1. IsExtra(e, f, v)
    BY <1>8 DEF IsExtra, Extras
  <2>2. IsField(e, f, v)
    BY <1>6, <1>7, <2>1 DEF IsField
  <2> QED BY <1>5, <2>2, ReplacedOne
<1>9. CASE f \in Extras(e)
  <2>1. f \in Fields(z)
    BY <1>6 DEF Fields
  <2> QED BY <1>9, <2>1, ExtrasApart
<1> QED BY <1>8, <1>9

\* Edits of sub-objects.
LEMMA SubRowEdited ==
  ASSUME NEW e \in DOMAIN Ed, NEW r, IsRow(e, r), NEW n \in Subs(Ed[e].read), n \notin Extras(e), NEW s,
         FlatPart(s, SubSchema(Ed[e].read, n)), NEW keys, \A k \in keys : IsTagKey(Ed[e].read, n, k),
         NEW m \in SubEdits(s, r[n], keys, Empty(SubSchema(Ed[e].read, n)))
  PROVE  IsRow(e, [r EXCEPT ![n] = m])
<1> DEFINE y == Ed[e].read
<1>1. IsSchema(y)
  BY TypeOfEditor
<1>2. IsFlatSchema(SubSchema(y, n)) /\ Subs(SubSchema(y, n)) = {}
  BY <1>1 DEF IsSchema
<1>3. IsSubRow(SubSchema(y, n), Empty(SubSchema(y, n)))
  BY <1>2, EmptyTyped
<1>4. IsSubs(y, n, r[n])
  BY RowHas
<1> HIDE DEF y
<1>5. IsSubs(y, n, m)
  BY <1>2, <1>3, <1>4, SubEditTyped DEF y
<1>6. IsField(e, n, m)
  BY <1>5, FieldKinds DEF y
<1> QED BY <1>6, ReplacedOne

\* So do the edits of single editors: the sections to synchronise,
LEMMA SectionEdited ==
  ASSUME "config_sync" \in DOMAIN Ed, NEW r, IsRow("config_sync", r),
         NEW x \in SUBSET {<<"n", None>>, <<"n", "x">>, <<"m", None>>}
  PROVE  IsRow("config_sync", [r EXCEPT !["section"] = x])
<1>1. IsSection(x)
  BY Typed, NoneText DEF IsSection
<1>2. "section" \notin Fields(Ed["config_sync"].read)
  BY ExtrasApart DEF Extras
<1>3. IsField("config_sync", "section", x)
  BY <1>1, <1>2 DEF IsField, IsFlatField, IsExtra, Fields, Flat, Subs
<1> QED BY <1>3, ReplacedOne

\* the mode of an OpenVPN interface,
LEMMA ModeEdited ==
  ASSUME "openvpn" \in DOMAIN Ed, NEW r, IsRow("openvpn", r), NEW m \in OpenvpnModes
  PROVE  IsRow("openvpn", [r EXCEPT !["mode"] = m])
<1>1. "mode" \notin Fields(Ed["openvpn"].read)
  BY ExtrasApart DEF Extras
<1>2. IsField("openvpn", "mode", m)
  BY <1>1 DEF IsField, IsFlatField, IsExtra, Fields, Flat, Subs
<1> QED BY <1>2, ReplacedOne

\* the bridge of a VXLAN interface,
LEMMA BridgeEdited ==
  ASSUME "vxlan" \in DOMAIN Ed, NEW r, IsRow("vxlan", r), NEW x \in {None, "br", "br2"}
  PROVE  IsRow("vxlan", [r EXCEPT !["bridge"] = x])
<1>1. "bridge" \notin Fields(Ed["vxlan"].read)
  BY ExtrasApart DEF Extras
<1>2. x \in Text
  BY Typed, NoneText
<1>3. IsField("vxlan", "bridge", x)
  BY <1>1, <1>2 DEF IsField, IsFlatField, IsExtra, Fields, Flat, Subs
<1> QED BY <1>3, ReplacedOne

\* a leaf of a NAT rule,
LEMMA NatLeaf ==
  ASSUME NEW e \in DOMAIN Ed, e \in {"nat_source", "nat_destination"}, NEW r, IsRow(e, r),
         NEW f \in NatRule_Read.leaf, NEW v \in Text
  PROVE  IsRow(e, [r EXCEPT ![f] = v])
<1>1. f \in Ed[e].read.leaf /\ Extras(e) = {}
  BY NatIs
<1>2. IsField(e, f, v)
  BY <1>1, FieldKinds
<1> QED BY <1>2, ReplacedOne

\* and its choices of a source and of an interface.
LEMMA NatEdited ==
  ASSUME NEW e \in DOMAIN Ed, e \in {"nat_source", "nat_destination"}, NEW r, IsRow(e, r),
         NEW q \in {[r EXCEPT !["source_address"] = None, !["source_address-group"] = None, !["source_network-group"] = "y"],
                    [r EXCEPT !["interface_group"] = None, !["interface_name"] = "y"]}
  PROVE  IsRow(e, q)
<1>1. None \in Text /\ "y" \in Text
  BY Typed, NoneText
<1>2. {"source_address", "source_address-group", "source_network-group", "interface_group", "interface_name"}
        \subseteq NatRule_Read.leaf
  BY NatReadIs
<1> DEFINE a == [r EXCEPT !["source_address"] = None]
           b == [a EXCEPT !["source_address-group"] = None]
           c == [r EXCEPT !["interface_group"] = None]
<1>3. q = [b EXCEPT !["source_network-group"] = "y"] \/ q = [c EXCEPT !["interface_name"] = "y"]
  OBVIOUS
<1>4. IsRow(e, a) /\ IsRow(e, c)
  BY <1>1, <1>2, NatLeaf
<1> HIDE DEF a, c
<1>5. IsRow(e, b)
  BY <1>1, <1>2, <1>4, NatLeaf
<1> HIDE DEF b
<1> QED BY <1>1, <1>2, <1>3, <1>4, <1>5, NatLeaf

\* One edit of a row, in the fields of a part of its schema, is a row.
LEMMA EditTyped ==
  ASSUME NEW e \in DOMAIN Ed, NEW s, Part(s, Ed[e].read), NEW r, IsRow(e, r), NEW q \in EditsIn(e, s, r)
  PROVE  IsRow(e, q)
<1> DEFINE in == Ed[e].read
           T == UNION {{[r EXCEPT ![n] = m] : m \in SubEdits(s.tags[n], r[n], {"n", "m"}, Empty(in.tags[n]))} : n \in DOMAIN s.tags}
           G == UNION {{[r EXCEPT ![n] = m] : m \in SubEdits(s.gates[n], r[n], {""}, Empty(in.gates[n]))} : n \in DOMAIN s.gates}
           X == CASE e = "config_sync" ->
                   {[r EXCEPT !["section"] = x] : x \in (SUBSET {<<"n", None>>, <<"n", "x">>, <<"m", None>>}) \ {r["section"]}}
              [] e \in {"nat_source", "nat_destination"} ->
                   {[r EXCEPT !["source_address"] = None, !["source_address-group"] = None, !["source_network-group"] = "y"],
                    [r EXCEPT !["interface_group"] = None, !["interface_name"] = "y"]} \ {r}
              [] e = "openvpn" -> {[r EXCEPT !["mode"] = m] : m \in OpenvpnModes \ {r["mode"]}}
              [] e = "vxlan" -> {[r EXCEPT !["bridge"] = x] : x \in {None, "br", "br2"} \ {r["bridge"]}}
              [] OTHER -> {}
<1>1. EditsIn(e, s, r) = FlatEdits(s, r) \cup T \cup G \cup X
  BY Zenon DEF EditsIn
<1>2. IsSchema(in)
  BY TypeOfEditor
<1>3. \A n \in Subs(in) : n \notin Extras(e)
  BY ExtrasApart DEF Fields, Subs
<1>4. ASSUME q \in FlatEdits(s, r) PROVE IsRow(e, q)
  <2>1. FlatPart(s, in)
    BY DEF Part
  <2> QED BY <1>4, <2>1, RowEntry
<1>5. ASSUME q \in T PROVE IsRow(e, q)
  <2>1. PICK n \in DOMAIN s.tags : q \in {[r EXCEPT ![n] = m] : m \in SubEdits(s.tags[n], r[n], {"n", "m"}, Empty(in.tags[n]))}
    BY <1>5
  <2>2. PICK m \in SubEdits(s.tags[n], r[n], {"n", "m"}, Empty(in.tags[n])) : q = [r EXCEPT ![n] = m]
    BY <2>1
  <2>3. n \in DOMAIN in.tags /\ FlatPart(s.tags[n], in.tags[n]) /\ SubSchema(in, n) = in.tags[n] /\ n \in Subs(in)
    BY DEF Part, SubSchema, Subs
  <2>4. \A k \in {"n", "m"} : IsTagKey(in, n, k)
    BY <2>3, Typed DEF IsTagKey
  <2>5. m \in SubEdits(s.tags[n], r[n], {"n", "m"}, Empty(SubSchema(in, n)))
    BY <2>2, <2>3
  <2>6. FlatPart(s.tags[n], SubSchema(in, n)) /\ n \notin Extras(e)
    BY <1>3, <2>3
  <2>7. IsRow(e, [r EXCEPT ![n] = m])
    BY <2>3, <2>4, <2>5, <2>6, SubRowEdited
  <2> QED BY <2>2, <2>7
<1>6. ASSUME q \in G PROVE IsRow(e, q)
  <2>1. PICK n \in DOMAIN s.gates : q \in {[r EXCEPT ![n] = m] : m \in SubEdits(s.gates[n], r[n], {""}, Empty(in.gates[n]))}
    BY <1>6
  <2>2. PICK m \in SubEdits(s.gates[n], r[n], {""}, Empty(in.gates[n])) : q = [r EXCEPT ![n] = m]
    BY <2>1
  <2>3. n \in DOMAIN in.gates /\ FlatPart(s.gates[n], in.gates[n]) /\ n \in Subs(in)
    BY DEF Part, Subs
  <2>4. n \notin DOMAIN in.tags
    BY <1>2, <2>3 DEF IsSchema, Apart
  <2>5. SubSchema(in, n) = in.gates[n] /\ \A k \in {""} : IsTagKey(in, n, k)
    BY <2>4 DEF IsTagKey, SubSchema, None
  <2>6. m \in SubEdits(s.gates[n], r[n], {""}, Empty(SubSchema(in, n)))
    BY <2>2, <2>5
  <2>7. FlatPart(s.gates[n], SubSchema(in, n)) /\ n \notin Extras(e)
    BY <1>3, <2>3, <2>5
  <2>8. IsRow(e, [r EXCEPT ![n] = m])
    BY <2>3, <2>5, <2>6, <2>7, SubRowEdited
  <2> QED BY <2>2, <2>8
<1>7. ASSUME q \in X PROVE IsRow(e, q)
  <2>1. CASE e = "config_sync"
    <3>1. q \in {[r EXCEPT !["section"] = x] : x \in (SUBSET {<<"n", None>>, <<"n", "x">>, <<"m", None>>}) \ {r["section"]}}
      BY <1>7, <2>1
    <3>2. PICK x \in SUBSET {<<"n", None>>, <<"n", "x">>, <<"m", None>>} : q = [r EXCEPT !["section"] = x]
      BY <3>1
    <3> QED BY <2>1, <3>2, SectionEdited
  <2>2. CASE e \in {"nat_source", "nat_destination"}
    <3>1. q \in {[r EXCEPT !["source_address"] = None, !["source_address-group"] = None, !["source_network-group"] = "y"],
                 [r EXCEPT !["interface_group"] = None, !["interface_name"] = "y"]}
      BY <1>7, <2>2
    <3> HIDE DEF T, G, X
    <3> QED BY <2>2, <3>1, NatEdited
  <2>3. CASE e = "openvpn"
    <3>1. q \in {[r EXCEPT !["mode"] = m] : m \in OpenvpnModes \ {r["mode"]}}
      BY <1>7, <2>3
    <3>2. PICK m \in OpenvpnModes : q = [r EXCEPT !["mode"] = m]
      BY <3>1
    <3> QED BY <2>3, <3>2, ModeEdited
  <2>4. CASE e = "vxlan"
    <3>1. q \in {[r EXCEPT !["bridge"] = x] : x \in {None, "br", "br2"} \ {r["bridge"]}}
      BY <1>7, <2>4
    <3>2. PICK x \in {None, "br", "br2"} : q = [r EXCEPT !["bridge"] = x]
      BY <3>1
    <3> QED BY <2>4, <3>2, BridgeEdited
  <2>5. CASE e \notin {"config_sync", "nat_source", "nat_destination", "openvpn", "vxlan"}
    BY <1>7, <2>5
  <2> QED BY <2>1, <2>2, <2>3, <2>4, <2>5
<1> HIDE DEF T, G, X
<1> QED BY <1>1, <1>4, <1>5, <1>6, <1>7

\* A sample of a set is in it.
LEMMA OneOfIn == ASSUME NEW S PROVE OneOf(S) \subseteq S
BY DEF OneOf

\* A sample of a schema's flat fields is a part of them,
LEMMA SampleFlatIs ==
  ASSUME NEW s, HasKinds(s)
  PROVE  LET p == SampleFlat(s)
         IN  /\ p.leaf \subseteq s.leaf /\ p.multi \subseteq s.multi /\ p.flag \subseteq s.flag /\ p.secret \subseteq s.secret
             /\ \A f \in DOMAIN p.pick : f \in DOMAIN s.pick /\ p.pick[f] = s.pick[f]
             /\ p.tags = s.tags /\ p.gates = s.gates /\ HasKinds(p)
<1>1. DOMAIN s = {"leaf", "multi", "flag", "secret", "pick", "quiet", "tags", "gates"}
  BY DEF HasKinds, Schema
<1> DEFINE p == SampleFlat(s)
           pick == [f \in OneOf(DOMAIN s.pick) |-> s.pick[f]]
<1>2. /\ p.leaf = OneOf(s.leaf) /\ p.multi = OneOf(s.multi) /\ p.flag = OneOf(s.flag) /\ p.secret = OneOf(s.secret)
      /\ p.pick = pick /\ p.tags = s.tags /\ p.gates = s.gates /\ DOMAIN p = DOMAIN s
  BY <1>1 DEF SampleFlat
<1>3. \A f \in DOMAIN pick : f \in DOMAIN s.pick /\ pick[f] = s.pick[f]
  BY OneOfIn
<1> HIDE DEF p, pick
<1>4. HasKinds(p)
  BY <1>2 DEF HasKinds
<1> QED BY <1>2, <1>3, <1>4, OneOfIn DEF p

\* and a sample of a schema is a part of what its editor reads.
LEMMA SampleIs ==
  ASSUME NEW s, HasKinds(s), \A n \in DOMAIN s.tags : HasKinds(s.tags[n]), \A n \in DOMAIN s.gates : HasKinds(s.gates[n]),
         NEW z, Part(s, z)
  PROVE  Part(Sample(s), z)
<1> DEFINE p == SampleFlat(s)
           q == Sample(s)
           tags == [n \in OneOf(DOMAIN p.tags) |-> SampleFlat(p.tags[n])]
           gates == [n \in OneOf(DOMAIN p.gates) |-> SampleFlat(p.gates[n])]
<1>1. /\ p.leaf \subseteq s.leaf /\ p.multi \subseteq s.multi /\ p.flag \subseteq s.flag /\ p.secret \subseteq s.secret
      /\ \A f \in DOMAIN p.pick : f \in DOMAIN s.pick /\ p.pick[f] = s.pick[f]
      /\ p.tags = s.tags /\ p.gates = s.gates /\ HasKinds(p)
  BY SampleFlatIs
<1>2. DOMAIN p = {"leaf", "multi", "flag", "secret", "pick", "quiet", "tags", "gates"}
  BY <1>1 DEF HasKinds, Schema
<1>3. q = [p EXCEPT !.tags = tags, !.gates = gates]
  BY DEF Sample
<1>4. /\ DOMAIN tags \subseteq DOMAIN s.tags /\ \A n \in DOMAIN tags : tags[n] = SampleFlat(s.tags[n])
      /\ DOMAIN gates \subseteq DOMAIN s.gates /\ \A n \in DOMAIN gates : gates[n] = SampleFlat(s.gates[n])
  BY <1>1, OneOfIn
<1> HIDE DEF p, q, tags, gates
<1>5. /\ q.leaf = p.leaf /\ q.multi = p.multi /\ q.flag = p.flag /\ q.secret = p.secret /\ q.pick = p.pick
      /\ q.tags = tags /\ q.gates = gates
  BY <1>2, <1>3
<1>6. FlatPart(q, z)
  <2>1. FlatPart(s, z)
    BY DEF Part
  <2> QED BY <1>1, <1>5, <2>1 DEF FlatPart
<1>7. ASSUME NEW n \in DOMAIN q.tags PROVE n \in DOMAIN z.tags /\ FlatPart(q.tags[n], z.tags[n])
  <2>1. n \in DOMAIN s.tags /\ q.tags[n] = SampleFlat(s.tags[n])
    BY <1>4, <1>5
  <2>2. HasKinds(s.tags[n]) /\ n \in DOMAIN z.tags /\ FlatPart(s.tags[n], z.tags[n])
    BY <2>1 DEF Part
  <2> QED BY <2>1, <2>2, SampleFlatIs DEF FlatPart
<1>8. ASSUME NEW n \in DOMAIN q.gates PROVE n \in DOMAIN z.gates /\ FlatPart(q.gates[n], z.gates[n])
  <2>1. n \in DOMAIN s.gates /\ q.gates[n] = SampleFlat(s.gates[n])
    BY <1>4, <1>5
  <2>2. HasKinds(s.gates[n]) /\ n \in DOMAIN z.gates /\ FlatPart(s.gates[n], z.gates[n])
    BY <2>1 DEF Part
  <2> QED BY <2>1, <2>2, SampleFlatIs DEF FlatPart
<1>9. Part(q, z)
  BY <1>6, <1>7, <1>8 DEF Part
<1> QED BY <1>9 DEF q

\* What a user enters, and what others edit, are rows.
LEMMA RowEditTyped ==
  ASSUME NEW e \in DOMAIN Ed, NEW r, IsRow(e, r)
  PROVE  /\ \A q \in RowEdits(e, r) : IsRow(e, q)
         /\ \A q \in OtherEdits(e, r) : IsRow(e, q)
<1> DEFINE w == Ed[e].write
           z == Ed[e].read
<1>1. Part(w, z) /\ IsSchema(w)
  BY TypeOfEditor
<1>2. HasKinds(w) /\ \A n \in Subs(w) : HasKinds(SubSchema(w, n))
  BY SchemasAssumption
<1>3. RowEdits(e, r) = EditsIn(e, w, r) /\ OtherEdits(e, r) = EditsIn(e, Sample(w), r)
  BY DEF RowEdits, OtherEdits
<1> HIDE DEF w
<1>4. ASSUME NEW n \in DOMAIN w.tags PROVE HasKinds(w.tags[n])
  BY <1>2 DEF Subs, SubSchema
<1>5. ASSUME NEW n \in DOMAIN w.gates PROVE HasKinds(w.gates[n])
  <2>1. n \notin DOMAIN w.tags
    BY <1>1 DEF IsSchema, Apart
  <2> QED BY <1>2, <2>1 DEF Subs, SubSchema
<1>6. Part(Sample(w), z)
  BY <1>1, <1>2, <1>4, <1>5, SampleIs
<1>7. ASSUME NEW q \in RowEdits(e, r) PROVE IsRow(e, q)
  BY <1>1, <1>3, EditTyped
<1>8. ASSUME NEW q \in OtherEdits(e, r) PROVE IsRow(e, q)
  BY <1>3, <1>6, EditTyped
<1> QED BY <1>7, <1>8

\* A field of one of the plain kinds takes a value of its kind.
LEMMA Set ==
  ASSUME NEW e \in DOMAIN Ed, NEW r, IsRow(e, r), NEW f, NEW v,
         \/ f \in Ed[e].read.leaf \cup Ed[e].read.secret /\ v \in Text
         \/ f \in Ed[e].read.multi /\ v \subseteq Word
         \/ f \in Ed[e].read.flag /\ v \in BOOLEAN
         \/ f \in Subs(Ed[e].read) /\ IsSubs(Ed[e].read, f, v)
  PROVE  IsRow(e, [r EXCEPT ![f] = v])
<1>1. f \in Fields(Ed[e].read)
  BY DEF Fields, Flat, Subs
<1>2. f \notin Extras(e)
  BY <1>1, ExtrasApart
<1>3. IsField(e, f, v)
  BY <1>2, FieldKinds
<1> QED BY <1>3, ReplacedOne

\* What a form sends has the shape of a row: that of an OSPF area,
LEMMA OspfAreaSent ==
  ASSUME "ospf_area" \in DOMAIN Ed, NEW u, IsRow("ospf_area", u), NEW r \in OspfArea_Form(u)
  PROVE  IsRow("ospf_area", r)
<1> DEFINE v == u["no-summary"] /\ u["area-type"] # None
<1>1. "no-summary" \in Ed["ospf_area"].read.flag
  BY EditorIs DEF OspfArea, Editor, OspfArea_Read, Schema
<1>2. v \in BOOLEAN
  OBVIOUS
<1>3. r = [u EXCEPT !["no-summary"] = v]
  BY DEF OspfArea_Form
<1> HIDE DEF v
<1> QED BY <1>1, <1>2, <1>3, Set

\* of a static route,
LEMMA StaticRouteSent ==
  ASSUME "static_route" \in DOMAIN Ed, NEW u, IsRow("static_route", u), NEW p, NEW k, NEW to,
         NEW r \in StaticRoute_Form(p, k, to, u)
  PROVE  IsRow("static_route", r)
<1> DEFINE i == IF to[2] = "next-hop" THEN u["interface"] ELSE None
           d == u["disable"] /\ to[2] # "blackhole"
           a == [u EXCEPT !["interface"] = i]
<1>1. Ed["static_route"].read.leaf = StaticRoute_Read.leaf /\ Ed["static_route"].read.flag = StaticRoute_Read.flag
  BY StaticRouteIs
<1>2. "interface" \in Ed["static_route"].read.leaf /\ "disable" \in Ed["static_route"].read.flag
  BY <1>1, StaticReadIs
<1>3. i \in Text /\ d \in BOOLEAN
  BY <1>2, RowHas, NoneText
<1>4. r = [a EXCEPT !["disable"] = d]
  BY DEF StaticRoute_Form
<1> HIDE DEF i, d
<1>5. IsRow("static_route", a)
  BY <1>2, <1>3, Set
<1> HIDE DEF a
<1> QED BY <1>2, <1>3, <1>4, <1>5, Set

\* of a bridge,
LEMMA BridgeSent ==
  ASSUME "bridge" \in DOMAIN Ed, NEW u, IsRow("bridge", u), NEW p, NEW k, NEW seed, NEW r \in Bridge_Form(p, k, seed, u)
  PROVE  IsRow("bridge", r)
<1> DEFINE v == u["enable-vlan"] \/ DOMAIN u["vif"] # {}
<1>1. "enable-vlan" \in Ed["bridge"].read.flag
  <2>1. Ed["bridge"] = Bridge
    BY EditorIs
  <2>2. Bridge.read = Bridge_Read
    BY DEF Bridge, Editor
  <2>3. "enable-vlan" \in Bridge_Read.flag
    BY DEF Bridge_Read, Common_Read, Schema
  <2> QED BY <2>1, <2>2, <2>3
<1>2. v \in BOOLEAN
  OBVIOUS
<1>3. r = [u EXCEPT !["enable-vlan"] = v]
  BY DEF Bridge_Form
<1> HIDE DEF v
<1> QED BY <1>1, <1>2, <1>3, Set

\* of a VXLAN interface,
LEMMA VxlanSent ==
  ASSUME "vxlan" \in DOMAIN Ed, NEW u, IsRow("vxlan", u), NEW r \in Vxlan_Form(u)
  PROVE  IsRow("vxlan", r)
<1> DEFINE mode == Vxlan_Mode(u)
           map == u["vlan-to-vni"]
           filled == [v \in {w \in DOMAIN map : map[w]["vni"] # None} |-> map[v]]
           x == mode = "evpn"
           y == IF mode = "static" THEN u["remote"] ELSE {}
           g == IF mode = "multicast" THEN u["group"] ELSE None
           a == [u EXCEPT !["vlan-to-vni"] = filled]
           b == [a EXCEPT !["external"] = x]
           c == [b EXCEPT !["remote"] = y]
           s == Ed["vxlan"].read
<1>1. r = [c EXCEPT !["group"] = g]
  BY DEF Vxlan_Form
<1>2. "group" \in s.leaf /\ "remote" \in s.multi /\ "external" \in s.flag /\ "vlan-to-vni" \in Subs(s)
  BY VxlanIs
<1>3. x \in BOOLEAN /\ y \subseteq Word /\ g \in Text /\ IsSubs(s, "vlan-to-vni", map)
  BY <1>2, RowHas, NoneText
<1>4. /\ filled = [v \in DOMAIN filled |-> filled[v]] /\ DOMAIN filled \subseteq DOMAIN map
      /\ \A v \in DOMAIN filled : filled[v] = map[v]
  OBVIOUS
<1> HIDE DEF mode, map, filled, x, y, g, s
<1>5. IsSubs(s, "vlan-to-vni", filled)
  BY <1>3, <1>4, SubsReplaced
<1>6. IsRow("vxlan", a)
  BY <1>2, <1>5, Set DEF s
<1> HIDE DEF a
<1>7. IsRow("vxlan", b)
  BY <1>2, <1>3, <1>6, Set DEF s
<1> HIDE DEF b
<1>8. IsRow("vxlan", c)
  BY <1>2, <1>3, <1>7, Set DEF s
<1> HIDE DEF c
<1> QED BY <1>1, <1>2, <1>3, <1>8, Set DEF s

\* of a NAT rule,
LEMMA NatSent ==
  ASSUME NEW e \in DOMAIN Ed, e \in {"nat_source", "nat_destination"}, NEW u, IsRow(e, u), NEW p, NEW section, NEW k, NEW to,
         NEW r \in NatRule_Form(p, section, k, to, u)
  PROVE  IsRow(e, r)
<1> DEFINE v == IF u["translation_address"] = "masquerade" THEN None ELSE u["translation_port"]
<1>1. "translation_port" \in NatRule_Read.leaf
  BY NatReadIs
<1>2. v \in Text
  BY <1>1, NatIs, RowHas, NoneText
<1>3. r = [u EXCEPT !["translation_port"] = v]
  BY DEF NatRule_Form
<1> HIDE DEF v
<1> QED BY <1>1, <1>2, <1>3, NatLeaf

\* of a zone,
LEMMA ZoneSent ==
  ASSUME "zone" \in DOMAIN Ed, NEW u, IsRow("zone", u), NEW p, NEW k, NEW to, NEW r \in Zone_Form(p, k, to, u)
  PROVE  IsRow("zone", r)
<1> DEFINE m == IF u["local-zone"] THEN {} ELSE u["member_interface"]
           i == IF u["local-zone"] THEN None ELSE u["intra-zone-filtering_action"]
           a == [u EXCEPT !["member_interface"] = m]
<1>1. r = [a EXCEPT !["intra-zone-filtering_action"] = i]
  BY DEF Zone_Form
<1>2. "intra-zone-filtering_action" \in Ed["zone"].read.leaf /\ "member_interface" \in Ed["zone"].read.multi
  BY ZoneIs
<1>3. m \subseteq Word /\ i \in Text
  BY <1>2, RowHas, NoneText
<1> HIDE DEF m, i
<1>4. IsRow("zone", a)
  BY <1>2, <1>3, Set
<1> HIDE DEF a
<1> QED BY <1>1, <1>2, <1>3, <1>4, Set

\* Some of the sub-objects, with two of their leaves emptied.
LEMMA TunnelsSent ==
  ASSUME "ipsec_peer" \in DOMAIN Ed, NEW m, IsSubs(Ed["ipsec_peer"].read, "tunnel", m),
         NEW w, w = [k \in DOMAIN m |-> [m[k] EXCEPT !["protocol"] = None, !["esp-group"] = None]]
  PROVE  IsSubs(Ed["ipsec_peer"].read, "tunnel", w)
<1> DEFINE s == Ed["ipsec_peer"].read
           z == SubSchema(s, "tunnel")
<1>1. IsSchema(s) /\ "tunnel" \in Subs(s) /\ z = Tunnel_Read
  BY TypeOfEditor, IpsecIs DEF Subs, SubSchema
<1>2. IsFlatSchema(z) /\ {"protocol", "esp-group"} \subseteq z.leaf
  BY <1>1, IpsecIs DEF IsSchema
<1>3. w = [k \in DOMAIN w |-> w[k]] /\ DOMAIN w = DOMAIN m
  OBVIOUS
<1>4. IsFlatField(z, "protocol", None) /\ IsFlatField(z, "esp-group", None)
  BY <1>2, FlatKinds, NoneText
<1> HIDE DEF z
<1>5. ASSUME NEW k \in DOMAIN m PROVE IsSubRow(z, w[k])
  <2> DEFINE a == [m[k] EXCEPT !["protocol"] = None]
  <2>1. IsSubRow(z, m[k])
    BY DEF IsSubs, z
  <2>2. IsSubRow(z, a)
    BY <1>4, <2>1, SubReplaced
  <2>3. w[k] = [a EXCEPT !["esp-group"] = None]
    OBVIOUS
  <2> HIDE DEF a
  <2>4. IsSubRow(z, [a EXCEPT !["esp-group"] = None])
    BY <1>4, <2>2, SubReplaced
  <2> QED BY <2>3, <2>4
<1>6. \A k \in DOMAIN w : w[k] = m[k] \/ IsSubRow(z, w[k])
  BY <1>3, <1>5
<1> HIDE DEF s
<1>7. IsSubs(s, "tunnel", m)
  BY DEF s
<1>8. IsSubs(s, "tunnel", w)
  BY <1>3, <1>6, <1>7, SubsReplaced DEF z
<1> QED BY <1>8 DEF s

\* (no sub-nodes are sub-nodes of any schema)
LEMMA NoSubsTyped == ASSUME NEW s, NEW n PROVE IsSubs(s, n, NoSubs)
BY DEF IsSubs, NoSubs

\* of an IPsec peer,
LEMMA IpsecSent ==
  ASSUME "ipsec_peer" \in DOMAIN Ed, NEW u, IsRow("ipsec_peer", u), NEW r \in IpsecPeer_Form(u)
  PROVE  IsRow("ipsec_peer", r)
<1> DEFINE tunnels == [k \in DOMAIN u["tunnel"] |-> [u["tunnel"][k] EXCEPT !["protocol"] = None, !["esp-group"] = None]]
           p == IF u["authentication_mode"] = Psk THEN u["authentication_pre-shared-secret"] ELSE None
           m == IF u["vti_bind"] = None THEN tunnels ELSE NoSubs
           a == [u EXCEPT !["authentication_pre-shared-secret"] = p]
           s == Ed["ipsec_peer"].read
<1>1. r = [a EXCEPT !["tunnel"] = m]
  BY DEF IpsecPeer_Form
<1>2. "authentication_pre-shared-secret" \in s.leaf /\ "tunnel" \in Subs(s)
  BY IpsecIs DEF Subs
<1>3. p \in Text /\ IsSubs(s, "tunnel", u["tunnel"])
  BY <1>2, RowHas, NoneText
<1>4. IsSubs(s, "tunnel", tunnels)
  BY <1>3, TunnelsSent
<1>5. IsSubs(s, "tunnel", m)
  BY <1>4, NoSubsTyped
<1> HIDE DEF p, m, s
<1>6. IsRow("ipsec_peer", a)
  BY <1>2, <1>3, Set DEF s
<1> HIDE DEF a
<1> QED BY <1>1, <1>2, <1>5, <1>6, Set DEF s

\* (the fields of each mode of an OpenVPN interface)
LEMMA ModeFieldsAre ==
  /\ OfSomeMode \subseteq {"local-address", "remote-address", "shared-secret-key", "remote-host", "tls_role", "remote-port",
                           "authentication", "server"}
  /\ \A m \in OpenvpnModes : ModeFields[m] \subseteq OfSomeMode
  /\ ModeFields["site-to-site"] = {"local-address", "remote-address", "shared-secret-key", "remote-host", "tls_role"}
  /\ ModeFields["client"] = {"remote-host", "remote-port", "authentication"}
  /\ ModeFields["server"] = {"server"}
<1>1. /\ ModeFields["site-to-site"] = {"local-address", "remote-address", "shared-secret-key", "remote-host", "tls_role"}
      /\ ModeFields["client"] = {"remote-host", "remote-port", "authentication"}
      /\ ModeFields["server"] = {"server"}
  BY DEF ModeFields, :>, @@
<1>2. OpenvpnModes = {"site-to-site", "client", "server"}
  BY DEF OpenvpnModes
<1>3. OfSomeMode = ModeFields["site-to-site"] \cup ModeFields["client"] \cup ModeFields["server"]
  BY <1>2 DEF OfSomeMode
<1> QED BY <1>1, <1>2, <1>3

\* (which are leaves, or gates)
LEMMA OpenvpnLeaves ==
  /\ {"local-address", "remote-address", "shared-secret-key", "remote-host", "tls_role", "remote-port", "tls_dh-params"}
       \subseteq Openvpn_Read.leaf
  /\ DOMAIN Openvpn_Read.gates = {"authentication", "server"} /\ DOMAIN Openvpn_Read.tags = {}
<1>1. {"local-address", "remote-address", "shared-secret-key", "remote-host", "tls_role", "remote-port", "tls_dh-params"}
       \subseteq Openvpn_Read.leaf
  BY DEF Openvpn_Read, Schema
<1>2. /\ Openvpn_Read.gates = "authentication" :> OpenvpnAuth @@ "server" :> OpenvpnServer
      /\ Openvpn_Read.tags = NoSubs
  BY DEF Openvpn_Read, Schema
<1> QED BY <1>1, <1>2 DEF :>, @@, NoSubs

\* and of an OpenVPN interface.
LEMMA OpenvpnSent ==
  ASSUME "openvpn" \in DOMAIN Ed, NEW u, IsRow("openvpn", u), NEW r \in Openvpn_Form(u)
  PROVE  IsRow("openvpn", r)
<1> DEFINE s == Openvpn_Read
           absent == (OfSomeMode \ ModeFields[u["mode"]]) \cup IF u["mode"] = "site-to-site" THEN {"tls_dh-params"} ELSE {}
           x == [f \in absent |-> Blank(s)[f]]
           y == [n \in DOMAIN s.gates |-> IfSet(s.gates[n], u[n])]
<1>1. r = x @@ y @@ u
  BY DEF Openvpn_Form, Openvpn_Write
<1>2. Ed["openvpn"].read = s /\ IsSchema(s) /\ Extras("openvpn") = {"mode"} /\ "mode" \notin Fields(s)
  BY OpenvpnIs, TypeOfEditor
<1>3. absent \subseteq s.leaf \cup DOMAIN s.gates
  BY ModeFieldsAre, OpenvpnLeaves
<1>4. DOMAIN u = Fields(s) \cup {"mode"}
  BY <1>2, RowHas DEF RowFields
<1>5. DOMAIN x = absent /\ DOMAIN y = DOMAIN s.gates /\ absent \subseteq Fields(s) /\ DOMAIN s.gates \subseteq Fields(s)
  BY <1>3 DEF Fields, Flat
<1>6. ASSUME NEW f \in absent PROVE IsField("openvpn", f, x[f])
  <2>1. x[f] = Blank(s)[f]
    OBVIOUS
  <2>2. FlatApart(s) /\ f \in s.leaf \cup DOMAIN s.gates /\ f \notin Extras("openvpn")
    BY <1>2, <1>3, <1>5, <1>6 DEF IsSchema, IsFlatSchema
  <2> HIDE DEF x, absent, s
  <2>3. CASE f \in s.leaf
    <3>1. f \in Flat(s)
      BY <2>3 DEF Flat
    <3>2. Blank(s)[f] = None
      BY <2>2, <2>3, <3>1, BlankTyped
    <3> QED BY <1>2, <2>1, <2>2, <2>3, <3>2, FieldKinds, NoneText
  <2>4. CASE f \in DOMAIN s.gates
    <3>1. f \notin Flat(s) /\ f \in Fields(s) /\ f \in Subs(s)
      BY <1>2, <2>4 DEF IsSchema, Apart, Fields, Subs
    <3>2. f \notin s.quiet
      BY <2>2, <3>1 DEF FlatApart, Flat
    <3>3. Blank(s)[f] = NoSubs
      BY <3>1, <3>2 DEF Blank, Flat
    <3>4. IsSubs(s, f, NoSubs)
      BY NoSubsTyped
    <3> QED BY <1>2, <2>1, <2>2, <3>1, <3>3, <3>4, FieldKinds
  <2> QED BY <2>2, <2>3, <2>4
<1>7. ASSUME NEW n \in DOMAIN s.gates PROVE IsField("openvpn", n, y[n])
  <2>1. n \in Subs(s) /\ n \notin Extras("openvpn") /\ y[n] = IfSet(s.gates[n], u[n])
    BY <1>2, <1>5 DEF Subs
  <2>2. IsSubs(s, n, u[n])
    BY <1>2, <2>1, RowHas
  <2>3. IsSubs(s, n, y[n])
    BY <2>1, <2>2, IfSetTyped
  <2> HIDE DEF y, s
  <2> QED BY <1>2, <2>1, <2>3, FieldKinds
<1> HIDE DEF x, y, absent, s
<1>8. /\ DOMAIN r = DOMAIN u /\ r = [f \in DOMAIN u |-> r[f]]
      /\ \A f \in DOMAIN u : r[f] = IF f \in absent THEN x[f] ELSE IF f \in DOMAIN s.gates THEN y[f] ELSE u[f]
  BY <1>1, <1>4, <1>5 DEF @@
<1>9. \A f \in DOMAIN u : r[f] = u[f] \/ IsField("openvpn", f, r[f])
  BY <1>6, <1>7, <1>8
<1> QED BY <1>8, <1>9, Replaced

\* What a form sends for a row is a row.
LEMMA SubmitTyped ==
  ASSUME NEW e \in DOMAIN Ed, NEW u, IsRow(e, u), NEW p, NEW k, NEW to, NEW seed, NEW r \in Submit(e, p, k, to, seed, u)
  PROVE  IsRow(e, r)
<1>1. CASE k # to /\ to \in KeysOf(e, p)
  <2>1. Submit(e, p, k, to, seed, u) = {}
    BY <1>1 DEF Submit
  <2> QED BY <2>1
<1> SUFFICES ASSUME ~(k # to /\ to \in KeysOf(e, p)) PROVE IsRow(e, r)
  BY <1>1
<1>2. CASE e = "static_route"
  BY <1>2, StaticRouteSent DEF Submit
<1>3. CASE e = "ospf_area"
  BY <1>3, OspfAreaSent DEF Submit
<1>4. CASE e = "bridge"
  BY <1>4, BridgeSent DEF Submit
<1>5. CASE e = "vxlan"
  BY <1>5, VxlanSent DEF Submit
<1>6. CASE e \in {"nat_source", "nat_destination"}
  BY <1>6, NatSent DEF Submit
<1>7. CASE e = "zone"
  BY <1>7, ZoneSent DEF Submit
<1>8. CASE e = "ipsec_peer"
  BY <1>8, IpsecSent DEF Submit
<1>9. CASE e = "openvpn"
  BY <1>9, OpenvpnSent DEF Submit
<1>10. CASE e = "dhcp_relay"
  <2>1. r = Blank(Relay_Read)
    BY <1>10 DEF Submit, Relay_Form
  <2>2. Ed[e].read = Relay_Read /\ Extras(e) = {}
    BY <1>10, EditorIs, Plain DEF Relay, Editor
  <2>3. Fields(Relay_Read) = {}
    BY DEF Relay_Read, Schema, Fields, Flat, NoSubs
  <2>4. r = [f \in {} |-> r[f]]
    BY <2>1, <2>3 DEF Blank
  <2>5. RowFields(e) = {}
    BY <2>2, <2>3 DEF RowFields
  <2> QED BY <2>4, <2>5, Fieldwise
<1>11. CASE e \in {"bgp_neighbor", "prefix-list", "route-map", "vrrp_sync-group", "config_sync", "ethernet"}
  <2>1. r = u
    BY <1>11 DEF Submit, BgpPeer_Form, PrefixList_Form, RouteMap_Form, VrrpSync_Form, ConfigSync_Form, Ethernet_Form
  <2> QED BY <2>1
<1>12. CASE e \in {"vlan", "bond", "nat_static", "alias", "policy"}
  <2>1. r = u
    BY <1>12 DEF Submit, Vlan_Form, Bond_Form, StaticNat_Form, Alias_Form, Policy_Form
  <2> QED BY <2>1
<1>13. CASE e \in {"dhcp_server", "user", "wireguard", "l2tp_user", "l2tp_radius"}
  <2>1. r = u
    BY <1>13 DEF Submit, Server_Form, User_Form, Wireguard_Form, L2tpUser_Form, L2tpRadius_Form
  <2> QED BY <2>1
<1>14. CASE e \notin {"static_route", "bgp_neighbor", "ospf_area", "prefix-list", "route-map", "vrrp_sync-group", "config_sync",
                    "ethernet", "vlan", "bond", "bridge", "vxlan", "nat_source", "nat_destination", "nat_static", "alias",
                    "policy", "zone", "dhcp_relay", "dhcp_server", "user", "ipsec_peer", "openvpn", "wireguard", "l2tp_user",
                    "l2tp_radius"}
  <2>1. r \in {q \in {u} : Filled(Ed[e].write, u, Ed[e].need)}
    BY <1>14 DEF Submit
  <2> QED BY <2>1
<1> QED BY <1>2, <1>3, <1>4, <1>5, <1>6, <1>7, <1>8, <1>9, <1>10, <1>11, <1>12, <1>13, <1>14

\* An editor that diffs part of its fields.
LEMMA NarrowGood ==
  ASSUME NEW z, IsSchema(z), NEW s, Wider(z, s), NEW b, IsPath(b), NEW l, LiveOver(z, l, Text), NEW u, IsBody(z, u)
  PROVE  IsSchema(s) /\ LiveOver(s, l, Text) /\ IsBody(s, u) /\ IsGood(Diff(b, s, l, u))
<1>1. IsSchema(s)
  BY WiderFields
<1>2. Subs(s) = Subs(z) /\ \A n \in Subs(s) : SubSchema(s, n) = SubSchema(z, n)
  BY DEF Wider, Subs, SubSchema
<1>3. LiveOver(s, l, Text)
  <2>1. \A f \in s.multi : l[f] \subseteq Text
    BY DEF LiveOver, Wider
  <2>2. \A n, k : Keyed(s, n, k, Text) <=> Keyed(z, n, k, Text)
    BY DEF Keyed, Wider
  <2> QED BY <1>2, <2>1, <2>2 DEF LiveOver
<1>4. IsBody(s, u)
  <2>1. IsFlatRow(s, u)
    BY DEF IsBody, IsFlatRow, Wider
  <2>2. \A n, k : IsTagKey(s, n, k) <=> IsTagKey(z, n, k)
    BY DEF IsTagKey, Wider
  <2> QED BY <1>2, <2>1, <2>2 DEF IsBody
<1> QED BY <1>1, <1>3, <1>4, DiffGood

\* Two names below a node.
LEMMA PathBelowTwo ==
  ASSUME NEW b, IsPath(b), NEW f \in Word, NEW v \in Word, NEW w \in Text, w # None \/ v \in Blankable
  PROVE  IsPath(b \o <<f, v, w>>)
<1>1. IsPath(b \o <<f>>)
  BY PathBelow
<1> DEFINE c == b \o <<f>>
<1>2. b \in Seq(Text) /\ f \in Text /\ v \in Text
  BY TextOf, NoneText
<1>3. b \o <<f, v, w>> = c \o <<v, w>>
  BY <1>2
<1> HIDE DEF c
<1>4. IsPath(c)
  BY <1>1 DEF c
<1>5. IsPath(c \o <<v, w>>)
  BY <1>4, PathBelow
<1> QED BY <1>3, <1>5

\* Some strings that the code writes are words.
LEMMA Named ==
  /\ {"area-type", "no-summary", "section", "public-keys", "type", "key", "mode", "member_interface", "server",
      "subnet", "subnet-id", "range", "default", "description", "start", "stop", "source", "destination",
      "next-hop", "interface", "distance", "disable", "interfaces_bridge", "blackhole"} \subseteq Word
  /\ {"site-to-site", "client"} \subseteq Word
  /\ "description" \in Blankable
<1>1. {"area-type", "no-summary", "section", "public-keys", "type", "key", "mode", "member_interface", "server",
      "subnet", "subnet-id", "range", "default", "description", "start", "stop", "source", "destination",
      "next-hop", "interface", "distance", "disable", "interfaces_bridge", "blackhole", "site-to-site", "client"} \subseteq Keywords
  BY DEF Keywords
<1> QED BY <1>1, TextAssumption DEF Word, None, Blankable

\* An OSPF area's batch.
LEMMA OspfAreaGood ==
  ASSUME "ospf_area" \in DOMAIN Ed, NEW b, IsPath(b), NEW l, LiveOver(Ed["ospf_area"].write, l, Text),
         NEW u, IsBody(Ed["ospf_area"].write, u)
  PROVE  IsGood(OspfArea_Diff(b, l, u))
<1> DEFINE z == Ed["ospf_area"].write
           type == u["area-type"]
           p == NoSummary(b, type)
<1>1. Ed["ospf_area"] = OspfArea
  BY EditorIs
<1>2. Wider(z, OspfArea_Write)
  BY <1>1 DEF Wider, OspfArea, Editor, OspfArea_Write, OspfArea_Read, Schema
<1>3. IsSchema(z)
  BY TypeOfEditor
<1>4. "area-type" \in z.leaf
  BY <1>1 DEF OspfArea, Editor, OspfArea_Write, OspfArea_Read, Schema
<1>5. type \in Text
  BY <1>4 DEF IsBody, IsFlatRow
<1>6. IsGood(Diff(b, OspfArea_Write, l, u))
  BY <1>2, <1>3, NarrowGood
<1>7. type # None => IsPath(p)
  <2>1. SUFFICES ASSUME type # None PROVE IsPath(p)
    OBVIOUS
  <2>2. type \in Word
    BY <1>5, <2>1 DEF Word
  <2> HIDE DEF type
  <2>3. IsPath(b \o <<"area-type", type, "no-summary">>)
    BY <2>2, Named, PathBelowTwo, NoneText DEF Word
  <2> QED BY <2>3 DEF NoSummary
<1>8. type # None => IsGood(Deletes({p})) /\ IsGood(Adds({p}))
  BY <1>7, GoodDeletes, GoodAdds DEF IsPath
<1> HIDE DEF z, type, p
<1>9. CASE type = None \/ (l["area-type"] = type /\ l["no-summary"]) = u["no-summary"]
  BY <1>9, <1>6, GoodNothing, GoodBoth DEF OspfArea_Diff, type
<1>10. CASE ~(type = None \/ (l["area-type"] = type /\ l["no-summary"]) = u["no-summary"])
  BY <1>10, <1>6, <1>8, GoodBoth DEF OspfArea_Diff, type, p
<1> QED BY <1>9, <1>10

\* The description of a marked object.
LEMMA EncodedGood ==
  ASSUME NEW b, IsPath(b), NEW mark, NEW l, NEW u, u[mark] \in Text, u["description"] \in Text
  PROVE  IsGood(EncodeDiff(b, mark, l, u))
<1> DEFINE d == b \o <<"description">>
           new == Encode(u, mark)
<1>1. IsPath(d)
  BY Named, PathBelow
<1>2. new # <<>> => IsPath(d \o <<new[1]>>) /\ IsPath(d \o new)
  <2>1. CASE u["description"] # None
    <3>1. new = <<u[mark], u["description"]>>
      BY <2>1 DEF Encode
    <3>2. u["description"] \in Word
      BY <2>1 DEF Word
    <3> DEFINE m == u[mark]
               x == u["description"]
    <3>3. b \o <<"description", m>> = d \o <<m>>
      <4>1. b \in Seq(Text) /\ "description" \in Text /\ m \in Text
        BY TextOf, Named, NoneText
      <4> HIDE DEF m
      <4> QED BY <4>1
    <3>4. IsPath(b \o <<"description", m>>)
      BY Named, PathBelow
    <3>5. IsPath(d \o <<m>>)
      BY <3>3, <3>4
    <3> HIDE DEF d
    <3>6. d \o <<m, x>> = (d \o <<m>>) \o <<x>>
      BY <1>1, TextOf
    <3>7. IsPath((d \o <<m>>) \o <<x>>)
      BY <3>2, <3>5, PathBelow, NoneText
    <3>8. new[1] = m
      BY <3>1
    <3>9. IsPath(d \o <<new[1]>>)
      BY <3>5, <3>8
    <3>10. d \o new = d \o <<m, x>>
      BY <3>1
    <3> QED BY <3>6, <3>7, <3>9, <3>10
  <2>2. CASE u["description"] = None /\ u[mark] # None
    <3>1. new = <<u[mark]>>
      BY <2>2 DEF Encode
    <3>2. u[mark] \in Word
      BY <2>2 DEF Word
    <3> HIDE DEF d
    <3>3. IsPath(d \o <<u[mark]>>)
      BY <1>1, <3>2, PathBelow, NoneText
    <3>4. new[1] = u[mark]
      BY <3>1
    <3> QED BY <3>1, <3>3, <3>4
  <2>3. CASE u["description"] = None /\ u[mark] = None
    BY <2>3 DEF Encode
  <2> QED BY <2>1, <2>2, <2>3
<1> HIDE DEF d, new
<1>3. IsGood(Deletes({d}))
  BY <1>1, GoodDeletes DEF IsPath
<1>4. new # <<>> => IsGood(Batch({}, {d \o <<new[1]>>}, {d \o new}))
  BY <1>2, GoodBatch
<1> QED BY <1>3, <1>4, GoodNothing DEF EncodeDiff, d, new

\* The batches of the firewall's objects.
LEMMA MarkedGood ==
  ASSUME NEW z, IsSchema(z), NEW s, Wider(z, s), NEW mark, {mark, "description"} \subseteq z.leaf,
         NEW b, IsPath(b), NEW l, LiveOver(z, l, Text), NEW u, IsBody(z, u)
  PROVE  IsGood(Both(EncodeDiff(b, mark, l, u), Diff(b, s, l, u)))
<1>1. u[mark] \in Text /\ u["description"] \in Text
  BY DEF IsBody, IsFlatRow
<1>2. IsGood(EncodeDiff(b, mark, l, u))
  BY <1>1, EncodedGood
<1>3. IsGood(Diff(b, s, l, u))
  BY NarrowGood
<1> QED BY <1>2, <1>3, GoodBoth

\* The schemas with a marked description: what they have beside it.
LEMMA MarkedSchemas ==
  /\ "alias" \in DOMAIN Ed => Wider(Ed["alias"].write, Alias_Read) /\ {"display", "description"} \subseteq Ed["alias"].write.leaf
  /\ "policy" \in DOMAIN Ed => Wider(Ed["policy"].write, Policy_Read) /\ {"protocol", "description"} \subseteq Ed["policy"].write.leaf
  /\ "zone" \in DOMAIN Ed => Wider(Ed["zone"].write, Zone_Read) /\ {"display", "description"} \subseteq Ed["zone"].write.leaf
<1>1. ASSUME NEW s, NEW mark, s.leaf = s.leaf, NEW z, z = Marked(s, mark), DOMAIN s = DOMAIN Schema({}, {}, {})
      PROVE  Wider(z, s) /\ {mark, "description"} \subseteq z.leaf
  <2>1. DOMAIN s = {"leaf", "multi", "flag", "secret", "pick", "quiet", "tags", "gates"}
    BY <1>1 DEF Schema
  <2> QED BY <1>1, <2>1 DEF Wider, Marked
<1>2. \A L, M, F : DOMAIN Schema(L, M, F) = DOMAIN Schema({}, {}, {})
  BY DEF Schema
<1>3. "alias" \in DOMAIN Ed => Ed["alias"].write = Marked(Alias_Read, "display")
  BY EditorIs DEF Alias, Editor
<1>4. "policy" \in DOMAIN Ed => Ed["policy"].write = Marked(Policy_Read, "protocol")
  BY EditorIs DEF Policy, Editor
<1>5. "zone" \in DOMAIN Ed => Ed["zone"].write = Marked(Zone_Read, "display")
  BY EditorIs DEF Zone, Editor
<1>6. DOMAIN Alias_Read = DOMAIN Schema({}, {}, {}) /\ DOMAIN Policy_Read = DOMAIN Schema({}, {}, {})
      /\ DOMAIN Zone_Read = DOMAIN Schema({}, {}, {})
  BY <1>2 DEF Alias_Read, Policy_Read, Zone_Read
<1> QED BY <1>1, <1>3, <1>4, <1>5, <1>6

\* The node of the state policy is a path.
LEMMA StatePolicyIs == IsPath(StatePolicy) /\ StatePolicy \in Seq(Text) /\ Len(StatePolicy) = 3
                       /\ StatePolicy[1] = "firewall_global-options"
<1>1. {"firewall_global-options", "state-policy", "accept"} \subseteq Text
  BY TextAssumption DEF Keywords
<1>2. StatePolicy \in Seq(Text) /\ Len(StatePolicy) = 3 /\ StatePolicy[3] = "accept" /\ StatePolicy[1] = "firewall_global-options"
  BY <1>1 DEF StatePolicy
<1>3. \A i \in 3..3 : i = 3
  OBVIOUS
<1>4. StatePolicy[3] # None
  BY <1>2 DEF None
<1>5. \A i \in 3..Len(StatePolicy) : StatePolicy[i] # None
  BY <1>2, <1>3, <1>4
<1>6. IsPath(StatePolicy)
  BY <1>2, <1>5 DEF IsPath
<1> QED BY <1>2, <1>6

\* The batches of single editors are good: of aliases, policies and zones,
LEMMA FirewallGood ==
  ASSUME NEW e \in DOMAIN Ed, e \in {"alias", "policy", "zone"}, NEW b, IsPath(b),
         NEW l, LiveOver(Ed[e].write, l, Text), NEW u, IsBody(Ed[e].write, u), NEW isNew, NEW p
  PROVE  /\ e = "alias" => IsGood(Alias_Diff(b, isNew, l, u))
         /\ e = "policy" => IsGood(PortGroup_Diff(b, l, u))
         /\ e = "zone" => IsGood(Zone_Diff(p, b, isNew, l, u))
<1>1. IsSchema(Ed[e].write)
  BY TypeOfEditor
<1>2. ASSUME e = "alias" PROVE IsGood(Alias_Diff(b, isNew, l, u))
  <2>1. IsGood(Both(EncodeDiff(b, "display", l, u), Diff(b, Alias_Read, l, u)))
    BY <1>1, <1>2, MarkedSchemas, MarkedGood
  <2> QED BY <2>1, CreatedGood DEF Alias_Diff
<1>3. ASSUME e = "policy" PROVE IsGood(PortGroup_Diff(b, l, u))
  <2>1. IsGood(Both(EncodeDiff(b, "protocol", l, u), Diff(b, Policy_Read, l, u)))
    BY <1>1, <1>3, MarkedSchemas, MarkedGood
  <2> QED BY <2>1 DEF PortGroup_Diff
<1>4. ASSUME e = "zone" PROVE IsGood(Zone_Diff(p, b, isNew, l, u))
  <2> DEFINE c == Created(b, isNew, Both(EncodeDiff(b, "display", l, u), Diff(b, Zone_Read, l, u)))
  <2>1. IsGood(Both(EncodeDiff(b, "display", l, u), Diff(b, Zone_Read, l, u)))
    BY <1>1, <1>4, MarkedSchemas, MarkedGood
  <2>2. IsGood(c)
    BY <2>1, CreatedGood
  <2>3. IsGood(Adds({StatePolicy}))
    BY StatePolicyIs, GoodAdds
  <2> HIDE DEF c
  <2>4. IsGood(Both(c, Adds({StatePolicy})))
    BY <2>2, <2>3, GoodBoth
  <2> QED BY <2>2, <2>4 DEF Zone_Diff, c
<1> QED BY <1>2, <1>3, <1>4

\* (the nodes of the NTP servers are paths)
LEMMA NtpPaths ==
  /\ IsPath(Ntp) /\ IsPath(NtpServers) /\ Ntp \in Seq(Text) /\ NtpServers \in Seq(Text)
  /\ \A v \in Text : Append(NtpServers, v) \in Seq(Text)
  /\ \A v \in Word : IsPath(Append(NtpServers, v))
<1>1. "service_ntp" \in Text /\ "" \in Text /\ "server" \in Word
  BY TextAssumption, Named, NoneText DEF Keywords, None
<1>2. Ntp \in Seq(Text) /\ Len(Ntp) = 2
  <2>1. ASSUME NEW a \in Text, NEW c \in Text PROVE <<a, c>> \in Seq(Text) /\ Len(<<a, c>>) = 2
    OBVIOUS
  <2> QED BY <1>1, <2>1, Zenon DEF Ntp
<1>3. IsPath(Ntp)
  BY <1>2 DEF IsPath
<1>4. IsPath(NtpServers)
  BY <1>1, <1>3, PathBelow, NoneText DEF NtpServers
<1>5. \A v : Append(NtpServers, v) = NtpServers \o <<v>>
  BY <1>4, TextOf
<1>6. ASSUME NEW v \in Word PROVE IsPath(Append(NtpServers, v))
  BY <1>4, <1>5, <1>6, PathBelow, NoneText
<1>7. NtpServers \in Seq(Text)
  BY <1>4, TextOf
<1> QED BY <1>2, <1>3, <1>4, <1>6, <1>7

\* of the general settings,
LEMMA GeneralGood ==
  ASSUME "general" \in DOMAIN Ed, NEW b, IsPath(b),
         NEW l, LiveOver(Ed["general"].write, l, Text), NEW u, IsBody(Ed["general"].write, u)
  PROVE  IsGood(General_Diff(b, l, u))
<1> DEFINE z == Ed["general"].write
           was == l["ntp_server"]
           to == u["ntp_server"]
           D == {Append(NtpServers, v) : v \in was \ to}
           A == {Append(NtpServers, v) : v \in to \ was}
<1>1. z = [General_Read EXCEPT !.multi = @ \cup {"ntp_server"}]
  BY EditorIs DEF General, Settings, Panel, Editor
<1>2. IsSchema(z)
  BY TypeOfEditor
<1>3. Wider(z, General_Write) /\ "ntp_server" \in z.multi
  <2> HIDE DEF z
  <2> QED BY <1>1 DEF Wider, General_Write, General_Read, Schema
<1>4. was \subseteq Text /\ to \subseteq Word
  BY <1>3 DEF LiveOver, IsBody, IsFlatRow
<1>5. IsGood(Diff(b, General_Write, l, u))
  BY <1>2, <1>3, NarrowGood
<1> HIDE DEF z, was, to
<1>6. D \in SUBSET Seq(Text) /\ \A q \in A : IsPath(q)
  BY <1>4, NtpPaths
<1> HIDE DEF D, A
<1>7. IsGood(Batch(D, {}, A)) /\ IsGood(Deletes({Ntp}))
  BY <1>6, NtpPaths, GoodBatch, GoodDeletes
<1> QED BY <1>5, <1>7, GoodBoth DEF General_Diff, D, A, was, to

\* (the nodes of the synchronised sections are paths)
LEMMA SectionPaths ==
  ASSUME NEW b, IsPath(b), NEW v, IsSection(v)
  PROVE  \A x \in v : IsPath(SectionPath(b, x)) /\ SectionPath(b, x) \in Seq(Text)
<1> SUFFICES ASSUME NEW x \in v PROVE IsPath(SectionPath(b, x))
  BY TextOf
<1>1. x = <<x[1], x[2]>> /\ x[1] \in Word /\ x[2] \in Text
  BY DEF IsSection
<1>2. CASE x[2] = None
  BY <1>1, <1>2, Named, PathBelow, NoneText DEF SectionPath
<1>3. CASE x[2] # None
  <2> DEFINE y == x[1]
             w == x[2]
  <2>1. w \in Word
    BY <1>1, <1>3 DEF Word
  <2>2. IsPath(b \o <<"section", y, w>>)
    BY <1>1, <2>1, <1>3, Named, PathBelowTwo, NoneText
  <2>3. b \o <<"section">> \o x = b \o <<"section", y, w>>
    <3>1. b \in Seq(Text) /\ "section" \in Text /\ y \in Text /\ w \in Text
      BY <1>1, TextOf, Named, NoneText
    <3>2. x = <<y, w>>
      BY <1>1
    <3> HIDE DEF y, w
    <3> QED BY <3>1, <3>2
  <2> QED BY <1>3, <2>2, <2>3 DEF SectionPath
<1> QED BY <1>2, <1>3

\* of the configuration synchronisation,
LEMMA ConfigSyncGood ==
  ASSUME "config_sync" \in DOMAIN Ed, NEW b, IsPath(b), NEW l, LiveOver(Ed["config_sync"].write, l, Text),
         NEW u, IsBody(Ed["config_sync"].write, u), IsSection(l["section"]), IsSection(u["section"])
  PROVE  IsGood(ConfigSync_Diff(b, l, u))
<1> DEFINE A == {SectionPath(b, s) : s \in u["section"] \ l["section"]}
           D == {SectionPath(b, s) : s \in l["section"] \ u["section"]}
<1>1. Ed["config_sync"].write = ConfigSync_Leaves
  BY EditorIs DEF ConfigSync, Panel, Editor
<1>2. IsFlatSchema(ConfigSync_Leaves)
  BY <1>1, TypeOfEditor DEF IsSchema
<1>3. IsGood(FlatDiff(b, ConfigSync_Leaves, l, u))
  <2>1. \A f \in ConfigSync_Leaves.multi : l[f] \subseteq Text
    BY <1>1 DEF LiveOver
  <2>2. IsFlatRow(ConfigSync_Leaves, u)
    BY <1>1 DEF IsBody
  <2> QED BY <1>2, <2>1, <2>2, FlatGood
<1>4. \A q \in A : IsPath(q)
  BY SectionPaths
<1>5. D \in SUBSET Seq(Text)
  BY SectionPaths
<1> HIDE DEF A, D
<1>6. IsGood(Adds(A)) /\ IsGood(LateDeletes(D))
  BY <1>4, <1>5, GoodAdds, GoodDeletes
<1>7. \A c \in {FlatDiff(b, ConfigSync_Leaves, l, u), Adds(A), LateDeletes(D)} : IsGood(c)
  BY <1>3, <1>6
<1>8. IsGood(BothOf({FlatDiff(b, ConfigSync_Leaves, l, u), Adds(A), LateDeletes(D)}))
  BY <1>7, GoodBothOf
<1> QED BY <1>8 DEF ConfigSync_Diff, A, D

\* (a sequence of two)
LEMMA TwoTexts ==
  ASSUME NEW V, NEW a \in V, NEW b \in V
  PROVE  <<a, b>> \in Seq(V) /\ Len(<<a, b>>) = 2 /\ <<a, b>>[1] = a /\ <<a, b>>[2] = b
OBVIOUS

\* (the node of an object is a path)
LEMMA ObjectPath ==
  ASSUME NEW a \in Text, NEW b \in Text
  PROVE  IsPath(<<a, b>>) /\ <<a, b>> \in Seq(Text)
<1> DEFINE p == <<a, b>>
<1>1. p \in Seq(Text) /\ Len(p) = 2
  BY TwoTexts
<1> HIDE DEF p
<1>2. IsPath(p)
  BY <1>1 DEF IsPath
<1> QED BY <1>1, <1>2 DEF p

\* (the node of a bridge's member is a path)
LEMMA MemberPath ==
  ASSUME NEW x \in Text, NEW y \in Word
  PROVE  IsPath(MemberOf(x, y)) /\ MemberOf(x, y) \in Seq(Text)
<1> DEFINE b == <<"interfaces_bridge", x>>
<1>1. IsPath(b) /\ b \in Seq(Text)
  BY ObjectPath, Named, NoneText
<1>2. MemberOf(x, y) = b \o <<"member_interface", y>>
  BY DEF MemberOf
<1> HIDE DEF b
<1>3. IsPath(b \o <<"member_interface", y>>)
  BY <1>1, Named, PathBelow, NoneText DEF Word
<1> QED BY <1>2, <1>3, TextOf

\* of VXLAN interfaces,
LEMMA VxlanGood ==
  ASSUME "vxlan" \in DOMAIN Ed, NEW b, IsPath(b), b[2] \in Word, NEW l, LiveOver(Ed["vxlan"].write, l, Text),
         NEW isNew, ~isNew => l["bridge"] \in Text, NEW u, IsRow("vxlan", u)
  PROVE  IsGood(Vxlan_Diff(b, isNew, l, u))
<1> DEFINE forced == [u EXCEPT !["external"] = @ \/ DOMAIN u["vlan-to-vni"] # {}]
           was == IF isNew THEN None ELSE l["bridge"]
           paths(x) == IF x = None THEN {} ELSE {MemberOf(x, b[2])}
<1>1. "external" \in Ed["vxlan"].read.flag /\ Ed["vxlan"].write = Vxlan_Write
  BY VxlanIs DEF Vxlan_Write
<1>2. IsRow("vxlan", forced)
  <2>1. (u["external"] \/ DOMAIN u["vlan-to-vni"] # {}) \in BOOLEAN
    OBVIOUS
  <2> QED BY <1>1, <2>1, Set
<1> HIDE DEF forced
<1>3. IsBody(Vxlan_Write, forced)
  BY <1>1, <1>2, RowIsBody
<1>4. IsSchema(Vxlan_Write)
  BY <1>1, TypeOfEditor
<1>5. IsGood(Diff(b, Vxlan_Write, l, forced))
  BY <1>1, <1>3, <1>4, DiffGood
<1>6. IsGood(Created(b, isNew, Diff(b, Vxlan_Write, l, forced)))
  BY <1>5, CreatedGood
<1>7. was \in Text
  BY NoneText
<1>8. u["bridge"] \in Text
  <2>1. HasExtras("vxlan", u)
    BY RowIs
  <2> QED BY <2>1 DEF HasExtras
<1> HIDE DEF was
<1>9. ASSUME NEW x \in Text PROVE paths(x) \in SUBSET Seq(Text) /\ \A q \in paths(x) : IsPath(q)
  BY MemberPath
<1>10. paths(was) \in SUBSET Seq(Text) /\ \A q \in paths(u["bridge"]) : IsPath(q)
  BY <1>7, <1>8, <1>9
<1> HIDE DEF paths
<1>11. IsGood(Batch(paths(was), {}, paths(u["bridge"])))
  BY <1>10, GoodBatch
<1>12. IsGood(Both(Created(b, isNew, Diff(b, Vxlan_Write, l, forced)),
                   IF was = u["bridge"] THEN NoCommands ELSE Batch(paths(was), {}, paths(u["bridge"]))))
  BY <1>6, <1>11, GoodBoth, GoodNothing
<1> QED BY <1>12 DEF Vxlan_Diff, was, paths, forced

\* (the node of a NAT rule is a path)
LEMMA RulePath ==
  ASSUME NEW section \in {"source", "destination"}, NEW n \in Text
  PROVE  /\ NatRule_At(section, n) \in Seq(Text)
         /\ n # None => IsPath(NatRule_At(section, n))
<1> DEFINE b == <<"nat", section>>
<1>1. "nat" \in Text /\ section \in Word
  BY TextAssumption, Named DEF Keywords
<1>2. IsPath(b) /\ b \in Seq(Text)
  BY <1>1, ObjectPath, NoneText
<1>3. NatRule_At(section, n) = b \o <<n>>
  BY DEF NatRule_At
<1> HIDE DEF b
<1>4. b \o <<n>> \in Seq(Text)
  BY <1>2, Appended
<1>5. n # None => IsPath(b \o <<n>>)
  BY <1>2, PathBelow, NoneText DEF Word
<1> QED BY <1>3, <1>4, <1>5

\* of NAT rules,
LEMMA NatGood ==
  ASSUME NEW section \in {"source", "destination"}, NEW t, NEW known, NEW k \in Text, NEW to \in Word,
         NEW u, IsFlatRow(NatRule_Read, u)
  PROVE  IsGood(NatRule_Diff(t, known, section, k, to, u))
<1> DEFINE b == NatRule_At(section, to)
           moved == k \notin {None, to}
           isNew == moved \/ to \notin known
           live == IF isNew THEN Blank(NatRule_Write) ELSE NatRule_Row(t, section, to)
<1>1. IsPath(b)
  BY RulePath DEF Word
<1>2. LiveOver(NatRule_Write, live, Text)
  BY NatReadIs DEF LiveOver, NatRule_Write
<1>3. IsBody(NatRule_Write, u)
  BY NatReadIs DEF IsBody, NatRule_Write
<1>4. IsSchema(NatRule_Write)
  BY NatSchema DEF NatRule_Write
<1> HIDE DEF b, live, isNew
<1>5. IsGood(Diff(b, NatRule_Write, live, u))
  BY <1>1, <1>2, <1>3, <1>4, DiffGood
<1>6. IsGood(Created(b, isNew, Diff(b, NatRule_Write, live, u)))
  BY <1>1, <1>5, CreatedGood
<1>7. IsGood(Deletes({NatRule_At(section, k)}))
  BY RulePath, GoodDeletes
<1>8. IsGood(Both(IF moved THEN Deletes({NatRule_At(section, k)}) ELSE NoCommands,
                  Created(b, isNew, Diff(b, NatRule_Write, live, u))))
  BY <1>6, <1>7, GoodBoth, GoodNothing
<1> QED BY <1>8 DEF NatRule_Diff, b, live, isNew

\* The values of a at the fields L that it has are in S.
Holds(L, S, a) == \A f \in L \cap DOMAIN a : a[f] \in S
\* What holds of two functions holds of their merge,
LEMMA Merges ==
  ASSUME NEW L, NEW S, NEW a, NEW b, Holds(L, S, a), Holds(L, S, b)
  PROVE  Holds(L, S, a @@ b)
BY DEF Holds, @@

\* and of one given at a single point.
LEMMA Point ==
  ASSUME NEW L, NEW S, NEW x, NEW v, x \in L => v \in S
  PROVE  Holds(L, S, x :> v)
BY DEF Holds, :>

\* A row merged with a blank one has all the fields.
LEMMA Filling ==
  ASSUME NEW a, NEW s, NEW f \in Fields(s)
  PROVE  f \in DOMAIN (a @@ Blank(s))
BY DEF @@, Blank

\* The two rules of a 1-to-1 mapping have values of the kinds of the mapping's.
LEMMA PairTyped ==
  ASSUME NEW u, NEW L, NEW S, NEW sec \in {"source", "destination"},
         \A x \in {"description", "interface_name", "source_address", "translation_address", "destination_address", "disable"} \cap L :
            LET f == CASE x = "interface_name" -> "interface"
                       [] x \in {"description", "disable"} -> x
                       [] x = "source_address" -> "internal"
                       [] x = "destination_address" -> "external"
                       [] OTHER -> IF sec = "source" THEN "external" ELSE "internal"
            IN  u[f] \in S,
         Holds(L, S, Blank(NatRule_Write))
  PROVE  Holds(L, S, StaticPair(u)[sec])
<1> DEFINE common == "description" :> u["description"] @@ "interface_name" :> u["interface"] @@ "disable" :> u["disable"]
<1>1. Holds(L, S, "description" :> u["description"])
  <2>1. "description" \in L => u["description"] \in S
    OBVIOUS
  <2> QED BY <2>1, Point
<1>2. Holds(L, S, "interface_name" :> u["interface"])
  <2>1. "interface_name" \in L => u["interface"] \in S
    OBVIOUS
  <2> QED BY <2>1, Point
<1>3. Holds(L, S, "disable" :> u["disable"])
  <2>1. "disable" \in L => u["disable"] \in S
    OBVIOUS
  <2> QED BY <2>1, Point
<1>4. Holds(L, S, common)
  BY <1>1, <1>2, <1>3, Merges
<1> HIDE DEF common
<1>5. CASE sec = "source"
  <2>1. StaticPair(u)[sec] = "source_address" :> u["internal"] @@ "translation_address" :> u["external"] @@ common @@ Blank(NatRule_Write)
    BY <1>5 DEF StaticPair, common
  <2>2. Holds(L, S, "source_address" :> u["internal"])
    <3>1. "source_address" \in L => u["internal"] \in S
      OBVIOUS
    <3> QED BY <3>1, Point
  <2>3. Holds(L, S, "translation_address" :> u["external"])
    <3>1. "translation_address" \in L => u["external"] \in S
      BY <1>5
    <3> QED BY <3>1, Point
  <2> QED BY <2>1, <2>2, <2>3, <1>4, Merges
<1>6. CASE sec = "destination"
  <2>1. StaticPair(u)[sec] = "destination_address" :> u["external"] @@ "translation_address" :> u["internal"] @@ common @@ Blank(NatRule_Write)
    BY <1>6 DEF StaticPair, common
  <2>2. Holds(L, S, "destination_address" :> u["external"])
    <3>1. "destination_address" \in L => u["external"] \in S
      OBVIOUS
    <3> QED BY <3>1, Point
  <2>3. Holds(L, S, "translation_address" :> u["internal"])
    <3>1. "translation_address" \in L => u["internal"] \in S
      BY <1>6
    <3> QED BY <3>1, Point
  <2> QED BY <2>1, <2>2, <2>3, <1>4, Merges
<1> QED BY <1>5, <1>6

\* They have all the fields of a NAT rule,
LEMMA PairIs ==
  ASSUME NEW u, NEW sec \in {"source", "destination"}
  PROVE  Fields(NatRule_Read) \subseteq DOMAIN StaticPair(u)[sec]
<1>1. ASSUME NEW a PROVE Fields(NatRule_Read) \subseteq DOMAIN (a @@ Blank(NatRule_Write))
  BY Filling DEF NatRule_Write
<1> DEFINE common == "description" :> u["description"] @@ "interface_name" :> u["interface"] @@ "disable" :> u["disable"]
           a == "source_address" :> u["internal"] @@ "translation_address" :> u["external"] @@ common
           b == "destination_address" :> u["external"] @@ "translation_address" :> u["internal"] @@ common
<1>2. StaticPair(u) = [source |-> a @@ Blank(NatRule_Write), destination |-> b @@ Blank(NatRule_Write)]
  BY DEF StaticPair
<1> HIDE DEF a, b, common
<1> QED BY <1>1, <1>2

\* and have its shape.
LEMMA PairRow ==
  ASSUME "nat_static" \in DOMAIN Ed, NEW u, IsRow("nat_static", u), NEW sec \in {"source", "destination"}
  PROVE  IsFlatRow(NatRule_Read, StaticPair(u)[sec])
<1>1. \A f \in {"description", "interface", "internal", "external", "disable"} : IsField("nat_static", f, u[f])
  BY StaticNatIs, RowHas
<1>2. u["description"] \in Text /\ u["interface"] \in Text /\ u["internal"] \in Text /\ u["external"] \in Text
      /\ u["disable"] \in BOOLEAN
  BY <1>1, StaticNatIs
<1>3. Holds(NatRule_Read.leaf, Text, Blank(NatRule_Write))
  BY NatReadIs, NatSchema, BlankTyped, NoneText DEF Holds, NatRule_Write, IsFlatSchema
<1>4. Holds({"disable"}, BOOLEAN, Blank(NatRule_Write))
  BY NatReadIs, NatSchema, BlankTyped DEF Holds, NatRule_Write, IsFlatSchema
<1>5. Holds(NatRule_Read.leaf, Text, StaticPair(u)[sec])
  <2>1. "disable" \notin NatRule_Read.leaf
    BY NatReadIs
  <2> QED BY <1>2, <1>3, <2>1, PairTyped
<1>6. Holds({"disable"}, BOOLEAN, StaticPair(u)[sec])
  BY <1>2, <1>4, PairTyped
<1>7. \A f \in NatRule_Read.leaf \cup {"disable"} : f \in DOMAIN StaticPair(u)[sec]
  BY PairIs, NatReadIs
<1> QED BY <1>5, <1>6, <1>7, NatReadIs DEF Holds, IsFlatRow

\* The batch of a 1-to-1 mapping is good,
LEMMA StaticNatGood ==
  ASSUME "nat_static" \in DOMAIN Ed, NEW u, IsRow("nat_static", u), NEW t, NEW k \in Text, NEW to \in Word
  PROVE  IsGood(StaticNat_Diff(t, k, to, u))
<1>1. \A sec \in {"source", "destination"} : IsGood(NatRule_Diff(t, NatRules(t, sec), sec, k, to, StaticPair(u)[sec]))
  BY PairRow, NatGood
<1>2. \A c \in {NatRule_Diff(t, NatRules(t, sec), sec, k, to, StaticPair(u)[sec]) : sec \in {"source", "destination"}} : IsGood(c)
  BY <1>1
<1> QED BY <1>2, GoodBothOf DEF StaticNat_Diff

\* Keys of next-hops.
LEMMA HopPaths ==
  ASSUME "static_route" \in DOMAIN Ed, NEW k, IsKey("static_route", k)
  PROVE  /\ IsPath(HopPath(k)) /\ IsPath(RouteBase(k)) /\ HopPath(k) = Base("static_route", k)
         /\ Len(k) = 3 /\ k[1] \in Text /\ k[2] \in {"next-hop", "interface", "blackhole"}
<1>1. Ed["static_route"].at = StaticRoute_At /\ Ed["static_route"].keyed
  BY EditorIs DEF StaticRoute, Editor
<1>2. HopPath(k) = Base("static_route", k)
  BY <1>1 DEF HopPath, Base
<1>3. IsPath(HopPath(k))
  BY <1>2 DEF IsKey
<1>4. Len(k) = 3 /\ k[2] \in {"next-hop", "interface", "blackhole"} /\ k \in Seq(Text)
  BY <1>1 DEF IsKey
<1>5. k[1] \in Text
  BY <1>4, Nth
<1>6. StaticRoute_At \in Text
  BY TextAssumption DEF Keywords, StaticRoute_At
<1>7. IsPath(RouteBase(k))
  BY <1>5, <1>6, ObjectPath DEF RouteBase
<1> QED BY <1>2, <1>3, <1>4, <1>5, <1>7

\* and that of a static route.
LEMMA StaticRouteGood ==
  ASSUME "static_route" \in DOMAIN Ed, NEW p, NEW k, k = <<>> \/ IsKey("static_route", k),
         NEW to, IsKey("static_route", to), NEW u, IsRow("static_route", u)
  PROVE  IsGood(StaticRoute_Diff(p, k, to, u))
<1> DEFINE moved == k # <<>> /\ k # to
           known == k = to /\ k \in StaticRoute_Keys(p)
           hop == FlatDiff(HopPath(to), StaticHop(to[2]), IF known THEN StaticRoute_Row(p, k) ELSE Blank(StaticRoute_Read), u)
           wipedHere == moved /\ Siblings(p, k) = {} /\ k[1] = to[1]
           liveDesc == IF wipedHere \/ \A h \in StaticRoute_Keys(p) : h[1] # to[1]
                       THEN None ELSE Val(p, RouteBase(to) \o <<"description">>)
           desc == FlatDiff(RouteBase(to), Schema({"description"}, {}, {}), "description" :> liveDesc, u)
<1>1. /\ \A f \in {"distance", "interface", "description"} : u[f] \in Text
      /\ u["disable"] \in BOOLEAN
  <2>1. \A f \in {"distance", "interface", "description", "disable"} : IsField("static_route", f, u[f])
    BY StaticRouteIs, RowHas
  <2> QED BY <2>1, StaticRouteIs
<1>2. IsFlatRow(StaticHop(to[2]), u)
  BY <1>1, StaticHopIs DEF IsFlatRow
<1>3. IsPath(HopPath(to)) /\ IsPath(RouteBase(to))
  BY HopPaths
<1>4. IsGood(hop)
  <2> DEFINE s == StaticHop(to[2])
  <2>1. s.multi = {} /\ IsFlatSchema(s)
    BY StaticHopIs
  <2> HIDE DEF s, known
  <2>2. IsFlatRow(s, u)
    BY <1>2 DEF s
  <2>3. IsGood(FlatDiff(HopPath(to), s, IF known THEN StaticRoute_Row(p, k) ELSE Blank(StaticRoute_Read), u))
    BY <1>3, <2>1, <2>2, FlatGood
  <2> QED BY <2>3 DEF s
<1>5. IsGood(desc)
  <2> DEFINE s == Schema({"description"}, {}, {})
  <2>1. IsFlatSchema(s)
    BY Named, PlainIsSchema
  <2>2. s.multi = {} /\ s.leaf = {"description"} /\ s.flag = {} /\ s.secret = {} /\ DOMAIN s.pick = {}
    BY PlainSchema
  <2>3. IsFlatRow(s, u)
    BY <1>1, <2>2 DEF IsFlatRow
  <2> HIDE DEF s, liveDesc
  <2>4. IsGood(FlatDiff(RouteBase(to), s, "description" :> liveDesc, u))
    BY <1>3, <2>1, <2>2, <2>3, FlatGood
  <2> QED BY <2>4 DEF s
<1>6. IsGood(Adds({HopPath(to)}))
  BY <1>3, GoodAdds
<1>7. moved => IsGood(Deletes({StaticDrop(p, k)}))
  <2>1. moved => StaticDrop(p, k) \in Seq(Text)
    BY HopPaths, TextOf DEF StaticDrop
  <2> QED BY <2>1, GoodDeletes
<1> HIDE DEF hop, desc, moved, known
<1>8. \A c \in {hop, desc, IF known THEN NoCommands ELSE Adds({HopPath(to)}),
                IF moved THEN Deletes({StaticDrop(p, k)}) ELSE NoCommands} : IsGood(c)
  BY <1>4, <1>5, <1>6, <1>7, GoodNothing
<1>9. IsGood(BothOf({hop, desc, IF known THEN NoCommands ELSE Adds({HopPath(to)}),
                     IF moved THEN Deletes({StaticDrop(p, k)}) ELSE NoCommands}))
  BY <1>8, GoodBothOf
<1> QED BY <1>9 DEF StaticRoute_Diff, hop, desc, moved, known

\* The key in a path.
LEMMA Slice ==
  ASSUME NEW V, NEW q \in Seq(V), NEW n \in Nat, n >= 2, n <= Len(q)
  PROVE  /\ SubSeq(q, 2, n) \in Seq(V) /\ Len(SubSeq(q, 2, n)) = n - 1
         /\ \A i \in 1..(n - 1) : SubSeq(q, 2, n)[i] = q[i + 1]
OBVIOUS

\* The key of a DHCP subnet names its server and the subnet.
LEMMA SubnetKeys ==
  ASSUME NEW t, IsConfig(t), NEW j \in Dhcp_Keys(t, <<"subnet">>)
  PROVE  j \in Seq(Text) /\ Len(j) = 3 /\ j[2] = "subnet"
<1>1. PICK q \in t : j = SubSeq(q, 2, 2 * Len(<<"subnet">>) + 2) /\ Len(q) >= 2 * Len(<<"subnet">>) + 2
                     /\ \A i \in 1..Len(<<"subnet">>) : q[2 * i + 1] = <<"subnet">>[i]
  BY DEF Dhcp_Keys
<1>2. Len(<<"subnet">>) = 1 /\ <<"subnet">>[1] = "subnet"
  OBVIOUS
<1>3. j = SubSeq(q, 2, 4) /\ Len(q) >= 4
  BY <1>1, <1>2
<1>4. q \in Seq(Text)
  BY ConfigOver
<1>5. 1 \in 1..Len(<<"subnet">>) /\ 2 * 1 + 1 = 3
  BY <1>2
<1>6. q[3] = "subnet"
  BY <1>1, <1>2, <1>5
<1>7. 4 - 1 = 3 /\ 2 \in 1..(4 - 1) /\ 2 + 1 = 3
  OBVIOUS
<1> QED BY <1>3, <1>4, <1>6, <1>7, Slice

\* Sequence p is j between x and y.
Encloses(p, x, j, y) ==
  /\ p \in Seq(Text) /\ Len(p) = Len(j) + 2 /\ p[1] = x /\ p[Len(j) + 2] = y
  /\ \A i \in 1..Len(j) : p[i + 1] = j[i]
\* Which is what putting the three together gives.
LEMMA Enclosed ==
  ASSUME NEW x, x \in Text, NEW y, y \in Text, NEW j, j \in Seq(Text), NEW p, p = <<x>> \o j \o <<y>>
  PROVE  Encloses(p, x, j, y)
<1> DEFINE w == <<x>> \o j
<1>1. /\ w \in Seq(Text) /\ Len(w) = Len(j) + 1 /\ w[1] = x
      /\ \A i \in 1..Len(j) : w[i + 1] = j[i]
  BY Prepended
<1>2. p = w \o <<y>>
  OBVIOUS
<1> HIDE DEF w
<1>3. /\ w \o <<y>> \in Seq(Text) /\ Len(w \o <<y>>) = Len(w) + 1
      /\ (w \o <<y>>)[Len(w) + 1] = y
      /\ \A i \in 1..Len(w) : (w \o <<y>>)[i] = w[i]
  BY <1>1, Appended
<1>4. p \in Seq(Text) /\ Len(p) = Len(j) + 2 /\ p[Len(j) + 2] = y /\ \A i \in 1..(Len(j) + 1) : p[i] = w[i]
  BY <1>1, <1>2, <1>3
<1>5. p[1] = x /\ \A i \in 1..Len(j) : p[i + 1] = j[i]
  BY <1>1, <1>4
<1> QED BY <1>4, <1>5 DEF Encloses

\* The node of a subnet's id.
LEMMA SubnetIdPath ==
  ASSUME NEW j, j \in Seq(Text), Len(j) = 3
  PROVE  LET p == <<Dhcp_At>> \o j \o <<"subnet-id">>
         IN  /\ p \in Seq(Text) /\ Len(p) = 5 /\ p[1] = Dhcp_At /\ p[5] = "subnet-id"
             /\ \A i \in 1..3 : p[i + 1] = j[i]
<1> DEFINE p == <<Dhcp_At>> \o j \o <<"subnet-id">>
<1>1. Dhcp_At \in Text /\ "subnet-id" \in Text
  BY TextAssumption DEF Keywords, Dhcp_At
<1> DEFINE x == Dhcp_At
           y == "subnet-id"
<1>2. x \in Text /\ y \in Text /\ j \in Seq(Text) /\ p = <<x>> \o j \o <<y>>
  BY <1>1
<1> HIDE DEF x, y, p
<1>3. Encloses(p, x, j, y)
  BY <1>2, Enclosed
<1>4. /\ p \in Seq(Text) /\ Len(p) = 5 /\ p[1] = x /\ p[5] = y
      /\ \A i \in 1..3 : p[i + 1] = j[i]
  BY <1>3 DEF Encloses
<1> QED BY <1>4 DEF x, y, p

\* The value of a leaf that has one is in the configuration.
LEMMA ValIn ==
  ASSUME NEW t, NEW p, Val(t, p) # None
  PROVE  \E q \in t : Len(q) >= Len(p) + 1 /\ SubSeq(q, 1, Len(p) + 1 - 1) = p /\ q[Len(p) + 1] = Val(t, p)
<1>1. Vals(t, p) # {}
  BY DEF Val
<1>2. Val(t, p) \in Vals(t, p)
  BY <1>1 DEF Val
<1> QED BY <1>2 DEF Vals

\* The decimals of the ids: they differ and are words.
LEMMA DecimalIs ==
  /\ DOMAIN Decimal = 1..9 /\ Len(Decimal) = 9 /\ DOMAIN Decimal \ {Len(Decimal)} = 1..8
  /\ \A i, j \in DOMAIN Decimal : Decimal[i] = Decimal[j] => i = j
  /\ \A i \in DOMAIN Decimal : Decimal[i] \in Word
<1>1. DOMAIN Decimal = 1..9 /\ Len(Decimal) = 9
  BY DEF Decimal
<1>2. Decimal[1] = "1" /\ Decimal[2] = "2" /\ Decimal[3] = "3" /\ Decimal[4] = "4" /\ Decimal[5] = "5"
      /\ Decimal[6] = "6" /\ Decimal[7] = "7" /\ Decimal[8] = "8" /\ Decimal[9] = "9"
  BY DEF Decimal
<1>3. \A i \in DOMAIN Decimal : i = 1 \/ i = 2 \/ i = 3 \/ i = 4 \/ i = 5 \/ i = 6 \/ i = 7 \/ i = 8 \/ i = 9
  BY <1>1
<1>4. \A i \in DOMAIN Decimal : Decimal[i] # None
  BY <1>2, <1>3 DEF None
<1>5. \A i \in DOMAIN Decimal : Decimal[i] \in Text
  BY TextAssumption DEF Keywords
<1>6. \A i, j \in DOMAIN Decimal : Decimal[i] = Decimal[j] => i = j
  BY <1>2, <1>3
<1>7. 1..9 \ {9} = 1..8
  OBVIOUS
<1> QED BY <1>1, <1>4, <1>5, <1>6, <1>7 DEF Word

\* The ids in use leave one for the next subnet.
LEMMA IdsKnown ==
  ASSUME NEW e \in {"dhcp_server", "dhcp_subnet"}, NEW t, IsConfig(t), IsKnown(e, t)
  PROVE  SubnetIds(t) \subseteq 1..8
<1> SUFFICES ASSUME NEW j \in Dhcp_Keys(t, <<"subnet">>), Val(t, <<Dhcp_At>> \o j \o <<"subnet-id">>) # None
             PROVE  IdOf(Val(t, <<Dhcp_At>> \o j \o <<"subnet-id">>)) \in 1..8
  BY DEF SubnetIds
<1> DEFINE p == <<Dhcp_At>> \o j \o <<"subnet-id">>
<1>1. p \in Seq(Text) /\ Len(p) = 5 /\ p[1] = Dhcp_At /\ p[5] = "subnet-id"
  BY SubnetKeys, SubnetIdPath
<1> HIDE DEF p
<1>2. PICK q \in t : Len(q) >= Len(p) + 1 /\ SubSeq(q, 1, Len(p) + 1 - 1) = p /\ q[Len(p) + 1] = Val(t, p)
  BY ValIn DEF p
<1>3. q \in Seq(Text) /\ Len(q) >= 6 /\ SubSeq(q, 1, 5) = p
  BY <1>1, <1>2, ConfigOver
<1>4. q[1] = p[1] /\ q[5] = p[5] /\ q[6] = Val(t, p)
  BY <1>1, <1>2, <1>3
<1>5. PICK i \in DOMAIN Decimal \ {Len(Decimal)} : q[6] = Decimal[i]
  BY <1>1, <1>3, <1>4 DEF IsKnown
<1> DEFINE v == Val(t, p)
<1>6. v = Decimal[i]
  BY <1>4, <1>5
<1> HIDE DEF v
<1>7. IdOf(v) \in DOMAIN Decimal /\ Decimal[IdOf(v)] = v
  BY <1>6 DEF IdOf
<1>8. IdOf(v) = i
  BY <1>6, <1>7, DecimalIs
<1> QED BY <1>5, <1>8, DecimalIs DEF v, p

\* A set of ids has a largest one.
LEMMA Largest ==
  ASSUME NEW S \in SUBSET (1..8)
  PROVE  \E n \in S \cup {0} : \A m \in S : m <= n
<1>0. \A m \in S : m = 1 \/ m = 2 \/ m = 3 \/ m = 4 \/ m = 5 \/ m = 6 \/ m = 7 \/ m = 8
  OBVIOUS
<1>1. CASE 8 \in S
  BY <1>1
<1>2. CASE 8 \notin S /\ 7 \in S
  BY <1>0, <1>2
<1>3. CASE 8 \notin S /\ 7 \notin S /\ 6 \in S
  BY <1>0, <1>3
<1>4. CASE 8 \notin S /\ 7 \notin S /\ 6 \notin S /\ 5 \in S
  BY <1>0, <1>4
<1>5. CASE 8 \notin S /\ 7 \notin S /\ 6 \notin S /\ 5 \notin S /\ 4 \in S
  BY <1>0, <1>5
<1>6. CASE 8 \notin S /\ 7 \notin S /\ 6 \notin S /\ 5 \notin S /\ 4 \notin S /\ 3 \in S
  BY <1>0, <1>6
<1>7. CASE 8 \notin S /\ 7 \notin S /\ 6 \notin S /\ 5 \notin S /\ 4 \notin S /\ 3 \notin S /\ 2 \in S
  BY <1>0, <1>7
<1>8. CASE 8 \notin S /\ 7 \notin S /\ 6 \notin S /\ 5 \notin S /\ 4 \notin S /\ 3 \notin S /\ 2 \notin S
  BY <1>0, <1>8
<1> QED BY <1>1, <1>2, <1>3, <1>4, <1>5, <1>6, <1>7, <1>8

\* The next subnet id is the decimal of one more than the largest,
LEMMA NextIdIs ==
  ASSUME NEW t, SubnetIds(t) \subseteq 1..8
  PROVE  \E n \in SubnetIds(t) \cup {0} : /\ \A m \in SubnetIds(t) : m <= n
                                        /\ 1 + n \in DOMAIN Decimal /\ NextSubnetId(t) = Decimal[1 + n]
<1> DEFINE S == SubnetIds(t)
           n == CHOOSE x \in S \cup {0} : \A m \in S : m <= x
<1>1. \E x \in S \cup {0} : \A m \in S : m <= x
  BY Largest
<1>2. n \in S \cup {0} /\ \A m \in S : m <= n
  <2> HIDE DEF S
  <2> QED BY <1>1
<1>3. NextSubnetId(t) = Decimal[1 + n]
  BY DEF NextSubnetId
<1> HIDE DEF n
<1>4. n \in 0..8
  BY <1>2
<1>5. 1 + n \in DOMAIN Decimal
  BY <1>4, DecimalIs
<1> QED BY <1>2, <1>3, <1>5

\* so there is one.
LEMMA NextIdTyped ==
  ASSUME NEW e \in {"dhcp_server", "dhcp_subnet"}, NEW t, IsConfig(t), IsKnown(e, t)
  PROVE  NextSubnetId(t) \in Word
<1>1. SubnetIds(t) \subseteq 1..8
  BY IdsKnown
<1> QED BY <1>1, NextIdIs, DecimalIs

\* A new subnet's batch: its fields and its id.
LEMMA SubnetGood ==
  ASSUME NEW e \in {"dhcp_server", "dhcp_subnet"}, NEW p, IsConfig(p), IsKnown(e, p),
         NEW b, IsPath(b), IsSchema(Subnet_Write), NEW l, LiveOver(Subnet_Write, l, Text), NEW u, IsBody(Subnet_Write, u), NEW isNew
  PROVE  IsGood(Subnet_Diff(p, b, isNew, l, u))
<1>1. IsGood(Diff(b, Subnet_Write, l, u))
  BY DiffGood
<1>2. IsPath(b \o <<"subnet-id", NextSubnetId(p)>>)
  <2> DEFINE n == NextSubnetId(p)
  <2>1. n \in Word
    BY NextIdTyped
  <2> HIDE DEF n
  <2>2. IsPath(b \o <<"subnet-id", n>>)
    BY <2>1, Named, PathBelow, NoneText DEF Word
  <2> QED BY <2>2 DEF n
<1>3. IsGood(Puts({b \o <<"subnet-id", NextSubnetId(p)>>}))
  BY <1>2, GoodPuts
<1>4. IsGood(Both(Diff(b, Subnet_Write, l, u), IF isNew THEN Puts({b \o <<"subnet-id", NextSubnetId(p)>>}) ELSE NoCommands))
  BY <1>1, <1>3, GoodBoth, GoodNothing
<1> QED BY <1>4 DEF Subnet_Diff

\* The schemas of the subnets and ranges.
LEMMA DhcpSchemas ==
  /\ IsSchema(Subnet_Write) /\ IsFlatSchema(Range_Write)
  /\ Subnet_Write.leaf = {"option_default-router", "option_domain-name", "lease"}
  /\ Subnet_Write.multi = {"option_name-server"} /\ Subnet_Write.flag = {} /\ Subnet_Write.secret = {}
  /\ DOMAIN Subnet_Write.pick = {} /\ Subs(Subnet_Write) = {}
  /\ Fields(Subnet_Write) = {"option_default-router", "option_domain-name", "lease", "option_name-server"}
  /\ Range_Write.leaf = {"start", "stop"} /\ Range_Write.multi = {} /\ Range_Write.flag = {} /\ Range_Write.secret = {}
  /\ DOMAIN Range_Write.pick = {}
<1> DEFINE L == {"option_default-router", "option_domain-name", "lease"}
           M == {"option_name-server"}
           R == {"start", "stop"}
<1>1. Subnet_Write = Schema(L, M, {}) /\ Range_Write = Schema(R, {}, {})
  BY DEF Subnet_Write, Subnet_Read, Range_Write, Range_Read
<1>2. /\ Subnet_Write.leaf = L /\ Subnet_Write.multi = M /\ Subnet_Write.flag = {} /\ Subnet_Write.secret = {}
      /\ DOMAIN Subnet_Write.pick = {} /\ Subs(Subnet_Write) = {} /\ Fields(Subnet_Write) = L \cup M \cup {}
  BY <1>1, PlainSchema
<1>3. /\ Range_Write.leaf = R /\ Range_Write.multi = {} /\ Range_Write.flag = {} /\ Range_Write.secret = {}
      /\ DOMAIN Range_Write.pick = {} /\ Fields(Range_Write) = R
  BY <1>1, PlainSchema
<1>4. Fields(Subnet_Write) \cup Fields(Range_Write) \subseteq Word
  <2>1. Fields(Subnet_Write) \cup Fields(Range_Write) \subseteq Text
    BY TextAssumption DEF Keywords, Subnet_Write, Range_Write
  <2>2. None \notin Fields(Subnet_Write) \cup Fields(Range_Write)
    BY <1>2, <1>3 DEF None
  <2> QED BY <2>1, <2>2 DEF Word
<1>5. L \cap M = {} /\ M \cap Blankable = {}
  BY DEF Blankable
<1>6. L \cup M \cup {} \subseteq Word /\ R \cup {} \cup {} \subseteq Word
  BY <1>2, <1>3, <1>4
<1> HIDE DEF L, M, R
<1>7. IsSchema(Subnet_Write) /\ IsFlatSchema(Range_Write)
  BY <1>1, <1>5, <1>6, PlainIsSchema
<1> QED BY <1>2, <1>3, <1>7 DEF L, M, R

\* The first subnet of a new server and its range.
LEMMA ServerIs ==
  ASSUME "dhcp_server" \in DOMAIN Ed
  PROVE  /\ Wider(Ed["dhcp_server"].write, Server_Write) /\ Ed["dhcp_server"].write.secret = First
         /\ Ed["dhcp_server"].read.secret = First
<1>1. Ed["dhcp_server"].write = [Server_Write EXCEPT !.secret = First]
      /\ Ed["dhcp_server"].read = [Server_Write EXCEPT !.secret = First]
  BY EditorIs DEF Server, Editor, Server_Write
<1>2. Server_Write = Schema({"description"}, {}, {"authoritative", "disable"})
  BY DEF Server_Write, Server_Read
<1> QED BY <1>1, <1>2 DEF Wider, Schema

\* What the form of a new server asks of its first subnet is of a subnet's shape.
LEMMA AskedBody ==
  ASSUME NEW u, u["first_gateway"] \in Text, u["first_name-server"] \in Text
  PROVE  IsBody(Subnet_Write, [Blank(Subnet_Write) EXCEPT !["option_default-router"] = u["first_gateway"],
                                                          !["option_name-server"] = {u["first_name-server"]} \ {None}])
<1> DEFINE asked == [Blank(Subnet_Write) EXCEPT !["option_default-router"] = u["first_gateway"],
                                                !["option_name-server"] = {u["first_name-server"]} \ {None}]
<1>1. asked["option_default-router"] = u["first_gateway"] /\ asked["option_name-server"] = {u["first_name-server"]} \ {None}
      /\ \A f \in Fields(Subnet_Write) \ {"option_default-router", "option_name-server"} : asked[f] = Blank(Subnet_Write)[f]
  BY DhcpSchemas DEF Blank
<1> HIDE DEF asked
<1>2. \A f \in Subnet_Write.leaf : Blank(Subnet_Write)[f] = None
  BY DhcpSchemas, SchemaIsOver, BlankFlat
<1>3. \A f \in Subnet_Write.leaf : asked[f] \in Text
  BY <1>1, <1>2, DhcpSchemas, NoneText
<1>4. {u["first_name-server"]} \ {None} \subseteq Word
  BY DEF Word
<1>5. IsBody(Subnet_Write, asked)
  BY <1>1, <1>3, <1>4, DhcpSchemas DEF IsBody, IsFlatRow
<1> QED BY <1>5 DEF asked

\* The batch of a DHCP server is good,
LEMMA ServerGood ==
  ASSUME "dhcp_server" \in DOMAIN Ed, NEW p, IsConfig(p), IsKnown("dhcp_server", p), NEW b, IsPath(b),
         NEW isNew, NEW l, LiveOver(Ed["dhcp_server"].write, l, Text), NEW u, IsBody(Ed["dhcp_server"].write, u)
  PROVE  IsGood(Server_Diff(p, b, isNew, l, u))
<1> DEFINE z == Ed["dhcp_server"].write
           s == b \o <<"subnet", u["first_subnet"]>>
           asked == [Blank(Subnet_Write) EXCEPT !["option_default-router"] = u["first_gateway"],
                                                !["option_name-server"] = {u["first_name-server"]} \ {None}]
           range == [start |-> u["first_start"], stop |-> u["first_stop"]]
           server == Diff(b, Server_Write, l, u)
<1>1. IsSchema(z) /\ Wider(z, Server_Write) /\ z.secret = First
  BY TypeOfEditor, ServerIs
<1>2. IsGood(server)
  BY <1>1, NarrowGood
<1>3. \A f \in First : u[f] \in Text
  BY <1>1 DEF IsBody, IsFlatRow
<1>4. u["first_subnet"] \in Text /\ u["first_gateway"] \in Text /\ u["first_name-server"] \in Text
      /\ u["first_start"] \in Text /\ u["first_stop"] \in Text
  BY <1>3 DEF First
<1> HIDE DEF z, server
<1>5. CASE isNew /\ u["first_subnet"] # None
  <2>1. IsPath(s) /\ IsPath(s \o <<"range", "default">>)
    <3> DEFINE x == u["first_subnet"]
    <3>1. x \in Word
      BY <1>4, <1>5 DEF Word
    <3> HIDE DEF x
    <3>2. IsPath(b \o <<"subnet", x>>)
      BY <3>1, Named, PathBelow, NoneText DEF Word
    <3>3. IsPath(s)
      BY <3>2 DEF x
    <3> HIDE DEF s
    <3>4. IsPath(s \o <<"range", "default">>)
      BY <3>3, Named, PathBelow, NoneText DEF Word
    <3> QED BY <3>3, <3>4
  <2> HIDE DEF s
  <2>2. IsBody(Subnet_Write, asked)
    BY <1>4, AskedBody
  <2>3. LiveOver(Subnet_Write, Blank(Subnet_Write), Text)
    BY DhcpSchemas, BlankOver
  <2> HIDE DEF asked
  <2>4. IsGood(Subnet_Diff(p, s, TRUE, Blank(Subnet_Write), asked))
    BY <2>1, <2>2, <2>3, DhcpSchemas, SubnetGood
  <2>5. IsFlatRow(Range_Write, range)
    BY <1>4, DhcpSchemas DEF IsFlatRow
  <2> HIDE DEF range
  <2>6. IsGood(FlatDiff(s \o <<"range", "default">>, Range_Write, Blank(Range_Write), range))
    BY <2>1, <2>5, DhcpSchemas, FlatGood
  <2>7. \A c \in {server, Subnet_Diff(p, s, TRUE, Blank(Subnet_Write), asked),
                  FlatDiff(s \o <<"range", "default">>, Range_Write, Blank(Range_Write), range)} : IsGood(c)
    BY <1>2, <2>4, <2>6
  <2>8. IsGood(BothOf({server, Subnet_Diff(p, s, TRUE, Blank(Subnet_Write), asked),
                  FlatDiff(s \o <<"range", "default">>, Range_Write, Blank(Range_Write), range)}))
    BY <2>7, GoodBothOf
  <2> QED BY <1>5, <2>8 DEF Server_Diff, server, s, asked, range
<1>6. CASE ~(isNew /\ u["first_subnet"] # None)
  <2>1. IsGood(Created(b, isNew, server))
    BY <1>2, CreatedGood
  <2> QED BY <1>6, <2>1 DEF Server_Diff, server
<1> QED BY <1>5, <1>6

\* A user account's batch: a public key has its type and its body.
LEMMA UserIs ==
  ASSUME "user" \in DOMAIN Ed
  PROVE  /\ Ed["user"].write = User_Write /\ Ed["user"].read = User_Write /\ Ed["user"].at = "system_login_user"
         /\ Ed["user"].keyed /\ DOMAIN User_Write.tags = {"public-keys"} /\ Subs(User_Write) = {"public-keys"}
         /\ User_Write.multi = {}
<1>1. User_Write = [Schema({"full-name"}, {}, {}) EXCEPT
     !.secret = {"authentication_plaintext-password"},
     !.tags = "public-keys" :> Schema({"type", "key"}, {}, {})]
  BY DEF User_Write, User_Read
<1>2. DOMAIN User_Write.tags = {"public-keys"} /\ DOMAIN User_Write.gates = {} /\ User_Write.multi = {}
  BY <1>1 DEF Schema, NoSubs, :>
<1> QED BY <1>2, EditorIs DEF User, Editor, User_Write, Subs

\* that of a user,
LEMMA UserGood ==
  ASSUME "user" \in DOMAIN Ed, NEW b, IsPath(b), NEW isNew,
         NEW l, LiveOver(Ed["user"].write, l, Text), NEW u, IsBody(Ed["user"].write, u), IsRow("user", u),
         \A id \in DOMAIN u["public-keys"] : \A f \in {"type", "key"} : u["public-keys"][id][f] # None
  PROVE  IsGood(User_Diff(b, isNew, l, u))
<1> DEFINE keys == u["public-keys"]
           was == l["public-keys"]
           changed == {id \in DOMAIN keys : id \notin DOMAIN was \/ was[id] # keys[id]}
           at(id) == b \o <<"public-keys", id>>
           D == {at(id) : id \in DOMAIN was \ DOMAIN keys}
           leaf(id, f) == at(id) \o <<f, keys[id][f]>>
           P == {leaf(id, f) : id \in changed, f \in {"type", "key"}}
<1>1. IsFlatSchema(User_Write) /\ IsSchema(User_Write)
  BY TypeOfEditor, UserIs DEF IsSchema
<1>2. IsGood(FlatDiff(b, User_Write, l, u))
  <2>1. \A f \in User_Write.multi : l[f] \subseteq Text
    BY UserIs
  <2>2. IsFlatRow(User_Write, u)
    BY UserIs DEF IsBody
  <2> QED BY <1>1, <2>1, <2>2, FlatGood
<1>3. \A id \in DOMAIN was : id \in Text
  BY UserIs DEF LiveOver, Keyed
<1>4. \A id \in DOMAIN keys : id \in Word /\ \A f \in {"type", "key"} : keys[id][f] \in Text
  <2>1. \A id \in DOMAIN keys : IsTagKey(User_Write, "public-keys", id) /\ IsFlatRow(SubSchema(User_Write, "public-keys"), keys[id])
    BY UserIs DEF IsBody
  <2>2. {"type", "key"} \subseteq SubSchema(User_Write, "public-keys").leaf
    BY DEF SubSchema, User_Write, User_Read, Schema, :>
  <2> QED BY <2>1, <2>2, UserIs DEF IsTagKey, IsFlatRow
<1>5. ASSUME NEW id \in Text PROVE at(id) \in Seq(Text) /\ (id \in Word => IsPath(at(id)))
  BY <1>5, TextOf, Named, NoneText, PathBelow, Below DEF Word
<1>6. ASSUME NEW id \in DOMAIN keys, NEW f \in {"type", "key"} PROVE IsPath(at(id) \o <<f, keys[id][f]>>)
  <2> DEFINE v == keys[id][f]
             w == at(id)
  <2>1. v \in Word /\ f \in Word
    BY <1>4, Named DEF Word
  <2>2. IsPath(w)
    BY <1>4, <1>5, NoneText
  <2> HIDE DEF v, w
  <2>3. IsPath(w \o <<f, v>>)
    BY <2>1, <2>2, PathBelow, NoneText DEF Word
  <2> QED BY <2>3 DEF v, w
<1> HIDE DEF keys, was, at
<1>7. D \in SUBSET Seq(Text)
  BY <1>3, <1>5
<1>8. \A q \in P : IsPath(q)
  <2> HIDE DEF changed
  <2>1. \A q \in P : \E id \in changed : \E f \in {"type", "key"} : q = leaf(id, f)
    <3> HIDE DEF leaf
    <3> QED OBVIOUS
  <2>2. changed \subseteq DOMAIN keys
    BY DEF changed
  <2> HIDE DEF P
  <2> QED BY <1>6, <2>1, <2>2
<1> HIDE DEF D, P
<1>9. IsGood(Deletes(D)) /\ IsGood(Puts(P))
  BY <1>7, <1>8, GoodDeletes, GoodPuts
<1>10. \A c \in {FlatDiff(b, User_Write, l, u), Deletes(D), Puts(P)} : IsGood(c)
  BY <1>2, <1>9
<1>11. IsGood(BothOf({FlatDiff(b, User_Write, l, u), Deletes(D), Puts(P)}))
  BY <1>10, GoodBothOf
<1>12. IsGood(Created(b, isNew, BothOf({FlatDiff(b, User_Write, l, u), Deletes(D), Puts(P)})))
  BY <1>11, CreatedGood
<1> QED BY <1>12 DEF User_Diff, D, P, keys, was, at

\* (what the schema of OpenVPN interfaces has in common with its modes)
LEMMA OpenvpnWriteIs ==
  LET s == Openvpn_Write
  IN  /\ DOMAIN s.gates = {"authentication", "server"} /\ DOMAIN s.tags = {} /\ Subs(s) = DOMAIN s.gates
      /\ s.multi = {"openvpn-option"} /\ s.multi \cap OfSomeMode = {} /\ DOMAIN s.gates \subseteq OfSomeMode
      /\ \A n \in DOMAIN s.gates : SubSchema(s, n) = s.gates[n] /\ DOMAIN s.gates[n].pick = {}
      /\ DOMAIN s.pick = {} /\ DOMAIN s = DOMAIN Schema({}, {}, {})
<1> DEFINE g == "authentication" :> OpenvpnAuth @@ "server" :> OpenvpnServer
           L == {"description", "device-type", "protocol", "local-host", "local-port", "encryption_cipher", "hash",
                 "tls_ca-certificate", "tls_certificate", "tls_dh-params", "tls_role", "local-address", "remote-address",
                 "shared-secret-key", "remote-host", "remote-port"}
           F == {"persistent-tunnel", "disable"}
           s == Openvpn_Write
<1>1. s = [Schema(L, {"openvpn-option"}, F) EXCEPT !.gates = g]
  BY DEF Openvpn_Write, Openvpn_Read
<1>2. DOMAIN g = {"authentication", "server"} /\ g["authentication"] = OpenvpnAuth /\ g["server"] = OpenvpnServer
  BY DEF :>, @@
<1> HIDE DEF g, L, F, s
<1>3. s.gates = g /\ DOMAIN s.tags = {} /\ s.multi = {"openvpn-option"} /\ DOMAIN s.pick = {} /\ DOMAIN s = DOMAIN Schema({}, {}, {})
  BY <1>1 DEF Schema, NoSubs
<1>4. "openvpn-option" \notin OfSomeMode
  BY ModeFieldsAre
<1>5. {"authentication", "server"} \subseteq OfSomeMode
  <2>1. "client" \in OpenvpnModes /\ "server" \in OpenvpnModes
    BY DEF OpenvpnModes
  <2>2. ModeFields["client"] \subseteq OfSomeMode /\ ModeFields["server"] \subseteq OfSomeMode
    BY <2>1, ModeFieldsAre
  <2> QED BY <2>2, ModeFieldsAre
<1>6. DOMAIN OpenvpnAuth.pick = {} /\ DOMAIN OpenvpnServer.pick = {}
  BY PlainSchema DEF OpenvpnAuth, OpenvpnServer
<1>7. \A n \in DOMAIN s.gates : SubSchema(s, n) = s.gates[n] /\ DOMAIN s.gates[n].pick = {}
  BY <1>2, <1>3, <1>6 DEF SubSchema
<1>8. Subs(s) = DOMAIN s.gates
  BY <1>3 DEF Subs
<1> QED BY <1>2, <1>3, <1>4, <1>5, <1>7, <1>8 DEF s

\* The fields of a mode, kept by an interface or blank.
LEMMA OpenvpnSentSchema ==
  ASSUME "openvpn" \in DOMAIN Ed, NEW X, NEW z, z = [Openvpn_Write EXCEPT !.leaf = @ \ X]
  PROVE  IsFlatSchema(z) /\ z.multi = Openvpn_Write.multi /\ z.flag = Openvpn_Write.flag /\ z.secret = Openvpn_Write.secret
         /\ z.pick = Openvpn_Write.pick /\ z.leaf \subseteq Openvpn_Write.leaf
<1> DEFINE s == Openvpn_Write
<1>1. IsSchema(s)
  BY TypeOfEditor, OpenvpnIs DEF Openvpn_Write
<1>2. DOMAIN s = {"leaf", "multi", "flag", "secret", "pick", "quiet", "tags", "gates"}
  BY OpenvpnWriteIs DEF Schema
<1> HIDE DEF s
<1>3. /\ z.multi = s.multi /\ z.flag = s.flag /\ z.secret = s.secret /\ z.pick = s.pick /\ z.quiet = s.quiet
      /\ z.tags = s.tags /\ z.gates = s.gates /\ z.leaf \subseteq s.leaf
  BY <1>2 DEF s
<1>4. IsSchema(z)
  BY <1>1, <1>3, SmallerSchema
<1> QED BY <1>3, <1>4 DEF IsSchema, s

\* and that of an OpenVPN interface.
LEMMA OpenvpnGood ==
  ASSUME "openvpn" \in DOMAIN Ed, NEW b, IsPath(b), NEW isNew,
         NEW l, IF isNew THEN l = Blank(Openvpn_Write) ELSE IsRow("openvpn", l), NEW u, IsRow("openvpn", u)
  PROVE  IsGood(Openvpn_Diff(b, isNew, l, u))
<1> DEFINE s == Openvpn_Write
           switched == ~isNew /\ l["mode"] # u["mode"]
           old == IF isNew \/ switched THEN Blank(s) ELSE l
           sent == [s EXCEPT !.leaf = @ \ (OfSomeMode \ ModeFields[u["mode"]])]
           base == [f \in OfSomeMode |-> old[f]] @@ l
           group(r, n) == IF "" \in DOMAIN r[n] THEN r[n][""] ELSE Blank(s.gates[n])
           purge == IF switched THEN MODE_NODES[l["mode"]] \cup {x \in {"tls_role"} : l["mode"] = "site-to-site" /\ l[x] # None}
                    ELSE {}
           mode == IF isNew \/ switched THEN {b \o <<"mode", u["mode"]>>} ELSE {}
           gates == {FlatDiff(b \o <<n>>, s.gates[n], group(base, n), group(u, n)) : n \in DOMAIN s.gates \cap ModeFields[u["mode"]]}
<1>1. Ed["openvpn"].write = s /\ Ed["openvpn"].read = s /\ IsSchema(s)
  BY TypeOfEditor, OpenvpnIs DEF Openvpn_Write
<1>2. IsBody(s, u)
  BY <1>1, RowIsBody
<1>3. LiveOver(s, Blank(s), Text) /\ LiveOver(s, l, Text) /\ LiveOver(s, old, Text)
  BY <1>1, BlankOver, RowIsBody
<1>4. s.multi \subseteq DOMAIN l
  <2>1. DOMAIN Blank(s) = Fields(s)
    BY DEF Blank
  <2>2. ~isNew => DOMAIN l = RowFields("openvpn")
    BY RowHas
  <2> QED BY <1>1, <2>1, <2>2 DEF RowFields, Fields, Flat
<1> HIDE DEF s
<1>5. /\ \A f \in s.multi : base[f] = l[f]
      /\ \A n \in DOMAIN s.gates : base[n] = old[n]
  BY <1>4, OpenvpnWriteIs DEF @@, s
<1> HIDE DEF old, base
<1>6. IsGood(FlatDiff(b, sent, base, u))
  <2>1. /\ IsFlatSchema(sent) /\ sent.multi = s.multi /\ sent.flag = s.flag /\ sent.secret = s.secret
        /\ sent.pick = s.pick /\ sent.leaf \subseteq s.leaf
    BY OpenvpnSentSchema DEF s
  <2> HIDE DEF sent
  <2>2. \A f \in sent.multi : base[f] \subseteq Text
    BY <1>3, <1>5, <2>1 DEF LiveOver
  <2>3. IsFlatRow(sent, u)
    BY <1>2, <2>1 DEF IsBody, IsFlatRow
  <2> QED BY <2>1, <2>2, <2>3, FlatGood
<1>7. ASSUME NEW n \in DOMAIN s.gates
      PROVE  IsGood(FlatDiff(b \o <<n>>, s.gates[n], group(base, n), group(u, n)))
  <2>1. n \in Subs(s) /\ SubSchema(s, n) = s.gates[n] /\ n \in Word
    BY <1>1, <1>7, OpenvpnWriteIs DEF s, IsSchema
  <2>2. IsPath(b \o <<n>>)
    BY <2>1, PathBelow, NoneText
  <2>3. IsFlatSchema(s.gates[n]) /\ FlatApart(s.gates[n])
    BY <1>1, <2>1 DEF IsSchema, IsFlatSchema
  <2>4. \A f \in s.gates[n].multi : group(base, n)[f] \subseteq Text
    <3>1. CASE "" \in DOMAIN base[n]
      BY <1>3, <1>5, <2>1, <3>1 DEF LiveOver
    <3>2. CASE "" \notin DOMAIN base[n]
      BY <2>3, <3>2, BlankFlat
    <3> QED BY <3>1, <3>2
  <2>5. IsFlatRow(s.gates[n], group(u, n))
    <3>1. CASE "" \in DOMAIN u[n]
      BY <1>2, <2>1, <3>1 DEF IsBody
    <3>2. CASE "" \notin DOMAIN u[n]
      <4> DEFINE g == s.gates[n]
                 r == Blank(g)
      <4>1. FlatApart(g) /\ DOMAIN g.pick = {}
        BY <2>3, OpenvpnWriteIs DEF s
      <4> HIDE DEF g
      <4>2. \A f \in g.leaf \cup g.secret : r[f] = None
        BY <4>1, BlankTyped DEF Flat
      <4>3. \A f \in g.multi : r[f] = {}
        BY <4>1, BlankTyped DEF Flat
      <4>4. \A f \in g.flag : r[f] = FALSE
        BY <4>1, BlankTyped DEF Flat
      <4> HIDE DEF r
      <4>5. IsFlatRow(g, r)
        BY <4>1, <4>2, <4>3, <4>4, NoneText DEF IsFlatRow
      <4> QED BY <3>2, <4>5 DEF g, r
    <3> QED BY <3>1, <3>2
  <2> HIDE DEF group
  <2> QED BY <2>2, <2>3, <2>4, <2>5, FlatGood
<1>8. IsGood(Batch({b \o <<n>> : n \in purge}, mode, {}))
  <2>1. purge \subseteq Text
    <3>1. switched => l["mode"] \in OpenvpnModes
      BY RowIs DEF HasExtras
    <3>2. \A m \in OpenvpnModes : MODE_NODES[m] \subseteq Text
      <4>1. s.leaf \cup DOMAIN s.gates \subseteq Text
        BY <1>1, NoneText DEF IsSchema, IsFlatSchema, Flat, Subs
      <4>2. {"local-address", "remote-address", "shared-secret-key", "remote-host", "remote-port", "authentication", "server"} \subseteq s.leaf \cup DOMAIN s.gates
        BY OpenvpnLeaves DEF s, Openvpn_Write
      <4>3. /\ MODE_NODES["site-to-site"] = {"local-address", "remote-address", "shared-secret-key"}
            /\ MODE_NODES["client"] = {"remote-host", "remote-port", "authentication"}
            /\ MODE_NODES["server"] = {"server"}
        BY DEF MODE_NODES, :>, @@
      <4> QED BY <4>1, <4>2, <4>3 DEF OpenvpnModes
    <3>3. "tls_role" \in Text
      <4>1. "tls_role" \in s.leaf
        BY OpenvpnLeaves DEF s, Openvpn_Write
      <4> QED BY <1>1, <4>1, NoneText DEF IsSchema, IsFlatSchema, Flat
    <3> QED BY <3>1, <3>2, <3>3
  <2>2. {b \o <<n>> : n \in purge} \in SUBSET Seq(Text)
    <3> HIDE DEF purge
    <3>1. \A n \in purge : b \o <<n>> \in Seq(Text)
      BY <2>1, TextOf, Appended
    <3> QED BY <3>1
  <2>3. \A q \in mode : IsPath(q)
    <3> DEFINE m == u["mode"]
    <3>1. m \in OpenvpnModes
      BY RowIs DEF HasExtras
    <3>2. m \in Word
      BY <3>1, Named DEF OpenvpnModes
    <3> HIDE DEF m
    <3>3. IsPath(b \o <<"mode", m>>)
      BY <3>2, Named, PathBelow, NoneText DEF Word
    <3> QED BY <3>3 DEF m
  <2> HIDE DEF purge, mode
  <2> QED BY <2>2, <2>3, GoodBatch
<1>9. \A c \in gates : IsGood(c)
  <2> HIDE DEF group
  <2> QED BY <1>7
<1> HIDE DEF gates, sent, purge, mode
<1> DEFINE S == {FlatDiff(b, sent, base, u), Batch({b \o <<n>> : n \in purge}, mode, {})} \cup gates
<1>10. \A c \in S : IsGood(c)
  BY <1>6, <1>8, <1>9
<1>11. Openvpn_Diff(b, isNew, l, u) = BothOf(S)
  BY DEF Openvpn_Diff, gates, sent, purge, mode, s, old, base
<1> HIDE DEF S
<1> QED BY <1>10, <1>11, GoodBothOf

\* Keys below a section.
LEMMA SeqOfTwo == ASSUME NEW V, NEW s \in Seq(V), Len(s) = 2 PROVE s = <<s[1], s[2]>>
OBVIOUS

\* A sequence of three elements is its elements.
LEMMA SeqOfThree == ASSUME NEW V, NEW s \in Seq(V), Len(s) = 3 PROVE s = <<s[1], s[2], s[3]>>
OBVIOUS

\* Two sequences put together.
LEMMA Joined ==
  ASSUME NEW V, NEW b \in Seq(V), NEW c \in Seq(V)
  PROVE  /\ b \o c \in Seq(V) /\ Len(b \o c) = Len(b) + Len(c)
         /\ \A i \in 1..Len(b) : (b \o c)[i] = b[i]
         /\ \A i \in 1..Len(c) : (b \o c)[Len(b) + i] = c[i]
OBVIOUS

\* A path one element below another, and two.
LEMMA BelowOne == ASSUME NEW V, NEW a \in V, NEW x \in V PROVE <<a>> \o <<x>> = <<a, x>>
<1> DEFINE b == <<a>>
           c == <<x>>
           d == b \o c
<1>1. b \in Seq(V) /\ Len(b) = 1 /\ b[1] = a
  OBVIOUS
<1>4. c \in Seq(V) /\ Len(c) = 1 /\ c[1] = x
  OBVIOUS
<1> HIDE DEF b, c
<1>2. d \in Seq(V) /\ Len(d) = 2 /\ (\A i \in 1..1 : d[i] = b[i]) /\ (\A i \in 1..1 : d[1 + i] = c[i])
  <2>1. /\ b \o c \in Seq(V) /\ Len(b \o c) = Len(b) + Len(c)
        /\ \A i \in 1..Len(b) : (b \o c)[i] = b[i]
        /\ \A i \in 1..Len(c) : (b \o c)[Len(b) + i] = c[i]
    <3>1. b \in Seq(V) /\ c \in Seq(V)
      BY <1>1, <1>4
    <3> QED BY <3>1, Joined
  <2> QED BY <2>1, <1>1, <1>4
<1> HIDE DEF d
<1>3. d[1] = a /\ d[2] = x
  <2>1. d[1] = b[1]
    BY <1>2
  <2>2. d[1 + 1] = c[1]
    BY <1>2
  <2> QED BY <2>1, <2>2, <1>1, <1>4
<1>5. d = <<a, x>>
  BY <1>2, <1>3, SeqOfTwo
<1> QED BY <1>5 DEF b, c, d

\* A path two elements below another.
LEMMA BelowTwo == ASSUME NEW V, NEW a \in V, NEW x \in V, NEW y \in V PROVE <<a>> \o <<x, y>> = <<a, x, y>>
<1> DEFINE b == <<a>>
           c == <<x, y>>
           d == b \o c
<1>1. b \in Seq(V) /\ Len(b) = 1 /\ b[1] = a
  OBVIOUS
<1>4. c \in Seq(V) /\ Len(c) = 2 /\ c[1] = x /\ c[2] = y
  OBVIOUS
<1> HIDE DEF b, c
<1>2. d \in Seq(V) /\ Len(d) = 3 /\ (\A i \in 1..1 : d[i] = b[i]) /\ (\A i \in 1..2 : d[1 + i] = c[i])
  <2>1. /\ b \o c \in Seq(V) /\ Len(b \o c) = Len(b) + Len(c)
        /\ \A i \in 1..Len(b) : (b \o c)[i] = b[i]
        /\ \A i \in 1..Len(c) : (b \o c)[Len(b) + i] = c[i]
    <3>1. b \in Seq(V) /\ c \in Seq(V)
      BY <1>1, <1>4
    <3> QED BY <3>1, Joined
  <2> QED BY <2>1, <1>1, <1>4
<1> HIDE DEF d
<1>3. d[1] = a /\ d[2] = x /\ d[3] = y
  <2>1. d[1] = b[1]
    BY <1>2
  <2>2. d[1 + 1] = c[1] /\ d[1 + 2] = c[2]
    BY <1>2
  <2> QED BY <2>1, <2>2, <1>1, <1>4
<1>5. d = <<a, x, y>>
  BY <1>2, <1>3, SeqOfThree
<1> QED BY <1>5 DEF b, c, d

\* A key of one element is that element.
LEMMA KeyOfOne == ASSUME NEW k \in Seq(Text), Len(k) = 1 PROVE k = <<k[1]>> /\ k[1] \in Text
<1>1. 1 \in 1..Len(k)
  OBVIOUS
<1>2. k[1] \in Text
  BY <1>1, Nth
<1>3. k = <<k[1]>>
  OBVIOUS
<1> QED BY <1>2, <1>3

\* A key of two elements is these.
LEMMA KeyOfTwo == ASSUME NEW k \in Seq(Text), Len(k) = 2 PROVE k = <<k[1], k[2]>> /\ k[1] \in Text /\ k[2] \in Text
<1>1. 1 \in 1..Len(k) /\ 2 \in 1..Len(k)
  OBVIOUS
<1>2. k[1] \in Text /\ k[2] \in Text
  BY <1>1, Nth
<1>3. k = <<k[1], k[2]>>
  OBVIOUS
<1> QED BY <1>2, <1>3

\* The key of a NAT rule, and of an object with a one-element key.
LEMMA NatKeyIs ==
  ASSUME NEW e \in DOMAIN Ed, e \in {"nat_source", "nat_destination"}, NEW k, IsKey(e, k)
  PROVE  /\ k[1] = (IF e = "nat_source" THEN "source" ELSE "destination") /\ k[1] \in {"source", "destination"}
         /\ k[2] \in Word /\ Len(k) = 2 /\ Base(e, k) = NatRule_At(k[1], k[2]) /\ k = <<k[1], k[2]>>
<1>1. Ed[e].at = "nat" /\ Ed[e].keyed
  BY NatIs
<1>2. k \in Seq(Text) /\ Len(k) = 2 /\ k[1] = (IF e = "nat_source" THEN "source" ELSE "destination") /\ IsPath(Base(e, k))
  BY <1>1 DEF IsKey
<1>3. k = <<k[1], k[2]>> /\ k[1] \in Text /\ k[2] \in Text
  BY <1>2, KeyOfTwo
<1>4. Base(e, k) = <<"nat", k[1], k[2]>>
  <2>1. Base(e, k) = <<"nat">> \o k
    BY <1>1 DEF Base
  <2>2. <<"nat">> \o <<k[1], k[2]>> = <<"nat", k[1], k[2]>>
    <3>1. "nat" \in Text
      BY <1>1, TypeOfEditor
    <3> QED BY <3>1, <1>3, BelowTwo
  <2> QED BY <2>1, <2>2, <1>3
<1>5. k[2] # None
  <2> DEFINE y == k[2]
             x == k[1]
             q == <<"nat", x, y>>
  <2>1. Len(q) = 3 /\ q[3] = y /\ q[3 - 1] = x /\ 3 \in 3..3
    OBVIOUS
  <2>2. x \notin Blankable
    BY <1>2 DEF Blankable
  <2>3. IsPath(q)
    BY <1>2, <1>4
  <2> HIDE DEF q, x, y
  <2>4. y # None
    BY <2>1, <2>2, <2>3 DEF IsPath
  <2> QED BY <2>4 DEF y
<1> QED BY <1>2, <1>3, <1>4, <1>5 DEF Word, NatRule_At

\* The key of an object with a name alone.
LEMMA OneKey ==
  ASSUME NEW e, NEW k, k \in Seq(Text), Len(k) = 1, Ed[e].at \in Text
  PROVE  /\ k = <<k[1]>> /\ k[1] \in Text /\ Base(e, k) = <<Ed[e].at, k[1]>>
         /\ Base(e, k)[2] = k[1]
<1>1. k = <<k[1]>> /\ k[1] \in Text
  BY KeyOfOne
<1>2. Base(e, k) = <<Ed[e].at>> \o <<k[1]>>
  BY <1>1 DEF Base
<1>3. <<Ed[e].at>> \o <<k[1]>> = <<Ed[e].at, k[1]>>
  BY <1>1, BelowOne
<1>4. <<Ed[e].at, k[1]>>[2] = k[1]
  OBVIOUS
<1> QED BY <1>1, <1>2, <1>3, <1>4

\* What a user account is saved with.
Complete(e, r) ==
  e = "user" => \A id \in DOMAIN r["public-keys"] : \A f \in {"type", "key"} : r["public-keys"][id][f] # None

\* What the diff of an editor starts from: nothing, or a row.
Old(e, isNew, l) == IF isNew THEN l = Blank(Ed[e].write) ELSE IsRow(e, l)

\* The diff of every editor is a good batch.
LEMMA MadeGood ==
  ASSUME NEW e \in DOMAIN Ed, NEW p, IsConfig(p), IsKnown(e, p), NEW to, IsKey(e, to), NEW k, k = <<>> \/ IsKey(e, k),
         NEW isNew \in BOOLEAN, isNew => Ed[e].keyed, NEW l, Old(e, isNew, l), NEW u, IsRow(e, u), Complete(e, u)
  PROVE  IsGood(Made(e, p, k, to, Base(e, to), Ed[e].write, isNew, l, u))
<1> DEFINE b == Base(e, to)
           s == Ed[e].write
<1>1. IsPath(b)
  BY KeyPath
<1>2. IsSchema(s)
  BY TypeOfEditor
<1>3. LiveOver(s, l, Text)
  BY <1>2, BlankOver, RowIsBody DEF Old
<1>4. IsBody(s, u)
  BY RowIsBody
<1> HIDE DEF b, s
<1>5. IsGood(Diff(b, s, l, u))
  BY <1>1, <1>2, <1>3, <1>4, DiffGood
<1> SUFFICES IsGood(Made(e, p, k, to, b, s, isNew, l, u))
  BY DEF b, s
<1>6. CASE e = "static_route"
  BY <1>6, StaticRouteGood DEF Made
<1>7. CASE e = "ospf_area"
  <2>1. IsGood(OspfArea_Diff(b, l, u))
    BY <1>1, <1>3, <1>4, <1>7, OspfAreaGood DEF s
  <2>2. IsGood(Created(b, isNew, OspfArea_Diff(b, l, u)))
    BY <1>1, <2>1, CreatedGood
  <2> QED BY <1>7, <2>2 DEF Made
<1>8. CASE e \in {"prefix-list", "route-map"}
  <2>1. IsGood(Policy_Diff(b, s, isNew, l, u))
    BY <1>1, <1>5, GoodAdds, GoodNothing, GoodBoth DEF Policy_Diff
  <2> QED BY <1>8, <2>1 DEF Made
<1>9. CASE e = "config_sync"
  <2>1. ~Ed[e].keyed
    BY <1>9, EditorIs DEF ConfigSync, Panel, Editor
  <2>2. IsSection(l["section"]) /\ IsSection(u["section"])
    BY <1>9, <2>1, RowIs DEF Old, HasExtras, IsSection
  <2>3. IsGood(ConfigSync_Diff(b, l, u))
    BY <1>1, <1>3, <1>4, <1>9, <2>2, ConfigSyncGood DEF s
  <2> QED BY <1>9, <2>3 DEF Made
<1>10. CASE e = "vxlan"
  <2>1. to \in Seq(Text) /\ Len(to) = 1 /\ to[1] # None
    BY <1>10, VxlanIs DEF IsKey
  <2>2. b[2] \in Word
    <3>1. Ed[e].at \in Text
      BY TypeOfEditor
    <3>2. Base(e, to)[2] = to[1] /\ to[1] \in Text
      BY <2>1, <3>1, OneKey
    <3> QED BY <2>1, <3>2 DEF b, Word
  <2>3. ~isNew => l["bridge"] \in Text
    BY <1>10, RowIs DEF Old, HasExtras
  <2>4. IsGood(Vxlan_Diff(b, isNew, l, u))
    BY <1>1, <1>3, <1>10, <2>2, <2>3, VxlanGood DEF s
  <2> QED BY <1>10, <2>4 DEF Made
<1>11. CASE e \in {"nat_source", "nat_destination"}
  <2>1. IsFlatRow(NatRule_Read, u)
    BY <1>4, <1>11, NatIs DEF IsBody, s
  <2>2. to[1] \in {"source", "destination"} /\ to[2] \in Word
    BY <1>11, NatKeyIs
  <2>3. (IF k = <<>> THEN None ELSE k[2]) \in Text
    BY <1>11, NatKeyIs, NoneText
  <2>4. IsGood(NatRule_Diff(p, NatRules(p, to[1]) \ SplitStatic(p), to[1], IF k = <<>> THEN None ELSE k[2], to[2], u))
    BY <2>1, <2>2, <2>3, NatGood
  <2> QED BY <1>11, <2>4 DEF Made
<1>12. CASE e = "nat_static"
  <2>1. \A x : IsKey(e, x) => x[1] \in Word
    <3> SUFFICES ASSUME NEW x, IsKey(e, x) PROVE x[1] \in Word
      OBVIOUS
    <3>1. x \in Seq(Text) /\ Len(x) = 1 /\ x[1] # None
      BY <1>12, StaticNatIs DEF IsKey
    <3>2. x[1] \in Text
      BY <3>1, KeyOfOne
    <3> QED BY <3>1, <3>2 DEF Word
  <2>2. (IF k = <<>> THEN None ELSE k[1]) \in Text
    BY <2>1, NoneText
  <2>3. IsGood(StaticNat_Diff(p, IF k = <<>> THEN None ELSE k[1], to[1], u))
    BY <1>12, <2>1, <2>2, StaticNatGood
  <2> QED BY <1>12, <2>3 DEF Made
<1>13. CASE e \in {"alias", "policy", "zone"}
  <2>1. /\ e = "alias" => IsGood(Alias_Diff(b, isNew, l, u))
        /\ e = "policy" => IsGood(PortGroup_Diff(b, l, u))
        /\ e = "zone" => IsGood(Zone_Diff(p, b, isNew, l, u))
    BY <1>1, <1>3, <1>4, <1>13, FirewallGood DEF s
  <2> QED BY <1>13, <2>1 DEF Made
<1>14. CASE e = "dhcp_server"
  BY <1>1, <1>3, <1>4, <1>14, ServerGood DEF Made, s
<1>15. CASE e = "dhcp_subnet"
  <2>1. s = Subnet_Write
    BY <1>15, EditorIs DEF Subnet, Editor, s
  <2>2. IsGood(Subnet_Diff(p, b, isNew, l, u))
    BY <1>1, <1>2, <1>3, <1>4, <1>15, <2>1, SubnetGood
  <2> QED BY <1>15, <2>2 DEF Made
<1>16. CASE e = "general"
  BY <1>1, <1>3, <1>4, <1>16, GeneralGood DEF Made, s
<1>17. CASE e = "user"
  <2>1. IsGood(User_Diff(b, isNew, l, u))
    BY <1>1, <1>3, <1>4, <1>17, UserGood DEF s, Complete
  <2> QED BY <1>17, <2>1 DEF Made
<1>18. CASE e = "openvpn"
  <2>1. s = Openvpn_Write
    BY <1>18, OpenvpnIs DEF s, Openvpn_Write
  <2>2. IF isNew THEN l = Blank(Openvpn_Write) ELSE IsRow("openvpn", l)
    BY <1>18, <2>1 DEF Old, s
  <2>3. IsGood(Openvpn_Diff(b, isNew, l, u))
    BY <1>1, <1>18, <2>2, OpenvpnGood
  <2> QED BY <1>18, <2>3 DEF Made
<1>19. CASE e \notin {"static_route", "ospf_area", "prefix-list", "route-map", "config_sync", "vxlan", "nat_source",
                     "nat_destination", "nat_static", "alias", "policy", "zone", "dhcp_server", "dhcp_subnet", "general",
                     "user", "openvpn"}
  <2>1. IsGood(Created(b, isNew, Diff(b, s, l, u)))
    BY <1>1, <1>5, CreatedGood
  <2> QED BY <1>19, <2>1 DEF Made
<1> QED BY <1>6, <1>7, <1>8, <1>9, <1>10, <1>11, <1>12, <1>13, <1>14, <1>15, <1>16, <1>17, <1>18, <1>19

\* A form lets nothing through that its diff could not send.
LEMMA SubmitComplete ==
  ASSUME NEW e, NEW p, NEW k, NEW to, NEW seed, NEW u, NEW r \in Submit(e, p, k, to, seed, u)
  PROVE  Complete(e, r)
<1>1. CASE e = "user"
  BY <1>1 DEF Submit, User_Form, Complete
<1>2. CASE e # "user"
  BY <1>2 DEF Complete
<1> QED BY <1>1, <1>2

\* The key of a form: of an object of the editor, or none yet.
FormKey(e, k) == (k = <<>> /\ Ed[e].keyed) \/ IsKey(e, k)

\* An object is new only where there can be more than one.
LEMMA NewIsKeyed ==
  ASSUME NEW e \in DOMAIN Ed, NEW k, FormKey(e, k)
  PROVE  k = <<>> => Ed[e].keyed
<1>1. ASSUME IsKey(e, k), ~Ed[e].keyed PROVE k # <<>>
  <2>1. k = <<"">>
    BY <1>1 DEF IsKey
  <2> QED BY <2>1
<1> QED BY <1>1 DEF FormKey

\* What a save sends can be committed.
LEMMA CommandsGood ==
  ASSUME NEW e \in DOMAIN Ed, NEW p, IsConfig(p), IsKnown(e, p), NEW k, FormKey(e, k), NEW to, IsKey(e, to),
         NEW l, IsRow(e, l), NEW u, IsRow(e, u), Complete(e, u)
  PROVE  IsGood(Commands(e, p, k, to, l, u))
<1> DEFINE moved == k \notin {<<>>, to}
           isNew == IF Ed[e].keyed /\ Ed[e].live = "page" THEN moved \/ to \notin KeysOf(e, p) ELSE k = <<>>
           from == IF isNew THEN Blank(Ed[e].write) ELSE l
<1>1. isNew => Ed[e].keyed
  BY NewIsKeyed
<1>2. k = <<>> \/ IsKey(e, k)
  BY DEF FormKey
<1>3. Old(e, isNew, from)
  BY DEF Old
<1>4. isNew \in BOOLEAN
  OBVIOUS
<1>5. MadeFrom(e, p, k, to, isNew, l, u) = Made(e, p, k, to, Base(e, to), Ed[e].write, isNew, from, u)
  BY DEF MadeFrom
<1>6. Commands(e, p, k, to, l, u) =
        Both(Deletes(IF Ed[e].renames /\ moved THEN {Base(e, k)} ELSE {}), MadeFrom(e, p, k, to, isNew, l, u))
  BY DEF Commands
<1> HIDE DEF isNew, from
<1>7. IsGood(MadeFrom(e, p, k, to, isNew, l, u))
  <2>1. IsGood(Made(e, p, k, to, Base(e, to), Ed[e].write, isNew, from, u))
    BY <1>1, <1>2, <1>3, <1>4, MadeGood
  <2> QED BY <1>5, <2>1
<1>8. (IF Ed[e].renames /\ moved THEN {Base(e, k)} ELSE {}) \in SUBSET Seq(Text)
  <2>1. moved => Base(e, k) \in Seq(Text)
    BY <1>2, KeyPath
  <2> QED BY <2>1
<1> HIDE DEF moved
<1>9. IsGood(Deletes(IF Ed[e].renames /\ moved THEN {Base(e, k)} ELSE {}))
  BY <1>8, GoodDeletes
<1> QED BY <1>6, <1>7, <1>9, GoodBoth

\* What a delete sends deletes nodes and does nothing else.
LEMMA DeletesGood ==
  ASSUME NEW e \in DOMAIN Ed, NEW p, NEW k, IsKey(e, k)
  PROVE  \E D \in SUBSET Seq(Text) : DeleteCommands(e, p, k) = Deletes(D)
<1>1. IsPath(Base(e, k)) /\ Base(e, k) \in Seq(Text)
  BY KeyPath
<1>2. CASE e = "static_route"
  <2>1. Ed[e].at = StaticRoute_At /\ k \in Seq(Text) /\ Len(k) = 3
    BY <1>2, EditorIs DEF IsKey, StaticRoute, Editor
  <2>2. HopPath(k) = Base(e, k)
    BY <2>1 DEF HopPath, Base
  <2>3. 1 \in 1..Len(k)
    BY <2>1
  <2>4. k[1] \in Text /\ StaticRoute_At \in Text
    BY <2>1, <2>3, Nth, TypeOfEditor
  <2>5. RouteBase(k) \in Seq(Text)
    BY <2>4, ObjectPath DEF RouteBase
  <2>6. StaticDrop(p, k) \in Seq(Text)
    BY <1>1, <2>2, <2>5 DEF StaticDrop
  <2>7. DeleteCommands(e, p, k) = Deletes({StaticDrop(p, k)})
    BY <1>2 DEF DeleteCommands
  <2> QED BY <2>6, <2>7
<1>3. CASE e = "nat_static"
  <2>1. k \in Seq(Text) /\ Len(k) = 1
    BY <1>3, StaticNatIs DEF IsKey
  <2>2. k[1] \in Text
    BY <2>1, KeyOfOne
  <2>3. NatRule_At("source", k[1]) \in Seq(Text) /\ NatRule_At("destination", k[1]) \in Seq(Text)
    BY <2>2, RulePath
  <2>4. DeleteCommands(e, p, k) = Deletes({NatRule_At("source", k[1]), NatRule_At("destination", k[1])})
    BY <1>3 DEF DeleteCommands
  <2> QED BY <2>3, <2>4
<1>4. CASE e \notin {"static_route", "nat_static"}
  <2>1. DeleteCommands(e, p, k) = Deletes({Base(e, k)})
    BY <1>4 DEF DeleteCommands
  <2> QED BY <1>1, <2>1
<1> QED BY <1>2, <1>3, <1>4

\* The key of a node of a configuration: the path after the section.
LEMMA KeyOfNode ==
  ASSUME NEW t, IsConfig(t), NEW q \in t, NEW n \in Nat, n >= 2, n <= Len(q)
  PROVE  LET k == SubSeq(q, 2, n)
         IN  /\ k \in Seq(Text) /\ Len(k) = n - 1 /\ \A i \in 1..(n - 1) : k[i] = q[i + 1]
             /\ <<q[1]>> \o k = SubSeq(q, 1, n) /\ <<q[1]>> \o k \in t /\ IsPath(<<q[1]>> \o k)
<1> DEFINE k == SubSeq(q, 2, n)
           p == SubSeq(q, 1, n)
<1>1. IsPath(q) /\ q \in Seq(Text) /\ q[1] \in Text
  <2>1. IsPath(q) /\ q \in Seq(Text)
    BY DEF IsConfig, IsPath
  <2>2. 1 \in 1..Len(q)
    BY <2>1
  <2> QED BY <2>1, <2>2, Nth
<1>2. k \in Seq(Text) /\ Len(k) = n - 1 /\ \A i \in 1..(n - 1) : k[i] = q[i + 1]
  BY <1>1, Slice
<1>3. p \in Seq(Text) /\ Len(p) = n /\ \A i \in 1..n : p[i] = q[i]
  BY <1>1
<1>4. p \in t
  <2>1. n \in 2..Len(q)
    OBVIOUS
  <2>2. p \in Nodes(q)
    BY <2>1 DEF Nodes
  <2>3. Nodes(q) \subseteq t
    BY DEF IsConfig, Rooted
  <2> QED BY <2>2, <2>3
<1>5. IsPath(p)
  BY <1>4 DEF IsConfig
<1> HIDE DEF k, p
<1> DEFINE j == <<q[1]>> \o k
<1>6. j \in Seq(Text) /\ Len(j) = n /\ j[1] = q[1] /\ \A i \in 1..(n - 1) : j[i + 1] = q[i + 1]
  <2>1. /\ j \in Seq(Text) /\ Len(j) = Len(k) + 1 /\ j[1] = q[1]
        /\ \A i \in 1..Len(k) : j[i + 1] = k[i]
    BY <1>1, <1>2, Prepended
  <2> QED BY <2>1, <1>2
<1> HIDE DEF j
<1>7. j = p
  <2>1. \A i \in 1..n : j[i] = p[i]
    <3> SUFFICES ASSUME NEW i \in 1..n PROVE j[i] = p[i]
      OBVIOUS
    <3>1. CASE i = 1
      BY <3>1, <1>3, <1>6
    <3>2. CASE i # 1
      <4>1. i - 1 \in 1..(n - 1) /\ (i - 1) + 1 = i
        BY <3>2
      <4> QED BY <4>1, <1>3, <1>6
    <3> QED BY <3>1, <3>2
  <2> QED BY <2>1, <1>3, <1>6
<1> QED BY <1>2, <1>4, <1>5, <1>7 DEF j, k, p

\* A path has a name where its section has objects.
LEMMA NamedAt ==
  ASSUME NEW q, IsPath(q), NEW i \in 3..Len(q), q[i - 1] \notin Blankable
  PROVE  q[i] \in Word
<1>1. q \in Seq(Text) /\ i \in 1..Len(q) /\ q[i] # None
  BY DEF IsPath
<1> QED BY <1>1, Nth DEF Word

\* Where the editors keep their objects, for the ones with keys of their own.
LEMMA KeyedEditors ==
  ASSUME NEW e \in DOMAIN Ed
  PROVE  /\ e = "static_route" => Ed[e].at = StaticRoute_At /\ Ed[e].keyed
         /\ e = "vlan" => Ed[e].at = "interfaces_ethernet" /\ Ed[e].keyed
         /\ e \in {"nat_source", "nat_destination", "nat_static"} => Ed[e].at = "nat" /\ Ed[e].keyed
         /\ e \in {"alias", "policy"} => Ed[e].at = "firewall_group" /\ Ed[e].keyed
         /\ e = "dhcp_relay" => Ed[e].at = "service_dhcp-relay" /\ Ed[e].keyed
         /\ e \in {"dhcp_server", "dhcp_subnet", "dhcp_range", "dhcp_mapping"} => Ed[e].at = Dhcp_At /\ Ed[e].keyed
<1>1. e = "static_route" => Ed[e].at = StaticRoute_At /\ Ed[e].keyed
  BY EditorIs DEF StaticRoute, Editor
<1>2. e = "vlan" => Ed[e].at = "interfaces_ethernet" /\ Ed[e].keyed
  BY EditorIs DEF Vlan, Editor
<1>3. e \in {"nat_source", "nat_destination", "nat_static"} => Ed[e].at = "nat" /\ Ed[e].keyed
  BY EditorIs DEF NatRule, StaticNat, Editor
<1>4. e \in {"alias", "policy"} => Ed[e].at = "firewall_group" /\ Ed[e].keyed
  <2>1. e = "alias" => Ed[e].at = "firewall_group" /\ Ed[e].keyed
    BY EditorIs DEF Alias, Editor
  <2>2. e = "policy" => Ed[e].at = "firewall_group" /\ Ed[e].keyed
    BY EditorIs DEF Policy, Editor
  <2> QED BY <2>1, <2>2
<1>5. e = "dhcp_relay" => Ed[e].at = "service_dhcp-relay" /\ Ed[e].keyed
  BY EditorIs DEF Relay, Editor
<1>6. e \in {"dhcp_server", "dhcp_subnet", "dhcp_range", "dhcp_mapping"} => Ed[e].at = Dhcp_At /\ Ed[e].keyed
  <2>1. e = "dhcp_server" => Ed[e].at = Dhcp_At /\ Ed[e].keyed
    BY EditorIs DEF Server, Editor
  <2>2. e = "dhcp_subnet" => Ed[e].at = Dhcp_At /\ Ed[e].keyed
    BY EditorIs DEF Subnet, Editor
  <2>3. e = "dhcp_range" => Ed[e].at = Dhcp_At /\ Ed[e].keyed
    BY EditorIs DEF DhcpRange, Editor
  <2>4. e = "dhcp_mapping" => Ed[e].at = Dhcp_At /\ Ed[e].keyed
    BY EditorIs DEF Mapping, Editor
  <2> QED BY <2>1, <2>2, <2>3, <2>4
<1> QED BY <1>1, <1>2, <1>3, <1>4, <1>5, <1>6

\* The rows of a page are named by keys of its editor.
LEMMA KeysTyped ==
  ASSUME NEW e \in DOMAIN Ed, Ed[e].keyed, NEW t, IsConfig(t), IsKnown(e, t), NEW k \in KeysOf(e, t)
  PROVE  IsKey(e, k) /\ (e # "nat_static" => Base(e, k) \in t)
<1> DEFINE Slices(q, n) == k = SubSeq(q, 2, n) /\ n >= 2 /\ n <= Len(q) /\ q[1] = Ed[e].at
<1>0. ASSUME NEW q \in t, NEW n \in Nat, Slices(q, n)
      PROVE  /\ k \in Seq(Text) /\ IsPath(Base(e, k)) /\ Len(k) = n - 1
             /\ k[1] = q[2] /\ (n >= 4 => k[2] = q[3]) /\ (n >= 6 => k[4] = q[5])
             /\ Base(e, k) \in t
  <2>1. LET j == SubSeq(q, 2, n)
        IN  /\ j \in Seq(Text) /\ Len(j) = n - 1 /\ \A i \in 1..(n - 1) : j[i] = q[i + 1]
            /\ <<q[1]>> \o j = SubSeq(q, 1, n) /\ <<q[1]>> \o j \in t /\ IsPath(<<q[1]>> \o j)
    BY <1>0, KeyOfNode
  <2>2. k = SubSeq(q, 2, n) /\ q[1] = Ed[e].at
    BY <1>0
  <2>3. \A i \in 1..(n - 1) : k[i] = q[i + 1]
    BY <2>1, <2>2
  <2>4. n >= 2 /\ 1 \in 1..(n - 1) /\ 1 + 1 = 2 /\ (n >= 4 => 2 \in 1..(n - 1)) /\ 2 + 1 = 3 /\ (n >= 6 => 4 \in 1..(n - 1))
        /\ 4 + 1 = 5
    BY <1>0
  <2>5. k[1] = q[2] /\ (n >= 4 => k[2] = q[3]) /\ (n >= 6 => k[4] = q[5])
    BY <2>3, <2>4
  <2> QED BY <2>1, <2>2, <2>5 DEF Base
<1> HIDE DEF Slices
<1>1. CASE e = "static_route"
  <2>1. PICK q \in t : k = SubSeq(q, 2, 4) /\ Len(q) = 4 /\ q[1] = StaticRoute_At
                       /\ q[3] \in {"next-hop", "interface", "blackhole"}
    BY <1>1 DEF KeysOf, StaticRoute_Keys
  <2>2. Slices(q, 4)
    BY <1>1, <2>1, KeyedEditors DEF Slices
  <2>3. k[2] = q[3] /\ Len(k) = 3
    <3>1. 4 \in Nat
      OBVIOUS
    <3>2. Len(k) = 4 - 1 /\ k[1] = q[2] /\ (4 >= 4 => k[2] = q[3]) /\ (4 >= 6 => k[4] = q[5])
      BY <3>1, <1>0, <2>2
    <3> QED BY <3>2
  <2> QED BY <1>0, <1>1, <2>1, <2>2, <2>3 DEF IsKey
<1>2. CASE e = "vlan"
  <2>1. PICK q \in t : k = SubSeq(q, 2, 4) /\ Len(q) = 4 /\ q[1] = "interfaces_ethernet" /\ q[3] = "vif"
    BY <1>2 DEF KeysOf, Vlan_Keys
  <2>2. Slices(q, 4)
    BY <1>2, <2>1, KeyedEditors DEF Slices
  <2>3. k[2] = q[3] /\ Len(k) = 3
    <3>1. 4 \in Nat
      OBVIOUS
    <3>2. Len(k) = 4 - 1 /\ k[1] = q[2] /\ (4 >= 4 => k[2] = q[3]) /\ (4 >= 6 => k[4] = q[5])
      BY <3>1, <1>0, <2>2
    <3> QED BY <3>2
  <2> QED BY <1>0, <1>2, <2>1, <2>2, <2>3 DEF IsKey
<1>3. CASE e \in {"nat_source", "nat_destination"}
  <2> DEFINE sec == IF e = "nat_source" THEN "source" ELSE "destination"
  <2>1. PICK n \in NatRules(t, sec) : k = <<sec, n>>
    BY <1>3 DEF KeysOf, NatRule_Keys
  <2>2. PICK q \in t : n = q[3] /\ Len(q) >= 3 /\ q[1] = "nat" /\ q[2] = sec
    BY DEF NatRules
  <2>3. q \in Seq(Text)
    BY DEF IsConfig, IsPath
  <2>4. SubSeq(q, 2, 3) = <<q[2], q[3]>>
    <3> DEFINE j == SubSeq(q, 2, 3)
    <3>1. j \in Seq(Text) /\ Len(j) = 2 /\ \A i \in 1..2 : j[i] = q[i + 1]
      BY <2>2, <2>3, Slice
    <3> HIDE DEF j
    <3>2. j = <<j[1], j[2]>> /\ j[1] = q[2] /\ j[2] = q[3]
      BY <3>1, SeqOfTwo
    <3> QED BY <3>2 DEF j
  <2>5. Slices(q, 3)
    BY <1>3, <2>1, <2>2, <2>3, <2>4, NatIs DEF Slices
  <2>6. k[1] = q[2] /\ Len(k) = 2
    <3>1. 3 \in Nat
      OBVIOUS
    <3>2. Len(k) = 3 - 1 /\ k[1] = q[2] /\ (3 >= 4 => k[2] = q[3]) /\ (3 >= 6 => k[4] = q[5])
      BY <3>1, <1>0, <2>5
    <3> QED BY <3>2
  <2> QED BY <1>0, <1>3, <2>2, <2>5, <2>6 DEF IsKey
<1>4. CASE e = "nat_static"
  <2>1. PICK n \in SplitStatic(t) : k = <<n>>
    BY <1>4 DEF KeysOf, StaticNat_Keys
  <2>2. n \in NatRules(t, "source")
    BY DEF SplitStatic
  <2>3. PICK q \in t : n = q[3] /\ Len(q) >= 3 /\ q[1] = "nat" /\ q[2] = "source"
    BY <2>2 DEF NatRules
  <2>4. IsPath(q) /\ Len(q) \in Nat
    BY DEF IsConfig, IsPath
  <2>5. 3 \in 3..Len(q) /\ 3 - 1 = 2
    BY <2>3, <2>4
  <2>6. q[3 - 1] \notin Blankable
    BY <2>3, <2>5 DEF Blankable
  <2>7. n \in Word
    BY <2>3, <2>4, <2>5, <2>6, NamedAt
  <2>8. Ed[e].at \in Text /\ n \in Text
    BY <2>7, TypeOfEditor DEF Word
  <2>9. k \in Seq(Text) /\ Len(k) = 1 /\ k[1] = n
    BY <2>1, <2>8
  <2>10. Base(e, k) = <<Ed[e].at, n>>
    BY <2>1, <2>8, BelowOne DEF Base
  <2>11. IsPath(Base(e, k))
    BY <2>8, <2>10, ObjectPath
  <2> QED BY <1>4, <2>7, <2>9, <2>11 DEF IsKey, Word
<1>5. CASE e \in {"alias", "policy"}
  <2>1. k \in GroupKeys(t) /\ (e = "alias" => k[1] # "port-group") /\ (e = "policy" => k[1] = "port-group")
    BY <1>5 DEF KeysOf, Alias_Keys, Policy_Keys
  <2>2. PICK q \in t : k = SubSeq(q, 2, 3) /\ Len(q) >= 3 /\ q[1] = "firewall_group"
    BY <2>1 DEF GroupKeys
  <2>3. q \in Seq(Text)
    BY DEF IsConfig, IsPath
  <2>5. Slices(q, 3)
    BY <1>5, <2>2, <2>3, KeyedEditors DEF Slices
  <2>6. Len(k) = 2
    <3>1. 3 \in Nat
      OBVIOUS
    <3>2. Len(k) = 3 - 1 /\ k[1] = q[2] /\ (3 >= 4 => k[2] = q[3]) /\ (3 >= 6 => k[4] = q[5])
      BY <3>1, <1>0, <2>5
    <3> QED BY <3>2
  <2> QED BY <1>0, <1>5, <2>1, <2>5, <2>6 DEF IsKey
<1>6. CASE e = "dhcp_relay"
  <2>1. PICK q \in t : k = SubSeq(q, 2, 3) /\ Len(q) = 3 /\ q[1] = "service_dhcp-relay"
    BY <1>6 DEF KeysOf, Relay_Keys
  <2>2. Slices(q, 3)
    BY <1>6, <2>1, KeyedEditors DEF Slices
  <2>3. Len(k) = 2
    <3>1. 3 \in Nat
      OBVIOUS
    <3>2. Len(k) = 3 - 1 /\ k[1] = q[2] /\ (3 >= 4 => k[2] = q[3]) /\ (3 >= 6 => k[4] = q[5])
      BY <3>1, <1>0, <2>2
    <3> QED BY <3>2
  <2> QED BY <1>0, <1>6, <2>2, <2>3 DEF IsKey
<1>7. CASE e = "dhcp_subnet"
  <2>1. k \in Dhcp_Keys(t, <<"subnet">>)
    BY <1>7 DEF KeysOf
  <2>2. PICK q \in t : k = SubSeq(q, 2, 4) /\ Len(q) >= 4 /\ q[1] = Dhcp_At /\ q[3] = "subnet"
    BY <2>1 DEF Dhcp_Keys
  <2>3. q \in Seq(Text)
    BY DEF IsConfig, IsPath
  <2>4. Slices(q, 4)
    BY <1>7, <2>2, <2>3, KeyedEditors DEF Slices
  <2>5. k[2] = q[3] /\ Len(k) = 3
    <3>1. 4 \in Nat
      OBVIOUS
    <3>2. Len(k) = 4 - 1 /\ k[1] = q[2] /\ (4 >= 4 => k[2] = q[3]) /\ (4 >= 6 => k[4] = q[5])
      BY <3>1, <1>0, <2>4
    <3> QED BY <3>2
  <2> QED BY <1>0, <1>7, <2>2, <2>4, <2>5 DEF IsKey
<1>8. CASE e \in {"dhcp_range", "dhcp_mapping"}
  <2> DEFINE kind == IF e = "dhcp_range" THEN "range" ELSE "static-mapping"
  <2>1. k \in Dhcp_Keys(t, <<"subnet", kind>>)
    BY <1>8 DEF KeysOf
  <2>2. PICK q \in t : k = SubSeq(q, 2, 6) /\ Len(q) >= 6 /\ q[1] = Dhcp_At /\ q[3] = "subnet" /\ q[5] = kind
    BY <2>1 DEF Dhcp_Keys
  <2>3. q \in Seq(Text)
    BY DEF IsConfig, IsPath
  <2>4. Slices(q, 6)
    BY <1>8, <2>2, <2>3, KeyedEditors DEF Slices
  <2>5. k[2] = q[3] /\ k[4] = q[5] /\ Len(k) = 5
    <3>1. 6 \in Nat
      OBVIOUS
    <3>2. Len(k) = 6 - 1 /\ k[1] = q[2] /\ (6 >= 4 => k[2] = q[3]) /\ (6 >= 6 => k[4] = q[5])
      BY <3>1, <1>0, <2>4
    <3> QED BY <3>2
  <2> QED BY <1>0, <1>8, <2>2, <2>4, <2>5 DEF IsKey
<1>9. CASE e \notin {"static_route", "vlan", "nat_source", "nat_destination", "nat_static", "alias", "policy",
                    "dhcp_relay", "dhcp_subnet", "dhcp_range", "dhcp_mapping"}
  <2>1. PICK q \in t : k = <<q[2]>> /\ q[1] = Ed[e].at
    BY <1>9 DEF KeysOf
  <2>2. q \in Seq(Text) /\ Len(q) >= 2
    BY DEF IsConfig, IsPath
  <2>3. SubSeq(q, 2, 2) = <<q[2]>>
    <3> DEFINE j == SubSeq(q, 2, 2)
    <3>1. j \in Seq(Text) /\ Len(j) = 1 /\ j[1] = q[1 + 1]
      BY <2>2, Slice
    <3> HIDE DEF j
    <3>2. j = <<j[1]>>
      BY <3>1
    <3> QED BY <3>1, <3>2 DEF j
  <2>4. Slices(q, 2)
    BY <2>1, <2>2, <2>3 DEF Slices
  <2>5. k[1] = q[2] /\ Len(k) = 1
    <3>1. 2 \in Nat
      OBVIOUS
    <3>2. Len(k) = 2 - 1 /\ k[1] = q[2] /\ (2 >= 4 => k[2] = q[3]) /\ (2 >= 6 => k[4] = q[5])
      BY <3>1, <1>0, <2>4
    <3> QED BY <3>2
  <2>6. e = "vxlan" => k[1] # None
    BY <2>1, <2>5, VxlanIs DEF IsKnown
  <2> QED BY <1>0, <1>9, <2>4, <2>5, <2>6 DEF IsKey
<1> QED BY <1>1, <1>2, <1>3, <1>4, <1>5, <1>6, <1>7, <1>8, <1>9

\* So are the objects that a form can be saved as.
LEMMA TargetsTyped ==
  ASSUME NEW e \in DOMAIN Ed, NEW k, FormKey(e, k), NEW to \in Targets(e, k)
  PROVE  IsKey(e, to)
<1>1. Ed[e].keyed => \A x \in Targets(e, <<>>) : IsKey(e, x)
  BY InputsAssumption
<1>2. CASE e \in {"static_route", "vlan", "nat_source", "nat_destination", "nat_static", "alias", "policy",
                  "dhcp_relay", "dhcp_subnet", "dhcp_range", "dhcp_mapping"}
  <2>1. Ed[e].keyed
    BY <1>2, KeyedEditors
  <2>2. to \in Targets(e, <<>>) \/ (to = k /\ k # <<>>)
    BY <1>2 DEF Targets
  <2> QED BY <1>1, <2>1, <2>2 DEF FormKey
<1>3. CASE e \notin {"static_route", "vlan", "nat_source", "nat_destination", "nat_static", "alias", "policy",
                    "dhcp_relay", "dhcp_subnet", "dhcp_range", "dhcp_mapping"}
  <2> DEFINE some == {<<"c">>, <<"b">>}
  <2>1. to \in IF k = <<>> \/ Ed[e].renames THEN some \cup ({k} \ {<<>>}) ELSE {k}
    BY <1>3 DEF Targets
  <2>2. some \subseteq Targets(e, <<>>)
    BY <1>3 DEF Targets
  <2> HIDE DEF some
  <2>3. k = <<>> \/ Ed[e].renames => Ed[e].keyed
    BY NewIsKeyed, SchemasAssumption
  <2>4. to \in some \/ (to = k /\ k # <<>>)
    BY <2>1
  <2>5. to \in some => Ed[e].keyed \/ to = k
    BY <2>1, <2>3
  <2> QED BY <1>1, <2>1, <2>2, <2>3, <2>4, <2>5 DEF FormKey
<1> QED BY <1>2, <1>3

\* The nodes that a batch sets are all that is new after it.
LEMMA CommitNew ==
  ASSUME NEW t, NEW c, NEW q \in Commit(t, c)
  PROVE  q \in t \/ \E p \in c.put \cup c.add : q \in Nodes(p)
BY DEF Commit

\* What a batch sets is known to an editor.
NewKnown(e, p) ==
  /\ e = "vxlan" /\ p[1] = "interfaces_vxlan" => p[2] # None
  /\ e = "openvpn" /\ Len(p) >= 4 /\ p[3] = "mode" => p[4] \in OpenvpnModes
  /\ e \in {"dhcp_server", "dhcp_subnet"} => ~(Len(p) >= 6 /\ p[5] = "subnet-id")

\* A batch that keeps to what the editor relies on leaves a configuration it knows.
LEMMA KnownCommit ==
  ASSUME NEW e, NEW t, IsConfig(t), IsKnown(e, t), NEW c, IsGood(c), \A p \in c.put \cup c.add : NewKnown(e, p)
  PROVE  IsKnown(e, Commit(t, c))
<1>1. ASSUME NEW q \in Commit(t, c), q \notin t
      PROVE  /\ e = "vxlan" /\ q[1] = "interfaces_vxlan" => q[2] # None
             /\ e = "openvpn" /\ Len(q) >= 4 /\ q[3] = "mode" => q[4] \in OpenvpnModes
             /\ e \in {"dhcp_server", "dhcp_subnet"} => ~(Len(q) >= 6 /\ q[5] = "subnet-id")
  <2>1. PICK p \in c.put \cup c.add : q \in Nodes(p)
    BY <1>1, CommitNew
  <2>2. p \in Seq(Text)
    BY DEF IsGood, IsPath
  <2>3. q \in Seq(Text) /\ Len(q) >= 2 /\ Under(q, p)
    BY <2>1, <2>2, NodesAbove
  <2>4. Len(q) <= Len(p) /\ \A i \in 1..Len(q) : q[i] = p[i]
    BY <2>2, <2>3, UnderPrefix
  <2>5. q[1] = p[1] /\ q[2] = p[2] /\ (Len(q) >= 4 => q[3] = p[3] /\ q[4] = p[4]) /\ (Len(q) >= 6 => q[5] = p[5])
    <3>1. Len(q) \in Nat /\ 1 \in 1..Len(q) /\ 2 \in 1..Len(q) /\ (Len(q) >= 4 => 3 \in 1..Len(q) /\ 4 \in 1..Len(q))
          /\ (Len(q) >= 6 => 5 \in 1..Len(q))
      BY <2>3
    <3> QED BY <3>1, <2>4
  <2>6. (Len(q) >= 4 => Len(p) >= 4) /\ (Len(q) >= 6 => Len(p) >= 6)
    BY <2>2, <2>3, <2>4
  <2>7. NewKnown(e, p)
    OBVIOUS
  <2> QED BY <2>5, <2>6, <2>7 DEF NewKnown
<1>2. e = "vxlan" => \A q \in Commit(t, c) : q[1] = "interfaces_vxlan" => q[2] # None
  BY <1>1 DEF IsKnown
<1>3. e = "openvpn" => \A q \in Commit(t, c) : Len(q) >= 4 /\ q[1] = "interfaces_openvpn" /\ q[3] = "mode" => q[4] \in OpenvpnModes
  BY <1>1 DEF IsKnown
<1>4. e \in {"dhcp_server", "dhcp_subnet"} =>
        \A q \in Commit(t, c) : Len(q) >= 6 /\ q[1] = Dhcp_At /\ q[5] = "subnet-id"
                                => \E i \in DOMAIN Decimal \ {Len(Decimal)} : q[6] = Decimal[i]
  BY <1>1 DEF IsKnown
<1> QED BY <1>2, <1>3, <1>4 DEF IsKnown

\* A node is above the ones below it.
LEMMA OneBelow ==
  ASSUME NEW b, b \in Seq(Text), NEW f, f \in Text
  PROVE  b \o <<f>> \in Seq(Text) /\ Len(b \o <<f>>) = Len(b) + 1 /\ Under(b, b \o <<f>>)
BY Below

\* So it is two elements further.
LEMMA TwoBelow ==
  ASSUME NEW b, b \in Seq(Text), NEW f, f \in Text, NEW v, v \in Text
  PROVE  b \o <<f, v>> \in Seq(Text) /\ Len(b \o <<f, v>>) = Len(b) + 2 /\ Under(b, b \o <<f, v>>)
<1>1. /\ b \o <<f>> \in Seq(Text) /\ Len(b \o <<f>>) = Len(b) + 1
      /\ b \o <<f, v>> \in Seq(Text) /\ Len(b \o <<f, v>>) = Len(b) + 2
      /\ Under(b, b \o <<f>>) /\ Under(b, b \o <<f, v>>) /\ Under(b \o <<f>>, b \o <<f, v>>)
      /\ ~Under(b \o <<f>>, b) /\ ~Under(b \o <<f, v>>, b) /\ ~Under(b \o <<f, v>>, b \o <<f>>)
  BY Below
<1> QED BY <1>1

\* What a flat diff sets is a field of its schema.
LEMMA FlatNames ==
  ASSUME NEW b, IsPath(b), NEW s, Flat(s) \subseteq Text, NEW l, NEW u, IsFlatRow(s, u),
         NEW p, p \in FlatDiff(b, s, l, u).put \cup FlatDiff(b, s, l, u).add
  PROVE  /\ p \in Seq(Text) /\ Under(b, p) /\ Len(p) \in {Len(b) + 1, Len(b) + 2} /\ p[Len(b) + 1] \in Flat(s)
         /\ \A i \in 1..Len(b) : p[i] = b[i]
<1>1. b \in Seq(Text)
  BY TextOf
<1>2. IsPut(p, b, s, l, u) \/ IsAdd(p, b, s, l, u)
  BY FlatParts
<1>3. \E f \in Flat(s) : p = b \o <<f>> \/ \E v \in Text : p = b \o <<f, v>>
  <2>1. CASE IsPut(p, b, s, l, u)
    <3>1. PICK f \in Written(s, l, u) : p = b \o <<f, u[f]>>
      BY <2>1 DEF IsPut
    <3>2. f \in Flat(s) /\ u[f] \in Text
      BY NoneText DEF Written, Flat, IsFlatRow
    <3> QED BY <3>1, <3>2
  <2>2. CASE \E f \in s.multi : \E v \in u[f] \ l[f] : p = b \o <<f, v>>
    <3>1. PICK f \in s.multi : \E v \in u[f] \ l[f] : p = b \o <<f, v>>
      BY <2>2
    <3>2. u[f] \subseteq Text /\ f \in Flat(s)
      BY NoneText DEF Flat, IsFlatRow
    <3> QED BY <3>1, <3>2
  <2>3. CASE \E f \in Raised(s, l, u) : p = b \o <<f>>
    BY <2>3 DEF Raised, Flat
  <2> QED BY <1>2, <2>1, <2>2, <2>3 DEF IsAdd
<1>4. PICK f \in Flat(s) : p = b \o <<f>> \/ \E v \in Text : p = b \o <<f, v>>
  BY <1>3
<1>5. f \in Text
  OBVIOUS
<1>6. CASE p = b \o <<f>>
  <2>1. (b \o <<f>>)[Len(b) + 1] = f /\ \A i \in 1..Len(b) : (b \o <<f>>)[i] = b[i]
    BY <1>1, <1>5, Endings
  <2>2. b \o <<f>> \in Seq(Text) /\ Len(b \o <<f>>) = Len(b) + 1 /\ Under(b, b \o <<f>>)
    BY <1>1, <1>5, OneBelow
  <2> QED BY <1>6, <2>1, <2>2
<1>7. ASSUME NEW v \in Text, p = b \o <<f, v>>
      PROVE  /\ p \in Seq(Text) /\ Under(b, p) /\ Len(p) = Len(b) + 2 /\ p[Len(b) + 1] = f
             /\ \A i \in 1..Len(b) : p[i] = b[i]
  <2>1. (b \o <<f, v>>)[Len(b) + 1] = f /\ \A i \in 1..Len(b) : (b \o <<f, v>>)[i] = b[i]
    BY <1>1, <1>5, Endings
  <2>2. b \o <<f, v>> \in Seq(Text) /\ Len(b \o <<f, v>>) = Len(b) + 2 /\ Under(b, b \o <<f, v>>)
    BY <1>1, <1>5, TwoBelow
  <2> QED BY <1>7, <2>1, <2>2
<1> QED BY <1>4, <1>6, <1>7

\* A diff without fields of their own below its fields is a flat one.
LEMMA NoSubsDiff ==
  ASSUME NEW b, NEW s, Subs(s) = {}, NEW l, NEW u, NEW p, p \in Diff(b, s, l, u).put \cup Diff(b, s, l, u).add
  PROVE  p \in FlatDiff(b, s, l, u).put \cup FlatDiff(b, s, l, u).add
<1>1. IsDiffPut(p, b, s, l, u) \/ IsDiffAdd(p, b, s, l, u)
  BY DiffParts
<1> QED BY <1>1 DEF IsDiffPut, IsDiffAdd

\* What two batches set together.
LEMMA BothNew ==
  ASSUME NEW c, NEW d, NEW p
  PROVE  /\ p \in Both(c, d).put \cup Both(c, d).add <=> p \in c.put \cup c.add \/ p \in d.put \cup d.add
         /\ p \in Both(c, d).del <=> p \in c.del \/ p \in d.del
         /\ Both(c, d).late = c.late \cup d.late
<1>1. /\ p \in Both(c, d).put <=> p \in c.put \/ p \in d.put
      /\ p \in Both(c, d).add <=> p \in c.add \/ p \in d.add
      /\ p \in Both(c, d).del <=> p \in c.del \/ p \in d.del
  BY BothParts DEF Both
<1>2. Both(c, d).late = UNION {x.late : x \in {c, d}}
  BY BothParts DEF Both
<1> QED BY <1>1, <1>2

\* The elements that a path has below another.
LEMMA OneEnd ==
  ASSUME NEW b, b \in Seq(Text), NEW f, f \in Text
  PROVE  (b \o <<f>>)[Len(b) + 1] = f /\ \A i \in 1..Len(b) : (b \o <<f>>)[i] = b[i]
BY Endings

\* The elements of a path two further.
LEMMA TwoEnd ==
  ASSUME NEW b, b \in Seq(Text), NEW f, f \in Text, NEW v, v \in Text
  PROVE  (b \o <<f, v>>)[Len(b) + 1] = f /\ (b \o <<f, v>>)[Len(b) + 2] = v
         /\ \A i \in 1..Len(b) : (b \o <<f, v>>)[i] = b[i]
<1>1. /\ \A i \in 1..Len(b) : (b \o <<f>>)[i] = b[i] /\ (b \o <<f, v>>)[i] = b[i]
      /\ (b \o <<f>>)[Len(b) + 1] = f /\ (b \o <<f, v>>)[Len(b) + 1] = f /\ (b \o <<f, v>>)[Len(b) + 2] = v
  BY Endings
<1> QED BY <1>1

\* The sets of an edit keep to what the editor relies on: of VXLAN interfaces,
LEMMA VxlanKnown ==
  ASSUME "vxlan" \in DOMAIN Ed, NEW b, IsPath(b), b[2] \in Word, NEW l, IsRow("vxlan", l), NEW u, IsRow("vxlan", u),
         NEW p, p \in Vxlan_Diff(b, FALSE, l, u).put \cup Vxlan_Diff(b, FALSE, l, u).add
  PROVE  NewKnown("vxlan", p)
<1> DEFINE forced == [u EXCEPT !["external"] = @ \/ DOMAIN u["vlan-to-vni"] # {}]
           was == l["bridge"]
           paths(x) == IF x = None THEN {} ELSE {MemberOf(x, b[2])}
           d == Diff(b, Vxlan_Write, l, forced)
           m == IF was = u["bridge"] THEN NoCommands ELSE Batch(paths(was), {}, paths(u["bridge"]))
<1>1. "external" \in Ed["vxlan"].read.flag /\ Ed["vxlan"].write = Vxlan_Write /\ IsSchema(Vxlan_Write)
  BY VxlanIs, TypeOfEditor DEF Vxlan_Write
<1>2. IsRow("vxlan", forced)
  <2>1. (u["external"] \/ DOMAIN u["vlan-to-vni"] # {}) \in BOOLEAN
    OBVIOUS
  <2> QED BY <1>1, <2>1, Set
<1> HIDE DEF forced
<1>3. IsBody(Vxlan_Write, forced) /\ IsBody(Vxlan_Write, l)
  BY <1>1, <1>2, RowIsBody
<1>4. Over(Text, b, Vxlan_Write, l, forced)
  BY <1>1, <1>3, SchemaIsOver, BodyIsOver, TextOf DEF Over
<1>5. Vxlan_Diff(b, FALSE, l, u) = Both(d, m)
  BY DEF Vxlan_Diff, Created, forced
<1> HIDE DEF d, m
<1>6. p \in d.put \cup d.add \/ p \in m.put \cup m.add
  BY <1>5, BothNew
<1>7. CASE p \in d.put \cup d.add
  <2>1. p \in Seq(Text) /\ Under(b, p)
    BY <1>4, <1>7, DiffBelow DEF d
  <2>2. p[2] = b[2]
    <3>1. b \in Seq(Text) /\ 2 \in 1..Len(b)
      BY TextOf
    <3> QED BY <2>1, <3>1, UnderPrefix
  <2> QED BY <2>2 DEF NewKnown, Word
<1>8. CASE p \in m.put \cup m.add
  <2>1. p \in paths(u["bridge"])
    BY <1>8, BatchParts, BatchFields DEF m
  <2>2. p = MemberOf(u["bridge"], b[2])
    BY <2>1
  <2>3. p[1] = "interfaces_bridge"
    BY <2>2 DEF MemberOf
  <2> QED BY <2>3 DEF NewKnown
<1> QED BY <1>6, <1>7, <1>8

\* of DHCP subnets,
LEMMA SubnetKnown ==
  ASSUME "dhcp_subnet" \in DOMAIN Ed, NEW b, IsPath(b), Len(b) = 4, NEW t, NEW l, NEW u, IsRow("dhcp_subnet", u),
         NEW p, p \in Subnet_Diff(t, b, FALSE, l, u).put \cup Subnet_Diff(t, b, FALSE, l, u).add
  PROVE  NewKnown("dhcp_subnet", p)
<1> DEFINE s == Subnet_Write
           d == Diff(b, s, l, u)
<1>1. Ed["dhcp_subnet"].write = s
  BY EditorIs DEF Subnet, Editor
<1>2. IsBody(s, u)
  BY <1>1, RowIsBody
<1>3. Subnet_Diff(t, b, FALSE, l, u) = Both(d, NoCommands)
  BY DEF Subnet_Diff
<1>4. Subs(s) = {} /\ Flat(s) \subseteq Text /\ "subnet-id" \notin Flat(s)
  BY DhcpSchemas, NoneText DEF Flat, Fields, IsSchema, IsFlatSchema
<1> HIDE DEF s, d
<1>5. p \in d.put \cup d.add
  BY <1>3, BothNew, BatchFields
<1>6. p \in FlatDiff(b, s, l, u).put \cup FlatDiff(b, s, l, u).add
  BY <1>4, <1>5, NoSubsDiff DEF d
<1>7. p[Len(b) + 1] \in Flat(s)
  BY <1>2, <1>4, <1>6, FlatNames DEF IsBody
<1>8. Len(b) + 1 = 5
  OBVIOUS
<1> QED BY <1>4, <1>7, <1>8 DEF NewKnown

\* of DHCP servers,
LEMMA ServerKnown ==
  ASSUME "dhcp_server" \in DOMAIN Ed, NEW b, IsPath(b), Len(b) = 2, NEW t, NEW l, NEW u, IsRow("dhcp_server", u),
         NEW p, p \in Server_Diff(t, b, FALSE, l, u).put \cup Server_Diff(t, b, FALSE, l, u).add
  PROVE  NewKnown("dhcp_server", p)
<1> DEFINE s == Server_Write
           d == Diff(b, s, l, u)
<1>1. IsFlatRow(s, u) /\ Flat(s) \subseteq Text /\ Subs(s) = {}
  <2> DEFINE z == Ed["dhcp_server"].write
  <2>1. IsBody(z, u) /\ Wider(z, s) /\ IsSchema(z)
    BY ServerIs, RowIsBody, TypeOfEditor
  <2>2. Subs(s) = {} /\ s.pick = NoSubs /\ s.multi = {} /\ s.secret = {}
    BY DEF s, Server_Write, Server_Read, Schema, Subs, NoSubs
  <2> HIDE DEF s, z
  <2>3. s.leaf \subseteq z.leaf /\ s.flag \subseteq z.flag
    BY <2>1 DEF Wider
  <2>4. IsFlatRow(s, u)
    BY <2>1, <2>2, <2>3 DEF IsBody, IsFlatRow, NoSubs
  <2>5. Flat(s) \subseteq Text
    BY <2>1, <2>2, <2>3, NoneText DEF Flat, IsSchema, IsFlatSchema, NoSubs
  <2> QED BY <2>2, <2>4, <2>5
<1>3. Server_Diff(t, b, FALSE, l, u) = d
  BY DEF Server_Diff, Created
<1> HIDE DEF s, d
<1>5. p \in d.put \cup d.add
  BY <1>3
<1>6. p \in FlatDiff(b, s, l, u).put \cup FlatDiff(b, s, l, u).add
  BY <1>1, <1>5, NoSubsDiff DEF d
<1>7. Len(p) \in {Len(b) + 1, Len(b) + 2}
  BY <1>1, <1>6, FlatNames
<1> QED BY <1>7 DEF NewKnown

\* (the node of a mode ends in it)
LEMMA ModePath ==
  ASSUME NEW b, b \in Seq(Text), NEW v, v \in Text, "mode" \in Text
  PROVE  (b \o <<"mode", v>>)[Len(b) + 2] = v
<1> DEFINE x == "mode"
<1>1. x \in Text
  OBVIOUS
<1> HIDE DEF x
<1>2. (b \o <<x, v>>)[Len(b) + 1] = x /\ (b \o <<x, v>>)[Len(b) + 2] = v
      /\ \A i \in 1..Len(b) : (b \o <<x, v>>)[i] = b[i]
  BY <1>1, TwoEnd
<1> QED BY <1>2 DEF x

\* and of OpenVPN interfaces.
LEMMA OpenvpnKnown ==
  ASSUME "openvpn" \in DOMAIN Ed, NEW b, IsPath(b), Len(b) = 2, NEW l, IsRow("openvpn", l), NEW u, IsRow("openvpn", u),
         NEW p, p \in Openvpn_Diff(b, FALSE, l, u).put \cup Openvpn_Diff(b, FALSE, l, u).add
  PROVE  NewKnown("openvpn", p)
<1> DEFINE s == Openvpn_Write
           switched == l["mode"] # u["mode"]
           old == IF switched THEN Blank(s) ELSE l
           sent == [s EXCEPT !.leaf = @ \ (OfSomeMode \ ModeFields[u["mode"]])]
           base == [f \in OfSomeMode |-> old[f]] @@ l
           group(r, n) == IF "" \in DOMAIN r[n] THEN r[n][""] ELSE Blank(s.gates[n])
           purge == IF switched THEN MODE_NODES[l["mode"]] \cup {x \in {"tls_role"} : l["mode"] = "site-to-site" /\ l[x] # None}
                    ELSE {}
           mode == IF switched THEN {b \o <<"mode", u["mode"]>>} ELSE {}
           flat == FlatDiff(b, sent, base, u)
           batch == Batch({b \o <<n>> : n \in purge}, mode, {})
           gates == {FlatDiff(b \o <<n>>, s.gates[n], group(base, n), group(u, n)) : n \in DOMAIN s.gates \cap ModeFields[u["mode"]]}
<1>1. Ed["openvpn"].write = s /\ Ed["openvpn"].read = s /\ IsSchema(s)
  BY TypeOfEditor, OpenvpnIs DEF Openvpn_Write
<1>2. IsBody(s, u) /\ u["mode"] \in OpenvpnModes
  BY <1>1, RowIsBody, RowIs DEF HasExtras
<1>3. Openvpn_Diff(b, FALSE, l, u) = BothOf({flat, batch} \cup gates)
  BY DEF Openvpn_Diff
<1>4. \E c \in {flat, batch} \cup gates : p \in c.put \cup c.add
  <2> HIDE DEF flat, batch, gates
  <2> QED BY <1>3, BothParts
<1>5. b \in Seq(Text) /\ Len(b) + 1 = 3 /\ "mode" \in Text
  BY TextOf, Named, NoneText
<1>6. "mode" \notin Flat(s) \cup Subs(s)
  <2>1. Fields(s) = Flat(s) \cup Subs(s)
    BY DEF Fields, Subs
  <2> QED BY <2>1, OpenvpnIs DEF Openvpn_Write
<1> HIDE DEF s
<1>7. CASE p \in flat.put \cup flat.add
  <2>1. /\ IsFlatSchema(sent) /\ sent.multi = s.multi /\ sent.flag = s.flag /\ sent.secret = s.secret
        /\ sent.pick = s.pick /\ sent.leaf \subseteq s.leaf
    BY OpenvpnSentSchema DEF s
  <2> HIDE DEF sent, base
  <2>2. IsFlatRow(sent, u)
    BY <1>2, <2>1 DEF IsBody, IsFlatRow
  <2>3. Flat(sent) \subseteq Flat(s) /\ Flat(sent) \subseteq Text
    BY <2>1, NoneText DEF Flat, IsFlatSchema
  <2>4. p[Len(b) + 1] \in Flat(sent)
    BY <1>7, <2>2, <2>3, FlatNames
  <2> QED BY <1>5, <1>6, <2>3, <2>4 DEF NewKnown
<1>8. CASE p \in batch.put \cup batch.add
  <2> HIDE DEF purge, mode
  <2>0. p \in mode
    BY <1>8, BatchParts
  <2>1. p = b \o <<"mode", u["mode"]>>
    BY <2>0 DEF mode
  <2>2. u["mode"] \in Text
    <3>1. "site-to-site" \in Text /\ "client" \in Text /\ "server" \in Text
      BY TextAssumption DEF Keywords
    <3> QED BY <1>2, <3>1 DEF OpenvpnModes
  <2>3. (b \o <<"mode", u["mode"]>>)[Len(b) + 2] = u["mode"]
    BY <1>5, <2>2, ModePath
  <2>4. p[4] = u["mode"]
    BY <2>1, <2>3
  <2> QED BY <1>2, <2>4 DEF NewKnown
<1>9. ASSUME NEW c \in gates, p \in c.put \cup c.add PROVE NewKnown("openvpn", p)
  <2>1. PICK n \in DOMAIN s.gates : c = FlatDiff(b \o <<n>>, s.gates[n], group(base, n), group(u, n))
    BY <1>9
  <2>2. n \in Subs(s) /\ SubSchema(s, n) = s.gates[n] /\ n \in Word
    BY <1>1, OpenvpnWriteIs DEF s, IsSchema
  <2>3. IsPath(b \o <<n>>)
    BY <2>2, PathBelow, NoneText
  <2>4. IsFlatSchema(s.gates[n]) /\ FlatApart(s.gates[n]) /\ Flat(s.gates[n]) \subseteq Text
    BY <1>1, <2>2, NoneText DEF IsSchema, IsFlatSchema
  <2>5. IsFlatRow(s.gates[n], group(u, n))
    <3>1. CASE "" \in DOMAIN u[n]
      BY <1>2, <2>2, <3>1 DEF IsBody
    <3>2. CASE "" \notin DOMAIN u[n]
      <4> DEFINE g == s.gates[n]
                 r == Blank(g)
      <4>1. FlatApart(g) /\ DOMAIN g.pick = {}
        BY <2>4, OpenvpnWriteIs DEF s
      <4> HIDE DEF g
      <4>2. \A f \in g.leaf \cup g.secret : r[f] = None
        BY <4>1, BlankTyped DEF Flat
      <4>3. \A f \in g.multi : r[f] = {}
        BY <4>1, BlankTyped DEF Flat
      <4>4. \A f \in g.flag : r[f] = FALSE
        BY <4>1, BlankTyped DEF Flat
      <4> HIDE DEF r
      <4>5. IsFlatRow(g, r)
        BY <4>1, <4>2, <4>3, <4>4, NoneText DEF IsFlatRow
      <4> QED BY <3>2, <4>5 DEF g, r
    <3> QED BY <3>1, <3>2
  <2> HIDE DEF group, base
  <2> DEFINE B == b \o <<n>>
             g == s.gates[n]
             lo == group(base, n)
             hi == group(u, n)
  <2> HIDE DEF B, g, lo, hi
  <2>9. IsPath(B) /\ Flat(g) \subseteq Text /\ IsFlatRow(g, hi) /\ p \in FlatDiff(B, g, lo, hi).put \cup FlatDiff(B, g, lo, hi).add
    BY <1>9, <2>1, <2>3, <2>4, <2>5 DEF B, g, lo, hi
  <2>6. \A i \in 1..Len(B) : p[i] = B[i]
    BY <2>9, FlatNames
  <2>7. Len(B) = Len(b) + 1 /\ B[Len(b) + 1] = n
    BY <1>5, <2>2, NoneText, OneBelow, OneEnd DEF B
  <2>8. p[3] = n
    BY <1>5, <2>6, <2>7
  <2> QED BY <1>6, <2>2, <2>8 DEF NewKnown
<1> HIDE DEF flat, batch, gates
<1> QED BY <1>4, <1>7, <1>8, <1>9

\* What another administrator sends for an object that is there.
LEMMA OtherMade ==
  ASSUME NEW e \in DOMAIN Ed, NEW t, NEW k, IsKey(e, k), Ed[e].keyed => k \in KeysOf(e, t), NEW l, NEW u
  PROVE  LET c == Made(e, t, k, k, Base(e, k), Ed[e].write, FALSE, l, u)
         IN  Commands(e, t, k, k, l, u) = Both(Deletes({}), c)
<1>1. k # <<>>
  <2>1. ~Ed[e].keyed => k = <<"">>
    BY DEF IsKey
  <2>2. Ed[e].keyed => k # <<>>
    <3>1. IsPath(Base(e, k)) /\ Base(e, k) = <<Ed[e].at>> \o k /\ k \in Seq(Text) /\ Ed[e].at \in Text
      BY KeyPath, TypeOfEditor DEF Base
    <3>2. Len(<<Ed[e].at>> \o k) = Len(k) + 1
      BY <3>1, Prepended
    <3>3. Len(<<Ed[e].at>> \o k) >= 2
      BY <3>1 DEF IsPath
    <3> QED BY <3>2, <3>3
  <2>3. <<"">> # <<>>
    OBVIOUS
  <2> QED BY <2>1, <2>2, <2>3
<1>2. (k \notin {<<>>, k}) = FALSE
  OBVIOUS
<1>3. (IF Ed[e].keyed /\ Ed[e].live = "page" THEN k \notin {<<>>, k} \/ k \notin KeysOf(e, t) ELSE k = <<>>) = FALSE
  BY <1>1
<1>4. MadeFrom(e, t, k, k, FALSE, l, u) = Made(e, t, k, k, Base(e, k), Ed[e].write, FALSE, l, u)
  BY DEF MadeFrom
<1>5. Commands(e, t, k, k, l, u) = Both(Deletes({}), MadeFrom(e, t, k, k, FALSE, l, u))
  BY <1>2, <1>3 DEF Commands
<1> QED BY <1>4, <1>5

\* What others save leaves an editor with what it knows.
LEMMA OtherKnown ==
  ASSUME NEW e \in DOMAIN Ed, NEW t, IsConfig(t), IsKnown(e, t), NEW k, IsKey(e, k), Ed[e].keyed => k \in KeysOf(e, t),
         NEW l, IsRow(e, l), NEW u, IsRow(e, u), Complete(e, u)
  PROVE  IsConfig(Commit(t, Commands(e, t, k, k, l, u))) /\ IsKnown(e, Commit(t, Commands(e, t, k, k, l, u)))
<1> DEFINE b == Base(e, k)
           c == Commands(e, t, k, k, l, u)
           m == Made(e, t, k, k, b, Ed[e].write, FALSE, l, u)
<1>1. IsGood(c)
  BY CommandsGood DEF FormKey
<1>2. IsConfig(Commit(t, c))
  BY <1>1, GoodCommit
<1>3. c = Both(Deletes({}), m)
  BY OtherMade
<1>4. IsPath(b) /\ k \in Seq(Text) /\ Ed[e].at \in Text /\ b = <<Ed[e].at>> \o k
  BY KeyPath, TypeOfEditor DEF Base
<1>5. Len(b) = Len(k) + 1
  BY <1>4, Prepended
<1> HIDE DEF b, c, m
<1>6. ASSUME NEW p \in c.put \cup c.add PROVE p \in m.put \cup m.add
  BY <1>3, BothNew, BatchFields
<1>7. ASSUME NEW p, p \in m.put \cup m.add PROVE NewKnown(e, p)
  <2>1. CASE e = "vxlan"
    <3>1. k \in Seq(Text) /\ Len(k) = 1 /\ k[1] # None
      BY <2>1, VxlanIs DEF IsKey
    <3>2. b[2] \in Word
      BY <1>4, <3>1, OneKey DEF b, Word
    <3>3. m = Vxlan_Diff(b, FALSE, l, u)
      BY <2>1 DEF m, Made
    <3> QED BY <1>4, <1>7, <2>1, <3>2, <3>3, VxlanKnown
  <2>2. CASE e = "openvpn"
    <3>1. Len(k) = 1
      BY <2>2, OpenvpnIs DEF IsKey
    <3>2. m = Openvpn_Diff(b, FALSE, l, u)
      BY <2>2 DEF m, Made
    <3>3. Len(b) = 2
      BY <1>5, <3>1
    <3>4. IsRow(e, l) /\ IsRow(e, u) /\ e \in DOMAIN Ed
      OBVIOUS
    <3> QED BY <1>4, <1>7, <2>2, <3>2, <3>3, <3>4, OpenvpnKnown
  <2>3. CASE e = "dhcp_subnet"
    <3>1. Len(k) = 3
      BY <2>3, KeyedEditors DEF IsKey
    <3>2. m = Subnet_Diff(t, b, FALSE, l, u)
      BY <2>3 DEF m, Made
    <3>3. Len(b) = 4
      BY <1>5, <3>1
    <3>4. IsRow(e, l) /\ IsRow(e, u) /\ e \in DOMAIN Ed
      OBVIOUS
    <3> QED BY <1>4, <1>7, <2>3, <3>2, <3>3, <3>4, SubnetKnown
  <2>4. CASE e = "dhcp_server"
    <3>1. Len(k) = 1
      BY <2>4, KeyedEditors DEF IsKey
    <3>2. m = Server_Diff(t, b, FALSE, l, u)
      BY <2>4 DEF m, Made
    <3>3. Len(b) = 2
      BY <1>5, <3>1
    <3>4. IsRow(e, l) /\ IsRow(e, u) /\ e \in DOMAIN Ed
      OBVIOUS
    <3> QED BY <1>4, <1>7, <2>4, <3>2, <3>3, <3>4, ServerKnown
  <2>5. CASE e \notin {"vxlan", "openvpn", "dhcp_subnet", "dhcp_server"}
    BY <2>5 DEF NewKnown
  <2> QED BY <2>1, <2>2, <2>3, <2>4, <2>5
<1>8. IsKnown(e, Commit(t, c))
  BY <1>1, <1>6, <1>7, KnownCommit
<1> QED BY <1>2, <1>8 DEF c

\* A delete leaves a configuration that its editor knows.
LEMMA DeleteKnown ==
  ASSUME NEW e \in DOMAIN Ed, NEW t, IsConfig(t), NEW p, NEW k, IsKey(e, k)
  PROVE  IsConfig(Commit(t, DeleteCommands(e, p, k))) /\ (IsKnown(e, t) => IsKnown(e, Commit(t, DeleteCommands(e, p, k))))
<1>1. PICK D \in SUBSET Seq(Text) : DeleteCommands(e, p, k) = Deletes(D)
  BY DeletesGood
<1> DEFINE c == Deletes(D)
<1>2. IsGood(c) /\ c.put \cup c.add = {}
  BY GoodDeletes, BatchFields
<1> HIDE DEF c
<1>3. IsConfig(Commit(t, c))
  BY <1>2, GoodCommit
<1>4. IsKnown(e, t) => IsKnown(e, Commit(t, c))
  BY <1>2, KnownCommit
<1> QED BY <1>1, <1>3, <1>4 DEF c

-----------------------------------------------------------------------------
(* The types.                                                              *)

\* A form opened on a row is of a form's shape.
LEMMA OpenedForm ==
  ASSUME NEW mode \in {"edit", "new"}, NEW e \in DOMAIN Ed, NEW k, FormKey(e, k), NEW to, IsKey(e, to),
         NEW r, IsRow(e, r), NEW u, IsRow(e, u)
  PROVE  IsForm(e, [mode |-> mode, key |-> k, to |-> to, seed |-> r, u |-> u])
BY DEF IsForm, FormKey

\* So is one opened on a row of the configuration.
LEMMA EditFormTyped ==
  ASSUME ed \in DOMAIN Ed, NEW t, IsConfig(t), IsKnown(ed, t), NEW k, IsKey(ed, k)
  PROVE  IsForm(ed, EditForm(k, RowOf(ed, t, k)))
<1> DEFINE r == RowOf(ed, t, k)
           u == Entries(ed, r)
<1>1. IsRow(ed, r)
  BY RowOfTyped
<1> HIDE DEF r
<1>2. IsRow(ed, u)
  BY <1>1, EntriesTyped
<1> HIDE DEF u
<1>3. IsForm(ed, [mode |-> "edit", key |-> k, to |-> k, seed |-> r, u |-> u])
  BY <1>1, <1>2, OpenedForm DEF FormKey
<1> QED BY <1>3 DEF EditForm, Form, r, u

\* The parts of a form.
LEMMA FormTyped ==
  ASSUME ed \in DOMAIN Ed, IsForm(ed, form)
  PROVE  /\ form # Closed /\ FormKey(ed, form.key) /\ IsKey(ed, form.to) /\ IsRow(ed, form.seed) /\ IsRow(ed, form.u)
         /\ DOMAIN form = {"mode", "key", "to", "seed", "u"} /\ form.mode \in {"edit", "new"}
<1>1. DOMAIN form = {"mode", "key", "to", "seed", "u"}
  BY DEF IsForm
<1>2. DOMAIN Closed = {"mode"}
  BY DEF Closed
<1> QED BY <1>1, <1>2 DEF IsForm, FormKey

\* The row that a save is compared with.
LEMMA LiveRowTyped ==
  ASSUME TypeOK, toast = "none", form # Closed
  PROVE  /\ IsConfig(Seen) /\ IsKnown(ed, Seen) /\ IsRow(ed, LiveRow)
<1>1. IsForm(ed, form) /\ ed \in DOMAIN Ed
  BY DEF TypeOK
<1>2. IsConfig(Seen) /\ IsKnown(ed, Seen)
  BY DEF TypeOK, Seen
<1>3. FormKey(ed, form.key) /\ IsRow(ed, form.seed)
  BY <1>1, FormTyped
<1>4. form.key # <<>> => IsRow(ed, RowOf(ed, Seen, form.key))
  BY <1>1, <1>2, <1>3, RowOfTyped DEF FormKey
<1> QED BY <1>2, <1>3, <1>4 DEF LiveRow

\* TypeOK holds at first.
LEMMA TypeInit == Init => TypeOK
<1> SUFFICES ASSUME Init PROVE TypeOK
  OBVIOUS
<1>1. ed \in DOMAIN Ed /\ tree \in Starts(ed) /\ page = tree /\ status = "ready" /\ form = Closed /\ toast = "none" /\ others = 0
  BY DEF Init
<1>2. IsConfig(tree) /\ IsKnown(ed, tree)
  BY <1>1, InputsAssumption
<1> QED BY <1>1, <1>2, BoundsAssumption DEF TypeOK

\* A load keeps TypeOK: a form that follows its page is seeded again.
LEMMA TypeLoad == TypeOK /\ Load => TypeOK'
<1> SUFFICES ASSUME TypeOK, Load PROVE TypeOK'
  OBVIOUS
<1>1. toast = "none" /\ page' = tree /\ status' = "ready" /\ ed' = ed /\ tree' = tree /\ toast' = toast /\ others' = others
      /\ form' = IF Ed[ed].live = "synced" /\ form # Closed THEN EditForm(form.key, RowOf(ed, tree, form.key)) ELSE form
  BY DEF Load
<1>2. ed \in DOMAIN Ed /\ IsConfig(tree) /\ IsKnown(ed, tree) /\ (form = Closed \/ IsForm(ed, form))
  BY <1>1 DEF TypeOK
<1>3. form' = Closed \/ IsForm(ed, form')
  <2>1. CASE Ed[ed].live = "synced" /\ form # Closed
    <3>1. IsKey(ed, form.key)
      BY <1>2, <2>1, FormTyped, SchemasAssumption DEF FormKey
    <3> QED BY <1>1, <1>2, <2>1, <3>1, EditFormTyped
  <2>2. CASE ~(Ed[ed].live = "synced" /\ form # Closed)
    BY <1>1, <1>2, <2>2
  <2> QED BY <2>1, <2>2
<1> QED BY <1>1, <1>2, <1>3 DEF TypeOK

\* So do a failed load, the opening of a form and its closing.
LEMMA TypeOpen == TypeOK /\ (LoadFails \/ Open \/ OpenNew \/ Cancel) => TypeOK'
<1> SUFFICES ASSUME TypeOK, LoadFails \/ Open \/ OpenNew \/ Cancel PROVE TypeOK'
  OBVIOUS
<1>1. /\ toast = "none" /\ ed' = ed /\ tree' = tree /\ page' = page /\ toast' = toast /\ others' = others
      /\ status' \in {"error", status}
  BY DEF LoadFails, Open, OpenNew, Cancel
<1>2. ed \in DOMAIN Ed /\ IsConfig(page) /\ IsKnown(ed, page)
  BY <1>1 DEF TypeOK
<1>3. form' = Closed \/ IsForm(ed, form')
  <2>1. CASE LoadFails \/ Cancel
    BY <2>1 DEF LoadFails, Cancel
  <2>2. CASE Open
    <3>1. PICK k \in IF Ed[ed].keyed THEN KeysOf(ed, page) \cap {Key(ed)} ELSE {Key(ed)} :
            form' = EditForm(k, RowOf(ed, page, k))
      BY <2>2 DEF Open
    <3>2. IsKey(ed, k)
      BY <1>2, TypeOfEditor
    <3> QED BY <1>2, <3>1, <3>2, EditFormTyped
  <2>3. CASE OpenNew
    <3>1. PICK r \in NewRows(ed) : form' = [Form("new", <<>>, r, r) EXCEPT !.to = NewKey(ed)]
      BY <2>3 DEF OpenNew
    <3>2. Ed[ed].keyed
      BY <2>3 DEF OpenNew
    <3>3. IsRow(ed, r) /\ IsKey(ed, NewKey(ed))
      BY <1>2, <3>1, <3>2, InputsAssumption
    <3>4. form' = [mode |-> "new", key |-> <<>>, to |-> NewKey(ed), seed |-> r, u |-> r]
      BY <3>1 DEF Form
    <3> QED BY <1>2, <3>2, <3>3, <3>4, OpenedForm DEF FormKey
  <2> QED BY <2>1, <2>2, <2>3
<1> QED BY <1>1, <1>2, <1>3 DEF TypeOK

\* So does an edit.
LEMMA TypeEdit == TypeOK /\ Edit => TypeOK'
<1> SUFFICES ASSUME TypeOK, Edit PROVE TypeOK'
  OBVIOUS
<1>1. /\ toast = "none" /\ ed' = ed /\ tree' = tree /\ page' = page /\ toast' = toast /\ others' = others
      /\ status' = status /\ form # Closed
  BY DEF Edit
<1>2. ed \in DOMAIN Ed /\ IsForm(ed, form)
  BY <1>1 DEF TypeOK
<1>3. FormKey(ed, form.key) /\ IsKey(ed, form.to) /\ IsRow(ed, form.seed) /\ IsRow(ed, form.u) /\ form.mode \in {"edit", "new"}
  BY <1>2, FormTyped
<1>4. form = [mode |-> form.mode, key |-> form.key, to |-> form.to, seed |-> form.seed, u |-> form.u]
  BY <1>2 DEF IsForm
<1>5. CASE \E r \in RowEdits(ed, form.u) : form' = [form EXCEPT !.u = r]
  <2>1. PICK r \in RowEdits(ed, form.u) : form' = [form EXCEPT !.u = r]
    BY <1>5
  <2>2. IsRow(ed, r)
    BY <1>2, <1>3, <2>1, RowEditTyped
  <2>3. form' = [mode |-> form.mode, key |-> form.key, to |-> form.to, seed |-> form.seed, u |-> r]
    BY <1>4, <2>1
  <2>4. IsForm(ed, form')
    BY <1>2, <1>3, <2>2, <2>3, OpenedForm
  <2> QED BY <1>1, <2>4 DEF TypeOK
<1>6. CASE \E k \in Targets(ed, form.key) \ {form.to} : form' = [form EXCEPT !.to = k]
  <2>1. PICK k \in Targets(ed, form.key) \ {form.to} : form' = [form EXCEPT !.to = k]
    BY <1>6
  <2>2. IsKey(ed, k)
    BY <1>2, <1>3, <2>1, TargetsTyped
  <2>3. form' = [mode |-> form.mode, key |-> form.key, to |-> k, seed |-> form.seed, u |-> form.u]
    BY <1>4, <2>1
  <2>4. IsForm(ed, form')
    BY <1>2, <1>3, <2>2, <2>3, OpenedForm
  <2> QED BY <1>1, <2>4 DEF TypeOK
<1> QED BY <1>5, <1>6 DEF Edit

\* So does a save, done or refused: what it commits is a good batch.
LEMMA TypeSave == TypeOK /\ (Save \/ SaveRefused) => TypeOK'
<1> SUFFICES ASSUME TypeOK, Save \/ SaveRefused PROVE TypeOK'
  OBVIOUS
<1>1. /\ toast = "none" /\ ed' = ed /\ page' = page /\ others' = others /\ status' = status /\ form # Closed
  BY DEF Save, SaveRefused
<1>2. ed \in DOMAIN Ed /\ IsForm(ed, form) /\ IsConfig(tree)
  BY <1>1 DEF TypeOK
<1>3. FormKey(ed, form.key) /\ IsKey(ed, form.to) /\ IsRow(ed, form.seed) /\ IsRow(ed, form.u) /\ form.mode \in {"edit", "new"}
  BY <1>2, FormTyped
<1>4. IsConfig(Seen) /\ IsKnown(ed, Seen) /\ IsRow(ed, LiveRow)
  BY <1>1, LiveRowTyped
<1>5. CASE SaveRefused
  BY <1>1, <1>2, <1>5 DEF TypeOK, SaveRefused
<1>6. CASE Save
  <2>1. PICK r \in Submit(ed, page, form.key, form.to, form.seed, form.u) :
          \E c \in {Commands(ed, Seen, form.key, form.to, LiveRow, r)} :
             /\ tree' = Commit(tree, c)
             /\ toast' = IF c = NoCommands THEN "no_changes" ELSE "applied"
             /\ form' = IF ~Ed[ed].inline THEN Closed ELSE [form EXCEPT !.seed = form.u]
    BY <1>6 DEF Save
  <2> DEFINE c == Commands(ed, Seen, form.key, form.to, LiveRow, r)
  <2>2. /\ tree' = Commit(tree, c) /\ toast' \in {"no_changes", "applied"}
        /\ form' = IF ~Ed[ed].inline THEN Closed ELSE [form EXCEPT !.seed = form.u]
    BY <2>1
  <2>3. IsRow(ed, r) /\ Complete(ed, r)
    BY <1>2, <1>3, <2>1, SubmitTyped, SubmitComplete
  <2>4. IsGood(c)
    BY <1>2, <1>3, <1>4, <2>3, CommandsGood
  <2> HIDE DEF c
  <2>5. IsConfig(tree')
    BY <1>2, <2>2, <2>4, GoodCommit
  <2>6. form' = Closed \/ IsForm(ed, form')
    <3>1. CASE ~Ed[ed].inline
      BY <2>2, <3>1
    <3>2. CASE Ed[ed].inline
      <4>1. form = [mode |-> form.mode, key |-> form.key, to |-> form.to, seed |-> form.seed, u |-> form.u]
        BY <1>2 DEF IsForm
      <4>2. form' = [mode |-> form.mode, key |-> form.key, to |-> form.to, seed |-> form.u, u |-> form.u]
        BY <2>2, <3>2, <4>1
      <4> QED BY <1>2, <1>3, <4>2, OpenedForm
    <3> QED BY <3>1, <3>2
  <2> QED BY <1>1, <2>2, <2>5, <2>6 DEF TypeOK
<1> QED BY <1>5, <1>6

\* So does a delete.
LEMMA TypeDelete == TypeOK /\ Delete => TypeOK'
<1> SUFFICES ASSUME TypeOK, Delete PROVE TypeOK'
  OBVIOUS
<1>1. /\ toast = "none" /\ ed' = ed /\ page' = page /\ others' = others /\ status' = status /\ form' = form /\ Ed[ed].keyed
  BY DEF Delete
<1>2. PICK k \in KeysOf(ed, page) :
        LET c == DeleteCommands(ed, page, k)
        IN \/ tree' = Commit(tree, c) /\ toast' = "deleted"
           \/ HasVoidDelete(tree, c) /\ tree' = tree /\ toast' = "refused"
  BY DEF Delete
<1>3. ed \in DOMAIN Ed /\ IsConfig(tree) /\ IsConfig(page) /\ IsKnown(ed, page)
  BY <1>1 DEF TypeOK
<1>4. IsKey(ed, k)
  BY <1>1, <1>2, <1>3, KeysTyped
<1>5. IsConfig(tree') /\ toast' \in {"deleted", "refused"}
  BY <1>2, <1>3, <1>4, DeleteKnown
<1> QED BY <1>1, <1>5 DEF TypeOK

\* So does a change by another administrator.
LEMMA TypeOther == TypeOK /\ Other => TypeOK'
<1> SUFFICES ASSUME TypeOK, Other PROVE TypeOK'
  OBVIOUS
<1>1. /\ toast = "none" /\ ed' = ed /\ page' = page /\ others' = others + 1 /\ others < MaxOthers
      /\ status' = status /\ form' = form /\ toast' = toast
  BY DEF Other
<1>2. ed \in DOMAIN Ed /\ IsConfig(tree) /\ IsKnown(ed, tree)
  BY <1>1 DEF TypeOK
<1>3. others' \in 0..MaxOthers
  BY <1>1, BoundsAssumption DEF TypeOK
<1>4. IsConfig(tree') /\ IsKnown(ed, tree')
  <2>1. CASE /\ form # Closed /\ (Ed[ed].keyed => form.key \in KeysOf(ed, tree))
             /\ LET live == RowOf(ed, tree, form.key)
                IN \E u \in OtherEdits(ed, live) :
                     \E r \in Submit(ed, tree, form.key, form.key, live, u) :
                       tree' = Commit(tree, Commands(ed, tree, form.key, form.key, live, r))
    <3> DEFINE k == form.key
               l == RowOf(ed, tree, k)
    <3>1. IsForm(ed, form)
      BY <2>1 DEF TypeOK
    <3>2. IsKey(ed, k)
      <4>1. FormKey(ed, k)
        BY <1>2, <3>1, FormTyped
      <4>2. Ed[ed].keyed => IsKey(ed, k)
        BY <1>2, <2>1, KeysTyped
      <4> QED BY <4>1, <4>2 DEF FormKey
    <3>3. IsRow(ed, l)
      BY <1>2, <3>2, RowOfTyped
    <3>4. PICK u \in OtherEdits(ed, l) : \E r \in Submit(ed, tree, k, k, l, u) : tree' = Commit(tree, Commands(ed, tree, k, k, l, r))
      BY <2>1
    <3>5. PICK r \in Submit(ed, tree, k, k, l, u) : tree' = Commit(tree, Commands(ed, tree, k, k, l, r))
      BY <3>4
    <3>8. Ed[ed].keyed => k \in KeysOf(ed, tree)
      BY <2>1
    <3> HIDE DEF k, l
    <3>6. IsRow(ed, u)
      BY <1>2, <3>3, <3>4, RowEditTyped
    <3>7. IsRow(ed, r) /\ Complete(ed, r)
      BY <1>2, <3>5, <3>6, SubmitTyped, SubmitComplete
    <3> QED BY <1>2, <3>2, <3>3, <3>5, <3>7, <3>8, OtherKnown
  <2>2. CASE Ed[ed].keyed /\ \E k \in KeysOf(ed, tree) : tree' = Commit(tree, DeleteCommands(ed, tree, k))
    <3>1. PICK k \in KeysOf(ed, tree) : tree' = Commit(tree, DeleteCommands(ed, tree, k))
      BY <2>2
    <3>2. IsKey(ed, k)
      BY <1>2, <2>2, <3>1, KeysTyped
    <3> QED BY <1>2, <3>1, <3>2, DeleteKnown
  <2> QED BY <2>1, <2>2 DEF Other
<1> QED BY <1>1, <1>2, <1>3, <1>4 DEF TypeOK

\* So does every step.
LEMMA TypeStep == TypeOK /\ [Next]_vars => TypeOK'
<1> SUFFICES ASSUME TypeOK, [Next]_vars PROVE TypeOK'
  OBVIOUS
<1>1. CASE Load
  BY <1>1, TypeLoad
<1>2. CASE LoadFails \/ Open \/ OpenNew \/ Cancel
  BY <1>2, TypeOpen
<1>3. CASE Edit
  BY <1>3, TypeEdit
<1>4. CASE Save \/ SaveRefused
  BY <1>4, TypeSave
<1>5. CASE Delete
  BY <1>5, TypeDelete
<1>6. CASE Other
  BY <1>6, TypeOther
<1>7. CASE UNCHANGED vars
  BY <1>7 DEF TypeOK, vars
<1> QED BY <1>1, <1>2, <1>3, <1>4, <1>5, <1>6, <1>7 DEF Next

\* TypeOK: whatever the order in which the page, its forms and the others step, what
\* the page holds and the router runs keeps the shape that the code relies on.
THEOREM TypeCorrect == Spec => []TypeOK
<1>1. Init => TypeOK
  BY TypeInit
<1>2. TypeOK /\ [Next]_vars => TypeOK'
  BY TypeStep
<1> QED BY <1>1, <1>2, PTL DEF Spec

-----------------------------------------------------------------------------
(* What is read of a part of a configuration                               *)

\* Two configurations are the same at node b and below it.
Same(t, T, b) == \A q \in Seq(Text) : Under(b, q) => (q \in t <=> q \in T)

\* Where they are, they are the same below every node below.
LEMMA SameBelow ==
  ASSUME NEW t, NEW T, NEW b, b \in Seq(Text), NEW c, c \in Seq(Text), Under(b, c), Same(t, T, b)
  PROVE  Same(t, T, c)
<1> SUFFICES ASSUME NEW q \in Seq(Text), Under(c, q) PROVE q \in t <=> q \in T
  BY DEF Same
<1>1. Under(b, q)
  BY UnderOrder
<1> QED BY <1>1 DEF Same

\* Nothing else is read of them at b.
LEMMA ReadSame ==
  ASSUME NEW t, t \in SUBSET Seq(Text), NEW T, T \in SUBSET Seq(Text), NEW b, b \in Seq(Text), Same(t, T, b)
  PROVE  /\ At(T, b) = At(t, b) /\ Vals(T, b) = Vals(t, b) /\ Val(T, b) = Val(t, b)
         /\ \A s : Row(T, b, s) = Row(t, b, s)
         /\ b \in t <=> b \in T
<1>1. \A q \in Seq(Text) : Len(q) > Len(b) /\ SubSeq(q, 1, Len(b)) = b => Under(b, q)
  BY DEF Under
<1>2. {r \in T : Len(r) > Len(b) /\ SubSeq(r, 1, Len(b)) = b} = {r \in t : Len(r) > Len(b) /\ SubSeq(r, 1, Len(b)) = b}
  BY <1>1 DEF Same
<1>3. At(T, b) = At(t, b)
  BY <1>2 DEF At
<1>4. \A q \in Seq(Text) : Len(q) >= Len(b) + 1 /\ SubSeq(q, 1, Len(b)) = b => Under(b, q)
  BY DEF Under
<1>5. {r \in T : Len(r) >= Len(b) + 1 /\ SubSeq(r, 1, Len(b)) = b} = {r \in t : Len(r) >= Len(b) + 1 /\ SubSeq(r, 1, Len(b)) = b}
  BY <1>4 DEF Same
<1>6. Len(b) + 1 - 1 = Len(b)
  OBVIOUS
<1>7. Vals(T, b) = Vals(t, b)
  BY <1>5, <1>6 DEF Vals
<1>8. Val(T, b) = Val(t, b)
  BY <1>7 DEF Val
<1>9. \A s : Row(T, b, s) = Row(t, b, s)
  BY <1>3 DEF Row
<1>10. b \in t <=> b \in T
  <2>1. Under(b, b)
    BY UnderOrder
  <2> QED BY <2>1 DEF Same
<1> QED BY <1>3, <1>7, <1>8, <1>9, <1>10

\* A batch of deletes leaves what is under none of them.
LEMMA Remaining ==
  ASSUME NEW t, NEW D
  PROVE  Commit(t, Deletes(D)) = {q \in t : \A p \in D : ~Under(p, q)}
<1>1. /\ Deletes(D).del = D /\ Deletes(D).put = {} /\ Deletes(D).add = {} /\ Deletes(D).late = {}
  BY BatchFields
<1> QED BY <1>1 DEF Commit

\* A delete changes nothing at a node apart from what it deletes.
LEMMA DeleteApart ==
  ASSUME NEW t, NEW D, D \in SUBSET Seq(Text), NEW b, b \in Seq(Text), \A p \in D : ~Comparable(p, b)
  PROVE  Same(t, Commit(t, Deletes(D)), b)
<1> SUFFICES ASSUME NEW q \in Seq(Text), Under(b, q) PROVE q \in t <=> q \in Commit(t, Deletes(D))
  BY DEF Same
<1>1. ASSUME NEW p \in D PROVE ~Under(p, q)
  BY <1>1, UnderOrder DEF Comparable
<1> QED BY <1>1, Remaining

\* Paths that differ in a place lie apart.
LEMMA Differ ==
  ASSUME NEW p, p \in Seq(Text), NEW q, q \in Seq(Text), NEW i, i \in 1..Len(p), i \in 1..Len(q), p[i] # q[i]
  PROVE  ~Comparable(p, q)
<1>1. Under(p, q) <=> Len(p) <= Len(q) /\ \A m \in 1..Len(p) : p[m] = q[m]
  BY UnderPrefix
<1>2. Under(q, p) <=> Len(q) <= Len(p) /\ \A m \in 1..Len(q) : q[m] = p[m]
  BY UnderPrefix
<1> QED BY <1>1, <1>2 DEF Comparable

\* Two keys of one editor are as long, and their objects lie apart.
LEMMA KeysApart ==
  ASSUME NEW e \in DOMAIN Ed, Ed[e].keyed, NEW j, IsKey(e, j), NEW k, IsKey(e, k), j # k
  PROVE  ~Comparable(Base(e, j), Base(e, k))
<1>1. j \in Seq(Text) /\ k \in Seq(Text) /\ Ed[e].at \in Text
  BY KeyPath, TypeOfEditor
<1>2. Len(j) = Len(k)
  BY DEF IsKey
<1>3. PICK i \in 1..Len(j) : j[i] # k[i]
  BY <1>1, <1>2
<1> DEFINE p == Base(e, j)
           q == Base(e, k)
<1>4. p \in Seq(Text) /\ Len(p) = Len(j) + 1 /\ p[i + 1] = j[i]
  BY <1>1, Prepended DEF Base
<1>5. q \in Seq(Text) /\ Len(q) = Len(k) + 1 /\ q[i + 1] = k[i]
  BY <1>1, <1>2, Prepended DEF Base
<1> HIDE DEF p, q
<1>6. i + 1 \in 1..Len(p) /\ i + 1 \in 1..Len(q)
  BY <1>1, <1>2, <1>4, <1>5
<1>7. ~Comparable(p, q)
  BY <1>3, <1>4, <1>5, <1>6, Differ
<1> QED BY <1>7 DEF p, q

\* A path is its section and the key below it.
LEMMA KeyBack ==
  ASSUME NEW a, a \in Text, NEW k, k \in Seq(Text), NEW q, q = <<a>> \o k
  PROVE  /\ q \in Seq(Text) /\ Len(q) = Len(k) + 1 /\ q[1] = a /\ \A i \in 1..Len(k) : q[i + 1] = k[i]
         /\ Len(k) >= 1 => SubSeq(q, 2, Len(k) + 1) = k
<1>1. q \in Seq(Text) /\ Len(q) = Len(k) + 1 /\ q[1] = a /\ \A i \in 1..Len(k) : q[i + 1] = k[i]
  BY Prepended
<1>2. ASSUME Len(k) >= 1 PROVE SubSeq(q, 2, Len(k) + 1) = k
  <2> DEFINE n == Len(k) + 1
             j == SubSeq(q, 2, n)
  <2>1. n \in Nat /\ n >= 2 /\ n <= Len(q) /\ n - 1 = Len(k)
    BY <1>1, <1>2
  <2>2. j \in Seq(Text) /\ Len(j) = n - 1 /\ \A i \in 1..(n - 1) : j[i] = q[i + 1]
    BY <1>1, <2>1, Slice
  <2> HIDE DEF j
  <2>3. Len(j) = Len(k) /\ \A i \in 1..Len(k) : j[i] = k[i]
    BY <1>1, <2>1, <2>2
  <2>4. j = k
    BY <2>2, <2>3
  <2> QED BY <2>4 DEF j
<1> QED BY <1>1, <1>2

\* A number has a rule where its node is.
LEMMA RulesAre ==
  ASSUME NEW t, IsConfig(t), NEW section, section \in Text, NEW n
  PROVE  n \in NatRules(t, section) <=> n \in Text /\ NatRule_At(section, n) \in t
<1>0. "nat" \in Text
  BY TextAssumption DEF Keywords
<1>1. ASSUME n \in NatRules(t, section) PROVE n \in Text /\ NatRule_At(section, n) \in t
  <2>1. PICK q \in t : n = q[3] /\ Len(q) >= 3 /\ q[1] = "nat" /\ q[2] = section
    BY <1>1 DEF NatRules
  <2>2. q \in Seq(Text) /\ 3 \in 1..Len(q) /\ 3 \in 2..Len(q)
    BY <2>1 DEF IsConfig, IsPath
  <2>3. n \in Text
    BY <2>1, <2>2, Nth
  <2> DEFINE p == SubSeq(q, 1, 3)
  <2>4. p \in t
    BY <2>2 DEF IsConfig, Rooted, Nodes
  <2>5. p \in Seq(Text) /\ Len(p) = 3 /\ p[1] = q[1] /\ p[2] = q[2] /\ p[3] = q[3]
    BY <2>1, <2>2
  <2> HIDE DEF p
  <2>6. p = <<p[1], p[2], p[3]>>
    BY <2>5, SeqOfThree
  <2>7. p = NatRule_At(section, n)
    BY <2>1, <2>5, <2>6 DEF NatRule_At
  <2> QED BY <2>3, <2>4, <2>7
<1>2. ASSUME n \in Text, NatRule_At(section, n) \in t PROVE n \in NatRules(t, section)
  <2> DEFINE q == NatRule_At(section, n)
  <2>1. Len(q) >= 3 /\ q[1] = "nat" /\ q[2] = section /\ q[3] = n
    BY DEF NatRule_At
  <2> HIDE DEF q
  <2> QED BY <1>2, <2>1 DEF NatRules, q
<1> QED BY <1>1, <1>2

\* Some objects are not listed for all that their nodes are there.
Selective == {"nat_source", "nat_destination", "nat_static", "alias"}

\* A page lists the objects whose nodes are there.
LEMMA ListedKeys ==
  ASSUME NEW e \in DOMAIN Ed, Ed[e].keyed, NEW t, IsConfig(t), IsKnown(e, t), e \notin Selective, NEW k
  PROVE  k \in KeysOf(e, t) <=> IsKey(e, k) /\ Base(e, k) \in t
<1>1. k \in KeysOf(e, t) => IsKey(e, k) /\ Base(e, k) \in t
  BY KeysTyped DEF Selective
<1>2. ASSUME IsKey(e, k), Base(e, k) \in t PROVE k \in KeysOf(e, t)
  <2>0. k \in Seq(Text) /\ Ed[e].at \in Text
    BY <1>2, KeyPath, TypeOfEditor
  <2> DEFINE q == Base(e, k)
  <2>1. q \in t
    BY <1>2
  <2>2. /\ q \in Seq(Text) /\ Len(q) = Len(k) + 1 /\ q[1] = Ed[e].at /\ \A i \in 1..Len(k) : q[i + 1] = k[i]
        /\ Len(k) >= 1 => SubSeq(q, 2, Len(k) + 1) = k
    BY <2>0, KeyBack DEF Base
  <2> HIDE DEF q
  <2>3. CASE e = "static_route"
    <3>1. Len(k) = 3 /\ k[2] \in {"next-hop", "interface", "blackhole"} /\ Ed[e].at = StaticRoute_At
      BY <1>2, <2>3, KeyedEditors DEF IsKey
    <3>2. Len(q) = 4 /\ q[1] = StaticRoute_At /\ q[3] = k[2] /\ SubSeq(q, 2, 4) = k
      BY <2>2, <3>1
    <3> QED BY <2>1, <2>3, <3>1, <3>2 DEF KeysOf, StaticRoute_Keys
  <2>4. CASE e = "vlan"
    <3>1. Len(k) = 3 /\ k[2] = "vif" /\ Ed[e].at = "interfaces_ethernet"
      BY <1>2, <2>4, KeyedEditors DEF IsKey
    <3>2. Len(q) = 4 /\ q[1] = "interfaces_ethernet" /\ q[3] = k[2] /\ SubSeq(q, 2, 4) = k
      BY <2>2, <3>1
    <3> QED BY <2>1, <2>4, <3>1, <3>2 DEF KeysOf, Vlan_Keys
  <2>5. CASE e = "policy"
    <3>1. Len(k) = 2 /\ k[1] = "port-group" /\ Ed[e].at = "firewall_group"
      BY <1>2, <2>5, KeyedEditors DEF IsKey
    <3>2. Len(q) = 3 /\ q[1] = "firewall_group" /\ SubSeq(q, 2, 3) = k
      BY <2>2, <3>1
    <3> QED BY <2>1, <2>5, <3>1, <3>2 DEF KeysOf, Policy_Keys, GroupKeys
  <2>6. CASE e = "dhcp_relay"
    <3>1. Len(k) = 2 /\ Ed[e].at = "service_dhcp-relay"
      BY <1>2, <2>6, KeyedEditors DEF IsKey
    <3>2. Len(q) = 3 /\ q[1] = "service_dhcp-relay" /\ SubSeq(q, 2, 3) = k
      BY <2>2, <3>1
    <3> QED BY <2>1, <2>6, <3>1, <3>2 DEF KeysOf, Relay_Keys
  <2>7. CASE e = "dhcp_subnet"
    <3>1. Len(k) = 3 /\ k[2] = "subnet" /\ Ed[e].at = Dhcp_At
      BY <1>2, <2>7, KeyedEditors DEF IsKey
    <3>2. Len(q) = 4 /\ q[1] = Dhcp_At /\ q[3] = "subnet" /\ SubSeq(q, 2, 4) = k
      BY <2>2, <3>1
    <3>3. k \in Dhcp_Keys(t, <<"subnet">>)
      <4>1. Len(<<"subnet">>) = 1 /\ 2 * 1 + 2 = 4 /\ 1..1 = {1} /\ 2 * 1 + 1 = 3
        OBVIOUS
      <4>2. \A i \in 1..Len(<<"subnet">>) : q[2 * i + 1] = <<"subnet">>[i]
        BY <3>2, <4>1
      <4> QED BY <2>1, <3>2, <4>1, <4>2 DEF Dhcp_Keys
    <3> QED BY <2>7, <3>3 DEF KeysOf
  <2>8. CASE e \in {"dhcp_range", "dhcp_mapping"}
    <3> DEFINE kind == IF e = "dhcp_range" THEN "range" ELSE "static-mapping"
               kinds == <<"subnet", kind>>
    <3>1. Len(k) = 5 /\ k[2] = "subnet" /\ k[4] = kind /\ Ed[e].at = Dhcp_At
      BY <1>2, <2>8, KeyedEditors DEF IsKey
    <3> HIDE DEF kind
    <3>2. Len(q) = 6 /\ q[1] = Dhcp_At /\ q[3] = "subnet" /\ q[5] = kind /\ SubSeq(q, 2, 6) = k
      BY <2>2, <3>1
    <3>3. k \in Dhcp_Keys(t, kinds)
      <4>1. Len(kinds) = 2 /\ kinds[1] = "subnet" /\ kinds[2] = kind
        OBVIOUS
      <4> HIDE DEF kinds
      <4>2. 2 * 2 + 2 = 6 /\ 1..2 = {1, 2} /\ 2 * 1 + 1 = 3 /\ 2 * 2 + 1 = 5
        OBVIOUS
      <4>3. \A i \in 1..Len(kinds) : q[2 * i + 1] = kinds[i]
        BY <3>2, <4>1, <4>2
      <4> QED BY <2>1, <3>2, <4>1, <4>2, <4>3 DEF Dhcp_Keys
    <3>4. e = "dhcp_range" => k \in KeysOf(e, t)
      BY <3>3 DEF KeysOf, kind
    <3>5. e = "dhcp_mapping" => k \in KeysOf(e, t)
      BY <3>3 DEF KeysOf, kind
    <3> QED BY <2>8, <3>4, <3>5
  <2>9. CASE e \notin {"static_route", "vlan", "nat_source", "nat_destination", "nat_static", "alias", "policy",
                       "dhcp_relay", "dhcp_subnet", "dhcp_range", "dhcp_mapping"}
    <3>1. Len(k) = 1
      BY <1>2, <2>9 DEF IsKey
    <3>2. k = <<k[1]>>
      BY <2>0, <3>1, KeyOfOne
    <3>3. q[2] = k[1] /\ q[1] = Ed[e].at
      BY <2>2, <3>1
    <3> QED BY <2>1, <2>9, <3>2, <3>3 DEF KeysOf
  <2> QED BY <2>3, <2>4, <2>5, <2>6, <2>7, <2>8, <2>9 DEF Selective
<1> QED BY <1>1, <1>2

\* What is below a node that is the same is the same: one element, or more.
LEMMA SameUnder ==
  ASSUME NEW t, NEW T, NEW b, b \in Seq(Text), Same(t, T, b)
  PROVE  /\ \A x \in Seq(Text) : Same(t, T, b \o x)
         /\ \A f \in Text : Same(t, T, b \o <<f>>)
         /\ \A f, v \in Text : Same(t, T, b \o <<f, v>>)
<1>1. \A x \in Seq(Text) : Same(t, T, b \o x)
  <2> SUFFICES ASSUME NEW x, x \in Seq(Text) PROVE Same(t, T, b \o x)
    OBVIOUS
  <2> DEFINE c == b \o x
  <2>1. c \in Seq(Text) /\ Len(c) = Len(b) + Len(x) /\ \A i \in 1..Len(b) : c[i] = b[i]
    BY Joined
  <2> HIDE DEF c
  <2>2. Under(b, c) <=> Len(b) <= Len(c) /\ \A i \in 1..Len(b) : b[i] = c[i]
    BY <2>1, UnderPrefix
  <2>3. Under(b, c)
    BY <2>1, <2>2
  <2>4. Same(t, T, c)
    BY <2>1, <2>3, SameBelow
  <2> QED BY <2>4 DEF c
<1>2. \A f \in Text : Same(t, T, b \o <<f>>)
  BY <1>1
<1>3. \A f, v \in Text : Same(t, T, b \o <<f, v>>)
  <2> SUFFICES ASSUME NEW f, f \in Text, NEW v, v \in Text PROVE Same(t, T, b \o <<f, v>>)
    OBVIOUS
  <2>1. <<f, v>> \in Seq(Text)
    OBVIOUS
  <2> QED BY <1>1, <2>1
<1> QED BY <1>1, <1>2, <1>3

\* A marked description reads the same.
LEMMA DecodeSame ==
  ASSUME NEW t, IsConfig(t), NEW T, IsConfig(T), NEW b, IsPath(b), Same(t, T, b), NEW mark, NEW absent
  PROVE  Decode(T, b, mark, absent) = Decode(t, b, mark, absent)
<1> DEFINE d == b \o <<"description">>
           m == Val(t, d)
<1>1. b \in Seq(Text) /\ Len(b) >= 2 /\ "description" \in Text /\ t \in SUBSET Seq(Text) /\ T \in SUBSET Seq(Text)
  BY TextOf, Named, NoneText, ConfigOver
<1>2. d \in Seq(Text) /\ Len(d) >= 2 /\ Same(t, T, d)
  <2>1. d \in Seq(Text) /\ Len(d) = Len(b) + 1 /\ Under(b, d)
    BY <1>1, OneBelow
  <2>2. Same(t, T, d)
    BY <1>1, SameUnder
  <2> QED BY <1>1, <2>1, <2>2
<1> HIDE DEF d
<1>3. m \in Text /\ Val(T, d) = m
  <2>1. /\ Vals(t, d) \subseteq Text /\ Val(t, d) \in Text
        /\ d[Len(d)] \notin Blankable => Vals(t, d) \subseteq Word
    BY <1>2, ValsTyped
  <2>2. At(T, d) = At(t, d) /\ Vals(T, d) = Vals(t, d) /\ Val(T, d) = Val(t, d)
    BY <1>1, <1>2, ReadSame
  <2> QED BY <2>1, <2>2
<1> HIDE DEF m
<1> DEFINE c == b \o <<"description", m>>
<1>4. c \in Seq(Text) /\ Same(t, T, c)
  <2>1. c \in Seq(Text)
    BY <1>1, <1>3, TwoBelow
  <2>2. Same(t, T, c)
    BY <1>1, <1>3, SameUnder
  <2> QED BY <2>1, <2>2
<1> HIDE DEF c
<1>5. Val(T, c) = Val(t, c)
  BY <1>1, <1>4, ReadSame
<1> QED BY <1>3, <1>5 DEF Decode, c, d, m

\* The row of an OSPF area reads the same.
LEMMA OspfAreaSame ==
  ASSUME "ospf_area" \in DOMAIN Ed, NEW t, IsConfig(t), NEW T, IsConfig(T), NEW b, IsPath(b), Same(t, T, b)
  PROVE  OspfArea_Row(T, b) = OspfArea_Row(t, b)
<1> DEFINE r == Row(t, b, OspfArea_Read)
           type == r["area-type"]
           p == NoSummary(b, type)
<1>1. b \in Seq(Text) /\ t \in SUBSET Seq(Text) /\ T \in SUBSET Seq(Text)
  BY TextOf, ConfigOver
<1>2. Row(T, b, OspfArea_Read) = r
  BY <1>1, ReadSame
<1>3. type \in Text
  <2>1. OspfArea_Row(t, b)["area-type"] = type
    <3>1. "area-type" \in DOMAIN r
      BY DEF Row, OspfArea_Read, Schema, Fields, Flat
    <3> HIDE DEF r
    <3>2. OspfArea_Row(t, b) = r @@ "no-summary" :> (p \in t)
      BY DEF OspfArea_Row, r
    <3> HIDE DEF p
    <3> QED BY <3>1, <3>2 DEF @@
  <2>2. IsRow("ospf_area", OspfArea_Row(t, b))
    BY OspfAreaRow
  <2>3. "area-type" \in Ed["ospf_area"].read.leaf
    BY EditorIs DEF OspfArea, Editor, OspfArea_Read, Schema
  <2>4. OspfArea_Row(t, b)["area-type"] \in Text
    BY <2>2, <2>3, RowHas
  <2> QED BY <2>1, <2>4
<1> HIDE DEF r
<1>4. p \in Seq(Text) /\ Under(b, p)
  <2> HIDE DEF type
  <2>1. "area-type" \in Text /\ "no-summary" \in Text
    BY Named, NoneText
  <2> DEFINE x == <<"area-type", type, "no-summary">>
  <2>2. x \in Seq(Text)
    BY <1>3, <2>1
  <2> HIDE DEF x
  <2>3. b \o x \in Seq(Text) /\ Len(b \o x) = Len(b) + Len(x) /\ \A i \in 1..Len(b) : (b \o x)[i] = b[i]
    BY <1>1, <2>2, Joined
  <2> DEFINE c == b \o x
  <2>4. Under(b, c) <=> Len(b) <= Len(c) /\ \A i \in 1..Len(b) : b[i] = c[i]
    BY <1>1, <2>3, UnderPrefix
  <2>5. Len(x) \in Nat /\ Len(b) \in Nat
    BY <1>1, <2>2
  <2>6. Under(b, c)
    BY <2>3, <2>4, <2>5
  <2> QED BY <2>3, <2>6 DEF NoSummary, x
<1> HIDE DEF p
<1>5. p \in T <=> p \in t
  BY <1>4 DEF Same
<1> QED BY <1>2, <1>5 DEF OspfArea_Row, r, p

\* The bridge of an interface reads the same.
LEMMA MembershipSame ==
  ASSUME NEW t, t \in SUBSET Seq(Text), NEW T, T \in SUBSET Seq(Text), Same(t, T, <<"interfaces_bridge">>), NEW name
  PROVE  BridgeMembership(T, name) = BridgeMembership(t, name)
<1> DEFINE I(u) == {r \in u : Len(r) = 4 /\ r = MemberOf(r[2], name)}
<1>1. ASSUME NEW r, r \in Seq(Text), Len(r) = 4, r = MemberOf(r[2], name) PROVE r \in t <=> r \in T
  <2>1. r[1] = "interfaces_bridge"
    <3>1. MemberOf(r[2], name)[1] = "interfaces_bridge"
      BY DEF MemberOf
    <3> QED BY <1>1, <3>1
  <2> DEFINE b == <<"interfaces_bridge">>
  <2>2. b \in Seq(Text) /\ Len(b) = 1 /\ b[1] = "interfaces_bridge"
    <3>1. "interfaces_bridge" \in Text
      BY Named, NoneText
    <3> QED BY <3>1
  <2> HIDE DEF b
  <2>3. Under(b, r) <=> Len(b) <= Len(r) /\ \A i \in 1..Len(b) : b[i] = r[i]
    <3>1. b \in Seq(Text)
      BY <2>2
    <3> HIDE <2>1, <2>2
    <3> QED BY ONLY r \in Seq(Text), <3>1, UnderPrefix
  <2>4. Under(b, r)
    BY <1>1, <2>1, <2>2, <2>3
  <2> QED BY <1>1, <2>4 DEF Same, b
<1>2. I(T) = I(t)
  BY <1>1
<1> DEFINE S(u) == {q[2] : q \in I(u)}
<1> HIDE DEF I
<1>3. S(T) = S(t)
  BY <1>2
<1>4. \A u : BridgeMembership(u, name) = IF S(u) = {} THEN None ELSE CHOOSE b \in S(u) : TRUE
  BY DEF BridgeMembership, S, I
<1> HIDE DEF S
<1> QED BY <1>3, <1>4

\* The row of a NAT rule reads the same.
LEMMA NatRowSame ==
  ASSUME NEW t, t \in SUBSET Seq(Text), NEW T, T \in SUBSET Seq(Text), NEW section, NEW n,
         NatRule_At(section, n) \in Seq(Text), Same(t, T, NatRule_At(section, n))
  PROVE  NatRule_Row(T, section, n) = NatRule_Row(t, section, n)
BY ReadSame DEF NatRule_Row

\* What the row of object k is read from besides the object itself.
SameAround(e, t, T, k) ==
  /\ e = "static_route" => Same(t, T, RouteBase(k) \o <<"description">>)
  /\ e = "vxlan" => Same(t, T, <<"interfaces_bridge">>)
  /\ e = "nat_static" => Same(t, T, NatRule_At("source", k[1])) /\ Same(t, T, NatRule_At("destination", k[1]))

\* A row reads the same when its node, and what it is read from besides, are the same.
LEMMA RowSame ==
  ASSUME NEW e \in DOMAIN Ed, Ed[e].keyed, NEW t, IsConfig(t), NEW T, IsConfig(T), NEW k, IsKey(e, k),
         e # "nat_static" => Same(t, T, Base(e, k)), SameAround(e, t, T, k)
  PROVE  RowOf(e, T, k) = RowOf(e, t, k)
<1> DEFINE b == Base(e, k)
<1>1. IsPath(b) /\ b \in Seq(Text) /\ k \in Seq(Text) /\ t \in SUBSET Seq(Text) /\ T \in SUBSET Seq(Text)
  BY KeyPath, ConfigOver
<1>2. CASE e = "static_route"
  <2> DEFINE d == RouteBase(k) \o <<"description">>
  <2>1. HopPath(k) = b /\ IsPath(RouteBase(k))
    BY <1>2, HopPaths
  <2>2. Same(t, T, d) /\ Same(t, T, b)
    BY <1>2 DEF SameAround
  <2>3. RouteBase(k) \in Seq(Text) /\ "description" \in Text
    BY <2>1, TextOf, Named, NoneText
  <2>4. d \in Seq(Text)
    BY <2>3, OneBelow
  <2> HIDE DEF b, d
  <2>5. At(T, b) = At(t, b)
    BY <1>1, <2>2, ReadSame
  <2>6. Val(T, d) = Val(t, d)
    <3>1. Same(t, T, d) /\ d \in Seq(Text) /\ t \in SUBSET Seq(Text) /\ T \in SUBSET Seq(Text)
      BY <1>1, <2>2, <2>4
    <3>2. /\ At(T, d) = At(t, d) /\ Vals(T, d) = Vals(t, d) /\ Val(T, d) = Val(t, d)
          /\ \A s : Row(T, d, s) = Row(t, d, s)
          /\ d \in t <=> d \in T
      BY ONLY <3>1, ReadSame
    <3> QED BY <3>2
  <2>7. StaticRoute_Row(T, k) = StaticRoute_Row(t, k)
    BY <2>1, <2>5, <2>6 DEF StaticRoute_Row, d
  <2> QED BY <1>2, <2>7 DEF RowOf
<1>3. CASE e = "ospf_area"
  <2>1. OspfArea_Row(T, b) = OspfArea_Row(t, b)
    BY <1>1, <1>3, OspfAreaSame
  <2> QED BY <1>3, <2>1 DEF RowOf
<1>4. CASE e = "vxlan"
  <2>1. Row(T, b, Vxlan_Read) = Row(t, b, Vxlan_Read)
    BY <1>1, <1>4, ReadSame
  <2>2. BridgeMembership(T, b[2]) = BridgeMembership(t, b[2])
    BY <1>1, <1>4, MembershipSame DEF SameAround
  <2>3. Vxlan_Row(T, b) = Vxlan_Row(t, b)
    BY <2>1, <2>2 DEF Vxlan_Row
  <2> QED BY <1>4, <2>3 DEF RowOf
<1>5. CASE e = "nat_static"
  <2>1. k[1] \in Text
    BY <1>1, <1>5, KeyOfOne, StaticNatIs DEF IsKey
  <2>2. NatRule_At("source", k[1]) \in Seq(Text) /\ NatRule_At("destination", k[1]) \in Seq(Text)
    BY <2>1, RulePath
  <2>3. NatRule_Row(T, "source", k[1]) = NatRule_Row(t, "source", k[1])
    BY <1>1, <1>5, <2>2, NatRowSame DEF SameAround
  <2>4. NatRule_Row(T, "destination", k[1]) = NatRule_Row(t, "destination", k[1])
    BY <1>1, <1>5, <2>2, NatRowSame DEF SameAround
  <2>5. StaticNat_Row(T, k[1]) = StaticNat_Row(t, k[1])
    BY <2>3, <2>4 DEF StaticNat_Row
  <2> QED BY <1>5, <2>5 DEF RowOf
<1>6. CASE e \in {"alias", "policy", "zone"}
  <2>1. \A s : Row(T, b, s) = Row(t, b, s)
    BY <1>1, <1>6, ReadSame
  <2>2. \A mark, absent : Decode(T, b, mark, absent) = Decode(t, b, mark, absent)
    BY <1>1, <1>6, DecodeSame
  <2> HIDE DEF b
  <2>3. Alias_Row(T, b) = Alias_Row(t, b) /\ Policy_Row(T, b) = Policy_Row(t, b) /\ Zone_Row(T, b) = Zone_Row(t, b)
    BY <2>1, <2>2 DEF Alias_Row, Policy_Row, Zone_Row
  <2>4. e = "alias" => RowOf(e, T, k) = RowOf(e, t, k)
    BY <2>3 DEF RowOf, b
  <2>5. e = "policy" => RowOf(e, T, k) = RowOf(e, t, k)
    BY <2>3 DEF RowOf, b
  <2>6. e = "zone" => RowOf(e, T, k) = RowOf(e, t, k)
    BY <2>3 DEF RowOf, b
  <2> QED BY <1>6, <2>4, <2>5, <2>6
<1>7. CASE e = "openvpn"
  <2>1. Row(T, b, Openvpn_Read) = Row(t, b, Openvpn_Read)
    BY <1>1, <1>7, ReadSame
  <2> DEFINE m == b \o <<"mode">>
  <2>2. "mode" \in Text
    BY Named, NoneText
  <2>3. m \in Seq(Text) /\ Same(t, T, m)
    BY <1>1, <1>7, <2>2, OneBelow, SameUnder
  <2> HIDE DEF m
  <2>4. Val(T, m) = Val(t, m)
    BY <1>1, <2>3, ReadSame
  <2>5. Openvpn_Row(T, b) = Openvpn_Row(t, b)
    BY <2>1, <2>4 DEF Openvpn_Row, m
  <2> QED BY <1>7, <2>5 DEF RowOf
<1>8. e \notin {"config_sync", "general"}
  <2>1. e = "config_sync" => ~Ed[e].keyed
    BY EditorIs DEF ConfigSync, Panel, Editor
  <2>2. e = "general" => ~Ed[e].keyed
    BY EditorIs DEF General, Settings, Panel, Editor
  <2> QED BY <2>1, <2>2
<1>9. CASE e \notin {"static_route", "ospf_area", "vxlan", "nat_static", "alias", "policy", "zone", "openvpn"}
  <2>1. Row(T, b, Ed[e].read) = Row(t, b, Ed[e].read)
    BY <1>1, <1>9, ReadSame
  <2> QED BY <1>8, <1>9, <2>1 DEF RowOf
<1> QED BY <1>2, <1>3, <1>4, <1>5, <1>6, <1>7, <1>8, <1>9

\* Deleting the object with a key takes away that row and no other.
Deleted(e, t, T, k) ==
  /\ KeysOf(e, T) = KeysOf(e, t) \ {k}
  /\ \A j \in KeysOf(e, T) : RowOf(e, T, j) = RowOf(e, t, j)

\* Deleting an object of an editor that lists every object of its section.
LEMMA PlainDeleted ==
  ASSUME NEW e \in DOMAIN Ed, Ed[e].keyed, e \notin {"static_route"} \cup Selective, NEW t, IsConfig(t), IsKnown(e, t),
         NEW k, IsKey(e, k), NEW T, T = Commit(t, Deletes({Base(e, k)})), IsConfig(T), IsKnown(e, T)
  PROVE  Deleted(e, t, T, k)
<1> DEFINE D == {Base(e, k)}
<1>1. D \in SUBSET Seq(Text) /\ Base(e, k) \in Seq(Text)
  BY KeyPath
<1>2. T = {q \in t : \A p \in D : ~Under(p, q)}
  BY Remaining
<1>3. ASSUME NEW j, IsKey(e, j), j # k PROVE ~Comparable(Base(e, k), Base(e, j)) /\ Same(t, T, Base(e, j))
  <2>1. ~Comparable(Base(e, k), Base(e, j))
    BY <1>3, KeysApart
  <2>2. Base(e, j) \in Seq(Text)
    BY <1>3, KeyPath
  <2> QED BY <1>1, <2>1, <2>2, DeleteApart
<1>4. \A j : j \in KeysOf(e, T) <=> IsKey(e, j) /\ Base(e, j) \in T
  BY ListedKeys
<1>5. \A j : j \in KeysOf(e, t) <=> IsKey(e, j) /\ Base(e, j) \in t
  BY ListedKeys
<1>6. Base(e, k) \notin T
  <2>1. Under(Base(e, k), Base(e, k))
    BY <1>1, UnderOrder
  <2> QED BY <1>2, <2>1
<1>7. \A j : IsKey(e, j) /\ j # k => (Base(e, j) \in T <=> Base(e, j) \in t)
  BY <1>2, <1>3 DEF Comparable
<1>8. KeysOf(e, T) = KeysOf(e, t) \ {k}
  BY <1>4, <1>5, <1>6, <1>7
<1>9. ASSUME NEW j \in KeysOf(e, T) PROVE RowOf(e, T, j) = RowOf(e, t, j)
  <2>1. IsKey(e, j) /\ j # k /\ Same(t, T, Base(e, j))
    BY <1>3, <1>4, <1>8
  <2>2. e = "vxlan" => Same(t, T, <<"interfaces_bridge">>)
    <3> SUFFICES ASSUME e = "vxlan" PROVE Same(t, T, <<"interfaces_bridge">>)
      OBVIOUS
    <3> DEFINE b == <<"interfaces_bridge">>
               q == Base(e, k)
    <3>1. b \in Seq(Text) /\ Len(b) = 1 /\ b[1] = "interfaces_bridge"
      <4>1. "interfaces_bridge" \in Text
        BY Named, NoneText
      <4> QED BY <4>1
    <3>2. q \in Seq(Text) /\ Len(q) >= 2 /\ q[1] = "interfaces_vxlan"
      <4>1. Ed[e].at = "interfaces_vxlan" /\ k \in Seq(Text) /\ Ed[e].at \in Text
        BY VxlanIs, KeyPath, TypeOfEditor
      <4>2. q[1] = Ed[e].at
        BY <4>1, Prepended DEF Base
      <4> QED BY <4>1, <4>2, KeyPath
    <3> HIDE DEF b, q
    <3>3. 1 \in 1..Len(q) /\ 1 \in 1..Len(b) /\ q[1] # b[1]
      BY <3>1, <3>2
    <3>4. ~Comparable(q, b)
      BY <3>1, <3>2, <3>3, Differ
    <3>5. Same(t, Commit(t, Deletes(D)), b)
      BY <1>1, <3>1, <3>4, DeleteApart DEF q
    <3> QED BY <3>5 DEF b
  <2>3. SameAround(e, t, T, j)
    BY <2>2 DEF SameAround, Selective
  <2> QED BY <2>1, <2>3, RowSame
<1> QED BY <1>8, <1>9 DEF Deleted

\* The key of an object is what its path has below the section.
LEMMA KeyOfBase ==
  ASSUME NEW e \in DOMAIN Ed, NEW k, IsKey(e, k)
  PROVE  /\ Base(e, k) \in Seq(Text) /\ Len(Base(e, k)) = Len(k) + 1 /\ Base(e, k)[1] = Ed[e].at
         /\ Len(k) >= 1 => SubSeq(Base(e, k), 2, Len(k) + 1) = k
<1>1. k \in Seq(Text) /\ Ed[e].at \in Text
  BY KeyPath, TypeOfEditor
<1> DEFINE q == Base(e, k)
<1>2. /\ q \in Seq(Text) /\ Len(q) = Len(k) + 1 /\ q[1] = Ed[e].at
      /\ Len(k) >= 1 => SubSeq(q, 2, Len(k) + 1) = k
  BY <1>1, KeyBack DEF Base
<1> QED BY <1>2

\* The groups that are listed as aliases.
LEMMA AliasKeysAre ==
  ASSUME "alias" \in DOMAIN Ed, NEW t, IsConfig(t), NEW k
  PROVE  k \in KeysOf("alias", t)
           <=> IsKey("alias", k) /\ Base("alias", k) \in t /\ Val(t, Base("alias", k) \o <<"description">>) # "auto"
<1>1. Ed["alias"].keyed /\ Ed["alias"].at = "firewall_group" /\ IsKnown("alias", t)
  BY KeyedEditors DEF IsKnown
<1>2. k \in KeysOf("alias", t) <=> k \in GroupKeys(t) /\ k[1] # "port-group" /\ Val(t, Base("alias", k) \o <<"description">>) # "auto"
  BY <1>1 DEF KeysOf, Alias_Keys, Base
<1>3. k \in KeysOf("alias", t) => IsKey("alias", k) /\ Base("alias", k) \in t
  BY <1>1, KeysTyped
<1>4. ASSUME IsKey("alias", k), Base("alias", k) \in t PROVE k \in GroupKeys(t) /\ k[1] # "port-group"
  <2> DEFINE q == Base("alias", k)
  <2>1. Len(k) = 2 /\ k[1] # "port-group" /\ k \in Seq(Text)
    BY <1>1, <1>4 DEF IsKey
  <2>2. /\ q \in Seq(Text) /\ Len(q) = Len(k) + 1 /\ q[1] = Ed["alias"].at
        /\ Len(k) >= 1 => SubSeq(q, 2, Len(k) + 1) = k
    BY <1>1, <1>4, KeyOfBase
  <2>3. q \in t
    BY <1>4
  <2> HIDE DEF q
  <2>5. Len(q) = 3 /\ q[1] = "firewall_group" /\ SubSeq(q, 2, 3) = k
    BY <1>1, <2>1, <2>2
  <2> QED BY <2>1, <2>3, <2>5 DEF GroupKeys
<1> QED BY <1>2, <1>3, <1>4

\* Deleting an alias.
LEMMA AliasDeleted ==
  ASSUME NEW e \in DOMAIN Ed, e = "alias", NEW t, IsConfig(t),
         NEW k, IsKey(e, k), NEW T, T = Commit(t, Deletes({Base(e, k)})), IsConfig(T)
  PROVE  Deleted(e, t, T, k)
<1> DEFINE D == {Base(e, k)}
           mark(j) == Base(e, j) \o <<"description">>
<1>0. Ed[e].keyed
  BY KeyedEditors
<1>1. D \in SUBSET Seq(Text) /\ Base(e, k) \in Seq(Text)
  BY KeyPath
<1>2. T = {q \in t : \A p \in D : ~Under(p, q)}
  BY Remaining
<1>3. ASSUME NEW j, IsKey(e, j), j # k PROVE ~Comparable(Base(e, k), Base(e, j)) /\ Same(t, T, Base(e, j))
  <2>1. ~Comparable(Base(e, k), Base(e, j))
    BY <1>0, <1>3, KeysApart
  <2>2. Base(e, j) \in Seq(Text)
    BY <1>3, KeyPath
  <2> QED BY <1>1, <2>1, <2>2, DeleteApart
<1>4. \A j : j \in KeysOf(e, T) <=> IsKey(e, j) /\ Base(e, j) \in T /\ Val(T, mark(j)) # "auto"
  BY AliasKeysAre
<1>5. \A j : j \in KeysOf(e, t) <=> IsKey(e, j) /\ Base(e, j) \in t /\ Val(t, mark(j)) # "auto"
  BY AliasKeysAre
<1>6. Base(e, k) \notin T
  <2>1. Under(Base(e, k), Base(e, k))
    BY <1>1, UnderOrder
  <2> QED BY <1>2, <2>1
<1>7. \A j : IsKey(e, j) /\ j # k => (Base(e, j) \in T <=> Base(e, j) \in t)
  BY <1>2, <1>3 DEF Comparable
<1>8. ASSUME NEW j, IsKey(e, j), j # k PROVE Val(T, mark(j)) = Val(t, mark(j))
  <2> DEFINE b == Base(e, j)
             d == mark(j)
  <2>1. b \in Seq(Text) /\ "description" \in Text /\ Same(t, T, b)
    BY <1>3, <1>8, KeyPath, Named, NoneText
  <2>2. d \in Seq(Text) /\ Same(t, T, d)
    BY <2>1, OneBelow, SameUnder
  <2>3. t \in SUBSET Seq(Text) /\ T \in SUBSET Seq(Text)
    BY ConfigOver
  <2> HIDE DEF d
  <2>4. /\ At(T, d) = At(t, d) /\ Vals(T, d) = Vals(t, d) /\ Val(T, d) = Val(t, d)
        /\ \A s : Row(T, d, s) = Row(t, d, s)
        /\ d \in t <=> d \in T
    BY ONLY <2>2, <2>3, ReadSame
  <2> QED BY <2>4 DEF d
<1> HIDE DEF mark
<1>9. KeysOf(e, T) = KeysOf(e, t) \ {k}
  BY <1>4, <1>5, <1>6, <1>7, <1>8
<1>10. ASSUME NEW j \in KeysOf(e, T) PROVE RowOf(e, T, j) = RowOf(e, t, j)
  <2>1. IsKey(e, j) /\ j # k /\ Same(t, T, Base(e, j))
    BY <1>3, <1>4, <1>9
  <2>2. SameAround(e, t, T, j)
    BY DEF SameAround
  <2> QED BY <1>0, <2>1, <2>2, RowSame
<1> QED BY <1>9, <1>10 DEF Deleted

\* Deleting the rules of a number, or one of them, leaves the rules of the other
\* numbers, and of the other section, and splits the same mappings but for it.
LEMMA RuleDeleted ==
  ASSUME NEW t, IsConfig(t), NEW n, n \in Text, NEW D, D \subseteq {NatRule_At("source", n), NatRule_At("destination", n)}, D # {},
         NEW T, T = Commit(t, Deletes(D)), IsConfig(T)
  PROVE  /\ \A s \in {"source", "destination"} : \A m \in Text :
              NatRule_At(s, m) \notin D => Same(t, T, NatRule_At(s, m)) /\ (m \in NatRules(T, s) <=> m \in NatRules(t, s))
         /\ \A s \in {"source", "destination"} : NatRule_At(s, n) \in D => n \notin NatRules(T, s)
         /\ SplitStatic(T) = SplitStatic(t) \ {n}
<1>1. "nat" \in Text /\ "source" \in Text /\ "destination" \in Text
  <2>1. {"nat", "source", "destination"} \subseteq Keywords
    BY DEF Keywords
  <2> QED BY <2>1, TextAssumption
<1>2. \A s \in {"source", "destination"} : \A m \in Text :
        LET q == NatRule_At(s, m) IN q \in Seq(Text) /\ Len(q) = 3 /\ q[1] = "nat" /\ q[2] = s /\ q[3] = m
  BY <1>1 DEF NatRule_At
<1>3. D \in SUBSET Seq(Text) /\ T = {q \in t : \A p \in D : ~Under(p, q)}
  <2>1. NatRule_At("source", n) \in Seq(Text) /\ NatRule_At("destination", n) \in Seq(Text)
    BY <1>2
  <2>2. D \in SUBSET Seq(Text)
    BY <2>1
  <2>3. Commit(t, Deletes(D)) = {q \in t : \A p \in D : ~Under(p, q)}
    BY ONLY Remaining
  <2> QED BY <2>2, <2>3
<1>4. ASSUME NEW s \in {"source", "destination"}, NEW m \in Text, NatRule_At(s, m) \notin D
      PROVE  Same(t, T, NatRule_At(s, m)) /\ (m \in NatRules(T, s) <=> m \in NatRules(t, s))
  <2> DEFINE b == NatRule_At(s, m)
  <2>1. b \in Seq(Text) /\ Len(b) = 3 /\ b[2] = s /\ b[3] = m
    BY <1>2
  <2>2. ASSUME NEW p \in D PROVE ~Comparable(p, b)
    <3>1. p \in Seq(Text) /\ Len(p) = 3 /\ p[3] = n /\ p = NatRule_At(p[2], n)
      <4>1. p = NatRule_At("source", n) \/ p = NatRule_At("destination", n)
        BY <2>2
      <4>2. CASE p = NatRule_At("source", n)
        <5>1. p \in Seq(Text) /\ Len(p) = 3 /\ p[3] = n /\ p[2] = "source"
          BY <1>2, <4>2
        <5> QED BY <4>2, <5>1
      <4>3. CASE p = NatRule_At("destination", n)
        <5>1. p \in Seq(Text) /\ Len(p) = 3 /\ p[3] = n /\ p[2] = "destination"
          BY <1>2, <4>3
        <5> QED BY <4>3, <5>1
      <4> QED BY <4>1, <4>2, <4>3
    <3>2. p[2] # s \/ p[3] # m
      BY <1>4, <3>1
    <3>3. 2 \in 1..Len(p) /\ 2 \in 1..Len(b) /\ 3 \in 1..Len(p) /\ 3 \in 1..Len(b)
      BY <2>1, <3>1
    <3>4. CASE p[2] # s
      <4>1. p[2] # b[2]
        BY <2>1, <3>4
      <4> HIDE DEF b
      <4> QED BY <2>1, <3>1, <3>3, <4>1, Differ
    <3>5. CASE p[3] # m
      <4>1. p[3] # b[3]
        BY <2>1, <3>5
      <4> HIDE DEF b
      <4> QED BY <2>1, <3>1, <3>3, <4>1, Differ
    <3> QED BY <3>2, <3>4, <3>5
  <2> HIDE DEF b
  <2>3. Same(t, T, b)
    BY <1>3, <2>1, <2>2, DeleteApart
  <2>4. b \in t <=> b \in T
    BY <2>1, <2>3, ConfigOver, ReadSame
  <2>5. (m \in NatRules(T, s) <=> m \in Text /\ b \in T) /\ (m \in NatRules(t, s) <=> m \in Text /\ b \in t)
    BY <1>1, RulesAre DEF b
  <2> QED BY <2>3, <2>4, <2>5 DEF b
<1>5. ASSUME NEW s \in {"source", "destination"}, NatRule_At(s, n) \in D PROVE n \notin NatRules(T, s)
  <2>1. Under(NatRule_At(s, n), NatRule_At(s, n))
    BY <1>2, UnderOrder
  <2>2. NatRule_At(s, n) \notin T
    BY <1>3, <1>5, <2>1
  <2> QED BY <1>1, <2>2, RulesAre
<1>6. n \notin SplitStatic(T)
  <2>1. \E s \in {"source", "destination"} : NatRule_At(s, n) \in D
    OBVIOUS
  <2> QED BY <1>5, <2>1 DEF SplitStatic
<1>7. ASSUME NEW m, m # n PROVE m \in SplitStatic(T) <=> m \in SplitStatic(t)
  <2>1. CASE m \notin Text
    BY <1>1, <2>1, RulesAre DEF SplitStatic
  <2>2. CASE m \in Text
    <3>1. \A s \in {"source", "destination"} : NatRule_At(s, m) \notin D
      BY <1>2, <1>7, <2>2
    <3>2. \A s \in {"source", "destination"} : m \in NatRules(T, s) <=> m \in NatRules(t, s)
      BY <1>4, <2>2, <3>1
    <3>3. \A s \in {"source", "destination"} : NatRule_Row(T, s, m) = NatRule_Row(t, s, m)
      <4> SUFFICES ASSUME NEW s \in {"source", "destination"} PROVE NatRule_Row(T, s, m) = NatRule_Row(t, s, m)
        OBVIOUS
      <4>1. NatRule_At(s, m) \in Seq(Text) /\ Same(t, T, NatRule_At(s, m))
        BY <1>2, <1>4, <2>2, <3>1
      <4> QED BY <4>1, ConfigOver, NatRowSame
    <3> QED BY <3>2, <3>3 DEF SplitStatic
  <2> QED BY <2>1, <2>2
<1> QED BY <1>4, <1>5, <1>6, <1>7

\* Deleting a source or a destination rule.
LEMMA NatDeleted ==
  ASSUME NEW e \in DOMAIN Ed, NEW s, (e = "nat_source" /\ s = "source") \/ (e = "nat_destination" /\ s = "destination"),
         NEW t, IsConfig(t), NEW k, IsKey(e, k), NEW T, T = Commit(t, Deletes({Base(e, k)})), IsConfig(T)
  PROVE  Deleted(e, t, T, k)
<1>1. Ed[e].keyed /\ Ed[e].at = "nat" /\ IsKnown(e, t) /\ IsKnown(e, T)
  BY KeyedEditors DEF IsKnown
<1>2. \A j : IsKey(e, j) => j = <<s, j[2]>> /\ j[2] \in Text /\ Base(e, j) = NatRule_At(s, j[2])
  <2> SUFFICES ASSUME NEW j, IsKey(e, j) PROVE j = <<s, j[2]>> /\ j[2] \in Text /\ Base(e, j) = NatRule_At(s, j[2])
    OBVIOUS
  <2> QED BY NatKeyIs DEF Word
<1> DEFINE n == k[2]
           D == {NatRule_At(s, n)}
<1>3. n \in Text /\ T = Commit(t, Deletes(D)) /\ D \subseteq {NatRule_At("source", n), NatRule_At("destination", n)} /\ D # {}
  BY <1>2
<1> HIDE DEF n, D
<1>4. /\ \A z \in {"source", "destination"} : \A m \in Text :
           NatRule_At(z, m) \notin D => Same(t, T, NatRule_At(z, m)) /\ (m \in NatRules(T, z) <=> m \in NatRules(t, z))
      /\ \A z \in {"source", "destination"} : NatRule_At(z, n) \in D => n \notin NatRules(T, z)
      /\ SplitStatic(T) = SplitStatic(t) \ {n}
  BY ONLY <1>3, RuleDeleted, IsConfig(t), IsConfig(T)
<1>5. n \notin NatRules(T, s)
  BY <1>4 DEF D
<1>6. \A m \in Text : m # n => NatRule_At(s, m) \notin D
  BY DEF D, NatRule_At
<1>7. \A m : m # n => (m \in NatRules(T, s) <=> m \in NatRules(t, s))
  <2>1. \A m : m \in NatRules(T, s) \cup NatRules(t, s) => m \in Text
    <3>1. s \in Text
      BY Named, NoneText
    <3> QED BY <3>1, RulesAre
  <2> QED BY <1>4, <1>6, <2>1
<1>8. \A z : KeysOf(e, z) = {<<s, m>> : m \in NatRules(z, s) \ SplitStatic(z)}
  BY DEF KeysOf, NatRule_Keys
<1>9. k = <<s, n>>
  BY <1>2 DEF n
<1>10. \A j : j \in KeysOf(e, T) <=> j \in KeysOf(e, t) /\ j # k
  <2>1. \A m : m \in NatRules(T, s) \ SplitStatic(T) <=> m \in NatRules(t, s) \ SplitStatic(t) /\ m # n
    BY <1>4, <1>5, <1>7
  <2>2. \A m : <<s, m>> = k <=> m = n
    BY <1>9
  <2>3. \A j : j \in KeysOf(e, T) <=> \E m : m \in NatRules(T, s) \ SplitStatic(T) /\ j = <<s, m>>
    BY <1>8
  <2>4. \A j : j \in KeysOf(e, t) <=> \E m : m \in NatRules(t, s) \ SplitStatic(t) /\ j = <<s, m>>
    BY <1>8
  <2> QED BY <2>1, <2>2, <2>3, <2>4
<1>11. ASSUME NEW j \in KeysOf(e, T) PROVE RowOf(e, T, j) = RowOf(e, t, j)
  <2>1. IsKey(e, j) /\ j # k
    BY <1>1, <1>10, KeysTyped
  <2>2. j[2] # n /\ j[2] \in Text
    BY <1>2, <1>9, <2>1
  <2>3. Same(t, T, Base(e, j))
    BY <1>2, <1>4, <1>6, <2>1, <2>2
  <2>4. SameAround(e, t, T, j)
    BY DEF SameAround
  <2> QED BY <1>1, <2>1, <2>3, <2>4, RowSame
<1> QED BY <1>10, <1>11 DEF Deleted

\* Deleting a 1-to-1 mapping.
LEMMA StaticNatDeleted ==
  ASSUME NEW e \in DOMAIN Ed, e = "nat_static", NEW t, IsConfig(t), NEW k, IsKey(e, k),
         NEW T, T = Commit(t, Deletes({NatRule_At("source", k[1]), NatRule_At("destination", k[1])})), IsConfig(T)
  PROVE  Deleted(e, t, T, k)
<1>1. Ed[e].keyed /\ IsKnown(e, t) /\ IsKnown(e, T)
  BY KeyedEditors DEF IsKnown
<1>2. \A j : IsKey(e, j) => j = <<j[1]>> /\ j[1] \in Text
  <2> SUFFICES ASSUME NEW j, IsKey(e, j) PROVE j = <<j[1]>> /\ j[1] \in Text
    OBVIOUS
  <2>1. j \in Seq(Text) /\ Len(j) = 1
    BY <1>1 DEF IsKey
  <2> QED BY <2>1
<1> DEFINE n == k[1]
           D == {NatRule_At("source", n), NatRule_At("destination", n)}
<1>3. n \in Text /\ T = Commit(t, Deletes(D)) /\ D \subseteq {NatRule_At("source", n), NatRule_At("destination", n)} /\ D # {}
  BY <1>2
<1> HIDE DEF n, D
<1>4. /\ \A z \in {"source", "destination"} : \A m \in Text :
           NatRule_At(z, m) \notin D => Same(t, T, NatRule_At(z, m)) /\ (m \in NatRules(T, z) <=> m \in NatRules(t, z))
      /\ \A z \in {"source", "destination"} : NatRule_At(z, n) \in D => n \notin NatRules(T, z)
      /\ SplitStatic(T) = SplitStatic(t) \ {n}
  BY ONLY <1>3, RuleDeleted, IsConfig(t), IsConfig(T)
<1>5. k = <<n>>
  BY <1>2 DEF n
<1>6. \A z : KeysOf(e, z) = {<<m>> : m \in SplitStatic(z)}
  BY DEF KeysOf, StaticNat_Keys
<1>7. \A j : j \in KeysOf(e, T) <=> j \in KeysOf(e, t) /\ j # k
  <2>1. \A m : <<m>> = k <=> m = n
    BY <1>5
  <2>2. \A j : j \in KeysOf(e, T) <=> \E m : m \in SplitStatic(T) /\ j = <<m>>
    BY <1>6
  <2>3. \A j : j \in KeysOf(e, t) <=> \E m : m \in SplitStatic(t) /\ j = <<m>>
    BY <1>6
  <2> QED BY <1>4, <2>1, <2>2, <2>3
<1>8. ASSUME NEW j \in KeysOf(e, T) PROVE RowOf(e, T, j) = RowOf(e, t, j)
  <2>1. IsKey(e, j) /\ j # k
    BY <1>1, <1>7, KeysTyped
  <2>2. j[1] # n /\ j[1] \in Text
    BY <1>2, <1>5, <2>1
  <2>3. \A z \in {"source", "destination"} : NatRule_At(z, j[1]) \notin D
    BY <2>2 DEF D, NatRule_At
  <2>4. SameAround(e, t, T, j)
    BY <1>4, <2>2, <2>3 DEF SameAround
  <2> QED BY <1>1, <2>1, <2>4, RowSame
<1> QED BY <1>7, <1>8 DEF Deleted

\* Deleting a next-hop, from a page that is up to date: it takes its route along
\* only when no other next-hop is below it.
LEMMA RouteDeleted ==
  ASSUME NEW e \in DOMAIN Ed, e = "static_route", NEW t, IsConfig(t), NEW k \in KeysOf(e, t),
         NEW T, T = Commit(t, Deletes({StaticDrop(t, k)})), IsConfig(T)
  PROVE  Deleted(e, t, T, k)
<1>1. Ed[e].keyed /\ IsKnown(e, t) /\ IsKnown(e, T) /\ e \notin Selective /\ Ed[e].at = StaticRoute_At
  BY KeyedEditors DEF IsKnown, Selective, StaticRoute_At
<1>2. IsKey(e, k)
  BY <1>1, KeysTyped
<1> DEFINE X == StaticDrop(t, k)
           D == {X}
           R(j) == RouteBase(j)
           d(j) == R(j) \o <<"description">>
<1>3. \A j : IsKey(e, j) =>
        /\ Base(e, j) \in Seq(Text) /\ Len(Base(e, j)) = 4 /\ Base(e, j)[2] = j[1] /\ Base(e, j)[3] = j[2]
        /\ j[2] \in {"next-hop", "interface", "blackhole"} /\ HopPath(j) = Base(e, j)
        /\ R(j) \in Seq(Text) /\ Len(R(j)) = 2 /\ R(j)[2] = j[1] /\ R(j)[1] = Base(e, j)[1] /\ Under(R(j), Base(e, j))
        /\ d(j) \in Seq(Text) /\ Len(d(j)) = 3 /\ d(j)[2] = j[1] /\ d(j)[3] = "description"
  <2> SUFFICES ASSUME NEW j, IsKey(e, j)
               PROVE  /\ Base(e, j) \in Seq(Text) /\ Len(Base(e, j)) = 4 /\ Base(e, j)[2] = j[1] /\ Base(e, j)[3] = j[2]
                      /\ j[2] \in {"next-hop", "interface", "blackhole"} /\ HopPath(j) = Base(e, j)
                      /\ R(j) \in Seq(Text) /\ Len(R(j)) = 2 /\ R(j)[2] = j[1] /\ R(j)[1] = Base(e, j)[1] /\ Under(R(j), Base(e, j))
                      /\ d(j) \in Seq(Text) /\ Len(d(j)) = 3 /\ d(j)[2] = j[1] /\ d(j)[3] = "description"
    OBVIOUS
  <2> DEFINE b == Base(e, j)
  <2>1. j \in Seq(Text) /\ Len(j) = 3 /\ j[2] \in {"next-hop", "interface", "blackhole"}
    BY <1>1 DEF IsKey
  <2>2. Ed[e].at \in Text /\ "description" \in Text /\ j[1] \in Text
    <3>1. j[1] \in Text
      BY <2>1
    <3>2. Ed[e].at \in Text
      BY TypeOfEditor
    <3>3. "description" \in Text
      BY Named, NoneText
    <3> QED BY <3>1, <3>2, <3>3
  <2>3. b \in Seq(Text) /\ Len(b) = 4 /\ b[1] = Ed[e].at /\ b[2] = j[1] /\ b[3] = j[2]
    <3>1. b = <<Ed[e].at>> \o j
      BY DEF Base
    <3>2. /\ b \in Seq(Text) /\ Len(b) = Len(j) + 1 /\ b[1] = Ed[e].at /\ \A i \in 1..Len(j) : b[i + 1] = j[i]
          /\ Len(j) >= 1 => SubSeq(b, 2, Len(j) + 1) = j
      BY ONLY <2>1, <2>2, <3>1, KeyBack
    <3> HIDE DEF b
    <3> QED BY <2>1, <3>2
  <2>4. HopPath(j) = b
    BY <1>1 DEF Base, HopPath
  <2>5. R(j) = <<Ed[e].at, j[1]>>
    BY <1>1 DEF RouteBase
  <2>6. R(j) \in Seq(Text) /\ Len(R(j)) = 2 /\ R(j)[1] = Ed[e].at /\ R(j)[2] = j[1]
    BY <2>2, <2>5
  <2>7. d(j) \in Seq(Text) /\ Len(d(j)) = 3 /\ d(j)[2] = j[1] /\ d(j)[3] = "description"
    BY <2>2, <2>5
  <2> DEFINE r == R(j)
  <2>8. Under(R(j), b)
    <3>1. r \in Seq(Text) /\ Len(r) = 2 /\ r[1] = b[1] /\ r[2] = b[2]
      BY <2>3, <2>6
    <3>2. b \in Seq(Text) /\ Len(b) = 4
      BY <2>3
    <3> HIDE DEF r, b
    <3>3. Under(r, b) <=> Len(r) <= Len(b) /\ \A i \in 1..Len(r) : r[i] = b[i]
      BY <3>1, <3>2, UnderPrefix
    <3>4. \A i \in 1..2 : r[i] = b[i]
      BY <3>1
    <3>5. Under(r, b)
      BY <3>1, <3>2, <3>3, <3>4
    <3> QED BY <3>5 DEF r
  <2> QED BY <2>1, <2>3, <2>4, <2>6, <2>7, <2>8
<1> HIDE DEF R, d
<1>4. \A j : j \in KeysOf(e, T) <=> IsKey(e, j) /\ Base(e, j) \in T
  BY <1>1, ListedKeys
<1>5. \A j : j \in KeysOf(e, t) <=> IsKey(e, j) /\ Base(e, j) \in t
  BY <1>1, ListedKeys
<1>6. KeysOf(e, t) = StaticRoute_Keys(t)
  BY DEF KeysOf
<1>7. X \in Seq(Text) /\ Under(X, Base(e, k))
  <2>1. X = R(k) \/ X = Base(e, k)
    BY <1>2, <1>3 DEF StaticDrop, R
  <2>2. Under(Base(e, k), Base(e, k))
    BY <1>2, <1>3, UnderOrder
  <2> QED BY <1>2, <1>3, <2>1, <2>2
<1>8. ASSUME NEW j \in KeysOf(e, t), j # k
      PROVE  ~Comparable(X, Base(e, j)) /\ ~Comparable(X, d(j))
  <2>0. IsKey(e, j)
    BY <1>5
  <2> DEFINE b == Base(e, j)
             q == d(j)
  <2>1. b \in Seq(Text) /\ Len(b) = 4 /\ b[2] = j[1] /\ q \in Seq(Text) /\ Len(q) = 3 /\ q[2] = j[1] /\ q[3] = "description"
    BY <1>3, <2>0
  <2>2. CASE Siblings(t, k) = {}
    <3>1. X = R(k)
      BY <2>2 DEF StaticDrop, R
    <3>2. j[1] # k[1]
      BY <1>6, <1>8, <2>2 DEF Siblings
    <3>3. X \in Seq(Text) /\ Len(X) = 2 /\ X[2] = k[1]
      BY <1>2, <1>3, <3>1
    <3> HIDE DEF X, b, q
    <3>4. 2 \in 1..Len(X) /\ 2 \in 1..Len(b) /\ 2 \in 1..Len(q) /\ X[2] # b[2] /\ X[2] # q[2]
      BY <2>1, <3>2, <3>3
    <3>5. ~Comparable(X, b)
      BY <2>1, <3>3, <3>4, Differ
    <3>6. ~Comparable(X, q)
      BY <2>1, <3>3, <3>4, Differ
    <3> QED BY <3>5, <3>6 DEF b, q
  <2>3. CASE Siblings(t, k) # {}
    <3>1. X = Base(e, k)
      BY <1>2, <1>3, <2>3 DEF StaticDrop
    <3>2. ~Comparable(X, b)
      BY <1>1, <1>2, <1>8, <2>0, <3>1, KeysApart
    <3>3. X \in Seq(Text) /\ Len(X) = 4 /\ X[3] \in {"next-hop", "interface", "blackhole"}
      BY <1>2, <1>3, <3>1
    <3> HIDE DEF X, b, q
    <3>4. 3 \in 1..Len(X) /\ 3 \in 1..Len(q) /\ X[3] # q[3]
      BY <2>1, <3>3
    <3>5. ~Comparable(X, q)
      BY <2>1, <3>3, <3>4, Differ
    <3> QED BY <3>2, <3>5 DEF b, q
  <2> QED BY <2>2, <2>3
<1> HIDE DEF X
<1>9. D \in SUBSET Seq(Text) /\ T = {q \in t : \A p \in D : ~Under(p, q)}
  BY <1>7, Remaining DEF X
<1>10. ASSUME NEW j \in KeysOf(e, t), j # k PROVE Same(t, T, Base(e, j)) /\ Same(t, T, d(j)) /\ Base(e, j) \in T
  <2>0. IsKey(e, j) /\ Base(e, j) \in t
    BY <1>5
  <2> DEFINE b == Base(e, j)
             q == d(j)
  <2>1. b \in Seq(Text) /\ q \in Seq(Text)
    BY <1>3, <2>0
  <2>2. \A p \in D : ~Comparable(p, b) /\ ~Comparable(p, q)
    BY <1>8, <1>10
  <2>3. T = Commit(t, Deletes(D))
    BY DEF X
  <2> HIDE DEF b, q, D
  <2>4. Same(t, T, b)
    BY <1>9, <2>1, <2>2, <2>3, DeleteApart
  <2>5. Same(t, T, q)
    BY <1>9, <2>1, <2>2, <2>3, DeleteApart
  <2>6. b \in t <=> b \in T
    <3>1. b \in Seq(Text) /\ Under(b, b)
      BY <2>1, UnderOrder
    <3> QED BY <2>4, <3>1 DEF Same
  <2> QED BY <2>0, <2>4, <2>5, <2>6 DEF b, q
<1>11. Base(e, k) \notin T
  BY <1>7, <1>9
<1>12. T \subseteq t
  BY <1>9
<1>13. \A j : j \in KeysOf(e, T) <=> j \in KeysOf(e, t) /\ j # k
  BY <1>4, <1>5, <1>10, <1>11, <1>12
<1>14. ASSUME NEW j \in KeysOf(e, T) PROVE RowOf(e, T, j) = RowOf(e, t, j)
  <2>1. IsKey(e, j) /\ Same(t, T, Base(e, j)) /\ Same(t, T, d(j))
    BY <1>4, <1>10, <1>13
  <2>2. SameAround(e, t, T, j)
    BY <2>1 DEF SameAround, d, R
  <2> QED BY <1>1, <2>1, <2>2, RowSame
<1> QED BY <1>13, <1>14 DEF Deleted

\* A delete from a page takes one row away.
LEMMA RowDeleted ==
  ASSUME NEW e \in DOMAIN Ed, Ed[e].keyed, NEW t, IsConfig(t), IsKnown(e, t), NEW p, IsConfig(p), IsKnown(e, p),
         NEW k \in KeysOf(e, p), e = "static_route" => p = t
  PROVE  Deleted(e, t, Commit(t, DeleteCommands(e, p, k)), k)
<1> DEFINE T == Commit(t, DeleteCommands(e, p, k))
<1>1. IsKey(e, k)
  BY KeysTyped
<1>2. IsConfig(T) /\ IsKnown(e, T)
  BY <1>1, DeleteKnown
<1>3. CASE e = "static_route"
  <2>1. T = Commit(t, Deletes({StaticDrop(t, k)}))
    BY <1>3 DEF DeleteCommands
  <2> HIDE DEF T
  <2>2. Deleted(e, t, T, k)
    BY <1>2, <1>3, <2>1, RouteDeleted
  <2> QED BY <2>2 DEF T
<1>4. CASE e = "nat_static"
  <2>1. T = Commit(t, Deletes({NatRule_At("source", k[1]), NatRule_At("destination", k[1])}))
    BY <1>4 DEF DeleteCommands
  <2> HIDE DEF T
  <2>2. Deleted(e, t, T, k)
    BY <1>1, <1>2, <1>4, <2>1, StaticNatDeleted
  <2> QED BY <2>2 DEF T
<1>5. CASE e \notin {"static_route", "nat_static"}
  <2>1. T = Commit(t, Deletes({Base(e, k)}))
    BY <1>5 DEF DeleteCommands
  <2> HIDE DEF T
  <2>2. CASE e \in {"nat_source", "nat_destination"}
    <3>1. PICK s : (e = "nat_source" /\ s = "source") \/ (e = "nat_destination" /\ s = "destination")
      BY <2>2
    <3>2. Deleted(e, t, T, k)
      BY <1>1, <1>2, <2>1, <3>1, NatDeleted
    <3> QED BY <3>2 DEF T
  <2>3. CASE e = "alias"
    <3>1. Deleted(e, t, T, k)
      BY <1>1, <1>2, <2>1, <2>3, AliasDeleted
    <3> QED BY <3>1 DEF T
  <2>4. CASE e \notin Selective
    <3>1. e \notin {"static_route"} \cup Selective
      BY <1>5, <2>4
    <3>2. Deleted(e, t, T, k)
      BY <1>1, <1>2, <2>1, <3>1, PlainDeleted
    <3> QED BY <3>2 DEF T
  <2> QED BY <1>5, <2>2, <2>3, <2>4 DEF Selective
<1> QED BY <1>3, <1>4, <1>5

\* DeletesOneRow: a delete takes one row away and leaves the others as they are,
\* for all editors, and for static routes from a page that is up to date.
THEOREM DeletesOneRowHolds == Spec => DeletesOneRow
<1>1. TypeOK /\ [Next]_vars =>
        [toast' = "deleted" /\ (page = tree \/ ed # "static_route") =>
           \E k \in KeysOf(ed, page) :
             /\ KeysOf(ed, tree') = KeysOf(ed, tree) \ {k}
             /\ \A j \in KeysOf(ed, tree') : RowOf(ed, tree', j) = RowOf(ed, tree, j)]_vars
  <2> SUFFICES ASSUME TypeOK, Next, toast' = "deleted", page = tree \/ ed # "static_route"
               PROVE  \E k \in KeysOf(ed, page) :
                        /\ KeysOf(ed, tree') = KeysOf(ed, tree) \ {k}
                        /\ \A j \in KeysOf(ed, tree') : RowOf(ed, tree', j) = RowOf(ed, tree, j)
    OBVIOUS
  <2>1. Delete
    BY DEF Next, Load, LoadFails, Open, OpenNew, Edit, Cancel, Save, SaveRefused, Other
  <2>2. PICK k \in KeysOf(ed, page) : tree' = Commit(tree, DeleteCommands(ed, page, k))
    BY <2>1 DEF Delete
  <2>3. /\ ed \in DOMAIN Ed /\ Ed[ed].keyed /\ IsConfig(tree) /\ IsConfig(page)
        /\ IsKnown(ed, tree) /\ IsKnown(ed, page)
    BY <2>1 DEF Delete, TypeOK
  <2>4. Deleted(ed, tree, tree', k)
    BY <2>2, <2>3, RowDeleted
  <2> QED BY <2>4 DEF Deleted
<1> QED BY <1>1, TypeCorrect, PTL DEF Spec, DeletesOneRow
=============================================================================
