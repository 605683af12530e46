------------------------------ MODULE Editors -------------------------------
(***************************************************************************)
(* Every editor of the console under one interface: the rows of a section, *)
(* the row of an object, what a form lets through, and the commands a save *)
(* or a delete sends.  An object is named by its key, the path elements    *)
(* after the section; <<>> is the key of an object that is being created.  *)
(***************************************************************************)
EXTENDS RoutingEditors, HaEditors, InterfaceEditors, NatEditors, FirewallEditors, ServiceEditors,
        SystemEditors, VpnEditors

AllPages ==
  RoutingPages @@ HaPages @@ InterfacePages @@ Nat44Page @@ FirewallPages @@ ServicePages @@ SystemPages @@ VpnPages

CONSTANT Ed   \* the editors under study: AllPages, or some of them
ASSUME EdAssumption == \A e \in DOMAIN Ed : e \in DOMAIN AllPages /\ Ed[e] = AllPages[e]

Base(e, k) == <<Ed[e].at>> \o k

\* The rows a page lists.
KeysOf(e, t) ==
  CASE e = "static_route" -> StaticRoute_Keys(t)
    [] e = "vlan" -> Vlan_Keys(t)
    [] e = "nat_source" -> NatRule_Keys(t, "source")
    [] e = "nat_destination" -> NatRule_Keys(t, "destination")
    [] e = "nat_static" -> StaticNat_Keys(t)
    [] e = "alias" -> Alias_Keys(t)
    [] e = "policy" -> Policy_Keys(t)
    [] e = "dhcp_relay" -> Relay_Keys(t)
    [] e = "dhcp_subnet" -> Dhcp_Keys(t, <<"subnet">>)
    [] e = "dhcp_range" -> Dhcp_Keys(t, <<"subnet", "range">>)
    [] e = "dhcp_mapping" -> Dhcp_Keys(t, <<"subnet", "static-mapping">>)
    [] OTHER -> {<<q[2]>> : q \in {r \in t : r[1] = Ed[e].at}}

\* The row of object k.
RowOf(e, t, k) ==
  CASE e = "static_route" -> StaticRoute_Row(t, k)
    [] e = "ospf_area" -> OspfArea_Row(t, Base(e, k))
    [] e = "config_sync" -> ConfigSync_Row(t, Base(e, k))
    [] e = "vxlan" -> Vxlan_Row(t, Base(e, k))
    [] e = "nat_static" -> StaticNat_Row(t, k[1])
    [] e = "alias" -> Alias_Row(t, Base(e, k))
    [] e = "policy" -> Policy_Row(t, Base(e, k))
    [] e = "zone" -> Zone_Row(t, Base(e, k))
    [] e = "general" -> General_Row(t, Base(e, k))
    [] e = "openvpn" -> Openvpn_Row(t, Base(e, k))
    [] OTHER -> Row(t, Base(e, k), Ed[e].read)

\* The entries the form of an existing object starts from.
Entries(e, r) ==
  CASE e = "vxlan" -> Vxlan_Seed(r)
    [] e = "nat_source" -> NatRule_Seed("source", r)
    [] e = "nat_destination" -> NatRule_Seed("destination", r)
    [] e = "zone" -> Zone_Seed(r)
    [] e = "ipsec_peer" -> IpsecPeer_Seed(r)
    [] OTHER -> r

\* The row a form sends for the entries u, in {}: validation refuses them.
\* k is the object being edited, `to` the key it is saved under, p the page.
Submit(e, p, k, to, seed, u) ==
  IF k # to /\ to \in KeysOf(e, p) THEN {}
  ELSE CASE e = "static_route" -> StaticRoute_Form(p, k, to, u)
    [] e = "bgp_neighbor" -> BgpPeer_Form(k, seed, u)
    [] e = "ospf_area" -> OspfArea_Form(u)
    [] e = "prefix-list" -> PrefixList_Form(u)
    [] e = "route-map" -> RouteMap_Form(u)
    [] e = "vrrp_sync-group" -> VrrpSync_Form(u)
    [] e = "config_sync" -> ConfigSync_Form(u)
    [] e = "ethernet" -> Ethernet_Form(u)
    [] e = "vlan" -> Vlan_Form(p, k, to, u)
    [] e = "bond" -> Bond_Form(p, k, seed, u)
    [] e = "bridge" -> Bridge_Form(p, k, seed, u)
    [] e = "vxlan" -> Vxlan_Form(u)
    [] e \in {"nat_source", "nat_destination"} -> NatRule_Form(p, to[1], IF k = <<>> THEN None ELSE k[2], to[2], u)
    [] e = "nat_static" -> StaticNat_Form(p, IF k = <<>> THEN None ELSE k[1], to[1], u)
    [] e = "alias" -> Alias_Form(p, k, to, seed, u)
    [] e = "policy" -> Policy_Form(p, k, to, u)
    [] e = "zone" -> Zone_Form(p, k, to, u)
    [] e = "dhcp_relay" -> Relay_Form(p, to)
    [] e = "dhcp_server" -> Server_Form(k, u)
    [] e = "user" -> User_Form(k, u)
    [] e = "ipsec_peer" -> IpsecPeer_Form(u)
    [] e = "openvpn" -> Openvpn_Form(u)
    [] e = "wireguard" -> Wireguard_Form(u)
    [] e = "l2tp_user" -> L2tpUser_Form(k, u)
    [] e = "l2tp_radius" -> L2tpRadius_Form(k, u)
    [] OTHER -> {r \in {u} : Filled(Ed[e].write, u, Ed[e].need)}

\* The diff of each editor: the commands that take object `to`, at base b with
\* schema s, from the row l to the row u.
Made(e, p, k, to, b, s, isNew, l, u) ==
  CASE e = "static_route" -> StaticRoute_Diff(p, k, to, u)
    [] e = "ospf_area" -> Created(b, isNew, OspfArea_Diff(b, l, u))
    [] e \in {"prefix-list", "route-map"} -> Policy_Diff(b, s, isNew, l, u)
    [] e = "config_sync" -> ConfigSync_Diff(b, l, u)
    [] e = "vxlan" -> Vxlan_Diff(b, isNew, l, u)
    [] e \in {"nat_source", "nat_destination"} ->
         NatRule_Diff(p, NatRules(p, to[1]) \ SplitStatic(p), to[1], IF k = <<>> THEN None ELSE k[2], to[2], u)
    [] e = "nat_static" -> StaticNat_Diff(p, IF k = <<>> THEN None ELSE k[1], to[1], u)
    [] e = "alias" -> Alias_Diff(b, isNew, l, u)
    [] e = "policy" -> PortGroup_Diff(b, l, u)
    [] e = "zone" -> Zone_Diff(p, b, isNew, l, u)
    [] e = "dhcp_server" -> Server_Diff(p, b, isNew, l, u)
    [] e = "dhcp_subnet" -> Subnet_Diff(p, b, isNew, l, u)
    [] e = "general" -> General_Diff(b, l, u)
    [] e = "user" -> User_Diff(b, isNew, l, u)
    [] e = "openvpn" -> Openvpn_Diff(b, isNew, l, u)
    [] OTHER -> Created(b, isNew, Diff(b, s, l, u))

\* The object the diff starts from: a new one starts blank.
MadeFrom(e, p, k, to, isNew, live, u) ==
  Made(e, p, k, to, Base(e, to), Ed[e].write, isNew, IF isNew THEN Blank(Ed[e].write) ELSE live, u)

\* The commands that make the object the row u; live is the row the diff is
\* taken against.  A renamed object is deleted where it was.
Commands(e, p, k, to, live, u) ==
  LET moved == k \notin {<<>>, to}
  IN Both(Deletes(IF Ed[e].renames /\ moved THEN {Base(e, k)} ELSE {}),
          MadeFrom(e, p, k, to,
                   IF Ed[e].keyed /\ Ed[e].live = "page" THEN moved \/ to \notin KeysOf(e, p) ELSE k = <<>>,
                   live, u))

\* What deleting row k of page p sends.
DeleteCommands(e, p, k) ==
  CASE e = "static_route" -> Deletes({StaticDrop(p, k)})
    [] e = "nat_static" -> Deletes({NatRule_At("source", k[1]), NatRule_At("destination", k[1])})
    [] OTHER -> Deletes({Base(e, k)})

\* The nodes row r of object k is kept in that are not named by its fields.
Elsewhere(e, t, k, r) ==
  CASE e = "static_route" -> {RouteBase(k) \o <<n>> : n \in {"description"} \cup {m \in {"next-hop", "interface"} : Vals(t, RouteBase(k) \o <<m>>) = {}}}
    [] e = "nat_static" -> {NatRule_At("source", k[1]), NatRule_At("destination", k[1])}
    [] e = "vxlan" -> {MemberOf(x, k[1]) : x \in {r["bridge"]} \ {None}}
    [] e \in {"alias", "policy"} -> {Base(e, k) \o <<"description">>}
    [] e = "zone" -> {Base(e, k) \o <<"description">>, StatePolicy}
    [] e = "general" -> {IF r["ntp_server"] = {} THEN Ntp ELSE NtpServers}
    [] e = "user" -> {Base(e, k) \o <<"public-keys", id>> : id \in DOMAIN r["public-keys"]}
    [] e = "openvpn" -> {Base(e, k) \o <<n>> : n \in {"mode"} \cup IF Openvpn_Row(t, Base(e, k))["mode"] # r["mode"] THEN OfSomeMode ELSE {}}
    [] e = "config_sync" -> {SectionPath(Base(e, k), x) : x \in r["section"]}
    [] e = "ospf_area" -> {NoSummary(Base(e, k), type) : type \in {r["area-type"]} \ {None}}
    [] OTHER -> {}

\* The keys an object can be saved under: most editors fix the key of an
\* existing object.
Targets(e, k) ==
  CASE e = "static_route" -> {<<d, "next-hop", "v">> : d \in {"a", "c"}} \cup {<<"a", "blackhole", "">>} \cup ({k} \ {<<>>})
    [] e = "vlan" -> {<<"a", "vif", "w">>, <<"a", "vif", "c">>, <<"b", "vif", "v">>} \cup ({k} \ {<<>>})
    [] e = "nat_source" -> {<<"source", "c">>, <<"source", "b">>} \cup ({k} \ {<<>>})
    [] e = "nat_destination" -> {<<"destination", "c">>, <<"destination", "b">>} \cup ({k} \ {<<>>})
    [] e = "nat_static" -> {<<"c">>} \cup ({k} \ {<<>>})
    [] e = "alias" -> {<<"address-group", "c">>, <<"network-group", "b">>} \cup ({k} \ {<<>>})
    [] e = "policy" -> {<<"port-group", n>> : n \in {"b", "c"}} \cup ({k} \ {<<>>})
    [] e = "dhcp_relay" -> {<<"server", "c">>, <<"interface", "c">>}
    [] e = "dhcp_subnet" -> IF k = <<>> THEN {<<"a", "subnet", "c">>, <<"b", "subnet", "v">>} ELSE {k}
    [] e = "dhcp_range" -> {<<"a", "subnet", "v", "range", n>> : n \in {"v", "w", "c"}}
    [] e = "dhcp_mapping" -> {<<"a", "subnet", "v", "static-mapping", n>> : n \in {"v", "w", "c"}}
    [] OTHER -> IF k = <<>> \/ Ed[e].renames THEN {<<"c">>, <<"b">>} \cup ({k} \ {<<>>}) ELSE {k}
=============================================================================
