--------------------------- MODULE RoutingEditors ---------------------------
(***************************************************************************)
(* The editors of the routing pages: BGP, OSPF, IS-IS, MPLS, prefix lists, *)
(* route maps and static routes.  X_Read is what the parser of X takes     *)
(* from the configuration, X_Write what its diff compares, and the editor  *)
(* X (with X_Form) what its form demands of a row before it is sent.       *)
(***************************************************************************)
EXTENDS EditorKit

(***************************** protocols bgp *******************************)
\* (Left out: configurations these forms do not make, an allowas-in without a
\* number, shown as 1, and an unnumbered peer kept at `interface` itself.)
BgpAf_Read ==
  Schema({"allowas-in_number", "maximum-prefix", "route-map_import", "route-map_export"}, {},
         {"route-reflector-client", "nexthop-self", "soft-reconfiguration_inbound"})
BgpPeer_Read ==
  [Schema({"remote-as", "peer-group", "update-source", "ebgp-multihop", "description"}, {},
          {"capability_extended-nexthop", "bfd", "shutdown"})
     EXCEPT !.gates = [af \in {"af_ipv4-unicast", "af_ipv6-unicast", "af_l2vpn-evpn"} |-> BgpAf_Read]
                        @@ "interface_v6only" :> Schema({"remote-as", "peer-group"}, {}, {})]
BgpGlobal_Read ==
  Schema({"system-as", "router-id", "cluster-id"},
         {"ipv4-unicast_network", "ipv4-unicast_redistribute", "ipv6-unicast_network", "ipv6-unicast_redistribute"},
         {"default_no-ipv4-unicast", "as-path_multipath-relax", "compare-routerid", "log-neighbor-changes",
          "advertise-all-vni", "advertise_ipv4_unicast", "advertise_ipv6_unicast"})

BgpAf_Write(af) ==
  Schema({"allowas-in_number", "route-map_import", "route-map_export"}
           \cup (IF af = "af_l2vpn-evpn" THEN {} ELSE {"maximum-prefix"}), {},
         {"route-reflector-client", "nexthop-self", "soft-reconfiguration_inbound"})
BgpNeighbor_Write ==
  [Schema({"remote-as", "peer-group", "update-source", "ebgp-multihop", "description"}, {},
          {"capability_extended-nexthop", "bfd", "shutdown"})
     EXCEPT !.gates = [af \in {"af_ipv4-unicast", "af_ipv6-unicast", "af_l2vpn-evpn"} |-> BgpAf_Write(af)]
                        @@ "interface_v6only" :> Schema({"remote-as", "peer-group"}, {}, {})]
BgpPeerGroup_Write ==
  [BgpNeighbor_Write EXCEPT !.leaf = @ \ {"peer-group"}, !.gates = [af \in DOMAIN @ \ {"interface_v6only"} |-> @[af]]]
BgpGlobal_Write == BgpGlobal_Read
\* One form field each for remote-as and peer-group: an unnumbered neighbour
\* keeps them under its interface node.  The kind of an existing peer is fixed.
BgpPeer_Form(k, seed, u) ==
  LET kind(r) == DOMAIN r["interface_v6only"]
      kept == IF kind(u) = {} THEN u ELSE u["interface_v6only"][""]
  IN {r \in {u} : /\ kept["remote-as"] # None \/ kept["peer-group"] # None
                  /\ kind(u) # {} => u["remote-as"] = None /\ u["peer-group"] = None
                  /\ k = <<>> \/ kind(u) = kind(seed)}

BgpNeighbor == Editor("protocols_bgp_neighbor", BgpPeer_Read, BgpNeighbor_Write)
BgpPeerGroup == Editor("protocols_bgp_peer-group", BgpPeer_Read, BgpPeerGroup_Write)
BgpGlobal == [Panel("protocols_bgp", BgpGlobal_Read, BgpGlobal_Write) EXCEPT !.need = {"system-as"}]

(***************************** protocols ospf ******************************)
OspfGlobal_Read ==
  [Schema({"router-id", "default-metric", "reference-bandwidth", "distance_global", "maximum-paths"},
          {"redistribute"}, {"passive-interface_default"})
     EXCEPT !.gates = "log-adjacency-changes" :> Schema({}, {}, {"detail"})
                        @@ "default-information_originate" :> Schema({"metric", "metric-type"}, {}, {"always"})]
OspfArea_Read == Schema({"area-type"}, {"network", "range"}, {})
OspfInterface_Read ==
  Schema({"area", "cost", "priority", "hello-interval", "dead-interval", "network", "plaintext-password"}, {},
         {"passive", "bfd", "mtu-ignore"})

OspfGlobal_Write == OspfGlobal_Read
OspfInterface_Write == OspfInterface_Read
\* An area is normal (no type), stub or nssa; a typed one may say no-summary.
NoSummary(b, type) == b \o <<"area-type", type, "no-summary">>
OspfArea_Row(t, b) ==
  LET r == Row(t, b, OspfArea_Read) IN r @@ "no-summary" :> (NoSummary(b, r["area-type"]) \in t)
OspfArea_Write == OspfArea_Read
OspfArea_Diff(b, live, u) ==
  LET type == u["area-type"]
      was == live["area-type"] = type /\ live["no-summary"]
      p == NoSummary(b, type)
  IN Both(Diff(b, OspfArea_Write, live, u),
          IF type = None \/ was = u["no-summary"] THEN NoCommands
          ELSE IF was THEN Deletes({p}) ELSE Adds({p}))
OspfArea_Form(u) == {[u EXCEPT !["no-summary"] = @ /\ u["area-type"] # None]}

OspfArea == Editor("protocols_ospf_area", [OspfArea_Read EXCEPT !.flag = {"no-summary"}],
                   [OspfArea_Write EXCEPT !.flag = {"no-summary"}])
OspfInterface == Editor("protocols_ospf_interface", OspfInterface_Read, OspfInterface_Write)
OspfGlobal == Panel("protocols_ospf", OspfGlobal_Read, OspfGlobal_Write)

(***************************** protocols isis ******************************)
\* Redistribution is a set of (family, protocol, level) nodes, default
\* origination one of (family, level) nodes.
IsisGlobal_Read ==
  Schema({"net", "level", "metric-style", "lsp-gen-interval", "lsp-refresh-interval", "spf-interval"},
         {"redistribute", "default-information_originate"},
         {"dynamic-hostname", "set-attached-bit", "set-overload-bit"})
IsisInterface_Read ==
  Schema({"circuit-type", "hello-interval", "hello-multiplier", "metric", "plaintext-password"}, {},
         {"network_point-to-point", "passive", "bfd"})
IsisGlobal_Write == IsisGlobal_Read
IsisInterface_Write == IsisInterface_Read

IsisGlobal == [Panel("protocols_isis", IsisGlobal_Read, IsisGlobal_Write) EXCEPT !.need = {"net"}]
IsisInterface == Editor("protocols_isis_interface", IsisInterface_Read, IsisInterface_Write)

(***************************** protocols mpls ******************************)
Mpls_Read ==
  [Schema({"maximum-ttl", "ldp_router-id", "transport-ipv4-address", "transport-ipv6-address",
           "hello-ipv4-interval", "hello-ipv4-holdtime", "session-ipv4-holdtime", "hello-ipv6-interval",
           "hello-ipv6-holdtime", "session-ipv6-holdtime", "targeted_ipv4_hello-interval",
           "targeted_ipv4_hello-holdtime", "targeted_ipv6_hello-interval", "targeted_ipv6_hello-holdtime"},
          {"interface", "targeted_ipv4_address", "targeted_ipv6_address"},
          {"no-propagate-ttl", "cisco-interop-tlv", "ordered-control", "transport-prefer-ipv4",
           "targeted_ipv4_enable", "targeted_ipv6_enable"})
     EXCEPT !.tags = "ldp_interface" :> Schema({}, {}, {"disable-establish-hello"})
                       @@ "ldp_neighbor" :> Schema({"password", "session-holdtime", "ttl-security"}, {}, {})]
Mpls_Write == Mpls_Read
Mpls == Panel("protocols_mpls", Mpls_Read, Mpls_Write)

(********************************* policy **********************************)
\* A rule's action reads as permit when it is absent.
PrefixList_Read ==
  [Schema({}, {}, {}) EXCEPT
     !.tags = "rule" :> [Schema({"prefix", "ge", "le", "description"}, {}, {}) EXCEPT !.pick = "action" :> "permit"]]
PrefixList_Write == PrefixList_Read
PrefixList_Form(u) == {r \in {u} : DOMAIN u["rule"] # {} /\ \A n \in DOMAIN u["rule"] : u["rule"][n]["prefix"] # None}

RouteMap_Read ==
  [Schema({}, {}, {}) EXCEPT
     !.tags = "rule" :>
       [Schema({"description", "call", "match_ip_prefix-list", "match_ipv6_prefix-list", "match_as-path",
                "match_community-list", "match_interface", "match_metric", "match_origin", "match_peer",
                "set_as-path_prepend", "set_community", "set_local-preference", "set_metric", "set_ip-next-hop",
                "set_origin", "set_weight", "set_tag", "on-match_goto"}, {}, {"on-match_next"})
          EXCEPT !.pick = "action" :> "permit"]]
RouteMap_Write == RouteMap_Read
\* `on-match` is one choice in the form, none, next or goto, the last with a
\* target.
RouteMap_Form(u) ==
  {r \in {u} : DOMAIN u["rule"] # {}
               /\ \A n \in DOMAIN u["rule"] : u["rule"][n]["on-match_next"] => u["rule"][n]["on-match_goto"] = None}

PrefixList == Editor("policy_prefix-list", PrefixList_Read, PrefixList_Write)
RouteMap == Editor("policy_route-map", RouteMap_Read, RouteMap_Write)
\* applyPrefixList, applyRouteMap: a new object always gets its bare node too.
Policy_Diff(b, s, isNew, live, u) == Both(IF isNew THEN Adds({b}) ELSE NoCommands, Diff(b, s, live, u))

(**************************** protocols static *****************************)
\* A row is one next-hop of a route, named by destination, kind ("next-hop",
\* "interface", "blackhole") and via; the description is the route's.
StaticRoute_At == "protocols_static_route"
RouteBase(k) == <<StaticRoute_At, k[1]>>
HopPath(k) == <<StaticRoute_At>> \o k
StaticHop(kind) == Schema({"distance"} \cup (IF kind = "next-hop" THEN {"interface"} ELSE {}), {},
                          IF kind = "blackhole" THEN {} ELSE {"disable"})
StaticRoute_Read == Schema({"distance", "interface", "description"}, {}, {"disable"})
StaticRoute_Keys(t) ==
  {SubSeq(q, 2, 4) : q \in {r \in t : Len(r) = 4 /\ r[1] = StaticRoute_At /\ r[3] \in {"next-hop", "interface", "blackhole"}}}
StaticRoute_Row(t, k) ==
  FlatRow(At(t, HopPath(k)), StaticHop(k[2])) @@ "description" :> Val(t, RouteBase(k) \o <<"description">>)
    @@ Blank(StaticRoute_Read)

\* The only next-hop of a route takes the route node along when it goes.
Siblings(p, k) == {h \in StaticRoute_Keys(p) : h[1] = k[1]} \ {k}

\* Mutant: the route goes with any of its next-hops.
StaticDropRoute(p, k) == RouteBase(k)

StaticDrop(p, k) == IF Siblings(p, k) = {} THEN RouteBase(k) ELSE HopPath(k)

\* applyStaticRoute, over the rows of page p: the row k (<<>> for a new one)
\* becomes row u at `to`.
StaticRoute_Diff(p, k, to, u) ==
  LET moved == k # <<>> /\ k # to
      known == k = to /\ k \in StaticRoute_Keys(p)
      hop == FlatDiff(HopPath(to), StaticHop(to[2]), IF known THEN StaticRoute_Row(p, k) ELSE Blank(StaticRoute_Read), u)
      wipedHere == moved /\ Siblings(p, k) = {} /\ k[1] = to[1]
      liveDesc == IF wipedHere \/ \A h \in StaticRoute_Keys(p) : h[1] # to[1]
                  THEN None ELSE Val(p, RouteBase(to) \o <<"description">>)
      desc == FlatDiff(RouteBase(to), Schema({"description"}, {}, {}), "description" :> liveDesc, u)
  IN BothOf({hop, desc, IF known THEN NoCommands ELSE Adds({HopPath(to)}),
             IF moved THEN Deletes({StaticDrop(p, k)}) ELSE NoCommands})
\* Only a gateway has an egress interface, and a blackhole cannot be disabled:
\* what the form held for them is not sent.  No row may become another's twin.
StaticRoute_Form(p, k, to, u) ==
  IF to # k /\ to \in StaticRoute_Keys(p) THEN {}
  ELSE {[u EXCEPT !["interface"] = IF to[2] = "next-hop" THEN @ ELSE None, !["disable"] = @ /\ to[2] # "blackhole"]}
StaticRoute == [Editor(StaticRoute_At, StaticRoute_Read, StaticRoute_Read) EXCEPT !.live = "page"]

(********************************** pages **********************************)
\* The editors each page holds.
BgpPage == "bgp_neighbor" :> BgpNeighbor @@ "bgp_peer-group" :> BgpPeerGroup @@ "bgp_global" :> BgpGlobal
OspfPage == "ospf_area" :> OspfArea @@ "ospf_interface" :> OspfInterface @@ "ospf_global" :> OspfGlobal
IsisPage == "isis_interface" :> IsisInterface @@ "isis_global" :> IsisGlobal
MplsPage == "mpls" :> Mpls
PolicyPage == "prefix-list" :> PrefixList @@ "route-map" :> RouteMap
StaticPage == "static_route" :> StaticRoute
RoutingPages == BgpPage @@ OspfPage @@ IsisPage @@ MplsPage @@ PolicyPage @@ StaticPage
=============================================================================
