-------------------------- MODULE InterfaceEditors --------------------------
(***************************************************************************)
(* The editors of the interface pages: ethernet, VLAN, bonding, bridge,    *)
(* loopback and VXLAN.                                                     *)
(***************************************************************************)
EXTENDS EditorKit

Common_Read == Schema({"description", "mtu"}, {"address"}, {"disable"})
Common_Write == Common_Read

Ethernet_Read == [Common_Read EXCEPT !.leaf = @ \cup {"speed", "duplex"}]
Vlan_Read == Common_Read
Loopback_Read == Common_Read
Bond_Read == [Common_Read EXCEPT !.multi = @ \cup {"member_interface"}, !.pick = "mode" :> "802.3ad"]
BridgeVif_Read == Schema({"description"}, {"address"}, {})
Bridge_Read ==
  [Common_Read EXCEPT !.multi = @ \cup {"member_interface"}, !.flag = @ \cup {"enable-vlan"}, !.tags = "vif" :> BridgeVif_Read]

Ethernet_Write == [Common_Write EXCEPT !.leaf = @ \cup {"speed", "duplex"}]
Vlan_Write == Common_Write
\* The loopback node has neither an mtu nor a disable.
Loopback_Write == Schema({"description"}, {"address"}, {})
\* An absent mode is the default one, also for a new bond.
Bond_Write ==
  [Common_Write EXCEPT !.multi = @ \cup {"member_interface"}, !.pick = "mode" :> "802.3ad", !.quiet = {"mode"}]
BridgeVif_Write == BridgeVif_Read
Bridge_Write ==
  [Common_Write EXCEPT !.multi = @ \cup {"member_interface"}, !.flag = @ \cup {"enable-vlan"}, !.tags = "vif" :> BridgeVif_Write]

\* Speed and duplex are both automatic, an absent leaf, or both fixed.
Ethernet_Form(u) == {r \in {u} : (u["speed"] = None) <=> (u["duplex"] = None)}

\* The ports the other rows of the page have taken: a form does not offer them.
TakenPorts(t, at, k) ==
  {q[4] : q \in {r \in t : Len(r) = 4 /\ r[1] = at /\ <<r[2]>> # k /\ r[3] = "member_interface"}}
Bond_Form(p, k, seed, u) ==
  {r \in {u} : u["member_interface"] \cap TakenPorts(p, "interfaces_bonding", k) \subseteq seed["member_interface"]}
\* A sub-interface makes the bridge VLAN-aware.
Bridge_Form(p, k, seed, u) ==
  {r \in {[u EXCEPT !["enable-vlan"] = @ \/ DOMAIN u["vif"] # {}]} :
     u["member_interface"] \cap TakenPorts(p, "interfaces_bridge", k) \subseteq seed["member_interface"]}

Ethernet == Editor("interfaces_ethernet", Ethernet_Read, Ethernet_Write)
Loopback == Editor("interfaces_loopback", Loopback_Read, Loopback_Write)
Bond == Editor("interfaces_bonding", Bond_Read, Bond_Write)
Bridge == Editor("interfaces_bridge", Bridge_Read, Bridge_Write)

(****************************** VLAN, a vif ********************************)
\* A row is a vif of an ethernet interface, named by parent and id: the key is
\* <<parent, "vif", id>>.  An edit of either is a move.
Vlan_Keys(t) == {SubSeq(q, 2, 4) : q \in {r \in t : Len(r) = 4 /\ r[1] = "interfaces_ethernet" /\ r[3] = "vif"}}
Vlan_Form(p, k, to, u) == {r \in {u} : to = k \/ to \notin Vlan_Keys(p)}
Vlan == [Editor("interfaces_ethernet", Vlan_Read, Vlan_Write) EXCEPT !.live = "page", !.renames = TRUE]

(********************************* VXLAN ***********************************)
\* A VTEP carries one VNI, or one for each of several VLANs.  Its bridge names
\* it as a member.
Vxlan_Read ==
  [Common_Read EXCEPT !.leaf = @ \cup {"vni", "source-address", "source-interface", "group", "port"},
                      !.multi = @ \cup {"remote"},
                      !.flag = @ \cup {"external", "nolearning", "neighbor-suppress"},
                      !.tags = "vlan-to-vni" :> Schema({"vni"}, {}, {})]
MemberOf(bridge, name) == <<"interfaces_bridge", bridge, "member_interface", name>>
BridgeMembership(t, name) ==
  LET S == {q[2] : q \in {r \in t : Len(r) = 4 /\ r = MemberOf(r[2], name)}}
  IN IF S = {} THEN None ELSE CHOOSE b \in S : TRUE
Vxlan_Row(t, b) == Row(t, b, Vxlan_Read) @@ "bridge" :> BridgeMembership(t, b[2])

Vxlan_Write == Vxlan_Read
\* A VLAN mapping needs `external`; the membership is diffed after the node.
Vxlan_Diff(b, isNew, live, u) ==
  LET forced == [u EXCEPT !["external"] = @ \/ DOMAIN u["vlan-to-vni"] # {}]
      was == IF isNew THEN None ELSE live["bridge"]
      paths(x) == IF x = None THEN {} ELSE {MemberOf(x, b[2])}
  IN Both(Created(b, isNew, Diff(b, Vxlan_Write, live, forced)),
          IF was = u["bridge"] THEN NoCommands ELSE Batch(paths(was), {}, paths(u["bridge"])))

\* The form has a row for every VNI; VNI 0 is shown as an empty one.
Vxlan_Seed(r) ==
  [r EXCEPT !["vni"] = IF @ = "0" THEN None ELSE @,
            !["vlan-to-vni"] = [v \in DOMAIN @ |-> IF @[v]["vni"] = "0" THEN [@[v] EXCEPT !["vni"] = None] ELSE @[v]]]
\* The control plane a row is opened with.
Vxlan_Mode(r) ==
  IF r["external"] THEN "evpn" ELSE IF r["group"] # None THEN "multicast" ELSE IF r["remote"] # {} THEN "static" ELSE "evpn"
\* Empty VNI rows are dropped, one VNI is left, mapped and unmapped ones do not
\* mix, and what belongs to another control plane is not sent.
Vxlan_Form(u) ==
  LET mode == Vxlan_Mode(u)
      map == u["vlan-to-vni"]
      filled == [v \in {w \in DOMAIN map : map[w]["vni"] # None} |-> map[v]]
      sent == [u EXCEPT !["vlan-to-vni"] = filled, !["external"] = mode = "evpn",
                        !["remote"] = IF mode = "static" THEN @ ELSE {},
                        !["group"] = IF mode = "multicast" THEN @ ELSE None]
  IN {r \in {sent} : /\ (u["vni"] = None) # (DOMAIN filled = {})
                     /\ \A v, w \in DOMAIN filled : filled[v]["vni"] = filled[w]["vni"] => v = w
                     /\ DOMAIN filled # {} => mode = "evpn"
                     /\ mode = "evpn" => u["source-address"] # None}
Vxlan == Editor("interfaces_vxlan", Vxlan_Read, Vxlan_Write)

(********************************** pages **********************************)
\* Ethernet and loopback interfaces are edited and never deleted.
EthernetPage == "ethernet" :> [Ethernet EXCEPT !.deletes = FALSE]
VlanPage == "vlan" :> Vlan
LoopbackPage == "loopback" :> [Loopback EXCEPT !.deletes = FALSE]
BondingPage == "bond" :> Bond
BridgePage == "bridge" :> Bridge
VxlanPage == "vxlan" :> Vxlan
InterfacePages == EthernetPage @@ VlanPage @@ LoopbackPage @@ BondingPage @@ BridgePage @@ VxlanPage
=============================================================================
