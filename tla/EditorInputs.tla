---------------------------- MODULE EditorInputs ----------------------------
(***************************************************************************)
(* The configurations a model of the console starts from, and what a user  *)
(* can do to a row in one edit.  The objects are of the shapes the forms   *)
(* make; four shapes that only the command line makes, and that a form     *)
(* alters when it is saved as it is, are left out: a zone without a        *)
(* default action, a NAT rule without an interface, VNI 0, and an IPsec    *)
(* tunnel with a protocol or an ESP group of its own.                      *)
(***************************************************************************)
EXTENDS Editors

\* Everything a schema can hold at base b, but the omitted fields.
FlatPaths(b, s, omit) ==
  (UNION {Nodes(b \o <<f, IF b[2] = "b" THEN "t" ELSE "x">>) : f \in (s.leaf \cup DOMAIN s.pick \cup s.secret) \ omit})
    \cup (UNION {Nodes(b \o <<f, v>>) : f \in s.multi \ omit, v \in IF b[2] = "b" THEN {"t"} ELSE {"w", "x"}})
    \cup UNION {Nodes(b \o <<f>>) : f \in s.flag \ omit}
FullAt(b, s, omit) ==
  Nodes(b) \cup FlatPaths(b, s, omit)
    \cup (UNION {Nodes(b \o <<n, "n">>) \cup FlatPaths(b \o <<n, "n">>, s.tags[n], omit) : n \in DOMAIN s.tags \ omit})
    \cup UNION {Nodes(b \o <<n>>) \cup FlatPaths(b \o <<n>>, s.gates[n], omit) : n \in DOMAIN s.gates \ omit}

\* Fields that never occur together: each start omits one of the sets.
Omissions(e) ==
  CASE e = "bgp_peer-group" -> {{"interface_v6only", "peer-group"}}
    [] e = "route-map" -> {{"on-match_next"}, {"on-match_goto"}}
    [] e \in {"nat_source", "nat_destination"} ->
         {{"interface_group", "source_address", "source_network-group"}, {"interface_name", "source_network-group", "source_address-group"}}
    [] e = "vxlan" -> {{"vni", "remote", "group"}, {"vlan-to-vni", "external", "group"}, {"vlan-to-vni", "external", "remote"}}
    [] OTHER -> {{}}

\* The objects of editor e at key k with the fields of schema s: all of them
\* set, or the required ones.
Objects(e, k, s) ==
  LET b == Base(e, k)
  IN CASE e = "static_route" ->
            {Nodes(b) \cup FlatPaths(b, StaticHop(k[2]), {}) \cup Nodes(RouteBase(k) \o <<"description", "x">>), Nodes(b)}
       [] e = "config_sync" ->
            {FullAt(b, s, {}) \cup Nodes(b \o q) : q \in {<<"section", "n">>, <<"section", "n", "x">>}}
       [] e = "ospf_area" -> {FullAt(b, OspfArea_Read, {}) \cup Nodes(NoSummary(b, "x")), Nodes(b)}
       [] e = "bgp_neighbor" ->
            {FullAt(b, s, {"interface_v6only"}), FullAt(b, [s EXCEPT !.leaf = @ \ {"remote-as", "peer-group"}], {})}
       [] e = "alias" ->
            {Nodes(b \o <<"member", "x">>) \cup d : d \in {{}, Nodes(b \o <<"description", "m", "x">>), Nodes(b \o <<"description", None, "x">>)}}
       [] e = "policy" ->
            {Nodes(b \o <<"port", "x">>) \cup Nodes(b \o <<"description">> \o d) : d \in {<<"m">>, <<"m", "x">>, <<None, "x">>}}
       [] e = "zone" ->
            {FullAt(b, Zone_Read, {"local-zone"}) \cup Nodes(b \o <<"description", "m", "x">>),
             Nodes(b \o <<"local-zone">>) \cup Nodes(b \o <<"default-action", "x">>)}
       [] e = "general" -> {FullAt(b, General_Read, {}), Nodes(b)}
       [] e = "dhcp_subnet" ->
            {FullAt(b, s, o) \cup Nodes(b \o <<"subnet-id", IF k[1] = "a" THEN "2" ELSE "1">>) : o \in {{}, Fields(s)}}
       [] e = "ipsec_peer" ->
            {FullAt(b, s, {"authentication_mode", "protocol", "esp-group", f}) \cup Nodes(b \o <<"authentication_mode", Psk>>) : f \in {"tunnel", "vti_bind"}}
       [] e = "openvpn" ->
            {FullAt(b, s, (OfSomeMode \ ModeFields[m]) \cup IF m = "site-to-site" THEN {"tls_dh-params", "remote-host"} ELSE {})
               \cup Nodes(b \o <<"mode", m>>) : m \in OpenvpnModes}
       [] e = "vxlan" ->
            {FullAt(b, s, o) \cup Nodes(MemberOf("br", k[1])) : o \in Omissions(e)}
       [] e \in {"nat_source", "nat_destination"} ->
            {FullAt(b, s, o) : o \in Omissions(e)}
       [] e = "nat_static" ->
            LET addresses(x, y) ==
                  (UNION {Nodes(NatRule_At("source", k[1]) \o p) : p \in {<<"source_address", x>>, <<"translation_address", y>>}})
                    \cup UNION {Nodes(NatRule_At("destination", k[1]) \o p) : p \in {<<"destination_address", y>>, <<"translation_address", x>>}}
            IN {addresses("x", "w"),
                addresses("x", "w") \cup UNION {FlatPaths(NatRule_At(sec, k[1]), Schema({"description", "interface_name"}, {}, {"disable"}), {}) : sec \in {"source", "destination"}}}
       [] OTHER -> {FullAt(b, s, o) : o \in Omissions(e) \cup {Fields(s) \ Ed[e].need}}

Key(e) ==
  CASE ~Ed[e].keyed -> <<"">>
    [] e = "static_route" -> <<"a", "next-hop", "v">>
    [] e = "vlan" -> <<"a", "vif", "v">>
    [] e = "nat_source" -> <<"source", "a">>
    [] e = "nat_destination" -> <<"destination", "a">>
    [] e = "alias" -> <<"address-group", "a">>
    [] e = "policy" -> <<"port-group", "a">>
    [] e = "dhcp_relay" -> <<"server", "a">>
    [] e = "dhcp_subnet" -> <<"a", "subnet", "v">>
    [] e = "dhcp_range" -> <<"a", "subnet", "v", "range", "v">>
    [] e = "dhcp_mapping" -> <<"a", "subnet", "v", "static-mapping", "v">>
    [] OTHER -> <<"a">>
Sibling(e) ==
  CASE e = "static_route" -> <<"a", "interface", "w">>
    [] e = "vlan" -> <<"b", "vif", "w">>
    [] e = "nat_source" -> <<"source", "b">>
    [] e = "nat_destination" -> <<"destination", "b">>
    [] e = "alias" -> <<"network-group", "b">>
    [] e = "policy" -> <<"port-group", "b">>
    [] e = "dhcp_relay" -> <<"server", "b">>
    [] e = "dhcp_subnet" -> <<"b", "subnet", "w">>
    [] e = "dhcp_range" -> <<"a", "subnet", "v", "range", "w">>
    [] e = "dhcp_mapping" -> <<"a", "subnet", "v", "static-mapping", "w">>
    [] OTHER -> <<"b">>
NewKey(e) ==
  CASE e = "static_route" -> <<"c", "next-hop", "v">>
    [] e = "vlan" -> <<"a", "vif", "c">>
    [] e = "nat_source" -> <<"source", "c">>
    [] e = "nat_destination" -> <<"destination", "c">>
    [] e = "alias" -> <<"address-group", "c">>
    [] e = "policy" -> <<"port-group", "c">>
    [] e = "dhcp_relay" -> <<"server", "c">>
    [] e = "dhcp_subnet" -> <<"a", "subnet", "c">>
    [] e = "dhcp_range" -> <<"a", "subnet", "v", "range", "c">>
    [] e = "dhcp_mapping" -> <<"a", "subnet", "v", "static-mapping", "c">>
    [] OTHER -> <<"c">>

\* A setting of object k that the editor does not know.
Foreign(e, k) == Nodes((IF e = "nat_static" THEN NatRule_At("source", k[1]) ELSE Base(e, k)) \o <<"unmanaged", "x">>)

\* What else the section holds: groups of the rule editor, of other pages.
Around(e) ==
  CASE e = "alias" -> Nodes(<<"firewall_group", "address-group", "z", "description", "auto">>)
    [] e = "dhcp_server" -> Nodes(<<Dhcp_At, "b", "subnet", "w", "subnet-id", "1">>)
    [] e = "general" -> UNION {Nodes(Ntp \o q) : q \in {<<"server", "x">>, <<"unmanaged", "x">>}}
    [] OTHER -> {}

\* What can be entered in the form of a new object.
NewRows(e) ==
  LET rows == {RowOf(e, o, Key(e)) : o \in Objects(e, Key(e), Ed[e].write)}
      typed == CASE e = "dhcp_server" -> First [] OTHER -> Ed[e].write.secret
  IN {[f \in typed |-> "x"] @@ r : r \in rows}

Starts(e) ==
  {o \cup Foreign(e, Key(e)) \cup Around(e) \cup sib :
     o \in Objects(e, Key(e), Ed[e].read),
     sib \in IF Ed[e].keyed THEN {CHOOSE x \in Objects(e, Sibling(e), Ed[e].read) : TRUE} ELSE {{}}}

-----------------------------------------------------------------------------
(* What a user can do to a row in one edit.                                *)

FlatEdits(s, r) ==
  (UNION {{[r EXCEPT ![f] = v] : v \in {None, "y"} \ {r[f]}} : f \in s.leaf \cup s.secret})
    \cup (UNION {{[r EXCEPT ![f] = v] : v \in {s.pick[f], "y"} \ {r[f]}} : f \in DOMAIN s.pick})
    \cup {[r EXCEPT ![f] = (@ \cup {v}) \ (@ \cap {v})] : f \in s.multi, v \in {"x", "y", "t"}}
    \cup {[r EXCEPT ![f] = ~@] : f \in s.flag}
SubEdits(s, m, keys, new) ==
  {[x \in DOMAIN m \ {k} |-> m[x]] : k \in DOMAIN m}
    \cup {m @@ k :> r : k \in keys \ DOMAIN m, r \in {new, [f \in s.leaf |-> "y"] @@ new}}
    \cup UNION {{[m EXCEPT ![k] = r] : r \in FlatEdits(s, m[k])} : k \in DOMAIN m}
EditsIn(e, s, r) ==
  LET in == Ed[e].read
  IN FlatEdits(s, r)
       \cup (UNION {{[r EXCEPT ![n] = m] : m \in SubEdits(s.tags[n], r[n], {"n", "m"}, Empty(in.tags[n]))} : n \in DOMAIN s.tags})
       \cup (UNION {{[r EXCEPT ![n] = m] : m \in SubEdits(s.gates[n], r[n], {""}, Empty(in.gates[n]))} : n \in DOMAIN s.gates})
       \cup CASE e = "config_sync" ->
                   {[r EXCEPT !["section"] = x] : x \in (SUBSET {<<"n", None>>, <<"n", "x">>, <<"m", None>>}) \ {r["section"]}}
              [] e \in {"nat_source", "nat_destination"} ->
                   {[r EXCEPT !["source_address"] = None, !["source_address-group"] = None, !["source_network-group"] = "y"],
                    [r EXCEPT !["interface_group"] = None, !["interface_name"] = "y"]} \ {r}
              [] e = "openvpn" -> {[r EXCEPT !["mode"] = m] : m \in OpenvpnModes \ {r["mode"]}}
              [] e = "vxlan" -> {[r EXCEPT !["bridge"] = x] : x \in {None, "br", "br2"} \ {r["bridge"]}}
              [] OTHER -> {}
RowEdits(e, r) == EditsIn(e, Ed[e].write, r)

\* One field of each kind: enough of what others edit, since a diff treats the
\* fields of a kind alike.
OneOf(S) == IF S = {} THEN {} ELSE {CHOOSE x \in S : TRUE}
SampleFlat(s) ==
  [s EXCEPT !.leaf = OneOf(@), !.multi = OneOf(@), !.flag = OneOf(@), !.secret = OneOf(@),
            !.pick = [f \in OneOf(DOMAIN @) |-> @[f]]]
Sample(s) ==
  [SampleFlat(s) EXCEPT !.tags = [n \in OneOf(DOMAIN @) |-> SampleFlat(@[n])],
                        !.gates = [n \in OneOf(DOMAIN @) |-> SampleFlat(@[n])]]
OtherEdits(e, r) == EditsIn(e, Sample(Ed[e].write), r)
=============================================================================
