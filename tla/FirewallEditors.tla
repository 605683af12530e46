--------------------------- MODULE FirewallEditors --------------------------
(***************************************************************************)
(* The editors of the firewall's named objects: aliases (address, network, *)
(* domain and interface groups), policies (port groups) and zones.  Rules, *)
(* and what these objects mean to them, are in FirewallRules.              *)
(*                                                                         *)
(* VyOS keeps one description for each object.  The WebUI puts a marker at *)
(* its front: the name an alias or a zone is shown under when it is not    *)
(* its own, the protocol of a policy.  The description of object b is kept *)
(* as the path b.description.marker.text, the marker None when there is    *)
(* none.                                                                   *)
(***************************************************************************)
EXTENDS EditorKit

\* decodePolicyDescription, decodeAliasDescription.
Decode(t, b, mark, absent) ==
  LET m == Val(t, b \o <<"description">>)
  IN mark :> (IF m = None THEN absent ELSE m) @@ "description" :> Val(t, b \o <<"description", m>>)

\* encodePolicyDescription, encodeAliasDescription: the path below
\* `description`, <<>> for no description at all.
Encode(r, mark) ==
  IF r["description"] # None THEN <<r[mark], r["description"]>>
  ELSE IF r[mark] # None THEN <<r[mark]>> ELSE <<>>
EncodeDiff(b, mark, live, u) ==
  LET d == b \o <<"description">>
      new == Encode(u, mark)
  IN IF new = Encode(live, mark) THEN NoCommands
     ELSE IF new = <<>> THEN Deletes({d}) ELSE Batch({}, {d \o <<new[1]>>}, {d \o new})

\* The fields the editor adds to a schema.
Marked(s, mark) == [s EXCEPT !.leaf = @ \cup {mark, "description"}]

GroupKeys(t) == {SubSeq(q, 2, 3) : q \in {r \in t : Len(r) >= 3 /\ r[1] = "firewall_group"}}

(********************************* aliases *********************************)
\* The groups the rule editor makes for itself are marked "auto" and hidden.
Alias_Read == Schema({}, {"member"}, {})
Alias_Keys(t) ==
  {k \in GroupKeys(t) : k[1] # "port-group" /\ Val(t, <<"firewall_group">> \o k \o <<"description">>) # "auto"}
Alias_Row(t, b) == Row(t, b, Alias_Read) @@ Decode(t, b, "display", None)
Alias_Diff(b, isNew, live, u) ==
  Created(b, isNew, Both(EncodeDiff(b, "display", live, u), Diff(b, Alias_Read, live, u)))
\* Another name or another type is another group: it must not exist.  Members
\* of one type are not valid in another.
Alias_Form(p, k, to, seed, u) ==
  {r \in {u} : /\ u["member"] # {}
               /\ to = k \/ to \notin Alias_Keys(p)
               /\ k # <<>> /\ to[1] # k[1] => u["member"] \cap seed["member"] = {}}
Alias == [Editor("firewall_group", Marked(Alias_Read, "display"), Marked(Alias_Read, "display"))
            EXCEPT !.live = "page", !.renames = TRUE, !.need = {"member"}]

(******************************** policies *********************************)
\* A group without a marker reads as tcp_udp.
Policy_Read == Schema({}, {"port"}, {})
Policy_Keys(t) == {k \in GroupKeys(t) : k[1] = "port-group"}
Policy_Row(t, b) == Row(t, b, Policy_Read) @@ Decode(t, b, "protocol", "tcp_udp")
\* A change of protocol is also written to the rules that use the policy: see
\* ChangePolicyProtocol of FirewallRules.
PortGroup_Diff(b, live, u) == Both(EncodeDiff(b, "protocol", live, u), Diff(b, Policy_Read, live, u))
Policy_Form(p, k, to, u) ==
  {r \in {u} : u["protocol"] # None /\ u["port"] # {} /\ (to = k \/ to \notin Policy_Keys(p))}
Policy == [Editor("firewall_group", Marked(Policy_Read, "protocol"), Marked(Policy_Read, "protocol"))
             EXCEPT !.live = "page", !.renames = TRUE, !.need = {"port"}]

(********************************** zones **********************************)
Zone_Read ==
  Schema({"default-action", "intra-zone-filtering_action"}, {"member_interface"}, {"local-zone", "default-log"})
Zone_Keys(t) == {<<q[2]>> : q \in {r \in t : r[1] = "firewall_zone"}}
Zone_Row(t, b) == Row(t, b, Zone_Read) @@ Decode(t, b, "display", None)
\* ensureStatePolicy: any change of a zone seeds the global match that lets
\* replies through.
StatePolicy == <<"firewall_global-options", "state-policy", "accept">>
Zone_Diff(p, b, isNew, live, u) ==
  LET c == Created(b, isNew, Both(EncodeDiff(b, "display", live, u), Diff(b, Zone_Read, live, u)))
  IN IF c = NoCommands \/ StatePolicy \in p THEN c ELSE Both(c, Adds({StatePolicy}))

\* A zone without a default action opens as one that drops.
Zone_Seed(r) == [r EXCEPT !["default-action"] = IF @ = None THEN "drop" ELSE @]
\* The local zone, the firewall itself, is the only one of its kind and has no
\* interfaces; every other zone has some, and shares none.
Zone_Form(p, k, to, u) ==
  LET others == {Row(p, <<"firewall_zone">> \o z, Zone_Read) : z \in Zone_Keys(p) \ {k}}
      local == u["local-zone"]
      sent == [u EXCEPT !["member_interface"] = IF local THEN {} ELSE @,
                        !["intra-zone-filtering_action"] = IF local THEN None ELSE @]
  IN {r \in {sent} : /\ to = k \/ to \notin Zone_Keys(p)
                     /\ u["default-action"] # None
                     /\ IF local THEN \A z \in others : ~z["local-zone"]
                        ELSE /\ u["member_interface"] # {}
                             /\ \A z \in others : u["member_interface"] \cap z["member_interface"] = {}}
Zone == [Editor("firewall_zone", Marked(Zone_Read, "display"), Marked(Zone_Read, "display"))
           EXCEPT !.live = "page", !.renames = TRUE, !.need = {"default-action", "member_interface"}]

(********************************** pages **********************************)
AliasesPage == "alias" :> Alias
PoliciesPage == "policy" :> Policy
ZonesPage == "zone" :> Zone
FirewallPages == AliasesPage @@ PoliciesPage @@ ZonesPage
=============================================================================
