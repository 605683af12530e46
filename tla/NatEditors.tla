----------------------------- MODULE NatEditors -----------------------------
(***************************************************************************)
(* The editors of the NAT44 page: source and destination rules, and 1-to-1 *)
(* mappings, each kept as a source and a destination rule of one number.   *)
(* A rule is kept at <<"nat", section, number>>.                           *)
(***************************************************************************)
EXTENDS EditorKit

\* A rule matches one kind of source (an address or a group of some type) and
\* one kind of interface (a name or a group).
NatRule_Read ==
  Schema({"description", "interface_name", "interface_group", "source_address", "source_network-group",
          "source_address-group", "source_port", "destination_address", "destination_port",
          "translation_address", "translation_port", "protocol"}, {}, {"disable"})
NatRule_At(section, n) == <<"nat", section, n>>
NatRules(t, section) == {q[3] : q \in {r \in t : Len(r) >= 3 /\ r[1] = "nat" /\ r[2] = section}}
NatRule_Row(t, section, n) == Row(t, NatRule_At(section, n), NatRule_Read)

\* The numbers whose two rules mirror each other: a 1-to-1 mapping.
SplitStatic(t) ==
  {n \in NatRules(t, "source") \cap NatRules(t, "destination") :
     LET s == NatRule_Row(t, "source", n)
         d == NatRule_Row(t, "destination", n)
     IN /\ s["source_address"] # None /\ s["translation_address"] # None
        /\ d["destination_address"] = s["translation_address"] /\ d["translation_address"] = s["source_address"]}
NatRule_Keys(t, section) == {<<section, n>> : n \in NatRules(t, section) \ SplitStatic(t)}
StaticNat_Keys(t) == {<<n>> : n \in SplitStatic(t)}
StaticNat_Row(t, n) ==
  LET s == NatRule_Row(t, "source", n)
      d == NatRule_Row(t, "destination", n)
  IN [f \in {"description", "interface", "internal", "external", "disable"} |->
        CASE f = "description" -> IF s[f] # None THEN s[f] ELSE d[f]
          [] f = "interface" -> s["interface_name"]
          [] f = "internal" -> s["source_address"]
          [] f = "external" -> s["translation_address"]
          [] f = "disable" -> s[f] \/ d[f]]

NatRule_Write == NatRule_Read
\* Rules in `known` are diffed; a renumbered rule is built anew.
NatRule_Diff(t, known, section, k, to, u) ==
  LET b == NatRule_At(section, to)
      moved == k \notin {None, to}
      isNew == moved \/ to \notin known
      live == IF isNew THEN Blank(NatRule_Write) ELSE NatRule_Row(t, section, to)
  IN Both(IF moved THEN Deletes({NatRule_At(section, k)}) ELSE NoCommands,
          Created(b, isNew, Diff(b, NatRule_Write, live, u)))

\* staticPair: what is no part of a mapping is cleared on both rules.
StaticPair(u) ==
  LET common == "description" :> u["description"] @@ "interface_name" :> u["interface"] @@ "disable" :> u["disable"]
  IN [source |-> "source_address" :> u["internal"] @@ "translation_address" :> u["external"] @@ common @@ Blank(NatRule_Write),
      destination |-> "destination_address" :> u["external"] @@ "translation_address" :> u["internal"] @@ common
                        @@ Blank(NatRule_Write)]
\* applyStaticNat reads the rules again before it diffs: t is the device's.
StaticNat_Diff(t, k, to, u) ==
  BothOf({NatRule_Diff(t, NatRules(t, sec), sec, k, to, StaticPair(u)[sec]) : sec \in {"source", "destination"}})

\* The form opens a rule without an interface on the first one, and a source
\* rule without a translation as masquerade.
NatRule_Seed(section, r) ==
  [r EXCEPT !["interface_name"] = IF @ = None /\ r["interface_group"] = None THEN "if" ELSE @,
            !["translation_address"] = IF @ = None /\ section = "source" THEN "masquerade" ELSE @]
NatRule_Form(p, section, k, to, u) ==
  {[u EXCEPT !["translation_port"] = IF u["translation_address"] = "masquerade" THEN None ELSE @] :
     r \in {r \in {u} : /\ to = k \/ <<section, to>> \notin NatRule_Keys(p, section)
                        /\ to \notin SplitStatic(p)
                        /\ u["translation_address"] # None
                        /\ Cardinality({f \in {"source_address", "source_network-group", "source_address-group"} : u[f] # None}) <= 1
                        /\ u["interface_name"] = None \/ u["interface_group"] = None}}
StaticNat_Form(p, k, to, u) ==
  {r \in {u} : /\ u["internal"] # None /\ u["external"] # None
               /\ to = k \/ to \notin SplitStatic(p)
               /\ to \notin (NatRules(p, "source") \cup NatRules(p, "destination")) \ SplitStatic(p)}

NatRule == [Editor("nat", NatRule_Read, NatRule_Write) EXCEPT !.live = "page"]
StaticNat ==
  LET s == Schema({"description", "interface", "internal", "external"}, {}, {"disable"})
  IN [Editor("nat", s, s) EXCEPT !.live = "device"]

Nat44Page == "nat_source" :> NatRule @@ "nat_destination" :> NatRule @@ "nat_static" :> StaticNat
=============================================================================
