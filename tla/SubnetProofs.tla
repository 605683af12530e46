---------------------------- MODULE SubnetProofs ----------------------------
(***************************************************************************)
(* The subnets of the DHCP server in Console, for every set of editors, of *)
(* inputs and of texts that meets its assumptions: no two get the same id  *)
(* (DistinctSubnetIdsHolds).  The parts, in this order: batches of other   *)
(* pages are about other sections; a batch beside the subnets keeps them   *)
(* and their ids; so is every batch of the four pages of the DHCP server   *)
(* but the deletes, which only take ids away, and the one that adds a      *)
(* subnet, with an id that none has.                                       *)
(***************************************************************************)
EXTENDS ConsoleProofs

\* A path of a section other than the DHCP server's.
OffPath(q) == q # <<>> /\ q[1] # Dhcp_At /\ \E V : q \in Seq(V)
\* A batch that leaves the DHCP server alone.
Off(c) == \A p \in c.del \cup c.put \cup c.add \cup c.late : OffPath(p)

\* What is below such a path.
LEMMA OffBelow ==
  ASSUME NEW b, OffPath(b), NEW W, NEW x \in Seq(W)
  PROVE  OffPath(b \o x)
<1>1. PICK V : b \in Seq(V)
  BY DEF OffPath
<1> DEFINE U == V \cup W
<1>2. b \in Seq(U) /\ x \in Seq(U) /\ b # <<>> /\ b[1] # Dhcp_At
  BY <1>1 DEF OffPath
<1> HIDE DEF U
<1>3. b \o x \in Seq(U) /\ b \o x # <<>> /\ (b \o x)[1] = b[1]
  BY <1>2
<1> QED BY <1>2, <1>3 DEF OffPath

\* Such are its nodes;
LEMMA OffNode ==
  ASSUME NEW b, OffPath(b)
  PROVE  \A f, v : OffPath(b \o <<f>>) /\ OffPath(b \o <<f, v>>) /\ OffPath(b \o <<f, v, f>>)
<1> SUFFICES ASSUME NEW f, NEW v PROVE OffPath(b \o <<f>>) /\ OffPath(b \o <<f, v>>) /\ OffPath(b \o <<f, v, f>>)
  OBVIOUS
<1> DEFINE W == {f, v}
<1>1. <<f>> \in Seq(W) /\ <<f, v>> \in Seq(W) /\ <<f, v, f>> \in Seq(W)
  OBVIOUS
<1> HIDE DEF W
<1> QED BY <1>1, OffBelow

\* batches that leave the section alone do so together,
LEMMA OffBothOf ==
  ASSUME NEW S, \A c \in S : Off(c)
  PROVE  Off(BothOf(S))
<1>1. /\ \A p \in BothOf(S).del : \E c \in S : p \in c.del
      /\ \A p \in BothOf(S).put : \E c \in S : p \in c.put
      /\ \A p \in BothOf(S).add : \E c \in S : p \in c.add
      /\ \A p \in BothOf(S).late : \E c \in S : p \in c.late
  BY BothParts
<1> HIDE DEF BothOf
<1> QED BY <1>1 DEF Off

\* two of them too;
LEMMA OffBoth ==
  ASSUME NEW c, Off(c), NEW d, Off(d)
  PROVE  Off(Both(c, d))
BY OffBothOf DEF Both

\* so does the empty batch,
LEMMA OffNothing == Off(NoCommands)
BY BatchFields DEF Off
\* a batch of deletes,
LEMMA OffDeletes == ASSUME NEW D, \A p \in D : OffPath(p) PROVE Off(Deletes(D)) /\ Off(LateDeletes(D))
BY BatchFields DEF Off
\* one of sets,
LEMMA OffPuts == ASSUME NEW P, \A p \in P : OffPath(p) PROVE Off(Puts(P)) /\ Off(Adds(P))
BY BatchFields DEF Off
\* one of all three,
LEMMA OffBatch ==
  ASSUME NEW D, NEW P, NEW A, \A p \in D \cup P \cup A : OffPath(p)
  PROVE  Off(Batch(D, P, A))
<1>1. /\ Batch(D, P, A).del = D /\ Batch(D, P, A).put = P /\ Batch(D, P, A).add = A /\ Batch(D, P, A).late = {}
  BY BatchParts
<1> QED BY <1>1 DEF Off

\* one that creates an object,
LEMMA OffCreated ==
  ASSUME NEW b, OffPath(b), NEW isNew, NEW c, Off(c)
  PROVE  Off(Created(b, isNew, c))
<1>1. Off(Adds({b}))
  BY OffPuts
<1> QED BY <1>1 DEF Created

\* the diff of fields
LEMMA OffFlat ==
  ASSUME NEW b, OffPath(b), NEW s, NEW l, NEW u
  PROVE  Off(FlatDiff(b, s, l, u))
<1> DEFINE D == {b \o <<f>> : f \in {g \in s.leaf : u[g] = None /\ l[g] # None} \cup {g \in s.flag : l[g] /\ ~u[g]}}
                  \cup UNION {{b \o <<f, v>> : v \in l[f] \ u[f]} : f \in s.multi}
           P == {b \o <<f, u[f]>> : f \in {g \in s.leaf \cup DOMAIN s.pick : u[g] # None /\ u[g] # l[g]}
                                    \cup {g \in s.secret : u[g] # None}}
           A == {b \o <<f>> : f \in {g \in s.flag : u[g] /\ ~l[g]}}
                  \cup UNION {{b \o <<f, v>> : v \in u[f] \ l[f]} : f \in s.multi}
<1>1. FlatDiff(b, s, l, u) = Batch(D, P, A)
  BY DEF FlatDiff
<1>2. \A p \in D : (\E f : p = b \o <<f>>) \/ \E f, v : p = b \o <<f, v>>
  OBVIOUS
<1>3. \A p \in P : \E f, v : p = b \o <<f, v>>
  OBVIOUS
<1>4. \A p \in A : (\E f : p = b \o <<f>>) \/ \E f, v : p = b \o <<f, v>>
  OBVIOUS
<1> HIDE DEF D, P, A
<1>5. \A f, v : OffPath(b \o <<f>>) /\ OffPath(b \o <<f, v>>)
  BY OffNode
<1>6. \A p \in D \cup P \cup A : OffPath(p)
  <2> SUFFICES ASSUME NEW p, p \in D \cup P \cup A PROVE OffPath(p)
    OBVIOUS
  <2>1. CASE \E f : p = b \o <<f>>
    BY <1>5, <2>1
  <2>2. CASE \E f, v : p = b \o <<f, v>>
    BY <1>5, <2>2
  <2> QED BY <1>2, <1>3, <1>4, <2>1, <2>2
<1>7. Off(Batch(D, P, A))
  BY <1>6, OffBatch
<1> QED BY <1>1, <1>7

\* and the diff of a row.
LEMMA OffDiff ==
  ASSUME NEW b, OffPath(b), NEW s, NEW l, NEW u
  PROVE  Off(Diff(b, s, l, u))
<1>1. ASSUME NEW n, NEW r, NEW v PROVE Off(SubDiff(b, s, n, r, v))
  <2> DEFINE base(k) == SubBase(b, s, n, k)
             sub == SubSchema(s, n)
             F == {FlatDiff(base(k), sub, IF k \in DOMAIN r THEN r[k] ELSE Blank(sub), v[k]) : k \in DOMAIN v}
             A == {base(k) : k \in DOMAIN v \ DOMAIN r}
             D == {base(k) : k \in DOMAIN r \ DOMAIN v}
  <2>1. \A k : OffPath(base(k))
    BY OffNode DEF SubBase
  <2>2. SubDiff(b, s, n, r, v) = BothOf(F \cup {Adds(A), Deletes(D)})
    BY DEF SubDiff
  <2> HIDE DEF base, sub
  <2>3. \A c \in F : Off(c)
    BY <2>1, OffFlat
  <2>4. Off(Adds(A)) /\ Off(Deletes(D))
    BY <2>1, OffPuts, OffDeletes
  <2> HIDE DEF F, A, D
  <2>5. \A c \in F \cup {Adds(A), Deletes(D)} : Off(c)
    BY <2>3, <2>4
  <2>6. Off(BothOf(F \cup {Adds(A), Deletes(D)}))
    BY <2>5, OffBothOf
  <2> QED BY <2>2, <2>6
<1> DEFINE S == {FlatDiff(b, s, l, u)} \cup {SubDiff(b, s, n, l[n], u[n]) : n \in Subs(s)}
<1>2. \A c \in S : Off(c)
  BY <1>1, OffFlat
<1>3. Diff(b, s, l, u) = BothOf(S)
  BY DEF Diff
<1> HIDE DEF S
<1> QED BY <1>2, <1>3, OffBothOf

\* The pages that write to the section of the DHCP server.
Dhcp == {"dhcp_server", "dhcp_subnet", "dhcp_range", "dhcp_mapping"}

\* The diffs of the other pages leave that section alone: descriptions,
LEMMA OffEncode ==
  ASSUME NEW b, OffPath(b), NEW mark, NEW l, NEW u
  PROVE  Off(EncodeDiff(b, mark, l, u))
<1> DEFINE d == b \o <<"description">>
           new == Encode(u, mark)
<1>1. OffPath(d)
  BY OffNode
<1>2. new = <<>> \/ (\E f : new = <<f>>) \/ \E f, v : new = <<f, v>>
  BY DEF Encode
<1> HIDE DEF d, new
<1>3. \A f, v : OffPath(d \o <<f>>) /\ OffPath(d \o <<f, v>>)
  BY <1>1, OffNode
<1>4. new # <<>> => OffPath(d \o <<new[1]>>) /\ OffPath(d \o new)
  <2>1. OffPath(d \o <<new[1]>>)
    BY <1>3
  <2>2. ASSUME NEW f, new = <<f>> PROVE OffPath(d \o new)
    BY <1>3, <2>2
  <2>3. ASSUME NEW f, NEW v, new = <<f, v>> PROVE OffPath(d \o new)
    BY <1>3, <2>3
  <2> QED BY <1>2, <2>1, <2>2, <2>3
<1>5. Off(Deletes({d}))
  BY <1>1, OffDeletes
<1>6. new # <<>> => Off(Batch({}, {d \o <<new[1]>>}, {d \o new}))
  BY <1>4, OffBatch
<1> QED BY <1>5, <1>6, OffNothing DEF EncodeDiff, d, new

\* marked descriptions,
LEMMA OffMarked ==
  ASSUME NEW b, OffPath(b), NEW mark, NEW s, NEW l, NEW u
  PROVE  Off(Both(EncodeDiff(b, mark, l, u), Diff(b, s, l, u)))
<1>1. Off(EncodeDiff(b, mark, l, u)) /\ Off(Diff(b, s, l, u))
  BY OffEncode, OffDiff
<1> QED BY <1>1, OffBoth

\* groups and zones,
LEMMA OffFirewall ==
  ASSUME NEW b, OffPath(b), NEW p, NEW isNew, NEW l, NEW u
  PROVE  Off(Alias_Diff(b, isNew, l, u)) /\ Off(PortGroup_Diff(b, l, u)) /\ Off(Zone_Diff(p, b, isNew, l, u))
<1>1. Off(Alias_Diff(b, isNew, l, u))
  <2>1. Off(Both(EncodeDiff(b, "display", l, u), Diff(b, Alias_Read, l, u)))
    BY OffMarked
  <2> QED BY <2>1, OffCreated DEF Alias_Diff
<1>2. Off(PortGroup_Diff(b, l, u))
  <2>1. Off(Both(EncodeDiff(b, "protocol", l, u), Diff(b, Policy_Read, l, u)))
    BY OffMarked
  <2> QED BY <2>1 DEF PortGroup_Diff
<1>3. Off(Zone_Diff(p, b, isNew, l, u))
  <2> DEFINE c == Created(b, isNew, Both(EncodeDiff(b, "display", l, u), Diff(b, Zone_Read, l, u)))
  <2>1. Off(Both(EncodeDiff(b, "display", l, u), Diff(b, Zone_Read, l, u)))
    BY OffMarked
  <2>2. Off(c)
    BY <2>1, OffCreated
  <2> HIDE DEF c
  <2>3. OffPath(StatePolicy)
    <3>1. StatePolicy \in Seq({"firewall_global-options", "state-policy", "accept"}) /\ StatePolicy # <<>>
          /\ StatePolicy[1] # Dhcp_At
      BY DEF StatePolicy, Dhcp_At
    <3> QED BY <3>1 DEF OffPath
  <2>4. Off(Adds({StatePolicy}))
    BY <2>3, OffPuts
  <2>5. Off(Both(c, Adds({StatePolicy})))
    BY <2>2, <2>4, OffBoth
  <2> QED BY <2>2, <2>5 DEF Zone_Diff, c
<1> QED BY <1>1, <1>2, <1>3

\* OSPF areas,
LEMMA OffOspf ==
  ASSUME NEW b, OffPath(b), NEW l, NEW u
  PROVE  Off(OspfArea_Diff(b, l, u))
<1> DEFINE p == NoSummary(b, u["area-type"])
<1>1. OffPath(p)
  <2> DEFINE t == u["area-type"]
             x == <<"area-type", t, "no-summary">>
  <2>1. x \in Seq({"area-type", t, "no-summary"})
    OBVIOUS
  <2>2. OffPath(b \o x)
    <3> HIDE DEF x
    <3> QED BY <2>1, OffBelow
  <2> QED BY <2>2 DEF NoSummary
<1> HIDE DEF p
<1>2. Off(Deletes({p})) /\ Off(Adds({p})) /\ Off(Diff(b, OspfArea_Write, l, u))
  BY <1>1, OffDeletes, OffPuts, OffDiff
<1> DEFINE quiet == u["area-type"] = None \/ (l["area-type"] = u["area-type"] /\ l["no-summary"]) = u["no-summary"]
           was == l["area-type"] = u["area-type"] /\ l["no-summary"]
<1>3. OspfArea_Diff(b, l, u) = Both(Diff(b, OspfArea_Write, l, u),
          IF quiet THEN NoCommands ELSE IF was THEN Deletes({p}) ELSE Adds({p}))
  BY DEF OspfArea_Diff, p
<1> HIDE DEF quiet, was
<1>4. Off(IF quiet THEN NoCommands ELSE IF was THEN Deletes({p}) ELSE Adds({p}))
  BY <1>2, OffNothing
<1> QED BY <1>2, <1>3, <1>4, OffBoth

\* config-sync,
LEMMA OffSync ==
  ASSUME NEW b, OffPath(b), NEW l, NEW u, IsSection(l["section"]), IsSection(u["section"])
  PROVE  Off(ConfigSync_Diff(b, l, u))
<1> DEFINE A == {SectionPath(b, s) : s \in u["section"] \ l["section"]}
           D == {SectionPath(b, s) : s \in l["section"] \ u["section"]}
<1>1. ASSUME NEW x, x = <<x[1], x[2]>> PROVE OffPath(SectionPath(b, x))
  <2>1. OffPath(b \o <<"section", x[1]>>)
    BY OffNode
  <2>2. OffPath(b \o <<"section">>)
    BY OffNode
  <2> DEFINE c == b \o <<"section">>
             y == x[1]
             z == x[2]
  <2> HIDE DEF c, y, z
  <2>3. OffPath(c \o <<y, z>>)
    BY <2>2, OffNode DEF c
  <2>4. OffPath(b \o <<"section">> \o x)
    BY <1>1, <2>3 DEF c, y, z
  <2> QED BY <2>1, <2>4 DEF SectionPath
<1>2. \A q \in A \cup D : OffPath(q)
  BY <1>1 DEF IsSection
<1> HIDE DEF A, D
<1>3. Off(Adds(A)) /\ Off(LateDeletes(D))
  BY <1>2, OffPuts, OffDeletes
<1>4. \A c \in {FlatDiff(b, ConfigSync_Leaves, l, u), Adds(A), LateDeletes(D)} : Off(c)
  BY <1>3, OffFlat
<1>5. Off(BothOf({FlatDiff(b, ConfigSync_Leaves, l, u), Adds(A), LateDeletes(D)}))
  BY <1>4, OffBothOf
<1> QED BY <1>5 DEF ConfigSync_Diff, A, D

\* VXLAN interfaces,
LEMMA OffVxlan ==
  ASSUME NEW b, OffPath(b), NEW isNew, NEW l, NEW u
  PROVE  Off(Vxlan_Diff(b, isNew, l, u))
<1> DEFINE forced == [u EXCEPT !["external"] = @ \/ DOMAIN u["vlan-to-vni"] # {}]
           was == IF isNew THEN None ELSE l["bridge"]
           paths(x) == IF x = None THEN {} ELSE {MemberOf(x, b[2])}
<1>1. Off(Diff(b, Vxlan_Write, l, forced))
  BY OffDiff
<1>2. Off(Created(b, isNew, Diff(b, Vxlan_Write, l, forced)))
  BY <1>1, OffCreated
<1>3. \A x : \A q \in paths(x) : OffPath(q)
  <2> SUFFICES ASSUME NEW x PROVE OffPath(MemberOf(x, b[2]))
    OBVIOUS
  <2> DEFINE n == b[2]
             q == MemberOf(x, n)
  <2>1. q \in Seq({"interfaces_bridge", x, "member_interface", n}) /\ q # <<>> /\ q[1] # Dhcp_At
    BY DEF MemberOf, Dhcp_At
  <2> QED BY <2>1 DEF OffPath
<1> HIDE DEF paths
<1>4. Off(Batch(paths(was), {}, paths(u["bridge"])))
  BY <1>3, OffBatch
<1>5. Off(IF was = u["bridge"] THEN NoCommands ELSE Batch(paths(was), {}, paths(u["bridge"])))
  BY <1>4, OffNothing
<1>6. Vxlan_Diff(b, isNew, l, u) = Both(Created(b, isNew, Diff(b, Vxlan_Write, l, forced)),
          IF was = u["bridge"] THEN NoCommands ELSE Batch(paths(was), {}, paths(u["bridge"])))
  BY DEF Vxlan_Diff, paths
<1> HIDE DEF was, forced
<1> QED BY <1>2, <1>5, <1>6, OffBoth

\* NAT rules,
LEMMA OffRule == \A section, n : OffPath(NatRule_At(section, n))
<1> SUFFICES ASSUME NEW section, NEW n PROVE OffPath(NatRule_At(section, n))
  OBVIOUS
<1> DEFINE q == NatRule_At(section, n)
<1>1. q \in Seq({"nat", section, n}) /\ q # <<>> /\ q[1] # Dhcp_At
  BY DEF NatRule_At, Dhcp_At
<1> QED BY <1>1 DEF OffPath

\* (their batches)
LEMMA OffNat ==
  ASSUME NEW t, NEW known, NEW section, NEW k, NEW to, NEW u
  PROVE  Off(NatRule_Diff(t, known, section, k, to, u))
<1> DEFINE b == NatRule_At(section, to)
           moved == k \notin {None, to}
           isNew == moved \/ to \notin known
           live == IF isNew THEN Blank(NatRule_Write) ELSE NatRule_Row(t, section, to)
<1>1. NatRule_Diff(t, known, section, k, to, u) =
        Both(IF moved THEN Deletes({NatRule_At(section, k)}) ELSE NoCommands, Created(b, isNew, Diff(b, NatRule_Write, live, u)))
  BY DEF NatRule_Diff
<1>2. OffPath(b) /\ OffPath(NatRule_At(section, k))
  BY OffRule
<1> HIDE DEF b, moved, isNew, live
<1>3. Off(Diff(b, NatRule_Write, live, u))
  BY <1>2, OffDiff
<1>4. Off(Created(b, isNew, Diff(b, NatRule_Write, live, u)))
  BY <1>2, <1>3, OffCreated
<1>5. Off(Deletes({NatRule_At(section, k)}))
  BY <1>2, OffDeletes
<1>6. Off(IF moved THEN Deletes({NatRule_At(section, k)}) ELSE NoCommands)
  BY <1>5, OffNothing
<1> QED BY <1>1, <1>4, <1>6, OffBoth

\* 1-to-1 mappings,
LEMMA OffStaticNat ==
  ASSUME NEW t, NEW k, NEW to, NEW u
  PROVE  Off(StaticNat_Diff(t, k, to, u))
<1> DEFINE S == {NatRule_Diff(t, NatRules(t, sec), sec, k, to, StaticPair(u)[sec]) : sec \in {"source", "destination"}}
<1>1. \A c \in S : Off(c)
  BY OffNat
<1> HIDE DEF S
<1>2. Off(BothOf(S))
  BY <1>1, OffBothOf
<1> QED BY <1>2 DEF StaticNat_Diff, S

\* the general settings,
LEMMA OffGeneral ==
  ASSUME NEW b, OffPath(b), NEW l, NEW u
  PROVE  Off(General_Diff(b, l, u))
<1> DEFINE was == l["ntp_server"]
           to == u["ntp_server"]
           D == {Append(NtpServers, v) : v \in was \ to}
           A == {Append(NtpServers, v) : v \in to \ was}
<1>1. OffPath(Ntp)
  <2>1. Ntp \in Seq({"service_ntp", ""}) /\ Ntp # <<>> /\ Ntp[1] # Dhcp_At
    BY DEF Ntp, Dhcp_At
  <2> QED BY <2>1 DEF OffPath
<1>2. OffPath(NtpServers)
  BY <1>1, OffNode DEF NtpServers
<1>3. \A v : OffPath(Append(NtpServers, v))
  <2> SUFFICES ASSUME NEW v PROVE OffPath(Append(NtpServers, v))
    OBVIOUS
  <2>1. NtpServers \in Seq(Text)
    BY NtpPaths
  <2>2. OffPath(NtpServers \o <<v>>)
    BY <1>2, OffNode
  <2> DEFINE V == Text \cup {v}
  <2>3. NtpServers \in Seq(V) /\ v \in V
    BY <2>1
  <2> HIDE DEF V
  <2>4. Append(NtpServers, v) = NtpServers \o <<v>>
    BY <2>3
  <2> QED BY <2>2, <2>4
<1>4. \A q \in D \cup A : OffPath(q)
  BY <1>3
<1> DEFINE first == to = {} /\ was # {}
<1>5. General_Diff(b, l, u) = Both(Diff(b, General_Write, l, u), IF first THEN Deletes({Ntp}) ELSE Batch(D, {}, A))
  BY DEF General_Diff
<1> HIDE DEF D, A, was, to, first
<1>6. Off(Deletes({Ntp})) /\ Off(Batch(D, {}, A)) /\ Off(Diff(b, General_Write, l, u))
  BY <1>1, <1>4, OffDeletes, OffBatch, OffDiff
<1>7. Off(IF first THEN Deletes({Ntp}) ELSE Batch(D, {}, A))
  BY <1>6
<1> QED BY <1>5, <1>6, <1>7, OffBoth

\* users,
LEMMA OffUser ==
  ASSUME NEW b, OffPath(b), NEW isNew, NEW l, NEW u
  PROVE  Off(User_Diff(b, isNew, l, u))
<1> DEFINE keys == u["public-keys"]
           was == l["public-keys"]
           changed == {id \in DOMAIN keys : id \notin DOMAIN was \/ was[id] # keys[id]}
           at(id) == b \o <<"public-keys", id>>
           D == {at(id) : id \in DOMAIN was \ DOMAIN keys}
           leaf(id, f) == at(id) \o <<f, keys[id][f]>>
           P == {leaf(id, f) : id \in changed, f \in {"type", "key"}}
           S == {FlatDiff(b, User_Write, l, u), Deletes(D), Puts(P)}
<1>1. \A id : OffPath(at(id))
  BY OffNode
<1>2. \A id, f : OffPath(leaf(id, f))
  <2> SUFFICES ASSUME NEW id, NEW f PROVE OffPath(leaf(id, f))
    OBVIOUS
  <2> DEFINE v == keys[id][f]
             w == at(id)
  <2>1. OffPath(w)
    BY <1>1
  <2> HIDE DEF w, v
  <2>2. OffPath(w \o <<f, v>>)
    BY <2>1, OffNode
  <2> QED BY <2>2 DEF w, v
<1> HIDE DEF at
<1>3. (\A q \in D : OffPath(q)) /\ \A q \in P : OffPath(q)
  <2> HIDE DEF leaf
  <2> QED BY <1>1, <1>2
<1>4. User_Diff(b, isNew, l, u) = Created(b, isNew, BothOf(S))
  BY DEF User_Diff, at
<1> HIDE DEF D, P, keys, was, changed
<1>5. \A c \in S : Off(c)
  BY <1>3, OffDeletes, OffPuts, OffFlat
<1> HIDE DEF S
<1>6. Off(BothOf(S))
  BY <1>5, OffBothOf
<1> QED BY <1>4, <1>6, OffCreated

\* OpenVPN interfaces
LEMMA OffOpenvpn ==
  ASSUME NEW b, OffPath(b), NEW isNew, NEW l, NEW u
  PROVE  Off(Openvpn_Diff(b, isNew, l, u))
<1> DEFINE s == Openvpn_Write
           switched == ~isNew /\ l["mode"] # u["mode"]
           old == IF isNew \/ switched THEN Blank(s) ELSE l
           sent == [s EXCEPT !.leaf = @ \ (OfSomeMode \ ModeFields[u["mode"]])]
           base == [f \in OfSomeMode |-> old[f]] @@ l
           group(r, n) == IF "" \in DOMAIN r[n] THEN r[n][""] ELSE Blank(s.gates[n])
           purge == IF switched THEN MODE_NODES[l["mode"]] \cup {x \in {"tls_role"} : l["mode"] = "site-to-site" /\ l[x] # None}
                    ELSE {}
           mode == IF isNew \/ switched THEN {b \o <<"mode", u["mode"]>>} ELSE {}
           D == {b \o <<n>> : n \in purge}
           G == {FlatDiff(b \o <<n>>, s.gates[n], group(base, n), group(u, n)) : n \in DOMAIN s.gates \cap ModeFields[u["mode"]]}
           S == {FlatDiff(b, sent, base, u), Batch(D, mode, {})} \cup G
<1>1. Openvpn_Diff(b, isNew, l, u) = BothOf(S)
  BY DEF Openvpn_Diff
<1>2. \A q \in D \cup mode : OffPath(q)
  BY OffNode
<1>3. \A n : OffPath(b \o <<n>>)
  BY OffNode
<1>4. \A c \in G : Off(c)
  <2> HIDE DEF group, base, s
  <2> SUFFICES ASSUME NEW n PROVE Off(FlatDiff(b \o <<n>>, s.gates[n], group(base, n), group(u, n)))
    OBVIOUS
  <2> DEFINE c == b \o <<n>>
  <2>1. OffPath(c)
    BY <1>3
  <2> HIDE DEF c
  <2>2. Off(FlatDiff(c, s.gates[n], group(base, n), group(u, n)))
    BY <2>1, OffFlat
  <2> QED BY <2>2 DEF c
<1> HIDE DEF G, D, mode, sent, base
<1>5. Off(Batch(D, mode, {})) /\ Off(FlatDiff(b, sent, base, u))
  BY <1>2, OffBatch, OffFlat
<1>6. \A c \in S : Off(c)
  BY <1>4, <1>5
<1> HIDE DEF S
<1> QED BY <1>1, <1>6, OffBothOf

\* and static routes.
LEMMA OffRoute ==
  ASSUME NEW p, NEW k, NEW V, k = <<>> \/ k \in Seq(V), NEW to \in Seq(V), NEW u
  PROVE  Off(StaticRoute_Diff(p, k, to, u)) /\ OffPath(StaticDrop(p, k))
<1>1. \A j : j = <<>> \/ j \in Seq(V) => OffPath(HopPath(j)) /\ OffPath(RouteBase(j))
  <2> SUFFICES ASSUME NEW j, j = <<>> \/ j \in Seq(V) PROVE OffPath(HopPath(j)) /\ OffPath(RouteBase(j))
    OBVIOUS
  <2> DEFINE a == <<StaticRoute_At>>
  <2>1. OffPath(a)
    <3>1. a \in Seq({StaticRoute_At}) /\ a # <<>> /\ a[1] # Dhcp_At
      BY DEF StaticRoute_At, Dhcp_At
    <3> QED BY <3>1 DEF OffPath
  <2>2. j \in Seq(V)
    <3>1. <<>> \in Seq(V)
      OBVIOUS
    <3> QED BY <3>1
  <2> DEFINE x == j[1]
  <2> HIDE DEF a, x
  <2>3. OffPath(a \o j)
    BY <2>1, <2>2, OffBelow
  <2> DEFINE r == <<StaticRoute_At, x>>
  <2>4. r \in Seq({StaticRoute_At, x}) /\ r # <<>> /\ r[1] # Dhcp_At
    BY DEF StaticRoute_At, Dhcp_At
  <2>5. OffPath(r)
    BY <2>4 DEF OffPath
  <2> QED BY <2>3, <2>5 DEF HopPath, RouteBase, a, x
<1> DEFINE moved == k # <<>> /\ k # to
           known == k = to /\ k \in StaticRoute_Keys(p)
           live == IF known THEN StaticRoute_Row(p, k) ELSE Blank(StaticRoute_Read)
           hop == FlatDiff(HopPath(to), StaticHop(to[2]), live, u)
           wipedHere == moved /\ Siblings(p, k) = {} /\ k[1] = to[1]
           liveDesc == IF wipedHere \/ \A h \in StaticRoute_Keys(p) : h[1] # to[1]
                       THEN None ELSE Val(p, RouteBase(to) \o <<"description">>)
           desc == FlatDiff(RouteBase(to), Schema({"description"}, {}, {}), "description" :> liveDesc, u)
           S == {hop, desc, IF known THEN NoCommands ELSE Adds({HopPath(to)}),
                 IF moved THEN Deletes({StaticDrop(p, k)}) ELSE NoCommands}
<1>2. StaticRoute_Diff(p, k, to, u) = BothOf(S)
  BY DEF StaticRoute_Diff
<1>3. OffPath(HopPath(to)) /\ OffPath(RouteBase(to)) /\ OffPath(HopPath(k)) /\ OffPath(RouteBase(k))
  BY <1>1
<1>4. OffPath(StaticDrop(p, k))
  BY <1>3 DEF StaticDrop
<1>5. Off(hop) /\ Off(desc)
  <2>1. Off(hop)
    <3> HIDE DEF live
    <3> QED BY <1>3, OffFlat
  <2>2. Off(desc)
    <3> HIDE DEF liveDesc
    <3> QED BY <1>3, OffFlat
  <2> QED BY <2>1, <2>2
<1>6. Off(Adds({HopPath(to)})) /\ Off(Deletes({StaticDrop(p, k)}))
  BY <1>3, <1>4, OffPuts, OffDeletes
<1> HIDE DEF hop, desc, moved, known
<1>7. \A c \in S : Off(c)
  BY <1>5, <1>6, OffNothing
<1> HIDE DEF S
<1>8. Off(BothOf(S))
  BY <1>7, OffBothOf
<1> QED BY <1>2, <1>4, <1>8

\* The name of a subnet of the DHCP server, its node, and the node of its id.
IsSubnet(j) == j \in Seq(Text) /\ Len(j) = 3 /\ j[2] = "subnet"
SubnetAt(j) == <<Dhcp_At>> \o j
IdAt(j) == <<Dhcp_At>> \o j \o <<"subnet-id">>

\* Their names are texts.
LEMMA DhcpText == Dhcp_At \in Text /\ "subnet-id" \in Text /\ "subnet" \in Text
BY TextAssumption DEF Keywords, Dhcp_At

\* What these look like.
LEMMA SubnetNode ==
  ASSUME NEW j, IsSubnet(j)
  PROVE  /\ SubnetAt(j) \in Seq(Text) /\ Len(SubnetAt(j)) = 4 /\ SubnetAt(j)[1] = Dhcp_At /\ SubnetAt(j)[3] = "subnet"
         /\ \A i \in 1..3 : SubnetAt(j)[i + 1] = j[i]
         /\ SubSeq(SubnetAt(j), 2, 4) = j
         /\ IdAt(j) \in Seq(Text) /\ Len(IdAt(j)) = 5 /\ IdAt(j)[1] = Dhcp_At /\ IdAt(j)[3] = "subnet" /\ IdAt(j)[5] = "subnet-id"
         /\ Under(SubnetAt(j), IdAt(j))
<1> DEFINE a == SubnetAt(j)
           d == IdAt(j)
<1>1. j \in Seq(Text) /\ Len(j) = 3 /\ j[2] = "subnet" /\ Dhcp_At \in Text
  BY DhcpText DEF IsSubnet
<1>2. /\ a \in Seq(Text) /\ Len(a) = Len(j) + 1 /\ a[1] = Dhcp_At /\ \A i \in 1..Len(j) : a[i + 1] = j[i]
      /\ Len(j) >= 1 => SubSeq(a, 2, Len(j) + 1) = j
  BY <1>1, KeyBack DEF SubnetAt
<1> HIDE DEF a
<1>3. a \in Seq(Text) /\ Len(a) = 4 /\ a[1] = Dhcp_At /\ (\A i \in 1..3 : a[i + 1] = j[i]) /\ SubSeq(a, 2, 4) = j
  BY <1>1, <1>2
<1>4. d \in Seq(Text) /\ Len(d) = 5 /\ d[1] = Dhcp_At /\ d[5] = "subnet-id" /\ \A i \in 1..3 : d[i + 1] = j[i]
  BY <1>1, SubnetIdPath DEF IdAt
<1>5. 2 \in 1..3 /\ 2 + 1 = 3
  OBVIOUS
<1>6. a[3] = "subnet" /\ d[3] = "subnet"
  BY <1>1, <1>3, <1>4, <1>5
<1> HIDE DEF d
<1>7. Under(a, d)
  <2>1. \A i \in 1..4 : a[i] = d[i]
    <3> SUFFICES ASSUME NEW i \in 1..4 PROVE a[i] = d[i]
      OBVIOUS
    <3>1. i = 1 \/ (i - 1 \in 1..3 /\ (i - 1) + 1 = i)
      OBVIOUS
    <3> QED BY <1>3, <1>4, <3>1
  <2> QED BY <1>3, <1>4, <2>1, UnderPrefix
<1> QED BY <1>3, <1>4, <1>6, <1>7 DEF a, d

\* The subnets of a configuration are those of its nodes.
LEMMA SubnetKeyIs ==
  ASSUME NEW t, IsConfig(t), NEW j
  PROVE  j \in Dhcp_Keys(t, <<"subnet">>) <=> IsSubnet(j) /\ SubnetAt(j) \in t
<1>0. Len(<<"subnet">>) = 1 /\ <<"subnet">>[1] = "subnet" /\ 2 * 1 + 2 = 4 /\ 1..1 = {1} /\ 2 * 1 + 1 = 3
  OBVIOUS
<1>1. ASSUME j \in Dhcp_Keys(t, <<"subnet">>) PROVE IsSubnet(j) /\ SubnetAt(j) \in t
  <2>1. IsSubnet(j)
    BY <1>1, SubnetKeys DEF IsSubnet
  <2>2. PICK q \in t : j = SubSeq(q, 2, 4) /\ Len(q) >= 4 /\ q[1] = Dhcp_At
    BY <1>0, <1>1 DEF Dhcp_Keys
  <2>3. Len(q) \in Nat /\ 4 \in Nat /\ 4 >= 2 /\ 4 <= Len(q)
    BY <2>2, ConfigOver
  <2>4. <<q[1]>> \o SubSeq(q, 2, 4) \in t
    BY <2>3, KeyOfNode
  <2> QED BY <2>1, <2>2, <2>4 DEF SubnetAt
<1>2. ASSUME IsSubnet(j), SubnetAt(j) \in t PROVE j \in Dhcp_Keys(t, <<"subnet">>)
  <2> DEFINE q == SubnetAt(j)
  <2>1. q \in t /\ Len(q) = 4 /\ q[1] = Dhcp_At /\ q[3] = "subnet" /\ SubSeq(q, 2, 4) = j
    BY <1>2, SubnetNode
  <2> HIDE DEF q
  <2>2. \A i \in 1..Len(<<"subnet">>) : q[2 * i + 1] = <<"subnet">>[i]
    BY <1>0, <2>1
  <2>3. 2 * Len(<<"subnet">>) + 2 = 4
    BY <1>0
  <2>4. Len(q) >= 2 * Len(<<"subnet">>) + 2
    BY <2>1, <2>3
  <2>5. q \in {r \in t : /\ Len(r) >= 2 * Len(<<"subnet">>) + 2 /\ r[1] = Dhcp_At
                        /\ \A i \in 1..Len(<<"subnet">>) : r[2 * i + 1] = <<"subnet">>[i]}
    BY ONLY <2>1, <2>2, <2>4
  <2>6. SubSeq(q, 2, 2 * Len(<<"subnet">>) + 2) \in Dhcp_Keys(t, <<"subnet">>)
    BY ONLY <2>5 DEF Dhcp_Keys
  <2> QED BY <2>1, <2>3, <2>6
<1> QED BY <1>1, <1>2

\* Two subnets have nodes apart.
LEMMA SubnetsApart ==
  ASSUME NEW j, IsSubnet(j), NEW n, IsSubnet(n), j # n
  PROVE  ~Comparable(SubnetAt(n), SubnetAt(j))
<1> DEFINE a == SubnetAt(j)
           d == SubnetAt(n)
<1>1. a \in Seq(Text) /\ Len(a) = 4 /\ SubSeq(a, 2, 4) = j /\ d \in Seq(Text) /\ Len(d) = 4 /\ SubSeq(d, 2, 4) = n
  BY SubnetNode
<1> HIDE DEF a, d
<1>2. Under(a, d) => a = d
  BY <1>1 DEF Under
<1>3. Under(d, a) => a = d
  BY <1>1 DEF Under
<1> QED BY <1>1, <1>2, <1>3 DEF Comparable, a, d

\* Where a batch changes something.
Places(c) == c.del \cup c.add \cup c.late \cup {Front(p) : p \in c.put}

\* They are paths.
LEMMA PlacesText ==
  ASSUME NEW c, IsGood(c)
  PROVE  Places(c) \subseteq Seq(Text)
<1>1. \A p \in c.put : p \in Seq(Text) /\ p # <<>>
  BY TextOf DEF IsGood
<1>2. \A p \in c.put : Front(p) \in Seq(Text)
  BY <1>1, FrontAbove
<1> QED BY <1>2 DEF Places, IsGood, IsBatch

\* What a commit takes away is under one of them, and what it adds comparable.
LEMMA PlacesAround ==
  ASSUME NEW t, IsConfig(t), NEW c, IsGood(c)
  PROVE  /\ \A q \in t \ Commit(t, c) : \E w \in Places(c) : Under(w, q)
         /\ \A q \in Commit(t, c) \ t : \E w \in Places(c) : Comparable(w, q)
<1>1. ASSUME NEW q \in t \ Commit(t, c) PROVE \E w \in Places(c) : Under(w, q)
  <2>1. \/ \E p \in c.del \cup c.late : Under(p, q)
        \/ \E p \in c.put : Under(Front(p), q)
    BY DEF Commit, Front
  <2> QED BY <2>1 DEF Places
<1>2. ASSUME NEW q \in Commit(t, c) \ t PROVE \E w \in Places(c) : Comparable(w, q)
  <2>1. PICK p \in c.put \cup c.add : q \in Nodes(p)
    BY CommitNew
  <2>2. p \in Seq(Text) /\ p # <<>>
    BY TextOf DEF IsGood
  <2>3. q \in Seq(Text)
    BY <2>1, <2>2, NodesAbove
  <2>4. Under(q, p)
    BY <2>1, <2>2, <2>3, NodesAbove
  <2>5. CASE p \in c.add
    BY <2>4, <2>5 DEF Places, Comparable
  <2>6. CASE p \in c.put
    <3>1. Under(Front(p), p) /\ (q = p \/ Under(q, Front(p)))
      BY <2>2, <2>3, <2>4, FrontAbove
    <3>2. Front(p) \in Places(c)
      BY <2>6 DEF Places
    <3> QED BY <3>1, <3>2 DEF Comparable
  <2> QED BY <2>5, <2>6
<1> QED BY <1>1, <1>2

\* A place that is neither a subnet nor its id, nor above one, nor below a
\* subnet that is not there.
Beside(t, w) ==
  /\ w \in Seq(Text) /\ w # <<>>
  /\ \/ w[1] # Dhcp_At
     \/ Len(w) >= 3 /\ w[3] # "subnet"
     \/ Len(w) >= 5 /\ w[5] # "subnet-id" /\ SubSeq(w, 1, 4) \in t

\* A place beside the subnets is not about one that is there, and about no id.
LEMMA BesideSubnet ==
  ASSUME NEW t, NEW w, Beside(t, w), NEW j, IsSubnet(j)
  PROVE  /\ Comparable(w, SubnetAt(j)) => SubnetAt(j) \in t /\ ~Under(w, SubnetAt(j))
         /\ ~Comparable(w, IdAt(j))
<1> DEFINE a == SubnetAt(j)
           d == IdAt(j)
<1>1. /\ a \in Seq(Text) /\ Len(a) = 4 /\ a[1] = Dhcp_At /\ a[3] = "subnet"
      /\ d \in Seq(Text) /\ Len(d) = 5 /\ d[1] = Dhcp_At /\ d[3] = "subnet" /\ d[5] = "subnet-id"
  BY SubnetNode
<1> HIDE DEF a, d
<1>2. w \in Seq(Text) /\ Len(w) \in Nat /\ Len(w) >= 1
  BY DEF Beside
<1>3. CASE w[1] # Dhcp_At
  <2>1. 1 \in 1..Len(w) /\ 1 \in 1..Len(a) /\ 1 \in 1..Len(d)
    BY <1>1, <1>2
  <2>2. ~Comparable(w, a) /\ ~Comparable(w, d)
    BY <1>1, <1>2, <1>3, <2>1, Differ
  <2> QED BY <2>2 DEF a, d
<1>4. CASE Len(w) >= 3 /\ w[3] # "subnet"
  <2>1. 3 \in 1..Len(w) /\ 3 \in 1..Len(a) /\ 3 \in 1..Len(d)
    BY <1>1, <1>2, <1>4
  <2>2. ~Comparable(w, a) /\ ~Comparable(w, d)
    BY <1>1, <1>2, <1>4, <2>1, Differ
  <2> QED BY <2>2 DEF a, d
<1>5. CASE Len(w) >= 5 /\ w[5] # "subnet-id" /\ SubSeq(w, 1, 4) \in t
  <2>1. 5 \in 1..Len(w) /\ 5 \in 1..Len(d)
    BY <1>1, <1>2, <1>5
  <2>2. ~Comparable(w, d)
    BY <1>1, <1>2, <1>5, <2>1, Differ
  <2>3. ~Under(w, a)
    BY <1>1, <1>2, <1>5 DEF Under
  <2>4. Under(a, w) => a = SubSeq(w, 1, 4)
    BY <1>1 DEF Under
  <2> QED BY <1>5, <2>2, <2>3, <2>4 DEF a, d, Comparable
<1> QED BY <1>3, <1>4, <1>5 DEF Beside

\* A batch beside the subnets, but those of N, keeps the others and their ids.
LEMMA SubnetsKept ==
  ASSUME NEW t, IsConfig(t), NEW c, IsGood(c), NEW N, \A n \in N : IsSubnet(n),
         \A w \in Places(c) : Beside(t, w) \/ \E n \in N : Under(SubnetAt(n), w),
         NEW j, IsSubnet(j), j \notin N
  PROVE  /\ SubnetAt(j) \in t <=> SubnetAt(j) \in Commit(t, c)
         /\ Val(Commit(t, c), IdAt(j)) = Val(t, IdAt(j))
<1> DEFINE a == SubnetAt(j)
           d == IdAt(j)
           T == Commit(t, c)
           P == Places(c)
<1>1. a \in Seq(Text) /\ d \in Seq(Text) /\ Under(a, d)
  BY SubnetNode
<1>2. P \subseteq Seq(Text)
  BY PlacesText
<1>3. /\ \A q \in t \ T : \E w \in P : Under(w, q)
      /\ \A q \in T \ t : \E w \in P : Comparable(w, q)
  BY PlacesAround
<1>4. IsConfig(T)
  BY GoodCommit
<1>5. t \in SUBSET Seq(Text) /\ T \in SUBSET Seq(Text)
  BY <1>4, ConfigOver
<1>6. ASSUME NEW w \in P PROVE (Comparable(w, a) => a \in t /\ ~Under(w, a)) /\ ~Comparable(w, d)
  <2>1. CASE Beside(t, w)
    BY <2>1, BesideSubnet
  <2>2. ASSUME NEW n \in N, Under(SubnetAt(n), w) PROVE ~Comparable(w, a) /\ ~Comparable(w, d)
    <3>1. ~Comparable(SubnetAt(n), a)
      BY SubnetsApart
    <3>2. SubnetAt(n) \in Seq(Text) /\ w \in Seq(Text)
      BY <1>2, SubnetNode
    <3>3. Under(a, a)
      BY <1>1, UnderOrder
    <3> DEFINE x == SubnetAt(n)
    <3> HIDE DEF a, d, x
    <3>4. x \in Seq(Text) /\ w \in Seq(Text) /\ ~Comparable(x, a) /\ Under(x, w)
      BY <2>2, <3>1, <3>2 DEF x
    <3>5. ~Comparable(w, a)
      BY <1>1, <3>3, <3>4, StayApart
    <3>6. ~Comparable(w, d)
      BY <1>1, <3>4, StayApart
    <3> QED BY <3>5, <3>6
  <2> QED BY <2>1, <2>2
<1> HIDE DEF a, d, T, P
<1>7. a \in t <=> a \in T
  BY <1>3, <1>6 DEF Comparable
<1>8. Same(t, T, d)
  <2> SUFFICES ASSUME NEW q \in Seq(Text), Under(d, q) PROVE q \in t <=> q \in T
    BY DEF Same
  <2>1. ASSUME NEW w \in P PROVE ~Comparable(w, q)
    <3>1. w \in Seq(Text) /\ Under(w, w) /\ ~Comparable(w, d)
      BY <1>2, <1>6, UnderOrder
    <3> QED BY <1>1, <3>1, StayApart
  <2> QED BY <1>3, <2>1 DEF Comparable
<1>9. Val(T, d) = Val(t, d)
  BY <1>1, <1>5, <1>8, ReadSame
<1> QED BY <1>7, <1>9 DEF a, d, T

\* An editor of another page keeps its objects outside the section.
LEMMA OffBase ==
  ASSUME NEW e \in DOMAIN Ed, e \notin Dhcp, NEW k, IsKey(e, k)
  PROVE  OffPath(Base(e, k)) /\ Ed[e].at # Dhcp_At
<1>1. Ed[e].at # Dhcp_At
  BY SubnetsAssumption DEF Dhcp
<1>2. Base(e, k) \in Seq(Text) /\ Base(e, k)[1] = Ed[e].at /\ Len(Base(e, k)) = Len(k) + 1
  BY KeyOfBase
<1>3. Len(Base(e, k)) >= 2
  BY KeyPath
<1> QED BY <1>1, <1>2, <1>3 DEF OffPath

\* So the diff of such an editor leaves the section alone,
LEMMA MadeOff ==
  ASSUME NEW e \in DOMAIN Ed, e \notin Dhcp, NEW p, NEW to, IsKey(e, to), NEW k, k = <<>> \/ IsKey(e, k),
         NEW isNew \in BOOLEAN, isNew => Ed[e].keyed, NEW l, Old(e, isNew, l), NEW u, IsRow(e, u)
  PROVE  Off(Made(e, p, k, to, Base(e, to), Ed[e].write, isNew, l, u))
<1> DEFINE b == Base(e, to)
           s == Ed[e].write
<1>1. OffPath(b)
  BY OffBase
<1>0. k = <<>> \/ k \in Seq(Text)
  BY KeyPath
<1>2. to \in Seq(Text)
  BY KeyPath
<1> HIDE DEF b, s
<1>5. Off(Diff(b, s, l, u))
  BY <1>1, OffDiff
<1> SUFFICES Off(Made(e, p, k, to, b, s, isNew, l, u))
  BY DEF b, s
<1>6. CASE e = "static_route"
  <2>1. Off(StaticRoute_Diff(p, k, to, u))
    BY <1>0, <1>2, OffRoute
  <2> QED BY <1>6, <2>1 DEF Made
<1>7. CASE e = "ospf_area"
  <2>1. Off(OspfArea_Diff(b, l, u))
    BY <1>1, OffOspf
  <2>2. Off(Created(b, isNew, OspfArea_Diff(b, l, u)))
    BY <1>1, <2>1, OffCreated
  <2> QED BY <1>7, <2>2 DEF Made
<1>8. CASE e \in {"prefix-list", "route-map"}
  <2>1. Off(IF isNew THEN Adds({b}) ELSE NoCommands)
    BY <1>1, OffPuts, OffNothing
  <2>2. Off(Policy_Diff(b, s, isNew, l, u))
    BY <1>5, <2>1, OffBoth DEF Policy_Diff
  <2> QED BY <1>8, <2>2 DEF Made
<1>9. CASE e = "config_sync"
  <2>1. ~Ed[e].keyed
    BY <1>9, EditorIs DEF ConfigSync, Panel, Editor
  <2>2. IsSection(l["section"]) /\ IsSection(u["section"])
    BY <1>9, <2>1, RowIs DEF Old, HasExtras, IsSection
  <2>3. Off(ConfigSync_Diff(b, l, u))
    BY <1>1, <2>2, OffSync
  <2> QED BY <1>9, <2>3 DEF Made
<1>10. CASE e = "vxlan"
  <2>1. Off(Vxlan_Diff(b, isNew, l, u))
    BY <1>1, OffVxlan
  <2> QED BY <1>10, <2>1 DEF Made
<1>11. CASE e \in {"nat_source", "nat_destination"}
  <2>1. Off(NatRule_Diff(p, NatRules(p, to[1]) \ SplitStatic(p), to[1], IF k = <<>> THEN None ELSE k[2], to[2], u))
    BY OffNat
  <2> QED BY <1>11, <2>1 DEF Made
<1>12. CASE e = "nat_static"
  <2>1. Off(StaticNat_Diff(p, IF k = <<>> THEN None ELSE k[1], to[1], u))
    BY OffStaticNat
  <2> QED BY <1>12, <2>1 DEF Made
<1>13. CASE e \in {"alias", "policy", "zone"}
  <2>1. Off(Alias_Diff(b, isNew, l, u)) /\ Off(PortGroup_Diff(b, l, u)) /\ Off(Zone_Diff(p, b, isNew, l, u))
    BY <1>1, OffFirewall
  <2> QED BY <1>13, <2>1 DEF Made
<1>16. CASE e = "general"
  <2>1. Off(General_Diff(b, l, u))
    BY <1>1, OffGeneral
  <2> QED BY <1>16, <2>1 DEF Made
<1>17. CASE e = "user"
  <2>1. Off(User_Diff(b, isNew, l, u))
    BY <1>1, OffUser
  <2> QED BY <1>17, <2>1 DEF Made
<1>18. CASE e = "openvpn"
  <2>1. Off(Openvpn_Diff(b, isNew, l, u))
    BY <1>1, OffOpenvpn
  <2> QED BY <1>18, <2>1 DEF Made
<1>19. CASE e \notin {"static_route", "ospf_area", "prefix-list", "route-map", "config_sync", "vxlan", "nat_source",
                     "nat_destination", "nat_static", "alias", "policy", "zone", "dhcp_server", "dhcp_subnet", "general",
                     "user", "openvpn"}
  <2>1. Off(Created(b, isNew, Diff(b, s, l, u)))
    BY <1>1, <1>5, OffCreated
  <2> QED BY <1>19, <2>1 DEF Made
<1>20. e \notin {"dhcp_server", "dhcp_subnet"}
  BY DEF Dhcp
<1> QED BY <1>6, <1>7, <1>8, <1>9, <1>10, <1>11, <1>12, <1>13, <1>16, <1>17, <1>18, <1>19, <1>20

\* What a save sends: the deletion of the object that is moved, and its diff.
MovedFrom(e, k, to) == IF Ed[e].renames /\ k \notin {<<>>, to} THEN {Base(e, k)} ELSE {}
IsNew(e, p, k, to) ==
  IF Ed[e].keyed /\ Ed[e].live = "page" THEN k \notin {<<>>, to} \/ to \notin KeysOf(e, p) ELSE k = <<>>
From(e, isNew, l) == IF isNew THEN Blank(Ed[e].write) ELSE l

\* (which is these two)
LEMMA CommandsAre ==
  ASSUME NEW e \in DOMAIN Ed, NEW p, NEW k, FormKey(e, k), NEW to, IsKey(e, to), NEW l, IsRow(e, l), NEW u,
         NEW n, n = IsNew(e, p, k, to)
  PROVE  /\ Commands(e, p, k, to, l, u)
              = Both(Deletes(MovedFrom(e, k, to)), Made(e, p, k, to, Base(e, to), Ed[e].write, n, From(e, n, l), u))
         /\ n \in BOOLEAN /\ (n => Ed[e].keyed) /\ Old(e, n, From(e, n, l))
         /\ k = <<>> \/ IsKey(e, k)
<1>1. n \in BOOLEAN /\ (n => Ed[e].keyed)
  BY NewIsKeyed DEF IsNew
<1>2. Old(e, n, From(e, n, l))
  BY DEF Old, From
<1>3. k = <<>> \/ IsKey(e, k)
  BY DEF FormKey
<1>4. MadeFrom(e, p, k, to, n, l, u) = Made(e, p, k, to, Base(e, to), Ed[e].write, n, From(e, n, l), u)
  BY DEF MadeFrom, From
<1>5. Commands(e, p, k, to, l, u) = Both(Deletes(MovedFrom(e, k, to)), MadeFrom(e, p, k, to, n, l, u))
  BY DEF Commands, MovedFrom, IsNew
<1> QED BY <1>1, <1>2, <1>3, <1>4, <1>5

\* so does its save
LEMMA CommandsOff ==
  ASSUME NEW e \in DOMAIN Ed, e \notin Dhcp, NEW p, NEW k, FormKey(e, k), NEW to, IsKey(e, to),
         NEW l, IsRow(e, l), NEW u, IsRow(e, u)
  PROVE  Off(Commands(e, p, k, to, l, u))
<1> DEFINE n == IsNew(e, p, k, to)
           m == Made(e, p, k, to, Base(e, to), Ed[e].write, n, From(e, n, l), u)
<1>1. /\ Commands(e, p, k, to, l, u) = Both(Deletes(MovedFrom(e, k, to)), m)
      /\ n \in BOOLEAN /\ (n => Ed[e].keyed) /\ Old(e, n, From(e, n, l))
      /\ k = <<>> \/ IsKey(e, k)
  BY CommandsAre
<1> HIDE DEF n
<1>2. Off(m)
  BY <1>1, MadeOff
<1>3. \A q \in MovedFrom(e, k, to) : OffPath(q)
  BY <1>1, OffBase DEF MovedFrom
<1>4. Off(Deletes(MovedFrom(e, k, to)))
  BY <1>3, OffDeletes
<1> HIDE DEF m
<1> QED BY <1>1, <1>2, <1>4, OffBoth

\* and so does its delete.
LEMMA DeletesOff ==
  ASSUME NEW e \in DOMAIN Ed, e \notin Dhcp, NEW p, NEW k, IsKey(e, k)
  PROVE  Off(DeleteCommands(e, p, k))
<1>1. CASE e = "static_route"
  <2>1. k \in Seq(Text)
    BY KeyPath
  <2>2. Off(StaticRoute_Diff(p, k, k, Blank(Ed[e].write))) /\ OffPath(StaticDrop(p, k))
    BY <2>1, OffRoute
  <2>3. Off(Deletes({StaticDrop(p, k)}))
    BY <2>2, OffDeletes
  <2> QED BY <1>1, <2>3 DEF DeleteCommands
<1>2. CASE e = "nat_static"
  <2>1. Off(Deletes({NatRule_At("source", k[1]), NatRule_At("destination", k[1])}))
    BY OffRule, OffDeletes
  <2> QED BY <1>2, <2>1 DEF DeleteCommands
<1>3. CASE e \notin {"static_route", "nat_static"}
  <2>1. Off(Deletes({Base(e, k)}))
    BY OffBase, OffDeletes
  <2> QED BY <1>3, <2>1 DEF DeleteCommands
<1> QED BY <1>1, <1>2, <1>3

\* A batch that leaves the section alone is beside the subnets.
LEMMA OffBeside ==
  ASSUME NEW c, IsGood(c), Off(c), NEW t
  PROVE  \A w \in Places(c) : Beside(t, w)
<1>1. Places(c) \subseteq Seq(Text)
  BY PlacesText
<1>2. ASSUME NEW w \in c.del \cup c.add \cup c.late PROVE Beside(t, w)
  <2>1. w # <<>> /\ w[1] # Dhcp_At /\ w \in Seq(Text)
    BY <1>1 DEF Off, OffPath, Places
  <2> QED BY <2>1 DEF Beside
<1>3. ASSUME NEW p \in c.put PROVE Beside(t, Front(p))
  <2>1. p \in Seq(Text) /\ Len(p) \in Nat /\ Len(p) >= 2 /\ p[1] # Dhcp_At
    BY TextOf DEF IsGood, Off, OffPath
  <2> DEFINE w == Front(p)
  <2>2. w \in Seq(Text) /\ Len(w) = Len(p) - 1 /\ w[1] = p[1]
    BY <2>1 DEF Front
  <2> HIDE DEF w
  <2>3. w # <<>>
    BY <2>1, <2>2
  <2>4. Beside(t, w)
    BY <2>1, <2>2, <2>3 DEF Beside
  <2> QED BY <2>4 DEF w
<1> QED BY <1>2, <1>3 DEF Places

\* Ids that are apart stay apart when none is added or changed ...
LEMMA ApartKept ==
  ASSUME NEW t, IsConfig(t), NEW T, IsConfig(T), IdsApart(t),
         \A j : IsSubnet(j) /\ SubnetAt(j) \in T => SubnetAt(j) \in t /\ Val(T, IdAt(j)) = Val(t, IdAt(j))
  PROVE  IdsApart(T)
<1> SUFFICES ASSUME NEW j, NEW k, j \in Dhcp_Keys(T, <<"subnet">>), k \in Dhcp_Keys(T, <<"subnet">>), j # k
             PROVE  Val(T, IdAt(j)) # Val(T, IdAt(k))
  BY DEF IdsApart, IdAt
<1>1. IsSubnet(j) /\ SubnetAt(j) \in T /\ IsSubnet(k) /\ SubnetAt(k) \in T
  BY SubnetKeyIs
<1>2. Val(T, IdAt(j)) = Val(t, IdAt(j)) /\ Val(T, IdAt(k)) = Val(t, IdAt(k))
  BY <1>1
<1>3. j \in Dhcp_Keys(t, <<"subnet">>) /\ k \in Dhcp_Keys(t, <<"subnet">>)
  BY <1>1, SubnetKeyIs
<1>4. Val(t, IdAt(j)) # Val(t, IdAt(k))
  BY <1>3 DEF IdsApart, IdAt
<1> QED BY <1>2, <1>4

\* ... and when one is added that no other has.
LEMMA ApartNew ==
  ASSUME NEW t, IsConfig(t), NEW T, IsConfig(T), IdsApart(t), NEW n,
         \A j : IsSubnet(j) /\ j # n /\ SubnetAt(j) \in T => SubnetAt(j) \in t /\ Val(T, IdAt(j)) = Val(t, IdAt(j)),
         \A j \in Dhcp_Keys(t, <<"subnet">>) : Val(t, IdAt(j)) # Val(T, IdAt(n))
  PROVE  IdsApart(T)
<1> SUFFICES ASSUME NEW j, NEW k, j \in Dhcp_Keys(T, <<"subnet">>), k \in Dhcp_Keys(T, <<"subnet">>), j # k
             PROVE  Val(T, IdAt(j)) # Val(T, IdAt(k))
  BY DEF IdsApart, IdAt
<1>1. IsSubnet(j) /\ SubnetAt(j) \in T /\ IsSubnet(k) /\ SubnetAt(k) \in T
  BY SubnetKeyIs
<1>2. /\ j # n => Val(T, IdAt(j)) = Val(t, IdAt(j)) /\ j \in Dhcp_Keys(t, <<"subnet">>)
      /\ k # n => Val(T, IdAt(k)) = Val(t, IdAt(k)) /\ k \in Dhcp_Keys(t, <<"subnet">>)
  BY <1>1, SubnetKeyIs
<1>3. CASE j # n /\ k # n
  <2>1. Val(t, IdAt(j)) # Val(t, IdAt(k))
    BY <1>2, <1>3 DEF IdsApart, IdAt
  <2> QED BY <1>2, <1>3, <2>1
<1>4. CASE j = n \/ k = n
  BY <1>2, <1>4
<1> QED BY <1>3, <1>4

\* The next id is the id of no subnet.
LEMMA NextFree ==
  ASSUME NEW e \in {"dhcp_server", "dhcp_subnet"}, NEW t, IsConfig(t), IsKnown(e, t)
  PROVE  /\ NextSubnetId(t) \in Word
         /\ \A j \in Dhcp_Keys(t, <<"subnet">>) : Val(t, IdAt(j)) # NextSubnetId(t)
<1>1. NextSubnetId(t) \in Word
  BY NextIdTyped
<1> SUFFICES ASSUME NEW j \in Dhcp_Keys(t, <<"subnet">>) PROVE Val(t, IdAt(j)) # NextSubnetId(t)
  BY <1>1
<1> DEFINE p == IdAt(j)
           v == Val(t, p)
<1>2. CASE v = None
  BY <1>1, <1>2 DEF Word
<1>3. CASE v # None
  <2>1. p \in Seq(Text) /\ Len(p) = 5 /\ p[1] = Dhcp_At /\ p[5] = "subnet-id"
    <3>1. IsSubnet(j)
      BY SubnetKeyIs
    <3> QED BY <3>1, SubnetNode
  <2>2. PICK q \in t : Len(q) >= Len(p) + 1 /\ SubSeq(q, 1, Len(p) + 1 - 1) = p /\ q[Len(p) + 1] = Val(t, p)
    BY <1>3, ValIn
  <2>3. IdOf(v) \in SubnetIds(t)
    BY <1>3 DEF SubnetIds, IdAt
  <2> HIDE DEF p
  <2>4. q \in Seq(Text) /\ Len(q) >= 6 /\ SubSeq(q, 1, 5) = p
    BY <2>1, <2>2, ConfigOver
  <2>5. q[1] = p[1] /\ q[5] = p[5] /\ q[6] = Val(t, p)
    BY <2>1, <2>2, <2>4
  <2>6. PICK i \in DOMAIN Decimal \ {Len(Decimal)} : q[6] = Decimal[i]
    BY <2>1, <2>4, <2>5 DEF IsKnown
  <2>7. v = Decimal[i]
    BY <2>5, <2>6
  <2> HIDE DEF v
  <2>8. IdOf(v) \in DOMAIN Decimal /\ Decimal[IdOf(v)] = v
    BY <2>7 DEF IdOf
  <2>9. SubnetIds(t) \subseteq 1..8
    BY IdsKnown
  <2>10. PICK n \in SubnetIds(t) \cup {0} : /\ \A m \in SubnetIds(t) : m <= n
                                          /\ 1 + n \in DOMAIN Decimal /\ NextSubnetId(t) = Decimal[1 + n]
    BY <2>9, NextIdIs
  <2>11. n \in Int /\ IdOf(v) \in Int /\ IdOf(v) <= n
    BY <2>3, <2>9, <2>10
  <2>12. IdOf(v) # 1 + n
    BY <2>11
  <2>13. v # NextSubnetId(t)
    BY <2>8, <2>10, <2>12, DecimalIs
  <2> QED BY <2>13 DEF v, p
<1> QED BY <1>2, <1>3

\* The places of batches together are those of one of them,
LEMMA PlacesBoth ==
  ASSUME NEW S, NEW w \in Places(BothOf(S))
  PROVE  \E c \in S : w \in Places(c)
<1>1. /\ \A p \in BothOf(S).del : \E c \in S : p \in c.del
      /\ \A p \in BothOf(S).put : \E c \in S : p \in c.put
      /\ \A p \in BothOf(S).add : \E c \in S : p \in c.add
      /\ BothOf(S).late = UNION {c.late : c \in S}
  BY BothParts
<1> HIDE DEF BothOf
<1> QED BY <1>1 DEF Places

\* and of a move and a diff those of either.
LEMMA PlacesAfter ==
  ASSUME NEW D, NEW m
  PROVE  Places(Both(Deletes(D), m)) \subseteq D \cup Places(m)
<1>1. Places(Deletes(D)) \subseteq D
  BY BatchFields DEF Places
<1>2. \A w \in Places(Both(Deletes(D), m)) : \E c \in {Deletes(D), m} : w \in Places(c)
  BY PlacesBoth DEF Both
<1> QED BY <1>1, <1>2

\* A batch about fields of schema s at base b.
Inside(b, s, c) ==
  /\ c.late = {}
  /\ \A w \in Places(c) \cup c.put : w \in Seq(Text) /\ \E f \in Flat(s) : Under(b \o <<f>>, w)

\* Such is the diff of a flat row,
LEMMA FlatInside ==
  ASSUME NEW b, IsPath(b), NEW s, IsFlatSchema(s), NEW l, \A f \in s.multi : l[f] \subseteq Text, NEW u, IsFlatRow(s, u)
  PROVE  Inside(b, s, FlatDiff(b, s, l, u))
<1> DEFINE d == FlatDiff(b, s, l, u)
<1>1. b \in Seq(Text) /\ Flat(s) \subseteq Text
  BY TextOf, NoneText DEF IsFlatSchema
<1>2. FlatTyped(s, u, Text)
  BY NoneText DEF IsFlatRow, FlatTyped, Word
<1>3. Within(Text, b, s, d)
  BY <1>1, <1>2, FlatWithin
<1>4. d.late = {}
  BY FlatParts
<1> HIDE DEF d
<1>5. ASSUME NEW w \in d.del \cup d.add PROVE w \in Seq(Text) /\ \E f \in Flat(s) : Under(b \o <<f>>, w)
  BY <1>3 DEF Within
<1>6. ASSUME NEW p \in d.put PROVE /\ p \in Seq(Text) /\ Front(p) \in Seq(Text)
                                  /\ \E f \in Flat(s) : Under(b \o <<f>>, p) /\ Under(b \o <<f>>, Front(p))
  <2>1. p \in Seq(Text) /\ p # <<>>
    BY <1>3 DEF Within
  <2>2. PICK f \in Flat(s) : Front(p) = b \o <<f>>
    BY <1>3 DEF Within
  <2>3. Front(p) \in Seq(Text) /\ Under(Front(p), p)
    BY <2>1, FrontAbove
  <2>4. Under(Front(p), Front(p))
    BY <2>3, UnderOrder
  <2> QED BY <2>1, <2>2, <2>3, <2>4
<1> QED BY <1>4, <1>5, <1>6 DEF Inside, Places, d

\* and of a row without sub-nodes.
LEMMA DiffInside ==
  ASSUME NEW b, IsPath(b), NEW s, IsSchema(s), Subs(s) = {}, NEW l, LiveOver(s, l, Text), NEW u, IsBody(s, u)
  PROVE  Inside(b, s, Diff(b, s, l, u))
<1> DEFINE d == FlatDiff(b, s, l, u)
           c == Diff(b, s, l, u)
<1>1. Inside(b, s, d)
  BY FlatInside DEF IsSchema, LiveOver, IsBody
<1>2. c = BothOf({d})
  BY DEF Diff
<1>3. /\ \A p : p \in BothOf({d}).put <=> \E x \in {d} : p \in x.put
      /\ BothOf({d}).late = UNION {x.late : x \in {d}}
  BY BothParts
<1>4. \A w \in Places(BothOf({d})) : \E x \in {d} : w \in Places(x)
  BY PlacesBoth
<1> HIDE DEF d, c
<1>5. c.late = {}
  BY <1>1, <1>2, <1>3 DEF Inside
<1>6. \A w \in Places(c) \cup c.put : w \in Places(d) \cup d.put
  BY <1>2, <1>3, <1>4
<1>7. Inside(b, s, c)
  BY <1>1, <1>5, <1>6 DEF Inside
<1> QED BY <1>7 DEF c

\* What is below a place beside the subnets is beside them too.
LEMMA BesideUnder ==
  ASSUME NEW t, NEW x, Beside(t, x), NEW w, w \in Seq(Text), Under(x, w)
  PROVE  Beside(t, w)
<1>1. x \in Seq(Text) /\ Len(x) \in Nat /\ Len(x) >= 1 /\ Len(w) \in Nat
  BY DEF Beside
<1>2. Len(x) <= Len(w) /\ \A i \in 1..Len(x) : x[i] = w[i]
  BY <1>1, UnderPrefix
<1>3. w # <<>>
  BY <1>1, <1>2
<1>4. CASE x[1] # Dhcp_At
  <2>1. x[1] = w[1]
    BY <1>1, <1>2
  <2> QED BY <1>3, <1>4, <2>1 DEF Beside
<1>5. CASE Len(x) >= 3 /\ x[3] # "subnet"
  <2>1. x[3] = w[3] /\ Len(w) >= 3
    BY <1>1, <1>2, <1>5
  <2> QED BY <1>3, <1>5, <2>1 DEF Beside
<1>6. CASE Len(x) >= 5 /\ x[5] # "subnet-id" /\ SubSeq(x, 1, 4) \in t
  <2>1. x[5] = w[5] /\ Len(w) >= 5
    BY <1>1, <1>2, <1>6
  <2>2. SubSeq(x, 1, 4) = SubSeq(w, 1, 4)
    <3> DEFINE y == SubSeq(x, 1, 4)
               z == SubSeq(w, 1, 4)
    <3>1. y \in Seq(Text) /\ Len(y) = 4 /\ z \in Seq(Text) /\ Len(z) = 4
          /\ \A i \in 1..4 : y[i] = x[i] /\ z[i] = w[i]
      BY <1>1, <1>2, <1>6
    <3>2. \A i \in 1..4 : x[i] = w[i]
      BY <1>1, <1>2, <1>6
    <3> HIDE DEF y, z
    <3>3. y = z
      BY <3>1, <3>2, SeqEqual
    <3> QED BY <3>3 DEF y, z
  <2> QED BY <1>3, <1>6, <2>1, <2>2 DEF Beside
<1> QED BY <1>4, <1>5, <1>6 DEF Beside

\* What is below a node is not below a node apart from it.
LEMMA ApartUnder ==
  ASSUME NEW x, x \in Seq(Text), NEW d, d \in Seq(Text), ~Comparable(x, d), NEW p, p \in Seq(Text), Under(x, p)
  PROVE  ~Under(d, p)
<1>1. ASSUME Under(d, p) PROVE FALSE
  <2>1. ~Comparable(p, p)
    BY <1>1, StayApart
  <2>2. Under(p, p)
    BY UnderOrder
  <2> QED BY <2>1, <2>2 DEF Comparable
<1> QED BY <1>1

\* The node of an id's value.
LEMMA IdValue ==
  ASSUME NEW d, d \in Seq(Text), Len(d) = 5, NEW v, v \in Text
  PROVE  d \o <<v>> \in Seq(Text) /\ Len(d \o <<v>>) = 6 /\ (d \o <<v>>)[6] = v /\ SubSeq(d \o <<v>>, 1, 5) = d
<1> DEFINE y == d \o <<v>>
           z == SubSeq(y, 1, 5)
<1>0. Len(d) + 1 = 6
  OBVIOUS
<1>1. y \in Seq(Text) /\ Len(y) = 6 /\ y[6] = v /\ \A i \in 1..5 : y[i] = d[i]
  <2>1. /\ y \in Seq(Text) /\ Len(y) = Len(d) + 1 /\ y[Len(d) + 1] = v
        /\ \A i \in 1..Len(d) : y[i] = d[i]
    <3>1. d \in Seq(Text) /\ v \in Text
      OBVIOUS
    <3> QED BY ONLY <3>1, Appended
  <2> QED BY <1>0, <2>1
<1> HIDE DEF y
<1>11. z \in Seq(Text)
  <2>1. y \in Seq(Text) /\ 1 \in 1..Len(y) /\ 5 \in 1..Len(y)
    BY <1>1
  <2> QED BY ONLY <2>1
<1>12. Len(z) = 5
  BY <1>1
<1>13. \A i \in 1..5 : z[i] = y[i]
  BY <1>1
<1>2. z \in Seq(Text) /\ Len(z) = 5 /\ \A i \in 1..5 : z[i] = y[i]
  BY <1>11, <1>12, <1>13
<1> HIDE DEF z
<1>3. z = d
  BY <1>1, <1>2, SeqEqual
<1> QED BY <1>1, <1>3 DEF y, z

\* Paths one under the other have the same sixth element.
LEMMA SixthOf ==
  ASSUME NEW y, y \in Seq(Text), Len(y) = 6, NEW q, q \in Seq(Text), Len(q) >= 6, Under(q, y)
  PROVE  q[6] = y[6]
<1>1. \A i \in 1..Len(q) : q[i] = y[i]
  BY UnderPrefix
<1> QED BY <1>1

\* A batch that adds a subnet with the next id keeps the ids apart.
LEMMA NewSubnetApart ==
  ASSUME NEW e \in {"dhcp_server", "dhcp_subnet"}, NEW t, IsConfig(t), IsKnown(e, t), IdsApart(t),
         NEW c, IsGood(c), c.late = {}, NEW n, IsSubnet(n), SubnetAt(n) \notin t,
         \A w \in Places(c) : Beside(t, w) \/ Under(SubnetAt(n), w),
         IdAt(n) \o <<NextSubnetId(t)>> \in c.put,
         \A p \in c.put \cup c.add : p = IdAt(n) \o <<NextSubnetId(t)>> \/ ~Under(IdAt(n), p)
  PROVE  IdsApart(Commit(t, c))
<1> DEFINE a == SubnetAt(n)
           d == IdAt(n)
           v == NextSubnetId(t)
           T == Commit(t, c)
           y == d \o <<v>>
<1>1. v \in Word /\ \A j \in Dhcp_Keys(t, <<"subnet">>) : Val(t, IdAt(j)) # v
  BY NextFree
<1>2. a \in Seq(Text) /\ Len(a) = 4 /\ d \in Seq(Text) /\ Len(d) = 5 /\ Under(a, d)
  BY SubnetNode
<1>3. IsConfig(T) /\ T \in SUBSET Seq(Text) /\ t \in SUBSET Seq(Text) /\ Rooted(t)
  BY GoodCommit, ConfigOver
<1>4. ASSUME NEW j, IsSubnet(j), j # n, SubnetAt(j) \in T PROVE SubnetAt(j) \in t /\ Val(T, IdAt(j)) = Val(t, IdAt(j))
  <2> DEFINE N == {n}
  <2>1. \A x \in N : IsSubnet(x)
    OBVIOUS
  <2>2. n \in N /\ j \notin N
    BY <1>4
  <2> HIDE DEF N
  <2>3. \A w \in Places(c) : Beside(t, w) \/ \E x \in N : Under(SubnetAt(x), w)
    BY <2>2
  <2>4. /\ SubnetAt(j) \in t <=> SubnetAt(j) \in Commit(t, c)
        /\ Val(Commit(t, c), IdAt(j)) = Val(t, IdAt(j))
    <3> HIDE DEF a, d, v, T, y
    <3>1. IsConfig(t) /\ IsGood(c) /\ IsSubnet(j)
      BY <1>4
    <3> QED BY ONLY <3>1, <2>1, <2>2, <2>3, SubnetsKept
  <2> QED BY <1>4, <2>4
<1>5. a \notin t /\ y \in c.put /\ \A p \in c.put \cup c.add : p = y \/ ~Under(d, p)
  OBVIOUS
<1> HIDE DEF a, d, v, T
<1>6. y \in Seq(Text) /\ Len(y) = 6 /\ y[6] = v /\ SubSeq(y, 1, 5) = d
  <2>1. v \in Text
    BY <1>1, TextOf DEF Word
  <2> QED BY <1>2, <2>1, IdValue
<1>7. y \in T
  <2>1. IsBatch(c, Text) /\ c.late = {}
    BY DEF IsGood
  <2>2. Under(y, y)
    BY <1>6, UnderOrder
  <2>3. y \in c.put \cup c.add
    BY <1>5
  <2>4. Len(y) >= 2
    BY <1>6
  <2> HIDE DEF y
  <2>5. y \in Commit(t, c)
    BY <1>3, <1>6, <2>1, <2>2, <2>3, <2>4, CommitNode
  <2> QED BY <2>5 DEF T
<1>8. ASSUME NEW q \in T, Len(q) >= 6, SubSeq(q, 1, 5) = d PROVE q[6] = v
  <2>0. q \in Seq(Text)
    BY <1>3
  <2>1. Under(d, q)
    BY <1>2, <1>8 DEF Under
  <2>2. q \notin t
    <3>1. Under(a, q)
      BY <1>2, <2>0, <2>1, UnderOrder
    <3>2. Len(a) >= 2
      BY <1>2
    <3> QED BY <1>2, <1>3, <1>5, <3>1, <3>2, RootedAbove
  <2>3. PICK p \in c.put \cup c.add : q \in Nodes(p)
    BY <2>2, CommitNew DEF T
  <2>4. p \in Seq(Text)
    BY TextOf DEF IsGood
  <2>5. Under(q, p)
    BY <2>0, <2>3, <2>4, NodesAbove
  <2>6. Under(d, p)
    BY <1>2, <2>0, <2>1, <2>4, <2>5, UnderOrder
  <2>7. p = y
    BY <1>5, <2>6
  <2>71. Under(q, y)
    BY <2>5, <2>7
  <2> HIDE DEF y
  <2>8. Len(q) >= 6
    BY <1>8
  <2> QED BY <1>6, <2>0, <2>71, <2>8, SixthOf
<1>9. Val(T, d) = v
  <2>1. Vals(T, d) = {v}
    <3>1. Len(d) + 1 = 6 /\ 6 - 1 = 5
      BY <1>2
    <3>2. Vals(T, d) = {q[6] : q \in {r \in T : Len(r) >= 6 /\ SubSeq(r, 1, 5) = d}}
      BY <3>1 DEF Vals
    <3> HIDE DEF y
    <3>3. y \in {r \in T : Len(r) >= 6 /\ SubSeq(r, 1, 5) = d}
      BY <1>6, <1>7
    <3> QED BY <1>6, <1>8, <3>2, <3>3
  <2> QED BY <2>1 DEF Val
<1>10. \A j \in Dhcp_Keys(t, <<"subnet">>) : Val(t, IdAt(j)) # Val(T, IdAt(n))
  BY <1>1, <1>9 DEF d
<1>11. IdsApart(T)
  BY <1>3, <1>4, <1>10, ApartNew
<1> QED BY <1>11 DEF T

\* What the four pages have in common.
LEMMA DhcpIs ==
  ASSUME NEW e \in DOMAIN Ed, e \in Dhcp
  PROVE  /\ Ed[e].at = Dhcp_At /\ Ed[e].keyed /\ Ed[e].live = "page"
         /\ Ed[e].renames <=> e \in {"dhcp_range", "dhcp_mapping"}
<1>1. CASE e = "dhcp_server"
  BY <1>1, EditorIs DEF Server, Editor
<1>2. CASE e = "dhcp_subnet"
  BY <1>2, EditorIs DEF Subnet, Editor
<1>3. CASE e = "dhcp_range"
  BY <1>3, EditorIs DEF DhcpRange, Editor
<1>4. CASE e = "dhcp_mapping"
  BY <1>4, EditorIs DEF Mapping, Editor
<1> QED BY <1>1, <1>2, <1>3, <1>4 DEF Dhcp

\* The first n elements of a sequence.
LEMMA Beginning ==
  ASSUME NEW V, NEW q \in Seq(V), NEW n \in Nat, n <= Len(q)
  PROVE  /\ SubSeq(q, 1, n) \in Seq(V) /\ Len(SubSeq(q, 1, n)) = n
         /\ \A i \in 1..n : SubSeq(q, 1, n)[i] = q[i]
OBVIOUS

\* A range or a mapping is below the subnet its key names.
LEMMA RangeBase ==
  ASSUME NEW e \in DOMAIN Ed, e \in {"dhcp_range", "dhcp_mapping"}, NEW k, IsKey(e, k)
  PROVE  /\ Base(e, k) \in Seq(Text) /\ Len(Base(e, k)) = 6 /\ Base(e, k)[5] \in {"range", "static-mapping"}
         /\ IsSubnet(SubSeq(k, 1, 3)) /\ SubSeq(Base(e, k), 1, 4) = SubnetAt(SubSeq(k, 1, 3))
<1> DEFINE b == Base(e, k)
           j == SubSeq(k, 1, 3)
           a == SubnetAt(j)
           z == SubSeq(b, 1, 4)
<1>1. Ed[e].at = Dhcp_At /\ Ed[e].keyed
  BY DhcpIs DEF Dhcp
<1>2. k \in Seq(Text) /\ Len(k) = 5 /\ k[2] = "subnet" /\ k[4] \in {"range", "static-mapping"}
  BY <1>1 DEF IsKey
<1>3. /\ b \in Seq(Text) /\ Len(b) = Len(k) + 1 /\ b[1] = Ed[e].at /\ \A i \in 1..Len(k) : b[i + 1] = k[i]
  <2>1. Ed[e].at \in Text
    BY TypeOfEditor
  <2>2. b = <<Ed[e].at>> \o k
    BY DEF Base
  <2>3. k \in Seq(Text)
    BY <1>2
  <2> HIDE DEF b
  <2> QED BY ONLY <2>1, <2>2, <2>3, KeyBack
<1>5. j \in Seq(Text) /\ Len(j) = 3 /\ \A i \in 1..3 : j[i] = k[i]
  <2>1. k \in Seq(Text) /\ 3 \in Nat /\ 3 <= Len(k)
    BY <1>2
  <2> QED BY ONLY <2>1, Beginning
<1>4. IsSubnet(j)
  <2>1. 2 \in 1..3
    OBVIOUS
  <2> HIDE DEF j
  <2> QED BY <1>2, <1>5, <2>1 DEF IsSubnet
<1>6. a \in Seq(Text) /\ Len(a) = 4 /\ a[1] = Dhcp_At /\ \A i \in 1..3 : a[i + 1] = j[i]
  BY <1>4, SubnetNode
<1> HIDE DEF b, j, a
<1>7. b \in Seq(Text) /\ Len(b) = 6 /\ b[1] = Dhcp_At /\ \A i \in 1..5 : b[i + 1] = k[i]
  BY <1>1, <1>2, <1>3
<1>8. z \in Seq(Text) /\ Len(z) = 4 /\ \A i \in 1..4 : z[i] = b[i]
  <2>1. b \in Seq(Text) /\ 4 \in Nat /\ 4 <= Len(b)
    BY <1>7
  <2> QED BY ONLY <2>1, Beginning
<1> HIDE DEF z
<1>9. \A i \in 1..4 : z[i] = a[i]
  <2> SUFFICES ASSUME NEW i \in 1..4 PROVE b[i] = a[i]
    BY <1>8
  <2>1. i = 1 \/ (i - 1 \in 1..3 /\ (i - 1) \in 1..5 /\ (i - 1) + 1 = i)
    OBVIOUS
  <2> QED BY <1>5, <1>6, <1>7, <2>1
<1>10. z = a
  BY <1>6, <1>8, <1>9, SeqEqual
<1>11. b[5] = k[4]
  <2>1. 4 \in 1..5 /\ 4 + 1 = 5
    OBVIOUS
  <2> QED BY <1>7, <2>1
<1> QED BY <1>2, <1>4, <1>7, <1>10, <1>11 DEF b, j, a, z

\* One of a subnet that is there is beside the subnets.
LEMMA RangePlace ==
  ASSUME NEW e \in DOMAIN Ed, e \in {"dhcp_range", "dhcp_mapping"}, NEW t, IsConfig(t), NEW k, IsKey(e, k),
         SubSeq(k, 1, 3) \in Dhcp_Keys(t, <<"subnet">>)
  PROVE  Beside(t, Base(e, k))
<1> DEFINE b == Base(e, k)
<1>1. b \in Seq(Text) /\ Len(b) = 6 /\ b[5] \in {"range", "static-mapping"} /\ SubSeq(b, 1, 4) = SubnetAt(SubSeq(k, 1, 3))
  BY RangeBase
<1>2. SubSeq(b, 1, 4) \in t
  BY <1>1, SubnetKeyIs
<1> HIDE DEF b
<1>3. Beside(t, b)
  BY <1>1, <1>2 DEF Beside
<1> QED BY <1>3 DEF b

\* A page that lists one shows its subnet.
LEMMA RangeHome ==
  ASSUME NEW e \in DOMAIN Ed, e \in {"dhcp_range", "dhcp_mapping"}, NEW t, IsConfig(t), IsKnown(e, t), NEW k \in KeysOf(e, t)
  PROVE  SubSeq(k, 1, 3) \in Dhcp_Keys(t, <<"subnet">>)
<1> DEFINE b == Base(e, k)
           a == SubnetAt(SubSeq(k, 1, 3))
<1>1. IsKey(e, k) /\ b \in t
  BY KeysTyped, DhcpIs DEF Dhcp
<1>2. b \in Seq(Text) /\ Len(b) = 6 /\ IsSubnet(SubSeq(k, 1, 3)) /\ SubSeq(b, 1, 4) = a
  BY <1>1, RangeBase
<1>3. a \in Seq(Text) /\ Len(a) = 4
  BY <1>2, SubnetNode
<1> HIDE DEF a, b
<1>4. Under(a, b)
  BY <1>2, <1>3 DEF Under
<1>5. a \in t
  <2>1. t \in SUBSET Seq(Text) /\ Rooted(t) /\ Len(a) >= 2
    BY <1>3, ConfigOver
  <2> QED BY <1>1, <1>3, <1>4, <2>1, RootedAbove
<1> QED BY <1>2, <1>5, SubnetKeyIs DEF a

\* A delete of a server or a subnet leaves the ids of the others.
LEMMA ShortDeletes ==
  ASSUME NEW t, IsConfig(t), IdsApart(t), NEW D, D \in SUBSET Seq(Text), \A p \in D : Len(p) <= 4
  PROVE  IdsApart(Commit(t, Deletes(D)))
<1> DEFINE T == Commit(t, Deletes(D))
<1>1. T = {q \in t : \A p \in D : ~Under(p, q)}
  BY Remaining
<1>2. IsConfig(T)
  BY GoodDeletes, GoodCommit
<1>3. t \in SUBSET Seq(Text) /\ T \in SUBSET Seq(Text)
  BY <1>2, ConfigOver
<1> HIDE DEF T
<1>4. ASSUME NEW j, IsSubnet(j), SubnetAt(j) \in T PROVE SubnetAt(j) \in t /\ Val(T, IdAt(j)) = Val(t, IdAt(j))
  <2> DEFINE a == SubnetAt(j)
             d == IdAt(j)
  <2>1. a \in Seq(Text) /\ Len(a) = 4 /\ d \in Seq(Text) /\ Under(a, d)
    BY <1>4, SubnetNode
  <2>2. a \in t /\ \A p \in D : ~Under(p, a)
    BY <1>1, <1>4
  <2> HIDE DEF a, d
  <2>3. ASSUME NEW q \in Seq(Text), Under(d, q), NEW p \in D PROVE ~Under(p, q)
    <3>1. p \in Seq(Text) /\ Len(p) <= 4 /\ ~Under(p, a)
      BY <2>2
    <3>2. Under(a, q)
      BY <2>1, <2>3, UnderOrder
    <3>3. ASSUME Under(p, q) PROVE FALSE
      <4>1. Under(a, p)
        BY <2>1, <3>1, <3>2, <3>3, UnderOrder
      <4>2. Len(p) = Len(a)
        BY <2>1, <3>1, <4>1 DEF Under
      <4>3. \A i \in 1..Len(a) : a[i] = p[i]
        <5>1. a \in Seq(Text) /\ p \in Seq(Text) /\ Under(a, p)
          BY <2>1, <3>1, <4>1
        <5> QED BY ONLY <5>1, UnderPrefix
      <4>4. Under(p, a)
        BY <2>1, <3>1, <4>2, <4>3, UnderPrefix
      <4> QED BY <3>1, <4>4
    <3> QED BY <3>3
  <2>4. Same(t, T, d)
    BY <1>1, <2>3 DEF Same
  <2>5. Val(T, d) = Val(t, d)
    BY <1>3, <2>1, <2>4, ReadSame
  <2> QED BY <2>2, <2>5 DEF a, d
<1>5. IdsApart(T)
  BY <1>2, <1>4, ApartKept
<1> QED BY <1>5 DEF T

\* A batch beside the subnets keeps all of them and their ids.
LEMMA BesideApart ==
  ASSUME NEW t, IsConfig(t), NEW c, IsGood(c), \A w \in Places(c) : Beside(t, w)
  PROVE  /\ IdsApart(t) => IdsApart(Commit(t, c))
         /\ Dhcp_Keys(Commit(t, c), <<"subnet">>) = Dhcp_Keys(t, <<"subnet">>)
<1> DEFINE N == {}
           T == Commit(t, c)
<1>1. \A n \in N : IsSubnet(n)
  OBVIOUS
<1>2. \A w \in Places(c) : Beside(t, w) \/ \E n \in N : Under(SubnetAt(n), w)
  OBVIOUS
<1>3. \A j : j \notin N
  OBVIOUS
<1> HIDE DEF N
<1>4. ASSUME NEW j, IsSubnet(j)
      PROVE  /\ SubnetAt(j) \in t <=> SubnetAt(j) \in T
             /\ Val(T, IdAt(j)) = Val(t, IdAt(j))
  <2>1. IsConfig(t) /\ IsGood(c) /\ IsSubnet(j) /\ j \notin N
    BY <1>3, <1>4
  <2> QED BY ONLY <1>1, <1>2, <2>1, SubnetsKept
<1>5. IsConfig(T)
  BY GoodCommit
<1> HIDE DEF T
<1>6. IdsApart(t) => IdsApart(T)
  BY <1>4, <1>5, ApartKept
<1>7. \A j : j \in Dhcp_Keys(T, <<"subnet">>) <=> j \in Dhcp_Keys(t, <<"subnet">>)
  BY <1>4, <1>5, SubnetKeyIs
<1>8. Dhcp_Keys(T, <<"subnet">>) = Dhcp_Keys(t, <<"subnet">>)
  <2> DEFINE X == Dhcp_Keys(T, <<"subnet">>)
             Y == Dhcp_Keys(t, <<"subnet">>)
  <2>1. \A j : j \in X <=> j \in Y
    BY <1>7
  <2>2. (\A x \in X : x \in Y) /\ \A x \in Y : x \in X
    BY <2>1
  <2>3. X \subseteq Y /\ Y \subseteq X
    BY <2>2
  <2> HIDE DEF X, Y
  <2>4. X = Y
    BY <2>3
  <2> QED BY <2>4 DEF X, Y
<1> QED BY <1>6, <1>8 DEF T

\* What another's delete does to the ids: nothing.
LEMMA DeletesApart ==
  ASSUME NEW e \in DOMAIN Ed, NEW t, IsConfig(t), IdsApart(t), NEW p, NEW k, IsKey(e, k),
         e \in {"dhcp_range", "dhcp_mapping"} => SubSeq(k, 1, 3) \in Dhcp_Keys(t, <<"subnet">>)
  PROVE  /\ IdsApart(Commit(t, DeleteCommands(e, p, k)))
         /\ e \in {"dhcp_range", "dhcp_mapping"} =>
              Dhcp_Keys(Commit(t, DeleteCommands(e, p, k)), <<"subnet">>) = Dhcp_Keys(t, <<"subnet">>)
<1> DEFINE c == DeleteCommands(e, p, k)
           b == Base(e, k)
<1>1. IsGood(c)
  <2>1. PICK D \in SUBSET Seq(Text) : c = Deletes(D)
    BY DeletesGood
  <2> QED BY <2>1, GoodDeletes
<1>2. e \in Dhcp => c = Deletes({b})
  BY DEF DeleteCommands, Dhcp
<1>3. b \in Seq(Text) /\ k \in Seq(Text) /\ Len(b) = Len(k) + 1
  BY KeyPath, KeyOfBase
<1> HIDE DEF c, b
<1>4. CASE e \notin Dhcp
  <2>1. Off(c)
    BY <1>4, DeletesOff DEF c
  <2>2. \A w \in Places(c) : Beside(t, w)
    BY <1>1, <2>1, OffBeside
  <2>3. IdsApart(Commit(t, c))
    BY <1>1, <2>2, BesideApart
  <2> QED BY <1>4, <2>3 DEF c, Dhcp
<1>5. CASE e \in {"dhcp_server", "dhcp_subnet"}
  <2>1. Len(k) <= 3
    <3>1. Ed[e].keyed
      BY <1>5, DhcpIs DEF Dhcp
    <3>2. e = "dhcp_subnet" => Len(k) = 3
      BY <3>1 DEF IsKey
    <3>3. e = "dhcp_server" => Len(k) = 1
      BY <3>1 DEF IsKey
    <3>4. Len(k) = 3 \/ Len(k) = 1
      BY <1>5, <3>2, <3>3
    <3>5. CASE Len(k) = 3
      BY ONLY <3>5
    <3>6. CASE Len(k) = 1
      BY ONLY <3>6
    <3> QED BY <3>4, <3>5, <3>6
  <2>2. {b} \in SUBSET Seq(Text) /\ \A x \in {b} : Len(x) <= 4
    BY <1>3, <2>1
  <2>3. IdsApart(Commit(t, Deletes({b})))
    BY <2>2, ShortDeletes
  <2> QED BY <1>2, <1>5, <2>3 DEF c, Dhcp
<1>6. CASE e \in {"dhcp_range", "dhcp_mapping"}
  <2>1. Beside(t, b)
    BY <1>6, RangePlace DEF b
  <2>2. \A w \in Places(Deletes({b})) : w = b
    BY BatchFields DEF Places
  <2>3. \A w \in Places(c) : Beside(t, w)
    BY <1>2, <1>6, <2>1, <2>2 DEF Dhcp
  <2>4. IdsApart(Commit(t, c)) /\ Dhcp_Keys(Commit(t, c), <<"subnet">>) = Dhcp_Keys(t, <<"subnet">>)
    BY <1>1, <2>3, BesideApart
  <2> QED BY <2>4 DEF c
<1> QED BY <1>4, <1>5, <1>6 DEF Dhcp

\* A batch about fields beside the subnets is beside them.
LEMMA InsideBeside ==
  ASSUME NEW b, NEW s, NEW c, Inside(b, s, c), NEW t, \A f \in Flat(s) : Beside(t, b \o <<f>>)
  PROVE  \A w \in Places(c) : Beside(t, w)
<1> SUFFICES ASSUME NEW w \in Places(c) PROVE Beside(t, w)
  OBVIOUS
<1>1. w \in Seq(Text) /\ \E f \in Flat(s) : Under(b \o <<f>>, w)
  BY DEF Inside
<1>2. PICK f \in Flat(s) : Under(b \o <<f>>, w)
  BY <1>1
<1> DEFINE x == b \o <<f>>
<1>3. Beside(t, x) /\ Under(x, w) /\ w \in Seq(Text)
  BY <1>1, <1>2
<1> HIDE DEF x
<1> QED BY ONLY <1>3, BesideUnder

\* The node of a field, at any path,
LEMMA FieldNode ==
  ASSUME NEW b, b \in Seq(Text), NEW f, f \in Text, Len(b) >= 1
  PROVE  LET x == b \o <<f>>
         IN  /\ x \in Seq(Text) /\ x # <<>> /\ Len(x) = Len(b) + 1 /\ x[Len(b) + 1] = f
             /\ SubSeq(x, 1, Len(b)) = b /\ Under(b, x)
<1> DEFINE x == b \o <<f>>
           n == Len(b)
           z == SubSeq(x, 1, n)
<1>1. /\ x \in Seq(Text) /\ Len(x) = Len(b) + 1 /\ x[Len(b) + 1] = f
      /\ \A i \in 1..Len(b) : x[i] = b[i]
  <2>1. b \in Seq(Text) /\ f \in Text
    OBVIOUS
  <2> QED BY ONLY <2>1, Appended
<1>2. x \in Seq(Text) /\ Len(x) = n + 1 /\ x[n + 1] = f /\ (\A i \in 1..n : x[i] = b[i]) /\ n \in Nat
  BY <1>1
<1> HIDE DEF x
<1>3. z \in Seq(Text) /\ Len(z) = n /\ \A i \in 1..n : z[i] = x[i]
  <2>1. x \in Seq(Text) /\ n \in Nat /\ n <= Len(x)
    BY <1>2
  <2> QED BY ONLY <2>1, Beginning
<1> HIDE DEF z
<1>4. z = b
  BY <1>2, <1>3, SeqEqual
<1>5. Under(b, x) /\ x # <<>>
  BY <1>2, <1>4 DEF Under, z
<1> QED BY <1>2, <1>4, <1>5 DEF x, z

\* of a server
LEMMA ObjectField ==
  ASSUME NEW b, b \in Seq(Text), Len(b) = 2, NEW f, f \in Text
  PROVE  LET x == b \o <<f>> IN x \in Seq(Text) /\ x # <<>> /\ Len(x) = 3 /\ x[3] = f
<1>1. Len(b) + 1 = 3 /\ Len(b) >= 1
  OBVIOUS
<1>2. LET x == b \o <<f>> IN x \in Seq(Text) /\ x # <<>> /\ Len(x) = Len(b) + 1 /\ x[Len(b) + 1] = f
  BY <1>1, FieldNode
<1> DEFINE x == b \o <<f>>
<1>3. x \in Seq(Text) /\ x # <<>> /\ Len(x) = Len(b) + 1 /\ x[Len(b) + 1] = f
  BY <1>2
<1> HIDE DEF x
<1> QED BY <1>1, <1>3 DEF x

\* and of a subnet.
LEMMA SubnetField ==
  ASSUME NEW b, b \in Seq(Text), Len(b) = 4, NEW f, f \in Text
  PROVE  LET x == b \o <<f>> IN x \in Seq(Text) /\ x # <<>> /\ Len(x) = 5 /\ x[5] = f /\ SubSeq(x, 1, 4) = b
<1>1. Len(b) + 1 = 5 /\ Len(b) >= 1
  OBVIOUS
<1> DEFINE x == b \o <<f>>
<1>2. x \in Seq(Text) /\ x # <<>> /\ Len(x) = Len(b) + 1 /\ x[Len(b) + 1] = f /\ SubSeq(x, 1, Len(b)) = b
  BY <1>1, FieldNode
<1> HIDE DEF x
<1>3. x \in Seq(Text) /\ x # <<>> /\ Len(x) = 5 /\ x[5] = f
  BY <1>1, <1>2
<1>4. SubSeq(x, 1, 4) = b
  BY <1>2
<1> QED BY <1>3, <1>4 DEF x

\* The fields of a server are beside its subnets ...
LEMMA ServerBeside ==
  ASSUME "dhcp_server" \in DOMAIN Ed, NEW b, IsPath(b), Len(b) = 2, NEW t,
         NEW l, LiveOver(Ed["dhcp_server"].write, l, Text), NEW u, IsBody(Ed["dhcp_server"].write, u)
  PROVE  /\ Inside(b, Server_Write, Diff(b, Server_Write, l, u))
         /\ \A w \in Places(Diff(b, Server_Write, l, u)) : Beside(t, w)
         /\ Flat(Server_Write) = {"description", "authoritative", "disable"}
<1> DEFINE z == Ed["dhcp_server"].write
           s == Server_Write
           F == {"description", "authoritative", "disable"}
<1>1. IsSchema(z) /\ Wider(z, s)
  BY TypeOfEditor, ServerIs
<1>2. IsSchema(s) /\ LiveOver(s, l, Text) /\ IsBody(s, u)
  BY <1>1, NarrowGood
<1>3. Flat(s) = F /\ Subs(s) = {}
  <2>1. s = Schema({"description"}, {}, {"authoritative", "disable"})
    BY DEF Server_Write, Server_Read
  <2>2. /\ s.leaf = {"description"} /\ s.multi = {} /\ s.flag = {"authoritative", "disable"} /\ s.secret = {}
        /\ DOMAIN s.pick = {} /\ Subs(s) = {}
    BY <2>1, PlainSchema
  <2> HIDE DEF s
  <2> QED BY <2>2 DEF Flat
<1>4. F \subseteq Text /\ "subnet" \notin F
  BY <1>2, <1>3, NoneText DEF IsSchema, IsFlatSchema
<1> HIDE DEF z, s, F
<1>5. Inside(b, s, Diff(b, s, l, u))
  BY <1>2, <1>3, DiffInside
<1>6. b \in Seq(Text)
  BY TextOf
<1>7. \A f \in Flat(s) : Beside(t, b \o <<f>>)
  <2> SUFFICES ASSUME NEW f \in F PROVE Beside(t, b \o <<f>>)
    BY <1>3
  <2> DEFINE x == b \o <<f>>
  <2>1. x \in Seq(Text) /\ x # <<>> /\ Len(x) = 3 /\ x[3] = f
    <3>1. b \in Seq(Text) /\ f \in Text /\ Len(b) = 2
      BY <1>4, <1>6
    <3> QED BY ONLY <3>1, ObjectField
  <2>2. f # "subnet"
    BY <1>4
  <2> HIDE DEF x
  <2>3. Beside(t, x)
    BY <2>1, <2>2 DEF Beside
  <2> QED BY <2>3 DEF x
<1>8. \A w \in Places(Diff(b, s, l, u)) : Beside(t, w)
  BY <1>5, <1>7, InsideBeside
<1> QED BY <1>3, <1>5, <1>8 DEF s, F

\* ... and those of a subnet that is there beside its id.
LEMMA SubnetBeside ==
  ASSUME NEW b, IsPath(b), Len(b) = 4,
         NEW l, LiveOver(Subnet_Write, l, Text), NEW u, IsBody(Subnet_Write, u)
  PROVE  /\ Inside(b, Subnet_Write, Diff(b, Subnet_Write, l, u))
         /\ \A t : b \in t => \A w \in Places(Diff(b, Subnet_Write, l, u)) : Beside(t, w)
         /\ Flat(Subnet_Write) \subseteq Text /\ "subnet-id" \notin Flat(Subnet_Write)
<1> DEFINE s == Subnet_Write
<1>1. IsSchema(s) /\ Subs(s) = {} /\ Flat(s) \subseteq {"option_default-router", "option_domain-name", "lease", "option_name-server"}
  BY DhcpSchemas DEF Flat
<1>2. Inside(b, s, Diff(b, s, l, u))
  BY <1>1, DiffInside
<1>3. b \in Seq(Text) /\ Flat(s) \subseteq Text /\ "subnet-id" \notin Flat(s)
  BY <1>1, TextOf, NoneText DEF IsSchema, IsFlatSchema
<1> HIDE DEF s
<1>4. ASSUME NEW t, b \in t PROVE \A w \in Places(Diff(b, s, l, u)) : Beside(t, w)
  <2>1. \A f \in Flat(s) : Beside(t, b \o <<f>>)
    <3> SUFFICES ASSUME NEW f \in Flat(s) PROVE Beside(t, b \o <<f>>)
      OBVIOUS
    <3> DEFINE x == b \o <<f>>
    <3>1. x \in Seq(Text) /\ x # <<>> /\ Len(x) = 5 /\ x[5] = f /\ SubSeq(x, 1, 4) = b
      <4>1. b \in Seq(Text) /\ f \in Text /\ Len(b) = 4
        BY <1>3
      <4> QED BY ONLY <4>1, SubnetField
    <3>2. f # "subnet-id"
      BY <1>3
    <3> HIDE DEF x
    <3>3. b \in t
      BY <1>4
    <3>4. SubSeq(x, 1, 4) \in t
      BY ONLY <3>1, <3>3, Zenon
    <3>5. x[5] # "subnet-id" /\ Len(x) >= 5
      BY ONLY <3>1, <3>2
    <3>6. Beside(t, x)
      BY ONLY <3>1, <3>4, <3>5, Zenon DEF Beside
    <3> QED BY <3>6 DEF x
  <2> QED BY <1>2, <2>1, InsideBeside
<1> QED BY <1>2, <1>3, <1>4 DEF s

\* What a range or a mapping is made of is beside the subnets.
LEMMA RangeMade ==
  ASSUME NEW e \in DOMAIN Ed, e \in {"dhcp_range", "dhcp_mapping"}, NEW t, IsConfig(t), NEW to, IsKey(e, to),
         SubSeq(to, 1, 3) \in Dhcp_Keys(t, <<"subnet">>), NEW isNew,
         NEW l, LiveOver(Ed[e].write, l, Text), NEW u, IsBody(Ed[e].write, u)
  PROVE  \A w \in Places(Created(Base(e, to), isNew, Diff(Base(e, to), Ed[e].write, l, u))) : Beside(t, w)
<1> DEFINE b == Base(e, to)
           s == Ed[e].write
           d == Diff(b, s, l, u)
<1>1. IsSchema(s)
  BY TypeOfEditor
<1>2. Subs(s) = {}
  <2>1. e = "dhcp_range" => s = Schema({"start", "stop"}, {}, {})
    BY EditorIs DEF DhcpRange, Editor, Range_Write, Range_Read
  <2>2. e = "dhcp_mapping" => s = Schema({"ip-address", "mac", "description"}, {}, {})
    BY EditorIs DEF Mapping, Editor, Mapping_Write, Mapping_Read
  <2> HIDE DEF s
  <2>3. CASE e = "dhcp_range"
    BY <2>1, <2>3, PlainSchema
  <2>4. CASE e = "dhcp_mapping"
    BY <2>2, <2>4, PlainSchema
  <2> QED BY <2>3, <2>4
<1>3. Beside(t, b)
  BY RangePlace
<1>4. IsPath(b)
  BY KeyPath
<1>5. Flat(s) \subseteq Text
  BY <1>1, NoneText DEF IsSchema, IsFlatSchema
<1> HIDE DEF b, s, d
<1>6. Inside(b, s, d)
  BY <1>1, <1>2, <1>4, DiffInside DEF s, d
<1>7. b \in Seq(Text) /\ Len(b) >= 1
  BY <1>4, TextOf
<1>8. \A f \in Flat(s) : Beside(t, b \o <<f>>)
  <2> SUFFICES ASSUME NEW f \in Flat(s) PROVE Beside(t, b \o <<f>>)
    OBVIOUS
  <2> DEFINE x == b \o <<f>>
  <2>1. b \in Seq(Text) /\ f \in Text /\ Len(b) >= 1
    BY <1>5, <1>7
  <2>2. x \in Seq(Text) /\ Under(b, x)
    BY ONLY <2>1, FieldNode
  <2> HIDE DEF x
  <2>3. Beside(t, x)
    BY <1>3, <2>2, BesideUnder
  <2> QED BY <2>3 DEF x
<1>9. \A w \in Places(d) : Beside(t, w)
  BY <1>6, <1>8, InsideBeside
<1>10. \A w \in Places(Adds({b})) : w = b
  BY BatchFields DEF Places
<1>11. Created(b, isNew, d) = d \/ Created(b, isNew, d) = Adds({b})
  BY DEF Created
<1>12. \A w \in Places(Created(b, isNew, d)) : Beside(t, w)
  BY <1>3, <1>9, <1>10, <1>11
<1> QED BY <1>12 DEF b, s, d

\* The diff of an object that is there, or of a range or a mapping, is beside
\* the subnets.
LEMMA DhcpMade ==
  ASSUME NEW e \in DOMAIN Ed, e \in Dhcp, NEW p, NEW t, IsConfig(t), NEW to, IsKey(e, to), NEW k,
         e \in {"dhcp_range", "dhcp_mapping"} => SubSeq(to, 1, 3) \in Dhcp_Keys(t, <<"subnet">>),
         e = "dhcp_subnet" => Base(e, to) \in t,
         NEW isNew \in BOOLEAN, isNew => e \in {"dhcp_range", "dhcp_mapping"}, NEW l, Old(e, isNew, l), NEW u, IsRow(e, u)
  PROVE  \A w \in Places(Made(e, p, k, to, Base(e, to), Ed[e].write, isNew, l, u)) : Beside(t, w)
<1> DEFINE b == Base(e, to)
           s == Ed[e].write
           c == Made(e, p, k, to, b, s, isNew, l, u)
<1>1. IsPath(b) /\ Len(b) = Len(to) + 1
  BY KeyPath, KeyOfBase
<1>2. LiveOver(s, l, Text) /\ IsBody(s, u)
  BY TypeOfEditor, BlankOver, RowIsBody DEF Old
<1>3. Ed[e].keyed
  BY DhcpIs
<1>4. CASE e = "dhcp_server"
  <2> DEFINE d == Diff(b, Server_Write, l, u)
  <2>1. isNew = FALSE
    BY <1>4
  <2>2. c = Server_Diff(p, b, FALSE, l, u)
    BY <1>4, <2>1 DEF Made
  <2>3. c = d
    BY <2>2 DEF Server_Diff, Created
  <2>4. Len(b) = 2
    <3>1. Len(to) = 1
      BY <1>3, <1>4 DEF IsKey
    <3> HIDE DEF b
    <3> QED BY <1>1, <3>1
  <2>5. \A w \in Places(d) : Beside(t, w)
    BY <1>1, <1>2, <1>4, <2>4, ServerBeside
  <2> HIDE DEF d, c
  <2>6. \A w \in Places(c) : Beside(t, w)
    BY <2>3, <2>5
  <2> QED BY <2>6 DEF c
<1>5. CASE e = "dhcp_subnet"
  <2> DEFINE d == Diff(b, Subnet_Write, l, u)
  <2>1. isNew = FALSE
    BY <1>5
  <2>2. c = Both(d, NoCommands)
    BY <1>5, <2>1 DEF Made, Subnet_Diff
  <2>3. Len(b) = 4
    <3>1. Len(to) = 3
      BY <1>3, <1>5 DEF IsKey
    <3> HIDE DEF b
    <3> QED BY <1>1, <3>1
  <2>4. s = Subnet_Write
    BY <1>5, EditorIs DEF Subnet, Editor
  <2> HIDE DEF s
  <2>5. LiveOver(Subnet_Write, l, Text) /\ IsBody(Subnet_Write, u)
    BY <1>2, <2>4
  <2>6. \A w \in Places(d) : Beside(t, w)
    BY <1>1, <1>5, <2>3, <2>5, SubnetBeside
  <2> HIDE DEF d, c
  <2>7. Places(NoCommands) = {}
    BY DEF NoCommands, Places
  <2>8. \A w \in Places(Both(d, NoCommands)) : w \in Places(d)
    <3>1. \A w \in Places(BothOf({d, NoCommands})) : \E x \in {d, NoCommands} : w \in Places(x)
      BY PlacesBoth
    <3> QED BY <2>7, <3>1 DEF Both
  <2>9. \A w \in Places(c) : Beside(t, w)
    BY <2>2, <2>6, <2>8
  <2> QED BY <2>9 DEF c, s
<1>6. CASE e \in {"dhcp_range", "dhcp_mapping"}
  <2> DEFINE d == Created(b, isNew, Diff(b, s, l, u))
  <2>1. c = d
    BY <1>6 DEF Made
  <2>2. \A w \in Places(d) : Beside(t, w)
    BY <1>2, <1>6, RangeMade
  <2> HIDE DEF d, c
  <2>3. \A w \in Places(c) : Beside(t, w)
    BY <2>1, <2>2
  <2> QED BY <2>3 DEF c
<1> QED BY <1>4, <1>5, <1>6 DEF Dhcp

\* So is the save of one.
LEMMA DhcpBeside ==
  ASSUME NEW e \in DOMAIN Ed, e \in Dhcp, NEW p, NEW t, IsConfig(t), NEW to, IsKey(e, to), NEW k, FormKey(e, k),
         e \in {"dhcp_range", "dhcp_mapping"} => /\ SubSeq(to, 1, 3) \in Dhcp_Keys(t, <<"subnet">>)
                                                 /\ k # <<>> => SubSeq(k, 1, 3) \in Dhcp_Keys(t, <<"subnet">>),
         e = "dhcp_subnet" => Base(e, to) \in t,
         IsNew(e, p, k, to) => e \in {"dhcp_range", "dhcp_mapping"}, NEW l, IsRow(e, l), NEW u, IsRow(e, u)
  PROVE  \A w \in Places(Commands(e, p, k, to, l, u)) : Beside(t, w)
<1> DEFINE n == IsNew(e, p, k, to)
           o == From(e, n, l)
           m == Made(e, p, k, to, Base(e, to), Ed[e].write, n, o, u)
           D == MovedFrom(e, k, to)
<1>1. /\ Commands(e, p, k, to, l, u) = Both(Deletes(D), m)
      /\ n \in BOOLEAN /\ Old(e, n, o)
      /\ k = <<>> \/ IsKey(e, k)
  BY CommandsAre
<1>2. \A w \in Places(m) : Beside(t, w)
  <2>1. n \in BOOLEAN /\ Old(e, n, o) /\ (n => e \in {"dhcp_range", "dhcp_mapping"})
    BY <1>1
  <2> HIDE DEF n, o
  <2> QED BY <2>1, DhcpMade
<1>3. \A w \in D : Beside(t, w)
  <2>1. D # {} => e \in {"dhcp_range", "dhcp_mapping"} /\ k # <<>> /\ D = {Base(e, k)}
    BY DhcpIs DEF MovedFrom
  <2>2. CASE e \in {"dhcp_range", "dhcp_mapping"} /\ k # <<>>
    <3>1. Beside(t, Base(e, k))
      BY <1>1, <2>2, RangePlace
    <3> QED BY <2>1, <3>1
  <2> QED BY <2>1, <2>2
<1> HIDE DEF m, D
<1>4. Places(Both(Deletes(D), m)) \subseteq D \cup Places(m)
  BY PlacesAfter
<1> QED BY <1>1, <1>2, <1>3, <1>4

\* A batch that sets no id of subnet n but the next one, and is about it or
\* beside the subnets.
NextIdPath(t, n) == IdAt(n) \o <<NextSubnetId(t)>>
Adding(t, n, c) ==
  /\ c.late = {}
  /\ \A w \in Places(c) : Beside(t, w) \/ Under(SubnetAt(n), w)
  /\ \A p \in c.put \cup c.add : p = NextIdPath(t, n) \/ ~Under(IdAt(n), p)

\* Such batches together are one,
LEMMA AddingBothOf ==
  ASSUME NEW t, NEW n, NEW S, \A c \in S : Adding(t, n, c)
  PROVE  Adding(t, n, BothOf(S))
<1>1. /\ \A p \in BothOf(S).put : \E c \in S : p \in c.put
      /\ \A p \in BothOf(S).add : \E c \in S : p \in c.add
      /\ BothOf(S).late = UNION {c.late : c \in S}
  BY BothParts
<1>2. \A w \in Places(BothOf(S)) : \E c \in S : w \in Places(c)
  BY PlacesBoth
<1> HIDE DEF BothOf
<1>3. BothOf(S).late = {}
  BY <1>1 DEF Adding
<1> QED BY <1>1, <1>2, <1>3 DEF Adding

\* one of nothing is one,
LEMMA AddingNothing == \A t, n : Adding(t, n, Deletes({}))
BY BatchFields DEF Adding, Places

\* and so is one about fields that are not the id.
LEMMA AddingInside ==
  ASSUME NEW t, NEW n, IsSubnet(n), NEW b, NEW s, NEW c, Inside(b, s, c),
         \A f \in Flat(s) : LET x == b \o <<f>>
                            IN  /\ x \in Seq(Text) /\ ~Comparable(x, IdAt(n))
                                /\ Beside(t, x) \/ Under(SubnetAt(n), x)
  PROVE  Adding(t, n, c)
<1> DEFINE a == SubnetAt(n)
           d == IdAt(n)
<1>1. a \in Seq(Text) /\ d \in Seq(Text)
  BY SubnetNode
<1> HIDE DEF a, d
<1>2. ASSUME NEW w \in Places(c) \cup c.put
      PROVE  w \in Seq(Text) /\ ~Under(d, w) /\ (Beside(t, w) \/ Under(a, w))
  <2>1. PICK f \in Flat(s) : w \in Seq(Text) /\ Under(b \o <<f>>, w)
    BY DEF Inside
  <2> DEFINE x == b \o <<f>>
  <2>2. x \in Seq(Text) /\ ~Comparable(x, d) /\ (Beside(t, x) \/ Under(a, x)) /\ Under(x, w) /\ w \in Seq(Text)
    BY <2>1 DEF a, d
  <2> HIDE DEF x
  <2>3. ~Under(d, w)
    BY <1>1, <2>2, ApartUnder
  <2>4. Beside(t, x) => Beside(t, w)
    BY <2>2, BesideUnder
  <2>5. Under(a, x) => Under(a, w)
    BY <1>1, <2>2, UnderOrder
  <2> QED BY <2>2, <2>3, <2>4, <2>5
<1>3. c.late = {} /\ c.add \subseteq Places(c)
  BY DEF Inside, Places
<1>4. Adding(t, n, c)
  BY <1>2, <1>3 DEF Adding, a, d
<1> QED BY <1>4

\* Two elements put at the end one by one.
LEMMA Twice ==
  ASSUME NEW b, b \in Seq(Text), NEW x, x \in Text, NEW y, y \in Text
  PROVE  b \o <<x, y>> = (b \o <<x>>) \o <<y>>
<1> DEFINE c == <<x, y>>
           l == b \o c
           m == b \o <<x>>
           r == m \o <<y>>
<1>1. c \in Seq(Text) /\ Len(c) = 2 /\ c[1] = x /\ c[2] = y
  OBVIOUS
<1> HIDE DEF c
<1>2. l \in Seq(Text) /\ Len(l) = Len(b) + Len(c) /\ (\A i \in 1..Len(b) : l[i] = b[i]) /\ \A i \in 1..Len(c) : l[Len(b) + i] = c[i]
  <2>1. b \in Seq(Text) /\ c \in Seq(Text)
    BY <1>1
  <2> QED BY ONLY <2>1, Joined
<1>3. m \in Seq(Text) /\ Len(m) = Len(b) + 1 /\ m[Len(b) + 1] = x /\ \A i \in 1..Len(b) : m[i] = b[i]
  <2>1. b \in Seq(Text) /\ x \in Text
    OBVIOUS
  <2> QED BY ONLY <2>1, Appended
<1> HIDE DEF m
<1>4. r \in Seq(Text) /\ Len(r) = Len(m) + 1 /\ r[Len(m) + 1] = y /\ \A i \in 1..Len(m) : r[i] = m[i]
  <2>1. m \in Seq(Text) /\ y \in Text
    BY <1>3
  <2> QED BY ONLY <2>1, Appended
<1> HIDE DEF l, r
<1>5. Len(b) \in Nat
  OBVIOUS
<1> DEFINE n == Len(b)
<1>6. n \in Nat /\ Len(l) = n + 2 /\ Len(r) = n + 2 /\ Len(m) = n + 1
  BY <1>1, <1>2, <1>3, <1>4, <1>5
<1> HIDE DEF n
<1>7. \A i \in 1..(n + 2) : l[i] = r[i]
  <2> SUFFICES ASSUME NEW i \in 1..(n + 2) PROVE l[i] = r[i]
    OBVIOUS
  <2>1. i \in 1..n \/ i = n + 1 \/ i = n + 2
    BY <1>6
  <2>2. CASE i \in 1..n
    <3>1. l[i] = b[i] /\ m[i] = b[i]
      BY <1>2, <1>3, <2>2 DEF n
    <3>2. r[i] = m[i]
      BY <1>4, <1>6, <2>2
    <3> QED BY <3>1, <3>2
  <2>3. CASE i = n + 1
    <3>1. l[n + 1] = c[1] /\ m[n + 1] = x
      BY <1>1, <1>2, <1>3 DEF n
    <3>2. r[i] = m[i]
      BY <1>4, <1>6, <2>3
    <3> QED BY <1>1, <2>3, <3>1, <3>2
  <2>4. CASE i = n + 2
    <3>1. l[n + 2] = c[2]
      BY <1>1, <1>2 DEF n
    <3>2. r[n + 2] = y
      BY <1>4, <1>6
    <3> QED BY <1>1, <2>4, <3>1, <3>2
  <2> QED BY <2>1, <2>2, <2>3, <2>4
<1>8. l = r
  BY <1>2, <1>4, <1>6, <1>7, SeqEqual
<1> QED BY <1>8 DEF l, r, m, c

\* The batch of a new subnet.
LEMMA SubnetAdding ==
  ASSUME NEW e \in {"dhcp_server", "dhcp_subnet"}, NEW t, IsConfig(t), IsKnown(e, t), NEW n, IsSubnet(n),
         NEW b, b = SubnetAt(n), IsPath(b), NEW l, LiveOver(Subnet_Write, l, Text), NEW u, IsBody(Subnet_Write, u)
  PROVE  Adding(t, n, Subnet_Diff(t, b, TRUE, l, u)) /\ NextIdPath(t, n) \in Subnet_Diff(t, b, TRUE, l, u).put
<1> DEFINE d == Diff(b, Subnet_Write, l, u)
           v == NextSubnetId(t)
           y == b \o <<"subnet-id", v>>
           i == IdAt(n)
           s == Subnet_Write
           m == Puts({y})
<1>1. b \in Seq(Text) /\ Len(b) = 4 /\ i \in Seq(Text) /\ Len(i) = 5 /\ i[5] = "subnet-id" /\ Under(b, i)
  BY SubnetNode
<1>2. Inside(b, s, d) /\ Flat(s) \subseteq Text /\ "subnet-id" \notin Flat(s)
  BY <1>1, SubnetBeside
<1>3. v \in Word /\ "subnet-id" \in Text
  BY NextIdTyped, DhcpText
<1>4. i = b \o <<"subnet-id">>
  BY DEF IdAt, SubnetAt
<1>5. Subnet_Diff(t, b, TRUE, l, u) = BothOf({d, m})
  BY DEF Subnet_Diff, Both
<1> HIDE DEF d, v, i, s
<1>6. v \in Text
  BY <1>3, NoneText
<1>7. y = i \o <<v>>
  <2>1. b \in Seq(Text) /\ "subnet-id" \in Text /\ v \in Text
    BY <1>1, <1>3, <1>6
  <2>2. b \o <<"subnet-id", v>> = (b \o <<"subnet-id">>) \o <<v>>
    BY ONLY <2>1, Twice
  <2> QED BY <1>4, <2>2
<1>8. y \in Seq(Text) /\ Len(y) = 6 /\ SubSeq(y, 1, 5) = i
  <2>1. i \in Seq(Text) /\ Len(i) = 5 /\ v \in Text
    BY <1>1, <1>6
  <2>2. i \o <<v>> \in Seq(Text) /\ Len(i \o <<v>>) = 6 /\ SubSeq(i \o <<v>>, 1, 5) = i
    BY ONLY <2>1, IdValue
  <2> HIDE DEF y
  <2> QED BY <1>7, <2>2
<1>9. y = NextIdPath(t, n)
  BY <1>7 DEF NextIdPath, i, v
<1> HIDE DEF y, m
<1>10. Adding(t, n, d)
  <2>1. ASSUME NEW f \in Flat(s)
        PROVE  LET x == b \o <<f>>
               IN  /\ x \in Seq(Text) /\ ~Comparable(x, IdAt(n))
                   /\ Beside(t, x) \/ Under(SubnetAt(n), x)
    <3> DEFINE x == b \o <<f>>
    <3>1. b \in Seq(Text) /\ Len(b) = 4 /\ f \in Text /\ Len(b) >= 1
      BY <1>1, <1>2
    <3>2. x \in Seq(Text) /\ Len(x) = 5 /\ x[5] = f
      BY ONLY <3>1, SubnetField
    <3>3. Under(b, x)
      BY ONLY <3>1, FieldNode
    <3> HIDE DEF x
    <3>4. f # "subnet-id"
      BY <1>2
    <3>5. ~Comparable(x, i)
      <4>1. 5 \in 1..Len(x) /\ 5 \in 1..Len(i) /\ x[5] # i[5]
        BY <1>1, <3>2, <3>4
      <4> QED BY <1>1, <3>2, <4>1, Differ
    <3> QED BY <3>2, <3>3, <3>5 DEF x, i
  <2> QED BY <1>2, <2>1, AddingInside
<1>11. Adding(t, n, m) /\ y \in m.put
  <2>1. m.put = {y} /\ m.del = {} /\ m.add = {} /\ m.late = {}
    BY BatchFields DEF m
  <2>2. Front(y) = i
    <3>1. Len(y) - 1 = 5
      BY <1>8
    <3> QED BY <1>8, <3>1 DEF Front
  <2>3. Places(m) = {i}
    BY <2>1, <2>2 DEF Places
  <2>4. Under(SubnetAt(n), i)
    BY <1>1
  <2> QED BY <1>9, <2>1, <2>3, <2>4 DEF Adding
<1>12. Adding(t, n, BothOf({d, m}))
  BY <1>10, <1>11, AddingBothOf
<1>13. y \in BothOf({d, m}).put
  <2>1. \A p : p \in BothOf({d, m}).put <=> \E x \in {d, m} : p \in x.put
    BY BothParts
  <2> QED BY <1>11, <2>1
<1> QED BY <1>5, <1>9, <1>12, <1>13

\* A path of the section with a subnet in it names one.
LEMMA SubnetOf ==
  ASSUME NEW s, s \in Seq(Text), Len(s) = 4, s[1] = Dhcp_At, s[3] = "subnet"
  PROVE  IsSubnet(SubSeq(s, 2, 4)) /\ SubnetAt(SubSeq(s, 2, 4)) = s
<1> DEFINE n == SubSeq(s, 2, 4)
           a == SubnetAt(n)
<1>1. n \in Seq(Text) /\ Len(n) = 4 - 1 /\ \A i \in 1..(4 - 1) : n[i] = s[i + 1]
  <2>1. s \in Seq(Text) /\ 4 \in Nat /\ 4 >= 2 /\ 4 <= Len(s)
    OBVIOUS
  <2> QED BY ONLY <2>1, Slice
<1> HIDE DEF n
<1>2. n \in Seq(Text) /\ Len(n) = 3 /\ \A i \in 1..3 : n[i] = s[i + 1]
  BY <1>1
<1>3. IsSubnet(n)
  <2>1. 2 \in 1..3 /\ 2 + 1 = 3
    OBVIOUS
  <2>2. n[2] = s[3]
    BY <1>2, <2>1
  <2> QED BY <1>2, <2>2 DEF IsSubnet
<1>4. a \in Seq(Text) /\ Len(a) = 4 /\ a[1] = Dhcp_At /\ \A i \in 1..3 : a[i + 1] = n[i]
  BY <1>3, SubnetNode
<1> HIDE DEF a
<1>5. \A i \in 1..4 : a[i] = s[i]
  <2> SUFFICES ASSUME NEW i \in 1..4 PROVE a[i] = s[i]
    OBVIOUS
  <2>1. i = 1 \/ (i - 1 \in 1..3 /\ (i - 1) + 1 = i)
    OBVIOUS
  <2> QED BY <1>2, <1>4, <2>1
<1>6. a = s
  BY <1>4, <1>5, SeqEqual
<1> QED BY <1>3, <1>6 DEF n, a

\* The batch of a new server: its fields, and its first subnet.
LEMMA ServerAdding ==
  ASSUME "dhcp_server" \in DOMAIN Ed, NEW t, IsConfig(t), IsKnown("dhcp_server", t), NEW b, IsPath(b), Len(b) = 2, b[1] = Dhcp_At,
         NEW l, LiveOver(Ed["dhcp_server"].write, l, Text), NEW u, IsBody(Ed["dhcp_server"].write, u), u["first_subnet"] # None
  PROVE  LET c == Server_Diff(t, b, TRUE, l, u)
             s == b \o <<"subnet", u["first_subnet"]>>
             n == SubSeq(s, 2, 4)
         IN  IsSubnet(n) /\ SubnetAt(n) = s /\ Under(b, s) /\ Adding(t, n, c) /\ NextIdPath(t, n) \in c.put
<1> DEFINE z == Ed["dhcp_server"].write
           x == u["first_subnet"]
           s == b \o <<"subnet", x>>
           n == SubSeq(s, 2, 4)
           asked == [Blank(Subnet_Write) EXCEPT !["option_default-router"] = u["first_gateway"],
                                                !["option_name-server"] = {u["first_name-server"]} \ {None}]
           range == [start |-> u["first_start"], stop |-> u["first_stop"]]
           server == Diff(b, Server_Write, l, u)
           subnet == Subnet_Diff(t, s, TRUE, Blank(Subnet_Write), asked)
           r == s \o <<"range", "default">>
           ranges == FlatDiff(r, Range_Write, Blank(Range_Write), range)
           c == Server_Diff(t, b, TRUE, l, u)
<1>1. c = BothOf({server, subnet, ranges})
  BY DEF Server_Diff
<1>2. \A f \in First : u[f] \in Text
  BY ServerIs DEF IsBody, IsFlatRow
<1>3. x \in Text /\ x # None /\ u["first_gateway"] \in Text /\ u["first_name-server"] \in Text
      /\ u["first_start"] \in Text /\ u["first_stop"] \in Text
  BY <1>2 DEF First
<1>4. IsBody(Subnet_Write, asked) /\ LiveOver(Subnet_Write, Blank(Subnet_Write), Text)
  BY <1>3, AskedBody, DhcpSchemas, BlankOver
<1>5. IsFlatRow(Range_Write, range) /\ \A f \in Range_Write.multi : Blank(Range_Write)[f] \subseteq Text
  BY <1>3, DhcpSchemas DEF IsFlatRow
<1> HIDE DEF asked, range, x
<1>6. b \in Seq(Text) /\ IsPath(s) /\ IsPath(r)
  <2>1. x \in Word
    BY <1>3 DEF Word
  <2>2. IsPath(b \o <<"subnet", x>>)
    BY <2>1, Named, PathBelow, NoneText DEF Word
  <2> HIDE DEF s
  <2>3. IsPath(s)
    BY <2>2 DEF s
  <2>4. IsPath(s \o <<"range", "default">>)
    BY <2>3, Named, PathBelow, NoneText DEF Word
  <2> QED BY <2>3, <2>4, TextOf
<1>7. s \in Seq(Text) /\ Len(s) = 4 /\ s[1] = Dhcp_At /\ s[3] = "subnet" /\ Under(b, s)
  <2> DEFINE y == <<"subnet", x>>
  <2>1. y \in Seq(Text) /\ Len(y) = 2 /\ y[1] = "subnet" /\ 1 \in 1..2
    BY <1>3, DhcpText
  <2> HIDE DEF y
  <2>2. b \in Seq(Text) /\ y \in Seq(Text)
    BY <1>6, <2>1
  <2>3. /\ b \o y \in Seq(Text) /\ Len(b \o y) = Len(b) + Len(y)
        /\ \A i \in 1..Len(b) : (b \o y)[i] = b[i]
        /\ \A i \in 1..Len(y) : (b \o y)[Len(b) + i] = y[i]
    BY ONLY <2>2, Joined
  <2>4. s = b \o y
    BY DEF y
  <2> HIDE DEF s
  <2>5. s \in Seq(Text) /\ Len(s) = 4 /\ (\A i \in 1..2 : s[i] = b[i]) /\ s[2 + 1] = y[1]
    BY <2>1, <2>3, <2>4
  <2>6. Under(b, s)
    BY <1>6, <2>5, UnderPrefix
  <2> QED BY <2>1, <2>5, <2>6
<1> HIDE DEF s
<1>8. IsSubnet(n) /\ SubnetAt(n) = s
  BY <1>7, SubnetOf
<1> HIDE DEF n
<1> DEFINE i == IdAt(n)
<1>9. i \in Seq(Text) /\ Len(i) = 5 /\ i[3] = "subnet" /\ i[5] = "subnet-id"
  BY <1>8, SubnetNode
<1>10. Adding(t, n, subnet) /\ NextIdPath(t, n) \in subnet.put
  BY <1>4, <1>6, <1>8, SubnetAdding
<1> HIDE DEF i
<1>11. Adding(t, n, server)
  <2>1. /\ Inside(b, Server_Write, server)
        /\ Flat(Server_Write) = {"description", "authoritative", "disable"}
    BY ServerBeside
  <2>2. ASSUME NEW f \in Flat(Server_Write)
        PROVE  LET w == b \o <<f>>
               IN  /\ w \in Seq(Text) /\ ~Comparable(w, IdAt(n))
                   /\ Beside(t, w) \/ Under(SubnetAt(n), w)
    <3> DEFINE w == b \o <<f>>
    <3>1. f \in Text
      <4>1. IsSchema(Server_Write)
        BY TypeOfEditor, ServerIs, WiderFields
      <4> QED BY <4>1, NoneText DEF IsSchema, IsFlatSchema
    <3>2. f # "subnet"
      BY <2>1
    <3>3. w \in Seq(Text) /\ w # <<>> /\ Len(w) = 3 /\ w[3] = f
      <4>1. b \in Seq(Text) /\ Len(b) = 2 /\ f \in Text
        BY <1>6, <3>1
      <4> QED BY ONLY <4>1, ObjectField
    <3> HIDE DEF w
    <3>4. Beside(t, w)
      BY <3>2, <3>3 DEF Beside
    <3>5. ~Comparable(w, i)
      <4>1. 3 \in 1..Len(w) /\ 3 \in 1..Len(i) /\ w[3] # i[3]
        BY <1>9, <3>2, <3>3
      <4> QED BY <1>9, <3>3, <4>1, Differ
    <3> QED BY <3>3, <3>4, <3>5 DEF w, i
  <2> HIDE DEF server
  <2> QED BY <1>8, <2>1, <2>2, AddingInside
<1>12. Adding(t, n, ranges)
  <2>1. Inside(r, Range_Write, ranges)
    BY <1>5, <1>6, DhcpSchemas, FlatInside
  <2>2. r \in Seq(Text) /\ Len(r) = 6 /\ r[5] = "range" /\ Under(s, r)
    <3> DEFINE y == <<"range", "default">>
    <3>1. y \in Seq(Text) /\ Len(y) = 2 /\ y[1] = "range" /\ 1 \in 1..2
      BY TextAssumption DEF Keywords
    <3> HIDE DEF y
    <3>2. s \in Seq(Text) /\ y \in Seq(Text)
      BY <1>7, <3>1
    <3>3. /\ s \o y \in Seq(Text) /\ Len(s \o y) = Len(s) + Len(y)
          /\ \A j \in 1..Len(s) : (s \o y)[j] = s[j]
          /\ \A j \in 1..Len(y) : (s \o y)[Len(s) + j] = y[j]
      BY ONLY <3>2, Joined
    <3>4. r = s \o y
      BY DEF y
    <3> HIDE DEF r
    <3>5. r \in Seq(Text) /\ Len(r) = 6 /\ (\A j \in 1..4 : r[j] = s[j]) /\ r[4 + 1] = y[1]
      BY <1>7, <3>1, <3>3, <3>4
    <3>6. Under(s, r)
      BY <1>7, <3>5, UnderPrefix
    <3> QED BY <3>1, <3>5, <3>6
  <2> HIDE DEF r, ranges
  <2>3. Flat(Range_Write) \subseteq Text
    BY DhcpSchemas, NoneText DEF IsFlatSchema
  <2>4. ASSUME NEW f \in Flat(Range_Write)
        PROVE  LET w == r \o <<f>>
               IN  /\ w \in Seq(Text) /\ ~Comparable(w, IdAt(n))
                   /\ Beside(t, w) \/ Under(SubnetAt(n), w)
    <3> DEFINE w == r \o <<f>>
    <3>1. r \in Seq(Text) /\ f \in Text /\ Len(r) >= 1
      BY <2>2, <2>3
    <3>2. w \in Seq(Text) /\ Len(w) = Len(r) + 1 /\ Under(r, w)
      BY ONLY <3>1, FieldNode
    <3> HIDE DEF w
    <3>3. Under(s, w)
      BY <1>7, <2>2, <3>2, UnderOrder
    <3>4. ~Comparable(r, i)
      <4>1. 5 \in 1..Len(r) /\ 5 \in 1..Len(i) /\ r[5] # i[5]
        BY <1>9, <2>2
      <4> QED BY <1>9, <2>2, <4>1, Differ
    <3>5. ~Comparable(w, i)
      <4>1. Under(i, i) /\ r \in Seq(Text) /\ i \in Seq(Text) /\ w \in Seq(Text) /\ Under(r, w)
        BY <1>9, <2>2, <3>2, UnderOrder
      <4> QED BY <3>4, <4>1, StayApart
    <3> QED BY <1>8, <3>2, <3>3, <3>5 DEF w, i
  <2> QED BY <1>8, <2>1, <2>4, AddingInside
<1> HIDE DEF server, subnet, ranges
<1>13. Adding(t, n, BothOf({server, subnet, ranges}))
  <2>1. \A d \in {server, subnet, ranges} : Adding(t, n, d)
    BY <1>10, <1>11, <1>12
  <2> QED BY <2>1, AddingBothOf
<1>14. NextIdPath(t, n) \in BothOf({server, subnet, ranges}).put
  <2>1. \A p : p \in BothOf({server, subnet, ranges}).put <=> \E d \in {server, subnet, ranges} : p \in d.put
    BY BothParts
  <2> QED BY <1>10, <2>1
<1> HIDE DEF c
<1>15. Adding(t, n, c) /\ NextIdPath(t, n) \in c.put
  BY <1>1, <1>13, <1>14
<1> QED BY <1>7, <1>8, <1>15 DEF c, s, n, x

\* The save of a new server or a new subnet keeps the ids apart.
LEMMA NewDhcpApart ==
  ASSUME NEW e \in DOMAIN Ed, e \in {"dhcp_server", "dhcp_subnet"}, NEW t, IsConfig(t), IsKnown(e, t), IdsApart(t),
         NEW to, IsKey(e, to), to \notin KeysOf(e, t), NEW l, IsRow(e, l), NEW u, IsRow(e, u),
         e = "dhcp_server" => u["first_subnet"] # None
  PROVE  IdsApart(Commit(t, Commands(e, t, <<>>, to, l, u)))
<1> DEFINE c == Commands(e, t, <<>>, to, l, u)
           b == Base(e, to)
           s == Ed[e].write
           o == Blank(s)
           m == Made(e, t, <<>>, to, b, s, TRUE, o, u)
<1>1. Ed[e].keyed /\ Ed[e].live = "page" /\ Ed[e].at = Dhcp_At /\ ~Ed[e].renames
  BY DhcpIs DEF Dhcp
<1>2. FormKey(e, <<>>)
  BY <1>1 DEF FormKey
<1>3. IsGood(c)
  <2>1. Complete(e, u)
    BY DEF Complete
  <2> QED BY <1>2, <2>1, CommandsGood
<1>4. c = Both(Deletes({}), m)
  <2> DEFINE n == IsNew(e, t, <<>>, to)
  <2>1. n = TRUE
    BY <1>1 DEF IsNew
  <2>2. c = Both(Deletes(MovedFrom(e, <<>>, to)), Made(e, t, <<>>, to, b, s, n, From(e, n, l), u))
    BY <1>2, CommandsAre
  <2>3. MovedFrom(e, <<>>, to) = {}
    BY DEF MovedFrom
  <2>4. From(e, n, l) = o
    BY <2>1 DEF From
  <2> HIDE DEF n, o, s, b, c
  <2>5. c = Both(Deletes({}), Made(e, t, <<>>, to, b, s, TRUE, o, u))
    BY <2>1, <2>2, <2>3, <2>4
  <2> QED BY <2>5
<1>5. LiveOver(s, o, Text) /\ IsBody(s, u)
  BY TypeOfEditor, BlankOver, RowIsBody
<1>6. IsPath(b) /\ b \in Seq(Text) /\ to \in Seq(Text) /\ Len(b) = Len(to) + 1 /\ b[1] = Dhcp_At
  BY <1>1, KeyPath, KeyOfBase
<1> HIDE DEF c, m, o
\* It is enough that the batch adds one subnet.
<1>7. ASSUME NEW n, IsSubnet(n), SubnetAt(n) \notin t, Adding(t, n, m), NextIdPath(t, n) \in m.put
      PROVE  IdsApart(Commit(t, c))
  <2>1. Adding(t, n, c)
    <3>1. \A d \in {Deletes({}), m} : Adding(t, n, d)
      BY <1>7, AddingNothing
    <3>2. Adding(t, n, BothOf({Deletes({}), m}))
      BY <3>1, AddingBothOf
    <3> QED BY <1>4, <3>2 DEF Both
  <2>2. NextIdPath(t, n) \in c.put
    <3>1. \A p : p \in BothOf({Deletes({}), m}).put <=> \E d \in {Deletes({}), m} : p \in d.put
      BY BothParts
    <3> QED BY <1>4, <1>7, <3>1 DEF Both
  <2> QED BY <1>3, <1>7, <2>1, <2>2, NewSubnetApart DEF Adding, NextIdPath
<1>8. CASE e = "dhcp_subnet"
  <2>1. IsSubnet(to) /\ b = SubnetAt(to)
    BY <1>1, <1>6, <1>8 DEF IsKey, IsSubnet, Base, SubnetAt
  <2>2. SubnetAt(to) \notin t
    <3>1. to \notin Dhcp_Keys(t, <<"subnet">>)
      BY <1>8 DEF KeysOf
    <3> QED BY <2>1, <3>1, SubnetKeyIs
  <2>3. s = Subnet_Write
    BY <1>8, EditorIs DEF Subnet, Editor
  <2>4. m = Subnet_Diff(t, b, TRUE, o, u)
    BY <1>8 DEF Made, m
  <2> HIDE DEF s, b
  <2>5. LiveOver(Subnet_Write, o, Text) /\ IsBody(Subnet_Write, u)
    BY <1>5, <2>3
  <2>6. Adding(t, to, m) /\ NextIdPath(t, to) \in m.put
    <3>1. e \in {"dhcp_server", "dhcp_subnet"}
      OBVIOUS
    <3> QED BY <1>6, <2>1, <2>4, <2>5, <3>1, SubnetAdding
  <2>7. IdsApart(Commit(t, c))
    BY <1>7, <2>1, <2>2, <2>6
  <2> QED BY <2>7 DEF c
<1>9. CASE e = "dhcp_server"
  <2> DEFINE p == b \o <<"subnet", u["first_subnet"]>>
             n == SubSeq(p, 2, 4)
  <2>1. Len(to) = 1
    BY <1>1, <1>9 DEF IsKey
  <2>2. m = Server_Diff(t, b, TRUE, o, u)
    BY <1>9 DEF Made, m
  <2>3. Len(b) = 2 /\ u["first_subnet"] # None
    <3> HIDE DEF b
    <3> QED BY <1>6, <1>9, <2>1
  <2>4. IsSubnet(n) /\ SubnetAt(n) = p /\ Under(b, p) /\ Adding(t, n, m) /\ NextIdPath(t, n) \in m.put
    <3> HIDE DEF b
    <3> QED BY <1>5, <1>6, <1>9, <2>2, <2>3, ServerAdding DEF s
  <2>5. b \notin t
    <3>1. to = <<to[1]>> /\ b[2] = to[1]
      BY <1>1, <1>6, <2>1, OneKey, TypeOfEditor
    <3>2. KeysOf(e, t) = {<<q[2]>> : q \in {r \in t : r[1] = Dhcp_At}}
      BY <1>1, <1>9 DEF KeysOf
    <3> HIDE DEF b
    <3>3. ASSUME b \in t PROVE FALSE
      <4>1. b \in {r \in t : r[1] = Dhcp_At}
        BY <1>6, <3>3
      <4>2. <<b[2]>> \in KeysOf(e, t)
        BY <3>2, <4>1
      <4> QED BY <3>1, <4>2
    <3> QED BY <3>3
  <2> HIDE DEF p, n
  <2>6. SubnetAt(n) \notin t
    <3>1. p \in Seq(Text)
      BY <2>4, SubnetNode
    <3>2. t \in SUBSET Seq(Text) /\ Rooted(t)
      BY ConfigOver
    <3> HIDE DEF b
    <3>3. p \notin t
      <4>1. ASSUME p \in t PROVE b \in t
        <5>1. b \in Seq(Text)
          BY <1>6
        <5>2. Len(b) >= 2
          BY <2>3
        <5>3. Under(b, p)
          BY <2>4
        <5>4. t \in SUBSET Seq(Text) /\ Rooted(t)
          BY <3>2
        <5>5. b \in Seq(Text) /\ Len(b) >= 2 /\ Under(b, p) /\ p \in t /\ t \in SUBSET Seq(Text) /\ Rooted(t)
          BY ONLY <4>1, <5>1, <5>2, <5>3, <5>4
        <5> QED BY ONLY <5>5, RootedAbove
      <4> QED BY <2>5, <4>1
    <3> QED BY <2>4, <3>3
  <2>7. IdsApart(Commit(t, c))
    BY <1>7, <2>4, <2>6
  <2> QED BY <2>7 DEF c
<1> QED BY <1>8, <1>9

\* Of these, the two whose objects are below a subnet.
Ranges == {"dhcp_range", "dhcp_mapping"}

\* What keeps the ids apart: a form of a server or a subnet is on the object it
\* was opened on, and the subnet that a range or a mapping is entered under is
\* there, for no page that edits these deletes subnets.
IdInv ==
  toast = "none" =>
    /\ IdsApart(tree)
    /\ ed \in Dhcp /\ form # Closed =>
         form.key \in {<<>>, Key(ed)} /\ (ed \notin Ranges => form.key \in {<<>>, form.to})
    /\ ed \in Ranges => /\ Homes(ed) \subseteq Dhcp_Keys(tree, <<"subnet">>)
                        /\ form # Closed => SubSeq(form.to, 1, 3) \in Homes(ed)

\* The save of an object that is there keeps the ids, and the subnets, as they are.
LEMMA SavedApart ==
  ASSUME NEW e \in DOMAIN Ed, NEW t, IsConfig(t), IsKnown(e, t), NEW k, FormKey(e, k), NEW to, IsKey(e, to),
         NEW l, IsRow(e, l), NEW u, IsRow(e, u), Complete(e, u),
         e \in Ranges => /\ SubSeq(to, 1, 3) \in Dhcp_Keys(t, <<"subnet">>)
                         /\ k # <<>> => SubSeq(k, 1, 3) \in Dhcp_Keys(t, <<"subnet">>),
         e \in Dhcp \ Ranges => k = to /\ to \in KeysOf(e, t)
  PROVE  /\ IdsApart(t) => IdsApart(Commit(t, Commands(e, t, k, to, l, u)))
         /\ Dhcp_Keys(Commit(t, Commands(e, t, k, to, l, u)), <<"subnet">>) = Dhcp_Keys(t, <<"subnet">>)
<1> DEFINE c == Commands(e, t, k, to, l, u)
<1>1. IsGood(c)
  BY CommandsGood
<1>2. \A w \in Places(c) : Beside(t, w)
  <2>1. CASE e \notin Dhcp
    <3>1. Off(c)
      BY <2>1, CommandsOff
    <3> HIDE DEF c
    <3> QED BY <1>1, <3>1, OffBeside
  <2>2. CASE e \in Dhcp
    <3>1. IsNew(e, t, k, to) => e \in Ranges
      BY <2>2, DhcpIs DEF IsNew
    <3>2. e = "dhcp_subnet" => Base(e, to) \in t
      BY <2>2, DhcpIs, KeysTyped DEF Ranges, Dhcp
    <3> QED BY <2>2, <3>1, <3>2, DhcpBeside DEF Ranges
  <2> QED BY <2>1, <2>2
<1> HIDE DEF c
<1>3. /\ IdsApart(t) => IdsApart(Commit(t, c))
      /\ Dhcp_Keys(Commit(t, c), <<"subnet">>) = Dhcp_Keys(t, <<"subnet">>)
  BY <1>1, <1>2, BesideApart
<1> QED BY <1>3 DEF c

\* What forms the pages of ranges and mappings start, and where they can go.
LEMMA TargetHome ==
  ASSUME NEW e \in Ranges, NEW k, NEW to \in {Key(e), NewKey(e)} \cup Targets(e, k)
  PROVE  SubSeq(to, 1, 3) \in Homes(e)
<1>1. Targets(e, k) = Targets(e, <<>>)
  BY DEF Targets, Ranges
<1> QED BY <1>1 DEF Homes

\* An object of the other two pages keeps its key.
LEMMA KeyFixed ==
  ASSUME NEW e \in Dhcp \ Ranges, e \in DOMAIN Ed, NEW k, k # <<>>, NEW to \in Targets(e, k)
  PROVE  to = k
<1>1. ~Ed[e].renames
  BY DhcpIs DEF Ranges
<1> QED BY <1>1 DEF Targets, Dhcp, Ranges

\* IdInv holds at first,
LEMMA IdInit == Init => IdInv
<1> SUFFICES ASSUME Init PROVE IdInv
  OBVIOUS
<1>1. ed \in DOMAIN Ed /\ tree \in Starts(ed) /\ form = Closed
  BY DEF Init
<1>2. IdsApart(tree) /\ (ed \in Ranges => Homes(ed) \subseteq Dhcp_Keys(tree, <<"subnet">>))
  <2>1. \A t \in Starts(ed) : /\ IdsApart(t)
                              /\ ed \in {"dhcp_range", "dhcp_mapping"} => Homes(ed) \subseteq Dhcp_Keys(t, <<"subnet">>)
    BY <1>1, SubnetsAssumption
  <2> QED BY <1>1, <2>1 DEF Ranges
<1> QED BY <1>1, <1>2 DEF IdInv

\* The steps that leave the configuration as it is.
LEMMA IdForm == TypeOK /\ IdInv /\ (Load \/ LoadFails \/ Open \/ OpenNew \/ Edit \/ Cancel) => IdInv'
<1> SUFFICES ASSUME TypeOK, IdInv, Load \/ LoadFails \/ Open \/ OpenNew \/ Edit \/ Cancel PROVE IdInv'
  OBVIOUS
<1>1. toast = "none" /\ ed' = ed /\ tree' = tree
  BY DEF Load, LoadFails, Open, OpenNew, Edit, Cancel
<1>2. ed \in DOMAIN Ed /\ (form = Closed \/ IsForm(ed, form))
  BY DEF TypeOK
<1>3. IdsApart(tree) /\ (ed \in Ranges => Homes(ed) \subseteq Dhcp_Keys(tree, <<"subnet">>))
  BY <1>1 DEF IdInv
<1> DEFINE Held(f) == /\ f.key \in {<<>>, Key(ed)}
                      /\ ed \notin Ranges => f.key \in {<<>>, f.to}
                      /\ ed \in Ranges => SubSeq(f.to, 1, 3) \in Homes(ed)
<1>4. form # Closed /\ ed \in Dhcp => Held(form)
  BY <1>1 DEF IdInv, Dhcp, Ranges
<1>5. form' # Closed /\ ed \in Dhcp => Held(form')
  <2> SUFFICES ASSUME form' # Closed, ed \in Dhcp PROVE Held(form')
    OBVIOUS
  <2>1. Ed[ed].keyed /\ Ed[ed].live = "page"
    BY <1>2, DhcpIs
  <2>2. CASE LoadFails \/ Cancel
    BY <2>2 DEF LoadFails, Cancel
  <2>3. CASE Load
    <3>1. form' = form
      BY <2>1, <2>3 DEF Load
    <3> QED BY <1>4, <3>1
  <2>4. CASE Open
    <3>1. form' = EditForm(Key(ed), RowOf(ed, page, Key(ed)))
      BY <2>1, <2>4 DEF Open
    <3>2. form'.key = Key(ed) /\ form'.to = Key(ed)
      BY <3>1 DEF EditForm, Form
    <3> QED BY <3>2, TargetHome
  <2>5. CASE OpenNew
    <3>1. PICK r \in NewRows(ed) : form' = [Form("new", <<>>, r, r) EXCEPT !.to = NewKey(ed)]
      BY <2>5 DEF OpenNew
    <3>2. form'.key = <<>> /\ form'.to = NewKey(ed)
      BY <3>1 DEF Form
    <3> QED BY <3>2, TargetHome
  <2>6. CASE Edit
    <3>1. form # Closed
      BY <2>6 DEF Edit
    <3>2. form = [mode |-> form.mode, key |-> form.key, to |-> form.to, seed |-> form.seed, u |-> form.u]
      BY <1>2, <3>1 DEF IsForm
    <3>3. CASE \E r \in RowEdits(ed, form.u) : form' = [form EXCEPT !.u = r]
      <4>1. form'.key = form.key /\ form'.to = form.to
        BY <3>2, <3>3
      <4> QED BY <1>4, <3>1, <4>1
    <3>4. CASE \E k \in Targets(ed, form.key) \ {form.to} : form' = [form EXCEPT !.to = k]
      <4>1. PICK k \in Targets(ed, form.key) : form' = [form EXCEPT !.to = k]
        BY <3>4
      <4>2. form'.key = form.key /\ form'.to = k
        BY <3>2, <4>1
      <4>3. ed \notin Ranges => form.key \in {<<>>, k}
        BY <1>2, <4>1, KeyFixed
      <4>4. ed \in Ranges => SubSeq(k, 1, 3) \in Homes(ed)
        BY <4>1, TargetHome
      <4> QED BY <1>4, <3>1, <4>2, <4>3, <4>4
    <3> QED BY <2>6, <3>3, <3>4 DEF Edit
  <2> QED BY <2>2, <2>3, <2>4, <2>5, <2>6
<1>6. Ranges \subseteq Dhcp
  BY DEF Ranges, Dhcp
<1> QED BY <1>1, <1>3, <1>5, <1>6 DEF IdInv

\* after a change by another administrator
LEMMA IdOther == TypeOK /\ IdInv /\ Other => IdInv'
<1> SUFFICES ASSUME TypeOK, IdInv, Other PROVE IdInv'
  OBVIOUS
<1>1. toast = "none" /\ ed' = ed /\ form' = form /\ toast' = toast
  BY DEF Other
<1>2. ed \in DOMAIN Ed /\ IsConfig(tree) /\ IsKnown(ed, tree)
  BY <1>1 DEF TypeOK
<1>3. IdsApart(tree)
  BY <1>1 DEF IdInv
<1>4. IdsApart(tree') /\ (ed \in Ranges => Dhcp_Keys(tree', <<"subnet">>) = Dhcp_Keys(tree, <<"subnet">>))
  <2>1. CASE /\ form # Closed /\ (Ed[ed].keyed => form.key \in KeysOf(ed, tree))
             /\ LET live == RowOf(ed, tree, form.key)
                IN \E u \in OtherEdits(ed, live) :
                     \E r \in Submit(ed, tree, form.key, form.key, live, u) :
                       tree' = Commit(tree, Commands(ed, tree, form.key, form.key, live, r))
    <3> DEFINE k == form.key
               l == RowOf(ed, tree, k)
    <3>1. IsForm(ed, form)
      BY <2>1 DEF TypeOK
    <3>2. IsKey(ed, k) /\ FormKey(ed, k)
      <4>1. FormKey(ed, k)
        BY <1>2, <3>1, FormTyped
      <4>2. Ed[ed].keyed => IsKey(ed, k)
        BY <1>2, <2>1, KeysTyped
      <4> QED BY <4>1, <4>2 DEF FormKey
    <3>3. IsRow(ed, l)
      BY <1>2, <3>2, RowOfTyped
    <3>4. PICK u \in OtherEdits(ed, l) : \E r \in Submit(ed, tree, k, k, l, u) : tree' = Commit(tree, Commands(ed, tree, k, k, l, r))
      BY <2>1
    <3>5. PICK r \in Submit(ed, tree, k, k, l, u) : tree' = Commit(tree, Commands(ed, tree, k, k, l, r))
      BY <3>4
    <3>6. IsRow(ed, u)
      BY <1>2, <3>3, <3>4, RowEditTyped
    <3>7. IsRow(ed, r) /\ Complete(ed, r)
      BY <1>2, <3>5, <3>6, SubmitTyped, SubmitComplete
    <3>8. Ed[ed].keyed => k \in KeysOf(ed, tree)
      BY <2>1
    <3> HIDE DEF k, l
    <3>9. ed \in Ranges => SubSeq(k, 1, 3) \in Dhcp_Keys(tree, <<"subnet">>)
      BY <1>2, <3>8, DhcpIs, RangeHome DEF Ranges, Dhcp
    <3>10. ed \in Dhcp \ Ranges => k = k /\ k \in KeysOf(ed, tree)
      BY <1>2, <3>8, DhcpIs
    <3>11. /\ IdsApart(tree) => IdsApart(Commit(tree, Commands(ed, tree, k, k, l, r)))
           /\ Dhcp_Keys(Commit(tree, Commands(ed, tree, k, k, l, r)), <<"subnet">>) = Dhcp_Keys(tree, <<"subnet">>)
      BY <1>2, <3>2, <3>3, <3>7, <3>9, <3>10, SavedApart
    <3> QED BY <1>3, <3>5, <3>11
  <2>2. CASE Ed[ed].keyed /\ \E k \in KeysOf(ed, tree) : tree' = Commit(tree, DeleteCommands(ed, tree, k))
    <3>1. PICK k \in KeysOf(ed, tree) : tree' = Commit(tree, DeleteCommands(ed, tree, k))
      BY <2>2
    <3>2. IsKey(ed, k)
      BY <1>2, <2>2, <3>1, KeysTyped
    <3>3. ed \in {"dhcp_range", "dhcp_mapping"} => SubSeq(k, 1, 3) \in Dhcp_Keys(tree, <<"subnet">>)
      BY <1>2, <3>1, RangeHome
    <3> QED BY <1>2, <1>3, <3>1, <3>2, <3>3, DeletesApart DEF Ranges
  <2> QED BY <2>1, <2>2 DEF Other
<1> QED BY <1>1, <1>4 DEF IdInv

\* and after every step.
LEMMA IdStep == TypeOK /\ IdInv /\ [Next]_vars => IdInv'
<1> SUFFICES ASSUME TypeOK, IdInv, [Next]_vars PROVE IdInv'
  OBVIOUS
<1>1. CASE Load \/ LoadFails \/ Open \/ OpenNew \/ Edit \/ Cancel
  BY <1>1, IdForm
<1>2. CASE Save \/ SaveRefused \/ Delete
  <2>1. toast' # "none"
    BY <1>2 DEF Save, SaveRefused, Delete
  <2> QED BY <2>1 DEF IdInv
<1>3. CASE Other
  BY <1>3, IdOther
<1>4. CASE UNCHANGED vars
  BY <1>4 DEF IdInv, vars
<1> QED BY <1>1, <1>2, <1>3, <1>4 DEF Next

\* A save that nothing has overtaken keeps the ids apart.
LEMMA IdSave == TypeOK /\ IdInv /\ Save /\ Fresh => IdsApart(tree')
<1> SUFFICES ASSUME TypeOK, IdInv, Save, Fresh PROVE IdsApart(tree')
  OBVIOUS
<1>1. toast = "none" /\ form # Closed
  BY DEF Save
<1>2. ed \in DOMAIN Ed /\ IsForm(ed, form) /\ IsConfig(tree) /\ IsKnown(ed, tree)
  BY <1>1 DEF TypeOK
<1>3. FormKey(ed, form.key) /\ IsKey(ed, form.to) /\ IsRow(ed, form.seed) /\ IsRow(ed, form.u)
  BY <1>2, FormTyped
<1>4. Seen = tree /\ page = tree
  BY DEF Seen, Fresh
<1>5. IsRow(ed, LiveRow)
  BY <1>1, LiveRowTyped
<1> DEFINE k == form.key
           to == form.to
           l == LiveRow
<1>6. PICK r \in Submit(ed, page, k, to, form.seed, form.u) : tree' = Commit(tree, Commands(ed, tree, k, to, l, r))
  BY <1>4 DEF Save
<1>7. IsRow(ed, r) /\ Complete(ed, r)
  BY <1>2, <1>3, <1>6, SubmitTyped, SubmitComplete
<1>8. /\ IdsApart(tree)
      /\ ed \in Dhcp => k \in {<<>>, Key(ed)} /\ (ed \notin Ranges => k \in {<<>>, to})
      /\ ed \in Ranges => /\ Homes(ed) \subseteq Dhcp_Keys(tree, <<"subnet">>)
                          /\ SubSeq(to, 1, 3) \in Homes(ed)
  BY <1>1 DEF IdInv
<1>9. IF k = <<>> THEN to \notin KeysOf(ed, tree) ELSE k \in KeysOf(ed, tree) \cup {<<"">>}
  BY <1>1 DEF Fresh, Shows
<1>10. ed = "dhcp_server" /\ k = <<>> => r["first_subnet"] # None
  <2> SUFFICES ASSUME ed = "dhcp_server", k = <<>> PROVE r["first_subnet"] # None
    OBVIOUS
  <2>1. r \in Server_Form(k, form.u)
    BY <1>6 DEF Submit
  <2> QED BY <2>1 DEF Server_Form
<1>11. IsKey(ed, to) /\ FormKey(ed, k)
  BY <1>3
<1>12. IsRow(ed, l)
  BY <1>5
<1> HIDE DEF k, to, l
<1>13. CASE ed \in Dhcp \ Ranges /\ k = <<>>
  <2>1. ed \in {"dhcp_server", "dhcp_subnet"}
    BY <1>13 DEF Dhcp, Ranges
  <2>2. IdsApart(Commit(tree, Commands(ed, tree, <<>>, to, l, r)))
    BY <1>2, <1>7, <1>8, <1>9, <1>10, <1>11, <1>12, <1>13, <2>1, NewDhcpApart
  <2> QED BY <1>6, <1>13, <2>2
<1>14. CASE ~(ed \in Dhcp \ Ranges /\ k = <<>>)
  <2>1. ed \in Ranges => /\ SubSeq(to, 1, 3) \in Dhcp_Keys(tree, <<"subnet">>)
                         /\ k # <<>> => SubSeq(k, 1, 3) \in Dhcp_Keys(tree, <<"subnet">>)
    BY <1>8, TargetHome DEF Ranges, Dhcp
  <2>2. ed \in Dhcp \ Ranges => k = to /\ to \in KeysOf(ed, tree)
    <3> SUFFICES ASSUME ed \in Dhcp \ Ranges PROVE k = to /\ to \in KeysOf(ed, tree)
      OBVIOUS
    <3>1. k # <<>> /\ k = Key(ed) /\ k = to
      BY <1>8, <1>14
    <3>2. Key(ed) # <<"">>
      BY <1>2, DhcpIs DEF Key, Dhcp, Ranges
    <3> QED BY <1>9, <3>1, <3>2
  <2>3. IdsApart(tree) => IdsApart(Commit(tree, Commands(ed, tree, k, to, l, r)))
    BY <1>2, <1>7, <1>11, <1>12, <2>1, <2>2, SavedApart
  <2> QED BY <1>6, <1>8, <2>3
<1> QED BY <1>13, <1>14

\* DistinctSubnetIds: a save from an up to date page never gives two subnets
\* one id (nextSubnetId), in whatever order others save and delete beside it.
THEOREM DistinctSubnetIdsHolds == Spec => DistinctSubnetIds
<1>1. TypeOK /\ IdInv /\ [Next]_vars => [Saves /\ Fresh => IdsApart(tree')]_vars
  <2> SUFFICES ASSUME TypeOK, IdInv, Next, Saves, Fresh PROVE IdsApart(tree') \/ UNCHANGED vars
    OBVIOUS
  <2>1. Save
    BY DEF Next, Load, LoadFails, Open, OpenNew, Edit, Cancel, SaveRefused, Delete, Other, Saves
  <2> QED BY <2>1, IdSave
<1>2. TypeOK /\ IdInv /\ [Next]_vars => IdInv'
  BY IdStep
<1> QED BY <1>1, <1>2, IdInit, TypeCorrect, PTL DEF Spec, DistinctSubnetIds
=============================================================================
