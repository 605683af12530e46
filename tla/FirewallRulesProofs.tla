----------------------- MODULE FirewallRulesProofs ------------------------
(***************************************************************************)
(* Theorems about FirewallRules, for any zone pairs, zones, sides offered, *)
(* starting configurations and bounds.                                     *)
(***************************************************************************)
EXTENDS FirewallRules, FiniteSetTheorems, WellFoundedInduction, TLAPS

-----------------------------------------------------------------------------
(* Numbers.                                                                *)

\* A set of numbers has a least one.
LEMMA LeastNumber ==
  ASSUME NEW S, S \subseteq Nat, S # {}
  PROVE  \E m \in S : \A n \in S : m <= n
<1>1. PICK m \in S : \A n \in S : ~(<<n, m>> \in OpToRel(<, Nat))
  BY NatLessThanWellFounded, WFMin
<1>2. \A n \in S : ~(n < m)
  BY <1>1 DEF OpToRel
<1> QED BY <1>2

\* Max of finitely many numbers is the greatest of them.
HasGreatest(S) == \E m \in S : \A n \in S : n <= m

\* The greatest of a finite set of numbers is in it and bounds it.
LEMMA MaxIn ==
  ASSUME NEW S, S \subseteq Nat, S # {}, IsFiniteSet(S)
  PROVE  Max(S) \in S /\ \A n \in S : n <= Max(S)
<1> DEFINE Topless(n) == \E T \in SUBSET Nat : IsFiniteSet(T) /\ Cardinality(T) = n /\ T # {} /\ ~HasGreatest(T)
           Bad == {n \in Nat : Topless(n)}
<1>1. Bad = {}
  <2> SUFFICES ASSUME Bad # {} PROVE FALSE
    OBVIOUS
  <2>1. PICK n \in Bad : \A m \in Bad : n <= m
    BY LeastNumber
  <2>2. PICK T \in SUBSET Nat : IsFiniteSet(T) /\ Cardinality(T) = n /\ T # {} /\ ~HasGreatest(T)
    OBVIOUS
  <2>3. PICK x \in T : TRUE
    BY <2>2
  <2> DEFINE R == T \ {x}
  <2>4. IsFiniteSet(R) /\ Cardinality(R) = n - 1 /\ Cardinality(R) \in Nat
    BY <2>2, <2>3, FS_RemoveElement, FS_CardinalityType
  <2>5. HasGreatest(R) \/ R = {}
    <3>1. n - 1 \notin Bad /\ n - 1 \in Nat
      BY <2>1, <2>4
    <3> QED BY <3>1, <2>4
  <2>6. HasGreatest(T)
    <3>1. CASE R = {}
      BY <3>1, <2>3 DEF HasGreatest
    <3>2. CASE HasGreatest(R)
      <4>1. PICK m \in R : \A k \in R : k <= m
        BY <3>2 DEF HasGreatest
      <4>2. CASE x <= m
        BY <4>1, <4>2 DEF HasGreatest
      <4>3. CASE ~(x <= m)
        <5>1. \A k \in T : k <= x
          BY <4>1, <4>3, <2>3
        <5> QED BY <5>1, <2>3 DEF HasGreatest
      <4> QED BY <4>2, <4>3
    <3> QED BY <3>1, <3>2, <2>5
  <2> QED BY <2>2, <2>6
<1>2. Cardinality(S) \in Nat
  BY FS_CardinalityType
<1>3. HasGreatest(S)
  BY <1>1, <1>2
<1>4. PICK m \in S : \A n \in S : m >= n
  BY <1>3 DEF HasGreatest
<1>5. Max(S) \in S /\ \A n \in S : Max(S) >= n
  BY <1>4 DEF Max
<1> QED BY <1>5

-----------------------------------------------------------------------------
(* Rows.                                                                   *)

\* The scope that represents a rule is one of its scopes.
LEMMA RepIn ==
  ASSUME NEW S, S \subseteq Scopes, S # {}
  PROVE  Rep(S) \in S
<1> DEFINE I == {i \in DOMAIN Order : Order[i] \in S}
<1>1. I \subseteq Nat /\ I # {}
  BY OrderAssumption
<1>2. PICK i \in I : \A j \in I : i <= j
  BY <1>1, LeastNumber
<1>3. DOMAIN Order = 1..Len(Order)
  BY OrderAssumption
<1>4. \A j \in 1..(i - 1) : Order[j] \notin S
  BY <1>2, <1>3
<1>5. \E s \in S : \E k \in DOMAIN Order : Order[k] = s /\ \A j \in 1..(k - 1) : Order[j] \notin S
  BY <1>2, <1>4
<1> QED BY <1>5 DEF Rep

\* Where the copies of a zone rule are.
Copies(c, n) == {s \in c.bound : <<s, n>> \in DOMAIN c.rule}

\* A row stands for a rule of a base chain, or for the copies of a number.
LEMMA RowsAre ==
  ASSUME NEW c, IsConf(c), NEW r
  PROVE  r \in Rows(c) <=>
           /\ r = RowAt(c, r.scopes, r.n)
           /\ \/ \E b \in Base : r.scopes = {b} /\ <<b, r.n>> \in DOMAIN c.rule
              \/ r.scopes = Copies(c, r.n) /\ r.scopes # {}
<1>1. \A k \in DOMAIN c.rule : k = <<k[1], k[2]>>
  BY DEF IsConf, IsRules
<1>2. \A S, n : RowAt(c, S, n).scopes = S /\ RowAt(c, S, n).n = n
  BY DEF RowAt
<1> DEFINE A == {RowAt(c, {k[1]}, k[2]) : k \in {k \in DOMAIN c.rule : k[1] \in Base}}
           B == {RowAt(c, Copies(c, n), n) : n \in {k[2] : k \in {k \in DOMAIN c.rule : k[1] \in c.bound}}}
<1>3. Rows(c) = A \cup B
  BY DEF Rows, Copies
<1>4. r \in A <=> r = RowAt(c, r.scopes, r.n) /\ \E b \in Base : r.scopes = {b} /\ <<b, r.n>> \in DOMAIN c.rule
  <2>1. ASSUME r \in A PROVE r = RowAt(c, r.scopes, r.n) /\ \E b \in Base : r.scopes = {b} /\ <<b, r.n>> \in DOMAIN c.rule
    <3>1. PICK k \in DOMAIN c.rule : k[1] \in Base /\ r = RowAt(c, {k[1]}, k[2])
      BY <2>1
    <3>2. r.n = k[2] /\ r.scopes = {k[1]}
      BY <1>2, <3>1
    <3>3. <<k[1], r.n>> = k
      BY <1>1, <3>2
    <3>4. r = RowAt(c, r.scopes, r.n)
      BY <3>1, <3>2
    <3> QED BY <3>1, <3>2, <3>3, <3>4
  <2>2. ASSUME r = RowAt(c, r.scopes, r.n), NEW b \in Base, r.scopes = {b}, <<b, r.n>> \in DOMAIN c.rule PROVE r \in A
    <3>1. <<b, r.n>>[1] = b /\ <<b, r.n>>[2] = r.n
      OBVIOUS
    <3> QED BY <2>2, <3>1
  <2> QED BY <2>1, <2>2
<1>5. r \in B <=> r = RowAt(c, r.scopes, r.n) /\ r.scopes = Copies(c, r.n) /\ r.scopes # {}
  <2>1. ASSUME r \in B PROVE r = RowAt(c, r.scopes, r.n) /\ r.scopes = Copies(c, r.n) /\ r.scopes # {}
    <3>1. PICK k \in DOMAIN c.rule : k[1] \in c.bound /\ r = RowAt(c, Copies(c, k[2]), k[2])
      BY <2>1
    <3>2. k[1] \in Copies(c, k[2])
      BY <1>1, <3>1 DEF Copies
    <3> QED BY <1>2, <3>1, <3>2
  <2>2. ASSUME r = RowAt(c, r.scopes, r.n), r.scopes = Copies(c, r.n), r.scopes # {} PROVE r \in B
    <3>1. PICK s \in c.bound : <<s, r.n>> \in DOMAIN c.rule
      BY <2>2 DEF Copies
    <3> QED BY <2>2, <3>1
  <2> QED BY <2>1, <2>2
<1> QED BY <1>3, <1>4, <1>5

\* The rows of a rule's keys.
LEMMA RowOf ==
  ASSUME NEW c, IsConf(c), NEW k \in DOMAIN c.rule, k[1] \in Base \cup c.bound
  PROVE  \E r \in Rows(c) : r.n = k[2] /\ k[1] \in r.scopes
<1>1. k = <<k[1], k[2]>>
  BY DEF IsConf, IsRules
<1>2. \A S, n : RowAt(c, S, n).scopes = S /\ RowAt(c, S, n).n = n
  BY DEF RowAt
<1>3. CASE k[1] \in Base
  <2> DEFINE r == RowAt(c, {k[1]}, k[2])
  <2>1. r \in Rows(c)
    BY <1>1, <1>2, <1>3, RowsAre
  <2> QED BY <1>2, <2>1
<1>4. CASE k[1] \in c.bound
  <2> DEFINE r == RowAt(c, Copies(c, k[2]), k[2])
  <2>1. k[1] \in Copies(c, k[2])
    BY <1>1, <1>4 DEF Copies
  <2>2. r \in Rows(c)
    BY <1>2, <2>1, RowsAre
  <2> QED BY <1>2, <2>1, <2>2
<1> QED BY <1>3, <1>4

\* A row has its shape, and its scopes hold its number.
LEMMA RowTyped ==
  ASSUME NEW c, IsConf(c), NEW r \in Rows(c)
  PROVE  /\ IsRow(r) /\ r.scopes \subseteq Scopes
         /\ \A s \in r.scopes : <<s, r.n>> \in DOMAIN c.rule
         /\ r.scopes \subseteq Base \/ r.scopes \subseteq c.bound
         /\ Rep(r.scopes) \in r.scopes /\ r.body = c.rule[<<Rep(r.scopes), r.n>>]
<1>1. /\ r = RowAt(c, r.scopes, r.n)
      /\ \/ \E b \in Base : r.scopes = {b} /\ <<b, r.n>> \in DOMAIN c.rule
         \/ r.scopes = Copies(c, r.n) /\ r.scopes # {}
  BY RowsAre
<1>2. \A s \in r.scopes : <<s, r.n>> \in DOMAIN c.rule
  BY <1>1 DEF Copies
<1>3. r.scopes # {} /\ (r.scopes \subseteq c.bound \/ \E b \in Base : r.scopes = {b})
  BY <1>1 DEF Copies
<1>4. c.bound \subseteq DOMAIN Pairs
  BY DEF IsConf, IsRules
<1>5. Rep(r.scopes) \in r.scopes
  BY <1>3, <1>4, RepIn DEF Scopes
<1>6. r.n \in Nat \ {0} /\ IsBody(c.rule[<<Rep(r.scopes), r.n>>])
  BY <1>2, <1>5 DEF IsConf, IsRules
<1>7. r.body = c.rule[<<Rep(r.scopes), r.n>>]
  BY <1>1 DEF RowAt
<1>8. r = [n |-> r.n, scopes |-> r.scopes, body |-> r.body]
  BY <1>1 DEF RowAt
<1> QED BY <1>2, <1>3, <1>4, <1>5, <1>6, <1>7, <1>8 DEF IsRow, Scopes

\* No row has two places: rows that share a scope and the number are one.
LEMMA RowsApart ==
  ASSUME NEW c, IsConf(c), NEW r \in Rows(c), NEW q \in Rows(c), r.n = q.n, r.scopes \cap q.scopes # {}
  PROVE  r = q
<1>1. c.bound \cap Base = {}
  BY PairsAssumption DEF IsConf, IsRules
<1>2. \A x \in Rows(c) : /\ x = RowAt(c, x.scopes, x.n)
                         /\ (\E b \in Base : x.scopes = {b}) \/ x.scopes = Copies(c, x.n)
  BY RowsAre
<1>3. r.scopes = q.scopes
  BY <1>1, <1>2 DEF Copies
<1> QED BY <1>2, <1>3

\* A configuration has finitely many rows.
LEMMA RowsFinite ==
  ASSUME NEW c, IsConf(c)
  PROVE  IsFiniteSet(Rows(c)) /\ Cardinality(Rows(c)) \in Nat
<1> DEFINE K == {k \in DOMAIN c.rule : k[1] \in Base \cup c.bound}
           RowAtKey(k) == CHOOSE r \in Rows(c) : r.n = k[2] /\ k[1] \in r.scopes
           f == [k \in K |-> RowAtKey(k)]
<1>1. IsFiniteSet(K)
  BY FS_Subset DEF IsConf, IsRules
<1>2. \A k \in K : RowAtKey(k) \in Rows(c) /\ RowAtKey(k).n = k[2] /\ k[1] \in RowAtKey(k).scopes
  BY RowOf
<1>3. ASSUME NEW r \in Rows(c) PROVE \E k \in K : f[k] = r
  <2>1. PICK s \in r.scopes : TRUE
    BY RowTyped
  <2> DEFINE k == <<s, r.n>>
  <2>2. k \in K /\ k[1] = s /\ k[2] = r.n
    BY RowTyped
  <2>3. RowAtKey(k) = r
    BY <1>2, <2>2, RowsApart
  <2> QED BY <2>2, <2>3
<1>4. f \in Surjection(K, Rows(c))
  BY <1>2, <1>3 DEF Surjection
<1> QED BY <1>1, <1>4, FS_Surjection, FS_CardinalityType

\* A fresh number is above those of all rows.
LEMMA FreshNumber ==
  ASSUME NEW c, IsConf(c)
  PROVE  /\ NextRuleNumber(Rows(c)) \in Nat \ {0}
         /\ \A r \in Rows(c) : r.n < NextRuleNumber(Rows(c))
<1> DEFINE N == {r.n : r \in Rows(c)}
           f == [r \in Rows(c) |-> r.n]
           S == {0} \cup N
<1>1. f \in Surjection(Rows(c), N)
  BY DEF Surjection
<1>2. IsFiniteSet(N)
  BY <1>1, RowsFinite, FS_Surjection
<1>3. IsFiniteSet(S)
  <2>1. S = N \cup {0}
    OBVIOUS
  <2> QED BY <1>2, <2>1, FS_AddElement
<1>4. S \subseteq Nat
  <2>1. \A r \in Rows(c) : r.n \in Nat
    BY RowTyped DEF IsRow
  <2> QED BY <2>1
<1>5. Max(S) \in S /\ \A n \in S : n <= Max(S)
  BY <1>3, <1>4, MaxIn
<1>6. NextRuleNumber(Rows(c)) = Max(S) + 10
  BY DEF NextRuleNumber
<1> HIDE DEF S
<1>7. Max(S) \in Nat
  BY <1>4, <1>5
<1>8. ASSUME NEW r \in Rows(c) PROVE r.n < Max(S) + 10
  <2>1. r.n \in S
    BY DEF S
  <2>2. r.n \in Nat /\ r.n <= Max(S)
    BY <1>4, <1>5, <2>1
  <2> QED BY <1>7, <2>2
<1> QED BY <1>6, <1>7, <1>8
-----------------------------------------------------------------------------
(* Shapes.                                                                 *)

\* There are finitely many scopes, so a rule has finitely many copies.
LEMMA KeysTyped ==
  ASSUME NEW S, S \subseteq Scopes, NEW n \in Nat \ {0}
  PROVE  S \X {n} \subseteq Scopes \X (Nat \ {0}) /\ IsFiniteSet(S \X {n})
<1>1. Order \in [1..Len(Order) -> Scopes] /\ Len(Order) \in Nat
  BY OrderAssumption
<1>2. Order \in Surjection(1..Len(Order), Scopes)
  BY <1>1, OrderAssumption DEF Surjection
<1>3. IsFiniteSet(S)
  BY <1>1, <1>2, FS_Interval, FS_Surjection, FS_Subset
<1> DEFINE f == [s \in S |-> <<s, n>>]
<1>4. f \in Surjection(S, S \X {n})
  BY DEF Surjection
<1>5. IsFiniteSet(S \X {n})
  BY <1>3, <1>4, FS_Surjection
<1> QED BY <1>5

\* What is written over a rule: some of its leaves.
IsPatch(p) ==
  DOMAIN p \subseteq DOMAIN BlankBody /\ \A f \in DOMAIN p \cap {"ips", "log", "policy", "raw"} : p[f] \in BOOLEAN

\* A rule that says nothing is a rule.
LEMMA BlankTyped == IsBody(BlankBody)
BY DEF IsBody, BlankBody

\* Leaves set on a rule leave a rule.
LEMMA PatchedTyped ==
  ASSUME NEW p, IsPatch(p), NEW b, IsBody(b)
  PROVE  IsBody(Over(p, b))
<1> DEFINE o == Over(p, b)
           F == DOMAIN BlankBody
<1>1. DOMAIN b = F
  BY DEF IsBody
<1>2. o = [f \in F |-> o[f]]
  BY <1>1 DEF IsPatch, Over
<1>3. \A f \in F : o[f] = IF f \in DOMAIN p THEN p[f] ELSE b[f]
  BY <1>1 DEF IsPatch, Over
<1>4. \A f \in {"ips", "log", "policy", "raw"} : f \in F /\ b[f] \in BOOLEAN
  BY DEF IsBody, BlankBody
<1>5. \A f \in {"ips", "log", "policy", "raw"} : o[f] \in BOOLEAN
  BY <1>3, <1>4 DEF IsPatch
<1> QED BY <1>2, <1>5 DEF IsBody

\* What ToggleIps writes is a patch.
LEMMA IpsPatchTyped ==
  ASSUME NEW x \in BOOLEAN
  PROVE  IsPatch([ips |-> x, action |-> "accept"])
BY DEF IsPatch, BlankBody

\* A rule is kept under a scope and a positive number, with all its fields.
LEMMA KeyTyped ==
  ASSUME NEW c, IsConf(c), NEW k \in DOMAIN c.rule
  PROVE  /\ k = <<k[1], k[2]>> /\ k[1] \in Scopes /\ k[2] \in Nat \ {0}
         /\ IsBody(c.rule[k]) /\ DOMAIN c.rule[k] = DOMAIN BlankBody
<1>1. k \in Scopes \X (Nat \ {0}) /\ IsBody(c.rule[k])
  BY DEF IsConf, IsRules
<1>2. DOMAIN c.rule[k] = DOMAIN BlankBody
  BY <1>1 DEF IsBody
<1> QED BY <1>1, <1>2

\* Where there is no rule, `set` starts from a blank one.
LEMMA RuleAtTyped ==
  ASSUME NEW R, IsRules(R), NEW k
  PROVE  IsBody(RuleAt(R, k))
BY BlankTyped DEF RuleAt, IsRules

\* Rules over rules are rules.
LEMMA OverTyped ==
  ASSUME NEW R, IsRules(R), NEW Q, IsRules(Q)
  PROVE  IsRules(Over(R, Q))
<1>1. IsFiniteSet(DOMAIN R \cup DOMAIN Q)
  BY FS_Union DEF IsRules
<1> QED BY <1>1 DEF IsRules, Over

\* Rules without some of them are rules.
LEMMA WithoutTyped ==
  ASSUME NEW R, IsRules(R), NEW D
  PROVE  IsRules(Without(R, D))
<1>1. IsFiniteSet(DOMAIN R \ D)
  BY FS_Subset DEF IsRules
<1> QED BY <1>1 DEF IsRules, Without

\* The parts of a configuration that a step may replace.
LEMMA ConfTyped ==
  ASSUME NEW c, IsConf(c)
  PROVE  /\ \A R : IsRules(R) => IsConf([c EXCEPT !.rule = R])
         /\ \A B : B \subseteq DOMAIN Pairs => IsConf([c EXCEPT !.bound = B])
         /\ \A B : B \subseteq Base => IsConf([c EXCEPT !.baseline = B])
         /\ \A Z : Z \subseteq NetZones \cup {Local} => IsConf([c EXCEPT !.zones = Z])
         /\ \A x \in BOOLEAN : /\ IsConf([c EXCEPT !.flow = x]) /\ IsConf([c EXCEPT !.state = x])
                              /\ IsConf([c EXCEPT !.drop = x])
         /\ \A p \in {"tcp", "udp"} : IsConf([c EXCEPT !.protocol = p])
         /\ \A x : IsFiniteSet(x) => IsConf([c EXCEPT !.group = x])
         /\ \A x : IsGeo(x) => IsConf([c EXCEPT !.geo = x])
         /\ \A x : IsConf([c EXCEPT !.ssl = x])
<1> HIDE DEF IsRules, IsGeo
<1> QED BY DEF IsConf, ConfFields

\* What GeoCommands makes of a rule's policies: each that is there afterwards is
\* one of the rule in its scopes, or one that was there and neither of a number
\* the rule left nor of a scope it left.
GeoAre(c, d, geo, gone, n, scopes, of) ==
  \A i \in DOMAIN d.geo :
    \/ /\ DOMAIN d.geo[i] = {"scope", "n", "action", "off", "of"}
       /\ d.geo[i].scope \in scopes /\ d.geo[i].n = n /\ d.geo[i].of = of
    \/ /\ i \in DOMAIN c.geo /\ d.geo[i] = c.geo[i]
       /\ i \in DOMAIN geo =>
            /\ geo[i].n = n => geo[i].scope \notin scopes /\ (IsZone(scopes) => geo[i].scope \in Base)
            /\ geo[i].n # n => geo[i].n \notin gone

\* GeoCommands sets them so, and nothing else.
LEMMA GeoCommandsIs ==
  ASSUME NEW c, IsConf(c), NEW geo, NEW gone, NEW n, NEW scopes, NEW action, NEW of
  PROVE  LET d == GeoCommands(c, geo, gone, n, scopes, action, of)
         IN  GeoAre(c, d, geo, gone, n, scopes, of) /\ \A f \in ConfFields \ {"geo"} : d[f] = c[f]
<1> DEFINE existing == {i \in DOMAIN geo : geo[i].n = n /\ (geo[i].scope \in scopes \/ (IsZone(scopes) /\ geo[i].scope \notin Base))}
           stale == {i \in DOMAIN geo : geo[i].n \in gone \ {n}}
           missing == {s \in scopes : \A i \in existing : geo[i].scope # s}
           ids == CHOOSE f \in [missing -> GeoIds(geo, n, Cardinality(missing))] : \A s, t \in missing : f[s] = f[t] => s = t
           keep == {i \in existing : geo[i].scope \in scopes}
           at(i) == IF i \in keep THEN geo[i].scope ELSE CHOOSE s \in missing : ids[s] = i
           new == [i \in keep \cup {ids[s] : s \in missing} |->
                    [scope |-> at(i), n |-> n, action |-> action, off |-> FALSE, of |-> of]]
           left == Without(c.geo, existing \cup stale)
           most == Without(c.geo, (existing \ keep) \cup stale)
           G == IF action = None THEN left ELSE Over(new, most)
           d == GeoCommands(c, geo, gone, n, scopes, action, of)
<1>1. d = [c EXCEPT !.geo = G]
  BY Zenon DEF GeoCommands
<1>2. DOMAIN c = ConfFields /\ "geo" \in ConfFields
  BY DEF IsConf, ConfFields
<1>3. DOMAIN new = keep \cup {ids[s] : s \in missing}
  OBVIOUS
<1>4. ASSUME NEW i \in DOMAIN new
      PROVE  /\ DOMAIN new[i] = {"scope", "n", "action", "off", "of"}
             /\ new[i].scope \in scopes /\ new[i].n = n /\ new[i].of = of
  <2> HIDE DEF existing, ids
  <2>1. at(i) \in scopes
    <3>1. CASE i \in keep
      BY <3>1
    <3>2. CASE i \notin keep
      <4>1. \E s \in missing : ids[s] = i
        BY <1>3, <3>2
      <4> QED BY <3>2, <4>1
    <3> QED BY <3>1, <3>2
  <2> HIDE DEF at, keep, missing
  <2> QED BY <2>1
<1>5. keep \subseteq DOMAIN new /\ keep \subseteq existing
  BY <1>3
<1> HIDE DEF new, keep
<1>6. ASSUME NEW i \in DOMAIN c.geo, i \notin existing \cup stale, i \in DOMAIN geo
      PROVE  /\ geo[i].n = n => geo[i].scope \notin scopes /\ (IsZone(scopes) => geo[i].scope \in Base)
             /\ geo[i].n # n => geo[i].n \notin gone
  BY <1>6
<1> HIDE DEF existing, stale
<1>7. ASSUME NEW i \in DOMAIN G
      PROVE  \/ i \in DOMAIN new /\ G[i] = new[i]
             \/ i \in DOMAIN c.geo /\ G[i] = c.geo[i] /\ i \notin existing \cup stale
  <2>1. CASE action = None
    BY <1>7, <2>1 DEF Without
  <2>2. CASE action # None
    <3>1. G = Over(new, most)
      BY <2>2
    <3>2. DOMAIN most = DOMAIN c.geo \ ((existing \ keep) \cup stale) /\ \A j \in DOMAIN most : most[j] = c.geo[j]
      BY DEF Without
    <3> HIDE DEF most, G
    <3>3. CASE i \in DOMAIN new
      BY <3>1, <3>3 DEF Over
    <3>4. CASE i \notin DOMAIN new
      BY <1>5, <1>7, <3>1, <3>2, <3>4 DEF Over
    <3> QED BY <3>3, <3>4
  <2> QED BY <2>1, <2>2
<1> HIDE DEF G, d
<1>8. d.geo = G /\ \A f \in ConfFields \ {"geo"} : d[f] = c[f]
  BY <1>1, <1>2
<1>9. GeoAre(c, d, geo, gone, n, scopes, of)
  <2> SUFFICES ASSUME NEW i \in DOMAIN d.geo
               PROVE  \/ /\ DOMAIN d.geo[i] = {"scope", "n", "action", "off", "of"}
                         /\ d.geo[i].scope \in scopes /\ d.geo[i].n = n /\ d.geo[i].of = of
                      \/ /\ i \in DOMAIN c.geo /\ d.geo[i] = c.geo[i]
                         /\ i \in DOMAIN geo =>
                              /\ geo[i].n = n => geo[i].scope \notin scopes /\ (IsZone(scopes) => geo[i].scope \in Base)
                              /\ geo[i].n # n => geo[i].n \notin gone
    BY DEF GeoAre
  <2>1. i \in DOMAIN G
    BY <1>8
  <2>2. CASE i \in DOMAIN new /\ G[i] = new[i]
    BY <1>4, <1>8, <2>2
  <2>3. CASE i \in DOMAIN c.geo /\ G[i] = c.geo[i] /\ i \notin existing \cup stale
    BY <1>6, <1>8, <2>3
  <2> QED BY <1>7, <2>1, <2>2, <2>3
<1> QED BY <1>8, <1>9 DEF d

\* And so it leaves a configuration.
LEMMA GeoTyped ==
  ASSUME NEW c, IsConf(c), NEW geo, NEW gone, NEW n, NEW scopes, NEW action, NEW of
  PROVE  IsConf(GeoCommands(c, geo, gone, n, scopes, action, of))
<1> DEFINE d == GeoCommands(c, geo, gone, n, scopes, action, of)
<1>1. GeoAre(c, d, geo, gone, n, scopes, of)
  BY GeoCommandsIs
<1>2. IsGeo(c.geo)
  BY DEF IsConf
<1>3. PICK x : d = [c EXCEPT !.geo = x]
  BY Zenon DEF GeoCommands
<1>4. d.geo = x
  BY <1>3 DEF IsConf, ConfFields
<1> HIDE DEF d
<1>5. IsGeo(x)
  BY <1>1, <1>2, <1>4 DEF GeoAre, IsGeo
<1>6. IsConf(d)
  BY <1>3, <1>5, ConfTyped
<1> QED BY <1>6 DEF d

\* Each of the steps a commit is built from yields a configuration: the leaves
\* of a rule set in some scopes,
LEMMA WriteTyped ==
  ASSUME NEW c, IsConf(c), NEW n \in Nat \ {0}, NEW patch, DOMAIN patch \subseteq Scopes,
         \A s \in DOMAIN patch : IsPatch(patch[s])
  PROVE  IsConf(Write(c, n, patch))
<1> DEFINE R == [k \in (DOMAIN patch) \X {n} |-> Over(patch[k[1]], RuleAt(c.rule, k))]
<1>1. IsRules(c.rule)
  BY DEF IsConf
<1>2. \A k \in (DOMAIN patch) \X {n} : IsBody(Over(patch[k[1]], RuleAt(c.rule, k)))
  BY <1>1, RuleAtTyped, PatchedTyped
<1>3. IsRules(R)
  BY <1>2, KeysTyped DEF IsRules
<1>4. IsRules(Over(R, c.rule))
  BY <1>1, <1>3, OverTyped
<1> QED BY <1>4, ConfTyped DEF Write

\* pairs unbound with their rulesets,
LEMMA TearDownTyped ==
  ASSUME NEW c, IsConf(c), NEW P
  PROVE  IsConf(TearDown(c, P))
<1>1. IsRules(Without(c.rule, {k \in DOMAIN c.rule : k[1] \in P})) /\ c.bound \ P \subseteq DOMAIN Pairs
  BY WithoutTyped DEF IsConf
<1> HIDE DEF IsRules
<1> QED BY <1>1 DEF TearDown, IsConf, ConfFields

\* a rule dropped from some scopes,
LEMMA DropCopiesTyped ==
  ASSUME NEW c, IsConf(c), NEW cfg, NEW S, NEW n
  PROVE  IsConf(DropCopies(c, cfg, S, n))
<1>1. IsRules(Without(c.rule, S \X {n}))
  BY WithoutTyped DEF IsConf
<1>2. IsConf([c EXCEPT !.rule = Without(@, S \X {n})])
  BY <1>1, ConfTyped
<1> QED BY <1>2, TearDownTyped DEF DropCopies

\* the hidden rules of a chain seeded,
LEMMA SeedTyped ==
  ASSUME NEW c, IsConf(c), NEW chain \in Base
  PROVE  IsConf(SeedBaseline(c, chain)) /\ IsConf([SeedBaseline(c, chain) EXCEPT !.flow = TRUE])
<1>1. IsRules(Without(c.rule, {chain} \X {1, 2})) /\ c.baseline \cup {chain} \subseteq Base
  BY WithoutTyped DEF IsConf
<1> HIDE DEF IsRules
<1>2. IsConf(SeedBaseline(c, chain))
  BY <1>1 DEF SeedBaseline, IsConf, ConfFields
<1> QED BY <1>2, ConfTyped

\* what a rule relies on seeded, piece by piece,
LEMMA EnsureTyped ==
  ASSUME NEW c, IsConf(c), NEW cfg
  PROVE  /\ IsConf(EnsureForward(c, cfg)) /\ IsConf(EnsureIpsFlow(c, cfg)) /\ IsConf(EnsureState(c, cfg))
         /\ \A chain \in Base : IsConf(EnsureChain(c, cfg, chain))
         /\ \A S : S \subseteq DOMAIN Pairs => IsConf(EnsurePairs(c, cfg, S))
<1>1. IsConf(EnsureForward(c, cfg))
  BY SeedTyped DEF EnsureForward, Base
<1>2. IsConf(EnsureIpsFlow(c, cfg))
  BY SeedTyped DEF EnsureIpsFlow, Base
<1>3. \A S : S \subseteq DOMAIN Pairs => c.bound \cup (S \ cfg.bound) \subseteq DOMAIN Pairs
  BY DEF IsConf
<1>4. \A chain \in Base : IsConf(EnsureChain(c, cfg, chain))
  BY SeedTyped DEF EnsureChain
<1> QED BY <1>1, <1>2, <1>3, <1>4, ConfTyped DEF EnsureState, EnsurePairs

\* The scopes of a selection: zone pairs, or one base chain.
LEMMA ChainsAre ==
  ASSUME NEW zones, NEW sel
  PROVE  \/ RuleChainsFor(zones, sel) \subseteq DOMAIN Pairs
         \/ \E b \in Base : RuleChainsFor(zones, sel) = {b}
BY DEF RuleChainsFor, Base

\* and for one rule as a whole.
LEMMA EnsureRuleTyped ==
  ASSUME NEW c, IsConf(c), NEW cfg, NEW kept, NEW u, NEW zones, NEW sel
  PROVE  IsConf(EnsureRule(c, cfg, kept, u, RuleChainsFor(zones, sel)))
<1> DEFINE chains == RuleChainsFor(zones, sel)
           c1 == EnsureScopes(c, cfg, chains)
           c2 == IF u.ips /\ u.action = "accept" /\ \A l \in kept : ~l.body.ips THEN EnsureIpsFlow(c1, cfg) ELSE c1
<1> HIDE DEF chains
<1>1. chains \subseteq DOMAIN Pairs \/ \E b \in Base : chains = {b}
  BY ChainsAre DEF chains
<1>2. IsConf(c1)
  <2>1. CASE IsZone(chains)
    <3>1. chains \subseteq DOMAIN Pairs
      BY <1>1, <2>1 DEF IsZone
    <3> QED BY <2>1, <3>1, EnsureTyped DEF EnsureScopes
  <2>2. CASE ~IsZone(chains)
    <3>1. PICK b \in Base : chains = {b}
      BY <1>1, <2>2, PairsAssumption DEF IsZone
    <3>2. Rep(chains) \in Base
      BY <3>1, RepIn DEF Scopes
    <3> QED BY <2>2, <3>2, EnsureTyped DEF EnsureScopes
  <2> QED BY <2>1, <2>2
<1> HIDE DEF c1
<1>3. IsConf(c2)
  BY <1>2, EnsureTyped
<1> HIDE DEF c2
<1>4. IsConf(EnsureForward(c2, cfg))
  BY <1>3, EnsureTyped
<1> QED BY <1>3, <1>4 DEF EnsureRule, c1, c2, chains

\* What a form submits: a new rule, or the rule it was opened on as the user
\* left it.
IsEntry(live, u) ==
  /\ \A l \in live : IsRow(l) /\ u.n = l.n /\ \A m \in live : l = m
  /\ u.n \in Nat \ {0} /\ {u.ips, u.log, u.policy, u.many} \subseteq BOOLEAN

\* A saved rule, and its services, get a positive number.
LEMMA LandsTyped ==
  ASSUME NEW cfg, IsConf(cfg), NEW live, NEW u, IsEntry(live, u), NEW chains
  PROVE  LandsAt(cfg, live, u, chains) \in Nat \ {0} /\ ServicesNumber(cfg, live, u, chains) \in Nat \ {0}
BY FreshNumber DEF LandsAt, ServicesNumber, IsEntry

\* What differs from the rule that was there is a patch.
LEMMA ChangesTyped ==
  ASSUME NEW cfg, NEW live, NEW u, IsEntry(live, u), NEW group, NEW b
  PROVE  IsPatch(Changes(Wanted(cfg, u, group), b))
<1> DEFINE w == Wanted(cfg, u, group)
<1>1. DOMAIN w \subseteq DOMAIN BlankBody
  BY DEF Wanted, BlankBody
<1>2. \A f \in DOMAIN w \cap {"ips", "log", "policy", "raw"} : w[f] \in BOOLEAN
  <2>1. w.ips \in BOOLEAN /\ w.log \in BOOLEAN /\ w.policy \in BOOLEAN
    BY DEF Wanted, IsEntry
  <2>2. "raw" \notin DOMAIN w
    BY DEF Wanted
  <2> HIDE DEF w
  <2> QED BY <2>1, <2>2
<1> HIDE DEF w
<1> QED BY <1>1, <1>2 DEF Changes, IsPatch, w

\* A rule's group is one the page has, or one more.
LEMMA RuleGroupFinite ==
  ASSUME NEW cfg, IsConf(cfg), NEW kept, NEW n, NEW many
  PROVE  IsFiniteSet(RuleGroup(cfg, kept, n, many))
<1>1. IsFiniteSet(cfg.group) /\ AutoGroup(cfg, kept) \subseteq cfg.group
  BY DEF IsConf, AutoGroup
<1>2. IsFiniteSet(AutoGroup(cfg, kept))
  BY <1>1, FS_Subset
<1>3. \A x : IsFiniteSet({x})
  BY FS_Singleton
<1> QED BY <1>2, <1>3, FS_EmptySet DEF RuleGroup

\* Exchanging a rule's groups leaves finitely many.
LEMMA RegroupTyped ==
  ASSUME NEW c, IsConf(c), NEW A, NEW G, IsFiniteSet(G)
  PROVE  IsConf([c EXCEPT !.group = (@ \ (A \ G)) \cup G])
<1>1. IsFiniteSet((c.group \ (A \ G)) \cup G)
  BY FS_Difference, FS_Union DEF IsConf
<1> QED BY <1>1, ConfTyped

\* Saving a rule yields a configuration,
LEMMA DiffRuleTyped ==
  ASSUME NEW c, IsConf(c), NEW cfg, IsConf(cfg), NEW live, NEW u, IsEntry(live, u)
  PROVE  IsConf(DiffRule(c, cfg, live, u))
<1> DEFINE chains == RuleChainsFor(cfg.zones, u.sel)
           n == LandsAt(cfg, live, u, chains)
           kept == Kept(live, chains)
           group == RuleGroup(cfg, kept, n, u.many)
           c1 == DropCopies(c, cfg, Dropped(live, chains), DroppedAt(live, chains, n))
           c2 == [c1 EXCEPT !.group = (@ \ (AutoGroup(cfg, live) \ group)) \cup group]
           c3 == EnsureRule(c2, cfg, kept, u, chains)
           patch == [s \in chains |-> Changes(Wanted(cfg, u, group), Was(kept, s))]
<1>1. DiffRule(c, cfg, live, u) = Write(c3, n, patch)
  BY DEF DiffRule
<1>2. n \in Nat \ {0}
  BY LandsTyped
<1>3. chains \subseteq Scopes
  BY ChainsAre DEF Scopes
<1>8. IsFiniteSet(group)
  BY RuleGroupFinite
<1> HIDE DEF n, group, kept
<1>4. IsConf(c1)
  BY DropCopiesTyped
<1> HIDE DEF c1
<1>5. IsConf(c2)
  BY <1>4, <1>8, RegroupTyped
<1> HIDE DEF c2
<1>6. IsConf(c3)
  BY <1>5, EnsureRuleTyped
<1> HIDE DEF c3, chains
<1>7. DOMAIN patch = chains /\ \A s \in chains : IsPatch(patch[s])
  BY ChangesTyped
<1> HIDE DEF patch
<1> QED BY <1>1, <1>2, <1>3, <1>6, <1>7, WriteTyped

\* and so does saving it with its services,
LEMMA ApplyRuleTyped ==
  ASSUME NEW c, IsConf(c), NEW cfg, IsConf(cfg), NEW live, NEW svc, NEW u, IsEntry(live, u)
  PROVE  IsConf(ApplyRule(c, cfg, live, svc, u))
<1>1. IsConf(DiffRule(c, cfg, live, u))
  BY DiffRuleTyped
<1>2. \A d, ssl, gone, n, action, of : IsConf(d) => IsConf(SslCommands(d, ssl, gone, n, action, of))
  BY ConfTyped DEF SslCommands
<1>3. \A d, geo, gone, n, scopes, action, of : IsConf(d) => IsConf(GeoCommands(d, geo, gone, n, scopes, action, of))
  BY GeoTyped
<1> QED BY <1>1, <1>2, <1>3 DEF ApplyRule

\* and deleting it with its cascade.
LEMMA DeleteRuleTyped ==
  ASSUME NEW c, IsConf(c), NEW cfg, NEW r, NEW geoRead
  PROVE  IsConf(DeleteRule(c, cfg, r, geoRead))
<1> DEFINE c1 == DropCopies(c, cfg, r.scopes, r.n)
           c2 == [c1 EXCEPT !.group = @ \ (r.body.group \cap cfg.group)]
<1>1. IsConf(c1)
  BY DropCopiesTyped
<1>2. IsFiniteSet(c1.group \ (r.body.group \cap cfg.group))
  BY <1>1, FS_Difference DEF IsConf
<1> HIDE DEF c1
<1>3. IsConf(c2)
  BY <1>1, <1>2, ConfTyped
<1> HIDE DEF c2
<1>4. IsConf([c2 EXCEPT !.geo = Without(@, {i \in DOMAIN @ : @[i].n = r.n /\ @[i].scope \in r.scopes})])
  <2>1. \A D : IsGeo(Without(c2.geo, D))
    BY <1>3 DEF IsConf, IsGeo, Without
  <2> QED BY <1>3, <2>1, ConfTyped
<1>5. DeleteRule(c, cfg, r, geoRead) = IF geoRead THEN [c2 EXCEPT !.geo = Without(@, {i \in DOMAIN @ : @[i].n = r.n /\ @[i].scope \in r.scopes})] ELSE c2
  BY DEF DeleteRule, c1, c2
<1> QED BY <1>3, <1>4, <1>5, Zenon

\* The store of App Control after a rule is saved.
LEMMA AcAfterTyped ==
  ASSUME NEW cfg, IsConf(cfg), NEW live, NEW u, IsEntry(live, u), NEW v, DOMAIN v.ac \subseteq Nat
  PROVE  DOMAIN AcAfter(cfg, live, v, u) \subseteq Nat
<1>1. \A chains : ServicesNumber(cfg, live, u, chains) \in Nat
  BY LandsTyped
<1>2. \A gone, n, action, of, match : n \in Nat => DOMAIN NextAc(v.ac, gone, n, action, of, match) \subseteq Nat
  BY DEF NextAc, Over, Without
<1> QED BY <1>1, <1>2 DEF AcAfter

\* A rule built again on what is left at its place is a rule.
LEMMA MergeTyped ==
  ASSUME NEW b, IsBody(b), NEW d, IsBody(d)
  PROVE  IsBody(Merge(b, d))
<1> DEFINE m == Merge(b, d)
           F == DOMAIN BlankBody
<1>1. DOMAIN b = F
  BY DEF IsBody
<1>2. m = [f \in F |-> m[f]]
  BY <1>1 DEF Merge
<1>3. \A f \in F : m[f] = b[f] \/ m[f] = d[f]
  BY <1>1 DEF Merge
<1>4. \A f \in {"ips", "log", "policy", "raw"} : f \in F /\ b[f] \in BOOLEAN /\ d[f] \in BOOLEAN
  BY DEF IsBody, BlankBody
<1>5. \A f \in {"ips", "log", "policy", "raw"} : m[f] \in BOOLEAN
  BY <1>3, <1>4
<1> QED BY <1>2, <1>5 DEF IsBody

\* An arrangement puts every row at one position.
LEMMA ArrangementTyped ==
  ASSUME NEW c, IsConf(c), NEW o \in Arrangements(Rows(c))
  PROVE  /\ DOMAIN o \subseteq Nat \ {0} /\ \A i \in DOMAIN o : i >= 10
         /\ \A i \in DOMAIN o : o[i] \in Rows(c)
         /\ \A i, j \in DOMAIN o : o[i] = o[j] => i = j
         /\ \A r \in Rows(c) : \E i \in DOMAIN o : o[i] = r
<1> DEFINE N == Cardinality(Rows(c))
           P == {10 * i : i \in 1..N}
           ten == [i \in 1..N |-> 10 * i]
<1>1. N \in Nat /\ IsFiniteSet(Rows(c))
  BY RowsFinite
<1>2. /\ o \in [P -> Rows(c)] /\ DOMAIN o = P
      /\ \A i, j \in DOMAIN o : o[i] = o[j] => i = j
  BY DEF Arrangements
<1> HIDE DEF N
<1>3. \A i \in P : i \in Nat \ {0} /\ i >= 10
  BY <1>1
<1>4. IsFiniteSet(P) /\ Cardinality(P) = N
  <2>1. IsFiniteSet(1..N) /\ Cardinality(1..N) = N
    BY <1>1, FS_Interval
  <2>2. ten \in Bijection(1..N, P)
    <3>1. ten \in [1..N -> P] /\ \A x \in P : \E i \in 1..N : ten[i] = x
      OBVIOUS
    <3>2. \A i, j \in 1..N : ten[i] = ten[j] => i = j
      BY <1>1
    <3> HIDE DEF ten, P
    <3> QED BY <3>1, <3>2 DEF Bijection, Injection, Surjection, IsInjective
  <2> HIDE DEF ten, P
  <2>3. IsFiniteSet(P) /\ Cardinality(P) = Cardinality(1..N)
    BY <2>1, <2>2, FS_Bijection DEF ExistsBijection
  <2> QED BY <2>1, <2>3
<1> HIDE DEF P
<1>5. o \in Injection(P, Rows(c))
  BY <1>2 DEF Injection, IsInjective
<1>6. o \in Surjection(P, Rows(c))
  BY <1>1, <1>4, <1>5, FS_Injection DEF N
<1> QED BY <1>2, <1>3, <1>6 DEF Surjection

\* Where the rows that move are built again.
LEMMA PlacesTyped ==
  ASSUME NEW c, IsConf(c), NEW o \in Arrangements(Rows(c))
  PROVE  /\ NewPlaces(o) \subseteq Scopes \X (Nat \ {0}) /\ IsFiniteSet(NewPlaces(o))
         /\ \A k \in NewPlaces(o) : /\ k = <<k[1], k[2]>> /\ k[2] \in Moved(o) /\ k[1] \in o[k[2]].scopes
                                   /\ <<k[1], o[k[2]].n>> \in DOMAIN c.rule
<1>1. \A i \in Moved(o) : /\ o[i] \in Rows(c) /\ i \in Nat \ {0} /\ o[i].scopes \subseteq Scopes
                        /\ \A s \in o[i].scopes : <<s, o[i].n>> \in DOMAIN c.rule
  BY ArrangementTyped, RowTyped DEF Moved
<1>2. \A k : k \in NewPlaces(o) <=> \E i \in Moved(o) : \E s \in o[i].scopes : k = <<s, i>>
  BY DEF NewPlaces
<1>3. \A q : q \in OldPlaces(o) <=> \E i \in Moved(o) : \E s \in o[i].scopes : q = <<s, o[i].n>>
  BY DEF OldPlaces
<1>4. ASSUME NEW k \in NewPlaces(o)
      PROVE  /\ k = <<k[1], k[2]>> /\ k[2] \in Moved(o) /\ k[1] \in o[k[2]].scopes
             /\ <<k[1], o[k[2]].n>> \in OldPlaces(o) /\ <<k[1], o[k[2]].n>> \in DOMAIN c.rule
  BY <1>1, <1>2, <1>3
<1>5. IsFiniteSet(OldPlaces(o))
  <2>1. OldPlaces(o) \subseteq DOMAIN c.rule
    BY <1>1, <1>3
  <2> QED BY <2>1, FS_Subset DEF IsConf, IsRules
<1> DEFINE To(q) == CHOOSE i \in Moved(o) : o[i].n = q[2] /\ q[1] \in o[i].scopes
           f == [q \in OldPlaces(o) |-> <<q[1], To(q)>>]
<1>6. ASSUME NEW q \in OldPlaces(o) PROVE To(q) \in Moved(o) /\ o[To(q)].n = q[2] /\ q[1] \in o[To(q)].scopes
  <2>1. \E i \in Moved(o) : o[i].n = q[2] /\ q[1] \in o[i].scopes
    BY <1>3
  <2> QED BY <2>1
<1>7. ASSUME NEW q \in OldPlaces(o) PROVE f[q] \in NewPlaces(o)
  BY <1>2, <1>6
<1>8. ASSUME NEW k \in NewPlaces(o) PROVE \E q \in OldPlaces(o) : f[q] = k
  <2> DEFINE q == <<k[1], o[k[2]].n>>
  <2>1. q \in OldPlaces(o) /\ q[1] = k[1] /\ q[2] = o[k[2]].n
    BY <1>4
  <2> HIDE DEF q
  <2>2. To(q) \in Moved(o) /\ o[To(q)].n = o[k[2]].n /\ k[1] \in o[To(q)].scopes
    BY <1>6, <2>1
  <2> HIDE DEF To
  <2>3. o[To(q)] = o[k[2]]
    BY <1>1, <1>4, <2>2, RowsApart
  <2>4. To(q) = k[2]
    <3>1. Moved(o) \subseteq DOMAIN o /\ \A i, j \in DOMAIN o : o[i] = o[j] => i = j
      BY ArrangementTyped DEF Moved
    <3> QED BY <1>4, <2>2, <2>3, <3>1
  <2> QED BY <1>4, <2>1, <2>4
<1>9. f \in Surjection(OldPlaces(o), NewPlaces(o))
  BY <1>7, <1>8 DEF Surjection
<1>10. IsFiniteSet(NewPlaces(o))
  BY <1>5, <1>9, FS_Surjection
<1>11. NewPlaces(o) \subseteq Scopes \X (Nat \ {0})
  BY <1>1, <1>2
<1> QED BY <1>4, <1>10, <1>11

\* A reorder yields a configuration.
LEMMA ReorderedTyped ==
  ASSUME NEW c, IsConf(c), NEW cfg, IsConf(cfg), NEW o \in Arrangements(Rows(cfg)), NEW geoRead
  PROVE  IsConf(Reordered(c, cfg, o, geoRead))
<1> DEFINE left == Without(c.rule, OldPlaces(o))
           built == [k \in NewPlaces(o) |-> Merge(cfg.rule[<<k[1], o[k[2]].n>>], RuleAt(left, k))]
<1>1. IsRules(left)
  BY WithoutTyped DEF IsConf
<1> HIDE DEF left
<1>2. \A k \in NewPlaces(o) : IsBody(cfg.rule[<<k[1], o[k[2]].n>>]) /\ IsBody(RuleAt(left, k))
  BY <1>1, PlacesTyped, RuleAtTyped DEF IsConf, IsRules
<1>3. IsRules(built)
  BY <1>2, MergeTyped, PlacesTyped DEF IsRules
<1> HIDE DEF built
<1>4. IsRules(Over(built, left))
  BY <1>1, <1>3, OverTyped
<1> DEFINE target(g) == {i \in Moved(o) : g.n = o[i].n /\ g.scope \in o[i].scopes}
           moved == [j \in DOMAIN c.geo |-> IF target(c.geo[j]) = {} THEN c.geo[j] ELSE [c.geo[j] EXCEPT !.n = Max(target(c.geo[j]))]]
<1>5. Reordered(c, cfg, o, geoRead) = [c EXCEPT !.rule = Over(built, left), !.geo = IF geoRead THEN moved ELSE c.geo]
  BY Zenon DEF Reordered, built, left
<1>6. IsGeo(IF geoRead THEN moved ELSE c.geo)
  BY DEF IsConf, IsGeo
<1> HIDE DEF IsRules, IsGeo, moved
<1> QED BY <1>4, <1>5, <1>6 DEF IsConf, ConfFields
-----------------------------------------------------------------------------
(* Type correctness.                                                       *)

\* Every start has its types.
LEMMA TypeInit == ASSUME Init PROVE TypeOK
<1>1. IsConf(conf) /\ page = conf /\ DOMAIN ac \subseteq Nat
  BY StartAssumption DEF Init
<1>2. Cardinality(pending) <= 1
  BY FS_EmptySet DEF Init
<1>3. IsForm(form) /\ IsOp(op) /\ pending = {} /\ commits \in 0..MaxCommits /\ missed \in BOOLEAN
  <2>1. form = Closed /\ op = Idle /\ pending = {} /\ missed = FALSE /\ commits = 0
    BY DEF Init
  <2>2. IsForm(form) /\ IsOp(op)
    BY <2>1 DEF IsForm, IsOp
  <2>3. commits \in 0..MaxCommits
    BY <2>1, BoundsAssumption
  <2> QED BY <2>1, <2>2, <2>3
<1> QED BY <1>1, <1>2, <1>3 DEF TypeOK

\* A commit of a configuration keeps the types of what it sets.
LEMMA CommitTyped ==
  ASSUME TypeOK, NEW c, IsConf(c), CommitTo(c)
  PROVE  /\ \A d \in {conf', page} \cup pending' : IsConf(d)
         /\ Cardinality(pending') <= 1 /\ commits' \in 0..MaxCommits
<1>1. Cardinality(pending') <= 1
  BY FS_Singleton DEF CommitTo
<1>2. commits' \in 0..MaxCommits
  BY BoundsAssumption DEF TypeOK, CommitTo
<1>3. \A d \in {conf', page} \cup pending' : IsConf(d)
  BY DEF TypeOK, CommitTo
<1> QED BY <1>1, <1>2, <1>3

\* Entries differ from the form's values in what the user may change.
LEMMA EntriesTyped ==
  ASSUME form # Closed, IsForm(form), NEW u \in Entries(form.u)
  PROVE  /\ u.n = form.u.n
         /\ {u.ips, u.log, u.policy, u.many} \subseteq BOOLEAN
         /\ DOMAIN u = {"n", "name", "sel", "action", "ips", "log", "policy", "many", "geo", "ssl", "ac"}
         /\ \A v \in form.svc : ("geo" \in v.unread => u.geo = None) /\ ("ac" \in v.unread => u.ac = None)
<1> DEFINE F == {"n", "name", "sel", "action", "ips", "log", "policy", "many", "geo", "ssl", "ac"}
           w == form.u
<1>1. DOMAIN w = F /\ {w.ips, w.log, w.policy, w.many} \subseteq BOOLEAN
  BY DEF IsForm
<1>2. \/ u = w \/ (\E s : u = [w EXCEPT !.sel = s]) \/ (\E a : u = [w EXCEPT !.action = a])
      \/ u = [w EXCEPT !.ips = ~@] \/ u = [w EXCEPT !.log = ~@]
      \/ u = [w EXCEPT !.policy = ~@] \/ u = [w EXCEPT !.many = ~@]
      \/ (\E a : u = [w EXCEPT !.ssl = a])
      \/ (\E a : u = [w EXCEPT !.geo = a] /\ (a = None \/ \E v \in form.svc : "geo" \notin v.unread))
      \/ (\E a : u = [w EXCEPT !.ac = a] /\ (a = None \/ \E v \in form.svc : "ac" \notin v.unread))
  <2> DEFINE Plain == {w} \cup {[w EXCEPT !.sel = s] : s \in Sides}
                        \cup {[w EXCEPT !.action = a] : a \in {"accept", "drop"}}
                        \cup {[w EXCEPT !.ips = ~@], [w EXCEPT !.log = ~@], [w EXCEPT !.policy = ~@], [w EXCEPT !.many = ~@]}
             geos(v) == {[w EXCEPT !.geo = a] : a \in {None} \cup (IF "geo" \in v.unread THEN {} ELSE {"x"})}
             ssls(v) == {[w EXCEPT !.ssl = a] : a \in {None, "inspect"}}
             acs(v) == {[w EXCEPT !.ac = a] : a \in {None} \cup (IF "ac" \in v.unread THEN {} ELSE AcActions)}
  <2>1. u \in Plain \cup (UNION {geos(v) : v \in form.svc}) \cup (UNION {ssls(v) : v \in form.svc}) \cup (UNION {acs(v) : v \in form.svc})
    BY Zenon DEF Entries
  <2>2. u \in Plain => \/ u = w \/ (\E s : u = [w EXCEPT !.sel = s]) \/ (\E a : u = [w EXCEPT !.action = a])
                       \/ u = [w EXCEPT !.ips = ~@] \/ u = [w EXCEPT !.log = ~@]
                       \/ u = [w EXCEPT !.policy = ~@] \/ u = [w EXCEPT !.many = ~@]
    OBVIOUS
  <2>3. ASSUME NEW v \in form.svc, u \in geos(v)
        PROVE  \E a : u = [w EXCEPT !.geo = a] /\ (a = None \/ \E x \in form.svc : "geo" \notin x.unread)
    BY <2>3
  <2>4. ASSUME NEW v \in form.svc, u \in ssls(v) PROVE \E a : u = [w EXCEPT !.ssl = a]
    BY <2>4
  <2>5. ASSUME NEW v \in form.svc, u \in acs(v)
        PROVE  \E a : u = [w EXCEPT !.ac = a] /\ (a = None \/ \E x \in form.svc : "ac" \notin x.unread)
    BY <2>5
  <2>6. u \in Plain \/ (\E v \in form.svc : u \in geos(v)) \/ (\E v \in form.svc : u \in ssls(v)) \/ (\E v \in form.svc : u \in acs(v))
    <3> HIDE DEF Plain, geos, ssls, acs
    <3> QED BY <2>1
  <2> HIDE DEF Plain, geos, ssls, acs, w
  <2> QED BY <2>2, <2>3, <2>4, <2>5, <2>6
<1>4. \A v \in form.svc : /\ \A x \in form.svc : v = x
                         /\ ("geo" \in v.unread => w.geo = None) /\ ("ac" \in v.unread => w.ac = None)
  BY DEF IsForm
<1> HIDE DEF w
<1>3. u.n = w.n /\ {u.ips, u.log, u.policy, u.many} \subseteq BOOLEAN /\ DOMAIN u = F
  BY <1>1, <1>2
<1>5. ASSUME NEW v \in form.svc, "geo" \in v.unread PROVE u.geo = None
  <2>1. w.geo = None /\ \A x \in form.svc : "geo" \in x.unread
    BY <1>4, <1>5
  <2> QED BY <1>1, <1>2, <2>1
<1>6. ASSUME NEW v \in form.svc, "ac" \in v.unread PROVE u.ac = None
  <2>1. w.ac = None /\ \A x \in form.svc : "ac" \in x.unread
    BY <1>4, <1>6
  <2> QED BY <1>1, <1>2, <2>1
<1> QED BY <1>3, <1>5, <1>6 DEF w

\* What Submit sends.
LEMMA SubmissionTyped ==
  ASSUME TypeOK, form # Closed, NEW e \in Entries(form.u)
  PROVE  IsEntry(form.live, Numbered(e))
<1>1. /\ e.n = form.u.n /\ {e.ips, e.log, e.policy, e.many} \subseteq BOOLEAN
      /\ DOMAIN e = {"n", "name", "sel", "action", "ips", "log", "policy", "many", "geo", "ssl", "ac"}
  BY EntriesTyped DEF TypeOK
<1>2. \A l \in form.live : IsRow(l) /\ form.u.n = l.n /\ \A m \in form.live : l = m
  BY DEF TypeOK, IsForm
<1>3. CASE form.live = {}
  <2>1. NextRuleNumber(Rows(page)) \in Nat \ {0}
    BY FreshNumber DEF TypeOK
  <2> QED BY <1>1, <1>3, <2>1 DEF IsEntry, Numbered
<1>4. CASE form.live # {}
  <2>1. form.u.n \in Nat \ {0}
    BY <1>2, <1>4 DEF IsRow
  <2> QED BY <1>1, <1>2, <1>4, <2>1 DEF IsEntry, Numbered
<1> QED BY <1>3, <1>4

\* What a form is opened with: nothing is picked of a service it has not read.
LEMMA SeedIs ==
  ASSUME IsConf(conf), DOMAIN ac \subseteq Nat, NEW r, NEW svc \in {{}} \cup {{v} : v \in Readings}
  PROVE  \A v \in svc : /\ DOMAIN v.ac \subseteq Nat /\ \A w \in svc : v = w
                        /\ ("geo" \in v.unread => Seed(r, svc).geo = None) /\ ("ac" \in v.unread => Seed(r, svc).ac = None)
<1> SUFFICES ASSUME NEW v \in svc
             PROVE  /\ DOMAIN v.ac \subseteq Nat /\ \A w \in svc : v = w
                    /\ ("geo" \in v.unread => Seed(r, svc).geo = None) /\ ("ac" \in v.unread => Seed(r, svc).ac = None)
  OBVIOUS
<1>1. svc = {v} /\ v \in Readings
  OBVIOUS
<1>2. PICK unread : v = Read(unread)
  BY <1>1 DEF Readings
<1>3. v.unread = unread /\ DOMAIN v.ac \subseteq Nat
  BY <1>2 DEF Read, Nothing
<1>4. ASSUME "geo" \in v.unread PROVE Seed(r, svc).geo = None
  <2> DEFINE G == {x.geo[i].action : x \in svc, i \in UNION {{i \in DOMAIN x.geo : x.geo[i].n = r.n /\ x.geo[i].scope \in r.scopes} : x \in svc}}
  <2>1. DOMAIN v.geo = {}
    BY <1>2, <1>3, <1>4 DEF Read, Nothing
  <2>2. G = {}
    BY <1>1, <2>1
  <2>3. Seed(r, svc).geo = IF G = {} THEN None ELSE CHOOSE x \in G : TRUE
    BY DEF Seed
  <2> HIDE DEF G
  <2> QED BY <2>2, <2>3
<1>5. ASSUME "ac" \in v.unread PROVE Seed(r, svc).ac = None
  <2> DEFINE A == UNION {{x.ac[n].action : n \in {n \in DOMAIN x.ac : n = r.n}} : x \in svc}
  <2>1. DOMAIN v.ac = {}
    BY <1>2, <1>3, <1>5 DEF Read, Nothing
  <2>2. A = {}
    BY <1>1, <2>1
  <2>3. Seed(r, svc).ac = IF A = {} THEN None ELSE CHOOSE x \in A : TRUE
    BY DEF Seed
  <2> HIDE DEF A
  <2> QED BY <2>2, <2>3
<1> QED BY <1>1, <1>3, <1>4, <1>5

\* Every step keeps them: one step of the proof for each action.
LEMMA TypeNext == ASSUME TypeOK, [Next]_vars PROVE TypeOK'
<1> USE DEF TypeOK
<1>0. IsConf(conf) /\ IsConf(page)
  OBVIOUS
<1>1. CASE UNCHANGED vars
  BY <1>1 DEF vars
<1>2. CASE Confirm
  BY <1>2, FS_EmptySet DEF Confirm
<1>3. CASE Revert
  <2>1. IsOp(op')
    BY <1>3 DEF Revert, IsOp, Idle
  <2> QED BY <1>3, <2>1, FS_EmptySet DEF Revert
<1>4. CASE Load
  BY <1>4 DEF Load
<1>5. CASE Open
  <2>1. PICK r \in Rows(page), svc \in {{}} \cup {{v} : v \in Readings} :
          form' = [mode |-> "open", live |-> {r}, svc |-> svc, u |-> Seed(r, svc)]
    BY <1>5 DEF Open
  <2>2. IsRow(r)
    BY RowTyped
  <2>3. \A v \in svc : /\ DOMAIN v.ac \subseteq Nat /\ \A w \in svc : v = w
                     /\ ("geo" \in v.unread => Seed(r, svc).geo = None) /\ ("ac" \in v.unread => Seed(r, svc).ac = None)
    BY SeedIs
  <2>4. /\ Seed(r, svc).n = r.n
        /\ {Seed(r, svc).ips, Seed(r, svc).log, Seed(r, svc).policy, Seed(r, svc).many} \subseteq BOOLEAN
        /\ DOMAIN Seed(r, svc) = {"n", "name", "sel", "action", "ips", "log", "policy", "many", "geo", "ssl", "ac"}
    BY <2>2 DEF Seed, IsRow, IsBody
  <2>5. IsForm(form')
    BY <2>1, <2>2, <2>3, <2>4 DEF IsForm, IsRow
  <2> QED BY <1>5, <2>5 DEF Open
<1>6. CASE OpenNew
  <2> DEFINE u == [Seed([n |-> 0, scopes |-> {"forward"}, body |-> BlankBody], {})
                     EXCEPT !.name = "new", !.action = "accept", !.log = TRUE]
  <2>1. PICK svc \in {{}} \cup {{v} : v \in Readings} :
          form' = [mode |-> "open", live |-> {}, svc |-> svc, u |-> u]
    BY <1>6 DEF OpenNew
  <2>2. /\ u.n = 0 /\ {u.ips, u.log, u.policy, u.many} \subseteq BOOLEAN /\ u.geo = None /\ u.ac = None
        /\ DOMAIN u = {"n", "name", "sel", "action", "ips", "log", "policy", "many", "geo", "ssl", "ac"}
    <3>1. u.n = 0 /\ u.ips = FALSE /\ u.log = TRUE /\ u.policy = FALSE
      BY DEF Seed, BlankBody
    <3>2. u.many \in BOOLEAN
      BY DEF Seed
    <3>3. DOMAIN u = {"n", "name", "sel", "action", "ips", "log", "policy", "many", "geo", "ssl", "ac"}
      BY DEF Seed
    <3>4. u.geo = None /\ u.ac = None
      BY DEF Seed
    <3> HIDE DEF u
    <3> QED BY <3>1, <3>2, <3>3, <3>4
  <2> HIDE DEF u
  <2>4. \A v \in svc : DOMAIN v.ac \subseteq Nat /\ \A w \in svc : v = w
    BY SeedIs
  <2>3. IsForm(form')
    BY <2>1, <2>2, <2>4 DEF IsForm
  <2> QED BY <1>6, <2>3 DEF OpenNew
<1>7. CASE Cancel
  BY <1>7 DEF Cancel, IsForm
<1>8. CASE Submit
  <2> DEFINE nexts(e) == {AcAfter(page, form.live, v, Numbered(e)) : v \in form.svc}
             writes(e) == {x \in nexts(e) : \A v \in form.svc : x # v.ac}
             c(e) == ApplyRule(conf, page, form.live, form.svc, Numbered(e))
  <2>1. form # Closed /\ UNCHANGED <<ac, page, missed>>
    BY <1>8 DEF Submit
  <2>2. PICK e \in Entries(form.u) :
          /\ CommitTo(c(e)) \/ (commits < MaxCommits /\ commits' = commits + 1 /\ UNCHANGED <<conf, pending>>)
          /\ op' = IF writes(e) = {} THEN Idle
                   ELSE [kind |-> "put", next |-> CHOOSE x \in writes(e) : TRUE,
                         sound |-> BindingsSound /\ FreshRule /\ ServicesRead /\ NumbersAgree(Numbered(e))]
          /\ form' = IF writes(e) = {} THEN Closed ELSE [form EXCEPT !.u = Numbered(e)]
    BY <1>8, Zenon DEF Submit, SubmitAs
  <2>3. IsEntry(form.live, Numbered(e))
    BY <2>1, SubmissionTyped
  <2>4. IsConf(c(e))
    BY <2>3, ApplyRuleTyped
  <2>5. \A x \in nexts(e) : DOMAIN x \subseteq Nat
    BY <2>1, <2>3, AcAfterTyped DEF IsForm
  <2>6. /\ DOMAIN Numbered(e) = {"n", "name", "sel", "action", "ips", "log", "policy", "many", "geo", "ssl", "ac"}
        /\ \A v \in form.svc : ("geo" \in v.unread => Numbered(e).geo = None) /\ ("ac" \in v.unread => Numbered(e).ac = None)
    BY <2>1, EntriesTyped DEF Numbered
  <2> HIDE DEF nexts, c
  <2>7. IsOp(op')
    BY <2>2, <2>5 DEF IsOp
  <2>8. IsForm(form')
    BY <2>1, <2>2, <2>3, <2>6 DEF IsForm, IsEntry
  <2>9. CASE CommitTo(c(e))
    BY <2>1, <2>4, <2>7, <2>8, <2>9, CommitTyped
  <2>10. CASE commits < MaxCommits /\ commits' = commits + 1 /\ UNCHANGED <<conf, pending>>
    BY <2>1, <2>7, <2>8, <2>10, BoundsAssumption
  <2> QED BY <2>2, <2>9, <2>10
<1>9. CASE AcPut
  BY <1>9 DEF AcPut, IsOp, IsForm, Idle
<1>10. CASE AcPutFails
  BY <1>10 DEF AcPutFails, IsOp
<1>11. CASE Delete
  <2>1. form = Closed /\ UNCHANGED <<ac, page, form>>
    BY <1>11 DEF Delete
  <2>2. PICK r \in Rows(page), geoRead \in BOOLEAN :
          /\ CommitTo(DeleteRule(conf, page, r, geoRead))
          /\ op' = IF r.scopes \cap {"input", "output"} # {} THEN Idle
                   ELSE [kind |-> "cascade", move |-> [n \in {r.n} |-> 0], sound |-> BindingsSound]
          /\ missed' = (missed \/ ~geoRead)
    BY <1>11 DEF Delete
  <2>3. IsConf(DeleteRule(conf, page, r, geoRead))
    BY DeleteRuleTyped
  <2>4. IsOp(op')
    BY <2>2 DEF IsOp
  <2> QED BY <2>1, <2>2, <2>3, <2>4, CommitTyped
<1>12. CASE Reorder
  <2>1. form = Closed /\ UNCHANGED <<ac, page, form>>
    BY <1>12 DEF Reorder
  <2>2. PICK o \in Arrangements(Rows(page)), geoRead \in BOOLEAN :
          /\ CommitTo(Reordered(conf, page, o, geoRead))
          /\ op' = [kind |-> "cascade", move |-> [n \in {o[i].n : i \in DOMAIN o} |-> CHOOSE i \in DOMAIN o : o[i].n = n],
                    sound |-> BindingsSound]
          /\ missed' = (missed \/ ~geoRead)
    BY <1>12 DEF Reorder
  <2>3. IsConf(Reordered(conf, page, o, geoRead))
    BY ReorderedTyped
  <2>4. DOMAIN o \subseteq Nat
    BY ArrangementTyped
  <2>5. IsOp(op')
    BY <2>2, <2>4 DEF IsOp
  <2> QED BY <2>1, <2>2, <2>3, <2>5, CommitTyped
<1>13. CASE AcCascade
  <2>1. op.kind = "cascade" /\ op' = Idle /\ UNCHANGED <<conf, page, form, pending, missed, commits>>
    BY <1>13 DEF AcCascade
  <2>2. \A n \in DOMAIN op.move : op.move[n] \in Nat
    BY <2>1 DEF IsOp, Idle
  <2>3. DOMAIN ac' \subseteq Nat
    BY <1>13, <2>2 DEF AcCascade
  <2> QED BY <2>1, <2>3 DEF IsOp
<1>14. CASE ToggleIps
  <2>1. form = Closed /\ UNCHANGED <<ac, page, form, op, missed>>
    BY <1>14 DEF ToggleIps
  <2> DEFINE c(r) == Write(conf, r.n, [s \in r.scopes |-> [ips |-> ~r.body.ips, action |-> "accept"]])
  <2>2. PICK r \in Rows(page) : CommitTo(IF r.body.ips THEN c(r) ELSE EnsureIpsFlow(c(r), page))
    BY <1>14 DEF ToggleIps
  <2>3. IsPatch([ips |-> ~r.body.ips, action |-> "accept"])
    BY IpsPatchTyped
  <2>4. IsConf(c(r))
    <3>1. r.n \in Nat \ {0} /\ r.scopes \subseteq Scopes
      BY RowTyped DEF IsRow
    <3> QED BY <2>3, <3>1, WriteTyped
  <2> HIDE DEF c
  <2>5. IsConf(EnsureIpsFlow(c(r), page))
    BY <2>4, EnsureTyped
  <2> QED BY <2>1, <2>2, <2>4, <2>5, CommitTyped
<1>15. CASE SetDefaultAction
  <2>1. form = Closed /\ UNCHANGED <<ac, page, form, op, missed>>
    BY <1>15 DEF SetDefaultAction
  <2>2. PICK drop \in BOOLEAN : CommitTo([IF drop THEN EnsureForward(conf, page) ELSE conf EXCEPT !.drop = drop])
    BY <1>15 DEF SetDefaultAction
  <2>3. IsConf([IF drop THEN EnsureForward(conf, page) ELSE conf EXCEPT !.drop = drop])
    BY EnsureTyped, ConfTyped
  <2> QED BY <2>1, <2>2, <2>3, CommitTyped
<1>16. CASE EnableTrafficLogging
  <2> DEFINE c == EnsureChain(EnsureChain(EnsureForward(conf, page), page, "input"), page, "output")
             quiet == {<<Rep(r.scopes), r.n>> : r \in {r \in Rows(page) : ~r.body.log}}
             R == [k \in quiet |-> [RuleAt(c.rule, k) EXCEPT !.log = TRUE]]
  <2>1. form = Closed /\ UNCHANGED <<ac, page, form, op, missed>> /\ CommitTo([c EXCEPT !.rule = Over(R, @)])
    BY <1>16 DEF EnableTrafficLogging
  <2>2. IsConf(c)
    BY EnsureTyped DEF Base
  <2> HIDE DEF c
  <2>3. quiet \subseteq DOMAIN page.rule
    BY RowTyped
  <2>4. \A k \in quiet : IsBody([RuleAt(c.rule, k) EXCEPT !.log = TRUE])
    <3>1. \A k : IsBody(RuleAt(c.rule, k))
      BY <2>2, RuleAtTyped DEF IsConf
    <3> QED BY <3>1 DEF IsBody, BlankBody
  <2> HIDE DEF quiet
  <2>5. IsRules(R)
    BY <2>3, <2>4, FS_Subset DEF IsRules, IsConf
  <2> HIDE DEF R
  <2>6. IsConf([c EXCEPT !.rule = Over(R, @)])
    <3>1. IsRules(Over(R, c.rule))
      BY <2>2, <2>5, OverTyped DEF IsConf
    <3> QED BY <2>2, <3>1, ConfTyped
  <2> QED BY <2>1, <2>6, CommitTyped
<1>17. CASE ChangePolicyProtocol
  <2> DEFINE users == {<<Rep(r.scopes), r.n>> : r \in {r \in Rows(page) : r.body.policy}}
             R(p) == [k \in users |-> [RuleAt(conf.rule, k) EXCEPT !.protocol = p]]
  <2>1. form = Closed /\ UNCHANGED <<ac, page, form, op, missed>>
    BY <1>17 DEF ChangePolicyProtocol
  <2>2. PICK p \in {"tcp", "udp"} : CommitTo([conf EXCEPT !.protocol = p, !.rule = Over(R(p), @)])
    BY <1>17 DEF ChangePolicyProtocol
  <2>3. users \subseteq DOMAIN page.rule
    BY RowTyped
  <2>4. \A k \in users : IsBody([RuleAt(conf.rule, k) EXCEPT !.protocol = p])
    <3>1. \A k : IsBody(RuleAt(conf.rule, k))
      BY RuleAtTyped DEF IsConf
    <3> QED BY <3>1 DEF IsBody, BlankBody
  <2> HIDE DEF users
  <2>5. IsRules(R(p))
    BY <2>3, <2>4, FS_Subset DEF IsRules, IsConf
  <2> HIDE DEF R
  <2>6. IsRules(Over(R(p), conf.rule))
    BY <2>5, OverTyped DEF IsConf
  <2>7. IsConf([conf EXCEPT !.protocol = p, !.rule = Over(R(p), @)])
    <3> HIDE DEF IsRules, TypeOK
    <3> QED BY <1>0, <2>6 DEF IsConf, ConfFields
  <2> QED BY <2>1, <2>2, <2>7, CommitTyped
<1>18. CASE AddZone
  <2>1. form = Closed /\ UNCHANGED <<ac, page, form, op, missed>>
    BY <1>18 DEF AddZone
  <2>2. PICK z \in NetZones \cup {Local} : CommitTo(EnsureState([conf EXCEPT !.zones = @ \cup {z}], page))
    BY <1>18 DEF AddZone
  <2>3. IsConf(EnsureState([conf EXCEPT !.zones = @ \cup {z}], page))
    <3>1. conf.zones \cup {z} \subseteq NetZones \cup {Local}
      BY DEF IsConf
    <3> QED BY <3>1, ConfTyped, EnsureTyped
  <2> QED BY <2>1, <2>2, <2>3, CommitTyped
<1>19. CASE DeleteZone
  <2>1. form = Closed /\ UNCHANGED <<ac, page, form, op, missed>>
    BY <1>19 DEF DeleteZone
  <2> DEFINE t(z) == TearDown(conf, ZonePairs(page, z))
             d(z) == [t(z) EXCEPT !.zones = @ \ {z}, !.bound = {p \in @ : Pairs[p].dst # z}]
  <2>2. PICK z \in page.zones : CommitTo(d(z))
    <3> HIDE DEF TypeOK
    <3> QED BY <1>19, Zenon DEF DeleteZone
  <2>3. IsConf(t(z))
    BY TearDownTyped
  <2> HIDE DEF t
  <2>4. IsConf(d(z))
    <3> HIDE DEF IsRules, TypeOK
    <3> QED BY <2>3 DEF IsConf, ConfFields
  <2> HIDE DEF d
  <2> QED BY <2>1, <2>2, <2>4, CommitTyped
<1>20. CASE RenameZone
  <2> DEFINE c(z, to) == [conf EXCEPT !.zones = (@ \ {z}) \cup {to}, !.bound = {p \in @ : Pairs[p].dst # z}]
  <2>1. form = Closed /\ UNCHANGED <<ac, page, form, op, missed>>
    BY <1>20 DEF RenameZone
  <2>2. PICK z \in page.zones, to \in NetZones : CommitTo(EnsureState(c(z, to), page))
    <3> HIDE DEF TypeOK
    <3> QED BY <1>20, Zenon DEF RenameZone
  <2>3. IsConf(c(z, to))
    <3> HIDE DEF IsRules, TypeOK
    <3> QED BY <1>0 DEF IsConf, ConfFields
  <2> HIDE DEF c
  <2>4. IsConf(EnsureState(c(z, to), page))
    BY <2>3, EnsureTyped
  <2> QED BY <2>1, <2>2, <2>4, CommitTyped
<1>21. CASE OtherDeletes
  <2>1. commits < MaxCommits /\ commits' = commits + 1 /\ UNCHANGED <<page, form, op, pending, missed>>
    BY <1>21 DEF OtherDeletes
  <2>2. PICK r \in Rows(conf) : conf' = DeleteRule(conf, conf, r, TRUE) /\ ac' = Without(ac, {r.n})
    BY <1>21 DEF OtherDeletes
  <2>3. IsConf(conf') /\ DOMAIN ac' \subseteq Nat
    BY <2>2, DeleteRuleTyped DEF Without
  <2> QED BY <2>1, <2>3, BoundsAssumption
<1> QED BY <1>1, <1>2, <1>3, <1>4, <1>5, <1>6, <1>7, <1>8, <1>9, <1>10, <1>11, <1>12, <1>13, <1>14, <1>15, <1>16,
           <1>17, <1>18, <1>19, <1>20, <1>21 DEF Next

\* Every variable keeps its shape.  (All pages of the console and the App
\* Control store.)
THEOREM TypeCorrect == Spec => []TypeOK
<1>1. Init => TypeOK
  BY TypeInit
<1>2. TypeOK /\ [Next]_vars => TypeOK'
  BY TypeNext
<1> QED BY <1>1, <1>2, PTL DEF Spec
-----------------------------------------------------------------------------
(* What the writing operators do, on a configuration that the page shows.  *)

\* Dropping copies: their keys go, and with them the pairs that held no other
\* rule.
LEMMA DropIs ==
  ASSUME NEW c, IsConf(c), NEW S, NEW n
  PROVE  LET d == DropCopies(c, c, S, n)
             E == EmptyPairs(c, S, n)
         IN  /\ d.bound = c.bound \ E
             /\ DOMAIN d.rule = {k \in DOMAIN c.rule : k \notin S \X {n} /\ k[1] \notin E}
             /\ \A k \in DOMAIN d.rule : d.rule[k] = c.rule[k]
             /\ \A f \in ConfFields \ {"rule", "bound"} : d[f] = c[f]
<1> DEFINE c1 == [c EXCEPT !.rule = Without(@, S \X {n})]
           E == EmptyPairs(c, S, n)
           d == TearDown(c1, E)
<1>1. DOMAIN c = ConfFields
  BY DEF IsConf
<1>2. c1.rule = Without(c.rule, S \X {n}) /\ c1.bound = c.bound /\ DOMAIN c1 = ConfFields
  BY <1>1 DEF ConfFields
<1>3. \A f \in ConfFields \ {"rule", "bound"} : c1[f] = c[f]
  BY <1>1 DEF ConfFields
<1> HIDE DEF c1, E
<1>4. /\ d.bound = c.bound \ E
      /\ d.rule = Without(c1.rule, {k \in DOMAIN c1.rule : k[1] \in E})
  BY <1>2 DEF TearDown, ConfFields
<1>5. \A f \in ConfFields \ {"rule", "bound"} : d[f] = c[f]
  BY <1>2, <1>3 DEF TearDown
<1>6. /\ DOMAIN d.rule = {k \in DOMAIN c.rule : k \notin S \X {n} /\ k[1] \notin E}
      /\ \A k \in DOMAIN d.rule : d.rule[k] = c.rule[k]
  BY <1>2, <1>4 DEF Without
<1> QED BY <1>4, <1>5, <1>6 DEF DropCopies, c1, E

\* A bound pair with a copy of some other number is not empty.
LEMMA EmptyPairsAre ==
  ASSUME NEW c, IsConf(c), NEW S, NEW n, NEW p \in c.bound
  PROVE  p \in EmptyPairs(c, S, n) <=> p \in S /\ \A k \in DOMAIN c.rule : k[1] = p => k[2] = n
<1>1. \A r \in Rows(c) : \A s \in r.scopes : <<s, r.n>> \in DOMAIN c.rule
  BY RowTyped
<1>2. \A k \in DOMAIN c.rule : k[1] = p => \E r \in Rows(c) : r.n = k[2] /\ p \in r.scopes
  BY RowOf
<1>3. p \in EmptyPairs(c, S, n) <=> p \in S /\ \A r \in Rows(c) : r.n # n => p \notin r.scopes
  BY DEF EmptyPairs
<1>4. ASSUME \A r \in Rows(c) : r.n # n => p \notin r.scopes, NEW k \in DOMAIN c.rule, k[1] = p PROVE k[2] = n
  BY <1>2, <1>4
<1>5. ASSUME \A k \in DOMAIN c.rule : k[1] = p => k[2] = n, NEW r \in Rows(c), p \in r.scopes PROVE r.n = n
  <2> DEFINE k == <<p, r.n>>
  <2>1. k \in DOMAIN c.rule /\ k[1] = p /\ k[2] = r.n
    BY <1>1, <1>5
  <2> QED BY <1>5, <2>1
<1> QED BY <1>3, <1>4, <1>5

\* Dropping a rule from some scopes tears down exactly the pairs it empties.
LEMMA DropEnforced ==
  ASSUME NEW c, IsConf(c), Enforced(c), NEW S, NEW n
  PROVE  Enforced(DropCopies(c, c, S, n))
<1> DEFINE d == DropCopies(c, c, S, n)
           E == EmptyPairs(c, S, n)
<1>1. /\ d.bound = c.bound \ E
      /\ DOMAIN d.rule = {k \in DOMAIN c.rule : k \notin S \X {n} /\ k[1] \notin E}
  BY DropIs
<1> HIDE DEF d, E
<1>2. \A k \in DOMAIN c.rule : k = <<k[1], k[2]>>
  BY DEF IsConf, IsRules
<1>3. \A p \in c.bound : p \in E <=> p \in S /\ \A k \in DOMAIN c.rule : k[1] = p => k[2] = n
  BY EmptyPairsAre DEF E
<1>4. ASSUME NEW p \in DOMAIN Pairs, p \in d.bound PROVE \E k \in DOMAIN d.rule : k[1] = p
  <2>1. PICK k \in DOMAIN c.rule : k[1] = p
    BY <1>1, <1>4 DEF Enforced
  <2>2. CASE p \in S
    <3>1. PICK q \in DOMAIN c.rule : q[1] = p /\ q[2] # n
      BY <1>1, <1>3, <1>4, <2>2
    <3>2. q \in DOMAIN d.rule
      BY <1>1, <1>4, <3>1
    <3> QED BY <3>1, <3>2
  <2>3. CASE p \notin S
    <3>1. k \in DOMAIN d.rule
      BY <1>1, <1>4, <2>1, <2>3
    <3> QED BY <2>1, <3>1
  <2> QED BY <2>2, <2>3
<1>5. ASSUME NEW p \in DOMAIN Pairs, NEW k \in DOMAIN d.rule, k[1] = p PROVE p \in d.bound
  BY <1>1, <1>5 DEF Enforced
<1> QED BY <1>4, <1>5 DEF Enforced, d

\* What a chain or rule relies on is seeded, and nothing else changes: where the
\* page shows no rule at 1 or 2, there is none to give way.
Seeds(c, d) ==
  /\ DOMAIN d = ConfFields
  /\ DOMAIN d.rule = DOMAIN c.rule /\ \A k \in DOMAIN c.rule : d.rule[k] = c.rule[k]
  /\ \A f \in {"bound", "zones", "group", "geo", "ssl", "protocol", "state", "drop"} : d[f] = c[f]
  /\ c.baseline \subseteq d.baseline /\ (c.flow => d.flow)
LEMMA SeedsAre ==
  ASSUME NEW c, DOMAIN c = ConfFields, IsRules(c.rule), NEW cfg, DOMAIN c.rule \subseteq DOMAIN cfg.rule
  PROVE  /\ Seeds(c, c)
         /\ Seeds(c, EnsureForward(c, cfg))
         /\ Seeds(c, EnsureIpsFlow(c, cfg))
         /\ cfg.flow = c.flow => EnsureIpsFlow(c, cfg).flow \/ Low(cfg, "forward")
         /\ \A chain \in Base : /\ Seeds(c, EnsureChain(c, cfg, chain)) /\ EnsureChain(c, cfg, chain).flow = c.flow
                                /\ cfg.baseline = c.baseline => chain \in EnsureChain(c, cfg, chain).baseline \/ Low(cfg, chain)
<1>1. ASSUME NEW chain, ~Low(cfg, chain)
      PROVE  /\ Seeds(c, SeedBaseline(c, chain)) /\ chain \in SeedBaseline(c, chain).baseline
             /\ SeedBaseline(c, chain).flow = c.flow
             /\ Seeds(c, [SeedBaseline(c, chain) EXCEPT !.flow = TRUE]) /\ [SeedBaseline(c, chain) EXCEPT !.flow = TRUE].flow
  <2> DEFINE R == Without(c.rule, {chain} \X {1, 2})
             d == [c EXCEPT !.baseline = @ \cup {chain}, !.rule = R]
  <2>1. \A k \in DOMAIN c.rule : k \notin {chain} \X {1, 2}
    BY <1>1 DEF Low
  <2>2. DOMAIN R = DOMAIN c.rule /\ \A k \in DOMAIN c.rule : R[k] = c.rule[k]
    BY <2>1 DEF Without
  <2>3. SeedBaseline(c, chain) = d
    BY DEF SeedBaseline
  <2> HIDE DEF R
  <2>4. /\ DOMAIN d = ConfFields /\ d.rule = R /\ d.baseline = c.baseline \cup {chain}
        /\ \A f \in ConfFields \ {"rule", "baseline"} : d[f] = c[f]
    BY DEF ConfFields
  <2> HIDE DEF d
  <2>5. /\ DOMAIN [d EXCEPT !.flow = TRUE] = ConfFields /\ [d EXCEPT !.flow = TRUE].flow
        /\ \A f \in ConfFields \ {"flow"} : [d EXCEPT !.flow = TRUE][f] = d[f]
    BY <2>4 DEF ConfFields
  <2>6. Seeds(c, d)
    BY <2>2, <2>4 DEF Seeds, ConfFields
  <2>7. Seeds(c, [d EXCEPT !.flow = TRUE])
    BY <2>2, <2>4, <2>5 DEF Seeds, ConfFields
  <2>8. d.flow = c.flow
    BY <2>4 DEF ConfFields
  <2> QED BY <2>3, <2>4, <2>5, <2>6, <2>7, <2>8
<1>2. Seeds(c, c)
  BY DEF Seeds
<1>3. Seeds(c, EnsureForward(c, cfg))
  BY <1>1, <1>2 DEF EnsureForward, HasBaseline
<1>4. Seeds(c, EnsureIpsFlow(c, cfg)) /\ (cfg.flow = c.flow => EnsureIpsFlow(c, cfg).flow \/ Low(cfg, "forward"))
  BY <1>1, <1>2 DEF EnsureIpsFlow
<1>5. ASSUME NEW chain \in Base
      PROVE  /\ Seeds(c, EnsureChain(c, cfg, chain)) /\ EnsureChain(c, cfg, chain).flow = c.flow
             /\ cfg.baseline = c.baseline => chain \in EnsureChain(c, cfg, chain).baseline \/ Low(cfg, chain)
  BY <1>1, <1>2 DEF EnsureChain, HasBaseline
<1> QED BY <1>2, <1>3, <1>4, <1>5

\* One seeding after another.
LEMMA SeedsFollow == ASSUME NEW c, NEW d, NEW e, Seeds(c, d), Seeds(d, e) PROVE Seeds(c, e)
BY DEF Seeds

LEMMA EnsureRuleIs ==
  ASSUME NEW c, IsConf(c), NEW cfg, DOMAIN c.rule \subseteq DOMAIN cfg.rule, NEW kept, NEW u, NEW chains,
         chains \subseteq DOMAIN Pairs \/ \E b \in Base : chains = {b}
  PROVE  LET e == EnsureRule(c, cfg, kept, u, chains)
         IN  /\ e.bound = IF IsZone(chains) THEN c.bound \cup (chains \ cfg.bound) ELSE c.bound
             /\ DOMAIN e.rule = DOMAIN c.rule /\ \A k \in DOMAIN c.rule : e.rule[k] = c.rule[k]
             /\ \A f \in {"zones", "group", "geo", "ssl", "protocol", "drop"} : e[f] = c[f]
             /\ c.baseline \subseteq e.baseline /\ (c.state => e.state) /\ (c.flow => e.flow)
             /\ cfg.state = c.state /\ cfg.baseline = c.baseline /\ cfg.flow = c.flow =>
                  /\ IsZone(chains) => e.state
                  /\ chains \subseteq Base => \A b \in chains \ {"forward"} : b \in e.baseline \/ Low(cfg, b)
                  /\ u.ips /\ u.action = "accept" /\ (\A l \in kept : ~l.body.ips) => e.flow \/ Low(cfg, "forward")
<1> DEFINE c1 == EnsureScopes(c, cfg, chains)
           ips == u.ips /\ u.action = "accept" /\ \A l \in kept : ~l.body.ips
           c2 == IF ips THEN EnsureIpsFlow(c1, cfg) ELSE c1
           e == IF u.log /\ chains = {"forward"} THEN EnsureForward(c2, cfg) ELSE c2
           Same == {"zones", "group", "geo", "ssl", "protocol", "drop"}
<1>0. EnsureRule(c, cfg, kept, u, chains) = e
  BY DEF EnsureRule
<1>1. DOMAIN c = ConfFields /\ IsRules(c.rule)
  BY DEF IsConf
<1>2. /\ DOMAIN c1 = ConfFields
      /\ DOMAIN c1.rule = DOMAIN c.rule /\ \A k \in DOMAIN c.rule : c1.rule[k] = c.rule[k]
      /\ c1.bound = IF IsZone(chains) THEN c.bound \cup (chains \ cfg.bound) ELSE c.bound
      /\ \A f \in Same : c1[f] = c[f]
      /\ c.baseline \subseteq c1.baseline /\ (c.state => c1.state) /\ c1.flow = c.flow
      /\ cfg.state = c.state /\ cfg.baseline = c.baseline =>
           /\ IsZone(chains) => c1.state
           /\ chains \subseteq Base => \A b \in chains \ {"forward"} : b \in c1.baseline \/ Low(cfg, b)
  <2>1. CASE IsZone(chains)
    <3>1. chains \subseteq Base => chains = {}
      BY <2>1 DEF IsZone
    <3> DEFINE c0 == EnsureState(c, cfg)
    <3>2. c1 = [c0 EXCEPT !.bound = @ \cup (chains \ cfg.bound)]
      <4>1. EnsureScopes(c, cfg, chains) = EnsurePairs(c0, cfg, chains)
        <5>1. chains # {"forward"}
          BY <2>1 DEF IsZone, Base
        <5> QED BY <2>1, <5>1 DEF EnsureScopes
      <4> QED BY <4>1 DEF EnsurePairs
    <3>3. /\ DOMAIN c0 = ConfFields /\ (\A f \in ConfFields \ {"state"} : c0[f] = c[f])
          /\ (c.state => c0.state) /\ (cfg.state = c.state => c0.state)
      BY <1>1 DEF EnsureState, ConfFields
    <3> HIDE DEF c0
    <3>4. /\ DOMAIN c1 = ConfFields /\ c1.bound = c0.bound \cup (chains \ cfg.bound)
          /\ \A f \in ConfFields \ {"bound"} : c1[f] = c0[f]
      BY <3>2, <3>3 DEF ConfFields
    <3> HIDE DEF c1
    <3> QED BY <2>1, <3>1, <3>3, <3>4 DEF ConfFields
  <2>2. CASE ~IsZone(chains)
    <3>1. PICK b \in Base : chains = {b}
      BY <2>2, PairsAssumption DEF IsZone
    <3>2. Rep(chains) = b
      BY <3>1, RepIn DEF Scopes
    <3>3. c1 = IF b = "forward" THEN c ELSE EnsureChain(c, cfg, b)
      BY <2>2, <3>1, <3>2 DEF EnsureScopes
    <3>4. Seeds(c, c1) /\ c1.flow = c.flow /\ (cfg.baseline = c.baseline => b = "forward" \/ b \in c1.baseline \/ Low(cfg, b))
      BY <1>1, <3>3, SeedsAre
    <3> HIDE DEF c1
    <3> QED BY <2>2, <3>1, <3>4 DEF Seeds
  <2> QED BY <2>1, <2>2
<1>3. IsRules(c1.rule)
  BY <1>1, <1>2 DEF IsRules
<1> HIDE DEF c1, ips
<1>4. Seeds(c1, c2) /\ (cfg.flow = c1.flow => (ips => c2.flow \/ Low(cfg, "forward")))
  <2>1. DOMAIN c1.rule \subseteq DOMAIN cfg.rule
    BY <1>2
  <2> QED BY <1>2, <1>3, <2>1, SeedsAre
<1>5. DOMAIN c2 = ConfFields /\ DOMAIN c2.rule = DOMAIN c1.rule /\ (\A k \in DOMAIN c1.rule : c2.rule[k] = c1.rule[k]) /\ (c1.flow => c2.flow)
  BY <1>4 DEF Seeds
<1> HIDE DEF c2
<1>6. IsRules(c2.rule)
  BY <1>3, <1>5 DEF IsRules
<1>7. Seeds(c2, e)
  <2>1. DOMAIN c2.rule \subseteq DOMAIN cfg.rule
    BY <1>2, <1>5
  <2> QED BY <1>5, <1>6, <2>1, SeedsAre
<1> HIDE DEF e
<1>8. Seeds(c1, e)
  BY <1>4, <1>7, SeedsFollow
<1>10. /\ e.bound = c1.bound /\ e.state = c1.state /\ c1.baseline \subseteq e.baseline /\ (c2.flow => e.flow)
       /\ \A f \in Same : e[f] = c1[f]
       /\ DOMAIN e.rule = DOMAIN c1.rule /\ (\A k \in DOMAIN c1.rule : e.rule[k] = c1.rule[k])
  BY <1>7, <1>8 DEF Seeds
<1>11. cfg.flow = c.flow => (ips => e.flow \/ Low(cfg, "forward"))
  BY <1>2, <1>4, <1>10
<1> QED BY <1>0, <1>2, <1>5, <1>10, <1>11 DEF ips

\* Written leaves over what is there.
LEMMA WriteIs ==
  ASSUME NEW c, IsConf(c), NEW n, NEW patch
  PROVE  LET w == Write(c, n, patch)
         IN  /\ DOMAIN w.rule = DOMAIN c.rule \cup ((DOMAIN patch) \X {n})
             /\ \A k \in DOMAIN c.rule : k \notin (DOMAIN patch) \X {n} => w.rule[k] = c.rule[k]
             /\ \A s \in DOMAIN patch : w.rule[<<s, n>>] = Over(patch[s], RuleAt(c.rule, <<s, n>>))
             /\ \A f \in ConfFields \ {"rule"} : w[f] = c[f]
<1> DEFINE w == Write(c, n, patch)
           R == [k \in (DOMAIN patch) \X {n} |-> Over(patch[k[1]], RuleAt(c.rule, k))]
<1>1. DOMAIN c = ConfFields
  BY DEF IsConf
<1>2. w.rule = Over(R, c.rule) /\ \A f \in ConfFields \ {"rule"} : w[f] = c[f]
  BY <1>1 DEF Write, ConfFields
<1>3. \A s \in DOMAIN patch : R[<<s, n>>] = Over(patch[s], RuleAt(c.rule, <<s, n>>))
  OBVIOUS
<1>4. DOMAIN R = (DOMAIN patch) \X {n}
  OBVIOUS
<1>5. \A s \in DOMAIN patch : <<s, n>> \in DOMAIN R
  OBVIOUS
<1> HIDE DEF w, R
<1> QED BY <1>2, <1>3, <1>4, <1>5 DEF Over, w

\* A rule is dropped only from scopes it leaves.
LEMMA ScopesApart ==
  ASSUME NEW live, NEW u, IsEntry(live, u), NEW zones, NEW sel
  PROVE  Dropped(live, RuleChainsFor(zones, sel)) \cap RuleChainsFor(zones, sel) = {}
<1> DEFINE chains == RuleChainsFor(zones, sel)
<1>1. chains \subseteq DOMAIN Pairs \/ \E b \in Base : chains = {b}
  BY ChainsAre
<1> HIDE DEF chains
<1>2. ASSUME NEW l \in live, Rebuilt(live, chains) PROVE l.scopes \cap chains = {}
  <2>1. IsZone(l.scopes) # IsZone(chains) \/ (~IsZone(chains) /\ l.scopes # chains)
    BY <1>2 DEF Rebuilt, IsEntry
  <2>2. l.scopes \subseteq DOMAIN Pairs \/ \E b \in Base : l.scopes = {b}
    BY DEF IsEntry, IsRow
  <2> QED BY <1>1, <2>1, <2>2, PairsAssumption DEF IsZone
<1>3. \A l \in live : ~Rebuilt(live, chains) => (l.scopes \ chains) \cap chains = {}
  OBVIOUS
<1> QED BY <1>2, <1>3 DEF Dropped, chains

\* A saved rule: it leaves some scopes, and has its leaves in the others.
RuleSaved(c, live, u) ==
  LET chains == RuleChainsFor(c.zones, u.sel)
      n == LandsAt(c, live, u, chains)
      kept == Kept(live, chains)
      group == RuleGroup(c, kept, n, u.many)
      gone == DropCopies(c, c, Dropped(live, chains), DroppedAt(live, chains, n))
      d == DiffRule(c, c, live, u)
  IN  /\ DOMAIN d.rule = DOMAIN gone.rule \cup (chains \X {n})
      /\ \A k \in DOMAIN gone.rule : k \notin chains \X {n} => d.rule[k] = c.rule[k]
      /\ \A s \in chains : d.rule[<<s, n>>] = Over(Changes(Wanted(c, u, group), Was(kept, s)), RuleAt(c.rule, <<s, n>>))
      /\ d.bound = IF IsZone(chains) THEN (c.bound \cap gone.bound) \cup chains ELSE gone.bound
      /\ d.group = (c.group \ (AutoGroup(c, live) \ group)) \cup group
      /\ \A f \in {"zones", "geo", "ssl", "protocol", "drop"} : d[f] = c[f]
      /\ c.baseline \subseteq d.baseline /\ (c.state => d.state) /\ (c.flow => d.flow)
      /\ IsZone(chains) => d.state
      /\ chains \subseteq Base => \A b \in chains \ {"forward"} : b \in d.baseline \/ Low(c, b)
      /\ u.ips /\ u.action = "accept" /\ (\A l \in kept : ~l.body.ips) => d.flow \/ Low(c, "forward")

\* What diffRule makes of a configuration, spelt out as RuleSaved.
LEMMA DiffRuleIs ==
  ASSUME NEW c, IsConf(c), NEW live \in SUBSET Rows(c), NEW u, IsEntry(live, u)
  PROVE  RuleSaved(c, live, u)
<1> DEFINE chains == RuleChainsFor(c.zones, u.sel)
           n == LandsAt(c, live, u, chains)
           kept == Kept(live, chains)
           group == RuleGroup(c, kept, n, u.many)
           S == Dropped(live, chains)
           old == DroppedAt(live, chains, n)
           gone == DropCopies(c, c, S, old)
           c2 == [gone EXCEPT !.group = (@ \ (AutoGroup(c, live) \ group)) \cup group]
           c3 == EnsureRule(c2, c, kept, u, chains)
           patch == [s \in chains |-> Changes(Wanted(c, u, group), Was(kept, s))]
           d == Write(c3, n, patch)
<1>1. DiffRule(c, c, live, u) = d
  BY DEF DiffRule
<1>2. chains \subseteq DOMAIN Pairs \/ \E b \in Base : chains = {b}
  BY ChainsAre
<1>3. S \cap chains = {}
  BY ScopesApart
<1> HIDE DEF n, chains, kept, group, S, old
<1>4. /\ gone.bound = c.bound \ EmptyPairs(c, S, old)
      /\ DOMAIN gone.rule = {k \in DOMAIN c.rule : k \notin S \X {old} /\ k[1] \notin EmptyPairs(c, S, old)}
      /\ \A k \in DOMAIN gone.rule : gone.rule[k] = c.rule[k]
      /\ \A f \in ConfFields \ {"rule", "bound"} : gone[f] = c[f]
  BY DropIs
<1>5. IsConf(gone)
  BY DropCopiesTyped
<1>6. EmptyPairs(c, S, old) \subseteq S
  BY DEF EmptyPairs
<1> HIDE DEF gone
<1>7. IsConf(c2)
  <2>1. IsFiniteSet(group)
    BY RuleGroupFinite DEF group
  <2> QED BY <1>5, <2>1, RegroupTyped
<1>8. c2.group = (c.group \ (AutoGroup(c, live) \ group)) \cup group /\ \A f \in ConfFields \ {"group"} : c2[f] = gone[f]
  BY <1>4, <1>5 DEF IsConf, ConfFields
<1> HIDE DEF c2
<1>9. c.state = c2.state /\ c.baseline = c2.baseline /\ c.flow = c2.flow /\ DOMAIN c2.rule \subseteq DOMAIN c.rule
  BY <1>4, <1>8 DEF ConfFields
<1>10. /\ c3.bound = IF IsZone(chains) THEN c2.bound \cup (chains \ c.bound) ELSE c2.bound
       /\ DOMAIN c3.rule = DOMAIN c2.rule /\ \A k \in DOMAIN c2.rule : c3.rule[k] = c2.rule[k]
       /\ \A f \in {"zones", "group", "geo", "ssl", "protocol", "drop"} : c3[f] = c2[f]
       /\ c2.baseline \subseteq c3.baseline /\ (c2.state => c3.state) /\ (c2.flow => c3.flow)
       /\ IsZone(chains) => c3.state
       /\ chains \subseteq Base => \A b \in chains \ {"forward"} : b \in c3.baseline \/ Low(c, b)
       /\ u.ips /\ u.action = "accept" /\ (\A l \in kept : ~l.body.ips) => c3.flow \/ Low(c, "forward")
  <2>1. /\ c3.bound = IF IsZone(chains) THEN c2.bound \cup (chains \ c.bound) ELSE c2.bound
        /\ DOMAIN c3.rule = DOMAIN c2.rule /\ \A k \in DOMAIN c2.rule : c3.rule[k] = c2.rule[k]
        /\ \A f \in {"zones", "group", "geo", "ssl", "protocol", "drop"} : c3[f] = c2[f]
        /\ c2.baseline \subseteq c3.baseline /\ (c2.state => c3.state) /\ (c2.flow => c3.flow)
        /\ c.state = c2.state /\ c.baseline = c2.baseline /\ c.flow = c2.flow =>
             /\ IsZone(chains) => c3.state
             /\ chains \subseteq Base => \A b \in chains \ {"forward"} : b \in c3.baseline \/ Low(c, b)
             /\ u.ips /\ u.action = "accept" /\ (\A l \in kept : ~l.body.ips) => c3.flow \/ Low(c, "forward")
    <3> HIDE DEF c3
    <3> QED BY <1>2, <1>7, <1>9, EnsureRuleIs DEF c3
  <2> HIDE DEF c3
  <2> QED BY <1>9, <2>1
<1>11. IsConf(c3)
  BY <1>7, EnsureRuleTyped DEF chains
<1> HIDE DEF c3
<1>12. /\ DOMAIN d.rule = DOMAIN c3.rule \cup (chains \X {n})
       /\ \A k \in DOMAIN c3.rule : k \notin chains \X {n} => d.rule[k] = c3.rule[k]
       /\ \A s \in chains : d.rule[<<s, n>>] = Over(patch[s], RuleAt(c3.rule, <<s, n>>))
       /\ \A f \in ConfFields \ {"rule"} : d[f] = c3[f]
  <2>1. DOMAIN patch = chains
    OBVIOUS
  <2> HIDE DEF patch
  <2> QED BY <1>11, <2>1, WriteIs
<1> HIDE DEF d
<1>13. DOMAIN c3.rule = DOMAIN gone.rule /\ \A k \in DOMAIN gone.rule : c3.rule[k] = gone.rule[k]
  BY <1>8, <1>10 DEF ConfFields
<1>14. ASSUME NEW s \in chains PROVE RuleAt(c3.rule, <<s, n>>) = RuleAt(c.rule, <<s, n>>)
  <2>1. <<s, n>> \in DOMAIN c.rule <=> <<s, n>> \in DOMAIN gone.rule
    BY <1>3, <1>4, <1>6
  <2> QED BY <1>4, <1>13, <2>1 DEF RuleAt
<1>15. chains \cap c.bound \subseteq gone.bound
  BY <1>3, <1>4, <1>6
<1>16. d.bound = IF IsZone(chains) THEN (c.bound \cap gone.bound) \cup chains ELSE gone.bound
  BY <1>4, <1>8, <1>10, <1>12, <1>15 DEF ConfFields
<1>17. d.group = (c.group \ (AutoGroup(c, live) \ group)) \cup group
  BY <1>8, <1>10, <1>12 DEF ConfFields
<1>18. \A f \in {"zones", "geo", "ssl", "protocol", "drop"} : d[f] = c[f]
  BY <1>4, <1>8, <1>10, <1>12 DEF ConfFields
<1>19. d.baseline = c3.baseline /\ d.state = c3.state /\ d.flow = c3.flow
  BY <1>12 DEF ConfFields
<1>20. /\ DOMAIN d.rule = DOMAIN gone.rule \cup (chains \X {n})
       /\ \A k \in DOMAIN gone.rule : k \notin chains \X {n} => d.rule[k] = c.rule[k]
       /\ \A s \in chains : d.rule[<<s, n>>] = Over(patch[s], RuleAt(c.rule, <<s, n>>))
  BY <1>4, <1>12, <1>13, <1>14
<1>21. \A s \in chains : patch[s] = Changes(Wanted(c, u, group), Was(kept, s))
  OBVIOUS
<1> HIDE DEF patch
<1> QED BY <1>1, <1>9, <1>10, <1>16, <1>17, <1>18, <1>19, <1>20, <1>21 DEF RuleSaved, chains, n, kept, group, gone, S, old

\* A leaf of a saved copy is what the form asks for where that differs from the
\* rule the form was opened on, and what the copy had otherwise.
LEMMA SavedLeaf ==
  ASSUME NEW cfg, NEW u, NEW group, NEW was, NEW b, IsBody(b), NEW f \in DOMAIN BlankBody
  PROVE  LET want == Wanted(cfg, u, group)
         IN  Over(Changes(want, was), b)[f] = IF f # "raw" /\ want[f] # was[f] THEN want[f] ELSE b[f]
<1> DEFINE want == Wanted(cfg, u, group)
<1>1. DOMAIN want = DOMAIN BlankBody \ {"raw"}
  BY DEF Wanted, BlankBody
<1> HIDE DEF want
<1>2. DOMAIN b = DOMAIN BlankBody
  BY DEF IsBody
<1> QED BY <1>1, <1>2 DEF Over, Changes, want

\* Rows moved to their positions: keys go from old places to new ones.
RowsMoved(c, o, geoRead) ==
  LET d == Reordered(c, c, o, geoRead)
      left == Without(c.rule, OldPlaces(o))
  IN  /\ DOMAIN d.rule = (DOMAIN c.rule \ OldPlaces(o)) \cup NewPlaces(o)
      /\ \A k \in NewPlaces(o) : d.rule[k] = Merge(c.rule[<<k[1], o[k[2]].n>>], RuleAt(left, k))
      /\ \A k \in DOMAIN c.rule \ (OldPlaces(o) \cup NewPlaces(o)) : d.rule[k] = c.rule[k]
      /\ \A f \in ConfFields \ {"rule", "geo"} : d[f] = c[f]
      /\ [d EXCEPT !.rule = c.rule, !.geo = c.geo] = c

\* What reorderCommands makes of a configuration, spelt out as RowsMoved.
LEMMA ReorderedIs ==
  ASSUME NEW c, IsConf(c), NEW o \in Arrangements(Rows(c)), NEW geoRead
  PROVE  RowsMoved(c, o, geoRead)
<1> DEFINE d == Reordered(c, c, o, geoRead)
           left == Without(c.rule, OldPlaces(o))
           built == [k \in NewPlaces(o) |-> Merge(c.rule[<<k[1], o[k[2]].n>>], RuleAt(left, k))]
<1>1. PICK g : d = [c EXCEPT !.rule = Over(built, left), !.geo = g]
  BY Zenon DEF Reordered
<1>2. c = [f \in ConfFields |-> c[f]]
  BY DEF IsConf
<1> HIDE DEF d
<1>3. d.rule = Over(built, left) /\ \A f \in ConfFields \ {"rule", "geo"} : d[f] = c[f]
  BY <1>1, <1>2 DEF ConfFields
<1>4. [d EXCEPT !.rule = c.rule, !.geo = c.geo] = c
  BY <1>1, <1>2 DEF ConfFields
<1>5. /\ DOMAIN left = DOMAIN c.rule \ OldPlaces(o)
      /\ \A k \in DOMAIN left : left[k] = c.rule[k]
  BY DEF Without
<1> HIDE DEF left
<1>6. /\ DOMAIN built = NewPlaces(o)
      /\ \A k \in NewPlaces(o) : built[k] = Merge(c.rule[<<k[1], o[k[2]].n>>], RuleAt(left, k))
  OBVIOUS
<1> HIDE DEF built
<1>7. /\ DOMAIN d.rule = (DOMAIN c.rule \ OldPlaces(o)) \cup NewPlaces(o)
      /\ \A k \in NewPlaces(o) : d.rule[k] = Merge(c.rule[<<k[1], o[k[2]].n>>], RuleAt(left, k))
      /\ \A k \in DOMAIN c.rule \ (OldPlaces(o) \cup NewPlaces(o)) : d.rule[k] = c.rule[k]
  BY <1>3, <1>5, <1>6 DEF Over
<1> QED BY <1>3, <1>4, <1>7 DEF RowsMoved, d, left

-----------------------------------------------------------------------------
(* Commits.                                                                *)

\* A new rule takes a fresh number.
TakesFresh(c, live, u) == live = {} => u.n = NextRuleNumber(Rows(c))

\* The changes that can be committed from a page that shows what runs.
SaveCommit ==
  /\ form # Closed /\ form.live \subseteq Rows(conf)
  /\ \E u : /\ IsEntry(form.live, u) /\ TakesFresh(conf, form.live, u) /\ RuleChainsFor(conf.zones, u.sel) # {}
           /\ conf' = ApplyRule(conf, conf, form.live, form.svc, u)
DeleteCommit ==
  /\ form = Closed
  /\ \E r \in Rows(conf), geoRead \in BOOLEAN :
       /\ conf' = DeleteRule(conf, conf, r, geoRead) /\ (geoRead \/ missed')
       /\ op' = Idle \/ op'.move = [n \in {r.n} |-> 0]
ReorderCommit ==
  /\ form = Closed
  /\ \E o \in Arrangements(Rows(conf)), geoRead \in BOOLEAN :
       /\ conf' = Reordered(conf, conf, o, geoRead) /\ (geoRead \/ missed')
       /\ op'.move = [n \in {o[i].n : i \in DOMAIN o} |-> CHOOSE i \in DOMAIN o : o[i].n = n]
ToggleCommit ==
  \E r \in Rows(conf) :
    LET c == Write(conf, r.n, [s \in r.scopes |-> [ips |-> ~r.body.ips, action |-> "accept"]])
    IN  conf' = IF r.body.ips THEN c ELSE EnsureIpsFlow(c, conf)
DefaultCommit ==
  \E drop \in BOOLEAN : conf' = [IF drop THEN EnsureForward(conf, conf) ELSE conf EXCEPT !.drop = drop]
Marked(rule, K, f, x) == Over([k \in K |-> [RuleAt(rule, k) EXCEPT ![f] = x]], rule)
LoggingCommit ==
  LET c == EnsureChain(EnsureChain(EnsureForward(conf, conf), conf, "input"), conf, "output")
      quiet == {<<Rep(r.scopes), r.n>> : r \in {r \in Rows(conf) : ~r.body.log}}
  IN  conf' = [c EXCEPT !.rule = Marked(c.rule, quiet, "log", TRUE)]
ProtocolCommit ==
  LET users == {<<Rep(r.scopes), r.n>> : r \in {r \in Rows(conf) : r.body.policy}}
  IN  \E p \in {"tcp", "udp"} : conf' = [conf EXCEPT !.protocol = p, !.rule = Marked(conf.rule, users, "protocol", p)]
AddZoneCommit == \E z : conf' = EnsureState([conf EXCEPT !.zones = @ \cup {z}], conf)
DeleteZoneCommit ==
  \E z \in conf.zones :
    conf' = [TearDown(conf, ZonePairs(conf, z)) EXCEPT !.zones = @ \ {z}, !.bound = {p \in @ : Pairs[p].dst # z}]
RenameZoneCommit ==
  \E z \in conf.zones, to \in NetZones \ conf.zones :
    conf' = EnsureState([conf EXCEPT !.zones = (@ \ {z}) \cup {to}, !.bound = {p \in @ : Pairs[p].dst # z}], conf)

SettingCommit ==
  /\ op' = Idle /\ form = Closed
  /\ \/ ToggleCommit \/ DefaultCommit \/ LoggingCommit \/ ProtocolCommit
     \/ AddZoneCommit \/ DeleteZoneCommit \/ RenameZoneCommit

\* There is no other way to change what runs under the page's eyes.
LEMMA CommitStep ==
  ASSUME TypeOK, [Next]_vars, Committed
  PROVE  \/ SaveCommit
         \/ SettingCommit
         \/ DeleteCommit \/ ReorderCommit
<1>1. pending = {} /\ pending' # pending /\ pending' # {} /\ page = conf
  BY DEF Committed
<1>2. \/ Submit \/ Delete \/ Reorder \/ ToggleIps \/ SetDefaultAction \/ EnableTrafficLogging
      \/ ChangePolicyProtocol \/ AddZone \/ DeleteZone \/ RenameZone
  BY <1>1 DEF Next, vars, Confirm, Revert, Load, Open, OpenNew, Cancel, AcPut, AcPutFails, AcCascade, OtherDeletes
<1>3. \A c : CommitTo(c) => conf' = c /\ op = Idle
  BY DEF CommitTo
<1>4. CASE Submit
  <2>1. form # Closed
    BY <1>4 DEF Submit
  <2>2. PICK e \in Entries(form.u) :
          /\ RuleChainsFor(page.zones, Numbered(e).sel) # {}
          /\ CommitTo(ApplyRule(conf, page, form.live, form.svc, Numbered(e))) \/ UNCHANGED <<conf, pending>>
    BY <1>4, Zenon DEF Submit, SubmitAs
  <2>3. IsEntry(form.live, Numbered(e))
    BY <2>1, SubmissionTyped
  <2>4. form.live \subseteq Rows(conf)
    BY <2>1 DEF Committed, FreshRule
  <2>5. TakesFresh(conf, form.live, Numbered(e))
    <3>1. "n" \in DOMAIN e
      BY <2>1, EntriesTyped DEF TypeOK
    <3> QED BY <1>1, <3>1 DEF TakesFresh, Numbered
  <2> QED BY <1>1, <1>3, <2>1, <2>2, <2>3, <2>4, <2>5 DEF SaveCommit
<1>5. CASE Delete
  <2>1. PICK r \in Rows(page), geoRead \in BOOLEAN :
          /\ CommitTo(DeleteRule(conf, page, r, geoRead))
          /\ op' = IF r.scopes \cap {"input", "output"} # {} THEN Idle
                   ELSE [kind |-> "cascade", move |-> [n \in {r.n} |-> 0], sound |-> BindingsSound]
          /\ missed' = (missed \/ ~geoRead)
    BY <1>5 DEF Delete
  <2>2. op' = Idle \/ op'.move = [n \in {r.n} |-> 0]
    BY <2>1
  <2>3. form = Closed
    BY <1>5 DEF Delete
  <2> QED BY <1>1, <1>3, <2>1, <2>2, <2>3 DEF DeleteCommit
<1>6. CASE Reorder
  <2>1. PICK o \in Arrangements(Rows(page)), geoRead \in BOOLEAN :
          /\ CommitTo(Reordered(conf, page, o, geoRead))
          /\ op' = [kind |-> "cascade", move |-> [n \in {o[i].n : i \in DOMAIN o} |-> CHOOSE i \in DOMAIN o : o[i].n = n],
                    sound |-> BindingsSound]
          /\ missed' = (missed \/ ~geoRead)
    BY <1>6 DEF Reorder
  <2>2. op'.move = [n \in {o[i].n : i \in DOMAIN o} |-> CHOOSE i \in DOMAIN o : o[i].n = n]
    BY <2>1
  <2>3. form = Closed
    BY <1>6 DEF Reorder
  <2> QED BY <1>1, <1>3, <2>1, <2>2, <2>3 DEF ReorderCommit
<1>7. CASE ToggleIps
  <2> DEFINE c(r) == Write(conf, r.n, [s \in r.scopes |-> [ips |-> ~r.body.ips, action |-> "accept"]])
  <2>1. PICK r \in Rows(page) : CommitTo(IF r.body.ips THEN c(r) ELSE EnsureIpsFlow(c(r), page))
    BY <1>7 DEF ToggleIps
  <2>2. op' = op /\ form = Closed
    BY <1>7 DEF ToggleIps
  <2> HIDE DEF c
  <2>3. conf' = IF r.body.ips THEN c(r) ELSE EnsureIpsFlow(c(r), conf)
    BY <1>1, <1>3, <2>1
  <2>4. ToggleCommit
    BY <1>1, <2>3, Zenon DEF ToggleCommit, c
  <2> QED BY <1>3, <2>1, <2>2, <2>4 DEF SettingCommit
<1>8. CASE SetDefaultAction
  BY <1>1, <1>3, <1>8 DEF SetDefaultAction, DefaultCommit, SettingCommit
<1>9. CASE EnableTrafficLogging
  BY <1>1, <1>3, <1>9 DEF EnableTrafficLogging, LoggingCommit, Marked, SettingCommit
<1>10. CASE ChangePolicyProtocol
  BY <1>1, <1>3, <1>10 DEF ChangePolicyProtocol, ProtocolCommit, Marked, SettingCommit
<1>11. CASE AddZone
  <2> DEFINE c(z) == [conf EXCEPT !.zones = @ \cup {z}]
  <2>1. PICK z : CommitTo(EnsureState(c(z), page))
    BY <1>11 DEF AddZone
  <2>2. op' = op /\ form = Closed
    BY <1>11 DEF AddZone
  <2>3. op = Idle /\ conf' = EnsureState(c(z), conf)
    BY <1>1, <1>3, <2>1
  <2>4. AddZoneCommit
    BY <2>3, Zenon DEF AddZoneCommit
  <2> QED BY <2>2, <2>3, <2>4 DEF SettingCommit
<1>12. CASE DeleteZone
  <2> DEFINE c(d, z) == [TearDown(d, ZonePairs(d, z)) EXCEPT !.zones = @ \ {z}, !.bound = {p \in @ : Pairs[p].dst # z}]
  <2>1. PICK z \in page.zones : CommitTo([TearDown(conf, ZonePairs(page, z)) EXCEPT !.zones = @ \ {z},
                                                                                  !.bound = {p \in @ : Pairs[p].dst # z}])
    BY <1>12, Zenon DEF DeleteZone
  <2>2. op' = op /\ form = Closed
    BY <1>12 DEF DeleteZone
  <2>3. CommitTo(c(conf, z))
    BY <1>1, <2>1, Zenon
  <2> HIDE DEF c
  <2>4. op = Idle /\ z \in conf.zones /\ conf' = c(conf, z)
    BY <1>1, <1>3, <2>3
  <2>5. DeleteZoneCommit
    BY <2>4, Zenon DEF DeleteZoneCommit, c
  <2> QED BY <2>2, <2>4, <2>5 DEF SettingCommit
<1>13. CASE RenameZone
  <2> DEFINE c(z, to) == [conf EXCEPT !.zones = (@ \ {z}) \cup {to}, !.bound = {p \in @ : Pairs[p].dst # z}]
  <2>1. PICK z \in page.zones, to \in NetZones \ page.zones : CommitTo(EnsureState(c(z, to), page))
    BY <1>13, Zenon DEF RenameZone
  <2>2. op' = op /\ form = Closed
    BY <1>13 DEF RenameZone
  <2> HIDE DEF c
  <2>3. op = Idle /\ z \in conf.zones /\ to \in NetZones \ conf.zones /\ conf' = EnsureState(c(z, to), conf)
    BY <1>1, <1>3, <2>1
  <2>4. RenameZoneCommit
    BY <2>3, Zenon DEF RenameZoneCommit, c
  <2> QED BY <2>2, <2>3, <2>4 DEF SettingCommit
<1> QED BY <1>2, <1>4, <1>5, <1>6, <1>7, <1>8, <1>9, <1>10, <1>11, <1>12, <1>13

\* Writing one leaf of some rules leaves every other leaf, and the rules there are.
LEMMA MarkedIs ==
  ASSUME NEW rule, IsRules(rule), NEW K, K \subseteq DOMAIN rule, NEW f, NEW x
  PROVE  /\ DOMAIN Marked(rule, K, f, x) = DOMAIN rule
         /\ \A k \in DOMAIN rule : \A g \in DOMAIN BlankBody \ {f} : Marked(rule, K, f, x)[k][g] = rule[k][g]
<1> DEFINE R == [k \in K |-> [RuleAt(rule, k) EXCEPT ![f] = x]]
<1>1. DOMAIN Over(R, rule) = DOMAIN rule
  BY DEF Over
<1>2. ASSUME NEW k \in DOMAIN rule, NEW g \in DOMAIN BlankBody \ {f} PROVE Over(R, rule)[k][g] = rule[k][g]
  <2>1. DOMAIN rule[k] = DOMAIN BlankBody
    BY DEF IsRules, IsBody
  <2>2. [rule[k] EXCEPT ![f] = x][g] = rule[k][g]
    BY <2>1
  <2> QED BY <2>2 DEF Over, RuleAt
<1> QED BY <1>1, <1>2 DEF Marked

\* Settings of the page, rules aside: no rule appears, and of those there are
\* only `log`, `protocol`, and what IPS inspection needs change.
FormFields == SharedFields \ {"ips", "action"}
SettingIs(c, d) ==
  /\ DOMAIN d.rule \subseteq DOMAIN c.rule /\ d.bound \subseteq c.bound
  /\ d.group = c.group /\ d.geo = c.geo /\ d.ssl = c.ssl
  /\ (\A z \in c.zones \ d.zones : ZonePairs(c, z) = {}) => DOMAIN d.rule = DOMAIN c.rule /\ d.bound = c.bound
  /\ \A k \in DOMAIN d.rule : \A f \in FormFields : d.rule[k][f] = c.rule[k][f]
  /\ \A k, l \in DOMAIN d.rule :
       k[2] = l[2] /\ k[1] \in c.bound /\ l[1] \in c.bound =>
         \A f \in {"ips", "action"} : c.rule[k][f] = c.rule[l][f] => d.rule[k][f] = d.rule[l][f]
  /\ c.baseline \subseteq d.baseline /\ (c.state => d.state) /\ (c.flow => d.flow)
  /\ \A k \in DOMAIN d.rule : d.rule[k].ips => c.rule[k].ips \/ d.flow \/ Low(c, "forward")

\* Each settings commit is a SettingIs: the IPS toggle,
LEMMA ToggleIs == ASSUME IsConf(conf), ToggleCommit PROVE SettingIs(conf, conf')
<1> DEFINE c(r) == Write(conf, r.n, [s \in r.scopes |-> [ips |-> ~r.body.ips, action |-> "accept"]])
<1>1. PICK r \in Rows(conf) : conf' = IF r.body.ips THEN c(r) ELSE EnsureIpsFlow(c(r), conf)
  BY DEF ToggleCommit
<1> DEFINE patch == [s \in r.scopes |-> [ips |-> ~r.body.ips, action |-> "accept"]]
           w == Write(conf, r.n, patch)
<1>2. /\ r.n \in Nat \ {0} /\ r.scopes \subseteq Scopes /\ \A s \in r.scopes : <<s, r.n>> \in DOMAIN conf.rule
  BY RowTyped DEF IsRow
<1>3. DOMAIN patch = r.scopes /\ \A s \in r.scopes : IsPatch(patch[s])
  BY IpsPatchTyped
<1>4. \A s \in r.scopes : /\ DOMAIN patch[s] = {"ips", "action"} /\ patch[s].action = "accept" /\ patch[s].ips = ~r.body.ips
  OBVIOUS
<1> HIDE DEF patch
<1>5. IsConf(w)
  BY <1>2, <1>3, WriteTyped
<1>6. /\ DOMAIN w.rule = DOMAIN conf.rule \cup (r.scopes \X {r.n})
      /\ \A k \in DOMAIN conf.rule : k \notin r.scopes \X {r.n} => w.rule[k] = conf.rule[k]
      /\ \A s \in r.scopes : w.rule[<<s, r.n>>] = Over(patch[s], RuleAt(conf.rule, <<s, r.n>>))
      /\ \A f \in ConfFields \ {"rule"} : w[f] = conf[f]
  BY <1>3, WriteIs
<1>7. conf' = IF r.body.ips THEN w ELSE EnsureIpsFlow(w, conf)
  BY <1>1 DEF patch
<1> HIDE DEF w
<1>8. DOMAIN w.rule = DOMAIN conf.rule
  BY <1>2, <1>6
<1>9. ASSUME NEW k \in DOMAIN conf.rule, NEW f \in DOMAIN BlankBody
      PROVE  w.rule[k][f] = IF k[2] = r.n /\ k[1] \in r.scopes /\ f \in {"ips", "action"} THEN patch[k[1]][f] ELSE conf.rule[k][f]
  <2>1. k = <<k[1], k[2]>> /\ DOMAIN conf.rule[k] = DOMAIN BlankBody
    BY KeyTyped
  <2>2. CASE k[2] = r.n /\ k[1] \in r.scopes
    <3>1. w.rule[k] = Over(patch[k[1]], conf.rule[k])
      BY <1>6, <2>1, <2>2 DEF RuleAt
    <3> QED BY <1>4, <2>1, <2>2, <3>1 DEF Over
  <2>3. CASE ~(k[2] = r.n /\ k[1] \in r.scopes)
    BY <1>6, <2>1, <2>3
  <2> QED BY <2>2, <2>3
<1>10. \A l \in DOMAIN conf.rule : l[1] \in conf.bound /\ l[2] = r.n /\ r.scopes \cap conf.bound # {} => l[1] \in r.scopes
  <2>1. (\E b \in Base : r.scopes = {b}) \/ r.scopes = Copies(conf, r.n)
    BY RowsAre
  <2>2. Base \cap conf.bound = {}
    BY PairsAssumption DEF IsConf
  <2>3. \A l \in DOMAIN conf.rule : l = <<l[1], l[2]>>
    BY DEF IsConf, IsRules
  <2> QED BY <2>1, <2>2, <2>3 DEF Copies
<1>11. /\ DOMAIN conf'.rule = DOMAIN w.rule /\ \A k \in DOMAIN w.rule : conf'.rule[k] = w.rule[k]
       /\ conf'.bound = conf.bound /\ conf'.zones = conf.zones /\ conf'.group = conf.group
       /\ conf'.geo = conf.geo /\ conf'.ssl = conf.ssl
       /\ conf.baseline \subseteq conf'.baseline /\ (conf.state => conf'.state) /\ (conf.flow => conf'.flow)
       /\ ~r.body.ips => conf'.flow \/ Low(conf, "forward")
  <2>1. DOMAIN w = ConfFields /\ IsRules(w.rule) /\ DOMAIN w.rule \subseteq DOMAIN conf.rule
    BY <1>5, <1>8 DEF IsConf
  <2>2. Seeds(w, conf')
    BY <1>7, <2>1, SeedsAre
  <2>3. conf.flow = w.flow
    BY <1>6 DEF ConfFields
  <2>4. ~r.body.ips => conf'.flow \/ Low(conf, "forward")
    BY <1>7, <2>1, <2>3, SeedsAre
  <2> QED BY <1>6, <2>2, <2>4 DEF Seeds, ConfFields
<1>12. "ips" \in DOMAIN BlankBody /\ "action" \in DOMAIN BlankBody /\ FormFields \subseteq DOMAIN BlankBody \ {"ips", "action"}
  BY DEF BlankBody, FormFields, SharedFields
<1>13. \A k \in DOMAIN conf'.rule : conf'.rule[k].ips => conf.rule[k].ips \/ conf'.flow \/ Low(conf, "forward")
  <2> SUFFICES ASSUME NEW k \in DOMAIN conf.rule, w.rule[k].ips, ~conf.rule[k].ips PROVE conf'.flow \/ Low(conf, "forward")
    BY <1>8, <1>11
  <2>1. k[1] \in r.scopes /\ w.rule[k].ips = patch[k[1]].ips
    BY <1>9, <1>12
  <2>2. ~r.body.ips
    BY <1>4, <2>1
  <2> QED BY <1>11, <2>2
<1>14. \A k \in DOMAIN conf'.rule : \A f \in FormFields : conf'.rule[k][f] = conf.rule[k][f]
  BY <1>8, <1>9, <1>11, <1>12
<1>15. ASSUME NEW k \in DOMAIN conf'.rule, NEW l \in DOMAIN conf'.rule,
              k[2] = l[2], k[1] \in conf.bound, l[1] \in conf.bound, NEW f \in {"ips", "action"}, conf.rule[k][f] = conf.rule[l][f]
       PROVE  conf'.rule[k][f] = conf'.rule[l][f]
  <2>1. k[2] = r.n => (k[1] \in r.scopes <=> l[1] \in r.scopes)
    BY <1>8, <1>10, <1>11, <1>15
  <2>2. \A s, t \in r.scopes : patch[s] = patch[t]
    BY DEF patch
  <2> QED BY <1>8, <1>9, <1>11, <1>12, <1>15, <2>1, <2>2
<1> QED BY <1>8, <1>11, <1>13, <1>14, <1>15 DEF SettingIs

\* The other settings leave all but `log` and `protocol` of each rule.
LEMMA SettingFrom ==
  ASSUME NEW c, NEW d,
         DOMAIN d.rule \subseteq DOMAIN c.rule, d.bound \subseteq c.bound, d.group = c.group, d.geo = c.geo, d.ssl = c.ssl,
         (\A z \in c.zones \ d.zones : ZonePairs(c, z) = {}) => DOMAIN d.rule = DOMAIN c.rule /\ d.bound = c.bound,
         \A k \in DOMAIN d.rule : \A f \in DOMAIN BlankBody \ {"log", "protocol"} : d.rule[k][f] = c.rule[k][f],
         c.baseline \subseteq d.baseline, c.state => d.state, c.flow => d.flow
  PROVE  SettingIs(c, d)
<1>1. FormFields \cup {"ips", "action"} \subseteq DOMAIN BlankBody \ {"log", "protocol"}
  BY DEF FormFields, SharedFields, BlankBody
<1>2. \A k \in DOMAIN d.rule : \A f \in FormFields \cup {"ips", "action"} : d.rule[k][f] = c.rule[k][f]
  BY <1>1
<1>3. \A k \in DOMAIN d.rule : d.rule[k].ips => c.rule[k].ips
  BY <1>2
<1> QED BY <1>2, <1>3 DEF SettingIs

\* the default action,
LEMMA DefaultIs == ASSUME IsConf(conf), DefaultCommit PROVE SettingIs(conf, conf')
<1>1. PICK drop \in BOOLEAN : conf' = [IF drop THEN EnsureForward(conf, conf) ELSE conf EXCEPT !.drop = drop]
  BY DEF DefaultCommit
<1> DEFINE c == IF drop THEN EnsureForward(conf, conf) ELSE conf
<1>2. DOMAIN conf = ConfFields
  BY DEF IsConf
<1>3. Seeds(conf, c)
  BY <1>2, SeedsAre DEF IsConf
<1>4. conf' = [c EXCEPT !.drop = drop]
  BY <1>1
<1> HIDE DEF c
<1>5. \A f \in ConfFields \ {"drop"} : conf'[f] = c[f]
  BY <1>3, <1>4 DEF Seeds
<1>6. /\ \A f \in {"bound", "zones", "group", "state", "geo", "ssl"} : conf'[f] = conf[f]
      /\ DOMAIN conf'.rule = DOMAIN conf.rule /\ \A k \in DOMAIN conf.rule : conf'.rule[k] = conf.rule[k]
      /\ conf.baseline \subseteq conf'.baseline /\ (conf.flow => conf'.flow)
  BY <1>3, <1>5 DEF Seeds, ConfFields
<1> QED BY <1>6, SettingFrom

\* a new zone,
LEMMA AddZoneIs == ASSUME IsConf(conf), AddZoneCommit PROVE SettingIs(conf, conf')
<1>1. PICK z : conf' = EnsureState([conf EXCEPT !.zones = @ \cup {z}], conf)
  BY DEF AddZoneCommit
<1>2. DOMAIN conf = ConfFields
  BY DEF IsConf
<1>3. /\ \A f \in {"rule", "bound", "group", "flow", "baseline", "geo", "ssl"} : conf'[f] = conf[f]
      /\ conf.state => conf'.state
  BY <1>1, <1>2 DEF EnsureState, ConfFields
<1> QED BY <1>3, SettingFrom

\* a deleted zone, whose pairs go with their rulesets,
LEMMA DeleteZoneIs == ASSUME IsConf(conf), DeleteZoneCommit PROVE SettingIs(conf, conf')
<1>1. PICK z \in conf.zones :
        conf' = [TearDown(conf, ZonePairs(conf, z)) EXCEPT !.zones = @ \ {z}, !.bound = {p \in @ : Pairs[p].dst # z}]
  BY Zenon DEF DeleteZoneCommit
<1> DEFINE P == ZonePairs(conf, z)
<1>2. DOMAIN conf = ConfFields
  BY DEF IsConf
<1>3. /\ \A f \in {"group", "flow", "baseline", "state", "geo", "ssl"} : conf'[f] = conf[f]
      /\ conf'.zones = conf.zones \ {z} /\ conf'.bound = {p \in conf.bound \ P : Pairs[p].dst # z}
      /\ conf'.rule = Without(conf.rule, {k \in DOMAIN conf.rule : k[1] \in P})
  BY <1>1, <1>2 DEF TearDown, ConfFields
<1>4. (\A y \in conf.zones \ conf'.zones : ZonePairs(conf, y) = {}) => P = {}
  BY <1>3
<1>9. \A p \in conf.bound : Pairs[p].dst = z => p \in P
  BY DEF ZonePairs
<1> HIDE DEF P
<1>5. /\ DOMAIN conf'.rule \subseteq DOMAIN conf.rule /\ (P = {} => DOMAIN conf'.rule = DOMAIN conf.rule)
      /\ \A k \in DOMAIN conf'.rule : conf'.rule[k] = conf.rule[k]
  BY <1>3 DEF Without
<1>6. P = {} => conf'.bound = conf.bound
  BY <1>3, <1>9
<1>7. conf'.bound \subseteq conf.bound
  BY <1>3
<1>8. conf'.geo = conf.geo /\ conf'.ssl = conf.ssl /\ conf'.group = conf.group /\ conf'.flow = conf.flow /\ conf'.baseline = conf.baseline /\ conf'.state = conf.state
  BY <1>3
<1> QED BY <1>4, <1>5, <1>6, <1>7, <1>8, SettingFrom

\* a renamed zone, of whose pairs only the bindings into it go,
LEMMA RenameZoneIs == ASSUME IsConf(conf), RenameZoneCommit PROVE SettingIs(conf, conf')
<1>1. PICK z \in conf.zones, to \in NetZones \ conf.zones :
        conf' = EnsureState([conf EXCEPT !.zones = (@ \ {z}) \cup {to}, !.bound = {p \in @ : Pairs[p].dst # z}], conf)
  BY Zenon DEF RenameZoneCommit
<1>2. DOMAIN conf = ConfFields
  BY DEF IsConf
<1> DEFINE Z == (conf.zones \ {z}) \cup {to}
           B == {p \in conf.bound : Pairs[p].dst # z}
           c == [conf EXCEPT !.zones = Z, !.bound = B]
<1>3. conf' = EnsureState(c, conf)
  BY <1>1
<1> HIDE DEF Z, B
<1>4. DOMAIN c = ConfFields /\ c.zones = Z /\ c.bound = B /\ \A f \in ConfFields \ {"zones", "bound"} : c[f] = conf[f]
  BY <1>2 DEF ConfFields
<1> HIDE DEF c
<1>5. /\ \A f \in {"rule", "group", "flow", "baseline", "geo", "ssl"} : conf'[f] = conf[f]
      /\ conf.state => conf'.state
      /\ conf'.zones = Z /\ conf'.bound = B
  BY <1>3, <1>4 DEF EnsureState, ConfFields
<1>6. z \in conf.zones \ conf'.zones
  BY <1>5 DEF Z
<1>7. ZonePairs(conf, z) = {} => B = conf.bound
  BY DEF ZonePairs, B
<1>8. B \subseteq conf.bound
  BY DEF B
<1> QED BY <1>5, <1>6, <1>7, <1>8, SettingFrom

\* (writing `log` on some rules,)
LEMMA MarkedLog ==
  ASSUME NEW rule, IsRules(rule), NEW K, K \subseteq DOMAIN rule
  PROVE  \A x : /\ DOMAIN Marked(rule, K, "log", x) = DOMAIN rule
               /\ \A k \in DOMAIN rule : \A g \in DOMAIN BlankBody \ {"log"} : Marked(rule, K, "log", x)[k][g] = rule[k][g]
BY MarkedIs

\* traffic logging,
LEMMA LoggingIs == ASSUME IsConf(conf), LoggingCommit PROVE SettingIs(conf, conf')
<1> DEFINE c1 == EnsureForward(conf, conf)
           c2 == EnsureChain(c1, conf, "input")
           c == EnsureChain(c2, conf, "output")
           quiet == {<<Rep(r.scopes), r.n>> : r \in {r \in Rows(conf) : ~r.body.log}}
<1>1. PICK x : conf' = [c EXCEPT !.rule = Marked(c.rule, quiet, "log", x)]
  BY DEF LoggingCommit
<1>2. quiet \subseteq DOMAIN conf.rule
  BY RowTyped
<1> HIDE DEF quiet
<1>3. DOMAIN conf = ConfFields /\ IsRules(conf.rule)
  BY DEF IsConf
<1>4. Seeds(conf, c1)
  BY <1>3, SeedsAre
<1> HIDE DEF c1
<1>5. Seeds(c1, c2) /\ Seeds(c2, c)
  <2>1. DOMAIN c1 = ConfFields /\ IsRules(c1.rule) /\ DOMAIN c1.rule \subseteq DOMAIN conf.rule
    BY <1>3, <1>4 DEF Seeds, IsRules
  <2>2. Seeds(c1, c2)
    BY <2>1, SeedsAre DEF Base
  <2> HIDE DEF c2
  <2>3. DOMAIN c2 = ConfFields /\ IsRules(c2.rule) /\ DOMAIN c2.rule \subseteq DOMAIN conf.rule
    BY <2>1, <2>2 DEF Seeds, IsRules
  <2>4. Seeds(c2, c)
    BY <2>3, SeedsAre DEF Base
  <2> QED BY <2>2, <2>4
<1> HIDE DEF c2, c
<1>6. Seeds(conf, c) /\ IsRules(c.rule)
  <2>1. Seeds(conf, c)
    BY <1>4, <1>5, SeedsFollow
  <2> QED BY <1>3, <2>1 DEF Seeds, IsRules
<1>7. /\ conf'.rule = Marked(c.rule, quiet, "log", x)
      /\ \A f \in ConfFields \ {"rule"} : conf'[f] = c[f]
  BY <1>1, <1>6 DEF Seeds, ConfFields
<1>8. /\ DOMAIN conf'.rule = DOMAIN conf.rule
      /\ \A k \in DOMAIN conf.rule : \A g \in DOMAIN BlankBody \ {"log"} : conf'.rule[k][g] = conf.rule[k][g]
  <2>1. quiet \subseteq DOMAIN c.rule /\ DOMAIN c.rule = DOMAIN conf.rule /\ \A k \in DOMAIN conf.rule : c.rule[k] = conf.rule[k]
    BY <1>2, <1>6 DEF Seeds
  <2> QED BY <1>6, <1>7, <2>1, MarkedLog
<1>9. /\ \A f \in {"bound", "zones", "group", "state", "geo", "ssl"} : conf'[f] = conf[f]
      /\ conf.baseline \subseteq conf'.baseline /\ (conf.flow => conf'.flow)
  BY <1>6, <1>7 DEF Seeds, ConfFields
<1> QED BY <1>8, <1>9, SettingFrom

\* a policy's protocol,
LEMMA ProtocolIs == ASSUME IsConf(conf), ProtocolCommit PROVE SettingIs(conf, conf')
<1> DEFINE users == {<<Rep(r.scopes), r.n>> : r \in {r \in Rows(conf) : r.body.policy}}
<1>1. PICK p \in {"tcp", "udp"} : conf' = [conf EXCEPT !.protocol = p, !.rule = Marked(conf.rule, users, "protocol", p)]
  BY DEF ProtocolCommit
<1>2. users \subseteq DOMAIN conf.rule
  BY RowTyped
<1> HIDE DEF users
<1>3. DOMAIN conf = ConfFields /\ IsRules(conf.rule)
  BY DEF IsConf
<1>4. /\ conf'.rule = Marked(conf.rule, users, "protocol", p)
      /\ \A f \in {"bound", "zones", "group", "state", "flow", "baseline", "geo", "ssl"} : conf'[f] = conf[f]
  BY <1>1, <1>3 DEF ConfFields
<1>5. /\ DOMAIN conf'.rule = DOMAIN conf.rule
      /\ \A k \in DOMAIN conf.rule : \A g \in DOMAIN BlankBody \ {"protocol"} : conf'.rule[k][g] = conf.rule[k][g]
  BY <1>2, <1>3, <1>4, MarkedIs
<1> QED BY <1>4, <1>5, SettingFrom

\* and so all of them.
LEMMA SettingsAre == ASSUME IsConf(conf), SettingCommit PROVE SettingIs(conf, conf')
BY ToggleIs, DefaultIs, LoggingIs, ProtocolIs, AddZoneIs, DeleteZoneIs, RenameZoneIs DEF SettingCommit

-----------------------------------------------------------------------------
(* What rules rely on.                                                     *)

\* The services of a rule are kept apart from it.
LEMMA ApplyRuleIs ==
  ASSUME NEW c, IsConf(c), NEW live, NEW svc, NEW u, IsEntry(live, u)
  PROVE  \A f \in ConfFields \ {"geo", "ssl"} : ApplyRule(c, c, live, svc, u)[f] = DiffRule(c, c, live, u)[f]
<1>1. IsConf(DiffRule(c, c, live, u))
  BY DiffRuleTyped
<1>2. ASSUME NEW d, IsConf(d), NEW x, NEW f \in ConfFields \ {"geo", "ssl"}
      PROVE  [d EXCEPT !.geo = x][f] = d[f] /\ [d EXCEPT !.ssl = x][f] = d[f]
  BY <1>2 DEF IsConf
<1>3. ASSUME NEW d, IsConf(d), NEW ssl, NEW gone, NEW n, NEW action, NEW of, NEW f \in ConfFields \ {"geo", "ssl"}
      PROVE  IsConf(SslCommands(d, ssl, gone, n, action, of)) /\ SslCommands(d, ssl, gone, n, action, of)[f] = d[f]
  <2>1. \A x : IsConf([d EXCEPT !.ssl = x]) /\ [d EXCEPT !.ssl = x][f] = d[f]
    BY <1>2, <1>3, ConfTyped
  <2> QED BY <2>1, Zenon DEF SslCommands
<1>4. ASSUME NEW d, IsConf(d), NEW geo, NEW gone, NEW n, NEW scopes, NEW action, NEW of, NEW f \in ConfFields \ {"geo", "ssl"}
      PROVE  GeoCommands(d, geo, gone, n, scopes, action, of)[f] = d[f]
  <2>1. \A x : [d EXCEPT !.geo = x][f] = d[f]
    BY <1>2, <1>4
  <2> QED BY <2>1, Zenon DEF GeoCommands
<1> QED BY <1>1, <1>3, <1>4 DEF ApplyRule

\* What a commit that keeps them does to the configuration c.
Keeps(c, d) ==
  /\ c.baseline \subseteq d.baseline /\ (c.state => d.state) /\ (c.flow => d.flow)
  /\ d.bound # {} => c.bound # {} \/ d.state
  /\ \A k \in DOMAIN d.rule : d.rule[k].ips => (\E l \in DOMAIN c.rule : c.rule[l].ips) \/ d.flow \/ Low(c, "forward")
  /\ \A k \in DOMAIN d.rule : \/ (\E l \in DOMAIN c.rule : l[1] = k[1]) \/ Low(c, k[1])
                              \/ k[1] \in d.baseline \cup {"forward"} \cup DOMAIN Pairs

\* Keeping what rules rely on keeps Seeded, where the rules at 1 and 2 that stand
\* for a baseline stay.
LEMMA KeepsSeeded ==
  ASSUME NEW c, NEW d, Keeps(c, d), Seeded(c), \A chain \in Base : Low(c, chain) => Low(d, chain)
  PROVE  Seeded(d)
<1>1. d.bound # {} => d.state
  BY DEF Keeps, Seeded
<1>2. (\E k \in DOMAIN d.rule : d.rule[k].ips) => d.flow \/ Low(d, "forward")
  BY DEF Keeps, Seeded, Base
<1>3. ASSUME NEW k \in DOMAIN d.rule, k[1] \in {"input", "output"} PROVE HasBaseline(d, k[1])
  <2>1. k[1] \notin DOMAIN Pairs /\ k[1] # "forward" /\ k[1] \in Base
    BY <1>3, PairsAssumption DEF Base
  <2>2. (\E l \in DOMAIN c.rule : l[1] = k[1]) => k[1] \in c.baseline \/ Low(c, k[1])
    BY <1>3 DEF Seeded, HasBaseline
  <2> QED BY <2>1, <2>2 DEF Keeps, HasBaseline
<1> QED BY <1>1, <1>2, <1>3 DEF Seeded

\* A saved rule.
LEMMA SaveKeeps ==
  ASSUME NEW c, IsConf(c), NEW live \in SUBSET Rows(c), NEW svc, NEW u, IsEntry(live, u)
  PROVE  LET d == ApplyRule(c, c, live, svc, u) IN Keeps(c, d) /\ (Enforced(c) => Enforced(d))
<1> DEFINE chains == RuleChainsFor(c.zones, u.sel)
           n == LandsAt(c, live, u, chains)
           kept == Kept(live, chains)
           group == RuleGroup(c, kept, n, u.many)
           S == Dropped(live, chains)
           old == DroppedAt(live, chains, n)
           gone == DropCopies(c, c, S, old)
           d == ApplyRule(c, c, live, svc, u)
           e == DiffRule(c, c, live, u)
<1>1. /\ DOMAIN e.rule = DOMAIN gone.rule \cup (chains \X {n})
      /\ \A k \in DOMAIN gone.rule : k \notin chains \X {n} => e.rule[k] = c.rule[k]
      /\ \A s \in chains : e.rule[<<s, n>>] = Over(Changes(Wanted(c, u, group), Was(kept, s)), RuleAt(c.rule, <<s, n>>))
      /\ e.bound = IF IsZone(chains) THEN (c.bound \cap gone.bound) \cup chains ELSE gone.bound
      /\ \A f \in {"zones", "geo", "ssl", "protocol", "drop"} : e[f] = c[f]
      /\ c.baseline \subseteq e.baseline /\ (c.state => e.state) /\ (c.flow => e.flow)
      /\ IsZone(chains) => e.state
      /\ chains \subseteq Base => \A b \in chains \ {"forward"} : b \in e.baseline \/ Low(c, b)
      /\ u.ips /\ u.action = "accept" /\ (\A l \in kept : ~l.body.ips) => e.flow \/ Low(c, "forward")
  <2>1. RuleSaved(c, live, u)
    BY DiffRuleIs
  <2> QED BY <2>1, Zenon DEF RuleSaved
<1>2. \A f \in ConfFields \ {"geo", "ssl"} : d[f] = e[f]
  BY ApplyRuleIs
<1>3. chains \subseteq DOMAIN Pairs \/ \E b \in Base : chains = {b}
  BY ChainsAre
<1>4. kept \subseteq live
  BY DEF Kept
<1> HIDE DEF e, chains, n, kept, group, S, old
<1>5. d.rule = e.rule /\ d.bound = e.bound /\ d.baseline = e.baseline /\ d.state = e.state /\ d.flow = e.flow
  BY <1>2 DEF ConfFields
<1>6. gone.bound \subseteq c.bound /\ DOMAIN gone.rule \subseteq DOMAIN c.rule
  BY DropIs
<1>7. Enforced(c) => Enforced(gone)
  BY DropEnforced
<1> HIDE DEF d, gone
<1>8. ASSUME Enforced(c) PROVE Enforced(d)
  <2>1. \A k \in chains \X {n} : k[1] \in chains
    OBVIOUS
  <2>2. \A p \in chains : <<p, n>> \in DOMAIN d.rule /\ <<p, n>>[1] = p
    BY <1>1, <1>5
  <2>3. ASSUME NEW p \in DOMAIN Pairs, p \in d.bound PROVE \E k \in DOMAIN d.rule : k[1] = p
    <3>1. CASE p \in chains
      BY <2>2, <3>1
    <3>2. CASE p \in gone.bound
      BY <1>1, <1>5, <1>7, <1>8, <3>2 DEF Enforced
    <3> QED BY <1>1, <1>5, <2>3, <3>1, <3>2
  <2>4. ASSUME NEW p \in DOMAIN Pairs, NEW k \in DOMAIN d.rule, k[1] = p PROVE p \in d.bound
    <3>1. CASE p \in chains
      BY <1>1, <1>3, <1>5, <3>1, PairsAssumption DEF IsZone
    <3>2. CASE k \in DOMAIN gone.rule
      BY <1>1, <1>5, <1>6, <1>7, <1>8, <2>4, <3>2 DEF Enforced
    <3> QED BY <1>1, <1>5, <2>1, <2>4, <3>1, <3>2
  <2> QED BY <2>3, <2>4 DEF Enforced
<1>9. d.bound # {} => c.bound # {} \/ d.state
  BY <1>1, <1>5, <1>6
<1>10. ASSUME NEW k \in DOMAIN d.rule, d.rule[k].ips
       PROVE  (\E l \in DOMAIN c.rule : c.rule[l].ips) \/ d.flow \/ Low(c, "forward")
  <2>1. CASE k \notin chains \X {n}
    <3>1. k \in DOMAIN c.rule /\ d.rule[k] = c.rule[k]
      BY <1>1, <1>5, <1>6, <2>1
    <3> QED BY <1>10, <3>1
  <2>2. CASE k \in chains \X {n}
    <3>1. PICK s \in chains : k = <<s, n>>
      BY <2>2
    <3> DEFINE b == RuleAt(c.rule, k)
               want == Wanted(c, u, group)
    <3>2. IsBody(b)
      BY RuleAtTyped DEF IsConf
    <3>3. d.rule[k].ips = IF want.ips # Was(kept, s).ips THEN want.ips ELSE b.ips
      <4>1. "ips" \in DOMAIN BlankBody
        BY DEF BlankBody
      <4>2. d.rule[k] = Over(Changes(want, Was(kept, s)), b)
        BY <1>1, <1>5, <3>1
      <4> QED BY <3>2, <4>1, <4>2, SavedLeaf
    <3>4. CASE b.ips
      <4>1. k \in DOMAIN c.rule
        BY <3>4 DEF RuleAt, BlankBody
      <4> QED BY <3>4, <4>1 DEF RuleAt
    <3>5. CASE ~b.ips
      <4>1. want.ips
        BY <1>10, <3>3, <3>5
      <4>2. u.ips /\ u.action = "accept"
        BY <4>1 DEF Wanted
      <4>3. CASE \A l \in kept : ~l.body.ips
        BY <1>1, <1>5, <4>2, <4>3
      <4>4. CASE \E l \in kept : l.body.ips
        <5>1. PICK l \in kept : l.body.ips
          BY <4>4
        <5>2. l \in Rows(c)
          BY <1>4
        <5>3. <<Rep(l.scopes), l.n>> \in DOMAIN c.rule /\ l.body = c.rule[<<Rep(l.scopes), l.n>>]
          BY <5>2, RowTyped
        <5> QED BY <5>1, <5>3
      <4> QED BY <4>3, <4>4
    <3> QED BY <3>4, <3>5
  <2> QED BY <2>1, <2>2
<1>11. ASSUME NEW k \in DOMAIN d.rule
       PROVE  (\E l \in DOMAIN c.rule : l[1] = k[1]) \/ Low(c, k[1]) \/ k[1] \in d.baseline \cup {"forward"} \cup DOMAIN Pairs
  <2>1. CASE k \in DOMAIN gone.rule
    BY <1>6, <2>1
  <2>2. CASE k \in chains \X {n}
    BY <1>1, <1>3, <1>5, <2>2
  <2> QED BY <1>1, <1>5, <2>1, <2>2
<1>12. c.baseline \subseteq d.baseline /\ (c.state => d.state) /\ (c.flow => d.flow)
  BY <1>1, <1>5
<1> QED BY <1>8, <1>9, <1>10, <1>11, <1>12 DEF Keeps, d

\* What a deleted rule takes along: its copies, its emptied pairs, its group.
LEMMA DeleteIs ==
  ASSUME NEW c, IsConf(c), NEW r, NEW geoRead
  PROVE  LET d == DeleteRule(c, c, r, geoRead)
             e == DropCopies(c, c, r.scopes, r.n)
         IN  /\ d.rule = e.rule /\ d.bound = e.bound
             /\ \A f \in ConfFields \ {"rule", "bound", "geo", "group"} : d[f] = c[f]
             /\ d.group = c.group \ (r.body.group \cap c.group)
<1> DEFINE d == DeleteRule(c, c, r, geoRead)
           e == DropCopies(c, c, r.scopes, r.n)
           e2 == [e EXCEPT !.group = @ \ (r.body.group \cap c.group)]
<1>1. IsConf(e)
  BY DropCopiesTyped
<1>2. \A f \in ConfFields \ {"rule", "bound"} : e[f] = c[f]
  BY DropIs
<1>3. PICK g : d = e2 \/ d = [e2 EXCEPT !.geo = g]
  BY Zenon DEF DeleteRule
<1> HIDE DEF e, d
<1>4. DOMAIN e2 = ConfFields /\ (\A f \in ConfFields \ {"group"} : e2[f] = e[f]) /\ e2.group = e.group \ (r.body.group \cap c.group)
  BY <1>1 DEF IsConf, ConfFields
<1> HIDE DEF e2
<1>5. \A f \in ConfFields \ {"geo"} : d[f] = e2[f]
  BY <1>3, <1>4
<1> QED BY <1>2, <1>4, <1>5 DEF d, e, ConfFields

\* A deleted rule.
LEMMA DeleteKeeps ==
  ASSUME NEW c, IsConf(c), NEW r, NEW geoRead
  PROVE  LET d == DeleteRule(c, c, r, geoRead) IN Keeps(c, d) /\ (Enforced(c) => Enforced(d))
<1> DEFINE d == DeleteRule(c, c, r, geoRead)
           e == DropCopies(c, c, r.scopes, r.n)
<1>1. d.rule = e.rule /\ d.bound = e.bound /\ \A f \in ConfFields \ {"rule", "bound", "geo", "group"} : d[f] = c[f]
  BY DeleteIs
<1>2. e.bound \subseteq c.bound /\ DOMAIN e.rule \subseteq DOMAIN c.rule /\ \A k \in DOMAIN e.rule : e.rule[k] = c.rule[k]
  BY DropIs
<1>3. Enforced(c) => Enforced(e)
  BY DropEnforced
<1> HIDE DEF d, e
<1>4. Enforced(c) => Enforced(d)
  BY <1>1, <1>3 DEF Enforced
<1>5. d.baseline = c.baseline /\ d.state = c.state /\ d.flow = c.flow
  BY <1>1 DEF ConfFields
<1>6. Keeps(c, d)
  BY <1>1, <1>2, <1>5 DEF Keeps
<1> QED BY <1>4, <1>6 DEF d

\* The leaves of a rule that is built again, and where.
LEMMA ReorderKeeps ==
  ASSUME NEW c, IsConf(c), NEW o \in Arrangements(Rows(c)), NEW geoRead
  PROVE  LET d == Reordered(c, c, o, geoRead) IN Keeps(c, d) /\ (Enforced(c) => Enforced(d))
<1> DEFINE d == Reordered(c, c, o, geoRead)
           left == Without(c.rule, OldPlaces(o))
<1>1. /\ DOMAIN d.rule = (DOMAIN c.rule \ OldPlaces(o)) \cup NewPlaces(o)
      /\ \A k \in NewPlaces(o) : d.rule[k] = Merge(c.rule[<<k[1], o[k[2]].n>>], RuleAt(left, k))
      /\ \A k \in DOMAIN c.rule \ (OldPlaces(o) \cup NewPlaces(o)) : d.rule[k] = c.rule[k]
      /\ \A f \in ConfFields \ {"rule", "geo"} : d[f] = c[f]
  <2>1. RowsMoved(c, o, geoRead)
    BY ReorderedIs
  <2> QED BY <2>1, Zenon DEF RowsMoved
<1> HIDE DEF d
<1>2. \A k \in NewPlaces(o) : <<k[1], o[k[2]].n>> \in DOMAIN c.rule
  BY PlacesTyped
<1>3. ASSUME NEW k \in OldPlaces(o) PROVE \E l \in NewPlaces(o) : l[1] = k[1]
  <2>1. PICK i \in Moved(o) : k \in o[i].scopes \X {o[i].n}
    BY DEF OldPlaces
  <2>2. <<k[1], i>> \in NewPlaces(o)
    BY <2>1 DEF NewPlaces
  <2>3. <<k[1], i>>[1] = k[1]
    OBVIOUS
  <2> QED BY <2>2, <2>3
<1>4. \A k \in DOMAIN d.rule : \E l \in DOMAIN c.rule : l[1] = k[1]
  <2>1. \A k \in NewPlaces(o) : \E l \in DOMAIN c.rule : l[1] = k[1]
    BY <1>2
  <2> QED BY <1>1, <2>1
<1>5. \A k \in DOMAIN c.rule : \E l \in DOMAIN d.rule : l[1] = k[1]
  BY <1>1, <1>3
<1>6. d.bound = c.bound /\ d.baseline = c.baseline /\ d.state = c.state /\ d.flow = c.flow
  BY <1>1 DEF ConfFields
<1>7. Enforced(c) => Enforced(d)
  BY <1>4, <1>5, <1>6 DEF Enforced
<1>8. ASSUME NEW k \in DOMAIN d.rule, d.rule[k].ips PROVE \E l \in DOMAIN c.rule : c.rule[l].ips
  <2>1. CASE k \in NewPlaces(o)
    <3> DEFINE b == c.rule[<<k[1], o[k[2]].n>>]
    <3>1. <<k[1], o[k[2]].n>> \in DOMAIN c.rule /\ DOMAIN b = DOMAIN BlankBody
      BY <1>2, <2>1 DEF IsConf, IsRules, IsBody
    <3>2. d.rule[k] = Merge(b, RuleAt(left, k))
      BY <1>1, <2>1
    <3> HIDE DEF b, left
    <3>3. "ips" \in DOMAIN BlankBody
      BY DEF BlankBody
    <3>4. d.rule[k].ips = b.ips \/ d.rule[k].ips = RuleAt(left, k).ips
      BY <3>1, <3>2, <3>3 DEF Merge
    <3>5. CASE b.ips
      BY <3>1, <3>5 DEF b
    <3>6. CASE RuleAt(left, k).ips
      <4>1. k \in DOMAIN left
        BY <3>6 DEF RuleAt, BlankBody
      <4>2. k \in DOMAIN c.rule /\ left[k] = c.rule[k]
        BY <4>1 DEF left, Without
      <4> QED BY <3>6, <4>1, <4>2 DEF RuleAt
    <3> QED BY <1>8, <3>4, <3>5, <3>6
  <2>2. CASE k \notin NewPlaces(o)
    BY <1>1, <1>8, <2>2
  <2> QED BY <2>1, <2>2
<1>9. Keeps(c, d)
  BY <1>4, <1>6, <1>8 DEF Keeps
<1> QED BY <1>7, <1>9 DEF d

\* A setting.
LEMMA SettingKeeps ==
  ASSUME NEW c, NEW d, SettingIs(c, d)
  PROVE  Keeps(c, d) /\ (Enforced(c) /\ (\A z \in c.zones \ d.zones : ZonePairs(c, z) = {}) => Enforced(d))
<1>1. Keeps(c, d)
  BY DEF SettingIs, Keeps
<1>2. Enforced(c) /\ (\A z \in c.zones \ d.zones : ZonePairs(c, z) = {}) => Enforced(d)
  BY DEF SettingIs, Enforced
<1> QED BY <1>1, <1>2

\* Every commit made from a page that shows what runs.
LEMMA CommitKeeps ==
  ASSUME TypeOK, [Next]_vars, Committed
  PROVE  Keeps(conf, conf') /\ (Enforced(conf) /\ ZonesKept => Enforced(conf'))
<1>1. IsConf(conf)
  BY DEF TypeOK
<1>2. CASE SaveCommit
  BY <1>1, <1>2, SaveKeeps DEF SaveCommit
<1>3. CASE SettingCommit
  BY <1>1, <1>3, SettingsAre, SettingKeeps DEF ZonesKept
<1>4. CASE DeleteCommit
  BY <1>1, <1>4, DeleteKeeps DEF DeleteCommit
<1>5. CASE ReorderCommit
  BY <1>1, <1>5, ReorderKeeps DEF ReorderCommit
<1> QED BY <1>2, <1>3, <1>4, <1>5, CommitStep

\* What rules rely on comes and goes with them: no commit made from a page that
\* shows what runs leaves a pair bound without a rule or a ruleset without its
\* binding, a zone rule without the state match, an inspected one without the
\* flow rule, or a rule of the input and output chains without their baseline.
\* (Rules at 1 and 2 that stand for a baseline may go, and with them what they
\* stood for.)
THEOREM RulesStayEnforced == Spec => RulesEnforced
<1>1. ASSUME TypeOK, [Next]_vars, Committed, Enforced(conf), ZonesKept PROVE Enforced(conf')
  BY <1>1, CommitKeeps
<1>2. ASSUME TypeOK, [Next]_vars, Committed, Seeded(conf), LowKept PROVE Seeded(conf')
  BY <1>2, CommitKeeps, KeepsSeeded DEF LowKept
<1> QED BY <1>1, <1>2, TypeCorrect, PTL DEF Spec, RulesEnforced

-----------------------------------------------------------------------------
(* Copies and numbers, by their keys.                                      *)

\* The copies of a number in rulesets with a binding agree.
KeysAgree(c, F) ==
  \A k, l \in DOMAIN c.rule :
    k[2] = l[2] /\ k[1] \in c.bound /\ l[1] \in c.bound => \A f \in F : c.rule[k][f] = c.rule[l][f]
\* A number stands for one base-chain rule, or for the copies of a zone rule.
KeysUnique(c) ==
  \A k, l \in DOMAIN c.rule :
    k[2] = l[2] /\ {k[1], l[1]} \subseteq Base \cup c.bound => k[1] = l[1] \/ {k[1], l[1]} \subseteq c.bound

\* The row of a zone rule has all copies of its number.
LEMMA ZoneRow ==
  ASSUME NEW c, IsConf(c), NEW r \in Rows(c)
  PROVE  /\ r.scopes \cap c.bound # {} => r.scopes = Copies(c, r.n)
         /\ r.scopes \cap c.bound = {} => \E b \in Base : r.scopes = {b}
         /\ r = RowAt(c, r.scopes, r.n)
<1>1. c.bound \cap Base = {}
  BY PairsAssumption DEF IsConf
<1>2. /\ r = RowAt(c, r.scopes, r.n)
      /\ (\E b \in Base : r.scopes = {b}) \/ (r.scopes = Copies(c, r.n) /\ r.scopes # {})
  BY RowsAre
<1>3. Copies(c, r.n) \subseteq c.bound
  BY DEF Copies
<1> QED BY <1>1, <1>2, <1>3

\* Copies agree when the rules kept under one number agree with one another.
LEMMA AgreeIs ==
  ASSUME NEW c, IsConf(c), NEW F
  PROVE  CopiesAgreeOn(c, F) <=> KeysAgree(c, F)
<1>1. ASSUME CopiesAgreeOn(c, F), NEW k \in DOMAIN c.rule, NEW l \in DOMAIN c.rule,
             k[2] = l[2], k[1] \in c.bound, l[1] \in c.bound, NEW f \in F
      PROVE  c.rule[k][f] = c.rule[l][f]
  <2>1. PICK r \in Rows(c) : r.n = k[2] /\ k[1] \in r.scopes
    BY <1>1, RowOf
  <2>2. k = <<k[1], r.n>> /\ l = <<l[1], r.n>>
    BY <1>1, <2>1 DEF IsConf, IsRules
  <2>3. l[1] \in r.scopes
    BY <1>1, <2>1, <2>2, ZoneRow DEF Copies
  <2> QED BY <1>1, <2>1, <2>2, <2>3 DEF CopiesAgreeOn
<1>2. ASSUME KeysAgree(c, F), NEW r \in Rows(c), NEW s \in r.scopes, NEW f \in F
      PROVE  c.rule[<<s, r.n>>][f] = r.body[f]
  <2> DEFINE p == Rep(r.scopes)
             k == <<s, r.n>>
             l == <<p, r.n>>
  <2>1. p \in r.scopes /\ r.body = c.rule[l] /\ k \in DOMAIN c.rule /\ l \in DOMAIN c.rule
    BY RowTyped
  <2> HIDE DEF p
  <2>2. CASE r.scopes \cap c.bound = {}
    BY <2>1, <2>2, ZoneRow
  <2>3. CASE r.scopes \cap c.bound # {}
    <3>1. s \in c.bound /\ p \in c.bound
      BY <2>1, <2>3, ZoneRow DEF Copies
    <3>2. k[1] = s /\ l[1] = p /\ k[2] = l[2]
      OBVIOUS
    <3> QED BY <1>2, <2>1, <3>1, <3>2 DEF KeysAgree
  <2> QED BY <2>2, <2>3
<1> QED BY <1>1, <1>2 DEF CopiesAgreeOn, KeysAgree

\* Numbers are unique when no rule of a base chain shares its number.
LEMMA UniqueIs ==
  ASSUME NEW c, IsConf(c)
  PROVE  UniqueNumbers(c) <=> KeysUnique(c)
<1>0. c.bound \cap Base = {}
  BY PairsAssumption DEF IsConf
<1>1. ASSUME UniqueNumbers(c), NEW k \in DOMAIN c.rule, NEW l \in DOMAIN c.rule,
             k[2] = l[2], k[1] \in Base \cup c.bound, l[1] \in Base \cup c.bound
      PROVE  k[1] = l[1] \/ {k[1], l[1]} \subseteq c.bound
  <2>1. PICK r \in Rows(c) : r.n = k[2] /\ k[1] \in r.scopes
    BY <1>1, RowOf
  <2>2. PICK q \in Rows(c) : q.n = l[2] /\ l[1] \in q.scopes
    BY <1>1, RowOf
  <2>3. r = q
    BY <1>1, <2>1, <2>2 DEF UniqueNumbers
  <2>4. CASE r.scopes \cap c.bound = {}
    BY <2>1, <2>2, <2>3, <2>4, ZoneRow
  <2>5. CASE r.scopes \cap c.bound # {}
    <3>1. r.scopes = Copies(c, r.n)
      BY <2>5, ZoneRow
    <3> QED BY <2>1, <2>2, <2>3, <3>1 DEF Copies
  <2> QED BY <2>4, <2>5
<1>2. ASSUME KeysUnique(c), NEW r \in Rows(c), NEW q \in Rows(c), r.n = q.n
      PROVE  r = q
  <2>1. PICK s \in r.scopes : <<s, r.n>> \in DOMAIN c.rule
    BY RowTyped
  <2>2. PICK t \in q.scopes : <<t, r.n>> \in DOMAIN c.rule
    BY <1>2, RowTyped
  <2>3. s \in Base \cup c.bound /\ t \in Base \cup c.bound
    BY <2>1, <2>2, RowTyped
  <2>4. <<s, r.n>>[1] = s /\ <<s, r.n>>[2] = r.n /\ <<t, r.n>>[1] = t /\ <<t, r.n>>[2] = r.n
    OBVIOUS
  <2>5. s = t \/ {s, t} \subseteq c.bound
    BY <1>2, <2>1, <2>2, <2>3, <2>4 DEF KeysUnique
  <2>6. CASE s = t
    BY <1>2, <2>1, <2>2, <2>6, RowsApart
  <2>7. CASE {s, t} \subseteq c.bound
    <3>1. r.scopes = Copies(c, r.n) /\ q.scopes = Copies(c, q.n)
      BY <2>1, <2>2, <2>7, ZoneRow
    <3>2. r.scopes \cap q.scopes # {}
      BY <1>2, <2>1, <3>1
    <3> QED BY <1>2, <3>2, RowsApart
  <2> QED BY <2>5, <2>6, <2>7
<1>3. UniqueNumbers(c) => KeysUnique(c)
  BY <1>1 DEF KeysUnique
<1>4. KeysUnique(c) => UniqueNumbers(c)
  BY <1>2 DEF UniqueNumbers
<1> QED BY <1>3, <1>4

\* A saved rule keeps the number of the one the form was opened on, or has one
\* that no rule has.
RuleLands(c, live, u, chains) ==
  LET n == LandsAt(c, live, u, chains)
      kept == Kept(live, chains)
  IN  /\ kept = {} => \A r \in Rows(c) : r.n # n
      /\ \A l \in kept : /\ l \in live /\ l.n = n /\ kept = {l} /\ live = {l}
                         /\ IsZone(l.scopes) <=> IsZone(chains)
                         /\ ~IsZone(chains) => l.scopes = chains
                         /\ Dropped(live, chains) = l.scopes \ chains /\ DroppedAt(live, chains, n) = n

\* Where a saved rule lands: under its own number, or under one no rule has.
LEMMA LandsWhere ==
  ASSUME NEW c, IsConf(c), NEW live \in SUBSET Rows(c), NEW u, IsEntry(live, u), TakesFresh(c, live, u), NEW chains
  PROVE  RuleLands(c, live, u, chains)
<1> DEFINE n == LandsAt(c, live, u, chains)
           kept == Kept(live, chains)
<1>1. \A r \in Rows(c) : r.n # NextRuleNumber(Rows(c))
  <2>1. \A r \in Rows(c) : r.n \in Nat /\ r.n < NextRuleNumber(Rows(c))
    BY FreshNumber, RowTyped DEF IsRow
  <2> QED BY <2>1, FreshNumber
<1>2. ASSUME kept = {} PROVE \A r \in Rows(c) : r.n # n
  <2>1. Rebuilt(live, chains) \/ live = {}
    BY <1>2 DEF Kept
  <2>2. n = NextRuleNumber(Rows(c))
    BY <2>1 DEF LandsAt, TakesFresh, Rebuilt
  <2> QED BY <1>1, <2>2
<1>3. ASSUME NEW l \in kept
      PROVE  /\ l \in live /\ l.n = n /\ kept = {l} /\ live = {l}
             /\ IsZone(l.scopes) <=> IsZone(chains)
             /\ ~IsZone(chains) => l.scopes = chains
             /\ Dropped(live, chains) = l.scopes \ chains /\ DroppedAt(live, chains, n) = n
  <2>1. ~Rebuilt(live, chains) /\ kept = live /\ l \in live
    BY <1>3 DEF Kept
  <2>2. live = {l} /\ u.n = l.n
    BY <2>1 DEF IsEntry
  <2>3. l.n = n /\ DroppedAt(live, chains, n) = n
    BY <2>1, <2>2 DEF LandsAt, DroppedAt
  <2>4. Dropped(live, chains) = l.scopes \ chains
    BY <2>1, <2>2 DEF Dropped
  <2>5. IsZone(l.scopes) = IsZone(chains) /\ (~IsZone(chains) => l.scopes = chains)
    BY <2>1 DEF Rebuilt, IsZone
  <2> HIDE DEF n, kept
  <2> QED BY <2>1, <2>2, <2>3, <2>4, <2>5
<1> QED BY <1>2, <1>3 DEF RuleLands

\* The configuration after a save: `chains` are the scopes the rule is in, `n`
\* its number there, `kept` the row it had where it stays.
SavedAs(c, live, u, d, chains, n, kept) ==
  /\ chains = RuleChainsFor(c.zones, u.sel) /\ n = LandsAt(c, live, u, chains) /\ kept = Kept(live, chains)
  /\ \A s \in chains : <<s, n>> \in DOMAIN d.rule
  /\ \A k \in DOMAIN d.rule :
       \/ k[2] = n /\ k[1] \in chains
       \/ /\ k \in DOMAIN c.rule /\ d.rule[k] = c.rule[k] /\ ~(k[2] = n /\ k[1] \in chains)
          /\ \A l \in live : ~(k[2] = l.n /\ k[1] \in l.scopes)
          /\ k[1] \in Base \cup d.bound => k[1] \in Base \cup c.bound
  /\ d.bound \subseteq c.bound \cup chains /\ (IsZone(chains) => chains \subseteq d.bound)
  /\ \A k \in DOMAIN c.rule :
       k[1] \in Base \cup c.bound /\ k \notin DOMAIN d.rule => \E l \in live : k[2] = l.n /\ k[1] \in l.scopes

\* A save touches the rule's number, and what it leaves, and nothing else.
LEMMA SavedWhere ==
  ASSUME NEW c, IsConf(c), Enforced(c), NEW live \in SUBSET Rows(c), NEW svc,
         NEW u, IsEntry(live, u), TakesFresh(c, live, u)
  PROVE  LET chains == RuleChainsFor(c.zones, u.sel)
         IN  SavedAs(c, live, u, ApplyRule(c, c, live, svc, u), chains, LandsAt(c, live, u, chains), Kept(live, chains))
<1> DEFINE chains == RuleChainsFor(c.zones, u.sel)
           n == LandsAt(c, live, u, chains)
           kept == Kept(live, chains)
           S == Dropped(live, chains)
           old == DroppedAt(live, chains, n)
           gone == DropCopies(c, c, S, old)
           E == EmptyPairs(c, S, old)
           d == ApplyRule(c, c, live, svc, u)
           e == DiffRule(c, c, live, u)
<1>1. /\ DOMAIN e.rule = DOMAIN gone.rule \cup (chains \X {n})
      /\ \A k \in DOMAIN gone.rule : k \notin chains \X {n} => e.rule[k] = c.rule[k]
      /\ e.bound = IF IsZone(chains) THEN (c.bound \cap gone.bound) \cup chains ELSE gone.bound
  <2>1. RuleSaved(c, live, u)
    BY DiffRuleIs
  <2> QED BY <2>1, Zenon DEF RuleSaved
<1>2. d.rule = e.rule /\ d.bound = e.bound
  BY ApplyRuleIs DEF ConfFields
<1>3. /\ gone.bound = c.bound \ E
      /\ DOMAIN gone.rule = {k \in DOMAIN c.rule : k \notin S \X {old} /\ k[1] \notin E}
  BY DropIs
<1>4. /\ kept = {} => \A r \in Rows(c) : r.n # n
      /\ \A l \in kept : /\ l \in live /\ l.n = n /\ kept = {l} /\ live = {l}
                         /\ IsZone(l.scopes) <=> IsZone(chains)
                         /\ ~IsZone(chains) => l.scopes = chains
                         /\ S = l.scopes \ chains /\ old = n
  <2>1. RuleLands(c, live, u, chains)
    BY LandsWhere
  <2> QED BY <2>1, Zenon DEF RuleLands
<1>5. ASSUME NEW l \in live, kept = {} PROVE S = l.scopes /\ old = l.n
  <2>1. live = {l} /\ Rebuilt(live, chains)
    BY <1>5 DEF Kept, IsEntry
  <2> QED BY <2>1 DEF Dropped, DroppedAt
<1>6. live = {} => S = {}
  BY DEF Dropped
<1>7. \A k \in DOMAIN c.rule : k = <<k[1], k[2]>>
  BY DEF IsConf, IsRules
<1>8. \A p \in c.bound : p \in E <=> p \in S /\ \A k \in DOMAIN c.rule : k[1] = p => k[2] = old
  BY EmptyPairsAre
<1>9. E \subseteq S \cap c.bound
  BY DEF EmptyPairs
<1>10. chains \subseteq DOMAIN Pairs \/ \E b \in Base : chains = {b}
  BY ChainsAre
<1>11. \A r \in live : \A s \in r.scopes : s \in Base \cup c.bound
  BY RowTyped
<1>12. c.bound \subseteq DOMAIN Pairs /\ Base \cap DOMAIN Pairs = {}
  BY PairsAssumption DEF IsConf
<1> HIDE DEF e, gone, S, old, E, chains, n, kept
<1>13. \A s \in chains : <<s, n>> \in DOMAIN d.rule
  BY <1>1, <1>2
<1>14. d.bound \subseteq c.bound \cup chains /\ (IsZone(chains) => chains \subseteq d.bound)
  BY <1>1, <1>2, <1>3
<1> HIDE DEF d
<1>15. ASSUME NEW l \in live PROVE \A k \in DOMAIN c.rule : k[2] = l.n /\ k[1] \in l.scopes /\ ~(k[2] = n /\ k[1] \in chains) => k \notin DOMAIN gone.rule
  <2> SUFFICES ASSUME NEW k \in DOMAIN c.rule, k[2] = l.n, k[1] \in l.scopes, ~(k[2] = n /\ k[1] \in chains)
               PROVE  k \in S \X {old}
    BY <1>3
  <2>1. CASE kept = {}
    BY <1>5, <1>7, <2>1
  <2>2. CASE kept # {}
    <3>1. PICK m \in kept : TRUE
      BY <2>2
    <3>2. m = l
      BY <1>4, <1>15
    <3> QED BY <1>4, <1>7, <3>1, <3>2
  <2> QED BY <2>1, <2>2
<1>16. ASSUME NEW k \in DOMAIN d.rule, ~(k[2] = n /\ k[1] \in chains)
       PROVE  /\ k \in DOMAIN c.rule /\ d.rule[k] = c.rule[k]
              /\ \A l \in live : ~(k[2] = l.n /\ k[1] \in l.scopes)
              /\ k[1] \in Base \cup d.bound => k[1] \in Base \cup c.bound
  <2>1. k \notin chains \X {n} /\ k \in DOMAIN gone.rule
    BY <1>1, <1>2, <1>16
  <2>2. k \in DOMAIN c.rule /\ d.rule[k] = c.rule[k]
    BY <1>1, <1>2, <1>3, <2>1
  <2>3. k[1] \in d.bound => k[1] \in Base \cup c.bound
    <3>1. CASE k[1] \in DOMAIN Pairs
      BY <2>2, <3>1 DEF Enforced
    <3>2. CASE k[1] \notin DOMAIN Pairs
      BY <1>10, <1>12, <1>14, <3>2
    <3> QED BY <3>1, <3>2
  <2> QED BY <1>15, <1>16, <2>1, <2>2, <2>3
<1>17. ASSUME NEW k \in DOMAIN c.rule, k[1] \in Base \cup c.bound, k \notin DOMAIN d.rule
       PROVE  \E l \in live : k[2] = l.n /\ k[1] \in l.scopes
  <2>1. k \in S \X {old} \/ k[1] \in E
    BY <1>1, <1>2, <1>3, <1>17
  <2>2. k[1] \in S /\ k[2] = old
    BY <1>7, <1>8, <1>9, <2>1
  <2>3. live # {}
    BY <1>6, <2>2
  <2>4. PICK l \in live : TRUE
    BY <2>3
  <2>5. S \subseteq l.scopes /\ old = l.n
    <3>1. CASE kept = {}
      BY <1>5, <3>1
    <3>2. CASE kept # {}
      BY <1>4, <3>2, <2>4
    <3> QED BY <3>1, <3>2
  <2> QED BY <2>2, <2>5
<1>18. chains = RuleChainsFor(c.zones, u.sel) /\ n = LandsAt(c, live, u, chains) /\ kept = Kept(live, chains)
  BY DEF chains, n, kept
<1>19. SavedAs(c, live, u, d, chains, n, kept)
  BY <1>13, <1>14, <1>16, <1>17, <1>18 DEF SavedAs
<1> QED BY <1>19 DEF d, chains, n, kept

\* A scope with the number of a saved rule: the rule is in it, or it is in no
\* row that the rule could be taken for.
LEMMA SameRow ==
  ASSUME NEW c, IsConf(c), NEW live \in SUBSET Rows(c), NEW u, IsEntry(live, u), TakesFresh(c, live, u),
         NEW chains, NEW k \in DOMAIN c.rule, k[1] \in Base \cup c.bound, k[2] = LandsAt(c, live, u, chains),
         UniqueNumbers(c) \/ (IsZone(chains) /\ k[1] \in c.bound) \/ k[1] \in chains
  PROVE  \E l \in Kept(live, chains) : k[1] \in l.scopes
<1> DEFINE n == LandsAt(c, live, u, chains)
           kept == Kept(live, chains)
<1>1. /\ kept = {} => \A r \in Rows(c) : r.n # n
      /\ \A l \in kept : /\ l \in live /\ l.n = n /\ kept = {l} /\ live = {l}
                         /\ IsZone(l.scopes) <=> IsZone(chains)
                         /\ ~IsZone(chains) => l.scopes = chains
                         /\ Dropped(live, chains) = l.scopes \ chains /\ DroppedAt(live, chains, n) = n
  <2>1. RuleLands(c, live, u, chains)
    BY LandsWhere
  <2> QED BY <2>1, Zenon DEF RuleLands
<1>2. k[2] = n
  OBVIOUS
<1> HIDE DEF n, kept
<1>3. PICK r \in Rows(c) : r.n = n /\ k[1] \in r.scopes
  BY <1>2, RowOf
<1>4. PICK l \in kept : TRUE
  BY <1>1, <1>3
<1>5. l \in Rows(c) /\ l.n = n
  BY <1>1, <1>4
<1>6. CASE UniqueNumbers(c)
  BY <1>3, <1>4, <1>5, <1>6 DEF UniqueNumbers, kept
<1>7. CASE IsZone(chains) /\ k[1] \in c.bound
  <2>1. l.scopes \cap Base = {}
    BY <1>1, <1>4, <1>7 DEF IsZone
  <2>2. l.scopes = Copies(c, n)
    BY <1>5, <2>1, ZoneRow
  <2>3. r.scopes = Copies(c, n)
    BY <1>3, <1>7, ZoneRow
  <2> QED BY <1>3, <1>4, <2>2, <2>3 DEF kept
<1>8. CASE k[1] \in chains /\ ~IsZone(chains)
  BY <1>1, <1>4, <1>8 DEF kept
<1>9. IsZone(chains) /\ k[1] \in chains => k[1] \in c.bound
  BY DEF IsZone
<1> QED BY <1>6, <1>7, <1>8, <1>9

\* Every copy is written as the form asks.
WrittenAlike(c, live, svc, u, F) ==
  LET chains == RuleChainsFor(c.zones, u.sel)
      n == LandsAt(c, live, u, chains)
      want == Wanted(c, u, RuleGroup(c, Kept(live, chains), n, u.many))
      d == ApplyRule(c, c, live, svc, u)
  IN  \A s \in chains : \A f \in F : d.rule[<<s, n>>][f] = want[f]

\* Every scope of a saved rule gets the same leaves.
LEMMA SavedLeaves ==
  ASSUME NEW c, IsConf(c), Enforced(c), NEW live \in SUBSET Rows(c), NEW svc,
         NEW u, IsEntry(live, u), TakesFresh(c, live, u), NEW F, F \subseteq SharedFields, KeysAgree(c, F)
  PROVE  WrittenAlike(c, live, svc, u, F)
<1> DEFINE chains == RuleChainsFor(c.zones, u.sel)
           n == LandsAt(c, live, u, chains)
           kept == Kept(live, chains)
           group == RuleGroup(c, kept, n, u.many)
           want == Wanted(c, u, group)
           d == ApplyRule(c, c, live, svc, u)
           e == DiffRule(c, c, live, u)
<1> SUFFICES ASSUME NEW s \in chains, NEW f \in F PROVE d.rule[<<s, n>>][f] = want[f]
  BY DEF WrittenAlike
<1>1. \A t \in chains : e.rule[<<t, n>>] = Over(Changes(want, Was(kept, t)), RuleAt(c.rule, <<t, n>>))
  <2>1. RuleSaved(c, live, u)
    BY DiffRuleIs
  <2> QED BY <2>1, Zenon DEF RuleSaved
<1>2. d.rule = e.rule
  BY ApplyRuleIs DEF ConfFields
<1>3. chains \subseteq DOMAIN Pairs \/ \E b \in Base : chains = {b}
  BY ChainsAre
<1>4. \A l \in kept : l \in Rows(c) /\ l.n = n /\ kept = {l}
  <2>1. RuleLands(c, live, u, chains)
    BY LandsWhere
  <2> QED BY <2>1 DEF RuleLands
<1> DEFINE k == <<s, n>>
           b == RuleAt(c.rule, k)
<1>5. k \in DOMAIN c.rule => \E l \in kept : s \in l.scopes
  <2> SUFFICES ASSUME k \in DOMAIN c.rule PROVE \E l \in kept : s \in l.scopes
    OBVIOUS
  <2>1. k[1] = s /\ k[2] = n
    OBVIOUS
  <2>2. s \in Base \cup c.bound
    BY <1>3, <2>1 DEF Enforced
  <2> HIDE DEF k, chains, kept, n
  <2>3. \E l \in Kept(live, chains) : k[1] \in l.scopes
    BY <2>1, <2>2, SameRow DEF n
  <2> QED BY <2>1, <2>3 DEF kept
<1>6. b[f] = Was(kept, s)[f]
  <2>1. CASE \E l \in kept : s \in l.scopes
    <3>1. PICK l \in kept : s \in l.scopes
      BY <2>1
    <3>2. Was(kept, s) = l.body
      BY <1>4, <3>1 DEF Was
    <3>3. l \in Rows(c) /\ k = <<s, l.n>> /\ k \in DOMAIN c.rule
      BY <1>4, <3>1, RowTyped
    <3>4. CopiesAgreeOn(c, F)
      BY AgreeIs
    <3>5. c.rule[k][f] = l.body[f]
      BY <3>1, <3>3, <3>4 DEF CopiesAgreeOn
    <3> QED BY <3>2, <3>3, <3>5 DEF RuleAt
  <2>2. CASE ~\E l \in kept : s \in l.scopes
    BY <1>5, <2>2 DEF Was, RuleAt
  <2> QED BY <2>1, <2>2
<1>7. IsBody(b) /\ f \in DOMAIN BlankBody /\ f # "raw"
  BY RuleAtTyped DEF IsConf, SharedFields
<1> HIDE DEF b, d, e, kept, group, n, chains
<1>8. Over(Changes(want, Was(kept, s)), b)[f] = IF f # "raw" /\ want[f] # Was(kept, s)[f] THEN want[f] ELSE b[f]
  BY <1>7, SavedLeaf
<1> QED BY <1>1, <1>2, <1>6, <1>7, <1>8 DEF b

\* Where a saved rule's number is, the rule is.
LEMMA SavedPlace ==
  ASSUME NEW c, IsConf(c), NEW live \in SUBSET Rows(c), NEW u, IsEntry(live, u), TakesFresh(c, live, u),
         NEW d, NEW chains, NEW n, NEW kept, SavedAs(c, live, u, d, chains, n, kept),
         NEW k \in DOMAIN d.rule, k[2] = n, k[1] \in Base \cup d.bound,
         UniqueNumbers(c) \/ (IsZone(chains) /\ k[1] \notin Base)
  PROVE  k[1] \in chains
<1> SUFFICES ASSUME k[1] \notin chains PROVE FALSE
  OBVIOUS
<1>1. /\ k \in DOMAIN c.rule /\ k[1] \in Base \cup c.bound
      /\ \A l \in live : ~(k[2] = l.n /\ k[1] \in l.scopes)
      /\ n = LandsAt(c, live, u, chains)
  BY DEF SavedAs
<1>2. PICK l \in Kept(live, chains) : k[1] \in l.scopes
  BY <1>1, SameRow
<1>3. l \in live /\ l.n = n
  <2>1. RuleLands(c, live, u, chains)
    BY LandsWhere
  <2> QED BY <1>1, <2>1 DEF RuleLands
<1> QED BY <1>1, <1>2, <1>3

\* A save leaves the copies of each rule alike.
LEMMA SaveAgrees ==
  ASSUME NEW c, IsConf(c), Enforced(c), NEW live \in SUBSET Rows(c), NEW svc,
         NEW u, IsEntry(live, u), TakesFresh(c, live, u), NEW F, F \subseteq SharedFields, KeysAgree(c, F)
  PROVE  KeysAgree(ApplyRule(c, c, live, svc, u), F)
<1> DEFINE chains == RuleChainsFor(c.zones, u.sel)
           n == LandsAt(c, live, u, chains)
           kept == Kept(live, chains)
           want == Wanted(c, u, RuleGroup(c, kept, n, u.many))
           d == ApplyRule(c, c, live, svc, u)
<1>1. SavedAs(c, live, u, d, chains, n, kept)
  BY SavedWhere
<1>2. \A s \in chains : \A f \in F : d.rule[<<s, n>>][f] = want[f]
  <2>1. WrittenAlike(c, live, svc, u, F)
    BY SavedLeaves
  <2> QED BY <2>1, Zenon DEF WrittenAlike
<1>3. IsConf(d)
  BY ApplyRuleTyped
<1> HIDE DEF chains, n, kept, want, d
<1>4. \A k \in DOMAIN d.rule : k = <<k[1], k[2]>>
  BY <1>3 DEF IsConf, IsRules
<1>5. d.bound \cap Base = {}
  BY <1>3, PairsAssumption DEF IsConf
<1>6. chains \subseteq DOMAIN Pairs \/ \E b \in Base : chains = {b}
  BY ChainsAre DEF chains
<1>7. ASSUME NEW k \in DOMAIN d.rule, NEW l \in DOMAIN d.rule, k[2] = l[2], k[1] \in d.bound, l[1] \in d.bound,
             k[1] \in chains, k[2] = n
      PROVE  l[1] \in chains
  <2>1. IsZone(chains)
    BY <1>5, <1>6, <1>7, PairsAssumption DEF IsZone
  <2>2. l[2] = n /\ l[1] \in Base \cup d.bound /\ l[1] \notin Base
    BY <1>5, <1>7
  <2> QED BY <1>1, <1>7, <2>1, <2>2, SavedPlace
<1>8. ASSUME NEW k \in DOMAIN d.rule, NEW l \in DOMAIN d.rule, k[2] = l[2], k[1] \in d.bound, l[1] \in d.bound, NEW f \in F
      PROVE  d.rule[k][f] = d.rule[l][f]
  <2>1. CASE k[2] = n /\ (k[1] \in chains \/ l[1] \in chains)
    <3>1. k[1] \in chains /\ l[1] \in chains
      BY <1>7, <1>8, <2>1
    <3>2. k = <<k[1], n>> /\ l = <<l[1], n>>
      BY <1>4, <1>8, <2>1
    <3>3. d.rule[<<k[1], n>>][f] = want[f] /\ d.rule[<<l[1], n>>][f] = want[f]
      BY <1>2, <1>8, <3>1
    <3> QED BY <3>2, <3>3
  <2>2. CASE ~(k[2] = n /\ (k[1] \in chains \/ l[1] \in chains))
    <3>1. /\ k \in DOMAIN c.rule /\ d.rule[k] = c.rule[k] /\ k[1] \in Base \cup c.bound
          /\ l \in DOMAIN c.rule /\ d.rule[l] = c.rule[l] /\ l[1] \in Base \cup c.bound
      BY <1>1, <1>8, <2>2 DEF SavedAs
    <3>2. k[1] \in c.bound /\ l[1] \in c.bound
      BY <1>5, <1>8, <3>1
    <3> QED BY <1>8, <3>1, <3>2 DEF KeysAgree
  <2> QED BY <2>1, <2>2
<1> QED BY <1>8 DEF KeysAgree, d

\* A save leaves numbers unique.
LEMMA SaveUnique ==
  ASSUME NEW c, IsConf(c), Enforced(c), NEW live \in SUBSET Rows(c), NEW svc,
         NEW u, IsEntry(live, u), TakesFresh(c, live, u), UniqueNumbers(c)
  PROVE  KeysUnique(ApplyRule(c, c, live, svc, u))
<1> DEFINE chains == RuleChainsFor(c.zones, u.sel)
           n == LandsAt(c, live, u, chains)
           kept == Kept(live, chains)
           d == ApplyRule(c, c, live, svc, u)
<1>1. SavedAs(c, live, u, d, chains, n, kept)
  BY SavedWhere
<1>2. IsConf(d)
  BY ApplyRuleTyped
<1>3. KeysUnique(c)
  BY UniqueIs
<1> HIDE DEF chains, n, kept, d
<1>4. d.bound \cap Base = {} /\ c.bound \cap Base = {}
  BY <1>2, PairsAssumption DEF IsConf
<1>5. chains \subseteq DOMAIN Pairs \/ \E b \in Base : chains = {b}
  BY ChainsAre DEF chains
<1>6. ASSUME NEW k \in DOMAIN d.rule, NEW l \in DOMAIN d.rule, k[2] = l[2], k[1] \in Base \cup d.bound, l[1] \in Base \cup d.bound
      PROVE  k[1] = l[1] \/ {k[1], l[1]} \subseteq d.bound
  <2>1. CASE k[2] = n
    <3>1. k[1] \in chains /\ l[1] \in chains
      BY <1>1, <1>6, <2>1, SavedPlace
    <3>2. CASE chains \subseteq DOMAIN Pairs
      BY <1>6, <3>1, <3>2, PairsAssumption
    <3>3. CASE \E b \in Base : chains = {b}
      BY <3>1, <3>3
    <3> QED BY <1>5, <3>2, <3>3
  <2>2. CASE k[2] # n
    <3>1. /\ k \in DOMAIN c.rule /\ k[1] \in Base \cup c.bound
          /\ l \in DOMAIN c.rule /\ l[1] \in Base \cup c.bound
      BY <1>1, <1>6, <2>2 DEF SavedAs
    <3> QED BY <1>3, <1>4, <1>6, <3>1 DEF KeysUnique
  <2> QED BY <2>1, <2>2
<1> QED BY <1>6 DEF KeysUnique, d

\* Deleting takes copies away, and pairs.
LEMMA Fewer ==
  ASSUME NEW c, IsConf(c), NEW d, DOMAIN d.rule \subseteq DOMAIN c.rule, d.bound \subseteq c.bound
  PROVE  /\ KeysUnique(c) => KeysUnique(d)
         /\ \A F : KeysAgree(c, F) /\ (\A k \in DOMAIN d.rule : \A f \in F : d.rule[k][f] = c.rule[k][f]) => KeysAgree(d, F)
<1>1. c.bound \cap Base = {}
  BY PairsAssumption DEF IsConf
<1>2. KeysUnique(c) => KeysUnique(d)
  BY <1>1 DEF KeysUnique
<1>3. ASSUME NEW F, KeysAgree(c, F), \A k \in DOMAIN d.rule : \A f \in F : d.rule[k][f] = c.rule[k][f]
      PROVE  KeysAgree(d, F)
  BY <1>3 DEF KeysAgree
<1> QED BY <1>2, <1>3

\* Deleting a rule leaves the others distinct and their copies alike,
LEMMA DeleteStays ==
  ASSUME NEW c, IsConf(c), NEW r, NEW geoRead
  PROVE  LET d == DeleteRule(c, c, r, geoRead)
         IN (KeysUnique(c) => KeysUnique(d)) /\ \A F : KeysAgree(c, F) => KeysAgree(d, F)
<1> DEFINE d == DeleteRule(c, c, r, geoRead)
           e == DropCopies(c, c, r.scopes, r.n)
<1>1. d.rule = e.rule /\ d.bound = e.bound
  BY DeleteIs
<1>2. e.bound \subseteq c.bound /\ DOMAIN e.rule \subseteq DOMAIN c.rule /\ \A k \in DOMAIN e.rule : e.rule[k] = c.rule[k]
  BY DropIs
<1> HIDE DEF d, e
<1>3. /\ KeysUnique(c) => KeysUnique(d)
      /\ \A F : KeysAgree(c, F) /\ (\A k \in DOMAIN d.rule : \A f \in F : d.rule[k][f] = c.rule[k][f]) => KeysAgree(d, F)
  BY <1>1, <1>2, Fewer
<1> QED BY <1>1, <1>2, <1>3 DEF d

\* and so does a setting.
LEMMA SettingStays ==
  ASSUME NEW c, IsConf(c), NEW d, SettingIs(c, d)
  PROVE  (KeysUnique(c) => KeysUnique(d)) /\ \A F : F \subseteq SharedFields /\ KeysAgree(c, F) => KeysAgree(d, F)
<1>1. DOMAIN d.rule \subseteq DOMAIN c.rule /\ d.bound \subseteq c.bound
  BY DEF SettingIs
<1>2. KeysUnique(c) => KeysUnique(d)
  BY <1>1, Fewer
<1>3. ASSUME NEW F, F \subseteq SharedFields, KeysAgree(c, F),
             NEW k \in DOMAIN d.rule, NEW l \in DOMAIN d.rule, k[2] = l[2], k[1] \in d.bound, l[1] \in d.bound, NEW f \in F
      PROVE  d.rule[k][f] = d.rule[l][f]
  <2>1. c.rule[k][f] = c.rule[l][f] /\ k[1] \in c.bound /\ l[1] \in c.bound
    BY <1>1, <1>3 DEF KeysAgree
  <2>2. CASE f \in {"ips", "action"}
    BY <1>3, <2>1, <2>2 DEF SettingIs
  <2>3. CASE f \notin {"ips", "action"}
    <3>1. f \in FormFields
      BY <1>3, <2>3 DEF FormFields
    <3> QED BY <2>1, <3>1 DEF SettingIs
  <2> QED BY <2>2, <2>3
<1> QED BY <1>2, <1>3 DEF KeysAgree

\* Building a rule anew from a place that holds none gives the rule.
LEMMA MergeBlank ==
  ASSUME NEW b, IsBody(b)
  PROVE  Merge(b, BlankBody) = b
<1>1. DOMAIN b = DOMAIN BlankBody /\ b = [f \in DOMAIN b |-> b[f]]
  BY DEF IsBody
<1>2. \A f \in DOMAIN b : (IF b[f] = BlankBody[f] THEN BlankBody[f] ELSE b[f]) = b[f]
  OBVIOUS
<1> QED BY <1>1, <1>2 DEF Merge

\* After a reorder each row is whole at its position, and nothing else is in
\* sight.
AtPositions(c, o, d) ==
  /\ \A i \in DOMAIN o : \A s \in o[i].scopes : <<s, i>> \in DOMAIN d.rule /\ d.rule[<<s, i>>] = c.rule[<<s, o[i].n>>]
  /\ \A k \in DOMAIN d.rule : k[1] \in Base \cup c.bound => k[2] \in DOMAIN o /\ k[1] \in o[k[2]].scopes
  /\ d.bound = c.bound

\* After a reorder each position holds the rule that was put there, as it was.
LEMMA ReorderWhere ==
  ASSUME NEW c, IsConf(c), NEW o \in Arrangements(Rows(c)), NEW geoRead
  PROVE  AtPositions(c, o, Reordered(c, c, o, geoRead))
<1> DEFINE d == Reordered(c, c, o, geoRead)
           left == Without(c.rule, OldPlaces(o))
<1>1. /\ DOMAIN d.rule = (DOMAIN c.rule \ OldPlaces(o)) \cup NewPlaces(o)
      /\ \A k \in NewPlaces(o) : d.rule[k] = Merge(c.rule[<<k[1], o[k[2]].n>>], RuleAt(left, k))
      /\ \A k \in DOMAIN c.rule \ (OldPlaces(o) \cup NewPlaces(o)) : d.rule[k] = c.rule[k]
      /\ \A f \in ConfFields \ {"rule", "geo"} : d[f] = c[f]
  <2>1. RowsMoved(c, o, geoRead)
    BY ReorderedIs
  <2> QED BY <2>1, Zenon DEF RowsMoved
<1> HIDE DEF d
<1>2. /\ \A i \in DOMAIN o : o[i] \in Rows(c)
      /\ \A i, j \in DOMAIN o : o[i] = o[j] => i = j
      /\ \A r \in Rows(c) : \E i \in DOMAIN o : o[i] = r
  BY ArrangementTyped
<1>3. \A k \in NewPlaces(o) : /\ k = <<k[1], k[2]>> /\ k[2] \in Moved(o) /\ k[1] \in o[k[2]].scopes
                              /\ <<k[1], o[k[2]].n>> \in DOMAIN c.rule
  BY PlacesTyped
<1>4. \A i \in DOMAIN o : \A s \in o[i].scopes : <<s, o[i].n>> \in DOMAIN c.rule /\ s \in Base \cup c.bound
  BY <1>2, RowTyped
<1>5. \A i \in Moved(o) : i \in DOMAIN o /\ o[i].n # i
  BY DEF Moved
<1>6. \A i \in DOMAIN o \ Moved(o) : o[i].n = i
  BY DEF Moved
<1>7. ASSUME NEW k \in DOMAIN c.rule, k[1] \in Base \cup c.bound
      PROVE  \E j \in DOMAIN o : o[j].n = k[2] /\ k[1] \in o[j].scopes
  <2>1. PICK r \in Rows(c) : r.n = k[2] /\ k[1] \in r.scopes
    BY <1>7, RowOf
  <2> QED BY <1>2, <2>1
<1>8. ASSUME NEW k \in DOMAIN c.rule, k[1] \in Base \cup c.bound, k \notin OldPlaces(o)
      PROVE  k[2] \in DOMAIN o \ Moved(o) /\ k[1] \in o[k[2]].scopes
  <2>1. PICK j \in DOMAIN o : o[j].n = k[2] /\ k[1] \in o[j].scopes
    BY <1>7, <1>8
  <2>2. j \notin Moved(o)
    <3> SUFFICES ASSUME j \in Moved(o) PROVE FALSE
      OBVIOUS
    <3>1. k = <<k[1], k[2]>>
      BY DEF IsConf, IsRules
    <3>2. k \in o[j].scopes \X {o[j].n}
      BY <2>1, <3>1
    <3> QED BY <1>8, <3>2 DEF OldPlaces
  <2> QED BY <1>6, <2>1, <2>2
<1>9. ASSUME NEW i \in DOMAIN o, NEW s \in o[i].scopes
      PROVE  <<s, i>> \in DOMAIN d.rule /\ d.rule[<<s, i>>] = c.rule[<<s, o[i].n>>]
  <2> DEFINE k == <<s, i>>
  <2>1. k[1] = s /\ k[2] = i
    OBVIOUS
  <2>2. CASE i \in Moved(o)
    <3>1. k \in NewPlaces(o)
      BY <1>9, <2>2 DEF NewPlaces
    <3>2. k \notin DOMAIN left
      <4> SUFFICES ASSUME k \in DOMAIN c.rule, k \notin OldPlaces(o) PROVE FALSE
        BY DEF Without
      <4>1. k[1] \in Base \cup c.bound
        BY <1>4, <1>9, <2>1
      <4> HIDE DEF k
      <4>2. k[2] \notin Moved(o)
        BY <1>8, <4>1
      <4> QED BY <2>1, <2>2, <4>2
    <3> DEFINE b == c.rule[<<s, o[i].n>>]
    <3>3. IsBody(b)
      BY <1>4, <1>9 DEF IsConf, IsRules
    <3>4. d.rule[k] = Merge(b, RuleAt(left, k))
      BY <1>1, <2>1, <3>1
    <3>5. RuleAt(left, k) = BlankBody
      BY <3>2 DEF RuleAt
    <3> HIDE DEF b, left, k
    <3>6. d.rule[k] = b
      BY <3>3, <3>4, <3>5, MergeBlank
    <3> QED BY <1>1, <3>1, <3>6 DEF b, k
  <2>3. CASE i \notin Moved(o)
    <3>1. o[i].n = i /\ k \in DOMAIN c.rule
      BY <1>4, <1>6, <1>9, <2>3
    <3>2. k \notin NewPlaces(o)
      BY <1>3, <2>1, <2>3
    <3>3. k \notin OldPlaces(o)
      <4> SUFFICES ASSUME k \in OldPlaces(o) PROVE FALSE
        OBVIOUS
      <4>1. PICK j \in Moved(o) : k \in o[j].scopes \X {o[j].n}
        BY DEF OldPlaces
      <4>2. j \in DOMAIN o /\ o[j].n = o[i].n /\ s \in o[j].scopes
        BY <1>5, <2>1, <3>1, <4>1
      <4>3. o[i] = o[j]
        BY <1>2, <1>9, <4>2, RowsApart
      <4>4. i = j
        BY <1>2, <4>2, <4>3
      <4> QED BY <2>3, <4>1, <4>4
    <3> QED BY <1>1, <3>1, <3>2, <3>3
  <2> QED BY <2>2, <2>3
<1>10. ASSUME NEW k \in DOMAIN d.rule, k[1] \in Base \cup c.bound PROVE k[2] \in DOMAIN o /\ k[1] \in o[k[2]].scopes
  <2>1. CASE k \in NewPlaces(o)
    BY <1>3, <1>5, <2>1
  <2>2. CASE k \notin NewPlaces(o)
    BY <1>1, <1>8, <1>10, <2>2
  <2> QED BY <2>1, <2>2
<1>11. d.bound = c.bound
  BY <1>1 DEF ConfFields
<1> QED BY <1>9, <1>10, <1>11 DEF AtPositions, d

\* A reorder leaves numbers unique and the copies of each rule alike.
LEMMA ReorderStays ==
  ASSUME NEW c, IsConf(c), NEW o \in Arrangements(Rows(c)), NEW d, AtPositions(c, o, d), IsConf(d)
  PROVE  KeysUnique(d) /\ \A F : KeysAgree(c, F) => KeysAgree(d, F)
<1>1. \A i \in DOMAIN o : o[i] \in Rows(c)
  BY ArrangementTyped
<1>2. \A i \in DOMAIN o : o[i].scopes \subseteq c.bound \/ \E b \in Base : o[i].scopes = {b}
  <2> SUFFICES ASSUME NEW i \in DOMAIN o PROVE o[i].scopes \subseteq c.bound \/ \E b \in Base : o[i].scopes = {b}
    OBVIOUS
  <2> DEFINE r == o[i]
  <2>1. r \in Rows(c)
    BY <1>1
  <2> HIDE DEF r
  <2>2. r.scopes = Copies(c, r.n) \/ \E b \in Base : r.scopes = {b}
    BY <2>1, ZoneRow
  <2>3. r.scopes \subseteq c.bound \/ \E b \in Base : r.scopes = {b}
    BY <2>2 DEF Copies
  <2> QED BY <2>3 DEF r
<1>3. KeysUnique(d)
  <2> SUFFICES ASSUME NEW k \in DOMAIN d.rule, NEW l \in DOMAIN d.rule, k[2] = l[2], k[1] \in Base \cup d.bound, l[1] \in Base \cup d.bound
               PROVE  k[1] = l[1] \/ {k[1], l[1]} \subseteq d.bound
    BY DEF KeysUnique
  <2>1. k[2] \in DOMAIN o /\ k[1] \in o[k[2]].scopes /\ l[1] \in o[k[2]].scopes /\ d.bound = c.bound
    BY DEF AtPositions
  <2> QED BY <1>2, <2>1
<1>4. ASSUME NEW F, KeysAgree(c, F), NEW k \in DOMAIN d.rule, NEW l \in DOMAIN d.rule, k[2] = l[2], k[1] \in d.bound, l[1] \in d.bound, NEW f \in F
      PROVE  d.rule[k][f] = d.rule[l][f]
  <2>1. k[2] \in DOMAIN o /\ k[1] \in o[k[2]].scopes /\ l[1] \in o[k[2]].scopes /\ d.bound = c.bound
    BY <1>4 DEF AtPositions
  <2> DEFINE i == k[2]
             x == <<k[1], o[i].n>>
             y == <<l[1], o[i].n>>
  <2>2. k = <<k[1], i>> /\ l = <<l[1], i>>
    BY <1>4 DEF IsConf, IsRules
  <2>3. d.rule[k] = c.rule[x] /\ d.rule[l] = c.rule[y]
    BY <2>1, <2>2 DEF AtPositions
  <2>4. x \in DOMAIN c.rule /\ y \in DOMAIN c.rule
    BY <1>1, <2>1, RowTyped
  <2>5. x[1] = k[1] /\ y[1] = l[1] /\ x[2] = y[2]
    OBVIOUS
  <2> HIDE DEF x, y
  <2>6. c.rule[x][f] = c.rule[y][f]
    BY <1>4, <2>1, <2>4, <2>5 DEF KeysAgree
  <2> QED BY <2>3, <2>6
<1> QED BY <1>3, <1>4 DEF KeysAgree

\* Numbers stay unique and copies equal, from one configuration to the next.
StayAlike(c, d) ==
  /\ UniqueNumbers(c) => KeysUnique(d)
  /\ \A F : F \subseteq SharedFields /\ KeysAgree(c, F) => KeysAgree(d, F)

\* Both of these, for each kind of commit: a saved rule,
LEMMA SaveAlike ==
  ASSUME NEW c, IsConf(c), Enforced(c), NEW live \in SUBSET Rows(c), NEW svc, NEW u, IsEntry(live, u), TakesFresh(c, live, u)
  PROVE  StayAlike(c, ApplyRule(c, c, live, svc, u))
<1> DEFINE d == ApplyRule(c, c, live, svc, u)
<1>1. UniqueNumbers(c) => KeysUnique(d)
  BY SaveUnique
<1>2. ASSUME NEW F, F \subseteq SharedFields, KeysAgree(c, F) PROVE KeysAgree(d, F)
  BY <1>2, SaveAgrees
<1> HIDE DEF d
<1>3. StayAlike(c, d)
  BY <1>1, <1>2 DEF StayAlike
<1> QED BY <1>3 DEF d

\* a setting,
LEMMA SettingAlike == ASSUME NEW c, IsConf(c), NEW d, SettingIs(c, d) PROVE StayAlike(c, d)
<1>1. (KeysUnique(c) => KeysUnique(d)) /\ \A F : F \subseteq SharedFields /\ KeysAgree(c, F) => KeysAgree(d, F)
  BY SettingStays
<1> QED BY <1>1, UniqueIs DEF StayAlike

\* a deleted rule,
LEMMA DeleteAlike == ASSUME NEW c, IsConf(c), NEW r, NEW geoRead PROVE StayAlike(c, DeleteRule(c, c, r, geoRead))
<1> DEFINE d == DeleteRule(c, c, r, geoRead)
<1>1. (KeysUnique(c) => KeysUnique(d)) /\ \A F : KeysAgree(c, F) => KeysAgree(d, F)
  BY DeleteStays
<1> HIDE DEF d
<1>2. StayAlike(c, d)
  BY <1>1, UniqueIs DEF StayAlike
<1> QED BY <1>2 DEF d

\* a reorder,
LEMMA ReorderAlike ==
  ASSUME NEW c, IsConf(c), NEW o \in Arrangements(Rows(c)), NEW geoRead, IsConf(Reordered(c, c, o, geoRead))
  PROVE  StayAlike(c, Reordered(c, c, o, geoRead))
<1> DEFINE d == Reordered(c, c, o, geoRead)
<1>1. AtPositions(c, o, d)
  BY ReorderWhere
<1> HIDE DEF d
<1>2. KeysUnique(d) /\ \A F : KeysAgree(c, F) => KeysAgree(d, F)
  BY <1>1, ReorderStays DEF d
<1>3. StayAlike(c, d)
  BY <1>2 DEF StayAlike
<1> QED BY <1>3 DEF d

\* and so for every commit made from a page that shows what runs.
LEMMA CommitStays ==
  ASSUME TypeOK, [Next]_vars, Committed, Enforced(conf)
  PROVE  /\ IsConf(conf) /\ IsConf(conf')
         /\ UniqueNumbers(conf) => UniqueNumbers(conf')
         /\ \A F : F \subseteq SharedFields /\ CopiesAgreeOn(conf, F) => CopiesAgreeOn(conf', F)
<1>1. IsConf(conf)
  BY DEF TypeOK
<1>2. IsConf(conf')
  BY TypeNext DEF TypeOK
<1>3. ASSUME SaveCommit PROVE StayAlike(conf, conf')
  BY <1>1, <1>3, SaveAlike DEF SaveCommit
<1>4. ASSUME SettingCommit PROVE StayAlike(conf, conf')
  BY <1>1, <1>4, SettingsAre, SettingAlike
<1>5. ASSUME DeleteCommit PROVE StayAlike(conf, conf')
  BY <1>1, <1>5, DeleteAlike DEF DeleteCommit
<1>6. ASSUME ReorderCommit PROVE StayAlike(conf, conf')
  BY <1>1, <1>2, <1>6, ReorderAlike DEF ReorderCommit
<1>7. StayAlike(conf, conf')
  BY <1>3, <1>4, <1>5, <1>6, CommitStep
<1>8. UniqueNumbers(conf') <=> KeysUnique(conf')
  BY <1>2, UniqueIs
<1>9. ASSUME NEW F, F \subseteq SharedFields, CopiesAgreeOn(conf, F) PROVE CopiesAgreeOn(conf', F)
  <2>1. KeysAgree(conf, F)
    BY <1>1, <1>9, AgreeIs
  <2>2. KeysAgree(conf', F)
    BY <1>7, <1>9, <2>1 DEF StayAlike
  <2> QED BY <1>2, <2>2, AgreeIs
<1> QED BY <1>1, <1>2, <1>7, <1>8, <1>9 DEF StayAlike

\* The copies of a rule stay equal: no commit made from a page that shows what
\* runs, where rulesets and bindings go together, sets one copy of a zone rule
\* apart from another in a field that is kept on every copy.
THEOREM CopiesEqual == Spec => CopiesStayEqual
<1>1. ASSUME TypeOK, [Next]_vars, Committed, Enforced(conf), CopiesAgreeOn(conf, SharedFields)
      PROVE  CopiesAgreeOn(conf', SharedFields)
  BY <1>1, CommitStays
<1> QED BY <1>1, TypeCorrect, PTL DEF Spec, CopiesStayEqual

-----------------------------------------------------------------------------
(* Groups.                                                                 *)

\* A group that is made gets a name that is not taken.
LEMMA NameFree ==
  ASSUME NEW n, NEW taken, IsFiniteSet(taken)
  PROVE  AllocAutoName(n, taken) \notin taken
<1> DEFINE m == Cardinality(taken)
           Free == {i \in 1..(m + 1) : <<n, i>> \notin taken}
           f == [i \in 1..(m + 1) |-> <<n, i>>]
<1>1. m \in Nat
  BY FS_CardinalityType
<1>2. Free # {}
  <2> SUFFICES ASSUME Free = {} PROVE FALSE
    OBVIOUS
  <2>1. f \in Injection(1..(m + 1), taken)
    BY DEF Injection, IsInjective
  <2>2. Cardinality(1..(m + 1)) = m + 1
    BY <1>1, FS_Interval
  <2>3. Cardinality(1..(m + 1)) <= m
    BY <2>1, FS_Injection
  <2> QED BY <1>1, <2>2, <2>3
<1>3. Free \subseteq Nat
  BY <1>1
<1>4. PICK i \in Free : \A j \in Free : i <= j
  BY <1>2, <1>3, LeastNumber
<1>5. \A j \in 1..(i - 1) : <<n, j>> \in taken
  <2> SUFFICES ASSUME NEW j \in 1..(i - 1), j \notin Free PROVE <<n, j>> \in taken
    BY <1>3, <1>4
  <2> QED BY <1>1, <1>3, <1>4
<1>6. \E k \in 1..(m + 1) : <<n, k>> \notin taken /\ \A j \in 1..(k - 1) : <<n, j>> \in taken
  BY <1>4, <1>5
<1> DEFINE k == CHOOSE k \in 1..(m + 1) : <<n, k>> \notin taken /\ \A j \in 1..(k - 1) : <<n, j>> \in taken
<1>7. <<n, k>> \notin taken
  BY <1>6
<1> QED BY <1>7 DEF AllocAutoName

\* Each group backs the copies of one number, by keys.
InSight(c) == {k \in DOMAIN c.rule : k[1] \in Base \cup c.bound}
KeysOwned(c) ==
  /\ \A k \in DOMAIN c.rule : c.rule[k].group \subseteq c.group
  /\ \A g \in c.group : \E k \in InSight(c) : g \in c.rule[k].group
  /\ \A k, l \in InSight(c) : \A g : g \in c.rule[k].group /\ g \in c.rule[l].group => k[2] = l[2]

\* Groups are owned when each is behind rules of exactly one number.
LEMMA OwnedIs ==
  ASSUME NEW c, IsConf(c), UniqueNumbers(c), CopiesAgreeOn(c, {"group"})
  PROVE  GroupsOwned(c) <=> KeysOwned(c)
<1> DEFINE Owners(g) == {r \in Rows(c) : g \in r.body.group}
<1>1. \A g : Cardinality(Owners(g)) = 1 <=> \E r : Owners(g) = {r}
  <2> SUFFICES ASSUME NEW g PROVE Cardinality(Owners(g)) = 1 <=> \E r : Owners(g) = {r}
    OBVIOUS
  <2>1. IsFiniteSet(Owners(g))
    BY RowsFinite, FS_Subset
  <2> HIDE DEF Owners
  <2> QED BY <2>1, FS_Singleton
<1>2. ASSUME NEW k \in InSight(c)
      PROVE  \E r \in Rows(c) : r.n = k[2] /\ r.body.group = c.rule[k].group
  <2>1. k \in DOMAIN c.rule /\ k = <<k[1], k[2]>>
    BY DEF InSight, IsConf, IsRules
  <2>2. PICK r \in Rows(c) : r.n = k[2] /\ k[1] \in r.scopes
    BY <1>2, <2>1, RowOf DEF InSight
  <2> QED BY <2>1, <2>2 DEF CopiesAgreeOn
<1>3. ASSUME NEW r \in Rows(c)
      PROVE  \E k \in InSight(c) : k[2] = r.n /\ c.rule[k].group = r.body.group
  <2> DEFINE k == <<Rep(r.scopes), r.n>>
  <2>1. k \in DOMAIN c.rule /\ k[1] \in Base \cup c.bound /\ r.body = c.rule[k]
    BY RowTyped
  <2> QED BY <2>1 DEF InSight
<1>4. ASSUME GroupsOwned(c) PROVE KeysOwned(c)
  <2>1. \A k \in DOMAIN c.rule : c.rule[k].group \subseteq c.group
    BY <1>4 DEF GroupsOwned
  <2>2. ASSUME NEW g \in c.group PROVE \E r : Owners(g) = {r}
    BY <1>1, <1>4 DEF GroupsOwned
  <2>3. ASSUME NEW g \in c.group PROVE \E k \in InSight(c) : g \in c.rule[k].group
    <3>1. PICK r \in Rows(c) : g \in r.body.group
      BY <2>2
    <3> QED BY <1>3, <3>1
  <2>4. ASSUME NEW k \in InSight(c), NEW l \in InSight(c), NEW g, g \in c.rule[k].group, g \in c.rule[l].group
        PROVE  k[2] = l[2]
    <3>1. PICK r \in Rows(c) : r.n = k[2] /\ r.body.group = c.rule[k].group
      BY <1>2
    <3>2. PICK q \in Rows(c) : q.n = l[2] /\ q.body.group = c.rule[l].group
      BY <1>2
    <3>3. g \in c.group
      BY <2>1, <2>4 DEF InSight
    <3>4. r \in Owners(g) /\ q \in Owners(g)
      BY <2>4, <3>1, <3>2
    <3> HIDE DEF Owners
    <3> QED BY <2>2, <3>1, <3>2, <3>3, <3>4
  <2> QED BY <2>1, <2>3, <2>4 DEF KeysOwned
<1>5. ASSUME KeysOwned(c) PROVE GroupsOwned(c)
  <2>1. ASSUME NEW g \in c.group PROVE \E r : Owners(g) = {r}
    <3>1. PICK k \in InSight(c) : g \in c.rule[k].group
      BY <1>5 DEF KeysOwned
    <3>2. PICK r \in Rows(c) : r.n = k[2] /\ r.body.group = c.rule[k].group
      BY <1>2
    <3>3. ASSUME NEW q \in Rows(c), g \in q.body.group PROVE q = r
      <4>1. PICK l \in InSight(c) : l[2] = q.n /\ c.rule[l].group = q.body.group
        BY <1>3
      <4>2. l[2] = k[2]
        BY <1>5, <3>1, <3>3, <4>1 DEF KeysOwned
      <4> QED BY <3>2, <4>1, <4>2 DEF UniqueNumbers
    <3>4. Owners(g) = {r}
      BY <3>1, <3>2, <3>3
    <3> QED BY <3>4
  <2>2. \A g \in c.group : Cardinality(Owners(g)) = 1
    BY <1>1, <2>1
  <2> QED BY <1>5, <2>2 DEF GroupsOwned, KeysOwned
<1> QED BY <1>4, <1>5

\* Where rulesets and bindings go together, every key is in sight.
LEMMA AllInSight ==
  ASSUME NEW c, IsConf(c), Enforced(c)
  PROVE  InSight(c) = DOMAIN c.rule
<1>1. \A k \in DOMAIN c.rule : k[1] \in Scopes
  BY DEF IsConf, IsRules
<1> QED BY <1>1 DEF InSight, Enforced, Scopes

\* The row of a key in sight, where numbers are unique.
LEMMA RowOfNumber ==
  ASSUME NEW c, IsConf(c), UniqueNumbers(c), NEW k \in InSight(c), NEW r \in Rows(c), r.n = k[2]
  PROVE  k[1] \in r.scopes
<1>1. PICK q \in Rows(c) : q.n = k[2] /\ k[1] \in q.scopes
  BY RowOf DEF InSight
<1> QED BY <1>1 DEF UniqueNumbers

\* A setting leaves rules their groups.
LEMMA SettingOwned ==
  ASSUME NEW c, NEW d, SettingIs(c, d), \A z \in c.zones \ d.zones : ZonePairs(c, z) = {}, KeysOwned(c)
  PROVE  KeysOwned(d)
<1>1. DOMAIN d.rule = DOMAIN c.rule /\ d.bound = c.bound /\ d.group = c.group
  BY DEF SettingIs
<1>2. "group" \in FormFields
  BY DEF FormFields, SharedFields, BlankBody
<1>3. \A k \in DOMAIN c.rule : d.rule[k].group = c.rule[k].group
  BY <1>1, <1>2 DEF SettingIs
<1> QED BY <1>1, <1>3 DEF KeysOwned, InSight

\* A row and its group go together.
LEMMA DeleteOwned ==
  ASSUME NEW c, IsConf(c), Enforced(c), UniqueNumbers(c), CopiesAgreeOn(c, {"group"}), KeysOwned(c),
         NEW r \in Rows(c), NEW geoRead
  PROVE  KeysOwned(DeleteRule(c, c, r, geoRead))
<1> DEFINE d == DeleteRule(c, c, r, geoRead)
           e == DropCopies(c, c, r.scopes, r.n)
           E == EmptyPairs(c, r.scopes, r.n)
<1>1. d.rule = e.rule /\ d.bound = e.bound /\ d.group = c.group \ (r.body.group \cap c.group)
  BY DeleteIs
<1>2. /\ e.bound = c.bound \ E
      /\ DOMAIN e.rule = {k \in DOMAIN c.rule : k \notin r.scopes \X {r.n} /\ k[1] \notin E}
      /\ \A k \in DOMAIN e.rule : e.rule[k] = c.rule[k]
  BY DropIs
<1>3. \A p \in c.bound : p \in E <=> p \in r.scopes /\ \A k \in DOMAIN c.rule : k[1] = p => k[2] = r.n
  BY EmptyPairsAre
<1>4. E \subseteq c.bound /\ E \cap Base = {}
  BY PairsAssumption DEF EmptyPairs, IsConf
<1>5. InSight(c) = DOMAIN c.rule /\ \A k \in DOMAIN c.rule : k = <<k[1], k[2]>> /\ k[1] \in Base \cup c.bound
  <2>1. \A k \in DOMAIN c.rule : k = <<k[1], k[2]>>
    BY DEF IsConf, IsRules
  <2> QED BY <2>1, AllInSight DEF InSight
<1> HIDE DEF d, e, E
<1>6. ASSUME NEW k \in DOMAIN c.rule, k[2] = r.n PROVE k \notin DOMAIN e.rule /\ c.rule[k].group = r.body.group
  <2>1. k[1] \in r.scopes
    BY <1>5, <1>6, RowOfNumber
  <2>2. k = <<k[1], r.n>>
    BY <1>5, <1>6
  <2> QED BY <1>2, <2>1, <2>2 DEF CopiesAgreeOn
<1>7. ASSUME NEW k \in DOMAIN c.rule, k[2] # r.n PROVE k \in DOMAIN e.rule /\ k[1] \in Base \cup e.bound
  <2>1. k \notin r.scopes \X {r.n}
    BY <1>7
  <2>2. k[1] \notin E
    BY <1>3, <1>4, <1>7
  <2> QED BY <1>2, <1>5, <2>1, <2>2
<1>8. \A k \in DOMAIN e.rule : k \in DOMAIN c.rule /\ k[2] # r.n /\ e.rule[k] = c.rule[k]
  BY <1>2, <1>6
<1> DEFINE x == <<Rep(r.scopes), r.n>>
<1>9. x \in DOMAIN c.rule /\ x[2] = r.n /\ c.rule[x] = r.body
  BY RowTyped
<1> HIDE DEF x
<1>10. ASSUME NEW k \in DOMAIN e.rule PROVE e.rule[k].group \subseteq d.group
  <2>1. c.rule[k].group \cap r.body.group = {}
    BY <1>5, <1>8, <1>9 DEF KeysOwned
  <2> QED BY <1>1, <1>8, <2>1 DEF KeysOwned
<1>11. ASSUME NEW g \in d.group PROVE \E k \in InSight(d) : g \in d.rule[k].group
  <2>1. PICK k \in DOMAIN c.rule : g \in c.rule[k].group
    BY <1>1, <1>5 DEF KeysOwned
  <2>2. k[2] # r.n
    BY <1>1, <1>6, <2>1
  <2> QED BY <1>1, <1>2, <1>7, <2>1, <2>2 DEF InSight
<1>12. InSight(d) \subseteq InSight(c)
  BY <1>1, <1>2, <1>5 DEF InSight
<1>13. \A k, l \in InSight(d) : \A g : g \in d.rule[k].group /\ g \in d.rule[l].group => k[2] = l[2]
  <2>1. \A k \in InSight(d) : d.rule[k] = c.rule[k]
    BY <1>1, <1>8 DEF InSight
  <2> QED BY <1>12, <2>1 DEF KeysOwned
<1> QED BY <1>1, <1>10, <1>11, <1>13 DEF KeysOwned, d

\* A reorder takes each rule's group along.
LEMMA ReorderOwned ==
  ASSUME NEW c, IsConf(c), Enforced(c), UniqueNumbers(c), KeysOwned(c), NEW o \in Arrangements(Rows(c)),
         NEW d, IsConf(d), AtPositions(c, o, d), Enforced(d), d.group = c.group
  PROVE  KeysOwned(d)
<1>1. InSight(c) = DOMAIN c.rule /\ InSight(d) = DOMAIN d.rule
  BY AllInSight
<1>2. /\ \A i \in DOMAIN o : o[i] \in Rows(c)
      /\ \A i, j \in DOMAIN o : o[i] = o[j] => i = j
      /\ \A r \in Rows(c) : \E i \in DOMAIN o : o[i] = r
  BY ArrangementTyped
<1>3. ASSUME NEW k \in DOMAIN d.rule
      PROVE  k[2] \in DOMAIN o /\ <<k[1], o[k[2]].n>> \in DOMAIN c.rule /\ d.rule[k] = c.rule[<<k[1], o[k[2]].n>>]
  <2>1. k[2] \in DOMAIN o /\ k[1] \in o[k[2]].scopes
    BY <1>1, <1>3 DEF AtPositions, InSight
  <2>2. k = <<k[1], k[2]>>
    BY DEF IsConf, IsRules
  <2>3. d.rule[k] = c.rule[<<k[1], o[k[2]].n>>]
    BY <2>1, <2>2 DEF AtPositions
  <2>4. <<k[1], o[k[2]].n>> \in DOMAIN c.rule
    BY <1>2, <2>1, RowTyped
  <2> QED BY <2>1, <2>3, <2>4
<1>4. \A k \in DOMAIN d.rule : d.rule[k].group \subseteq d.group
  BY <1>3 DEF KeysOwned
<1>5. ASSUME NEW g \in d.group PROVE \E k \in InSight(d) : g \in d.rule[k].group
  <2>1. PICK k \in DOMAIN c.rule : g \in c.rule[k].group
    BY <1>1 DEF KeysOwned
  <2>2. PICK r \in Rows(c) : r.n = k[2] /\ k[1] \in r.scopes
    BY <1>1, <2>1, RowOf DEF InSight
  <2>3. PICK i \in DOMAIN o : o[i] = r
    BY <1>2
  <2>4. k = <<k[1], o[i].n>> /\ k[1] \in o[i].scopes
    BY <2>2, <2>3 DEF IsConf, IsRules
  <2>5. <<k[1], i>> \in DOMAIN d.rule /\ d.rule[<<k[1], i>>] = c.rule[k]
    BY <2>4 DEF AtPositions
  <2> QED BY <1>1, <2>1, <2>5
<1>6. ASSUME NEW k \in DOMAIN d.rule, NEW l \in DOMAIN d.rule, NEW g, g \in d.rule[k].group, g \in d.rule[l].group
      PROVE  k[2] = l[2]
  <2> DEFINE x == <<k[1], o[k[2]].n>>
             y == <<l[1], o[l[2]].n>>
  <2>1. x \in DOMAIN c.rule /\ d.rule[k] = c.rule[x] /\ y \in DOMAIN c.rule /\ d.rule[l] = c.rule[y]
    BY <1>3
  <2>2. x[2] = o[k[2]].n /\ y[2] = o[l[2]].n
    OBVIOUS
  <2> HIDE DEF x, y
  <2>3. o[k[2]].n = o[l[2]].n
    BY <1>1, <1>6, <2>1, <2>2 DEF KeysOwned
  <2>4. k[2] \in DOMAIN o /\ l[2] \in DOMAIN o
    BY <1>3
  <2>5. o[k[2]] = o[l[2]]
    BY <1>2, <2>3, <2>4 DEF UniqueNumbers
  <2> QED BY <1>2, <2>4, <2>5
<1> QED BY <1>1, <1>4, <1>5, <1>6 DEF KeysOwned

\* The group of a saved rule is the one it had, or a new one, and the one it
\* no longer uses goes.
LEMMA GroupIs ==
  ASSUME NEW c, IsConf(c), KeysOwned(c), NEW live \in SUBSET Rows(c), NEW l \in live, live = {l}
  PROVE  AutoGroup(c, live) = l.body.group
<1>1. l.body = c.rule[<<Rep(l.scopes), l.n>>] /\ <<Rep(l.scopes), l.n>> \in DOMAIN c.rule
  BY RowTyped
<1>2. l.body.group \subseteq c.group
  BY <1>1 DEF KeysOwned
<1>3. AutoGroup(c, live) = l.body.group \cap c.group
  BY DEF AutoGroup
<1> QED BY <1>2, <1>3

\* A saved rule owns its group, the one it had or a new one, and no other rule's
\* group is touched.
LEMMA SaveOwned ==
  ASSUME NEW c, IsConf(c), Enforced(c), UniqueNumbers(c), CopiesAgreeOn(c, {"group"}), KeysOwned(c),
         NEW live \in SUBSET Rows(c), NEW svc, NEW u, IsEntry(live, u), TakesFresh(c, live, u),
         RuleChainsFor(c.zones, u.sel) # {}
  PROVE  KeysOwned(ApplyRule(c, c, live, svc, u))
<1> DEFINE chains == RuleChainsFor(c.zones, u.sel)
           n == LandsAt(c, live, u, chains)
           kept == Kept(live, chains)
           G == RuleGroup(c, kept, n, u.many)
           A == AutoGroup(c, live)
           want == Wanted(c, u, G)
           d == ApplyRule(c, c, live, svc, u)
           e == DiffRule(c, c, live, u)
<1>1. SavedAs(c, live, u, d, chains, n, kept)
  BY SavedWhere
<1>2. \A s \in chains : d.rule[<<s, n>>].group = G
  <2>1. {"group"} \subseteq SharedFields
    BY DEF SharedFields, BlankBody
  <2>2. KeysAgree(c, {"group"})
    BY AgreeIs
  <2>3. WrittenAlike(c, live, svc, u, {"group"})
    BY <2>1, <2>2, SavedLeaves
  <2>4. \A s \in chains : \A f \in {"group"} : d.rule[<<s, n>>][f] = want[f]
    BY <2>3, Zenon DEF WrittenAlike
  <2>5. want.group = G
    BY DEF Wanted
  <2> HIDE DEF want, chains, n, d
  <2> QED BY <2>4, <2>5
<1>3. d.group = (c.group \ (A \ G)) \cup G
  <2>1. RuleSaved(c, live, u)
    BY DiffRuleIs
  <2>2. e.group = (c.group \ (A \ G)) \cup G
    BY <2>1, Zenon DEF RuleSaved
  <2> QED BY <2>2, ApplyRuleIs DEF ConfFields
<1>4. IsConf(d) /\ Enforced(d)
  BY ApplyRuleTyped, SaveKeeps
<1>5. /\ kept = {} \/ kept = live
      /\ \A l \in live : live = {l}
  BY DEF Kept, IsEntry
<1>6. \/ G = {}
      \/ kept = live /\ G = A
      \/ G \cap c.group = {}
  <2>1. AutoGroup(c, kept) = A \/ AutoGroup(c, kept) = {}
    BY <1>5 DEF AutoGroup
  <2>2. AllocAutoName(n, c.group) \notin c.group
    BY NameFree DEF IsConf
  <2>3. AutoGroup(c, kept) # {} => kept # {}
    BY DEF AutoGroup
  <2> HIDE DEF kept, n, A
  <2> QED BY <1>5, <2>1, <2>2, <2>3 DEF RuleGroup
<1>7. chains \subseteq DOMAIN Pairs \/ \E b \in Base : chains = {b}
  BY ChainsAre
<1>8. PICK s0 \in chains : TRUE
  OBVIOUS
<1> HIDE DEF chains, n, kept, G, A, want, e, d
<1>9. InSight(c) = DOMAIN c.rule /\ InSight(d) = DOMAIN d.rule
  BY <1>4, AllInSight
<1> DEFINE Saved(k) == k[2] = n /\ k[1] \in chains

\* A key whose group is the edited rule's is one of its copies.
<1>10. ASSUME NEW k \in DOMAIN c.rule, NEW g, g \in c.rule[k].group, g \in A
       PROVE  \E l \in live : k[2] = l.n /\ k[1] \in l.scopes
  <2>1. PICK l \in live : TRUE
    BY <1>10 DEF A, AutoGroup
  <2>2. A = l.body.group
    BY <1>5, <2>1, GroupIs DEF A
  <2> DEFINE x == <<Rep(l.scopes), l.n>>
  <2>3. x \in DOMAIN c.rule /\ x[2] = l.n /\ c.rule[x] = l.body
    BY <2>1, RowTyped
  <2> HIDE DEF x
  <2>4. k[2] = l.n
    BY <1>9, <1>10, <2>2, <2>3 DEF KeysOwned
  <2>5. k[1] \in l.scopes
    BY <1>9, <2>1, <2>4, RowOfNumber
  <2> QED BY <2>1, <2>4, <2>5
<1>11. ASSUME NEW k \in DOMAIN d.rule, ~Saved(k)
       PROVE  /\ k \in DOMAIN c.rule /\ d.rule[k] = c.rule[k]
              /\ d.rule[k].group \cap A = {} /\ d.rule[k].group \subseteq c.group
  <2>1. k \in DOMAIN c.rule /\ d.rule[k] = c.rule[k] /\ \A l \in live : ~(k[2] = l.n /\ k[1] \in l.scopes)
    BY <1>1, <1>11 DEF SavedAs
  <2>2. c.rule[k].group \cap A = {}
    BY <1>10, <2>1
  <2> QED BY <2>1, <2>2 DEF KeysOwned
<1>12. ASSUME NEW k \in DOMAIN d.rule, Saved(k) PROVE d.rule[k].group = G
  <2>1. k = <<k[1], n>>
    BY <1>4, <1>12 DEF IsConf, IsRules
  <2>2. d.rule[<<k[1], n>>].group = G
    BY <1>2, <1>12
  <2> QED BY <2>1, <2>2
<1>13. ASSUME NEW k \in DOMAIN d.rule, ~Saved(k) PROVE d.rule[k].group \cap G = {}
  BY <1>6, <1>11, <1>13
<1> HIDE DEF Saved
<1>14. ASSUME NEW k \in DOMAIN d.rule PROVE d.rule[k].group \subseteq d.group
  <2>1. CASE Saved(k)
    BY <1>3, <1>12, <2>1
  <2>2. CASE ~Saved(k)
    BY <1>3, <1>11, <2>2
  <2> QED BY <2>1, <2>2
<1>15. ASSUME NEW g \in d.group PROVE \E k \in DOMAIN d.rule : g \in d.rule[k].group
  <2>1. CASE g \in G
    <3>1. <<s0, n>> \in DOMAIN d.rule
      BY <1>1, <1>8 DEF SavedAs
    <3> QED BY <1>2, <1>8, <2>1, <3>1
  <2>2. CASE g \notin G
    <3>1. g \in c.group /\ g \notin A
      BY <1>3, <2>2
    <3>2. PICK k \in DOMAIN c.rule : g \in c.rule[k].group
      BY <1>9, <3>1 DEF KeysOwned
    <3>3. \A l \in live : ~(k[2] = l.n /\ k[1] \in l.scopes)
      <4> SUFFICES ASSUME NEW l \in live, k[2] = l.n, k[1] \in l.scopes PROVE FALSE
        OBVIOUS
      <4>1. k = <<k[1], l.n>>
        BY DEF IsConf, IsRules
      <4>2. c.rule[k].group = l.body.group
        BY <4>1 DEF CopiesAgreeOn
      <4>3. A = l.body.group
        BY <1>5, GroupIs DEF A
      <4> QED BY <3>1, <3>2, <4>2, <4>3
    <3>4. k \in DOMAIN d.rule
      BY <1>1, <1>9, <3>2, <3>3 DEF SavedAs, InSight
    <3>5. ~Saved(k)
      <4> SUFFICES ASSUME k[2] = n, k[1] \in chains PROVE FALSE
        BY DEF Saved
      <4>1. k[1] \in Base \cup c.bound /\ n = LandsAt(c, live, u, chains) /\ kept = Kept(live, chains)
        BY <1>1, <1>9 DEF InSight, SavedAs
      <4>2. \E l \in Kept(live, chains) : k[1] \in l.scopes
        BY <4>1, SameRow
      <4>3. RuleLands(c, live, u, chains)
        BY LandsWhere
      <4>4. \A l \in Kept(live, chains) : l \in live /\ l.n = n
        BY <4>1, <4>3 DEF RuleLands
      <4> QED BY <3>3, <4>2, <4>4
    <3> QED BY <1>11, <3>2, <3>4, <3>5
  <2> QED BY <2>1, <2>2
<1>16. ASSUME NEW k \in DOMAIN d.rule, NEW l \in DOMAIN d.rule, NEW g, g \in d.rule[k].group, g \in d.rule[l].group
       PROVE  k[2] = l[2]
  <2>1. CASE Saved(k) /\ Saved(l)
    BY <2>1 DEF Saved
  <2>2. CASE ~Saved(k) /\ ~Saved(l)
    BY <1>9, <1>11, <1>16, <2>2 DEF KeysOwned
  <2>3. CASE Saved(k) /\ ~Saved(l)
    BY <1>12, <1>13, <1>16, <2>3
  <2>4. CASE ~Saved(k) /\ Saved(l)
    BY <1>12, <1>13, <1>16, <2>4
  <2> QED BY <2>1, <2>2, <2>3, <2>4
<1> QED BY <1>9, <1>14, <1>15, <1>16 DEF KeysOwned, d

\* Every commit made from a page that shows what runs leaves groups owned.
LEMMA CommitOwned ==
  ASSUME TypeOK, [Next]_vars, Committed, Enforced(conf), UniqueNumbers(conf),
         CopiesAgreeOn(conf, {"group"}), GroupsOwned(conf), ZonesKept
  PROVE  GroupsOwned(conf')
<1>1. {"group"} \subseteq SharedFields
  BY DEF SharedFields, BlankBody
<1>2. IsConf(conf) /\ IsConf(conf') /\ UniqueNumbers(conf') /\ CopiesAgreeOn(conf', {"group"})
  BY <1>1, CommitStays
<1>3. Enforced(conf')
  BY CommitKeeps
<1>4. KeysOwned(conf)
  BY <1>2, OwnedIs
<1>5. ASSUME SaveCommit PROVE KeysOwned(conf')
  BY <1>2, <1>4, <1>5, SaveOwned DEF SaveCommit
<1>6. ASSUME SettingCommit PROVE KeysOwned(conf')
  BY <1>2, <1>4, <1>6, SettingsAre, SettingOwned DEF ZonesKept
<1>7. ASSUME DeleteCommit PROVE KeysOwned(conf')
  BY <1>2, <1>4, <1>7, DeleteOwned DEF DeleteCommit
<1>8. ASSUME ReorderCommit PROVE KeysOwned(conf')
  <2>1. PICK o \in Arrangements(Rows(conf)), geoRead \in BOOLEAN : conf' = Reordered(conf, conf, o, geoRead)
    BY <1>8 DEF ReorderCommit
  <2>2. AtPositions(conf, o, conf')
    BY <1>2, <2>1, ReorderWhere
  <2>3. RowsMoved(conf, o, geoRead)
    BY <1>2, ReorderedIs
  <2>4. conf'.group = conf.group
    BY <2>1, <2>3 DEF RowsMoved, ConfFields
  <2> QED BY <1>2, <1>3, <1>4, <2>2, <2>4, ReorderOwned
<1>9. KeysOwned(conf')
  BY <1>5, <1>6, <1>7, <1>8, CommitStep
<1> QED BY <1>2, <1>9, OwnedIs

\* Rules stay distinct: no commit made from a page that shows what runs gives
\* two rules one number, a group to two rules or to none, or a rule a group
\* that is gone.
THEOREM RulesDistinct == Spec => RulesStayDistinct
<1>1. ASSUME TypeOK, [Next]_vars, Committed, UniqueNumbers(conf), Enforced(conf)
      PROVE  /\ UniqueNumbers(conf')
             /\ CopiesAgreeOn(conf, {"group"}) /\ GroupsOwned(conf) /\ ZonesKept => GroupsOwned(conf')
  BY <1>1, CommitStays, CommitOwned
<1> QED BY <1>1, TypeCorrect, PTL DEF Spec, RulesStayDistinct

-----------------------------------------------------------------------------
(* Rules nobody edits.                                                     *)

\* A row is there, under the number m, when all its copies are, in bound
\* rulesets, and no others are.
LEMMA RowStays ==
  ASSUME NEW c, IsConf(c), NEW d, IsConf(d), NEW r \in Rows(c), NEW m,
         \A s \in r.scopes : <<s, m>> \in DOMAIN d.rule /\ d.rule[<<s, m>>] = c.rule[<<s, r.n>>],
         r.scopes \cap c.bound \subseteq d.bound,
         \A s \in d.bound : <<s, m>> \in DOMAIN d.rule => s \in r.scopes
  PROVE  [r EXCEPT !.n = m] \in Rows(d)
<1>1. r = [n |-> r.n, scopes |-> r.scopes, body |-> r.body]
  BY RowTyped DEF IsRow
<1> DEFINE q == [r EXCEPT !.n = m]
<1>2. q = [n |-> m, scopes |-> r.scopes, body |-> r.body] /\ q.n = m /\ q.scopes = r.scopes
  BY <1>1
<1>3. Rep(r.scopes) \in r.scopes /\ r.body = c.rule[<<Rep(r.scopes), r.n>>]
  BY RowTyped
<1>4. q = RowAt(d, q.scopes, q.n)
  BY <1>2, <1>3 DEF RowAt
<1> HIDE DEF q
<1>5. CASE r.scopes \cap c.bound = {}
  <2>1. PICK b \in Base : r.scopes = {b}
    BY <1>5, ZoneRow
  <2>2. q.scopes = {b} /\ <<b, q.n>> \in DOMAIN d.rule
    BY <1>2, <2>1
  <2> QED BY <1>4, <2>2, RowsAre DEF q
<1>6. CASE r.scopes \cap c.bound # {}
  <2>0. r.scopes = Copies(c, r.n)
    BY <1>6, ZoneRow
  <2>1. r.scopes \subseteq c.bound
    BY <2>0 DEF Copies
  <2>2. q.scopes = Copies(d, q.n) /\ q.scopes # {}
    BY <1>2, <1>6, <2>1 DEF Copies
  <2> QED BY <1>4, <2>2, RowsAre DEF q
<1> QED BY <1>5, <1>6

\* A rule whose copies are untouched, and joined by no other, is the same rule.
LEMMA RowStaysPut ==
  ASSUME NEW c, IsConf(c), NEW d, IsConf(d), NEW r \in Rows(c),
         \A s \in r.scopes : <<s, r.n>> \in DOMAIN d.rule /\ d.rule[<<s, r.n>>] = c.rule[<<s, r.n>>],
         r.scopes \cap c.bound \subseteq d.bound,
         \A s \in d.bound : <<s, r.n>> \in DOMAIN d.rule => s \in r.scopes
  PROVE  r \in Rows(d)
<1>1. [r EXCEPT !.n = r.n] = r
  <2>1. r = [n |-> r.n, scopes |-> r.scopes, body |-> r.body]
    BY RowTyped DEF IsRow
  <2> QED BY <2>1
<1>2. [r EXCEPT !.n = r.n] \in Rows(d)
  BY RowStays
<1> QED BY <1>1, <1>2

\* A save leaves every other rule as it is,
LEMMA SaveKeepsRows ==
  ASSUME NEW c, IsConf(c), Enforced(c), UniqueNumbers(c), NEW live \in SUBSET Rows(c), NEW svc,
         NEW u, IsEntry(live, u), TakesFresh(c, live, u), NEW r \in Rows(c) \ live
  PROVE  r \in Rows(ApplyRule(c, c, live, svc, u))
<1> DEFINE chains == RuleChainsFor(c.zones, u.sel)
           n == LandsAt(c, live, u, chains)
           kept == Kept(live, chains)
           d == ApplyRule(c, c, live, svc, u)
<1>1. SavedAs(c, live, u, d, chains, n, kept)
  BY SavedWhere
<1>2. IsConf(d) /\ Enforced(d)
  BY ApplyRuleTyped, SaveKeeps
<1>3. r.n # n
  <2>1. RuleLands(c, live, u, chains)
    BY LandsWhere
  <2>2. (kept = {} => r.n # n) /\ \A l \in kept : l \in live /\ l.n = n
    BY <2>1 DEF RuleLands
  <2> HIDE DEF kept, n
  <2> QED BY <2>2 DEF UniqueNumbers
<1> HIDE DEF chains, n, kept, d
<1>4. \A l \in live : l.n # r.n
  BY DEF UniqueNumbers
<1>5. ASSUME NEW s \in r.scopes PROVE <<s, r.n>> \in DOMAIN d.rule /\ d.rule[<<s, r.n>>] = c.rule[<<s, r.n>>]
  <2> DEFINE k == <<s, r.n>>
  <2>1. k \in DOMAIN c.rule /\ k[1] \in Base \cup c.bound /\ k[2] = r.n
    BY RowTyped
  <2> HIDE DEF k
  <2>2. k \in DOMAIN d.rule
    BY <1>1, <1>4, <2>1 DEF SavedAs
  <2>3. d.rule[k] = c.rule[k]
    BY <1>1, <1>3, <2>1, <2>2 DEF SavedAs
  <2> QED BY <2>2, <2>3 DEF k
<1>6. r.scopes \cap c.bound \subseteq d.bound
  <2> SUFFICES ASSUME NEW s \in r.scopes, s \in c.bound PROVE s \in d.bound
    OBVIOUS
  <2>1. s \in DOMAIN Pairs /\ <<s, r.n>> \in DOMAIN d.rule /\ <<s, r.n>>[1] = s
    BY <1>5 DEF IsConf
  <2> QED BY <1>2, <2>1 DEF Enforced
<1>7. ASSUME NEW s \in d.bound, <<s, r.n>> \in DOMAIN d.rule PROVE s \in r.scopes
  <2> DEFINE k == <<s, r.n>>
  <2>1. k \in DOMAIN d.rule /\ k[1] = s /\ k[2] = r.n
    BY <1>7
  <2> HIDE DEF k
  <2>2. k \in DOMAIN c.rule /\ k[1] \in Base \cup c.bound
    BY <1>1, <1>3, <1>7, <2>1 DEF SavedAs
  <2> QED BY <2>1, <2>2, RowOfNumber DEF InSight
<1>8. r \in Rows(d)
  BY <1>2, <1>5, <1>6, <1>7, RowStaysPut
<1> QED BY <1>8 DEF d

\* and so does deleting one.
LEMMA DeleteKeepsRows ==
  ASSUME NEW c, IsConf(c), Enforced(c), UniqueNumbers(c), NEW r \in Rows(c), NEW q \in Rows(c), q.n # r.n, NEW geoRead
  PROVE  q \in Rows(DeleteRule(c, c, r, geoRead))
<1> DEFINE d == DeleteRule(c, c, r, geoRead)
           e == DropCopies(c, c, r.scopes, r.n)
           E == EmptyPairs(c, r.scopes, r.n)
<1>1. d.rule = e.rule /\ d.bound = e.bound
  BY DeleteIs
<1>2. /\ e.bound = c.bound \ E
      /\ DOMAIN e.rule = {k \in DOMAIN c.rule : k \notin r.scopes \X {r.n} /\ k[1] \notin E}
      /\ \A k \in DOMAIN e.rule : e.rule[k] = c.rule[k]
  BY DropIs
<1>3. IsConf(d)
  BY DeleteRuleTyped
<1>4. \A s \in q.scopes : s \notin E
  BY DEF EmptyPairs
<1> HIDE DEF d, e, E
<1>5. ASSUME NEW s \in q.scopes PROVE <<s, q.n>> \in DOMAIN d.rule /\ d.rule[<<s, q.n>>] = c.rule[<<s, q.n>>]
  <2>1. <<s, q.n>> \in DOMAIN c.rule /\ <<s, q.n>> \notin r.scopes \X {r.n} /\ <<s, q.n>>[1] = s
    BY RowTyped
  <2> QED BY <1>1, <1>2, <1>4, <2>1
<1>6. q.scopes \cap c.bound \subseteq d.bound
  BY <1>1, <1>2, <1>4
<1>7. ASSUME NEW s \in d.bound, <<s, q.n>> \in DOMAIN d.rule PROVE s \in q.scopes
  <2> DEFINE k == <<s, q.n>>
  <2>1. k \in DOMAIN c.rule /\ k[1] = s /\ k[2] = q.n /\ s \in c.bound
    BY <1>1, <1>2, <1>7
  <2> HIDE DEF k
  <2> QED BY <2>1, RowOfNumber DEF InSight
<1>8. q \in Rows(d)
  BY <1>3, <1>5, <1>6, <1>7, RowStaysPut
<1> QED BY <1>8 DEF d

\* A reorder moves whole rules to their positions.
MovedWhole(c, d, move) ==
  /\ {[r EXCEPT !.n = move[@]] : r \in Rows(c)} = Rows(d)
  /\ \A r \in Rows(c), s \in DOMAIN c.rule :
       s[1] \in r.scopes /\ s[2] = r.n => c.rule[s] = d.rule[<<s[1], move[r.n]>>]

\* A reorder moves whole rules to their positions, and changes nothing else.
LEMMA ReorderMoves ==
  ASSUME NEW c, IsConf(c), UniqueNumbers(c), NEW o \in Arrangements(Rows(c)), NEW d, IsConf(d), AtPositions(c, o, d),
         NEW move, move = [n \in {o[i].n : i \in DOMAIN o} |-> CHOOSE i \in DOMAIN o : o[i].n = n]
  PROVE  MovedWhole(c, d, move)
<1>1. /\ \A i \in DOMAIN o : o[i] \in Rows(c)
      /\ \A i, j \in DOMAIN o : o[i] = o[j] => i = j
      /\ \A r \in Rows(c) : \E i \in DOMAIN o : o[i] = r
  BY ArrangementTyped
<1>2. ASSUME NEW i \in DOMAIN o PROVE move[o[i].n] = i
  <2>1. o[i].n \in {o[j].n : j \in DOMAIN o}
    OBVIOUS
  <2>2. move[o[i].n] = CHOOSE j \in DOMAIN o : o[j].n = o[i].n
    BY <2>1
  <2>3. \A j \in DOMAIN o : o[j].n = o[i].n => j = i
    BY <1>1 DEF UniqueNumbers
  <2>4. (CHOOSE j \in DOMAIN o : o[j].n = o[i].n) \in DOMAIN o /\ o[CHOOSE j \in DOMAIN o : o[j].n = o[i].n].n = o[i].n
    OBVIOUS
  <2> QED BY <2>2, <2>3, <2>4
<1>3. /\ \A i \in DOMAIN o : \A s \in o[i].scopes : <<s, i>> \in DOMAIN d.rule /\ d.rule[<<s, i>>] = c.rule[<<s, o[i].n>>]
      /\ \A k \in DOMAIN d.rule : k[1] \in Base \cup c.bound => k[2] \in DOMAIN o /\ k[1] \in o[k[2]].scopes
      /\ d.bound = c.bound
  BY DEF AtPositions
<1>4. ASSUME NEW i \in DOMAIN o PROVE [o[i] EXCEPT !.n = i] \in Rows(d)
  <2> DEFINE r == o[i]
  <2>1. r \in Rows(c)
    BY <1>1
  <2>2. \A s \in r.scopes : <<s, i>> \in DOMAIN d.rule /\ d.rule[<<s, i>>] = c.rule[<<s, r.n>>]
    BY <1>3
  <2>3. ASSUME NEW s \in d.bound, <<s, i>> \in DOMAIN d.rule PROVE s \in r.scopes
    <3>1. <<s, i>>[1] = s /\ <<s, i>>[2] = i
      OBVIOUS
    <3> QED BY <1>3, <2>3, <3>1
  <2>4. r.scopes \cap c.bound \subseteq d.bound
    BY <1>3
  <2> HIDE DEF r
  <2>5. [r EXCEPT !.n = i] \in Rows(d)
    BY <2>1, <2>2, <2>3, <2>4, RowStays
  <2> QED BY <2>5 DEF r
<1>5. ASSUME NEW q \in Rows(d) PROVE q.n \in DOMAIN o /\ q = [o[q.n] EXCEPT !.n = q.n]
  <2>1. PICK s \in q.scopes : <<s, q.n>> \in DOMAIN d.rule /\ s \in Base \cup d.bound
    BY RowTyped
  <2>2. <<s, q.n>>[1] = s /\ <<s, q.n>>[2] = q.n
    OBVIOUS
  <2>3. q.n \in DOMAIN o /\ s \in o[q.n].scopes
    BY <1>3, <2>1, <2>2
  <2> DEFINE r == o[q.n]
             w == [r EXCEPT !.n = q.n]
  <2>4. r \in Rows(c)
    BY <1>1, <2>3
  <2>5. r = [n |-> r.n, scopes |-> r.scopes, body |-> r.body]
    BY <2>4, RowTyped DEF IsRow
  <2>6. w.n = q.n /\ w.scopes = r.scopes
    BY <2>5
  <2>7. w \in Rows(d)
    BY <1>4, <2>3
  <2> HIDE DEF w
  <2>8. s \in w.scopes
    BY <2>3, <2>6
  <2>9. q = w
    BY <2>1, <2>6, <2>7, <2>8, RowsApart
  <2> QED BY <2>3, <2>9 DEF w
<1> DEFINE at(r) == [r EXCEPT !.n = move[@]]
<1>6. \A i \in DOMAIN o : at(o[i]) = [o[i] EXCEPT !.n = i]
  BY <1>2
<1>7. ASSUME NEW r \in Rows(c) PROVE at(r) \in Rows(d)
  <2>1. PICK i \in DOMAIN o : o[i] = r
    BY <1>1
  <2> HIDE DEF at
  <2>2. at(o[i]) \in Rows(d)
    BY <1>4, <1>6
  <2> QED BY <2>1, <2>2
<1>8. ASSUME NEW q \in Rows(d) PROVE \E r \in Rows(c) : at(r) = q
  BY <1>1, <1>5, <1>6
<1> HIDE DEF at
<1>9. {at(r) : r \in Rows(c)} = Rows(d)
  BY <1>7, <1>8
<1>10. ASSUME NEW r \in Rows(c), NEW s \in DOMAIN c.rule, s[1] \in r.scopes, s[2] = r.n
       PROVE  c.rule[s] = d.rule[<<s[1], move[r.n]>>]
  <2>1. PICK i \in DOMAIN o : o[i] = r
    BY <1>1
  <2>2. s = <<s[1], s[2]>>
    BY KeyTyped DEF IsConf
  <2>3. move[r.n] = i
    BY <1>2, <2>1
  <2>4. d.rule[<<s[1], i>>] = c.rule[<<s[1], r.n>>]
    BY <1>3, <1>10, <2>1
  <2> QED BY <1>10, <2>2, <2>3, <2>4
<1> QED BY <1>9, <1>10 DEF at, MovedWhole

\* Rules nobody edits are kept by every step.
LEMMA CommitKeepsRows ==
  ASSUME TypeOK, [Next]_vars, UniqueNumbers(conf), Enforced(conf)
  PROVE  /\ SubmitStep => \A r \in Rows(conf) \ form.live : r \in Rows(conf')
         /\ CascadeStep /\ ~Reorders => \A r \in Rows(conf) : r.n \in DOMAIN op'.move \/ r \in Rows(conf')
         /\ Reorders => ReorderedWhole
<1>1. IsConf(conf) /\ IsConf(conf')
  BY TypeNext DEF TypeOK
<1>2. ASSUME SubmitStep, NEW r \in Rows(conf) \ form.live PROVE r \in Rows(conf')
  <2>1. SaveCommit
    BY <1>2, CommitStep DEF SubmitStep, SettingCommit, DeleteCommit, ReorderCommit
  <2> QED BY <1>1, <2>1, SaveKeepsRows DEF SaveCommit
<1>3. ASSUME CascadeStep PROVE (DeleteCommit /\ op' # Idle) \/ ReorderCommit
  <2>1. form = Closed /\ op' # Idle
    BY <1>3 DEF CascadeStep, Idle
  <2> QED BY <1>3, <2>1, CommitStep DEF CascadeStep, SaveCommit, SettingCommit
<1>4. ASSUME DeleteCommit, op' # Idle
      PROVE  /\ ~\A n \in DOMAIN op'.move : op'.move[n] # 0
             /\ \A r \in Rows(conf) : r.n \in DOMAIN op'.move \/ r \in Rows(conf')
  <2>1. PICK r \in Rows(conf), geoRead \in BOOLEAN :
          conf' = DeleteRule(conf, conf, r, geoRead) /\ op'.move = [n \in {r.n} |-> 0]
    BY <1>4 DEF DeleteCommit
  <2>2. \A q \in Rows(conf) : q.n # r.n => q \in Rows(conf')
    BY <1>1, <2>1, DeleteKeepsRows
  <2> QED BY <2>1, <2>2
<1>5. ASSUME ReorderCommit PROVE ReorderedWhole /\ \A n \in DOMAIN op'.move : op'.move[n] # 0
  <2>1. PICK o \in Arrangements(Rows(conf)), geoRead \in BOOLEAN :
          /\ conf' = Reordered(conf, conf, o, geoRead)
          /\ op'.move = [n \in {o[i].n : i \in DOMAIN o} |-> CHOOSE i \in DOMAIN o : o[i].n = n]
    BY <1>5 DEF ReorderCommit
  <2>2. AtPositions(conf, o, conf')
    BY <1>1, <2>1, ReorderWhere
  <2>3. RowsMoved(conf, o, geoRead)
    BY <1>1, ReorderedIs
  <2>4. [conf' EXCEPT !.rule = conf.rule, !.geo = conf.geo] = conf
    BY <2>1, <2>3, Zenon DEF RowsMoved
  <2>5. MovedWhole(conf, conf', op'.move)
    BY <1>1, <2>1, <2>2, ReorderMoves
  <2>6. DOMAIN o \subseteq Nat \ {0}
    BY <1>1, ArrangementTyped
  <2>7. \A n \in DOMAIN op'.move : op'.move[n] # 0
    BY <2>1, <2>6
  <2> QED BY <2>4, <2>5, <2>7, Zenon DEF ReorderedWhole, MovedWhole
<1>6. CascadeStep /\ ~Reorders => \A r \in Rows(conf) : r.n \in DOMAIN op'.move \/ r \in Rows(conf')
  BY <1>3, <1>4, <1>5 DEF Reorders
<1>7. Reorders => ReorderedWhole
  BY <1>3, <1>4, <1>5 DEF Reorders
<1> QED BY <1>2, <1>6, <1>7

\* Rules nobody edits are kept: saving or deleting one from a page that shows
\* what runs leaves every other as it is, and a reorder moves whole rules, all
\* their leaves and copies, and changes nothing else.
THEOREM OthersKept == Spec => RulesKept
<1>1. ASSUME TypeOK, [Next]_vars, UniqueNumbers(conf), Enforced(conf)
      PROVE  /\ SubmitStep => \A r \in Rows(conf) \ form.live : r \in Rows(conf')
             /\ CascadeStep /\ ~Reorders => \A r \in Rows(conf) : r.n \in DOMAIN op'.move \/ r \in Rows(conf')
             /\ Reorders => ReorderedWhole
  BY <1>1, CommitKeepsRows
<1> QED BY <1>1, TypeCorrect, PTL DEF Spec, RulesKept

-----------------------------------------------------------------------------
(* Services.                                                               *)

\* The copies of a rule in an orderly configuration have one name.
LEMMA OrderlyKeys ==
  ASSUME NEW c, IsConf(c), Orderly(c)
  PROVE  UniqueNumbers(c) /\ Enforced(c) /\ KeysAgree(c, {"name"}) /\ {"name"} \subseteq SharedFields
BY AgreeIs DEF Orderly, SharedFields, BlankBody

\* A saved rule is a row, in the scopes and under the name the form has.
RuleIsRow(c, live, svc, u) ==
  LET chains == RuleChainsFor(c.zones, u.sel)
      n == LandsAt(c, live, u, chains)
      d == ApplyRule(c, c, live, svc, u)
  IN  /\ \A s \in chains : <<s, n>> \in DOMAIN d.rule /\ d.rule[<<s, n>>].name = u.name
      /\ \E r \in Rows(d) : r.n = n /\ r.scopes = chains /\ r.body.name = u.name

\* Every rule that is saved becomes one.
LEMMA SavedRow ==
  ASSUME NEW c, IsConf(c), Orderly(c), NEW live \in SUBSET Rows(c), NEW svc,
         NEW u, IsEntry(live, u), TakesFresh(c, live, u), RuleChainsFor(c.zones, u.sel) # {}
  PROVE  RuleIsRow(c, live, svc, u)
<1> DEFINE chains == RuleChainsFor(c.zones, u.sel)
           n == LandsAt(c, live, u, chains)
           kept == Kept(live, chains)
           d == ApplyRule(c, c, live, svc, u)
           r == RowAt(d, chains, n)
<1>1. UniqueNumbers(c) /\ Enforced(c) /\ KeysAgree(c, {"name"}) /\ {"name"} \subseteq SharedFields
  BY OrderlyKeys
<1>2. SavedAs(c, live, u, d, chains, n, kept)
  BY <1>1, SavedWhere
<1>3. \A s \in chains : d.rule[<<s, n>>].name = u.name
  <2>1. WrittenAlike(c, live, svc, u, {"name"})
    BY <1>1, SavedLeaves
  <2>2. \A group : Wanted(c, u, group)["name"] = u.name
    BY DEF Wanted
  <2> QED BY <2>1, <2>2 DEF WrittenAlike
<1>4. IsConf(d)
  BY ApplyRuleTyped
<1>5. chains \subseteq DOMAIN Pairs \/ \E b \in Base : chains = {b}
  BY ChainsAre
<1> HIDE DEF chains, n, kept, d
<1>6. \A s \in chains : <<s, n>> \in DOMAIN d.rule
  BY <1>2 DEF SavedAs
<1>7. r.n = n /\ r.scopes = chains /\ r.body = d.rule[<<Rep(chains), n>>]
  BY DEF RowAt
<1>8. chains # {} /\ Rep(chains) \in chains
  BY <1>5, RepIn DEF chains, Scopes
<1>9. r \in Rows(d)
  <2>1. CASE IsZone(chains)
    <3>1. chains \subseteq d.bound
      BY <1>2, <2>1 DEF SavedAs
    <3>2. ASSUME NEW s \in d.bound, <<s, n>> \in DOMAIN d.rule PROVE s \in chains
      <4> DEFINE k == <<s, n>>
      <4>1. k \in DOMAIN d.rule /\ k[1] = s /\ k[2] = n
        BY <3>2
      <4> HIDE DEF k
      <4> QED BY <1>1, <1>2, <4>1, SavedPlace
    <3>3. chains = Copies(d, n)
      BY <1>6, <3>1, <3>2 DEF Copies
    <3> HIDE DEF r
    <3>4. r = RowAt(d, r.scopes, r.n)
      BY <1>7 DEF r
    <3> QED BY <1>4, <1>7, <1>8, <3>3, <3>4, RowsAre
  <2>2. CASE ~IsZone(chains)
    <3>1. PICK b \in Base : chains = {b}
      BY <1>5, <2>2, PairsAssumption DEF IsZone
    <3> HIDE DEF r
    <3>2. r = RowAt(d, r.scopes, r.n)
      BY <1>7 DEF r
    <3> QED BY <1>4, <1>6, <1>7, <3>1, <3>2, RowsAre
  <2> QED BY <2>1, <2>2
<1>10. r.body.name = u.name
  BY <1>3, <1>7, <1>8
<1> HIDE DEF r
<1>11. \E q \in Rows(d) : q.n = n /\ q.scopes = chains /\ q.body.name = u.name
  BY <1>7, <1>9, <1>10
<1> QED BY <1>3, <1>6, <1>11 DEF RuleIsRow, chains, n, d

\* The number that the services get is the rule's, unless another pair comes to
\* represent it.
LEMMA NumbersSame ==
  ASSUME NEW c, IsConf(c), NEW live \in SUBSET Rows(c), NEW u, IsEntry(live, u), NEW zones, NEW sel,
         RuleChainsFor(zones, sel) # {},
         \A l \in live : IsZone(l.scopes) /\ IsZone(RuleChainsFor(zones, sel)) => Rep(RuleChainsFor(zones, sel)) = Rep(l.scopes)
  PROVE  LandsAt(c, live, u, RuleChainsFor(zones, sel)) = ServicesNumber(c, live, u, RuleChainsFor(zones, sel))
<1> DEFINE chains == RuleChainsFor(zones, sel)
<1>1. chains \subseteq DOMAIN Pairs \/ \E b \in Base : chains = {b}
  BY ChainsAre
<1>2. chains # {} /\ \A l \in live : IsZone(l.scopes) /\ IsZone(chains) => Rep(chains) = Rep(l.scopes)
  OBVIOUS
<1> HIDE DEF chains
<1>3. Rep(chains) \in chains
  BY <1>1, <1>2, RepIn DEF Scopes
<1>4. ASSUME NEW l \in live
      PROVE  Rep(l.scopes) # Rep(chains) <=> IsZone(l.scopes) # IsZone(chains) \/ (~IsZone(chains) /\ l.scopes # chains)
  <2>1. /\ Rep(l.scopes) \in l.scopes /\ l.scopes # {}
        /\ l.scopes \subseteq DOMAIN Pairs \/ \E b \in Base : l.scopes = {b}
    BY RowTyped DEF IsRow
  <2>2. CASE IsZone(chains) /\ IsZone(l.scopes)
    BY <1>2, <2>2
  <2>3. CASE IsZone(chains) # IsZone(l.scopes)
    BY <1>1, <1>3, <2>1, <2>3, PairsAssumption DEF IsZone
  <2>4. CASE ~IsZone(chains) /\ ~IsZone(l.scopes)
    <3>1. \E b \in Base : chains = {b}
      BY <1>1, <2>4, PairsAssumption DEF IsZone
    <3>2. \E b \in Base : l.scopes = {b}
      BY <2>1, <2>4, PairsAssumption DEF IsZone
    <3> QED BY <1>3, <2>1, <2>4, <3>1, <3>2
  <2> QED BY <2>2, <2>3, <2>4
<1>5. Rebuilt(live, chains) <=> \E l \in live : Rep(l.scopes) # Rep(chains)
  BY <1>4 DEF Rebuilt
<1> QED BY <1>5 DEF LandsAt, ServicesNumber, chains

\* What a save leaves of the rules that services refer to: those of other
\* numbers than the ones it leaves and lands on, and of the number it lands on
\* the copies outside its scopes that it never had.
LEMMA SaveLeaves ==
  ASSUME NEW c, IsConf(c), Enforced(c), NEW live \in SUBSET Rows(c), NEW svc,
         NEW u, IsEntry(live, u), TakesFresh(c, live, u), NEW k \in DOMAIN c.rule,
         LET chains == RuleChainsFor(c.zones, u.sel)
             n == LandsAt(c, live, u, chains)
         IN  /\ k[2] # n => k[2] \notin {l.n : l \in live}
             /\ k[2] = n => k[1] \notin chains /\ (IsZone(chains) => k[1] \in Base)
  PROVE  LET d == ApplyRule(c, c, live, svc, u) IN k \in DOMAIN d.rule /\ d.rule[k] = c.rule[k]
<1> DEFINE chains == RuleChainsFor(c.zones, u.sel)
           n == LandsAt(c, live, u, chains)
           kept == Kept(live, chains)
           d == ApplyRule(c, c, live, svc, u)
<1>1. SavedAs(c, live, u, d, chains, n, kept)
  BY SavedWhere
<1>2. RuleLands(c, live, u, chains)
  BY LandsWhere
<1>3. k[1] \in Base \cup c.bound
  BY AllInSight DEF InSight
<1>4. c.bound \cap Base = {}
  BY PairsAssumption DEF IsConf
<1>5. /\ k[2] # n => k[2] \notin {l.n : l \in live}
      /\ k[2] = n => k[1] \notin chains /\ (IsZone(chains) => k[1] \in Base)
  OBVIOUS
<1>6. kept = {} => \A r \in Rows(c) : r.n # n
  BY <1>2 DEF RuleLands
<1>7. \A l \in kept : /\ kept = {l} /\ live = {l}
                      /\ IsZone(l.scopes) <=> IsZone(chains)
                      /\ ~IsZone(chains) => l.scopes = chains
  BY <1>2 DEF RuleLands
<1> HIDE DEF chains, n, kept, d
<1>8. ASSUME NEW l \in live, k[2] = l.n, k[1] \in l.scopes PROVE FALSE
  <2>1. l.n = n /\ k[1] \notin chains /\ (IsZone(chains) => k[1] \in Base)
    BY <1>5, <1>8
  <2>2. PICK m \in kept : TRUE
    BY <1>6, <2>1
  <2>3. m = l
    BY <1>7, <2>2
  <2>4. IsZone(chains) /\ IsZone(l.scopes)
    BY <1>7, <1>8, <2>1, <2>2, <2>3
  <2> QED BY <1>8, <2>1, <2>4 DEF IsZone
<1>9. k \in DOMAIN d.rule
  BY <1>1, <1>3, <1>8 DEF SavedAs
<1>10. d.rule[k] = c.rule[k]
  BY <1>1, <1>5, <1>9 DEF SavedAs
<1> QED BY <1>9, <1>10 DEF d

\* What SslCommands makes of a rule's policy: each that is there afterwards is
\* the rule's, a forward rule's, or one that was there, of a number the rule
\* neither left nor has.
SslAre(c, d, gone, n, action, of) ==
  \A m \in DOMAIN d.ssl :
    \/ m = n /\ action # None /\ d.ssl[m].of = of
    \/ m \in DOMAIN c.ssl /\ d.ssl[m] = c.ssl[m] /\ m # n /\ m \notin gone

\* SslCommands sets it so.
LEMMA SslCommandsIs ==
  ASSUME NEW c, IsConf(c), NEW gone, NEW n, NEW action, NEW of
  PROVE  SslAre(c, SslCommands(c, c.ssl, gone, n, action, of), gone, n, action, of)
<1> DEFINE d == SslCommands(c, c.ssl, gone, n, action, of)
           mine == [m \in {n} |-> [action |-> action, off |-> n \in DOMAIN c.ssl \ DOMAIN c.ssl /\ c.ssl[n].off, of |-> of]]
           S == IF action = None THEN Without(c.ssl, DOMAIN c.ssl \cap (gone \cup {n}))
                ELSE Over(mine, Without(c.ssl, DOMAIN c.ssl \cap gone))
<1>1. d = [c EXCEPT !.ssl = S]
  BY Zenon DEF SslCommands
<1>2. d.ssl = S
  BY <1>1 DEF IsConf, ConfFields
<1> HIDE DEF d
<1> SUFFICES ASSUME NEW m \in DOMAIN S
             PROVE  \/ m = n /\ action # None /\ S[m].of = of
                    \/ m \in DOMAIN c.ssl /\ S[m] = c.ssl[m] /\ m # n /\ m \notin gone
  BY <1>2 DEF SslAre, d
<1>3. CASE action = None
  BY <1>3 DEF Without
<1>4. CASE action # None
  <2> DEFINE rest == Without(c.ssl, DOMAIN c.ssl \cap gone)
  <2>1. DOMAIN rest = DOMAIN c.ssl \ (DOMAIN c.ssl \cap gone) /\ \A x \in DOMAIN rest : rest[x] = c.ssl[x]
    BY DEF Without
  <2>2. DOMAIN mine = {n} /\ mine[n].of = of
    OBVIOUS
  <2>3. S = Over(mine, rest)
    BY <1>4
  <2> HIDE DEF rest, mine, S
  <2>4. m \in {n} \cup DOMAIN rest /\ S[m] = IF m \in {n} THEN mine[m] ELSE rest[m]
    BY <2>2, <2>3 DEF Over
  <2> QED BY <1>4, <2>1, <2>2, <2>4
<1> QED BY <1>3, <1>4

\* A rule saved with its services: what becomes of the policies there are.
ServicesSet(c, live, v, u) ==
  LET chains == RuleChainsFor(c.zones, u.sel)
      n == ServicesNumber(c, live, u, chains)
      gone == {l.n : l \in live} \ {n}
      d == ApplyRule(c, c, live, {v}, u)
  IN  /\ GeoAre(c, d, c.geo, gone, n, chains, u.name)
      /\ \E action : (action # None => chains = {"forward"}) /\ SslAre(c, d, gone, n, action, u.name)

\* Saving it sets them so.
LEMMA SavedServices ==
  ASSUME NEW c, IsConf(c), NEW live \in SUBSET Rows(c), NEW v, v.geo = c.geo, v.ssl = c.ssl, NEW u, IsEntry(live, u)
  PROVE  ServicesSet(c, live, v, u)
<1> DEFINE chains == RuleChainsFor(c.zones, u.sel)
           n == ServicesNumber(c, live, u, chains)
           gone == {l.n : l \in live} \ {n}
           c1 == DiffRule(c, c, live, u)
           inspect == IF chains = {"forward"} /\ u.action = "accept" THEN u.ssl ELSE None
           block == IF u.action = "accept" THEN u.geo ELSE None
           c2 == SslCommands(c1, c.ssl, gone, n, inspect, u.name)
           d == GeoCommands(c2, c.geo, gone, n, chains, block, u.name)
<1>1. ApplyRule(c, c, live, {v}, u) = d
  <2>1. (CHOOSE x \in {v} : TRUE) = v /\ {v} # {}
    OBVIOUS
  <2> QED BY <2>1, Zenon DEF ApplyRule
<1>2. IsConf(c1) /\ c1.geo = c.geo /\ c1.ssl = c.ssl
  <2>1. RuleSaved(c, live, u)
    BY DiffRuleIs
  <2>2. \A f \in {"zones", "geo", "ssl", "protocol", "drop"} : c1[f] = c[f]
    BY <2>1, Zenon DEF RuleSaved
  <2> HIDE DEF c1
  <2>3. c1.geo = c.geo /\ c1.ssl = c.ssl
    BY <2>2
  <2> QED BY <2>3, DiffRuleTyped DEF c1
<1> HIDE DEF chains, n, gone, c1
<1>3. IsConf(c2)
  BY <1>2, ConfTyped DEF SslCommands
<1>4. SslAre(c1, c2, gone, n, inspect, u.name)
  BY <1>2, SslCommandsIs
<1>5. c2.geo = c.geo
  BY <1>2 DEF SslCommands, IsConf
<1>6. inspect # None => chains = {"forward"}
  OBVIOUS
<1> HIDE DEF c2, inspect, block
<1>7. GeoAre(c2, d, c.geo, gone, n, chains, u.name) /\ \A f \in ConfFields \ {"geo"} : d[f] = c2[f]
  BY <1>3, GeoCommandsIs
<1> HIDE DEF d
<1>8. d.ssl = c2.ssl
  BY <1>7 DEF ConfFields
<1>9. GeoAre(c, d, c.geo, gone, n, chains, u.name)
  BY <1>5, <1>7 DEF GeoAre
<1>10. SslAre(c, d, gone, n, inspect, u.name)
  BY <1>2, <1>4, <1>8 DEF SslAre
<1>11. \E action : (action # None => chains = {"forward"}) /\ SslAre(c, d, gone, n, action, u.name)
  BY <1>6, <1>10
<1> QED BY <1>1, <1>9, <1>11, Zenon DEF ServicesSet, chains, n, gone

\* Where the services get the rule's number, those of geolocation and of SSL
\* inspection stay with their rules through a save,
LEMMA SaveServices ==
  ASSUME NEW c, IsConf(c), Orderly(c), NEW live \in SUBSET Rows(c), NEW v, v.geo = c.geo, v.ssl = c.ssl,
         NEW u, IsEntry(live, u), TakesFresh(c, live, u), RuleChainsFor(c.zones, u.sel) # {},
         LandsAt(c, live, u, RuleChainsFor(c.zones, u.sel)) = ServicesNumber(c, live, u, RuleChainsFor(c.zones, u.sel))
  PROVE  LET d == ApplyRule(c, c, live, {v}, u)
         IN (GeoSound(c) => GeoSound(d)) /\ (SslSound(c) => SslSound(d))
<1> DEFINE chains == RuleChainsFor(c.zones, u.sel)
           n == LandsAt(c, live, u, chains)
           gone == {l.n : l \in live} \ {n}
           d == ApplyRule(c, c, live, {v}, u)
<1>1. n = ServicesNumber(c, live, u, chains)
  OBVIOUS
<1>2. PICK action : /\ GeoAre(c, d, c.geo, gone, n, chains, u.name)
                    /\ action # None => chains = {"forward"}
                    /\ SslAre(c, d, gone, n, action, u.name)
  <2>1. ServicesSet(c, live, v, u)
    BY SavedServices
  <2> QED BY <1>1, <2>1, Zenon DEF ServicesSet
<1>3. \A s \in chains : <<s, n>> \in DOMAIN d.rule /\ d.rule[<<s, n>>].name = u.name
  <2>1. RuleIsRow(c, live, {v}, u)
    BY SavedRow
  <2> QED BY <2>1, Zenon DEF RuleIsRow
<1>4. ASSUME NEW k \in DOMAIN c.rule, k[2] # n => k[2] \notin gone,
             k[2] = n => k[1] \notin chains /\ (IsZone(chains) => k[1] \in Base)
      PROVE  k \in DOMAIN d.rule /\ d.rule[k] = c.rule[k]
  <2>1. Enforced(c)
    BY DEF Orderly
  <2> QED BY <1>4, <2>1, SaveLeaves
<1> HIDE DEF chains, n, gone, d
<1>5. ASSUME GeoSound(c) PROVE GeoSound(d)
  <2> SUFFICES ASSUME NEW i \in DOMAIN d.geo
               PROVE  LET k == <<d.geo[i].scope, d.geo[i].n>> IN k \in DOMAIN d.rule /\ d.rule[k].name = d.geo[i].of
    BY DEF GeoSound
  <2> DEFINE k == <<d.geo[i].scope, d.geo[i].n>>
  <2>1. CASE d.geo[i].scope \in chains /\ d.geo[i].n = n /\ d.geo[i].of = u.name
    BY <1>3, <2>1
  <2>2. CASE /\ i \in DOMAIN c.geo /\ d.geo[i] = c.geo[i]
             /\ c.geo[i].n = n => c.geo[i].scope \notin chains /\ (IsZone(chains) => c.geo[i].scope \in Base)
             /\ c.geo[i].n # n => c.geo[i].n \notin gone
    <3>1. k \in DOMAIN c.rule /\ c.rule[k].name = d.geo[i].of
      BY <1>5, <2>2 DEF GeoSound
    <3>2. k[1] = c.geo[i].scope /\ k[2] = c.geo[i].n
      BY <2>2
    <3> HIDE DEF k
    <3>3. k \in DOMAIN d.rule /\ d.rule[k] = c.rule[k]
      BY <1>4, <2>2, <3>1, <3>2
    <3> QED BY <3>1, <3>3 DEF k
  <2> QED BY <1>2, <2>1, <2>2 DEF GeoAre
<1>6. ASSUME SslSound(c) PROVE SslSound(d)
  <2> SUFFICES ASSUME NEW m \in DOMAIN d.ssl
               PROVE  <<"forward", m>> \in DOMAIN d.rule /\ d.rule[<<"forward", m>>].name = d.ssl[m].of
    BY DEF SslSound
  <2>1. CASE m = n /\ action # None /\ d.ssl[m].of = u.name
    BY <1>2, <1>3, <2>1
  <2>2. CASE m \in DOMAIN c.ssl /\ d.ssl[m] = c.ssl[m] /\ m # n /\ m \notin gone
    <3> DEFINE k == <<"forward", m>>
    <3>1. k \in DOMAIN c.rule /\ c.rule[k].name = d.ssl[m].of
      BY <1>6, <2>2 DEF SslSound
    <3>2. k[2] = m
      OBVIOUS
    <3> HIDE DEF k
    <3>3. k \in DOMAIN d.rule /\ d.rule[k] = c.rule[k]
      BY <1>4, <2>2, <3>1, <3>2
    <3> QED BY <3>1, <3>3 DEF k
  <2> QED BY <1>2, <2>1, <2>2 DEF SslAre
<1> QED BY <1>5, <1>6 DEF d

\* and so do App Control's bindings once their store is written.
LEMMA SaveBindings ==
  ASSUME NEW c, IsConf(c), Orderly(c), NEW live \in SUBSET Rows(c), NEW svc, NEW v, AcSound(c, v.ac),
         NEW u, IsEntry(live, u), TakesFresh(c, live, u), RuleChainsFor(c.zones, u.sel) # {},
         LandsAt(c, live, u, RuleChainsFor(c.zones, u.sel)) = ServicesNumber(c, live, u, RuleChainsFor(c.zones, u.sel))
  PROVE  AcSound(ApplyRule(c, c, live, svc, u), AcAfter(c, live, v, u))
<1> DEFINE chains == RuleChainsFor(c.zones, u.sel)
           n == LandsAt(c, live, u, chains)
           gone == {l.n : l \in live} \ {n}
           action == AcAction(c, u)
           d == ApplyRule(c, c, live, svc, u)
           a == NextAc(v.ac, gone, n, action, u.name, u.sel)
<1>1. AcAfter(c, live, v, u) = a
  BY DEF AcAfter
<1>2. \E r \in Rows(d) : r.n = n /\ r.body.name = u.name
  <2>1. RuleIsRow(c, live, svc, u)
    BY SavedRow
  <2> QED BY <2>1, Zenon DEF RuleIsRow
<1>3. \A r \in Rows(c) \ live : r \in Rows(d)
  BY SaveKeepsRows DEF Orderly
<1>4. \A r \in live : r.n = n \/ r.n \in gone
  OBVIOUS
<1> HIDE DEF chains, n, gone, d, action
<1>5. ASSUME NEW m \in DOMAIN a
      PROVE  \/ m = n /\ a[m].of = u.name
             \/ m \in DOMAIN v.ac /\ a[m] = v.ac[m] /\ m # n /\ m \notin gone
  <2>1. CASE action = None
    BY <1>5, <2>1 DEF NextAc, Without
  <2>2. CASE action # None
    <3> DEFINE mine == [x \in {n} |-> [action |-> action, of |-> u.name, match |-> u.sel]]
               rest == Without(v.ac, gone)
    <3>1. a = Over(mine, rest)
      BY <2>2 DEF NextAc
    <3>2. DOMAIN rest = DOMAIN v.ac \ gone /\ \A x \in DOMAIN rest : rest[x] = v.ac[x]
      BY DEF Without
    <3>3. DOMAIN mine = {n} /\ mine[n].of = u.name
      OBVIOUS
    <3> HIDE DEF mine, rest, a
    <3>4. m \in {n} \cup DOMAIN rest /\ a[m] = IF m \in {n} THEN mine[m] ELSE rest[m]
      BY <1>5, <3>1, <3>3 DEF Over
    <3> QED BY <3>2, <3>3, <3>4
  <2> QED BY <2>1, <2>2
<1> HIDE DEF a
<1>6. ASSUME NEW m \in DOMAIN a PROVE \E r \in Rows(d) : r.n = m /\ r.body.name = a[m].of
  <2>1. CASE m = n /\ a[m].of = u.name
    BY <1>2, <2>1
  <2>2. CASE m \in DOMAIN v.ac /\ a[m] = v.ac[m] /\ m # n /\ m \notin gone
    <3>1. PICK r \in Rows(c) : r.n = m /\ r.body.name = v.ac[m].of
      BY <2>2 DEF AcSound
    <3>2. r \in Rows(d)
      BY <1>3, <1>4, <2>2, <3>1
    <3> QED BY <2>2, <3>1, <3>2
  <2> QED BY <1>5, <2>1, <2>2
<1>7. AcSound(d, a)
  BY <1>6 DEF AcSound
<1> QED BY <1>1, <1>7 DEF d

\* A deleted rule takes the geolocation policies of its copies with it.
LEMMA DeleteGeo ==
  ASSUME NEW c, IsConf(c), GeoSound(c), NEW r \in Rows(c)
  PROVE  GeoSound(DeleteRule(c, c, r, TRUE))
<1> DEFINE e == DropCopies(c, c, r.scopes, r.n)
           c2 == [e EXCEPT !.group = @ \ (r.body.group \cap c.group)]
           d == DeleteRule(c, c, r, TRUE)
           E == EmptyPairs(c, r.scopes, r.n)
<1>1. d = [c2 EXCEPT !.geo = Without(@, {i \in DOMAIN @ : @[i].n = r.n /\ @[i].scope \in r.scopes})]
  BY DEF DeleteRule
<1>2. /\ DOMAIN e.rule = {k \in DOMAIN c.rule : k \notin r.scopes \X {r.n} /\ k[1] \notin E}
      /\ \A k \in DOMAIN e.rule : e.rule[k] = c.rule[k]
      /\ \A f \in ConfFields \ {"rule", "bound"} : e[f] = c[f]
  BY DropIs
<1>3. IsConf(e)
  BY DropCopiesTyped
<1>4. \A p \in c.bound : p \in E <=> p \in r.scopes /\ \A k \in DOMAIN c.rule : k[1] = p => k[2] = r.n
  BY EmptyPairsAre
<1>5. E \subseteq c.bound
  BY DEF EmptyPairs
<1> HIDE DEF e, E
<1>6. DOMAIN c2 = ConfFields /\ c2.geo = e.geo /\ c2.rule = e.rule
  BY <1>3 DEF IsConf, ConfFields
<1> HIDE DEF c2, d
<1>7. d.geo = Without(c2.geo, {i \in DOMAIN c2.geo : c2.geo[i].n = r.n /\ c2.geo[i].scope \in r.scopes}) /\ d.rule = c2.rule
  BY <1>1, <1>6 DEF ConfFields
<1>8. d.rule = e.rule /\ c2.geo = c.geo
  BY <1>2, <1>6, <1>7 DEF ConfFields
<1>9. ASSUME NEW i \in DOMAIN d.geo
      PROVE  LET k == <<d.geo[i].scope, d.geo[i].n>> IN k \in DOMAIN d.rule /\ d.rule[k].name = d.geo[i].of
  <2> DEFINE k == <<d.geo[i].scope, d.geo[i].n>>
  <2>1. i \in DOMAIN c.geo /\ d.geo[i] = c.geo[i] /\ ~(d.geo[i].n = r.n /\ d.geo[i].scope \in r.scopes)
    BY <1>7, <1>8, <1>9 DEF Without
  <2>2. k \in DOMAIN c.rule /\ c.rule[k].name = d.geo[i].of
    BY <2>1 DEF GeoSound
  <2>3. k \notin r.scopes \X {r.n}
    BY <2>1
  <2>4. k[1] \notin E
    BY <1>4, <1>5, <2>1, <2>2
  <2>5. k \in DOMAIN e.rule
    BY <1>2, <2>2, <2>3, <2>4
  <2> QED BY <1>2, <1>8, <2>2, <2>5
<1>10. GeoSound(d)
  BY <1>9 DEF GeoSound
<1> QED BY <1>10 DEF d

\* A reorder takes geolocation policies along with their rules.
LEMMA ReorderGeo ==
  ASSUME NEW c, IsConf(c), Enforced(c), GeoSound(c), NEW o \in Arrangements(Rows(c))
  PROVE  GeoSound(Reordered(c, c, o, TRUE))
<1> DEFINE d == Reordered(c, c, o, TRUE)
           target(g) == {i \in Moved(o) : g.n = o[i].n /\ g.scope \in o[i].scopes}
           moved == [j \in DOMAIN c.geo |-> IF target(c.geo[j]) = {} THEN c.geo[j] ELSE [c.geo[j] EXCEPT !.n = Max(target(c.geo[j]))]]
<1>1. AtPositions(c, o, d)
  BY ReorderWhere
<1>2. d.geo = moved
  <2>1. PICK R : d = [c EXCEPT !.rule = R, !.geo = moved]
    BY Zenon DEF Reordered
  <2> HIDE DEF moved, d
  <2> QED BY <2>1 DEF IsConf, ConfFields
<1>3. /\ \A i \in DOMAIN o : \A s \in o[i].scopes : <<s, i>> \in DOMAIN d.rule /\ d.rule[<<s, i>>] = c.rule[<<s, o[i].n>>]
  BY <1>1 DEF AtPositions
<1>4. /\ DOMAIN o \subseteq Nat \ {0}
      /\ \A i \in DOMAIN o : o[i] \in Rows(c)
      /\ \A i, j \in DOMAIN o : o[i] = o[j] => i = j
      /\ \A r \in Rows(c) : \E i \in DOMAIN o : o[i] = r
  BY ArrangementTyped
<1> HIDE DEF d
<1>5. ASSUME NEW j \in DOMAIN c.geo
      PROVE  \E i \in DOMAIN o : /\ c.geo[j].n = o[i].n /\ c.geo[j].scope \in o[i].scopes
                                 /\ c.rule[<<c.geo[j].scope, o[i].n>>].name = c.geo[j].of
                                 /\ moved[j].n = i /\ moved[j].scope = c.geo[j].scope /\ moved[j].of = c.geo[j].of
  <2> DEFINE g == c.geo[j]
             k == <<g.scope, g.n>>
  <2>1. k \in DOMAIN c.rule /\ c.rule[k].name = g.of
    BY DEF GeoSound
  <2>2. k[1] \in Base \cup c.bound
    BY <2>1, AllInSight DEF InSight
  <2>3. \E r \in Rows(c) : r.n = k[2] /\ k[1] \in r.scopes
    BY <2>1, <2>2, RowOf
  <2>4. PICK i \in DOMAIN o : o[i].n = g.n /\ g.scope \in o[i].scopes
    BY <1>4, <2>3
  <2>5. \A m \in DOMAIN o : o[m].n = g.n /\ g.scope \in o[m].scopes => m = i
    BY <1>4, <2>4, RowsApart
  <2>6. DOMAIN g = {"scope", "n", "action", "off", "of"}
    BY DEF IsConf, IsGeo
  <2> HIDE DEF g
  <2>7. target(g) = {m \in {i} : o[m].n # m}
    BY <2>4, <2>5 DEF Moved
  <2> HIDE DEF target
  <2>8. moved[j] = IF target(g) = {} THEN g ELSE [g EXCEPT !.n = Max(target(g))]
    BY DEF g
  <2> HIDE DEF moved
  <2>9. moved[j].n = i /\ moved[j].scope = g.scope /\ moved[j].of = g.of
    <3>1. CASE o[i].n = i
      BY <2>4, <2>7, <2>8, <3>1
    <3>2. CASE o[i].n # i
      <4>1. target(g) = {i} /\ i \in Nat
        BY <1>4, <2>7, <3>2
      <4>2. IsFiniteSet({i}) /\ {i} \subseteq Nat /\ {i} # {}
        BY <4>1, FS_Singleton
      <4>3. Max({i}) \in {i}
        BY <4>2, MaxIn
      <4>4. moved[j] = [g EXCEPT !.n = i]
        BY <2>8, <4>1, <4>3
      <4> QED BY <2>6, <4>4
    <3> QED BY <3>1, <3>2
  <2> QED BY <2>1, <2>4, <2>9 DEF g
<1>6. DOMAIN moved = DOMAIN c.geo
  OBVIOUS
<1> HIDE DEF moved
<1>7. GeoSound(d)
  <2> SUFFICES ASSUME NEW j \in DOMAIN c.geo
               PROVE  LET k == <<moved[j].scope, moved[j].n>> IN k \in DOMAIN d.rule /\ d.rule[k].name = moved[j].of
    BY <1>2, <1>6 DEF GeoSound
  <2>1. PICK i \in DOMAIN o : /\ c.geo[j].n = o[i].n /\ c.geo[j].scope \in o[i].scopes
                              /\ c.rule[<<c.geo[j].scope, o[i].n>>].name = c.geo[j].of
                              /\ moved[j].n = i /\ moved[j].scope = c.geo[j].scope /\ moved[j].of = c.geo[j].of
    BY <1>5
  <2> QED BY <1>3, <2>1
<1> QED BY <1>7 DEF d

\* A setting leaves them, and the names of rules.
LEMMA SettingGeo ==
  ASSUME NEW c, NEW d, SettingIs(c, d), \A z \in c.zones \ d.zones : ZonePairs(c, z) = {}, GeoSound(c)
  PROVE  GeoSound(d)
<1>1. "name" \in FormFields
  BY DEF FormFields, SharedFields, BlankBody
<1>2. DOMAIN d.rule = DOMAIN c.rule /\ d.geo = c.geo /\ \A k \in DOMAIN c.rule : d.rule[k].name = c.rule[k].name
  BY <1>1 DEF SettingIs
<1> QED BY <1>2 DEF GeoSound

\* What is saved from a form that shows what runs, and what App Control's store
\* is to be afterwards.
LEMMA SubmitIs ==
  ASSUME TypeOK, form # Closed, page = conf, FreshRule, ServicesRead, NEW e \in Entries(form.u), SubmitAs(e)
  PROVE  LET u == Numbered(e)
             x == AcAfter(conf, form.live, Services, u)
         IN  /\ IsEntry(form.live, u) /\ TakesFresh(conf, form.live, u) /\ RuleChainsFor(conf.zones, u.sel) # {}
             /\ form.live \subseteq Rows(conf) /\ form.svc = {Services}
             /\ conf' = ApplyRule(conf, conf, form.live, {Services}, u)
             /\ x = ac => op' = Idle
             /\ x # ac => op' = [kind |-> "put", next |-> x, sound |-> BindingsSound /\ FreshRule /\ ServicesRead /\ NumbersAgree(u)]
<1> DEFINE u == Numbered(e)
           nexts == {AcAfter(page, form.live, v, u) : v \in form.svc}
           writes == {x \in nexts : \A v \in form.svc : x # v.ac}
           sound == BindingsSound /\ FreshRule /\ ServicesRead /\ NumbersAgree(u)
<1>1. /\ RuleChainsFor(page.zones, u.sel) # {}
      /\ \/ CommitTo(ApplyRule(conf, page, form.live, form.svc, u))
         \/ ApplyRule(conf, page, form.live, form.svc, u) = conf /\ UNCHANGED conf
      /\ op' = IF writes = {} THEN Idle ELSE [kind |-> "put", next |-> CHOOSE x \in writes : TRUE, sound |-> sound]
  BY Zenon DEF SubmitAs
<1>3. IsEntry(form.live, u)
  BY SubmissionTyped
<1>4. TakesFresh(conf, form.live, u)
  <2>1. DOMAIN e = {"n", "name", "sel", "action", "ips", "log", "policy", "many", "geo", "ssl", "ac"}
    BY EntriesTyped DEF TypeOK
  <2> QED BY <2>1 DEF TakesFresh, Numbered
<1>5. form.live \subseteq Rows(conf) /\ form.svc = {Services} /\ Services.ac = ac
  BY DEF FreshRule, ServicesRead, Services, Read
<1> HIDE DEF u
<1>6. conf' = ApplyRule(conf, conf, form.live, {Services}, u)
  BY <1>1, <1>5 DEF CommitTo
<1> DEFINE x == AcAfter(conf, form.live, Services, u)
<1>7. nexts = {x}
  BY <1>5
<1>8. writes = IF x = ac THEN {} ELSE {x}
  BY <1>5, <1>7
<1> HIDE DEF nexts, writes, x
<1>9. op' = IF x = ac THEN Idle ELSE [kind |-> "put", next |-> x, sound |-> sound]
  <2>1. x # ac => (CHOOSE y \in writes : TRUE) = x
    BY <1>8
  <2> HIDE DEF sound
  <2> QED BY <1>1, <1>8, <2>1
<1> HIDE DEF sound
<1>10. (x = ac => op' = Idle) /\ (x # ac => op' = [kind |-> "put", next |-> x, sound |-> sound])
  BY <1>9
<1>11. RuleChainsFor(conf.zones, u.sel) # {}
  BY <1>1
<1> QED BY <1>3, <1>4, <1>5, <1>6, <1>10, <1>11, Zenon DEF x, sound, u

\* The bindings after a cascade.
Cascaded(a, move) ==
  LET to(n) == IF n \in DOMAIN move THEN move[n] ELSE n
  IN [m \in {to(n) : n \in DOMAIN a} \ {0} |-> a[CHOOSE n \in DOMAIN a : to(n) = m]]

\* A deletion's cascade leaves the bindings of the other rules,
LEMMA DeleteBindings ==
  ASSUME NEW c, IsConf(c), Orderly(c), NEW a, DOMAIN a \subseteq Nat, AcSound(c, a), NEW r \in Rows(c), NEW geoRead
  PROVE  AcSound(DeleteRule(c, c, r, geoRead), Cascaded(a, [n \in {r.n} |-> 0]))
<1> DEFINE d == DeleteRule(c, c, r, geoRead)
           move == [n \in {r.n} |-> 0]
           to(n) == IF n \in DOMAIN move THEN move[n] ELSE n
           b == Cascaded(a, move)
<1>1. \A q \in Rows(c) : q.n # r.n => q \in Rows(d)
  BY DeleteKeepsRows DEF Orderly
<1> HIDE DEF d
<1>2. \A n : to(n) = IF n = r.n THEN 0 ELSE n
  OBVIOUS
<1>3. b = [m \in {to(n) : n \in DOMAIN a} \ {0} |-> a[CHOOSE n \in DOMAIN a : to(n) = m]]
  BY DEF Cascaded
<1> HIDE DEF b, to
<1>4. ASSUME NEW m \in DOMAIN b PROVE m \in DOMAIN a /\ m # r.n /\ b[m] = a[m]
  <2>1. PICK n \in DOMAIN a : to(n) = m /\ m # 0
    BY <1>3, <1>4
  <2>2. n = m /\ m # r.n
    BY <1>2, <2>1
  <2>3. \A k \in DOMAIN a : to(k) = m => k = m
    BY <1>2, <2>1
  <2>4. (CHOOSE k \in DOMAIN a : to(k) = m) = m
    BY <2>1, <2>2, <2>3
  <2> QED BY <1>3, <1>4, <2>2, <2>4
<1>5. AcSound(d, b)
  <2> SUFFICES ASSUME NEW m \in DOMAIN b PROVE \E q \in Rows(d) : q.n = m /\ q.body.name = b[m].of
    BY DEF AcSound
  <2>1. m \in DOMAIN a /\ m # r.n /\ b[m] = a[m]
    BY <1>4
  <2>2. PICK q \in Rows(c) : q.n = m /\ q.body.name = a[m].of
    BY <2>1 DEF AcSound
  <2> QED BY <1>1, <2>1, <2>2
<1> QED BY <1>5 DEF b, d

\* and a reorder's takes them to the rules' new numbers.
LEMMA ReorderBindings ==
  ASSUME NEW c, IsConf(c), Orderly(c), NEW a, AcSound(c, a), NEW o \in Arrangements(Rows(c)), NEW geoRead,
         NEW move, move = [n \in {o[i].n : i \in DOMAIN o} |-> CHOOSE i \in DOMAIN o : o[i].n = n]
  PROVE  AcSound(Reordered(c, c, o, geoRead), Cascaded(a, move))
<1> DEFINE d == Reordered(c, c, o, geoRead)
           to(n) == IF n \in DOMAIN move THEN move[n] ELSE n
           b == Cascaded(a, move)
<1>1. AtPositions(c, o, d) /\ IsConf(d)
  BY ReorderWhere, ReorderedTyped
<1> HIDE DEF d
<1>2. MovedWhole(c, d, move)
  BY <1>1, ReorderMoves DEF Orderly
<1>3. \A r \in Rows(c) : \E i \in DOMAIN o : o[i] = r
  BY ArrangementTyped
<1>4. ASSUME NEW n \in DOMAIN a PROVE to(n) = move[n] /\ move[n] \in DOMAIN o /\ o[move[n]].n = n
  <2>1. PICK r \in Rows(c) : r.n = n
    BY DEF AcSound
  <2>2. PICK i \in DOMAIN o : o[i].n = n
    BY <1>3, <2>1
  <2>3. n \in DOMAIN move /\ move[n] = CHOOSE j \in DOMAIN o : o[j].n = n
    BY <2>2
  <2> QED BY <2>2, <2>3
<1>5. b = [m \in {to(n) : n \in DOMAIN a} \ {0} |-> a[CHOOSE n \in DOMAIN a : to(n) = m]]
  BY DEF Cascaded
<1> HIDE DEF b, to
<1>6. ASSUME NEW m \in DOMAIN b PROVE \E n \in DOMAIN a : move[n] = m /\ b[m] = a[n]
  <2>1. PICK n \in DOMAIN a : to(n) = m
    BY <1>5, <1>6
  <2> DEFINE k == CHOOSE k \in DOMAIN a : to(k) = m
  <2>2. k \in DOMAIN a /\ to(k) = m
    BY <2>1
  <2>3. b[m] = a[k]
    BY <1>5, <1>6
  <2> QED BY <1>4, <2>2, <2>3
<1>7. AcSound(d, b)
  <2> SUFFICES ASSUME NEW m \in DOMAIN b PROVE \E q \in Rows(d) : q.n = m /\ q.body.name = b[m].of
    BY DEF AcSound
  <2>1. PICK n \in DOMAIN a : move[n] = m /\ b[m] = a[n]
    BY <1>6
  <2>2. PICK r \in Rows(c) : r.n = n /\ r.body.name = a[n].of
    BY DEF AcSound
  <2> DEFINE q == [r EXCEPT !.n = move[@]]
  <2>3. r = [n |-> r.n, scopes |-> r.scopes, body |-> r.body]
    BY RowTyped DEF IsRow
  <2>4. q.n = m /\ q.body = r.body
    BY <2>1, <2>2, <2>3
  <2>5. q \in Rows(d)
    BY <1>2 DEF MovedWhole
  <2> QED BY <2>1, <2>2, <2>4, <2>5
<1> QED BY <1>7 DEF b, d

\* The write that is still to follow a sound commit leaves App Control's
\* bindings with their rules.
WriteSound ==
  /\ op # Idle /\ op.kind = "put" /\ op.sound => AcSound(conf, op.next)
  /\ op # Idle /\ op.kind = "cascade" /\ op.sound => AcSound(conf, Cascaded(ac, op.move))

\* It is so from a save,
LEMMA SubmitWrites ==
  ASSUME TypeOK, Submit, op' # Idle, op'.sound
  PROVE  op'.kind = "put" /\ AcSound(conf', op'.next)
<1>0. PICK e \in Entries(form.u) : SubmitAs(e)
  BY DEF Submit
<1> DEFINE w == Numbered(e)
<1>1. PICK x : op' = [kind |-> "put", next |-> x, sound |-> BindingsSound /\ FreshRule /\ ServicesRead /\ NumbersAgree(w)]
  BY <1>0, Zenon DEF SubmitAs
<1>2. BindingsSound /\ FreshRule /\ ServicesRead /\ NumbersAgree(w)
  BY <1>1
<1>3. page = conf /\ AcSound(conf, ac) /\ Orderly(conf) /\ IsConf(conf) /\ form # Closed
  BY <1>2 DEF BindingsSound, TypeOK, Submit
<1> HIDE DEF w
<1>4. /\ IsEntry(form.live, w) /\ TakesFresh(conf, form.live, w) /\ RuleChainsFor(conf.zones, w.sel) # {}
      /\ form.live \subseteq Rows(conf) /\ form.svc = {Services}
      /\ conf' = ApplyRule(conf, conf, form.live, {Services}, w)
      /\ op'.next = AcAfter(conf, form.live, Services, w)
  BY <1>0, <1>2, <1>3, SubmitIs DEF w
<1>6. LandsAt(conf, form.live, w, RuleChainsFor(conf.zones, w.sel)) = ServicesNumber(conf, form.live, w, RuleChainsFor(conf.zones, w.sel))
  BY <1>2, <1>3 DEF NumbersAgree
<1>7. Services.ac = ac
  BY DEF Services, Read
<1>8. AcSound(ApplyRule(conf, conf, form.live, {Services}, w), AcAfter(conf, form.live, Services, w))
  BY <1>3, <1>4, <1>6, <1>7, SaveBindings
<1> QED BY <1>1, <1>4, <1>8

\* from a deletion,
LEMMA DeleteWrites ==
  ASSUME TypeOK, Delete, op' # Idle, op'.sound
  PROVE  op'.kind = "cascade" /\ AcSound(conf', Cascaded(ac', op'.move))
<1>1. PICK r \in Rows(page), geoRead \in BOOLEAN :
        /\ CommitTo(DeleteRule(conf, page, r, geoRead))
        /\ op' = IF r.scopes \cap {"input", "output"} # {} THEN Idle
                 ELSE [kind |-> "cascade", move |-> [n \in {r.n} |-> 0], sound |-> BindingsSound]
  BY DEF Delete
<1>2. op' = [kind |-> "cascade", move |-> [n \in {r.n} |-> 0], sound |-> BindingsSound] /\ BindingsSound
  BY <1>1
<1>3. page = conf /\ AcSound(conf, ac) /\ Orderly(conf) /\ IsConf(conf) /\ DOMAIN ac \subseteq Nat
  BY <1>2 DEF BindingsSound, TypeOK
<1>4. conf' = DeleteRule(conf, conf, r, geoRead) /\ ac' = ac
  BY <1>1, <1>3 DEF CommitTo, Delete
<1>5. AcSound(conf', Cascaded(ac', [n \in {r.n} |-> 0]))
  BY <1>1, <1>3, <1>4, DeleteBindings
<1> QED BY <1>2, <1>5

\* and from a reorder.
LEMMA ReorderWrites ==
  ASSUME TypeOK, Reorder, op' # Idle, op'.sound
  PROVE  op'.kind = "cascade" /\ AcSound(conf', Cascaded(ac', op'.move))
<1>1. PICK o \in Arrangements(Rows(page)), geoRead \in BOOLEAN :
        /\ CommitTo(Reordered(conf, page, o, geoRead))
        /\ op' = [kind |-> "cascade", move |-> [n \in {o[i].n : i \in DOMAIN o} |-> CHOOSE i \in DOMAIN o : o[i].n = n],
                  sound |-> BindingsSound]
  BY DEF Reorder
<1>2. BindingsSound /\ op'.kind = "cascade"
      /\ op'.move = [n \in {o[i].n : i \in DOMAIN o} |-> CHOOSE i \in DOMAIN o : o[i].n = n]
  BY <1>1
<1>3. page = conf /\ AcSound(conf, ac) /\ Orderly(conf) /\ IsConf(conf)
  BY <1>2 DEF BindingsSound, TypeOK
<1>4. conf' = Reordered(conf, conf, o, geoRead) /\ ac' = ac
  BY <1>1, <1>3 DEF CommitTo, Reorder
<1>5. AcSound(conf', Cascaded(ac', op'.move))
  BY <1>1, <1>2, <1>3, <1>4, ReorderBindings
<1> QED BY <1>2, <1>5

\* Nothing has been committed at first, and no step comes between a commit and
\* its write: only a revert, after which the write is no longer sound.
LEMMA WriteSoundNext == ASSUME TypeOK, WriteSound, [Next]_vars PROVE WriteSound'
<1>1. CASE UNCHANGED <<conf, ac, op>>
  BY <1>1 DEF WriteSound
<1>2. CASE op' = Idle
  BY <1>2 DEF WriteSound, Idle
<1>3. CASE Submit
  BY <1>3, SubmitWrites DEF WriteSound
<1>4. CASE Delete
  BY <1>4, DeleteWrites DEF WriteSound
<1>5. CASE Reorder
  BY <1>5, ReorderWrites DEF WriteSound
<1>6. CASE Revert
  <2>1. op' = IF op = Idle THEN Idle ELSE [op EXCEPT !.sound = FALSE]
    BY <1>6 DEF Revert
  <2>2. op' # Idle => ~op'.sound
    BY <2>1 DEF TypeOK, IsOp
  <2> QED BY <2>2 DEF WriteSound
<1>7. CASE UNCHANGED vars \/ Confirm \/ Load \/ Open \/ OpenNew \/ Cancel
  BY <1>1, <1>7 DEF vars, Confirm, Load, Open, OpenNew, Cancel
<1>8. CASE AcPut \/ AcPutFails \/ AcCascade
  BY <1>2, <1>8 DEF AcPut, AcPutFails, AcCascade
<1>9. CASE ToggleIps \/ SetDefaultAction \/ EnableTrafficLogging \/ ChangePolicyProtocol \/ AddZone \/ DeleteZone \/ RenameZone
  <2>1. (\E c : CommitTo(c)) /\ op' = op
    BY <1>9 DEF ToggleIps, SetDefaultAction, EnableTrafficLogging, ChangePolicyProtocol, AddZone, DeleteZone, RenameZone
  <2> QED BY <1>2, <2>1 DEF CommitTo
<1>10. CASE OtherDeletes
  BY <1>2, <1>10 DEF OtherDeletes
<1> QED BY <1>3, <1>4, <1>5, <1>6, <1>7, <1>8, <1>9, <1>10 DEF Next

\* A rule that keeps its number and its representative keeps its services.
LEMMA SavedAgree ==
  ASSUME IsConf(conf), Orderly(conf), SubmitStep, SameRepresentative, form.live \in SUBSET Rows(conf), NEW svc,
         NEW u, IsEntry(form.live, u), TakesFresh(conf, form.live, u), RuleChainsFor(conf.zones, u.sel) # {},
         conf' = ApplyRule(conf, conf, form.live, svc, u)
  PROVE  LandsAt(conf, form.live, u, RuleChainsFor(conf.zones, u.sel))
           = ServicesNumber(conf, form.live, u, RuleChainsFor(conf.zones, u.sel))
<1> DEFINE chains == RuleChainsFor(conf.zones, u.sel)
           n == LandsAt(conf, form.live, u, chains)
<1>1. PICK r \in Rows(conf') : r.n = n /\ r.scopes = chains
  <2>1. RuleIsRow(conf, form.live, svc, u)
    BY SavedRow
  <2>2. \E r \in Rows(ApplyRule(conf, conf, form.live, svc, u)) : r.n = n /\ r.scopes = chains
    BY <2>1, Zenon DEF RuleIsRow
  <2> QED BY <2>2
<1>2. ASSUME NEW l \in form.live, IsZone(l.scopes), IsZone(chains) PROVE Rep(chains) = Rep(l.scopes)
  <2>1. \A m \in form.live : m = l
    BY DEF IsEntry
  <2>2. ~Rebuilt(form.live, chains)
    BY <1>2, <2>1 DEF Rebuilt
  <2>3. n = l.n
    BY <2>2 DEF LandsAt, IsEntry
  <2> QED BY <1>1, <1>2, <2>3 DEF SameRepresentative
<1> QED BY <1>2, NumbersSame

\* The policies kept in the configuration: every commit.
LEMMA CommitServices ==
  ASSUME TypeOK, [Next]_vars, Committed, ReadStep, ~missed', GeoSound(conf), Orderly(conf), ZonesKept, SameRepresentative
  PROVE  GeoSound(conf') /\ (SubmitStep /\ SslSound(conf) => SslSound(conf'))
<1>1. IsConf(conf)
  BY DEF TypeOK
<1>2. CASE SaveCommit
  <2>1. PICK u : /\ IsEntry(form.live, u) /\ TakesFresh(conf, form.live, u) /\ RuleChainsFor(conf.zones, u.sel) # {}
                 /\ conf' = ApplyRule(conf, conf, form.live, form.svc, u)
    BY <1>2 DEF SaveCommit
  <2>2. form # Closed /\ form.live \subseteq Rows(conf) /\ form.svc = {Services}
    BY <1>2 DEF SaveCommit, ReadStep, ServicesRead
  <2>3. Services.geo = conf.geo /\ Services.ssl = conf.ssl
    BY DEF Services, Read
  <2> DEFINE chains == RuleChainsFor(conf.zones, u.sel)
  <2>4. LandsAt(conf, form.live, u, chains) = ServicesNumber(conf, form.live, u, chains)
    <3>1. SubmitStep
      BY <2>2 DEF SubmitStep
    <3> QED BY <1>1, <2>1, <2>2, <3>1, SavedAgree
  <2>5. (GeoSound(conf) => GeoSound(conf')) /\ (SslSound(conf) => SslSound(conf'))
    BY <1>1, <2>1, <2>2, <2>3, <2>4, SaveServices
  <2> QED BY <2>5
<1>3. CASE SettingCommit
  <2>1. GeoSound(conf')
    BY <1>1, <1>3, SettingsAre, SettingGeo DEF ZonesKept
  <2> QED BY <1>3, <2>1 DEF SettingCommit, SubmitStep
<1>4. CASE DeleteCommit
  <2>1. GeoSound(conf')
    BY <1>1, <1>4, DeleteGeo DEF DeleteCommit
  <2> QED BY <1>4, <2>1 DEF DeleteCommit, SubmitStep
<1>5. CASE ReorderCommit
  <2>1. PICK o \in Arrangements(Rows(conf)) : conf' = Reordered(conf, conf, o, TRUE)
    BY <1>5 DEF ReorderCommit
  <2>2. Enforced(conf)
    BY DEF Orderly
  <2>3. GeoSound(conf')
    BY <1>1, <2>1, <2>2, ReorderGeo
  <2> QED BY <1>5, <2>3 DEF ReorderCommit, SubmitStep
<1> QED BY <1>2, <1>3, <1>4, <1>5, CommitStep

\* App Control's bindings: once the write has landed, or where none is needed.
LEMMA BindingsFollow ==
  ASSUME TypeOK, WriteSound, [Next]_vars
  PROVE  /\ op # Idle /\ op' = Idle /\ op.sound /\ ~missed' => AcSound(conf', ac')
         /\ SubmitStep /\ ReadStep /\ op' = Idle /\ AcSound(conf, ac) /\ Orderly(conf) /\ SameRepresentative => AcSound(conf', ac)
<1>1. ASSUME op # Idle, op' = Idle, op.sound, ~missed' PROVE AcSound(conf', ac')
  <2>1. CASE AcPut
    BY <1>1, <2>1 DEF AcPut, WriteSound
  <2>2. CASE AcCascade
    <3>1. ac' = Cascaded(ac, op.move)
      BY <2>2, Zenon DEF AcCascade, Cascaded
    <3> QED BY <1>1, <2>2, <3>1 DEF AcCascade, WriteSound
  <2>3. ~AcPutFails
    BY <1>1 DEF AcPutFails
  <2>4. op' # op
    BY <1>1
  <2>5. ~Revert
    BY <1>1 DEF Revert, TypeOK, IsOp, Idle
  <2>6. ~(UNCHANGED vars \/ Confirm \/ Load \/ Open \/ OpenNew \/ Cancel)
    BY <2>4 DEF vars, Confirm, Load, Open, OpenNew, Cancel
  <2>7. ~(ToggleIps \/ SetDefaultAction \/ EnableTrafficLogging \/ ChangePolicyProtocol \/ AddZone \/ DeleteZone \/ RenameZone)
    BY <2>4 DEF ToggleIps, SetDefaultAction, EnableTrafficLogging, ChangePolicyProtocol, AddZone, DeleteZone, RenameZone
  <2>8. ~(Submit \/ Delete \/ Reorder \/ OtherDeletes)
    <3>1. \A e : SubmitAs(e) => op = Idle
      BY Zenon DEF SubmitAs, CommitTo
    <3> QED BY <1>1, <3>1 DEF Submit, Delete, Reorder, OtherDeletes, CommitTo
  <2> QED BY <2>1, <2>2, <2>3, <2>5, <2>6, <2>7, <2>8 DEF Next
<1>2. ASSUME SubmitStep, ReadStep, op' = Idle, AcSound(conf, ac), Orderly(conf), SameRepresentative PROVE AcSound(conf', ac)
  <2>1. form # Closed /\ pending = {} /\ pending' = {conf} /\ page = conf /\ FreshRule /\ ServicesRead
    BY <1>2 DEF SubmitStep, ReadStep, Committed
  <2>2. Submit
    <3>1. ~(Delete \/ Reorder \/ ToggleIps \/ SetDefaultAction \/ EnableTrafficLogging \/ ChangePolicyProtocol
            \/ AddZone \/ DeleteZone \/ RenameZone \/ Open \/ OpenNew)
      BY <2>1 DEF Delete, Reorder, ToggleIps, SetDefaultAction, EnableTrafficLogging, ChangePolicyProtocol,
                 AddZone, DeleteZone, RenameZone, Open, OpenNew
    <3>2. ~(UNCHANGED vars \/ Confirm \/ Revert \/ Load \/ Cancel \/ AcPut \/ AcPutFails \/ AcCascade \/ OtherDeletes)
      BY <2>1 DEF vars, Confirm, Revert, Load, Cancel, AcPut, AcPutFails, AcCascade, OtherDeletes
    <3> QED BY <3>1, <3>2 DEF Next
  <2>0. PICK e \in Entries(form.u) : SubmitAs(e)
    BY <2>2 DEF Submit
  <2> DEFINE u == Numbered(e)
  <2> HIDE DEF u
  <2>3. /\ IsEntry(form.live, u) /\ TakesFresh(conf, form.live, u) /\ RuleChainsFor(conf.zones, u.sel) # {}
        /\ form.live \subseteq Rows(conf) /\ form.svc = {Services}
        /\ conf' = ApplyRule(conf, conf, form.live, {Services}, u)
        /\ AcAfter(conf, form.live, Services, u) # ac => op'.kind = "put"
    BY <2>0, <2>1, SubmitIs DEF u
  <2>4. AcAfter(conf, form.live, Services, u) = ac
    BY <1>2, <2>3 DEF Idle
  <2>5. IsConf(conf) /\ Services.ac = ac
    BY DEF TypeOK, Services, Read
  <2>6. LandsAt(conf, form.live, u, RuleChainsFor(conf.zones, u.sel)) = ServicesNumber(conf, form.live, u, RuleChainsFor(conf.zones, u.sel))
    BY <1>2, <2>3, <2>5, SavedAgree
  <2>7. AcSound(ApplyRule(conf, conf, form.live, {Services}, u), AcAfter(conf, form.live, Services, u))
    BY <1>2, <2>3, <2>5, <2>6, SaveBindings
  <2> QED BY <2>3, <2>4, <2>7
<1> QED BY <1>1, <1>2

\* No service comes to apply to another rule: through commits made from a page
\* and a form that show what runs, and the App Control write that follows them,
\* each keeps referring to the rule it was attached to, or goes.
THEOREM ServicesTrue == Spec => ServicesSound
<1>1. Init => WriteSound
  BY DEF Init, WriteSound
<1>2. TypeOK /\ WriteSound /\ [Next]_vars => WriteSound'
  BY WriteSoundNext
<1>3. Spec => []WriteSound
  BY <1>1, <1>2, TypeCorrect, PTL DEF Spec
<1>4. ASSUME TypeOK, WriteSound, [Next]_vars
      PROVE  /\ Committed /\ ReadStep /\ ~missed' /\ GeoSound(conf) /\ Orderly(conf) /\ ZonesKept /\ SameRepresentative
                  => GeoSound(conf') /\ (SubmitStep /\ SslSound(conf) => SslSound(conf'))
             /\ op # Idle /\ op' = Idle /\ op.sound /\ ~missed' => AcSound(conf', ac')
             /\ SubmitStep /\ ReadStep /\ op' = Idle /\ AcSound(conf, ac) /\ Orderly(conf) /\ SameRepresentative
                  => AcSound(conf', ac)
  BY <1>4, CommitServices, BindingsFollow
<1> QED BY <1>3, <1>4, TypeCorrect, PTL DEF Spec, ServicesSound
=============================================================================
