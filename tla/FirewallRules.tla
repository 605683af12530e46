--------------------------- MODULE FirewallRules ----------------------------
(***************************************************************************)
(* The firewall rules page and what hangs on a rule's number.  A rule is   *)
(* kept in a base chain, or once for each zone pair it spans, all copies   *)
(* under one number.  Geolocation and SSL inspection refer to it by number *)
(* in the same configuration; application control does so in a store of    *)
(* its own, written after the commit.  A commit is live at once and undone *)
(* unless it is confirmed; until then the device refuses another.          *)
(*                                                                         *)
(* The UI numbers rules in tens.  Numbers 1 and 2 of a base chain belong   *)
(* to hidden rules that it seeds, unless they were given to rules on the   *)
(* command line.  (Geolocation policies are numbered by place: 10, 20, ... *)
(* are 1, 2, ...)                                                          *)
(***************************************************************************)
EXTENDS Naturals, Sequences, FiniteSetsExt

CONSTANTS
  Pairs,       \* ruleset name -> [src, dst]: the zone pairs under study
  Order,       \* the scopes, base chains first, then by ruleset name
  Local,       \* the name of the zone that is the firewall itself
  NetZones,    \* the names of the other zones
  Sides,       \* the From/To selections offered: [from, to], sets of zones and "firewall"
  StartConfs,  \* the configurations, with the App Control store, to start from
  AcActions,   \* the App Control actions there are
  FailedReads, \* which of a form's reads may fail together: sets of "geo", "ssl" and "ac"
  MaxBound,    \* MAX_BOUND_AC_ACTIONS
  MaxCommits   \* bound: changes in one behaviour, the last one not followed to its confirmation

VARIABLES
  conf,     \* the running configuration
  ac,       \* App Control's bindings: rule number -> [action, of]
  page,     \* the configuration the page last loaded
  form,     \* the open rule form
  op,       \* the App Control write that is still to follow a commit
  pending,  \* {}, or the configuration an unconfirmed commit would fall back to
  missed,   \* history: some best-effort read or App Control write has failed
  commits

vars == <<conf, ac, page, form, op, pending, missed, commits>>

None == ""
Base == {"forward", "input", "output"}
Scopes == Base \cup DOMAIN Pairs

\* A rule as it is kept in one scope.  `group` names the auto-managed group
\* behind a side with several entries; `raw` stands for leaves this UI does
\* not know; `name` tells rules apart.
BlankBody ==
  [name |-> None, action |-> None, ips |-> FALSE, log |-> FALSE, policy |-> FALSE, protocol |-> None,
   group |-> {}, raw |-> FALSE]
IsBody(b) == b = [f \in DOMAIN BlankBody |-> b[f]] /\ {b.ips, b.log, b.policy, b.raw} \subseteq BOOLEAN

\* A configuration has finitely many rules, in known scopes, under positive
\* numbers, and finitely many groups.  A geolocation policy names its scope and
\* number; `of` is the name of the rule it was attached to.  `baseline` are the
\* base chains with hidden rules at 1 and 2, `flow` says that forward's queue
\* inspected flows.
IsRules(R) ==
  /\ DOMAIN R \subseteq Scopes \X (Nat \ {0}) /\ IsFiniteSet(DOMAIN R)
  /\ \A k \in DOMAIN R : IsBody(R[k])
IsGeo(geo) == \A i \in DOMAIN geo : DOMAIN geo[i] = {"scope", "n", "action", "off", "of"}
ConfFields ==
  {"rule", "bound", "zones", "group", "geo", "ssl", "protocol", "baseline", "flow", "state", "drop"}
IsConf(c) ==
  /\ c = [f \in ConfFields |-> c[f]]
  /\ IsRules(c.rule)
  /\ c.bound \subseteq DOMAIN Pairs /\ c.zones \subseteq NetZones \cup {Local} /\ c.baseline \subseteq Base
  /\ IsFiniteSet(c.group) /\ IsGeo(c.geo)
  /\ c.protocol \in {"tcp", "udp"} /\ {c.flow, c.state, c.drop} \subseteq BOOLEAN

\* Zone rulesets and base chains are apart, and no pair joins a zone to itself.
ASSUME PairsAssumption == Base \cap DOMAIN Pairs = {} /\ \A p \in DOMAIN Pairs : Pairs[p].src # Pairs[p].dst
ASSUME OrderAssumption == Order \in Seq(Scopes) /\ \A s \in Scopes : \E i \in DOMAIN Order : Order[i] = s
ASSUME StartAssumption == \A s \in StartConfs : IsConf(s.conf) /\ DOMAIN s.ac \subseteq Nat
ASSUME BoundsAssumption == MaxBound \in Nat /\ MaxCommits \in Nat

-----------------------------------------------------------------------------
(* Reading.                                                                *)

\* f, and g where f says nothing.
Over(f, g) == [x \in DOMAIN f \cup DOMAIN g |-> IF x \in DOMAIN f THEN f[x] ELSE g[x]]
Without(f, D) == [x \in DOMAIN f \ D |-> f[x]]

\* The scope that represents a rule: the first of its scopes by name.
Rep(S) == CHOOSE s \in S : \E i \in DOMAIN Order : Order[i] = s /\ \A j \in 1..(i - 1) : Order[j] \notin S

\* groupZoneRules, fetchFirewall: one row for each base-chain rule, and one for
\* all copies of a number in the rulesets that a pair is bound to.
RowAt(c, S, n) == [n |-> n, scopes |-> S, body |-> c.rule[<<Rep(S), n>>]]
Rows(c) ==
  {RowAt(c, {k[1]}, k[2]) : k \in {k \in DOMAIN c.rule : k[1] \in Base}}
    \cup {RowAt(c, {s \in c.bound : <<s, n>> \in DOMAIN c.rule}, n) : n \in {k[2] : k \in {k \in DOMAIN c.rule : k[1] \in c.bound}}}
IsZone(S) == S \cap Base = {}

\* Mutant: the largest number itself.
NextRuleNumberTaken(rows) == Max({0} \cup {r.n : r \in rows})

NextRuleNumber(rows) == Max({0} \cup {r.n : r \in rows}) + 10

\* sideZones, zonePairsFor, ruleChainsFor: the scopes of a rule with these
\* sides, {} when they describe nothing the device can express.
RuleChainsFor(zones, sel) ==
  LET named(S) == S \ {"firewall"}
      side(S) == IF named(S) # {} THEN named(S) ELSE IF "firewall" \in S THEN {Local} \cap zones ELSE {}
  IN CASE "firewall" \in sel.from \cap sel.to -> {}
       [] named(sel.from) \cup named(sel.to) = {} ->
            {IF "firewall" \in sel.to THEN "input" ELSE IF "firewall" \in sel.from THEN "output" ELSE "forward"}
       [] OTHER -> IF side(sel.from) \cap side(sel.to) # {} THEN {}
                   ELSE {p \in DOMAIN Pairs : Pairs[p].src \in side(sel.from) /\ Pairs[p].dst \in side(sel.to)}

\* ruleSelection: the sides a rule's scopes stand for.
RuleSelection(S) ==
  LET shown(zs) == {IF z = Local THEN "firewall" ELSE z : z \in zs}
  IN [from |-> IF IsZone(S) THEN shown({Pairs[p].src : p \in S}) ELSE {"firewall" : s \in S \cap {"output"}},
      to |-> IF IsZone(S) THEN shown({Pairs[p].dst : p \in S}) ELSE {"firewall" : s \in S \cap {"input"}}]

-----------------------------------------------------------------------------
(* Writing: each takes the device's configuration c to the next one, with  *)
(* decisions taken from the page's configuration `cfg`.                    *)

\* `set` of a rule's leaves on what is there.
RuleAt(rule, k) == IF k \in DOMAIN rule THEN rule[k] ELSE BlankBody
Write(c, n, patch) ==
  [c EXCEPT !.rule = Over([k \in (DOMAIN patch) \X {n} |-> Over(patch[k[1]], RuleAt(c.rule, k))], @)]
TearDown(c, P) ==
  [c EXCEPT !.bound = @ \ P, !.rule = Without(@, {k \in DOMAIN @ : k[1] \in P})]

\* Mutant: pairs are never torn down.
EmptyPairsNone(cfg, S, n) == {}

\* emptyPairCleanup: the pairs among S that no other rule of the page is in.
EmptyPairs(cfg, S, n) == {p \in S \cap cfg.bound : \A r \in Rows(cfg) : r.n # n => p \notin r.scopes}
DropCopies(c, cfg, S, n) ==
  TearDown([c EXCEPT !.rule = Without(@, S \X {n})], EmptyPairs(cfg, S, n))

\* parseChain's setup: rules of the command line at 1 or 2 count as the baseline.
Low(c, chain) == \E n \in {1, 2} : <<chain, n>> \in DOMAIN c.rule
HasBaseline(c, chain) == chain \in c.baseline \/ Low(c, chain)

\* The hidden rules of a chain, in the place of what has those numbers.
SeedBaseline(c, chain) ==
  [c EXCEPT !.baseline = @ \cup {chain}, !.rule = Without(@, {chain} \X {1, 2})]

\* ensureForwardBaseline, ensureIpsFlowBaseline, ensureChainSetup,
\* ensureStatePolicy, ensureZonePair: seeded when the page shows them missing.
EnsureForward(c, cfg) ==
  IF HasBaseline(cfg, "forward") THEN c ELSE [SeedBaseline(c, "forward") EXCEPT !.flow = TRUE]
EnsureIpsFlow(c, cfg) ==
  IF cfg.flow \/ Low(cfg, "forward") THEN c ELSE [SeedBaseline(c, "forward") EXCEPT !.flow = TRUE]
EnsureChain(c, cfg, chain) == IF HasBaseline(cfg, chain) THEN c ELSE SeedBaseline(c, chain)
EnsureState(c, cfg) == IF cfg.state THEN c ELSE [c EXCEPT !.state = TRUE]
EnsurePairs(c, cfg, S) == [c EXCEPT !.bound = @ \cup (S \ cfg.bound)]

\* Mutant: the bare name, taken or not.
AllocAutoNameBare(n, taken) == <<n, 1>>

\* allocAutoName: the rule's number and, where taken, a suffix.
AllocAutoName(n, taken) == <<n, CHOOSE i \in 1..(Cardinality(taken) + 1) :
                                  <<n, i>> \notin taken /\ \A j \in 1..(i - 1) : <<n, j>> \in taken>>

\* Where diffRule starts from: a rule that changes base chain, or between a
\* base chain and zone pairs, is dropped and built anew under a fresh number.
\* live is {} for a new rule.
Rebuilt(live, chains) ==
  \E l \in live : IsZone(l.scopes) # IsZone(chains) \/ (~IsZone(chains) /\ l.scopes # chains)
LandsAt(cfg, live, u, chains) ==
  IF Rebuilt(live, chains) THEN NextRuleNumber(Rows(cfg)) ELSE u.n

Kept(live, chains) == IF Rebuilt(live, chains) THEN {} ELSE live
Was(kept, s) == IF \E l \in kept : s \in l.scopes THEN (CHOOSE l \in kept : TRUE).body ELSE BlankBody

\* syncSide: the group behind the rule's entries, the one it has or a new one.
AutoGroup(cfg, live) == UNION {l.body.group \cap cfg.group : l \in live}
RuleGroup(cfg, kept, n, many) ==
  CASE ~many -> {}
    [] AutoGroup(cfg, kept) # {} -> AutoGroup(cfg, kept)
    [] OTHER -> {AllocAutoName(n, cfg.group)}

\* What the form asks for, and of it what differs from the rule it was opened on.
Wanted(cfg, u, group) ==
  [name |-> u.name, action |-> u.action, ips |-> u.ips /\ u.action = "accept", log |-> u.log,
   policy |-> u.policy, protocol |-> IF u.policy THEN cfg.protocol ELSE None, group |-> group]
Changes(want, was) == [f \in {g \in DOMAIN want : want[g] # was[g]} |-> want[f]]

\* Scopes the rule leaves, and the number it has there.
Dropped(live, chains) == UNION {IF Rebuilt(live, chains) THEN l.scopes ELSE l.scopes \ chains : l \in live}
DroppedAt(live, chains, n) == IF Rebuilt(live, chains) THEN (CHOOSE l \in live : TRUE).n ELSE n

\* The baselines a rule in these scopes relies on.
EnsureScopes(c, cfg, chains) ==
  CASE IsZone(chains) -> EnsurePairs(EnsureState(c, cfg), cfg, chains)
    [] chains = {"forward"} -> c
    [] OTHER -> EnsureChain(c, cfg, Rep(chains))
EnsureRule(c, cfg, kept, u, chains) ==
  LET c1 == EnsureScopes(c, cfg, chains)
      c2 == IF u.ips /\ u.action = "accept" /\ \A l \in kept : ~l.body.ips THEN EnsureIpsFlow(c1, cfg) ELSE c1
  IN IF u.log /\ chains = {"forward"} THEN EnsureForward(c2, cfg) ELSE c2

DiffRule(c, cfg, live, u) ==
  LET chains == RuleChainsFor(cfg.zones, u.sel)
      n == LandsAt(cfg, live, u, chains)
      kept == Kept(live, chains)
      group == RuleGroup(cfg, kept, n, u.many)
      c1 == DropCopies(c, cfg, Dropped(live, chains), DroppedAt(live, chains, n))
      c2 == [c1 EXCEPT !.group = (@ \ (AutoGroup(cfg, live) \ group)) \cup group]
      c3 == EnsureRule(c2, cfg, kept, u, chains)
  IN Write(c3, n, [s \in chains |-> Changes(Wanted(cfg, u, group), Was(kept, s))])

\* Mutant: counted on from how many there are.
GeoIdsCounted(geo, n, k) == {Cardinality(DOMAIN geo) + i : i \in 1..k}

\* diffGeoPoliciesForRule, geoCommands: policies of numbers the rule left go;
\* one policy for each scope, existing ones kept, is brought to `action`.
GeoIds(geo, n, k) == {Max({0} \cup DOMAIN geo) + i : i \in 1..k}
GeoCommands(c, geo, gone, n, scopes, action, of) ==
  LET existing == {i \in DOMAIN geo : geo[i].n = n /\ (geo[i].scope \in scopes \/ (IsZone(scopes) /\ geo[i].scope \notin Base))}
      stale == {i \in DOMAIN geo : geo[i].n \in gone \ {n}}
      missing == {s \in scopes : \A i \in existing : geo[i].scope # s}
      ids == CHOOSE f \in [missing -> GeoIds(geo, n, Cardinality(missing))] : \A s, t \in missing : f[s] = f[t] => s = t
      keep == {i \in existing : geo[i].scope \in scopes}
      at(i) == IF i \in keep THEN geo[i].scope ELSE CHOOSE s \in missing : ids[s] = i
      set == [i \in keep \cup {ids[s] : s \in missing} |->
                [scope |-> at(i), n |-> n, action |-> action, off |-> FALSE, of |-> of]]
  IN [c EXCEPT !.geo = IF action = None THEN Without(@, existing \cup stale)
                       ELSE Over(set, Without(@, (existing \ keep) \cup stale))]

\* sslCommands, policyDiff: one policy for a number, forward rules only.
SslCommands(c, ssl, gone, n, action, of) ==
  LET off == n \in DOMAIN c.ssl \ DOMAIN ssl /\ c.ssl[n].off
  IN [c EXCEPT !.ssl = IF action = None THEN Without(@, DOMAIN ssl \cap (gone \cup {n}))
                       ELSE Over([m \in {n} |-> [action |-> action, off |-> off, of |-> of]], Without(@, DOMAIN ssl \cap gone))]

\* nextAcConfig: the whole store, with the rule's binding at its number, whose
\* match is derived from the rule's sides.
NextAc(live, gone, n, action, of, match) ==
  IF action = None THEN Without(live, gone \cup {n})
  ELSE Over([m \in {n} |-> [action |-> action, of |-> of, match |-> match]], Without(live, gone))
AcTooMany(next) == Cardinality({next[n].action : n \in DOMAIN next}) > MaxBound

\* applyRuleAndServices takes a rule that changes its representative scope for
\* one that is renumbered.
ServicesNumber(cfg, live, u, chains) ==
  IF \E l \in live : Rep(l.scopes) # Rep(chains) THEN NextRuleNumber(Rows(cfg)) ELSE u.n

\* The rule and, when the form has read them, its services.
ApplyRule(c, cfg, live, svc, u) ==
  LET chains == RuleChainsFor(cfg.zones, u.sel)
      n == ServicesNumber(cfg, live, u, chains)
      gone == {l.n : l \in live} \ {n}
      c1 == DiffRule(c, cfg, live, u)
  IN IF svc = {} THEN c1
     ELSE LET v == CHOOSE x \in svc : TRUE
              c2 == SslCommands(c1, v.ssl, gone, n, IF chains = {"forward"} /\ u.action = "accept" THEN u.ssl ELSE None, u.name)
          IN GeoCommands(c2, v.geo, gone, n, chains, IF u.action = "accept" THEN u.geo ELSE None, u.name)

\* The action bound to an Allow rule for routed traffic.  It is refused where
\* the match cannot be derived: traffic of the firewall itself is not classified.
AcAction(cfg, u) ==
  IF RuleChainsFor(cfg.zones, u.sel) \cap {"input", "output"} = {} /\ u.action = "accept" THEN u.ac ELSE None
AcAfter(cfg, live, v, u) ==
  LET n == ServicesNumber(cfg, live, u, RuleChainsFor(cfg.zones, u.sel))
  IN NextAc(v.ac, {l.n : l \in live} \ {n}, n, AcAction(cfg, u), u.name, u.sel)
AcRefused(cfg, live, v, u) ==
  /\ AcAction(cfg, u) # None
  /\ "firewall" \in u.sel.from \cup u.sel.to \/ AcTooMany(AcAfter(cfg, live, v, u))

-----------------------------------------------------------------------------
Closed == [mode |-> "closed"]
Idle == [kind |-> "idle"]

Init ==
  /\ \E s \in StartConfs : conf = s.conf /\ ac = s.ac
  /\ page = conf
  /\ form = Closed
  /\ op = Idle
  /\ pending = {}
  /\ missed = FALSE
  /\ commits = 0

\* A guarded commit: refused while another is unconfirmed, and by the device
\* when a binding would be left without one of its zones.
Valid(c) == \A p \in c.bound : {Pairs[p].src, Pairs[p].dst} \subseteq c.zones
CommitTo(c) ==
  /\ pending = {} /\ op = Idle /\ commits < MaxCommits
  /\ Valid(c)
  /\ c # conf
  /\ conf' = c
  /\ pending' = {conf}
  /\ commits' = commits + 1

\* Confirm in the banner.
Confirm ==
  /\ pending # {} /\ commits < MaxCommits
  /\ pending' = {}
  /\ UNCHANGED <<conf, ac, page, form, op, missed, commits>>

\* Revert in the banner, or the dead-man timer.
Revert ==
  /\ pending # {} /\ commits < MaxCommits
  /\ conf' \in pending
  /\ pending' = {}
  /\ op' = IF op = Idle THEN Idle ELSE [op EXCEPT !.sound = FALSE]
  /\ UNCHANGED <<ac, page, form, missed, commits>>

\* load(): an open form keeps the rule it was opened on.
Load ==
  /\ page # conf /\ commits < MaxCommits
  /\ page' = conf
  /\ UNCHANGED <<conf, ac, form, op, pending, missed, commits>>

\* The services as a form reads them: one whose read fails is empty to it.
Nothing == [x \in {} |-> x]
Read(unread) ==
  [unread |-> unread,
   geo |-> IF "geo" \in unread THEN Nothing ELSE conf.geo,
   ssl |-> IF "ssl" \in unread THEN Nothing ELSE conf.ssl,
   ac |-> IF "ac" \in unread THEN Nothing ELSE ac]
Services == Read({})
Readings == {Read(unread) : unread \in {{}} \cup FailedReads}

\* serviceStateForRule and the form's initial state.
Seed(r, svc) ==
  LET geo == {v.geo[i].action : v \in svc, i \in UNION {{i \in DOMAIN v.geo : v.geo[i].n = r.n /\ v.geo[i].scope \in r.scopes} : v \in svc}}
      ssl == UNION {{v.ssl[n].action : n \in {n \in DOMAIN v.ssl : n = r.n /\ ~v.ssl[n].off}} : v \in svc}
      act == UNION {{v.ac[n].action : n \in {n \in DOMAIN v.ac : n = r.n}} : v \in svc}
      first(S) == IF S = {} THEN None ELSE CHOOSE x \in S : TRUE
  IN [n |-> r.n, name |-> r.body.name, sel |-> RuleSelection(r.scopes), action |-> r.body.action, ips |-> r.body.ips,
      log |-> r.body.log, policy |-> r.body.policy, many |-> r.body.group # {}, geo |-> first(geo), ssl |-> first(ssl),
      ac |-> first(act)]

\* Open the form on a row of the page.  The services are read while it is
\* open; until they have come, a submit does without them.  (Bound: a form is
\* opened between two changes.)
Open ==
  /\ form = Closed /\ pending = {} /\ op = Idle /\ commits < MaxCommits
  /\ \E r \in Rows(page) :
       \E svc \in {{}} \cup {{v} : v \in Readings} :
         form' = [mode |-> "open", live |-> {r}, svc |-> svc, u |-> Seed(r, svc)]
  /\ UNCHANGED <<conf, ac, page, op, pending, missed, commits>>

OpenNew ==
  /\ form = Closed /\ pending = {} /\ op = Idle /\ commits < MaxCommits
  /\ \E svc \in {{}} \cup {{v} : v \in Readings} :
       form' = [mode |-> "open", live |-> {}, svc |-> svc,
                u |-> [Seed([n |-> 0, scopes |-> {"forward"}, body |-> BlankBody], {}) EXCEPT !.name = "new", !.action = "accept", !.log = TRUE]]
  /\ UNCHANGED <<conf, ac, page, op, pending, missed, commits>>

Cancel ==
  /\ form # Closed /\ op = Idle /\ commits < MaxCommits
  /\ form' = Closed
  /\ UNCHANGED <<conf, ac, page, op, pending, missed, commits>>

\* The entries as they were, or with one of them changed (bound).  The actions
\* offered for geolocation and App Control are those the form has read.
Entries(u) ==
  {u} \cup {[u EXCEPT !.sel = s] : s \in Sides}
    \cup {[u EXCEPT !.action = a] : a \in {"accept", "drop"}}
    \cup {[u EXCEPT !.ips = ~@], [u EXCEPT !.log = ~@], [u EXCEPT !.policy = ~@], [u EXCEPT !.many = ~@]}
    \cup (UNION {{[u EXCEPT !.geo = a] : a \in {None} \cup (IF "geo" \in v.unread THEN {} ELSE {"x"})} : v \in form.svc})
    \cup (UNION {{[u EXCEPT !.ssl = a] : a \in {None, "inspect"}} : v \in form.svc})
    \cup (UNION {{[u EXCEPT !.ac = a] : a \in {None} \cup (IF "ac" \in v.unread THEN {} ELSE AcActions)} : v \in form.svc})

\* Every service of every rule refers to the rule it was attached to.
GeoSound(c) ==
  \A i \in DOMAIN c.geo : LET k == <<c.geo[i].scope, c.geo[i].n>> IN k \in DOMAIN c.rule /\ c.rule[k].name = c.geo[i].of
SslSound(c) ==
  \A n \in DOMAIN c.ssl : <<"forward", n>> \in DOMAIN c.rule /\ c.rule[<<"forward", n>>].name = c.ssl[n].of
AcSound(c, a) == \A n \in DOMAIN a : \E r \in Rows(c) : r.n = n /\ r.body.name = a[n].of

\* Numbers tell rules apart, rulesets and bindings go together, and the copies of
\* a rule have one name.
UniqueNumbers(c) == \A r, s \in Rows(c) : r.n = s.n => r = s
Enforced(c) == \A p \in DOMAIN Pairs : p \in c.bound <=> \E k \in DOMAIN c.rule : k[1] = p
CopiesAgreeOn(c, F) == \A r \in Rows(c) : \A s \in r.scopes : \A f \in F : c.rule[<<s, r.n>>][f] = r.body[f]
Orderly(c) == UniqueNumbers(c) /\ Enforced(c) /\ CopiesAgreeOn(c, {"name"})
BindingsSound == AcSound(conf, ac) /\ Orderly(conf) /\ page = conf

\* The form was opened on a rule as the device runs it, and its services have
\* been read.
FreshRule == \A r \in form.live : r \in Rows(conf)
ServicesRead == form.svc = {Services}
\* The services follow the rule's number: they have been read, and the rule
\* does not move between zone pairs so that another pair comes to represent it.
NumbersAgree(u) ==
  LET chains == RuleChainsFor(page.zones, u.sel)
  IN LandsAt(page, form.live, u, chains) = ServicesNumber(page, form.live, u, chains)

\* submit(): the rule and the services kept with it in one commit, then the
\* App Control store as a whole, from the copy the form read.
Numbered(e) == IF form.live = {} THEN [e EXCEPT !.n = NextRuleNumber(Rows(page))] ELSE e
SubmitAs(e) ==
  LET u == Numbered(e)
      c == ApplyRule(conf, page, form.live, form.svc, u)
      nexts == {AcAfter(page, form.live, v, u) : v \in form.svc}
      writes == {x \in nexts : \A v \in form.svc : x # v.ac}
  IN /\ RuleChainsFor(page.zones, u.sel) # {}
     /\ \A v \in form.svc : ~AcRefused(page, form.live, v, u)
     /\ CommitTo(c) \/ (c = conf /\ op = Idle /\ writes # {} /\ commits < MaxCommits /\ commits' = commits + 1 /\ UNCHANGED <<conf, pending>>)
     /\ op' = IF writes = {} THEN Idle
              ELSE [kind |-> "put", next |-> CHOOSE x \in writes : TRUE,
                    sound |-> BindingsSound /\ FreshRule /\ ServicesRead /\ NumbersAgree(u)]
     /\ form' = IF writes = {} THEN Closed ELSE [form EXCEPT !.u = u]
Submit ==
  /\ form # Closed
  /\ \E e \in Entries(form.u) : SubmitAs(e)
  /\ UNCHANGED <<ac, page, missed>>

\* The App Control write lands, or fails: the rule is in place either way, and
\* a form whose write failed stays open on the rule as it was.
AcPut ==
  /\ op.kind = "put"
  /\ ac' = op.next
  /\ op' = Idle
  /\ form' = Closed
  /\ UNCHANGED <<conf, page, pending, missed, commits>>
AcPutFails ==
  /\ op # Idle
  /\ op' = Idle
  /\ missed' = TRUE
  /\ UNCHANGED <<conf, ac, page, form, pending, commits>>

\* deleteRuleWithCascade: the rule's copies, its pairs when it was their last,
\* its group, and the geolocation policies of its copies in one commit.
DeleteRule(c, cfg, r, geoRead) ==
  LET c1 == DropCopies(c, cfg, r.scopes, r.n)
      c2 == [c1 EXCEPT !.group = @ \ (r.body.group \cap cfg.group)]
  IN IF geoRead THEN [c2 EXCEPT !.geo = Without(@, {i \in DOMAIN @ : @[i].n = r.n /\ @[i].scope \in r.scopes})] ELSE c2
Delete ==
  /\ form = Closed
  /\ \E r \in Rows(page), geoRead \in BOOLEAN :
       /\ CommitTo(DeleteRule(conf, page, r, geoRead))
       /\ op' = IF r.scopes \cap {"input", "output"} # {} THEN Idle
                ELSE [kind |-> "cascade", move |-> [n \in {r.n} |-> 0], sound |-> BindingsSound]
       /\ missed' = (missed \/ ~geoRead)
  /\ UNCHANGED <<ac, page, form>>

\* renumberTargets, reorderCommands: rules whose number is not their position
\* times ten are dropped, then built again from the page's copy, leaf by leaf.
Arrangements(rows) ==
  {o \in [{10 * i : i \in 1..Cardinality(rows)} -> rows] : \A i, j \in DOMAIN o : o[i] = o[j] => i = j}

\* Mutant: the leaves this UI does not know are not built again.
MergeKnown(new, old) == [new EXCEPT !.raw = old.raw]

Merge(new, old) == [f \in DOMAIN new |-> IF new[f] = BlankBody[f] THEN old[f] ELSE new[f]]
Moved(o) == {i \in DOMAIN o : o[i].n # i}
OldPlaces(o) == UNION {o[i].scopes \X {o[i].n} : i \in Moved(o)}
NewPlaces(o) == UNION {o[i].scopes \X {i} : i \in Moved(o)}
Reordered(c, cfg, o, geoRead) ==
  LET left == Without(c.rule, OldPlaces(o))
      built == [k \in NewPlaces(o) |-> Merge(cfg.rule[<<k[1], o[k[2]].n>>], RuleAt(left, k))]
      target(g) == {i \in Moved(o) : g.n = o[i].n /\ g.scope \in o[i].scopes}
  IN [c EXCEPT !.rule = Over(built, left),
               !.geo = IF geoRead THEN [j \in DOMAIN @ |-> IF target(@[j]) = {} THEN @[j] ELSE [@[j] EXCEPT !.n = Max(target(c.geo[j]))]]
                       ELSE @]
Reorder ==
  /\ form = Closed
  /\ \E o \in Arrangements(Rows(page)), geoRead \in BOOLEAN :
       /\ CommitTo(Reordered(conf, page, o, geoRead))
       /\ op' = [kind |-> "cascade", move |-> [n \in {o[i].n : i \in DOMAIN o} |-> CHOOSE i \in DOMAIN o : o[i].n = n],
                 sound |-> BindingsSound]
       /\ missed' = (missed \/ ~geoRead)
  /\ UNCHANGED <<ac, page, form>>

\* Mutant: the binding of a deleted rule goes, those of moved rules stay.
AcCascadeDrops ==
  /\ op.kind = "cascade"
  /\ ac' = Without(ac, {n \in DOMAIN op.move : op.move[n] = 0})
  /\ op' = Idle
  /\ UNCHANGED <<conf, page, form, pending, missed, commits>>

\* The bindings follow: read now, those of rules that moved are written under
\* their new number, those of a deleted rule are left out (move to 0).
AcCascade ==
  /\ op.kind = "cascade"
  /\ LET to(n) == IF n \in DOMAIN op.move THEN op.move[n] ELSE n
     IN ac' = [m \in {to(n) : n \in DOMAIN ac} \ {0} |-> ac[CHOOSE n \in DOMAIN ac : to(n) = m]]
  /\ op' = Idle
  /\ UNCHANGED <<conf, page, form, pending, missed, commits>>

\* Mutant: on the copy that represents the rule alone.
ToggleIpsFirst ==
  /\ form = Closed
  /\ \E r \in Rows(page) :
       /\ r.body.action = "accept"
       /\ LET c == Write(conf, r.n, [s \in {Rep(r.scopes)} |-> [ips |-> ~r.body.ips, action |-> "accept"]])
          IN CommitTo(IF r.body.ips THEN c ELSE EnsureIpsFlow(c, page))
  /\ UNCHANGED <<ac, page, form, op, missed>>

\* ipsRuleCommands: IPS inspection on or off, on every copy of an Allow rule.
ToggleIps ==
  /\ form = Closed
  /\ \E r \in Rows(page) :
       /\ r.body.action = "accept"
       /\ LET c == Write(conf, r.n, [s \in r.scopes |-> [ips |-> ~r.body.ips, action |-> "accept"]])
          IN CommitTo(IF r.body.ips THEN c ELSE EnsureIpsFlow(c, page))
  /\ UNCHANGED <<ac, page, form, op, missed>>

\* setDefaultAction: Deny is refused while there are zones.
SetDefaultAction ==
  /\ form = Closed
  /\ \E drop \in BOOLEAN :
       /\ drop => page.zones = {}
       /\ CommitTo([IF drop THEN EnsureForward(conf, page) ELSE conf EXCEPT !.drop = drop])
  /\ UNCHANGED <<ac, page, form, op, missed>>

\* enableTrafficLoggingCommands: every baseline, and `log` on the scope that
\* represents each rule.
EnableTrafficLogging ==
  /\ form = Closed
  /\ LET c == EnsureChain(EnsureChain(EnsureForward(conf, page), page, "input"), page, "output")
         quiet == {<<Rep(r.scopes), r.n>> : r \in {r \in Rows(page) : ~r.body.log}}
     IN CommitTo([c EXCEPT !.rule = Over([k \in quiet |-> [RuleAt(c.rule, k) EXCEPT !.log = TRUE]], @)])
  /\ UNCHANGED <<ac, page, form, op, missed>>

\* diffPolicy: a protocol change is written to the scope that represents each
\* rule that uses the policy.
ChangePolicyProtocol ==
  /\ form = Closed
  /\ \E p \in {"tcp", "udp"} \ {page.protocol} :
       LET users == {<<Rep(r.scopes), r.n>> : r \in {r \in Rows(page) : r.body.policy}}
       IN CommitTo([conf EXCEPT !.protocol = p,
                      !.rule = Over([k \in users |-> [RuleAt(conf.rule, k) EXCEPT !.protocol = p]], @)])
  /\ UNCHANGED <<ac, page, form, op, missed>>

\* zoneUsage: the rules represented in a pair of the zone.
ZonePairs(c, z) == {p \in c.bound : z \in {Pairs[p].src, Pairs[p].dst}}
ZoneUsed(c, z) == \E r \in Rows(c) : Rep(r.scopes) \in ZonePairs(c, z)

AddZone ==
  /\ form = Closed
  /\ \E z \in (NetZones \cup {Local}) \ page.zones :
       CommitTo(EnsureState([conf EXCEPT !.zones = @ \cup {z}], page))
  /\ UNCHANGED <<ac, page, form, op, missed>>

\* deleteZone: its pairs, with their rulesets, go with it.  (A binding into the
\* zone that the page does not know goes with the zone's node.)
DeleteZone ==
  /\ form = Closed
  /\ \E z \in page.zones :
       /\ ~ZoneUsed(page, z)
       /\ CommitTo([TearDown(conf, ZonePairs(page, z)) EXCEPT !.zones = @ \ {z},
                                                             !.bound = {p \in @ : Pairs[p].dst # z}])
  /\ UNCHANGED <<ac, page, form, op, missed>>

\* diffZone of a renamed zone: its node goes, with the bindings into it, and a
\* node of the new name is built.
RenameZone ==
  /\ form = Closed
  /\ \E z \in page.zones \ {Local}, to \in NetZones \ page.zones :
       /\ ~ZoneUsed(page, z)
       /\ CommitTo(EnsureState([conf EXCEPT !.zones = (@ \ {z}) \cup {to},
                                            !.bound = {p \in @ : Pairs[p].dst # z}], page))
  /\ UNCHANGED <<ac, page, form, op, missed>>

\* Another administrator, whose page is up to date, deletes a rule while the
\* form is open and confirms it; the bindings of that rule go too.
OtherDeletes ==
  /\ form # Closed /\ pending = {} /\ op = Idle /\ commits < MaxCommits
  /\ \E r \in Rows(conf) :
       /\ conf' = DeleteRule(conf, conf, r, TRUE)
       /\ ac' = Without(ac, {r.n})
  /\ commits' = commits + 1
  /\ UNCHANGED <<page, form, op, pending, missed>>

Next ==
  \/ Confirm \/ Revert \/ Load \/ Open \/ OpenNew \/ Cancel \/ Submit \/ AcPut \/ AcPutFails
  \/ Delete \/ Reorder \/ AcCascade \/ ToggleIps \/ SetDefaultAction \/ EnableTrafficLogging
  \/ ChangePolicyProtocol \/ AddZone \/ DeleteZone \/ RenameZone \/ OtherDeletes
Spec == Init /\ [][Next]_vars

-----------------------------------------------------------------------------
\* Every variable has its shape.  A form is open on a row of some page, whose
\* number it keeps, or on a new rule.
IsRow(r) ==
  /\ r = [n |-> r.n, scopes |-> r.scopes, body |-> r.body]
  /\ r.n \in Nat \ {0} /\ IsBody(r.body)
  /\ r.scopes # {} /\ (r.scopes \subseteq DOMAIN Pairs \/ \E b \in Base : r.scopes = {b})
IsForm(f) ==
  f # Closed =>
    /\ DOMAIN f = {"mode", "live", "svc", "u"}
    /\ \A l \in f.live : IsRow(l) /\ f.u.n = l.n /\ \A m \in f.live : l = m
    /\ \A v \in f.svc :
         /\ DOMAIN v.ac \subseteq Nat /\ \A w \in f.svc : v = w
         /\ ("geo" \in v.unread => f.u.geo = None) /\ ("ac" \in v.unread => f.u.ac = None)
    /\ f.u.n \in Nat /\ {f.u.ips, f.u.log, f.u.policy, f.u.many} \subseteq BOOLEAN
    /\ DOMAIN f.u = {"n", "name", "sel", "action", "ips", "log", "policy", "many", "geo", "ssl", "ac"}
IsOp(o) ==
  \/ o = Idle
  \/ DOMAIN o = {"kind", "next", "sound"} /\ o.kind = "put" /\ DOMAIN o.next \subseteq Nat
  \/ DOMAIN o = {"kind", "move", "sound"} /\ o.kind = "cascade" /\ \A n \in DOMAIN o.move : o.move[n] \in Nat
TypeOK ==
  /\ \A c \in {conf, page} \cup pending : IsConf(c)
  /\ Cardinality(pending) <= 1
  /\ DOMAIN ac \subseteq Nat
  /\ IsForm(form)
  /\ IsOp(op)
  /\ commits \in 0..MaxCommits /\ missed \in BOOLEAN

\* A commit made from a page, and a form, that show the rules the device runs.
Committed == pending = {} /\ pending' = {conf} /\ page = conf /\ (form # Closed => FreshRule)
SubmitStep == Committed /\ form # Closed
CascadeStep == Committed /\ form = Closed /\ op'.kind = "cascade"
Reorders == CascadeStep /\ \A n \in DOMAIN op'.move : op'.move[n] # 0

\* No zone goes whose pairs hold rules.  (zoneUsage looks at the representative
\* alone, so a zone may go that a rule is still in.)
ZonesKept == \A z \in conf.zones \ conf'.zones : ZonePairs(conf, z) = {}

\* What rules rely on comes and goes with them.  A pair is bound exactly while
\* its ruleset holds a rule (Enforced): a ruleset without its binding "would sit in the
\* config doing nothing", an empty one "isn't harmless".  The state match is
\* there for zone rules, the flow rule for inspected ones, and the accept
\* baseline for rules of the input and output chains.  (LowKept: no chain loses the
\* last of the command line's rules at 1 and 2, which stood for its baseline.)
Seeded(c) ==
  /\ c.bound # {} => c.state
  /\ (\E k \in DOMAIN c.rule : c.rule[k].ips) => c.flow \/ Low(c, "forward")
  /\ \A k \in DOMAIN c.rule : k[1] \in {"input", "output"} => HasBaseline(c, k[1])
LowKept == \A chain \in Base : Low(conf, chain) => Low(conf', chain)
RulesEnforced ==
  [][/\ Committed /\ Enforced(conf) /\ ZonesKept => Enforced(conf')
     /\ Committed /\ Seeded(conf) /\ LowKept => Seeded(conf')]_vars

\* "Every copy is written identically", in all fields but those that the policy
\* page and the traffic monitor write on the representative alone.
SharedFields == DOMAIN BlankBody \ {"log", "protocol", "raw"}

\* No commit sets copies of a rule apart that were equal.  (Where rulesets and
\* bindings go together: a renamed zone may leave a ruleset behind without its
\* binding, whose copies miss what is written meanwhile and join their rule when
\* the pair is bound again.)
CopiesStayEqual ==
  [][Committed /\ Enforced(conf) /\ CopiesAgreeOn(conf, SharedFields) => CopiesAgreeOn(conf', SharedFields)]_vars

\* No two rules share a number, whatever scopes they are in: features that
\* know a rule by its number alone rely on it (renumberByRule).  Nor do they
\* share an auto-managed group: each backs exactly one rule, and a rule's group
\* exists.  (Again where rulesets and bindings go together: a ruleset that was
\* left behind comes into sight, with its numbers, when its pair is bound again.)
GroupsOwned(c) ==
  /\ \A k \in DOMAIN c.rule : c.rule[k].group \subseteq c.group
  /\ \A g \in c.group : Cardinality({r \in Rows(c) : g \in r.body.group}) = 1
RulesStayDistinct ==
  [][Committed /\ UniqueNumbers(conf) /\ Enforced(conf) =>
       /\ UniqueNumbers(conf')
       /\ CopiesAgreeOn(conf, {"group"}) /\ GroupsOwned(conf) /\ ZonesKept
            => GroupsOwned(conf')]_vars

\* Rules nobody edits are kept.  Saving or deleting one leaves every other, with
\* all its copies, as it is; a reorder moves whole rules, the leaves this UI does
\* not know included, to their positions, swaps among them too, and changes
\* nothing else.  (Where rulesets and bindings go together: a rule gains the copy
\* that was left under its number when another binds that copy's pair again.)
ReorderedWhole ==
  /\ {[r EXCEPT !.n = op'.move[@]] : r \in Rows(conf)} = Rows(conf')
  /\ \A r \in Rows(conf), s \in DOMAIN conf.rule :
       s[1] \in r.scopes /\ s[2] = r.n => conf.rule[s] = conf'.rule[<<s[1], op'.move[r.n]>>]
  /\ [conf' EXCEPT !.rule = conf.rule, !.geo = conf.geo] = conf
RulesKept ==
  [][UniqueNumbers(conf) /\ Enforced(conf) =>
       /\ SubmitStep => \A r \in Rows(conf) \ form.live : r \in Rows(conf')
       /\ CascadeStep /\ ~Reorders => \A r \in Rows(conf) : r.n \in DOMAIN op'.move \/ r \in Rows(conf')
       /\ Reorders => ReorderedWhole]_vars

\* No service comes to apply to a rule other than the one it was attached to:
\* geolocation policies through saves, deletes and reorders, SSL inspection
\* through saves, and the bindings of App Control once the write that follows
\* the commit has landed.  (From where the number and the name tell the rule:
\* numbers are unique, no ruleset was left behind without its binding, and the
\* copies of a rule have one name.  Left out are zone rules that change the pair
\* representing them, reads and writes that failed, and the SSL policies of
\* reordered or deleted rules, which the page does not touch.)
SameRepresentative ==
  SubmitStep => \A l \in form.live, r \in Rows(conf') :
                  r.n = l.n /\ IsZone(l.scopes) /\ IsZone(r.scopes) => Rep(r.scopes) = Rep(l.scopes)
ReadStep == form # Closed => ServicesRead
ServicesSound ==
  [][/\ Committed /\ ReadStep /\ ~missed' /\ GeoSound(conf) /\ Orderly(conf) /\ ZonesKept /\ SameRepresentative
          => GeoSound(conf') /\ (SubmitStep /\ SslSound(conf) => SslSound(conf'))
     /\ op # Idle /\ op' = Idle /\ op.sound /\ ~missed' => AcSound(conf', ac')
     /\ SubmitStep /\ ReadStep /\ op' = Idle /\ AcSound(conf, ac) /\ Orderly(conf) /\ SameRepresentative
          => AcSound(conf', ac)]_vars

\* What is attached to a rule: its geolocation policies, SSL policy and binding.
GeoOn(c, S, n) ==
  {<<c.geo[i].scope, c.geo[i].action, c.geo[i].of>> : i \in {i \in DOMAIN c.geo : c.geo[i].n = n /\ c.geo[i].scope \in S}}
SslOn(c, n) == {c.ssl[m].action : m \in DOMAIN c.ssl \cap {n}}
AcOn(a, n) == {a[m].action : m \in DOMAIN a \cap {n}}
\* The store once the write that is to follow a save has landed.
Stored == IF op' = Idle THEN ac ELSE op'.next

\* A saved rule has the services its form asked for, at the number it landed at
\* and in all its scopes, and no others.
ServedAs(e) ==
  LET u == Numbered(e)
      chains == RuleChainsFor(page.zones, u.sel)
      n == LandsAt(page, form.live, u, chains)
      allowed == u.action = "accept"
  IN /\ GeoOn(conf', chains, n) = IF allowed /\ u.geo # None THEN chains \X {u.geo} \X {u.name} ELSE {}
     /\ SslOn(conf', n) = IF allowed /\ chains = {"forward"} THEN {u.ssl} \ {None} ELSE {}
     /\ AcOn(Stored, n) = {AcAction(page, u)} \ {None}

\* No rule loses a service.  A save leaves the services of every other rule as
\* they are, even where the form could not read them: what it would write from
\* nothing is not offered then.  The saved rule is served as its form asked.  A
\* delete leaves the policies of the other rules, a reorder takes each along
\* with its rule, and the write that follows keeps the bindings of all rules
\* that are still there.
OthersServed ==
  \A r \in Rows(conf) \ form.live :
    /\ GeoOn(conf', r.scopes, r.n) = GeoOn(conf, r.scopes, r.n)
    /\ SslOn(conf', r.n) = SslOn(conf, r.n)
    /\ AcOn(Stored, r.n) = AcOn(ac, r.n)
MovedTo(o, n) == IF n \in DOMAIN o.move THEN o.move[n] ELSE n
PoliciesMoved ==
  \A r \in Rows(conf) :
    MovedTo(op', r.n) # 0 => GeoOn(conf', r.scopes, MovedTo(op', r.n)) = GeoOn(conf, r.scopes, r.n)
BindingsMoved == \A n \in DOMAIN ac : MovedTo(op, n) # 0 => AcOn(ac', MovedTo(op, n)) = {ac[n].action}
ServicesKept ==
  [][/\ SubmitStep /\ UniqueNumbers(conf) /\ form.svc \subseteq Readings => OthersServed
     /\ SubmitStep /\ ServicesRead =>
          \A e \in Entries(form.u) : ServedAs(e) \/ ~(SubmitAs(e) /\ NumbersAgree(Numbered(e)))
     /\ CascadeStep /\ ~missed' /\ GeoSound(conf) /\ UniqueNumbers(conf) /\ Enforced(conf) => PoliciesMoved
     /\ op # Idle /\ op' = Idle /\ op.sound /\ ~missed' => IF op.kind = "put" THEN ac' = op.next ELSE BindingsMoved]_vars
=============================================================================
