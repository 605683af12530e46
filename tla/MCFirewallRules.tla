-------------------------- MODULE MCFirewallRules ---------------------------
EXTENDS FirewallRules, TLC

MCPairs ==
  [dmzToWan |-> [src |-> "dmz", dst |-> "wan"], lanToWan |-> [src |-> "lan", dst |-> "wan"],
   lanToDmz |-> [src |-> "lan", dst |-> "dmz"], wanToLocal |-> [src |-> "wan", dst |-> "fw"]]
MCOrder == <<"forward", "input", "output", "dmzToWan", "lanToDmz", "lanToWan", "wanToLocal">>
MCSides ==
  {[from |-> {}, to |-> {}], [from |-> {}, to |-> {"firewall"}],
   [from |-> {"dmz"}, to |-> {"wan"}], [from |-> {"dmz", "lan"}, to |-> {"wan"}], [from |-> {"lan"}, to |-> {"wan"}],
   [from |-> {"lan"}, to |-> {"dmz", "wan"}], [from |-> {"wan"}, to |-> {"firewall"}]}

NoRules ==
  [rule |-> Nothing, bound |-> {}, zones |-> {}, group |-> {}, geo |-> Nothing, ssl |-> Nothing,
   protocol |-> "tcp", baseline |-> {}, flow |-> FALSE, state |-> FALSE, drop |-> FALSE]
Body(name, group) == [BlankBody EXCEPT !.name = name, !.action = "accept", !.group = group]
Geo(scope, n, of) == [scope |-> scope, n |-> n, action |-> "x", off |-> FALSE, of |-> of]

\* A forward rule with every service and a zone rule over two pairs, on a device
\* with the older baseline.
Mixed ==
  [NoRules EXCEPT
     !.rule = <<"forward", 10>> :> [Body("a", {<<10, 1>>}) EXCEPT !.raw = TRUE]
                @@ <<"dmzToWan", 20>> :> [Body("b", {}) EXCEPT !.policy = TRUE, !.protocol = "tcp"]
                @@ <<"lanToWan", 20>> :> [Body("b", {}) EXCEPT !.policy = TRUE, !.protocol = "tcp"],
     !.bound = {"dmzToWan", "lanToWan"}, !.zones = {"dmz", "lan", "wan"}, !.group = {<<10, 1>>}, !.state = TRUE, !.baseline = {"forward"},
     !.geo = 1 :> Geo("forward", 10, "a") @@ 2 :> Geo("dmzToWan", 20, "b") @@ 3 :> Geo("lanToWan", 20, "b"),
     !.ssl = 10 :> [action |-> "inspect", off |-> FALSE, of |-> "a"]]
MixedAc ==
  10 :> [action |-> "x", of |-> "a", match |-> [from |-> {}, to |-> {}]]
    @@ 20 :> [action |-> "y", of |-> "b", match |-> [from |-> {"dmz", "lan"}, to |-> {"wan"}]]
\* Two zone rules, on a device whose first forward rule was made on its command
\* line; it has an SSL policy that is switched off.
Zoned ==
  [NoRules EXCEPT
     !.rule = <<"lanToWan", 10>> :> Body("a", {}) @@ <<"lanToDmz", 30>> :> [Body("b", {<<30, 1>>}) EXCEPT !.raw = TRUE]
                @@ <<"lanToWan", 30>> :> Body("b", {<<30, 1>>}) @@ <<"forward", 1>> :> Body("c", {}),
     !.bound = {"lanToWan", "lanToDmz"}, !.zones = {"dmz", "lan", "wan", "fw"}, !.group = {<<30, 1>>}, !.state = TRUE,
     !.ssl = 1 :> [action |-> "inspect", off |-> TRUE, of |-> "c"]]
ZonedAc == 30 :> [action |-> "x", of |-> "b", match |-> [from |-> {"lan"}, to |-> {"dmz", "wan"}]]
\* A ruleset whose binding went with a renamed zone, and a baseline that lacks
\* the flow rule.
Leftover ==
  [NoRules EXCEPT
     !.rule = <<"forward", 10>> :> Body("a", {}) @@ <<"dmzToWan", 20>> :> Body("b", {}) @@ <<"lanToWan", 20>> :> Body("b", {})
                @@ <<"lanToDmz", 10>> :> [Body("c", {}) EXCEPT !.ips = TRUE],
     !.bound = {"dmzToWan"}, !.zones = {"dmz", "lan", "wan"}, !.state = TRUE, !.baseline = {"forward"}]
MCStarts ==
  {[conf |-> Mixed, ac |-> MixedAc], [conf |-> Zoned, ac |-> ZonedAc],
   [conf |-> Leftover, ac |-> Nothing], [conf |-> NoRules, ac |-> Nothing]}
=============================================================================
