--------------------------- MODULE ServiceEditors ---------------------------
(***************************************************************************)
(* The editors of the DHCP relay, DHCP server and DNS forwarding pages.    *)
(***************************************************************************)
EXTENDS EditorKit

(******************************* DHCP relay ********************************)
\* An entry is an interface or a server, kept as a bare value: entries are
\* added and deleted, never edited.
Relay_Read == Schema({}, {}, {})
Relay_Keys(t) == {SubSeq(q, 2, 3) : q \in {r \in t : Len(r) = 3 /\ r[1] = "service_dhcp-relay"}}
Relay_Form(p, to) == {r \in {Blank(Relay_Read)} : to \notin Relay_Keys(p)}
Relay == Editor("service_dhcp-relay", Relay_Read, Relay_Read)

(******************************* DHCP server *******************************)
\* A shared network holds subnets, a subnet ranges and static mappings: the
\* key of an object alternates names with the kinds of node below its server.
Dhcp_At == "service_dhcp-server"
Dhcp_Keys(t, kinds) ==
  LET n == 2 * Len(kinds) + 2
  IN {SubSeq(q, 2, n) : q \in {r \in t : Len(r) >= n /\ r[1] = Dhcp_At /\ \A i \in 1..Len(kinds) : r[2 * i + 1] = kinds[i]}}

\* (Left out: the places of VyOS 1.3, options beside `option` and a mapping's
\* mac-address, from which the parser falls back to read.)
Server_Read == Schema({"description"}, {}, {"authoritative", "disable"})
Subnet_Read == Schema({"option_default-router", "option_domain-name", "lease"}, {"option_name-server"}, {})
Range_Read == Schema({"start", "stop"}, {}, {})
Mapping_Read == Schema({"ip-address", "mac", "description"}, {}, {})
Server_Write == Server_Read
Subnet_Write == Subnet_Read
Range_Write == Range_Read
Mapping_Write == Mapping_Read

\* nextSubnetId: one above the largest id in use on any server.
\* (Ids are single digits here.)
Decimal == <<"1", "2", "3", "4", "5", "6", "7", "8", "9">>
IdOf(v) == CHOOSE n \in DOMAIN Decimal : Decimal[n] = v
SubnetIds(t) == {IdOf(Val(t, <<Dhcp_At>> \o k \o <<"subnet-id">>)) : k \in {j \in Dhcp_Keys(t, <<"subnet">>) : Val(t, <<Dhcp_At>> \o j \o <<"subnet-id">>) # None}}

\* Mutant: the largest id itself.
NextSubnetIdTaken(t) == Decimal[CHOOSE n \in SubnetIds(t) \cup {1} : \A m \in SubnetIds(t) : m <= n]

NextSubnetId(t) == Decimal[1 + CHOOSE n \in SubnetIds(t) \cup {0} : \A m \in SubnetIds(t) : m <= n]

\* applyDhcpSubnet: a new subnet gets its mandatory id.
Subnet_Diff(p, b, isNew, live, u) ==
  Both(Diff(b, Subnet_Write, live, u), IF isNew THEN Puts({b \o <<"subnet-id", NextSubnetId(p)>>}) ELSE NoCommands)

\* A new server comes with its first subnet and the range "default" in it: the
\* form has entries for them that the form of an existing server lacks.
First == {"first_subnet", "first_gateway", "first_name-server", "first_start", "first_stop"}
Server_Diff(p, b, isNew, live, u) ==
  LET s == b \o <<"subnet", u["first_subnet"]>>
      asked == [Blank(Subnet_Write) EXCEPT !["option_default-router"] = u["first_gateway"],
                                           !["option_name-server"] = {u["first_name-server"]} \ {None}]
      range == [start |-> u["first_start"], stop |-> u["first_stop"]]
      server == Diff(b, Server_Write, live, u)
  IN IF isNew /\ u["first_subnet"] # None
     THEN BothOf({server, Subnet_Diff(p, s, TRUE, Blank(Subnet_Write), asked),
                  FlatDiff(s \o <<"range", "default">>, Range_Write, Blank(Range_Write), range)})
     ELSE Created(b, isNew, server)
Server_Form(k, u) ==
  {r \in {u} : IF k = <<>> THEN \A f \in {"first_subnet", "first_start", "first_stop"} : u[f] # None
               ELSE \A f \in First : u[f] = None}

Server == [Editor(Dhcp_At, [Server_Read EXCEPT !.secret = First], [Server_Write EXCEPT !.secret = First]) EXCEPT !.live = "page"]
Subnet == [Editor(Dhcp_At, Subnet_Read, Subnet_Write) EXCEPT !.live = "page"]
DhcpRange == [Editor(Dhcp_At, Range_Read, Range_Write) EXCEPT !.live = "page", !.renames = TRUE, !.need = {"start", "stop"}]
Mapping == [Editor(Dhcp_At, Mapping_Read, Mapping_Write) EXCEPT !.live = "page", !.renames = TRUE, !.need = {"ip-address", "mac"}]

(***************************** DNS forwarding ******************************)
Dns_Read ==
  Schema({"cache-size", "dnssec"}, {"listen-address", "allow-from", "name-server"}, {"system"})
Dns_Write == Dns_Read
Domain_Read == Schema({}, {"name-server"}, {})
Domain_Write == Domain_Read
Dns == [Settings("service_dns_forwarding", Dns_Read, Dns_Write) EXCEPT !.need = {"listen-address", "allow-from"}]
Domain == [Editor("service_dns_forwarding_domain", Domain_Read, Domain_Write)
             EXCEPT !.live = "page", !.renames = TRUE, !.need = {"name-server"}]

(********************************** pages **********************************)
DhcpRelayPage == "dhcp_relay" :> [Relay EXCEPT !.edits = FALSE]
DhcpServerPage ==
  "dhcp_server" :> Server @@ "dhcp_subnet" :> Subnet @@ "dhcp_range" :> DhcpRange @@ "dhcp_mapping" :> Mapping
DnsForwardingPage == "dns_forwarding" :> Dns @@ "dns_domain" :> Domain
ServicePages == DhcpRelayPage @@ DhcpServerPage @@ DnsForwardingPage
=============================================================================
