----------------------------- MODULE VpnEditors -----------------------------
(***************************************************************************)
(* The editors of the VPN pages: IPsec, OpenVPN, WireGuard and L2TP.  All  *)
(* their modals diff against the row they were opened on.                  *)
(***************************************************************************)
EXTENDS EditorKit

(********************************** IPsec **********************************)
\* parseProposals, diffProposals: only IKE proposals have a DH group.
IkeProposal == Schema({"encryption", "hash", "dh-group"}, {}, {})
EspProposal == Schema({"encryption", "hash"}, {}, {})

IkeGroup_Read ==
  [Schema({"key-exchange", "lifetime", "dead-peer-detection_action", "dead-peer-detection_interval",
           "dead-peer-detection_timeout"}, {}, {}) EXCEPT !.tags = "proposal" :> IkeProposal]
IkeGroup_Write == IkeGroup_Read
EspGroup_Read == [Schema({"lifetime", "pfs", "mode"}, {}, {}) EXCEPT !.tags = "proposal" :> EspProposal]
EspGroup_Write == EspGroup_Read
IkeGroup == Editor("vpn_ipsec_ike-group", IkeGroup_Read, IkeGroup_Write)
EspGroup == Editor("vpn_ipsec_esp-group", EspGroup_Read, EspGroup_Write)

Tunnel_Read == Schema({"local_prefix", "remote_prefix", "protocol", "esp-group"}, {}, {})
IpsecPeer_Read ==
  [Schema({"authentication_mode", "authentication_pre-shared-secret", "authentication_local-id",
           "authentication_remote-id", "connection-type", "ike-group", "default-esp-group",
           "local-address", "remote-address", "vti_bind"}, {}, {}) EXCEPT !.tags = "tunnel" :> Tunnel_Read]
IpsecPeer_Write == IpsecPeer_Read
Psk == "pre-shared-secret"
IpsecPeer_Seed(r) == [r EXCEPT !["authentication_mode"] = IF @ = None THEN Psk ELSE @]
\* One of the two modes is always selected, and a secret is sent with its own
\* mode only.  A peer is bound to an interface
\* ("route") or has tunnels ("policy"), and the form has no entries for the
\* protocol and the ESP group of a tunnel.
IpsecPeer_Form(u) ==
  LET tunnels == [k \in DOMAIN u["tunnel"] |-> [u["tunnel"][k] EXCEPT !["protocol"] = None, !["esp-group"] = None]]
      sent == [u EXCEPT !["authentication_pre-shared-secret"] = IF u["authentication_mode"] = Psk THEN @ ELSE None,
                        !["tunnel"] = IF u["vti_bind"] = None THEN tunnels ELSE NoSubs]
  IN {r \in {sent} : u["authentication_mode"] # None}
IpsecPeer == Editor("vpn_ipsec_site-to-site_peer", IpsecPeer_Read, IpsecPeer_Write)

IpsecInterfaces_Read == Schema({}, {"interface"}, {})
IpsecInterfaces_Write == IpsecInterfaces_Read
IpsecInterfaces == Panel("vpn_ipsec", IpsecInterfaces_Read, IpsecInterfaces_Write)

(********************************* OpenVPN *********************************)
\* The groups `authentication` and `server` count as there when one of their
\* fields is set.  The mode is kept apart: it decides which fields are sent.
OpenvpnAuth == Schema({"username", "password"}, {}, {})
OpenvpnServer == Schema({"subnet", "topology", "max-connections"}, {"push-route", "name-server"}, {})
Openvpn_Read ==
  [Schema({"description", "device-type", "protocol", "local-host", "local-port", "encryption_cipher", "hash",
           "tls_ca-certificate", "tls_certificate", "tls_dh-params", "tls_role", "local-address", "remote-address",
           "shared-secret-key", "remote-host", "remote-port"},
          {"openvpn-option"}, {"persistent-tunnel", "disable"})
     EXCEPT !.gates = "authentication" :> OpenvpnAuth @@ "server" :> OpenvpnServer]
Openvpn_Write == Openvpn_Read
OpenvpnModes == {"site-to-site", "client", "server"}
IfSet(s, g) == [k \in {x \in DOMAIN g : g[x] # Blank(s)} |-> g[k]]
Openvpn_Row(t, b) ==
  LET r == Row(t, b, Openvpn_Read)
      mode == Val(t, b \o <<"mode">>)
  IN "mode" :> (IF mode = None THEN "site-to-site" ELSE mode)
       @@ [n \in DOMAIN Openvpn_Read.gates |-> IfSet(Openvpn_Read.gates[n], r[n])] @@ r

\* The nodes a change of mode deletes, and the fields a mode sends.
MODE_NODES ==
  "site-to-site" :> {"local-address", "remote-address", "shared-secret-key"}
    @@ "client" :> {"remote-host", "remote-port", "authentication"}
    @@ "server" :> {"server"}
ModeFields ==
  "site-to-site" :> {"local-address", "remote-address", "shared-secret-key", "remote-host", "tls_role"}
    @@ "client" :> {"remote-host", "remote-port", "authentication"}
    @@ "server" :> {"server"}
OfSomeMode == UNION {ModeFields[m] : m \in OpenvpnModes}

\* submit(): the fields of the other modes are sent empty.
Openvpn_Form(u) ==
  LET absent == (OfSomeMode \ ModeFields[u["mode"]]) \cup IF u["mode"] = "site-to-site" THEN {"tls_dh-params"} ELSE {}
  IN {[f \in absent |-> Blank(Openvpn_Write)[f]]
        @@ [n \in DOMAIN Openvpn_Write.gates |-> IfSet(Openvpn_Write.gates[n], u[n])] @@ u}

\* diffOpenvpn: a change of mode deletes the nodes of the old one, and the new
\* mode's fields are diffed against nothing.  The fields of the modes the
\* interface is not in are not looked at.
Openvpn_Diff(b, isNew, live, u) ==
  LET s == Openvpn_Write
      switched == ~isNew /\ live["mode"] # u["mode"]
      old == IF isNew \/ switched THEN Blank(s) ELSE live
      sent == [s EXCEPT !.leaf = @ \ (OfSomeMode \ ModeFields[u["mode"]])]
      base == [f \in OfSomeMode |-> old[f]] @@ live
      group(r, n) == IF "" \in DOMAIN r[n] THEN r[n][""] ELSE Blank(s.gates[n])
      purge == IF switched THEN MODE_NODES[live["mode"]] \cup {x \in {"tls_role"} : live["mode"] = "site-to-site" /\ live[x] # None}
               ELSE {}
      mode == IF isNew \/ switched THEN {b \o <<"mode", u["mode"]>>} ELSE {}
  IN BothOf({FlatDiff(b, sent, base, u), Batch({b \o <<n>> : n \in purge}, mode, {})}
            \cup {FlatDiff(b \o <<n>>, s.gates[n], group(base, n), group(u, n)) : n \in DOMAIN s.gates \cap ModeFields[u["mode"]]})
Openvpn == Editor("interfaces_openvpn", Openvpn_Read, Openvpn_Write)

(******************************** WireGuard ********************************)
WireguardPeer_Read ==
  Schema({"public-key", "preshared-key", "address", "port", "persistent-keepalive"}, {"allowed-ips"}, {"disable"})
Wireguard_Read ==
  [Schema({"description", "private-key", "port", "mtu"}, {"address"}, {"disable"}) EXCEPT !.tags = "peer" :> WireguardPeer_Read]
Wireguard_Write == Wireguard_Read
Wireguard_Form(u) == {r \in {u} : \A k \in DOMAIN u["peer"] : u["peer"][k]["public-key"] # None}
Wireguard == Editor("interfaces_wireguard", Wireguard_Read, Wireguard_Write)

(********************************** L2TP ***********************************)
\* (Left out: authentication protocols other than the four of the form, which
\* its parser skips.)
L2tpGeneral_Read ==
  Schema({"outside-address", "gateway-address", "mtu", "authentication_mode", "default-pool",
          "ipsec-settings_authentication_mode", "ipsec-settings_authentication_pre-shared-secret"},
         {"name-server", "authentication_protocols"}, {})
L2tpGeneral_Write == L2tpGeneral_Read
L2tpGeneral == Panel("vpn_l2tp_remote-access", L2tpGeneral_Read, L2tpGeneral_Write)

L2tpUser_Read == Schema({"password", "static-ip"}, {}, {"disable"})
L2tpUser_Write == L2tpUser_Read
L2tpUser_Form(k, u) == {r \in {u} : k = <<>> => u["password"] # None}
L2tpUser == Editor("vpn_l2tp_remote-access_local-users", L2tpUser_Read, L2tpUser_Write)

L2tpPool_Read == Schema({"range"}, {}, {})
L2tpPool_Write == L2tpPool_Read
L2tpPool == [Editor("vpn_l2tp_remote-access_client-ip-pool", L2tpPool_Read, L2tpPool_Write) EXCEPT !.need = {"range"}]

L2tpRadius_Read == Schema({"key", "port"}, {}, {"disable"})
L2tpRadius_Write == L2tpRadius_Read
L2tpRadius_Form(k, u) == {r \in {u} : k = <<>> => u["key"] # None}
L2tpRadius == Editor("vpn_l2tp_remote-access_radius", L2tpRadius_Read, L2tpRadius_Write)

(********************************** pages **********************************)
IpsecPage ==
  "ipsec_ike-group" :> IkeGroup @@ "ipsec_esp-group" :> EspGroup @@ "ipsec_peer" :> IpsecPeer
    @@ "ipsec_interfaces" :> IpsecInterfaces
OpenvpnPage == "openvpn" :> Openvpn
WireguardPage == "wireguard" :> Wireguard
L2tpPage == "l2tp" :> L2tpGeneral @@ "l2tp_user" :> L2tpUser @@ "l2tp_pool" :> L2tpPool @@ "l2tp_radius" :> L2tpRadius
VpnPages == IpsecPage @@ OpenvpnPage @@ WireguardPage @@ L2tpPage
=============================================================================
