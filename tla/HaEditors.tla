----------------------------- MODULE HaEditors ------------------------------
(***************************************************************************)
(* The editors of the high-availability pages: VRRP groups, sync groups    *)
(* and global parameters, virtual servers, configuration sync.             *)
(***************************************************************************)
EXTENDS EditorKit

(************************* high-availability vrrp **************************)
HealthCheck_Read == {"health-check_script", "health-check_interval", "health-check_failure-count", "health-check_timeout"}
Transition_Read == {"transition-script_master", "transition-script_backup", "transition-script_fault", "transition-script_stop"}
Garp_Read == {"garp_interval", "garp_master-delay", "garp_master-refresh", "garp_master-refresh-repeat", "garp_master-repeat"}
\* An authentication node without a type reads as plaintext-password; the
\* password is never taken from the configuration.
Vrrp_Read ==
  [Schema({"interface", "vrid", "priority", "advertise-interval", "description", "version", "hello-source-address",
           "peer-address", "preempt-delay"} \cup HealthCheck_Read \cup Transition_Read \cup Garp_Read,
          {"excluded-address", "track_interface"},
          {"no-preempt", "rfc3768-compatibility", "disable", "track_exclude-vrrp-interface"})
     EXCEPT !.tags = "address" :> Schema({"interface"}, {}, {}),
            !.gates = "authentication" :> [Schema({}, {}, {}) EXCEPT !.pick = "type" :> "plaintext-password",
                                                                     !.secret = {"password"}]]
VrrpSync_Read == Schema(HealthCheck_Read \cup Transition_Read, {"member"}, {})
VrrpGlobal_Read == Schema({"startup-delay", "version"} \cup Garp_Read, {}, {})

HealthCheck_Write == HealthCheck_Read
Transition_Write == Transition_Read
Garp_Write == Garp_Read
Vrrp_Write == Vrrp_Read
VrrpSync_Write == VrrpSync_Read
VrrpGlobal_Write == VrrpGlobal_Read
VrrpSync_Form(u) == {r \in {u} : Cardinality(u["member"]) >= 2}

VrrpGroup == [Editor("high-availability_vrrp_group", Vrrp_Read, Vrrp_Write) EXCEPT !.need = {"interface", "vrid", "address"}]
VrrpSync == Editor("high-availability_vrrp_sync-group", VrrpSync_Read, VrrpSync_Write)
VrrpGlobal == Panel("high-availability_vrrp_global-parameters", VrrpGlobal_Read, VrrpGlobal_Write)

(******************** high-availability virtual-server *********************)
VirtualServer_Read ==
  [Schema({"port", "protocol", "fwmark", "algorithm", "forward-method", "delay-loop", "persistence-timeout"}, {}, {})
     EXCEPT !.tags = "real-server" :> Schema({"port", "weight", "connection-timeout", "health-check_script"}, {}, {})]
VirtualServer_Write == VirtualServer_Read
VirtualServer == [Editor("high-availability_virtual-server", VirtualServer_Read, VirtualServer_Write)
                    EXCEPT !.need = {"real-server"}]

(*************************** service config-sync ***************************)
\* What is synchronised is a set of sections, each whole or one row for every
\* sub-element it names.
SyncSections(t, b) ==
  UNION {LET subs == Vals(t, b \o <<"section", s>>) IN {<<s, x>> : x \in IF subs = {} THEN {None} ELSE subs}
           : s \in Vals(t, b \o <<"section">>)}
SectionPath(b, s) == IF s[2] = None THEN b \o <<"section", s[1]>> ELSE b \o <<"section">> \o s
ConfigSync_Leaves == [Schema({"mode", "secondary_address", "secondary_port", "secondary_timeout"}, {}, {})
                        EXCEPT !.secret = {"secondary_key"}]
ConfigSync_Row(t, b) ==
  Row(t, b, ConfigSync_Leaves) @@ "has_key" :> (Vals(t, b \o <<"secondary_key">>) # {}) @@ "section" :> SyncSections(t, b)
\* The sections that went are deleted after the new ones are set.
ConfigSync_Diff(b, live, u) ==
  BothOf({FlatDiff(b, ConfigSync_Leaves, live, u),
          Adds({SectionPath(b, s) : s \in u["section"] \ live["section"]}),
          LateDeletes({SectionPath(b, s) : s \in live["section"] \ u["section"]})})
\* The page: a mode, an address, a key (typed now or stored) and a section.
ConfigSync_Form(u) ==
  {r \in {u} : /\ Filled(ConfigSync_Leaves, u, {"mode", "secondary_address"})
               /\ u["has_key"] \/ u["secondary_key"] # None
               /\ u["section"] # {}}
\* The page reloads its form together with its data, and commits directly.
ConfigSync == [Panel("service_config-sync", ConfigSync_Leaves, ConfigSync_Leaves)
                 EXCEPT !.live = "synced"]

(********************************** pages **********************************)
VrrpPage == "vrrp_group" :> VrrpGroup @@ "vrrp_sync-group" :> VrrpSync @@ "vrrp_global" :> VrrpGlobal
VirtualServersPage == "virtual_server" :> VirtualServer
ConfigSyncPage == "config_sync" :> ConfigSync
HaPages == VrrpPage @@ VirtualServersPage @@ ConfigSyncPage
=============================================================================
