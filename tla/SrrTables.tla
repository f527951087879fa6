----------------------------- MODULE SrrTables -----------------------------
(***************************************************************************)
(* The tables the daemon ships with: initSrrFeatures, initSrrGroups and      *)
(* g_agentToQueue of fty_srr_groups.cc, as values for the constants of       *)
(* SrrGroups.  Names are the constants of fty-srr.h.                         *)
(***************************************************************************)
EXTENDS Integers, Sequences

agentToQueue == {"alert-agent-srr", "asset-agent-srr", "automatic-group", "fty-config",
                 "etn-malamute-translator", "etn-syslog", "security-wallet", "usm-agent-srr"}

(* Features by the agent that owns them.                                      *)
ConfigFeature == {"automation-settings", "discovery", "etn-mass-management",
                  "monitoring", "network", "notification"}
Emc4jFeature == {"automations", "virtual-assets", "virtualization-settings", "ai-settings"}

srrFeatureMap ==
  ConfigFeature \cup Emc4jFeature \cup
  {"alert-agent", "asset-agent", "automatic-groups", "rsyslog", "security-wallet",
   "user-session-management"}

featureAgent ==
  [f \in srrFeatureMap |->
     CASE f \in ConfigFeature             -> "fty-config"
       [] f \in Emc4jFeature              -> "etn-malamute-translator"
       [] f = "alert-agent"               -> "alert-agent-srr"
       [] f = "asset-agent"               -> "asset-agent-srr"
       [] f = "automatic-groups"          -> "automatic-group"
       [] f = "rsyslog"                   -> "etn-syslog"
       [] f = "security-wallet"           -> "security-wallet"
       [] f = "user-session-management"   -> "usm-agent-srr"]

featureRequiredIn ==
  [f \in srrFeatureMap |->
     CASE f = "rsyslog" -> {"2.2"}
       [] f \in {"automatic-groups", "user-session-management",
                 "virtualization-settings", "ai-settings"} -> {"2.1"}
       [] OTHER -> {"1.0", "2.0", "2.1"}]

featureRestart == [f \in srrFeatureMap |-> TRUE]

featureReset ==
  [f \in srrFeatureMap |->
     f \notin ConfigFeature \cup {"security-wallet", "user-session-management"}]

(* The groups in restore order, each with its features in priority order.     *)
srrGroups == <<
  [id |-> "group-assets",
   fp |-> <<"security-wallet", "asset-agent", "automatic-groups", "virtual-assets",
            "alert-agent", "automation-settings", "automations">>],
  [id |-> "group-discovery",                 fp |-> <<"discovery">>],
  [id |-> "group-mass-management",           fp |-> <<"etn-mass-management">>],
  [id |-> "group-monitoring-feature-name",   fp |-> <<"monitoring">>],
  [id |-> "group-remote-syslog",             fp |-> <<"rsyslog">>],
  [id |-> "group-network",                   fp |-> <<"network">>],
  [id |-> "group-notification-feature-name", fp |-> <<"notification">>],
  [id |-> "group-virtualization-settings",   fp |-> <<"virtualization-settings">>],
  [id |-> "group-ai-settings",               fp |-> <<"ai-settings">>],
  [id |-> "group-user-session-management",   fp |-> <<"user-session-management">>] >>

srrGroupMap == {srrGroups[i].id : i \in DOMAIN srrGroups}

groupRank(g) == CHOOSE i \in DOMAIN srrGroups : srrGroups[i].id = g

groupRestoreOrder == [g \in srrGroupMap |-> groupRank(g) - 1]

groupFp ==
  [g \in srrGroupMap |->
     LET fp == srrGroups[groupRank(g)].fp
     IN  [i \in DOMAIN fp |-> [m_feature |-> fp[i], m_priority |-> i]]]
=============================================================================
