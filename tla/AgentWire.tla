------------------------------ MODULE AgentWire ------------------------------
(***************************************************************************)
(* What goes between a Cluster, a KargoAgent or a KargoInstance and the    *)
(* platform, as the sets of paths of SpecTree.  A generated SpecToAPI and  *)
(* its APIToSpec name the same fields and are one definition; the          *)
(* hand-written ones, apiTo..., read what a Get of a Cluster answers.      *)
(***************************************************************************)
EXTENDS SpecTree

\* The generated converters of cluster_convert.go.
Resources == Fields({"mem", "cpu"})
DirectClusterSpec == Fields({"clusterType", "kargoInstanceId", "server", "organization", "token", "caData"})
ManagedClusterConfig == Fields({"secretName", "secretKey"})
AppControllerAutoScalingConfig == Nest("resourceMinimum", Resources) \cup Nest("resourceMaximum", Resources)
RepoServerAutoScalingConfig ==
  Nest("resourceMinimum", Resources) \cup Nest("resourceMaximum", Resources)
  \cup Fields({"replicaMaximum", "replicaMinimum"})
AutoScalerConfig ==
  Nest("applicationController", AppControllerAutoScalingConfig) \cup Nest("repoServer", RepoServerAutoScalingConfig)
ClusterCompatibility == Fields({"ipv6Only"})
ClusterArgoCDNotificationsSettings == Fields({"inClusterSettings"})
ClusterData ==
  Fields({"size", "autoUpgradeDisabled", "kustomization", "appReplication", "targetVersion",
          "redisTunneling", "datadogAnnotationsEnabled", "eksAddonEnabled", "maintenanceMode",
          "multiClusterK8sDashboardEnabled", "project", "serverSideDiffEnabled",
          "maintenanceModeExpiry", "podInheritMetadata"})
  \cup Nest("directClusterSpec", DirectClusterSpec)
  \cup Nest("managedClusterConfig", ManagedClusterConfig)
  \cup Nest("autoscalerConfig", AutoScalerConfig)
  \cup Nest("compatibility", ClusterCompatibility)
  \cup Nest("argocdNotificationsSettings", ClusterArgoCDNotificationsSettings)

\* controller/cluster/convert.go: the Apply, less the maintenance mode.
ClusterSpecToAPI ==
  (Fields({"namespace", "labels", "annotations", "description", "namespaceScoped"}) \cup ClusterData)
  \ Fields({"maintenanceMode", "maintenanceModeExpiry"})
\* syncMaintenanceMode, which follows it.
SetClusterMaintenanceMode == Fields({"maintenanceMode", "maintenanceModeExpiry"})
\* What an export says.
wireToSpec ==
  Fields({"namespace", "labels", "annotations", "description", "namespaceScoped"}) \cup ClusterData

apiToDirectClusterSpec ==
  Fields({"clusterType", "kargoInstanceId", "server", "organization", "token", "caData"})
apiToManagedClusterConfig == Fields({"secretName", "secretKey"})
apiToAutoscalerConfig ==
  Nest("applicationController",
    Nest("resourceMinimum", Fields({"mem", "cpu"})) \cup Nest("resourceMaximum", Fields({"mem", "cpu"})))
  \cup Nest("repoServer",
         Nest("resourceMinimum", Fields({"mem", "cpu"})) \cup Nest("resourceMaximum", Fields({"mem", "cpu"}))
         \cup Fields({"replicaMinimum", "replicaMaximum"}))
apiToCompatibility == Fields({"ipv6Only"})
apiToArgocdNotificationsSettings == Fields({"inClusterSettings"})
\* What a Get says.
APIToSpec ==
  Fields({"namespace", "labels", "annotations", "description", "namespaceScoped", "size",
          "autoUpgradeDisabled", "kustomization", "appReplication", "targetVersion", "redisTunneling",
          "datadogAnnotationsEnabled", "eksAddonEnabled", "multiClusterK8sDashboardEnabled", "project",
          "serverSideDiffEnabled", "maintenanceMode", "maintenanceModeExpiry", "podInheritMetadata"})
  \cup Nest("directClusterSpec", apiToDirectClusterSpec)
  \cup Nest("managedClusterConfig", apiToManagedClusterConfig)
  \cup Nest("autoscalerConfig", apiToAutoscalerConfig)
  \cup Nest("compatibility", apiToCompatibility)
  \cup Nest("argocdNotificationsSettings", apiToArgocdNotificationsSettings)
\* What the Get says of it whether or not there is an export.
overlayClusterGetOnlyData ==
  {"multiClusterK8sDashboardEnabled", "autoscalerConfig", "compatibility", "argocdNotificationsSettings",
   "directClusterSpec", "serverSideDiffEnabled", "podInheritMetadata", "datadogAnnotationsEnabled",
   "eksAddonEnabled", "maintenanceMode", "maintenanceModeExpiry"}
ClusterSeen(way) ==
  {p \in IF way = "export" THEN wireToSpec ELSE APIToSpec : p[1] \notin overlayClusterGetOnlyData}
  \cup {p \in APIToSpec : p[1] \in overlayClusterGetOnlyData}

-----------------------------------------------------------------------------
\* The generated converters of kargoagent_convert.go.
KargoResources == Fields({"mem", "cpu"})
KargoControllerAutoScalingConfig ==
  Nest("resourceMinimum", KargoResources) \cup Nest("resourceMaximum", KargoResources)
KargoAutoscalerConfig == Nest("kargoController", KargoControllerAutoScalingConfig)
KargoAgentData ==
  Fields({"size", "autoUpgradeDisabled", "targetVersion", "kustomization", "remoteArgocd",
          "akuityManaged", "argocdNamespace", "selfManagedArgocdUrl", "allowedJobSa",
          "maintenanceMode", "maintenanceModeExpiry", "podInheritMetadata"})
  \cup Nest("autoscalerConfig", KargoAutoscalerConfig)

\* controller/kargoagent/convert.go: the Apply, and both reads.
KargoAgentSpecToAPI == Fields({"namespace", "labels", "annotations", "description"}) \cup KargoAgentData
KargoAgentWireToSpec == Fields({"namespace", "labels", "annotations", "description"}) \cup KargoAgentData
KargoAgentApiToSpec == Fields({"namespace", "labels", "annotations", "description"}) \cup KargoAgentData

-----------------------------------------------------------------------------
\* The generated converters of kargoinstance_convert.go.
KargoPredefinedAccountClaimValue == Fields({"values"})
KargoPredefinedAccountData == Nest("claims", Nest("key", KargoPredefinedAccountClaimValue))
Value == Fields({"value"})
KargoOidcConfig ==
  Fields({"enabled", "dexEnabled", "dexConfig", "issuerUrl", "clientId", "cliClientId", "additionalScopes"})
  \cup Nest("dexConfigSecret", Nest("key", Value))
  \cup Nest("adminAccount", KargoPredefinedAccountData)
  \cup Nest("viewerAccount", KargoPredefinedAccountData)
  \cup Nest("userAccount", KargoPredefinedAccountData)
  \cup Nest("projectCreatorAccount", KargoPredefinedAccountData)
LabelSelectorRequirement == Fields({"key", "operator", "values"})
ObjectSelector == Fields({"matchLabels"}) \cup Nest("matchExpressions", LabelSelectorRequirement)
ClusterSecretMapping == Nest("clusters", ObjectSelector) \cup Nest("secrets", ObjectSelector)
SecretsManagementConfig ==
  Nest("sources", ClusterSecretMapping) \cup Nest("destinations", ClusterSecretMapping)
KargoIPAllowListEntry == Fields({"ip", "description"})
KargoAgentCustomization == Fields({"autoUpgradeDisabled", "kustomization"})
AkuityIntelligence ==
  Fields({"aiSupportEngineerEnabled", "enabled", "allowedUsernames", "allowedGroups", "modelVersion"})
GarbageCollectorConfig ==
  Fields({"maxRetainedFreight", "maxRetainedPromotions", "minFreightDeletionAge", "minPromotionDeletionAge"})
KargoArgoCDUIConfig == Fields({"idpGroupsMapping"})
KargoInstanceSpec ==
  Fields({"backendIpAllowListEnabled", "defaultShardAgent", "globalCredentialsNs",
          "globalServiceAccountNs", "promoControllerEnabled"})
  \cup Nest("ipAllowList", KargoIPAllowListEntry)
  \cup Nest("agentCustomizationDefaults", KargoAgentCustomization)
  \cup Nest("akuityIntelligence", AkuityIntelligence)
  \cup Nest("gcConfig", GarbageCollectorConfig)
  \cup Nest("secrets", SecretsManagementConfig)
  \cup Nest("argocdUi", KargoArgoCDUIConfig)
KargoSpec ==
  Fields({"description", "version", "fqdn", "subdomain"})
  \cup KargoInstanceSpec \cup Nest("oidcConfig", KargoOidcConfig)

\* controller/kargoinstance: the default shard agent is another resource's.
specToPB == KargoSpec \ Fields({"defaultShardAgent"})
exportToSpec == KargoSpec
KargoInstanceApiToSpec ==
  Fields({"description", "version", "fqdn", "subdomain"})
  \cup KargoInstanceSpec \cup Nest("oidcConfig", KargoOidcConfig)
=============================================================================
