----------------------------- MODULE AgentTypes -----------------------------
(***************************************************************************)
(* The types of what a Cluster, a KargoAgent and a KargoInstance ask of    *)
(* the platform, flattened as in InstanceTypes: the generated crossplane   *)
(* types, beside the namespace, labels and annotations of forProvider.     *)
(* The custom agent sizes are in AgentSize, Secret references, ConfigMaps  *)
(* and child resources in Instance and KargoInstance.                      *)
(***************************************************************************)
EXTENDS SpecTree

Resources == Quantity({"mem", "cpu"})
DirectClusterSpec == Text({"clusterType", "kargoInstanceId", "server", "organization", "token", "caData"})
ManagedClusterConfig == Text({"secretName", "secretKey"})
AppControllerAutoScalingConfig ==
  Struct("resourceMinimum", Resources) @@ Struct("resourceMaximum", Resources)
RepoServerAutoScalingConfig ==
  Struct("resourceMinimum", Resources) @@ Struct("resourceMaximum", Resources)
  @@ Text({"replicaMaximum", "replicaMinimum"})
AutoScalerConfig ==
  Struct("applicationController", AppControllerAutoScalingConfig)
  @@ Struct("repoServer", RepoServerAutoScalingConfig)
ClusterData ==
  Text({"size", "targetVersion", "project", "maintenanceModeExpiry"}) @@ Yaml({"kustomization"})
  @@ Flag({"autoUpgradeDisabled", "appReplication", "redisTunneling", "datadogAnnotationsEnabled",
           "eksAddonEnabled", "maintenanceMode", "multiClusterK8sDashboardEnabled",
           "serverSideDiffEnabled", "podInheritMetadata"})
  @@ Struct("directClusterSpec", DirectClusterSpec)
  @@ Struct("managedClusterConfig", ManagedClusterConfig)
  @@ Struct("autoscalerConfig", AutoScalerConfig)
  @@ Struct("compatibility", Flag({"ipv6Only"}))
  @@ Struct("argocdNotificationsSettings", Flag({"inClusterSettings"}))
ClusterParameters ==
  Text({"namespace", "labels", "annotations", "description"}) @@ Flag({"namespaceScoped"}) @@ ClusterData

KargoResources == Quantity({"mem", "cpu"})
KargoControllerAutoScalingConfig ==
  Struct("resourceMinimum", KargoResources) @@ Struct("resourceMaximum", KargoResources)
KargoAgentData ==
  Text({"size", "targetVersion", "remoteArgocd", "argocdNamespace", "selfManagedArgocdUrl",
        "allowedJobSa", "maintenanceModeExpiry"})
  @@ Yaml({"kustomization"})
  @@ Flag({"autoUpgradeDisabled", "akuityManaged", "maintenanceMode", "podInheritMetadata"})
  @@ Struct("autoscalerConfig", Struct("kargoController", KargoControllerAutoScalingConfig))
KargoAgentParameters == Text({"namespace", "labels", "annotations", "description"}) @@ KargoAgentData

-----------------------------------------------------------------------------
KargoPredefinedAccountData == Struct("claims", Struct("key", Text({"values"})))
KargoOidcConfig ==
  Flag({"enabled", "dexEnabled"})
  @@ Text({"dexConfig", "issuerUrl", "clientId", "cliClientId", "additionalScopes"})
  @@ Struct("dexConfigSecret", Struct("key", Text({"value"})))
  @@ Struct("adminAccount", KargoPredefinedAccountData)
  @@ Struct("viewerAccount", KargoPredefinedAccountData)
  @@ Struct("userAccount", KargoPredefinedAccountData)
  @@ Struct("projectCreatorAccount", KargoPredefinedAccountData)
LabelSelectorRequirement == Text({"key", "operator", "values"})
ObjectSelector == Text({"matchLabels"}) @@ List("matchExpressions", LabelSelectorRequirement)
ClusterSecretMapping == Struct("clusters", ObjectSelector) @@ Struct("secrets", ObjectSelector)
SecretsManagementConfig ==
  List("sources", ClusterSecretMapping) @@ List("destinations", ClusterSecretMapping)
KargoAgentCustomization == Flag({"autoUpgradeDisabled"}) @@ Yaml({"kustomization"})
AkuityIntelligence ==
  Flag({"aiSupportEngineerEnabled", "enabled"}) @@ Text({"allowedUsernames", "allowedGroups", "modelVersion"})
GarbageCollectorConfig ==
  Text({"maxRetainedFreight", "maxRetainedPromotions", "minFreightDeletionAge", "minPromotionDeletionAge"})
KargoInstanceSpec ==
  Flag({"backendIpAllowListEnabled", "promoControllerEnabled"})
  @@ Text({"defaultShardAgent", "globalCredentialsNs", "globalServiceAccountNs"})
  @@ List("ipAllowList", Text({"ip", "description"}))
  @@ Struct("agentCustomizationDefaults", KargoAgentCustomization)
  @@ Struct("akuityIntelligence", AkuityIntelligence)
  @@ Struct("gcConfig", GarbageCollectorConfig)
  @@ Struct("secrets", SecretsManagementConfig)
  @@ Struct("argocdUi", Flag({"idpGroupsMapping"}))
KargoSpec ==
  Text({"description", "version", "fqdn", "subdomain"})
  @@ KargoInstanceSpec @@ Struct("oidcConfig", KargoOidcConfig)
=============================================================================
