---------------------------- MODULE InstanceTypes ----------------------------
(***************************************************************************)
(* The type of what an Instance's forProvider asks of the platform: the    *)
(* generated crossplane types of Argo CD instances and config management   *)
(* plugins, flattened: the fields of argocd, spec and instanceSpec stand   *)
(* beside the ConfigMaps.  Secret references and child resources, which    *)
(* take other ways to the platform, are not here.                          *)
(***************************************************************************)
EXTENDS SpecTree

ArgoCDExtensionInstallEntry == Text({"id", "version"})
ClusterCustomization ==
  Flag({"autoUpgradeDisabled", "appReplication", "redisTunneling", "serverSideDiffEnabled"})
  @@ Yaml({"kustomization"})
AppsetPolicy == Text({"policy"}) @@ Flag({"overridePolicy"})
AgentPermissionsRule == Text({"apiGroups", "resources", "verbs"})
CrossplaneExtension == List("resources", Text({"group"}))
AkuityIntelligenceExtension ==
  Flag({"enabled", "aiSupportEngineerEnabled"}) @@ Text({"allowedUsernames", "allowedGroups", "modelVersion"})
ClusterAddonsExtension == Flag({"enabled"}) @@ Text({"allowedUsernames", "allowedGroups"})

TargetSelector == Text({"argocdApplications", "k8sNamespaces", "clusters", "degradedFor"})
Runbook == Text({"name", "content", "slackChannelNames"}) @@ Struct("appliedTo", TargetSelector)
IncidentWebhookConfig ==
  Text({"name", "descriptionPath", "clusterPath", "k8sNamespacePath", "argocdApplicationNamePath",
        "argocdApplicationNamespacePath", "titlePath"})
IncidentsGroupingConfig == Text({"k8sNamespaces", "argocdApplicationNames"})
IncidentInvestigationApprovalConfig ==
  List("scopes", Text({"argocdApplications", "k8sNamespaces", "clusters", "consecutiveAutoClosures"}))
IncidentsConfig ==
  List("triggers", TargetSelector) @@ List("webhooks", IncidentWebhookConfig)
  @@ Struct("grouping", IncidentsGroupingConfig)
  @@ Struct("investigationApproval", IncidentInvestigationApprovalConfig)
RunbookRepo ==
  Text({"repoUrl", "revision", "path"}) @@ Struct("appliedFor", Struct("key", TargetSelector))
AIConfig ==
  List("runbooks", Runbook) @@ Struct("incidents", IncidentsConfig)
  @@ Text({"argocdSlackService", "argocdSlackChannels"}) @@ List("runbookRepos", RunbookRepo)
AdditionalAttributeRule == Text({"group", "kind", "annotations", "labels", "namespace"})
CveScanConfig == Flag({"scanEnabled"}) @@ Text({"rescanInterval"})
KubeVisionConfig ==
  Struct("cveScanConfig", CveScanConfig) @@ Struct("aiConfig", AIConfig)
  @@ List("additionalAttributes", AdditionalAttributeRule)

CustomDeprecatedAPI ==
  Text({"apiVersion", "newApiVersion", "deprecatedInKubernetesVersion", "unavailableInKubernetesVersion"})
LabelSelectorRequirement == Text({"key", "operator", "values"})
ObjectSelector == Text({"matchLabels"}) @@ List("matchExpressions", LabelSelectorRequirement)
ClusterSecretMapping == Struct("clusters", ObjectSelector) @@ Struct("secrets", ObjectSelector)
SecretsManagementConfig ==
  List("sources", ClusterSecretMapping) @@ List("destinations", ClusterSecretMapping)
BucketRateLimiting == Flag({"enabled"}) @@ Text({"bucketSize", "bucketQps"})
ItemRateLimiting ==
  Flag({"enabled"}) @@ Text({"failureCooldown", "baseDelay", "maxDelay"}) @@ Quantity({"backoffFactor"})
AppReconciliationsRateLimiting ==
  Struct("bucketRateLimiting", BucketRateLimiting) @@ Struct("itemRateLimiting", ItemRateLimiting)
ConfigManagementToolVersions == Text({"defaultVersion", "additionalVersions"})
AppsetPlugins == Text({"name", "token", "baseUrl", "requestTimeout"})
ManagedCluster == Text({"clusterName"})
Delegate == Flag({"controlPlane"}) @@ Struct("managedCluster", ManagedCluster) \* repo server, image updater
AppSetDelegate == Struct("managedCluster", ManagedCluster)
IPAllowListEntry == Text({"ip", "description"})
HostAliases == Text({"ip", "hostnames"})

InstanceSpec ==
  Flag({"declarativeManagementEnabled", "imageUpdaterEnabled", "backendIpAllowListEnabled",
        "auditExtensionEnabled", "syncHistoryExtensionEnabled", "assistantExtensionEnabled",
        "multiClusterK8sDashboardEnabled", "appsetProgressiveSyncsEnabled"})
  @@ Text({"subdomain", "fqdn", "imageUpdaterVersion", "basepath", "metricsIngressUsername",
           "metricsIngressPasswordHash", "privilegedNotificationCluster"})
  @@ List("ipAllowList", IPAllowListEntry)
  @@ List("extensions", ArgoCDExtensionInstallEntry)
  @@ Struct("clusterCustomizationDefaults", ClusterCustomization)
  @@ Struct("repoServerDelegate", Delegate)
  @@ Struct("crossplaneExtension", CrossplaneExtension)
  @@ Struct("imageUpdaterDelegate", Delegate)
  @@ Struct("appSetDelegate", AppSetDelegate)
  @@ Struct("appsetPolicy", AppsetPolicy)
  @@ List("hostAliases", HostAliases)
  @@ List("agentPermissionsRules", AgentPermissionsRule)
  @@ Struct("akuityIntelligenceExtension", AkuityIntelligenceExtension)
  @@ List("customDeprecatedApis", CustomDeprecatedAPI)
  @@ Struct("kubeVisionConfig", KubeVisionConfig)
  @@ Struct("appInAnyNamespaceConfig", Flag({"enabled"}))
  @@ Struct("secrets", SecretsManagementConfig)
  @@ List("appsetPlugins", AppsetPlugins)
  @@ Struct("applicationSetExtension", Flag({"enabled"}))
  @@ Struct("appReconciliationsRateLimiting", AppReconciliationsRateLimiting)
  @@ Struct("clusterAddonsExtension", ClusterAddonsExtension)
  @@ Struct("manifestGeneration", Struct("kustomize", ConfigManagementToolVersions))

-----------------------------------------------------------------------------
Command == Text({"command", "args"})
Discover == Struct("find", Text({"command", "args", "glob"})) @@ Text({"fileName"})
ParameterAnnouncement ==
  Text({"name", "title", "tooltip", "itemType", "collectionType", "string", "array", "map"})
  @@ Flag({"required"})
Parameters == List("static", ParameterAnnouncement) @@ Struct("dynamic", Command)
PluginSpec ==
  Text({"version"}) @@ Flag({"preserveFileMode"})
  @@ Struct("init", Command) @@ Struct("generate", Command)
  @@ Struct("discover", Discover) @@ Struct("parameters", Parameters)
ConfigManagementPlugin == Flag({"enabled"}) @@ Text({"image"}) @@ Struct("spec", PluginSpec)

ArgoCDSpec == Text({"description", "version"}) @@ InstanceSpec

ConfigMaps ==
  {"argocdConfigMap", "argocdImageUpdaterConfigMap", "argocdImageUpdaterSshConfigMap",
   "argocdNotificationsConfigMap", "argocdRbacConfigMap", "argocdSshKnownHostsConfigMap",
   "argocdTlsCertsConfigMap"}

\* A ConfigMap is a map of texts, the plugins are a map of plugins.
InstanceParameters ==
  ArgoCDSpec @@ Struct("configManagementPlugins", Struct("key", ConfigManagementPlugin))
  @@ [p \in UNION {{<<m>>, <<m, "key">>} : m \in ConfigMaps} |-> IF Len(p) = 1 THEN "struct" ELSE "text"]
==============================================================================
