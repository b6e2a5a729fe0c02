---------------------------- MODULE InstanceSeen ----------------------------
(***************************************************************************)
(* What the controller sees of an Instance on the platform: the decoders   *)
(* of observation/instance.go, each as the set of the paths it hands over  *)
(* (see SpecTree).                                                         *)
(***************************************************************************)
EXTENDS SpecTree

IPAllowList == Fields({"ip", "description"})
ArgoCDExtensionInstallEntries == Fields({"id", "version"})
ClusterCustomization ==
  Fields({"autoUpgradeDisabled", "kustomization", "appReplication", "redisTunneling", "serverSideDiffEnabled"})
LabelSelectorRequirement == Fields({"key", "operator", "values"})
ObjectSelector == Fields({"matchLabels"}) \cup Nest("matchExpressions", LabelSelectorRequirement)
ClusterSecretMapping == Nest("clusters", ObjectSelector) \cup Nest("secrets", ObjectSelector)
SecretsManagementConfig ==
  Nest("sources", ClusterSecretMapping) \cup Nest("destinations", ClusterSecretMapping)
ClusterAddonsExtension == Fields({"enabled", "allowedUsernames", "allowedGroups"})
ConfigManagementToolVersions == Fields({"defaultVersion", "additionalVersions"})
ManifestGeneration == Nest("kustomize", ConfigManagementToolVersions)
RepoServerDelegate == Fields({"controlPlane"}) \cup Nest("managedCluster", Fields({"clusterName"}))
CrossplaneExtension == Nest("resources", Fields({"group"}))
ImageUpdaterDelegate == Fields({"controlPlane"}) \cup Nest("managedCluster", Fields({"clusterName"}))
AppSetDelegate == Nest("managedCluster", Fields({"clusterName"}))
AppsetPolicy == Fields({"policy", "overridePolicy"})
HostAliases == Fields({"ip", "hostnames"})
AgentPermissionsRules == Fields({"apiGroups", "resources", "verbs"})
AkuityIntelligenceExtension ==
  Fields({"enabled", "allowedUsernames", "allowedGroups", "aiSupportEngineerEnabled", "modelVersion"})
CustomDeprecatedApis ==
  Fields({"apiVersion", "newApiVersion", "deprecatedInKubernetesVersion", "unavailableInKubernetesVersion"})
\* Neither aiConfig nor additionalAttributes.
KubeVisionConfig == Nest("cveScanConfig", Fields({"scanEnabled", "rescanInterval"}))
AppInAnyNamespaceConfig == Fields({"enabled"})
AppsetPlugins == Fields({"name", "token", "baseUrl", "requestTimeout"})
ApplicationSetExtension == Fields({"enabled"})
AppReconciliationsRateLimiting ==
  Nest("bucketRateLimiting", Fields({"enabled", "bucketSize", "bucketQps"}))
  \cup Nest("itemRateLimiting", Fields({"enabled", "failureCooldown", "baseDelay", "maxDelay", "backoffFactor"}))

InstanceArgoCDSpec ==
  Fields({"subdomain", "declarativeManagementEnabled", "imageUpdaterEnabled", "backendIpAllowListEnabled",
          "auditExtensionEnabled", "syncHistoryExtensionEnabled", "assistantExtensionEnabled", "fqdn",
          "multiClusterK8sDashboardEnabled", "imageUpdaterVersion", "basepath",
          "appsetProgressiveSyncsEnabled", "metricsIngressUsername", "metricsIngressPasswordHash",
          "privilegedNotificationCluster"})
  \cup Nest("ipAllowList", IPAllowList)
  \cup Nest("extensions", ArgoCDExtensionInstallEntries)
  \cup Nest("clusterCustomizationDefaults", ClusterCustomization)
  \cup Nest("repoServerDelegate", RepoServerDelegate)
  \cup Nest("crossplaneExtension", CrossplaneExtension)
  \cup Nest("imageUpdaterDelegate", ImageUpdaterDelegate)
  \cup Nest("appSetDelegate", AppSetDelegate)
  \cup Nest("appsetPolicy", AppsetPolicy)
  \cup Nest("hostAliases", HostAliases)
  \cup Nest("agentPermissionsRules", AgentPermissionsRules)
  \cup Nest("akuityIntelligenceExtension", AkuityIntelligenceExtension)
  \cup Nest("customDeprecatedApis", CustomDeprecatedApis)
  \cup Nest("kubeVisionConfig", KubeVisionConfig)
  \cup Nest("appInAnyNamespaceConfig", AppInAnyNamespaceConfig)
  \cup Nest("secrets", SecretsManagementConfig)
  \cup Nest("appsetPlugins", AppsetPlugins)
  \cup Nest("applicationSetExtension", ApplicationSetExtension)
  \cup Nest("appReconciliationsRateLimiting", AppReconciliationsRateLimiting)
  \cup Nest("clusterAddonsExtension", ClusterAddonsExtension)
  \cup Nest("manifestGeneration", ManifestGeneration)

InstanceArgoCD == Fields({"description", "version"}) \cup InstanceArgoCDSpec

ConfigMapData == Fields({"key"})

Command == Fields({"command", "args"})
Discover == Fields({"fileName"}) \cup Nest("find", Fields({"command", "args", "glob"}))
Parameters ==
  Nest("static", Fields({"name", "title", "tooltip", "required", "itemType", "collectionType",
                         "string", "array", "map"}))
  \cup Nest("dynamic", Command)
ConfigManagementPlugins ==
  Fields({"enabled", "image"})
  \cup Nest("spec",
         Fields({"version", "preserveFileMode"})
         \cup Nest("init", Command) \cup Nest("generate", Command)
         \cup Nest("discover", Discover) \cup Nest("parameters", Parameters))

InstanceSpec ==
  InstanceArgoCD
  \cup UNION {Nest(m, ConfigMapData) :
               m \in {"argocdConfigMap", "argocdImageUpdaterConfigMap", "argocdImageUpdaterSshConfigMap",
                      "argocdNotificationsConfigMap", "argocdRbacConfigMap",
                      "argocdSshKnownHostsConfigMap", "argocdTlsCertsConfigMap"}}
  \cup Nest("configManagementPlugins", Nest("key", ConfigManagementPlugins))
=============================================================================
