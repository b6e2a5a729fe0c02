---------------------------- MODULE InstanceWire ----------------------------
(***************************************************************************)
(* What an Apply of an Instance carries of its spec: the converters of     *)
(* controller/instance/convert.go, and those generated converters they     *)
(* call, each as the set of the paths it hands over (see SpecTree).  The   *)
(* nodes a converter reads through without a nil check are Dereferenced,   *)
(* the fields the wire types write even when they hold nothing are Always. *)
(***************************************************************************)
EXTENDS SpecTree

ClusterAddonsExtensionSpecToAPI == Fields({"enabled", "allowedUsernames", "allowedGroups"})
LabelSelectorRequirementSpecToAPI == Fields({"key", "operator", "values"})
ObjectSelectorSpecToAPI ==
  Fields({"matchLabels"}) \cup Nest("matchExpressions", LabelSelectorRequirementSpecToAPI)
ClusterSecretMappingSpecToAPI ==
  Nest("clusters", ObjectSelectorSpecToAPI) \cup Nest("secrets", ObjectSelectorSpecToAPI)
SecretsManagementConfigSpecToAPI ==
  Nest("sources", ClusterSecretMappingSpecToAPI) \cup Nest("destinations", ClusterSecretMappingSpecToAPI)
ConfigManagementToolVersionsSpecToAPI == Fields({"defaultVersion", "additionalVersions"})
ManifestGenerationSpecToAPI == Nest("kustomize", ConfigManagementToolVersionsSpecToAPI)

-----------------------------------------------------------------------------
specToIPAllowList == Fields({"ip", "description"})
specToExtensionInstallEntries == Fields({"id", "version"})
specToClusterCustomization ==
  Fields({"autoUpgradeDisabled", "kustomization", "appReplication", "redisTunneling", "serverSideDiffEnabled"})
specToRepoServerDelegate == Fields({"controlPlane"}) \cup Nest("managedCluster", Fields({"clusterName"}))
specToCrossplaneExtension == Nest("resources", Fields({"group"}))
specToImageUpdaterDelegate == Fields({"controlPlane"}) \cup Nest("managedCluster", Fields({"clusterName"}))
specToAppSetDelegate == Nest("managedCluster", Fields({"clusterName"}))
specToAppsetPolicy == Fields({"policy", "overridePolicy"})
specToHostAliases == Fields({"ip", "hostnames"})
specToAgentPermissionsRules == Fields({"apiGroups", "resources", "verbs"})
specToAkuityIntelligenceExtension ==
  Fields({"enabled", "allowedUsernames", "allowedGroups", "aiSupportEngineerEnabled", "modelVersion"})
specToCustomDeprecatedApis ==
  Fields({"apiVersion", "newApiVersion", "deprecatedInKubernetesVersion", "unavailableInKubernetesVersion"})
\* Neither aiConfig nor additionalAttributes.
specToKubeVisionConfig == Nest("cveScanConfig", Fields({"scanEnabled", "rescanInterval"}))
specToAppInAnyNamespaceConfig == Fields({"enabled"})
specToAppsetPluginsTokenless == Fields({"name", "baseUrl", "requestTimeout"}) \* mutant
specToAppsetPlugins == Fields({"name", "token", "baseUrl", "requestTimeout"})
specToApplicationSetExtension == Fields({"enabled"})
specToAppReconciliationsRateLimiting ==
  Nest("bucketRateLimiting", Fields({"enabled", "bucketSize", "bucketQps"}))
  \cup Nest("itemRateLimiting", Fields({"enabled", "failureCooldown", "baseDelay", "maxDelay", "backoffFactor"}))

SpecToInstanceSpec ==
  Fields({"subdomain", "declarativeManagementEnabled", "imageUpdaterEnabled", "backendIpAllowListEnabled",
          "auditExtensionEnabled", "syncHistoryExtensionEnabled", "assistantExtensionEnabled", "fqdn",
          "multiClusterK8sDashboardEnabled", "imageUpdaterVersion", "basepath",
          "appsetProgressiveSyncsEnabled", "metricsIngressUsername", "metricsIngressPasswordHash",
          "privilegedNotificationCluster"})
  \cup Nest("ipAllowList", specToIPAllowList)
  \cup Nest("extensions", specToExtensionInstallEntries)
  \cup Nest("clusterCustomizationDefaults", specToClusterCustomization)
  \cup Nest("repoServerDelegate", specToRepoServerDelegate)
  \cup Nest("crossplaneExtension", specToCrossplaneExtension)
  \cup Nest("imageUpdaterDelegate", specToImageUpdaterDelegate)
  \cup Nest("appSetDelegate", specToAppSetDelegate)
  \cup Nest("appsetPolicy", specToAppsetPolicy)
  \cup Nest("hostAliases", specToHostAliases)
  \cup Nest("agentPermissionsRules", specToAgentPermissionsRules)
  \cup Nest("akuityIntelligenceExtension", specToAkuityIntelligenceExtension)
  \cup Nest("customDeprecatedApis", specToCustomDeprecatedApis)
  \cup Nest("kubeVisionConfig", specToKubeVisionConfig)
  \cup Nest("appInAnyNamespaceConfig", specToAppInAnyNamespaceConfig)
  \cup Nest("secrets", SecretsManagementConfigSpecToAPI)
  \cup Nest("appsetPlugins", specToAppsetPlugins)
  \cup Nest("applicationSetExtension", specToApplicationSetExtension)
  \cup Nest("appReconciliationsRateLimiting", specToAppReconciliationsRateLimiting)
  \cup Nest("clusterAddonsExtension", ClusterAddonsExtensionSpecToAPI)
  \cup Nest("manifestGeneration", ManifestGenerationSpecToAPI)

specToArgoCDPB == Fields({"description", "version"}) \cup SpecToInstanceSpec

\* The data of a ConfigMap, one key of it.
specToConfigMapPB == Fields({"key"})

CommandOf == Fields({"command", "args"})
specToConfigManagementPluginsPB ==
  Fields({"enabled", "image"})
  \cup Nest("spec",
         Fields({"version", "preserveFileMode"})
         \cup Nest("init", CommandOf) \cup Nest("generate", CommandOf)
         \cup Nest("discover", Fields({"fileName"}) \cup Nest("find", Fields({"command", "args", "glob"})))
         \cup Nest("parameters",
                Nest("static", Fields({"name", "title", "tooltip", "required", "itemType", "collectionType",
                                       "string", "array", "map"}))
                \cup Nest("dynamic", CommandOf)))

BuildApplyInstanceRequest ==
  specToArgoCDPB
  \cup UNION {Nest(m, specToConfigMapPB) :
               m \in {"argocdConfigMap", "argocdRbacConfigMap", "argocdNotificationsConfigMap",
                      "argocdImageUpdaterConfigMap", "argocdImageUpdaterSshConfigMap",
                      "argocdSshKnownHostsConfigMap", "argocdTlsCertsConfigMap"}}
  \cup Nest("configManagementPlugins", Nest("key", specToConfigManagementPluginsPB))

Dereferenced == {<<"kubeVisionConfig", "cveScanConfig">>}

Plugin == <<"configManagementPlugins", "key">>
Always ==
  {<<"description">>, <<"version">>, <<"clusterCustomizationDefaults", "kustomization">>}
  \cup {Plugin \o p : p \in {<<"enabled">>, <<"image">>, <<"spec", "preserveFileMode">>,
                             <<"spec", "parameters", "static", "required">>}}
=============================================================================
