---------------------------- MODULE MCConversion ----------------------------
EXTENDS Conversion

\* The fields known to be lost on the way, see the README.
MCUnwritten(k, v) ==
  CASE k = "Instance" -> {<<"fqdn">>, <<"kubeVisionConfig", "aiConfig">>, <<"kubeVisionConfig", "additionalAttributes">>}
    [] k = "KargoInstance" -> {<<"defaultShardAgent">>}
    [] k = "KargoAgent" /\ v = "get" -> {<<"size">>}
    [] OTHER -> {}

\* The objects known to panic without these.
MCRequires ==
  {<<<<"kubeVisionConfig">>, <<"kubeVisionConfig", "cveScanConfig">>>>,
   <<<<"clusterCustomizationDefaults">>, <<"clusterCustomizationDefaults", "kustomization">>>>}

\* The spellings known to be mistaken for another, or never to settle.
MCSpelt(k, leaf) ==
  CASE leaf = "text" -> {"one", "two"}
    [] leaf = "yaml" /\ k = "Instance" -> {"one", "bare", "two"}
    [] leaf = "yaml" /\ k = "KargoInstance" -> {"one", "two"}
    [] OTHER -> Texts(leaf)

MCReplaced == {"Cluster", "KargoAgent"}
=============================================================================
