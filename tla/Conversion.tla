----------------------------- MODULE Conversion -----------------------------
(***************************************************************************)
(* What a managed resource asks of the platform, field by field: the spec  *)
(* is converted to the wire, stored, read back through another converter,  *)
(* completed from what was read (late initialization), normalised and      *)
(* compared.  A field one of the converters forgets, or a default one of   *)
(* the normalisers adopts too eagerly, makes an Apply that never settles   *)
(* or an edit that is never applied.                                       *)
(*                                                                         *)
(* A behaviour is about one section of one kind of resource, given by its  *)
(* type: a top-level field and what is under it, or the few fields that    *)
(* depend on each other.  Nothing fails here: calls, errors and the guard  *)
(* are in the modules of the controllers.  See SpecTree for the trees.     *)
(***************************************************************************)
EXTENDS SpecTree

CONSTANTS
  Unwritten(_, _),   \* what nobody writes in the spec of a kind read in a way
  Requires,          \* <<p, q>>: an Instance that has p has q
  Spelt(_, _),       \* how users spell a leaf of a kind
  Replaced,          \* the kinds whose row an Apply replaces, where others merge
  MaxEdits, MaxForeign

VARIABLES kind, via, type, written, row, created, last, edits, foreign

vars == <<kind, via, type, written, row, created, last, edits, foreign>>
scope == <<kind, via, type>>

Types == INSTANCE InstanceTypes
Wire == INSTANCE InstanceWire
Seen == INSTANCE InstanceSeen
AgentTypes == INSTANCE AgentTypes
AgentWire == INSTANCE AgentWire

Kinds == {"Instance", "Cluster", "KargoAgent", "KargoInstance"}

TypeOf ==
  [Instance |-> Types!InstanceParameters, Cluster |-> AgentTypes!ClusterParameters,
   KargoAgent |-> AgentTypes!KargoAgentParameters, KargoInstance |-> AgentTypes!KargoSpec]

SentPaths ==
  [Instance |-> Wire!BuildApplyInstanceRequest, Cluster |-> AgentWire!ClusterSpecToAPI,
   KargoAgent |-> AgentWire!KargoAgentSpecToAPI, KargoInstance |-> AgentWire!specToPB]

\* An Instance needs its export; the others fall back on the Get.
SeenPaths ==
  [Instance |-> [export |-> Seen!InstanceSpec],
   Cluster |-> [export |-> AgentWire!ClusterSeen("export"), get |-> AgentWire!ClusterSeen("get")],
   KargoAgent |-> [export |-> AgentWire!KargoAgentWireToSpec, get |-> AgentWire!KargoAgentApiToSpec],
   KargoInstance |-> [export |-> AgentWire!exportToSpec, get |-> AgentWire!KargoInstanceApiToSpec]]

-----------------------------------------------------------------------------
(* Sections and specs                                                      *)

Together ==
  [Instance |-> {{"fqdn", "subdomain"}},
   Cluster |-> {{"size", "autoscalerConfig"}, {"maintenanceMode", "maintenanceModeExpiry"}},
   KargoAgent |-> {{"akuityManaged", "argocdNamespace", "targetVersion"}},
   KargoInstance |-> {}]
SectionsOf(k) ==
  LET names == {p[1] : p \in DOMAIN TypeOf[k]} IN
    {Keep(TypeOf[k], {p \in DOMAIN TypeOf[k] : p[1] \in section}) :
      section \in Together[k] \cup {{n} : n \in names \ UNION Together[k]}}

\* A tree with these leaves, and the objects they are in.
TreeOf(t, leaves, v) ==
  [p \in Grow(leaves) |-> IF IsLeaf(t, p) THEN IF t[p] = "flag" /\ v = "two" THEN "zero" ELSE v
                                         ELSE Node]

\* Nothing, one leaf, one empty object, or everything, and nothing that is
\* Unwritten or lacks what it Requires.
SpecsOf(k, v, t) ==
  LET paths == {p \in DOMAIN t : ~\E q \in Unwritten(k, v) : p = q \/ IsUnder(q, p)}
      leaves == {p \in paths : IsLeaf(t, p)}
      single == UNION {{TreeOf(t, {p}, x) : x \in Spelt(k, t[p])} : p \in leaves}
      empty == {TreeOf(t, {p}, Node) : p \in paths \ leaves}
      full == {TreeOf(t, paths, x) : x \in {"one", "two"}} IN
    {d \in {Nothing} \cup single \cup empty \cup full :
      \A r \in Requires : k = "Instance" /\ r[1] \in DOMAIN d => r[2] \in DOMAIN d}

-----------------------------------------------------------------------------
(* The platform                                                            *)

Limit == <<"appReconciliationsRateLimiting">>
Bucket(n) == Limit \o <<"bucketRateLimiting", n>>
Item(n) == Limit \o <<"itemRateLimiting", n>>
OfBucket == {Bucket(n) : n \in {"bucketSize", "bucketQps"}}
OfItem == {Item(n) : n \in {"failureCooldown", "baseDelay", "maxDelay", "backoffFactor"}}
OfAutoscaler == {p \in DOMAIN TypeOf["Cluster"] : p[1] = "autoscalerConfig" /\ IsLeaf(TypeOf["Cluster"], p)}
Auto == "two"

\* What the platform answers with values of its own.
Owned(r) ==
  CASE kind = "Instance" ->
         (IF At(r, Bucket("enabled")) # "one" THEN OfBucket ELSE {})
         \cup (IF At(r, Item("enabled")) # "one" THEN OfItem ELSE {})
    [] kind = "Cluster" -> IF At(r, <<"size">>) # Auto THEN OfAutoscaler ELSE {}
    [] kind = "KargoAgent" ->
         Fields({"maintenanceMode", "maintenanceModeExpiry"})
         \cup (IF At(r, <<"akuityManaged">>) = "one" THEN Fields({"argocdNamespace", "targetVersion"}) ELSE {})
    [] OTHER -> {}

\* What an agent keeps from its creation.
Frozen == IF kind = "KargoAgent" THEN Fields({"akuityManaged"}) ELSE {}

Observed(r) == Lose(Keep(r, SeenPaths[kind][via]), Owned(r))

\* A Get of an agent names its size as the protocol does.
Named(r) ==
  IF kind = "KargoAgent" /\ via = "get" /\ <<"size">> \in DOMAIN r THEN (<<"size">> :> "named") @@ r ELSE r
Read(r) == Named(Observed(r))

-----------------------------------------------------------------------------
(* Observe                                                                 *)

\* Of each of these paths that the tree lacks, what another tree has there.
Fill(d, paths, o) ==
  d @@ Keep(o, {p \in DOMAIN o : \E q \in paths \ DOMAIN d : p = q \/ IsUnder(q, p)})

Defaults == <<"clusterCustomizationDefaults">>
DefaultKustomization == Defaults \o <<"kustomization">>

lateInitializeInstance ==
  Fields({"subdomain", "declarativeManagementEnabled", "appsetPolicy",
          "clusterCustomizationDefaults", "argocdConfigMap", "argocdSshKnownHostsConfigMap",
          "argocdRbacConfigMap", "argocdTlsCertsConfigMap", "configManagementPlugins"})
  \cup {DefaultKustomization}
lateInitializeCluster ==
  Fields({"namespace", "autoUpgradeDisabled", "appReplication", "targetVersion",
          "redisTunneling", "size", "multiClusterK8sDashboardEnabled", "kustomization",
          "autoscalerConfig", "podInheritMetadata"})
LateInitialized ==
  [Instance |-> lateInitializeInstance, Cluster |-> lateInitializeCluster,
   KargoAgent |-> {}, KargoInstance |-> {}]
LateInit(d, o) == Fill(d, LateInitialized[kind], o)

\* lateInitializeInstance reads the kustomization of defaults the platform lacks.
LateInitPanics(d, o) ==
  kind = "Instance" /\ Defaults \in DOMAIN d /\ DefaultKustomization \notin DOMAIN d /\ Defaults \notin DOMAIN o

\* The defaults taken over before the comparison, and only for it.
DefaultedByInstance == {Bucket("enabled"), Item("enabled")}
DefaultedByCluster ==
  Fields({"multiClusterK8sDashboardEnabled", "autoscalerConfig", "compatibility",
          "argocdNotificationsSettings", "directClusterSpec", "serverSideDiffEnabled",
          "datadogAnnotationsEnabled", "eksAddonEnabled", "podInheritMetadata",
          "maintenanceMode", "maintenanceModeExpiry"})
DefaultedByAgent ==
  Fields({"namespace", "size", "argocdNamespace", "targetVersion", "podInheritMetadata",
          "autoscalerConfig"})
Defaulted ==
  [Instance |-> DefaultedByInstance, Cluster |-> DefaultedByCluster,
   KargoAgent |-> DefaultedByAgent, KargoInstance |-> {}]

Equivalent(p, d, o, texts) == IF {At(d, p), At(o, p)} \subseteq texts THEN {p} ELSE {}

AdoptedByInstance(d, o) ==
  (IF At(d, Bucket("enabled")) # "one" THEN OfBucket ELSE {})
  \cup (IF At(d, Item("enabled")) # "one" THEN OfItem ELSE {})
  \cup Equivalent(DefaultKustomization, d, o, {"one", "bare"})
  \cup (IF Fields({"fqdn", "subdomain"}) \subseteq DOMAIN d THEN Fields({"fqdn", "subdomain"}) ELSE {})
AdoptedByClusterAlways(d, o) == \* mutant: the autoscaler is the platform's whatever the size
  OfAutoscaler \cup Equivalent(<<"kustomization">>, d, o, {"one", "bare", "alt"})

AdoptedByCluster(d, o) ==
  (IF At(d, <<"size">>) # Auto THEN OfAutoscaler ELSE {})
  \cup Equivalent(<<"kustomization">>, d, o, {"one", "bare", "alt"})
AdoptedByAgent(d, o) ==
  Fields({"maintenanceMode", "maintenanceModeExpiry", "akuityManaged"})
  \cup (IF At(o, <<"akuityManaged">>) = "one" THEN Fields({"argocdNamespace", "targetVersion"}) ELSE {})
  \cup Equivalent(<<"kustomization">>, d, o, {"one", "bare", "alt"})

\* Where the comparison takes the platform's word over the user's.
Adopted(d, o) ==
  CASE kind = "Instance" -> AdoptedByInstance(d, o)
    [] kind = "Cluster" -> AdoptedByCluster(d, o)
    [] kind = "KargoAgent" -> AdoptedByAgent(d, o)
    [] OTHER -> {}

\* Only the instances look at what the user wrote and no further.
ByPresence == kind \in {"Instance", "KargoInstance"}
ToCompare(d, o) ==
  IF ByPresence THEN Compared(type, written, o)
                ELSE {p \in DOMAIN d \cup DOMAIN o : type[p] # "struct"}

UpToDate ==
  LET o == Read(row)
      d == Fill(LateInit(written, o), Defaulted[kind], o) IN
    \A p \in ToCompare(d, o) \ Adopted(d, o) : Same(type, p, At(d, p), At(o, p))

-----------------------------------------------------------------------------
(* Apply                                                                   *)

BuildPanics(d) ==
  kind = "Instance" /\ \E p \in Wire!Dereferenced : SubSeq(p, 1, Len(p) - 1) \in DOMAIN d /\ p \notin DOMAIN d

\* A Cluster with no size is asked to be small.
Sent(d) ==
  LET s == Keep(d, SentPaths[kind]) IN
    IF kind = "Cluster" /\ <<"size">> \in DOMAIN type \ DOMAIN s
      THEN (<<"size">> :> "one") @@ s ELSE s

Always ==
  CASE kind = "Instance" -> Wire!Always
    [] kind = "KargoInstance" ->
         Fields({"description", "version"})
         \cup {p \in DOMAIN type : Len(p) = 2 /\ p[1] = "oidcConfig"}
         \cup {<<"agentCustomizationDefaults", "kustomization">>}
    [] OTHER -> Fields({"kustomization"})

\* What an Apply names without a value: always written to the wire.
Cleared(s) == {p \in (Always \cap DOMAIN type) \ DOMAIN s : Prefixes(p) \subseteq DOMAIN s}

\* The maintenance mode of a Cluster goes its own way, both halves at once.
Mode == AgentWire!SetClusterMaintenanceMode
Moded(r) ==
  IF kind = "Cluster" /\ Mode \cap DOMAIN written # {}
    THEN Keep(written, Mode) @@ Lose(r, Mode)
    ELSE r

\* What the row is after an Apply.
Stored(s) ==
  LET base == IF kind \in Replaced THEN Lose(row, SentPaths[kind]) ELSE row
      merged == Merged(type, base, s, Cleared(s))
      kept == (IF created THEN Frozen ELSE {})
              \cup (IF kind = "Cluster" /\ At(merged, <<"size">>) # Auto THEN OfAutoscaler ELSE {}) IN
    Moded(Lose(merged, kept) @@ Keep(row, kept))

-----------------------------------------------------------------------------
(* Actions                                                                 *)

Init ==
  /\ kind \in Kinds
  /\ via \in DOMAIN SeenPaths[kind]
  /\ type \in SectionsOf(kind)
  /\ written \in SpecsOf(kind, via, type)
  /\ row = Nothing /\ created = FALSE /\ last = "none"
  /\ edits = 0 /\ foreign = 0

Apply(d) ==
  /\ IF BuildPanics(d) THEN last' = "panic" /\ UNCHANGED <<row, created>>
                       ELSE last' = "apply" /\ created' = TRUE /\ row' = Stored(Sent(d))
  /\ UNCHANGED <<scope, written, edits, foreign>>

Create == ~created /\ Apply(written)

\* The resource is there: Observe completes the spec, if it can, and Update sends it.
Update ==
  /\ created
  /\ IF LateInitPanics(written, Read(row))
       THEN last' = "panic" /\ UNCHANGED <<scope, written, row, created, edits, foreign>>
       ELSE ~UpToDate /\ Apply(LateInit(written, Read(row)))

UpToDateAlready ==
  /\ created /\ ~LateInitPanics(written, Read(row)) /\ UpToDate
  /\ last' = "none"
  /\ UNCHANGED <<scope, written, row, created, edits, foreign>>

EditSpec ==
  /\ edits < MaxEdits
  /\ written' \in SpecsOf(kind, via, type) \ {written}
  /\ edits' = edits + 1 /\ last' = "none"
  /\ UNCHANGED <<scope, row, created, foreign>>

\* Someone sets or takes away one thing on the platform.
ForeignEdit ==
  /\ created /\ foreign < MaxForeign
  /\ \E p \in (DOMAIN type \cap SeenPaths[kind][via]) \ (Owned(row) \cup Frozen) :
       \/ /\ p \in DOMAIN row
          /\ row' = Lose(row, {q \in DOMAIN row : p = q \/ IsUnder(p, q)})
       \/ \E x \in IF IsLeaf(type, p) THEN {"one", "two"} ELSE {Node} :
            /\ At(row, p) # x
            /\ row' = TreeOf(type, {p}, x) @@ row
  /\ foreign' = foreign + 1 /\ last' = "none"
  /\ UNCHANGED <<scope, written, created, edits>>

Next == Create \/ Update \/ UpToDateAlready \/ EditSpec \/ ForeignEdit

Spec == Init /\ [][Next]_vars

-----------------------------------------------------------------------------
(* Properties                                                              *)

\* An Apply settles: none is followed by an Observe that panics, or finds in
\* what it reads back the drift the Apply was for.  So no field is lost between
\* the spec, the wire, the platform and the comparison, whatever the row held.
ApplySettles ==
  /\ last # "panic"
  /\ last = "apply" => ~LateInitPanics(written, Read(row)) /\ UpToDate

\* What Observe calls up to date is what the platform has: every field of the
\* spec, but the ones the platform answers for, is stored as it was written.
UpToDateMeansStored ==
  created /\ ~LateInitPanics(written, Read(row)) /\ UpToDate =>
    \A p \in DOMAIN written \ (Owned(row) \cup Frozen) :
      IsLeaf(type, p) => \/ At(row, p) = Canon(type[p], written[p])
                         \/ {At(row, p), written[p]} \subseteq {"zero", Absent}
=============================================================================
