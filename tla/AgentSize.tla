------------------------------ MODULE AgentSize ------------------------------
(***************************************************************************)
(* The size of an agent: the fields size, customAgentSizeConfig,           *)
(* kustomization and autoscalerConfig of a Cluster or a KargoAgent, which  *)
(* the provider rewrites into each other, late-initializes and normalizes, *)
(* and which the platform clamps and stamps.  Calls that fail and the      *)
(* guard are in ClusterReconcile and KargoAgent.                           *)
(***************************************************************************)
EXTENDS Naturals

CONSTANTS
  Kind,              \* "Cluster" or "KargoAgent"
  NoConfig, Configs, \* customAgentSizeConfig
  NoScaler, Bounds,  \* autoscalerConfig as a user writes it
  Stamped,           \* what the platform shows for a size that does not scale
  NoSpec, NoRow,
  Sizes,             \* what users write, "" included
  Supported, Clamp,  \* the sizes the platform stores, and what it makes of others
  RetainsOmitted,    \* a kustomization that is not sent stays as it is
  Limit              \* [edits, foreign]

ASSUME SizeConstants ==
  /\ Kind \in {"Cluster", "KargoAgent"}
  /\ NoConfig \notin Configs /\ NoScaler \notin Bounds \cup {Stamped}
  /\ Clamp \in Supported /\ "small" \in Supported /\ "large" \in Supported
  /\ "custom" \notin Supported

VARIABLES
  spec,    \* the four fields as the API server holds them
  seen,    \* the spec of the reconcile under way, or NoSpec
  mem,     \* that spec in memory, late-initialized, as Update will send it
  row,     \* the platform's fields, or NoRow
  verdict, \* "idle", "uptodate", "drift", "refused"
  calm,    \* what stands on the platform is the last Apply of this very spec
  spent

sizeVars == <<spec, seen, mem, row, verdict, calm, spent>>

\* A kustomization is what the user put in it ("clash": a resource patch for a
\* deployment customAgentSizeConfig sizes) and the patches generated for a config.
Text(own, patch) == [own |-> own, patch |-> patch]
Empty == Text("none", NoConfig)

Specs ==
  [size : Sizes, config : {NoConfig} \cup Configs,
   kust : {Text(own, NoConfig) : own \in {"none", "own", "clash"}}, scaler : {NoScaler} \cup Bounds]

-----------------------------------------------------------------------------
(* The provider's rewriting of sizes                                       *)

\* projectCustomClusterSize, projectCustomKargoAgentSize.  A config names all that is
\* required of it, and no agent is managed by Akuity.
CannotProject(d) ==
  IF d.size = "custom"
    THEN d.config = NoConfig \/ d.scaler # NoScaler \/ d.kust.own = "clash" \/ d.kust.patch # NoConfig
    ELSE d.config # NoConfig

Project(d) ==
  IF d.size = "custom" /\ ~CannotProject(d)
    THEN [d EXCEPT !.size = "large", !.kust.patch = d.config, !.config = NoConfig]
    ELSE d

\* lateInitializeCluster; a KargoAgent is not late-initialized.
LateInit(d, o) ==
  LET sized == [d EXCEPT !.size = IF @ = "" THEN o.size ELSE @] IN
    IF Kind = "KargoAgent" THEN d
    ELSE IF sized.size = "custom" THEN sized
    ELSE [sized EXCEPT !.kust = IF @ = Empty THEN o.kust ELSE @,
                       !.scaler = IF @ = NoScaler THEN o.scaler ELSE @]

\* knownClusterSize, knownKargoAgentSize
KnownMissingLarge(size) == size \in {"", "small", "medium", "auto"} \* mutant
Known(size) == size \in {"", "small", "medium", "large", "auto"}

\* Normalize of the Cluster: bounds only count for an agent that scales.
AdoptBoundsIfUnset(d, o) == IF d.scaler = NoScaler THEN o.scaler ELSE d.scaler \* mutant
AdoptBounds(d, o) ==
  IF d.scaler = NoScaler \/ (Kind = "Cluster" /\ d.size # "auto") THEN o.scaler ELSE d.scaler

\* Normalize of the Cluster, normalizeKargoAgentParameters: a size the provider
\* does not know is taken to be what the platform made of it.
Normalize(d, o) ==
  LET sized == [d EXCEPT !.size = IF @ = "" THEN o.size ELSE @]
      projected == Project(sized)
      clamped == [projected EXCEPT !.size = IF Known(@) THEN @ ELSE o.size] IN
    [clamped EXCEPT !.scaler = AdoptBounds(clamped, o)]

InStep(d, o) == Normalize(d, o) = [o EXCEPT !.config = NoConfig]

\* SpecToAPI
Sized(d) == [d EXCEPT !.size = IF @ = "" /\ Kind = "Cluster" THEN "small" ELSE @]

-----------------------------------------------------------------------------
(* The platform                                                            *)

\* Bounds are stored for an agent that scales, and replaced by those of the
\* size for any other; a size that is not offered is clamped.
Store(d, old) ==
  LET size == IF d.size = "" THEN (IF old = NoRow THEN "small" ELSE old.size)
              ELSE IF d.size \in Supported THEN d.size ELSE Clamp IN
    [size |-> size, config |-> NoConfig,
     kust |-> IF d.kust = Empty /\ old # NoRow /\ RetainsOmitted THEN old.kust ELSE d.kust,
     scaler |-> IF size = "auto" /\ d.scaler # NoScaler THEN d.scaler ELSE Stamped]

-----------------------------------------------------------------------------
(* The reconcile                                                           *)

Reconcile ==
  /\ seen = NoSpec
  /\ seen' = spec /\ mem' = spec
  /\ verdict' = IF verdict = "uptodate" THEN "uptodate" ELSE "idle"
  /\ UNCHANGED <<spec, row, calm, spent>>

Observe ==
  /\ seen # NoSpec /\ row # NoRow /\ verdict # "drift"
  /\ LET desired == LateInit(seen, row) IN
       IF InStep(desired, row)
         THEN /\ verdict' = IF seen = spec THEN "uptodate" ELSE "idle"
              /\ seen' = NoSpec /\ mem' = NoSpec
         ELSE /\ verdict' = "drift"
              /\ mem' = desired
              /\ UNCHANGED seen
  /\ UNCHANGED <<spec, row, calm, spent>>

\* Create when there is no row, Update when there is drift.
MayWrite == seen # NoSpec /\ (row = NoRow \/ verdict = "drift")

Apply ==
  /\ MayWrite
  /\ ~CannotProject(Sized(mem))
  /\ row' = Store(Project(Sized(mem)), row)
  /\ calm' = (seen = spec)
  /\ verdict' = "idle"
  /\ seen' = NoSpec /\ mem' = NoSpec
  /\ UNCHANGED <<spec, spent>>

Refuse ==
  /\ MayWrite
  /\ CannotProject(Sized(mem))
  /\ verdict' = "refused"
  /\ seen' = NoSpec /\ mem' = NoSpec
  /\ UNCHANGED <<spec, row, calm, spent>>

-----------------------------------------------------------------------------
(* The environment                                                         *)

Disturbed ==
  /\ calm' = FALSE
  /\ verdict' = IF verdict = "uptodate" THEN "idle" ELSE verdict

EditSpec ==
  /\ spent.edits < Limit.edits
  /\ spec' \in Specs \ {spec}
  /\ spent' = [spent EXCEPT !.edits = @ + 1]
  /\ Disturbed
  /\ UNCHANGED <<seen, mem, row>>

\* Somebody resizes the agent on the platform, and drops its kustomization.
Resized ==
  /\ row # NoRow
  /\ spent.foreign < Limit.foreign
  /\ \E size \in Supported, kust \in {row.kust, Empty} :
       row' = Store([row EXCEPT !.size = size, !.kust = kust, !.scaler = NoScaler], NoRow)
  /\ row' # row
  /\ spent' = [spent EXCEPT !.foreign = @ + 1]
  /\ Disturbed
  /\ UNCHANGED <<spec, seen, mem>>

SizeInit ==
  /\ spec \in Specs
  /\ seen = NoSpec /\ mem = NoSpec
  /\ row = NoRow
  /\ verdict = "idle"
  /\ calm = FALSE
  /\ spent = [edits |-> 0, foreign |-> 0]

SizeNext == Reconcile \/ Observe \/ Apply \/ Refuse \/ EditSpec \/ Resized

SizeSpec == SizeInit /\ [][SizeNext]_sizeVars
-----------------------------------------------------------------------------
\* The four fields ask for something the provider refuses to write.  A custom
\* size without its configuration is refused only on creation: afterwards it is
\* an unknown size and taken to be whatever the platform has.
Invalid == CannotProject(spec) /\ ~(spec.size = "custom" /\ spec.config = NoConfig)

Wanted == Project(spec)

\* Reported up to date, the platform has the size, the patches and the bounds
\* the user asked for, unless the size is not one the provider knows, and an
\* invalid combination is never taken for done (cluster.go:569-659,
\* custom_size.go:30-54).
UpToDateMeansSized ==
  verdict = "uptodate" =>
    /\ ~Invalid
    /\ Known(spec.size) /\ spec.size # "" => row.size = spec.size
    /\ spec.size = "custom" /\ spec.config # NoConfig => row.size = "large" /\ row.kust = Wanted.kust
    /\ spec.size # "custom" /\ spec.kust # Empty => row.kust = spec.kust
    /\ spec.size = "auto" /\ spec.scaler # NoScaler => row.scaler = spec.scaler

\* After an Apply that nothing has overtaken there is no drift: what the
\* platform clamps and stamps does not make the provider write again on every
\* poll (cluster.go:623-656, docs/guides/lifecycle-and-reconciliation.md:93).
AppliedSettles == calm => verdict # "drift"

\* The patches the provider generated go with the configuration they were
\* generated for.  (They do not: lateInitializeCluster reads them back as the
\* kustomization of a spec that has none.)
PatchesFollowConfig ==
  verdict = "uptodate" /\ spec.config = NoConfig /\ spec.size # "custom" => row.kust.patch = NoConfig
==============================================================================
