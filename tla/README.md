# A TLA+ model of provider-crossplane-akuity

The provider is a Kubernetes controller. Users declare Akuity resources (Argo CD
instances, clusters, Kargo instances, agents, default shard agents, IP allow lists) as
*managed resources* (MRs); for each MR the provider brings the Akuity platform, reached
through gRPC gateways, in line with the spec. Two things are hard. A reconcile is a
sequence of calls that can fail, be cut short or lose its reply, on a copy of the MR that
goes stale, while some failures must be retried and others must never be. And whether
there is anything to do is decided by comparing a spec with what the platform shows, after
both have gone through converters, late initialization and normalization.

Paths below are relative to `src/`; `cluster.go` is
`internal/controller/cluster/cluster.go`, and so on.

## 1. Inventory

| component | state it keeps | operations | modelled in |
| --- | --- | --- | --- |
| Error reasons (`internal/reason`, `base/fetch.go`) | none | tag, ask, classify after a write or an install, outcome of a read | `Reason`, `ErrorVerdict` |
| Terminal-write guard (`base/terminal_write_guard.go`, `base/external.go`) | a process-wide map from (object, fingerprint) to error | Record, Clear, Suppress, HasResource | `WriteKeys`, `TerminalWriteGuard`, `WriteMemory` |
| Cluster controller (`cluster/`) | the MR: spec, external name, `status.atProvider`, create-pending, finalizer | Observe, Create with rollback, Update, Delete | `ClusterReconcile` |
| Agent install (`clients/kube`) | manifests on the target cluster | apply, delete, fingerprint of the kubeconfig | inside `ClusterReconcile`, `KargoAgent` |
| InstanceIpAllowList controller | the MR, the instance ID cached in status | Observe, patch, delete by patching the empty list | `InstanceIpAllowList` |
| KargoDefaultShardAgent controller | the MR, an instance ID cached in status; one field of a shared parent | Observe, patch, clear | `DefaultShardAgent` |
| KargoAgent controller | the MR, the instance ID late-initialized into the spec; the parent's workspace, looked up for each request | like Cluster, with a second key after the rollback | `KargoAgent` |
| Instance controller | the MR, the hash of the resolved Secrets in status | Observe, one Apply of everything, Delete | `Instance` |
| KargoInstance controller | the MR; in status the workspace and hashes of Secrets, ConfigMap and (not modelled) children | Observe with two reads, Apply, Delete | `KargoInstance` |
| Drift and presence (`base/drift*.go`, `base/presence.go`, `base/children`) | none | presence of fields, projection, normalization, comparison of fields and children | `FieldDrift`, `Children`, `Drift` |
| Custom agent sizes (`custom_size.go` twice) | none | rewriting `size: custom` into generated patches | `AgentSize` |
| Converters and types (`convert.go` four times, `internal/types`, `utils/cmp`) | none | spec to wire, wire to spec, equality | `InstanceTypes`, `InstanceWire`, `InstanceSeen`, `AgentTypes`, `AgentWire`, `SpecTree`, `Conversion` |
| Akuity client (`clients/akuity/client.go`) | workspace IDs for one reconcile | reads with an error boundary, writes, manifest stream | its boundary in `Reason`, its calls in the controllers' modules |
| Secret resolution (`internal/secrets`) | none | resolve, hash | a value in `Instance` and `KargoInstance` |
| Provider config, connector, metrics, events, conditions, startup | - | wiring | left out |

How they interact. crossplane-runtime calls a controller's Observe and then, by its
answer, one of Create, Update or Delete; the controller calls the Akuity client and,
for agents, a target cluster; every failed write goes through the classifiers of
`internal/reason`, and if the result is *terminal* it is recorded in the guard, which
the next Observe asks before anything is written. All controllers of the process
share one guard (`DefaultTerminalWriteGuard`), and it is lost with the process. The
MR itself lives on the API server: a status update is refused if the MR has changed
since it was read. Children find their parent through its MR's status: an allow list an
Instance, an agent or a default shard agent a KargoInstance; the parent may come later,
report no ID yet, or go first.

Behaviours that are hard: the guard's key is computed at several places, at
different moments; a Create has up to four remote effects and a compensation that may
fail too; Create may meet a row that an earlier attempt left; deletion must strip the
target *before* the row goes; a read that fails must not be taken for absence; waiting
must not be cached; a Secret may be rotated between any two steps, and the platform never
shows one; two MRs write one field; and a field must survive five hand-written copies of
its struct. `PROJECT.json` lists these under `hazards` with their lines.

What makes each part correct: the classifiers give one verdict and never make a wait
terminal; the guard answers with the last rejection of exactly this write of exactly
this object; a controller never repeats a rejected write, never takes a row for done that
is not, leaves nothing behind when its MR is gone, and settles; an Apply that took effect
compares equal, and what compares equal is what the user wrote.

## 2. The modules

### Errors and the guard

**`Reason`** - errors of `internal/reason`. An error is its tags (terminal, retryable,
not found, not reconciled), its gRPC code if any, and which of the searched substrings
its text contains; every `errors.As`, `status.FromError` and `strings.Contains` of the
package is a question about those. Operators carry the Go names.

**`ErrorVerdict`** - one error on its way from the gateway (or from the provider) through
the read boundary and the classifiers, any number of times.

**`WriteKeys`** - the body of `TerminalWriteGuard`'s methods as operators on a set of
entries. The guard's own module and all six controllers use the same operators, so what is
proved about the guard is what the controllers call.

**`TerminalWriteGuard`** - the guard alone, called by anyone in any order. Each method
holds the mutex throughout, so each is an action. **`WriteMemory`** is what it promises:
per object, at most one rejected payload with its error. The refinement maps the
entries of an object to that memory; it hides the key, the sweep of
`deleteResourceLocked` and the matching by namespace and name of objects without UID.

### Controllers

All six follow one scheme. Variables: the MR as the API server has it, the row on the
platform and whatever else the world holds, `entries` (the guard), and per MR `pc` and
`att`, the copy the reconcile works on with its locals. Every remote call is a step of its
own, so that edits, rotations, other controllers and crashes come in between; what a step
reads early it uses late, as the code does. A status update succeeds only if the MR is
still the one that was read. Variables marked *history* are read by properties only.

**`ClusterReconcile`** - the Cluster controller, for any number of MRs.

| code | actions |
| --- | --- |
| runtime: queue, read of the MR | `Reconcile` |
| `Observe` | `ObserveGuard` (the first question to the guard), then one of `ObserveAbsent`, `ObserveFails`, `ObserveUpToDate`, `ObserveDrift` by what GetCluster says |
| `Create` and `Update` up to the maintenance RPC | `ApplyInstance`, `ApplyRejected`, `ApplyFails`, `SyncMode`, `SyncModeFails` |
| the rest of `Create` | `GetManifests`, `GetManifestsFails`, `Install`, `InstallFails` |
| `rollbackCreatedCluster` | `RollbackStrip`, `RollbackDelete` |
| `Delete` | `DeleteBegins`, `DeleteStrip`, `DeleteRow` |
| users, platform, process | `EditSpec`, `RotateSecret`, `RequestDelete`, `RowDropped`, `Crash`, `OperatorResumes` |

The spec is two values, because the code treats two parts differently: `intent` is all
that ApplyInstance sends, `mode` the maintenance fields that only the dedicated RPC
carries. A fingerprint is (intent, have the server's defaults been filled in, content
of the kubeconfig Secret). `failed` and `torn` are history: the last write that failed
terminally, and whether a Create stopped half way with nobody to clean up. Taken from
crossplane-runtime (external, from how the code uses it): the external name is set from
`metadata.name` before the first Create; create-pending is saved before Create, and an MR
that still carries it is not reconciled until an operator resumes it; the finalizer goes
when a deleted MR is observed absent.

**`KargoAgent`** - what is different for a KargoAgent, one MR: the instance is found
through a KargoInstance MR (or on the platform, by name) and its ID is written into the
spec. So is the workspace of a request, each time it is needed (`Lookup`); a lookup that fails
answers that there is none, and a parent may name its workspace late (`ParentNames`) or under
another name. Every fingerprint has the workspace in it: the one Observe asks the guard for
(`AskedWorkspace`), the one `apply` fills in, and the one after the rollback. When a Create
ends, the runtime may save the workspace with the spec (`Finished`). The key of an install
failure is computed after the rollback; the platform keeps an agent that is connected; fetching manifests can run into the reconcile's deadline, and then
the rollback cannot do anything either.

**`InstanceIpAllowList`** - `parent` is the referenced Instance MR (missing, without an ID
yet, or reporting one) and `served` the list each instance serves. The instance ID is
resolved once in Observe and once more in `patch`.

**`DefaultShardAgent`** - several MRs on one Kargo instance. The platform stores the *ID*
of an agent, the spec has its *name*: `agents` maps names to IDs, an agent may go and come
back under a new one. `pin` is the shared field, `pinner` (history) whose pins are in
force, `orphaned` who was let go because the agent or the instance was missing.

**`Instance`** - one Apply carries spec, ConfigMaps, Secrets and children. `row` has the
content of the Secret it was sent; the status has the hash, saved after the fact by
`SaveHash`. What the spec leaves open (`Open`) is filled from the platform in Observe and
sent back by Update. A request is (spec, content, ConfigMap), a fingerprint a request in
one of its orders, because lists are built by ranging over maps.

**`KargoInstance`** - asks the guard before every read, records rejected reads as well,
resolves its workspace (by name, from the status, or the default), and keeps hashes of
Secrets and ConfigMap; the one of the children is left out (section 6). A Secret stands for the three kinds of references;
`Poison` specs are accepted and then make every read of the instance fail.

### Comparison and conversion

**`FieldDrift`** - presence, projection, late initialization, normalization and equality of
scalar fields, by the treatment a field gets: late-initialized, inherited when left out,
gated by another field, routing, ignored, decoded to a value or to a pointer.
**`Children`** - `base/children/drift.go` on trees (objects, arrays, nulls), and a
reference definition `Holds` by paths; also how the platform merges, completes and exports
them. **`Drift`** puts both under a user and other writers: `Fetch`, `ObserveInstance`,
`Update`, edits. It takes the comparison, the Apply and the reference definition of children
as constants, which `MCDrift` sets to those of `Children`: trees need recursive operators, a
module with theorems may not have them, and what `Drift` is about does not depend on what a
tree is. `ChildrenCompared`, which is `ChildrenAgree` and `ChildrenSettle`, says what it does
rely on.

**`AgentSize`** - size, custom size, kustomization and autoscaler of a Cluster or a
KargoAgent: what the provider rewrites into what, and what the platform clamps and stamps.

**`SpecTree`** - a spec as a function from paths to values; which values a leaf has
(an edit, another spelling, the zero, a platform's default), when two are equal
(`utils/cmp/option.go`), and how an Apply merges. **`InstanceTypes`**, **`AgentTypes`** -
the fields of the four large specs, one operator per Go type. **`InstanceWire`**,
**`InstanceSeen`**, **`AgentWire`** - the fields each converter sends or reads, one operator
per Go function. **`Conversion`** - one section of one kind at a time is created, edited by
its user or by somebody else, read back, late-initialized, normalized, compared and applied
again. So each field of the CRDs makes the whole round trip.

The `MC*` modules give constants their values. Operators called `...Any`, `...Keeps`,
`...Lenient` and so on, marked "Mutant of", are plausible wrong versions of the
operator they precede; no specification uses them. Each property has one that breaks
it, named under `mutants` in `PROJECT.json`.

## 3. Runs

| run | question | bounds |
| --- | --- | --- |
| `MCErrorVerdict` | does every error get one stable verdict, and is no wait terminal? | all codes the client can see, all combinations of the searched substrings: nothing is bounded |
| `MCTerminalWriteGuard` | does the guard implement `WriteMemory` with one entry per object? | 4 objects: one name under two UIDs, one name without UID in two kinds; 2 payloads, 4 errors; no bound on calls |
| `MCCluster` | is a Cluster with a kubeconfig Secret safe? | 1 MR, 2 intents (one rejected), modes off, on and malformed, 2 Secret contents (one works), 2 faults, 2 edits or rotations, 1 row dropped, 1 crash, lost replies |
| `MCClusterPair` | do two Clusters disturb each other, and do they settle? | 2 MRs whose rows have other names, in-cluster targets, intents good, rejected and unencodable, 1 fault, lost replies, weak fairness |
| `MCInstanceIpAllowList` | is an allow list safe, does it settle and can it be deleted? | 1 instance, 3 lists (empty, good, rejected), 2 faults, 2 edits, 2 changes of the parent, 1 crash, weak fairness |
| `MCDefaultShardAgent` | do two pins of one instance respect each other? | 2 MRs, 2 agent names, 2 IDs (one rejected), 1 fault or change, weak fairness |
| `MCKargoAgent` | is a KargoAgent safe and does it settle? | 5 specs (no target, target whose manifests stay or are removed, rejected, unencodable), 2 Secret contents, 2 instance IDs, a workspace named from the start, later or never, 3 faults or changes in all, weak fairness |
| `MCInstance` | the same for an Instance with Secrets | 4 specs (all set, ConfigMap left open, rejected, inline Secret), 2 Secret contents, 3 ConfigMaps, 4 faults or changes in all, weak fairness |
| `MCKargoInstance` | the same for a KargoInstance, with recorded reads | 6 specs, among them two with ConfigMaps, two with a workspace by name, one poisoned; 2 Secret contents; 4 faults or changes in all, weak fairness |
| `MCDrift` | does the comparison find exactly what the user wrote and the platform lacks? | 8 fields, one per treatment, with 2 to 3 user values and 2 foreign ones; 8 sets of children, 7 shapes of trees; 3 edits, 1 foreign edit |
| `MCAgentSize` | is a size that is up to date the one asked for, and does it settle? | 6 sizes, 2 configs, 3 kustomizations, 2 scaler values; 2 edits, 1 foreign edit |
| `MCConversion` | does every field survive the round trip? | every section of four specs, read by export and by Get; one element per list or map; 1 edit by the user, 1 by others |

Why these bounds. A reconcile is at most eight calls, and what a rejected write, a torn
Create or a stale copy does shows within two or three reconciles. Two faults let a
Create fail and its rollback fail as well; two edits let a spec change away and back
while a reconcile is under way; a second Secret content is what tells a rotation from an
edit; one crash empties the guard and cuts a Create at each of its points. In the later
modules faults, edits, rotations, changes by others and crashes share one budget
(`Limit`), so that any mixture of four is tried; of three for a KargoAgent, whose lookups of
the workspace are faults as well. (It passes with two workspaces too, which takes three times
as long.) Reconciles themselves are unbounded
everywhere. For conversion, one element of a list shows what is done to each; an
edit away from the created spec and one foreign edit give all combinations of an old row,
a new spec and a default.

One bound is a restriction of the question. An allow list and a default shard agent have
one parent, whose ID never changes. When the Instance MR of an allow list is replaced by one
that reports another ID, the code has nothing to find the old instance with, and the list
stays there; and the guard, asked for the new ID, forgets what the old one rejected. So with
two `Instances` neither `GoneClearsList` nor `NoIdenticalRetry` holds (noted at the hazard in
`PROJECT.json`).

The controllers' cfgs turn deadlock checking off, as the system may stop for good: all MRs
gone, the environment's budget used up. `MCConversion` checks it: there is always an answer
to what was written.

Fairness. `FairSpec` is weak fairness of each MR's `Step`: the workqueue puts an MR back
after an error (rate-limited) and after every poll interval (`cmd/provider/main.go`,
one minute), and a reconcile's context has a deadline, so each call returns. Faults are
bounded, so fairness does not assume a call that always succeeds, only an outage that ends.
Children also assume that their parent's controller does its work (`ParentReports`,
`ParentCreates`), which is such a controller itself, and `KargoAgent` that the platform
notices that an agent is gone (`AgentDisconnects`). Nothing is assumed of users or
operators.

What the runs show.

- No write that was rejected is sent again before the spec, the Secret or the resolved
  parent change (`NoIdenticalRetry`, in all six controllers; `NoIdenticalRead` for the reads
  of a KargoInstance; a default shard agent that finds the rejected ID in place, pinned by a
  sibling, may send it again: Observe then clears the guard), and only such a write is
  suppressed (`SuppressOnlySamePayload`). A KargoAgent's is not, as long as every Observe finds
  the workspace that was found when the write was recorded; otherwise it is (section 5).
- A row Observe calls up to date has its agent unless a Create was torn
  (`RowMeansInstalled`); Delete strips first (`DeleteStripsFirst`), and what is gone has left
  neither row nor agent (`GoneLeavesNothing`), list (`GoneClearsList`), pin
  (`GoneClearsPin`) or entry (`GuardForgetsGone`).
- While a terminal failure stands a Cluster is not reported to be in order
  (`FailureStaysVisible`), also when its rollback failed and left just the row the spec asks
  for, or when the update went through and only the maintenance call failed. Only a restart
  takes that back (`SyncedMeansInstalled`, section 5).
- A Create that succeeds leaves the mode that was asked for (`CreateSyncsMode`). What the
  rollback of one that fails removes need not be what that Create made: `RollbackOnlyFresh`
  does not hold (section 5) and is in no run.
- A stored hash that agrees with a Secret means that the platform has that content
  (`HashIsWhatWasApplied`), whatever rotations to *new* contents and lost status updates do. A
  content that comes back is left out: by `Reverts = FALSE` for an Instance, where the property
  fails with it (section 5), and by the model for a KargoInstance.
- Once changes stop, everything settles (`Settles`): a deleted MR goes, a live one ends in
  step or in one of the states the property names, in which its user has to act.
- What is called up to date is what the user wrote (`UpToDateMeansApplied`,
  `UpToDateMeansSized`, `UpToDateMeansStored`); an Apply that took effect is not followed by
  another (`DriftSettles`, `AppliedSettles`, `ApplySettles`); drift has a cause
  (`DriftHasCause`). The comparison of children by subtrees agrees with one path by path and
  accepts whatever an Apply leaves (`ChildrenCompared`).

Also stated, checked while the modules were written, and without a run of their own: the
type invariants (`TypeOK` and its like, each a theorem of section 4), `SuppressOnlySameSpec`,
`SyncedMeansInstalled` and `MalformedSpecNotRetried` (`ClusterReconcile`), `ReferenceFirst`
and `GuardForgetsGone` (`InstanceIpAllowList`), and the properties section 5 names.

## 4. Proofs

tlapm checks every theorem for all values of the constants, that is for any number of
MRs, names, specs, Secret contents, IDs and faults, and without the runs' bounds.

| module | theorem | says |
| --- | --- | --- |
| `GuardLemmas` | lemmas | what constructors, tags and classifiers return; what the guard's methods make of a map that holds one object's entries |
| `SharedProofs` | `GuardTypeCorrect`, `OneEntry` | the entries are well formed; at most one per object |
| | `GuardImplementsMemory` | the guard refines `WriteMemory` |
| | `VerdictTypeCorrect`, `VerdictsApart` | errors stay well formed; one verdict each |
| | `WaitsNeverCached`, `VerdictIsFinal` | no wait becomes terminal; asking again changes nothing |
| | `UpToDateIsSized` | `UpToDateMeansSized`, for every table of sizes |
| | `AppliedSizesSettle` | `AppliedSettles` of `AgentSize`, while the spec is `Storable` |
| | `UpToDateIsApplied`, `DriftIsCaused` | `UpToDateMeansApplied`, `DriftHasCause`, if `NoZeroAmong` and `ChildrenAgree` |
| | `ApplyIsFinal` | `DriftSettles`, if `NoZeroAmong` and `ChildrenSettle` |
| `ClusterReconcileProofs` | `ClusterTypeCorrect` | `TypeOK` |
| | `StrippedBeforeDeleted` | `DeleteStripsFirst` |
| | `LastFailureOnly`, `NothingOfTheGone` | an entry is the last failure of its MR; the gone have none |
| | `SuppressedIsSame` | `SuppressOnlySamePayload` |
| | `RefusedIsNotRetried`, `StandingFailureIsVisible` | `NoIdenticalRetry`, `FailureStaysVisible`, if `PinsDefaults` |
| | `SyncedIsInstalled` | `RowMeansInstalled`, if `OwnRows` |
| | `GoneIsTidy` | `GoneLeavesNothing`, if `PlainNames` and `ReadsTruthful` |
| | `CreateLeavesMode` | `CreateSyncsMode`, under the same hypotheses |
| `DefaultShardAgentProofs` | `TypeCorrect` | `TypeOK` |
| | `RefusedIsNotRetried`, `GoneHasReleased` | `NoIdenticalRetry`, `GoneClearsPin`, for any number of siblings |
| `InstanceIpAllowListProofs` | `TypeCorrect` | `TypeOK` |
| | `RefusedIsNotRetried`, `GoneIsCleared` | `NoIdenticalRetry`, `GoneClearsList`, if `FixedParent` |
| `KargoAgentProofs` | `TypeCorrect` | `TypeOK` |
| | `RefusedIsNotRetried` | `NoIdenticalRetry`: spec, Secret and instance stay, and Observe finds the recorded workspace |
| | `GoneIsTidy` | `GoneLeavesNothing`, if `ReadsTruthful` |
| `InstanceProofs` | `TypeCorrect` | `TypeOK` |
| | `HashIsApplied` | `HashIsWhatWasApplied`, if not `Reverts` |
| | `RefusedIsNotRetried` | `NoIdenticalRetry`, if all specs are `Ordered`, and `ReadsTruthful` |
| `KargoInstanceProofs` | `TypeCorrect`, `HashIsApplied` | `TypeOK`, `HashIsWhatWasApplied` |
| | `RefusedIsNotRetried`, `RejectedIsNotReread` | `NoIdenticalRetry`, `NoIdenticalRead` |

### What is assumed

The named ASSUMEs of the modules: sentinels differ from values, the configured faults are
errors, UIDs are not the missing UID, distinct objects of the guard are distinguishable, the
platform offers "small" and "large" and no size "custom", and a field that gates another is
inherited before it is asked (`FieldClasses`, `instance.go:553`). Beyond those a theorem has a hypothesis only where the property is false
without it, and every passing run of that property satisfies it:

- `PinsDefaults` (Cluster) and `Specs \subseteq Ordered` (Instance): otherwise the key the
  guard is asked for is not the key that was recorded (section 5).
- `~Reverts` (Instance): a Secret does not get an old content back (section 5). A
  KargoInstance's theorem has no such hypothesis because its model leaves that out:
  `SecretChanges` only takes contents not older than the present one.
- `OwnRows`: no MR names, or can claim by its `metadata.name`, the row of another.
  `PlainNames`: moreover each MR goes by one name. Otherwise rows are adopted, or not looked
  for (section 5).
- `ReadsTruthful`: no read that fails is taken for "not found". `ReadError` makes
  PermissionDenied a NotFound, by design; then a deletion ends early, and an Instance that
  looks missing is applied again.
- `FixedParent` (InstanceIpAllowList): the spec names the instance by its ID, or there is one
  the reference can stand for (section 3).
- `Storable(spec)` (`AgentSize`): a size the provider knows is one the platform offers; and
  for a KargoAgent, whose `Normalize` does less than a Cluster's, bounds are only written for
  a size that scales (section 5) and the platform does not keep a kustomization that is not
  sent, as nothing reads it back into the spec. It speaks of the spec as it is now: an edit
  into a spec that is not storable is allowed, and out of it again.
- `NoZeroAmong(fields)` (`Drift`): no user writes false, 0 or "" into a field the Go types
  hold by value. `omitempty` drops it from the request, while the raw object still names the
  field; so it is never applied, and every poll finds the drift. For `UpToDateIsApplied` only
  the late-initialized fields matter, for which the zero gives way to the platform's value.
- `[]ChildrenAgree`, `[]ChildrenSettle` (`Drift`): children are compared correctly. `MCDrift`
  checks both, as `ChildrenCompared`, for the trees there. They are needed only for the children; the
  fields' part of the three theorems follows without them.

### The arguments

*One entry*: every way to add an entry sweeps the object first, and "belongs to the same
object" is an equivalence on the keys that can occur; that is where `ObjectsDistinct` is
needed, as matching by name is not transitive in general. *Refinement*: with one entry per
object the CHOOSE of the mapping is determined, and each method becomes the memory's
action.

*Verdicts*: the invariant `Apart` (an error is never tagged both ways) is what makes
`VerdictsDisjoint` inductive. That no wait is cached follows from what an error that still
is a wait can carry: never the terminal tag, and nothing a classifier would take for one.

*Types*: by components of the state and by action; helpers such as `Finish` and `Goto` have
lemmas of their own. In `DefaultShardAgent` types need `PathOK`: what is sent is nothing, or
an ID that has been given out.

*The guard inside the controller*: `GuardHoldsLastFailure` alone is not inductive, since a
reconcile of an MR that is already gone could record again. `GuardInv` adds that a running
reconcile's MR is not gone, and that is inductive: Observe leaves an entry only if it then
stops, so at every later step the guard holds nothing of this MR, and the one place that
records sets `failed` in the same step. `SuppressOnlySamePayload` then follows from the
entry found: its fingerprint is the one asked for and, by the invariant, the one that
failed.

*No identical retry* has one pattern in six controllers: as long as the failure stands
(nothing it depends on has changed since) and the MR, or the reconcile at work, would repeat
the write, the guard *holds* it and the reconcile has not got past Observe. The property
speaks of the moment of sending; the invariant has to speak of the entry between reconciles
and of the copy a reconcile carries, and each controller has its own reasons why the entry
cannot have gone. `RetryOK` (Cluster, default shard agents): the entries of other MRs do not
meet this one's, and an agent's ID never comes back, so the agent may go and appear again
between the resolutions. `ClaimOK` and `StandingOK` (KargoAgent): the ID is claimed with the
finalizer and kept, and if the MR has a workspace by then it is the one of the key, so the key
computed after the rollback is the one asked for; the one thing left to differ is what Observe
looks up, and the history `steady` ends with the first Observe that finds something else. What
Create and Update look up does not matter: a reconcile that gets there asks for another spec.
`RefusedIsKnown` (Instance): the refused request is on record, or Observe would ask for
another one, or find nothing to do; it is the third alternative that makes `ReadsTruthful`
necessary. `OnFile` (KargoInstance): also for reads; a reconcile that gets past the guard was
let through without being asked, which is what `att.passed` records.

*Visible failures* (`VisibleOK`) rest on the same invariant: a reconcile that reports a Cluster
to be in order is past the guard and not that of a deletion, and while the failure stands
`RetryOK` lets none get there. The row is not looked at, so it does not matter what the
rollback left.

*Hashes* (`HashOK`): contents are numbered as they appear; the hash in the status never runs
ahead of what was applied, nor that of the Secret, and neither does what an Apply or a save
under way carries. So hash and Secret can only agree on what was applied.

*Installed and tidy*: `InstalledOK` says when the row of a live MR must have its agent,
step by step through Create. `TidyOK` adds where a Create stands with its row (absent before,
its own afterwards), and `UndroppedOK` that what has no row has no agent and that
`atProvider` describes the row there is, as long as nobody drops rows. For KargoAgent,
`TrackedOK` says the same of the one agent: manifests without a row are those a deletion was
told to leave. `RowMeansInstalled`, `GoneLeavesNothing` and `CreateSyncsMode` are
read off these.

*Pins* (`PinOK`): an empty pin is nobody's, a reconcile that has read an empty pin is not
among those who set the present one, and siblings only ever take that from it.

*Allow lists* (`IdsOK`, `RunOK`): every ID in hand is one spec or reference can lead to, so
there is one at most, and the finalizer is there before the first write, so an MR
that wrote cannot go but by Delete; a copy from before the deletion cannot put the finalizer
back, as its save is refused. `RetryOK` is the pattern above: while the MR asks for the list
that was rejected the guard holds it, for the instance it is asked for again.

*Sizes*: `Normalize`, `Project`, `LateInit` and `Store` have a lemma each, field by field, and
then everything is a case of custom or not. `UpToDateMeansSized` needs `InStepWhenUpToDate`:
the row Observe judged is still the row. For `AppliedSettles` the draft that is sent may be
completed from a row that has since been resized, so `AppliedIsInStep` is about a draft
completed from *any* row and stored over any other; `InStepWhileCalm` then says that a
reconcile under way while nothing has interfered read the spec that was applied.

*Fields*: `ComparedIsInStep` and `InStepIsCompared` are the two halves of one statement: what
the comparison finds after late initialization, inheriting, gates and projection is what
`FieldsInStep` says of the raw spec and the row, without any of them. The gates are the hard
part: a gate left out counts as the platform has it, and one written counts as written, which
agrees with what the platform shows because the gate itself is compared. `DraftsOK` says that
the draft is the fetched spec, completed at most once, and that is what makes a comparison
with a spec edited since unable to say "up to date" of it.

### What the proofs changed in the models

Three history variables said something else than the properties that use them meant, which
no run had shown at its bounds. A default shard agent that finds the rejected ID in place has
its entry cleared by Observe (`kargodefaultshardagent.go:173`) and may be rejected for the same
ID again, after a sibling has moved the pin: `failed.current` now ends there. In
`KargoAgent`, `torn` now also covers a rollback that was not to strip what is installed, and
the run has the spec for it ("kept"). In `KargoInstance`, `unread` marks a rejected read
that still stands.

### Only model-checked

Everything temporal under fairness (`Settles`), which the prover cannot do. The operators on
trees in `Children`: they are recursive, and their property (`ChildrenCompared`) is an
induction over data, which no installed prover does. `Conversion`: what
it asks is whether five tables of field names agree, and TLC looks at every field of them; a
proof would have to assume just that agreement. And the statements of section 5, which are
about constants for which a property does not hold.

## 5. Where code, documentation and expectations disagree

Each of these was found by giving a constant another value, or by running a property that
is stated in its module but part of no run. None is a matter of the model's abstraction: the
lines are named.

Guard and controllers:

- `NoIdenticalRetry` in `MCCluster` with `PinsDefaults = FALSE`: Observe asks the guard
  *before* lateInitializeCluster, Update records after it. If the spec leaves a defaulted
  field out, the two keys never agree and a rejected update is sent on every reconcile
  (`cluster.go:109`) and, after a read that has to wait, the MR is reported in order
  (`FailureStaysVisible`), against "Returning the error from Observe prevents another write"
  (`terminal_write_guard.go:151`).
- `SuppressOnlySameSpec`: a malformed maintenance expiry is recorded as terminal under a
  key that does not contain it; correcting it does not lift the suppression
  (`cluster.go:380`; `terminal_write_guard.go:36`).
- `SyncedMeansInstalled`: when the rollback fails, which is only logged, and the guard has
  lost the entry, Observe calls the row up to date and the agent is never installed
  (`cluster.go:320`; `docs/guides/lifecycle-and-reconciliation.md:72`).
- `Settles` in `MCClusterPair` with `ReadFaults <- LaggingReads`: a NotFound of the manifest
  fetch right after the row was created is made terminal (`cluster.go:279`), although that
  is the wait of which the classifier's comment speaks (`terminal.go:70`).
- `CreateSyncsModeAlways`, which makes no exception for dropped rows: after one vanished,
  `status.atProvider` still has its mode, and the new row never gets it (`cluster.go:394`).
- `RollbackOnlyFresh` in `MCCluster` with `ReadFaults <- AllReadFaults`. A Cluster is in
  step and its agent installed. One GetCluster is refused; the client makes PermissionDenied
  a NotFound (`client.go:384`), so that Observe reports no cluster and the runtime calls
  Create. ApplyInstance changes nothing, but then the maintenance RPC, or fetching or
  applying the manifests, fails, and the rollback strips the agent and deletes a row that
  has been in service all along, although it "removes the just-stamped platform row"
  (`cluster.go:297`) "on a fresh resource" (`cluster.go:258`) and `reason/doc.go:13` says
  that controllers can trust the conflation. With the names of `MCClusterPair` the same
  happens without such a read.
- `GoneLeavesNothing` in `MCCluster` with the names of `MCClusterPair`: a
  row left by a failed rollback is never looked for
  (`docs/guides/lifecycle-and-reconciliation.md:42`).
- `GoneLeavesNothing` with `ReadFaults <- AllReadFaults`: the read boundary cannot tell a
  forbidden row from a missing one, so that a deleted MR may go while the row stands. By
  design.
- `MalformedSpecNotRetried` with an unencodable intent: the encoding error passes
  ClassifyApplyError untagged, so Create is repeated (`cluster.go:105`, `246`).
- `BadInputIsTerminal` in `ErrorVerdict`: an InvalidArgument that quotes "connection
  refused" or the like is retried for ever (`retryable.go:77`).
- An allow list whose Instance MR goes before its status holds an ID keeps its finalizer
  for ever (`instanceipallowlist.go:327`; `docs/resources/instanceipallowlist.md:35`);
  `Settles` names that state. `ReferenceFirst`: the docs say the reference is resolved
  first, the code prefers the ID (`docs/resources/instanceipallowlist.md:33`).
- `FollowsReference` in `KargoAgent`: the same (`lifecycle-and-reconciliation.md:61`); once
  the ID is in the spec, an instance created anew is not followed.
- `NoRetryByLookup` in `KargoAgent`, which is `NoIdenticalRetry` without `steady`: a workspace
  that is not in the spec is looked up on the parent for each key, and an error is taken for
  "none" (`kargoagent.go:671`). So one failed lookup in Observe, or a parent that reports its
  workspace only after the failure, gives a key that is not on record; the miss drops the
  entry (`terminal_write_guard.go:177`) and the rejected write goes out again, although it is
  the same on the wire, where the client fills in what is missing (`client.go:345`). "Until the
  effective payload changes" (`terminal_write_guard.go:48`) is then not kept, once per such
  change.
- `RecordsWhatFailed` in `KargoAgent`: the key is computed after the rollback, so a Secret
  rotated meanwhile has its good content recorded as the one that failed
  (`kargoagent.go:460`).
- `GoneLeavesNoPin` in `DefaultShardAgent`: when the agent is missing, a deleted MR goes
  without clearing its pin (`kargodefaultshardagent.go`, Observe).
- `NoIdenticalRetry` in `MCInstance` with `Ordered = {}`: lists of plugins and the like are
  in the order of a map (`instance/convert.go:532`), so the same request has several
  fingerprints and a rejected one is sent again.
- `HashIsWhatWasApplied` in `MCInstance` with `Reverts = TRUE`: a Secret rotated away and
  back, with one status update lost in between, leaves the content in the middle on the
  platform for good (`instance.go:257`).
- `KeepsForeign` in `Instance`: what is read in Observe and sent in Update overwrites a
  change made on the platform in between.
- A Secret deleted before its MR blocks the deletion of an Instance or KargoInstance: it is
  resolved before Observe can say that the row exists (`instance.go:187`). `Settles` names it.
- `BadInputIsCaught` in `KargoInstance`: the comment at `kargoinstance.go:235` says that the
  guard stops the loop for a missing workspace or a malformed Kustomization, but `apply`
  returns both before it has a key to record.
- `DeferredMeansApplied` in `KargoInstance`: an edit away and back with a lost status update
  makes the ConfigMap's hash agree with one that has been replaced (`kargoinstance.go:699`).

Comparison and conversion; the first group are the exclusions named in `MCConversion`, each
of which gives a counterexample when it is taken out:

- `<<"fqdn">>`: lateInitializeInstance fills `subdomain`, then normalize adopts the
  platform's pair of the two, so a written `fqdn` is neither applied nor reported
  (`instance.go:340`, `434`).
- `kubeVisionConfig`: `aiConfig` and `additionalAttributes` are in the CRD, but neither
  sent nor read, so writing them makes every poll apply; leaving out `cveScanConfig` panics
  (`instance/convert.go:635`).
- `clusterCustomizationDefaults` without `kustomization`, when the platform has none:
  lateInitializeInstance dereferences nil (`instance.go:344`).
- `defaultShardAgent` of a KargoInstance is stripped from what is sent
  (`kargoinstance.go:1461`) and compared nevertheless: every poll applies. The example
  `examples/kargoinstance/detailed.yaml:60` sets it.
- `size` of a KargoAgent read by Get: the enumeration is not mapped back
  (`kargoagent/convert.go:167`), so without an export every poll applies.
- Text spelled another way: quantities are compared as numbers in *every* string field
  (`cmp/option.go:20`), so an edit from "1000m" to "1" in a description is not applied. A
  kustomization that is not in canonical form drifts for ever (`instance.go:493`; there is
  no normalisation at all for `agentCustomizationDefaults.kustomization`).
- `Replaced`: an Apply is taken to replace a cluster's or an agent's entry. If the platform
  merges inside it, a field that was set elsewhere and is not in the spec drifts for ever,
  as Cluster and KargoAgent compare whole structs. Some fields of the wire (OIDC, description,
  kustomization) lack omitempty, so an Apply clears what a spec does not mention.
- `AppliedSettles` in `MCAgentSize` with `Kind = "KargoAgent"` and `RetainsOmitted = FALSE`:
  for small and large agents the platform stamps autoscaler bounds, which "the provider
  treats as authoritative" (`docs/guides/lifecycle-and-reconciliation.md:93`), but the
  KargoAgent adopts them only if the spec has none (`kargoagent.go:123`).
- `PatchesFollowConfig` in `AgentSize`: late initialization reads generated patches back
  into a spec whose size is not custom any more.
- Two children of one kind and name, one of them without a namespace, are never in step
  (`children/drift.go:204`).

## 6. What is not modelled

Calls take effect before the next one starts: a write that arrives after its timeout is
not modelled. Two MRs that name one row are not instantiated. Management policies are all
granted. Also left out, with the reason:

- resolving a Cluster's `instanceRef` (done first in every reconcile, and an error when it
  fails), and the fallback to the stored spec when an export fails;
- in the key of a KargoInstance, the workspace ID (`kargoinstance.go:587`): it is taken to be
  determined by the name in the spec, or to be the default. That it cannot be resolved, and the
  guard is passed over then, is modelled;
- the hash of a KargoInstance's children (`kargoinstance.go:495`), which excuses a difference
  that is only in the description of projects (`kargoinstance.go:895`);
- of a custom size, the checks that component, memory, CPU and replicas are given and that the
  agent is not managed by Akuity (`kargoagent/custom_size.go:40`): a config of the model is
  complete, and no agent of it is managed;
- the manifest stream's two channels (`client.go:1086`): a truncated manifest is an install
  that leaves some of them, which the models have;
- the workspace cache of the client: a client lives for one reconcile;
- how children are routed to the lists of a request, and the allowed keys of Kargo Secrets:
  pure checks, a spec is malformed or not;
- the status mirrors (`types/observation/cluster.go`, health and versions), conditions,
  events, metrics: no modelled decision reads them;
- the order of objects and REST mapping of an install;
- credentials, connector, startup; mocks, fixtures, deep copies and list types.

## 7. Plan

1. Done: all six controllers, the guard, the classifiers, comparison and conversion.
2. Done: proofs of every safety property a run checks, but those of `Conversion` and
   `ChildrenCompared` (section 4).
3. Modules worth adding: RBAC of in-cluster targets, two MRs on one row, calls that arrive
   late, exports with malformed entries.
