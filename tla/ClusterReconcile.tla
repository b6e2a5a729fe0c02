--------------------------- MODULE ClusterReconcile ---------------------------
(***************************************************************************)
(* internal/controller/cluster: the reconciliation of Cluster managed      *)
(* resources (MRs).  Each MR wants one row on the Akuity platform and the  *)
(* agent manifests of that row installed on a target Kubernetes cluster.   *)
(*                                                                         *)
(* The workqueue runs at most one reconcile of an MR at a time, those of   *)
(* different MRs concurrently.  A reconcile works on the copy of the MR it *)
(* read first (att) and makes one call after another; every call is a step *)
(* and anything else may happen between two of them: another MR's calls, a *)
(* user's edit, a rotation of the kubeconfig Secret, a row removed on the  *)
(* platform, a restart of the provider (which empties the guard's map).    *)
(*                                                                         *)
(* The finalizer is in place from the start: the runtime sets it before    *)
(* the first write, and until then a reconcile only reads.                 *)
(*                                                                         *)
(* The spec is two values: `intent`, everything ApplyInstance sends, and   *)
(* `mode`, the maintenance fields, which only the dedicated RPC carries.   *)
(***************************************************************************)
EXTENDS WriteKeys, Naturals

CONSTANTS
  Clusters,        \* the MRs (their UIDs)
  Names,           \* names of rows
  MetaName,        \* MetaName[c]: metadata.name, the first external name
  RowName,         \* RowName[c]: spec.forProvider.name
  Intents,         \* values of the ApplyInstance part of the spec
  Rejected,        \* intents the gateway answers with InvalidArgument
  Unbuildable,     \* intents BuildApplyInstanceRequest refuses to encode
  Modes,           \* values of the maintenance fields
  Malformed,       \* modes whose expiry is not RFC 3339
  NoMode,          \* the user leaves both fields out
  DefaultMode,     \* the mode of a row nobody has set one for
  KubeConfig,      \* the kubeconfig source: "none", "in-cluster" or "secret"
  Targets,         \* contents of the kubeconfig Secret
  WorkingTargets,  \* those that reach the target cluster
  RemoveAgent,     \* removeAgentResourcesOnDestroy
  PinsDefaults,    \* the spec pins every field lateInitializeCluster fills
  ReadFaults,      \* gateway errors of reads
  WriteFaults,     \* gateway errors of writes
  TargetFaults,    \* errors of a target cluster that is reached
  LostReplies,     \* a write that takes effect may still return an error
  Limit,           \* bounds on faults, edits, drops and crashes
  NoRow, NoAttempt, NoFailure, NoError

VARIABLES
  mr,       \* mr[c]: the MR as the API server has it
  target,   \* target[c]: the content of its kubeconfig Secret
  row,      \* row[n]: the platform's row of that name
  agent,    \* agent[c]: the manifests on the target: none, partial or full
  entries,  \* the terminal-write guard's map
  pc,       \* pc[c]: the next call of c's reconcile
  att,      \* att[c]: the reconcile's own copy of the MR, and its locals
  outcome,  \* outcome[c]: how c's reconcile stands, or how the last one ended
  failed,   \* history: the last write of c that failed terminally
  torn,     \* history: a Create of c stopped half way and nothing cleaned up
  spent     \* how much of each bound is used

world == <<target, row, agent>>
history == <<failed, torn>>
vars == <<mr, target, row, agent, entries, pc, att, outcome, failed, torn, spent>>

\* The API server gives every MR a UID.
ASSUME UidsAreSet == NoUid \notin Clusters
ASSUME NamesOfClusters == MetaName \in [Clusters -> Names] /\ RowName \in [Clusters -> Names]
ASSUME SpecValues ==
  /\ Rejected \subseteq Intents
  /\ Unbuildable \subseteq Intents
  /\ Malformed \subseteq Modes
  /\ DefaultMode \in Modes \ Malformed
  /\ NoMode \notin Modes
ASSUME Configuration ==
  /\ KubeConfig \in {"none", "in-cluster", "secret"}
  /\ WorkingTargets \subseteq Targets
  /\ {RemoveAgent, PinsDefaults, LostReplies} \subseteq BOOLEAN
ASSUME FaultsAreErrors ==
  /\ ReadFaults \subseteq Error
  /\ WriteFaults \subseteq Error
  /\ TargetFaults \subseteq Error
ASSUME LimitIsNat == Limit \in [{"faults", "edits", "drops", "crashes"} -> Nat]
ASSUME Sentinels ==
  /\ NoRow \notin [intent : Intents, mode : Modes]
  /\ NoError \notin Error
  /\ NoFailure \notin [intent : Intents, mode : Modes \cup {NoMode},
                       target : Targets \cup {"none", "in-cluster"}, current : BOOLEAN]

-------------------------------------------------------------------------------
(* The domain *)

UserModes == Modes \cup {NoMode}
Rows == [intent : Intents, mode : Modes]

\* targetKubeConfig(mg).HasKubeConfig()
HasKubeConfig == KubeConfig # "none"

\* Manifests are stripped from the target before the row goes.
Strips == RemoveAgent /\ HasKubeConfig

\* kube.TargetFingerprint: only a Secret's content can change under the key.
Fingerprints == IF KubeConfig = "secret" THEN Targets ELSE {KubeConfig}
TargetFingerprint(c) == IF KubeConfig = "secret" THEN target[c] ELSE KubeConfig

\* RestConfig and the dynamic client reach the target cluster.
TargetWorks(c) == KubeConfig = "secret" => target[c] \in WorkingTargets

\* clusterTerminalWriteKey: the request ApplyInstance would send (with the
\* server's defaults in it once lateInitializeCluster has run) and the target.
Requests == [intent : Intents, filled : BOOLEAN, target : Fingerprints]
Identity(c) == [gvk |-> "Cluster", uid |-> c, name |-> MetaName[c]]
\* Mutant of WriteKey: the kubeconfig is not part of the key.
WriteKeyNoTarget(c, filled, fingerprint) ==
  Key(Identity(c),
      [intent |-> att[c].intent, filled |-> filled,
       target |-> CHOOSE t \in Fingerprints : TRUE])

WriteKey(c, filled, fingerprint) ==
  Key(Identity(c),
      [intent |-> att[c].intent, filled |-> filled, target |-> fingerprint])

\* What a reconcile holds: its copy of the MR, the mode in status.atProvider
\* (seen), whether lateInitializeCluster has run (filled), the fingerprint in
\* the write's key, whether the MR is still as it was read (fresh), whether
\* ApplyInstance found a row there (adopted), and the error being handled.
Attempts ==
  [intent : Intents, mode : UserModes, ext : Names, deleting : BOOLEAN,
   seen : UserModes, filled : BOOLEAN, target : Fingerprints,
   fresh : BOOLEAN, adopted : BOOLEAN, err : Error \cup {NoError}]

Steps ==
  {"idle", "guard", "get", "create", "cmode", "manifests", "install", "rbStrip",
   "rbDelete", "update", "umode", "delete", "dstrip", "drow"}

\* Errors with a fixed cause.
InvalidArgument == GatewayError("InvalidArgument", {})
NoSuchRow       == GatewayError("NotFound", {})
BuildError      == Opaque({})
BadKubeConfig   == Opaque({})
MalformedExpiry == AsTerminal(Opaque({}))
NotReconciled   == AsNotReconciled(Opaque({"has not yet been reconciled"}))

-------------------------------------------------------------------------------
(* What the steps have in common *)

Goto(c, step) == pc' = [pc EXCEPT ![c] = step] /\ UNCHANGED outcome

Finish(c, how) ==
  /\ pc' = [pc EXCEPT ![c] = "idle"]
  /\ att' = [att EXCEPT ![c] = NoAttempt]
  /\ outcome' = [outcome EXCEPT ![c] = how]

Spend(kind) ==
  /\ spent[kind] < Limit[kind]
  /\ spent' = [spent EXCEPT ![kind] = @ + 1]

\* A call fails with f by bad luck.
Fault(faults, f) == f \in faults /\ Spend("faults")

\* ClearTerminalWrite, ClearTerminalWriteResource, clearTerminalWrite
ClearWrites(c) == entries' = Without(entries, Identity(c))

\* Create or Update returns err: the write is recorded if err is terminal, and
\* the runtime lifts the external-create-pending it set before a Create.
GiveUp(c, fingerprint, err) ==
  /\ entries' = Recorded(entries, WriteKey(c, att[c].filled, fingerprint), err)
  /\ failed' =
       IF IsTerminal(err) \/ att[c].intent \in Unbuildable
       THEN [failed EXCEPT ![c] =
              [intent |-> att[c].intent, mode |-> att[c].mode,
               target |-> fingerprint, current |-> TRUE]]
       ELSE failed
  /\ mr' = [mr EXCEPT ![c].pending = FALSE]
  /\ Finish(c, "failed")

\* Create returns without an error.
Created(c) ==
  /\ mr' = [mr EXCEPT ![c].ext = RowName[c], ![c].pending = FALSE]
  /\ torn' = [torn EXCEPT ![c] = FALSE]
  /\ Finish(c, "created")

\* A Create that has stamped its row fails: rollbackCreatedCluster.
Rollback(c, err) ==
  /\ att' = [att EXCEPT ![c].err = err]
  /\ Goto(c, IF Strips THEN "rbStrip" ELSE "rbDelete")

-------------------------------------------------------------------------------
(* Observe *)

\* The managed reconciler reads the MR, unless an earlier Create may have been
\* cut short.
Reconcile(c) ==
  /\ pc[c] = "idle"
  /\ mr[c].phase # "gone"
  /\ ~mr[c].pending
  /\ att' = [att EXCEPT ![c] =
       [intent |-> mr[c].intent, mode |-> mr[c].mode, ext |-> mr[c].ext,
        deleting |-> mr[c].phase = "deleting", seen |-> mr[c].seen,
        filled |-> PinsDefaults, target |-> TargetFingerprint(c),
        fresh |-> TRUE, adopted |-> FALSE, err |-> NoError]]
  /\ pc' = [pc EXCEPT ![c] = "guard"]
  /\ outcome' = [outcome EXCEPT ![c] = "running"]
  /\ UNCHANGED <<mr, world, entries, history, spent>>

\* Mutant of ObserveGuard: only the drift branch of Observe asks the guard.
ObserveGuardLater(c) ==
  /\ pc[c] = "guard"
  /\ Goto(c, "get")
  /\ UNCHANGED <<mr, world, entries, att, history, spent>>

\* The guard is asked before any call is made.  Without an entry of c, when the
\* code skips the question, the answer is a miss that changes nothing.
ObserveGuard(c) ==
  /\ pc[c] = "guard"
  /\ LET key == WriteKey(c, att[c].filled, TargetFingerprint(c)) IN
       /\ entries' = AfterSuppress(entries, key, att[c].deleting)
       /\ IF Suppresses(entries, key, att[c].deleting)
          THEN Finish(c, "suppressed")
          ELSE Goto(c, "get") /\ UNCHANGED att
  /\ UNCHANGED <<mr, world, history, spent>>

\* ResourceExists is false: a deleted MR loses its finalizer; for a live one the
\* runtime first saves external-create-pending, which an edited MR refuses.
Absent(c) ==
  \/ /\ att[c].deleting
     /\ mr' = [mr EXCEPT ![c].phase = "gone"]
     /\ Finish(c, "gone")
  \/ /\ ~att[c].deleting /\ att[c].fresh
     /\ mr' = [mr EXCEPT ![c].pending = TRUE]
     /\ Goto(c, "create")
     /\ UNCHANGED att
  \/ /\ ~att[c].deleting /\ ~att[c].fresh
     /\ Finish(c, "failed")
     /\ UNCHANGED mr

\* The platform is still provisioning: up to date, as far as Observe can tell.
Waiting(c) ==
  /\ UNCHANGED mr
  /\ IF att[c].deleting THEN Goto(c, "delete") /\ UNCHANGED att
                        ELSE Finish(c, "waiting")

ObserveAbsent(c) ==
  /\ pc[c] = "get"
  /\ row[att[c].ext] = NoRow
  /\ Absent(c)
  /\ UNCHANGED <<world, entries, history, spent>>

\* GetCluster, or the Export read after it, fails.
ObserveFails(c) ==
  /\ pc[c] = "get"
  /\ \E f \in ReadFaults :
       /\ Fault(ReadFaults, f)
       /\ LET seenAs == GetOutcome(ReadError(f)) IN
            \/ seenAs = "absent" /\ Absent(c)
            \/ seenAs = "provisioning" /\ Waiting(c)
            \/ seenAs = "terminal" /\ Finish(c, "failed") /\ UNCHANGED mr
  /\ UNCHANGED <<world, entries, history>>

Drifted(c) ==
  \/ row[att[c].ext].intent # att[c].intent
  \/ att[c].mode \notin {NoMode, row[att[c].ext].mode}

\* status.atProvider and the late-initialized spec live in the reconcile's
\* copy; the status reaches the API server unless its update conflicts.
Observed(c) == [att EXCEPT ![c].seen = row[att[c].ext].mode, ![c].filled = TRUE]
StatusMaySettle(c) == mr' \in {mr, [mr EXCEPT ![c].seen = row[att[c].ext].mode]}

ObserveUpToDate(c) ==
  /\ pc[c] = "get"
  /\ row[att[c].ext] # NoRow
  /\ ~Drifted(c)
  /\ ClearWrites(c)
  /\ StatusMaySettle(c)
  /\ IF att[c].deleting THEN Goto(c, "delete") /\ att' = Observed(c)
                        ELSE Finish(c, "synced")
  /\ UNCHANGED <<world, history, spent>>

ObserveDrift(c) ==
  /\ pc[c] = "get"
  /\ row[att[c].ext] # NoRow
  /\ Drifted(c)
  /\ StatusMaySettle(c)
  /\ LET key == WriteKey(c, TRUE, TargetFingerprint(c)) IN
       /\ entries' = AfterSuppress(entries, key, att[c].deleting)
       /\ IF Suppresses(entries, key, att[c].deleting)
          THEN Finish(c, "suppressed")
          ELSE /\ Goto(c, IF att[c].deleting THEN "delete" ELSE "update")
               /\ att' = Observed(c)
  /\ UNCHANGED <<world, history, spent>>

-------------------------------------------------------------------------------
(* Create and Update: ApplyInstance, then the maintenance RPC *)

Applied(c) ==
  [row EXCEPT ![RowName[c]] =
    [intent |-> att[c].intent, mode |-> IF @ = NoRow THEN DefaultMode ELSE @.mode]]

ApplyInstance(c) ==
  /\ pc[c] \in {"create", "update"}
  /\ att[c].intent \notin Rejected \cup Unbuildable
  /\ row' = Applied(c)
  /\ att' = [att EXCEPT ![c].target = TargetFingerprint(c),
                        ![c].adopted = row[RowName[c]] # NoRow]
  /\ Goto(c, IF pc[c] = "create" THEN "cmode" ELSE "umode")
  /\ UNCHANGED <<mr, target, agent, entries, history, spent>>

ApplyRejected(c) ==
  /\ pc[c] \in {"create", "update"}
  /\ att[c].intent \in Rejected \cup Unbuildable
  /\ GiveUp(c, TargetFingerprint(c),
            ClassifyApplyError(IF att[c].intent \in Unbuildable
                               THEN BuildError ELSE InvalidArgument))
  /\ UNCHANGED <<world, torn, spent>>

\* The call fails, or only its reply is lost.
ApplyFails(c) ==
  /\ pc[c] \in {"create", "update"}
  /\ att[c].intent \notin Unbuildable
  /\ \E f \in WriteFaults :
       /\ Fault(WriteFaults, f)
       /\ GiveUp(c, TargetFingerprint(c), ClassifyApplyError(f))
       /\ \/ UNCHANGED <<row, torn>>
          \/ /\ LostReplies /\ IsRetryable(f)
             /\ att[c].intent \notin Rejected
             /\ row' = Applied(c)
             /\ torn' = [torn EXCEPT ![c] = @ \/ pc[c] = "create"]
  /\ UNCHANGED <<target, agent>>

\* Mutant of ModeInPlace: a status that says nothing counts as a match.
ModeInPlaceUnseen(c) ==
  \/ att[c].mode = NoMode
  \/ att[c].mode \notin Malformed /\ att[c].seen \in {NoMode, att[c].mode}

\* syncMaintenanceMode makes no call: the user pins nothing, or
\* maintenanceModeAlreadyApplied trusts status.atProvider.
ModeInPlace(c) ==
  \/ att[c].mode = NoMode
  \/ att[c].mode \notin Malformed /\ att[c].mode = att[c].seen

SyncMode(c) ==
  /\ pc[c] \in {"cmode", "umode"}
  /\ \/ ModeInPlace(c) /\ UNCHANGED row
     \/ /\ ~ModeInPlace(c)
        /\ att[c].mode \notin Malformed
        /\ row[RowName[c]] # NoRow
        /\ row' = [row EXCEPT ![RowName[c]].mode = att[c].mode]
  /\ ClearWrites(c)
  /\ \/ pc[c] = "umode" /\ Finish(c, "updated") /\ UNCHANGED <<mr, torn>>
     \/ /\ pc[c] = "cmode" /\ HasKubeConfig
        /\ Goto(c, "manifests") /\ UNCHANGED <<mr, att, torn>>
     \/ pc[c] = "cmode" /\ ~HasKubeConfig /\ Created(c)
  /\ UNCHANGED <<target, agent, failed, spent>>

\* Create rolls back, Update does not.
ModeFailed(c, err) ==
  \/ pc[c] = "umode" /\ GiveUp(c, att[c].target, err)
  \/ pc[c] = "cmode" /\ Rollback(c, err) /\ UNCHANGED <<mr, entries, failed>>

SyncModeFails(c) ==
  /\ pc[c] \in {"cmode", "umode"}
  /\ ~ModeInPlace(c)
  /\ \/ /\ att[c].mode \in Malformed
        /\ ModeFailed(c, ClassifyApplyError(MalformedExpiry))
        /\ UNCHANGED spent
     \/ /\ att[c].mode \notin Malformed
        /\ row[RowName[c]] = NoRow
        /\ ModeFailed(c, ClassifyApplyError(NoSuchRow))
        /\ UNCHANGED spent
     \/ /\ att[c].mode \notin Malformed
        /\ \E f \in WriteFaults :
             Fault(WriteFaults, f) /\ ModeFailed(c, ClassifyApplyError(f))
  /\ UNCHANGED <<world, torn>>

-------------------------------------------------------------------------------
(* Create: the agent manifests *)

GetManifests(c) ==
  /\ pc[c] = "manifests"
  /\ row[RowName[c]] # NoRow
  /\ Goto(c, "install")
  /\ UNCHANGED <<mr, world, entries, att, history, spent>>

\* The row is gone, a read fails, or checkClusterReconciled runs out of
\* attempts before the platform has reconciled the row.
GetManifestsFails(c) ==
  /\ pc[c] = "manifests"
  /\ \/ /\ row[RowName[c]] = NoRow
        /\ Rollback(c, ClassifyManifestInstallError(ReadError(NoSuchRow)))
        /\ UNCHANGED spent
     \/ \E f \in ReadFaults :
          /\ Fault(ReadFaults, f)
          /\ Rollback(c, ClassifyManifestInstallError(ReadError(f)))
     \/ /\ Spend("faults")
        /\ Rollback(c, ClassifyManifestInstallError(NotReconciled))
  /\ UNCHANGED <<mr, world, entries, history>>

Install(c) ==
  /\ pc[c] = "install"
  /\ TargetWorks(c)
  /\ agent' = [agent EXCEPT ![c] = "full"]
  /\ Created(c)
  /\ UNCHANGED <<target, row, entries, failed, spent>>

\* ApplyManifests stops at the first object that fails.
InstallFails(c) ==
  /\ pc[c] = "install"
  /\ \/ /\ ~TargetWorks(c)
        /\ Rollback(c, ClassifyManifestInstallError(BadKubeConfig))
        /\ UNCHANGED <<agent, spent>>
     \/ /\ TargetWorks(c)
        /\ \E f \in TargetFaults :
             /\ Fault(TargetFaults, f)
             /\ Rollback(c, ClassifyManifestInstallError(f))
        /\ agent' \in {agent, [agent EXCEPT ![c] = IF @ = "none" THEN "partial" ELSE @]}
  /\ UNCHANGED <<mr, target, row, entries, history>>

\* Deleting the manifests from the target succeeds ...
Stripped(c) ==
  /\ row[RowName[c]] # NoRow
  /\ TargetWorks(c)
  /\ agent' = [agent EXCEPT ![c] = "none"]
  /\ UNCHANGED spent

\* ... or does not: they cannot be fetched, or not (all) be deleted.
StripFails(c) ==
  \/ /\ row[RowName[c]] = NoRow \/ ~TargetWorks(c)
     /\ UNCHANGED <<agent, spent>>
  \/ /\ \E f \in ReadFaults \cup TargetFaults : Fault(ReadFaults \cup TargetFaults, f)
     /\ agent' \in {agent, [agent EXCEPT ![c] = IF @ = "full" THEN "partial" ELSE @]}

\* Errors of the rollback are logged and dropped.
RollbackStrip(c) ==
  /\ pc[c] = "rbStrip"
  /\ \/ Stripped(c) /\ UNCHANGED torn
     \/ StripFails(c) /\ torn' = [torn EXCEPT ![c] = @ \/ agent[c] # "none"]
  /\ Goto(c, "rbDelete")
  /\ UNCHANGED <<mr, target, row, entries, att, failed>>

\* Mutant of RollbackDelete: the row stays.
RollbackDeleteSkipped(c) ==
  /\ pc[c] = "rbDelete"
  /\ GiveUp(c, att[c].target, att[c].err)
  /\ UNCHANGED <<world, torn, spent>>

RollbackDelete(c) ==
  /\ pc[c] = "rbDelete"
  /\ \/ row' = [row EXCEPT ![RowName[c]] = NoRow] /\ UNCHANGED <<torn, spent>>
     \/ /\ \E f \in WriteFaults : Fault(WriteFaults, f)
        /\ torn' = [torn EXCEPT ![c] = @ \/ row[RowName[c]] # NoRow]
        /\ UNCHANGED row
  /\ GiveUp(c, att[c].target, att[c].err)
  /\ UNCHANGED <<target, agent>>

-------------------------------------------------------------------------------
(* Delete *)

\* Mutant of DeleteBegins: the row goes at once.
DeleteBeginsAtRow(c) ==
  /\ pc[c] = "delete"
  /\ ClearWrites(c)
  /\ Goto(c, "drow")
  /\ UNCHANGED <<mr, world, att, history, spent>>

DeleteBegins(c) ==
  /\ pc[c] = "delete"
  /\ ClearWrites(c)
  /\ Goto(c, IF Strips THEN "dstrip" ELSE "drow")
  /\ UNCHANGED <<mr, world, att, history, spent>>

\* Mutant of DeleteStrip: a failure does not stop Delete.
DeleteStripLenient(c) ==
  /\ pc[c] = "dstrip"
  /\ Stripped(c) \/ StripFails(c)
  /\ Goto(c, "drow")
  /\ UNCHANGED <<mr, target, row, entries, att, history>>

DeleteStrip(c) ==
  /\ pc[c] = "dstrip"
  /\ \/ Stripped(c) /\ Goto(c, "drow") /\ UNCHANGED att
     \/ StripFails(c) /\ Finish(c, "failed")
  /\ UNCHANGED <<mr, target, row, entries, history>>

\* The row is named by the external name here, and by spec.forProvider.name in
\* every other call.  DeleteCluster reads the row first: none is an error.
DeleteRow(c) ==
  /\ pc[c] = "drow"
  /\ \/ /\ row[att[c].ext] # NoRow
        /\ row' = [row EXCEPT ![att[c].ext] = NoRow]
        /\ Finish(c, "deleted")
        /\ UNCHANGED spent
     \/ row[att[c].ext] = NoRow /\ Finish(c, "failed") /\ UNCHANGED <<row, spent>>
     \/ /\ \E f \in WriteFaults : Fault(WriteFaults, f)
        /\ Finish(c, "failed")
        /\ UNCHANGED row
  /\ UNCHANGED <<mr, target, agent, entries, history>>

-------------------------------------------------------------------------------
(* Everything else *)

\* The MR changes under a reconcile that has only read it so far.
Stale(c) ==
  att' = IF pc[c] \in {"guard", "get"} THEN [att EXCEPT ![c].fresh = FALSE] ELSE att

Outdated(f) == IF f = NoFailure THEN f ELSE [f EXCEPT !.current = FALSE]

EditSpec(c) ==
  /\ mr[c].phase = "live"
  /\ Spend("edits")
  /\ \/ \E i \in Intents \ {mr[c].intent} : mr' = [mr EXCEPT ![c].intent = i]
     \/ \E m \in UserModes \ {mr[c].mode} : mr' = [mr EXCEPT ![c].mode = m]
  /\ Stale(c)
  /\ failed' = [failed EXCEPT ![c] = Outdated(@)]
  /\ UNCHANGED <<world, entries, pc, outcome, torn>>

RotateSecret(c) ==
  /\ KubeConfig = "secret"
  /\ Spend("edits")
  /\ \E t \in Targets \ {target[c]} : target' = [target EXCEPT ![c] = t]
  /\ failed' = [failed EXCEPT ![c] = Outdated(@)]
  /\ UNCHANGED <<mr, row, agent, entries, pc, att, outcome, torn>>

RequestDelete(c) ==
  /\ mr[c].phase = "live"
  /\ mr' = [mr EXCEPT ![c].phase = "deleting"]
  /\ Stale(c)
  /\ UNCHANGED <<world, entries, pc, outcome, history, spent>>

\* The row is removed by someone else.
RowDropped(n) ==
  /\ row[n] # NoRow
  /\ Spend("drops")
  /\ row' = [row EXCEPT ![n] = NoRow]
  /\ UNCHANGED <<mr, target, agent, entries, pc, att, outcome, history>>

\* The provider restarts.
Crash ==
  /\ Spend("crashes")
  /\ entries' = {}
  /\ pc' = [c \in Clusters |-> "idle"]
  /\ att' = [c \in Clusters |-> NoAttempt]
  /\ outcome' = [c \in Clusters |-> IF pc[c] = "idle" THEN outcome[c] ELSE "crashed"]
  /\ torn' = [c \in Clusters |->
       torn[c] \/ pc[c] \in {"cmode", "manifests", "install", "rbStrip", "rbDelete"}]
  /\ failed' = [c \in Clusters |-> Outdated(failed[c])]
  /\ UNCHANGED <<mr, world>>

\* An operator removes external-create-pending by hand.
OperatorResumes(c) ==
  /\ pc[c] = "idle"
  /\ mr[c].pending
  /\ mr' = [mr EXCEPT ![c].pending = FALSE]
  /\ UNCHANGED <<world, entries, pc, att, outcome, history, spent>>

-------------------------------------------------------------------------------

Init ==
  /\ \E spec \in [Clusters -> [intent : Intents, mode : UserModes]] :
       mr = [c \in Clusters |->
              [phase |-> "live", intent |-> spec[c].intent, mode |-> spec[c].mode,
               ext |-> MetaName[c], pending |-> FALSE, seen |-> NoMode]]
  /\ target \in [Clusters -> Targets]
  /\ row = [n \in Names |-> NoRow]
  /\ agent = [c \in Clusters |-> "none"]
  /\ entries = {}
  /\ pc = [c \in Clusters |-> "idle"]
  /\ att = [c \in Clusters |-> NoAttempt]
  /\ outcome = [c \in Clusters |-> "new"]
  /\ failed = [c \in Clusters |-> NoFailure]
  /\ torn = [c \in Clusters |-> FALSE]
  /\ spent = [kind \in {"faults", "edits", "drops", "crashes"} |-> 0]

Observe(c) ==
  \/ ObserveGuard(c) \/ ObserveAbsent(c) \/ ObserveFails(c)
  \/ ObserveUpToDate(c) \/ ObserveDrift(c)

Write(c) ==
  \/ ApplyInstance(c) \/ ApplyRejected(c) \/ ApplyFails(c)
  \/ SyncMode(c) \/ SyncModeFails(c)

InstallAgent(c) ==
  \/ GetManifests(c) \/ GetManifestsFails(c) \/ Install(c) \/ InstallFails(c)
  \/ RollbackStrip(c) \/ RollbackDelete(c)

Delete(c) == DeleteBegins(c) \/ DeleteStrip(c) \/ DeleteRow(c)

Step(c) == Reconcile(c) \/ Observe(c) \/ Write(c) \/ InstallAgent(c) \/ Delete(c)

Environment ==
  \/ \E c \in Clusters :
       EditSpec(c) \/ RotateSecret(c) \/ RequestDelete(c) \/ OperatorResumes(c)
  \/ \E n \in Names : RowDropped(n)
  \/ Crash

Next == (\E c \in Clusters : Step(c)) \/ Environment

Spec == Init /\ [][Next]_vars

\* The workqueue keeps returning to every MR, and a reconcile that has started
\* goes on.
FairSpec == Spec /\ \A c \in Clusters : WF_vars(Step(c))

-------------------------------------------------------------------------------
(* Properties *)

MRs ==
  [phase : {"live", "deleting", "gone"}, intent : Intents, mode : UserModes,
   ext : Names, pending : BOOLEAN, seen : UserModes]
Failures ==
  [intent : Intents, mode : UserModes, target : Fingerprints, current : BOOLEAN]

WorldOK ==
  /\ target \in [Clusters -> Targets]
  /\ row \in [Names -> Rows \cup {NoRow}]
  /\ agent \in [Clusters -> {"none", "partial", "full"}]

EntriesOK ==
  \A e \in entries :
    /\ e.key \in {Key(Identity(c), r) : c \in Clusters, r \in Requests}
    /\ e.err \in Error
    /\ IsTerminal(e.err)

ControlOK ==
  /\ pc \in [Clusters -> Steps]
  /\ outcome \in [Clusters ->
       {"new", "running", "suppressed", "failed", "waiting", "synced", "created",
        "updated", "deleted", "gone", "crashed"}]

AttemptsOK ==
  /\ att \in [Clusters -> Attempts \cup {NoAttempt}]
  /\ \A c \in Clusters :
       /\ IF pc[c] = "idle" THEN att[c] = NoAttempt ELSE att[c] \in Attempts
       /\ pc[c] \in {"rbStrip", "rbDelete"} => att[c].err \in Error

HistoryOK ==
  /\ failed \in [Clusters -> Failures \cup {NoFailure}]
  /\ torn \in [Clusters -> BOOLEAN]

TypeOK ==
  /\ mr \in [Clusters -> MRs]
  /\ WorldOK
  /\ EntriesOK
  /\ ControlOK
  /\ AttemptsOK
  /\ HistoryOK
  /\ spent \in [{"faults", "edits", "drops", "crashes"} -> Nat]

\* A write Create or Update is about to send failed terminally before, and
\* neither the spec nor the Secret has changed and the provider has not
\* restarted since.
Repeats(c) ==
  /\ pc[c] \in {"create", "update"}
  /\ failed[c] # NoFailure
  /\ failed[c].current
  /\ failed[c].intent = att[c].intent
  /\ failed[c].target = TargetFingerprint(c)

\* Suppress answers "an identical write that already failed", which "prevents
\* another write" until the payload changes (terminal_write_guard.go:151-155).
\* Specs that cannot be encoded are MalformedSpecNotRetried's.
NoIdenticalRetry ==
  \A c \in Clusters : Repeats(c) => att[c].intent \in Unbuildable

\* "a Create that fails terminally (instance ID not found, malformed
\* Kustomization, bad kubeconfig secret) would otherwise loop"
\* (cluster.go:105-107).
MalformedSpecNotRetried ==
  \A c \in Clusters : Repeats(c) => att[c].intent \notin Unbuildable

\* The last write of c failed terminally, and neither the spec nor the Secret has
\* changed and the provider has not restarted since.
FailureStands(c) ==
  /\ failed[c] # NoFailure
  /\ failed[c].current
  /\ failed[c].intent = mr[c].intent
  /\ failed[c].intent \notin Unbuildable
  /\ failed[c].target = TargetFingerprint(c)

\* Outcomes that report no error.
InOrder == {"synced", "waiting", "created", "updated"}

\* While a terminal failure stands no reconcile reports that the MR is in order,
\* although the platform may hold just the row the spec asks for: left behind by
\* a rollback that failed ("a rollback failure should not mask it",
\* cluster.go:301-302), or updated before the maintenance call failed.  The
\* error is kept "visible to the user" (terminal_write_guard.go:151-155).
FailureStaysVisible ==
  \A c \in Clusters : FailureStands(c) => outcome[c] \notin InOrder

Suppressed(c) == outcome[c] = "running" /\ outcome'[c] = "suppressed"

\* The guard only ever stops the write it saw rejected: the same request, and
\* the same kubeconfig behind it, so that a rotated Secret lets the write
\* through (targetapply.go:54-58).
SuppressOnlySamePayload ==
  [][\A c \in Clusters : Suppressed(c) =>
       /\ failed[c] # NoFailure
       /\ failed[c].intent = att[c].intent
       /\ failed[c].target = TargetFingerprint(c)]_vars

\* The same of the maintenance fields, where nothing but the maintenance call
\* fails: "the fingerprint should include the effective outbound payload"
\* (terminal_write_guard.go:36-38).
SuppressOnlySameSpec ==
  [][\A c \in Clusters : Suppressed(c) =>
       failed[c] # NoFailure /\ failed[c].mode = att[c].mode]_vars

\* Create installs the agent and no later step repeats that (cluster.go:265-268),
\* so a row that Observe calls up to date must have its agent, unless a
\* Create was torn.
RowMeansInstalled ==
  \A c \in Clusters :
    outcome[c] = "synced" /\ HasKubeConfig /\ ~torn[c] => agent[c] = "full"

\* The same without the excuse: a Create that failed is rolled back (the rest
\* of the comment, and docs/guides/lifecycle-and-reconciliation.md).
SyncedMeansInstalled ==
  \A c \in Clusters : outcome[c] = "synced" /\ HasKubeConfig => agent[c] = "full"

\* "removes the just-stamped platform row" (cluster.go:297): the rollback never
\* removes a row that was there before this Create.  The code allows it: reads that
\* are refused pass for absence, and Create adopts the row (README, section 5).
RollbackOnlyFresh ==
  [][\A c \in Clusters :
       pc[c] = "rbDelete" /\ row[RowName[c]] # NoRow /\ row'[RowName[c]] = NoRow
       /\ pc'[c] = "idle"
       => ~att[c].adopted]_vars

\* A Create that succeeds leaves the row in the mode the user asked for:
\* maintenanceModeAlreadyApplied "returns false on Create (atProvider empty),
\* so the initial sync still runs" (cluster.go:394-395).  When others have taken
\* the row away, atProvider still describes it: CreateSyncsModeAlways, which
\* makes no exception for that, is violated as soon as a row is dropped.
LeavesMode(c) ==
  outcome[c] = "running" /\ outcome'[c] = "created" /\ att[c].mode # NoMode
  /\ row[RowName[c]] # NoRow
  => row'[RowName[c]].mode = att[c].mode

CreateSyncsModeAlways == [][\A c \in Clusters : LeavesMode(c)]_vars
CreateSyncsMode ==
  [][spent.drops = 0 => \A c \in Clusters : LeavesMode(c)]_vars

\* Delete calls DeleteCluster only when the agent it has to remove is gone: the
\* manifests cannot be fetched any more afterwards.
DeleteStripsFirst ==
  \A c \in Clusters : pc[c] = "drow" /\ Strips => agent[c] = "none"

\* When the MR is gone nothing of it is left behind: no row under its name, and
\* with removeAgentResourcesOnDestroy no agent, unless a Create was torn or the
\* row, and the manifests with it, was taken away by others.
GoneLeavesNothing ==
  \A c \in Clusters :
    mr[c].phase = "gone" =>
      /\ row[RowName[c]] = NoRow
      /\ Strips /\ ~torn[c] /\ spent.drops = 0 => agent[c] = "none"

\* Between two reconciles the guard remembers of an MR at most its last write
\* that failed terminally, and while a write of it is under way nothing: were
\* an older entry to survive, Observe would report its error for a spec that
\* never failed.
GuardHoldsLastFailure ==
  \A c \in Clusters : \A e \in entries :
    SameResource(e.key, Identity(c)) =>
      /\ pc[c] \in {"idle", "guard"}
      /\ failed[c] # NoFailure
      /\ e.key.fingerprint.intent = failed[c].intent
      /\ e.key.fingerprint.target = failed[c].target

\* The guard's map does not outlive the MRs: entries have no other expiry.
GuardForgetsGone ==
  \A c \in Clusters :
    mr[c].phase = "gone" => ~\E e \in entries : SameResource(e.key, Identity(c))

\* What the spec asks for is on the platform.
InStep(c) ==
  LET r == row[RowName[c]] IN
    /\ r # NoRow
    /\ r.intent = mr[c].intent
    /\ mr[c].mode \in {NoMode, r.mode}

UserMustAct(c) ==
  \/ mr[c].intent \in Rejected \cup Unbuildable
  \/ mr[c].mode \in Malformed
  \/ HasKubeConfig /\ ~TargetWorks(c)

\* Once edits and faults stop, every MR comes to rest: deleted, it goes away,
\* suppressed writes or not; live, its row follows the spec for good, unless
\* the user has to act first (the spec is rejected, the target out of reach).
Settles ==
  \A c \in Clusters :
    <>[](\/ mr[c].phase = "gone"
         \/ mr[c].phase = "live" /\ (UserMustAct(c) \/ InStep(c))
         \/ mr[c].phase = "deleting" /\ Strips /\ ~TargetWorks(c))
===============================================================================
