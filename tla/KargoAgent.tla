------------------------------- MODULE KargoAgent -------------------------------
(***************************************************************************)
(* internal/controller/kargoagent: one KargoAgent MR, the Kargo instance   *)
(* it belongs to, the agent's row on the platform and the agent itself on  *)
(* the target cluster.  Create applies the row and installs the manifests  *)
(* the platform renders; if that fails it rolls the row back and records   *)
(* the failure.  Delete strips the manifests and removes the row.          *)
(*                                                                         *)
(* What the Cluster controller has in common with this one (several MRs, a *)
(* platform name that differs from the MR's, a Create the runtime wants an *)
(* operator to look at) is modelled in ClusterReconcile and left out here. *)
(* This module adds what is different: the instance is found through a     *)
(* KargoInstance MR and its ID ends up in the spec; the workspace of a     *)
(* request is looked up there each time it is needed, and the lookup may   *)
(* fail; the key of an install failure is computed after the rollback; and *)
(* the platform keeps an agent that is connected.                          *)
(***************************************************************************)
EXTENDS WriteKeys, Naturals

CONSTANTS
  Specs,       \* values of spec.forProvider
  Unbuildable, \* those BuildApplyKargoInstanceRequest fails for
  Refused,     \* those the gateway answers with InvalidArgument
  Installing,  \* those with a kubeconfig source
  Removing,    \* those with removeAgentResourcesOnDestroy
  Contents,    \* contents of the kubeconfig Secret
  Usable,      \* those that reach the target cluster
  Workspaces,  \* names of workspaces
  NoWorkspace, \* none is named
  MaxIds,      \* how many Kargo instances are ever created: bounds the IDs
  NoRow, NoTarget, NoAttempt, NoFailure,
  ReadFaults,  \* gateway errors of the reads and of the manifest fetch; an
               \* opaque one is an expired context
  WriteFaults, \* gateway errors of ApplyKargoInstance and of the deletion
  Limit        \* bound on what may go wrong or change: see Spend

VARIABLES
  mr,        \* phase, spec, id (kargoInstanceId in the spec, 0 when absent),
             \* workspace (also there, or NoWorkspace), claimed (has the finalizer)
  parent,    \* the KargoInstance MR: "missing", "silent" (no ID yet) or "ready"
  named,     \* the workspace its spec or its status names, or NoWorkspace
  ids,       \* how many instances there have been: the last ID
  instance,  \* the ID of the Kargo instance, 0 if there is none
  secret,    \* the content of the kubeconfig Secret
  row,       \* the spec the agent's row holds, or NoRow
  agent,     \* the manifests on the target: "none", "some" or "all"
  connected, \* the platform has the agent as connected
  entries,   \* the terminal-write guard's map
  pc, att,   \* as in ClusterReconcile
  failed,    \* history: the payload of the last recorded write, whether all it
             \* depends on is still the same (current), and whether every lookup
             \* of the workspace since then has found the one in it (steady)
  torn,      \* history: a rollback failed or was not to strip what is there, or
             \* others removed the row
  spent

world == <<parent, named, ids, instance, secret>>
platform == <<row, agent, connected>>
history == <<failed, torn>>
vars == <<mr, world, platform, entries, pc, att, history, spent>>

Ids == 1..MaxIds
WorkspaceNames == Workspaces \cup {NoWorkspace}

ASSUME SpecSets ==
  UNION {Unbuildable, Refused, Installing, Removing} \subseteq Specs
ASSUME SecretSets == Usable \subseteq Contents
ASSUME FaultsAreErrors == ReadFaults \subseteq Error /\ WriteFaults \subseteq Error
ASSUME Bounds == MaxIds \in Nat \ {0} /\ Limit \in Nat
ASSUME Sentinels ==
  /\ NoRow \notin Specs /\ NoTarget \notin Contents
  /\ NoWorkspace \notin Workspaces
  /\ NoFailure \notin
       [fingerprint : [spec : Specs, id : Ids, workspace : WorkspaceNames,
                       target : Contents \cup {NoTarget}],
        current : BOOLEAN, steady : BOOLEAN]

me == [gvk |-> "KargoAgent", uid |-> "agent", name |-> "agent"]

\* The request, with the ID and the workspace in it, and TargetFingerprint: the
\* Secret as it is when the key is computed.
Fingerprint(spec, id, workspace) ==
  [spec |-> spec, id |-> id, workspace |-> workspace,
   target |-> IF spec \in Installing THEN secret ELSE NoTarget]

\* kargoAgentTerminalWriteKey; for an unbuildable spec the payload is the spec.
WriteKey(spec, id, workspace) == Key(me, Fingerprint(spec, id, workspace))

-------------------------------------------------------------------------------
(* What the steps have in common *)

\* Faults, edits, rotations, changes of the parent and crashes share one bound.
Spend == spent < Limit /\ spent' = spent + 1

Goto(step) == pc' = step /\ UNCHANGED att

Finish == pc' = "idle" /\ att' = NoAttempt

\* The MR has not been written since this reconcile read it.
Fresh == mr.spec = att.spec /\ mr.phase = IF att.deleting THEN "deleting" ELSE "live"

\* AddFinalizer sends the whole object, the ID Observe has put into it included,
\* unless the finalizer is there; it fails if the MR has been written since.
Claims == ~mr.claimed /\ Fresh
Claimed == mr' = IF Claims THEN [mr EXCEPT !.claimed = TRUE, !.id = att.id] ELSE mr
MayGoOn == mr.claimed \/ Fresh

Continue(step) ==
  /\ Claimed
  /\ IF MayGoOn THEN Goto(step) ELSE Finish

Settle == Claimed /\ Finish

\* resolveWorkspaceFromParent answers w: what the parent names, or nothing when it
\* is missing, names none, or cannot be read.
Answer == IF parent = "missing" THEN NoWorkspace ELSE named
Lookup(w) ==
  \/ w = Answer /\ UNCHANGED spent
  \/ w = NoWorkspace /\ Answer # NoWorkspace /\ mr.workspace = NoWorkspace /\ Spend

\* The spec's own workspace goes before the one looked up.
Filled(w) == IF mr.workspace = NoWorkspace THEN w ELSE mr.workspace

\* The end of a Create or an Update.  To save its annotations after a Create the
\* runtime sends the whole object, the workspace apply has put into it included;
\* the API server refuses that if the MR has been written since.
Finished(workspace) ==
  /\ Finish
  /\ \/ UNCHANGED mr
     \/ att.creating /\ Fresh /\ mr' = [mr EXCEPT !.workspace = workspace]

-------------------------------------------------------------------------------
(* Observe *)

\* What becomes of the history when something a write depends on has changed, and
\* when a workspace the spec does not name is found to be w.
Outdated(f) == IF f = NoFailure THEN f ELSE [f EXCEPT !.current = FALSE]
LookedUp(f, w) ==
  IF f # NoFailure /\ mr.workspace = NoWorkspace /\ w # f.fingerprint.workspace
  THEN [f EXCEPT !.steady = FALSE]
  ELSE f

\* Mutant of Resolved: only the parent's status is asked.
ResolvedByStatus == IF parent = "ready" THEN instance ELSE 0

\* resolveKargoInstanceID: the ID in the spec; then the parent's status or, as
\* long as that has none, the platform by name.  0 is an error.
Resolved ==
  IF mr.id # 0 THEN mr.id
  ELSE IF parent = "missing" THEN 0
  ELSE instance

\* Mutant of AskedWorkspace: the guard is asked with the spec as it is written.
AskedWorkspaceAsWritten(w) == mr.workspace

\* terminalFP.Workspace: Observe fills it in for the guard alone, as apply will.
AskedWorkspace(w) == Filled(w)

\* The start of Observe, with the answer of the guard.
Reconcile ==
  /\ pc = "idle" /\ mr.phase # "gone" /\ Resolved # 0
  /\ \E w \in WorkspaceNames :
       LET deleting == mr.phase = "deleting"
           terminalFP == Fingerprint(mr.spec, Resolved, AskedWorkspace(w))
           key == Key(me, terminalFP)
       IN /\ Lookup(w)
          /\ entries' = AfterSuppress(entries, key, deleting)
          /\ ~Suppresses(entries, key, deleting)
          /\ pc' = "get"
          /\ att' = [spec |-> mr.spec, id |-> Resolved, deleting |-> deleting,
                     creating |-> FALSE, expired |-> FALSE, error |-> NoFailure,
                     key |-> terminalFP, used |-> NoTarget]
          /\ failed' = LookedUp(failed, w)
  /\ UNCHANGED <<mr, world, platform, torn>>

\* GetKargoInstanceAgent finds the row of an instance that is there.
Seen == IF att.id = instance THEN row ELSE NoRow

\* ResourceExists is false: the runtime drops the finalizer, or creates.
Absent ==
  \/ /\ att.deleting
     /\ mr' = [mr EXCEPT !.phase = "gone"]
     /\ Finish
  \/ /\ ~att.deleting /\ Claimed
     /\ IF MayGoOn THEN pc' = "key" /\ att' = [att EXCEPT !.creating = TRUE]
                   ELSE Finish

ObserveAbsent ==
  /\ pc = "get" /\ Seen = NoRow
  /\ Absent
  /\ UNCHANGED <<world, platform, entries, history, spent>>

\* A wait counts as up to date.
ObserveFails ==
  /\ pc = "get"
  /\ \E f \in ReadFaults :
       /\ Spend
       /\ CASE GetOutcome(f) = "absent" -> Absent
            [] GetOutcome(f) = "terminal" -> Finish /\ UNCHANGED mr
            [] GetOutcome(f) = "provisioning" /\ att.deleting ->
                 Goto("delete") /\ UNCHANGED mr
            [] OTHER -> Settle
  /\ UNCHANGED <<world, platform, entries, history>>

\* Drift is found in the export or, when the export fails, in the row itself.
ObserveRow ==
  /\ pc = "get" /\ Seen # NoRow
  /\ LET drifted == row # att.spec
         key == WriteKey(att.spec, att.id, att.key.workspace)
         suppressed == drifted /\ Suppresses(entries, key, att.deleting)
     IN /\ entries' = IF drifted THEN AfterSuppress(entries, key, att.deleting)
                                 ELSE Without(entries, me)
        /\ IF suppressed THEN Finish /\ UNCHANGED mr
           ELSE IF att.deleting THEN Goto("delete") /\ UNCHANGED mr
           ELSE IF drifted THEN Continue("key")
           ELSE Settle
  /\ UNCHANGED <<world, platform, history, spent>>

-------------------------------------------------------------------------------
(* apply, for Create and Update *)

\* The workspace is looked up again.  The key first, then the request: one that
\* cannot be built is an error no classifier calls terminal.
BuildRequest ==
  /\ pc = "key"
  /\ \E w \in WorkspaceNames :
       /\ Lookup(w)
       /\ IF att.spec \in Unbuildable THEN Finished(Filled(w))
          ELSE /\ pc' = "apply"
               /\ att' = [att EXCEPT !.key = Fingerprint(att.spec, att.id, Filled(w))]
               /\ UNCHANGED mr
  /\ UNCHANGED <<world, platform, entries, history>>

\* What is remembered of a recorded write.
Refusal(fingerprint) ==
  [fingerprint |-> fingerprint, steady |-> TRUE,
   current |-> fingerprint = Fingerprint(att.spec, att.id, att.key.workspace)]

\* Mutant of GiveUp: only Update records its failures.
GiveUpOnUpdate(fingerprint, err) ==
  /\ entries' = IF att.creating THEN entries ELSE Recorded(entries, Key(me, fingerprint), err)
  /\ failed' = IF IsTerminal(err) THEN Refusal(fingerprint) ELSE failed
  /\ Finished(att.key.workspace)

\* RecordTerminalWrite with the classified error.
GiveUp(fingerprint, err) ==
  /\ entries' = Recorded(entries, Key(me, fingerprint), err)
  /\ failed' = IF IsTerminal(err) THEN Refusal(fingerprint) ELSE failed
  /\ Finished(att.key.workspace)

Apply ==
  /\ pc = "apply" /\ att.id = instance /\ att.spec \notin Refused
  /\ row' = att.spec
  /\ entries' = Without(entries, me)
  /\ IF att.creating /\ att.spec \in Installing
     THEN Goto("manifests") /\ UNCHANGED mr
     ELSE Finished(att.key.workspace)
  /\ UNCHANGED <<world, agent, connected, history, spent>>

\* The instance is gone, the spec is bad, or the call fails; it may have taken
\* effect all the same when only the reply is lost.
ApplyFails ==
  /\ pc = "apply"
  /\ \/ /\ att.id # instance
        /\ GiveUp(att.key, ClassifyApplyError(GatewayError("NotFound", {})))
        /\ UNCHANGED <<row, spent>>
     \/ /\ att.id = instance /\ att.spec \in Refused
        /\ GiveUp(att.key, ClassifyApplyError(GatewayError("InvalidArgument", {})))
        /\ UNCHANGED <<row, spent>>
     \/ \E f \in WriteFaults :
          /\ Spend
          /\ GiveUp(att.key, ClassifyApplyError(f))
          /\ \/ UNCHANGED row
             \/ /\ IsRetryable(f) /\ att.id = instance /\ att.spec \notin Refused
                /\ row' = att.spec
  /\ UNCHANGED <<world, agent, connected, torn>>

-------------------------------------------------------------------------------
(* Create: the manifests and the rollback *)

\* checkKargoAgentReconciled asks a few times; when it has waited long enough the
\* error is its last one.
FetchErrors == ReadFaults \cup {AsNotReconciled(Opaque({"has not yet been reconciled"}))}

FetchManifests ==
  /\ pc = "manifests"
  /\ \/ Seen # NoRow /\ Goto("install") /\ UNCHANGED spent
     \/ \E err \in FetchErrors :
          /\ Spend
          /\ pc' = "strip"
          /\ att' = [att EXCEPT !.error = err, !.expired = err = Opaque({})]
     \/ /\ Seen = NoRow
        /\ pc' = "strip"
        /\ att' = [att EXCEPT !.error = AsNotFound(Opaque({}))]
        /\ UNCHANGED spent
  /\ UNCHANGED <<mr, world, platform, entries, history>>

\* ApplyManifestsToTarget reads the Secret again.
Install ==
  /\ pc = "install" /\ secret \in Usable
  /\ agent' = "all"
  /\ Finished(att.key.workspace)
  /\ UNCHANGED <<world, row, connected, entries, history, spent>>

InstallFails ==
  /\ pc = "install"
  /\ \/ secret \notin Usable /\ UNCHANGED <<agent, spent>>
     \/ secret \in Usable /\ Spend /\ agent' \in {agent, "some"}
  /\ pc' = "strip"
  /\ att' = [att EXCEPT !.error = Opaque({}), !.used = secret]
  /\ UNCHANGED <<mr, world, row, connected, entries, history>>

\* The manifests are deleted: fetched again, and only with a usable Secret.
Strippable == Seen # NoRow /\ secret \in Usable /\ ~att.expired

\* rollbackCreatedAgent: what fails is logged.
RollbackStrip ==
  /\ pc = "strip"
  /\ Goto("rollback")
  /\ IF att.spec \notin Removing
     THEN torn' = (torn \/ agent # "none") /\ UNCHANGED <<agent, spent>>
     ELSE \/ Strippable /\ agent' = "none" /\ UNCHANGED <<torn, spent>>
          \/ /\ ~Strippable
             /\ torn' = (torn \/ agent # "none")
             /\ UNCHANGED <<agent, spent>>
          \/ Strippable /\ Spend /\ torn' = TRUE /\ agent' \in {agent, "some"}
  /\ UNCHANGED <<mr, world, row, connected, entries, failed>>

\* The row goes, or not; then the key is computed and the failure recorded.
Rollback ==
  /\ pc = "rollback"
  /\ \/ /\ ~att.expired /\ ~connected
        /\ row' = IF Seen = NoRow THEN row ELSE NoRow
        /\ UNCHANGED <<torn, spent>>
     \/ /\ att.expired \/ connected
        /\ torn' = TRUE
        /\ UNCHANGED <<row, spent>>
     \/ Spend /\ torn' = TRUE /\ UNCHANGED row
  /\ GiveUp(Fingerprint(att.spec, att.id, att.key.workspace),
            ClassifyManifestInstallError(att.error))
  /\ UNCHANGED <<world, agent, connected>>

-------------------------------------------------------------------------------
(* Delete *)

\* Mutant of DeleteStrip: a strip that fails does not stop the deletion.
DeleteStripLenient ==
  /\ pc = "delete"
  /\ entries' = Without(entries, me)
  /\ Goto("deleteRow")
  /\ IF att.spec \notin Installing \cap Removing
     THEN UNCHANGED <<agent, spent>>
     ELSE \/ Strippable /\ agent' = "none" /\ UNCHANGED spent
          \/ ~Strippable /\ UNCHANGED <<agent, spent>>
          \/ Strippable /\ Spend /\ agent' \in {agent, "some"}
  /\ UNCHANGED <<mr, world, row, connected, history>>

DeleteStrip ==
  /\ pc = "delete"
  /\ entries' = Without(entries, me)
  /\ IF att.spec \notin Installing \cap Removing
     THEN Goto("deleteRow") /\ UNCHANGED <<agent, spent>>
     ELSE \/ Strippable /\ agent' = "none" /\ Goto("deleteRow") /\ UNCHANGED spent
          \/ ~Strippable /\ Finish /\ UNCHANGED <<agent, spent>>
          \/ Strippable /\ Spend /\ Finish /\ agent' \in {agent, "some"}
  /\ UNCHANGED <<mr, world, row, connected, history>>

\* The platform keeps an agent that is connected: Retryable.
DeleteRow ==
  /\ pc = "deleteRow"
  /\ \/ /\ ~connected
        /\ row' = IF Seen = NoRow THEN row ELSE NoRow
        /\ UNCHANGED spent
     \/ connected /\ UNCHANGED <<row, spent>>
     \/ \E f \in WriteFaults : Spend /\ row' \in {row, NoRow}
  /\ Finish
  /\ UNCHANGED <<mr, world, agent, connected, entries, history>>

-------------------------------------------------------------------------------
(* Everything else *)

EditSpec ==
  /\ mr.phase = "live"
  /\ Spend
  /\ \E s \in Specs \ {mr.spec} : mr' = [mr EXCEPT !.spec = s]
  /\ failed' = Outdated(failed)
  /\ UNCHANGED <<world, platform, entries, pc, att, torn>>

\* The API server drops an MR without a finalizer at once.
RequestDelete ==
  /\ mr.phase = "live"
  /\ mr' = [mr EXCEPT !.phase = IF mr.claimed THEN "deleting" ELSE "gone"]
  /\ UNCHANGED <<world, platform, entries, pc, att, history, spent>>

RotateSecret ==
  /\ Spend
  /\ \E c \in Contents \ {secret} : secret' = c
  /\ failed' = Outdated(failed)
  /\ UNCHANGED <<mr, parent, named, ids, instance, platform, entries, pc, att, torn>>

\* An agent whose manifests are all there reaches the platform; the platform
\* notices in the end when it no longer does.
AgentConnects ==
  /\ agent = "all" /\ row # NoRow /\ ~connected
  /\ connected' = TRUE
  /\ UNCHANGED <<mr, world, row, agent, entries, pc, att, history, spent>>

AgentDisconnects ==
  /\ connected /\ (agent # "all" \/ row = NoRow)
  /\ connected' = FALSE
  /\ UNCHANGED <<mr, world, row, agent, entries, pc, att, history, spent>>

\* The KargoInstance controller creates the instance of its MR and reports it.
ParentCreates ==
  /\ parent = "silent" /\ instance = 0 /\ ids < MaxIds
  /\ instance' = ids + 1 /\ ids' = ids + 1
  /\ UNCHANGED <<mr, parent, named, secret, platform, entries, pc, att, history, spent>>

ParentReports ==
  /\ parent = "silent" /\ instance # 0 /\ parent' = "ready"
  /\ UNCHANGED <<mr, named, ids, instance, secret, platform, entries, pc, att, history,
                 spent>>

\* It names its workspace from the start or, in its status, later; an edit of its
\* spec may name it in another way.
ParentNames ==
  /\ parent # "missing" /\ named' \in Workspaces \ {named}
  /\ IF named = NoWorkspace THEN UNCHANGED spent ELSE Spend
  /\ UNCHANGED <<mr, parent, ids, instance, secret, platform, entries, pc, att, history>>

\* The KargoInstance MR is deleted, and its instance with it, or created again.
ParentChanges ==
  /\ Spend
  /\ \/ /\ parent # "missing" /\ parent' = "missing"
        /\ instance' = 0 /\ row' = NoRow /\ torn' = TRUE /\ UNCHANGED named
     \/ /\ parent = "missing" /\ parent' = "silent" /\ named' \in WorkspaceNames
        /\ UNCHANGED <<instance, row, torn>>
  /\ failed' = Outdated(failed)
  /\ UNCHANGED <<mr, ids, secret, agent, connected, entries, pc, att>>

Crash ==
  /\ Spend
  /\ entries' = {}
  /\ Finish
  /\ torn' = (torn \/ pc \in {"manifests", "install", "strip", "rollback"})
  /\ failed' = Outdated(failed)
  /\ UNCHANGED <<mr, world, platform>>

-------------------------------------------------------------------------------

Init ==
  /\ mr \in [phase : {"live"}, spec : Specs, id : {0}, workspace : WorkspaceNames,
             claimed : {FALSE}]
  /\ parent = "silent" /\ named \in WorkspaceNames /\ ids = 0 /\ instance = 0
  /\ secret \in Contents
  /\ row = NoRow /\ agent = "none" /\ connected = FALSE
  /\ entries = {}
  /\ pc = "idle" /\ att = NoAttempt
  /\ failed = NoFailure /\ torn = FALSE
  /\ spent = 0

Observe == Reconcile \/ ObserveAbsent \/ ObserveFails \/ ObserveRow
Write == BuildRequest \/ Apply \/ ApplyFails
InstallAgent ==
  FetchManifests \/ Install \/ InstallFails \/ RollbackStrip \/ Rollback
Delete == DeleteStrip \/ DeleteRow

Step == Observe \/ Write \/ InstallAgent \/ Delete

Environment ==
  \/ EditSpec \/ RequestDelete \/ RotateSecret
  \/ AgentConnects \/ AgentDisconnects
  \/ ParentCreates \/ ParentReports \/ ParentNames \/ ParentChanges \/ Crash

Next == Step \/ Environment

Spec == Init /\ [][Next]_vars

\* The workqueue returns to the MR; the KargoInstance controller does its work,
\* and the platform notices that an agent is gone.
FairSpec ==
  /\ Spec
  /\ WF_vars(Step)
  /\ WF_vars(ParentCreates) /\ WF_vars(ParentReports) /\ WF_vars(AgentDisconnects)

-------------------------------------------------------------------------------
(* Properties *)

Fingerprints ==
  [spec : Specs, id : Ids, workspace : WorkspaceNames, target : Contents \cup {NoTarget}]

TypeOK ==
  /\ mr \in [phase : {"live", "deleting", "gone"}, spec : Specs,
             id : Ids \cup {0}, workspace : WorkspaceNames, claimed : BOOLEAN]
  /\ parent \in {"missing", "silent", "ready"} /\ named \in WorkspaceNames
  /\ ids \in 0..MaxIds /\ instance \in {0, ids}
  /\ secret \in Contents
  /\ row \in Specs \cup {NoRow}
  /\ agent \in {"none", "some", "all"} /\ connected \in BOOLEAN
  /\ \A e \in entries :
       /\ \E p \in Fingerprints : e.key = Key(me, p)
       /\ e.err \in Error /\ IsTerminal(e.err)
  /\ pc \in {"idle", "get", "key", "apply", "manifests", "install", "strip",
             "rollback", "delete", "deleteRow"}
  /\ att \in IF pc = "idle" THEN {NoAttempt}
             ELSE [spec : Specs, id : Ids, deleting : BOOLEAN, creating : BOOLEAN,
                   expired : BOOLEAN, error : Error \cup {NoFailure},
                   key : Fingerprints, used : Contents \cup {NoTarget}]
  /\ failed \in [fingerprint : Fingerprints, current : BOOLEAN, steady : BOOLEAN]
               \cup {NoFailure}
  /\ torn \in BOOLEAN
  /\ spent \in Nat

\* The write about to be sent is the one on record: same spec, Secret and instance.
\* The workspace does not tell them apart on the wire, as the client fills an empty
\* one in from the instance (client.go:345), while the key hashes what was found.
SentAgain ==
  /\ pc = "apply" /\ failed # NoFailure /\ failed.current
  /\ att.spec = failed.fingerprint.spec /\ att.id = failed.fingerprint.id
  /\ Fingerprint(att.spec, att.id, NoWorkspace).target = failed.fingerprint.target

\* "Short-circuit on a cached terminal write" (kargoagent.go:319-326): a write on
\* record is not sent again while spec, Secret and instance stay as they are,
\* although its key is computed four times, from a spec Observe and apply change,
\* as long as every Observe finds the workspace that was found for the record.
NoIdenticalRetry == SentAgain => ~failed.steady

\* The same without the last condition, "until the effective payload changes"
\* (terminal_write_guard.go:47-48).  A lookup that fails, or a parent that names its
\* workspace later, gives Observe another key; the miss drops the entry and the same
\* write goes out again (kargoagent.go:671-685).
NoRetryByLookup == ~SentAgain

\* An MR that has gone leaves neither its row nor, when its manifests were to be
\* removed, its agent, unless a rollback left something or others took the row.
GoneLeavesNothing ==
  mr.phase = "gone" /\ ~torn =>
    /\ mr.claimed => row = NoRow
    /\ mr.spec \in Installing \cap Removing => agent = "none"

\* "The terminal-write key is keyed off ForProvider" (kargoagent.go:460): the
\* record of a failed install is about the kubeconfig that failed.
RecordsWhatFailed ==
  [][pc = "rollback" /\ att.used # NoTarget =>
       \A e \in entries' \ entries : e.key.fingerprint.target = att.used]_vars

\* An MR being deleted cannot go: its manifests are to be stripped from a target
\* out of reach, or the agent is left connected.
Held == \/ mr.spec \in Installing \cap Removing /\ secret \notin Usable
        \/ mr.spec \notin Installing \cap Removing /\ connected

\* A failed install or a refusal the spec is not to blame for is on record.
OnRecord == \E e \in entries : e.err.code \in {"opaque", "PermissionDenied"}

\* The user has to act: a bad spec or kubeconfig, a failed install or missing
\* permission on record, an instance that is not the one the MR was claimed for.
UserMustAct ==
  \/ mr.spec \in Refused \cup Unbuildable
  \/ OnRecord
  \/ mr.spec \in Installing /\ secret \notin Usable
  \/ instance = 0 \/ mr.id # instance

\* Once changes stop, an MR being deleted goes, also when its KargoInstance MR has
\* gone before it, and the row of a live one follows the spec for good.
Settles ==
  <>[](\/ mr.phase = "gone"
       \/ mr.phase = "deleting" /\ Held
       \/ mr.phase = "live" /\ (UserMustAct \/ row = mr.spec))

\* "the controller resolves the managed-resource reference first and falls back
\* to the direct ID" (docs/guides/lifecycle-and-reconciliation.md:61): an MR ends
\* up on the instance its KargoInstance MR reports.
FollowsReference ==
  <>[](mr.phase = "live" /\ parent = "ready" => mr.id \in {0, instance})
===============================================================================
