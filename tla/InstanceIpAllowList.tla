-------------------------- MODULE InstanceIpAllowList --------------------------
(***************************************************************************)
(* internal/controller/instanceipallowlist: one InstanceIpAllowList MR,    *)
(* which keeps the ipAllowList of an Akuity instance equal to its own list *)
(* and empties it when it is deleted.  The instance is named by            *)
(* spec.instanceId, by a reference to an Instance MR in whose status the   *)
(* ID appears, or, on stored objects, by both.                             *)
(*                                                                         *)
(* As in ClusterReconcile a reconcile works on the copy of the MR it has   *)
(* read (att) and every call it makes is a step.  The ID is resolved twice *)
(* on the way, in Observe and again in patch.                              *)
(***************************************************************************)
EXTENDS WriteKeys, Naturals

CONSTANTS
  Instances,   \* IDs of Akuity instances
  Lists,       \* allow lists
  Empty,       \* the empty one
  Rejected,    \* lists the gateway answers with InvalidArgument
  DirectId,    \* spec.instanceId, or NoId
  HasRef,      \* spec.instanceRef is set
  NoId, NoParent, NoInstance, NoAttempt, NoFailure,
  ReadFaults,  \* gateway errors of GetInstanceByID
  WriteFaults, \* gateway errors of PatchInstance
  Limit        \* bounds on faults, edits, upheavals of the parent and crashes

VARIABLES
  mr,       \* the MR as the API server has it
  parent,   \* status.atProvider.id of the Instance MR; NoId: none yet
  served,   \* served[i]: the ipAllowList of instance i
  entries,  \* the terminal-write guard's map
  pc, att, outcome,  \* as in ClusterReconcile
  failed,   \* history: the last patch that failed terminally
  wrote,    \* history: instances this MR may have given a list
  spent

vars == <<mr, parent, served, entries, pc, att, outcome, failed, wrote, spent>>

ASSUME ListValues == Empty \in Lists \ Rejected /\ Rejected \subseteq Lists
ASSUME NamesAnInstance ==
  /\ DirectId \in Instances \cup {NoId}
  /\ HasRef \in BOOLEAN
  /\ HasRef \/ DirectId # NoId
ASSUME FaultsAreErrors == ReadFaults \subseteq Error /\ WriteFaults \subseteq Error
ASSUME Sentinels ==
  {NoId, NoParent} \cap Instances = {} /\ NoInstance \notin Lists /\ NoId # NoParent
ASSUME LimitIsNat == Limit \in [{"faults", "edits", "parent", "crashes"} -> Nat]

Ids == Instances \cup {NoId}
Identity == [gvk |-> "InstanceIpAllowList", uid |-> "mr", name |-> "mr"]

\* instanceIPAllowListTerminalWriteKey
WriteKey(id, list) == Key(Identity, [id |-> id, list |-> list])

-------------------------------------------------------------------------------
(* What the steps have in common *)

Spend(kind) ==
  /\ spent[kind] < Limit[kind]
  /\ spent' = [spent EXCEPT ![kind] = @ + 1]

Fault(faults, f) == f \in faults /\ Spend("faults")

Goto(step) == pc' = step /\ UNCHANGED outcome

Finish(how) == pc' = "idle" /\ att' = NoAttempt /\ outcome' = how

\* Mutant of Resolved: the cached ID is not used.
ResolvedUncached(cached) ==
  IF DirectId # NoId THEN {DirectId} ELSE {parent} \cap Instances

\* resolveInstanceID: the IDs it may return, none if it fails.  The ID kept in
\* the status stands in for a parent that is gone while the MR is deleted.
Resolved(cached) ==
  IF DirectId # NoId THEN {DirectId}
  ELSE IF parent = NoParent /\ att.deleting THEN {cached} \cap Instances
  ELSE {parent} \cap Instances

-------------------------------------------------------------------------------
(* Observe *)

Reconcile ==
  /\ pc = "idle"
  /\ mr.phase # "gone"
  /\ ~mr.pending
  /\ att' = [list |-> mr.list, deleting |-> mr.phase = "deleting",
             cached |-> mr.cached, id |-> NoId, fresh |-> TRUE]
  /\ pc' = "guard"
  /\ outcome' = "running"
  /\ UNCHANGED <<mr, parent, served, entries, failed, wrote, spent>>

\* The Instance MR cannot be read, has gone, or has no ID yet; or the guard
\* knows the answer.
ObserveGuard ==
  /\ pc = "guard"
  /\ \/ /\ Resolved(att.cached) = {}
        /\ Finish("unresolved")
        /\ UNCHANGED <<entries, spent>>
     \/ /\ DirectId = NoId /\ Spend("faults")
        /\ Finish("unresolved")
        /\ UNCHANGED entries
     \/ \E id \in Resolved(att.cached) :
          LET key == WriteKey(id, att.list) IN
            /\ entries' = AfterSuppress(entries, key, att.deleting)
            /\ IF Suppresses(entries, key, att.deleting)
               THEN Finish("suppressed")
               ELSE Goto("get") /\ att' = [att EXCEPT !.id = id]
            /\ UNCHANGED spent
  /\ UNCHANGED <<mr, parent, served, failed, wrote>>

\* The runtime adds its finalizer before it goes on with a live MR; a stale copy
\* cannot be saved.
Claimed == att.deleting \/ mr.finalizer \/ att.fresh

\* ResourceExists is false.
Absent ==
  \/ /\ att.deleting
     /\ mr' = [mr EXCEPT !.phase = "gone"]
     /\ Finish("gone")
  \/ /\ ~att.deleting /\ att.fresh
     /\ mr' = [mr EXCEPT !.pending = TRUE, !.finalizer = TRUE]
     /\ Goto("patch")
     /\ UNCHANGED att
  \/ /\ ~att.deleting /\ ~att.fresh
     /\ Finish("failed")
     /\ UNCHANGED mr

ObserveAbsent ==
  /\ pc = "get"
  /\ served[att.id] = NoInstance
  /\ Absent
  /\ UNCHANGED <<parent, served, entries, failed, wrote, spent>>

\* GetInstanceByID tells a missing instance from a forbidden one.
ObserveFails ==
  /\ pc = "get"
  /\ \E f \in ReadFaults :
       /\ Fault(ReadFaults, f)
       /\ IF GetOutcome(f) = "provisioning"
          THEN /\ mr' = [mr EXCEPT !.finalizer = @ \/ att.fresh]
               /\ IF att.deleting THEN Goto("patch") /\ UNCHANGED att
                                  ELSE Finish("waiting")
          ELSE Finish("failed") /\ UNCHANGED mr
  /\ UNCHANGED <<parent, served, entries, failed, wrote>>

\* The status is saved when the reconcile ends, unless that update conflicts.
CacheMaySettle(m) == mr' \in {m, [m EXCEPT !.cached = att.id]}

\* The deletion fast path: an empty list is the deleted state.
\* Mutant of ObserveCleared: whatever the list, a deleted MR is done.
ObserveClearedAlways ==
  /\ pc = "get"
  /\ served[att.id] # NoInstance
  /\ att.deleting
  /\ mr' = [mr EXCEPT !.phase = "gone"]
  /\ Finish("gone")
  /\ UNCHANGED <<parent, served, entries, failed, wrote, spent>>

ObserveCleared ==
  /\ pc = "get"
  /\ served[att.id] = Empty
  /\ att.deleting
  /\ mr' = [mr EXCEPT !.phase = "gone"]
  /\ Finish("gone")
  /\ UNCHANGED <<parent, served, entries, failed, wrote, spent>>

ObserveList ==
  /\ pc = "get"
  /\ served[att.id] # NoInstance
  /\ ~(att.deleting /\ served[att.id] = Empty)
  /\ LET key == WriteKey(att.id, att.list)
         drifted == served[att.id] # att.list
         suppressed == drifted /\ Suppresses(entries, key, att.deleting)
     IN /\ entries' = IF drifted THEN AfterSuppress(entries, key, att.deleting)
                                 ELSE Without(entries, Identity)
        /\ \/ suppressed /\ CacheMaySettle(mr) /\ Finish("suppressed")
           \/ ~suppressed /\ ~Claimed /\ Finish("failed") /\ UNCHANGED mr
           \/ /\ ~suppressed /\ Claimed
              /\ CacheMaySettle([mr EXCEPT !.finalizer = TRUE])
              /\ IF drifted \/ att.deleting
                 THEN Goto("patch") /\ att' = [att EXCEPT !.cached = att.id]
                 ELSE Finish("synced")
  /\ UNCHANGED <<parent, served, failed, wrote, spent>>

-------------------------------------------------------------------------------
(* Create, Update and Delete: patch *)

\* patch returns: a Create lifts external-create-pending; only a live MR's
\* write is recorded, and Delete has cleared the guard before.
Returns(id, err, how) ==
  /\ entries' = IF att.deleting THEN Without(entries, Identity)
                ELSE Recorded(entries, WriteKey(id, att.list), err)
  /\ failed' = IF IsTerminal(err) /\ ~att.deleting
               THEN [id |-> id, list |-> att.list, current |-> TRUE] ELSE failed
  /\ mr' = [mr EXCEPT !.pending = FALSE]
  /\ Finish(how)

Desired == IF att.deleting THEN Empty ELSE att.list

PatchUnresolved ==
  /\ pc = "patch"
  /\ \/ Resolved(att.cached) = {} /\ UNCHANGED spent
     \/ DirectId = NoId /\ Spend("faults")
  /\ Returns(NoId, Opaque({}), "unresolved")
  /\ UNCHANGED <<parent, served, wrote>>

Patch ==
  /\ pc = "patch"
  /\ \E id \in Resolved(att.cached) :
       /\ served[id] # NoInstance
       /\ Desired \notin Rejected
       /\ served' = [served EXCEPT ![id] = Desired]
       /\ wrote' = wrote \cup {id}
  /\ entries' = Without(entries, Identity)
  /\ mr' = [mr EXCEPT !.pending = FALSE]
  /\ Finish(IF att.deleting THEN "cleared" ELSE "patched")
  /\ UNCHANGED <<parent, failed, spent>>

\* The instance is gone, the list is bad, or the call fails; the patch may have
\* been applied all the same when only the reply is lost.
PatchFails ==
  /\ pc = "patch"
  /\ \E id \in Resolved(att.cached) :
       \/ /\ served[id] = NoInstance
          /\ Returns(id, ClassifyApplyError(GatewayError("NotFound", {})), "failed")
          /\ UNCHANGED <<served, wrote, spent>>
       \/ /\ served[id] # NoInstance /\ Desired \in Rejected
          /\ Returns(id, ClassifyApplyError(GatewayError("InvalidArgument", {})), "failed")
          /\ UNCHANGED <<served, wrote, spent>>
       \/ \E f \in WriteFaults :
            /\ Fault(WriteFaults, f)
            /\ Returns(id, ClassifyApplyError(f), "failed")
            /\ \/ UNCHANGED <<served, wrote>>
               \/ /\ IsRetryable(f) /\ served[id] # NoInstance /\ Desired \notin Rejected
                  /\ served' = [served EXCEPT ![id] = Desired]
                  /\ wrote' = wrote \cup {id}
  /\ UNCHANGED parent

-------------------------------------------------------------------------------
(* Everything else *)

Stale == att' = IF pc \in {"guard", "get"} THEN [att EXCEPT !.fresh = FALSE] ELSE att

Outdated == IF failed = NoFailure THEN failed ELSE [failed EXCEPT !.current = FALSE]

EditList ==
  /\ mr.phase = "live"
  /\ Spend("edits")
  /\ \E l \in Lists \ {mr.list} : mr' = [mr EXCEPT !.list = l]
  /\ Stale
  /\ failed' = Outdated
  /\ UNCHANGED <<parent, served, entries, pc, outcome, wrote>>

\* An object without finalizers goes at once.
RequestDelete ==
  /\ mr.phase = "live"
  /\ mr' = [mr EXCEPT !.phase = IF mr.finalizer THEN "deleting" ELSE "gone"]
  /\ Stale
  /\ UNCHANGED <<parent, served, entries, pc, outcome, failed, wrote, spent>>

\* The Instance controller reports the ID of the instance it has created.
ParentReports ==
  /\ HasRef /\ parent = NoId
  /\ \E i \in Instances :
       /\ parent' = i
       /\ served' = [served EXCEPT ![i] = IF @ = NoInstance THEN Empty ELSE @]
  /\ UNCHANGED <<mr, entries, pc, att, outcome, failed, wrote, spent>>

\* The Instance MR is deleted, with or without its instance, or created again.
ParentChanges ==
  /\ HasRef
  /\ Spend("parent")
  /\ \/ parent # NoParent /\ parent' = NoParent /\ UNCHANGED served
     \/ /\ parent \in Instances
        /\ parent' = NoParent
        /\ served' = [served EXCEPT ![parent] = NoInstance]
     \/ parent = NoParent /\ parent' = NoId /\ UNCHANGED served
  /\ UNCHANGED <<mr, entries, pc, att, outcome, failed, wrote>>

Crash ==
  /\ Spend("crashes")
  /\ entries' = {}
  /\ pc' = "idle"
  /\ att' = NoAttempt
  /\ outcome' = IF pc = "idle" THEN outcome ELSE "crashed"
  /\ failed' = Outdated
  /\ UNCHANGED <<mr, parent, served, wrote>>

OperatorResumes ==
  /\ pc = "idle"
  /\ mr.pending
  /\ mr' = [mr EXCEPT !.pending = FALSE]
  /\ UNCHANGED <<parent, served, entries, pc, att, outcome, failed, wrote, spent>>

-------------------------------------------------------------------------------

Init ==
  /\ mr \in [phase : {"live"}, list : Lists, cached : {NoId},
             pending : {FALSE}, finalizer : {FALSE}]
  /\ parent = NoId
  /\ served = [i \in Instances |-> IF i = DirectId THEN Empty ELSE NoInstance]
  /\ entries = {}
  /\ pc = "idle"
  /\ att = NoAttempt
  /\ outcome = "new"
  /\ failed = NoFailure
  /\ wrote = {}
  /\ spent = [kind \in {"faults", "edits", "parent", "crashes"} |-> 0]

Step ==
  \/ Reconcile \/ ObserveGuard \/ ObserveAbsent \/ ObserveFails
  \/ ObserveCleared \/ ObserveList
  \/ PatchUnresolved \/ Patch \/ PatchFails

Environment ==
  EditList \/ RequestDelete \/ ParentReports \/ ParentChanges \/ Crash \/ OperatorResumes

Next == Step \/ Environment

Spec == Init /\ [][Next]_vars

\* The workqueue returns to the MR; the Instance controller does its part.
FairSpec == Spec /\ WF_vars(Step) /\ WF_vars(ParentReports)

-------------------------------------------------------------------------------
(* Properties *)

TypeOK ==
  /\ mr \in [phase : {"live", "deleting", "gone"}, list : Lists, cached : Ids,
             pending : BOOLEAN, finalizer : BOOLEAN]
  /\ parent \in Ids \cup {NoParent}
  /\ served \in [Instances -> Lists \cup {NoInstance}]
  /\ \A e \in entries :
       /\ e.key \in {WriteKey(id, list) : id \in Instances, list \in Lists}
       /\ e.err \in Error /\ IsTerminal(e.err)
  /\ pc \in {"idle", "guard", "get", "patch"}
  /\ att \in IF pc = "idle" THEN {NoAttempt}
             ELSE [list : Lists, deleting : BOOLEAN, cached : Ids, id : Ids,
                   fresh : BOOLEAN]
  /\ failed \in [id : Instances, list : Lists, current : BOOLEAN] \cup {NoFailure}
  /\ wrote \subseteq Instances
  /\ spent \in [{"faults", "edits", "parent", "crashes"} -> Nat]

\* A list the gateway has rejected is not sent to the same instance again until
\* it is edited, although the ID is resolved afresh for every key
\* (instanceipallowlist.go:99-103).
NoIdenticalRetry ==
  pc = "patch" /\ ~att.deleting /\ failed # NoFailure /\ failed.current
  => ~(failed.list = att.list /\ failed.id \in Resolved(att.cached))

\* When the MR is gone, no instance it wrote to keeps a list: the parent may be
\* removed at any time, before, between or after the two resolutions.
GoneClearsList ==
  mr.phase = "gone" => \A i \in wrote : served[i] \in {Empty, NoInstance}

\* The guard keeps nothing of an MR that is gone.
GuardForgetsGone == mr.phase = "gone" => entries = {}

\* "the controller resolves the reference first"
\* (docs/resources/instanceipallowlist.md:33).
ReferenceFirst ==
  [][\A i \in Instances :
       HasRef /\ parent \in Instances /\ served'[i] # served[i] /\ pc = "patch"
       => i = parent]_vars

\* "so delete can clear the remote allow list even if the parent Instance
\* resource has already been removed" (docs/resources/instanceipallowlist.md:35).
\* It cannot when the parent went before the status had the ID: Settles excuses
\* that, DeletionCompletes does not and is violated.
DeletionCompletes == mr.phase = "deleting" ~> mr.phase = "gone"

\* Once edits, faults and the parent's changes stop, a deleted MR goes away if its
\* status holds the ID, and the instance of a live one serves the list for good:
\* unless the gateway has rejected this very write, the parent is missing, or a
\* Create was cut short and waits for the operator.
RejectedAsItIs == failed # NoFailure /\ failed.list = mr.list /\ failed.id = parent
Served == parent \in Instances /\ served[parent] = mr.list
Settles ==
  <>[](\/ mr.phase = "gone" \/ mr.pending
       \/ mr.phase = "deleting" /\ mr.cached = NoId
       \/ mr.phase = "live" /\ (RejectedAsItIs \/ parent = NoParent \/ Served))
===============================================================================
