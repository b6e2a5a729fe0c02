--------------------------- MODULE DefaultShardAgent ---------------------------
(***************************************************************************)
(* internal/controller/kargodefaultshardagent: KargoDefaultShardAgent MRs  *)
(* that pin the default shard agent of one Kargo instance, and empty the   *)
(* pin when they are deleted.  Nothing stops two MRs from naming the same  *)
(* instance; their reconciles interleave.                                  *)
(*                                                                         *)
(* The MR names an agent, the platform stores the agent's opaque ID, so a  *)
(* name is resolved three times in a reconcile: for the guard, for the     *)
(* drift and for the patch.  An agent created again under its name gets a  *)
(* new ID.  The instance itself is found as in InstanceIpAllowList: by a   *)
(* direct ID, or by a reference and, while deleting, the ID in the status. *)
(* The finalizer and the annotations of the runtime, modelled in           *)
(* ClusterReconcile and InstanceIpAllowList, are left out: an MR here has  *)
(* been seen by the runtime before, and no Create waits for an operator.   *)
(***************************************************************************)
EXTENDS WriteKeys, Naturals

CONSTANTS
  Mrs,         \* the MRs
  Agents,      \* agent names
  Starts,      \* [Mrs -> Agents]: the agents the MRs name at first
  MaxIds,      \* how many agents are ever created: bounds the IDs
  Rejected,    \* IDs the gateway answers with InvalidArgument
  ByRef,       \* the instance is named by kargoInstanceRef
  NoPin, NoInstance, NoAttempt,
  ReadFaults,  \* gateway errors of the reads
  WriteFaults, \* gateway errors of PatchKargoInstance
  Limit        \* bound on what may go wrong or change: see Spend

VARIABLES
  mr,       \* mr[m]: the MR as the API server has it
  parent,   \* the KargoInstance MR: "missing", "silent" (no ID yet) or "ready"
  agents,   \* agents[n]: the ID of the agent named n, 0 if there is none
  created,  \* how many agents there have been: the last ID
  pin,      \* defaultShardAgent of the Kargo instance
  entries,  \* the terminal-write guard's map
  pc, att,  \* as in ClusterReconcile, for each MR
  failed,   \* history: the ID m's last patch was rejected for, and whether the
            \* MR still asks for it and has not found it in place since
  pinner,   \* history: the MRs the present pin was sent by
  orphaned, \* history: the MRs that went because their agent was missing
  spent

vars ==
  <<mr, parent, agents, created, pin, entries, pc, att, failed, pinner, orphaned,
    spent>>

outside == <<parent, agents, created, pin, pinner>>

Ids == 1..MaxIds

ASSUME IdsAreNat == MaxIds \in Nat /\ Rejected \subseteq Ids /\ ByRef \in BOOLEAN
ASSUME FaultsAreErrors == ReadFaults \subseteq Error /\ WriteFaults \subseteq Error
ASSUME Sentinels == {NoPin, NoInstance} \cap (Ids \cup {0}) = {} /\ NoPin # NoInstance
ASSUME StartsAreAgents == Starts \subseteq [Mrs -> Agents]
ASSUME LimitIsNat == Limit \in Nat

NoFailure == [id |-> 0, current |-> FALSE]

Identity(m) == [gvk |-> "KargoDefaultShardAgent", uid |-> m, name |-> m]

\* kargoDefaultShardAgentTerminalWriteKey; there is one Kargo instance.
WriteKey(m, id) == Key(Identity(m), id)

-------------------------------------------------------------------------------
(* What the steps have in common *)

\* Faults, edits, changes of the parent and crashes share one bound.
Spend == spent < Limit /\ spent' = spent + 1

Goto(m, step) == pc' = [pc EXCEPT ![m] = step]

Finish(m) ==
  /\ pc' = [pc EXCEPT ![m] = "idle"]
  /\ att' = [att EXCEPT ![m] = NoAttempt]

\* Mutant of Resolves: the cached ID is not used.
ResolvesUncached(a) == ~ByRef \/ parent = "ready"

\* resolveKargoID succeeds.  The ID kept in the status stands in for a parent
\* that is gone while the MR is deleted.
Resolves(a) ==
  \/ ~ByRef
  \/ parent = "ready"
  \/ parent = "missing" /\ a.deleting /\ a.cached

\* resolveDesiredAgentID; 0 is reason.NotFound.
AgentId(a) == IF pin = NoInstance THEN 0 ELSE agents[a.agent]

-------------------------------------------------------------------------------
(* Observe *)

\* The MR as a reconcile that starts now has it.
Copy(m) ==
  [agent |-> mr[m].agent, deleting |-> mr[m].phase = "deleting",
   cached |-> mr[m].cached, value |-> NoPin]

Remembers(m) == Without(entries, Identity(m)) # entries

\* The start of Observe; what it reads is its own but for the MR, which may
\* change from here on.  The guard is asked only when it holds something of this
\* MR and the agent's ID is known; otherwise Observe goes on.
Reconcile(m) ==
  /\ pc[m] = "idle" /\ mr[m].phase # "gone"
  /\ Resolves(Copy(m))
  /\ LET id == AgentId(Copy(m))
         key == WriteKey(m, id)
         asks == Remembers(m) /\ id # 0
         suppressed == asks /\ Suppresses(entries, key, Copy(m).deleting)
         after == IF asks THEN AfterSuppress(entries, key, Copy(m).deleting) ELSE entries
     IN \/ entries' = after /\ ~suppressed /\ UNCHANGED spent
        \/ UNCHANGED entries /\ Remembers(m) /\ Spend
  /\ Goto(m, "get")
  /\ att' = [att EXCEPT ![m] = Copy(m)]
  /\ UNCHANGED <<mr, outside, failed, orphaned>>

\* ResourceExists is false: the runtime drops the finalizer, or creates.
Absent(m) ==
  \/ /\ att[m].deleting
     /\ mr' = [mr EXCEPT ![m].phase = "gone"]
     /\ Finish(m)
  \/ /\ ~att[m].deleting
     /\ Goto(m, "patch")
     /\ UNCHANGED <<mr, att>>

\* GetKargoInstanceByID: the pin is read here and compared later.
ObserveInstance(m) ==
  /\ pc[m] = "get"
  /\ \/ pin = NoInstance /\ Absent(m)
     \/ /\ pin # NoInstance
        /\ att' = [att EXCEPT ![m].value = pin]
        /\ Goto(m, "agent")
        /\ UNCHANGED mr
  /\ UNCHANGED <<outside, entries, failed, orphaned, spent>>

ObserveFails(m) ==
  /\ pc[m] \in {"get", "agent"}
  /\ \E f \in ReadFaults :
       /\ Spend
       /\ IF GetOutcome(f) = "provisioning" /\ pc[m] = "get"
          THEN IF att[m].deleting THEN Goto(m, "patch") /\ UNCHANGED att
                                  ELSE Finish(m)
          ELSE Finish(m)
  /\ UNCHANGED <<mr, outside, entries, failed, orphaned>>

\* The agent does not exist: so, says Observe, neither does the pin, whatever
\* the instance holds.
ObserveNoAgent(m) ==
  /\ pc[m] = "agent"
  /\ AgentId(att[m]) = 0
  /\ Absent(m)
  /\ orphaned' = IF att[m].deleting THEN orphaned \cup {m} ELSE orphaned
  /\ UNCHANGED <<outside, entries, failed, spent>>

\* The status is saved when the reconcile ends, unless that update conflicts.
CacheMaySettle(m) == mr' \in {mr, [mr EXCEPT ![m].cached = TRUE]}

\* Mutant of ObserveCleared: whatever the pin, a deleted MR is done.
ObserveClearedAlways(m) ==
  /\ pc[m] = "agent"
  /\ AgentId(att[m]) # 0
  /\ att[m].deleting
  /\ mr' = [mr EXCEPT ![m].phase = "gone"]
  /\ Finish(m)
  /\ UNCHANGED <<outside, entries, failed, orphaned, spent>>

\* The deletion fast path: an empty pin is the deleted state.
ObserveCleared(m) ==
  /\ pc[m] = "agent"
  /\ AgentId(att[m]) # 0
  /\ att[m].deleting /\ att[m].value = NoPin
  /\ mr' = [mr EXCEPT ![m].phase = "gone"]
  /\ Finish(m)
  /\ UNCHANGED <<outside, entries, failed, orphaned, spent>>

ObservePin(m) ==
  /\ pc[m] = "agent"
  /\ AgentId(att[m]) # 0
  /\ ~(att[m].deleting /\ att[m].value = NoPin)
  /\ LET key == WriteKey(m, AgentId(att[m]))
         drifted == att[m].value # AgentId(att[m])
         suppressed == drifted /\ Suppresses(entries, key, att[m].deleting)
     IN /\ entries' = IF drifted THEN AfterSuppress(entries, key, att[m].deleting)
                                 ELSE Without(entries, Identity(m))
        /\ CacheMaySettle(m)
        /\ IF ~suppressed /\ (drifted \/ att[m].deleting)
           THEN Goto(m, "patch") /\ att' = [att EXCEPT ![m].cached = TRUE]
           ELSE Finish(m)
        /\ failed' = IF drifted THEN failed ELSE [failed EXCEPT ![m].current = FALSE]
  /\ UNCHANGED <<outside, orphaned, spent>>

-------------------------------------------------------------------------------
(* Create, Update and Delete: patch *)

\* patch returns; Delete has cleared the guard before.
Returns(m, after) ==
  /\ entries' = IF att[m].deleting THEN Without(entries, Identity(m)) ELSE after
  /\ Finish(m)

\* The instance or the agent is not found: nothing is sent or recorded.
PatchUnresolved(m) ==
  /\ pc[m] = "patch"
  /\ \/ ~Resolves(att[m]) /\ UNCHANGED spent
     \/ ByRef /\ Spend
     \/ /\ Resolves(att[m]) /\ ~att[m].deleting
        /\ \/ AgentId(att[m]) = 0 /\ UNCHANGED spent
           \/ ReadFaults # {} /\ Spend
  /\ Returns(m, entries)
  /\ UNCHANGED <<mr, outside, failed, orphaned>>

\* The value is fixed here: Delete sends the empty one.
PatchResolved(m) ==
  /\ pc[m] = "patch"
  /\ Resolves(att[m])
  /\ att[m].deleting \/ AgentId(att[m]) # 0
  /\ att' = [att EXCEPT ![m].value = IF att[m].deleting THEN NoPin ELSE AgentId(att[m])]
  /\ Goto(m, "send")
  /\ UNCHANGED <<outside, mr, entries, failed, orphaned, spent>>

\* The gateway takes a pin it can resolve.
Acceptable(id) ==
  id = NoPin \/ (id \notin Rejected /\ \E n \in Agents : agents[n] = id)

Pinned(m) ==
  /\ pin # NoInstance /\ Acceptable(att[m].value)
  /\ pin' = att[m].value
  /\ pinner' = IF att[m].value = NoPin THEN {}
               ELSE IF att[m].value = pin THEN pinner \cup {m} ELSE {m}

Patch(m) ==
  /\ pc[m] = "send"
  /\ Pinned(m)
  /\ Returns(m, Without(entries, Identity(m)))
  /\ UNCHANGED <<mr, parent, agents, created, failed, orphaned, spent>>

\* Mutant of Failed: the write is recorded under the MR's name for the agent.
FailedUnkeyed(m, err) ==
  /\ Returns(m, Recorded(entries, WriteKey(m, 0), err))
  /\ failed' = IF IsTerminal(err) /\ ~att[m].deleting
               THEN [failed EXCEPT ![m] = [id |-> att[m].value, current |-> TRUE]]
               ELSE failed

Failed(m, err) ==
  /\ Returns(m, Recorded(entries, WriteKey(m, att[m].value), err))
  /\ failed' = IF IsTerminal(err) /\ ~att[m].deleting
               THEN [failed EXCEPT ![m] = [id |-> att[m].value, current |-> TRUE]]
               ELSE failed

\* The instance is gone, the ID is bad, or the call fails; the patch may have
\* been applied all the same when only the reply is lost.
PatchFails(m) ==
  /\ pc[m] = "send"
  /\ \/ /\ pin = NoInstance
        /\ Failed(m, AsNotFound(Opaque({})))
        /\ UNCHANGED <<pin, pinner, spent>>
     \/ /\ pin # NoInstance /\ ~Acceptable(att[m].value)
        /\ Failed(m, ClassifyApplyError(GatewayError("InvalidArgument", {})))
        /\ UNCHANGED <<pin, pinner, spent>>
     \/ \E f \in WriteFaults :
          /\ Spend
          /\ Failed(m, ClassifyApplyError(f))
          /\ \/ UNCHANGED <<pin, pinner>>
             \/ IsRetryable(f) /\ Pinned(m)
  /\ UNCHANGED <<mr, parent, agents, created, orphaned>>

-------------------------------------------------------------------------------
(* Everything else *)

EditAgent(m) ==
  /\ mr[m].phase = "live"
  /\ Spend
  /\ \E n \in Agents \ {mr[m].agent} : mr' = [mr EXCEPT ![m].agent = n]
  /\ failed' = [failed EXCEPT ![m].current = FALSE]
  /\ UNCHANGED <<outside, entries, pc, att, orphaned>>

RequestDelete(m) ==
  /\ mr[m].phase = "live"
  /\ mr' = [mr EXCEPT ![m].phase = "deleting"]
  /\ UNCHANGED <<outside, entries, pc, att, failed, orphaned, spent>>

\* Agents come and go on their own: a KargoAgent MR, or a user of the platform.
AgentAppears ==
  /\ pin # NoInstance /\ created < MaxIds
  /\ \E n \in Agents :
       /\ agents[n] = 0
       /\ agents' = [agents EXCEPT ![n] = created + 1]
  /\ created' = created + 1
  /\ UNCHANGED <<mr, parent, pin, entries, pc, att, failed, pinner, orphaned, spent>>

AgentVanishes ==
  /\ \E n \in Agents : agents[n] # 0 /\ agents' = [agents EXCEPT ![n] = 0]
  /\ UNCHANGED <<mr, parent, created, pin, entries, pc, att, failed, pinner, orphaned, spent>>

ParentReports ==
  /\ parent = "silent" /\ parent' = "ready"
  /\ UNCHANGED <<mr, agents, created, pin, entries, pc, att, failed, pinner, orphaned, spent>>

\* The KargoInstance MR is deleted, with or without its instance, or created
\* again over an instance that is still there.
ParentChanges ==
  /\ ByRef
  /\ Spend
  /\ \/ /\ parent # "missing" /\ parent' = "missing"
        /\ \/ UNCHANGED <<agents, pin, pinner>>
           \/ agents' = [n \in Agents |-> 0] /\ pin' = NoInstance /\ pinner' = {}
     \/ /\ parent = "missing" /\ parent' = "silent" /\ pin # NoInstance
        /\ UNCHANGED <<agents, pin, pinner>>
  /\ UNCHANGED <<mr, created, entries, pc, att, failed, orphaned>>

Crash ==
  /\ Spend
  /\ entries' = {}
  /\ pc' = [m \in Mrs |-> "idle"]
  /\ att' = [m \in Mrs |-> NoAttempt]
  /\ failed' = [m \in Mrs |-> NoFailure]
  /\ UNCHANGED <<mr, outside, orphaned>>

-------------------------------------------------------------------------------

Init ==
  /\ \E s \in Starts : mr = [m \in Mrs |-> [phase |-> "live", agent |-> s[m], cached |-> FALSE]]
  /\ parent = IF ByRef THEN "silent" ELSE "ready"
  /\ agents = [n \in Agents |-> 0]
  /\ created = 0
  /\ pin = NoPin
  /\ entries = {}
  /\ pc = [m \in Mrs |-> "idle"]
  /\ att = [m \in Mrs |-> NoAttempt]
  /\ orphaned = {}
  /\ failed = [m \in Mrs |-> NoFailure]
  /\ pinner = {}
  /\ spent = 0

Step(m) ==
  \/ Reconcile(m) \/ ObserveInstance(m) \/ ObserveFails(m)
  \/ ObserveNoAgent(m) \/ ObserveCleared(m) \/ ObservePin(m)
  \/ PatchUnresolved(m) \/ PatchResolved(m) \/ Patch(m) \/ PatchFails(m)

Environment ==
  \/ \E m \in Mrs : EditAgent(m) \/ RequestDelete(m)
  \/ AgentAppears \/ AgentVanishes \/ ParentReports \/ ParentChanges \/ Crash

Next == (\E m \in Mrs : Step(m)) \/ Environment

Spec == Init /\ [][Next]_vars

\* The workqueue returns to every MR; the KargoInstance controller reports.
FairSpec == Spec /\ (\A m \in Mrs : WF_vars(Step(m))) /\ WF_vars(ParentReports)

-------------------------------------------------------------------------------
(* Properties *)

Attempts ==
  [agent : Agents, deleting : BOOLEAN, cached : BOOLEAN, value : Ids \cup {NoPin}]

TypeOK ==
  /\ mr \in [Mrs -> [phase : {"live", "deleting", "gone"}, agent : Agents,
                     cached : BOOLEAN]]
  /\ parent \in {"missing", "silent", "ready"}
  /\ agents \in [Agents -> Ids \cup {0}]
  /\ created \in 0..MaxIds
  /\ pin \in Ids \cup {NoPin, NoInstance}
  /\ \A e \in entries :
       /\ \E m \in Mrs, id \in Ids : e.key = WriteKey(m, id)
       /\ e.err \in Error /\ IsTerminal(e.err)
  /\ pc \in [Mrs -> {"idle", "get", "agent", "patch", "send"}]
  /\ att \in [Mrs -> Attempts \cup {NoAttempt}]
  /\ \A m \in Mrs : IF pc[m] = "idle" THEN att[m] = NoAttempt ELSE att[m] \in Attempts
  /\ failed \in [Mrs -> [id : Ids \cup {0}, current : BOOLEAN]]
  /\ pinner \subseteq Mrs /\ orphaned \subseteq Mrs
  /\ spent \in Nat

\* An ID the gateway has rejected is not sent again until the MR is edited or has
\* found it in place, pinned by a sibling: the name is resolved afresh for the guard,
\* the drift and the patch, and the agent may come and go in between
\* (kargodefaultshardagent.go:95-102).
NoIdenticalRetry ==
  \A m \in Mrs :
    pc[m] = "send" /\ ~att[m].deleting /\ failed[m].current
    => att[m].value # failed[m].id

\* An MR that has gone for any reason but a missing agent leaves no pin it set:
\* siblings may pin and clear between its reads and its writes.
GoneClearsPin ==
  \A m \in Mrs :
    mr[m].phase = "gone" /\ m \notin orphaned => m \notin pinner

\* "cached on first successful Observe so Delete can clear the remote field"
\* (kargodefaultshardagent_types.go:65-68): an MR that is gone has set no pin
\* that is still in force.
GoneLeavesNoPin == \A m \in Mrs : mr[m].phase = "gone" => m \notin pinner

Others(m, phases) == {o \in Mrs \ {m} : mr[o].phase \in phases}

\* The instance has the agent of m pinned, or someone has to act: the gateway has
\* rejected this very pin, the agent or the parent is missing, or m has siblings.
Settled(m) ==
  \/ Others(m, {"live", "deleting"}) # {}
  \/ parent # "ready" \/ pin = NoInstance
  \/ agents[mr[m].agent] \in {0, failed[m].id}
  \/ pin = agents[mr[m].agent]

\* Once the changes stop, the only MR of an instance has its agent pinned for good,
\* and an MR being deleted with the ID in its status goes, whatever happens to the
\* parent and the agents, unless a live sibling keeps setting the pin it clears.
Settles ==
  <>[](\A m \in Mrs :
         \/ mr[m].phase = "gone"
         \/ mr[m].phase = "live" /\ Settled(m)
         \/ mr[m].phase = "deleting" /\ (mr[m].cached => Others(m, {"live"}) # {}))
===============================================================================
