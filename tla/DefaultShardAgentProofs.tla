------------------------ MODULE DefaultShardAgentProofs ------------------------
(***************************************************************************)
(* Proofs about KargoDefaultShardAgent MRs that share a Kargo instance,    *)
(* for every set of MRs, agents and IDs, either way to name the instance,  *)
(* and any faults.                                                         *)
(***************************************************************************)
EXTENDS DefaultShardAgent, GuardLemmas

-------------------------------------------------------------------------------
(* Type correctness *)

EntriesOK ==
  \A e \in entries :
    /\ \E m \in Mrs, id \in Ids : e.key = WriteKey(m, id)
    /\ e.err \in Error /\ IsTerminal(e.err)

ControlOK ==
  /\ pc \in [Mrs -> {"idle", "get", "agent", "patch", "send"}]
  /\ att \in [Mrs -> Attempts \cup {NoAttempt}]
  /\ \A m \in Mrs : IF pc[m] = "idle" THEN att[m] = NoAttempt ELSE att[m] \in Attempts

ManagedOK ==
  mr \in [Mrs -> [phase : {"live", "deleting", "gone"}, agent : Agents, cached : BOOLEAN]]

OutsideOK ==
  /\ parent \in {"missing", "silent", "ready"}
  /\ agents \in [Agents -> Ids \cup {0}]
  /\ created \in 0..MaxIds
  /\ pin \in Ids \cup {NoPin, NoInstance}
  /\ pinner \subseteq Mrs

Failures == [Mrs -> [id : Ids \cup {0}, current : BOOLEAN]]

LEMMA TypeParts ==
  TypeOK <=> /\ ManagedOK /\ OutsideOK /\ EntriesOK /\ ControlOK
             /\ failed \in Failures /\ orphaned \subseteq Mrs /\ spent \in Nat
  BY DEF TypeOK, ManagedOK, OutsideOK, EntriesOK, ControlOK, Failures

\* What is sent is the empty value of a deletion or the ID of an agent there has been.
SendOK(m) ==
  pc[m] = "send" =>
    /\ att[m].value = NoPin <=> att[m].deleting
    /\ ~att[m].deleting => att[m].value \in 1..created

LEMMA FinishType ==
  ASSUME ControlOK, NEW m \in Mrs, Finish(m)
  PROVE  ControlOK' /\ pc'[m] = "idle"
  BY DEF ControlOK, Finish

\* A reconcile goes on with the next call and a typed copy.
LEMMA GotoType ==
  ASSUME ControlOK, NEW m \in Mrs, NEW step \in {"get", "agent", "patch", "send"},
         Goto(m, step), NEW a \in Attempts, att' = [att EXCEPT ![m] = a]
  PROVE  ControlOK' /\ pc'[m] = step /\ att'[m] = a
  BY DEF ControlOK, Goto

LEMMA StayType ==
  ASSUME ControlOK, NEW m \in Mrs, NEW step \in {"get", "agent", "patch", "send"},
         Goto(m, step), att' = att, pc[m] # "idle"
  PROVE  ControlOK' /\ pc'[m] = step
  BY DEF ControlOK, Goto

LEMMA AbsentType ==
  ASSUME ControlOK, ManagedOK, NEW m \in Mrs, pc[m] # "idle", Absent(m)
  PROVE  /\ ControlOK' /\ ManagedOK'
         /\ \/ att[m].deleting /\ pc'[m] = "idle" /\ mr'[m].phase = "gone"
            \/ ~att[m].deleting /\ pc'[m] = "patch" /\ UNCHANGED <<mr, att>>
  <1>1. CASE att[m].deleting /\ mr' = [mr EXCEPT ![m].phase = "gone"] /\ Finish(m)
    BY <1>1, FinishType DEF ManagedOK
  <1>2. CASE ~att[m].deleting /\ Goto(m, "patch") /\ UNCHANGED <<mr, att>>
    BY <1>2, StayType DEF ManagedOK
  <1> QED BY <1>1, <1>2 DEF Absent

LEMMA AgentIdType ==
  ASSUME TypeOK, NEW a \in Attempts
  PROVE  /\ AgentId(a) \in Ids \cup {0}
         /\ AgentId(a) # 0 => AgentId(a) = agents[a.agent]
  BY DEF TypeOK, AgentId, Attempts

\* The keys of different MRs never meet.
LEMMA KeysApart ==
  ASSUME NEW m \in Mrs, NEW n \in Mrs, NEW p, NEW q
  PROVE  /\ SameResource(WriteKey(m, p), Identity(n)) <=> m = n
         /\ SameResource(WriteKey(m, p), WriteKey(n, q)) <=> m = n
         /\ WriteKey(m, p).fingerprint = p
         /\ SamePayload(WriteKey(m, p), WriteKey(m, p))
  BY DEF SameResource, SamePayload, WriteKey, Key, Identity

\* What a step of m may make of the guard's map.
Swept(m) ==
  \/ UNCHANGED entries
  \/ entries' = Without(entries, Identity(m))
  \/ \E id, deleting : entries' = AfterSuppress(entries, WriteKey(m, id), deleting)

Recorded1(m) ==
  \E err \in Error :
    ~att[m].deleting /\ entries' = Recorded(entries, WriteKey(m, att[m].value), err)

LEMMA StepEntries ==
  ASSUME TypeOK, NEW m \in Mrs, Step(m)
  PROVE  Swept(m) \/ (pc[m] = "send" /\ Recorded1(m))
  <1>1. CASE Reconcile(m)
    BY <1>1 DEF Reconcile, Swept
  <1>2. CASE ObserveInstance(m) \/ ObserveFails(m) \/ ObserveNoAgent(m) \/ ObserveCleared(m)
             \/ PatchResolved(m)
    BY <1>2 DEF ObserveInstance, ObserveFails, ObserveNoAgent, ObserveCleared, PatchResolved,
                Swept
  <1>3. CASE ObservePin(m)
    BY <1>3 DEF ObservePin, Swept
  <1>4. CASE PatchUnresolved(m) \/ Patch(m)
    BY <1>4 DEF PatchUnresolved, Patch, Returns, Swept
  <1>5. CASE PatchFails(m)
    <2>1. PICK err \in Error : Failed(m, err)
      BY <1>5, BareErrors, ClassifiedErrors, FaultsAreErrors DEF PatchFails, Codes
    <2> QED BY <1>5, <2>1 DEF PatchFails, Failed, Returns, Swept, Recorded1
  <1> QED BY <1>1, <1>2, <1>3, <1>4, <1>5 DEF Step

LEMMA StepType ==
  ASSUME TypeOK, NEW m \in Mrs, SendOK(m), Step(m)
  PROVE  TypeOK'
  <1>1. /\ ManagedOK /\ OutsideOK /\ EntriesOK /\ ControlOK
        /\ failed \in Failures /\ orphaned \subseteq Mrs /\ spent \in Nat
    BY TypeParts
  <1>2. pc[m] # "idle" => att[m] \in Attempts
    BY <1>1 DEF ControlOK
  <1>3. spent' = spent \/ spent' = spent + 1
    BY DEF Step, Reconcile, ObserveInstance, ObserveFails, ObserveNoAgent, ObserveCleared,
           ObservePin, PatchUnresolved, PatchResolved, Patch, PatchFails, Spend
  <1>4. spent' \in Nat
    BY <1>1, <1>3
  <1>5. EntriesOK'
    <2>1. CASE Swept(m)
      BY <1>1, <2>1 DEF Swept, EntriesOK, AfterSuppress, Without
    <2>2. CASE pc[m] = "send" /\ Recorded1(m)
      <3>1. att[m].value \in Ids
        BY <1>1, <1>2, <2>2 DEF SendOK, Recorded1, Attempts
      <3>2. PICK err \in Error :
              entries' = Recorded(entries, WriteKey(m, att[m].value), err)
        BY <2>2 DEF Recorded1
      <3> DEFINE new == [key |-> WriteKey(m, att[m].value), err |-> err]
      <3>3. \A e \in entries' : e \in entries \/ (e = new /\ IsTerminal(err))
        BY <3>2 DEF Recorded, Without
      <3>4. new.key = WriteKey(m, att[m].value) /\ new.err = err
        OBVIOUS
      <3> QED BY <1>1, <3>1, <3>3, <3>4 DEF EntriesOK
    <2> QED BY <2>1, <2>2, StepEntries
  <1> SUFFICES ManagedOK' /\ OutsideOK' /\ ControlOK' /\ failed' \in Failures
               /\ orphaned' \subseteq Mrs
    BY <1>4, <1>5 DEF TypeOK, ManagedOK, OutsideOK, EntriesOK, ControlOK, Failures
  <1>6. CASE Reconcile(m)
    <2>1. Copy(m) \in Attempts
      BY <1>1 DEF Copy, Attempts, ManagedOK
    <2>2. ControlOK'
      BY <1>1, <1>6, <2>1, GotoType DEF Reconcile
    <2> QED BY <1>1, <1>6, <2>2
        DEF Reconcile, outside, ManagedOK, OutsideOK, Failures
  <1>7. CASE ObserveInstance(m)
    <2>1. CASE pin = NoInstance /\ Absent(m)
      BY <1>1, <1>7, <2>1, AbsentType
      DEF ObserveInstance, outside, OutsideOK, Failures
    <2>2. CASE pin # NoInstance /\ att' = [att EXCEPT ![m].value = pin] /\ Goto(m, "agent")
               /\ UNCHANGED mr
      <3>1. [att[m] EXCEPT !.value = pin] \in Attempts
        BY <1>1, <1>2, <1>7, <2>2 DEF ObserveInstance, OutsideOK, Attempts
      <3>2. ControlOK'
        BY <1>1, <2>2, <3>1, GotoType
      <3> QED BY <1>1, <1>7, <2>2, <3>2
          DEF ObserveInstance, outside, ManagedOK, OutsideOK, Failures
    <2> QED BY <1>7, <2>1, <2>2 DEF ObserveInstance
  <1>8. CASE ObserveFails(m)
    <2>1. ControlOK'
      BY <1>1, <1>8, FinishType, StayType DEF ObserveFails
    <2> QED BY <1>1, <1>8, <2>1
        DEF ObserveFails, outside, ManagedOK, OutsideOK, Failures
  <1>9. CASE ObserveNoAgent(m)
    BY <1>1, <1>9, AbsentType
    DEF ObserveNoAgent, outside, OutsideOK, Failures
  <1>10. CASE ObserveCleared(m)
    <2>1. ControlOK'
      BY <1>1, <1>10, FinishType DEF ObserveCleared
    <2>2. ManagedOK'
      BY <1>1, <1>10 DEF ObserveCleared, ManagedOK
    <2> QED BY <1>1, <1>10, <2>1, <2>2
        DEF ObserveCleared, outside, OutsideOK, Failures
  <1>11. CASE ObservePin(m)
    <2>1. ControlOK'
      <3>1. [att[m] EXCEPT !.cached = TRUE] \in Attempts
        BY <1>1, <1>2, <1>11 DEF ObservePin, Attempts
      <3>2. Finish(m) \/ (Goto(m, "patch") /\ att' = [att EXCEPT ![m].cached = TRUE])
        BY <1>11 DEF ObservePin
      <3> QED BY <1>1, <3>1, <3>2, FinishType, GotoType
    <2>2. ManagedOK'
      BY <1>1, <1>11 DEF ObservePin, CacheMaySettle, ManagedOK
    <2>3. failed' \in Failures
      BY <1>1, <1>11 DEF ObservePin, Failures
    <2> QED BY <1>1, <1>11, <2>1, <2>2, <2>3
        DEF ObservePin, outside, OutsideOK
  <1>12. CASE PatchUnresolved(m)
    <2>1. ControlOK'
      BY <1>1, <1>12, FinishType DEF PatchUnresolved, Returns
    <2> QED BY <1>1, <1>12, <2>1
        DEF PatchUnresolved, outside, ManagedOK, OutsideOK, Failures
  <1>13. CASE PatchResolved(m)
    <2> DEFINE v == IF att[m].deleting THEN NoPin ELSE AgentId(att[m])
    <2>1. pc[m] # "idle" /\ (att[m].deleting \/ AgentId(att[m]) # 0)
      BY <1>13 DEF PatchResolved
    <2>2. v \in Ids \cup {NoPin}
      BY <1>2, <2>1, AgentIdType
    <2>3. [att[m] EXCEPT !.value = v] \in Attempts
      BY <1>2, <2>1, <2>2 DEF Attempts
    <2>4. ControlOK'
      BY <1>1, <1>13, <2>3, GotoType DEF PatchResolved
    <2> QED BY <1>1, <1>13, <2>4
        DEF PatchResolved, outside, ManagedOK, OutsideOK, Failures
  <1>14. ASSUME Pinned(m), pc[m] = "send"
         PROVE  pin' \in Ids \cup {NoPin, NoInstance} /\ pinner' \subseteq Mrs
    BY <1>1, <1>2, <1>14 DEF Pinned, OutsideOK, Attempts
  <1>15. CASE Patch(m)
    <2>1. ControlOK'
      BY <1>1, <1>15, FinishType DEF Patch, Returns
    <2> QED BY <1>1, <1>14, <1>15, <2>1
        DEF Patch, ManagedOK, OutsideOK, Failures
  <1>16. CASE PatchFails(m)
    <2>1. PICK err : Failed(m, err)
      BY <1>16 DEF PatchFails
    <2>2. pc[m] = "send"
      BY <1>16 DEF PatchFails
    <2>3. ControlOK'
      BY <1>1, <2>1, FinishType DEF Failed, Returns
    <2>4. failed' \in Failures
      <3>1. ~att[m].deleting => att[m].value \in Ids
        BY <1>1, <1>2, <2>2 DEF SendOK, Attempts
      <3> QED BY <1>1, <2>1, <3>1 DEF Failed, Failures
    <2>5. pin' \in Ids \cup {NoPin, NoInstance} /\ pinner' \subseteq Mrs
      BY <1>1, <1>14, <1>16, <2>2 DEF PatchFails, OutsideOK
    <2> QED BY <1>1, <1>16, <2>3, <2>4, <2>5
        DEF PatchFails, ManagedOK, OutsideOK
  <1> QED BY <1>6, <1>7, <1>8, <1>9, <1>10, <1>11, <1>12, <1>13, <1>15, <1>16 DEF Step

LEMMA EnvironmentType ==
  ASSUME TypeOK, Environment
  PROVE  TypeOK'
  <1>1. CASE \E m \in Mrs : EditAgent(m) \/ RequestDelete(m)
    <2>1. PICK m \in Mrs : EditAgent(m) \/ RequestDelete(m)
      BY <1>1
    <2>2. mr \in [Mrs -> [phase : {"live", "deleting", "gone"}, agent : Agents,
                          cached : BOOLEAN]]
      BY DEF TypeOK
    <2>3. ManagedOK'
      <3>1. CASE EditAgent(m)
        <4>1. PICK n \in Agents : mr' = [mr EXCEPT ![m].agent = n]
          BY <3>1 DEF EditAgent
        <4>2. [mr[m] EXCEPT !.agent = n] \in
                [phase : {"live", "deleting", "gone"}, agent : Agents, cached : BOOLEAN]
          BY <2>1, <2>2, <4>1
        <4> QED BY <2>2, <4>1, <4>2 DEF ManagedOK
      <3>2. CASE RequestDelete(m)
        BY <2>2, <3>2 DEF RequestDelete, ManagedOK
      <3> QED BY <2>1, <3>1, <3>2
    <2>4. failed' \in Failures
      <3>1. failed \in Failures
        BY DEF TypeOK, Failures
      <3>2. failed' = failed \/ failed' = [failed EXCEPT ![m].current = FALSE]
        BY <2>1 DEF EditAgent, RequestDelete
      <3> QED BY <3>1, <3>2 DEF Failures
    <2>5. spent' \in Nat /\ UNCHANGED <<outside, entries, pc, att, orphaned>>
      BY <2>1 DEF EditAgent, RequestDelete, TypeOK, Spend
    <2> QED BY <2>3, <2>4, <2>5 DEF TypeOK, ManagedOK, Failures, outside
  <1> USE IdsAreNat DEF TypeOK, outside, Ids
  <1>2. CASE AgentAppears \/ AgentVanishes
    <2>1. agents' \in [Agents -> Ids \cup {0}]
      BY <1>2 DEF AgentAppears, AgentVanishes
    <2>2. created' \in 0..MaxIds
      BY <1>2 DEF AgentAppears, AgentVanishes
    <2> QED BY <1>2, <2>1, <2>2 DEF AgentAppears, AgentVanishes
  <1>3. CASE ParentReports \/ ParentChanges
    BY <1>3 DEF ParentReports, ParentChanges, Spend
  <1>4. CASE Crash
    BY <1>4 DEF Crash, Spend, NoFailure
  <1> QED BY <1>1, <1>2, <1>3, <1>4 DEF Environment

-------------------------------------------------------------------------------
(* Where a reconcile can be *)

\* An agent's ID is one that has been given out; an instance that is gone has none.
AgentsOK ==
  /\ \A n \in Agents : agents[n] <= created
  /\ pin = NoInstance => \A n \in Agents : agents[n] = 0

\* A reconcile is an MR's that has not gone, and a deletion stays one.
RunOK(m) ==
  pc[m] # "idle" =>
    /\ mr[m].phase # "gone"
    /\ att[m].deleting => mr[m].phase = "deleting"

PathOK == AgentsOK /\ \A m \in Mrs : RunOK(m) /\ SendOK(m)

\* What a step of m leaves to the others.
LEMMA StepFrame ==
  ASSUME TypeOK, NEW m \in Mrs, Step(m), NEW n \in Mrs \ {m}
  PROVE  /\ UNCHANGED <<mr[n], pc[n], att[n], failed[n], parent, agents, created>>
         /\ n \in orphaned' <=> n \in orphaned
         /\ n \in pinner' => n \in pinner
  <1>1. CASE Reconcile(m) \/ ObserveInstance(m) \/ ObserveFails(m)
    BY <1>1 DEF TypeOK, Reconcile, ObserveInstance, ObserveFails, Absent, Goto, Finish, outside
  <1>2. CASE ObserveNoAgent(m) \/ ObserveCleared(m) \/ ObservePin(m)
    BY <1>2 DEF TypeOK, ObserveNoAgent, ObserveCleared, ObservePin, CacheMaySettle, Absent,
                Goto, Finish, outside
  <1>3. CASE PatchUnresolved(m) \/ PatchResolved(m)
    BY <1>3 DEF TypeOK, PatchUnresolved, PatchResolved, Returns, Goto, Finish, outside
  <1>4. CASE Patch(m)
    BY <1>4 DEF TypeOK, Patch, Pinned, Returns, Finish
  <1>5. CASE PatchFails(m)
    <2>1. PICK err : Failed(m, err)
      BY <1>5 DEF PatchFails
    <2>2. UNCHANGED <<pc[n], att[n], failed[n]>>
      BY <2>1 DEF TypeOK, Failed, Returns, Finish
    <2>3. UNCHANGED pinner \/ Pinned(m)
      BY <1>5 DEF PatchFails
    <2> QED BY <1>5, <2>2, <2>3 DEF PatchFails, Pinned
  <1> QED BY <1>1, <1>2, <1>3, <1>4, <1>5 DEF Step

\* The entries of another MR are not touched.
LEMMA EntryFrame ==
  ASSUME TypeOK, NEW m \in Mrs, Step(m), NEW n \in Mrs \ {m}, NEW id,
         NEW e \in entries, e.key = WriteKey(n, id)
  PROVE  e \in entries'
  <1>1. \A p : ~SameResource(e.key, WriteKey(m, p)) /\ ~SameResource(e.key, Identity(m))
    BY KeysApart
  <1>2. CASE Swept(m)
    BY <1>1, <1>2 DEF Swept, AfterSuppress, Without
  <1>3. CASE Recorded1(m)
    BY <1>1, <1>3 DEF Recorded1, Recorded, Without
  <1> QED BY <1>2, <1>3, StepEntries

LEMMA StepPath ==
  ASSUME TypeOK, PathOK, NEW m \in Mrs, Step(m)
  PROVE  RunOK(m)' /\ SendOK(m)'
  <1>1. /\ pc \in [Mrs -> {"idle", "get", "agent", "patch", "send"}]
        /\ mr \in [Mrs -> [phase : {"live", "deleting", "gone"}, agent : Agents,
                           cached : BOOLEAN]]
        /\ att \in [Mrs -> Attempts \cup {NoAttempt}]
        /\ pc[m] # "idle" => att[m] \in Attempts
    BY DEF TypeOK
  <1>2. RunOK(m)
    BY DEF PathOK
  <1>3. ASSUME Finish(m) PROVE RunOK(m)' /\ SendOK(m)'
    BY <1>1, <1>3 DEF Finish, RunOK, SendOK
  <1>4. ASSUME Goto(m, "patch"), UNCHANGED <<mr, att>>, pc[m] # "idle"
        PROVE  RunOK(m)' /\ SendOK(m)'
    BY <1>1, <1>2, <1>4 DEF Goto, RunOK, SendOK
  <1>5. CASE Reconcile(m)
    BY <1>1, <1>5 DEF Reconcile, Copy, Goto, RunOK, SendOK
  <1>6. CASE ObserveInstance(m)
    <2>1. CASE Absent(m)
      BY <1>3, <1>4, <1>6, <2>1 DEF ObserveInstance, Absent
    <2>2. CASE att' = [att EXCEPT ![m].value = pin] /\ Goto(m, "agent") /\ UNCHANGED mr
      <3>1. pc'[m] = "agent" /\ att'[m].deleting = att[m].deleting
        BY <1>1, <1>6, <2>2 DEF ObserveInstance, Goto, Attempts
      <3> QED BY <1>2, <1>6, <2>2, <3>1 DEF ObserveInstance, RunOK, SendOK
    <2> QED BY <1>6, <2>1, <2>2 DEF ObserveInstance
  <1>7. CASE ObserveFails(m)
    BY <1>3, <1>4, <1>7 DEF ObserveFails
  <1>8. CASE ObserveNoAgent(m) \/ ObserveCleared(m)
    BY <1>3, <1>4, <1>8 DEF ObserveNoAgent, ObserveCleared, Absent
  <1>9. CASE ObservePin(m)
    <2>1. CASE Finish(m)
      BY <1>3, <2>1
    <2>2. CASE Goto(m, "patch") /\ att' = [att EXCEPT ![m].cached = TRUE]
      <3>1. pc'[m] = "patch" /\ att'[m].deleting = att[m].deleting
        BY <1>1, <1>9, <2>2 DEF ObservePin, Goto, Attempts
      <3>2. mr'[m].phase = mr[m].phase
        BY <1>1, <1>9 DEF ObservePin, CacheMaySettle
      <3> QED BY <1>2, <1>9, <3>1, <3>2 DEF ObservePin, RunOK, SendOK
    <2> QED BY <1>9, <2>1, <2>2 DEF ObservePin
  <1>10. CASE PatchUnresolved(m) \/ Patch(m)
    BY <1>3, <1>10 DEF PatchUnresolved, Patch, Returns
  <1>11. CASE PatchResolved(m)
    <2>1. /\ pc'[m] = "send" /\ att'[m].deleting = att[m].deleting
          /\ att'[m].value = IF att[m].deleting THEN NoPin ELSE AgentId(att[m])
      BY <1>1, <1>11 DEF PatchResolved, Goto, Attempts
    <2>2. pc[m] = "patch" /\ (att[m].deleting \/ AgentId(att[m]) # 0)
      BY <1>11 DEF PatchResolved
    <2>3. AgentId(att[m]) # 0 =>
            AgentId(att[m]) \in 1..created /\ AgentId(att[m]) # NoPin
      <3> SUFFICES ASSUME AgentId(att[m]) # 0
                   PROVE  AgentId(att[m]) \in 1..created /\ AgentId(att[m]) # NoPin
        OBVIOUS
      <3>1. /\ AgentId(att[m]) \in Ids /\ AgentId(att[m]) = agents[att[m].agent]
            /\ att[m].agent \in Agents
        BY <1>1, <2>2, AgentIdType DEF Attempts
      <3>2. AgentId(att[m]) <= created /\ created \in Nat
        BY <3>1, IdsAreNat DEF PathOK, AgentsOK, TypeOK
      <3> QED BY <3>1, <3>2, IdsAreNat, Sentinels DEF Ids
    <2>4. UNCHANGED <<mr, created>>
      BY <1>11 DEF PatchResolved, outside
    <2> QED BY <1>2, <2>1, <2>2, <2>3, <2>4 DEF RunOK, SendOK
  <1>12. CASE PatchFails(m)
    BY <1>3, <1>12 DEF PatchFails, Failed, Returns
  <1> QED BY <1>5, <1>6, <1>7, <1>8, <1>9, <1>10, <1>11, <1>12 DEF Step

LEMMA StepPathAll ==
  ASSUME TypeOK, PathOK, NEW m \in Mrs, Step(m)
  PROVE  PathOK'
  <1>1. UNCHANGED <<agents, created>> /\ (pin' = NoInstance => pin = NoInstance)
    <2>1. ASSUME Pinned(m), pc[m] = "send" PROVE pin' # NoInstance
      BY <2>1, Sentinels DEF Pinned, TypeOK, Attempts
    <2> QED BY <2>1 DEF Step, Reconcile, ObserveInstance, ObserveFails, ObserveNoAgent,
              ObserveCleared, ObservePin, PatchUnresolved, PatchResolved, Patch, PatchFails,
              outside
  <1>2. AgentsOK'
    BY <1>1 DEF PathOK, AgentsOK
  <1>3. ASSUME NEW n \in Mrs PROVE RunOK(n)' /\ SendOK(n)'
    <2>1. CASE n = m
      BY <2>1, StepPath
    <2>2. CASE n # m
      BY <2>2, StepFrame DEF PathOK, RunOK, SendOK
    <2> QED BY <2>1, <2>2
  <1> QED BY <1>2, <1>3 DEF PathOK

LEMMA EnvironmentPath ==
  ASSUME TypeOK, PathOK, Environment
  PROVE  PathOK'
  <1>1. CASE \E m \in Mrs : EditAgent(m) \/ RequestDelete(m)
    <2>1. PICK m \in Mrs : EditAgent(m) \/ RequestDelete(m)
      BY <1>1
    <2>2. \A n \in Mrs : \/ mr'[n].phase = mr[n].phase
                         \/ mr[n].phase = "live" /\ mr'[n].phase = "deleting"
      BY <2>1 DEF EditAgent, RequestDelete, TypeOK
    <2>3. UNCHANGED <<outside, pc, att>>
      BY <2>1 DEF EditAgent, RequestDelete
    <2> QED BY <2>2, <2>3 DEF PathOK, AgentsOK, RunOK, SendOK, outside
  <1>2. CASE AgentAppears \/ AgentVanishes
    <2>1. UNCHANGED <<mr, pin, pc, att>> /\ created \in Nat
          /\ (created' = created \/ created' = created + 1)
      BY <1>2, IdsAreNat DEF AgentAppears, AgentVanishes, TypeOK
    <2>2. AgentsOK'
      BY <1>2, <2>1, IdsAreNat DEF AgentAppears, AgentVanishes, TypeOK, PathOK, AgentsOK, Ids
    <2>3. \A m \in Mrs : RunOK(m)'
      BY <2>1 DEF PathOK, RunOK
    <2>4. \A m \in Mrs : SendOK(m)'
      BY <2>1 DEF PathOK, SendOK
    <2> QED BY <2>2, <2>3, <2>4 DEF PathOK
  <1>3. CASE ParentReports \/ ParentChanges
    <2>1. UNCHANGED <<mr, created, pc, att>> /\ created \in Nat
      BY <1>3, IdsAreNat DEF ParentReports, ParentChanges, TypeOK
    <2>2. AgentsOK'
      BY <1>3, <2>1 DEF ParentReports, ParentChanges, TypeOK, PathOK, AgentsOK
    <2> QED BY <2>1, <2>2 DEF PathOK, RunOK, SendOK
  <1>4. CASE Crash
    BY <1>4 DEF Crash, PathOK, AgentsOK, RunOK, SendOK, outside
  <1> QED BY <1>1, <1>2, <1>3, <1>4 DEF Environment

LEMMA InitTypePath ==
  ASSUME Init
  PROVE  TypeOK /\ PathOK
  <1>1. PICK s \in Starts :
          mr = [m \in Mrs |-> [phase |-> "live", agent |-> s[m], cached |-> FALSE]]
    BY DEF Init
  <1>2. ManagedOK
    BY <1>1, StartsAreAgents DEF ManagedOK
  <1>3. TypeOK
    BY <1>2, IdsAreNat, Sentinels DEF Init, TypeOK, ManagedOK, NoFailure
  <1> QED BY <1>3, IdsAreNat DEF Init, PathOK, AgentsOK, RunOK, SendOK

\* Types need the path: what is sent is an ID there has been, or nothing.
THEOREM AlwaysTyped == Spec => [](TypeOK /\ PathOK)
  <1>1. ASSUME TypeOK /\ PathOK, [Next]_vars PROVE (TypeOK /\ PathOK)'
    <2>1. CASE \E m \in Mrs : Step(m)
      BY <1>1, <2>1, StepType, StepPathAll DEF PathOK
    <2>2. CASE Environment
      BY <1>1, <2>2, EnvironmentType, EnvironmentPath
    <2>3. CASE UNCHANGED vars
      BY <1>1, <2>3 DEF vars, TypeOK, PathOK, AgentsOK, RunOK, SendOK
    <2> QED BY <1>1, <2>1, <2>2, <2>3 DEF Next
  <1> QED BY <1>1, InitTypePath, PTL DEF Spec

\* Every variable keeps its type, for all MRs, agents and IDs.
THEOREM TypeCorrect == Spec => []TypeOK
  BY AlwaysTyped, PTL

-------------------------------------------------------------------------------
(* A rejected ID is not sent again *)

\* The guard still holds the ID m was last rejected for.
Held(m) == \E e \in entries : e.key = WriteKey(m, failed[m].id)

\* m is live, as far as its reconcile knows, and its agent has the rejected ID.
SameAgain(m) ==
  /\ IF pc[m] = "idle" THEN mr[m].phase = "live" ELSE ~att[m].deleting
  /\ agents[mr[m].agent] = failed[m].id

\* While the MR asks for the ID it was rejected for, the guard has the rejection and
\* no patch is under way: the agent may go and come back, but never with that ID.
RetryOK(m) ==
  failed[m].current =>
    /\ failed[m].id \in 1..created
    /\ pc[m] # "idle" => att[m].agent = mr[m].agent
    /\ SameAgain(m) => Held(m) /\ pc[m] \in {"idle", "get", "agent"}
    /\ pc[m] = "send" /\ ~att[m].deleting => att[m].value # failed[m].id

\* A reconcile that ends, a deletion that goes on: if m is up for the ID after the
\* step, it was before.
LEMMA SameFinish ==
  ASSUME TypeOK, PathOK, NEW m \in Mrs, RetryOK(m), pc[m] # "idle", Finish(m),
         mr'[m].phase = mr[m].phase \/ mr'[m].phase = "gone", mr'[m].agent = mr[m].agent,
         UNCHANGED <<agents, created, failed>>,
         SameAgain(m) => UNCHANGED entries
  PROVE  RetryOK(m)'
  <1>1. pc'[m] = "idle"
    BY DEF Finish, TypeOK
  <1>2. RunOK(m)
    BY DEF PathOK
  <1>3. SameAgain(m)' => SameAgain(m)
    BY <1>1, <1>2 DEF SameAgain, RunOK
  <1> QED BY <1>1, <1>3 DEF RetryOK, Held

\* A step to another call, made by a deletion or by an MR that asks for another ID.
LEMMA OtherGoto ==
  ASSUME TypeOK, NEW m \in Mrs, RetryOK(m), pc[m] # "idle",
         NEW step \in {"patch", "agent"}, Goto(m, step),
         att'[m].deleting = att[m].deleting, att'[m].agent = att[m].agent,
         mr'[m].agent = mr[m].agent, UNCHANGED <<agents, created, failed>>,
         failed[m].current => ~SameAgain(m)
  PROVE  RetryOK(m)'
  <1>1. pc'[m] = step
    BY DEF Goto, TypeOK
  <1>2. failed[m].current => ~SameAgain(m)'
    BY <1>1 DEF SameAgain
  <1> QED BY <1>1, <1>2 DEF RetryOK

LEMMA StepRetry ==
  ASSUME TypeOK, PathOK, NEW m \in Mrs, RetryOK(m), Step(m)
  PROVE  RetryOK(m)'
  <1>1. /\ pc \in [Mrs -> {"idle", "get", "agent", "patch", "send"}]
        /\ mr \in [Mrs -> [phase : {"live", "deleting", "gone"}, agent : Agents,
                           cached : BOOLEAN]]
        /\ att \in [Mrs -> Attempts \cup {NoAttempt}]
        /\ pc[m] # "idle" => att[m] \in Attempts
        /\ failed \in [Mrs -> [id : Ids \cup {0}, current : BOOLEAN]]
        /\ created \in Nat
    BY IdsAreNat DEF TypeOK
  <1>2. AgentsOK /\ RunOK(m) /\ SendOK(m)
    BY DEF PathOK
  \* The gone agent, or instance, has not the ID.
  <1>3. failed[m].current /\ pc[m] # "idle" /\ AgentId(att[m]) # failed[m].id
        => ~SameAgain(m)
    <2> SUFFICES ASSUME failed[m].current, pc[m] # "idle", SameAgain(m)
                 PROVE  AgentId(att[m]) = failed[m].id
      OBVIOUS
    <2>1. /\ att[m].agent = mr[m].agent /\ mr[m].agent \in Agents
          /\ agents[mr[m].agent] = failed[m].id /\ failed[m].id # 0
      BY <1>1 DEF RetryOK, SameAgain
    <2> QED BY <1>2, <2>1 DEF AgentId, AgentsOK
  <1>4. CASE Reconcile(m)
    <2>1. /\ pc'[m] = "get" /\ att'[m] = Copy(m) /\ pc[m] = "idle"
          /\ mr[m].phase # "gone" /\ UNCHANGED <<mr, agents, created, failed>>
      BY <1>1, <1>4 DEF Reconcile, Goto, outside
    <2> SUFFICES ASSUME failed[m].current, SameAgain(m)' PROVE Held(m)'
      BY <2>1 DEF RetryOK, Copy
    <2>2. ~Copy(m).deleting /\ Copy(m).agent = mr[m].agent /\ SameAgain(m)
      BY <1>1, <2>1 DEF SameAgain, Copy
    <2>3. PICK e \in entries : e.key = WriteKey(m, failed[m].id)
      BY <2>2 DEF RetryOK, Held
    <2>4. AgentId(Copy(m)) = failed[m].id
      BY <1>1, <1>2, <2>2 DEF AgentId, AgentsOK, SameAgain, RetryOK
    <2>5. Suppresses(entries, WriteKey(m, AgentId(Copy(m))), Copy(m).deleting)
      BY <2>2, <2>3, <2>4, KeysApart DEF Suppresses, Matching
    <2>6. UNCHANGED entries
      BY <1>4, <2>5 DEF Reconcile
    <2> QED BY <2>1, <2>3, <2>6 DEF Held
  <1>5. CASE ObserveInstance(m)
    <2>0. pc[m] = "get" /\ UNCHANGED <<agents, created, failed, entries>>
      BY <1>5 DEF ObserveInstance, outside
    <2>1. CASE pin = NoInstance /\ Absent(m)
      <3>1. failed[m].current => ~SameAgain(m)
        BY <1>1, <1>2, <2>1 DEF AgentsOK, SameAgain, RetryOK
      <3> QED BY <1>1, <2>0, <2>1, <3>1, SameFinish, OtherGoto DEF Absent
    <2>2. CASE att' = [att EXCEPT ![m].value = pin] /\ Goto(m, "agent") /\ UNCHANGED mr
      <3>1. /\ pc'[m] = "agent" /\ att'[m].deleting = att[m].deleting
            /\ att'[m].agent = att[m].agent
        BY <1>1, <2>0, <2>2 DEF Goto, Attempts
      <3> QED BY <2>0, <2>2, <3>1 DEF RetryOK, SameAgain, Held
    <2> QED BY <1>5, <2>1, <2>2 DEF ObserveInstance
  <1>6. CASE ObserveFails(m)
    <2>1. pc[m] # "idle" /\ UNCHANGED <<mr, agents, created, failed, entries>>
      BY <1>6 DEF ObserveFails, outside
    <2>2. Finish(m) \/ (att[m].deleting /\ Goto(m, "patch") /\ UNCHANGED att)
      BY <1>6 DEF ObserveFails
    <2>3. att[m].deleting => ~SameAgain(m)
      BY <2>1 DEF SameAgain
    <2> QED BY <2>1, <2>2, <2>3, SameFinish, OtherGoto
  <1>7. CASE ObserveNoAgent(m)
    <2>1. pc[m] # "idle" /\ UNCHANGED <<agents, created, failed, entries>>
          /\ AgentId(att[m]) = 0
      BY <1>7 DEF ObserveNoAgent, outside
    <2>2. failed[m].current => ~SameAgain(m)
      BY <1>3, <2>1 DEF RetryOK
    <2> QED BY <1>1, <1>7, <2>1, <2>2, SameFinish, OtherGoto DEF ObserveNoAgent, Absent
  <1>8. CASE ObserveCleared(m)
    <2>1. pc[m] # "idle" /\ UNCHANGED <<agents, created, failed, entries>>
      BY <1>8 DEF ObserveCleared, outside
    <2> QED BY <1>1, <1>8, <2>1, SameFinish DEF ObserveCleared
  <1>9. CASE ObservePin(m)
    <2>1. /\ pc[m] = "agent" /\ UNCHANGED <<agents, created>>
          /\ mr'[m].phase = mr[m].phase /\ mr'[m].agent = mr[m].agent
      BY <1>1, <1>9 DEF ObservePin, CacheMaySettle, outside
    <2>2. CASE att[m].value = AgentId(att[m])
      BY <1>1, <1>9, <2>2 DEF ObservePin, RetryOK
    <2>3. CASE att[m].value # AgentId(att[m])
      <3> DEFINE key == WriteKey(m, AgentId(att[m]))
      <3>1. UNCHANGED failed
        BY <1>9, <2>3 DEF ObservePin
      <3>2. CASE failed[m].current /\ SameAgain(m)
        <4>1. ~att[m].deleting /\ AgentId(att[m]) = failed[m].id
          BY <1>3, <2>1, <3>2 DEF SameAgain
        <4>2. Suppresses(entries, key, att[m].deleting)
          BY <3>2, <4>1, KeysApart DEF RetryOK, Held, Suppresses, Matching
        <4>3. Finish(m) /\ UNCHANGED entries
          BY <1>9, <2>3, <4>2 DEF ObservePin, AfterSuppress
        <4> QED BY <2>1, <3>1, <4>3, SameFinish
      <3>3. CASE ~(failed[m].current /\ SameAgain(m))
        <4>1. CASE ~failed[m].current
          BY <3>1, <4>1 DEF RetryOK
        <4>2. CASE failed[m].current /\ Finish(m)
          BY <2>1, <3>1, <3>3, <4>2, SameFinish
        <4>3. CASE failed[m].current /\ Goto(m, "patch")
                   /\ att' = [att EXCEPT ![m].cached = TRUE]
          <5>1. att'[m].deleting = att[m].deleting /\ att'[m].agent = att[m].agent
            BY <1>1, <2>1, <4>3 DEF Attempts
          <5> QED BY <2>1, <3>1, <3>3, <4>3, <5>1, OtherGoto
        <4> QED BY <1>9, <4>1, <4>2, <4>3 DEF ObservePin
      <3> QED BY <3>2, <3>3
    <2> QED BY <2>2, <2>3
  \* From "patch" on the MR is not up for the ID.
  <1>10. failed[m].current /\ pc[m] \in {"patch", "send"} => ~SameAgain(m)
    BY DEF RetryOK
  <1>11. CASE PatchUnresolved(m) \/ Patch(m)
    <2>1. /\ pc[m] \in {"patch", "send"} /\ Finish(m)
          /\ UNCHANGED <<mr, agents, created, failed>>
      BY <1>11 DEF PatchUnresolved, Patch, Returns, outside
    <2>2. CASE ~failed[m].current
      BY <2>1, <2>2 DEF RetryOK
    <2>3. CASE failed[m].current
      BY <1>10, <2>1, <2>3, SameFinish
    <2> QED BY <2>2, <2>3
  <1>12. CASE PatchResolved(m)
    <2>1. /\ pc'[m] = "send" /\ att'[m].deleting = att[m].deleting
          /\ att'[m].agent = att[m].agent /\ pc[m] = "patch"
          /\ att'[m].value = IF att[m].deleting THEN NoPin ELSE AgentId(att[m])
      BY <1>1, <1>12 DEF PatchResolved, Goto, Attempts
    <2>2. att[m].deleting \/ AgentId(att[m]) # 0
      BY <1>12 DEF PatchResolved
    <2>3. UNCHANGED <<mr, agents, created, failed>>
      BY <1>12 DEF PatchResolved, outside
    <2> SUFFICES ASSUME failed[m].current PROVE RetryOK(m)'
      BY <2>3 DEF RetryOK
    <2>4. ~SameAgain(m) /\ att[m].agent = mr[m].agent
      BY <1>10, <2>1 DEF RetryOK
    <2>5. ~SameAgain(m)'
      BY <2>1, <2>3, <2>4 DEF SameAgain
    <2>6. ~att[m].deleting => AgentId(att[m]) # failed[m].id
      BY <1>1, <2>1, <2>2, <2>4, AgentIdType DEF SameAgain
    <2> QED BY <2>1, <2>3, <2>4, <2>5, <2>6 DEF RetryOK
  <1>13. CASE PatchFails(m)
    <2>1. PICK err : Failed(m, err)
      BY <1>13 DEF PatchFails
    <2>2. pc[m] = "send" /\ Finish(m) /\ UNCHANGED <<mr, agents, created>>
      BY <1>13, <2>1 DEF PatchFails, Failed, Returns
    <2>3. CASE IsTerminal(err) /\ ~att[m].deleting
      <3>1. /\ failed'[m] = [id |-> att[m].value, current |-> TRUE]
            /\ pc'[m] = "idle" /\ att[m].value \in 1..created
        BY <1>1, <1>2, <2>1, <2>2, <2>3 DEF Failed, Finish, SendOK
      <3>2. [key |-> WriteKey(m, att[m].value), err |-> err] \in entries'
        BY <2>1, <2>3 DEF Failed, Returns, Recorded
      <3>3. Held(m)'
        BY <3>1, <3>2 DEF Held
      <3> QED BY <2>2, <3>1, <3>3 DEF RetryOK
    <2>4. CASE ~(IsTerminal(err) /\ ~att[m].deleting)
      <3>1. UNCHANGED failed
        BY <2>1, <2>4 DEF Failed
      <3>2. CASE ~failed[m].current
        BY <3>1, <3>2 DEF RetryOK
      <3>3. CASE failed[m].current
        BY <1>10, <2>2, <3>1, <3>3, SameFinish
      <3> QED BY <3>2, <3>3
    <2> QED BY <2>3, <2>4
  <1> QED BY <1>4, <1>5, <1>6, <1>7, <1>8, <1>9, <1>11, <1>12, <1>13 DEF Step

LEMMA FrameRetry ==
  ASSUME TypeOK, NEW n \in Mrs, Step(n), NEW m \in Mrs \ {n}, RetryOK(m)
  PROVE  RetryOK(m)'
  <1>1. UNCHANGED <<mr[m], pc[m], att[m], failed[m], agents, created>>
    BY StepFrame
  <1>2. Held(m) => Held(m)'
    BY <1>1, EntryFrame DEF Held
  <1>3. SameAgain(m)' <=> SameAgain(m)
    BY <1>1 DEF SameAgain
  <1> QED BY <1>1, <1>2, <1>3 DEF RetryOK

LEMMA EnvironmentRetry ==
  ASSUME TypeOK, PathOK, Environment, NEW m \in Mrs, RetryOK(m)
  PROVE  RetryOK(m)'
  <1>1. /\ mr \in [Mrs -> [phase : {"live", "deleting", "gone"}, agent : Agents,
                           cached : BOOLEAN]]
        /\ failed \in [Mrs -> [id : Ids \cup {0}, current : BOOLEAN]]
        /\ agents \in [Agents -> Ids \cup {0}]
        /\ created \in Nat
    BY IdsAreNat DEF TypeOK
  <1>2. CASE \E n \in Mrs : EditAgent(n)
    BY <1>1, <1>2 DEF EditAgent, RetryOK, SameAgain, Held, outside
  <1>3. CASE \E n \in Mrs : RequestDelete(n)
    BY <1>1, <1>3 DEF RequestDelete, RetryOK, SameAgain, Held, outside
  <1>4. CASE AgentAppears \/ AgentVanishes
    <2>1. /\ UNCHANGED <<mr, entries, pc, att, failed>>
          /\ created' \in {created, created + 1}
          /\ agents' \in [Agents -> Ids \cup {0, created + 1}]
          /\ \A n \in Agents : agents'[n] \in {agents[n], 0, created + 1}
      BY <1>1, <1>4 DEF AgentAppears, AgentVanishes
    <2>2. failed[m].current /\ SameAgain(m)' => SameAgain(m)
      BY <1>1, <2>1 DEF SameAgain, RetryOK
    <2>3. failed[m].current => failed[m].id \in 1..created'
      BY <1>1, <2>1 DEF RetryOK
    <2> QED BY <2>1, <2>2, <2>3 DEF RetryOK, Held
  <1>5. CASE ParentReports \/ ParentChanges
    <2>1. /\ UNCHANGED <<mr, entries, pc, att, failed, created>>
          /\ \A n \in Agents : agents'[n] \in {agents[n], 0}
      BY <1>5 DEF ParentReports, ParentChanges
    <2>2. failed[m].current /\ SameAgain(m)' => SameAgain(m)
      BY <1>1, <2>1 DEF SameAgain, RetryOK
    <2> QED BY <2>1, <2>2 DEF RetryOK, Held
  <1>6. CASE Crash
    BY <1>6 DEF Crash, NoFailure, RetryOK
  <1> QED BY <1>2, <1>3, <1>4, <1>5, <1>6 DEF Environment

\* While an MR asks for an ID the gateway rejected, no patch with that ID is sent,
\* however many MRs share the instance and whatever becomes of the agents.
THEOREM RefusedIsNotRetried == Spec => []NoIdenticalRetry
  <1> DEFINE IInv == \A m \in Mrs : RetryOK(m)
  <1>1. Init => IInv
    BY DEF Init, NoFailure, RetryOK
  <1>2. ASSUME IInv, TypeOK /\ PathOK, [Next]_vars PROVE IInv'
    <2> SUFFICES ASSUME NEW m \in Mrs PROVE RetryOK(m)'
      OBVIOUS
    <2>1. ASSUME NEW n \in Mrs, Step(n) PROVE RetryOK(m)'
      BY <1>2, <2>1, StepRetry, FrameRetry
    <2>2. CASE Environment
      BY <1>2, <2>2, EnvironmentRetry
    <2>3. CASE UNCHANGED vars
      BY <1>2, <2>3 DEF vars, RetryOK, SameAgain, Held
    <2> QED BY <1>2, <2>1, <2>2, <2>3 DEF Next
  <1>3. IInv => NoIdenticalRetry
    BY DEF RetryOK, NoIdenticalRetry
  <1> HIDE DEF IInv
  <1> QED BY <1>1, <1>2, <1>3, AlwaysTyped, PTL DEF Spec

-------------------------------------------------------------------------------
(* An MR that has gone leaves no pin *)

\* An empty pin is nobody's; an MR on its way out with an empty pin in hand has not
\* set the present one, and no MR that has gone did.
PinOK ==
  /\ pin \in {NoPin, NoInstance} => pinner = {}
  /\ \A m \in Mrs :
       /\ pc[m] = "agent" /\ att[m].value = NoPin => m \notin pinner
       /\ mr[m].phase = "gone" /\ m \notin orphaned => m \notin pinner

LEMMA StepPin ==
  ASSUME TypeOK, PathOK, PinOK, NEW m \in Mrs, Step(m)
  PROVE  PinOK'
  <1>1. /\ pc \in [Mrs -> {"idle", "get", "agent", "patch", "send"}]
        /\ mr \in [Mrs -> [phase : {"live", "deleting", "gone"}, agent : Agents,
                           cached : BOOLEAN]]
        /\ att \in [Mrs -> Attempts \cup {NoAttempt}]
        /\ pc[m] # "idle" => att[m] \in Attempts /\ mr[m].phase # "gone"
    BY DEF TypeOK, PathOK, RunOK
  <1>2. \/ UNCHANGED <<pin, pinner>>
        \/ pc[m] = "send" /\ Pinned(m) /\ Finish(m) /\ UNCHANGED mr
    <2>1. ASSUME PatchFails(m) PROVE Finish(m)
      BY <2>1 DEF PatchFails, Failed, Returns
    <2> QED BY <2>1 DEF Step, Reconcile, ObserveInstance, ObserveFails, ObserveNoAgent,
              ObserveCleared, ObservePin, PatchUnresolved, PatchResolved, Patch, PatchFails,
              Returns, outside
  <1>3. pin' \in {NoPin, NoInstance} => pinner' = {}
    BY <1>1, <1>2, Sentinels DEF PinOK, Pinned, Attempts
  <1>4. ASSUME NEW n \in Mrs, n # m
        PROVE  /\ pc'[n] = "agent" /\ att'[n].value = NoPin => n \notin pinner'
               /\ mr'[n].phase = "gone" /\ n \notin orphaned' => n \notin pinner'
    BY <1>4, StepFrame DEF PinOK
  <1>5. /\ pc'[m] = "agent" /\ att'[m].value = NoPin => m \notin pinner'
        /\ mr'[m].phase = "gone" /\ m \notin orphaned' => m \notin pinner'
    <2>1. CASE pc[m] = "send" /\ Pinned(m) /\ Finish(m) /\ UNCHANGED mr
      BY <1>1, <2>1 DEF Finish
    <2> SUFFICES ASSUME UNCHANGED <<pin, pinner>>
                 PROVE  /\ pc'[m] = "agent" /\ att'[m].value = NoPin => m \notin pinner
                        /\ mr'[m].phase = "gone" /\ m \notin orphaned' => m \notin pinner
      BY <1>2, <2>1
    <2>2. ASSUME Finish(m) \/ Goto(m, "patch") \/ Goto(m, "send") \/ Goto(m, "get")
          PROVE  pc'[m] # "agent"
      BY <1>1, <2>2 DEF Finish, Goto
    <2>3. CASE Reconcile(m) \/ ObserveFails(m) \/ PatchUnresolved(m) \/ PatchResolved(m)
               \/ Patch(m)
      <3>1. pc'[m] # "agent" /\ UNCHANGED <<mr, orphaned>>
        BY <2>2, <2>3 DEF Reconcile, ObserveFails, PatchUnresolved, PatchResolved, Patch,
                          Returns
      <3> QED BY <3>1 DEF PinOK
    <2>4. CASE PatchFails(m)
      <3>1. pc'[m] # "agent" /\ UNCHANGED <<mr, orphaned>>
        BY <2>2, <2>4 DEF PatchFails, Failed, Returns
      <3> QED BY <3>1 DEF PinOK
    <2>5. CASE ObserveInstance(m)
      <3>1. CASE pin = NoInstance /\ Absent(m)
        BY <3>1 DEF PinOK
      <3>2. CASE att' = [att EXCEPT ![m].value = pin] /\ UNCHANGED mr
        <4>1. att'[m].value = pin
          BY <1>1, <2>5, <3>2 DEF ObserveInstance, Attempts
        <4> QED BY <1>1, <2>5, <3>2, <4>1 DEF ObserveInstance, PinOK
      <3> QED BY <2>5, <3>1, <3>2 DEF ObserveInstance
    <2>6. CASE ObserveNoAgent(m)
      <3>1. pc'[m] # "agent"
        BY <2>2, <2>6 DEF ObserveNoAgent, Absent
      <3>2. mr'[m].phase = "gone" => m \in orphaned'
        BY <1>1, <2>6 DEF ObserveNoAgent, Absent
      <3> QED BY <3>1, <3>2
    <2>7. CASE ObserveCleared(m)
      BY <2>2, <2>7 DEF ObserveCleared, PinOK
    <2>8. CASE ObservePin(m)
      <3>1. pc'[m] # "agent" /\ mr'[m].phase # "gone"
        BY <1>1, <2>2, <2>8 DEF ObservePin, CacheMaySettle
      <3> QED BY <3>1
    <2> QED BY <2>3, <2>4, <2>5, <2>6, <2>7, <2>8 DEF Step
  <1> QED BY <1>3, <1>4, <1>5 DEF PinOK

LEMMA EnvironmentPin ==
  ASSUME TypeOK, PinOK, Environment
  PROVE  PinOK'
  <1>1. CASE \E m \in Mrs : EditAgent(m) \/ RequestDelete(m)
    <2>1. \A n \in Mrs : mr'[n].phase = "gone" => mr[n].phase = "gone"
      BY <1>1 DEF EditAgent, RequestDelete, TypeOK
    <2>2. UNCHANGED <<outside, pc, att, orphaned>>
      BY <1>1 DEF EditAgent, RequestDelete
    <2> QED BY <2>1, <2>2 DEF PinOK, outside
  <1>2. CASE AgentAppears \/ AgentVanishes \/ ParentReports
    BY <1>2 DEF AgentAppears, AgentVanishes, ParentReports, PinOK
  <1>3. CASE ParentChanges
    BY <1>3 DEF ParentChanges, PinOK
  <1>4. CASE Crash
    BY <1>4 DEF Crash, PinOK, outside
  <1> QED BY <1>1, <1>2, <1>3, <1>4 DEF Environment

\* An MR that has gone with its agent still there has not set the pin in force,
\* whatever its siblings pinned and cleared meanwhile.
THEOREM GoneHasReleased == Spec => []GoneClearsPin
  <1>1. Init => PinOK
    BY DEF Init, PinOK
  <1>2. ASSUME PinOK, TypeOK /\ PathOK, [Next]_vars PROVE PinOK'
    <2>1. CASE \E m \in Mrs : Step(m)
      BY <1>2, <2>1, StepPin
    <2>2. CASE Environment
      BY <1>2, <2>2, EnvironmentPin
    <2>3. CASE UNCHANGED vars
      BY <1>2, <2>3 DEF vars, PinOK
    <2> QED BY <1>2, <2>1, <2>2, <2>3 DEF Next
  <1>3. PinOK => GoneClearsPin
    BY DEF PinOK, GoneClearsPin
  <1> QED BY <1>1, <1>2, <1>3, AlwaysTyped, PTL DEF Spec
===============================================================================
