----------------------- MODULE InstanceIpAllowListProofs -----------------------
(***************************************************************************)
(* Proofs about one InstanceIpAllowList MR, for every set of lists and of  *)
(* instances, either way to name the instance, and any faults, edits,      *)
(* crashes and upheavals of the parent.                                    *)
(***************************************************************************)
EXTENDS InstanceIpAllowList, GuardLemmas

-------------------------------------------------------------------------------
(* Type correctness *)

Managed ==
  [phase : {"live", "deleting", "gone"}, list : Lists, cached : Ids,
   pending : BOOLEAN, finalizer : BOOLEAN]

Attempts == [list : Lists, deleting : BOOLEAN, cached : Ids, id : Ids, fresh : BOOLEAN]

Payloads == [id : Instances, list : Lists]

Failures == [id : Instances, list : Lists, current : BOOLEAN]

ControlOK ==
  /\ pc \in {"idle", "guard", "get", "patch"}
  /\ att \in IF pc = "idle" THEN {NoAttempt} ELSE Attempts

OutsideOK ==
  /\ parent \in Ids \cup {NoParent}
  /\ served \in [Instances -> Lists \cup {NoInstance}]

SpentOK == spent \in [{"faults", "edits", "parent", "crashes"} -> Nat]

\* The keys of TypeOK are those of the payloads.
LEMMA KeysArePayloads ==
  ASSUME NEW es
  PROVE  WellFormed(es, Identity, Payloads) <=>
           \A e \in es :
             /\ e.key \in {WriteKey(id, list) : id \in Instances, list \in Lists}
             /\ e.err \in Error /\ IsTerminal(e.err)
  <1>1. ASSUME NEW k
        PROVE  (\E p \in Payloads : k = Key(Identity, p)) <=>
                 k \in {WriteKey(id, list) : id \in Instances, list \in Lists}
    <2>1. ASSUME NEW p \in Payloads
          PROVE  /\ p.id \in Instances /\ p.list \in Lists
                 /\ p = [id |-> p.id, list |-> p.list]
      BY DEF Payloads
    <2>2. ASSUME NEW p \in Payloads, k = Key(Identity, p)
          PROVE  \E id \in Instances, list \in Lists : k = WriteKey(id, list)
      BY <2>1, <2>2 DEF WriteKey
    <2>3. ASSUME NEW id \in Instances, NEW list \in Lists, k = WriteKey(id, list)
          PROVE  \E p \in Payloads : k = Key(Identity, p)
      <3>1. [id |-> id, list |-> list] \in Payloads
        BY DEF Payloads
      <3> QED BY <2>3, <3>1 DEF WriteKey
    <2> QED BY <2>2, <2>3
  <1> QED BY <1>1 DEF WellFormed

LEMMA TypeParts ==
  TypeOK <=> /\ mr \in Managed /\ OutsideOK /\ ControlOK /\ SpentOK
             /\ WellFormed(entries, Identity, Payloads)
             /\ failed \in Failures \cup {NoFailure} /\ wrote \subseteq Instances
  BY KeysArePayloads DEF TypeOK, Managed, OutsideOK, ControlOK, SpentOK, Attempts, Failures

\* The same of the state after a step.
LEMMA TypePartsNext ==
  ASSUME mr' \in Managed, OutsideOK', ControlOK', SpentOK',
         WellFormed(entries', Identity, Payloads),
         failed' \in Failures \cup {NoFailure}, wrote' \subseteq Instances
  PROVE  TypeOK'
  <1>1. \A e \in entries' :
          /\ e.key \in {WriteKey(id, list) : id \in Instances, list \in Lists}
          /\ e.err \in Error /\ IsTerminal(e.err)
    BY KeysArePayloads
  <1> QED BY <1>1 DEF TypeOK, Managed, OutsideOK, ControlOK, SpentOK, Attempts, Failures

\* Which instance a reconcile may come to.
LEMMA ResolvedInstances ==
  \A cached : Resolved(cached) \subseteq Instances
  BY NamesAnInstance, Sentinels DEF Resolved

LEMMA SpendType ==
  ASSUME SpentOK, NEW kind \in {"faults", "edits", "parent", "crashes"},
         Spend(kind) \/ UNCHANGED spent
  PROVE  SpentOK'
  BY DEF SpentOK, Spend

LEMMA FinishType ==
  ASSUME NEW how, Finish(how)
  PROVE  ControlOK' /\ pc' = "idle"
  BY DEF ControlOK, Finish

\* A reconcile goes on with the next call and a typed copy.
LEMMA GotoType ==
  ASSUME NEW step \in {"guard", "get", "patch"}, pc' = step, att' \in Attempts
  PROVE  ControlOK' /\ pc' = step
  BY DEF ControlOK

\* What the guard's methods leave in the map, for an attempt of this MR.
LEMMA EntriesType ==
  ASSUME WellFormed(entries, Identity, Payloads),
         NEW id \in Instances, NEW list \in Lists, NEW err \in Error, NEW deleting
  PROVE  /\ OwnEntries(entries, Identity)
         /\ WellFormed({}, Identity, Payloads)
         /\ WellFormed(Without(entries, Identity), Identity, Payloads)
         /\ WellFormed(AfterSuppress(entries, WriteKey(id, list), deleting), Identity, Payloads)
         /\ WellFormed(Recorded(entries, WriteKey(id, list), err), Identity, Payloads)
  <1>1. [id |-> id, list |-> list] \in Payloads
    BY DEF Payloads
  <1> QED BY <1>1, EntriesStay DEF WriteKey

-------------------------------------------------------------------------------

LEMMA ObserveType ==
  ASSUME TypeOK,
         Reconcile \/ ObserveGuard \/ ObserveAbsent \/ ObserveFails \/ ObserveCleared \/ ObserveList
  PROVE  TypeOK'
  <1>1. /\ mr \in Managed /\ OutsideOK /\ ControlOK /\ SpentOK
        /\ WellFormed(entries, Identity, Payloads)
        /\ failed \in Failures \cup {NoFailure} /\ wrote \subseteq Instances
    BY TypeParts
  <1>2. pc # "idle" => att \in Attempts
    BY <1>1 DEF ControlOK
  <1>3. UNCHANGED <<parent, served, failed, wrote>>
    BY DEF Reconcile, ObserveGuard, ObserveAbsent, ObserveFails, ObserveCleared, ObserveList
  <1>4. OutsideOK' /\ failed' \in Failures \cup {NoFailure} /\ wrote' \subseteq Instances
    BY <1>1, <1>3 DEF OutsideOK
  <1>5. SpentOK'
    <2>1. UNCHANGED spent \/ Spend("faults")
      BY DEF Reconcile, ObserveGuard, ObserveAbsent, ObserveFails, ObserveCleared, ObserveList,
             Fault
    <2> QED BY <1>1, <2>1, SpendType
  <1> SUFFICES mr' \in Managed /\ ControlOK' /\ WellFormed(entries', Identity, Payloads)
    BY <1>4, <1>5, TypePartsNext
  <1>6. Opaque({}) \in Error
    BY BareErrors
  <1>7. CASE Reconcile
    <2>1. att' \in Attempts
      BY <1>1, <1>7 DEF Reconcile, Managed, Attempts, Ids
    <2> QED BY <1>1, <1>7, <2>1, GotoType DEF Reconcile
  <1>8. CASE ObserveGuard
    <2>0. UNCHANGED mr /\ pc = "guard"
      BY <1>8 DEF ObserveGuard
    <2>1. CASE Finish("unresolved") /\ UNCHANGED entries
      BY <1>1, <2>0, <2>1, FinishType
    <2>2. ASSUME NEW id \in Resolved(att.cached),
                 entries' = AfterSuppress(entries, WriteKey(id, att.list), att.deleting),
                 \/ Finish("suppressed")
                 \/ Goto("get") /\ att' = [att EXCEPT !.id = id]
          PROVE  mr' \in Managed /\ ControlOK' /\ WellFormed(entries', Identity, Payloads)
      <3>1. id \in Instances /\ att.list \in Lists /\ att \in Attempts
        BY <1>2, <2>0, ResolvedInstances DEF Attempts
      <3>2. WellFormed(entries', Identity, Payloads)
        BY <1>1, <1>6, <2>2, <3>1, EntriesType
      <3>3. [att EXCEPT !.id = id] \in Attempts
        BY <3>1 DEF Attempts, Ids
      <3> QED BY <1>1, <2>0, <2>2, <3>2, <3>3, FinishType, GotoType DEF Goto
    <2> QED BY <1>8, <2>1, <2>2 DEF ObserveGuard
  <1>9. CASE ObserveAbsent
    <2>1. /\ mr' \in {mr, [mr EXCEPT !.phase = "gone"],
                      [mr EXCEPT !.pending = TRUE, !.finalizer = TRUE]}
          /\ Finish("gone") \/ Finish("failed") \/ (Goto("patch") /\ UNCHANGED att)
          /\ pc = "get" /\ UNCHANGED entries
      BY <1>9 DEF ObserveAbsent, Absent
    <2>2. mr' \in Managed
      BY <1>1, <2>1 DEF Managed
    <2> QED BY <1>1, <1>2, <2>1, <2>2, FinishType, GotoType DEF Goto
  <1>10. CASE ObserveFails
    <2>1. /\ mr' \in {mr, [mr EXCEPT !.finalizer = @ \/ att.fresh]}
          /\ Finish("waiting") \/ Finish("failed") \/ (Goto("patch") /\ UNCHANGED att)
          /\ pc = "get" /\ UNCHANGED entries
      BY <1>10 DEF ObserveFails
    <2>2. mr' \in Managed
      BY <1>1, <1>2, <2>1 DEF Managed, Attempts
    <2> QED BY <1>1, <1>2, <2>1, <2>2, FinishType, GotoType DEF Goto
  <1>11. CASE ObserveCleared
    BY <1>1, <1>11, FinishType DEF ObserveCleared, Managed
  <1>12. CASE ObserveList
    <2>0. pc = "get" /\ att \in Attempts
      BY <1>2, <1>12 DEF ObserveList
    <2>1. mr' \in Managed
      <3>1. mr' \in {mr, [mr EXCEPT !.cached = att.id], [mr EXCEPT !.finalizer = TRUE],
                     [[mr EXCEPT !.finalizer = TRUE] EXCEPT !.cached = att.id]}
        BY <1>12 DEF ObserveList, CacheMaySettle
      <3> QED BY <1>1, <2>0, <3>1 DEF Managed, Attempts
    <2>2. ControlOK'
      <3>1. [att EXCEPT !.cached = att.id] \in Attempts
        BY <2>0 DEF Attempts
      <3>2. \/ Finish("suppressed") \/ Finish("failed") \/ Finish("synced")
            \/ Goto("patch") /\ att' = [att EXCEPT !.cached = att.id]
        BY <1>12 DEF ObserveList
      <3> QED BY <3>1, <3>2, FinishType, GotoType DEF Goto
    <2>3. WellFormed(entries', Identity, Payloads)
      <3>1. entries' \subseteq entries
        BY <1>12 DEF ObserveList, AfterSuppress, Without
      <3> QED BY <1>1, <3>1 DEF WellFormed
    <2> QED BY <2>1, <2>2, <2>3
  <1> QED BY <1>7, <1>8, <1>9, <1>10, <1>11, <1>12

LEMMA PatchType ==
  ASSUME TypeOK, PatchUnresolved \/ Patch \/ PatchFails
  PROVE  TypeOK'
  <1>1. /\ mr \in Managed /\ OutsideOK /\ ControlOK /\ SpentOK
        /\ WellFormed(entries, Identity, Payloads)
        /\ failed \in Failures \cup {NoFailure} /\ wrote \subseteq Instances
    BY TypeParts
  <1>2. pc = "patch" /\ att \in Attempts
    BY <1>1 DEF ControlOK, PatchUnresolved, Patch, PatchFails
  <1>3. SpentOK'
    <2>1. UNCHANGED spent \/ Spend("faults")
      BY DEF PatchUnresolved, Patch, PatchFails, Fault
    <2> QED BY <1>1, <2>1, SpendType
  <1>4. mr' \in Managed /\ ControlOK' /\ UNCHANGED parent
    <2>1. mr' = [mr EXCEPT !.pending = FALSE] /\ (\E how : Finish(how)) /\ UNCHANGED parent
      BY DEF PatchUnresolved, Patch, PatchFails, Returns
    <2> QED BY <1>1, <2>1, FinishType DEF Managed
  <1>5. Desired \in Lists
    BY <1>2, ListValues DEF Desired, Attempts
  <1>6. OutsideOK' /\ wrote' \subseteq Instances
    <2>1. \/ UNCHANGED <<served, wrote>>
          \/ \E id \in Resolved(att.cached) :
               served' = [served EXCEPT ![id] = Desired] /\ wrote' = wrote \cup {id}
      BY DEF PatchUnresolved, Patch, PatchFails
    <2> QED BY <1>1, <1>4, <1>5, <2>1, ResolvedInstances DEF OutsideOK
  <1> SUFFICES WellFormed(entries', Identity, Payloads) /\ failed' \in Failures \cup {NoFailure}
    BY <1>3, <1>4, <1>6, TypePartsNext
  <1>7. CASE PatchUnresolved
    <2>1. ~IsTerminal(Opaque({}))
      BY DEF IsTerminal, Opaque, GatewayError
    <2>2. entries' \subseteq entries
      BY <1>7, <2>1 DEF PatchUnresolved, Returns, Recorded, Without
    <2>3. UNCHANGED failed
      BY <1>7, <2>1 DEF PatchUnresolved, Returns
    <2> QED BY <1>1, <2>2, <2>3 DEF WellFormed
  <1>8. CASE Patch
    <2>1. entries' \subseteq entries /\ UNCHANGED failed
      BY <1>8 DEF Patch, Without
    <2> QED BY <1>1, <2>1 DEF WellFormed
  <1>9. CASE PatchFails
    <2>1. PICK id \in Resolved(att.cached), err \in Error : Returns(id, err, "failed")
      BY <1>9, BareErrors, ClassifiedErrors, FaultsAreErrors DEF PatchFails, Fault, Codes
    <2>2. id \in Instances /\ att.list \in Lists
      BY <1>2, ResolvedInstances DEF Attempts
    <2>3. WellFormed(entries', Identity, Payloads)
      BY <1>1, <2>1, <2>2, EntriesType DEF Returns
    <2>4. failed' \in Failures \cup {NoFailure}
      BY <1>1, <2>1, <2>2 DEF Returns, Failures
    <2> QED BY <2>3, <2>4
  <1> QED BY <1>7, <1>8, <1>9

LEMMA EnvironmentType ==
  ASSUME TypeOK, Environment
  PROVE  TypeOK'
  <1>1. /\ mr \in Managed /\ OutsideOK /\ ControlOK /\ SpentOK
        /\ WellFormed(entries, Identity, Payloads)
        /\ failed \in Failures \cup {NoFailure} /\ wrote \subseteq Instances
    BY TypeParts
  <1>2. SpentOK'
    <2>1. \/ UNCHANGED spent
          \/ \E kind \in {"edits", "parent", "crashes"} : Spend(kind)
      BY DEF Environment, EditList, RequestDelete, ParentReports, ParentChanges, Crash,
             OperatorResumes
    <2> QED BY <1>1, <2>1, SpendType
  <1>3. wrote' \subseteq Instances
    BY <1>1 DEF Environment, EditList, RequestDelete, ParentReports, ParentChanges, Crash,
                OperatorResumes
  <1>4. mr' \in Managed
    <2>1. CASE EditList
      BY <1>1, <2>1 DEF EditList, Managed
    <2>2. CASE RequestDelete
      BY <1>1, <2>2 DEF RequestDelete, Managed
    <2>3. CASE OperatorResumes
      BY <1>1, <2>3 DEF OperatorResumes, Managed
    <2> QED BY <1>1, <2>1, <2>2, <2>3 DEF Environment, ParentReports, ParentChanges, Crash
  <1>5. OutsideOK'
    BY <1>1, ListValues
    DEF OutsideOK, Ids, Environment, EditList, RequestDelete, ParentReports, ParentChanges,
        Crash, OperatorResumes
  <1>6. ControlOK'
    <2>1. CASE Stale /\ UNCHANGED pc
      BY <1>1, <2>1 DEF Stale, ControlOK, Attempts
    <2>2. CASE pc' = "idle" /\ att' = NoAttempt
      BY <2>2 DEF ControlOK
    <2>3. CASE UNCHANGED <<pc, att>>
      BY <1>1, <2>3 DEF ControlOK
    <2> QED BY <2>1, <2>2, <2>3
        DEF Environment, EditList, RequestDelete, ParentReports, ParentChanges, Crash,
            OperatorResumes
  <1>7. WellFormed(entries', Identity, Payloads)
    <2>1. entries' \subseteq entries
      BY DEF Environment, EditList, RequestDelete, ParentReports, ParentChanges, Crash,
             OperatorResumes
    <2> QED BY <1>1, <2>1 DEF WellFormed
  <1>8. failed' \in Failures \cup {NoFailure}
    <2>1. failed' \in {failed, Outdated}
      BY DEF Environment, EditList, RequestDelete, ParentReports, ParentChanges, Crash,
             OperatorResumes
    <2> QED BY <1>1, <2>1 DEF Outdated, Failures
  <1> QED BY <1>2, <1>3, <1>4, <1>5, <1>6, <1>7, <1>8, TypePartsNext

LEMMA InitType ==
  ASSUME Init
  PROVE  TypeOK
  <1>1. mr \in Managed /\ ControlOK /\ SpentOK
    BY DEF Init, Managed, ControlOK, SpentOK, Ids
  <1>2. OutsideOK
    BY ListValues DEF Init, OutsideOK, Ids
  <1> QED BY <1>1, <1>2, TypeParts DEF Init, WellFormed

\* Every variable keeps its type; the guard only holds writes of this MR, to an
\* instance there is, that failed for good.
THEOREM TypeCorrect == Spec => []TypeOK
  <1>1. ASSUME TypeOK, [Next]_vars PROVE TypeOK'
    <2>1. CASE Step
      BY <1>1, <2>1, ObserveType, PatchType DEF Step
    <2>2. CASE Environment
      BY <1>1, <2>2, EnvironmentType
    <2>3. CASE UNCHANGED vars
      BY <1>1, <2>3 DEF vars, TypeOK
    <2> QED BY <1>1, <2>1, <2>2, <2>3 DEF Next
  <1> QED BY <1>1, InitType, PTL DEF Spec

-------------------------------------------------------------------------------
(* Where a reconcile can be *)

\* The instances spec and reference can lead to.
Only == IF DirectId # NoId THEN {DirectId} ELSE Instances

\* They all lead to the same one.
FixedParent == \A i, j \in Only : i = j

\* Every ID in hand or on record is one of those.
IdsOK ==
  /\ pc = "get" => att.id \in Only
  /\ failed # NoFailure => failed.id \in Only
  /\ wrote \subseteq Only

\* An MR is not written for, nor held back when it is deleted, before it has its
\* finalizer; a reconcile that finds it deleted has a copy that says so, or cannot
\* save the finalizer.
RunOK ==
  /\ mr.phase = "deleting" \/ wrote # {} => mr.finalizer
  /\ pc # "idle" /\ att.deleting => mr.phase = "deleting"
  /\ pc \in {"guard", "get"} /\ ~att.deleting /\ att.fresh => mr.phase = "live"
  /\ pc # "idle" /\ mr.phase = "gone" => ~mr.finalizer
  /\ pc = "patch" => mr.finalizer

LEMMA ResolvedOnly ==
  \A cached : Resolved(cached) \subseteq Only
  BY NamesAnInstance, Sentinels DEF Resolved, Only

LEMMA StepIds ==
  ASSUME TypeOK, IdsOK, Step
  PROVE  IdsOK'
  <1>1. pc # "idle" => att \in Attempts
    BY DEF TypeOK, Attempts
  <1>2. wrote' \subseteq Only
    <2>1. wrote' = wrote \/ \E id \in Resolved(att.cached) : wrote' = wrote \cup {id}
      BY DEF Step, Reconcile, ObserveGuard, ObserveAbsent, ObserveFails, ObserveCleared,
             ObserveList, PatchUnresolved, Patch, PatchFails
    <2> QED BY <2>1, ResolvedOnly DEF IdsOK
  <1>3. failed' # NoFailure => failed'.id \in Only
    <2>1. ASSUME UNCHANGED failed PROVE failed' # NoFailure => failed'.id \in Only
      BY <2>1 DEF IdsOK
    <2>2. CASE PatchUnresolved
      <3>1. ~IsTerminal(Opaque({}))
        BY DEF IsTerminal, Opaque, GatewayError
      <3> QED BY <2>1, <2>2, <3>1 DEF PatchUnresolved, Returns
    <2>3. CASE PatchFails
      <3>1. PICK id \in Resolved(att.cached) : \E err : Returns(id, err, "failed")
        BY <2>3 DEF PatchFails
      <3>2. failed' = failed \/ failed' = [id |-> id, list |-> att.list, current |-> TRUE]
        BY <3>1 DEF Returns
      <3>3. failed' = failed \/ failed'.id = id
        BY <3>2
      <3> QED BY <2>1, <3>3, ResolvedOnly
    <2> QED BY <2>1, <2>2, <2>3
        DEF Step, Reconcile, ObserveGuard, ObserveAbsent, ObserveFails, ObserveCleared,
            ObserveList, Patch
  <1>4. pc' = "get" => att'.id \in Only
    <2>1. CASE ObserveGuard
      <3> SUFFICES ASSUME pc' = "get" PROVE att'.id \in Only
        OBVIOUS
      <3>1. PICK id \in Resolved(att.cached) : att' = [att EXCEPT !.id = id] /\ pc = "guard"
        BY <2>1 DEF ObserveGuard, Finish
      <3>2. att'.id = id
        BY <1>1, <3>1 DEF Attempts
      <3> QED BY <3>2, ResolvedOnly
    <2>2. ASSUME Step, ~ObserveGuard PROVE pc' # "get"
      BY <2>2 DEF Step, Reconcile, ObserveAbsent, Absent, ObserveFails, ObserveCleared,
             ObserveList, PatchUnresolved, Patch, PatchFails, Returns, Finish, Goto
    <2> QED BY <2>1, <2>2
  <1> QED BY <1>2, <1>3, <1>4 DEF IdsOK

LEMMA EnvironmentIds ==
  ASSUME TypeOK, IdsOK, Environment
  PROVE  IdsOK'
  <1>1. pc # "idle" => att \in Attempts
    BY DEF TypeOK, Attempts
  <1>2. failed' # NoFailure => failed' = failed \/ failed' = [failed EXCEPT !.current = FALSE]
    BY DEF Environment, EditList, RequestDelete, ParentReports, ParentChanges, Crash,
           OperatorResumes, Outdated
  <1>3. failed' # NoFailure => failed # NoFailure /\ failed'.id = failed.id
    <2>1. failed # NoFailure => failed \in Failures
      BY DEF TypeOK, Failures
    <2>2. failed = NoFailure => failed' = NoFailure
      BY DEF Environment, EditList, RequestDelete, ParentReports, ParentChanges, Crash,
             OperatorResumes, Outdated
    <2> QED BY <1>2, <2>1, <2>2 DEF Failures
  <1>4. pc' = "get" => pc = "get" /\ (att' = att \/ att' = [att EXCEPT !.fresh = FALSE])
    BY DEF Environment, EditList, RequestDelete, ParentReports, ParentChanges, Crash,
           OperatorResumes, Stale
  <1>5. pc' = "get" => pc = "get" /\ att'.id = att.id
    BY <1>1, <1>4 DEF Attempts
  <1>6. UNCHANGED wrote
    BY DEF Environment, EditList, RequestDelete, ParentReports, ParentChanges, Crash,
           OperatorResumes
  <1> QED BY <1>3, <1>5, <1>6 DEF IdsOK

LEMMA StepRun ==
  ASSUME TypeOK, RunOK, Step
  PROVE  RunOK'
  <1>1. mr \in Managed /\ (pc # "idle" => att \in Attempts)
    BY DEF TypeOK, Managed, Attempts
  <1>2. CASE Reconcile
    <2>1. /\ pc' = "guard" /\ mr' = mr /\ wrote' = wrote /\ mr.phase # "gone"
          /\ att'.deleting = (mr.phase = "deleting")
      BY <1>2 DEF Reconcile
    <2> QED BY <1>1, <2>1 DEF RunOK, Managed
  <1>3. CASE ObserveGuard
    <2>1. /\ pc = "guard" /\ UNCHANGED <<mr, wrote>>
          /\ pc' = "idle" \/ (pc' = "get" /\ \E id : att' = [att EXCEPT !.id = id])
      BY <1>3 DEF ObserveGuard, Finish, Goto
    <2>2. pc' = "get" => att'.deleting = att.deleting /\ att'.fresh = att.fresh
      BY <1>1, <2>1 DEF Attempts
    <2> QED BY <2>1, <2>2 DEF RunOK
  <1>4. CASE ObserveAbsent
    <2>1. pc = "get" /\ UNCHANGED wrote /\ Absent
      BY <1>4 DEF ObserveAbsent
    <2>2. CASE att.deleting /\ mr' = [mr EXCEPT !.phase = "gone"] /\ pc' = "idle"
      <3>1. mr'.phase = "gone" /\ mr'.finalizer = mr.finalizer
        BY <1>1, <2>2 DEF Managed
      <3> QED BY <2>1, <2>2, <3>1 DEF RunOK
    <2>3. CASE /\ ~att.deleting /\ att.fresh /\ pc' = "patch" /\ UNCHANGED att
               /\ mr' = [mr EXCEPT !.pending = TRUE, !.finalizer = TRUE]
      <3>1. mr'.phase = mr.phase /\ mr'.finalizer
        BY <1>1, <2>3 DEF Managed
      <3> QED BY <2>1, <2>3, <3>1 DEF RunOK
    <2>4. CASE pc' = "idle" /\ UNCHANGED mr
      BY <2>1, <2>4 DEF RunOK
    <2> QED BY <2>1, <2>2, <2>3, <2>4 DEF Absent, Finish, Goto
  <1>5. CASE ObserveFails
    <2>1. /\ pc = "get" /\ UNCHANGED wrote
          /\ mr' = mr \/ mr' = [mr EXCEPT !.finalizer = @ \/ att.fresh]
          /\ pc' = "idle" \/ (att.deleting /\ pc' = "patch" /\ UNCHANGED att)
      BY <1>5 DEF ObserveFails, Finish, Goto
    <2>2. mr'.phase = mr.phase /\ (mr.finalizer => mr'.finalizer)
      BY <1>1, <2>1 DEF Managed
    <2> QED BY <2>1, <2>2 DEF RunOK
  <1>6. CASE ObserveCleared
    <2>1. pc' = "idle" /\ UNCHANGED wrote /\ mr' = [mr EXCEPT !.phase = "gone"]
      BY <1>6 DEF ObserveCleared, Finish
    <2>2. mr'.phase = "gone" /\ mr'.finalizer = mr.finalizer
      BY <1>1, <2>1 DEF Managed
    <2> QED BY <2>1, <2>2 DEF RunOK
  <1>7. CASE ObserveList
    <2>1. pc = "get" /\ UNCHANGED wrote
      BY <1>7 DEF ObserveList
    <2>2. CASE (mr' = mr \/ mr' = [mr EXCEPT !.cached = att.id]) /\ pc' = "idle"
      <3>1. mr'.phase = mr.phase /\ mr'.finalizer = mr.finalizer
        BY <1>1, <2>2 DEF Managed
      <3> QED BY <2>1, <2>2, <3>1 DEF RunOK
    <2>3. CASE /\ Claimed
               /\ \/ mr' = [mr EXCEPT !.finalizer = TRUE]
                  \/ mr' = [[mr EXCEPT !.finalizer = TRUE] EXCEPT !.cached = att.id]
               /\ \/ pc' = "idle"
                  \/ pc' = "patch" /\ att' = [att EXCEPT !.cached = att.id]
      <3>1. mr'.phase = mr.phase /\ mr'.finalizer
        BY <1>1, <2>3 DEF Managed
      <3>2. mr.phase # "gone"
        BY <2>1, <2>3 DEF RunOK, Claimed
      <3>3. pc' = "patch" => att'.deleting = att.deleting
        BY <1>1, <2>1, <2>3 DEF Attempts
      <3> QED BY <2>1, <2>3, <3>1, <3>2, <3>3 DEF RunOK
    <2> QED BY <1>7, <2>1, <2>2, <2>3 DEF ObserveList, CacheMaySettle, Finish, Goto
  <1>8. CASE PatchUnresolved \/ Patch \/ PatchFails
    <2>1. pc = "patch" /\ pc' = "idle" /\ mr' = [mr EXCEPT !.pending = FALSE]
      BY <1>8 DEF PatchUnresolved, Patch, PatchFails, Returns, Finish
    <2>2. mr'.phase = mr.phase /\ mr'.finalizer = mr.finalizer
      BY <1>1, <2>1 DEF Managed
    <2> QED BY <2>1, <2>2 DEF RunOK
  <1> QED BY <1>2, <1>3, <1>4, <1>5, <1>6, <1>7, <1>8 DEF Step

LEMMA EnvironmentRun ==
  ASSUME TypeOK, RunOK, Environment
  PROVE  RunOK'
  <1>1. mr \in Managed /\ (pc # "idle" => att \in Attempts)
    BY DEF TypeOK, Managed, Attempts
  <1>2. ASSUME Stale
        PROVE  /\ att'.fresh => att.fresh /\ pc \notin {"guard", "get"}
               /\ pc # "idle" => att'.deleting = att.deleting
    BY <1>1, <1>2 DEF Stale, Attempts
  <1>3. CASE EditList
    <2>1. mr'.phase = mr.phase /\ mr'.finalizer = mr.finalizer
      BY <1>1, <1>3 DEF EditList, Managed
    <2>2. Stale /\ UNCHANGED <<pc, wrote>>
      BY <1>3 DEF EditList
    <2> QED BY <1>2, <2>1, <2>2 DEF RunOK
  <1>4. CASE RequestDelete
    <2>1. /\ mr.phase = "live" /\ mr'.finalizer = mr.finalizer
          /\ mr'.phase = IF mr.finalizer THEN "deleting" ELSE "gone"
      BY <1>1, <1>4 DEF RequestDelete, Managed
    <2>2. Stale /\ UNCHANGED <<pc, wrote>>
      BY <1>4 DEF RequestDelete
    <2> QED BY <1>2, <2>1, <2>2 DEF RunOK
  <1>5. CASE ParentReports \/ ParentChanges
    BY <1>5 DEF ParentReports, ParentChanges, RunOK
  <1>6. CASE Crash
    BY <1>6 DEF Crash, RunOK
  <1>7. CASE OperatorResumes
    <2>1. mr'.phase = mr.phase /\ mr'.finalizer = mr.finalizer
      BY <1>1, <1>7 DEF OperatorResumes, Managed
    <2> QED BY <1>7, <2>1 DEF OperatorResumes, RunOK
  <1> QED BY <1>3, <1>4, <1>5, <1>6, <1>7 DEF Environment

\* Types, IDs and finalizers, whatever the MR names its instance by.
LEMMA AlwaysInPlace == Spec => [](TypeOK /\ IdsOK /\ RunOK)
  <1>1. Init => IdsOK /\ RunOK
    BY DEF Init, IdsOK, RunOK
  <1>2. ASSUME TypeOK, IdsOK /\ RunOK, [Next]_vars PROVE (IdsOK /\ RunOK)'
    <2>1. CASE UNCHANGED vars
      BY <1>2, <2>1 DEF vars, IdsOK, RunOK
    <2> QED BY <1>2, <2>1, StepIds, EnvironmentIds, StepRun, EnvironmentRun DEF Next
  <1> QED BY <1>1, <1>2, TypeCorrect, PTL DEF Spec

-------------------------------------------------------------------------------
(* A rejected list is not sent again *)

\* The guard still holds the list the gateway rejected.
Held == \E e \in entries : e.key = WriteKey(failed.id, failed.list)

\* The MR is live, as far as its reconcile knows, and asks for the rejected list.
SameAgain ==
  /\ IF pc = "idle" THEN mr.phase = "live" ELSE ~att.deleting
  /\ mr.list = failed.list

\* While the MR asks for the list it was rejected for, the guard has the rejection
\* and no reconcile gets past it.
RetryOK ==
  failed # NoFailure /\ failed.current =>
    /\ pc # "idle" => att.list = mr.list
    /\ SameAgain => Held /\ pc \in {"idle", "guard"}

\* A reconcile that ends: if the MR is up for the list after it, it was before.
LEMMA SameFinish ==
  ASSUME RunOK, RetryOK, pc # "idle", pc' = "idle", UNCHANGED failed,
         mr'.list = mr.list, mr'.phase \in {mr.phase, "gone"},
         SameAgain => UNCHANGED entries
  PROVE  RetryOK'
  <1>1. SameAgain' => SameAgain
    BY DEF SameAgain, RunOK
  <1> QED BY <1>1 DEF RetryOK, Held

\* One that goes on from where the MR was not up for it.
LEMMA OtherGoto ==
  ASSUME RetryOK, pc # "idle", pc' # "idle", UNCHANGED failed,
         mr'.list = mr.list, att'.list = att.list, att'.deleting = att.deleting,
         failed # NoFailure /\ failed.current => ~SameAgain
  PROVE  RetryOK'
  <1>1. failed # NoFailure /\ failed.current => ~SameAgain'
    BY DEF SameAgain
  <1> QED BY <1>1 DEF RetryOK

LEMMA ObserveRetry ==
  ASSUME TypeOK, IdsOK, RunOK, FixedParent, RetryOK,
         Reconcile \/ ObserveGuard \/ ObserveAbsent \/ ObserveFails \/ ObserveCleared \/ ObserveList
  PROVE  RetryOK'
  <1>1. mr \in Managed /\ (pc # "idle" => att \in Attempts)
    BY DEF TypeOK, Managed, Attempts
  <1>2. UNCHANGED failed
    BY DEF Reconcile, ObserveGuard, ObserveAbsent, ObserveFails, ObserveCleared, ObserveList
  <1>3. CASE Reconcile
    <2>1. /\ pc = "idle" /\ pc' = "guard" /\ UNCHANGED <<mr, entries>>
          /\ mr.phase # "gone"
          /\ att'.list = mr.list /\ att'.deleting = (mr.phase = "deleting")
      BY <1>3 DEF Reconcile
    <2>2. SameAgain' => SameAgain
      BY <1>1, <1>2, <2>1 DEF SameAgain, Managed
    <2> QED BY <1>2, <2>1, <2>2 DEF RetryOK, Held
  <1>4. CASE ObserveGuard
    <2>0. pc = "guard" /\ UNCHANGED mr
      BY <1>4 DEF ObserveGuard
    <2>1. CASE Finish("unresolved") /\ UNCHANGED entries
      BY <1>2, <2>0, <2>1, SameFinish DEF Finish
    <2>2. ASSUME NEW id \in Resolved(att.cached),
                 entries' = AfterSuppress(entries, WriteKey(id, att.list), att.deleting),
                 IF Suppresses(entries, WriteKey(id, att.list), att.deleting)
                 THEN Finish("suppressed")
                 ELSE Goto("get") /\ att' = [att EXCEPT !.id = id]
          PROVE  RetryOK'
      <3>1. CASE Suppresses(entries, WriteKey(id, att.list), att.deleting)
        BY <1>2, <2>0, <2>2, <3>1, SameFinish DEF AfterSuppress, Finish
      <3>2. CASE ~Suppresses(entries, WriteKey(id, att.list), att.deleting)
        <4>1. pc' = "get" /\ att'.list = att.list /\ att'.deleting = att.deleting
          BY <1>1, <2>0, <2>2, <3>2 DEF Goto, Attempts
        <4>2. ASSUME failed # NoFailure, failed.current, SameAgain PROVE FALSE
          <5>1. id = failed.id /\ att.list = failed.list /\ ~att.deleting
            BY <2>0, <4>2, ResolvedOnly DEF RetryOK, SameAgain, IdsOK, FixedParent
          <5>2. PICK e \in entries : e.key = WriteKey(id, att.list)
            BY <4>2, <5>1 DEF RetryOK, Held
          <5>3. SamePayload(e.key, WriteKey(id, att.list))
            BY <5>2, KeyOfObject DEF WriteKey
          <5> QED BY <3>2, <5>1, <5>3 DEF Suppresses, Matching
        <4> QED BY <1>2, <2>0, <4>1, <4>2, OtherGoto
      <3> QED BY <3>1, <3>2
    <2> QED BY <1>4, <2>1, <2>2 DEF ObserveGuard
  \* Past the guard the MR is not up for the list.
  <1>5. failed # NoFailure /\ failed.current /\ pc = "get" => ~SameAgain
    BY DEF RetryOK
  <1>6. ASSUME pc = "get", mr'.list = mr.list, mr'.phase \in {mr.phase, "gone"},
               \/ pc' = "idle"
               \/ pc' = "patch" /\ att'.list = att.list /\ att'.deleting = att.deleting
        PROVE  RetryOK'
    <2>1. CASE ~(failed # NoFailure /\ failed.current)
      BY <1>2, <2>1 DEF RetryOK
    <2>2. CASE failed # NoFailure /\ failed.current
      BY <1>2, <1>5, <1>6, <2>2, SameFinish, OtherGoto
    <2> QED BY <2>1, <2>2
  <1>7. CASE ObserveAbsent \/ ObserveFails \/ ObserveCleared
    <2>1. /\ pc = "get"
          /\ mr' \in {mr, [mr EXCEPT !.phase = "gone"],
                      [mr EXCEPT !.pending = TRUE, !.finalizer = TRUE],
                      [mr EXCEPT !.finalizer = @ \/ att.fresh]}
          /\ pc' = "idle" \/ (pc' = "patch" /\ UNCHANGED att)
      BY <1>7 DEF ObserveAbsent, ObserveFails, ObserveCleared, Absent, Finish, Goto
    <2>2. mr'.list = mr.list /\ mr'.phase \in {mr.phase, "gone"}
      BY <1>1, <2>1 DEF Managed
    <2> QED BY <1>6, <2>1, <2>2
  <1>8. CASE ObserveList
    <2>1. /\ pc = "get"
          /\ mr' \in {mr, [mr EXCEPT !.cached = att.id], [mr EXCEPT !.finalizer = TRUE],
                      [[mr EXCEPT !.finalizer = TRUE] EXCEPT !.cached = att.id]}
          /\ pc' = "idle" \/ (pc' = "patch" /\ att' = [att EXCEPT !.cached = att.id])
      BY <1>8 DEF ObserveList, CacheMaySettle, Finish, Goto
    <2>2. mr'.list = mr.list /\ mr'.phase = mr.phase
      BY <1>1, <2>1 DEF Managed
    <2>3. pc' = "patch" => att'.list = att.list /\ att'.deleting = att.deleting
      BY <1>1, <2>1 DEF Attempts
    <2> QED BY <1>6, <2>1, <2>2, <2>3
  <1> QED BY <1>3, <1>4, <1>7, <1>8

LEMMA PatchRetry ==
  ASSUME TypeOK, RunOK, RetryOK, PatchUnresolved \/ Patch \/ PatchFails
  PROVE  RetryOK'
  <1>1. mr \in Managed /\ pc = "patch" /\ att \in Attempts
    BY DEF TypeOK, Managed, Attempts, PatchUnresolved, Patch, PatchFails
  <1>2. pc' = "idle" /\ mr' = [mr EXCEPT !.pending = FALSE]
    BY DEF PatchUnresolved, Patch, PatchFails, Returns, Finish
  <1>3. mr'.list = mr.list /\ mr'.phase = mr.phase
    BY <1>1, <1>2 DEF Managed
  <1>4. ASSUME UNCHANGED failed PROVE RetryOK'
    <2>1. CASE ~(failed # NoFailure /\ failed.current)
      BY <1>4, <2>1 DEF RetryOK
    <2>2. CASE failed # NoFailure /\ failed.current
      <3>1. ~SameAgain
        BY <1>1, <2>2 DEF RetryOK
      <3> QED BY <1>1, <1>2, <1>3, <1>4, <3>1, SameFinish
    <2> QED BY <2>1, <2>2
  <1>5. CASE PatchUnresolved
    <2>1. ~IsTerminal(Opaque({}))
      BY DEF IsTerminal, Opaque, GatewayError
    <2> QED BY <1>4, <1>5, <2>1 DEF PatchUnresolved, Returns
  <1>6. CASE Patch
    BY <1>4, <1>6 DEF Patch
  <1>7. CASE PatchFails
    <2>1. PICK id, err : Returns(id, err, "failed")
      BY <1>7 DEF PatchFails
    <2>2. CASE IsTerminal(err) /\ ~att.deleting
      <3>1. failed' = [id |-> id, list |-> att.list, current |-> TRUE]
        BY <2>1, <2>2 DEF Returns
      <3>2. [key |-> WriteKey(id, att.list), err |-> err] \in entries'
        BY <2>1, <2>2 DEF Returns, Recorded
      <3>3. Held'
        BY <3>1, <3>2 DEF Held
      <3> QED BY <1>2, <3>3 DEF RetryOK
    <2>3. CASE ~(IsTerminal(err) /\ ~att.deleting)
      BY <1>4, <2>1, <2>3 DEF Returns
    <2> QED BY <2>2, <2>3
  <1> QED BY <1>5, <1>6, <1>7

LEMMA EnvironmentRetry ==
  ASSUME TypeOK, RetryOK, Environment
  PROVE  RetryOK'
  <1>1. mr \in Managed /\ (pc # "idle" => att \in Attempts)
        /\ failed \in Failures \cup {NoFailure}
    BY DEF TypeOK, Managed, Attempts, Failures
  <1>2. failed' = Outdated => (failed' # NoFailure => ~failed'.current)
    BY <1>1 DEF Outdated, Failures
  <1>3. CASE EditList \/ Crash
    BY <1>2, <1>3 DEF EditList, Crash, RetryOK
  <1>4. CASE RequestDelete
    <2>1. /\ mr.phase = "live" /\ mr'.phase # "live" /\ mr'.list = mr.list
          /\ UNCHANGED <<pc, entries, failed>>
      BY <1>1, <1>4 DEF RequestDelete, Managed
    <2>2. pc # "idle" => att'.list = att.list /\ att'.deleting = att.deleting
      BY <1>1, <1>4 DEF RequestDelete, Stale, Attempts
    <2> QED BY <2>1, <2>2 DEF RetryOK, SameAgain, Held
  <1>5. CASE ParentReports \/ ParentChanges
    BY <1>5 DEF ParentReports, ParentChanges, RetryOK, SameAgain, Held
  <1>6. CASE OperatorResumes
    <2>1. mr'.phase = mr.phase /\ mr'.list = mr.list
      BY <1>1, <1>6 DEF OperatorResumes, Managed
    <2> QED BY <1>6, <2>1 DEF OperatorResumes, RetryOK, SameAgain, Held
  <1> QED BY <1>3, <1>4, <1>5, <1>6 DEF Environment

\* A list the gateway has rejected is not sent again until it is edited or the
\* provider restarts, although the ID is resolved afresh for the guard and for the
\* patch: as long as spec and reference keep leading to one instance.
THEOREM RefusedIsNotRetried == Spec => [](FixedParent => NoIdenticalRetry)
  <1> DEFINE Inv == FixedParent => RetryOK
  <1>1. Init => Inv
    BY DEF Init, RetryOK
  <1>2. ASSUME TypeOK /\ IdsOK /\ RunOK, Inv, [Next]_vars PROVE Inv'
    <2> SUFFICES ASSUME FixedParent PROVE RetryOK'
      BY DEF FixedParent, Only
    <2>1. CASE UNCHANGED vars
      BY <1>2, <2>1 DEF vars, RetryOK, SameAgain, Held
    <2> QED BY <1>2, <2>1, ObserveRetry, PatchRetry, EnvironmentRetry DEF Next, Step
  <1>3. Inv => (FixedParent => NoIdenticalRetry)
    BY DEF RetryOK, SameAgain, NoIdenticalRetry
  <1> HIDE DEF Inv
  <1> QED BY <1>1, <1>2, <1>3, AlwaysInPlace, PTL DEF Spec

-------------------------------------------------------------------------------
(* An MR that has gone leaves no list *)

\* What the instances this MR wrote to serve once it is gone.
LEMMA PlatformGone ==
  ASSUME TypeOK, RunOK, GoneClearsList, [Next]_vars, mr.phase = "gone"
  PROVE  GoneClearsList'
  <1>1. pc # "patch"
    BY DEF RunOK
  <1>2. UNCHANGED wrote
    BY <1>1 DEF Next, Step, Environment, Reconcile, ObserveGuard, ObserveAbsent, ObserveFails,
                ObserveCleared, ObserveList, PatchUnresolved, Patch, PatchFails, EditList,
                RequestDelete, ParentReports, ParentChanges, Crash, OperatorResumes, vars
  <1>3. CASE UNCHANGED served
    BY <1>2, <1>3 DEF GoneClearsList
  <1>4. CASE \E i \in Instances :
               served' = [served EXCEPT ![i] = IF @ = NoInstance THEN Empty ELSE @]
    BY <1>2, <1>4 DEF GoneClearsList, TypeOK
  <1>5. CASE \E i \in Instances : served' = [served EXCEPT ![i] = NoInstance]
    BY <1>2, <1>5 DEF GoneClearsList, TypeOK
  <1> QED
    BY <1>1, <1>3, <1>4, <1>5
    DEF Next, Step, Environment, Reconcile, ObserveGuard, ObserveAbsent, ObserveFails,
        ObserveCleared, ObserveList, PatchUnresolved, Patch, PatchFails, EditList,
        RequestDelete, ParentReports, ParentChanges, Crash, OperatorResumes, vars

\* Going: the instance has no list any more, or there is none, or the MR went
\* before it had written.
LEMMA GoesClear ==
  ASSUME TypeOK, IdsOK, RunOK, FixedParent, [Next]_vars, mr.phase # "gone", mr'.phase = "gone"
  PROVE  GoneClearsList'
  <1>1. mr \in Managed
    BY DEF TypeOK, Managed
  <1>2. CASE ObserveAbsent \/ ObserveCleared
    <2>1. pc = "get" /\ served[att.id] \in {Empty, NoInstance} /\ UNCHANGED <<served, wrote>>
      BY <1>2 DEF ObserveAbsent, ObserveCleared
    <2>2. \A i \in wrote : i = att.id
      BY <2>1 DEF IdsOK, FixedParent
    <2> QED BY <2>1, <2>2 DEF GoneClearsList
  <1>3. CASE RequestDelete
    <2>1. ~mr.finalizer /\ UNCHANGED wrote
      BY <1>1, <1>3 DEF RequestDelete, Managed
    <2> QED BY <2>1 DEF RunOK, GoneClearsList
  <1>4. ASSUME ~(ObserveAbsent \/ ObserveCleared \/ RequestDelete) PROVE FALSE
    <2>1. \/ mr' = mr \/ mr' = [mr EXCEPT !.cached = att.id]
          \/ mr' = [mr EXCEPT !.finalizer = TRUE]
          \/ mr' = [[mr EXCEPT !.finalizer = TRUE] EXCEPT !.cached = att.id]
          \/ mr' = [mr EXCEPT !.finalizer = @ \/ att.fresh]
          \/ mr' = [mr EXCEPT !.pending = FALSE]
          \/ \E l \in Lists : mr' = [mr EXCEPT !.list = l]
      BY <1>4
      DEF Next, Step, Environment, Reconcile, ObserveGuard, ObserveFails, ObserveList,
          CacheMaySettle, PatchUnresolved, Patch, PatchFails, Returns, EditList, ParentReports,
          ParentChanges, Crash, OperatorResumes, vars
    <2> QED BY <1>1, <2>1 DEF Managed
  <1> QED BY <1>2, <1>3, <1>4

\* When the MR is gone, no instance it wrote to keeps a list, whenever it was
\* deleted and whatever became of the parent: as long as spec and reference keep
\* leading to one instance.
THEOREM GoneIsCleared == Spec => [](FixedParent => GoneClearsList)
  <1> DEFINE Inv == FixedParent => GoneClearsList
  <1>1. Init => Inv
    BY DEF Init, GoneClearsList
  <1>2. ASSUME TypeOK /\ IdsOK /\ RunOK, Inv, [Next]_vars PROVE Inv'
    <2> SUFFICES ASSUME FixedParent PROVE GoneClearsList'
      BY DEF FixedParent, Only
    <2>1. CASE mr'.phase # "gone"
      BY <2>1 DEF GoneClearsList
    <2>2. CASE mr'.phase = "gone" /\ mr.phase = "gone"
      BY <1>2, <2>2, PlatformGone
    <2>3. CASE mr'.phase = "gone" /\ mr.phase # "gone"
      BY <1>2, <2>3, GoesClear
    <2> QED BY <2>1, <2>2, <2>3
  <1> HIDE DEF Inv
  <1>3. Inv => (FixedParent => GoneClearsList)
    BY DEF Inv
  <1> QED BY <1>1, <1>2, <1>3, AlwaysInPlace, PTL DEF Spec
================================================================================
