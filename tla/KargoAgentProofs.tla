---------------------------- MODULE KargoAgentProofs ----------------------------
(***************************************************************************)
(* Proofs about the reconciliation of a KargoAgent MR, for all sets of     *)
(* specs and kubeconfigs, any number of instances, faults and bounds.      *)
(***************************************************************************)
EXTENDS KargoAgent, GuardLemmas

-------------------------------------------------------------------------------
(* Type correctness *)

MRs == [phase : {"live", "deleting", "gone"}, spec : Specs, id : Ids \cup {0},
        workspace : WorkspaceNames, claimed : BOOLEAN]
Attempts == [spec : Specs, id : Ids, deleting : BOOLEAN, creating : BOOLEAN,
             expired : BOOLEAN, error : Error \cup {NoFailure},
             key : Fingerprints, used : Contents \cup {NoTarget}]
Failures == [fingerprint : Fingerprints, current : BOOLEAN, steady : BOOLEAN]

EntriesOK == WellFormed(entries, me, Fingerprints)
\* A rollback knows what it is rolled back for.
ControlOK ==
  /\ pc \in {"idle", "get", "key", "apply", "manifests", "install", "strip",
             "rollback", "delete", "deleteRow"}
  /\ att \in IF pc = "idle" THEN {NoAttempt} ELSE Attempts
  /\ pc \in {"strip", "rollback"} => att.error \in Error
WorldOK ==
  /\ parent \in {"missing", "silent", "ready"} /\ named \in WorkspaceNames
  /\ ids \in 0..MaxIds /\ instance \in {0, ids}
  /\ secret \in Contents
PlatformOK ==
  /\ row \in Specs \cup {NoRow}
  /\ agent \in {"none", "some", "all"} /\ connected \in BOOLEAN
HistoryOK == failed \in Failures \cup {NoFailure} /\ torn \in BOOLEAN

Typed ==
  /\ mr \in MRs
  /\ WorldOK /\ PlatformOK /\ EntriesOK /\ ControlOK /\ HistoryOK
  /\ spent \in Nat

LEMMA TypedSaysTypeOK == Typed => TypeOK
  <1>1. EntriesOK <=> \A e \in entries :
           /\ \E p \in Fingerprints : e.key = Key(me, p)
           /\ e.err \in Error /\ IsTerminal(e.err)
    BY DEF EntriesOK, WellFormed
  <1> QED
    BY <1>1 DEF Typed, TypeOK, ControlOK, WorldOK, PlatformOK, HistoryOK, MRs, Attempts,
                Failures

LEMMA FingerprintType ==
  ASSUME WorldOK, NEW spec \in Specs, NEW id \in Ids, NEW w \in WorkspaceNames
  PROVE  Fingerprint(spec, id, w) \in Fingerprints
  BY DEF WorldOK, Fingerprint, Fingerprints

LEMMA SpendType ==
  ASSUME spent \in Nat, Spend
  PROVE  spent' \in Nat
  BY DEF Spend

LEMMA LookupType ==
  ASSUME Typed, NEW w \in WorkspaceNames, Lookup(w)
  PROVE  spent' \in Nat /\ Filled(w) \in WorkspaceNames
  BY SpendType DEF Lookup, Filled, Typed, MRs

LEMMA FinishType ==
  ASSUME Finish
  PROVE  ControlOK'
  BY DEF Finish, ControlOK

LEMMA GotoType ==
  ASSUME ControlOK, pc # "idle",
         NEW step \in {"key", "apply", "manifests", "install", "rollback", "delete",
                       "deleteRow"},
         step = "rollback" => pc = "strip", Goto(step)
  PROVE  ControlOK'
  BY DEF Goto, ControlOK

LEMMA ClaimedType ==
  ASSUME Typed, pc # "idle", Claimed
  PROVE  mr' \in MRs
  BY DEF Typed, ControlOK, Attempts, Claimed, MRs

LEMMA FinishedType ==
  ASSUME Typed, NEW w \in WorkspaceNames, Finished(w)
  PROVE  mr' \in MRs /\ ControlOK'
  BY FinishType DEF Finished, Typed, MRs

LEMMA ContinueType ==
  ASSUME Typed, pc # "idle", Continue("key")
  PROVE  mr' \in MRs /\ ControlOK'
  BY ClaimedType, FinishType, GotoType DEF Continue, Typed

LEMMA SettleType ==
  ASSUME Typed, pc # "idle", Settle
  PROVE  mr' \in MRs /\ ControlOK'
  BY ClaimedType, FinishType DEF Settle

LEMMA AbsentType ==
  ASSUME Typed, pc = "get", Absent
  PROVE  mr' \in MRs /\ ControlOK'
  <1>1. att \in Attempts
    BY DEF Typed, ControlOK
  <1>2. mr' \in MRs
    BY ClaimedType DEF Absent, Typed, MRs
  <1>3. Finish \/ (pc' = "key" /\ att' = [att EXCEPT !.creating = TRUE])
    BY DEF Absent
  <1> QED BY <1>1, <1>2, <1>3, FinishType DEF ControlOK, Attempts

LEMMA EntriesKept ==
  ASSUME EntriesOK
  PROVE  /\ UNCHANGED entries => EntriesOK'
         /\ entries' = Without(entries, me) => EntriesOK'
         /\ entries' = {} => EntriesOK'
  BY DEF EntriesOK, WellFormed, Without

LEMMA AskedType ==
  ASSUME Typed, NEW p \in Fingerprints, NEW deleting,
         entries' = AfterSuppress(entries, Key(me, p), deleting)
  PROVE  EntriesOK'
  <1>1. AsTerminal(Opaque({})) \in Error
    BY BareErrors
  <1>2. WellFormed(AfterSuppress(entries, Key(me, p), deleting), me, Fingerprints)
    BY <1>1, EntriesStay DEF Typed, EntriesOK
  <1> QED BY <1>2 DEF EntriesOK

LEMMA GiveUpType ==
  ASSUME Typed, pc # "idle", NEW p \in Fingerprints, NEW err \in Error, GiveUp(p, err)
  PROVE  /\ mr' \in MRs /\ EntriesOK' /\ ControlOK'
         /\ failed' \in Failures \cup {NoFailure}
  <1>1. WellFormed(Recorded(entries, Key(me, p), err), me, Fingerprints)
    BY EntriesStay DEF Typed, EntriesOK
  <1>2. att.key.workspace \in WorkspaceNames
    BY DEF Typed, ControlOK, Attempts, Fingerprints
  <1>3. mr' \in MRs /\ ControlOK'
    BY <1>2, FinishedType DEF GiveUp
  <1>4. Refusal(p) \in Failures
    BY DEF Refusal, Failures
  <1> QED BY <1>1, <1>3, <1>4 DEF GiveUp, EntriesOK, Typed, HistoryOK

LEMMA ResolvedType ==
  ASSUME Typed, Resolved # 0
  PROVE  Resolved \in Ids
  BY Bounds DEF Typed, WorldOK, MRs, Resolved, Ids

\* The start of Observe, the workspace being found to be w.
ReconcileWith(w) ==
  LET p == Fingerprint(mr.spec, Resolved, Filled(w)) IN
    /\ pc = "idle" /\ mr.phase # "gone" /\ Resolved # 0
    /\ Lookup(w)
    /\ entries' = AfterSuppress(entries, Key(me, p), mr.phase = "deleting")
    /\ ~Suppresses(entries, Key(me, p), mr.phase = "deleting")
    /\ pc' = "get"
    /\ att' = [spec |-> mr.spec, id |-> Resolved, deleting |-> mr.phase = "deleting",
               creating |-> FALSE, expired |-> FALSE, error |-> NoFailure,
               key |-> p, used |-> NoTarget]
    /\ failed' = LookedUp(failed, w)
    /\ UNCHANGED <<mr, world, platform, torn>>

LEMMA ReconcileCases ==
  ASSUME Reconcile
  PROVE  \E w \in WorkspaceNames : ReconcileWith(w)
  BY DEF Reconcile, ReconcileWith, AskedWorkspace

LEMMA ObserveType ==
  ASSUME Typed, Observe
  PROVE  Typed'
  <1>1. CASE Reconcile
    <2>1. PICK w \in WorkspaceNames : ReconcileWith(w)
      BY <1>1, ReconcileCases
    <2> DEFINE p == Fingerprint(mr.spec, Resolved, Filled(w))
    <2>2. Resolved \in Ids /\ mr.spec \in Specs
      BY <2>1, ResolvedType DEF ReconcileWith, Typed, MRs
    <2>3. p \in Fingerprints /\ spent' \in Nat
      BY <2>1, <2>2, FingerprintType, LookupType DEF ReconcileWith, Typed
    <2>4. EntriesOK'
      BY <2>1, <2>3, AskedType DEF ReconcileWith
    <2>5. ControlOK'
      BY <2>1, <2>2, <2>3 DEF ReconcileWith, ControlOK, Attempts
    <2>6. failed' \in Failures \cup {NoFailure}
      BY <2>1 DEF ReconcileWith, LookedUp, Typed, HistoryOK, Failures
    <2> QED BY <2>1, <2>3, <2>4, <2>5, <2>6
        DEF ReconcileWith, world, platform, Typed, WorldOK, PlatformOK, HistoryOK
  <1>2. CASE ObserveAbsent
    BY <1>2, AbsentType, EntriesKept
    DEF ObserveAbsent, world, platform, history, Typed, WorldOK, PlatformOK, HistoryOK
  <1>3. CASE ObserveFails
    <2>1. mr' \in MRs /\ ControlOK'
      <3>1. \/ Absent
            \/ Finish /\ UNCHANGED mr
            \/ Goto("delete") /\ UNCHANGED mr
            \/ Settle
        BY <1>3 DEF ObserveFails
      <3> QED BY <1>3, <3>1, AbsentType, SettleType, FinishType, GotoType
          DEF ObserveFails, Typed
    <2> QED BY <1>3, <2>1, SpendType, EntriesKept
        DEF ObserveFails, world, platform, history, Typed, WorldOK, PlatformOK,
            HistoryOK
  <1>4. CASE ObserveRow
    <2>1. mr' \in MRs /\ ControlOK'
      <3>1. \/ (Finish \/ Goto("delete")) /\ UNCHANGED mr
            \/ Continue("key")
            \/ Settle
        BY <1>4 DEF ObserveRow
      <3> QED BY <1>4, <3>1, FinishType, GotoType, ContinueType, SettleType
          DEF ObserveRow, Typed
    <2>2. Fingerprint(att.spec, att.id, att.key.workspace) \in Fingerprints
      BY <1>4, FingerprintType DEF ObserveRow, Typed, ControlOK, Attempts, Fingerprints
    <2>3. EntriesOK'
      BY <1>4, <2>2, AskedType, EntriesKept DEF ObserveRow, WriteKey, Typed
    <2> QED BY <1>4, <2>1, <2>3
        DEF ObserveRow, world, platform, history, Typed, WorldOK, PlatformOK, HistoryOK
  <1> QED BY <1>1, <1>2, <1>3, <1>4 DEF Observe

\* The errors a Create or an Update ends with.
LEMMA WriteErrors ==
  /\ ClassifyApplyError(GatewayError("NotFound", {})) \in Error
  /\ ClassifyApplyError(GatewayError("InvalidArgument", {})) \in Error
  /\ \A f \in WriteFaults : ClassifyApplyError(f) \in Error
  /\ FetchErrors \subseteq Error
  /\ Opaque({}) \in Error /\ AsNotFound(Opaque({})) \in Error
  <1>1. /\ GatewayError("NotFound", {}) \in Error
        /\ GatewayError("InvalidArgument", {}) \in Error
    BY BareErrors DEF Codes
  <1>2. \A f \in WriteFaults : f \in Error
    BY FaultsAreErrors
  <1>3. AsNotReconciled(Opaque({"has not yet been reconciled"})) \in Error
    <2>1. "opaque" \in Codes /\ {"has not yet been reconciled"} \in SUBSET Texts
      BY DEF Codes, Texts
    <2>2. Opaque({"has not yet been reconciled"}) \in Error
      BY <2>1, ConstructedErrors DEF Opaque
    <2> QED BY <2>2, TaggedErrors
  <1>4. FetchErrors \subseteq Error
    BY <1>3, FaultsAreErrors DEF FetchErrors
  <1> QED BY <1>1, <1>2, <1>4, BareErrors, ClassifiedErrors

LEMMA WriteType ==
  ASSUME Typed, Write
  PROVE  Typed'
  <1>1. CASE BuildRequest
    <2>1. att \in Attempts /\ pc = "key"
      BY <1>1 DEF BuildRequest, Typed, ControlOK
    <2>2. PICK w \in WorkspaceNames :
            /\ Lookup(w)
            /\ \/ Finished(Filled(w))
               \/ /\ pc' = "apply" /\ UNCHANGED mr
                  /\ att' = [att EXCEPT !.key = Fingerprint(att.spec, att.id, Filled(w))]
      BY <1>1 DEF BuildRequest
    <2>3. spent' \in Nat /\ Filled(w) \in WorkspaceNames
      BY <2>2, LookupType
    <2>4. Fingerprint(att.spec, att.id, Filled(w)) \in Fingerprints
      BY <2>1, <2>3, FingerprintType DEF Typed, Attempts
    <2>5. mr' \in MRs /\ ControlOK'
      <3>1. CASE Finished(Filled(w))
        BY <2>3, <3>1, FinishedType
      <3>2. CASE pc' = "apply" /\ UNCHANGED mr
                 /\ att' = [att EXCEPT !.key = Fingerprint(att.spec, att.id, Filled(w))]
        BY <2>1, <2>4, <3>2 DEF ControlOK, Attempts, Typed
      <3> QED BY <2>2, <3>1, <3>2
    <2> QED BY <1>1, <2>3, <2>5, EntriesKept
        DEF BuildRequest, world, platform, history, Typed, WorldOK, PlatformOK, HistoryOK
  <1>2. CASE Apply
    <2>0. att.key.workspace \in WorkspaceNames
      BY <1>2 DEF Apply, Typed, ControlOK, Attempts, Fingerprints
    <2>1. mr' \in MRs /\ ControlOK'
      BY <1>2, <2>0, FinishedType, GotoType DEF Apply, Typed
    <2>2. row' \in Specs
      BY <1>2 DEF Apply, Typed, ControlOK, Attempts
    <2> QED BY <1>2, <2>1, <2>2, EntriesKept
        DEF Apply, world, history, Typed, WorldOK, PlatformOK, HistoryOK
  <1>3. CASE ApplyFails
    <2>1. att.key \in Fingerprints /\ att.spec \in Specs
      BY <1>3 DEF ApplyFails, Typed, ControlOK, Attempts
    <2>2. PICK err \in Error : GiveUp(att.key, err)
      BY <1>3, WriteErrors DEF ApplyFails
    <2>3. row' \in Specs \cup {NoRow}
      BY <1>3, <2>1 DEF ApplyFails, Typed, PlatformOK
    <2>4. mr' \in MRs /\ EntriesOK' /\ ControlOK' /\ failed' \in Failures \cup {NoFailure}
      BY <1>3, <2>1, <2>2, GiveUpType DEF ApplyFails
    <2> QED BY <1>3, <2>3, <2>4, SpendType
        DEF ApplyFails, world, Typed, WorldOK, PlatformOK, HistoryOK
  <1> QED BY <1>1, <1>2, <1>3 DEF Write

LEMMA InstallType ==
  ASSUME Typed, InstallAgent
  PROVE  Typed'
  <1>1. CASE FetchManifests
    <2>1. ControlOK'
      <3>1. \/ Goto("install")
            \/ \E err \in Error, late \in BOOLEAN :
                 pc' = "strip" /\ att' = [att EXCEPT !.error = err, !.expired = late]
            \/ pc' = "strip" /\ att' = [att EXCEPT !.error = AsNotFound(Opaque({}))]
        BY <1>1, WriteErrors DEF FetchManifests
      <3>2. att \in Attempts /\ pc = "manifests"
        BY <1>1 DEF FetchManifests, Typed, ControlOK
      <3> QED BY <3>1, <3>2, GotoType, WriteErrors DEF Typed, ControlOK, Attempts
    <2> QED BY <1>1, <2>1, SpendType, EntriesKept
        DEF FetchManifests, world, platform, history, Typed, WorldOK, PlatformOK,
            HistoryOK
  <1>2. CASE Install
    <2>1. att.key.workspace \in WorkspaceNames
      BY <1>2 DEF Install, Typed, ControlOK, Attempts, Fingerprints
    <2>2. mr' \in MRs /\ ControlOK'
      BY <1>2, <2>1, FinishedType DEF Install
    <2> QED BY <1>2, <2>2, EntriesKept
        DEF Install, world, history, Typed, WorldOK, PlatformOK, HistoryOK
  <1>3. CASE InstallFails
    <2>1. ControlOK'
      BY <1>3, WriteErrors DEF InstallFails, Typed, ControlOK, WorldOK, Attempts
    <2> QED BY <1>3, <2>1, SpendType, EntriesKept
        DEF InstallFails, world, history, Typed, WorldOK, PlatformOK, HistoryOK
  <1>4. CASE RollbackStrip
    <2>1. ControlOK'
      BY <1>4, GotoType DEF RollbackStrip, Typed
    <2>2. agent' \in {"none", "some", "all"} /\ torn' \in BOOLEAN
      BY <1>4 DEF RollbackStrip, Typed, PlatformOK, HistoryOK
    <2> QED BY <1>4, <2>1, <2>2, SpendType, EntriesKept
        DEF RollbackStrip, world, Typed, WorldOK, PlatformOK, HistoryOK
  <1>5. CASE Rollback
    <2>1. /\ Fingerprint(att.spec, att.id, att.key.workspace) \in Fingerprints
          /\ att.error \in Error
      BY <1>5, FingerprintType DEF Rollback, Typed, ControlOK, Attempts, Fingerprints
    <2>2. mr' \in MRs /\ EntriesOK' /\ ControlOK' /\ failed' \in Failures \cup {NoFailure}
      BY <1>5, <2>1, GiveUpType, ClassifiedErrors DEF Rollback
    <2>3. row' \in Specs \cup {NoRow} /\ torn' \in BOOLEAN /\ spent' \in Nat
      BY <1>5, SpendType DEF Rollback, Typed, PlatformOK, HistoryOK
    <2> QED BY <1>5, <2>2, <2>3 DEF Rollback, world, Typed, WorldOK, PlatformOK, HistoryOK
  <1> QED BY <1>1, <1>2, <1>3, <1>4, <1>5 DEF InstallAgent

LEMMA DeleteType ==
  ASSUME Typed, Delete
  PROVE  Typed'
  <1>1. CASE DeleteStrip
    <2>1. ControlOK'
      BY <1>1, GotoType, FinishType DEF DeleteStrip, Typed
    <2>2. agent' \in {"none", "some", "all"} /\ spent' \in Nat
      BY <1>1, SpendType DEF DeleteStrip, Typed, PlatformOK
    <2> QED BY <1>1, <2>1, <2>2, EntriesKept
        DEF DeleteStrip, world, history, Typed, WorldOK, PlatformOK, HistoryOK
  <1>2. CASE DeleteRow
    <2>1. row' \in Specs \cup {NoRow} /\ spent' \in Nat
      BY <1>2, SpendType DEF DeleteRow, Typed, PlatformOK
    <2> QED BY <1>2, <2>1, FinishType, EntriesKept
        DEF DeleteRow, world, history, Typed, WorldOK, PlatformOK, HistoryOK
  <1> QED BY <1>1, <1>2 DEF Delete

LEMMA EnvironmentType ==
  ASSUME Typed, Environment
  PROVE  Typed'
  <1> USE DEF Environment, EditSpec, RequestDelete, RotateSecret, AgentConnects,
              AgentDisconnects, ParentCreates, ParentReports, ParentNames, ParentChanges,
              Crash, world, platform, history
  <1>1. mr' \in MRs
    BY DEF Typed, MRs
  <1>2. WorldOK'
    BY Bounds DEF Typed, WorldOK, WorkspaceNames
  <1>3. PlatformOK'
    BY DEF Typed, PlatformOK
  <1>4. EntriesOK'
    BY EntriesKept DEF Typed
  <1>5. ControlOK'
    BY FinishType DEF Typed, ControlOK
  <1>6. HistoryOK'
    <2>1. Outdated(failed) \in Failures \cup {NoFailure}
      BY DEF Typed, HistoryOK, Outdated, Failures
    <2> QED BY <2>1 DEF Typed, HistoryOK
  <1>7. spent' \in Nat
    BY SpendType DEF Typed
  <1> QED BY <1>1, <1>2, <1>3, <1>4, <1>5, <1>6, <1>7 DEF Typed

LEMMA InitType == Init => Typed
  <1> SUFFICES ASSUME Init PROVE Typed
    OBVIOUS
  <1>1. mr \in MRs
    BY DEF Init, MRs
  <1>2. 0 \in 0..MaxIds
    BY Bounds
  <1>3. WorldOK /\ PlatformOK
    BY <1>2 DEF Init, WorldOK, PlatformOK
  <1>4. EntriesOK
    BY DEF Init, EntriesOK, WellFormed
  <1> QED BY <1>1, <1>3, <1>4 DEF Init, Typed, ControlOK, HistoryOK

LEMMA AlwaysTyped == Spec => []Typed
<1>1. Typed /\ [Next]_vars => Typed'
  <2> SUFFICES ASSUME Typed, [Next]_vars PROVE Typed'
    OBVIOUS
  <2>1. CASE UNCHANGED vars
    BY <2>1, EntriesKept
    DEF vars, world, platform, history, Typed, WorldOK, PlatformOK, ControlOK, HistoryOK
  <2> QED BY <2>1, ObserveType, WriteType, InstallType, DeleteType, EnvironmentType
      DEF Next, Step
<1> QED BY <1>1, InitType, PTL DEF Spec

\* Every variable keeps its type, for all specs, kubeconfigs and numbers of instances.
THEOREM TypeCorrect == Spec => []TypeOK
  BY AlwaysTyped, TypedSaysTypeOK, PTL

-------------------------------------------------------------------------------
(* The claim *)

\* An MR gets the ID of its instance with the finalizer and keeps both; every step
\* past Observe is that of a claimed MR, and carries its ID and, if it names one, its
\* workspace.
ClaimOK ==
  /\ mr.claimed <=> mr.id # 0
  /\ mr.phase = "deleting" => mr.claimed
  /\ pc # "idle" =>
       /\ mr.claimed => att.id = mr.id
       /\ pc # "get" => mr.claimed
       /\ att.deleting => mr.phase = "deleting" /\ att.spec = mr.spec
       /\ IF pc \in {"delete", "deleteRow"} THEN att.deleting
          ELSE pc # "get" => ~att.deleting
       /\ att.key.spec = att.spec /\ att.key.id = att.id
       /\ mr.workspace \in {NoWorkspace, att.key.workspace}
  /\ mr.phase = "gone" => pc = "idle" \/ (pc = "get" /\ ~mr.claimed)

\* The MR stays as it is, but for its workspace.
MrKept ==
  /\ mr'.spec = mr.spec /\ mr'.phase = mr.phase
  /\ mr'.id = mr.id /\ mr'.claimed = mr.claimed

LEMMA FinishedEffect ==
  ASSUME Typed, NEW w, Finished(w)
  PROVE  MrKept /\ pc' = "idle" /\ mr'.workspace \in {mr.workspace, w}
  BY DEF Finished, Finish, MrKept, Typed, MRs

\* What Claimed does: nothing to an MR that has been claimed or written since.
LEMMA ClaimedEffect ==
  ASSUME Typed, pc # "idle", Claimed
  PROVE  /\ mr'.spec = mr.spec /\ mr'.phase = mr.phase
         /\ mr'.workspace = mr.workspace
         /\ IF ~mr.claimed /\ Fresh THEN mr'.claimed /\ mr'.id = att.id
            ELSE mr' = mr
         /\ MayGoOn => mr'.claimed
  <1>1. mr \in MRs
    BY DEF Typed
  <1> QED BY <1>1 DEF Claimed, Claims, MayGoOn, MRs

\* What one step of Observe may do, whatever it finds.
LEMMA ObserveCases ==
  ASSUME Typed, Observe, ~Reconcile
  PROVE  /\ pc = "get" /\ att \in Attempts
         /\ UNCHANGED <<world, platform, history>>
         /\ \/ /\ att.deleting /\ mr' = [mr EXCEPT !.phase = "gone"] /\ pc' = "idle"
            \/ /\ Claimed /\ (~att.deleting \/ UNCHANGED mr \/ pc' = "idle")
               /\ \/ pc' = "idle"
                  \/ /\ pc' = "key" /\ MayGoOn /\ ~att.deleting
                     /\ att'.spec = att.spec /\ att'.id = att.id
                     /\ att'.key = att.key /\ att'.deleting = att.deleting
            \/ UNCHANGED mr /\ pc' = "idle"
            \/ UNCHANGED <<mr, att>> /\ att.deleting /\ pc' = "delete"
  <1>1. pc = "get" /\ att \in Attempts /\ UNCHANGED <<world, platform, history>>
    BY DEF Observe, ObserveAbsent, ObserveFails, ObserveRow, Typed, ControlOK
  <1> DEFINE Result ==
         \/ /\ att.deleting /\ mr' = [mr EXCEPT !.phase = "gone"] /\ pc' = "idle"
         \/ /\ Claimed /\ (~att.deleting \/ UNCHANGED mr \/ pc' = "idle")
            /\ \/ pc' = "idle"
               \/ /\ pc' = "key" /\ MayGoOn /\ ~att.deleting
                  /\ att'.spec = att.spec /\ att'.id = att.id
                  /\ att'.key = att.key /\ att'.deleting = att.deleting
         \/ UNCHANGED mr /\ pc' = "idle"
         \/ UNCHANGED <<mr, att>> /\ att.deleting /\ pc' = "delete"
  <1>2. Absent => Result
    BY <1>1 DEF Absent, Finish, Attempts
  <1>3. Continue("key") /\ ~att.deleting => Result
    BY DEF Continue, Goto, Finish
  <1>4. Settle => Result
    BY DEF Settle, Finish
  <1>5. Finish /\ UNCHANGED mr => Result
    BY DEF Finish
  <1>6. Goto("delete") /\ att.deleting /\ UNCHANGED mr => Result
    BY DEF Goto
  <1> HIDE DEF Result
  <1>7. ObserveAbsent => Result
    BY <1>2 DEF ObserveAbsent
  <1>8. ObserveFails => Result
    BY <1>2, <1>4, <1>5, <1>6 DEF ObserveFails
  <1>9. ObserveRow => Result
    BY <1>3, <1>4, <1>5, <1>6 DEF ObserveRow
  <1> QED BY <1>1, <1>7, <1>8, <1>9 DEF Observe, Result

LEMMA ReconcileClaim ==
  ASSUME Typed, ClaimOK, Reconcile
  PROVE  ClaimOK'
  <1>1. PICK w \in WorkspaceNames : ReconcileWith(w)
    BY ReconcileCases
  <1>2. /\ pc = "idle" /\ pc' = "get" /\ mr.phase \in {"live", "deleting"}
        /\ att'.spec = mr.spec /\ att'.id = Resolved
        /\ att'.deleting = (mr.phase = "deleting")
        /\ att'.key = Fingerprint(mr.spec, Resolved, Filled(w)) /\ UNCHANGED mr
    BY <1>1 DEF ReconcileWith, Typed, MRs
  <1>3. mr.claimed => Resolved = mr.id
    BY DEF ClaimOK, Resolved
  <1>4. /\ att'.key.spec = att'.spec /\ att'.key.id = att'.id
        /\ mr'.workspace \in {NoWorkspace, att'.key.workspace}
    BY <1>2 DEF Fingerprint, Filled
  <1>5. mr'.claimed => att'.id = mr'.id
    BY <1>2, <1>3
  <1> QED BY <1>2, <1>4, <1>5 DEF ClaimOK

LEMMA ObserveClaim ==
  ASSUME Typed, ClaimOK, Observe, ~Reconcile
  PROVE  ClaimOK'
  <1>1. /\ pc = "get" /\ att \in Attempts /\ mr \in MRs /\ att.id # 0
    BY ObserveCases DEF Typed, Attempts, Ids
  <1>2. CASE att.deleting /\ mr' = [mr EXCEPT !.phase = "gone"] /\ pc' = "idle"
    BY <1>1, <1>2 DEF ClaimOK, MRs
  <1>3. CASE UNCHANGED mr /\ pc' = "idle"
    BY <1>1, <1>3 DEF ClaimOK
  <1>4. CASE UNCHANGED <<mr, att>> /\ att.deleting /\ pc' = "delete"
    BY <1>1, <1>4 DEF ClaimOK
  <1>5. CASE /\ Claimed
             /\ \/ pc' = "idle"
                \/ /\ pc' = "key" /\ MayGoOn /\ ~att.deleting
                   /\ att'.spec = att.spec /\ att'.id = att.id
                   /\ att'.key = att.key /\ att'.deleting = att.deleting
    <2>1. mr'.claimed <=> mr'.id # 0
      BY <1>1, <1>5, ClaimedEffect DEF ClaimOK, MRs
    <2>2. mr'.phase = mr.phase /\ (mr.claimed => mr' = mr)
      BY <1>1, <1>5, ClaimedEffect
    <2>3. pc' = "key" => mr'.claimed /\ att'.id = mr'.id
      BY <1>1, <1>5, ClaimedEffect DEF ClaimOK
    <2>4. pc' = "key" => mr'.phase # "gone"
      BY <1>1, <1>5, <2>2 DEF ClaimOK, MayGoOn, Fresh
    <2>5. mr'.phase = "deleting" => mr'.claimed
      BY <2>2 DEF ClaimOK
    <2>6. pc' = "key" =>
            /\ att'.key.spec = att'.spec /\ att'.key.id = att'.id /\ ~att'.deleting
            /\ mr'.workspace \in {NoWorkspace, att'.key.workspace}
      BY <1>1, <1>5, ClaimedEffect DEF ClaimOK
    <2>7. pc' # "key" => pc' = "idle"
      BY <1>5
    <2> QED BY <2>1, <2>3, <2>4, <2>5, <2>6, <2>7 DEF ClaimOK
  <1> QED BY <1>2, <1>3, <1>4, <1>5, ObserveCases

\* The steps past Observe leave the MR alone, but for its workspace, and carry on with
\* their copy of it.
LEMMA LaterClaim ==
  ASSUME Typed, ClaimOK, Write \/ InstallAgent \/ Delete
  PROVE  ClaimOK' /\ MrKept
  <1>1. att \in Attempts /\ pc \notin {"idle", "get"}
    BY DEF Write, BuildRequest, Apply, ApplyFails, InstallAgent, FetchManifests, Install,
           InstallFails, RollbackStrip, Rollback, Delete, DeleteStrip, DeleteRow, Typed,
           ControlOK
  <1> DEFINE Ends == \E w \in WorkspaceNames : Finished(w)
             Carries ==
               /\ UNCHANGED mr
               /\ att'.spec = att.spec /\ att'.id = att.id
               /\ att'.deleting = att.deleting
               /\ \/ /\ att'.key.spec = att.spec /\ att'.key.id = att.id
                     /\ mr.workspace \in {NoWorkspace, att'.key.workspace}
                  \/ att'.key = att.key
               /\ \/ pc = "delete" /\ pc' = "deleteRow"
                  \/ pc \notin {"delete", "deleteRow"}
                     /\ pc' \in {"apply", "manifests", "install", "strip", "rollback"}
  <1>2. att.key.workspace \in WorkspaceNames
    BY <1>1 DEF Attempts, Fingerprints
  <1>3. ASSUME Write
        PROVE  Ends \/ Carries
    <2>1. CASE BuildRequest
      <3>1. PICK w \in WorkspaceNames :
              /\ Lookup(w)
              /\ \/ Finished(Filled(w))
                 \/ /\ pc' = "apply" /\ UNCHANGED mr
                    /\ att' = [att EXCEPT !.key = Fingerprint(att.spec, att.id, Filled(w))]
        BY <2>1 DEF BuildRequest
      <3>2. Filled(w) \in WorkspaceNames /\ mr.workspace \in {NoWorkspace, Filled(w)}
        BY <3>1, LookupType DEF Filled
      <3>3. pc = "key"
        BY <2>1 DEF BuildRequest
      <3> QED BY <1>1, <3>1, <3>2, <3>3 DEF Attempts, Fingerprint
    <2>2. CASE Apply
      BY <1>1, <1>2, <2>2 DEF Apply, Goto
    <2>3. CASE ApplyFails
      BY <1>2, <2>3 DEF ApplyFails, GiveUp
    <2> QED BY <1>3, <2>1, <2>2, <2>3 DEF Write
  <1>4. ASSUME InstallAgent
        PROVE  Ends \/ Carries
    BY <1>1, <1>2, <1>4 DEF InstallAgent, FetchManifests, Install, InstallFails,
                            RollbackStrip, Rollback, GiveUp, Goto, Attempts
  <1>5. ASSUME Delete
        PROVE  Carries \/ (UNCHANGED mr /\ pc' = "idle")
    BY <1>1, <1>5 DEF Delete, DeleteStrip, DeleteRow, Goto, Finish
  <1>6. CASE Carries
    BY <1>1, <1>6 DEF ClaimOK, MrKept
  <1>7. CASE MrKept /\ pc' = "idle"
    BY <1>1, <1>7 DEF ClaimOK, MrKept
  <1>8. Ends => MrKept /\ pc' = "idle"
    BY FinishedEffect
  <1>9. UNCHANGED mr => MrKept
    BY DEF MrKept
  <1> QED BY <1>3, <1>4, <1>5, <1>6, <1>7, <1>8, <1>9

LEMMA EnvironmentClaim ==
  ASSUME Typed, ClaimOK, Environment
  PROVE  ClaimOK'
  <1>1. mr \in MRs
    BY DEF Typed
  <1>2. CASE EditSpec
    BY <1>1, <1>2 DEF EditSpec, ClaimOK, MRs
  <1>3. CASE RequestDelete
    BY <1>1, <1>3 DEF RequestDelete, ClaimOK, MRs
  <1>4. CASE ~EditSpec /\ ~RequestDelete
    <2>1. UNCHANGED mr /\ (pc' = "idle" \/ UNCHANGED <<pc, att>>)
      BY <1>4 DEF Environment, RotateSecret, AgentConnects, AgentDisconnects,
                  ParentCreates, ParentReports, ParentNames, ParentChanges, Crash, Finish
    <2> QED BY <2>1 DEF ClaimOK
  <1> QED BY <1>2, <1>3, <1>4

LEMMA AlwaysClaimed == Spec => []ClaimOK
<1>1. Init => ClaimOK
  BY DEF Init, ClaimOK
<1>2. Typed /\ ClaimOK /\ [Next]_vars => ClaimOK'
  <2> SUFFICES ASSUME Typed, ClaimOK, [Next]_vars PROVE ClaimOK'
    OBVIOUS
  <2>1. CASE UNCHANGED vars
    BY <2>1 DEF vars, ClaimOK
  <2> QED BY <2>1, ReconcileClaim, ObserveClaim, LaterClaim, EnvironmentClaim
      DEF Next, Step
<1> QED BY <1>1, <1>2, AlwaysTyped, PTL DEF Spec

-------------------------------------------------------------------------------
(* A recorded write is not sent again *)

\* The last recorded write, as long as all it depends on is still the same, the
\* workspace that is looked up included.
Standing == failed # NoFailure /\ failed.current /\ failed.steady
Stands == failed.fingerprint

\* Between two reconciles the guard answers for the write that stands, if the spec
\* still asks for it; a reconcile under way asks for something else.
StandingOK ==
  /\ failed # NoFailure => mr.claimed /\ Stands.id = mr.id
  /\ Standing =>
       /\ Stands = Fingerprint(Stands.spec, Stands.id, Stands.workspace)
       /\ pc = "idle" /\ mr.phase = "live" /\ mr.spec = Stands.spec =>
            /\ Holds(entries, Stands)
            /\ mr.workspace \in {NoWorkspace, Stands.workspace}
       /\ pc # "idle" /\ ~att.deleting =>
            att.spec # Stands.spec /\ mr.spec # Stands.spec

\* A reconcile that records nothing keeps it so, whatever it does to the map: its
\* spec is not the one that stands.
LEMMA StandingKept ==
  ASSUME Typed, ClaimOK, StandingOK, pc # "idle",
         UNCHANGED <<secret, failed>>, mr'.spec = mr.spec,
         mr.claimed => mr'.claimed /\ mr'.id = mr.id,
         mr.phase # "live" => mr'.phase # "live",
         pc' = "idle" \/ (att'.spec = att.spec /\ att'.deleting = att.deleting)
  PROVE  StandingOK'
  <1>1. Standing' <=> Standing
    BY DEF Standing
  <1>2. failed' # NoFailure => mr'.claimed /\ Stands'.id = mr'.id
    BY DEF StandingOK, Stands
  <1>3. ASSUME Standing
        PROVE  /\ Stands' = Fingerprint(Stands.spec, Stands.id, Stands.workspace)'
               /\ ~att.deleting =>
                    att.spec # Stands.spec /\ mr'.spec # Stands'.spec
    BY <1>3 DEF StandingOK, Fingerprint, Stands
  <1>4. ASSUME att.deleting
        PROVE  mr'.phase # "live"
    BY <1>4 DEF ClaimOK
  <1> QED BY <1>1, <1>2, <1>3, <1>4 DEF StandingOK, Stands, Fingerprint

LEMMA ReconcileStanding ==
  ASSUME Typed, ClaimOK, StandingOK, Reconcile
  PROVE  StandingOK'
  <1>1. PICK w \in WorkspaceNames : ReconcileWith(w)
    BY ReconcileCases
  <1> DEFINE p == Fingerprint(mr.spec, Resolved, Filled(w))
  <1>2. /\ pc = "idle" /\ pc' = "get" /\ UNCHANGED <<mr, secret>>
        /\ failed' = LookedUp(failed, w)
        /\ mr.phase \in {"live", "deleting"}
        /\ att'.spec = mr.spec /\ att'.deleting = (mr.phase = "deleting")
        /\ ~Suppresses(entries, Key(me, p), mr.phase = "deleting")
    BY <1>1 DEF ReconcileWith, world, Typed, MRs
  <1>3. failed' # NoFailure => failed # NoFailure /\ Stands' = Stands
    BY <1>2 DEF LookedUp, Stands, Typed, HistoryOK, Failures
  <1>4. ASSUME Standing'
        PROVE  /\ Standing /\ Stands' = Stands
               /\ mr.workspace = NoWorkspace => w = Stands.workspace
    BY <1>2, <1>4 DEF Standing, LookedUp, Stands, Typed, HistoryOK, Failures
  <1>5. ASSUME Standing', mr.phase = "live"
        PROVE  mr.spec # Stands.spec
    <2>1. Resolved = Stands.id
      BY <1>4, <1>5 DEF StandingOK, Standing, ClaimOK, Resolved
    <2>2. SUFFICES ASSUME mr.spec = Stands.spec PROVE FALSE
      OBVIOUS
    <2>3. Filled(w) = Stands.workspace
      BY <1>2, <1>4, <1>5, <2>2 DEF StandingOK, Filled
    <2>4. p = Stands
      BY <1>4, <1>5, <2>1, <2>2, <2>3 DEF StandingOK
    <2>5. Holds(entries, p)
      BY <1>2, <1>4, <1>5, <2>2, <2>4 DEF StandingOK
    <2>6. OwnEntries(entries, me)
      BY DEF Typed, EntriesOK, WellFormed, OwnEntries
    <2>7. Suppresses(entries, Key(me, p), mr.phase = "deleting")
      BY <1>5, <2>5, <2>6, AskedOnce
    <2> QED BY <1>2, <2>7
  <1>6. Standing' => Stands' = Fingerprint(Stands.spec, Stands.id, Stands.workspace)'
    BY <1>2, <1>4 DEF StandingOK, Stands, Fingerprint
  <1>7. failed' # NoFailure => mr'.claimed /\ Stands'.id = mr'.id
    BY <1>2, <1>3 DEF StandingOK
  <1> QED BY <1>2, <1>4, <1>5, <1>6, <1>7 DEF StandingOK

\* What is recorded is on file; what is not worth recording leaves the older one.
LEMMA GiveUpStanding ==
  ASSUME Typed, ClaimOK, StandingOK, pc \in {"apply", "rollback"},
         NEW p \in Fingerprints, p.id = att.id, p.workspace = att.key.workspace,
         NEW err \in Error, GiveUp(p, err), UNCHANGED secret
  PROVE  StandingOK'
  <1>1. pc' = "idle" /\ MrKept /\ mr'.workspace \in {mr.workspace, p.workspace}
    BY FinishedEffect DEF GiveUp
  <1>2. CASE ~IsTerminal(err)
    <2>1. UNCHANGED failed
      BY <1>2 DEF GiveUp
    <2> QED BY <1>1, <2>1, StandingKept DEF MrKept
  <1>3. CASE IsTerminal(err)
    <2>1. /\ failed' = Refusal(p)
          /\ entries' = Recorded(entries, Key(me, p), err)
      BY <1>3 DEF GiveUp
    <2>2. OwnEntries(entries, me)
      BY DEF Typed, EntriesOK, WellFormed, OwnEntries
    <2>3. entries' = {[key |-> Key(me, p), err |-> err]}
      BY <1>3, <2>1, <2>2, RecordedOnly
    <2>4. Holds(entries', p)
      BY <2>3, KeyOfObject DEF Holds
    <2>5. Stands' = p /\ mr'.claimed /\ p.id = mr'.id
      BY <1>1, <2>1 DEF Stands, Refusal, ClaimOK, MrKept
    <2>6. Standing' => p = Fingerprint(p.spec, p.id, p.workspace)'
      <3>1. Standing' => p = Fingerprint(att.spec, att.id, p.workspace)
        BY <2>1 DEF Standing, Refusal
      <3>2. p = Fingerprint(att.spec, att.id, p.workspace)
            => p = Fingerprint(p.spec, p.id, p.workspace)
        BY DEF Fingerprint
      <3>3. Fingerprint(p.spec, p.id, p.workspace)' = Fingerprint(p.spec, p.id, p.workspace)
        BY DEF Fingerprint
      <3> QED BY <3>1, <3>2, <3>3
    <2>7. mr'.workspace \in {NoWorkspace, p.workspace}
      BY <1>1 DEF ClaimOK
    <2> QED BY <1>1, <2>4, <2>5, <2>6, <2>7 DEF StandingOK
  <1> QED BY <1>2, <1>3

LEMMA ObserveStanding ==
  ASSUME Typed, ClaimOK, StandingOK, Observe, ~Reconcile
  PROVE  StandingOK'
  <1>1. mr \in MRs /\ pc = "get" /\ UNCHANGED <<secret, failed>>
    BY ObserveCases DEF Typed, world, history
  <1>2. mr'.spec = mr.spec /\ (mr.claimed => mr'.claimed /\ mr'.id = mr.id)
    BY <1>1, ObserveCases, ClaimedEffect DEF MRs
  <1>3. mr.phase # "live" => mr'.phase # "live"
    BY <1>1, ObserveCases, ClaimedEffect DEF MRs
  <1>4. pc' = "idle" \/ (att'.spec = att.spec /\ att'.deleting = att.deleting)
    BY ObserveCases
  <1> QED BY <1>1, <1>2, <1>3, <1>4, StandingKept

LEMMA WriteStanding ==
  ASSUME Typed, ClaimOK, StandingOK, Write
  PROVE  StandingOK'
  <1>1. att \in Attempts /\ pc \in {"key", "apply"} /\ UNCHANGED secret /\ MrKept
    BY LaterClaim
    DEF Write, BuildRequest, Apply, ApplyFails, world, Typed, ControlOK
  <1>2. CASE BuildRequest \/ Apply
    <2>1. pc' = "idle" \/ (att'.spec = att.spec /\ att'.deleting = att.deleting)
      BY <1>1, <1>2 DEF BuildRequest, Apply, Goto, Finished, Finish, Attempts
    <2>2. UNCHANGED failed
      BY <1>2 DEF BuildRequest, Apply, history
    <2> QED BY <1>1, <2>1, <2>2, StandingKept DEF MrKept
  <1>3. CASE ApplyFails
    <2>1. PICK err \in Error : GiveUp(att.key, err)
      BY <1>3, WriteErrors DEF ApplyFails
    <2>2. att.key \in Fingerprints /\ pc = "apply"
      BY <1>1, <1>3 DEF Attempts, ApplyFails
    <2>3. att.key.id = att.id
      BY <2>2 DEF ClaimOK
    <2> QED BY <1>1, <2>1, <2>2, <2>3, GiveUpStanding
  <1> QED BY <1>2, <1>3 DEF Write

LEMMA InstallStanding ==
  ASSUME Typed, ClaimOK, StandingOK, InstallAgent
  PROVE  StandingOK'
  <1>1. /\ att \in Attempts /\ UNCHANGED secret /\ MrKept
        /\ pc \in {"manifests", "install", "strip", "rollback"}
    BY LaterClaim
    DEF InstallAgent, FetchManifests, Install, InstallFails, RollbackStrip, Rollback,
        world, Typed, ControlOK
  <1>2. CASE InstallAgent /\ ~Rollback
    <2>1. pc' = "idle" \/ (att'.spec = att.spec /\ att'.deleting = att.deleting)
      BY <1>1, <1>2 DEF InstallAgent, FetchManifests, Install, InstallFails,
                        RollbackStrip, Goto, Finished, Finish, Attempts
    <2>2. UNCHANGED failed
      BY <1>2 DEF InstallAgent, FetchManifests, Install, InstallFails, RollbackStrip,
                  history
    <2> QED BY <1>1, <2>1, <2>2, StandingKept DEF MrKept
  <1>3. CASE Rollback
    <2> DEFINE p == Fingerprint(att.spec, att.id, att.key.workspace)
    <2>1. p \in Fingerprints /\ p.id = att.id /\ p.workspace = att.key.workspace
      BY <1>1, FingerprintType DEF Typed, Attempts, Fingerprint, Fingerprints
    <2>2. att.error \in Error
      BY <1>3 DEF Rollback, Typed, ControlOK
    <2>3. ClassifyManifestInstallError(att.error) \in Error
      BY <2>2, ClassifiedErrors
    <2>4. pc = "rollback" /\ GiveUp(p, ClassifyManifestInstallError(att.error))
      BY <1>3 DEF Rollback
    <2> QED BY <1>1, <2>1, <2>3, <2>4, GiveUpStanding
  <1> QED BY <1>2, <1>3

LEMMA DeleteStanding ==
  ASSUME Typed, ClaimOK, StandingOK, Delete
  PROVE  StandingOK'
  <1>1. /\ pc # "idle" /\ UNCHANGED <<mr, secret, failed>>
        /\ pc' = "idle" \/ UNCHANGED att
    BY DEF Delete, DeleteStrip, DeleteRow, Goto, Finish, world, history
  <1> QED BY <1>1, StandingKept

\* An edit of the spec or the Secret, a change of the parent and a crash outdate
\* what stands; no other step touches what it depends on.
LEMMA EnvironmentStanding ==
  ASSUME Typed, StandingOK, Environment
  PROVE  StandingOK'
  <1>1. CASE failed' = Outdated(failed)
    <2>1. ~Standing' /\ (failed' # NoFailure => failed # NoFailure /\ Stands' = Stands)
      BY <1>1 DEF Standing, Stands, Outdated, Typed, HistoryOK, Failures
    <2>2. mr'.claimed = mr.claimed /\ mr'.id = mr.id
      BY DEF Environment, EditSpec, RequestDelete, RotateSecret, AgentConnects,
             AgentDisconnects, ParentCreates, ParentReports, ParentNames, ParentChanges, Crash,
             Typed, MRs
    <2> QED BY <2>1, <2>2 DEF StandingOK
  <1>2. CASE UNCHANGED failed
    <2>1. /\ UNCHANGED <<secret, entries, pc, att>>
          /\ mr'.spec = mr.spec /\ mr'.claimed = mr.claimed /\ mr'.id = mr.id
          /\ mr'.workspace = mr.workspace
          /\ mr.phase # "live" => mr'.phase # "live"
          \/ failed' = Outdated(failed)
      BY DEF Environment, EditSpec, RequestDelete, RotateSecret, AgentConnects,
             AgentDisconnects, ParentCreates, ParentReports, ParentNames, ParentChanges, Crash,
             world, Typed, MRs
    <2> QED BY <1>1, <1>2, <2>1 DEF StandingOK, Standing, Stands, Fingerprint
  <1> QED BY <1>1, <1>2
      DEF Environment, EditSpec, RequestDelete, RotateSecret, AgentConnects,
          AgentDisconnects, ParentCreates, ParentReports, ParentNames, ParentChanges, Crash, history

LEMMA AlwaysStanding == Spec => []StandingOK
<1>1. Init => StandingOK
  BY DEF Init, StandingOK, Standing
<1>2. Typed /\ ClaimOK /\ StandingOK /\ [Next]_vars => StandingOK'
  <2> SUFFICES ASSUME Typed, ClaimOK, StandingOK, [Next]_vars PROVE StandingOK'
    OBVIOUS
  <2>1. CASE UNCHANGED vars
    BY <2>1 DEF vars, world, history, StandingOK, Standing, Stands, Fingerprint
  <2> QED BY <2>1, ReconcileStanding, ObserveStanding, WriteStanding, InstallStanding,
             DeleteStanding, EnvironmentStanding
      DEF Next, Step
<1> QED BY <1>1, <1>2, AlwaysTyped, AlwaysClaimed, PTL DEF Spec

\* As long as spec, Secret and instance stay as they are, and every Observe finds the
\* workspace that was found for the record, a write on record is never sent again
\* (kargoagent.go:319), for all specs, kubeconfigs, workspaces, faults and bounds.
THEOREM RefusedIsNotRetried == Spec => []NoIdenticalRetry
<1>1. ClaimOK /\ StandingOK => NoIdenticalRetry
  BY DEF ClaimOK, StandingOK, Standing, Stands, NoIdenticalRetry, SentAgain
<1> QED BY <1>1, AlwaysClaimed, AlwaysStanding, PTL

-------------------------------------------------------------------------------
(* An MR that has gone leaves nothing *)

\* A read that fails does not pass for the answer that there is no agent.
ReadsTruthful == \A f \in ReadFaults : GetOutcome(f) # "absent"

\* The manifests stay on the target when the MR goes.
Leaves == mr.spec \notin Installing \cap Removing

\* Nothing is written for an MR before it is claimed.
UnclaimedOK == ~mr.claimed => row = NoRow /\ agent = "none"

\* The ID of the MR, and of its reconcile, is that of the instance there is.
InstanceOK ==
  /\ mr.claimed => mr.id = instance
  /\ pc # "idle" => att.id = instance

\* Manifests without a row are those a deletion was to leave: they are installed
\* with a row and stripped before it goes.
TrackedOK ==
  /\ agent = "none" \/ row # NoRow \/ (mr.phase # "live" /\ Leaves)
  /\ pc \in {"manifests", "install"} => row # NoRow
  /\ pc = "rollback" => agent = "none"
  /\ pc = "deleteRow" => agent = "none" \/ Leaves
  /\ mr.phase = "gone" => row = NoRow

TidyOK == UnclaimedOK /\ (~torn => InstanceOK /\ TrackedOK)

LEMMA ReconcileTidy ==
  ASSUME Typed, ClaimOK, TidyOK, Reconcile
  PROVE  TidyOK'
  <1>1. /\ pc = "idle" /\ pc' = "get" /\ att'.id = Resolved /\ Resolved # 0
        /\ UNCHANGED <<mr, instance, row, agent, torn>>
    BY ReconcileCases DEF ReconcileWith, world, platform
  <1>2. ~torn => Resolved = instance
    BY <1>1 DEF TidyOK, InstanceOK, ClaimOK, Resolved
  <1> QED BY <1>1, <1>2 DEF TidyOK, UnclaimedOK, InstanceOK, TrackedOK, Leaves

\* Observe takes an MR for gone only when there is no row.
LEMMA AbsentOnlyUnseen ==
  ASSUME Typed, ReadsTruthful, Observe, ~Reconcile
  PROVE  /\ pc = "get"
         /\ mr'.phase = "gone" => mr.phase = "gone" \/ Seen = NoRow
  <1>1. pc = "get" /\ mr \in MRs
    BY ObserveCases DEF Typed
  <1>2. CASE ObserveAbsent
    BY <1>1, <1>2 DEF ObserveAbsent
  <1>3. CASE ~ObserveAbsent
    <2>1. UNCHANGED mr \/ Claimed
      <3>1. CASE ObserveFails
        BY <3>1 DEF ObserveFails, ReadsTruthful, Settle
      <3>2. CASE ObserveRow
        BY <3>2 DEF ObserveRow, Settle, Continue
      <3> QED BY <1>3, <3>1, <3>2 DEF Observe
    <2> QED BY <1>1, <2>1, ClaimedEffect
  <1> QED BY <1>2, <1>3

LEMMA ObserveTidy ==
  ASSUME Typed, ClaimOK, TidyOK, ReadsTruthful, Observe, ~Reconcile
  PROVE  TidyOK'
  <1>1. /\ pc = "get" /\ mr \in MRs /\ att \in Attempts
        /\ UNCHANGED <<instance, row, agent, torn>>
    BY ObserveCases DEF Typed, world, platform, history
  <1>2. /\ mr'.spec = mr.spec
        /\ mr.claimed => mr'.claimed /\ mr'.id = mr.id
        /\ mr'.claimed => mr'.id = mr.id \/ mr'.id = att.id
        /\ mr.phase # "live" => mr'.phase # "live"
        /\ mr'.claimed => mr.claimed \/ mr'.id = att.id
    BY <1>1, ObserveCases, ClaimedEffect DEF MRs
  <1>3. pc' \in {"idle", "key", "delete"} /\ (pc' # "idle" => att'.id = att.id)
    BY ObserveCases
  <1>4. UnclaimedOK'
    BY <1>1, <1>2 DEF TidyOK, UnclaimedOK
  <1>5. ~torn => InstanceOK'
    BY <1>1, <1>2, <1>3 DEF TidyOK, InstanceOK
  <1>6. ~torn /\ mr'.phase = "gone" => row = NoRow
    BY <1>1, AbsentOnlyUnseen DEF TidyOK, InstanceOK, TrackedOK, Seen
  <1>7. ~torn => TrackedOK'
    BY <1>1, <1>2, <1>3, <1>6 DEF TidyOK, TrackedOK, Leaves
  <1> QED BY <1>1, <1>4, <1>5, <1>7 DEF TidyOK

\* What the steps past Observe keep: the MR but for its workspace, the instance, and
\* the ID they carry.
LEMMA LaterInstance ==
  ASSUME Typed, ClaimOK, TidyOK, Write \/ InstallAgent \/ Delete
  PROVE  /\ att \in Attempts /\ mr.claimed /\ MrKept /\ UNCHANGED instance
         /\ pc' = "idle" \/ att'.id = att.id
         /\ UnclaimedOK' /\ (~torn => InstanceOK' /\ Seen = row)
  <1>1. /\ att \in Attempts /\ pc \notin {"idle", "get"} /\ UNCHANGED instance
        /\ pc' = "idle" \/ att'.id = att.id
    <2>1. att \in Attempts \/ pc = "idle"
      BY DEF Typed, ControlOK
    <2>2. CASE Write
      BY <2>1, <2>2 DEF Write, BuildRequest, Apply, ApplyFails, GiveUp, Goto, Finished,
                        Finish, world, Attempts
    <2>3. CASE InstallAgent
      BY <2>1, <2>3 DEF InstallAgent, FetchManifests, Install, InstallFails,
                        RollbackStrip, Rollback, GiveUp, Goto, Finished, Finish, world,
                        Attempts
    <2>4. CASE Delete
      BY <2>1, <2>4 DEF Delete, DeleteStrip, DeleteRow, Goto, Finish, world
    <2> QED BY <2>2, <2>3, <2>4
  <1>2. MrKept
    BY LaterClaim
  <1> QED BY <1>1, <1>2 DEF ClaimOK, TidyOK, UnclaimedOK, InstanceOK, Seen, MrKept

LEMMA WriteTidy ==
  ASSUME Typed, ClaimOK, TidyOK, Write
  PROVE  TidyOK'
  <1>1. /\ mr.phase # "gone" /\ att.spec # NoRow /\ MrKept /\ UNCHANGED <<agent, torn>>
        /\ \/ row' = row /\ pc' \in {"idle", "apply"}
           \/ row' = att.spec /\ pc' \in {"idle", "manifests"}
    BY LaterInstance, Sentinels
    DEF Write, BuildRequest, Apply, ApplyFails, GiveUp, Goto, Finished, Finish, platform,
        history, ClaimOK, Attempts
  <1> QED BY <1>1, LaterInstance DEF TidyOK, TrackedOK, Leaves, MrKept

LEMMA InstallTidy ==
  ASSUME Typed, ClaimOK, TidyOK, InstallAgent
  PROVE  TidyOK'
  <1>1. torn => torn'
    BY DEF InstallAgent, FetchManifests, Install, InstallFails, RollbackStrip, Rollback,
           history, Typed, HistoryOK
  <1>2. ASSUME ~torn, ~torn'
        PROVE  TrackedOK'
    <2>1. mr.phase # "gone" /\ MrKept
      BY LaterInstance DEF InstallAgent, FetchManifests, Install, InstallFails,
                           RollbackStrip, Rollback, ClaimOK
    <2>2. CASE FetchManifests
      BY <1>2, <2>1, <2>2, LaterInstance
      DEF FetchManifests, Goto, platform, TidyOK, TrackedOK, Leaves, MrKept
    <2>3. CASE Install \/ InstallFails
      BY <1>2, <2>1, <2>3 DEF Install, InstallFails, Finished, Finish, TidyOK, TrackedOK,
                              MrKept
    <2>4. CASE RollbackStrip
      BY <1>2, <2>1, <2>4 DEF RollbackStrip, Goto, TidyOK, TrackedOK, MrKept
    <2>5. CASE Rollback
      BY <1>2, <2>1, <2>5 DEF Rollback, GiveUp, Finished, Finish, TidyOK, TrackedOK,
                              MrKept
    <2> QED BY <2>2, <2>3, <2>4, <2>5 DEF InstallAgent
  <1> QED BY <1>1, <1>2, LaterInstance DEF TidyOK

LEMMA DeleteTidy ==
  ASSUME Typed, ClaimOK, TidyOK, Delete
  PROVE  TidyOK'
  <1>1. UNCHANGED <<mr, torn>> /\ mr.phase = "deleting"
    BY DEF Delete, DeleteStrip, DeleteRow, world, history, ClaimOK
  <1>2. ASSUME ~torn
        PROVE  TrackedOK'
    <2>1. CASE DeleteStrip
      <3>1. /\ UNCHANGED row /\ pc' \in {"idle", "deleteRow"}
            /\ \/ agent' = "none"
               \/ agent' = agent /\ (pc' = "idle" \/ Leaves)
               \/ Strippable /\ pc' = "idle"
        BY <2>1 DEF DeleteStrip, Goto, Finish, Leaves, ClaimOK
      <3>2. Strippable => row # NoRow
        BY <1>2, LaterInstance DEF Strippable
      <3>3. agent = "none" \/ row # NoRow \/ Leaves
        BY <1>2 DEF TidyOK, TrackedOK
      <3> QED BY <1>1, <3>1, <3>2, <3>3 DEF TrackedOK, Leaves
    <2>2. CASE DeleteRow
      BY <1>1, <1>2, <2>2 DEF DeleteRow, Finish, TidyOK, TrackedOK, Leaves
    <2> QED BY <2>1, <2>2 DEF Delete
  <1> QED BY <1>1, <1>2, LaterInstance DEF TidyOK

\* An edit finds a live MR, an MR without a claim goes without a row, and an
\* instance is created only where none was found.
LEMMA EnvironmentTidy ==
  ASSUME Typed, ClaimOK, TidyOK, Environment
  PROVE  TidyOK'
  <1>1. mr \in MRs /\ torn \in BOOLEAN
    BY DEF Typed, HistoryOK
  <1>2. CASE EditSpec
    BY <1>1, <1>2 DEF EditSpec, world, platform, TidyOK, UnclaimedOK, InstanceOK,
                      TrackedOK, Leaves, ClaimOK, MRs
  <1>3. CASE RequestDelete
    BY <1>1, <1>3 DEF RequestDelete, world, platform, history, TidyOK, UnclaimedOK,
                      InstanceOK, TrackedOK, Leaves, ClaimOK, MRs
  <1>4. CASE RotateSecret \/ AgentConnects \/ AgentDisconnects \/ ParentReports
             \/ ParentNames
    BY <1>4 DEF RotateSecret, AgentConnects, AgentDisconnects, ParentReports, ParentNames,
                world, platform, history, TidyOK, UnclaimedOK, InstanceOK, TrackedOK, Leaves
  <1>5. CASE ParentCreates
    <2>1. ~torn => pc = "idle" /\ ~mr.claimed
      <3>1. pc # "idle" => att.id # 0
        BY DEF Typed, ControlOK, Attempts, Ids
      <3> QED BY <1>5, <3>1 DEF ParentCreates, TidyOK, InstanceOK, ClaimOK
    <2> QED BY <1>5, <2>1 DEF ParentCreates, platform, history, TidyOK, UnclaimedOK,
                              InstanceOK, TrackedOK, Leaves
  <1>6. CASE ParentChanges
    BY <1>6 DEF ParentChanges, TidyOK, UnclaimedOK, InstanceOK, TrackedOK, Leaves
  <1>7. CASE Crash
    BY <1>7 DEF Crash, Finish, world, platform, TidyOK, UnclaimedOK, InstanceOK,
                TrackedOK, Leaves
  <1> QED BY <1>2, <1>3, <1>4, <1>5, <1>6, <1>7 DEF Environment

\* An MR that has gone leaves neither its row nor the manifests it was to remove
\* (kargoagent.go:508), for all specs, faults and bounds, unless a rollback left
\* something or the row was taken: provided that a read that fails never passes for
\* the answer that there is no agent.
THEOREM GoneIsTidy == Spec => [](ReadsTruthful => GoneLeavesNothing)
<1> DEFINE Inv == ReadsTruthful => TidyOK
<1>1. Init => Inv
  BY DEF Init, TidyOK, UnclaimedOK, InstanceOK, TrackedOK
<1>2. Typed /\ ClaimOK /\ Inv /\ [Next]_vars => Inv'
  <2> SUFFICES ASSUME ReadsTruthful, Typed, ClaimOK, TidyOK, [Next]_vars PROVE TidyOK'
    BY DEF ReadsTruthful
  <2>1. CASE UNCHANGED vars
    BY <2>1 DEF vars, world, platform, history, TidyOK, UnclaimedOK, InstanceOK,
                TrackedOK, Leaves
  <2> QED BY <2>1, ReconcileTidy, ObserveTidy, WriteTidy, InstallTidy, DeleteTidy,
             EnvironmentTidy
      DEF Next, Step
<1>3. Inv => (ReadsTruthful => GoneLeavesNothing)
  BY DEF TidyOK, UnclaimedOK, TrackedOK, Leaves, GoneLeavesNothing
<1> QED BY <1>1, <1>2, <1>3, AlwaysTyped, AlwaysClaimed, PTL DEF Spec

==================================================================================
