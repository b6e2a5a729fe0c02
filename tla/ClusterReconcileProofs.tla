------------------------ MODULE ClusterReconcileProofs ------------------------
(***************************************************************************)
(* Proofs about the reconciliation of Cluster MRs, for every set of MRs,   *)
(* names and specs, every kind of kubeconfig, and any bounds.              *)
(***************************************************************************)
EXTENDS ClusterReconcile, GuardLemmas

-------------------------------------------------------------------------------
(* Type correctness *)

\* The errors with a fixed cause are errors.
LEMMA FixedErrors ==
  /\ InvalidArgument \in Error
  /\ NoSuchRow \in Error
  /\ BuildError \in Error
  /\ BadKubeConfig \in Error
  /\ MalformedExpiry \in Error
  /\ NotReconciled \in Error
  <1>1. /\ {"InvalidArgument", "NotFound", "opaque"} \subseteq Codes
        /\ {} \in SUBSET Texts
        /\ {"has not yet been reconciled"} \in SUBSET Texts
    BY DEF Codes, Texts
  <1>2. /\ Opaque({}) \in Error
        /\ Opaque({"has not yet been reconciled"}) \in Error
    BY <1>1, ConstructedErrors DEF Opaque
  <1> QED
    BY <1>1, <1>2, ConstructedErrors, TaggedErrors
    DEF InvalidArgument, NoSuchRow, BuildError, BadKubeConfig, MalformedExpiry,
        NotReconciled

LEMMA FingerprintType ==
  ASSUME WorldOK, NEW c \in Clusters
  PROVE  TargetFingerprint(c) \in Fingerprints
  BY DEF WorldOK, TargetFingerprint, Fingerprints

\* A reconcile ends, whatever the outcome.
Outcomes ==
  {"new", "running", "suppressed", "failed", "waiting", "synced", "created",
   "updated", "deleted", "gone", "crashed"}

LEMMA FinishType ==
  ASSUME ControlOK, AttemptsOK, NEW c \in Clusters, NEW how \in Outcomes,
         Finish(c, how)
  PROVE  ControlOK' /\ AttemptsOK'
  BY DEF ControlOK, AttemptsOK, Finish, Outcomes, Steps

\* A reconcile goes on with the next call, and its copy of the MR stays typed.
LEMMA GotoType ==
  ASSUME ControlOK, AttemptsOK, NEW c \in Clusters, NEW step \in Steps \ {"idle"},
         Goto(c, step), NEW a \in Attempts, att' = [att EXCEPT ![c] = a],
         step \in {"rbStrip", "rbDelete"} => a.err \in Error
  PROVE  ControlOK' /\ AttemptsOK'
  BY DEF ControlOK, AttemptsOK, Goto

LEMMA StayType ==
  ASSUME ControlOK, AttemptsOK, NEW c \in Clusters, pc[c] # "idle",
         NEW step \in Steps \ {"idle"}, Goto(c, step), att' = att,
         step \in {"rbStrip", "rbDelete"} => att[c].err \in Error
  PROVE  ControlOK' /\ AttemptsOK'
  BY DEF ControlOK, AttemptsOK, Goto

LEMMA RollbackType ==
  ASSUME ControlOK, AttemptsOK, NEW c \in Clusters, pc[c] # "idle",
         NEW err \in Error, Rollback(c, err)
  PROVE  ControlOK' /\ AttemptsOK'
  <1> DEFINE a == [att[c] EXCEPT !.err = err]
  <1>1. att[c] \in Attempts
    BY DEF AttemptsOK
  <1>2. a \in Attempts /\ a.err \in Error
    BY <1>1 DEF Attempts
  <1>3. att' = [att EXCEPT ![c] = a]
    BY DEF Rollback
  <1>4. PICK step \in {"rbStrip", "rbDelete"} : Goto(c, step)
    BY DEF Rollback
  <1> QED BY <1>2, <1>3, <1>4, GotoType DEF Steps

LEMMA SpendType ==
  ASSUME spent \in [{"faults", "edits", "drops", "crashes"} -> Nat],
         NEW kind \in {"faults", "edits", "drops", "crashes"}, Spend(kind)
  PROVE  spent' \in [{"faults", "edits", "drops", "crashes"} -> Nat]
  BY DEF Spend

\* What the guard's methods do to the map keeps it typed.
LEMMA EntriesShrink ==
  ASSUME EntriesOK, entries' \subseteq entries
  PROVE  EntriesOK'
  BY DEF EntriesOK

LEMMA EntriesType ==
  ASSUME EntriesOK, WorldOK, AttemptsOK, NEW c \in Clusters, pc[c] # "idle",
         NEW fingerprint \in Fingerprints, NEW err \in Error,
         entries' = Recorded(entries, WriteKey(c, att[c].filled, fingerprint), err)
  PROVE  EntriesOK'
  <1> DEFINE key == WriteKey(c, att[c].filled, fingerprint)
             new == [key |-> key, err |-> err]
  <1>1. CASE ~IsTerminal(err)
    BY <1>1 DEF EntriesOK, Recorded
  <1>2. CASE IsTerminal(err)
    <2>1. att[c].intent \in Intents /\ att[c].filled \in BOOLEAN
      BY DEF AttemptsOK, Attempts
    <2>2. \E r \in Requests : key = Key(Identity(c), r)
      BY <2>1 DEF WriteKey, Requests
    <2>3. new.key = key /\ new.err = err
      OBVIOUS
    <2>4. \A e \in entries' : e \in entries \/ e = new
      BY <1>2 DEF Recorded, Without
    <2> QED BY <1>2, <2>2, <2>3, <2>4 DEF EntriesOK
  <1> QED BY <1>1, <1>2

\* Create or Update returns an error.
LEMMA GiveUpType ==
  ASSUME TypeOK, NEW c \in Clusters, pc[c] # "idle",
         NEW fingerprint \in Fingerprints, NEW err \in Error,
         GiveUp(c, fingerprint, err)
  PROVE  /\ mr' \in [Clusters -> MRs]
         /\ EntriesOK' /\ ControlOK' /\ AttemptsOK'
         /\ failed' \in [Clusters -> Failures \cup {NoFailure}]
  <1>1. att[c] \in Attempts
    BY DEF TypeOK, AttemptsOK
  <1>2. mr' \in [Clusters -> MRs]
    BY DEF TypeOK, GiveUp, MRs
  <1>3. EntriesOK'
    BY EntriesType DEF TypeOK, GiveUp
  <1>4. ControlOK' /\ AttemptsOK'
    BY FinishType DEF TypeOK, GiveUp, Outcomes
  <1>5. failed' \in [Clusters -> Failures \cup {NoFailure}]
    BY <1>1 DEF TypeOK, HistoryOK, GiveUp, Failures, Attempts
  <1> QED BY <1>2, <1>3, <1>4, <1>5

\* The parts of the state a step leaves alone stay typed.
LEMMA UnchangedType ==
  ASSUME TypeOK
  PROVE  /\ UNCHANGED mr => mr' \in [Clusters -> MRs]
         /\ UNCHANGED world => WorldOK'
         /\ UNCHANGED entries => EntriesOK'
         /\ UNCHANGED <<pc, outcome>> => ControlOK'
         /\ UNCHANGED <<pc, att>> => AttemptsOK'
         /\ UNCHANGED history => HistoryOK'
         /\ UNCHANGED spent =>
              spent' \in [{"faults", "edits", "drops", "crashes"} -> Nat]
  BY DEF TypeOK, WorldOK, EntriesOK, ControlOK, AttemptsOK, HistoryOK, world, history

\* A write that takes effect.
LEMMA AppliedType ==
  ASSUME TypeOK, NEW c \in Clusters, pc[c] # "idle", row' = Applied(c),
         UNCHANGED <<target, agent>>
  PROVE  WorldOK'
  <1>1. att[c].intent \in Intents
    BY DEF TypeOK, AttemptsOK, Attempts
  <1>2. RowName[c] \in Names
    BY NamesOfClusters
  <1>3. row[RowName[c]] # NoRow => row[RowName[c]].mode \in Modes
    BY <1>2 DEF TypeOK, WorldOK, Rows
  <1>4. Applied(c) \in [Names -> Rows \cup {NoRow}]
    BY <1>1, <1>2, <1>3, SpecValues DEF TypeOK, WorldOK, Applied, Rows
  <1> QED BY <1>4 DEF TypeOK, WorldOK

\* Observe finds no row.
LEMMA AbsentType ==
  ASSUME TypeOK, NEW c \in Clusters, pc[c] # "idle", Absent(c)
  PROVE  mr' \in [Clusters -> MRs] /\ ControlOK' /\ AttemptsOK'
  <1>1. CASE att[c].deleting /\ mr' = [mr EXCEPT ![c].phase = "gone"] /\ Finish(c, "gone")
    BY <1>1, FinishType DEF TypeOK, MRs, Outcomes
  <1>2. CASE mr' = [mr EXCEPT ![c].pending = TRUE] /\ Goto(c, "create") /\ UNCHANGED att
    BY <1>2, StayType DEF TypeOK, MRs, Steps
  <1>3. CASE Finish(c, "failed") /\ UNCHANGED mr
    BY <1>3, FinishType DEF TypeOK, Outcomes
  <1> QED BY <1>1, <1>2, <1>3 DEF Absent

\* A failed maintenance call ends Update and rolls Create back.
LEMMA ModeFailedType ==
  ASSUME TypeOK, NEW c \in Clusters, pc[c] # "idle", NEW err \in Error,
         ModeFailed(c, err)
  PROVE  /\ mr' \in [Clusters -> MRs]
         /\ EntriesOK' /\ ControlOK' /\ AttemptsOK'
         /\ failed' \in [Clusters -> Failures \cup {NoFailure}]
  <1>1. att[c].target \in Fingerprints
    BY DEF TypeOK, AttemptsOK, Attempts
  <1>2. CASE GiveUp(c, att[c].target, err)
    BY <1>1, <1>2, GiveUpType
  <1>3. CASE Rollback(c, err) /\ UNCHANGED <<mr, entries, failed>>
    BY <1>3, RollbackType DEF TypeOK, EntriesOK, HistoryOK
  <1> QED BY <1>2, <1>3 DEF ModeFailed

\* A strip changes the agent and a count.
LEMMA StripType ==
  ASSUME TypeOK, NEW c \in Clusters, Stripped(c) \/ StripFails(c)
  PROVE  /\ agent' \in [Clusters -> {"none", "partial", "full"}]
         /\ spent' \in [{"faults", "edits", "drops", "crashes"} -> Nat]
  <1>1. CASE Stripped(c)
    BY <1>1 DEF Stripped, TypeOK, WorldOK
  <1>2. CASE StripFails(c)
    BY <1>2, SpendType DEF StripFails, Fault, TypeOK, WorldOK
  <1> QED BY <1>1, <1>2

-------------------------------------------------------------------------------

LEMMA ObserveType ==
  ASSUME TypeOK, NEW c \in Clusters, Reconcile(c) \/ Observe(c)
  PROVE  TypeOK'
  <1>1. CASE Reconcile(c)
    <2> DEFINE a == [intent |-> mr[c].intent, mode |-> mr[c].mode, ext |-> mr[c].ext,
                     deleting |-> mr[c].phase = "deleting", seen |-> mr[c].seen,
                     filled |-> PinsDefaults, target |-> TargetFingerprint(c),
                     fresh |-> TRUE, adopted |-> FALSE, err |-> NoError]
    <2>1. a \in Attempts
      BY FingerprintType, Configuration DEF TypeOK, MRs, Attempts
    <2>2. att' = [att EXCEPT ![c] = a] /\ pc' = [pc EXCEPT ![c] = "guard"]
      BY <1>1 DEF Reconcile
    <2>3. AttemptsOK'
      BY <2>1, <2>2 DEF TypeOK, ControlOK, AttemptsOK
    <2>4. ControlOK'
      BY <1>1 DEF TypeOK, ControlOK, Reconcile, Steps
    <2> QED BY <1>1, <2>3, <2>4, UnchangedType DEF TypeOK, Reconcile
  <1>2. CASE ObserveGuard(c)
    <2>1. entries' \subseteq entries
      BY <1>2 DEF ObserveGuard, AfterSuppress, Without
    <2>2. pc[c] # "idle"
      BY <1>2 DEF ObserveGuard
    <2>3. Finish(c, "suppressed") \/ (Goto(c, "get") /\ UNCHANGED att)
      BY <1>2 DEF ObserveGuard
    <2>4. ControlOK' /\ AttemptsOK'
      BY <2>2, <2>3, FinishType, StayType DEF TypeOK, Outcomes, Steps
    <2> QED BY <1>2, <2>1, <2>4, EntriesShrink, UnchangedType DEF TypeOK, ObserveGuard
  <1>3. CASE ObserveAbsent(c)
    BY <1>3, AbsentType, UnchangedType DEF TypeOK, ObserveAbsent
  <1>4. CASE ObserveFails(c)
    <2>1. spent' \in [{"faults", "edits", "drops", "crashes"} -> Nat]
      BY <1>4, SpendType DEF ObserveFails, Fault, TypeOK
    <2>2. CASE Absent(c)
      BY <1>4, <2>1, <2>2, AbsentType, UnchangedType DEF TypeOK, ObserveFails
    <2>3. CASE Waiting(c)
      <3>1. ControlOK' /\ AttemptsOK'
        BY <1>4, <2>3, FinishType, StayType
        DEF TypeOK, ObserveFails, Waiting, Outcomes, Steps
      <3> QED BY <1>4, <2>1, <2>3, <3>1, UnchangedType DEF TypeOK, ObserveFails, Waiting
    <2>4. CASE Finish(c, "failed") /\ UNCHANGED mr
      BY <1>4, <2>1, <2>4, FinishType, UnchangedType DEF TypeOK, ObserveFails, Outcomes
    <2> QED BY <1>4, <2>2, <2>3, <2>4 DEF ObserveFails
  <1>5. ASSUME pc[c] = "get", row[att[c].ext] # NoRow,
               entries' \subseteq entries, StatusMaySettle(c),
               \/ \E how \in Outcomes : Finish(c, how)
               \/ \E step \in {"delete", "update"} : Goto(c, step) /\ att' = Observed(c),
               UNCHANGED <<world, history, spent>>
        PROVE  TypeOK'
    <2> DEFINE a == [att[c] EXCEPT !.seen = row[att[c].ext].mode, !.filled = TRUE]
    <2>1. att[c] \in Attempts
      BY <1>5 DEF TypeOK, AttemptsOK
    <2>2. row[att[c].ext].mode \in UserModes
      BY <1>5, <2>1 DEF TypeOK, WorldOK, Attempts, Rows, UserModes
    <2>3. mr' \in [Clusters -> MRs]
      BY <1>5, <2>2 DEF TypeOK, StatusMaySettle, MRs
    <2>4. CASE \E how \in Outcomes : Finish(c, how)
      BY <1>5, <2>3, <2>4, FinishType, EntriesShrink, UnchangedType DEF TypeOK
    <2>5. ASSUME NEW step \in {"delete", "update"},
                 Goto(c, step), att' = Observed(c)
          PROVE  TypeOK'
      <3>1. a \in Attempts
        BY <2>1, <2>2 DEF Attempts
      <3>2. att' = [att EXCEPT ![c] = a]
        BY <2>5 DEF Observed
      <3>3. ControlOK' /\ AttemptsOK'
        BY <2>5, <3>1, <3>2, GotoType DEF TypeOK, Steps
      <3> QED BY <1>5, <2>3, <3>3, EntriesShrink, UnchangedType DEF TypeOK
    <2> QED BY <1>5, <2>4, <2>5
  <1>6. CASE ObserveUpToDate(c)
    <2>1. entries' \subseteq entries
      BY <1>6 DEF ObserveUpToDate, ClearWrites, Without
    <2>2. \/ Finish(c, "synced")
          \/ Goto(c, "delete") /\ att' = Observed(c)
      BY <1>6 DEF ObserveUpToDate
    <2> QED BY <1>5, <1>6, <2>1, <2>2 DEF ObserveUpToDate, Outcomes
  <1>7. CASE ObserveDrift(c)
    <2>1. entries' \subseteq entries
      BY <1>7 DEF ObserveDrift, AfterSuppress, Without
    <2>2. \/ Finish(c, "suppressed")
          \/ \E step \in {"delete", "update"} : Goto(c, step) /\ att' = Observed(c)
      BY <1>7 DEF ObserveDrift
    <2> QED BY <1>5, <1>7, <2>1, <2>2 DEF ObserveDrift, Outcomes
  <1> QED BY <1>1, <1>2, <1>3, <1>4, <1>6, <1>7 DEF Observe

LEMMA CreatedType ==
  ASSUME mr \in [Clusters -> MRs], NEW c \in Clusters, Created(c)
  PROVE  mr' \in [Clusters -> MRs]
  BY NamesOfClusters DEF Created, MRs

LEMMA WriteType ==
  ASSUME TypeOK, NEW c \in Clusters, Write(c)
  PROVE  TypeOK'
  <1> USE DEF TypeOK
  <1>1. CASE ApplyInstance(c)
    <2> DEFINE a == [att[c] EXCEPT !.target = TargetFingerprint(c),
                                   !.adopted = row[RowName[c]] # NoRow]
    <2>1. att[c] \in Attempts /\ pc[c] # "idle"
      BY <1>1 DEF ApplyInstance, AttemptsOK
    <2>2. a \in Attempts
      BY <2>1, FingerprintType DEF Attempts
    <2>3. att' = [att EXCEPT ![c] = a]
      BY <1>1 DEF ApplyInstance
    <2>4. PICK step \in {"cmode", "umode"} : Goto(c, step)
      BY <1>1 DEF ApplyInstance
    <2>5. ControlOK' /\ AttemptsOK'
      BY <2>2, <2>3, <2>4, GotoType DEF Steps
    <2>6. WorldOK'
      BY <1>1, <2>1, AppliedType DEF ApplyInstance
    <2> QED BY <1>1, <2>5, <2>6, UnchangedType DEF ApplyInstance, HistoryOK, EntriesOK
  <1>2. CASE ApplyRejected(c)
    <2>1. PICK err \in Error : GiveUp(c, TargetFingerprint(c), err)
      BY <1>2, FixedErrors, ClassifiedErrors DEF ApplyRejected
    <2>2. pc[c] # "idle"
      BY <1>2 DEF ApplyRejected
    <2> QED
      BY <1>2, <2>1, <2>2, GiveUpType, FingerprintType, UnchangedType
      DEF ApplyRejected, HistoryOK
  <1>3. CASE ApplyFails(c)
    <2>1. PICK f \in WriteFaults :
            /\ Fault(WriteFaults, f)
            /\ GiveUp(c, TargetFingerprint(c), ClassifyApplyError(f))
            /\ \/ UNCHANGED <<row, torn>>
               \/ row' = Applied(c) /\ torn' = [torn EXCEPT ![c] = @ \/ pc[c] = "create"]
      BY <1>3 DEF ApplyFails
    <2>2. pc[c] # "idle" /\ UNCHANGED <<target, agent>>
      BY <1>3 DEF ApplyFails
    <2>3. ClassifyApplyError(f) \in Error
      BY FaultsAreErrors, ClassifiedErrors
    <2>4. /\ mr' \in [Clusters -> MRs]
          /\ EntriesOK' /\ ControlOK' /\ AttemptsOK'
          /\ failed' \in [Clusters -> Failures \cup {NoFailure}]
      BY <2>1, <2>2, <2>3, GiveUpType, FingerprintType
    <2>5. spent' \in [{"faults", "edits", "drops", "crashes"} -> Nat]
      BY <2>1, SpendType DEF Fault
    <2>6. WorldOK'
      BY <2>1, <2>2, AppliedType DEF WorldOK
    <2>7. torn' \in [Clusters -> BOOLEAN]
      BY <2>1 DEF HistoryOK
    <2> QED BY <2>4, <2>5, <2>6, <2>7 DEF HistoryOK
  <1>4. CASE SyncMode(c)
    <2>1. pc[c] # "idle" /\ entries' \subseteq entries
      BY <1>4 DEF SyncMode, ClearWrites, Without
    <2>2. WorldOK'
      <3>1. CASE UNCHANGED row
        BY <1>4, <3>1 DEF SyncMode, WorldOK
      <3>2. CASE /\ ~ModeInPlace(c)
                 /\ row[RowName[c]] # NoRow
                 /\ row' = [row EXCEPT ![RowName[c]].mode = att[c].mode]
        <4>1. att[c].mode \in Modes
          BY <2>1, <3>2 DEF AttemptsOK, Attempts, UserModes, ModeInPlace
        <4>2. row[RowName[c]] \in Rows
          BY <3>2, NamesOfClusters DEF WorldOK
        <4>3. row' \in [Names -> Rows \cup {NoRow}]
          BY <3>2, <4>1, <4>2 DEF WorldOK, Rows
        <4> QED BY <1>4, <4>3 DEF SyncMode, WorldOK
      <3> QED BY <1>4, <3>1, <3>2 DEF SyncMode
    <2>3. CASE Finish(c, "updated") /\ UNCHANGED <<mr, torn>>
      BY <1>4, <2>1, <2>2, <2>3, FinishType, EntriesShrink, UnchangedType
      DEF SyncMode, Outcomes, HistoryOK
    <2>4. CASE Goto(c, "manifests") /\ UNCHANGED <<mr, att, torn>>
      BY <1>4, <2>1, <2>2, <2>4, StayType, EntriesShrink, UnchangedType
      DEF SyncMode, Steps, HistoryOK
    <2>5. CASE Created(c)
      <3>1. mr' \in [Clusters -> MRs]
        BY <2>5, CreatedType
      <3>2. torn' \in [Clusters -> BOOLEAN]
        BY <2>5 DEF Created, HistoryOK
      <3>3. ControlOK' /\ AttemptsOK'
        BY <2>5, FinishType DEF Created, Outcomes
      <3> QED BY <1>4, <2>1, <2>2, <3>1, <3>2, <3>3, EntriesShrink DEF SyncMode, HistoryOK
    <2> QED BY <1>4, <2>3, <2>4, <2>5 DEF SyncMode
  <1>5. CASE SyncModeFails(c)
    <2>1. pc[c] # "idle" /\ UNCHANGED <<world, torn>>
      BY <1>5 DEF SyncModeFails
    <2>2. PICK err \in Error : ModeFailed(c, err)
      BY <1>5, FixedErrors, FaultsAreErrors, ClassifiedErrors DEF SyncModeFails
    <2>3. spent' \in [{"faults", "edits", "drops", "crashes"} -> Nat]
      BY <1>5, SpendType DEF SyncModeFails, Fault
    <2> QED BY <2>1, <2>2, <2>3, ModeFailedType, UnchangedType DEF HistoryOK
  <1> QED BY <1>1, <1>2, <1>3, <1>4, <1>5 DEF Write

LEMMA InstallType ==
  ASSUME TypeOK, NEW c \in Clusters, InstallAgent(c)
  PROVE  TypeOK'
  <1> USE DEF TypeOK
  <1>1. CASE GetManifests(c)
    BY <1>1, StayType, UnchangedType DEF GetManifests, Steps
  <1>2. CASE GetManifestsFails(c)
    <2>1. PICK err \in Error : Rollback(c, err)
      BY <1>2, FixedErrors, FaultsAreErrors, ClassifiedErrors DEF GetManifestsFails
    <2>2. spent' \in [{"faults", "edits", "drops", "crashes"} -> Nat]
      BY <1>2, SpendType DEF GetManifestsFails, Fault
    <2>3. ControlOK' /\ AttemptsOK'
      BY <1>2, <2>1, RollbackType DEF GetManifestsFails
    <2> QED BY <1>2, <2>2, <2>3, UnchangedType DEF GetManifestsFails
  <1>3. CASE Install(c)
    <2>1. mr' \in [Clusters -> MRs]
      BY <1>3, CreatedType DEF Install
    <2>2. ControlOK' /\ AttemptsOK'
      BY <1>3, FinishType DEF Install, Created, Outcomes
    <2>3. WorldOK' /\ HistoryOK'
      BY <1>3 DEF Install, Created, WorldOK, HistoryOK
    <2> QED BY <1>3, <2>1, <2>2, <2>3, UnchangedType DEF Install
  <1>4. CASE InstallFails(c)
    <2>1. PICK err \in Error : Rollback(c, err)
      BY <1>4, FixedErrors, FaultsAreErrors, ClassifiedErrors DEF InstallFails
    <2>2. spent' \in [{"faults", "edits", "drops", "crashes"} -> Nat]
      BY <1>4, SpendType DEF InstallFails, Fault
    <2>3. ControlOK' /\ AttemptsOK'
      BY <1>4, <2>1, RollbackType DEF InstallFails
    <2>4. agent' \in [Clusters -> {"none", "partial", "full"}]
      BY <1>4 DEF InstallFails, WorldOK
    <2> QED BY <1>4, <2>2, <2>3, <2>4, UnchangedType DEF InstallFails, WorldOK
  <1>5. CASE RollbackStrip(c)
    <2>1. att[c].err \in Error /\ pc[c] # "idle"
      BY <1>5 DEF RollbackStrip, AttemptsOK
    <2>2. ControlOK' /\ AttemptsOK'
      BY <1>5, <2>1, StayType DEF RollbackStrip, Steps
    <2>3. WorldOK' /\ spent' \in [{"faults", "edits", "drops", "crashes"} -> Nat]
      BY <1>5, StripType DEF RollbackStrip, WorldOK
    <2>4. HistoryOK'
      BY <1>5 DEF RollbackStrip, HistoryOK
    <2> QED BY <1>5, <2>2, <2>3, <2>4, UnchangedType DEF RollbackStrip
  <1>6. CASE RollbackDelete(c)
    <2>1. /\ att[c].err \in Error /\ att[c].target \in Fingerprints
          /\ pc[c] # "idle"
      BY <1>6 DEF RollbackDelete, AttemptsOK, Attempts
    <2>2. /\ mr' \in [Clusters -> MRs]
          /\ EntriesOK' /\ ControlOK' /\ AttemptsOK'
          /\ failed' \in [Clusters -> Failures \cup {NoFailure}]
      BY <1>6, <2>1, GiveUpType DEF RollbackDelete
    <2>3. WorldOK' /\ torn' \in [Clusters -> BOOLEAN]
      BY <1>6 DEF RollbackDelete, WorldOK, HistoryOK
    <2>4. spent' \in [{"faults", "edits", "drops", "crashes"} -> Nat]
      BY <1>6, SpendType DEF RollbackDelete, Fault
    <2> QED BY <2>2, <2>3, <2>4 DEF HistoryOK
  <1> QED BY <1>1, <1>2, <1>3, <1>4, <1>5, <1>6 DEF InstallAgent

LEMMA DeleteType ==
  ASSUME TypeOK, NEW c \in Clusters, Delete(c)
  PROVE  TypeOK'
  <1> USE DEF TypeOK
  <1>1. CASE DeleteBegins(c)
    <2>1. entries' \subseteq entries /\ pc[c] # "idle"
      BY <1>1 DEF DeleteBegins, ClearWrites, Without
    <2>2. PICK step \in {"dstrip", "drow"} : Goto(c, step)
      BY <1>1 DEF DeleteBegins
    <2>3. ControlOK' /\ AttemptsOK'
      BY <1>1, <2>1, <2>2, StayType DEF DeleteBegins, Steps
    <2> QED BY <1>1, <2>1, <2>3, EntriesShrink, UnchangedType DEF DeleteBegins
  <1>2. CASE DeleteStrip(c)
    <2>1. ControlOK' /\ AttemptsOK'
      BY <1>2, FinishType, StayType DEF DeleteStrip, Outcomes, Steps
    <2>2. WorldOK' /\ spent' \in [{"faults", "edits", "drops", "crashes"} -> Nat]
      BY <1>2, StripType DEF DeleteStrip, WorldOK
    <2> QED BY <1>2, <2>1, <2>2, UnchangedType DEF DeleteStrip
  <1>3. CASE DeleteRow(c)
    <2>1. ControlOK' /\ AttemptsOK'
      BY <1>3, FinishType DEF DeleteRow, Outcomes
    <2>2. WorldOK'
      BY <1>3 DEF DeleteRow, WorldOK
    <2>3. spent' \in [{"faults", "edits", "drops", "crashes"} -> Nat]
      BY <1>3, SpendType DEF DeleteRow, Fault
    <2> QED BY <1>3, <2>1, <2>2, <2>3, UnchangedType DEF DeleteRow
  <1> QED BY <1>1, <1>2, <1>3 DEF Delete

LEMMA EnvironmentType ==
  ASSUME TypeOK, Environment
  PROVE  TypeOK'
  <1> USE DEF TypeOK
  <1>1. ASSUME NEW c \in Clusters, Stale(c), UNCHANGED <<pc, outcome>>
        PROVE  ControlOK' /\ AttemptsOK'
    <2>1. CASE pc[c] \in {"guard", "get"}
      <3>1. [att[c] EXCEPT !.fresh = FALSE] \in Attempts
        BY <2>1 DEF AttemptsOK, Attempts
      <3> QED BY <1>1, <2>1, <3>1 DEF Stale, ControlOK, AttemptsOK
    <2>2. CASE pc[c] \notin {"guard", "get"}
      BY <1>1, <2>2 DEF Stale, ControlOK, AttemptsOK
    <2> QED BY <2>1, <2>2
  <1>2. ASSUME NEW f \in Failures \cup {NoFailure}
        PROVE  Outdated(f) \in Failures \cup {NoFailure}
    BY <1>2 DEF Outdated, Failures
  <1>3. ASSUME NEW c \in Clusters, EditSpec(c) PROVE TypeOK'
    <2>1. mr' \in [Clusters -> MRs]
      BY <1>3 DEF EditSpec, MRs
    <2>2. HistoryOK' /\ spent' \in [{"faults", "edits", "drops", "crashes"} -> Nat]
      BY <1>2, <1>3, SpendType DEF EditSpec, HistoryOK
    <2>3. ControlOK' /\ AttemptsOK'
      BY <1>1, <1>3 DEF EditSpec
    <2> QED BY <1>3, <2>1, <2>2, <2>3, UnchangedType DEF EditSpec
  <1>4. ASSUME NEW c \in Clusters, RotateSecret(c) PROVE TypeOK'
    <2>1. HistoryOK' /\ spent' \in [{"faults", "edits", "drops", "crashes"} -> Nat]
      BY <1>2, <1>4, SpendType DEF RotateSecret, HistoryOK
    <2>2. WorldOK'
      BY <1>4 DEF RotateSecret, WorldOK
    <2> QED BY <1>4, <2>1, <2>2, UnchangedType DEF RotateSecret
  <1>5. ASSUME NEW c \in Clusters, RequestDelete(c) PROVE TypeOK'
    <2>1. mr' \in [Clusters -> MRs]
      BY <1>5 DEF RequestDelete, MRs
    <2>2. ControlOK' /\ AttemptsOK'
      BY <1>1, <1>5 DEF RequestDelete
    <2> QED BY <1>5, <2>1, <2>2, UnchangedType DEF RequestDelete
  <1>6. ASSUME NEW c \in Clusters, OperatorResumes(c) PROVE TypeOK'
    <2>1. mr' \in [Clusters -> MRs]
      BY <1>6 DEF OperatorResumes, MRs
    <2> QED BY <1>6, <2>1, UnchangedType DEF OperatorResumes
  <1>7. ASSUME NEW n \in Names, RowDropped(n) PROVE TypeOK'
    <2>1. WorldOK' /\ spent' \in [{"faults", "edits", "drops", "crashes"} -> Nat]
      BY <1>7, SpendType DEF RowDropped, WorldOK
    <2> QED BY <1>7, <2>1, UnchangedType DEF RowDropped
  <1>8. CASE Crash
    <2>1. EntriesOK' /\ WorldOK' /\ mr' \in [Clusters -> MRs]
      BY <1>8, UnchangedType DEF Crash, EntriesOK
    <2>2. ControlOK' /\ AttemptsOK'
      BY <1>8 DEF Crash, ControlOK, AttemptsOK, Steps
    <2>3. failed' \in [Clusters -> Failures \cup {NoFailure}]
      BY <1>2, <1>8 DEF Crash, HistoryOK
    <2>4. torn' \in [Clusters -> BOOLEAN]
      BY <1>8 DEF Crash, HistoryOK
    <2>5. spent' \in [{"faults", "edits", "drops", "crashes"} -> Nat]
      BY <1>8, SpendType DEF Crash
    <2> QED BY <2>1, <2>2, <2>3, <2>4, <2>5 DEF HistoryOK
  <1> QED BY <1>3, <1>4, <1>5, <1>6, <1>7, <1>8 DEF Environment

\* Every state is well typed; in particular the guard's map holds nothing but
\* terminal errors under the keys of MRs, and a rollback has an error to report.
THEOREM ClusterTypeCorrect == Spec => []TypeOK
<1>1. Init => TypeOK
  <2> SUFFICES ASSUME Init PROVE TypeOK
    OBVIOUS
  <2>1. mr \in [Clusters -> MRs]
    BY NamesOfClusters DEF Init, MRs, UserModes
  <2>2. WorldOK /\ EntriesOK /\ ControlOK /\ AttemptsOK /\ HistoryOK
    BY DEF Init, WorldOK, EntriesOK, ControlOK, AttemptsOK, HistoryOK, Steps
  <2> QED BY <2>1, <2>2 DEF Init, TypeOK
<1>2. TypeOK /\ [Next]_vars => TypeOK'
  <2> SUFFICES ASSUME TypeOK, [Next]_vars PROVE TypeOK'
    OBVIOUS
  <2>1. ASSUME NEW c \in Clusters, Step(c) PROVE TypeOK'
    BY <2>1, ObserveType, WriteType, InstallType, DeleteType DEF Step
  <2>2. CASE Environment
    BY <2>2, EnvironmentType
  <2>3. CASE UNCHANGED vars
    BY <2>3, UnchangedType DEF vars, TypeOK, world, history
  <2> QED BY <2>1, <2>2, <2>3 DEF Next
<1> QED BY <1>1, <1>2, PTL DEF Spec

-------------------------------------------------------------------------------
(* Deletion *)

\* What Observe learns from a row reaches the reconcile's copy, and perhaps the MR.
LEMMA ObservedEffect ==
  ASSUME TypeOK, NEW c \in Clusters, att' = Observed(c)
  PROVE  /\ \A d \in Clusters \ {c} : att'[d] = att[d]
         /\ att[c] \in Attempts =>
              att'[c] = [att[c] EXCEPT !.seen = row[att[c].ext].mode, !.filled = TRUE]
  <1> DEFINE mode == row[att[c].ext].mode
             once == [att EXCEPT ![c] = [@ EXCEPT !.seen = mode]]
  <1>1. att' = [once EXCEPT ![c] = [@ EXCEPT !.filled = TRUE]]
    BY DEF Observed
  <1>2. DOMAIN att = Clusters /\ DOMAIN once = Clusters
    BY DEF TypeOK, AttemptsOK
  <1>3. once[c] = [att[c] EXCEPT !.seen = mode] /\ \A d \in Clusters \ {c} : once[d] = att[d]
    BY <1>2
  <1> HIDE DEF once
  <1>4. /\ att'[c] = [once[c] EXCEPT !.filled = TRUE]
        /\ \A d \in Clusters \ {c} : att'[d] = once[d]
    BY <1>1, <1>2
  <1>5. att[c] \in Attempts =>
          att'[c] = [att[c] EXCEPT !.seen = mode, !.filled = TRUE]
    BY <1>3, <1>4 DEF Attempts
  <1> QED BY <1>3, <1>4, <1>5

\* The rest of the copy stays what the reconcile read.
LEMMA ObservedKeeps ==
  ASSUME TypeOK, NEW c \in Clusters, pc[c] # "idle", att' = Observed(c)
  PROVE  /\ att'[c].intent = att[c].intent /\ att'[c].mode = att[c].mode
         /\ att'[c].ext = att[c].ext /\ att'[c].deleting = att[c].deleting
         /\ att'[c].filled
  <1>1. att[c] \in Attempts
    BY DEF TypeOK, AttemptsOK
  <1>2. att'[c] = [att[c] EXCEPT !.seen = row[att[c].ext].mode, !.filled = TRUE]
    BY <1>1, ObservedEffect
  <1> QED BY <1>1, <1>2 DEF Attempts

LEMMA SettleEffect ==
  ASSUME TypeOK, NEW c \in Clusters, StatusMaySettle(c)
  PROVE  /\ mr'[c].phase = mr[c].phase /\ mr'[c].intent = mr[c].intent
         /\ mr'[c].mode = mr[c].mode /\ mr'[c].ext = mr[c].ext
         /\ mr'[c].seen \in {mr[c].seen, row[att[c].ext].mode}
  <1>1. mr' = mr \/ mr' = [mr EXCEPT ![c].seen = row[att[c].ext].mode]
    BY DEF StatusMaySettle
  <1> QED BY <1>1 DEF TypeOK, MRs

\* A reconcile of one MR leaves the others and their reconciles alone; two of
\* them meet in `row` and `entries` only.
LEMMA Frame ==
  ASSUME TypeOK, NEW c \in Clusters, Step(c), NEW d \in Clusters, d # c
  PROVE  /\ pc'[d] = pc[d] /\ outcome'[d] = outcome[d]
         /\ mr'[d] = mr[d] /\ failed'[d] = failed[d] /\ agent'[d] = agent[d]
         /\ att'[d] = att[d] /\ torn'[d] = torn[d]
  <1> USE DEF TypeOK, ControlOK, AttemptsOK, HistoryOK, WorldOK, Finish, Goto, GiveUp,
              world, history
  <1>1. CASE Reconcile(c)
    BY <1>1 DEF Reconcile
  <1>2. CASE ObserveGuard(c)
    BY <1>2 DEF ObserveGuard
  <1>3. CASE ObserveAbsent(c) \/ ObserveFails(c)
    BY <1>3 DEF ObserveAbsent, ObserveFails, Absent, Waiting
  <1>4. CASE ObserveUpToDate(c) \/ ObserveDrift(c)
    <2>1. att' = Observed(c) => att'[d] = att[d]
      BY ObservedEffect
    <2>2. att' = Observed(c) \/ \E how \in Outcomes : Finish(c, how)
      BY <1>4 DEF ObserveUpToDate, ObserveDrift, Outcomes
    <2>3. att'[d] = att[d]
      BY <2>1, <2>2
    <2> QED BY <1>4, <2>3 DEF ObserveUpToDate, ObserveDrift, StatusMaySettle
  <1>5. CASE ApplyInstance(c) \/ ApplyRejected(c) \/ ApplyFails(c)
    BY <1>5 DEF ApplyInstance, ApplyRejected, ApplyFails
  <1>6. CASE SyncMode(c)
    BY <1>6 DEF SyncMode, Created
  <1>7. CASE SyncModeFails(c)
    BY <1>7 DEF SyncModeFails, ModeFailed, Rollback
  <1>8. CASE GetManifests(c) \/ GetManifestsFails(c)
    BY <1>8 DEF GetManifests, GetManifestsFails, Rollback
  <1>9. CASE Install(c) \/ InstallFails(c)
    BY <1>9 DEF Install, InstallFails, Created, Rollback
  <1>10. CASE RollbackStrip(c) \/ RollbackDelete(c)
    BY <1>10 DEF RollbackStrip, RollbackDelete, Stripped, StripFails
  <1>11. CASE Delete(c)
    BY <1>11 DEF Delete, DeleteBegins, DeleteStrip, DeleteRow, Stripped, StripFails
  <1> QED
    BY <1>1, <1>2, <1>3, <1>4, <1>5, <1>6, <1>7, <1>8, <1>9, <1>10, <1>11
    DEF Step, Observe, Write, InstallAgent

\* No step of a reconcile touches a Secret.
LEMMA SecretFrame ==
  ASSUME NEW c \in Clusters, Step(c)
  PROVE  UNCHANGED target
  BY DEF Step, Reconcile, Observe, ObserveGuard, ObserveAbsent, ObserveFails,
         ObserveUpToDate, ObserveDrift, Write, ApplyInstance, ApplyRejected, ApplyFails,
         SyncMode, SyncModeFails, InstallAgent, GetManifests, GetManifestsFails, Install,
         InstallFails, RollbackStrip, RollbackDelete, Delete, DeleteBegins, DeleteStrip,
         DeleteRow, world

\* Delete calls DeleteCluster only when the agent it has to remove is gone
\* (cluster.go:425-439): the manifests cannot be fetched any more afterwards.
THEOREM StrippedBeforeDeleted == Spec => []DeleteStripsFirst
<1>1. Init => DeleteStripsFirst
  BY DEF Init, DeleteStripsFirst
<1>2. TypeOK /\ DeleteStripsFirst /\ [Next]_vars => DeleteStripsFirst'
  <2> SUFFICES ASSUME TypeOK, DeleteStripsFirst, [Next]_vars
               PROVE  DeleteStripsFirst'
    OBVIOUS
  <2>1. ASSUME NEW c \in Clusters, Step(c) PROVE DeleteStripsFirst'
    <3>1. SUFFICES pc'[c] = "drow" /\ Strips => agent'[c] = "none"
      BY <2>1, Frame DEF DeleteStripsFirst, Strips, HasKubeConfig
    <3> USE DEF TypeOK, ControlOK, Finish, Goto, GiveUp, Strips
    <3>2. CASE Reconcile(c) \/ Observe(c)
      BY <3>2 DEF Reconcile, Observe, ObserveGuard, ObserveAbsent, ObserveFails,
                  ObserveUpToDate, ObserveDrift, Absent, Waiting
    <3>3. CASE Write(c)
      BY <3>3 DEF Write, ApplyInstance, ApplyRejected, ApplyFails, SyncMode,
                  SyncModeFails, ModeFailed, Rollback, Created
    <3>4. CASE InstallAgent(c)
      BY <3>4 DEF InstallAgent, GetManifests, GetManifestsFails, Install, InstallFails,
                  RollbackStrip, RollbackDelete, Rollback, Created
    <3>5. CASE DeleteBegins(c)
      BY <3>5 DEF DeleteBegins
    <3>6. CASE DeleteStrip(c)
      BY <3>6 DEF DeleteStrip, Stripped, WorldOK
    <3>7. CASE DeleteRow(c)
      BY <3>7 DEF DeleteRow
    <3> QED BY <2>1, <3>2, <3>3, <3>4, <3>5, <3>6, <3>7 DEF Step, Delete
  <2>2. CASE Environment
    <3>1. CASE Crash
      BY <3>1 DEF Crash, DeleteStripsFirst
    <3>2. CASE UNCHANGED <<pc, agent>>
      BY <3>2 DEF DeleteStripsFirst
    <3> QED
      BY <2>2, <3>1, <3>2
      DEF Environment, EditSpec, RotateSecret, RequestDelete, OperatorResumes,
          RowDropped, world
  <2>3. CASE UNCHANGED vars
    BY <2>3 DEF vars, world, DeleteStripsFirst
  <2> QED BY <2>1, <2>2, <2>3 DEF Next
<1> QED BY <1>1, <1>2, ClusterTypeCorrect, PTL DEF Spec

-------------------------------------------------------------------------------
(* The guard *)

\* Keys of different MRs never meet: every MR has a UID.
LEMMA KeysApart ==
  ASSUME NEW c \in Clusters, NEW d \in Clusters, NEW r, NEW q
  PROVE  /\ SameResource(Key(Identity(c), r), Identity(d)) <=> c = d
         /\ SameResource(Key(Identity(c), r), Key(Identity(d), q)) <=> c = d
         /\ Key(Identity(c), r).fingerprint = r
  BY UidsAreSet DEF SameResource, Key, Identity

\* No entry belongs to c.
Forgotten(c) == \A e \in entries : ~SameResource(e.key, Identity(c))

\* Forgetting an MR, or the MR of a key, leaves none of its entries.
LEMMA WithoutForgets ==
  ASSUME EntriesOK, NEW c \in Clusters, NEW r,
         r = Identity(c) \/ \E q : r = Key(Identity(c), q),
         entries' = Without(entries, r)
  PROVE  Forgotten(c)'
  <1> SUFFICES ASSUME NEW e \in entries, ~SameResource(e.key, r)
               PROVE  ~SameResource(e.key, Identity(c))
    BY DEF Forgotten, Without
  <1>1. PICK d \in Clusters, q \in Requests : e.key = Key(Identity(d), q)
    BY DEF EntriesOK
  <1> QED BY <1>1, KeysApart

\* The inductive invariant.  GuardHoldsLastFailure alone does not say that a
\* reconcile that runs has an MR to record an entry for.
GuardInv ==
  /\ GuardHoldsLastFailure
  /\ GuardForgetsGone
  /\ \A c \in Clusters : pc[c] # "idle" => mr[c].phase # "gone"

LEMMA ForgottenWhileBusy ==
  ASSUME GuardInv, NEW c \in Clusters, pc[c] \notin {"idle", "guard"}
  PROVE  Forgotten(c)
  BY DEF GuardInv, GuardHoldsLastFailure, Forgotten

\* A step of c that records nothing.
LEMMA QuietStep ==
  ASSUME TypeOK, GuardInv, NEW c \in Clusters, Step(c),
         entries' \subseteq entries, UNCHANGED failed,
         pc'[c] # "idle" => mr'[c].phase # "gone",
         \/ Forgotten(c)'
         \/ pc'[c] \in {"idle", "guard"} /\ mr'[c].phase = mr[c].phase
  PROVE  GuardInv'
  <1>1. ASSUME NEW d \in Clusters, NEW e \in entries', SameResource(e.key, Identity(d))
        PROVE  /\ pc'[d] \in {"idle", "guard"}
               /\ failed'[d] # NoFailure
               /\ e.key.fingerprint.intent = failed'[d].intent
               /\ e.key.fingerprint.target = failed'[d].target
               /\ mr'[d].phase # "gone"
    <2>1. e \in entries
      OBVIOUS
    <2>2. /\ pc[d] \in {"idle", "guard"}
          /\ failed[d] # NoFailure
          /\ e.key.fingerprint.intent = failed[d].intent
          /\ e.key.fingerprint.target = failed[d].target
          /\ mr[d].phase # "gone"
      BY <1>1, <2>1 DEF GuardInv, GuardHoldsLastFailure, GuardForgetsGone
    <2>3. CASE d # c
      BY <2>2, <2>3, Frame
    <2>4. CASE d = c
      BY <1>1, <2>2, <2>4 DEF Forgotten
    <2> QED BY <2>3, <2>4
  <1>2. ASSUME NEW d \in Clusters, pc'[d] # "idle" PROVE mr'[d].phase # "gone"
    BY <1>2, Frame DEF GuardInv
  <1> QED BY <1>1, <1>2 DEF GuardInv, GuardHoldsLastFailure, GuardForgetsGone, Identity

\* A step of c that ends a write with an error.
LEMMA GiveUpStep ==
  ASSUME TypeOK, GuardInv, NEW c \in Clusters, Step(c), pc[c] \notin {"idle", "guard"},
         NEW fingerprint \in Fingerprints, NEW err \in Error,
         GiveUp(c, fingerprint, err)
  PROVE  GuardInv'
  <1> DEFINE key == WriteKey(c, att[c].filled, fingerprint)
             new == [key |-> key, err |-> err]
             request == [intent |-> att[c].intent, filled |-> att[c].filled,
                         target |-> fingerprint]
  <1>1. Forgotten(c)
    BY ForgottenWhileBusy
  <1>2. pc'[c] = "idle" /\ mr'[c].phase = mr[c].phase /\ mr[c].phase # "gone"
    BY DEF GiveUp, Finish, TypeOK, ControlOK, MRs, GuardInv
  <1>3. key = Key(Identity(c), request) /\ new.key = key
    BY DEF WriteKey
  <1>4. key.fingerprint = request
    BY <1>3, KeysApart
  <1>5. ASSUME NEW d \in Clusters, NEW e \in entries', SameResource(e.key, Identity(d))
        PROVE  /\ pc'[d] \in {"idle", "guard"}
               /\ failed'[d] # NoFailure
               /\ e.key.fingerprint.intent = failed'[d].intent
               /\ e.key.fingerprint.target = failed'[d].target
               /\ mr'[d].phase # "gone"
    <2>1. e \in entries \/ (IsTerminal(err) /\ e = new)
      BY DEF GiveUp, Recorded, Without
    <2>2. CASE e \in entries
      <3>1. d # c
        BY <1>1, <1>5, <2>2 DEF Forgotten
      <3> QED BY <1>5, <2>2, <3>1, Frame DEF GuardInv, GuardHoldsLastFailure, GuardForgetsGone
    <2>3. CASE IsTerminal(err) /\ e = new
      <3>1. d = c
        BY <1>3, <1>5, <2>3, KeysApart
      <3>2. failed'[c] = [intent |-> att[c].intent, mode |-> att[c].mode,
                          target |-> fingerprint, current |-> TRUE]
        BY <2>3 DEF GiveUp, TypeOK, HistoryOK
      <3>3. failed'[c] # NoFailure
        <4>1. failed'[c] \in Failures
          BY <3>2 DEF Failures, TypeOK, AttemptsOK, Attempts
        <4> QED BY <4>1, Sentinels, Configuration DEF Failures, UserModes, Fingerprints
      <3> QED BY <1>2, <1>3, <1>4, <2>3, <3>1, <3>2, <3>3
    <2> QED BY <2>1, <2>2, <2>3
  <1>6. ASSUME NEW d \in Clusters, pc'[d] # "idle" PROVE mr'[d].phase # "gone"
    BY <1>2, <1>6, Frame DEF GuardInv
  <1> QED BY <1>5, <1>6 DEF GuardInv, GuardHoldsLastFailure, GuardForgetsGone, Identity

LEMMA StepKeepsGuardInv ==
  ASSUME TypeOK, GuardInv, NEW c \in Clusters, Step(c)
  PROVE  GuardInv'
  <1> USE DEF TypeOK, ControlOK, Goto, Finish
  <1>0. pc[c] \notin {"idle", "guard"} /\ entries' \subseteq entries => Forgotten(c)'
    BY ForgottenWhileBusy DEF Forgotten, Identity
  <1>1. CASE Reconcile(c)
    BY <1>1, QuietStep DEF Reconcile, history
  <1>2. CASE ObserveGuard(c)
    <2> DEFINE request == [intent |-> att[c].intent, filled |-> att[c].filled,
                           target |-> TargetFingerprint(c)]
    <2>1. WriteKey(c, att[c].filled, TargetFingerprint(c)) = Key(Identity(c), request)
      BY DEF WriteKey
    <2>2. CASE Suppresses(entries, Key(Identity(c), request), att[c].deleting)
      <3>1. entries' = entries /\ pc'[c] = "idle" /\ UNCHANGED <<mr, failed>>
        BY <1>2, <2>1, <2>2 DEF ObserveGuard, AfterSuppress, history
      <3> QED BY <3>1, QuietStep
    <2>3. CASE ~Suppresses(entries, Key(Identity(c), request), att[c].deleting)
      <3>1. entries' = Without(entries, Key(Identity(c), request))
        BY <1>2, <2>1, <2>3 DEF ObserveGuard, AfterSuppress
      <3>2. Forgotten(c)'
        BY <3>1, WithoutForgets
      <3>3. entries' \subseteq entries
        BY <3>1 DEF Without
      <3>4. UNCHANGED <<mr, failed>> /\ mr[c].phase # "gone"
        BY <1>2 DEF ObserveGuard, GuardInv, history
      <3> QED BY <3>2, <3>3, <3>4, QuietStep
    <2> QED BY <2>2, <2>3
  <1>3. CASE ObserveAbsent(c) \/ ObserveFails(c)
    <2>1. UNCHANGED <<entries, failed>> /\ pc[c] = "get" /\ mr[c].phase # "gone"
      BY <1>3 DEF ObserveAbsent, ObserveFails, history, GuardInv
    <2>2. pc'[c] # "idle" => mr'[c].phase # "gone"
      BY <1>3, <2>1 DEF ObserveAbsent, ObserveFails, Absent, Waiting, MRs
    <2> QED BY <1>0, <2>1, <2>2, QuietStep
  <1>4. CASE ObserveUpToDate(c) \/ ObserveDrift(c)
    <2>1. UNCHANGED failed /\ pc[c] = "get" /\ mr[c].phase # "gone"
      BY <1>4 DEF ObserveUpToDate, ObserveDrift, history, GuardInv
    <2>2. entries' \subseteq entries
      BY <1>4 DEF ObserveUpToDate, ObserveDrift, ClearWrites, AfterSuppress, Without
    <2>3. \/ mr' = mr
          \/ mr' = [mr EXCEPT ![c].seen = row[att[c].ext].mode]
      BY <1>4 DEF ObserveUpToDate, ObserveDrift, StatusMaySettle
    <2>4. mr'[c].phase = mr[c].phase
      BY <2>3 DEF MRs
    <2> QED BY <1>0, <2>1, <2>2, <2>4, QuietStep
  <1>5. ASSUME pc[c] \notin {"idle", "guard"},
               entries' \subseteq entries, UNCHANGED failed, mr'[c].phase = mr[c].phase
        PROVE  GuardInv'
    BY <1>0, <1>5, QuietStep DEF GuardInv
  <1>6. CASE ApplyInstance(c)
    BY <1>5, <1>6 DEF ApplyInstance, history
  <1>7. CASE ApplyRejected(c)
    <2>1. PICK err \in Error : GiveUp(c, TargetFingerprint(c), err)
      BY <1>7, FixedErrors, ClassifiedErrors DEF ApplyRejected
    <2> QED BY <1>7, <2>1, GiveUpStep, FingerprintType DEF ApplyRejected
  <1>8. CASE ApplyFails(c)
    <2>1. PICK err \in Error : GiveUp(c, TargetFingerprint(c), err)
      BY <1>8, FaultsAreErrors, ClassifiedErrors DEF ApplyFails
    <2> QED BY <1>8, <2>1, GiveUpStep, FingerprintType DEF ApplyFails
  <1>9. CASE SyncMode(c)
    <2>1. entries' \subseteq entries /\ mr'[c].phase = mr[c].phase
      BY <1>9 DEF SyncMode, ClearWrites, Without, Created, MRs
    <2> QED BY <1>5, <1>9, <2>1 DEF SyncMode
  <1>10. CASE SyncModeFails(c)
    <2>1. PICK err \in Error : ModeFailed(c, err)
      BY <1>10, FixedErrors, FaultsAreErrors, ClassifiedErrors DEF SyncModeFails
    <2>2. CASE GiveUp(c, att[c].target, err)
      <3>1. att[c].target \in Fingerprints
        BY <1>10 DEF SyncModeFails, AttemptsOK, Attempts
      <3> QED BY <1>10, <2>2, <3>1, GiveUpStep DEF SyncModeFails
    <2>3. CASE Rollback(c, err) /\ UNCHANGED <<mr, entries, failed>>
      BY <1>5, <1>10, <2>3 DEF SyncModeFails
    <2> QED BY <2>1, <2>2, <2>3 DEF ModeFailed
  <1>11. CASE GetManifests(c) \/ GetManifestsFails(c)
    BY <1>5, <1>11 DEF GetManifests, GetManifestsFails, history
  <1>12. CASE Install(c) \/ InstallFails(c)
    BY <1>5, <1>12 DEF Install, InstallFails, Created, MRs, history
  <1>13. CASE RollbackStrip(c)
    BY <1>5, <1>13 DEF RollbackStrip
  <1>14. CASE RollbackDelete(c)
    <2>1. att[c].target \in Fingerprints /\ att[c].err \in Error
      BY <1>14 DEF RollbackDelete, AttemptsOK, Attempts
    <2> QED BY <1>14, <2>1, GiveUpStep DEF RollbackDelete
  <1>15. CASE Delete(c)
    <2>1. entries' \subseteq entries
      BY <1>15 DEF Delete, DeleteBegins, DeleteStrip, DeleteRow, ClearWrites, Without
    <2> QED
      BY <1>5, <1>15, <2>1 DEF Delete, DeleteBegins, DeleteStrip, DeleteRow, history
  <1> QED
    BY <1>1, <1>2, <1>3, <1>4, <1>6, <1>7, <1>8, <1>9, <1>10, <1>11, <1>12, <1>13,
       <1>14, <1>15 DEF Step, Observe, Write, InstallAgent

LEMMA EnvironmentKeepsGuardInv ==
  ASSUME TypeOK, GuardInv, Environment
  PROVE  GuardInv'
  <1> USE DEF TypeOK, GuardInv, GuardHoldsLastFailure, GuardForgetsGone, Identity
  <1>1. ASSUME NEW c \in Clusters, failed' = [failed EXCEPT ![c] = Outdated(@)],
               NEW d \in Clusters
        PROVE  /\ failed'[d].intent = failed[d].intent
               /\ failed'[d].target = failed[d].target
               /\ failed[d] # NoFailure => failed'[d] # NoFailure
    <2>1. ASSUME NEW f \in Failures
          PROVE  /\ f # NoFailure
                 /\ Outdated(f) \in Failures
                 /\ Outdated(f).intent = f.intent
                 /\ Outdated(f).target = f.target
      BY Sentinels, Configuration DEF Failures, UserModes, Fingerprints, Outdated
    <2>2. Outdated(NoFailure) = NoFailure
      BY DEF Outdated
    <2>3. \A f \in Failures : f # NoFailure /\ Outdated(f) # NoFailure
      BY <2>1
    <2> QED BY <1>1, <2>1, <2>2, <2>3 DEF HistoryOK
  <1>2. ASSUME NEW c \in Clusters, EditSpec(c) PROVE GuardInv'
    <2>1. \A d \in Clusters : mr'[d].phase = mr[d].phase
      BY <1>2 DEF EditSpec, MRs
    <2>2. UNCHANGED <<entries, pc>>
      BY <1>2 DEF EditSpec
    <2>3. failed' = [failed EXCEPT ![c] = Outdated(@)]
      BY <1>2 DEF EditSpec
    <2>4. GuardHoldsLastFailure'
      BY <1>1, <2>2, <2>3
    <2>5. GuardForgetsGone' /\ \A d \in Clusters : pc'[d] # "idle" => mr'[d].phase # "gone"
      BY <2>1, <2>2
    <2> QED BY <2>4, <2>5
  <1>3. ASSUME NEW c \in Clusters, RotateSecret(c) PROVE GuardInv'
    BY <1>1, <1>3 DEF RotateSecret
  <1>4. ASSUME NEW c \in Clusters, RequestDelete(c) PROVE GuardInv'
    BY <1>4 DEF RequestDelete, MRs, history
  <1>5. ASSUME NEW c \in Clusters, OperatorResumes(c) PROVE GuardInv'
    BY <1>5 DEF OperatorResumes, MRs, history
  <1>6. ASSUME NEW n \in Names, RowDropped(n) PROVE GuardInv'
    BY <1>6 DEF RowDropped, history
  <1>7. CASE Crash
    BY <1>7 DEF Crash
  <1> QED BY <1>2, <1>3, <1>4, <1>5, <1>6, <1>7 DEF Environment

LEMMA GuardInvariant == Spec => []GuardInv
<1>1. Init => GuardInv
  BY DEF Init, GuardInv, GuardHoldsLastFailure, GuardForgetsGone
<1>2. TypeOK /\ GuardInv /\ [Next]_vars => GuardInv'
  <2>1. CASE UNCHANGED vars
    BY <2>1 DEF vars, history, GuardInv, GuardHoldsLastFailure, GuardForgetsGone, Identity
  <2> QED BY <2>1, StepKeepsGuardInv, EnvironmentKeepsGuardInv DEF Next
<1> QED BY <1>1, <1>2, ClusterTypeCorrect, PTL DEF Spec

\* The guard remembers of an MR at most its last terminally failed write, and
\* nothing while a write of it is under way.
THEOREM LastFailureOnly == Spec => []GuardHoldsLastFailure
<1>1. GuardInv => GuardHoldsLastFailure
  BY DEF GuardInv
<1> QED BY <1>1, GuardInvariant, PTL

\* The guard keeps nothing of an MR that is gone, however its deletion raced
\* with writes, edits and other MRs.
THEOREM NothingOfTheGone == Spec => []GuardForgetsGone
<1>1. GuardInv => GuardForgetsGone
  BY DEF GuardInv
<1> QED BY <1>1, GuardInvariant, PTL

\* A write is only ever suppressed when the last terminally failed write of the
\* MR was the same request for the same kubeconfig.
THEOREM SuppressedIsSame == Spec => SuppressOnlySamePayload
<1> DEFINE Same(c) ==
      /\ failed[c] # NoFailure
      /\ failed[c].intent = att[c].intent
      /\ failed[c].target = TargetFingerprint(c)
<1>1. ASSUME TypeOK, GuardInv, [Next]_vars, NEW c \in Clusters, Suppressed(c)
      PROVE  Same(c)
  <2> USE <1>1 DEF TypeOK, ControlOK, Suppressed, Finish, Goto, GiveUp
  <2>1. ASSUME NEW filled \in BOOLEAN,
               Suppresses(entries, WriteKey(c, filled, TargetFingerprint(c)),
                          att[c].deleting)
        PROVE  Same(c)
    <3> DEFINE request == [intent |-> att[c].intent, filled |-> filled,
                           target |-> TargetFingerprint(c)]
    <3>1. PICK e \in entries : SamePayload(e.key, Key(Identity(c), request))
      BY <2>1 DEF Suppresses, Matching, WriteKey
    <3>2. PICK d \in Clusters, q \in Requests : e.key = Key(Identity(d), q)
      BY DEF EntriesOK
    <3>3. d = c /\ e.key.fingerprint = request
      BY <3>1, <3>2, KeysApart DEF SamePayload
    <3>4. SameResource(e.key, Identity(c))
      BY <3>2, <3>3, KeysApart
    <3>5. /\ failed[c] # NoFailure
          /\ e.key.fingerprint.intent = failed[c].intent
          /\ e.key.fingerprint.target = failed[c].target
      BY <3>4 DEF GuardInv, GuardHoldsLastFailure
    <3> QED BY <3>3, <3>5
  <2>2. ASSUME NEW d \in Clusters, Step(d) PROVE d = c
    BY <2>2, Frame
  <2>3. CASE Reconcile(c)
    BY <2>3 DEF Reconcile
  <2>4. CASE ObserveGuard(c)
    <3>1. att[c].filled \in BOOLEAN
      BY <2>4 DEF ObserveGuard, AttemptsOK, Attempts
    <3> QED BY <2>1, <2>4, <3>1 DEF ObserveGuard
  <2>5. CASE ObserveAbsent(c) \/ ObserveFails(c) \/ ObserveUpToDate(c)
    BY <2>5 DEF ObserveAbsent, ObserveFails, ObserveUpToDate, Absent, Waiting
  <2>6. CASE ObserveDrift(c)
    BY <2>1, <2>6 DEF ObserveDrift
  <2>7. CASE Write(c)
    BY <2>7 DEF Write, ApplyInstance, ApplyRejected, ApplyFails, SyncMode,
                SyncModeFails, ModeFailed, Rollback, Created
  <2>8. CASE InstallAgent(c)
    BY <2>8 DEF InstallAgent, GetManifests, GetManifestsFails, Install, InstallFails,
                RollbackStrip, RollbackDelete, Rollback, Created
  <2>9. CASE Delete(c)
    BY <2>9 DEF Delete, DeleteBegins, DeleteStrip, DeleteRow
  <2>10. CASE Environment
    <3>1. outcome'[c] = outcome[c] \/ outcome'[c] = "crashed"
      BY <2>10 DEF Environment, EditSpec, RotateSecret, RequestDelete,
                   OperatorResumes, RowDropped, Crash
    <3> QED BY <3>1
  <2>11. CASE UNCHANGED vars
    BY <2>11 DEF vars
  <2>12. CASE Step(c)
    BY <2>3, <2>4, <2>5, <2>6, <2>7, <2>8, <2>9, <2>12 DEF Step, Observe
  <2> QED BY <2>2, <2>10, <2>11, <2>12 DEF Next
<1>2. TypeOK /\ GuardInv /\ [Next]_vars =>
        [\A c \in Clusters : Suppressed(c) => Same(c)]_vars
  BY <1>1
<1> QED
  BY <1>2, ClusterTypeCorrect, GuardInvariant, PTL DEF Spec, SuppressOnlySamePayload

-------------------------------------------------------------------------------
(* The path of a reconcile *)

\* A deletion and a write never mix: which of the two a reconcile is on was decided
\* when it read the MR.
PathOK ==
  \A c \in Clusters :
    /\ pc[c] # "idle" =>
         /\ att[c].deleting => mr[c].phase = "deleting"
         /\ IF pc[c] \in {"delete", "dstrip", "drow"} THEN att[c].deleting
            ELSE pc[c] \notin {"guard", "get"} => ~att[c].deleting
         /\ PinsDefaults => att[c].filled
    /\ outcome[c] = "synced" => pc[c] = "idle"

\* A rollback carries on with the reconcile's copy.
LEMMA RollbackEffect ==
  ASSUME TypeOK, NEW c \in Clusters, pc[c] # "idle", NEW err, Rollback(c, err)
  PROVE  /\ pc'[c] = (IF Strips THEN "rbStrip" ELSE "rbDelete") /\ UNCHANGED outcome
         /\ att'[c] = [att[c] EXCEPT !.err = err]
         /\ att'[c].intent = att[c].intent /\ att'[c].mode = att[c].mode
         /\ att'[c].ext = att[c].ext /\ att'[c].deleting = att[c].deleting
         /\ att'[c].seen = att[c].seen /\ att'[c].filled = att[c].filled
         /\ att'[c].adopted = att[c].adopted
  <1>1. /\ pc \in [Clusters -> Steps] /\ att[c] \in Attempts
        /\ att \in [Clusters -> Attempts \cup {NoAttempt}]
    BY DEF TypeOK, ControlOK, AttemptsOK
  <1>2. att'[c] = [att[c] EXCEPT !.err = err]
    BY <1>1 DEF Rollback
  <1>3. pc'[c] = (IF Strips THEN "rbStrip" ELSE "rbDelete") /\ UNCHANGED outcome
    BY <1>1 DEF Rollback, Goto
  <1> QED BY <1>1, <1>2, <1>3 DEF Attempts

LEMMA StepPath ==
  ASSUME TypeOK, PathOK, NEW c \in Clusters, Step(c)
  PROVE  PathOK'
  <1>1. SUFFICES /\ pc'[c] # "idle" =>
                      /\ att'[c].deleting => mr'[c].phase = "deleting"
                      /\ IF pc'[c] \in {"delete", "dstrip", "drow"} THEN att'[c].deleting
                         ELSE pc'[c] \notin {"guard", "get"} => ~att'[c].deleting
                      /\ PinsDefaults => att'[c].filled
                 /\ outcome'[c] = "synced" => pc'[c] = "idle"
    BY Frame DEF PathOK
  <1>2. /\ mr \in [Clusters -> MRs] /\ pc \in [Clusters -> Steps]
        /\ outcome \in [Clusters -> Outcomes]
        /\ att \in [Clusters -> Attempts \cup {NoAttempt}]
        /\ pc[c] # "idle" => att[c] \in Attempts
    BY DEF TypeOK, ControlOK, AttemptsOK, Outcomes
  <1>3. /\ pc[c] # "idle" =>
             /\ att[c].deleting => mr[c].phase = "deleting"
             /\ IF pc[c] \in {"delete", "dstrip", "drow"} THEN att[c].deleting
                ELSE pc[c] \notin {"guard", "get"} => ~att[c].deleting
             /\ PinsDefaults => att[c].filled
        /\ outcome[c] = "synced" => pc[c] = "idle"
    BY DEF PathOK
  <1> USE DEF Attempts, MRs, Finish, Goto
  <1>4. CASE Reconcile(c)
    BY <1>2, <1>3, <1>4 DEF Reconcile
  <1>5. CASE ObserveGuard(c) \/ ObserveAbsent(c) \/ ObserveFails(c)
    BY <1>2, <1>3, <1>5 DEF ObserveGuard, ObserveAbsent, ObserveFails, Absent, Waiting
  <1>6. CASE ObserveUpToDate(c) \/ ObserveDrift(c)
    <2>1. mr'[c].phase = mr[c].phase /\ pc[c] = "get"
      BY <1>6, SettleEffect DEF ObserveUpToDate, ObserveDrift
    <2>2. att' = Observed(c) => att'[c].deleting = att[c].deleting /\ att'[c].filled
      BY <2>1, ObservedKeeps
    <2>3. \/ att' = Observed(c) /\ UNCHANGED outcome
             /\ \/ pc'[c] = "delete" /\ att[c].deleting
                \/ pc'[c] = "update" /\ ~att[c].deleting
          \/ pc'[c] = "idle"
      BY <1>2, <1>6 DEF ObserveUpToDate, ObserveDrift
    <2> QED BY <1>2, <1>3, <2>1, <2>2, <2>3
  <1>7. CASE ApplyInstance(c)
    BY <1>2, <1>3, <1>7 DEF ApplyInstance
  <1>8. CASE ApplyRejected(c) \/ ApplyFails(c)
    BY <1>2, <1>8 DEF ApplyRejected, ApplyFails, GiveUp
  <1>9. CASE SyncMode(c)
    BY <1>2, <1>3, <1>9 DEF SyncMode, Created
  <1>10. CASE SyncModeFails(c)
    <2>1. pc[c] \in {"cmode", "umode"} /\ \E err : ModeFailed(c, err)
      BY <1>10 DEF SyncModeFails
    <2>2. \/ pc'[c] = "idle" /\ outcome'[c] = "failed"
          \/ pc[c] = "cmode" /\ UNCHANGED mr /\ \E err : Rollback(c, err)
      BY <1>2, <2>1 DEF ModeFailed, GiveUp
    <2>3. CASE pc[c] = "cmode" /\ UNCHANGED mr /\ \E err : Rollback(c, err)
      <3>1. /\ pc'[c] \in {"rbStrip", "rbDelete"} /\ UNCHANGED outcome
            /\ att'[c].deleting = att[c].deleting /\ att'[c].filled = att[c].filled
        BY <2>3, RollbackEffect
      <3> QED BY <1>3, <2>3, <3>1
    <2> QED BY <2>2, <2>3
  <1>11. CASE GetManifests(c) \/ GetManifestsFails(c)
    <2>1. CASE GetManifests(c)
      BY <1>2, <1>3, <2>1 DEF GetManifests
    <2>2. CASE GetManifestsFails(c)
      <3>1. UNCHANGED mr /\ pc[c] = "manifests" /\ \E err : Rollback(c, err)
        BY <2>2 DEF GetManifestsFails
      <3>2. /\ pc'[c] \in {"rbStrip", "rbDelete"} /\ UNCHANGED outcome
            /\ att'[c].deleting = att[c].deleting /\ att'[c].filled = att[c].filled
        BY <3>1, RollbackEffect
      <3> QED BY <1>3, <3>1, <3>2
    <2> QED BY <1>11, <2>1, <2>2
  <1>12. CASE Install(c) \/ InstallFails(c)
    <2>1. CASE Install(c)
      BY <1>2, <1>3, <2>1 DEF Install, Created
    <2>2. CASE InstallFails(c)
      <3>1. UNCHANGED mr /\ pc[c] = "install" /\ \E err : Rollback(c, err)
        BY <2>2 DEF InstallFails
      <3>2. /\ pc'[c] \in {"rbStrip", "rbDelete"} /\ UNCHANGED outcome
            /\ att'[c].deleting = att[c].deleting /\ att'[c].filled = att[c].filled
        BY <3>1, RollbackEffect
      <3> QED BY <1>3, <3>1, <3>2
    <2> QED BY <1>12, <2>1, <2>2
  <1>13. CASE RollbackStrip(c) \/ RollbackDelete(c)
    BY <1>2, <1>3, <1>13 DEF RollbackStrip, RollbackDelete, GiveUp
  <1>14. CASE Delete(c)
    BY <1>2, <1>3, <1>14 DEF Delete, DeleteBegins, DeleteStrip, DeleteRow
  <1> QED BY <1>4, <1>5, <1>6, <1>7, <1>8, <1>9, <1>10, <1>11, <1>12, <1>13, <1>14
      DEF Step, Observe, Write, InstallAgent

LEMMA EnvironmentPath ==
  ASSUME TypeOK, PathOK, Environment
  PROVE  PathOK'
  <1>0. /\ mr \in [Clusters -> MRs] /\ att \in [Clusters -> Attempts \cup {NoAttempt}]
        /\ \A d \in Clusters : pc[d] # "idle" => att[d] \in Attempts
    BY DEF TypeOK, AttemptsOK
  <1>1. ASSUME NEW c \in Clusters, EditSpec(c) \/ RequestDelete(c)
        PROVE  PathOK'
    <2>1. \A d \in Clusters :
            /\ pc'[d] = pc[d] /\ outcome'[d] = outcome[d]
            /\ pc[d] # "idle" =>
                 att'[d].deleting = att[d].deleting /\ att'[d].filled = att[d].filled
      BY <1>0, <1>1 DEF EditSpec, RequestDelete, Stale, Attempts
    <2>2. \A d \in Clusters : mr[d].phase = "deleting" => mr'[d].phase = "deleting"
      BY <1>0, <1>1 DEF EditSpec, RequestDelete, MRs
    <2> QED BY <2>1, <2>2 DEF PathOK
  <1>2. ASSUME NEW c \in Clusters, RotateSecret(c) \/ OperatorResumes(c)
        PROVE  PathOK'
    <2>1. UNCHANGED <<pc, att, outcome>> /\ \A d \in Clusters : mr'[d].phase = mr[d].phase
      BY <1>0, <1>2 DEF RotateSecret, OperatorResumes, MRs
    <2> QED BY <2>1 DEF PathOK
  <1>3. ASSUME NEW n \in Names, RowDropped(n)
        PROVE  PathOK'
    BY <1>3 DEF RowDropped, PathOK
  <1>4. CASE Crash
    BY <1>4 DEF Crash, PathOK
  <1> QED BY <1>1, <1>2, <1>3, <1>4 DEF Environment

LEMMA AlwaysOnPath == Spec => []PathOK
<1>1. Init => PathOK
  BY DEF Init, PathOK
<1>2. TypeOK /\ PathOK /\ [Next]_vars => PathOK'
  <2>1. CASE UNCHANGED vars
    BY <2>1 DEF vars, PathOK
  <2> QED BY <2>1, StepPath, EnvironmentPath DEF Next
<1> QED BY <1>1, <1>2, ClusterTypeCorrect, PTL DEF Spec

-------------------------------------------------------------------------------
(* A recorded write is not sent again *)

\* The reconcile is not that of a deletion, or the next one will not be.
LiveRun(c) == IF pc[c] = "idle" THEN mr[c].phase = "live" ELSE ~att[c].deleting

\* The last terminal failure, as long as neither spec nor Secret has changed.
Standing(c) ==
  failed[c] # NoFailure /\ failed[c].current /\ failed[c].intent \notin Unbuildable

\* The guard holds the request that failed, with the server's defaults in it.
Held(c) ==
  \E e \in entries :
    e.key = Key(Identity(c), [intent |-> failed[c].intent, filled |-> TRUE,
                              target |-> failed[c].target])

SameAgain(c) ==
  LiveRun(c) /\ mr[c].intent = failed[c].intent /\ TargetFingerprint(c) = failed[c].target

\* As long as a failure stands, a reconcile works on the spec the MR has, and one
\* that would repeat the write gets no further than the guard.
RetryOK(c) ==
  Standing(c) =>
    /\ pc[c] # "idle" => att[c].intent = mr[c].intent
    /\ SameAgain(c) => pc[c] \in {"idle", "guard"} /\ Held(c)

\* A step of c leaves the entries of the others in the map.
LEMMA EntryFrame ==
  ASSUME TypeOK, NEW c \in Clusters, Step(c), NEW d \in Clusters, d # c,
         NEW e \in entries, NEW q, e.key = Key(Identity(d), q)
  PROVE  e \in entries'
  <1>1. /\ ~SameResource(e.key, Identity(c))
        /\ \A p : ~SameResource(e.key, Key(Identity(c), p))
    BY KeysApart
  <1>2. ASSUME NEW filled, NEW fingerprint
        PROVE  ~SameResource(e.key, WriteKey(c, filled, fingerprint))
    BY <1>1 DEF WriteKey
  <1>3. ASSUME NEW filled, NEW fingerprint, NEW deleting
        PROVE  e \in AfterSuppress(entries, WriteKey(c, filled, fingerprint), deleting)
    BY <1>2 DEF AfterSuppress, Without
  <1>4. ASSUME NEW filled, NEW fingerprint, NEW err
        PROVE  e \in Recorded(entries, WriteKey(c, filled, fingerprint), err)
    BY <1>2 DEF Recorded, Without
  <1>5. e \in Without(entries, Identity(c))
    BY <1>1 DEF Without
  <1>6. CASE Reconcile(c) \/ Observe(c)
    BY <1>3, <1>5, <1>6
    DEF Reconcile, Observe, ObserveGuard, ObserveAbsent, ObserveFails, ObserveUpToDate,
        ObserveDrift, ClearWrites
  <1>7. CASE Write(c)
    BY <1>4, <1>5, <1>7
    DEF Write, ApplyInstance, ApplyRejected, ApplyFails, SyncMode, SyncModeFails,
        ModeFailed, GiveUp, ClearWrites
  <1>8. CASE InstallAgent(c)
    BY <1>4, <1>8
    DEF InstallAgent, GetManifests, GetManifestsFails, Install, InstallFails,
        RollbackStrip, RollbackDelete, GiveUp
  <1>9. CASE Delete(c)
    BY <1>5, <1>9 DEF Delete, DeleteBegins, DeleteStrip, DeleteRow, ClearWrites
  <1> QED BY <1>6, <1>7, <1>8, <1>9 DEF Step

LEMMA RetryFrame ==
  ASSUME TypeOK, NEW c \in Clusters, Step(c), NEW d \in Clusters, d # c, RetryOK(d)
  PROVE  RetryOK(d)'
  <1>1. UNCHANGED target
    BY SecretFrame
  <1>2. Held(d) => Held(d)'
    BY EntryFrame, Frame DEF Held, Identity
  <1>3. TargetFingerprint(d)' = TargetFingerprint(d)
    BY <1>1 DEF TargetFingerprint
  <1> QED BY <1>2, <1>3, Frame DEF RetryOK, Standing, SameAgain, LiveRun

\* Past the guard, what stands is not what the reconcile is about to send; as long
\* as nothing is recorded that stays so.
LEMMA RetryBusy ==
  ASSUME TypeOK, PathOK, NEW c \in Clusters, RetryOK(c), pc[c] \notin {"idle", "guard"},
         UNCHANGED target, failed'[c] = failed[c], mr'[c].intent = mr[c].intent,
         mr'[c].phase = "live" => mr[c].phase = "live",
         pc'[c] = "idle"
         \/ (att'[c].intent = att[c].intent /\ att'[c].deleting = att[c].deleting)
  PROVE  RetryOK(c)'
  <1>1. Standing(c)' <=> Standing(c)
    BY DEF Standing
  <1>2. LiveRun(c)' => LiveRun(c)
    BY DEF LiveRun, PathOK
  <1>3. TargetFingerprint(c)' = TargetFingerprint(c)
    BY DEF TargetFingerprint
  <1>4. SameAgain(c)' => SameAgain(c)
    BY <1>2, <1>3 DEF SameAgain
  <1> QED BY <1>1, <1>4 DEF RetryOK

LEMMA RetryGiveUp ==
  ASSUME TypeOK, PathOK, PinsDefaults, NEW c \in Clusters, RetryOK(c),
         pc[c] \notin {"idle", "guard"}, UNCHANGED target,
         NEW fingerprint \in Fingerprints, NEW err \in Error, GiveUp(c, fingerprint, err)
  PROVE  RetryOK(c)'
  <1>1. /\ mr'[c].intent = mr[c].intent /\ mr'[c].phase = mr[c].phase /\ pc'[c] = "idle"
    BY DEF GiveUp, Finish, TypeOK, ControlOK, MRs
  <1>2. CASE ~IsTerminal(err) /\ att[c].intent \notin Unbuildable
    BY <1>1, <1>2, RetryBusy DEF GiveUp
  <1>3. ASSUME IsTerminal(err) \/ att[c].intent \in Unbuildable
        PROVE  failed'[c] = [intent |-> att[c].intent, mode |-> att[c].mode,
                             target |-> fingerprint, current |-> TRUE]
    BY <1>3 DEF GiveUp, TypeOK, HistoryOK
  <1>4. CASE att[c].intent \in Unbuildable
    BY <1>3, <1>4 DEF RetryOK, Standing
  <1>5. CASE IsTerminal(err)
    <2> DEFINE key == Key(Identity(c), [intent |-> att[c].intent, filled |-> TRUE,
                                        target |-> fingerprint])
    <2>1. att[c].filled = TRUE
      BY DEF PathOK, TypeOK, AttemptsOK, Attempts
    <2>2. [key |-> key, err |-> err] \in entries'
      BY <1>5, <2>1 DEF GiveUp, Recorded, WriteKey
    <2>3. failed'[c].intent = att[c].intent /\ failed'[c].target = fingerprint
      BY <1>3, <1>5
    <2>4. Held(c)'
      BY <2>2, <2>3 DEF Held, Identity
    <2> QED BY <1>1, <2>4 DEF RetryOK
  <1> QED BY <1>2, <1>4, <1>5

LEMMA RetryGuard ==
  ASSUME TypeOK, PathOK, PinsDefaults, NEW c \in Clusters, RetryOK(c), ObserveGuard(c)
  PROVE  RetryOK(c)'
  <1> DEFINE key == WriteKey(c, att[c].filled, TargetFingerprint(c))
  <1>1. /\ pc[c] = "guard" /\ UNCHANGED <<mr, target, failed>> /\ att[c].filled = TRUE
    BY DEF ObserveGuard, world, history, PathOK, TypeOK, AttemptsOK, Attempts
  <1>2. TargetFingerprint(c)' = TargetFingerprint(c) /\ Standing(c)' = Standing(c)
    BY <1>1 DEF TargetFingerprint, Standing
  <1>3. CASE Suppresses(entries, key, att[c].deleting)
    <2>1. UNCHANGED entries /\ pc'[c] = "idle" /\ ~att[c].deleting
      BY <1>3 DEF ObserveGuard, AfterSuppress, Suppresses, Finish, TypeOK, ControlOK
    <2>2. Held(c)' <=> Held(c)
      BY <1>1, <2>1 DEF Held
    <2> QED BY <1>1, <1>2, <2>1, <2>2 DEF RetryOK, SameAgain, LiveRun
  <1>4. CASE ~Suppresses(entries, key, att[c].deleting)
    <2>1. UNCHANGED att /\ pc'[c] = "get"
      BY <1>4 DEF ObserveGuard, Goto, TypeOK, ControlOK
    <2>2. SUFFICES ASSUME Standing(c), SameAgain(c) PROVE FALSE
      BY <1>1, <1>2, <2>1 DEF RetryOK, SameAgain, LiveRun
    <2>3. ~att[c].deleting /\ Held(c) /\ att[c].intent = failed[c].intent
      BY <1>1, <2>2 DEF RetryOK, SameAgain, LiveRun
    <2>4. key = Key(Identity(c), [intent |-> failed[c].intent, filled |-> TRUE,
                                  target |-> failed[c].target])
      BY <1>1, <2>2, <2>3 DEF WriteKey, SameAgain
    <2>5. PICK e \in entries : e.key = key
      BY <2>3, <2>4 DEF Held
    <2>6. SamePayload(key, key)
      BY <2>4, KeysApart DEF SamePayload
    <2>7. Suppresses(entries, key, att[c].deleting)
      BY <2>3, <2>5, <2>6 DEF Suppresses, Matching
    <2> QED BY <1>4, <2>7
  <1> QED BY <1>3, <1>4

\* Past the guard a reconcile either gives a write up or carries its copy on and
\* records nothing.
LEMMA BusyStep ==
  ASSUME TypeOK, NEW c \in Clusters, Step(c), pc[c] \notin {"idle", "guard"}
  PROVE  \/ \E fingerprint \in Fingerprints, err \in Error : GiveUp(c, fingerprint, err)
         \/ /\ UNCHANGED failed /\ mr'[c].intent = mr[c].intent
            /\ mr'[c].phase = "live" => mr[c].phase = "live"
            /\ \/ pc'[c] = "idle"
               \/ att'[c].intent = att[c].intent /\ att'[c].deleting = att[c].deleting
  <1> DEFINE Gives == \E fingerprint \in Fingerprints, err \in Error :
                        GiveUp(c, fingerprint, err)
             Carries == \/ pc'[c] = "idle"
                        \/ att'[c].intent = att[c].intent /\ att'[c].deleting = att[c].deleting
             Quiet == /\ UNCHANGED failed /\ mr'[c].intent = mr[c].intent
                      /\ mr'[c].phase = "live" => mr[c].phase = "live"
                      /\ Carries
  <1>1. /\ mr \in [Clusters -> MRs] /\ pc \in [Clusters -> Steps]
        /\ att \in [Clusters -> Attempts \cup {NoAttempt}]
        /\ att[c] \in Attempts /\ att[c].target \in Fingerprints
        /\ TargetFingerprint(c) \in Fingerprints
    BY FingerprintType DEF TypeOK, ControlOK, AttemptsOK, Attempts
  <1>2. \A err : Rollback(c, err) => Carries
    BY RollbackEffect
  <1>3. CASE ObserveAbsent(c) \/ ObserveFails(c)
    BY <1>1, <1>3 DEF ObserveAbsent, ObserveFails, Absent, Waiting, Finish, history, MRs
  <1>4. CASE ObserveUpToDate(c) \/ ObserveDrift(c)
    <2>1. mr'[c].intent = mr[c].intent /\ mr'[c].phase = mr[c].phase /\ UNCHANGED failed
      BY <1>4, SettleEffect DEF ObserveUpToDate, ObserveDrift, history
    <2>2. att' = Observed(c) => Carries
      BY <1>4, ObservedKeeps DEF ObserveUpToDate, ObserveDrift
    <2>3. att' = Observed(c) \/ pc'[c] = "idle"
      BY <1>1, <1>4 DEF ObserveUpToDate, ObserveDrift, Finish
    <2> QED BY <2>1, <2>2, <2>3
  <1>5. CASE ApplyInstance(c)
    BY <1>1, <1>5 DEF ApplyInstance, history, Attempts
  <1>6. CASE ApplyRejected(c)
    BY <1>1, <1>6, FixedErrors, ClassifiedErrors DEF ApplyRejected
  <1>7. CASE ApplyFails(c)
    BY <1>1, <1>7, FaultsAreErrors, ClassifiedErrors DEF ApplyFails
  <1>8. CASE SyncMode(c)
    <2>1. mr'[c].intent = mr[c].intent /\ mr'[c].phase = mr[c].phase /\ UNCHANGED failed
      BY <1>1, <1>8 DEF SyncMode, Created, MRs
    <2>2. pc'[c] = "idle" \/ UNCHANGED att
      BY <1>1, <1>8 DEF SyncMode, Created, Finish
    <2> QED BY <2>1, <2>2
  <1>9. CASE SyncModeFails(c)
    <2>1. PICK err \in Error : ModeFailed(c, err)
      BY <1>9, FixedErrors, FaultsAreErrors, ClassifiedErrors DEF SyncModeFails
    <2> QED BY <1>1, <1>2, <2>1 DEF ModeFailed
  <1>10. CASE GetManifests(c) \/ GetManifestsFails(c)
    BY <1>2, <1>10 DEF GetManifests, GetManifestsFails, history
  <1>11. CASE Install(c) \/ InstallFails(c)
    BY <1>1, <1>2, <1>11 DEF Install, InstallFails, Created, Finish, history, MRs
  <1>12. CASE RollbackStrip(c)
    BY <1>12 DEF RollbackStrip
  <1>13. CASE RollbackDelete(c)
    <2>1. att[c].err \in Error
      BY <1>13 DEF RollbackDelete, TypeOK, AttemptsOK
    <2> QED BY <1>1, <1>13, <2>1 DEF RollbackDelete
  <1>14. CASE Delete(c)
    BY <1>1, <1>14 DEF Delete, DeleteBegins, DeleteStrip, DeleteRow, Finish, history
  <1> QED BY <1>3, <1>4, <1>5, <1>6, <1>7, <1>8, <1>9, <1>10, <1>11, <1>12, <1>13, <1>14
      DEF Step, Reconcile, Observe, ObserveGuard, Write, InstallAgent

LEMMA StepRetry ==
  ASSUME TypeOK, PathOK, PinsDefaults, NEW c \in Clusters, RetryOK(c), Step(c)
  PROVE  RetryOK(c)'
  <1>1. UNCHANGED target
    BY SecretFrame
  <1>2. CASE Reconcile(c)
    <2>1. /\ pc[c] = "idle" /\ pc'[c] = "guard" /\ mr[c].phase # "gone"
          /\ att'[c].intent = mr[c].intent
          /\ att'[c].deleting = (mr[c].phase = "deleting")
          /\ UNCHANGED <<mr, entries, failed>>
      BY <1>2 DEF Reconcile, history, TypeOK, ControlOK, AttemptsOK
    <2>2. LiveRun(c)' <=> LiveRun(c)
      BY <2>1 DEF LiveRun, TypeOK, MRs
    <2>3. Standing(c)' = Standing(c) /\ Held(c)' = Held(c)
      BY <2>1 DEF Standing, Held, Identity
    <2> QED BY <1>1, <2>1, <2>2, <2>3 DEF RetryOK, SameAgain, TargetFingerprint
  <1>3. CASE ObserveGuard(c)
    BY <1>3, RetryGuard
  <1>4. CASE pc[c] \notin {"idle", "guard"}
    BY <1>1, <1>4, BusyStep, RetryBusy, RetryGiveUp
  <1> QED BY <1>2, <1>3, <1>4
      DEF Step, Observe, ObserveAbsent, ObserveFails, ObserveUpToDate, ObserveDrift, Write,
          ApplyInstance, ApplyRejected, ApplyFails, SyncMode, SyncModeFails, InstallAgent,
          GetManifests, GetManifestsFails, Install, InstallFails, RollbackStrip,
          RollbackDelete, Delete, DeleteBegins, DeleteStrip, DeleteRow

\* An edit of the spec or the Secret and a restart end what stands.
LEMMA EnvironmentRetry ==
  ASSUME TypeOK, NEW d \in Clusters, RetryOK(d), Environment
  PROVE  RetryOK(d)'
  <1>1. /\ mr \in [Clusters -> MRs] /\ failed \in [Clusters -> Failures \cup {NoFailure}]
        /\ att \in [Clusters -> Attempts \cup {NoAttempt}]
        /\ pc[d] # "idle" => att[d] \in Attempts
        /\ target \in [Clusters -> Targets]
    BY DEF TypeOK, WorldOK, AttemptsOK, HistoryOK
  <1>2. ASSUME failed'[d] = Outdated(failed[d])
        PROVE  RetryOK(d)'
    BY <1>1, <1>2 DEF RetryOK, Standing, Outdated, Failures
  <1>3. ASSUME /\ failed'[d] = failed[d] /\ target'[d] = target[d]
               /\ pc'[d] = pc[d] /\ UNCHANGED entries
               /\ mr'[d].intent = mr[d].intent
               /\ mr'[d].phase = "live" => mr[d].phase = "live"
               /\ pc[d] # "idle" =>
                    att'[d].intent = att[d].intent /\ att'[d].deleting = att[d].deleting
        PROVE  RetryOK(d)'
    <2>1. /\ Standing(d)' = Standing(d) /\ Held(d)' = Held(d)
          /\ TargetFingerprint(d)' = TargetFingerprint(d)
      BY <1>3 DEF Standing, Held, Identity, TargetFingerprint
    <2>2. LiveRun(d)' => LiveRun(d)
      BY <1>3 DEF LiveRun
    <2>3. SameAgain(d)' => SameAgain(d)
      BY <1>3, <2>1, <2>2 DEF SameAgain
    <2> QED BY <1>3, <2>1, <2>3 DEF RetryOK
  <1>4. ASSUME NEW c \in Clusters, EditSpec(c)
        PROVE  RetryOK(d)'
    <2>1. CASE d = c
      BY <1>1, <1>2, <1>4, <2>1 DEF EditSpec
    <2>2. CASE d # c
      BY <1>1, <1>3, <1>4, <2>2 DEF EditSpec, Stale, world
    <2> QED BY <2>1, <2>2
  <1>5. ASSUME NEW c \in Clusters, RotateSecret(c)
        PROVE  RetryOK(d)'
    <2>1. CASE d = c
      BY <1>1, <1>2, <1>5, <2>1 DEF RotateSecret
    <2>2. CASE d # c
      BY <1>1, <1>3, <1>5, <2>2 DEF RotateSecret
    <2> QED BY <2>1, <2>2
  <1>6. ASSUME NEW c \in Clusters, RequestDelete(c)
        PROVE  RetryOK(d)'
    <2>1. /\ mr'[d].intent = mr[d].intent
          /\ mr'[d].phase = "live" => mr[d].phase = "live"
      BY <1>1, <1>6 DEF RequestDelete, MRs
    <2>2. pc[d] # "idle" =>
            att'[d].intent = att[d].intent /\ att'[d].deleting = att[d].deleting
      BY <1>1, <1>6 DEF RequestDelete, Stale, Attempts
    <2> QED BY <1>3, <1>6, <2>1, <2>2 DEF RequestDelete, world, history
  <1>7. ASSUME NEW c \in Clusters, OperatorResumes(c)
        PROVE  RetryOK(d)'
    BY <1>1, <1>3, <1>7 DEF OperatorResumes, world, history, MRs
  <1>8. ASSUME NEW n \in Names, RowDropped(n)
        PROVE  RetryOK(d)'
    BY <1>3, <1>8 DEF RowDropped, history
  <1>9. CASE Crash
    BY <1>2, <1>9 DEF Crash
  <1> QED BY <1>4, <1>5, <1>6, <1>7, <1>8, <1>9 DEF Environment

LEMMA AlwaysRetryOK == Spec => [](PinsDefaults => \A c \in Clusters : RetryOK(c))
<1> DEFINE Inv == PinsDefaults => \A c \in Clusters : RetryOK(c)
<1>1. Init => Inv
  BY DEF Init, RetryOK, Standing
<1>2. TypeOK /\ PathOK /\ Inv /\ [Next]_vars => Inv'
  <2> SUFFICES ASSUME TypeOK, PathOK, PinsDefaults, \A c \in Clusters : RetryOK(c),
                      [Next]_vars, NEW d \in Clusters
               PROVE  RetryOK(d)'
    OBVIOUS
  <2>1. CASE \E c \in Clusters : Step(c)
    BY <2>1, StepRetry, RetryFrame
  <2>2. CASE Environment
    BY <2>2, EnvironmentRetry
  <2>3. CASE UNCHANGED vars
    BY <2>3 DEF vars, RetryOK, Standing, SameAgain, LiveRun, Held, TargetFingerprint,
                Identity
  <2> QED BY <2>1, <2>2, <2>3 DEF Next
<1> QED BY <1>1, <1>2, ClusterTypeCorrect, AlwaysOnPath, PTL DEF Spec

\* A write that failed for good is not sent again as long as spec and Secret stay as
\* they are and the provider runs (terminal_write_guard.go:151-155), whatever the
\* other MRs do.  It takes a spec that pins what lateInitializeCluster would fill in:
\* otherwise the key that is asked for is not the one that was recorded.
THEOREM RefusedIsNotRetried == Spec => [](PinsDefaults => NoIdenticalRetry)
<1> DEFINE Inv == PinsDefaults => \A c \in Clusters : RetryOK(c)
<1>1. TypeOK /\ PathOK /\ Inv => (PinsDefaults => NoIdenticalRetry)
  <2> SUFFICES ASSUME TypeOK, PathOK, \A c \in Clusters : RetryOK(c),
                      NEW c \in Clusters, Repeats(c), att[c].intent \notin Unbuildable
               PROVE  FALSE
    BY DEF NoIdenticalRetry
  <2>1. Standing(c) /\ pc[c] \in {"create", "update"}
    BY DEF Repeats, Standing
  <2>2. att[c].intent = mr[c].intent
    BY <2>1 DEF RetryOK
  <2>3. LiveRun(c)
    BY <2>1 DEF PathOK, LiveRun
  <2> QED BY <2>1, <2>2, <2>3 DEF RetryOK, SameAgain, Repeats
<1> QED BY <1>1, ClusterTypeCorrect, AlwaysOnPath, AlwaysRetryOK, PTL

-------------------------------------------------------------------------------
(* A failure that stands stays visible *)

VisibleOK(c) == FailureStands(c) => outcome[c] \notin InOrder

\* Past the guard of a deletion no outcome reports the MR to be in order.
LEMMA DeletingOutcome ==
  ASSUME TypeOK, PathOK, NEW c \in Clusters, Step(c), pc[c] \notin {"idle", "guard"},
         att[c].deleting
  PROVE  outcome'[c] = outcome[c] \/ outcome'[c] \notin InOrder
  <1>1. pc[c] \in {"get", "delete", "dstrip", "drow"} /\ outcome \in [Clusters -> Outcomes]
    BY DEF PathOK, TypeOK, ControlOK, Steps, Outcomes
  <1> USE DEF Finish, Goto, InOrder
  <1>2. CASE Observe(c)
    BY <1>1, <1>2
    DEF Observe, ObserveGuard, ObserveAbsent, ObserveFails, ObserveUpToDate, ObserveDrift,
        Absent, Waiting
  <1>3. CASE Delete(c)
    BY <1>1, <1>3 DEF Delete, DeleteBegins, DeleteStrip, DeleteRow
  <1> QED BY <1>1, <1>2, <1>3
      DEF Step, Reconcile, Write, ApplyInstance, ApplyRejected, ApplyFails, SyncMode,
          SyncModeFails, InstallAgent, GetManifests, GetManifestsFails, Install,
          InstallFails, RollbackStrip, RollbackDelete

LEMMA StepVisible ==
  ASSUME TypeOK, PathOK, NEW c \in Clusters, RetryOK(c), VisibleOK(c), Step(c)
  PROVE  VisibleOK(c)'
  <1>1. UNCHANGED target /\ outcome \in [Clusters -> Outcomes] /\ mr \in [Clusters -> MRs]
    BY SecretFrame DEF TypeOK, ControlOK, Outcomes
  <1>2. ASSUME UNCHANGED failed, mr'[c].intent = mr[c].intent,
               outcome'[c] = outcome[c] \/ outcome'[c] \notin InOrder
        PROVE  VisibleOK(c)'
    BY <1>1, <1>2 DEF VisibleOK, FailureStands, TargetFingerprint, InOrder
  <1>3. CASE Reconcile(c) \/ ObserveGuard(c)
    BY <1>1, <1>2, <1>3 DEF Reconcile, ObserveGuard, Finish, Goto, history, InOrder
  <1>4. ASSUME NEW fingerprint, NEW err, GiveUp(c, fingerprint, err)
        PROVE  VisibleOK(c)'
    BY <1>1, <1>4 DEF GiveUp, Finish, VisibleOK, InOrder
  <1>5. CASE pc[c] \notin {"idle", "guard"}
    <2>1. CASE \E fingerprint \in Fingerprints, err \in Error : GiveUp(c, fingerprint, err)
      BY <1>4, <2>1
    <2>2. CASE UNCHANGED failed /\ mr'[c].intent = mr[c].intent
      <3>1. CASE att[c].deleting
        BY <1>2, <1>5, <2>2, <3>1, DeletingOutcome
      <3>2. CASE ~att[c].deleting
        <4>1. ~(Standing(c) /\ mr[c].intent = failed[c].intent
                /\ TargetFingerprint(c) = failed[c].target)
          BY <1>5, <3>2 DEF RetryOK, SameAgain, LiveRun
        <4>2. ~FailureStands(c)'
          BY <1>1, <2>2, <4>1 DEF FailureStands, Standing, TargetFingerprint
        <4> QED BY <4>2 DEF VisibleOK
      <3> QED BY <3>1, <3>2
    <2> QED BY <1>5, <2>1, <2>2, BusyStep
  <1> QED BY <1>3, <1>5
      DEF Step, Observe, ObserveAbsent, ObserveFails, ObserveUpToDate, ObserveDrift, Write,
          ApplyInstance, ApplyRejected, ApplyFails, SyncMode, SyncModeFails, InstallAgent,
          GetManifests, GetManifestsFails, Install, InstallFails, RollbackStrip,
          RollbackDelete, Delete, DeleteBegins, DeleteStrip, DeleteRow

\* The environment reports nothing; what it changes of c outdates the failure.
LEMMA EnvironmentVisible ==
  ASSUME TypeOK, NEW d \in Clusters, VisibleOK(d), Environment
  PROVE  VisibleOK(d)'
  <1>1. /\ mr \in [Clusters -> MRs] /\ failed \in [Clusters -> Failures \cup {NoFailure}]
        /\ target \in [Clusters -> Targets]
    BY DEF TypeOK, WorldOK, HistoryOK
  <1>2. ASSUME failed'[d] = Outdated(failed[d])
        PROVE  VisibleOK(d)'
    BY <1>1, <1>2 DEF VisibleOK, FailureStands, Outdated, Failures
  <1>3. ASSUME failed'[d] = failed[d], target'[d] = target[d], UNCHANGED outcome,
               mr'[d].intent = mr[d].intent
        PROVE  VisibleOK(d)'
    BY <1>3 DEF VisibleOK, FailureStands, TargetFingerprint
  <1>4. ASSUME NEW c \in Clusters, EditSpec(c) \/ RotateSecret(c)
        PROVE  VisibleOK(d)'
    <2>1. CASE d = c
      BY <1>1, <1>2, <1>4, <2>1 DEF EditSpec, RotateSecret
    <2>2. CASE d # c
      BY <1>1, <1>3, <1>4, <2>2 DEF EditSpec, RotateSecret, world
    <2> QED BY <2>1, <2>2
  <1>5. ASSUME NEW c \in Clusters, RequestDelete(c) \/ OperatorResumes(c)
        PROVE  VisibleOK(d)'
    BY <1>1, <1>3, <1>5 DEF RequestDelete, OperatorResumes, world, history, MRs
  <1>6. ASSUME NEW n \in Names, RowDropped(n)
        PROVE  VisibleOK(d)'
    BY <1>3, <1>6 DEF RowDropped, history
  <1>7. CASE Crash
    BY <1>2, <1>7 DEF Crash
  <1> QED BY <1>4, <1>5, <1>6, <1>7 DEF Environment

\* As long as a terminal failure stands no reconcile reports that the MR is in order
\* (cluster.go:301-302, terminal_write_guard.go:151-155), also when the rollback failed
\* and the row it left behind is just what the spec asks for, under the same hypothesis.
THEOREM StandingFailureIsVisible == Spec => [](PinsDefaults => FailureStaysVisible)
<1> DEFINE Retry == PinsDefaults => \A c \in Clusters : RetryOK(c)
           Inv   == PinsDefaults => \A c \in Clusters : VisibleOK(c)
<1>1. Init => Inv
  BY DEF Init, VisibleOK, FailureStands
<1>2. TypeOK /\ PathOK /\ Retry /\ Inv /\ [Next]_vars => Inv'
  <2> SUFFICES ASSUME TypeOK, PathOK, \A c \in Clusters : RetryOK(c),
                      \A c \in Clusters : VisibleOK(c), [Next]_vars, NEW d \in Clusters
               PROVE  VisibleOK(d)'
    OBVIOUS
  <2>1. ASSUME NEW c \in Clusters, Step(c)
        PROVE  VisibleOK(d)'
    <3>1. CASE d = c
      BY <2>1, <3>1, StepVisible
    <3>2. CASE d # c
      BY <2>1, <3>2, Frame, SecretFrame DEF VisibleOK, FailureStands, TargetFingerprint
    <3> QED BY <3>1, <3>2
  <2>2. CASE Environment
    BY <2>2, EnvironmentVisible
  <2>3. CASE UNCHANGED vars
    BY <2>3 DEF vars, VisibleOK, FailureStands, TargetFingerprint
  <2> QED BY <2>1, <2>2, <2>3 DEF Next
<1>3. Inv => (PinsDefaults => FailureStaysVisible)
  BY DEF VisibleOK, FailureStaysVisible
<1> QED BY <1>1, <1>2, <1>3, ClusterTypeCorrect, AlwaysOnPath, AlwaysRetryOK, PTL DEF Spec

-------------------------------------------------------------------------------
(* Rows and names *)

\* No MR names or can claim the row of another.
OwnRows == \A c, d \in Clusters : c # d => RowName[d] \notin {RowName[c], MetaName[c]}

\* Every row was written for an MR, and an MR looks for its row under the name it
\* got or the one its spec says.
NamesOK ==
  /\ \A n \in Names : row[n] # NoRow => \E c \in Clusters : n = RowName[c]
  /\ \A c \in Clusters :
       /\ mr[c].ext \in {MetaName[c], RowName[c]}
       /\ pc[c] # "idle" => att[c].ext \in {MetaName[c], RowName[c]}

LEMMA PartsOfState ==
  ASSUME TypeOK
  PROVE  /\ mr \in [Clusters -> MRs] /\ pc \in [Clusters -> Steps]
         /\ outcome \in [Clusters -> Outcomes]
         /\ att \in [Clusters -> Attempts \cup {NoAttempt}]
         /\ \A c \in Clusters : pc[c] # "idle" => att[c] \in Attempts
         /\ row \in [Names -> Rows \cup {NoRow}] /\ NoRow \notin Rows
         /\ agent \in [Clusters -> {"none", "partial", "full"}]
         /\ torn \in [Clusters -> BOOLEAN]
         /\ \A c \in Clusters : RowName[c] \in Names /\ MetaName[c] \in Names
  BY NamesOfClusters, Sentinels
  DEF TypeOK, ControlOK, AttemptsOK, WorldOK, HistoryOK, Outcomes, Rows

LEMMA GiveUpEffect ==
  ASSUME TypeOK, NEW c \in Clusters, NEW fingerprint, NEW err, GiveUp(c, fingerprint, err)
  PROVE  /\ pc'[c] = "idle" /\ outcome'[c] = "failed"
         /\ mr'[c].phase = mr[c].phase /\ mr'[c].ext = mr[c].ext
         /\ mr'[c].seen = mr[c].seen
  BY PartsOfState DEF GiveUp, Finish, MRs

LEMMA CreatedEffect ==
  ASSUME TypeOK, NEW c \in Clusters, Created(c)
  PROVE  /\ pc'[c] = "idle" /\ outcome'[c] = "created" /\ torn'[c] = FALSE
         /\ mr'[c].phase = mr[c].phase /\ mr'[c].ext = RowName[c]
         /\ mr'[c].seen = mr[c].seen
  <1>1. /\ mr \in [Clusters -> MRs]
        /\ mr' = [mr EXCEPT ![c] = [[@ EXCEPT !.ext = RowName[c]] EXCEPT !.pending = FALSE]]
    BY PartsOfState DEF Created
  <1>2. mr'[c] = [[mr[c] EXCEPT !.ext = RowName[c]] EXCEPT !.pending = FALSE]
    BY <1>1
  <1>3. /\ mr'[c].phase = mr[c].phase /\ mr'[c].ext = RowName[c]
        /\ mr'[c].seen = mr[c].seen
    BY <1>1, <1>2 DEF MRs
  <1> QED BY <1>3, PartsOfState DEF Created, Finish

LEMMA AppliedEffect ==
  ASSUME TypeOK, NEW c \in Clusters, pc[c] # "idle", row' = Applied(c)
  PROVE  /\ row'[RowName[c]] # NoRow
         /\ \A n \in Names \ {RowName[c]} : row'[n] = row[n]
  <1> DEFINE r == [intent |-> att[c].intent,
                   mode |-> IF row[RowName[c]] = NoRow THEN DefaultMode
                            ELSE row[RowName[c]].mode]
  <1>1. row'[RowName[c]] = r /\ \A n \in Names \ {RowName[c]} : row'[n] = row[n]
    BY PartsOfState DEF Applied
  <1>2. att[c].intent \in Intents
    BY PartsOfState DEF Attempts
  <1>3. row[RowName[c]] # NoRow => row[RowName[c]].mode \in Modes
    BY PartsOfState DEF Rows
  <1>4. r \in Rows
    BY <1>2, <1>3, SpecValues DEF Rows
  <1> QED BY <1>1, <1>4, PartsOfState

\* A step of c fills no row but its own, and removes only that or the one it deletes.
LEMMA RowStep ==
  ASSUME TypeOK, NEW c \in Clusters, Step(c), NEW n \in Names, n # RowName[c]
  PROVE  row'[n] = row[n] \/ (row'[n] = NoRow /\ pc[c] # "idle" /\ n = att[c].ext)
  <1>1. UNCHANGED row \/ pc[c] # "idle"
    BY DEF Step, Reconcile, Observe, ObserveGuard, ObserveAbsent, ObserveFails,
           ObserveUpToDate, ObserveDrift, Write, ApplyInstance, ApplyRejected, ApplyFails,
           SyncMode, SyncModeFails, InstallAgent, GetManifests, GetManifestsFails, Install,
           InstallFails, RollbackStrip, RollbackDelete, Delete, DeleteBegins, DeleteStrip,
           DeleteRow, world
  <1>2. \/ UNCHANGED row
        \/ row' = Applied(c)
        \/ row' = [row EXCEPT ![RowName[c]].mode = att[c].mode]
        \/ row' = [row EXCEPT ![RowName[c]] = NoRow]
        \/ row' = [row EXCEPT ![att[c].ext] = NoRow]
    BY DEF Step, Reconcile, Observe, ObserveGuard, ObserveAbsent, ObserveFails,
           ObserveUpToDate, ObserveDrift, Write, ApplyInstance, ApplyRejected, ApplyFails,
           SyncMode, SyncModeFails, InstallAgent, GetManifests, GetManifestsFails, Install,
           InstallFails, RollbackStrip, RollbackDelete, Delete, DeleteBegins, DeleteStrip,
           DeleteRow, world
  <1> QED BY <1>1, <1>2, AppliedEffect, PartsOfState

LEMMA StepNames ==
  ASSUME TypeOK, NamesOK, NEW c \in Clusters, Step(c)
  PROVE  NamesOK'
  <1>1. \A n \in Names : row'[n] # NoRow => \E d \in Clusters : n = RowName[d]
    BY RowStep DEF NamesOK
  <1>2. /\ mr'[c].ext \in {MetaName[c], RowName[c]}
        /\ pc'[c] # "idle" => att'[c].ext \in {MetaName[c], RowName[c]}
    <2>1. /\ mr[c].ext \in {MetaName[c], RowName[c]}
          /\ pc[c] # "idle" => att[c].ext \in {MetaName[c], RowName[c]}
      BY DEF NamesOK
    <2> USE PartsOfState DEF Finish, Goto
    <2>2. CASE Reconcile(c)
      BY <2>1, <2>2 DEF Reconcile
    <2>3. CASE ObserveGuard(c) \/ ObserveAbsent(c) \/ ObserveFails(c)
      BY <2>1, <2>3 DEF ObserveGuard, ObserveAbsent, ObserveFails, Absent, Waiting, MRs
    <2>4. CASE ObserveUpToDate(c) \/ ObserveDrift(c)
      <3>1. mr'[c].ext = mr[c].ext /\ pc[c] = "get"
        BY <2>4, SettleEffect DEF ObserveUpToDate, ObserveDrift
      <3>2. att' = Observed(c) => att'[c].ext = att[c].ext
        BY <3>1, ObservedKeeps
      <3>3. att' = Observed(c) \/ pc'[c] = "idle"
        BY <2>4 DEF ObserveUpToDate, ObserveDrift
      <3> QED BY <2>1, <3>1, <3>2, <3>3
    <2>5. CASE ApplyInstance(c)
      BY <2>1, <2>5 DEF ApplyInstance, Attempts
    <2>6. CASE \E fingerprint, err : GiveUp(c, fingerprint, err)
      BY <2>1, <2>6, GiveUpEffect
    <2>7. CASE Created(c)
      BY <2>1, <2>7, CreatedEffect
    <2>8. ASSUME NEW err, Rollback(c, err), UNCHANGED mr, pc[c] # "idle"
          PROVE  /\ mr'[c].ext \in {MetaName[c], RowName[c]}
                 /\ pc'[c] # "idle" => att'[c].ext \in {MetaName[c], RowName[c]}
      BY <2>1, <2>8, RollbackEffect
    <2>9. CASE ApplyRejected(c) \/ ApplyFails(c) \/ RollbackDelete(c)
      BY <2>6, <2>9 DEF ApplyRejected, ApplyFails, RollbackDelete
    <2>10. CASE SyncMode(c)
      BY <2>1, <2>7, <2>10 DEF SyncMode
    <2>11. CASE SyncModeFails(c)
      BY <2>6, <2>8, <2>11 DEF SyncModeFails, ModeFailed
    <2>12. CASE GetManifests(c) \/ GetManifestsFails(c)
      BY <2>1, <2>8, <2>12 DEF GetManifests, GetManifestsFails
    <2>13. CASE Install(c) \/ InstallFails(c)
      BY <2>7, <2>8, <2>13 DEF Install, InstallFails
    <2>14. CASE RollbackStrip(c)
      BY <2>1, <2>14 DEF RollbackStrip
    <2>15. CASE Delete(c)
      BY <2>1, <2>15 DEF Delete, DeleteBegins, DeleteStrip, DeleteRow
    <2> QED BY <2>2, <2>3, <2>4, <2>5, <2>9, <2>10, <2>11, <2>12, <2>13, <2>14, <2>15
        DEF Step, Observe, Write, InstallAgent
  <1> QED BY <1>1, <1>2, Frame DEF NamesOK

LEMMA EnvironmentNames ==
  ASSUME TypeOK, NamesOK, Environment
  PROVE  NamesOK'
  <1>1. \A n \in Names : row'[n] = row[n] \/ row'[n] = NoRow
    BY PartsOfState
    DEF Environment, EditSpec, RotateSecret, RequestDelete, OperatorResumes, RowDropped,
        Crash, world
  <1>2. ASSUME NEW d \in Clusters
        PROVE  /\ mr'[d].ext = mr[d].ext
               /\ pc'[d] # "idle" => pc[d] # "idle" /\ att'[d].ext = att[d].ext
    <2>1. CASE \E c \in Clusters : EditSpec(c)
      BY <2>1, PartsOfState DEF EditSpec, Stale, MRs, Attempts
    <2>2. CASE \E c \in Clusters : RequestDelete(c)
      BY <2>2, PartsOfState DEF RequestDelete, Stale, MRs, Attempts
    <2>3. CASE \E c \in Clusters : OperatorResumes(c)
      BY <2>3, PartsOfState DEF OperatorResumes, MRs
    <2> QED BY <2>1, <2>2, <2>3 DEF Environment, RotateSecret, RowDropped, Crash
  <1> QED BY <1>1, <1>2 DEF NamesOK

LEMMA AlwaysNamed == Spec => []NamesOK
<1>1. Init => NamesOK
  BY NamesOfClusters DEF Init, NamesOK
<1>2. TypeOK /\ NamesOK /\ [Next]_vars => NamesOK'
  <2>1. CASE UNCHANGED vars
    BY <2>1 DEF vars, NamesOK
  <2> QED BY <2>1, StepNames, EnvironmentNames DEF Next
<1> QED BY <1>1, <1>2, ClusterTypeCorrect, PTL DEF Spec

\* Where rows are not shared, an MR finds no row but its own, and no other MR's
\* step touches that.
LEMMA OwnRow ==
  ASSUME TypeOK, NamesOK, OwnRows, NEW c \in Clusters
  PROVE  /\ pc[c] # "idle" /\ row[att[c].ext] # NoRow => att[c].ext = RowName[c]
         /\ \A d \in Clusters \ {c} : Step(d) => row'[RowName[c]] = row[RowName[c]]
  <1>1. /\ pc[c] # "idle" => att[c].ext \in {MetaName[c], RowName[c]}
        /\ \A d \in Clusters : pc[d] # "idle" => att[d].ext \in {MetaName[d], RowName[d]}
        /\ row[MetaName[c]] # NoRow => \E d \in Clusters : MetaName[c] = RowName[d]
    BY PartsOfState DEF NamesOK
  <1>2. ASSUME NEW d \in Clusters \ {c}, Step(d)
        PROVE  row'[RowName[c]] = row[RowName[c]]
    <2>1. RowName[c] \notin {RowName[d], MetaName[d]} /\ RowName[c] \in Names
      BY PartsOfState DEF OwnRows
    <2>2. pc[d] # "idle" => att[d].ext # RowName[c]
      BY <1>1, <2>1
    <2> QED BY <1>2, <2>1, <2>2, RowStep
  <1>3. row[MetaName[c]] # NoRow => MetaName[c] = RowName[c]
    BY <1>1 DEF OwnRows
  <1> QED BY <1>1, <1>2, <1>3

-------------------------------------------------------------------------------
(* A row means an agent *)

\* Create has stamped the row and is not done with it.
Creating == {"cmode", "manifests", "install", "rbStrip", "rbDelete"}

\* Unless a Create was torn, the row of a live MR has its agent as soon as the
\* Create that stamped it is over.
InstalledOK(c) ==
  ~torn[c] =>
    /\ LiveRun(c) /\ pc[c] \notin Creating /\ row[RowName[c]] # NoRow => agent[c] = "full"
    /\ pc[c] \in {"update", "umode"} => agent[c] = "full"
    /\ outcome[c] = "synced" => agent[c] = "full"

LEMMA StepInstalled ==
  ASSUME TypeOK, PathOK, NamesOK, OwnRows, HasKubeConfig, NEW c \in Clusters,
         InstalledOK(c), Step(c)
  PROVE  InstalledOK(c)'
  <1> DEFINE live == IF pc[c] = "idle" THEN mr[c].phase = "live" ELSE ~att[c].deleting
  <1>1. /\ mr \in [Clusters -> MRs] /\ pc \in [Clusters -> Steps]
        /\ outcome \in [Clusters -> Outcomes]
        /\ att \in [Clusters -> Attempts \cup {NoAttempt}]
        /\ pc[c] # "idle" => att[c] \in Attempts
        /\ agent \in [Clusters -> {"none", "partial", "full"}]
        /\ torn \in [Clusters -> BOOLEAN]
        /\ row \in [Names -> Rows \cup {NoRow}] /\ RowName[c] \in Names
    BY PartsOfState
  <1>2. /\ pc[c] # "idle" =>
             /\ att[c].deleting => mr[c].phase = "deleting"
             /\ IF pc[c] \in {"delete", "dstrip", "drow"} THEN att[c].deleting
                ELSE pc[c] \notin {"guard", "get"} => ~att[c].deleting
        /\ outcome[c] = "synced" => pc[c] = "idle"
    BY DEF PathOK
  <1>3. ~torn[c] =>
          /\ live /\ pc[c] \notin Creating /\ row[RowName[c]] # NoRow => agent[c] = "full"
          /\ pc[c] \in {"update", "umode"} => agent[c] = "full"
          /\ outcome[c] = "synced" => agent[c] = "full"
    BY DEF InstalledOK, LiveRun
  <1>4. pc[c] # "idle" /\ row[att[c].ext] # NoRow => att[c].ext = RowName[c]
    BY OwnRow
  \* Nothing that counts has changed.
  <1>5. ASSUME UNCHANGED <<row, agent>>, torn'[c] = torn[c], outcome'[c] # "synced",
               pc'[c] \notin {"update", "umode"}, LiveRun(c)' => live,
               pc[c] \notin Creating \/ pc'[c] \in Creating
        PROVE  InstalledOK(c)'
    BY <1>3, <1>5 DEF InstalledOK
  <1>6. ASSUME pc'[c] = "idle", mr'[c].phase = mr[c].phase, pc[c] # "idle"
        PROVE  LiveRun(c)' => live
    BY <1>2, <1>6 DEF LiveRun
  <1>7. ASSUME pc'[c] \in Creating, outcome'[c] = outcome[c], pc[c] # "idle"
        PROVE  InstalledOK(c)'
    BY <1>2, <1>7 DEF InstalledOK, Creating
  <1> USE DEF Finish, Goto
  <1>8. CASE Reconcile(c)
    BY <1>1, <1>2, <1>5, <1>8 DEF Reconcile, world, history, MRs, LiveRun, Creating
  <1>9. CASE ObserveGuard(c) \/ ObserveAbsent(c) \/ ObserveFails(c)
    <2>1. /\ UNCHANGED <<row, agent, torn>> /\ pc[c] \in {"guard", "get"}
          /\ pc'[c] \in {"idle", "get", "create", "delete"} /\ outcome'[c] # "synced"
      BY <1>1, <1>2, <1>9
      DEF ObserveGuard, ObserveAbsent, ObserveFails, Absent, Waiting, world, history
    <2>2. LiveRun(c)' => live
      BY <1>1, <1>2, <1>9
      DEF ObserveGuard, ObserveAbsent, ObserveFails, Absent, Waiting, LiveRun, MRs
    <2> QED BY <1>5, <2>1, <2>2 DEF Creating
  <1>10. CASE ObserveUpToDate(c) \/ ObserveDrift(c)
    <2>1. /\ pc[c] = "get" /\ row[RowName[c]] # NoRow /\ UNCHANGED <<row, agent, torn>>
          /\ mr'[c].phase = mr[c].phase
      BY <1>4, <1>10, SettleEffect DEF ObserveUpToDate, ObserveDrift, world, history
    <2>2. att' = Observed(c) => att'[c].deleting = att[c].deleting
      BY <2>1, ObservedKeeps
    <2>3. ~att[c].deleting => InstalledOK(c)'
      BY <1>3, <2>1 DEF InstalledOK, Creating
    <2>4. CASE att[c].deleting
      <3>1. /\ pc'[c] = "delete" /\ att' = Observed(c) /\ outcome' = outcome
        BY <1>1, <1>10, <2>1, <2>4 DEF ObserveUpToDate, ObserveDrift, Suppresses
      <3> QED BY <1>2, <1>5, <2>1, <2>2, <2>4, <3>1 DEF LiveRun, Creating
    <2> QED BY <2>3, <2>4
  <1>11. CASE ApplyInstance(c)
    <2>1. CASE pc[c] = "create"
      BY <1>1, <1>7, <1>11, <2>1 DEF ApplyInstance, Creating
    <2>2. CASE pc[c] = "update"
      BY <1>3, <1>11, <2>2 DEF ApplyInstance, InstalledOK, history
    <2> QED BY <1>11, <2>1, <2>2 DEF ApplyInstance
  <1>12. CASE ApplyRejected(c) \/ ApplyFails(c)
    <2>1. /\ pc'[c] = "idle" /\ outcome'[c] = "failed" /\ mr'[c].phase = mr[c].phase
          /\ pc[c] \in {"create", "update"} /\ UNCHANGED agent
      BY <1>12, GiveUpEffect DEF ApplyRejected, ApplyFails, world
    <2>2. \/ UNCHANGED <<row, torn>>
          \/ torn' = [torn EXCEPT ![c] = @ \/ pc[c] = "create"]
      BY <1>12 DEF ApplyRejected, ApplyFails, world
    <2>3. CASE UNCHANGED <<row, torn>>
      BY <1>5, <1>6, <2>1, <2>3 DEF Creating
    <2>4. CASE torn' = [torn EXCEPT ![c] = @ \/ pc[c] = "create"]
      BY <1>1, <1>3, <2>1, <2>4 DEF InstalledOK
    <2> QED BY <2>2, <2>3, <2>4
  <1>13. CASE SyncMode(c)
    <2>1. CASE pc[c] = "umode"
      BY <1>3, <1>13, <2>1 DEF SyncMode, InstalledOK
    <2>2. CASE pc[c] = "cmode"
      BY <1>1, <1>7, <1>13, <2>2 DEF SyncMode, Creating
    <2> QED BY <1>13, <2>1, <2>2 DEF SyncMode
  <1>14. ASSUME NEW err, Rollback(c, err), pc[c] # "idle"
         PROVE  InstalledOK(c)'
    BY <1>7, <1>14, RollbackEffect DEF Creating
  <1>15. CASE SyncModeFails(c)
    <2>1. pc[c] \in {"cmode", "umode"} /\ UNCHANGED <<row, agent, torn>>
      BY <1>15 DEF SyncModeFails, world
    <2>2. \/ pc[c] = "umode" /\ \E err : GiveUp(c, att[c].target, err)
          \/ \E err : Rollback(c, err)
      BY <1>15 DEF SyncModeFails, ModeFailed
    <2>3. CASE pc[c] = "umode"
      BY <1>3, <2>1, <2>3 DEF InstalledOK
    <2> QED BY <1>14, <2>1, <2>2, <2>3
  <1>16. CASE GetManifests(c) \/ GetManifestsFails(c) \/ InstallFails(c)
    BY <1>1, <1>7, <1>14, <1>16 DEF GetManifests, GetManifestsFails, InstallFails, Creating
  <1>17. CASE Install(c)
    BY <1>1, <1>17 DEF Install, InstalledOK
  <1>18. CASE RollbackStrip(c)
    BY <1>1, <1>7, <1>18 DEF RollbackStrip, Creating
  <1>19. CASE RollbackDelete(c)
    <2>1. pc'[c] = "idle" /\ outcome'[c] = "failed"
      BY <1>19, GiveUpEffect DEF RollbackDelete
    <2>2. torn'[c] \/ row'[RowName[c]] = NoRow
      BY <1>1, <1>19 DEF RollbackDelete
    <2> QED BY <2>1, <2>2 DEF InstalledOK
  <1>20. CASE Delete(c)
    <2>1. /\ att[c].deleting /\ mr[c].phase = "deleting" /\ outcome'[c] # "synced"
          /\ pc'[c] \in {"idle", "dstrip", "drow"} /\ UNCHANGED mr
          /\ pc'[c] # "idle" => UNCHANGED att
      BY <1>1, <1>2, <1>20 DEF Delete, DeleteBegins, DeleteStrip, DeleteRow
    <2> QED BY <2>1 DEF InstalledOK, LiveRun
  <1> QED BY <1>8, <1>9, <1>10, <1>11, <1>12, <1>13, <1>15, <1>16, <1>17, <1>18, <1>19,
             <1>20 DEF Step, Observe, Write, InstallAgent

LEMMA EnvironmentInstalled ==
  ASSUME TypeOK, PathOK, NEW d \in Clusters, InstalledOK(d), Environment
  PROVE  InstalledOK(d)'
  <1>1. /\ mr \in [Clusters -> MRs] /\ row \in [Names -> Rows \cup {NoRow}]
        /\ RowName[d] \in Names /\ pc[d] # "idle" => att[d] \in Attempts
        /\ att \in [Clusters -> Attempts \cup {NoAttempt}]
    BY PartsOfState
  <1>2. ASSUME pc'[d] = pc[d], outcome'[d] = outcome[d], UNCHANGED <<agent, torn>>,
               mr'[d].phase = "live" => mr[d].phase = "live",
               pc[d] # "idle" => att'[d].deleting = att[d].deleting,
               row'[RowName[d]] = row[RowName[d]] \/ row'[RowName[d]] = NoRow
        PROVE  InstalledOK(d)'
    BY <1>2 DEF InstalledOK, LiveRun
  <1>3. ASSUME NEW c \in Clusters, EditSpec(c) \/ RequestDelete(c)
        PROVE  InstalledOK(d)'
    <2>1. pc[d] # "idle" => att'[d].deleting = att[d].deleting
      <3>1. att' \in {att, [att EXCEPT ![c].fresh = FALSE]}
        BY <1>3 DEF EditSpec, RequestDelete, Stale
      <3>2. att' = [att EXCEPT ![c].fresh = FALSE] =>
              att'[d] = IF d = c THEN [att[d] EXCEPT !.fresh = FALSE] ELSE att[d]
        BY <1>1
      <3>3. pc[d] # "idle" => [att[d] EXCEPT !.fresh = FALSE].deleting = att[d].deleting
        BY <1>1 DEF Attempts
      <3> QED BY <3>1, <3>2, <3>3
    <2>2. mr'[d].phase = "live" => mr[d].phase = "live"
      BY <1>1, <1>3 DEF EditSpec, RequestDelete, MRs
    <2> QED BY <1>2, <1>3, <2>1, <2>2 DEF EditSpec, RequestDelete, world, history
  <1>4. ASSUME NEW c \in Clusters, RotateSecret(c) \/ OperatorResumes(c)
        PROVE  InstalledOK(d)'
    BY <1>1, <1>2, <1>4 DEF RotateSecret, OperatorResumes, world, history, MRs
  <1>5. ASSUME NEW n \in Names, RowDropped(n)
        PROVE  InstalledOK(d)'
    BY <1>1, <1>2, <1>5 DEF RowDropped, history
  <1>6. CASE Crash
    BY <1>6 DEF Crash, InstalledOK, LiveRun, PathOK, Creating, world
  <1> QED BY <1>3, <1>4, <1>5, <1>6 DEF Environment

\* Create alone installs the agent (cluster.go:265-268), so a row that Observe calls
\* up to date has its agent, unless a Create was torn: no other MR may use the row.
THEOREM SyncedIsInstalled == Spec => [](OwnRows => RowMeansInstalled)
<1> DEFINE Inv == OwnRows /\ HasKubeConfig => \A c \in Clusters : InstalledOK(c)
<1>1. Init => Inv
  BY NamesOfClusters DEF Init, InstalledOK
<1>2. TypeOK /\ PathOK /\ NamesOK /\ Inv /\ [Next]_vars => Inv'
  <2> SUFFICES ASSUME TypeOK, PathOK, NamesOK, OwnRows, HasKubeConfig,
                      \A c \in Clusters : InstalledOK(c), [Next]_vars, NEW d \in Clusters
               PROVE  InstalledOK(d)'
    BY DEF HasKubeConfig
  <2>1. ASSUME NEW c \in Clusters, Step(c)
        PROVE  InstalledOK(d)'
    <3>1. CASE d = c
      BY <2>1, <3>1, StepInstalled
    <3>2. CASE d # c
      <4>1. row'[RowName[d]] = row[RowName[d]]
        BY <2>1, <3>2, OwnRow
      <4> QED BY <2>1, <3>2, <4>1, Frame DEF InstalledOK, LiveRun
    <3> QED BY <3>1, <3>2
  <2>2. CASE Environment
    BY <2>2, EnvironmentInstalled
  <2>3. CASE UNCHANGED vars
    BY <2>3 DEF vars, world, history, InstalledOK, LiveRun
  <2> QED BY <2>1, <2>2, <2>3 DEF Next
<1>3. Inv => (OwnRows => RowMeansInstalled)
  BY DEF RowMeansInstalled, InstalledOK
<1> QED BY <1>1, <1>2, <1>3, ClusterTypeCorrect, AlwaysOnPath, AlwaysNamed, PTL DEF Spec

-------------------------------------------------------------------------------
(* What is gone leaves nothing *)

\* Every MR goes by one name, and by one of its own.
PlainNames ==
  \A c, d \in Clusters :
    MetaName[c] = RowName[c] /\ (c # d => RowName[d] # RowName[c])

\* No read that fails is taken for a row that is not there.
ReadsTruthful == \A f \in ReadFaults : GetOutcome(ReadError(f)) # "absent"

\* As long as nobody drops rows, a Create has the row it stamped, what has no row
\* has no agent, and atProvider describes the row there is.
UndroppedOK(c) ==
  /\ pc[c] \in Creating => row[RowName[c]] # NoRow /\ mr[c].seen = NoMode
  /\ Strips /\ ~torn[c] /\ (row[RowName[c]] = NoRow \/ pc[c] = "rbDelete") =>
       agent[c] = "none"
  /\ pc[c] \in {"guard", "get", "create"} \cup Creating => att[c].seen = mr[c].seen
  /\ LiveRun(c) /\ mr[c].seen # NoMode => row[RowName[c]] # NoRow
  /\ pc[c] \in {"manifests", "install"} => att[c].mode \in {NoMode, row[RowName[c]].mode}

\* A Create finds no row and stamps its own, and an MR goes when its row has gone.
TidyOK(c) ==
  /\ mr[c].phase = "gone" \/ pc[c] = "create" => row[RowName[c]] = NoRow
  /\ pc[c] \in Creating => ~att[c].adopted
  /\ spent["drops"] = 0 => UndroppedOK(c)

\* A reconcile drops no row by accident.
LEMMA DropsFrame ==
  ASSUME TypeOK, NEW c \in Clusters, Step(c)
  PROVE  spent'["drops"] = spent["drops"]
  <1>1. Spend("faults") => spent'["drops"] = spent["drops"]
    BY DEF Spend, TypeOK
  <1>2. UNCHANGED spent \/ Spend("faults")
    BY DEF Step, Reconcile, Observe, ObserveGuard, ObserveAbsent, ObserveFails,
           ObserveUpToDate, ObserveDrift, Write, ApplyInstance, ApplyRejected, ApplyFails,
           SyncMode, SyncModeFails, InstallAgent, GetManifests, GetManifestsFails, Install,
           InstallFails, RollbackStrip, RollbackDelete, Stripped, StripFails, Delete,
           DeleteBegins, DeleteStrip, DeleteRow, Fault
  <1> QED BY <1>1, <1>2

LEMMA StepTidy ==
  ASSUME TypeOK, PathOK, NamesOK, GuardInv, DeleteStripsFirst, PlainNames, ReadsTruthful,
         NEW c \in Clusters, TidyOK(c), Step(c)
  PROVE  TidyOK(c)'
  <1> DEFINE r == row[RowName[c]]
             live == IF pc[c] = "idle" THEN mr[c].phase = "live" ELSE ~att[c].deleting
  <1>1. /\ mr \in [Clusters -> MRs] /\ pc \in [Clusters -> Steps]
        /\ outcome \in [Clusters -> Outcomes]
        /\ att \in [Clusters -> Attempts \cup {NoAttempt}]
        /\ pc[c] # "idle" => att[c] \in Attempts
        /\ agent \in [Clusters -> {"none", "partial", "full"}]
        /\ torn \in [Clusters -> BOOLEAN]
        /\ row \in [Names -> Rows \cup {NoRow}] /\ RowName[c] \in Names
    BY PartsOfState
  <1>2. pc[c] # "idle" =>
          /\ mr[c].phase # "gone"
          /\ att[c].ext = RowName[c]
          /\ att[c].deleting => mr[c].phase = "deleting"
          /\ IF pc[c] \in {"delete", "dstrip", "drow"} THEN att[c].deleting
             ELSE pc[c] \notin {"guard", "get"} => ~att[c].deleting
    BY DEF PathOK, GuardInv, NamesOK, PlainNames
  <1>3. /\ mr[c].phase = "gone" \/ pc[c] = "create" => r = NoRow
        /\ pc[c] \in Creating => ~att[c].adopted
        /\ spent["drops"] = 0 =>
             /\ pc[c] \in Creating => r # NoRow /\ mr[c].seen = NoMode
             /\ Strips /\ ~torn[c] /\ (r = NoRow \/ pc[c] = "rbDelete") => agent[c] = "none"
             /\ pc[c] \in {"guard", "get", "create"} \cup Creating => att[c].seen = mr[c].seen
             /\ live /\ mr[c].seen # NoMode => r # NoRow
             /\ pc[c] \in {"manifests", "install"} => att[c].mode \in {NoMode, r.mode}
    BY DEF TidyOK, UndroppedOK, LiveRun
  <1>4. spent'["drops"] = spent["drops"]
    BY DropsFrame
  \* The reconcile ends, or turns to a write or a deletion, with the row as it is.
  <1>5. ASSUME pc[c] # "idle",
               pc'[c] \in {"idle", "update", "umode", "delete", "dstrip", "drow"},
               row'[RowName[c]] # NoRow \/ (r = NoRow /\ mr'[c].seen = mr[c].seen),
               UNCHANGED agent, torn[c] => torn'[c],
               mr'[c].phase = mr[c].phase,
               pc'[c] # "idle" => att'[c].deleting = att[c].deleting
        PROVE  TidyOK(c)'
    <2>1. LiveRun(c)' => live
      BY <1>2, <1>5 DEF LiveRun
    <2>2. mr'[c].phase # "gone" /\ pc'[c] \notin {"guard", "get", "create"} \cup Creating
      BY <1>2, <1>5 DEF Creating
    <2> QED BY <1>3, <1>4, <1>5, <2>1, <2>2
        DEF TidyOK, UndroppedOK, Creating, Strips, HasKubeConfig
  <1> USE DEF Finish, Goto
  <1>6. CASE Reconcile(c)
    <2>1. /\ pc[c] = "idle" /\ pc'[c] = "guard" /\ mr[c].phase # "gone"
          /\ att'[c].seen = mr[c].seen /\ att'[c].deleting = (mr[c].phase = "deleting")
          /\ UNCHANGED <<mr, row, agent, torn>>
      BY <1>1, <1>6 DEF Reconcile, world, history
    <2>2. LiveRun(c)' => live
      BY <1>1, <2>1 DEF LiveRun, MRs
    <2> QED BY <1>3, <1>4, <2>1, <2>2 DEF TidyOK, UndroppedOK, Creating, Strips, HasKubeConfig
  <1>7. CASE ObserveGuard(c)
    <2>1. /\ UNCHANGED <<mr, row, agent, torn>> /\ pc[c] = "guard"
          /\ pc'[c] = "idle" \/ (pc'[c] = "get" /\ UNCHANGED att)
      BY <1>1, <1>7 DEF ObserveGuard, world, history
    <2>2. CASE pc'[c] = "idle"
      BY <1>5, <2>1, <2>2
    <2>3. CASE pc'[c] = "get" /\ UNCHANGED att
      <3>1. (LiveRun(c)' => live) /\ mr[c].phase # "gone"
        BY <1>2, <2>1, <2>3 DEF LiveRun
      <3> QED BY <1>3, <1>4, <2>1, <2>3, <3>1
          DEF TidyOK, UndroppedOK, Creating, Strips, HasKubeConfig
    <2> QED BY <2>1, <2>2, <2>3
  <1>8. CASE ObserveAbsent(c)
    <2>1. /\ pc[c] = "get" /\ r = NoRow /\ UNCHANGED <<row, agent, torn>> /\ Absent(c)
      BY <1>2, <1>8 DEF ObserveAbsent, world, history
    <2>2. CASE pc'[c] = "idle" /\ mr' = [mr EXCEPT ![c].phase = "gone"]
      <3>1. mr'[c].phase = "gone" /\ mr'[c].seen = mr[c].seen
        BY <1>1, <2>2 DEF MRs
      <3>2. ~LiveRun(c)'
        BY <2>2, <3>1 DEF LiveRun
      <3> QED BY <1>3, <1>4, <2>1, <2>2, <3>1, <3>2
          DEF TidyOK, UndroppedOK, Creating, Strips, HasKubeConfig
    <2>3. CASE pc'[c] = "create" /\ mr' = [mr EXCEPT ![c].pending = TRUE] /\ UNCHANGED att
      <3>1. mr'[c].phase = mr[c].phase /\ mr'[c].seen = mr[c].seen
        BY <1>1, <2>3 DEF MRs
      <3>2. LiveRun(c)' => live
        BY <2>1, <2>3 DEF LiveRun
      <3> QED BY <1>3, <1>4, <2>1, <2>3, <3>1, <3>2
          DEF TidyOK, UndroppedOK, Creating, Strips, HasKubeConfig
    <2>4. CASE pc'[c] = "idle" /\ UNCHANGED mr
      BY <1>5, <2>1, <2>4
    <2> QED BY <1>1, <2>1, <2>2, <2>3, <2>4 DEF Absent
  <1>9. CASE ObserveFails(c)
    <2>1. /\ pc[c] = "get" /\ UNCHANGED <<mr, row, agent, torn>>
          /\ \/ pc'[c] = "idle"
             \/ pc'[c] = "delete" /\ UNCHANGED att
      BY <1>1, <1>9 DEF ObserveFails, Fault, Waiting, ReadsTruthful, world, history
    <2> QED BY <1>5, <2>1
  <1>10. CASE ObserveUpToDate(c) \/ ObserveDrift(c)
    <2>1. /\ pc[c] = "get" /\ r # NoRow /\ UNCHANGED <<row, agent, torn>>
          /\ mr'[c].phase = mr[c].phase
      BY <1>2, <1>10, SettleEffect DEF ObserveUpToDate, ObserveDrift, world, history
    <2>2. att' = Observed(c) => att'[c].deleting = att[c].deleting
      BY <2>1, ObservedKeeps
    <2>3. pc'[c] = "idle" \/ (pc'[c] \in {"update", "delete"} /\ att' = Observed(c))
      BY <1>1, <1>10 DEF ObserveUpToDate, ObserveDrift
    <2> QED BY <1>5, <2>1, <2>2, <2>3
  <1>11. CASE ApplyInstance(c)
    <2>1. /\ pc[c] \in {"create", "update"} /\ UNCHANGED <<mr, agent, torn>>
          /\ row'[RowName[c]] # NoRow
          /\ pc'[c] = IF pc[c] = "create" THEN "cmode" ELSE "umode"
      BY <1>1, <1>11, AppliedEffect DEF ApplyInstance, history
    <2>2. /\ att'[c].adopted = (r # NoRow) /\ att'[c].seen = att[c].seen
          /\ att'[c].deleting = att[c].deleting
      BY <1>1, <1>11 DEF ApplyInstance, Attempts
    <2>3. CASE pc[c] = "create"
      BY <1>2, <1>3, <1>4, <2>1, <2>2, <2>3 DEF TidyOK, UndroppedOK, Creating
    <2>4. CASE pc[c] = "update"
      BY <1>5, <2>1, <2>2, <2>4
    <2> QED BY <2>1, <2>3, <2>4
  <1>12. CASE ApplyRejected(c) \/ ApplyFails(c)
    <2>1. /\ pc'[c] = "idle" /\ mr'[c].phase = mr[c].phase /\ mr'[c].seen = mr[c].seen
          /\ pc[c] \in {"create", "update"} /\ UNCHANGED agent
      BY <1>12, GiveUpEffect DEF ApplyRejected, ApplyFails, world
    <2>2. /\ row' = row \/ row'[RowName[c]] # NoRow
          /\ torn[c] => torn'[c]
      BY <1>1, <1>12, <2>1, AppliedEffect DEF ApplyRejected, ApplyFails, world
    <2> QED BY <1>5, <2>1, <2>2
  <1>13. CASE SyncMode(c)
    <2>1. /\ pc[c] \in {"cmode", "umode"} /\ UNCHANGED agent /\ att[c] \in Attempts
      BY <1>1, <1>13 DEF SyncMode
    <2>2. \/ ModeInPlace(c) /\ UNCHANGED row
          \/ r # NoRow /\ row'[RowName[c]] # NoRow /\ row'[RowName[c]].mode = att[c].mode
      <3>1. CASE ModeInPlace(c) /\ UNCHANGED row
        BY <3>1
      <3>2. CASE /\ ~ModeInPlace(c) /\ r # NoRow
                 /\ row' = [row EXCEPT ![RowName[c]].mode = att[c].mode]
        <4>1. row'[RowName[c]] = [r EXCEPT !.mode = att[c].mode] /\ r \in Rows
          BY <1>1, <3>2
        <4>2. att[c].mode \in Modes
          BY <2>1, <3>2 DEF ModeInPlace, Attempts, UserModes
        <4>3. row'[RowName[c]] \in Rows /\ row'[RowName[c]].mode = att[c].mode
          BY <4>1, <4>2 DEF Rows
        <4> QED BY <3>2, <4>3, PartsOfState
      <3> QED BY <1>13, <3>1, <3>2 DEF SyncMode
    <2>3. CASE pc[c] = "umode"
      <3>1. pc'[c] = "idle" /\ UNCHANGED <<mr, torn>>
        BY <1>1, <1>13, <2>3 DEF SyncMode
      <3> QED BY <1>5, <2>1, <2>2, <2>3, <3>1
    <2>4. CASE pc[c] = "cmode" /\ HasKubeConfig
      <3>1. pc'[c] = "manifests" /\ UNCHANGED <<mr, att, torn>>
        BY <1>1, <1>13, <2>4 DEF SyncMode
      <3>2. spent["drops"] = 0 => att[c].mode \in {NoMode, row'[RowName[c]].mode}
        BY <1>3, <2>2, <2>4 DEF ModeInPlace, Creating
      <3> QED BY <1>2, <1>3, <1>4, <2>1, <2>2, <2>4, <3>1, <3>2
          DEF TidyOK, UndroppedOK, Creating, LiveRun
    <2>5. CASE pc[c] = "cmode" /\ ~HasKubeConfig
      <3>1. /\ pc'[c] = "idle" /\ mr'[c].phase = mr[c].phase /\ mr'[c].seen = mr[c].seen
        BY <1>13, <2>5, CreatedEffect DEF SyncMode
      <3> QED BY <1>2, <1>3, <1>4, <2>2, <2>5, <3>1
          DEF TidyOK, UndroppedOK, Creating, LiveRun, Strips, HasKubeConfig
    <2> QED BY <2>1, <2>3, <2>4, <2>5
  <1>14. ASSUME NEW err, Rollback(c, err), pc[c] \in Creating \ {"rbStrip", "rbDelete"},
                UNCHANGED <<mr, row, torn>>, agent'[c] = agent[c] \/ pc[c] = "install"
         PROVE  TidyOK(c)'
    <2>1. /\ pc'[c] = (IF Strips THEN "rbStrip" ELSE "rbDelete")
          /\ att'[c].deleting = att[c].deleting /\ att'[c].seen = att[c].seen
          /\ att'[c].adopted = att[c].adopted
      BY <1>14, RollbackEffect DEF Creating
    <2> QED BY <1>2, <1>3, <1>4, <1>14, <2>1
        DEF TidyOK, UndroppedOK, Creating, LiveRun, Strips, HasKubeConfig
  <1>15. CASE SyncModeFails(c)
    <2>1. /\ pc[c] \in {"cmode", "umode"} /\ UNCHANGED <<row, agent, torn>>
          /\ \E err : ModeFailed(c, err)
      BY <1>15 DEF SyncModeFails, world
    <2>2. CASE pc[c] = "umode"
      <3>1. /\ pc'[c] = "idle" /\ mr'[c].phase = mr[c].phase /\ mr'[c].seen = mr[c].seen
        BY <2>1, <2>2, GiveUpEffect DEF ModeFailed
      <3> QED BY <1>5, <2>1, <2>2, <3>1
    <2>3. CASE pc[c] = "cmode"
      BY <1>14, <2>1, <2>3 DEF ModeFailed, Creating
    <2> QED BY <2>1, <2>2, <2>3
  <1>16. CASE GetManifests(c)
    <2>1. /\ pc[c] = "manifests" /\ pc'[c] = "install"
          /\ UNCHANGED <<mr, att, row, agent, torn>>
      BY <1>1, <1>16 DEF GetManifests, world, history
    <2> QED BY <1>2, <1>3, <1>4, <2>1 DEF TidyOK, UndroppedOK, Creating, LiveRun
  <1>17. CASE GetManifestsFails(c) \/ InstallFails(c)
    <2>1. /\ UNCHANGED <<mr, row, torn>> /\ \E err : Rollback(c, err)
          /\ (pc[c] = "manifests" /\ UNCHANGED agent) \/ pc[c] = "install"
      BY <1>17 DEF GetManifestsFails, InstallFails, world, history
    <2> QED BY <1>14, <2>1 DEF Creating
  <1>18. CASE Install(c)
    <2>1. /\ pc[c] = "install" /\ pc'[c] = "idle" /\ UNCHANGED row
          /\ mr'[c].phase = mr[c].phase /\ mr'[c].seen = mr[c].seen
      BY <1>18, CreatedEffect DEF Install
    <2> QED BY <1>2, <1>3, <1>4, <2>1 DEF TidyOK, UndroppedOK, Creating
  <1>19. CASE RollbackStrip(c)
    <2>1. /\ pc[c] = "rbStrip" /\ pc'[c] = "rbDelete" /\ UNCHANGED <<mr, att, row>>
      BY <1>1, <1>19 DEF RollbackStrip
    <2>2. torn'[c] \/ agent'[c] = "none"
      BY <1>1, <1>19 DEF RollbackStrip, Stripped, StripFails
    <2> QED BY <1>2, <1>3, <1>4, <2>1, <2>2 DEF TidyOK, UndroppedOK, Creating, LiveRun
  <1>20. CASE RollbackDelete(c)
    <2>1. /\ pc[c] = "rbDelete" /\ pc'[c] = "idle" /\ UNCHANGED agent
          /\ mr'[c].phase = mr[c].phase /\ mr'[c].seen = mr[c].seen
      BY <1>20, GiveUpEffect DEF RollbackDelete
    <2>2. torn[c] => torn'[c]
      BY <1>1, <1>20 DEF RollbackDelete
    <2> QED BY <1>2, <1>3, <1>4, <2>1, <2>2
        DEF TidyOK, UndroppedOK, Creating, Strips, HasKubeConfig
  <1>21. CASE DeleteBegins(c)
    <2>1. /\ pc[c] = "delete" /\ pc'[c] \in {"dstrip", "drow"}
          /\ UNCHANGED <<mr, att, row, agent, torn>>
      BY <1>1, <1>21 DEF DeleteBegins, world, history
    <2> QED BY <1>5, <2>1
  <1>22. CASE DeleteStrip(c)
    <2>1. /\ pc[c] = "dstrip" /\ pc'[c] \in {"idle", "drow"} /\ UNCHANGED <<mr, row, torn>>
          /\ pc'[c] # "idle" => UNCHANGED att
          /\ agent[c] = "none" => agent'[c] = "none"
      BY <1>1, <1>22 DEF DeleteStrip, Stripped, StripFails, history
    <2>2. ~LiveRun(c)'
      BY <1>2, <2>1 DEF LiveRun
    <2> QED BY <1>2, <1>3, <1>4, <2>1, <2>2
        DEF TidyOK, UndroppedOK, Creating, Strips, HasKubeConfig
  <1>23. CASE DeleteRow(c)
    <2>1. /\ pc[c] = "drow" /\ pc'[c] = "idle" /\ UNCHANGED <<mr, agent, torn>>
          /\ row'[RowName[c]] = r \/ row'[RowName[c]] = NoRow
      BY <1>1, <1>2, <1>23 DEF DeleteRow, history
    <2>2. ~LiveRun(c)' /\ (Strips => agent[c] = "none")
      BY <1>2, <2>1 DEF LiveRun, DeleteStripsFirst
    <2> QED BY <1>2, <1>3, <1>4, <2>1, <2>2
        DEF TidyOK, UndroppedOK, Creating, Strips, HasKubeConfig
  <1> QED BY <1>6, <1>7, <1>8, <1>9, <1>10, <1>11, <1>12, <1>13, <1>15, <1>16, <1>17, <1>18,
             <1>19, <1>20, <1>21, <1>22, <1>23 DEF Step, Observe, Write, InstallAgent, Delete

LEMMA EnvironmentTidy ==
  ASSUME TypeOK, PathOK, NEW d \in Clusters, TidyOK(d), Environment
  PROVE  TidyOK(d)'
  <1>1. /\ mr \in [Clusters -> MRs] /\ row \in [Names -> Rows \cup {NoRow}]
        /\ RowName[d] \in Names /\ pc[d] # "idle" => att[d] \in Attempts
        /\ att \in [Clusters -> Attempts \cup {NoAttempt}]
    BY PartsOfState
  <1>2. ASSUME pc'[d] = pc[d], UNCHANGED <<row, agent, torn>>,
               spent'["drops"] = spent["drops"],
               mr'[d].phase = "live" => mr[d].phase = "live",
               mr'[d].phase = "gone" => mr[d].phase = "gone",
               mr'[d].seen = mr[d].seen,
               pc[d] # "idle" =>
                 /\ att'[d].deleting = att[d].deleting /\ att'[d].seen = att[d].seen
                 /\ att'[d].adopted = att[d].adopted /\ att'[d].mode = att[d].mode
        PROVE  TidyOK(d)'
    <2>1. LiveRun(d)' => LiveRun(d)
      BY <1>2 DEF LiveRun
    <2> QED BY <1>2, <2>1 DEF TidyOK, UndroppedOK, Creating, Strips, HasKubeConfig
  <1>3. ASSUME NEW kind \in {"edits", "crashes"}, Spend(kind)
        PROVE  spent'["drops"] = spent["drops"]
    BY <1>3 DEF Spend, TypeOK
  <1>4. ASSUME NEW c \in Clusters, EditSpec(c) \/ RequestDelete(c)
        PROVE  TidyOK(d)'
    <2>1. pc[d] # "idle" =>
            /\ att'[d].deleting = att[d].deleting /\ att'[d].seen = att[d].seen
            /\ att'[d].adopted = att[d].adopted /\ att'[d].mode = att[d].mode
      <3>1. att' \in {att, [att EXCEPT ![c].fresh = FALSE]}
        BY <1>4 DEF EditSpec, RequestDelete, Stale
      <3>2. att' = [att EXCEPT ![c].fresh = FALSE] =>
              att'[d] = IF d = c THEN [att[d] EXCEPT !.fresh = FALSE] ELSE att[d]
        BY <1>1
      <3> DEFINE a == [att[d] EXCEPT !.fresh = FALSE]
      <3>3. pc[d] # "idle" =>
              /\ a.deleting = att[d].deleting /\ a.seen = att[d].seen
              /\ a.adopted = att[d].adopted /\ a.mode = att[d].mode
        BY <1>1 DEF Attempts
      <3> QED BY <3>1, <3>2, <3>3
    <2>2. /\ mr'[d].phase = "live" => mr[d].phase = "live"
          /\ mr'[d].phase = "gone" => mr[d].phase = "gone"
          /\ mr'[d].seen = mr[d].seen
      BY <1>1, <1>4 DEF EditSpec, RequestDelete, MRs
    <2>3. spent'["drops"] = spent["drops"]
      BY <1>3, <1>4 DEF EditSpec, RequestDelete
    <2> QED BY <1>2, <1>4, <2>1, <2>2, <2>3 DEF EditSpec, RequestDelete, world, history
  <1>5. ASSUME NEW c \in Clusters, RotateSecret(c) \/ OperatorResumes(c)
        PROVE  TidyOK(d)'
    <2>1. /\ mr'[d].phase = mr[d].phase /\ mr'[d].seen = mr[d].seen
      BY <1>1, <1>5 DEF RotateSecret, OperatorResumes, MRs
    <2>2. spent'["drops"] = spent["drops"]
      BY <1>3, <1>5 DEF RotateSecret, OperatorResumes
    <2> QED BY <1>2, <1>5, <2>1, <2>2 DEF RotateSecret, OperatorResumes, world, history
  <1>6. ASSUME NEW n \in Names, RowDropped(n)
        PROVE  TidyOK(d)'
    <2>1. spent'["drops"] # 0
      BY <1>6 DEF RowDropped, Spend, TypeOK
    <2>2. row'[RowName[d]] = row[RowName[d]] \/ row'[RowName[d]] = NoRow
      BY <1>1, <1>6 DEF RowDropped
    <2> QED BY <1>6, <2>1, <2>2 DEF RowDropped, TidyOK, Creating
  <1>7. CASE Crash
    <2>1. /\ pc'[d] = "idle" /\ UNCHANGED <<mr, row, agent>> /\ (torn[d] => torn'[d])
          /\ spent'["drops"] = spent["drops"]
      BY <1>3, <1>7 DEF Crash, world
    <2>2. LiveRun(d)' => LiveRun(d)
      BY <2>1 DEF LiveRun, PathOK
    <2> QED BY <2>1, <2>2 DEF TidyOK, UndroppedOK, Creating, Strips, HasKubeConfig
  <1> QED BY <1>4, <1>5, <1>6, <1>7 DEF Environment

LEMMA AlwaysTidy == Spec => [](PlainNames /\ ReadsTruthful => \A c \in Clusters : TidyOK(c))
<1> DEFINE Inv == PlainNames /\ ReadsTruthful => \A c \in Clusters : TidyOK(c)
<1>1. Init => Inv
  BY NamesOfClusters DEF Init, TidyOK, UndroppedOK, Creating
<1>2. TypeOK /\ PathOK /\ NamesOK /\ GuardInv /\ DeleteStripsFirst /\ Inv /\ [Next]_vars
      => Inv'
  <2> SUFFICES ASSUME TypeOK, PathOK, NamesOK, GuardInv, DeleteStripsFirst,
                      PlainNames, ReadsTruthful,
                      \A c \in Clusters : TidyOK(c), [Next]_vars, NEW d \in Clusters
               PROVE  TidyOK(d)'
    OBVIOUS
  <2>1. ASSUME NEW c \in Clusters, Step(c)
        PROVE  TidyOK(d)'
    <3>1. CASE d = c
      BY <2>1, <3>1, StepTidy
    <3>2. CASE d # c
      <4>1. row'[RowName[d]] = row[RowName[d]]
        BY <2>1, <3>2, OwnRow DEF PlainNames, OwnRows
      <4>2. spent'["drops"] = spent["drops"]
        BY <2>1, DropsFrame
      <4>3. TidyOK(d)
        OBVIOUS
      <4> QED BY <2>1, <3>2, <4>1, <4>2, <4>3, Frame
          DEF TidyOK, UndroppedOK, LiveRun, Strips, HasKubeConfig
    <3> QED BY <3>1, <3>2
  <2>2. CASE Environment
    BY <2>2, EnvironmentTidy
  <2>3. CASE UNCHANGED vars
    BY <2>3 DEF vars, world, history, TidyOK, UndroppedOK, LiveRun, Strips, HasKubeConfig
  <2> QED BY <2>1, <2>2, <2>3 DEF Next
<1> QED BY <1>1, <1>2, ClusterTypeCorrect, AlwaysOnPath, AlwaysNamed, GuardInvariant,
           StrippedBeforeDeleted, PTL DEF Spec

\* When an MR is gone its row is gone, and its agent unless a Create was torn or a row
\* was dropped (cluster.go:417-445), whatever the faults and restarts on the way.  A
\* read that fails as NotFound ends the deletion early, two names hide the row from it,
\* and a shared one has another MR write it again.
THEOREM GoneIsTidy == Spec => [](PlainNames /\ ReadsTruthful => GoneLeavesNothing)
<1>1. (\A c \in Clusters : TidyOK(c)) => GoneLeavesNothing
  BY DEF TidyOK, UndroppedOK, GoneLeavesNothing
<1> QED BY <1>1, AlwaysTidy, PTL

\* Under the same hypotheses, and as long as no row is dropped, a Create that succeeds
\* leaves its row in the mode the MR asks for (cluster.go:394-395): what atProvider says
\* is never that of a row that is no longer there.
THEOREM CreateLeavesMode == PlainNames /\ ReadsTruthful => (Spec => CreateSyncsMode)
<1> SUFFICES ASSUME PlainNames, ReadsTruthful PROVE Spec => CreateSyncsMode
  OBVIOUS
<1>1. ASSUME TypeOK, \A c \in Clusters : TidyOK(c), [Next]_vars, spent.drops = 0,
             NEW c \in Clusters
      PROVE  LeavesMode(c)
  <2> SUFFICES ASSUME outcome[c] = "running", outcome'[c] = "created", att[c].mode # NoMode,
                      row[RowName[c]] # NoRow
               PROVE  row'[RowName[c]].mode = att[c].mode
    BY DEF LeavesMode
  <2>1. /\ pc \in [Clusters -> Steps] /\ outcome \in [Clusters -> Outcomes]
        /\ row \in [Names -> Rows \cup {NoRow}] /\ RowName[c] \in Names
    BY <1>1, PartsOfState
  <2>2. UndroppedOK(c)
    BY <1>1 DEF TidyOK
  <2>3. ~UNCHANGED vars
    BY DEF vars
  <2>4. ~Environment
    BY DEF Environment, EditSpec, RotateSecret, RequestDelete, OperatorResumes, RowDropped,
           Crash
  <2>5. Step(c)
    BY <1>1, <2>3, <2>4, Frame DEF Next
  <2>6. CASE Install(c)
    BY <2>2, <2>6 DEF Install, UndroppedOK
  <2>7. CASE SyncMode(c)
    <3>1. pc[c] = "cmode"
      BY <2>1, <2>7 DEF SyncMode, Finish
    <3>2. att[c].seen = NoMode
      BY <2>2, <3>1 DEF UndroppedOK, Creating
    <3>3. row' = [row EXCEPT ![RowName[c]].mode = att[c].mode]
      BY <2>7, <3>2 DEF SyncMode, ModeInPlace
    <3>4. row'[RowName[c]] = [row[RowName[c]] EXCEPT !.mode = att[c].mode]
      BY <2>1, <3>3
    <3> QED BY <2>1, <3>4 DEF Rows
  <2>8. CASE \E fingerprint, err : GiveUp(c, fingerprint, err)
    BY <1>1, <2>8, GiveUpEffect
  <2>9. ~\E err : Rollback(c, err)
    BY DEF Rollback, Goto
  <2> USE DEF Finish, Goto
  <2>10. CASE Reconcile(c) \/ Observe(c) \/ Delete(c) \/ ApplyInstance(c) \/ GetManifests(c)
              \/ RollbackStrip(c)
    BY <2>1, <2>10
    DEF Reconcile, Observe, ObserveGuard, ObserveAbsent, ObserveFails, ObserveUpToDate,
        ObserveDrift, Absent, Waiting, Delete, DeleteBegins, DeleteStrip, DeleteRow,
        ApplyInstance, GetManifests, RollbackStrip
  <2>11. CASE ApplyRejected(c) \/ ApplyFails(c) \/ SyncModeFails(c) \/ RollbackDelete(c)
    BY <2>8, <2>9, <2>11 DEF ApplyRejected, ApplyFails, SyncModeFails, ModeFailed,
                             RollbackDelete
  <2>12. CASE GetManifestsFails(c) \/ InstallFails(c)
    BY <2>9, <2>12 DEF GetManifestsFails, InstallFails
  <2> QED BY <2>5, <2>6, <2>7, <2>10, <2>11, <2>12 DEF Step, Write, InstallAgent
<1>2. TypeOK /\ (\A c \in Clusters : TidyOK(c)) /\ [Next]_vars =>
        [spent.drops = 0 => \A c \in Clusters : LeavesMode(c)]_vars
  BY <1>1
<1>3. Spec => [](PlainNames /\ ReadsTruthful => \A c \in Clusters : TidyOK(c))
  BY AlwaysTidy
<1>4. (PlainNames /\ ReadsTruthful => \A c \in Clusters : TidyOK(c))
      => \A c \in Clusters : TidyOK(c)
  OBVIOUS
<1> QED BY <1>2, <1>3, <1>4, ClusterTypeCorrect, PTL DEF Spec, CreateSyncsMode

===============================================================================
