-------------------------- MODULE KargoInstanceProofs --------------------------
(***************************************************************************)
(* Proofs about the reconciliation of a KargoInstance MR, for all sets of  *)
(* specs, contents of the Secret, faults and bounds.                       *)
(***************************************************************************)
EXTENDS KargoInstance, GuardLemmas

-------------------------------------------------------------------------------
(* Type correctness *)

MRs == [phase : {"live", "deleting", "gone"}, spec : Specs, ws : BOOLEAN,
        secretHash : {0} \cup ContentIds, mapHash : Maps \cup {NoMap}]
Rows == [spec : Specs, secret : ContentIds, cm : Maps \cup {Foreign},
         child : BOOLEAN, sick : BOOLEAN]
Attempts == [spec : Specs, deleting : BOOLEAN, creating : BOOLEAN, ws : BOOLEAN,
             passed : BOOLEAN, content : {0} \cup ContentIds]
Failures == [fingerprint : Fingerprints, current : BOOLEAN]

\* The parts of the state.  A request that has been built carries a content.
EntriesOK == WellFormed(entries, me, Fingerprints)
ControlOK ==
  /\ pc \in {"idle", "get", "apply", "send", "save", "delete"}
  /\ att \in IF pc = "idle" THEN {NoAttempt} ELSE Attempts
  /\ pc \in {"send", "save"} => att.content \in ContentIds
WorldOK ==
  /\ mr \in MRs
  /\ secret \in [content : ContentIds, there : BOOLEAN]
  /\ row \in Rows \cup {NoRow}
HistoryOK ==
  /\ failed \in Failures \cup {NoFailure}
  /\ unread \in BOOLEAN /\ rejected \in BOOLEAN

Typed == EntriesOK /\ ControlOK /\ WorldOK /\ HistoryOK /\ spent \in Nat

LEMMA TypedSaysTypeOK == Typed => TypeOK
  <1>1. EntriesOK <=> \A e \in entries :
           /\ \E p \in Fingerprints : e.key = Key(me, p)
           /\ e.err \in Error /\ IsTerminal(e.err)
    BY DEF EntriesOK, WellFormed
  <1> QED
    BY <1>1 DEF Typed, TypeOK, ControlOK, WorldOK, HistoryOK, MRs, Rows, Attempts,
                Failures

LEMMA FingerprintType ==
  ASSUME NEW spec \in Specs, NEW content \in ContentIds
  PROVE  Fingerprint(spec, content) \in Fingerprints
  BY DEF Fingerprint, Fingerprints

LEMMA SpendsType ==
  ASSUME spent \in Nat, NEW n \in Nat, Spends(n)
  PROVE  spent' \in Nat
  BY DEF Spends

LEMMA SpendType ==
  ASSUME spent \in Nat, Spend
  PROVE  spent' \in Nat
  BY SpendsType DEF Spend

LEMMA FinishType ==
  ASSUME Finish
  PROVE  ControlOK'
  BY DEF Finish, ControlOK

LEMMA SupersededType ==
  ASSUME HistoryOK
  PROVE  Superseded \in Failures \cup {NoFailure}
  BY DEF HistoryOK, Superseded, Failures

LEMMA SavesType ==
  ASSUME WorldOK, NEW status \in MRs, Saves(status)
  PROVE  mr' \in MRs
  BY DEF WorldOK, Saves, MRs

\* The guard's answer is one of three, and the map stays well-formed.
LEMMA GuardedType ==
  ASSUME Typed, NEW a \in Attempts, NEW n \in Nat,
         NEW Suppressed \in BOOLEAN, NEW Otherwise \in BOOLEAN,
         NEW PassedOver \in BOOLEAN,
         Guarded(a, n, Suppressed, Otherwise, PassedOver)
  PROVE  /\ EntriesOK' /\ spent' \in Nat
         /\ Suppressed \/ Otherwise \/ PassedOver
  <1> DEFINE key == Key(me, Fingerprint(a.spec, secret.content))
  <1>1. Fingerprint(a.spec, secret.content) \in Fingerprints
    BY FingerprintType DEF Typed, WorldOK, Attempts
  <1>2. AsTerminal(Opaque({})) \in Error
    BY BareErrors
  <1>3. entries' = AfterSuppress(entries, key, a.deleting) => EntriesOK'
    BY <1>1, <1>2, EntriesStay DEF Typed, EntriesOK
  <1>4. UNCHANGED entries => EntriesOK'
    BY DEF Typed, EntriesOK
  <1>5. spent' \in Nat
    BY SpendsType DEF Typed, Guarded
  <1> QED BY <1>3, <1>4, <1>5 DEF Guarded

LEMMA AbsentType ==
  ASSUME Typed, pc = "get", Absent
  PROVE  mr' \in MRs /\ ControlOK'
  <1>1. mr \in MRs /\ att \in Attempts
    BY DEF Typed, WorldOK, ControlOK
  <1>2. CASE att.deleting
    BY <1>1, <1>2, FinishType DEF Absent, MRs
  <1>3. CASE ~att.deleting
    BY <1>1, <1>3 DEF Absent, ControlOK, Attempts
  <1> QED BY <1>2, <1>3

\* A rejection is recorded under the key of the MR that was read.
LEMMA RecordType ==
  ASSUME Typed, pc = "get", NEW err \in Error, RecordTerminalObserve(err)
  PROVE  EntriesOK'
  <1>1. Fingerprint(att.spec, secret.content) \in Fingerprints
    BY FingerprintType DEF Typed, WorldOK, ControlOK, Attempts
  <1>2. WellFormed(Recorded(entries, Key(me, Fingerprint(att.spec, secret.content)), err),
                   me, Fingerprints)
    BY <1>1, EntriesStay DEF Typed, EntriesOK
  <1> QED BY <1>2 DEF RecordTerminalObserve, Typed, EntriesOK

LEMMA FailsType ==
  ASSUME Typed, pc = "get", NEW err \in Error, Fails(err)
  PROVE  mr' \in MRs /\ EntriesOK' /\ ControlOK' /\ unread' \in BOOLEAN
  <1>1. CASE GetOutcome(err) = "absent"
    BY <1>1, AbsentType DEF Fails, Typed, EntriesOK
  <1>2. CASE GetOutcome(err) = "provisioning"
    BY <1>2, FinishType
    DEF Fails, Typed, EntriesOK, WorldOK, ControlOK, HistoryOK, Goto
  <1>3. CASE GetOutcome(err) \notin {"absent", "provisioning"}
    <2>1. /\ RecordTerminalObserve(ClassifyApplyError(err))
          /\ unread' = IF HasKey(att) /\ IsTerminal(ClassifyApplyError(err))
                       THEN Fresh ELSE unread
          /\ Finish
          /\ UNCHANGED mr
      BY <1>3 DEF Fails
    <2>2. EntriesOK'
      BY <2>1, RecordType, ClassifiedErrors
    <2>3. unread' \in BOOLEAN
      BY <2>1 DEF Typed, HistoryOK, Fresh
    <2> QED BY <2>1, <2>2, <2>3, FinishType DEF Typed, WorldOK
  <1> QED BY <1>1, <1>2, <1>3

LEMMA RejectionType == GatewayError("InvalidArgument", {}) \in Error
  BY BareErrors DEF Codes

LEMMA ObserveType ==
  ASSUME Typed, Observe
  PROVE  Typed'
  <1>1. CASE Reconcile
    <2>1. Copy \in Attempts /\ Passing(Copy) \in Attempts
      BY DEF Typed, WorldOK, MRs, Copy, Passing, Attempts
    <2> DEFINE goOn(a) == pc' = "get" /\ att' = a
    <2>2. /\ EntriesOK' /\ spent' \in Nat
          /\ goOn(Copy) \/ goOn(Passing(Copy)) \/ UNCHANGED <<pc, att>>
      <3>1. CASE Remembers
        <4>1. Guarded(Copy, 0, UNCHANGED <<pc, att>>, goOn(Copy), goOn(Passing(Copy)))
          BY <1>1, <3>1 DEF Reconcile
        <4> QED BY <2>1, <4>1, GuardedType
      <3>2. CASE ~Remembers
        BY <1>1, <3>2 DEF Reconcile, Typed, EntriesOK
      <3> QED BY <3>1, <3>2
    <2>3. ControlOK'
      BY <1>1, <2>1, <2>2 DEF Reconcile, Typed, ControlOK
    <2> QED BY <1>1, <2>2, <2>3 DEF Reconcile, history, Typed, WorldOK, HistoryOK
  <1>2. CASE ObserveAbsent
    BY <1>2, AbsentType DEF ObserveAbsent, Typed, EntriesOK, WorldOK, HistoryOK
  <1>3. CASE ObserveFails
    <2>1. PICK err \in Error : Fails(err)
      BY <1>3, RejectionType, FaultsAreErrors DEF ObserveFails
    <2>2. spent' \in Nat
      BY <1>3, SpendType DEF ObserveFails, Typed
    <2>3. pc = "get" /\ UNCHANGED <<secret, row, failed, rejected>>
      BY <1>3 DEF ObserveFails
    <2> QED BY <2>1, <2>2, <2>3, FailsType DEF Typed, WorldOK, HistoryOK
  <1>4. CASE ObserveRow
    <2> DEFINE known == [att EXCEPT !.ws = TRUE]
               settle == Saves([mr EXCEPT !.ws = TRUE]) /\ Finish
               write(a) == /\ pc' = IF a.deleting THEN "delete" ELSE "apply"
                           /\ att' = a
                           /\ UNCHANGED mr
    <2>1. /\ att \in Attempts /\ known \in Attempts /\ Passing(known) \in Attempts
          /\ mr \in MRs /\ [mr EXCEPT !.ws = TRUE] \in MRs
      BY <1>4 DEF ObserveRow, Typed, ControlOK, WorldOK, Passing, Attempts, MRs
    <2>2. ASSUME NEW a \in Attempts, write(a) PROVE mr' \in MRs /\ ControlOK'
      BY <2>1, <2>2 DEF ControlOK
    <2>3. settle => mr' \in MRs /\ ControlOK'
      BY <2>1, SavesType, FinishType DEF Typed
    <2>4. PICK n \in {0, 1} :
             \/ /\ Guarded(known, n, settle, write(known), write(Passing(known)))
                /\ UNCHANGED failed
             \/ /\ entries' = IF HasKey(known) THEN Without(entries, me) ELSE entries
                /\ failed' = IF HasKey(known) THEN Superseded ELSE failed
                /\ write(known) \/ settle
                /\ Spends(n)
      BY <1>4 DEF ObserveRow
    <2>5. EntriesOK' /\ mr' \in MRs /\ ControlOK' /\ spent' \in Nat
      <3>1. CASE Guarded(known, n, settle, write(known), write(Passing(known)))
        <4>1. EntriesOK' /\ spent' \in Nat
              /\ (settle \/ write(known) \/ write(Passing(known)))
          BY <2>1, <3>1, GuardedType
        <4> QED BY <2>1, <2>2, <2>3, <4>1
      <3>2. CASE /\ entries' = IF HasKey(known) THEN Without(entries, me) ELSE entries
                 /\ write(known) \/ settle
                 /\ Spends(n)
        <4>1. EntriesOK'
          BY <3>2 DEF Typed, EntriesOK, WellFormed, Without
        <4>2. spent' \in Nat
          BY <3>2, SpendsType DEF Typed
        <4> QED BY <2>1, <2>2, <2>3, <3>2, <4>1, <4>2
      <3> QED BY <2>4, <3>1, <3>2
    <2>6. failed' \in Failures \cup {NoFailure}
      BY <2>4, SupersededType DEF Typed, HistoryOK
    <2>7. UNCHANGED <<secret, row, rejected>> /\ unread' = FALSE
      BY <1>4 DEF ObserveRow
    <2> QED BY <2>5, <2>6, <2>7 DEF Typed, WorldOK, HistoryOK
  <1> QED BY <1>1, <1>2, <1>3, <1>4 DEF Observe

LEMMA RecordingType ==
  ASSUME Typed, pc = "send", NEW err \in Error, Recording(err)
  PROVE  EntriesOK' /\ failed' \in Failures \cup {NoFailure}
  <1>1. Sent \in Fingerprints
    BY FingerprintType DEF Typed, ControlOK, Attempts, Sent
  <1>2. WellFormed(Recorded(entries, Key(me, Sent), err), me, Fingerprints)
    BY <1>1, EntriesStay DEF Typed, EntriesOK
  <1> QED BY <1>1, <1>2, SupersededType
      DEF Recording, EntriesOK, Typed, Failures, Fresh

LEMMA AppliedType ==
  ASSUME Typed, pc = "send", Applied
  PROVE  row' \in Rows
  BY DEF Typed, ControlOK, WorldOK, Applied, Attempts, Rows

\* The errors of a write, classified.
LEMMA WriteErrors ==
  /\ ClassifyApplyError(GatewayError("InvalidArgument", {})) \in Error
  /\ \A f \in WriteFaults : ClassifyApplyError(f) \in Error
  <1>1. \A f \in WriteFaults : f \in Error
    BY FaultsAreErrors
  <1> QED BY <1>1, RejectionType, ClassifiedErrors

LEMMA WriteType ==
  ASSUME Typed, Write
  PROVE  Typed'
  <1>1. CASE ApplyRejects
    BY <1>1, SpendType, FinishType
    DEF ApplyRejects, Typed, EntriesOK, WorldOK, HistoryOK, Fresh
  <1>2. CASE BuildRequest
    <2>1. ControlOK'
      BY <1>2 DEF BuildRequest, Typed, ControlOK, WorldOK, Attempts
    <2> QED BY <1>2, <2>1 DEF BuildRequest, history, Typed, EntriesOK, WorldOK, HistoryOK
  <1>3. CASE Apply
    <2>1. EntriesOK'
      BY <1>3 DEF Apply, Typed, EntriesOK, WellFormed, Without
    <2>2. ControlOK'
      BY <1>3 DEF Apply, Goto, Typed, ControlOK
    <2>3. WorldOK' /\ HistoryOK'
      BY <1>3, AppliedType, SupersededType DEF Apply, Typed, WorldOK, HistoryOK
    <2> QED BY <1>3, <2>1, <2>2, <2>3 DEF Apply, Typed
  <1>4. CASE ApplyFails
    <2>1. PICK err \in Error : Recording(err)
      BY <1>4, WriteErrors DEF ApplyFails
    <2>2. EntriesOK' /\ failed' \in Failures \cup {NoFailure}
      BY <1>4, <2>1, RecordingType DEF ApplyFails
    <2>3. WorldOK'
      BY <1>4, AppliedType DEF ApplyFails, Typed, WorldOK
    <2>4. spent' \in Nat
      BY <1>4, SpendType DEF ApplyFails, Typed
    <2> QED BY <1>4, <2>2, <2>3, <2>4, FinishType DEF ApplyFails, Typed, HistoryOK
  <1>5. CASE SaveHashes
    <2> DEFINE status == [mr EXCEPT !.ws = TRUE, !.secretHash = att.content,
                                    !.mapHash = MapOf(att.spec)]
    <2>1. status \in MRs
      BY <1>5 DEF SaveHashes, Typed, WorldOK, ControlOK, Attempts, MRs, MapOf
    <2>2. mr' \in MRs
      BY <1>5, <2>1, SavesType DEF SaveHashes, Typed, WorldOK
    <2> QED BY <1>5, <2>2, FinishType
        DEF SaveHashes, history, Typed, EntriesOK, WorldOK, HistoryOK
  <1> QED BY <1>1, <1>2, <1>3, <1>4, <1>5 DEF Write

LEMMA DeleteType ==
  ASSUME Typed, Delete
  PROVE  Typed'
  <1>1. EntriesOK'
    BY DEF Delete, Typed, EntriesOK, WellFormed, Without
  <1>2. WorldOK' /\ HistoryOK' /\ ControlOK'
    BY FinishType DEF Delete, history, Typed, WorldOK, HistoryOK
  <1> QED BY <1>1, <1>2, SpendType DEF Delete, Typed

LEMMA EnvironmentType ==
  ASSUME Typed, Environment
  PROVE  Typed'
  <1>1. HistoryOK'
    <2>1. CASE RequestDelete
      BY <2>1 DEF RequestDelete, history, Typed, HistoryOK
    <2>2. CASE Outdated
      BY <2>2, SupersededType DEF Outdated, Typed, HistoryOK
    <2> QED BY <2>1, <2>2
        DEF Environment, EditSpec, SecretChanges, PlatformEdited, Crash
  <1>2. spent' \in Nat
    BY SpendType DEF Environment, EditSpec, RequestDelete, SecretChanges,
                     PlatformEdited, Crash, Typed
  <1>3. WorldOK'
    <2>1. CASE EditSpec
      BY <2>1 DEF EditSpec, Typed, WorldOK, MRs
    <2>2. CASE RequestDelete
      BY <2>2 DEF RequestDelete, Typed, WorldOK, MRs
    <2>3. CASE SecretChanges
      BY <2>3, Bounds DEF SecretChanges, Typed, WorldOK, ContentIds
    <2>4. CASE PlatformEdited
      BY <2>4 DEF PlatformEdited, Typed, WorldOK, Rows
    <2>5. CASE Crash
      BY <2>5 DEF Crash, Typed, WorldOK
    <2> QED BY <2>1, <2>2, <2>3, <2>4, <2>5 DEF Environment
  <1>4. EntriesOK'
    BY DEF Environment, EditSpec, RequestDelete, SecretChanges, PlatformEdited, Crash,
           Typed, EntriesOK, WellFormed
  <1>5. ControlOK'
    BY FinishType DEF Environment, EditSpec, RequestDelete, SecretChanges,
       PlatformEdited, Crash, Typed, ControlOK
  <1> QED BY <1>1, <1>2, <1>3, <1>4, <1>5 DEF Typed

LEMMA InitType == Init => Typed
  <1>1. 1 \in ContentIds
    BY Bounds DEF ContentIds
  <1> SUFFICES ASSUME Init PROVE Typed
    OBVIOUS
  <1>2. mr \in MRs
    BY DEF Init, MRs
  <1>3. secret \in [content : ContentIds, there : BOOLEAN]
    BY <1>1 DEF Init
  <1>4. EntriesOK
    BY DEF Init, EntriesOK, WellFormed
  <1> QED BY <1>2, <1>3, <1>4 DEF Init, Typed, ControlOK, WorldOK, HistoryOK

LEMMA AlwaysTyped == Spec => []Typed
<1>1. Typed /\ [Next]_vars => Typed'
  <2> SUFFICES ASSUME Typed, [Next]_vars PROVE Typed'
    OBVIOUS
  <2>1. CASE UNCHANGED vars
    BY <2>1 DEF vars, history, Typed, EntriesOK, ControlOK, WorldOK, HistoryOK
  <2> QED BY <2>1, ObserveType, WriteType, DeleteType, EnvironmentType DEF Next, Step
<1> QED BY <1>1, InitType, PTL DEF Spec

\* Every variable keeps its type, for all specs and contents.
THEOREM TypeCorrect == Spec => []TypeOK
  BY AlwaysTyped, TypedSaysTypeOK, PTL

-------------------------------------------------------------------------------
(* The hash in the status *)

\* The strengthening: the contents of a Secret come in order, and the stored hash
\* never runs ahead of what was applied, nor that of the Secret.
HashOK ==
  /\ mr.secretHash <= secret.content
  /\ row # NoRow => mr.secretHash <= row.secret /\ row.secret <= secret.content
  /\ pc \in {"send", "save"} =>
       mr.secretHash <= att.content /\ att.content <= secret.content
  /\ pc = "save" /\ row # NoRow => att.content <= row.secret

LEMMA Contents ==
  ASSUME Typed
  PROVE  /\ mr.secretHash \in Nat /\ secret.content \in Nat
         /\ row # NoRow => row.secret \in Nat
         /\ pc \in {"send", "save"} => att.content \in Nat
         /\ NoRow \notin Rows
  BY Bounds, Sentinels
  DEF Typed, WorldOK, ControlOK, ContentIds, MRs, Rows

\* Until a request is built, nothing the hash is about moves.
LEMMA HashKept ==
  ASSUME HashOK, UNCHANGED <<secret, row>>, pc' \notin {"send", "save"},
         mr'.secretHash = mr.secretHash
  PROVE  HashOK'
  BY DEF HashOK

LEMMA SavesStatus ==
  ASSUME WorldOK, Saves([mr EXCEPT !.ws = TRUE])
  PROVE  /\ mr'.secretHash = mr.secretHash /\ mr'.spec = mr.spec
         /\ mr'.phase = mr.phase
  BY DEF WorldOK, MRs, Saves

\* What one reconcile's Observe leaves alone.
LEMMA ObserveLeaves ==
  ASSUME Typed, Observe
  PROVE  /\ UNCHANGED <<secret, row>> /\ pc' \notin {"send", "save"}
         /\ mr'.secretHash = mr.secretHash /\ mr'.spec = mr.spec
  <1>1. UNCHANGED <<secret, row>>
    BY DEF Observe, Reconcile, ObserveAbsent, ObserveFails, ObserveRow
  <1>2. mr \in MRs
    BY DEF Typed, WorldOK
  <1>3. ASSUME Absent
        PROVE  pc' \notin {"send", "save"} /\ mr'.secretHash = mr.secretHash
               /\ mr'.spec = mr.spec
    BY <1>2, <1>3 DEF Absent, Finish, MRs
  <1>4. CASE Reconcile
    BY <1>1, <1>4 DEF Reconcile, Guarded
  <1>5. CASE ObserveAbsent
    BY <1>1, <1>3, <1>5 DEF ObserveAbsent
  <1>6. CASE ObserveFails
    <2>1. \/ Absent
          \/ (Goto("delete") \/ Finish) /\ UNCHANGED mr
      BY <1>6 DEF ObserveFails, Fails
    <2> QED BY <1>1, <1>3, <2>1 DEF Goto, Finish
  <1>7. CASE ObserveRow
    <2>1. \/ Saves([mr EXCEPT !.ws = TRUE]) /\ Finish
          \/ pc' \in {"delete", "apply"} /\ UNCHANGED mr
      BY <1>7 DEF ObserveRow, Guarded
    <2> QED BY <1>1, <2>1, SavesStatus DEF Typed, Finish
  <1> QED BY <1>4, <1>5, <1>6, <1>7 DEF Observe

LEMMA WriteKeepsHash ==
  ASSUME Typed, HashOK, Write
  PROVE  HashOK'
  <1> USE Contents
  <1>1. CASE ApplyRejects
    BY <1>1, HashKept DEF ApplyRejects, Finish
  <1>2. CASE BuildRequest
    <2>1. att'.content = secret.content /\ pc' = "send" /\ UNCHANGED <<mr, secret, row>>
      BY <1>2 DEF BuildRequest, Typed, ControlOK, Attempts
    <2> QED BY <2>1 DEF HashOK
  <1>3. CASE Apply
    <2>1. row'.secret = att.content /\ UNCHANGED <<mr, secret, att>>
      BY <1>3 DEF Apply, Applied, Goto
    <2>2. mr.secretHash <= att.content /\ att.content <= secret.content
      BY <1>3 DEF Apply, HashOK
    <2> QED BY <1>3, <2>1, <2>2 DEF Apply, Goto, HashOK
  <1>4. CASE ApplyFails
    <2>1. pc' = "idle" /\ UNCHANGED <<mr, secret>>
      BY <1>4 DEF ApplyFails, Finish
    <2>2. UNCHANGED row \/ row'.secret = att.content
      BY <1>4 DEF ApplyFails, Applied
    <2> QED BY <1>4, <2>1, <2>2 DEF ApplyFails, HashOK
  <1>5. CASE SaveHashes
    <2>1. /\ pc' = "idle" /\ UNCHANGED <<secret, row>>
          /\ mr'.secretHash = mr.secretHash \/ mr'.secretHash = att.content
      BY <1>5 DEF SaveHashes, Saves, Finish, Typed, WorldOK, MRs
    <2> QED BY <1>5, <2>1 DEF SaveHashes, HashOK
  <1> QED BY <1>1, <1>2, <1>3, <1>4, <1>5 DEF Write

LEMMA RestKeepsHash ==
  ASSUME Typed, HashOK, Delete \/ Environment
  PROVE  HashOK'
  <1>1. CASE Delete
    BY <1>1 DEF Delete, Finish, HashOK
  <1>2. CASE EditSpec \/ RequestDelete
    BY <1>2 DEF EditSpec, RequestDelete, Typed, WorldOK, MRs, HashOK
  <1>3. CASE SecretChanges
    <2>1. secret'.content \in Nat /\ secret.content <= secret'.content
      BY <1>3, Bounds, Contents DEF SecretChanges
    <2> QED BY <1>3, <2>1, Contents DEF SecretChanges, HashOK
  <1>4. CASE PlatformEdited
    <2>1. row' = NoRow \/ row'.secret = row.secret
      BY <1>4 DEF PlatformEdited, Typed, WorldOK, Rows
    <2> QED BY <1>4, <2>1 DEF PlatformEdited, HashOK
  <1>5. CASE Crash
    BY <1>5 DEF Crash, Finish, HashOK
  <1> QED BY <1>1, <1>2, <1>3, <1>4, <1>5 DEF Environment

\* A secret hash that agrees with the Secret as it is means that the instance was
\* sent that content (kargoinstance.go:486), whatever happens between the Apply and
\* the save of the status.
THEOREM HashIsApplied == Spec => []HashIsWhatWasApplied
<1>1. Init => HashOK
  BY Bounds DEF Init, HashOK
<1>2. Typed /\ HashOK /\ [Next]_vars => HashOK'
  <2> SUFFICES ASSUME Typed, HashOK, [Next]_vars PROVE HashOK'
    OBVIOUS
  <2>1. CASE Observe
    BY <2>1, ObserveLeaves, HashKept
  <2>2. CASE UNCHANGED vars
    BY <2>2 DEF vars, HashOK
  <2> QED BY <2>1, <2>2, WriteKeepsHash, RestKeepsHash DEF Next, Step
<1>3. Typed /\ HashOK => HashIsWhatWasApplied
  <2> SUFFICES ASSUME Typed, HashOK, row # NoRow, mr.secretHash = secret.content
               PROVE  row.secret = secret.content
    BY DEF HashIsWhatWasApplied
  <2> QED BY Contents DEF HashOK
<1> QED BY <1>1, <1>2, <1>3, AlwaysTyped, PTL DEF Spec

-------------------------------------------------------------------------------
(* What is on record is neither read nor written again *)

\* The MR still asks for what was refused.
Standing == failed # NoFailure /\ failed.current

AskedFor == Fingerprint(mr.spec, secret.content)

\* What a reconcile has seen of the MR it works on.
AttemptOK ==
  pc # "idle" =>
    /\ att.deleting => mr.phase # "live" /\ pc \in {"get", "delete"}
    /\ pc = "delete" => att.deleting
    /\ pc \in {"send", "save"} => att.spec \notin Malformed

\* What the MR asks for has a key and is on record; a reconcile that has got past
\* the guard nevertheless was let through without being asked.
OnFile ==
  /\ secret.there /\ mr.spec \notin Malformed \cap Named
  /\ pc = "idle" /\ mr.phase = "live" => Holds(entries, AskedFor)
  /\ pc # "idle" /\ ~att.deleting =>
       att.passed /\ att.spec = mr.spec /\ Holds(entries, AskedFor)

\* The strengthening, for a rejected write and for a rejected read.
StandingOK ==
  Standing => failed.fingerprint = AskedFor /\ mr.spec \notin Malformed /\ OnFile
UnreadOK ==
  unread => OnFile /\ (pc # "idle" /\ ~att.deleting => pc = "get")

RecordInv == AttemptOK /\ StandingOK /\ UnreadOK

LEMMA EntriesAreMine ==
  ASSUME Typed
  PROVE  OwnEntries(entries, me)
  BY DEF Typed, EntriesOK, WellFormed, OwnEntries

\* A live MR's request on record is answered from the map, or not asked about.
LEMMA AskGuard ==
  ASSUME Typed, NEW a, ~a.deleting, secret.there, a.spec \notin Malformed \cap Named,
         Holds(entries, Fingerprint(a.spec, secret.content)),
         NEW n, NEW Suppressed \in BOOLEAN, NEW Otherwise \in BOOLEAN,
         NEW PassedOver \in BOOLEAN,
         Guarded(a, n, Suppressed, Otherwise, PassedOver)
  PROVE  UNCHANGED entries /\ (Suppressed \/ PassedOver)
  <1> DEFINE key == Key(me, Fingerprint(a.spec, secret.content))
  <1>1. /\ Suppresses(entries, key, a.deleting)
        /\ AfterSuppress(entries, key, a.deleting) = entries
    BY AskedOnce, EntriesAreMine
  <1> QED BY <1>1 DEF Guarded, HasKey

\* A step of a reconcile that leaves the map and the MR's copy alone.
LEMMA OnFileKept ==
  ASSUME AttemptOK, OnFile, pc # "idle", UNCHANGED <<secret, entries>>,
         mr'.spec = mr.spec, mr'.phase = "live" => mr.phase = "live",
         \/ pc' = "idle"
         \/ /\ pc' # "idle" /\ att'.spec = att.spec /\ att'.deleting = att.deleting
            /\ att.passed => att'.passed
  PROVE  OnFile'
  BY DEF AttemptOK, OnFile, AskedFor

LEMMA InitRecord == Init => RecordInv
  BY DEF Init, RecordInv, AttemptOK, StandingOK, UnreadOK, Standing

LEMMA ReconcileRecord ==
  ASSUME Typed, RecordInv, Reconcile
  PROVE  RecordInv'
  <1> DEFINE goOn(a) == pc' = "get" /\ att' = a
  <1>1. /\ pc = "idle" /\ mr.phase \in {"live", "deleting"}
        /\ UNCHANGED <<mr, secret, failed, unread>>
        /\ \/ /\ Remembers
              /\ Guarded(Copy, 0, UNCHANGED <<pc, att>>, goOn(Copy), goOn(Passing(Copy)))
           \/ ~Remembers /\ goOn(Copy) /\ UNCHANGED entries
    BY DEF Reconcile, history, Typed, WorldOK, MRs
  <1>2. /\ Copy.spec = mr.spec /\ Copy.deleting = (mr.phase = "deleting")
        /\ Passing(Copy).spec = mr.spec /\ Passing(Copy).deleting = (mr.phase = "deleting")
        /\ Passing(Copy).passed
    BY DEF Copy, Passing
  <1>3. UNCHANGED <<pc, att>> \/ goOn(Copy) \/ goOn(Passing(Copy))
    BY <1>1 DEF Guarded
  <1>4. AttemptOK'
    BY <1>1, <1>2, <1>3 DEF RecordInv, AttemptOK
  <1>5. OnFile => OnFile'
    <2> SUFFICES ASSUME OnFile PROVE OnFile'
      OBVIOUS
    <2>1. CASE mr.phase = "deleting"
      BY <1>1, <1>2, <1>3, <2>1 DEF OnFile
    <2>2. CASE mr.phase = "live"
      <3>1. ~Copy.deleting /\ Holds(entries, Fingerprint(Copy.spec, secret.content))
        BY <1>1, <1>2, <2>2 DEF OnFile, AskedFor
      <3>2. Remembers
        <4>1. Without(entries, me) = {}
          BY SweptEmpty, EntriesAreMine
        <4> QED BY <3>1, <4>1 DEF Holds, Remembers
      <3>3. UNCHANGED entries /\ (UNCHANGED <<pc, att>> \/ goOn(Passing(Copy)))
        BY <1>1, <1>2, <3>1, <3>2, AskGuard DEF OnFile
      <3> QED BY <1>1, <1>2, <2>2, <3>3 DEF OnFile, AskedFor
    <2> QED BY <1>1, <2>1, <2>2
  <1> QED BY <1>1, <1>3, <1>4, <1>5
      DEF RecordInv, StandingOK, UnreadOK, Standing, AskedFor

LEMMA AbsentRecord ==
  ASSUME Typed, RecordInv, pc = "get", Absent, unread' = FALSE,
         UNCHANGED <<secret, entries, failed>>
  PROVE  RecordInv'
  <1>1. att \in Attempts /\ mr \in MRs
    BY DEF Typed, ControlOK, WorldOK
  <1>2. /\ mr'.spec = mr.spec /\ (mr'.phase = "live" => mr.phase = "live")
        /\ \/ pc' = "idle"
           \/ /\ pc' = "apply" /\ ~att.deleting
              /\ att'.spec = att.spec /\ att'.deleting = att.deleting
              /\ att'.passed = att.passed
    BY <1>1 DEF Absent, Finish, Attempts, MRs
  <1>3. AttemptOK'
    BY <1>2 DEF AttemptOK
  <1>4. OnFile => OnFile'
    BY <1>2, OnFileKept DEF RecordInv
  <1> QED BY <1>2, <1>3, <1>4 DEF RecordInv, StandingOK, UnreadOK, Standing, AskedFor

\* A rejected read of an MR that has a key goes on record.
LEMMA RejectedRecord ==
  ASSUME Typed, RecordInv, pc = "get", NEW err \in Error,
         RecordTerminalObserve(err),
         unread' = IF HasKey(att) /\ IsTerminal(err) THEN Fresh ELSE unread,
         Finish, UNCHANGED <<mr, secret, failed>>
  PROVE  RecordInv'
  <1>1. pc' = "idle"
    BY DEF Finish
  <1>2. AttemptOK'
    BY <1>1 DEF AttemptOK
  <1>3. CASE ~(HasKey(att) /\ IsTerminal(err))
    <2>1. UNCHANGED <<entries, unread>>
      BY <1>3 DEF RecordTerminalObserve, Recorded
    <2>2. OnFile => OnFile'
      BY <1>1, <2>1, OnFileKept DEF RecordInv
    <2> QED BY <1>1, <1>2, <2>1, <2>2
        DEF RecordInv, StandingOK, UnreadOK, Standing, AskedFor
  <1>4. CASE HasKey(att) /\ IsTerminal(err)
    <2>1. entries' = {[key |-> Key(me, Fingerprint(att.spec, secret.content)),
                       err |-> err]}
      BY <1>4, RecordedOnly, EntriesAreMine DEF RecordTerminalObserve
    <2>2. Holds(entries', Fingerprint(att.spec, secret.content))
      BY <2>1, KeyOfObject DEF Holds
    <2>3. mr.spec = att.spec => OnFile'
      BY <1>1, <1>4, <2>2 DEF OnFile, HasKey, AskedFor
    <2>4. OnFile => OnFile'
      BY <1>1, <2>3 DEF OnFile, RecordInv, AttemptOK
    <2>5. UnreadOK'
      BY <1>1, <1>4, <2>3 DEF Fresh, UnreadOK
    <2>6. StandingOK'
      BY <2>4 DEF RecordInv, StandingOK, Standing, AskedFor
    <2> QED BY <1>2, <2>5, <2>6 DEF RecordInv
  <1> QED BY <1>3, <1>4

LEMMA FailsRecord ==
  ASSUME Typed, RecordInv, ObserveFails
  PROVE  RecordInv'
  <1>1. PICK err \in Error : Fails(err)
    BY RejectionType, FaultsAreErrors DEF ObserveFails
  <1>2. pc = "get" /\ UNCHANGED <<secret, failed>>
    BY DEF ObserveFails
  <1>3. CASE GetOutcome(err) = "absent"
    BY <1>1, <1>2, <1>3, AbsentRecord DEF Fails
  <1>4. CASE GetOutcome(err) = "provisioning"
    <2>1. /\ UNCHANGED <<mr, entries, unread>>
          /\ \/ pc' = "idle"
             \/ pc' = "delete" /\ att.deleting /\ UNCHANGED att
      BY <1>1, <1>4 DEF Fails, Goto, Finish
    <2>2. AttemptOK'
      BY <1>2, <2>1 DEF RecordInv, AttemptOK
    <2>3. OnFile => OnFile'
      BY <1>2, <2>1, OnFileKept DEF RecordInv
    <2> QED BY <1>2, <2>1, <2>2, <2>3
        DEF RecordInv, StandingOK, UnreadOK, Standing, AskedFor
  <1>5. CASE GetOutcome(err) \notin {"absent", "provisioning"}
    BY <1>1, <1>2, <1>5, RejectedRecord, ClassifiedErrors DEF Fails
  <1> QED BY <1>3, <1>4, <1>5

LEMMA RowRecord ==
  ASSUME Typed, RecordInv, ObserveRow
  PROVE  RecordInv'
  <1> DEFINE known == [att EXCEPT !.ws = TRUE]
             settle == Saves([mr EXCEPT !.ws = TRUE]) /\ Finish
             write(a) == /\ pc' = IF a.deleting THEN "delete" ELSE "apply"
                         /\ att' = a
                         /\ UNCHANGED mr
  <1>1. /\ pc = "get" /\ att \in Attempts /\ mr \in MRs
        /\ UNCHANGED secret /\ unread' = FALSE
    BY DEF ObserveRow, Typed, ControlOK, WorldOK
  <1>2. PICK n \in {0, 1} :
           \/ /\ Guarded(known, n, settle, write(known), write(Passing(known)))
              /\ UNCHANGED failed
           \/ /\ entries' = IF HasKey(known) THEN Without(entries, me) ELSE entries
              /\ failed' = IF HasKey(known) THEN Superseded ELSE failed
              /\ write(known) \/ settle
    BY DEF ObserveRow
  <1>3. /\ known.spec = att.spec /\ known.deleting = att.deleting
        /\ Passing(known).spec = att.spec /\ Passing(known).deleting = att.deleting
        /\ Passing(known).passed
    BY <1>1 DEF Passing, Attempts
  <1>4. settle \/ write(known) \/ write(Passing(known))
    BY <1>2 DEF Guarded
  <1>5. /\ mr'.spec = mr.spec /\ mr'.phase = mr.phase
        /\ \/ pc' = "idle"
           \/ /\ pc' = (IF att.deleting THEN "delete" ELSE "apply")
              /\ att'.spec = att.spec /\ att'.deleting = att.deleting
    BY <1>3, <1>4, SavesStatus DEF Typed, Finish
  <1>6. AttemptOK'
    BY <1>1, <1>5 DEF RecordInv, AttemptOK
  <1>7. UnreadOK'
    BY <1>1 DEF UnreadOK
  <1>8. StandingOK'
    <2> SUFFICES ASSUME Standing' PROVE StandingOK'
      BY DEF StandingOK
    <2>1. UNCHANGED failed \/ failed' = Superseded
      BY <1>2
    <2>2. UNCHANGED failed /\ Standing
      BY <2>1 DEF Standing, Superseded, Typed, HistoryOK, Failures
    <2>3. failed.fingerprint = AskedFor /\ mr.spec \notin Malformed /\ OnFile
      BY <2>2 DEF RecordInv, StandingOK
    <2>4. OnFile'
      <3>1. CASE att.deleting
        BY <1>1, <1>5, <2>3, <3>1 DEF OnFile, RecordInv, AttemptOK
      <3>2. CASE ~att.deleting
        <4>1. /\ att.spec = mr.spec /\ HasKey(known)
              /\ Holds(entries, Fingerprint(known.spec, secret.content))
          BY <1>1, <1>3, <2>3, <3>2 DEF OnFile, HasKey, AskedFor
        <4>2. failed # Superseded
          BY <2>2 DEF Standing, Superseded, Typed, HistoryOK, Failures
        <4>3. Guarded(known, n, settle, write(known), write(Passing(known)))
          BY <1>2, <2>2, <4>1, <4>2
        <4>4. UNCHANGED entries /\ (settle \/ write(Passing(known)))
          BY <1>3, <3>2, <4>1, <4>3, AskGuard DEF HasKey
        <4>5. pc' = "idle" \/ (pc' # "idle" /\ att'.passed)
          BY <1>3, <4>4 DEF Finish
        <4> QED BY <1>1, <1>5, <2>3, <4>4, <4>5, OnFileKept DEF RecordInv
      <3> QED BY <3>1, <3>2
    <2> QED BY <1>1, <1>5, <2>2, <2>3, <2>4 DEF StandingOK, AskedFor
  <1> QED BY <1>6, <1>7, <1>8 DEF RecordInv

\* What has been superseded stands no longer.
LEMMA SupersededFalls ==
  ASSUME Typed, failed' = Superseded
  PROVE  ~Standing'
  BY DEF Standing, Superseded, Typed, HistoryOK, Failures

LEMMA WriteRecord ==
  ASSUME Typed, RecordInv, Write
  PROVE  RecordInv'
  <1>1. pc \in {"apply", "send", "save"} /\ att \in Attempts /\ UNCHANGED <<secret, unread>>
    BY DEF Write, ApplyRejects, BuildRequest, Apply, ApplyFails, SaveHashes, history,
           Typed, ControlOK
  <1>2. ~att.deleting /\ ~unread
    BY <1>1 DEF RecordInv, AttemptOK, UnreadOK
  <1>3. UnreadOK'
    BY <1>1, <1>2 DEF UnreadOK
  <1>4. CASE ApplyRejects \/ SaveHashes
    <2>1. /\ pc' = "idle" /\ UNCHANGED <<secret, entries, failed>>
          /\ mr'.spec = mr.spec /\ mr'.phase = mr.phase
      BY <1>4 DEF ApplyRejects, SaveHashes, history, Finish, Saves, Typed, WorldOK, MRs
    <2>2. OnFile => OnFile'
      BY <1>1, <2>1, OnFileKept DEF RecordInv
    <2> QED BY <1>3, <2>1, <2>2
        DEF RecordInv, AttemptOK, StandingOK, Standing, AskedFor
  <1>5. CASE BuildRequest
    <2>1. /\ pc' = "send" /\ UNCHANGED <<mr, secret, entries, failed>>
          /\ att.spec \notin Malformed /\ att'.spec = att.spec
          /\ att'.deleting = att.deleting /\ att'.passed = att.passed
      BY <1>1, <1>5 DEF BuildRequest, history, Attempts
    <2>2. AttemptOK'
      BY <1>2, <2>1 DEF AttemptOK
    <2>3. OnFile => OnFile'
      BY <1>1, <2>1, OnFileKept DEF RecordInv
    <2> QED BY <1>3, <2>1, <2>2, <2>3 DEF RecordInv, StandingOK, Standing, AskedFor
  <1>6. CASE Apply
    <2>1. AttemptOK'
      BY <1>6 DEF Apply, Goto, RecordInv, AttemptOK
    <2>2. ~Standing'
      BY <1>6, SupersededFalls DEF Apply
    <2> QED BY <1>3, <2>1, <2>2 DEF RecordInv, StandingOK
  <1>7. CASE ApplyFails
    <2>1. PICK err \in Error : Recording(err)
      BY <1>7, WriteErrors DEF ApplyFails
    <2>2. pc = "send" /\ pc' = "idle" /\ UNCHANGED <<mr, secret>>
      BY <1>7 DEF ApplyFails, Finish
    <2>3. AttemptOK'
      BY <2>2 DEF AttemptOK
    <2>4. CASE ~IsTerminal(err)
      BY <1>3, <2>1, <2>3, <2>4, SupersededFalls DEF Recording, RecordInv, StandingOK
    <2>5. CASE IsTerminal(err)
      <3>1. /\ failed'.fingerprint = Sent
            /\ failed'.current = (Fresh /\ secret = [content |-> att.content, there |-> TRUE])
        BY <2>1, <2>5 DEF Recording
      <3>2. entries' = {[key |-> Key(me, Sent), err |-> err]}
        BY <2>1, <2>5, RecordedOnly, EntriesAreMine DEF Recording
      <3>3. Holds(entries', Sent)
        BY <3>2, KeyOfObject DEF Holds
      <3>4. att.spec \notin Malformed
        BY <2>2 DEF RecordInv, AttemptOK
      <3>5. ASSUME Standing'
            PROVE  Sent = AskedFor /\ secret.there /\ mr.spec = att.spec
        <4>1. Fresh /\ secret = [content |-> att.content, there |-> TRUE]
          BY <3>1, <3>5 DEF Standing
        <4> QED BY <4>1 DEF Fresh, Sent, AskedFor
      <3>6. StandingOK'
        <4> SUFFICES ASSUME Standing' PROVE StandingOK'
          BY DEF StandingOK
        <4>1. AskedFor' = AskedFor
          BY <2>2 DEF AskedFor
        <4>2. Sent = AskedFor /\ secret'.there /\ mr'.spec = att.spec
          BY <2>2, <3>5
        <4>3. OnFile'
          BY <2>2, <3>3, <3>4, <4>1, <4>2 DEF OnFile
        <4> QED BY <3>1, <3>4, <4>1, <4>2, <4>3 DEF StandingOK
      <3> QED BY <1>3, <2>3, <3>6 DEF RecordInv
    <2> QED BY <2>4, <2>5
  <1> QED BY <1>4, <1>5, <1>6, <1>7 DEF Write

LEMMA DeleteRecord ==
  ASSUME Typed, RecordInv, Delete
  PROVE  RecordInv'
  <1>1. /\ pc = "delete" /\ pc' = "idle" /\ UNCHANGED <<mr, secret, failed, unread>>
    BY DEF Delete, history, Finish
  <1>2. att.deleting /\ mr'.phase # "live"
    BY <1>1 DEF RecordInv, AttemptOK
  <1>3. OnFile => OnFile'
    BY <1>1, <1>2 DEF OnFile
  <1> QED BY <1>1, <1>3
      DEF RecordInv, AttemptOK, StandingOK, UnreadOK, Standing, AskedFor

\* Whatever changes what the MR asks for outdates the records; a deletion takes the
\* MR from the next reconcile on.
LEMMA EnvironmentRecord ==
  ASSUME Typed, RecordInv, Environment
  PROVE  RecordInv'
  <1>1. CASE RequestDelete
    <2>1. /\ mr'.spec = mr.spec /\ mr.phase = "live" /\ mr'.phase = "deleting"
          /\ UNCHANGED <<secret, entries, pc, att, failed, unread>>
      BY <1>1 DEF RequestDelete, history, Typed, WorldOK, MRs
    <2>2. OnFile => OnFile'
      BY <2>1 DEF OnFile, AskedFor
    <2> QED BY <2>1, <2>2
        DEF RecordInv, AttemptOK, StandingOK, UnreadOK, Standing, AskedFor
  <1>2. CASE Outdated
    <2>1. ~Standing' /\ ~unread'
      BY <1>2, SupersededFalls DEF Outdated
    <2>2. \/ pc' = "idle"
          \/ UNCHANGED <<pc, att>> /\ (mr.phase # "live" => mr'.phase # "live")
      BY DEF Environment, EditSpec, RequestDelete, SecretChanges, PlatformEdited, Crash,
             Finish, Typed, WorldOK, MRs
    <2> QED BY <2>1, <2>2 DEF RecordInv, AttemptOK, StandingOK, UnreadOK
  <1> QED BY <1>1, <1>2
      DEF Environment, EditSpec, SecretChanges, PlatformEdited, Crash

LEMMA AlwaysRecorded == Spec => []RecordInv
<1>1. Typed /\ RecordInv /\ [Next]_vars => RecordInv'
  <2> SUFFICES ASSUME Typed, RecordInv, [Next]_vars PROVE RecordInv'
    OBVIOUS
  <2>1. CASE Reconcile
    BY <2>1, ReconcileRecord
  <2>2. CASE ObserveAbsent
    BY <2>2, AbsentRecord DEF ObserveAbsent
  <2>3. CASE ObserveFails
    BY <2>3, FailsRecord
  <2>4. CASE ObserveRow
    BY <2>4, RowRecord
  <2>5. CASE UNCHANGED vars
    BY <2>5 DEF vars, history, RecordInv, AttemptOK, StandingOK, UnreadOK, Standing,
                OnFile, AskedFor
  <2> QED BY <2>1, <2>2, <2>3, <2>4, <2>5, WriteRecord, DeleteRecord, EnvironmentRecord
      DEF Next, Step, Observe
<1> QED BY <1>1, InitRecord, AlwaysTyped, PTL DEF Spec

\* As long as the spec, the Secret and the instance stay as they are, a request on
\* record is sent again only by a reconcile that was let past the guard
\* (kargoinstance.go:233).
THEOREM RefusedIsNotRetried == Spec => []NoIdenticalRetry
<1>1. RecordInv => NoIdenticalRetry
  <2> SUFFICES ASSUME RecordInv, pc = "send", Standing PROVE att.passed
    BY DEF NoIdenticalRetry, Standing
  <2> QED BY DEF RecordInv, AttemptOK, StandingOK, OnFile
<1> QED BY <1>1, AlwaysRecorded, PTL

\* Nor is a read that has been rejected made again (kargoinstance.go:523).
THEOREM RejectedIsNotReread == Spec => []NoIdenticalRead
<1>1. RecordInv => NoIdenticalRead
  BY DEF RecordInv, UnreadOK, OnFile, NoIdenticalRead
<1> QED BY <1>1, AlwaysRecorded, PTL
===============================================================================
