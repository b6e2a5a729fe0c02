----------------------------- MODULE InstanceProofs -----------------------------
(***************************************************************************)
(* Proofs about the reconciliation of an Instance MR, for all sets of      *)
(* specs, contents of the Secret and values of the ConfigMap.              *)
(***************************************************************************)
EXTENDS Instance, GuardLemmas

-------------------------------------------------------------------------------
(* Type correctness *)

Fingerprints == {Fingerprint(r, o) : r \in Requests, o \in {1, 2}}

Attempts == [spec : Specs, deleting : BOOLEAN, creating : BOOLEAN,
             request : Requests, order : {1, 2}]
Failures == [request : Requests, creating : BOOLEAN, current : BOOLEAN]
Rows == [spec : Specs, secret : ContentIds, cm : Values, child : BOOLEAN]

LEMMA RequestType ==
  ASSUME NEW spec \in Specs, NEW content \in ContentIds, NEW cm \in Values
  PROVE  Request(spec, content, cm) \in Requests
  BY ConfigMaps DEF Request, Requests

LEMMA OrderType ==
  ASSUME NEW spec
  PROVE  Orders(spec) \subseteq {1, 2}
  BY DEF Orders

\* The entries of the guard, as GuardLemmas speaks of them.
EntriesOK == WellFormed(entries, me, Fingerprints)
ControlOK ==
  /\ pc \in {"idle", "get", "build", "apply", "save", "delete"}
  /\ att \in IF pc = "idle" THEN {NoAttempt} ELSE Attempts
WorldOK ==
  /\ mr \in [phase : {"live", "deleting", "gone"}, spec : Specs, hash : {0} \cup ContentIds]
  /\ secret \in [content : ContentIds, there : BOOLEAN]
  /\ row \in Rows \cup {NoRow}
HistoryOK == failed \in Failures \cup {NoFailure}

LEMMA TypeParts ==
  /\ TypeOK <=> EntriesOK /\ ControlOK /\ WorldOK /\ HistoryOK /\ spent \in Nat
  /\ TypeOK' <=> EntriesOK' /\ ControlOK' /\ WorldOK' /\ HistoryOK' /\ spent' \in Nat
  <1> DEFINE Typed(es) ==
               \A e \in es : /\ \E r \in Requests, o \in {1, 2} :
                                  e.key = Key(me, Fingerprint(r, o))
                             /\ e.err \in Error /\ IsTerminal(e.err)
  <1>1. /\ EntriesOK <=> Typed(entries)
        /\ EntriesOK' <=> Typed(entries')
    BY DEF EntriesOK, WellFormed, Fingerprints
  <1> QED BY <1>1 DEF TypeOK, ControlOK, WorldOK, HistoryOK, Attempts, Failures, Rows

\* The guard is asked about a typed request: the map stays well-formed, whether
\* the answer ends the reconcile or not.
LEMMA GuardedType ==
  ASSUME TypeOK, NEW r \in Requests, NEW Otherwise \in BOOLEAN,
         Guarded(r, Otherwise)
  PROVE  EntriesOK' /\ (Otherwise \/ (Finish /\ UNCHANGED mr))
  <1>1. CASE ~secret.there
    BY <1>1, TypeParts DEF Guarded, EntriesOK
  <1>2. CASE secret.there
    <2>1. PICK order \in Orders(r.spec) :
             LET key == Key(me, Fingerprint(r, order)) IN
               /\ entries' = AfterSuppress(entries, key, att.deleting)
               /\ IF Suppresses(entries, key, att.deleting)
                  THEN Finish /\ UNCHANGED mr ELSE Otherwise
      BY <1>2 DEF Guarded
    <2>2. Fingerprint(r, order) \in Fingerprints
      BY OrderType DEF Fingerprints
    <2>3. AsTerminal(Opaque({})) \in Error
      BY BareErrors
    <2>4. EntriesOK'
      BY <2>1, <2>2, <2>3, TypeParts, EntriesStay DEF EntriesOK
    <2> QED BY <2>1, <2>4
  <1> QED BY <1>1, <1>2

LEMMA FinishType ==
  ASSUME Finish
  PROVE  ControlOK'
  BY DEF Finish, ControlOK

\* RecordTerminalWrite, and the reconcile ends.
LEMMA GiveUpType ==
  ASSUME TypeOK, pc # "idle", NEW err \in Error, GiveUp(err)
  PROVE  EntriesOK' /\ ControlOK' /\ HistoryOK'
  <1>1. att \in Attempts
    BY TypeParts DEF ControlOK
  <1>2. Fingerprint(att.request, att.order) \in Fingerprints
    BY <1>1 DEF Fingerprints, Attempts
  <1>3. EntriesOK'
    BY <1>2, TypeParts, EntriesStay DEF GiveUp, EntriesOK
  <1>4. HistoryOK'
    BY <1>1, TypeParts DEF GiveUp, HistoryOK, Failures, Attempts
  <1> QED BY <1>3, <1>4, FinishType DEF GiveUp

LEMMA AppliedType ==
  ASSUME TypeOK, pc # "idle", Applied
  PROVE  row' \in Rows
  <1>1. att \in Attempts
    BY TypeParts DEF ControlOK
  <1> QED BY <1>1, ConfigMaps DEF Applied, Rows, Attempts, Requests

\* The MR, its finalizer and its copy in the reconcile, when the instance is absent.
LEMMA AbsentType ==
  ASSUME TypeOK, pc = "get", Absent
  PROVE  /\ EntriesOK' /\ ControlOK'
         /\ mr' \in [phase : {"live", "deleting", "gone"}, spec : Specs,
                     hash : {0} \cup ContentIds]
  <1> DEFINE Asked == Request(att.spec, secret.content, Default)
             Goes == IF att.deleting
                     THEN mr' = [mr EXCEPT !.phase = "gone"] /\ Finish
                     ELSE /\ pc' = "build"
                          /\ att' = [att EXCEPT !.creating = TRUE]
                          /\ UNCHANGED mr
  <1>1. att \in Attempts /\ secret.content \in ContentIds /\ Default \in Values
    BY TypeParts, ConfigMaps DEF ControlOK, WorldOK
  <1>2. Asked \in Requests
    BY <1>1, RequestType DEF Attempts
  <1>3. Guarded(Asked, Goes)
    BY DEF Absent
  <1>4. EntriesOK' /\ (Goes \/ (Finish /\ UNCHANGED mr))
    BY <1>2, <1>3, GuardedType
  <1>5. CASE Goes
    BY <1>1, <1>4, <1>5, TypeParts, FinishType DEF WorldOK, ControlOK, Attempts
  <1>6. CASE Finish /\ UNCHANGED mr
    BY <1>4, <1>6, TypeParts, FinishType DEF WorldOK
  <1> QED BY <1>4, <1>5, <1>6

LEMMA InitType == Init => TypeOK
  <1>1. 1 \in ContentIds
    BY Bounds DEF ContentIds
  <1> QED
    BY <1>1 DEF Init, TypeOK

LEMMA ObserveType ==
  ASSUME TypeOK, Observe
  PROVE  TypeOK'
  <1> USE TypeParts
  <1>1. CASE Reconcile
    <2>1. mr.spec \in Specs /\ secret.content \in ContentIds /\ Default \in Values
      BY ConfigMaps DEF WorldOK
    <2>2. Request(mr.spec, secret.content, Default) \in Requests
      BY <2>1, RequestType
    <2>3. ControlOK'
      BY <1>1, <2>1, <2>2 DEF Reconcile, ControlOK, Attempts
    <2> QED BY <1>1, <2>3 DEF Reconcile, EntriesOK, WorldOK, HistoryOK
  <1>2. CASE ObserveAbsent
    <2>1. UNCHANGED <<secret, row, failed, spent>>
      BY <1>2 DEF ObserveAbsent
    <2> QED BY <1>2, <2>1, AbsentType DEF ObserveAbsent, WorldOK, HistoryOK
  <1>3. CASE ObserveFails
    <2>1. UNCHANGED <<secret, row, failed>> /\ spent' \in Nat
      BY <1>3 DEF ObserveFails, Spend
    <2>2. \/ Absent
          \/ Goto("delete") /\ UNCHANGED <<mr, entries>>
          \/ Finish /\ UNCHANGED <<mr, entries>>
      BY <1>3 DEF ObserveFails
    <2>3. CASE Absent
      BY <1>3, <2>1, <2>3, AbsentType DEF ObserveFails, WorldOK, HistoryOK
    <2>4. CASE Goto("delete") /\ UNCHANGED <<mr, entries>>
      BY <1>3, <2>1, <2>4
      DEF ObserveFails, Goto, ControlOK, WorldOK, HistoryOK, EntriesOK
    <2>5. CASE Finish /\ UNCHANGED <<mr, entries>>
      BY <2>1, <2>5, FinishType DEF WorldOK, HistoryOK, EntriesOK
    <2> QED BY <2>2, <2>3, <2>4, <2>5
  <1>4. CASE ObserveRow
    <2> DEFINE request == Request(att.spec, secret.content, row.cm)
               goTo(step) == /\ pc' = IF att.deleting THEN "delete" ELSE step
                             /\ att' = [att EXCEPT !.request = request]
    <2>1. att \in Attempts /\ secret.content \in ContentIds /\ row.cm \in Values
      BY <1>4 DEF ObserveRow, ControlOK, WorldOK, Rows
    <2>2. request \in Requests
      BY <2>1, RequestType DEF Attempts
    <2>3. UNCHANGED <<mr, secret, row, failed, spent>>
      BY <1>4 DEF ObserveRow
    <2>4. ASSUME NEW step \in {"build", "delete"}, goTo(step) PROVE ControlOK'
      BY <2>1, <2>2, <2>4 DEF ControlOK, Attempts
    <2>5. \/ Finish /\ UNCHANGED entries
          \/ Guarded(request, goTo("build"))
          \/ entries' = Without(entries, me) /\ (goTo("delete") \/ Finish)
      BY <1>4 DEF ObserveRow
    <2>6. EntriesOK' /\ ControlOK'
      <3>1. CASE Finish /\ UNCHANGED entries
        BY <3>1, FinishType DEF EntriesOK
      <3>2. CASE Guarded(request, goTo("build"))
        <4>1. EntriesOK' /\ (goTo("build") \/ (Finish /\ UNCHANGED mr))
          BY <2>2, <3>2, GuardedType
        <4> QED BY <2>4, <4>1, FinishType
      <3>3. CASE entries' = Without(entries, me) /\ (goTo("delete") \/ Finish)
        <4>1. EntriesOK'
          BY <3>3 DEF EntriesOK, WellFormed, Without
        <4> QED BY <2>4, <3>3, <4>1, FinishType
      <3> QED BY <2>5, <3>1, <3>2, <3>3
    <2> QED BY <2>3, <2>6 DEF WorldOK, HistoryOK
  <1> QED BY <1>1, <1>2, <1>3, <1>4 DEF Observe

\* The errors of a write are classified before they are recorded.
LEMMA WriteErrors ==
  /\ ClassifyApplyError(AsTerminal(Opaque({}))) \in Error
  /\ ClassifyApplyError(GatewayError("InvalidArgument", {})) \in Error
  /\ \A f \in WriteFaults : ClassifyApplyError(f) \in Error
  <1>1. GatewayError("InvalidArgument", {}) \in Error
    BY BareErrors DEF Codes
  <1>2. AsTerminal(Opaque({})) \in Error
    BY BareErrors
  <1>3. \A f \in WriteFaults : ClassifyApplyError(f) \in Error
    BY ClassifiedErrors, FaultsAreErrors
  <1> QED BY <1>1, <1>2, <1>3, ClassifiedErrors

LEMMA WriteType ==
  ASSUME TypeOK, Write
  PROVE  TypeOK'
  <1> USE TypeParts
  <1>1. CASE BuildRequest
    <2>1. Orders(att.spec) \subseteq {1, 2} /\ secret.content \in ContentIds
      BY OrderType DEF WorldOK
    <2>2. CASE Finish
      BY <1>1, <2>2, FinishType DEF BuildRequest, EntriesOK, WorldOK, HistoryOK
    <2>3. ASSUME NEW order \in Orders(att.spec), pc' = "apply",
                 att' = [att EXCEPT !.request.secret = secret.content, !.order = order]
          PROVE  ControlOK'
      <3>1. att \in Attempts /\ order \in {1, 2}
        BY <1>1, <2>1 DEF BuildRequest, ControlOK
      <3>2. att'.request \in Requests
        BY <2>1, <2>3, <3>1 DEF Attempts, Requests
      <3> QED BY <2>3, <3>1, <3>2 DEF ControlOK, Attempts
    <2>4. Finish \/ ControlOK'
      BY <1>1, <2>3 DEF BuildRequest
    <2> QED BY <1>1, <2>2, <2>4 DEF BuildRequest, EntriesOK, WorldOK, HistoryOK
  <1>2. CASE Apply
    <2>1. EntriesOK'
      BY <1>2 DEF Apply, EntriesOK, WellFormed, Without
    <2>2. row' \in Rows
      BY <1>2, AppliedType DEF Apply
    <2>3. ControlOK'
      BY <1>2 DEF Apply, Goto, ControlOK
    <2> QED BY <1>2, <2>1, <2>2, <2>3 DEF Apply, WorldOK, HistoryOK
  <1>3. CASE ApplyFails
    <2>1. PICK err \in Error : GiveUp(err)
      BY <1>3, WriteErrors DEF ApplyFails
    <2>2. UNCHANGED row \/ Applied
      BY <1>3 DEF ApplyFails
    <2>3. spent' \in Nat
      BY <1>3 DEF ApplyFails, Spend
    <2>4. EntriesOK' /\ ControlOK' /\ HistoryOK'
      BY <1>3, <2>1, GiveUpType DEF ApplyFails
    <2>5. WorldOK'
      BY <1>3, <2>2, AppliedType DEF ApplyFails, WorldOK
    <2> QED BY <2>3, <2>4, <2>5
  <1>4. CASE SaveHash
    <2>1. mr' \in [phase : {"live", "deleting", "gone"}, spec : Specs,
                   hash : {0} \cup ContentIds]
      BY <1>4 DEF SaveHash, WorldOK, ControlOK, Attempts, Requests
    <2> QED BY <1>4, <2>1, FinishType DEF SaveHash, EntriesOK, WorldOK, HistoryOK
  <1> QED BY <1>1, <1>2, <1>3, <1>4 DEF Write

LEMMA DeleteType ==
  ASSUME TypeOK, Delete
  PROVE  TypeOK'
  <1>1. EntriesOK'
    BY TypeParts DEF Delete, EntriesOK, WellFormed, Without
  <1>2. WorldOK' /\ HistoryOK' /\ ControlOK'
    BY TypeParts, FinishType DEF Delete, WorldOK, HistoryOK
  <1>3. spent' \in Nat
    BY TypeParts DEF Delete, Spend
  <1> QED BY <1>1, <1>2, <1>3, TypeParts

LEMMA EnvironmentType ==
  ASSUME TypeOK, Environment
  PROVE  TypeOK'
  <1> USE TypeParts
  <1>1. Outdated(failed) \in Failures \cup {NoFailure}
    BY DEF HistoryOK, Outdated, Failures
  <1>2. HistoryOK'
    BY <1>1 DEF Environment, EditSpec, RequestDelete, SecretChanges, PlatformEdited,
                Crash, HistoryOK
  <1>3. spent' \in Nat
    BY DEF Environment, EditSpec, RequestDelete, SecretChanges, PlatformEdited, Crash,
           Spend
  <1>4. WorldOK'
    <2>1. CASE EditSpec
      BY <2>1 DEF EditSpec, WorldOK
    <2>2. CASE RequestDelete
      BY <2>2 DEF RequestDelete, WorldOK
    <2>3. CASE SecretChanges
      BY <2>3 DEF SecretChanges, WorldOK
    <2>4. CASE PlatformEdited
      BY <2>4 DEF PlatformEdited, WorldOK, Rows
    <2>5. CASE Crash
      BY <2>5 DEF Crash, WorldOK
    <2> QED BY <2>1, <2>2, <2>3, <2>4, <2>5 DEF Environment
  <1>5. EntriesOK' /\ ControlOK'
    BY FinishType DEF Environment, EditSpec, RequestDelete, SecretChanges,
       PlatformEdited, Crash, EntriesOK, WellFormed, ControlOK
  <1> QED BY <1>2, <1>3, <1>4, <1>5

LEMMA StutterType ==
  ASSUME TypeOK, UNCHANGED vars
  PROVE  TypeOK'
  BY DEF vars, TypeOK

\* Every variable keeps its type, for all specs, contents and values.
THEOREM TypeCorrect == Spec => []TypeOK
<1>1. TypeOK /\ [Next]_vars => TypeOK'
  BY ObserveType, WriteType, DeleteType, EnvironmentType, StutterType DEF Next, Step
<1> QED BY <1>1, InitType, PTL DEF Spec

-------------------------------------------------------------------------------
(* The hash in the status *)

\* The strengthening: the contents of a Secret come in order, and the stored hash
\* never runs ahead of what was applied, nor that of the Secret.
HashOK ==
  /\ mr.hash <= secret.content
  /\ row # NoRow => mr.hash <= row.secret /\ row.secret <= secret.content
  /\ pc \in {"apply", "save"} =>
       mr.hash <= att.request.secret /\ att.request.secret <= secret.content
  /\ pc = "save" /\ row # NoRow => att.request.secret <= row.secret

\* Contents are numbers, and rows are not NoRow.
LEMMA Contents ==
  ASSUME TypeOK
  PROVE  /\ mr.hash \in Nat /\ secret.content \in Nat /\ secret.content >= 1
         /\ row # NoRow => row.secret \in Nat
         /\ pc # "idle" => att \in Attempts /\ att.request.secret \in Nat
         /\ pc' # "idle" /\ TypeOK' => att' \in Attempts
         /\ NoRow \notin Rows
  BY TypeParts, Bounds, Sentinels
  DEF WorldOK, ControlOK, ContentIds, Rows, Attempts, Requests

\* Until a request is built or applied, nothing the hash is about moves.
LEMMA HashKept ==
  ASSUME HashOK, UNCHANGED <<secret, row>>, pc' \notin {"apply", "save"},
         mr'.hash = mr.hash
  PROVE  HashOK'
  BY DEF HashOK

LEMMA ObserveKeepsHash ==
  ASSUME TypeOK, Observe
  PROVE  /\ UNCHANGED <<secret, row>> /\ pc' \notin {"apply", "save"}
         /\ mr'.hash = mr.hash
  <1>1. UNCHANGED <<secret, row>>
    BY DEF Observe, Reconcile, ObserveAbsent, ObserveFails, ObserveRow
  <1>2. Absent => pc' \notin {"apply", "save"} /\ mr'.hash = mr.hash
    <2>1. mr \in [phase : {"live", "deleting", "gone"}, spec : Specs,
                  hash : {0} \cup ContentIds]
      BY TypeParts DEF WorldOK
    <2> QED BY <2>1 DEF Absent, Guarded, Finish
  <1>3. pc' \notin {"apply", "save"} /\ mr'.hash = mr.hash
    BY <1>2 DEF Observe, Reconcile, ObserveAbsent, ObserveFails, ObserveRow, Guarded,
                Finish, Goto
  <1> QED BY <1>1, <1>3

LEMMA WriteKeepsHash ==
  ASSUME TypeOK, HashOK, Write
  PROVE  HashOK'
  <1> USE Contents
  <1>1. CASE BuildRequest
    <2>1. CASE Finish
      BY <1>1, <2>1, HashKept DEF BuildRequest, Finish
    <2>2. CASE pc' = "apply" /\ att'.request.secret = secret.content
      <3>1. UNCHANGED <<mr, secret, row>>
        BY <1>1 DEF BuildRequest
      <3> QED BY <2>2, <3>1 DEF HashOK
    <2>3. ASSUME ~Finish
          PROVE  pc' = "apply" /\ att'.request.secret = secret.content
      <3>1. pc' = "apply" /\ att.request \in Requests
        BY <1>1, <2>3 DEF BuildRequest, Attempts
      <3>2. PICK order : att' = [att EXCEPT !.request.secret = secret.content,
                                            !.order = order]
        BY <1>1, <2>3 DEF BuildRequest
      <3> QED BY <1>1, <3>1, <3>2 DEF BuildRequest, Attempts, Requests
    <2> QED BY <2>1, <2>2, <2>3
  <1>2. CASE Apply
    <2>1. row'.secret = att.request.secret /\ UNCHANGED <<mr, secret, att>>
      BY <1>2 DEF Apply, Applied, Goto
    <2>2. /\ mr.hash <= att.request.secret
          /\ att.request.secret <= secret.content
      BY <1>2 DEF Apply, HashOK
    <2> QED BY <1>2, <2>1, <2>2 DEF Apply, Goto, HashOK
  <1>3. CASE ApplyFails
    <2>1. pc' = "idle" /\ UNCHANGED <<mr, secret>>
      BY <1>3 DEF ApplyFails, GiveUp, Finish
    <2>2. UNCHANGED row \/ row'.secret = att.request.secret
      BY <1>3 DEF ApplyFails, Applied
    <2> QED BY <1>3, <2>1, <2>2 DEF ApplyFails, HashOK
  <1>4. CASE SaveHash
    <2>1. /\ pc' = "idle" /\ UNCHANGED <<secret, row>>
          /\ mr'.hash = mr.hash \/ mr'.hash = att.request.secret
      BY <1>4, TypeParts DEF SaveHash, Finish, WorldOK
    <2> QED BY <1>4, <2>1 DEF SaveHash, HashOK
  <1> QED BY <1>1, <1>2, <1>3, <1>4 DEF Write

LEMMA RestKeepsHash ==
  ASSUME TypeOK, HashOK, ~Reverts, Delete \/ Environment
  PROVE  HashOK'
  <1>1. CASE Delete
    BY <1>1 DEF Delete, Finish, HashOK
  <1>2. CASE EditSpec \/ RequestDelete
    BY <1>2, TypeParts DEF EditSpec, RequestDelete, WorldOK, HashOK
  <1>3. CASE SecretChanges
    <2>1. secret'.content \in Nat /\ secret.content <= secret'.content
      BY <1>3, Bounds DEF SecretChanges, ContentIds
    <2> QED BY <1>3, <2>1, Contents DEF SecretChanges, HashOK
  <1>4. CASE PlatformEdited
    <2>1. row' = NoRow \/ row'.secret = row.secret
      BY <1>4, TypeParts DEF PlatformEdited, WorldOK, Rows
    <2> QED BY <1>4, <2>1 DEF PlatformEdited, HashOK
  <1>5. CASE Crash
    BY <1>5 DEF Crash, Finish, HashOK
  <1> QED BY <1>1, <1>2, <1>3, <1>4, <1>5 DEF Environment

\* A status hash that agrees with the Secret as it is means that the instance was
\* sent that content (instance.go:155), as long as the Secret does not get an old
\* content back.
THEOREM HashIsApplied == Spec => [](~Reverts => HashIsWhatWasApplied)
<1> DEFINE Inv == ~Reverts => HashOK
<1>1. Init => Inv
  BY DEF Init, HashOK
<1>2. TypeOK /\ Inv /\ [Next]_vars => Inv'
  <2> SUFFICES ASSUME TypeOK, HashOK, ~Reverts, [Next]_vars PROVE HashOK'
    OBVIOUS
  <2>1. CASE Observe
    BY <2>1, ObserveKeepsHash, HashKept
  <2>2. CASE UNCHANGED vars
    BY <2>2 DEF vars, HashOK
  <2> QED BY <2>1, <2>2, WriteKeepsHash, RestKeepsHash DEF Next, Step
<1>3. TypeOK /\ HashOK => HashIsWhatWasApplied
  <2> SUFFICES ASSUME TypeOK, HashOK, row # NoRow, mr.hash = secret.content
               PROVE  row.secret = secret.content
    BY DEF HashIsWhatWasApplied
  <2> QED BY Contents DEF HashOK
<1> QED BY <1>1, <1>2, <1>3, TypeCorrect, PTL DEF Spec

-------------------------------------------------------------------------------
(* A refused request is not repeated *)

\* No failed read is taken for "not found".
ReadsTruthful == \A f \in ReadFaults : GetOutcome(f) # "absent"

\* The MR still asks for what was refused.
Standing == failed # NoFailure /\ failed.current

\* The reconcile at work is that of an MR that is going away; between two
\* reconciles, the next one will be.
Doomed == IF pc = "idle" THEN mr.phase # "live" ELSE att.deleting

\* What an Observe would ask for now.
Would ==
  Request(mr.spec, secret.content, IF row = NoRow THEN Default ELSE row.cm)

\* ObserveRow would find nothing to do.
NothingToDo ==
  /\ row # NoRow
  /\ row.spec = mr.spec /\ (mr.spec \in Open \/ row.cm = Own)
  /\ secret.content = mr.hash
  /\ row.child

\* What a reconcile carries from step to step.
AttemptOK ==
  pc # "idle" =>
    /\ att.request.spec = att.spec
    /\ att.spec \notin Open => att.request.cm = Own
    /\ pc = "get" /\ att.spec \in Open => att.request.cm = Default
    /\ att.order = 1
    /\ att.deleting => mr.phase # "live"
    /\ IF pc = "delete" THEN att.deleting
       ELSE pc \in {"build", "apply", "save"} => ~att.deleting

\* The refused request is the one the spec and the Secret call for.
StandingOK ==
  Standing =>
    /\ mr.spec = failed.request.spec
    /\ secret = [content |-> failed.request.secret, there |-> TRUE]
    /\ pc # "idle" => att.spec = mr.spec

\* The strengthening: a request that stands refused is on record, or Observe would
\* ask for another one, or for nothing; and a reconcile that has got past Observe
\* asks for another one.
RefusedIsKnown ==
  Standing /\ ~Doomed =>
    /\ pc \in {"idle", "get"} =>
         \/ Would # failed.request
         \/ Holds(entries, Fingerprint(failed.request, 1))
         \/ NothingToDo
    /\ pc = "build" => att.request.cm = Would.cm
    /\ pc = "apply" => att.request = Would
    /\ pc \in {"build", "apply", "save"} => Would # failed.request

RetryInv == AttemptOK /\ StandingOK /\ RefusedIsKnown

LEMMA EntriesAreMine ==
  ASSUME TypeOK
  PROVE  OwnEntries(entries, me)
  BY TypeParts DEF EntriesOK, WellFormed, OwnEntries

\* With requests that come out the same each time, the guard answers exactly when
\* the request is on record.
LEMMA AskGuard ==
  ASSUME TypeOK, NEW r, Orders(r.spec) = {1}, secret.there,
         NEW Otherwise \in BOOLEAN, Guarded(r, Otherwise)
  PROVE  IF ~att.deleting /\ Holds(entries, Fingerprint(r, 1))
         THEN UNCHANGED entries /\ Finish /\ UNCHANGED mr
         ELSE entries' = {} /\ Otherwise
  <1> DEFINE p == Fingerprint(r, 1)
  <1>1. /\ entries' = AfterSuppress(entries, Key(me, p), att.deleting)
        /\ IF Suppresses(entries, Key(me, p), att.deleting)
           THEN Finish /\ UNCHANGED mr ELSE Otherwise
    BY DEF Guarded
  <1>2. /\ Suppresses(entries, Key(me, p), att.deleting)
             <=> ~att.deleting /\ Holds(entries, p)
        /\ Suppresses(entries, Key(me, p), att.deleting) =>
             AfterSuppress(entries, Key(me, p), att.deleting) = entries
        /\ ~Suppresses(entries, Key(me, p), att.deleting) =>
             AfterSuppress(entries, Key(me, p), att.deleting) = {}
    BY AskedOnce, EntriesAreMine
  <1> QED BY <1>1, <1>2

\* A step that leaves the refused request and what it was for alone.
LEMMA StandingKept ==
  ASSUME StandingOK, UNCHANGED <<secret, failed>>, mr'.spec = mr.spec,
         pc' = "idle" \/ (pc # "idle" /\ att'.spec = att.spec)
  PROVE  StandingOK'
  BY DEF StandingOK, Standing

LEMMA InitRetry == Init => RetryInv
  BY DEF Init, RetryInv, AttemptOK, StandingOK, RefusedIsKnown, Standing

LEMMA ReconcileRetry ==
  ASSUME Specs \subseteq Ordered, TypeOK, RetryInv, Reconcile
  PROVE  RetryInv'
  <1>1. /\ mr.phase \in {"live", "deleting"} /\ att'.deleting = (mr.phase = "deleting")
        /\ att'.spec = mr.spec /\ att'.order = 1 /\ pc' = "get" /\ pc = "idle"
        /\ att'.request = Request(mr.spec, secret.content, Default)
        /\ UNCHANGED <<mr, secret, row, entries, failed>>
    BY TypeParts DEF Reconcile, WorldOK
  <1>2. /\ att'.request.spec = mr.spec
        /\ att'.request.cm = IF mr.spec \in Open THEN Default ELSE Own
    BY <1>1 DEF Request
  <1>3. AttemptOK'
    BY <1>1, <1>2 DEF AttemptOK
  <1>4. StandingOK'
    BY <1>1 DEF RetryInv, StandingOK, Standing
  <1>5. UNCHANGED <<Doomed, Would, NothingToDo, Standing>>
    BY <1>1 DEF Doomed, Would, NothingToDo, Standing
  <1> QED BY <1>1, <1>3, <1>4, <1>5 DEF RetryInv, RefusedIsKnown

\* Observe finds no instance: a live MR is created unless the guard knows better.
LEMMA AbsentRetry ==
  ASSUME Specs \subseteq Ordered, TypeOK, RetryInv, ObserveAbsent
  PROVE  RetryInv'
  <1> DEFINE asked == Request(att.spec, secret.content, Default)
             Goes == IF att.deleting
                     THEN mr' = [mr EXCEPT !.phase = "gone"] /\ Finish
                     ELSE /\ pc' = "build"
                          /\ att' = [att EXCEPT !.creating = TRUE]
                          /\ UNCHANGED mr
  <1>1. /\ pc = "get" /\ row = NoRow /\ att \in Attempts
        /\ UNCHANGED <<secret, row, failed>>
        /\ Guarded(asked, Goes)
    BY TypeParts DEF ObserveAbsent, Absent, ControlOK
  <1>2. asked.spec = att.spec /\ Orders(asked.spec) = {1}
    BY <1>1 DEF Request, Orders, Attempts
  <1>3. Goes \/ (Finish /\ UNCHANGED mr)
    BY <1>1 DEF Guarded
  <1>4. mr'.spec = mr.spec /\ (pc' = "idle" \/ att'.spec = att.spec)
    BY <1>1, <1>3, TypeParts DEF Finish, Attempts, WorldOK
  <1>5. AttemptOK'
    BY <1>1, <1>3, TypeParts DEF RetryInv, AttemptOK, Finish, Attempts, WorldOK
  <1>6. StandingOK'
    BY <1>1, <1>4, StandingKept DEF RetryInv
  <1>7. RefusedIsKnown'
    <2> SUFFICES ASSUME Standing', ~Doomed' PROVE RefusedIsKnown'
      BY DEF RefusedIsKnown
    <2>1. Standing /\ secret.there /\ att.spec = mr.spec
      BY <1>1 DEF Standing, RetryInv, StandingOK
    <2>2. IF ~att.deleting /\ Holds(entries, Fingerprint(asked, 1))
          THEN UNCHANGED entries /\ Finish /\ UNCHANGED mr
          ELSE entries' = {} /\ Goes
      BY <1>1, <1>2, <2>1, AskGuard
    <2>3. ~att.deleting
      BY <1>1, <2>2, TypeParts DEF Doomed, Finish, WorldOK
    <2>4. UNCHANGED mr
      BY <2>2, <2>3
    <2>5. asked = Would /\ UNCHANGED <<Would, NothingToDo>>
      BY <1>1, <2>1, <2>4 DEF Would, NothingToDo
    <2>6. \/ Would # failed.request
          \/ Holds(entries, Fingerprint(failed.request, 1))
      BY <1>1, <2>1, <2>3 DEF RetryInv, RefusedIsKnown, Doomed, NothingToDo
    <2>7. CASE Holds(entries, Fingerprint(asked, 1))
      BY <1>1, <2>2, <2>3, <2>5, <2>6, <2>7 DEF RefusedIsKnown, Finish
    <2>8. CASE ~Holds(entries, Fingerprint(asked, 1))
      <3>1. Would # failed.request
        BY <2>5, <2>6, <2>8
      <3>2. pc' = "build" /\ att'.request = att.request
        BY <1>1, <2>2, <2>3, <2>8 DEF Attempts
      <3>3. att.request.cm = Would.cm
        BY <1>1, <2>5 DEF Request, RetryInv, AttemptOK
      <3> QED BY <1>1, <2>5, <3>1, <3>2, <3>3 DEF RefusedIsKnown
    <2> QED BY <2>7, <2>8
  <1> QED BY <1>5, <1>6, <1>7 DEF RetryInv

\* A step that ends a reconcile, and changes nothing but the map, which is kept.
LEMMA GivingUpQuietly ==
  ASSUME TypeOK, RetryInv, pc \in {"get", "build", "apply"}, Finish,
         UNCHANGED <<mr, secret, row, entries, failed>>
  PROVE  RetryInv'
  <1>1. pc' = "idle"
    BY DEF Finish
  <1>2. AttemptOK' /\ StandingOK'
    BY <1>1, StandingKept DEF RetryInv, AttemptOK
  <1>3. UNCHANGED <<Would, NothingToDo, Standing>>
    BY DEF Would, NothingToDo, Standing
  <1>4. Standing /\ ~Doomed' => ~Doomed
    BY <1>1 DEF RetryInv, AttemptOK, Doomed
  <1> QED BY <1>1, <1>2, <1>3, <1>4 DEF RetryInv, RefusedIsKnown

LEMMA FailsRetry ==
  ASSUME ReadsTruthful, TypeOK, RetryInv, ObserveFails
  PROVE  RetryInv'
  <1>1. /\ pc = "get"
        /\ UNCHANGED <<mr, secret, row, entries, failed>>
        /\ Finish \/ (att.deleting /\ Goto("delete"))
    BY DEF ObserveFails, ReadsTruthful
  <1>2. CASE Finish
    BY <1>1, <1>2, GivingUpQuietly
  <1>3. CASE att.deleting /\ Goto("delete")
    <2>1. pc' = "delete" /\ UNCHANGED att /\ Doomed'
      BY <1>3 DEF Goto, Doomed
    <2>2. AttemptOK'
      BY <1>1, <1>3, <2>1 DEF RetryInv, AttemptOK
    <2>3. StandingOK'
      BY <1>1, <2>1, StandingKept DEF RetryInv
    <2> QED BY <2>1, <2>2, <2>3 DEF RetryInv, RefusedIsKnown
  <1> QED BY <1>1, <1>2, <1>3

\* Observe finds the instance: what it would ask for, it asks the guard about.
LEMMA RowRetry ==
  ASSUME Specs \subseteq Ordered, TypeOK, RetryInv, ObserveRow
  PROVE  RetryInv'
  <1> DEFINE asked == Request(att.spec, secret.content, row.cm)
             goTo(step) == /\ pc' = IF att.deleting THEN "delete" ELSE step
                           /\ att' = [att EXCEPT !.request = asked]
             drifted == \/ ~SpecInStep
                        \/ secret.content # mr.hash
                        \/ ~row.child
  <1>1. /\ pc = "get" /\ row # NoRow /\ att \in Attempts
        /\ UNCHANGED <<mr, secret, row, failed>>
    BY TypeParts DEF ObserveRow, ControlOK
  <1>2. \/ ~secret.there /\ Finish /\ UNCHANGED entries
        \/ drifted /\ Guarded(asked, goTo("build"))
        \/ /\ ~drifted /\ entries' = Without(entries, me)
           /\ IF att.deleting THEN goTo("delete") ELSE Finish
    BY DEF ObserveRow
  <1>3. asked.spec = att.spec /\ Orders(asked.spec) = {1}
    BY <1>1 DEF Request, Orders, Attempts
  <1>4. att.spec \notin Open => asked.cm = Own
    BY DEF Request
  <1>5. \/ Finish
        \/ /\ goTo("build") \/ (att.deleting /\ goTo("delete"))
           /\ att'.request = asked /\ att'.spec = att.spec /\ att'.order = att.order
           /\ att'.deleting = att.deleting
    BY <1>1, <1>2 DEF Guarded, Attempts
  <1>6. AttemptOK'
    BY <1>1, <1>3, <1>4, <1>5 DEF RetryInv, AttemptOK, Finish
  <1>7. StandingOK'
    BY <1>1, <1>5, StandingKept DEF RetryInv, Finish
  <1>8. UNCHANGED <<Would, NothingToDo, Standing>>
    BY <1>1 DEF Would, NothingToDo, Standing
  <1>9. RefusedIsKnown'
    <2> SUFFICES ASSUME Standing', ~Doomed' PROVE RefusedIsKnown'
      BY DEF RefusedIsKnown
    <2>1. Standing /\ secret.there /\ att.spec = mr.spec
      BY <1>1, <1>8 DEF RetryInv, StandingOK
    <2>2. ~att.deleting
      BY <1>1, <1>5 DEF Doomed, Finish, RetryInv, AttemptOK
    <2>3. asked = Would /\ (drifted <=> ~NothingToDo)
      BY <1>1, <2>1 DEF Would, SpecInStep, NothingToDo
    <2>4. \/ Would # failed.request
          \/ Holds(entries, Fingerprint(failed.request, 1))
          \/ NothingToDo
      BY <1>1, <2>1, <2>2 DEF RetryInv, RefusedIsKnown, Doomed
    <2>5. CASE NothingToDo
      <3>1. pc' = "idle"
        BY <1>2, <2>1, <2>2, <2>3, <2>5 DEF Finish
      <3> QED BY <1>8, <2>5, <3>1 DEF RefusedIsKnown
    <2>6. CASE ~NothingToDo
      <3>1. IF Holds(entries, Fingerprint(asked, 1))
            THEN UNCHANGED entries /\ Finish
            ELSE entries' = {} /\ goTo("build")
        BY <1>2, <1>3, <2>1, <2>2, <2>3, <2>6, AskGuard
      <3>2. CASE Holds(entries, Fingerprint(asked, 1))
        BY <1>1, <1>8, <2>3, <2>4, <2>6, <3>1, <3>2 DEF RefusedIsKnown, Finish
      <3>3. CASE ~Holds(entries, Fingerprint(asked, 1))
        <4>1. Would # failed.request
          BY <2>3, <2>4, <2>6, <3>3
        <4>2. pc' = "build" /\ att'.request = Would
          BY <1>1, <2>2, <2>3, <3>1, <3>3 DEF Attempts
        <4> QED BY <1>1, <1>8, <4>1, <4>2 DEF RefusedIsKnown
      <3> QED BY <3>2, <3>3
    <2> QED BY <2>5, <2>6
  <1> QED BY <1>6, <1>7, <1>9 DEF RetryInv

LEMMA BuildRetry ==
  ASSUME Specs \subseteq Ordered, TypeOK, RetryInv, BuildRequest
  PROVE  RetryInv'
  <1>1. /\ pc = "build" /\ att \in Attempts
        /\ UNCHANGED <<mr, secret, row, entries, failed>>
    BY TypeParts DEF BuildRequest, ControlOK
  <1>2. CASE Finish
    BY <1>1, <1>2, GivingUpQuietly
  <1>3. CASE ~Finish
    <2>1. PICK order \in Orders(att.spec) :
             /\ pc' = "apply"
             /\ att' = [att EXCEPT !.request.secret = secret.content, !.order = order]
      BY <1>1, <1>3 DEF BuildRequest
    <2>2. order = 1 /\ att.request \in Requests
      BY <1>1, <2>1 DEF Orders, Attempts
    <2>3. /\ att'.spec = att.spec /\ att'.deleting = att.deleting /\ att'.order = 1
          /\ att'.request = [spec |-> att.request.spec, secret |-> secret.content,
                             cm |-> att.request.cm]
      BY <1>1, <2>1, <2>2 DEF Attempts, Requests
    <2>4. AttemptOK'
      BY <1>1, <2>1, <2>3 DEF RetryInv, AttemptOK
    <2>5. StandingOK'
      BY <1>1, <2>1, <2>3, StandingKept DEF RetryInv
    <2>6. UNCHANGED <<Would, Standing>> /\ (Doomed' <=> Doomed)
      BY <1>1, <2>1, <2>3 DEF Would, Standing, Doomed
    <2>7. Standing /\ ~Doomed => att'.request = Would
      <3> SUFFICES ASSUME Standing, ~Doomed PROVE att'.request = Would
        OBVIOUS
      <3>1. att.request.spec = mr.spec /\ att.request.cm = Would.cm
        BY <1>1 DEF RetryInv, AttemptOK, StandingOK, RefusedIsKnown
      <3> QED BY <2>3, <3>1 DEF Would, Request
    <2> QED BY <1>1, <2>1, <2>4, <2>5, <2>6, <2>7 DEF RetryInv, RefusedIsKnown
  <1> QED BY <1>2, <1>3

\* The instance, once it has been sent a request, would be asked for it again: what
\* the platform adds is what Observe fills in.
LEMMA AppliedIsWhatWouldBe ==
  ASSUME TypeOK, pc = "apply", att.spec = mr.spec, att.request = Would, Applied,
         UNCHANGED <<mr, secret>>
  PROVE  Would' = Would
  <1>1. row' # NoRow
    BY AppliedType, Sentinels DEF Rows
  <1>2. row'.cm = IF row = NoRow /\ mr.spec \in Open THEN Default ELSE Would.cm
    BY DEF Applied
  <1>3. mr.spec \in Open => row'.cm = IF row = NoRow THEN Default ELSE row.cm
    BY <1>2 DEF Would, Request
  <1> QED BY <1>1, <1>3 DEF Would, Request

LEMMA ApplyRetry ==
  ASSUME TypeOK, RetryInv, Apply
  PROVE  RetryInv'
  <1>1. /\ pc = "apply" /\ pc' = "save"
        /\ UNCHANGED <<mr, secret, att, failed>>
    BY DEF Apply, Goto
  <1>2. AttemptOK' /\ StandingOK'
    BY <1>1, StandingKept DEF RetryInv, AttemptOK
  <1>3. UNCHANGED Standing /\ (Doomed' <=> Doomed)
    BY <1>1 DEF Standing, Doomed
  <1>4. Standing /\ ~Doomed => Would' = Would /\ Would # failed.request
    BY <1>1, AppliedIsWhatWouldBe DEF Apply, RetryInv, StandingOK, RefusedIsKnown
  <1> QED BY <1>1, <1>2, <1>3, <1>4 DEF RetryInv, RefusedIsKnown

LEMMA ApplyFailsRetry ==
  ASSUME TypeOK, RetryInv, ApplyFails
  PROVE  RetryInv'
  <1>1. PICK err \in Error : GiveUp(err)
    BY WriteErrors DEF ApplyFails
  <1>2. /\ pc = "apply" /\ att \in Attempts /\ pc' = "idle"
        /\ UNCHANGED <<mr, secret>>
        /\ UNCHANGED row \/ Applied
    BY <1>1, TypeParts DEF ApplyFails, ControlOK, GiveUp, Finish
  <1>3. AttemptOK'
    BY <1>2 DEF AttemptOK
  <1>4. CASE IsTerminal(err)
    <2>1. /\ failed'.request = att.request
          /\ failed'.current = (Fresh /\ secret = [content |-> att.request.secret,
                                                   there |-> TRUE])
      BY <1>1, <1>4 DEF GiveUp
    <2>2. att.request.spec = att.spec /\ att.order = 1
      BY <1>2 DEF RetryInv, AttemptOK
    <2>3. StandingOK'
      BY <1>2, <2>1, <2>2 DEF StandingOK, Standing, Fresh
    <2>4. Holds(entries', Fingerprint(failed'.request, 1))
      <3>1. entries' = {[key |-> Key(me, Fingerprint(att.request, 1)), err |-> err]}
        BY <1>1, <1>4, <2>2, RecordedOnly, EntriesAreMine DEF GiveUp
      <3> QED BY <2>1, <3>1, KeyOfObject DEF Holds
    <2> QED BY <1>2, <1>3, <2>3, <2>4 DEF RetryInv, RefusedIsKnown
  <1>5. CASE ~IsTerminal(err)
    <2>1. UNCHANGED failed
      BY <1>1, <1>5 DEF GiveUp
    <2>2. StandingOK'
      BY <1>2, <2>1, StandingKept DEF RetryInv
    <2>3. Standing' => Would' # failed'.request
      <3> SUFFICES ASSUME Standing' PROVE Would' # failed'.request
        OBVIOUS
      <3>1. Standing /\ ~Doomed /\ att.spec = mr.spec
        BY <1>2, <2>1 DEF Standing, Doomed, RetryInv, AttemptOK, StandingOK
      <3>2. att.request = Would /\ Would # failed.request
        BY <1>2, <3>1 DEF RetryInv, RefusedIsKnown
      <3>3. Would' = Would
        BY <1>2, <3>1, <3>2, AppliedIsWhatWouldBe DEF Would
      <3> QED BY <2>1, <3>2, <3>3
    <2> QED BY <1>2, <1>3, <2>2, <2>3 DEF RetryInv, RefusedIsKnown
  <1> QED BY <1>4, <1>5

LEMMA SaveRetry ==
  ASSUME TypeOK, RetryInv, SaveHash
  PROVE  RetryInv'
  <1>1. /\ pc = "save" /\ pc' = "idle"
        /\ UNCHANGED <<secret, row, entries, failed>>
        /\ mr'.spec = mr.spec /\ mr'.phase = mr.phase
    BY TypeParts DEF SaveHash, Finish, WorldOK
  <1>2. AttemptOK' /\ StandingOK'
    BY <1>1, StandingKept DEF RetryInv, AttemptOK
  <1>3. UNCHANGED <<Would, Standing>> /\ (Standing /\ ~Doomed' => ~Doomed)
    BY <1>1 DEF Would, Standing, Doomed, RetryInv, AttemptOK
  <1> QED BY <1>1, <1>2, <1>3 DEF RetryInv, RefusedIsKnown

LEMMA DeleteRetry ==
  ASSUME TypeOK, RetryInv, Delete
  PROVE  RetryInv'
  <1>1. /\ pc = "delete" /\ pc' = "idle" /\ UNCHANGED <<mr, secret, failed>>
    BY DEF Delete, Finish
  <1>2. AttemptOK' /\ StandingOK'
    BY <1>1, StandingKept DEF RetryInv, AttemptOK
  <1>3. Doomed'
    BY <1>1 DEF Doomed, RetryInv, AttemptOK
  <1> QED BY <1>2, <1>3 DEF RetryInv, RefusedIsKnown

\* What changes the request that would be made outdates the refused one; a deletion
\* dooms the next reconcile.
LEMMA EnvironmentRetry ==
  ASSUME TypeOK, RetryInv, Environment
  PROVE  RetryInv'
  <1>1. CASE RequestDelete
    <2>1. /\ mr.phase = "live" /\ mr'.phase = "deleting" /\ mr'.spec = mr.spec
          /\ mr'.hash = mr.hash /\ UNCHANGED <<secret, row, entries, pc, att, failed>>
      BY <1>1, TypeParts DEF RequestDelete, WorldOK
    <2>2. AttemptOK' /\ StandingOK'
      BY <2>1 DEF RetryInv, AttemptOK, StandingOK, Standing
    <2>3. UNCHANGED <<Would, NothingToDo, Standing>> /\ (~Doomed' => ~Doomed)
      BY <2>1 DEF Would, NothingToDo, Standing, Doomed
    <2> QED BY <2>1, <2>2, <2>3 DEF RetryInv, RefusedIsKnown
  <1>2. CASE ~RequestDelete
    <2>1. failed' = Outdated(failed)
      BY <1>2 DEF Environment, EditSpec, SecretChanges, PlatformEdited, Crash
    <2>2. ~Standing'
      BY <2>1, TypeParts DEF Standing, Outdated, HistoryOK, Failures
    <2>3. mr'.phase = mr.phase /\ (pc' = "idle" \/ UNCHANGED <<pc, att>>)
      BY <1>2, TypeParts
      DEF Environment, EditSpec, SecretChanges, PlatformEdited, Crash, Finish, WorldOK
    <2> QED BY <2>2, <2>3 DEF RetryInv, AttemptOK, StandingOK, RefusedIsKnown
  <1> QED BY <1>1, <1>2

\* As long as the spec, the Secret and the instance stay as they are, a request on
\* record is not sent again (instance.go:96).  It takes requests whose lists come in
\* one order, and reads that do not mistake a refusal for "not found": TLC shows a
\* repetition without either.
THEOREM RefusedIsNotRetried ==
  Spec => []((Specs \subseteq Ordered /\ ReadsTruthful) => NoIdenticalRetry)
<1> DEFINE Hypotheses == Specs \subseteq Ordered /\ ReadsTruthful
           Inv == Hypotheses => RetryInv
<1>1. Init => Inv
  BY InitRetry
<1>2. TypeOK /\ Inv /\ [Next]_vars => Inv'
  <2> SUFFICES ASSUME TypeOK, Specs \subseteq Ordered, ReadsTruthful, RetryInv,
                      [Next]_vars
               PROVE  RetryInv'
    OBVIOUS
  <2>1. CASE Observe
    BY <2>1, ReconcileRetry, AbsentRetry, FailsRetry, RowRetry DEF Observe
  <2>2. CASE Write
    BY <2>2, BuildRetry, ApplyRetry, ApplyFailsRetry, SaveRetry DEF Write
  <2>3. CASE UNCHANGED vars
    BY <2>3 DEF vars, RetryInv, AttemptOK, StandingOK, RefusedIsKnown, Standing,
                Doomed, Would, NothingToDo
  <2> QED BY <2>1, <2>2, <2>3, DeleteRetry, EnvironmentRetry DEF Next, Step
<1>3. Inv => (Hypotheses => NoIdenticalRetry)
  <2> SUFFICES ASSUME RetryInv, pc = "apply", Standing
               PROVE  att.request # failed.request
    BY DEF NoIdenticalRetry, Standing
  <2> QED BY DEF RetryInv, AttemptOK, RefusedIsKnown, Doomed
<1> QED BY <1>1, <1>2, <1>3, TypeCorrect, PTL DEF Spec, ReadsTruthful
===============================================================================
