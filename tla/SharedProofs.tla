----------------------------- MODULE SharedProofs -----------------------------
(***************************************************************************)
(* Proofs about what the controllers share: the verdict an error is given  *)
(* on its way (ErrorVerdict), the terminal-write guard                     *)
(* (TerminalWriteGuard) with the memory it implements, the size of an      *)
(* agent (AgentSize), and the comparison of fields at work (Drift).        *)
(***************************************************************************)
EXTENDS ErrorVerdict, TerminalWriteGuard, AgentSize, Drift, GuardLemmas

-------------------------------------------------------------------------------
(* The verdict of an error, for every error a call can return and every path it *)
(* takes                                                                        *)

LEMMA RaisableErrors ==
  ASSUME NEW e \in Raisable
  PROVE  e \in Error /\ ~(IsTerminal(e) /\ IsRetryable(e))
  <1>1. "opaque" \in Codes /\ {} \in SUBSET Texts
        /\ {"has not yet been reconciled"} \in SUBSET Texts
    BY DEF Codes, Texts
  <1>2. CASE e \in GatewayErrors
    <2>1. PICK code \in Codes, says \in SUBSET Texts : e = GatewayError(code, says)
      BY <1>2 DEF GatewayErrors
    <2> QED BY <2>1, ConstructedErrors DEF IsTerminal, GatewayError
  <1>3. ASSUME e = AsTerminal(Opaque({}))
        PROVE  e \in Error /\ ~(IsTerminal(e) /\ IsRetryable(e))
    <2>1. Opaque({}) \in Error
      BY <1>1, ConstructedErrors DEF Opaque
    <2>2. ~IsRetryable(Opaque({}))
      BY DEF IsRetryable, IsRetryableGRPC, IsProvisioningWait, Opaque,
             GatewayError, TransientCodes
    <2> QED BY <1>3, <2>1, <2>2, TaggedErrors, TagsAreApart
  <1>4. ASSUME e = AsNotReconciled(Opaque({"has not yet been reconciled"}))
        PROVE  e \in Error /\ ~(IsTerminal(e) /\ IsRetryable(e))
    <2>1. Opaque({"has not yet been reconciled"}) \in Error
      BY <1>1, ConstructedErrors DEF Opaque
    <2>2. ~IsTerminal(e)
      BY <1>4 DEF IsTerminal, AsNotReconciled, Sealed
    <2> QED BY <1>4, <2>1, <2>2, TaggedErrors
  <1>5. CASE e \in OwnErrors
    BY <1>3, <1>4, <1>5 DEF OwnErrors
  <1> QED BY <1>2, <1>5 DEF Raisable

\* Every error on the path is one of the package's errors.
THEOREM VerdictTypeCorrect == VerdictSpec => []VerdictTypeOK
<1>1. VerdictInit => VerdictTypeOK
  BY RaisableErrors DEF VerdictInit, VerdictTypeOK
<1>2. VerdictTypeOK /\ [VerdictNext]_verdictVars => VerdictTypeOK'
  BY ClassifiedErrors
  DEF VerdictTypeOK, VerdictNext, CrossReadBoundary, ClassifyWrite, ClassifyInstall, verdictVars
<1> QED BY <1>1, <1>2, PTL DEF VerdictSpec

-------------------------------------------------------------------------------

\* The strengthening of VerdictsDisjoint: no error anywhere on the path is both,
\* and an install failure is one of the two.
Apart ==
  /\ ~(IsTerminal(err) /\ IsRetryable(err))
  /\ at = "install" => IsTerminal(err) \/ IsRetryable(err)

\* What each step of the path makes of an error that is not both.
LEMMA StepsKeepApart ==
  ASSUME NEW e \in Error, ~(IsTerminal(e) /\ IsRetryable(e))
  PROVE  /\ ~IsTerminal(ReadError(e)) \/ ~IsRetryable(ReadError(e))
         /\ ~IsTerminal(ClassifyApplyError(e)) \/ ~IsRetryable(ClassifyApplyError(e))
         /\ IsTerminal(ClassifyManifestInstallError(e)) <=>
              ~IsRetryable(ClassifyManifestInstallError(e))
  <1>1. ~IsTerminal(ReadError(e)) \/ ~IsRetryable(ReadError(e))
    <2>1. ~IsTerminal(AsNotFound(e))
      BY DEF IsTerminal, AsNotFound, Sealed
    <2> QED BY <2>1 DEF ReadError
  <1>2. ~IsTerminal(ClassifyApplyError(e)) \/ ~IsRetryable(ClassifyApplyError(e))
    BY TagsAreApart DEF ClassifyApplyError
  <1>3. IsTerminal(ClassifyManifestInstallError(e)) <=>
          ~IsRetryable(ClassifyManifestInstallError(e))
    BY TagsAreApart DEF ClassifyManifestInstallError
  <1> QED BY <1>1, <1>2, <1>3

\* A verdict is never both "fix your spec" and "try again", and an install
\* failure always gets one of the two (terminal.go:70-75).
THEOREM VerdictsApart == VerdictSpec => []VerdictsDisjoint
<1>1. VerdictInit => Apart
  BY RaisableErrors DEF VerdictInit, Apart
<1>2. VerdictTypeOK /\ Apart /\ [VerdictNext]_verdictVars => Apart'
  <2> SUFFICES ASSUME VerdictTypeOK, Apart, [VerdictNext]_verdictVars PROVE Apart'
    OBVIOUS
  <2>1. err \in Error /\ ~(IsTerminal(err) /\ IsRetryable(err))
    BY DEF VerdictTypeOK, Apart
  <2>2. CASE CrossReadBoundary
    BY <2>1, <2>2, StepsKeepApart DEF CrossReadBoundary, Apart
  <2>3. CASE ClassifyWrite
    BY <2>1, <2>3, StepsKeepApart DEF ClassifyWrite, Apart
  <2>4. CASE ClassifyInstall
    BY <2>1, <2>4, StepsKeepApart DEF ClassifyInstall, Apart
  <2>5. CASE UNCHANGED verdictVars
    BY <2>5 DEF verdictVars, Apart
  <2> QED BY <2>2, <2>3, <2>4, <2>5 DEF VerdictNext
<1>3. Apart => VerdictsDisjoint
  BY DEF Apart, VerdictsDisjoint
<1> QED BY <1>1, <1>2, <1>3, VerdictTypeCorrect, PTL DEF VerdictSpec

-------------------------------------------------------------------------------

\* What the call says is that it is too early, or that the gateway is not up to it.
OnlyWaits(e) == IsProvisioningWait(e) \/ IsNotReconciled(e) \/ e.code \in TransientCodes

\* The strengthening of WaitsAreNotCached: what keeps such an error from being
\* tagged terminal is that it is retryable, or not reconciled and out of reach of
\* the classifiers that look at codes.
StillWaits(e) ==
  /\ ~IsTerminal(e)
  /\ \/ IsRetryable(e) /\ e.code \notin {"NotFound", "PermissionDenied"}
     \/ IsNotReconciled(e) /\ e.code = "opaque"

LEMMA RaisedWaits ==
  ASSUME NEW e \in Raisable, OnlyWaits(e)
  PROVE  StillWaits(e)
  <1>1. CASE e \in GatewayErrors
    <2>1. PICK code \in Codes, says \in SUBSET Texts : e = GatewayError(code, says)
      BY <1>1 DEF GatewayErrors
    <2>2. e.code = code /\ e.tags = {} /\ e.says = says
      BY <2>1 DEF GatewayError
    <2>3. ~IsTerminal(e) /\ ~IsNotReconciled(e)
      BY <2>2 DEF IsTerminal, IsNotReconciled
    <2>4. IsRetryable(e) /\ e.code \notin {"NotFound", "PermissionDenied"}
      BY <2>2, <2>3
      DEF OnlyWaits, IsRetryable, IsRetryableGRPC, IsProvisioningWait, TransientCodes
    <2> QED BY <2>3, <2>4 DEF StillWaits
  <1>2. CASE e = AsTerminal(Opaque({}))
    <2>1. Opaque({}) \in Error /\ Opaque({}).code = "opaque" /\ Opaque({}).tags = {}
      BY BareErrors DEF Opaque, GatewayError
    <2>2. e.code = "opaque" /\ "notreconciled" \notin e.tags
      BY <1>2, <2>1 DEF AsTerminal, Error
    <2> QED BY <2>2 DEF OnlyWaits, IsProvisioningWait, IsNotReconciled, TransientCodes
  <1>3. CASE e = AsNotReconciled(Opaque({"has not yet been reconciled"}))
    BY <1>3 DEF AsNotReconciled, Sealed, StillWaits, IsTerminal, IsNotReconciled
  <1> QED BY <1>1, <1>2, <1>3 DEF Raisable, OwnErrors

\* No boundary and no classifier takes such an error for a fault of the user's.
LEMMA WaitsStayWaits ==
  ASSUME NEW e \in Error, StillWaits(e)
  PROVE  /\ StillWaits(ReadError(e))
         /\ StillWaits(ClassifyApplyError(e))
         /\ StillWaits(ClassifyManifestInstallError(e))
  <1>1. ReadError(e) = e
    BY DEF StillWaits, ReadError
  <1>2. ClassifyApplyError(e) = e
    BY DEF StillWaits, ClassifyApplyError
  <1>3. StillWaits(ClassifyManifestInstallError(e))
    <2>1. CASE IsRetryable(e)
      BY <2>1 DEF ClassifyManifestInstallError
    <2>2. CASE ~IsRetryable(e)
      <3>1. ClassifyManifestInstallError(e) = AsRetryable(e)
        BY <2>2 DEF StillWaits, ClassifyManifestInstallError, IsManifestWait
      <3>2. AsRetryable(e).code = "opaque"
        BY DEF AsRetryable, Sealed
      <3> QED BY <3>1, <3>2, TagsAreApart DEF StillWaits
    <2> QED BY <2>1, <2>2
  <1> QED BY <1>1, <1>2, <1>3

\* An error that only says "not yet" is never cached as terminal, whichever
\* boundary and classifier it passes (terminal.go:70-74, retryable.go:62-67).
THEOREM WaitsNeverCached == VerdictSpec => []WaitsAreNotCached
<1> DEFINE Inv == raised \in Raisable /\ (OnlyWaits(raised) => StillWaits(err))
<1>1. VerdictInit => Inv
  BY RaisedWaits DEF VerdictInit
<1>2. VerdictTypeOK /\ Inv /\ [VerdictNext]_verdictVars => Inv'
  <2> SUFFICES ASSUME VerdictTypeOK, Inv, [VerdictNext]_verdictVars PROVE Inv'
    OBVIOUS
  <2>1. UNCHANGED raised
    BY DEF VerdictNext, CrossReadBoundary, ClassifyWrite, ClassifyInstall, verdictVars
  <2>2. StillWaits(err) => StillWaits(err')
    BY WaitsStayWaits
    DEF VerdictTypeOK, VerdictNext, CrossReadBoundary, ClassifyWrite, ClassifyInstall, verdictVars
  <2> QED BY <2>1, <2>2
<1>3. Inv => WaitsAreNotCached
  BY DEF OnlyWaits, StillWaits, WaitsAreNotCached
<1> QED BY <1>1, <1>2, <1>3, VerdictTypeCorrect, PTL DEF VerdictSpec

-------------------------------------------------------------------------------

\* A verdict that has been given is left alone by the classifier that gave it.
LEMMA ClassifiersIdempotent ==
  ASSUME NEW e \in Error
  PROVE  /\ ClassifyApplyError(ClassifyApplyError(e)) = ClassifyApplyError(e)
         /\ ClassifyManifestInstallError(ClassifyManifestInstallError(e)) =
              ClassifyManifestInstallError(e)
  BY TagsAreApart DEF ClassifyApplyError, ClassifyManifestInstallError

\* Asking for a verdict again, as an outer caller may, changes neither verdict nor
\* error (terminal.go:43-44).
THEOREM VerdictIsFinal == VerdictSpec => ReclassifyIsStable
<1> DEFINE Given == /\ at = "apply" => ClassifyApplyError(err) = err
                    /\ at = "install" => ClassifyManifestInstallError(err) = err
<1>1. VerdictInit => Given
  BY DEF VerdictInit
<1>2. VerdictTypeOK /\ Given /\ [VerdictNext]_verdictVars => Given'
  <2> SUFFICES ASSUME VerdictTypeOK, Given, [VerdictNext]_verdictVars PROVE Given'
    OBVIOUS
  <2>1. CASE CrossReadBoundary
    BY <2>1 DEF CrossReadBoundary
  <2>2. CASE ClassifyWrite
    BY <2>2, ClassifiersIdempotent DEF VerdictTypeOK, ClassifyWrite
  <2>3. CASE ClassifyInstall
    BY <2>3, ClassifiersIdempotent DEF VerdictTypeOK, ClassifyInstall
  <2>4. CASE UNCHANGED verdictVars
    BY <2>4 DEF verdictVars
  <2> QED BY <2>1, <2>2, <2>3, <2>4 DEF VerdictNext
<1>3. Given /\ [VerdictNext]_verdictVars => [at' = at => err' = err]_verdictVars
  BY DEF VerdictNext, CrossReadBoundary, ClassifyWrite, ClassifyInstall, verdictVars
<1> QED BY <1>1, <1>2, <1>3, VerdictTypeCorrect, PTL DEF VerdictSpec, ReclassifyIsStable

-------------------------------------------------------------------------------
(* The guard, for every set of objects, payloads and errors                     *)

LEMMA SameResourceReflexive == \A a : SameResource(a, a)
  BY DEF SameResource

LEMMA SameResourceSymmetric == \A a, b : SameResource(a, b) => SameResource(b, a)
  BY DEF SameResource

\* A key carries its object's identity, and an object is what it identifies.
LEMMA KeyIdentity ==
  ASSUME NEW a \in Objects, NEW b \in Objects, NEW p, NEW q
  PROVE  /\ SameResource(Key(a, p), Key(b, q)) <=> a = b
         /\ SameResource(Key(a, p), b) <=> a = b
         /\ Key(a, p).fingerprint = p
  <1>1. SameResource(Key(a, p), Key(b, q)) <=> SameResource(a, b)
    BY DEF SameResource, Key
  <1>2. SameResource(Key(a, p), b) <=> SameResource(a, b)
    BY DEF SameResource, Key
  <1>3. SameResource(a, b) <=> a = b
    BY ObjectsDistinct, SameResourceReflexive
  <1>4. Key(a, p).fingerprint = p
    BY DEF Key
  <1> QED BY <1>1, <1>2, <1>3, <1>4

-----------------------------------------------------------------------------

THEOREM GuardTypeCorrect == GuardSpec => []GuardTypeOK
<1>1. GuardInit => GuardTypeOK
  BY DEF GuardInit, GuardTypeOK
<1>2. GuardTypeOK /\ [GuardNext]_guardVars => GuardTypeOK'
  <2> SUFFICES ASSUME GuardTypeOK, [GuardNext]_guardVars PROVE GuardTypeOK'
    OBVIOUS
  <2>1. ASSUME NEW o \in Objects, NEW p \in Payloads, NEW failure \in Errors,
               Record(o, p, failure)
        PROVE  GuardTypeOK'
    <3>1. Key(o, p) \in Keys
      BY DEF Keys
    <3>2. CASE IsTerminal(failure)
      BY <2>1, <3>1, <3>2 DEF Record, Recorded, Without, GuardTypeOK, TerminalErrors
    <3>3. CASE ~IsTerminal(failure)
      BY <2>1, <3>3 DEF Record, Recorded, GuardTypeOK
    <3> QED BY <3>2, <3>3
  <2>2. ASSUME NEW o \in Objects, Clear(o) PROVE GuardTypeOK'
    BY <2>2 DEF Clear, Without, GuardTypeOK
  <2>3. ASSUME NEW o \in Objects, NEW p \in Payloads, NEW deleting \in BOOLEAN,
               Suppress(o, p, deleting)
        PROVE  GuardTypeOK'
    <3>1. entries' \subseteq entries
      BY <2>3 DEF Suppress, AfterSuppress, Without
    <3>2. answer' \in TerminalErrors \cup {Miss}
      BY <2>3 DEF Suppress, Matching, GuardTypeOK
    <3> QED BY <3>1, <3>2 DEF GuardTypeOK
  <2>4. CASE UNCHANGED guardVars
    BY <2>4 DEF GuardTypeOK, guardVars
  <2> QED BY <2>1, <2>2, <2>3, <2>4 DEF GuardNext
<1> QED BY <1>1, <1>2, PTL DEF GuardSpec

-----------------------------------------------------------------------------

\* What the guard's methods leave in the map.
LEMMA RecordedOneEntry ==
  ASSUME NEW es, OneEach(es), NEW key, NEW failure,
         NEW e \in Recorded(es, key, failure), NEW f \in Recorded(es, key, failure),
         SameResource(e.key, f.key)
  PROVE  e = f
  <1> DEFINE new == [key |-> key, err |-> failure]
  <1>1. CASE ~IsTerminal(failure)
    BY <1>1 DEF Recorded, OneEach
  <1>2. CASE IsTerminal(failure)
    <2>1. /\ e \in Without(es, key) \cup {new}
          /\ f \in Without(es, key) \cup {new}
      BY <1>2 DEF Recorded
    <2>2. \A g \in Without(es, key) : ~SameResource(g.key, key)
      BY DEF Without
    <2>3. new.key = key
      OBVIOUS
    <2>4. CASE e = new /\ f = new
      BY <2>4
    <2>5. CASE e = new /\ f \in Without(es, key)
      BY <2>2, <2>3, <2>5, SameResourceSymmetric
    <2>6. CASE e \in Without(es, key) /\ f = new
      BY <2>2, <2>3, <2>6
    <2>7. CASE e \in Without(es, key) /\ f \in Without(es, key)
      BY <2>7 DEF Without, OneEach
    <2> QED BY <2>1, <2>4, <2>5, <2>6, <2>7
  <1> QED BY <1>1, <1>2

\* Two entries never belong to the same object, so that the order in which
\* Suppress walks the Go map does not matter (terminal_write_guard.go:167-175).
THEOREM OneEntry == GuardSpec => []OneEntryPerObject
<1>1. GuardInit => OneEntryPerObject
  BY DEF GuardInit, OneEntryPerObject, OneEach
<1>2. OneEntryPerObject /\ [GuardNext]_guardVars => OneEntryPerObject'
  <2> SUFFICES ASSUME OneEntryPerObject, [GuardNext]_guardVars
               PROVE  OneEntryPerObject'
    OBVIOUS
  <2>1. ASSUME NEW o \in Objects, NEW p \in Payloads, NEW failure \in Errors,
               Record(o, p, failure)
        PROVE  OneEntryPerObject'
    BY <2>1, RecordedOneEntry DEF Record, OneEntryPerObject, OneEach
  <2>2. ASSUME NEW o \in Objects, Clear(o) PROVE OneEntryPerObject'
    BY <2>2 DEF Clear, Without, OneEntryPerObject, OneEach
  <2>3. ASSUME NEW o \in Objects, NEW p \in Payloads, NEW deleting \in BOOLEAN,
               Suppress(o, p, deleting)
        PROVE  OneEntryPerObject'
    BY <2>3 DEF Suppress, AfterSuppress, Without, OneEntryPerObject, OneEach
  <2>4. CASE UNCHANGED guardVars
    BY <2>4 DEF OneEntryPerObject, OneEach, guardVars
  <2> QED BY <2>1, <2>2, <2>3, <2>4 DEF GuardNext
<1> QED BY <1>1, <1>2, PTL DEF GuardSpec

-----------------------------------------------------------------------------
(* The refinement.  WellFormedMap is the inductive invariant, as a predicate of *)
(* a map, so that it can be said of the map before and after a step.         *)

WellFormedMap(es) == es \subseteq [key : Keys, err : TerminalErrors] /\ OneEach(es)

\* The entries of an object are one at most.
LEMMA OneEntryOf ==
  ASSUME NEW es, WellFormedMap(es), NEW o \in Objects, NEW e \in EntriesOf(es, o)
  PROVE  /\ EntriesOf(es, o) = {e}
         /\ MemoryOf(es, o) = [payload |-> e.key.fingerprint, err |-> e.err]
  <1>1. ASSUME NEW f \in EntriesOf(es, o) PROVE f = e
    <2>1. PICK a \in Objects, p \in Payloads : e.key = Key(a, p)
      BY DEF WellFormedMap, EntriesOf, Keys
    <2>2. PICK b \in Objects, q \in Payloads : f.key = Key(b, q)
      BY DEF WellFormedMap, EntriesOf, Keys
    <2>3. a = o /\ b = o
      BY <2>1, <2>2, KeyIdentity DEF EntriesOf
    <2>4. SameResource(f.key, e.key)
      BY <2>1, <2>2, <2>3, KeyIdentity
    <2> QED BY <2>4 DEF WellFormedMap, OneEach, EntriesOf
  <1>2. EntriesOf(es, o) = {e}
    BY <1>1
  <1>3. (CHOOSE f \in EntriesOf(es, o) : TRUE) = e
    BY <1>2
  <1> QED BY <1>2, <1>3 DEF MemoryOf

\* Removing an object's entries is forgetting it.
LEMMA WithoutForgets ==
  ASSUME NEW es, WellFormedMap(es), NEW o \in Objects, NEW r,
         \A a \in Objects, q \in Payloads : SameResource(Key(a, q), r) <=> a = o,
         NEW a \in Objects
  PROVE  MemoryOf(Without(es, r), a) = IF a = o THEN Nothing ELSE MemoryOf(es, a)
  <1>1. ASSUME NEW e \in es
        PROVE  SameResource(e.key, a) => (SameResource(e.key, r) <=> a = o)
    <2>1. PICK b \in Objects, q \in Payloads : e.key = Key(b, q)
      BY DEF WellFormedMap, Keys
    <2> QED BY <2>1, KeyIdentity
  <1>2. CASE a = o
    <2>1. EntriesOf(Without(es, r), a) = {}
      BY <1>1, <1>2 DEF EntriesOf, Without
    <2> QED BY <1>2, <2>1 DEF MemoryOf
  <1>3. CASE a # o
    <2>1. EntriesOf(Without(es, r), a) = EntriesOf(es, a)
      BY <1>1, <1>3 DEF EntriesOf, Without
    <2> QED BY <1>3, <2>1 DEF MemoryOf
  <1> QED BY <1>2, <1>3

\* Recording a terminal error is remembering it.
LEMMA RecordedRemembers ==
  ASSUME NEW es, WellFormedMap(es), NEW o \in Objects, NEW p \in Payloads, NEW failure,
         IsTerminal(failure), NEW a \in Objects
  PROVE  MemoryOf(Recorded(es, Key(o, p), failure), a) =
           IF a = o THEN [payload |-> p, err |-> failure] ELSE MemoryOf(es, a)
  <1> DEFINE new == [key |-> Key(o, p), err |-> failure]
             rest == Without(es, Key(o, p))
  <1>1. Recorded(es, Key(o, p), failure) = rest \cup {new}
    BY DEF Recorded
  <1>2. \A e \in es : \E b \in Objects, q \in Payloads : e.key = Key(b, q)
    BY DEF WellFormedMap, Keys
  <1>3. new.key = Key(o, p) /\ new.err = failure
    OBVIOUS
  <1>4. CASE a = o
    <2>1. EntriesOf(rest \cup {new}, a) = {new}
      <3>1. SameResource(new.key, a)
        BY <1>3, <1>4, KeyIdentity
      <3>2. ASSUME NEW e \in rest PROVE ~SameResource(e.key, a)
        <4>1. e \in es /\ ~SameResource(e.key, Key(o, p))
          BY DEF Without
        <4>2. PICK b \in Objects, q \in Payloads : e.key = Key(b, q)
          BY <1>2, <4>1
        <4>3. b # o
          BY <4>1, <4>2, KeyIdentity
        <4> QED BY <1>4, <4>2, <4>3, KeyIdentity
      <3> QED BY <3>1, <3>2 DEF EntriesOf
    <2>2. (CHOOSE e \in EntriesOf(rest \cup {new}, a) : TRUE) = new
      BY <2>1
    <2>3. MemoryOf(rest \cup {new}, a) = [payload |-> new.key.fingerprint, err |-> new.err]
      BY <2>1, <2>2 DEF MemoryOf
    <2> QED BY <1>1, <1>3, <1>4, <2>3, KeyIdentity
  <1>5. CASE a # o
    <2>1. EntriesOf(rest \cup {new}, a) = EntriesOf(es, a)
      <3>1. ~SameResource(new.key, a)
        BY <1>3, <1>5, KeyIdentity
      <3>2. ASSUME NEW e \in es, SameResource(e.key, a)
            PROVE  ~SameResource(e.key, Key(o, p))
        <4>1. PICK b \in Objects, q \in Payloads : e.key = Key(b, q)
          BY <1>2
        <4>2. b = a
          BY <3>2, <4>1, KeyIdentity
        <4> QED BY <1>5, <4>1, <4>2, KeyIdentity
      <3> QED BY <3>1, <3>2 DEF EntriesOf, Without
    <2> QED BY <1>1, <1>5, <2>1 DEF MemoryOf
  <1> QED BY <1>4, <1>5

\* The value of the refinement mapping.
LEMMA MemoryValues ==
  ASSUME NEW es, WellFormedMap(es), NEW o \in Objects
  PROVE  /\ EntriesOf(es, o) = {} => MemoryOf(es, o) = Nothing
         /\ EntriesOf(es, o) # {} => MemoryOf(es, o) # Nothing
  <1>1. CASE EntriesOf(es, o) = {}
    BY <1>1 DEF MemoryOf
  <1>2. CASE EntriesOf(es, o) # {}
    <2>1. PICK e \in EntriesOf(es, o) : TRUE
      BY <1>2
    <2>2. PICK b \in Objects, q \in Payloads : e.key = Key(b, q)
      BY <2>1 DEF WellFormedMap, EntriesOf, Keys
    <2>3. e.key.fingerprint \in Payloads
      BY <2>2, KeyIdentity
    <2>4. e.err \in Errors
      BY <2>1 DEF WellFormedMap, EntriesOf, TerminalErrors
    <2>5. MemoryOf(es, o) \in [payload : Payloads, err : Errors]
      BY <2>1, <2>3, <2>4, OneEntryOf
    <2> QED BY <1>2, <2>5, GuardNothing
  <1> QED BY <1>1, <1>2

\* The guard finds an entry for a payload exactly when that payload is the one
\* the memory holds for the object.
LEMMA MatchingIsRemembered ==
  ASSUME NEW es, WellFormedMap(es), NEW o \in Objects, NEW p \in Payloads
  PROVE  /\ Matching(es, Key(o, p)) # {} <=>
              MemoryOf(es, o) # Nothing /\ MemoryOf(es, o).payload = p
         /\ \A e \in Matching(es, Key(o, p)) : MemoryOf(es, o).err = e.err
  <1>1. ASSUME NEW e \in es
        PROVE  e \in Matching(es, Key(o, p)) <=>
                 e \in EntriesOf(es, o) /\ e.key.fingerprint = p
    <2>1. PICK b \in Objects, q \in Payloads : e.key = Key(b, q)
      BY DEF WellFormedMap, Keys
    <2> QED BY <2>1, KeyIdentity DEF Matching, SamePayload, EntriesOf
  <1>2. ASSUME NEW e \in EntriesOf(es, o)
        PROVE  /\ MemoryOf(es, o) # Nothing
               /\ MemoryOf(es, o).payload = e.key.fingerprint
               /\ MemoryOf(es, o).err = e.err
    BY <1>2, OneEntryOf, MemoryValues
  <1>3. ASSUME MemoryOf(es, o) # Nothing
        PROVE  \E e \in EntriesOf(es, o) : TRUE
    BY <1>3, MemoryValues
  <1>4. Matching(es, Key(o, p)) \subseteq es /\ EntriesOf(es, o) \subseteq es
    BY DEF Matching, EntriesOf
  <1> QED BY <1>1, <1>2, <1>3, <1>4

\* Suppress answers exactly the rejection last recorded for the same object:
\* the guard implements WriteMemory, whatever the Go map's order.
THEOREM GuardImplementsMemory == GuardSpec => ImplementsMemory
<1> DEFINE Inv == GuardTypeOK /\ OneEntryPerObject
           memory == [o \in Objects |-> MemoryOf(entries, o)]
<1>1. GuardInit => Memory!MemInit
  BY DEF GuardInit, Memory!MemInit, MemoryOf, EntriesOf
<1>2. Inv /\ [GuardNext]_guardVars => [Memory!MemNext]_Memory!memVars
  <2> SUFFICES ASSUME Inv, [GuardNext]_guardVars
               PROVE  [Memory!MemNext]_Memory!memVars
    OBVIOUS
  <2>0. WellFormedMap(entries)
    BY DEF WellFormedMap, GuardTypeOK, OneEntryPerObject
  <2>1. ASSUME NEW o \in Objects, NEW p \in Payloads, NEW failure \in Errors,
               Record(o, p, failure)
        PROVE  Memory!Remember(o, p, failure)
    <3>1. CASE IsTerminal(failure)
      <4>1. \A a \in Objects : MemoryOf(entries', a) =
              IF a = o THEN [payload |-> p, err |-> failure] ELSE MemoryOf(entries, a)
        BY <2>0, <2>1, <3>1, RecordedRemembers DEF Record
      <4>2. memory' = [memory EXCEPT ![o] = [payload |-> p, err |-> failure]]
        BY <4>1
      <4> QED BY <2>1, <3>1, <4>2 DEF Memory!Remember, Record, TerminalErrors
    <3>2. CASE ~IsTerminal(failure)
      BY <2>1, <3>2 DEF Memory!Remember, Record, Recorded, TerminalErrors
    <3> QED BY <3>1, <3>2
  <2>2. ASSUME NEW o \in Objects, NEW r,
               \A a \in Objects, q \in Payloads : SameResource(Key(a, q), r) <=> a = o,
               entries' = Without(entries, r)
        PROVE  memory' = Memory!Forgotten(o)
    <3>1. \A a \in Objects : MemoryOf(entries', a) =
            IF a = o THEN Nothing ELSE MemoryOf(entries, a)
      BY <2>0, <2>2, WithoutForgets
    <3> QED BY <3>1 DEF Memory!Forgotten
  <2>3. ASSUME NEW o \in Objects, Clear(o) PROVE Memory!Forget(o)
    <3>1. \A a \in Objects, q \in Payloads : SameResource(Key(a, q), o) <=> a = o
      BY KeyIdentity
    <3> QED BY <2>2, <2>3, <3>1 DEF Clear, Memory!Forget
  <2>4. ASSUME NEW o \in Objects, NEW p \in Payloads, NEW deleting \in BOOLEAN,
               Suppress(o, p, deleting)
        PROVE  Memory!Ask(o, p, deleting)
    <3> DEFINE hit == Suppresses(entries, Key(o, p), deleting)
    <3>1. memory[o] = MemoryOf(entries, o)
      OBVIOUS
    <3>2. hit <=> ~deleting /\ Memory!Remembered(o, p)
      BY <2>0, <3>1, MatchingIsRemembered DEF Suppresses, Memory!Remembered
    <3>3. CASE hit
      <4>1. PICK e \in Matching(entries, Key(o, p)) : answer' = e.err
        BY <2>4, <3>3 DEF Suppress
      <4>2. answer' = memory[o].err
        BY <2>0, <3>1, <4>1, MatchingIsRemembered
      <4>3. entries' = entries
        BY <2>4, <3>3 DEF Suppress, AfterSuppress
      <4> QED BY <3>2, <3>3, <4>2, <4>3 DEF Memory!Ask
    <3>4. CASE ~hit
      <4>1. \A a \in Objects, q \in Payloads :
              SameResource(Key(a, q), Key(o, p)) <=> a = o
        BY KeyIdentity
      <4>2. entries' = Without(entries, Key(o, p)) /\ answer' = Miss
        BY <2>4, <3>4 DEF Suppress, AfterSuppress
      <4> QED BY <2>2, <3>2, <3>4, <4>1, <4>2 DEF Memory!Ask
    <3> QED BY <3>3, <3>4
  <2>5. CASE UNCHANGED guardVars
    BY <2>5 DEF guardVars, Memory!memVars
  <2> QED BY <2>1, <2>3, <2>4, <2>5 DEF GuardNext, Memory!MemNext
<1> QED
  BY <1>1, <1>2, GuardTypeCorrect, OneEntry, PTL DEF GuardSpec, ImplementsMemory, Memory!MemSpec

-------------------------------------------------------------------------------
(* Agent sizes: what is in memory, what the platform stores, and the drift       *)
(* between the two                                                               *)

Kusts == [own : {"none", "own", "clash"}, patch : {NoConfig} \cup Configs]

\* What a spec in memory, and what the platform, can hold.
Drafts == [size : Sizes \cup Supported, config : {NoConfig} \cup Configs,
           kust : Kusts, scaler : {NoScaler, Stamped} \cup Bounds]
Rows == [size : Supported, config : {NoConfig}, kust : Kusts, scaler : Bounds \cup {Stamped}]

LEMMA SpecsAreDrafts == Specs \subseteq Drafts
  BY DEF Specs, Drafts, Kusts, Text

LEMMA RowsAreDrafts == Rows \subseteq Drafts
  BY DEF Rows, Drafts

LEMMA EmptyIsKust == Empty \in Kusts
  BY DEF Empty, Text, Kusts

\* Two drafts are the same when their four fields are.
LEMMA SameFields ==
  ASSUME NEW d \in Drafts, NEW e \in Drafts,
         d.size = e.size, d.config = e.config, d.kust = e.kust, d.scaler = e.scaler
  PROVE  d = e
  BY DEF Drafts

\* lateInitializeCluster, field by field.
LEMMA LateInitFields ==
  ASSUME NEW d \in Drafts, NEW o \in Rows
  PROVE  /\ LateInit(d, o) \in Drafts
         /\ LateInit(d, o).config = d.config
         /\ Kind = "KargoAgent" => LateInit(d, o) = d
         /\ Kind = "Cluster" =>
              LateInit(d, o).size = IF d.size = "" THEN o.size ELSE d.size
         /\ d.size = "custom" => LateInit(d, o) = d
         /\ Kind = "Cluster" /\ d.size # "custom" =>
              /\ LateInit(d, o).kust = IF d.kust = Empty THEN o.kust ELSE d.kust
              /\ LateInit(d, o).scaler = IF d.scaler = NoScaler THEN o.scaler ELSE d.scaler
  <1> DEFINE sized == [d EXCEPT !.size = IF @ = "" THEN o.size ELSE @]
             whole == [sized EXCEPT !.kust = IF @ = Empty THEN o.kust ELSE @,
                                    !.scaler = IF @ = NoScaler THEN o.scaler ELSE @]
  <1>1. LateInit(d, o) = IF Kind = "KargoAgent" THEN d
                         ELSE IF sized.size = "custom" THEN sized ELSE whole
    BY Zenon DEF LateInit
  <1>2. /\ sized \in Drafts
        /\ sized.size = IF d.size = "" THEN o.size ELSE d.size
        /\ sized.config = d.config /\ sized.kust = d.kust /\ sized.scaler = d.scaler
    BY DEF Drafts, Rows
  <1>3. /\ whole \in Drafts
        /\ whole.size = sized.size /\ whole.config = d.config
        /\ whole.kust = IF d.kust = Empty THEN o.kust ELSE d.kust
        /\ whole.scaler = IF d.scaler = NoScaler THEN o.scaler ELSE d.scaler
    BY <1>2 DEF Drafts, Rows
  <1>4. d.size = "custom" => sized = d
    BY DEF Drafts
  <1>5. sized.size = "custom" <=> d.size = "custom"
    BY <1>2, SizeConstants DEF Rows
  <1>6. Kind = "KargoAgent" \/ Kind = "Cluster"
    BY SizeConstants
  <1> HIDE DEF sized, whole
  <1> QED BY <1>1, <1>2, <1>3, <1>4, <1>5, <1>6

\* projectCustomClusterSize, field by field.
LEMMA ProjectFields ==
  ASSUME NEW d \in Drafts
  PROVE  /\ d.size # "custom" => Project(d) = d
         /\ CannotProject(d) => Project(d) = d
         /\ d.size = "custom" /\ ~CannotProject(d) =>
              /\ Project(d).size = "large" /\ Project(d).config = NoConfig
              /\ Project(d).kust \in Kusts
              /\ Project(d).kust.own = d.kust.own /\ Project(d).kust.patch = d.config
              /\ Project(d).scaler = d.scaler
         /\ Project(d) \in Drafts
  <1> DEFINE made == [d EXCEPT !.size = "large", !.kust.patch = d.config, !.config = NoConfig]
  <1>1. Project(d) = IF d.size = "custom" /\ ~CannotProject(d) THEN made ELSE d
    BY Zenon DEF Project
  <1>2. /\ made.size = "large" /\ made.config = NoConfig /\ made.scaler = d.scaler
        /\ made.kust \in Kusts
        /\ made.kust.own = d.kust.own /\ made.kust.patch = d.config
    BY DEF Drafts, Kusts
  <1>3. made \in Drafts
    BY SizeConstants DEF Drafts, Kusts
  <1> HIDE DEF made
  <1> QED BY <1>1, <1>2, <1>3

\* SpecToAPI, field by field.
LEMMA SizedFields ==
  ASSUME NEW d \in Drafts
  PROVE  /\ Sized(d) \in Drafts
         /\ Sized(d).size = IF d.size = "" /\ Kind = "Cluster" THEN "small" ELSE d.size
         /\ Sized(d).config = d.config /\ Sized(d).kust = d.kust /\ Sized(d).scaler = d.scaler
  BY SizeConstants DEF Sized, Drafts

\* What the platform stores is a row, whatever it is sent.
LEMMA StoreFields ==
  ASSUME NEW d \in Drafts, NEW old, old = NoRow \/ old \in Rows
  PROVE  /\ Store(d, old) \in Rows
         /\ d.size # "" => Store(d, old).size = IF d.size \in Supported THEN d.size ELSE Clamp
         /\ d.kust # Empty \/ ~RetainsOmitted => Store(d, old).kust = d.kust
         /\ Store(d, old).scaler =
              IF Store(d, old).size = "auto" /\ d.scaler # NoScaler THEN d.scaler ELSE Stamped
  <1> DEFINE size == IF d.size = "" THEN (IF old = NoRow THEN "small" ELSE old.size)
                     ELSE IF d.size \in Supported THEN d.size ELSE Clamp
             kust == IF d.kust = Empty /\ old # NoRow /\ RetainsOmitted THEN old.kust ELSE d.kust
             scaler == IF size = "auto" /\ d.scaler # NoScaler THEN d.scaler ELSE Stamped
  <1>1. Store(d, old) = [size |-> size, config |-> NoConfig, kust |-> kust, scaler |-> scaler]
    BY Zenon DEF Store
  <1>2. size \in Supported /\ kust \in Kusts /\ scaler \in Bounds \cup {Stamped}
    BY SizeConstants DEF Rows, Drafts
  <1>3. /\ d.size # "" => size = IF d.size \in Supported THEN d.size ELSE Clamp
        /\ d.kust # Empty \/ ~RetainsOmitted => kust = d.kust
        /\ scaler = IF size = "auto" /\ d.scaler # NoScaler THEN d.scaler ELSE Stamped
    OBVIOUS
  <1> HIDE DEF size, kust, scaler
  <1>4. Store(d, old) \in Rows
    BY <1>1, <1>2 DEF Rows
  <1>5. Store(d, old).size = size /\ Store(d, old).kust = kust /\ Store(d, old).scaler = scaler
    BY <1>1
  <1> QED BY <1>3, <1>4, <1>5, Zenon

\* A user's own size, and what Normalize makes of a draft, field by field.
LEMMA NormalizeFields ==
  ASSUME NEW d \in Drafts, NEW o \in Rows
  PROVE  LET sized == [d EXCEPT !.size = IF @ = "" THEN o.size ELSE @]
             projected == Project(sized)
             n == Normalize(d, o) IN
         /\ sized \in Drafts /\ n \in Drafts
         /\ sized.size = IF d.size = "" THEN o.size ELSE d.size
         /\ sized.config = d.config /\ sized.kust = d.kust /\ sized.scaler = d.scaler
         /\ d.size # "" => sized = d
         /\ n.size = IF Known(projected.size) THEN projected.size ELSE o.size
         /\ n.config = projected.config /\ n.kust = projected.kust
         /\ n.scaler = IF projected.scaler = NoScaler \/ (Kind = "Cluster" /\ n.size # "auto")
                         THEN o.scaler ELSE projected.scaler
  <1> DEFINE sized == [d EXCEPT !.size = IF @ = "" THEN o.size ELSE @]
             projected == Project(sized)
             clamped == [projected EXCEPT !.size = IF Known(@) THEN @ ELSE o.size]
             n == [clamped EXCEPT !.scaler = AdoptBounds(clamped, o)]
  <1>1. Normalize(d, o) = n
    BY Zenon DEF Normalize
  <1>2. /\ sized \in Drafts
        /\ sized.size = IF d.size = "" THEN o.size ELSE d.size
        /\ sized.config = d.config /\ sized.kust = d.kust /\ sized.scaler = d.scaler
        /\ d.size # "" => sized = d
    BY DEF Drafts, Rows
  <1>3. projected \in Drafts
    <2> HIDE DEF sized
    <2> QED BY <1>2, ProjectFields DEF projected
  <1> HIDE DEF sized, projected
  <1>4. /\ clamped \in Drafts
        /\ clamped.size = IF Known(projected.size) THEN projected.size ELSE o.size
        /\ clamped.config = projected.config /\ clamped.kust = projected.kust
        /\ clamped.scaler = projected.scaler
    BY <1>3 DEF Drafts, Rows
  <1> HIDE DEF clamped
  <1>5. AdoptBounds(clamped, o) \in {NoScaler, Stamped} \cup Bounds
    BY <1>4 DEF AdoptBounds, Drafts, Rows
  <1>6. /\ n \in Drafts
        /\ n.size = clamped.size /\ n.config = clamped.config /\ n.kust = clamped.kust
        /\ n.scaler = AdoptBounds(clamped, o)
    BY <1>4, <1>5 DEF Drafts
  <1>7. n.scaler = IF projected.scaler = NoScaler \/ (Kind = "Cluster" /\ n.size # "auto")
                     THEN o.scaler ELSE projected.scaler
    BY <1>4, <1>6 DEF AdoptBounds
  <1> HIDE DEF n
  <1> QED BY <1>1, <1>2, <1>4, <1>6, <1>7 DEF sized, projected

\* In step, the normalized draft and the row agree in their four fields.
LEMMA InStepFields ==
  ASSUME NEW d \in Drafts, NEW o \in Rows
  PROVE  /\ InStep(d, o) <=> Normalize(d, o) = o
         /\ InStep(d, o) <=> /\ Normalize(d, o).size = o.size
                             /\ Normalize(d, o).config = NoConfig
                             /\ Normalize(d, o).kust = o.kust
                             /\ Normalize(d, o).scaler = o.scaler
  <1>1. [o EXCEPT !.config = NoConfig] = o
    BY DEF Rows
  <1>2. InStep(d, o) <=> Normalize(d, o) = o
    BY <1>1 DEF InStep
  <1>3. Normalize(d, o) \in Drafts /\ o \in Drafts /\ o.config = NoConfig
    BY NormalizeFields, RowsAreDrafts DEF Rows
  <1> QED BY <1>2, <1>3, SameFields

\* What Normalize makes of a custom size, and of any other.
LEMMA NormalizedCustom ==
  ASSUME NEW d \in Drafts, NEW o \in Rows, d.size = "custom"
  PROVE  /\ CannotProject(d) => Normalize(d, o).config = d.config
         /\ ~CannotProject(d) => /\ Normalize(d, o).size = "large"
                                 /\ Normalize(d, o).config = NoConfig
                                 /\ Normalize(d, o).kust = Project(d).kust
                                 /\ d.scaler = NoScaler => Normalize(d, o).scaler = o.scaler
  <1> DEFINE sized == [d EXCEPT !.size = IF @ = "" THEN o.size ELSE @]
             n == Normalize(d, o)
  <1>1. sized = d
    BY NormalizeFields
  <1>2. /\ n.size = IF Known(Project(d).size) THEN Project(d).size ELSE o.size
        /\ n.config = Project(d).config /\ n.kust = Project(d).kust
        /\ n.scaler = IF Project(d).scaler = NoScaler \/ (Kind = "Cluster" /\ n.size # "auto")
                        THEN o.scaler ELSE Project(d).scaler
    <2>1. /\ n.size = IF Known(Project(sized).size) THEN Project(sized).size ELSE o.size
          /\ n.config = Project(sized).config /\ n.kust = Project(sized).kust
          /\ n.scaler = IF Project(sized).scaler = NoScaler \/ (Kind = "Cluster" /\ n.size # "auto")
                          THEN o.scaler ELSE Project(sized).scaler
      BY NormalizeFields
    <2> HIDE DEF sized, n
    <2> QED BY <1>1, <2>1
  <1> HIDE DEF sized, n
  <1>3. Known("large")
    BY DEF Known
  <1> QED BY <1>2, <1>3, ProjectFields DEF n

LEMMA NormalizedPlain ==
  ASSUME NEW d \in Drafts, NEW o \in Rows, d.size # "custom"
  PROVE  /\ d.size = "" => Normalize(d, o).size = o.size
         /\ d.size # "" /\ Known(d.size) => Normalize(d, o).size = d.size
         /\ ~Known(d.size) => Normalize(d, o).size = o.size
         /\ Normalize(d, o).config = d.config
         /\ Normalize(d, o).kust = d.kust
         /\ Normalize(d, o).scaler =
              IF d.scaler = NoScaler \/ (Kind = "Cluster" /\ Normalize(d, o).size # "auto")
                THEN o.scaler ELSE d.scaler
  <1> DEFINE sized == [d EXCEPT !.size = IF @ = "" THEN o.size ELSE @]
             n == Normalize(d, o)
  <1>1. /\ sized \in Drafts
        /\ sized.size = IF d.size = "" THEN o.size ELSE d.size
        /\ sized.config = d.config /\ sized.kust = d.kust /\ sized.scaler = d.scaler
    BY NormalizeFields
  <1>2. /\ n.size = IF Known(Project(sized).size) THEN Project(sized).size ELSE o.size
        /\ n.config = Project(sized).config /\ n.kust = Project(sized).kust
        /\ n.scaler = IF Project(sized).scaler = NoScaler \/ (Kind = "Cluster" /\ n.size # "auto")
                        THEN o.scaler ELSE Project(sized).scaler
    BY NormalizeFields
  <1> HIDE DEF sized, n
  <1>3. sized.size # "custom"
    BY <1>1, SizeConstants DEF Rows
  <1>4. Project(sized) = sized
    BY <1>1, <1>3, ProjectFields
  <1>5. Known("")
    BY DEF Known
  <1> QED BY <1>1, <1>2, <1>4, <1>5 DEF n

-------------------------------------------------------------------------------

\* What a spec that is in step with a row says of that row.
LEMMA InStepMeansSized ==
  ASSUME NEW d \in Specs, NEW o \in Rows, InStep(LateInit(d, o), o)
  PROVE  /\ CannotProject(d) => d.size = "custom" /\ d.config = NoConfig
         /\ Known(d.size) /\ d.size # "" => o.size = d.size
         /\ d.size = "custom" /\ d.config # NoConfig =>
              o.size = "large" /\ o.kust = Project(d).kust
         /\ d.size # "custom" /\ d.kust # Empty => o.kust = d.kust
         /\ d.size = "auto" /\ d.scaler # NoScaler => o.scaler = d.scaler
  <1> DEFINE late == LateInit(d, o)
             n == Normalize(late, o)
  <1>1. d \in Drafts /\ late \in Drafts
    BY SpecsAreDrafts, LateInitFields
  <1>2. n.size = o.size /\ n.config = NoConfig /\ n.kust = o.kust /\ n.scaler = o.scaler
    BY <1>1, InStepFields
  <1>3. Kind = "KargoAgent" \/ Kind = "Cluster"
    BY SizeConstants
  <1>4. CASE d.size = "custom"
    <2>1. late = d
      BY <1>1, <1>4, LateInitFields
    <2>2. CannotProject(d) => d.config = NoConfig
      BY <1>1, <1>2, <1>4, <2>1, NormalizedCustom
    <2>3. ~CannotProject(d) => o.size = "large" /\ o.kust = Project(d).kust
      BY <1>1, <1>2, <1>4, <2>1, NormalizedCustom
    <2>4. ~Known(d.size)
      BY <1>4 DEF Known
    <2> QED BY <1>4, <2>2, <2>3, <2>4
  <1>5. CASE d.size # "custom"
    <2>1. /\ late.config = d.config
          /\ d.size # "" => late.size = d.size
          /\ d.kust # Empty => late.kust = d.kust
          /\ d.scaler # NoScaler => late.scaler = d.scaler
      BY <1>1, <1>3, <1>5, LateInitFields
    <2>2. late.size # "custom"
      <3>1. o.size # "custom"
        BY SizeConstants DEF Rows
      <3> QED BY <1>1, <1>3, <1>5, <3>1, LateInitFields
    <2>3. /\ late.size # "" /\ Known(late.size) => n.size = late.size
          /\ n.config = late.config /\ n.kust = late.kust
          /\ n.scaler = IF late.scaler = NoScaler \/ (Kind = "Cluster" /\ n.size # "auto")
                          THEN o.scaler ELSE late.scaler
      BY <1>1, <2>2, NormalizedPlain
    <2>4. ~CannotProject(d)
      BY <1>2, <1>5, <2>1, <2>3 DEF CannotProject
    <2>5. Known(d.size) /\ d.size # "" => o.size = d.size
      BY <1>2, <2>1, <2>3
    <2>6. Known("auto")
      BY DEF Known
    <2> HIDE DEF n, late
    <2> QED BY <1>2, <1>5, <2>1, <2>3, <2>4, <2>5, <2>6
  <1> QED BY <1>4, <1>5

\* A spec whose Apply can settle: a size the provider knows is one the platform
\* offers.  A KargoAgent takes over neither the platform's kustomization nor, of
\* an agent that does not scale, its bounds (kargoagent.go:123): so it has bounds
\* only with the size "auto", and a kustomization it does not send is dropped.
Storable(d) ==
  /\ d.size \in {"small", "medium", "large", "auto"} => d.size \in Supported
  /\ Kind = "KargoAgent" => /\ ~RetainsOmitted
                            /\ d.scaler # NoScaler => d.size = "auto"

\* What Apply leaves on the platform is in step with the spec it was made from,
\* late-initialized from whatever row there was before.
LEMMA AppliedIsInStep ==
  ASSUME NEW d \in Specs, Storable(d),
         NEW sent, sent = d \/ (\E o \in Rows : sent = LateInit(d, o)),
         ~CannotProject(Sized(sent)),
         NEW old, old = NoRow \/ old \in Rows
  PROVE  LET new == Store(Project(Sized(sent)), old) IN
           new \in Rows /\ InStep(LateInit(d, new), new)
  <1> DEFINE made == Sized(sent)
             new == Store(Project(made), old)
             late == LateInit(d, new)
             n == Normalize(late, new)
  <1>1. d \in Drafts /\ sent \in Drafts
    BY SpecsAreDrafts, LateInitFields
  <1>2. /\ made \in Drafts
        /\ made.size = IF sent.size = "" /\ Kind = "Cluster" THEN "small" ELSE sent.size
        /\ made.config = sent.config /\ made.kust = sent.kust /\ made.scaler = sent.scaler
    BY <1>1, SizedFields
  <1> HIDE DEF made
  <1>3. Project(made) \in Drafts
    BY <1>2, ProjectFields
  <1>4. /\ new \in Rows
        /\ Project(made).size # "" =>
             new.size = IF Project(made).size \in Supported THEN Project(made).size ELSE Clamp
        /\ Project(made).kust # Empty \/ ~RetainsOmitted => new.kust = Project(made).kust
        /\ new.scaler = IF new.size = "auto" /\ Project(made).scaler # NoScaler
                          THEN Project(made).scaler ELSE Stamped
    BY <1>3, StoreFields
  <1> HIDE DEF new
  <1>5. late \in Drafts
    BY <1>1, <1>4, LateInitFields
  <1>6. Kind = "KargoAgent" \/ Kind = "Cluster"
    BY SizeConstants
  <1>7. new.size \in Supported /\ new.size # "custom"
    BY <1>4, SizeConstants DEF Rows
  <1>8. ~CannotProject(made)
    BY DEF made
  <1>9. n.size = new.size /\ n.config = NoConfig /\ n.kust = new.kust /\ n.scaler = new.scaler
    <2>1. CASE d.size = "custom"
      <3>1. sent = d /\ late = d
        BY <1>1, <1>4, <2>1, LateInitFields
      <3>2. made.size = "custom"
        BY <1>2, <2>1, <3>1
      <3>3. made.config # NoConfig /\ made.scaler = NoScaler
        BY <1>8, <3>2 DEF CannotProject
      <3>4. made = d
        BY <1>1, <1>2, <2>1, <3>1, SameFields
      <3>5. /\ Project(d).size = "large" /\ Project(d).kust.patch = d.config
            /\ Project(d).scaler = NoScaler
        BY <1>1, <1>8, <2>1, <3>3, <3>4, ProjectFields
      <3>6. Project(d).kust # Empty
        BY <3>3, <3>4, <3>5 DEF Empty, Text
      <3>7. new.size = "large" /\ new.kust = Project(d).kust
        BY <1>4, <3>4, <3>5, <3>6, SizeConstants
      <3>8. /\ n.size = "large" /\ n.config = NoConfig /\ n.kust = Project(d).kust
            /\ n.scaler = new.scaler
        <4>1. ~CannotProject(d)
          BY <1>8, <3>4
        <4>2. d.scaler = NoScaler
          BY <3>3, <3>4
        <4>3. n = Normalize(d, new)
          BY <3>1
        <4> HIDE DEF n
        <4> QED BY <1>1, <1>4, <2>1, <4>1, <4>2, <4>3, NormalizedCustom
      <3> QED BY <3>7, <3>8
    <2>2. CASE d.size # "custom"
      <3>1. /\ sent.size # "custom" /\ sent.config = d.config
            /\ d.size # "" => sent.size = d.size
            /\ d.kust # Empty => sent.kust = d.kust
            /\ d.scaler # NoScaler => sent.scaler = d.scaler
            /\ Kind = "KargoAgent" => sent = d
        <4>1. CASE sent = d
          BY <2>2, <4>1
        <4>2. CASE sent # d
          <5> PICK o \in Rows : sent = LateInit(d, o)
            BY <4>2
          <5>1. o.size # "custom"
            BY SizeConstants DEF Rows
          <5> QED BY <1>1, <1>6, <2>2, <4>2, <5>1, LateInitFields
        <4> QED BY <4>1, <4>2
      <3>2. made.size # "custom"
        BY <1>2, <3>1
      <3>3. made.config = NoConfig /\ Project(made) = made
        BY <1>2, <1>8, <3>2, ProjectFields DEF CannotProject
      <3>4. /\ late.size # "custom" /\ late.config = NoConfig
            /\ d.size # "" => late.size = d.size
            /\ Kind = "KargoAgent" => late = d
            /\ Kind = "Cluster" =>
                 /\ d.size = "" => late.size = new.size
                 /\ late.kust = IF d.kust = Empty THEN new.kust ELSE d.kust
                 /\ late.scaler = IF d.scaler = NoScaler THEN new.scaler ELSE d.scaler
        BY <1>1, <1>2, <1>4, <1>6, <1>7, <2>2, <3>1, <3>3, LateInitFields
      <3>5. /\ late.size = "" => n.size = new.size
            /\ late.size # "" /\ Known(late.size) => n.size = late.size
            /\ ~Known(late.size) => n.size = new.size
            /\ n.config = late.config /\ n.kust = late.kust
            /\ n.scaler = IF late.scaler = NoScaler \/ (Kind = "Cluster" /\ n.size # "auto")
                            THEN new.scaler ELSE late.scaler
        BY <1>4, <1>5, <3>4, NormalizedPlain
      <3> HIDE DEF n, late
      <3>6. d.size # "" /\ Known(d.size) => new.size = d.size
        <4>1. d.size # "" /\ Known(d.size) => d.size \in Supported
          BY DEF Storable, Known
        <4> QED BY <1>2, <1>4, <3>1, <3>3, <4>1
      <3>7. n.size = new.size
        <4>1. CASE d.size = ""
          BY <1>6, <3>4, <3>5, <4>1 DEF Known
        <4>2. CASE d.size # ""
          BY <3>4, <3>5, <3>6, <4>2
        <4> QED BY <4>1, <4>2
      <3>8. n.kust = new.kust
        <4>1. CASE Kind = "KargoAgent"
          BY <1>2, <1>4, <3>1, <3>3, <3>4, <3>5, <4>1 DEF Storable
        <4>2. CASE Kind = "Cluster"
          BY <1>2, <1>4, <3>1, <3>3, <3>4, <3>5, <4>2
        <4> QED BY <1>6, <4>1, <4>2
      <3>9. n.scaler = new.scaler
        <4>1. CASE Kind = "KargoAgent"
          <5>1. d.scaler # NoScaler => d.size = "auto"
            BY <4>1 DEF Storable
          <5>2. d.scaler # NoScaler => new.size = "auto"
            BY <3>6, <5>1 DEF Known
          <5>3. made.scaler = d.scaler /\ late.scaler = d.scaler
            BY <1>2, <3>1, <3>4, <4>1
          <5> QED BY <1>4, <3>3, <3>5, <5>2, <5>3
        <4>2. CASE Kind = "Cluster"
          <5>1. d.scaler # NoScaler => made.scaler = d.scaler
            BY <1>2, <3>1
          <5> QED BY <1>4, <3>3, <3>4, <3>5, <3>7, <4>2, <5>1
        <4> QED BY <1>6, <4>1, <4>2
      <3> QED BY <3>4, <3>5, <3>7, <3>8, <3>9
    <2> QED BY <2>1, <2>2
  <1> QED BY <1>4, <1>5, <1>9, InStepFields DEF new, made

-------------------------------------------------------------------------------
(* The reconcile of an agent size                                                *)

\* What each variable can hold: the draft in memory is the spec that was read,
\* as it is or late-initialized from some row.
SizesOK ==
  /\ spec \in Specs
  /\ row = NoRow \/ row \in Rows
  /\ seen # NoSpec => /\ seen \in Specs
                      /\ mem = seen \/ (\E o \in Rows : mem = LateInit(seen, o))
  /\ calm \in BOOLEAN

LEMMA ApplyStores ==
  ASSUME SizesOK, Apply
  PROVE  row' \in Rows
  <1>1. seen \in Specs /\ (mem = seen \/ (\E o \in Rows : mem = LateInit(seen, o)))
    BY DEF SizesOK, Apply, MayWrite
  <1>2. mem \in Drafts
    BY <1>1, SpecsAreDrafts, LateInitFields
  <1>3. Project(Sized(mem)) \in Drafts
    BY <1>2, SizedFields, ProjectFields
  <1>4. row' = Store(Project(Sized(mem)), row)
    BY DEF Apply
  <1>5. row = NoRow \/ row \in Rows
    BY DEF SizesOK
  <1> QED BY <1>3, <1>4, <1>5, StoreFields

LEMMA ResizedStores ==
  ASSUME SizesOK, Resized
  PROVE  row' \in Rows
  <1>1. row \in Rows
    BY DEF SizesOK, Resized
  <1>2. PICK size \in Supported, kust \in {row.kust, Empty} :
          row' = Store([row EXCEPT !.size = size, !.kust = kust, !.scaler = NoScaler], NoRow)
    BY DEF Resized
  <1>3. kust \in Kusts
    BY <1>1, EmptyIsKust DEF Rows
  <1>4. [row EXCEPT !.size = size, !.kust = kust, !.scaler = NoScaler] \in Drafts
    BY <1>1, <1>3 DEF Rows, Drafts
  <1> QED BY <1>2, <1>4, StoreFields

LEMMA SizesInv == SizeSpec => []SizesOK
<1>1. SizeInit => SizesOK
  BY DEF SizeInit, SizesOK
<1>2. SizesOK /\ [SizeNext]_sizeVars => SizesOK'
  <2> SUFFICES ASSUME SizesOK, [SizeNext]_sizeVars PROVE SizesOK'
    OBVIOUS
  <2>1. CASE Reconcile
    BY <2>1 DEF Reconcile, SizesOK
  <2>2. CASE Observe
    <3>1. seen \in Specs /\ row \in Rows /\ UNCHANGED <<spec, row, calm>>
      BY <2>2 DEF Observe, SizesOK
    <3>2. seen' = NoSpec \/ (seen' = seen /\ mem' = LateInit(seen, row))
      BY <2>2 DEF Observe
    <3> QED BY <3>1, <3>2 DEF SizesOK
  <2>3. CASE Apply
    <3>1. row' \in Rows
      BY <2>3, ApplyStores
    <3>2. spec' = spec /\ seen' = NoSpec /\ calm' = (seen = spec)
      BY <2>3 DEF Apply
    <3> QED BY <3>1, <3>2 DEF SizesOK
  <2>4. CASE Refuse
    BY <2>4 DEF Refuse, SizesOK
  <2>5. CASE EditSpec
    BY <2>5 DEF EditSpec, Disturbed, SizesOK
  <2>6. CASE Resized
    <3>1. row' \in Rows
      BY <2>6, ResizedStores
    <3> QED BY <2>6, <3>1 DEF Resized, Disturbed, SizesOK
  <2>7. CASE UNCHANGED sizeVars
    BY <2>7 DEF sizeVars, SizesOK
  <2> QED BY <2>1, <2>2, <2>3, <2>4, <2>5, <2>6, <2>7 DEF SizeNext
<1> QED BY <1>1, <1>2, PTL DEF SizeSpec

\* The strengthening of UpToDateMeansSized: the row the verdict was given on is
\* still the row of that spec, and the two are in step.
InStepWhenUpToDate ==
  verdict = "uptodate" => row \in Rows /\ InStep(LateInit(spec, row), row)

\* Reported up to date, an agent has the size, the patches and the bounds the
\* user asked for, and an invalid combination is never taken for done
\* (cluster.go:569-659, custom_size.go:30-54).
THEOREM UpToDateIsSized == SizeSpec => []UpToDateMeansSized
<1>1. SizeInit => InStepWhenUpToDate
  BY DEF SizeInit, InStepWhenUpToDate
<1>2. SizesOK /\ InStepWhenUpToDate /\ [SizeNext]_sizeVars => InStepWhenUpToDate'
  <2> SUFFICES ASSUME SizesOK, InStepWhenUpToDate, [SizeNext]_sizeVars
               PROVE  InStepWhenUpToDate'
    OBVIOUS
  <2>1. CASE Reconcile
    <3>1. UNCHANGED <<spec, row>> /\ (verdict' = "uptodate" => verdict = "uptodate")
      BY <2>1 DEF Reconcile
    <3> QED BY <3>1 DEF InStepWhenUpToDate
  <2>2. CASE Observe
    <3>1. row \in Rows /\ UNCHANGED <<spec, row>>
      BY <2>2 DEF Observe, SizesOK
    <3>2. verdict' = "uptodate" => InStep(LateInit(spec, row), row)
      BY <2>2 DEF Observe
    <3> QED BY <3>1, <3>2 DEF InStepWhenUpToDate
  <2>3. CASE Apply \/ Refuse
    BY <2>3 DEF Apply, Refuse, InStepWhenUpToDate
  <2>4. CASE EditSpec \/ Resized
    BY <2>4 DEF EditSpec, Resized, Disturbed, InStepWhenUpToDate
  <2>5. CASE UNCHANGED sizeVars
    BY <2>5 DEF sizeVars, InStepWhenUpToDate
  <2> QED BY <2>1, <2>2, <2>3, <2>4, <2>5 DEF SizeNext
<1>3. SizesOK /\ InStepWhenUpToDate => UpToDateMeansSized
  <2> SUFFICES ASSUME spec \in Specs, row \in Rows, InStep(LateInit(spec, row), row)
               PROVE  /\ ~Invalid
                      /\ Known(spec.size) /\ spec.size # "" => row.size = spec.size
                      /\ spec.size = "custom" /\ spec.config # NoConfig =>
                           row.size = "large" /\ row.kust = Wanted.kust
                      /\ spec.size # "custom" /\ spec.kust # Empty => row.kust = spec.kust
                      /\ spec.size = "auto" /\ spec.scaler # NoScaler => row.scaler = spec.scaler
    BY DEF UpToDateMeansSized, InStepWhenUpToDate, SizesOK
  <2> QED BY InStepMeansSized DEF Invalid, Wanted
<1> QED BY <1>1, <1>2, <1>3, SizesInv, PTL DEF SizeSpec

\* The strengthening of AppliedSettles: while nothing overtakes the last Apply,
\* any reconcile under way read the spec it applied, and the row is in step.
InStepWhileCalm ==
  calm /\ Storable(spec) =>
    /\ seen \in {NoSpec, spec}
    /\ row \in Rows /\ InStep(LateInit(spec, row), row)
    /\ verdict # "drift"

\* After an Apply that nothing has overtaken there is no drift: what the platform
\* clamps and stamps does not make the provider write again on every poll
\* (cluster.go:623-656, docs/guides/lifecycle-and-reconciliation.md:93).
THEOREM AppliedSizesSettle == SizeSpec => [](Storable(spec) => AppliedSettles)
<1>1. SizeInit => InStepWhileCalm
  BY DEF SizeInit, InStepWhileCalm
<1>2. SizesOK /\ InStepWhileCalm /\ [SizeNext]_sizeVars => InStepWhileCalm'
  <2> SUFFICES ASSUME SizesOK, InStepWhileCalm, [SizeNext]_sizeVars,
                      calm', Storable(spec)'
               PROVE  /\ seen' \in {NoSpec, spec'}
                      /\ row' \in Rows /\ InStep(LateInit(spec', row'), row')
                      /\ verdict' # "drift"
    BY DEF InStepWhileCalm
  <2>1. CASE Reconcile
    BY <2>1 DEF Reconcile, InStepWhileCalm, Storable
  <2>2. CASE Observe
    <3>1. UNCHANGED <<spec, row, calm>> /\ seen # NoSpec
      BY <2>2 DEF Observe
    <3>2. Storable(spec)
      BY <3>1 DEF Storable
    <3>3. seen = spec /\ row \in Rows /\ InStep(LateInit(seen, row), row)
      BY <3>1, <3>2 DEF InStepWhileCalm
    <3>4. seen' = NoSpec /\ verdict' # "drift"
      BY <2>2, <3>3 DEF Observe
    <3> QED BY <3>1, <3>3, <3>4
  <2>3. CASE Apply
    <3>1. /\ spec' = spec /\ seen' = NoSpec /\ verdict' = "idle" /\ calm' = (seen = spec)
          /\ row' = Store(Project(Sized(mem)), row) /\ ~CannotProject(Sized(mem))
          /\ seen # NoSpec
      BY <2>3 DEF Apply, MayWrite
    <3>2. seen = spec
      BY <3>1
    <3>3. Storable(spec)
      BY <3>1 DEF Storable
    <3>4. /\ spec \in Specs /\ (row = NoRow \/ row \in Rows)
          /\ mem = spec \/ (\E o \in Rows : mem = LateInit(spec, o))
      BY <3>1, <3>2 DEF SizesOK
    <3>5. row' \in Rows /\ InStep(LateInit(spec, row'), row')
      BY <3>1, <3>3, <3>4, AppliedIsInStep
    <3> QED BY <3>1, <3>5
  <2>4. CASE Refuse
    BY <2>4 DEF Refuse, InStepWhileCalm, Storable
  <2>5. CASE EditSpec \/ Resized
    BY <2>5 DEF EditSpec, Resized, Disturbed
  <2>6. CASE UNCHANGED sizeVars
    BY <2>6 DEF sizeVars, InStepWhileCalm, Storable
  <2> QED BY <2>1, <2>2, <2>3, <2>4, <2>5, <2>6 DEF SizeNext
<1>3. InStepWhileCalm => (Storable(spec) => AppliedSettles)
  BY DEF InStepWhileCalm, AppliedSettles
<1> QED BY <1>1, <1>2, <1>3, SizesInv, PTL DEF SizeSpec

-------------------------------------------------------------------------------
(* Drift: what the comparison of fields finds, against what the spec asks for    *)

\* None of these fields is ever written as the zero of a Go value: encoding/json
\* would drop it, and nobody could tell it from a field left out.
NoZeroAmong(fields) == \A f \in fields \cap ValueTyped : Zero \notin UserValues[f]

\* Each field of the spec is unset or something a user writes.
Written == [Fields -> {Unset} \cup UNION {UserValues[f] : f \in Fields}]
RawOK == raw \in Written /\ \A f \in Fields : raw[f] = Unset \/ raw[f] \in UserValues[f]

\* What the comparison in Drift is made of, for the spec as it is now.
Seen == Echo(platform.fields)
Wants == LateInitialize(Typed(raw), Seen)

\* A field that counts reaches the comparison as the user wrote it.
LEMMA CountedIsCompared ==
  ASSUME RawOK, NoZeroAmong(LateInited), NEW f \in Fields, Counts(f)
  PROVE  /\ Wants[f] = raw[f]
         /\ Normalized(Wants, Seen)[f] = raw[f]
         /\ NormalizedObserved(Wants, Seen)[f] = Seen[f]
  <1> DEFINE late == Wants
             adopted == Adopted(late, Seen)
  <1>1. raw[f] # Unset /\ f \notin Routing \cup Ignored
    BY DEF Counts
  <1>2. f \in ValueTyped \cap LateInited => raw[f] # Zero
    BY <1>1 DEF RawOK, NoZeroAmong
  <1>3. Typed(raw)[f] = raw[f]
    BY <1>1 DEF Typed
  <1>4. late[f] = raw[f]
    BY <1>1, <1>2, <1>3 DEF Wants, LateInitialize, IsOmitted
  <1>5. adopted[f] = raw[f]
    BY <1>1, <1>4 DEF Adopted, IsOmitted, Counts
  <1>6. ~GateOff(adopted, f)
    <2> SUFFICES ASSUME f \in Gated PROVE ~IsZero(adopted[Gate[f]])
      BY DEF GateOff
    <2> DEFINE gate == Gate[f]
    <2>1. gate \in Inherited \ (Gated \cup Ignored \cup Routing) /\ gate \in Fields
      BY FieldClasses
    <2>2. ~IsZero(IF raw[gate] = Unset THEN platform.fields[gate] ELSE raw[gate])
      BY DEF Counts
    <2> HIDE DEF gate
    <2>3. CASE raw[gate] = Unset
      <3>1. Seen[gate] = platform.fields[gate]
        BY <2>1 DEF Seen, Echo, GateOff
      <3>2. Typed(raw)[gate] = Unset \/ (gate \in ValueTyped /\ Typed(raw)[gate] = Zero)
        BY <2>1, <2>3 DEF Typed
      <3>3. late[gate] = Seen[gate] \/ IsOmitted(late, gate)
        BY <2>1, <3>2 DEF Wants, LateInitialize, IsOmitted
      <3>4. adopted[gate] = Seen[gate]
        BY <2>1, <3>3 DEF Adopted
      <3> QED BY <2>2, <2>3, <3>1, <3>4 DEF gate
    <2>4. CASE raw[gate] # Unset
      <3>1. raw[gate] # Zero
        BY <2>2, <2>4 DEF IsZero
      <3>2. Typed(raw)[gate] = raw[gate]
        BY <2>1, <2>4 DEF Typed
      <3>3. late[gate] = raw[gate]
        BY <2>1, <2>4, <3>1, <3>2 DEF Wants, LateInitialize, IsOmitted
      <3>4. adopted[gate] = raw[gate]
        BY <2>1, <2>4, <3>1, <3>3 DEF Adopted, IsOmitted
      <3> QED BY <2>2, <2>4, <3>4 DEF gate
    <2> QED BY <2>3, <2>4
  <1> HIDE DEF adopted
  <1>7. Normalized(late, Seen)[f] = adopted[f]
    BY <1>6 DEF Normalized, adopted
  <1>8. NormalizedObserved(late, Seen)[f] = Seen[f]
    BY <1>1 DEF NormalizedObserved
  <1> QED BY <1>4, <1>5, <1>7, <1>8

\* The comparison, field by field.
LEMMA ComparedFields ==
  ASSUME NEW d, NEW o, NEW presence \in SUBSET Fields
  PROVE  FieldsUpToDate(d, o, presence) <=>
           \A f \in presence \ Ignored : SameValue(Normalized(d, o)[f], NormalizedObserved(d, o)[f])
  <1> DEFINE p == Projected(Normalized(d, o), presence)
             q == Projected(NormalizedObserved(d, o), presence)
  <1>1. \A f \in Fields : f \notin presence => SameValue(p[f], q[f])
    BY DEF Projected, SameValue
  <1>2. \A f \in presence : p[f] = Normalized(d, o)[f] /\ q[f] = NormalizedObserved(d, o)[f]
    BY DEF Projected
  <1>3. FieldsUpToDate(d, o, presence) <=> \A f \in Fields \ Ignored : SameValue(p[f], q[f])
    BY Zenon DEF FieldsUpToDate
  <1> HIDE DEF p, q
  <1> QED BY <1>1, <1>2, <1>3

LEMMA SameValues ==
  ASSUME NEW v, NEW w
  PROVE  /\ SameValue(v, w) => SameValue(w, v)
         /\ SameValue(v, w) => (IsZero(v) <=> IsZero(w))
  BY DEF SameValue, IsZero

\* A field that counts is shown as the platform holds it, if its gate is open there.
LEMMA CountedIsShown ==
  ASSUME NEW f \in Fields, Counts(f),
         f \in Gated /\ raw[Gate[f]] # Unset => ~IsZero(platform.fields[Gate[f]])
  PROVE  Seen[f] = platform.fields[f]
  <1>1. f \notin Ignored
    BY DEF Counts
  <1>2. ~GateOff(platform.fields, f)
    BY DEF GateOff, Counts
  <1> QED BY <1>1, <1>2 DEF Seen, Echo

\* What the comparison does not object to is in step, whatever it read of the presence.
LEMMA ComparedIsInStep ==
  ASSUME RawOK, NoZeroAmong(LateInited), NEW readable \in BOOLEAN,
         FieldsUpToDate(Wants, Seen, Presence(raw, readable))
  PROVE  FieldsInStep
  <1>1. \A f \in Fields : Counts(f) => SameValue(raw[f], Seen[f])
    <2> SUFFICES ASSUME NEW f \in Fields, Counts(f) PROVE SameValue(raw[f], Seen[f])
      OBVIOUS
    <2>1. f \in Presence(raw, readable) \ Ignored /\ Presence(raw, readable) \in SUBSET Fields
      BY DEF Presence, Counts
    <2>2. SameValue(Normalized(Wants, Seen)[f], NormalizedObserved(Wants, Seen)[f])
      BY <2>1, ComparedFields
    <2> QED BY <2>2, CountedIsCompared
  <1>2. ASSUME NEW f \in Fields, Counts(f), f \in Gated, raw[Gate[f]] # Unset
        PROVE  ~IsZero(platform.fields[Gate[f]])
    <2> DEFINE gate == Gate[f]
    <2>1. gate \in Inherited \ (Gated \cup Ignored \cup Routing) /\ gate \in Fields
      BY <1>2, FieldClasses
    <2>2. ~IsZero(raw[gate])
      BY <1>2 DEF Counts
    <2> HIDE DEF gate
    <2>3. Counts(gate)
      BY <1>2, <2>1, <2>2 DEF Counts, IsZero, gate
    <2>4. Seen[gate] = platform.fields[gate]
      BY <2>1, <2>3, CountedIsShown
    <2>5. SameValue(raw[gate], Seen[gate])
      BY <1>1, <2>1, <2>3
    <2> QED BY <2>2, <2>4, <2>5, SameValues DEF gate
  <1> SUFFICES ASSUME NEW f \in Fields, Counts(f)
               PROVE  SameValue(platform.fields[f], raw[f])
    BY DEF FieldsInStep
  <1>3. Seen[f] = platform.fields[f]
    BY <1>2, CountedIsShown
  <1> QED BY <1>1, <1>3, SameValues

\* What is in step the comparison does not object to, when it could read the presence.
LEMMA InStepIsCompared ==
  ASSUME RawOK, NoZeroAmong(Fields), FieldsInStep
  PROVE  FieldsUpToDate(Wants, Seen, Presence(raw, TRUE))
  <1>1. NoZeroAmong(LateInited)
    BY FieldClasses DEF NoZeroAmong
  <1>2. \A f \in Fields : Counts(f) => SameValue(raw[f], platform.fields[f])
    BY SameValues DEF FieldsInStep
  <1>3. \A f \in Fields \cap ValueTyped : raw[f] # Zero
    BY FieldClasses DEF RawOK, NoZeroAmong
  <1> DEFINE adopted == Adopted(Wants, Seen)
  <1>4. SUFFICES ASSUME NEW f \in Fields, raw[f] # Unset, f \notin Ignored
                 PROVE  SameValue(Normalized(Wants, Seen)[f], NormalizedObserved(Wants, Seen)[f])
    <2>1. Presence(raw, TRUE) = {f \in Fields : raw[f] # Unset}
      BY DEF Presence
    <2> QED BY <2>1, ComparedFields
  <1>5. CASE f \in Routing
    <2>1. f \notin Inherited \cup Gated
      BY <1>5, FieldClasses
    <2>2. Normalized(Wants, Seen)[f] = Wants[f]
      BY <2>1 DEF Normalized, Adopted, GateOff
    <2>3. NormalizedObserved(Wants, Seen)[f] = Wants[f]
      BY <1>5 DEF NormalizedObserved
    <2> QED BY <2>2, <2>3 DEF SameValue
  <1>6. CASE f \notin Routing /\ Counts(f)
    <2>1. ASSUME f \in Gated, raw[Gate[f]] # Unset
          PROVE  ~IsZero(platform.fields[Gate[f]])
      <3> DEFINE gate == Gate[f]
      <3>1. gate \in Inherited \ (Gated \cup Ignored \cup Routing) /\ gate \in Fields
        BY <2>1, FieldClasses
      <3>2. ~IsZero(raw[gate])
        BY <1>6, <2>1 DEF Counts
      <3> HIDE DEF gate
      <3>3. Counts(gate)
        BY <2>1, <3>1, <3>2 DEF Counts, IsZero, gate
      <3> QED BY <1>2, <3>1, <3>2, <3>3, SameValues DEF gate
    <2>2. Seen[f] = platform.fields[f]
      BY <1>6, <2>1, CountedIsShown
    <2> QED BY <1>1, <1>2, <1>6, <2>2, CountedIsCompared
  <1>7. CASE f \notin Routing /\ ~Counts(f)
    <2>1. PICK g \in Fields : f \in Gated /\ g = Gate[f]
                              /\ IsZero(IF raw[g] = Unset THEN platform.fields[g] ELSE raw[g])
      BY <1>3, <1>4, <1>7, FieldClasses DEF Counts
    <2>2. g \in Inherited \ (Gated \cup Ignored \cup Routing)
      BY <2>1, FieldClasses
    <2>3. IsZero(adopted[g])
      <3>1. CASE raw[g] = Unset
        <4>1. Seen[g] = platform.fields[g]
          BY <2>2 DEF Seen, Echo, GateOff
        <4>2. Typed(raw)[g] = Unset \/ (g \in ValueTyped /\ Typed(raw)[g] = Zero)
          BY <3>1 DEF Typed
        <4>3. Wants[g] = Seen[g] \/ IsOmitted(Wants, g)
          BY <4>2 DEF Wants, LateInitialize, IsOmitted
        <4>4. adopted[g] = Seen[g]
          BY <2>2, <4>3 DEF Adopted
        <4> QED BY <2>1, <3>1, <4>1, <4>4
      <3>2. CASE raw[g] # Unset
        <4>1. raw[g] = Zero /\ g \notin ValueTyped
          BY <1>3, <2>1, <3>2 DEF IsZero
        <4>2. Typed(raw)[g] = Zero
          BY <3>2, <4>1 DEF Typed
        <4>3. Wants[g] = Zero
          BY <4>1, <4>2, FieldClasses DEF Wants, LateInitialize, IsOmitted
        <4>4. adopted[g] = Zero
          BY <4>1, <4>3, FieldClasses DEF Adopted, IsOmitted
        <4> QED BY <4>4 DEF IsZero
      <3> QED BY <3>1, <3>2
    <2>4. GateOff(adopted, f)
      BY <2>1, <2>3 DEF GateOff
    <2> HIDE DEF adopted
    <2>5. Normalized(Wants, Seen)[f] = Seen[f]
      BY <2>4 DEF Normalized, adopted
    <2>6. NormalizedObserved(Wants, Seen)[f] = Seen[f]
      BY <1>7 DEF NormalizedObserved
    <2> QED BY <2>5, <2>6 DEF SameValue
  <1> QED BY <1>5, <1>6, <1>7

\* An Apply stores what the user wrote, however the draft was completed.
LEMMA StoredAsWritten ==
  ASSUME RawOK, NoZeroAmong(Fields), NEW old, NEW o,
         NEW f \in Fields \ Routing, raw[f] # Unset
  PROVE  StoredFields(old, LateInitialize(Typed(raw), o))[f] = raw[f]
  <1>1. f \in ValueTyped => raw[f] # Zero
    BY DEF RawOK, NoZeroAmong
  <1>2. ~IsOmitted(Typed(raw), f) /\ Typed(raw)[f] = raw[f]
    BY <1>1 DEF Typed, IsOmitted
  <1>3. LateInitialize(Typed(raw), o)[f] = raw[f]
    BY <1>2 DEF LateInitialize
  <1>4. f \in Sent(LateInitialize(Typed(raw), o))
    BY <1>1, <1>3 DEF Sent, IsOmitted
  <1> QED BY <1>3, <1>4 DEF StoredFields

-------------------------------------------------------------------------------
(* Drift: the reconcile                                                          *)

\* The draft of the attempt under way is the spec it fetched, completed at most once.
AttemptOK ==
  mg # NoAttempt =>
    /\ mg = [raw |-> mg.raw, fields |-> mg.fields, manifests |-> mg.manifests]
    /\ found # "uptodate"
    /\ found = "idle" => mg.fields = Typed(mg.raw)
    /\ found # "idle" => \E o : mg.fields = LateInitialize(Typed(mg.raw), o)

DraftsOK == RawOK /\ AttemptOK

LEMMA DraftsInv == Spec => []DraftsOK
<1>1. Init => DraftsOK
  BY DEF Init, DraftsOK, RawOK, AttemptOK, Written, NothingWritten
<1>2. DraftsOK /\ [Next]_vars => DraftsOK'
  <2> SUFFICES ASSUME DraftsOK, [Next]_vars PROVE DraftsOK'
    OBVIOUS
  <2>1. CASE Fetch
    BY <2>1 DEF Fetch, DraftsOK, RawOK, AttemptOK
  <2>2. CASE ObserveInstance
    <3>1. UNCHANGED raw /\ mg # NoAttempt /\ found = "idle"
      BY <2>2 DEF ObserveInstance
    <3>2. \/ mg' = NoAttempt
          \/ /\ mg' = [mg EXCEPT !.fields = LateInitialize(mg.fields, Seen)]
             /\ found' \in {"drift", "degraded"}
      BY <2>2 DEF ObserveInstance, Seen
    <3>3. /\ mg = [raw |-> mg.raw, fields |-> mg.fields, manifests |-> mg.manifests]
          /\ mg.fields = Typed(mg.raw)
      BY <3>1 DEF DraftsOK, AttemptOK
    <3>4. CASE mg' = NoAttempt
      BY <3>1, <3>4 DEF DraftsOK, RawOK, AttemptOK
    <3>5. CASE /\ mg' = [mg EXCEPT !.fields = LateInitialize(mg.fields, Seen)]
               /\ found' \in {"drift", "degraded"}
      <4>1. mg' = [raw |-> mg.raw, fields |-> LateInitialize(mg.fields, Seen),
                   manifests |-> mg.manifests]
        BY <3>3, <3>5
      <4>2. /\ mg'.raw = mg.raw /\ mg'.manifests = mg.manifests
            /\ mg'.fields = LateInitialize(Typed(mg'.raw), Seen)
        BY <3>3, <4>1
      <4>3. AttemptOK'
        BY <3>5, <4>1, <4>2 DEF AttemptOK
      <4> QED BY <3>1, <4>3 DEF DraftsOK, RawOK
    <3> QED BY <3>2, <3>4, <3>5
  <2>3. CASE Update
    BY <2>3 DEF Update, DraftsOK, RawOK, AttemptOK
  <2>4. CASE EditField
    <3>1. PICK f \in Fields, v \in UNION {UserValues[g] : g \in Fields} :
            v \in UserValues[f] /\ raw' = [raw EXCEPT ![f] = v]
      BY <2>4 DEF EditField
    <3>2. RawOK'
      BY <3>1 DEF DraftsOK, RawOK, Written
    <3>3. UNCHANGED mg /\ (mg # NoAttempt => found' = found)
      BY <2>4 DEF EditField, Overtaken, DraftsOK, AttemptOK
    <3> QED BY <3>2, <3>3 DEF DraftsOK, AttemptOK
  <2>5. CASE EditManifests \/ ForeignField \/ ForeignChild
    <3>1. UNCHANGED <<raw, mg>> /\ (mg # NoAttempt => found' = found)
      BY <2>5 DEF EditManifests, ForeignField, ForeignChild, Overtaken, DraftsOK, AttemptOK
    <3> QED BY <3>1 DEF DraftsOK, RawOK, AttemptOK
  <2>6. CASE UNCHANGED vars
    BY <2>6 DEF vars, DraftsOK, RawOK, AttemptOK
  <2> QED BY <2>1, <2>2, <2>3, <2>4, <2>5, <2>6 DEF Next
<1> QED BY <1>1, <1>2, PTL DEF Spec

\* What Observe compares when the spec has not been edited since it was fetched.
LEMMA ObserveCompares ==
  ASSUME DraftsOK, ObserveInstance
  PROVE  /\ UNCHANGED <<raw, manifests, platform, applied, settled>>
         /\ mg # NoAttempt /\ found = "idle"
         /\ found' = "uptodate" => mg.raw = raw /\ mg.manifests = manifests
         /\ \E readable \in BOOLEAN :
              LET inStep == /\ FieldsUpToDate(Wants, Seen, Presence(raw, readable))
                            /\ ChildrenUpToDate(manifests, platform.children, applied = manifests) IN
                mg.raw = raw /\ mg.manifests = manifests =>
                  /\ found' = "uptodate" => inStep
                  /\ found' = "drift" => readable /\ ~inStep
         /\ mg' # NoAttempt => mg'.raw = mg.raw /\ mg'.manifests = mg.manifests
  <1>1. PICK readable \in BOOLEAN :
          LET observed == Echo(platform.fields)
              desired == LateInitialize(mg.fields, observed)
              inStep == /\ FieldsUpToDate(desired, observed, Presence(raw, readable))
                        /\ ChildrenUpToDate(mg.manifests, platform.children, applied = mg.manifests) IN
            IF inStep
              THEN /\ mg' = NoAttempt
                   /\ found' = IF mg.raw = raw /\ mg.manifests = manifests THEN "uptodate" ELSE "idle"
              ELSE /\ mg' = [mg EXCEPT !.fields = desired]
                   /\ found' = IF readable THEN "drift" ELSE "degraded"
    BY DEF ObserveInstance
  <1>2. /\ mg # NoAttempt /\ found = "idle"
        /\ UNCHANGED <<raw, manifests, platform, applied, settled>>
    BY DEF ObserveInstance
  <1>3. /\ mg = [raw |-> mg.raw, fields |-> mg.fields, manifests |-> mg.manifests]
        /\ mg.fields = Typed(mg.raw)
    BY <1>2 DEF DraftsOK, AttemptOK
  <1> DEFINE desired == LateInitialize(mg.fields, Seen)
             inStep == /\ FieldsUpToDate(desired, Seen, Presence(raw, readable))
                       /\ ChildrenUpToDate(mg.manifests, platform.children, applied = mg.manifests)
  <1>4. IF inStep
          THEN /\ mg' = NoAttempt
               /\ found' = IF mg.raw = raw /\ mg.manifests = manifests THEN "uptodate" ELSE "idle"
          ELSE /\ mg' = [mg EXCEPT !.fields = desired]
               /\ found' = IF readable THEN "drift" ELSE "degraded"
    BY <1>1 DEF Seen
  <1>5. mg.raw = raw /\ mg.manifests = manifests =>
          (inStep <=> /\ FieldsUpToDate(Wants, Seen, Presence(raw, readable))
                      /\ ChildrenUpToDate(manifests, platform.children, applied = manifests))
    BY <1>3 DEF Wants
  <1>6. mg' # NoAttempt => mg'.raw = mg.raw /\ mg'.manifests = mg.manifests
    BY <1>3, <1>4
  <1> HIDE DEF inStep
  <1> QED BY <1>2, <1>4, <1>5, <1>6

\* The strengthening of UpToDateMeansApplied: the fields are in step, and the
\* comparison of children still says what it said.
AgreesWhenUpToDate ==
  found = "uptodate" =>
    FieldsInStep /\ ChildrenUpToDate(manifests, platform.children, applied = manifests)

\* Reported up to date, every field the user wrote is on the platform, and every
\* path of every child, as far as the comparison of children is right about them:
\* an edit by the user or by another writer, before or after the spec was fetched,
\* is never overlooked (drift.go, presence.go).
THEOREM UpToDateIsApplied ==
  NoZeroAmong(LateInited) => (Spec /\ []ChildrenAgree => []UpToDateMeansApplied)
<1> SUFFICES ASSUME NoZeroAmong(LateInited)
             PROVE  Spec /\ []ChildrenAgree => []UpToDateMeansApplied
  OBVIOUS
<1>1. Init => AgreesWhenUpToDate
  BY DEF Init, AgreesWhenUpToDate
<1>2. DraftsOK /\ AgreesWhenUpToDate /\ [Next]_vars => AgreesWhenUpToDate'
  <2> SUFFICES ASSUME DraftsOK, AgreesWhenUpToDate, [Next]_vars, found' = "uptodate"
               PROVE  FieldsInStep'
                      /\ ChildrenUpToDate(manifests, platform.children, applied = manifests)'
    BY DEF AgreesWhenUpToDate
  <2>1. CASE ObserveInstance
    <3>1. PICK readable \in BOOLEAN :
            /\ FieldsUpToDate(Wants, Seen, Presence(raw, readable))
            /\ ChildrenUpToDate(manifests, platform.children, applied = manifests)
      BY <2>1, ObserveCompares
    <3>2. UNCHANGED <<raw, manifests, platform, applied>>
      BY <2>1, ObserveCompares
    <3>3. FieldsInStep
      BY <3>1, ComparedIsInStep DEF DraftsOK
    <3> QED BY <3>1, <3>2, <3>3 DEF FieldsInStep, Counts
  <2>2. CASE Fetch \/ Update
    BY <2>2 DEF Fetch, Update
  <2>3. CASE EditField \/ EditManifests \/ ForeignField \/ ForeignChild
    BY <2>3 DEF EditField, EditManifests, ForeignField, ForeignChild, Overtaken
  <2>4. CASE UNCHANGED vars
    BY <2>4 DEF vars, AgreesWhenUpToDate, FieldsInStep, Counts
  <2> QED BY <2>1, <2>2, <2>3, <2>4 DEF Next
<1>3. AgreesWhenUpToDate /\ ChildrenAgree => UpToDateMeansApplied
  BY DEF AgreesWhenUpToDate, ChildrenAgree, UpToDateMeansApplied
<1> QED BY <1>1, <1>2, <1>3, DraftsInv, PTL DEF Spec

\* Drift is only reported of something the user wrote: server defaults, fields of
\* other MRs and other writers' children are left alone (presence.go:26-30,
\* children/drift.go:6-14).
THEOREM DriftIsCaused ==
  NoZeroAmong(Fields) => (Spec /\ []ChildrenAgree => DriftHasCause)
<1> SUFFICES ASSUME NoZeroAmong(Fields)
             PROVE  Spec /\ []ChildrenAgree => DriftHasCause
  OBVIOUS
<1>1. DraftsOK /\ ChildrenAgree /\ [Next]_vars =>
        [(found' = "drift" /\ found = "idle" /\ mg.raw = raw /\ mg.manifests = manifests)
           => ~(FieldsInStep /\ ChildrenInStep)]_vars
  <2> SUFFICES ASSUME DraftsOK, ChildrenAgree, [Next]_vars,
                      found' = "drift", found = "idle", mg.raw = raw, mg.manifests = manifests
               PROVE  ~(FieldsInStep /\ ChildrenInStep)
    OBVIOUS
  <2>1. ObserveInstance
    BY DEF Next, Fetch, Update, EditField, EditManifests, ForeignField, ForeignChild, Overtaken, vars
  <2>2. ~(/\ FieldsUpToDate(Wants, Seen, Presence(raw, TRUE))
          /\ ChildrenUpToDate(manifests, platform.children, applied = manifests))
    BY <2>1, ObserveCompares
  <2>3. FieldsInStep => FieldsUpToDate(Wants, Seen, Presence(raw, TRUE))
    BY InStepIsCompared DEF DraftsOK
  <2> QED BY <2>2, <2>3 DEF ChildrenAgree
<1> QED BY <1>1, DraftsInv, PTL DEF Spec, DriftHasCause

\* The strengthening of DriftSettles: while nothing overtakes the last Apply, the
\* fields are in step, and an attempt under way has fetched the spec it applied.
InStepWhileSettled ==
  settled =>
    /\ FieldsInStep
    /\ found # "drift"
    /\ mg # NoAttempt => mg.raw = raw /\ mg.manifests = manifests

\* After an Apply that nothing has overtaken there is no drift, as far as the
\* comparison accepts the children Apply leaves: the same spec is not sent again on
\* every poll (drift.go:31-87).
THEOREM ApplyIsFinal ==
  NoZeroAmong(Fields) => (Spec /\ []ChildrenSettle => []DriftSettles)
<1> SUFFICES ASSUME NoZeroAmong(Fields)
             PROVE  Spec /\ []ChildrenSettle => []DriftSettles
  OBVIOUS
<1>1. Init => InStepWhileSettled
  BY DEF Init, InStepWhileSettled
<1>2. DraftsOK /\ InStepWhileSettled /\ ChildrenSettle /\ [Next]_vars => InStepWhileSettled'
  <2> SUFFICES ASSUME DraftsOK, InStepWhileSettled, ChildrenSettle, [Next]_vars, settled'
               PROVE  /\ FieldsInStep'
                      /\ found' # "drift"
                      /\ mg' # NoAttempt => mg'.raw = raw' /\ mg'.manifests = manifests'
    BY DEF InStepWhileSettled
  <2>1. CASE Fetch
    BY <2>1 DEF Fetch, InStepWhileSettled, FieldsInStep, Counts
  <2>2. CASE ObserveInstance
    <3>1. /\ UNCHANGED <<raw, manifests, platform, applied, settled>>
          /\ mg # NoAttempt /\ mg.raw = raw /\ mg.manifests = manifests
          /\ mg' # NoAttempt => mg'.raw = mg.raw /\ mg'.manifests = mg.manifests
          /\ FieldsInStep
      BY <2>2, ObserveCompares DEF InStepWhileSettled
    <3>2. FieldsUpToDate(Wants, Seen, Presence(raw, TRUE))
      BY <3>1, InStepIsCompared DEF DraftsOK
    <3>3. ChildrenUpToDate(manifests, platform.children, applied = manifests)
      BY <3>1 DEF ChildrenSettle
    <3>4. found' # "drift"
      BY <2>2, <3>1, <3>2, <3>3, ObserveCompares
    <3> QED BY <3>1, <3>4 DEF FieldsInStep, Counts
  <2>3. CASE Update
    <3>1. /\ mg # NoAttempt /\ found # "idle" /\ mg.raw = raw
          /\ platform'.fields = StoredFields(platform.fields, mg.fields)
          /\ UNCHANGED raw /\ mg' = NoAttempt /\ found' = "idle"
      BY <2>3 DEF Update
    <3>2. PICK o : mg.fields = LateInitialize(Typed(raw), o)
      BY <3>1 DEF DraftsOK, AttemptOK
    <3>3. ASSUME NEW f \in Fields, Counts(f)'
          PROVE  SameValue(platform.fields[f], raw[f])'
      <4>1. f \in Fields \ Routing /\ raw[f] # Unset
        BY <3>1, <3>3 DEF Counts
      <4>2. platform'.fields[f] = raw[f]
        BY <3>1, <3>2, <4>1, StoredAsWritten DEF DraftsOK
      <4> QED BY <3>1, <4>2 DEF SameValue
    <3> QED BY <3>1, <3>3 DEF FieldsInStep
  <2>4. CASE EditField \/ EditManifests \/ ForeignField \/ ForeignChild
    BY <2>4 DEF EditField, EditManifests, ForeignField, ForeignChild, Overtaken
  <2>5. CASE UNCHANGED vars
    BY <2>5 DEF vars, InStepWhileSettled, FieldsInStep, Counts
  <2> QED BY <2>1, <2>2, <2>3, <2>4, <2>5 DEF Next
<1>3. InStepWhileSettled => DriftSettles
  BY DEF InStepWhileSettled, DriftSettles
<1> QED BY <1>1, <1>2, <1>3, DraftsInv, PTL DEF Spec

===============================================================================
