----------------------------- MODULE GuardLemmas -----------------------------
(***************************************************************************)
(* Facts about the operators of Reason and WriteKeys, for the proofs about *)
(* the controllers: tagging and classifying an error yields an error, a    *)
(* classifier's verdict is never both terminal and retryable, and what the *)
(* guard's methods make of a map that holds the entries of one object.     *)
(***************************************************************************)
EXTENDS WriteKeys, TLAPS

\* What the constructors build is an error.
LEMMA ConstructedErrors ==
  ASSUME NEW code \in Codes, NEW says \in SUBSET Texts
  PROVE  GatewayError(code, says) \in Error
  BY DEF GatewayError, Error

\* Tagging keeps an error an error.
LEMMA TaggedErrors ==
  ASSUME NEW e \in Error
  PROVE  /\ AsTerminal(e) \in Error
         /\ AsRetryable(e) \in Error
         /\ AsNotFound(e) \in Error
         /\ AsNotReconciled(e) \in Error
  <1>1. AsTerminal(e) \in Error
    BY DEF AsTerminal, Error, Tags
  <1>2. ASSUME NEW tag \in Tags PROVE Sealed(tag, e) \in Error
    BY DEF Sealed, Error, Codes
  <1> QED BY <1>1, <1>2 DEF AsRetryable, AsNotFound, AsNotReconciled, Tags

\* So do the classifiers and the read boundary.
LEMMA ClassifiedErrors ==
  ASSUME NEW e \in Error
  PROVE  /\ ClassifyApplyError(e) \in Error
         /\ ClassifyManifestInstallError(e) \in Error
         /\ ReadError(e) \in Error
  BY TaggedErrors DEF ClassifyApplyError, ClassifyManifestInstallError, ReadError

\* Tagging an error terminal does not make it retryable, and the other way round.
LEMMA TagsAreApart ==
  ASSUME NEW e \in Error
  PROVE  /\ IsTerminal(AsTerminal(e))
         /\ IsRetryable(AsTerminal(e)) => IsRetryable(e)
         /\ IsRetryable(AsRetryable(e))
         /\ ~IsTerminal(AsRetryable(e))
  <1>1. /\ IsTerminal(AsTerminal(e))
        /\ AsTerminal(e).code = e.code /\ AsTerminal(e).says = e.says
        /\ "retryable" \in AsTerminal(e).tags => "retryable" \in e.tags
    BY DEF IsTerminal, AsTerminal, Error
  <1>2. IsRetryable(AsTerminal(e)) => IsRetryable(e)
    BY <1>1 DEF IsRetryable, IsRetryableGRPC, IsProvisioningWait
  <1>3. IsRetryable(AsRetryable(e)) /\ ~IsTerminal(AsRetryable(e))
    BY DEF IsRetryable, IsTerminal, AsRetryable, Sealed
  <1> QED BY <1>1, <1>2, <1>3

\* A gateway error is neither tagged nor, unless its code or text is transient,
\* retryable; a bare error of the provider itself is neither.
LEMMA BareErrors ==
  /\ Opaque({}) \in Error
  /\ \A code \in Codes : GatewayError(code, {}) \in Error
  /\ AsNotFound(Opaque({})) \in Error
  /\ AsTerminal(Opaque({})) \in Error
  <1>1. "opaque" \in Codes /\ {} \in SUBSET Texts
    BY DEF Codes
  <1>2. \A code \in Codes : GatewayError(code, {}) \in Error
    BY <1>1, ConstructedErrors
  <1>3. Opaque({}) \in Error
    BY <1>1, <1>2 DEF Opaque
  <1> QED BY <1>2, <1>3, TaggedErrors

-------------------------------------------------------------------------------
(* The map of a controller that has one object *)

\* Every entry is one of o's.
OwnEntries(es, o) == \A e \in es : \E p : e.key = Key(o, p)

\* The guard's map holds well-formed entries of o, with payloads of P.
WellFormed(es, o, P) ==
  \A e \in es : (\E p \in P : e.key = Key(o, p)) /\ e.err \in Error /\ IsTerminal(e.err)

\* A key belongs to the object it was made for, whatever the payload, and keeps
\* the payload.
LEMMA KeyOfObject ==
  ASSUME NEW o, NEW p, NEW q
  PROVE  /\ SameResource(Key(o, p), o)
         /\ SameResource(Key(o, p), Key(o, q))
         /\ Key(o, p).fingerprint = p
         /\ SamePayload(Key(o, p), Key(o, q)) <=> p = q
  BY DEF SameResource, SamePayload, Key

\* Sweeping the object empties the map.
LEMMA SweptEmpty ==
  ASSUME NEW es, NEW o, OwnEntries(es, o), NEW p
  PROVE  Without(es, o) = {} /\ Without(es, Key(o, p)) = {}
  BY KeyOfObject DEF OwnEntries, Without

\* A terminal error becomes the only entry; any other leaves the map alone.
LEMMA RecordedOnly ==
  ASSUME NEW es, NEW o, OwnEntries(es, o), NEW p, NEW err
  PROVE  /\ IsTerminal(err) => Recorded(es, Key(o, p), err) = {[key |-> Key(o, p), err |-> err]}
         /\ ~IsTerminal(err) => Recorded(es, Key(o, p), err) = es
  BY SweptEmpty DEF Recorded

\* The guard holds payload p.
Holds(es, p) == \E e \in es : e.key.fingerprint = p

\* A live object's question is answered from the map exactly when the map holds
\* its payload; any other question empties the map.
LEMMA AskedOnce ==
  ASSUME NEW es, NEW o, OwnEntries(es, o), NEW p, NEW deleting
  PROVE  /\ Suppresses(es, Key(o, p), deleting) <=> ~deleting /\ Holds(es, p)
         /\ Suppresses(es, Key(o, p), deleting) => AfterSuppress(es, Key(o, p), deleting) = es
         /\ ~Suppresses(es, Key(o, p), deleting) => AfterSuppress(es, Key(o, p), deleting) = {}
  <1>1. Matching(es, Key(o, p)) # {} <=> Holds(es, p)
    BY KeyOfObject DEF OwnEntries, Matching, Holds
  <1> QED BY <1>1, SweptEmpty DEF Suppresses, AfterSuppress

\* What the guard's methods do to a map keeps its entries well-formed.
LEMMA EntriesStay ==
  ASSUME NEW es, NEW o, NEW P, WellFormed(es, o, P), NEW p \in P, NEW err \in Error,
         NEW deleting
  PROVE  /\ OwnEntries(es, o)
         /\ WellFormed({}, o, P)
         /\ WellFormed(Recorded(es, Key(o, p), err), o, P)
         /\ WellFormed(AfterSuppress(es, Key(o, p), deleting), o, P)
         /\ WellFormed(Without(es, o), o, P)
  <1>1. OwnEntries(es, o)
    BY DEF WellFormed, OwnEntries
  <1>2. WellFormed({}, o, P)
    BY DEF WellFormed
  <1>3. WellFormed(Recorded(es, Key(o, p), err), o, P)
    BY <1>1, RecordedOnly DEF WellFormed
  <1>4. WellFormed(AfterSuppress(es, Key(o, p), deleting), o, P)
    BY <1>1, <1>2, AskedOnce
  <1> QED BY <1>1, <1>2, <1>3, <1>4, SweptEmpty
==============================================================================
