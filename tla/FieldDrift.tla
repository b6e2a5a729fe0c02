----------------------------- MODULE FieldDrift -----------------------------
(***************************************************************************)
(* How the fields of spec.forProvider are compared with the platform's:    *)
(* base.DriftSpec, base.FieldPresence, utils/cmp.EquateEmpty and the       *)
(* normalizers of the Instance and KargoInstance controllers.  A field is  *)
(* known by the treatment the code gives it, not by its content.           *)
(***************************************************************************)
EXTENDS Naturals

CONSTANTS
  Fields,       \* the fields of forProvider that are told apart
  ValueTyped,   \* Go values with omitempty: unset and zero are one in memory
  Inherited,    \* an unset field takes the observed value before the comparison
  LateInited,   \* an unset field takes the observed value before anything else
  Routing,      \* selectors: observed takes the desired value (workspace)
  Ignored,      \* never compared: Secret references, the platform's own keys
  Gated,        \* fields that count only while their gate is on ...
  Gate,         \* ... and the gate of each
  Unset, Zero,  \* not written by the user, and written as false, 0 or ""
  Values        \* everything else a field can hold

ASSUME FieldClasses ==
  /\ ValueTyped \cup Inherited \cup LateInited \cup Routing \cup Ignored \cup Gated \subseteq Fields
  /\ Gate \in [Gated -> Inherited \ (Gated \cup Ignored \cup Routing)]
  /\ Routing \cap (Inherited \cup Gated) = {}
  /\ Unset # Zero /\ {Unset, Zero} \cap Values = {}

NothingWritten == [f \in Fields |-> Unset]

\* The typed object cannot tell an omitted scalar from an explicit zero.
Typed(raw) == [f \in Fields |-> IF raw[f] = Unset /\ f \in ValueTyped THEN Zero ELSE raw[f]]

IsZero(v) == v \in {Unset, Zero}

\* A pointer is empty when it is nil, a value when it is zero.
IsOmitted(d, f) == d[f] = Unset \/ (f \in ValueTyped /\ d[f] = Zero)

\* lateInitializeInstance
LateInitialize(d, o) == [f \in Fields |-> IF f \in LateInited /\ IsOmitted(d, f) THEN o[f] ELSE d[f]]

\* normalizeInstanceParameters and the Normalize of KargoInstance: first the
\* unset fields, then those whose gate turns out to be off.
Adopted(d, o) == [f \in Fields |-> IF f \in Inherited /\ IsOmitted(d, f) THEN o[f] ELSE d[f]]
GateOff(d, f) == f \in Gated /\ IsZero(d[Gate[f]])
\* Mutants: the gate is forgotten, or the observed value is taken every time.
NormalizedUngated(d, o) == Adopted(d, o)
NormalizedEager(d, o) == [f \in Fields |-> IF f \in Inherited THEN o[f] ELSE d[f]]

Normalized(d, o) ==
  LET a == Adopted(d, o) IN [f \in Fields |-> IF GateOff(a, f) THEN o[f] ELSE a[f]]

NormalizedObserved(d, o) == [f \in Fields |-> IF f \in Routing THEN d[f] ELSE o[f]]

\* ForProviderPresence: the fields of the raw object; all of them when the raw
\* object could not be read.
PresenceTyped(raw, readable) == {f \in Fields : Typed(raw)[f] # Unset} \* mutant: read from the typed object
Presence(raw, readable) == IF readable THEN {f \in Fields : raw[f] # Unset} ELSE Fields

\* ProjectByPresence
Projected(v, presence) == [f \in Fields |-> IF f \in presence THEN v[f] ELSE Unset]

\* cmp.Equal under EquateEmpty: two zeros are equal whatever their kind.
SameValue(v, w) == v = w \/ (IsZero(v) /\ IsZero(w))

\* DriftSpec.UpToDate
FieldsUpToDate(d, o, presence) ==
  LET p == Projected(Normalized(d, o), presence)
      q == Projected(NormalizedObserved(d, o), presence) IN
    \A f \in Fields \ Ignored : SameValue(p[f], q[f])

\* What an Apply request carries: omitempty drops zero values and nil pointers.
Sent(d) == {f \in Fields \ Routing : ~IsOmitted(d, f)}
=============================================================================
