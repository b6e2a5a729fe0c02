-------------------------------- MODULE Drift --------------------------------
(***************************************************************************)
(* Comparison at work: one Instance or KargoInstance whose fields and      *)
(* children are observed, compared and applied again and again, while its  *)
(* user and other writers of the platform go on editing.  How children are *)
(* compared, applied and exported is in Children.                          *)
(* The row exists throughout; failures of calls and the guard are in       *)
(* Instance and KargoInstance, which take the answer modelled here as given.*)
(***************************************************************************)
EXTENDS FieldDrift

CONSTANTS
  NoAttempt,
  UserValues,        \* [Fields -> SUBSET ...]: what a user writes, Unset included
  ForeignValues,     \* [Fields -> SUBSET ...]: what other writers leave behind
  Floor,             \* [Gated -> Values]: what is shown while the gate is off
  Manifests,         \* the sets of children a user writes: identities to trees
  ForeignTrees,      \* the trees other writers give a child
  NoChildren,
  ChildrenUpToDate(_, _, _), \* the comparison: wanted, on the platform, applied before
  ChildrenApplied(_, _),     \* what an Apply of the second makes of the first
  ChildrenHeld(_, _, _),     \* what the comparison is to tell, path by path
  EditLimit                  \* [edits, foreign]: the bounds of a run

VARIABLES
  raw,       \* forProvider as the API server holds it
  manifests, \* its child resources
  mg,        \* the object of the reconcile under way, or NoAttempt
  platform,  \* the platform's fields and children
  applied,   \* the children whose hash the status holds
  found,     \* "idle", "uptodate", "drift", or "degraded": drift without presence
  settled,   \* what stands on the platform is the last Apply of this very spec
  taken      \* edits and foreign writes so far

vars == <<raw, manifests, mg, platform, applied, found, settled, taken>>

-----------------------------------------------------------------------------
(* The platform                                                            *)

\* A field behind a gate that is off shows its default; a Secret never shows.
Echo(fields) ==
  [f \in Fields |-> IF GateOff(fields, f) THEN Floor[f] ELSE IF f \in Ignored THEN Unset ELSE fields[f]]

StoredFields(fields, d) == [f \in Fields |-> IF f \in Sent(d) THEN d[f] ELSE fields[f]]

-----------------------------------------------------------------------------
(* The reconcile                                                           *)

Fetch ==
  /\ mg = NoAttempt
  /\ mg' = [raw |-> raw, fields |-> Typed(raw), manifests |-> manifests]
  /\ found' = "idle"
  /\ UNCHANGED <<raw, manifests, platform, applied, settled, taken>>

\* The presence is read from the API server a second time, while the fields
\* are those of the object fetched before; the read may fail.
ObserveInstance ==
  /\ mg # NoAttempt /\ found = "idle"
  /\ \E readable \in BOOLEAN :
       LET observed == Echo(platform.fields)
           desired == LateInitialize(mg.fields, observed)
           inStep == /\ FieldsUpToDate(desired, observed, Presence(raw, readable))
                     /\ ChildrenUpToDate(mg.manifests, platform.children, applied = mg.manifests) IN
         IF inStep
           THEN /\ mg' = NoAttempt
                /\ found' = IF mg.raw = raw /\ mg.manifests = manifests THEN "uptodate" ELSE "idle"
           ELSE /\ mg' = [mg EXCEPT !.fields = desired]
                /\ found' = IF readable THEN "drift" ELSE "degraded"
  /\ UNCHANGED <<raw, manifests, platform, applied, settled, taken>>

Update ==
  /\ mg # NoAttempt /\ found \in {"drift", "degraded"}
  /\ platform' = [fields |-> StoredFields(platform.fields, mg.fields),
                  children |-> ChildrenApplied(platform.children, mg.manifests)]
  /\ applied' = mg.manifests
  /\ settled' = (mg.raw = raw /\ mg.manifests = manifests)
  /\ mg' = NoAttempt
  /\ found' = "idle"
  /\ UNCHANGED <<raw, manifests, taken>>

-----------------------------------------------------------------------------
(* The environment                                                         *)

Overtaken ==
  /\ settled' = FALSE
  /\ found' = IF found = "uptodate" THEN "idle" ELSE found

EditField ==
  /\ taken.edits < EditLimit.edits
  /\ \E f \in Fields : \E v \in UserValues[f] \ {raw[f]} : raw' = [raw EXCEPT ![f] = v]
  /\ taken' = [taken EXCEPT !.edits = @ + 1]
  /\ Overtaken
  /\ UNCHANGED <<manifests, mg, platform, applied>>

EditManifests ==
  /\ taken.edits < EditLimit.edits
  /\ \E m \in Manifests \ {manifests} : manifests' = m
  /\ taken' = [taken EXCEPT !.edits = @ + 1]
  /\ Overtaken
  /\ UNCHANGED <<raw, mg, platform, applied>>

ForeignField ==
  /\ taken.foreign < EditLimit.foreign
  /\ \E f \in Fields \ Routing : \E v \in ForeignValues[f] \ {platform.fields[f]} :
       platform' = [platform EXCEPT !.fields[f] = v]
  /\ taken' = [taken EXCEPT !.foreign = @ + 1]
  /\ Overtaken
  /\ UNCHANGED <<raw, manifests, mg, applied>>

ForeignChild ==
  /\ taken.foreign < EditLimit.foreign
  /\ \E k \in DOMAIN platform.children :
       \/ \E t \in ForeignTrees : platform' = [platform EXCEPT !.children[k] = t]
       \/ platform' = [platform EXCEPT !.children = [j \in DOMAIN @ \ {k} |-> @[j]]]
  /\ taken' = [taken EXCEPT !.foreign = @ + 1]
  /\ Overtaken
  /\ UNCHANGED <<raw, manifests, mg, applied>>

Init ==
  /\ raw = NothingWritten
  /\ manifests = NoChildren
  /\ mg = NoAttempt
  /\ platform \in [fields : {[f \in Fields |-> CHOOSE v \in ForeignValues[f] : TRUE]}, children : {NoChildren}]
  /\ applied = NoChildren
  /\ found = "idle"
  /\ settled = FALSE
  /\ taken = [edits |-> 0, foreign |-> 0]

Next == Fetch \/ ObserveInstance \/ Update \/ EditField \/ EditManifests \/ ForeignField \/ ForeignChild

Spec == Init /\ [][Next]_vars
-----------------------------------------------------------------------------
(* What the spec asks for and the platform holds, field by field and path  *)
(* by path.                                                                *)

Counts(f) ==
  /\ raw[f] # Unset
  /\ f \notin Routing \cup Ignored
  /\ ~(f \in Inherited \cap ValueTyped /\ raw[f] = Zero)
  /\ f \in Gated =>
       LET gate == Gate[f] IN ~IsZero(IF raw[gate] = Unset THEN platform.fields[gate] ELSE raw[gate])

FieldsInStep == \A f \in Fields : Counts(f) => SameValue(platform.fields[f], raw[f])

ChildrenInStep == ChildrenHeld(manifests, platform.children, applied = manifests)

\* What the fields' part relies on: the comparison of children says what one path
\* by path says, and accepts what Apply leaves of them.
ChildrenAgree ==
  ChildrenUpToDate(manifests, platform.children, applied = manifests) <=> ChildrenInStep
ChildrenSettle ==
  settled => ChildrenUpToDate(manifests, platform.children, applied = manifests)

\* The comparison by subtrees neither passes over a path the user wrote nor takes
\* a container left out of the export, a null or a server default for drift, and
\* it has nothing against what an Apply leaves, whatever was there before
\* (children/drift.go:222-324).
ChildrenCompared == ChildrenAgree /\ ChildrenSettle

\* When the object is reported up to date, every field the user wrote and every
\* path of every child is on the platform: an edit by the user or by another
\* writer is never overlooked (drift.go, presence.go, children/drift.go).
UpToDateMeansApplied == found = "uptodate" => FieldsInStep /\ ChildrenInStep

\* Drift is only ever reported for something the user wrote: server defaults,
\* fields owned by other MRs and other writers' children are left alone
\* (presence.go:26-30, children/drift.go:6-14).
DriftHasCause ==
  [][ (found' = "drift" /\ found = "idle" /\ mg.raw = raw /\ mg.manifests = manifests)
      => ~(FieldsInStep /\ ChildrenInStep) ]_vars

\* After an Apply that nothing has overtaken, the object is in step: the
\* comparison never sends the same spec again on every poll.
DriftSettles == settled => found # "drift"
=============================================================================
