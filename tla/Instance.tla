-------------------------------- MODULE Instance --------------------------------
(***************************************************************************)
(* internal/controller/instance: one Instance MR and the Argo CD instance  *)
(* on the platform.  One ApplyInstance carries everything: the spec, the   *)
(* ConfigMaps, the contents of the referenced Secrets and the declarative  *)
(* children.                                                               *)
(*                                                                         *)
(* Three things are modelled that the other controllers do not have.  The  *)
(* platform never shows Secrets, so a hash of the last applied contents is *)
(* kept in the status, which the runtime saves after the fact.  What the   *)
(* spec leaves open is filled from the platform before each Update, and    *)
(* sent back.  And the request is put together from maps, so its lists may *)
(* come in another order each time it is built.                            *)
(*                                                                         *)
(* A Secret stands for all six kinds of references, a ConfigMap for the    *)
(* five fields of the late initialization that another actor may change,   *)
(* a child for the resources.  The MR has its finalizer and its external   *)
(* name; a Create nobody is sure of is looked at by an operator at once    *)
(* (ClusterReconcile has both).                                            *)
(***************************************************************************)
EXTENDS WriteKeys, Naturals

CONSTANTS
  Specs,       \* values of spec.forProvider
  Refused,     \* those the gateway answers with InvalidArgument
  Inline,      \* those with an inline Secret among their resources
  Open,        \* those that leave the ConfigMap open
  Ordered,     \* those whose request comes out the same each time it is built
  MaxContent,  \* how many contents the Secret ever has
  Reverts,     \* the Secret may get an old content back
  Values,      \* values of the ConfigMap
  Own,         \* the one the specs that do not leave it open ask for
  Default,     \* the one the platform starts with
  NoRow, NoAttempt, NoFailure,
  ReadFaults,  \* gateway errors of the reads
  WriteFaults, \* gateway errors of ApplyInstance and of the deletion
  Limit        \* bound on what may go wrong or change: see Spend

VARIABLES
  mr,      \* phase, spec, hash (status.atProvider.secretHash, 0 when empty)
  secret,  \* content and whether the Secret is there
  row,     \* the instance: spec, secret, cm, child; or NoRow
  entries, \* the terminal-write guard's map
  pc, att, \* as in ClusterReconcile
  failed,  \* history: the last recorded write, and whether the MR still asks for it
  spent

vars == <<mr, secret, row, entries, pc, att, failed, spent>>

ContentIds == 1..MaxContent

ASSUME SpecSets == UNION {Refused, Inline, Open, Ordered} \subseteq Specs
ASSUME ConfigMaps == {Own, Default} \subseteq Values
ASSUME FaultsAreErrors == ReadFaults \subseteq Error /\ WriteFaults \subseteq Error
ASSUME Flags == Reverts \in BOOLEAN
ASSUME Bounds == MaxContent \in Nat \ {0} /\ Limit \in Nat
ASSUME Sentinels ==
  LET Asked == [spec : Specs, secret : ContentIds, cm : Values] IN
    /\ NoRow \notin [spec : Specs, secret : ContentIds, cm : Values, child : BOOLEAN]
    /\ NoFailure \notin [request : Asked, creating : BOOLEAN, current : BOOLEAN]

me == [gvk |-> "Instance", uid |-> "inst", name |-> "inst"]

\* The request: what the ConfigMap of the spec is, or was filled with, and the
\* order the plugins came in.
Orders(spec) == IF spec \in Ordered THEN {1} ELSE {1, 2}
Request(spec, content, cm) ==
  [spec |-> spec, secret |-> content, cm |-> IF spec \in Open THEN cm ELSE Own]
Fingerprint(request, order) == [request |-> request, order |-> order]

-------------------------------------------------------------------------------
(* What the steps have in common *)

\* Faults, edits, rotations, changes on the platform and crashes share one bound.
Spend == spent < Limit /\ spent' = spent + 1

Goto(step) == pc' = step /\ UNCHANGED att

Finish == pc' = "idle" /\ att' = NoAttempt

Fresh == mr.spec = att.spec /\ mr.phase = IF att.deleting THEN "deleting" ELSE "live"

\* suppressTerminalWrite: without the Secret there is no key, and no answer.
Guarded(request, Otherwise) ==
  IF ~secret.there THEN UNCHANGED entries /\ Otherwise
  ELSE \E order \in Orders(request.spec) :
         LET key == Key(me, Fingerprint(request, order)) IN
           /\ entries' = AfterSuppress(entries, key, att.deleting)
           /\ IF Suppresses(entries, key, att.deleting)
              THEN Finish /\ UNCHANGED mr ELSE Otherwise

-------------------------------------------------------------------------------
(* Observe *)

Reconcile ==
  /\ pc = "idle" /\ mr.phase # "gone"
  /\ pc' = "get"
  /\ att' = [spec |-> mr.spec, deleting |-> mr.phase = "deleting", creating |-> FALSE,
             request |-> Request(mr.spec, secret.content, Default), order |-> 1]
  /\ UNCHANGED <<mr, secret, row, entries, failed, spent>>

\* NotFound, or what the client takes for it.  Only now is the guard asked; the
\* runtime drops the finalizer or goes on to Create.
Absent ==
  Guarded(Request(att.spec, secret.content, Default),
          IF att.deleting
          THEN mr' = [mr EXCEPT !.phase = "gone"] /\ Finish
          ELSE /\ pc' = "build"
               /\ att' = [att EXCEPT !.creating = TRUE]
               /\ UNCHANGED mr)

ObserveAbsent ==
  /\ pc = "get" /\ row = NoRow
  /\ Absent
  /\ UNCHANGED <<secret, row, failed, spent>>

\* A wait is taken for up to date; anything else is an error.
ObserveFails ==
  /\ pc = "get"
  /\ \E f \in ReadFaults :
       /\ Spend
       /\ CASE GetOutcome(f) = "absent" -> Absent
            [] GetOutcome(f) = "provisioning" /\ att.deleting ->
                 Goto("delete") /\ UNCHANGED <<mr, entries>>
            [] OTHER -> Finish /\ UNCHANGED <<mr, entries>>
  /\ UNCHANGED <<secret, row, failed>>

SpecInStep == row.spec = att.spec /\ (att.spec \in Open \/ row.cm = Own)

\* The export, late initialization from it and the search for drift: the spec
\* first, then the Secrets, then the children.  A Secret that cannot be resolved
\* is an error, whatever Observe is for, unless drift was found before.
ObserveRow ==
  /\ pc = "get" /\ row # NoRow
  /\ LET request == Request(att.spec, secret.content, row.cm)
         drifted == \/ ~SpecInStep
                    \/ secret.content # mr.hash
                    \/ ~row.child
         goTo(step) == /\ pc' = IF att.deleting THEN "delete" ELSE step
                       /\ att' = [att EXCEPT !.request = request]
     IN IF SpecInStep /\ ~secret.there THEN Finish /\ UNCHANGED entries
        ELSE IF drifted THEN Guarded(request, goTo("build"))
        ELSE /\ entries' = Without(entries, me)
             /\ IF att.deleting THEN goTo("delete") ELSE Finish
  /\ UNCHANGED <<mr, secret, row, failed, spent>>

-------------------------------------------------------------------------------
(* Create and Update *)

\* Mutant of GiveUp: the key is that of the spec before late initialization.
GiveUpOnSpec(err) ==
  LET filled == Request(att.spec, att.request.secret, Default) IN
    /\ entries' = Recorded(entries, Key(me, Fingerprint(filled, att.order)), err)
    /\ failed' = IF IsTerminal(err)
                 THEN [request |-> att.request, creating |-> att.creating,
                       current |-> Fresh /\ secret = [content |-> att.request.secret,
                                                      there |-> TRUE]]
                 ELSE failed
    /\ Finish

\* RecordTerminalWrite with the classified error.
GiveUp(err) ==
  /\ entries' = Recorded(entries, Key(me, Fingerprint(att.request, att.order)), err)
  /\ failed' = IF IsTerminal(err)
               THEN [request |-> att.request, creating |-> att.creating,
                     current |-> Fresh /\ secret = [content |-> att.request.secret,
                                                    there |-> TRUE]]
               ELSE failed
  /\ Finish

\* The Secrets are resolved, and the key is that of a request built for it.
BuildRequest ==
  /\ pc = "build"
  /\ IF ~secret.there THEN Finish
     ELSE \E order \in Orders(att.spec) :
            /\ pc' = "apply"
            /\ att' = [att EXCEPT !.request.secret = secret.content, !.order = order]
  /\ UNCHANGED <<mr, secret, row, entries, failed, spent>>

\* Children are added, never removed.  A ConfigMap nobody sets keeps its default.
Applied ==
  row' = [spec |-> att.spec, secret |-> att.request.secret, child |-> TRUE,
          cm |-> IF row = NoRow /\ att.spec \in Open THEN Default ELSE att.request.cm]

Apply ==
  /\ pc = "apply" /\ att.spec \notin Refused \cup Inline
  /\ Applied
  /\ entries' = Without(entries, me)
  /\ Goto("save")
  /\ UNCHANGED <<mr, secret, failed, spent>>

\* An inline Secret fails the build of the request that is to be sent; the gateway
\* refuses; or the call fails, and may have taken effect when its reply is lost.
ApplyFails ==
  /\ pc = "apply"
  /\ \/ /\ att.spec \in Inline
        /\ GiveUp(ClassifyApplyError(AsTerminal(Opaque({}))))
        /\ UNCHANGED <<row, spent>>
     \/ /\ att.spec \in Refused
        /\ GiveUp(ClassifyApplyError(GatewayError("InvalidArgument", {})))
        /\ UNCHANGED <<row, spent>>
     \/ \E f \in WriteFaults :
          /\ att.spec \notin Inline
          /\ Spend
          /\ GiveUp(ClassifyApplyError(f))
          /\ \/ UNCHANGED row
             \/ IsRetryable(f) /\ att.spec \notin Refused /\ Applied
  /\ UNCHANGED <<mr, secret>>

\* Mutant of SaveHash: the status keeps the hash of the Secret as it is now.
SaveHashLate ==
  /\ pc = "save"
  /\ mr' = IF Fresh /\ ~att.creating /\ secret.there
           THEN [mr EXCEPT !.hash = secret.content] ELSE mr
  /\ Finish
  /\ UNCHANGED <<secret, row, entries, failed, spent>>

\* The status goes to the API server at the end of the reconcile, unless the MR
\* has been written since.  After a Create the runtime saves the annotations
\* first and takes over the answer, the old status with it.
SaveHash ==
  /\ pc = "save"
  /\ mr' = IF Fresh /\ ~att.creating THEN [mr EXCEPT !.hash = att.request.secret] ELSE mr
  /\ Finish
  /\ UNCHANGED <<secret, row, entries, failed, spent>>

-------------------------------------------------------------------------------
(* Delete *)

Delete ==
  /\ pc = "delete"
  /\ entries' = Without(entries, me)
  /\ \/ row' = NoRow /\ UNCHANGED spent
     \/ WriteFaults # {} /\ Spend /\ row' \in {row, NoRow}
  /\ Finish
  /\ UNCHANGED <<mr, secret, failed>>

-------------------------------------------------------------------------------
(* Everything else *)

Outdated(f) == IF f = NoFailure THEN f ELSE [f EXCEPT !.current = FALSE]

EditSpec ==
  /\ mr.phase = "live"
  /\ Spend
  /\ \E s \in Specs \ {mr.spec} : mr' = [mr EXCEPT !.spec = s]
  /\ failed' = Outdated(failed)
  /\ UNCHANGED <<secret, row, entries, pc, att>>

RequestDelete ==
  /\ mr.phase = "live"
  /\ mr' = [mr EXCEPT !.phase = "deleting"]
  /\ UNCHANGED <<secret, row, entries, pc, att, failed, spent>>

\* The Secret is rotated, deleted, or there again.
SecretChanges ==
  /\ Spend
  /\ \E c \in ContentIds, there \in BOOLEAN :
       /\ c >= secret.content \/ Reverts
       /\ [content |-> c, there |-> there] # secret
       /\ secret' = [content |-> c, there |-> there]
  /\ failed' = Outdated(failed)
  /\ UNCHANGED <<mr, row, entries, pc, att>>

\* Someone edits the ConfigMap, removes a child or deletes the instance in the
\* Akuity UI.
PlatformEdited ==
  /\ row # NoRow
  /\ Spend
  /\ \/ \E v \in Values \ {row.cm} : row' = [row EXCEPT !.cm = v]
     \/ row.child /\ row' = [row EXCEPT !.child = FALSE]
     \/ row' = NoRow
  /\ failed' = Outdated(failed)
  /\ UNCHANGED <<mr, secret, entries, pc, att>>

Crash ==
  /\ Spend
  /\ entries' = {}
  /\ Finish
  /\ failed' = Outdated(failed)
  /\ UNCHANGED <<mr, secret, row>>

-------------------------------------------------------------------------------

Init ==
  /\ mr \in [phase : {"live"}, spec : Specs, hash : {0}]
  /\ secret \in [content : {1}, there : BOOLEAN]
  /\ row = NoRow
  /\ entries = {}
  /\ pc = "idle" /\ att = NoAttempt
  /\ failed = NoFailure
  /\ spent = 0

Observe == Reconcile \/ ObserveAbsent \/ ObserveFails \/ ObserveRow
Write == BuildRequest \/ Apply \/ ApplyFails \/ SaveHash
Step == Observe \/ Write \/ Delete

Environment ==
  EditSpec \/ RequestDelete \/ SecretChanges \/ PlatformEdited \/ Crash

Next == Step \/ Environment

Spec == Init /\ [][Next]_vars

\* The workqueue returns to the MR.
FairSpec == Spec /\ WF_vars(Step)

-------------------------------------------------------------------------------
(* Properties *)

Requests == [spec : Specs, secret : ContentIds, cm : Values]

TypeOK ==
  /\ mr \in [phase : {"live", "deleting", "gone"}, spec : Specs, hash : {0} \cup ContentIds]
  /\ secret \in [content : ContentIds, there : BOOLEAN]
  /\ row \in [spec : Specs, secret : ContentIds, cm : Values, child : BOOLEAN] \cup {NoRow}
  /\ \A e \in entries :
       /\ \E r \in Requests, o \in {1, 2} : e.key = Key(me, Fingerprint(r, o))
       /\ e.err \in Error /\ IsTerminal(e.err)
  /\ pc \in {"idle", "get", "build", "apply", "save", "delete"}
  /\ att \in IF pc = "idle" THEN {NoAttempt}
             ELSE [spec : Specs, deleting : BOOLEAN, creating : BOOLEAN,
                   request : Requests, order : {1, 2}]
  /\ failed \in [request : Requests, creating : BOOLEAN, current : BOOLEAN]
                  \cup {NoFailure}
  /\ spent \in Nat

\* "Update failures are suppressed later, after lateInitializeInstance has made
\* the Observe-side key match Update's recorded key" (instance.go:96): a request on
\* record is not sent again while the spec, the Secret and the instance stay as
\* they are.  Sent is what it says, in whatever order it says it.
NoIdenticalRetry ==
  pc = "apply" /\ failed # NoFailure /\ failed.current
  => att.request # failed.request

\* "SecretHash is written by Create/Update after a successful Apply and drives
\* rotation drift" (instance.go:155): a hash that agrees with the Secret as it is
\* means that the instance was sent that content, although the Secret may have been
\* rotated during the Apply and the status saved after the next one.
HashIsWhatWasApplied ==
  row # NoRow /\ mr.hash = secret.content => row.secret = secret.content

\* The instance holds the spec, the Secret as it is and the children.
InStep ==
  /\ row # NoRow
  /\ row.spec = mr.spec /\ row.secret = secret.content /\ row.child
  /\ mr.spec \notin Open => row.cm = Own

\* Once changes stop, an MR being deleted has gone and left no instance, and the
\* instance of a live one is in step for good, unless the user has to act.  A
\* Secret that has gone first is such a reason in both cases: Observe fails before
\* it can say that the instance is to be deleted.
Settles ==
  <>[](\/ mr.phase = "gone" /\ row = NoRow
       \/ ~secret.there
       \/ /\ mr.phase = "live"
          /\ \/ mr.spec \in Refused \cup Inline
             \/ \E e \in entries : e.err.code = "PermissionDenied"
             \/ InStep)

\* What the spec leaves open is the platform's: an update does not undo what
\* someone has set there.
KeepsForeign ==
  [][row # NoRow /\ row' # NoRow /\ pc = "apply" /\ att.spec \in Open
     => row'.cm = row.cm]_vars
===============================================================================
