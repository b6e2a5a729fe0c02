----------------------------- MODULE KargoInstance -----------------------------
(***************************************************************************)
(* internal/controller/kargoinstance: one KargoInstance MR and the Kargo   *)
(* instance on the platform.                                               *)
(*                                                                         *)
(* Like Instance, it sends everything in one Apply and keeps hashes of     *)
(* what it sent in the status: of the Secrets, which the platform never    *)
(* shows, and of the ConfigMap, which it shows only sometimes.  Unlike     *)
(* Instance, it asks the guard before every read, it puts rejected reads   *)
(* on record as well, it knows its workspace, and it sends what an export  *)
(* that fails would have shown only when the next one succeeds.            *)
(*                                                                         *)
(* A Secret stands for the three kinds of references, missing for every    *)
(* way one cannot be used.  The ConfigMap is named after the spec it comes *)
(* from.  The resources are as in Instance.                                *)
(***************************************************************************)
EXTENDS WriteKeys, Naturals

CONSTANTS
  Specs,       \* values of spec.forProvider
  Malformed,   \* those apply rejects itself: a bad Kustomization, a workspace
               \* that does not exist, a resource of the wrong kind
  Refused,     \* those the gateway answers with InvalidArgument
  Poison,      \* those it takes, and then refuses to show the instance
  Named,       \* those that give the workspace by name
  Maps,        \* those with a kargoConfigMap
  Foreign,     \* the contents of a ConfigMap somebody else has written
  NoMap,       \* no ConfigMap has been sent
  MaxContent,  \* how many contents the Secret ever has
  NoRow, NoAttempt, NoFailure,
  ReadFaults,  \* gateway errors of the reads
  WriteFaults, \* gateway errors of ApplyKargoInstance and of the deletion
  Limit        \* bound on what may go wrong or change: see Spend

VARIABLES
  mr,       \* phase, spec, and of the status: ws (the workspace is known),
            \* secretHash (0 when empty), mapHash
  secret,   \* content, and whether the Secret is there and well-formed
  row,      \* the instance: spec, secret, cm, child, sick (reads of it are
            \* rejected); or NoRow
  entries,  \* the terminal-write guard's map
  pc, att,  \* as in ClusterReconcile
  failed,   \* history: the last recorded write, and whether all is as it was
  unread,   \* history: the last read was rejected and recorded, and all is as it was
  rejected, \* history: apply has rejected the spec itself, and all is as it was
  spent

history == <<failed, unread, rejected>>
vars == <<mr, secret, row, entries, pc, att, history, spent>>

ContentIds == 1..MaxContent

ASSUME SpecSets == UNION {Malformed, Refused, Poison, Named, Maps} \subseteq Specs
ASSUME FaultsAreErrors == ReadFaults \subseteq Error /\ WriteFaults \subseteq Error
ASSUME Bounds == MaxContent \in Nat \ {0} /\ Limit \in Nat
ASSUME Sentinels ==
  /\ {Foreign, NoMap} \cap Specs = {} /\ Foreign # NoMap
  /\ NoRow \notin [spec : Specs, secret : ContentIds, cm : Maps \cup {Foreign},
                    child : BOOLEAN, sick : BOOLEAN]
  /\ NoFailure \notin [fingerprint : [spec : Specs, secret : ContentIds],
                        current : BOOLEAN]

me == [gvk |-> "KargoInstance", uid |-> "kargo", name |-> "kargo"]

\* kargoInstanceTerminalWriteKey: the request, or for one that cannot be built the
\* spec, and the hash of the Secrets.  The workspace ID in it is the one the name in
\* the spec, or the default, stands for; when it cannot be found there is no key.
Fingerprint(spec, content) == [spec |-> spec, secret |-> content]

\* hashKargoConfigMap of the spec's own ConfigMap.
MapOf(spec) == IF spec \in Maps THEN spec ELSE NoMap

-------------------------------------------------------------------------------
(* What the steps have in common *)

\* Faults, edits, rotations, changes on the platform and crashes share one bound.
Spends(n) == spent + n <= Limit /\ spent' = spent + n
Spend == Spends(1)

Goto(step) == pc' = step /\ UNCHANGED att
Finish == pc' = "idle" /\ att' = NoAttempt
Fresh == mr.spec = att.spec /\ mr.phase = IF att.deleting THEN "deleting" ELSE "live"

\* The status is saved when a reconcile ends, unless the MR has been written since.
Saves(status) == mr' = IF Fresh THEN [status EXCEPT !.phase = mr.phase] ELSE mr

\* The last recorded write is no longer the last word: nothing was to be written, or
\* it was sent again after the guard had been passed over.
Superseded == IF failed = NoFailure THEN failed ELSE [failed EXCEPT !.current = FALSE]

Remembers == Without(entries, me) # entries

\* resolveWorkspaceID without asking the gateway.
KnowsWorkspace(a) == a.spec \notin Named /\ a.ws

\* The guard has a key: the workspace is resolved and the Secret is there.  A
\* workspace that does not exist has none either.
HasKey(a) == secret.there /\ a.spec \notin Malformed \cap Named

\* suppressTerminalWrite and the answer of the guard, which passes over an MR it has
\* no key for.  This reconcile has had n faults so far.
Guarded(a, n, Suppressed, Otherwise, PassedOver) ==
  LET key == Key(me, Fingerprint(a.spec, secret.content)) IN
    \/ /\ HasKey(a)
       /\ entries' = AfterSuppress(entries, key, a.deleting)
       /\ IF Suppresses(entries, key, a.deleting) THEN Suppressed ELSE Otherwise
       /\ Spends(n)
    \/ ~HasKey(a) /\ PassedOver /\ UNCHANGED entries /\ Spends(n)
    \/ ~KnowsWorkspace(a) /\ PassedOver /\ UNCHANGED entries /\ Spends(n + 1)

-------------------------------------------------------------------------------
(* Observe *)

Copy == [spec |-> mr.spec, deleting |-> mr.phase = "deleting", creating |-> FALSE,
         ws |-> mr.ws, passed |-> FALSE, content |-> 0]
Passing(a) == [a EXCEPT !.passed = TRUE]

\* The start of Observe: the guard, if it holds anything of this MR.
Reconcile ==
  /\ pc = "idle" /\ mr.phase # "gone"
  /\ LET goOn(a) == pc' = "get" /\ att' = a IN
       IF Remembers
       THEN Guarded(Copy, 0, UNCHANGED <<pc, att>>, goOn(Copy), goOn(Passing(Copy)))
       ELSE goOn(Copy) /\ UNCHANGED <<entries, spent>>
  /\ UNCHANGED <<mr, secret, row, history>>

\* ResourceExists is false: the runtime drops the finalizer, or creates.
Absent ==
  IF att.deleting THEN mr' = [mr EXCEPT !.phase = "gone"] /\ Finish
  ELSE pc' = "apply" /\ att' = [att EXCEPT !.creating = TRUE] /\ UNCHANGED mr

ObserveAbsent ==
  /\ pc = "get" /\ row = NoRow
  /\ Absent
  /\ unread' = FALSE
  /\ UNCHANGED <<secret, row, entries, failed, rejected, spent>>

\* Mutant of RecordTerminalObserve: the Secrets are not part of the key.
RecordObserveBySpec(err) ==
  entries' = IF HasKey(att)
             THEN Recorded(entries, Key(me, Fingerprint(att.spec, 0)), err) ELSE entries

\* recordTerminalObserve
RecordTerminalObserve(err) ==
  entries' = IF HasKey(att)
             THEN Recorded(entries, Key(me, Fingerprint(att.spec, secret.content)), err)
             ELSE entries

Fails(err) ==
  CASE GetOutcome(err) = "absent" -> Absent /\ unread' = FALSE /\ UNCHANGED entries
    [] GetOutcome(err) = "provisioning" /\ att.deleting ->
         Goto("delete") /\ UNCHANGED <<mr, entries, unread>>
    [] GetOutcome(err) = "provisioning" /\ ~att.deleting ->
         Finish /\ UNCHANGED <<mr, entries, unread>>
    [] OTHER ->
         /\ RecordTerminalObserve(ClassifyApplyError(err))
         /\ unread' = IF HasKey(att) /\ IsTerminal(ClassifyApplyError(err))
                      THEN Fresh ELSE unread
         /\ Finish
         /\ UNCHANGED mr

\* The platform refuses to show the instance, or the call fails.
ObserveFails ==
  /\ pc = "get"
  /\ \/ /\ row # NoRow /\ row.sick
        /\ Fails(GatewayError("InvalidArgument", {}))
        /\ UNCHANGED spent
     \/ \E f \in ReadFaults : Spend /\ Fails(f)
  /\ UNCHANGED <<secret, row, failed, rejected>>

\* kargoConfigMapUpToDate: the keys of the spec as the export has them or, when it
\* has no ConfigMap, the hash of those sent last.
MapUpToDate(shown) ==
  \/ att.spec \notin Maps
  \/ IF shown THEN row.cm = att.spec ELSE mr.mapHash = att.spec

\* The gateway answers, with the workspace.  Without an export, ConfigMap and
\* resources count as up to date.  The Secrets come last.
ObserveRow ==
  /\ pc = "get" /\ row # NoRow /\ ~row.sick
  /\ \E export \in {"shown", "omitted", "failed"} :
       LET inStep == /\ row.spec = att.spec
                     /\ export # "failed" => MapUpToDate(export = "shown") /\ row.child
           drifted == ~inStep \/ secret.content # mr.secretHash
           known == [att EXCEPT !.ws = TRUE]
           faults == IF export = "failed" THEN 1 ELSE 0
           settle == Saves([mr EXCEPT !.ws = TRUE]) /\ Finish
           write(a) == /\ pc' = IF a.deleting THEN "delete" ELSE "apply"
                       /\ att' = a
                       /\ UNCHANGED mr
       IN IF drifted /\ (inStep => secret.there)
          THEN /\ Guarded(known, faults, settle, write(known), write(Passing(known)))
               /\ UNCHANGED failed
          ELSE /\ entries' = IF HasKey(known) THEN Without(entries, me) ELSE entries
               /\ failed' = IF HasKey(known) THEN Superseded ELSE failed
               /\ IF att.deleting /\ secret.there THEN write(known) ELSE settle
               /\ Spends(faults)
  /\ unread' = FALSE
  /\ UNCHANGED <<secret, row, rejected>>

-------------------------------------------------------------------------------
(* Create and Update: apply *)

\* What is wrong with the spec, the workspace or the Secret is found before there
\* is a key, and not recorded.
ApplyRejects ==
  /\ pc = "apply"
  /\ \/ /\ att.spec \in Malformed
        /\ rejected' = Fresh
        /\ UNCHANGED spent
     \/ /\ ~secret.there
        /\ UNCHANGED <<rejected, spent>>
     \/ ~KnowsWorkspace(att) /\ Spend /\ UNCHANGED rejected
  /\ Finish
  /\ UNCHANGED <<mr, secret, row, entries, failed, unread>>

BuildRequest ==
  /\ pc = "apply" /\ att.spec \notin Malformed /\ secret.there
  /\ pc' = "send"
  /\ att' = [att EXCEPT !.ws = TRUE, !.content = secret.content]
  /\ UNCHANGED <<mr, secret, row, entries, history, spent>>

Sent == Fingerprint(att.spec, att.content)

\* Mutant of Recording: what is sent again is not put on record again.
RecordingOnCreate(err) ==
  /\ entries' = IF att.creating THEN Recorded(entries, Key(me, Sent), err) ELSE entries
  /\ failed' = IF IsTerminal(err)
               THEN [fingerprint |-> Sent,
                     current |-> Fresh /\ secret = [content |-> att.content, there |-> TRUE]]
               ELSE Superseded

\* RecordTerminalWrite with the classified error.
Recording(err) ==
  /\ entries' = Recorded(entries, Key(me, Sent), err)
  /\ failed' = IF IsTerminal(err)
               THEN [fingerprint |-> Sent,
                     current |-> Fresh /\ secret = [content |-> att.content, there |-> TRUE]]
               ELSE Superseded

\* A ConfigMap the spec does not have is left alone; resources are only added.
Applied ==
  row' = [spec |-> att.spec, secret |-> att.content, child |-> TRUE,
          sick |-> att.spec \in Poison,
          cm |-> IF att.spec \in Maps THEN att.spec
                 ELSE IF row = NoRow THEN Foreign ELSE row.cm]

Apply ==
  /\ pc = "send" /\ att.spec \notin Refused
  /\ Applied
  /\ entries' = Without(entries, me)
  /\ failed' = Superseded
  /\ Goto("save")
  /\ UNCHANGED <<mr, secret, unread, rejected, spent>>

ApplyFails ==
  /\ pc = "send"
  /\ \/ /\ att.spec \in Refused
        /\ Recording(ClassifyApplyError(GatewayError("InvalidArgument", {})))
        /\ UNCHANGED <<row, spent>>
     \/ \E f \in WriteFaults :
          /\ Spend
          /\ Recording(ClassifyApplyError(f))
          /\ \/ UNCHANGED row
             \/ IsRetryable(f) /\ att.spec \notin Refused /\ Applied
  /\ Finish
  /\ UNCHANGED <<mr, secret, unread, rejected>>

\* Mutant of SaveHashes: the status keeps the hash of the Secret as it is now.
SaveHashesLate ==
  /\ pc = "save"
  /\ IF att.creating \/ ~secret.there THEN UNCHANGED mr
     ELSE Saves([mr EXCEPT !.ws = TRUE, !.secretHash = secret.content,
                           !.mapHash = MapOf(att.spec)])
  /\ Finish
  /\ UNCHANGED <<secret, row, entries, history, spent>>

\* After a Create the runtime saves the annotations first and takes over the
\* answer, the old status with it.  The hash of the resources, which tells an edit of
\* a project's description from an export without it, is left out.
SaveHashes ==
  /\ pc = "save"
  /\ IF att.creating THEN UNCHANGED mr
     ELSE Saves([mr EXCEPT !.ws = TRUE, !.secretHash = att.content,
                           !.mapHash = MapOf(att.spec)])
  /\ Finish
  /\ UNCHANGED <<secret, row, entries, history, spent>>

-------------------------------------------------------------------------------
(* Delete *)

Delete ==
  /\ pc = "delete"
  /\ entries' = Without(entries, me)
  /\ \/ row' = NoRow /\ UNCHANGED spent
     \/ WriteFaults # {} /\ Spend /\ row' \in {row, NoRow}
  /\ Finish
  /\ UNCHANGED <<mr, secret, history>>

-------------------------------------------------------------------------------
(* Everything else *)

Outdated ==
  /\ failed' = Superseded
  /\ unread' = FALSE /\ rejected' = FALSE

EditSpec ==
  /\ mr.phase = "live"
  /\ Spend
  /\ \E s \in Specs \ {mr.spec} : mr' = [mr EXCEPT !.spec = s]
  /\ Outdated
  /\ UNCHANGED <<secret, row, entries, pc, att>>

RequestDelete ==
  /\ mr.phase = "live"
  /\ mr' = [mr EXCEPT !.phase = "deleting"]
  /\ UNCHANGED <<secret, row, entries, pc, att, history, spent>>

\* The Secret is rotated, deleted, or there again.
SecretChanges ==
  /\ Spend
  /\ \E c \in secret.content..MaxContent, there \in BOOLEAN :
       /\ [content |-> c, there |-> there] # secret
       /\ secret' = [content |-> c, there |-> there]
  /\ Outdated
  /\ UNCHANGED <<mr, row, entries, pc, att>>

\* Someone edits the ConfigMap, removes a resource, breaks or repairs the instance
\* or deletes it in the Akuity UI.
PlatformEdited ==
  /\ row # NoRow
  /\ Spend
  /\ \/ row.cm # Foreign /\ row' = [row EXCEPT !.cm = Foreign]
     \/ row.child /\ row' = [row EXCEPT !.child = FALSE]
     \/ row' = [row EXCEPT !.sick = ~@]
     \/ row' = NoRow
  /\ Outdated
  /\ UNCHANGED <<mr, secret, entries, pc, att>>

Crash ==
  /\ Spend
  /\ entries' = {}
  /\ Finish
  /\ Outdated
  /\ UNCHANGED <<mr, secret, row>>

-------------------------------------------------------------------------------

Init ==
  /\ mr \in [phase : {"live"}, spec : Specs, ws : {FALSE}, secretHash : {0},
             mapHash : {NoMap}]
  /\ secret \in [content : {1}, there : BOOLEAN]
  /\ row = NoRow
  /\ entries = {}
  /\ pc = "idle" /\ att = NoAttempt
  /\ failed = NoFailure /\ unread = FALSE /\ rejected = FALSE
  /\ spent = 0

Observe == Reconcile \/ ObserveAbsent \/ ObserveFails \/ ObserveRow
Write == ApplyRejects \/ BuildRequest \/ Apply \/ ApplyFails \/ SaveHashes
Step == Observe \/ Write \/ Delete

Environment ==
  EditSpec \/ RequestDelete \/ SecretChanges \/ PlatformEdited \/ Crash

Next == Step \/ Environment

Spec == Init /\ [][Next]_vars

\* The workqueue returns to the MR.
FairSpec == Spec /\ WF_vars(Step)

-------------------------------------------------------------------------------
(* Properties *)

Fingerprints == [spec : Specs, secret : ContentIds]

TypeOK ==
  /\ mr \in [phase : {"live", "deleting", "gone"}, spec : Specs, ws : BOOLEAN,
             secretHash : {0} \cup ContentIds, mapHash : Maps \cup {NoMap}]
  /\ secret \in [content : ContentIds, there : BOOLEAN]
  /\ row \in [spec : Specs, secret : ContentIds, cm : Maps \cup {Foreign},
              child : BOOLEAN, sick : BOOLEAN] \cup {NoRow}
  /\ \A e \in entries :
       /\ \E p \in Fingerprints : e.key = Key(me, p)
       /\ e.err \in Error /\ IsTerminal(e.err)
  /\ pc \in {"idle", "get", "apply", "send", "save", "delete"}
  /\ att \in IF pc = "idle" THEN {NoAttempt}
             ELSE [spec : Specs, deleting : BOOLEAN, creating : BOOLEAN, ws : BOOLEAN,
                   passed : BOOLEAN, content : {0} \cup ContentIds]
  /\ failed \in [fingerprint : Fingerprints, current : BOOLEAN] \cup {NoFailure}
  /\ unread \in BOOLEAN /\ rejected \in BOOLEAN
  /\ spent \in Nat

\* "Short-circuit on a cached terminal write before any gateway round-trip"
\* (kargoinstance.go:233): a request on record is not sent again while all is as it
\* was, unless the guard had to be passed over because the workspace could not be
\* looked up.
NoIdenticalRetry ==
  pc = "send" /\ failed # NoFailure /\ failed.current /\ ~att.passed
  => Sent # failed.fingerprint

\* "Recording the same key from Observe lets the suppress check at the top of the
\* next reconcile short-circuit further gateway calls" (kargoinstance.go:523): a read
\* that has been rejected is not made again.
NoIdenticalRead == pc = "get" /\ unread => att.passed \/ att.deleting

\* "would otherwise loop GetKargoInstance->NotFound->Create->reject" on "workspace
\* not found, invalid spec field, malformed Kustomization" (kargoinstance.go:235):
\* a spec that has been rejected is not tried again.
BadInputIsCaught == pc = "apply" => ~rejected

\* A secret hash that agrees with the Secret means that the instance was sent that
\* content (kargoinstance.go:486), although the Secret may change at any step.
HashIsWhatWasApplied ==
  row # NoRow /\ mr.secretHash = secret.content => row.secret = secret.content

\* "Hash equality means the desired CM has already been Applied, so defer drift"
\* (kargoinstance.go:699): with the hash of the spec's ConfigMap in the status, the
\* instance holds no other spec's.
DeferredMeansApplied ==
  row # NoRow /\ mr.spec \in Maps /\ mr.mapHash = mr.spec => row.cm \in {mr.spec, Foreign}

\* The user has to act: a record of a rejection, or of a platform that has been
\* repaired since.
OnRecord == \E e \in entries : e.err.code \in {"PermissionDenied", "InvalidArgument"}

\* The instance holds the spec, the Secret as it is and the resources, and the
\* ConfigMap as far as it is shown.
InStep ==
  /\ row # NoRow
  /\ row.spec = mr.spec /\ row.secret = secret.content /\ row.child
  /\ mr.spec \in Maps => mr.spec \in {row.cm, mr.mapHash}

\* Once changes stop, an MR being deleted has gone and left no instance, and the
\* instance of a live one is in step for good, unless the user has to act or the
\* platform does not show the instance.  A Secret that has gone first stops both:
\* Observe fails before it can say that the instance is to be deleted.
Settles ==
  <>[](\/ mr.phase = "gone" /\ row = NoRow
       \/ ~secret.there
       \/ row # NoRow /\ row.sick
       \/ mr.phase = "live" /\ (mr.spec \in Malformed \/ OnRecord \/ InStep))
===============================================================================
