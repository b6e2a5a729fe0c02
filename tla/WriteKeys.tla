------------------------------ MODULE WriteKeys ------------------------------
(***************************************************************************)
(* internal/controller/base/terminal_write_guard.go: what the methods of   *)
(* TerminalWriteGuard do to its map, as operators on a set of [key, err]   *)
(* pairs.  TerminalWriteGuard calls them as one shared object;             *)
(* ClusterReconcile calls them from the steps of the Cluster controller.   *)
(*                                                                         *)
(* A key is [gvk, uid, name, fingerprint]: namespace and name are one      *)
(* value, and a fingerprint is the payload it is the hash of.              *)
(***************************************************************************)
EXTENDS Reason

CONSTANT NoUid  \* the empty UID

\* NewTerminalWriteKey: the identity of the object and the fingerprint.
Key(o, p) == [gvk |-> o.gvk, uid |-> o.uid, name |-> o.name, fingerprint |-> p]

\* Mutant of SameResource: one record for each kind of object.
SameResourceByKind(a, b) == a.gvk = b.gvk

\* sameTerminalWriteResource: UIDs decide when both sides have one.
SameResource(a, b) ==
  /\ a.gvk = b.gvk
  /\ IF a.uid # NoUid /\ b.uid # NoUid THEN a.uid = b.uid ELSE a.name = b.name

SamePayload(a, b) == SameResource(a, b) /\ a.fingerprint = b.fingerprint

\* deleteResourceLocked
Without(es, r) == {e \in es : ~SameResource(e.key, r)}

\* Mutant of Recorded: Record without its sweep.
RecordedNoSweep(es, key, err) ==
  IF IsTerminal(err) THEN es \cup {[key |-> key, err |-> err]} ELSE es

\* Record: nothing but a terminal error is kept, and it replaces whatever the
\* object had.
Recorded(es, key, err) ==
  IF IsTerminal(err)
  THEN Without(es, key) \cup {[key |-> key, err |-> err]}
  ELSE es

Matching(es, key) == {e \in es : SamePayload(e.key, key)}

\* Mutant of Suppresses: the deletion timestamp is not looked at.
SuppressesAlways(es, key, deleting) == Matching(es, key) # {}

\* Suppress answers from the map, unless the object is being deleted.
Suppresses(es, key, deleting) == ~deleting /\ Matching(es, key) # {}

\* Mutants of AfterSuppress: a miss leaves the map alone; a hit clears it too.
AfterSuppressKeeps(es, key, deleting) == es
AfterSuppressForgets(es, key, deleting) == Without(es, key)

\* Suppress's effect on the map: a miss drops what the object had.
AfterSuppress(es, key, deleting) ==
  IF Suppresses(es, key, deleting) THEN es ELSE Without(es, key)
==============================================================================
