-------------------------- MODULE TerminalWriteGuard --------------------------
(***************************************************************************)
(* internal/controller/base/terminal_write_guard.go: the process-wide map  *)
(* from TerminalWriteKey to error that stops Observe from scheduling again *)
(* a write the gateway has already rejected for good.                      *)
(*                                                                         *)
(* Every method holds the guard's mutex from its first read of the map to  *)
(* its last, so each is one action.  A fingerprint stands for the hash of  *)
(* the outbound payload; namespace and name are one value, Name.           *)
(***************************************************************************)
EXTENDS WriteKeys

CONSTANTS
  Objects,   \* the managed objects, as [gvk, uid, name] records
  Payloads,  \* fingerprints of outbound payloads
  Errors,    \* errors a write can return
  Nothing,   \* see WriteMemory
  Miss       \* Suppress's third result is false

VARIABLES
  entries,  \* TerminalWriteGuard.entries, as a set of [key, err] pairs
  answer    \* the error returned by the last Suppress, or Miss

guardVars == <<entries, answer>>

ASSUME GuardErrors == Errors \subseteq Error
ASSUME GuardMissIsNoError == Miss \notin Errors
ASSUME GuardNothing == Nothing \notin [payload : Payloads, err : Errors]
\* The API server gives every live object an identity of its own.
ASSUME ObjectsDistinct ==
  \A a, b \in Objects : SameResource(a, b) => a = b

TerminalErrors == {err \in Errors : IsTerminal(err)}

Keys == {Key(o, p) : o \in Objects, p \in Payloads}

-------------------------------------------------------------------------------
(* The guard called by any controller, in any order *)

GuardInit == entries = {} /\ answer = Miss

Record(o, p, err) ==
  /\ entries' = Recorded(entries, Key(o, p), err)
  /\ UNCHANGED answer

Clear(o) ==
  /\ entries' = Without(entries, o)
  /\ UNCHANGED answer

Suppress(o, p, deleting) ==
  /\ entries' = AfterSuppress(entries, Key(o, p), deleting)
  /\ answer' \in IF Suppresses(entries, Key(o, p), deleting)
                 THEN {e.err : e \in Matching(entries, Key(o, p))}
                 ELSE {Miss}

GuardNext ==
  \E o \in Objects :
    \/ Clear(o)
    \/ \E p \in Payloads :
         \/ \E err \in Errors : Record(o, p, err)
         \/ \E deleting \in BOOLEAN : Suppress(o, p, deleting)

GuardSpec == GuardInit /\ [][GuardNext]_guardVars

-------------------------------------------------------------------------------
(* Properties *)

GuardTypeOK ==
  /\ entries \subseteq [key : Keys, err : TerminalErrors]
  /\ answer \in TerminalErrors \cup {Miss}

\* Two entries never belong to the same object: Record and a missing Suppress
\* both sweep the resource first, so iterating the Go map in any order finds
\* the same answer.
OneEach(es) == \A e, f \in es : SameResource(e.key, f.key) => e = f
OneEntryPerObject == OneEach(entries)

\* The entries, read as WriteMemory's memory.
EntriesOf(es, o) == {e \in es : SameResource(e.key, o)}

MemoryOf(es, o) ==
  IF EntriesOf(es, o) = {} THEN Nothing
  ELSE LET e == CHOOSE e \in EntriesOf(es, o) : TRUE
       IN [payload |-> e.key.fingerprint, err |-> e.err]

Memory == 
  INSTANCE WriteMemory WITH memory <- [o \in Objects |-> MemoryOf(entries, o)]

\* The guard implements the promise of WriteMemory: Suppress answers exactly
\* the rejection last recorded for the same object, and nothing else.
ImplementsMemory == Memory!MemSpec
==============================================================================
