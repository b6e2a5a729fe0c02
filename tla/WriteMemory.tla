----------------------------- MODULE WriteMemory -----------------------------
(***************************************************************************)
(* What the terminal-write guard promises, without its key map.            *)
(*                                                                         *)
(* For every managed object the provider remembers at most one outbound    *)
(* payload that the gateway rejected for good, together with the error the *)
(* user must see.  An Observe that asks about exactly that payload is      *)
(* answered with the error; asking about any other payload, or asking      *)
(* while the object is being deleted, forgets it.                          *)
(***************************************************************************)

CONSTANTS
  Objects,         \* managed objects
  Payloads,        \* effective outbound payloads (fingerprints)
  Errors,          \* errors a write can return
  TerminalErrors,  \* those the user has to fix
  Nothing,         \* no payload is remembered
  Miss             \* the answer "not suppressed"

VARIABLES
  memory,  \* memory[o]: the rejected payload of o and its error, or Nothing
  answer   \* the result of the last question

memVars == <<memory, answer>>

MemInit ==
  /\ memory = [o \in Objects |-> Nothing]
  /\ answer = Miss

Forgotten(o) == [memory EXCEPT ![o] = Nothing]

\* A write of payload p for o failed with err.
Remember(o, p, err) ==
  /\ memory' = IF err \in TerminalErrors
               THEN [memory EXCEPT ![o] = [payload |-> p, err |-> err]]
               ELSE memory
  /\ UNCHANGED answer

\* A write for o succeeded, or o is on its way out.
Forget(o) ==
  /\ memory' = Forgotten(o)
  /\ UNCHANGED answer

Remembered(o, p) == memory[o] # Nothing /\ memory[o].payload = p

\* Observe asks whether writing p for o would repeat a rejected write.
Ask(o, p, deleting) ==
  \/ /\ ~deleting
     /\ Remembered(o, p)
     /\ answer' = memory[o].err
     /\ UNCHANGED memory
  \/ /\ deleting \/ ~Remembered(o, p)
     /\ answer' = Miss
     /\ memory' = Forgotten(o)

MemNext ==
  \E o \in Objects :
    \/ Forget(o)
    \/ \E p \in Payloads :
         \/ \E err \in Errors : Remember(o, p, err)
         \/ \E deleting \in BOOLEAN : Ask(o, p, deleting)

MemSpec == MemInit /\ [][MemNext]_memVars
==============================================================================
