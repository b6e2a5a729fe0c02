-------------------------------- MODULE Reason --------------------------------
(***************************************************************************)
(* internal/reason: how an error of one gateway or cluster call is tagged  *)
(* on its way to the controllers, and what the predicates they branch on   *)
(* say of it.  The module is constant: errors are records, and wrapping,   *)
(* tagging and classifying are operators on them.                          *)
(*                                                                         *)
(* An error is abstracted to what the predicates tell apart: the gRPC code *)
(* status.FromError finds in its chain, or "opaque" when it finds none;    *)
(* the sentinel types errors.Is finds; and which of the substrings the     *)
(* package searches for occur in its text.  fmt.Errorf with %w keeps all   *)
(* three.  Terminal has an Unwrap method and keeps what it wraps visible;  *)
(* Retryable, NotFound and NotReconciled have none and hide it.            *)
(***************************************************************************)

TransientCodes ==
  {"Unavailable", "DeadlineExceeded", "Aborted", "ResourceExhausted", "Internal"}

\* "Unknown" stands for the codes no predicate asks about.
Codes ==
  TransientCodes \cup
  {"InvalidArgument", "PermissionDenied", "NotFound", "FailedPrecondition",
   "Canceled", "Unknown", "opaque"}

Tags == {"terminal", "retryable", "notfound", "notreconciled"}

\* "network" is any of connection refused, connection reset, no such host,
\* i/o timeout and EOF.
Texts == {"still being provisioned", "has not yet been reconciled", "network"}

Error == [code : Codes, tags : SUBSET Tags, says : SUBSET Texts]

GatewayError(code, says) == [code |-> code, tags |-> {}, says |-> says]
Opaque(says) == GatewayError("opaque", says)

-------------------------------------------------------------------------------
(* Sentinels *)

\* A wrapper without Unwrap: only its own type and its text are visible.
Sealed(tag, e) == [code |-> "opaque", tags |-> {tag}, says |-> e.says]

AsTerminal(e)      == [e EXCEPT !.tags = @ \cup {"terminal"}]
AsRetryable(e)     == Sealed("retryable", e)
AsNotFound(e)      == Sealed("notfound", e)
AsNotReconciled(e) == Sealed("notreconciled", e)

IsTerminal(e)      == "terminal" \in e.tags
IsNotFound(e)      == "notfound" \in e.tags
IsNotReconciled(e) == "notreconciled" \in e.tags

IsProvisioningWait(e) ==
  e.code = "InvalidArgument" /\ "still being provisioned" \in e.says

\* isRetryableGRPC: a transient code, the provisioning wait, or, whatever
\* the code is, a network-level substring.
IsRetryableGRPC(e) ==
  \/ e.code \in TransientCodes
  \/ IsProvisioningWait(e)
  \/ "network" \in e.says

IsRetryable(e) == "retryable" \in e.tags \/ IsRetryableGRPC(e)

-------------------------------------------------------------------------------
(* Classification *)

\* Mutant of ClassifyApplyError: the code decides alone.
ClassifyApplyByCode(e) ==
  IF e.code \in {"InvalidArgument", "PermissionDenied"} THEN AsTerminal(e) ELSE e

ClassifyApplyError(e) ==
  IF /\ ~IsTerminal(e) /\ ~IsRetryable(e)
     /\ e.code \in {"InvalidArgument", "PermissionDenied"}
  THEN AsTerminal(e) ELSE e

IsManifestWait(e) ==
  \/ IsNotReconciled(e)
  \/ e.code = "FailedPrecondition"
  \/ "has not yet been reconciled" \in e.says

\* Mutants of ClassifyManifestInstallError: retryable errors are not let
\* through; only raw ones are, not those already wrapped.
ClassifyInstallEager(e) ==
  IF IsTerminal(e) THEN e
  ELSE IF IsManifestWait(e) THEN AsRetryable(e) ELSE AsTerminal(e)
ClassifyInstallRaw(e) ==
  IF IsTerminal(e) \/ IsRetryableGRPC(e) THEN e
  ELSE IF IsManifestWait(e) THEN AsRetryable(e) ELSE AsTerminal(e)

ClassifyManifestInstallError(e) ==
  IF IsTerminal(e) \/ IsRetryable(e) THEN e
  ELSE IF IsManifestWait(e) THEN AsRetryable(e)
  ELSE AsTerminal(e)

\* The read boundary of akuity.client (GetCluster): a row that is missing and
\* a row the credential may not see are the same thing.
ReadError(e) ==
  IF e.code \in {"NotFound", "PermissionDenied"} THEN AsNotFound(e) ELSE e

\* Mutant of GetOutcome: a read that fails finds nothing.
GetOutcomeLenient(e) == IF IsProvisioningWait(e) THEN "provisioning" ELSE "absent"

\* base.ClassifyGetError, for a call that failed.
GetOutcome(e) ==
  IF IsNotFound(e) THEN "absent"
  ELSE IF IsProvisioningWait(e) THEN "provisioning"
  ELSE "terminal"
===============================================================================
