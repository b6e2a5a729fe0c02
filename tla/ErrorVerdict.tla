----------------------------- MODULE ErrorVerdict -----------------------------
(***************************************************************************)
(* The path of one error through the provider: raised by the gateway or by *)
(* the provider itself, passed through the read boundary of akuity.client  *)
(* when a read raised it, and given its verdict by the controller that     *)
(* made the call.  A verdict may be asked for again by an outer caller.    *)
(***************************************************************************)
EXTENDS Reason

VARIABLES
  raised,  \* the error as the call returned it
  err,     \* the error as it is now
  at       \* how far it has come

verdictVars == <<raised, err, at>>

\* What a call can return: any gateway error, a dial or decode error without
\* a status ...
GatewayErrors == {GatewayError(code, says) : code \in Codes, says \in SUBSET Texts}

\* ... a configuration error the provider tags itself, and the wait of
\* checkClusterReconciled.
OwnErrors ==
  {AsTerminal(Opaque({})), AsNotReconciled(Opaque({"has not yet been reconciled"}))}

Raisable == GatewayErrors \cup OwnErrors

VerdictInit ==
  /\ raised \in Raisable
  /\ err = raised
  /\ at = "raised"

\* GetCluster and the reads built on it.
CrossReadBoundary ==
  /\ at = "raised"
  /\ err' = ReadError(err)
  /\ at' = "read"
  /\ UNCHANGED raised

\* ApplyInstance, SetClusterMaintenanceMode, ApplyKargoInstance.
ClassifyWrite ==
  /\ at \in {"raised", "apply"}
  /\ err' = ClassifyApplyError(err)
  /\ at' = "apply"
  /\ UNCHANGED raised

\* GetClusterManifests and ApplyManifestsToTarget.
ClassifyInstall ==
  /\ at \in {"raised", "read", "install"}
  /\ err' = ClassifyManifestInstallError(err)
  /\ at' = "install"
  /\ UNCHANGED raised

VerdictNext == CrossReadBoundary \/ ClassifyWrite \/ ClassifyInstall

VerdictSpec == VerdictInit /\ [][VerdictNext]_verdictVars

-------------------------------------------------------------------------------
(* Properties *)

\* Every error on the path is one of the package's errors.
VerdictTypeOK ==
  /\ raised \in Error
  /\ err \in Error
  /\ at \in {"raised", "read", "apply", "install"}

\* A verdict is never both "fix your spec" (cached, no more writes) and "try
\* again", and an install failure always gets one of the two: otherwise
\* ClassifyManifestInstallError would leave a Create that stamps and rolls
\* back its row on every poll (terminal.go:70-75).
VerdictsDisjoint ==
  /\ at \in {"apply", "install"} => ~(IsTerminal(err) /\ IsRetryable(err))
  /\ at = "install" => (IsTerminal(err) <=> ~IsRetryable(err))

\* An error that only says "not yet" never becomes terminal, whichever
\* boundary and classifier it passes: cached, it would stop a Cluster that
\* only had to wait for its parent (terminal.go:70-74, retryable.go:62-67).
WaitsAreNotCached ==
  \/ IsProvisioningWait(raised)
  \/ IsNotReconciled(raised)
  \/ raised.code \in TransientCodes
  => ~IsTerminal(err)

\* "already-wrapped errors pass through unchanged" (terminal.go:43-44): asking
\* again changes neither verdict nor error.
ReclassifyIsStable == [][at' = at => err' = err]_verdictVars

\* "codes.InvalidArgument outside of the 'still being provisioned' wait
\* pattern is the canonical bad-input signal" (terminal.go:46-47).
BadInputIsTerminal ==
  at = "apply" /\ raised.code = "InvalidArgument" /\ ~IsProvisioningWait(raised)
  => IsTerminal(err)
===============================================================================
