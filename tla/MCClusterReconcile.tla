------------------------- MODULE MCClusterReconcile -------------------------
(***************************************************************************)
(* Instances of ClusterReconcile.  Faults are drawn from one error of each *)
(* kind the controllers treat differently.                                 *)
(***************************************************************************)
EXTENDS ClusterReconcile, Sequences

CONSTANTS MaxFaults, MaxEdits, MaxDrops, MaxCrashes

MCLimit ==
  [faults |-> MaxFaults, edits |-> MaxEdits, drops |-> MaxDrops, crashes |-> MaxCrashes]

\* metadata.name and spec.forProvider.name: equal, or different.
SameName == [c \in Clusters |-> c]
OtherName == [c \in Clusters |-> "row of " \o c]
SameNames == Clusters
OtherNames == Clusters \cup {OtherName[c] : c \in Clusters}

Unavailable == GatewayError("Unavailable", {})
Denied == GatewayError("PermissionDenied", {})
Provisioning == GatewayError("InvalidArgument", {"still being provisioned"})
Cancelled == GatewayError("Canceled", {})

AllReadFaults == {Unavailable, Denied, Provisioning}
SafeReadFaults == {Unavailable, Provisioning}
AllWriteFaults == {Unavailable, Denied, Cancelled}
PassingWriteFaults == {Unavailable, Provisioning}
MCTargetFaults == {Opaque({}), Opaque({"network"})}
PassingTargetFaults == {Opaque({"network"})}
\* A read that is too early to see what has just been written.
LaggingReads == {GatewayError("NotFound", {})}
=============================================================================
