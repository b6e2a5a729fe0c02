------------------------ MODULE MCInstanceIpAllowList ------------------------
(***************************************************************************)
(* Instances of InstanceIpAllowList.                                       *)
(***************************************************************************)
EXTENDS InstanceIpAllowList

CONSTANTS MaxFaults, MaxEdits, MaxParent, MaxCrashes

MCLimit ==
  [faults |-> MaxFaults, edits |-> MaxEdits, parent |-> MaxParent,
   crashes |-> MaxCrashes]

Unavailable == GatewayError("Unavailable", {})
Denied == GatewayError("PermissionDenied", {})
Provisioning == GatewayError("InvalidArgument", {"still being provisioned"})

MCReadFaults == {Unavailable, Provisioning}
MCWriteFaults == {Unavailable, Denied}
PassingWriteFaults == {Unavailable}
=============================================================================
