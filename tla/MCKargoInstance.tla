---------------------------- MODULE MCKargoInstance ----------------------------
(***************************************************************************)
(* Instances of KargoInstance.                                             *)
(***************************************************************************)
EXTENDS KargoInstance

MCReadFaults ==
  {GatewayError("Unavailable", {}),
   GatewayError("InvalidArgument", {"still being provisioned"})}
MCWriteFaults == {GatewayError("Unavailable", {}), GatewayError("PermissionDenied", {})}
===============================================================================
