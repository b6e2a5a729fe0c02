------------------------------ MODULE MCInstance ------------------------------
(***************************************************************************)
(* Instances of Instance.                                                  *)
(***************************************************************************)
EXTENDS Instance

MCReadFaults ==
  {GatewayError("Unavailable", {}),
   GatewayError("InvalidArgument", {"still being provisioned"})}
MCWriteFaults == {GatewayError("Unavailable", {}), GatewayError("PermissionDenied", {})}
===============================================================================
