----------------------------- MODULE MCKargoAgent -----------------------------
(***************************************************************************)
(* Instances of KargoAgent.                                                *)
(***************************************************************************)
EXTENDS KargoAgent

MCReadFaults ==
  {GatewayError("Unavailable", {}), Opaque({}),
   GatewayError("InvalidArgument", {"still being provisioned"})}
MCWriteFaults == {GatewayError("Unavailable", {}), GatewayError("PermissionDenied", {})}
===============================================================================
