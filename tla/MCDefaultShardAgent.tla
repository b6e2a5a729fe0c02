------------------------- MODULE MCDefaultShardAgent -------------------------
(***************************************************************************)
(* Instances of DefaultShardAgent.                                         *)
(***************************************************************************)
EXTENDS DefaultShardAgent

MCReadFaults ==
  {GatewayError("Unavailable", {}),
   GatewayError("InvalidArgument", {"still being provisioned"})}
MCWriteFaults == {GatewayError("Unavailable", {}), GatewayError("PermissionDenied", {})}

\* The MRs start with different agents; an edit may give them the same one.
MCStarts == {[m \in Mrs |-> IF m = "m1" THEN "blue" ELSE "green"]}
==============================================================================
