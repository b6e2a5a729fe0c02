------------------------ MODULE MCTerminalWriteGuard ------------------------
(***************************************************************************)
(* Four objects: a Cluster deleted and created again under the same name   *)
(* (two UIDs), and two objects of different kinds known by name only, the  *)
(* fallback of sameTerminalWriteResource.                                  *)
(***************************************************************************)
EXTENDS TerminalWriteGuard

CONSTANTS u1, u2, n1, n2

MCObjects ==
  { [gvk |-> "Cluster", uid |-> u1, name |-> n1],
    [gvk |-> "Cluster", uid |-> u2, name |-> n1],
    [gvk |-> "Cluster", uid |-> NoUid, name |-> n2],
    [gvk |-> "KargoAgent", uid |-> NoUid, name |-> n2] }

\* A rejected payload, a denied write, an outage, and a call that was cut short.
MCErrors ==
  { ClassifyApplyError(GatewayError(code, {})) :
      code \in {"InvalidArgument", "PermissionDenied", "Unavailable", "Canceled"} }
=============================================================================
