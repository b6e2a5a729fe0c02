----------------------------- MODULE MCAgentSize -----------------------------
(***************************************************************************)
(* Two configurations and one pair of bounds; a size that scales, two that *)
(* do not, one the platform does not offer, and custom.                    *)
(***************************************************************************)
EXTENDS AgentSize

CONSTANTS MaxEdits, MaxForeign

MCLimit == [edits |-> MaxEdits, foreign |-> MaxForeign]
==============================================================================
