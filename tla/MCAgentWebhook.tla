--------------------------- MODULE MCAgentWebhook ---------------------------
(* AgentWebhook for TLC: calls are model values. *)
EXTENDS AgentWebhook

CONSTANTS c1, c2, c3
=============================================================================
