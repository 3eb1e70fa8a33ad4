-------------------------- MODULE MCAgentRequests --------------------------
(***************************************************************************)
(* Instance of AgentRequests for TLC: two processes, whose pools two of    *)
(* the requests can exhaust.                                               *)
(***************************************************************************)
EXTENDS AgentRequests
=============================================================================
